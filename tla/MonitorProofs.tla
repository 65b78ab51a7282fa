--------------------------- MODULE MonitorProofs ----------------------------
(***************************************************************************)
(* What every behaviour of Monitor satisfies, for all targets, sinks,      *)
(* faults, thresholds and clocks.                                          *)
(***************************************************************************)
EXTENDS Monitor, EvaluatorProofs, SequenceTheorems

(* An entry without pending problems counts none. *)
LEMMA NoCountsType == NoCounts \in [AlertKinds -> Nat]
  BY DEF NoCounts

(* The initial state is well typed. *)
LEMMA InitTypeOK == Init => TypeOK
<1> SUFFICES ASSUME Init PROVE TypeOK
  OBVIOUS
<1>1. heard \in [Sinks -> [Names -> SUBSET AlertKinds]]
  BY DEF Init
<1>2. streak \in [Names -> [AlertKinds -> Nat]]
  BY NoCountsType DEF Init
<1>3. roster \in Seq(Targets) /\ todo \subseteq DOMAIN roster
  BY DEF Init
<1>4. outcomes \in [DOMAIN outcomes -> Outcomes]
  BY DEF Init
<1>5. QED
  BY <1>1, <1>2, <1>3, <1>4, EmptyStoreType DEF Init, TypeOK, Phases

(* The locals of run_once are well typed once it returned. *)
LEMMA CycleForgottenType ==
  ASSUME CycleForgotten
  PROVE  /\ mem' \in Stores /\ stored' \in Stores
         /\ roster' \in Seq(Targets) /\ todo' \subseteq DOMAIN roster'
         /\ todo' = {} /\ unsent' \subseteq Sinks
         /\ outcomes' \in [DOMAIN outcomes' -> Outcomes]
         /\ batch' \subseteq Events /\ delivered' \in BOOLEAN
  BY EmptyStoreType DEF CycleForgotten

(* The argument of an evaluation is well formed. *)
LEMMA CycleAtType ==
  ASSUME TypeOK, pc = "evaluating", NEW p \in todo
  PROVE  /\ CycleAt(p) \in Cycles
         /\ CycleAt(p).target.name = roster[p].name
         /\ roster[p].name \in Names
<1>1. roster[p] \in Targets /\ outcomes[p] \in Outcomes
  BY DEF TypeOK
<1>2. roster[p].name \in Names
  BY <1>1 DEF Targets
<1>3. mem[roster[p].name] \in TargetStates
  BY <1>2 DEF TypeOK, Stores
<1>4. (IF digest THEN 1 ELSE FailureThreshold) \in Nat \ {0}
  BY MonitorAssumption
<1>5. QED
  BY <1>1, <1>2, <1>3, <1>4, EmptyStateFacts DEF CycleAt, Cycles, TypeOK

(* What is about to be saved is a store. *)
LEMMA ToSaveType ==
  ASSUME TypeOK
  PROVE  Reverted \in Stores /\ ToSave \in Stores
<1>1. Reverted \in Stores
  BY SeenType DEF Reverted, TypeOK, Stores
<1>2. QED
  BY <1>1, PruneType DEF ToSave

(* A save keeps the counts numbers. *)
LEMMA NextStreakType ==
  ASSUME TypeOK
  PROVE  NextStreak \in [Names -> [AlertKinds -> Nat]]
  BY MonitorAssumption DEF NextStreak, TypeOK, Least

(* Every step keeps the types. *)
LEMMA NextTypeOK == TypeOK /\ [Next]_vars => TypeOK'
<1> SUFFICES ASSUME TypeOK, [Next]_vars PROVE TypeOK'
  OBVIOUS
<1> USE DEF cycleVars, outsideVars
<1>1. CASE Start
  BY <1>1, MonitorAssumption DEF Start, TypeOK, Phases
<1>2. CASE Stop
  BY <1>2 DEF Stop, TypeOK, Phases
<1>3. CASE Crash
  <2>1. /\ CycleForgotten
        /\ pc' = "down" /\ digest' = FALSE /\ faults' = faults + 1
        /\ UNCHANGED <<now, disk, heard, streak>>
    BY <1>3 DEF Crash, Fault
  <2>2. /\ mem' \in Stores /\ stored' \in Stores
        /\ roster' \in Seq(Targets) /\ todo' \subseteq DOMAIN roster'
        /\ outcomes' \in [DOMAIN outcomes' -> Outcomes]
        /\ unsent' \subseteq Sinks
        /\ batch' \subseteq Events /\ delivered' \in BOOLEAN
    BY <2>1, CycleForgottenType
  <2>3. digest' \in BOOLEAN
    BY <2>1
  <2>4. QED
    BY <2>1, <2>2, <2>3 DEF TypeOK, Phases
<1>4. CASE BeginCycle
  <2>1. PICK found \in Discoveries : roster' = Configured \o found
    BY <1>4 DEF BeginCycle
  <2>2. roster' \in Seq(Targets)
    BY <2>1, MonitorAssumption, ConcatProperties
  <2>3. todo' \subseteq DOMAIN roster'
    BY <1>4 DEF BeginCycle, Listed
  <2>4. mem' \in Stores /\ faults' \in Nat
    BY <1>4, EmptyStoreType DEF BeginCycle, Fault, TypeOK
  <2>5. QED
    BY <1>4, <2>2, <2>3, <2>4 DEF BeginCycle, TypeOK, Phases
<1>5. CASE CheckTargets
  <2>1. outcomes' \in [todo -> Outcomes] /\ todo' = todo
    BY <1>5 DEF CheckTargets
  <2>2. outcomes' \in [DOMAIN outcomes' -> Outcomes] /\ todo' \subseteq DOMAIN outcomes'
    BY <2>1
  <2>3. now' \in Nat
    BY <1>5, MonitorAssumption DEF CheckTargets, TypeOK
  <2>4. QED
    BY <1>5, <2>2, <2>3 DEF CheckTargets, TypeOK, Phases
<1>6. CASE CheckFails
  BY <1>6, CycleForgottenType DEF CheckFails, CycleFails, Fault, TypeOK, Phases
<1>7. CASE EvaluateNext
  <2>1. PICK p \in todo : 
          /\ todo' = todo \ {p}
          /\ stored' = [stored EXCEPT ![roster[p].name] = mem[roster[p].name]]
          /\ mem' = [mem EXCEPT ![roster[p].name] = Seen(StateOf(CycleAt(p)), now)]
          /\ batch' = batch \cup EventsOf(CycleAt(p))
    BY <1>7 DEF EvaluateNext
  <2>2. pc = "evaluating"
    BY <1>7 DEF EvaluateNext
  <2>3. CycleAt(p) \in Cycles /\ roster[p].name \in Names
    BY <2>2, CycleAtType
  <2>4. Seen(StateOf(CycleAt(p)), now) \in TargetStates
    BY <2>3, StateOfType, SeenType DEF TypeOK
  <2>5. mem' \in Stores /\ stored' \in Stores
    BY <2>1, <2>3, <2>4 DEF TypeOK, Stores
  <2>6. batch' \subseteq Events
    BY <2>1, <2>3, EventsOfType DEF TypeOK
  <2>7. QED
    BY <1>7, <2>1, <2>5, <2>6 DEF EvaluateNext, TypeOK, Phases
<1>8. ASSUME NEW s \in Sinks, Deliver(s) PROVE TypeOK'
  <2>1. \A n \in Names : Read(heard[s][n], n, Kept(s, batch)) \subseteq AlertKinds
    BY DEF TypeOK, Read, AlertKinds
  <2>2. heard' \in [Sinks -> [Names -> SUBSET AlertKinds]]
    BY <1>8, <2>1 DEF Deliver, Hears, TypeOK
  <2>3. delivered' \in BOOLEAN /\ faults' \in Nat
    <3>1. \/ delivered' = delivered /\ faults' = faults
          \/ delivered' = FALSE /\ faults' = faults + 1
      BY <1>8, Zenon DEF Deliver, Fault
    <3>2. delivered' \in BOOLEAN
      BY <3>1, Zenon DEF TypeOK
    <3>3. faults' \in Nat
      BY <3>1 DEF TypeOK
    <3>4. QED
      BY <3>2, <3>3
  <2>4. /\ unsent' \subseteq Sinks
        /\ UNCHANGED <<pc, digest, mem, roster, todo, outcomes, stored, batch, now, disk, streak>>
    BY <1>8 DEF Deliver, TypeOK
  <2>5. QED
    BY <2>2, <2>3, <2>4 DEF TypeOK
<1>9. CASE Persist
  <2>1. disk' \in Stores /\ streak' \in [Names -> [AlertKinds -> Nat]]
    BY <1>9, ToSaveType, NextStreakType DEF Persist
  <2>2. CASE PrometheusFile
    BY <1>9, <2>1, <2>2 DEF Persist, TypeOK, Phases
  <2>3. CASE ~PrometheusFile
    BY <1>9, <2>1, <2>3, CycleForgottenType DEF Persist, CycleReturns, TypeOK, Phases
  <2>4. QED
    BY <2>2, <2>3
<1>10. CASE SaveFails
  BY <1>10, CycleForgottenType DEF SaveFails, CycleFails, Fault, TypeOK, Phases
<1>11. CASE ExportMetrics
  BY <1>11, CycleForgottenType DEF ExportMetrics, CycleReturns, TypeOK, Phases
<1>12. CASE ExportFails
  BY <1>12, CycleForgottenType DEF ExportFails, CycleFails, Fault, TypeOK, Phases
<1>13. CASE UNCHANGED vars
  BY <1>13 DEF vars, TypeOK
<1>14. QED
  BY <1>1, <1>2, <1>3, <1>4, <1>5, <1>6, <1>7, <1>8, <1>9, <1>10, <1>11, <1>12,
     <1>13 DEF Next

(* Every variable of run_once, run_loop and their surroundings has its type. *)
THEOREM TypeCorrect == Spec => []TypeOK
<1>1. Init => TypeOK
  BY InitTypeOK
<1>2. TypeOK /\ [Next]_vars => TypeOK'
  BY NextTypeOK
<1>3. QED
  BY <1>1, <1>2, PTL DEF Spec

-----------------------------------------------------------------------------
(* AlertBookkeeping is about the state file; what makes it inductive is that*)
(* the store in memory and the entries kept for a revert satisfy it too.    *)
IsBygone(state) == Bygone(state, FailureThreshold, now)

Bookkept ==
  \A n \in Names : IsBygone(disk[n]) /\ IsBygone(mem[n]) /\ IsBygone(stored[n])

(* An entry never seen is bygone at any time. *)
LEMMA EmptyBygone ==
  ASSUME NEW t \in Nat
  PROVE  Bygone(EmptyState, FailureThreshold, t)
  BY EmptyStateFacts, MonitorAssumption DEF Bygone, EmptyState

(* Once bygone, bygone for ever. *)
LEMMA BygoneLater ==
  ASSUME NEW state \in TargetStates, NEW t \in Nat, NEW u \in Nat, t <= u,
         Bygone(state, FailureThreshold, t)
  PROVE  Bygone(state, FailureThreshold, u)
<1>1. state.seen \in Nat \cup {None}
  BY DEF TargetStates
<1>2. state.seen # None => state.seen <= u
  BY <1>1 DEF Bygone
<1>3. QED
  BY <1>2 DEF Bygone

(* The result of one evaluation, stamped, is bygone. *)
LEMMA EvaluatedBygone ==
  ASSUME TypeOK, Bookkept, pc = "evaluating", NEW p \in todo
  PROVE  IsBygone(Seen(StateOf(CycleAt(p)), now))
<1> DEFINE c == CycleAt(p)
<1>1. c \in Cycles /\ roster[p].name \in Names
  BY CycleAtType
<1>2. /\ c.now = now
      /\ c.threshold = IF digest THEN 1 ELSE FailureThreshold
      /\ c.previous = IF digest THEN EmptyState ELSE mem[roster[p].name]
  BY DEF CycleAt
<1>3. FailureThreshold \in Nat \ {0} /\ c.threshold <= FailureThreshold
  BY <1>2, MonitorAssumption
<1>4. now \in Nat
  BY DEF TypeOK
<1>5. Bygone(c.previous, FailureThreshold, c.now)
  <2>1. CASE digest
    BY <2>1, <1>2, <1>4, EmptyBygone
  <2>2. CASE ~digest
    BY <2>2, <1>1, <1>2 DEF Bookkept, IsBygone
  <2>3. QED
    BY <2>1, <2>2
<1>6. Bygone(Seen(StateOf(c), c.now), FailureThreshold, c.now)
  BY <1>1, <1>3, <1>5, EvaluationCoherent
<1>7. QED
  BY <1>2, <1>6 DEF IsBygone

(* What is about to be saved is bygone, reverted or not, pruned or not. *)
LEMMA ToSaveBygone ==
  ASSUME TypeOK, Bookkept, NEW n \in Names
  PROVE  IsBygone(ToSave[n])
<1>1. now \in Nat /\ stored[n] \in TargetStates /\ FailureThreshold \in Nat
  BY MonitorAssumption DEF TypeOK, Stores
<1>2. IsBygone(Seen(stored[n], now))
  BY <1>1, SeenCoherent DEF Bookkept, IsBygone
<1>3. IsBygone(Reverted[n])
  BY <1>2 DEF Reverted, Bookkept
<1>4. ToSave[n] = Reverted[n] \/ ToSave[n] = EmptyState
  BY DEF ToSave, Prune
<1>5. QED
  BY <1>1, <1>3, <1>4, EmptyBygone DEF IsBygone

(* Every step keeps all entries bygone. *)
LEMMA NextBookkept == TypeOK /\ TypeOK' /\ Bookkept /\ [Next]_vars => Bookkept'
<1> SUFFICES ASSUME TypeOK, TypeOK', Bookkept, [Next]_vars PROVE Bookkept'
  OBVIOUS
<1> USE DEF cycleVars, outsideVars
<1>0. now \in Nat /\ \A n \in Names : EmptyStore[n] = EmptyState
  BY DEF TypeOK, EmptyStore
<1>1. ASSUME UNCHANGED <<disk, mem, stored, now>> PROVE Bookkept'
  BY <1>1 DEF Bookkept, IsBygone
<1>2. ASSUME CycleForgotten, UNCHANGED <<disk, now>> PROVE Bookkept'
  <2>1. \A n \in Names : mem'[n] = EmptyState /\ stored'[n] = EmptyState
    BY <1>0, <1>2 DEF CycleForgotten
  <2>2. QED
    BY <1>0, <1>2, <2>1, EmptyBygone DEF Bookkept, IsBygone
<1>3. CASE BeginCycle
  <2>1. (mem' = disk \/ mem' = EmptyStore) /\ UNCHANGED <<disk, stored, now>>
    BY <1>3 DEF BeginCycle
  <2>2. \A n \in Names : mem'[n] = disk[n] \/ mem'[n] = EmptyState
    BY <1>0, <2>1
  <2>3. QED
    BY <1>0, <2>1, <2>2, EmptyBygone DEF Bookkept, IsBygone
<1>4. CASE CheckTargets
  <2>1. PICK d \in Ticks : now' = now + d
    BY <1>4 DEF CheckTargets
  <2>2. now' \in Nat /\ now <= now'
    BY <1>0, <2>1, MonitorAssumption
  <2>3. UNCHANGED <<disk, mem, stored>>
    BY <1>4 DEF CheckTargets
  <2>4. \A n \in Names :
          disk[n] \in TargetStates /\ mem[n] \in TargetStates /\ stored[n] \in TargetStates
    BY DEF TypeOK, Stores
  <2>5. QED
    BY <1>0, <2>2, <2>3, <2>4, BygoneLater DEF Bookkept, IsBygone
<1>5. CASE EvaluateNext
  <2>1. PICK p \in todo :
          /\ stored' = [stored EXCEPT ![roster[p].name] = mem[roster[p].name]]
          /\ mem' = [mem EXCEPT ![roster[p].name] = Seen(StateOf(CycleAt(p)), now)]
    BY <1>5 DEF EvaluateNext
  <2>2. UNCHANGED <<disk, now>> /\ pc = "evaluating"
    BY <1>5 DEF EvaluateNext
  <2>3. IsBygone(Seen(StateOf(CycleAt(p)), now)) /\ roster[p].name \in Names
    BY <2>2, EvaluatedBygone, CycleAtType
  <2>4. \A n \in Names :
          /\ mem'[n] = Seen(StateOf(CycleAt(p)), now) \/ mem'[n] = mem[n]
          /\ stored'[n] = mem[n] \/ stored'[n] = stored[n]
    BY <2>1, <2>3 DEF TypeOK, Stores
  <2>5. QED
    BY <2>2, <2>3, <2>4 DEF Bookkept, IsBygone
<1>6. CASE Persist
  <2>1. \A n \in Names : Bygone(disk'[n], FailureThreshold, now')
    BY <1>6, ToSaveBygone DEF Persist, IsBygone
  <2>2. CASE PrometheusFile
    BY <1>6, <2>1, <2>2 DEF Persist, Bookkept, IsBygone
  <2>3. CASE ~PrometheusFile
    <3>1. CycleForgotten /\ now' = now
      BY <1>6, <2>3 DEF Persist, CycleReturns
    <3>2. \A n \in Names : mem'[n] = EmptyState /\ stored'[n] = EmptyState
      BY <1>0, <3>1 DEF CycleForgotten
    <3>3. QED
      BY <1>0, <2>1, <3>1, <3>2, EmptyBygone DEF Bookkept, IsBygone
  <2>4. QED
    BY <2>2, <2>3
<1>7. CASE Start
  BY <1>1, <1>7 DEF Start
<1>8. CASE Stop
  BY <1>1, <1>8 DEF Stop
<1>9. CASE Crash
  BY <1>2, <1>9 DEF Crash
<1>10. CASE CheckFails
  BY <1>2, <1>10 DEF CheckFails, CycleFails
<1>11. ASSUME NEW s \in Sinks, Deliver(s) PROVE Bookkept'
  BY <1>1, <1>11 DEF Deliver
<1>12. CASE SaveFails
  BY <1>2, <1>12 DEF SaveFails, CycleFails
<1>13. CASE ExportMetrics
  BY <1>2, <1>13 DEF ExportMetrics, CycleReturns
<1>14. CASE ExportFails
  BY <1>2, <1>14 DEF ExportFails, CycleFails
<1>15. CASE UNCHANGED vars
  BY <1>1, <1>15 DEF vars
<1>16. QED
  BY <1>3, <1>4, <1>5, <1>6, <1>7, <1>8, <1>9, <1>10, <1>11, <1>12, <1>13, <1>14,
     <1>15 DEF Next

(* Every entry of the state file is coherent and from the past, whatever    *)
(* cycles, failures, crashes and reverts produced it.                       *)
THEOREM BookkeepingCorrect == Spec => []AlertBookkeeping
<1>1. Init => Bookkept
  BY EmptyBygone DEF Init, Bookkept, IsBygone, EmptyStore
<1>2. TypeOK /\ TypeOK' /\ Bookkept /\ [Next]_vars => Bookkept'
  BY NextBookkept
<1>3. Bookkept => AlertBookkeeping
  BY DEF Bookkept, IsBygone, Bygone, AlertBookkeeping
<1>4. QED
  BY <1>1, <1>2, <1>3, TypeCorrect, PTL DEF Spec

-----------------------------------------------------------------------------
(* No two configured targets share a name.  Without it the second entry     *)
(* overwrites what run_once keeps for a revert (scheduler.py line 173).     *)
NamesApart ==
  \A p, q \in DOMAIN Configured : Configured[p].name = Configured[q].name => p = q

(* Inside a cycle, how the store in memory, the entries kept for a revert   *)
(* and the events relate to the state file the cycle was loaded from.       *)
Accounted ==
  /\ todo \subseteq Listed(roster)
  /\ pc \in {"checking", "evaluating"} =>
       /\ \E found \in Discoveries : roster = Configured \o found
       /\ \A p \in todo : mem[roster[p].name].active \subseteq disk[roster[p].name].active
       /\ \A e \in batch : stored[e.target].active \subseteq disk[e.target].active
       /\ \A n \in Names : \A k \in mem[n].active \ disk[n].active :
            Problem(n, k) \in batch \/ Accepted(n, k)
  /\ pc \in {"down", "asleep", "checking"} => batch = {}

(* The listed positions of a cycle's roster carry different names. *)
LEMMA ListedApart ==
  ASSUME NamesApart, TypeOK,
         NEW found \in Discoveries, roster = Configured \o found,
         NEW p \in Listed(roster), NEW q \in Listed(roster),
         roster[p].name = roster[q].name
  PROVE  p = q
<1>1. Configured \in Seq(Targets) /\ found \in Seq(Targets)
  BY MonitorAssumption
<1>2. /\ DOMAIN Configured = 1..Len(Configured) /\ Len(Configured) \in Nat
      /\ DOMAIN roster = 1..Len(roster) /\ Len(roster) \in Nat
      /\ \A i \in 1..Len(Configured) : roster[i] = Configured[i]
  BY <1>1, ConcatProperties, LenProperties DEF TypeOK
<1>3. p \in Nat /\ q \in Nat /\ p >= 1 /\ q >= 1
  BY <1>2 DEF Listed
<1>4. CASE p <= Len(Configured) /\ q <= Len(Configured)
  BY <1>2, <1>3, <1>4 DEF NamesApart
<1>5. CASE p > Len(Configured) /\ q < p
  BY <1>3, <1>5 DEF Listed
<1>6. CASE q > Len(Configured) /\ p < q
  BY <1>3, <1>6 DEF Listed
<1>7. QED
  BY <1>2, <1>3, <1>4, <1>5, <1>6

(* An alert an evaluation makes active, and that was not stored before, has *)
(* its event or is accepted, with or without the startup digest.            *)
LEMMA NewAlertHasEvent ==
  ASSUME TypeOK, pc = "evaluating", NEW p \in todo, p \in Listed(roster),
         NEW k \in StateOf(CycleAt(p)).active,
         k \notin mem[roster[p].name].active
  PROVE  Problem(roster[p].name, k) \in EventsOf(CycleAt(p)) \/ Accepted(roster[p].name, k)
<1> DEFINE c == CycleAt(p)
<1>1. /\ c \in Cycles /\ c.target = roster[p]
      /\ c.previous = IF digest THEN EmptyState ELSE mem[roster[p].name]
  BY CycleAtType DEF CycleAt
<1>2. k \notin c.previous.active
  BY <1>1 DEF EmptyState
<1>3. CASE c.outcome.reachable
  <2>1. k \in NewActive(c)
    BY <1>3 DEF StateOf, ReachableState
  <2>2. k \in Shown(c)
    BY <1>2, <2>1 DEF Shown, Due
  <2>3. QED
    BY <1>1, <1>3, <2>2 DEF EventsOf, ReachableEvents
<1>4. CASE ~c.outcome.reachable
  <2>1. Confirmed(c, Unreachable) /\ k = Unreachable
    BY <1>4 DEF StateOf, UnreachableState, EmptyState
  <2>2. CASE Unreachable \in c.target.expect
    BY <1>1, <2>1, <2>2 DEF Accepted
  <2>3. CASE Unreachable \notin c.target.expect
    <3>1. AnnounceUnreachable(c)
      BY <1>2, <2>1, <2>3 DEF AnnounceUnreachable, Due
    <3>2. QED
      BY <1>1, <1>4, <2>1, <3>1 DEF EventsOf, UnreachableEvents
  <2>4. QED
    BY <2>2, <2>3
<1>5. QED
  BY <1>3, <1>4

(* What an evaluation leaves as it was, and what it sets. *)
LEMMA EvaluateEffect ==
  ASSUME TypeOK, pc = "evaluating", NEW p \in todo,
         stored' = [stored EXCEPT ![roster[p].name] = mem[roster[p].name]],
         mem' = [mem EXCEPT ![roster[p].name] = Seen(StateOf(CycleAt(p)), now)]
  PROVE  /\ roster[p].name \in Names
         /\ stored'[roster[p].name] = mem[roster[p].name]
         /\ mem'[roster[p].name].active = StateOf(CycleAt(p)).active
         /\ \A n \in Names : n # roster[p].name => stored'[n] = stored[n] /\ mem'[n] = mem[n]
<1>1. CycleAt(p) \in Cycles /\ roster[p].name \in Names
  BY CycleAtType
<1>2. StateOf(CycleAt(p)) \in TargetStates
  BY <1>1, StateOfType
<1>3. Seen(StateOf(CycleAt(p)), now).active = StateOf(CycleAt(p)).active
  BY <1>2 DEF Seen, TargetStates
<1>4. QED
  BY <1>1, <1>3 DEF TypeOK, Stores

(* Evaluating one more result keeps the cycle accounted for. *)
LEMMA EvaluateAccounted ==
  ASSUME NamesApart, TypeOK, Accounted, EvaluateNext
  PROVE  Accounted'
<1>1. PICK p \in todo :
        /\ todo' = todo \ {p}
        /\ stored' = [stored EXCEPT ![roster[p].name] = mem[roster[p].name]]
        /\ mem' = [mem EXCEPT ![roster[p].name] = Seen(StateOf(CycleAt(p)), now)]
        /\ batch' = batch \cup EventsOf(CycleAt(p))
  BY DEF EvaluateNext
<1>2. pc = "evaluating" /\ UNCHANGED <<pc, digest, roster, disk>>
  BY DEF EvaluateNext, outsideVars
<1> DEFINE name == roster[p].name
<1>3. /\ name \in Names
      /\ stored'[name] = mem[name]
      /\ mem'[name].active = StateOf(CycleAt(p)).active
      /\ \A n \in Names : n # name => stored'[n] = stored[n] /\ mem'[n] = mem[n]
  BY <1>1, <1>2, EvaluateEffect
<1>4. mem[name].active \subseteq disk[name].active /\ p \in Listed(roster) /\ todo \subseteq Listed(roster)
  BY <1>2 DEF Accounted
<1>5. PICK found \in Discoveries : roster = Configured \o found
  BY <1>2 DEF Accounted
<1>6. Listed(roster)' = Listed(roster)
  BY <1>2 DEF Listed
<1>7. ASSUME NEW q \in todo' PROVE mem'[roster'[q].name].active \subseteq disk'[roster'[q].name].active
  <2>1. q \in todo /\ q # p
    BY <1>1
  <2>2. roster[q].name # name
    BY <1>4, <1>5, <2>1, ListedApart
  <2>3. roster[q].name \in Names
    BY <1>2, <2>1, CycleAtType
  <2>4. QED
    BY <1>2, <1>3, <2>1, <2>2, <2>3 DEF Accounted
<1>8. ASSUME NEW e \in batch' PROVE stored'[e.target].active \subseteq disk'[e.target].active
  <2>1. CASE e \in batch /\ e.target # name
    <3>1. e.target \in Names
      BY <2>1 DEF TypeOK, Events
    <3>2. QED
      BY <1>2, <1>3, <2>1, <3>1 DEF Accounted
  <2>2. CASE e.target = name
    BY <1>2, <1>3, <1>4, <2>2
  <2>3. CASE e \in EventsOf(CycleAt(p))
    <3>1. e.target = name
      BY <1>2, <2>3, CycleAtType, EventsOfType
    <3>2. QED
      BY <2>2, <3>1
  <2>4. QED
    BY <1>1, <2>1, <2>2, <2>3
<1>9. ASSUME NEW n \in Names, NEW k \in mem'[n].active \ disk'[n].active
      PROVE  Problem(n, k) \in batch' \/ Accepted(n, k)'
  <2>1. Accepted(n, k)' <=> Accepted(n, k)
    BY <1>2, <1>6 DEF Accepted
  <2>2. CASE n = name
    <3>1. k \in StateOf(CycleAt(p)).active /\ k \notin mem[name].active
      BY <1>2, <1>3, <1>4, <2>2
    <3>2. Problem(n, k) \in EventsOf(CycleAt(p)) \/ Accepted(n, k)
      BY <1>2, <1>4, <2>2, <3>1, NewAlertHasEvent
    <3>3. QED
      BY <1>1, <2>1, <3>2
  <2>3. CASE n # name
    BY <1>1, <1>2, <1>3, <2>1, <2>3 DEF Accounted
  <2>4. QED
    BY <2>2, <2>3
<1>10. QED
  BY <1>1, <1>2, <1>4, <1>5, <1>6, <1>7, <1>8, <1>9 DEF Accounted

(* Every step keeps the cycle accounted for. *)
LEMMA NextAccounted ==
  ASSUME NamesApart, TypeOK, Accounted, [Next]_vars
  PROVE  Accounted'
<1> USE DEF cycleVars, outsideVars
<1>1. ASSUME CycleForgotten, pc' \in {"down", "asleep"} PROVE Accounted'
  BY <1>1 DEF CycleForgotten, Accounted
<1>2. ASSUME UNCHANGED <<mem, roster, todo, stored, batch, disk>>,
             \/ pc' = pc
             \/ pc' = "evaluating" /\ pc = "checking"
             \/ pc' \in {"down", "asleep"} /\ pc \in {"down", "asleep"}
      PROVE  Accounted'
  <2>1. \A n \in Names, k \in AlertKinds : Accepted(n, k)' <=> Accepted(n, k)
    BY <1>2 DEF Accepted, Listed
  <2>2. Listed(roster)' = Listed(roster)
    BY <1>2 DEF Listed
  <2>3. \A n \in Names : mem[n].active \subseteq AlertKinds
    BY DEF TypeOK, Stores, TargetStates
  <2>4. QED
    BY <1>2, <2>1, <2>2, <2>3 DEF Accounted
<1>3. CASE BeginCycle
  <2>1. /\ pc = "asleep" /\ pc' = "checking"
        /\ mem' = disk \/ mem' = EmptyStore
        /\ disk' = disk /\ batch' = batch
        /\ todo' = Listed(roster')
        /\ \E found \in Discoveries : roster' = Configured \o found
    BY <1>3 DEF BeginCycle
  <2>2. batch' = {}
    BY <2>1 DEF Accounted
  <2>3. todo' \subseteq Listed(roster)'
    BY <2>1 DEF Listed
  <2>4. \A n \in Names : mem'[n].active \subseteq disk'[n].active
    BY <2>1 DEF EmptyStore, EmptyState
  <2>5. ASSUME NEW q \in todo' PROVE roster'[q].name \in Names
    <3>1. roster' \in Seq(Targets) /\ q \in DOMAIN roster'
      BY <2>1, NextTypeOK DEF TypeOK, Listed
    <3>2. roster'[q] \in Targets
      BY <3>1
    <3>3. QED
      BY <3>2 DEF Targets
  <2>6. QED
    BY <2>1, <2>2, <2>3, <2>4, <2>5 DEF Accounted
<1>4. CASE Persist
  <2>1. CASE PrometheusFile
    <3>1. pc' = "exporting" /\ UNCHANGED <<roster, todo>>
      BY <1>4, <2>1 DEF Persist
    <3>2. QED
      BY <3>1 DEF Accounted, Listed
  <2>2. CASE ~PrometheusFile
    BY <1>1, <1>4, <2>2 DEF Persist, CycleReturns
  <2>3. QED
    BY <2>1, <2>2
<1>5. CASE EvaluateNext
  BY <1>5, EvaluateAccounted
<1>6. CASE Start
  BY <1>2, <1>6 DEF Start
<1>7. CASE Stop
  BY <1>2, <1>7 DEF Stop
<1>8. CASE Crash
  BY <1>1, <1>8 DEF Crash
<1>9. CASE CheckTargets
  BY <1>2, <1>9 DEF CheckTargets
<1>10. CASE CheckFails
  BY <1>1, <1>10 DEF CheckFails, CycleFails
<1>11. ASSUME NEW s \in Sinks, Deliver(s) PROVE Accounted'
  BY <1>2, <1>11 DEF Deliver
<1>12. CASE SaveFails
  BY <1>1, <1>12 DEF SaveFails, CycleFails
<1>13. CASE ExportMetrics
  BY <1>1, <1>13 DEF ExportMetrics, CycleReturns
<1>14. CASE ExportFails
  BY <1>1, <1>14 DEF ExportFails, CycleFails
<1>15. CASE UNCHANGED vars
  BY <1>2, <1>15 DEF vars
<1>16. QED
  BY <1>3, <1>4, <1>5, <1>6, <1>7, <1>8, <1>9, <1>10, <1>11, <1>12, <1>13, <1>14,
     <1>15 DEF Next

(* A new alert in what is about to be saved was taken by every sink. *)
LEMMA NewAlertAnnounced ==
  ASSUME TypeOK, Accounted, Settled,
         NEW n \in Names, NEW k \in ToSave[n].active \ disk[n].active
  PROVE  Told(Problem(n, k)) \/ Accepted(n, k)
<1>1. pc = "evaluating" /\ (batch = {} \/ unsent = {})
  BY DEF Settled
<1>2. ToSave[n] = Reverted[n]
  BY DEF ToSave, Prune, EmptyState
<1>3. ASSUME ~delivered, NEW e \in batch, e.target = n PROVE FALSE
  <2>1. Reverted[n] = Seen(stored[n], now) /\ stored[n] \in TargetStates
    BY <1>3 DEF Reverted, TypeOK, Stores
  <2>2. Reverted[n].active = stored[n].active
    BY <2>1 DEF Seen, TargetStates
  <2>3. stored[n].active \subseteq disk[n].active
    BY <1>1, <1>3 DEF Accounted
  <2>4. QED
    BY <1>2, <2>2, <2>3
<1>4. k \in mem[n].active \ disk[n].active
  BY <1>2, <1>3 DEF Reverted
<1>5. Problem(n, k) \in batch \/ Accepted(n, k)
  BY <1>1, <1>4 DEF Accounted
<1>6. Problem(n, k) \in batch => delivered /\ unsent = {}
  BY <1>1, <1>3 DEF Problem, TypeOK
<1>7. QED
  BY <1>5, <1>6 DEF Told

(* As long as configured names are distinct, no failure, crash, refusal or  *)
(* lost answer records an alert that some sink was not given.               *)
THEOREM AnnouncementCorrect == NamesApart => (Spec => AlertsAnnounced)
<1> SUFFICES ASSUME NamesApart PROVE Spec => AlertsAnnounced
  OBVIOUS
<1> DEFINE Announced ==
      \A n \in Names : \A k \in disk'[n].active \ disk[n].active :
         Told(Problem(n, k)) \/ Accepted(n, k)
<1>1. Init => Accounted
  BY DEF Init, Accounted
<1>2. TypeOK /\ Accounted /\ [Next]_vars => Accounted'
  BY NextAccounted
<1>3. TypeOK /\ Accounted /\ [Next]_vars => [Announced]_disk
  <2> SUFFICES ASSUME TypeOK, Accounted, [Next]_vars, disk' # disk PROVE Announced
    OBVIOUS
  <2>1. Settled /\ disk' = ToSave
    BY DEF Next, vars, outsideVars, Start, Stop, Crash, BeginCycle, CheckTargets,
           CheckFails, EvaluateNext, Deliver, Persist, SaveFails, ExportMetrics,
           ExportFails
  <2>2. QED
    BY <2>1, NewAlertAnnounced
<1>4. QED
  BY <1>1, <1>2, <1>3, TypeCorrect, PTL DEF Spec, AlertsAnnounced
=============================================================================
