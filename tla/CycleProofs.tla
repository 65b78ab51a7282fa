---------------------------- MODULE CycleProofs -----------------------------
(***************************************************************************)
(* What a cycle of Monitor has done so far, and what follows from it for   *)
(* the state file it saves: rotations and recoveries are announced, absent *)
(* targets are remembered, expected problems are ignored.                  *)
(***************************************************************************)
EXTENDS MonitorProofs

(* The positions of the roster whose results are evaluated. *)
Done == Listed(roster) \ todo

(* A target's entry as run_once found it: the one on file, or none when the *)
(* file could not be read.                                                  *)
Loaded(n, entry) ==
  \/ entry = disk[n]
  \/ "unreadable" \in FaultKinds /\ entry = EmptyState

(* How far the cycle is.  Nothing is left of it between two cycles; in the  *)
(* middle, evaluated targets are stamped, events are about them, and the    *)
(* others have the entry that was loaded.                                   *)
Rounds ==
  /\ pc \in {"down", "asleep"} => roster = <<>> /\ todo = {} /\ batch = {}
  /\ pc \in {"checking", "evaluating", "exporting"} =>
       /\ \E found \in Discoveries : roster = Configured \o found
       /\ todo \subseteq Listed(roster)
       /\ \A p \in Done : mem[roster[p].name].seen = now
       /\ \A e \in batch : \E p \in Done : roster[p].name = e.target
  /\ pc = "checking" => todo = Listed(roster)
  /\ pc \in {"evaluating", "exporting"} => outcomes \in [Listed(roster) -> Outcomes]
  /\ pc = "exporting" => todo = {}
  /\ pc \in {"checking", "evaluating"} =>
       \A n \in Names : (\A p \in Done : roster[p].name # n) => Loaded(n, mem[n])

(* The name at a listed position is a target's name. *)
LEMMA ListedName ==
  ASSUME TypeOK, NEW p \in Listed(roster)
  PROVE  roster[p] \in Targets /\ roster[p].name \in Names
<1>1. roster[p] \in Targets
  BY DEF TypeOK, Listed
<1>2. QED
  BY <1>1 DEF Targets

(* One more evaluation: which positions are done, and what the entry of the *)
(* evaluated target becomes.                                                *)
LEMMA EvaluateSteps ==
  ASSUME TypeOK, Rounds, EvaluateNext
  PROVE  \E p \in todo :
           /\ p \in Listed(roster) /\ CycleAt(p) \in Cycles
           /\ roster[p].name \in Names
           /\ todo' = todo \ {p}
           /\ Done' = Done \cup {p}
           /\ batch' = batch \cup EventsOf(CycleAt(p))
           /\ \A e \in EventsOf(CycleAt(p)) : e.target = roster[p].name
           /\ stored'[roster[p].name] = mem[roster[p].name]
           /\ mem'[roster[p].name] = Seen(StateOf(CycleAt(p)), now)
           /\ mem'[roster[p].name].seen = now
           /\ \A n \in Names :
                n # roster[p].name => stored'[n] = stored[n] /\ mem'[n] = mem[n]
<1>1. PICK p \in todo :
        /\ todo' = todo \ {p}
        /\ stored' = [stored EXCEPT ![roster[p].name] = mem[roster[p].name]]
        /\ mem' = [mem EXCEPT ![roster[p].name] = Seen(StateOf(CycleAt(p)), now)]
        /\ batch' = batch \cup EventsOf(CycleAt(p))
  BY DEF EvaluateNext
<1>2. pc = "evaluating" /\ roster' = roster
  BY DEF EvaluateNext
<1>3. /\ CycleAt(p) \in Cycles /\ CycleAt(p).target.name = roster[p].name
      /\ roster[p].name \in Names
  BY <1>2, CycleAtType
<1>4. p \in Listed(roster)
  BY <1>2 DEF Rounds
<1>5. Done' = Done \cup {p}
  BY <1>1, <1>2, <1>4 DEF Done, Listed
<1>6. StateOf(CycleAt(p)) \in TargetStates
  BY <1>3, StateOfType
<1>7. Seen(StateOf(CycleAt(p)), now).seen = now
  BY <1>6 DEF Seen, TargetStates
<1>8. \A e \in EventsOf(CycleAt(p)) : e.target = roster[p].name
  BY <1>3, EventsOfType
<1>9. QED
  BY <1>1, <1>3, <1>4, <1>5, <1>7, <1>8 DEF TypeOK, Stores

(* What a cycle is about does not change while nothing of it is evaluated.  *)
LEMMA RoundsKept ==
  ASSUME Rounds, UNCHANGED <<mem, roster, todo, outcomes, batch, now, disk>>, pc' = pc
  PROVE  Rounds'
<1>1. Done' = Done /\ Listed(roster)' = Listed(roster)
  BY DEF Done, Listed
<1>2. \A n \in Names : Loaded(n, mem[n])' <=> Loaded(n, mem[n])
  BY DEF Loaded
<1>3. QED
  BY <1>1, <1>2 DEF Rounds

(* Every step keeps the cycle's books in order. *)
LEMMA NextRounds ==
  ASSUME TypeOK, Rounds, [Next]_vars
  PROVE  Rounds'
<1> USE DEF cycleVars, outsideVars
<1>1. ASSUME CycleForgotten, pc' \in {"down", "asleep"} PROVE Rounds'
  BY <1>1 DEF CycleForgotten, Rounds
<1>2. ASSUME UNCHANGED cycleVars, pc \in {"down", "asleep"}, pc' \in {"down", "asleep"}
      PROVE  Rounds'
  BY <1>2 DEF Rounds
<1>3. CASE BeginCycle
  <2>1. /\ pc = "asleep" /\ pc' = "checking"
        /\ mem' = disk \/ (mem' = EmptyStore /\ "unreadable" \in FaultKinds)
        /\ disk' = disk /\ batch' = batch
        /\ todo' = Listed(roster')
        /\ \E found \in Discoveries : roster' = Configured \o found
    BY <1>3 DEF BeginCycle, Fault
  <2>2. batch' = {} /\ todo' = Listed(roster)'
    BY <2>1 DEF Rounds, Listed
  <2>3. Done' = {}
    BY <2>2 DEF Done
  <2>4. \A n \in Names : Loaded(n, mem[n])'
    BY <2>1 DEF Loaded, EmptyStore
  <2>5. QED
    BY <2>1, <2>2, <2>3, <2>4 DEF Rounds
<1>4. CASE CheckTargets
  <2>1. /\ pc = "checking" /\ pc' = "evaluating"
        /\ outcomes' \in [todo -> Outcomes]
        /\ UNCHANGED <<mem, roster, todo, batch, disk>>
    BY <1>4 DEF CheckTargets
  <2>2. todo = Listed(roster) /\ Listed(roster)' = Listed(roster)
    BY <2>1 DEF Rounds, Listed
  <2>3. Done = {} /\ Done' = {}
    BY <2>1, <2>2 DEF Done
  <2>4. \A n \in Names : Loaded(n, mem[n])' <=> Loaded(n, mem[n])
    BY <2>1 DEF Loaded
  <2>5. batch = {} /\ \E found \in Discoveries : roster = Configured \o found
    BY <2>1, <2>3 DEF Rounds
  <2>6. outcomes' \in [Listed(roster)' -> Outcomes]
    BY <2>1, <2>2
  <2>7. QED
    BY <2>1, <2>2, <2>3, <2>4, <2>5, <2>6 DEF Rounds
<1>5. CASE EvaluateNext
  <2>1. PICK p \in todo :
          /\ p \in Listed(roster) /\ roster[p].name \in Names
          /\ todo' = todo \ {p}
          /\ Done' = Done \cup {p}
          /\ batch' = batch \cup EventsOf(CycleAt(p))
          /\ \A e \in EventsOf(CycleAt(p)) : e.target = roster[p].name
          /\ mem'[roster[p].name].seen = now
          /\ \A n \in Names : n # roster[p].name => mem'[n] = mem[n]
    BY <1>5, EvaluateSteps
  <2>2. pc = "evaluating" /\ UNCHANGED <<pc, roster, outcomes, now, disk>>
    BY <1>5 DEF EvaluateNext
  <2>3. Listed(roster)' = Listed(roster)
    BY <2>2 DEF Listed
  <2>4. \A q \in Done' : mem'[roster'[q].name].seen = now'
    <3> SUFFICES ASSUME NEW q \in Done' PROVE mem'[roster[q].name].seen = now
      BY <2>2
    <3>1. CASE roster[q].name = roster[p].name
      BY <2>1, <3>1
    <3>2. CASE roster[q].name # roster[p].name
      <4>1. q \in Done /\ q \in Listed(roster)
        BY <2>1, <3>2 DEF Done
      <4>2. roster[q].name \in Names
        BY <4>1, ListedName
      <4>3. QED
        BY <2>1, <2>2, <3>2, <4>1, <4>2 DEF Rounds
    <3>3. QED
      BY <3>1, <3>2
  <2>5. \A e \in batch' : \E q \in Done' : roster'[q].name = e.target
    BY <2>1, <2>2 DEF Rounds
  <2>6. ASSUME NEW n \in Names, \A q \in Done' : roster'[q].name # n
        PROVE  Loaded(n, mem[n])'
    <3>1. n # roster[p].name /\ \A q \in Done : roster[q].name # n
      BY <2>1, <2>2, <2>6
    <3>2. Loaded(n, mem[n]) /\ mem'[n] = mem[n]
      BY <2>1, <2>2, <3>1 DEF Rounds
    <3>3. QED
      BY <2>2, <3>2 DEF Loaded
  <2>7. todo' \subseteq Listed(roster)'
    BY <2>1, <2>2, <2>3 DEF Rounds
  <2>8. QED
    BY <2>2, <2>3, <2>4, <2>5, <2>6, <2>7 DEF Rounds
<1>6. CASE Persist
  <2>1. CASE PrometheusFile
    <3>1. /\ pc = "evaluating" /\ todo = {} /\ pc' = "exporting"
          /\ UNCHANGED <<mem, roster, todo, outcomes, batch, now>>
      BY <1>6, <2>1 DEF Persist, Settled
    <3>2. Done' = Done /\ Listed(roster)' = Listed(roster)
      BY <3>1 DEF Done, Listed
    <3>3. QED
      BY <3>1, <3>2 DEF Rounds
  <2>2. CASE ~PrometheusFile
    BY <1>1, <1>6, <2>2 DEF Persist, CycleReturns
  <2>3. QED
    BY <2>1, <2>2
<1>7. CASE Start
  BY <1>2, <1>7 DEF Start
<1>8. CASE Stop
  BY <1>2, <1>8 DEF Stop
<1>9. CASE Crash
  BY <1>1, <1>9 DEF Crash
<1>10. CASE CheckFails
  BY <1>1, <1>10 DEF CheckFails, CycleFails
<1>11. ASSUME NEW s \in Sinks, Deliver(s) PROVE Rounds'
  BY <1>11, RoundsKept DEF Deliver
<1>12. CASE SaveFails
  BY <1>1, <1>12 DEF SaveFails, CycleFails
<1>13. CASE ExportMetrics
  BY <1>1, <1>13 DEF ExportMetrics, CycleReturns
<1>14. CASE ExportFails
  BY <1>1, <1>14 DEF ExportFails, CycleFails
<1>15. CASE UNCHANGED vars
  BY <1>15, RoundsKept DEF vars
<1>16. QED
  BY <1>3, <1>4, <1>5, <1>6, <1>7, <1>8, <1>9, <1>10, <1>11, <1>12, <1>13, <1>14,
     <1>15 DEF Next

(* The name at position p is listed nowhere else.  Only a configured name   *)
(* can be listed twice.                                                     *)
Alone(p) == \A q \in Listed(roster) : roster[q].name = roster[p].name => q = p

(* The evaluation of the result at position p, once it is done: the state   *)
(* it started from is kept for a revert.                                    *)
CycleDone(p) ==
    [target    |-> roster[p],
     outcome   |-> outcomes[p],
     previous  |-> IF digest THEN EmptyState ELSE stored[roster[p].name],
     now       |-> now,
     threshold |-> IF digest THEN 1 ELSE FailureThreshold]

(* What the evaluation at position p left: its state in memory, its events  *)
(* and no others of the target in the batch, and until the save the entry   *)
(* that was loaded, for a revert.                                           *)
Entered(p) ==
  LET n == roster[p].name
  IN  /\ mem[n] = Seen(StateOf(CycleDone(p)), now)
      /\ EventsOf(CycleDone(p)) \subseteq batch
      /\ \A e \in batch : e.target = n => e \in EventsOf(CycleDone(p))
      /\ pc = "evaluating" => Loaded(n, stored[n])

Ledger ==
  /\ pc \in {"evaluating", "exporting"} =>
       \A p \in Done : Alone(p) => Entered(p)
  /\ pc = "exporting" /\ delivered => \A n \in Checked : disk[n] = mem[n]

(* A finished evaluation is a well-formed one. *)
LEMMA CycleDoneType ==
  ASSUME TypeOK, Rounds, pc \in {"evaluating", "exporting"}, NEW p \in Listed(roster)
  PROVE  /\ CycleDone(p) \in Cycles
         /\ CycleDone(p).target.name = roster[p].name
         /\ outcomes[p] \in Outcomes
<1>1. roster[p] \in Targets /\ roster[p].name \in Names
  BY ListedName
<1>2. outcomes[p] \in Outcomes
  BY DEF Rounds
<1>3. stored[roster[p].name] \in TargetStates
  BY <1>1 DEF TypeOK, Stores
<1>4. (IF digest THEN 1 ELSE FailureThreshold) \in Nat \ {0}
  BY MonitorAssumption
<1>5. QED
  BY <1>1, <1>2, <1>3, <1>4, EmptyStateFacts DEF CycleDone, Cycles, TypeOK

(* A target that was checked keeps a checked entry through the pruning.     *)
LEMMA CheckedKept ==
  ASSUME TypeOK, Rounds, Settled, NEW n \in Checked
  PROVE  /\ n \in Names
         /\ ToSave[n] = Reverted[n]
         /\ ToSave[n].seen = now /\ now # None
         /\ delivered => ToSave[n] = mem[n]
<1>1. PICK p \in Listed(roster) : roster[p].name = n
  BY DEF Checked
<1>2. n \in Names
  BY <1>1, ListedName
<1>3. mem[n].seen = now
  BY <1>1 DEF Settled, Rounds, Done
<1>4. now \in Nat /\ now # None /\ Retention \in Nat
  BY ModelsAssumption, MonitorAssumption DEF TypeOK
<1>5. stored[n] \in TargetStates
  BY <1>2 DEF TypeOK, Stores
<1>6. Seen(stored[n], now).seen = now
  BY <1>5 DEF Seen, TargetStates
<1>7. Reverted[n].seen = now
  BY <1>2, <1>3, <1>6 DEF Reverted
<1>8. ToSave[n] = Reverted[n]
  BY <1>2, <1>4, <1>7 DEF ToSave, Prune
<1>9. QED
  BY <1>2, <1>4, <1>7, <1>8 DEF Reverted

(* Nothing of the ledger depends on the sinks. *)
LEMMA LedgerKept ==
  ASSUME Ledger,
         UNCHANGED <<pc, digest, mem, roster, todo, outcomes, stored, batch, now, disk>>,
         delivered' => delivered
  PROVE  Ledger'
<1>1. Done' = Done /\ Listed(roster)' = Listed(roster) /\ Checked' = Checked
  BY DEF Done, Listed, Checked
<1>2. \A p \in Done : (Alone(p)' <=> Alone(p)) /\ CycleDone(p)' = CycleDone(p)
  BY <1>1 DEF Alone, CycleDone
<1>3. \A p \in Done : Entered(p)' <=> Entered(p)
  BY <1>2 DEF Entered, Loaded
<1>4. QED
  BY <1>1, <1>2, <1>3 DEF Ledger

(* Evaluating one more result enters it and leaves the other entries alone. *)
LEMMA EvaluateLedger ==
  ASSUME TypeOK, Rounds, Ledger, EvaluateNext
  PROVE  Ledger'
<1>1. PICK p \in todo :
        /\ p \in Listed(roster) /\ roster[p].name \in Names
        /\ Done' = Done \cup {p}
        /\ batch' = batch \cup EventsOf(CycleAt(p))
        /\ \A e \in EventsOf(CycleAt(p)) : e.target = roster[p].name
        /\ stored'[roster[p].name] = mem[roster[p].name]
        /\ mem'[roster[p].name] = Seen(StateOf(CycleAt(p)), now)
        /\ \A n \in Names :
             n # roster[p].name => stored'[n] = stored[n] /\ mem'[n] = mem[n]
  BY EvaluateSteps
<1>2. pc = "evaluating" /\ UNCHANGED <<pc, digest, roster, outcomes, now, disk>>
  BY DEF EvaluateNext, outsideVars
<1>3. Listed(roster)' = Listed(roster) /\ \A q : Alone(q)' <=> Alone(q)
  BY <1>2 DEF Listed, Alone
<1>4. p \notin Done
  BY <1>1 DEF Done
<1>5. ASSUME NEW q \in Done, Alone(q) PROVE Entered(q)'
  <2>1. q \in Listed(roster) /\ roster[q].name \in Names
    BY <1>5, ListedName DEF Done
  <2>2. roster[q].name # roster[p].name
    BY <1>1, <1>4, <1>5, <2>1 DEF Alone
  <2>3. CycleDone(q)' = CycleDone(q)
    BY <1>1, <1>2, <2>1, <2>2 DEF CycleDone
  <2>4. Entered(q)
    BY <1>2, <1>5 DEF Ledger
  <2>5. QED
    BY <1>1, <1>2, <2>1, <2>2, <2>3, <2>4 DEF Entered, Loaded
<1>6. ASSUME Alone(p) PROVE Entered(p)'
  <2>1. \A q \in Done : roster[q].name # roster[p].name
    BY <1>1, <1>4, <1>6 DEF Alone, Done
  <2>2. Loaded(roster[p].name, mem[roster[p].name])
    BY <1>1, <1>2, <2>1 DEF Rounds
  <2>3. \A e \in batch : e.target # roster[p].name
    BY <1>2, <2>1 DEF Rounds
  <2>4. CycleDone(p)' = CycleAt(p)
    BY <1>1, <1>2 DEF CycleDone, CycleAt
  <2>5. QED
    BY <1>1, <1>2, <2>2, <2>3, <2>4 DEF Entered, Loaded
<1>7. QED
  BY <1>1, <1>2, <1>3, <1>5, <1>6 DEF Ledger

(* Every step keeps the ledger. *)
LEMMA NextLedger ==
  ASSUME TypeOK, Rounds, Ledger, [Next]_vars
  PROVE  Ledger'
<1> USE DEF cycleVars, outsideVars
<1>1. ASSUME pc' \in {"down", "asleep", "checking"} PROVE Ledger'
  BY <1>1 DEF Ledger
<1>2. CASE CheckTargets
  <2>1. /\ pc = "checking" /\ pc' = "evaluating" /\ UNCHANGED <<roster, todo>>
    BY <1>2 DEF CheckTargets
  <2>2. Done' = {}
    BY <2>1 DEF Rounds, Done, Listed
  <2>3. QED
    BY <2>1, <2>2 DEF Ledger
<1>3. CASE EvaluateNext
  BY <1>3, EvaluateLedger
<1>4. CASE Persist
  <2>1. CASE PrometheusFile
    <3>1. /\ Settled /\ pc = "evaluating" /\ pc' = "exporting" /\ disk' = ToSave
          /\ UNCHANGED <<digest, mem, roster, todo, outcomes, stored, batch, delivered, now>>
      BY <1>4, <2>1 DEF Persist, Settled
    <3>2. Done' = Done /\ Checked' = Checked /\ Listed(roster)' = Listed(roster)
      BY <3>1 DEF Done, Checked, Listed
    <3>3. \A p \in Done : (Alone(p)' <=> Alone(p)) /\ CycleDone(p)' = CycleDone(p)
      BY <3>1, <3>2 DEF Alone, CycleDone
    <3>4. \A p \in Done : Entered(p) => Entered(p)'
      BY <3>1, <3>3 DEF Entered
    <3>5. delivered => \A n \in Checked : disk'[n] = mem[n]
      BY <3>1, CheckedKept
    <3>6. QED
      BY <3>1, <3>2, <3>3, <3>4, <3>5 DEF Ledger
  <2>2. CASE ~PrometheusFile
    BY <1>1, <1>4, <2>2 DEF Persist, CycleReturns
  <2>3. QED
    BY <2>1, <2>2
<1>5. CASE Start
  BY <1>1, <1>5 DEF Start
<1>6. CASE Stop
  BY <1>1, <1>6 DEF Stop
<1>7. CASE Crash
  BY <1>1, <1>7 DEF Crash
<1>8. CASE BeginCycle
  BY <1>1, <1>8 DEF BeginCycle
<1>9. CASE CheckFails
  BY <1>1, <1>9 DEF CheckFails, CycleFails
<1>10. ASSUME NEW s \in Sinks, Deliver(s) PROVE Ledger'
  <2>1. delivered' => delivered
    BY <1>10, Zenon DEF Deliver
  <2>2. QED
    BY <1>10, <2>1, LedgerKept DEF Deliver
<1>11. CASE SaveFails
  BY <1>1, <1>11 DEF SaveFails, CycleFails
<1>12. CASE ExportMetrics
  BY <1>1, <1>12 DEF ExportMetrics, CycleReturns
<1>13. CASE ExportFails
  BY <1>1, <1>13 DEF ExportFails, CycleFails
<1>14. CASE UNCHANGED vars
  BY <1>14, LedgerKept DEF vars
<1>15. QED
  BY <1>2, <1>3, <1>4, <1>5, <1>6, <1>7, <1>8, <1>9, <1>10, <1>11, <1>12, <1>13,
     <1>14 DEF Next

(* The books are in order in every reachable state, whatever is configured, *)
(* fails or is killed.                                                      *)
THEOREM LedgerCorrect == Spec => [](Rounds /\ Ledger)
<1>1. Init => Rounds /\ Ledger
  BY DEF Init, Rounds, Ledger
<1>2. TypeOK /\ Rounds /\ Ledger /\ [Next]_vars => Rounds' /\ Ledger'
  BY NextRounds, NextLedger
<1>3. QED
  BY <1>1, <1>2, TypeCorrect, PTL DEF Spec

-----------------------------------------------------------------------------
(* Only a cycle's save writes the state file. *)
LEMMA OnlyPersistWrites ==
  ASSUME [Next]_vars, disk' # disk
  PROVE  Persist /\ Settled /\ disk' = ToSave /\ pc = "evaluating" /\ todo = {}
BY DEF Next, vars, outsideVars, Start, Stop, Crash, BeginCycle, CheckTargets,
       CheckFails, EvaluateNext, Deliver, Persist, SaveFails, ExportMetrics,
       ExportFails, Settled

(* After a delivered cycle the metrics file and the state file agree on     *)
(* every target listed once, whatever its threshold, digest or `expect`     *)
(* (metrics._problem_kinds "mirrors the evaluator").                        *)
THEOREM ExportCorrect == Spec => []ExportMirrorsState
<1>1. TypeOK /\ Rounds /\ Ledger => ExportMirrorsState
  <2> SUFFICES ASSUME TypeOK, Rounds, Ledger, pc = "exporting", delivered,
                      NEW p \in Listed(roster), Alone(p)
               PROVE  LET state   == disk[roster[p].name]
                          tracked == {k \in AlertKinds :
                                        k \in state.active \/ state.pending[k] > 0}
                      IN  Series(outcomes[p]) =
                            tracked \cup (outcomes[p].problems \cap roster[p].expect)
    BY DEF ExportMirrorsState, Alone
  <2> DEFINE c == CycleDone(p)
             state == disk[roster[p].name]
             tracked == {k \in AlertKinds : k \in state.active \/ state.pending[k] > 0}
  <2>1. c \in Cycles /\ outcomes[p] \in Outcomes
    BY CycleDoneType
  <2>2. c.target = roster[p] /\ c.outcome = outcomes[p]
    BY DEF CycleDone
  <2>3. state = mem[roster[p].name] /\ mem[roster[p].name] = Seen(StateOf(c), now)
    BY DEF Rounds, Ledger, Entered, Done, Checked
  <2>4. StateOf(c) \in TargetStates
    BY <2>1, StateOfType
  <2>5. state.active = StateOf(c).active /\ state.pending = StateOf(c).pending
    BY <2>3, <2>4 DEF Seen, TargetStates
  <2>6. \A k \in AlertKinds : c.previous.pending[k] \in Nat /\ c.threshold \in Nat \ {0}
    BY <2>1 DEF Cycles, TargetStates
  <2>7. \A k \in AlertKinds : ~Confirmed(c, k) => Count(c, k) > 0
    BY <2>6 DEF Confirmed, Count
  <2>8. outcomes[p].problems \subseteq AlertKinds
    BY <2>1 DEF Outcomes, ProblemSets, AlertKinds
  <2>9. CASE outcomes[p].reachable
    <3>1. state.active = NewActive(c)
          /\ \A k \in AlertKinds : state.pending[k] =
               IF k \in Problems(c) \ NewActive(c) THEN Count(c, k) ELSE 0
      BY <2>2, <2>5, <2>9 DEF StateOf, ReachableState
    <3>2. tracked = Problems(c)
      BY <2>2, <2>7, <2>8, <3>1 DEF NewActive, Problems
    <3>3. QED
      BY <2>2, <2>9, <3>2 DEF Problems, Series
  <2>10. CASE ~outcomes[p].reachable
    <3>1. outcomes[p].problems = {}
      BY <2>1, <2>10 DEF Outcomes
    <3>2. tracked = {Unreachable}
      BY <2>2, <2>5, <2>7, <2>10
      DEF StateOf, UnreachableState, EmptyState, NoCounts, AlertKinds
    <3>3. QED
      BY <2>10, <3>1, <3>2 DEF Series
  <2>11. QED
    BY <2>9, <2>10
<1>2. QED
  BY <1>1, TypeCorrect, LedgerCorrect, PTL

-----------------------------------------------------------------------------
(* The state file can be read whenever a cycle begins. *)
StateReadable == "unreadable" \notin FaultKinds

(* A target that a cycle does not list keeps its entry through the save as  *)
(* long as the retention lasts, and one it lists is stamped.                *)
LEMMA AbsentKept ==
  ASSUME StateReadable, TypeOK, Rounds, Settled, NEW n \in Names
  PROVE  /\ n \notin Checked /\ disk[n].seen # None /\ disk[n].seen + Retention >= now
              => ToSave[n] = disk[n]
         /\ n \in Checked => ToSave[n].seen # None
<1>1. pc = "evaluating" /\ Done = Listed(roster)
  BY DEF Settled, Done
<1>2. ASSUME n \notin Checked, disk[n].seen # None, disk[n].seen + Retention >= now
      PROVE  ToSave[n] = disk[n]
  <2>1. \A p \in Done : roster[p].name # n
    BY <1>1, <1>2 DEF Checked
  <2>2. mem[n] = disk[n]
    BY <1>1, <2>1 DEF Rounds, Loaded, StateReadable
  <2>3. \A e \in batch : e.target # n
    BY <1>1, <2>1 DEF Rounds
  <2>4. Reverted[n] = disk[n]
    BY <2>2, <2>3 DEF Reverted
  <2>5. QED
    BY <1>2, <2>4 DEF ToSave, Prune
<1>3. n \in Checked => ToSave[n].seen # None
  BY CheckedKept
<1>4. QED
  BY <1>2, <1>3

(* Whatever else fails, a target missing from a cycle is remembered until   *)
(* its retention is over and a checked one is never forgotten, as long as   *)
(* the state file can be read: an unreadable one counts as empty.           *)
THEOREM RetentionCorrect == StateReadable => (Spec => RememberedWhileAbsent)
<1> SUFFICES ASSUME StateReadable PROVE Spec => RememberedWhileAbsent
  OBVIOUS
<1> DEFINE Remembered ==
      \A n \in Names :
        /\ n \notin Checked /\ disk[n].seen # None /\ disk[n].seen + Retention >= now
             => disk'[n] = disk[n]
        /\ n \in Checked => disk'[n].seen # None
<1>1. TypeOK /\ Rounds /\ Ledger /\ [Next]_vars => [Remembered]_disk
  BY OnlyPersistWrites, AbsentKept
<1>2. QED
  BY <1>1, TypeCorrect, LedgerCorrect, PTL DEF Spec, RememberedWhileAbsent

-----------------------------------------------------------------------------
(* Nobody lists Unreachable under `expect`; of one who does, the alert is   *)
(* recorded without an event (the run expected_unreachable).                *)
UnreachableIsAProblem ==
  \A targets \in {Configured} \cup Discoveries :
    \A p \in DOMAIN targets : Unreachable \notin targets[p].expect

(* The names in the configuration are names of targets. *)
LEMMA ConfiguredName ==
  ASSUME NEW p \in DOMAIN Configured
  PROVE  Configured[p] \in Targets /\ Configured[p].name \in Names \cap ConfiguredNames
<1>1. Configured \in Seq(Targets)
  BY MonitorAssumption
<1>2. Configured[p] \in Targets
  BY <1>1
<1>3. QED
  BY <1>2 DEF Targets, ConfiguredNames

(* No entry of a cycle's roster expects Unreachable, and a listed entry     *)
(* with a configured name is a configured entry.                            *)
LEMMA RosterEntries ==
  ASSUME TypeOK, NEW found \in Discoveries, roster = Configured \o found,
         NEW p \in Listed(roster)
  PROVE  /\ UnreachableIsAProblem => Unreachable \notin roster[p].expect
         /\ roster[p].name \in ConfiguredNames =>
              p \in DOMAIN Configured /\ roster[p] = Configured[p]
<1>1. Configured \in Seq(Targets) /\ found \in Seq(Targets)
  BY MonitorAssumption
<1>2. /\ DOMAIN Configured = 1..Len(Configured) /\ Len(Configured) \in Nat
      /\ DOMAIN found = 1..Len(found) /\ Len(found) \in Nat
      /\ DOMAIN roster = 1..(Len(Configured) + Len(found))
      /\ \A i \in 1..Len(Configured) : roster[i] = Configured[i]
      /\ \A i \in (Len(Configured) + 1)..(Len(Configured) + Len(found)) :
           roster[i] = found[i - Len(Configured)]
  BY <1>1, ConcatProperties, LenProperties
<1>3. p \in 1..(Len(Configured) + Len(found))
  BY <1>2 DEF Listed
<1>4. CASE p <= Len(Configured)
  <2>1. p \in DOMAIN Configured /\ roster[p] = Configured[p]
    BY <1>2, <1>3, <1>4
  <2>2. QED
    BY <2>1 DEF UnreachableIsAProblem
<1>5. CASE p > Len(Configured)
  <2>1. p - Len(Configured) \in DOMAIN found /\ roster[p] = found[p - Len(Configured)]
    BY <1>2, <1>3, <1>5
  <2>2. \A q \in DOMAIN Configured : roster[q].name # roster[p].name
    BY <1>2, <1>3, <1>5 DEF Listed
  <2>3. roster[p].name \notin ConfiguredNames
    BY <1>2, <2>2 DEF ConfiguredNames
  <2>4. QED
    BY <2>1, <2>3 DEF UnreachableIsAProblem
<1>6. QED
  BY <1>2, <1>3, <1>4, <1>5

(* Inside a cycle no active alert of an evaluated target is overdue.        *)
Renewed ==
  pc = "evaluating" /\ RenotifyAfter # None =>
    \A p \in Done : \A k \in mem[roster[p].name].active :
      \/ mem[roster[p].name].notified[k] = now
      \/ now - mem[roster[p].name].notified[k] < RenotifyAfter

(* Every step keeps the alerts renewed. *)
LEMMA NextRenewed ==
  ASSUME UnreachableIsAProblem, TypeOK, Rounds, Renewed, [Next]_vars
  PROVE  Renewed'
<1> USE DEF cycleVars, outsideVars
<1>1. ASSUME pc' # "evaluating" PROVE Renewed'
  BY <1>1 DEF Renewed
<1>2. ASSUME UNCHANGED <<pc, mem, roster, todo, now>> PROVE Renewed'
  <2>1. Done' = Done
    BY <1>2 DEF Done, Listed
  <2>2. QED
    BY <1>2, <2>1 DEF Renewed
<1>3. CASE CheckTargets
  <2>1. /\ pc = "checking" /\ UNCHANGED <<roster, todo>>
    BY <1>3 DEF CheckTargets
  <2>2. Done' = {}
    BY <2>1 DEF Rounds, Done, Listed
  <2>3. QED
    BY <2>2 DEF Renewed
<1>4. CASE EvaluateNext
  <2>1. PICK p \in todo :
          /\ p \in Listed(roster) /\ roster[p].name \in Names
          /\ CycleAt(p) \in Cycles
          /\ Done' = Done \cup {p}
          /\ mem'[roster[p].name] = Seen(StateOf(CycleAt(p)), now)
          /\ \A n \in Names : n # roster[p].name => mem'[n] = mem[n]
    BY <1>4, EvaluateSteps
  <2>2. pc = "evaluating" /\ UNCHANGED <<pc, roster, now>>
    BY <1>4 DEF EvaluateNext
  <2>3. PICK found \in Discoveries : roster = Configured \o found
    BY <2>2 DEF Rounds
  <2>4. Unreachable \notin CycleAt(p).target.expect /\ CycleAt(p).now = now
    BY <2>1, <2>3, RosterEntries DEF CycleAt
  <2>5. StateOf(CycleAt(p)) \in TargetStates
    BY <2>1, StateOfType
  <2>6. /\ mem'[roster[p].name].active = StateOf(CycleAt(p)).active
        /\ mem'[roster[p].name].notified = StateOf(CycleAt(p)).notified
    BY <2>1, <2>5 DEF Seen, TargetStates
  <2>7. ASSUME RenotifyAfter # None, NEW k \in mem'[roster[p].name].active
        PROVE  \/ mem'[roster[p].name].notified[k] = now
               \/ now - mem'[roster[p].name].notified[k] < RenotifyAfter
    BY <2>1, <2>4, <2>6, <2>7, EvaluationRenews
  <2>8. ASSUME RenotifyAfter # None, NEW q \in Done', NEW k \in mem'[roster[q].name].active
        PROVE  \/ mem'[roster[q].name].notified[k] = now
               \/ now - mem'[roster[q].name].notified[k] < RenotifyAfter
    <3>1. CASE roster[q].name = roster[p].name
      BY <2>7, <2>8, <3>1
    <3>2. CASE roster[q].name # roster[p].name
      <4>1. q \in Done /\ roster[q].name \in Names
        BY <2>1, <3>2, ListedName DEF Done
      <4>2. QED
        BY <2>1, <2>2, <2>8, <3>2, <4>1 DEF Renewed
    <3>3. QED
      BY <3>1, <3>2
  <2>9. QED
    BY <2>2, <2>8 DEF Renewed
<1>5. CASE Persist
  BY <1>1, <1>5 DEF Persist, CycleReturns
<1>6. CASE Start
  BY <1>1, <1>6 DEF Start
<1>7. CASE Stop
  BY <1>1, <1>7 DEF Stop
<1>8. CASE Crash
  BY <1>1, <1>8 DEF Crash
<1>9. CASE BeginCycle
  BY <1>1, <1>9 DEF BeginCycle
<1>10. CASE CheckFails
  BY <1>1, <1>10 DEF CheckFails, CycleFails
<1>11. ASSUME NEW s \in Sinks, Deliver(s) PROVE Renewed'
  BY <1>2, <1>11 DEF Deliver
<1>12. CASE SaveFails
  BY <1>1, <1>12 DEF SaveFails, CycleFails
<1>13. CASE ExportMetrics
  BY <1>1, <1>13 DEF ExportMetrics, CycleReturns
<1>14. CASE ExportFails
  BY <1>1, <1>14 DEF ExportFails, CycleFails
<1>15. CASE UNCHANGED vars
  BY <1>2, <1>15 DEF vars
<1>16. QED
  BY <1>3, <1>4, <1>5, <1>6, <1>7, <1>8, <1>9, <1>10, <1>11, <1>12, <1>13, <1>14,
     <1>15 DEF Next

(* No delivered cycle ends with an active alert of a checked target that    *)
(* was last sent a whole renotify interval ago.                             *)
THEOREM RenotificationCorrect == UnreachableIsAProblem => (Spec => []RenotifiedOnTime)
<1> SUFFICES ASSUME UnreachableIsAProblem PROVE Spec => []RenotifiedOnTime
  OBVIOUS
<1>1. Init => Renewed
  BY DEF Init, Renewed
<1>2. TypeOK /\ Rounds /\ Renewed /\ [Next]_vars => Renewed'
  BY NextRenewed
<1>3. TypeOK /\ Rounds /\ Renewed => RenotifiedOnTime
  <2> SUFFICES ASSUME TypeOK, Rounds, Renewed, RenotifyAfter # None, Settled, delivered,
                      NEW n \in Checked, NEW k \in ToSave[n].active
               PROVE  \/ ToSave[n].notified[k] = now
                      \/ now - ToSave[n].notified[k] < RenotifyAfter
    BY DEF RenotifiedOnTime
  <2>1. ToSave[n] = mem[n] /\ pc = "evaluating"
    BY CheckedKept DEF Settled
  <2>2. PICK p \in Done : roster[p].name = n
    BY DEF Checked, Done, Settled
  <2>3. QED
    BY <2>1, <2>2 DEF Renewed
<1>4. QED
  BY <1>1, <1>2, <1>3, TypeCorrect, LedgerCorrect, PTL DEF Spec

-----------------------------------------------------------------------------
(* What a configured target expects is nowhere: not on file, not in memory, *)
(* not in what is kept for a revert and not in the batch.                   *)
Ignored ==
  \A p \in DOMAIN Configured :
    LET n == Configured[p].name
    IN  \A k \in Configured[p].expect :
          /\ k \notin disk[n].active \cup mem[n].active \cup stored[n].active
          /\ Problem(n, k) \notin batch
          /\ Recovery(n, k) \notin batch

(* Evaluating one more result adds nothing that is expected. *)
LEMMA EvaluateIgnored ==
  ASSUME NamesApart, UnreachableIsAProblem, TypeOK, Rounds, Ignored, EvaluateNext
  PROVE  Ignored'
<1>1. PICK p \in todo :
        /\ p \in Listed(roster) /\ roster[p].name \in Names
        /\ CycleAt(p) \in Cycles
        /\ batch' = batch \cup EventsOf(CycleAt(p))
        /\ \A e \in EventsOf(CycleAt(p)) : e.target = roster[p].name
        /\ stored'[roster[p].name] = mem[roster[p].name]
        /\ mem'[roster[p].name] = Seen(StateOf(CycleAt(p)), now)
        /\ \A n \in Names :
             n # roster[p].name => stored'[n] = stored[n] /\ mem'[n] = mem[n]
  BY EvaluateSteps
<1>2. pc = "evaluating" /\ disk' = disk
  BY DEF EvaluateNext, outsideVars
<1>3. PICK found \in Discoveries : roster = Configured \o found
  BY <1>2 DEF Rounds
<1>4. SUFFICES ASSUME NEW q \in DOMAIN Configured, NEW k \in Configured[q].expect
               PROVE  LET n == Configured[q].name
                      IN  /\ k \notin disk[n].active \cup mem'[n].active \cup stored'[n].active
                          /\ Problem(n, k) \notin batch'
                          /\ Recovery(n, k) \notin batch'
  BY <1>2 DEF Ignored
<1> DEFINE n == Configured[q].name
<1>5. n \in Names /\ n \in ConfiguredNames
  BY ConfiguredName
<1>6. /\ k \notin disk[n].active \cup mem[n].active \cup stored[n].active
      /\ Problem(n, k) \notin batch /\ Recovery(n, k) \notin batch
  BY <1>4 DEF Ignored
<1>7. CASE roster[p].name # n
  BY <1>1, <1>5, <1>6, <1>7 DEF Problem, Recovery
<1>8. CASE roster[p].name = n
  <2>1. roster[p] = Configured[q]
    BY <1>1, <1>3, <1>4, <1>5, <1>8, RosterEntries DEF NamesApart
  <2>2. k \in CycleAt(p).target.expect /\ Unreachable \notin CycleAt(p).target.expect
    BY <1>1, <1>3, <1>4, <2>1, RosterEntries DEF CycleAt
  <2>3. k \notin CycleAt(p).previous.active /\ CycleAt(p).target.name = n
    BY <1>6, <1>8 DEF CycleAt, EmptyState
  <2>4. /\ k \notin StateOf(CycleAt(p)).active
        /\ Problem(n, k) \notin EventsOf(CycleAt(p))
        /\ Recovery(n, k) \notin EventsOf(CycleAt(p))
    BY <1>1, <2>2, <2>3, ExpectedIgnored
  <2>5. StateOf(CycleAt(p)) \in TargetStates
    BY <1>1, StateOfType
  <2>6. mem'[n].active = StateOf(CycleAt(p)).active
    BY <1>1, <1>8, <2>5 DEF Seen, TargetStates
  <2>7. QED
    BY <1>1, <1>6, <1>8, <2>4, <2>6
<1>9. QED
  BY <1>7, <1>8

(* Every step leaves what is expected alone. *)
LEMMA NextIgnored ==
  ASSUME NamesApart, UnreachableIsAProblem, TypeOK, Rounds, Ignored, [Next]_vars
  PROVE  Ignored'
<1> USE DEF cycleVars, outsideVars
<1>0. \A p \in DOMAIN Configured : Configured[p].name \in Names
  BY ConfiguredName
<1>1. ASSUME CycleForgotten, disk' = disk PROVE Ignored'
  BY <1>0, <1>1 DEF CycleForgotten, Ignored, EmptyStore, EmptyState
<1>2. ASSUME UNCHANGED <<mem, stored, batch, disk>> PROVE Ignored'
  BY <1>2 DEF Ignored
<1>3. CASE BeginCycle
  <2>1. /\ mem' = disk \/ mem' = EmptyStore
        /\ UNCHANGED <<stored, batch, disk>>
    BY <1>3 DEF BeginCycle
  <2>2. QED
    BY <1>0, <2>1 DEF Ignored, EmptyStore, EmptyState
<1>4. CASE EvaluateNext
  BY <1>4, EvaluateIgnored
<1>5. CASE Persist
  <2>1. \A n \in Names : disk'[n].active \subseteq mem[n].active \cup stored[n].active
    <3> SUFFICES ASSUME NEW n \in Names
                 PROVE  ToSave[n].active \subseteq mem[n].active \cup stored[n].active
      BY <1>5 DEF Persist
    <3>1. stored[n] \in TargetStates
      BY DEF TypeOK, Stores
    <3>2. Reverted[n].active \subseteq mem[n].active \cup stored[n].active
      BY <3>1 DEF Reverted, Seen, TargetStates
    <3>3. QED
      BY <3>2 DEF ToSave, Prune, EmptyState
  <2>2. CASE PrometheusFile
    BY <1>0, <1>5, <2>1, <2>2 DEF Persist, Ignored
  <2>3. CASE ~PrometheusFile
    BY <1>0, <1>5, <2>1, <2>3
    DEF Persist, CycleReturns, CycleForgotten, Ignored, EmptyStore, EmptyState
  <2>4. QED
    BY <2>2, <2>3
<1>6. CASE Start
  BY <1>2, <1>6 DEF Start
<1>7. CASE Stop
  BY <1>2, <1>7 DEF Stop
<1>8. CASE Crash
  BY <1>1, <1>8 DEF Crash
<1>9. CASE CheckTargets
  BY <1>2, <1>9 DEF CheckTargets
<1>10. CASE CheckFails
  BY <1>1, <1>10 DEF CheckFails, CycleFails
<1>11. ASSUME NEW s \in Sinks, Deliver(s) PROVE Ignored'
  BY <1>2, <1>11 DEF Deliver
<1>12. CASE SaveFails
  BY <1>1, <1>12 DEF SaveFails, CycleFails
<1>13. CASE ExportMetrics
  BY <1>1, <1>13 DEF ExportMetrics, CycleReturns
<1>14. CASE ExportFails
  BY <1>1, <1>14 DEF ExportFails, CycleFails
<1>15. CASE UNCHANGED vars
  BY <1>2, <1>15 DEF vars
<1>16. QED
  BY <1>3, <1>4, <1>5, <1>6, <1>7, <1>8, <1>9, <1>10, <1>11, <1>12, <1>13, <1>14,
     <1>15 DEF Next

(* An expected problem is never recorded as active and never announced, if  *)
(* it is not Unreachable and names are not configured twice.                *)
THEOREM ExpectationCorrect ==
  NamesApart /\ UnreachableIsAProblem => (Spec => []ExpectedNotTracked)
<1> SUFFICES ASSUME NamesApart, UnreachableIsAProblem PROVE Spec => []ExpectedNotTracked
  OBVIOUS
<1>1. Init => Ignored
  BY ConfiguredName DEF Init, Ignored, EmptyStore, EmptyState
<1>2. TypeOK /\ Rounds /\ Ignored /\ [Next]_vars => Ignored'
  BY NextIgnored
<1>3. Ignored => ExpectedNotTracked
  BY DEF Ignored, ExpectedNotTracked
<1>4. QED
  BY <1>1, <1>2, <1>3, TypeCorrect, LedgerCorrect, PTL DEF Spec

-----------------------------------------------------------------------------
(* Without a startup report no digest is ever owed. *)
LEMMA NoDigestOwed == StartupReport = FALSE => (Spec => []~digest)
<1> SUFFICES ASSUME StartupReport = FALSE PROVE Spec => []~digest
  OBVIOUS
<1>1. Init => ~digest
  BY DEF Init
<1>2. ~digest /\ [Next]_vars => ~digest'
  BY DEF Next, vars, Start, Stop, Crash, BeginCycle, CheckTargets, CheckFails,
         CycleFails, EvaluateNext, Deliver, Persist, CycleReturns, SaveFails,
         ExportMetrics, ExportFails
<1>3. QED
  BY <1>1, <1>2, PTL DEF Spec

(* Where a checked target's results come from, before the save. *)
LEMMA EvaluatedEntry ==
  ASSUME NamesApart, TypeOK, Rounds, Ledger, pc = "evaluating", todo = {}, NEW n \in Checked
  PROVE  \E p \in Listed(roster) :
           /\ roster[p].name = n /\ Alone(p) /\ Entered(p)
           /\ CycleDone(p) \in Cycles /\ CycleDone(p).target.name = n
           /\ UnreachableIsAProblem => Unreachable \notin CycleDone(p).target.expect
<1>1. PICK p \in Listed(roster) : roster[p].name = n
  BY DEF Checked
<1>2. pc = "evaluating" /\ p \in Done
  BY DEF Done
<1>3. PICK found \in Discoveries : roster = Configured \o found
  BY <1>2 DEF Rounds
<1>4. Alone(p)
  BY <1>3, ListedApart DEF Alone
<1>5. Entered(p)
  BY <1>2, <1>4 DEF Ledger
<1>6. CycleDone(p) \in Cycles /\ CycleDone(p).target.name = n
  BY <1>1, <1>2, CycleDoneType
<1>7. UnreachableIsAProblem => Unreachable \notin CycleDone(p).target.expect
  BY <1>3, RosterEntries DEF CycleDone
<1>8. QED
  BY <1>1, <1>4, <1>5, <1>6, <1>7

(* What the save writes for a target: nothing new for one that was absent,  *)
(* the loaded entry for one whose events a sink refused, and otherwise the  *)
(* result of its evaluation, whose events every sink took.                  *)
LEMMA SavedEntry ==
  ASSUME StateReadable, NamesApart, ~digest, TypeOK, Rounds, Ledger, Settled, NEW n \in Names
  PROVE  \/ n \notin Checked /\ ToSave[n] \in {EmptyState, disk[n]}
         \/ n \in Checked /\ ~delivered /\ ToSave[n] = Seen(disk[n], now)
         \/ /\ n \in Checked
            /\ \E p \in Listed(roster) :
                 /\ roster[p].name = n /\ Alone(p)
                 /\ CycleDone(p) \in Cycles /\ CycleDone(p).target.name = n
                 /\ CycleDone(p).previous = disk[n]
                 /\ ToSave[n] = Seen(StateOf(CycleDone(p)), now)
                 /\ \A e \in EventsOf(CycleDone(p)) : Told(e)
                 /\ UnreachableIsAProblem => Unreachable \notin CycleDone(p).target.expect
<1>1. pc = "evaluating" /\ Done = Listed(roster) /\ (batch = {} \/ unsent = {})
  BY DEF Settled, Done
<1>2. CASE n \notin Checked
  <2>1. \A p \in Done : roster[p].name # n
    BY <1>1, <1>2 DEF Checked
  <2>2. mem[n] = disk[n]
    BY <1>1, <2>1 DEF Rounds, Loaded, StateReadable
  <2>3. \A e \in batch : e.target # n
    BY <1>1, <2>1 DEF Rounds
  <2>4. Reverted[n] = disk[n]
    BY <2>2, <2>3 DEF Reverted
  <2>5. QED
    BY <1>2, <2>4 DEF ToSave, Prune
<1>3. CASE n \in Checked
  <2>1. PICK p \in Listed(roster) :
          /\ roster[p].name = n /\ Alone(p) /\ Entered(p)
          /\ CycleDone(p) \in Cycles /\ CycleDone(p).target.name = n
          /\ UnreachableIsAProblem => Unreachable \notin CycleDone(p).target.expect
    BY <1>3, EvaluatedEntry DEF Settled
  <2>2. stored[n] = disk[n] /\ mem[n] = Seen(StateOf(CycleDone(p)), now)
    BY <1>1, <2>1 DEF Entered, Loaded, StateReadable
  <2>3. CycleDone(p).previous = disk[n]
    BY <2>1, <2>2 DEF CycleDone
  <2>4. ToSave[n] = Reverted[n]
    BY <1>3, CheckedKept
  <2>5. CASE ~delivered /\ \E e \in batch : e.target = n
    BY <1>3, <2>2, <2>4, <2>5 DEF Reverted
  <2>6. CASE delivered \/ \A e \in batch : e.target # n
    <3>1. ToSave[n] = mem[n]
      BY <2>4, <2>6 DEF Reverted
    <3>2. EventsOf(CycleDone(p)) \subseteq batch
      BY <2>1 DEF Entered
    <3>3. \A e \in EventsOf(CycleDone(p)) : e.target = n
      BY <2>1, EventsOfType
    <3>4. \A e \in EventsOf(CycleDone(p)) : Told(e)
      BY <1>1, <2>6, <3>2, <3>3 DEF Told
    <3>5. QED
      BY <1>3, <2>1, <2>2, <2>3, <3>1, <3>4
  <2>7. QED
    BY <2>5, <2>6
<1>4. QED
  BY <1>2, <1>3

(* A new fingerprint replaces a known one on file only when every sink took *)
(* the rotation, whatever is refused, lost, killed or retried.  A startup   *)
(* digest and an unreadable file start from no fingerprint at all.          *)
THEOREM RotationCorrect ==
  NamesApart /\ StateReadable /\ StartupReport = FALSE => (Spec => RotationsAnnounced)
<1> SUFFICES ASSUME NamesApart, StateReadable, StartupReport = FALSE
             PROVE  Spec => RotationsAnnounced
  OBVIOUS
<1> DEFINE Announced(n) ==
      \/ None \in {disk[n].fingerprint, disk'[n].fingerprint}
      \/ disk[n].fingerprint = disk'[n].fingerprint
      \/ Told(Rotation(n))
<1>1. ASSUME TypeOK, Rounds, Ledger, ~digest, [Next]_vars, disk' # disk, NEW n \in Names
      PROVE  Announced(n)
  <2>1. Settled /\ disk' = ToSave
    BY <1>1, OnlyPersistWrites
  <2>2. disk[n] \in TargetStates
    BY <1>1 DEF TypeOK, Stores
  <2>3. CASE ToSave[n] \in {EmptyState, disk[n], Seen(disk[n], now)}
    BY <2>1, <2>2, <2>3 DEF EmptyState, Seen, TargetStates
  <2>4. ASSUME NEW c \in Cycles, c.target.name = n, c.previous = disk[n],
               ToSave[n] = Seen(StateOf(c), now), \A e \in EventsOf(c) : Told(e)
        PROVE  Announced(n)
    <3>1. disk'[n].fingerprint = StateOf(c).fingerprint
      BY <2>1, <2>4, StateOfType DEF Seen, TargetStates
    <3>2. QED
      BY <2>4, <3>1, EvaluationRotates
  <2>5. QED
    BY <1>1, <2>1, <2>3, <2>4, SavedEntry
<1>2. TypeOK /\ Rounds /\ Ledger /\ ~digest /\ [Next]_vars
        => [\A n \in Names : Announced(n)]_disk
  BY <1>1
<1>3. QED
  BY <1>2, TypeCorrect, LedgerCorrect, NoDigestOwed, PTL DEF Spec, RotationsAnnounced

(* An alert leaves the file only with a recovery every sink took, replaced  *)
(* by Unreachable, or with its whole target.  Beyond a threshold of 1 one   *)
(* unreachable cycle drops alerts silently (the run blip_forgets_alert).    *)
THEOREM RecoveryCorrect ==
  NamesApart /\ StateReadable /\ StartupReport = FALSE /\ FailureThreshold = 1
    => (Spec => RecoveriesAnnounced)
<1> SUFFICES ASSUME NamesApart, StateReadable, StartupReport = FALSE, FailureThreshold = 1
             PROVE  Spec => RecoveriesAnnounced
  OBVIOUS
<1> DEFINE Announced(n) ==
      \A k \in disk[n].active \ disk'[n].active :
        \/ Told(Recovery(n, k))
        \/ Unreachable \in disk'[n].active
        \/ disk'[n].seen = None
<1>1. ASSUME TypeOK, Rounds, Ledger, ~digest, [Next]_vars, disk' # disk, NEW n \in Names
      PROVE  Announced(n)
  <2>1. Settled /\ disk' = ToSave
    BY <1>1, OnlyPersistWrites
  <2>2. disk[n] \in TargetStates
    BY <1>1 DEF TypeOK, Stores
  <2>3. CASE ToSave[n] \in {EmptyState, disk[n], Seen(disk[n], now)}
    BY <2>1, <2>2, <2>3 DEF EmptyState, Seen, TargetStates
  <2>4. ASSUME NEW p \in Listed(roster), CycleDone(p) \in Cycles,
               CycleDone(p).target.name = n, CycleDone(p).previous = disk[n],
               ToSave[n] = Seen(StateOf(CycleDone(p)), now),
               \A e \in EventsOf(CycleDone(p)) : Told(e)
        PROVE  Announced(n)
    <3>1. disk'[n].active = StateOf(CycleDone(p)).active
      BY <2>1, <2>4, StateOfType DEF Seen, TargetStates
    <3>2. CycleDone(p).threshold = 1
      BY <1>1 DEF CycleDone
    <3>3. QED
      BY <2>4, <3>1, <3>2, EvaluationRecovers
  <2>5. QED
    BY <1>1, <2>1, <2>3, <2>4, SavedEntry
<1>2. TypeOK /\ Rounds /\ Ledger /\ ~digest /\ [Next]_vars
        => [\A n \in Names : Announced(n)]_disk
  BY <1>1
<1>3. QED
  BY <1>2, TypeCorrect, LedgerCorrect, NoDigestOwed, PTL DEF Spec, RecoveriesAnnounced

-----------------------------------------------------------------------------
(* The kinds a checked target's results show are those of its one entry. *)
LEMMA DetectedIsFound ==
  ASSUME UnreachableIsAProblem, TypeOK, Rounds, pc \in {"evaluating", "exporting"},
         NEW p \in Listed(roster), Alone(p)
  PROVE  Detected(roster[p].name) = Found(CycleDone(p))
<1>1. CycleDone(p) \in Cycles /\ outcomes[p] \in Outcomes
  BY CycleDoneType
<1>2. CycleDone(p).target = roster[p] /\ CycleDone(p).outcome = outcomes[p]
  BY DEF CycleDone
<1>3. PICK found \in Discoveries : roster = Configured \o found
  BY DEF Rounds
<1>4. Unreachable \notin roster[p].expect
  BY <1>3, RosterEntries
<1>5. outcomes[p].problems \subseteq AlertKinds
  BY <1>1 DEF Outcomes, ProblemSets, AlertKinds
<1>6. Detected(roster[p].name) =
        {k \in AlertKinds :
            /\ k \notin roster[p].expect
            /\ IF outcomes[p].reachable THEN k \in outcomes[p].problems
                                        ELSE k = Unreachable}
  BY DEF Detected, Alone
<1>7. QED
  BY <1>2, <1>4, <1>5, <1>6 DEF Found, Problems, AlertKinds

(* No sink ever fails. *)
SinksReliable == FaultKinds \cap {"refused", "ambiguous"} = {}

(* Then every delivery succeeds. *)
LEMMA AlwaysDelivered == SinksReliable => (Spec => []delivered)
<1> SUFFICES ASSUME SinksReliable PROVE Spec => []delivered
  OBVIOUS
<1>1. Init => delivered
  BY DEF Init
<1>2. delivered /\ [Next]_vars => delivered'
  <2>1. ASSUME delivered, NEW s \in Sinks, Deliver(s) PROVE delivered'
    BY <2>1, Zenon DEF Deliver, Fault, SinksReliable
  <2>2. QED
    BY <2>1
    DEF Next, vars, cycleVars, CycleForgotten, Start, Stop, Crash, BeginCycle,
        CheckTargets, CheckFails, CycleFails, EvaluateNext, Persist, CycleReturns,
        SaveFails, ExportMetrics, ExportFails
<1>3. QED
  BY <1>1, <1>2, PTL DEF Spec

(* The state file's active alerts and counts are the detections in a row. *)
Counted ==
  \A n \in Names, k \in AlertKinds :
    streak[n][k] = Tally(disk[n], k, FailureThreshold)

(* A save counts one cycle more. *)
LEMMA SaveCounts ==
  ASSUME NamesApart, UnreachableIsAProblem, StateReadable, ~digest, delivered,
         TypeOK, Rounds, Ledger, AlertBookkeeping, Counted, Settled,
         NEW n \in Names, NEW k \in AlertKinds
  PROVE  NextStreak[n][k] = Tally(ToSave[n], k, FailureThreshold)
<1>1. FailureThreshold \in Nat \ {0} /\ streak[n][k] \in Nat
  BY MonitorAssumption DEF TypeOK
<1>2. NextStreak[n][k] =
        IF ToSave[n].seen = None THEN 0
        ELSE IF n \notin Checked THEN streak[n][k]
        ELSE IF k \in Detected(n) THEN Least(streak[n][k] + 1, FailureThreshold)
        ELSE 0
  BY DEF NextStreak
<1>3. CASE ToSave[n].seen = None
  <2>1. ToSave[n] = EmptyState
    BY <1>3 DEF ToSave, Prune
  <2>2. QED
    BY <1>2, <1>3, <2>1 DEF Tally, EmptyState, NoCounts
<1>4. CASE ToSave[n].seen # None /\ n \notin Checked
  <2>1. ToSave[n] = disk[n]
    BY <1>4, SavedEntry DEF EmptyState
  <2>2. QED
    BY <1>2, <1>4, <2>1 DEF Counted
<1>5. CASE ToSave[n].seen # None /\ n \in Checked
  <2>1. PICK p \in Listed(roster) :
          /\ roster[p].name = n /\ Alone(p)
          /\ CycleDone(p) \in Cycles /\ CycleDone(p).previous = disk[n]
          /\ ToSave[n] = Seen(StateOf(CycleDone(p)), now)
    BY <1>5, SavedEntry
  <2>2. CycleDone(p).threshold = FailureThreshold
    BY DEF CycleDone
  <2>3. Coherent(disk[n], FailureThreshold)
    BY DEF AlertBookkeeping
  <2>4. StateOf(CycleDone(p)) \in TargetStates
    BY <2>1, StateOfType
  <2>5. Tally(ToSave[n], k, FailureThreshold) =
          Tally(StateOf(CycleDone(p)), k, FailureThreshold)
    BY <2>1, <2>4 DEF Tally, Seen, TargetStates
  <2>6. Detected(n) = Found(CycleDone(p))
    BY <2>1, DetectedIsFound DEF Settled
  <2>7. streak[n][k] = Tally(CycleDone(p).previous, k, FailureThreshold)
    BY <2>1 DEF Counted
  <2>8. IF k \notin Detected(n) THEN Tally(ToSave[n], k, FailureThreshold) = 0
        ELSE IF streak[n][k] + 1 <= FailureThreshold
             THEN Tally(ToSave[n], k, FailureThreshold) = streak[n][k] + 1
             ELSE Tally(ToSave[n], k, FailureThreshold) = FailureThreshold
    BY <2>1, <2>2, <2>3, <2>5, <2>6, <2>7, EvaluationTallies
  <2>9. QED
    BY <1>1, <1>2, <1>5, <2>8 DEF Least
<1>6. QED
  BY <1>3, <1>4, <1>5

(* For any threshold, the alerts recorded as active are exactly the problems*)
(* that the last failure_threshold completed cycles have all detected, if   *)
(* deliveries succeed: kills, failed checks, saves and exports do not count,*)
(* absent targets keep their count.                                         *)
THEOREM DampeningCorrect ==
  NamesApart /\ UnreachableIsAProblem /\ StateReadable /\ SinksReliable
    /\ StartupReport = FALSE => (Spec => []ActiveIffPersistent)
<1> SUFFICES ASSUME NamesApart, UnreachableIsAProblem, StateReadable, SinksReliable,
                    StartupReport = FALSE
             PROVE  Spec => []ActiveIffPersistent
  OBVIOUS
<1>1. Init => Counted
  BY DEF Init, Counted, EmptyStore, EmptyState, NoCounts, Tally
<1>2. TypeOK /\ Rounds /\ Ledger /\ AlertBookkeeping /\ ~digest /\ delivered
        /\ Counted /\ [Next]_vars => Counted'
  <2> SUFFICES ASSUME TypeOK, Rounds, Ledger, AlertBookkeeping, ~digest, delivered,
                      Counted, [Next]_vars
               PROVE  Counted'
    OBVIOUS
  <2>1. CASE Persist
    <3>1. Settled /\ disk' = ToSave /\ streak' = NextStreak
      BY <2>1 DEF Persist
    <3>2. \A n \in Names, k \in AlertKinds :
            NextStreak[n][k] = Tally(ToSave[n], k, FailureThreshold)
      BY <3>1, SaveCounts
    <3>3. QED
      BY <3>1, <3>2 DEF Counted
  <2>2. CASE ~Persist
    <3>1. UNCHANGED <<disk, streak>>
      BY <2>2
      DEF Next, vars, outsideVars, Start, Stop, Crash, BeginCycle, CheckTargets,
          CheckFails, CycleFails, EvaluateNext, Deliver, SaveFails, ExportMetrics,
          ExportFails
    <3>2. QED
      BY <3>1 DEF Counted
  <2>3. QED
    BY <2>1, <2>2
<1>3. TypeOK /\ AlertBookkeeping /\ Counted => ActiveIffPersistent
  <2> SUFFICES ASSUME TypeOK, AlertBookkeeping, Counted, NEW n \in Names
               PROVE  disk[n].active =
                        {k \in AlertKinds : streak[n][k] >= FailureThreshold}
    BY DEF ActiveIffPersistent
  <2>1. disk[n] \in TargetStates /\ FailureThreshold \in Nat \ {0}
    BY MonitorAssumption DEF TypeOK, Stores
  <2>2. disk[n].active \subseteq AlertKinds
    BY <2>1 DEF TargetStates
  <2>3. ASSUME NEW k \in AlertKinds
        PROVE  k \in disk[n].active <=> streak[n][k] >= FailureThreshold
    <3>1. disk[n].pending[k] \in Nat
      BY <2>1 DEF TargetStates
    <3>2. disk[n].pending[k] > 0 => disk[n].pending[k] < FailureThreshold
      BY DEF AlertBookkeeping, Coherent
    <3>3. streak[n][k] = IF k \in disk[n].active THEN FailureThreshold
                         ELSE disk[n].pending[k]
      BY DEF Counted, Tally
    <3>4. QED
      BY <2>1, <3>1, <3>2, <3>3
  <2>4. QED
    BY <2>2, <2>3
<1>4. QED
  BY <1>1, <1>2, <1>3, TypeCorrect, LedgerCorrect, BookkeepingCorrect, NoDigestOwed,
     AlwaysDelivered, PTL DEF Spec

-----------------------------------------------------------------------------
(* Once a cycle has read the clock, everything on file is older. *)
Dated == pc = "evaluating" => \A n \in Names : disk[n].seen # None => disk[n].seen < now

(* If the clock moves between cycles, the latest stamp on file marks the    *)
(* targets of the last cycle, and with a threshold of 1 their active alerts *)
(* are what it detected (state.last_cycle, _cmd_report).                    *)
THEOREM ReportCorrect ==
  0 \notin Ticks /\ NamesApart /\ UnreachableIsAProblem /\ FailureThreshold = 1
    => (Spec => ReportShowsLastCycle)
<1> SUFFICES ASSUME 0 \notin Ticks, NamesApart, UnreachableIsAProblem,
                    FailureThreshold = 1
             PROVE  Spec => ReportShowsLastCycle
  OBVIOUS
<1> DEFINE Shows ==
      Checked # {} =>
        /\ DOMAIN Report(disk') = Checked
        /\ pc = "evaluating" /\ delivered =>
              \A n \in Checked : Report(disk')[n] = Detected(n)
<1>1. Init => Dated
  BY DEF Init, Dated
<1>2. TypeOK /\ AlertBookkeeping /\ Dated /\ [Next]_vars => Dated'
  <2> SUFFICES ASSUME TypeOK, AlertBookkeeping, Dated, [Next]_vars, pc' = "evaluating"
               PROVE  Dated'
    BY DEF Dated
  <2>1. CASE CheckTargets
    <3>1. PICK d \in Ticks : now' = now + d
      BY <2>1 DEF CheckTargets
    <3>2. now \in Nat /\ d \in Nat \ {0}
      BY MonitorAssumption DEF TypeOK
    <3>3. \A n \in Names : disk[n].seen # None => disk[n].seen \in Nat /\ disk[n].seen <= now
      BY DEF AlertBookkeeping, TypeOK, Stores, TargetStates
    <3>4. disk' = disk
      BY <2>1 DEF CheckTargets
    <3>5. QED
      BY <3>1, <3>2, <3>3, <3>4 DEF Dated
  <2>2. CASE ~CheckTargets
    <3>1. UNCHANGED <<pc, disk, now>>
      BY <2>2
      DEF Next, vars, outsideVars, Start, Stop, Crash, BeginCycle, CheckFails, CycleFails,
          EvaluateNext, Deliver, Persist, CycleReturns, SaveFails, ExportMetrics,
          ExportFails
    <3>2. QED
      BY <3>1 DEF Dated
  <2>3. QED
    BY <2>1, <2>2
<1>3. ASSUME TypeOK, Rounds, Ledger, Dated, [Next]_vars, disk' # disk, Checked # {}
      PROVE  Shows
  <2>1. Settled /\ disk' = ToSave /\ pc = "evaluating" /\ Done = Listed(roster)
    BY <1>3, OnlyPersistWrites DEF Done
  <2>2. \A n \in Checked : n \in Names /\ ToSave[n].seen = now /\ now # None
    BY <1>3, <2>1, CheckedKept
  <2>3. ASSUME NEW n \in Names, n \notin Checked, ToSave[n].seen # None
        PROVE  ToSave[n].seen < now
    <3>1. \A p \in Done : roster[p].name # n
      BY <2>1, <2>3 DEF Checked
    <3>2. Loaded(n, mem[n])
      BY <1>3, <2>1, <3>1 DEF Rounds
    <3>3. \A e \in batch : e.target # n
      BY <1>3, <2>1, <3>1 DEF Rounds
    <3>4. ToSave[n] = mem[n] \/ ToSave[n] = EmptyState
      BY <3>3 DEF ToSave, Prune, Reverted
    <3>5. QED
      BY <1>3, <2>1, <2>3, <3>2, <3>4 DEF Loaded, Dated, EmptyState
  <2>4. now \in Nat /\ ToSave \in Stores
    BY <1>3, ToSaveType DEF TypeOK
  <2>5. LastCycle(ToSave) = Checked
    <3>1. \A n \in Names : ToSave[n].seen # None => ToSave[n].seen <= now
      <4> SUFFICES ASSUME NEW n \in Names, ToSave[n].seen # None
                   PROVE  ToSave[n].seen <= now
        OBVIOUS
      <4>1. ToSave[n].seen \in Nat
        BY <2>4 DEF Stores, TargetStates
      <4>2. QED
        BY <2>2, <2>3, <2>4, <4>1
    <3>2. \A n \in Checked : n \in LastCycle(ToSave)
      BY <2>2, <3>1 DEF LastCycle
    <3>3. ASSUME NEW n \in LastCycle(ToSave) PROVE n \in Checked
      <4>1. PICK m \in Checked : TRUE
        BY <1>3
      <4>2. m \in Names /\ ToSave[m].seen = now /\ now # None
        BY <2>2
      <4>3. n \in Names /\ ToSave[n].seen # None /\ now <= ToSave[n].seen
        BY <3>3, <4>2 DEF LastCycle
      <4>4. ToSave[n].seen \in Nat
        BY <2>4, <4>3 DEF Stores, TargetStates
      <4>5. QED
        BY <2>3, <2>4, <4>3, <4>4
    <3>4. QED
      BY <3>2, <3>3
  <2>6. ASSUME delivered, NEW n \in Checked PROVE ToSave[n].active = Detected(n)
    <3>1. PICK p \in Listed(roster) :
            /\ roster[p].name = n /\ Alone(p) /\ Entered(p) /\ CycleDone(p) \in Cycles
      BY <1>3, <2>1, EvaluatedEntry DEF Settled
    <3>2. ToSave[n] = Seen(StateOf(CycleDone(p)), now)
      BY <1>3, <2>1, <2>6, <3>1, CheckedKept DEF Entered
    <3>3. ToSave[n].active = StateOf(CycleDone(p)).active
      BY <3>1, <3>2, StateOfType DEF Seen, TargetStates
    <3>4. CycleDone(p).threshold = 1
      BY DEF CycleDone
    <3>5. QED
      BY <1>3, <2>1, <3>1, <3>3, <3>4, ActiveIsFound, DetectedIsFound
  <2>7. QED
    BY <2>1, <2>5, <2>6 DEF Report
<1>4. TypeOK /\ Rounds /\ Ledger /\ Dated /\ [Next]_vars => [Shows]_disk
  BY <1>3
<1>5. QED
  BY <1>1, <1>2, <1>4, TypeCorrect, LedgerCorrect, BookkeepingCorrect, PTL
  DEF Spec, ReportShowsLastCycle
=============================================================================
