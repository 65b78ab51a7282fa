---------------------------- MODULE ReaderProofs ----------------------------
(***************************************************************************)
(* What the readers of the sinks know: they agree with the state file, the *)
(* sinks implement the panel of AlarmPanel, nothing active is unknown.     *)
(***************************************************************************)
EXTENDS CycleProofs

(* The events of an evaluation raise what it shows and resolve what it      *)
(* clears.                                                                  *)
LEMMA RaisedAndResolved ==
  ASSUME NEW c \in Cycles, NEW k \in AlertKinds
  PROVE  /\ c.outcome.reachable =>
              /\ k \in Shown(c) <=> \E e \in EventsOf(c) : e.kind = k
              /\ k \in Cleared(c) <=> \E e \in EventsOf(c) : e.resolved = k
         /\ ~c.outcome.reachable =>
              /\ k = Unreachable /\ AnnounceUnreachable(c)
                   <=> \E e \in EventsOf(c) : e.kind = k
              /\ \A e \in EventsOf(c) : e.resolved = None
         /\ (\E e \in EventsOf(c) : e.kind = k)
              => Problem(c.target.name, k) \in EventsOf(c)
<1>1. k # Rotated /\ k # Recovered /\ k # None
  BY ModelsAssumption
  DEF AlertKinds, Unreachable, Rotated, Recovered, CriticalKinds, WarningKinds
<1>2. ASSUME c.outcome.reachable
      PROVE  /\ k \in Shown(c) <=> \E e \in EventsOf(c) : e.kind = k
             /\ k \in Cleared(c) <=> \E e \in EventsOf(c) : e.resolved = k
             /\ k \in Shown(c) => Problem(c.target.name, k) \in EventsOf(c)
  <2> DEFINE n == c.target.name
  <2>1. \A e : e \in EventsOf(c) <=>
           \/ HasRotated(c) /\ e = Rotation(n)
           \/ \E j \in Shown(c) : e = Problem(n, j)
           \/ \E j \in Cleared(c) : e = Recovery(n, j)
    BY <1>2 DEF EventsOf, ReachableEvents
  <2>2. /\ Rotation(n).kind = Rotated /\ Rotation(n).resolved = None
        /\ \A j : Problem(n, j).kind = j /\ Problem(n, j).resolved = None
        /\ \A j : Recovery(n, j).kind = Recovered /\ Recovery(n, j).resolved = j
    BY DEF Rotation, Problem, Recovery
  <2> HIDE DEF n
  <2>3. k \in Shown(c) <=> \E e \in EventsOf(c) : e.kind = k
    BY <1>1, <2>1, <2>2
  <2>4. k \in Cleared(c) <=> \E e \in EventsOf(c) : e.resolved = k
    BY <1>1, <2>1, <2>2
  <2>5. k \in Shown(c) => Problem(n, k) \in EventsOf(c)
    BY <2>1
  <2>6. QED
    BY <2>3, <2>4, <2>5 DEF n
<1>3. ASSUME ~c.outcome.reachable
      PROVE  /\ k = Unreachable /\ AnnounceUnreachable(c)
                  <=> \E e \in EventsOf(c) : e.kind = k
             /\ \A e \in EventsOf(c) : e.resolved = None
             /\ (\E e \in EventsOf(c) : e.kind = k)
                  => Problem(c.target.name, k) \in EventsOf(c)
  BY <1>1, <1>3 DEF EventsOf, UnreachableEvents, Problem
<1>4. QED
  BY <1>2, <1>3

(* What a reader concludes about a kind. *)
LEMMA ReadKind ==
  ASSUME NEW view \in SUBSET AlertKinds, NEW n, NEW events, NEW k \in AlertKinds
  PROVE  LET raised(j) == \E e \in events : e.target = n /\ e.kind = j
         IN  k \in Read(view, n, events) <=>
               IF raised(Unreachable) THEN k = Unreachable
               ELSE /\ k \in view \/ raised(k)
                    /\ ~ \E e \in events : e.target = n /\ e.resolved = k
<1>1. k # None /\ Unreachable \in AlertKinds
  BY ModelsAssumption DEF AlertKinds
<1>2. QED
  BY <1>1 DEF Read

(* A reader concludes alerts. *)
LEMMA ReadType ==
  ASSUME NEW view \in SUBSET AlertKinds, NEW n, NEW events
  PROVE  Read(view, n, events) \subseteq AlertKinds
  BY DEF Read, AlertKinds

(* Events about other targets change nothing. *)
LEMMA ReadNothing ==
  ASSUME NEW view \in SUBSET AlertKinds, NEW n, NEW events, \A e \in events : e.target # n
  PROVE  Read(view, n, events) = view
<1>1. \A k \in AlertKinds : k \in Read(view, n, events) <=> k \in view
  BY ReadKind
<1>2. QED
  BY <1>1, ReadType

(* A reader who believes what was stored, and is given all events of an     *)
(* evaluation, believes what will be stored.                                *)
LEMMA ReadEvaluation ==
  ASSUME NEW c \in Cycles, c.threshold = 1, Unreachable \notin c.target.expect,
         Unreachable \in c.previous.active => c.previous.active = {Unreachable},
         NEW events, \A e \in events : e.target = c.target.name <=> e \in EventsOf(c),
         EventsOf(c) \subseteq events
  PROVE  Read(c.previous.active, c.target.name, events) = StateOf(c).active
<1> DEFINE view == c.previous.active
           n == c.target.name
<1>1. view \in SUBSET AlertKinds /\ StateOf(c).active \subseteq AlertKinds
  BY StateOfType DEF Cycles, TargetStates
<1>2. ASSUME NEW k \in AlertKinds
      PROVE  /\ (\E e \in events : e.target = n /\ e.kind = k)
                   <=> \E e \in EventsOf(c) : e.kind = k
             /\ (\E e \in events : e.target = n /\ e.resolved = k)
                   <=> \E e \in EventsOf(c) : e.resolved = k
  OBVIOUS
<1>3. Unreachable \in AlertKinds
  BY DEF AlertKinds
<1>4. ASSUME NEW k \in AlertKinds
      PROVE  k \in Read(view, n, events) <=> k \in StateOf(c).active
  <2>1. k \in Read(view, n, events) <=>
          IF \E e \in EventsOf(c) : e.kind = Unreachable THEN k = Unreachable
          ELSE /\ k \in view \/ \E e \in EventsOf(c) : e.kind = k
               /\ ~ \E e \in EventsOf(c) : e.resolved = k
    BY <1>1, <1>2, <1>3, ReadKind
  <2>2. CASE c.outcome.reachable
    <3>1. Unreachable \notin NewActive(c)
      BY UnreachableApart DEF NewActive, Problems, Cycles, Outcomes, ProblemSets
    <3>2. k \in Read(view, n, events) <=> (k \in view \/ k \in Shown(c)) /\ k \notin Cleared(c)
      BY <1>3, <2>1, <2>2, <3>1, RaisedAndResolved DEF Shown
    <3>3. StateOf(c).active = NewActive(c)
      BY <2>2 DEF StateOf, ReachableState
    <3>4. QED
      BY <3>2, <3>3 DEF Shown, Cleared, Due
  <2>3. CASE ~c.outcome.reachable
    <3>1. StateOf(c).active = {Unreachable}
      BY <2>3, ActiveIsFound DEF Found
    <3>2. CASE AnnounceUnreachable(c)
      BY <1>3, <2>1, <2>3, <3>1, <3>2, RaisedAndResolved
    <3>3. CASE ~AnnounceUnreachable(c)
      <4>1. Confirmed(c, Unreachable)
        BY <2>3, <3>1 DEF StateOf, UnreachableState, EmptyState
      <4>2. view = {Unreachable}
        BY <3>3, <4>1 DEF AnnounceUnreachable, Due
      <4>3. k # None
        BY ModelsAssumption DEF AlertKinds
      <4>4. QED
        BY <1>3, <2>1, <2>3, <3>1, <3>3, <4>2, <4>3, RaisedAndResolved
    <3>4. QED
      BY <3>2, <3>3
  <2>4. QED
    BY <2>2, <2>3
<1>5. QED
  BY <1>1, <1>4, ReadType

(* A reader whose sink drops some kinds learns of every alert it carries    *)
(* that is active after an evaluation, as long as what was stored before it *)
(* was known.                                                               *)
LEMMA ReadCarried ==
  ASSUME NEW c \in Cycles, Unreachable \notin c.target.expect,
         NEW view \in SUBSET AlertKinds, NEW s \in Sinks,
         NEW k \in StateOf(c).active \cap Carried(s),
         k \in c.previous.active => k \in view,
         NEW events, \A e \in events : e.target = c.target.name <=> e \in EventsOf(c),
         EventsOf(c) \subseteq events
  PROVE  k \in Read(view, c.target.name, Kept(s, events))
<1> DEFINE n == c.target.name
           kept == Kept(s, events)
<1>1. k \in AlertKinds /\ Unreachable \in AlertKinds
  BY StateOfType DEF TargetStates, AlertKinds
<1>2. \A e \in kept : e.target = n => e \in EventsOf(c)
  BY DEF Kept
<1>3. (\E e \in EventsOf(c) : e.kind = k) => \E e \in kept : e.target = n /\ e.kind = k
  <2>1. SUFFICES ASSUME \E e \in EventsOf(c) : e.kind = k
                 PROVE  \E e \in kept : e.target = n /\ e.kind = k
    OBVIOUS
  <2>2. Problem(n, k) \in EventsOf(c)
    BY <1>1, <2>1, RaisedAndResolved
  <2>3. Problem(n, k) \in kept
    BY <2>2 DEF Kept, Carried, Problem
  <2>4. QED
    BY <2>3 DEF Problem
<1>4. CASE c.outcome.reachable
  <2>1. k \in NewActive(c)
    BY <1>4 DEF StateOf, ReachableState
  <2>2. Unreachable \notin NewActive(c)
    BY UnreachableApart DEF NewActive, Problems, Cycles, Outcomes, ProblemSets
  <2>3. ~ \E e \in kept : e.target = n /\ e.kind = Unreachable
    BY <1>1, <1>2, <1>4, <2>2, RaisedAndResolved DEF Shown
  <2>4. ~ \E e \in kept : e.target = n /\ e.resolved = k
    BY <1>1, <1>2, <1>4, <2>1, RaisedAndResolved DEF Cleared
  <2>5. k \in view \/ \E e \in EventsOf(c) : e.kind = k
    BY <1>1, <1>4, <2>1, RaisedAndResolved DEF Shown, Due
  <2>6. QED
    BY <1>1, <1>3, <2>3, <2>4, <2>5, ReadKind
<1>5. CASE ~c.outcome.reachable
  <2>1. k = Unreachable /\ Confirmed(c, Unreachable)
    BY <1>5 DEF StateOf, UnreachableState, EmptyState
  <2>2. CASE AnnounceUnreachable(c)
    <3>1. \E e \in kept : e.target = n /\ e.kind = k
      BY <1>1, <1>3, <1>5, <2>1, <2>2, RaisedAndResolved
    <3>2. QED
      BY <1>1, <2>1, <3>1, ReadKind
  <2>3. CASE ~AnnounceUnreachable(c)
    <3>1. k \in view
      BY <2>1, <2>3 DEF AnnounceUnreachable, Due
    <3>2. k # None
      BY <1>1, ModelsAssumption DEF AlertKinds
    <3>3. ~ \E e \in kept : e.target = n /\ e.resolved = k
      BY <1>1, <1>2, <1>5, <3>2, RaisedAndResolved
    <3>4. QED
      BY <1>1, <2>1, <3>1, <3>3, ReadKind
  <2>4. QED
    BY <2>2, <2>3
<1>6. QED
  BY <1>4, <1>5

-----------------------------------------------------------------------------
(* One sink. *)
OneSink == \E s : Sinks = {s}

(* What _deliver is doing.  It has called the one sink or not; only after   *)
(* the call can it have failed.                                             *)
Sending ==
  /\ pc \in {"down", "asleep", "checking"} => delivered
  /\ pc = "checking" => unsent = Sinks
  /\ pc = "evaluating" => (unsent = Sinks /\ delivered) \/ (unsent = {} /\ todo = {})

(* Every step keeps that order of sending. *)
LEMMA SendingCorrect == OneSink => (Spec => []Sending)
<1> SUFFICES ASSUME OneSink PROVE Spec => []Sending
  OBVIOUS
<1>1. Init => Sending
  BY DEF Init, Sending
<1>2. Sending /\ [Next]_vars => Sending'
  <2> SUFFICES ASSUME Sending, [Next]_vars PROVE Sending'
    OBVIOUS
  <2> USE DEF cycleVars, outsideVars
  <2>1. ASSUME CycleForgotten, pc' \in {"down", "asleep"} PROVE Sending'
    BY <2>1 DEF CycleForgotten, Sending
  <2>2. ASSUME NEW s \in Sinks, Deliver(s) PROVE Sending'
    <3>1. /\ pc = "evaluating" /\ todo = {} /\ s \in unsent
          /\ pc' = pc /\ todo' = todo /\ unsent' = unsent \ {s}
      BY <2>2 DEF Deliver
    <3>2. unsent' = {}
      BY <3>1 DEF Sending, OneSink
    <3>3. QED
      BY <3>1, <3>2 DEF Sending
  <2>3. CASE Persist
    <3>1. CASE PrometheusFile
      BY <2>3, <3>1 DEF Persist, Sending
    <3>2. CASE ~PrometheusFile
      BY <2>1, <2>3, <3>2 DEF Persist, CycleReturns
    <3>3. QED
      BY <3>1, <3>2
  <2>4. CASE BeginCycle
    BY <2>4 DEF BeginCycle, Sending
  <2>5. CASE CheckTargets
    BY <2>5 DEF CheckTargets, Sending
  <2>6. CASE EvaluateNext
    BY <2>6 DEF EvaluateNext, Sending
  <2>7. CASE Start \/ Stop \/ UNCHANGED vars
    BY <2>7 DEF Start, Stop, vars, Sending
  <2>8. CASE Crash \/ CheckFails \/ SaveFails \/ ExportMetrics \/ ExportFails
    BY <2>1, <2>8 DEF Crash, CheckFails, CycleFails, SaveFails, ExportMetrics,
                      CycleReturns, ExportFails
  <2>9. QED
    BY <2>2, <2>3, <2>4, <2>5, <2>6, <2>7, <2>8 DEF Next
<1>3. QED
  BY <1>1, <1>2, PTL DEF Spec

(* The deployment InSync is about: one sink that takes everything and tells *)
(* the truth, no dampening and no digest, no kill and no failing save.      *)
(* Refused deliveries, failing checks and failing exports remain.           *)
PlainDelivery ==
  /\ \E s : Sinks = {s} /\ MinSeverity[s] = 0 /\ OnlyKinds[s] = EventKinds
  /\ FaultKinds \cap {"ambiguous", "crash", "save", "unreadable"} = {}
  /\ FailureThreshold = 1
  /\ StartupReport = FALSE
  /\ NamesApart
  /\ UnreachableIsAProblem

(* Every configured target is checked in every cycle. *)
LEMMA ConfiguredChecked ==
  ASSUME Rounds, pc \in {"checking", "evaluating", "exporting"}, NEW n \in ConfiguredNames
  PROVE  n \in Checked /\ n \in Names
<1>1. PICK found \in Discoveries : roster = Configured \o found
  BY DEF Rounds
<1>2. PICK p \in DOMAIN Configured : Configured[p].name = n
  BY DEF ConfiguredNames
<1>3. Configured \in Seq(Targets) /\ found \in Seq(Targets)
  BY MonitorAssumption
<1>4. p \in DOMAIN roster /\ roster[p] = Configured[p] /\ ~(p > Len(Configured))
  BY <1>1, <1>2, <1>3, ConcatProperties, LenProperties
<1>5. QED
  BY <1>2, <1>4, ConfiguredName DEF Checked, Listed

(* A sink without filter keeps the whole batch. *)
LEMMA UnfilteredKeeps ==
  ASSUME TypeOK, PlainDelivery, NEW s \in Sinks
  PROVE  Kept(s, batch) = batch
<1>1. MinSeverity[s] = 0 /\ OnlyKinds[s] = EventKinds
  BY DEF PlainDelivery
<1>2. \A e \in batch : e.kind \in EventKinds
  BY DEF TypeOK, Events
<1>3. \A kind : Severity(kind) >= 0
  BY DEF Severity
<1>4. QED
  BY <1>1, <1>2, <1>3 DEF Kept

(* A reader who agrees with the file and hears the whole batch agrees with  *)
(* the store in memory.                                                     *)
LEMMA HearingAgrees ==
  ASSUME PlainDelivery, ~digest, TypeOK, Rounds, Ledger, AlertBookkeeping,
         pc = "evaluating", todo = {}, NEW n \in Checked
  PROVE  /\ Read(disk[n].active, n, batch) = mem[n].active
         /\ mem[n].active = Detected(n)
         /\ stored[n] = disk[n]
<1>1. PICK p \in Listed(roster) :
        /\ roster[p].name = n /\ Alone(p) /\ Entered(p)
        /\ CycleDone(p) \in Cycles /\ CycleDone(p).target.name = n
        /\ Unreachable \notin CycleDone(p).target.expect
  BY EvaluatedEntry DEF PlainDelivery
<1>2. stored[n] = disk[n] /\ CycleDone(p).previous = disk[n]
  BY <1>1 DEF Entered, Loaded, CycleDone, PlainDelivery
<1>3. CycleDone(p).threshold = 1
  BY DEF CycleDone, PlainDelivery
<1>4. n \in Names
  BY <1>1, ListedName
<1>5. Unreachable \in disk[n].active => disk[n].active = {Unreachable}
  BY <1>4 DEF AlertBookkeeping, Coherent
<1>6. /\ EventsOf(CycleDone(p)) \subseteq batch
      /\ \A e \in batch : e.target = n <=> e \in EventsOf(CycleDone(p))
  BY <1>1, EventsOfType DEF Entered
<1>7. mem[n].active = StateOf(CycleDone(p)).active
  BY <1>1, StateOfType DEF Entered, Seen, TargetStates
<1>8. Read(disk[n].active, n, batch) = StateOf(CycleDone(p)).active
  BY <1>1, <1>2, <1>3, <1>5, <1>6, ReadEvaluation
<1>9. Detected(n) = Found(CycleDone(p))
  BY <1>1, DetectedIsFound DEF PlainDelivery
<1>10. QED
  BY <1>1, <1>2, <1>3, <1>7, <1>8, <1>9, ActiveIsFound

(* Inside a cycle too: the reader agrees with the file until the sink took  *)
(* the batch, and from then on with the store that will be saved.           *)
Synced ==
  \A s \in Sinks, n \in ConfiguredNames :
    heard[s][n] = IF pc = "evaluating" /\ unsent = {} /\ delivered
                  THEN mem[n].active
                  ELSE disk[n].active

(* A delivery that succeeds takes the reader along, one that is refused     *)
(* leaves it where it was.                                                  *)
LEMMA DeliverSynced ==
  ASSUME PlainDelivery, ~digest, TypeOK, Rounds, Ledger, AlertBookkeeping, Sending, Synced,
         NEW s \in Sinks, Deliver(s)
  PROVE  Synced'
<1>1. /\ pc = "evaluating" /\ todo = {} /\ s \in unsent
      /\ unsent' = unsent \ {s} /\ UNCHANGED <<pc, mem, disk>>
  BY DEF Deliver
<1>2. unsent = Sinks /\ delivered /\ Sinks = {s} /\ unsent' = {}
  BY <1>1 DEF Sending, PlainDelivery
<1>3. \A n \in ConfiguredNames : heard[s][n] = disk[n].active /\ n \in Names /\ n \in Checked
  BY <1>1, <1>2, ConfiguredChecked DEF Synced
<1>4. \/ Hears(s) /\ delivered' = delivered
      \/ delivered' = FALSE /\ heard' = heard
  BY Zenon DEF Deliver, Fault, PlainDelivery
<1>5. CASE Hears(s) /\ delivered' = delivered
  <2>1. \A n \in Names : heard'[s][n] = Read(heard[s][n], n, batch)
    BY <1>5, UnfilteredKeeps DEF Hears, TypeOK
  <2>2. \A n \in ConfiguredNames : heard'[s][n] = mem[n].active
    BY <1>1, <1>3, <2>1, HearingAgrees
  <2>3. QED
    BY <1>1, <1>2, <1>5, <2>2 DEF Synced
<1>6. CASE delivered' = FALSE /\ heard' = heard
  BY <1>1, <1>2, <1>3, <1>6 DEF Synced
<1>7. QED
  BY <1>4, <1>5, <1>6

(* What is saved is what the reader believes. *)
LEMMA SaveSynced ==
  ASSUME PlainDelivery, ~digest, TypeOK, Rounds, Ledger, AlertBookkeeping, Sending, Synced,
         Settled, NEW s \in Sinks, NEW n \in ConfiguredNames
  PROVE  heard[s][n] = ToSave[n].active
<1>1. pc = "evaluating" /\ todo = {} /\ (batch = {} \/ unsent = {})
  BY DEF Settled
<1>2. n \in Checked /\ n \in Names
  BY <1>1, ConfiguredChecked
<1>3. /\ Read(disk[n].active, n, batch) = mem[n].active
      /\ stored[n] = disk[n]
  BY <1>1, <1>2, HearingAgrees
<1>4. disk[n] \in TargetStates /\ disk[n].active \in SUBSET AlertKinds
  BY <1>2 DEF TypeOK, Stores, TargetStates
<1>5. ToSave[n] = Reverted[n]
  BY <1>2, CheckedKept
<1>6. CASE unsent = {} /\ delivered
  BY <1>1, <1>2, <1>5, <1>6 DEF Synced, Reverted
<1>7. CASE ~(unsent = {} /\ delivered)
  <2>1. heard[s][n] = disk[n].active
    BY <1>7 DEF Synced
  <2>2. CASE \E e \in batch : e.target = n
    <3>1. ~delivered
      BY <1>1, <1>7, <2>2 DEF Sending
    <3>2. ToSave[n] = Seen(disk[n], now)
      BY <1>2, <1>3, <1>5, <2>2, <3>1 DEF Reverted
    <3>3. QED
      BY <1>4, <2>1, <3>2 DEF Seen, TargetStates
  <2>3. CASE \A e \in batch : e.target # n
    <3>1. ToSave[n] = mem[n]
      BY <1>2, <1>5, <2>3 DEF Reverted
    <3>2. QED
      BY <1>3, <1>4, <2>1, <2>3, <3>1, ReadNothing
  <2>4. QED
    BY <2>2, <2>3
<1>8. QED
  BY <1>6, <1>7

(* Every step keeps the reader in step with the cycle. *)
LEMMA NextSynced ==
  ASSUME PlainDelivery, ~digest, TypeOK, Rounds, Ledger, AlertBookkeeping, Sending, Synced,
         [Next]_vars
  PROVE  Synced'
<1> USE DEF cycleVars, outsideVars
<1>1. ASSUME UNCHANGED <<disk, heard>>, pc # "evaluating", pc' # "evaluating" PROVE Synced'
  BY <1>1 DEF Synced
<1>2. CASE CheckTargets
  <2>1. OneSink
    BY DEF OneSink, PlainDelivery
  <2>2. pc = "checking" /\ unsent' = Sinks /\ Sinks # {} /\ UNCHANGED <<disk, heard>>
    BY <1>2, <2>1 DEF CheckTargets, Sending, OneSink
  <2>3. QED
    BY <2>2 DEF Synced
<1>3. CASE EvaluateNext
  <2>1. unsent = Sinks /\ Sinks # {} /\ UNCHANGED <<pc, unsent, disk, heard>>
    BY <1>3 DEF EvaluateNext, Sending, PlainDelivery
  <2>2. QED
    BY <2>1 DEF Synced
<1>4. ASSUME NEW s \in Sinks, Deliver(s) PROVE Synced'
  BY <1>4, DeliverSynced
<1>5. CASE Persist
  <2>1. Settled /\ disk' = ToSave /\ heard' = heard /\ pc' # "evaluating"
    BY <1>5 DEF Persist, CycleReturns
  <2>2. QED
    BY <2>1, SaveSynced DEF Synced
<1>6. CASE Start
  BY <1>1, <1>6 DEF Start
<1>7. CASE Stop
  BY <1>1, <1>7 DEF Stop
<1>8. CASE Crash
  BY <1>8 DEF Crash, Fault, PlainDelivery
<1>9. CASE BeginCycle
  BY <1>1, <1>9 DEF BeginCycle
<1>10. CASE CheckFails
  BY <1>1, <1>10 DEF CheckFails, CycleFails
<1>11. CASE SaveFails
  BY <1>11 DEF SaveFails, CycleFails, Fault, PlainDelivery
<1>12. CASE ExportMetrics
  BY <1>1, <1>12 DEF ExportMetrics, CycleReturns
<1>13. CASE ExportFails
  BY <1>1, <1>13 DEF ExportFails, CycleFails
<1>14. CASE UNCHANGED vars
  BY <1>14 DEF vars, Synced
<1>15. QED
  BY <1>2, <1>3, <1>4, <1>5, <1>6, <1>7, <1>8, <1>9, <1>10, <1>11, <1>12, <1>13,
     <1>14 DEF Next

(* For every configured target, whatever else discovery finds. *)
LEMMA SyncedCorrect == PlainDelivery => (Spec => [](Sending /\ Synced))
<1> SUFFICES ASSUME PlainDelivery PROVE Spec => [](Sending /\ Synced)
  OBVIOUS
<1>0. OneSink /\ StartupReport = FALSE
  BY DEF OneSink, PlainDelivery
<1>1. Init => Synced
  <2>1. \A n \in ConfiguredNames : n \in Names
    BY ConfiguredName DEF ConfiguredNames
  <2>2. SUFFICES ASSUME Init, NEW s \in Sinks, NEW n \in ConfiguredNames
                 PROVE  heard[s][n] = disk[n].active /\ pc # "evaluating"
    BY DEF Synced
  <2>3. heard[s][n] = {} /\ disk[n] = EmptyState /\ pc = "down"
    BY <2>1, <2>2 DEF Init, EmptyStore
  <2>4. QED
    BY <2>3 DEF EmptyState
<1>2. TypeOK /\ Rounds /\ Ledger /\ AlertBookkeeping /\ Sending /\ ~digest /\ Synced
        /\ [Next]_vars => Synced'
  BY NextSynced
<1>3. QED
  BY <1>0, <1>1, <1>2, TypeCorrect, LedgerCorrect, BookkeepingCorrect, SendingCorrect,
     NoDigestOwed, PTL DEF Spec

(* Every target is configured.  What readers believe of a target that only  *)
(* discovery knows is stale once its entry lapsed.                          *)
AllConfigured == Names = ConfiguredNames

(* Between any two cycles the reader believes active exactly what the file  *)
(* records, whatever was refused, failed and retried before.                *)
THEOREM SyncCorrect == PlainDelivery /\ AllConfigured => (Spec => []InSync)
<1> SUFFICES ASSUME PlainDelivery, AllConfigured PROVE Spec => []InSync
  OBVIOUS
<1>1. Synced => InSync
  BY DEF Synced, InSync, AllConfigured
<1>2. QED
  BY <1>1, SyncedCorrect, PTL

(* A reader who believes an alert active is only sent it again beside a new *)
(* one, or when it is due.                                                  *)
THEOREM RepetitionCorrect == PlainDelivery => (Spec => []ToldOnce)
<1> SUFFICES ASSUME PlainDelivery PROVE Spec => []ToldOnce
  OBVIOUS
<1>1. TypeOK /\ Rounds /\ Ledger /\ Synced => ToldOnce
  <2> SUFFICES ASSUME TypeOK, Rounds, Ledger, Synced,
                      pc = "evaluating", todo = {}, unsent = Sinks, ~digest,
                      NEW n \in ConfiguredNames, NEW k \in AlertKinds,
                      Problem(n, k) \in batch, \A s \in Sinks : k \in heard[s][n]
               PROVE  \/ \E j \in AlertKinds, s \in Sinks :
                            Problem(n, j) \in batch /\ j \notin heard[s][n]
                      \/ /\ RenotifyAfter # None
                         /\ disk[n].notified[k] # None
                         /\ now - disk[n].notified[k] >= RenotifyAfter
    BY DEF ToldOnce
  <2>1. PICK s \in Sinks : TRUE
    BY DEF PlainDelivery
  <2>2. heard[s][n] = disk[n].active /\ k \in disk[n].active
    BY <2>1 DEF Synced
  <2>3. n \in Checked
    BY ConfiguredChecked
  <2>4. PICK p \in Listed(roster) :
          /\ roster[p].name = n /\ Entered(p)
          /\ CycleDone(p) \in Cycles /\ CycleDone(p).target.name = n
    BY <2>3, EvaluatedEntry DEF PlainDelivery
  <2> DEFINE c == CycleDone(p)
  <2>5. /\ c.previous = disk[n] /\ c.now = now
        /\ EventsOf(c) \subseteq batch /\ Problem(n, k) \in EventsOf(c)
    BY <2>4 DEF Entered, Loaded, CycleDone, PlainDelivery, Problem
  <2>6. \E e \in EventsOf(c) : e.kind = k
    BY <2>5 DEF Problem
  <2> HIDE DEF c
  <2>7. CASE Due(c, k)
    BY <2>2, <2>5, <2>7 DEF Due
  <2>8. CASE ~Due(c, k)
    <3>1. c \in Cycles
      BY <2>4 DEF c
    <3>2. c.outcome.reachable /\ k \in Shown(c)
      BY <2>6, <2>8, <3>1, RaisedAndResolved DEF AnnounceUnreachable
    <3>3. PICK j \in NewActive(c) : j \notin c.previous.active
      BY <2>8, <3>2 DEF Shown, ForceFull
    <3>4. j \in Shown(c) /\ j \in AlertKinds
      BY <3>1, <3>2, <3>3, StateOfType
      DEF Shown, Due, StateOf, ReachableState, TargetStates
    <3>5. Problem(n, j) \in EventsOf(c)
      BY <2>4, <3>1, <3>2, <3>4, RaisedAndResolved DEF c
    <3>6. QED
      BY <2>1, <2>2, <2>5, <3>3, <3>4, <3>5
  <2>9. QED
    BY <2>7, <2>8
<1>2. QED
  BY <1>1, TypeCorrect, LedgerCorrect, SyncedCorrect, PTL

-----------------------------------------------------------------------------
(* What AlarmPanel calls the assessment, as Monitor maps it. *)
Picture ==
  IF pc = "evaluating"
  THEN [n \in Names |-> Detected(n)]
  ELSE [n \in Names |-> disk[n].active]

(* What a step leaves as the assessment is a picture of all targets. *)
LEMMA PictureType ==
  ASSUME TypeOK'
  PROVE  Picture' \in [Names -> SUBSET AlertKinds]
<1>1. \A n \in Names : Detected(n)' \subseteq AlertKinds
  BY DEF Detected
<1>2. \A n \in Names : disk'[n].active \subseteq AlertKinds
  BY DEF TypeOK, Stores, TargetStates
<1>3. QED
  BY <1>1, <1>2 DEF Picture

(* The delivery of a batch puts the whole assessment on a panel, or leaves  *)
(* it as it is.                                                             *)
LEMMA DeliverAnnounces ==
  ASSUME PlainDelivery, AllConfigured, ~digest, TypeOK, TypeOK', Rounds, Ledger,
         AlertBookkeeping, Sending, Synced, NEW s \in Sinks, Deliver(s)
  PROVE  /\ Picture' = Picture
         /\ heard' = heard \/ heard' = [heard EXCEPT ![s] = Picture]
<1>1. /\ pc = "evaluating" /\ todo = {} /\ s \in unsent
      /\ UNCHANGED <<pc, roster, outcomes, disk>>
  BY DEF Deliver
<1>2. unsent = Sinks
  BY <1>1 DEF Sending
<1>3. Picture' = Picture
  BY <1>1 DEF Picture, Detected, Listed
<1>4. heard' = heard \/ Hears(s)
  BY Zenon DEF Deliver
<1>5. ASSUME Hears(s) PROVE heard' = [heard EXCEPT ![s] = Picture]
  <2>1. heard' = [heard EXCEPT ![s] = [n \in Names |-> Read(heard[s][n], n, batch)]]
    BY <1>5, UnfilteredKeeps DEF Hears
  <2>2. \A n \in Names : Read(heard[s][n], n, batch) = Detected(n)
    <3> SUFFICES ASSUME NEW n \in Names PROVE Read(heard[s][n], n, batch) = Detected(n)
      OBVIOUS
    <3>1. n \in Checked /\ n \in ConfiguredNames
      BY <1>1, ConfiguredChecked DEF AllConfigured
    <3>2. heard[s][n] = disk[n].active
      BY <1>1, <1>2, <3>1 DEF Synced
    <3>3. QED
      BY <1>1, <3>1, <3>2, HearingAgrees
  <2>3. Picture = [n \in Names |-> Detected(n)]
    BY <1>1 DEF Picture
  <2>4. [n \in Names |-> Read(heard[s][n], n, batch)] = Picture
    BY <2>2, <2>3
  <2>5. QED
    BY <2>1, <2>4
<1>6. QED
  BY <1>3, <1>4, <1>5

(* The readers' views implement the panel: they change only by taking over  *)
(* the assessment of all targets as a whole, never half of a batch.         *)
THEOREM PanelRefinement == PlainDelivery /\ AllConfigured => (Spec => ImplementsPanel)
<1> SUFFICES ASSUME PlainDelivery, AllConfigured PROVE Spec => ImplementsPanel
  OBVIOUS
<1> USE DEF cycleVars, outsideVars
<1>0. StartupReport = FALSE
  BY DEF PlainDelivery
<1>1. Init => Panel!Init
  BY DEF Init, Panel!Init, Panel!Pictures, EmptyStore, EmptyState
<1>2. TypeOK /\ TypeOK' /\ Rounds /\ Ledger /\ AlertBookkeeping /\ ~digest /\ Sending
        /\ Synced /\ [Next]_vars => [Panel!Next]_<<Picture, heard>>
  <2> SUFFICES ASSUME TypeOK, TypeOK', Rounds, Ledger, AlertBookkeeping, ~digest,
                      Sending, Synced, [Next]_vars
               PROVE  Panel!Next \/ UNCHANGED <<Picture, heard>>
    OBVIOUS
  <2>1. ASSUME heard' = heard PROVE Panel!Next
    <3>1. Picture' \in [Names -> SUBSET AlertKinds]
      BY PictureType
    <3>2. QED
      BY <2>1, <3>1 DEF Panel!Next, Panel!Assess, Panel!Pictures, Picture
  <2>2. ASSUME NEW s \in Sinks, Deliver(s) PROVE Panel!Next \/ UNCHANGED <<Picture, heard>>
    <3>1. Picture' = Picture
      BY <2>2, DeliverAnnounces
    <3>2. CASE heard' = [heard EXCEPT ![s] = Picture]
      BY <3>1, <3>2 DEF Panel!Next, Panel!Announce, Picture
    <3>3. CASE heard' = heard
      BY <3>1, <3>3
    <3>4. QED
      BY <2>2, <3>2, <3>3, DeliverAnnounces
  <2>3. CASE ~ \E s \in Sinks : Deliver(s)
    <3>1. heard' = heard
      BY <2>3
      DEF Next, vars, Start, Stop, Crash, BeginCycle, CheckTargets, CheckFails, CycleFails,
          EvaluateNext, Persist, SaveFails, ExportMetrics, ExportFails
    <3>2. QED
      BY <2>1, <3>1
  <2>4. QED
    BY <2>2, <2>3
<1>3. QED
  BY <1>0, <1>1, <1>2, TypeCorrect, LedgerCorrect, BookkeepingCorrect, NoDigestOwed,
     SyncedCorrect, PTL DEF Spec, ImplementsPanel, Panel!Spec, Picture

-----------------------------------------------------------------------------
(* The deployment KnownToEverySink is about: one sink, filtered or not, that*)
(* tells the truth, saves that succeed, targets from the configuration, and *)
(* a startup digest if the process may be killed: an event may be taken and *)
(* the process killed before it is recorded.                                *)
TruthfulDelivery ==
  /\ OneSink
  /\ FaultKinds \cap {"ambiguous", "save"} = {}
  /\ "crash" \in FaultKinds => StartupReport
  /\ NamesApart
  /\ UnreachableIsAProblem
  /\ AllConfigured

(* Every alert that is active in the store, and that a sink carries, is     *)
(* known to its reader.                                                     *)
Covered(store) ==
  \A s \in Sinks, n \in Names : store[n].active \cap Carried(s) \subseteq heard[s][n]

(* Where that holds: for the file, unless a digest is owed that will tell   *)
(* everything again; once the sink took the batch, for the store in memory. *)
Known ==
  /\ digest => StartupReport
  /\ pc = "down" => StartupReport \/ Covered(disk)
  /\ pc = "exporting" /\ delivered => Covered(disk)
  /\ IF pc = "evaluating" /\ delivered /\ unsent = {}
     THEN Covered(mem)
     ELSE pc # "down" => digest \/ Covered(disk)

(* A reader who knew what the evaluation started from, or is told all of it *)
(* by the digest, knows what the batch leaves active.                       *)
LEMMA HearingCovers ==
  ASSUME TruthfulDelivery, TypeOK, Rounds, Ledger, pc = "evaluating", todo = {},
         digest \/ Covered(disk), NEW s \in Sinks, NEW n \in Names
  PROVE  mem[n].active \cap Carried(s) \subseteq Read(heard[s][n], n, Kept(s, batch))
<1>1. n \in Checked
  BY ConfiguredChecked DEF TruthfulDelivery, AllConfigured
<1>2. PICK p \in Listed(roster) :
        /\ roster[p].name = n /\ Entered(p)
        /\ CycleDone(p) \in Cycles /\ CycleDone(p).target.name = n
        /\ Unreachable \notin CycleDone(p).target.expect
  BY <1>1, EvaluatedEntry DEF TruthfulDelivery
<1> DEFINE c == CycleDone(p)
<1>3. mem[n].active = StateOf(c).active
  BY <1>2, StateOfType DEF Entered, Seen, TargetStates
<1>4. \A k \in c.previous.active : ~digest /\ k \in disk[n].active
  BY <1>2 DEF CycleDone, Entered, Loaded, EmptyState
<1>5. heard[s][n] \in SUBSET AlertKinds
  BY DEF TypeOK
<1>6. /\ EventsOf(c) \subseteq batch
      /\ \A e \in batch : e.target = c.target.name <=> e \in EventsOf(c)
  BY <1>2, EventsOfType DEF Entered
<1> SUFFICES ASSUME NEW k \in StateOf(c).active \cap Carried(s)
             PROVE  k \in Read(heard[s][n], n, Kept(s, batch))
  BY <1>3
<1>7. k \in c.previous.active => k \in heard[s][n]
  BY <1>4 DEF Covered
<1> HIDE DEF c
<1>8. c \in Cycles /\ Unreachable \notin c.target.expect /\ c.target.name = n
  BY <1>2 DEF c
<1>9. k \in Read(heard[s][n], c.target.name, Kept(s, batch))
  BY <1>5, <1>6, <1>7, <1>8, ReadCarried
<1>10. QED
  BY <1>8, <1>9

(* The call of the sink keeps its reader covered. *)
LEMMA DeliverKnown ==
  ASSUME TruthfulDelivery, TypeOK, Rounds, Ledger, Sending, Known, NEW s \in Sinks, Deliver(s)
  PROVE  Known'
<1>1. /\ pc = "evaluating" /\ todo = {} /\ s \in unsent
      /\ unsent' = unsent \ {s} /\ UNCHANGED <<pc, digest, mem, disk>>
  BY DEF Deliver
<1>2. unsent = Sinks /\ delivered /\ Sinks = {s} /\ unsent' = {}
  BY <1>1 DEF Sending, TruthfulDelivery, OneSink
<1>3. digest \/ Covered(disk)
  BY <1>1, <1>2 DEF Known
<1>4. \/ Hears(s) /\ delivered' = delivered
      \/ delivered' = FALSE /\ heard' = heard
  BY Zenon DEF Deliver, Fault, TruthfulDelivery
<1>5. CASE Hears(s) /\ delivered' = delivered
  <2>1. \A n \in Names : heard'[s][n] = Read(heard[s][n], n, Kept(s, batch))
    BY <1>5 DEF Hears, TypeOK
  <2>2. \A n \in Names : mem[n].active \cap Carried(s) \subseteq heard'[s][n]
    BY <1>1, <1>3, <2>1, HearingCovers
  <2>3. Covered(mem)'
    BY <1>1, <1>2, <2>2 DEF Covered
  <2>4. QED
    BY <1>1, <1>2, <1>5, <2>3 DEF Known
<1>6. CASE delivered' = FALSE /\ heard' = heard
  <2>1. Covered(disk)' <=> Covered(disk)
    BY <1>1, <1>6 DEF Covered
  <2>2. QED
    BY <1>1, <1>3, <1>6, <2>1 DEF Known
<1>7. QED
  BY <1>4, <1>5, <1>6

(* Once everything is settled, what is about to be saved is covered, unless *)
(* the delivery failed and a digest is owed.                                *)
LEMMA SaveKnown ==
  ASSUME TruthfulDelivery, TypeOK, Rounds, Ledger, Sending, Known, Settled
  PROVE  Covered(ToSave) \/ (digest /\ ~delivered)
<1>1. pc = "evaluating" /\ todo = {} /\ (batch = {} \/ unsent = {})
  BY DEF Settled
<1>2. SUFFICES ASSUME ~digest \/ delivered, NEW s \in Sinks, NEW n \in Names,
                      NEW k \in ToSave[n].active \cap Carried(s)
               PROVE  k \in heard[s][n]
  BY DEF Covered
<1>3. n \in Checked
  BY <1>1, ConfiguredChecked DEF TruthfulDelivery, AllConfigured
<1>4. ToSave[n] = Reverted[n]
  BY <1>3, CheckedKept
<1>5. heard[s][n] \in SUBSET AlertKinds /\ stored[n] \in TargetStates
  BY DEF TypeOK, Stores
<1>6. CASE delivered /\ unsent = {}
  BY <1>1, <1>2, <1>4, <1>6 DEF Known, Covered, Reverted
<1>7. CASE ~(delivered /\ unsent = {})
  <2>1. digest \/ Covered(disk)
    BY <1>1, <1>7 DEF Known
  <2>2. CASE \A e \in batch : e.target # n
    <3>1. ToSave[n] = mem[n]
      BY <1>4, <2>2 DEF Reverted
    <3>2. k \in Read(heard[s][n], n, Kept(s, batch))
      BY <1>1, <1>2, <2>1, <3>1, HearingCovers
    <3>3. \A e \in Kept(s, batch) : e.target # n
      BY <2>2 DEF Kept
    <3>4. QED
      BY <1>5, <3>2, <3>3, ReadNothing
  <2>3. CASE \E e \in batch : e.target = n
    <3>1. ~delivered
      BY <1>1, <1>7, <2>3 DEF Sending
    <3>2. Covered(disk)
      BY <1>2, <2>1, <3>1
    <3>3. ToSave[n].active = stored[n].active
      BY <1>4, <1>5, <2>3, <3>1 DEF Reverted, Seen, TargetStates
    <3>4. PICK p \in Listed(roster) : roster[p].name = n /\ Entered(p)
      BY <1>1, <1>3, EvaluatedEntry DEF TruthfulDelivery
    <3>5. stored[n].active \subseteq disk[n].active
      BY <1>1, <3>4 DEF Entered, Loaded, EmptyState
    <3>6. QED
      BY <1>2, <3>2, <3>3, <3>5 DEF Covered
  <2>4. QED
    BY <2>2, <2>3
<1>8. QED
  BY <1>6, <1>7

(* Every step keeps what is known. *)
LEMMA NextKnown ==
  ASSUME TruthfulDelivery, TypeOK, Rounds, Ledger, Sending, Known, [Next]_vars
  PROVE  Known'
<1> USE DEF cycleVars, outsideVars
<1>1. ASSUME UNCHANGED <<disk, heard>>
      PROVE  Covered(disk)' <=> Covered(disk)
  BY <1>1 DEF Covered
<1>2. CASE Start
  BY <1>1, <1>2 DEF Start, Known
<1>3. CASE Stop
  BY <1>1, <1>3 DEF Stop, Known
<1>4. CASE Crash
  BY <1>4 DEF Crash, Fault, Known, TruthfulDelivery
<1>5. CASE BeginCycle
  BY <1>1, <1>5 DEF BeginCycle, Known
<1>6. CASE CheckTargets
  <2>1. pc = "checking" /\ unsent' = Sinks /\ Sinks # {} /\ digest' = digest
        /\ pc' = "evaluating" /\ UNCHANGED <<disk, heard>>
    BY <1>6 DEF CheckTargets, Sending, TruthfulDelivery, OneSink
  <2>2. QED
    BY <1>1, <2>1 DEF Known
<1>7. CASE CheckFails
  BY <1>1, <1>7 DEF CheckFails, CycleFails, Known
<1>8. CASE EvaluateNext
  <2>1. unsent = Sinks /\ Sinks # {} /\ UNCHANGED <<pc, digest, unsent, delivered, disk, heard>>
    BY <1>8 DEF EvaluateNext, Sending, TruthfulDelivery, OneSink
  <2>2. pc = "evaluating"
    BY <1>8 DEF EvaluateNext
  <2>3. QED
    BY <1>1, <2>1, <2>2 DEF Known
<1>9. ASSUME NEW s \in Sinks, Deliver(s) PROVE Known'
  BY <1>9, DeliverKnown
<1>10. CASE Persist
  <2>1. Settled /\ disk' = ToSave /\ heard' = heard
    BY <1>10 DEF Persist
  <2>2. Covered(disk)' \/ (digest /\ ~delivered)
    BY <2>1, SaveKnown DEF Covered
  <2>3. digest => StartupReport
    BY DEF Known
  <2>4. CASE PrometheusFile
    <3>1. pc' = "exporting" /\ (digest' <=> digest) /\ (delivered' <=> delivered)
      BY <1>10, <2>4 DEF Persist
    <3>2. QED
      BY <2>2, <2>3, <3>1 DEF Known
  <2>5. CASE ~PrometheusFile
    <3>1. pc' = "asleep" /\ (digest' <=> digest /\ ~delivered)
      BY <1>10, <2>5 DEF Persist, CycleReturns
    <3>2. QED
      BY <2>2, <2>3, <3>1 DEF Known
  <2>6. QED
    BY <2>4, <2>5
<1>11. CASE SaveFails
  BY <1>11 DEF SaveFails, CycleFails, Fault, TruthfulDelivery
<1>12. CASE ExportMetrics
  BY <1>1, <1>12 DEF ExportMetrics, CycleReturns, Known
<1>13. CASE ExportFails
  BY <1>1, <1>13 DEF ExportFails, CycleFails, Known
<1>14. CASE UNCHANGED vars
  BY <1>14 DEF vars, Known, Covered
<1>15. QED
  BY <1>2, <1>3, <1>4, <1>5, <1>6, <1>7, <1>8, <1>9, <1>10, <1>11, <1>12, <1>13,
     <1>14 DEF Next

(* A cycle that counts as delivered leaves no alert active that its reader  *)
(* does not know of, for any threshold and filter, also after kills and     *)
(* state files that could not be read.                                      *)
THEOREM KnowledgeCorrect == TruthfulDelivery => (Spec => []KnownToEverySink)
<1> SUFFICES ASSUME TruthfulDelivery PROVE Spec => []KnownToEverySink
  OBVIOUS
<1>0. OneSink
  BY DEF TruthfulDelivery
<1>1. Init => Known
  <2> SUFFICES ASSUME Init PROVE Known
    OBVIOUS
  <2>1. \A n \in Names : disk[n].active = {}
    BY DEF Init, EmptyStore, EmptyState
  <2>2. QED
    BY <2>1 DEF Init, Known, Covered
<1>2. TypeOK /\ Rounds /\ Ledger /\ Sending /\ Known /\ [Next]_vars => Known'
  BY NextKnown
<1>3. TypeOK /\ Rounds /\ Ledger /\ Sending /\ Known => KnownToEverySink
  <2> SUFFICES ASSUME TypeOK, Rounds, Ledger, Sending, Known, Settled, delivered,
                      NEW s \in Sinks, NEW n \in Checked
               PROVE  ToSave[n].active \cap Carried(s) \subseteq heard[s][n]
    BY DEF KnownToEverySink
  <2>1. n \in Names
    BY CheckedKept
  <2>2. QED
    BY <2>1, SaveKnown DEF Covered
<1>4. QED
  BY <1>0, <1>1, <1>2, <1>3, TypeCorrect, LedgerCorrect, SendingCorrect, PTL DEF Spec
=============================================================================
