------------------------- MODULE SharedStateProofs --------------------------
(***************************************************************************)
(* What holds of any number of certminder processes on one state file, for *)
(* all targets, sinks and readers.                                         *)
(***************************************************************************)
EXTENDS SharedState, EvaluatorProofs

Steps == {"idle", "loaded", "evaluated", "delivered"}

CycleTypes ==
  [step : Steps, store : Stores, found : {<<>>} \cup [Watched -> Outcomes], at : Nat]

(* The part of TypeOK the proofs need. *)
Typed ==
  /\ now \in Nat
  /\ disk \in Stores
  /\ cycle \in [Procs -> CycleTypes]
  /\ \A p \in Procs :
       /\ cycle[p].at <= now
       /\ cycle[p].step = "evaluated" => cycle[p].found \in [Watched -> Outcomes]

(* The time the entries of a cycle's store are not later than. *)
AsOf(c) == IF c.step \in {"evaluated", "delivered"} THEN c.at ELSE now

(* The file is not enough: what a process is about to save is coherent too. *)
AllCoherent ==
  \A n \in Names :
    /\ Bygone(disk[n], 1, now)
    /\ \A p \in Procs : Bygone(cycle[p].store[n], 1, AsOf(cycle[p]))

(* An entry never seen is bygone at any time. *)
LEMMA EmptyBygone ==
  ASSUME NEW t \in Nat
  PROVE  Bygone(EmptyState, 1, t)
  BY EmptyStateFacts DEF Bygone, EmptyState

(* Once bygone, bygone for ever. *)
LEMMA BygoneLater ==
  ASSUME NEW state \in TargetStates, NEW t \in Nat, NEW u \in Nat, t <= u,
         Bygone(state, 1, t)
  PROVE  Bygone(state, 1, u)
<1>1. state.seen \in Nat \cup {None}
  BY DEF TargetStates
<1>2. state.seen # None => state.seen <= u
  BY <1>1 DEF Bygone
<1>3. QED
  BY <1>2 DEF Bygone

(* The argument of an evaluation is well formed. *)
LEMMA EvaluationType ==
  ASSUME NEW c \in CycleTypes, c.found \in [Watched -> Outcomes], NEW t \in Watched
  PROVE  /\ Evaluation(c, t) \in Cycles
         /\ t.name \in Names
         /\ c.store[t.name] \in TargetStates
<1>1. t \in Targets /\ t.name \in Names
  BY SharedStateAssumption DEF Targets
<1>2. c.found[t] \in Outcomes /\ c.at \in Nat
  BY DEF CycleTypes
<1>3. c.store[t.name] \in TargetStates
  BY <1>1 DEF CycleTypes, Stores
<1>4. QED
  BY <1>1, <1>2, <1>3 DEF Evaluation, Cycles

(* What a cycle saves of one target: what it loaded, stamped or not, or the *)
(* result of its evaluation.                                                *)
LEMMA SavedEntry ==
  ASSUME NEW c, NEW delivered, NEW n \in Names
  PROVE  \/ ToSave(c, delivered)[n] \in {EmptyState, c.store[n], Seen(c.store[n], c.at)}
         \/ \E t \in Watched :
              /\ t.name = n
              /\ ToSave(c, delivered)[n] = Seen(StateOf(Evaluation(c, t)), c.at)
<1> DEFINE t == CHOOSE u \in Watched : u.name = n
<1>1. (\E u \in Watched : u.name = n) => t \in Watched /\ t.name = n
  OBVIOUS
<1>2. QED
  BY <1>1 DEF ToSave, Prune

(* What a cycle saves is a coherent store. *)
LEMMA SavedBygone ==
  ASSUME NEW c \in CycleTypes, c.found \in [Watched -> Outcomes],
         \A n \in Names : Bygone(c.store[n], 1, c.at), NEW delivered
  PROVE  /\ ToSave(c, delivered) \in Stores
         /\ \A n \in Names : Bygone(ToSave(c, delivered)[n], 1, c.at)
<1>0. c.at \in Nat /\ c.store \in Stores
  BY DEF CycleTypes
<1>1. ASSUME NEW n \in Names
      PROVE  /\ ToSave(c, delivered)[n] \in TargetStates
             /\ Bygone(ToSave(c, delivered)[n], 1, c.at)
  <2>1. c.store[n] \in TargetStates /\ Seen(c.store[n], c.at) \in TargetStates
    BY <1>0, SeenType DEF Stores
  <2>2. Bygone(Seen(c.store[n], c.at), 1, c.at)
    BY <1>0, <2>1, SeenCoherent
  <2>3. ASSUME NEW t \in Watched, t.name = n
        PROVE  /\ Seen(StateOf(Evaluation(c, t)), c.at) \in TargetStates
               /\ Bygone(Seen(StateOf(Evaluation(c, t)), c.at), 1, c.at)
    <3>1. Evaluation(c, t) \in Cycles
      BY EvaluationType
    <3>2. /\ Evaluation(c, t).now = c.at /\ Evaluation(c, t).threshold = 1
          /\ Evaluation(c, t).previous = c.store[n]
      BY <2>3 DEF Evaluation
    <3>3. QED
      BY <1>0, <3>1, <3>2, StateOfType, SeenType, EvaluationCoherent
  <2>4. QED
    BY <1>0, <2>1, <2>2, <2>3, SavedEntry, EmptyStateFacts, EmptyBygone
<1>2. ToSave(c, delivered) = [n \in Names |-> ToSave(c, delivered)[n]]
  BY DEF ToSave, Prune
<1>3. QED
  BY <1>1, <1>2 DEF Stores

-----------------------------------------------------------------------------
(* Every step of every process keeps all stores well formed and coherent.   *)
LEMMA NextCoherent ==
  ASSUME Typed, AllCoherent, [Next]_vars
  PROVE  Typed' /\ AllCoherent'
<1>0. /\ now \in Nat /\ disk \in Stores /\ EmptyStore \in Stores
      /\ \A n \in Names : EmptyStore[n] = EmptyState
      /\ \A p \in Procs : cycle[p] \in CycleTypes
  BY EmptyStoreType DEF Typed, EmptyStore
<1>1. ASSUME NEW p \in Procs, NEW c \in CycleTypes, cycle' = [cycle EXCEPT ![p] = c],
             now' = now, c.at <= now,
             c.step = "evaluated" => c.found \in [Watched -> Outcomes],
             disk' \in Stores,
             \A n \in Names : Bygone(c.store[n], 1, AsOf(c)),
             \A n \in Names : Bygone(disk'[n], 1, now)
      PROVE  Typed' /\ AllCoherent'
  <2>1. \A q \in Procs : cycle'[q] = IF q = p THEN c ELSE cycle[q]
    BY <1>1 DEF Typed
  <2>2. cycle' \in [Procs -> CycleTypes]
    BY <1>1 DEF Typed
  <2>3. QED
    BY <1>1, <2>1, <2>2 DEF Typed, AllCoherent, AsOf
<1>2. NoCycle \in CycleTypes /\ NoCycle.at = 0 /\ NoCycle.step = "idle"
      /\ NoCycle.store = EmptyStore
  BY <1>0 DEF NoCycle, CycleTypes, Steps
<1>3. CASE Tick
  <2>1. now' = now + 1 /\ UNCHANGED <<cycle, disk>>
    BY <1>3 DEF Tick
  <2>2. Typed'
    BY <1>0, <2>1 DEF Typed, CycleTypes
  <2>3. ASSUME NEW n \in Names PROVE Bygone(disk[n], 1, now + 1)
    <3>1. disk[n] \in TargetStates /\ Bygone(disk[n], 1, now)
      BY <1>0 DEF Stores, AllCoherent
    <3>2. QED
      BY <1>0, <3>1, BygoneLater
  <2>4. ASSUME NEW n \in Names, NEW p \in Procs
        PROVE  Bygone(cycle[p].store[n], 1, AsOf(cycle[p])')
    <3>1. cycle[p].store[n] \in TargetStates /\ Bygone(cycle[p].store[n], 1, AsOf(cycle[p]))
      BY <1>0 DEF CycleTypes, Stores, AllCoherent
    <3>2. AsOf(cycle[p]) \in Nat /\ AsOf(cycle[p])' \in Nat
          /\ AsOf(cycle[p]) <= AsOf(cycle[p])'
      BY <1>0, <2>1 DEF AsOf, CycleTypes
    <3>3. QED
      BY <3>1, <3>2, BygoneLater
  <2>5. QED
    BY <2>1, <2>2, <2>3, <2>4 DEF AllCoherent
<1>4. ASSUME NEW p \in Procs, Load(p) PROVE Typed' /\ AllCoherent'
  <2> DEFINE c == [NoCycle EXCEPT !.step = "loaded", !.store = disk]
  <2>1. c \in CycleTypes /\ c.step = "loaded" /\ c.store = disk /\ c.at = 0
    BY <1>0, <1>2 DEF NoCycle, CycleTypes, Steps
  <2>2. cycle' = [cycle EXCEPT ![p] = c] /\ now' = now /\ disk' = disk
    BY <1>4 DEF Load
  <2> HIDE DEF c
  <2>3. \A n \in Names : Bygone(disk[n], 1, now)
    BY DEF AllCoherent
  <2>4. /\ c.at <= now /\ (c.step = "evaluated" => c.found \in [Watched -> Outcomes])
        /\ disk' \in Stores
        /\ \A n \in Names : Bygone(c.store[n], 1, AsOf(c))
        /\ \A n \in Names : Bygone(disk'[n], 1, now)
    BY <1>0, <2>1, <2>2, <2>3 DEF AsOf
  <2>5. QED
    BY <1>1, <2>1, <2>2, <2>4
<1>5. ASSUME NEW p \in Procs, Evaluate(p) PROVE Typed' /\ AllCoherent'
  <2>1. PICK found \in [Watched -> Outcomes] :
          cycle' = [cycle EXCEPT ![p].step = "evaluated", ![p].found = found, ![p].at = now]
    BY <1>5 DEF Evaluate
  <2> DEFINE c == [cycle[p] EXCEPT !.step = "evaluated", !.found = found, !.at = now]
  <2>2. /\ c \in CycleTypes /\ c.step = "evaluated" /\ c.found = found /\ c.at = now
        /\ c.store = cycle[p].store
    BY <1>0 DEF CycleTypes, Steps
  <2>3. cycle' = [cycle EXCEPT ![p] = c]
    BY <2>1 DEF Typed
  <2>4. cycle[p].step = "loaded" /\ now' = now /\ disk' = disk
    BY <1>5 DEF Evaluate
  <2> HIDE DEF c
  <2>5. \A n \in Names : Bygone(disk[n], 1, now) /\ Bygone(c.store[n], 1, now)
    BY <2>2, <2>4 DEF AllCoherent, AsOf
  <2>6. /\ c.at <= now /\ (c.step = "evaluated" => c.found \in [Watched -> Outcomes])
        /\ disk' \in Stores
        /\ \A n \in Names : Bygone(c.store[n], 1, AsOf(c))
        /\ \A n \in Names : Bygone(disk'[n], 1, now)
    BY <1>0, <2>2, <2>4, <2>5 DEF AsOf
  <2>7. QED
    BY <1>1, <2>2, <2>3, <2>4, <2>6
<1>6. ASSUME NEW p \in Procs, Deliver(p) PROVE Typed' /\ AllCoherent'
  <2>1. PICK d : cycle' = [cycle EXCEPT ![p].step = "delivered", ![p].found = <<>>,
                                        ![p].store = ToSave(cycle[p], d)]
    BY <1>6 DEF Deliver
  <2>2. cycle[p].step = "evaluated" /\ now' = now /\ disk' = disk
    BY <1>6 DEF Deliver
  <2>3. cycle[p].found \in [Watched -> Outcomes] /\ cycle[p].at <= now
    BY <2>2 DEF Typed
  <2>4. \A n \in Names : Bygone(disk[n], 1, now) /\ Bygone(cycle[p].store[n], 1, cycle[p].at)
    BY <2>2 DEF AllCoherent, AsOf
  <2>5. /\ ToSave(cycle[p], d) \in Stores
        /\ \A n \in Names : Bygone(ToSave(cycle[p], d)[n], 1, cycle[p].at)
    BY <1>0, <2>3, <2>4, SavedBygone
  <2> DEFINE c == [cycle[p] EXCEPT !.step = "delivered", !.found = <<>>,
                                   !.store = ToSave(cycle[p], d)]
  <2>6. /\ c \in CycleTypes /\ c.step = "delivered" /\ c.at = cycle[p].at
        /\ c.store = ToSave(cycle[p], d)
    BY <1>0, <2>5 DEF CycleTypes, Steps
  <2>7. cycle' = [cycle EXCEPT ![p] = c]
    BY <2>1 DEF Typed
  <2> HIDE DEF c
  <2>8. /\ c.at <= now /\ (c.step = "evaluated" => c.found \in [Watched -> Outcomes])
        /\ disk' \in Stores
        /\ \A n \in Names : Bygone(c.store[n], 1, AsOf(c))
        /\ \A n \in Names : Bygone(disk'[n], 1, now)
    BY <1>0, <2>2, <2>3, <2>4, <2>5, <2>6 DEF AsOf
  <2>9. QED
    BY <1>1, <2>2, <2>6, <2>7, <2>8
<1>7. ASSUME NEW p \in Procs, Save(p) PROVE Typed' /\ AllCoherent'
  <2>1. /\ cycle[p].step = "delivered" /\ disk' = cycle[p].store /\ now' = now
        /\ cycle' = [cycle EXCEPT ![p] = NoCycle]
    BY <1>7 DEF Save
  <2>2. cycle[p].store \in Stores /\ cycle[p].at \in Nat /\ cycle[p].at <= now
    BY <1>0 DEF CycleTypes, Typed
  <2>3. ASSUME NEW n \in Names PROVE Bygone(cycle[p].store[n], 1, now)
    <3>1. cycle[p].store[n] \in TargetStates /\ Bygone(cycle[p].store[n], 1, cycle[p].at)
      BY <2>1, <2>2 DEF Stores, AllCoherent, AsOf
    <3>2. QED
      BY <1>0, <2>2, <3>1, BygoneLater
  <2>4. \A n \in Names : Bygone(EmptyStore[n], 1, now)
    BY <1>0, EmptyBygone
  <2>5. /\ NoCycle.at <= now /\ disk' \in Stores
        /\ (NoCycle.step = "evaluated" => NoCycle.found \in [Watched -> Outcomes])
        /\ \A n \in Names : Bygone(NoCycle.store[n], 1, AsOf(NoCycle))
        /\ \A n \in Names : Bygone(disk'[n], 1, now)
    BY <1>0, <1>2, <2>1, <2>2, <2>3, <2>4 DEF AsOf
  <2>6. QED
    BY <1>1, <1>2, <2>1, <2>5
<1>8. ASSUME NEW p \in Procs, Abandon(p) PROVE Typed' /\ AllCoherent'
  <2>1. cycle' = [cycle EXCEPT ![p] = NoCycle] /\ now' = now /\ disk' = disk
    BY <1>8 DEF Abandon
  <2>2. \A n \in Names : Bygone(EmptyStore[n], 1, now) /\ Bygone(disk[n], 1, now)
    BY <1>0, EmptyBygone DEF AllCoherent
  <2>3. /\ NoCycle.at <= now /\ disk' \in Stores
        /\ (NoCycle.step = "evaluated" => NoCycle.found \in [Watched -> Outcomes])
        /\ \A n \in Names : Bygone(NoCycle.store[n], 1, AsOf(NoCycle))
        /\ \A n \in Names : Bygone(disk'[n], 1, now)
    BY <1>0, <1>2, <2>1, <2>2 DEF AsOf
  <2>4. QED
    BY <1>1, <1>2, <2>1, <2>3
<1>9. CASE UNCHANGED vars
  BY <1>9 DEF vars, Typed, AllCoherent, AsOf
<1>10. QED
  BY <1>3, <1>4, <1>5, <1>6, <1>7, <1>8, <1>9 DEF Next

(* Before the first cycle. *)
LEMMA InitCoherent == Init => Typed /\ AllCoherent
<1> SUFFICES ASSUME Init PROVE Typed /\ AllCoherent
  OBVIOUS
<1>1. NoCycle \in CycleTypes /\ NoCycle.at = 0 /\ NoCycle.step = "idle"
      /\ NoCycle.store = EmptyStore
  BY EmptyStoreType DEF NoCycle, CycleTypes, Steps
<1>2. \A n \in Names : EmptyStore[n] = EmptyState /\ Bygone(EmptyState, 1, 0)
  BY EmptyBygone DEF EmptyStore
<1>3. QED
  BY <1>1, <1>2, EmptyStoreType DEF Init, Typed, AllCoherent, AsOf

(* The invariant holds in every reachable state. *)
LEMMA AlwaysCoherent == Spec => [](Typed /\ AllCoherent)
<1>1. Typed /\ AllCoherent /\ [Next]_vars => Typed' /\ AllCoherent'
  BY NextCoherent
<1>2. QED
  BY <1>1, InitCoherent, PTL DEF Spec

(* However many processes load, evaluate, send, save and die in whatever    *)
(* order, every entry of the state file is coherent.                        *)
THEOREM SharedFileCoherent == Spec => []FileCoherent
<1>1. AllCoherent => FileCoherent
  BY DEF AllCoherent, FileCoherent, Bygone
<1>2. QED
  BY <1>1, AlwaysCoherent, PTL

-----------------------------------------------------------------------------
(* Nothing recorded is more recent than the silence of a reader: a problem  *)
(* the reader does not know of has, in no store, a later time.              *)
NotLater(state, k, t) == k \in state.active => state.notified[k] <= t

SilenceCovers ==
  /\ silent \in [Observed -> [Names -> [AlertKinds -> Nat \cup {None}]]]
  /\ \A r \in Observed, n \in Names, k \in AlertKinds :
       silent[r][n][k] # None =>
         /\ silent[r][n][k] <= now
         /\ NotLater(disk[n], k, silent[r][n][k])
         /\ \A p \in Procs :
              /\ NotLater(cycle[p].store[n], k, silent[r][n][k])
              /\ cycle[p].step = "delivered" =>
                   cycle[p].at - silent[r][n][k] < RenotifyAfter

(* A detected problem that is not sent was sent less than renotify_after    *)
(* ago, and its time stays as it was.                                       *)
LEMMA QuietWhenRecent ==
  ASSUME RenotifyAfter \in Nat,
         NEW c \in Cycles, c.threshold = 1, Coherent(c.previous, 1), NEW k \in AlertKinds,
         IF c.outcome.reachable THEN k \in Problems(c)
                                ELSE k \in {Unreachable} \ c.target.expect,
         Problem(c.target.name, k) \notin EventsOf(c)
  PROVE  /\ k \in c.previous.active
         /\ c.now - c.previous.notified[k] < RenotifyAfter
         /\ StateOf(c).notified[k] = c.previous.notified[k]
<1>1. /\ c.previous \in TargetStates /\ c.now \in Nat
      /\ c.previous.pending[k] \in Nat
      /\ c.previous.notified[k] \in Nat \cup {None}
  BY DEF Cycles, TargetStates
<1>2. Confirmed(c, k)
  BY <1>1 DEF Confirmed, Count
<1>3. RenotifyAfter # None
  BY ModelsAssumption
<1>4. ASSUME ~Due(c, k)
      PROVE  /\ k \in c.previous.active
             /\ c.now - c.previous.notified[k] < RenotifyAfter
             /\ LastNotified(c, k) = c.previous.notified[k]
  <2>1. k \in c.previous.active /\ c.previous.notified[k] # None
    BY <1>4 DEF Due, Coherent
  <2>2. c.previous.notified[k] \in Nat
    BY <1>1, <2>1
  <2>3. ~(c.now - c.previous.notified[k] >= RenotifyAfter)
    BY <1>3, <1>4, <2>1 DEF Due
  <2>4. QED
    BY <1>1, <2>1, <2>2, <2>3 DEF LastNotified
<1>5. CASE c.outcome.reachable
  <2>1. k \in NewActive(c)
    BY <1>2, <1>5 DEF NewActive
  <2>2. k \notin Shown(c)
    BY <1>5 DEF EventsOf, ReachableEvents
  <2>3. ~Due(c, k)
    BY <2>1, <2>2 DEF Shown
  <2>4. StateOf(c).notified[k] = LastNotified(c, k)
    BY <1>5, <2>1, <2>2 DEF StateOf, ReachableState
  <2>5. QED
    BY <1>4, <2>3, <2>4
<1>6. CASE ~c.outcome.reachable
  <2>1. k = Unreachable /\ Unreachable \notin c.target.expect
    BY <1>6
  <2>2. ~AnnounceUnreachable(c)
    BY <1>6, <2>1 DEF EventsOf, UnreachableEvents
  <2>3. ~Due(c, k)
    BY <1>2, <2>1, <2>2 DEF AnnounceUnreachable
  <2>4. StateOf(c).notified[k] = LastNotified(c, k)
    BY <1>2, <1>6, <2>1, <2>2
    DEF StateOf, UnreachableState, EmptyState, NoTimes, AlertKinds
  <2>5. QED
    BY <1>4, <2>3, <2>4
<1>7. QED
  BY <1>5, <1>6

(* A reader's silence after a delivery: it has just ended, or begun, or been*)
(* renewed by an attempt, or the problem was sent less than renotify_after  *)
(* before this cycle's clock reading.                                       *)
LEMMA SilenceAfterDelivery ==
  ASSUME RenotifyAfter \in Nat \ {0}, Typed, AllCoherent, SilenceCovers,
         NEW p \in Procs, cycle[p].step = "evaluated", NEW heardNow, NEW delivered,
         NEW r \in Observed, NEW n \in Names, NEW k \in AlertKinds,
         NEW t \in Nat, t = Silence(cycle[p], heardNow)[r][n][k]
  PROVE  /\ t <= now
         /\ t = now \/ t = silent[r][n][k]
         /\ NotLater(ToSave(cycle[p], delivered)[n], k, t)
         /\ cycle[p].at - t < RenotifyAfter
<1> DEFINE c == cycle[p]
<1>0. t # None
  BY ModelsAssumption
<1>1. /\ c \in CycleTypes /\ c.found \in [Watched -> Outcomes]
      /\ c.at \in Nat /\ now \in Nat /\ c.at <= now
      /\ c.store[n] \in TargetStates
  BY DEF Typed, CycleTypes, Stores
<1>2. \A m \in Names : Bygone(c.store[m], 1, c.at)
  BY DEF AllCoherent, AsOf
<1> HIDE DEF c
<1>3. k \in Detected(c, n)
      /\ (t = now \/ (t = silent[r][n][k] /\ Problem(n, k) \notin Batch(c)))
  BY <1>0 DEF Silence, c
<1>4. CASE t = now
  <2>1. /\ Bygone(ToSave(c, delivered)[n], 1, c.at)
        /\ ToSave(c, delivered)[n] \in TargetStates
    BY <1>1, <1>2, SavedBygone DEF Stores
  <2>2. ASSUME k \in ToSave(c, delivered)[n].active
        PROVE  ToSave(c, delivered)[n].notified[k] <= now
    <3> DEFINE saved == ToSave(c, delivered)[n]
    <3>1. /\ saved.seen # None /\ saved.notified[k] <= saved.seen /\ saved.seen <= c.at
          /\ saved.notified[k] # None
      BY <2>1, <2>2 DEF Bygone, Coherent
    <3>2. saved.seen \in Nat /\ saved.notified[k] \in Nat
      BY <2>1, <3>1 DEF TargetStates
    <3>3. QED
      BY <1>1, <3>1, <3>2
  <2>3. c.at - t < RenotifyAfter
    BY <1>1, <1>4
  <2>4. QED
    BY <1>1, <1>4, <2>2, <2>3 DEF NotLater, c
<1>5. CASE t = silent[r][n][k] /\ Problem(n, k) \notin Batch(c)
  <2>1. t <= now /\ NotLater(c.store[n], k, t)
    BY <1>0, <1>5 DEF SilenceCovers, c
  <2>2. PICK w \in Watched :
          /\ w.name = n
          /\ IF c.found[w].reachable THEN k \in Problems(Evaluation(c, w))
                                     ELSE k \in {Unreachable} \ w.expect
    BY <1>3 DEF Detected
  <2> DEFINE e == Evaluation(c, w)
  <2>3. /\ e \in Cycles /\ e.threshold = 1 /\ e.target = w /\ e.outcome = c.found[w]
        /\ e.previous = c.store[n] /\ e.now = c.at
    BY <1>1, <2>2, EvaluationType DEF Evaluation
  <2>4. Problem(e.target.name, k) \notin EventsOf(e)
    BY <1>5, <2>2, <2>3 DEF Batch
  <2>5. Coherent(e.previous, 1)
    BY <1>2, <2>3 DEF Bygone
  <2>6. /\ k \in c.store[n].active
        /\ c.at - c.store[n].notified[k] < RenotifyAfter
        /\ StateOf(e).notified[k] = c.store[n].notified[k]
    <3>1. IF e.outcome.reachable THEN k \in Problems(e)
                                 ELSE k \in {Unreachable} \ e.target.expect
      BY <2>2, <2>3
    <3>2. RenotifyAfter \in Nat
      OBVIOUS
    <3> HIDE DEF e
    <3>3. /\ k \in e.previous.active
          /\ e.now - e.previous.notified[k] < RenotifyAfter
          /\ StateOf(e).notified[k] = e.previous.notified[k]
      BY <2>3, <2>4, <2>5, <3>1, <3>2, QuietWhenRecent
    <3>4. QED
      BY <2>3, <3>3
  <2>7. c.store[n].notified[k] \in Nat /\ c.store[n].notified[k] <= t
    <3>1. c.store[n].notified[k] # None /\ c.store[n].notified[k] \in Nat \cup {None}
      BY <1>1, <1>2, <2>6 DEF Bygone, Coherent, TargetStates
    <3>2. QED
      BY <2>1, <2>6, <3>1 DEF NotLater
  <2>8. c.at - t < RenotifyAfter
    BY <1>1, <2>1, <2>6, <2>7
  <2>9. \A u \in Watched : u.name = n => u = w
    BY <2>2, SharedStateAssumption
  <2>10. StateOf(e) \in TargetStates
    BY <2>3, StateOfType
  <2>11. /\ Seen(c.store[n], c.at).notified = c.store[n].notified
         /\ Seen(StateOf(e), c.at).notified = StateOf(e).notified
    BY <1>1, <2>10 DEF Seen, TargetStates
  <2>12. NotLater(ToSave(c, delivered)[n], k, t)
    <3>1. CASE ToSave(c, delivered)[n] = EmptyState
      BY <3>1 DEF NotLater, EmptyState
    <3>2. CASE ToSave(c, delivered)[n].notified[k] = c.store[n].notified[k]
      BY <2>7, <3>2 DEF NotLater
    <3>3. QED
      BY <2>6, <2>9, <2>11, <3>1, <3>2, SavedEntry
  <2>13. QED
    BY <1>5, <2>1, <2>8, <2>12 DEF c
<1>6. QED
  BY <1>3, <1>4, <1>5

(* A coherent entry that is not from the future holds no later time. *)
LEMMA BygoneNotLater ==
  ASSUME NEW state \in TargetStates, NEW t \in Nat, NEW u \in Nat, t <= u,
         Bygone(state, 1, t), NEW k \in AlertKinds
  PROVE  NotLater(state, k, u)
<1> SUFFICES ASSUME k \in state.active PROVE state.notified[k] <= u
  BY DEF NotLater
<1>1. /\ state.seen # None /\ state.notified[k] <= state.seen /\ state.seen <= t
      /\ state.notified[k] # None
  BY DEF Bygone, Coherent
<1>2. state.seen \in Nat /\ state.notified[k] \in Nat
  BY <1>1 DEF TargetStates
<1>3. QED
  BY <1>1, <1>2

(* Steps that only pass stores on leave every silence accounted for. *)
LEMMA PassingOn ==
  ASSUME Typed, SilenceCovers, silent' = silent, now' \in Nat, now <= now',
         \A n \in Names : \/ disk'[n] = disk[n]
                          \/ \E p \in Procs : disk'[n] = cycle[p].store[n],
         \A p \in Procs, n \in Names :
            cycle'[p].store[n] \in {EmptyState, disk[n], cycle[p].store[n]},
         \A p \in Procs : cycle'[p].step = "delivered" =>
            cycle[p].step = "delivered" /\ cycle'[p].at = cycle[p].at
  PROVE  SilenceCovers'
<1>1. ASSUME NEW r \in Observed, NEW n \in Names, NEW k \in AlertKinds,
             silent[r][n][k] # None
      PROVE  /\ silent[r][n][k] <= now'
             /\ NotLater(disk'[n], k, silent[r][n][k])
             /\ \A p \in Procs :
                  /\ NotLater(cycle'[p].store[n], k, silent[r][n][k])
                  /\ cycle'[p].step = "delivered" =>
                       cycle'[p].at - silent[r][n][k] < RenotifyAfter
  <2>1. silent[r][n][k] \in Nat /\ now \in Nat
    BY <1>1 DEF SilenceCovers, Typed
  <2>2. silent[r][n][k] <= now'
    BY <1>1, <2>1 DEF SilenceCovers
  <2>3. NotLater(EmptyState, k, silent[r][n][k])
    BY DEF NotLater, EmptyState
  <2>4. /\ NotLater(disk[n], k, silent[r][n][k])
        /\ \A p \in Procs : NotLater(cycle[p].store[n], k, silent[r][n][k])
    BY <1>1 DEF SilenceCovers
  <2>5. NotLater(disk'[n], k, silent[r][n][k])
    BY <2>4
  <2>6. ASSUME NEW p \in Procs
        PROVE  /\ NotLater(cycle'[p].store[n], k, silent[r][n][k])
               /\ cycle'[p].step = "delivered" =>
                    cycle'[p].at - silent[r][n][k] < RenotifyAfter
    <3>1. cycle'[p].store[n] \in {EmptyState, disk[n], cycle[p].store[n]}
      OBVIOUS
    <3>2. NotLater(cycle'[p].store[n], k, silent[r][n][k])
      BY <2>3, <2>4, <3>1
    <3>3. cycle'[p].step = "delivered" => cycle'[p].at - silent[r][n][k] < RenotifyAfter
      BY <1>1 DEF SilenceCovers
    <3>4. QED
      BY <3>2, <3>3
  <2>7. QED
    BY <2>2, <2>5, <2>6
<1>2. QED
  BY <1>1 DEF SilenceCovers

(* A delivery moves the silences of the readers, and all stores stay behind *)
(* them: a silence that begins or is renewed is as late as the clock.       *)
LEMMA DeliverSilence ==
  ASSUME RenotifyAfter \in Nat \ {0}, Typed, AllCoherent, SilenceCovers,
         NEW p \in Procs, Deliver(p)
  PROVE  SilenceCovers'
<1>1. /\ cycle[p].step = "evaluated" /\ now' = now /\ disk' = disk
      /\ silent' = Silence(cycle[p], heard')
  BY DEF Deliver
<1>2. PICK d : cycle' = [cycle EXCEPT ![p].step = "delivered", ![p].found = <<>>,
                                      ![p].store = ToSave(cycle[p], d)]
  BY DEF Deliver
<1>3. /\ now \in Nat /\ disk \in Stores
      /\ \A q \in Procs : cycle[q] \in CycleTypes /\ cycle[q].at \in Nat /\ cycle[q].at <= now
  BY DEF Typed, CycleTypes
<1>4. /\ cycle'[p].store = ToSave(cycle[p], d) /\ cycle'[p].at = cycle[p].at
      /\ \A q \in Procs \ {p} : cycle'[q] = cycle[q]
  BY <1>2, <1>3 DEF Typed, CycleTypes
<1>5. ASSUME NEW r \in Observed, NEW n \in Names, NEW k \in AlertKinds,
             silent'[r][n][k] # None
      PROVE  /\ silent'[r][n][k] \in Nat
             /\ silent'[r][n][k] <= now
             /\ NotLater(disk[n], k, silent'[r][n][k])
             /\ \A q \in Procs :
                  /\ NotLater(cycle'[q].store[n], k, silent'[r][n][k])
                  /\ cycle'[q].step = "delivered" =>
                       cycle'[q].at - silent'[r][n][k] < RenotifyAfter
  <2> DEFINE t == silent'[r][n][k]
  <2>1. t = Silence(cycle[p], heard')[r][n][k] /\ t # None
    BY <1>1, <1>5
  <2> HIDE DEF t
  <2>2. /\ t \in Nat /\ t <= now
        /\ t = now \/ t = silent[r][n][k]
        /\ NotLater(ToSave(cycle[p], d)[n], k, t)
        /\ cycle[p].at - t < RenotifyAfter
    <3>1. t \in Nat
      BY <1>3, <2>1 DEF Silence, SilenceCovers
    <3>2. QED
      BY <1>1, <2>1, <3>1, SilenceAfterDelivery
  <2>3. NotLater(disk[n], k, t)
    <3>1. CASE t = now
      BY <1>3, <3>1, BygoneNotLater DEF AllCoherent, Stores
    <3>2. CASE t = silent[r][n][k]
      BY <2>1, <3>2 DEF SilenceCovers
    <3>3. QED
      BY <2>2, <3>1, <3>2
  <2>4. ASSUME NEW q \in Procs \ {p}
        PROVE  /\ NotLater(cycle[q].store[n], k, t)
               /\ cycle[q].step = "delivered" => cycle[q].at - t < RenotifyAfter
    <3>1. CASE t = now
      <4>1. /\ cycle[q].store[n] \in TargetStates /\ AsOf(cycle[q]) \in Nat
            /\ AsOf(cycle[q]) <= now
        BY <1>3 DEF CycleTypes, Stores, AsOf
      <4>2. Bygone(cycle[q].store[n], 1, AsOf(cycle[q]))
        BY DEF AllCoherent
      <4>3. NotLater(cycle[q].store[n], k, now)
        BY <1>3, <4>1, <4>2, BygoneNotLater
      <4>4. cycle[q].at - now < RenotifyAfter
        BY <1>3
      <4>5. QED
        BY <3>1, <4>3, <4>4
    <3>2. CASE t = silent[r][n][k]
      BY <2>1, <3>2 DEF SilenceCovers
    <3>3. QED
      BY <2>2, <3>1, <3>2
  <2>5. QED
    BY <1>4, <2>2, <2>3, <2>4 DEF t
<1>6. silent' \in [Observed -> [Names -> [AlertKinds -> Nat \cup {None}]]]
  BY <1>1, <1>3, <1>5 DEF Silence, SilenceCovers
<1>7. QED
  BY <1>1, <1>5, <1>6 DEF SilenceCovers

(* Every step of every process leaves every silence accounted for. *)
LEMMA NextSilence ==
  ASSUME RenotifyAfter \in Nat \ {0}, Typed, AllCoherent, SilenceCovers, [Next]_vars
  PROVE  SilenceCovers'
<1>1. now \in Nat /\ (\A p \in Procs : cycle[p] \in CycleTypes)
  BY DEF Typed
<1>2. CASE Tick \/ UNCHANGED vars
  <2>1. /\ cycle' = cycle /\ disk' = disk /\ silent' = silent
        /\ now' \in Nat /\ now <= now'
    BY <1>1, <1>2 DEF Tick, vars
  <2>2. QED
    BY <2>1, PassingOn
<1>3. ASSUME NEW p \in Procs, Load(p) \/ Evaluate(p) \/ Save(p) \/ Abandon(p)
      PROVE  SilenceCovers'
  <2>1. now' = now /\ silent' = silent
    BY <1>3 DEF Load, Evaluate, Save, Abandon
  <2>2. \A n \in Names : \/ disk'[n] = disk[n]
                         \/ \E q \in Procs : disk'[n] = cycle[q].store[n]
    BY <1>3 DEF Load, Evaluate, Save, Abandon
  <2>3. \A n \in Names : NoCycle.store[n] = EmptyState
    BY DEF NoCycle, EmptyStore
  <2>4. ASSUME NEW q \in Procs
        PROVE  /\ \A n \in Names :
                    cycle'[q].store[n] \in {EmptyState, disk[n], cycle[q].store[n]}
               /\ cycle'[q].step = "delivered" =>
                    cycle[q].step = "delivered" /\ cycle'[q].at = cycle[q].at
    <3>1. CASE q # p
      BY <1>3, <3>1 DEF Load, Evaluate, Save, Abandon, Typed
    <3>2. CASE q = p /\ Load(p)
      <4>1. /\ cycle'[q].store = disk /\ cycle'[q].step = "loaded"
        BY <3>2 DEF Load, NoCycle, Typed
      <4>2. QED
        BY <4>1
    <3>3. CASE q = p /\ Evaluate(p)
      <4>1. /\ cycle'[q].store = cycle[q].store /\ cycle'[q].step = "evaluated"
        BY <1>1, <3>3 DEF Evaluate, CycleTypes, Typed
      <4>2. QED
        BY <4>1
    <3>4. CASE q = p /\ (Save(p) \/ Abandon(p))
      <4>1. cycle'[q] = NoCycle /\ NoCycle.step = "idle"
        BY <3>4 DEF Save, Abandon, NoCycle, Typed
      <4>2. QED
        BY <2>3, <4>1
    <3>5. QED
      BY <1>3, <3>1, <3>2, <3>3, <3>4
  <2>5. QED
    BY <1>1, <2>1, <2>2, <2>4, PassingOn
<1>4. QED
  BY <1>2, <1>3, DeliverSilence DEF Next

(* With renotify_after set to a positive interval, no problem that every    *)
(* evaluation detects stays unsent for that long, however many processes    *)
(* undo each other's saves and whatever deliveries are lost or refused.     *)
THEOREM SilenceIsBounded ==
  ASSUME RenotifyAfter \in Nat \ {0}
  PROVE  Spec => []SilenceBounded
<1>1. Init => SilenceCovers
  BY ModelsAssumption DEF Init, SilenceCovers, NoTimes
<1>2. Typed /\ AllCoherent /\ SilenceCovers /\ [Next]_vars => SilenceCovers'
  BY NextSilence
<1>3. SilenceCovers => SilenceBounded
  BY DEF SilenceCovers, SilenceBounded, Carried
<1>4. QED
  BY <1>1, <1>2, <1>3, AlwaysCoherent, PTL DEF Spec

-----------------------------------------------------------------------------
(* The part of TypeOK that Typed lacks: the clock stays within its bound,   *)
(* the readers believe in alerts and the silences begin at times.           *)
OutsideTyped ==
  /\ now \in 0..Horizon
  /\ heard \in [Observed -> [Names -> SUBSET AlertKinds]]
  /\ silent \in [Observed -> [Names -> [AlertKinds -> Nat \cup {None}]]]

(* Every step keeps them. *)
LEMMA NextOutside ==
  ASSUME Typed, OutsideTyped, [Next]_vars
  PROVE  OutsideTyped'
<1>1. CASE UNCHANGED vars
  BY <1>1 DEF vars, OutsideTyped
<1>2. CASE Tick
  BY <1>2, SharedStateAssumption DEF Tick, OutsideTyped
<1>3. ASSUME NEW p \in Procs, Load(p) \/ Evaluate(p) \/ Save(p) \/ Abandon(p)
      PROVE  OutsideTyped'
  <2>1. UNCHANGED <<now, heard, silent>>
    BY <1>3 DEF Load, Evaluate, Save, Abandon
  <2>2. QED
    BY <2>1 DEF OutsideTyped
<1>4. ASSUME NEW p \in Procs, Deliver(p) PROVE OutsideTyped'
  <2> DEFINE batch == Batch(cycle[p])
  <2>1. PICK how \in [Sinks -> UNION {SendsOf(s, batch) : s \in Sinks}] :
          heard' = [r \in Observed |-> [n \in Names |->
                      IF r \in how[SinkOf[r]].got
                      THEN Read(heard[r][n], n, Kept(SinkOf[r], batch))
                      ELSE heard[r][n]]]
    BY <1>4 DEF Deliver
  <2> HIDE DEF batch
  <2>2. ASSUME NEW r \in Observed, NEW n \in Names
        PROVE  Read(heard[r][n], n, Kept(SinkOf[r], batch)) \subseteq AlertKinds
    BY DEF OutsideTyped, Read, AlertKinds
  <2>3. heard' \in [Observed -> [Names -> SUBSET AlertKinds]]
    BY <2>1, <2>2 DEF OutsideTyped
  <2>4. now' = now /\ silent' = Silence(cycle[p], heard') /\ now \in Nat
    BY <1>4 DEF Deliver, Typed
  <2>5. silent' \in [Observed -> [Names -> [AlertKinds -> Nat \cup {None}]]]
    BY <2>4 DEF Silence, OutsideTyped
  <2>6. QED
    BY <2>3, <2>4, <2>5 DEF OutsideTyped
<1>5. QED
  BY <1>1, <1>2, <1>3, <1>4 DEF Next

(* Every variable has its type, and every batch consists of events.         *)
THEOREM SharedTypeCorrect == Spec => []TypeOK
<1>1. Init => OutsideTyped
  BY SharedStateAssumption DEF Init, OutsideTyped, NoTimes
<1>2. Typed /\ OutsideTyped /\ [Next]_vars => OutsideTyped'
  BY NextOutside
<1>3. ASSUME Typed, OutsideTyped PROVE TypeOK
  <2>1. ASSUME NEW p \in Procs
        PROVE  /\ cycle[p].step \in Steps
               /\ cycle[p].store \in Stores
               /\ cycle[p].at \in 0..now
               /\ cycle[p].step = "evaluated" =>
                    cycle[p].found \in [Watched -> Outcomes] /\ Batch(cycle[p]) \subseteq Events
    <3>1. /\ cycle[p] \in CycleTypes /\ cycle[p].at <= now /\ now \in Nat
          /\ cycle[p].step = "evaluated" => cycle[p].found \in [Watched -> Outcomes]
      BY <1>3 DEF Typed
    <3>2. ASSUME cycle[p].step = "evaluated", NEW t \in Watched
          PROVE  EventsOf(Evaluation(cycle[p], t)) \subseteq Events
      BY <3>1, <3>2, EvaluationType, EventsOfType
    <3>3. cycle[p].step = "evaluated" => Batch(cycle[p]) \subseteq Events
      BY <3>2 DEF Batch
    <3>4. QED
      BY <3>1, <3>3 DEF CycleTypes
  <2>2. QED
    BY <1>3, <2>1 DEF Typed, OutsideTyped, TypeOK, Steps
<1>4. QED
  BY <1>1, <1>2, <1>3, AlwaysCoherent, PTL DEF Spec
=============================================================================
