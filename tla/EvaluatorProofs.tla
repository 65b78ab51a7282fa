-------------------------- MODULE EvaluatorProofs ---------------------------
(***************************************************************************)
(* One evaluation, for every configuration: its events and its state have  *)
(* their types, and a coherent state is followed by a coherent state.      *)
(***************************************************************************)
EXTENDS Evaluator, TLAPS

(* Unreachable is not the name of a certificate problem (models.py). *)
LEMMA UnreachableApart == Unreachable \notin Kinds
  BY ModelsAssumption DEF Unreachable, CriticalKinds, WarningKinds

(* A target never seen has a well-formed, coherent state. *)
LEMMA EmptyStateFacts ==
  /\ EmptyState \in TargetStates
  /\ \A t \in Nat \ {0} : Coherent(EmptyState, t)
  BY DEF EmptyState, TargetStates, NoCounts, NoTimes, Coherent, AlertKinds

(* Before the first cycle the store is one. *)
LEMMA EmptyStoreType == EmptyStore \in Stores
  BY EmptyStateFacts DEF EmptyStore, Stores

(* Stamping an entry keeps its type. *)
LEMMA SeenType ==
  ASSUME NEW state \in TargetStates, NEW t \in Nat
  PROVE  Seen(state, t) \in TargetStates
  BY DEF Seen, TargetStates

(* Pruning keeps the type of a store. *)
LEMMA PruneType ==
  ASSUME NEW store \in Stores, NEW t, NEW retention
  PROVE  Prune(store, t, retention) \in Stores
  BY EmptyStateFacts DEF Prune, Stores

(* Every event evaluate returns is well formed and about its target. *)
LEMMA EventsOfType ==
  ASSUME NEW c \in Cycles
  PROVE  /\ EventsOf(c) \subseteq Events
         /\ \A e \in EventsOf(c) : e.target = c.target.name
<1>1. c.target.name \in Names /\ c.previous.active \subseteq AlertKinds
  BY DEF Cycles, Targets, TargetStates
<1>2. NewActive(c) \subseteq AlertKinds
  BY DEF Cycles, Outcomes, ProblemSets, NewActive, Problems, AlertKinds
<1>3. Shown(c) \subseteq AlertKinds /\ Cleared(c) \subseteq AlertKinds
  BY <1>1, <1>2 DEF Shown, Cleared
<1>4. QED
  BY <1>1, <1>3 DEF EventsOf, ReachableEvents, UnreachableEvents, Problem, Rotation,
     Recovery, Events, EventKinds, AlertKinds

(* The state evaluate returns is well formed. *)
LEMMA StateOfType ==
  ASSUME NEW c \in Cycles
  PROVE  StateOf(c) \in TargetStates
<1> USE DEF Cycles
<1>0. /\ c.previous \in TargetStates /\ c.now \in Nat
      /\ c.outcome.fingerprint \in Fingerprints \cup {None}
      /\ c.outcome.problems \subseteq Kinds
  BY DEF Outcomes, ProblemSets
<1>1. \A k \in AlertKinds : Count(c, k) \in Nat /\ LastNotified(c, k) \in Nat
  BY <1>0 DEF Count, LastNotified, TargetStates
<1>2. ReachableState(c) \in TargetStates
  <2>1. NewActive(c) \subseteq AlertKinds
    BY <1>0 DEF NewActive, Problems, AlertKinds
  <2>2. ReachableState(c).fingerprint \in Fingerprints \cup {None}
    BY <1>0 DEF ReachableState, TargetStates
  <2>3. ReachableState(c).notified \in [AlertKinds -> Nat \cup {None}]
    BY <1>0, <1>1 DEF ReachableState
  <2>4. ReachableState(c).pending \in [AlertKinds -> Nat]
    BY <1>1 DEF ReachableState
  <2>5. QED
    BY <2>1, <2>2, <2>3, <2>4 DEF ReachableState, TargetStates
<1>3. UnreachableState(c) \in TargetStates
  BY <1>0, <1>1, EmptyStateFacts
  DEF UnreachableState, TargetStates, AlertKinds
<1>4. QED
  BY <1>2, <1>3 DEF StateOf

(* An entry from the past: coherent, and not stamped later than `t`. *)
Bygone(state, threshold, t) ==
  /\ Coherent(state, threshold)
  /\ state.seen # None => state.seen <= t

(* Stamping a bygone entry with a later time keeps it coherent. *)
LEMMA SeenCoherent ==
  ASSUME NEW state \in TargetStates, NEW threshold \in Nat, NEW t \in Nat,
         Bygone(state, threshold, t)
  PROVE  Bygone(Seen(state, t), threshold, t)
<1>1. \A k \in state.active : k \in AlertKinds
  BY DEF TargetStates
<1>2. \A k \in state.active : state.notified[k] \in Nat /\ state.seen \in Nat
  BY <1>1 DEF TargetStates, Bygone, Coherent
<1>3. /\ Seen(state, t).active = state.active
      /\ Seen(state, t).notified = state.notified
      /\ Seen(state, t).pending = state.pending
      /\ Seen(state, t).seen = t
  BY DEF Seen, TargetStates
<1>4. t # None
  BY ModelsAssumption
<1>5. \A k \in state.active : state.notified[k] <= t
  BY <1>2 DEF Bygone, Coherent
<1>6. QED
  BY <1>3, <1>4, <1>5 DEF Bygone, Coherent

(* One evaluation and its stamp: from a bygone entry to a bygone entry,     *)
(* whatever the check returned (evaluate and run_once lines 178-185).       *)
THEOREM EvaluationCoherent ==
  ASSUME NEW c \in Cycles, NEW threshold \in Nat \ {0},
         c.threshold <= threshold,
         Bygone(c.previous, threshold, c.now)
  PROVE  Bygone(Seen(StateOf(c), c.now), threshold, c.now)
<1> DEFINE old == c.previous
           new == Seen(StateOf(c), c.now)
<1>1. /\ old \in TargetStates /\ c.now \in Nat /\ c.threshold \in Nat
      /\ c.outcome.problems \subseteq Kinds
  BY DEF Cycles, Outcomes, ProblemSets
<1>2. c.now # None /\ None \notin Nat
  BY <1>1, ModelsAssumption
<1>3. \A k \in AlertKinds :
        /\ old.pending[k] \in Nat
        /\ old.notified[k] \in Nat \cup {None}
  BY <1>1 DEF TargetStates
<1>4. \A k \in AlertKinds :
        LastNotified(c, k) \in Nat /\ LastNotified(c, k) <= c.now
  <2> SUFFICES ASSUME NEW k \in AlertKinds
               PROVE  LastNotified(c, k) \in Nat /\ LastNotified(c, k) <= c.now
    OBVIOUS
  <2>1. CASE old.notified[k] = None
    BY <2>1, <1>1 DEF LastNotified
  <2>2. CASE old.notified[k] # None
    <3>1. k \in old.active
      BY <2>2 DEF Bygone, Coherent
    <3>2. old.seen \in Nat /\ old.notified[k] <= old.seen /\ old.seen <= c.now
      BY <3>1, <1>1 DEF Bygone, Coherent, TargetStates
    <3>3. QED
      BY <2>2, <1>1, <1>3, <3>2 DEF LastNotified
  <2>3. QED
    BY <2>1, <2>2
<1>5. CASE c.outcome.reachable
  <2>1. /\ new.active = NewActive(c)
        /\ \A k \in AlertKinds : new.notified[k] =
              IF k \in Shown(c) THEN c.now
              ELSE IF k \in NewActive(c) THEN LastNotified(c, k) ELSE None
        /\ \A k \in AlertKinds : new.pending[k] =
              IF k \in Problems(c) \ NewActive(c) THEN Count(c, k) ELSE 0
        /\ new.seen = c.now
    BY <1>5 DEF StateOf, ReachableState, Seen
  <2>2. Problems(c) \subseteq Kinds /\ NewActive(c) \subseteq Problems(c)
        /\ Shown(c) \subseteq NewActive(c)
    BY <1>1 DEF Problems, NewActive, Shown
  <2>3. Unreachable \notin new.active /\ new.pending[Unreachable] = 0
    BY <2>1, <2>2, UnreachableApart DEF AlertKinds
  <2>4. \A k \in AlertKinds : k \in new.active <=> new.notified[k] # None
    BY <2>1, <2>2, <1>2, <1>4
  <2>5. ASSUME NEW k \in AlertKinds, new.pending[k] > 0
        PROVE  k \notin new.active /\ new.pending[k] < threshold
    <3>1. k \in Problems(c) \ NewActive(c) /\ new.pending[k] = Count(c, k)
      BY <2>1, <2>5
    <3>2. ~Confirmed(c, k)
      BY <3>1 DEF NewActive
    <3>3. Count(c, k) \in Nat /\ Count(c, k) < c.threshold
      BY <3>2, <1>1, <1>3 DEF Confirmed, Count
    <3>4. QED
      BY <3>1, <3>3, <2>1, <1>1
  <2>6. \A k \in new.active : new.seen # None /\ new.notified[k] <= new.seen
    BY <2>1, <2>2, <1>1, <1>2, <1>4 DEF AlertKinds
  <2>7. QED
    BY <2>1, <2>3, <2>4, <2>5, <2>6, <1>1 DEF Bygone, Coherent
<1>6. CASE ~c.outcome.reachable /\ Confirmed(c, Unreachable)
  <2>1. /\ new.active = {Unreachable}
        /\ \A k \in AlertKinds : new.pending[k] = 0
        /\ \A k \in AlertKinds \ {Unreachable} : new.notified[k] = None
        /\ new.notified[Unreachable] =
              IF AnnounceUnreachable(c) THEN c.now ELSE LastNotified(c, Unreachable)
        /\ new.seen = c.now
    BY <1>6 DEF StateOf, UnreachableState, Seen, EmptyState, NoCounts, NoTimes, AlertKinds
  <2>2. new.notified[Unreachable] \in Nat /\ new.notified[Unreachable] <= c.now
    BY <2>1, <1>1, <1>4 DEF AlertKinds
  <2>3. \A k \in AlertKinds : k \in new.active <=> new.notified[k] # None
    BY <2>1, <2>2, <1>2
  <2>4. QED
    BY <2>1, <2>2, <2>3, <1>1, <1>2 DEF Bygone, Coherent, AlertKinds
<1>7. CASE ~c.outcome.reachable /\ ~Confirmed(c, Unreachable)
  <2>1. /\ new.active = {}
        /\ \A k \in AlertKinds \ {Unreachable} : new.pending[k] = 0
        /\ new.pending[Unreachable] = Count(c, Unreachable)
        /\ \A k \in AlertKinds : new.notified[k] = None
        /\ new.seen = c.now
    BY <1>7 DEF StateOf, UnreachableState, Seen, EmptyState, NoCounts, NoTimes, AlertKinds
  <2>2. Count(c, Unreachable) \in Nat /\ Count(c, Unreachable) < c.threshold
    BY <1>7, <1>1, <1>3 DEF Confirmed, Count, AlertKinds
  <2>3. \A k \in Kinds : new.pending[k] = 0
    BY <2>1, UnreachableApart DEF AlertKinds
  <2>4. QED
    BY <2>1, <2>2, <2>3, <1>1 DEF Bygone, Coherent, AlertKinds
<1>8. QED
  BY <1>5, <1>6, <1>7

-----------------------------------------------------------------------------
(* What one check found that is tracked: the problems nobody expects, or    *)
(* Unreachable, expected or not.                                            *)
Found(c) == IF c.outcome.reachable THEN Problems(c) ELSE {Unreachable}

(* With a threshold of 1 an evaluation makes active exactly what was found. *)
LEMMA ActiveIsFound ==
  ASSUME NEW c \in Cycles, c.threshold = 1
  PROVE  StateOf(c).active = Found(c)
<1>1. ASSUME NEW k \in AlertKinds PROVE Confirmed(c, k)
  <2>1. c.previous.pending[k] \in Nat
    BY DEF Cycles, TargetStates
  <2>2. QED
    BY <2>1 DEF Confirmed, Count
<1>2. Problems(c) \subseteq AlertKinds
  BY DEF Cycles, Outcomes, ProblemSets, Problems, AlertKinds
<1>3. NewActive(c) = Problems(c)
  BY <1>1, <1>2 DEF NewActive
<1>4. Confirmed(c, Unreachable)
  BY <1>1 DEF AlertKinds
<1>5. QED
  BY <1>3, <1>4 DEF StateOf, ReachableState, UnreachableState, EmptyState, Found

(* What is expected is neither made active nor the subject of an event, as  *)
(* long as it was not active before and Unreachable is not expected.        *)
LEMMA ExpectedIgnored ==
  ASSUME NEW c \in Cycles, NEW k \in c.target.expect,
         Unreachable \notin c.target.expect, k \notin c.previous.active
  PROVE  /\ k \notin StateOf(c).active
         /\ Problem(c.target.name, k) \notin EventsOf(c)
         /\ Recovery(c.target.name, k) \notin EventsOf(c)
<1>1. k # Unreachable /\ k # None
  BY ModelsAssumption DEF Cycles, Targets, AlertKinds
<1>2. k \notin NewActive(c) /\ k \notin Shown(c) /\ k \notin Cleared(c)
  BY DEF NewActive, Problems, Shown, Cleared
<1>3. k # Rotated /\ k # Recovered
  BY ModelsAssumption, <1>1
  DEF Cycles, Targets, AlertKinds, Rotated, Recovered, CriticalKinds, WarningKinds
<1>4. k \notin StateOf(c).active
  BY <1>1, <1>2 DEF StateOf, ReachableState, UnreachableState, EmptyState
<1>5. Problem(c.target.name, k) \notin EventsOf(c)
  BY <1>1, <1>2, <1>3
  DEF EventsOf, ReachableEvents, UnreachableEvents, Problem, Rotation, Recovery
<1>6. Recovery(c.target.name, k) \notin EventsOf(c)
  BY <1>1, <1>2, <1>3
  DEF EventsOf, ReachableEvents, UnreachableEvents, Problem, Rotation, Recovery
<1>7. QED
  BY <1>4, <1>5, <1>6

(* An alert is sent again when its interval is over: whatever is active     *)
(* after an evaluation was sent less than the interval before it.           *)
LEMMA EvaluationRenews ==
  ASSUME NEW c \in Cycles, Unreachable \notin c.target.expect, RenotifyAfter # None,
         NEW k \in StateOf(c).active
  PROVE  \/ StateOf(c).notified[k] = c.now
         \/ c.now - StateOf(c).notified[k] < RenotifyAfter
<1>1. /\ c.now \in Nat /\ RenotifyAfter \in Int
      /\ \A j \in AlertKinds : c.previous.notified[j] \in Nat \cup {None}
  BY EvaluatorAssumption DEF Cycles, TargetStates
<1>2. ASSUME NEW j \in AlertKinds, ~Due(c, j)
      PROVE  LastNotified(c, j) = c.now \/ c.now - LastNotified(c, j) < RenotifyAfter
  <2>1. CASE c.previous.notified[j] = None
    BY <2>1 DEF LastNotified
  <2>2. CASE c.previous.notified[j] # None
    BY <1>1, <1>2, <2>2 DEF LastNotified, Due
  <2>3. QED
    BY <2>1, <2>2
<1>3. CASE c.outcome.reachable
  <2>1. k \in NewActive(c)
    BY <1>3 DEF StateOf, ReachableState
  <2>2. k \in AlertKinds
    BY <2>1 DEF NewActive, Problems, Cycles, Outcomes, ProblemSets, AlertKinds
  <2>3. StateOf(c).notified[k] = IF k \in Shown(c) THEN c.now ELSE LastNotified(c, k)
    BY <1>3, <2>1, <2>2 DEF StateOf, ReachableState
  <2>4. k \notin Shown(c) => ~Due(c, k)
    BY <2>1 DEF Shown
  <2>5. QED
    BY <1>2, <2>2, <2>3, <2>4
<1>4. CASE ~c.outcome.reachable
  <2>1. Confirmed(c, Unreachable) /\ k = Unreachable /\ k \in AlertKinds
    BY <1>4 DEF StateOf, UnreachableState, EmptyState, AlertKinds
  <2>2. StateOf(c).notified[k] =
          IF AnnounceUnreachable(c) THEN c.now ELSE LastNotified(c, k)
    BY <1>4, <2>1 DEF StateOf, UnreachableState, EmptyState, NoTimes
  <2>3. ~AnnounceUnreachable(c) => ~Due(c, k)
    BY <2>1 DEF AnnounceUnreachable
  <2>4. QED
    BY <1>2, <2>1, <2>2, <2>3
<1>5. QED
  BY <1>3, <1>4

(* A fingerprint is replaced by another one only with its event.            *)
LEMMA EvaluationRotates ==
  ASSUME NEW c \in Cycles,
         None \notin {c.previous.fingerprint, StateOf(c).fingerprint},
         c.previous.fingerprint # StateOf(c).fingerprint
  PROVE  Rotation(c.target.name) \in EventsOf(c)
<1>1. CASE c.outcome.reachable
  BY <1>1 DEF StateOf, ReachableState, EventsOf, ReachableEvents, HasRotated
<1>2. CASE ~c.outcome.reachable
  BY <1>2 DEF StateOf, UnreachableState, EmptyState
<1>3. QED
  BY <1>1, <1>2

(* With a threshold of 1 an alert ends with its recovery or is replaced by  *)
(* Unreachable.                                                             *)
LEMMA EvaluationRecovers ==
  ASSUME NEW c \in Cycles, c.threshold = 1,
         NEW k \in c.previous.active, k \notin StateOf(c).active
  PROVE  \/ Recovery(c.target.name, k) \in EventsOf(c)
         \/ Unreachable \in StateOf(c).active
<1>1. CASE c.outcome.reachable
  BY <1>1 DEF StateOf, ReachableState, EventsOf, ReachableEvents, Cleared
<1>2. CASE ~c.outcome.reachable
  BY <1>2, ActiveIsFound DEF Found
<1>3. QED
  BY <1>1, <1>2

(* How often in a row, at most `threshold` times, an entry says that kind k *)
(* was detected.                                                            *)
Tally(state, k, threshold) == IF k \in state.active THEN threshold ELSE state.pending[k]

(* An evaluation counts one detection more of what was found, up to the     *)
(* threshold, and forgets the count of everything else.                     *)
LEMMA EvaluationTallies ==
  ASSUME NEW c \in Cycles, Coherent(c.previous, c.threshold), NEW k \in AlertKinds
  PROVE  LET before == Tally(c.previous, k, c.threshold)
             after  == Tally(StateOf(c), k, c.threshold)
         IN  IF k \notin Found(c) THEN after = 0
             ELSE IF before + 1 <= c.threshold THEN after = before + 1
             ELSE after = c.threshold
<1>1. /\ c.previous.pending[k] \in Nat /\ c.threshold \in Nat \ {0}
      /\ c.outcome.problems \subseteq Kinds
  BY DEF Cycles, TargetStates, Outcomes, ProblemSets
<1>2. c.previous.pending[k] = 0 \/ c.previous.pending[k] < c.threshold
  BY <1>1 DEF Coherent
<1>3. CASE c.outcome.reachable
  <2>1. /\ StateOf(c).active = NewActive(c)
        /\ StateOf(c).pending[k] =
             IF k \in Problems(c) \ NewActive(c) THEN Count(c, k) ELSE 0
    BY <1>3 DEF StateOf, ReachableState
  <2>2. Found(c) = Problems(c) /\ NewActive(c) = {j \in Problems(c) : Confirmed(c, j)}
    BY <1>3 DEF Found, NewActive
  <2>3. QED
    BY <1>1, <1>2, <2>1, <2>2 DEF Tally, Confirmed, Count
<1>4. CASE ~c.outcome.reachable
  <2>1. Found(c) = {Unreachable}
    BY <1>4 DEF Found
  <2>2. CASE Confirmed(c, Unreachable)
    <3>1. StateOf(c).active = {Unreachable} /\ StateOf(c).pending[k] = 0
      BY <1>4, <2>2 DEF StateOf, UnreachableState, EmptyState, NoCounts
    <3>2. QED
      BY <1>1, <1>2, <2>1, <2>2, <3>1 DEF Tally, Confirmed, Count
  <2>3. CASE ~Confirmed(c, Unreachable)
    <3>1. /\ StateOf(c).active = {}
          /\ StateOf(c).pending[k] = IF k = Unreachable THEN Count(c, k) ELSE 0
      BY <1>4, <2>3 DEF StateOf, UnreachableState, EmptyState, NoCounts
    <3>2. QED
      BY <1>1, <1>2, <2>1, <2>3, <3>1 DEF Tally, Confirmed, Count
  <2>4. QED
    BY <2>2, <2>3
<1>5. QED
  BY <1>3, <1>4
=============================================================================
