----------------------------- MODULE Evaluator ------------------------------
(***************************************************************************)
(* evaluator.py: from the result of one inspection and the state stored    *)
(* for its target, the events to send and the state to store.  Pure.       *)
(*                                                                         *)
(* The argument c bundles what one evaluation needs (class _Cycle):        *)
(*   c.target    the target checked        c.previous  its stored state    *)
(*   c.outcome   what the check returned   c.now       the cycle's clock   *)
(*   c.threshold detections needed before a problem counts                 *)
(* Events are sets: their order inside a batch only affects layout.        *)
(***************************************************************************)
EXTENDS StateStore

CONSTANT RenotifyAfter    \* seconds before an active alert is sent again, or None

ASSUME EvaluatorAssumption == RenotifyAfter \in Int \cup {None}

Cycles == [target : Targets, outcome : Outcomes, previous : TargetStates,
           now : Nat, threshold : Nat \ {0}]

(* _confirm: an active problem stays confirmed, a new one needs `threshold` *)
(* detections in a row.  The count is this detection included.              *)
Count(c, k) == IF k \in c.previous.active THEN 0 ELSE c.previous.pending[k] + 1

(* Faulty variant: one detection too many is asked for. *)
ConfirmedLate(c, k) == k \in c.previous.active \/ Count(c, k) > c.threshold

Confirmed(c, k) == k \in c.previous.active \/ Count(c, k) >= c.threshold

(* Faulty variant: the interval has to be exceeded. *)
DueLate(c, k) ==
    \/ k \notin c.previous.active
    \/ /\ RenotifyAfter # None
       /\ c.previous.notified[k] # None
       /\ c.now - c.previous.notified[k] > RenotifyAfter

(* _Cycle.due: send k now?  Yes when it is new or its interval elapsed. *)
Due(c, k) ==
    \/ k \notin c.previous.active
    \/ /\ RenotifyAfter # None
       /\ c.previous.notified[k] # None
       /\ c.now - c.previous.notified[k] >= RenotifyAfter

LastNotified(c, k) ==
    IF c.previous.notified[k] = None THEN c.now ELSE c.previous.notified[k]

-----------------------------------------------------------------------------
(* The target could not be assessed: only Unreachable is tracked, and what  *)
(* was known of its certificate is dropped.  Inside the flap window even    *)
(* that is silent.                                                          *)
AnnounceUnreachable(c) ==
    /\ Confirmed(c, Unreachable)
    /\ Unreachable \notin c.target.expect
    /\ Due(c, Unreachable)

UnreachableEvents(c) ==
    IF AnnounceUnreachable(c) THEN {Problem(c.target.name, Unreachable)} ELSE {}

(* Faulty variant: what was known of the certificate's alerts is kept. *)
UnreachableStateKeepsTimes(c) ==
    [c.previous EXCEPT
        !.active = {Unreachable},
        !.notified[Unreachable] = c.now]

UnreachableState(c) ==
    IF Confirmed(c, Unreachable)
    THEN [EmptyState EXCEPT
            !.fingerprint = c.previous.fingerprint,
            !.active      = {Unreachable},
            !.notified[Unreachable] =
                IF AnnounceUnreachable(c) THEN c.now ELSE LastNotified(c, Unreachable)]
    ELSE [EmptyState EXCEPT
            !.fingerprint = c.previous.fingerprint,
            !.pending[Unreachable] = Count(c, Unreachable)]

-----------------------------------------------------------------------------
(* The target answered: each problem it has, unless expected, is weighed on *)
(* its own.                                                                 *)
ProblemsAll(c) == c.outcome.problems    \* faulty variant: `expect` is ignored

Problems(c)  == c.outcome.problems \ c.target.expect
NewActive(c) == {k \in Problems(c) : Confirmed(c, k)}

(* Faulty variant: a rotation is only reported for a healthy certificate. *)
HasRotatedHealthy(c) ==
    /\ Problems(c) = {}
    /\ c.previous.fingerprint # None
    /\ c.outcome.fingerprint # None
    /\ c.outcome.fingerprint # c.previous.fingerprint

(* A rotation is reported whenever both fingerprints are known. *)
HasRotated(c) ==
    /\ c.previous.fingerprint # None
    /\ c.outcome.fingerprint # None
    /\ c.outcome.fingerprint # c.previous.fingerprint

(* Faulty variants: any problem re-shows the set; a recovery is only sent   *)
(* when nothing is left.                                                    *)
ForceFullAlways(c) == NewActive(c) # {}
ClearedAtOnce(c)   == IF NewActive(c) = {} THEN c.previous.active ELSE {}

(* A newly confirmed problem re-shows the whole current set. *)
ForceFull(c) == NewActive(c) \ c.previous.active # {}
Shown(c)     == {k \in NewActive(c) : ForceFull(c) \/ Due(c, k)}
Cleared(c)   == c.previous.active \ NewActive(c)

ReachableEvents(c) ==
    LET n == c.target.name
    IN  (IF HasRotated(c) THEN {Rotation(n)} ELSE {})
        \cup {Problem(n, k) : k \in Shown(c)}
        \cup {Recovery(n, k) : k \in Cleared(c)}

(* Faulty variant: a count survives the confirmation of its problem. *)
ReachableStateKeepsCounts(c) ==
    [fingerprint |-> IF c.outcome.fingerprint # None
                     THEN c.outcome.fingerprint ELSE c.previous.fingerprint,
     active      |-> NewActive(c),
     notified    |-> [k \in AlertKinds |->
                        IF k \in Shown(c) THEN c.now
                        ELSE IF k \in NewActive(c) THEN LastNotified(c, k)
                        ELSE None],
     pending     |-> [k \in AlertKinds |->
                        IF k \in Problems(c) THEN Count(c, k) ELSE 0],
     seen        |-> None]

ReachableState(c) ==
    [fingerprint |-> IF c.outcome.fingerprint # None
                     THEN c.outcome.fingerprint ELSE c.previous.fingerprint,
     active      |-> NewActive(c),
     notified    |-> [k \in AlertKinds |->
                        IF k \in Shown(c) THEN c.now
                        ELSE IF k \in NewActive(c) THEN LastNotified(c, k)
                        ELSE None],
     pending     |-> [k \in AlertKinds |->
                        IF k \in Problems(c) \ NewActive(c) THEN Count(c, k) ELSE 0],
     seen        |-> None]

-----------------------------------------------------------------------------
(* evaluate(): the events and the next state.  The caller stamps `seen`. *)
EventsOf(c) == IF c.outcome.reachable THEN ReachableEvents(c) ELSE UnreachableEvents(c)
StateOf(c)  == IF c.outcome.reachable THEN ReachableState(c) ELSE UnreachableState(c)

(* What must hold of every state entry whatever interleaving of cycles,     *)
(* failures and reverts produced it.                                        *)
Coherent(state, threshold) ==
    /\ Unreachable \in state.active => state.active = {Unreachable}
    /\ \A k \in AlertKinds : k \in state.active <=> state.notified[k] # None
    /\ \A k \in AlertKinds :
          state.pending[k] > 0 => k \notin state.active /\ state.pending[k] < threshold
    /\ state.pending[Unreachable] > 0 =>
          state.active = {} /\ \A k \in Kinds : state.pending[k] = 0
    /\ \A k \in state.active :
          state.seen # None /\ state.notified[k] <= state.seen
=============================================================================
