----------------------------- MODULE StateStore -----------------------------
(***************************************************************************)
(* What certminder remembers of each target between cycles (state.py).     *)
(*                                                                         *)
(* A store is a total function on Names: a name the file does not hold is  *)
(* mapped to EmptyState, which is what StateStore.get returns for it.      *)
(* `active`, `notified` and `pending` are the fields active_alerts,        *)
(* notified_at (None: no entry) and pending (0: no entry); `seen` is       *)
(* last_seen.  The field `status` is only displayed and is left out.       *)
(***************************************************************************)
EXTENDS Models

TargetStates ==
    [fingerprint : Fingerprints \cup {None},
     active      : SUBSET AlertKinds,
     notified    : [AlertKinds -> Nat \cup {None}],
     pending     : [AlertKinds -> Nat],
     seen        : Nat \cup {None}]

Stores == [Names -> TargetStates]

NoCounts == [k \in AlertKinds |-> 0]
NoTimes  == [k \in AlertKinds |-> None]

(* TargetState(): a target never seen. *)
EmptyState ==
    [fingerprint |-> None, active |-> {}, notified |-> NoTimes,
     pending |-> NoCounts, seen |-> None]

EmptyStore == [n \in Names |-> EmptyState]

Seen(state, now) == [state EXCEPT !.seen = now]

(* Faulty variant: an entry exactly as old as the retention is dropped. *)
PruneEarly(store, now, retention) ==
    [n \in Names |->
        IF store[n].seen # None /\ store[n].seen + retention > now
        THEN store[n]
        ELSE EmptyState]

(* Forget the targets not checked in the last `retention` seconds, and the  *)
(* entries that carry no time at all.                                       *)
Prune(store, now, retention) ==
    [n \in Names |->
        IF store[n].seen # None /\ store[n].seen + retention >= now
        THEN store[n]
        ELSE EmptyState]

(* The targets the most recent cycle checked: those sharing the latest time.*)
LastCycle(store) ==
    LET timed == {n \in Names : store[n].seen # None}
    IN  {n \in timed : \A m \in timed : store[m].seen <= store[n].seen}

(* What `certminder report` shows: the active problems of those targets.    *)
Report(store) == [n \in LastCycle(store) |-> store[n].active]
=============================================================================
