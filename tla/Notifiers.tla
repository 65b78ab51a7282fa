----------------------------- MODULE Notifiers ------------------------------
(***************************************************************************)
(* The filters build_notifier wraps around a sink (notifiers/__init__.py)  *)
(* and what a person reading that sink concludes from the events it gets.  *)
(***************************************************************************)
EXTENDS Models

CONSTANTS
    Sinks,          \* the configured notifiers
    MinSeverity,    \* min_severity of each sink as a rank; 0 when unset
    OnlyKinds       \* kinds of each sink; EventKinds when unset

ASSUME NotifiersAssumption ==
    /\ MinSeverity \in [Sinks -> 0..2]
    /\ OnlyKinds \in [Sinks -> SUBSET EventKinds]

(* What reaches sink s of a batch: _MinSeverityNotifier around              *)
(* _KindFilterNotifier.  Nothing kept means the sink is not called at all.  *)
Kept(s, batch) ==
    {e \in batch : Severity(e.kind) >= MinSeverity[s] /\ e.kind \in OnlyKinds[s]}

(* The alerts sink s is configured to carry. *)
Carried(s) == {k \in AlertKinds : Severity(k) >= MinSeverity[s] /\ k \in OnlyKinds[s]}

(* The alerts a reader of the sink believes to be active on target n after  *)
(* `events`, given that `view` were before: a recovery closes its alert, and*)
(* Unreachable replaces whatever was known of the certificate.              *)
Read(view, n, events) ==
    LET raised   == {e.kind : e \in {x \in events : x.target = n}} \cap AlertKinds
        resolved == {e.resolved : e \in {x \in events : x.target = n}} \ {None}
    IN  IF Unreachable \in raised
        THEN {Unreachable}
        ELSE (view \cup raised) \ resolved
=============================================================================
