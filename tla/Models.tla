------------------------------- MODULE Models -------------------------------
(***************************************************************************)
(* The data certminder's components exchange (models.py): the kinds of     *)
(* problem, the check result of one target and the events sent to sinks.   *)
(*                                                                         *)
(* A name, a fingerprint and a message are opaque.  An alert key           *)
(* ("<target>|<kind>" in the code) is its kind here, because every use of  *)
(* it is inside the state, or the event, of one target.                    *)
(***************************************************************************)
EXTENDS Integers

CONSTANTS
    Names,          \* the target names that may ever be checked
    Kinds,          \* the certificate problems this instance can detect
    Fingerprints,   \* the certificate fingerprints a target may present
    None            \* Python's None

CriticalKinds == {"expired", "not_yet_valid", "critical", "chain_untrusted",
                  "revoked", "hostname_mismatch", "policy_violation"}
WarningKinds  == {"expiring", "weak_crypto", "chain_expiring"}
Unreachable   == "unreachable"
Rotated       == "fingerprint_changed"
Recovered     == "recovered"

ASSUME ModelsAssumption ==
    /\ Kinds \subseteq CriticalKinds \cup WarningKinds
    /\ None \notin Fingerprints \cup Names \cup Kinds \cup {Unreachable}
    /\ None \notin Int

(* What an active alert may be about. *)
AlertKinds == Kinds \cup {Unreachable}
EventKinds == AlertKinds \cup {Rotated, Recovered}

-----------------------------------------------------------------------------
(* A target: its name is the key of its state, and `expect` lists the kinds *)
(* that are to be accepted in silence.                                      *)
Targets == [name : Names, expect : SUBSET AlertKinds]

(* At most one of these comes from the certificate's own dates. *)
ValidityKinds == {"expired", "not_yet_valid", "critical", "expiring"}

(* The sets of problems detect_problems can return: the validity detector   *)
(* contributes at most one kind, every other dimension its own.             *)
ProblemSets ==
    {P \in SUBSET Kinds :
        \A j, k \in P \cap ValidityKinds : j = k}

(* The outcomes of one inspection, target apart.  An answer that could not  *)
(* be parsed has no fingerprint; an unreachable target has nothing.         *)
Outcomes ==
    [reachable : {TRUE}, problems : ProblemSets,
     fingerprint : Fingerprints \cup {None}]
    \cup [reachable : {FALSE}, problems : {{}}, fingerprint : {None}]

-----------------------------------------------------------------------------
(* An event names its target and kind; a recovery also names what cleared.  *)
Events == [target : Names, kind : EventKinds,
           resolved : AlertKinds \cup {None}]

Problem(n, k)  == [target |-> n, kind |-> k, resolved |-> None]
Rotation(n)    == [target |-> n, kind |-> Rotated, resolved |-> None]

(* Faulty variant: the details carry the target instead of the kind. *)
RecoveryOfTarget(n, k) == [target |-> n, kind |-> Recovered, resolved |-> n]

Recovery(n, k) == [target |-> n, kind |-> Recovered, resolved |-> k]

(* Severity.rank: info 0, warning 1, critical 2. *)
Severity(kind) ==
    IF kind \in CriticalKinds \cup {Unreachable} THEN 2
    ELSE IF kind \in WarningKinds \cup {Rotated} THEN 1
    ELSE 0
=============================================================================
