------------------------------- MODULE Engine -------------------------------
(***************************************************************************)
(* engine.py and the detectors of evaluator.py: the command and the time   *)
(* limit of one check, and what its end means.  Pure.                      *)
(***************************************************************************)
EXTENDS Certinspect

RevocationFetchBudget == 180
ProcessSlack == 30

(* The words of a document that the detectors and the headline look at. *)
Words == {"VALID", "EXPIRED", "INVALID DATES", "NOT YET VALID", "CRITICAL", "EXPIRING",
          "GOOD", "REVOKED"}

ASSUME EngineAssumption == None \notin BOOLEAN /\ None \notin Words

(* The fields of Target that bound a check, as they are declared (`verify`  *)
(* may also be None, see Config).                                           *)
Timed(t) ==
    /\ t.timeout \in Nat
    /\ t.retries \in Nat
    /\ t.connect_timeout \in Nat \cup {None}
    /\ t.read_timeout \in Nat \cup {None}
    /\ t.verify \in BOOLEAN \cup {None}

SourceOf(t) == IF t.file # None THEN "file" ELSE "host"

(* Faulty variant: the first attempt is not counted. *)
SubprocessTimeoutRetriesOnly(t) ==
    LET connect == IF t.connect_timeout = None THEN t.timeout ELSE t.connect_timeout
        read    == IF t.read_timeout = None THEN t.timeout ELSE t.read_timeout
    IN  IF t.file # None
        THEN t.timeout + ProcessSlack
        ELSE (IF Truthy(t.verify) THEN 2 ELSE 1) * t.retries * (connect + read)
             + (IF Truthy(t.verify) THEN RevocationFetchBudget ELSE 0)
             + ProcessSlack

(* subprocess_timeout: when the child is killed. *)
SubprocessTimeout(t) ==
    LET connect == IF t.connect_timeout = None THEN t.timeout ELSE t.connect_timeout
        read    == IF t.read_timeout = None THEN t.timeout ELSE t.read_timeout
    IN  IF t.file # None
        THEN t.timeout + ProcessSlack
        ELSE (IF Truthy(t.verify) THEN 2 ELSE 1) * (t.retries + 1) * (connect + read)
             + (IF Truthy(t.verify) THEN RevocationFetchBudget ELSE 0)
             + ProcessSlack

(* build_command: the options given for target t.  `verify` is always given,*)
(* one way or the other.                                                    *)
Options(t) ==
    {"timeout", "days", "critical_days", "verify"}
    \cup {k \in {"connect_timeout", "read_timeout", "profile"} : t[k] # None}
    \cup {k \in {"retries"} : t.retries # 0}
    \cup {k \in {"cafile", "capath", "cab_forum", "require_sct",
                 "require_must_staple"} : Truthy(t[k])}
    \cup {k \in {"not_after_max"} : ~Truthy(t.cab_forum) /\ t[k] # None}
    \cup {k \in {"port"} : t.file = None}
    \cup {k \in {"starttls", "require_revocation_check", "min_tls_version"} :
            t.file = None /\ Truthy(t[k])}

Command(t) ==
    [source  |-> SourceOf(t),
     options |-> [k \in Options(t) |-> IF k = "verify" THEN Truthy(t[k]) ELSE t[k]]]

-----------------------------------------------------------------------------
(* `info` when there is no document, or none that can be parsed. *)
NoInfo ==
    [status |-> None, days_to_expire |-> None, revocation_status |-> None,
     chain_trusted |-> None, hostname_match |-> None, policy_violations |-> {},
     weak |-> {}, chain_warnings |-> {}, fingerprint |-> None]

AnalysedCodes == {0, 3, 4, 5, 6, 7, 9}

(* Faulty variant: the last day counts as expired. *)
ValidityStatusLastDay(info, fallback) ==
    IF info.status = "NOT YET VALID" THEN "NOT_YET_VALID"
    ELSE IF info.days_to_expire # None /\ info.days_to_expire <= 0 THEN "EXPIRED"
    ELSE fallback

(* _validity_status: the date-based cause, when there is one. *)
ValidityStatus(info, fallback) ==
    IF info.status = "NOT YET VALID" THEN "NOT_YET_VALID"
    ELSE IF info.days_to_expire # None /\ info.days_to_expire < 0 THEN "EXPIRED"
    ELSE fallback

(* _status_from: the headline status of an exit code and its document. *)
StatusFrom(code, info) ==
    CASE code = 4 -> ValidityStatus(info, "CRITICAL")
      [] code = 6 -> IF info.revocation_status = "REVOKED" THEN "REVOKED"
                     ELSE ValidityStatus(info, "CHAIN_UNTRUSTED")
      [] code = 0 -> "VALID"
      [] code = 3 -> "EXPIRING"
      [] code = 5 -> "HOSTNAME_MISMATCH"
      [] code = 7 -> "PIN_MISMATCH"
      [] code = 9 -> "POLICY_VIOLATION"
      [] OTHER    -> "UNREACHABLE"

NoAnswer(status, code) ==
    [reachable |-> FALSE, status |-> status, exit_code |-> code, info |-> NoInfo]

(* check_target: the results of the four ways a run can end: the program is *)
(* missing, it cannot be started, it was killed at the limit, or it exited. *)
Missing     == NoAnswer("ERROR", 127)
NotStarted  == NoAnswer("ERROR", 126)
TimedOut    == NoAnswer("UNREACHABLE", 124)
Exited(code, info) ==
    IF code \in AnalysedCodes
    THEN [reachable |-> TRUE, status |-> StatusFrom(code, info),
          exit_code |-> code, info |-> info]
    ELSE NoAnswer("UNREACHABLE", code)

-----------------------------------------------------------------------------
(* detect_problems: each detector looks at its own dimension of the answer. *)
Shows(result, k) ==
    LET info == result.info
    IN  CASE k = "expired"           -> info.status \in {"EXPIRED", "INVALID DATES"}
          [] k = "not_yet_valid"     -> info.status = "NOT YET VALID"
          [] k = "critical"          -> info.status = "CRITICAL"
          [] k = "expiring"          -> info.status = "EXPIRING"
          [] k = "chain_untrusted"   -> info.chain_trusted = FALSE
          [] k = "revoked"           -> info.revocation_status = "REVOKED"
          [] k = "hostname_mismatch" -> info.hostname_match = FALSE
          [] k = "policy_violation"  -> info.policy_violations # {}
          [] k = "weak_crypto"       -> info.weak # {}
          [] k = "chain_expiring"    -> info.chain_warnings # {}

(* Faulty variants: the headline status stands for the dates; the days left *)
(* decide on `critical`.                                                    *)
DetectProblemsHeadline(result) ==
    {k \in Kinds : IF k = "expired" THEN result.status = "EXPIRED" ELSE Shows(result, k)}

DetectProblemsByDays(result) ==
    {k \in Kinds :
        \/ Shows(result, k)
        \/ /\ k = "critical"
           /\ result.info.days_to_expire # None
           /\ result.info.days_to_expire < 15}

DetectProblems(result) == {k \in Kinds : Shows(result, k)}

(* What the evaluation of a result starts from. *)
OutcomeOf(result) ==
    [reachable |-> result.reachable, problems |-> DetectProblems(result),
     fingerprint |-> result.info.fingerprint]
=============================================================================
