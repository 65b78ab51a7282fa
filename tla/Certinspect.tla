---------------------------- MODULE Certinspect -----------------------------
(***************************************************************************)
(* The program certinspect, as certminder uses it: what command line it    *)
(* takes, how long it may run, what it answers about a certificate.  It is *)
(* not part of the repository; every definition is read off the comments   *)
(* and the branches of engine.py, config.py and evaluator.py.              *)
(*                                                                         *)
(* A command is the kind of its source and its options, a function from    *)
(* option names (without dashes) to their values; `verify` stands for      *)
(* --verify or --no-verify.                                                *)
(***************************************************************************)
EXTENDS Config

(* Seconds: one OCSP, CRL or issuer download, and start-up with name        *)
(* resolution and the back-off between retries.                             *)
FetchLimit   == 60
StartUpLimit == 30

(* It exits with a usage error on any other command line. *)
Takes(cmd) ==
    LET given == DOMAIN cmd.options
    IN  /\ cmd.source = "file" => given \cap HostOnlyKeys = {}
        /\ ~cmd.options.verify =>
              given \cap {"cafile", "capath", "require_revocation_check"} = {}
        /\ ~({"cab_forum", "not_after_max"} \subseteq given)
        /\ "profile" \in given => cmd.options.profile \in ValidProfiles

(* The longest it may legitimately run.  An option not given has its        *)
(* default: the timeouts are the common one, and nothing is retried.        *)
LongestRun(cmd) ==
    LET Option(k, default) == IF k \in DOMAIN cmd.options THEN cmd.options[k] ELSE default
        connect  == Option("connect_timeout", cmd.options.timeout)
        read     == Option("read_timeout", cmd.options.timeout)
        attempts == Option("retries", 0) + 1
        verify   == cmd.options.verify
    IN  IF cmd.source = "file"
        THEN cmd.options.timeout + StartUpLimit
        ELSE (IF verify THEN 2 ELSE 1) * attempts * (connect + read)
             + (IF verify THEN 3 * FetchLimit ELSE 0)
             + StartUpLimit

-----------------------------------------------------------------------------
(* What it can find wrong: the chain and revocation only when it verifies,  *)
(* the name only of a host.                                                 *)
Findable(cmd) ==
    {P \in ProblemSets :
        /\ ~cmd.options.verify => P \cap {"chain_untrusted", "revoked"} = {}
        /\ cmd.source = "file" => "hostname_mismatch" \notin P}

(* Its exit codes for a certificate with the faults P.  When several apply, *)
(* the precedence is its own business.                                      *)
Codes(P) ==
    LET applying ==
            (IF "expiring" \in P THEN {3} ELSE {})
            \cup (IF P \cap {"critical", "expired", "not_yet_valid"} # {} THEN {4} ELSE {})
            \cup (IF "hostname_mismatch" \in P THEN {5} ELSE {})
            \cup (IF P \cap {"chain_untrusted", "revoked"} # {} THEN {6} ELSE {})
            \cup (IF "policy_violation" \in P THEN {9} ELSE {})
    IN  IF applying = {} THEN {0} ELSE applying

(* The validity words it uses and the days left that go with each: days are *)
(* rounded down, so the last day counts as 0.                               *)
Validity(P) ==
    IF "expired" \in P THEN {<<"EXPIRED", -1>>, <<"INVALID DATES", -1>>}
    ELSE IF "not_yet_valid" \in P THEN {<<"NOT YET VALID", 90>>}
    ELSE IF "critical" \in P THEN {<<"CRITICAL", 0>>, <<"CRITICAL", 7>>}
    ELSE IF "expiring" \in P THEN {<<"EXPIRING", 20>>}
    ELSE {<<"VALID", 90>>}

(* The documents it prints about that certificate. *)
Documents(cmd, P) ==
    {[status            |-> v[1],
      days_to_expire    |-> v[2],
      revocation_status |-> IF "revoked" \in P THEN "REVOKED" ELSE "GOOD",
      chain_trusted     |-> IF cmd.options.verify THEN "chain_untrusted" \notin P ELSE None,
      hostname_match    |-> IF cmd.source = "host" THEN "hostname_mismatch" \notin P ELSE None,
      policy_violations |-> P \cap {"policy_violation"},
      weak              |-> P \cap {"weak_crypto"},
      chain_warnings    |-> P \cap {"chain_expiring"},
      fingerprint       |-> f] : v \in Validity(P), f \in Fingerprints}
=============================================================================
