---------------------------- MODULE EngineProofs ----------------------------
(***************************************************************************)
(* What holds of the time limit of a check, for every target.              *)
(***************************************************************************)
EXTENDS Engine, TLAPS

(* An option that is given has the value of the target's field (of `verify` *)
(* whether it is true), and one that is left out stands for the default     *)
(* certinspect takes.                                                       *)
LEMMA OptionsGiven ==
  ASSUME NEW t, Timed(t)
  PROVE  LET given == Command(t).options
         IN  /\ {"timeout", "verify"} \subseteq DOMAIN given
             /\ given["verify"] = Truthy(t["verify"])
             /\ \A k \in DOMAIN given \ {"verify"} : given[k] = t[k]
             /\ "connect_timeout" \in DOMAIN given <=> t.connect_timeout # None
             /\ "read_timeout" \in DOMAIN given <=> t.read_timeout # None
             /\ "retries" \in DOMAIN given <=> t.retries # 0
<1>1. /\ "timeout" \in Options(t) /\ "verify" \in Options(t)
      /\ "connect_timeout" \in Options(t) <=> t["connect_timeout"] # None
      /\ "read_timeout" \in Options(t) <=> t["read_timeout"] # None
      /\ "retries" \in Options(t) <=> t.retries # 0
  BY DEF Options
<1>2. Command(t).options =
        [k \in Options(t) |-> IF k = "verify" THEN Truthy(t[k]) ELSE t[k]]
  BY DEF Command
<1>3. QED
  BY <1>1, <1>2

(* The limit is the longest run of certinspect with the options given. *)
LEMMA LimitIsLongestRun ==
  ASSUME NEW t, Timed(t)
  PROVE  /\ LongestRun(Command(t)) = SubprocessTimeout(t)
         /\ SubprocessTimeout(t) \in Nat
<1> DEFINE given == Command(t).options
<1>1. /\ "timeout" \in DOMAIN given /\ "verify" \in DOMAIN given
      /\ given["verify"] = Truthy(t["verify"])
      /\ \A k \in DOMAIN given \ {"verify"} : given[k] = t[k]
      /\ "connect_timeout" \in DOMAIN given <=> t.connect_timeout # None
      /\ "read_timeout" \in DOMAIN given <=> t.read_timeout # None
      /\ "retries" \in DOMAIN given <=> t.retries # 0
  BY OptionsGiven
<1>2. Command(t).source = SourceOf(t)
  BY DEF Command
<1> HIDE DEF given
<1> DEFINE Option(k, default) == IF k \in DOMAIN given THEN given[k] ELSE default
           connect == IF t.connect_timeout = None THEN t.timeout ELSE t.connect_timeout
           read    == IF t.read_timeout = None THEN t.timeout ELSE t.read_timeout
<1>3. given["timeout"] = t.timeout /\ given["verify"] = Truthy(t.verify)
  BY <1>1
<1>4. /\ Option("connect_timeout", given["timeout"]) = connect
      /\ Option("read_timeout", given["timeout"]) = read
      /\ Option("retries", 0) = t.retries
  BY <1>1, <1>3
<1>5. connect \in Nat /\ read \in Nat
  BY DEF Timed
<1>6. (IF Truthy(t.verify) THEN 2 ELSE 1) * (t.retries + 1) * (connect + read) \in Nat
  <2>1. /\ 1 * (t.retries + 1) * (connect + read) \in Nat
        /\ 2 * (t.retries + 1) * (connect + read) \in Nat
    <3>1. t.retries + 1 \in Nat
      BY DEF Timed
    <3> HIDE DEF connect, read
    <3>2. \A a, b, c \in Nat : 1 * a * (b + c) \in Nat /\ 2 * a * (b + c) \in Nat
      OBVIOUS
    <3>3. QED
      BY <1>5, <3>1, <3>2
  <2>2. QED
    BY <2>1
<1>7. CASE t.file # None
  BY <1>2, <1>3, <1>7 DEF LongestRun, SubprocessTimeout, SourceOf, StartUpLimit,
     ProcessSlack, Timed, given
<1>8. CASE t.file = None
  <2>1. SubprocessTimeout(t) =
          (IF Truthy(t.verify) THEN 2 ELSE 1) * (t.retries + 1) * (connect + read)
          + (IF Truthy(t.verify) THEN 180 ELSE 0) + 30
    BY <1>8 DEF SubprocessTimeout, RevocationFetchBudget, ProcessSlack
  <2>2. LongestRun(Command(t)) =
          (IF Truthy(t.verify) THEN 2 ELSE 1) * (t.retries + 1) * (connect + read)
          + (IF Truthy(t.verify) THEN 3 * 60 ELSE 0) + 30
    BY <1>2, <1>3, <1>4, <1>8 DEF LongestRun, SourceOf, FetchLimit, StartUpLimit, given
  <2>3. QED
    BY <1>6, <2>1, <2>2
<1>9. QED
  BY <1>7, <1>8

(* No child is killed before the longest run of certinspect with the options*)
(* of its target is over (subprocess_timeout), whatever the target sets.    *)
THEOREM LimitCoversLongestRun ==
  ASSUME NEW t, Timed(t)
  PROVE  LongestRun(Command(t)) <= SubprocessTimeout(t)
<1>1. QED
  BY LimitIsLongestRun

-----------------------------------------------------------------------------
(* The faults that can be found are ones the detectors know, one at most of *)
(* them about the dates.                                                    *)
LEMMA FindableFaults ==
  ASSUME NEW cmd, NEW P \in Findable(cmd)
  PROVE  /\ P \subseteq Kinds /\ P \subseteq CriticalKinds \cup WarningKinds
         /\ P \in ProblemSets
         /\ \A j, k \in P \cap ValidityKinds : j = k
         /\ ~cmd.options.verify => "chain_untrusted" \notin P /\ "revoked" \notin P
         /\ cmd.source = "file" => "hostname_mismatch" \notin P
<1>1. P \in ProblemSets
  BY DEF Findable
<1>2. P \subseteq Kinds /\ \A j, k \in P \cap ValidityKinds : j = k
  BY <1>1 DEF ProblemSets
<1>3. P \subseteq CriticalKinds \cup WarningKinds
  BY <1>2, ModelsAssumption
<1>4. /\ ~cmd.options.verify => P \cap {"chain_untrusted", "revoked"} = {}
      /\ cmd.source = "file" => "hostname_mismatch" \notin P
  BY DEF Findable
<1>5. QED
  BY <1>1, <1>2, <1>3, <1>4

(* Each word a document uses for the dates names its fault. *)
LEMMA ValidityWords ==
  ASSUME NEW cmd, NEW P \in Findable(cmd), NEW v \in Validity(P)
  PROVE  /\ v[1] \in {"EXPIRED", "INVALID DATES"} <=> "expired" \in P
         /\ v[1] = "NOT YET VALID" <=> "not_yet_valid" \in P
         /\ v[1] = "CRITICAL" <=> "critical" \in P
         /\ v[1] = "EXPIRING" <=> "expiring" \in P
         /\ v[2] \in Int
         /\ v[2] < 0 <=> "expired" \in P
<1>1. \A j, k \in P \cap ValidityKinds : j = k
  BY FindableFaults
<1>2. /\ "expired" \in P => P \cap ValidityKinds = {"expired"}
      /\ "not_yet_valid" \in P => P \cap ValidityKinds = {"not_yet_valid"}
      /\ "critical" \in P => P \cap ValidityKinds = {"critical"}
      /\ "expiring" \in P => P \cap ValidityKinds = {"expiring"}
  BY <1>1 DEF ValidityKinds
<1>3. CASE "expired" \in P
  <2>1. v = <<"EXPIRED", -1>> \/ v = <<"INVALID DATES", -1>>
    BY <1>3 DEF Validity
  <2>2. v[2] \in Int /\ v[2] < 0
    <3>1. \E word : v = <<word, -1>>
      BY <2>1, Zenon
    <3>2. PICK word : v = <<word, -1>>
      BY <3>1
    <3>3. QED
      BY <3>2
  <2>3. "not_yet_valid" \notin P /\ "critical" \notin P /\ "expiring" \notin P
    BY <1>2, <1>3 DEF ValidityKinds
  <2>4. v[1] = "EXPIRED" \/ v[1] = "INVALID DATES"
    <3>1. CASE v = <<"EXPIRED", -1>>
      BY <3>1
    <3>2. CASE v = <<"INVALID DATES", -1>>
      BY <3>2
    <3>3. QED
      BY <2>1, <3>1, <3>2
  <2>5. /\ v[1] \in {"EXPIRED", "INVALID DATES"}
        /\ v[1] # "NOT YET VALID" /\ v[1] # "CRITICAL" /\ v[1] # "EXPIRING"
    BY <2>4
  <2>6. QED
    BY <1>3, <2>2, <2>3, <2>5
<1>4. CASE "not_yet_valid" \in P
  <2>1. "expired" \notin P /\ "critical" \notin P /\ "expiring" \notin P
    BY <1>2, <1>4 DEF ValidityKinds
  <2>2. v = <<"NOT YET VALID", 90>>
    BY <1>4, <2>1 DEF Validity
  <2>3. v[1] = "NOT YET VALID"
    BY <2>2
  <2>4. v[2] \in Int /\ ~(v[2] < 0)
    <3>1. v[2] = 90
      BY <2>2, Zenon
    <3>2. QED
      BY <3>1
  <2>5. v[1] \notin {"EXPIRED", "INVALID DATES"} /\ v[1] # "CRITICAL" /\ v[1] # "EXPIRING"
    BY <2>3
  <2>6. QED
    BY <1>4, <2>1, <2>3, <2>4, <2>5
<1>5. CASE "critical" \in P
  <2>1. "expired" \notin P /\ "not_yet_valid" \notin P /\ "expiring" \notin P
    BY <1>2, <1>5 DEF ValidityKinds
  <2>2. v = <<"CRITICAL", 0>> \/ v = <<"CRITICAL", 7>>
    BY <1>5, <2>1 DEF Validity
  <2>3. v[1] = "CRITICAL" /\ v[2] \in {0, 7}
    BY <2>2
  <2>4. QED
    BY <1>5, <2>1, <2>3
<1>6. CASE "expiring" \in P
  <2>1. "expired" \notin P /\ "not_yet_valid" \notin P /\ "critical" \notin P
    BY <1>2, <1>6 DEF ValidityKinds
  <2>2. v = <<"EXPIRING", 20>>
    BY <1>6, <2>1 DEF Validity
  <2>3. v[1] = "EXPIRING" /\ v[2] = 20
    BY <2>2
  <2>4. QED
    BY <1>6, <2>1, <2>3
<1>7. CASE P \cap ValidityKinds = {}
  <2>1. /\ "expired" \notin P /\ "not_yet_valid" \notin P
        /\ "critical" \notin P /\ "expiring" \notin P
    BY <1>7 DEF ValidityKinds
  <2>2. v = <<"VALID", 90>>
    BY <2>1 DEF Validity
  <2>3. v[1] = "VALID" /\ v[2] = 90
    BY <2>2
  <2>4. QED
    BY <2>1, <2>3
<1>8. QED
  BY <1>3, <1>4, <1>5, <1>6, <1>7 DEF ValidityKinds

(* What doc says of the faults P, dimension by dimension. *)
Says(doc, P) ==
    /\ \E v \in Validity(P) : doc.status = v[1] /\ doc.days_to_expire = v[2]
    /\ doc.revocation_status = IF "revoked" \in P THEN "REVOKED" ELSE "GOOD"
    /\ doc.chain_trusted = FALSE <=> "chain_untrusted" \in P
    /\ doc.hostname_match = FALSE <=> "hostname_mismatch" \in P
    /\ doc.policy_violations # {} <=> "policy_violation" \in P
    /\ doc.weak # {} <=> "weak_crypto" \in P
    /\ doc.chain_warnings # {} <=> "chain_expiring" \in P
    /\ doc.fingerprint \in Fingerprints

(* Every document about P says so. *)
LEMMA DocumentSays ==
  ASSUME NEW cmd, cmd.options.verify \in BOOLEAN, cmd.source \in {"host", "file"},
         NEW P \in Findable(cmd), NEW doc \in Documents(cmd, P)
  PROVE  Says(doc, P)
<1> DEFINE Doc(v, f) ==
      [status            |-> v[1],
       days_to_expire    |-> v[2],
       revocation_status |-> IF "revoked" \in P THEN "REVOKED" ELSE "GOOD",
       chain_trusted     |-> IF cmd.options.verify THEN "chain_untrusted" \notin P ELSE None,
       hostname_match    |-> IF cmd.source = "host" THEN "hostname_mismatch" \notin P ELSE None,
       policy_violations |-> P \cap {"policy_violation"},
       weak              |-> P \cap {"weak_crypto"},
       chain_warnings    |-> P \cap {"chain_expiring"},
       fingerprint       |-> f]
<1>1. \E v \in Validity(P), f \in Fingerprints : doc = Doc(v, f)
  BY DEF Documents
<1>2. PICK v \in Validity(P), f \in Fingerprints : doc = Doc(v, f)
  BY <1>1
<1>3. None # FALSE
  BY EngineAssumption
<1>4. /\ ~cmd.options.verify => "chain_untrusted" \notin P
      /\ cmd.source = "file" => "hostname_mismatch" \notin P
  BY FindableFaults
<1>5. doc.chain_trusted = FALSE <=> "chain_untrusted" \in P
  <2>1. doc.chain_trusted = IF cmd.options.verify THEN "chain_untrusted" \notin P ELSE None
    BY <1>2
  <2>2. CASE cmd.options.verify
    BY <2>1, <2>2
  <2>3. CASE ~cmd.options.verify
    BY <1>3, <1>4, <2>1, <2>3
  <2>4. QED
    BY <2>2, <2>3
<1>6. doc.hostname_match = FALSE <=> "hostname_mismatch" \in P
  <2>1. doc.hostname_match = IF cmd.source = "host" THEN "hostname_mismatch" \notin P ELSE None
    BY <1>2
  <2>2. CASE cmd.source = "host"
    BY <2>1, <2>2
  <2>3. CASE cmd.source = "file"
    BY <1>3, <1>4, <2>1, <2>3
  <2>4. QED
    BY <2>2, <2>3
<1>7. QED
  BY <1>2, <1>5, <1>6 DEF Says

(* Every exit code of a run that found P is one certminder analyses, and 0  *)
(* stands for the faults without a code of their own.                       *)
LEMMA CodesOf ==
  ASSUME NEW P, NEW code \in Codes(P)
  PROVE  /\ code \in {0, 3, 4, 5, 6, 9}
         /\ code = 0 =>
              P \cap (CriticalKinds \cup {"expiring"}) = {}
         /\ code = 3 => "expiring" \in P
         /\ code = 4 => P \cap {"critical", "expired", "not_yet_valid"} # {}
         /\ code = 5 => "hostname_mismatch" \in P
         /\ code = 6 => P \cap {"chain_untrusted", "revoked"} # {}
         /\ code = 9 => "policy_violation" \in P
  BY DEF Codes, CriticalKinds

(* Each detector looks at its own part of the document. *)
LEMMA ShowsBy ==
  ASSUME NEW result
  PROVE  /\ Shows(result, "expired") <=> result.info.status \in {"EXPIRED", "INVALID DATES"}
         /\ Shows(result, "not_yet_valid") <=> result.info.status = "NOT YET VALID"
         /\ Shows(result, "critical") <=> result.info.status = "CRITICAL"
         /\ Shows(result, "expiring") <=> result.info.status = "EXPIRING"
         /\ Shows(result, "chain_untrusted") <=> result.info.chain_trusted = FALSE
         /\ Shows(result, "revoked") <=> result.info.revocation_status = "REVOKED"
         /\ Shows(result, "hostname_mismatch") <=> result.info.hostname_match = FALSE
         /\ Shows(result, "policy_violation") <=> result.info.policy_violations # {}
         /\ Shows(result, "weak_crypto") <=> result.info.weak # {}
         /\ Shows(result, "chain_expiring") <=> result.info.chain_warnings # {}
<1>1. Shows(result, "expired") <=> result.info.status \in {"EXPIRED", "INVALID DATES"}
  BY DEF Shows
<1>2. Shows(result, "not_yet_valid") <=> result.info.status = "NOT YET VALID"
  BY DEF Shows
<1>3. Shows(result, "critical") <=> result.info.status = "CRITICAL"
  BY DEF Shows
<1>4. Shows(result, "expiring") <=> result.info.status = "EXPIRING"
  BY DEF Shows
<1>5. Shows(result, "chain_untrusted") <=> result.info.chain_trusted = FALSE
  BY DEF Shows
<1>6. Shows(result, "revoked") <=> result.info.revocation_status = "REVOKED"
  BY DEF Shows
<1>7. Shows(result, "hostname_mismatch") <=> result.info.hostname_match = FALSE
  BY DEF Shows
<1>8. Shows(result, "policy_violation") <=> result.info.policy_violations # {}
  BY DEF Shows
<1>9. Shows(result, "weak_crypto") <=> result.info.weak # {}
  BY DEF Shows
<1>10. Shows(result, "chain_expiring") <=> result.info.chain_warnings # {}
  BY DEF Shows
<1>11. QED
  BY <1>1, <1>2, <1>3, <1>4, <1>5, <1>6, <1>7, <1>8, <1>9, <1>10

(* Whichever exit code certinspect chose for its faults, and whichever of   *)
(* its documents it printed, exactly these faults are detected              *)
(* (detect_problems).                                                       *)
LEMMA AnswerDetected ==
  ASSUME NEW cmd, cmd.options.verify \in BOOLEAN, cmd.source \in {"host", "file"},
         NEW P \in Findable(cmd), NEW code \in Codes(P), NEW doc \in Documents(cmd, P)
  PROVE  DetectProblems(Exited(code, doc)) = P
<1>1. Exited(code, doc).info = doc
  BY CodesOf DEF Exited, AnalysedCodes
<1> DEFINE r == Exited(code, doc)
<1> HIDE DEF r
<1>2. Says(doc, P)
  BY DocumentSays
<1>3. ASSUME NEW k \in CriticalKinds \cup WarningKinds
      PROVE  Shows(r, k) <=> k \in P
  <2>1. r.info = doc
    BY <1>1 DEF r
  <2>2. /\ Shows(r, "expired") <=> r.info.status \in {"EXPIRED", "INVALID DATES"}
        /\ Shows(r, "not_yet_valid") <=> r.info.status = "NOT YET VALID"
        /\ Shows(r, "critical") <=> r.info.status = "CRITICAL"
        /\ Shows(r, "expiring") <=> r.info.status = "EXPIRING"
        /\ Shows(r, "chain_untrusted") <=> r.info.chain_trusted = FALSE
        /\ Shows(r, "revoked") <=> r.info.revocation_status = "REVOKED"
        /\ Shows(r, "hostname_mismatch") <=> r.info.hostname_match = FALSE
        /\ Shows(r, "policy_violation") <=> r.info.policy_violations # {}
        /\ Shows(r, "weak_crypto") <=> r.info.weak # {}
        /\ Shows(r, "chain_expiring") <=> r.info.chain_warnings # {}
    BY ShowsBy
  <2>3. PICK v \in Validity(P) : doc.status = v[1]
    BY <1>2 DEF Says
  <2>4. /\ v[1] \in {"EXPIRED", "INVALID DATES"} <=> "expired" \in P
        /\ v[1] = "NOT YET VALID" <=> "not_yet_valid" \in P
        /\ v[1] = "CRITICAL" <=> "critical" \in P
        /\ v[1] = "EXPIRING" <=> "expiring" \in P
    BY ValidityWords
  <2>5. /\ Shows(r, "expired") <=> "expired" \in P
        /\ Shows(r, "not_yet_valid") <=> "not_yet_valid" \in P
        /\ Shows(r, "critical") <=> "critical" \in P
        /\ Shows(r, "expiring") <=> "expiring" \in P
    BY <2>1, <2>2, <2>3, <2>4
  <2>6. doc.revocation_status = "REVOKED" <=> "revoked" \in P
    BY <1>2 DEF Says
  <2>7. /\ Shows(r, "chain_untrusted") <=> "chain_untrusted" \in P
        /\ Shows(r, "revoked") <=> "revoked" \in P
        /\ Shows(r, "hostname_mismatch") <=> "hostname_mismatch" \in P
        /\ Shows(r, "policy_violation") <=> "policy_violation" \in P
        /\ Shows(r, "weak_crypto") <=> "weak_crypto" \in P
        /\ Shows(r, "chain_expiring") <=> "chain_expiring" \in P
    BY <1>2, <2>1, <2>2, <2>6 DEF Says
  <2>8. QED
    BY <2>5, <2>7 DEF CriticalKinds, WarningKinds
<1>4. P \subseteq Kinds /\ Kinds \subseteq CriticalKinds \cup WarningKinds
  BY FindableFaults, ModelsAssumption
<1>5. {k \in Kinds : Shows(r, k)} = P
  BY <1>3, <1>4
<1>6. QED
  BY <1>5 DEF DetectProblems, r

(* An answer without a document shows nothing. *)
LEMMA NothingDetected ==
  ASSUME NEW result, result.info = NoInfo
  PROVE  DetectProblems(result) = {}
<1>1. None \notin BOOLEAN \cup Words
  BY EngineAssumption
<1>2. ASSUME NEW k \in CriticalKinds \cup WarningKinds
      PROVE  ~Shows(result, k)
  <2>1. /\ result.info.status = None /\ result.info.revocation_status = None
        /\ result.info.chain_trusted = None /\ result.info.hostname_match = None
        /\ result.info.policy_violations = {} /\ result.info.weak = {}
        /\ result.info.chain_warnings = {}
    BY DEF NoInfo
  <2>2. /\ None \notin {"EXPIRED", "INVALID DATES"} /\ None # "NOT YET VALID"
        /\ None # "CRITICAL" /\ None # "EXPIRING" /\ None # "REVOKED" /\ None # FALSE
    BY <1>1 DEF Words
  <2>3. QED
    BY <2>1, <2>2, ShowsBy DEF CriticalKinds, WarningKinds
<1>3. QED
  BY <1>2, ModelsAssumption DEF DetectProblems
=============================================================================
