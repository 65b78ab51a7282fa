---------------------------- MODULE MCInspection ----------------------------
(***************************************************************************)
(* A small instance of Inspection for TLC.                                 *)
(***************************************************************************)
EXTENDS Inspection

CONSTANTS h1, h2, h3, wild, pem, der, text, f1

File(defaults, targets, groups, discover, threads) ==
    [defaults |-> defaults, targets |-> targets, groups |-> groups, discover |-> discover,
     notifiers |-> <<>>,
     interval |-> 1, concurrency |-> threads, threshold |-> 0, renotify |-> 0]

None_ == [k \in {} |-> None]
Host(h) == "host" :> h

(* What an entry may set, good and bad, besides its host or file. *)
Settings ==
    {"verify" :> FALSE, "verify" :> TRUE, "verify" :> None, "cafile" :> text,
     "require_revocation_check" :> TRUE, "require_revocation_check" :> FALSE,
     "starttls" :> text, "min_tls_version" :> text, "port" :> 8443,
     "cab_forum" :> TRUE, "not_after_max" :> 90, "require_sct" :> TRUE,
     "profile" :> "strict", "profile" :> "paranoid",
     "expect" :> {"expired"}, "expect" :> {Recovered}, "hots" :> text}

Timings ==
    {None_, "retries" :> 2, "connect_timeout" :> 1, "read_timeout" :> 20,
     ("retries" :> 1) @@ ("read_timeout" :> 20) @@ ("connect_timeout" :> 0) @@ ("timeout" :> 7)}

(* One target with two settings and one in the defaults. *)
Validation ==
    {File(d, <<a @@ b @@ e>>, <<>>, <<>>, 1) :
        a, b \in Settings, d \in Settings \cup {None_}, e \in {Host(h2), "file" :> der}}

Timing ==
    {File(None_, <<t @@ v @@ e>>, <<>>, <<>>, 1) :
        t \in Timings, v \in {"verify" :> FALSE, "verify" :> TRUE, "verify" :> None},
        e \in {Host(h2), "file" :> der}}

(* Every set of faults, with default timing. *)
Faulty ==
    {File(None_, <<v @@ e>>, <<>>, <<>>, 1) :
        v \in {"verify" :> FALSE, "verify" :> TRUE}, e \in {Host(h1), "file" :> pem}}

(* A target, one in a group and two sources for the same hosts, the second  *)
(* with other defaults, fewer threads than targets.                         *)
Mixed ==
    {File("verify" :> FALSE, <<Host(h2)>>,
          <<[settings |-> "verify" :> TRUE, targets |-> <<Host(h3) @@ ("port" :> 25), "file" :> der>>]>>,
          <<"domain" :> text, ("domain" :> text) @@ ("expect" :> {"expired"})>>, 2),
     File(None_, <<>>, <<[settings |-> None_, targets |-> <<>>]>>, <<>>, 1),
     File("discover_timeout" :> None, <<>>, <<>>, <<"domain" :> text>>, 1),
     [File(None_, <<Host(h1)>>, <<>>, <<>>, 1) EXCEPT !.notifiers = <<"url" :> text>>]}

SmallConfigFiles == Validation \cup Timing \cup Faulty \cup Mixed

(* One host and one file show every set of faults, the others few. *)
SmallPresents ==
    [source \in {h1, h2, h3, pem, der} |->
        IF source \in {h1, pem} THEN ProblemSets ELSE {{}, {"expired", "chain_untrusted"}}]

SmallCheckArgs ==
    [host : {h2, None}, file : {der, None}, port : {443}, verify : BOOLEAN,
     starttls : {None, text}]

SmallRecords == {{h2, wild}, {h2, h3}}
AllNames ==
    {<<h, port, None>> : h \in {h1, h2, h3}, port \in {25, 443, 8443}} \cup {<<pem, None>>, <<der, None>>}
=============================================================================
