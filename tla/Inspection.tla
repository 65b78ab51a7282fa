----------------------------- MODULE Inspection -----------------------------
(***************************************************************************)
(* The first half of a cycle in detail: a document is loaded, the sources  *)
(* are queried, the targets are listed, and a pool of threads runs one     *)
(* certinspect per target (load_config, run_once up to its evaluations,    *)
(* check_target).  Monitor has all of this as BeginCycle, CheckTargets and *)
(* CheckFails, with the results as any of Outcomes.                        *)
(*                                                                         *)
(* The checks share nothing, so only the latest result is remembered, and  *)
(* what no later step reads is forgotten.  No state survives the cycle.    *)
(***************************************************************************)
EXTENDS Engine, Discovery

CONSTANTS
    ConfigFiles,  \* the configuration files that may be loaded
    Presents,     \* the sets of faults the certificates of each source may have
    CheckArgs     \* the arguments `certminder check` may be called with

IsSequence(s) == s \in Seq(Range(s))

(* The settings that bound a check are numbers, as Target declares them.    *)
(* load_config does not look.                                               *)
Typed(entry) ==
    /\ \A k \in DOMAIN entry \cap {"timeout", "retries"} : entry[k] \in Nat
    /\ \A k \in DOMAIN entry \cap {"connect_timeout", "read_timeout"} :
          entry[k] \in Nat \cup {None}
    /\ \A k \in DOMAIN entry \cap {"verify"} : entry[k] \in BOOLEAN \cup {None}

(* The documents considered: lists where load_config loops over lists,      *)
(* numbers where it, or subprocess_timeout, calculates.                     *)
TypedFile(doc) ==
    /\ IsSequence(doc.targets) /\ IsSequence(doc.groups) /\ IsSequence(doc.discover)
    /\ Typed(doc.defaults)
    /\ \A entry \in Range(doc.targets) \cup Range(doc.discover) : Typed(entry)
    /\ \A group \in Range(doc.groups) :
          /\ IsSequence(group.targets)
          /\ \A entry \in Range(group.targets) \cup {group.settings} : Typed(entry)
    /\ {doc.interval, doc.concurrency, doc.threshold} \subseteq Int
    /\ doc.renotify \in Int \cup {None}

ASSUME InspectionAssumption ==
    /\ \A doc \in ConfigFiles : TypedFile(doc)
    /\ \A args \in CheckArgs : args.verify \in BOOLEAN
    /\ \A source \in DOMAIN Presents : Presents[source] \subseteq ProblemSets
    /\ IsFiniteSet(Hosts)

VARIABLES
    phase,     \* see Phases
    config,    \* what load_config returned, until the targets are listed
    answers,   \* what the queries of config.sources answered so far
    roster,    \* the targets not checked yet, by their position in the list
    workers,   \* the size of the pool
    running,   \* the children of the pool, by position: working or hung
    last       \* the latest check that ended

vars == <<phase, config, answers, roster, workers, running, last>>

Phases == {"down", "querying", "checking", "aborted"}

NoCheck == [end |-> "none", hung |-> FALSE, faults |-> {}, garbled |-> FALSE,
            result |-> Missing]

Init ==
    /\ phase = "down"
    /\ config = None
    /\ answers = <<>>
    /\ roster = <<>>
    /\ workers = 0
    /\ running = <<>>
    /\ last = NoCheck

-----------------------------------------------------------------------------
With(f, p, x) == [q \in DOMAIN f \cup {p} |-> IF q = p THEN x ELSE f[q]]
Without(f, p) == [q \in DOMAIN f \ {p} |-> f[q]]

(* `once`, or a cycle of `run`: a document that is refused ends the process.*)
LoadConfig(doc) ==
    /\ phase = "down"
    /\ Valid(doc)
    /\ phase' = "querying"
    /\ config' = Loaded(doc)
    /\ UNCHANGED <<answers, roster, workers, running, last>>

(* _cmd_check: one target straight from the command line, not validated.    *)
CheckCommand(args) ==
    /\ phase = "down"
    /\ (args.host = None) # (args.file = None)
    /\ phase' = "checking"
    /\ roster' = <<IF args.file # None
                   THEN [DefaultTarget EXCEPT !.file = args.file, !.verify = args.verify]
                   ELSE [DefaultTarget EXCEPT !.host = args.host, !.port = args.port,
                            !.verify = args.verify, !.starttls = args.starttls]>>
    /\ workers' = 1
    /\ UNCHANGED <<config, answers, running, last>>

(* The query of source s ends, in whatever order. *)
Query(s) ==
    /\ phase = "querying"
    /\ s \in DOMAIN config.sources \ DOMAIN answers
    /\ \E a \in Answers : answers' = With(answers, s, a)
    /\ UNCHANGED <<phase, config, roster, workers, running, last>>

AllAnswered == phase = "querying" /\ DOMAIN answers = DOMAIN config.sources

Listing == AllTargets(config.targets, Found(config.sources, answers))

(* The results of the queries are collected: the targets are listed ... *)
ListTargets ==
    /\ AllAnswered
    /\ ~\E s \in DOMAIN answers : Raises(answers[s])
    /\ phase' = "checking"
    /\ roster' = Listing
    /\ workers' = config.concurrency
    /\ config' = None
    /\ answers' = <<>>
    /\ UNCHANGED <<running, last>>

(* ... or an exception nobody expected leaves run_once. *)
DiscoveryFails ==
    /\ AllAnswered
    /\ \E s \in DOMAIN answers : Raises(answers[s])
    /\ phase' = "aborted"
    /\ config' = None
    /\ answers' = <<>>
    /\ UNCHANGED <<roster, workers, running, last>>

-----------------------------------------------------------------------------
(* The result of position p is there, and its thread takes the next one. *)
Ends(p, check) ==
    /\ last' = check
    /\ roster' = Without(roster, p)
    /\ running' = Without(running, p)
    /\ UNCHANGED <<phase, config, answers, workers>>

Queued == DOMAIN roster \ DOMAIN running

(* A free thread starts the next child.  An endpoint, or the program, may   *)
(* hang.                                                                    *)
StartCheck(p) ==
    /\ phase = "checking"
    /\ p \in Queued
    /\ \A q \in Queued : p <= q
    /\ Cardinality(DOMAIN running) < workers
    /\ \E how \in {"working", "hung"} : running' = With(running, p, how)
    /\ UNCHANGED <<phase, config, answers, roster, workers, last>>

(* The program is not there, or may not be run. *)
NoChild(p) ==
    /\ phase = "checking"
    /\ p \in Queued
    /\ \A q \in Queued : p <= q
    /\ Cardinality(DOMAIN running) < workers
    /\ \E result \in {Missing, NotStarted} :
          Ends(p, [NoCheck EXCEPT !.end = "not started", !.result = result])

Exit(P, garbled, code, document) ==
    [end |-> "exited", hung |-> FALSE, faults |-> P, garbled |-> garbled,
     result |-> Exited(code, document)]

(* How a run of certinspect that is not killed may end: a usage error, an   *)
(* endpoint that cannot be inspected, a document, or an exit code without a *)
(* document that can be read.                                               *)
Exits(t, cmd) ==
    IF ~Takes(cmd) THEN {Exit({}, FALSE, 2, NoInfo)}
    ELSE {Exit({}, FALSE, 1, NoInfo)}
         \cup UNION {{Exit(P, FALSE, w[1], w[2]) : w \in Codes(P) \X Documents(cmd, P)}
                     \cup {Exit(P, TRUE, c, NoInfo) : c \in Codes(P)} :
                        P \in Findable(cmd) \cap Presents[DisplayHost(t)]}

Killed(hung) == [NoCheck EXCEPT !.end = "killed", !.hung = hung, !.result = TimedOut]

(* subprocess.run returns, or raises TimeoutExpired when the child needs    *)
(* longer than its limit.                                                   *)
Outcome(t, took) ==
    IF took > SubprocessTimeout(t) THEN {Killed(FALSE)} ELSE Exits(t, Command(t))

Finish(p) ==
    /\ p \in DOMAIN running
    /\ running[p] = "working"
    /\ \E took \in {0, LongestRun(Command(roster[p]))} :
          \E check \in Outcome(roster[p], took) : Ends(p, check)

(* Faulty variant: a child that was killed is started again. *)
KillRetries(p) ==
    /\ p \in DOMAIN running
    /\ running[p] = "hung"
    /\ running' = Without(running, p)
    /\ UNCHANGED <<phase, config, answers, roster, workers, last>>

(* The limit of a child that hangs is over. *)
Kill(p) ==
    /\ p \in DOMAIN running
    /\ running[p] = "hung"
    /\ Ends(p, Killed(TRUE))

(* The cycle goes on with the evaluations, or has failed. *)
Return ==
    /\ phase = "aborted" \/ (phase = "checking" /\ DOMAIN roster = {})
    /\ phase' = "down"
    /\ workers' = 0
    /\ last' = NoCheck
    /\ UNCHANGED <<config, answers, roster, running>>

Next ==
    \/ \E doc \in ConfigFiles : LoadConfig(doc)
    \/ \E args \in CheckArgs : CheckCommand(args)
    \/ phase = "querying" /\ \E s \in DOMAIN config.sources : Query(s)
    \/ ListTargets
    \/ DiscoveryFails
    \/ \E p \in DOMAIN roster : StartCheck(p) \/ NoChild(p) \/ Finish(p) \/ Kill(p)
    \/ Return

Spec == Init /\ [][Next]_vars

(* The queries and the runs of certinspect end, at the latest at their      *)
(* limits, and the threads of the pools never wait for anything else.       *)
Fairness ==
    /\ WF_vars(phase = "querying" /\ \E s \in DOMAIN config.sources : Query(s))
    /\ WF_vars(ListTargets \/ DiscoveryFails)
    /\ WF_vars(\E p \in DOMAIN roster : StartCheck(p) \/ NoChild(p))
    /\ WF_vars(\E p \in DOMAIN roster : Finish(p) \/ Kill(p))
    /\ WF_vars(Return)

FairSpec == Spec /\ Fairness

-----------------------------------------------------------------------------
(* Every variable has its type; in particular the settings and the results  *)
(* are ones that Monitor allows for its constants and outcomes.             *)
TypeOK ==
    /\ phase \in Phases
    /\ config # None =>
          /\ config.concurrency \in Nat \ {0}
          /\ config.threshold \in Nat \ {0}
          /\ config.renotify \in Int \cup {None}
    /\ DOMAIN answers \subseteq Nat /\ \A s \in DOMAIN answers : answers[s] \in Answers
    /\ \A p \in DOMAIN roster : DOMAIN roster[p] = TargetKeys /\ Timed(roster[p])
    /\ running \in [DOMAIN running -> {"working", "hung"}]
    /\ DOMAIN running \subseteq DOMAIN roster
    /\ Cardinality(DOMAIN running) <= workers
    /\ OutcomeOf(last.result) \in Outcomes

(* What slips past load_config: `verify` is not False there (`is False`),   *)
(* but off for build_command, and something is set that needs it.           *)
HalfVerified(t) == t.verify = None /\ \E k \in NeedsVerifyKeys : Truthy(t[k])

(* For every target of a document whose timings are numbers, however it is  *)
(* merged from defaults, groups and sources, the options combine to a       *)
(* command line that certinspect takes (build_command's docstring: "config  *)
(* validation is expected to reject that combination earlier").  The one    *)
(* exception is HalfVerified: load_config accepts it, certinspect does not. *)
RunnableTargets ==
    \A p \in DOMAIN roster : Takes(Command(roster[p])) \/ HalfVerified(roster[p])

(* No run is killed that certinspect would have ended by itself: a slow but *)
(* healthy endpoint does not become UNREACHABLE (subprocess_timeout).       *)
NeverKilledEarly == last.end = "killed" => last.hung

(* Whichever exit code certinspect chose, exactly the faults it reports are *)
(* detected ("nothing is hidden behind a single headline status", README).  *)
NothingHidden ==
    last.end = "exited" /\ ~last.garbled =>
        DetectProblems(last.result) = last.faults

(* The fault a headline status stands for. *)
FaultOf ==
    [EXPIRED |-> "expired", NOT_YET_VALID |-> "not_yet_valid", CRITICAL |-> "critical",
     EXPIRING |-> "expiring", CHAIN_UNTRUSTED |-> "chain_untrusted", REVOKED |-> "revoked",
     HOSTNAME_MISMATCH |-> "hostname_mismatch", POLICY_VIOLATION |-> "policy_violation"]

(* The headline status, which `check` prints and the heartbeat and the      *)
(* metrics count by, names a fault the certificate has; VALID leaves only   *)
(* those that have no exit code of their own.                               *)
HeadlineIsAFault ==
    last.result.reachable /\ ~last.garbled =>
        IF last.result.status = "VALID"
        THEN last.faults \subseteq {"weak_crypto", "chain_expiring"}
        ELSE FaultOf[last.result.status] \in last.faults

(* Every host found by a source that answered is listed, whatever the other *)
(* sources did, and every configured target is (resolve_discovered_targets).*)
NothingFoundIsMissed ==
    AllAnswered /\ (\A s \in DOMAIN answers : ~Raises(answers[s])) =>
        LET names == {NameOf(Listing[p]) : p \in DOMAIN Listing}
        IN  /\ \A i \in DOMAIN config.targets : NameOf(config.targets[i]) \in names
            /\ \A s \in {r \in DOMAIN answers : ~Failed(answers[r])} :
                  \A h \in (UNION answers[s].inventory) \cap Hosts :
                     NameOf(Target([host |-> h], config.sources[s].settings)) \in names

(* A name that discovery adds is listed once ("inspected once and doesn't   *)
(* double-count", _all_targets).                                            *)
FoundOnce ==
    AllAnswered =>
        \A p, q \in DOMAIN Listing :
            p < q /\ q > Len(config.targets) => NameOf(Listing[p]) # NameOf(Listing[q])

(* A source whose query fails does not keep the targets from being checked  *)
(* ("skipped with a warning to stderr rather than aborting the whole cycle",*)
(* resolve_discovered_targets).                                             *)
FailingSourceSkipped == phase # "aborted"

(* Every cycle ends, whatever hangs, also with fewer threads than targets   *)
(* that hang.                                                               *)
CycleEnds == phase # "down" ~> phase = "down"
=============================================================================
