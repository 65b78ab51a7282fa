------------------------------ MODULE Monitor -------------------------------
(***************************************************************************)
(* certminder's cycle and its scheduling (scheduler.py): run_once loads    *)
(* the state file, lists and checks the targets, evaluates the results,    *)
(* delivers the events to every sink, saves the state and exports the      *)
(* metrics; run_loop repeats it and keeps the startup digest pending.      *)
(*                                                                         *)
(* One behaviour is the life of one state file: processes start, stop and  *)
(* die, one at a time.  `once` from cron is a process with StartupReport   *)
(* FALSE that stops after its cycle.                                       *)
(***************************************************************************)
EXTENDS Evaluator, Notifiers, Sequences, FiniteSets

CONSTANTS
    Configured,        \* config.targets: a sequence of targets, repeats allowed
    Discoveries,       \* what resolve_discovered_targets may return in one cycle
    FailureThreshold,  \* config.failure_threshold
    StartupReport,     \* config.startup_report (FALSE for `once`)
    PrometheusFile,    \* TRUE when config.prometheus_file is set
    Retention,         \* STATE_RETENTION_SECONDS, scaled
    Ticks,             \* how far the clock may move from one cycle to the next
    Horizon,           \* bound on the clock
    FaultKinds,        \* the faults that may happen, see Fault
    MaxFaults          \* bound on the number of faults

ASSUME MonitorAssumption ==
    /\ Configured \in Seq(Targets)
    /\ Discoveries \subseteq Seq(Targets)
    /\ FailureThreshold \in Nat \ {0}
    /\ StartupReport \in BOOLEAN
    /\ PrometheusFile \in BOOLEAN
    /\ Retention \in Nat
    /\ Ticks \subseteq Nat
    /\ Horizon \in Nat
    /\ MaxFaults \in Nat

VARIABLES
    \* The process.
    pc,         \* where it is: see Phases
    digest,     \* run_loop's report_all: the startup digest is still owed
    mem,        \* run_once's StateStore, in memory
    roster,     \* the targets listed this cycle, repeats included
    todo,       \* the positions of roster still to be evaluated
    outcomes,   \* the check result at each position of roster
    stored,     \* run_once's `stored`: the state before this cycle
    batch,      \* run_once's `all_events`
    unsent,     \* the sinks _deliver has not called yet
    delivered,  \* what _deliver will return
    \* Outside the process.
    now,        \* the wall clock
    disk,       \* the state file
    heard,      \* per sink and target, the alerts its reader believes active
    \* Bookkeeping of the model.
    streak,     \* per target and kind, completed cycles in a row that detected it
    faults      \* how many faults have happened

cycleVars   == <<mem, roster, todo, outcomes, stored, batch, unsent, delivered>>
outsideVars == <<now, disk, heard>>
vars == <<pc, digest, cycleVars, outsideVars, streak, faults>>

Phases == {"down", "asleep", "checking", "evaluating", "exporting"}

-----------------------------------------------------------------------------
(* _all_targets: every configured entry, and each discovered name once      *)
(* unless it is configured.  A position of roster that repeats an earlier   *)
(* name is dropped only when it was discovered.                             *)
Listed(r) ==
    {p \in DOMAIN r :
        p > Len(Configured) => \A q \in 1..(p - 1) : r[q].name # r[p].name}

ConfiguredNames == {Configured[p].name : p \in DOMAIN Configured}

Checked == {roster[p].name : p \in Listed(roster)}

(* The kinds this cycle's results show for target n, expected ones apart.   *)
Detected(n) ==
    {k \in AlertKinds :
        \E p \in Listed(roster) :
            /\ roster[p].name = n
            /\ k \notin roster[p].expect
            /\ IF outcomes[p].reachable THEN k \in outcomes[p].problems
                                        ELSE k = Unreachable}

(* Locals of run_once do not survive its return. *)
CycleForgotten ==
    /\ mem' = EmptyStore
    /\ roster' = <<>>
    /\ todo' = {}
    /\ outcomes' = <<>>
    /\ stored' = EmptyStore
    /\ batch' = {}
    /\ unsent' = {}
    /\ delivered' = TRUE

Fault(kind) ==
    /\ kind \in FaultKinds
    /\ faults < MaxFaults
    /\ faults' = faults + 1

(* _safe_run_once: an exception ends the cycle, run_loop sleeps and retries;*)
(* report_all is left as it was.                                            *)
CycleFails(kind) ==
    /\ Fault(kind)
    /\ pc' = "asleep"
    /\ CycleForgotten
    /\ UNCHANGED digest

(* Faulty variants: the digest is given up, or never. *)
DigestDropped ==
    /\ pc' = "asleep"
    /\ digest' = FALSE
    /\ CycleForgotten

DigestRepeated ==
    /\ pc' = "asleep"
    /\ digest' = digest
    /\ CycleForgotten

(* run_once returned a report: a digest that was delivered is no longer owed.*)
CycleReturns ==
    /\ pc' = "asleep"
    /\ digest' = (digest /\ ~delivered)
    /\ CycleForgotten

-----------------------------------------------------------------------------
Init ==
    /\ pc = "down"
    /\ digest = FALSE
    /\ mem = EmptyStore
    /\ roster = <<>>
    /\ todo = {}
    /\ outcomes = <<>>
    /\ stored = EmptyStore
    /\ batch = {}
    /\ unsent = {}
    /\ delivered = TRUE
    /\ now = 0
    /\ disk = EmptyStore
    /\ heard = [s \in Sinks |-> [n \in Names |-> {}]]
    /\ streak = [n \in Names |-> NoCounts]
    /\ faults = 0

(* A process starts: run_loop sets report_all from the configuration. *)
Start ==
    /\ pc = "down"
    /\ pc' = "asleep"
    /\ digest' = StartupReport
    /\ UNCHANGED <<cycleVars, outsideVars, streak, faults>>

(* The process ends between two cycles: `once` returned, or the daemon was  *)
(* interrupted in its sleep.                                                *)
Stop ==
    /\ pc = "asleep"
    /\ pc' = "down"
    /\ digest' = FALSE
    /\ UNCHANGED <<cycleVars, outsideVars, streak, faults>>

(* The process is killed inside a cycle. *)
Crash ==
    /\ pc \notin {"down", "asleep"}
    /\ Fault("crash")
    /\ pc' = "down"
    /\ digest' = FALSE
    /\ CycleForgotten
    /\ UNCHANGED <<outsideVars, streak>>

(* The bound on the clock still allows a cycle. *)
TimeLeft == \E d \in Ticks : now + d <= Horizon

(* A cycle begins: load the state file, list the targets.  A file that is   *)
(* there but cannot be read or parsed counts as empty.                      *)
BeginCycle ==
    /\ pc = "asleep"
    /\ TimeLeft
    /\ pc' = "checking"
    /\ \/ mem' = disk /\ UNCHANGED faults
       \/ mem' = EmptyStore /\ Fault("unreadable")
    /\ \E found \in Discoveries : roster' = Configured \o found
    /\ todo' = Listed(roster')
    /\ unsent' = Sinks
    /\ UNCHANGED <<digest, outcomes, stored, batch, delivered, outsideVars, streak>>

(* The pool has checked every target; the clock is read once. *)
CheckTargets ==
    /\ pc = "checking"
    /\ pc' = "evaluating"
    /\ outcomes' \in [todo -> Outcomes]
    /\ \E d \in Ticks : now + d <= Horizon /\ now' = now + d
    /\ UNCHANGED <<digest, mem, roster, todo, stored, batch, unsent, delivered,
                   disk, heard, streak, faults>>

(* Listing or checking the targets raises. *)
CheckFails ==
    /\ pc = "checking"
    /\ CycleFails("check")
    /\ UNCHANGED <<outsideVars, streak>>

(* Faulty variant: the startup digest trusts the stored state. *)
CycleAtStored(p) ==
    [target    |-> roster[p],
     outcome   |-> outcomes[p],
     previous  |-> mem[roster[p].name],
     now       |-> now,
     threshold |-> IF digest THEN 1 ELSE FailureThreshold]

(* The evaluation of the result at position p.  The startup digest ignores  *)
(* the stored state and confirms at once.                                   *)
CycleAt(p) ==
    [target    |-> roster[p],
     outcome   |-> outcomes[p],
     previous  |-> IF digest THEN EmptyState ELSE mem[roster[p].name],
     now       |-> now,
     threshold |-> IF digest THEN 1 ELSE FailureThreshold]

(* One turn of run_once's loop over the results, in their order. *)
EvaluateNext ==
    /\ pc = "evaluating"
    /\ \E p \in todo :
        /\ \A q \in todo : p <= q
        /\ todo' = todo \ {p}
        /\ stored' = [stored EXCEPT ![roster[p].name] = mem[roster[p].name]]
        /\ mem' = [mem EXCEPT ![roster[p].name] = Seen(StateOf(CycleAt(p)), now)]
        /\ batch' = batch \cup EventsOf(CycleAt(p))
    /\ UNCHANGED <<pc, digest, roster, outcomes, unsent, delivered, outsideVars,
                   streak, faults>>

(* The reader of sink s gets the events that pass its filters. *)
Hears(s) ==
    heard' = [heard EXCEPT ![s] =
                [n \in Names |-> Read(heard[s][n], n, Kept(s, batch))]]

(* _deliver calls sink s: it takes the events, or refuses them, or takes    *)
(* them and reports a failure all the same (the answer was lost).  A sink   *)
(* whose filters keep nothing cannot fail.                                  *)
Deliver(s) ==
    /\ pc = "evaluating"
    /\ todo = {}
    /\ batch # {}
    /\ s \in unsent
    /\ unsent' = unsent \ {s}
    /\ \/ Hears(s) /\ UNCHANGED <<delivered, faults>>
       \/ /\ Kept(s, batch) # {}
          /\ Fault("refused")
          /\ delivered' = FALSE
          /\ UNCHANGED heard
       \/ /\ Kept(s, batch) # {}
          /\ Fault("ambiguous")
          /\ delivered' = FALSE
          /\ Hears(s)
    /\ UNCHANGED <<pc, digest, mem, roster, todo, outcomes, stored, batch,
                   now, disk, streak>>

(* Faulty variants: nothing is reverted; only targets with a problem event  *)
(* are; a reverted target is not stamped as checked.                        *)
NeverReverted == mem

RevertedForProblems ==
    [n \in Names |->
        IF ~delivered /\ \E e \in batch : e.target = n /\ e.kind \in AlertKinds
        THEN Seen(stored[n], now)
        ELSE mem[n]]

RevertedUnstamped ==
    [n \in Names |->
        IF ~delivered /\ \E e \in batch : e.target = n
        THEN stored[n]
        ELSE mem[n]]

(* What run_once is about to save: when a sink failed, the targets with     *)
(* events get the state they had before this cycle back.                    *)
Reverted ==
    [n \in Names |->
        IF ~delivered /\ \E e \in batch : e.target = n
        THEN Seen(stored[n], now)
        ELSE mem[n]]

ToSave == Prune(Reverted, now, Retention)

Least(i, j) == IF i <= j THEN i ELSE j

(* A target counts its detections over the cycles that were completed; one  *)
(* that was forgotten starts over.                                          *)
NextStreak ==
    [n \in Names |-> [k \in AlertKinds |->
        IF ToSave[n].seen = None THEN 0
        ELSE IF n \notin Checked THEN streak[n][k]
        ELSE IF k \in Detected(n) THEN Least(streak[n][k] + 1, FailureThreshold)
        ELSE 0]]

SettledUnsent == pc = "evaluating" /\ todo = {}    \* faulty variant: saved first

(* Everything before the save is done. *)
Settled == pc = "evaluating" /\ todo = {} /\ (batch = {} \/ unsent = {})

(* The state is saved; the cycle ends here unless metrics are exported. *)
Persist ==
    /\ Settled
    /\ disk' = ToSave
    /\ streak' = NextStreak
    /\ IF PrometheusFile
       THEN /\ pc' = "exporting"
            /\ UNCHANGED <<digest, cycleVars>>
       ELSE CycleReturns
    /\ UNCHANGED <<now, heard, faults>>

(* StateStore.save raises: the file keeps its old contents. *)
SaveFails ==
    /\ Settled
    /\ CycleFails("save")
    /\ UNCHANGED <<outsideVars, streak>>

(* Faulty variant: the problem series are those of a certificate only. *)
SeriesOfCertificate(outcome) == outcome.problems

(* _problem_kinds: the certificate_problem series exported for one result.  *)
Series(outcome) == IF outcome.reachable THEN outcome.problems ELSE {Unreachable}

(* write_prometheus replaces the metrics file; the cycle returns.           *)
ExportMetrics ==
    /\ pc = "exporting"
    /\ CycleReturns
    /\ UNCHANGED <<outsideVars, streak, faults>>

(* write_prometheus raises, after the state was saved. *)
ExportFails ==
    /\ pc = "exporting"
    /\ CycleFails("export")
    /\ UNCHANGED <<outsideVars, streak>>

Next ==
    \/ Start
    \/ Stop
    \/ Crash
    \/ BeginCycle
    \/ CheckTargets
    \/ CheckFails
    \/ EvaluateNext
    \/ \E s \in Sinks : Deliver(s)
    \/ Persist
    \/ SaveFails
    \/ ExportMetrics
    \/ ExportFails

Spec == Init /\ [][Next]_vars

(* The scheduling the liveness properties need: a process is started again  *)
(* (cron, or the service manager), the loop never stalls inside a cycle, and*)
(* a cycle that is begun after every start is not preempted for ever.  No   *)
(* fault is fair, and stopping is never forced.                             *)
Fairness ==
    /\ WF_vars(Start)
    /\ SF_vars(BeginCycle)
    /\ WF_vars(CheckTargets)
    /\ WF_vars(EvaluateNext)
    /\ \A s \in Sinks : WF_vars(Deliver(s))
    /\ WF_vars(Persist)
    /\ WF_vars(ExportMetrics)

FairSpec == Spec /\ Fairness

-----------------------------------------------------------------------------
(* Every variable has its type. *)
TypeOK ==
    /\ pc \in Phases
    /\ digest \in BOOLEAN
    /\ mem \in Stores
    /\ roster \in Seq(Targets)
    /\ todo \subseteq DOMAIN roster
    /\ outcomes \in [DOMAIN outcomes -> Outcomes]
    /\ pc = "evaluating" => todo \subseteq DOMAIN outcomes
    /\ stored \in Stores
    /\ batch \subseteq Events
    /\ unsent \subseteq Sinks
    /\ delivered \in BOOLEAN
    /\ now \in Nat
    /\ disk \in Stores
    /\ heard \in [Sinks -> [Names -> SUBSET AlertKinds]]
    /\ streak \in [Names -> [AlertKinds -> Nat]]
    /\ faults \in Nat

(* An entry of the state file is coherent and from the past: an unreachable *)
(* target has no certificate alert, every active alert has the time it was  *)
(* sent, no problem is both pending and active or pending beyond the        *)
(* threshold (evaluate and the revert in run_once).                         *)
AlertBookkeeping ==
    \A n \in Names :
        /\ Coherent(disk[n], FailureThreshold)
        /\ disk[n].seen # None => disk[n].seen <= now

-----------------------------------------------------------------------------
(* A kind that this cycle's entry for target n lists in `expect`. *)
Accepted(n, k) ==
    \E p \in Listed(roster) : roster[p].name = n /\ k \in roster[p].expect

(* Every sink took the batch, and the batch holds event e. *)
Told(e) == delivered /\ unsent = {} /\ e \in batch

(* An alert becomes active in the state file only when every sink took the  *)
(* event that announces it ("Alerts are no longer lost when a notifier      *)
(* fails", run_once lines 188-195).  An accepted kind has no event.         *)
AlertsAnnounced ==
    [][\A n \in Names : \A k \in disk'[n].active \ disk[n].active :
            Told(Problem(n, k)) \/ Accepted(n, k)]_disk

(* An active alert leaves the state file only with a recovery every sink    *)
(* took, with the Unreachable alert that replaces it, or because its target *)
(* lapsed.                                                                  *)
RecoveriesAnnounced ==
    [][\A n \in Names : \A k \in disk[n].active \ disk'[n].active :
            \/ Told(Recovery(n, k))
            \/ Unreachable \in disk'[n].active
            \/ disk'[n].seen = None]_disk

(* A new fingerprint replaces a known one only with a rotation every sink   *)
(* took.                                                                    *)
RotationsAnnounced ==
    [][\A n \in Names :
            \/ None \in {disk[n].fingerprint, disk'[n].fingerprint}
            \/ disk[n].fingerprint = disk'[n].fingerprint
            \/ Told(Rotation(n))]_disk

(* Between cycles the reader of every sink believes active exactly what the *)
(* state file records, whatever was refused, failed or retried before.      *)
InSync ==
    pc \in {"down", "asleep"} =>
        \A s \in Sinks, n \in Names : heard[s][n] = disk[n].active

(* A cycle that counts as delivered leaves no alert behind that a sink      *)
(* carries and its reader does not know of.                                 *)
KnownToEverySink ==
    Settled /\ delivered =>
        \A s \in Sinks, n \in Checked :
            ToSave[n].active \cap Carried(s) \subseteq heard[s][n]

(* The active alerts are those whose problem was detected in at least       *)
(* failure_threshold completed cycles in a row.                             *)
ActiveIffPersistent ==
    pc \in {"down", "asleep"} =>
        \A n \in Names :
            disk[n].active = {k \in AlertKinds : streak[n][k] >= FailureThreshold}

(* A kind listed in `expect` is never recorded as an active alert and never *)
(* the subject of an event (README, "Expected problems").                   *)
ExpectedNotTracked ==
    \A p \in DOMAIN Configured :
        LET n == Configured[p].name
        IN  \A k \in Configured[p].expect :
                /\ k \notin disk[n].active
                /\ Problem(n, k) \notin batch
                /\ Recovery(n, k) \notin batch

(* A reader who already believes an alert of a configured target active is  *)
(* not sent it again, unless a new alert of the same target comes with it or*)
(* its renotify interval elapsed ("notified once", README).  A discovered   *)
(* target is left out: once forgotten, what its readers believe is stale.   *)
ToldOnce ==
    pc = "evaluating" /\ todo = {} /\ unsent = Sinks /\ ~digest =>
        \A n \in ConfiguredNames, k \in AlertKinds :
            Problem(n, k) \in batch /\ (\A s \in Sinks : k \in heard[s][n]) =>
                \/ \E j \in AlertKinds, s \in Sinks :
                      Problem(n, j) \in batch /\ j \notin heard[s][n]
                \/ /\ RenotifyAfter # None
                   /\ disk[n].notified[k] # None
                   /\ now - disk[n].notified[k] >= RenotifyAfter

(* With renotify_after, no active alert of a checked target is older than   *)
(* the interval when a delivered cycle ends: it was sent again.             *)
RenotifiedOnTime ==
    RenotifyAfter # None /\ Settled /\ delivered =>
        \A n \in Checked : \A k \in ToSave[n].active :
            \/ ToSave[n].notified[k] = now
            \/ now - ToSave[n].notified[k] < RenotifyAfter

(* A target missing from a cycle (a discovery source that is down) keeps its*)
(* entry untouched until the retention time is over, and one that was       *)
(* checked is never forgotten (scheduler.py lines 27-31).                   *)
RememberedWhileAbsent ==
    [][\A n \in Names :
            /\ n \notin Checked /\ disk[n].seen # None /\ disk[n].seen + Retention >= now
                 => disk'[n] = disk[n]
            /\ n \in Checked => disk'[n].seen # None]_disk

(* `certminder report` shows exactly the targets the last cycle checked and, *)
(* once their events were delivered, exactly the problems it saw ("it       *)
(* reflects what the daemon last saw", _cmd_report).  For a threshold of 1. *)
ReportShowsLastCycle ==
    [][Checked # {} =>
            /\ DOMAIN Report(disk') = Checked
            /\ pc = "evaluating" /\ delivered =>
                  \A n \in Checked : Report(disk')[n] = Detected(n)]_disk

(* After a delivered cycle the exported series are the problems the state   *)
(* file tracks, active or pending, plus those the target's entry accepts:   *)
(* the export and the evaluator agree ("Mirrors the evaluator",             *)
(* metrics._problem_kinds).                                                 *)
ExportMirrorsState ==
    pc = "exporting" /\ delivered =>
        \A p \in Listed(roster) :
            (\A q \in Listed(roster) : roster[q].name = roster[p].name => q = p) =>
                LET state   == disk[roster[p].name]
                    tracked == {k \in AlertKinds : k \in state.active \/ state.pending[k] > 0}
                IN  Series(outcomes[p]) = tracked \cup (outcomes[p].problems \cap roster[p].expect)

(* A problem that stays is known, in the end, to the reader of every sink   *)
(* that carries it, after any bounded number of faults.                     *)
EventuallyTold ==
    \A n \in Names, k \in AlertKinds, s \in Sinks :
        <>[](pc = "evaluating" => k \in Detected(n))
            => <>[](k \in Carried(s) => k \in heard[s][n])

(* The startup digest is delivered in the end, or its process ends. *)
DigestPaid == digest ~> ~digest

(* The readers' views refine the abstract panel: while the results of a     *)
(* cycle are at hand the assessment is what they show, otherwise it is what *)
(* the state file records.                                                  *)
Panel ==
    INSTANCE AlarmPanel WITH
        panel      <- heard,
        assessment <- IF pc = "evaluating"
                      THEN [n \in Names |-> Detected(n)]
                      ELSE [n \in Names |-> disk[n].active]

ImplementsPanel == Panel!Spec
=============================================================================
