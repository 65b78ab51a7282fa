# A specification of certminder

certminder inspects TLS certificates on a schedule, by calling the `certinspect`
command for every target, and tells people about problems through notifiers
("sinks": console, email, Slack, webhook). It remembers in a JSON state file what
was already told. This directory holds TLA+ modules of that behaviour, the TLC
configurations that check them on small instances, and TLAPS proofs of the
results that matter most.

The difficult part of the program is not one function but an agreement between
three things that change at different moments: what is true of the targets, what
the state file records, and what the readers of the sinks have been told. A
cycle reads the first, decides with the second, sends to the third and only then
updates the second; every step in between can fail. Most properties below are
about that agreement.

## 1. Inventory

| Component (source) | State it keeps | Operations | Talks to |
| --- | --- | --- | --- |
| Evaluator (`evaluator.py`) | none, pure | `evaluate`, `_unreachable_result`, `_confirm`, `_Cycle.due`, `detect_problems` | called by the cycle for each result |
| Data model (`models.py`) | none | targets, results, events, severities, alert keys | everybody |
| State store (`state.py`) | the store in memory, the state file | `_load`, `get`, `set`, `prune`, `last_cycle`, `save` | cycle, `report`, atomic writer |
| Cycle and daemon (`scheduler.py`) | inside a cycle: targets, results, events, `stored`; across cycles: `report_all` | `run_once`, `_all_targets`, `_deliver`, `_safe_run_once`, `run_loop` | all of the others |
| Notifier filters (`notifiers/__init__.py`) | none | `build_notifier`, severity and kind filters | wrap the transports |
| Transports (`notifiers/*.py`) | none | `send` | SMTP, HTTP, the terminal |
| Atomic writer (`atomic.py`) | a temporary file during a call | `atomic_write` | state file, metrics file |
| certinspect runner (`engine.py`) | none | `subprocess_timeout`, `build_command`, `check_target` | the `certinspect` process, in a thread of the cycle's pool |
| Discovery (`discovery.py`) | none | `discover_hostnames` | the `certinspect` process, in a pool of its own |
| Metrics (`metrics.py`) | the metrics file | `render`, `write_prometheus` | node_exporter |
| Configuration (`config.py`, `env.py`) | none | parsing, validation, interpolation | everybody, once |
| Command line (`cli.py`) | none | `check`, `once`, `run`, `report` | starts all of the above |

What is hard about each, and what makes it correct:

* **Evaluator.** Long sequences of detections, recoveries, unreachable cycles and
  expected problems must leave coherent entries; an alert is sent once, again
  when its interval elapses, and clears with its own recovery; a problem counts
  after `failure_threshold` detections in a row.
* **Cycle.** Delivery comes before the save, and a refused batch puts the state
  of the targets concerned back, so that nothing is lost ("at-least-once"). A
  crash, a failing check, save or export can end a cycle anywhere. The startup
  digest ignores the stored state and stays pending until it is delivered.
* **State store.** An entry survives as long as its target is checked or was
  checked within the retention time; `report` finds the last cycle by equal
  time stamps.
* **Filters and transports.** Several sinks see different parts of a batch, and
  one may fail while another succeeds; a transport can report a failure although
  the message arrived.
* **Atomic writer.** Readers, a second process and a power failure must never
  meet a half-written or empty file; an error must not leave a temporary file.
* **Several processes.** Nothing keeps a daemon and `once` apart: each replaces
  the state file by what it made of an older one.
* **Runner and discovery.** Every way the child process can end must map to the
  right result; a child must not be killed while it may still succeed; one that
  hangs must not hold up the cycle for ever; a failing source must not end the
  cycle nor take the hosts of another with it.
* **Configuration.** Settings merge from three or four places; whatever passes
  validation must give a command line that certinspect takes.

The individual hazards, each at its line, are listed in `PROJECT.json` under
`hazards` with the properties that cover them.

## 2. Modules

| Module | Role |
| --- | --- |
| `Models` | kinds, severities, targets, outcomes and events of `models.py`; which sets of problems a check can return |
| `StateStore` | the entries of the state file, `prune` and `last_cycle` of `state.py` |
| `Evaluator` | `evaluate` as operators on one record of arguments; `Coherent`, what must hold of an entry |
| `Notifiers` | the filters, and what a reader concludes from the events it gets |
| `Monitor` | the state machine of `run_once` and `run_loop`, with failures; extends the modules above |
| `AlarmPanel` | the abstract promise to the readers, which `Monitor` is shown to keep |
| `AtomicFile` | `atomic_write` with several writers and readers and a file system that can lose power |
| `DurableFile` | the abstract promise of `atomic.py`, which `AtomicFile` is shown to keep |
| `Config` | `config.py`: merging, validation, and the loaded configuration, as operators on parsed entries |
| `Certinspect` | the external program: which command lines it takes, how long it may run, what it answers |
| `Engine` | `engine.py` and the detectors of `evaluator.py` |
| `Discovery` | `discovery.py`, `resolve_discovered_targets` and `_all_targets` |
| `Inspection` | the state machine of the first half of a cycle: load, query, list, check in a thread pool; composes the four above |
| `Transport` | one send of each type of sink: which call may fail, and who has the batch by then |
| `SharedState` | several processes on one state file; composes `Evaluator`, `StateStore` and `Transport` |
| `MCMonitor`, `MCAtomicFile`, `MCInspection`, `MCSharedState` | constants and symmetry for TLC |
| `EvaluatorProofs`, `EngineProofs` | theorems and lemmas about the pure operators |
| `MonitorProofs`, `CycleProofs`, `ReaderProofs` | theorems about `Monitor`: types and bookkeeping; what a cycle does to the file; what the readers know. Each extends the one before |
| `InspectionProofs`, `AtomicFileProofs`, `SharedStateProofs` | theorems about the other state machines |

`Monitor` and `Inspection` meet in the outcomes: `Monitor` lets a check return
any member of `Outcomes`, and `TypeOK` of `Inspection` includes that every result
`check_target` can return, read by `detect_problems`, is one.

### 2.1 Evaluator, StateStore, Models, Notifiers

These have no variables. An evaluation takes a record `c` with the target, the
outcome of its check, the stored entry, the clock and the threshold (the
arguments of `evaluate` and the fields of `_Cycle`). `EventsOf(c)` is the set of
events and `StateOf(c)` the next entry. Both follow the two paths of the code:
`UnreachableEvents`/`UnreachableState` and `ReachableEvents`/`ReachableState`.

Data is abstracted to what the properties distinguish. Names and fingerprints
are model values. An alert key is its kind, because each entry belongs to one
target. A batch is a set: the order of events only affects layout. `notified`
maps a kind to a time or `None` (no entry), `pending` to a count (0: no entry).
A store is a total function; a name the file does not hold has `EmptyState`,
which is what `StateStore.get` returns.

`Read` is the external part: the reader of a sink opens the alerts the events
announce and closes those that recover; `Unreachable` replaces what was known of
the certificate, because the code then drops those alerts without recoveries.

### 2.2 Monitor

One behaviour is the life of one state file. A process starts, runs cycles and
ends; only one process runs at a time (several at once: `SharedState`).

| Action | Code |
| --- | --- |
| `Start`, `Stop` | `run_loop` is entered (`report_all = startup_report`); the process ends between cycles: `once` returned, or the daemon was interrupted in its sleep |
| `BeginCycle` | load the state file, or take it for empty when it cannot be read, `_all_targets` |
| `CheckTargets` | the pool returns all results; the clock is read |
| `EvaluateNext` | one turn of the loop over the results: `stored`, `evaluate`, `set`, `all_events` |
| `Deliver(s)` | `_deliver` calls sink `s`: taken, refused, or taken but reported as failed |
| `Persist` | the revert after a failed delivery, `prune` and `save`, and without metrics the return of the cycle |
| `ExportMetrics` | `write_prometheus` and the return of the cycle |
| `CheckFails`, `SaveFails`, `ExportFails` | an exception reaches `_safe_run_once`, which logs it; `report_all` stays |
| `Crash` | the process is killed inside a cycle |

The revert, the prune and the save are one step: nothing outside the process
can see what is between them, and the save itself is atomic by `AtomicFile`.
Sinks are called in any order, the code calls them in the order of the
configuration. A sink whose filters keep nothing is not called and cannot fail.
`digest` is `report_all`, `mem` the store in memory, `roster` the listed
targets, `todo` the positions not evaluated yet; `heard` is what each reader
believes; `streak` counts, as history, the completed cycles in a row in which a
kind was detected; `faults` counts faults so that TLC can bound them.

### 2.3 AtomicFile

One action per call of `atomic_write`: `Create` (mkstemp), `Write`, `Flush`,
`Chmod`, `Sync`, `Replace`; `Fail` is any of them raising and `Cleanup` the
`finally`. `Kill` ends a writer without its `finally`. The file system is the
external part: `cache` is what the running system shows of each file, `disk`
what is certain to be on the disk (set by fsync), `path` and `diskPath` what the
target name stands for in each. `WriteBackPath` may happen at any time, because
`atomic_write` does not sync the directory; `PowerLoss` replaces the running
system's view by the disk's. A reader opens the path and reads from the file it
opened, whatever is renamed meanwhile.

### 2.4 Inspection and the modules it composes

| Action | Code |
| --- | --- |
| `LoadConfig` | `load_config` accepts a document, `run_once` begins |
| `CheckCommand` | `certminder check` builds one target without validation |
| `Query(s)` | the query of one source ends, in any order, in one of the ways of `Discovery!Answers` |
| `ListTargets`, `DiscoveryFails` | the answers are collected: targets are created and de-duplicated, or an exception leaves `run_once` |
| `StartCheck(p)`, `NoChild(p)` | a free thread takes the next target: the child works or hangs, or cannot be started |
| `Finish(p)`, `Kill(p)` | `subprocess.run` returns, or raises because the limit is over |
| `Return` | all results are there (`Monitor` continues), or the cycle has failed |

An entry of the configuration is a function on the keys it sets, and
`Merged(defaults, raw)` is Python's `{**defaults, **raw}`. Texts are opaque, and
`None` stands for null and for what is not there, in `verify` for everything that
Python takes for false without being `False` (null, 0, the empty text): `load_config` tests `verify is False`,
`build_command` and `subprocess_timeout` test its truth. `Typed` and `TypedFile`
are no code: they say which documents are considered (part of
`InspectionAssumption`). A child takes no
time or as long as certinspect may with its options (`LongestRun`), and
`Outcome` compares that with `subprocess_timeout`.

`Certinspect` is external. Its contract is read off the code that uses it: the
exit codes from `engine.py`'s docstring, the fields from the detectors, the
refused combinations from `config.py`, the timings from `subprocess_timeout`'s
docstring. Where the code leaves it open the model does too: when several exit
codes apply any of them may come. The one number that matters is that days are
rounded down, so that the last day counts as 0 and an expired certificate has a
negative number. The time limit rests on the bound of 60 s for a download that
`engine.py` states; the model makes its comparison checkable, not the bound.

### 2.5 SharedState and Transport

`SharedState` is coarser than `Monitor`: a process loads the file, evaluates all
targets, sends, and saves, and between any two of these steps the other
processes take theirs or the process dies. The threshold is 1, there is no
digest, and all processes have the same configuration. `Transport` gives the
outcome of a send: `Calls` are the calls of each `_deliver`, one of them hands
the batch over, and an exception before it means nobody has the batch, one after
it means everybody has, one in it leaves it open. An email with several
recipients may reach some and still count as sent, because `send_message` raises
only when every recipient is refused. `silent` is bookkeeping: for each reader
and alert the time since which it is detected and unknown, renewed by each send.

## 3. Properties

Of `Monitor`:

* `AlertBookkeeping` – every entry of the state file is coherent: an unreachable
  target has no certificate alerts, active alerts are exactly those with a time,
  nothing is both pending and active, no count reaches the threshold, no time is
  in the future.
* `AlertsAnnounced`, `RecoveriesAnnounced`, `RotationsAnnounced` – the state file
  records a new alert, a cleared alert or a new fingerprint only when every sink
  took the event that says so.
* `InSync` – with a threshold of 1, no digest and one sink without filter, the
  reader believes exactly what the state file records, between any two cycles.
* `ImplementsPanel` – the views of the readers change only by taking over the
  current assessment of all targets as a whole.
* `KnownToEverySink` – a cycle that counts as delivered leaves no active alert
  its reader does not know of, also after a kill between delivery and save.
* `EventuallyTold`, `DigestPaid` – a lasting problem becomes known in the end; a
  startup digest is delivered in the end.
* `ActiveIffPersistent` – the active alerts are exactly the problems detected in
  the last `failure_threshold` completed cycles.
* `ExpectedNotTracked` – an expected kind is neither recorded nor sent.
* `ToldOnce`, `RenotifiedOnTime` – nothing is repeated before its interval or
  without a new problem beside it, and nothing active goes unrepeated longer.
* `RememberedWhileAbsent`, `ReportShowsLastCycle` – the retention of targets
  that discovery misses, and what `certminder report` shows.
* `ExportMirrorsState` – the problem series written after a cycle are exactly
  what the state file tracks of each target, plus the expected problems.

Of `AtomicFile`: `CrashSafe` (whole text and right mode, now and after a power
loss), `ReadsWhole`, `NothingLeftBehind`, `ImplementsDurableFile`.

Of `Inspection`:

* `RunnableTargets` – whatever defaults, groups, entries and sources are merged,
  the options of a target that is checked combine to a command line certinspect
  takes. The property names the one exception, `HalfVerified`: with `verify: null`
  or `verify: 0` and, say, a `cafile`, `load_config` sees no conflict,
  `build_command` passes both `--no-verify` and `--cafile`, and the target counts
  as unreachable for ever.
* `NeverKilledEarly` – only a child that hangs is killed.
* `NothingHidden`, `HeadlineIsAFault` – whichever exit code certinspect chose,
  exactly the faults it reports are detected, and the headline status names one.
* `NothingFoundIsMissed`, `FoundOnce` – every configured target and every host of
  a source that answered is listed, and a discovered name only once.
* `CycleEnds` – every cycle ends, also when as many children hang as the pool has
  threads.

Of `SharedState`: `FileCoherent`, and `SilenceBounded` – with `renotify_after`
set, a problem that every evaluation detects was last sent, or first detected,
less than that ago, for every reader ("so a persistent fault is never silent for
long", `src/README.md`). Without it a reader can lose an alert for good: to
another process that recorded it, to a refused recipient, to a retry.

## 4. Runs

| Run | Instance | What it shows |
| --- | --- | --- |
| `cron` | 2 targets, 1 sink, 2 fingerprints, refused deliveries, failing checks and exports, 2 faults | the reader and the state file agree; refinement of `AlarmPanel` |
| `lossy` | 1 target with 2 kinds, a pager and an unfiltered sink, kills, failing saves, refused and ambiguous deliveries, 2 faults | nothing is recorded that was not told; entries stay coherent |
| `daemon` | startup digest, a pager, kills and restarts, an unreadable state file, 2 faults, fairness | nothing stays untold |
| `dampened` | threshold 2, 3 kinds of which one is expected, kills and failing checks, saves, exports | what `failure_threshold` means; the exported series |
| `timed` | 2 targets of which one is discovered, clock up to 5 in steps of 1 or 2, renotify 2, retention 2, a refused delivery | times and retention |
| `atomic_file` | 2 writers, 1 reader, 2 texts, 4 files, 2 kills or power losses | the atomic writer |
| `inspection` | all pairs of settings with one default, 5 timings, all sets of nine kinds of faults, 2 sources with 2 hosts and a wildcard, 3 configured targets, 2 threads | the first half of a cycle |
| `shared` | 2 processes, 1 target, an email with 2 recipients, clock up to 2, `renotify_after` 2 | lost updates of the state file |

The instances are small because the code treats targets, kinds and sinks
independently of each other except where a batch or the state file joins them:
two targets show that a revert of one leaves the other alone, two kinds of
different severity that a new problem re-shows the set and that filters split a
batch, two sinks that one can fail alone. Two faults are enough for a failure
and a failure of its retry. A threshold of 2 is the smallest that has a flap
window. In `timed` the steps make "exactly the interval" and "one beyond" both
happen, for the renotification and for the retention. Where `Horizon` is 0 and
`Ticks` is {0} time plays no role in the properties checked and the clock stands
still; `TimeLeft` is then always true and the number of cycles is unbounded.
In `atomic_file` four files allow a current target, an older one on the disk,
and two files being written, or one being written and an older one held open.
In `inspection` two settings and a default are enough because every rule of the
validation and of `build_command` relates at most two keys, one of which may be
inherited; `Mixed` has more targets than threads, and two sources that share a
host. In `shared` the interval fits once into the clock's range: a problem falls
due, is sent again, and the other process undoes the new time; for longer
sequences there is `SilenceIsBounded`.

Four further runs check a sentence of the documentation that the code does not
keep (`findings` in `PROJECT.json`):

| Run | Sentence | What TLC shows |
| --- | --- | --- |
| `blip_forgets_alert` | a problem "is notified once and clears with its own RECOVERED"; a blip is dampened | with `failure_threshold` 2 one unreachable cycle silently drops active alerts, which then never recover, or are sent again |
| `expected_unreachable` | an expected problem "is not tracked as an active alert" | `expect: [unreachable]` is tracked, shown by `report`, and recovers with an event |
| `two_sinks_one_fails` | "Alerts are no longer lost when a notifier fails" | one sink took a recovery and another refused it, the problem comes back: the first reader is never told |
| `discovery_aborts` | "A source whose query fails is skipped ... rather than aborting the whole cycle" | an error that is not a `DiscoveryError` (a binary that may not be executed, an odd inventory) ends the cycle |

Two more limits follow from the design and have no run: the startup digest has no
previous fingerprint, so a rotation while the daemon was down is recorded
without an event; and reverting a target after a refused delivery brings back
pending counts that the cycle had reset.

These limits are why `InSync`, `RecoveriesAnnounced` and `RotationsAnnounced`
are checked with a threshold of 1 and without a digest, and `KnownToEverySink`
with one sink and no lost answers.

## 5. Fairness

`FairSpec` assumes that a stopped process is started again (cron, or a service
manager), and weak fairness of each step of the cycle, because the loop never
waits for anything but its own steps: a check has a timeout and so has every
send. `BeginCycle` has strong fairness, because the daemon may be stopped in its
sleep and then is not about to begin; without it a process that is stopped after
every start would count as monitoring. No fault is fair and their number is
bounded, which is what "eventually" needs: a sink that refuses for ever cannot
tell anybody anything. `EventuallyTold` speaks of a problem that every check
from some cycle on detects.

`Inspection` assumes weak fairness of each kind of step: a query and a child end
at the latest at the limit given to `subprocess.run`, and a thread of the pool
waits for nothing else. Which child ends or starts next is left open. Loading
another configuration is never required.

## 6. What is proved

All theorems hold for every value of the constants that satisfies the named
assumptions (`ModelsAssumption`, `EvaluatorAssumption`, `NotifiersAssumption`,
`MonitorAssumption`, `AtomicFileAssumption`, `TransportAssumption`,
`SharedStateAssumption`, `EngineAssumption`, `DiscoveryAssumption`,
`InspectionAssumption`), which TLC evaluates in the runs. Every invariant and
every action property that a run checks, and both refinements, are theorems.
Those of `Monitor` that are not true of every configuration have hypotheses; the
constants of the run that checks the property satisfy them.

### 6.1 Monitor: the file

* `TypeCorrect` – `TypeOK`.
* `EvaluationCoherent` – an evaluation maps a coherent entry that is not from the
  future to such an entry, for every outcome, threshold and interval, also when
  the threshold of the evaluation is below the one of the entry (the digest).
* `BookkeepingCorrect` – `AlertBookkeeping`. The property is about the file and
  not inductive: the file is written from memory, or from the entries kept for a
  revert. The invariant `Bookkept` says the same of all three; the evaluation
  step is `EvaluationCoherent`, the others copy entries, stamp them, drop them,
  or let the clock advance.
* `AnnouncementCorrect` – `AlertsAnnounced`, provided no two configured targets
  share a name (`NamesApart`). Its invariant `Accounted` describes the middle of
  a cycle: a target not evaluated yet is in memory as it is on file, the entry
  kept for every target with an event is the one on file, and every alert in
  memory that is not on file has its event in the batch or is accepted. The
  lemma `ListedApart` shows why names matter: positions of the list carry
  different names, so no evaluation overwrites the entry kept by another.
* `LedgerCorrect` – the invariant the theorems below share. `Rounds` says what
  the variables hold in each phase: what is evaluated is stamped, what is not is
  as it was loaded, and events belong to evaluated targets. `Ledger` says more
  of a target that is listed once: its entry, its events and the entry kept for
  a revert are those of one evaluation of the entry on file (`Entered`), and
  after a delivered save memory and file agree on every checked target.

From `Ledger` a save is known to write, for each checked target, one evaluation
of what was on file, or what was on file with a new stamp; each theorem adds the
facts about `Evaluator` it needs and, where the property speaks of several
cycles, an invariant of its own.

| Theorem | Property | Hypotheses | Own invariant |
| --- | --- | --- | --- |
| `ExportCorrect` | `ExportMirrorsState` | none | |
| `RetentionCorrect` | `RememberedWhileAbsent` | the file stays readable | |
| `RenotificationCorrect` | `RenotifiedOnTime` | `unreachable` is never expected | `Renewed`: in the middle of a cycle, every active alert of a target already evaluated was sent in this cycle or less than an interval ago |
| `ExpectationCorrect` | `ExpectedNotTracked` | distinct names, `unreachable` never expected | `Ignored`: what a configured target expects is not active on file, in memory or in what is kept for a revert, nor in the batch |
| `RotationCorrect` | `RotationsAnnounced` | distinct names, readable file, no digest | |
| `RecoveryCorrect` | `RecoveriesAnnounced` | the same, and a threshold of 1 | |
| `DampeningCorrect` | `ActiveIffPersistent` | distinct names, `unreachable` never expected, readable file, no digest, no refused delivery | `Counted`: the pending count of an entry is the number of completed cycles in a row that detected the problem, up to the threshold, where it is active |
| `ReportCorrect` | `ReportShowsLastCycle` | distinct names, `unreachable` never expected, a threshold of 1, a clock that advances between cycles | `Dated`: while a cycle runs everything on file is older |

Each hypothesis excludes something the code really does otherwise. An expected
`unreachable` is tracked all the same (the run `expected_unreachable`). Above a
threshold of 1 an unreachable cycle drops alerts in silence (the run
`blip_forgets_alert`). An unreadable file counts as empty, and the digest
evaluates everything as if it were new, so neither keeps a fingerprint, an alert
or a count. A refused delivery takes the counts back although the cycle did
detect the problem. With repeated names the second evaluation starts from the
result of the first.

### 6.2 Monitor: the readers

* `KnowledgeCorrect` – `KnownToEverySink` for one sink with any filter, any
  threshold, kills and unreadable files, provided its answers are truthful, saves
  do not fail, and there is a digest if the process can be killed: a kill between
  delivery and save leaves the file behind its reader, and only the digest
  repairs that (`TruthfulDelivery`; it also excludes repeated names, targets only
  discovery knows, and an expected `unreachable`). The invariant `Known` follows who is covered
  when: the file between cycles unless a digest is owed, the store in memory once
  the sink took the batch. With two sinks the property is false (the run
  `two_sinks_one_fails`).
* `SyncCorrect`, `RepetitionCorrect` – `InSync` and `ToldOnce` for one unfiltered
  sink that may refuse, a threshold of 1 and no digest (`PlainDelivery`). The
  invariant `Synced` gives the reader's view in every phase: that of the store in
  memory between the delivery and the save, that of the file otherwise. Targets
  that only discovery knows are excluded from `SyncCorrect` (`AllConfigured`):
  their entries lapse, and readers are not told.
* `PanelRefinement` – under the same hypotheses `Monitor` implements
  `AlarmPanel`. `Picture` is the assessment as `Monitor` maps it: what the results
  at hand detect while a batch is made and delivered, the active alerts of the
  file otherwise. A delivery that is taken is an `Announce`, a step that changes
  `Picture` an `Assess`. Only a delivery changes a reader's view, and it leaves
  the old view or the assessment as a whole (`DeliverAnnounces`, from `Synced`
  and `Ledger`).

### 6.3 Inspection

* `InspectionInvariant` – the invariant `IInv` of the first half of a cycle:
  `Stage` (which of configuration, answers and targets exist in which phase, and
  that a loaded configuration `Fits`), `Pool` (every listed target has a command
  line that runs, and no more children run than there are threads) and
  `Right(last)` (what the latest check shows). The theorems below are read off it.
* `RunnableCorrect`, `InspectionTypeCorrect` – `RunnableTargets` and `TypeOK`.
  From `Valid(doc)` to `Fits(Loaded(doc))` (`LoadedFits`): whatever merges from
  the defaults, a group, an entry and a source passes the validation as a whole,
  and a target whose merged settings are valid has a consistent command line,
  unless it is `HalfVerified` (`AdmittedRuns`, `CommandTaken`). The targets of `certminder check`, which are
  not validated, have too few settings to go wrong (`CommandLineRuns`).
* `HealthyNeverKilled` – `NeverKilledEarly`, from `LimitCoversLongestRun`: for
  every target, the limit is no shorter than the longest run of certinspect with
  the options of the command, the defaults for those left out included.
* `NothingHiddenCorrect`, `HeadlineCorrect` – `NothingHidden` and
  `HeadlineIsAFault` for every set of faults, exit code and document: each word
  and field of a document shows one fault (`DocumentSays`, `AnswerDetected`), and
  each exit code, with the date-based cause (`CauseOfDates`), names one of them.
* `NothingMissedCorrect`, `FoundOnceCorrect` – `NothingFoundIsMissed` and
  `FoundOnce` for lists of any length, from `AllTargetsLists`. `FlattenSeq` is a
  fold, so what it contains takes an induction; since the library's induction
  theorems cannot be instantiated here, `LeastOf` derives from the
  well-foundedness of `<` that every nonempty set of numbers has a least element,
  and the least position at which a claim fails gives the contradiction
  (`JoinExists`, `FlattenElements`). `Ranking` says that choosing the elements of
  a finite set of positions by how many are below enumerates them in order.

`TypedFile` is assumed of the documents: lists where lists are expected and
numbers for the timings. The code does not check these types, so the theorems
say nothing of a document with, for instance, `timeout: null`, see section 7. `Hosts` is finite, so that an inventory can be listed.

### 6.4 AtomicFile and SharedState

* `FileTypeCorrect`, `CrashSafety`, `ReadingWhole` – of `AtomicFile`, from the
  invariant `Safe`: temporary files are private to one writer (`Apart`), what
  each writer has established so far about its file (`Prepared`), and what
  everybody else can reach is whole (`Published`).
* `TidyCorrect` – `NothingLeftBehind`: until a writer is killed, the temporary files
  are exactly those of the calls under way.
* `FileRefinement` – `AtomicFile` implements `DurableFile`: `Replace` is a
  `Save`, `WriteBackPath` a `Settle`, `PowerLoss` a `LosePower`, all other steps
  do not show.
* `SharedFileCoherent`, `SharedTypeCorrect` – `FileCoherent` and `TypeOK` for any
  number of processes. The invariant `AllCoherent` says that the store of every
  process, from loading to saving, is coherent and not later than that process's
  reading of the clock; the step of an evaluation is `EvaluationCoherent` again.
* `SilenceIsBounded` – `SilenceBounded` for any number of processes, targets,
  sinks and readers, provided `renotify_after` is positive. The invariant
  `SilenceCovers` says that no store anywhere, on disk or in a process, has a
  time for an alert that is later than the beginning of a reader's silence about
  it. Hence no process can take the alert for sent more recently than it was,
  and sends it again when the interval is over (`QuietWhenRecent`); a save that
  undoes another one only moves the recorded times back.

### 6.5 What is only model-checked

The liveness properties `EventuallyTold`, `DigestPaid` and `CycleEnds`: the
prover handles neither fairness nor `ENABLED`. Beyond the hypotheses of 6.1 and
6.2 the same properties are checked on the runs' instances only where they hold
(section 4); where they do not, the violating runs show why.

## 7. What is not modelled, and the plan

Not modelled on purpose: YAML, environment interpolation and the text of
durations (sequential text processing without state) and with them wrongly typed
values, except for `verify` (the text `0s` is not told from `0` in
`renotify_after` either). In particular `timeout: null` passes `load_config`
and raises a `TypeError` in `subprocess_timeout`, which fails the whole cycle in
`Monitor`'s `CheckFails`, or is passed on as `--timeout None` if the connect and
read timeouts are set. Not modelled either: the conversion of entries to and from
JSON, including entries of older versions; the constructors of the notifiers;
the text of messages, metrics and reports; SMTP, HTTP and certinspect beyond
what the code relies on; argument parsing and exit codes of the command line.

Modelled without a property: an analysed exit code whose output cannot be parsed
counts as a certificate without problems (`garbled` in `Inspection`), so active
alerts are sent as recovered. The repository says nothing of what it wants here.

Planned next, in this order:

1. A run for repeated configured names, which `NamesApart` excludes, and for a
   clock that steps back.
2. `KnownToEverySink` and `InSync` under weaker hypotheses: targets that only
   discovery knows, and failing saves.
3. The properties of one evaluation as theorems about `Evaluator` of their own,
   where they now are lemmas of `CycleProofs`.

## 8. Running the checks

    tlc -config MonitorCron.cfg MCMonitor.tla      (likewise the other .cfg files)
    tlc -config AtomicFile.cfg MCAtomicFile.tla
    tlc -config Inspection.cfg MCInspection.tla    (likewise DiscoveryAborts.cfg)
    tlc -config SharedState.cfg MCSharedState.tla
    tlapm EvaluatorProofs.tla                      (likewise the other *Proofs.tla)

The definitions marked "faulty variant" are used by nothing: each is a plausible
mistake in the code, and the mutant list of `PROJECT.json` names the property
that finds it.
