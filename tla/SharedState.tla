---------------------------- MODULE SharedState -----------------------------
(***************************************************************************)
(* Several certminder processes on one state file: a daemon and `once` from*)
(* cron or from a terminal.  Nothing keeps them apart: each loads the file *)
(* when its cycle begins and replaces it when the cycle ends, so the later *)
(* save undoes the other one.                                              *)
(*                                                                         *)
(* The steps are coarser than Monitor's, one process at a time being its   *)
(* subject: loading; checking and evaluating all targets, with one reading *)
(* of the clock; sending to all sinks; saving.  All processes have the same*)
(* configuration, with a threshold of 1 and no digest.                     *)
(***************************************************************************)
EXTENDS Evaluator, Transport

CONSTANTS
    Procs,      \* the processes
    Watched,    \* the targets of the configuration
    Observed,   \* the readers whose knowledge is followed
    Retention,  \* STATE_RETENTION_SECONDS, scaled
    Horizon     \* bound on the clock

ASSUME SharedStateAssumption ==
    /\ Watched \subseteq Targets
    /\ \A t, u \in Watched : t.name = u.name => t = u
    /\ Observed \subseteq Readers
    /\ Retention \in Nat
    /\ Horizon \in Nat

VARIABLES
    cycle,    \* per process, the cycle it is in
    now,      \* the wall clock
    disk,     \* the state file
    heard,    \* per reader and target, the alerts believed active
    silent    \* bookkeeping, see Silence

vars == <<cycle, now, disk, heard, silent>>

(* A cycle: how far it is; its store, as loaded and, once the batch is sent,*)
(* as it will be saved; what the checks returned; its reading of the clock. *)
NoCycle == [step |-> "idle", store |-> EmptyStore, found |-> <<>>, at |-> 0]

Evaluation(c, t) ==
    [target |-> t, outcome |-> c.found[t], previous |-> c.store[t.name],
     now |-> c.at, threshold |-> 1]

Batch(c) == UNION {EventsOf(Evaluation(c, t)) : t \in Watched}

(* What the evaluations show of target n, and the expected kinds apart. *)
Detected(c, n) ==
    UNION {IF c.found[t].reachable THEN Problems(Evaluation(c, t))
           ELSE {Unreachable} \ t.expect : t \in {u \in Watched : u.name = n}}

(* run_once between the delivery and the save. *)
ToSave(c, delivered) ==
    LET evaluated ==
            [n \in Names |->
                IF \E t \in Watched : t.name = n
                THEN LET t == CHOOSE u \in Watched : u.name = n
                     IN  IF ~delivered /\ \E e \in Batch(c) : e.target = n
                         THEN Seen(c.store[n], c.at)
                         ELSE Seen(StateOf(Evaluation(c, t)), c.at)
                ELSE c.store[n]]
    IN  Prune(evaluated, c.at, Retention)

(* For each reader and alert: when it was last sent, or else first detected,*)
(* while every evaluation detects it and the reader does not know of it.    *)
Silence(c, heardNow) ==
    LET batch == Batch(c)
    IN  [r \in Observed |-> [n \in Names |-> [k \in AlertKinds |->
            IF k \notin Detected(c, n) \/ k \in heardNow[r][n] THEN None
            ELSE IF Problem(n, k) \in batch \/ silent[r][n][k] = None THEN now
            ELSE silent[r][n][k]]]]

-----------------------------------------------------------------------------
Init ==
    /\ cycle = [p \in Procs |-> NoCycle]
    /\ now = 0
    /\ disk = EmptyStore
    /\ heard = [r \in Observed |-> [n \in Names |-> {}]]
    /\ silent = [r \in Observed |-> [n \in Names |-> NoTimes]]

Tick ==
    /\ now < Horizon
    /\ now' = now + 1
    /\ UNCHANGED <<cycle, disk, heard, silent>>

Load(p) ==
    /\ cycle[p].step = "idle"
    /\ cycle' = [cycle EXCEPT ![p] = [NoCycle EXCEPT !.step = "loaded", !.store = disk]]
    /\ UNCHANGED <<now, disk, heard, silent>>

Evaluate(p) ==
    /\ cycle[p].step = "loaded"
    /\ \E found \in [Watched -> Outcomes] :
          cycle' = [cycle EXCEPT ![p].step = "evaluated", ![p].found = found, ![p].at = now]
    /\ UNCHANGED <<now, disk, heard, silent>>

(* _deliver: each sink takes the part of the batch its filters keep, and    *)
(* hands it to its readers; nothing kept cannot fail.                       *)
Deliver(p) ==
    /\ cycle[p].step = "evaluated"
    /\ LET batch == Batch(cycle[p])
       IN  \E how \in [Sinks -> UNION {SendsOf(s, batch) : s \in Sinks}] :
              /\ \A s \in Sinks : how[s] \in SendsOf(s, batch)
              /\ cycle' = [cycle EXCEPT ![p].step = "delivered",
                              ![p].found = <<>>,
                              ![p].store = ToSave(cycle[p], \A s \in Sinks : how[s].returned)]
              /\ heard' = [r \in Observed |-> [n \in Names |->
                              IF r \in how[SinkOf[r]].got
                              THEN Read(heard[r][n], n, Kept(SinkOf[r], batch))
                              ELSE heard[r][n]]]
    /\ silent' = Silence(cycle[p], heard')
    /\ UNCHANGED <<now, disk>>

Save(p) ==
    /\ cycle[p].step = "delivered"
    /\ disk' = cycle[p].store
    /\ cycle' = [cycle EXCEPT ![p] = NoCycle]
    /\ UNCHANGED <<now, heard, silent>>

(* The process is killed, or the save raises. *)
Abandon(p) ==
    /\ cycle[p].step # "idle"
    /\ cycle' = [cycle EXCEPT ![p] = NoCycle]
    /\ UNCHANGED <<now, disk, heard, silent>>

Next ==
    \/ Tick
    \/ \E p \in Procs : Load(p) \/ Evaluate(p) \/ Deliver(p) \/ Save(p) \/ Abandon(p)

Spec == Init /\ [][Next]_vars

-----------------------------------------------------------------------------
(* Every variable has its type. *)
TypeOK ==
    /\ \A p \in Procs :
          /\ cycle[p].step \in {"idle", "loaded", "evaluated", "delivered"}
          /\ cycle[p].store \in Stores
          /\ cycle[p].step = "evaluated" =>
                cycle[p].found \in [Watched -> Outcomes] /\ Batch(cycle[p]) \subseteq Events
          /\ cycle[p].at \in 0..now
    /\ now \in 0..Horizon
    /\ disk \in Stores
    /\ heard \in [Observed -> [Names -> SUBSET AlertKinds]]
    /\ silent \in [Observed -> [Names -> [AlertKinds -> Nat \cup {None}]]]

(* Whatever the processes undo of each other, the file holds entries that   *)
(* are coherent (evaluate, and the revert and the save of run_once).        *)
FileCoherent == \A n \in Names : Coherent(disk[n], 1)

(* With renotify_after set, a problem that every process keeps detecting is *)
(* never silent for long: whether its reader lost it to another process, to *)
(* a lost answer or to a refused recipient, it was last sent, or first      *)
(* detected, less than renotify_after ago ("so a persistent fault is never  *)
(* silent for long", README).                                               *)
SilenceBounded ==
    \A p \in Procs :
        cycle[p].step = "delivered" =>
            \A r \in Observed, n \in Names : \A k \in Carried(SinkOf[r]) :
                silent[r][n][k] # None => cycle[p].at - silent[r][n][k] < RenotifyAfter
=============================================================================
