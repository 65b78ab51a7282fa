----------------------------- MODULE Discovery ------------------------------
(***************************************************************************)
(* discovery.py, and resolve_discovered_targets and _all_targets of        *)
(* scheduler.py: how the answers of the certificate logs become the list   *)
(* of targets of one cycle.  Pure.                                         *)
(*                                                                         *)
(* A query ends in one of the ways below, or with an inventory: a set of   *)
(* certificates, each the set of names it is for.                          *)
(***************************************************************************)
EXTENDS Config

CONSTANTS
    Hosts,       \* names a host can have
    OtherNames,  \* wildcards, and names that are not valid host names
    Records      \* the certificates that may be logged, as sets of names

ASSUME DiscoveryAssumption ==
    /\ Hosts \cap OtherNames = {}
    /\ Records \subseteq SUBSET (Hosts \cup OtherNames)

Inventories == SUBSET Records

(* discover_hostnames raises DiscoveryError, which _resolve_one_source      *)
(* catches ...                                                              *)
Skipped == {"missing", "timed out", "exit code", "unparsable", "not a list"}

(* ... but not the OSError of a program that may not be run, nor the        *)
(* AttributeError of an inventory with a record that is not a mapping.      *)
Raising == {"not permitted", "odd record"}

Failures == Skipped \cup Raising
Answers  == [failure : Failures] \cup [inventory : Inventories]

Failed(answer) == "failure" \in DOMAIN answer
Raises(answer) == Failed(answer) /\ answer.failure \in Raising

(* _extract_hostnames: a list of the concrete names, each once.  The code   *)
(* sorts them; any fixed order will do.                                     *)
Hostnames(inventory) == SetToSeq((UNION inventory) \cap Hosts)

(* The targets of one source; a failed query contributes none. *)
FoundBy(source, answer) ==
    IF Failed(answer) THEN <<>>
    ELSE [i \in DOMAIN Hostnames(answer.inventory) |->
            Target([host |-> Hostnames(answer.inventory)[i]], source.settings)]

(* Faulty variant: the loop over the sources ends at the first failure. *)
FoundUntilFailure(sources, answers) ==
    FlattenSeq([s \in DOMAIN sources |->
        IF \E r \in 1..s : Failed(answers[r]) THEN <<>>
        ELSE FoundBy(sources[s], answers[s])])

Found(sources, answers) ==
    FlattenSeq([s \in DOMAIN sources |-> FoundBy(sources[s], answers[s])])

(* Faulty variant: a name found twice is not remembered. *)
AllTargetsRepeating(targets, found) ==
    targets \o SelectSeq(found, LAMBDA t :
        NameOf(t) \notin {NameOf(targets[i]) : i \in DOMAIN targets})

(* _all_targets: the configured ones, then each name found that is not      *)
(* listed yet.                                                              *)
AllTargets(targets, found) ==
    LET both  == targets \o found
        First(p) == \A q \in 1..(p - 1) : NameOf(both[q]) # NameOf(both[p])
        kept  == {p \in DOMAIN both : p <= Len(targets) \/ First(p)}
    IN  [i \in 1..Cardinality(kept) |->
            both[CHOOSE p \in kept : Cardinality({q \in kept : q < p}) = i - 1]]
=============================================================================
