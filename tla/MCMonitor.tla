----------------------------- MODULE MCMonitor ------------------------------
(***************************************************************************)
(* Small instances of Monitor for TLC: what a .cfg file cannot write.      *)
(***************************************************************************)
EXTENDS Monitor

CONSTANTS t1, t2, s1, s2, f1, f2

Target(n, expected) == [name |-> n, expect |-> expected]

OneTarget     == <<Target(t1, {})>>
TwoTargets    == <<Target(t1, {}), Target(t2, {})>>
NothingFound  == {<<>>}

Expecting(k) == <<Target(t1, {k})>>
ExpectsWeak  == Expecting("weak_crypto")
ExpectsDown  == Expecting("unreachable")

(* Discovery fails or finds nothing, finds t2, or lists names twice. *)
FoundOrNot == {<<>>, <<Target(t2, {})>>,
               <<Target(t1, {}), Target(t2, {}), Target(t2, {})>>}

(* A pager: critical problems and what clears them. *)
PagerKinds == [s \in Sinks |-> (CriticalKinds \cap Kinds) \cup {Unreachable, Recovered}]

(* That pager, and a chat channel that takes everything. *)
PagerAndChat == [PagerKinds EXCEPT ![s2] = EventKinds]

(* Every sink takes everything. *)
Unfiltered == [s \in Sinks |-> 0]
AllKinds   == [s \in Sinks |-> EventKinds]
=============================================================================
