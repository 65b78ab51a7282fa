--------------------------- MODULE MCSharedState ----------------------------
(***************************************************************************)
(* A small instance of SharedState for TLC.                                *)
(***************************************************************************)
EXTENDS SharedState, TLC

CONSTANTS daemon, once, t1, mail, a, b, f1

OneWatched  == {[name |-> t1, expect |-> {}]}
MailOnly    == [s \in Sinks |-> "email"]
AllRead     == [r \in Readers |-> mail]
Unfiltered  == [s \in Sinks |-> 0]
AllKinds    == [s \in Sinks |-> EventKinds]
Symmetric   == Permutations(Procs)
=============================================================================
