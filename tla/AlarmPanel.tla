----------------------------- MODULE AlarmPanel -----------------------------
(***************************************************************************)
(* What certminder promises the readers of its sinks: each has a panel that *)
(* shows, for every target, the alerts of one assessment of all targets,    *)
(* and changes only by taking over the current assessment as a whole.       *)
(***************************************************************************)
CONSTANTS Names, AlertKinds, Sinks

VARIABLES
    assessment,   \* what the last look at the targets found, per target
    panel         \* what the reader of each sink is shown, per target

Pictures == [Names -> SUBSET AlertKinds]

Init ==
    /\ assessment \in Pictures
    /\ panel = [s \in Sinks |-> [n \in Names |-> {}]]

(* The targets are looked at again, or a picture that could not be sent is  *)
(* given up.                                                                *)
Assess ==
    /\ assessment' \in Pictures
    /\ UNCHANGED panel

(* The reader of sink s is told everything that changed. *)
Announce(s) ==
    /\ panel' = [panel EXCEPT ![s] = assessment]
    /\ UNCHANGED assessment

Next == Assess \/ \E s \in Sinks : Announce(s)

Spec == Init /\ [][Next]_<<assessment, panel>>
=============================================================================
