---------------------------- MODULE DurableFile -----------------------------
(***************************************************************************)
(* What atomic.py promises of a file: it changes from one whole content to *)
(* another in a single step, and losing power brings back an earlier whole *)
(* content, never a mixture and never an empty file.                       *)
(***************************************************************************)
CONSTANTS
    Contents,   \* what may be saved
    NoFile      \* the file does not exist

VARIABLES
    file,       \* what a reader finds
    fallback    \* what a reader would find after losing power now

Init == file = NoFile /\ fallback = NoFile

Save ==
    /\ file' \in Contents
    /\ UNCHANGED fallback

(* The system gets around to making the latest content permanent. *)
Settle ==
    /\ fallback' = file
    /\ UNCHANGED file

LosePower ==
    /\ file' = fallback
    /\ UNCHANGED fallback

Next == Save \/ Settle \/ LosePower

Spec == Init /\ [][Next]_<<file, fallback>>
=============================================================================
