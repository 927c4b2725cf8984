----------------------------- MODULE FirmwareLife -----------------------------
(***************************************************************************)
(* What rollback promises about the firmware a device runs: a new image    *)
(* runs on trial until somebody vouches for it, nothing is installed while *)
(* it does, and the image a device goes back to is one that was vouched    *)
(* for and not rejected since.                                             *)
(***************************************************************************)
CONSTANT Partitions

VARIABLES
    running,   \* the partition the device runs from
    onTrial,   \* whether its image is on trial
    proven     \* partitions whose image somebody vouched for

vars == <<running, onTrial, proven>>

Init ==
    /\ running \in Partitions
    /\ onTrial = FALSE
    /\ proven = {running}

Overwrite ==
    /\ ~onTrial
    /\ \E p \in Partitions \ {running} : proven' = proven \ {p}
    /\ UNCHANGED <<running, onTrial>>

Install ==
    /\ ~onTrial
    /\ running' \in Partitions \ (proven \cup {running})
    /\ onTrial' = TRUE
    /\ UNCHANGED proven

Vouch ==
    /\ onTrial
    /\ proven' = proven \cup {running}
    /\ UNCHANGED <<running, onTrial>>

Confirm ==
    /\ onTrial
    /\ running \in proven
    /\ onTrial' = FALSE
    /\ UNCHANGED <<running, proven>>

GoBack ==
    /\ running' \in proven \ {running}
    /\ onTrial' = FALSE
    /\ proven' = proven \ {running}

Next == Overwrite \/ Install \/ Vouch \/ Confirm \/ GoBack

Spec == Init /\ [][Next]_vars
=============================================================================
