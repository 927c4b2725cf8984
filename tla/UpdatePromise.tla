---------------------------- MODULE UpdatePromise ----------------------------
(***************************************************************************)
(* What ota_api_update() promises about the boot partition, whatever       *)
(* happens inside: updates never overlap, each one is decided once - it    *)
(* commits the boot partition or it is refused - and nothing but a commit  *)
(* moves the boot partition, never to the partition that is running.  A    *)
(* reset at any moment ends every update, the undecided ones included.      *)
(***************************************************************************)
CONSTANTS Tasks, Partitions

VARIABLES
    phase,     \* per task: out of an update, or how far its update is decided
    running,   \* the partition the device runs from
    boot       \* the partition it is to boot

Phases == {"out", "open", "committed", "refused"}

Init ==
    /\ phase = [t \in Tasks |-> "out"]
    /\ running \in Partitions
    /\ boot = running

Begin(t) ==
    /\ \A u \in Tasks : phase[u] = "out"
    /\ phase' = [phase EXCEPT ![t] = "open"]
    /\ UNCHANGED <<running, boot>>

Commit(t) ==
    /\ phase[t] = "open"
    /\ phase' = [phase EXCEPT ![t] = "committed"]
    /\ boot' \in Partitions \ {running}
    /\ UNCHANGED running

Refuse(t) ==
    /\ phase[t] = "open"
    /\ phase' = [phase EXCEPT ![t] = "refused"]
    /\ UNCHANGED <<running, boot>>

End(t) ==
    /\ phase[t] \in {"committed", "refused"}
    /\ phase' = [phase EXCEPT ![t] = "out"]
    /\ UNCHANGED <<running, boot>>

Reset ==
    /\ phase' = [t \in Tasks |-> "out"]
    /\ running' \in Partitions
    /\ UNCHANGED boot

Next ==
    \/ \E t \in Tasks : Begin(t) \/ Commit(t) \/ Refuse(t) \/ End(t)
    \/ Reset

Spec == Init /\ [][Next]_<<phase, running, boot>>
=============================================================================
