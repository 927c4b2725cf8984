---------------------------- MODULE UpdateRequest ----------------------------
(***************************************************************************)
(* What the application around the component promises about the requests   *)
(* to update: they are served one at a time, none is taken while another   *)
(* is on its way, being served, or waits for the restart after a success,  *)
(* and what is asked for stays the same from beginning to end.             *)
(***************************************************************************)
CONSTANTS
    Requests,   \* what can be asked for
    None        \* no request

VARIABLES
    stage,      \* how far the request is
    request     \* what it asks for

vars == <<stage, request>>

Init == stage = "idle" /\ request = None

Ask ==
    /\ stage = "idle"
    /\ stage' = "requested"
    /\ request' \in Requests

(* The request is served. *)
Begin ==
    /\ stage = "requested"
    /\ stage' = "updating"
    /\ UNCHANGED request

Succeed ==
    /\ stage = "updating"
    /\ stage' = "restarting"
    /\ UNCHANGED request

(* No task could be had for it, its update failed, or the device restarted,
   after a success or out of the blue. *)
Close ==
    /\ stage # "idle"
    /\ stage' = "idle"
    /\ request' = None

Next == Ask \/ Begin \/ Succeed \/ Close

Spec == Init /\ [][Next]_vars
=============================================================================
