--------------------------- MODULE CallbackContract ---------------------------
(***************************************************************************)
(* What one event_cb can rely on (ota-api.h, ota_api_event_cb_t): the      *)
(* events of an update come in the order STARTED, IMAGE_DESC, PROGRESS...  *)
(* and end with one SUCCEEDED or FAILED, after which nothing more is heard *)
(* of that update; once the callback has answered anything but ESP_OK the  *)
(* only event left is FAILED.                                              *)
(***************************************************************************)
CONSTANT Tasks

VARIABLES
    heard,     \* per task: the last event of its current update, or "none"
    verdict    \* per task: what the callback answered in it

Outcomes == {"SUCCEEDED", "FAILED"}

MayFollow(e) ==
    CASE e = "none"       -> {"STARTED", "FAILED"}
      [] e = "STARTED"    -> {"IMAGE_DESC", "FAILED"}
      [] e = "IMAGE_DESC" -> {"PROGRESS"} \cup Outcomes
      [] e = "PROGRESS"   -> {"PROGRESS"} \cup Outcomes
      [] OTHER            -> {}

Init ==
    /\ heard = [t \in Tasks |-> "none"]
    /\ verdict = [t \in Tasks |-> "OK"]

Ask(t) ==
    /\ verdict[t] = "OK"
    /\ \E e \in MayFollow(heard[t]) \ Outcomes :
         heard' = [heard EXCEPT ![t] = e]
    /\ \E v \in {"OK", "VETO"} : verdict' = [verdict EXCEPT ![t] = v]

Tell(t) ==
    /\ \E e \in MayFollow(heard[t]) \cap Outcomes :
         /\ verdict[t] = "VETO" => e = "FAILED"
         /\ heard' = [heard EXCEPT ![t] = e]
    /\ verdict' = [verdict EXCEPT ![t] = "OK"]

NewUpdate(t) ==
    /\ heard[t] \in Outcomes
    /\ heard' = [heard EXCEPT ![t] = "none"]
    /\ UNCHANGED verdict

Reset ==
    /\ heard' = [t \in Tasks |-> "none"]
    /\ verdict' = [t \in Tasks |-> "OK"]

Next ==
    \/ \E t \in Tasks : Ask(t) \/ Tell(t) \/ NewUpdate(t)
    \/ Reset

Spec == Init /\ [][Next]_<<heard, verdict>>
=============================================================================
