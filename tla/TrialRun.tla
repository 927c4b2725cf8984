------------------------------- MODULE TrialRun -------------------------------
(***************************************************************************)
(* The trial run of a freshly booted image (src/src/ota-api-trial.c) in a  *)
(* build with CONFIG_BOOTLOADER_APP_ROLLBACK_ENABLE: application tasks     *)
(* call ota_api_trial_begin(), _confirm() and _reject() in any order and   *)
(* at the same time, and the esp_timer task runs trial_timeout().  No lock *)
(* guards any of it, so every function is cut at each access to the        *)
(* partition state or to s_trial_timer.                                    *)
(*                                                                         *)
(* External, modelled from how the component uses them: esp_timer, the     *)
(* otadata state the IDF keeps per partition, the bootloader's rollback,   *)
(* and the update that brought the image.                                  *)
(***************************************************************************)
EXTENDS Integers

CONSTANTS
    Tasks,        \* application tasks that call the trial functions
    NumSlots,     \* OTA partitions in the partition table
    HasFactory    \* whether the table has a factory partition too

ASSUME NumSlotsAssumption   == NumSlots \in Nat /\ NumSlots >= 2
ASSUME HasFactoryAssumption == HasFactory \in BOOLEAN

Factory      == -1
OtaSlots     == 0 .. NumSlots - 1
Partitions   == OtaSlots \cup (IF HasFactory THEN {Factory} ELSE {})
FirstFlashed == IF HasFactory THEN Factory ELSE 0

NextSlot(p) == IF p = NumSlots - 1 THEN 0 ELSE p + 1

(* Timers are numbered as esp_timer_create() hands them out.  NULL is the
   initial s_trial_timer.  Only a task that found NULL creates one, so there
   are never more than tasks. *)
NULL   == 0
Timers == Nat \ {NULL}

VARIABLES
    \* flash: the partition that runs, and the state of each one's image -
    \* "bad" stands for INVALID, ABORTED and for no image at all, "valid" for
    \* VALID, for UNDEFINED and for the factory image
    running, ota_state,
    \* the component's only static, and the timers behind it
    s_trial_timer, created, armed,
    \* where each task, and the esp_timer task, is in the component
    pc, timer_pc,
    \* history of this boot: how the running image was confirmed; it was so
    \* while trial_timeout() stood between its check and its rollback; it
    \* failed after it had stopped the timer; the timeout's rollback came
    \* back; and what the boot came from
    confirmed, lateConfirm, confirmFailed, rollbackFailed, bootCause

flashVars == <<running, ota_state>>
timerVars == <<s_trial_timer, created, armed>>
histVars  == <<confirmed, lateConfirm, confirmFailed, rollbackFailed, bootCause>>
vars == <<running, ota_state, s_trial_timer, created, armed, pc, timer_pc,
          confirmed, lateConfirm, confirmFailed, rollbackFailed, bootCause>>

TaskPcs  == {"idle", "arming", "creating", "starting", "stopping", "marking"}
TimerPcs == {"idle", "expired", "rollback"}
States   == {"valid", "pending", "bad"}

(* ota_api_is_on_trial() *)
OnTrial == ota_state[running] = "pending"

WaysBack == {p \in Partitions \ {running} : ota_state[p] = "valid"}

(* All RAM is gone; what is left of the last boot is why it ended. *)
FreshBoot(cause) ==
    /\ s_trial_timer' = NULL
    /\ created' = 0
    /\ armed' = {}
    /\ pc' = [t \in Tasks |-> "idle"]
    /\ timer_pc' = "idle"
    /\ confirmed' = "no"
    /\ lateConfirm' = FALSE
    /\ confirmFailed' = FALSE
    /\ rollbackFailed' = FALSE
    /\ bootCause' = cause

Init ==
    /\ running = FirstFlashed
    /\ ota_state = [p \in Partitions |->
                      IF p = FirstFlashed THEN "valid" ELSE "bad"]
    /\ s_trial_timer = NULL
    /\ created = 0
    /\ armed = {}
    /\ pc = [t \in Tasks |-> "idle"]
    /\ timer_pc = "idle"
    /\ confirmed = "no"
    /\ lateConfirm = FALSE
    /\ confirmFailed = FALSE
    /\ rollbackFailed = FALSE
    /\ bootCause = "reset"

-----------------------------------------------------------------------------
(* The device around the component. *)

(* Mutant: a second update is let in while the image is on trial. *)
UpdateDuringTrial ==
    /\ running' = NextSlot(running)
    /\ ota_state' = [ota_state EXCEPT ![NextSlot(running)] = "pending"]
    /\ FreshBoot("update")

(* An update of a proven image writes the next slot and restarts into it
   (ota_task()); the bootloader puts the new image on trial.  While an image
   is on trial esp_ota_begin() refuses. *)
UpdateAndRestart ==
    /\ ~OnTrial
    /\ running' = NextSlot(running)
    /\ ota_state' = [ota_state EXCEPT ![NextSlot(running)] = "pending"]
    /\ FreshBoot("update")

(* The same update failing half-way costs the image that was there before. *)
FailedUpdate ==
    /\ ~OnTrial
    /\ ota_state' = [ota_state EXCEPT ![NextSlot(running)] = "bad"]
    /\ UNCHANGED <<running, timerVars, pc, timer_pc, histVars>>

(* The device leaves the running image for good and boots a valid one. *)
GoBack(cause) ==
    /\ running' \in WaysBack
    /\ ota_state' = [ota_state EXCEPT ![running] = "bad"]
    /\ FreshBoot(cause)

(* Power cut, panic or restart: an image still on trial is not started
   again. *)
Reset ==
    \/ OnTrial /\ GoBack("reset")
    \/ ~OnTrial /\ UNCHANGED flashVars /\ FreshBoot("reset")

-----------------------------------------------------------------------------
(* The application's tasks. *)

Goto(t, label) == pc' = [pc EXCEPT ![t] = label]

(* ota_api_trial_begin(): without a trial it answers ESP_ERR_INVALID_STATE
   and changes nothing. *)
TrialBegin(t) ==
    /\ pc[t] = "idle"
    /\ OnTrial
    /\ Goto(t, "arming")
    /\ UNCHANGED <<flashVars, timerVars, timer_pc, histVars>>

(* Mutant: trial_begin() starts the timer without having created one. *)
FindNoTimer(t) ==
    /\ pc[t] = "arming"
    /\ Goto(t, "starting")
    /\ UNCHANGED <<flashVars, timerVars, timer_pc, histVars>>

FindTimer(t) ==
    /\ pc[t] = "arming"
    /\ Goto(t, IF s_trial_timer = NULL THEN "creating" ELSE "starting")
    /\ UNCHANGED <<flashVars, timerVars, timer_pc, histVars>>

(* Mutant: the failed esp_timer_create() is not returned. *)
CreateUnchecked(t) ==
    /\ pc[t] = "creating"
    /\ Goto(t, "starting")
    /\ \/ created' = created + 1 /\ s_trial_timer' = created + 1
       \/ UNCHANGED <<created, s_trial_timer>>
    /\ UNCHANGED <<flashVars, armed, timer_pc, histVars>>

(* esp_timer_create(): out of memory it returns, s_trial_timer still NULL. *)
CreateTimer(t) ==
    /\ pc[t] = "creating"
    /\ \/ /\ created' = created + 1
          /\ s_trial_timer' = created + 1
          /\ Goto(t, "starting")
       \/ Goto(t, "idle") /\ UNCHANGED <<created, s_trial_timer>>
    /\ UNCHANGED <<flashVars, armed, timer_pc, histVars>>

(* esp_timer_start_once() on whatever s_trial_timer now is; it answers
   ESP_ERR_INVALID_STATE when that timer is counting down. *)
StartTimer(t) ==
    /\ pc[t] = "starting"
    /\ armed' = armed \cup {s_trial_timer}
    /\ Goto(t, "idle")
    /\ UNCHANGED <<flashVars, s_trial_timer, created, timer_pc, histVars>>

TrialConfirm(t) ==
    /\ pc[t] = "idle"
    /\ OnTrial
    /\ Goto(t, "stopping")
    /\ UNCHANGED <<flashVars, timerVars, timer_pc, histVars>>

(* esp_timer_stop() before the image is marked valid, result ignored. *)
StopTimer(t) ==
    /\ pc[t] = "stopping"
    /\ armed' = armed \ {s_trial_timer}
    /\ Goto(t, "marking")
    /\ UNCHANGED <<flashVars, s_trial_timer, created, timer_pc, histVars>>

(* esp_ota_mark_app_valid_cancel_rollback(), whose flash write may fail. *)
MarkValid(t) ==
    /\ pc[t] = "marking"
    /\ Goto(t, "idle")
    /\ \/ /\ ota_state' = [ota_state EXCEPT ![running] = "valid"]
          /\ confirmed' = "by confirm"
          /\ lateConfirm' = (lateConfirm \/ timer_pc = "rollback")
          /\ UNCHANGED confirmFailed
       \/ /\ confirmFailed' = TRUE
          /\ UNCHANGED <<ota_state, confirmed, lateConfirm>>
    /\ UNCHANGED <<running, timerVars, timer_pc, rollbackFailed, bootCause>>

(* The application may also vouch for the image past the component, by the
   IDF call itself; the window stays open. *)
MarkValidDirectly ==
    /\ OnTrial
    /\ ota_state' = [ota_state EXCEPT ![running] = "valid"]
    /\ confirmed' = "directly"
    /\ lateConfirm' = (lateConfirm \/ timer_pc = "rollback")
    /\ UNCHANGED <<running, timerVars, pc, timer_pc, confirmFailed, rollbackFailed,
                   bootCause>>

(* ota_api_trial_reject(): not gated on a trial, the timer left alone.  With
   nowhere to go back to, on the factory image, or when its flash write fails
   it returns an error and changes nothing: a stuttering step. *)
TrialReject(t) ==
    /\ pc[t] = "idle"
    /\ running # Factory
    /\ GoBack("reject")

-----------------------------------------------------------------------------
(* The esp_timer task. *)

(* A window runs out: the timer is disarmed and its callback dispatched. *)
Expire ==
    /\ timer_pc = "idle"
    /\ \E timer \in armed : armed' = armed \ {timer}
    /\ timer_pc' = "expired"
    /\ UNCHANGED <<flashVars, s_trial_timer, created, pc, histVars>>

(* Mutant: the callback trusts that an expired window is an open one. *)
TimeoutUnchecked ==
    /\ timer_pc = "expired"
    /\ timer_pc' = "rollback"
    /\ UNCHANGED <<flashVars, timerVars, pc, histVars>>

(* Mutant: the check is the wrong way round. *)
TimeoutInverted ==
    /\ timer_pc = "expired"
    /\ timer_pc' = IF OnTrial THEN "idle" ELSE "rollback"
    /\ UNCHANGED <<flashVars, timerVars, pc, histVars>>

(* trial_timeout() reads the partition state again. *)
TimeoutCheck ==
    /\ timer_pc = "expired"
    /\ timer_pc' = IF OnTrial THEN "rollback" ELSE "idle"
    /\ UNCHANGED <<flashVars, timerVars, pc, histVars>>

(* esp_ota_mark_app_invalid_rollback_and_reboot(): it comes back when there is
   no image to go back to or its flash write fails, and the result is ignored;
   the one-shot timer is spent by then. *)
TimeoutRollback ==
    /\ timer_pc = "rollback"
    /\ \/ GoBack("timeout")
       \/ /\ timer_pc' = "idle"
          /\ rollbackFailed' = TRUE
          /\ UNCHANGED <<flashVars, timerVars, pc, confirmed, lateConfirm,
                         confirmFailed, bootCause>>

TimerStep == Expire \/ TimeoutCheck \/ TimeoutRollback

(* What a task does once it is inside trial_begin() or trial_confirm(). *)
TaskStep(t) ==
    FindTimer(t) \/ CreateTimer(t) \/ StartTimer(t) \/ StopTimer(t) \/ MarkValid(t)

Next ==
    \/ \E t \in Tasks :
         TrialBegin(t) \/ TrialConfirm(t) \/ TrialReject(t) \/ TaskStep(t)
    \/ MarkValidDirectly
    \/ TimerStep
    \/ UpdateAndRestart \/ FailedUpdate \/ Reset

(* A one-shot timer expires, the esp_timer task runs, and a task that is in
   one of the functions returns from it. *)
Fairness == WF_vars(TimerStep) /\ \A t \in Tasks : WF_vars(TaskStep(t))

Spec     == Init /\ [][Next]_vars
FairSpec == Spec /\ Fairness

-----------------------------------------------------------------------------
(* Properties *)

TypeOK ==
    /\ running \in Partitions
    /\ ota_state \in [Partitions -> States]
    /\ s_trial_timer \in {NULL} \cup Timers
    /\ created \in Nat
    /\ armed \subseteq Timers
    /\ pc \in [Tasks -> TaskPcs]
    /\ timer_pc \in TimerPcs
    /\ confirmed \in {"no", "by confirm", "directly"}
    /\ lateConfirm \in BOOLEAN
    /\ confirmFailed \in BOOLEAN
    /\ rollbackFailed \in BOOLEAN
    /\ bootCause \in {"reset", "update", "reject", "timeout"}

(* The way back a trial depends on is there for as long as the trial lasts:
   whichever updates, rollbacks and rejections came before, the device that
   runs an image on trial has a valid image to return to, so neither the
   timeout (ota-api-trial.c:55) nor a reject finds the rollback refused for
   want of one. *)
TrialHasWayBack == OnTrial => WaysBack # {}

(* Two tasks that race in trial_begin() never start a timer that is not there,
   nor lose the handle again once one of them has it. *)
StartsARealTimer ==
    \A t \in Tasks : pc[t] = "starting" => s_trial_timer \in 1 .. created

(* ota-api-trial.c:43-50: of a confirmed image the timeout takes only the one
   whose confirmation arrived in the instant the comment admits, between the
   check and the rollback - also with a leaked second timer, a late arming or
   a confirm overtaken by another. *)
OnlyTheAdmittedRace ==
    [][confirmed # "no" /\ running' # running /\ bootCause' = "timeout"
         => lateConfirm]_vars

(* ota-api-trial.c:36: an open window ends the trial, one way or the other,
   unless a flash write failed: that of a confirmation that had stopped the
   timer, or that of the rollback the expired timer called for. *)
WindowEndsTrial == OnTrial /\ armed # {} ~> ~OnTrial \/ confirmFailed \/ rollbackFailed

-----------------------------------------------------------------------------
(* A statement of the documentation the code does not meet. *)

(* ota-api-trial.c:36: "the absence of an answer is itself an answer: go
   back" - an open window always ends the trial. *)
SilenceGoesBack == OnTrial /\ armed # {} ~> ~OnTrial
=============================================================================
