---------------------------- MODULE TrialRun_proofs ----------------------------
(***************************************************************************)
(* Theorems about TrialRun for any set of tasks, any number of OTA slots   *)
(* from two on, with or without a factory partition.                       *)
(***************************************************************************)
EXTENDS TrialRun, TLAPS

(* Whatever runs was valid or is on its trial. *)
RunningBoots == ota_state[running] \in {"valid", "pending"}

(* s_trial_timer is NULL or one of the timers created in this boot, and once a
   task is about to start it, it is not NULL any more. *)
TimerExists ==
    /\ s_trial_timer \in 0 .. created
    /\ \A t \in Tasks : pc[t] = "starting" => s_trial_timer # NULL

(* A confirmation ends the trial for the rest of the boot, so the timeout can
   only be past its check when the confirmation came after it. *)
ConfirmEndsTrial ==
    confirmed # "no" =>
        /\ ota_state[running] = "valid"
        /\ timer_pc = "rollback" => lateConfirm

IInv ==
    /\ TypeOK
    /\ RunningBoots
    /\ TrialHasWayBack
    /\ TimerExists
    /\ ConfirmEndsTrial

USE DEF flashVars, timerVars, histVars, NULL, Goto

(* The next slot is one of the table, never the running partition. *)
LEMMA NextSlotLemma ==
    ASSUME running \in Partitions
    PROVE  NextSlot(running) \in Partitions /\ NextSlot(running) # running
  BY NumSlotsAssumption, HasFactoryAssumption
     DEF NextSlot, Partitions, OtaSlots, Factory

(* What any boot establishes, for whatever image it boots. *)
LEMMA FreshBootLemma ==
    ASSUME NEW cause \in {"reset", "update", "reject", "timeout"},
           FreshBoot(cause),
           running' \in Partitions, ota_state' \in [Partitions -> States]
    PROVE  TypeOK' /\ TimerExists' /\ ConfirmEndsTrial'
<1>1. TypeOK'
  <2>1. pc' \in [Tasks -> TaskPcs] /\ timer_pc' \in TimerPcs
    BY DEF FreshBoot, TaskPcs, TimerPcs
  <2>2. s_trial_timer' \in {NULL} \cup Timers /\ created' \in Nat
        /\ armed' \subseteq Timers
    BY DEF FreshBoot
  <2>3. /\ confirmed' \in {"no", "by confirm", "directly"}
        /\ lateConfirm' \in BOOLEAN /\ confirmFailed' \in BOOLEAN
        /\ rollbackFailed' \in BOOLEAN
        /\ bootCause' \in {"reset", "update", "reject", "timeout"}
    BY DEF FreshBoot
  <2>. QED
    BY <2>1, <2>2, <2>3 DEF TypeOK
<1>2. TimerExists'
  BY DEF FreshBoot, TimerExists
<1>3. ConfirmEndsTrial'
  BY DEF FreshBoot, ConfirmEndsTrial
<1>. QED
  BY <1>1, <1>2, <1>3

(* Going back lands on a valid image, which is not on trial. *)
LEMMA GoBackStep ==
    ASSUME IInv, NEW cause \in {"reset", "update", "reject", "timeout"},
           GoBack(cause)
    PROVE  IInv'
<1>1. running' \in Partitions /\ running' # running /\ ota_state[running'] = "valid"
  BY DEF GoBack, WaysBack
<1>2. ota_state' \in [Partitions -> States]
  BY DEF GoBack, IInv, TypeOK, States
<1>3. ota_state'[running'] = "valid"
  BY <1>1 DEF GoBack, IInv, TypeOK
<1>4. TypeOK' /\ TimerExists' /\ ConfirmEndsTrial'
  BY <1>1, <1>2, FreshBootLemma DEF GoBack
<1>5. RunningBoots' /\ TrialHasWayBack'
  BY <1>3 DEF RunningBoots, TrialHasWayBack, OnTrial
<1>. QED
  BY <1>4, <1>5 DEF IInv

(* The image an update starts from stays valid while the new one is on trial. *)
LEMMA UpdateStep ==
    ASSUME IInv, UpdateAndRestart
    PROVE  IInv'
<1>1. NextSlot(running) \in Partitions /\ NextSlot(running) # running
  BY NextSlotLemma DEF IInv, TypeOK
<1>2. running' = NextSlot(running) /\ ota_state' \in [Partitions -> States]
  BY DEF UpdateAndRestart, IInv, TypeOK, States
<1>3. ota_state'[running'] = "pending"
  BY <1>1, <1>2 DEF UpdateAndRestart, IInv, TypeOK
<1>4. ota_state'[running] = "valid"
  BY <1>1 DEF UpdateAndRestart, OnTrial, IInv, TypeOK, RunningBoots
<1>5. TypeOK' /\ TimerExists' /\ ConfirmEndsTrial'
  BY <1>1, <1>2, FreshBootLemma DEF UpdateAndRestart
<1>6. RunningBoots'
  BY <1>3 DEF RunningBoots
<1>7. TrialHasWayBack'
  BY <1>1, <1>2, <1>4 DEF TrialHasWayBack, WaysBack, IInv, TypeOK
<1>. QED
  BY <1>5, <1>6, <1>7 DEF IInv

(* A failed update costs the next slot, and only while nothing is on trial. *)
LEMMA FailedUpdateStep ==
    ASSUME IInv, FailedUpdate
    PROVE  IInv'
<1>1. NextSlot(running) \in Partitions /\ NextSlot(running) # running
  BY NextSlotLemma DEF IInv, TypeOK
<1>2. ota_state'[running] = ota_state[running] /\ running' = running
  BY <1>1 DEF FailedUpdate, IInv, TypeOK
<1>3. TypeOK'
  BY DEF FailedUpdate, IInv, TypeOK, States
<1>4. RunningBoots' /\ TrialHasWayBack' /\ ConfirmEndsTrial'
  BY <1>2 DEF FailedUpdate, IInv, RunningBoots, TrialHasWayBack, OnTrial,
              ConfirmEndsTrial
<1>5. TimerExists'
  BY DEF FailedUpdate, IInv, TimerExists
<1>. QED
  BY <1>3, <1>4, <1>5 DEF IInv

(* A reset keeps a proven image and leaves one on trial for a valid one. *)
LEMMA ResetStep ==
    ASSUME IInv, Reset
    PROVE  IInv'
<1>1. CASE OnTrial
  BY <1>1, GoBackStep DEF Reset
<1>2. CASE ~OnTrial
  <2>1. UNCHANGED flashVars /\ FreshBoot("reset")
    BY <1>2 DEF Reset
  <2>2. TypeOK' /\ TimerExists' /\ ConfirmEndsTrial'
    BY <2>1, FreshBootLemma DEF IInv, TypeOK
  <2>3. RunningBoots' /\ TrialHasWayBack'
    BY <1>2, <2>1 DEF IInv, RunningBoots, TrialHasWayBack, OnTrial
  <2>. QED
    BY <2>2, <2>3 DEF IInv
<1>. QED
  BY <1>1, <1>2

(* Steps that leave the flash alone keep what is known about it. *)
LEMMA FlashKept ==
    ASSUME IInv, UNCHANGED <<running, ota_state>>
    PROVE  RunningBoots' /\ TrialHasWayBack'
  BY DEF IInv, RunningBoots, TrialHasWayBack, OnTrial, WaysBack

(* ota_api_trial_begin(), whoever else is in it at the same time. *)
LEMMA BeginSteps ==
    ASSUME IInv, NEW t \in Tasks,
           TrialBegin(t) \/ FindTimer(t) \/ CreateTimer(t) \/ StartTimer(t)
    PROVE  IInv'
<1>1. RunningBoots' /\ TrialHasWayBack'
  BY FlashKept DEF TrialBegin, FindTimer, CreateTimer, StartTimer
<1>2. ConfirmEndsTrial'
  BY DEF TrialBegin, FindTimer, CreateTimer, StartTimer, IInv, ConfirmEndsTrial
<1>3. TimerExists'
  <2>1. CASE TrialBegin(t) \/ FindTimer(t) \/ StartTimer(t)
    BY <2>1 DEF TrialBegin, FindTimer, StartTimer, IInv, TypeOK, TimerExists
  <2>2. CASE CreateTimer(t)
    <3>1. created \in Nat /\ s_trial_timer \in 0 .. created
      BY DEF IInv, TypeOK, TimerExists
    <3>2. \/ created' = created + 1 /\ s_trial_timer' = created + 1
          \/ UNCHANGED <<created, s_trial_timer>> /\ pc'[t] = "idle"
      BY <2>2 DEF CreateTimer, IInv, TypeOK
    <3>3. s_trial_timer' \in 0 .. created'
      BY <3>1, <3>2
    <3>4. ASSUME NEW u \in Tasks, pc'[u] = "starting" PROVE s_trial_timer' # NULL
      <4>1. CASE created' = created + 1 /\ s_trial_timer' = created + 1
        BY <3>1, <4>1
      <4>2. CASE UNCHANGED <<created, s_trial_timer>> /\ pc'[t] = "idle"
        <5>1. pc[u] = "starting"
          BY <2>2, <3>4, <4>2 DEF CreateTimer, IInv, TypeOK
        <5>. QED
          BY <4>2, <5>1 DEF IInv, TimerExists
      <4>. QED
        BY <3>2, <4>1, <4>2
    <3>. QED
      BY <3>3, <3>4 DEF TimerExists
  <2>. QED
    BY <2>1, <2>2
<1>4. pc' \in [Tasks -> TaskPcs]
  BY DEF TrialBegin, FindTimer, CreateTimer, StartTimer, IInv, TypeOK, TaskPcs
<1>5. s_trial_timer' \in {NULL} \cup Timers /\ created' \in Nat
  <2>1. created' \in Nat
    <3>1. created \in Nat
      BY DEF IInv, TypeOK
    <3>2. created' = created \/ created' = created + 1
      BY DEF TrialBegin, FindTimer, CreateTimer, StartTimer
    <3>. QED
      BY <3>1, <3>2
  <2>. QED
    BY <1>3, <2>1 DEF TimerExists, Timers
<1>6. armed' \subseteq Timers
  BY DEF TrialBegin, FindTimer, CreateTimer, StartTimer, IInv, TypeOK, TimerExists,
         Timers
<1>7. TypeOK'
  BY <1>4, <1>5, <1>6
     DEF TrialBegin, FindTimer, CreateTimer, StartTimer, IInv, TypeOK
<1>. QED
  BY <1>1, <1>2, <1>3, <1>7 DEF IInv

(* Entering trial_confirm() and stopping the timer leave the flash alone. *)
LEMMA ConfirmSteps ==
    ASSUME IInv, NEW t \in Tasks, TrialConfirm(t) \/ StopTimer(t)
    PROVE  IInv'
<1>1. RunningBoots' /\ TrialHasWayBack'
  BY FlashKept DEF TrialConfirm, StopTimer
<1>2. ConfirmEndsTrial'
  BY DEF TrialConfirm, StopTimer, IInv, ConfirmEndsTrial
<1>3. TimerExists'
  BY DEF TrialConfirm, StopTimer, IInv, TypeOK, TimerExists
<1>4. TypeOK'
  BY DEF TrialConfirm, StopTimer, IInv, TypeOK, TaskPcs
<1>. QED
  BY <1>1, <1>2, <1>3, <1>4 DEF IInv

(* The image becomes valid: by ota_api_trial_confirm() or past it. *)
LEMMA MarkSteps ==
    ASSUME IInv, (\E t \in Tasks : MarkValid(t)) \/ MarkValidDirectly
    PROVE  IInv'
<1>1. \/ ota_state' = [ota_state EXCEPT ![running] = "valid"]
      \/ ota_state' = ota_state
  BY DEF MarkValid, MarkValidDirectly
<1>2. running' = running
  BY DEF MarkValid, MarkValidDirectly
<1>3. RunningBoots'
  BY <1>1, <1>2 DEF IInv, TypeOK, RunningBoots
<1>4. TrialHasWayBack'
  BY <1>1, <1>2, FlashKept DEF IInv, TypeOK, TrialHasWayBack, OnTrial
<1>5. ConfirmEndsTrial'
  BY DEF MarkValid, MarkValidDirectly, IInv, TypeOK, ConfirmEndsTrial
<1>6. TimerExists'
  BY DEF MarkValid, MarkValidDirectly, IInv, TypeOK, TimerExists
<1>7. TypeOK'
  <2>1. ota_state' \in [Partitions -> States]
    BY <1>1 DEF IInv, TypeOK, States
  <2>2. pc' \in [Tasks -> TaskPcs]
    BY DEF MarkValid, MarkValidDirectly, IInv, TypeOK, TaskPcs
  <2>3. confirmed' \in {"no", "by confirm", "directly"}
    BY DEF MarkValid, MarkValidDirectly, IInv, TypeOK
  <2>4. lateConfirm' \in BOOLEAN /\ confirmFailed' \in BOOLEAN
    BY DEF MarkValid, MarkValidDirectly, IInv, TypeOK
  <2>. QED
    BY <2>1, <2>2, <2>3, <2>4 DEF MarkValid, MarkValidDirectly, IInv, TypeOK
<1>. QED
  BY <1>3, <1>4, <1>5, <1>6, <1>7 DEF IInv

(* The esp_timer task: past the check only with an image still on trial. *)
LEMMA TimerSteps ==
    ASSUME IInv, Expire \/ TimeoutCheck
    PROVE  IInv'
<1>1. RunningBoots' /\ TrialHasWayBack'
  BY FlashKept DEF Expire, TimeoutCheck
<1>2. ConfirmEndsTrial'
  BY DEF Expire, TimeoutCheck, OnTrial, IInv, ConfirmEndsTrial
<1>3. TimerExists'
  BY DEF Expire, TimeoutCheck, IInv, TimerExists
<1>4. TypeOK'
  BY DEF Expire, TimeoutCheck, IInv, TypeOK, TimerPcs
<1>. QED
  BY <1>1, <1>2, <1>3, <1>4 DEF IInv

(* The timeout leaves for a valid image, or its rollback comes back. *)
LEMMA RollbackStep ==
    ASSUME IInv, TimeoutRollback
    PROVE  IInv'
<1>1. CASE GoBack("timeout")
  BY <1>1, GoBackStep
<1>2. CASE ~GoBack("timeout")
  <2>1. /\ timer_pc' = "idle" /\ rollbackFailed' = TRUE
        /\ UNCHANGED <<flashVars, timerVars, pc, confirmed, lateConfirm,
                       confirmFailed, bootCause>>
    BY <1>2 DEF TimeoutRollback
  <2>2. RunningBoots' /\ TrialHasWayBack'
    BY <2>1, FlashKept
  <2>3. TypeOK' /\ TimerExists' /\ ConfirmEndsTrial'
    BY <2>1 DEF IInv, TypeOK, TimerPcs, TimerExists, ConfirmEndsTrial
  <2>. QED
    BY <2>2, <2>3 DEF IInv
<1>. QED
  BY <1>1, <1>2

(* The device starts on its first, valid firmware. *)
LEMMA InitIInv == Init => IInv
<1>. SUFFICES ASSUME Init PROVE IInv
  OBVIOUS
<1>1. FirstFlashed \in Partitions
  BY NumSlotsAssumption, HasFactoryAssumption
     DEF Partitions, OtaSlots, Factory, FirstFlashed
<1>2. ota_state \in [Partitions -> States] /\ ota_state[running] = "valid"
  BY <1>1 DEF Init, States
<1>3. TypeOK
  BY <1>1, <1>2 DEF Init, TypeOK, TaskPcs, TimerPcs
<1>4. RunningBoots /\ TrialHasWayBack
  BY <1>2 DEF RunningBoots, TrialHasWayBack, OnTrial
<1>5. TimerExists /\ ConfirmEndsTrial
  BY DEF Init, TimerExists, ConfirmEndsTrial
<1>. QED
  BY <1>3, <1>4, <1>5 DEF IInv

(* Every step preserves the inductive invariant. *)
LEMMA NextIInv == IInv /\ [Next]_vars => IInv'
<1>. SUFFICES ASSUME IInv, [Next]_vars PROVE IInv'
  OBVIOUS
<1>1. CASE UNCHANGED vars
  BY <1>1, FlashKept DEF vars, IInv, TypeOK, TimerExists, ConfirmEndsTrial
<1>2. ASSUME NEW t \in Tasks, TrialBegin(t) \/ TrialConfirm(t) PROVE IInv'
  BY <1>2, BeginSteps, ConfirmSteps
<1>3. ASSUME NEW t \in Tasks, TrialReject(t) PROVE IInv'
  BY <1>3, GoBackStep DEF TrialReject
<1>4. ASSUME NEW t \in Tasks, TaskStep(t) PROVE IInv'
  BY <1>4, BeginSteps, ConfirmSteps, MarkSteps DEF TaskStep
<1>5. CASE MarkValidDirectly
  BY <1>5, MarkSteps
<1>6. CASE TimerStep
  BY <1>6, TimerSteps, RollbackStep DEF TimerStep
<1>7. CASE UpdateAndRestart \/ FailedUpdate \/ Reset
  BY <1>7, UpdateStep, FailedUpdateStep, ResetStep
<1>. QED
  BY <1>1, <1>2, <1>3, <1>4, <1>5, <1>6, <1>7 DEF Next

(* IInv holds in every state of every behaviour of a trial. *)
THEOREM Invariance == Spec => []IInv
  BY InitIInv, NextIInv, PTL DEF Spec

-----------------------------------------------------------------------------

(* Every variable keeps its type (ota-api-trial.c:31). *)
THEOREM TypeCorrect == Spec => []TypeOK
  BY Invariance, PTL DEF IInv

(* A trial never outlives the image to go back to (ota-api-trial.c:54,149). *)
THEOREM WayBackKept == Spec => []TrialHasWayBack
  BY Invariance, PTL DEF IInv

(* esp_timer_start_once() is never given NULL (ota-api-trial.c:85-107). *)
THEOREM TimerStarted == Spec => []StartsARealTimer
<1>1. ASSUME IInv PROVE StartsARealTimer
  <2>1. created \in Nat /\ s_trial_timer \in 0 .. created
    BY <1>1 DEF IInv, TypeOK, TimerExists
  <2>2. s_trial_timer # NULL => s_trial_timer \in 1 .. created
    BY <2>1
  <2>. QED
    BY <1>1, <2>2 DEF IInv, TimerExists, StartsARealTimer
<1>. QED
  BY <1>1, Invariance, PTL

(* The timeout takes a confirmed image only in the race the code admits
   (ota-api-trial.c:43-54). *)
THEOREM AdmittedRaceOnly == Spec => OnlyTheAdmittedRace
<1>1. IInv /\ [Next]_vars =>
        [confirmed # "no" /\ running' # running /\ bootCause' = "timeout"
           => lateConfirm]_vars
  <2>. SUFFICES ASSUME IInv, Next, confirmed # "no", running' # running,
                       bootCause' = "timeout"
                PROVE  lateConfirm
    BY DEF vars
  <2>1. TimeoutRollback
    BY DEF Next, TaskStep, TimerStep, TrialBegin, TrialConfirm, TrialReject,
       FindTimer, CreateTimer, StartTimer, StopTimer, MarkValid, MarkValidDirectly,
       Expire, TimeoutCheck, UpdateAndRestart, FailedUpdate, Reset, GoBack, FreshBoot
  <2>. QED
    BY <2>1 DEF TimeoutRollback, IInv, ConfirmEndsTrial
<1>. QED
  BY <1>1, Invariance, PTL DEF Spec, OnlyTheAdmittedRace

-----------------------------------------------------------------------------
(* The safety half of WindowEndsTrial. *)

(* Something is under way that ends the trial: a timer counts down, its
   callback has been dispatched, or a confirmation stands before its write. *)
WindowOpen == armed # {} \/ timer_pc # "idle" \/ \E t \in Tasks : pc[t] = "marking"

(* A task's confirmation comes back from its flash write with an error. *)
ConfirmFails(t) == pc[t] = "marking" /\ pc'[t] = "idle" /\ confirmFailed'

(* The rollback the expired timer called for comes back with an error. *)
RollbackFails == timer_pc = "rollback" /\ rollbackFailed'

(* ota-api-trial.c:36: whatever the tasks do to the timer, a step after which
   the trial goes on closes an open window only by one of the two flash writes
   failing: that of a confirmation, which has stopped the timer by then
   (ota-api-trial.c:125-130), or that of the timeout's own rollback, whose
   error nobody reads (ota-api-trial.c:55). *)
CountdownKept ==
    [][OnTrial /\ WindowOpen /\ OnTrial' /\ ~WindowOpen'
         => RollbackFails \/ \E t \in Tasks : ConfirmFails(t)]_vars

(* The device never runs an image on trial after it went back. *)
LEMMA BackOnValid ==
    ASSUME IInv, NEW cause \in {"reset", "update", "reject", "timeout"}, GoBack(cause)
    PROVE  ~OnTrial'
  BY DEF GoBack, WaysBack, IInv, TypeOK, OnTrial

(* Every step but the two that fail leaves the window open, or ends the trial. *)
LEMMA WindowStep ==
    ASSUME IInv, Next, OnTrial, WindowOpen
    PROVE  \/ ~OnTrial' \/ WindowOpen'
           \/ RollbackFails \/ \E t \in Tasks : ConfirmFails(t)
<1>1. CASE UpdateAndRestart \/ FailedUpdate
  BY <1>1 DEF UpdateAndRestart, FailedUpdate
<1>2. CASE Reset \/ \E t \in Tasks : TrialReject(t)
  BY <1>2, BackOnValid DEF Reset, TrialReject
<1>3. ASSUME NEW t \in Tasks,
             TrialBegin(t) \/ TrialConfirm(t) \/ FindTimer(t) \/ CreateTimer(t)
      PROVE  WindowOpen'
  BY <1>3 DEF TrialBegin, TrialConfirm, FindTimer, CreateTimer, IInv, TypeOK, WindowOpen
<1>4. ASSUME NEW t \in Tasks, StartTimer(t)
      PROVE  WindowOpen'
  BY <1>4 DEF StartTimer, WindowOpen
<1>5. ASSUME NEW t \in Tasks, StopTimer(t)
      PROVE  WindowOpen'
  BY <1>5 DEF StopTimer, IInv, TypeOK, WindowOpen
<1>6. ASSUME NEW t \in Tasks, MarkValid(t)
      PROVE  ~OnTrial' \/ ConfirmFails(t)
  <2>1. pc[t] = "marking" /\ pc'[t] = "idle"
    BY <1>6 DEF MarkValid, IInv, TypeOK
  <2>2. ~OnTrial' \/ confirmFailed'
    BY <1>6 DEF MarkValid, IInv, TypeOK, OnTrial
  <2>. QED
    BY <2>1, <2>2 DEF ConfirmFails
<1>7. CASE MarkValidDirectly
  BY <1>7 DEF MarkValidDirectly, IInv, TypeOK, OnTrial
<1>8. CASE Expire \/ TimeoutCheck
  BY <1>8 DEF Expire, TimeoutCheck, WindowOpen
<1>9. CASE TimeoutRollback
  BY <1>9, BackOnValid DEF TimeoutRollback, RollbackFails
<1>. QED
  BY <1>1, <1>2, <1>3, <1>4, <1>5, <1>6, <1>7, <1>8, <1>9 DEF Next, TaskStep, TimerStep

(* An open window stays open for as long as the trial lasts, but for the two
   flash writes that may fail (ota-api-trial.c:36,51-55,115-135). *)
THEOREM WindowStaysOpen == Spec => CountdownKept
<1>1. IInv /\ [Next]_vars =>
        [OnTrial /\ WindowOpen /\ OnTrial' /\ ~WindowOpen'
           => RollbackFails \/ \E t \in Tasks : ConfirmFails(t)]_vars
  BY WindowStep
<1>. QED
  BY <1>1, Invariance, PTL DEF Spec, CountdownKept

-----------------------------------------------------------------------------

(* Past its check the timeout has an image on trial before it, or one that was
   confirmed since (ota-api-trial.c:51-55). *)
PastCheck == timer_pc = "rollback" => OnTrial \/ lateConfirm

(* An image that is not on trial is left only for an update or by a reject; by
   the timeout only in the race ota-api-trial.c:43-50 admits, and never by a
   power cut, panic or restart, however often it comes. *)
ProvenImageStays ==
    [][~OnTrial /\ running' # running =>
         \/ bootCause' \in {"update", "reject"}
         \/ bootCause' = "timeout" /\ lateConfirm]_vars

LEMMA PastCheckNext == IInv /\ PastCheck /\ [Next]_vars => PastCheck'
<1>. SUFFICES ASSUME IInv, PastCheck, [Next]_vars PROVE PastCheck'
  OBVIOUS
<1>1. CASE UNCHANGED vars
  BY <1>1 DEF vars, PastCheck, OnTrial
<1>2. CASE UpdateAndRestart \/ FailedUpdate \/ Reset \/ TimeoutRollback
  <2>1. CASE FailedUpdate
    <3>1. NextSlot(running) # running
      BY NextSlotLemma DEF IInv, TypeOK
    <3>. QED
      BY <2>1, <3>1 DEF FailedUpdate, PastCheck, OnTrial, IInv, TypeOK
  <2>2. CASE UpdateAndRestart \/ Reset \/ TimeoutRollback
    BY <2>2 DEF UpdateAndRestart, Reset, TimeoutRollback, GoBack, FreshBoot, PastCheck
  <2>. QED
    BY <1>2, <2>1, <2>2
<1>3. ASSUME NEW t \in Tasks, TrialReject(t)
      PROVE  PastCheck'
  BY <1>3 DEF TrialReject, GoBack, FreshBoot, PastCheck
<1>4. ASSUME NEW t \in Tasks, TrialBegin(t) \/ TrialConfirm(t) \/ TaskStep(t)
      PROVE  PastCheck'
  BY <1>4 DEF TrialBegin, TrialConfirm, TaskStep, FindTimer, CreateTimer, StartTimer,
              StopTimer, MarkValid, PastCheck, OnTrial
<1>5. CASE MarkValidDirectly \/ Expire \/ TimeoutCheck
  BY <1>5 DEF MarkValidDirectly, Expire, TimeoutCheck, PastCheck, OnTrial
<1>. QED
  BY <1>1, <1>2, <1>3, <1>4, <1>5 DEF Next, TimerStep

(* Proven firmware survives every restart (ota-api-trial.c:43-50). *)
THEOREM ProvenStays == Spec => ProvenImageStays
<1>1. Init => PastCheck
  BY DEF Init, PastCheck
<1>2. Spec => []PastCheck
  BY <1>1, PastCheckNext, Invariance, PTL DEF Spec
<1>3. IInv /\ PastCheck /\ [Next]_vars =>
        [~OnTrial /\ running' # running =>
           \/ bootCause' \in {"update", "reject"}
           \/ bootCause' = "timeout" /\ lateConfirm]_vars
  <2>. SUFFICES ASSUME IInv, PastCheck, Next, ~OnTrial, running' # running
                PROVE  \/ bootCause' \in {"update", "reject"}
                       \/ bootCause' = "timeout" /\ lateConfirm
    BY DEF vars
  <2>1. \/ UpdateAndRestart \/ TimeoutRollback
        \/ \E t \in Tasks : TrialReject(t)
    BY DEF Next, TaskStep, TimerStep, TrialBegin, TrialConfirm, FindTimer, CreateTimer,
       StartTimer, StopTimer, MarkValid, MarkValidDirectly, Expire, TimeoutCheck,
       FailedUpdate, Reset
  <2>. QED
    BY <2>1 DEF UpdateAndRestart, TimeoutRollback, TrialReject, GoBack, FreshBoot, PastCheck
<1>. QED
  BY <1>2, <1>3, Invariance, PTL DEF Spec, ProvenImageStays
=============================================================================
