----------------------------- MODULE Device_proofs -----------------------------
(***************************************************************************)
(* Theorems about Device for any partition table with two OTA slots or     *)
(* more.  The first half shows that a device does to the trial what        *)
(* TrialRun's steps do, or installs an update without a trial; the second  *)
(* what that means for the images vouched for and for the applications.    *)
(***************************************************************************)
EXTENDS Device, TLAPS

USE DEF flashVars, timerVars, histVars, trialVars, engineVars, appVars,
        T!flashVars, T!timerVars, T!histVars

-----------------------------------------------------------------------------
(* The trial. *)

(* The running image was valid or is on its trial, for which there is a way
   back; a task about to start a timer has one; on the factory image neither
   a trial nor its timeout goes on. *)
TrialInv ==
    /\ T!TypeOK
    /\ ota_state[running] \in {"valid", "pending"}
    /\ T!TrialHasWayBack
    /\ \A t \in Callers : pc[t] = "starting" => s_trial_timer # T!NULL
    /\ T!OnTrial \/ timer_pc = "rollback" => running # T!Factory

(* An update in a build without rollback: the new image counts as valid. *)
PlainUpdate ==
    /\ running' = Target
    /\ ota_state' = [ota_state EXCEPT ![Target] = "valid"]
    /\ T!FreshBoot("update")

LEMMA TargetLemma ==
    ASSUME running \in T!Partitions
    PROVE  Target \in T!Partitions /\ Target # running /\ Target # T!Factory
  BY NumSlotsAssumption, HasFactoryAssumption
     DEF Target, T!NextSlot, T!Partitions, T!OtaSlots, T!Factory

LEMMA FreshBootLemma ==
    ASSUME NEW cause \in {"reset", "update", "reject", "timeout"},
           T!FreshBoot(cause),
           running' \in T!Partitions, ota_state' \in [T!Partitions -> T!States]
    PROVE  /\ T!TypeOK'
           /\ (\A t \in Callers : pc[t] = "starting" => s_trial_timer # T!NULL)'
           /\ timer_pc' = "idle"
  BY DEF T!FreshBoot, T!TypeOK, T!TaskPcs, T!TimerPcs

(* Going back lands on a valid image. *)
LEMMA GoBackStep ==
    ASSUME TrialInv, NEW cause \in {"reset", "update", "reject", "timeout"},
           T!GoBack(cause)
    PROVE  /\ TrialInv'
           /\ running' \in T!Partitions \ {running} /\ ota_state[running'] = "valid"
           /\ ~T!OnTrial'
<1>1. running' \in T!Partitions \ {running} /\ ota_state[running'] = "valid"
  BY DEF T!GoBack, T!WaysBack
<1>2. ota_state' \in [T!Partitions -> T!States] /\ ota_state'[running'] = "valid"
  BY <1>1 DEF T!GoBack, TrialInv, T!TypeOK, T!States
<1>3. ~T!OnTrial'
  BY <1>2 DEF T!OnTrial
<1>. QED
  BY <1>1, <1>2, <1>3, FreshBootLemma DEF T!GoBack, TrialInv, T!TrialHasWayBack

(* An update keeps the image it started from: a way back for the new one. *)
LEMMA InstallStep ==
    ASSUME TrialInv, T!UpdateAndRestart \/ PlainUpdate
    PROVE  TrialInv'
<1>1. Target \in T!Partitions /\ Target # running /\ Target # T!Factory
  BY TargetLemma DEF TrialInv, T!TypeOK
<1>2. /\ running' = Target
      /\ ota_state' \in [T!Partitions -> T!States]
      /\ ota_state'[Target] \in {"valid", "pending"}
      /\ ota_state'[running] = ota_state[running]
      /\ T!FreshBoot("update")
  BY <1>1 DEF T!UpdateAndRestart, PlainUpdate, Target, TrialInv, T!TypeOK, T!States
<1>3. T!TrialHasWayBack'
  <2>1. CASE T!UpdateAndRestart
    <3>1. ota_state'[running] = "valid"
      BY <1>2, <2>1 DEF T!UpdateAndRestart, T!OnTrial, TrialInv
    <3>. QED
      BY <1>1, <1>2, <3>1 DEF T!TrialHasWayBack, T!WaysBack, TrialInv, T!TypeOK
  <2>2. CASE PlainUpdate
    BY <1>1, <2>2 DEF PlainUpdate, T!TrialHasWayBack, T!OnTrial, TrialInv, T!TypeOK
  <2>. QED
    BY <2>1, <2>2
<1>. QED
  BY <1>1, <1>2, <1>3, FreshBootLemma DEF TrialInv

LEMMA FailedUpdateStep ==
    ASSUME TrialInv, T!FailedUpdate
    PROVE  TrialInv'
<1>1. Target \in T!Partitions /\ Target # running
  BY TargetLemma DEF TrialInv, T!TypeOK
<1>2. ota_state' \in [T!Partitions -> T!States] /\ ota_state'[running] = ota_state[running]
  BY <1>1 DEF T!FailedUpdate, Target, TrialInv, T!TypeOK, T!States
<1>3. ~T!OnTrial'
  BY <1>2 DEF T!FailedUpdate, T!OnTrial
<1>. QED
  BY <1>2, <1>3 DEF T!FailedUpdate, TrialInv, T!TypeOK, T!TrialHasWayBack

LEMMA ResetStep ==
    ASSUME TrialInv, T!Reset
    PROVE  TrialInv'
<1>1. CASE T!OnTrial
  BY <1>1, GoBackStep DEF T!Reset
<1>2. CASE ~T!OnTrial
  <2>1. UNCHANGED flashVars /\ T!FreshBoot("reset")
    BY <1>2 DEF T!Reset, T!flashVars
  <2>2. running' \in T!Partitions /\ ota_state' \in [T!Partitions -> T!States] /\ ~T!OnTrial'
    BY <1>2, <2>1 DEF TrialInv, T!TypeOK, T!OnTrial
  <2>. QED
    BY <2>1, <2>2, FreshBootLemma DEF TrialInv, T!TrialHasWayBack
<1>. QED
  BY <1>1, <1>2

(* Steps of this boot that leave the flash alone. *)
LEMMA FlashKept ==
    ASSUME TrialInv, UNCHANGED <<running, ota_state>>, T!TypeOK',
           timer_pc' # "rollback" \/ T!OnTrial \/ timer_pc' = timer_pc,
           \A t \in Callers : pc'[t] = "starting" => s_trial_timer' # T!NULL
    PROVE  TrialInv'
  BY DEF TrialInv, T!TrialHasWayBack, T!OnTrial, T!WaysBack

LEMMA BeginSteps ==
    ASSUME TrialInv, NEW t \in Callers,
           T!TrialBegin(t) \/ T!FindTimer(t) \/ T!CreateTimer(t) \/ T!StartTimer(t)
    PROVE  TrialInv'
<1>. USE DEF T!TrialBegin, T!FindTimer, T!CreateTimer, T!StartTimer, T!Goto
<1>1. /\ pc' \in [Callers -> T!TaskPcs]
      /\ \A u \in Callers \ {t} : pc'[u] = pc[u]
  <2>1. PICK label \in T!TaskPcs : pc' = [pc EXCEPT ![t] = label]
    BY DEF T!TaskPcs
  <2>. QED
    BY <2>1 DEF TrialInv, T!TypeOK
<1>2. /\ s_trial_timer' \in {T!NULL} \cup T!Timers /\ created' \in Nat
      /\ s_trial_timer' = s_trial_timer \/ s_trial_timer' # T!NULL
      /\ pc'[t] = "starting" => s_trial_timer' # T!NULL
  <2>1. CASE T!TrialBegin(t) \/ T!StartTimer(t)
    BY <2>1 DEF TrialInv, T!TypeOK
  <2>2. CASE T!FindTimer(t)
    BY <2>2 DEF TrialInv, T!TypeOK
  <2>3. CASE T!CreateTimer(t)
    <3>1. created \in Nat /\ s_trial_timer \in {T!NULL} \cup T!Timers /\ pc \in [Callers -> T!TaskPcs]
      BY DEF TrialInv, T!TypeOK
    <3>2. CASE created' = created + 1 /\ s_trial_timer' = created + 1
      BY <3>1, <3>2 DEF T!NULL, T!Timers
    <3>3. CASE pc' = [pc EXCEPT ![t] = "idle"] /\ UNCHANGED <<created, s_trial_timer>>
      BY <3>1, <3>3
    <3>. QED
      BY <2>3, <3>2, <3>3
  <2>. QED
    BY <2>1, <2>2, <2>3
<1>3. armed' \subseteq T!Timers
  BY DEF TrialInv, T!TypeOK, T!Timers
<1>4. T!TypeOK'
  BY <1>1, <1>2, <1>3 DEF TrialInv, T!TypeOK
<1>5. \A u \in Callers : pc'[u] = "starting" => s_trial_timer' # T!NULL
  BY <1>1, <1>2 DEF TrialInv
<1>. QED
  BY <1>4, <1>5, FlashKept

LEMMA ConfirmSteps ==
    ASSUME TrialInv, NEW t \in Callers, T!TrialConfirm(t) \/ T!StopTimer(t)
    PROVE  TrialInv'
<1>. USE DEF T!TrialConfirm, T!StopTimer, T!Goto
<1>1. /\ pc' \in [Callers -> T!TaskPcs]
      /\ \A u \in Callers : pc'[u] = "starting" => pc[u] = "starting"
  <2>1. PICK label \in {"stopping", "marking"} : pc' = [pc EXCEPT ![t] = label]
    OBVIOUS
  <2>. QED
    BY <2>1 DEF TrialInv, T!TypeOK, T!TaskPcs
<1>2. T!TypeOK'
  BY <1>1 DEF TrialInv, T!TypeOK
<1>. QED
  BY <1>1, <1>2, FlashKept DEF TrialInv

LEMMA MarkStep ==
    ASSUME TrialInv, NEW t \in Callers, T!MarkValid(t)
    PROVE  /\ TrialInv'
           /\ running' = running /\ pc[t] = "marking"
           /\ \/ ota_state' = [ota_state EXCEPT ![running] = "valid"]
              \/ ota_state' = ota_state /\ confirmFailed'
<1>. USE DEF T!MarkValid, T!Goto, T!timerVars
<1>1. /\ running' = running /\ pc[t] = "marking"
      /\ \/ ota_state' = [ota_state EXCEPT ![running] = "valid"]
         \/ ota_state' = ota_state /\ confirmFailed'
  OBVIOUS
<1>2. pc' \in [Callers -> T!TaskPcs]
      /\ \A u \in Callers : pc'[u] = "starting" => pc[u] = "starting"
  BY DEF TrialInv, T!TypeOK, T!TaskPcs
<1>3. ota_state' \in [T!Partitions -> T!States]
  BY <1>1 DEF TrialInv, T!TypeOK, T!States
<1>4. lateConfirm' \in BOOLEAN /\ confirmFailed' \in BOOLEAN
      /\ confirmed' \in {"no", "by confirm", "directly"}
  BY DEF TrialInv, T!TypeOK
<1>5. T!TypeOK'
  BY <1>2, <1>3, <1>4 DEF TrialInv, T!TypeOK
<1>6. ota_state'[running] = "valid" \/ ota_state' = ota_state
  BY <1>1 DEF TrialInv, T!TypeOK
<1>7. TrialInv'
  <2>1. CASE ota_state' = ota_state
    BY <1>1, <1>2, <1>5, <2>1, FlashKept DEF TrialInv
  <2>2. CASE ota_state'[running] = "valid"
    BY <1>1, <1>2, <1>5, <2>2 DEF TrialInv, T!OnTrial, T!TrialHasWayBack
  <2>. QED
    BY <1>6, <2>1, <2>2
<1>. QED
  BY <1>1, <1>7

LEMMA TimerSteps ==
    ASSUME TrialInv, T!Expire \/ T!TimeoutCheck
    PROVE  TrialInv'
<1>. USE DEF T!Expire, T!TimeoutCheck
<1>1. T!TypeOK'
  BY DEF TrialInv, T!TypeOK, T!TimerPcs
<1>. QED
  BY <1>1, FlashKept DEF TrialInv

(* A step of TrialRun on the device, without the calls past the component. *)
TrialNext ==
    \/ \E t \in Callers : T!TrialBegin(t) \/ T!TrialConfirm(t) \/ T!TrialReject(t) \/ T!TaskStep(t)
    \/ T!TimerStep
    \/ T!UpdateAndRestart \/ T!FailedUpdate \/ T!Reset

LEMMA TrialInvStep ==
    ASSUME TrialInv, TrialNext \/ PlainUpdate \/ UNCHANGED trialVars
    PROVE  TrialInv'
<1>1. CASE UNCHANGED trialVars
  BY <1>1, FlashKept DEF TrialInv, T!TypeOK
<1>2. ASSUME NEW t \in Callers, T!TrialBegin(t) \/ T!TrialConfirm(t) PROVE TrialInv'
  BY <1>2, BeginSteps, ConfirmSteps
<1>3. ASSUME NEW t \in Callers, T!TrialReject(t) PROVE TrialInv'
  BY <1>3, GoBackStep DEF T!TrialReject
<1>4. ASSUME NEW t \in Callers, T!TaskStep(t) PROVE TrialInv'
  BY <1>4, BeginSteps, ConfirmSteps, MarkStep DEF T!TaskStep
<1>5. CASE T!TimerStep
  <2>1. CASE T!Expire \/ T!TimeoutCheck
    BY <2>1, TimerSteps
  <2>2. CASE T!GoBack("timeout")
    BY <2>2, GoBackStep
  <2>3. CASE T!TimeoutRollback /\ ~T!GoBack("timeout")
    <3>1. /\ timer_pc' = "idle" /\ rollbackFailed' = TRUE
          /\ UNCHANGED <<flashVars, timerVars, pc, confirmed, lateConfirm, confirmFailed,
                         bootCause>>
      BY <2>3 DEF T!TimeoutRollback
    <3>2. T!TypeOK'
      BY <3>1 DEF TrialInv, T!TypeOK, T!TimerPcs
    <3>. QED
      BY <3>1, <3>2, FlashKept DEF TrialInv
  <2>. QED
    BY <1>5, <2>1, <2>2, <2>3 DEF T!TimerStep, T!TimeoutRollback
<1>6. CASE T!UpdateAndRestart \/ PlainUpdate
  BY <1>6, InstallStep
<1>7. CASE T!FailedUpdate \/ T!Reset
  BY <1>7, FailedUpdateStep, ResetStep
<1>. QED
  BY <1>1, <1>2, <1>3, <1>4, <1>5, <1>6, <1>7 DEF TrialNext

-----------------------------------------------------------------------------
(* The images vouched for. *)

(* A build with rollback trusts only images somebody vouched for, one whose
   confirmation is under way included; what an update is about to replace is
   not one of them, and updates happen off trial. *)
VouchInv ==
    /\ vouched \subseteq T!Partitions
    /\ Guarded => \A p \in T!Partitions : ota_state[p] = "valid" => p \in vouched
    /\ \A t \in Callers : pc[t] \in {"stopping", "marking"} => running \in vouched
    /\ boot \in {running, Target}
    /\ erased \/ boot # running => ~T!OnTrial /\ Target \notin vouched

-----------------------------------------------------------------------------
(* The applications. *)

(* Who is where: app_main() works on the trial or on an update only in
   examples/rollback, the update task only in the others, and a committed
   image is on its way to a restart. *)
AppInv ==
    /\ phase \in [Updaters -> E!Phases]
    /\ erased \in BOOLEAN
    /\ app \in Apps
    /\ main \in MainPcs
    /\ connected \in BOOLEAN
    /\ ota \in UpdatePcs
    /\ main \in {"testing", "confirming", "checking", "updating", "restarting"} => app = "rollback"
    /\ ota # "idle" => app # "rollback"
    /\ main = "starting" => ota = "idle"
    /\ main \in {"starting", "testing"} => pc["main"] = "idle"
    /\ main = "confirming" => pc["main"] \in {"stopping", "marking"}
    /\ phase["main"] # "out" => main = "updating"
    /\ phase["ota"] # "out" => ota = "updating"
    /\ boot # running => \/ phase["main"] = "committed" \/ main = "restarting"
                         \/ phase["ota"] = "committed" \/ ota = "restarting"

IInv ==
    /\ TrialInv
    /\ VouchInv
    /\ AppInv
    /\ UpdatesOnlyConfirmed
    /\ CommittedIsBooted

(* Running and boot partition differ only after a commit, and a commit is
   followed by nothing but the restart. *)
LEMMA NoCommitPending ==
    ASSUME IInv, \/ main = "checking"
                 \/ ota = "requested"
    PROVE  boot = running
  BY DEF IInv, AppInv

LEMMA TargetFacts ==
    ASSUME IInv
    PROVE  Target \in T!Partitions /\ Target # running /\ boot \in T!Partitions
  BY TargetLemma DEF IInv, TrialInv, VouchInv, T!TypeOK

-----------------------------------------------------------------------------
(* Every step does to the trial what TrialRun allows. *)

LEMMA RebootMaps ==
    ASSUME IInv, Reboot
    PROVE  \/ T!UpdateAndRestart \/ T!Reset
           \/ ~Guarded /\ PlainUpdate
<1>1. CASE boot = running
  BY <1>1 DEF Reboot
<1>2. CASE boot # running
  <2>1. boot = Target /\ ~T!OnTrial
    BY <1>2 DEF IInv, VouchInv
  <2>. QED
    BY <1>2, <2>1 DEF Reboot, PlainUpdate, T!UpdateAndRestart, Target
<1>. QED
  BY <1>1, <1>2

(* The failed self-test's rejection comes back. *)
RejectReturns ==
    /\ main = "testing" /\ ~connected
    /\ main' = "checking"
    /\ UNCHANGED <<trialVars, engineVars, app, connected, ota, vouched>>

(* The timeout's rollback comes back. *)
TimeoutReturns ==
    /\ timer_pc = "rollback"
    /\ timer_pc' = "idle" /\ rollbackFailed' = TRUE
    /\ UNCHANGED <<flashVars, timerVars, pc, confirmed, lateConfirm, confirmFailed,
                   bootCause, engineVars, app, appVars, vouched>>

(* The timer expires, or its callback looks. *)
TimerLooks ==
    (T!Expire \/ T!TimeoutCheck) /\ UNCHANGED <<engineVars, app, appVars, vouched>>

(* What a rejection and the esp_timer task do: roll back, or only this. *)
LEMMA RejectCases ==
    ASSUME Reject
    PROVE  (CanRollBack /\ RollBack("reject")) \/ RejectReturns
  BY DEF Reject, RejectReturns

LEMMA TimeoutCases ==
    ASSUME Timeout
    PROVE  (CanRollBack /\ RollBack("timeout")) \/ TimeoutReturns \/ TimerLooks
  BY DEF Timeout, TimeoutRollback, TimeoutReturns, TimerLooks

LEMMA RollBackMaps ==
    ASSUME IInv, NEW cause \in {"reject", "timeout"}, CanRollBack, RollBack(cause)
    PROVE  (T!GoBack(cause) /\ running # T!Factory) \/ T!Reset
<1>1. CASE boot = running
  BY <1>1 DEF RollBack, CanRollBack
<1>2. CASE boot # running
  <2>1. ~T!OnTrial
    BY <1>2 DEF IInv, VouchInv
  <2>. QED
    BY <1>2, <2>1 DEF RollBack, T!Reset
<1>. QED
  BY <1>1, <1>2

LEMMA TrialMaps ==
    ASSUME IInv, [Next]_vars
    PROVE  TrialNext \/ (~Guarded /\ PlainUpdate) \/ UNCHANGED trialVars
<1>1. CASE MainStep
  <2>1. ASSUME Diagnose PROVE TrialNext
    BY <2>1 DEF Diagnose, TrialNext, Callers
  <2>2. ASSUME Reject PROVE TrialNext \/ UNCHANGED trialVars
    <3>1. CASE CanRollBack /\ RollBack("reject")
      <4>1. (T!GoBack("reject") /\ running # T!Factory) \/ T!Reset
        BY <3>1, RollBackMaps
      <4>2. pc["main"] = "idle"
        BY <2>2 DEF Reject, IInv, AppInv
      <4>. QED
        BY <4>1, <4>2 DEF TrialNext, T!TrialReject, Callers
    <3>2. CASE RejectReturns
      BY <3>2 DEF RejectReturns
    <3>. QED
      BY <2>2, <3>1, <3>2, RejectCases
  <2>3. ASSUME BeginTrial PROVE TrialNext \/ UNCHANGED trialVars
    BY <2>3 DEF BeginTrial, TrialNext, Callers
  <2>. QED
    BY <1>1, <2>1, <2>2, <2>3
    DEF MainStep, StartRollback, CheckConnection, StartBasic, StartOnDemand, StartAdvanced
<1>2. ASSUME NEW t \in Callers, TrialStep(t) PROVE TrialNext
  BY <1>2 DEF TrialStep, TrialNext
<1>3. ASSUME CmdConfirm PROVE TrialNext
  BY <1>3 DEF CmdConfirm, TrialNext, Callers
<1>4. ASSUME CmdRollback PROVE TrialNext
  <2>1. (T!GoBack("reject") /\ running # T!Factory) \/ T!Reset
    BY <1>4, RollBackMaps DEF CmdRollback
  <2>2. pc["repl"] = "idle"
    BY <1>4 DEF CmdRollback, Prompt
  <2>. QED
    BY <2>1, <2>2 DEF TrialNext, T!TrialReject, Callers
<1>5. ASSUME NEW t \in Updaters, Erase(t) PROVE TrialNext
  <2>1. T!FailedUpdate
    BY <1>5 DEF Erase, T!FailedUpdate, Target
  <2>. QED
    BY <2>1 DEF TrialNext
<1>6. ASSUME Timeout PROVE TrialNext
  <2>1. CASE T!Expire \/ T!TimeoutCheck
    BY <2>1 DEF TrialNext, T!TimerStep
  <2>2. CASE CanRollBack /\ RollBack("timeout")
    <3>1. timer_pc = "rollback" \/ T!Expire \/ T!TimeoutCheck
      BY <1>6 DEF Timeout, TimeoutRollback
    <3>2. T!GoBack("timeout") \/ T!Reset
      BY <2>2, RollBackMaps
    <3>. QED
      BY <3>1, <3>2 DEF TrialNext, T!TimerStep, T!TimeoutRollback
  <2>3. CASE TimeoutReturns
    BY <2>3 DEF TimeoutReturns, TrialNext, T!TimerStep, T!TimeoutRollback
  <2>. QED
    BY <1>6, <2>1, <2>2, <2>3, TimeoutCases DEF TimerLooks
<1>7. ASSUME Reboot PROVE TrialNext \/ (~Guarded /\ PlainUpdate)
  BY <1>7, RebootMaps DEF TrialNext
<1>8. CASE CmdOta \/ BeginUpdate \/ \E t \in Updaters : Commit(t) \/ Refuse(t) \/ Return(t)
  BY <1>8 DEF CmdOta, BeginUpdate, Commit, Refuse, Return
<1>. QED
  BY <1>1, <1>2, <1>3, <1>4, <1>5, <1>6, <1>7, <1>8 DEF Next, Restart, vars

LEMMA TrialInvNext ==
    ASSUME IInv, [Next]_vars
    PROVE  TrialInv'
  BY TrialMaps, TrialInvStep DEF IInv

-----------------------------------------------------------------------------
(* Every step keeps the rest. *)

AppsInv == AppInv /\ UpdatesOnlyConfirmed /\ CommittedIsBooted

(* After a boot nobody is anywhere. *)
LEMMA FreshAppLemma ==
    ASSUME IInv, FreshApp, boot' = running', pc'["main"] = "idle"
    PROVE  AppsInv'
  BY DEF FreshApp, AppsInv, AppInv, UpdatesOnlyConfirmed, CommittedIsBooted,
         IInv, MainPcs, UpdatePcs, E!Phases, Updaters

LEMMA BootKeepsVouch ==
    ASSUME IInv, FreshApp, boot' = running', \A t \in Callers : pc'[t] = "idle",
           vouched' \subseteq T!Partitions,
           Guarded => \A p \in T!Partitions : ota_state'[p] = "valid" => p \in vouched'
    PROVE  VouchInv'
  BY DEF FreshApp, VouchInv, Guarded

LEMMA RollBackStep ==
    ASSUME IInv, NEW cause \in {"reject", "timeout"}, RollBack(cause)
    PROVE  VouchInv' /\ AppsInv'
<1>1. FreshApp /\ boot' = running' /\ (\A t \in Callers : pc'[t] = "idle")
  BY DEF RollBack, T!GoBack, T!FreshBoot
<1>2. vouched' \subseteq T!Partitions
  BY DEF RollBack, IInv, VouchInv
<1>3. ASSUME Guarded, NEW p \in T!Partitions, ota_state'[p] = "valid"
      PROVE  p \in vouched'
  <2>1. ota_state \in [T!Partitions -> T!States] /\ running \in T!Partitions
    BY DEF IInv, TrialInv, T!TypeOK
  <2>2. CASE boot = running
    BY <1>3, <2>1, <2>2 DEF RollBack, T!GoBack, IInv, VouchInv
  <2>3. CASE boot # running
    BY <1>3, <2>3 DEF RollBack, IInv, VouchInv
  <2>. QED
    BY <2>2, <2>3
<1>. QED
  BY <1>1, <1>2, <1>3, FreshAppLemma, BootKeepsVouch DEF Callers

LEMMA RebootStep ==
    ASSUME IInv, Reboot
    PROVE  VouchInv' /\ AppsInv'
<1>. USE DEF T!Reset, T!GoBack
<1>1. FreshApp /\ boot' = running' /\ (\A t \in Callers : pc'[t] = "idle")
  BY DEF Reboot, T!FreshBoot
<1>2. vouched' \subseteq T!Partitions
  BY DEF Reboot, IInv, VouchInv
<1>3. ASSUME Guarded, NEW p \in T!Partitions, ota_state'[p] = "valid"
      PROVE  p \in vouched'
  <2>1. ota_state \in [T!Partitions -> T!States] /\ running \in T!Partitions
    BY DEF IInv, TrialInv, T!TypeOK
  <2>2. CASE boot = running /\ T!OnTrial
    BY <1>3, <2>1, <2>2 DEF Reboot, T!WaysBack, IInv, VouchInv
  <2>3. CASE boot = running /\ ~T!OnTrial
    BY <1>3, <2>1, <2>3 DEF Reboot, IInv, VouchInv
  <2>4. CASE boot # running
    BY <1>3, <2>1, <2>4, TargetFacts DEF Reboot, IInv, VouchInv
  <2>. QED
    BY <2>2, <2>3, <2>4
<1>. QED
  BY <1>1, <1>2, <1>3, FreshAppLemma, BootKeepsVouch DEF Callers

(* A step within a boot that erases nothing. *)
LEMMA VouchKept ==
    ASSUME IInv, UNCHANGED <<running, app>>, T!OnTrial' => T!OnTrial,
           \A p \in T!Partitions : ota_state'[p] = "valid" =>
              ota_state[p] = "valid" \/ (p = running /\ running \in vouched),
           vouched' \in {vouched, vouched \cup {running}},
           \A t \in Callers : pc'[t] \in {"stopping", "marking"} => running \in vouched',
           boot' = boot \/ (boot' = Target /\ erased),
           erased' => erased
    PROVE  VouchInv'
<1>1. Target' = Target /\ Target # running /\ running \in T!Partitions
  BY TargetFacts DEF Target, T!NextSlot, IInv, TrialInv, T!TypeOK
<1>. QED
  BY <1>1 DEF IInv, VouchInv, Guarded

LEMMA EraseStep ==
    ASSUME IInv, NEW t \in Updaters, Erase(t)
    PROVE  VouchInv' /\ AppsInv'
<1>1. Target' = Target /\ Target # running /\ Target \in T!Partitions
  BY TargetFacts DEF Erase, Target, T!NextSlot
<1>2. ota_state \in [T!Partitions -> T!States]
  BY DEF IInv, TrialInv, T!TypeOK
<1>3. ~T!OnTrial'
  BY <1>1, <1>2 DEF Erase, T!OnTrial
<1>4. VouchInv'
  BY <1>1, <1>2, <1>3 DEF Erase, IInv, VouchInv, Guarded
<1>5. AppsInv'
  BY <1>3 DEF Erase, IInv, AppsInv, AppInv, UpdatesOnlyConfirmed, CommittedIsBooted
<1>. QED
  BY <1>4, <1>5


(* A task's way through trial_begin() and trial_confirm(): where it goes, and
   what it does to the flash. *)
LEMMA CallFacts ==
    ASSUME IInv, NEW t \in Callers,
           T!TrialBegin(t) \/ T!TrialConfirm(t) \/ T!TaskStep(t)
    PROVE  /\ pc' \in [Callers -> T!TaskPcs]
           /\ \A u \in Callers \ {t} : pc'[u] = pc[u]
           /\ pc'[t] = "stopping" => T!TrialConfirm(t)
           /\ pc'[t] = "marking" => pc[t] = "stopping"
           /\ T!TaskStep(t) => pc[t] # "idle"
           /\ pc[t] = "stopping" => pc'[t] = "marking"
           /\ running' = running
           /\ T!OnTrial' => T!OnTrial
           /\ \/ ota_state' = ota_state
              \/ pc[t] = "marking" /\ ota_state' = [ota_state EXCEPT ![running] = "valid"]
           /\ pc[t] = "marking" => ~T!OnTrial' \/ confirmFailed'
<1>. USE DEF T!TrialBegin, T!TrialConfirm, T!FindTimer, T!CreateTimer, T!StartTimer,
             T!StopTimer, T!MarkValid, T!Goto, T!TaskStep
<1>1. /\ pc \in [Callers -> T!TaskPcs] /\ running \in T!Partitions
      /\ ota_state \in [T!Partitions -> T!States]
  BY DEF IInv, TrialInv, T!TypeOK
<1>2. PICK label \in T!TaskPcs : pc' = [pc EXCEPT ![t] = label]
  BY DEF T!TaskPcs
<1>3. /\ label = "stopping" => T!TrialConfirm(t)
      /\ label = "marking" => pc[t] = "stopping"
      /\ T!TaskStep(t) => pc[t] # "idle"
      /\ pc[t] = "stopping" => label = "marking"
  BY <1>1, <1>2
<1>4. /\ running' = running
      /\ \/ ota_state' = ota_state
         \/ pc[t] = "marking" /\ ota_state' = [ota_state EXCEPT ![running] = "valid"]
      /\ pc[t] = "marking" =>
           ota_state' = [ota_state EXCEPT ![running] = "valid"] \/ confirmFailed'
  OBVIOUS
<1>5. /\ T!OnTrial' => T!OnTrial
      /\ pc[t] = "marking" => ~T!OnTrial' \/ confirmFailed'
  BY <1>1, <1>4 DEF T!OnTrial
<1>. QED
  BY <1>1, <1>2, <1>3, <1>4, <1>5

(* Steps of app_main() and of the update task outside the component. *)
LEMMA QuietVouch ==
    ASSUME IInv, UNCHANGED <<trialVars, app, vouched>>,
           boot' = boot \/ (boot' = Target /\ erased), erased' => erased
    PROVE  VouchInv'
<1>1. T!OnTrial' = T!OnTrial
  BY DEF T!OnTrial
<1>. QED
  BY <1>1, VouchKept DEF IInv, VouchInv

LEMMA MainSteps ==
    ASSUME IInv, StartRollback \/ CheckConnection \/ StartBasic \/ StartOnDemand \/ StartAdvanced
    PROVE  VouchInv' /\ AppsInv'
<1>. USE DEF StartRollback, CheckConnection, StartBasic, StartOnDemand, StartAdvanced, E!Begin
<1>1. VouchInv'
  BY QuietVouch
<1>2. T!OnTrial' = T!OnTrial /\ UNCHANGED <<running, boot, erased, app, pc>>
  BY DEF T!OnTrial
<1>3. CASE StartRollback
  BY <1>1, <1>2, <1>3 DEF AppsInv, AppInv, IInv, MainPcs, UpdatesOnlyConfirmed, CommittedIsBooted
<1>4. CASE StartBasic \/ StartOnDemand \/ StartAdvanced
  BY <1>1, <1>2, <1>4 DEF AppsInv, AppInv, IInv, MainPcs, UpdatePcs,
                    UpdatesOnlyConfirmed, CommittedIsBooted
<1>5. CASE CheckConnection
  <2>1. boot = running
    BY <1>5, NoCommitPending
  <2>2. /\ phase' \in [Updaters -> E!Phases]
        /\ phase'["ota"] = phase["ota"]
        /\ phase'["main"] = "out" \/ main' = "updating"
    BY <1>5 DEF E!Phases, Updaters, IInv, AppInv
  <2>3. AppInv'
    BY <1>2, <1>5, <2>1, <2>2 DEF AppInv, IInv, MainPcs
  <2>4. UpdatesOnlyConfirmed'
    BY <1>2, <1>5 DEF UpdatesOnlyConfirmed, IInv
  <2>5. CommittedIsBooted'
    BY <1>2, <2>1 DEF CommittedIsBooted
  <2>. QED
    BY <1>1, <2>3, <2>4, <2>5 DEF AppsInv
<1>. QED
  BY <1>1, <1>3, <1>4, <1>5

LEMMA SelfTestSteps ==
    ASSUME IInv, Diagnose \/ Reject
    PROVE  VouchInv' /\ AppsInv'
<1>1. CASE Diagnose
  <2>1. T!TrialConfirm("main") /\ "main" \in Callers
    BY <1>1 DEF Diagnose, Callers
  <2>2. UNCHANGED flashVars /\ T!OnTrial' = T!OnTrial
        /\ pc' = [pc EXCEPT !["main"] = "stopping"]
    BY <2>1 DEF T!TrialConfirm, T!Goto, T!OnTrial
  <2>3. pc \in [Callers -> T!TaskPcs] /\ vouched \subseteq T!Partitions
    BY DEF IInv, TrialInv, VouchInv, T!TypeOK
  <2>4. \A t \in Callers : pc'[t] \in {"stopping", "marking"} =>
            running \in vouched \cup {running}
    OBVIOUS
  <2>5. VouchInv'
    BY <1>1, <2>2, <2>4, VouchKept DEF Diagnose
  <2>6. pc'["main"] = "stopping"
    BY <2>1, <2>2, <2>3
  <2>7. AppsInv'
    BY <1>1, <2>2, <2>6 DEF Diagnose, AppsInv, AppInv, UpdatesOnlyConfirmed,
                            CommittedIsBooted, IInv, MainPcs
  <2>. QED
    BY <2>5, <2>7
<1>2. CASE RollBack("reject")
  BY <1>2, RollBackStep
<1>3. CASE RejectReturns
  <2>1. VouchInv'
    BY <1>3, QuietVouch DEF RejectReturns
  <2>2. AppsInv'
    BY <1>3 DEF RejectReturns, AppsInv, AppInv, UpdatesOnlyConfirmed, CommittedIsBooted,
                IInv, MainPcs
  <2>. QED
    BY <2>1, <2>2
<1>. QED
  BY <1>1, <1>2, <1>3, RejectCases

LEMMA TrialCallSteps ==
    ASSUME IInv, NEW t \in Callers,
           \/ t = "main" /\ BeginTrial
           \/ t = "repl" /\ CmdConfirm
           \/ TrialStep(t)
    PROVE  VouchInv' /\ AppsInv'
<1>1. CASE BeginTrial /\ ~T!OnTrial
  <2>1. VouchInv'
    BY <1>1, QuietVouch DEF BeginTrial
  <2>. QED
    BY <1>1, <2>1 DEF BeginTrial, AppsInv, AppInv, UpdatesOnlyConfirmed, CommittedIsBooted,
                      IInv, MainPcs, T!OnTrial
<1>2. CASE ~(BeginTrial /\ ~T!OnTrial)
  <2>1. T!TrialBegin(t) \/ T!TrialConfirm(t) \/ T!TaskStep(t)
    BY <1>2 DEF BeginTrial, CmdConfirm, TrialStep
  <2>2. /\ vouched' \in {vouched, vouched \cup {running}}
        /\ T!TrialConfirm(t) => running \in vouched'
        /\ UNCHANGED <<engineVars, app, connected, ota>>
    <3>1. CASE t = "main" /\ BeginTrial
      <4>1. ~T!TrialConfirm(t)
        BY <1>2, <3>1 DEF BeginTrial, T!TrialBegin, T!TrialConfirm, T!Goto, IInv, TrialInv,
                          T!TypeOK
      <4>. QED
        BY <3>1, <4>1 DEF BeginTrial
    <3>2. CASE t = "repl" /\ CmdConfirm
      BY <3>2 DEF CmdConfirm
    <3>3. CASE TrialStep(t)
      <4>1. ~T!TrialConfirm(t)
        BY <2>1, <3>3, CallFacts DEF TrialStep, T!TrialConfirm
      <4>. QED
        BY <3>3, <4>1 DEF TrialStep
    <3>. QED
      BY <3>1, <3>2, <3>3
  <2>3. \A u \in Callers : pc'[u] \in {"stopping", "marking"} => running \in vouched'
    BY <2>1, <2>2, CallFacts DEF IInv, VouchInv
  <2>4. VouchInv'
    <3>1. \A p \in T!Partitions : ota_state'[p] = "valid" =>
             ota_state[p] = "valid" \/ (p = running /\ running \in vouched)
      BY <2>1, CallFacts DEF IInv, TrialInv, T!TypeOK, VouchInv
    <3>. QED
      BY <2>1, <2>2, <2>3, <3>1, CallFacts, VouchKept
  <2>5. AppInv'
    <3>1. main \in {"starting", "testing"} => t # "main"
      BY CallFacts DEF BeginTrial, CmdConfirm, TrialStep, IInv, AppInv
    <3>2. main = main' \/ main' \in {"done", "aborting", "checking"}
      BY DEF BeginTrial, CmdConfirm, TrialStep, AfterConfirm
    <3>4. main' \in {"starting", "testing"} => pc'["main"] = "idle"
      BY <2>1, <3>1, <3>2, CallFacts DEF IInv, AppInv, Callers
    <3>5. main' = "confirming" => pc'["main"] \in {"stopping", "marking"}
      <4>1. CASE TrialStep("main") /\ t = "main"
        <5>1. main' = "confirming" => main = "confirming" /\ pc'["main"] # "idle"
          BY <4>1 DEF TrialStep, AfterConfirm
        <5>2. pc["main"] = "stopping" => pc'["main"] = "marking"
          BY <4>1, <2>1, CallFacts
        <5>3. main = "confirming" /\ pc["main"] = "marking" => pc'["main"] = "idle"
          BY <4>1 DEF TrialStep, T!TaskStep, T!FindTimer, T!CreateTimer, T!StartTimer,
                      T!StopTimer, T!MarkValid, T!Goto, IInv, TrialInv, T!TypeOK
        <5>. QED
          BY <5>1, <5>2, <5>3 DEF IInv, AppInv
      <4>2. CASE t # "main"
        BY <2>1, <3>2, <4>2, CallFacts DEF IInv, AppInv, Callers
      <4>3. CASE t = "main" /\ BeginTrial
        BY <4>3 DEF BeginTrial
      <4>. QED
        BY <4>1, <4>2, <4>3
    <3>3. /\ main' \in MainPcs
          /\ main' # main =>
               \/ main = "arming" /\ main' = "done"
               \/ main = "confirming" /\ main' \in {"aborting", "checking"}
      BY DEF BeginTrial, CmdConfirm, TrialStep, AfterConfirm, IInv, AppInv, MainPcs
    <3>. QED
      BY <2>1, <2>2, <3>3, <3>4, <3>5, CallFacts DEF IInv, AppInv
  <2>6. UpdatesOnlyConfirmed'
    BY <2>1, <2>2, CallFacts
    DEF BeginTrial, CmdConfirm, TrialStep, AfterConfirm, IInv, AppInv,
        UpdatesOnlyConfirmed
  <2>. QED
    BY <2>2, <2>1, <2>4, <2>5, <2>6, CallFacts DEF AppsInv, CommittedIsBooted, IInv
<1>. QED
  BY <1>1, <1>2

LEMMA UpdateSteps ==
    ASSUME IInv, NEW t \in Updaters,
           CmdOta \/ BeginUpdate \/ Commit(t) \/ Refuse(t) \/ Return(t)
    PROVE  VouchInv' /\ AppsInv'
<1>. USE DEF E!Begin, E!Refuse, E!End, E!Phases
<1>1. VouchInv'
  BY QuietVouch DEF CmdOta, BeginUpdate, Commit, Refuse, Return
<1>2. T!OnTrial' = T!OnTrial /\ UNCHANGED <<running, app, pc>>
  BY DEF T!OnTrial, CmdOta, BeginUpdate, Commit, Refuse, Return
<1>. USE DEF AppsInv, AppInv, UpdatesOnlyConfirmed, CommittedIsBooted, IInv,
             MainPcs, UpdatePcs, Updaters
<1>3. CASE CmdOta
  BY <1>1, <1>2, <1>3 DEF CmdOta, Prompt
<1>4. CASE BeginUpdate
  <2>1. boot = running
    BY <1>4, NoCommitPending DEF BeginUpdate
  <2>. QED
    BY <1>1, <1>2, <1>4, <2>1 DEF BeginUpdate
<1>5. CASE Commit(t)
  BY <1>1, <1>2, <1>5 DEF Commit
<1>6. CASE Refuse(t)
  BY <1>1, <1>2, <1>6 DEF Refuse
<1>7. CASE Return(t)
  BY <1>1, <1>2, <1>7 DEF Return
<1>. QED
  BY <1>1, <1>3, <1>4, <1>5, <1>6, <1>7

LEMMA TimeoutStep ==
    ASSUME IInv, Timeout
    PROVE  VouchInv' /\ AppsInv'
<1>1. CASE RollBack("timeout")
  BY <1>1, RollBackStep
<1>2. CASE TimeoutReturns \/ TimerLooks
  <2>1. UNCHANGED <<flashVars, pc, engineVars, app, appVars, vouched>>
    BY <1>2 DEF TimeoutReturns, TimerLooks, T!Expire, T!TimeoutCheck
  <2>2. T!OnTrial' = T!OnTrial
    BY <2>1 DEF T!OnTrial
  <2>3. VouchInv'
    BY <2>1, <2>2, VouchKept DEF IInv, VouchInv
  <2>. QED
    BY <2>1, <2>2, <2>3 DEF AppsInv, AppInv, UpdatesOnlyConfirmed, CommittedIsBooted, IInv
<1>. QED
  BY <1>1, <1>2, TimeoutCases

LEMMA NextIInv ==
    ASSUME IInv, [Next]_vars
    PROVE  IInv'
<1>1. TrialInv'
  BY TrialInvNext
<1>2. CASE UNCHANGED vars
  <2>1. VouchInv'
    BY <1>2, QuietVouch DEF vars
  <2>. QED
    BY <1>1, <1>2, <2>1 DEF vars, IInv, AppInv, UpdatesOnlyConfirmed, CommittedIsBooted, T!OnTrial
<1>3. CASE Next
  <2>1. VouchInv' /\ AppsInv'
    BY <1>3, MainSteps, SelfTestSteps, TrialCallSteps, RollBackStep, UpdateSteps,
       EraseStep, TimeoutStep, RebootStep
    DEF Next, MainStep, CmdRollback, Restart, Callers, Updaters
  <2>. QED
    BY <1>1, <2>1 DEF IInv, AppsInv
<1>. QED
  BY <1>2, <1>3

LEMMA InitIInv ==
    ASSUME Init
    PROVE  IInv
<1>1. T!FirstFlashed \in T!Partitions
  BY NumSlotsAssumption, HasFactoryAssumption
     DEF T!FirstFlashed, T!Partitions, T!OtaSlots, T!Factory
<1>2. T!TypeOK
  BY <1>1 DEF Init, T!Init, T!TypeOK, T!States, T!TaskPcs, T!TimerPcs
<1>3. ota_state[running] = "valid" /\ ~T!OnTrial
  BY <1>1 DEF Init, T!Init, T!OnTrial
<1>4. TrialInv
  BY <1>2, <1>3 DEF TrialInv, Init, T!Init, T!TrialHasWayBack
<1>5. VouchInv
  BY <1>1, <1>3 DEF VouchInv, Init, T!Init, E!Init
<1>6. AppsInv
  BY <1>3 DEF AppsInv, AppInv, UpdatesOnlyConfirmed, CommittedIsBooted, Init, T!Init, E!Init,
              E!Phases, MainPcs, UpdatePcs, Updaters, Callers
<1>. QED
  BY <1>4, <1>5, <1>6 DEF IInv, AppsInv

LEMMA IInvAlways == Spec => []IInv
<1>1. Init => IInv
  BY InitIInv
<1>2. IInv /\ [Next]_vars => IInv'
  BY NextIInv
<1>. QED
  BY <1>1, <1>2, PTL DEF Spec

-----------------------------------------------------------------------------
(* The theorems. *)

(* Every variable has its type, for every partition table. *)
THEOREM TypeCorrect == Spec => []TypeOK
<1>1. IInv => TypeOK
  BY TargetFacts DEF IInv, TrialInv, VouchInv, AppInv, TypeOK
<1>. QED
  BY <1>1, IInvAlways, PTL

(* examples/rollback updates no image that is still on trial: neither after a
   confirmation that failed nor after a rejection that came back, whose
   connect_err then ends the boot (rollback/main/main.c:120-134). *)
THEOREM OnlyConfirmedUpdates == Spec => []UpdatesOnlyConfirmed
<1>1. IInv => UpdatesOnlyConfirmed
  BY DEF IInv
<1>. QED
  BY <1>1, IInvAlways, PTL

(* While any update of the applications is under way, the boot partition is
   the running one: no committed image is written over before it is booted. *)
THEOREM CommittedBooted == Spec => []CommittedIsBooted
<1>1. IInv => CommittedIsBooted
  BY DEF IInv
<1>. QED
  BY <1>1, IInvAlways, PTL

(* The applications over the engine's flash implement TrialRun: every step of
   the device is one of its steps, or leaves the trial alone. *)
THEOREM TrialRefined == Spec => TrialKept
<1>1. Init => (Guarded => T!Init)
  BY DEF Init
<1>2. IInv /\ [Next]_vars => [Guarded => T!Next]_trialVars
  <2>1. TrialNext => T!Next
    BY DEF TrialNext, T!Next
  <2>. QED
    BY <2>1, TrialMaps
<1>. QED
  BY <1>1, <1>2, IInvAlways, PTL DEF Spec, TrialKept

LEMMA LifeGoBack ==
    ASSUME IInv, Guarded, NEW cause \in {"reset", "reject", "timeout"}, T!GoBack(cause),
           vouched' = vouched \ {running}
    PROVE  Life!GoBack
<1>1. running' \in T!Partitions \ {running} /\ ota_state[running'] = "valid" /\ ~T!OnTrial'
  BY GoBackStep DEF IInv
<1>2. running' \in vouched
  BY <1>1 DEF IInv, VouchInv
<1>. QED
  BY <1>1, <1>2 DEF Life!GoBack, T!OnTrial

LEMMA LifeReboot ==
    ASSUME IInv, Guarded, Reboot
    PROVE  Life!Next \/ UNCHANGED Life!vars
<1>1. CASE boot # running
  <2>1. boot = Target /\ Target \in T!Partitions \ (vouched \cup {running}) /\ ~T!OnTrial
    BY <1>1, TargetFacts DEF IInv, VouchInv
  <2>2. running' = boot /\ ota_state' = [ota_state EXCEPT ![boot] = "pending"]
        /\ UNCHANGED vouched
    BY <1>1 DEF Reboot
  <2>3. T!OnTrial'
    BY <2>1, <2>2 DEF T!OnTrial, IInv, TrialInv, T!TypeOK
  <2>. QED
    BY <2>1, <2>2, <2>3 DEF Life!Next, Life!Install, T!OnTrial
<1>2. CASE boot = running /\ T!OnTrial
  <2>1. T!GoBack("reset")
    BY <1>2 DEF Reboot, T!Reset
  <2>2. vouched' = vouched \ {running}
    BY <1>2, <2>1, GoBackStep DEF Reboot, IInv
  <2>. QED
    BY <2>1, <2>2, LifeGoBack DEF Life!Next
<1>3. CASE boot = running /\ ~T!OnTrial
  BY <1>3 DEF Reboot, T!Reset, Life!vars, T!OnTrial
<1>. QED
  BY <1>1, <1>2, <1>3

LEMMA LifeRollBack ==
    ASSUME IInv, Guarded, NEW cause \in {"reject", "timeout"}, RollBack(cause)
    PROVE  Life!Next \/ UNCHANGED Life!vars
<1>1. CASE boot = running
  <2>1. Life!GoBack
    BY <1>1, LifeGoBack DEF RollBack
  <2>. QED
    BY <2>1 DEF Life!Next
<1>2. CASE boot # running
  BY <1>2 DEF RollBack, Life!vars, T!OnTrial
<1>. QED
  BY <1>1, <1>2

LEMMA LifeCall ==
    ASSUME IInv, NEW t \in Callers, TrialStep(t)
    PROVE  Life!Next \/ UNCHANGED Life!vars
<1>1. T!TaskStep(t) /\ UNCHANGED vouched
  BY DEF TrialStep
<1>2. running' = running
      /\ \/ ota_state' = ota_state
         \/ pc[t] = "marking" /\ ota_state' = [ota_state EXCEPT ![running] = "valid"]
  BY <1>1, CallFacts
<1>3. CASE ota_state' = ota_state
  BY <1>1, <1>2, <1>3 DEF Life!vars, T!OnTrial
<1>4. CASE pc[t] = "marking" /\ ota_state' = [ota_state EXCEPT ![running] = "valid"]
  <2>1. running \in vouched /\ ~T!OnTrial'
    BY <1>2, <1>4 DEF T!OnTrial, IInv, TrialInv, VouchInv, T!TypeOK
  <2>2. CASE T!OnTrial
    <3>1. Life!Confirm
      BY <1>1, <1>2, <2>1, <2>2 DEF Life!Confirm, T!OnTrial
    <3>. QED
      BY <3>1 DEF Life!Next
  <2>3. CASE ~T!OnTrial
    BY <1>1, <1>2, <2>1, <2>3 DEF Life!vars, T!OnTrial
  <2>. QED
    BY <2>2, <2>3
<1>. QED
  BY <1>2, <1>3, <1>4

LEMMA LifeErase ==
    ASSUME IInv, NEW t \in Updaters, Erase(t)
    PROVE  Life!Overwrite
<1>1. Target \in T!Partitions \ {running}
  BY TargetFacts
<1>2. ~T!OnTrial /\ ~T!OnTrial' /\ running' = running /\ vouched' = vouched \ {Target}
  BY <1>1 DEF Erase, T!OnTrial, IInv, TrialInv, T!TypeOK
<1>. QED
  BY <1>1, <1>2 DEF Life!Overwrite, T!OnTrial

(* In a build with rollback the device implements the firmware life: nothing is
   installed during a trial, only an image somebody vouched for outlives its
   trial, and only such an image is gone back to. *)
THEOREM LifeRefined == Spec => LifeKept
<1>1. Init => (Guarded => Life!Init)
  <2>. SUFFICES ASSUME Init PROVE Life!Init
    OBVIOUS
  <2>1. running \in T!Partitions
    BY InitIInv DEF IInv, TrialInv, T!TypeOK
  <2>2. ota_state[running] = "valid" /\ vouched = {running}
    BY <2>1 DEF Init, T!Init
  <2>. QED
    BY <2>1, <2>2 DEF Life!Init, T!OnTrial
<1>2. ASSUME IInv, [Next]_vars, Guarded
      PROVE  Life!Next \/ UNCHANGED Life!vars
  <2>1. ASSUME UNCHANGED vars
        PROVE  UNCHANGED Life!vars
    BY <2>1 DEF vars, Life!vars, T!OnTrial
  <2>2. ASSUME TimeoutReturns \/ TimerLooks PROVE UNCHANGED Life!vars
    BY <2>2 DEF TimeoutReturns, TimerLooks, T!Expire, T!TimeoutCheck, Life!vars, T!OnTrial
  <2>3. ASSUME RejectReturns PROVE UNCHANGED Life!vars
    BY <2>3 DEF RejectReturns, Life!vars, T!OnTrial
  <2>4. ASSUME Diagnose \/ CmdConfirm PROVE Life!Vouch
    BY <2>4 DEF Diagnose, CmdConfirm, T!TrialConfirm, Life!Vouch, T!OnTrial
  <2>5. ASSUME BeginTrial PROVE UNCHANGED Life!vars
    BY <2>5 DEF BeginTrial, T!TrialBegin, Life!vars, T!OnTrial
  <2>6. ASSUME \/ StartRollback \/ CheckConnection \/ StartBasic \/ StartOnDemand \/ StartAdvanced
               \/ CmdOta \/ BeginUpdate
               \/ \E t \in Updaters : Commit(t) \/ Refuse(t) \/ Return(t)
        PROVE  UNCHANGED Life!vars
    BY <2>6 DEF StartRollback, CheckConnection, StartBasic, StartOnDemand, StartAdvanced, CmdOta, BeginUpdate,
                Commit, Refuse, Return, Life!vars, T!OnTrial
  <2>7. CASE MainStep
    BY <2>3, <2>4, <2>5, <2>6, <2>7, RejectCases, LifeRollBack, <1>2 DEF MainStep, Life!Next
  <2>8. CASE Timeout
    BY <2>2, <2>8, TimeoutCases, LifeRollBack, <1>2
  <2>9. CASE CmdConfirm \/ CmdRollback
    BY <1>2, <2>4, <2>9, LifeRollBack DEF CmdRollback, Life!Next
  <2>10. CASE \E t \in Callers : TrialStep(t)
    BY <1>2, <2>10, LifeCall
  <2>11. CASE \E t \in Updaters : Erase(t)
    <3>1. Life!Overwrite
      BY <1>2, <2>11, LifeErase
    <3>. QED
      BY <3>1 DEF Life!Next
  <2>12. CASE Reboot
    BY <1>2, <2>12, LifeReboot
  <2>. QED
    <3>1. CASE CmdOta \/ BeginUpdate \/ \E t \in Updaters : Commit(t) \/ Refuse(t) \/ Return(t)
      BY <2>6, <3>1
    <3>. QED
      BY <1>2, <2>1, <2>7, <2>8, <2>9, <2>10, <2>11, <2>12, <3>1 DEF Next, Restart
<1>3. IInv /\ [Next]_vars => [Guarded => Life!Next]_(Life!vars)
  BY <1>2
<1>. QED
  BY <1>1, <1>3, IInvAlways, PTL DEF Spec, LifeKept

-----------------------------------------------------------------------------
(* What else the device may never do. *)

(* A build with rollback runs, off trial, only an image somebody vouched for:
   the self-test (rollback/main/main.c:124) or the operator's 'confirm'
   (advanced/main/main.c:295). *)
OnlyVouchedRuns == Guarded /\ ~T!OnTrial => running \in vouched

(* A trial never lacks proven firmware to be called off for: no update,
   rollback or rejection before it costs the image to go back to, so neither a
   failed self-test (rollback/main/main.c:129) nor the timeout
   (ota-api-trial.c:55) finds esp_ota_mark_app_invalid_rollback_and_reboot()
   refusing for want of one, or restarting into an image nobody vouched for. *)
TrialCanBeUndone == T!OnTrial => CanRollBack /\ (Guarded => T!WaysBack \subseteq vouched)

(* However the applications, the timeout and power cuts interleave, nothing is
   booted past a complete update: the boot partition moves to the other slot
   only when an update commits what it erased and wrote, and else only back to
   what the device runs from now on, which somebody vouched for. *)
BootEarned ==
    [][boot' # boot =>
         \/ /\ \E t \in Updaters : phase[t] = "open" /\ phase'[t] = "committed"
            /\ boot' # running' /\ erased
         \/ boot' = running' /\ (Guarded => boot' \in vouched /\ ~T!OnTrial')]_vars

(* No image outlives its trial without a voucher. *)
THEOREM VouchedRuns == Spec => []OnlyVouchedRuns
<1>1. IInv => OnlyVouchedRuns
  BY DEF IInv, TrialInv, VouchInv, T!TypeOK, T!OnTrial, OnlyVouchedRuns
<1>. QED
  BY <1>1, IInvAlways, PTL

(* The way back from a trial is open and leads to proven firmware. *)
THEOREM TrialUndone == Spec => []TrialCanBeUndone
<1>1. IInv => TrialCanBeUndone
  BY DEF IInv, TrialInv, T!TrialHasWayBack, T!WaysBack, VouchInv, CanRollBack, TrialCanBeUndone
<1>. QED
  BY <1>1, IInvAlways, PTL

(* Leaving for an older image, by whichever way. *)
LEMMA BackToVouched ==
    ASSUME IInv, NEW cause \in {"reset", "update", "reject", "timeout"}, T!GoBack(cause)
    PROVE  Guarded => running' \in vouched /\ ~T!OnTrial'
  BY GoBackStep DEF IInv, VouchInv

LEMMA BootMoves ==
    ASSUME IInv, [Next]_vars, boot' # boot
    PROVE  \/ \E t \in Updaters : Commit(t)
           \/ Reboot \/ \E cause \in {"reject", "timeout"} : RollBack(cause)
  BY DEF Next, vars, MainStep, StartRollback, Diagnose, Reject, CheckConnection, StartBasic,
         StartOnDemand, StartAdvanced, BeginTrial, TrialStep, CmdOta, CmdConfirm, CmdRollback,
         BeginUpdate, E!Begin, Erase, Refuse, E!Refuse, Return, E!End, Timeout,
         TimeoutRollback, Restart

(* The engine under the applications keeps its promise, and the bootloader and
   the rollback only ever return to proven firmware
   (ota-api.c:148-153, ota-api-trial.c:54,137-156). *)
THEOREM BootIsEarned == Spec => BootEarned
<1>1. ASSUME IInv, [Next]_vars, boot' # boot
      PROVE  \/ /\ \E t \in Updaters : phase[t] = "open" /\ phase'[t] = "committed"
                /\ boot' # running' /\ erased
             \/ boot' = running' /\ (Guarded => boot' \in vouched /\ ~T!OnTrial')
  <2>1. ASSUME NEW t \in Updaters, Commit(t)
        PROVE  /\ phase[t] = "open" /\ phase'[t] = "committed"
               /\ boot' # running' /\ erased
    BY <1>1, <2>1, TargetFacts DEF Commit, IInv, AppInv
  <2>2. CASE Reboot
    <3>1. T!GoBack("reset") /\ boot' = running'
      BY <1>1, <2>2 DEF Reboot, T!Reset
    <3>. QED
      BY <1>1, <3>1, BackToVouched
  <2>3. ASSUME NEW cause \in {"reject", "timeout"}, RollBack(cause)
        PROVE  boot' = running' /\ (Guarded => boot' \in vouched /\ ~T!OnTrial')
    <3>1. CASE boot = running
      BY <1>1, <2>3, <3>1, BackToVouched DEF RollBack
    <3>2. CASE boot # running
      <4>1. boot' = running /\ UNCHANGED <<running, ota_state, vouched>>
        BY <2>3, <3>2 DEF RollBack
      <4>3. ~T!OnTrial
        BY <1>1, <3>2 DEF IInv, VouchInv
      <4>2. Guarded => running \in vouched
        BY <1>1, <4>3 DEF IInv, TrialInv, VouchInv, T!TypeOK, T!OnTrial
      <4>. QED
        BY <4>1, <4>2, <4>3 DEF T!OnTrial, Guarded
    <3>. QED
      BY <3>1, <3>2
  <2>. QED
    BY <1>1, <2>1, <2>2, <2>3, BootMoves
<1>2. IInv /\ [Next]_vars =>
        [boot' # boot =>
           \/ /\ \E t \in Updaters : phase[t] = "open" /\ phase'[t] = "committed"
              /\ boot' # running' /\ erased
           \/ boot' = running' /\ (Guarded => boot' \in vouched /\ ~T!OnTrial')]_vars
  BY <1>1
<1>. QED
  BY <1>2, IInvAlways, PTL DEF Spec, BootEarned

-----------------------------------------------------------------------------
(* The engine under the applications. *)

(* What rollback adds to UpdatePromise's reset: the boot partition follows the
   device back to the image it returns to. *)
WentBack ==
    /\ phase' = [t \in Updaters |-> "out"]
    /\ running' \in T!Partitions
    /\ boot' = running'

(* Over the flash the trial works on as well, the engine does what OtaUpdate
   implements: updates of app_main() and of the update task never overlap, each
   is decided once, and none survives a boot or a rollback (ota-api.c:148-153,
   166-216, ota-api-trial.c:55,149). *)
EngineKept == E!Init /\ [][E!Next \/ WentBack]_<<phase, running, boot>>

(* A boot or a rollback ends every update. *)
LEMMA BootEndsUpdates ==
    ASSUME IInv, Reboot \/ \E cause \in {"reject", "timeout"} : RollBack(cause)
    PROVE  WentBack
<1>1. phase' = [t \in Updaters |-> "out"]
  BY DEF Reboot, RollBack, FreshApp
<1>2. running' \in T!Partitions /\ boot' = running'
  BY TargetFacts DEF Reboot, RollBack, T!Reset, T!GoBack, T!WaysBack, IInv, TrialInv, T!TypeOK
<1>. QED
  BY <1>1, <1>2 DEF WentBack

(* The applications use the engine as UpdatePromise allows. *)
THEOREM EngineRefined == Spec => EngineKept
<1>1. Init => E!Init
  BY DEF Init
<1>2. IInv /\ [Next]_vars => [E!Next \/ WentBack]_<<phase, running, boot>>
  <2>. SUFFICES ASSUME IInv, [Next]_vars
                PROVE  E!Next \/ WentBack \/ UNCHANGED <<phase, running, boot>>
    OBVIOUS
  <2>1. ASSUME NEW t \in Updaters, Commit(t) PROVE E!Commit(t)
    BY <2>1, TargetFacts DEF Commit, E!Commit
  <2>2. ASSUME NEW t \in Updaters, Commit(t) \/ Refuse(t) \/ Return(t) PROVE E!Next
    BY <2>1, <2>2 DEF Refuse, Return, E!Next
  <2>3. CASE CheckConnection \/ BeginUpdate
    BY <2>3 DEF CheckConnection, BeginUpdate, E!Next, Updaters
  <2>4. CASE UNCHANGED <<phase, running, boot>>
    BY <2>4
  <2>5. ASSUME NEW t \in Callers, TrialStep(t) PROVE UNCHANGED <<phase, running, boot>>
    BY <2>5, CallFacts DEF TrialStep
  <2>6. \/ CheckConnection \/ BeginUpdate \/ UNCHANGED <<phase, running, boot>>
        \/ \E t \in Updaters : Commit(t) \/ Refuse(t) \/ Return(t)
        \/ \E t \in Callers : TrialStep(t)
        \/ Reboot \/ \E cause \in {"reject", "timeout"} : RollBack(cause)
    BY DEF Next, vars, MainStep, StartRollback, Diagnose, Reject, StartBasic, StartOnDemand,
           StartAdvanced, BeginTrial, T!TrialBegin, T!TrialConfirm, CmdOta, CmdConfirm,
           CmdRollback, Erase, Timeout, TimeoutRollback, T!Expire, T!TimeoutCheck, Restart
  <2>. QED
    BY <2>2, <2>3, <2>4, <2>5, <2>6, BootEndsUpdates
<1>. QED
  BY <1>1, <1>2, IInvAlways, PTL DEF Spec, EngineKept

-----------------------------------------------------------------------------
(* The update task serves requests as the console applications do. *)

(* What ConsoleApps implements in detail, with nothing told of the request. *)
Console == INSTANCE UpdateRequest WITH
               Requests <- {"update"},
               None     <- "none",
               stage    <- ota,
               request  <- IF ota = "idle" THEN "none" ELSE "update"

(* The device's console and update task are an abstraction of ConsoleApps:
   both implement UpdateRequest (advanced/main/main.c:230-268). *)
THEOREM ConsoleKept == Spec => Console!Spec
<1>1. Init => Console!Init
  BY DEF Init, Console!Init
<1>2. IInv /\ [Next]_vars => [Console!Next]_(Console!vars)
  <2>. SUFFICES ASSUME IInv, [Next]_vars, ota' # ota
                PROVE  Console!Next
    BY DEF Console!vars
  <2>. USE DEF Console!Next, Console!Ask, Console!Begin, Console!Succeed, Console!Close
  <2>1. CASE StartBasic
    BY <2>1 DEF StartBasic, IInv, AppInv
  <2>2. CASE CmdOta
    BY <2>2 DEF CmdOta
  <2>3. CASE BeginUpdate
    BY <2>3 DEF BeginUpdate
  <2>4. ASSUME NEW t \in Updaters, Return(t) PROVE Console!Next
    BY <2>4 DEF Return, E!End, Updaters, IInv, AppInv
  <2>5. CASE ota' = "idle"
    BY <2>5
  <2>6. \/ StartBasic \/ CmdOta \/ BeginUpdate \/ ota' = "idle"
        \/ \E t \in Updaters : Return(t)
    BY DEF Next, vars, MainStep, StartRollback, Diagnose, Reject, CheckConnection,
           StartOnDemand, StartAdvanced, BeginTrial, TrialStep, CmdConfirm, CmdRollback,
           Erase, Commit, Refuse, Timeout, TimeoutRollback, Restart, Reboot, RollBack,
           FreshApp
  <2>. QED
    BY <2>1, <2>2, <2>3, <2>4, <2>5, <2>6
<1>. QED
  BY <1>1, <1>2, IInvAlways, PTL DEF Spec, Console!Spec

-----------------------------------------------------------------------------
(* The safety half of TrialDecided. *)

(* While an image is on trial, somebody is at its verdict: app_main() of
   rollback is at the self-test or on its way to an abort, whose restart goes
   back, and advanced is without a countdown only when trial_begin() got no
   timer or one of the two flash writes failed, that of a confirmation that had
   stopped the timer or that of the timeout's own rollback
   (advanced/main/main.c:454, rollback/main/main.c:117-134). *)
TrialWatched ==
    T!OnTrial =>
      /\ Guarded
      /\ app = "rollback" =>
           \/ main \in {"starting", "testing", "confirming", "aborting"}
           \/ main = "checking" /\ ~connected
      /\ NoDeadline => created = 0 \/ confirmFailed \/ rollbackFailed

Counting == armed # {} \/ timer_pc # "idle" \/ \E t \in Callers : pc[t] = "marking"
Arming   == {"arming", "creating", "starting"}

(* Only app_main() of advanced begins a trial, once, and creates the boot's
   first timer; from then on a countdown runs until the verdict, or until one of
   the flash writes that end it fails. *)
WatchInv ==
    /\ T!OnTrial => Guarded
    /\ app = "rollback" /\ main = "done" => ~T!OnTrial
    /\ main = "arming" => app = "advanced"
    /\ \A t \in Callers : pc[t] \in Arming => t = "main" /\ main = "done"
    /\ main \in {"starting", "arming"} \/ pc["main"] \in {"arming", "creating"} => created = 0
    /\ app = "advanced" /\ main = "done" /\ T!OnTrial =>
         \/ Counting \/ pc["main"] \in Arming \/ created = 0
         \/ confirmFailed \/ rollbackFailed

(* A boot is on trial only with rollback enabled, and begins at the beginning. *)
LEMMA BootWatched ==
    ASSUME IInv, WatchInv, Reboot \/ \E cause \in {"reject", "timeout"} : RollBack(cause)
    PROVE  WatchInv'
<1>1. /\ main' = "starting" /\ created' = 0 /\ UNCHANGED app
      /\ \A t \in Callers : pc'[t] = "idle"
  BY DEF Reboot, RollBack, FreshApp, T!Reset, T!GoBack, T!FreshBoot
<1>2. T!OnTrial' => Guarded
  <2>1. ASSUME NEW cause \in {"reset", "reject", "timeout"}, T!GoBack(cause) PROVE ~T!OnTrial'
    BY <2>1, GoBackStep DEF IInv
  <2>2. CASE UNCHANGED <<running, ota_state>>
    BY <2>2 DEF T!OnTrial, WatchInv
  <2>3. CASE boot # running /\ Reboot
    BY <2>3, TargetFacts DEF Reboot, T!OnTrial, IInv, TrialInv, T!TypeOK
  <2>. QED
    BY <2>1, <2>2, <2>3 DEF Reboot, RollBack, T!Reset
<1>. QED
  BY <1>1, <1>2 DEF WatchInv, Arming, Guarded, Callers

(* Steps outside the trial functions. *)
LEMMA QuietWatched ==
    ASSUME IInv, WatchInv,
           \/ StartRollback \/ CheckConnection \/ StartBasic \/ StartOnDemand \/ StartAdvanced
           \/ CmdOta \/ BeginUpdate \/ UNCHANGED vars \/ RejectReturns
           \/ \E t \in Updaters : Erase(t) \/ Commit(t) \/ Refuse(t) \/ Return(t)
    PROVE  WatchInv'
<1>1. /\ T!OnTrial' => T!OnTrial
      /\ UNCHANGED <<app, timerVars, pc, timer_pc, histVars>>
  <2>1. ASSUME NEW t \in Updaters, Erase(t) PROVE T!OnTrial' => T!OnTrial
    BY <2>1, TargetFacts DEF Erase, T!OnTrial
  <2>. QED
    BY <2>1 DEF StartRollback, CheckConnection, StartBasic, StartOnDemand, StartAdvanced, CmdOta,
       BeginUpdate, vars, RejectReturns, Erase, Commit, Refuse, Return, T!OnTrial
<1>2. /\ main' = "starting" => main = "starting"
      /\ main' = "arming" => main \in {"starting", "arming"} /\ app = "advanced"
      /\ main' = "done" =>
           \/ main = "done"
           \/ app \in {"basic", "on_demand"}
           \/ app = "rollback" /\ main = "updating"
      /\ main = "done" => main' = "done"
  BY DEF StartRollback, CheckConnection, StartBasic, StartOnDemand, StartAdvanced, CmdOta,
         BeginUpdate, vars, RejectReturns, Erase, Commit, Refuse, Return, E!End, Updaters,
         IInv, AppInv, WatchInv
<1>3. Counting' = Counting
  BY <1>1 DEF Counting
<1>. QED
  BY <1>1, <1>2, <1>3 DEF WatchInv, IInv, UpdatesOnlyConfirmed, Guarded

(* Entering the trial functions. *)
LEMMA EntryWatched ==
    ASSUME IInv, WatchInv, Diagnose \/ BeginTrial \/ CmdConfirm
    PROVE  WatchInv'
<1>. USE DEF T!TrialBegin, T!TrialConfirm, T!Goto, Counting, Arming
<1>1. pc \in [Callers -> T!TaskPcs] /\ "main" \in Callers /\ "repl" \in Callers
  BY DEF IInv, TrialInv, T!TypeOK, Callers
<1>2. CASE Diagnose
  BY <1>1, <1>2 DEF Diagnose, T!OnTrial, WatchInv, Guarded, IInv, AppInv
<1>3. CASE BeginTrial
  BY <1>1, <1>3 DEF BeginTrial, T!OnTrial, WatchInv, Guarded
<1>4. CASE CmdConfirm
  BY <1>1, <1>4 DEF CmdConfirm, Prompt, T!OnTrial, WatchInv, Guarded
<1>. QED
  BY <1>2, <1>3, <1>4

(* Inside them: a countdown ends in a verdict, or a confirmation failed. *)
LEMMA CallWatched ==
    ASSUME IInv, WatchInv, NEW t \in Callers, TrialStep(t)
    PROVE  WatchInv'
<1>1. pc \in [Callers -> T!TaskPcs] /\ created \in Nat
  BY DEF IInv, TrialInv, T!TypeOK
<1>2. T!OnTrial' => T!OnTrial
  BY CallFacts DEF TrialStep
<1>3. /\ UNCHANGED <<app, connected, ota>>
      /\ main' # main => main = "confirming" /\ main' \in {"aborting", "checking"}
  BY DEF TrialStep, AfterConfirm
<1>4. CASE T!FindTimer(t) \/ T!CreateTimer(t) \/ T!StartTimer(t)
  BY <1>1, <1>2, <1>3, <1>4
  DEF T!FindTimer, T!CreateTimer, T!StartTimer, T!Goto, WatchInv, Counting, Arming, Guarded
<1>5. CASE T!StopTimer(t)
  BY <1>1, <1>2, <1>3, <1>5 DEF T!StopTimer, T!Goto, WatchInv, Counting, Arming, Guarded
<1>6. CASE T!MarkValid(t)
  <2>1. ~T!OnTrial' \/ confirmFailed'
    BY <1>6, CallFacts DEF T!TaskStep, T!MarkValid
  <2>2. created' = created /\ \A u \in Callers : pc'[u] \in {pc[u], "idle"}
    BY <1>1, <1>6 DEF T!MarkValid, T!Goto
  <2>3. main' \notin {"starting", "arming"} \/ main' = main
    BY <1>3
  <2>4. main' = "done" => main = "done"
    BY <1>3
  <2>. QED
    BY <1>2, <1>3, <2>1, <2>2, <2>3, <2>4 DEF WatchInv, Arming, Guarded, Callers
<1>. QED
  BY <1>4, <1>5, <1>6 DEF TrialStep, T!TaskStep

(* The timer expires, its callback looks, or comes back from its rollback. *)
LEMMA TimerWatched ==
    ASSUME IInv, WatchInv, TimerLooks \/ TimeoutReturns
    PROVE  WatchInv'
<1>. USE DEF TimerLooks, TimeoutReturns, T!Expire, T!TimeoutCheck
<1>1. UNCHANGED <<running, ota_state, app, main, pc, created, confirmFailed>>
  OBVIOUS
<1>2. T!OnTrial' = T!OnTrial
  BY <1>1 DEF T!OnTrial
<1>3. T!OnTrial => timer_pc' # "idle" \/ rollbackFailed'
  OBVIOUS
<1>. QED
  BY <1>1, <1>2, <1>3 DEF WatchInv, Counting, Guarded

LEMMA WatchNext ==
    ASSUME IInv, WatchInv, [Next]_vars
    PROVE  WatchInv'
<1>1. CASE MainStep
  BY <1>1, RejectCases, QuietWatched, EntryWatched, BootWatched DEF MainStep
<1>2. CASE Timeout
  BY <1>2, TimeoutCases, TimerWatched, BootWatched
<1>. QED
  BY <1>1, <1>2, QuietWatched, EntryWatched, CallWatched, BootWatched
  DEF Next, CmdRollback, Restart

(* As long as the trial lasts, somebody is at its verdict. *)
THEOREM TrialIsWatched == Spec => []TrialWatched
<1>1. Init => WatchInv
  BY InitIInv DEF Init, T!Init, WatchInv, Arming, IInv, TrialInv, T!OnTrial, T!TypeOK, Callers
<1>2. Spec => []WatchInv
  BY <1>1, WatchNext, IInvAlways, PTL DEF Spec
<1>3. IInv /\ WatchInv => TrialWatched
  BY DEF IInv, AppInv, MainPcs, UpdatesOnlyConfirmed, WatchInv, TrialWatched, NoDeadline,
         Counting, Arming, Callers
<1>. QED
  BY <1>2, <1>3, IInvAlways, PTL
=============================================================================
