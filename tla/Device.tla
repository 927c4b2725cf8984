-------------------------------- MODULE Device --------------------------------
(***************************************************************************)
(* A device with one of the four examples flashed, from boot to boot: the  *)
(* update engine and the trial functions work on one flash, driven by      *)
(* app_main() (main.c of each example), the console, the update task, the  *)
(* esp_timer task and the bootloader.                                      *)
(*                                                                         *)
(* The trial functions are TrialRun's actions.  The engine is reduced to   *)
(* UpdatePromise, which OtaUpdate implements.  Every image installed is    *)
(* another build of the same example.                                      *)
(***************************************************************************)
EXTENDS Integers

CONSTANTS
    NumSlots,     \* OTA partitions in the partition table
    HasFactory    \* whether the table has a factory partition too

ASSUME NumSlotsAssumption   == NumSlots \in Nat /\ NumSlots >= 2
ASSUME HasFactoryAssumption == HasFactory \in BOOLEAN

VARIABLES
    \* TrialRun's: flash, timers, tasks in the trial functions, their history
    running, ota_state, s_trial_timer, created, armed, pc, timer_pc,
    confirmed, lateConfirm, confirmFailed, rollbackFailed, bootCause,
    \* UpdatePromise's
    phase, boot,
    erased,       \* the update in flight got past esp_ota_begin()
    app,          \* which example is flashed
    main,         \* where app_main() is
    connected,    \* rollback: connect_err = ESP_OK
    ota,          \* where the update task is
    vouched       \* history: partitions whose present image was vouched for

Callers  == {"main", "repl"}
Updaters == {"main", "ota"}

T == INSTANCE TrialRun WITH Tasks <- Callers
E == INSTANCE UpdatePromise WITH Tasks <- Updaters, Partitions <- T!Partitions

flashVars  == <<running, ota_state>>
timerVars  == <<s_trial_timer, created, armed>>
histVars   == <<confirmed, lateConfirm, confirmFailed, rollbackFailed, bootCause>>
trialVars  == <<flashVars, timerVars, pc, timer_pc, histVars>>
engineVars == <<phase, boot, erased>>
appVars    == <<main, connected, ota>>
vars == <<trialVars, engineVars, app, appVars, vouched>>

Apps     == {"rollback", "advanced", "basic", "on_demand"}
MainPcs  == {"starting", "testing", "confirming", "checking", "updating",
             "arming", "done", "restarting", "aborting"}
UpdatePcs == {"idle", "requested", "updating", "restarting"}

(* CONFIG_BOOTLOADER_APP_ROLLBACK_ENABLE in the example's sdkconfig.defaults *)
Guarded == app \in {"rollback", "advanced"}

Target == T!NextSlot(running)

FreshApp ==
    /\ main' = "starting"
    /\ connected' = FALSE
    /\ ota' = "idle"
    /\ phase' = [t \in Updaters |-> "out"]
    /\ erased' = FALSE
    /\ UNCHANGED app

Init ==
    /\ T!Init
    /\ E!Init
    /\ erased = FALSE
    /\ app \in Apps
    /\ main = "starting"
    /\ connected = FALSE
    /\ ota = "idle"
    /\ vouched = {running}

-----------------------------------------------------------------------------
(* Flash and bootloader. *)

(* A restart, abort or power cut: the bootloader starts the boot partition,
   a new image on trial if the build has rollback, and an image still on
   trial not at all. *)
Reboot ==
    /\ FreshApp
    /\ \/ /\ boot # running
          /\ running' = boot
          /\ ota_state' = [ota_state EXCEPT ![boot] =
                             IF Guarded THEN "pending" ELSE "valid"]
          /\ T!FreshBoot("update")
          /\ UNCHANGED <<boot, vouched>>
       \/ /\ boot = running
          /\ T!Reset
          /\ boot' = running'
          /\ vouched' = IF running' = running THEN vouched ELSE vouched \ {running}

(* What esp_ota_mark_app_invalid_rollback_and_reboot() needs to succeed: a
   committed image to drop, or another valid one to leave a slot for.  It may
   come back all the same, when its flash write fails (ota-api.h:262). *)
CanRollBack == boot # running \/ (running # T!Factory /\ T!WaysBack # {})

(* esp_ota_mark_app_invalid_rollback_and_reboot() gives up the partition
   otadata names: the running one, or one that was just committed. *)
RollBack(cause) ==
    /\ FreshApp
    /\ \/ /\ boot = running
          /\ T!GoBack(cause)
          /\ boot' = running'
          /\ vouched' = vouched \ {running}
       \/ /\ boot # running
          /\ boot' = running
          /\ T!FreshBoot("reset")
          /\ UNCHANGED <<running, ota_state, vouched>>

-----------------------------------------------------------------------------
(* app_main() of examples/rollback. *)

StartRollback ==
    /\ app = "rollback"
    /\ main = "starting"
    /\ connected' \in BOOLEAN
    /\ main' = IF T!OnTrial THEN "testing" ELSE "checking"
    /\ UNCHANGED <<trialVars, engineVars, app, ota, vouched>>

(* Mutant: the self-test passes whatever the connection. *)
DiagnoseLenient ==
    /\ main = "testing"
    /\ main' = "confirming"
    /\ T!TrialConfirm("main")
    /\ vouched' = IF connected THEN vouched \cup {running} ELSE vouched
    /\ UNCHANGED <<engineVars, app, connected, ota>>

(* run_diagnostic() passes and ota_api_trial_confirm() is called. *)
Diagnose ==
    /\ main = "testing"
    /\ connected
    /\ main' = "confirming"
    /\ T!TrialConfirm("main")
    /\ vouched' = vouched \cup {running}
    /\ UNCHANGED <<engineVars, app, connected, ota>>

(* Mutant: a failed self-test only waits. *)
RejectNothing ==
    /\ main = "testing"
    /\ ~connected
    /\ main' = "done"
    /\ UNCHANGED <<trialVars, engineVars, app, connected, ota, vouched>>

(* It fails: ota_api_trial_reject(), past which the code just goes on. *)
Reject ==
    /\ main = "testing"
    /\ ~connected
    /\ \/ CanRollBack /\ RollBack("reject")
       \/ /\ main' = "checking"
          /\ UNCHANGED <<trialVars, engineVars, app, connected, ota, vouched>>

(* Mutant: nobody looks at connect_err any more. *)
ConnectionUnchecked ==
    /\ main = "checking"
    /\ main' = "updating" /\ E!Begin("main")
    /\ UNCHANGED <<trialVars, erased, app, connected, ota, vouched>>

(* ESP_ERROR_CHECK(connect_err). *)
CheckConnection ==
    /\ main = "checking"
    /\ IF connected
       THEN main' = "updating" /\ E!Begin("main")
       ELSE main' = "aborting" /\ UNCHANGED <<phase, running, boot>>
    /\ UNCHANGED <<trialVars, erased, app, connected, ota, vouched>>

(* app_main() of examples/basic: connects and spawns the update task, each
   under ESP_ERROR_CHECK; then it only waits. *)
StartBasic ==
    /\ app = "basic"
    /\ main = "starting"
    /\ \/ main' = "aborting" /\ UNCHANGED ota
       \/ main' = "done" /\ ota' = "requested"
    /\ UNCHANGED <<trialVars, engineVars, app, connected, vouched>>

(* app_main() of examples/on_demand: connects, makes semaphore and worker and
   starts the console, all under ESP_ERROR_CHECK. *)
StartOnDemand ==
    /\ app = "on_demand"
    /\ main = "starting"
    /\ main' \in {"aborting", "done"}
    /\ UNCHANGED <<trialVars, engineVars, app, connected, ota, vouched>>

(* app_main() of examples/advanced, up to the console. *)
StartAdvanced ==
    /\ app = "advanced"
    /\ main = "starting"
    /\ main' \in {"aborting", "arming"}
    /\ UNCHANGED <<trialVars, engineVars, app, connected, ota, vouched>>

(* advanced: ota_api_trial_begin(0), with the console already up. *)
BeginTrial ==
    /\ main = "arming"
    /\ main' = "done"
    /\ IF T!OnTrial THEN T!TrialBegin("main") ELSE UNCHANGED trialVars
    /\ UNCHANGED <<engineVars, app, connected, ota, vouched>>

(* Mutant: the self-test does not look at what confirming returned. *)
ConfirmUnchecked == "checking"

(* rollback: ESP_ERROR_CHECK(ota_api_trial_confirm()). *)
AfterConfirm == IF confirmFailed' THEN "aborting" ELSE "checking"

(* Inside trial_begin() or trial_confirm(), up to their return. *)
TrialStep(t) ==
    /\ T!TaskStep(t)
    /\ main' = IF t = "main" /\ main = "confirming" /\ pc'[t] = "idle"
               THEN AfterConfirm ELSE main
    /\ UNCHANGED <<engineVars, app, connected, ota, vouched>>

-----------------------------------------------------------------------------
(* The console. *)

Prompt ==
    /\ \/ app = "advanced" /\ main \in {"arming", "done"}
       \/ app = "on_demand" /\ main = "done"
    /\ pc["repl"] = "idle"

(* Mutant: the command asks only whether an update is running. *)
CmdOtaByComponent ==
    /\ Prompt
    /\ ota # "requested"
    /\ phase["ota"] = "out"
    /\ ota' = "requested"
    /\ UNCHANGED <<trialVars, engineVars, app, main, connected, vouched>>

(* 'ota': the application's flag is down, and the task gets its request. *)
CmdOta ==
    /\ Prompt
    /\ ota = "idle"
    /\ ota' = "requested"
    /\ UNCHANGED <<trialVars, engineVars, app, main, connected, vouched>>

CmdConfirm ==
    /\ Prompt
    /\ app = "advanced"
    /\ T!TrialConfirm("repl")
    /\ vouched' = vouched \cup {running}
    /\ UNCHANGED <<engineVars, appVars, app>>

(* 'rollback', of an image on trial or a confirmed one; when the rollback
   comes back it only prints. *)
CmdRollback ==
    /\ Prompt
    /\ app = "advanced"
    /\ CanRollBack
    /\ RollBack("reject")

-----------------------------------------------------------------------------
(* The update, in app_main() of rollback and in the update task elsewhere. *)

BeginUpdate ==
    /\ ota = "requested"
    /\ ota' = "updating"
    /\ E!Begin("ota")
    /\ UNCHANGED <<trialVars, erased, app, main, connected, vouched>>

(* esp_ota_begin() refuses while the running image is on trial, and erases
   the target otherwise. *)
Erase(t) ==
    /\ phase[t] = "open"
    /\ ~erased
    /\ ~T!OnTrial
    /\ erased' = TRUE
    /\ ota_state' = [ota_state EXCEPT ![Target] = "bad"]
    /\ vouched' = vouched \ {Target}
    /\ UNCHANGED <<running, timerVars, pc, timer_pc, histVars, phase, boot,
                   app, appVars>>

(* The target written whole becomes the boot partition. *)
Commit(t) ==
    /\ phase[t] = "open"
    /\ erased
    /\ phase' = [phase EXCEPT ![t] = "committed"]
    /\ boot' = Target
    /\ UNCHANGED <<trialVars, erased, app, appVars, vouched>>

Refuse(t) ==
    /\ E!Refuse(t)
    /\ UNCHANGED <<trialVars, erased, app, appVars, vouched>>

(* ota_api_update() returns: a restart after a success; after a failure
   app_main() of rollback waits for ever, the console takes new commands,
   and basic has nobody left to ask for another update. *)
Return(t) ==
    /\ E!End(t)
    /\ LET next(failed) == IF phase[t] = "committed" THEN "restarting" ELSE failed
       IN IF t = "main" THEN main' = next("done") /\ UNCHANGED ota
                        ELSE ota' = next("idle") /\ UNCHANGED main
    /\ erased' = FALSE
    /\ UNCHANGED <<trialVars, app, connected, vouched>>

-----------------------------------------------------------------------------
(* The esp_timer task. *)

TimeoutRollback ==
    /\ timer_pc = "rollback"
    /\ \/ CanRollBack /\ RollBack("timeout")
       \/ /\ timer_pc' = "idle"
          /\ rollbackFailed' = TRUE
          /\ UNCHANGED <<flashVars, timerVars, pc, confirmed, lateConfirm,
                         confirmFailed, bootCause, engineVars, app, appVars, vouched>>

(* Mutant: the callback trusts that an expired window is an open one. *)
TimeoutTrusting ==
    \/ /\ T!Expire \/ T!TimeoutUnchecked
       /\ UNCHANGED <<engineVars, app, appVars, vouched>>
    \/ TimeoutRollback

Timeout ==
    \/ /\ T!Expire \/ T!TimeoutCheck
       /\ UNCHANGED <<engineVars, app, appVars, vouched>>
    \/ TimeoutRollback

-----------------------------------------------------------------------------
MainStep ==
    \/ StartRollback \/ Diagnose \/ Reject \/ CheckConnection
    \/ StartBasic \/ StartOnDemand \/ StartAdvanced \/ BeginTrial

(* esp_restart(), or the abort() of an ESP_ERROR_CHECK. *)
Restart == (main \in {"restarting", "aborting"} \/ ota = "restarting") /\ Reboot

Next ==
    \/ MainStep
    \/ \E t \in Callers : TrialStep(t)
    \/ CmdOta \/ CmdConfirm \/ CmdRollback
    \/ BeginUpdate
    \/ \E t \in Updaters : Erase(t) \/ Commit(t) \/ Refuse(t) \/ Return(t)
    \/ Timeout
    \/ Restart
    \/ Reboot

(* example_connect() returns, started tasks run and restarts happen; a
   download may stall, and nobody has to type a command. *)
Fairness ==
    /\ WF_vars(MainStep) /\ WF_vars(Restart) /\ WF_vars(Timeout)
    /\ \A t \in Callers : WF_vars(TrialStep(t))

Spec     == Init /\ [][Next]_vars
FairSpec == Spec /\ Fairness

-----------------------------------------------------------------------------
(* Properties *)

TypeOK ==
    /\ T!TypeOK
    /\ phase \in [Updaters -> E!Phases]
    /\ boot \in T!Partitions
    /\ erased \in BOOLEAN
    /\ app \in Apps
    /\ main \in MainPcs
    /\ connected \in BOOLEAN
    /\ ota \in UpdatePcs
    /\ vouched \subseteq T!Partitions

(* rollback/main/main.c:120-134: no image updates itself before it has passed
   its trial.  A confirmation that failed does not get past its ESP_ERROR_CHECK;
   a rejection that came back does, image still on trial and comment above
   line 134 notwithstanding, but only with the error in connect_err that the
   check there aborts for. *)
UpdatesOnlyConfirmed ==
    app = "rollback" /\ T!OnTrial =>
        /\ main \notin {"updating", "restarting"}
        /\ main = "checking" => ~connected

(* A committed image is booted, not written over: no application begins
   another update between the commit and its restart, though the component
   would let it (ota-api.c:180). *)
CommittedIsBooted == (\E t \in Updaters : phase[t] = "open") => boot = running

(* Running over the engine's flash, the applications do to the trial only
   what TrialRun assumes: what it shows of the trial holds on the device. *)
TrialKept == (Guarded => T!Init) /\ [][Guarded => T!Next]_trialVars

(* With rollback enabled the device implements the firmware life: only
   vouched-for images outlive their trial or are gone back to. *)
Life == INSTANCE FirmwareLife WITH
            Partitions <- T!Partitions, onTrial <- T!OnTrial, proven <- vouched

LifeKept == (Guarded => Life!Init) /\ [][Guarded => Life!Next]_(Life!vars)

(* advanced waits with no countdown: trial_begin() ran out of memory, a failed
   confirmation had stopped the timer, or the timeout's rollback came back. *)
NoDeadline ==
    /\ app = "advanced" /\ main = "done"
    /\ armed = {} /\ timer_pc = "idle"
    /\ \A t \in Callers : pc[t] = "idle"

(* In both applications a trial ends, whatever the network does and whether
   or not an operator is there; only a console that was left without a
   countdown waits for one (advanced/main/main.c:454). *)
TrialDecided == T!OnTrial ~> ~T!OnTrial \/ NoDeadline
=============================================================================
