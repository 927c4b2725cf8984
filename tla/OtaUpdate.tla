------------------------------ MODULE OtaUpdate ------------------------------
(***************************************************************************)
(* The update engine (src/src/ota-api.c) and the single update slot it     *)
(* runs under (src/src/ota-api-state.c), driven by any number of FreeRTOS  *)
(* tasks: a task either calls ota_api_update() itself or is the one        *)
(* ota_api_start_task() spawned.  Every step between two accesses to       *)
(* shared state (the slot's two flags, the flash, the callback) is one     *)
(* action; the program counter uses the state names of                     *)
(* docs/update_state_machine.md.                                           *)
(*                                                                         *)
(* External, modelled from how the engine uses them: esp_https_ota (opens  *)
(* a handle, writes the target partition, validates it, rewrites otadata), *)
(* the partition table, and the bootloader's choice at a reset.  The       *)
(* application's event_cb answers as it likes.                             *)
(***************************************************************************)
EXTENDS Integers

CONSTANTS
    Tasks,        \* tasks that may run an update
    NumSlots,     \* OTA partitions in the partition table
    HasFactory,   \* whether the table has a factory partition too
    ImageChunks   \* chunks esp_https_ota needs for a whole image

ASSUME NumSlotsAssumption    == NumSlots \in Nat /\ NumSlots >= 2
ASSUME HasFactoryAssumption  == HasFactory \in BOOLEAN
ASSUME ImageChunksAssumption == ImageChunks \in Nat /\ ImageChunks >= 1

Factory    == -1
OtaSlots   == 0 .. NumSlots - 1
Partitions == OtaSlots \cup (IF HasFactory THEN {Factory} ELSE {})

(* Where idf.py flash puts the first firmware, by partition table. *)
FirstFlashed == IF HasFactory THEN Factory ELSE 0

(* Mutant: the rotation forgets to wrap after the last slot. *)
NextSlotNoWrap(p) == p + 1

(* esp_ota_get_next_update_partition(NULL): round robin after the running one. *)
NextSlot(p) == IF p = NumSlots - 1 THEN 0 ELSE p + 1

(* VETO is any value but ESP_OK that event_cb returns, IDF any other error
   of esp_https_ota or the network below it. *)
Verdicts == {"OK", "VETO"}
Errors   == {"INVALID_ARG", "NOT_FINISHED", "VALIDATE_FAILED", "VETO", "IDF"}
Events   == {"STARTED", "IMAGE_DESC", "PROGRESS", "SUCCEEDED", "FAILED"}

NoEvent  == "none"
NotAsked == -1

VARIABLES
    \* ota-api-state.c
    s_running, s_abort_requested,
    \* one entry per task: the frames of ota_api_update() and run_update()
    pc, spawned, err, event_cb, handle, got,
    \* what event_cb was last told and last answered in the current update
    heard, verdict,
    \* history: chunks received when ota_api_abort() first hit this update
    abortAt,
    \* the device: running partition, otadata, partitions that would boot,
    \* and (history) those whose present content event_cb refused
    running, boot, bootable, refused

slotVars  == <<s_running, s_abort_requested>>
eventVars == <<heard, verdict>>
flashVars == <<boot, bootable, refused>>
vars == <<s_running, s_abort_requested, pc, spawned, err, event_cb, handle,
          got, heard, verdict, abortAt, running, boot, bootable, refused>>

-----------------------------------------------------------------------------

(* Program points at which run_update() is active under the slot, and those
   of them at which it owns an esp_https_ota handle. *)
HandlePcs == {"notifying", "inspecting", "downloading", "polling",
              "reporting", "verifying", "lastReport", "committing", "aborting"}
SlotPcs   == HandlePcs \cup {"configuring", "connecting", "releasing"}
Pcs       == SlotPcs \cup {"idle", "created", "settling", "restarting"}

(* Mutant: the target is chosen from otadata instead of what runs. *)
TargetAfterBoot == NextSlot(boot)

InFlight == {t \in Tasks : pc[t] \in SlotPcs}

Target == NextSlot(running)

IsRunning == s_running

Init ==
    /\ s_running = FALSE
    /\ s_abort_requested = FALSE
    /\ pc = [t \in Tasks |-> "idle"]
    /\ spawned = [t \in Tasks |-> FALSE]
    /\ err = [t \in Tasks |-> "OK"]
    /\ event_cb = [t \in Tasks |-> FALSE]
    /\ handle = [t \in Tasks |-> "none"]
    /\ got = [t \in Tasks |-> 0]
    /\ heard = [t \in Tasks |-> NoEvent]
    /\ verdict = [t \in Tasks |-> "OK"]
    /\ abortAt = [t \in Tasks |-> NotAsked]
    /\ running = FirstFlashed
    /\ boot = FirstFlashed
    /\ bootable = {FirstFlashed}
    /\ refused = {}

-----------------------------------------------------------------------------

Goto(t, label) == pc' = [pc EXCEPT ![t] = label]

(* Leave the straight path of run_update() with error e, to label. *)
Fail(t, e, label) == err' = [err EXCEPT ![t] = e] /\ Goto(t, label)

Continue(t, label) == Goto(t, label) /\ UNCHANGED err

(* ota_api_update() returns: its frame is gone. *)
Return(t, label) ==
    /\ Goto(t, label)
    /\ spawned' = [spawned EXCEPT ![t] = FALSE]
    /\ err' = [err EXCEPT ![t] = "OK"]
    /\ event_cb' = [event_cb EXCEPT ![t] = FALSE]
    /\ verdict' = [verdict EXCEPT ![t] = "OK"]

(* ota_api_dispatch_event(): without a callback the answer is ESP_OK;
   otherwise the callback hears the event and its verdict decides whether
   the update goes on to label or is aborted. *)
DispatchEvent(t, event, label) ==
    \/ ~event_cb[t] /\ Continue(t, label) /\ UNCHANGED eventVars
    \/ /\ event_cb[t]
       /\ heard' = [heard EXCEPT ![t] = event]
       /\ \E v \in Verdicts :
            /\ verdict' = [verdict EXCEPT ![t] = v]
            /\ \/ v = "OK" /\ Continue(t, label)
               \/ v # "OK" /\ Fail(t, v, "aborting")

(* Mutant: the slot is handed out without looking whether it is taken. *)
ClaimUnchecked(t) ==
    /\ s_running' = TRUE
    /\ s_abort_requested' = FALSE
    /\ Goto(t, "configuring")
    /\ \E has \in BOOLEAN : event_cb' = [event_cb EXCEPT ![t] = has]
    /\ heard' = [heard EXCEPT ![t] = NoEvent]

(* ota_api_claim_update_slot() when the slot is free: the update begins. *)
ClaimUpdateSlot(t) ==
    /\ ~s_running
    /\ s_running' = TRUE
    /\ s_abort_requested' = FALSE
    /\ Goto(t, "configuring")
    /\ \E has \in BOOLEAN : event_cb' = [event_cb EXCEPT ![t] = has]
    /\ heard' = [heard EXCEPT ![t] = NoEvent]

(* A task calls ota_api_update() itself.  A NULL config or url, or a taken
   slot, gives it an error at once, dispatches nothing and touches nothing
   of the running update: a stuttering step. *)
Update(t) ==
    /\ pc[t] = "idle"
    /\ ClaimUpdateSlot(t)
    /\ UNCHANGED <<spawned, err, handle, got, verdict, abortAt, running, flashVars>>

(* ota_api_start_task(): a task is created; a NULL url, a failed malloc or a
   failed xTaskCreate leaves nothing behind and is a stuttering step. *)
StartTask(t) ==
    /\ pc[t] = "idle"
    /\ Goto(t, "created")
    /\ spawned' = [spawned EXCEPT ![t] = TRUE]
    /\ UNCHANGED <<slotVars, err, event_cb, handle, got, eventVars, abortAt,
                   running, flashVars>>

(* ota_task() gets the CPU: it frees the copied config and calls
   ota_api_update(); when the slot is taken the task deletes itself. *)
OtaTask(t) ==
    /\ pc[t] = "created"
    /\ \/ ClaimUpdateSlot(t) /\ UNCHANGED spawned
       \/ /\ s_running
          /\ Goto(t, "idle")
          /\ spawned' = [spawned EXCEPT ![t] = FALSE]
          /\ UNCHANGED <<slotVars, event_cb, heard>>
    /\ UNCHANGED <<err, handle, got, verdict, abortAt, running, flashVars>>

BuildHttpConfig(t) ==
    /\ pc[t] = "configuring"
    /\ \/ Continue(t, "connecting")
       \/ Fail(t, "INVALID_ARG", "releasing")
    /\ UNCHANGED <<slotVars, spawned, event_cb, handle, got, eventVars,
                   abortAt, running, flashVars>>

(* Mutant: a failed begin falls into the cleanup of a started update. *)
BeginFailsIntoAbort(t) ==
    /\ pc[t] = "connecting"
    /\ \/ /\ Continue(t, "notifying")
          /\ handle' = [handle EXCEPT ![t] = "open"]
       \/ Fail(t, "IDF", "aborting") /\ UNCHANGED handle
    /\ UNCHANGED <<slotVars, spawned, event_cb, got, eventVars, abortAt,
                   running, flashVars>>

(* esp_https_ota_begin(): no handle exists when it fails. *)
HttpsOtaBegin(t) ==
    /\ pc[t] = "connecting"
    /\ \/ /\ Continue(t, "notifying")
          /\ handle' = [handle EXCEPT ![t] = "open"]
       \/ Fail(t, "IDF", "releasing") /\ UNCHANGED handle
    /\ UNCHANGED <<slotVars, spawned, event_cb, got, eventVars, abortAt,
                   running, flashVars>>

DispatchStarted(t) ==
    /\ pc[t] = "notifying"
    /\ DispatchEvent(t, "STARTED", "inspecting")
    /\ UNCHANGED <<slotVars, spawned, event_cb, handle, got, abortAt,
                   running, flashVars>>

(* Mutant: the answer to IMAGE_DESC is dropped. *)
InspectIgnoringVerdict(t) ==
    /\ pc[t] = "inspecting"
    /\ \/ Fail(t, "IDF", "aborting") /\ UNCHANGED eventVars
       \/ ~event_cb[t] /\ Continue(t, "downloading") /\ UNCHANGED eventVars
       \/ /\ event_cb[t]
          /\ heard' = [heard EXCEPT ![t] = "IMAGE_DESC"]
          /\ \E v \in Verdicts : verdict' = [verdict EXCEPT ![t] = v]
          /\ Continue(t, "downloading")
    /\ UNCHANGED <<slotVars, spawned, event_cb, handle, got, abortAt,
                   running, flashVars>>

CheckIncomingImage(t) ==
    /\ pc[t] = "inspecting"
    /\ \/ Fail(t, "IDF", "aborting") /\ UNCHANGED eventVars
       \/ DispatchEvent(t, "IMAGE_DESC", "downloading")
    /\ UNCHANGED <<slotVars, spawned, event_cb, handle, got, abortAt,
                   running, flashVars>>

(* The first perform erases the target; a chunk that completes the image
   leaves a partition that boots if the server sent a sound image. *)
Overwrite(p) ==
    /\ bootable' = bootable \ {p}
    /\ refused' = refused \ {p}

(* esp_https_ota_perform(): one chunk, or none yet from a slow server (both
   IN_PROGRESS); ESP_OK when the server has nothing more to send, whether or
   not that was the whole image; an error before or after the erase. *)
Perform(t) ==
    /\ pc[t] = "downloading"
    /\ \/ /\ got[t] < ImageChunks
          /\ got' = [got EXCEPT ![t] = @ + 1]
          /\ Continue(t, "polling")
          /\ \/ Overwrite(Target)
             \/ /\ got[t] + 1 = ImageChunks
                /\ bootable' = bootable \cup {Target}
                /\ refused' = refused \ {Target}
       \/ /\ got[t] < ImageChunks
          /\ Continue(t, "polling")
          /\ Overwrite(Target)
          /\ UNCHANGED got
       \/ /\ Continue(t, "verifying")
          /\ \/ got[t] < ImageChunks /\ Overwrite(Target)
             \/ got[t] = ImageChunks /\ UNCHANGED <<bootable, refused>>
          /\ UNCHANGED got
       \/ /\ Fail(t, "IDF", "aborting")
          /\ \/ got[t] < ImageChunks /\ Overwrite(Target)
             \/ UNCHANGED <<bootable, refused>>
          /\ UNCHANGED got
    /\ UNCHANGED <<slotVars, spawned, event_cb, handle, eventVars, abortAt,
                   running, boot>>

(* Mutant: the loop never looks at the flag. *)
PollNothing(t) ==
    /\ pc[t] = "polling"
    /\ Continue(t, "reporting")
    /\ UNCHANGED <<slotVars, spawned, event_cb, handle, got, eventVars,
                   abortAt, running, flashVars>>

(* ota_api_abort_requested() inside the loop: the only cancellation point. *)
PollAbort(t) ==
    /\ pc[t] = "polling"
    /\ \/ s_abort_requested /\ Fail(t, "NOT_FINISHED", "aborting")
       \/ ~s_abort_requested /\ Continue(t, "reporting")
    /\ UNCHANGED <<slotVars, spawned, event_cb, handle, got, eventVars,
                   abortAt, running, flashVars>>

(* ota_api_report_progress(): a throttled or size-less report never reaches
   event_cb and cannot object. *)
ReportProgress(t, label) ==
    \/ Continue(t, label) /\ UNCHANGED eventVars
    \/ DispatchEvent(t, "PROGRESS", label)

LoopReport(t) ==
    /\ pc[t] = "reporting"
    /\ ReportProgress(t, "downloading")
    /\ UNCHANGED <<slotVars, spawned, event_cb, handle, got, abortAt,
                   running, flashVars>>

(* esp_https_ota_is_complete_data_received(). *)
CheckComplete(t) ==
    /\ pc[t] = "verifying"
    /\ \/ got[t] < ImageChunks /\ Fail(t, "VALIDATE_FAILED", "aborting")
       \/ got[t] = ImageChunks /\ Continue(t, "lastReport")
    /\ UNCHANGED <<slotVars, spawned, event_cb, handle, got, eventVars,
                   abortAt, running, flashVars>>

(* Mutant: the answer to the forced report is dropped, like that to an
   outcome event. *)
ForcedReportDiscarded(t) ==
    /\ pc[t] = "lastReport"
    /\ Continue(t, "committing")
    /\ \/ UNCHANGED eventVars
       \/ /\ event_cb[t]
          /\ heard' = [heard EXCEPT ![t] = "PROGRESS"]
          /\ \E v \in Verdicts : verdict' = [verdict EXCEPT ![t] = v]
    /\ UNCHANGED <<slotVars, spawned, event_cb, handle, got, abortAt,
                   running, flashVars>>

ForcedReport(t) ==
    /\ pc[t] = "lastReport"
    /\ ReportProgress(t, "committing")
    /\ UNCHANGED <<slotVars, spawned, event_cb, handle, got, abortAt,
                   running, flashVars>>

(* esp_https_ota_abort() closes the handle; the bytes stay in the target. *)
HttpsOtaAbort(t) ==
    /\ pc[t] = "aborting"
    /\ Continue(t, "releasing")
    /\ handle' = [handle EXCEPT ![t] = "none"]
    /\ refused' = IF verdict[t] = "VETO" /\ got[t] > 0
                  THEN refused \cup {Target} ELSE refused
    /\ UNCHANGED <<slotVars, spawned, event_cb, got, eventVars, abortAt,
                   running, boot, bootable>>

(* Mutant: otadata is rewritten before the target is validated. *)
FinishBeforeValidation(t) ==
    /\ pc[t] = "committing"
    /\ handle' = [handle EXCEPT ![t] = "none"]
    /\ boot' = Target
    /\ \/ Target \in bootable /\ Continue(t, "releasing")
       \/ Target \notin bootable /\ Fail(t, "VALIDATE_FAILED", "releasing")
    /\ UNCHANGED <<slotVars, spawned, event_cb, got, eventVars, abortAt,
                   running, bootable, refused>>

(* esp_https_ota_finish() frees the handle whatever happens, validates the
   target, and only then rewrites otadata. *)
HttpsOtaFinish(t) ==
    /\ pc[t] = "committing"
    /\ handle' = [handle EXCEPT ![t] = "none"]
    /\ \/ /\ Target \in bootable
          /\ Continue(t, "releasing")
          /\ boot' = Target
       \/ /\ Target \notin bootable
          /\ Fail(t, "VALIDATE_FAILED", "releasing")
          /\ UNCHANGED boot
       \/ /\ Fail(t, "IDF", "releasing")
          /\ UNCHANGED boot
    /\ UNCHANGED <<slotVars, spawned, event_cb, got, eventVars, abortAt,
                   running, bootable, refused>>

(* Mutant: a pending abort survives the update it was meant for. *)
ReleaseKeepingAbort(t) ==
    /\ pc[t] = "releasing"
    /\ s_running' = FALSE
    /\ Goto(t, "settling")
    /\ got' = [got EXCEPT ![t] = 0]
    /\ abortAt' = [abortAt EXCEPT ![t] = NotAsked]
    /\ UNCHANGED <<s_abort_requested, spawned, err, event_cb, handle,
                   eventVars, running, flashVars>>

(* run_update() has returned and its frame is gone. *)
ReleaseUpdateSlot(t) ==
    /\ pc[t] = "releasing"
    /\ s_running' = FALSE
    /\ s_abort_requested' = FALSE
    /\ Goto(t, "settling")
    /\ got' = [got EXCEPT ![t] = 0]
    /\ abortAt' = [abortAt EXCEPT ![t] = NotAsked]
    /\ UNCHANGED <<spawned, err, event_cb, handle, eventVars, running, flashVars>>

(* The last event, after the slot is released; its verdict is discarded.
   Then ota_api_update() returns err: to its caller, or to ota_task(), which
   restarts the device on ESP_OK and deletes itself otherwise. *)
DispatchOutcome(t) ==
    /\ pc[t] = "settling"
    /\ heard' = IF event_cb[t]
                THEN [heard EXCEPT ![t] = IF err[t] = "OK" THEN "SUCCEEDED"
                                                           ELSE "FAILED"]
                ELSE heard
    /\ Return(t, IF spawned[t] /\ err[t] = "OK" THEN "restarting" ELSE "idle")
    /\ UNCHANGED <<slotVars, handle, got, abortAt, running, flashVars>>

(* ota_api_abort() from any task: accepted exactly while the slot is taken;
   otherwise ESP_ERR_INVALID_STATE, a stuttering step. *)
OtaApiAbort ==
    /\ s_running
    /\ s_abort_requested' = TRUE
    /\ abortAt' = [t \in Tasks |->
                     IF t \in InFlight /\ abortAt[t] = NotAsked
                     THEN got[t] ELSE abortAt[t]]
    /\ UNCHANGED <<s_running, pc, spawned, err, event_cb, handle, got,
                   eventVars, running, flashVars>>

(* What the bootloader may start: the partition otadata names, or, when that
   one does not hold a sound image, any other that does. *)
BootChoice == IF boot \in bootable THEN {boot} ELSE bootable

(* Every task and every static variable is gone; flash stays. *)
Reboot ==
    /\ running' \in BootChoice
    /\ s_running' = FALSE
    /\ s_abort_requested' = FALSE
    /\ pc' = [t \in Tasks |-> "idle"]
    /\ spawned' = [t \in Tasks |-> FALSE]
    /\ err' = [t \in Tasks |-> "OK"]
    /\ event_cb' = [t \in Tasks |-> FALSE]
    /\ handle' = [t \in Tasks |-> "none"]
    /\ got' = [t \in Tasks |-> 0]
    /\ heard' = [t \in Tasks |-> NoEvent]
    /\ verdict' = [t \in Tasks |-> "OK"]
    /\ abortAt' = [t \in Tasks |-> NotAsked]
    /\ UNCHANGED flashVars

(* esp_restart() at the end of ota_task(). *)
EspRestart(t) == pc[t] = "restarting" /\ Reboot

(* Power cut, panic, or a restart the application asked for, at any point. *)
Reset == Reboot

-----------------------------------------------------------------------------

(* One step of the task that runs the update. *)
TaskStep(t) ==
    \/ OtaTask(t) \/ BuildHttpConfig(t) \/ HttpsOtaBegin(t)
    \/ DispatchStarted(t) \/ CheckIncomingImage(t)
    \/ Perform(t) \/ PollAbort(t) \/ LoopReport(t)
    \/ CheckComplete(t) \/ ForcedReport(t)
    \/ HttpsOtaAbort(t) \/ HttpsOtaFinish(t)
    \/ ReleaseUpdateSlot(t) \/ DispatchOutcome(t) \/ EspRestart(t)

Next ==
    \/ \E t \in Tasks : Update(t) \/ StartTask(t) \/ TaskStep(t)
    \/ OtaApiAbort
    \/ Reset

(* FreeRTOS runs every ready task eventually, every esp_https_ota call
   returns (its HTTP timeout is set) and so does event_cb. *)
Fairness == \A t \in Tasks : WF_vars(TaskStep(t))

Spec     == Init /\ [][Next]_vars
FairSpec == Spec /\ Fairness

-----------------------------------------------------------------------------
(* Properties *)

TypeOK ==
    /\ s_running \in BOOLEAN
    /\ s_abort_requested \in BOOLEAN
    /\ pc \in [Tasks -> Pcs]
    /\ spawned \in [Tasks -> BOOLEAN]
    /\ err \in [Tasks -> {"OK"} \cup Errors]
    /\ event_cb \in [Tasks -> BOOLEAN]
    /\ handle \in [Tasks -> {"none", "open"}]
    /\ got \in [Tasks -> 0 .. ImageChunks]
    /\ heard \in [Tasks -> Events \cup {NoEvent}]
    /\ verdict \in [Tasks -> Verdicts]
    /\ abortAt \in [Tasks -> NotAsked .. ImageChunks]
    /\ running \in Partitions
    /\ boot \in Partitions
    /\ bootable \subseteq Partitions
    /\ refused \subseteq Partitions

(* The invariant ota-api-state.c:5 is built around: two updates never overlap,
   and s_running says whether there is one. *)
OneUpdateAtATime ==
    /\ \A t, u \in InFlight : t = u
    /\ s_running <=> InFlight # {}

(* run_update() owns an open handle exactly where it goes on to use or free
   it: no path leaks the handle past the release, none frees it twice, and
   none hands esp_https_ota_abort() the NULL a failed begin left. *)
HandleDiscipline ==
    \A t \in Tasks : handle[t] = "open" <=> pc[t] \in HandlePcs

(* The latency docs/update_state_machine.md:131 promises: after an accepted
   ota_api_abort() at most one more chunk is received, and an update that did
   receive one is past every point from which it could still commit. *)
AbortLatency ==
    \A t \in Tasks : abortAt[t] # NotAsked =>
        /\ got[t] <= abortAt[t] + 1
        /\ got[t] > abortAt[t] =>
              pc[t] = "polling" \/ err[t] # "OK"

(* docs/update_state_machine.md:170: an abort never leaks into the next
   update - one that stops as aborted was itself asked to, and the flag is
   only ever up for the update that is running. *)
AbortHitsItsOwnUpdate ==
    /\ s_abort_requested => \E t \in InFlight : abortAt[t] # NotAsked
    /\ \A t \in InFlight : err[t] = "NOT_FINISHED" => abortAt[t] # NotAsked

(* docs/update_state_machine.md:115: whatever stops an update, or cuts the
   power, and in however many attempts, the device keeps an image it can
   boot: the one it runs is never written to. *)
NeverStranded == running \in bootable

(* Only a whole image nobody refused becomes the boot partition: the commit
   comes from an update that received every chunk, was given no objection by
   event_cb, and wrote a partition that will boot - its own image, not what a
   refused update had left there. *)
CommitIsEarned ==
    [][boot' # boot =>
         \E t \in InFlight :
            /\ got[t] = ImageChunks
            /\ verdict[t] = "OK"
            /\ err[t] = "OK"
            /\ boot' = Target /\ boot' \in bootable' \ refused']_vars

(* The engine implements the all-or-nothing promise about the boot partition. *)
Phase(t) ==
    IF pc[t] \notin SlotPcs  THEN "out"
    ELSE IF err[t] # "OK"       THEN "refused"
    ELSE IF pc[t] = "releasing" THEN "committed"
    ELSE "open"

Promise == INSTANCE UpdatePromise WITH phase <- [t \in Tasks |-> Phase(t)]

PromiseKept == Promise!Spec

(* event_cb hears every update in the documented order, with one last word
   and no question asked after a refusal (ota-api.h:68-83). *)
Contract == INSTANCE CallbackContract

ContractKept == Contract!Spec

(* ota_api_abort() is cooperative, yet it works on a server that sends
   nothing more: the update it stopped lets go of the slot. *)
AbortFreesSlot == s_abort_requested ~> ~s_running

-----------------------------------------------------------------------------
(* Statements of the documentation the code does not meet. *)

(* README.md:18: an update that accepted an abort leaves the firmware alone -
   the boot partition never moves under one.  The engine looks at the flag
   only after a chunk, never between the last chunk and the commit. *)
AcceptedAbortStops ==
    [][boot' # boot => \A t \in InFlight : abortAt[t] = NotAsked]_vars

(* README.md:15: background mode reboots into the new firmware on success -
   what ota_task() is about to restart into is the image it committed, still
   whole.  The slot was released before the restart, though, so another update
   may be erasing that very partition. *)
RestartsIntoNewFirmware ==
    \A t \in Tasks : pc[t] = "restarting" => boot = Target /\ boot \in bootable

(* docs/update_state_machine.md:124: refusing a downloaded image still
   discards it cleanly - the device never starts a refused one. *)
RefusedFirmwareNeverBoots == [][running' # running => running' \notin refused]_vars
=============================================================================
