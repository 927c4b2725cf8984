# Verification of esp32s3_ota-api

A model of the OTA component in `src/` (C, ESP-IDF, FreeRTOS), checked with TLC
on small instances and proved with TLAPS for every instance. All
paths below are relative to the repository.

## 1. The system

| Component | State it keeps | Operations | Talks to |
| --- | --- | --- | --- |
| Update slot, `src/ota-api-state.c` | `s_running`, `s_abort_requested` under a spinlock | claim, release, `ota_api_abort()`, `ota_api_abort_requested()`, `ota_api_is_running()` | called by the engine and by any task |
| Update engine, `src/ota-api.c` | the frames of `ota_api_update()` / `run_update()` / `download_image()`; the spawned task's copy of the config | `ota_api_update()` (blocking), `ota_api_start_task()` + `ota_task()` | slot, HTTP setup, reporting, `esp_https_ota` |
| Reporting, `src/ota-api-report.c` | `last_report_us`, a local of the download | dispatch of an event, throttled and forced progress report | the application's `event_cb`, whose verdict is control flow |
| HTTP setup, `src/ota-api-http.c` | none; depends on three build options | `ota_api_build_http_config()` | `esp_https_ota_begin()` |
| Trial run, `src/ota-api-trial.c` | `s_trial_timer`; otherwise the otadata state read live | `ota_api_trial_begin()`, `_confirm()`, `_reject()`, `ota_api_is_on_trial()`, the timeout callback | `esp_timer`, otadata, bootloader rollback |
| Examples, `examples/*/main/main.c` | advanced: `s_ota_pending`, `s_ota_url`; on_demand: `s_ota_running`, `s_ota_url`, a binary semaphore; rollback: `connect_err` | console commands, a worker task, a self-test after boot | the public API |
| OTA server, `examples/common/ota_server.py` | none per request; `--no-range` | single-range requests | the device, over HTTP(S) |

Around them: `esp_https_ota` (writes the target partition, validates it, rewrites
otadata), the partition table, the bootloader and `esp_timer`. They are not in the
repository; the modules model them from how the component uses them.

What is hard here:

* **Interleaving.** Any task may start an update or abort one while another runs;
  the slot's critical sections are short, everything between them is not atomic.
  The trial functions have no lock at all.
* **Order.** The abort flag is looked at in one place; the verdicts of the
  callbacks are looked at in four; the last event is dispatched after the slot is free.
* **Partial failure and power loss.** Every call of `run_update()` can fail, with or
  without a handle to free, and power can go at any write.
* **Long sequences.** Updates without a restart in between, rejections, rollbacks:
  what otadata, the running partition and the content of the slots say of each other.
* **Timers.** The trial timeout races the confirmation it is waiting for.
* **Composition.** An update must not run while an image is on trial, and nobody may
  write over an image between its commit and the restart; neither the engine nor
  the trial functions see to that alone.
* **Number widths** in the progress report and in the size of a ranged request, and
  the **boundaries** of byte ranges.

`PROJECT.json` lists these one by one, at their lines, under `hazards`.

What makes each component correct: the slot, that updates never overlap and an
abort hits only the update it was meant for; the engine, that the handle is freed
exactly once, that an abort or a refusal takes effect within one chunk, that only a
whole image nobody refused becomes the boot partition and that the running image is
never written; reporting, that percentages are true and the throttle thins out
without muting; HTTP setup, that nothing unverified is trusted outside the builds
that ask for it; the trial, that there is always a way back and that the window
ends the trial; the applications, that commands do not disturb an update in flight
and that every trial comes to a verdict; server and device together, that an image
fetched in pieces is the image.

## 2. Modules

| Module | What it is |
| --- | --- |
| `OtaUpdate` | slot and engine, driven by a set of tasks |
| `UpdatePromise` | abstract: an update moves the boot partition in one step at its commit, or not at all |
| `CallbackContract` | abstract: the order in which `event_cb` hears an update, and what a refusal ends |
| `MCOtaUpdate` | instances for TLC |
| `OtaUpdate_proofs`, `OtaUpdateRefines_proofs` | the theorems about `OtaUpdate` |
| `ProgressReport` | throttle, clock and percentage of the progress reports |
| `HttpConfig` | whom an update trusts, under every build and configuration |
| `TrialRun` | trial functions, timer task, otadata states, updates and resets around them |
| `ConsoleApps` | the `ota` command, flags, buffers and update tasks of the two console examples |
| `Device` | the composition: each example over trial, engine, flash and bootloader, from boot to boot |
| `UpdateRequest` | abstract: requests to update are served one at a time, each unchanged from beginning to end |
| `FirmwareLife` | abstract: only an image somebody vouched for outlives its trial or is gone back to |
| `RangedDownload` | an image fetched in ranged requests: the server's `parse_range()`, and the device asking |
| `ProgressReport_proofs`, `HttpConfig_proofs`, `TrialRun_proofs`, `ConsoleApps_proofs`, `Device_proofs`, `RangedDownload_proofs` | the theorems about each |

`Device` instantiates `TrialRun` (`T!`) with the two tasks that call the trial
functions, and uses its actions as they are. It takes the engine as
`UpdatePromise` (`E!`), the abstraction `OtaUpdate` is shown to implement, so that
the details of a download are not interleaved with those of a trial. `FirmwareLife`
is an abstraction of `Device` in turn:

    OtaUpdate --implements--> UpdatePromise, CallbackContract
    ConsoleApps --implements--> UpdateRequest
    Device = TrialRun's actions + UpdatePromise's + bootloader + applications
    Device --implements--> TrialRun, FirmwareLife   (in the builds with rollback)
    Device --implements--> UpdateRequest, UpdatePromise with rollback   (proved)

Operators whose comment begins with "Mutant:" are not part of a model. Each is a
plausible wrong version of the definition below it and breaks one of the
properties; `PROJECT.json` says which.

### OtaUpdate

One entry per task in `pc`, `err`, `handle`, `got`: the frame of the update it runs.
The values of `pc` follow the states of `docs/update_state_machine.md`; each action
is the code between two accesses to something shared (slot, flash, callback):

| Action | Code |
| --- | --- |
| `Update`, `StartTask`, `OtaTask` | `ota_api_update()` up to the claim, called directly or by the spawned task |
| `BuildHttpConfig`, `HttpsOtaBegin` | `run_update()` up to the handle |
| `DispatchStarted`, `CheckIncomingImage` | the STARTED and IMAGE_DESC callbacks and their verdicts |
| `Perform`, `PollAbort`, `LoopReport` | the three calls of the download loop, in their order |
| `CheckComplete`, `ForcedReport` | the explicit completeness check and the last report |
| `HttpsOtaAbort`, `HttpsOtaFinish` | the two ends of the handle |
| `ReleaseUpdateSlot`, `DispatchOutcome`, `EspRestart` | the release, SUCCEEDED/FAILED, and `ota_task()`'s restart |
| `OtaApiAbort` | `ota_api_abort()` from any task |
| `Reset` | power cut, panic or a restart by the application, between any two steps |

A call that is refused at once (NULL arguments, slot taken, no update to abort,
allocation failed) changes nothing and is a stuttering step. `Perform` may deliver a
chunk, nothing yet, the end of a whole or of a truncated response, or an error,
before or after the first write. The callback answers what it likes. `abortAt` and
`refused` are history variables: when an abort first hit the current update, and
which partitions hold an image the callback refused. `bootable` is the set of
partitions the bootloader would start; a reset starts the one otadata names, or any
other bootable one when that one is damaged.

### ProgressReport

The download loop reduced to what a report depends on: the clock, the bytes, the
throttle's timestamp. C widths are parameters (`IntMax`, `LongMax`), and the product
of the percentage is converted to the type it is computed in.

### HttpConfig

The decision of `ota_api_build_http_config()` followed by the gate of
`esp_https_ota_begin()` and the connection that results; inputs are all URL schemes,
configurations and builds.

### TrialRun

Application tasks are inside `trial_begin()` (`arming`, `creating`, `starting`) or
`trial_confirm()` (`stopping`, `marking`); the esp_timer task is in `trial_timeout()`
(`expired`, before its check; `rollback`, after it). `ota_state` is what otadata says
of each partition. Updates, failed updates, rejections and resets happen around them.
The flash writes of `MarkValid`, `TimeoutRollback` and `TrialReject` may fail, and the
call then comes back with otadata as it was; a rejection that does so is a stuttering
step. `confirmFailed` and `rollbackFailed` are history: a confirmation, or the
rollback of the timeout, failed in this boot.

### ConsoleApps

`app` says which of the two examples is flashed. The REPL task goes through
`cmd_ota()` one access at a time (`copying`, `forcing`, `claiming`, `handing over`);
the update tasks are the worker of `examples/on_demand` or those
`ota_api_start_task()` creates for `examples/advanced`, with `on_ota_event_cb()`. The
component is reduced to its slot, `s_running`, and to whether the update succeeds.
`order` and `asked` are history: the command an update task works for.

### Device

`app` is the example flashed, fixed for the life of a device: every image installed
is another build of it. `main` is where `app_main()` is, `ota` where the update
task is, `pc` and `timer_pc` where `TrialRun` has the callers and the esp_timer task.

| Action | Code |
| --- | --- |
| `StartRollback`, `Diagnose`, `Reject`, `AfterConfirm`, `CheckConnection` | `app_main()` of `examples/rollback`: self-test, verdict, update |
| `StartBasic`, `StartOnDemand`, `StartAdvanced`, `BeginTrial` | `app_main()` of the others; advanced arms the countdown with its console already up |
| `CmdOta`, `CmdConfirm`, `CmdRollback` | the console commands |
| `TrialStep`, `Timeout`, `TimeoutRollback` | inside the trial functions, one access at a time; the timer task |
| `BeginUpdate`, `Erase`, `Commit`, `Refuse`, `Return` | an update, from the request to the restart |
| `Reboot`, `Restart`, `RollBack` | bootloader; `esp_restart()` and failed `ESP_ERROR_CHECK`s; `esp_ota_mark_app_invalid_rollback_and_reboot()` |

`esp_ota_begin()` refuses while the running image is on trial, which is all that
keeps an update from erasing the way back. `RollBack` gives up the partition otadata
names, which after a commit is the new one; wherever it is called the call may also
come back with an error (include/ota-api.h:262) and the caller goes on: `Reject` to the
check of `connect_err`, `TimeoutRollback` to a spent timer, `CmdRollback` to its
prompt. `CmdOta` takes the command's two checks, which only read, as one. A `Reboot`
may happen between any two steps. `vouched` is history: the partitions whose image a
self-test or an operator vouched for.

### RangedDownload

A byte of the image is its position. `ParseRange` is the server's, on headers
reduced to their form and two numbers; the device's side is the configuration
`run_update()` makes (a `size_t` becomes an `int`) and the loop of `esp_https_ota`
as `examples/common/test_ota_server.py` spells it out.

## 3. Runs

| Run | Instance | Shows |
| --- | --- | --- |
| `update_safety` | 2 tasks, factory + 2 slots, 2 chunks | the seven safety properties of the engine, and both abstract specifications implemented |
| `update_abort_live` | 2 tasks, 2 slots, 1 chunk, fair | an accepted abort ends in a free slot |
| `progress` | intervals 0, 1, 2 ms; chunks of 0, 148, 150 of 300 bytes; 5 ms | percentages, throttle and last report |
| `http_config` | the whole input space | trust decisions |
| `trial_safety` | 3 tasks, 3 slots, no factory, fair | way back, timer handle, the admitted race; an open window ends the trial, unless one of two flash writes fails |
| `console_apps` | 2 update tasks, 2 URLs, fair | the URL buffer and the force flag are the command's own, no update begins beside another one or its outcome event, no command is lost, the console unlocks |
| `device` | 2 slots, no factory, all four examples, fair | no image on trial updates itself, whatever the self-test's calls return; what a commit leads to; `TrialRun` and `FirmwareLife` implemented; every trial is decided |
| `ranged_download` | images of 0 to 6 bytes, every request size of 4 bits, server with and without ranges | `parse_range()` against the definition of a byte range; the image reassembled |
| `update_abort_lost`, `update_restart_lost`, `update_refused_boots` | as `update_safety`, 1 chunk | violated: see section 5 |
| `trial_silence` | 2 tasks, 2 slots, fair | violated: see section 5 |

Bounds. Two tasks are enough for every race over one slot, since at most one update
is in flight (`OneUpdateAtATime`) and a third task could only be refused as well; in
the trial two may race in `trial_begin()` while a third confirms, hence three. Two
slots make the rotation wrap. Two chunks put an abort before, between and after
them. None of these counts limits a behaviour in time: updates, resets and trials
repeat for ever. Only the clock of `ProgressReport` is bounded (`Horizon`). Task
symmetry is used for safety only. `device` takes the partition table of the examples
(two slots, no factory partition), the hardest for the way back; three slots and a factory
partition are covered by the theorems. In `ranged_download` an `int` of 4 bits
(`IntMax` 7) with images up to 6 bytes has requests of one byte, of a divisor, of
all but one byte, of the whole image, larger ones, and those that turn negative.

Deadlock is checked in every run. The slot and the trial never block anyone, and a
device that waits can always be reset.

Fairness, and why. `OtaUpdate`: weak fairness of each task's own steps - FreeRTOS
runs every ready task, each `esp_https_ota` call returns (its client has a
timeout) and the callback is documented to return. Nothing is assumed about
servers: `Perform` may deliver no bytes for ever. Nothing makes an application
start, abort or reset. `TrialRun`: an armed one-shot timer expires, the esp_timer
task runs, and a task inside a trial function gets out of it. `ConsoleApps`: the
REPL task finishes its command and a ready update task runs; a download may stall.
`Device`: `app_main()` proceeds (connecting returns, with an error or without), a
restart that was asked for happens, the timer expires and its task runs, and a task
inside a trial function gets out of it; no fairness for a download, nor for the
operator at the console, so a trial is decided with nobody there.

## 4. Proofs

All for any number of tasks, at least two slots, with or without a factory partition,
any image length, any set of URLs; these are the only assumptions
(`NumSlotsAssumption`, `HasFactoryAssumption`, `ImageChunksAssumption`, and
`UrlsAssumption`: the empty buffer and the URL that does not fit are not among
those that do; in `ProgressReport`, that the image's size is an `int` and 100 times
an `int` fits in an `int64_t`; in `RangedDownload`, that sizes of images are `int`s).
Two theorems of the same name in different modules are about different modules'
properties.

* **`OtaUpdate_proofs`.** `IInv` strengthens the invariants into an inductive one. To
  the properties themselves it adds what they lean on: a task outside the slot has
  an empty frame (no handle, nothing received, no abort noted); a task past the
  completeness check has every chunk; an update that is still on its way has an OK
  verdict and error; the target is never the running partition, whose image is
  bootable. One lemma per action shows that it is preserved. From it follow
  `TypeCorrect`, `MutualExclusion`, `HandleSafety`, `BoundedAbortLatency`,
  `NoAbortLeak`, `RunningImageSafe`, and the action property `EarnedCommit`.
  The last one needs a second invariant, `OwnImage`: from the first
  chunk it writes to its commit or abort, the target holds the update's own image,
  which nobody has refused. `LateAbortsLost` and `RestartFirstSuffices`
  draw the boundary of three findings (section 5). `AbortNearsRelease` is described
  below.
* **`OtaUpdateRefines_proofs`.** `ImplementsContract` and `ImplementsPromise`: every
  step under `IInv` is a step of the abstract specification or leaves its variables
  alone. The promise's `phase` is a function of `pc` and `err`.
* **`TrialRun_proofs`.** `IInv` adds to the properties that the running image is never
  a bad one, that a task about to start a timer finds one, and that a confirmed
  image is off trial. From it `TypeCorrect`, `WayBackKept`, `TimerStarted`,
  `AdmittedRaceOnly`. With `PastCheck` (the timer task past its check runs an image
  on trial, or one confirmed too late) also `ProvenStays`: an image off trial is left
  only for an update or by a reject, or by the timeout in that one race, and never by
  resets.
* **`ConsoleApps_proofs`.** The flag is a baton: it is down, or held by the command
  being handed over, by the request in the semaphore, or by exactly one update task,
  and only a command that found it down writes the buffers. `IInv` says so (`Baton`),
  that the holder finds its own command in the buffers (`BufferKept`), that the slot
  is taken exactly while a task is in it, and which program points belong to which
  example. From it `TypeCorrect`, `BufferSafe`, `ClaimGranted`, `ForceRespected`,
  `RequestKept`. `ServedOneAtATime` is the refinement of `UpdateRequest`: the stage is
  read off the command, the semaphore and the tasks, and the request off the shared
  buffers, so that it says of the flag what the flag is for. An `Idle` that asks the
  component instead of the flag, or a claim made later in the command, breaks it
  (both are mutants of the run `console_apps`).
* **`ProgressReport_proofs`.** `Percent` is exact division for every image an `int`
  can count, and so between 0 and 100, 100 only at the end (`PercentCorrect`). The
  throttle needs `ClockOfReport`: `last_report_us` is the time of the report heard
  last. From it `TypeCorrect`, `NeverMuted`, `WholeReported`, `GapAlwaysKept`.
  `NeverGoesBack`: within an update time, bytes and percentage of the reports never
  decrease (`PercentMonotone`, and `ReportBehind`: the last report is not ahead).
* **`HttpConfig_proofs`.** `IInv` says that the configuration handed over is what
  `Trust` makes of the application's (`ConfigKept`) and that any connection follows
  from it (`Connected`). From it `TypeCorrect`, `PlainNeedsBuild`,
  `UnverifiedNeedsLab`, `GateAgrees`, `NameChecked`.
* **`Device_proofs`.** `TrialInv` is what `TrialRun`'s invariant says of the shared
  flash; every step of the device is one of `TrialRun`'s, leaves its variables alone, or
  (in a build without rollback) boots an update that counts as valid at once. `VouchInv` relates images to who vouched for them: in
  a build with rollback every valid image was vouched for, and the partition about
  to be confirmed is among them. `AppInv` says where an application can be while an
  update is open; in particular, boot and running partition differ only from a
  commit to the restart. From them `TypeCorrect`, `OnlyConfirmedUpdates`,
  `CommittedBooted`, `TrialRefined`, `LifeRefined`. What that means for the owner of a
  device is stated by three more: with rollback an image that runs off trial was
  vouched for (`VouchedRuns`), during a trial there is always an image to go back to, and only such ones
  (`TrialUndone`), and the boot partition moves only by a commit of what was erased
  and written, or back to such firmware (`BootIsEarned`). `EngineRefined` closes the
  composition on the engine's side: the device's updates are steps of `UpdatePromise`,
  but for `WentBack`, the return to another image that rollback adds to its reset.
  `ConsoleKept`: the update task implements `UpdateRequest`, as `ConsoleApps` does in
  detail.
* **`RangedDownload_proofs`.** `RangesExact`: `ParseRange` answers every header with
  the bytes it selects. `Reassembled` rests on three facts about the loop: what
  is written is a prefix of the image (`Prefix`); another range is only asked for
  when the server honours ranges and the request size is positive (`Continues`);
  the answer in flight starts where the prefix ends (`Fits`). `RangesAdvance`: a
  range that does not end the download brings exactly the request size, which is
  positive, so no server makes the device ask for the same range for ever.

Only model-checked: the four liveness properties, since fairness and ENABLED are
beyond the prover. The part of each argument that is about states and steps is
proved, which leaves to TLC that the fair steps are taken:

| Liveness | Proved beside it |
| --- | --- |
| `AbortFreesSlot` | `AbortNearsRelease`: with an abort accepted, each step of the update lowers a rank that starts at nine at most, no step of another task raises it or takes the wish back, and the slot is released at its end |
| `WindowEndsTrial` | `WindowStaysOpen`: a step that closes an open window either ends the trial or is one of the two flash writes that fail, a confirmation's or that of the timeout's rollback (the finding `SilenceGoesBack`) |
| `ConsoleUnlocks` | `OneHolder`: a raised flag always has exactly one holder on its way to lower it, so it is never left up by nobody |
| `TrialDecided` | `TrialIsWatched`: during a trial the self-test has not been passed, or its application is about to abort; or a countdown runs, or one of three failures has happened that leave the verdict to the operator: no memory for the timer, a confirmation or the timeout's rollback failing in its flash write |

The theorems without a run's property beside them (`PROJECT.json` names no
"property" for them) are about formulas stated in the proof modules.

## 5. Where the documentation and the code differ

Each is a property the documentation states and a run violates.

* `AcceptedAbortStops` - README.md:18. An abort accepted after the loop's last look at
  the flag does nothing; the new firmware is committed. Only such an abort can be lost:
  every update that commits in spite of one had its last chunk already (`LateAbortsLost`).
* `RestartsIntoNewFirmware` - README.md:15. The slot is free before `ota_task()`
  restarts; another update may erase what was just committed. The device still
  boots (`NeverStranded`), but not the update that reported success.
* `RefusedFirmwareNeverBoots` - docs/update_state_machine.md:124. After a committed
  update without a restart the next one writes the slot that is already the boot
  partition; refusing it there leaves it to be booted.
  This and the one before are one hazard: `RestartFirstSuffices` proves that both
  statements hold where no update opens between a commit and the restart
  (`RestartsFirst`), which is what `CommittedBooted` proves of the examples.
* `SilenceGoesBack` - src/ota-api-trial.c:36. A confirmation that fails in the flash
  write has already stopped the countdown; and when the flash write of the timeout's own
  rollback fails, that call comes back (src/ota-api-trial.c:55), its error is dropped and
  the one-shot timer is spent. Where neither write fails an open window does end the
  trial (`WindowEndsTrial`), and no other step closes it (`WindowStaysOpen`).

Noted without a run of their own:

* After a committed update without a restart a failed one also leaves the boot
  partition on the new slot, against docs/update_state_machine.md:112 (the same state
  as in the run `update_refused_boots`).
* The forced report may follow the one before it at less than the "minimum gap" of
  include/ota-api.h:111; `GapKept` therefore speaks of the loop's reports.
* A confirmation between the timeout's check and its rollback is lost, against
  include/ota-api.h:246; the comment at src/ota-api-trial.c:46 admits the race, and
  `OnlyTheAdmittedRace` shows it is the only one.
* A rejection may come back with an image still on trial and a way back in place:
  include/ota-api.h:262 allows for "any other error", src/ota-api-trial.c:151 and
  include/ota-api.h:255 say it comes back only when there is nothing to go back to. In
  `examples/rollback` it then reaches main.c:134, against the comments at 129 ("Does not
  return") and 133 ("Reached only when the image is confirmed"); the error in
  `connect_err` still ends the boot there, before any update (`UpdatesOnlyConfirmed`),
  and the bootloader takes the image back.
* Two tasks racing in `trial_begin()` each get a countdown, against
  include/ota-api.h:234; no example calls it from two tasks.

## 6. Not modelled

Log output, the printouts of the examples (`version`, `status`, the progress bar, the
SHA-256), the payload of the events other than progress, `http_event_handler()` (it
only logs), Kconfig defaults, stack sizes and priorities, certificates and signatures,
the console line parser, NVS and network start-up beyond its error, the server's
throttling and delays, pytest and CI: I/O, wording or configuration, with no state the
system's correctness depends on.

An image rebuilt on the server while it is fetched range by range mixes two images;
the server has no validator (`ETag`, `If-Range`) against that, and only the hash
`esp_https_ota_finish()` checks, outside the repository, tells them apart.
`RangedDownload` fixes the image for the length of an update.

## 7. Plan

Done: slot, engine, reporting, HTTP setup, trial, console applications;
the composed device with the self-test of `examples/rollback` and the abstract
firmware life; the server's ranges and the ranged download; every safety and action
property of the runs as a theorem, the refinements of the four abstract
specifications, the safety halves of the liveness properties, and the boundaries of
the findings.

What could follow: `Device` with `OtaUpdate` in the place of `UpdatePromise` as a
refinement of `Device`; a rank for `WindowEndsTrial` and `TrialDecided` like the one of
`AbortNearsRelease`; and, in `HttpConfig`, that what is trusted depends on nothing but
the build, the scheme and the configuration of the update at hand.
