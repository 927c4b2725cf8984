--------------------------- MODULE OtaUpdate_proofs ---------------------------
(***************************************************************************)
(* Theorems about OtaUpdate for any set of tasks, any number of OTA slots  *)
(* from two on, with or without a factory partition, and any image size.   *)
(*                                                                         *)
(* The safety invariants are not inductive one by one: what a task may do  *)
(* next depends on what its program counter implies for the error it       *)
(* carries, the chunks it holds and the events it dispatched.  IInv adds   *)
(* exactly that.                                                           *)
(***************************************************************************)
EXTENDS OtaUpdate, TLAPS

(* Points at which no refusal, error or abort has been met yet. *)
CleanPcs == Pcs \ {"aborting", "releasing", "settling"}

(* An update that is still on the straight path carries no error; one that
   was refused carries the refusal. *)
ErrorStops ==
    \A t \in Tasks :
        /\ pc[t] \in CleanPcs => err[t] = "OK"
        /\ pc[t] = "aborting" => err[t] # "OK"
        /\ verdict[t] # "OK" => err[t] # "OK"

(* The whole image is there from the completeness check to the commit. *)
WholeImage ==
    \A t \in Tasks : pc[t] \in {"lastReport", "committing"} => got[t] = ImageChunks

(* Chunks belong to an update that holds the slot, and an accepted abort is
   remembered by the flag until that update lets go of it. *)
StopWishKept ==
    \A t \in Tasks : abortAt[t] # NotAsked =>
        /\ t \in InFlight
        /\ s_abort_requested
        /\ abortAt[t] <= got[t]

(* What event_cb has heard follows from where the update is. *)
Asked == {"STARTED", "IMAGE_DESC", "PROGRESS"}
HeardAt(t) ==
    /\ pc[t] \in {"configuring", "connecting", "notifying"} => heard[t] = NoEvent
    /\ pc[t] = "inspecting" /\ event_cb[t] => heard[t] = "STARTED"
    /\ pc[t] \in {"downloading", "polling", "reporting", "verifying",
                  "lastReport", "committing"} /\ event_cb[t]
         => heard[t] \in {"IMAGE_DESC", "PROGRESS"}
    /\ pc[t] \in {"releasing", "settling"} /\ err[t] = "OK" /\ event_cb[t]
         => heard[t] \in {"IMAGE_DESC", "PROGRESS"}
    /\ pc[t] \in SlotPcs \cup {"settling"} => heard[t] \in Asked \cup {NoEvent}
    /\ pc[t] \in SlotPcs \cup {"settling"} /\ ~event_cb[t] => heard[t] = NoEvent
    /\ pc[t] \in {"idle", "created", "restarting"} =>
         heard[t] \in {NoEvent, "SUCCEEDED", "FAILED"}
    /\ ~event_cb[t] => verdict[t] = "OK"
HeardFollowsPc == \A t \in Tasks : HeardAt(t)

IInv ==
    /\ TypeOK
    /\ OneUpdateAtATime
    /\ HandleDiscipline
    /\ ErrorStops
    /\ WholeImage
    /\ StopWishKept
    /\ AbortLatency
    /\ AbortHitsItsOwnUpdate
    /\ NeverStranded
    /\ HeardFollowsPc

-----------------------------------------------------------------------------
(* Names of tuples, of program points and of ways to move on, which every proof
   below looks through. *)
USE DEF slotVars, eventVars, flashVars, SlotPcs, HandlePcs, NoEvent, NotAsked,
        Goto, Fail, Continue

(* The partition an update writes is one of the table, never the running one. *)
LEMMA TargetLemma ==
    ASSUME running \in Partitions
    PROVE  Target \in Partitions /\ Target # running
  BY NumSlotsAssumption, HasFactoryAssumption
     DEF Target, NextSlot, Partitions, OtaSlots, Factory

(* A caller's claim is granted only when no update holds the slot. *)
LEMMA UpdateStep ==
    ASSUME IInv, NEW t \in Tasks, Update(t)
    PROVE  IInv'
<1>1. TypeOK'
    BY ImageChunksAssumption DEF IInv, TypeOK, Update, ClaimUpdateSlot, Pcs,
      Errors
<1>2. OneUpdateAtATime'
    BY DEF IInv, TypeOK, OneUpdateAtATime, Update, ClaimUpdateSlot, InFlight
<1>3. HandleDiscipline'
    BY DEF IInv, TypeOK, HandleDiscipline, Update, ClaimUpdateSlot
<1>4. ErrorStops'
    BY DEF IInv, TypeOK, ErrorStops, Update, ClaimUpdateSlot, CleanPcs, Pcs,
      Errors
<1>5. WholeImage'
    BY DEF IInv, TypeOK, WholeImage, Update, ClaimUpdateSlot
<1>6. StopWishKept'
    BY DEF IInv, TypeOK, StopWishKept, Update, ClaimUpdateSlot, InFlight,
      OneUpdateAtATime
<1>7. AbortLatency'
    BY ImageChunksAssumption DEF IInv, TypeOK, AbortLatency, Update,
      ClaimUpdateSlot, ErrorStops, StopWishKept, InFlight, CleanPcs, Pcs
<1>8. AbortHitsItsOwnUpdate'
    BY DEF IInv, TypeOK, AbortHitsItsOwnUpdate, Update, ClaimUpdateSlot,
      InFlight, ErrorStops, CleanPcs, Pcs
<1>9. NeverStranded'
    BY DEF IInv, TypeOK, NeverStranded, Update, ClaimUpdateSlot
<1>10. HeardFollowsPc'
    BY DEF IInv, TypeOK, HeardFollowsPc, Update, ClaimUpdateSlot, HeardAt,
      Asked, ErrorStops, CleanPcs, Pcs, Verdicts
<1>. QED
  BY <1>1, <1>2, <1>3, <1>4, <1>5, <1>6, <1>7, <1>8, <1>9, <1>10 DEF IInv

(* A task that is only created is in nobody's way. *)
LEMMA StartTaskStep ==
    ASSUME IInv, NEW t \in Tasks, StartTask(t)
    PROVE  IInv'
<1>1. TypeOK'
    BY DEF IInv, TypeOK, StartTask, Pcs, Errors
<1>2. OneUpdateAtATime'
    BY DEF IInv, TypeOK, OneUpdateAtATime, StartTask, InFlight
<1>3. HandleDiscipline'
    BY DEF IInv, TypeOK, HandleDiscipline, StartTask
<1>4. ErrorStops'
    BY DEF IInv, TypeOK, ErrorStops, StartTask, CleanPcs, Pcs, Errors
<1>5. WholeImage'
    BY DEF IInv, TypeOK, WholeImage, StartTask
<1>6. StopWishKept'
    BY DEF IInv, TypeOK, StopWishKept, StartTask, InFlight
<1>7. AbortLatency'
    BY ImageChunksAssumption DEF IInv, TypeOK, AbortLatency, StartTask,
      ErrorStops, StopWishKept, InFlight, CleanPcs, Pcs
<1>8. AbortHitsItsOwnUpdate'
    BY DEF IInv, TypeOK, AbortHitsItsOwnUpdate, StartTask, InFlight,
      ErrorStops, CleanPcs, Pcs
<1>9. NeverStranded'
    BY DEF IInv, TypeOK, NeverStranded, StartTask
<1>10. HeardFollowsPc'
    BY DEF IInv, TypeOK, HeardFollowsPc, StartTask, HeardAt, Asked,
      ErrorStops, CleanPcs, Pcs, Verdicts
<1>. QED
  BY <1>1, <1>2, <1>3, <1>4, <1>5, <1>6, <1>7, <1>8, <1>9, <1>10 DEF IInv

(* The spawned task claims like any caller, or goes away. *)
LEMMA OtaTaskStep ==
    ASSUME IInv, NEW t \in Tasks, OtaTask(t)
    PROVE  IInv'
<1>1. TypeOK'
  <2>1. pc' \in [Tasks -> Pcs]
    BY DEF IInv, TypeOK, OtaTask, ClaimUpdateSlot, Pcs
  <2>2. event_cb' \in [Tasks -> BOOLEAN] /\ spawned' \in [Tasks -> BOOLEAN]
    BY DEF IInv, TypeOK, OtaTask, ClaimUpdateSlot
  <2>3. heard' \in [Tasks -> Events \cup {NoEvent}]
    BY DEF IInv, TypeOK, OtaTask, ClaimUpdateSlot
  <2>4. s_running' \in BOOLEAN /\ s_abort_requested' \in BOOLEAN
    BY DEF IInv, TypeOK, OtaTask, ClaimUpdateSlot
  <2>. QED
    BY <2>1, <2>2, <2>3, <2>4 DEF IInv, TypeOK, OtaTask
<1>2. OneUpdateAtATime'
    BY DEF IInv, TypeOK, OneUpdateAtATime, OtaTask, ClaimUpdateSlot, InFlight
<1>3. HandleDiscipline'
    BY DEF IInv, TypeOK, HandleDiscipline, OtaTask, ClaimUpdateSlot
<1>4. ErrorStops'
    BY DEF IInv, TypeOK, ErrorStops, OtaTask, ClaimUpdateSlot, CleanPcs, Pcs,
      Errors
<1>5. WholeImage'
    BY DEF IInv, TypeOK, WholeImage, OtaTask, ClaimUpdateSlot
<1>6. StopWishKept'
    BY DEF IInv, TypeOK, StopWishKept, OtaTask, ClaimUpdateSlot, InFlight,
      OneUpdateAtATime
<1>7. AbortLatency'
    BY ImageChunksAssumption DEF IInv, TypeOK, AbortLatency, OtaTask,
      ClaimUpdateSlot, ErrorStops, StopWishKept, InFlight, CleanPcs, Pcs
<1>8. AbortHitsItsOwnUpdate'
    BY DEF IInv, TypeOK, AbortHitsItsOwnUpdate, OtaTask, ClaimUpdateSlot,
      InFlight, ErrorStops, CleanPcs, Pcs
<1>9. NeverStranded'
    BY DEF IInv, TypeOK, NeverStranded, OtaTask, ClaimUpdateSlot
<1>10. HeardFollowsPc'
    BY DEF IInv, TypeOK, HeardFollowsPc, OtaTask, ClaimUpdateSlot, HeardAt,
      Asked, ErrorStops, CleanPcs, Pcs, Verdicts
<1>. QED
  BY <1>1, <1>2, <1>3, <1>4, <1>5, <1>6, <1>7, <1>8, <1>9, <1>10 DEF IInv

(* A configuration error goes straight to the release. *)
LEMMA BuildHttpConfigStep ==
    ASSUME IInv, NEW t \in Tasks, BuildHttpConfig(t)
    PROVE  IInv'
<1>1. TypeOK'
    BY DEF IInv, TypeOK, BuildHttpConfig, Pcs, Errors
<1>2. OneUpdateAtATime'
    BY DEF IInv, TypeOK, OneUpdateAtATime, BuildHttpConfig, InFlight
<1>3. HandleDiscipline'
    BY DEF IInv, TypeOK, HandleDiscipline, BuildHttpConfig
<1>4. ErrorStops'
    BY DEF IInv, TypeOK, ErrorStops, BuildHttpConfig, CleanPcs, Pcs, Errors
<1>5. WholeImage'
    BY DEF IInv, TypeOK, WholeImage, BuildHttpConfig
<1>6. StopWishKept'
    BY DEF IInv, TypeOK, StopWishKept, BuildHttpConfig, InFlight
<1>7. AbortLatency'
    BY ImageChunksAssumption DEF IInv, TypeOK, AbortLatency, BuildHttpConfig,
      ErrorStops, StopWishKept, InFlight, CleanPcs, Pcs
<1>8. AbortHitsItsOwnUpdate'
    BY DEF IInv, TypeOK, AbortHitsItsOwnUpdate, BuildHttpConfig, InFlight,
      ErrorStops, CleanPcs, Pcs
<1>9. NeverStranded'
    BY DEF IInv, TypeOK, NeverStranded, BuildHttpConfig
<1>10. HeardFollowsPc'
    BY DEF IInv, TypeOK, HeardFollowsPc, BuildHttpConfig, HeardAt, Asked,
      ErrorStops, CleanPcs, Pcs, Verdicts
<1>. QED
  BY <1>1, <1>2, <1>3, <1>4, <1>5, <1>6, <1>7, <1>8, <1>9, <1>10 DEF IInv

(* The handle exists exactly when the update goes on with it. *)
LEMMA HttpsOtaBeginStep ==
    ASSUME IInv, NEW t \in Tasks, HttpsOtaBegin(t)
    PROVE  IInv'
<1>1. TypeOK'
    BY DEF IInv, TypeOK, HttpsOtaBegin, Pcs, Errors
<1>2. OneUpdateAtATime'
    BY DEF IInv, TypeOK, OneUpdateAtATime, HttpsOtaBegin, InFlight
<1>3. HandleDiscipline'
    BY DEF IInv, TypeOK, HandleDiscipline, HttpsOtaBegin
<1>4. ErrorStops'
    BY DEF IInv, TypeOK, ErrorStops, HttpsOtaBegin, CleanPcs, Pcs, Errors
<1>5. WholeImage'
    BY DEF IInv, TypeOK, WholeImage, HttpsOtaBegin
<1>6. StopWishKept'
    BY DEF IInv, TypeOK, StopWishKept, HttpsOtaBegin, InFlight
<1>7. AbortLatency'
    BY ImageChunksAssumption DEF IInv, TypeOK, AbortLatency, HttpsOtaBegin,
      ErrorStops, StopWishKept, InFlight, CleanPcs, Pcs
<1>8. AbortHitsItsOwnUpdate'
    BY DEF IInv, TypeOK, AbortHitsItsOwnUpdate, HttpsOtaBegin, InFlight,
      ErrorStops, CleanPcs, Pcs
<1>9. NeverStranded'
    BY DEF IInv, TypeOK, NeverStranded, HttpsOtaBegin
<1>10. HeardFollowsPc'
    BY DEF IInv, TypeOK, HeardFollowsPc, HttpsOtaBegin, HeardAt, Asked,
      ErrorStops, CleanPcs, Pcs, Verdicts
<1>. QED
  BY <1>1, <1>2, <1>3, <1>4, <1>5, <1>6, <1>7, <1>8, <1>9, <1>10 DEF IInv

(* The first question event_cb is asked. *)
LEMMA DispatchStartedStep ==
    ASSUME IInv, NEW t \in Tasks, DispatchStarted(t)
    PROVE  IInv'
<1>1. TypeOK'
    BY DEF IInv, TypeOK, DispatchStarted, DispatchEvent, Pcs, Errors,
      Verdicts, Events
<1>2. OneUpdateAtATime'
    BY DEF IInv, TypeOK, OneUpdateAtATime, DispatchStarted, DispatchEvent,
      InFlight
<1>3. HandleDiscipline'
    BY DEF IInv, TypeOK, HandleDiscipline, DispatchStarted, DispatchEvent
<1>4. ErrorStops'
    BY DEF IInv, TypeOK, ErrorStops, DispatchStarted, DispatchEvent, CleanPcs,
      Pcs, Errors
<1>5. WholeImage'
    BY DEF IInv, TypeOK, WholeImage, DispatchStarted, DispatchEvent
<1>6. StopWishKept'
    BY DEF IInv, TypeOK, StopWishKept, DispatchStarted, DispatchEvent,
      InFlight
<1>7. AbortLatency'
    BY ImageChunksAssumption DEF IInv, TypeOK, AbortLatency, DispatchStarted,
      DispatchEvent, ErrorStops, StopWishKept, InFlight, CleanPcs, Pcs
<1>8. AbortHitsItsOwnUpdate'
    BY DEF IInv, TypeOK, AbortHitsItsOwnUpdate, DispatchStarted,
      DispatchEvent, InFlight, ErrorStops, CleanPcs, Pcs, Verdicts
<1>9. NeverStranded'
    BY DEF IInv, TypeOK, NeverStranded, DispatchStarted, DispatchEvent
<1>10. HeardFollowsPc'
    BY DEF IInv, TypeOK, HeardFollowsPc, DispatchStarted, DispatchEvent,
      HeardAt, Asked, ErrorStops, CleanPcs, Pcs, Verdicts
<1>. QED
  BY <1>1, <1>2, <1>3, <1>4, <1>5, <1>6, <1>7, <1>8, <1>9, <1>10 DEF IInv

(* The second one, unless the image header cannot be read. *)
LEMMA CheckIncomingImageStep ==
    ASSUME IInv, NEW t \in Tasks, CheckIncomingImage(t)
    PROVE  IInv'
<1>1. TypeOK'
    BY DEF IInv, TypeOK, CheckIncomingImage, DispatchEvent, Pcs, Errors,
      Verdicts, Events
<1>2. OneUpdateAtATime'
    BY DEF IInv, TypeOK, OneUpdateAtATime, CheckIncomingImage, DispatchEvent,
      InFlight
<1>3. HandleDiscipline'
    BY DEF IInv, TypeOK, HandleDiscipline, CheckIncomingImage, DispatchEvent
<1>4. ErrorStops'
    BY DEF IInv, TypeOK, ErrorStops, CheckIncomingImage, DispatchEvent,
      CleanPcs, Pcs, Errors
<1>5. WholeImage'
    BY DEF IInv, TypeOK, WholeImage, CheckIncomingImage, DispatchEvent
<1>6. StopWishKept'
    BY DEF IInv, TypeOK, StopWishKept, CheckIncomingImage, DispatchEvent,
      InFlight
<1>7. AbortLatency'
    BY ImageChunksAssumption DEF IInv, TypeOK, AbortLatency,
      CheckIncomingImage, DispatchEvent, ErrorStops, StopWishKept, InFlight,
      CleanPcs, Pcs
<1>8. AbortHitsItsOwnUpdate'
    BY DEF IInv, TypeOK, AbortHitsItsOwnUpdate, CheckIncomingImage,
      DispatchEvent, InFlight, ErrorStops, CleanPcs, Pcs, Verdicts
<1>9. NeverStranded'
    BY DEF IInv, TypeOK, NeverStranded, CheckIncomingImage, DispatchEvent
<1>10. HeardFollowsPc'
    BY DEF IInv, TypeOK, HeardFollowsPc, CheckIncomingImage, DispatchEvent,
      HeardAt, Asked, ErrorStops, CleanPcs, Pcs, Verdicts
<1>. QED
  BY <1>1, <1>2, <1>3, <1>4, <1>5, <1>6, <1>7, <1>8, <1>9, <1>10 DEF IInv

(* A chunk overwrites the target, which is not the running partition; after an
   accepted abort it is the one more chunk AbortLatency allows. *)
LEMMA PerformStep ==
    ASSUME IInv, NEW t \in Tasks, Perform(t)
    PROVE  IInv'
<1>1. TypeOK'
    BY ImageChunksAssumption, TargetLemma DEF IInv, TypeOK, Perform,
      Overwrite, Pcs, Errors
<1>2. OneUpdateAtATime'
    BY DEF IInv, TypeOK, OneUpdateAtATime, Perform, Overwrite, InFlight
<1>3. HandleDiscipline'
    BY DEF IInv, TypeOK, HandleDiscipline, Perform, Overwrite
<1>4. ErrorStops'
    BY DEF IInv, TypeOK, ErrorStops, Perform, Overwrite, CleanPcs, Pcs, Errors
<1>5. WholeImage'
    BY ImageChunksAssumption DEF IInv, TypeOK, WholeImage, Perform, Overwrite
<1>6. StopWishKept'
    BY ImageChunksAssumption DEF IInv, TypeOK, StopWishKept, Perform,
      Overwrite, InFlight
<1>7. AbortLatency'
    BY ImageChunksAssumption DEF IInv, TypeOK, AbortLatency, Perform,
      Overwrite, ErrorStops, StopWishKept, InFlight, CleanPcs, Pcs
<1>8. AbortHitsItsOwnUpdate'
    BY DEF IInv, TypeOK, AbortHitsItsOwnUpdate, Perform, Overwrite, InFlight,
      ErrorStops, CleanPcs, Pcs
<1>9. NeverStranded'
    BY TargetLemma DEF IInv, TypeOK, NeverStranded, Perform, Overwrite
<1>10. HeardFollowsPc'
    BY DEF IInv, TypeOK, HeardFollowsPc, Perform, Overwrite, HeardAt, Asked,
      ErrorStops, CleanPcs, Pcs, Verdicts
<1>. QED
  BY <1>1, <1>2, <1>3, <1>4, <1>5, <1>6, <1>7, <1>8, <1>9, <1>10 DEF IInv

(* The flag is up exactly for the update that was asked to stop, and since there
   is only one update that is this one. *)
LEMMA PollAbortStep ==
    ASSUME IInv, NEW t \in Tasks, PollAbort(t)
    PROVE  IInv'
<1>1. TypeOK'
    BY DEF IInv, TypeOK, PollAbort, Pcs, Errors
<1>2. OneUpdateAtATime'
    BY DEF IInv, TypeOK, OneUpdateAtATime, PollAbort, InFlight
<1>3. HandleDiscipline'
    BY DEF IInv, TypeOK, HandleDiscipline, PollAbort
<1>4. ErrorStops'
    BY DEF IInv, TypeOK, ErrorStops, PollAbort, CleanPcs, Pcs, Errors
<1>5. WholeImage'
    BY DEF IInv, TypeOK, WholeImage, PollAbort
<1>6. StopWishKept'
    BY DEF IInv, TypeOK, StopWishKept, PollAbort, InFlight
<1>7. AbortLatency'
    BY ImageChunksAssumption DEF IInv, TypeOK, AbortLatency, PollAbort,
      ErrorStops, StopWishKept, InFlight, CleanPcs, Pcs
<1>8. AbortHitsItsOwnUpdate'
    BY DEF IInv, TypeOK, AbortHitsItsOwnUpdate, PollAbort, InFlight,
      ErrorStops, CleanPcs, Pcs, OneUpdateAtATime
<1>9. NeverStranded'
    BY DEF IInv, TypeOK, NeverStranded, PollAbort
<1>10. HeardFollowsPc'
    BY DEF IInv, TypeOK, HeardFollowsPc, PollAbort, HeardAt, Asked,
      ErrorStops, CleanPcs, Pcs, Verdicts
<1>. QED
  BY <1>1, <1>2, <1>3, <1>4, <1>5, <1>6, <1>7, <1>8, <1>9, <1>10 DEF IInv

(* A progress report between two chunks. *)
LEMMA LoopReportStep ==
    ASSUME IInv, NEW t \in Tasks, LoopReport(t)
    PROVE  IInv'
<1>1. TypeOK'
    BY DEF IInv, TypeOK, LoopReport, ReportProgress, DispatchEvent, Pcs,
      Errors, Verdicts, Events
<1>2. OneUpdateAtATime'
    BY DEF IInv, TypeOK, OneUpdateAtATime, LoopReport, ReportProgress,
      DispatchEvent, InFlight
<1>3. HandleDiscipline'
    BY DEF IInv, TypeOK, HandleDiscipline, LoopReport, ReportProgress,
      DispatchEvent
<1>4. ErrorStops'
    BY DEF IInv, TypeOK, ErrorStops, LoopReport, ReportProgress,
      DispatchEvent, CleanPcs, Pcs, Errors
<1>5. WholeImage'
    BY DEF IInv, TypeOK, WholeImage, LoopReport, ReportProgress, DispatchEvent
<1>6. StopWishKept'
    BY DEF IInv, TypeOK, StopWishKept, LoopReport, ReportProgress,
      DispatchEvent, InFlight
<1>7. AbortLatency'
    BY ImageChunksAssumption DEF IInv, TypeOK, AbortLatency, LoopReport,
      ReportProgress, DispatchEvent, ErrorStops, StopWishKept, InFlight,
      CleanPcs, Pcs
<1>8. AbortHitsItsOwnUpdate'
    BY DEF IInv, TypeOK, AbortHitsItsOwnUpdate, LoopReport, ReportProgress,
      DispatchEvent, InFlight, ErrorStops, CleanPcs, Pcs, Verdicts
<1>9. NeverStranded'
    BY DEF IInv, TypeOK, NeverStranded, LoopReport, ReportProgress,
      DispatchEvent
<1>10. HeardFollowsPc'
    BY DEF IInv, TypeOK, HeardFollowsPc, LoopReport, ReportProgress,
      DispatchEvent, HeardAt, Asked, ErrorStops, CleanPcs, Pcs, Verdicts
<1>. QED
  BY <1>1, <1>2, <1>3, <1>4, <1>5, <1>6, <1>7, <1>8, <1>9, <1>10 DEF IInv

(* Only a whole image gets past the check. *)
LEMMA CheckCompleteStep ==
    ASSUME IInv, NEW t \in Tasks, CheckComplete(t)
    PROVE  IInv'
<1>1. TypeOK'
    BY DEF IInv, TypeOK, CheckComplete, Pcs, Errors
<1>2. OneUpdateAtATime'
    BY DEF IInv, TypeOK, OneUpdateAtATime, CheckComplete, InFlight
<1>3. HandleDiscipline'
    BY DEF IInv, TypeOK, HandleDiscipline, CheckComplete
<1>4. ErrorStops'
    BY DEF IInv, TypeOK, ErrorStops, CheckComplete, CleanPcs, Pcs, Errors
<1>5. WholeImage'
    BY DEF IInv, TypeOK, WholeImage, CheckComplete
<1>6. StopWishKept'
    BY DEF IInv, TypeOK, StopWishKept, CheckComplete, InFlight
<1>7. AbortLatency'
    BY ImageChunksAssumption DEF IInv, TypeOK, AbortLatency, CheckComplete,
      ErrorStops, StopWishKept, InFlight, CleanPcs, Pcs
<1>8. AbortHitsItsOwnUpdate'
    BY DEF IInv, TypeOK, AbortHitsItsOwnUpdate, CheckComplete, InFlight,
      ErrorStops, CleanPcs, Pcs
<1>9. NeverStranded'
    BY DEF IInv, TypeOK, NeverStranded, CheckComplete
<1>10. HeardFollowsPc'
    BY DEF IInv, TypeOK, HeardFollowsPc, CheckComplete, HeardAt, Asked,
      ErrorStops, CleanPcs, Pcs, Verdicts
<1>. QED
  BY <1>1, <1>2, <1>3, <1>4, <1>5, <1>6, <1>7, <1>8, <1>9, <1>10 DEF IInv

(* The last question; the answer decides between commit and abort. *)
LEMMA ForcedReportStep ==
    ASSUME IInv, NEW t \in Tasks, ForcedReport(t)
    PROVE  IInv'
<1>1. TypeOK'
    BY DEF IInv, TypeOK, ForcedReport, ReportProgress, DispatchEvent, Pcs,
      Errors, Verdicts, Events
<1>2. OneUpdateAtATime'
    BY DEF IInv, TypeOK, OneUpdateAtATime, ForcedReport, ReportProgress,
      DispatchEvent, InFlight
<1>3. HandleDiscipline'
    BY DEF IInv, TypeOK, HandleDiscipline, ForcedReport, ReportProgress,
      DispatchEvent
<1>4. ErrorStops'
    BY DEF IInv, TypeOK, ErrorStops, ForcedReport, ReportProgress,
      DispatchEvent, CleanPcs, Pcs, Errors
<1>5. WholeImage'
    BY DEF IInv, TypeOK, WholeImage, ForcedReport, ReportProgress,
      DispatchEvent
<1>6. StopWishKept'
    BY DEF IInv, TypeOK, StopWishKept, ForcedReport, ReportProgress,
      DispatchEvent, InFlight
<1>7. AbortLatency'
    BY ImageChunksAssumption DEF IInv, TypeOK, AbortLatency, ForcedReport,
      ReportProgress, DispatchEvent, ErrorStops, StopWishKept, InFlight,
      CleanPcs, Pcs
<1>8. AbortHitsItsOwnUpdate'
    BY DEF IInv, TypeOK, AbortHitsItsOwnUpdate, ForcedReport, ReportProgress,
      DispatchEvent, InFlight, ErrorStops, CleanPcs, Pcs, Verdicts
<1>9. NeverStranded'
    BY DEF IInv, TypeOK, NeverStranded, ForcedReport, ReportProgress,
      DispatchEvent
<1>10. HeardFollowsPc'
    BY DEF IInv, TypeOK, HeardFollowsPc, ForcedReport, ReportProgress,
      DispatchEvent, HeardAt, Asked, ErrorStops, CleanPcs, Pcs, Verdicts
<1>. QED
  BY <1>1, <1>2, <1>3, <1>4, <1>5, <1>6, <1>7, <1>8, <1>9, <1>10 DEF IInv

(* The handle is closed, the error kept. *)
LEMMA HttpsOtaAbortStep ==
    ASSUME IInv, NEW t \in Tasks, HttpsOtaAbort(t)
    PROVE  IInv'
<1>1. TypeOK'
    BY TargetLemma DEF IInv, TypeOK, HttpsOtaAbort, Pcs, Errors
<1>2. OneUpdateAtATime'
    BY DEF IInv, TypeOK, OneUpdateAtATime, HttpsOtaAbort, InFlight
<1>3. HandleDiscipline'
    BY DEF IInv, TypeOK, HandleDiscipline, HttpsOtaAbort
<1>4. ErrorStops'
    BY DEF IInv, TypeOK, ErrorStops, HttpsOtaAbort, CleanPcs, Pcs, Errors
<1>5. WholeImage'
    BY DEF IInv, TypeOK, WholeImage, HttpsOtaAbort
<1>6. StopWishKept'
    BY DEF IInv, TypeOK, StopWishKept, HttpsOtaAbort, InFlight
<1>7. AbortLatency'
    BY ImageChunksAssumption DEF IInv, TypeOK, AbortLatency, HttpsOtaAbort,
      ErrorStops, StopWishKept, InFlight, CleanPcs, Pcs
<1>8. AbortHitsItsOwnUpdate'
    BY DEF IInv, TypeOK, AbortHitsItsOwnUpdate, HttpsOtaAbort, InFlight,
      ErrorStops, CleanPcs, Pcs
<1>9. NeverStranded'
    BY DEF IInv, TypeOK, NeverStranded, HttpsOtaAbort
<1>10. HeardFollowsPc'
    BY DEF IInv, TypeOK, HeardFollowsPc, HttpsOtaAbort, HeardAt, Asked,
      ErrorStops, CleanPcs, Pcs, Verdicts
<1>. QED
  BY <1>1, <1>2, <1>3, <1>4, <1>5, <1>6, <1>7, <1>8, <1>9, <1>10 DEF IInv

(* The handle is closed, and the boot partition moved if the image validates. *)
LEMMA HttpsOtaFinishStep ==
    ASSUME IInv, NEW t \in Tasks, HttpsOtaFinish(t)
    PROVE  IInv'
<1>1. TypeOK'
    BY TargetLemma DEF IInv, TypeOK, HttpsOtaFinish, Pcs, Errors
<1>2. OneUpdateAtATime'
    BY DEF IInv, TypeOK, OneUpdateAtATime, HttpsOtaFinish, InFlight
<1>3. HandleDiscipline'
    BY DEF IInv, TypeOK, HandleDiscipline, HttpsOtaFinish
<1>4. ErrorStops'
    BY DEF IInv, TypeOK, ErrorStops, HttpsOtaFinish, CleanPcs, Pcs, Errors
<1>5. WholeImage'
    BY DEF IInv, TypeOK, WholeImage, HttpsOtaFinish
<1>6. StopWishKept'
    BY DEF IInv, TypeOK, StopWishKept, HttpsOtaFinish, InFlight
<1>7. AbortLatency'
    BY ImageChunksAssumption DEF IInv, TypeOK, AbortLatency, HttpsOtaFinish,
      ErrorStops, StopWishKept, InFlight, CleanPcs, Pcs
<1>8. AbortHitsItsOwnUpdate'
    BY DEF IInv, TypeOK, AbortHitsItsOwnUpdate, HttpsOtaFinish, InFlight,
      ErrorStops, CleanPcs, Pcs
<1>9. NeverStranded'
    BY DEF IInv, TypeOK, NeverStranded, HttpsOtaFinish
<1>10. HeardFollowsPc'
    BY DEF IInv, TypeOK, HeardFollowsPc, HttpsOtaFinish, HeardAt, Asked,
      ErrorStops, CleanPcs, Pcs, Verdicts
<1>. QED
  BY <1>1, <1>2, <1>3, <1>4, <1>5, <1>6, <1>7, <1>8, <1>9, <1>10 DEF IInv

(* The only update in flight leaves, so the slot is rightly free. *)
LEMMA ReleaseUpdateSlotStep ==
    ASSUME IInv, NEW t \in Tasks, ReleaseUpdateSlot(t)
    PROVE  IInv'
<1>1. TypeOK'
  <2>1. pc' \in [Tasks -> Pcs]
    BY DEF IInv, TypeOK, ReleaseUpdateSlot, Pcs
  <2>2. got' \in [Tasks -> 0 .. ImageChunks]
    BY ImageChunksAssumption DEF IInv, TypeOK, ReleaseUpdateSlot
  <2>3. abortAt' \in [Tasks -> NotAsked .. ImageChunks]
    BY ImageChunksAssumption DEF IInv, TypeOK, ReleaseUpdateSlot
  <2>. QED
    BY <2>1, <2>2, <2>3 DEF IInv, TypeOK, ReleaseUpdateSlot
<1>2. OneUpdateAtATime'
    BY DEF IInv, TypeOK, OneUpdateAtATime, ReleaseUpdateSlot, InFlight
<1>3. HandleDiscipline'
    BY DEF IInv, TypeOK, HandleDiscipline, ReleaseUpdateSlot
<1>4. ErrorStops'
    BY DEF IInv, TypeOK, ErrorStops, ReleaseUpdateSlot, CleanPcs, Pcs, Errors
<1>5. WholeImage'
    BY DEF IInv, TypeOK, WholeImage, ReleaseUpdateSlot
<1>6. StopWishKept'
    BY DEF IInv, TypeOK, StopWishKept, ReleaseUpdateSlot, InFlight,
      OneUpdateAtATime
<1>7. AbortLatency'
    BY ImageChunksAssumption DEF IInv, TypeOK, AbortLatency,
      ReleaseUpdateSlot, ErrorStops, StopWishKept, InFlight, CleanPcs, Pcs
<1>8. AbortHitsItsOwnUpdate'
    BY DEF IInv, TypeOK, AbortHitsItsOwnUpdate, ReleaseUpdateSlot, InFlight,
      ErrorStops, CleanPcs, Pcs, OneUpdateAtATime
<1>9. NeverStranded'
    BY DEF IInv, TypeOK, NeverStranded, ReleaseUpdateSlot
<1>10. HeardFollowsPc'
    BY DEF IInv, TypeOK, HeardFollowsPc, ReleaseUpdateSlot, HeardAt, Asked,
      ErrorStops, CleanPcs, Pcs, Verdicts
<1>. QED
  BY <1>1, <1>2, <1>3, <1>4, <1>5, <1>6, <1>7, <1>8, <1>9, <1>10 DEF IInv

(* The last word, after which the frame is gone. *)
LEMMA DispatchOutcomeStep ==
    ASSUME IInv, NEW t \in Tasks, DispatchOutcome(t)
    PROVE  IInv'
<1>1. TypeOK'
    BY DEF IInv, TypeOK, DispatchOutcome, Return, Pcs, Errors, Events,
      Verdicts
<1>2. OneUpdateAtATime'
    BY DEF IInv, TypeOK, OneUpdateAtATime, DispatchOutcome, Return, InFlight
<1>3. HandleDiscipline'
    BY DEF IInv, TypeOK, HandleDiscipline, DispatchOutcome, Return
<1>4. ErrorStops'
    BY DEF IInv, TypeOK, ErrorStops, DispatchOutcome, Return, CleanPcs, Pcs,
      Errors
<1>5. WholeImage'
    BY DEF IInv, TypeOK, WholeImage, DispatchOutcome, Return
<1>6. StopWishKept'
    BY DEF IInv, TypeOK, StopWishKept, DispatchOutcome, Return, InFlight
<1>7. AbortLatency'
    BY ImageChunksAssumption DEF IInv, TypeOK, AbortLatency, DispatchOutcome,
      Return, ErrorStops, StopWishKept, InFlight, CleanPcs, Pcs
<1>8. AbortHitsItsOwnUpdate'
    BY DEF IInv, TypeOK, AbortHitsItsOwnUpdate, DispatchOutcome, Return,
      InFlight, ErrorStops, CleanPcs, Pcs
<1>9. NeverStranded'
    BY DEF IInv, TypeOK, NeverStranded, DispatchOutcome, Return
<1>10. HeardFollowsPc'
    BY DEF IInv, TypeOK, HeardFollowsPc, DispatchOutcome, Return, HeardAt,
      Asked, ErrorStops, CleanPcs, Pcs, Verdicts
<1>. QED
  BY <1>1, <1>2, <1>3, <1>4, <1>5, <1>6, <1>7, <1>8, <1>9, <1>10 DEF IInv

(* An accepted abort is addressed to the one update in flight. *)
LEMMA OtaApiAbortStep ==
    ASSUME IInv, OtaApiAbort
    PROVE  IInv'
<1>. InFlight' = InFlight
  BY DEF OtaApiAbort, InFlight
<1>1. TypeOK'
  BY ImageChunksAssumption DEF IInv, TypeOK, OtaApiAbort, InFlight, Pcs
<1>2. OneUpdateAtATime' /\ HandleDiscipline' /\ WholeImage' /\ NeverStranded'
  BY DEF IInv, OneUpdateAtATime, HandleDiscipline, WholeImage, NeverStranded,
         OtaApiAbort
<1>3. ErrorStops' /\ HeardFollowsPc'
  BY DEF IInv, ErrorStops, HeardFollowsPc, HeardAt, OtaApiAbort
<1>4. StopWishKept'
  BY ImageChunksAssumption DEF IInv, TypeOK, StopWishKept, OtaApiAbort
<1>5. AbortLatency'
  BY ImageChunksAssumption DEF IInv, TypeOK, AbortLatency, OtaApiAbort
<1>6. AbortHitsItsOwnUpdate'
  <2>1. PICK t \in InFlight : TRUE
    BY DEF IInv, OneUpdateAtATime, OtaApiAbort
  <2>2. abortAt'[t] # NotAsked
    BY <2>1, ImageChunksAssumption DEF IInv, TypeOK, OtaApiAbort, InFlight
  <2>3. \A u \in InFlight : abortAt[u] # NotAsked => abortAt'[u] # NotAsked
    BY DEF OtaApiAbort, InFlight
  <2>. QED
    BY <2>1, <2>2, <2>3 DEF IInv, AbortHitsItsOwnUpdate, OtaApiAbort
<1>. QED
  BY <1>1, <1>2, <1>3, <1>4, <1>5, <1>6 DEF IInv

(* A reboot at any moment: no task is left, and whatever the bootloader chose
   is a partition that boots. *)
LEMMA RebootStep ==
    ASSUME IInv, Reboot
    PROVE  IInv'
<1>1. running' \in bootable
  BY DEF IInv, NeverStranded, Reboot, BootChoice
<1>2. \A t \in Tasks : pc'[t] = "idle" /\ err'[t] = "OK" /\ verdict'[t] = "OK"
                       /\ handle'[t] = "none" /\ heard'[t] = NoEvent
                       /\ abortAt'[t] = NotAsked
  BY DEF Reboot
<1>3. InFlight' = {}
  BY <1>2 DEF InFlight
<1>4. TypeOK'
  <2>1. running' \in Partitions /\ UNCHANGED flashVars
    BY <1>1 DEF IInv, TypeOK, Reboot
  <2>2. got' \in [Tasks -> 0 .. ImageChunks]
    BY ImageChunksAssumption DEF Reboot
  <2>3. abortAt' \in [Tasks -> NotAsked .. ImageChunks]
    BY ImageChunksAssumption DEF Reboot
  <2>4. /\ pc' \in [Tasks -> Pcs]
        /\ err' \in [Tasks -> {"OK"} \cup Errors]
        /\ handle' \in [Tasks -> {"none", "open"}]
        /\ heard' \in [Tasks -> Events \cup {NoEvent}]
        /\ verdict' \in [Tasks -> Verdicts]
    BY DEF Reboot, Pcs, Verdicts
  <2>5. /\ s_running' \in BOOLEAN /\ s_abort_requested' \in BOOLEAN
        /\ spawned' \in [Tasks -> BOOLEAN] /\ event_cb' \in [Tasks -> BOOLEAN]
    BY DEF Reboot
  <2>. QED
    BY <2>1, <2>2, <2>3, <2>4, <2>5 DEF IInv, TypeOK
<1>5. OneUpdateAtATime' /\ HandleDiscipline' /\ AbortHitsItsOwnUpdate'
  BY <1>2, <1>3 DEF OneUpdateAtATime, HandleDiscipline, AbortHitsItsOwnUpdate, Reboot
<1>6. ErrorStops' /\ WholeImage' /\ StopWishKept' /\ AbortLatency' /\ HeardFollowsPc'
  BY <1>2 DEF ErrorStops, WholeImage, StopWishKept, AbortLatency, HeardFollowsPc,
              HeardAt
<1>7. NeverStranded'
  BY <1>1 DEF NeverStranded, Reboot
<1>. QED
  BY <1>4, <1>5, <1>6, <1>7 DEF IInv

(* A device fresh from the factory. *)
LEMMA InitIInv == Init => IInv
<1>. SUFFICES ASSUME Init PROVE IInv
  OBVIOUS
<1>1. TypeOK
  <2>1. FirstFlashed \in Partitions
    BY NumSlotsAssumption, HasFactoryAssumption
       DEF Partitions, OtaSlots, Factory, FirstFlashed
  <2>2. running \in Partitions /\ boot \in Partitions
        /\ bootable \subseteq Partitions /\ refused \subseteq Partitions
    BY <2>1 DEF Init
  <2>3. got \in [Tasks -> 0 .. ImageChunks]
    BY ImageChunksAssumption DEF Init
  <2>4. abortAt \in [Tasks -> NotAsked .. ImageChunks]
    BY ImageChunksAssumption DEF Init
  <2>5. /\ pc \in [Tasks -> Pcs]
        /\ err \in [Tasks -> {"OK"} \cup Errors]
        /\ handle \in [Tasks -> {"none", "open"}]
        /\ heard \in [Tasks -> Events \cup {NoEvent}]
        /\ verdict \in [Tasks -> Verdicts]
    BY DEF Init, Pcs, Verdicts
  <2>6. /\ s_running \in BOOLEAN /\ s_abort_requested \in BOOLEAN
        /\ spawned \in [Tasks -> BOOLEAN] /\ event_cb \in [Tasks -> BOOLEAN]
    BY DEF Init
  <2>. QED
    BY <2>2, <2>3, <2>4, <2>5, <2>6 DEF TypeOK
<1>2. InFlight = {}
  BY DEF Init, InFlight
<1>3. OneUpdateAtATime /\ HandleDiscipline /\ AbortHitsItsOwnUpdate
  BY <1>2 DEF Init, OneUpdateAtATime, HandleDiscipline, AbortHitsItsOwnUpdate
<1>4. ErrorStops /\ WholeImage /\ StopWishKept /\ AbortLatency /\ NeverStranded
  BY DEF Init, ErrorStops, WholeImage, StopWishKept, AbortLatency, NeverStranded
<1>5. HeardFollowsPc
  BY DEF Init, HeardFollowsPc, HeardAt
<1>. QED
  BY <1>1, <1>3, <1>4, <1>5 DEF IInv

(* The strengthened invariant is inductive. *)
LEMMA NextIInv == IInv /\ [Next]_vars => IInv'
<1>. SUFFICES ASSUME IInv, [Next]_vars PROVE IInv'
  OBVIOUS
<1>1. CASE UNCHANGED vars
  BY <1>1 DEF vars, IInv, TypeOK, OneUpdateAtATime, HandleDiscipline, ErrorStops,
     WholeImage, StopWishKept, AbortLatency, AbortHitsItsOwnUpdate, NeverStranded,
     HeardFollowsPc, HeardAt, InFlight
<1>2. ASSUME NEW t \in Tasks, Update(t) \/ StartTask(t) PROVE IInv'
  BY <1>2, UpdateStep, StartTaskStep
<1>3. ASSUME NEW t \in Tasks, TaskStep(t) PROVE IInv'
  <2>1. CASE OtaTask(t) \/ BuildHttpConfig(t) \/ HttpsOtaBegin(t)
    BY <2>1, OtaTaskStep, BuildHttpConfigStep, HttpsOtaBeginStep
  <2>2. CASE DispatchStarted(t) \/ CheckIncomingImage(t)
    BY <2>2, DispatchStartedStep, CheckIncomingImageStep
  <2>3. CASE Perform(t) \/ PollAbort(t) \/ LoopReport(t)
    BY <2>3, PerformStep, PollAbortStep, LoopReportStep
  <2>4. CASE CheckComplete(t) \/ ForcedReport(t)
    BY <2>4, CheckCompleteStep, ForcedReportStep
  <2>5. CASE HttpsOtaAbort(t) \/ HttpsOtaFinish(t)
    BY <2>5, HttpsOtaAbortStep, HttpsOtaFinishStep
  <2>6. CASE ReleaseUpdateSlot(t) \/ DispatchOutcome(t)
    BY <2>6, ReleaseUpdateSlotStep, DispatchOutcomeStep
  <2>7. CASE EspRestart(t)
    BY <2>7, RebootStep DEF EspRestart
  <2>. QED
    BY <1>3, <2>1, <2>2, <2>3, <2>4, <2>5, <2>6, <2>7 DEF TaskStep
<1>4. CASE OtaApiAbort
  BY <1>4, OtaApiAbortStep
<1>5. CASE Reset
  BY <1>5, RebootStep DEF Reset
<1>. QED
  BY <1>1, <1>2, <1>3, <1>4, <1>5 DEF Next

(* IInv holds in every state of every behaviour of the engine. *)
THEOREM Invariance == Spec => []IInv
  BY InitIInv, NextIInv, PTL DEF Spec

-----------------------------------------------------------------------------

(* Every variable keeps its type (ota-api-state.c:17-19, ota-api.c:109-198). *)
THEOREM TypeCorrect == Spec => []TypeOK
  BY Invariance, PTL DEF IInv

(* Two updates never overlap, and s_running tells whether there is one
   (ota-api-state.c:5, ota_api_claim_update_slot). *)
THEOREM MutualExclusion == Spec => []OneUpdateAtATime
  BY Invariance, PTL DEF IInv

(* run_update() frees its esp_https_ota handle once on every path and uses
   none it does not have (ota-api.c:134-165). *)
THEOREM HandleSafety == Spec => []HandleDiscipline
  BY Invariance, PTL DEF IInv

(* After ota_api_abort() was accepted at most one more chunk is received
   (docs/update_state_machine.md:131, ota-api.c:74-82). *)
THEOREM BoundedAbortLatency == Spec => []AbortLatency
  BY Invariance, PTL DEF IInv

(* An abort stops the update it was meant for and no other
   (docs/update_state_machine.md:170, ota-api-state.c:28-30,40-41). *)
THEOREM NoAbortLeak == Spec => []AbortHitsItsOwnUpdate
  BY Invariance, PTL DEF IInv

(* No sequence of updates, failures and power cuts takes the running image
   away (docs/update_state_machine.md:115). *)
THEOREM RunningImageSafe == Spec => []NeverStranded
  BY Invariance, PTL DEF IInv

-----------------------------------------------------------------------------

(* Before its first chunk an update has received nothing, and from its first
   chunk on the target holds its image, which nobody has refused yet. *)
EarlyPcs == {"idle", "created", "configuring", "connecting", "notifying", "inspecting",
             "settling", "restarting"}
WritePcs == {"downloading", "polling", "reporting", "verifying", "lastReport",
             "committing", "aborting"}
OwnImage ==
    \A t \in Tasks :
        /\ pc[t] \in EarlyPcs => got[t] = 0
        /\ pc[t] \in WritePcs /\ got[t] > 0 => Target \notin refused

(* A chunk erases whatever refused image the target held. *)
LEMMA PerformOwn ==
    ASSUME IInv, OwnImage, NEW t \in Tasks, Perform(t)
    PROVE  OwnImage'
<1>1. Target' = Target
  BY DEF Perform, Target, NextSlot
<1>2. ASSUME NEW u \in Tasks, u # t, pc[u] \in WritePcs PROVE FALSE
  BY <1>2 DEF Perform, WritePcs, IInv, OneUpdateAtATime, InFlight
<1>3. pc[t] = "downloading" /\ pc' \in [Tasks -> Pcs] /\ got' \in [Tasks -> 0 .. ImageChunks]
  BY PerformStep DEF Perform, IInv, TypeOK
<1>4. \A u \in Tasks \ {t} : pc'[u] = pc[u] /\ got'[u] = got[u]
  BY DEF Perform, IInv, TypeOK
<1>5. got'[t] > 0 => Target \notin refused'
  BY <1>3 DEF Perform, Overwrite, OwnImage, WritePcs, IInv, TypeOK
<1>6. pc'[t] \notin EarlyPcs
  BY DEF Perform, EarlyPcs, IInv, TypeOK
<1>. QED
  BY <1>1, <1>2, <1>4, <1>5, <1>6 DEF OwnImage

(* An image is refused only as its update lets go of it. *)
LEMMA AbortOwn ==
    ASSUME IInv, OwnImage, NEW t \in Tasks, HttpsOtaAbort(t)
    PROVE  OwnImage'
<1>1. \A u \in Tasks \ {t} : pc[u] \notin WritePcs /\ pc'[u] = pc[u]
  BY DEF HttpsOtaAbort, WritePcs, IInv, TypeOK, OneUpdateAtATime, InFlight
<1>2. pc'[t] = "releasing" /\ got' = got
  BY DEF HttpsOtaAbort, IInv, TypeOK
<1>. QED
  BY <1>1, <1>2 DEF OwnImage, EarlyPcs, WritePcs

LEMMA OwnImageNext == IInv /\ OwnImage /\ [Next]_vars => OwnImage'
<1>. SUFFICES ASSUME IInv, OwnImage, [Next]_vars PROVE OwnImage'
  OBVIOUS
<1>. USE DEF OwnImage, EarlyPcs, WritePcs
<1>1. CASE UNCHANGED vars
  BY <1>1 DEF vars, Target, NextSlot
<1>2. ASSUME NEW t \in Tasks,
             Update(t) \/ StartTask(t) \/ OtaTask(t)
             \/ BuildHttpConfig(t) \/ HttpsOtaBegin(t)
      PROVE  OwnImage'
  BY <1>2 DEF Update, StartTask, OtaTask, ClaimUpdateSlot, BuildHttpConfig, HttpsOtaBegin,
              Target, NextSlot, IInv, TypeOK
<1>3. ASSUME NEW t \in Tasks,
             DispatchStarted(t) \/ CheckIncomingImage(t) \/ PollAbort(t)
             \/ LoopReport(t) \/ CheckComplete(t) \/ ForcedReport(t)
      PROVE  OwnImage'
  BY <1>3 DEF DispatchStarted, CheckIncomingImage, PollAbort, LoopReport, CheckComplete,
              ForcedReport, ReportProgress, DispatchEvent, Target, NextSlot, IInv, TypeOK
<1>4. ASSUME NEW t \in Tasks, HttpsOtaFinish(t) \/ ReleaseUpdateSlot(t) \/ DispatchOutcome(t)
      PROVE  OwnImage'
  BY <1>4 DEF HttpsOtaFinish, ReleaseUpdateSlot, DispatchOutcome, Return, Target, NextSlot,
              IInv, TypeOK
<1>5. CASE OtaApiAbort
  BY <1>5 DEF OtaApiAbort, Target, NextSlot
<1>6. CASE Reboot
  BY <1>6 DEF Reboot
<1>. QED
  BY <1>1, <1>2, <1>3, <1>4, <1>5, <1>6, PerformOwn, AbortOwn DEF Next, TaskStep, EspRestart, Reset

(* What an update may commit is its own image in every state of the engine. *)
THEOREM OwnImageAlways == Spec => []OwnImage
<1>1. Init => OwnImage
  BY DEF Init, OwnImage, WritePcs
<1>. QED
  BY <1>1, OwnImageNext, Invariance, PTL DEF Spec

-----------------------------------------------------------------------------

(* Only esp_https_ota_finish() moves the boot partition, and the program point
   it is called from implies everything the commit has to have earned. *)
LEMMA BootMovesAtFinish ==
    ASSUME IInv, OwnImage, [Next]_vars, boot' # boot
    PROVE  \E t \in InFlight :
              /\ pc[t] = "committing" /\ pc'[t] = "releasing"
              /\ got[t] = ImageChunks
              /\ verdict[t] = "OK"
              /\ err[t] = "OK"
              /\ boot' = Target /\ boot' \in bootable' \ refused'
<1>1. PICK t \in Tasks : HttpsOtaFinish(t)
  BY DEF vars, flashVars, Next, TaskStep, Update, StartTask, OtaTask,
     BuildHttpConfig, HttpsOtaBegin, DispatchStarted, CheckIncomingImage, Perform,
     PollAbort, LoopReport, CheckComplete, ForcedReport, HttpsOtaAbort,
     ReleaseUpdateSlot, DispatchOutcome, EspRestart, OtaApiAbort, Reset, Reboot
<1>2. /\ t \in InFlight /\ pc[t] = "committing" /\ pc'[t] = "releasing"
      /\ got[t] = ImageChunks /\ err[t] = "OK"
  BY <1>1 DEF HttpsOtaFinish, IInv, TypeOK, WholeImage, ErrorStops, CleanPcs, Pcs, InFlight
<1>3. verdict[t] = "OK"
  BY <1>2 DEF IInv, ErrorStops
<1>4. boot' = Target /\ boot' \in bootable'
  BY <1>1 DEF HttpsOtaFinish
<1>5. boot' \notin refused'
  BY <1>1, <1>2, <1>4, ImageChunksAssumption DEF HttpsOtaFinish, OwnImage, WritePcs, InFlight
<1>. QED
  BY <1>2, <1>3, <1>4, <1>5

(* A partition becomes the boot partition only when the whole image is in it
   and nobody objected, now or when it was last written
   (ota-api.c:89-106,148-155). *)
THEOREM EarnedCommit == Spec => CommitIsEarned
<1>1. IInv /\ OwnImage /\ [Next]_vars =>
        [boot' # boot =>
           \E t \in InFlight :
              /\ got[t] = ImageChunks
              /\ verdict[t] = "OK"
              /\ err[t] = "OK"
              /\ boot' = Target /\ boot' \in bootable' \ refused']_vars
  BY BootMovesAtFinish
<1>. QED
  BY <1>1, Invariance, OwnImageAlways, PTL DEF Spec, CommitIsEarned

-----------------------------------------------------------------------------
(* How far the statements of the documentation that the code does not meet
   do hold. *)

(* An update that commits in spite of an accepted abort had received its last
   chunk when the abort came: no earlier one is lost (README.md:18,
   ota-api.c:78). *)
OnlyLateAbortsLost ==
    [][boot' # boot => \A t \in InFlight : abortAt[t] \in {NotAsked, ImageChunks}]_vars

THEOREM LateAbortsLost == Spec => OnlyLateAbortsLost
<1>1. ASSUME IInv, OwnImage, [Next]_vars, boot' # boot, NEW t \in InFlight, abortAt[t] # NotAsked
      PROVE  abortAt[t] = ImageChunks
  <2>1. pc[t] = "committing" /\ err[t] = "OK" /\ got[t] = ImageChunks
    BY <1>1, BootMovesAtFinish DEF IInv, OneUpdateAtATime
  <2>2. abortAt[t] <= got[t] /\ ~(got[t] > abortAt[t])
    BY <1>1, <2>1 DEF IInv, AbortLatency, StopWishKept, InFlight
  <2>. QED
    BY <1>1, <2>1, <2>2, ImageChunksAssumption DEF IInv, TypeOK, InFlight
<1>2. IInv /\ OwnImage /\ [Next]_vars =>
        [boot' # boot => \A t \in InFlight : abortAt[t] \in {NotAsked, ImageChunks}]_vars
  BY <1>1
<1>. QED
  BY <1>2, Invariance, OwnImageAlways, PTL DEF Spec, OnlyLateAbortsLost

(* What an application owes the component: no update is on its way while the
   device has yet to restart into the one committed before.  The examples see
   to it (Device's CommittedIsBooted). *)
RestartsFirst == \A t \in Tasks : Phase(t) = "open" => boot = running

(* Between the commit and the restart it ends in. *)
Succeeded(t) ==
    pc[t] = "restarting" \/ (pc[t] \in {"releasing", "settling"} /\ err[t] = "OK")

(* Then the boot partition differs from the running one only by a committed
   image, still whole and not refused, and never under an update. *)
CommitUntouched ==
    /\ \A t \in InFlight : pc[t] # "releasing" => boot = running
    /\ boot # running => boot = Target /\ boot \in bootable \ refused
    /\ \A t \in Tasks : Succeeded(t) => boot # running

(* Only a reset changes the running partition, and it keeps the flash. *)
LEMMA RunningKept ==
    ASSUME [Next]_vars
    PROVE  \/ UNCHANGED running /\ Target' = Target
           \/ Reboot
  BY DEF vars, flashVars, Next, TaskStep, Update, StartTask, OtaTask,
     BuildHttpConfig, HttpsOtaBegin, DispatchStarted, CheckIncomingImage, Perform,
     PollAbort, LoopReport, CheckComplete, ForcedReport, HttpsOtaAbort, HttpsOtaFinish,
     ReleaseUpdateSlot, DispatchOutcome, EspRestart, OtaApiAbort, Reset, Target, NextSlot

(* The content of a partition changes under an update that is on its way. *)
LEMMA WritesUnderUpdate ==
    ASSUME IInv, [Next]_vars, bootable' # bootable \/ refused' # refused
    PROVE  /\ \E t \in InFlight : pc[t] # "releasing"
           /\ UNCHANGED <<running, boot>>
<1>1. PICK t \in Tasks : Perform(t) \/ HttpsOtaAbort(t)
  BY DEF vars, flashVars, Next, TaskStep, Update, StartTask, OtaTask,
     BuildHttpConfig, HttpsOtaBegin, DispatchStarted, CheckIncomingImage,
     PollAbort, LoopReport, CheckComplete, ForcedReport, HttpsOtaFinish,
     ReleaseUpdateSlot, DispatchOutcome, EspRestart, OtaApiAbort, Reset, Reboot
<1>. QED
  BY <1>1 DEF Perform, HttpsOtaAbort, InFlight

(* An update that is being aborted was on its way before. *)
LEMMA AbortingWasOnItsWay ==
    ASSUME IInv, [Next]_vars, NEW t \in Tasks, pc'[t] = "aborting"
    PROVE  t \in InFlight /\ pc[t] # "releasing"
<1>1. CASE UNCHANGED vars
  BY <1>1 DEF vars, InFlight
<1>2. ASSUME NEW u \in Tasks,
             Update(u) \/ StartTask(u) \/ OtaTask(u) \/ BuildHttpConfig(u) \/ HttpsOtaBegin(u)
             \/ HttpsOtaAbort(u) \/ HttpsOtaFinish(u) \/ ReleaseUpdateSlot(u)
             \/ DispatchOutcome(u)
      PROVE  pc[t] = "aborting"
  BY <1>2 DEF Update, StartTask, OtaTask, ClaimUpdateSlot, BuildHttpConfig, HttpsOtaBegin,
              HttpsOtaAbort, HttpsOtaFinish, ReleaseUpdateSlot, DispatchOutcome, Return,
              IInv, TypeOK
<1>3. ASSUME NEW u \in Tasks,
             DispatchStarted(u) \/ CheckIncomingImage(u) \/ Perform(u) \/ PollAbort(u)
             \/ LoopReport(u) \/ CheckComplete(u) \/ ForcedReport(u)
      PROVE  pc[t] = "aborting" \/ (t = u /\ t \in InFlight /\ pc[t] # "releasing")
  BY <1>3 DEF DispatchStarted, CheckIncomingImage, Perform, PollAbort, LoopReport,
              CheckComplete, ForcedReport, ReportProgress, DispatchEvent, IInv, TypeOK, InFlight
<1>4. CASE OtaApiAbort
  BY <1>4 DEF OtaApiAbort, InFlight
<1>5. pc[t] # "aborting" \/ t \in InFlight
  BY DEF InFlight
<1>6. ~Reboot
  BY DEF Reboot
<1>. QED
  BY <1>1, <1>2, <1>3, <1>4, <1>5, <1>6 DEF Next, TaskStep, EspRestart, Reset

(* A success is kept, or comes from the commit. *)
LEMMA SuccessFromCommit ==
    ASSUME IInv, [Next]_vars, NEW t \in Tasks, Succeeded(t)'
    PROVE  Succeeded(t) \/ (boot' = Target /\ UNCHANGED running)
<1>. USE DEF Succeeded
<1>1. CASE UNCHANGED vars \/ OtaApiAbort
  BY <1>1 DEF vars, OtaApiAbort
<1>2. ASSUME NEW u \in Tasks,
             Update(u) \/ StartTask(u) \/ OtaTask(u) \/ BuildHttpConfig(u) \/ HttpsOtaBegin(u)
      PROVE  Succeeded(t)
  BY <1>2 DEF Update, StartTask, OtaTask, ClaimUpdateSlot, BuildHttpConfig, HttpsOtaBegin,
              IInv, TypeOK
<1>3. ASSUME NEW u \in Tasks,
             DispatchStarted(u) \/ CheckIncomingImage(u) \/ Perform(u) \/ PollAbort(u)
             \/ LoopReport(u) \/ CheckComplete(u) \/ ForcedReport(u)
      PROVE  Succeeded(t)
  BY <1>3 DEF DispatchStarted, CheckIncomingImage, Perform, PollAbort, LoopReport,
              CheckComplete, ForcedReport, ReportProgress, DispatchEvent, IInv, TypeOK
<1>4. ASSUME NEW u \in Tasks, HttpsOtaAbort(u) \/ ReleaseUpdateSlot(u) \/ DispatchOutcome(u)
      PROVE  Succeeded(t)
  BY <1>4 DEF HttpsOtaAbort, ReleaseUpdateSlot, DispatchOutcome, Return, IInv, TypeOK, ErrorStops
<1>5. ASSUME NEW u \in Tasks, HttpsOtaFinish(u)
      PROVE  Succeeded(t) \/ (boot' = Target /\ UNCHANGED running)
  BY <1>5 DEF HttpsOtaFinish, IInv, TypeOK
<1>6. ~Reboot
  BY DEF Reboot
<1>. QED
  BY <1>1, <1>2, <1>3, <1>4, <1>5, <1>6 DEF Next, TaskStep, EspRestart, Reset

LEMMA UntouchedNext ==
    ASSUME IInv, IInv', OwnImage, RestartsFirst', CommitUntouched, [Next]_vars
    PROVE  CommitUntouched'
<1>1. CASE Reboot
  <2>1. /\ running' = boot
        /\ boot' = boot
    BY <1>1 DEF Reboot, BootChoice, IInv, NeverStranded, CommitUntouched
  <2>2. \A t \in Tasks : pc'[t] = "idle"
    BY <1>1 DEF Reboot
  <2>. QED
    BY <2>1, <2>2 DEF CommitUntouched, InFlight, Succeeded
<1>2. CASE UNCHANGED running /\ Target' = Target
  <2>1. ASSUME NEW t \in InFlight', pc'[t] # "releasing" PROVE boot' = running'
    <3>1. CASE err'[t] = "OK"
      BY <2>1, <3>1 DEF RestartsFirst, Phase, InFlight
    <3>2. CASE err'[t] # "OK"
      <4>1. pc'[t] = "aborting"
        BY <2>1, <3>2 DEF IInv, ErrorStops, CleanPcs, Pcs, InFlight
      <4>2. t \in InFlight /\ pc[t] # "releasing"
        BY <2>1, <4>1, AbortingWasOnItsWay DEF InFlight
      <4>3. boot' = boot
        BY <2>1, <4>1, <4>2, BootMovesAtFinish DEF IInv, OneUpdateAtATime
      <4>. QED
        BY <1>2, <4>2, <4>3 DEF CommitUntouched
    <3>. QED
      BY <3>1, <3>2
  <2>2. boot' # running' => boot' = Target' /\ boot' \in bootable' \ refused'
    <3>1. CASE boot' # boot
      BY <1>2, <3>1, BootMovesAtFinish
    <3>2. CASE boot' = boot /\ UNCHANGED <<bootable, refused>>
      BY <1>2, <3>2 DEF CommitUntouched
    <3>3. CASE bootable' # bootable \/ refused' # refused
      BY <3>3, WritesUnderUpdate DEF CommitUntouched
    <3>. QED
      BY <3>1, <3>2, <3>3
  <2>3. ASSUME NEW t \in Tasks, Succeeded(t)' PROVE boot' # running'
    <3>1. Target # running
      BY TargetLemma DEF IInv, TypeOK
    <3>2. CASE Succeeded(t) /\ boot' = boot
      BY <1>2, <3>2 DEF CommitUntouched
    <3>3. CASE boot' # boot
      BY <1>2, <3>1, <3>3, BootMovesAtFinish
    <3>. QED
      BY <1>2, <2>3, <3>1, <3>2, <3>3, SuccessFromCommit
  <2>. QED
    BY <2>1, <2>2, <2>3 DEF CommitUntouched
<1>. QED
  BY <1>1, <1>2, RunningKept

(* Where no update begins between a commit and its restart, a spawned task
   restarts into the image it committed, and no refused image ever boots: what
   README.md:15 and docs/update_state_machine.md:124 say does hold
   (ota-api.c:155,213). *)
THEOREM RestartFirstSuffices ==
    Spec /\ []RestartsFirst => []RestartsIntoNewFirmware /\ RefusedFirmwareNeverBoots
<1>1. Init => CommitUntouched
  BY DEF Init, CommitUntouched, InFlight, Succeeded
<1>2. Spec /\ []RestartsFirst => []CommitUntouched
  BY <1>1, UntouchedNext, Invariance, OwnImageAlways, PTL DEF Spec
<1>3. CommitUntouched => RestartsIntoNewFirmware
  BY DEF CommitUntouched, Succeeded, RestartsIntoNewFirmware
<1>4. IInv /\ CommitUntouched /\ [Next]_vars => [running' # running => running' \notin refused]_vars
  <2>. SUFFICES ASSUME IInv, CommitUntouched, [Next]_vars, running' # running
                PROVE  running' \notin refused
    OBVIOUS
  <2>1. running' = boot
    BY RunningKept DEF Reboot, BootChoice, IInv, NeverStranded, CommitUntouched
  <2>. QED
    BY <2>1 DEF CommitUntouched
<1>. QED
  BY <1>2, <1>3, <1>4, Invariance, PTL DEF Spec, RefusedFirmwareNeverBoots

-----------------------------------------------------------------------------
(* The safety half of AbortFreesSlot. *)

(* Steps run_update() and the release take at most once an abort is pending. *)
StepsLeft(label) ==
    CASE label = "configuring"                 -> 9
      [] label = "connecting"                  -> 8
      [] label = "notifying"                   -> 7
      [] label \in {"inspecting", "reporting"} -> 6
      [] label = "downloading"                 -> 5
      [] label = "verifying"                   -> 4
      [] label \in {"polling", "lastReport"}   -> 3
      [] label \in {"committing", "aborting"}  -> 2
      [] OTHER                                 -> 1

(* ota-api.c:74-93: an update with an abort pending never goes round its loop
   again.  Whatever other tasks do, the wish is kept and the update stays where
   it is; each step of its own brings it nearer to the release, in nine at most. *)
AbortCountsDown ==
    [][s_abort_requested =>
         \/ ~s_running'
         \/ /\ s_abort_requested'
            /\ \E t \in InFlight :
                 /\ InFlight' = {t}
                 /\ IF TaskStep(t) THEN StepsLeft(pc'[t]) < StepsLeft(pc[t])
                                   ELSE pc'[t] = pc[t]]_vars

LEMMA StepsLeftValues ==
    /\ StepsLeft("configuring") = 9
    /\ StepsLeft("connecting") = 8
    /\ StepsLeft("notifying") = 7
    /\ StepsLeft("inspecting") = 6 /\ StepsLeft("reporting") = 6
    /\ StepsLeft("downloading") = 5
    /\ StepsLeft("verifying") = 4
    /\ StepsLeft("polling") = 3 /\ StepsLeft("lastReport") = 3
    /\ StepsLeft("committing") = 2 /\ StepsLeft("aborting") = 2
    /\ StepsLeft("releasing") = 1
  BY DEF StepsLeft

(* The update's own step, from any point at which it holds the slot. *)
LEMMA OwnStepNearer ==
    ASSUME IInv, s_abort_requested, NEW t \in InFlight, TaskStep(t)
    PROVE  \/ ~s_running'
           \/ /\ s_abort_requested'
              /\ pc'[t] \in SlotPcs
              /\ \A u \in Tasks \ {t} : pc'[u] = pc[u]
              /\ StepsLeft(pc'[t]) < StepsLeft(pc[t])
<1>. DEFINE Moves(from, to) == pc[t] \in from /\ pc' = [pc EXCEPT ![t] = to]
<1>1. s_abort_requested' \/ ~s_running'
  BY DEF TaskStep, OtaTask, BuildHttpConfig, HttpsOtaBegin, DispatchStarted, CheckIncomingImage,
         Perform, PollAbort, LoopReport, CheckComplete, ForcedReport, HttpsOtaAbort,
         HttpsOtaFinish, ReleaseUpdateSlot, DispatchOutcome, EspRestart, Reboot, InFlight
<1>2. \/ ~s_running'
      \/ Moves({"configuring"}, "connecting")
      \/ Moves({"connecting"}, "notifying")
      \/ Moves({"notifying"}, "inspecting")
      \/ Moves({"inspecting", "reporting"}, "downloading")
      \/ Moves({"downloading"}, "verifying")
      \/ Moves({"downloading"}, "polling")
      \/ Moves({"verifying"}, "lastReport")
      \/ Moves({"lastReport"}, "committing")
      \/ Moves({"notifying", "inspecting", "downloading", "polling", "reporting",
                "verifying", "lastReport"}, "aborting")
      \/ Moves({"configuring", "connecting", "aborting", "committing"}, "releasing")
  <2>1. CASE BuildHttpConfig(t) \/ HttpsOtaBegin(t)
    BY <2>1 DEF BuildHttpConfig, HttpsOtaBegin
  <2>2. CASE DispatchStarted(t) \/ CheckIncomingImage(t)
    BY <2>2 DEF DispatchStarted, CheckIncomingImage, DispatchEvent
  <2>3. CASE Perform(t)
    BY <2>3 DEF Perform
  <2>4. CASE PollAbort(t)
    BY <2>4 DEF PollAbort
  <2>5. CASE LoopReport(t) \/ ForcedReport(t)
    BY <2>5 DEF LoopReport, ForcedReport, ReportProgress, DispatchEvent
  <2>6. CASE CheckComplete(t)
    BY <2>6 DEF CheckComplete
  <2>7. CASE HttpsOtaAbort(t) \/ HttpsOtaFinish(t)
    BY <2>7 DEF HttpsOtaAbort, HttpsOtaFinish
  <2>8. CASE ReleaseUpdateSlot(t) \/ EspRestart(t)
    BY <2>8 DEF ReleaseUpdateSlot, EspRestart, Reboot
  <2>9. CASE OtaTask(t) \/ DispatchOutcome(t)
    BY <2>9 DEF OtaTask, DispatchOutcome, InFlight, SlotPcs, HandlePcs
  <2>. QED
    BY <2>1, <2>2, <2>3, <2>4, <2>5, <2>6, <2>7, <2>8, <2>9 DEF TaskStep
<1>3. ASSUME NEW to \in SlotPcs, pc' = [pc EXCEPT ![t] = to],
             StepsLeft(to) < StepsLeft(pc[t])
      PROVE  /\ pc'[t] \in SlotPcs
             /\ \A u \in Tasks \ {t} : pc'[u] = pc[u]
             /\ StepsLeft(pc'[t]) < StepsLeft(pc[t])
  BY <1>3 DEF IInv, TypeOK, InFlight
<1>4. CASE Moves({"configuring"}, "connecting")
  BY <1>4, <1>1, <1>3, StepsLeftValues DEF SlotPcs, HandlePcs
<1>5. CASE Moves({"connecting"}, "notifying")
  BY <1>5, <1>1, <1>3, StepsLeftValues DEF SlotPcs, HandlePcs
<1>6. CASE Moves({"notifying"}, "inspecting")
  BY <1>6, <1>1, <1>3, StepsLeftValues DEF SlotPcs, HandlePcs
<1>7. CASE Moves({"inspecting", "reporting"}, "downloading")
  BY <1>7, <1>1, <1>3, StepsLeftValues DEF SlotPcs, HandlePcs
<1>8. CASE Moves({"downloading"}, "verifying")
  BY <1>8, <1>1, <1>3, StepsLeftValues DEF SlotPcs, HandlePcs
<1>9. CASE Moves({"downloading"}, "polling")
  BY <1>9, <1>1, <1>3, StepsLeftValues DEF SlotPcs, HandlePcs
<1>10. CASE Moves({"verifying"}, "lastReport")
  BY <1>10, <1>1, <1>3, StepsLeftValues DEF SlotPcs, HandlePcs
<1>11. CASE Moves({"lastReport"}, "committing")
  BY <1>11, <1>1, <1>3, StepsLeftValues DEF SlotPcs, HandlePcs
<1>12. CASE Moves({"notifying", "inspecting", "downloading", "polling", "reporting",
                   "verifying", "lastReport"}, "aborting")
  BY <1>12, <1>1, <1>3, StepsLeftValues DEF SlotPcs, HandlePcs
<1>13. CASE Moves({"configuring", "connecting", "aborting", "committing"}, "releasing")
  BY <1>13, <1>1, <1>3, StepsLeftValues DEF SlotPcs, HandlePcs
<1>. QED
  BY <1>1, <1>2, <1>4, <1>5, <1>6, <1>7, <1>8, <1>9, <1>10, <1>11, <1>12, <1>13

(* Another task neither takes the slot nor withdraws the wish. *)
LEMMA OtherStepsLeaveIt ==
    ASSUME IInv, s_abort_requested, NEW t \in InFlight, Next, ~TaskStep(t)
    PROVE  \/ ~s_running'
           \/ s_abort_requested' /\ pc'[t] = pc[t] /\ InFlight' = {t}
<1>1. s_running /\ InFlight = {t}
  BY DEF IInv, OneUpdateAtATime
<1>2. CASE OtaApiAbort \/ Reset
  BY <1>1, <1>2 DEF OtaApiAbort, Reset, Reboot, InFlight
<1>3. ASSUME NEW u \in Tasks, Update(u) \/ StartTask(u) \/ OtaTask(u) \/ DispatchOutcome(u)
      PROVE  s_abort_requested' /\ pc'[t] = pc[t] /\ InFlight' = {t}
  <2>1. u # t /\ pc[u] \notin SlotPcs /\ s_abort_requested'
    BY <1>1, <1>3 DEF Update, StartTask, OtaTask, ClaimUpdateSlot, DispatchOutcome, InFlight
  <2>2. pc'[u] \notin SlotPcs /\ \A v \in Tasks \ {u} : pc'[v] = pc[v]
    BY <1>1, <1>3 DEF Update, StartTask, OtaTask, ClaimUpdateSlot, DispatchOutcome, Return,
                      IInv, TypeOK
  <2>. QED
    BY <1>1, <2>1, <2>2 DEF InFlight
<1>4. ASSUME NEW u \in Tasks, TaskStep(u), u # t
      PROVE  OtaTask(u) \/ DispatchOutcome(u) \/ EspRestart(u)
  BY <1>1, <1>4 DEF TaskStep, BuildHttpConfig, HttpsOtaBegin, DispatchStarted, CheckIncomingImage,
        Perform, PollAbort, LoopReport, CheckComplete, ForcedReport, HttpsOtaAbort,
        HttpsOtaFinish, ReleaseUpdateSlot, InFlight
<1>5. ASSUME NEW u \in Tasks, EspRestart(u)
      PROVE  ~s_running'
  BY <1>5 DEF EspRestart, Reboot
<1>. QED
  BY <1>2, <1>3, <1>4, <1>5 DEF Next

(* A pending abort is at most nine of the update's own steps away from a free
   slot (ota-api.c:74-93,148-153). *)
THEOREM AbortNearsRelease == Spec => AbortCountsDown
<1>1. ASSUME IInv, [Next]_vars, s_abort_requested, s_running'
      PROVE  /\ s_abort_requested'
             /\ \E t \in InFlight :
                  /\ InFlight' = {t}
                  /\ IF TaskStep(t) THEN StepsLeft(pc'[t]) < StepsLeft(pc[t])
                                    ELSE pc'[t] = pc[t]
  <2>1. PICK t \in InFlight : InFlight = {t}
    BY <1>1 DEF IInv, AbortHitsItsOwnUpdate, OneUpdateAtATime
  <2>2. CASE TaskStep(t)
    BY <1>1, <2>1, <2>2, OwnStepNearer DEF InFlight
  <2>3. CASE ~TaskStep(t) /\ Next
    BY <1>1, <2>1, <2>3, OtherStepsLeaveIt
  <2>4. CASE ~TaskStep(t) /\ UNCHANGED vars
    BY <1>1, <2>1, <2>4 DEF vars, InFlight
  <2>. QED
    BY <1>1, <2>2, <2>3, <2>4
<1>2. IInv /\ [Next]_vars =>
        [s_abort_requested =>
           \/ ~s_running'
           \/ /\ s_abort_requested'
              /\ \E t \in InFlight :
                   /\ InFlight' = {t}
                   /\ IF TaskStep(t) THEN StepsLeft(pc'[t]) < StepsLeft(pc[t])
                                     ELSE pc'[t] = pc[t]]_vars
  BY <1>1
<1>. QED
  BY <1>2, Invariance, PTL DEF Spec, AbortCountsDown
=============================================================================
