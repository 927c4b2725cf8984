------------------------ MODULE OtaUpdateRefines_proofs ------------------------
(***************************************************************************)
(* OtaUpdate implements its two abstract specifications: CallbackContract, *)
(* what event_cb hears, and UpdatePromise, what happens to the boot        *)
(* partition.  Both proofs map every step of the engine to one abstract    *)
(* step or to none, under the invariant of OtaUpdate_proofs.               *)
(***************************************************************************)
EXTENDS OtaUpdate_proofs

USE DEF slotVars, eventVars, flashVars, SlotPcs, HandlePcs, NoEvent, NotAsked,
        Goto, Fail, Continue

(* The steps during which event_cb hears nothing. *)
Silent(t) ==
    \/ StartTask(t) \/ BuildHttpConfig(t) \/ HttpsOtaBegin(t) \/ Perform(t)
    \/ PollAbort(t) \/ CheckComplete(t) \/ HttpsOtaAbort(t) \/ HttpsOtaFinish(t)
    \/ ReleaseUpdateSlot(t)

(* A step that neither asks nor tells the callback anything is invisible to it. *)
LEMMA SilentStep ==
    ASSUME NEW t \in Tasks, Silent(t)
    PROVE  UNCHANGED <<heard, verdict>>
  BY DEF Silent, StartTask, BuildHttpConfig, HttpsOtaBegin, Perform, PollAbort,
         CheckComplete, HttpsOtaAbort, HttpsOtaFinish, ReleaseUpdateSlot

(* A claim starts the next conversation, and only after the last one ended. *)
LEMMA ClaimStartsAnew ==
    ASSUME IInv, NEW t \in Tasks, Update(t) \/ OtaTask(t)
    PROVE  Contract!NewUpdate(t) \/ UNCHANGED <<heard, verdict>>
<1>1. pc[t] \in {"idle", "created"}
  BY DEF Update, OtaTask
<1>2. heard[t] \in {NoEvent, "SUCCEEDED", "FAILED"}
  BY <1>1 DEF IInv, HeardFollowsPc, HeardAt
<1>3. /\ heard' = [heard EXCEPT ![t] = NoEvent] \/ UNCHANGED heard
      /\ UNCHANGED verdict
  BY DEF Update, OtaTask, ClaimUpdateSlot
<1>4. CASE heard[t] = NoEvent
  BY <1>3, <1>4 DEF IInv, TypeOK
<1>5. CASE heard[t] # NoEvent
  BY <1>2, <1>3, <1>5 DEF Contract!NewUpdate, Contract!Outcomes
<1>. QED
  BY <1>4, <1>5

(* A question is asked only of a callback that has not refused yet, and in
   its turn. *)
LEMMA DispatchAsks ==
    ASSUME IInv, NEW t \in Tasks, NEW event \in Asked, NEW label,
           verdict[t] = "OK",
           event_cb[t] => event \in Contract!MayFollow(heard[t]),
           DispatchEvent(t, event, label)
    PROVE  Contract!Ask(t) \/ UNCHANGED <<heard, verdict>>
<1>1. CASE ~event_cb[t]
  BY <1>1 DEF DispatchEvent
<1>2. CASE event_cb[t]
  <2>1. event \in Contract!MayFollow(heard[t]) \ Contract!Outcomes
    BY <1>2 DEF Asked, Contract!Outcomes
  <2>2. heard' = [heard EXCEPT ![t] = event]
    BY <1>2 DEF DispatchEvent
  <2>3. \E v \in {"OK", "VETO"} : verdict' = [verdict EXCEPT ![t] = v]
    BY <1>2 DEF DispatchEvent, Verdicts
  <2>. QED
    BY <2>1, <2>2, <2>3 DEF Contract!Ask
<1>. QED
  BY <1>1, <1>2

(* Each question is asked by the task whose turn it is, in the order of run_update(). *)
LEMMA QuestionStep ==
    ASSUME IInv, NEW t \in Tasks,
           DispatchStarted(t) \/ CheckIncomingImage(t)
             \/ LoopReport(t) \/ ForcedReport(t)
    PROVE  Contract!Ask(t) \/ UNCHANGED <<heard, verdict>>
<1>1. pc[t] \in {"notifying", "inspecting", "reporting", "lastReport"}
  BY DEF DispatchStarted, CheckIncomingImage, LoopReport, ForcedReport
<1>2. verdict[t] = "OK"
  BY <1>1 DEF IInv, ErrorStops, CleanPcs, Pcs
<1>3. CASE DispatchStarted(t)
  <2>1. heard[t] = NoEvent
    BY <1>3 DEF DispatchStarted, IInv, HeardFollowsPc, HeardAt
  <2>2. "STARTED" \in Contract!MayFollow(heard[t])
    BY <2>1 DEF Contract!MayFollow
  <2>. QED
    BY <1>2, <1>3, <2>2, DispatchAsks DEF DispatchStarted, Asked
<1>4. CASE CheckIncomingImage(t)
  <2>1. event_cb[t] => "IMAGE_DESC" \in Contract!MayFollow(heard[t])
    BY <1>4 DEF CheckIncomingImage, IInv, HeardFollowsPc, HeardAt,
                Contract!MayFollow
  <2>. QED
    BY <1>2, <1>4, <2>1, DispatchAsks DEF CheckIncomingImage, Asked
<1>5. CASE LoopReport(t) \/ ForcedReport(t)
  <2>1. event_cb[t] => heard[t] \in {"IMAGE_DESC", "PROGRESS"}
    BY <1>5 DEF LoopReport, ForcedReport, IInv, HeardFollowsPc, HeardAt
  <2>2. event_cb[t] => "PROGRESS" \in Contract!MayFollow(heard[t])
    BY <2>1 DEF Contract!MayFollow
  <2>. QED
    BY <1>2, <1>5, <2>2, DispatchAsks
       DEF LoopReport, ForcedReport, ReportProgress, Asked
<1>. QED
  BY <1>3, <1>4, <1>5

(* The last word is FAILED after a refusal, and SUCCEEDED not before the
   image description was accepted. *)
LEMMA OutcomeStep ==
    ASSUME IInv, NEW t \in Tasks, DispatchOutcome(t)
    PROVE  Contract!Tell(t) \/ UNCHANGED <<heard, verdict>>
<1>. pc[t] = "settling" /\ verdict' = [verdict EXCEPT ![t] = "OK"]
  BY DEF DispatchOutcome, Return
<1>1. CASE ~event_cb[t]
  <2>1. heard' = heard
    BY <1>1 DEF DispatchOutcome
  <2>2. verdict' = verdict
    BY <1>1 DEF IInv, TypeOK, HeardFollowsPc, HeardAt
  <2>. QED
    BY <2>1, <2>2
<1>2. CASE event_cb[t] /\ err[t] = "OK"
  <2>1. heard' = [heard EXCEPT ![t] = "SUCCEEDED"]
    BY <1>2 DEF DispatchOutcome
  <2>2. heard[t] \in {"IMAGE_DESC", "PROGRESS"}
    BY <1>2 DEF IInv, HeardFollowsPc, HeardAt
  <2>3. verdict[t] = "OK"
    BY <1>2 DEF IInv, ErrorStops
  <2>4. "SUCCEEDED" \in Contract!MayFollow(heard[t]) \cap Contract!Outcomes
    BY <2>2 DEF Contract!MayFollow, Contract!Outcomes
  <2>. QED
    BY <2>1, <2>3, <2>4 DEF Contract!Tell
<1>3. CASE event_cb[t] /\ err[t] # "OK"
  <2>1. heard' = [heard EXCEPT ![t] = "FAILED"]
    BY <1>3 DEF DispatchOutcome
  <2>2. heard[t] \in Asked \cup {NoEvent}
    BY DEF IInv, HeardFollowsPc, HeardAt
  <2>3. "FAILED" \in Contract!MayFollow(heard[t]) \cap Contract!Outcomes
    BY <2>2 DEF Asked, Contract!MayFollow, Contract!Outcomes
  <2>. QED
    BY <2>1, <2>3 DEF Contract!Tell
<1>. QED
  BY <1>1, <1>2, <1>3

(* Every step of the engine is a step of the callback contract, or none. *)
LEMMA ContractStep ==
    ASSUME IInv, [Next]_vars
    PROVE  [Contract!Next]_<<heard, verdict>>
<1>1. CASE UNCHANGED vars
  BY <1>1 DEF vars
<1>2. ASSUME NEW t \in Tasks, Update(t) \/ OtaTask(t)
      PROVE  [Contract!Next]_<<heard, verdict>>
  BY <1>2, ClaimStartsAnew DEF Contract!Next
<1>3. ASSUME NEW t \in Tasks, Silent(t)
      PROVE  [Contract!Next]_<<heard, verdict>>
  BY <1>3, SilentStep
<1>4. ASSUME NEW t \in Tasks,
             DispatchStarted(t) \/ CheckIncomingImage(t)
               \/ LoopReport(t) \/ ForcedReport(t)
      PROVE  [Contract!Next]_<<heard, verdict>>
  BY <1>4, QuestionStep DEF Contract!Next
<1>5. ASSUME NEW t \in Tasks, DispatchOutcome(t)
      PROVE  [Contract!Next]_<<heard, verdict>>
  BY <1>5, OutcomeStep DEF Contract!Next
<1>6. CASE OtaApiAbort
  BY <1>6 DEF OtaApiAbort
<1>7. CASE Reboot
  BY <1>7 DEF Reboot, Contract!Next, Contract!Reset
<1>. QED
  BY <1>1, <1>2, <1>3, <1>4, <1>5, <1>6, <1>7
     DEF Next, TaskStep, Silent, EspRestart, Reset

(* event_cb hears every update in the documented order, with one last word and
   no question after a refusal (ota-api.h:68-83, ota-api.c:142-195). *)
THEOREM ImplementsContract == Spec => ContractKept
<1>1. Init => Contract!Init
  BY DEF Init, Contract!Init
<1>2. IInv /\ [Next]_vars => [Contract!Next]_<<heard, verdict>>
  BY ContractStep
<1>. QED
  BY <1>1, <1>2, Invariance, PTL DEF Spec, ContractKept, Contract!Spec

-----------------------------------------------------------------------------
(* How far each task's update is decided, as UpdatePromise sees it. *)
phase == [t \in Tasks |-> Phase(t)]

(* A step that does not change the phase of the task that takes it, nor the
   boot or the running partition, is a stuttering step of the promise. *)
LEMMA SamePhase ==
    ASSUME TypeOK, NEW t \in Tasks,
           \A u \in Tasks \ {t} : pc'[u] = pc[u] /\ err'[u] = err[u],
           Phase(t)' = Phase(t)
    PROVE  phase' = phase
<1>1. \A u \in Tasks \ {t} : Phase(u)' = Phase(u)
  BY DEF Phase
<1>. QED
  BY <1>1 DEF phase

(* One that does moves only that task. *)
LEMMA OnePhase ==
    ASSUME TypeOK, NEW t \in Tasks, NEW p,
           \A u \in Tasks \ {t} : pc'[u] = pc[u] /\ err'[u] = err[u],
           Phase(t)' = p
    PROVE  phase' = [phase EXCEPT ![t] = p]
<1>1. \A u \in Tasks \ {t} : Phase(u)' = Phase(u)
  BY DEF Phase
<1>. QED
  BY <1>1 DEF phase

(* A task's step touches no other task's program counter or error. *)
LEMMA OthersStay ==
    ASSUME TypeOK, NEW t \in Tasks,
           Update(t) \/ StartTask(t) \/ TaskStep(t), ~EspRestart(t)
    PROVE  \A u \in Tasks \ {t} : pc'[u] = pc[u] /\ err'[u] = err[u]
<1>1. CASE Update(t) \/ StartTask(t) \/ OtaTask(t)
  BY <1>1 DEF TypeOK, Update, StartTask, OtaTask, ClaimUpdateSlot
<1>2. CASE BuildHttpConfig(t) \/ HttpsOtaBegin(t) \/ Perform(t) \/ PollAbort(t)
             \/ CheckComplete(t)
  BY <1>2 DEF TypeOK, BuildHttpConfig, HttpsOtaBegin, Perform, PollAbort,
              CheckComplete
<1>3. CASE DispatchStarted(t) \/ CheckIncomingImage(t) \/ LoopReport(t)
             \/ ForcedReport(t)
  BY <1>3 DEF TypeOK, DispatchStarted, CheckIncomingImage, LoopReport,
              ForcedReport, ReportProgress, DispatchEvent
<1>4. CASE HttpsOtaAbort(t) \/ HttpsOtaFinish(t) \/ ReleaseUpdateSlot(t)
             \/ DispatchOutcome(t)
  BY <1>4 DEF TypeOK, HttpsOtaAbort, HttpsOtaFinish, ReleaseUpdateSlot,
              DispatchOutcome, Return
<1>. QED
  BY <1>1, <1>2, <1>3, <1>4 DEF TaskStep

(* Only a successful esp_https_ota_finish() commits. *)
LEMMA FinishStep ==
    ASSUME IInv, NEW t \in Tasks, HttpsOtaFinish(t)
    PROVE  Promise!Commit(t) \/ Promise!Refuse(t)
<1>1. pc[t] = "committing" /\ err[t] = "OK"
  BY DEF HttpsOtaFinish, IInv, ErrorStops, CleanPcs, Pcs
<1>2. phase[t] = "open"
  BY <1>1 DEF phase, Phase
<1>3. /\ pc'[t] = "releasing"
      /\ \/ err'[t] = "OK" /\ boot' = Target
         \/ err'[t] # "OK" /\ boot' = boot
      /\ running' = running
  BY <1>1 DEF HttpsOtaFinish, IInv, TypeOK
<1>4. \A u \in Tasks \ {t} : pc'[u] = pc[u] /\ err'[u] = err[u]
  BY OthersStay DEF HttpsOtaFinish, EspRestart, TaskStep, IInv
<1>5. CASE err'[t] = "OK"
  <2>1. phase' = [phase EXCEPT ![t] = "committed"]
    BY <1>3, <1>4, <1>5, OnePhase DEF Phase, IInv
  <2>. QED
    BY <1>2, <1>3, <1>5, <2>1, TargetLemma
       DEF Promise!Commit, phase, IInv, TypeOK
<1>6. CASE err'[t] # "OK"
  <2>1. phase' = [phase EXCEPT ![t] = "refused"]
    <3>1. Phase(t)' = "refused"
      BY <1>3, <1>6 DEF Phase
    <3>. QED
      BY <1>4, <3>1, OnePhase DEF IInv
  <2>. QED
    BY <1>2, <1>3, <1>6, <2>1 DEF Promise!Refuse, phase
<1>. QED
  BY <1>5, <1>6

(* A claim begins an update when no other is in flight. *)
LEMMA ClaimStep ==
    ASSUME IInv, NEW t \in Tasks, Update(t) \/ OtaTask(t)
    PROVE  Promise!Begin(t) \/ UNCHANGED <<phase, running, boot>>
<1>1. pc[t] \in {"idle", "created"} /\ err[t] = "OK"
  BY DEF Update, OtaTask, IInv, ErrorStops, CleanPcs, Pcs
<1>2. UNCHANGED <<err, running, boot>>
  BY DEF Update, OtaTask
<1>3. \A u \in Tasks \ {t} : pc'[u] = pc[u] /\ err'[u] = err[u]
  BY OthersStay DEF Update, OtaTask, EspRestart, TaskStep, IInv
<1>4. CASE ~s_running
  <2>1. pc'[t] = "configuring"
    BY <1>4 DEF Update, OtaTask, ClaimUpdateSlot, IInv, TypeOK
  <2>2. phase' = [phase EXCEPT ![t] = "open"]
    BY <1>1, <1>2, <1>3, <2>1, OnePhase DEF Phase, IInv
  <2>3. \A u \in Tasks : phase[u] = "out"
    <3>1. \A u \in Tasks : pc[u] \notin SlotPcs
      BY <1>4 DEF IInv, OneUpdateAtATime, InFlight
    <3>. QED
      BY <3>1 DEF phase, Phase
  <2>. QED
    BY <1>2, <2>2, <2>3 DEF Promise!Begin, phase
<1>5. CASE s_running
  <2>1. pc'[t] = "idle"
    BY <1>5 DEF Update, OtaTask, ClaimUpdateSlot, IInv, TypeOK
  <2>2. phase' = phase
    <3>1. Phase(t)' = Phase(t)
      BY <1>1, <2>1 DEF Phase
    <3>. QED
      BY <1>3, <3>1, SamePhase DEF IInv
  <2>. QED
    BY <1>2, <2>2
<1>. QED
  BY <1>4, <1>5

(* Steps between the claim and the commit: the update goes on, or is refused. *)
OnTheWay(t) ==
    \/ BuildHttpConfig(t) \/ HttpsOtaBegin(t) \/ DispatchStarted(t)
    \/ CheckIncomingImage(t) \/ Perform(t) \/ PollAbort(t) \/ LoopReport(t)
    \/ CheckComplete(t) \/ ForcedReport(t)

(* Between the claim and the commit the boot partition does not move. *)
LEMMA OnTheWayStep ==
    ASSUME IInv, NEW t \in Tasks, OnTheWay(t)
    PROVE  Promise!Refuse(t) \/ UNCHANGED <<phase, running, boot>>
<1>1. pc[t] \in SlotPcs \ {"aborting", "committing", "releasing"} /\ err[t] = "OK"
  BY DEF OnTheWay, BuildHttpConfig, HttpsOtaBegin, DispatchStarted,
         CheckIncomingImage, Perform, PollAbort, LoopReport, CheckComplete,
         ForcedReport, IInv, ErrorStops, CleanPcs, Pcs
<1>2. UNCHANGED <<running, boot>>
  BY DEF OnTheWay, BuildHttpConfig, HttpsOtaBegin, DispatchStarted,
         CheckIncomingImage, Perform, PollAbort, LoopReport, CheckComplete,
         ForcedReport
<1>3. \A u \in Tasks \ {t} : pc'[u] = pc[u] /\ err'[u] = err[u]
  <2>1. TaskStep(t) /\ ~EspRestart(t)
    BY <1>1 DEF OnTheWay, TaskStep, EspRestart
  <2>. QED
    BY <2>1, OthersStay DEF IInv
<1>4. \/ err'[t] = "OK" /\ pc'[t] \in SlotPcs \ {"releasing"}
      \/ err'[t] # "OK" /\ pc'[t] \in SlotPcs
  <2>1. CASE BuildHttpConfig(t) \/ HttpsOtaBegin(t) \/ PollAbort(t) \/ CheckComplete(t)
    BY <1>1, <2>1 DEF BuildHttpConfig, HttpsOtaBegin, PollAbort, CheckComplete,
                      IInv, TypeOK
  <2>2. CASE DispatchStarted(t) \/ CheckIncomingImage(t)
    BY <1>1, <2>2 DEF DispatchStarted, CheckIncomingImage, DispatchEvent,
                      IInv, TypeOK
  <2>3. CASE LoopReport(t) \/ ForcedReport(t)
    BY <1>1, <2>3 DEF LoopReport, ForcedReport, ReportProgress, DispatchEvent,
                      IInv, TypeOK
  <2>4. CASE Perform(t)
    BY <1>1, <2>4 DEF Perform, IInv, TypeOK
  <2>. QED
    BY <2>1, <2>2, <2>3, <2>4 DEF OnTheWay
<1>5. phase[t] = "open"
  BY <1>1 DEF phase, Phase
<1>6. CASE err'[t] = "OK"
  <2>1. phase' = phase
    BY <1>1, <1>3, <1>4, <1>6, SamePhase DEF Phase, IInv
  <2>. QED
    BY <1>2, <2>1
<1>7. CASE err'[t] # "OK"
  <2>1. phase' = [phase EXCEPT ![t] = "refused"]
    <3>1. Phase(t)' = "refused"
      BY <1>4, <1>7 DEF Phase
    <3>. QED
      BY <1>3, <3>1, OnePhase DEF IInv
  <2>. QED
    BY <1>2, <1>5, <2>1 DEF Promise!Refuse, phase
<1>. QED
  BY <1>6, <1>7

(* Freeing the handle and returning to the caller decide nothing; releasing the
   slot ends the update. *)
LEMMA WindUpStep ==
    ASSUME IInv, NEW t \in Tasks,
           StartTask(t) \/ HttpsOtaAbort(t) \/ ReleaseUpdateSlot(t)
             \/ DispatchOutcome(t)
    PROVE  Promise!End(t) \/ UNCHANGED <<phase, running, boot>>
<1>1. UNCHANGED <<running, boot>>
  BY DEF StartTask, HttpsOtaAbort, ReleaseUpdateSlot, DispatchOutcome
<1>2. \A u \in Tasks \ {t} : pc'[u] = pc[u] /\ err'[u] = err[u]
  <2>1. ~EspRestart(t)
    BY DEF StartTask, HttpsOtaAbort, ReleaseUpdateSlot, DispatchOutcome, EspRestart
  <2>. QED
    BY <2>1, OthersStay DEF TaskStep, IInv
<1>3. CASE StartTask(t) \/ DispatchOutcome(t)
  <2>1. pc[t] \notin SlotPcs /\ pc'[t] \notin SlotPcs
    BY <1>3 DEF StartTask, DispatchOutcome, Return, IInv, TypeOK
  <2>2. phase' = phase
    <3>1. Phase(t)' = Phase(t)
      BY <2>1 DEF Phase
    <3>. QED
      BY <1>2, <3>1, SamePhase DEF IInv
  <2>. QED
    BY <1>1, <2>2
<1>4. CASE HttpsOtaAbort(t)
  <2>1. /\ pc[t] = "aborting" /\ err[t] # "OK"
        /\ pc'[t] = "releasing" /\ err'[t] = err[t]
    BY <1>4 DEF HttpsOtaAbort, IInv, TypeOK, ErrorStops
  <2>2. phase' = phase
    <3>1. Phase(t)' = Phase(t)
      BY <2>1 DEF Phase
    <3>. QED
      BY <1>2, <3>1, SamePhase DEF IInv
  <2>. QED
    BY <1>1, <2>2
<1>5. CASE ReleaseUpdateSlot(t)
  <2>1. pc[t] = "releasing" /\ pc'[t] = "settling"
    BY <1>5 DEF ReleaseUpdateSlot, IInv, TypeOK
  <2>2. phase' = [phase EXCEPT ![t] = "out"]
    <3>1. Phase(t)' = "out"
      BY <2>1 DEF Phase
    <3>. QED
      BY <1>2, <3>1, OnePhase DEF IInv
  <2>3. phase[t] \in {"committed", "refused"}
    BY <2>1 DEF phase, Phase
  <2>. QED
    BY <1>1, <2>2, <2>3 DEF Promise!End, phase
<1>. QED
  BY <1>3, <1>4, <1>5

(* A restart drops whatever was in flight and keeps the boot partition. *)
LEMMA RebootResets ==
    ASSUME IInv, Reboot
    PROVE  Promise!Reset
<1>1. phase' = [t \in Tasks |-> "out"]
  BY DEF Reboot, phase, Phase
<1>2. running' \in Partitions /\ boot' = boot
  BY DEF Reboot, BootChoice, IInv, TypeOK
<1>. QED
  BY <1>1, <1>2 DEF Promise!Reset, phase

(* Every step of the engine is a step of the promise, or none. *)
LEMMA PromiseStep ==
    ASSUME IInv, [Next]_vars
    PROVE  [Promise!Next]_<<phase, running, boot>>
<1>1. CASE UNCHANGED vars
  BY <1>1 DEF vars, phase, Phase
<1>2. ASSUME NEW t \in Tasks, Update(t) \/ OtaTask(t)
      PROVE  [Promise!Next]_<<phase, running, boot>>
  BY <1>2, ClaimStep DEF Promise!Next
<1>3. ASSUME NEW t \in Tasks, OnTheWay(t)
      PROVE  [Promise!Next]_<<phase, running, boot>>
  BY <1>3, OnTheWayStep DEF Promise!Next
<1>4. ASSUME NEW t \in Tasks, HttpsOtaFinish(t)
      PROVE  [Promise!Next]_<<phase, running, boot>>
  BY <1>4, FinishStep DEF Promise!Next
<1>5. ASSUME NEW t \in Tasks,
             StartTask(t) \/ HttpsOtaAbort(t) \/ ReleaseUpdateSlot(t)
               \/ DispatchOutcome(t)
      PROVE  [Promise!Next]_<<phase, running, boot>>
  BY <1>5, WindUpStep DEF Promise!Next
<1>6. CASE OtaApiAbort
  BY <1>6 DEF OtaApiAbort, phase, Phase
<1>7. CASE Reboot
  BY <1>7, RebootResets DEF Promise!Next
<1>. QED
  BY <1>1, <1>2, <1>3, <1>4, <1>5, <1>6, <1>7
     DEF Next, TaskStep, OnTheWay, EspRestart, Reset

(* Updates never overlap, each commits the boot partition once or not at all,
   and nothing else moves it (docs/update_state_machine.md:109-116). *)
THEOREM ImplementsPromise == Spec => PromiseKept
<1>1. Init => Promise!Init
  <2>. SUFFICES ASSUME Init PROVE Promise!Init
    OBVIOUS
  <2>1. phase = [t \in Tasks |-> "out"]
    BY DEF Init, phase, Phase
  <2>2. running \in Partitions /\ boot = running
    BY InitIInv DEF Init, IInv, TypeOK
  <2>. QED
    BY <2>1, <2>2 DEF Promise!Init, phase
<1>2. IInv /\ [Next]_vars => [Promise!Next]_<<phase, running, boot>>
  BY PromiseStep
<1>. QED
  BY <1>1, <1>2, Invariance, PTL DEF Spec, PromiseKept, Promise!Spec, phase
=============================================================================
