-------------------------- MODULE ConsoleApps_proofs --------------------------
(***************************************************************************)
(* Theorems about ConsoleApps, for any number of update tasks and URLs.    *)
(*                                                                         *)
(* The properties hold because the flag is a baton: it is down, or held by *)
(* the command that is being handed over, by the request in the semaphore, *)
(* or by exactly one update task - and nothing but the command that found  *)
(* it down writes the buffers.  Baton and BufferKept say so; the rest of   *)
(* IInv is types, the slot, and which program points belong to which       *)
(* example.                                                                *)
(***************************************************************************)
EXTENDS ConsoleApps, TLAPS

InSlot == {"inspecting", "downloading", "refusing"}
BusyPc == Reading \cup {"failed", "succeeded"}
Busy   == {t \in Tasks : pc[t] \in BusyPc}

(* Who holds the flag, and that it is held by one only. *)
Baton ==
    /\ \A t, u \in Busy : t = u
    /\ Busy # {} => s_flag /\ repl = "prompt" /\ ~s_ota_request
    /\ s_ota_request => s_flag /\ repl = "prompt" /\ app = "on_demand"
    /\ repl \in {"copying", "forcing", "claiming"} => ~s_flag
    /\ repl = "handing over" => s_flag

(* Whoever holds it finds its own command in the buffers. *)
BufferKept ==
    /\ repl # "prompt" => command.url \in Urls
    /\ repl \in {"forcing", "claiming", "handing over"} => s_ota_url = command.url
    /\ repl \in {"claiming", "handing over"} /\ app = "advanced"
         => s_force_update = command.force
    /\ s_ota_request => s_ota_url = asked.url
    /\ \A t \in Tasks : pc[t] \in Reading =>
         /\ s_ota_url = order[t].url
         /\ app = "advanced" => s_force_update = order[t].force

SlotHeld == s_running <=> \E t \in Tasks : pc[t] \in InSlot

(* The offer is looked at in "inspecting", and forgotten with the update. *)
OfferChecked ==
    \A t \in Tasks : sameVersion[t] =>
        \/ pc[t] \in {"refusing", "failed"}
        \/ pc[t] \in {"downloading", "succeeded"} /\ order[t].force

(* on_demand has its one worker; advanced's tasks come and go. *)
TasksOfApp ==
    /\ app = "on_demand" =>
         /\ repl # "forcing"
         /\ \E w \in Tasks : pc[w] # "none"
         /\ \A t \in Tasks : pc[t] \notin {"inspecting", "refusing", "deleting"}
    /\ app = "advanced" => \A t \in Tasks : pc[t] # "waiting"

IInv == TypeOK /\ Baton /\ BufferKept /\ SlotHeld /\ OfferChecked /\ TasksOfApp

USE DEF appVars, replVars, Goto, BusyPc, Reading, InSlot

(* What app_main() starts with. *)
LEMMA BootLemma ==
    ASSUME app \in Apps, NEW p \in TasksAtBoot
    PROVE  /\ p \in [Tasks -> {"none", "waiting"}]
           /\ app = "on_demand" => \E w \in Tasks : p[w] # "none"
           /\ app = "advanced" => \A t \in Tasks : p[t] # "waiting"
  BY DEF TasksAtBoot, Apps

(* A command gets past its checks only while nobody holds the flag. *)
LEMMA CmdOtaStep ==
    ASSUME IInv, NEW c \in Commands, CmdOta(c)
    PROVE  IInv'
<1>1. TypeOK'
  BY DEF IInv, TypeOK, Orders, NoOrder, ReplPcs, Pcs, CmdOta, Idle, Fits, Commands
<1>2. Baton'
  BY DEF IInv, TypeOK, Baton, Busy, CmdOta, Idle, Fits, Commands
<1>3. BufferKept'
  BY DEF IInv, TypeOK, Baton, Busy, BufferKept, TasksOfApp, Apps, CmdOta, Idle, Fits, Commands
<1>4. SlotHeld'
  BY DEF IInv, TypeOK, Baton, Busy, SlotHeld, CmdOta, Idle, Fits, Commands
<1>5. OfferChecked'
  BY DEF IInv, TypeOK, OfferChecked, BufferKept, TasksOfApp, Apps, CmdOta, Idle, Fits, Commands
<1>6. TasksOfApp'
  BY DEF IInv, TypeOK, TasksOfApp, Apps, CmdOta, Idle, Fits, Commands
<1>. QED
  BY <1>1, <1>2, <1>3, <1>4, <1>5, <1>6 DEF IInv

(* The buffer is written when nobody reads it. *)
LEMMA CopyUrlStep ==
    ASSUME IInv, CopyUrl
    PROVE  IInv'
<1>1. TypeOK'
  BY DEF IInv, TypeOK, Orders, NoOrder, ReplPcs, Pcs, CopyUrl
<1>2. Baton'
  BY DEF IInv, TypeOK, Baton, Busy, CopyUrl
<1>3. BufferKept'
  BY DEF IInv, TypeOK, Baton, Busy, BufferKept, TasksOfApp, Apps, CopyUrl
<1>4. SlotHeld'
  BY DEF IInv, TypeOK, Baton, Busy, SlotHeld, CopyUrl
<1>5. OfferChecked'
  BY DEF IInv, TypeOK, OfferChecked, BufferKept, TasksOfApp, Apps, CopyUrl
<1>6. TasksOfApp'
  BY DEF IInv, TypeOK, TasksOfApp, Apps, CopyUrl
<1>. QED
  BY <1>1, <1>2, <1>3, <1>4, <1>5, <1>6 DEF IInv

(* So is the force flag. *)
LEMMA SetForceStep ==
    ASSUME IInv, SetForce
    PROVE  IInv'
<1>1. TypeOK'
  BY DEF IInv, TypeOK, Orders, NoOrder, ReplPcs, Pcs, SetForce
<1>2. Baton'
  BY DEF IInv, TypeOK, Baton, Busy, SetForce
<1>3. BufferKept'
  BY DEF IInv, TypeOK, Baton, Busy, BufferKept, TasksOfApp, Apps, SetForce
<1>4. SlotHeld'
  BY DEF IInv, TypeOK, Baton, Busy, SlotHeld, SetForce
<1>5. OfferChecked'
  BY DEF IInv, TypeOK, OfferChecked, BufferKept, TasksOfApp, Apps, SetForce
<1>6. TasksOfApp'
  BY DEF IInv, TypeOK, TasksOfApp, Apps, SetForce
<1>. QED
  BY <1>1, <1>2, <1>3, <1>4, <1>5, <1>6 DEF IInv

(* The command takes the baton. *)
LEMMA RaiseFlagStep ==
    ASSUME IInv, RaiseFlag
    PROVE  IInv'
<1>1. TypeOK'
  BY DEF IInv, TypeOK, Orders, NoOrder, ReplPcs, Pcs, RaiseFlag
<1>2. Baton'
  BY DEF IInv, TypeOK, Baton, Busy, RaiseFlag
<1>3. BufferKept'
  BY DEF IInv, TypeOK, Baton, Busy, BufferKept, TasksOfApp, Apps, RaiseFlag
<1>4. SlotHeld'
  BY DEF IInv, TypeOK, Baton, Busy, SlotHeld, RaiseFlag
<1>5. OfferChecked'
  BY DEF IInv, TypeOK, OfferChecked, BufferKept, TasksOfApp, Apps, RaiseFlag
<1>6. TasksOfApp'
  BY DEF IInv, TypeOK, TasksOfApp, Apps, RaiseFlag
<1>. QED
  BY <1>1, <1>2, <1>3, <1>4, <1>5, <1>6 DEF IInv

(* It passes to the request in the semaphore. *)
LEMMA GiveSemaphoreStep ==
    ASSUME IInv, GiveSemaphore
    PROVE  IInv'
<1>1. TypeOK'
  BY DEF IInv, TypeOK, Orders, NoOrder, ReplPcs, Pcs, GiveSemaphore
<1>2. Baton'
  BY DEF IInv, TypeOK, Baton, Busy, GiveSemaphore
<1>3. BufferKept'
  BY DEF IInv, TypeOK, Baton, Busy, BufferKept, TasksOfApp, Apps, GiveSemaphore
<1>4. SlotHeld'
  BY DEF IInv, TypeOK, Baton, Busy, SlotHeld, GiveSemaphore
<1>5. OfferChecked'
  BY DEF IInv, TypeOK, OfferChecked, BufferKept, TasksOfApp, Apps, GiveSemaphore
<1>6. TasksOfApp'
  BY DEF IInv, TypeOK, TasksOfApp, Apps, GiveSemaphore
<1>. QED
  BY <1>1, <1>2, <1>3, <1>4, <1>5, <1>6 DEF IInv

(* It passes to the task created for it, or is dropped. *)
LEMMA StartTaskStep ==
    ASSUME IInv, StartTask
    PROVE  IInv'
<1>. DEFINE Created(t) == /\ pc[t] = "none"
                          /\ pc' = [pc EXCEPT ![t] = "created"]
                          /\ order' = [order EXCEPT ![t] = command]
                          /\ asked' = command
                          /\ UNCHANGED s_flag
            Dropped    == s_flag' = FALSE /\ UNCHANGED <<pc, order, asked>>
<1>0. (\E t \in Tasks : Created(t)) \/ Dropped
  BY DEF StartTask
<1>a. /\ repl = "handing over" /\ repl' = "prompt" /\ app = "advanced"
      /\ UNCHANGED <<app, s_ota_url, s_force_update, s_ota_request, s_running,
                     command, sameVersion>>
  BY DEF StartTask
<1>1. TypeOK'
  <2>1. pc' \in [Tasks -> Pcs] /\ order' \in [Tasks -> Orders]
        /\ asked' \in Orders /\ s_flag' \in BOOLEAN
    <3>1. CASE \E t \in Tasks : Created(t)
      BY <3>1 DEF IInv, TypeOK, Pcs
    <3>2. CASE Dropped
      BY <3>2 DEF IInv, TypeOK
    <3>. QED
      BY <1>0, <3>1, <3>2
  <2>. QED
    BY <1>a, <2>1 DEF IInv, TypeOK, ReplPcs
<1>2. Baton'
  <2>1. Busy = {} /\ ~s_ota_request /\ s_flag
    BY <1>a DEF IInv, Baton
  <2>2. CASE \E t \in Tasks : Created(t)
    <3>1. PICK t \in Tasks : Created(t)
      BY <2>2
    <3>2. Busy' \subseteq {t}
      BY <3>1, <2>1 DEF IInv, TypeOK, Busy
    <3>. QED
      BY <1>a, <2>1, <3>1, <3>2 DEF Baton
  <2>3. CASE Dropped
    BY <1>a, <2>1, <2>3 DEF Baton, Busy
  <2>. QED
    BY <1>0, <2>2, <2>3
<1>3. BufferKept'
  BY DEF IInv, TypeOK, Baton, Busy, BufferKept, TasksOfApp, Apps, StartTask
<1>4. SlotHeld'
  BY DEF IInv, TypeOK, Baton, Busy, SlotHeld, StartTask
<1>5. OfferChecked'
  BY DEF IInv, TypeOK, OfferChecked, BufferKept, TasksOfApp, Apps, StartTask
<1>6. TasksOfApp'
  BY DEF IInv, TypeOK, TasksOfApp, Apps, StartTask
<1>. QED
  BY <1>1, <1>2, <1>3, <1>4, <1>5, <1>6 DEF IInv

(* The worker takes it over from the semaphore. *)
LEMMA TakeSemaphoreStep ==
    ASSUME IInv, NEW t \in Tasks, TakeSemaphore(t)
    PROVE  IInv'
<1>1. TypeOK'
  BY DEF IInv, TypeOK, Orders, NoOrder, ReplPcs, Pcs, TakeSemaphore
<1>2. Baton'
  BY DEF IInv, TypeOK, Baton, Busy, TakeSemaphore
<1>3. BufferKept'
  BY DEF IInv, TypeOK, Baton, Busy, BufferKept, TasksOfApp, Apps, TakeSemaphore
<1>4. SlotHeld'
  BY DEF IInv, TypeOK, Baton, Busy, SlotHeld, TakeSemaphore
<1>5. OfferChecked'
  BY DEF IInv, TypeOK, OfferChecked, BufferKept, TasksOfApp, Apps, TakeSemaphore
<1>6. TasksOfApp'
  BY DEF IInv, TypeOK, TasksOfApp, Apps, TakeSemaphore
<1>. QED
  BY <1>1, <1>2, <1>3, <1>4, <1>5, <1>6 DEF IInv

(* The task that holds it finds the slot free. *)
LEMMA ClaimStep ==
    ASSUME IInv, NEW t \in Tasks, Claim(t)
    PROVE  IInv'
<1>1. TypeOK'
  <2>1. pc' \in [Tasks -> Pcs] /\ s_running' \in BOOLEAN
    <3>1. PICK l \in {"inspecting", "downloading", "deleting", "failed"} :
            pc' = [pc EXCEPT ![t] = l]
      BY DEF Claim
    <3>. QED
      BY <3>1 DEF IInv, TypeOK, Pcs, Claim
  <2>. QED
    BY <2>1 DEF IInv, TypeOK, Claim
<1>2. Baton'
  BY DEF IInv, TypeOK, Baton, Busy, Claim
<1>3. BufferKept'
  BY DEF IInv, TypeOK, Baton, Busy, BufferKept, TasksOfApp, Apps, Claim
<1>4. SlotHeld'
  BY DEF IInv, TypeOK, Baton, Busy, SlotHeld, Claim
<1>5. OfferChecked'
  BY DEF IInv, TypeOK, OfferChecked, BufferKept, TasksOfApp, Apps, Claim
<1>6. TasksOfApp'
  BY DEF IInv, TypeOK, TasksOfApp, Apps, Claim
<1>. QED
  BY <1>1, <1>2, <1>3, <1>4, <1>5, <1>6 DEF IInv

(* The offered version is judged by the command's own force flag. *)
LEMMA InspectStep ==
    ASSUME IInv, NEW t \in Tasks, Inspect(t)
    PROVE  IInv'
<1>1. TypeOK'
  <2>1. pc' \in [Tasks -> Pcs]
    <3>1. PICK l \in {"refusing", "downloading"} : pc' = [pc EXCEPT ![t] = l]
      BY DEF Inspect
    <3>. QED
      BY <3>1 DEF IInv, TypeOK, Pcs
  <2>2. sameVersion' \in [Tasks -> BOOLEAN]
    BY DEF IInv, TypeOK, Inspect
  <2>. QED
    BY <2>1, <2>2 DEF IInv, TypeOK, Inspect
<1>2. Baton'
  BY DEF IInv, TypeOK, Baton, Busy, Inspect
<1>3. BufferKept'
  BY DEF IInv, TypeOK, Baton, Busy, BufferKept, TasksOfApp, Apps, Inspect
<1>4. SlotHeld'
  BY DEF IInv, TypeOK, Baton, Busy, SlotHeld, Inspect
<1>5. OfferChecked'
  BY DEF IInv, TypeOK, OfferChecked, BufferKept, TasksOfApp, Apps, Inspect
<1>6. TasksOfApp'
  BY DEF IInv, TypeOK, TasksOfApp, Apps, Inspect
<1>. QED
  BY <1>1, <1>2, <1>3, <1>4, <1>5, <1>6 DEF IInv

(* The slot comes free, the flag stays with the task. *)
LEMMA EndUpdateStep ==
    ASSUME IInv, NEW t \in Tasks, EndUpdate(t)
    PROVE  IInv'
<1>1. TypeOK'
  <2>1. pc' \in [Tasks -> Pcs]
    <3>1. PICK l \in {"succeeded", "failed"} : pc' = [pc EXCEPT ![t] = l]
      BY DEF EndUpdate
    <3>. QED
      BY <3>1 DEF IInv, TypeOK, Pcs
  <2>. QED
    BY <2>1 DEF IInv, TypeOK, EndUpdate
<1>2. Baton'
  BY DEF IInv, TypeOK, Baton, Busy, EndUpdate
<1>3. BufferKept'
  BY DEF IInv, TypeOK, Baton, Busy, BufferKept, TasksOfApp, Apps, EndUpdate
<1>4. SlotHeld'
  <2>1. t \in Busy /\ \A u \in Busy : u = t
    BY DEF IInv, Baton, Busy, EndUpdate
  <2>2. PICK l \in {"succeeded", "failed"} : pc' = [pc EXCEPT ![t] = l]
    BY DEF EndUpdate
  <2>3. \A u \in Tasks : pc'[u] \notin InSlot
    BY <2>1, <2>2 DEF IInv, TypeOK, Busy
  <2>. QED
    BY <2>3 DEF SlotHeld, EndUpdate
<1>5. OfferChecked'
  BY DEF IInv, TypeOK, OfferChecked, BufferKept, TasksOfApp, Apps, EndUpdate
<1>6. TasksOfApp'
  BY DEF IInv, TypeOK, TasksOfApp, Apps, EndUpdate
<1>. QED
  BY <1>1, <1>2, <1>3, <1>4, <1>5, <1>6 DEF IInv

(* A failed update puts the baton down. *)
LEMMA LowerFlagStep ==
    ASSUME IInv, NEW t \in Tasks, LowerFlag(t)
    PROVE  IInv'
<1>1. TypeOK'
  <2>1. pc' \in [Tasks -> Pcs]
    <3>1. PICK l \in {"deleting", "waiting"} : pc' = [pc EXCEPT ![t] = l]
      BY DEF LowerFlag
    <3>. QED
      BY <3>1 DEF IInv, TypeOK, Pcs
  <2>2. order' \in [Tasks -> Orders] /\ sameVersion' \in [Tasks -> BOOLEAN]
    BY DEF IInv, TypeOK, Orders, NoOrder, LowerFlag
  <2>. QED
    BY <2>1, <2>2 DEF IInv, TypeOK, LowerFlag
<1>2. Baton'
  <2>1. t \in Busy /\ \A u \in Busy : u = t
    BY DEF IInv, Baton, Busy, LowerFlag
  <2>2. PICK l \in {"deleting", "waiting"} : pc' = [pc EXCEPT ![t] = l]
    BY DEF LowerFlag
  <2>3. Busy' = {}
    BY <2>1, <2>2 DEF IInv, TypeOK, Busy
  <2>4. repl = "prompt" /\ ~s_ota_request
    BY <2>1 DEF IInv, Baton
  <2>. QED
    BY <2>3, <2>4 DEF Baton, LowerFlag
<1>3. BufferKept'
  BY DEF IInv, TypeOK, Baton, Busy, BufferKept, TasksOfApp, Apps, LowerFlag
<1>4. SlotHeld'
  BY DEF IInv, TypeOK, Baton, Busy, SlotHeld, LowerFlag
<1>5. OfferChecked'
  BY DEF IInv, TypeOK, OfferChecked, BufferKept, TasksOfApp, Apps, LowerFlag
<1>6. TasksOfApp'
  BY DEF IInv, TypeOK, TasksOfApp, Apps, LowerFlag
<1>. QED
  BY <1>1, <1>2, <1>3, <1>4, <1>5, <1>6 DEF IInv

(* A task that is deleted holds nothing. *)
LEMMA DeleteTaskStep ==
    ASSUME IInv, NEW t \in Tasks, DeleteTask(t)
    PROVE  IInv'
<1>1. TypeOK'
  BY DEF IInv, TypeOK, Orders, NoOrder, ReplPcs, Pcs, DeleteTask
<1>2. Baton'
  BY DEF IInv, TypeOK, Baton, Busy, DeleteTask
<1>3. BufferKept'
  BY DEF IInv, TypeOK, Baton, Busy, BufferKept, TasksOfApp, Apps, DeleteTask
<1>4. SlotHeld'
  BY DEF IInv, TypeOK, Baton, Busy, SlotHeld, DeleteTask
<1>5. OfferChecked'
  BY DEF IInv, TypeOK, OfferChecked, BufferKept, TasksOfApp, Apps, DeleteTask
<1>6. TasksOfApp'
  BY DEF IInv, TypeOK, TasksOfApp, Apps, DeleteTask
<1>. QED
  BY <1>1, <1>2, <1>3, <1>4, <1>5, <1>6 DEF IInv

(* A reboot, by whatever, starts with everything put down. *)
LEMMA RebootStep ==
    ASSUME IInv, Reboot
    PROVE  IInv'
<1>. app' = app /\ app \in Apps /\ pc' \in TasksAtBoot
  BY DEF Reboot, IInv, TypeOK
<1>0. /\ pc' \in [Tasks -> {"none", "waiting"}]
      /\ app = "on_demand" => \E w \in Tasks : pc'[w] # "none"
      /\ app = "advanced" => \A t \in Tasks : pc'[t] # "waiting"
  BY BootLemma
<1>1. TypeOK'
  BY <1>0 DEF Reboot, TypeOK, Orders, NoOrder, ReplPcs, Pcs
<1>2. Baton' /\ BufferKept' /\ SlotHeld' /\ OfferChecked' /\ TasksOfApp'
  BY <1>0 DEF Reboot, Baton, Busy, BufferKept, SlotHeld, OfferChecked, TasksOfApp
<1>. QED
  BY <1>1, <1>2 DEF IInv

(* Both examples, just started. *)
LEMMA InitIInv == Init => IInv
<1>. SUFFICES ASSUME Init PROVE IInv
  OBVIOUS
<1>0. /\ pc \in [Tasks -> {"none", "waiting"}]
      /\ app = "on_demand" => \E w \in Tasks : pc[w] # "none"
      /\ app = "advanced" => \A t \in Tasks : pc[t] # "waiting"
  BY BootLemma DEF Init
<1>1. TypeOK
  BY <1>0 DEF Init, TypeOK, Orders, NoOrder, ReplPcs, Pcs
<1>2. Baton /\ BufferKept /\ SlotHeld /\ OfferChecked /\ TasksOfApp
  BY <1>0 DEF Init, Baton, Busy, BufferKept, SlotHeld, OfferChecked, TasksOfApp
<1>. QED
  BY <1>1, <1>2 DEF IInv

(* Every step preserves the inductive invariant. *)
LEMMA NextIInv == IInv /\ [Next]_vars => IInv'
<1>. SUFFICES ASSUME IInv, [Next]_vars PROVE IInv'
  OBVIOUS
<1>1. CASE \E c \in Commands : CmdOta(c)
  BY <1>1, CmdOtaStep
<1>2. CASE ReplStep
  BY <1>2, CopyUrlStep, SetForceStep, RaiseFlagStep, GiveSemaphoreStep,
     StartTaskStep DEF ReplStep
<1>3. CASE \E t \in Tasks : TaskStep(t) \/ Inspect(t) \/ EndUpdate(t)
  BY <1>3, TakeSemaphoreStep, ClaimStep, LowerFlagStep, DeleteTaskStep,
     InspectStep, EndUpdateStep, RebootStep DEF TaskStep, Restart
<1>4. CASE Reboot
  BY <1>4, RebootStep
<1>5. CASE UNCHANGED vars
  <2>1. TypeOK'
    BY <1>5 DEF vars, IInv, TypeOK
  <2>2. Baton'
    BY <1>5 DEF vars, IInv, Baton, Busy
  <2>3. BufferKept'
    BY <1>5 DEF vars, IInv, BufferKept
  <2>4. SlotHeld' /\ OfferChecked'
    BY <1>5 DEF vars, IInv, SlotHeld, OfferChecked
  <2>5. TasksOfApp'
    BY <1>5 DEF vars, IInv, TasksOfApp
  <2>. QED
    BY <2>1, <2>2, <2>3, <2>4, <2>5 DEF IInv
<1>. QED
  BY <1>1, <1>2, <1>3, <1>4, <1>5 DEF Next

(* IInv holds in every state of both examples. *)
THEOREM Invariance == Spec => []IInv
<1>. QED
  BY InitIInv, NextIInv, PTL DEF Spec

(* All variables keep their types. *)
THEOREM TypeCorrect == Spec => []TypeOK
<1>1. IInv => TypeOK
  BY DEF IInv
<1>. QED
  BY <1>1, Invariance, PTL

(* No command rewrites s_ota_url under a task that reads it
   (advanced/main/main.c:73-80, on_demand/main/main.c:110-113). *)
THEOREM BufferSafe == Spec => []UrlStable
<1>1. IInv => UrlStable
  BY DEF IInv, BufferKept, UrlStable
<1>. QED
  BY <1>1, Invariance, PTL

(* Whoever has the slot holds the flag, and so does a task at its claim. *)
LEMMA ClaimIsGranted ==
    ASSUME IInv, NEW t \in Tasks, pc[t] = "created"
    PROVE  ~s_running
<1>. SUFFICES ASSUME s_running PROVE FALSE
  OBVIOUS
<1>1. PICK u \in Tasks : pc[u] \in InSlot
  BY DEF IInv, SlotHeld
<1>2. t \in Busy /\ u \in Busy
  BY <1>1 DEF Busy
<1>. QED
  BY <1>1, <1>2 DEF IInv, Baton

(* A task that gets to the claim finds the component's slot free, and nobody
   updates next to a task that is still reporting its outcome
   (ota-api.c:180-213, advanced/main/main.c:230-268). *)
THEOREM ClaimGranted == Spec => []StartsAlone
<1>1. ASSUME IInv PROVE StartsAlone
  <2>1. ASSUME NEW t \in Tasks, pc[t] \in Reading, NEW u \in Tasks \ {t}
        PROVE  pc[u] \notin {"failed", "succeeded"}
    <3>1. t \in Busy /\ (pc[u] \in {"failed", "succeeded"} => u \in Busy)
      BY <2>1 DEF Busy
    <3>. QED
      BY <1>1, <3>1 DEF IInv, Baton
  <2>. QED
    BY <1>1, <2>1, ClaimIsGranted DEF StartsAlone
<1>. QED
  BY <1>1, Invariance, PTL

(* The running version is installed again only when the command says so. *)
THEOREM ForceRespected == Spec => []SameVersionOnlyForced
<1>1. IInv => SameVersionOnlyForced
  BY DEF IInv, OfferChecked, SameVersionOnlyForced
<1>. QED
  BY <1>1, Invariance, PTL

(* No accepted command is swallowed by the binary semaphore. *)
THEOREM RequestKept == Spec => []NoLostRequest
<1>1. IInv => NoLostRequest
  BY DEF IInv, TypeOK, Pcs, Baton, Busy, TasksOfApp, NoLostRequest
<1>. QED
  BY <1>1, Invariance, PTL

-----------------------------------------------------------------------------
(* The safety half of ConsoleUnlocks. *)

(* The flag is up exactly while something holds it that will put it down again
   or restart the device: the command about to hand over, the request in the
   semaphore, or the one task between its creation and its FAILED event or
   restart (advanced/main/main.c:201,244,264, on_demand/main/main.c:76,114). *)
FlagHasOneHolder ==
    /\ s_flag <=> repl = "handing over" \/ s_ota_request \/ Busy # {}
    /\ repl = "handing over" => ~s_ota_request
    /\ repl = "handing over" \/ s_ota_request => Busy = {}
    /\ \A t, u \in Busy : t = u

(* The half that is not in Baton: nobody leaves with the flag up. *)
FlagHeld == s_flag => repl = "handing over" \/ s_ota_request \/ Busy # {}

LEMMA FlagHeldNext ==
    ASSUME IInv, FlagHeld, [Next]_vars
    PROVE  FlagHeld'
<1>. USE DEF FlagHeld, Busy
<1>1. CASE UNCHANGED vars
  BY <1>1 DEF vars
<1>2. ASSUME NEW c \in Commands, CmdOta(c) PROVE FlagHeld'
  BY <1>2 DEF CmdOta
<1>3. CASE ReplStep
  BY <1>3 DEF ReplStep, CopyUrl, SetForce, RaiseFlag, GiveSemaphore, StartTask,
              IInv, TypeOK, Baton
<1>4. ASSUME NEW t \in Tasks, TakeSemaphore(t) \/ Inspect(t) \/ EndUpdate(t)
      PROVE  FlagHeld'
  <2>1. t \in Busy'
    BY <1>4 DEF TakeSemaphore, Inspect, EndUpdate, IInv, TypeOK
  <2>. QED
    BY <2>1
<1>5. ASSUME NEW t \in Tasks, Claim(t) PROVE FlagHeld'
  <2>1. t \in Busy'
    BY <1>5, ClaimIsGranted DEF Claim, IInv, TypeOK
  <2>. QED
    BY <2>1
<1>6. ASSUME NEW t \in Tasks, LowerFlag(t) PROVE FlagHeld'
  BY <1>6 DEF LowerFlag
<1>7. ASSUME NEW t \in Tasks, DeleteTask(t) PROVE FlagHeld'
  BY <1>7 DEF DeleteTask, IInv, TypeOK
<1>8. CASE Reboot
  BY <1>8 DEF Reboot
<1>. QED
  BY <1>1, <1>2, <1>3, <1>4, <1>5, <1>6, <1>7, <1>8 DEF Next, TaskStep, Restart

LEMMA FlagHeldAlways == Spec => []FlagHeld
<1>1. Init => FlagHeld
  BY DEF Init, FlagHeld
<1>. QED
  BY <1>1, FlagHeldNext, Invariance, PTL DEF Spec

(* Nobody leaves with the flag up, and no two hold it. *)
THEOREM OneHolder == Spec => []FlagHasOneHolder
<1>1. IInv /\ FlagHeld => FlagHasOneHolder
  BY DEF IInv, Baton, FlagHeld, FlagHasOneHolder
<1>. QED
  BY <1>1, FlagHeldAlways, Invariance, PTL

-----------------------------------------------------------------------------
(* The console commands are served as requests, one at a time. *)

Serving(labels) == \E t \in Tasks : pc[t] \in labels

(* Read off the command, the semaphore and the tasks, and not off the flag. *)
Stage ==
    IF Serving({"succeeded"}) THEN "restarting"
    ELSE IF Serving(InSlot \cup {"failed"}) THEN "updating"
    ELSE IF repl = "handing over" \/ s_ota_request \/ Serving({"created"}) THEN "requested"
    ELSE "idle"

(* What the tasks read of the request: the buffers, not the command. *)
Buffers == [url |-> s_ota_url, force |-> app = "advanced" /\ s_force_update]

Request == INSTANCE UpdateRequest WITH
               Requests <- [url : Urls, force : BOOLEAN],
               None     <- NoOrder,
               stage    <- Stage,
               request  <- IF Stage = "idle" THEN NoOrder ELSE Buffers

(* Where the request is when a task holds the flag, and when none does. *)
StageOf(label) ==
    CASE label = "succeeded"                -> "restarting"
      [] label \in InSlot \cup {"failed"} -> "updating"
      [] OTHER                             -> "requested"

StageShown ==
    /\ \A t \in Busy : s_flag /\ Stage = StageOf(pc[t])
    /\ Busy = {} => Stage = IF s_flag THEN "requested" ELSE "idle"

LEMMA StageLemma == IInv /\ FlagHeld => StageShown
<1>. SUFFICES ASSUME IInv, FlagHeld PROVE StageShown
  OBVIOUS
<1>1. ASSUME NEW t \in Busy
      PROVE  s_flag /\ Stage = StageOf(pc[t])
  <2>1. s_flag /\ \A u \in Tasks : pc[u] \in BusyPc => u = t
    BY <1>1 DEF IInv, Baton, Busy
  <2>2. ASSUME NEW labels \in SUBSET BusyPc
        PROVE  Serving(labels) <=> pc[t] \in labels
    BY <2>1, <2>2, <1>1 DEF Serving, Busy
  <2>3. /\ Serving({"succeeded"}) <=> pc[t] = "succeeded"
        /\ Serving(InSlot \cup {"failed"}) <=> pc[t] \in InSlot \cup {"failed"}
        /\ Serving({"created"}) <=> pc[t] = "created"
    BY <2>2
  <2>. QED
    BY <2>1, <2>3, <1>1 DEF Stage, StageOf, Busy
<1>2. ASSUME Busy = {}
      PROVE  Stage = IF s_flag THEN "requested" ELSE "idle"
  BY <1>2 DEF Stage, Serving, Busy, FlagHeld, IInv, Baton
<1>. QED
  BY <1>1, <1>2 DEF StageShown

(* While a request is on its way or served, the buffers stay as they are. *)
LEMMA BuffersKept ==
    ASSUME IInv, s_flag, [Next]_vars
    PROVE  ~s_flag' \/ UNCHANGED <<app, s_ota_url, s_force_update>>
  BY DEF IInv, Baton, Next, vars, CmdOta, Idle, ReplStep, CopyUrl, SetForce, RaiseFlag,
         GiveSemaphore, StartTask, TaskStep, TakeSemaphore, Claim, Inspect, EndUpdate,
         LowerFlag, DeleteTask, Restart, Reboot

(* Under a flag that stays up, the request only goes forward. *)
LEMMA StageMoves ==
    ASSUME IInv, StageShown, StageShown', [Next]_vars, s_flag, s_flag'
    PROVE  \/ Stage' = Stage
           \/ Stage = "requested" /\ Stage' = "updating"
           \/ Stage = "updating" /\ Stage' = "restarting"
<1>1. CASE Busy = {}
  <2>1. ASSUME NEW t \in Busy' PROVE pc'[t] = "created"
    BY <1>1, <2>1 DEF Busy, Next, vars, CmdOta, Idle, ReplStep, CopyUrl, SetForce, RaiseFlag,
       GiveSemaphore, StartTask, TaskStep, TakeSemaphore, Claim, Inspect, EndUpdate,
       LowerFlag, DeleteTask, Restart, Reboot, IInv, TypeOK
  <2>2. Stage = "requested" /\ Stage' = "requested"
    BY <1>1, <2>1 DEF StageShown, StageOf
  <2>. QED
    BY <2>2
<1>2. ASSUME NEW t \in Busy
      PROVE  \/ Stage' = Stage
             \/ Stage = "requested" /\ Stage' = "updating"
             \/ Stage = "updating" /\ Stage' = "restarting"
  <2>1. /\ t \in Tasks /\ \A u \in Tasks : pc[u] \in BusyPc => u = t
        /\ repl = "prompt" /\ ~s_ota_request
    BY <1>2 DEF IInv, Baton, Busy
  <2>2. \/ pc'[t] = pc[t]
        \/ pc[t] = "created" /\ pc'[t] \in {"inspecting", "downloading"}
        \/ pc[t] = "inspecting" /\ pc'[t] \in {"refusing", "downloading"}
        \/ pc[t] \in InSlot /\ pc'[t] = "failed"
        \/ pc[t] = "downloading" /\ pc'[t] = "succeeded"
    <3>1. CASE UNCHANGED vars \/ ReplStep \/ \E c \in Commands : CmdOta(c)
      BY <3>1, <2>1 DEF vars, CmdOta, ReplStep, CopyUrl, SetForce, RaiseFlag,
         GiveSemaphore, StartTask
    <3>2. ASSUME NEW u \in Tasks, TakeSemaphore(u) \/ DeleteTask(u)
          PROVE  pc'[t] = pc[t]
      BY <3>2, <2>1, <1>2 DEF TakeSemaphore, DeleteTask, Busy, IInv, TypeOK
    <3>3. ASSUME NEW u \in Tasks, Claim(u)
          PROVE  pc[t] = "created" /\ pc'[t] \in {"inspecting", "downloading"}
      BY <3>3, <2>1, ClaimIsGranted DEF Claim, IInv, TypeOK
    <3>4. ASSUME NEW u \in Tasks, Inspect(u)
          PROVE  pc[t] = "inspecting" /\ pc'[t] \in {"refusing", "downloading"}
      BY <3>4, <2>1 DEF Inspect, IInv, TypeOK
    <3>5. ASSUME NEW u \in Tasks, EndUpdate(u)
          PROVE  \/ pc[t] \in InSlot /\ pc'[t] = "failed"
                 \/ pc[t] = "downloading" /\ pc'[t] = "succeeded"
      BY <3>5, <2>1 DEF EndUpdate, IInv, TypeOK
    <3>6. ~Reboot /\ \A u \in Tasks : ~LowerFlag(u) /\ ~Restart(u)
      BY DEF Reboot, LowerFlag, Restart
    <3>. QED
      BY <3>1, <3>2, <3>3, <3>4, <3>5, <3>6 DEF Next, TaskStep
  <2>3. t \in Busy'
    BY <2>1, <2>2, <1>2 DEF Busy
  <2>. QED
    BY <1>2, <2>2, <2>3 DEF StageShown, StageOf
<1>. QED
  BY <1>1, <1>2

(* A step of the console or of a task is one of the request's, or none. *)
LEMMA RequestStep ==
    ASSUME IInv, IInv', StageShown, StageShown', [Next]_vars
    PROVE  Request!Next \/ UNCHANGED Request!vars
<1>. DEFINE Served == IF Stage = "idle" THEN NoOrder ELSE Buffers
<1>a. UNCHANGED Request!vars <=> Stage' = Stage /\ Served' = Served
  BY DEF Request!vars
<1>b. (~s_flag <=> Stage = "idle") /\ (~s_flag => Busy = {})
  BY DEF StageShown, StageOf
<1>c. (~s_flag <=> Stage = "idle")' /\ (~s_flag => Busy = {})'
  BY DEF StageShown, StageOf
<1>d. s_flag /\ s_flag' => Served' = Served
  BY <1>b, <1>c, BuffersKept DEF Buffers
<1>1. CASE ~s_flag /\ ~s_flag'
  BY <1>1, <1>a, <1>b, <1>c
<1>2. CASE ~s_flag /\ s_flag'
  <2>1. RaiseFlag
    BY <1>2, <1>b DEF Next, vars, CmdOta, ReplStep, CopyUrl, SetForce, GiveSemaphore, StartTask,
       TaskStep, TakeSemaphore, Claim, Inspect, EndUpdate, LowerFlag, DeleteTask,
       Restart, Reboot
  <2>2. Busy' = {} /\ Stage' = "requested"
    BY <1>2, <1>b, <2>1 DEF RaiseFlag, Busy, StageShown
  <2>3. Buffers' \in [url : Urls, force : BOOLEAN]
    BY <1>2, <2>1 DEF Buffers, RaiseFlag, IInv, TypeOK, BufferKept
  <2>. QED
    BY <1>2, <1>b, <2>2, <2>3 DEF Request!Next, Request!Ask
<1>3. CASE s_flag /\ ~s_flag'
  BY <1>3, <1>b, <1>c DEF Request!Next, Request!Close
<1>4. CASE s_flag /\ s_flag'
  <2>1. CASE Stage' = Stage
    BY <1>4, <1>a, <1>d, <2>1
  <2>2. CASE Stage = "requested" /\ Stage' = "updating"
    BY <1>4, <1>d, <2>2 DEF Request!Next, Request!Begin
  <2>3. CASE Stage = "updating" /\ Stage' = "restarting"
    BY <1>4, <1>d, <2>3 DEF Request!Next, Request!Succeed
  <2>. QED
    BY <1>4, <2>1, <2>2, <2>3, StageMoves
<1>. QED
  BY <1>1, <1>2, <1>3, <1>4

(* The commands of both examples are requests that are served one at a time,
   each from buffers that nobody rewrites before it is done, and after a success
   nothing is served before the restart (advanced/main/main.c:230-268,
   on_demand/main/main.c:56-86,95-116). *)
THEOREM ServedOneAtATime == Spec => Request!Spec
<1>1. Init => Request!Init
  <2>1. ASSUME Init PROVE \A t \in Tasks : pc[t] \in {"none", "waiting"}
    BY <2>1, BootLemma DEF Init
  <2>. QED
    BY <2>1 DEF Init, Request!Init, Stage, Serving
<1>2. IInv /\ IInv' /\ StageShown /\ StageShown' /\ [Next]_vars => [Request!Next]_(Request!vars)
  BY RequestStep
<1>. QED
  BY <1>1, <1>2, StageLemma, FlagHeldAlways, Invariance, PTL DEF Spec, Request!Spec
=============================================================================
