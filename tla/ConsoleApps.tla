----------------------------- MODULE ConsoleApps -----------------------------
(***************************************************************************)
(* The two example applications with a console, examples/on_demand and     *)
(* examples/advanced: the REPL task takes 'ota' commands, and an update    *)
(* task reads the URL buffer the command filled in for as long as the      *)
(* update lasts.  on_demand has one worker task waiting on a binary        *)
(* semaphore and calling ota_api_update(); advanced has ota_api_start_task *)
(* spawn a task for each command.  A flag of the application keeps the     *)
(* commands from getting ahead of the update.                              *)
(*                                                                         *)
(* The component is reduced to its update slot and to how an update ends;  *)
(* OtaUpdate models it.  'abort' is one of the reasons why one fails,      *)
(* 'rollback' one of the reasons for a reset.                              *)
(***************************************************************************)
EXTENDS Naturals

CONSTANTS
    Tasks,      \* update tasks that may exist at a time
    Urls,       \* URLs that fit into s_ota_url
    TooLong,    \* one that does not
    Empty       \* s_ota_url at boot

ASSUME UrlsAssumption == TooLong \notin Urls /\ Empty \notin Urls

Apps     == {"on_demand", "advanced"}
Commands == [url : Urls \cup {TooLong}, force : BOOLEAN]
Orders   == [url : Urls \cup {Empty}, force : BOOLEAN]
NoOrder  == [url |-> Empty, force |-> FALSE]

VARIABLES
    app,              \* which example is flashed
    s_ota_url,        \* the buffer both examples keep at file scope
    s_force_update,   \* advanced: 'ota <url> force'
    s_flag,           \* s_ota_running of on_demand, s_ota_pending of advanced
    s_ota_request,    \* on_demand: the semaphore
    s_running,        \* the component's update slot
    repl,             \* where the REPL task is in cmd_ota()
    command,          \* the command it is handling
    asked,            \* history: the last command handed over
    pc,               \* where each update task is
    order,            \* history: the command each one works for
    sameVersion       \* whether it was offered the version that runs

appVars  == <<s_ota_url, s_force_update, s_flag, s_ota_request>>
replVars == <<repl, command, asked>>
vars == <<app, s_ota_url, s_force_update, s_flag, s_ota_request, s_running,
          repl, command, asked, pc, order, sameVersion>>

ReplPcs == {"prompt", "copying", "forcing", "claiming", "handing over"}
Reading == {"created", "inspecting", "downloading", "refusing"}
Pcs     == Reading \cup {"none", "waiting", "failed", "succeeded", "deleting"}

(* app_main(): on_demand creates its worker, advanced has no task yet. *)
TasksAtBoot == {p \in [Tasks -> {"none", "waiting"}] :
                  IF app = "advanced" THEN \A t \in Tasks : p[t] = "none"
                  ELSE \E w \in Tasks : p = [t \in Tasks |-> IF t = w THEN "waiting" ELSE "none"]}

Init ==
    /\ app \in Apps
    /\ pc \in TasksAtBoot
    /\ s_ota_url = Empty
    /\ s_force_update = FALSE
    /\ s_flag = FALSE
    /\ s_ota_request = FALSE
    /\ s_running = FALSE
    /\ repl = "prompt"
    /\ command = NoOrder
    /\ asked = NoOrder
    /\ order = [t \in Tasks |-> NoOrder]
    /\ sameVersion = [t \in Tasks |-> FALSE]

(* Restart, power cut, or 'rollback': all of RAM starts again. *)
Reboot ==
    /\ UNCHANGED app
    /\ pc' \in TasksAtBoot
    /\ s_ota_url' = Empty
    /\ s_force_update' = FALSE
    /\ s_flag' = FALSE
    /\ s_ota_request' = FALSE
    /\ s_running' = FALSE
    /\ repl' = "prompt"
    /\ command' = NoOrder
    /\ asked' = NoOrder
    /\ order' = [t \in Tasks |-> NoOrder]
    /\ sameVersion' = [t \in Tasks |-> FALSE]

-----------------------------------------------------------------------------
(* The REPL task. *)

(* Mutant: the length is not checked and the copy is cut short. *)
FitsAlways(url) == TRUE

Fits(url) == url # TooLong

(* Mutant: only the component is asked whether an update runs. *)
IdleByComponent == ~s_running

(* The examples' own flag; advanced asks ota_api_is_running() as well. *)
Idle == ~s_flag /\ (app = "advanced" => ~s_running)

(* cmd_ota() past its checks; a refused command only prints. *)
CmdOta(c) ==
    /\ repl = "prompt"
    /\ Idle
    /\ Fits(c.url)
    /\ app = "on_demand" => ~c.force
    /\ repl' = "copying"
    /\ command' = c
    /\ UNCHANGED <<app, appVars, s_running, asked, pc, order, sameVersion>>

CopyUrl ==
    /\ repl = "copying"
    /\ s_ota_url' = command.url
    /\ repl' = IF app = "advanced" THEN "forcing" ELSE "claiming"
    /\ UNCHANGED <<app, s_force_update, s_flag, s_ota_request, s_running,
                   command, asked, pc, order, sameVersion>>

(* Mutant: the flag of an earlier command is only ever raised. *)
ForceRaised ==
    /\ repl = "forcing"
    /\ s_force_update' = (s_force_update \/ command.force)
    /\ repl' = "claiming"
    /\ UNCHANGED <<app, s_ota_url, s_flag, s_ota_request, s_running,
                   command, asked, pc, order, sameVersion>>

SetForce ==
    /\ repl = "forcing"
    /\ s_force_update' = command.force
    /\ repl' = "claiming"
    /\ UNCHANGED <<app, s_ota_url, s_flag, s_ota_request, s_running,
                   command, asked, pc, order, sameVersion>>

(* Mutant: the flag is left for the update task to raise. *)
ClaimLater ==
    /\ repl = "claiming"
    /\ repl' = "handing over"
    /\ UNCHANGED <<app, appVars, s_running, command, asked, pc, order, sameVersion>>

RaiseFlag ==
    /\ repl = "claiming"
    /\ s_flag' = TRUE
    /\ repl' = "handing over"
    /\ UNCHANGED <<app, s_ota_url, s_force_update, s_ota_request, s_running,
                   command, asked, pc, order, sameVersion>>

GiveSemaphore ==
    /\ repl = "handing over"
    /\ app = "on_demand"
    /\ s_ota_request' = TRUE
    /\ asked' = command
    /\ repl' = "prompt"
    /\ UNCHANGED <<app, s_ota_url, s_force_update, s_flag, s_running, command,
                   pc, order, sameVersion>>

(* Mutant: the flag stays up when no task could be created. *)
StartTaskLeavingFlag ==
    /\ repl = "handing over"
    /\ app = "advanced"
    /\ \/ \E t \in Tasks :
            /\ pc[t] = "none"
            /\ pc' = [pc EXCEPT ![t] = "created"]
            /\ order' = [order EXCEPT ![t] = command]
            /\ asked' = command
       \/ UNCHANGED <<pc, order, asked>>
    /\ repl' = "prompt"
    /\ UNCHANGED <<app, appVars, s_running, command, sameVersion>>

(* ota_api_start_task(), which may be out of memory. *)
StartTask ==
    /\ repl = "handing over"
    /\ app = "advanced"
    /\ \/ \E t \in Tasks :
            /\ pc[t] = "none"
            /\ pc' = [pc EXCEPT ![t] = "created"]
            /\ order' = [order EXCEPT ![t] = command]
            /\ asked' = command
            /\ UNCHANGED s_flag
       \/ s_flag' = FALSE /\ UNCHANGED <<pc, order, asked>>
    /\ repl' = "prompt"
    /\ UNCHANGED <<app, s_ota_url, s_force_update, s_ota_request, s_running,
                   command, sameVersion>>

ReplStep == CopyUrl \/ SetForce \/ RaiseFlag \/ GiveSemaphore \/ StartTask

-----------------------------------------------------------------------------
(* The update tasks. *)

Goto(t, label) == pc' = [pc EXCEPT ![t] = label]

TakeSemaphore(t) ==
    /\ pc[t] = "waiting"
    /\ s_ota_request
    /\ s_ota_request' = FALSE
    /\ order' = [order EXCEPT ![t] = asked]
    /\ Goto(t, "created")
    /\ UNCHANGED <<app, s_ota_url, s_force_update, s_flag, s_running, replVars,
                   sameVersion>>

(* ota_api_update() claims the slot.  Refused, on_demand's worker reports the
   error like any other; the component's own task ends without an event. *)
Claim(t) ==
    /\ pc[t] = "created"
    /\ \/ /\ ~s_running
          /\ s_running' = TRUE
          /\ Goto(t, IF app = "advanced" THEN "inspecting" ELSE "downloading")
       \/ /\ s_running
          /\ Goto(t, IF app = "advanced" THEN "deleting" ELSE "failed")
          /\ UNCHANGED s_running
    /\ UNCHANGED <<app, appVars, replVars, order, sameVersion>>

(* on_ota_event_cb() at IMAGE_DESC: the version that already runs is refused
   unless 'force' was given. *)
Inspect(t) ==
    /\ pc[t] = "inspecting"
    /\ \E same \in BOOLEAN :
         /\ sameVersion' = [sameVersion EXCEPT ![t] = same]
         /\ Goto(t, IF same /\ ~s_force_update THEN "refusing" ELSE "downloading")
    /\ UNCHANGED <<app, appVars, s_running, replVars, order>>

(* The update ends and the component releases the slot. *)
EndUpdate(t) ==
    /\ \/ pc[t] = "downloading" /\ Goto(t, "succeeded")
       \/ pc[t] \in Reading \ {"created"} /\ Goto(t, "failed")
    /\ s_running' = FALSE
    /\ UNCHANGED <<app, appVars, replVars, order, sameVersion>>

(* The error return of ota_api_update() in the worker, and the FAILED event. *)
LowerFlag(t) ==
    /\ pc[t] = "failed"
    /\ s_flag' = FALSE
    /\ Goto(t, IF app = "advanced" THEN "deleting" ELSE "waiting")
    /\ order' = [order EXCEPT ![t] = NoOrder]
    /\ sameVersion' = [sameVersion EXCEPT ![t] = FALSE]
    /\ UNCHANGED <<app, s_ota_url, s_force_update, s_ota_request, s_running, replVars>>

DeleteTask(t) ==
    /\ pc[t] = "deleting"
    /\ Goto(t, "none")
    /\ order' = [order EXCEPT ![t] = NoOrder]
    /\ UNCHANGED <<app, appVars, s_running, replVars, sameVersion>>

(* The network is shut down for a second, then the device restarts. *)
Restart(t) == pc[t] = "succeeded" /\ Reboot

TaskStep(t) ==
    TakeSemaphore(t) \/ Claim(t) \/ LowerFlag(t) \/ DeleteTask(t) \/ Restart(t)

Next ==
    \/ \E c \in Commands : CmdOta(c)
    \/ ReplStep
    \/ \E t \in Tasks : TaskStep(t) \/ Inspect(t) \/ EndUpdate(t)
    \/ Reboot

(* Ready tasks run; a download may stall for ever. *)
Fairness == WF_vars(ReplStep) /\ \A t \in Tasks : WF_vars(TaskStep(t))

Spec     == Init /\ [][Next]_vars
FairSpec == Spec /\ Fairness

-----------------------------------------------------------------------------
(* Properties *)

TypeOK ==
    /\ app \in Apps
    /\ s_ota_url \in Urls \cup {Empty}
    /\ s_force_update \in BOOLEAN
    /\ s_flag \in BOOLEAN
    /\ s_ota_request \in BOOLEAN
    /\ s_running \in BOOLEAN
    /\ repl \in ReplPcs
    /\ command \in Orders
    /\ asked \in Orders
    /\ pc \in [Tasks -> Pcs]
    /\ order \in [Tasks -> Orders]
    /\ sameVersion \in [Tasks -> BOOLEAN]

(* advanced/main/main.c:73-80, on_demand/main/main.c:110-113: no command
   rewrites s_ota_url while a task is still reading it, or about to. *)
UrlStable ==
    \A t \in Tasks : pc[t] \in Reading => s_ota_url = order[t].url

(* The applications never run into their own update: a task that gets to the
   claim finds the slot free (refused there, advanced would hear of no event
   and keep s_ota_pending for ever), and nobody updates while another task is
   still at the outcome of its update, which it reports with the slot already
   released (ota-api.c:180-213): on_ota_event_cb() runs in one task at a time. *)
StartsAlone ==
    \A t \in Tasks :
        /\ pc[t] = "created" => ~s_running
        /\ pc[t] \in Reading =>
             \A u \in Tasks \ {t} : pc[u] \notin {"failed", "succeeded"}

(* advanced/main/main.c:163: the version that already runs is installed again
   only for the command that said so. *)
SameVersionOnlyForced ==
    \A t \in Tasks :
        pc[t] \in {"downloading", "succeeded"} /\ sameVersion[t] => order[t].force

(* No accepted command is swallowed: the semaphore is down when it is given,
   and the worker is back at it or on its way there. *)
NoLostRequest ==
    repl = "handing over" /\ app = "on_demand" =>
        /\ ~s_ota_request
        /\ \E t \in Tasks : pc[t] = "waiting"

(* The console never stays locked: when no update is in flight, the flag
   comes down or an update begins - however the last one ended, and also if
   its task could not be created. *)
ConsoleUnlocks == s_flag /\ ~s_running ~> ~s_flag \/ s_running
=============================================================================
