--------------------------- MODULE AsyncModalRunner ---------------------------
(***************************************************************************)
(* nim_comp::AsyncModalRunnerManager: a modal dialog runs on a thread of   *)
(* its own, the runner's.  The UI thread starts runners, is told by each   *)
(* one that it will exit, destroys it then, and may cancel them all.       *)
(*                                                                         *)
(* A runner is known by its address, which is used again once the runner   *)
(* has been freed; serial tells the runners at one address apart.          *)
(***************************************************************************)
EXTENDS Naturals, Sequences

CONSTANTS
  Runners,    \* addresses: positive numbers
  MaxRunners  \* bound: how many runners are made

VARIABLES
  runners_,     \* of the manager: runners it knows
  thread,       \* of a runner: where its thread is
  is_running_, quit_posted_,
  has_queue,    \* the thread has a message queue,
  wm_quit,      \* "none", "pending" in it, or "lost", posted when there was none
  serial,       \* 0 if no runner is at the address
  made,
  tasks,        \* Deregister tasks posted to the UI thread
  ui, uiRunner, \* where the UI thread is, and the runner it is busy with
  cancelled     \* CancelAllThreads: the runners it took over
vars == <<runners_, thread, is_running_, quit_posted_, has_queue, wm_quit, serial, made,
          tasks, ui, uiRunner, cancelled>>
flags == <<is_running_, quit_posted_>>

NoRunner == 0
Ended(r) == thread[r] \in {"none", "ended"}

Init ==
  /\ runners_ = {} /\ cancelled = {} /\ tasks = <<>> /\ made = 0
  /\ thread = [r \in Runners |-> "none"]
  /\ is_running_ = [r \in Runners |-> FALSE] /\ quit_posted_ = is_running_
  /\ has_queue = is_running_ /\ wm_quit = [r \in Runners |-> "none"]
  /\ serial = [r \in Runners |-> 0]
  /\ ui = "idle" /\ uiRunner = NoRunner

-----------------------------------------------------------------------------
(* The UI thread *)

(* DoModal of the manager and of the runner, as far as the thread's        *)
(* creation, which may fail; then the runner stays in the list.            *)
DoModal(r) ==
  /\ ui = "idle"
  /\ serial[r] = 0 /\ made < MaxRunners
  /\ made' = made + 1 /\ serial' = [serial EXCEPT ![r] = made + 1]
  /\ runners_' = runners_ \cup {r}
  /\ is_running_' = [is_running_ EXCEPT ![r] = FALSE]
  /\ quit_posted_' = [quit_posted_ EXCEPT ![r] = FALSE]
  /\ has_queue' = [has_queue EXCEPT ![r] = FALSE] /\ wm_quit' = [wm_quit EXCEPT ![r] = "none"]
  /\ \/ /\ thread' = [thread EXCEPT ![r] = "created"]
        /\ ui' = "starting" /\ uiRunner' = r
     \/ thread' = [thread EXCEPT ![r] = "none"] /\ UNCHANGED <<ui, uiRunner>>
  /\ UNCHANGED <<tasks, cancelled>>

(* event_.Wait() returns. *)
DoModalReturns ==
  /\ ui = "starting"
  /\ thread[uiRunner] # "created"
  /\ is_running_' = [is_running_ EXCEPT ![uiRunner] = TRUE]
  /\ ui' = "idle" /\ uiRunner' = NoRunner
  /\ UNCHANGED <<runners_, thread, quit_posted_, has_queue, wm_quit, serial, made, tasks,
                 cancelled>>

(* CancelModalThenExit: WM_QUIT is lost on a thread without a queue. *)
Cancelable(r) == is_running_[r] /\ ~quit_posted_[r]
CancelModalThenExit(rs) ==
  /\ quit_posted_' = [r \in Runners |-> quit_posted_[r] \/ (r \in rs /\ Cancelable(r))]
  /\ wm_quit' = [r \in Runners |->
       IF r \in rs /\ Cancelable(r) THEN IF has_queue[r] THEN "pending" ELSE "lost"
       ELSE wm_quit[r]]

(* Mutant of CancelAllThreads: the dialogs are not told to quit. *)
CancelAllThreadsUntold ==
  /\ ui = "idle"
  /\ cancelled' = runners_ /\ runners_' = {}
  /\ ui' = "cancelling"
  /\ UNCHANGED <<thread, flags, has_queue, wm_quit, serial, made, tasks, uiRunner>>

(* CancelAllThreads takes over the list and posts WM_QUIT to all in it, *)
CancelAllThreads ==
  /\ ui = "idle"
  /\ cancelled' = runners_ /\ runners_' = {}
  /\ CancelModalThenExit(runners_)
  /\ ui' = "cancelling"
  /\ UNCHANGED <<thread, is_running_, has_queue, serial, made, tasks, uiRunner>>

(* waits for every thread, and drops the runners. *)
Free(rs) == serial' = [r \in Runners |-> IF r \in rs THEN 0 ELSE serial[r]]

CancelReturns ==
  /\ ui = "cancelling"
  /\ \A r \in cancelled : Ended(r)
  /\ Free(cancelled)
  /\ cancelled' = {} /\ ui' = "idle"
  /\ UNCHANGED <<runners_, thread, flags, has_queue, wm_quit, made, tasks, uiRunner>>

(* Deregister finds the runner by its address and lets go of it; then its  *)
(* destructor cancels the dialog, *)
Deregister ==
  /\ ui = "idle" /\ tasks # <<>>
  /\ tasks' = Tail(tasks)
  /\ LET r == Head(tasks).runner
     IN IF r \in runners_
        THEN /\ runners_' = runners_ \ {r}
             /\ CancelModalThenExit({r})
             /\ ui' = "destroying" /\ uiRunner' = r
        ELSE UNCHANGED <<runners_, quit_posted_, wm_quit, ui, uiRunner>>
  /\ UNCHANGED <<thread, is_running_, has_queue, serial, made, cancelled>>

(* Mutant of Destroyed: the destructor does not wait for the thread. *)
DestroyedUnjoined ==
  /\ ui = "destroying"
  /\ Free({uiRunner})
  /\ ui' = "idle" /\ uiRunner' = NoRunner
  /\ UNCHANGED <<runners_, thread, flags, has_queue, wm_quit, made, tasks, cancelled>>

(* and that of Thread waits for the thread. *)
Destroyed ==
  /\ ui = "destroying" /\ Ended(uiRunner)
  /\ Free({uiRunner})
  /\ ui' = "idle" /\ uiRunner' = NoRunner
  /\ UNCHANGED <<runners_, thread, flags, has_queue, wm_quit, made, tasks, cancelled>>

-----------------------------------------------------------------------------
(* The runner's thread *)

Goes(r, from, to) == thread[r] = from /\ thread' = [thread EXCEPT ![r] = to]
Rest == <<runners_, flags, serial, made, ui, uiRunner, cancelled>>

Signal(r) ==
  /\ Goes(r, "created", "signalled")
  /\ UNCHANGED <<Rest, has_queue, wm_quit, tasks>>

(* Mutant of SyncShowModal: the UI thread is told before the dialog runs. *)
SyncShowModalLast(r) ==
  /\ Goes(r, "signalled", "modal")
  /\ has_queue' = [has_queue EXCEPT ![r] = TRUE]
  /\ tasks' = Append(tasks, [runner |-> r, serial |-> serial[r]])
  /\ UNCHANGED <<Rest, wm_quit>>

(* SyncShowModal makes a window, and with it the message queue. *)
SyncShowModal(r) ==
  /\ Goes(r, "signalled", "modal")
  /\ has_queue' = [has_queue EXCEPT ![r] = TRUE]
  /\ UNCHANGED <<Rest, wm_quit, tasks>>

(* The dialog ends by WM_QUIT, or because the user closes it. *)
QuitModal(r) ==
  /\ Goes(r, "modal", "exiting") /\ wm_quit[r] = "pending"
  /\ wm_quit' = [wm_quit EXCEPT ![r] = "none"]
  /\ UNCHANGED <<Rest, has_queue, tasks>>

UserCloses(r) ==
  /\ Goes(r, "modal", "exiting")
  /\ UNCHANGED <<Rest, has_queue, wm_quit, tasks>>

(* Mutant of OnThreadWillExit: it is told of to nobody. *)
OnThreadWillExitUntold(r) ==
  /\ Goes(r, "exiting", "exit")
  /\ UNCHANGED <<Rest, has_queue, wm_quit, tasks>>

OnThreadWillExit(r) ==
  /\ Goes(r, "exiting", "exit")
  /\ tasks' = Append(tasks, [runner |-> r, serial |-> serial[r]])
  /\ UNCHANGED <<Rest, has_queue, wm_quit>>

Exit(r) ==
  /\ Goes(r, "exit", "ended")
  /\ UNCHANGED <<Rest, has_queue, wm_quit, tasks>>

-----------------------------------------------------------------------------
UiStep == DoModalReturns \/ CancelReturns \/ Deregister \/ Destroyed
ThreadStep(r) == Signal(r) \/ SyncShowModal(r) \/ QuitModal(r) \/ OnThreadWillExit(r) \/ Exit(r)

Next ==
  \/ UiStep \/ CancelAllThreads
  \/ \E r \in Runners : DoModal(r) \/ ThreadStep(r) \/ UserCloses(r)

Spec == Init /\ [][Next]_vars

(* Both threads run; nobody has to open dialogs, to cancel them or to      *)
(* answer them.                                                            *)
Fairness ==
  /\ WF_vars(UiStep)
  /\ \A r \in Runners : WF_vars(ThreadStep(r))

FairSpec == Spec /\ Fairness

-----------------------------------------------------------------------------
(* Properties *)

(* Every variable keeps the shape of what it stands for. *)
TypeOK ==
  /\ runners_ \subseteq Runners /\ cancelled \subseteq Runners
  /\ thread \in [Runners -> {"none", "created", "signalled", "modal", "exiting", "exit", "ended"}]
  /\ \A f \in {is_running_, quit_posted_, has_queue} : f \in [Runners -> BOOLEAN]
  /\ wm_quit \in [Runners -> {"none", "pending", "lost"}]
  /\ serial \in [Runners -> 0..MaxRunners] /\ made \in 0..MaxRunners
  /\ tasks \in Seq([runner : Runners, serial : 1..MaxRunners])
  /\ ui \in {"idle", "starting", "cancelling", "destroying"}
  /\ uiRunner \in Runners \cup {NoRunner}

(* A runner is not freed while its thread runs, and until it is freed it   *)
(* is in the list, or in the hands of the UI thread.                       *)
RunnersAreOwned ==
  \A r \in Runners :
    /\ ~Ended(r) => serial[r] # 0
    /\ serial[r] # 0 <=> r \in runners_ \cup cancelled \/ (ui = "destroying" /\ r = uiRunner)

(* When the UI thread destroys a runner that said it will exit, the dialog *)
(* has been closed, and the thread does not wait for a user.  The          *)
(* exception is real: CancelAllThreads leaves Deregister tasks behind, and *)
(* one of these finds the runner made at the same address since.           *)
DestroysWithoutWaiting ==
  [][ui = "idle" /\ ui' = "destroying" =>
       \/ thread[uiRunner'] \in {"exit", "ended"}
       \/ Head(tasks).serial # serial[uiRunner']]_vars

(* CancelAllThreads returns, whatever users do. *)
CancelEnds == ui = "cancelling" ~> ui = "idle"

(* It does, and a runner whose dialog is closed destroys itself without    *)
(* being asked to, unless a WM_QUIT has been lost.                         *)
Lost == \E r \in Runners : wm_quit[r] = "lost"
RunnersGo ==
  /\ ui = "cancelling" ~> ui = "idle" \/ Lost
  /\ \A r \in Runners : thread[r] = "exiting" ~> serial[r] = 0 \/ Lost
=============================================================================
