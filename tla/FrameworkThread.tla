--------------------------- MODULE FrameworkThread ---------------------------
(***************************************************************************)
(* nbase::FrameworkThread, ThreadManager and MessageLoopProxy, used the    *)
(* way the program uses them: the main thread runs the UI's loop, starts   *)
(* the other threads (LOLGame is one), posts to them and is posted to, and *)
(* stops them when its window is closed.                                   *)
(*                                                                         *)
(* A message loop is known by raw pointers: the thread's message_loop_,    *)
(* which other threads find through the unlocked ThreadMap, and the        *)
(* proxy's target_message_loop_, which is locked.  A loop is numbered when *)
(* it is made, so a pointer is a number, 0 is NULL, and a pointer dangles  *)
(* if the loop alive in its thread is another one.  Module MessageLoop     *)
(* says what happens inside a loop; here a loop runs its immediate tasks   *)
(* in order, its delayed ones at some time, and stops after Quit once no   *)
(* immediate task is left.                                                 *)
(***************************************************************************)
EXTENDS Integers, Sequences, FiniteSets

CONSTANTS
  Main,      \* the thread of wWinMain
  Workers,   \* the threads it starts
  MaxStarts, \* bound: how many loops are made
  MaxPosts   \* bound: how often a task is posted

ASSUME MainAssumption   == Main \notin Workers
ASSUME BoundsAssumption == MaxStarts \in Nat \ {0} /\ MaxPosts \in Nat

Threads == Workers \cup {Main}

VARIABLES
  pc,            \* where each thread is
  call,          \* the call it is in: which thread it is about, and what it has read
  started_, stopping_, message_loop_, event_, \* the fields of FrameworkThread
  threads_,      \* ThreadMap
  loops,         \* how many loops were made
  alive,         \* alive[t]: the loop that exists in t, 0 if none
  target_message_loop_,  \* of the proxy of that loop
  queue, delayed, quit_received, \* that loop's tasks and state
  task,          \* the posted task a thread is running, 0 if none
  posted, done,  \* tasks posted so far; those that ran
  closing,       \* the main window's OnClose has begun
  promised \* [t]: history: immediate tasks pending when Stop was called on t

fields == <<started_, stopping_, message_loop_, event_>>
loop   == <<loops, alive, target_message_loop_>>
tasks  == <<queue, delayed, quit_received, task, posted, done>>
vars   == <<pc, call, fields, threads_, loop, tasks, closing, promised>>

(* DoStopSoon, as a task. *)
StopTask == 0
NoCall == [to |-> Main, message_loop |-> 0, id |-> 0, delayed |-> FALSE, back |-> "off"]

(* A thread is off; inside Run (enter ... ended); or in a call made by the *)
(* task it runs or by its Init: Start or Stop of another thread, or a post.*)
Inside == {"init", "task"}
Posting == {"lookup", "deref", "push"}
PCs == {"off", "enter", "register", "loop", "unregister", "delete", "null", "ended",
        "wait_start", "join"} \cup Inside \cup Posting

Init ==
  /\ pc = [t \in Threads |-> IF t = Main THEN "enter" ELSE "off"]
  /\ call = [t \in Threads |-> NoCall]
  /\ started_ = [t \in Threads |-> t = Main]
  /\ stopping_ = [t \in Threads |-> FALSE]
  /\ message_loop_ = [t \in Threads |-> 0]
  /\ event_ = [t \in Threads |-> FALSE]
  /\ threads_ = {}
  /\ loops = 0
  /\ alive = [t \in Threads |-> 0]
  /\ target_message_loop_ = [t \in Threads |-> 0]
  /\ queue = [t \in Threads |-> <<>>]
  /\ delayed = [t \in Threads |-> {}]
  /\ quit_received = [t \in Threads |-> FALSE]
  /\ task = [t \in Threads |-> 0]
  /\ posted = 0
  /\ done = {}
  /\ closing = FALSE
  /\ promised = [t \in Threads |-> {}]

GoTo(t, p) == pc' = [pc EXCEPT ![t] = p]

-----------------------------------------------------------------------------
(* Run, on the thread itself *)

(* Run up to Init(): the loop and its proxy are made.                      *)
MakeLoop(t) ==
  /\ pc[t] = "enter"
  /\ loops' = loops + 1
  /\ alive' = [alive EXCEPT ![t] = loops + 1]
  /\ target_message_loop_' = [target_message_loop_ EXCEPT ![t] = loops + 1]
  /\ message_loop_' = [message_loop_ EXCEPT ![t] = loops + 1]
  /\ GoTo(t, "register")
  /\ UNCHANGED <<call, started_, stopping_, event_, threads_, tasks, closing, promised>>

(* The first thing Init() does, here and in main.cpp: RegisterThread. *)
RegisterThread(t) ==
  /\ pc[t] = "register"
  /\ threads_' = threads_ \cup {t}
  /\ GoTo(t, "init")
  /\ UNCHANGED <<call, fields, loop, tasks, closing, promised>>

(* Mutant of SignalStarted: Start() is not told. *)
SignalStartedNot(t) ==
  /\ pc[t] = "init"
  /\ GoTo(t, "loop")
  /\ UNCHANGED <<call, fields, threads_, loop, tasks, closing, promised>>

(* Init() returns, Start() is told, the loop runs. *)
SignalStarted(t) ==
  /\ pc[t] = "init"
  /\ event_' = [event_ EXCEPT ![t] = TRUE]
  /\ GoTo(t, "loop")
  /\ UNCHANGED <<call, started_, stopping_, message_loop_, threads_, loop, tasks, closing,
                 promised>>

(* The loop runs the next task; DoStopSoon is run on the spot. *)
RunTask(t) ==
  /\ pc[t] = "loop" /\ queue[t] # <<>>
  /\ queue' = [queue EXCEPT ![t] = Tail(@)]
  /\ \/ /\ Head(queue[t]) = StopTask
        /\ quit_received' = [quit_received EXCEPT ![t] = TRUE]
        /\ UNCHANGED <<pc, task>>
     \/ /\ Head(queue[t]) # StopTask
        /\ task' = [task EXCEPT ![t] = Head(queue[t])]
        /\ GoTo(t, "task")
        /\ UNCHANGED quit_received
  /\ UNCHANGED <<call, fields, threads_, loop, delayed, posted, done, closing, promised>>

(* The time of a delayed task has come. *)
RunDelayedTask(t) ==
  /\ pc[t] = "loop"
  /\ \E i \in delayed[t] :
       /\ delayed' = [delayed EXCEPT ![t] = @ \ {i}]
       /\ task' = [task EXCEPT ![t] = i]
  /\ GoTo(t, "task")
  /\ UNCHANGED <<call, fields, threads_, loop, queue, quit_received, posted, done, closing,
                 promised>>

(* The task returns.  OnClose, once begun, goes on to PostQuitMessage. *)
TaskReturn(t) ==
  /\ pc[t] = "task"
  /\ t = Main => ~closing \/ quit_received[t]
  /\ done' = done \cup ({task[t]} \ {0})
  /\ task' = [task EXCEPT ![t] = 0]
  /\ GoTo(t, "loop")
  /\ UNCHANGED <<call, fields, threads_, loop, queue, delayed, quit_received, posted,
                 closing, promised>>

(* Quit ends a loop once it is idle; WM_QUIT ends the UI's at once, if it  *)
(* is retrieved before the message that announces the tasks.               *)
LeaveLoop(t) ==
  /\ pc[t] = "loop"
  /\ quit_received[t]
  /\ t = Main \/ queue[t] = <<>>
  /\ GoTo(t, "unregister")
  /\ UNCHANGED <<call, fields, threads_, loop, tasks, closing, promised>>

(* Mutant of UnregisterThread: the thread stays in the map. *)
UnregisterThreadNot(t) ==
  /\ pc[t] = "unregister"
  /\ GoTo(t, "delete")
  /\ UNCHANGED <<call, fields, threads_, loop, tasks, closing, promised>>

(* Cleanup() *)
UnregisterThread(t) ==
  /\ pc[t] = "unregister"
  /\ threads_' = threads_ \ {t}
  /\ GoTo(t, "delete")
  /\ UNCHANGED <<call, fields, loop, tasks, closing, promised>>

(* ~MessageLoop: all tasks are deleted, the proxy forgets the loop. *)
DeleteLoop(t) ==
  /\ pc[t] = "delete"
  /\ queue' = [queue EXCEPT ![t] = <<>>]
  /\ delayed' = [delayed EXCEPT ![t] = {}]
  /\ quit_received' = [quit_received EXCEPT ![t] = FALSE]
  /\ alive' = [alive EXCEPT ![t] = 0]
  /\ target_message_loop_' = [target_message_loop_ EXCEPT ![t] = 0]
  /\ GoTo(t, "null")
  /\ UNCHANGED <<call, fields, threads_, loops, task, posted, done, closing, promised>>

(* Mutant of NullLoop: the pointer is left dangling. *)
NullLoopNot(t) ==
  /\ pc[t] = "null"
  /\ GoTo(t, "ended")
  /\ UNCHANGED <<call, fields, threads_, loop, tasks, closing, promised>>

(* The end of Run: message_loop_ = NULL. *)
NullLoop(t) ==
  /\ pc[t] = "null"
  /\ message_loop_' = [message_loop_ EXCEPT ![t] = 0]
  /\ GoTo(t, "ended")
  /\ UNCHANGED <<call, started_, stopping_, event_, threads_, loop, tasks, closing, promised>>

-----------------------------------------------------------------------------
(* ThreadManager::PostTask and PostDelayedTask, by id *)

(* A task, or Init(), calls it.  OnClose does not post. *)
Post(t, u, wait) ==
  /\ pc[t] \in Inside
  /\ t = Main => ~closing
  /\ posted < MaxPosts
  /\ posted' = posted + 1
  /\ call' = [call EXCEPT ![t] =
                [to |-> u, message_loop |-> 0, id |-> posted + 1, delayed |-> wait,
                 back |-> pc[t]]]
  /\ GoTo(t, "lookup")
  /\ UNCHANGED <<fields, threads_, loop, queue, delayed, quit_received, task, done, closing,
                 promised>>

(* The call ends where the task, or Init(), made it. *)
CallReturns(t) ==
  /\ GoTo(t, call[t].back)
  /\ call' = [call EXCEPT ![t] = NoCall]

(* Mutant of Lookup: end() is not looked for, and dereferenced. *)
LookupUnchecked(t) ==
  /\ pc[t] = "lookup"
  /\ call' = [call EXCEPT ![t].message_loop =
                IF call[t].to \in threads_ THEN message_loop_[call[t].to] ELSE -1]
  /\ GoTo(t, "deref")
  /\ UNCHANGED <<fields, threads_, loop, tasks, closing, promised>>

(* GetMessageLoop without a lock: the map, then the thread's message_loop(). *)
Lookup(t) ==
  /\ pc[t] = "lookup"
  /\ LET u == call[t].to
     IN \/ /\ u \in threads_ /\ message_loop_[u] # 0
           /\ call' = [call EXCEPT ![t].message_loop = message_loop_[u]]
           /\ GoTo(t, "deref")
        \/ /\ u \notin threads_ \/ message_loop_[u] = 0
           /\ CallReturns(t)
  /\ UNCHANGED <<fields, threads_, loop, tasks, closing, promised>>

(* message_loop->message_loop_proxy(), through the raw pointer.  If it     *)
(* dangles, the behaviour is undefined and the thread is not followed      *)
(* further.                                                                *)
Deref(t) ==
  /\ pc[t] = "deref"
  /\ alive[call[t].to] = call[t].message_loop
  /\ GoTo(t, "push")
  /\ UNCHANGED <<call, fields, threads_, loop, tasks, closing, promised>>

(* PostTaskHelper, under the proxy's lock. *)
PostTaskHelper(t) ==
  /\ pc[t] = "push"
  /\ LET u == call[t].to
         reached == target_message_loop_[u] = call[t].message_loop
     IN /\ queue' = IF reached /\ ~call[t].delayed
                    THEN [queue EXCEPT ![u] = Append(@, call[t].id)] ELSE queue
        /\ delayed' = IF reached /\ call[t].delayed
                      THEN [delayed EXCEPT ![u] = @ \cup {call[t].id}] ELSE delayed
  /\ CallReturns(t)
  /\ UNCHANGED <<fields, threads_, loop, quit_received, task, posted, done, closing, promised>>

-----------------------------------------------------------------------------
(* Start and Stop, called by the main thread *)

(* Mutant of Start: does not wait for the thread to be initialised. *)
StartAsync(w) ==
  /\ pc[Main] \in Inside /\ ~closing
  /\ message_loop_[w] = 0 /\ pc[w] = "off"
  /\ loops < MaxStarts
  /\ started_' = [started_ EXCEPT ![w] = TRUE]
  /\ pc' = [pc EXCEPT ![w] = "enter"]
  /\ UNCHANGED <<call, stopping_, message_loop_, event_, threads_, loop, tasks, closing,
                 promised>>

(* StartWithLoop, up to event_.Wait(). *)
Start(w) ==
  /\ pc[Main] \in Inside /\ ~closing
  /\ message_loop_[w] = 0
  /\ loops < MaxStarts
  /\ pc' = [pc EXCEPT ![Main] = "wait_start", ![w] = "enter"]
  /\ call' = [call EXCEPT ![Main] = [NoCall EXCEPT !.to = w, !.back = pc[Main]]]
  /\ UNCHANGED <<fields, threads_, loop, tasks, closing, promised>>

StartReturns ==
  /\ pc[Main] = "wait_start"
  /\ LET w == call[Main].to
     IN /\ event_[w]
        /\ event_' = [event_ EXCEPT ![w] = FALSE]
        /\ started_' = [started_ EXCEPT ![w] = TRUE]
  /\ CallReturns(Main)
  /\ UNCHANGED <<stopping_, message_loop_, threads_, loop, tasks, closing, promised>>

(* Stop: StopSoon posts DoStopSoon through the raw pointer, then Close()   *)
(* waits for the thread.                                                   *)
Stop(w) ==
  /\ pc[Main] = "task"
  /\ started_[w]
  /\ IF stopping_[w] \/ message_loop_[w] = 0
     THEN UNCHANGED <<stopping_, queue>>
     ELSE /\ stopping_' = [stopping_ EXCEPT ![w] = TRUE]
          /\ queue' = [queue EXCEPT ![w] = Append(@, StopTask)]
  /\ promised' = [promised EXCEPT ![w] = {queue[w][i] : i \in DOMAIN queue[w]} \ {StopTask}]
  /\ GoTo(Main, "join")
  /\ call' = [call EXCEPT ![Main] = [NoCall EXCEPT !.to = w, !.back = "task"]]
  /\ UNCHANGED <<started_, message_loop_, event_, threads_, loop, delayed, quit_received,
                 task, posted, done, closing>>

(* Mutant of StopReturns: the flag is not reset. *)
StopReturnsStopping ==
  /\ pc[Main] = "join"
  /\ pc[call[Main].to] = "ended"
  /\ started_' = [started_ EXCEPT ![call[Main].to] = FALSE]
  /\ pc' = [pc EXCEPT ![Main] = call[Main].back, ![call[Main].to] = "off"]
  /\ call' = [call EXCEPT ![Main] = NoCall]
  /\ UNCHANGED <<stopping_, message_loop_, event_, threads_, loop, tasks, closing, promised>>

(* Mutant of StopReturns: Close() does not wait for the thread. *)
StopReturnsUnjoined ==
  /\ pc[Main] = "join"
  /\ started_' = [started_ EXCEPT ![call[Main].to] = FALSE]
  /\ stopping_' = [stopping_ EXCEPT ![call[Main].to] = FALSE]
  /\ CallReturns(Main)
  /\ UNCHANGED <<message_loop_, event_, threads_, loop, tasks, closing, promised>>

(* Close() returns once the thread has ended; Stop resets the flags. *)
StopReturns ==
  /\ pc[Main] = "join"
  /\ LET w == call[Main].to
     IN /\ pc[w] = "ended"
        /\ started_' = [started_ EXCEPT ![w] = FALSE]
        /\ stopping_' = [stopping_ EXCEPT ![w] = FALSE]
        /\ pc' = [pc EXCEPT ![Main] = call[Main].back, ![w] = "off"]
  /\ call' = [call EXCEPT ![Main] = NoCall]
  /\ UNCHANGED <<message_loop_, event_, threads_, loop, tasks, closing, promised>>

-----------------------------------------------------------------------------
(* The main window *)

(* The window procedure runs for a message that is not a posted task: a    *)
(* click, say.                                                             *)
WindowMessage ==
  /\ pc[Main] = "loop" /\ ~closing
  /\ GoTo(Main, "task")
  /\ UNCHANGED <<call, fields, threads_, loop, tasks, closing, promised>>

(* The user closes the window. *)
OnClose ==
  /\ pc[Main] = "loop" /\ ~closing
  /\ closing' = TRUE
  /\ GoTo(Main, "task")
  /\ UNCHANGED <<call, fields, threads_, loop, tasks, promised>>

(* Mutant of PostQuitMessage: the threads are left running. *)
PostQuitMessageFirst ==
  /\ pc[Main] = "task" /\ closing /\ ~quit_received[Main]
  /\ quit_received' = [quit_received EXCEPT ![Main] = TRUE]
  /\ UNCHANGED <<pc, call, fields, threads_, loop, queue, delayed, task, posted, done,
                 closing, promised>>

(* OnClose, after game_->Stop(). *)
PostQuitMessage ==
  /\ pc[Main] = "task" /\ closing /\ ~quit_received[Main]
  /\ \A w \in Workers : ~started_[w]
  /\ quit_received' = [quit_received EXCEPT ![Main] = TRUE]
  /\ UNCHANGED <<pc, call, fields, threads_, loop, queue, delayed, task, posted, done,
                 closing, promised>>

-----------------------------------------------------------------------------
(* What a thread does on its own. *)
ThreadStep(t) ==
  \/ MakeLoop(t) \/ RegisterThread(t) \/ SignalStarted(t)
  \/ RunTask(t) \/ TaskReturn(t) \/ LeaveLoop(t)
  \/ UnregisterThread(t) \/ DeleteLoop(t) \/ NullLoop(t)
  \/ Lookup(t) \/ Deref(t) \/ PostTaskHelper(t)
Closing == closing /\ ((\E w \in Workers : Stop(w)) \/ PostQuitMessage)

Next ==
  \/ \E t \in Threads : ThreadStep(t) \/ RunDelayedTask(t)
  \/ \E t, u \in Threads : \E wait \in BOOLEAN : Post(t, u, wait)
  \/ \E w \in Workers : Start(w) \/ Stop(w)
  \/ StartReturns \/ StopReturns
  \/ WindowMessage \/ OnClose \/ PostQuitMessage

Spec == Init /\ [][Next]_vars

(* The scheduler runs every thread, tasks return, OnClose goes on.  Nobody *)
(* has to post, start, stop or close anything.                             *)
FairSpec ==
  /\ Spec
  /\ \A t \in Threads : WF_vars(ThreadStep(t))
  /\ WF_vars(StartReturns) /\ WF_vars(StopReturns) /\ WF_vars(Closing)

-----------------------------------------------------------------------------
(* Properties *)

(* Every variable keeps the shape of the field or the stack it stands for. *)
TypeOK ==
  /\ pc \in [Threads -> PCs]
  /\ call \in [Threads -> [to : Threads, message_loop : 0..MaxStarts, id : 0..MaxPosts,
                           delayed : BOOLEAN, back : Inside \cup {"off"}]]
  /\ started_ \in [Threads -> BOOLEAN] /\ stopping_ \in [Threads -> BOOLEAN]
  /\ message_loop_ \in [Threads -> 0..MaxStarts] /\ event_ \in [Threads -> BOOLEAN]
  /\ threads_ \subseteq Threads
  /\ loops \in 0..MaxStarts
  /\ alive \in [Threads -> 0..MaxStarts]
  /\ target_message_loop_ \in [Threads -> 0..MaxStarts]
  /\ queue \in [Threads -> Seq(0..MaxPosts)]
  /\ delayed \in [Threads -> SUBSET (1..MaxPosts)]
  /\ quit_received \in [Threads -> BOOLEAN]
  /\ task \in [Threads -> 0..MaxPosts]
  /\ posted \in 0..MaxPosts /\ done \subseteq 1..MaxPosts
  /\ closing \in BOOLEAN
  /\ promised \in [Threads -> SUBSET (1..MaxPosts)]

(* No message loop is used once it was deleted: not by GetMessageLoop,     *)
(* which read the raw pointer without a lock, and not by StopSoon.  With   *)
(* the main thread and one other, the order of Start, Stop and             *)
(* PostQuitMessage in main.cpp and MainWindow.cpp sees to it.              *)
NoUseAfterDelete ==
  /\ \A t \in Threads : pc[t] = "deref" => alive[call[t].to] = call[t].message_loop
  /\ \A w \in Workers :
       pc[Main] = "task" /\ started_[w] /\ ~stopping_[w] /\ message_loop_[w] # 0 =>
         alive[w] = message_loop_[w]

(* ThreadMap::QueryThreadInternal takes no lock; yet no thread is looking  *)
(* into the map while another one is about to change it.                   *)
NoMapRace ==
  \A t, u \in Threads :
    t # u /\ pc[t] = "lookup" => pc[u] \notin {"register", "unregister"}

(* framework_thread.h, Stop: afterwards the object is reset, message_loop()*)
(* is NULL and nothing of the thread is left.  And while it is started,    *)
(* message_loop() is not NULL, unless Stop is on its way; a thread in the  *)
(* map has a loop that can be posted to.                                   *)
StoppedIsReset ==
  /\ \A t \in threads_ : message_loop_[t] # 0 /\ alive[t] = message_loop_[t]
  /\ \A w \in Workers :
       /\ ~started_[w] /\ call[Main].to # w =>
            pc[w] = "off" /\ ~stopping_[w] /\ message_loop_[w] = 0 /\ alive[w] = 0
       /\ started_[w] /\ ~stopping_[w] => message_loop_[w] # 0

(* Stop returns only after every immediate task that was in the loop when  *)
(* it was called has run to completion.                                    *)
StopReturnsFrom(w) == started_[w] /\ ~started_'[w]
StopRunsPending ==
  [][\A w \in Workers :
       StopReturnsFrom(w) => promised[w] \subseteq done']_vars

(* Closing the window ends the program: Stop does not wait for ever, and   *)
(* neither does Start.                                                     *)
CloseEnds ==
  /\ closing ~> pc[Main] = "ended"
  /\ pc[Main] = "wait_start" ~> pc[Main] # "wait_start"
=============================================================================
