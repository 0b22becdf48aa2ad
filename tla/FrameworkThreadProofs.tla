------------------------- MODULE FrameworkThreadProofs -------------------------
(* The threads of the program: their loops are not used once deleted, and  *)
(* a thread that was stopped is as good as new.  All but the two theorems  *)
(* that say so are for any number of workers.                              *)
EXTENDS FrameworkThread, TLAPS

-----------------------------------------------------------------------------
(* Queues *)

Elements(q) == {q[i] : i \in DOMAIN q}

-----------------------------------------------------------------------------
(* The inductive invariant, by parts *)

(* Where a thread is: without a loop, in the ThreadMap, in a call made by  *)
(* its task or its Init, on its way out; the worker that Start waits for,  *)
(* and the one that Stop waits for.                                        *)
Loopless == {"off", "enter", "null", "ended"}
Mapped   == {"init", "task", "loop", "unregister", "wait_start", "join"} \cup Posting
Calling  == Posting \cup {"wait_start", "join"}
Ending   == {"unregister", "delete", "null", "ended"}
Waiting(w) == pc[Main] = "wait_start" /\ call[Main].to = w
Joining(w) == pc[Main] = "join" /\ call[Main].to = w
Starting(w) ==
  pc[w] \in {"enter", "register", "init"} \/ (pc[w] \in Posting /\ call[w].back = "init")
InQueue(t) == Elements(queue[t])

(* What is known of a call, and of the task that makes it. *)
CallInv ==
  \A t \in Threads :
    /\ pc[t] \in Calling => call[t].back \in Inside
    /\ pc[t] \in Posting => call[t].id # 0
    /\ pc[t] \in {"deref", "push"} => call[t].message_loop # 0
    /\ pc[t] \in {"wait_start", "join"} => t = Main /\ call[t].to \in Workers
    /\ task[t] # 0 => pc[t] = "task" \/ (pc[t] \in Calling /\ call[t].back = "task")

(* The map, the raw pointer, the proxy and the loop agree, except that the *)
(* pointer dangles at the end of Run.                                      *)
LoopInv ==
  \A t \in Threads :
    /\ t \in threads_ <=> pc[t] \in Mapped
    /\ target_message_loop_[t] = alive[t]
    /\ pc[t] \in Loopless => /\ alive[t] = 0
                             /\ queue[t] = <<>> /\ delayed[t] = {} /\ ~quit_received[t]
    /\ pc[t] \notin Loopless => alive[t] # 0 /\ message_loop_[t] = alive[t]
    /\ pc[t] \in {"off", "enter", "ended"} => message_loop_[t] = 0

(* The main thread is there before the workers and after them. *)
MainInv ==
  /\ pc[Main] = "enter" => loops = 0
  /\ pc[Main] \in {"enter", "register"} => \A w \in Workers : pc[w] = "off"
  /\ quit_received[Main] \/ pc[Main] \in Ending =>
       closing /\ \A w \in Workers : pc[w] = "off"

(* Nobody stops the main thread. *)
UnstoppedInv == StopTask \notin InQueue(Main)

(* A worker begins only while Start waits for it, and ends only while Stop *)
(* does.                                                                   *)
WorkerOf(w) ==
  /\ pc[w] = "off" => ~started_[w] /\ ~stopping_[w] /\ ~event_[w]
  /\ pc[w] # "off" => (started_[w] <=> ~Waiting(w))
  /\ stopping_[w] <=> Joining(w)
  /\ event_[w] => Waiting(w)
  /\ Starting(w) => Waiting(w) /\ ~event_[w]
  /\ pc[w] = "enter" => loops < MaxStarts
  /\ StopTask \in InQueue(w) \/ quit_received[w] \/ pc[w] \in Ending => stopping_[w]
WorkerInv == \A w \in Workers : WorkerOf(w)

(* The immediate tasks pending when Stop was called are run before the     *)
(* loop is left.                                                           *)
PromiseOf(w) ==
  Joining(w) =>
    /\ promised[w] \subseteq done \cup {task[w]} \cup InQueue(w)
    /\ pc[w] \in Ending => promised[w] \subseteq done
PromiseInv == \A w \in Workers : PromiseOf(w)

(* A loop that is about to be made is within the bound. *)
LoopCount == \A t \in Threads : pc[t] = "enter" => loops < MaxStarts

-----------------------------------------------------------------------------
(* The tasks of a queue once one is appended, or taken. *)
LEMMA AppendElements ==
  ASSUME NEW T, NEW q \in Seq(T), NEW e \in T
  PROVE  Append(q, e) \in Seq(T) /\ Elements(Append(q, e)) = Elements(q) \cup {e}
<1>1. Append(q, e) \in Seq(T)
  OBVIOUS
<1>2. ASSUME NEW x \in Elements(Append(q, e)) PROVE x \in Elements(q) \cup {e}
  <2>1. PICK i \in DOMAIN Append(q, e) : x = Append(q, e)[i]
    BY <1>2 DEF Elements
  <2> QED BY <2>1 DEF Elements
<1>3. ASSUME NEW x \in Elements(q) PROVE x \in Elements(Append(q, e))
  <2>1. PICK i \in DOMAIN q : x = q[i]
    BY <1>3 DEF Elements
  <2>2. i \in DOMAIN Append(q, e) /\ Append(q, e)[i] = x
    BY <2>1
  <2> QED BY <2>2 DEF Elements
<1>4. e \in Elements(Append(q, e))
  <2>1. Len(q) + 1 \in DOMAIN Append(q, e) /\ Append(q, e)[Len(q) + 1] = e
    OBVIOUS
  <2> QED BY <2>1 DEF Elements
<1> QED BY <1>1, <1>2, <1>3, <1>4

LEMMA TailElements ==
  ASSUME NEW T, NEW q \in Seq(T), q # <<>>
  PROVE  /\ Tail(q) \in Seq(T) /\ Head(q) \in T
         /\ Elements(q) = Elements(Tail(q)) \cup {Head(q)}
<1>1. Tail(q) \in Seq(T) /\ Head(q) \in T /\ 1 \in DOMAIN q /\ Head(q) = q[1]
  OBVIOUS
<1>2. ASSUME NEW i \in DOMAIN q PROVE q[i] \in Elements(Tail(q)) \cup {Head(q)}
  <2>1. CASE i = 1
    BY <1>1, <2>1
  <2>2. CASE i # 1
    <3>1. i - 1 \in DOMAIN Tail(q) /\ Tail(q)[i - 1] = q[i]
      BY <2>2
    <3> QED BY <3>1 DEF Elements
  <2> QED BY <2>1, <2>2
<1>3. ASSUME NEW i \in DOMAIN Tail(q) PROVE Tail(q)[i] \in Elements(q)
  <2>1. i + 1 \in DOMAIN q /\ Tail(q)[i] = q[i + 1]
    OBVIOUS
  <2> QED BY <2>1 DEF Elements
<1>4. Elements(q) \subseteq Elements(Tail(q)) \cup {Head(q)}
  BY <1>2 DEF Elements
<1>5. Elements(Tail(q)) \subseteq Elements(q)
  BY <1>3 DEF Elements
<1>6. Head(q) \in Elements(q)
  BY <1>1 DEF Elements
<1> QED BY <1>1, <1>4, <1>5, <1>6

LEMMA ElementsType ==
  ASSUME NEW T, NEW q \in Seq(T)
  PROVE  Elements(q) \subseteq T /\ (q = <<>> => Elements(q) = {})
BY DEF Elements

(* The same of the ids of the tasks in a loop. *)
LEMMA QueueAppend ==
  ASSUME NEW q \in Seq(0..MaxPosts), NEW e \in 0..MaxPosts
  PROVE  Elements(Append(q, e)) = Elements(q) \cup {e}
<1> DEFINE T == 0..MaxPosts
<1>1. q \in Seq(T) /\ e \in T
  OBVIOUS
<1> HIDE DEF T
<1> QED BY <1>1, AppendElements

-----------------------------------------------------------------------------
(* Type correctness *)

PcOK == pc \in [Threads -> PCs]
Call == [to : Threads, message_loop : 0..MaxStarts, id : 0..MaxPosts, delayed : BOOLEAN,
         back : Inside \cup {"off"}]
CallOK == call \in [Threads -> Call]
FlagsOK ==
  /\ started_ \in [Threads -> BOOLEAN] /\ stopping_ \in [Threads -> BOOLEAN]
  /\ event_ \in [Threads -> BOOLEAN] /\ quit_received \in [Threads -> BOOLEAN]
  /\ closing \in BOOLEAN
LoopsOK ==
  /\ threads_ \subseteq Threads /\ loops \in 0..MaxStarts
  /\ message_loop_ \in [Threads -> 0..MaxStarts]
  /\ alive \in [Threads -> 0..MaxStarts]
  /\ target_message_loop_ \in [Threads -> 0..MaxStarts]
TasksOK ==
  /\ queue \in [Threads -> Seq(0..MaxPosts)]
  /\ delayed \in [Threads -> SUBSET (1..MaxPosts)]
  /\ task \in [Threads -> 0..MaxPosts]
  /\ posted \in 0..MaxPosts /\ done \subseteq 1..MaxPosts
  /\ promised \in [Threads -> SUBSET (1..MaxPosts)]

LEMMA TypeParts == TypeOK <=> PcOK /\ CallOK /\ FlagsOK /\ LoopsOK /\ TasksOK
BY DEF TypeOK, PcOK, CallOK, Call, FlagsOK, LoopsOK, TasksOK

LEMMA ThreadSets == Main \in Threads /\ Workers \subseteq Threads /\ (\A w \in Workers : w # Main)
BY MainAssumption DEF Threads

LEMMA PcStep == ASSUME PcOK, CallInv, Next PROVE PcOK'
<1> USE ThreadSets DEF PcOK, PCs, Inside, Posting, GoTo
<1>1. ASSUME NEW t \in Threads, ThreadStep(t) \/ RunDelayedTask(t) PROVE PcOK'
  <2>1. CASE MakeLoop(t) \/ RegisterThread(t) \/ SignalStarted(t) \/ RunTask(t) \/ RunDelayedTask(t)
             \/ TaskReturn(t) \/ LeaveLoop(t) \/ UnregisterThread(t) \/ DeleteLoop(t) \/ NullLoop(t)
             \/ Deref(t)
    BY <2>1 DEF MakeLoop, RegisterThread, SignalStarted, RunTask, RunDelayedTask, TaskReturn,
       LeaveLoop, UnregisterThread, DeleteLoop, NullLoop, Deref
  <2>2. CASE Lookup(t) \/ PostTaskHelper(t)
    BY <2>2 DEF Lookup, PostTaskHelper, CallReturns, CallInv, Calling
  <2> QED BY <1>1, <2>1, <2>2 DEF ThreadStep
<1>2. ASSUME NEW t \in Threads, NEW u \in Threads, NEW wait \in BOOLEAN, Post(t, u, wait)
      PROVE  PcOK'
  BY <1>2 DEF Post
<1>3. ASSUME NEW w \in Workers, Start(w) \/ Stop(w) PROVE PcOK'
  BY <1>3 DEF Start, Stop
<1>4. CASE StartReturns \/ StopReturns
  BY <1>4 DEF StartReturns, StopReturns, CallReturns, CallInv, Calling
<1>5. CASE WindowMessage \/ OnClose \/ PostQuitMessage
  BY <1>5 DEF WindowMessage, OnClose, PostQuitMessage
<1> HIDE DEF PcOK
<1> QED BY <1>1, <1>2, <1>3, <1>4, <1>5 DEF Next

LEMMA CallStep == ASSUME PcOK, CallOK, LoopsOK, TasksOK, Next PROVE CallOK'
<1> USE ThreadSets, BoundsAssumption DEF CallOK
<1>0. NoCall \in Call
  BY DEF NoCall, Call, Inside
<1>1. ASSUME NEW t \in Threads, ThreadStep(t) \/ RunDelayedTask(t) PROVE CallOK'
  <2>1. CASE Lookup(t)
    <3>1. CASE call' = [call EXCEPT ![t] = NoCall]
      BY <1>0, <3>1
    <3>2. CASE call' = [call EXCEPT ![t].message_loop = message_loop_[call[t].to]]
      <4>1. message_loop_[call[t].to] \in 0..MaxStarts
        BY DEF LoopsOK, Call
      <4> QED BY <3>2, <4>1 DEF Call
    <3> QED BY <2>1, <3>1, <3>2 DEF Lookup, CallReturns
  <2>2. CASE PostTaskHelper(t)
    BY <1>0, <2>2 DEF PostTaskHelper, CallReturns
  <2>3. CASE UNCHANGED call
    BY <2>3
  <2> QED
    BY <1>1, <2>1, <2>2, <2>3 DEF ThreadStep, MakeLoop, RegisterThread, SignalStarted, RunTask,
       RunDelayedTask, TaskReturn, LeaveLoop, UnregisterThread, DeleteLoop, NullLoop, Deref
<1>2. ASSUME NEW t \in Threads, NEW u \in Threads, NEW wait \in BOOLEAN, Post(t, u, wait)
      PROVE  CallOK'
  <2>1. posted + 1 \in 0..MaxPosts /\ pc[t] \in {"init", "task"}
    BY <1>2 DEF Post, TasksOK, Inside
  <2> QED BY <1>2, <2>1 DEF Post, Call, Inside
<1>3. ASSUME NEW w \in Workers, Start(w) \/ Stop(w) PROVE CallOK'
  <2>1. PICK back \in Inside : call' = [call EXCEPT ![Main] = [NoCall EXCEPT !.to = w, !.back = back]]
    BY <1>3 DEF Start, Stop, Inside
  <2>2. [NoCall EXCEPT !.to = w] \in Call
    BY <1>0 DEF Call
  <2>3. [NoCall EXCEPT !.to = w, !.back = back] \in Call
    BY <1>0, <2>2 DEF Call
  <2> QED BY <2>1, <2>3
<1>4. CASE StartReturns \/ StopReturns
  BY <1>0, <1>4 DEF StartReturns, StopReturns, CallReturns
<1>5. CASE WindowMessage \/ OnClose \/ PostQuitMessage
  BY <1>5 DEF WindowMessage, OnClose, PostQuitMessage
<1> HIDE DEF CallOK
<1> QED BY <1>1, <1>2, <1>3, <1>4, <1>5 DEF Next

LEMMA FlagsStep == ASSUME CallOK, FlagsOK, Next PROVE FlagsOK'
<1> USE ThreadSets DEF FlagsOK, fields, tasks
<1>1. ASSUME NEW t \in Threads, SignalStarted(t) \/ RunTask(t) \/ DeleteLoop(t) PROVE FlagsOK'
  BY <1>1 DEF SignalStarted, RunTask, DeleteLoop
<1>2. ASSUME NEW w \in Workers, Stop(w) PROVE FlagsOK'
  BY <1>2 DEF Stop
<1>3. CASE StartReturns \/ StopReturns
  BY <1>3 DEF StartReturns, StopReturns, CallOK
<1>4. CASE OnClose \/ PostQuitMessage
  BY <1>4 DEF OnClose, PostQuitMessage
<1>5. CASE UNCHANGED <<started_, stopping_, event_, quit_received, closing>>
  BY <1>5
<1> HIDE DEF FlagsOK
<1> QED
  BY <1>1, <1>2, <1>3, <1>4, <1>5 DEF Next, ThreadStep, MakeLoop, RegisterThread, RunDelayedTask,
     TaskReturn, LeaveLoop, UnregisterThread, NullLoop, Deref, Lookup, PostTaskHelper, Post, Start,
     WindowMessage

LEMMA LoopsStep == ASSUME LoopCount, LoopsOK, Next PROVE LoopsOK'
<1> USE BoundsAssumption DEF LoopsOK, loop, fields
<1>1. ASSUME NEW t \in Threads, MakeLoop(t) PROVE LoopsOK'
  <2>1. loops + 1 \in 0..MaxStarts
    BY <1>1 DEF MakeLoop, LoopCount
  <2> QED BY <1>1, <2>1 DEF MakeLoop
<1>2. ASSUME NEW t \in Threads,
             RegisterThread(t) \/ UnregisterThread(t) \/ DeleteLoop(t) \/ NullLoop(t)
      PROVE  LoopsOK'
  BY <1>2 DEF RegisterThread, UnregisterThread, DeleteLoop, NullLoop
<1>3. CASE UNCHANGED <<threads_, loops, message_loop_, alive, target_message_loop_>>
  BY <1>3
<1> HIDE DEF LoopsOK
<1> QED
  BY <1>1, <1>2, <1>3 DEF Next, ThreadStep, SignalStarted, RunTask, RunDelayedTask,
     TaskReturn, LeaveLoop, Deref, Lookup, PostTaskHelper, Post, Start, Stop, StartReturns,
     StopReturns, WindowMessage, OnClose, PostQuitMessage

LEMMA TasksStep == ASSUME CallOK, CallInv, TasksOK, Next PROVE TasksOK'
<1> USE ThreadSets, BoundsAssumption DEF TasksOK, tasks
<1>1. ASSUME NEW t \in Threads, RunTask(t) PROVE TasksOK'
  <2>1. Tail(queue[t]) \in Seq(0..MaxPosts) /\ Head(queue[t]) \in 0..MaxPosts
    BY <1>1, TailElements DEF RunTask
  <2> QED BY <1>1, <2>1 DEF RunTask
<1>2. ASSUME NEW t \in Threads, RunDelayedTask(t) \/ TaskReturn(t) \/ DeleteLoop(t) PROVE TasksOK'
  <2>1. CASE RunDelayedTask(t)
    BY <2>1 DEF RunDelayedTask
  <2>2. CASE TaskReturn(t)
    <3>1. task[t] \in 0..MaxPosts /\ done' = done \cup ({task[t]} \ {0})
      BY <2>2 DEF TaskReturn
    <3>2. {task[t]} \ {0} \subseteq 1..MaxPosts
      BY <3>1
    <3>3. done' \subseteq 1..MaxPosts
      BY <3>1, <3>2
    <3> QED BY <2>2, <3>3 DEF TaskReturn
  <2>3. CASE DeleteLoop(t)
    <3>1. <<>> \in Seq(0..MaxPosts)
      OBVIOUS
    <3> QED BY <2>3, <3>1 DEF DeleteLoop
  <2> QED BY <1>2, <2>1, <2>2, <2>3
<1>3. ASSUME NEW t \in Threads, PostTaskHelper(t) PROVE TasksOK'
  <2>1. call[t].to \in Threads /\ call[t].id \in 1..MaxPosts
    BY <1>3 DEF PostTaskHelper, CallOK, Call, CallInv, Posting
  <2>2. Append(queue[call[t].to], call[t].id) \in Seq(0..MaxPosts)
    BY <2>1, AppendElements
  <2> QED BY <1>3, <2>1, <2>2 DEF PostTaskHelper
<1>4. ASSUME NEW w \in Workers, Stop(w) PROVE TasksOK'
  <2>1. Append(queue[w], StopTask) \in Seq(0..MaxPosts)
    BY AppendElements DEF StopTask
  <2>2. {queue[w][i] : i \in DOMAIN queue[w]} \ {StopTask} \subseteq 1..MaxPosts
    <3>1. Elements(queue[w]) \subseteq 0..MaxPosts
      BY ElementsType
    <3> QED BY <3>1 DEF Elements, StopTask
  <2> QED BY <1>4, <2>1, <2>2 DEF Stop
<1>5. ASSUME NEW t \in Threads, NEW u \in Threads, NEW wait \in BOOLEAN, Post(t, u, wait)
      PROVE  TasksOK'
  BY <1>5 DEF Post
<1>6. CASE UNCHANGED <<queue, delayed, task, posted, done, promised>>
  BY <1>6
<1> HIDE DEF TasksOK
<1> QED
  BY <1>1, <1>2, <1>3, <1>4, <1>5, <1>6 DEF Next, ThreadStep, MakeLoop, RegisterThread,
     SignalStarted, LeaveLoop, UnregisterThread, NullLoop, Deref, Lookup, Start, StartReturns,
     StopReturns, WindowMessage, OnClose, PostQuitMessage

LEMMA TypeStep == ASSUME TypeOK, CallInv, LoopCount, Next PROVE TypeOK'
<1>1. PcOK /\ CallOK /\ FlagsOK /\ LoopsOK /\ TasksOK
  BY TypeParts
<1>2. PcOK' /\ CallOK' /\ FlagsOK' /\ LoopsOK' /\ TasksOK'
  BY <1>1, PcStep, CallStep, FlagsStep, LoopsStep, TasksStep
<1> QED BY <1>2 DEF TypeOK, PcOK, CallOK, Call, FlagsOK, LoopsOK, TasksOK

-----------------------------------------------------------------------------
(* The inductive invariant *)

IInv == TypeOK /\ CallInv /\ LoopInv /\ MainInv /\ UnstoppedInv /\ WorkerInv /\ PromiseInv

(* What a step of thread t on its own way through Run is. *)
RunStep(t) ==
  \/ MakeLoop(t) \/ RegisterThread(t) \/ SignalStarted(t)
  \/ LeaveLoop(t) \/ UnregisterThread(t) \/ DeleteLoop(t) \/ NullLoop(t)

LEMMA BoundKept == ASSUME IInv PROVE LoopCount
BY BoundsAssumption DEF IInv, TypeOK, MainInv, WorkerInv, WorkerOf, LoopCount, Threads

(* Start finds the thread off: it has no loop, and nobody waits for it. *)
LEMMA StartFindsOff == ASSUME IInv, NEW w \in Workers, Start(w) PROVE pc[w] = "off"
<1>1. LoopInv /\ WorkerInv /\ PcOK /\ w \in Threads
  BY TypeParts, ThreadSets DEF IInv
<1>2. pc[w] \in Loopless
  BY <1>1 DEF Start, LoopInv
<1>3. ~Waiting(w) /\ ~Joining(w)
  BY DEF Start, Waiting, Joining, Inside
<1>4. pc[w] # "enter" /\ pc[w] \notin Ending
  BY <1>1, <1>3 DEF WorkerInv, WorkerOf, Starting
<1> QED BY <1>2, <1>4 DEF Loopless, Ending

LEMMA CallInvStep == ASSUME IInv, Next PROVE CallInv'
<1> USE ThreadSets DEF PcOK, CallOK, CallInv, Calling, Posting, Inside, GoTo
<1>0. PcOK /\ CallOK /\ task \in [Threads -> 0..MaxPosts]
  BY TypeParts DEF IInv, TasksOK
<1>00. CallInv
  BY DEF IInv
<1>1. ASSUME NEW t \in Threads, RunStep(t) PROVE CallInv'
  BY <1>0, <1>00, <1>1 DEF RunStep, MakeLoop, RegisterThread, SignalStarted, LeaveLoop, UnregisterThread,
     DeleteLoop, NullLoop, tasks
<1>2. ASSUME NEW t \in Threads, RunTask(t) \/ RunDelayedTask(t) \/ TaskReturn(t) PROVE CallInv'
  BY <1>0, <1>00, <1>2 DEF RunTask, RunDelayedTask, TaskReturn
<1>3. ASSUME NEW t \in Threads, NEW u \in Threads, NEW wait \in BOOLEAN, Post(t, u, wait)
      PROVE  CallInv'
  <2>1. posted \in Nat
    BY BoundsAssumption, TypeParts DEF IInv, TasksOK
  <2> QED BY <1>0, <1>00, <1>3, <2>1 DEF Post
<1>4. ASSUME NEW t \in Threads, Lookup(t) \/ Deref(t) \/ PostTaskHelper(t) PROVE CallInv'
  BY <1>0, <1>00, <1>4 DEF Lookup, Deref, PostTaskHelper, CallReturns, Call, NoCall, tasks
<1>5. ASSUME NEW w \in Workers, Start(w) \/ Stop(w) PROVE CallInv'
  <2>1. CASE Start(w)
    <3>1. pc[w] = "off"
      BY <2>1, StartFindsOff
    <3>2. task[w] = 0
      BY <1>00, <3>1
    <3>3. /\ pc' = [pc EXCEPT ![Main] = "wait_start", ![w] = "enter"] /\ task' = task
          /\ pc[Main] \in Inside /\ call' = [call EXCEPT ![Main] = call'[Main]]
          /\ call'[Main].back = pc[Main] /\ call'[Main].to = w
      BY <1>0, <2>1 DEF Start, NoCall, tasks
    <3> QED BY <1>0, <1>00, <3>2, <3>3
  <2>2. CASE Stop(w)
    BY <1>0, <1>00, <2>2 DEF Stop, NoCall, tasks
  <2> QED BY <1>5, <2>1, <2>2
<1>6. CASE StartReturns \/ StopReturns
  BY <1>0, <1>00, <1>6 DEF StartReturns, StopReturns, CallReturns, NoCall, tasks
<1>7. CASE WindowMessage \/ OnClose \/ PostQuitMessage
  BY <1>0, <1>00, <1>7 DEF WindowMessage, OnClose, PostQuitMessage, tasks
<1> HIDE DEF CallInv
<1> QED BY <1>1, <1>2, <1>3, <1>4, <1>5, <1>6, <1>7 DEF Next, ThreadStep, RunStep

LEMMA LoopInvStep == ASSUME IInv, Next PROVE LoopInv'
<1> USE ThreadSets DEF PcOK, LoopsOK, LoopInv, Loopless, Mapped, Posting, Inside, GoTo
<1>0. PcOK /\ CallOK /\ LoopsOK /\ LoopInv /\ CallInv /\ WorkerInv
  BY TypeParts DEF IInv
<1>00. /\ queue \in [Threads -> Seq(0..MaxPosts)] /\ delayed \in [Threads -> SUBSET (1..MaxPosts)]
       /\ quit_received \in [Threads -> BOOLEAN]
  BY TypeParts DEF IInv, TasksOK, FlagsOK
<1>1. ASSUME NEW t \in Threads, MakeLoop(t) PROVE LoopInv'
  BY <1>0, <1>00, <1>1 DEF MakeLoop, tasks
<1>2. ASSUME NEW t \in Threads,
             RegisterThread(t) \/ SignalStarted(t) \/ LeaveLoop(t) \/ UnregisterThread(t)
      PROVE  LoopInv'
  <2>1. CASE RegisterThread(t)
    BY <1>0, <1>00, <2>1 DEF RegisterThread, tasks, loop, fields
  <2>2. CASE UnregisterThread(t)
    BY <1>0, <1>00, <2>2 DEF UnregisterThread, tasks, loop, fields
  <2>3. CASE SignalStarted(t)
    BY <1>0, <1>00, <2>3 DEF SignalStarted, tasks, loop, fields
  <2>4. CASE LeaveLoop(t)
    BY <1>0, <1>00, <2>4 DEF LeaveLoop, tasks, loop, fields
  <2> QED BY <1>2, <2>1, <2>2, <2>3, <2>4
<1>3. ASSUME NEW t \in Threads, DeleteLoop(t) PROVE LoopInv'
  BY <1>0, <1>00, <1>3 DEF DeleteLoop, fields
<1>4. ASSUME NEW t \in Threads, NullLoop(t) PROVE LoopInv'
  BY <1>0, <1>00, <1>4 DEF NullLoop, tasks, loop
<1>5. ASSUME NEW t \in Threads, RunTask(t) \/ RunDelayedTask(t) \/ TaskReturn(t) PROVE LoopInv'
  BY <1>0, <1>00, <1>5 DEF RunTask, RunDelayedTask, TaskReturn, loop, fields
<1>6. ASSUME NEW t \in Threads, NEW u \in Threads, NEW wait \in BOOLEAN, Post(t, u, wait)
      PROVE  LoopInv'
  BY <1>0, <1>00, <1>6 DEF Post, loop, fields
<1>7. ASSUME NEW t \in Threads, Lookup(t) \/ Deref(t) PROVE LoopInv'
  <2>1. call[t].back \in Inside
    BY <1>0, <1>7 DEF Lookup, Deref, CallInv, Calling
  <2>2. CASE Lookup(t)
    BY <1>0, <1>00, <2>1, <2>2 DEF Lookup, CallReturns, tasks, loop, fields
  <2>3. CASE Deref(t)
    BY <1>0, <1>00, <2>3 DEF Deref, tasks, loop, fields
  <2> QED BY <1>7, <2>2, <2>3
<1>8. ASSUME NEW t \in Threads, PostTaskHelper(t) PROVE LoopInv'
  <2>1. call[t].back \in Inside /\ call[t].message_loop # 0 /\ call[t].to \in Threads
    BY <1>0, <1>8 DEF PostTaskHelper, CallInv, Calling, CallOK, Call
  <2>2. /\ pc' = [pc EXCEPT ![t] = call[t].back] /\ pc[t] = "push"
        /\ UNCHANGED <<threads_, message_loop_, alive, target_message_loop_, quit_received>>
    BY <1>8 DEF PostTaskHelper, CallReturns, loop, fields
  <2>3. \A x \in Threads : pc[x] \in Loopless => queue'[x] = queue[x] /\ delayed'[x] = delayed[x]
    BY <1>0, <1>00, <1>8, <2>1 DEF PostTaskHelper
  <2> QED BY <1>0, <1>00, <2>1, <2>2, <2>3
<1>9. ASSUME NEW w \in Workers, Start(w) PROVE LoopInv'
  BY <1>0, <1>00, <1>9 DEF Start, WorkerInv, WorkerOf, Waiting, Joining, Ending, tasks, loop, fields
<1>10. ASSUME NEW w \in Workers, Stop(w) PROVE LoopInv'
  BY <1>0, <1>00, <1>10 DEF Stop, WorkerInv, WorkerOf, Waiting, Joining, Ending, loop
<1>11. CASE StartReturns \/ StopReturns
  <2>1. call[Main].back \in Inside /\ call[Main].to \in Workers
    BY <1>0, <1>11 DEF StartReturns, StopReturns, CallInv, Calling
  <2>2. CASE StartReturns
    BY <1>0, <1>00, <2>1, <2>2 DEF StartReturns, CallReturns, tasks, loop
  <2>3. CASE StopReturns
    BY <1>0, <1>00, <2>1, <2>3 DEF StopReturns, tasks, loop
  <2> QED BY <1>11, <2>2, <2>3
<1>12. CASE WindowMessage \/ OnClose \/ PostQuitMessage
  BY <1>0, <1>00, <1>12 DEF WindowMessage, OnClose, PostQuitMessage, tasks, loop, fields
<1> HIDE DEF LoopInv
<1> QED
  BY <1>1, <1>2, <1>3, <1>4, <1>5, <1>6, <1>7, <1>8, <1>9, <1>10, <1>11, <1>12 DEF Next, ThreadStep

(* DoStopSoon is posted by Stop only. *)
LEMMA StopTaskIsOfStop ==
  ASSUME IInv, Next, NEW x \in Threads, StopTask \in InQueue(x)', StopTask \notin InQueue(x)
  PROVE  x \in Workers /\ Stop(x)
<1>0. queue \in [Threads -> Seq(0..MaxPosts)] /\ CallInv /\ CallOK
  BY TypeParts DEF IInv, TasksOK
<1>1. queue'[x] # queue[x]
  BY DEF InQueue
<1>2. ASSUME NEW t \in Threads PROVE ~RunTask(t)
  <2> SUFFICES ASSUME RunTask(t) PROVE FALSE
    OBVIOUS
  <2>1. x = t /\ queue'[x] = Tail(queue[x]) /\ queue[x] # <<>>
    BY <1>0, <1>1 DEF RunTask
  <2>2. Elements(queue'[x]) \subseteq Elements(queue[x])
    BY <1>0, <2>1, TailElements
  <2> QED BY <2>2 DEF InQueue
<1>3. ASSUME NEW t \in Threads PROVE ~DeleteLoop(t)
  <2> SUFFICES ASSUME DeleteLoop(t) PROVE FALSE
    OBVIOUS
  <2>1. queue'[x] = <<>>
    BY <1>0, <1>1 DEF DeleteLoop
  <2> QED BY <2>1 DEF InQueue, Elements
<1>4. ASSUME NEW t \in Threads PROVE ~PostTaskHelper(t)
  <2> SUFFICES ASSUME PostTaskHelper(t) PROVE FALSE
    OBVIOUS
  <2>1. call[t].id \in 0..MaxPosts /\ call[t].id # StopTask
    BY <1>0 DEF PostTaskHelper, CallInv, CallOK, Call, Posting, StopTask
  <2>2. queue[x] \in Seq(0..MaxPosts) /\ queue'[x] = Append(queue[x], call[t].id)
    BY <1>0, <1>1 DEF PostTaskHelper
  <2>3. Elements(Append(queue[x], call[t].id)) = Elements(queue[x]) \cup {call[t].id}
    BY <2>1, <2>2, QueueAppend
  <2> QED BY <2>1, <2>2, <2>3 DEF InQueue
<1>5. ASSUME NEW w \in Workers, Stop(w) PROVE x = w
  BY <1>0, <1>1, <1>5 DEF Stop
<1>6. CASE UNCHANGED queue
  BY <1>1, <1>6
<1> QED
  BY <1>2, <1>3, <1>4, <1>5, <1>6 DEF Next, ThreadStep, MakeLoop, RegisterThread, SignalStarted,
     RunDelayedTask, TaskReturn, LeaveLoop, UnregisterThread, NullLoop, Lookup, Deref, Post, Start,
     StartReturns, StopReturns, WindowMessage, OnClose, PostQuitMessage, tasks

LEMMA UnstoppedInvStep == ASSUME IInv, Next PROVE UnstoppedInv'
BY ThreadSets, StopTaskIsOfStop DEF IInv, UnstoppedInv

LEMMA MainInvStep == ASSUME IInv, Next PROVE MainInv'
<1> USE ThreadSets DEF MainInv, PcOK, Posting, Inside, Ending, GoTo
<1>0. PcOK /\ CallInv /\ MainInv /\ WorkerInv /\ quit_received \in [Threads -> BOOLEAN]
  BY TypeParts DEF IInv, FlagsOK
<1>2. ASSUME NEW t \in Threads, RunStep(t) PROVE MainInv'
  <2>1. CASE MakeLoop(t)
    <3>1. CASE t = Main
      BY <1>0, <2>1, <3>1 DEF MakeLoop, tasks
    <3>2. CASE t \in Workers
      <4>1. pc[Main] \notin {"enter", "register"} \cup Ending /\ ~quit_received[Main]
        BY <1>0, <2>1, <3>2 DEF MakeLoop
      <4>2. /\ pc'[Main] = pc[Main]
            /\ quit_received' = quit_received
        BY <1>0, <2>1, <3>2 DEF MakeLoop, tasks
      <4> QED BY <4>1, <4>2
    <3> QED BY <3>1, <3>2 DEF Threads
  <2>2. CASE RegisterThread(t) \/ SignalStarted(t)
    BY <1>0, <2>2 DEF RegisterThread, SignalStarted, tasks, loop
  <2>3. CASE LeaveLoop(t)
    BY <1>0, <2>3 DEF LeaveLoop, tasks, loop
  <2>4. CASE UnregisterThread(t) \/ NullLoop(t)
    BY <1>0, <2>4 DEF UnregisterThread, NullLoop, tasks, loop
  <2>5. CASE DeleteLoop(t)
    BY <1>0, <2>5 DEF DeleteLoop
  <2> QED BY <1>2, <2>1, <2>2, <2>3, <2>4, <2>5 DEF RunStep
<1>3. ASSUME NEW t \in Threads, RunTask(t) PROVE MainInv'
  <2>1. t = Main => quit_received' = quit_received
    <3> SUFFICES ASSUME t = Main, Head(queue[Main]) = StopTask PROVE FALSE
      BY <1>3 DEF RunTask
    <3>1. queue[Main] \in Seq(0..MaxPosts) /\ queue[Main] # <<>>
      BY <1>3, TypeParts DEF IInv, TasksOK, RunTask
    <3>2. StopTask \in InQueue(Main)
      BY <3>1, TailElements DEF InQueue
    <3> QED BY <3>2 DEF IInv, UnstoppedInv
  <2> QED BY <1>0, <1>3, <2>1 DEF RunTask, loop
<1>4. ASSUME NEW t \in Threads, RunDelayedTask(t) \/ TaskReturn(t) PROVE MainInv'
  BY <1>0, <1>4 DEF RunDelayedTask, TaskReturn, loop
<1>5. ASSUME NEW t \in Threads, NEW u \in Threads, NEW wait \in BOOLEAN, Post(t, u, wait)
      PROVE  MainInv'
  BY <1>0, <1>5 DEF Post, loop
<1>6. ASSUME NEW t \in Threads, Lookup(t) \/ Deref(t) \/ PostTaskHelper(t) PROVE MainInv'
  BY <1>0, <1>6 DEF Lookup, Deref, PostTaskHelper, CallReturns, CallInv, Calling, tasks, loop
<1>7. ASSUME NEW w \in Workers, Start(w) PROVE MainInv'
  BY <1>0, <1>7 DEF Start, tasks, loop
<1>8. ASSUME NEW w \in Workers, Stop(w) PROVE MainInv'
  BY <1>0, <1>8 DEF Stop, loop
<1>9. CASE StartReturns \/ StopReturns
  <2>1. call[Main].back \in Inside /\ call[Main].to \in Workers
    BY <1>0, <1>9 DEF StartReturns, StopReturns, CallInv, Calling
  <2>2. CASE StartReturns
    BY <1>0, <2>1, <2>2 DEF StartReturns, CallReturns, tasks, loop
  <2>3. CASE StopReturns
    BY <1>0, <2>1, <2>3 DEF StopReturns, tasks, loop
  <2> QED BY <1>9, <2>2, <2>3
<1>10. CASE WindowMessage \/ OnClose \/ PostQuitMessage
  <2>1. CASE WindowMessage \/ OnClose
    BY <1>0, <2>1 DEF WindowMessage, OnClose, tasks, loop
  <2>2. CASE PostQuitMessage
    <3>1. \A w \in Workers : pc[w] = "off"
      BY <1>0, <2>2 DEF PostQuitMessage, WorkerInv, WorkerOf, Waiting
    <3> QED BY <1>0, <2>2, <3>1 DEF PostQuitMessage, loop
  <2> QED BY <1>10, <2>1, <2>2
<1> HIDE DEF MainInv
<1> QED
  BY <1>2, <1>3, <1>4, <1>5, <1>6, <1>7, <1>8, <1>9, <1>10 DEF Next, ThreadStep, RunStep

(* Stop finds the thread running, and with its loop. *)
LEMMA StopFindsLoop ==
  ASSUME IInv, NEW w \in Workers, pc[Main] = "task", started_[w]
  PROVE  /\ ~stopping_[w] /\ pc[w] \notin Loopless \cup Ending
         /\ message_loop_[w] # 0 /\ alive[w] = message_loop_[w]
<1>1. LoopInv /\ WorkerOf(w) /\ PcOK /\ w \in Threads
  BY TypeParts, ThreadSets DEF IInv, WorkerInv
<1>2. ~Waiting(w) /\ ~Joining(w)
  BY DEF Waiting, Joining
<1>3. ~stopping_[w] /\ pc[w] # "off" /\ pc[w] # "enter" /\ pc[w] \notin Ending
  BY <1>1, <1>2 DEF WorkerOf, Starting
<1> QED BY <1>1, <1>3 DEF LoopInv, Loopless, Ending

LEMMA WorkerInvStep == ASSUME IInv, Next PROVE WorkerInv'
<1> SUFFICES ASSUME NEW w \in Workers PROVE WorkerOf(w)'
  BY DEF WorkerInv
<1> USE ThreadSets DEF WorkerOf, Waiting, Joining, Starting, PcOK, Posting, Inside, Ending, GoTo
<1>0. /\ PcOK /\ CallOK /\ FlagsOK /\ LoopInv /\ CallInv /\ WorkerOf(w) /\ w \in Threads /\ w # Main
      /\ started_ \in [Threads -> BOOLEAN] /\ stopping_ \in [Threads -> BOOLEAN]
      /\ event_ \in [Threads -> BOOLEAN] /\ quit_received \in [Threads -> BOOLEAN]
      /\ call \in [Threads -> Call]
  BY TypeParts DEF IInv, WorkerInv, FlagsOK, CallOK
<1>00. StopTask \in InQueue(w)' => StopTask \in InQueue(w) \/ Stop(w)
  BY StopTaskIsOfStop
<1>1. ASSUME NEW t \in Threads, MakeLoop(t) PROVE WorkerOf(w)'
  <2>1. CASE t = w
    BY <1>0, <1>00, <1>1, <2>1 DEF MakeLoop, tasks, Stop
  <2>2. CASE t = Main
    <3>1. pc[w] = "off"
      BY <1>1, <2>2 DEF MakeLoop, IInv, MainInv
    <3> QED BY <1>0, <1>00, <1>1, <2>2, <3>1 DEF MakeLoop, tasks, Stop
  <2>3. CASE t \in Workers /\ t # w
    <3>1. WorkerOf(t)
      BY <2>3 DEF IInv, WorkerInv
    <3>2. pc[Main] = "wait_start" /\ call[Main].to = t
      BY <1>1, <3>1 DEF MakeLoop
    <3> QED BY <1>0, <1>00, <1>1, <2>3, <3>2 DEF MakeLoop, tasks, Stop
  <2> QED BY <2>1, <2>2, <2>3 DEF Threads
<1>2. ASSUME NEW t \in Threads, RegisterThread(t) \/ UnregisterThread(t) PROVE WorkerOf(w)'
  BY <1>0, <1>00, <1>2 DEF RegisterThread, UnregisterThread, tasks, fields, loop, Stop
<1>3. ASSUME NEW t \in Threads, SignalStarted(t) PROVE WorkerOf(w)'
  BY <1>0, <1>00, <1>3 DEF SignalStarted, tasks, loop, Stop
<1>4. ASSUME NEW t \in Threads, LeaveLoop(t) \/ NullLoop(t) PROVE WorkerOf(w)'
  BY <1>0, <1>00, <1>4 DEF LeaveLoop, NullLoop, tasks, fields, loop, Stop
<1>5. ASSUME NEW t \in Threads, DeleteLoop(t) PROVE WorkerOf(w)'
  BY <1>0, <1>00, <1>5 DEF DeleteLoop, fields, Stop
<1>6. ASSUME NEW t \in Threads, RunTask(t) PROVE WorkerOf(w)'
  <2>1. Head(queue[t]) \in InQueue(t)
    BY <1>6, TypeParts, TailElements DEF IInv, TasksOK, RunTask, InQueue
  <2> QED BY <1>0, <1>00, <1>6, <2>1 DEF RunTask, fields, loop, Stop
<1>7. ASSUME NEW t \in Threads, RunDelayedTask(t) \/ TaskReturn(t) PROVE WorkerOf(w)'
  BY <1>0, <1>00, <1>7 DEF RunDelayedTask, TaskReturn, fields, loop, Stop
<1>8. ASSUME NEW t \in Threads, NEW u \in Threads, NEW wait \in BOOLEAN, Post(t, u, wait)
      PROVE  WorkerOf(w)'
  BY <1>0, <1>00, <1>8 DEF Post, fields, loop, Stop
<1>9. ASSUME NEW t \in Threads, Lookup(t) \/ Deref(t) \/ PostTaskHelper(t) PROVE WorkerOf(w)'
  <2>1. call[t].back \in Inside
    BY <1>0, <1>9 DEF Lookup, Deref, PostTaskHelper, CallInv, Calling
  <2>2. CASE Lookup(t)
    <3>1. /\ pc[t] = "lookup"
          /\ UNCHANGED <<started_, stopping_, event_, quit_received, loops>>
          /\ InQueue(w)' = InQueue(w)
      BY <2>2 DEF Lookup, tasks, fields, loop, InQueue
    <3>2. CASE pc' = [pc EXCEPT ![t] = call[t].back] /\ call' = [call EXCEPT ![t] = NoCall]
      BY <1>0, <2>1, <3>1, <3>2
    <3>3. CASE pc' = [pc EXCEPT ![t] = "deref"]
               /\ call' = [call EXCEPT ![t].message_loop = message_loop_[call[t].to]]
      <4>1. call'[w].back = call[w].back /\ call'[Main].to = call[Main].to
        BY <1>0, <3>3 DEF Call
      <4> QED BY <1>0, <2>1, <3>1, <3>3, <4>1
    <3> QED BY <2>2, <3>2, <3>3 DEF Lookup, CallReturns
  <2>3. CASE Deref(t)
    BY <1>0, <1>00, <2>1, <2>3 DEF Deref, tasks, fields, loop, Stop
  <2>4. CASE PostTaskHelper(t)
    BY <1>0, <1>00, <2>1, <2>4 DEF PostTaskHelper, CallReturns, fields, loop, Stop
  <2> QED BY <1>9, <2>2, <2>3, <2>4
<1>10. ASSUME NEW x \in Workers, Start(x) PROVE WorkerOf(w)'
  <2>1. pc[x] = "off"
    BY <1>10, StartFindsOff
  <2>2. pc' = [pc EXCEPT ![Main] = "wait_start", ![x] = "enter"] /\ call'[Main].to = x
    BY <1>0, <1>10 DEF Start, NoCall
  <2>3. \A t \in Threads : t # Main => call'[t] = call[t]
    BY <1>0, <1>10 DEF Start
  <2>4. UNCHANGED <<started_, stopping_, event_, quit_received, loops>> /\ loops < MaxStarts
    BY <1>10 DEF Start, fields, loop, tasks
  <2>5. ~Stop(w)
    BY <1>10, <2>2, <1>0 DEF Stop
  <2>6. pc[Main] \in Inside
    BY <1>10 DEF Start
  <2> QED BY <1>0, <1>00, <2>1, <2>2, <2>3, <2>4, <2>5, <2>6
<1>11. ASSUME NEW x \in Workers, Stop(x) PROVE WorkerOf(w)'
  <2>1. ~stopping_[x] /\ message_loop_[x] # 0 /\ pc[x] \notin Loopless \cup Ending
    BY <1>11, StopFindsLoop DEF Stop
  <2>2. pc' = [pc EXCEPT ![Main] = "join"] /\ call'[Main].to = x
    BY <1>0, <1>11 DEF Stop, NoCall
  <2>3. \A t \in Threads : t # Main => call'[t] = call[t]
    BY <1>0, <1>11 DEF Stop
  <2>4. /\ UNCHANGED <<started_, event_, quit_received, loops>>
        /\ stopping_' = [stopping_ EXCEPT ![x] = TRUE]
        /\ started_[x] /\ pc[Main] = "task"
    BY <1>11, <2>1 DEF Stop, loop
  <2>5. x # w => ~Stop(w)
    <3>1. Stop(w) => call'[Main].to = w
      BY <1>0 DEF Stop, NoCall
    <3> QED BY <2>2, <3>1
  <2> QED BY <1>0, <1>00, <2>1, <2>2, <2>3, <2>4, <2>5 DEF Loopless
<1>12. CASE StartReturns \/ StopReturns
  <2>1. call[Main].back \in Inside /\ call[Main].to \in Workers
    BY <1>0, <1>12 DEF StartReturns, StopReturns, CallInv, Calling
  <2>2. CASE StartReturns
    BY <1>0, <1>00, <2>1, <2>2 DEF StartReturns, CallReturns, tasks, loop, Stop
  <2>3. CASE StopReturns
    <3>1. pc[call[Main].to] = "ended"
      BY <2>3 DEF StopReturns
    <3>2. w = call[Main].to => StopTask \notin InQueue(w) /\ ~quit_received[w]
      BY <1>0, <3>1 DEF LoopInv, Loopless, InQueue, Elements
    <3> QED BY <1>0, <1>00, <2>1, <2>3, <3>2 DEF StopReturns, tasks, loop, Stop
  <2> QED BY <1>12, <2>2, <2>3
<1>13. CASE WindowMessage \/ OnClose \/ PostQuitMessage
  BY <1>0, <1>00, <1>13 DEF WindowMessage, OnClose, PostQuitMessage, tasks, fields, loop, Stop
<1> HIDE DEF WorkerOf
<1> QED
  BY <1>1, <1>2, <1>3, <1>4, <1>5, <1>6, <1>7, <1>8, <1>9, <1>10, <1>11, <1>12, <1>13
  DEF Next, ThreadStep

LEMMA PromiseInvStep == ASSUME IInv, Next PROVE PromiseInv'
<1> SUFFICES ASSUME NEW w \in Workers, Joining(w)' PROVE PromiseOf(w)'
  BY DEF PromiseInv, PromiseOf
<1> USE ThreadSets DEF PcOK, Posting, Inside, Ending, GoTo
<1>0. /\ PcOK /\ CallInv /\ w \in Threads /\ w # Main /\ 0 \notin promised[w]
      /\ queue \in [Threads -> Seq(0..MaxPosts)] /\ task \in [Threads -> 0..MaxPosts]
      /\ call \in [Threads -> Call]
  BY TypeParts DEF IInv, TasksOK, CallOK
<1>1. ASSUME NEW x \in Workers, Stop(x) PROVE x = w
  <2>1. call'[Main].to = x
    BY <1>0, <1>1 DEF Stop, NoCall
  <2> QED BY <2>1 DEF Joining
<1>2. ~StartReturns /\ ~StopReturns
  <2>1. ASSUME StartReturns \/ StopReturns
        PROVE  call[Main].back \in Inside /\ call[Main].to \in Workers
    BY <1>0, <2>1 DEF StartReturns, StopReturns, CallInv, Calling
  <2>2. ASSUME StartReturns PROVE FALSE
    BY <1>0, <2>1, <2>2 DEF StartReturns, CallReturns, Joining
  <2>3. ASSUME StopReturns PROVE FALSE
    BY <1>0, <2>1, <2>3 DEF StopReturns, Joining
  <2> QED BY <2>2, <2>3
<1>3. CASE Stop(w)
  <2>1. pc[w] \notin Ending /\ pc' = [pc EXCEPT ![Main] = "join"]
    BY <1>3, StopFindsLoop DEF Stop
  <2>2. promised'[w] = Elements(queue[w]) \ {StopTask} /\ task' = task
    BY <1>0, <1>3, TypeParts DEF Stop, IInv, TasksOK, Elements
  <2>3. Elements(queue[w]) \subseteq InQueue(w)'
    <3>1. queue'[w] = queue[w] \/ queue'[w] = Append(queue[w], StopTask)
      BY <1>0, <1>3 DEF Stop
    <3>2. StopTask \in 0..MaxPosts /\ queue[w] \in Seq(0..MaxPosts)
      BY <1>0, BoundsAssumption DEF StopTask
    <3> QED BY <3>1, <3>2, QueueAppend DEF InQueue
  <2> QED BY <1>0, <2>1, <2>2, <2>3 DEF PromiseOf
<1>4. CASE ~Stop(w)
  <2>0. Joining(w)
    <3>1. CASE pc'[Main] # pc[Main] \/ call'[Main] # call[Main]
      <4>1. ASSUME NEW t \in Threads, ThreadStep(t) \/ RunDelayedTask(t) PROVE FALSE
        BY <1>0, <3>1, <4>1 DEF Joining, ThreadStep, MakeLoop, RegisterThread, SignalStarted, RunTask,
           RunDelayedTask, TaskReturn, LeaveLoop, UnregisterThread, DeleteLoop, NullLoop, Lookup,
           Deref, PostTaskHelper, CallReturns, CallInv, Calling
      <4>2. ASSUME NEW t \in Threads, NEW u \in Threads, NEW wait \in BOOLEAN, Post(t, u, wait)
            PROVE  FALSE
        BY <1>0, <3>1, <4>2 DEF Joining, Post
      <4>3. ASSUME NEW x \in Workers, Start(x) PROVE FALSE
        BY <1>0, <4>3 DEF Joining, Start
      <4>4. ~WindowMessage /\ ~OnClose /\ ~PostQuitMessage
        BY <1>0, <3>1 DEF Joining, WindowMessage, OnClose, PostQuitMessage
      <4> QED BY <1>4, <1>1, <1>2, <4>1, <4>2, <4>3, <4>4 DEF Next
    <3> QED BY <3>1 DEF Joining
  <2>00. PromiseOf(w)
    BY DEF IInv, PromiseInv
  <2> USE DEF PromiseOf
  <2>1. CASE UNCHANGED <<queue, task, done>> /\ promised'[w] = promised[w]
             /\ (pc'[w] \in Ending => pc[w] \in Ending)
    BY <2>0, <2>00, <2>1 DEF InQueue
  <2>2. ASSUME RunTask(w) PROVE PromiseOf(w)'
    <3>1. queue[w] # <<>> /\ queue'[w] = Tail(queue[w]) /\ done' = done /\ promised' = promised
      BY <1>0, <2>2 DEF RunTask
    <3>2. InQueue(w) = InQueue(w)' \cup {Head(queue[w])}
      BY <1>0, <3>1, TailElements DEF InQueue
    <3>3. task[w] = 0 /\ (Head(queue[w]) # StopTask => task'[w] = Head(queue[w])) /\ task'[w] \in {0, Head(queue[w])}
      BY <1>0, <2>2 DEF RunTask, CallInv, Calling
    <3>4. pc'[w] \notin Ending
      BY <1>0, <2>2 DEF RunTask
    <3> QED BY <1>0, <2>0, <2>00, <3>1, <3>2, <3>3, <3>4 DEF StopTask
  <2>3. ASSUME RunDelayedTask(w) PROVE PromiseOf(w)'
    <3>1. task[w] = 0
      BY <1>0, <2>3 DEF RunDelayedTask, CallInv, Calling
    <3> QED BY <1>0, <2>0, <2>00, <2>3, <3>1 DEF RunDelayedTask, InQueue
  <2>4. ASSUME NEW t \in Threads, TaskReturn(t) PROVE PromiseOf(w)'
    BY <1>0, <2>0, <2>00, <2>4 DEF TaskReturn, InQueue
  <2>5. ASSUME LeaveLoop(w) PROVE PromiseOf(w)'
    <3>1. task[w] = 0 /\ queue[w] = <<>>
      BY <1>0, <2>5 DEF LeaveLoop, CallInv, Calling
    <3>2. InQueue(w) = {}
      BY <3>1 DEF InQueue, Elements
    <3> QED BY <1>0, <2>0, <2>00, <2>5, <3>1, <3>2 DEF LeaveLoop, tasks
  <2>6. ASSUME DeleteLoop(w) PROVE PromiseOf(w)'
    BY <1>0, <2>0, <2>00, <2>6 DEF DeleteLoop
  <2>7. ASSUME NEW t \in Threads, t # w, RunTask(t) \/ RunDelayedTask(t) \/ DeleteLoop(t)
        PROVE  PromiseOf(w)'
    <3>1. /\ queue'[w] = queue[w] /\ task'[w] = task[w] /\ done' = done
          /\ promised' = promised /\ pc'[w] = pc[w]
      BY <1>0, <2>7 DEF RunTask, RunDelayedTask, DeleteLoop
    <3> QED BY <2>0, <2>00, <3>1 DEF InQueue
  <2>8. ASSUME NEW t \in Threads, PostTaskHelper(t) PROVE PromiseOf(w)'
    <3>1. call[t].id \in 0..MaxPosts /\ call[t].back \in Inside
      BY <1>0, <2>8 DEF PostTaskHelper, CallInv, Calling, Call
    <3>2. queue'[w] = queue[w] \/ queue'[w] = Append(queue[w], call[t].id)
      BY <1>0, <2>8 DEF PostTaskHelper
    <3>3. queue[w] \in Seq(0..MaxPosts)
      BY <1>0
    <3>4. InQueue(w) \subseteq InQueue(w)'
      BY <3>1, <3>2, <3>3, QueueAppend DEF InQueue
    <3>5. UNCHANGED <<task, done, promised>> /\ (pc'[w] \in Ending => pc[w] \in Ending)
      BY <1>0, <2>8, <3>1 DEF PostTaskHelper, CallReturns
    <3> QED BY <2>0, <2>00, <3>4, <3>5
  <2>9. ASSUME NEW x \in Workers, Stop(x) PROVE PromiseOf(w)'
    BY <1>4, <1>1, <2>9
  <2>10. ASSUME NEW t \in Threads, MakeLoop(t) \/ RegisterThread(t) \/ SignalStarted(t)
                  \/ UnregisterThread(t) \/ NullLoop(t) \/ Deref(t) \/ Lookup(t)
                  \/ (t # w /\ LeaveLoop(t))
         PROVE  PromiseOf(w)'
    <3>1. Lookup(t) => call[t].back \in Inside
      BY <1>0 DEF Lookup, CallInv, Calling
    <3> QED BY <1>0, <2>1, <2>10, <3>1 DEF MakeLoop, RegisterThread, SignalStarted, UnregisterThread,
       NullLoop, Deref, Lookup, CallReturns, LeaveLoop, tasks
  <2>11. ASSUME NEW t \in Threads, NEW u \in Threads, NEW wait \in BOOLEAN, Post(t, u, wait)
         PROVE  PromiseOf(w)'
    BY <1>0, <2>1, <2>11 DEF Post
  <2>12. ASSUME NEW x \in Workers, Start(x) PROVE PromiseOf(w)'
    BY <1>0, <2>12 DEF Start, Joining
  <2>13. CASE WindowMessage \/ OnClose \/ PostQuitMessage
    BY <1>0, <2>1, <2>13 DEF WindowMessage, OnClose, PostQuitMessage, tasks
  <2> HIDE DEF PromiseOf
  <2> QED
    BY <2>2, <2>3, <2>4, <2>5, <2>6, <2>7, <2>8, <2>9, <2>10, <2>11, <2>12, <2>13, <1>2
    DEF Next, ThreadStep
<1> QED BY <1>3, <1>4

-----------------------------------------------------------------------------
(* What holds of every behaviour *)

LEMMA InitIInv == Init => IInv
<1> SUFFICES ASSUME Init PROVE IInv
  OBVIOUS
<1> USE ThreadSets, BoundsAssumption
<1>1. NoCall \in Call /\ <<>> \in Seq(0..MaxPosts)
  BY DEF NoCall, Call, Inside
<1>2. PcOK /\ CallOK /\ FlagsOK /\ LoopsOK /\ TasksOK
  <2>1. PcOK
    BY DEF Init, PcOK, PCs
  <2>2. CallOK
    BY <1>1 DEF Init, CallOK
  <2>3. FlagsOK
    BY Zenon DEF Init, FlagsOK
  <2>4. LoopsOK
    BY DEF Init, LoopsOK
  <2>5. TasksOK
    BY <1>1 DEF Init, TasksOK
  <2> QED BY <2>1, <2>2, <2>3, <2>4, <2>5
<1>3. CallInv /\ LoopInv
  BY DEF Init, CallInv, LoopInv, Calling, Posting, Mapped, Inside, Loopless
<1>4. MainInv
  BY DEF Init, MainInv, Ending
<1>5. \A t \in Threads : InQueue(t) = {}
  BY DEF Init, InQueue, Elements
<1>6. UnstoppedInv /\ WorkerInv /\ PromiseInv
  BY <1>5 DEF Init, UnstoppedInv, WorkerInv, WorkerOf, PromiseInv, PromiseOf, Waiting, Joining,
     Starting, Posting, Ending
<1> QED BY <1>2, <1>3, <1>4, <1>6, TypeParts DEF IInv

LEMMA StutterIInv == ASSUME IInv, UNCHANGED vars PROVE IInv'
<1> USE DEF vars, fields, loop, tasks
<1>1. TypeOK' /\ CallInv' /\ LoopInv' /\ MainInv'
  BY DEF IInv, TypeOK, CallInv, LoopInv, MainInv
<1>2. \A t : InQueue(t)' = InQueue(t)
  BY DEF InQueue
<1>3. UnstoppedInv' /\ WorkerInv' /\ PromiseInv'
  BY <1>2 DEF IInv, UnstoppedInv, WorkerInv, WorkerOf, PromiseInv, PromiseOf, Waiting, Joining, Starting
<1> QED BY <1>1, <1>3 DEF IInv

(* The invariant holds in every state: what the fields of a thread say,    *)
(* where it is in Run and what Start and Stop wait for agree.              *)
THEOREM Inductive == Spec => []IInv
<1>1. IInv /\ [Next]_vars => IInv'
  <2> SUFFICES ASSUME IInv, Next PROVE IInv'
    BY StutterIInv
  <2>1. TypeOK'
    BY BoundKept, TypeStep DEF IInv
  <2> QED
    BY <2>1, CallInvStep, LoopInvStep, MainInvStep, UnstoppedInvStep, WorkerInvStep, PromiseInvStep
    DEF IInv
<1> QED BY InitIInv, <1>1, PTL DEF Spec

(* The fields, the map, the loops and their queues keep their types, and   *)
(* no more loops are made than Start allows.                               *)
THEOREM TypeCorrect == Spec => []TypeOK
<1>1. IInv => TypeOK
  BY DEF IInv
<1> QED BY <1>1, Inductive, PTL

(* framework_thread.h, Stop: a thread that was stopped is as good as new,  *)
(* whatever the number of threads.                                         *)
THEOREM StopResets == Spec => []StoppedIsReset
<1>1. ASSUME IInv PROVE StoppedIsReset
  <2>1. ASSUME NEW t \in threads_ PROVE message_loop_[t] # 0 /\ alive[t] = message_loop_[t]
    BY <1>1, TypeParts DEF IInv, LoopsOK, LoopInv, Mapped, Loopless, Inside, Posting
  <2>2. ASSUME NEW w \in Workers, ~started_[w], call[Main].to # w
        PROVE  pc[w] = "off" /\ ~stopping_[w] /\ message_loop_[w] = 0 /\ alive[w] = 0
    <3>1. pc[w] = "off" /\ ~stopping_[w]
      BY <1>1, <2>2 DEF IInv, WorkerInv, WorkerOf, Waiting
    <3> QED BY <1>1, <3>1, ThreadSets DEF IInv, LoopInv, Loopless
  <2>3. ASSUME NEW w \in Workers, started_[w], ~stopping_[w] PROVE message_loop_[w] # 0
    <3>1. pc[w] \notin Loopless
      BY <1>1, <2>3 DEF IInv, WorkerInv, WorkerOf, Waiting, Starting, Ending, Loopless
    <3> QED BY <1>1, <3>1, ThreadSets DEF IInv, LoopInv
  <2> QED BY <2>1, <2>2, <2>3 DEF StoppedIsReset
<1> QED BY <1>1, Inductive, PTL

(* Stop returns only once the immediate tasks that were pending have run.  *)
THEOREM StopIsPatient == Spec => StopRunsPending
<1>1. ASSUME IInv, Next, NEW w \in Workers, StopReturnsFrom(w) PROVE promised[w] \subseteq done'
  <2>1. started_ \in [Threads -> BOOLEAN] /\ CallInv /\ w \in Threads
    BY <1>1, TypeParts, ThreadSets DEF IInv, FlagsOK
  <2>2. ~UNCHANGED started_
    BY <1>1 DEF StopReturnsFrom
  <2>3. StartReturns \/ StopReturns
    BY <1>1, <2>2 DEF Next, ThreadStep, MakeLoop, RegisterThread, SignalStarted, RunTask,
       RunDelayedTask, TaskReturn, LeaveLoop, UnregisterThread, DeleteLoop, NullLoop, Lookup, Deref,
       PostTaskHelper, Post, Start, Stop, WindowMessage, OnClose, PostQuitMessage, fields
  <2>4. call[Main].to \in Workers
    BY <2>1, <2>3, ThreadSets DEF StartReturns, StopReturns, CallInv, Calling
  <2>5. ~StartReturns
    BY <1>1, <2>1, <2>4, ThreadSets DEF StartReturns, StopReturnsFrom
  <2>6. Joining(w) /\ pc[w] = "ended" /\ done' = done
    BY <1>1, <2>1, <2>3, <2>4, <2>5, ThreadSets DEF StopReturns, StopReturnsFrom, Joining, tasks
  <2> QED BY <1>1, <2>6 DEF IInv, PromiseInv, PromiseOf, Ending
<1>2. ASSUME UNCHANGED vars, NEW w \in Workers PROVE ~StopReturnsFrom(w)
  BY <1>2 DEF StopReturnsFrom, vars, fields
<1>3. IInv /\ [Next]_vars => [\A w \in Workers : StopReturnsFrom(w) => promised[w] \subseteq done']_vars
  BY <1>1, <1>2
<1> QED BY <1>3, Inductive, PTL DEF Spec, StopRunsPending

-----------------------------------------------------------------------------
(* What holds because the program has one thread besides the main one *)

(* main.cpp and MainWindow.cpp start one thread, the game's.  With two,    *)
(* one may look for the other while the main thread stops it, and both     *)
(* theorems below are false.                                               *)
OneWorker == \A w, x \in Workers : w = x

(* The loop that GetMessageLoop found is still there. *)
UseInv == \A t \in Threads : pc[t] = "deref" => alive[call[t].to] = call[t].message_loop

(* A thread whose loop is about to be made or deleted, or that is about to *)
(* enter or leave the map, is looked for by no other.                      *)
LEMMA NobodyLooks ==
  ASSUME OneWorker, IInv, NEW t \in Threads, NEW u \in Threads, t # u, pc[t] \in Posting
  PROVE  pc[u] \notin {"enter", "register"} \cup Ending
<1> USE ThreadSets DEF Posting, Ending
<1>1. CASE u = Main
  <2>1. t \in Workers /\ pc[t] # "off"
    BY <1>1 DEF Threads
  <2> QED BY <1>1, <2>1 DEF IInv, MainInv
<1>2. CASE u \in Workers /\ t = Main
  BY <1>2 DEF IInv, WorkerInv, WorkerOf, Starting, Waiting, Joining
<1> QED BY <1>1, <1>2 DEF OneWorker, Threads

LEMMA UseInvStep == ASSUME OneWorker, IInv, UseInv, Next PROVE UseInv'
<1> SUFFICES ASSUME NEW t \in Threads, pc'[t] = "deref"
             PROVE  alive'[call'[t].to] = call'[t].message_loop
  BY DEF UseInv
<1>0. PcOK /\ CallInv /\ LoopInv /\ call \in [Threads -> Call] /\ alive \in [Threads -> 0..MaxStarts]
  BY TypeParts DEF IInv, CallOK, LoopsOK
<1>1. CASE Lookup(t)
  <2>1. PICK u \in Threads : u = call[t].to
    BY <1>0 DEF Call
  <2>2. call[t].back \in Inside
    BY <1>0, <1>1 DEF Lookup, CallInv, Calling, Posting
  <2>3. u \in threads_ /\ call' = [call EXCEPT ![t].message_loop = message_loop_[u]]
    BY <1>0, <1>1, <2>1, <2>2 DEF Lookup, CallReturns, GoTo, PcOK, Inside
  <2>4. call'[t].to = u /\ call'[t].message_loop = message_loop_[u]
    BY <1>0, <2>1, <2>3 DEF Call
  <2>5. alive[u] = message_loop_[u]
    BY <1>0, <2>3 DEF LoopInv, Mapped, Loopless, Inside, Posting
  <2> QED BY <1>1, <2>4, <2>5 DEF Lookup, loop
<1>2. CASE ~Lookup(t)
  <2>1. pc[t] = "deref" /\ call'[t] = call[t]
    <3> USE ThreadSets DEF PcOK, GoTo, Inside
    <3>1. ASSUME NEW x \in Threads, ThreadStep(x) \/ RunDelayedTask(x)
          PROVE  pc[t] = "deref" /\ call'[t] = call[t]
      <4>1. CASE Lookup(x) \/ PostTaskHelper(x)
        <5>1. call[x].back \in Inside
          BY <1>0, <4>1 DEF Lookup, PostTaskHelper, CallInv, Calling, Posting
        <5>2. CASE Lookup(x)
          BY <1>0, <1>2, <5>1, <5>2 DEF Lookup, CallReturns
        <5>3. CASE PostTaskHelper(x)
          BY <1>0, <1>2, <5>1, <5>3 DEF PostTaskHelper, CallReturns
        <5> QED BY <4>1, <5>2, <5>3
      <4>2. CASE ~Lookup(x) /\ ~PostTaskHelper(x)
        BY <1>0, <3>1, <4>2 DEF ThreadStep, MakeLoop, RegisterThread, SignalStarted, RunTask,
           RunDelayedTask, TaskReturn, LeaveLoop, UnregisterThread, DeleteLoop, NullLoop, Deref
      <4> QED BY <4>1, <4>2
    <3>2. ASSUME NEW x \in Threads, NEW u \in Threads, NEW wait \in BOOLEAN, Post(x, u, wait)
          PROVE  pc[t] = "deref" /\ call'[t] = call[t]
      BY <1>0, <3>2 DEF Post
    <3>3. ASSUME NEW w \in Workers, Start(w) \/ Stop(w)
          PROVE  pc[t] = "deref" /\ call'[t] = call[t]
      BY <1>0, <3>3 DEF Start, Stop
    <3>4. CASE StartReturns \/ StopReturns
      <4>1. call[Main].back \in Inside
        BY <1>0, <3>4 DEF StartReturns, StopReturns, CallInv, Calling
      <4> QED BY <1>0, <3>4, <4>1 DEF StartReturns, StopReturns, CallReturns
    <3>5. CASE WindowMessage \/ OnClose \/ PostQuitMessage
      BY <1>0, <3>5 DEF WindowMessage, OnClose, PostQuitMessage
    <3> QED BY <3>1, <3>2, <3>3, <3>4, <3>5 DEF Next
  <2>2. PICK u \in Threads : u = call[t].to
    BY <1>0 DEF Call
  <2>3. pc[u] # "enter" /\ pc[u] # "delete"
    BY <2>1, NobodyLooks DEF Posting, Ending
  <2>4. alive'[u] = alive[u]
    <3>1. ASSUME NEW x \in Threads, MakeLoop(x) \/ DeleteLoop(x) PROVE alive'[u] = alive[u]
      BY <1>0, <2>3, <3>1 DEF MakeLoop, DeleteLoop
    <3> QED
      BY <3>1 DEF Next, ThreadStep, RegisterThread, SignalStarted, RunTask, RunDelayedTask, TaskReturn,
         LeaveLoop, UnregisterThread, NullLoop, Lookup, Deref, PostTaskHelper, Post, Start, Stop,
         StartReturns, StopReturns, WindowMessage, OnClose, PostQuitMessage, loop
  <2> QED BY <2>1, <2>2, <2>4 DEF UseInv
<1> QED BY <1>1, <1>2

(* No loop is used once it was deleted, neither by GetMessageLoop nor by   *)
(* StopSoon.                                                               *)
THEOREM LoopsAreNotUsedOnceDeleted == ASSUME OneWorker PROVE Spec => []NoUseAfterDelete
<1>1. Init => UseInv
  BY DEF Init, UseInv
<1>2. IInv /\ UseInv /\ [Next]_vars => UseInv'
  <2>1. UseInv /\ UNCHANGED vars => UseInv'
    BY DEF UseInv, vars, loop
  <2> QED BY <2>1, UseInvStep
<1>3. IInv /\ UseInv => NoUseAfterDelete
  BY StopFindsLoop DEF UseInv, NoUseAfterDelete
<1> QED BY <1>1, <1>2, <1>3, Inductive, PTL DEF Spec

(* Nobody looks into the ThreadMap, which has no lock, while another       *)
(* thread is about to change it.                                           *)
THEOREM MapIsNotRaced == ASSUME OneWorker PROVE Spec => []NoMapRace
<1>1. IInv => NoMapRace
  BY NobodyLooks DEF NoMapRace, Posting, Ending
<1> QED BY <1>1, Inductive, PTL
=============================================================================
