-------------------------- MODULE MessageLoopProofs --------------------------
(* Theorems of the message loop, for any posters, bounds and delays. *)
EXTENDS MessageLoop, SequenceTheorems, TLAPS

(* The helpers that move the thread keep the types they touch. *)
LEMMA GoToType ==
  ASSUME TypeOK, run_depth > 0, NEW p \in PCs, NEW worked \in BOOLEAN, GoTo(p, worked)
  PROVE  /\ run_depth' = run_depth /\ quit_received' = quit_received
         /\ permitted' = permitted /\ promised' = promised
         /\ pc' \in [Frames -> PCs] /\ did_work' \in [Frames -> BOOLEAN]
BY DEF TypeOK, GoTo

LEMMA LeaveRunType ==
  ASSUME TypeOK, run_depth > 0, LeaveRun
  PROVE  /\ should_quit_' \in BOOLEAN /\ run_depth' \in 0..MaxDepth
         /\ pc' \in [Frames -> PCs] /\ did_work' \in [Frames -> BOOLEAN]
         /\ quit_received' \in [Frames -> BOOLEAN] /\ task' \in [Frames -> Task]
         /\ permitted' \in [Frames -> BOOLEAN] /\ promised' \in [Frames -> SUBSET Nat]
<1>1. NoTask \in Task
  BY DEF NoTask, Task, Null
<1>2. "off" \in PCs
  BY DEF PCs
<1>3. run_depth' \in 0..MaxDepth
  BY DepthAssumption DEF TypeOK, LeaveRun
<1>4. should_quit_' \in BOOLEAN
  BY DEF LeaveRun
<1> QED BY <1>1, <1>2, <1>3, <1>4 DEF TypeOK, LeaveRun

LEMMA RunTaskType ==
  ASSUME TypeOK, run_depth > 0, NEW t \in Task, NEW from \in Running, RunTask(t, from)
  PROVE  /\ nestable_tasks_allowed_' \in BOOLEAN
         /\ run_depth' = run_depth /\ quit_received' = quit_received
         /\ permitted' = permitted /\ promised' = promised
         /\ pc' \in [Frames -> PCs] /\ did_work' \in [Frames -> BOOLEAN]
         /\ task' \in [Frames -> Task]
<1>1. run_depth \in Frames
  BY DEF TypeOK, Frames
<1>2. did_work[run_depth] \in BOOLEAN /\ from \in PCs
  BY <1>1 DEF TypeOK, PCs
<1>3. GoTo(from, did_work[run_depth])
  BY DEF RunTask
<1>4. /\ run_depth' = run_depth /\ quit_received' = quit_received
      /\ permitted' = permitted /\ promised' = promised
      /\ pc' \in [Frames -> PCs] /\ did_work' \in [Frames -> BOOLEAN]
  BY <1>2, <1>3, GoToType
<1>5. nestable_tasks_allowed_' \in BOOLEAN /\ task' \in [Frames -> Task]
  BY DEF TypeOK, RunTask
<1> QED BY <1>4, <1>5

(* What Push leaves of the types: NewTasks are tasks, ids stay bounded. *)
LEMMA PushType ==
  ASSUME TypeOK, Push
  PROVE  incoming_queue_' \in Seq(Task) /\ posted' \in 0..MaxPosts
<1>1. RunTimes \subseteq Nat
  BY TimeAssumption, DelayAssumption DEF TypeOK, RunTimes, Null
<1>2. NewTasks \subseteq Task
  <2>1. posted + 1 \in Nat
    BY PostsAssumption DEF TypeOK
  <2>2. {t \in RunTimes : t <= MaxTime} \subseteq Nat
    BY <1>1
  <2> QED BY <2>1, <2>2 DEF NewTasks, Task
<1>3. posted' \in 0..MaxPosts
  BY PostsAssumption DEF TypeOK, Push
<1>4. PICK t \in NewTasks : incoming_queue_' = Append(incoming_queue_, t)
  BY DEF Push
<1> QED BY <1>2, <1>3, <1>4 DEF TypeOK

LEMMA AfterDelayedType ==
  ASSUME TypeOK, run_depth > 0, NEW worked \in BOOLEAN, AfterDelayed(worked)
  PROVE  /\ run_depth' = run_depth /\ quit_received' = quit_received
         /\ permitted' = permitted /\ promised' = promised
         /\ pc' \in [Frames -> PCs] /\ did_work' \in [Frames -> BOOLEAN]
<1>1. "work" \in PCs /\ "idle" \in PCs
  BY DEF PCs
<1> QED BY <1>1, GoToType DEF AfterDelayed

LEMMA InitType == Init => TypeOK
<1> SUFFICES ASSUME Init PROVE TypeOK
  OBVIOUS
<1>1. NoTask \in Task /\ "off" \in PCs
  BY DEF NoTask, Task, Null, PCs
<1>2. /\ run_depth \in 0..MaxDepth /\ now \in 1..MaxTime /\ posted \in 0..MaxPosts
      /\ next_delayed_task_sequence_num_ \in Nat /\ recent_tick_ \in Nat
      /\ delayed_work_time_ \in Nat
  BY TimeAssumption, PostsAssumption, DepthAssumption DEF Init, Null
<1>3. /\ nestable_tasks_allowed_ \in BOOLEAN /\ event_ \in BOOLEAN
      /\ should_quit_ \in BOOLEAN
  BY DEF Init
<1>4. /\ incoming_queue_ \in Seq(Task) /\ work_queue_ \in Seq(Task)
      /\ deferred_non_nestable_work_queue_ \in Seq(Task)
      /\ delayed_work_queue_ \in SUBSET Task /\ done \in SUBSET Nat
      /\ poster_ \in [Posters -> {"idle", "signal"}]
  BY DEF Init
<1>5. /\ pc \in [Frames -> PCs] /\ task \in [Frames -> Task]
      /\ did_work \in [Frames -> BOOLEAN] /\ quit_received \in [Frames -> BOOLEAN]
      /\ permitted \in [Frames -> BOOLEAN] /\ promised \in [Frames -> SUBSET Nat]
  BY <1>1 DEF Init
<1> QED BY <1>2, <1>3, <1>4, <1>5 DEF TypeOK

LEMMA HeadTailType ==
  ASSUME NEW q \in Seq(Task), q # <<>>
  PROVE  Head(q) \in Task /\ Tail(q) \in Seq(Task)
BY HeadTailProperties

LEMMA PendingType == TypeOK => Pending \subseteq Task
BY ElementOfSeq DEF TypeOK, Pending, Elements

LEMMA DueType == TypeOK => \A d : Due(d) \in SUBSET Nat
BY PendingType DEF Due, Task

LEMMA StepType == TypeOK /\ [Next]_vars => TypeOK'
<1> SUFFICES ASSUME TypeOK, [Next]_vars PROVE TypeOK'
  OBVIOUS
<1> USE DEF queues, pump, stack
<1>1. ASSUME NEW p \in Posters, Post(p) PROVE TypeOK'
  BY <1>1, PushType DEF TypeOK, Post
<1>2. ASSUME NEW p \in Posters, ScheduleWork(p) PROVE TypeOK'
  BY <1>2 DEF TypeOK, ScheduleWork
<1>3. ASSUME NEW all \in BOOLEAN, Run(all) PROVE TypeOK'
  <2>1. run_depth' \in 0..MaxDepth
    BY <1>3, DepthAssumption DEF TypeOK, Run
  <2>2. pc' \in [Frames -> PCs]
    BY <1>3 DEF TypeOK, Run, PCs
  <2>3. quit_received' \in [Frames -> BOOLEAN] /\ permitted' \in [Frames -> BOOLEAN]
    BY <1>3 DEF TypeOK, Run
  <2>4. promised' \in [Frames -> SUBSET Nat]
    BY <1>3, DueType DEF TypeOK, Run
  <2> QED BY <1>3, <2>1, <2>2, <2>3, <2>4 DEF TypeOK, Run
<1>4. CASE DoWorkNone
  BY <1>4, GoToType DEF TypeOK, DoWorkNone, At, PCs
<1>5. CASE ReloadWorkQueue
  BY <1>5 DEF TypeOK, ReloadWorkQueue
<1>6. CASE AddToDelayedWorkQueue
  <2> DEFINE t == Head(work_queue_)
             new_task == [t EXCEPT !.sequence_num = next_delayed_task_sequence_num_]
  <2>1. t \in Task /\ work_queue_' \in Seq(Task)
    BY <1>6, HeadTailType DEF TypeOK, AddToDelayedWorkQueue, Pop
  <2>2. new_task \in Task /\ next_delayed_task_sequence_num_' \in Nat
    <3>1. next_delayed_task_sequence_num_ \in Nat
      BY DEF TypeOK
    <3>2. next_delayed_task_sequence_num_' \in Nat
      BY <1>6, <3>1 DEF AddToDelayedWorkQueue
    <3>3. new_task \in Task
      BY <2>1, <3>1 DEF Task
    <3> QED BY <3>2, <3>3
  <2>3. delayed_work_queue_' \in SUBSET Task
    BY <1>6, <2>2 DEF TypeOK, AddToDelayedWorkQueue
  <2>4. t.delayed_run_time \in Nat
    BY <2>1 DEF Task
  <2>5. delayed_work_time_' \in Nat
    BY <1>6, <2>4 DEF TypeOK, AddToDelayedWorkQueue
  <2> QED BY <1>6, <2>1, <2>2, <2>3, <2>5 DEF TypeOK, AddToDelayedWorkQueue
<1>7. CASE DoWorkRun
  BY <1>7, HeadTailType, RunTaskType DEF TypeOK, DoWorkRun, Pop, At, Running
<1>8. CASE DoWorkDefer
  BY <1>8, HeadTailType DEF TypeOK, DoWorkDefer, Pop
<1>9. CASE DoDelayedWorkNone
  BY <1>9, AfterDelayedType DEF TypeOK, DoDelayedWorkNone, At, Null
<1>10. CASE DoDelayedWorkLater
  <2>1. run_depth > 0
    BY <1>10 DEF DoDelayedWorkLater, At
  <2>2. recent_tick_' \in Nat /\ delayed_work_time_' \in Nat
    BY <1>10, TimeAssumption DEF TypeOK, DoDelayedWorkLater, Task
  <2>3. /\ run_depth' = run_depth /\ quit_received' = quit_received
        /\ permitted' = permitted /\ promised' = promised
        /\ pc' \in [Frames -> PCs] /\ did_work' \in [Frames -> BOOLEAN]
    BY <1>10, <2>1, AfterDelayedType DEF DoDelayedWorkLater
  <2> QED BY <1>10, <2>2, <2>3 DEF TypeOK, DoDelayedWorkLater
<1>11. CASE DoDelayedWorkDue
  <2> USE <1>11
  <2>1. run_depth > 0 /\ recent_tick_' \in Nat /\ delayed_work_queue_' \in SUBSET Task
    BY TimeAssumption DEF DoDelayedWorkDue, At, TypeOK
  <2>2. delayed_work_time_' \in Nat
    BY <2>1 DEF DoDelayedWorkDue, TypeOK, IsTop, Task
  <2>3. PICK t \in Task :
          \/ /\ RunTask(t, "run_delayed")
             /\ UNCHANGED deferred_non_nestable_work_queue_
          \/ /\ deferred_non_nestable_work_queue_' =
                   Append(deferred_non_nestable_work_queue_, t)
             /\ AfterDelayed(FALSE)
             /\ UNCHANGED <<nestable_tasks_allowed_, task>>
    BY DEF DoDelayedWorkDue, TypeOK
  <2>4. /\ deferred_non_nestable_work_queue_' \in Seq(Task)
        /\ task' \in [Frames -> Task] /\ nestable_tasks_allowed_' \in BOOLEAN
        /\ run_depth' = run_depth /\ quit_received' = quit_received
        /\ permitted' = permitted /\ promised' = promised
        /\ pc' \in [Frames -> PCs] /\ did_work' \in [Frames -> BOOLEAN]
    <3>1. CASE RunTask(t, "run_delayed") /\ UNCHANGED deferred_non_nestable_work_queue_
      <4>1. "run_delayed" \in Running
        BY DEF Running
      <4>2. deferred_non_nestable_work_queue_' \in Seq(Task)
        BY <3>1 DEF TypeOK
      <4> QED BY <2>1, <3>1, <4>1, <4>2, RunTaskType
    <3>2. CASE /\ deferred_non_nestable_work_queue_' =
                    Append(deferred_non_nestable_work_queue_, t)
               /\ AfterDelayed(FALSE)
               /\ UNCHANGED <<nestable_tasks_allowed_, task>>
      <4>1. deferred_non_nestable_work_queue_' \in Seq(Task)
        BY <3>2 DEF TypeOK
      <4>2. task' \in [Frames -> Task] /\ nestable_tasks_allowed_' \in BOOLEAN
        BY <3>2 DEF TypeOK
      <4> QED BY <2>1, <3>2, <4>1, <4>2, AfterDelayedType
    <3> QED BY <2>3, <3>1, <3>2
  <2> QED BY <2>1, <2>2, <2>4 DEF TypeOK, DoDelayedWorkDue
<1>12. CASE DoIdleWorkRun
  BY <1>12, HeadTailType, RunTaskType DEF TypeOK, DoIdleWorkRun, At, Running
<1>13. CASE DoIdleWorkNone
  <2>1. run_depth > 0
    BY <1>13 DEF DoIdleWorkNone, At
  <2>2. CASE LeaveRun
    BY <1>13, <2>1, <2>2, LeaveRunType DEF TypeOK, DoIdleWorkNone
  <2>3. CASE GoTo("wait", FALSE) /\ UNCHANGED <<should_quit_, task>>
    BY <1>13, <2>1, <2>3, GoToType DEF TypeOK, DoIdleWorkNone, PCs
  <2> QED BY <1>13, <2>2, <2>3 DEF DoIdleWorkNone
<1>14. CASE Wait
  <2>0. run_depth > 0
    BY <1>14 DEF Wait, At
  <2>1. delayed_work_time_' \in Nat
    <3>1. delayed_work_time_' = delayed_work_time_ \/ delayed_work_time_' = Null
      BY <1>14 DEF Wait
    <3> QED BY <3>1 DEF TypeOK, Null
  <2>2. GoTo("blocked", FALSE) \/ GoTo("timed", FALSE) \/ GoTo("work", FALSE)
    BY <1>14 DEF Wait
  <2>3. "blocked" \in PCs /\ "timed" \in PCs /\ "work" \in PCs
    BY DEF PCs, Waiting
  <2>4. /\ run_depth' = run_depth /\ quit_received' = quit_received
        /\ permitted' = permitted /\ promised' = promised
        /\ pc' \in [Frames -> PCs] /\ did_work' \in [Frames -> BOOLEAN]
    BY <2>0, <2>2, <2>3, GoToType
  <2> QED BY <1>14, <2>1, <2>4 DEF TypeOK, Wait
<1>15. CASE Wakeup
  BY <1>15, GoToType DEF TypeOK, Wakeup, At, PCs
<1>16. CASE Timeout
  BY <1>16, GoToType DEF TypeOK, Timeout, At, PCs
<1>17. CASE TaskPost
  BY <1>17, PushType DEF TypeOK, TaskPost
<1>18. CASE Quit
  BY <1>18, DueType DEF TypeOK, Quit
<1>19. CASE QuitNow
  BY <1>19 DEF TypeOK, QuitNow
<1>20. ASSUME NEW allowed \in BOOLEAN, SetNestableTasksAllowed(allowed) PROVE TypeOK'
  BY <1>20 DEF TypeOK, SetNestableTasksAllowed
<1>21. CASE TaskReturn
  <2>1. run_depth > 0 /\ run_depth \in Frames
    BY <1>21 DEF TaskReturn, InTask, TypeOK, Frames
  <2>2. done' \in SUBSET Nat
    <3>1. task[run_depth].id \in Nat
      BY <2>1 DEF TypeOK, Task
    <3> QED BY <1>21, <3>1 DEF TaskReturn, TypeOK
  <2>3. nestable_tasks_allowed_' \in BOOLEAN
    BY <1>21 DEF TaskReturn
  <2>4. CASE LeaveRun
    BY <1>21, <2>1, <2>2, <2>3, <2>4, LeaveRunType DEF TypeOK, TaskReturn
  <2>5. CASE /\ task' = [task EXCEPT ![run_depth] = NoTask]
             /\ GoTo("delayed", TRUE) \/ GoTo("work", FALSE)
             /\ UNCHANGED should_quit_
    <3>1. NoTask \in Task /\ "delayed" \in PCs /\ "work" \in PCs
      BY DEF NoTask, Task, Null, PCs
    <3>2. /\ run_depth' = run_depth /\ quit_received' = quit_received
          /\ permitted' = permitted /\ promised' = promised
          /\ pc' \in [Frames -> PCs] /\ did_work' \in [Frames -> BOOLEAN]
      BY <2>1, <2>5, <3>1, GoToType
    <3> QED BY <1>21, <2>2, <2>3, <2>5, <3>1, <3>2 DEF TypeOK, TaskReturn
  <2> QED BY <1>21, <2>4, <2>5 DEF TaskReturn
<1>22. CASE Tick
  BY <1>22, TimeAssumption DEF TypeOK, Tick
<1>23. CASE UNCHANGED vars
  BY <1>23 DEF TypeOK, vars
<1> QED
  BY <1>1, <1>2, <1>3, <1>4, <1>5, <1>6, <1>7, <1>8, <1>9, <1>10, <1>11, <1>12, <1>13,
     <1>14, <1>15, <1>16, <1>17, <1>18, <1>19, <1>20, <1>21, <1>22, <1>23
  DEF Next, LoopStep, TaskStep

-----------------------------------------------------------------------------
(* The stack: how the helpers move the thread. *)

LEMMA TopFrame == TypeOK /\ run_depth > 0 => run_depth \in Frames
BY DEF TypeOK, Frames

LEMMA GoToMove ==
  ASSUME TypeOK, run_depth > 0, NEW p, NEW worked, GoTo(p, worked)
  PROVE  /\ run_depth' = run_depth /\ permitted' = permitted
         /\ pc'[run_depth] = p /\ did_work'[run_depth] = worked
         /\ \A d \in Frames : d # run_depth => pc'[d] = pc[d]
BY TopFrame DEF TypeOK, GoTo

LEMMA AfterDelayedMove ==
  ASSUME TypeOK, run_depth > 0, AfterDelayed(FALSE)
  PROVE  /\ run_depth' = run_depth /\ permitted' = permitted
         /\ pc'[run_depth] = "work" \/ (pc'[run_depth] = "idle" /\ ~did_work[run_depth])
         /\ \A d \in Frames : d # run_depth => pc'[d] = pc[d]
<1> DEFINE p == IF did_work[run_depth] \/ FALSE THEN "work" ELSE "idle"
<1>1. GoTo(p, FALSE)
  BY DEF AfterDelayed
<1>2. p = "work" \/ (p = "idle" /\ ~did_work[run_depth])
  OBVIOUS
<1> HIDE DEF p
<1> QED BY <1>1, <1>2, GoToMove

LEMMA RunTaskMove ==
  ASSUME TypeOK, run_depth > 0, NEW t, NEW from \in Running, RunTask(t, from)
  PROVE  /\ run_depth' = run_depth /\ permitted' = permitted
         /\ pc'[run_depth] \in Running /\ task'[run_depth] = t
         /\ \A d \in Frames : d # run_depth => pc'[d] = pc[d] /\ task'[d] = task[d]
         /\ nestable_tasks_allowed_' = FALSE
BY TopFrame, GoToMove DEF TypeOK, RunTask

LEMMA LeaveRunMove ==
  ASSUME TypeOK, run_depth > 0, LeaveRun
  PROVE  /\ run_depth' = run_depth - 1
         /\ pc'[run_depth] = "off" /\ task'[run_depth] = NoTask
         /\ \A d \in Frames : d # run_depth =>
              pc'[d] = pc[d] /\ task'[d] = task[d] /\ permitted'[d] = permitted[d]
BY TopFrame DEF TypeOK, LeaveRun

(***************************************************************************)
(* Every step of the loop's thread either stays in the top frame (and      *)
(* changes no other), or enters a frame, or leaves one.                    *)
(***************************************************************************)
Stays  == /\ run_depth > 0 /\ run_depth' = run_depth
          /\ \A d \in Frames : d # run_depth => pc'[d] = pc[d]
Enters == /\ run_depth' = run_depth + 1 /\ (run_depth = 0 \/ InTask)
          /\ pc'[run_depth'] = "work"
          /\ \A d \in Frames : d # run_depth' => pc'[d] = pc[d]
Leaves == /\ run_depth > 0 /\ run_depth' = run_depth - 1 /\ pc'[run_depth] = "off"
          /\ \A d \in Frames : d # run_depth => pc'[d] = pc[d]

LEMMA MoveStep ==
  ASSUME TypeOK, [Next]_vars
  PROVE  Stays \/ Enters \/ Leaves \/ UNCHANGED <<run_depth, pc>>
<1> USE DEF queues, pump, stack
<1> DEFINE Goal == Stays \/ Enters \/ Leaves \/ UNCHANGED <<run_depth, pc>>
<1>1. ASSUME NEW p \in Posters, Post(p) \/ ScheduleWork(p) PROVE Goal
  BY <1>1 DEF Post, ScheduleWork
<1>2. ASSUME NEW all \in BOOLEAN, Run(all) PROVE Goal
  BY <1>2, DepthAssumption DEF Run, Enters, TypeOK, Frames
<1>3. CASE ReloadWorkQueue \/ AddToDelayedWorkQueue \/ DoWorkDefer
  BY <1>3 DEF ReloadWorkQueue, AddToDelayedWorkQueue, DoWorkDefer
<1>4. CASE DoWorkNone \/ Wakeup \/ Timeout
  BY <1>4, GoToMove DEF DoWorkNone, Wakeup, Timeout, At, Stays
<1>5. CASE Wait
  BY <1>5, GoToMove DEF Wait, At, Stays
<1>6. CASE DoWorkRun
  BY <1>6, RunTaskMove DEF DoWorkRun, Pop, At, Stays, Running
<1>7. CASE DoIdleWorkRun
  BY <1>7, RunTaskMove DEF DoIdleWorkRun, At, Stays, Running
<1>8. CASE DoDelayedWorkNone
  BY <1>8, AfterDelayedMove DEF DoDelayedWorkNone, At, Stays
<1>9. CASE DoDelayedWorkLater
  BY <1>9, AfterDelayedMove DEF DoDelayedWorkLater, At, Stays
<1>10. CASE DoDelayedWorkDue
  <2>1. run_depth > 0
    BY <1>10 DEF DoDelayedWorkDue, At
  <2>2. (\E t : RunTask(t, "run_delayed")) \/ AfterDelayed(FALSE)
    BY <1>10 DEF DoDelayedWorkDue
  <2>3. "run_delayed" \in Running
    BY DEF Running
  <2> QED BY <2>1, <2>2, <2>3, RunTaskMove, AfterDelayedMove DEF Stays
<1>11. CASE DoIdleWorkNone
  BY <1>11, LeaveRunMove, GoToMove DEF DoIdleWorkNone, At, Stays, Leaves
<1>12. CASE TaskPost \/ Quit \/ QuitNow
  BY <1>12 DEF TaskPost, Quit, QuitNow
<1>13. ASSUME NEW allowed \in BOOLEAN, SetNestableTasksAllowed(allowed) PROVE Goal
  BY <1>13 DEF SetNestableTasksAllowed
<1>14. CASE TaskReturn
  <2>1. run_depth > 0
    BY <1>14 DEF TaskReturn, InTask
  <2>2. LeaveRun \/ GoTo("delayed", TRUE) \/ GoTo("work", FALSE)
    BY <1>14 DEF TaskReturn
  <2> QED BY <2>1, <2>2, LeaveRunMove, GoToMove DEF Stays, Leaves
<1>15. CASE Tick \/ UNCHANGED vars
  BY <1>15 DEF Tick, vars
<1> QED
  BY <1>1, <1>2, <1>3, <1>4, <1>5, <1>6, <1>7, <1>8, <1>9, <1>10, <1>11, <1>12, <1>13,
     <1>14, <1>15
  DEF Next, LoopStep, TaskStep

LEMMA StackStep == TypeOK /\ StackInv /\ [Next]_vars => StackInv'
<1> SUFFICES ASSUME TypeOK, StackInv, [Next]_vars PROVE StackInv'
  OBVIOUS
<1>1. run_depth \in 0..MaxDepth
  BY DEF TypeOK
<1>2. CASE Stays
  BY <1>1, <1>2 DEF Stays, StackInv, Frames
<1>3. CASE Enters
  BY <1>1, <1>3 DEF Enters, StackInv, Frames, InTask
<1>4. CASE Leaves
  BY <1>1, <1>4 DEF Leaves, StackInv, Frames
<1>5. CASE UNCHANGED <<run_depth, pc>>
  BY <1>5 DEF StackInv
<1> QED BY <1>2, <1>3, <1>4, <1>5, MoveStep

(* After entering or leaving a frame the thread is not about to wait: it   *)
(* is at the start of DoWork, or inside the task that called Run.          *)
LEMMA FreshFrame ==
  ASSUME TypeOK, StackInv, Enters \/ Leaves
  PROVE  ~Drained' /\ ~Asleep'
<1>1. run_depth \in 0..MaxDepth
  BY DEF TypeOK
<1>2. CASE Enters
  BY <1>2 DEF Enters, Drained, Asleep, At
<1>3. CASE Leaves
  <2>1. CASE run_depth = 1
    BY <1>3, <2>1 DEF Leaves, Drained, Asleep, At
  <2>2. CASE run_depth > 1
    <3>1. pc'[run_depth'] \in Running
      <4>1. run_depth' \in Frames /\ run_depth' < run_depth /\ run_depth' # run_depth
        BY <1>1, <1>3, <2>2, DepthAssumption DEF Leaves, Frames
      <4>2. pc'[run_depth'] = pc[run_depth']
        BY <1>3, <4>1 DEF Leaves
      <4> QED BY <4>1, <4>2 DEF StackInv
    <3> QED BY <3>1 DEF Drained, Asleep, At, Running
  <2> QED BY <1>1, <1>3, <2>1, <2>2 DEF Leaves
<1> QED BY <1>2, <1>3

-----------------------------------------------------------------------------
(* NoStrandedWork *)

LEMMA DrainedStep == TypeOK /\ StackInv /\ DrainedInv /\ [Next]_vars => DrainedInv'
<1> SUFFICES ASSUME TypeOK, StackInv, DrainedInv, [Next]_vars,
                    Drained', nestable_tasks_allowed_'
             PROVE  work_queue_' = <<>> /\ (incoming_queue_' = <<>> \/ SignalDue')
  BY DEF DrainedInv
<1> USE DEF queues, pump, stack
<1> DEFINE Goal == work_queue_' = <<>> /\ (incoming_queue_' = <<>> \/ SignalDue')
<1>1. ASSUME NEW p \in Posters, Post(p) PROVE Goal
  <2>1. Drained /\ nestable_tasks_allowed_
    BY <1>1 DEF Post, Drained, Asleep, At
  <2>2. work_queue_' = <<>>
    BY <1>1, <2>1 DEF Post, DrainedInv
  <2>3. CASE incoming_queue_ = <<>>
    <3>1. poster_'[p] = "signal"
      BY <1>1, <2>3 DEF Post, TypeOK
    <3> QED BY <2>2, <3>1 DEF SignalDue
  <2>4. CASE incoming_queue_ # <<>>
    <3>1. SignalDue
      BY <2>1, <2>4 DEF DrainedInv
    <3>2. SignalDue'
      BY <1>1, <3>1 DEF Post, TypeOK, SignalDue
    <3> QED BY <2>2, <3>2
  <2> QED BY <2>3, <2>4
<1>2. ASSUME NEW p \in Posters, ScheduleWork(p) PROVE Goal
  <2>1. Drained /\ nestable_tasks_allowed_
    BY <1>2 DEF ScheduleWork, Drained, Asleep, At
  <2> QED BY <1>2, <2>1 DEF ScheduleWork, DrainedInv, SignalDue
<1>3. CASE Enters \/ Leaves
  BY <1>3, FreshFrame
<1>4. ASSUME NEW all \in BOOLEAN, Run(all) PROVE Goal
  BY <1>4, <1>3, MoveStep, DepthAssumption DEF Run, Enters, Frames, TypeOK
<1>5. CASE ReloadWorkQueue \/ AddToDelayedWorkQueue \/ DoWorkDefer
  BY <1>5 DEF ReloadWorkQueue, AddToDelayedWorkQueue, DoWorkDefer, Pop, Drained, Asleep, At
<1>6. CASE DoWorkNone
  BY <1>6 DEF DoWorkNone
<1>7. CASE DoWorkRun \/ DoIdleWorkRun
  BY <1>7 DEF DoWorkRun, DoIdleWorkRun, RunTask
<1>8. CASE Wakeup \/ Timeout
  <2>1. run_depth > 0 /\ GoTo("work", FALSE)
    BY <1>8 DEF Wakeup, Timeout, At
  <2>2. At("work")'
    BY <2>1, GoToMove DEF At
  <2> QED BY <2>2 DEF Drained, Asleep, At
<1>9. CASE DoDelayedWorkNone \/ DoDelayedWorkLater \/ DoDelayedWorkDue
  <2>1. run_depth > 0 /\ At("delayed")
    BY <1>9 DEF DoDelayedWorkNone, DoDelayedWorkLater, DoDelayedWorkDue, At
  <2>2. AfterDelayed(FALSE) /\ UNCHANGED nestable_tasks_allowed_
    BY <1>9 DEF DoDelayedWorkNone, DoDelayedWorkLater, DoDelayedWorkDue, RunTask
  <2>3. ~did_work[run_depth]
    BY <2>1, <2>2, AfterDelayedMove DEF Drained, Asleep, At
  <2>4. Drained /\ nestable_tasks_allowed_
    BY <2>1, <2>2, <2>3 DEF Drained
  <2> QED BY <1>9, <2>4
    DEF DrainedInv, SignalDue, DoDelayedWorkNone, DoDelayedWorkLater, DoDelayedWorkDue
<1>10. CASE DoIdleWorkNone
  <2>1. Drained /\ nestable_tasks_allowed_
    BY <1>10 DEF DoIdleWorkNone, Drained
  <2> QED BY <1>10, <2>1 DEF DrainedInv, SignalDue, DoIdleWorkNone
<1>11. CASE Wait
  <2>1. Drained /\ nestable_tasks_allowed_
    BY <1>11 DEF Wait, Drained, Asleep
  <2> QED BY <1>11, <2>1 DEF DrainedInv, SignalDue, Wait
<1>12. CASE TaskPost \/ Quit \/ QuitNow
  BY <1>12 DEF TaskPost, Quit, QuitNow, InTask, Running, Drained, Asleep, At
<1>13. ASSUME NEW allowed \in BOOLEAN, SetNestableTasksAllowed(allowed) PROVE Goal
  BY <1>13 DEF SetNestableTasksAllowed, InTask, Running, Drained, Asleep, At
<1>14. CASE TaskReturn
  <2>1. run_depth > 0
    BY <1>14 DEF TaskReturn, InTask
  <2>2. CASE LeaveRun
    BY <1>3, <2>1, <2>2, LeaveRunMove DEF Leaves
  <2>3. CASE GoTo("delayed", TRUE)
    <3>1. At("delayed")' /\ did_work'[run_depth'] = TRUE
      BY <2>1, <2>3, GoToMove DEF At
    <3> QED BY <3>1 DEF Drained, Asleep, At
  <2>4. CASE GoTo("work", FALSE)
    <3>1. At("work")'
      BY <2>1, <2>4, GoToMove DEF At
    <3> QED BY <3>1 DEF Drained, Asleep, At
  <2> QED BY <1>14, <2>2, <2>3, <2>4 DEF TaskReturn
<1>15. CASE Tick \/ UNCHANGED vars
  <2>1. Drained /\ nestable_tasks_allowed_
    BY <1>15 DEF Tick, vars, Drained, Asleep, At
  <2> QED BY <1>15, <2>1 DEF DrainedInv, SignalDue, Tick, vars
<1> QED
  BY <1>1, <1>2, <1>4, <1>5, <1>6, <1>7, <1>8, <1>9, <1>10, <1>11, <1>12, <1>13,
     <1>14, <1>15
  DEF Next, LoopStep, TaskStep

LEMMA DeferredStep == TypeOK /\ StackInv /\ DeferredInv /\ [Next]_vars => DeferredInv'
<1> SUFFICES ASSUME TypeOK, StackInv, DeferredInv, [Next]_vars, run_depth' = 1, Asleep'
             PROVE  deferred_non_nestable_work_queue_' = <<>>
  BY DEF DeferredInv
<1> USE DEF queues, pump, stack
<1> DEFINE Goal == deferred_non_nestable_work_queue_' = <<>>
<1>1. CASE /\ UNCHANGED <<run_depth, pc>>
           /\ UNCHANGED deferred_non_nestable_work_queue_ \/ At("work")
  BY <1>1 DEF DeferredInv, Asleep, At
<1>2. CASE Enters \/ Leaves
  BY <1>2, FreshFrame
<1>3. ASSUME run_depth > 0, NEW p, NEW worked, GoTo(p, worked),
             p \in {"work", "delayed", "idle"} \cup Running
      PROVE  Goal
  BY <1>3, GoToMove DEF Asleep, At, Running
<1>4. ASSUME NEW p \in Posters, Post(p) \/ ScheduleWork(p) PROVE Goal
  BY <1>1, <1>4 DEF Post, ScheduleWork
<1>5. ASSUME NEW all \in BOOLEAN, Run(all) PROVE Goal
  BY <1>5, <1>2, DepthAssumption DEF Run, Enters, Frames, TypeOK
<1>6. CASE ReloadWorkQueue \/ AddToDelayedWorkQueue \/ DoWorkDefer
  BY <1>1, <1>6 DEF ReloadWorkQueue, AddToDelayedWorkQueue, DoWorkDefer, Pop
<1>7. CASE DoWorkNone \/ Wakeup \/ Timeout
  BY <1>3, <1>7 DEF DoWorkNone, Wakeup, Timeout, At
<1>8. CASE DoWorkRun \/ DoIdleWorkRun
  BY <1>3, <1>8 DEF DoWorkRun, DoIdleWorkRun, Pop, At, RunTask, Running
<1>9. CASE DoDelayedWorkNone \/ DoDelayedWorkLater \/ DoDelayedWorkDue
  <2>1. run_depth > 0
    BY <1>9 DEF DoDelayedWorkNone, DoDelayedWorkLater, DoDelayedWorkDue, At
  <2>2. AfterDelayed(FALSE) \/ GoTo("run_delayed", did_work[run_depth])
    BY <1>9 DEF DoDelayedWorkNone, DoDelayedWorkLater, DoDelayedWorkDue, RunTask
  <2> QED BY <1>3, <2>1, <2>2 DEF AfterDelayed, Running
<1>10. CASE DoIdleWorkNone
  <2>1. CASE run_depth = 1
    BY <1>10, <2>1 DEF DoIdleWorkNone
  <2>2. CASE run_depth # 1
    <3>1. run_depth > 0
      BY <1>10 DEF DoIdleWorkNone, At
    <3>2. LeaveRun
      BY <1>10, <2>2 DEF DoIdleWorkNone, GoTo
    <3> QED BY <1>2, <3>1, <3>2, LeaveRunMove DEF Leaves
  <2> QED BY <2>1, <2>2
<1>11. CASE Wait
  BY <1>11, GoToMove DEF Wait, DeferredInv, Asleep, At
<1>12. CASE TaskPost \/ Quit \/ QuitNow
  BY <1>1, <1>12 DEF TaskPost, Quit, QuitNow
<1>13. ASSUME NEW allowed \in BOOLEAN, SetNestableTasksAllowed(allowed) PROVE Goal
  BY <1>1, <1>13 DEF SetNestableTasksAllowed
<1>14. CASE TaskReturn
  <2>1. run_depth > 0
    BY <1>14 DEF TaskReturn, InTask
  <2>2. LeaveRun \/ GoTo("delayed", TRUE) \/ GoTo("work", FALSE)
    BY <1>14 DEF TaskReturn
  <2> QED BY <1>2, <1>3, <2>1, <2>2, LeaveRunMove DEF Leaves
<1>15. CASE Tick \/ UNCHANGED vars
  BY <1>1, <1>15 DEF Tick, vars
<1> QED
  BY <1>4, <1>5, <1>6, <1>7, <1>8, <1>9, <1>10, <1>11, <1>12, <1>13, <1>14, <1>15
  DEF Next, LoopStep, TaskStep

-----------------------------------------------------------------------------
(* NoOversleep *)

(* What SleepInv says while the thread is idle or asleep. *)
Timed(t) == /\ delayed_work_time_ # Null /\ delayed_work_time_ <= t.delayed_run_time
            /\ ~At("blocked")

LEMMA SleepStep == TypeOK /\ StackInv /\ SleepInv /\ [Next]_vars => SleepInv'
<1> SUFFICES ASSUME TypeOK, StackInv, SleepInv, [Next]_vars
             PROVE  SleepInv'
  OBVIOUS
<1> USE DEF queues, pump, stack
<1>1. \A t \in delayed_work_queue_' : t.delayed_run_time # Null
  <2>1. CASE delayed_work_queue_' \subseteq delayed_work_queue_
    BY <2>1 DEF SleepInv
  <2>2. CASE AddToDelayedWorkQueue
    <3> DEFINE h == Head(work_queue_)
               new == [h EXCEPT !.sequence_num = next_delayed_task_sequence_num_]
    <3>1. h \in Task
      BY <2>2, HeadTailType DEF TypeOK, AddToDelayedWorkQueue, Pop
    <3>2. new.delayed_run_time = h.delayed_run_time
      BY <3>1 DEF Task
    <3>3. h.delayed_run_time # Null /\ delayed_work_queue_' = delayed_work_queue_ \cup {new}
      BY <2>2 DEF AddToDelayedWorkQueue
    <3> HIDE DEF new, h
    <3> QED BY <3>2, <3>3 DEF SleepInv
  <2>3. AddToDelayedWorkQueue \/ delayed_work_queue_' \subseteq delayed_work_queue_
    BY DEF Next, LoopStep, TaskStep, vars, Post, ScheduleWork, Run, DoWorkNone, ReloadWorkQueue,
           DoWorkRun, DoWorkDefer, DoDelayedWorkNone, DoDelayedWorkLater, DoDelayedWorkDue,
           DoIdleWorkRun, DoIdleWorkNone, Wait, Wakeup, Timeout, TaskPost, Quit, QuitNow,
           SetNestableTasksAllowed, TaskReturn, Tick
  <2> QED BY <2>1, <2>2, <2>3
<1> SUFFICES ASSUME nestable_tasks_allowed_', (At("idle") \/ Asleep)',
                    NEW t \in delayed_work_queue_'
             PROVE  Timed(t)'
  BY <1>1 DEF SleepInv, Timed
<1> DEFINE Goal == Timed(t)'
<1>2. CASE /\ UNCHANGED <<delayed_work_queue_, delayed_work_time_>>
           /\ UNCHANGED <<run_depth, pc, nestable_tasks_allowed_>>
  BY <1>2 DEF SleepInv, Timed, Asleep, At
<1>3. CASE Enters \/ Leaves
  <2>1. ~Drained'
    BY <1>3, FreshFrame
  <2> QED BY <2>1 DEF Drained
<1>4. ASSUME run_depth > 0, NEW p, NEW worked, GoTo(p, worked), p \in {"work", "delayed"} \cup Running
      PROVE  Goal
  BY <1>4, GoToMove DEF Asleep, At, Running
<1>5. ASSUME NEW p \in Posters, Post(p) \/ ScheduleWork(p) PROVE Goal
  BY <1>2, <1>5 DEF Post, ScheduleWork
<1>6. ASSUME NEW all \in BOOLEAN, Run(all) PROVE Goal
  BY <1>6, <1>3, DepthAssumption DEF Run, Enters, Frames, TypeOK
<1>7. CASE ReloadWorkQueue \/ DoWorkDefer
  BY <1>2, <1>7 DEF ReloadWorkQueue, DoWorkDefer
<1>8. CASE AddToDelayedWorkQueue
  BY <1>8 DEF AddToDelayedWorkQueue, Pop, Asleep, At
<1>9. CASE DoWorkNone \/ Wakeup \/ Timeout
  BY <1>4, <1>9 DEF DoWorkNone, Wakeup, Timeout, At
<1>10. CASE DoWorkRun \/ DoIdleWorkRun
  BY <1>10 DEF DoWorkRun, DoIdleWorkRun, RunTask
<1>11. CASE DoDelayedWorkNone
  BY <1>11 DEF DoDelayedWorkNone
<1>12. ASSUME AfterDelayed(FALSE), run_depth > 0 PROVE ~At("blocked")'
  BY <1>12, AfterDelayedMove DEF At
<1>13. CASE DoDelayedWorkLater
  <2>1. PICK u \in delayed_work_queue_ :
          /\ IsTop(u, delayed_work_queue_) /\ u.delayed_run_time > recent_tick_
          /\ delayed_work_time_' = u.delayed_run_time
    BY <1>13 DEF DoDelayedWorkLater
  <2>2. t \in delayed_work_queue_
    BY <1>13 DEF DoDelayedWorkLater
  <2>3. delayed_work_time_' # Null /\ delayed_work_time_' <= t.delayed_run_time
    <3>1. u \in Task /\ t \in Task
      BY <2>1, <2>2 DEF TypeOK
    <3>2. u.delayed_run_time # Null
      BY <2>1 DEF SleepInv
    <3>3. u.delayed_run_time <= t.delayed_run_time
      BY <2>1, <2>2, <3>1 DEF IsTop, Sooner, Task
    <3> QED BY <2>1, <3>2, <3>3
  <2> QED BY <1>12, <1>13, <2>3 DEF DoDelayedWorkLater, Timed, At
<1>14. CASE DoDelayedWorkDue
  <2>1. AfterDelayed(FALSE)
    BY <1>14 DEF DoDelayedWorkDue, RunTask
  <2>2. PICK next \in delayed_work_queue_' :
          IsTop(next, delayed_work_queue_') /\ delayed_work_time_' = next.delayed_run_time
    BY <1>14 DEF DoDelayedWorkDue
  <2>3. delayed_work_queue_' \subseteq Task
    BY <1>14 DEF DoDelayedWorkDue, TypeOK
  <2>4. delayed_work_time_' # Null /\ delayed_work_time_' <= t.delayed_run_time
    BY <1>1, <2>2, <2>3 DEF IsTop, Sooner, Task
  <2> QED BY <1>12, <1>14, <2>1, <2>4 DEF DoDelayedWorkDue, Timed, At
<1>15. CASE DoIdleWorkNone
  <2>1. run_depth > 0 /\ At("idle") /\ nestable_tasks_allowed_ /\ t \in delayed_work_queue_
        /\ delayed_work_time_' = delayed_work_time_
    BY <1>15 DEF DoIdleWorkNone, At
  <2>2. CASE LeaveRun
    BY <1>3, <2>1, <2>2, LeaveRunMove DEF Leaves
  <2>3. CASE GoTo("wait", FALSE)
    <3>1. pc'[run_depth'] = "wait"
      BY <2>1, <2>3, GoToMove
    <3>2. ~At("blocked")'
      BY <3>1 DEF At
    <3> QED BY <2>1, <3>2 DEF SleepInv, Timed
  <2> QED BY <1>15, <2>2, <2>3 DEF DoIdleWorkNone
<1>16. CASE Wait
  <2>1. At("wait") /\ run_depth > 0 /\ nestable_tasks_allowed_ /\ t \in delayed_work_queue_
    BY <1>16 DEF Wait, At
  <2>2. delayed_work_time_ # Null /\ delayed_work_time_ <= t.delayed_run_time
    BY <2>1 DEF SleepInv, Asleep
  <2>3. CASE GoTo("work", FALSE)
    BY <1>4, <2>1, <2>3
  <2>4. CASE GoTo("timed", FALSE) /\ UNCHANGED delayed_work_time_
    <3>1. pc'[run_depth'] = "timed"
      BY <2>1, <2>4, GoToMove
    <3>2. ~At("blocked")'
      BY <3>1 DEF At
    <3> QED BY <2>2, <2>4, <3>2 DEF Timed
  <2> QED BY <1>16, <2>2, <2>3, <2>4 DEF Wait
<1>17. CASE TaskPost \/ Quit \/ QuitNow
  BY <1>2, <1>17 DEF TaskPost, Quit, QuitNow
<1>18. ASSUME NEW allowed \in BOOLEAN, SetNestableTasksAllowed(allowed) PROVE Goal
  BY <1>18 DEF SetNestableTasksAllowed, InTask, Running, Asleep, At
<1>19. CASE TaskReturn
  <2>1. run_depth > 0
    BY <1>19 DEF TaskReturn, InTask
  <2>2. LeaveRun \/ GoTo("delayed", TRUE) \/ GoTo("work", FALSE)
    BY <1>19 DEF TaskReturn
  <2> QED BY <1>3, <1>4, <2>1, <2>2, LeaveRunMove DEF Leaves
<1>20. CASE Tick \/ UNCHANGED vars
  BY <1>2, <1>20 DEF Tick, vars
<1> QED
  BY <1>5, <1>6, <1>7, <1>8, <1>9, <1>10, <1>11, <1>13, <1>14, <1>15, <1>16, <1>17, <1>18,
     <1>19, <1>20
  DEF Next, LoopStep, TaskStep

-----------------------------------------------------------------------------
(* NestingRespected *)

LEMMA RunTaskFrom ==
  ASSUME TypeOK, PermitInv, [Next]_vars, NEW d \in Frames, Started(d)
  PROVE  d = run_depth /\ nestable_tasks_allowed_ /\ (task'[d].nestable \/ run_depth = 1)
<1> USE DEF queues, pump, stack
<1> DEFINE Goal == d = run_depth /\ nestable_tasks_allowed_
                   /\ (task'[d].nestable \/ run_depth = 1)
<1>1. ASSUME run_depth > 0, NEW t, NEW from \in Running, RunTask(t, from)
      PROVE  d = run_depth /\ task'[d] = t
  BY <1>1, RunTaskMove DEF Started
<1>2. CASE DoWorkRun
  <2>1. PICK t : RunTask(t, "run_work") /\ MayRun(t)
    BY <1>2 DEF DoWorkRun
  <2>2. run_depth > 0 /\ nestable_tasks_allowed_ /\ "run_work" \in Running
    BY <1>2 DEF DoWorkRun, Pop, At, Running
  <2> QED BY <1>1, <2>1, <2>2 DEF MayRun
<1>3. CASE DoDelayedWorkDue
  <2>1. run_depth > 0 /\ nestable_tasks_allowed_ /\ "run_delayed" \in Running
    BY <1>3 DEF DoDelayedWorkDue, At, Running
  <2>2. PICK t : RunTask(t, "run_delayed") /\ MayRun(t)
    BY <1>3 DEF DoDelayedWorkDue, Started
  <2> QED BY <1>1, <2>1, <2>2 DEF MayRun
<1>4. CASE DoIdleWorkRun
  <2>1. run_depth > 0 /\ "run_idle" \in Running /\ run_depth = 1 /\ ~InTask
    BY <1>4 DEF DoIdleWorkRun, At, InTask, Running
  <2>2. PICK t : RunTask(t, "run_idle")
    BY <1>4 DEF DoIdleWorkRun
  <2> QED BY <1>1, <2>1, <2>2 DEF PermitInv
<1>5. CASE LeaveRun
  BY <1>5, TopFrame DEF LeaveRun, Started, TypeOK
<1>6. CASE TaskReturn
  BY <1>5, <1>6, TopFrame DEF TaskReturn, Started, TypeOK
<1>7. CASE DoIdleWorkNone
  BY <1>5, <1>7 DEF DoIdleWorkNone, Started
<1>8. CASE UNCHANGED task
  BY <1>8 DEF Started
<1>9. DoWorkRun \/ DoDelayedWorkDue \/ DoIdleWorkRun \/ TaskReturn \/ DoIdleWorkNone
      \/ UNCHANGED task
  BY DEF Next, LoopStep, TaskStep, vars, Post, ScheduleWork, Run, DoWorkNone, ReloadWorkQueue,
         AddToDelayedWorkQueue, DoWorkDefer, DoDelayedWorkNone, DoDelayedWorkLater,
         Wait, Wakeup, Timeout, TaskPost, Quit, QuitNow, SetNestableTasksAllowed, Tick
<1> QED BY <1>2, <1>3, <1>4, <1>6, <1>7, <1>8, <1>9

(***************************************************************************)
(* The kinds of step PermitInv distinguishes.                              *)
(***************************************************************************)
Starts == /\ run_depth > 0 /\ ~InTask /\ (nestable_tasks_allowed_ \/ run_depth = 1)
          /\ \E t, from : from \in Running /\ RunTask(t, from) /\ MayRun(t)
Moves  == /\ run_depth > 0 /\ ~InTask /\ UNCHANGED <<task, nestable_tasks_allowed_>>
          /\ \E p, worked : p \notin Running /\ GoTo(p, worked)
Calls  == \E all \in BOOLEAN : Run(all)
Quits  == /\ run_depth > 0 /\ LeaveRun
          /\ nestable_tasks_allowed_' = TRUE \/ (~InTask /\ UNCHANGED nestable_tasks_allowed_)
Returns == /\ InTask /\ nestable_tasks_allowed_' = TRUE
           /\ task' = [task EXCEPT ![run_depth] = NoTask]
           /\ \E p, worked : p \notin Running /\ GoTo(p, worked)
Stutters == /\ UNCHANGED <<run_depth, pc, task, permitted>>
            /\ InTask \/ UNCHANGED nestable_tasks_allowed_

LEMMA AfterDelayedMoves ==
  ASSUME AfterDelayed(FALSE)
  PROVE  \E p, worked : p \notin Running /\ GoTo(p, worked)
BY DEF AfterDelayed, Running

LEMMA StepKinds ==
  ASSUME TypeOK, PermitInv, [Next]_vars
  PROVE  Starts \/ Moves \/ Calls \/ Quits \/ Returns \/ Stutters
<1> USE DEF queues, pump, stack
<1> DEFINE Goal == Starts \/ Moves \/ Calls \/ Quits \/ Returns \/ Stutters
<1>1. ASSUME NEW p \in Posters, Post(p) \/ ScheduleWork(p) PROVE Goal
  BY <1>1 DEF Post, ScheduleWork, Stutters
<1>2. ASSUME NEW all \in BOOLEAN, Run(all) PROVE Goal
  BY <1>2 DEF Calls
<1>3. CASE ReloadWorkQueue \/ AddToDelayedWorkQueue \/ DoWorkDefer
  BY <1>3 DEF ReloadWorkQueue, AddToDelayedWorkQueue, DoWorkDefer, Stutters
<1>4. CASE DoWorkNone \/ Wakeup \/ Timeout
  BY <1>4 DEF DoWorkNone, Wakeup, Timeout, Moves, At, InTask, Running
<1>5. CASE Wait
  <2>1. run_depth > 0 /\ ~InTask /\ UNCHANGED <<task, nestable_tasks_allowed_>>
    BY <1>5 DEF Wait, At, InTask, Running
  <2>2. \E p, worked : p \notin Running /\ GoTo(p, worked)
    BY <1>5 DEF Wait, Running
  <2> QED BY <2>1, <2>2 DEF Moves
<1>6. CASE DoWorkRun
  <2>1. run_depth > 0 /\ ~InTask /\ nestable_tasks_allowed_ /\ "run_work" \in Running
    BY <1>6 DEF DoWorkRun, Pop, At, InTask, Running
  <2>2. PICK t : RunTask(t, "run_work") /\ MayRun(t)
    BY <1>6 DEF DoWorkRun
  <2> QED BY <2>1, <2>2 DEF Starts
<1>7. CASE DoIdleWorkRun
  <2>1. run_depth > 0 /\ ~InTask /\ run_depth = 1 /\ "run_idle" \in Running
    BY <1>7 DEF DoIdleWorkRun, At, InTask, Running
  <2>2. PICK t : RunTask(t, "run_idle")
    BY <1>7 DEF DoIdleWorkRun
  <2> QED BY <2>1, <2>2 DEF Starts, MayRun
<1>8. CASE DoDelayedWorkNone \/ DoDelayedWorkLater
  <2>1. run_depth > 0 /\ ~InTask /\ UNCHANGED <<task, nestable_tasks_allowed_>>
    BY <1>8 DEF DoDelayedWorkNone, DoDelayedWorkLater, At, InTask, Running
  <2>2. AfterDelayed(FALSE)
    BY <1>8 DEF DoDelayedWorkNone, DoDelayedWorkLater
  <2> QED BY <2>1, <2>2, AfterDelayedMoves DEF Moves
<1>9. CASE DoDelayedWorkDue
  <2>1. run_depth > 0 /\ ~InTask /\ nestable_tasks_allowed_ /\ "run_delayed" \in Running
    BY <1>9 DEF DoDelayedWorkDue, At, InTask, Running
  <2>2. CASE \E t : RunTask(t, "run_delayed") /\ MayRun(t)
    BY <2>1, <2>2 DEF Starts
  <2>3. CASE AfterDelayed(FALSE) /\ UNCHANGED <<task, nestable_tasks_allowed_>>
    BY <2>1, <2>3, AfterDelayedMoves DEF Moves
  <2> QED BY <1>9, <2>2, <2>3 DEF DoDelayedWorkDue
<1>10. CASE DoIdleWorkNone
  <2>1. run_depth > 0 /\ ~InTask /\ UNCHANGED nestable_tasks_allowed_
    BY <1>10 DEF DoIdleWorkNone, At, InTask, Running
  <2>2. CASE LeaveRun
    BY <2>1, <2>2 DEF Quits
  <2>3. CASE GoTo("wait", FALSE) /\ UNCHANGED task
    BY <2>1, <2>3 DEF Moves, Running
  <2> QED BY <1>10, <2>2, <2>3 DEF DoIdleWorkNone
<1>11. CASE TaskPost \/ Quit \/ QuitNow
  BY <1>11 DEF TaskPost, Quit, QuitNow, Stutters
<1>12. ASSUME NEW allowed \in BOOLEAN, SetNestableTasksAllowed(allowed) PROVE Goal
  BY <1>12 DEF SetNestableTasksAllowed, Stutters
<1>13. CASE TaskReturn
  <2>1. run_depth > 0 /\ InTask /\ nestable_tasks_allowed_' = TRUE
    BY <1>13 DEF TaskReturn, InTask
  <2>2. CASE LeaveRun
    BY <2>1, <2>2 DEF Quits
  <2>3. CASE /\ task' = [task EXCEPT ![run_depth] = NoTask]
             /\ GoTo("delayed", TRUE) \/ GoTo("work", FALSE)
    BY <2>1, <2>3 DEF Returns, Running
  <2> QED BY <1>13, <2>2, <2>3 DEF TaskReturn
<1>14. CASE Tick \/ UNCHANGED vars
  BY <1>14 DEF Tick, vars, Stutters
<1> QED
  BY <1>1, <1>2, <1>3, <1>4, <1>5, <1>6, <1>7, <1>8, <1>9, <1>10, <1>11, <1>12, <1>13, <1>14
  DEF Next, LoopStep, TaskStep

LEMMA PermitStep == TypeOK /\ StackInv /\ PermitInv /\ [Next]_vars => PermitInv'
<1> SUFFICES ASSUME TypeOK, StackInv, PermitInv, [Next]_vars PROVE PermitInv'
  OBVIOUS
<1>0. run_depth \in 0..MaxDepth /\ MaxDepth \in Nat
  BY DepthAssumption DEF TypeOK
<1>1. CASE Starts
  <2>1. PICK t, from : from \in Running /\ RunTask(t, from) /\ MayRun(t)
    BY <1>1 DEF Starts
  <2>2. run_depth > 0 /\ run_depth \in Frames
    BY <1>1, TopFrame DEF Starts
  <2>3. /\ run_depth' = run_depth /\ permitted' = permitted
        /\ pc'[run_depth] \in Running /\ task'[run_depth] = t
        /\ \A d \in Frames : d # run_depth => pc'[d] = pc[d] /\ task'[d] = task[d]
    BY <2>1, <2>2, RunTaskMove
  <2>4. run_depth > 1 => permitted[run_depth]
    BY <1>1 DEF Starts, PermitInv
  <2> QED BY <2>1, <2>2, <2>3, <2>4 DEF PermitInv, InTask, MayRun
<1>2. CASE Moves
  <2>1. PICK p, worked : p \notin Running /\ GoTo(p, worked)
    BY <1>2 DEF Moves
  <2>2. run_depth > 0 /\ run_depth \in Frames /\ ~InTask
    BY <1>2, TopFrame DEF Moves
  <2>3. /\ run_depth' = run_depth /\ permitted' = permitted
        /\ pc'[run_depth] = p /\ \A d \in Frames : d # run_depth => pc'[d] = pc[d]
    BY <2>1, <2>2, GoToMove
  <2>4. UNCHANGED <<task, nestable_tasks_allowed_>>
    BY <1>2 DEF Moves
  <2> QED BY <2>1, <2>2, <2>3, <2>4 DEF PermitInv, InTask
<1>3. CASE Calls
  <2>1. PICK all \in BOOLEAN : Run(all)
    BY <1>3 DEF Calls
  <2>2. /\ run_depth' = run_depth + 1 /\ run_depth' \in Frames /\ (run_depth = 0 \/ InTask)
        /\ pc'[run_depth'] = "work" /\ permitted'[run_depth'] = nestable_tasks_allowed_
        /\ \A d \in Frames : d # run_depth' => pc'[d] = pc[d] /\ permitted'[d] = permitted[d]
    BY <1>0, <2>1 DEF Run, TypeOK, Frames
  <2>3. UNCHANGED <<task, nestable_tasks_allowed_>>
    BY <2>1 DEF Run
  <2>4. pc[run_depth'] = "off"
    BY <1>0, <2>2 DEF StackInv
  <2>5. ~InTask'
    BY <2>2 DEF InTask, Running
  <2>6. run_depth' = 1 => nestable_tasks_allowed_
    BY <1>0, <2>2 DEF PermitInv
  <2> QED BY <1>0, <2>2, <2>3, <2>4, <2>5, <2>6 DEF PermitInv, Running
<1>4. CASE Quits
  <2>1. run_depth > 0 /\ run_depth \in Frames /\ LeaveRun
    BY <1>4, TopFrame DEF Quits
  <2>2. /\ run_depth' = run_depth - 1
        /\ pc'[run_depth] = "off" /\ task'[run_depth] = NoTask
        /\ \A d \in Frames : d # run_depth =>
             pc'[d] = pc[d] /\ task'[d] = task[d] /\ permitted'[d] = permitted[d]
    BY <2>1, LeaveRunMove
  <2>3. /\ \A d \in Frames : task'[d] # NoTask => pc'[d] \in Running
        /\ \A d \in Frames : d > 1 /\ pc'[d] \in Running => permitted'[d] /\ task'[d].nestable
    BY <2>1, <2>2 DEF PermitInv, Running
  <2>4. CASE run_depth = 1
    <3>1. nestable_tasks_allowed_'
      BY <1>4, <2>4 DEF Quits, PermitInv
    <3> QED BY <2>2, <2>3, <2>4, <3>1 DEF PermitInv
  <2>5. CASE run_depth > 1
    <3>1. run_depth' \in Frames /\ run_depth' < run_depth /\ run_depth' > 0
      BY <1>0, <2>2, <2>5 DEF Frames
    <3>2. pc'[run_depth'] \in Running
      BY <2>2, <3>1 DEF StackInv
    <3>3. InTask' /\ (run_depth' > 1 => permitted'[run_depth'])
      BY <2>3, <3>1, <3>2 DEF InTask
    <3> QED BY <2>3, <3>1, <3>3 DEF PermitInv
  <2> QED BY <1>0, <2>1, <2>4, <2>5
<1>5. CASE Returns
  <2>1. PICK p, worked : p \notin Running /\ GoTo(p, worked)
    BY <1>5 DEF Returns
  <2>2. run_depth > 0 /\ run_depth \in Frames /\ InTask
    BY <1>5, TopFrame DEF Returns, InTask
  <2>3. /\ run_depth' = run_depth /\ permitted' = permitted
        /\ pc'[run_depth] = p /\ \A d \in Frames : d # run_depth => pc'[d] = pc[d]
    BY <2>1, <2>2, GoToMove
  <2>4. /\ task'[run_depth] = NoTask
        /\ \A d \in Frames : d # run_depth => task'[d] = task[d]
    BY <1>5, <2>2 DEF Returns, TypeOK
  <2>5. nestable_tasks_allowed_'
    BY <1>5 DEF Returns
  <2> QED BY <2>1, <2>2, <2>3, <2>4, <2>5 DEF PermitInv, InTask
<1>6. CASE Stutters
  BY <1>6 DEF Stutters, PermitInv, InTask
<1> QED BY <1>1, <1>2, <1>3, <1>4, <1>5, <1>6, StepKinds

-----------------------------------------------------------------------------
(* The theorems *)

(* No step of the loop, of a poster or of a closure leaves the fields'     *)
(* ranges, however many posters there are and however deep Run nests.      *)
THEOREM TypeCorrect == Spec => []TypeOK
<1>1. Init => TypeOK
  BY InitType
<1>2. TypeOK /\ [Next]_vars => TypeOK'
  BY StepType
<1> QED BY <1>1, <1>2, PTL DEF Spec

LEMMA InitInv == Init => IInv
<1> SUFFICES ASSUME Init PROVE IInv
  OBVIOUS
<1>1. TypeOK
  BY InitType
<1>2. run_depth = 0 /\ ~InTask /\ ~Drained /\ ~Asleep /\ ~At("idle")
  BY DEF Init, InTask, Drained, Asleep, At
<1>3. StackInv /\ DrainedInv /\ DeferredInv
  BY <1>2 DEF Init, StackInv, DrainedInv, DeferredInv, Frames
<1>4. SleepInv
  BY <1>2 DEF Init, SleepInv
<1>5. PermitInv
  BY <1>2 DEF Init, PermitInv, Running
<1> QED BY <1>1, <1>3, <1>4, <1>5 DEF IInv

LEMMA StepInv == IInv /\ [Next]_vars => IInv'
BY StepType, StackStep, DrainedStep, DeferredStep, SleepStep, PermitStep DEF IInv

(* The inductive invariant behind the four theorems that follow. *)
THEOREM Inductive == Spec => []IInv
<1>1. Init => IInv
  BY InitInv
<1>2. IInv /\ [Next]_vars => IInv'
  BY StepInv
<1> QED BY <1>1, <1>2, PTL DEF Spec

(* AddToIncomingQueue and DefaultMessagePump never lose a wakeup: a thread *)
(* asleep on the event has no runnable task, for any number of posters.    *)
THEOREM NoWakeupIsLost == Spec => []NoStrandedWork
<1>1. IInv => NoStrandedWork
  BY DEF IInv, DrainedInv, DeferredInv, NoStrandedWork, Drained, Asleep
<1> QED BY <1>1, Inductive, PTL

(* The pump never sleeps beyond the first delayed task it may run,         *)
(* whatever nested Runs did to delayed_work_time_.                         *)
THEOREM WaitIsBounded == Spec => []NoOversleep
<1>1. IInv => NoOversleep
  BY DEF IInv, SleepInv, NoOversleep, Asleep
<1> QED BY <1>1, Inductive, PTL

(* The assertion at the head of RunTask holds at each of its three calls,  *)
(* and a nested Run runs nothing the task that entered it did not allow.   *)
THEOREM NestingIsProtected == Spec => NestingRespected
<1> DEFINE Respected == \A d \in Frames : Started(d) =>
                          /\ nestable_tasks_allowed_
                          /\ d > 1 => permitted'[d] /\ task'[d].nestable
<1>1. IInv /\ IInv' /\ [Next]_vars => Respected
  <2> SUFFICES ASSUME IInv, IInv', [Next]_vars, NEW d \in Frames, Started(d)
               PROVE  /\ nestable_tasks_allowed_
                      /\ d > 1 => permitted'[d] /\ task'[d].nestable
    OBVIOUS
  <2>1. nestable_tasks_allowed_ /\ d = run_depth /\ (task'[d].nestable \/ run_depth = 1)
    BY RunTaskFrom DEF IInv
  <2>2. d > 1 => permitted'[d]
    BY DEF IInv, PermitInv, Started
  <2> QED BY <2>1, <2>2
<1> QED BY <1>1, Inductive, PTL DEF Spec, NestingRespected

-----------------------------------------------------------------------------
(***************************************************************************)
(* Refinement: the message loop implements the service of module           *)
(* TaskService, for any posters, bounds and delays.                        *)
(***************************************************************************)

(* What the sequence operators do to the elements of a queue. *)

LEMMA AppendElements ==
  ASSUME NEW q \in Seq(Task), NEW t \in Task
  PROVE  Elements(Append(q, t)) = Elements(q) \cup {t}
<1>1. /\ DOMAIN Append(q, t) = DOMAIN q \cup {Len(q) + 1}
      /\ Append(q, t)[Len(q) + 1] = t
      /\ \A i \in DOMAIN q : Append(q, t)[i] = q[i]
  OBVIOUS
<1> QED BY <1>1 DEF Elements

LEMMA HeadElements ==
  ASSUME NEW q \in Seq(Task), q # <<>>
  PROVE  Elements(q) = {Head(q)} \cup Elements(Tail(q))
<1>1. Head(q) = q[1] /\ 1 \in DOMAIN q
  OBVIOUS
<1>2. ASSUME NEW i \in DOMAIN q PROVE i = 1 \/ (i - 1 \in DOMAIN Tail(q) /\ Tail(q)[i - 1] = q[i])
  OBVIOUS
<1>3. ASSUME NEW i \in DOMAIN Tail(q) PROVE i + 1 \in DOMAIN q /\ Tail(q)[i] = q[i + 1]
  OBVIOUS
<1>4. ASSUME NEW x \in Elements(q) PROVE x = Head(q) \/ x \in Elements(Tail(q))
  BY <1>1, <1>2 DEF Elements
<1>5. ASSUME NEW x \in Elements(Tail(q)) PROVE x \in Elements(q)
  BY <1>3 DEF Elements
<1>6. Head(q) \in Elements(q)
  BY <1>1 DEF Elements
<1> QED BY <1>4, <1>5, <1>6

LEMMA NoElements == Elements(<<>>) = {}
BY DEF Elements

LEMMA ElementsAreTasks ==
  ASSUME NEW q \in Seq(Task) PROVE Elements(q) \subseteq Task
BY ElementOfSeq DEF Elements

(* Popping an ordered queue leaves it ordered, and after its head. *)
LEMMA PopKeepsOrder ==
  ASSUME NEW q \in Seq(Task), q # <<>>, InIdOrder(q)
  PROVE  InIdOrder(Tail(q)) /\ \A t \in Elements(Tail(q)) : Head(q).id < t.id
<1>1. ASSUME NEW i \in DOMAIN Tail(q) PROVE i + 1 \in DOMAIN q /\ Tail(q)[i] = q[i + 1]
  OBVIOUS
<1>2. InIdOrder(Tail(q))
  BY <1>1 DEF InIdOrder
<1>3. Head(q) = q[1] /\ 1 \in DOMAIN q /\ \A i \in DOMAIN Tail(q) : 1 < i + 1
  OBVIOUS
<1>4. \A t \in Elements(Tail(q)) : Head(q).id < t.id
  BY <1>1, <1>3 DEF InIdOrder, Elements
<1> QED BY <1>2, <1>4

-----------------------------------------------------------------------------
(* How a step may change the queues.  Nothing else of a step matters to    *)
(* OrderInv and OnePlaceInv.                                               *)

others == <<deferred_non_nestable_work_queue_, delayed_work_queue_>>
Pushes == /\ posted' = posted + 1 /\ UNCHANGED <<work_queue_, others>>
          /\ \E t \in Task : /\ t.id = posted + 1
                             /\ incoming_queue_' = Append(incoming_queue_, t)
Reloads == /\ work_queue_ = <<>> /\ work_queue_' = incoming_queue_ /\ incoming_queue_' = <<>>
           /\ UNCHANGED <<others, posted>>
Takes == /\ work_queue_ # <<>> /\ work_queue_' = Tail(work_queue_)
         /\ UNCHANGED <<incoming_queue_, posted>>
Delays0 == /\ UNCHANGED deferred_non_nestable_work_queue_
           /\ \E n \in Nat : delayed_work_queue_' =
                delayed_work_queue_ \cup {[Head(work_queue_) EXCEPT !.sequence_num = n]}
Defers == /\ UNCHANGED delayed_work_queue_
          /\ deferred_non_nestable_work_queue_' =
               Append(deferred_non_nestable_work_queue_, Head(work_queue_))
Expires == /\ UNCHANGED <<work_queue_, incoming_queue_, posted>>
           /\ \E t \in delayed_work_queue_ :
                /\ delayed_work_queue_' = delayed_work_queue_ \ {t}
                /\ \/ UNCHANGED deferred_non_nestable_work_queue_
                   \/ deferred_non_nestable_work_queue_' =
                        Append(deferred_non_nestable_work_queue_, t)
Resumes == /\ UNCHANGED <<work_queue_, incoming_queue_, delayed_work_queue_, posted>>
           /\ deferred_non_nestable_work_queue_ # <<>>
           /\ deferred_non_nestable_work_queue_' = Tail(deferred_non_nestable_work_queue_)
Rests == UNCHANGED <<work_queue_, incoming_queue_, others, posted>>

LEMMA PushPushes == ASSUME TypeOK, Push, UNCHANGED <<work_queue_, others>> PROVE Pushes
<1>1. RunTimes \subseteq Nat
  BY TimeAssumption, DelayAssumption DEF TypeOK, RunTimes, Null
<1>2. posted + 1 \in Nat
  BY PostsAssumption DEF TypeOK
<1>3. {t \in RunTimes : t <= MaxTime} \subseteq Nat
  BY <1>1
<1>4. NewTasks \subseteq {t \in Task : t.id = posted + 1}
  BY <1>2, <1>3 DEF NewTasks, Task
<1> QED BY <1>4 DEF Push, Pushes

LEMMA QueueStep ==
  ASSUME TypeOK, [Next]_vars
  PROVE  \/ Pushes \/ Reloads \/ (Takes /\ (UNCHANGED others \/ Delays0 \/ Defers))
         \/ Expires \/ Resumes \/ Rests
<1> USE DEF queues, others
<1> DEFINE Goal == \/ Pushes \/ Reloads
                   \/ (Takes /\ (UNCHANGED others \/ Delays0 \/ Defers))
                   \/ Expires \/ Resumes \/ Rests
<1>1. ASSUME NEW p \in Posters, Post(p) PROVE Goal
  BY <1>1, PushPushes DEF Post
<1>2. CASE TaskPost
  BY <1>2, PushPushes DEF TaskPost
<1>3. CASE ReloadWorkQueue
  BY <1>3 DEF ReloadWorkQueue, Reloads
<1>4. CASE AddToDelayedWorkQueue
  BY <1>4 DEF AddToDelayedWorkQueue, Pop, Takes, Delays0, TypeOK
<1>5. CASE DoWorkRun
  BY <1>5 DEF DoWorkRun, Pop, Takes
<1>6. CASE DoWorkDefer
  BY <1>6 DEF DoWorkDefer, Pop, Takes, Defers
<1>7. CASE DoDelayedWorkDue
  BY <1>7 DEF DoDelayedWorkDue, Expires
<1>8. CASE DoIdleWorkRun
  BY <1>8 DEF DoIdleWorkRun, Resumes
<1>9. CASE Rests
  BY <1>9
<1>10. \/ \E p \in Posters : Post(p)
       \/ TaskPost \/ ReloadWorkQueue \/ AddToDelayedWorkQueue \/ DoWorkRun \/ DoWorkDefer
       \/ DoDelayedWorkDue \/ DoIdleWorkRun \/ Rests
  BY DEF Next, LoopStep, TaskStep, vars, ScheduleWork, Run, DoWorkNone, DoDelayedWorkNone,
         DoDelayedWorkLater, DoIdleWorkNone, Wait, Wakeup, Timeout, Quit, QuitNow,
         SetNestableTasksAllowed, TaskReturn, Tick, Rests
<1> QED BY <1>1, <1>2, <1>3, <1>4, <1>5, <1>6, <1>7, <1>8, <1>9, <1>10

LEMMA OrderStep == TypeOK /\ OrderInv /\ OnePlaceInv /\ [Next]_vars => OrderInv'
<1> SUFFICES ASSUME TypeOK, OrderInv, OnePlaceInv, [Next]_vars PROVE OrderInv'
  OBVIOUS
<1> USE DEF others
<1>1. work_queue_ \in Seq(Task) /\ incoming_queue_ \in Seq(Task)
  BY DEF TypeOK
<1>2. CASE Pushes
  <2>1. PICK t \in Task : t.id = posted + 1 /\ incoming_queue_' = Append(incoming_queue_, t)
    BY <1>2 DEF Pushes
  <2>2. \A u \in New : u.id < t.id
    <3>1. \A u \in New : u \in Task /\ u.id <= posted
      BY <1>1, ElementsAreTasks DEF OnePlaceInv, New, Pending
    <3> QED BY <2>1, <3>1 DEF TypeOK, Task
  <2>3. Elements(incoming_queue_') = Elements(incoming_queue_) \cup {t}
    BY <1>1, <2>1, AppendElements
  <2>4. \A i \in DOMAIN incoming_queue_ : incoming_queue_[i].id < t.id
    BY <2>2 DEF New, Elements
  <2>5. InIdOrder(incoming_queue_')
    BY <1>1, <2>1, <2>4 DEF OrderInv, InIdOrder
  <2>6. work_queue_' = work_queue_
    BY <1>2 DEF Pushes
  <2> QED BY <2>2, <2>3, <2>5, <2>6 DEF OrderInv, New
<1>3. CASE Reloads
  BY <1>3, NoElements DEF Reloads, OrderInv, InIdOrder
<1>4. CASE Takes
  <2>1. /\ InIdOrder(Tail(work_queue_))
        /\ Elements(Tail(work_queue_)) \subseteq Elements(work_queue_)
    BY <1>1, <1>4, PopKeepsOrder, HeadElements DEF Takes, OrderInv
  <2> QED BY <1>4, <2>1 DEF Takes, OrderInv
<1>5. CASE Expires \/ Resumes \/ Rests
  BY <1>5 DEF Expires, Resumes, Rests, OrderInv
<1> QED BY <1>2, <1>3, <1>4, <1>5, QueueStep

(* The head of the queue has the least id of all the new tasks. *)
LEMMA HeadIsFirst ==
  ASSUME TypeOK, OrderInv, Takes
  PROVE  /\ Head(work_queue_) \in Task
         /\ New = New' \cup {Head(work_queue_)}
         /\ \A u \in New' : u \in Task /\ Head(work_queue_).id < u.id
<1>1. work_queue_ \in Seq(Task) /\ incoming_queue_ \in Seq(Task) /\ work_queue_ # <<>>
  BY DEF TypeOK, Takes
<1>2. Elements(work_queue_) = {Head(work_queue_)} \cup Elements(Tail(work_queue_))
  BY <1>1, HeadElements
<1>3. New = New' \cup {Head(work_queue_)}
  BY <1>2 DEF New, Takes
<1>4. \A u \in New' : Head(work_queue_).id < u.id
  BY <1>1, <1>2, PopKeepsOrder DEF New, Takes, OrderInv
<1>5. New \subseteq Task
  BY <1>1, ElementsAreTasks DEF New
<1> QED BY <1>3, <1>4, <1>5

(* The ids of a queue without repetition, after an Append and after a Tail. *)
NoRepeat(q) == \A i, j \in DOMAIN q : q[i].id = q[j].id => i = j

LEMMA AppendNoRepeat ==
  ASSUME NEW q \in Seq(Task), NEW t \in Task, NoRepeat(q), \A u \in Elements(q) : u.id # t.id
  PROVE  NoRepeat(Append(q, t))
<1>1. \A i \in DOMAIN q : q[i].id # t.id
  BY DEF Elements
<1>2. /\ DOMAIN Append(q, t) = DOMAIN q \cup {Len(q) + 1}
      /\ Append(q, t)[Len(q) + 1] = t
      /\ \A i \in DOMAIN q : Append(q, t)[i] = q[i]
  OBVIOUS
<1> QED BY <1>1, <1>2 DEF NoRepeat

LEMMA TailNoRepeat ==
  ASSUME NEW q \in Seq(Task), q # <<>>, NoRepeat(q)
  PROVE  NoRepeat(Tail(q))
BY DEF NoRepeat

(* OnePlaceInv in terms of the elements of the queues. *)
Deferred == Elements(deferred_non_nestable_work_queue_)
OnePlace ==
  /\ \A t \in New \cup Deferred \cup delayed_work_queue_ : t.id <= posted
  /\ NoRepeat(deferred_non_nestable_work_queue_)
  /\ \A t, u \in delayed_work_queue_ : t.id = u.id => t = u
  /\ \A t \in New, u \in delayed_work_queue_ : t.id # u.id
  /\ \A t \in New, u \in Deferred : t.id # u.id
  /\ \A t \in delayed_work_queue_, u \in Deferred : t.id # u.id

LEMMA OnePlaceElements == OnePlaceInv <=> OnePlace
BY DEF OnePlaceInv, OnePlace, NoRepeat, Deferred, New, Pending

LEMMA OnePlaceStep == TypeOK /\ OrderInv /\ OnePlaceInv /\ [Next]_vars => OnePlaceInv'
<1>0. OnePlaceInv' <=> OnePlace'
  BY DEF OnePlaceInv, OnePlace, NoRepeat, Deferred, New, Pending
<1> SUFFICES ASSUME TypeOK, OrderInv, OnePlace, [Next]_vars PROVE OnePlace'
  BY <1>0, OnePlaceElements
<1> USE DEF others
<1>1. /\ work_queue_ \in Seq(Task) /\ incoming_queue_ \in Seq(Task)
      /\ deferred_non_nestable_work_queue_ \in Seq(Task)
  BY DEF TypeOK
<1>2. /\ New \subseteq Task /\ Deferred \subseteq Task /\ delayed_work_queue_ \subseteq Task
      /\ posted \in Nat
  BY <1>1, ElementsAreTasks DEF New, Deferred, TypeOK
<1>3. CASE Pushes
  <2>1. PICK t \in Task : t.id = posted + 1 /\ incoming_queue_' = Append(incoming_queue_, t)
    BY <1>3 DEF Pushes
  <2>2. New' = New \cup {t}
    BY <1>1, <1>3, <2>1, AppendElements DEF Pushes, New
  <2>3. \A u \in New \cup Deferred \cup delayed_work_queue_ : u.id # t.id /\ u.id <= posted + 1
    BY <1>2, <2>1 DEF OnePlace, Task
  <2>4. t.id <= posted + 1
    BY <1>2, <2>1
  <2>5. posted' = posted + 1 /\ Deferred' = Deferred /\ delayed_work_queue_' = delayed_work_queue_
        /\ UNCHANGED deferred_non_nestable_work_queue_
    BY <1>3 DEF Pushes, Deferred
  <2> QED BY <2>2, <2>3, <2>4, <2>5, Zenon DEF OnePlace, NoRepeat
<1>4. CASE Reloads
  <2>1. New' = New /\ Deferred' = Deferred
    BY <1>4, NoElements DEF Reloads, New, Deferred
  <2> QED BY <1>4, <2>1 DEF Reloads, OnePlace, NoRepeat
<1>5. ASSUME Takes PROVE /\ New' \subseteq New /\ Head(work_queue_) \in New
                         /\ \A u \in New' : u.id # Head(work_queue_).id
                         /\ Head(work_queue_) \in Task /\ posted' = posted
  BY <1>5, HeadIsFirst, <1>2 DEF Task, Takes
<1>6. CASE Takes /\ UNCHANGED others
  <2>1. Deferred' = Deferred
    BY <1>6 DEF Deferred
  <2> QED BY <1>5, <1>6, <2>1 DEF OnePlace, NoRepeat
<1>7. CASE Takes /\ Delays0
  <2>1. PICK n \in Nat : delayed_work_queue_' =
           delayed_work_queue_ \cup {[Head(work_queue_) EXCEPT !.sequence_num = n]}
    BY <1>7 DEF Delays0
  <2> DEFINE new_task == [Head(work_queue_) EXCEPT !.sequence_num = n]
  <2>2. new_task.id = Head(work_queue_).id
    BY <1>5, <1>7 DEF Task
  <2>3. Deferred' = Deferred /\ UNCHANGED deferred_non_nestable_work_queue_
    BY <1>7 DEF Deferred, Delays0
  <2>4. delayed_work_queue_' = delayed_work_queue_ \cup {new_task}
    BY <2>1
  <2> HIDE DEF new_task
  <2> QED BY <1>5, <1>7, <2>2, <2>3, <2>4 DEF OnePlace, NoRepeat
<1>8. CASE Takes /\ Defers
  <2>1. Deferred' = Deferred \cup {Head(work_queue_)}
    BY <1>1, <1>5, <1>8, AppendElements DEF Deferred, Defers
  <2>2. NoRepeat(deferred_non_nestable_work_queue_')
    BY <1>1, <1>5, <1>8, AppendNoRepeat DEF Defers, OnePlace, Deferred
  <2>3. UNCHANGED delayed_work_queue_
    BY <1>8 DEF Defers
  <2>4. /\ \A t \in New' \cup Deferred' \cup delayed_work_queue_' : t.id <= posted'
        /\ NoRepeat(deferred_non_nestable_work_queue_)'
    BY <1>5, <1>8, <2>1, <2>2, <2>3 DEF OnePlace, NoRepeat
  <2> QED BY <1>5, <1>8, <2>1, <2>3, <2>4 DEF OnePlace
<1>9. CASE Expires
  <2>1. PICK t \in delayed_work_queue_ :
          /\ delayed_work_queue_' = delayed_work_queue_ \ {t}
          /\ \/ UNCHANGED deferred_non_nestable_work_queue_
             \/ deferred_non_nestable_work_queue_' =
                  Append(deferred_non_nestable_work_queue_, t)
    BY <1>9 DEF Expires
  <2>2. New' = New /\ posted' = posted
    BY <1>9 DEF Expires, New
  <2>3. Deferred' \subseteq Deferred \cup {t}
    BY <1>1, <1>2, <2>1, AppendElements DEF Deferred
  <2>4. NoRepeat(deferred_non_nestable_work_queue_')
    <3>1. NoRepeat(deferred_non_nestable_work_queue_)
      BY DEF OnePlace
    <3>2. \A u \in Elements(deferred_non_nestable_work_queue_) : u.id # t.id
      BY DEF OnePlace, Deferred
    <3>3. NoRepeat(Append(deferred_non_nestable_work_queue_, t))
      BY <1>1, <1>2, <3>1, <3>2, AppendNoRepeat
    <3> QED BY <2>1, <3>1, <3>3
  <2>5. \A u \in delayed_work_queue_' : u \in delayed_work_queue_ /\ u.id # t.id
    BY <2>1 DEF OnePlace
  <2>6. NoRepeat(deferred_non_nestable_work_queue_)'
    BY <2>4 DEF NoRepeat
  <2> QED BY <2>2, <2>3, <2>5, <2>6 DEF OnePlace
<1>10. CASE Resumes
  <2>1. Deferred' \subseteq Deferred
    BY <1>1, <1>10, HeadElements DEF Resumes, Deferred
  <2>2. NoRepeat(deferred_non_nestable_work_queue_')
    BY <1>1, <1>10, TailNoRepeat DEF Resumes, OnePlace
  <2>3. New' = New /\ UNCHANGED <<delayed_work_queue_, posted>>
    BY <1>10 DEF Resumes, New
  <2>4. NoRepeat(deferred_non_nestable_work_queue_)'
    BY <2>2 DEF NoRepeat
  <2> QED BY <2>1, <2>3, <2>4 DEF OnePlace
<1>11. CASE Rests
  BY <1>11 DEF Rests, OnePlace, New, Deferred, NoRepeat
<1> QED BY <1>3, <1>4, <1>6, <1>7, <1>8, <1>9, <1>10, <1>11, QueueStep

(* What is deferred was due, and the cached time is never ahead. *)
LEMMA DueStep == TypeOK /\ DueInv /\ [Next]_vars => DueInv'
<1> SUFFICES ASSUME TypeOK, DueInv, [Next]_vars PROVE DueInv'
  OBVIOUS
<1> USE DEF queues, pump, stack
<1>1. /\ now \in Nat /\ recent_tick_ \in Nat /\ deferred_non_nestable_work_queue_ \in Seq(Task)
      /\ work_queue_ \in Seq(Task) /\ delayed_work_queue_ \subseteq Task
  BY DEF TypeOK
<1>a. now' = now \/ Tick
  BY DEF Next, LoopStep, TaskStep, vars, Post, ScheduleWork, Run, DoWorkNone,
         ReloadWorkQueue, AddToDelayedWorkQueue, DoWorkRun, DoWorkDefer, DoDelayedWorkNone,
         DoDelayedWorkLater, DoDelayedWorkDue, DoIdleWorkRun, DoIdleWorkNone, Wait, Wakeup,
         Timeout, TaskPost, Quit, QuitNow, SetNestableTasksAllowed, TaskReturn
<1>2. now' \in Nat /\ now <= now'
  BY <1>a, <1>1 DEF Tick
<1>3. recent_tick_' <= now'
  <2>1. recent_tick_' \in {recent_tick_, now, Null}
    BY DEF Next, LoopStep, TaskStep, vars, Post, ScheduleWork, Run, DoWorkNone,
         ReloadWorkQueue, AddToDelayedWorkQueue, DoWorkRun, DoWorkDefer, DoDelayedWorkNone,
         DoDelayedWorkLater, DoDelayedWorkDue, DoIdleWorkRun, DoIdleWorkNone, Wait, Wakeup,
         Timeout, TaskPost, Quit, QuitNow, SetNestableTasksAllowed, TaskReturn, Tick
  <2>2. recent_tick_ <= now
    BY DEF DueInv
  <2> QED BY <1>1, <1>2, <2>1, <2>2 DEF Null
<1> DEFINE Ok(t) == ~t.nestable /\ t.delayed_run_time <= now
<1>4. \A t \in Elements(deferred_non_nestable_work_queue_') : Ok(t)
  <2>1. \A t \in Elements(deferred_non_nestable_work_queue_) : Ok(t)
    BY DEF DueInv
  <2>2. ASSUME NEW t \in Task, Ok(t),
               deferred_non_nestable_work_queue_' = Append(deferred_non_nestable_work_queue_, t)
        PROVE  \A u \in Elements(deferred_non_nestable_work_queue_') : Ok(u)
    <3> HIDE DEF Ok
    <3> QED BY <1>1, <2>1, <2>2, AppendElements
  <2>3. CASE DoWorkDefer
    <3>1. Head(work_queue_) \in Task
      BY <1>1, <2>3, HeadTailType DEF DoWorkDefer, Pop
    <3>2. ~Head(work_queue_).nestable
      BY <2>3 DEF DoWorkDefer, MayRun
    <3>3. Head(work_queue_).delayed_run_time <= now
      BY <1>1, <2>3 DEF DoWorkDefer, Null
    <3> QED BY <2>2, <2>3, <3>1, <3>2, <3>3 DEF DoWorkDefer
  <2>4. CASE DoDelayedWorkDue
    <3>1. \E t \in delayed_work_queue_ :
            /\ t.delayed_run_time <= recent_tick_ \/ t.delayed_run_time <= now
            /\ \/ UNCHANGED deferred_non_nestable_work_queue_
               \/ /\ ~MayRun(t)
                  /\ deferred_non_nestable_work_queue_' =
                       Append(deferred_non_nestable_work_queue_, t)
      BY <2>4 DEF DoDelayedWorkDue
    <3>2. CASE UNCHANGED deferred_non_nestable_work_queue_
      BY <2>1, <3>2
    <3>3. ASSUME NEW t \in delayed_work_queue_, ~MayRun(t),
                 t.delayed_run_time <= recent_tick_ \/ t.delayed_run_time <= now,
                 deferred_non_nestable_work_queue_' =
                       Append(deferred_non_nestable_work_queue_, t)
          PROVE  \A u \in Elements(deferred_non_nestable_work_queue_') : Ok(u)
      <4>1. t \in Task /\ ~t.nestable
        BY <1>1, <3>3 DEF MayRun
      <4>2. t.delayed_run_time <= now
        BY <1>1, <3>3, <4>1 DEF Task, DueInv
      <4> QED BY <2>2, <3>3, <4>1, <4>2
    <3> QED BY <3>1, <3>2, <3>3
  <2>5. CASE DoIdleWorkRun
    <3>1. Elements(deferred_non_nestable_work_queue_')
            \subseteq Elements(deferred_non_nestable_work_queue_)
      BY <1>1, <2>5, HeadElements DEF DoIdleWorkRun
    <3> QED BY <2>1, <3>1
  <2>6. CASE UNCHANGED deferred_non_nestable_work_queue_
    BY <2>1, <2>6
  <2>7. DoWorkDefer \/ DoDelayedWorkDue \/ DoIdleWorkRun
        \/ UNCHANGED deferred_non_nestable_work_queue_
    BY DEF Next, LoopStep, TaskStep, vars, Post, ScheduleWork, Run, DoWorkNone,
         ReloadWorkQueue, AddToDelayedWorkQueue, DoWorkRun, DoDelayedWorkNone,
         DoDelayedWorkLater, DoIdleWorkNone, Wait, Wakeup,
         Timeout, TaskPost, Quit, QuitNow, SetNestableTasksAllowed, TaskReturn, Tick
  <2> QED BY <2>3, <2>4, <2>5, <2>6, <2>7
<1>5. \A t \in Elements(deferred_non_nestable_work_queue_') :
         ~t.nestable /\ t.delayed_run_time <= now'
  <2>1. Elements(deferred_non_nestable_work_queue_') \subseteq Task
    <3>1. deferred_non_nestable_work_queue_' \in Seq(Task)
      BY StepType DEF TypeOK
    <3> QED BY <3>1, ElementsAreTasks
  <2> QED BY <1>1, <1>2, <1>4, <2>1 DEF Task
<1> QED BY <1>3, <1>5 DEF DueInv, Elements

-----------------------------------------------------------------------------
(* The two variables of the refinement mapping. *)

LEMMA RunningBarIsSeq ==
  TypeOK => /\ runningBar \in Seq(Nat)
            /\ DOMAIN runningBar = 1..Depth
            /\ InTask => Len(runningBar) = run_depth /\ run_depth \in Frames
            /\ run_depth > 0 /\ ~InTask => Len(runningBar) = run_depth - 1
<1> SUFFICES ASSUME TypeOK
             PROVE  /\ runningBar \in Seq(Nat)
                    /\ DOMAIN runningBar = 1..Depth
                    /\ InTask => Len(runningBar) = run_depth /\ run_depth \in Frames
                    /\ run_depth > 0 /\ ~InTask => Len(runningBar) = run_depth - 1
  OBVIOUS
<1>1. run_depth \in 0..MaxDepth /\ MaxDepth \in Nat
  BY DepthAssumption DEF TypeOK
<1>2. Depth \in -1..run_depth /\ (InTask => Depth = run_depth /\ run_depth > 0)
      /\ (~InTask => Depth = run_depth - 1)
  BY <1>1 DEF Depth, InTask
<1>3. \A d \in 1..Depth : d \in Frames
  BY <1>1, <1>2 DEF Frames
<1>4. \A d \in Frames : task[d].id \in Nat
  BY DEF TypeOK, Task
<1>5. runningBar \in [1..Depth -> Nat]
  BY <1>3, <1>4 DEF runningBar
<1>6. CASE run_depth = 0 /\ ~InTask
  <2>1. 1..Depth = 1..0
    BY <1>2, <1>6
  <2>2. runningBar \in [1..0 -> Nat]
    BY <1>5, <2>1
  <2> QED BY <1>5, <1>6, <2>2
<1>7. CASE Depth \in Nat
  BY <1>1, <1>2, <1>5, <1>7 DEF Frames
<1> QED BY <1>1, <1>2, <1>6, <1>7

(* A task that starts is pushed on the stack of tasks in progress ... *)
LEMMA StartPushes ==
  ASSUME TypeOK, run_depth > 0, ~InTask, NEW t \in Task, NEW from \in Running,
         RunTask(t, from)
  PROVE  runningBar' = Append(runningBar, t.id)
<1>1. /\ run_depth' = run_depth /\ pc'[run_depth] \in Running /\ task'[run_depth] = t
      /\ \A d \in Frames : d # run_depth => task'[d] = task[d]
  BY RunTaskMove
<1>2. run_depth \in Frames /\ Depth = run_depth - 1
  BY TopFrame DEF Depth
<1>3. Depth' = run_depth
  BY <1>1 DEF Depth, InTask
<1>4. runningBar' = [d \in 1..run_depth |-> task'[d].id]
  BY <1>3 DEF runningBar
<1>5. runningBar \in Seq(Nat) /\ Len(runningBar) = run_depth - 1 /\ t.id \in Nat
  BY RunningBarIsSeq DEF Task
<1>6. \A d \in 1..(run_depth - 1) : d \in Frames /\ d # run_depth
  BY <1>2, DepthAssumption DEF Frames
<1>7. \A d \in 1..(run_depth - 1) : runningBar[d] = task'[d].id
  BY <1>1, <1>2, <1>6 DEF runningBar
<1> DEFINE s == Append(runningBar, t.id)
<1>8. s = [d \in 1..run_depth |-> IF d = run_depth THEN t.id ELSE runningBar[d]]
  BY <1>2, <1>5 DEF Frames
<1> HIDE DEF s
<1>9. \A d \in 1..run_depth : s[d] = task'[d].id
  BY <1>1, <1>2, <1>7, <1>8 DEF Frames
<1>10. s = [d \in 1..run_depth |-> s[d]]
  BY <1>8
<1> QED BY <1>4, <1>9, <1>10 DEF s

(* ... and popped when it returns, with its frame or without it. *)
LEMMA ReturnPops ==
  ASSUME TypeOK, StackInv, TaskReturn
  PROVE  /\ runningBar # <<>>
         /\ runningBar[Len(runningBar)] = task[run_depth].id
         /\ runningBar' = SubSeq(runningBar, 1, Len(runningBar) - 1)
<1>1. InTask /\ run_depth > 0 /\ run_depth \in Frames /\ runningBar \in Seq(Nat)
      /\ Len(runningBar) = run_depth /\ Depth = run_depth /\ DOMAIN runningBar = 1..run_depth
  BY RunningBarIsSeq DEF TaskReturn, InTask, Depth
<1>2. /\ Depth' = run_depth - 1 \/ (run_depth = 1 /\ Depth' = -1)
      /\ \A d \in Frames : d # run_depth => task'[d] = task[d]
  <2>1. CASE LeaveRun
    <3>1. /\ run_depth' = run_depth - 1
          /\ \A d \in Frames : d # run_depth => pc'[d] = pc[d] /\ task'[d] = task[d]
      BY <1>1, <2>1, LeaveRunMove
    <3>2. CASE run_depth = 1
      BY <3>1, <3>2 DEF Depth, InTask
    <3>3. CASE run_depth # 1
      <4>1. run_depth - 1 \in Frames /\ run_depth - 1 > 0
        BY <1>1, <3>3, DepthAssumption DEF Frames
      <4>2. pc'[run_depth - 1] \in Running
        BY <1>1, <3>1, <4>1 DEF StackInv, Frames
      <4> QED BY <3>1, <4>1, <4>2 DEF Depth, InTask
    <3> QED BY <3>1, <3>2, <3>3
  <2>2. ASSUME NEW p \in {"delayed", "work"}, NEW worked, GoTo(p, worked),
               task' = [task EXCEPT ![run_depth] = NoTask]
        PROVE  Depth' = run_depth - 1 /\ \A d \in Frames : d # run_depth => task'[d] = task[d]
    <3>1. run_depth' = run_depth /\ pc'[run_depth] = p
      BY <1>1, <2>2, GoToMove
    <3>2. ~InTask'
      BY <3>1 DEF InTask, Running
    <3> QED BY <2>2, <3>1, <3>2 DEF Depth, TypeOK
  <2>3. LeaveRun \/ (/\ task' = [task EXCEPT ![run_depth] = NoTask]
                     /\ GoTo("delayed", TRUE) \/ GoTo("work", FALSE))
    BY DEF TaskReturn
  <2> QED BY <2>1, <2>2, <2>3
<1>3. runningBar[run_depth] = task[run_depth].id
  <2>1. run_depth \in 1..Depth
    BY <1>1, DepthAssumption DEF Frames
  <2> QED BY <2>1 DEF runningBar
<1>4. 1..Depth' = 1..(run_depth - 1)
  BY <1>1, <1>2 DEF Frames
<1>5. runningBar' = [d \in 1..(run_depth - 1) |-> task'[d].id]
  BY <1>4 DEF runningBar
<1>6. \A d \in 1..(run_depth - 1) : d \in Frames /\ d # run_depth /\ d \in 1..run_depth
  BY <1>1, DepthAssumption DEF Frames
<1>7. \A d \in 1..(run_depth - 1) : runningBar[d] = task'[d].id
  BY <1>1, <1>2, <1>6 DEF runningBar
<1>8. SubSeq(runningBar, 1, run_depth - 1) = [d \in 1..(run_depth - 1) |-> runningBar[d]]
  BY <1>1 DEF Frames
<1> QED BY <1>1, <1>3, <1>5, <1>7, <1>8

(* Steps that neither start nor end a task leave the stack as it is. *)
LEMMA KeepsRunning ==
  ASSUME TypeOK, StackInv, Calls \/ Moves \/ Stutters \/ (LeaveRun /\ run_depth > 0 /\ ~InTask)
  PROVE  runningBar' = runningBar
<1>1. run_depth \in 0..MaxDepth /\ MaxDepth \in Nat
  BY DepthAssumption DEF TypeOK
<1>2. CASE Calls
  <2>1. PICK all \in BOOLEAN : Run(all)
    BY <1>2 DEF Calls
  <2>2. run_depth' = run_depth + 1 /\ task' = task /\ pc'[run_depth'] = "work"
        /\ (run_depth = 0 \/ InTask)
    <3>1. /\ run_depth' = run_depth + 1 /\ task' = task /\ (run_depth = 0 \/ InTask)
          /\ run_depth < MaxDepth /\ pc' = [pc EXCEPT ![run_depth + 1] = "work"]
      BY <2>1 DEF Run
    <3>2. run_depth + 1 \in Frames
      BY <1>1, <3>1 DEF Frames
    <3> QED BY <3>1, <3>2 DEF TypeOK
  <2>3. Depth' = run_depth
    BY <1>1, <2>2 DEF Depth, InTask, Running
  <2>4. 1..Depth = 1..run_depth
    BY <1>1, <2>2 DEF Depth
  <2> QED BY <2>2, <2>3, <2>4 DEF runningBar
<1>3. CASE Moves
  <2>1. PICK p, worked : p \notin Running /\ GoTo(p, worked)
    BY <1>3 DEF Moves
  <2>2. run_depth' = run_depth /\ pc'[run_depth] = p /\ task' = task /\ ~InTask
    BY <1>3, <2>1, GoToMove DEF Moves
  <2>3. Depth' = Depth
    BY <2>1, <2>2 DEF Depth, InTask
  <2> QED BY <2>2, <2>3 DEF runningBar
<1>4. CASE Stutters
  BY <1>4 DEF Stutters, runningBar, Depth, InTask
<1>5. CASE LeaveRun /\ run_depth > 0 /\ ~InTask
  <2>1. /\ run_depth' = run_depth - 1
        /\ \A d \in Frames : d # run_depth => pc'[d] = pc[d] /\ task'[d] = task[d]
    BY <1>5, LeaveRunMove
  <2>2. Depth = run_depth - 1
    BY <1>5 DEF Depth
  <2>3. 1..Depth' = 1..(run_depth - 1)
    <3>1. CASE run_depth = 1
      BY <2>1, <3>1 DEF Depth, InTask
    <3>2. CASE run_depth # 1
      <4>1. run_depth - 1 \in Frames /\ run_depth - 1 # run_depth /\ run_depth - 1 > 0
        BY <1>1, <1>5, <3>2 DEF Frames
      <4>2. pc'[run_depth - 1] \in Running
        BY <1>1, <2>1, <4>1 DEF StackInv, Frames
      <4> QED BY <2>1, <4>1, <4>2 DEF Depth, InTask
    <3> QED BY <3>1, <3>2
  <2>4. \A d \in 1..(run_depth - 1) : task'[d].id = task[d].id
    <3>1. \A d \in 1..(run_depth - 1) : d \in Frames /\ d # run_depth
      BY <1>1 DEF Frames
    <3> QED BY <2>1, <3>1
  <2> QED BY <2>2, <2>3, <2>4 DEF runningBar
<1> QED BY <1>2, <1>3, <1>4, <1>5

(* A task that leaves the queues is gone from the set of queued tasks ... *)
LEMMA Removal ==
  ASSUME TypeOK, NEW t \in Task, t \in Pending, Pending' = Pending \ {t},
         \A u \in Pending : u.id = t.id => u = t
  PROVE  Stripped(t) \in queuedBar /\ queuedBar' = queuedBar \ {Stripped(t)}
<1>1. \A u \in Pending : Stripped(u) = Stripped(t) => u = t
  BY DEF Stripped
<1> QED BY <1>1 DEF queuedBar

(* ... and only tasks that move between queues leave it unchanged. *)
LEMMA PendingParts == Pending = New \cup Deferred \cup delayed_work_queue_
BY DEF Pending, New, Deferred

LEMMA KeepsQueued ==
  ASSUME TypeOK, Pending' = Pending
  PROVE  queuedBar' = queuedBar
BY DEF queuedBar, Stripped

LEMMA MovesToDelayed ==
  ASSUME TypeOK, OrderInv, Takes, Delays0
  PROVE  queuedBar' = queuedBar
<1>1. PICK n \in Nat : delayed_work_queue_' =
         delayed_work_queue_ \cup {[Head(work_queue_) EXCEPT !.sequence_num = n]}
  BY DEF Delays0
<1> DEFINE t == Head(work_queue_)
           u == [t EXCEPT !.sequence_num = n]
<1>2. t \in Task /\ New = New' \cup {t} /\ Deferred' = Deferred
  BY HeadIsFirst DEF Delays0, Deferred
<1>3. Stripped(u) = Stripped(t)
  BY <1>2 DEF Stripped, Task
<1>4. Pending = New' \cup {t} \cup Deferred \cup delayed_work_queue_
  BY <1>2, PendingParts
<1>5. Pending' = New' \cup Deferred \cup (delayed_work_queue_ \cup {u})
  BY <1>1, <1>2 DEF Pending, New, Deferred
<1> HIDE DEF t, u
<1>6. ASSUME NEW x \in Pending PROVE \E y \in Pending' : Stripped(y) = Stripped(x)
  BY <1>3, <1>4, <1>5
<1>7. ASSUME NEW x \in Pending' PROVE \E y \in Pending : Stripped(y) = Stripped(x)
  BY <1>3, <1>4, <1>5
<1>8. queuedBar' = {Stripped(x) : x \in Pending'}
  BY DEF queuedBar, Stripped
<1> QED BY <1>6, <1>7, <1>8 DEF queuedBar

LEMMA MovesToDeferred ==
  ASSUME TypeOK, OrderInv, Takes, Defers
  PROVE  queuedBar' = queuedBar
<1>1. Head(work_queue_) \in Task /\ New = New' \cup {Head(work_queue_)}
  BY HeadIsFirst
<1>2. Deferred' = Deferred \cup {Head(work_queue_)}
  BY <1>1, AppendElements DEF Deferred, Defers, TypeOK
<1>3. Pending' = New' \cup Deferred' \cup delayed_work_queue_
  BY DEF Pending, New, Deferred, Defers
<1> QED BY <1>1, <1>2, <1>3, PendingParts, KeepsQueued

-----------------------------------------------------------------------------
(* Each step of the loop is a step of the service or a stuttering step. *)

LEMMA StartOf ==
  ASSUME NEW s \in queuedBar, s.delayed_run_time <= now, s.nestable \/ runningBar = <<>>,
         Service!InOrder(s) => \A u \in queuedBar : Service!InOrder(u) => s.id <= u.id,
         queuedBar' = queuedBar \ {s}, runningBar' = Append(runningBar, s.id),
         UNCHANGED <<done, posted, now>>
  PROVE  Service!Start
BY Zenon DEF Service!Start

LEMMA StartStep ==
  ASSUME NEW t \in Task, Stripped(t) \in queuedBar, t.delayed_run_time <= now,
         t.nestable \/ runningBar = <<>>,
         \A u \in Pending : t.nestable /\ t.delayed_run_time = 0
                           /\ u.nestable /\ u.delayed_run_time = 0 => t.id <= u.id,
         queuedBar' = queuedBar \ {Stripped(t)},
         runningBar' = Append(runningBar, t.id), UNCHANGED <<done, posted, now>>
  PROVE  Service!Start
<1>1. /\ Stripped(t).id = t.id /\ Stripped(t).delayed_run_time = t.delayed_run_time
      /\ Stripped(t).nestable = t.nestable
  BY DEF Stripped
<1>2. Service!InOrder(Stripped(t)) =>
        \A v \in queuedBar : Service!InOrder(v) => Stripped(t).id <= v.id
  BY <1>1 DEF queuedBar, Stripped, Service!InOrder
<1>3. Stripped(t).nestable \/ runningBar = <<>>
  BY <1>1, Zenon
<1>4. Stripped(t).delayed_run_time <= now /\ runningBar' = Append(runningBar, Stripped(t).id)
  BY <1>1, Zenon
<1> QED BY <1>2, <1>3, <1>4, StartOf, Zenon

LEMMA EmptyStack ==
  TypeOK /\ run_depth = 1 /\ ~InTask => runningBar = <<>>
BY RunningBarIsSeq

(* No immediate nestable task is older than the head of work_queue_. *)
LEMMA HeadIsOldest ==
  ASSUME TypeOK, OrderInv, DueInv, SleepInv, Takes
  PROVE  \A u \in Pending :
           u.nestable /\ u.delayed_run_time = 0 => Head(work_queue_).id <= u.id
<1>1. \A u \in Deferred : ~u.nestable
  BY DEF DueInv, Deferred
<1>2. \A u \in delayed_work_queue_ : u.delayed_run_time # 0
  BY DEF SleepInv, Null
<1>3. \A u \in New : Head(work_queue_).id <= u.id
  BY HeadIsFirst DEF Task
<1> QED BY <1>1, <1>2, <1>3, PendingParts

LEMMA StartFromWork ==
  ASSUME IInv, RInv, DoWorkRun
  PROVE  Service!Start
<1> DEFINE t == Head(work_queue_)
<1>0. TypeOK /\ OrderInv /\ OnePlace /\ DueInv /\ SleepInv
  BY OnePlaceElements DEF IInv, RInv
<1>1. Takes /\ UNCHANGED others /\ UNCHANGED <<done, posted, now>>
  BY DEF DoWorkRun, Pop, Takes, others, queues, pump
<1>2. t \in Task /\ New = New' \cup {t} /\ \A u \in New' : u \in Task /\ t.id < u.id
  BY <1>0, <1>1, HeadIsFirst
<1>3. \A u \in New' : u.id # t.id
  BY <1>2 DEF Task
<1>4. Deferred' = Deferred /\ delayed_work_queue_' = delayed_work_queue_
  BY <1>1 DEF Deferred, others
<1>5. \A u \in Deferred \cup delayed_work_queue_ : u.id # t.id
  BY <1>0, <1>2 DEF OnePlace
<1>6. Pending' = New' \cup Deferred \cup delayed_work_queue_
  BY <1>4 DEF Pending, New, Deferred
<1>7. Pending = Pending' \cup {t} /\ \A u \in Pending' : u.id # t.id
  BY <1>2, <1>3, <1>5, <1>6, PendingParts
<1>8. run_depth > 0 /\ ~InTask /\ RunTask(t, "run_work") /\ MayRun(t)
      /\ t.delayed_run_time = Null /\ "run_work" \in Running
  BY DEF DoWorkRun, Pop, At, InTask, Running
<1>9. \A u \in Pending : u.nestable /\ u.delayed_run_time = 0 => t.id <= u.id
  BY <1>0, <1>1, HeadIsOldest
<1> HIDE DEF t
<1>10. Stripped(t) \in queuedBar /\ queuedBar' = queuedBar \ {Stripped(t)}
  <2>1. t \in Pending /\ Pending' = Pending \ {t} /\ \A u \in Pending : u.id = t.id => u = t
    BY <1>7
  <2> QED BY <1>0, <1>2, <2>1, Removal
<1>11. runningBar' = Append(runningBar, t.id)
  BY <1>0, <1>2, <1>8, StartPushes
<1>12. t.nestable \/ runningBar = <<>>
  BY <1>0, <1>8, EmptyStack DEF MayRun
<1>13. t.delayed_run_time <= now
  BY <1>0, <1>8 DEF TypeOK, Null
<1> QED BY <1>1, <1>2, <1>9, <1>10, <1>11, <1>12, <1>13, StartStep

LEMMA StartFromDelayed ==
  ASSUME IInv, RInv, DoDelayedWorkDue, UNCHANGED deferred_non_nestable_work_queue_,
         NEW t \in delayed_work_queue_, delayed_work_queue_' = delayed_work_queue_ \ {t},
         t.delayed_run_time <= recent_tick_ \/ t.delayed_run_time <= now,
         MayRun(t), RunTask(t, "run_delayed")
  PROVE  Service!Start
<1>0. TypeOK /\ OnePlace /\ DueInv /\ SleepInv
  BY OnePlaceElements DEF IInv, RInv
<1>1. UNCHANGED <<incoming_queue_, work_queue_, done, posted, now>>
  BY DEF DoDelayedWorkDue
<1>2. t \in Task
  BY <1>0 DEF TypeOK
<1>3. New' = New /\ Deferred' = Deferred
  BY <1>1 DEF New, Deferred
<1>4. \A u \in New \cup Deferred : u.id # t.id
  BY <1>0 DEF OnePlace
<1>5. Pending' = New \cup Deferred \cup (delayed_work_queue_ \ {t})
  BY <1>3 DEF Pending, New, Deferred
<1>6. t \in Pending /\ Pending' = Pending \ {t} /\ \A u \in Pending : u.id = t.id => u = t
  BY <1>0, <1>4, <1>5, PendingParts DEF OnePlace
<1>7. Stripped(t) \in queuedBar /\ queuedBar' = queuedBar \ {Stripped(t)}
  BY <1>0, <1>2, <1>6, Removal
<1>8. run_depth > 0 /\ ~InTask /\ "run_delayed" \in Running
  BY DEF DoDelayedWorkDue, At, InTask, Running
<1>9. runningBar' = Append(runningBar, t.id)
  BY <1>0, <1>2, <1>8, StartPushes
<1>10. t.nestable \/ runningBar = <<>>
  BY <1>0, <1>8, EmptyStack DEF MayRun
<1>11. t.delayed_run_time <= now
  BY <1>0, <1>2 DEF TypeOK, DueInv, Task
<1>12. t.delayed_run_time # 0
  BY <1>0 DEF SleepInv, Null
<1> QED BY <1>1, <1>2, <1>7, <1>9, <1>10, <1>11, <1>12, StartStep

LEMMA StartFromDeferred ==
  ASSUME IInv, RInv, DoIdleWorkRun
  PROVE  Service!Start
<1> DEFINE q == deferred_non_nestable_work_queue_
           t == Head(q)
<1>0. TypeOK /\ OnePlace /\ DueInv
  BY OnePlaceElements DEF IInv, RInv
<1>1. UNCHANGED <<incoming_queue_, work_queue_, delayed_work_queue_, done, posted, now>>
      /\ q # <<>> /\ q' = Tail(q) /\ RunTask(t, "run_idle")
      /\ q \in Seq(Task) /\ NoRepeat(q)
  BY <1>0 DEF DoIdleWorkRun, TypeOK, OnePlace
<1>2. t \in Task /\ Deferred = {t} \cup Deferred'
  BY <1>1, HeadTailType, HeadElements DEF Deferred
<1>3. \A u \in Deferred' : u.id # t.id
  <2>1. t = q[1] /\ \A i \in DOMAIN Tail(q) : i + 1 \in DOMAIN q /\ Tail(q)[i] = q[i + 1]
                                          /\ i + 1 # 1 /\ 1 \in DOMAIN q
    BY <1>1
  <2> QED BY <1>1, <2>1 DEF NoRepeat, Deferred, Elements
<1>4. \A u \in New \cup delayed_work_queue_ : u.id # t.id
  BY <1>0, <1>2 DEF OnePlace
<1>5. Pending' = New \cup Deferred' \cup delayed_work_queue_
  BY <1>1 DEF Pending, New, Deferred
<1>6. t \in Pending /\ Pending' = Pending \ {t} /\ \A u \in Pending : u.id = t.id => u = t
  BY <1>2, <1>3, <1>4, <1>5, PendingParts
<1>7. Stripped(t) \in queuedBar /\ queuedBar' = queuedBar \ {Stripped(t)}
  BY <1>0, <1>2, <1>6, Removal
<1>8. run_depth = 1 /\ ~InTask /\ "run_idle" \in Running
  BY DEF DoIdleWorkRun, At, InTask, Running
<1>9. runningBar' = Append(runningBar, t.id) /\ runningBar = <<>>
  BY <1>0, <1>1, <1>2, <1>8, StartPushes, EmptyStack
<1>10. ~t.nestable /\ t.delayed_run_time <= now
  BY <1>0, <1>2 DEF DueInv, Deferred
<1> QED BY <1>1, <1>2, <1>7, <1>9, <1>10, StartStep

LEMMA PostStep ==
  ASSUME TypeOK, StackInv, PermitInv, [Next]_vars, Push, UNCHANGED <<work_queue_, others>>,
         UNCHANGED <<run_depth, pc, task, permitted, done, now>>
  PROVE  Service!Post
<1>1. Pushes /\ posted' = posted + 1
  BY PushPushes DEF Pushes
<1>2. PICK t \in Task : t.id = posted + 1 /\ incoming_queue_' = Append(incoming_queue_, t)
  BY <1>1 DEF Pushes
<1>3. Pending' = Pending \cup {t}
  BY <1>2, AppendElements DEF Pending, TypeOK, others
<1>4. queuedBar' = queuedBar \cup {Stripped(t)} /\ Stripped(t).id = posted + 1
  BY <1>2, <1>3 DEF queuedBar, Stripped
<1>5. runningBar' = runningBar
  BY DEF runningBar, Depth, InTask
<1>6. \E s \in queuedBar' : s.id = posted + 1 /\ queuedBar' = queuedBar \cup {s}
  BY <1>4
<1> QED BY <1>1, <1>5, <1>6 DEF Service!Post

(* The steps of the loop that the service does not see. *)
LEMMA HiddenStep ==
  ASSUME TypeOK, Pending' = Pending \/ queuedBar' = queuedBar, runningBar' = runningBar,
         UNCHANGED <<done, posted, now>>
  PROVE  UNCHANGED Service!vars
BY KeepsQueued DEF Service!vars

LEMMA ServiceStep ==
  ASSUME IInv, RInv, [Next]_vars
  PROVE  [Service!Next]_(Service!vars)
<1> USE DEF queues, pump, stack, others
<1>0. TypeOK /\ StackInv /\ PermitInv /\ OrderInv
  BY DEF IInv, RInv
<1> DEFINE Goal == Service!Next \/ UNCHANGED Service!vars
<1>1. ASSUME NEW p \in Posters, Post(p) PROVE Goal
  BY <1>0, <1>1, PostStep DEF Post, Service!Next
<1>2. CASE TaskPost
  BY <1>0, <1>2, PostStep DEF TaskPost, Service!Next
<1>3. CASE DoWorkRun
  BY <1>3, StartFromWork DEF Service!Next
<1>4. CASE DoIdleWorkRun
  BY <1>4, StartFromDeferred DEF Service!Next
<1>5. CASE TaskReturn
  <2>1. queuedBar' = queuedBar
    BY <1>0, <1>5, KeepsQueued DEF TaskReturn, Pending
  <2> QED BY <1>0, <1>5, <2>1, ReturnPops DEF TaskReturn, Service!Finish, Service!Next
<1>6. CASE Tick
  <2>1. queuedBar' = queuedBar /\ runningBar' = runningBar
    BY <1>0, <1>6, KeepsQueued DEF Tick, Pending, runningBar, Depth, InTask
  <2> QED BY <1>6, <2>1 DEF Tick, Service!Tick, Service!Next
<1>7. ASSUME Calls \/ Moves \/ Stutters \/ (LeaveRun /\ run_depth > 0 /\ ~InTask),
             Pending' = Pending \/ queuedBar' = queuedBar, UNCHANGED <<done, posted, now>>
      PROVE  Goal
  BY <1>0, <1>7, KeepsRunning, HiddenStep
<1>8. CASE DoDelayedWorkDue
  <2>1. \E t \in delayed_work_queue_ :
          /\ t.delayed_run_time <= recent_tick_ \/ t.delayed_run_time <= now
          /\ delayed_work_queue_' = delayed_work_queue_ \ {t}
          /\ \/ /\ MayRun(t)
                /\ RunTask(t, "run_delayed")
                /\ UNCHANGED deferred_non_nestable_work_queue_
             \/ /\ deferred_non_nestable_work_queue_' =
                     Append(deferred_non_nestable_work_queue_, t)
                /\ AfterDelayed(FALSE)
                /\ UNCHANGED <<nestable_tasks_allowed_, task>>
    BY <1>8 DEF DoDelayedWorkDue
  <2>2. ASSUME NEW t \in delayed_work_queue_,
               t.delayed_run_time <= recent_tick_ \/ t.delayed_run_time <= now,
               delayed_work_queue_' = delayed_work_queue_ \ {t},
               MayRun(t), RunTask(t, "run_delayed"),
               UNCHANGED deferred_non_nestable_work_queue_
        PROVE  Goal
    BY <1>8, <2>2, StartFromDelayed DEF Service!Next
  <2>3. ASSUME NEW t \in delayed_work_queue_,
               delayed_work_queue_' = delayed_work_queue_ \ {t},
               deferred_non_nestable_work_queue_' =
                     Append(deferred_non_nestable_work_queue_, t),
               AfterDelayed(FALSE), UNCHANGED <<nestable_tasks_allowed_, task>>
        PROVE  Goal
    <3>1. t \in Task /\ UNCHANGED <<incoming_queue_, work_queue_, done, posted, now>>
          /\ run_depth > 0 /\ ~InTask
      BY <1>0, <1>8 DEF DoDelayedWorkDue, TypeOK, At, InTask, Running
    <3>2. Deferred' = Deferred \cup {t}
      BY <1>0, <2>3, <3>1, AppendElements DEF Deferred, TypeOK
    <3>3. Pending' = New \cup Deferred' \cup delayed_work_queue_'
      BY <3>1 DEF Pending, New, Deferred
    <3>4. Pending' = Pending
      BY <2>3, <3>2, <3>3, PendingParts
    <3>5. Moves
      BY <2>3, <3>1, AfterDelayedMoves DEF Moves
    <3> QED BY <1>7, <3>1, <3>4, <3>5
  <2> QED BY <2>1, <2>2, <2>3
<1>9. CASE AddToDelayedWorkQueue
  <2>1. Takes /\ Delays0
    BY <1>0, <1>9 DEF AddToDelayedWorkQueue, Pop, Takes, Delays0, TypeOK
  <2>2. Stutters /\ UNCHANGED <<done, posted, now>>
    BY <1>9 DEF AddToDelayedWorkQueue, Stutters
  <2> QED BY <1>0, <1>7, <2>1, <2>2, MovesToDelayed
<1>10. CASE DoWorkDefer
  <2>1. Takes /\ Defers
    BY <1>10 DEF DoWorkDefer, Pop, Takes, Defers
  <2>2. Stutters /\ UNCHANGED <<done, posted, now>>
    BY <1>10 DEF DoWorkDefer, Stutters
  <2> QED BY <1>0, <1>7, <2>1, <2>2, MovesToDeferred
<1>11. CASE ReloadWorkQueue
  <2>1. Pending' = Pending
    BY <1>11, NoElements DEF ReloadWorkQueue, Pending
  <2>2. Stutters /\ UNCHANGED <<done, posted, now>>
    BY <1>11 DEF ReloadWorkQueue, Stutters
  <2> QED BY <1>7, <2>1, <2>2
<1>12. CASE Quit \/ QuitNow \/ UNCHANGED vars
  BY <1>7, <1>12 DEF Quit, QuitNow, vars, Stutters, Pending
<1>13. ASSUME NEW p \in Posters, ScheduleWork(p) PROVE Goal
  BY <1>7, <1>13 DEF ScheduleWork, Stutters, Pending
<1>14. ASSUME NEW allowed \in BOOLEAN, SetNestableTasksAllowed(allowed) PROVE Goal
  BY <1>7, <1>14 DEF SetNestableTasksAllowed, Stutters, Pending
<1>15. ASSUME NEW all \in BOOLEAN, Run(all) PROVE Goal
  <2>1. Calls /\ Pending' = Pending /\ UNCHANGED <<done, posted, now>>
    BY <1>15 DEF Calls, Run, Pending
  <2> QED BY <1>7, <2>1
<1>16. CASE DoWorkNone \/ Wakeup \/ Timeout
  <2>1. Moves
    BY <1>16 DEF DoWorkNone, Wakeup, Timeout, Moves, At, InTask, Running
  <2>2. Pending' = Pending /\ UNCHANGED <<done, posted, now>>
    BY <1>16 DEF DoWorkNone, Wakeup, Timeout, Pending
  <2> QED BY <1>7, <2>1, <2>2
<1>17. CASE Wait
  <2>1. Moves
    <3>1. run_depth > 0 /\ ~InTask /\ UNCHANGED <<task, nestable_tasks_allowed_>>
      BY <1>17 DEF Wait, At, InTask, Running
    <3>2. \E p, worked : p \notin Running /\ GoTo(p, worked)
      BY <1>17 DEF Wait, Running
    <3> QED BY <3>1, <3>2 DEF Moves
  <2>2. Pending' = Pending /\ UNCHANGED <<done, posted, now>>
    BY <1>17 DEF Wait, Pending
  <2> QED BY <1>7, <2>1, <2>2
<1>18. CASE DoDelayedWorkNone \/ DoDelayedWorkLater
  <2>1. run_depth > 0 /\ ~InTask /\ UNCHANGED <<task, nestable_tasks_allowed_>>
        /\ AfterDelayed(FALSE)
    BY <1>18 DEF DoDelayedWorkNone, DoDelayedWorkLater, At, InTask, Running
  <2>2. Moves
    BY <2>1, AfterDelayedMoves DEF Moves
  <2>3. Pending' = Pending /\ UNCHANGED <<done, posted, now>>
    BY <1>18 DEF DoDelayedWorkNone, DoDelayedWorkLater, Pending
  <2> QED BY <1>7, <2>2, <2>3
<1>19. CASE DoIdleWorkNone
  <2>1. run_depth > 0 /\ ~InTask /\ UNCHANGED nestable_tasks_allowed_
    BY <1>19 DEF DoIdleWorkNone, At, InTask, Running
  <2>2. LeaveRun \/ (GoTo("wait", FALSE) /\ UNCHANGED task)
    BY <1>19 DEF DoIdleWorkNone
  <2>3. Moves \/ (LeaveRun /\ run_depth > 0 /\ ~InTask)
    BY <2>1, <2>2 DEF Moves, Running
  <2>4. Pending' = Pending /\ UNCHANGED <<done, posted, now>>
    BY <1>19 DEF DoIdleWorkNone, Pending
  <2> QED BY <1>7, <2>3, <2>4
<1> QED
  BY <1>1, <1>2, <1>3, <1>4, <1>5, <1>6, <1>8, <1>9, <1>10, <1>11, <1>12, <1>13, <1>14,
     <1>15, <1>16, <1>17, <1>18, <1>19
  DEF Next, LoopStep, TaskStep

LEMMA InitRefines == Init => RInv /\ Service!Init
<1> SUFFICES ASSUME Init PROVE RInv /\ Service!Init
  OBVIOUS
<1>1. Pending = {} /\ Elements(work_queue_) = {} /\ Elements(incoming_queue_) = {}
      /\ Elements(deferred_non_nestable_work_queue_) = {}
  BY NoElements DEF Init, Pending
<1>2. RInv
  BY <1>1 DEF Init, RInv, OrderInv, InIdOrder, OnePlaceInv, DueInv, New, Null
<1>3. queuedBar = {} /\ runningBar = <<>>
  <2>1. 1..Depth = 1..0
    BY DEF Init, Depth, InTask
  <2>2. runningBar = [d \in 1..0 |-> task[d].id]
    BY <2>1 DEF runningBar
  <2> QED BY <1>1, <2>2 DEF queuedBar
<1> QED BY <1>2, <1>3 DEF Init, Service!Init

(* The invariant of the refinement: tasks sit in one place of one queue.   *)
THEOREM QueuesAreDisjoint == Spec => []RInv
<1>1. Init => RInv
  BY InitRefines
<1>2. IInv /\ RInv /\ [Next]_vars => RInv'
  BY OrderStep, OnePlaceStep, DueStep DEF IInv, RInv
<1> QED BY <1>1, <1>2, Inductive, PTL DEF Spec

(* PostTask and its variants keep the promise of TaskService: every task   *)
(* starts once, in time, in order and nested only if it may be, whatever   *)
(* the interleaving of posters, nested Runs, quits and the clock.          *)
THEOREM LoopIsATaskService == Spec => ImplementsService
<1>1. Init => Service!Init
  BY InitRefines
<1>2. IInv /\ RInv /\ [Next]_vars => [Service!Next]_(Service!vars)
  BY ServiceStep
<1> QED BY <1>1, <1>2, Inductive, QueuesAreDisjoint, PTL
        DEF Spec, ImplementsService, Service!Spec

LEMMA FirstStep ==
  ASSUME IInv, RInv, [Next]_vars, NEW d \in Frames, Started(d),
         task'[d].nestable, task'[d].delayed_run_time = Null,
         NEW u \in Pending, u.nestable, u.delayed_run_time = Null
  PROVE  u.id >= task'[d].id
<1> USE DEF queues, pump, stack
<1>0. TypeOK /\ OrderInv /\ DueInv /\ SleepInv
  BY DEF IInv, RInv
<1>1. CASE DoWorkRun
  <2>1. Takes /\ run_depth > 0 /\ RunTask(Head(work_queue_), "run_work")
        /\ "run_work" \in Running
    BY <1>1 DEF DoWorkRun, Pop, Takes, At, Running
  <2>2. task'[d] = Head(work_queue_)
    BY <1>0, <2>1, RunTaskMove DEF Started
  <2>3. Head(work_queue_).id <= u.id
    BY <1>0, <2>1, HeadIsOldest DEF Null
  <2> QED BY <2>2, <2>3
<1>2. CASE DoDelayedWorkDue
  <2>1. run_depth > 0 /\ "run_delayed" \in Running
    BY <1>2 DEF DoDelayedWorkDue, At, Running
  <2>2. \E t \in delayed_work_queue_ : RunTask(t, "run_delayed")
    BY <1>2 DEF DoDelayedWorkDue, Started
  <2>3. ASSUME NEW t \in delayed_work_queue_, RunTask(t, "run_delayed") PROVE FALSE
    <3>1. task'[d] = t
      BY <1>0, <2>1, <2>3, RunTaskMove DEF Started
    <3> QED BY <1>0, <3>1 DEF SleepInv
  <2> QED BY <2>2, <2>3
<1>3. CASE DoIdleWorkRun
  <2>1. run_depth > 0 /\ "run_idle" \in Running
        /\ RunTask(Head(deferred_non_nestable_work_queue_), "run_idle")
    BY <1>3 DEF DoIdleWorkRun, At, Running
  <2>2. task'[d] = Head(deferred_non_nestable_work_queue_)
    BY <1>0, <2>1, RunTaskMove DEF Started
  <2>3. Head(deferred_non_nestable_work_queue_) \in Deferred
    BY <1>0, <1>3, HeadElements DEF DoIdleWorkRun, Deferred, TypeOK
  <2> QED BY <1>0, <2>2, <2>3 DEF DueInv, Deferred
<1>4. CASE TaskReturn \/ DoIdleWorkNone
  <2>1. CASE LeaveRun
    BY <1>0, <2>1 DEF LeaveRun, Started, TypeOK
  <2>2. CASE task' = task \/ task' = [task EXCEPT ![run_depth] = NoTask]
    BY <1>0, <2>2 DEF Started, TypeOK
  <2> QED BY <1>4, <2>1, <2>2 DEF TaskReturn, DoIdleWorkNone
<1>5. CASE UNCHANGED task
  BY <1>5 DEF Started
<1>6. DoWorkRun \/ DoDelayedWorkDue \/ DoIdleWorkRun \/ TaskReturn \/ DoIdleWorkNone
      \/ UNCHANGED task
  BY DEF Next, LoopStep, TaskStep, vars, Post, ScheduleWork, Run, DoWorkNone, ReloadWorkQueue,
         AddToDelayedWorkQueue, DoWorkDefer, DoDelayedWorkNone, DoDelayedWorkLater,
         Wait, Wakeup, Timeout, TaskPost, Quit, QuitNow, SetNestableTasksAllowed, Tick
<1> QED BY <1>1, <1>2, <1>3, <1>4, <1>5, <1>6

(* Immediate nestable tasks start in the order of posting. *)
THEOREM TasksStartInOrder == Spec => FirstInFirstOut
<1>1. IInv /\ RInv /\ [Next]_vars =>
        [\A d \in Frames :
           Started(d) /\ task'[d].nestable /\ task'[d].delayed_run_time = Null =>
             \A t \in Pending :
               t.nestable /\ t.delayed_run_time = Null => t.id >= task'[d].id]_vars
  BY FirstStep
<1> QED BY <1>1, Inductive, QueuesAreDisjoint, PTL DEF Spec, FirstInFirstOut

(* What the service promises by what it does. *)

(* The ids in use are those handed out, and running is a stack of them. *)
ServiceInv ==
  /\ posted \in Nat /\ done \subseteq Nat /\ runningBar \in Seq(Nat)
  /\ Service!Ids \subseteq Nat
  /\ Service!OnceEach

LEMMA PostKeeps == ASSUME ServiceInv, Service!Post PROVE ServiceInv'
<1>1. PICK t \in queuedBar' : t.id = posted + 1 /\ queuedBar' = queuedBar \cup {t}
  BY DEF Service!Post
<1>2. posted \in Nat /\ posted' = posted + 1 /\ done' = done /\ runningBar' = runningBar
      /\ Service!InProgress' = Service!InProgress
  BY DEF Service!Post, ServiceInv, Service!InProgress
<1>3. Service!Ids' = Service!Ids \cup {posted + 1}
  BY <1>1 DEF Service!Ids
<1>4. 1..posted' = 1..posted \cup {posted + 1} /\ posted + 1 \notin 1..posted
  BY <1>2
<1>5. posted + 1 \notin Service!Ids \cup Service!InProgress \cup done
  BY <1>4 DEF ServiceInv, Service!OnceEach
<1>6. \A u, v \in queuedBar' : u.id = v.id => u = v
  <2>1. \A u \in queuedBar : u.id # t.id
    BY <1>1, <1>5 DEF Service!Ids
  <2> QED BY <1>1, <2>1 DEF ServiceInv, Service!OnceEach
<1>7. 1..posted' = Service!Ids' \cup Service!InProgress' \cup done'
  BY <1>2, <1>3, <1>4 DEF ServiceInv, Service!OnceEach
<1>8. /\ Service!Ids' \cap Service!InProgress' = {}
      /\ (Service!Ids' \cup Service!InProgress') \cap done' = {}
  BY <1>2, <1>3, <1>5 DEF ServiceInv, Service!OnceEach
<1> QED BY <1>2, <1>3, <1>6, <1>7, <1>8 DEF ServiceInv, Service!OnceEach

LEMMA StartKeeps == ASSUME ServiceInv, Service!Start PROVE ServiceInv'
<1>1. PICK t \in queuedBar : queuedBar' = queuedBar \ {t} /\ runningBar' = Append(runningBar, t.id)
  BY DEF Service!Start
<1>2. posted' = posted /\ done' = done /\ t.id \in Service!Ids /\ t.id \in Nat
  BY DEF Service!Start, ServiceInv, Service!Ids
<1>3. \A u \in queuedBar : u.id = t.id => u = t
  BY DEF ServiceInv, Service!OnceEach
<1>4. Service!Ids' = Service!Ids \ {t.id}
  BY <1>1, <1>3 DEF Service!Ids
<1>5. runningBar \in Seq(Nat) /\ runningBar' \in Seq(Nat) /\ Len(runningBar') = Len(runningBar) + 1
      /\ DOMAIN runningBar' = DOMAIN runningBar \cup {Len(runningBar) + 1}
      /\ runningBar'[Len(runningBar) + 1] = t.id
      /\ \A i \in DOMAIN runningBar : runningBar'[i] = runningBar[i]
  BY <1>1, <1>2 DEF ServiceInv
<1>6. Service!InProgress' = Service!InProgress \cup {t.id}
  BY <1>5 DEF Service!InProgress
<1>7. t.id \notin Service!InProgress /\ t.id \notin done
  BY <1>2 DEF ServiceInv, Service!OnceEach
<1>8. \A i, j \in DOMAIN runningBar' : runningBar'[i] = runningBar'[j] => i = j
  BY <1>5, <1>7 DEF ServiceInv, Service!OnceEach, Service!InProgress
<1>9. /\ 1..posted' = Service!Ids' \cup Service!InProgress' \cup done'
      /\ Service!Ids' \cap Service!InProgress' = {}
      /\ (Service!Ids' \cup Service!InProgress') \cap done' = {}
  BY <1>2, <1>4, <1>6, <1>7 DEF ServiceInv, Service!OnceEach
<1>10. \A u, v \in queuedBar' : u.id = v.id => u = v
  BY <1>1 DEF ServiceInv, Service!OnceEach
<1> QED BY <1>2, <1>4, <1>5, <1>8, <1>9, <1>10 DEF ServiceInv, Service!OnceEach

LEMMA FinishKeeps == ASSUME ServiceInv, Service!Finish PROVE ServiceInv'
<1> DEFINE n == Len(runningBar)
           last == runningBar[n]
<1>1. /\ runningBar \in Seq(Nat) /\ runningBar # <<>> /\ runningBar' = SubSeq(runningBar, 1, n - 1)
      /\ done' = done \cup {last} /\ posted' = posted /\ queuedBar' = queuedBar
  BY DEF Service!Finish, ServiceInv
<1>2. n \in Nat \ {0} /\ n \in DOMAIN runningBar /\ last \in Nat
  BY <1>1
<1>3. /\ runningBar' \in Seq(Nat) /\ DOMAIN runningBar' = DOMAIN runningBar \ {n}
      /\ \A i \in DOMAIN runningBar' : runningBar'[i] = runningBar[i]
  BY <1>1, <1>2
<1>4. \A i \in DOMAIN runningBar : runningBar[i] = last => i = n
  BY <1>2 DEF ServiceInv, Service!OnceEach
<1>5. Service!InProgress' = Service!InProgress \ {last} /\ last \in Service!InProgress /\ Service!Ids' = Service!Ids
  BY <1>1, <1>2, <1>3, <1>4 DEF Service!InProgress, Service!Ids
<1> HIDE DEF last, n
<1>6. \A i, j \in DOMAIN runningBar' : runningBar'[i] = runningBar'[j] => i = j
  BY <1>3 DEF ServiceInv, Service!OnceEach
<1>7. /\ 1..posted' = Service!Ids' \cup Service!InProgress' \cup done'
      /\ Service!Ids' \cap Service!InProgress' = {}
      /\ (Service!Ids' \cup Service!InProgress') \cap done' = {}
  BY <1>1, <1>5 DEF ServiceInv, Service!OnceEach
<1> QED BY <1>1, <1>2, <1>3, <1>5, <1>6, <1>7 DEF ServiceInv, Service!OnceEach

(* A service as TaskService specifies it loses no task and starts none     *)
(* twice: each one is queued, in progress or done.                         *)
THEOREM EachTaskOnce == Service!Spec => []Service!OnceEach
<1>1. Service!Init => ServiceInv
  BY DEF Service!Init, ServiceInv, Service!OnceEach, Service!Ids, Service!InProgress
<1>2. ServiceInv /\ [Service!Next]_(Service!vars) => ServiceInv'
  <2>1. ASSUME ServiceInv, Service!Tick \/ UNCHANGED Service!vars PROVE ServiceInv'
    <3>1. UNCHANGED <<queuedBar, runningBar, done, posted>>
      BY <2>1 DEF Service!Tick, Service!vars
    <3>2. Service!Ids' = Service!Ids /\ Service!InProgress' = Service!InProgress
      BY <3>1 DEF Service!Ids, Service!InProgress
    <3> QED BY <2>1, <3>1, <3>2, Zenon DEF ServiceInv, Service!OnceEach
  <2> QED BY <2>1, PostKeeps, StartKeeps, FinishKeeps DEF Service!Next
<1>3. ServiceInv => Service!OnceEach
  BY DEF ServiceInv
<1> QED BY <1>1, <1>2, <1>3, PTL DEF Service!Spec

(* So every task posted to the loop is in its queues, in progress or done, *)
(* and in one of these only.                                               *)
THEOREM NoTaskIsLost == Spec => []Service!OnceEach
BY EachTaskOnce, LoopIsATaskService, PTL DEF ImplementsService

-----------------------------------------------------------------------------
(* QuitDrains *)

(* What PromiseInv says of one promised task. *)
Kept(d, i) ==
  /\ i <= posted
  /\ \/ i \in done
     \/ \E e \in DOMAIN runningBar : e >= d /\ runningBar[e] = i
     \/ \E t \in queuedBar : t.id = i
  /\ \A t \in queuedBar : t.id = i => t.delayed_run_time <= now /\ (t.nestable \/ d = 1)

LEMMA QueuedBarType ==
  ASSUME TypeOK, NEW t \in queuedBar
  PROVE  t.id \in Nat /\ t.delayed_run_time \in Nat
BY PendingType DEF queuedBar, Stripped, Task

LEMMA FrameRange ==
  ASSUME TypeOK
  PROVE  /\ run_depth \in Nat /\ run_depth <= MaxDepth /\ 1..run_depth \subseteq Frames
         /\ posted \in Nat /\ now \in Nat
         /\ \A d \in 1..run_depth : promised[d] \in SUBSET Nat
<1>1. run_depth \in Nat /\ run_depth <= MaxDepth /\ MaxDepth \in Nat
  BY DepthAssumption DEF TypeOK
<1>2. 1..run_depth \subseteq Frames
  BY <1>1 DEF Frames
<1> QED BY <1>1, <1>2, PostsAssumption, TimeAssumption DEF TypeOK

(* Whatever the service does, it keeps what was promised: a queued task    *)
(* starts above the frame that promised it, and one in progress returns.   *)
LEMMA KeepsPromise ==
  ASSUME TypeOK, [Service!Next]_(Service!vars),
         NEW d \in 1..run_depth, NEW i \in Nat, Kept(d, i)
  PROVE  Kept(d, i)'
<1>1. /\ runningBar \in Seq(Nat) /\ d \in Nat /\ posted \in Nat /\ now \in Nat
      /\ run_depth \in Nat /\ d <= run_depth
  BY RunningBarIsSeq, FrameRange
<1>2. CASE Service!Post
  <2>1. PICK t \in queuedBar' : t.id = posted + 1 /\ queuedBar' = queuedBar \cup {t}
    BY <1>2 DEF Service!Post
  <2>2. t.id # i
    BY <1>1, <2>1 DEF Kept
  <2> QED BY <1>1, <1>2, <2>1, <2>2 DEF Service!Post, Kept
<1>3. CASE Service!Start
  <2>1. PICK t \in queuedBar : /\ t.nestable \/ runningBar = <<>>
                              /\ queuedBar' = queuedBar \ {t}
                              /\ runningBar' = Append(runningBar, t.id)
                              /\ UNCHANGED <<done, posted, now>>
    BY <1>3 DEF Service!Start
  <2>2. t.id \in Nat /\ Len(runningBar) >= d - 1
    BY <1>1, <2>1, QueuedBarType, RunningBarIsSeq DEF Depth
  <2> DEFINE e == Len(runningBar) + 1
  <2>3. /\ e \in DOMAIN runningBar' /\ e >= d /\ runningBar'[e] = t.id
        /\ \A f \in DOMAIN runningBar : f \in DOMAIN runningBar' /\ runningBar'[f] = runningBar[f]
    BY <1>1, <2>1, <2>2
  <2> HIDE DEF e
  <2>4. \/ i \in done
        \/ \E f \in DOMAIN runningBar' : f >= d /\ runningBar'[f] = i
        \/ \E u \in queuedBar' : u.id = i
    BY <2>1, <2>3 DEF Kept
  <2> QED BY <2>1, <2>4 DEF Kept
<1>4. CASE Service!Finish
  <2> DEFINE n == Len(runningBar)
  <2>1. /\ done' = done \cup {runningBar[n]} /\ runningBar' = SubSeq(runningBar, 1, n - 1)
        /\ UNCHANGED <<queuedBar, posted, now>> /\ runningBar # <<>>
    BY <1>4 DEF Service!Finish
  <2>2. ASSUME NEW f \in DOMAIN runningBar, f # n
        PROVE  f \in DOMAIN runningBar' /\ runningBar'[f] = runningBar[f]
    BY <1>1, <2>1, <2>2
  <2>3. \/ i \in done'
        \/ \E f \in DOMAIN runningBar' : f >= d /\ runningBar'[f] = i
        \/ \E u \in queuedBar' : u.id = i
    BY <2>1, <2>2 DEF Kept
  <2> QED BY <2>1, <2>3 DEF Kept
<1>5. CASE Service!Tick
  <2>1. ASSUME NEW t \in queuedBar, t.delayed_run_time <= now
        PROVE  t.delayed_run_time <= now + 1
    BY <1>1, <2>1, QueuedBarType
  <2> QED BY <1>5, <2>1 DEF Service!Tick, Kept
<1>6. CASE UNCHANGED Service!vars
  BY <1>6 DEF Service!vars, Kept
<1> QED BY <1>2, <1>3, <1>4, <1>5, <1>6 DEF Service!Next

(* What is promised is due, and in the queues at that moment. *)
LEMMA DueIsKept ==
  ASSUME TypeOK, OnePlaceInv, Service!OnceEach, NEW d \in Nat, NEW i \in Due(d)
  PROVE  Kept(d, i)
<1>1. PICK u \in Pending : u.id = i /\ u.delayed_run_time <= now /\ (u.nestable \/ d = 1)
  BY DEF Due
<1>2. /\ Stripped(u) \in queuedBar /\ Stripped(u).id = i
      /\ Stripped(u).delayed_run_time <= now /\ (Stripped(u).nestable \/ d = 1)
  BY <1>1 DEF queuedBar, Stripped
<1>3. \A t \in queuedBar : t.id = i => t = Stripped(u)
  BY <1>2 DEF Service!OnceEach
<1>4. i <= posted
  BY <1>1 DEF OnePlaceInv
<1> QED BY <1>2, <1>3, <1>4 DEF Kept

(* Only Quit and RunAllPending promise anything; leaving a frame takes     *)
(* its promise away with it.                                               *)
LEMMA PromisedMoves ==
  ASSUME TypeOK, [Next]_vars
  PROVE  \/ Quit
         \/ \E all \in BOOLEAN : Run(all)
         \/ run_depth' <= run_depth /\ \A d \in 1..run_depth' : promised'[d] = promised[d]
<1> USE DEF stack
<1> DEFINE Goal == run_depth' <= run_depth /\ \A d \in 1..run_depth' : promised'[d] = promised[d]
<1>1. run_depth \in Nat /\ 1..run_depth \subseteq Frames
  BY FrameRange
<1>2. CASE UNCHANGED <<run_depth, promised>>
  BY <1>1, <1>2
<1>3. CASE LeaveRun
  <2>1. run_depth' = run_depth - 1 /\ promised' = [promised EXCEPT ![run_depth] = {}]
    BY <1>3 DEF LeaveRun
  <2>2. \A d \in 1..run_depth' : d \in Frames /\ d # run_depth
    BY <1>1, <2>1
  <2> QED BY <1>1, <2>1, <2>2 DEF TypeOK
<1>4. CASE TaskReturn \/ DoIdleWorkNone
  BY <1>2, <1>3, <1>4 DEF TaskReturn, DoIdleWorkNone, GoTo
<1>5. \/ Quit \/ \E all \in BOOLEAN : Run(all)
      \/ TaskReturn \/ DoIdleWorkNone
      \/ UNCHANGED <<run_depth, promised>>
  BY DEF Next, LoopStep, TaskStep, vars, Post, ScheduleWork, DoWorkNone, ReloadWorkQueue,
         AddToDelayedWorkQueue, DoWorkRun, DoWorkDefer, DoDelayedWorkNone, DoDelayedWorkLater,
         DoDelayedWorkDue, DoIdleWorkRun, Wait, Wakeup, Timeout, TaskPost, QuitNow,
         SetNestableTasksAllowed, Tick, AfterDelayed, RunTask, GoTo
<1> QED BY <1>2, <1>4, <1>5

LEMMA PromiseStep ==
  ASSUME IInv, RInv, Service!OnceEach, PromiseInv, [Next]_vars
  PROVE  PromiseInv'
<1>1. TypeOK /\ StackInv /\ PermitInv /\ OnePlaceInv
  BY DEF IInv, RInv
<1>2. [Service!Next]_(Service!vars)
  BY ServiceStep
<1>3. run_depth \in Nat /\ 1..run_depth \subseteq Frames
  BY <1>1, FrameRange
<1>4. ASSUME NEW d \in 1..run_depth, NEW i \in promised[d] PROVE Kept(d, i)'
  BY <1>1, <1>2, <1>4, KeepsPromise, FrameRange DEF PromiseInv, Kept
<1>5. ASSUME NEW d \in Nat, NEW i \in Due(d), UNCHANGED <<queuedBar, runningBar, done, posted, now>>
      PROVE  Kept(d, i)'
  BY <1>1, <1>5, DueIsKept DEF Kept
<1>6. CASE Quit
  <2>1. /\ run_depth' = run_depth /\ run_depth \in 1..run_depth
        /\ promised' = [promised EXCEPT ![run_depth] = Due(run_depth)]
        /\ UNCHANGED <<queues, done, posted, now, pc, task>>
    BY <1>3, <1>6 DEF Quit, InTask, stack
  <2>2. UNCHANGED <<queuedBar, runningBar>>
    BY <2>1 DEF queues, queuedBar, Pending, runningBar, Depth, InTask
  <2>3. ASSUME NEW d \in 1..run_depth, NEW i \in promised'[d] PROVE Kept(d, i)'
    <3>1. CASE d = run_depth
      <4>1. i \in Due(d)
        BY <1>1, <1>3, <2>1, <2>3, <3>1 DEF TypeOK
      <4> QED BY <1>3, <1>5, <2>1, <2>2, <4>1
    <3>2. CASE d # run_depth
      <4>1. i \in promised[d]
        BY <1>1, <1>3, <2>1, <2>3, <3>2 DEF TypeOK
      <4> QED BY <1>4, <4>1
    <3> QED BY <3>1, <3>2
  <2> QED BY <2>1, <2>3 DEF PromiseInv, Kept
<1>7. ASSUME NEW all \in BOOLEAN, Run(all) PROVE PromiseInv'
  <2> DEFINE n == run_depth + 1
  <2>1. /\ run_depth' = n
        /\ promised' = [promised EXCEPT ![n] =
                          IF all /\ nestable_tasks_allowed_ THEN Due(n) ELSE {}]
        /\ UNCHANGED <<queues, done, posted, now>>
    BY <1>7 DEF Run
  <2>2. UNCHANGED <<queuedBar, runningBar>>
    <3>1. Calls
      BY <1>7 DEF Calls
    <3> QED BY <1>1, <2>1, <3>1, KeepsRunning DEF queues, queuedBar, Pending
  <2>3. n \in Frames /\ n \in Nat
    BY <1>1, <1>3, <1>7, DepthAssumption DEF Run, Frames
  <2>4. ASSUME NEW d \in 1..n, NEW i \in promised'[d] PROVE Kept(d, i)'
    <3>1. CASE d = n
      <4>1. i \in Due(d)
        BY <1>1, <2>1, <2>3, <2>4, <3>1 DEF TypeOK
      <4> QED BY <1>5, <2>1, <2>2, <2>3, <3>1, <4>1
    <3>2. CASE d # n
      <4>1. d \in 1..run_depth
        BY <1>3, <3>2
      <4>2. i \in promised[d]
        BY <1>1, <1>3, <2>1, <2>4, <3>2, <4>1 DEF TypeOK
      <4> QED BY <1>4, <4>1, <4>2
    <3> QED BY <3>1, <3>2
  <2> QED BY <2>1, <2>4 DEF PromiseInv, Kept
<1>8. CASE run_depth' <= run_depth /\ \A d \in 1..run_depth' : promised'[d] = promised[d]
  <2>1. run_depth' \in Nat
    BY <1>1, StepType, FrameRange, DepthAssumption DEF TypeOK
  <2>2. 1..run_depth' \subseteq 1..run_depth
    BY <1>3, <1>8, <2>1
  <2>3. ASSUME NEW d \in 1..run_depth', NEW i \in promised'[d] PROVE Kept(d, i)'
    BY <1>4, <1>8, <2>2, <2>3
  <2> QED BY <2>3 DEF PromiseInv, Kept
<1> QED BY <1>1, <1>6, <1>7, <1>8, PromisedMoves

(* A round that finds nothing finds none of what its frame has promised.   *)
LEMMA SearchedStep ==
  ASSUME IInv, PromiseInv, SearchedInv, [Next]_vars
  PROVE  SearchedInv'
<1> USE DEF queues, pump, stack
<1>1. TypeOK /\ StackInv
  BY DEF IInv
<1>2. run_depth \in Nat /\ 1..run_depth \subseteq Frames /\ posted \in Nat
  BY <1>1, FrameRange
<1>3. run_depth > 0 => run_depth \in 1..run_depth
  BY <1>2
<1>4. CASE Enters /\ (UNCHANGED nestable_tasks_allowed_)
           /\ (promised'[run_depth'] # {} => nestable_tasks_allowed_)
  BY <1>1, <1>4, FreshFrame DEF Enters, SearchedInv, At
<1>5. ASSUME run_depth > 0, LeaveRun PROVE SearchedInv'
  <2>1. Leaves
    BY <1>1, <1>5, LeaveRunMove DEF Leaves
  <2>2. CASE run_depth = 1
    BY <2>1, <2>2 DEF Leaves, SearchedInv
  <2>3. CASE run_depth # 1
    <3>1. /\ run_depth' \in Frames /\ run_depth' < run_depth /\ run_depth' # run_depth
          /\ run_depth' > 0
      BY <1>2, <1>5, <2>1, <2>3 DEF Leaves, Frames, TypeOK
    <3>2. pc'[run_depth'] \in Running
      BY <1>1, <2>1, <3>1 DEF Leaves, StackInv
    <3> QED BY <3>1, <3>2 DEF InTask, SearchedInv
  <2> QED BY <2>2, <2>3
<1>6. CASE InTask'
  BY <1>6 DEF SearchedInv
<1>7. CASE /\ UNCHANGED <<run_depth, pc, did_work, promised, nestable_tasks_allowed_,
                          delayed_work_queue_>>
           /\ \A t \in New' : t \in New \/ t.id = posted + 1
  <2>1. \A i \in promised[run_depth] : run_depth > 0 => i # posted + 1
    BY <1>2, <1>3, FrameRange, <1>1 DEF PromiseInv
  <2> QED BY <1>7, <2>1 DEF SearchedInv, InTask, Drained, Asleep, At
<1>8. CASE UNCHANGED <<run_depth, pc, did_work, promised, nestable_tasks_allowed_>> /\ At("work")
  <2>1. ~Drained' /\ ~At("idle")' /\ ~InTask
    BY <1>8 DEF Drained, Asleep, At, InTask, Running
  <2> QED BY <1>8, <2>1 DEF SearchedInv, At, InTask
<1>9. ASSUME run_depth > 0, NEW p, NEW worked, GoTo(p, worked), UNCHANGED nestable_tasks_allowed_,
             ~InTask, UNCHANGED <<New, delayed_work_queue_>>,
             \/ p = "work" \/ (p = "delayed" /\ worked)
             \/ p \in {"delayed", "wait", "blocked", "timed"} /\ Drained
             \/ p = "delayed" /\ New = {}
             \/ p = "idle" /\ Drained
                /\ (run_depth = 1 => \A t \in delayed_work_queue_ :
                                       t.id \notin promised[run_depth])
      PROVE  SearchedInv'
  <2>1. run_depth' = run_depth /\ pc'[run_depth] = p /\ did_work'[run_depth] = worked
        /\ promised' = promised
    BY <1>1, <1>9, GoToMove DEF GoTo
  <2>2. CASE p = "work" \/ (p = "delayed" /\ worked)
    BY <1>9, <2>1, <2>2 DEF SearchedInv, Drained, Asleep, At
  <2>3. CASE \/ p \in {"delayed", "wait", "blocked", "timed"} /\ Drained
             \/ p = "delayed" /\ New = {}
    BY <1>9, <2>1, <2>3 DEF SearchedInv, At
  <2>4. CASE p = "idle" /\ Drained /\ (run_depth = 1 =>
               \A t \in delayed_work_queue_ : t.id \notin promised[run_depth])
    BY <1>9, <2>1, <2>4 DEF SearchedInv, At
  <2> QED BY <1>9, <2>2, <2>3, <2>4
<1>10. ASSUME Push, UNCHANGED work_queue_ PROVE \A t \in New' : t \in New \/ t.id = posted + 1
  <2>1. PICK t \in NewTasks : incoming_queue_' = Append(incoming_queue_, t)
    BY <1>10 DEF Push
  <2>2. t.id = posted + 1 /\ t \in Task
    BY <1>1, <1>2, <2>1, TimeAssumption, DelayAssumption
       DEF NewTasks, RunTimes, Task, TypeOK, Null
  <2>3. Elements(incoming_queue_') = Elements(incoming_queue_) \cup {t}
    BY <1>1, <2>1, <2>2, AppendElements DEF TypeOK
  <2> QED BY <1>10, <2>2, <2>3 DEF New
<1>11. ASSUME NEW p \in Posters, Post(p) \/ ScheduleWork(p) PROVE SearchedInv'
  BY <1>7, <1>10, <1>11 DEF Post, ScheduleWork, New
<1>12. CASE TaskPost \/ Quit \/ QuitNow
  BY <1>6, <1>12 DEF TaskPost, Quit, QuitNow, InTask
<1>13. ASSUME NEW allowed \in BOOLEAN, SetNestableTasksAllowed(allowed) PROVE SearchedInv'
  BY <1>6, <1>13 DEF SetNestableTasksAllowed, InTask
<1>14. ASSUME NEW all \in BOOLEAN, Run(all) PROVE SearchedInv'
  <2>1. Enters
    BY <1>1, <1>14, DepthAssumption DEF Run, Enters, Frames, TypeOK
  <2>2. promised'[run_depth'] # {} => nestable_tasks_allowed_
    BY <1>1, <1>14, DepthAssumption DEF Run, Frames, TypeOK
  <2> QED BY <1>4, <1>14, <2>1, <2>2 DEF Run
<1>15. CASE DoWorkRun \/ DoIdleWorkRun
  <2>1. run_depth > 0 /\ \E t, from : from \in Running /\ RunTask(t, from)
    BY <1>15 DEF DoWorkRun, DoIdleWorkRun, Pop, At, Running
  <2>2. InTask'
    BY <1>1, <2>1, RunTaskMove DEF InTask
  <2> QED BY <1>6, <2>2
<1>16. CASE ReloadWorkQueue \/ AddToDelayedWorkQueue \/ DoWorkDefer
  BY <1>8, <1>16 DEF ReloadWorkQueue, AddToDelayedWorkQueue, DoWorkDefer, Pop
<1>17. CASE DoWorkNone
  <2>1. /\ run_depth > 0 /\ ~InTask /\ GoTo("delayed", FALSE)
        /\ UNCHANGED <<nestable_tasks_allowed_, New, delayed_work_queue_>>
    BY <1>17 DEF DoWorkNone, At, InTask, Running, New
  <2>2. CASE nestable_tasks_allowed_
    <3>1. New = {}
      BY <1>17, <2>2, NoElements DEF DoWorkNone, New
    <3> QED BY <1>9, <2>1, <3>1
  <2>3. CASE ~nestable_tasks_allowed_
    <3>1. promised[run_depth] = {}
      BY <2>1, <2>3 DEF SearchedInv
    <3>2. run_depth' = run_depth /\ promised' = promised
      BY <2>1 DEF GoTo
    <3> QED BY <3>1, <3>2 DEF SearchedInv
  <2> QED BY <2>2, <2>3
<1>18. ASSUME AfterDelayed(FALSE), At("delayed"), UNCHANGED <<nestable_tasks_allowed_, New>>,
              run_depth = 1 => /\ \A t \in delayed_work_queue_ : t.id \notin promised[run_depth]
                               /\ UNCHANGED delayed_work_queue_
       PROVE  SearchedInv'
  <2>1. run_depth > 0 /\ ~InTask
    BY <1>18 DEF At, InTask, Running
  <2>2. /\ run_depth' = run_depth /\ promised' = promised
        /\ At("work")' \/ (At("idle")' /\ ~did_work[run_depth])
    BY <1>1, <1>18, <2>1, AfterDelayedMove DEF AfterDelayed, GoTo, At
  <2>3. CASE At("work")'
    BY <1>18, <2>1, <2>2, <2>3 DEF SearchedInv, Drained, Asleep, At
  <2>4. CASE At("idle")' /\ ~did_work[run_depth]
    <3>1. Drained
      BY <1>18, <2>4 DEF Drained
    <3> QED BY <1>18, <2>1, <2>2, <3>1 DEF SearchedInv
  <2> QED BY <2>2, <2>3, <2>4
<1>19. CASE DoDelayedWorkNone
  <2>1. /\ AfterDelayed(FALSE) /\ At("delayed") /\ run_depth > 0 /\ ~InTask
        /\ UNCHANGED <<nestable_tasks_allowed_, New, delayed_work_queue_>>
        /\ ~nestable_tasks_allowed_ \/ delayed_work_queue_ = {}
    BY <1>19 DEF DoDelayedWorkNone, New, At, InTask, Running
  <2>2. \A t \in delayed_work_queue_ : t.id \notin promised[run_depth]
    BY <2>1 DEF SearchedInv
  <2> QED BY <1>18, <2>1, <2>2
<1>20. CASE DoDelayedWorkLater
  <2>1. /\ AfterDelayed(FALSE) /\ At("delayed") /\ run_depth > 0
        /\ UNCHANGED <<nestable_tasks_allowed_, New, delayed_work_queue_>>
    BY <1>20 DEF DoDelayedWorkLater, New, At
  <2>2. PICK u \in delayed_work_queue_ :
          IsTop(u, delayed_work_queue_) /\ u.delayed_run_time > now
    BY <1>20 DEF DoDelayedWorkLater
  <2>3. ASSUME NEW t \in delayed_work_queue_, t.id \in promised[run_depth] PROVE FALSE
    <3>1. t \in Task /\ u \in Task /\ now \in Nat
      BY <1>1, FrameRange DEF TypeOK
    <3>2. u.delayed_run_time <= t.delayed_run_time
      BY <2>2, <3>1 DEF IsTop, Sooner, Task
    <3>3. Stripped(t) \in queuedBar /\ Stripped(t).id = t.id
          /\ Stripped(t).delayed_run_time = t.delayed_run_time
      BY DEF queuedBar, Pending, Stripped
    <3>4. t.delayed_run_time <= now
      BY <1>3, <2>1, <2>3, <3>3 DEF PromiseInv
    <3> QED BY <2>2, <3>1, <3>2, <3>4 DEF Task
  <2> QED BY <1>18, <2>1, <2>3
<1>21. CASE DoDelayedWorkDue
  <2>1. At("delayed") /\ run_depth > 0 /\ UNCHANGED New
    BY <1>21 DEF DoDelayedWorkDue, At, New
  <2>2. CASE \E t : RunTask(t, "run_delayed")
    <3>1. InTask'
      BY <1>1, <2>1, <2>2, RunTaskMove DEF InTask, Running
    <3> QED BY <1>6, <3>1
  <2>3. CASE AfterDelayed(FALSE) /\ run_depth # 1 /\ UNCHANGED nestable_tasks_allowed_
    BY <1>18, <2>1, <2>3
  <2> QED BY <1>21, <2>2, <2>3 DEF DoDelayedWorkDue, MayRun
<1>22. CASE DoIdleWorkNone \/ Wait \/ Wakeup \/ Timeout
  <2>1. /\ run_depth > 0 /\ ~InTask /\ Drained
        /\ UNCHANGED <<nestable_tasks_allowed_, New, delayed_work_queue_>>
    BY <1>22 DEF DoIdleWorkNone, Wait, Wakeup, Timeout, At, InTask, Running, Drained, Asleep,
                 New
  <2>2. \/ LeaveRun
        \/ \E p \in {"work", "wait", "blocked", "timed"} : GoTo(p, FALSE)
    BY <1>22 DEF DoIdleWorkNone, Wait, Wakeup, Timeout
  <2> QED BY <1>5, <1>9, <2>1, <2>2
<1>23. CASE TaskReturn
  <2>1. InTask /\ run_depth > 0 /\ nestable_tasks_allowed_'
    BY <1>23 DEF TaskReturn, InTask
  <2>2. ASSUME GoTo("delayed", TRUE) \/ GoTo("work", FALSE) PROVE SearchedInv'
    <3>1. \/ At("delayed")' /\ did_work'[run_depth']
          \/ At("work")'
      BY <1>1, <2>1, <2>2, GoToMove DEF At
    <3> QED BY <2>1, <3>1 DEF SearchedInv, Drained, Asleep, At
  <2> QED BY <1>5, <1>23, <2>1, <2>2 DEF TaskReturn
<1>24. CASE Tick \/ UNCHANGED vars
  BY <1>7, <1>24 DEF Tick, vars, New
<1> QED
  BY <1>11, <1>12, <1>13, <1>14, <1>15, <1>16, <1>17, <1>19, <1>20, <1>21, <1>22, <1>23, <1>24
  DEF Next, LoopStep, TaskStep

(* A frame is left, unless by QuitNow, when nothing it promised is queued, *)
(* but for delayed tasks in a nested frame.                                *)
LEMMA QuitStep ==
  ASSUME IInv, DueInv, QInv, [Next]_vars, run_depth' < run_depth, ~should_quit_
  PROVE  promised[run_depth] \subseteq
           done' \cup (IF run_depth = 1 THEN {} ELSE {t.id : t \in delayed_work_queue_})
<1> USE DEF queues, pump, stack
<1>1. TypeOK /\ run_depth \in Nat
  BY FrameRange DEF IInv
<1>2. DoIdleWorkNone
  BY <1>1 DEF Next, LoopStep, TaskStep, vars, Post, ScheduleWork, Run, DoWorkNone,
         ReloadWorkQueue, AddToDelayedWorkQueue, DoWorkRun, DoWorkDefer, DoDelayedWorkNone,
         DoDelayedWorkLater, DoDelayedWorkDue, DoIdleWorkRun, Wait, Wakeup, Timeout, TaskPost,
         Quit, QuitNow, SetNestableTasksAllowed, TaskReturn, Tick, AfterDelayed, RunTask, GoTo
<1>3. /\ run_depth > 0 /\ run_depth \in 1..run_depth /\ At("idle") /\ ~InTask /\ Drained
      /\ UNCHANGED done
      /\ run_depth = 1 => deferred_non_nestable_work_queue_ = <<>>
  BY <1>1, <1>2 DEF DoIdleWorkNone, At, InTask, Running, Drained
<1>4. ASSUME NEW i \in promised[run_depth], i \notin done
      PROVE  run_depth # 1 /\ i \in {t.id : t \in delayed_work_queue_}
  <2>1. \A e \in DOMAIN runningBar : ~(e >= run_depth)
    BY <1>1, <1>3, RunningBarIsSeq DEF Depth
  <2>2. PICK s \in queuedBar : s.id = i
    BY <1>3, <1>4, <2>1 DEF QInv, PromiseInv
  <2>3. PICK t \in Pending : s = Stripped(t)
    BY DEF queuedBar
  <2>4. t.id = i /\ (t.nestable \/ run_depth = 1)
    <3>1. s.nestable \/ run_depth = 1
      BY <1>3, <1>4, <2>2 DEF QInv, PromiseInv
    <3> QED BY <2>2, <2>3, <3>1 DEF Stripped
  <2>5. t \notin New
    BY <1>3, <1>4, <2>4 DEF QInv, SearchedInv
  <2>6. t \notin Elements(deferred_non_nestable_work_queue_)
    BY <1>3, <2>4, NoElements DEF DueInv
  <2>7. t \in delayed_work_queue_
    BY <2>3, <2>5, <2>6, PendingParts DEF Deferred
  <2> QED BY <1>3, <1>4, <2>4, <2>7 DEF QInv, SearchedInv
<1> QED BY <1>3, <1>4

(* Quit and RunAllPending return once every task that was pending and due  *)
(* when they were called has run, however deep Run is nested and whatever  *)
(* is posted meanwhile; a nested one may leave delayed tasks.              *)
THEOREM QuitLosesNothing == Spec => QuitDrains
<1>1. Init => QInv
  BY DEF Init, QInv, PromiseInv, SearchedInv
<1>2. IInv /\ RInv /\ Service!OnceEach /\ QInv /\ [Next]_vars => QInv'
  BY PromiseStep, SearchedStep DEF QInv
<1>3. Spec => []QInv
  BY <1>1, <1>2, Inductive, QueuesAreDisjoint, NoTaskIsLost, PTL DEF Spec
<1>4. IInv /\ RInv /\ QInv /\ [Next]_vars =>
        [run_depth' < run_depth /\ ~should_quit_ =>
           promised[run_depth] \subseteq
             done' \cup (IF run_depth = 1 THEN {} ELSE {t.id : t \in delayed_work_queue_})]_vars
  BY QuitStep DEF RInv
<1> QED BY <1>3, <1>4, Inductive, QueuesAreDisjoint, PTL DEF Spec, QuitDrains
=============================================================================
