----------------------------- MODULE MessageLoop -----------------------------
(***************************************************************************)
(* nbase::MessageLoop driven by nbase::DefaultMessagePump: the loop that   *)
(* runs the game thread and every other FrameworkThread of the program.    *)
(*                                                                         *)
(* Threads other than the loop's own post tasks through AddToIncomingQueue *)
(* (push under a lock, wake the pump after the unlock).  The loop's thread *)
(* moves tasks between its private queues and runs them one at a time; a   *)
(* task may post, quit, toggle nesting, or enter a nested Run.             *)
(*                                                                         *)
(* The C++ call stack of the loop's thread is kept as run_depth frames.    *)
(* Frame d holds what is local to the d-th nested Run: the RunState of     *)
(* message_loop.h and the did_work flag of DefaultMessagePump::Run.        *)
(***************************************************************************)
EXTENDS Integers, Sequences, FiniteSets

CONSTANTS
  Posters,   \* threads other than the loop's that post to it
  MaxPosts,  \* bound: how many tasks are ever posted
  MaxTime,   \* bound: TimeTicks::Now() stays within 1..MaxTime
  MaxDepth,  \* bound: how deep Run is nested
  Delays     \* the delays passed to PostDelayedTask

ASSUME PostsAssumption == MaxPosts \in Nat
ASSUME TimeAssumption  == MaxTime \in Nat \ {0}
ASSUME DepthAssumption == MaxDepth \in Nat \ {0}
ASSUME DelayAssumption == Delays \subseteq Nat

VARIABLES
  incoming_queue_, work_queue_, deferred_non_nestable_work_queue_,
  delayed_work_queue_, next_delayed_task_sequence_num_, recent_tick_,
  nestable_tasks_allowed_,               \* MessageLoop
  event_, should_quit_, delayed_work_time_,  \* DefaultMessagePump
  run_depth, pc, did_work, quit_received, task, \* the stack of the loop's thread
  poster_,  \* a poster is "idle", or has pushed and must still "signal"
  now,      \* TimeTicks::Now()
  posted,   \* how many tasks were posted; a task's id is its rank
  done,     \* ids of the tasks that ran to completion
  permitted, \* permitted[d]: nestable_tasks_allowed_ when frame d was entered
  promised   \* promised[d]: ids of the tasks frame d must run before it quits

queues == <<incoming_queue_, work_queue_, deferred_non_nestable_work_queue_,
            delayed_work_queue_, next_delayed_task_sequence_num_>>
pump   == <<event_, should_quit_, delayed_work_time_>>
stack  == <<run_depth, pc, did_work, quit_received, task, permitted, promised>>
vars   == <<queues, recent_tick_, nestable_tasks_allowed_, pump, stack,
            poster_, now, posted, done>>

(***************************************************************************)
(* A PendingTask.  A null delayed_run_time (0) marks an immediate task.    *)
(***************************************************************************)
Null == 0
Task == [id : Nat, delayed_run_time : Nat, nestable : BOOLEAN, sequence_num : Nat]
NoTask == [id |-> 0, delayed_run_time |-> Null, nestable |-> TRUE, sequence_num |-> 0]

Frames == 1..MaxDepth

(* Where the thread is inside frame d: in one of the delegate's calls, in  *)
(* the task that this call runs, about to wait, or waiting.                *)
Running == {"run_work", "run_delayed", "run_idle"}
Waiting == {"blocked", "timed"}
PCs == {"off", "work", "delayed", "idle", "wait"} \cup Running \cup Waiting

At(p)  == run_depth > 0 /\ pc[run_depth] = p
InTask == run_depth > 0 /\ pc[run_depth] \in Running

(* PendingTask::operator<, read as the heap uses it: t runs before u.      *)
Sooner(t, u) == \/ t.delayed_run_time < u.delayed_run_time
                \/ /\ t.delayed_run_time = u.delayed_run_time
                   /\ t.sequence_num <= u.sequence_num

IsTop(t, q) == t \in q /\ \A u \in q : Sooner(t, u)

(* Every task some queue holds. *)
Elements(q) == {q[i] : i \in DOMAIN q}
Pending == Elements(incoming_queue_) \cup Elements(work_queue_)
             \cup Elements(deferred_non_nestable_work_queue_) \cup delayed_work_queue_

Init ==
  /\ incoming_queue_ = <<>>
  /\ work_queue_ = <<>>
  /\ deferred_non_nestable_work_queue_ = <<>>
  /\ delayed_work_queue_ = {}
  /\ next_delayed_task_sequence_num_ = 0
  /\ recent_tick_ = Null
  /\ nestable_tasks_allowed_ = TRUE
  /\ event_ = FALSE
  /\ should_quit_ = FALSE
  /\ delayed_work_time_ = Null
  /\ run_depth = 0
  /\ pc = [d \in Frames |-> "off"]
  /\ did_work = [d \in Frames |-> FALSE]
  /\ quit_received = [d \in Frames |-> FALSE]
  /\ task = [d \in Frames |-> NoTask]
  /\ permitted = [d \in Frames |-> FALSE]
  /\ promised = [d \in Frames |-> {}]
  /\ poster_ = [p \in Posters |-> "idle"]
  /\ now = 1
  /\ posted = 0
  /\ done = {}

-----------------------------------------------------------------------------
(* Posting *)

(* PostTask and its three variants.  TimeTicks::Now() + delay is read      *)
(* before the lock is taken, so the stamp may be older than the push.      *)
RunTimes == {Null} \cup {s + delay : s \in 1..now, delay \in Delays}
NewTasks == [id : {posted + 1}, delayed_run_time : {t \in RunTimes : t <= MaxTime},
             nestable : BOOLEAN, sequence_num : {0}]

(* The locked part of AddToIncomingQueue. *)
Push ==
  /\ posted < MaxPosts
  /\ posted' = posted + 1
  /\ \E t \in NewTasks : incoming_queue_' = Append(incoming_queue_, t)

(* Mutant of Post: was_empty is read after the push, and nobody signals. *)
PostUnsignalled(p) ==
  /\ poster_[p] = "idle"
  /\ Push
  /\ UNCHANGED <<work_queue_, deferred_non_nestable_work_queue_, delayed_work_queue_,
                 next_delayed_task_sequence_num_, recent_tick_, nestable_tasks_allowed_,
                 pump, stack, poster_, now, done>>

(* AddToIncomingQueue on a poster's thread, up to the unlock.  Only the    *)
(* push that finds the queue empty goes on to pump->ScheduleWork().        *)
Post(p) ==
  /\ poster_[p] = "idle"
  /\ Push
  /\ poster_' = [poster_ EXCEPT ![p] = IF incoming_queue_ = <<>> THEN "signal" ELSE "idle"]
  /\ UNCHANGED <<work_queue_, deferred_non_nestable_work_queue_, delayed_work_queue_,
                 next_delayed_task_sequence_num_, recent_tick_, nestable_tasks_allowed_,
                 pump, stack, now, done>>

(* DefaultMessagePump::ScheduleWork, after the unlock. *)
ScheduleWork(p) ==
  /\ poster_[p] = "signal"
  /\ event_' = TRUE
  /\ poster_' = [poster_ EXCEPT ![p] = "idle"]
  /\ UNCHANGED <<queues, recent_tick_, nestable_tasks_allowed_, should_quit_,
                 delayed_work_time_, stack, now, posted, done>>

-----------------------------------------------------------------------------
(* Entering and leaving Run *)

(* The pending tasks that frame d could run at once. *)
Due(d) == {t.id : t \in {u \in Pending : u.delayed_run_time <= now /\ (u.nestable \/ d = 1)}}

(* Run, or RunAllPending (all), called by the thread's main function or by *)
(* a task.  AutoRunState pushes a frame.                                   *)
Run(all) ==
  /\ run_depth < MaxDepth
  /\ run_depth = 0 \/ InTask
  /\ ~should_quit_    \* assert in DefaultMessagePump::Run
  /\ run_depth' = run_depth + 1
  /\ pc' = [pc EXCEPT ![run_depth + 1] = "work"]
  /\ quit_received' = [quit_received EXCEPT ![run_depth + 1] = all]
  /\ permitted' = [permitted EXCEPT ![run_depth + 1] = nestable_tasks_allowed_]
  /\ promised' = [promised EXCEPT ![run_depth + 1] =
                    IF all /\ nestable_tasks_allowed_ THEN Due(run_depth + 1) ELSE {}]
  /\ UNCHANGED <<queues, recent_tick_, nestable_tasks_allowed_, pump, did_work, task,
                 poster_, now, posted, done>>

(* Leave the pump's for(;;): should_quit_ is reset and ~AutoRunState pops  *)
(* the frame.                                                              *)
LeaveRun ==
  /\ should_quit_' = FALSE
  /\ run_depth' = run_depth - 1
  /\ pc' = [pc EXCEPT ![run_depth] = "off"]
  /\ did_work' = [did_work EXCEPT ![run_depth] = FALSE]
  /\ quit_received' = [quit_received EXCEPT ![run_depth] = FALSE]
  /\ task' = [task EXCEPT ![run_depth] = NoTask]
  /\ permitted' = [permitted EXCEPT ![run_depth] = FALSE]
  /\ promised' = [promised EXCEPT ![run_depth] = {}]

(* Go on inside the current frame. *)
GoTo(p, worked) ==
  /\ pc' = [pc EXCEPT ![run_depth] = p]
  /\ did_work' = [did_work EXCEPT ![run_depth] = worked]
  /\ UNCHANGED <<run_depth, quit_received, permitted, promised>>

(* What follows DoDelayedWork in the pump: continue, or go idle. *)
AfterDelayed(worked) ==
  GoTo(IF did_work[run_depth] \/ worked THEN "work" ELSE "idle", FALSE)

-----------------------------------------------------------------------------
(* Running a task *)

(* RunTask up to the closure's first instruction. *)
RunTask(t, from) ==
  /\ nestable_tasks_allowed_' = FALSE
  /\ task' = [task EXCEPT ![run_depth] = t]
  /\ GoTo(from, did_work[run_depth])

(* Mutant of MayRun: the depth test is off by one. *)
MayRunNested(t) == t.nestable \/ run_depth <= 2

(* DeferOrRunPendingTask's condition. *)
MayRun(t) == t.nestable \/ run_depth = 1

(* The closure posts to its own loop: nobody waits, so push and            *)
(* ScheduleWork are one step.                                              *)
TaskPost ==
  /\ InTask
  /\ Push
  /\ event_' = (event_ \/ incoming_queue_ = <<>>)
  /\ UNCHANGED <<work_queue_, deferred_non_nestable_work_queue_, delayed_work_queue_,
                 next_delayed_task_sequence_num_, recent_tick_, nestable_tasks_allowed_,
                 should_quit_, delayed_work_time_, stack, poster_, now, done>>

(* The closure calls Quit: the innermost Run ends once it is idle. *)
Quit ==
  /\ InTask
  /\ quit_received' = [quit_received EXCEPT ![run_depth] = TRUE]
  /\ promised' = [promised EXCEPT ![run_depth] = Due(run_depth)]
  /\ UNCHANGED <<queues, recent_tick_, nestable_tasks_allowed_, pump, run_depth, pc,
                 did_work, task, permitted, poster_, now, posted, done>>

(* The closure calls QuitNow. *)
QuitNow ==
  /\ InTask
  /\ should_quit_' = TRUE
  /\ UNCHANGED <<queues, recent_tick_, nestable_tasks_allowed_, event_,
                 delayed_work_time_, stack, poster_, now, posted, done>>

(* The closure calls SetNestableTasksAllowed. *)
SetNestableTasksAllowed(allowed) ==
  /\ InTask
  /\ nestable_tasks_allowed_ # allowed
  /\ nestable_tasks_allowed_' = allowed
  /\ event_' = (event_ \/ allowed)
  /\ UNCHANGED <<queues, recent_tick_, should_quit_, delayed_work_time_, stack,
                 poster_, now, posted, done>>

(* The closure returns; RunTask allows nesting again and the delegate call *)
(* returns TRUE to the pump, which checks should_quit_ first.              *)
TaskReturn ==
  /\ InTask
  /\ nestable_tasks_allowed_' = TRUE
  /\ done' = done \cup {task[run_depth].id}
  /\ \/ /\ should_quit_
        /\ LeaveRun
     \/ /\ ~should_quit_
        /\ task' = [task EXCEPT ![run_depth] = NoTask]
        /\ IF pc[run_depth] = "run_work" THEN GoTo("delayed", TRUE) ELSE GoTo("work", FALSE)
        /\ UNCHANGED should_quit_
  /\ UNCHANGED <<queues, recent_tick_, event_, delayed_work_time_, poster_, now, posted>>

-----------------------------------------------------------------------------
(* MessageLoop::DoWork *)

(* The two ways DoWork returns FALSE: no task may run now, or there is     *)
(* none, in either queue.                                                  *)
DoWorkNone ==
  /\ At("work")
  /\ ~nestable_tasks_allowed_ \/ (work_queue_ = <<>> /\ incoming_queue_ = <<>>)
  /\ GoTo("delayed", FALSE)
  /\ UNCHANGED <<queues, recent_tick_, nestable_tasks_allowed_, pump, task,
                 poster_, now, posted, done>>

(* Mutant of ReloadWorkQueue: swaps without looking at work_queue_. *)
SwapWorkQueue ==
  /\ At("work") /\ nestable_tasks_allowed_
  /\ incoming_queue_ # <<>>
  /\ work_queue_' = incoming_queue_
  /\ incoming_queue_' = work_queue_
  /\ UNCHANGED <<deferred_non_nestable_work_queue_, delayed_work_queue_,
                 next_delayed_task_sequence_num_, recent_tick_, nestable_tasks_allowed_,
                 pump, stack, poster_, now, posted, done>>

(* Swap the queues under the lock, once work_queue_ is used up. *)
ReloadWorkQueue ==
  /\ At("work") /\ nestable_tasks_allowed_
  /\ work_queue_ = <<>> /\ incoming_queue_ # <<>>
  /\ work_queue_' = incoming_queue_
  /\ incoming_queue_' = <<>>
  /\ UNCHANGED <<deferred_non_nestable_work_queue_, delayed_work_queue_,
                 next_delayed_task_sequence_num_, recent_tick_, nestable_tasks_allowed_,
                 pump, stack, poster_, now, posted, done>>

(* Mutant of Pop: DoWork does not look at nestable_tasks_allowed_. *)
PopAnyway ==
  /\ At("work")
  /\ work_queue_ # <<>>
  /\ work_queue_' = Tail(work_queue_)

(* Take the front of work_queue_, in one of DoWork's inner iterations. *)
Pop ==
  /\ At("work") /\ nestable_tasks_allowed_
  /\ work_queue_ # <<>>
  /\ work_queue_' = Tail(work_queue_)

(* A delayed task gets its sequence number in a copy; `task' itself keeps  *)
(* 0, which is what top().sequence_num is compared with before             *)
(* ScheduleDelayedWork.                                                    *)
AddToDelayedWorkQueue ==
  /\ Pop
  /\ LET t == Head(work_queue_)
         new_task == [t EXCEPT !.sequence_num = next_delayed_task_sequence_num_]
     IN /\ t.delayed_run_time # Null
        /\ delayed_work_queue_' = delayed_work_queue_ \cup {new_task}
        /\ \E top \in delayed_work_queue_' :
             /\ IsTop(top, delayed_work_queue_')
             /\ delayed_work_time_' = IF top.sequence_num = t.sequence_num
                                      THEN t.delayed_run_time ELSE delayed_work_time_
  /\ next_delayed_task_sequence_num_' = next_delayed_task_sequence_num_ + 1
  /\ UNCHANGED <<incoming_queue_, deferred_non_nestable_work_queue_, recent_tick_,
                 nestable_tasks_allowed_, event_, should_quit_, stack, poster_, now,
                 posted, done>>

(* An immediate task runs, and DoWork returns TRUE ... *)
DoWorkRun ==
  /\ Pop
  /\ LET t == Head(work_queue_)
     IN t.delayed_run_time = Null /\ MayRun(t) /\ RunTask(t, "run_work")
  /\ UNCHANGED <<incoming_queue_, deferred_non_nestable_work_queue_, delayed_work_queue_,
                 next_delayed_task_sequence_num_, recent_tick_, pump, poster_, now,
                 posted, done>>

(* Mutant of DoWorkDefer: the task is dropped. *)
DoWorkDrop ==
  /\ Pop
  /\ LET t == Head(work_queue_) IN t.delayed_run_time = Null /\ ~MayRun(t)
  /\ UNCHANGED <<incoming_queue_, deferred_non_nestable_work_queue_, delayed_work_queue_,
                 next_delayed_task_sequence_num_, recent_tick_, nestable_tasks_allowed_,
                 pump, stack, poster_, now, posted, done>>

(* ... or is kept for the top-level Run, and DoWork goes on. *)
DoWorkDefer ==
  /\ Pop
  /\ LET t == Head(work_queue_)
     IN /\ t.delayed_run_time = Null /\ ~MayRun(t)
        /\ deferred_non_nestable_work_queue_' = Append(deferred_non_nestable_work_queue_, t)
  /\ UNCHANGED <<incoming_queue_, delayed_work_queue_, next_delayed_task_sequence_num_,
                 recent_tick_, nestable_tasks_allowed_, pump, stack, poster_, now,
                 posted, done>>

-----------------------------------------------------------------------------
(* MessageLoop::DoDelayedWork(&delayed_work_time_) *)

DoDelayedWorkNone ==
  /\ At("delayed")
  /\ ~nestable_tasks_allowed_ \/ delayed_work_queue_ = {}
  /\ delayed_work_time_' = Null
  /\ recent_tick_' = Null
  /\ AfterDelayed(FALSE)
  /\ UNCHANGED <<queues, nestable_tasks_allowed_, event_, should_quit_, task, poster_,
                 now, posted, done>>

(* Mutant of DoDelayedWorkLater: the cache gets the task's time. *)
DoDelayedWorkAhead ==
  /\ At("delayed") /\ nestable_tasks_allowed_
  /\ \E t \in delayed_work_queue_ :
       /\ IsTop(t, delayed_work_queue_)
       /\ t.delayed_run_time > recent_tick_
       /\ t.delayed_run_time > now
       /\ delayed_work_time_' = t.delayed_run_time
       /\ recent_tick_' = t.delayed_run_time
  /\ AfterDelayed(FALSE)
  /\ UNCHANGED <<queues, nestable_tasks_allowed_, event_, should_quit_, task, poster_,
                 now, posted, done>>

(* Mutant of DoDelayedWorkLater: the pump is not told the time. *)
DoDelayedWorkUntold ==
  /\ At("delayed") /\ nestable_tasks_allowed_
  /\ \E t \in delayed_work_queue_ :
       /\ IsTop(t, delayed_work_queue_)
       /\ t.delayed_run_time > recent_tick_
       /\ t.delayed_run_time > now
  /\ recent_tick_' = now
  /\ AfterDelayed(FALSE)
  /\ UNCHANGED <<queues, nestable_tasks_allowed_, pump, task, poster_, now, posted, done>>

(* The first task is due later, by the clock and not by its cached value. *)
DoDelayedWorkLater ==
  /\ At("delayed") /\ nestable_tasks_allowed_
  /\ \E t \in delayed_work_queue_ :
       /\ IsTop(t, delayed_work_queue_)
       /\ t.delayed_run_time > recent_tick_
       /\ t.delayed_run_time > now
       /\ delayed_work_time_' = t.delayed_run_time
  /\ recent_tick_' = now
  /\ AfterDelayed(FALSE)
  /\ UNCHANGED <<queues, nestable_tasks_allowed_, event_, should_quit_, task, poster_,
                 now, posted, done>>

(* The first task is due: pop it, tell the pump when the next one is, and  *)
(* run or defer it.                                                        *)
DoDelayedWorkDue ==
  /\ At("delayed") /\ nestable_tasks_allowed_
  /\ \E t \in delayed_work_queue_ :
       /\ IsTop(t, delayed_work_queue_)
       /\ t.delayed_run_time <= recent_tick_ \/ t.delayed_run_time <= now
       /\ recent_tick_' = IF t.delayed_run_time > recent_tick_ THEN now ELSE recent_tick_
       /\ delayed_work_queue_' = delayed_work_queue_ \ {t}
       /\ \/ /\ delayed_work_queue_' = {}
             /\ UNCHANGED delayed_work_time_
          \/ \E next \in delayed_work_queue_' :
               /\ IsTop(next, delayed_work_queue_')
               /\ delayed_work_time_' = next.delayed_run_time
       /\ \/ /\ MayRun(t)
             /\ RunTask(t, "run_delayed")
             /\ UNCHANGED deferred_non_nestable_work_queue_
          \/ /\ ~MayRun(t)
             /\ deferred_non_nestable_work_queue_' =
                  Append(deferred_non_nestable_work_queue_, t)
             /\ AfterDelayed(FALSE)
             /\ UNCHANGED <<nestable_tasks_allowed_, task>>
  /\ UNCHANGED <<incoming_queue_, work_queue_, next_delayed_task_sequence_num_, event_,
                 should_quit_, poster_, now, posted, done>>

-----------------------------------------------------------------------------
(* MessageLoop::DoIdleWork and the pump's wait *)

(* ProcessNextDelayedNonNestableTask *)
DoIdleWorkRun ==
  /\ At("idle") /\ run_depth = 1
  /\ deferred_non_nestable_work_queue_ # <<>>
  /\ RunTask(Head(deferred_non_nestable_work_queue_), "run_idle")
  /\ deferred_non_nestable_work_queue_' = Tail(deferred_non_nestable_work_queue_)
  /\ UNCHANGED <<incoming_queue_, work_queue_, delayed_work_queue_,
                 next_delayed_task_sequence_num_, recent_tick_, pump, poster_, now,
                 posted, done>>

(* Mutant of DoIdleWorkNone: deferred tasks do not hold it back. *)
DoIdleWorkHasty ==
  /\ At("idle")
  /\ \/ quit_received[run_depth] /\ LeaveRun
     \/ ~quit_received[run_depth] /\ GoTo("wait", FALSE) /\ UNCHANGED <<should_quit_, task>>
  /\ UNCHANGED <<queues, recent_tick_, nestable_tasks_allowed_, event_,
                 delayed_work_time_, poster_, now, posted, done>>

(* Nothing deferred: leave if Quit was called in this frame, else wait. *)
DoIdleWorkNone ==
  /\ At("idle")
  /\ run_depth > 1 \/ deferred_non_nestable_work_queue_ = <<>>
  /\ \/ quit_received[run_depth] /\ LeaveRun
     \/ ~quit_received[run_depth] /\ GoTo("wait", FALSE) /\ UNCHANGED <<should_quit_, task>>
  /\ UNCHANGED <<queues, recent_tick_, nestable_tasks_allowed_, event_,
                 delayed_work_time_, poster_, now, posted, done>>

(* Mutant of Wait: never uses the timeout. *)
WaitForever ==
  /\ At("wait")
  /\ GoTo("blocked", FALSE)
  /\ UNCHANGED <<queues, recent_tick_, nestable_tasks_allowed_, pump, task, poster_,
                 now, posted, done>>

(* Mutant of Wait: a time in the past is kept as a negative delay. *)
WaitNegative ==
  /\ At("wait")
  /\ delayed_work_time_' = delayed_work_time_ - now
  /\ GoTo(IF delayed_work_time_ > now THEN "timed" ELSE "work", FALSE)
  /\ UNCHANGED <<queues, recent_tick_, nestable_tasks_allowed_, event_, should_quit_,
                 task, poster_, now, posted, done>>

(* The end of the pump's loop: block on the event, block with a timeout,   *)
(* or go round again because the time to wait for has passed.              *)
Wait ==
  /\ At("wait")
  /\ \/ /\ delayed_work_time_ = Null
        /\ GoTo("blocked", FALSE)
        /\ UNCHANGED delayed_work_time_
     \/ /\ delayed_work_time_ > now
        /\ GoTo("timed", FALSE)
        /\ UNCHANGED delayed_work_time_
     \/ /\ delayed_work_time_ \in 1..now
        /\ GoTo("work", FALSE)
        /\ delayed_work_time_' = Null
  /\ UNCHANGED <<queues, recent_tick_, nestable_tasks_allowed_, event_, should_quit_,
                 task, poster_, now, posted, done>>

(* The auto-reset event releases the thread ... *)
Wakeup ==
  /\ At("blocked") \/ At("timed")
  /\ event_
  /\ event_' = FALSE
  /\ GoTo("work", FALSE)
  /\ UNCHANGED <<queues, recent_tick_, nestable_tasks_allowed_, should_quit_,
                 delayed_work_time_, task, poster_, now, posted, done>>

(* ... or its timeout does. *)
Timeout ==
  /\ At("timed")
  /\ now >= delayed_work_time_
  /\ GoTo("work", FALSE)
  /\ UNCHANGED <<queues, recent_tick_, nestable_tasks_allowed_, pump, task, poster_,
                 now, posted, done>>

Tick ==
  /\ now < MaxTime
  /\ now' = now + 1
  /\ UNCHANGED <<queues, recent_tick_, nestable_tasks_allowed_, pump, stack, poster_,
                 posted, done>>

-----------------------------------------------------------------------------
(* The steps the loop's thread takes on its own. *)
LoopStep ==
  \/ DoWorkNone \/ ReloadWorkQueue \/ AddToDelayedWorkQueue \/ DoWorkRun \/ DoWorkDefer
  \/ DoDelayedWorkNone \/ DoDelayedWorkLater \/ DoDelayedWorkDue
  \/ DoIdleWorkRun \/ DoIdleWorkNone \/ Wait \/ Wakeup \/ Timeout

(* The steps a closure chooses to take. *)
TaskStep ==
  \/ TaskPost \/ Quit \/ QuitNow
  \/ \E allowed \in BOOLEAN : SetNestableTasksAllowed(allowed)
  \/ TaskReturn

Next ==
  \/ \E p \in Posters : Post(p) \/ ScheduleWork(p)
  \/ \E all \in BOOLEAN : Run(all)
  \/ LoopStep
  \/ TaskStep
  \/ Tick

Spec == Init /\ [][Next]_vars

(* The scheduler runs every thread, closures return, time passes.          *)
(* Nobody is obliged to post, to quit or to call Run.                      *)
FairSpec ==
  /\ Spec
  /\ WF_vars(LoopStep)
  /\ WF_vars(TaskReturn)
  /\ \A p \in Posters : WF_vars(ScheduleWork(p))
  /\ WF_vars(Tick)

-----------------------------------------------------------------------------
(* Properties *)

(* Every variable keeps the shape of the C++ field it stands for. *)
TypeOK ==
  /\ incoming_queue_ \in Seq(Task)
  /\ work_queue_ \in Seq(Task)
  /\ deferred_non_nestable_work_queue_ \in Seq(Task)
  /\ delayed_work_queue_ \in SUBSET Task
  /\ next_delayed_task_sequence_num_ \in Nat
  /\ recent_tick_ \in Nat
  /\ nestable_tasks_allowed_ \in BOOLEAN
  /\ event_ \in BOOLEAN
  /\ should_quit_ \in BOOLEAN
  /\ delayed_work_time_ \in Nat
  /\ run_depth \in 0..MaxDepth
  /\ pc \in [Frames -> PCs]
  /\ did_work \in [Frames -> BOOLEAN]
  /\ quit_received \in [Frames -> BOOLEAN]
  /\ task \in [Frames -> Task]
  /\ permitted \in [Frames -> BOOLEAN]
  /\ promised \in [Frames -> SUBSET Nat]
  /\ poster_ \in [Posters -> {"idle", "signal"}]
  /\ now \in 1..MaxTime
  /\ posted \in 0..MaxPosts
  /\ done \in SUBSET Nat

(* A thread that waits with the event unsignalled has nothing to do: no    *)
(* task sits in work_queue_ or incoming_queue_ unless its poster has yet to *)
(* call ScheduleWork, and at the top level no task is deferred.  The       *)
(* was_empty shortcut of AddToIncomingQueue never loses a wakeup.          *)
SignalDue == event_ \/ \E p \in Posters : poster_[p] = "signal"
NoStrandedWork ==
  (At("blocked") \/ At("timed")) /\ nestable_tasks_allowed_ =>
    /\ work_queue_ = <<>>
    /\ incoming_queue_ = <<>> \/ SignalDue
    /\ run_depth = 1 => deferred_non_nestable_work_queue_ = <<>>

(* A thread that waits never sleeps past the first delayed task: with one  *)
(* queued it waits with a timeout, and not beyond that task's time, though *)
(* delayed_work_time_ is shared by all nested Runs and can be stale.       *)
NoOversleep ==
  (At("blocked") \/ At("timed")) /\ nestable_tasks_allowed_ =>
    \A t \in delayed_work_queue_ :
      At("timed") /\ delayed_work_time_ <= t.delayed_run_time

(* The loop implements the service of module TaskService: a task keeps its *)
(* identity through the four queues, the stack of nested Runs is the stack *)
(* of tasks in progress, and everything else is hidden.                    *)
Stripped(t) == [id |-> t.id, delayed_run_time |-> t.delayed_run_time, nestable |-> t.nestable]
queuedBar == {Stripped(t) : t \in Pending}
Depth == IF InTask THEN run_depth ELSE run_depth - 1
runningBar == [d \in 1..Depth |-> task[d].id]
Service == INSTANCE TaskService WITH queued <- queuedBar, running <- runningBar

(* No task is lost, started twice, started before its time although        *)
(* DoDelayedWork compares with the cached recent_tick_, started out of     *)
(* order, or nested in another when it may not be, however Run nests.      *)
ImplementsService == Service!Spec

Started(d) == task'[d] # NoTask /\ task'[d] # task[d]

(* Reentrancy protection (message_loop.h): a task starts only while        *)
(* nestable_tasks_allowed_, as RunTask asserts, also a deferred one, which *)
(* DoIdleWork runs without looking at the flag; and a nested Run starts    *)
(* tasks only if the task that entered it had allowed nesting, and only    *)
(* nestable ones.                                                          *)
NestingRespected ==
  [][\A d \in Frames : Started(d) =>
       /\ nestable_tasks_allowed_
       /\ d > 1 => permitted'[d] /\ task'[d].nestable]_vars

(* Immediate nestable tasks start in the order they were pushed, whichever *)
(* of incoming_queue_ and work_queue_ they are in and however Run nests.   *)
FirstInFirstOut ==
  [][\A d \in Frames :
       Started(d) /\ task'[d].nestable /\ task'[d].delayed_run_time = Null =>
         \A t \in Pending :
           t.nestable /\ t.delayed_run_time = Null => t.id >= task'[d].id]_vars

(* Quit and RunAllPending return only after the tasks that were pending    *)
(* and due when they were called have all run (message_loop.h); but a      *)
(* nested Run may leave due delayed tasks behind.                          *)
QuitDrains ==
  [][run_depth' < run_depth /\ ~should_quit_ =>
       promised[run_depth] \subseteq
         done' \cup (IF run_depth = 1 THEN {} ELSE {t.id : t \in delayed_work_queue_})]_vars

(***************************************************************************)
(* The inductive invariant the proofs use, by parts.                       *)
(***************************************************************************)
Asleep == At("wait") \/ At("blocked") \/ At("timed")
Drained == \/ At("delayed") /\ ~did_work[run_depth]
           \/ At("idle")
           \/ Asleep

(* All frames but the last are inside a task. *)
StackInv ==
  \A d \in Frames : /\ d < run_depth => pc[d] \in Running
                    /\ d > run_depth => pc[d] = "off"

(* Once DoWork has found nothing, nothing is in its queues unsignalled. *)
DrainedInv ==
  Drained /\ nestable_tasks_allowed_ =>
    work_queue_ = <<>> /\ (incoming_queue_ = <<>> \/ SignalDue)

(* Once DoIdleWork has found nothing at the top level, nothing is deferred. *)
DeferredInv == run_depth = 1 /\ Asleep => deferred_non_nestable_work_queue_ = <<>>

(* Once DoDelayedWork has run nothing, delayed_work_time_ bounds the wait. *)
SleepInv ==
  /\ \A t \in delayed_work_queue_ : t.delayed_run_time # Null
  /\ nestable_tasks_allowed_ /\ (At("idle") \/ Asleep) =>
       \A t \in delayed_work_queue_ :
         /\ delayed_work_time_ # Null /\ delayed_work_time_ <= t.delayed_run_time
         /\ ~At("blocked")

(* At the top level nesting is allowed between tasks; in a nested Run it   *)
(* is only when the task that entered it had allowed it.                   *)
PermitInv ==
  /\ run_depth = 0 \/ (run_depth = 1 /\ ~InTask) => nestable_tasks_allowed_
  /\ run_depth > 1 /\ (InTask \/ nestable_tasks_allowed_) => permitted[run_depth]
  /\ \A d \in Frames : task[d] # NoTask => pc[d] \in Running
  /\ \A d \in Frames : d > 1 /\ pc[d] \in Running => permitted[d] /\ task[d].nestable

IInv == TypeOK /\ StackInv /\ DrainedInv /\ DeferredInv /\ SleepInv /\ PermitInv

(* The part of the inductive invariant that the refinement needs.  A task  *)
(* is in one place of one queue, the two queues of new tasks are in the    *)
(* order of posting, and what is deferred was due, by a cached time that   *)
(* is never ahead of the clock.                                            *)
InIdOrder(q) == \A i, j \in DOMAIN q : i < j => q[i].id < q[j].id
OrderInv ==
  /\ InIdOrder(work_queue_) /\ InIdOrder(incoming_queue_)
  /\ \A t \in Elements(work_queue_), u \in Elements(incoming_queue_) : t.id < u.id
New == Elements(work_queue_) \cup Elements(incoming_queue_)
OnePlaceInv ==
  /\ \A t \in Pending : t.id <= posted
  /\ \A i, j \in DOMAIN deferred_non_nestable_work_queue_ :
       deferred_non_nestable_work_queue_[i].id = deferred_non_nestable_work_queue_[j].id => i = j
  /\ \A t, u \in delayed_work_queue_ : t.id = u.id => t = u
  /\ \A t \in New, u \in delayed_work_queue_ : t.id # u.id
  /\ \A t \in New, u \in Elements(deferred_non_nestable_work_queue_) : t.id # u.id
  /\ \A t \in delayed_work_queue_, u \in Elements(deferred_non_nestable_work_queue_) : t.id # u.id
DueInv ==
  /\ recent_tick_ <= now
  /\ \A t \in Elements(deferred_non_nestable_work_queue_) :
       ~t.nestable /\ t.delayed_run_time <= now
RInv == OrderInv /\ OnePlaceInv /\ DueInv

(* The part that QuitDrains needs.  What a frame has promised to run is    *)
(* done, in progress in that frame or above it, or queued, due, and a task *)
(* the frame may run ...                                                   *)
PromiseInv ==
  \A d \in 1..run_depth : \A i \in promised[d] :
    /\ i <= posted
    /\ \/ i \in done
       \/ \E e \in DOMAIN runningBar : e >= d /\ runningBar[e] = i
       \/ \E t \in queuedBar : t.id = i
    /\ \A t \in queuedBar : t.id = i => t.delayed_run_time <= now /\ (t.nestable \/ d = 1)

(* ... and it is no longer where the frame's last round has looked for it. *)
SearchedInv ==
  run_depth > 0 /\ ~InTask =>
    \A i \in promised[run_depth] :
      /\ nestable_tasks_allowed_
      /\ Drained => \A t \in New : t.id # i
      /\ At("idle") /\ run_depth = 1 => \A t \in delayed_work_queue_ : t.id # i
QInv == PromiseInv /\ SearchedInv

(* Every task posted to a loop that does not nest eventually runs, unless  *)
(* the loop is left first: a delayed one too, once its time has come.      *)
EveryTaskRuns ==
  \A i \in 1..MaxPosts : i <= posted ~> i \in done \/ run_depth = 0
=============================================================================
