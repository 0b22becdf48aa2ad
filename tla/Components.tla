------------------------------ MODULE Components ------------------------------
(***************************************************************************)
(* The small components around the message loop, one at a time: which of   *)
(* them a behaviour is of is chosen at the beginning, and the others stay  *)
(* as they are.  The timers appear twice, with a Poll inside another one   *)
(* ("nested", which is not asked to be fair) and without.                  *)
(***************************************************************************)
EXTENDS Integers, Sequences

CONSTANTS
  Timers, Pauses, Repeats, Second, MaxElapsed, MaxPolls, MaxMsgs,
  Runners, MaxRunners, MaxWatches,
  Threads, Main, Instances, Uses,
  Observers, MaxNesting, MaxLength

(* Addresses, intervals, counts and bounds are numbers. *)
ASSUME TimersAssumption ==
  /\ Timers \cup Pauses \cup Repeats \subseteq Nat \ {0}
  /\ {Second, MaxPolls, MaxMsgs} \subseteq Nat \ {0} /\ MaxElapsed \in Nat
ASSUME RunnersAssumption == Runners \subseteq Nat \ {0} /\ MaxRunners \in Nat
ASSUME WatchesAssumption == MaxWatches \in Nat
ASSUME InstancesAssumption ==
  /\ Main \in Threads /\ Instances \subseteq Nat \ {0}
  /\ Uses \in [Instances -> SUBSET Instances]
ASSUME ObserversAssumption ==
  Observers \subseteq Nat \ {0} /\ {MaxNesting, MaxLength} \subseteq Nat

VARIABLES
  which,
  m_aTimers, m_bMinPause, period, tick, msg, live, polls,
  runners_, thread, is_running_, quit_posted_, has_queue, wm_quit, serial, runnersMade,
  uiTasks, ui, uiRunner, cancelled,
  wait_object_, callback_, signal_weakflag_, wait, signaled, loop_, tasks, origin,
  watcher, watches, stopped, notified,
  state_, instance_, made, pc, arg, stack_, lock_, exit, task, touch, first, called,
  observers_, lazy_erase_, walks

UiTimers == INSTANCE TimerManager WITH MaxNesting <- MaxPolls
Runner == INSTANCE AsyncModalRunner WITH made <- runnersMade, tasks <- uiTasks
Watcher == INSTANCE ObjectWatcher
Lazy == INSTANCE LazyInstance
List == INSTANCE ObserverList

timers == <<m_aTimers, m_bMinPause, period, tick, msg, live, polls>>
runner == <<runners_, thread, is_running_, quit_posted_, has_queue, wm_quit, serial,
            runnersMade, uiTasks, ui, uiRunner, cancelled>>
watch == <<wait_object_, callback_, signal_weakflag_, wait, signaled, loop_, tasks, origin,
           watcher, watches, stopped, notified>>
lazy == <<state_, instance_, made, pc, arg, stack_, lock_, exit, task, touch, first, called>>
list == <<observers_, lazy_erase_, walks>>
vars == <<which, timers, runner, watch, lazy, list>>

Init ==
  /\ which \in {"timers", "nested", "runner", "watcher", "lazy", "list"}
  /\ UiTimers!Init /\ Runner!Init /\ Watcher!Init /\ Lazy!Init /\ List!Init

Next ==
  /\ UNCHANGED which
  /\ \/ /\ which \in {"timers", "nested"} /\ UiTimers!Next
        /\ which = "timers" => Len(polls') <= 1
        /\ UNCHANGED <<runner, watch, lazy, list>>
     \/ which = "runner" /\ Runner!Next /\ UNCHANGED <<timers, watch, lazy, list>>
     \/ which = "watcher" /\ Watcher!Next /\ UNCHANGED <<timers, runner, lazy, list>>
     \/ which = "lazy" /\ Lazy!Next /\ UNCHANGED <<timers, runner, watch, list>>
     \/ which = "list" /\ List!Next /\ UNCHANGED <<timers, runner, watch, lazy>>

(* A component that does not run never has a step to take. *)
Spec == Init /\ [][Next]_vars /\ Runner!Fairness /\ (which = "timers" => UiTimers!Fairness)
-----------------------------------------------------------------------------
(* Properties *)

(* Every variable keeps the shape of what it stands for. *)
TypeOK ==
  /\ UiTimers!TypeOK
  /\ Runner!TypeOK /\ Watcher!TypeOK /\ Lazy!TypeOK /\ List!TypeOK

(* TimerManager: no timer waits for a multimedia timer that is off or late, *)
WokenInTime == which = "nested" \/ UiTimers!WokenInTime

(* and every timer fires again and again until it is done. *)
TimersFire == which = "nested" \/ UiTimers!TimersFire

(* AsyncModalRunner: no runner is freed while its thread runs, *)
RunnersAreOwned == Runner!RunnersAreOwned

(* the UI thread does not wait for a user when it destroys one, *)
DestroysWithoutWaiting == Runner!DestroysWithoutWaiting

(* and every runner goes in the end. *)
RunnersGo == Runner!RunnersGo

(* ObjectWatcher: the wait thread never uses what is gone, *)
WaitThreadIsSafe == Watcher!WaitThreadIsSafe

(* and the delegate hears nothing of a watch that was stopped. *)
NotNotifiedOnceStopped == Watcher!NotNotifiedOnceStopped

(* LazyInstance: an instance is made once, *)
MadeOnce == Lazy!MadeOnce

(* and AtExitManager deletes it once. *)
CalledOnceEach == Lazy!CalledOnceEach

(* ObserverList: a traversal calls whoever stays in the list once. *)
StayingAreCalledOnce == List!StayingAreCalledOnce
=============================================================================
