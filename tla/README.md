# A verification project for LOL_Hero_Ranking

The repository is a Windows desktop program (`src/examples/LOL`) that follows
a running League of Legends client through the client's local HTTP service,
shows the champions a player's ARAM team can use with their op.gg ranking, and
writes recommended items and runes into the client at the press of a button.
It is built on the NIM Duilib framework, of which `src/base` (threads, message
loops, callbacks) decides how the program behaves under concurrency, and
`src/duilib` and `src/ui_components` are the user interface.

This directory holds TLA+ modules of the parts with behaviour worth checking,
their TLC configurations, and proofs for TLAPS.

## 1. Inventory

| Part | State | Operations | Interacts through |
|---|---|---|---|
| `MessageLoop`, `DefaultMessagePump` (`src/base/framework`) | four task queues, `recent_tick_`, nesting flag, the pump's event, delayed time and quit flag, one `RunState` per nested `Run` | post, run, nested run, quit, the pump's work / delayed / idle / wait rounds | the locked `incoming_queue_` and the pump's event |
| `FrameworkThread`, `Thread`, `ThreadManager`, `MessageLoopProxy` (`src/base/thread`, `src/base/framework`) | `started_`, `stopping_`, `message_loop_`, `event_`; the `ThreadMap`; the proxy's `target_message_loop_` | Start, Run, Stop, register, unregister, post by thread id | raw pointers to a loop, an unlocked map lookup, the proxy's lock |
| `LOLGame`, `LCURequest`, `OPGGRequest` (`src/examples/LOL`) | the status, the client's port and login, the summoner, three maps of champions, the current champion | `OnTimer` every 300 ms, `SetChampionConf` on request | HTTP to the client and op.gg; tasks posted to the UI |
| `MainWindow`, `main` (`src/examples/LOL`) | what is shown; the game thread object | show results, apply, close | tasks posted to the game thread; Start and Stop |
| `WinUIMessagePump`, `WinIOMessagePump` (`src/base/framework`) | `have_work_`, pump state, OS timer | message dispatch, modal loops, completion ports | window messages |
| `WeakCallback` (`src/base/callback`) | a weak flag per object | bind, expire, call | posted tasks |
| `ObserverList`, `LazyInstance`, `Singleton`, `AtExitManager` | lists and creation states | add and remove while traversing, first use, exit | threads |
| `ObjectWatcher` (`src/base/win32`) | a pool wait and its target loop | start, stop, signal | pool thread and loop |
| `TimerManager`, `Window`, controls (`src/duilib`) | timer queue, control tree | add, cancel, poll; layout, paint | window messages |
| `WindowsManager`, `AsyncModalRunner`, message boxes, menus, toasts (`src/ui_components`) | maps of windows, a modal thread | register, unregister, destroy all; run modal | threads and window messages |
| utilities (file, time, encryption, network, strings), `phlib`, `phnt`, resources | none of their own, or vendored | | |

What makes each hard, and what makes it correct:

* **Message loop.** Posters push under a lock but wake the pump after it, and
  only if the queue was empty; a private queue, a queue of delayed tasks and
  one of deferred non-nestable tasks are run in turn by a loop that may be
  nested in a task; the time of the next delayed task and the current time are
  cached. Correct if no wakeup is lost, no task is lost, doubled, early or
  slept past, the order of posting is kept, nesting is respected, and Quit
  does what its comment promises.
* **Threads.** Loops are known by raw pointers that other threads read with
  no lock. Correct if no loop is used after its deletion, the map is not raced
  for, Stop neither hangs nor drops what it promised, and a stopped thread can
  be started again.
* **Game logic.** Each handler is a series of requests between which the client
  moves on, exits, restarts or fails to answer; what was fetched early is used
  late; the window is told of changes only. Correct if the program connects
  with complete data only, shows and applies what it holds, and follows the
  client.
* **The UI thread's loop.** It must sleep until a window message or a task
  comes, and Windows may run loops of its own inside any call; tasks are
  announced by one message and one flag, set, reset and posted by several
  threads and by functions that call each other. Correct if flag and message
  agree, no notice is lost, and quitting ends `Run`.
* **Lifetimes.** A runner, a watched object, a lazy instance, an observer and a
  timer are each used by a thread, a callback or a traversal that may outlive
  them. Correct if nothing is used once gone or made twice, and whoever stays
  is called.
* **Window.** Posted results arrive later; the button is pressed whenever;
  closing joins the game thread.

`PROJECT.json` lists every hazard with its line, with the property that would
catch it, or why none does.

## 2. Modules

| Module | Models | Used by |
|---|---|---|
| `TaskService` | the promise of a loop to those who post: abstract | `MessageLoop` |
| `MessageLoop` | one loop with its pump, posters and nested runs | `MCMessageLoop`, `MessageLoopProofs` |
| `FrameworkThread` | the UI's thread, the threads it starts, the map and the proxies | `MCFrameworkThread`, `FrameworkThreadProofs` |
| `LOLGame` | the game thread's tasks, the client, the requests, the window | `MCLOLGame`, `LOLGameProofs` |
| `WinUIMessagePump` | the UI thread's pump, its window message and timer, modal loops | `MCWinUIMessagePump`, `WinUIMessagePumpProofs` |
| `TimerManager` | duilib's timers and the multimedia timer that drives them | `Components`, `MCTimerManager` |
| `AsyncModalRunner` | modal dialogs on threads of their own | `Components`, `MCAsyncModalRunner`, `AsyncModalRunnerProofs` |
| `ObjectWatcher` | a system wait that posts to a loop, weak flags | `Components`, `ObjectWatcherProofs` |
| `LazyInstance` | first use by several threads, and the exit callbacks | `Components`, `LazyInstanceProofs` |
| `ObserverList` | traversals during which observers come and go | `Components` |
| `Components` | the five above, side by side | `MCComponents`, `ComponentsProofs` |

`Components` puts the five small components side by side: a behaviour
is one of one component, chosen at the beginning, so one run (`MCComponents`)
checks them all. The timers can be chosen in two ways, with a `Poll` inside
another or without.

### MessageLoop

The stack of the loop's thread is a sequence of frames, one per `Run`:
`pc[d]` is the point frame `d` is at in `DefaultMessagePump::Run` (`work`,
`delayed`, `idle`, `wait`), in the task such a call runs (`run_work` ...), or
in the wait on the event (`blocked`, `timed`). A step is what happens between
two points at which another thread can interfere: a queue operation under
`queue_lock_`, a decision on local state, a signal. `AddToIncomingQueue` is two
steps, the push (`Push`, inside `Post`) and `ScheduleWork`. A delayed task's
time is read before the lock, so it may be older than the push; tasks of equal
time run in the order of their sequence numbers, which both are as in the
code: the number is given to the copy that is queued, and compared with that
of the original. A task may post, quit, forbid or allow nesting, and enter
`Run` or `RunAllPending`. `now` is `TimeTicks::Now()`, whose ticks are an action.

`TaskService` forgets the queues: a set of tasks, a stack of those in
progress, and the clauses under which one may start (its time has come, no
task is in progress unless it is nestable, the immediate nestable ones start in the order of
posting). `MessageLoop` maps to it with `queuedBar`, the tasks in any of
the four queues without their sequence numbers, and `runningBar`, the task of
each frame that is in one; `ImplementsService` says that every step is then one
of `TaskService`, or changes nothing there.

### FrameworkThread

A loop is numbered when it is made and a pointer is a number, so a dangling
pointer is one whose number is not the one alive in that thread. `call[t]` is
what a call has read so far: `PostTask` by id is the unlocked lookup
(`Lookup`), the dereference (`Deref`) and the push under the proxy's lock
(`PostTaskHelper`), three steps. `Run`
is `MakeLoop`, `RegisterThread`, the rest of `Init`, `SignalStarted`, the
loop, `UnregisterThread`, `DeleteLoop`, `NullLoop`. `Start` and `Stop` are each
two steps with a wait between, made by the main thread only, as in
`MainWindow.cpp`. The loop itself is reduced to what `MessageLoop` shows of it:
immediate tasks in order, delayed ones at some time, Quit once idle. The UI's
loop may leave tasks behind, since `WM_QUIT` ends it wherever it is retrieved.
After a use of a deleted loop the thread is not followed further.

### LOLGame

The game thread runs one task at a time, and `pc` is the request that the
running task makes next (`idle` between tasks), so an action is what a handler
does from one request to the next. The client is an environment: it starts, a
summoner logs in, phases change, champions are picked, it exits; `session`
stands for its port and token, and a request reaches it if `port = session`.
A request is answered, or not: because the client is gone or another one, or
because it fails, at most `MaxFailures` times. What a failure does is the
code's: an unknown phase, champion id 0, an empty team, a summoner id 0, an
untouched `login_info_`. `Teams` bounds what the other players may have; it
contains sets with 0, the id of a player without a champion yet, which the code
puts into its map like any other. `std::map::operator[]` inserts, and so does
`GetChampInfoById` and the merge of the ranking; whatever champion the ranking
has that the client does not list is 0 there. `ui_queue` holds what was posted to the window, `shown_*`
what it shows. `seen` is a history variable: the champions the program has seen
on the team in the client's present champion select. Game versions, champion
names, ranks, images (downloads that write files) and log lines are left out. An empty `rune_items` ends
the program (`pc = "crashed"`), since `SetChampionPerk` indexes it.

### WinUIMessagePump

The call stack of the UI thread is a sequence of frames: `DoRunLoop` at the
bottom once `Run` is entered, and above it whatever it called: the handler of a
window message, a task, a modal loop of the system, and in there the handlers of
the pump's own two messages (`replace`, `do_work`, `again`; `timer`, `rearm`).
The message queue is a count of `kMsgHaveWork` messages, a count of all others,
the quit flag of Windows (`WM_QUIT` is made only when no posted message
is left) and one `WM_TIMER`, which comes last. Only `ScheduleWork` on a
poster's thread is cut in two, between its `InterlockedExchange` and its
`PostMessage`; on the UI thread they are one step, except that a poster's
exchange may come between the reset and the second exchange of
`ProcessPumpReplacementMessage` (`Reschedule`). A `PeekMessage` with a filter
retrieves `WM_QUIT` like one without. Modal loops may be announced by
`set_os_modal_loop` or not, may nest, and run before `Run` as well, when the
pump's messages do nothing but reset the flag or kill the timer. The loop's queues
are those of `MessageLoop` without deferral and the cached clock; delayed
tasks keep the sequence numbers as the code compares them.

### The small components

* `TimerManager`: a timer's time is relative (`rem`, negative once due), so the
  model needs no clock; `elapsed` is how long ago a `Poll` read the time. `polls` is
  the stack of `Poll` calls: one that is in a callback, or in a modal loop a
  callback runs, may have another one above it. `period` is that of the multimedia
  timer, 0 when there is none, and stands for `m_nOldTimerId` too; `Second`
  is where slow periods begin.
* `AsyncModalRunner`: a runner is an address, used again after it was freed, and
  a serial number that only the model sees. `PostThreadMessage` to a thread
  without a queue loses `WM_QUIT`. Freeing a runner joins its thread.
* `ObjectWatcher`: the wait thread's callback is two steps (post, then clear
  `callback_`); `UnregisterWaitEx` waits for them. The loop's destructor runs
  destruction observers and then deletes its tasks.
* `LazyInstance`: the compare-and-swap and the publication are steps; a
  destructor run at exit may ask for other instances (`Uses`).
* `ObserverList`: `walks` is the stack of traversals, each with its index; who was
  called and who stayed is history.

## 3. Runs

| Run | Configuration | Instance | Shows |
|---|---|---|---|
| `loop_nested` | `MCMessageLoopNested` | one poster, 3 tasks, 2 nested runs, time 1..2 | all safety properties of the loop, and that it implements `TaskService` |
| `loop_fair` | `MCMessageLoopFair` | two posters, 3 tasks, with fairness | posting order, every task eventually runs |
| `thread_game` | `MCFrameworkThreadGame` | UI and game thread, 3 loops, 4 posts, with fairness | pointers, map, Stop, restart; Start and closing come to an end |
| `thread_misc` | `MCFrameworkThreadMisc` | a third thread | *violated*: a deleted loop is used |
| `lol_follow` | `MCLOLGameFollow` | 2 champions, 2 accounts, 2 sessions, 2 failures | what is held, and what is shown |
| `lol_apply` | `MCLOLGameApply` | 2 champions, 2 clicks, 1 failure | items and runes agree |
| `lol_fair` | `MCLOLGameFair` | 2 sessions, 2 failures, all kinds of phases | the status follows the client |
| `pump` | `MCWinUIMessagePump` | 1 poster, 2 tasks, 1 input, 2 modal loops, time 1..2, with fairness | flag and message agree, no notice is lost, tasks run, `WM_QUIT` leaves `Run` |
| `pump_quit_doc` | `MCWinUIMessagePumpQuit` | 1 modal loop nobody answers | *violated*: `WM_QUIT` does not leave `Run` |
| `components` | `MCComponents` | 2 timers; 2 addresses and 3 runners; 3 watches; 2 threads and 3 instances; 2 observers, 2 traversals | the properties of the small components |
| `timer_repeat_doc` | `MCTimerManagerNested` | 1 timer, a `Poll` inside a `Poll` | *violated*: a timer stops firing |
| `modal_cancel_doc` | `MCAsyncModalRunnerCancel` | 2 runners | *violated*: cancelling waits for the user |

Deadlock is not checked: a loop may be left for good, the program ends,
runners are closed and watches over, and with the client closed for the last
time (the bound `MaxSessions`) the program polls without changing anything. One
deadlock this would hide is real and is named under section 4.

**Why the bounds are enough.** The loop's races need a poster between push and
signal and a loop going to sleep: one poster and two tasks; the order of
posting needs two posters and a task in each queue: three tasks; the nesting
rules need a task that nests, one that is deferred and one that must not be:
three tasks, two runs, and `RunAllPending` inside a task. Pointers need one
restart after the stop: loop 1 is the UI's, 2 and 3 are the game thread's.
For the game logic, two champions tell a stale choice from the current
one, two accounts tell a stale login, two failures can fall on any two requests, one
session and its successor are what a stale port needs. `PollAfter` is 5 in the
code; it is 1 where the skipped polls matter and 0 where they do not.

The pump's flag is disturbed by a poster between its exchange and its message,
by a modal loop inside a task or a handler, and by one inside another: one
poster, two tasks (so that a delayed one can be first or second) and two modal
loops; more window messages repeat the same handler. Timers: two, to have one be called
while another waits, with a period below and one above `Second`. Runners: two
addresses, three runners, so that an address is used again while the other
runner lives. Watches: three, for one stopped, one whose task is still
posted, and one started since. Instances: one that asks for another in its
destructor, and one beside. A traversal inside another and two observers make every
order of adding and removing; the list may hold two holes.

**Fairness.** `MessageLoop`: the thread's own steps, a task's return, a
poster's `ScheduleWork` after its push, and the clock; posting, quitting and
nesting are never required. `FrameworkThread`: each thread's own steps (the
scheduler), the return of Start and Stop, and the rest of `OnClose`; the
time of a delayed task is not required to come. `LOLGame`: the repeated task
re-posts itself after each run (`RunRepeatedly2`), and the UI thread runs its
tasks; that requests return is an assumption, since `LCURequest` and `OPGGRequest`
set no timeout (`Follows` rests on it, and so does `CloseEnds`, where a request
is part of a task that returns); no user and no client has to do anything. `WinUIMessagePump`: the thread's steps, the dispatching of modal
loops, the return of window procedures and tasks, a poster's `ScheduleWork`; no
post, input, quit or answer is required, except that `FairSpec` has users
answer every dialog sooner or later, however busy its loop is (strong fairness
of `ModalEnds`), which `QuitSpec`, used by `pump_quit_doc`, has not. `TimerManager`:
the UI thread takes its messages, the multimedia timer and the clock go on,
callbacks return, also from modal loops. `AsyncModalRunner`: both threads run; no user has to
close a dialog. `Follows` assumes in addition (`SlowRestart`) that the client is
started again only after its absence was noticed.

## 4. What the runs show

* The `was_empty` shortcut of `AddToIncomingQueue` is sound: a thread asleep
  with an unsignalled event has nothing to do (`NoStrandedWork`), and never
  sleeps past a delayed task (`NoOversleep`), although `delayed_work_time_` is
  shared by nested runs.
* Whatever the nesting, the loop is a `TaskService`: each task starts once, in
  time, in order, and inside another only if it may.
* `DoWork` compares the wrong copy's sequence number (`message_loop.cpp:299`),
  so a new first delayed task is not scheduled. The default pump recovers
  because `DoDelayedWork` precedes each wait (`NoOversleep`), and so does the UI
  pump in its own loop (`LoopWaitsForNothing`); in a modal loop such a task
  waits for the timer of a later one.
* A nested `Quit` or `RunAllPending` may leave due delayed tasks behind, if a
  non-nestable one was deferred in the same round; `QuitDrains` is what holds.
* With two threads, and Start, Stop and posts where the program makes them, the
  unlocked map and the raw pointers are safe (`NoUseAfterDelete`,
  `NoMapRace`); with a third thread that posts, which `thread_manager.h`
  permits, they are not.
* Stop runs the immediate tasks pending when it is called (`StopRunsPending`) and
  deletes the delayed ones, against the comment in `framework_thread.h`.
* The program is past Launching with complete data only
  (`LoadedWhenConnected`); list, champion and summoner shown are those held,
  once posted tasks have run.
* One failed request in champion select clears the current champion, so
  the button does nothing until the next poll; one failed status request
  empties the list, and the champions given back before do not return.
  `ChampIsCurrent` and `AvailableKeepsSeen` say what holds besides.
* Without failures, items and runes written by one press belong to one
  champion, whatever the player picks meanwhile (`AppliedTogether`).
* The status follows the client (`Follows`), except for `Reconnect` and
  `WaitingForStatus`, for which `OnTimer` does nothing and which are therefore
  never left, and except for a client restarted so fast that its absence was
  not noticed, for which the old port and token are kept.
* The UI pump's flag says exactly whether a `kMsgHaveWork` is on its way
  (`OneHaveWork`), so the replacement peeked for is never one itself; notices
  dropped outside `Run`, or wasted in a modal loop while nesting is not allowed,
  are made up for before the loop sleeps (`IncomingIsAnnounced`). The exception is
  `WaitMessage`, which has no timeout: a delayed task may wait for the next message there.
* `WM_QUIT` that reaches a modal loop while the pump has work is taken and
  reposted without end until the user ends the dialog (`pump_quit_doc`);
  if he does, `Run` is left (`QuitLeaves` of `pump`).
* The multimedia timer is never too late for the first timer (`WokenInTime`),
  and timers fire (`TimersFire`), as long as no `Poll` runs inside another; one that does stops the
  multimedia timer under a timer that will be put back (`timer_repeat_doc`).
* No runner is freed while its thread runs (`RunnersAreOwned`), but `WM_QUIT` may
  be posted before there is a queue to hold it (`modal_cancel_doc`), and a
  `Deregister` left over from `CancelAllThreads` finds a later runner at the same
  address: `DestroysWithoutWaiting` exempts exactly that case.
* The object watcher is safe against its wait thread, and a stopped watch is
  never heard of (`WaitThreadIsSafe`, `NotNotifiedOnceStopped`), also when the
  posted callback finds a new watch in its place.
* A lazy instance is made once. `ProcessCallbacksNow` pops after the call, so a
  callback that registers another is called twice and the other one never;
  `CalledOnceEach` exempts destructors that ask for an instance not made before.
  One that waits for an instance another thread is making waits for ever, as
  that thread needs the manager's lock. No destructor of the program does either.
* Observers may come and go in nested traversals: whoever stays is called
  exactly once by each of them (`StayingAreCalledOnce`).

## 5. Proofs

### MessageLoop

`MessageLoopProofs` proves, for any posters, bounds, delays and depth of
nesting: type correctness; `NoStrandedWork`; `NoOversleep`;
`NestingRespected`. The assumptions are those of the module:
bounds are naturals, delays are naturals, there is at least one frame and one
tick.

None of these is inductive: that a sleeping thread has no work depends on
what each earlier step of the round found. `IInv` says it by parts, each a
statement about where the thread is:

* `StackInv`: all frames but the last are inside a task.
* `DrainedInv`: once `DoWork` has found nothing, its queues are empty or a
  signal is due; a push makes the signal due, a swap needs an empty work queue.
* `DeferredInv`: once `DoIdleWork` has found nothing at the top level, nothing
  is deferred.
* `SleepInv`: once `DoDelayedWork` has run nothing, `delayed_work_time_`
  bounds the wait from below the first delayed task. The shared variable is
  safe because every wait is preceded by `DoDelayedWork` of the same frame.
* `PermitInv`: at the top level nesting is allowed between tasks, and in a
  nested run only if it was when that run was entered.

### TaskService and the refinement

The second part of `MessageLoopProofs` proves `Spec => ImplementsService` for any posters,
bounds, delays and depth of nesting. `RInv` is the invariant it needs besides
type correctness: `OrderInv`, the ids in `work_queue_` and then
`incoming_queue_` ascend; `OnePlaceInv`, no id is in two places, and none is
beyond `posted`; `DueInv`, `recent_tick_` is never ahead of the clock and what
is deferred is due and non-nestable. The steps are then sorted: those that
start a task (from the work queue, the delayed queue, or the deferred one) take
one element from `queuedBar` and push one on `runningBar`; those that return
pop one; a post adds one; the clock ticks; the others move a task between
queues, or touch none, and stutter. `HeadIsOldest` gives the order of starting,
and `FirstInFirstOut` follows in the same way (`TasksStartInOrder`).
That a service neither loses nor doubles a task (`EachTaskOnce`) is proved of
the abstract specification alone, and `NoTaskIsLost` carries it over to the loop.

The refinement then serves `QuitDrains` (theorem `QuitLosesNothing`), which
speaks of tasks from the call of `Quit` until its frame is left. `PromiseInv`:
what a frame has promised is done, in progress in that frame or above it, or
still queued, due, and of a kind the frame may run. It is preserved because
every step is one of the service's (`KeepsPromise`), and a new promise is of
queued tasks, which `NoTaskIsLost` makes unique (`DueIsKept`). `SearchedInv`:
from the `DoWork` that found nothing on, no promised task is in the two queues
of new tasks, and at the top level, from `DoDelayedWork` on, none is delayed;
so none is left when `DoIdleWork` has nothing to do. It also says that nesting
is allowed in a frame that has promised anything, or `DoWork` would not look.

### FrameworkThread

`FrameworkThreadProofs` proves, for any number of workers: type correctness;
`StoppedIsReset`; `StopRunsPending`. The assumptions are that bounds are
naturals and that a thread may be started at least once.

Whether a field may be read depends on where another thread is, so `IInv` ties
every thread's fields to its place in `Run` and to the main thread's:

* `CallInv`: where a call returns to, and that only the main thread starts and
  stops threads.
* `LoopInv`: a thread is in the `ThreadMap`, and its raw pointer, its proxy and
  its loop are the same, between registering and the end of `Run`; before and
  after, its loop has no queues.
* `MainInv`: the main thread is in its loop before any worker is started and
  leaves it only when all are stopped; `UnstoppedInv`: nobody stops it.
* `WorkerInv`: a worker begins only while `Start` waits for it, and its event is
  signalled only then; it leaves its loop only while `Stop` joins it; `started_`
  and `stopping_` say which.
* `PromiseInv`: a task pending when `Stop` was called is done, in progress, or
  still in the queue, since `Stop`'s own task is behind it.

`NoUseAfterDelete` and `NoMapRace` hold because the program starts one thread
besides the main one: the two threads that may use the map and each other's
loops are in lockstep while either begins or ends. Their theorems have that as
a hypothesis, `OneWorker`. It is not a convenience: run `thread_misc` has
two workers and shows `NoUseAfterDelete` violated. `NobodyLooks` is the lemma:
with one worker, a thread whose loop is about to be made or deleted is looked
up by no other.

### WinUIMessagePump

`WinUIMessagePumpProofs` proves, for any posters, bounds and delays and any
depth of modal loops: type correctness; `OneHaveWork`; `IncomingIsAnnounced`;
`LoopWaitsForNothing`. The assumptions are that there are finitely many
posters, that bounds and delays are naturals, and that there is one tick.

A call stack of any depth makes most actions alike, so a step is first sorted
by what it does to the stack (lemma `StepMoves`: the executing frame goes on,
calls, returns, or a modal loop puts a frame above it) and by what it changes
(`Changes`). The parts of `IInv`, each with its lemma:

* `StackInv`: once in `Run` the bottom frame is `DoRunLoop`'s and no other is;
  outside there are modal loops and window procedures only.
* `NestInv`: nesting is forbidden only while a task is in progress. So
  `DoWork` and `DoDelayedWork` of the bottom frame never return for that reason.
* `InputInv`: no more messages are pending than have arrived.
* `OneHaveWork` is inductive with `StackInv`: the frames that replace
  `kMsgHaveWork` are counted as what they hold (`ReplacingBegins`,
  `ReplacingEnds`, `ReplacingStays`).
* `WaitInv`: from the `DoWork` that found nothing to the wait (`Settled`) no
  frame is above `DoRunLoop`, the work queue stays empty and any push is
  announced; once `DoDelayedWork` found nothing either (`Timed`), the timeout is
  within the first delayed task. A poster whose exchange found the flag set may
  drop its notice, because by `OneHaveWork` another is then on its way.

### LOLGame

`LOLGameProofs` proves, for any champions, teams, accounts, phases and bounds,
and for clients restarted as fast as they like (`SlowRestart` FALSE): type
correctness; `LoadedWhenConnected`; `ListIsCurrent`; `ChampIsCurrent`;
`SummonerIsCurrent`; `AvailableKeepsSeen`; `LoginIsCurrent`;
`AppliedTogether`. The assumptions
are those of the module: ids are positive, teams are of the client's
champions or 0, bounds are naturals.

A handler is cut into its requests, so what its first line tested has to be
known at its last. `IInv` adds that to the properties, by parts:

* `PhaseInv`: in which status each request is made. With it,
  `LoadedWhenConnected` is preserved: the requests that change the data are
  made while Launching only, and `operator[]` never empties a map.
* `SentInv`: what is on its way to the window, also while the program is not
  connected: a summoner is sent, then becomes the connected one. The
  properties speak of the last message of a kind, so the lemmas `SentLast`,
  `SentOther`, `ShownOther` and `ShownSame` say what posting one and showing
  one do to it.
* `ChosenInv`: the ranking is asked for, and
  a champion chosen or configured, only once champions are
  loaded, so its lookup inserts nothing into an empty map.
* `SeenInv`: as long as no request has failed, a client in a champion select
  from which something was seen is reachable and known to be there; so
  `OnGameNone` cannot empty the list in the middle of it.
* `LoginInv`: in the first session one summoner is known at most, and the
  champions are loaded only after a login that named one.
* `ApplyInv`: while no request fails in the first session, loaded champions mean
  that the client they came from is there, so an apply, which is always for a
  champion, speaks to it as the summoner who is logged in (`FirstSession`), and
  none of its requests is lost. An item set and a rune page then differ between
  two of its requests only, and for that summoner only.

In the large proofs there is one lemma per part and one step per action, or group
of actions that leave the part alone. `TypeCorrect` and `Inductive` are
the two temporal theorems; the safety theorems follow from `Inductive`.

### The small components

Three of them have a proof module of their own. Except for type correctness,
which needs that bounds are naturals and that the main thread is a thread, the
theorems make no assumption on the constants.

* `LazyInstanceProofs`: `MadeOnce` and `CalledOnceEach`. `MakerInv`:
  `kCreating` is a lock that one thread holds; `CountInv`: the constructions
  counted follow the state; `ThereInv`: what is published has been constructed,
  until the exit callbacks. For `CalledOnceEach`, `RegisterInv`: a thread about
  to register a destructor is the first to do so; `MainInv`: the main thread
  holds the manager's lock while it calls them and asks only for what the
  destructor uses; `CalledInv`: a destructor registered is on the stack or was
  called, and the one on top is both while it is called.
* `ObjectWatcherProofs`: `WaitThreadIsSafe` and `NotNotifiedOnceStopped`.
  `WaitInv`: a wait is registered only while watcher and loop live;
  `NumberInv`: watches and flags are numbered in turn; `FlagInv`: a posted
  closure whose flag is still good is that of the registered watch. The last
  needs that stopping a registered watch always cancels the flag.
* `AsyncModalRunnerProofs`: `RunnersAreOwned` and `DestroysWithoutWaiting`.
  `OwnerInv`: a runner has one owner at a time; `TaskInv`: a `Deregister` task
  of the runner that is now at its address was posted by that runner's thread
  on its way out. The serial numbers are what tells it from a task left behind
  by an earlier runner at the same address.

`ComponentsProofs` proves every invariant of run `components`, and its action
properties, of the composition. `IsRunner`, `IsWatcher` and `IsLazy` say that
a behaviour of it is one of each component, so the theorems above carry over;
the other two components are proved there:

* Observer lists, `StayingAreCalledOnce`. `ListInv`: `lazy_erase_` counts the
  traversals; the observers in the list differ; and every traversal (`WalkOK`)
  has called whoever stayed exactly if it is before its index. That is inductive because
  an entry changes its place only while `lazy_erase_` is 0, when no traversal
  is left whose index would be wrong. What `Compact` and the erasing and
  nulling of an entry do to a list are lemmas (`CompactList`, `Erase`, `Null`).
  `Compact` is specified by what its loop does (the entries that are not NULL
  are left, in their order), so that no induction is needed.
* Timers, `WokenInTime`. `ArmInv`: `m_bMinPause` with a multimedia timer means
  that it is the fast one. `WakeInv`: the multimedia timer is on as long as a
  timer is queued or being called; and between Polls, with none announced, a
  slow one is not later than the first timer plus the longest Poll. Its second
  part is given up by the message that announces a Poll and established again
  by each of the three ways in which a Poll ends; adding a timer that is due
  earlier makes the multimedia timer fast. It needs that no `Poll` runs
  inside another one: `timer_repeat_doc` shows what happens otherwise.

### Only model-checked

The liveness properties (`EveryTaskRuns`, `CloseEnds`, `Follows`, `TasksRun`,
`QuitLeaves`, `TimersFire`, `RunnersGo`), which are beyond the prover. Every
invariant and action property of a passing run is proved.


## 6. Not modelled

* `LOLGame::Test` runs the game thread's requests on the UI thread: a data race
  on `std::map` without outcomes worth enumerating.
* `PostTaskAndReply`, `Await`, `StopSoon` on its own, custom loops, the
  message loop's task observers, its destructor's 100 rounds.
* Of the UI pump: sent messages, the message filter, a dispatcher,
  `PumpOutPendingPaintMessages` (which nothing calls), and nested `Run`.
* The IO pump, which no thread of the program runs; a weak flag used by two
  threads, which no caller does; a failing `UnregisterWaitEx`; `WindowsManager`,
  whose `SingletonShow` and `DestroyAllWindows` have no caller.
* HTML and JSON parsing, command line and version reading, encryption, files,
  drawing, layout, controls: no concurrency and no protocol; vendored code.

## 7. Plan

Written: every module of section 2 with its runs, and the proofs of section 5.
What would add most next:

1. `FrameworkThread`'s reduced loop as a `TaskService`.
2. `TaskReply`: `PostTaskAndReply` across two threads.
3. `LOLGame`: fast restarts, account changes after the first session, rune
   page accounting under failures.
4. What the timers keep when a `Poll` runs inside another, besides `TypeOK`.
