---------------------------- MODULE ObjectWatcher ----------------------------
(***************************************************************************)
(* nbase::win32::ObjectWatcher: a wait thread of the system waits for an   *)
(* object and posts the watch's callback to the message loop of the thread *)
(* that started it, the origin thread, where the delegate is notified      *)
(* unless the watch has been stopped.  The watcher and the loop may both   *)
(* be destroyed while a wait is registered.                                *)
(*                                                                         *)
(* Watches are numbered, and so are weak flags, by the first watch that    *)
(* uses them; 0 stands for none, or NULL.                                  *)
(***************************************************************************)
EXTENDS Naturals, Sequences

CONSTANT MaxWatches  \* bound: how often StartWatching is called

VARIABLES
  wait_object_,
  callback_,         \* the Signal to call for a watch, and the weak flag it depends on
  signal_weakflag_,
  wait,      \* the wait thread: "none", "waiting", "post", "clear", "done"
  signaled,  \* the object is
  loop_,     \* "alive", "deleting" its tasks, or "dead"
  tasks,     \* closures posted to the loop
  origin,    \* the origin thread is "idle", or in the "delegate"
  watcher,   \* "alive" or "dead"
  watches, stopped, notified  \* watches made; cancelled by a call; notified of
vars == <<wait_object_, callback_, signal_weakflag_, wait, signaled, loop_, tasks, origin,
          watcher, watches, stopped, notified>>
watch == <<wait_object_, callback_, signal_weakflag_, wait>>

Callback(w, f) == [watch |-> w, flag |-> f]
nullptr == Callback(0, 0)

Init ==
  /\ wait_object_ = 0 /\ callback_ = nullptr /\ signal_weakflag_ = 0
  /\ wait = "none" /\ signaled = FALSE
  /\ loop_ = "alive" /\ tasks = <<>> /\ origin = "idle" /\ watcher = "alive"
  /\ watches = 0 /\ stopped = {} /\ notified = {}

-----------------------------------------------------------------------------
(* The origin thread *)

InCode == loop_ = "alive" /\ watcher = "alive"

(* A weak flag lasts until it is cancelled. *)
GetWeakFlag == IF signal_weakflag_ = 0 THEN watches + 1 ELSE signal_weakflag_

(* StartWatching while a wait is registered returns FALSE; registering may *)
(* fail, when the callback is bound already.                               *)
StartWatching ==
  /\ InCode
  /\ wait_object_ = 0 /\ watches < MaxWatches
  /\ watches' = watches + 1
  /\ signal_weakflag_' = GetWeakFlag
  /\ callback_' = Callback(watches + 1, GetWeakFlag)
  /\ \/ wait_object_' = watches + 1 /\ wait' = "waiting"
     \/ UNCHANGED <<wait_object_, wait>>
  /\ UNCHANGED <<signaled, loop_, tasks, origin, watcher, stopped, notified>>

(* Mutant of Unregister: UnregisterWaitEx with NULL does not block. *)
UnregisterAsync ==
  /\ signal_weakflag_' = 0 /\ wait_object_' = 0
  /\ wait' = IF wait = "waiting" THEN "none" ELSE wait

(* Mutant of Unregister: the weak flag is left alone. *)
UnregisterOnly ==
  /\ wait \in {"waiting", "done"}
  /\ wait_object_' = 0
  /\ wait' = "none"
  /\ UNCHANGED signal_weakflag_

(* UnregisterWaitEx blocks while DoneWaiting is in progress. *)
Unregister ==
  /\ wait \in {"waiting", "done"}
  /\ signal_weakflag_' = 0 /\ wait_object_' = 0
  /\ wait' = "none"

(* StopWatching, or nothing if no wait is registered. *)
Stop ==
  IF wait_object_ = 0 THEN UNCHANGED <<wait_object_, signal_weakflag_, wait>> ELSE Unregister

StopWatching ==
  /\ InCode /\ wait_object_ # 0
  /\ Stop
  /\ stopped' = stopped \cup {wait_object_}
  /\ UNCHANGED <<callback_, signaled, loop_, tasks, origin, watcher, watches, notified>>

(* The destructor, which also takes the weak flags along. *)
DeleteWatcher ==
  /\ watcher = "alive" /\ loop_ # "deleting"
  /\ IF wait_object_ = 0 THEN UNCHANGED <<wait_object_, wait>> /\ signal_weakflag_' = 0
     ELSE Unregister
  /\ stopped' = stopped \cup ({wait_object_} \ {0})
  /\ watcher' = "dead"
  /\ UNCHANGED <<callback_, signaled, loop_, tasks, origin, watches, notified>>

(* A posted closure: nothing if its weak flag has expired, else Signal,    *)
(* which stops the watch and notifies the delegate.                        *)
RunExpired ==
  /\ loop_ = "alive" /\ origin = "idle"
  /\ tasks # <<>> /\ signal_weakflag_ # Head(tasks).flag
  /\ tasks' = Tail(tasks)
  /\ UNCHANGED <<watch, signaled, loop_, origin, watcher, watches, stopped, notified>>

Signal ==
  /\ loop_ = "alive" /\ origin = "idle"
  /\ tasks # <<>> /\ signal_weakflag_ = Head(tasks).flag
  /\ Stop
  /\ tasks' = Tail(tasks)
  /\ notified' = notified \cup {Head(tasks).watch}
  /\ origin' = "delegate"
  /\ UNCHANGED <<callback_, signaled, loop_, watcher, watches, stopped>>

DelegateReturns ==
  /\ origin = "delegate"
  /\ origin' = "idle"
  /\ UNCHANGED <<watch, signaled, loop_, tasks, watcher, watches, stopped, notified>>

(* ~MessageLoop deletes the tasks, then tells its destruction observers.   *)
DeleteTasks ==
  /\ loop_ = "alive" /\ origin = "idle"
  /\ loop_' = "deleting"
  /\ tasks' = <<>>
  /\ UNCHANGED <<watch, signaled, origin, watcher, watches, stopped, notified>>

(* Mutant of PreDestroyCurrentMessageLoop: it does nothing. *)
PreDestroyNothing ==
  /\ loop_ = "deleting"
  /\ loop_' = "dead"
  /\ UNCHANGED <<watch, signaled, tasks, origin, watcher, watches, stopped, notified>>

PreDestroyCurrentMessageLoop ==
  /\ loop_ = "deleting"
  /\ Stop
  /\ stopped' = stopped \cup ({wait_object_} \ {0})
  /\ loop_' = "dead"
  /\ UNCHANGED <<callback_, signaled, tasks, origin, watcher, watches, notified>>

-----------------------------------------------------------------------------
(* The wait thread.  The wait is executed once. *)

Awake ==
  /\ wait = "waiting" /\ signaled
  /\ wait' = "post"
  /\ UNCHANGED <<wait_object_, callback_, signal_weakflag_, signaled, loop_, tasks, origin,
                 watcher, watches, stopped, notified>>

(* DoneWaiting: origin_loop_->PostTask(callback_), callback_ = nullptr. *)
DoneWaiting ==
  /\ wait = "post"
  /\ tasks' = Append(tasks, callback_)
  /\ wait' = "clear"
  /\ UNCHANGED <<wait_object_, callback_, signal_weakflag_, signaled, loop_, origin, watcher,
                 watches, stopped, notified>>

ClearCallback ==
  /\ wait = "clear"
  /\ callback_' = nullptr
  /\ wait' = "done"
  /\ UNCHANGED <<wait_object_, signal_weakflag_, signaled, loop_, tasks, origin, watcher,
                 watches, stopped, notified>>

(* The object: an event, a process. *)
Signaled ==
  /\ signaled' = ~signaled
  /\ UNCHANGED <<watch, loop_, tasks, origin, watcher, watches, stopped, notified>>

-----------------------------------------------------------------------------
Next ==
  \/ StartWatching \/ StopWatching \/ DeleteWatcher \/ DeleteTasks \/ Signaled
  \/ RunExpired \/ Signal \/ DelegateReturns \/ PreDestroyCurrentMessageLoop
  \/ Awake \/ DoneWaiting \/ ClearCallback

Spec == Init /\ [][Next]_vars

-----------------------------------------------------------------------------
(* Properties *)

(* Every variable keeps the shape of what it stands for. *)
TypeOK ==
  /\ {wait_object_, signal_weakflag_, watches} \subseteq 0..MaxWatches
  /\ wait \in {"none", "waiting", "post", "clear", "done"} /\ signaled \in BOOLEAN
  /\ loop_ \in {"alive", "deleting", "dead"} /\ origin \in {"idle", "delegate"}
  /\ watcher \in {"alive", "dead"} /\ callback_ \in [watch : 0..MaxWatches, flag : 0..MaxWatches]
  /\ tasks \in Seq([watch : 1..MaxWatches, flag : 1..MaxWatches])
  /\ stopped \subseteq 1..MaxWatches /\ notified \subseteq 1..MaxWatches

(* The wait thread uses the watcher only while that lives, posts to the    *)
(* loop only while that lives, and posts the callback of the watch that    *)
(* was registered.                                                         *)
WaitThreadIsSafe ==
  /\ wait \in {"post", "clear"} => watcher = "alive" /\ loop_ # "dead"
  /\ wait \in {"waiting", "post"} => callback_.watch = wait_object_ /\ wait_object_ # 0

(* StopWatching: "the associated delegate is not notified", neither after  *)
(* the call nor in a later watch.                                          *)
NotNotifiedOnceStopped ==
  [][notified' # notified => \A w \in notified' \ notified :
       w \notin stopped /\ w = wait_object_ /\ watcher = "alive"]_vars
=============================================================================
