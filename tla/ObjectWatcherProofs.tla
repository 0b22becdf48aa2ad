-------------------------- MODULE ObjectWatcherProofs --------------------------
(* The object watcher and its wait thread, for any number of watches. *)
EXTENDS ObjectWatcher, TLAPS

WatcherTypeOK ==
  /\ wait_object_ \in Nat /\ signal_weakflag_ \in Nat /\ watches \in Nat
  /\ callback_ \in [watch : Nat, flag : Nat]
  /\ tasks \in Seq([watch : Nat, flag : Nat])
  /\ stopped \subseteq Nat

(* A wait is registered only while watcher and loop live. *)
WaitInv ==
  /\ wait \in {"none", "waiting", "post", "clear", "done"}
  /\ wait = "none" <=> wait_object_ = 0
  /\ wait # "none" => watcher = "alive" /\ loop_ # "dead"
  /\ signal_weakflag_ # 0 => watcher = "alive"
  /\ wait \in {"waiting", "post"} =>
       callback_.watch = wait_object_ /\ callback_.flag = signal_weakflag_

(* Watches and flags are numbered in turn, so a new one is not in use, and *)
(* a registered watch has not been stopped.                                *)
NumberInv ==
  /\ wait_object_ <= watches /\ signal_weakflag_ <= watches
  /\ \A w \in stopped : w <= watches
  /\ \A i \in DOMAIN tasks : tasks[i].flag <= watches
  /\ wait_object_ \notin stopped /\ 0 \notin stopped
  /\ wait_object_ # 0 => signal_weakflag_ # 0

(* A posted closure whose flag is still good is that of the registered     *)
(* watch: the flag lasts through a watch that could not be registered, but *)
(* ends with one that was.                                                 *)
FlagInv ==
  \A i \in DOMAIN tasks :
    /\ tasks[i].flag # 0
    /\ tasks[i].flag = signal_weakflag_ => tasks[i].watch = wait_object_ /\ wait_object_ # 0

WatcherInv == WatcherTypeOK /\ WaitInv /\ NumberInv /\ FlagInv

-----------------------------------------------------------------------------
(* What stopping comes to: all that is registered goes, or nothing was. *)
Stops ==
  \/ wait_object_ = 0 /\ UNCHANGED <<wait_object_, wait>> /\ signal_weakflag_' \in {signal_weakflag_, 0}
  \/ wait_object_ # 0 /\ wait_object_' = 0 /\ wait' = "none" /\ signal_weakflag_' = 0

LEMMA StopStops == Stop => Stops
BY DEF Stop, Stops, Unregister

(* The tasks that are left after one is taken are those that were there. *)
LEMMA TailTasks ==
  ASSUME NEW T, NEW q \in Seq(T), q # <<>>
  PROVE  /\ Tail(q) \in Seq(T)
         /\ \A i \in DOMAIN Tail(q) : i + 1 \in DOMAIN q /\ Tail(q)[i] = q[i + 1]
OBVIOUS

LEMMA AppendTasks ==
  ASSUME NEW T, NEW q \in Seq(T), NEW e \in T
  PROVE  /\ Append(q, e) \in Seq(T)
         /\ \A i \in DOMAIN Append(q, e) :
              (i \in DOMAIN q /\ Append(q, e)[i] = q[i]) \/ Append(q, e)[i] = e
OBVIOUS

LEMMA ElementOfSeq == ASSUME NEW T, NEW q \in Seq(T), NEW i \in DOMAIN q PROVE q[i] \in T
OBVIOUS

LEMMA FlagsAreNumbers ==
  ASSUME NEW q \in Seq([watch : Nat, flag : Nat]) PROVE \A i \in DOMAIN q : q[i].flag \in Nat
<1>1. \A i \in DOMAIN q : q[i] \in [watch : Nat, flag : Nat]
  BY ElementOfSeq
<1> QED BY <1>1

LEMMA StartKeeps == ASSUME WatcherInv, StartWatching PROVE WatcherInv'
<1> USE DEF WatcherInv, WatcherTypeOK, StartWatching, Callback, GetWeakFlag
<1>1. WatcherTypeOK'
  OBVIOUS
<1>2. WaitInv'
  BY DEF WaitInv, InCode, NumberInv
<1>3. NumberInv'
  <2>1. watches' = watches + 1 /\ stopped' = stopped /\ tasks' = tasks
        /\ wait_object_' \in {0, watches + 1} /\ signal_weakflag_' \in 1..watches'
    BY DEF NumberInv
  <2>2. \A w \in stopped : w <= watches /\ w # watches + 1 /\ w # 0
    BY DEF NumberInv
  <2>3. \A i \in DOMAIN tasks : tasks[i].flag <= watches + 1
    <3>1. \A i \in DOMAIN tasks : tasks[i].flag \in Nat /\ tasks[i].flag <= watches
      BY FlagsAreNumbers DEF NumberInv
    <3>2. ASSUME NEW f \in Nat, f <= watches PROVE f <= watches + 1
      BY <3>2
    <3> QED BY <3>1, <3>2
  <2>4. wait_object_' <= watches' /\ signal_weakflag_' <= watches' /\ signal_weakflag_' # 0
    BY <2>1
  <2>5. \A w \in stopped' : w <= watches'
    BY <2>1, <2>2
  <2> QED BY <2>1, <2>2, <2>3, <2>4, <2>5 DEF NumberInv
<1>4. FlagInv'
  <2>1. \A i \in DOMAIN tasks : tasks[i].flag # signal_weakflag_'
    BY DEF FlagInv, NumberInv
  <2> QED BY <2>1 DEF FlagInv
<1> QED BY <1>1, <1>2, <1>3, <1>4

(* Steps of the origin thread that stop what is registered, and may take   *)
(* closures out of the queue.                                              *)
Keeps(q) == \A i \in DOMAIN q : \E j \in DOMAIN tasks : q[i] = tasks[j]
LEMMA StopKeeps ==
  ASSUME WatcherInv, Stops, UNCHANGED <<callback_, watches>>,
         tasks' \in Seq([watch : Nat, flag : Nat]), Keeps(tasks'),
         stopped' \in {stopped, stopped \cup ({wait_object_} \ {0})},
         stopped' = stopped \/ wait_object_' = 0,
         watcher' = watcher \/ (wait_object_' = 0 /\ signal_weakflag_' = 0),
         loop_' = loop_ \/ wait_object_' = 0 \/ loop_' = "deleting"
  PROVE  WatcherInv'
<1>1. WatcherTypeOK'
  BY DEF WatcherInv, WatcherTypeOK, Stops
<1>2. WaitInv'
  BY DEF WatcherInv, WaitInv, Stops
<1>3. NumberInv'
  <2>1. \A i \in DOMAIN tasks' : tasks'[i].flag <= watches'
    BY DEF WatcherInv, NumberInv, Keeps
  <2>2. wait_object_' \notin stopped' /\ 0 \notin stopped' /\ \A w \in stopped' : w <= watches'
    BY DEF WatcherInv, NumberInv, Stops
  <2>3. wait_object_' <= watches' /\ signal_weakflag_' <= watches'
        /\ (wait_object_' # 0 => signal_weakflag_' # 0)
    BY DEF WatcherInv, NumberInv, Stops, WatcherTypeOK
  <2> QED BY <2>1, <2>2, <2>3 DEF NumberInv
<1>4. FlagInv'
  BY DEF WatcherInv, FlagInv, Stops, Keeps
<1> QED BY <1>1, <1>2, <1>3, <1>4 DEF WatcherInv

LEMMA OriginKeeps ==
  ASSUME WatcherInv,
         \/ StopWatching \/ DeleteWatcher \/ RunExpired \/ Signal \/ DeleteTasks
         \/ PreDestroyCurrentMessageLoop
  PROVE  WatcherInv'
<1>1. Keeps(tasks) /\ tasks \in Seq([watch : Nat, flag : Nat])
  BY DEF Keeps, WatcherInv, WatcherTypeOK
<1>2. tasks # <<>> => Keeps(Tail(tasks)) /\ Tail(tasks) \in Seq([watch : Nat, flag : Nat])
  BY <1>1, TailTasks DEF Keeps
<1>3. CASE StopWatching
  <2>1. Stops
    BY <1>3, StopStops DEF StopWatching
  <2> QED BY <1>1, <1>3, <2>1, StopKeeps DEF StopWatching, Stops
<1>4. CASE DeleteWatcher
  <2>1. Stops /\ wait_object_' = 0 /\ signal_weakflag_' = 0
    BY <1>4 DEF DeleteWatcher, Stops, Unregister
  <2> QED BY <1>1, <1>4, <2>1, StopKeeps DEF DeleteWatcher
<1>5. CASE RunExpired
  <2>1. Stops \/ UNCHANGED watch
    BY <1>5 DEF RunExpired
  <2>2. WatcherTypeOK' /\ WaitInv'
    BY <1>2, <1>5 DEF RunExpired, watch, WatcherInv, WatcherTypeOK, WaitInv
  <2>3. \A i \in DOMAIN tasks' : \E j \in DOMAIN tasks : tasks'[i] = tasks[j]
    BY <1>2, <1>5 DEF RunExpired, Keeps
  <2>4. NumberInv'
    BY <1>5, <2>3 DEF RunExpired, watch, WatcherInv, NumberInv
  <2>5. FlagInv'
    BY <1>5, <2>3 DEF RunExpired, watch, WatcherInv, FlagInv
  <2> QED BY <2>2, <2>4, <2>5 DEF WatcherInv
<1>6. CASE Signal
  <2>1. Stops
    BY <1>6, StopStops DEF Signal
  <2> QED BY <1>2, <1>6, <2>1, StopKeeps DEF Signal
<1>7. CASE DeleteTasks
  <2>1. Keeps(<<>>)
    BY DEF Keeps
  <2>2. WatcherTypeOK' /\ WaitInv' /\ NumberInv' /\ FlagInv'
    BY <1>7 DEF DeleteTasks, watch, WatcherInv, WatcherTypeOK, WaitInv, NumberInv, FlagInv
  <2> QED BY <2>2 DEF WatcherInv
<1>8. CASE PreDestroyCurrentMessageLoop
  <2>1. Stops /\ wait_object_' = 0
    BY <1>8, StopStops DEF PreDestroyCurrentMessageLoop, Stops
  <2> QED BY <1>1, <1>8, <2>1, StopKeeps DEF PreDestroyCurrentMessageLoop
<1> QED BY <1>3, <1>4, <1>5, <1>6, <1>7, <1>8

LEMMA WaitThreadKeeps ==
  ASSUME WatcherInv, Awake \/ DoneWaiting \/ ClearCallback PROVE WatcherInv'
<1>1. CASE Awake
  BY <1>1 DEF Awake, WatcherInv, WatcherTypeOK, WaitInv, NumberInv, FlagInv
<1>2. CASE DoneWaiting
  <2>1. callback_ \in [watch : Nat, flag : Nat] /\ tasks \in Seq([watch : Nat, flag : Nat])
        /\ callback_.watch = wait_object_ /\ callback_.flag = signal_weakflag_
        /\ wait_object_ # 0 /\ signal_weakflag_ # 0
    BY <1>2 DEF DoneWaiting, WatcherInv, WatcherTypeOK, WaitInv, NumberInv
  <2>2. /\ tasks' \in Seq([watch : Nat, flag : Nat])
        /\ \A i \in DOMAIN tasks' :
             (i \in DOMAIN tasks /\ tasks'[i] = tasks[i]) \/ tasks'[i] = callback_
    BY <1>2, <2>1, AppendTasks DEF DoneWaiting
  <2>3. WatcherTypeOK' /\ WaitInv'
    BY <1>2, <2>2 DEF DoneWaiting, WatcherInv, WatcherTypeOK, WaitInv
  <2>4. NumberInv'
    BY <1>2, <2>1, <2>2 DEF DoneWaiting, WatcherInv, NumberInv
  <2>5. FlagInv'
    BY <1>2, <2>1, <2>2 DEF DoneWaiting, WatcherInv, FlagInv
  <2> QED BY <2>3, <2>4, <2>5 DEF WatcherInv
<1>3. CASE ClearCallback
  BY <1>3 DEF ClearCallback, nullptr, Callback, WatcherInv, WatcherTypeOK, WaitInv, NumberInv, FlagInv
<1> QED BY <1>1, <1>2, <1>3

LEMMA WatcherStep == WatcherInv /\ [Next]_vars => WatcherInv'
<1> SUFFICES ASSUME WatcherInv, [Next]_vars PROVE WatcherInv'
  OBVIOUS
<1>1. CASE DelegateReturns \/ Signaled \/ UNCHANGED vars
  BY <1>1 DEF DelegateReturns, Signaled, vars, watch, WatcherInv, WatcherTypeOK, WaitInv, NumberInv, FlagInv
<1> QED BY <1>1, StartKeeps, OriginKeeps, WaitThreadKeeps DEF Next

LEMMA WatcherInit == Init => WatcherInv
BY DEF Init, nullptr, Callback, WatcherInv, WatcherTypeOK, WaitInv, NumberInv, FlagInv

(* DoneWaiting, on a thread of the system, finds watcher and loop alive,   *)
(* and posts the closure of the watch that is registered.                  *)
THEOREM WaitThreadFindsAllAlive == Spec => []WaitThreadIsSafe
<1>1. WatcherInv => WaitThreadIsSafe
  BY DEF WatcherInv, WaitInv, WaitThreadIsSafe
<1> QED BY WatcherInit, WatcherStep, <1>1, PTL DEF Spec

(* StopWatching keeps its promise: no delegate hears of a watch that was   *)
(* stopped, although its closure may have been posted before.              *)
THEOREM StoppedIsSilent == Spec => NotNotifiedOnceStopped
<1> DEFINE Quietly == notified' # notified => \A w \in notified' \ notified :
                        w \notin stopped /\ w = wait_object_ /\ watcher = "alive"
<1>1. ASSUME WatcherInv, [Next]_vars PROVE Quietly
  <2>1. CASE Signal
    <3>1. 1 \in DOMAIN tasks /\ Head(tasks) = tasks[1]
      BY <1>1, <2>1 DEF Signal, WatcherInv, WatcherTypeOK
    <3>2. Head(tasks).watch = wait_object_ /\ Head(tasks).flag # 0 /\ wait_object_ # 0
      BY <1>1, <2>1, <3>1 DEF Signal, WatcherInv, FlagInv
    <3>3. wait_object_ \notin stopped /\ watcher = "alive"
      BY <1>1, <2>1, <3>2 DEF Signal, WatcherInv, NumberInv, WaitInv
    <3> QED BY <2>1, <3>2, <3>3 DEF Signal
  <2>2. CASE ~Signal
    <3>1. notified' = notified
      BY <1>1, <2>2 DEF Next, vars, StartWatching, StopWatching, DeleteWatcher, RunExpired,
        DelegateReturns, DeleteTasks, PreDestroyCurrentMessageLoop, Awake, DoneWaiting,
        ClearCallback, Signaled
    <3> QED BY <3>1
  <2> QED BY <2>1, <2>2
<1>2. WatcherInv /\ [Next]_vars => [Quietly]_vars
  BY <1>1
<1> QED BY WatcherInit, WatcherStep, <1>2, PTL DEF Spec, NotNotifiedOnceStopped

-----------------------------------------------------------------------------
(* Types and bounds *)

Watches == 1..MaxWatches
Closure == [watch : Watches, flag : Watches]

LEMMA TypeStep ==
  ASSUME WatcherInv, TypeOK, MaxWatches \in Nat, [Next]_vars PROVE TypeOK'
<1> USE DEF TypeOK
<1>1. CASE UNCHANGED vars
  BY <1>1 DEF vars
<1>2. CASE StartWatching
  <2>1. watches + 1 \in 0..MaxWatches /\ GetWeakFlag \in 0..MaxWatches
    BY <1>2 DEF StartWatching, GetWeakFlag
  <2> QED BY <1>2, <2>1 DEF StartWatching, Callback
<1>3. CASE StopWatching \/ DeleteWatcher \/ PreDestroyCurrentMessageLoop
  <2>1. {wait_object_} \ {0} \subseteq Watches
    BY DEF Watches
  <2>2. /\ {wait_object_', signal_weakflag_', watches'} \subseteq 0..MaxWatches
        /\ wait' \in {"none", "waiting", "post", "clear", "done"}
        /\ callback_' = callback_ /\ tasks' = tasks /\ signaled' = signaled /\ origin' = origin
        /\ loop_' \in {"alive", "deleting", "dead"} /\ watcher' \in {"alive", "dead"}
        /\ notified' = notified
    BY <1>3 DEF StopWatching, DeleteWatcher, PreDestroyCurrentMessageLoop, Stop, Unregister
  <2>3. stopped' \subseteq Watches
    BY <1>3, <2>1 DEF StopWatching, DeleteWatcher, PreDestroyCurrentMessageLoop, Watches
  <2> QED BY <2>2, <2>3 DEF Watches
<1>4. CASE RunExpired \/ Signal
  <2>1. tasks \in Seq(Closure) /\ tasks # <<>> /\ tasks' = Tail(tasks)
    BY <1>4 DEF RunExpired, Signal, Closure, Watches
  <2>2. tasks' \in Seq(Closure) /\ Head(tasks) \in Closure
    BY <2>1
  <2>3. Head(tasks).watch \in Watches
    BY <2>2 DEF Closure
  <2>4. CASE RunExpired
    BY <2>2, <2>4 DEF RunExpired, watch, Closure, Watches
  <2>5. CASE Signal
    <3>1. notified' \subseteq Watches
      BY <2>3, <2>5 DEF Signal, Watches
    <3> QED BY <2>2, <2>5, <3>1 DEF Signal, Stop, Unregister, Closure, Watches
  <2> QED BY <1>4, <2>4, <2>5
<1>5. CASE DeleteTasks \/ DelegateReturns \/ Signaled \/ Awake
  <2>1. <<>> \in Seq([watch : 1..MaxWatches, flag : 1..MaxWatches])
    OBVIOUS
  <2>2. CASE DeleteTasks
    BY <2>1, <2>2 DEF DeleteTasks, watch
  <2>3. CASE DelegateReturns \/ Signaled \/ Awake
    BY <2>3 DEF DelegateReturns, Signaled, Awake, watch
  <2> QED BY <1>5, <2>2, <2>3
<1>6. CASE DoneWaiting
  <2>1. callback_.watch \in Watches /\ callback_.flag \in Watches
    BY <1>6 DEF DoneWaiting, WatcherInv, WaitInv, NumberInv, WatcherTypeOK, Watches
  <2>2. callback_ = [watch |-> callback_.watch, flag |-> callback_.flag]
    OBVIOUS
  <2>3. callback_ \in Closure
    BY <2>1, <2>2 DEF Closure
  <2>4. Append(tasks, callback_) \in Seq(Closure)
    BY <2>3, AppendTasks DEF Closure, Watches
  <2> QED BY <1>6, <2>4 DEF DoneWaiting, Closure, Watches
<1>7. CASE ClearCallback
  BY <1>7 DEF ClearCallback, nullptr, Callback
<1> QED BY <1>1, <1>2, <1>3, <1>4, <1>5, <1>6, <1>7 DEF Next

(* Every variable keeps its type: a posted closure always names a watch    *)
(* and a weak flag, although DoneWaiting reads callback_ without a lock.   *)
THEOREM TypeCorrect == ASSUME MaxWatches \in Nat PROVE Spec => []TypeOK
<1>1. Init => TypeOK
  <2>1. <<>> \in Seq([watch : 1..MaxWatches, flag : 1..MaxWatches]) /\ 0 \in 0..MaxWatches
    OBVIOUS
  <2>2. nullptr \in [watch : 0..MaxWatches, flag : 0..MaxWatches]
    BY <2>1 DEF nullptr, Callback
  <2> SUFFICES ASSUME Init PROVE TypeOK
    OBVIOUS
  <2> QED BY <2>1, <2>2 DEF Init, TypeOK
<1>2. WatcherInv /\ TypeOK /\ [Next]_vars => TypeOK'
  BY TypeStep
<1> QED BY WatcherInit, WatcherStep, <1>1, <1>2, PTL DEF Spec
=============================================================================
