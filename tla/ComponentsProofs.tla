--------------------------- MODULE ComponentsProofs ---------------------------
(* What the components promise holds of their composition too, for any     *)
(* addresses, intervals, threads, observers and bounds.  Runners, watchers *)
(* and lazy instances have proof modules of their own, whose theorems are  *)
(* carried over here; those about timers and observer lists are proved     *)
(* here.                                                                   *)
EXTENDS Components, FiniteSetTheorems, SequenceTheorems, TLAPS

RunnerP == INSTANCE AsyncModalRunnerProofs WITH made <- runnersMade, tasks <- uiTasks
WatcherP == INSTANCE ObjectWatcherProofs
LazyP == INSTANCE LazyInstanceProofs

-----------------------------------------------------------------------------
(* A behaviour of the composition is one of each component: the component  *)
(* that was chosen runs, and the others stutter.                           *)

LEMMA IsRunner == Spec => RunnerP!Spec
<1> USE DEF RunnerP!flags, Runner!flags
<1>1. Init => RunnerP!Init
  BY DEF Init, Runner!Init, RunnerP!Init, Runner!NoRunner, RunnerP!NoRunner
<1>2. Runner!Next => RunnerP!Next
  <2>1. Runner!UiStep => RunnerP!UiStep
    BY DEF Runner!UiStep, RunnerP!UiStep, Runner!DoModalReturns, RunnerP!DoModalReturns,
      Runner!CancelReturns, RunnerP!CancelReturns, Runner!Deregister, RunnerP!Deregister,
      Runner!Destroyed, RunnerP!Destroyed, Runner!NoRunner, RunnerP!NoRunner,
      Runner!Ended, RunnerP!Ended, Runner!Free, RunnerP!Free, Runner!Cancelable, RunnerP!Cancelable,
      Runner!CancelModalThenExit, RunnerP!CancelModalThenExit
  <2>2. Runner!CancelAllThreads => RunnerP!CancelAllThreads
    BY DEF Runner!CancelAllThreads, RunnerP!CancelAllThreads, Runner!Cancelable, RunnerP!Cancelable,
      Runner!CancelModalThenExit, RunnerP!CancelModalThenExit
  <2>3. ASSUME NEW r \in Runners
        PROVE  /\ Runner!DoModal(r) => RunnerP!DoModal(r)
               /\ Runner!ThreadStep(r) => RunnerP!ThreadStep(r)
               /\ Runner!UserCloses(r) => RunnerP!UserCloses(r)
    BY DEF Runner!DoModal, RunnerP!DoModal, Runner!ThreadStep, RunnerP!ThreadStep,
      Runner!UserCloses, RunnerP!UserCloses, Runner!Signal, RunnerP!Signal,
      Runner!SyncShowModal, RunnerP!SyncShowModal, Runner!QuitModal, RunnerP!QuitModal,
      Runner!OnThreadWillExit, RunnerP!OnThreadWillExit, Runner!Exit, RunnerP!Exit,
      Runner!Goes, RunnerP!Goes, Runner!Rest, RunnerP!Rest
  <2> QED BY <2>1, <2>2, <2>3 DEF Runner!Next, RunnerP!Next
<1>3. [Next]_vars => [RunnerP!Next]_(RunnerP!vars)
  <2>1. [Next]_vars => Runner!Next \/ UNCHANGED runner
    BY DEF Next, vars
  <2> QED BY <1>2, <2>1 DEF runner, RunnerP!vars
<1> QED BY <1>1, <1>3, PTL DEF Spec, RunnerP!Spec

LEMMA IsWatcher == Spec => WatcherP!Spec
<1> USE DEF Watcher!Callback, WatcherP!Callback, Watcher!nullptr, WatcherP!nullptr,
            Watcher!watch, WatcherP!watch
<1>1. Init => WatcherP!Init
  BY DEF Init, Watcher!Init, WatcherP!Init
<1>2. Watcher!Next => WatcherP!Next
  <2>1. Watcher!StartWatching => WatcherP!StartWatching
    BY DEF Watcher!StartWatching, WatcherP!StartWatching, Watcher!InCode, WatcherP!InCode,
      Watcher!GetWeakFlag, WatcherP!GetWeakFlag
  <2>2. /\ Watcher!StopWatching => WatcherP!StopWatching
        /\ Watcher!DeleteWatcher => WatcherP!DeleteWatcher
        /\ Watcher!Signal => WatcherP!Signal
        /\ Watcher!PreDestroyCurrentMessageLoop => WatcherP!PreDestroyCurrentMessageLoop
    BY DEF Watcher!StopWatching, WatcherP!StopWatching, Watcher!DeleteWatcher,
      WatcherP!DeleteWatcher, Watcher!Signal, WatcherP!Signal,
      Watcher!PreDestroyCurrentMessageLoop, WatcherP!PreDestroyCurrentMessageLoop,
      Watcher!Stop, WatcherP!Stop, Watcher!Unregister, WatcherP!Unregister,
      Watcher!InCode, WatcherP!InCode
  <2>3. /\ Watcher!DeleteTasks => WatcherP!DeleteTasks
        /\ Watcher!Signaled => WatcherP!Signaled
        /\ Watcher!RunExpired => WatcherP!RunExpired
        /\ Watcher!DelegateReturns => WatcherP!DelegateReturns
    BY DEF Watcher!DeleteTasks, WatcherP!DeleteTasks, Watcher!Signaled, WatcherP!Signaled,
      Watcher!RunExpired, WatcherP!RunExpired, Watcher!DelegateReturns, WatcherP!DelegateReturns
  <2>4. /\ Watcher!Awake => WatcherP!Awake
        /\ Watcher!DoneWaiting => WatcherP!DoneWaiting
        /\ Watcher!ClearCallback => WatcherP!ClearCallback
    BY DEF Watcher!Awake, WatcherP!Awake, Watcher!DoneWaiting, WatcherP!DoneWaiting,
      Watcher!ClearCallback, WatcherP!ClearCallback
  <2> QED BY <2>1, <2>2, <2>3, <2>4 DEF Watcher!Next, WatcherP!Next
<1>3. [Next]_vars => [WatcherP!Next]_(WatcherP!vars)
  <2>1. [Next]_vars => Watcher!Next \/ UNCHANGED watch
    BY DEF Next, vars
  <2> QED BY <1>2, <2>1 DEF watch, WatcherP!vars
<1> QED BY <1>1, <1>3, PTL DEF Spec, WatcherP!Spec

LEMMA IsLazy == Spec => LazyP!Spec
<1> USE DEF Lazy!exits, LazyP!exits, Lazy!Nothing, LazyP!Nothing
<1>1. Init => LazyP!Init
  BY DEF Init, Lazy!Init, LazyP!Init
<1>2. Lazy!Next => LazyP!Next
  <2>1. ASSUME NEW t \in Threads
        PROVE  /\ \A x \in Instances : Lazy!Pointer(t, x) => LazyP!Pointer(t, x)
               /\ Lazy!Create(t) => LazyP!Create(t)
               /\ Lazy!RegisterTask(t) => LazyP!RegisterTask(t)
               /\ Lazy!Publish(t) => LazyP!Publish(t)
               /\ Lazy!Spin(t) => LazyP!Spin(t)
               /\ Lazy!Return(t) => LazyP!Return(t)
    BY DEF Lazy!Pointer, LazyP!Pointer, Lazy!Asks, LazyP!Asks, Lazy!Create, LazyP!Create,
      Lazy!RegisterTask, LazyP!RegisterTask, Lazy!Publish, LazyP!Publish, Lazy!Spin, LazyP!Spin,
      Lazy!Return, LazyP!Return, Lazy!Goes, LazyP!Goes
  <2>2. /\ Lazy!ProcessCallbacksNow => LazyP!ProcessCallbacksNow
        /\ Lazy!CallTop => LazyP!CallTop
        /\ Lazy!Pop => LazyP!Pop
        /\ Lazy!Unlock => LazyP!Unlock
    BY DEF Lazy!ProcessCallbacksNow, LazyP!ProcessCallbacksNow, Lazy!CallTop, LazyP!CallTop,
      Lazy!Pop, LazyP!Pop, Lazy!Unlock, LazyP!Unlock
  <2> QED BY <2>1, <2>2 DEF Lazy!Next, LazyP!Next
<1>3. [Next]_vars => [LazyP!Next]_(LazyP!vars)
  <2>1. [Next]_vars => Lazy!Next \/ UNCHANGED lazy
    BY DEF Next, vars
  <2> QED BY <1>2, <2>1 DEF lazy, LazyP!vars
<1> QED BY <1>1, <1>3, PTL DEF Spec, LazyP!Spec

(* AsyncModalRunnerManager, in the composition: a runner is freed only     *)
(* after its thread has ended, whoever frees it.                           *)
THEOREM RunnersHaveOneOwner == Spec => []RunnersAreOwned
<1>1. RunnerP!RunnersAreOwned => RunnersAreOwned
  BY DEF RunnerP!RunnersAreOwned, RunnersAreOwned, Runner!RunnersAreOwned, RunnerP!Ended, Runner!Ended
<1> QED BY <1>1, IsRunner, RunnerP!RunnersHaveOneOwner, PTL

(* The UI thread does not wait for a user when it destroys a runner that   *)
(* said it will exit.                                                      *)
THEOREM DeregisterIsPrompt == Spec => DestroysWithoutWaiting
<1>1. RunnerP!DestroysWithoutWaiting => DestroysWithoutWaiting
  BY PTL DEF RunnerP!DestroysWithoutWaiting, DestroysWithoutWaiting, Runner!DestroysWithoutWaiting,
     RunnerP!vars, Runner!vars
<1> QED BY <1>1, IsRunner, RunnerP!DeregisterIsPrompt, PTL

(* ObjectWatcher, in the composition: the wait thread finds the watcher    *)
(* and the loop alive, however the origin thread stops and deletes them.   *)
THEOREM WaitThreadFindsAllAlive == Spec => []WaitThreadIsSafe
<1>1. WatcherP!WaitThreadIsSafe => WaitThreadIsSafe
  BY DEF WatcherP!WaitThreadIsSafe, WaitThreadIsSafe, Watcher!WaitThreadIsSafe
<1> QED BY <1>1, IsWatcher, WatcherP!WaitThreadFindsAllAlive, PTL

(* No delegate hears of a watch that was stopped, although its closure may *)
(* have been posted before.                                                *)
THEOREM StoppedIsSilent == Spec => NotNotifiedOnceStopped
<1>1. WatcherP!NotNotifiedOnceStopped => NotNotifiedOnceStopped
  BY PTL DEF WatcherP!NotNotifiedOnceStopped, NotNotifiedOnceStopped, Watcher!NotNotifiedOnceStopped,
     WatcherP!vars, Watcher!vars
<1> QED BY <1>1, IsWatcher, WatcherP!StoppedIsSilent, PTL

(* LazyInstance, in the composition: however many threads ask first, an    *)
(* instance is made once, and is there for whoever is given it.            *)
THEOREM InstancesAreMadeOnce == Spec => []MadeOnce
<1>1. LazyP!MadeOnce => MadeOnce
  BY DEF LazyP!MadeOnce, MadeOnce, Lazy!MadeOnce
<1> QED BY <1>1, IsLazy, LazyP!InstancesAreMadeOnce, PTL

(* AtExitManager calls every callback that was registered before the exit, *)
(* and none twice, unless a destructor makes an instance.                  *)
THEOREM CallbacksAreCalledOnce == Spec => []CalledOnceEach
<1>1. LazyP!CalledOnceEach => CalledOnceEach
  BY DEF LazyP!CalledOnceEach, CalledOnceEach, Lazy!CalledOnceEach, LazyP!Registers, Lazy!Registers
<1> QED BY <1>1, IsLazy, LazyP!CallbacksAreCalledOnce, PTL

-----------------------------------------------------------------------------
(* The observer list *)

NULL == List!NULL
Entries == Observers \cup {NULL}
In(o, s) == \E i \in DOMAIN s : s[i] = o

(* No observer is in the list twice. *)
Distinct(s) == \A i, j \in DOMAIN s : s[i] = s[j] /\ s[i] # NULL => i = j

(* A traversal of the list s has called, among those that stay in it, the  *)
(* ones before its index, once each: what has been passed stays passed,    *)
(* since entries do not move while there is a traversal.                   *)
Walk == [index : Nat, at : {"loop", "call"}, called : Seq(Observers), stayed : SUBSET Observers]
WalkOK(w, s) ==
  /\ w.index \in 1..(Len(s) + 1)
  /\ \A o \in w.stayed :
       /\ In(o, s)
       /\ \A i \in DOMAIN s : s[i] = o => (In(o, w.called) <=> i < w.index)
       /\ \A k, l \in DOMAIN w.called : w.called[k] = o /\ w.called[l] = o => k = l

ListInv ==
  /\ walks \in Seq(Walk) /\ lazy_erase_ = Len(walks) /\ Len(walks) <= MaxNesting
  /\ observers_ \in Seq(Entries) /\ Len(observers_) <= MaxLength /\ Distinct(observers_)
  /\ \A j \in DOMAIN walks : WalkOK(walks[j], observers_)

LEMMA ListNumbers ==
  /\ MaxNesting \in Nat /\ MaxLength \in Nat /\ NULL = 0 /\ NULL \notin Observers
  /\ Observers \subseteq Nat
BY ObserversAssumption DEF NULL, List!NULL

LEMMA AppendIs ==
  ASSUME NEW T, NEW s \in Seq(T), NEW e \in T
  PROVE  /\ Append(s, e) \in Seq(T) /\ Len(Append(s, e)) = Len(s) + 1
         /\ DOMAIN Append(s, e) = DOMAIN s \cup {Len(s) + 1}
         /\ Append(s, e)[Len(s) + 1] = e
         /\ \A i \in DOMAIN s : Append(s, e)[i] = s[i]
OBVIOUS

LEMMA FrontIs ==
  ASSUME NEW T, NEW s \in Seq(T), s # <<>>
  PROVE  /\ List!Front(s) \in Seq(T) /\ Len(List!Front(s)) = Len(s) - 1
         /\ DOMAIN List!Front(s) = DOMAIN s \ {Len(s)}
         /\ \A i \in DOMAIN List!Front(s) : List!Front(s)[i] = s[i]
         /\ List!Last(s) \in T /\ List!Last(s) = s[Len(s)]
         /\ Len(s) \in DOMAIN s /\ Len(s) \in Nat \ {0}
<1> DEFINE n == Len(s)
           f == SubSeq(s, 1, n - 1)
<1>1. n \in Nat \ {0} /\ n \in DOMAIN s /\ s[n] \in T
  OBVIOUS
<1>2. f \in Seq(T) /\ DOMAIN f = DOMAIN s \ {n} /\ \A i \in DOMAIN f : f[i] = s[i]
  BY <1>1
<1>3. DOMAIN f = 1..Len(f) /\ Len(f) \in Nat /\ DOMAIN s = 1..n
  BY <1>2
<1>4. Len(f) = n - 1
  BY <1>1, <1>2, <1>3
<1> QED BY <1>1, <1>2, <1>4 DEF List!Front, List!Last

(* The innermost traversal goes on, and the others stay where they are. *)
LEMMA LastIs ==
  ASSUME NEW T, NEW s \in Seq(T), s # <<>>, NEW e \in T
  PROVE  /\ Append(List!Front(s), e) \in Seq(T)
         /\ DOMAIN Append(List!Front(s), e) = DOMAIN s
         /\ Len(Append(List!Front(s), e)) = Len(s)
         /\ \A i \in DOMAIN s : Append(List!Front(s), e)[i] = IF i = Len(s) THEN e ELSE s[i]
<1> DEFINE f == List!Front(s)
<1>1. /\ f \in Seq(T) /\ Len(f) = Len(s) - 1 /\ DOMAIN f = DOMAIN s \ {Len(s)}
      /\ Len(s) \in DOMAIN s /\ Len(s) \in Nat \ {0}
      /\ \A i \in DOMAIN f : f[i] = s[i]
  BY FrontIs
<1> HIDE DEF f
<1>2. /\ Append(f, e) \in Seq(T) /\ Len(Append(f, e)) = Len(f) + 1
      /\ DOMAIN Append(f, e) = DOMAIN f \cup {Len(f) + 1}
      /\ Append(f, e)[Len(f) + 1] = e
      /\ \A i \in DOMAIN f : Append(f, e)[i] = f[i]
  BY <1>1, AppendIs
<1>3. Len(f) + 1 = Len(s)
  BY <1>1
<1> QED BY <1>1, <1>2, <1>3 DEF f

LEMMA AddWalk ==
  ASSUME NEW w \in Walk, NEW s \in Seq(Entries), NEW o \in Observers, ~In(o, s), WalkOK(w, s)
  PROVE  WalkOK(w, Append(s, o))
<1> DEFINE t == Append(s, o)
<1>1. /\ t \in Seq(Entries) /\ Len(t) = Len(s) + 1 /\ DOMAIN t = DOMAIN s \cup {Len(s) + 1}
      /\ t[Len(s) + 1] = o /\ \A i \in DOMAIN s : t[i] = s[i]
  BY AppendIs DEF Entries
<1> HIDE DEF t
<1>2. w.index \in 1..(Len(t) + 1)
  BY <1>1 DEF WalkOK
<1>3. ASSUME NEW p \in w.stayed
      PROVE  In(p, t) /\ \A i \in DOMAIN t : t[i] = p => i \in DOMAIN s /\ s[i] = p
  BY <1>1, <1>3 DEF WalkOK, In
<1> QED BY <1>2, <1>3 DEF WalkOK, t

LEMMA RemoveWalk ==
  ASSUME NEW w \in Walk, NEW s \in Seq(Entries), Distinct(s), WalkOK(w, s),
         NEW k \in DOMAIN s, s[k] # NULL
  PROVE  /\ [w EXCEPT !.stayed = @ \ {s[k]}] \in Walk
         /\ WalkOK([w EXCEPT !.stayed = @ \ {s[k]}], [s EXCEPT ![k] = NULL])
<1> DEFINE v == [w EXCEPT !.stayed = @ \ {s[k]}]
           t == [s EXCEPT ![k] = NULL]
<1>1. /\ v \in Walk /\ v.index = w.index /\ v.called = w.called /\ v.stayed = w.stayed \ {s[k]}
      /\ v.stayed \subseteq Observers
  BY DEF Walk
<1>2. /\ Len(t) = Len(s) /\ DOMAIN t = DOMAIN s /\ t[k] = NULL
      /\ \A i \in DOMAIN s : i # k => t[i] = s[i]
  BY DEF Entries
<1> HIDE DEF v, t
<1>3. \A p \in v.stayed : In(p, t) /\ \A i \in DOMAIN t : t[i] = p => s[i] = p
  BY <1>1, <1>2, ListNumbers DEF WalkOK, In
<1>4. WalkOK(v, t)
  BY <1>1, <1>2, <1>3 DEF WalkOK
<1> QED BY <1>1, <1>4 DEF v, t

LEMMA CallWalk ==
  ASSUME NEW w \in Walk, NEW s \in Seq(Entries), Distinct(s), WalkOK(w, s), w.index <= Len(s),
         s[w.index] # NULL
  PROVE  LET v == [w EXCEPT !.index = @ + 1, !.at = "call", !.called = Append(@, s[w.index])]
         IN v \in Walk /\ WalkOK(v, s)
<1> DEFINE v == [w EXCEPT !.index = @ + 1, !.at = "call", !.called = Append(@, s[w.index])]
           n == w.index
<1>1. n \in Nat /\ n \in DOMAIN s /\ s[n] \in Observers /\ w.called \in Seq(Observers)
      /\ w.stayed \subseteq Observers
  BY DEF WalkOK, Walk, Entries
<1>2. v \in Walk /\ v.index = n + 1 /\ v.called = Append(w.called, s[n]) /\ v.stayed = w.stayed
  <2>1. Append(w.called, s[n]) \in Seq(Observers) /\ n + 1 \in Nat
    BY <1>1, AppendIs
  <2> DEFINE q == Append(w.called, s[n])
  <2> HIDE DEF q, n
  <2>2. [w EXCEPT !.index = n + 1, !.at = "call", !.called = q] \in Walk
    BY <1>1, <2>1 DEF Walk, q
  <2>3. v = [w EXCEPT !.index = n + 1, !.at = "call", !.called = q]
    BY DEF q, n
  <2>4. v.index = n + 1 /\ v.called = q /\ v.stayed = w.stayed
    BY <2>3 DEF Walk
  <2> QED BY <2>2, <2>3, <2>4 DEF q
<1>3. /\ DOMAIN v.called = DOMAIN w.called \cup {Len(w.called) + 1}
      /\ Len(w.called) + 1 \notin DOMAIN w.called
      /\ v.called[Len(w.called) + 1] = s[n]
      /\ \A k \in DOMAIN w.called : v.called[k] = w.called[k]
  BY <1>1, <1>2, AppendIs
<1> HIDE DEF v, n
<1>4. ASSUME NEW p \in w.stayed, p # s[n]
      PROVE  /\ In(p, v.called) <=> In(p, w.called)
             /\ \A i \in DOMAIN s : s[i] = p => (i < n <=> i < n + 1)
             /\ \A k \in DOMAIN v.called : v.called[k] = p => k \in DOMAIN w.called
  BY <1>1, <1>3, <1>4 DEF In
<1>5. ASSUME NEW p \in w.stayed, p = s[n]
      PROVE  /\ In(p, v.called) /\ ~In(p, w.called)
             /\ \A i \in DOMAIN s : s[i] = p => i = n
  BY <1>1, <1>3, <1>5 DEF In, WalkOK, Distinct, n
<1>6. v.index \in 1..(Len(s) + 1)
  BY <1>1, <1>2
<1>7. WalkOK(v, s)
  BY <1>1, <1>2, <1>3, <1>4, <1>5, <1>6 DEF WalkOK, In, n
<1> QED BY <1>2, <1>7 DEF v, n

LEMMA PassWalk ==
  ASSUME NEW w \in Walk, NEW s \in Seq(Entries), WalkOK(w, s), w.index <= Len(s),
         s[w.index] = NULL
  PROVE  [w EXCEPT !.index = @ + 1] \in Walk /\ WalkOK([w EXCEPT !.index = @ + 1], s)
<1> DEFINE v == [w EXCEPT !.index = @ + 1]
<1>1. /\ v \in Walk /\ v.index = w.index + 1 /\ v.called = w.called /\ v.stayed = w.stayed
      /\ w.stayed \subseteq Observers /\ w.index \in Nat
  BY DEF Walk
<1> HIDE DEF v
<1>2. v.index \in 1..(Len(s) + 1)
  BY <1>1 DEF WalkOK
<1>3. \A p \in w.stayed : \A i \in DOMAIN s : s[i] = p => (i < w.index <=> i < w.index + 1)
  BY <1>1, ListNumbers
<1>4. WalkOK(v, s)
  BY <1>1, <1>2, <1>3 DEF WalkOK
<1> QED BY <1>1, <1>4 DEF v

LEMMA BeginWalk ==
  ASSUME NEW s \in Seq(Entries), NEW stay \in SUBSET Observers, \A o \in stay : In(o, s)
  PROVE  LET w == [index |-> 1, at |-> "loop", called |-> <<>>, stayed |-> stay]
         IN w \in Walk /\ WalkOK(w, s)
<1>1. <<>> \in Seq(Observers) /\ DOMAIN <<>> = {}
  OBVIOUS
<1>2. Len(s) \in Nat /\ \A i \in DOMAIN s : ~(i < 1)
  OBVIOUS
<1> QED BY <1>1, <1>2 DEF Walk, WalkOK, In

(* What the operations make of the list itself. *)

LEMMA AddList ==
  ASSUME NEW s \in Seq(Entries), NEW o \in Observers, ~In(o, s), Distinct(s)
  PROVE  Append(s, o) \in Seq(Entries) /\ Distinct(Append(s, o))
BY AppendIs DEF Entries, Distinct, In

LEMMA EraseList ==
  ASSUME NEW s \in Seq(Entries), NEW k \in DOMAIN s, Distinct(s)
  PROVE  /\ List!RemoveAt(s, k) \in Seq(Entries) /\ Distinct(List!RemoveAt(s, k))
         /\ Len(List!RemoveAt(s, k)) <= Len(s)
<1> DEFINE a == SubSeq(s, 1, k - 1)
           b == SubSeq(s, k + 1, Len(s))
           t == a \o b
           n == Len(s)
<1>1. k \in 1..n /\ n \in Nat /\ \A i \in 1..n : s[i] \in Entries
  OBVIOUS
<1>2. a \in Seq(Entries) /\ Len(a) = k - 1 /\ \A i \in 1..(k - 1) : a[i] = s[i]
  BY <1>1
<1>3. b \in Seq(Entries) /\ Len(b) = n - k /\ \A i \in 1..(n - k) : b[i] = s[k + i]
  BY <1>1
<1>4. t \in Seq(Entries) /\ Len(t) = n - 1
      /\ \A i \in 1..(n - 1) : t[i] = IF i < k THEN s[i] ELSE s[i + 1]
  <2> HIDE DEF a, b
  <2>1. t \in Seq(Entries) /\ Len(t) = Len(a) + Len(b)
        /\ \A i \in 1..(Len(a) + Len(b)) : t[i] = IF i <= Len(a) THEN a[i] ELSE b[i - Len(a)]
    BY <1>2, <1>3, ConcatProperties
  <2> HIDE DEF t, n
  <2>2. Len(a) + Len(b) = n - 1 /\ k \in Int /\ n \in Int
    BY <1>1, <1>2, <1>3
  <2>3. t \in Seq(Entries) /\ Len(t) = n - 1
        /\ \A i \in 1..(n - 1) : t[i] = IF i <= k - 1 THEN a[i] ELSE b[i - (k - 1)]
    BY <1>2, <2>1, <2>2
  <2>4. ASSUME NEW i \in 1..(n - 1), i < k PROVE t[i] = s[i]
    <3>1. i <= k - 1 /\ i \in 1..(k - 1)
      BY <2>2, <2>4
    <3> QED BY <1>2, <2>3, <3>1
  <2>5. ASSUME NEW i \in 1..(n - 1), ~(i < k) PROVE t[i] = s[i + 1]
    <3>1. ~(i <= k - 1) /\ i - (k - 1) \in 1..(n - k) /\ k + (i - (k - 1)) = i + 1
      BY <2>2, <2>5
    <3> QED BY <1>3, <2>3, <3>1
  <2> QED BY <2>3, <2>4, <2>5
<1> HIDE DEF t, n, a, b
<1>5. DOMAIN t = 1..(n - 1) /\ DOMAIN s = 1..n
  BY <1>4 DEF n
<1>6. Distinct(t)
  BY <1>1, <1>4, <1>5 DEF Distinct
<1> QED BY <1>1, <1>4, <1>6 DEF List!RemoveAt, t, a, b, n

LEMMA NullList ==
  ASSUME NEW s \in Seq(Entries), NEW k \in DOMAIN s, Distinct(s)
  PROVE  /\ [s EXCEPT ![k] = NULL] \in Seq(Entries) /\ Distinct([s EXCEPT ![k] = NULL])
         /\ Len([s EXCEPT ![k] = NULL]) = Len(s)
BY DEF Entries, Distinct

LEMMA CompactList ==
  ASSUME observers_ \in Seq(Entries), Distinct(observers_), List!Compact
  PROVE  observers_' \in Seq(Entries) /\ Distinct(observers_') /\ Len(observers_') <= Len(observers_)
<1> DEFINE kept == {i \in DOMAIN observers_ : observers_[i] # NULL}
           Moved(count, src) == /\ \A j, k \in 1..count : j < k => src[j] < src[k]
                                /\ observers_' = [k \in 1..count |-> observers_[src[k]]]
<1>0. PICK count \in 0..Len(observers_) : \E src \in [1..count -> kept] : Moved(count, src)
  BY DEF List!Compact, NULL
<1>1. PICK src \in [1..count -> kept] : Moved(count, src)
  BY <1>0
<1>2. count \in Nat /\ count <= Len(observers_) /\ kept \subseteq Nat
      /\ \A k \in 1..count : src[k] \in kept /\ observers_[src[k]] \in Entries
  BY <1>1
<1>3. observers_' \in Seq(Entries) /\ Len(observers_') = count /\ DOMAIN observers_' = 1..count
  BY <1>1, <1>2
<1>4. \A j, k \in 1..count : observers_[src[j]] = observers_[src[k]] => src[j] = src[k]
  BY <1>2 DEF Distinct
<1>5. \A j, k \in 1..count : src[j] = src[k] => j = k
  <2> SUFFICES ASSUME NEW j \in 1..count, NEW k \in 1..count, j < k PROVE src[j] # src[k]
    BY <1>2
  <2>1. src[j] < src[k] /\ src[j] \in Nat /\ src[k] \in Nat
    BY <1>1, <1>2
  <2> QED BY <2>1
<1>6. Distinct(observers_')
  BY <1>1, <1>3, <1>4, <1>5 DEF Distinct
<1> QED BY <1>2, <1>3, <1>6

LEMMA AddKeeps ==
  ASSUME ListInv, NEW o \in Observers, List!AddObserver(o) PROVE ListInv'
<1>1. /\ ~In(o, observers_) /\ Len(observers_) < MaxLength
      /\ observers_' = Append(observers_, o) /\ UNCHANGED <<lazy_erase_, walks>>
  BY DEF List!AddObserver, List!InList, In
<1>2. o \in Entries /\ Len(observers_') = Len(observers_) + 1
  BY <1>1, AppendIs DEF ListInv, Entries
<1>3. observers_' \in Seq(Entries) /\ Distinct(observers_') /\ Len(observers_') <= MaxLength
  BY <1>1, <1>2, AddList, ListNumbers DEF ListInv
<1>4. \A j \in DOMAIN walks : walks[j] \in Walk
  BY DEF ListInv
<1>5. \A j \in DOMAIN walks : WalkOK(walks[j], observers_')
  BY <1>1, <1>4, AddWalk DEF ListInv
<1> QED BY <1>1, <1>3, <1>5 DEF ListInv

LEMMA RemoveKeeps ==
  ASSUME ListInv, NEW o \in Observers, List!RemoveObserver(o) PROVE ListInv'
<1> DEFINE k == List!IndexOf(o)
           gone(w) == [w EXCEPT !.stayed = @ \ {o}]
<1>1. /\ In(o, observers_) /\ lazy_erase_' = lazy_erase_
      /\ observers_' = IF lazy_erase_ > 0 THEN [observers_ EXCEPT ![k] = NULL]
                       ELSE List!RemoveAt(observers_, k)
      /\ walks' = [i \in DOMAIN walks |-> gone(walks[i])]
  BY DEF List!RemoveObserver, List!InList, List!Left, In, NULL
<1>2. k \in DOMAIN observers_ /\ observers_[k] = o /\ o # NULL
  BY <1>1, ListNumbers DEF List!IndexOf, In
<1> HIDE DEF k
<1>3. observers_' \in Seq(Entries) /\ Distinct(observers_') /\ Len(observers_') <= MaxLength
  <2>1. CASE lazy_erase_ > 0
    BY <1>1, <1>2, <2>1, NullList DEF ListInv
  <2>2. CASE ~(lazy_erase_ > 0)
    <3>1. /\ observers_' \in Seq(Entries) /\ Distinct(observers_')
          /\ Len(observers_') <= Len(observers_)
      BY <1>1, <1>2, <2>2, EraseList DEF ListInv
    <3> QED BY <3>1, ListNumbers DEF ListInv
  <2> QED BY <2>1, <2>2
<1>4. \A j \in DOMAIN walks : walks[j] \in Walk
  BY DEF ListInv
<1>5. \A j \in DOMAIN walks : lazy_erase_ > 0
  BY DEF ListInv
<1>6. \A j \in DOMAIN walks : gone(walks[j]) \in Walk /\ WalkOK(gone(walks[j]), observers_')
  BY <1>1, <1>2, <1>4, <1>5, RemoveWalk DEF ListInv
<1> HIDE DEF gone
<1>7. walks \in Seq(Walk) /\ DOMAIN walks = 1..Len(walks) /\ Len(walks) \in Nat
  BY DEF ListInv
<1>8. /\ walks' \in Seq(Walk) /\ Len(walks') = Len(walks) /\ DOMAIN walks' = DOMAIN walks
      /\ \A j \in DOMAIN walks : walks'[j] = gone(walks[j])
  BY <1>1, <1>6, <1>7
<1> QED BY <1>1, <1>3, <1>6, <1>8 DEF ListInv

LEMMA AcquireKeeps == ASSUME ListInv, List!AcquireLazyErase PROVE ListInv'
<1> DEFINE w == [index |-> 1, at |-> "loop", called |-> <<>>, stayed |-> List!Listed]
<1>1. /\ Len(walks) < MaxNesting /\ lazy_erase_' = lazy_erase_ + 1
      /\ walks' = Append(walks, w) /\ observers_' = observers_
  BY DEF List!AcquireLazyErase
<1>2. List!Listed \in SUBSET Observers /\ \A o \in List!Listed : In(o, observers_)
  BY DEF List!Listed, List!InList, In
<1>3. w \in Walk /\ WalkOK(w, observers_)
  BY <1>2, BeginWalk DEF ListInv
<1> HIDE DEF w
<1>4. /\ walks' \in Seq(Walk) /\ Len(walks') = Len(walks) + 1
      /\ DOMAIN walks' = DOMAIN walks \cup {Len(walks) + 1}
      /\ walks'[Len(walks) + 1] = w
      /\ \A j \in DOMAIN walks : walks'[j] = walks[j]
  BY <1>1, <1>3, AppendIs DEF ListInv
<1>5. Len(walks) \in Nat /\ Len(walks) + 1 <= MaxNesting
  BY <1>1, ListNumbers DEF ListInv
<1> QED BY <1>1, <1>3, <1>4, <1>5 DEF ListInv

(* The innermost traversal has moved on, and is as it should be. *)
LEMMA MoveKeeps ==
  ASSUME ListInv, walks # <<>>, NEW v \in Walk, WalkOK(v, observers_),
         walks' = Append(List!Front(walks), v), UNCHANGED <<observers_, lazy_erase_>>
  PROVE  ListInv'
<1>1. /\ walks' \in Seq(Walk) /\ DOMAIN walks' = DOMAIN walks /\ Len(walks') = Len(walks)
      /\ \A i \in DOMAIN walks : walks'[i] = IF i = Len(walks) THEN v ELSE walks[i]
  BY LastIs DEF ListInv
<1> QED BY <1>1 DEF ListInv

LEMMA GetKeeps == ASSUME ListInv, List!GetObserver \/ List!ObserverReturns PROVE ListInv'
<1> DEFINE w == List!Last(walks)
<1>1. walks # <<>>
  BY DEF List!GetObserver, List!ObserverReturns, List!Inside
<1>2. w \in Walk /\ w = walks[Len(walks)] /\ Len(walks) \in DOMAIN walks
  BY <1>1, FrontIs DEF ListInv
<1>3. WalkOK(w, observers_)
  BY <1>2 DEF ListInv
<1> HIDE DEF w
<1>4. CASE List!ObserverReturns
  <2>1. walks' = Append(List!Front(walks), [w EXCEPT !.at = "loop"])
        /\ UNCHANGED <<observers_, lazy_erase_>>
    BY <1>4 DEF List!ObserverReturns, w
  <2>2. [w EXCEPT !.at = "loop"] \in Walk /\ WalkOK([w EXCEPT !.at = "loop"], observers_)
    BY <1>2, <1>3 DEF Walk, WalkOK
  <2> QED BY <1>1, <2>1, <2>2, MoveKeeps
<1>5. CASE List!GetObserver
  <2> DEFINE o == observers_[w.index]
             call == [w EXCEPT !.index = @ + 1, !.at = "call", !.called = Append(@, o)]
             pass == [w EXCEPT !.index = @ + 1]
  <2>1. /\ w.index <= Len(observers_) /\ UNCHANGED <<observers_, lazy_erase_>>
        /\ walks' = Append(List!Front(walks), IF o = NULL THEN pass ELSE call)
    BY <1>5 DEF List!GetObserver, w, NULL
  <2>2. CASE o = NULL
    <3>1. pass \in Walk /\ WalkOK(pass, observers_)
      BY <1>2, <1>3, <2>1, <2>2, PassWalk DEF ListInv
    <3> QED BY <1>1, <2>1, <2>2, <3>1, MoveKeeps
  <2>3. CASE o # NULL
    <3>1. call \in Walk /\ WalkOK(call, observers_)
      BY <1>2, <1>3, <2>1, <2>3, CallWalk DEF ListInv
    <3> QED BY <1>1, <2>1, <2>3, <3>1, MoveKeeps
  <2> QED BY <2>2, <2>3
<1> QED BY <1>4, <1>5

LEMMA ReleaseKeeps == ASSUME ListInv, List!ReleaseLazyErase PROVE ListInv'
<1>1. /\ walks # <<>> /\ lazy_erase_' = lazy_erase_ - 1 /\ walks' = List!Front(walks)
      /\ IF lazy_erase_' < 1 THEN List!Compact ELSE UNCHANGED observers_
  BY DEF List!ReleaseLazyErase, List!AtEnd, List!Inside
<1>2. /\ walks' \in Seq(Walk) /\ Len(walks') = Len(walks) - 1
      /\ DOMAIN walks' = DOMAIN walks \ {Len(walks)}
      /\ \A i \in DOMAIN walks' : walks'[i] = walks[i]
      /\ Len(walks) \in Nat \ {0}
  BY <1>1, FrontIs DEF ListInv
<1>3. lazy_erase_' = Len(walks') /\ Len(walks') <= MaxNesting
  BY <1>1, <1>2, ListNumbers DEF ListInv
<1>4. CASE lazy_erase_' < 1
  <2>1. /\ observers_' \in Seq(Entries) /\ Distinct(observers_')
        /\ Len(observers_') <= Len(observers_)
    BY <1>1, <1>4, CompactList DEF ListInv
  <2>2. DOMAIN walks' = {}
    BY <1>2, <1>3, <1>4
  <2> QED BY <1>2, <1>3, <2>1, <2>2, ListNumbers DEF ListInv
<1>5. CASE ~(lazy_erase_' < 1)
  BY <1>1, <1>2, <1>3, <1>5 DEF ListInv
<1> QED BY <1>4, <1>5

LEMMA ListInvariant == Spec => []ListInv
<1>1. Init => ListInv
  <2>1. <<>> \in Seq(Walk) /\ <<>> \in Seq(Entries) /\ Len(<<>>) = 0 /\ DOMAIN <<>> = {}
    OBVIOUS
  <2> QED BY <2>1, ListNumbers DEF Init, List!Init, ListInv, Distinct
<1>2. ListInv /\ [Next]_vars => ListInv'
  <2>1. ASSUME ListInv, UNCHANGED list PROVE ListInv'
    BY <2>1, Zenon DEF ListInv, list
  <2>2. ASSUME ListInv, List!Next PROVE ListInv'
    BY <2>2, AddKeeps, RemoveKeeps, AcquireKeeps, GetKeeps, ReleaseKeeps DEF List!Next
  <2>3. [Next]_vars => List!Next \/ UNCHANGED list
    BY DEF Next, vars
  <2> QED BY <2>1, <2>2, <2>3
<1> QED BY <1>1, <1>2, PTL DEF Spec

LEMMA TimesIs ==
  ASSUME NEW w \in Walk, NEW o \in w.stayed,
         \A k, l \in DOMAIN w.called : w.called[k] = o /\ w.called[l] = o => k = l
  PROVE  List!Times(o, w) = IF In(o, w.called) THEN 1 ELSE 0
<1> DEFINE calls == {i \in DOMAIN w.called : w.called[i] = o}
<1>0. List!Times(o, w) = Cardinality(calls)
  BY DEF List!Times, List!Cardinality, Cardinality
<1>1. CASE In(o, w.called)
  <2>1. PICK k \in DOMAIN w.called : w.called[k] = o
    BY <1>1 DEF In
  <2>2. calls = {k}
    BY <2>1
  <2> QED BY <1>0, <1>1, <2>2, FS_Singleton
<1>2. CASE ~In(o, w.called)
  <2>1. calls = {}
    BY <1>2 DEF In
  <2> QED BY <1>0, <1>2, <2>1, FS_EmptySet
<1> QED BY <1>1, <1>2

(* ObserverList: a traversal calls whoever stays in the list once, by the  *)
(* time it has passed all of it, for any observers and any nesting of      *)
(* traversals, and whatever the calls add and remove: no entry moves while *)
(* an AutoLazyEraser is about.                                             *)
THEOREM TraversalsMissNobody == Spec => []StayingAreCalledOnce
<1>1. ListInv => StayingAreCalledOnce
  <2> SUFFICES ASSUME ListInv, NEW j \in DOMAIN walks, NEW o \in walks[j].stayed
               PROVE  /\ List!Times(o, walks[j]) <= 1
                      /\ walks[j].index > Len(observers_) => List!Times(o, walks[j]) = 1
    BY DEF StayingAreCalledOnce, List!StayingAreCalledOnce
  <2>1. walks[j] \in Walk /\ WalkOK(walks[j], observers_)
    BY DEF ListInv
  <2>2. List!Times(o, walks[j]) = IF In(o, walks[j].called) THEN 1 ELSE 0
    BY <2>1, TimesIs DEF WalkOK
  <2>3. walks[j].index > Len(observers_) => In(o, walks[j].called)
    <3>1. PICK i \in DOMAIN observers_ : observers_[i] = o
      BY <2>1 DEF WalkOK, In
    <3>2. i \in Nat /\ i <= Len(observers_) /\ Len(observers_) \in Nat /\ walks[j].index \in Nat
      BY <2>1 DEF ListInv, Walk
    <3> QED BY <2>1, <3>1, <3>2 DEF WalkOK
  <2> QED BY <2>2, <2>3
<1> QED BY <1>1, ListInvariant, PTL

-----------------------------------------------------------------------------
(* The timers *)

TIMERINFO == UiTimers!TIMERINFO
NoTimer == UiTimers!NoTimer
PollFrame == [at : {"loop", "callback", "modal"}, it : TIMERINFO \cup {NoTimer}, elapsed : 0..MaxElapsed]
PollOK(p) == IF p.at = "loop" THEN p.it = NoTimer ELSE p.it \in TIMERINFO

PollsOK == polls \in Seq(PollFrame) /\ \A i \in DOMAIN polls : PollOK(polls[i])

(* The multimedia timer is off, slow, or fast: m_bMinPause says which of   *)
(* the two if it is on.                                                    *)
ArmInv ==
  /\ m_bMinPause \in BOOLEAN /\ period \in Nat /\ tick \in 0..period
  /\ period # 0 /\ m_bMinPause => period = 1

TimerInv ==
  /\ m_aTimers \subseteq TIMERINFO /\ live \subseteq Timers /\ msg \in 0..MaxMsgs
  /\ ArmInv /\ PollsOK

(* With no Poll in another one: the multimedia timer is on as long as a    *)
(* timer is queued or being called, and if it is slow it was armed for the *)
(* first timer at the end of the last Poll.                                *)
Busy == m_aTimers # {} \/ UiTimers!InPoll("callback") \/ UiTimers!InPoll("modal")
WakeInv ==
  /\ Len(polls) <= 1
  /\ Busy => period # 0
  /\ polls = <<>> /\ ~m_bMinPause /\ msg = 0 => \A t \in m_aTimers : tick <= t.rem + MaxElapsed

LEMMA TimerNumbers ==
  /\ Second \in Nat \ {0} /\ MaxPolls \in Nat /\ MaxElapsed \in Nat /\ MaxMsgs \in Nat \ {0}
  /\ Pauses \subseteq Nat /\ Repeats \subseteq Nat
BY TimersAssumption

LEMMA TopIs ==
  ASSUME PollsOK, polls # <<>>
  PROVE  /\ UiTimers!Top \in PollFrame /\ PollOK(UiTimers!Top)
         /\ UiTimers!Outer \in Seq(PollFrame) /\ Len(UiTimers!Outer) = Len(polls) - 1
         /\ \A i \in DOMAIN UiTimers!Outer : PollOK(UiTimers!Outer[i])
         /\ Len(polls) \in Nat \ {0}
<1>1. /\ UiTimers!Outer = List!Front(polls) /\ UiTimers!Top = polls[Len(polls)]
      /\ polls \in Seq(PollFrame) /\ Len(polls) \in Nat
  BY DEF UiTimers!Outer, UiTimers!Top, List!Front, PollsOK
<1>2. Len(polls) \in DOMAIN polls /\ Len(polls) # 0
  BY <1>1
<1>3. UiTimers!Top \in PollFrame /\ PollOK(UiTimers!Top)
  BY <1>1, <1>2 DEF PollsOK
<1>4. /\ UiTimers!Outer \in Seq(PollFrame) /\ Len(UiTimers!Outer) = Len(polls) - 1
      /\ \A i \in DOMAIN UiTimers!Outer : i \in DOMAIN polls /\ UiTimers!Outer[i] = polls[i]
  BY <1>1, FrontIs
<1> QED BY <1>1, <1>2, <1>3, <1>4 DEF PollsOK

LEMMA GoesKeeps ==
  ASSUME PollsOK, polls # <<>>, NEW v \in PollFrame, PollOK(v),
         polls' = Append(UiTimers!Outer, v)
  PROVE  PollsOK' /\ Len(polls') = Len(polls) /\ polls' # <<>> /\ polls'[Len(polls')] = v
<1>1. UiTimers!Outer = List!Front(polls) /\ polls \in Seq(PollFrame)
  BY DEF UiTimers!Outer, List!Front, PollsOK
<1>2. /\ polls' \in Seq(PollFrame) /\ DOMAIN polls' = DOMAIN polls /\ Len(polls') = Len(polls)
      /\ \A i \in DOMAIN polls : polls'[i] = IF i = Len(polls) THEN v ELSE polls[i]
  BY <1>1, LastIs
<1>3. Len(polls) \in DOMAIN polls
  BY <1>1
<1> QED BY <1>2, <1>3 DEF PollsOK

(* What may happen to the multimedia timer keeps its invariant. *)
LEMMA ArmKeeps ==
  ASSUME ArmInv,
         \/ UNCHANGED <<m_bMinPause, period, tick>>
         \/ UiTimers!Arm(1) /\ m_bMinPause' = TRUE
         \/ \E p \in Nat : UiTimers!Arm(p) /\ m_bMinPause' = FALSE
         \/ UiTimers!Unarm /\ UNCHANGED m_bMinPause
  PROVE  ArmInv'
<1> USE DEF ArmInv, UiTimers!Arm, UiTimers!Unarm
<1>1. CASE UNCHANGED <<m_bMinPause, period, tick>>
  BY <1>1
<1>2. CASE UiTimers!Arm(1) /\ m_bMinPause' = TRUE
  BY <1>2
<1>3. CASE \E p \in Nat : UiTimers!Arm(p) /\ m_bMinPause' = FALSE
  <2>1. PICK p \in Nat : period' = p /\ tick' = p
    BY <1>3
  <2>2. tick' \in 0..period' /\ period' \in Nat
    BY <2>1
  <2> QED BY <1>3, <2>2
<1>4. CASE UiTimers!Unarm /\ UNCHANGED m_bMinPause
  BY <1>4
<1> QED BY <1>1, <1>2, <1>3, <1>4

(* A Poll takes out, calls and puts back timers, *)
LEMMA PollKeeps ==
  ASSUME TimerInv, UiTimers!PollStep
  PROVE  TimerInv'
<1>1. CASE UiTimers!Poll
  <2> DEFINE f == [at |-> "loop", it |-> NoTimer, elapsed |-> 0]
  <2>1. f \in PollFrame /\ PollOK(f)
    BY TimerNumbers DEF PollFrame, PollOK
  <2>2. polls \in Seq(PollFrame) /\ polls' = Append(polls, f)
    BY <1>1 DEF UiTimers!Poll, TimerInv, PollsOK, NoTimer
  <2> HIDE DEF f
  <2>3. /\ polls' \in Seq(PollFrame) /\ DOMAIN polls' = DOMAIN polls \cup {Len(polls) + 1}
        /\ polls'[Len(polls) + 1] = f /\ \A i \in DOMAIN polls : polls'[i] = polls[i]
    BY <2>1, <2>2, AppendIs
  <2>4. PollsOK'
    BY <2>1, <2>3 DEF TimerInv, PollsOK, PollOK
  <2>5. ArmInv'
    BY <1>1, ArmKeeps DEF UiTimers!Poll, TimerInv
  <2> QED BY <1>1, <2>4, <2>5, TimerNumbers DEF UiTimers!Poll, TimerInv
<1>2. CASE UiTimers!PollCall
  <2>1. PICK t \in m_aTimers : /\ m_aTimers' = m_aTimers \ {t}
                               /\ UiTimers!Goes("callback", [t EXCEPT !.rem = 0])
    BY <1>2 DEF UiTimers!PollCall
  <2> DEFINE f == [UiTimers!Top EXCEPT !.at = "callback", !.it = [t EXCEPT !.rem = 0]]
  <2>2. [t EXCEPT !.rem = 0] \in TIMERINFO
    BY DEF TimerInv, TIMERINFO, UiTimers!TIMERINFO
  <2>3. PollsOK /\ polls # <<>>
    BY <1>2 DEF TimerInv, UiTimers!PollCall, UiTimers!InPoll
  <2>4. f \in PollFrame /\ PollOK(f)
    BY <2>2, <2>3, TopIs DEF PollFrame, PollOK
  <2>5. PollsOK'
    BY <2>1, <2>3, <2>4, GoesKeeps DEF UiTimers!Goes
  <2>6. ArmInv'
    BY <1>2, ArmKeeps DEF UiTimers!PollCall, TimerInv
  <2> QED BY <1>2, <2>1, <2>5, <2>6 DEF UiTimers!PollCall, TimerInv
<1>3. CASE UiTimers!PollDrop
  <2>1. ArmInv' /\ PollsOK'
    BY <1>3, ArmKeeps DEF UiTimers!PollDrop, TimerInv, PollsOK, PollOK
  <2> QED BY <1>3, <2>1 DEF UiTimers!PollDrop, TimerInv
<1>4. CASE UiTimers!PollFast \/ UiTimers!PollSlow \/ UiTimers!PollEnd
  <2>1. polls # <<>> /\ polls' = UiTimers!Outer /\ UNCHANGED <<m_aTimers, msg, live>>
    BY <1>4 DEF UiTimers!PollFast, UiTimers!PollSlow, UiTimers!PollEnd, UiTimers!InPoll
  <2>2. PollsOK'
    BY <2>1, TopIs DEF TimerInv, PollsOK, PollOK
  <2>3. ArmInv'
    <3>1. CASE UiTimers!PollFast
      BY <3>1, ArmKeeps DEF UiTimers!PollFast, TimerInv
    <3>2. CASE UiTimers!PollSlow
      <4>1. PICK t \in m_aTimers : UiTimers!detaTime(t) >= Second /\ UiTimers!Arm(UiTimers!detaTime(t))
        BY <3>2 DEF UiTimers!PollSlow
      <4>2. t.rem \in Int /\ UiTimers!Top.elapsed \in Int
        BY <2>1, TopIs, TimerNumbers DEF TimerInv, TIMERINFO, UiTimers!TIMERINFO, PollFrame
      <4>3. UiTimers!detaTime(t) \in Nat
        BY <4>1, <4>2, TimerNumbers DEF UiTimers!detaTime
      <4> QED BY <3>2, <4>1, <4>3, ArmKeeps DEF UiTimers!PollSlow, TimerInv
    <3>3. CASE UiTimers!PollEnd
      BY <3>3, ArmKeeps DEF UiTimers!PollEnd, TimerInv
    <3> QED BY <1>4, <3>1, <3>2, <3>3
  <2> QED BY <2>1, <2>2, <2>3 DEF TimerInv
<1> QED BY <1>1, <1>2, <1>3, <1>4 DEF UiTimers!PollStep

(* callbacks add and cancel them, *)
LEMMA UseKeeps ==
  ASSUME TimerInv,
         \/ \E id \in Timers : UiTimers!Cancel(id)
         \/ \E id \in Timers, pause \in Pauses, times \in Repeats \cup {UiTimers!REPEAT_FOREVER} :
              UiTimers!AddCancelableTimer(id, pause, times)
  PROVE  TimerInv'
<1>1. ASSUME NEW id \in Timers, UiTimers!Cancel(id)
      PROVE  TimerInv'
  <2>1. ArmInv' /\ PollsOK'
    BY <1>1, ArmKeeps DEF UiTimers!Cancel, TimerInv, PollsOK, PollOK
  <2> QED BY <1>1, <2>1 DEF UiTimers!Cancel, TimerInv
<1>2. ASSUME NEW id \in Timers, NEW pause \in Pauses,
             NEW times \in Repeats \cup {UiTimers!REPEAT_FOREVER},
             UiTimers!AddCancelableTimer(id, pause, times)
      PROVE  TimerInv'
  <2>1. [id |-> id, rem |-> pause, uPause |-> pause, iRepeatTime |-> times] \in TIMERINFO
    BY TimerNumbers DEF TIMERINFO, UiTimers!TIMERINFO, UiTimers!REPEAT_FOREVER
  <2>2. ArmInv'
    BY <1>2, ArmKeeps DEF UiTimers!AddCancelableTimer, TimerInv
  <2>3. PollsOK'
    BY <1>2 DEF UiTimers!AddCancelableTimer, TimerInv, PollsOK, PollOK
  <2> QED BY <1>2, <2>1, <2>2, <2>3 DEF UiTimers!AddCancelableTimer, TimerInv
<1> QED BY <1>1, <1>2

LEMMA TimerInfoIs ==
  /\ \A t \in TIMERINFO : t.uPause \in Int /\ UiTimers!Left(t.iRepeatTime) \in Int
  /\ \A t \in TIMERINFO, n \in Int, e \in Int :
       [t EXCEPT !.iRepeatTime = n, !.rem = e] \in TIMERINFO
  /\ \A p \in PollFrame : p.elapsed \in Int
<1>1. ASSUME NEW t \in TIMERINFO PROVE t.uPause \in Int
  <2>1. t.uPause \in Pauses
    BY DEF TIMERINFO, UiTimers!TIMERINFO
  <2>2. \A p \in Pauses : p \in Int
    BY TimerNumbers
  <2> QED BY <2>1, <2>2, Zenon
<1>2. ASSUME NEW t \in TIMERINFO PROVE UiTimers!Left(t.iRepeatTime) \in Int
  <2>1. t.iRepeatTime \in Int
    BY DEF TIMERINFO, UiTimers!TIMERINFO
  <2> QED BY <2>1 DEF UiTimers!Left
<1>3. ASSUME NEW t \in TIMERINFO, NEW n \in Int, NEW e \in Int
      PROVE  [t EXCEPT !.iRepeatTime = n, !.rem = e] \in TIMERINFO
  BY DEF TIMERINFO, UiTimers!TIMERINFO
<1>4. ASSUME NEW p \in PollFrame PROVE p.elapsed \in Int
  BY TimerNumbers DEF PollFrame
<1> QED BY <1>1, <1>2, <1>3, <1>4

(* return, and run modal loops, *)
LEMMA CallbackKeeps ==
  ASSUME TimerInv, UiTimers!CallbackReturns \/ UiTimers!EnterModal \/ UiTimers!LeaveModal
  PROVE  TimerInv' /\ Len(polls') = Len(polls) /\ polls' # <<>>
<1>1. /\ polls # <<>> /\ UiTimers!Top = polls[Len(polls)] /\ UiTimers!Top.at # "loop"
      /\ UNCHANGED <<m_bMinPause, period, tick, msg, live>>
  BY DEF UiTimers!CallbackReturns, UiTimers!EnterModal, UiTimers!LeaveModal, UiTimers!InPoll,
    UiTimers!Top
<1>2. UiTimers!Top \in PollFrame /\ UiTimers!Top.it \in TIMERINFO
  BY <1>1, TopIs DEF TimerInv, PollOK
<1>3. ArmInv'
  BY <1>1, ArmKeeps DEF TimerInv
<1>4. ASSUME NEW at \in {"callback", "modal"}, NEW it \in TIMERINFO, UiTimers!Goes(at, it)
      PROVE  PollsOK' /\ Len(polls') = Len(polls) /\ polls' # <<>>
  <2> DEFINE f == [UiTimers!Top EXCEPT !.at = at, !.it = it]
  <2>1. f \in PollFrame /\ PollOK(f)
    BY <1>2, <1>4 DEF PollFrame, PollOK
  <2> QED BY <1>1, <1>4, <2>1, GoesKeeps DEF UiTimers!Goes, TimerInv
<1>5. CASE UiTimers!CallbackReturns
  <2> DEFINE left == UiTimers!Left(UiTimers!Top.it.iRepeatTime)
             u == [UiTimers!Top.it EXCEPT !.iRepeatTime = left,
                                          !.rem = UiTimers!Top.it.uPause - UiTimers!Top.elapsed]
  <2>1. UiTimers!Top.it.uPause \in Int /\ left \in Int
    BY <1>2, TimerInfoIs
  <2>2. UiTimers!Top.elapsed \in Int
    BY <1>2, TimerInfoIs
  <2>3. u \in TIMERINFO
    <3> HIDE DEF left
    <3>1. UiTimers!Top.it.uPause - UiTimers!Top.elapsed \in Int
      BY <2>1, <2>2
    <3> QED BY <1>2, <2>1, <3>1, TimerInfoIs
  <2>4. m_aTimers' \subseteq m_aTimers \cup {u} /\ UiTimers!Goes("loop", NoTimer)
    BY <1>5 DEF UiTimers!CallbackReturns, NoTimer
  <2> HIDE DEF u
  <2>5. PollsOK' /\ Len(polls') = Len(polls) /\ polls' # <<>>
    <3> DEFINE f == [UiTimers!Top EXCEPT !.at = "loop", !.it = NoTimer]
    <3>1. f \in PollFrame /\ PollOK(f)
      BY <1>2 DEF PollFrame, PollOK
    <3> QED BY <1>1, <2>4, <3>1, GoesKeeps DEF UiTimers!Goes, TimerInv
  <2> QED BY <1>1, <1>3, <2>3, <2>4, <2>5 DEF TimerInv
<1>6. CASE UiTimers!EnterModal
  BY <1>1, <1>2, <1>3, <1>4, <1>6 DEF TimerInv, UiTimers!EnterModal
<1>7. CASE UiTimers!LeaveModal
  BY <1>1, <1>2, <1>3, <1>4, <1>7 DEF TimerInv, UiTimers!LeaveModal
<1> QED BY <1>5, <1>6, <1>7

(* and time passes. *)
LEMMA ClockKeeps ==
  ASSUME TimerInv, UiTimers!TimeCallback \/ UiTimers!Tick
  PROVE  TimerInv'
<1>1. CASE UiTimers!TimeCallback
  <2>1. ArmInv'
    BY <1>1 DEF UiTimers!TimeCallback, TimerInv, ArmInv
  <2>2. msg' \in 0..MaxMsgs
    BY <1>1, TimerNumbers DEF UiTimers!TimeCallback, TimerInv
  <2>3. PollsOK'
    BY <1>1 DEF UiTimers!TimeCallback, TimerInv, PollsOK, PollOK
  <2> QED BY <1>1, <2>1, <2>2, <2>3 DEF UiTimers!TimeCallback, TimerInv
<1>2. CASE UiTimers!Tick
  <2>1. ArmInv'
    BY <1>2 DEF UiTimers!Tick, TimerInv, ArmInv
  <2>2. m_aTimers' \subseteq TIMERINFO
    <3>1. m_aTimers' = {[t EXCEPT !.rem = IF @ > -MaxElapsed THEN @ - 1 ELSE @] : t \in m_aTimers}
      BY <1>2 DEF UiTimers!Tick
    <3> QED BY <3>1, TimerNumbers DEF TimerInv, TIMERINFO, UiTimers!TIMERINFO
  <2>3. PollsOK'
    <3>1. /\ polls \in Seq(PollFrame) /\ \A i \in DOMAIN polls : PollOK(polls[i])
          /\ polls' = [i \in DOMAIN polls |-> [polls[i] EXCEPT !.elapsed = @ + 1]]
          /\ \A i \in DOMAIN polls : polls[i].elapsed < MaxElapsed
      BY <1>2 DEF UiTimers!Tick, TimerInv, PollsOK
    <3>2. ASSUME NEW i \in DOMAIN polls
          PROVE  /\ [polls[i] EXCEPT !.elapsed = @ + 1] \in PollFrame
                 /\ PollOK([polls[i] EXCEPT !.elapsed = @ + 1])
      <4>1. polls[i] \in PollFrame /\ PollOK(polls[i]) /\ polls[i].elapsed < MaxElapsed
        BY <3>1
      <4>2. polls[i].elapsed + 1 \in 0..MaxElapsed
        BY <4>1, TimerNumbers DEF PollFrame
      <4> QED BY <4>1, <4>2 DEF PollFrame, PollOK
    <3>3. Len(polls) \in Nat /\ DOMAIN polls = 1..Len(polls)
      BY <3>1
    <3>4. polls' \in Seq(PollFrame)
      BY <3>1, <3>2, <3>3
    <3> QED BY <3>1, <3>2, <3>4 DEF PollsOK, PollOK
  <2> QED BY <1>2, <2>1, <2>2, <2>3 DEF UiTimers!Tick, TimerInv
<1> QED BY <1>1, <1>2

LEMMA TimersKeep ==
  ASSUME TimerInv, UiTimers!Next
  PROVE  TimerInv'
BY PollKeeps, UseKeeps, CallbackKeeps, ClockKeeps DEF UiTimers!Next

LEMMA TimerInvariant == Spec => []TimerInv
<1>1. Init => TimerInv
  <2>1. <<>> \in Seq(PollFrame) /\ DOMAIN <<>> = {}
    OBVIOUS
  <2> QED BY <2>1, TimerNumbers DEF Init, UiTimers!Init, TimerInv, ArmInv, PollsOK
<1>2. TimerInv /\ [Next]_vars => TimerInv'
  <2>1. ASSUME TimerInv, UNCHANGED timers PROVE TimerInv'
    BY <2>1, Zenon DEF TimerInv, ArmInv, PollsOK, PollOK, timers
  <2>2. [Next]_vars => UiTimers!Next \/ UNCHANGED timers
    BY DEF Next, vars
  <2> QED BY <2>1, <2>2, TimersKeep
<1> QED BY <1>1, <1>2, PTL DEF Spec

(* With one Poll at most, every step leaves the multimedia timer on for    *)
(* the timers there are, and in time for the first of them.                *)
LEMMA PollEndWakes ==
  ASSUME TimerInv, WakeInv, UiTimers!PollFast \/ UiTimers!PollSlow \/ UiTimers!PollEnd
  PROVE  WakeInv'
<1>1. polls # <<>> /\ polls' = UiTimers!Outer /\ UNCHANGED <<m_aTimers, msg>>
  BY DEF UiTimers!PollFast, UiTimers!PollSlow, UiTimers!PollEnd, UiTimers!InPoll
<1>2. polls' = <<>>
  <2>1. polls' \in Seq(PollFrame) /\ Len(polls') = Len(polls) - 1 /\ Len(polls) \in Nat \ {0}
    BY <1>1, TopIs DEF TimerInv
  <2> QED BY <2>1 DEF WakeInv
<1>3. Len(polls') <= 1 /\ (Busy' => m_aTimers # {})
  BY <1>1, <1>2 DEF Busy, UiTimers!InPoll
<1>4. CASE UiTimers!PollFast
  BY <1>3, <1>4 DEF UiTimers!PollFast, UiTimers!Arm, WakeInv, Busy, TimerInv, ArmInv
<1>5. CASE UiTimers!PollSlow
  <2>1. PICK t \in m_aTimers : /\ UiTimers!IsFirst(t) /\ UiTimers!detaTime(t) >= Second
                               /\ period' = UiTimers!detaTime(t) /\ tick' = UiTimers!detaTime(t)
    BY <1>5 DEF UiTimers!PollSlow, UiTimers!Arm
  <2>2. \A u \in m_aTimers : u.rem \in Int /\ t.rem <= u.rem
    BY <2>1 DEF UiTimers!IsFirst, TimerInv, TIMERINFO, UiTimers!TIMERINFO
  <2>3. UiTimers!Top.elapsed \in Int /\ UiTimers!Top.elapsed <= MaxElapsed
    <3>1. \A p \in PollFrame : p.elapsed \in Int /\ p.elapsed <= MaxElapsed
      BY TimerNumbers DEF PollFrame
    <3> QED BY <1>1, <3>1, TopIs DEF TimerInv
  <2>4. t.rem \in Int /\ UiTimers!detaTime(t) = t.rem + UiTimers!Top.elapsed
    BY <2>2 DEF UiTimers!detaTime
  <2>5. period' # 0 /\ \A u \in m_aTimers : tick' <= u.rem + MaxElapsed
    BY <2>1, <2>2, <2>3, <2>4, TimerNumbers
  <2> QED BY <1>1, <1>3, <2>5 DEF WakeInv
<1>6. CASE UiTimers!PollEnd
  BY <1>1, <1>3, <1>6 DEF UiTimers!PollEnd, WakeInv
<1> QED BY <1>4, <1>5, <1>6

LEMMA PollWakes ==
  ASSUME TimerInv, WakeInv, UiTimers!PollStep, Len(polls') <= 1
  PROVE  WakeInv'
<1>1. CASE UiTimers!Poll
  <2>1. polls \in Seq(PollFrame)
    BY DEF TimerInv, PollsOK
  <2> DEFINE f == [at |-> "loop", it |-> NoTimer, elapsed |-> 0]
  <2>2. f \in PollFrame /\ polls' = Append(polls, f)
    BY <1>1, TimerNumbers DEF UiTimers!Poll, NoTimer, PollFrame
  <2>3. polls' \in Seq(PollFrame) /\ Len(polls') = Len(polls) + 1 /\ polls'[Len(polls) + 1] = f
    BY <2>1, <2>2, AppendIs
  <2>4. polls' # <<>> /\ polls'[Len(polls')].at = "loop"
    BY <2>1, <2>3
  <2> QED BY <1>1, <2>4 DEF UiTimers!Poll, WakeInv, Busy, UiTimers!InPoll
<1>2. CASE UiTimers!PollCall \/ UiTimers!PollDrop
  <2>1. polls # <<>> /\ m_aTimers # {} /\ UNCHANGED <<period, tick>>
    BY <1>2 DEF UiTimers!PollCall, UiTimers!PollDrop, UiTimers!InPoll
  <2>2. polls' # <<>>
    <3>1. CASE UiTimers!PollDrop
      BY <2>1, <3>1 DEF UiTimers!PollDrop
    <3>2. CASE UiTimers!PollCall
      <4>1. PICK v : polls' = Append(UiTimers!Outer, v)
        BY <3>2 DEF UiTimers!PollCall, UiTimers!Goes
      <4>2. UiTimers!Outer \in Seq(PollFrame) /\ Len(UiTimers!Outer) \in Nat
        BY <2>1, TopIs DEF TimerInv
      <4> QED BY <4>1, <4>2
    <3> QED BY <1>2, <3>1, <3>2
  <2> QED BY <2>1, <2>2 DEF WakeInv, Busy
<1> QED BY <1>1, <1>2, PollEndWakes DEF UiTimers!PollStep

LEMMA OtherStepsWake ==
  ASSUME TimerInv, WakeInv, UiTimers!Next, ~UiTimers!PollStep
  PROVE  WakeInv'
<1>1. ASSUME NEW id \in Timers, UiTimers!Cancel(id) PROVE WakeInv'
  BY <1>1 DEF UiTimers!Cancel, WakeInv, Busy, UiTimers!InPoll
<1>2. ASSUME NEW id \in Timers, NEW pause \in Pauses,
             NEW times \in Repeats \cup {UiTimers!REPEAT_FOREVER},
             UiTimers!AddCancelableTimer(id, pause, times)
      PROVE  WakeInv'
  <2>1. period' # 0 /\ m_bMinPause' /\ UNCHANGED polls
    BY <1>2 DEF UiTimers!AddCancelableTimer, UiTimers!Arm, TimerInv, ArmInv
  <2> QED BY <2>1 DEF WakeInv
<1>3. ASSUME UiTimers!TimeCallback PROVE WakeInv'
  <2>1. msg' # 0
    BY <1>3, TimerNumbers DEF UiTimers!TimeCallback, TimerInv
  <2> QED BY <1>3, <2>1 DEF UiTimers!TimeCallback, WakeInv, Busy, UiTimers!InPoll
<1>4. ASSUME UiTimers!CallbackReturns \/ UiTimers!EnterModal \/ UiTimers!LeaveModal
      PROVE  WakeInv'
  <2>1. Len(polls') = Len(polls) /\ polls' # <<>>
    BY <1>4, CallbackKeeps
  <2>2. Busy /\ UNCHANGED period
    BY <1>4 DEF UiTimers!CallbackReturns, UiTimers!EnterModal, UiTimers!LeaveModal, Busy
  <2> QED BY <2>1, <2>2 DEF WakeInv
<1>5. ASSUME UiTimers!Tick PROVE WakeInv'
  <2>1. /\ period # 0 => tick > 0 /\ tick' = tick - 1
        /\ UNCHANGED <<m_bMinPause, period, msg>>
        /\ m_aTimers' = {[t EXCEPT !.rem = IF @ > -MaxElapsed THEN @ - 1 ELSE @] : t \in m_aTimers}
        /\ polls' = [i \in DOMAIN polls |-> [polls[i] EXCEPT !.elapsed = @ + 1]]
    BY <1>5 DEF UiTimers!Tick
  <2>2. /\ Len(polls') = Len(polls) /\ (polls' = <<>> <=> polls = <<>>)
        /\ Busy' => Busy
    <3>1. /\ polls \in Seq(PollFrame) /\ Len(polls) \in Nat /\ DOMAIN polls = 1..Len(polls)
          /\ polls # <<>> => Len(polls) \in DOMAIN polls
      BY DEF TimerInv, PollsOK
    <3>2. polls' \in Seq(PollFrame)
      BY <1>5, ClockKeeps DEF TimerInv, PollsOK
    <3>3. DOMAIN polls' = DOMAIN polls /\ Len(polls') = Len(polls)
      BY <2>1, <3>1, <3>2
    <3>4. polls' = <<>> <=> polls = <<>>
      BY <3>1, <3>2, <3>3
    <3>5. \A i \in DOMAIN polls : polls'[i].at = polls[i].at
      <4> TAKE i \in DOMAIN polls
      <4>1. polls[i] \in PollFrame
        BY <3>1
      <4>2. polls'[i] = [polls[i] EXCEPT !.elapsed = @ + 1]
        BY <2>1
      <4> QED BY <4>1, <4>2 DEF PollFrame
    <3>6. m_aTimers' # {} => m_aTimers # {}
      BY <2>1
    <3> QED BY <3>1, <3>3, <3>4, <3>5, <3>6 DEF Busy, UiTimers!InPoll
  <2>3. ASSUME polls = <<>>, ~m_bMinPause, msg = 0, NEW u \in m_aTimers'
        PROVE  tick' <= u.rem + MaxElapsed
    <3>1. PICK t \in m_aTimers : u = [t EXCEPT !.rem = IF @ > -MaxElapsed THEN @ - 1 ELSE @]
      BY <2>1, <2>3
    <3>2. t.rem \in Int /\ u.rem = IF t.rem > -MaxElapsed THEN t.rem - 1 ELSE t.rem
      BY <3>1 DEF TimerInv, TIMERINFO, UiTimers!TIMERINFO
    <3>3. period # 0 /\ tick <= t.rem + MaxElapsed
      BY <2>3 DEF WakeInv, Busy
    <3>4. tick \in Int /\ tick > 0 /\ tick' = tick - 1
      BY <2>1, <3>3 DEF TimerInv, ArmInv
    <3> QED BY <3>2, <3>3, <3>4, TimerNumbers
  <2> QED BY <2>1, <2>2, <2>3 DEF WakeInv
<1> QED BY <1>1, <1>2, <1>3, <1>4, <1>5 DEF UiTimers!Next

(* TimerManager: while timers wait for their Poll, the multimedia timer is *)
(* on, and is not later than a Poll may have taken past the time the first *)
(* of them is due, if callbacks run no message loop: whatever timers are   *)
(* added, cancelled and put back between the Poll that armed it and the    *)
(* next.                                                                   *)
THEOREM TimersAreWokenInTime == Spec => []WokenInTime
<1> DEFINE Inv == which # "nested" => WakeInv
<1>1. Init => Inv
  <2>1. Len(<<>>) = 0
    OBVIOUS
  <2> QED BY <2>1 DEF Init, UiTimers!Init, WakeInv, Busy, UiTimers!InPoll
<1>2. TimerInv /\ Inv /\ [Next]_vars => Inv'
  <2> SUFFICES ASSUME TimerInv, WakeInv, which # "nested", [Next]_vars PROVE WakeInv'
    BY DEF Next, vars
  <2>1. ASSUME UNCHANGED timers PROVE WakeInv'
    BY <2>1, Zenon DEF WakeInv, Busy, UiTimers!InPoll, timers
  <2>2. (UiTimers!Next /\ Len(polls') <= 1) \/ UNCHANGED timers
    BY DEF Next, vars
  <2> QED BY <2>1, <2>2, PollWakes, OtherStepsWake
<1>3. TimerInv /\ Inv => WokenInTime
  <2> SUFFICES ASSUME TimerInv, WakeInv, polls = <<>>, m_aTimers # {}
               PROVE  /\ period # 0
                      /\ msg > 0 \/ tick <= 1 \/ \A t \in m_aTimers : tick <= t.rem + MaxElapsed
    BY DEF WokenInTime, UiTimers!WokenInTime
  <2>1. period # 0
    BY DEF WakeInv, Busy
  <2>2. msg \in Nat
    BY TimerNumbers DEF TimerInv
  <2>3. CASE m_bMinPause
    BY <2>1, <2>3 DEF TimerInv, ArmInv
  <2>4. CASE ~m_bMinPause
    BY <2>1, <2>2, <2>4 DEF WakeInv
  <2> QED BY <2>1, <2>3, <2>4
<1> QED BY <1>1, <1>2, <1>3, TimerInvariant, PTL DEF Spec

-----------------------------------------------------------------------------
(* The shape of every component's variables. *)

(* Every component: its variables keep the shape of what they stand for,   *)
(* whichever component runs.                                               *)
THEOREM TypeCorrect == Spec => []TypeOK
<1>1. TimerInv => UiTimers!TypeOK
  <2>1. TimerInv => \A i \in DOMAIN polls : polls[i] \in PollFrame /\ PollOK(polls[i])
    BY DEF TimerInv, PollsOK
  <2> QED BY <2>1 DEF TimerInv, ArmInv, PollFrame, PollOK, UiTimers!TypeOK, TIMERINFO, NoTimer
<1>2. ListInv => List!TypeOK
  <2> SUFFICES ASSUME ListInv PROVE List!TypeOK
    OBVIOUS
  <2>1. lazy_erase_ \in 0..MaxNesting
    BY ListNumbers DEF ListInv
  <2>2. ASSUME NEW j \in DOMAIN walks
        PROVE  /\ walks[j].index \in 1..(MaxLength + 1) /\ walks[j].at \in {"loop", "call"}
               /\ walks[j].called \in Seq(Observers) /\ walks[j].stayed \subseteq Observers
    <3>1. walks[j] \in Walk /\ walks[j].index \in 1..(Len(observers_) + 1)
      BY DEF ListInv, WalkOK
    <3>2. Len(observers_) \in Nat /\ Len(observers_) <= MaxLength
      BY DEF ListInv
    <3> QED BY <3>1, <3>2, ListNumbers DEF Walk
  <2> QED BY <2>1, <2>2 DEF List!TypeOK, ListInv, Entries, NULL
<1>3. Spec => []RunnerP!TypeOK
  BY IsRunner, RunnerP!TypeCorrect, RunnersAssumption
<1>4. Spec => []WatcherP!TypeOK
  BY IsWatcher, WatcherP!TypeCorrect, WatchesAssumption
<1>5. Spec => []LazyP!TypeOK
  BY IsLazy, LazyP!TypeCorrect, InstancesAssumption DEF LazyP!UsesOK
<1>6. RunnerP!TypeOK => Runner!TypeOK
  BY DEF RunnerP!TypeOK, Runner!TypeOK, Runner!NoRunner, RunnerP!NoRunner, Runner!flags, RunnerP!flags
<1>7. WatcherP!TypeOK => Watcher!TypeOK
  BY DEF WatcherP!TypeOK, Watcher!TypeOK, Watcher!nullptr, WatcherP!nullptr
<1>8. LazyP!TypeOK => Lazy!TypeOK
  BY DEF LazyP!TypeOK, Lazy!TypeOK, LazyP!Nothing, Lazy!Nothing
<1> QED BY <1>1, <1>2, <1>3, <1>4, <1>5, <1>6, <1>7, <1>8, TimerInvariant, ListInvariant, PTL
        DEF TypeOK
=============================================================================
