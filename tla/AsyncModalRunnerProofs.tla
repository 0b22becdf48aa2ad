------------------------- MODULE AsyncModalRunnerProofs -------------------------
(* The lifetimes of the modal runners, for any addresses and any number of *)
(* runners made.                                                           *)
EXTENDS AsyncModalRunner, TLAPS

DeregisterTask == [runner : Runners, serial : Nat]

RunnerTypeOK ==
  /\ runners_ \subseteq Runners /\ cancelled \subseteq Runners
  /\ thread \in [Runners -> {"none", "created", "signalled", "modal", "exiting", "exit", "ended"}]
  /\ serial \in [Runners -> Nat] /\ made \in Nat
  /\ tasks \in Seq(DeregisterTask)
  /\ ui \in {"destroying", "starting"} => uiRunner \in Runners

(* A runner has one owner: the manager's list, CancelAllThreads while it   *)
(* waits, or Deregister while it destroys.                                 *)
Destroying(r) == ui = "destroying" /\ r = uiRunner
OwnerInv ==
  /\ ui # "cancelling" => cancelled = {}
  /\ runners_ \cap cancelled = {}
  /\ \A r \in Runners : Destroying(r) => r \notin runners_
  /\ \A r \in Runners : serial[r] # 0 <=> r \in runners_ \cup cancelled \/ Destroying(r)
  /\ \A r \in Runners : ~Ended(r) => serial[r] # 0

(* A Deregister task of the runner that is at its address now was posted   *)
(* by that runner's thread, on its way out.                                *)
TaskInv ==
  /\ \A r \in Runners : serial[r] <= made
  /\ \A i \in DOMAIN tasks :
       /\ tasks[i].serial \in 1..made
       /\ tasks[i].serial = serial[tasks[i].runner] =>
            thread[tasks[i].runner] \in {"exit", "ended"}

RunnerInv == RunnerTypeOK /\ OwnerInv /\ TaskInv

-----------------------------------------------------------------------------
LEMMA TailTasks ==
  ASSUME NEW T, NEW q \in Seq(T), q # <<>>
  PROVE  /\ Tail(q) \in Seq(T) /\ Head(q) \in T /\ 1 \in DOMAIN q /\ Head(q) = q[1]
         /\ \A i \in DOMAIN Tail(q) : i + 1 \in DOMAIN q /\ Tail(q)[i] = q[i + 1]
OBVIOUS

LEMMA AppendTasks ==
  ASSUME NEW T, NEW q \in Seq(T), NEW e \in T
  PROVE  /\ Append(q, e) \in Seq(T)
         /\ \A i \in DOMAIN Append(q, e) :
              (i \in DOMAIN q /\ Append(q, e)[i] = q[i]) \/ Append(q, e)[i] = e
OBVIOUS

LEMMA ElementOfSeq == ASSUME NEW T, NEW q \in Seq(T), NEW i \in DOMAIN q PROVE q[i] \in T
OBVIOUS

LEMMA TasksHaveRunners ==
  ASSUME NEW q \in Seq(DeregisterTask)
  PROVE  \A i \in DOMAIN q : q[i].runner \in Runners /\ q[i].serial \in Nat
<1>1. \A i \in DOMAIN q : q[i] \in DeregisterTask
  BY ElementOfSeq
<1> QED BY <1>1 DEF DeregisterTask

(* The UI thread: a new runner at a free address, *)
LEMMA DoModalKeeps ==
  ASSUME RunnerInv, NEW r \in Runners, DoModal(r) PROVE RunnerInv'
<1>1. RunnerTypeOK'
  <2>1. runners_' \subseteq Runners /\ cancelled' \subseteq Runners /\ tasks' \in Seq(DeregisterTask)
    BY DEF DoModal, RunnerInv, RunnerTypeOK
  <2>2. thread' \in [Runners -> {"none", "created", "signalled", "modal", "exiting", "exit", "ended"}]
    BY DEF DoModal, RunnerInv, RunnerTypeOK
  <2>3. serial' \in [Runners -> Nat] /\ made' \in Nat
    BY DEF DoModal, RunnerInv, RunnerTypeOK
  <2>4. ui' \in {"destroying", "starting"} => uiRunner' \in Runners
    BY DEF DoModal
  <2> QED BY <2>1, <2>2, <2>3, <2>4 DEF RunnerTypeOK
<1>2. OwnerInv'
  <2>1. serial' = [serial EXCEPT ![r] = made + 1] /\ made + 1 # 0 /\ cancelled' = cancelled
        /\ runners_' = runners_ \cup {r} /\ ui = "idle" /\ ui' \in {"idle", "starting"}
        /\ cancelled = {} /\ serial[r] = 0
    BY DEF DoModal, RunnerInv, RunnerTypeOK, OwnerInv
  <2>2. \A x \in Runners : x # r => thread'[x] = thread[x]
    BY DEF DoModal, RunnerInv, RunnerTypeOK
  <2>3. \A x \in Runners : serial'[x] # 0 <=> x \in runners_'
    BY <2>1 DEF RunnerInv, RunnerTypeOK, OwnerInv, Destroying
  <2>4. \A x \in Runners : ~Ended(x)' => serial'[x] # 0
    BY <2>1, <2>2 DEF Ended, RunnerInv, RunnerTypeOK, OwnerInv
  <2> QED BY <2>1, <2>3, <2>4 DEF OwnerInv, Destroying
<1>3. TaskInv'
  <2>1. serial' = [serial EXCEPT ![r] = made + 1] /\ made' = made + 1 /\ tasks' = tasks
        /\ made \in Nat /\ serial \in [Runners -> Nat]
    BY DEF DoModal, RunnerInv, RunnerTypeOK
  <2>2. \A x \in Runners : serial'[x] <= made'
    BY <2>1 DEF RunnerInv, TaskInv
  <2>3. ASSUME NEW i \in DOMAIN tasks
        PROVE  /\ tasks[i].serial \in 1..made' /\ tasks[i].serial # made + 1
               /\ tasks[i].runner \in Runners
    <3>1. tasks[i].serial \in Nat /\ tasks[i].serial \in 1..made /\ tasks[i].runner \in Runners
      BY TasksHaveRunners DEF RunnerInv, RunnerTypeOK, TaskInv
    <3> QED BY <2>1, <3>1
  <2>4. ASSUME NEW i \in DOMAIN tasks, tasks[i].serial = serial'[tasks[i].runner]
        PROVE  thread'[tasks[i].runner] \in {"exit", "ended"}
    <3>1. tasks[i].runner # r
      BY <2>1, <2>3, <2>4
    <3>2. thread'[tasks[i].runner] = thread[tasks[i].runner]
      BY <2>3, <3>1 DEF DoModal, RunnerInv, RunnerTypeOK
    <3>3. serial'[tasks[i].runner] = serial[tasks[i].runner]
      BY <2>1, <2>3, <3>1
    <3> QED BY <2>4, <3>2, <3>3 DEF RunnerInv, TaskInv
  <2> QED BY <2>1, <2>2, <2>3, <2>4 DEF TaskInv
<1> QED BY <1>1, <1>2, <1>3 DEF RunnerInv

(* runners taken out of the list, *)
LEMMA TakeKeeps ==
  ASSUME RunnerInv, CancelAllThreads \/ Deregister PROVE RunnerInv'
<1>1. CASE CancelAllThreads
  <2>1. RunnerTypeOK' /\ TaskInv'
    BY <1>1 DEF CancelAllThreads, RunnerInv, RunnerTypeOK, TaskInv
  <2>2. OwnerInv'
    BY <1>1 DEF CancelAllThreads, RunnerInv, RunnerTypeOK, OwnerInv, Destroying, Ended
  <2> QED BY <2>1, <2>2 DEF RunnerInv
<1>2. CASE Deregister
  <2>1. /\ tasks' \in Seq(DeregisterTask)
        /\ \A i \in DOMAIN tasks' : \E j \in DOMAIN tasks : tasks'[i] = tasks[j]
    BY <1>2, TailTasks DEF Deregister, RunnerInv, RunnerTypeOK
  <2>2. Head(tasks).runner \in Runners
    BY <1>2, TailTasks, TasksHaveRunners DEF Deregister, RunnerInv, RunnerTypeOK
  <2>3. UNCHANGED <<thread, serial, made, cancelled>> /\ ui = "idle"
    BY <1>2 DEF Deregister
  <2>4. RunnerTypeOK'
    BY <1>2, <2>1, <2>2, <2>3 DEF Deregister, RunnerInv, RunnerTypeOK
  <2>5. OwnerInv'
    BY <1>2, <2>2, <2>3 DEF Deregister, RunnerInv, RunnerTypeOK, OwnerInv, Destroying, Ended
  <2>6. TaskInv'
    BY <2>1, <2>3 DEF RunnerInv, TaskInv
  <2> QED BY <2>4, <2>5, <2>6 DEF RunnerInv
<1> QED BY <1>1, <1>2

(* A freed address has no number, which no task bears. *)
LEMMA Freed ==
  ASSUME RunnerInv, UNCHANGED <<tasks, made, thread>>,
         \A r \in Runners : serial'[r] = serial[r] \/ (serial'[r] = 0 /\ Ended(r))
  PROVE  TaskInv'
<1>1. \A r \in Runners : serial'[r] <= made'
  BY DEF RunnerInv, RunnerTypeOK, TaskInv
<1>2. ASSUME NEW i \in DOMAIN tasks, tasks[i].serial = serial'[tasks[i].runner]
      PROVE  thread[tasks[i].runner] \in {"exit", "ended"}
  <2>1. tasks[i].runner \in Runners /\ tasks[i].serial # 0
    BY TasksHaveRunners DEF RunnerInv, RunnerTypeOK, TaskInv
  <2>2. serial'[tasks[i].runner] = serial[tasks[i].runner]
    BY <1>2, <2>1
  <2> QED BY <1>2, <2>2 DEF RunnerInv, TaskInv
<1> QED BY <1>1, <1>2 DEF RunnerInv, TaskInv

(* and runners freed once their threads have ended. *)
LEMMA FreeKeeps ==
  ASSUME RunnerInv, CancelReturns \/ Destroyed \/ DoModalReturns PROVE RunnerInv'
<1>1. CASE DoModalReturns
  BY <1>1 DEF DoModalReturns, RunnerInv, RunnerTypeOK, OwnerInv, TaskInv, Destroying, Ended
<1>2. CASE CancelReturns
  <2>1. RunnerTypeOK'
    BY <1>2 DEF CancelReturns, Free, RunnerInv, RunnerTypeOK
  <2>2. OwnerInv'
    BY <1>2 DEF CancelReturns, Free, RunnerInv, RunnerTypeOK, OwnerInv, Destroying, Ended
  <2>3. TaskInv'
    <3>1. \A r \in Runners : serial'[r] = serial[r] \/ (serial'[r] = 0 /\ Ended(r))
      BY <1>2 DEF CancelReturns, Free, RunnerInv, RunnerTypeOK
    <3>2. UNCHANGED <<tasks, made, thread>>
      BY <1>2 DEF CancelReturns
    <3> QED BY <3>1, <3>2, Freed
  <2> QED BY <2>1, <2>2, <2>3 DEF RunnerInv
<1>3. CASE Destroyed
  <2>1. RunnerTypeOK'
    BY <1>3 DEF Destroyed, Free, RunnerInv, RunnerTypeOK
  <2>2. OwnerInv'
    BY <1>3 DEF Destroyed, Free, RunnerInv, RunnerTypeOK, OwnerInv, Destroying, Ended
  <2>3. TaskInv'
    <3>1. \A r \in Runners : serial'[r] = serial[r] \/ (serial'[r] = 0 /\ Ended(r))
      BY <1>3 DEF Destroyed, Free, RunnerInv, RunnerTypeOK
    <3>2. UNCHANGED <<tasks, made, thread>>
      BY <1>3 DEF Destroyed
    <3> QED BY <3>1, <3>2, Freed
  <2> QED BY <2>1, <2>2, <2>3 DEF RunnerInv
<1> QED BY <1>1, <1>2, <1>3

(* The runner's thread goes through its states, and posts once. *)
LEMMA ThreadKeeps ==
  ASSUME RunnerInv, NEW r \in Runners, ThreadStep(r) \/ UserCloses(r) PROVE RunnerInv'
<1> DEFINE moves == /\ thread[r] \in {"created", "signalled", "modal", "exiting", "exit"}
                    /\ \E to \in {"signalled", "modal", "exiting", "exit", "ended"} :
                         thread' = [thread EXCEPT ![r] = to] /\ (thread[r] = "exit" => to = "ended")
<1>1. moves /\ UNCHANGED <<runners_, serial, made, ui, uiRunner, cancelled>>
  BY DEF ThreadStep, Signal, SyncShowModal, QuitModal, UserCloses, OnThreadWillExit, Exit, Goes, Rest
<1>2. \/ tasks' = tasks
      \/ tasks' = Append(tasks, [runner |-> r, serial |-> serial[r]]) /\ thread'[r] = "exit"
  BY DEF ThreadStep, Signal, SyncShowModal, QuitModal, UserCloses, OnThreadWillExit, Exit, Goes,
    Rest, RunnerInv, RunnerTypeOK
<1>3. thread' \in [Runners -> {"none", "created", "signalled", "modal", "exiting", "exit", "ended"}]
  BY <1>1 DEF RunnerInv, RunnerTypeOK
<1>4. serial[r] \in 1..made /\ [runner |-> r, serial |-> serial[r]] \in DeregisterTask
  BY <1>1 DEF RunnerInv, RunnerTypeOK, OwnerInv, TaskInv, Ended, DeregisterTask
<1>5. \A x \in Runners : thread[x] \in {"exit", "ended"} => thread'[x] \in {"exit", "ended"}
  BY <1>1 DEF RunnerInv, RunnerTypeOK
<1>6. tasks' \in Seq(DeregisterTask)
  BY <1>2, <1>4, AppendTasks DEF RunnerInv, RunnerTypeOK
<1>7. OwnerInv'
  <2>1. \A x \in Runners : ~Ended(x)' => serial[x] # 0
    BY <1>1 DEF RunnerInv, RunnerTypeOK, OwnerInv, Ended
  <2>2. \A x \in Runners : Destroying(x)' <=> Destroying(x)
    BY <1>1 DEF Destroying
  <2> QED BY <1>1, <2>1, <2>2 DEF RunnerInv, OwnerInv
<1>8. TaskInv'
  <2>1. ASSUME NEW i \in DOMAIN tasks'
        PROVE  /\ tasks'[i].serial \in 1..made
               /\ tasks'[i].serial = serial[tasks'[i].runner] =>
                    thread'[tasks'[i].runner] \in {"exit", "ended"}
    <3>1. CASE i \in DOMAIN tasks /\ tasks'[i] = tasks[i]
      <4>1. tasks[i].runner \in Runners
        BY <3>1, TasksHaveRunners DEF RunnerInv, RunnerTypeOK
      <4> QED BY <1>5, <3>1, <4>1 DEF RunnerInv, TaskInv
    <3>2. CASE tasks'[i] = [runner |-> r, serial |-> serial[r]] /\ thread'[r] = "exit"
      BY <1>4, <3>2
    <3>3. CASE tasks' = tasks
      BY <3>1, <3>3
    <3>4. CASE tasks' = Append(tasks, [runner |-> r, serial |-> serial[r]]) /\ thread'[r] = "exit"
      <4>1. tasks \in Seq(DeregisterTask)
        BY DEF RunnerInv, RunnerTypeOK
      <4>2. \/ i \in DOMAIN tasks /\ tasks'[i] = tasks[i]
            \/ tasks'[i] = [runner |-> r, serial |-> serial[r]]
        BY <1>4, <3>4, <4>1, AppendTasks
      <4> QED BY <3>1, <3>2, <3>4, <4>2
    <3> QED BY <1>2, <3>3, <3>4
  <2> QED BY <1>1, <2>1 DEF RunnerInv, TaskInv
<1>9. RunnerTypeOK'
  BY <1>1, <1>3, <1>6 DEF RunnerInv, RunnerTypeOK
<1> QED BY <1>7, <1>8, <1>9 DEF RunnerInv

LEMMA RunnerStep == RunnerInv /\ [Next]_vars => RunnerInv'
<1> SUFFICES ASSUME RunnerInv, [Next]_vars PROVE RunnerInv'
  OBVIOUS
<1>1. CASE UNCHANGED vars
  BY <1>1 DEF vars, RunnerInv, RunnerTypeOK, OwnerInv, TaskInv, Destroying, Ended
<1> QED BY <1>1, DoModalKeeps, TakeKeeps, FreeKeeps, ThreadKeeps DEF Next, UiStep

LEMMA RunnerInit == Init => RunnerInv
BY DEF Init, RunnerInv, RunnerTypeOK, OwnerInv, TaskInv, Destroying, Ended

(* A runner is freed only after its thread has ended, whoever frees it:    *)
(* Deregister, or CancelAllThreads, also when addresses are used again.    *)
THEOREM RunnersHaveOneOwner == Spec => []RunnersAreOwned
<1>1. RunnerInv => RunnersAreOwned
  BY DEF RunnerInv, OwnerInv, RunnersAreOwned, Destroying
<1> QED BY RunnerInit, RunnerStep, <1>1, PTL DEF Spec

(* Deregister does not make the UI thread wait for a user, but for the     *)
(* thread's last instructions, if it was meant for the runner it finds.    *)
THEOREM DeregisterIsPrompt == Spec => DestroysWithoutWaiting
<1> DEFINE Promptly == ui = "idle" /\ ui' = "destroying" =>
                         \/ thread[uiRunner'] \in {"exit", "ended"}
                         \/ Head(tasks).serial # serial[uiRunner']
<1>1. ASSUME RunnerInv, [Next]_vars PROVE Promptly
  <2> SUFFICES ASSUME ui = "idle", ui' = "destroying"
               PROVE  thread[uiRunner'] \in {"exit", "ended"} \/ Head(tasks).serial # serial[uiRunner']
    OBVIOUS
  <2>1. Deregister
    BY <1>1 DEF Next, UiStep, ThreadStep, vars, DoModalReturns, CancelReturns, Destroyed,
      CancelAllThreads, DoModal, Signal, SyncShowModal, QuitModal, UserCloses, OnThreadWillExit, Exit, Rest
  <2>2. tasks # <<>> /\ uiRunner' = Head(tasks).runner
    BY <2>1 DEF Deregister
  <2>3. 1 \in DOMAIN tasks /\ Head(tasks) = tasks[1]
    BY <1>1, <2>2, TailTasks DEF RunnerInv, RunnerTypeOK
  <2> QED BY <1>1, <2>2, <2>3 DEF RunnerInv, TaskInv
<1>2. RunnerInv /\ [Next]_vars => [Promptly]_vars
  BY <1>1
<1> QED BY RunnerInit, RunnerStep, <1>2, PTL DEF Spec, DestroysWithoutWaiting

-----------------------------------------------------------------------------
(* Types and bounds *)

LEMMA TasksKeepType ==
  ASSUME RunnerInv, TypeOK, MaxRunners \in Nat, NEW r \in Runners, ~Ended(r)
  PROVE  Append(tasks, [runner |-> r, serial |-> serial[r]])
           \in Seq([runner : Runners, serial : 1..MaxRunners])
<1>1. serial[r] # 0 /\ serial[r] \in 0..MaxRunners
  BY DEF RunnerInv, OwnerInv, TypeOK
<1>2. [runner |-> r, serial |-> serial[r]] \in [runner : Runners, serial : 1..MaxRunners]
  BY <1>1
<1> QED BY <1>2 DEF TypeOK

LEMMA TypeStep ==
  ASSUME RunnerInv, TypeOK, MaxRunners \in Nat, [Next]_vars PROVE TypeOK'
<1> USE DEF TypeOK
<1>1. CASE UNCHANGED vars
  BY <1>1 DEF vars
<1>2. ASSUME NEW r \in Runners, DoModal(r) PROVE TypeOK'
  <2>1. made + 1 \in 0..MaxRunners
    BY <1>2 DEF DoModal
  <2> QED BY <1>2, <2>1 DEF DoModal
<1>3. CASE DoModalReturns
  BY <1>3 DEF DoModalReturns
<1>4. CASE CancelAllThreads
  BY <1>4 DEF CancelAllThreads, CancelModalThenExit
<1>5. CASE CancelReturns \/ Destroyed
  BY <1>5 DEF CancelReturns, Destroyed, Free, flags
<1>6. CASE Deregister
  <2> DEFINE T == [runner : Runners, serial : 1..MaxRunners]
             r == Head(tasks).runner
  <2>1. tasks \in Seq(T) /\ tasks # <<>> /\ tasks' = Tail(tasks)
    BY <1>6 DEF Deregister
  <2>2. tasks' \in Seq(T) /\ Head(tasks) \in T
    BY <2>1, TailTasks
  <2>3. r \in Runners
    BY <2>2
  <2>4. CASE r \in runners_
    <3>1. /\ runners_' = runners_ \ {r} /\ CancelModalThenExit({r})
          /\ ui' = "destroying" /\ uiRunner' = r
          /\ UNCHANGED <<thread, is_running_, has_queue, serial, made, cancelled>>
      BY <1>6, <2>4 DEF Deregister
    <3>2. quit_posted_' \in [Runners -> BOOLEAN] /\ wm_quit' \in [Runners -> {"none", "pending", "lost"}]
      <4> HIDE DEF r, T
      <4> QED BY <3>1 DEF CancelModalThenExit, Cancelable
    <3> QED BY <2>2, <2>3, <3>1, <3>2
  <2>5. CASE r \notin runners_
    BY <1>6, <2>2, <2>5 DEF Deregister
  <2> QED BY <2>4, <2>5
<1>7. ASSUME NEW r \in Runners,
             Signal(r) \/ SyncShowModal(r) \/ QuitModal(r) \/ Exit(r) \/ UserCloses(r)
      PROVE  TypeOK'
  BY <1>7 DEF Signal, SyncShowModal, QuitModal, Exit, UserCloses, Goes, Rest, flags
<1>8. ASSUME NEW r \in Runners, OnThreadWillExit(r) PROVE TypeOK'
  <2>1. ~Ended(r)
    BY <1>8 DEF OnThreadWillExit, Goes, Ended
  <2> QED BY <1>8, <2>1, TasksKeepType DEF OnThreadWillExit, Goes, Rest, flags
<1> QED BY <1>1, <1>2, <1>3, <1>4, <1>5, <1>6, <1>7, <1>8 DEF Next, UiStep, ThreadStep

(* Every variable keeps its type: no more runners than are made have a     *)
(* serial, and a Deregister task always names a runner that was there.     *)
THEOREM TypeCorrect == ASSUME MaxRunners \in Nat PROVE Spec => []TypeOK
<1>1. Init => TypeOK
  BY DEF Init, TypeOK, NoRunner
<1>2. RunnerInv /\ TypeOK /\ [Next]_vars => TypeOK'
  BY TypeStep
<1> QED BY RunnerInit, RunnerStep, <1>1, <1>2, PTL DEF Spec
=============================================================================
