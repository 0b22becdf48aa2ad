-------------------------- MODULE LazyInstanceProofs --------------------------
(* A lazy instance is made once, and its callback is called once, for any *)
(* threads, instances and uses.                                            *)
EXTENDS LazyInstance, TLAPS

Making == {"create", "register", "publish"}

LazyTypeOK ==
  /\ state_ \in [Instances -> {"kNone", "kCreating", "kCreated"}]
  /\ instance_ \in [Instances -> BOOLEAN] /\ made \in [Instances -> Nat]
  /\ pc \in [Threads -> Making \cup {"idle", "spin", "got"}]
  /\ arg \in [Threads -> Instances \cup {Nothing}]
  /\ \A t \in Threads : pc[t] # "idle" => arg[t] \in Instances

(* kCreating is a lock on the instance, held by the one thread that makes  *)
(* it, and the count of constructions follows the state.                   *)
MakerInv ==
  /\ \A t \in Threads : pc[t] \in Making => state_[arg[t]] = "kCreating"
  /\ \A t, u \in Threads : pc[t] \in Making /\ pc[u] \in Making /\ arg[t] = arg[u] => t = u

CountInv ==
  /\ \A x \in Instances : made[x] <= 1
  /\ \A x \in Instances : state_[x] = "kNone" => made[x] = 0
  /\ \A t \in Threads : pc[t] = "create" => made[arg[t]] = 0

(* What is published has been constructed, and is there until the exit. *)
ThereInv ==
  /\ \A t \in Threads : pc[t] = "got" => state_[arg[t]] = "kCreated"
  /\ exit = "no" =>
       /\ \A t \in Threads : pc[t] \in {"register", "publish"} => instance_[arg[t]]
       /\ \A x \in Instances : state_[x] = "kCreated" => instance_[x]

LazyInv == LazyTypeOK /\ MakerInv /\ CountInv /\ ThereInv

ThreadStep(t) ==
  \/ \E x \in Instances : Pointer(t, x)
  \/ Create(t) \/ RegisterTask(t) \/ Publish(t) \/ Spin(t) \/ Return(t)
ExitStep == ProcessCallbacksNow \/ CallTop \/ Pop \/ Unlock

LEMMA TypeStep == LazyTypeOK /\ [Next]_vars => LazyTypeOK'
<1> SUFFICES ASSUME LazyTypeOK, [Next]_vars PROVE LazyTypeOK'
  OBVIOUS
<1> USE DEF LazyTypeOK, Making
<1>1. ASSUME NEW t \in Threads, NEW x \in Instances, Pointer(t, x) PROVE LazyTypeOK'
  BY <1>1 DEF Pointer, Goes
<1>2. ASSUME NEW t \in Threads, Create(t) PROVE LazyTypeOK'
  BY <1>2 DEF Create, Goes
<1>3. ASSUME NEW t \in Threads, RegisterTask(t) \/ Spin(t) PROVE LazyTypeOK'
  BY <1>3 DEF RegisterTask, Spin, Goes
<1>4. ASSUME NEW t \in Threads, Publish(t) PROVE LazyTypeOK'
  BY <1>4 DEF Publish, Goes
<1>5. ASSUME NEW t \in Threads, Return(t) PROVE LazyTypeOK'
  BY <1>5 DEF Return, Goes
<1>6. CASE ExitStep
  BY <1>6 DEF ExitStep, ProcessCallbacksNow, CallTop, Pop, Unlock
<1>7. CASE UNCHANGED vars
  BY <1>7 DEF vars
<1> QED BY <1>1, <1>2, <1>3, <1>4, <1>5, <1>6, <1>7 DEF Next, ExitStep

LEMMA MakerStep == LazyTypeOK /\ MakerInv /\ [Next]_vars => MakerInv'
<1> SUFFICES ASSUME LazyTypeOK, MakerInv, [Next]_vars PROVE MakerInv'
  OBVIOUS
<1> USE DEF LazyTypeOK, MakerInv, Making
<1>1. ASSUME NEW t \in Threads, NEW x \in Instances, Pointer(t, x) PROVE MakerInv'
  BY <1>1 DEF Pointer, Goes
<1>2. ASSUME NEW t \in Threads, Create(t) \/ RegisterTask(t) \/ Spin(t) PROVE MakerInv'
  <2>1. state_' = state_ /\ arg' = arg
    BY <1>2 DEF Create, RegisterTask, Spin
  <2>2. \A u \in Threads : pc'[u] \in Making => pc[u] \in Making
    BY <1>2 DEF Create, RegisterTask, Spin, Goes
  <2> QED BY <2>1, <2>2
<1>3. ASSUME NEW t \in Threads, Publish(t) PROVE MakerInv'
  BY <1>3 DEF Publish, Goes
<1>4. ASSUME NEW t \in Threads, Return(t) PROVE MakerInv'
  BY <1>4 DEF Return, Goes
<1>5. CASE ExitStep
  BY <1>5 DEF ExitStep, ProcessCallbacksNow, CallTop, Pop, Unlock
<1>6. CASE UNCHANGED vars
  BY <1>6 DEF vars
<1> QED BY <1>1, <1>2, <1>3, <1>4, <1>5, <1>6 DEF Next, ExitStep

LEMMA CountStep == LazyTypeOK /\ MakerInv /\ CountInv /\ [Next]_vars => CountInv'
<1> SUFFICES ASSUME LazyTypeOK, MakerInv, CountInv, [Next]_vars PROVE CountInv'
  OBVIOUS
<1> USE DEF LazyTypeOK, CountInv, Making
<1>1. ASSUME NEW t \in Threads, NEW x \in Instances, Pointer(t, x) PROVE CountInv'
  BY <1>1 DEF Pointer, Goes
<1>2. ASSUME NEW t \in Threads, Create(t) PROVE CountInv'
  BY <1>2 DEF Create, Goes, MakerInv
<1>3. ASSUME NEW t \in Threads, RegisterTask(t) \/ Spin(t) PROVE CountInv'
  BY <1>3 DEF RegisterTask, Spin, Goes
<1>4. ASSUME NEW t \in Threads, Publish(t) PROVE CountInv'
  BY <1>4 DEF Publish, Goes
<1>5. ASSUME NEW t \in Threads, Return(t) PROVE CountInv'
  BY <1>5 DEF Return, Goes
<1>6. CASE ExitStep
  BY <1>6 DEF ExitStep, ProcessCallbacksNow, CallTop, Pop, Unlock
<1>7. CASE UNCHANGED vars
  BY <1>7 DEF vars
<1> QED BY <1>1, <1>2, <1>3, <1>4, <1>5, <1>6, <1>7 DEF Next, ExitStep

LEMMA ThereStep == LazyTypeOK /\ MakerInv /\ ThereInv /\ [Next]_vars => ThereInv'
<1> SUFFICES ASSUME LazyTypeOK, MakerInv, ThereInv, [Next]_vars PROVE ThereInv'
  OBVIOUS
<1> USE DEF LazyTypeOK, ThereInv, Making
<1>1. ASSUME NEW t \in Threads, NEW x \in Instances, Pointer(t, x) PROVE ThereInv'
  BY <1>1 DEF Pointer, Goes
<1>2. ASSUME NEW t \in Threads, Create(t) PROVE ThereInv'
  BY <1>2 DEF Create, Goes, exits
<1>3. ASSUME NEW t \in Threads, RegisterTask(t) \/ Spin(t) PROVE ThereInv'
  BY <1>3 DEF RegisterTask, Spin, Goes, exits
<1>4. ASSUME NEW t \in Threads, Publish(t) PROVE ThereInv'
  BY <1>4 DEF Publish, Goes, exits
<1>5. ASSUME NEW t \in Threads, Return(t) PROVE ThereInv'
  BY <1>5 DEF Return, Goes, exits
<1>6. CASE ExitStep
  BY <1>6 DEF ExitStep, ProcessCallbacksNow, CallTop, Pop, Unlock
<1>7. CASE UNCHANGED vars
  BY <1>7 DEF vars, exits
<1> QED BY <1>1, <1>2, <1>3, <1>4, <1>5, <1>6, <1>7 DEF Next, ExitStep

LEMMA LazyInit == Init => LazyInv
BY DEF Init, LazyInv, LazyTypeOK, MakerInv, CountInv, ThereInv, Making, Nothing

LEMMA LazyInvariant == Spec => []LazyInv
<1>1. LazyInv /\ [Next]_vars => LazyInv'
  BY TypeStep, MakerStep, CountStep, ThereStep DEF LazyInv
<1> QED BY LazyInit, <1>1, PTL DEF Spec

(* LazyInstance::Pointer makes an instance once, however many threads ask  *)
(* for it first, and gives it to nobody before it is there.                *)
THEOREM InstancesAreMadeOnce == Spec => []MadeOnce
<1>1. LazyInv => MadeOnce
  BY DEF LazyInv, CountInv, ThereInv, LazyTypeOK, MadeOnce
<1> QED BY LazyInvariant, <1>1, PTL

-----------------------------------------------------------------------------
(* The exit callbacks *)

Elements(s) == {s[i] : i \in DOMAIN s}
Distinct(s) == \A i, j \in DOMAIN s : s[i] = s[j] => i = j

ExitTypeOK ==
  /\ stack_ \in Seq(Instances) /\ called \in Seq(Instances)
  /\ exit \in {"no", "loop", "task", "done"}

(* Who is about to register an instance is the first to do so. *)
RegisterInv ==
  /\ \A x \in Instances : state_[x] = "kNone" => x \notin Elements(stack_) \cup first
  /\ \A t \in Threads : pc[t] \in {"create", "register"} => arg[t] \notin Elements(stack_) \cup first
  /\ \A t \in Threads : pc[t] = "register" => made[arg[t]] = 1

(* The main thread holds the lock while it runs the callbacks, and asks    *)
(* for nothing but what the destructor at hand uses.                       *)
MainInv ==
  /\ exit \in {"loop", "task"} => lock_ = {Main}
  /\ exit = "loop" => \A t \in Threads : t = Main => pc[t] = "idle"
  /\ exit = "task" => /\ task \in Instances /\ touch \subseteq Uses[task]
                      /\ \A t \in Threads : t = Main /\ pc[t] # "idle" => arg[t] \in Uses[task]

(* A destructor has made a callback be registered while they run. *)
Registering == \E x, y \in Instances : y \in Uses[x] /\ made[y] = 1 /\ y \notin first

(* What was registered is called or still on the stack; its top is both    *)
(* while it is called.                                                     *)
CalledInv ==
  /\ exit = "no" => Distinct(stack_) /\ called = <<>>
  /\ ~Registering =>
       /\ exit \in {"loop", "task"} =>
            Distinct(stack_) /\ Distinct(called) /\ Elements(stack_) \cup Elements(called) = first
       /\ exit = "loop" => Elements(stack_) \cap Elements(called) = {}
       /\ exit = "task" => /\ stack_ # <<>> /\ task = stack_[Len(stack_)]
                           /\ Elements(stack_) \cap Elements(called) = {task}
       /\ exit = "done" => Distinct(called) /\ Elements(called) = first

ExitInv == ExitTypeOK /\ RegisterInv /\ MainInv /\ CalledInv

LEMMA AppendDistinct ==
  ASSUME NEW s \in Seq(Instances), NEW x \in Instances
  PROVE  /\ Append(s, x) \in Seq(Instances) /\ Elements(Append(s, x)) = Elements(s) \cup {x}
         /\ Distinct(s) /\ x \notin Elements(s) => Distinct(Append(s, x))
<1>1. /\ Append(s, x) \in Seq(Instances) /\ DOMAIN Append(s, x) = DOMAIN s \cup {Len(s) + 1}
      /\ Append(s, x)[Len(s) + 1] = x
      /\ \A i \in DOMAIN s : Append(s, x)[i] = s[i]
  OBVIOUS
<1> QED BY <1>1 DEF Elements, Distinct

LEMMA FrontDistinct ==
  ASSUME NEW s \in Seq(Instances), s # <<>>
  PROVE  LET front == SubSeq(s, 1, Len(s) - 1)
         IN /\ front \in Seq(Instances) /\ Elements(front) \subseteq Elements(s)
            /\ s[Len(s)] \in Elements(s)
            /\ Distinct(s) => Distinct(front) /\ Elements(front) = Elements(s) \ {s[Len(s)]}
<1> DEFINE front == SubSeq(s, 1, Len(s) - 1)
           n == Len(s)
<1>1. n \in Nat \ {0} /\ n \in DOMAIN s
  OBVIOUS
<1>2. /\ front \in Seq(Instances) /\ DOMAIN front = DOMAIN s \ {n}
      /\ \A i \in DOMAIN front : front[i] = s[i]
  BY <1>1
<1> HIDE DEF front, n
<1>3. s[n] \in Elements(s) /\ Elements(front) \subseteq Elements(s)
  BY <1>1, <1>2 DEF Elements
<1>4. ASSUME Distinct(s) PROVE Distinct(front) /\ Elements(front) = Elements(s) \ {s[n]}
  BY <1>1, <1>2, <1>4 DEF Elements, Distinct
<1> QED BY <1>2, <1>3, <1>4 DEF front, n

LEMMA ExitTypeStep == LazyInv /\ ExitTypeOK /\ [Next]_vars => ExitTypeOK'
<1> SUFFICES ASSUME LazyInv, ExitTypeOK, [Next]_vars PROVE ExitTypeOK'
  OBVIOUS
<1>1. CASE UNCHANGED <<stack_, called, exit>>
  BY <1>1 DEF ExitTypeOK
<1>2. ASSUME NEW t \in Threads, ThreadStep(t) PROVE ExitTypeOK'
  <2>1. CASE RegisterTask(t)
    <3>1. arg[t] \in Instances
      BY <2>1 DEF LazyInv, LazyTypeOK, RegisterTask, Goes
    <3> QED BY <2>1, <3>1, AppendDistinct DEF RegisterTask, ExitTypeOK, exits
  <2> QED BY <1>1, <1>2, <2>1 DEF ThreadStep, Pointer, Create, Publish, Spin, Return, exits
<1>3. CASE CallTop
  <2>1. stack_[Len(stack_)] \in Instances
    BY <1>3 DEF CallTop, ExitTypeOK
  <2> QED BY <1>3, <2>1, AppendDistinct DEF CallTop, ExitTypeOK
<1>4. CASE Pop
  <2>1. SubSeq(stack_, 1, Len(stack_) - 1) \in Seq(Instances)
    <3>1. CASE stack_ = <<>>
      BY <3>1
    <3>2. CASE stack_ # <<>>
      BY <3>2, FrontDistinct DEF ExitTypeOK
    <3> QED BY <3>1, <3>2
  <2> QED BY <1>4, <2>1 DEF Pop, ExitTypeOK
<1>5. CASE ProcessCallbacksNow \/ Unlock
  BY <1>5 DEF ProcessCallbacksNow, Unlock, ExitTypeOK
<1>6. CASE UNCHANGED vars
  BY <1>1, <1>6 DEF vars
<1> QED BY <1>2, <1>3, <1>4, <1>5, <1>6 DEF Next, ThreadStep

LEMMA RegisterStep == LazyInv /\ ExitTypeOK /\ RegisterInv /\ [Next]_vars => RegisterInv'
<1> SUFFICES ASSUME LazyInv, ExitTypeOK, RegisterInv, [Next]_vars PROVE RegisterInv'
  OBVIOUS
<1>0. LazyTypeOK /\ MakerInv /\ CountInv
  BY DEF LazyInv
<1> USE DEF RegisterInv
<1>1. ASSUME NEW t \in Threads, NEW x \in Instances, Pointer(t, x) PROVE RegisterInv'
  BY <1>0, <1>1 DEF Pointer, Goes, LazyTypeOK
<1>2. ASSUME NEW t \in Threads, Create(t) PROVE RegisterInv'
  BY <1>0, <1>2 DEF Create, Goes, exits, LazyTypeOK, MakerInv, CountInv, Making
<1>3. ASSUME NEW t \in Threads, RegisterTask(t) PROVE RegisterInv'
  <2>1. arg[t] \in Instances /\ pc[t] = "register" /\ stack_' = Append(stack_, arg[t])
        /\ UNCHANGED <<state_, arg, made, first>> /\ pc' = [pc EXCEPT ![t] = "publish"]
    BY <1>0, <1>3 DEF RegisterTask, Goes, LazyTypeOK, exits
  <2>2. Elements(stack_') = Elements(stack_) \cup {arg[t]}
    BY <2>1, AppendDistinct DEF ExitTypeOK
  <2>3. state_[arg[t]] = "kCreating"
        /\ \A u \in Threads : pc[u] \in {"create", "register"} /\ arg[u] = arg[t] => u = t
    BY <1>0, <2>1 DEF MakerInv, Making
  <2>4. \A u \in Threads : pc'[u] \in {"create", "register"} => u # t /\ pc[u] = pc'[u]
    BY <1>0, <2>1 DEF LazyTypeOK
  <2> QED BY <2>1, <2>2, <2>3, <2>4
<1>4. ASSUME NEW t \in Threads, Publish(t) \/ Spin(t) \/ Return(t) PROVE RegisterInv'
  <2>1. /\ UNCHANGED <<made, stack_, first>>
        /\ \A x \in Instances : state_'[x] = "kNone" => state_[x] = "kNone"
    BY <1>0, <1>4 DEF Publish, Spin, Return, exits, LazyTypeOK
  <2>2. \A u \in Threads : pc'[u] \in {"create", "register"} => pc[u] = pc'[u] /\ arg'[u] = arg[u]
    BY <1>0, <1>4 DEF Publish, Spin, Return, Goes, LazyTypeOK
  <2> QED BY <2>1, <2>2
<1>5. CASE ProcessCallbacksNow
  BY <1>5 DEF ProcessCallbacksNow, Elements
<1>6. CASE Pop
  <2>1. Elements(stack_') \subseteq Elements(stack_)
    <3>1. CASE stack_ = <<>>
      BY <1>6, <3>1 DEF Pop, Elements
    <3>2. CASE stack_ # <<>>
      BY <1>6, <3>2, FrontDistinct DEF Pop, ExitTypeOK
    <3> QED BY <3>1, <3>2
  <2>2. UNCHANGED <<state_, made, pc, arg, first>>
    BY <1>6 DEF Pop
  <2> QED BY <2>1, <2>2
<1>7. CASE CallTop \/ Unlock \/ UNCHANGED vars
  BY <1>7 DEF CallTop, Unlock, vars
<1> QED BY <1>1, <1>2, <1>3, <1>4, <1>5, <1>6, <1>7 DEF Next

LEMMA MainStep == LazyInv /\ ExitTypeOK /\ MainInv /\ [Next]_vars => MainInv'
<1> SUFFICES ASSUME LazyInv, ExitTypeOK, MainInv, [Next]_vars PROVE MainInv'
  OBVIOUS
<1>0. LazyTypeOK
  BY DEF LazyInv
<1>1. ASSUME NEW t \in Threads, NEW x \in Instances, Pointer(t, x) PROVE MainInv'
  BY <1>0, <1>1 DEF Pointer, Asks, Goes, LazyTypeOK, MainInv
<1>2. ASSUME NEW t \in Threads, Create(t) \/ RegisterTask(t) \/ Publish(t) \/ Spin(t) PROVE MainInv'
  <2>1. UNCHANGED <<arg, lock_, exit, task, touch>> /\ pc[t] # "idle"
    BY <1>2 DEF Create, RegisterTask, Publish, Spin, Goes, exits
  <2>2. \A u \in Threads : u # t => pc'[u] = pc[u]
    BY <1>0, <1>2 DEF Create, RegisterTask, Publish, Spin, Goes, LazyTypeOK
  <2> QED BY <2>1, <2>2 DEF MainInv
<1>3. ASSUME NEW t \in Threads, Return(t) PROVE MainInv'
  BY <1>0, <1>3 DEF Return, Goes, exits, LazyTypeOK, MainInv
<1>4. CASE ProcessCallbacksNow
  BY <1>4 DEF ProcessCallbacksNow, MainInv
<1>5. CASE CallTop
  BY <1>5 DEF CallTop, MainInv, ExitTypeOK
<1>6. CASE Pop
  BY <1>6 DEF Pop, MainInv
<1>7. CASE Unlock \/ UNCHANGED vars
  BY <1>7 DEF Unlock, vars, MainInv
<1> QED BY <1>1, <1>2, <1>3, <1>4, <1>5, <1>6, <1>7 DEF Next

(* Once the callbacks run it stays known that one of them registered one. *)
LEMMA RegisteringStays == LazyInv /\ exit # "no" /\ Registering /\ [Next]_vars => Registering'
<1> SUFFICES ASSUME LazyInv, exit # "no", Registering, [Next]_vars PROVE Registering'
  OBVIOUS
<1>1. PICK y \in Instances : made[y] = 1 /\ y \notin first /\ \E x \in Instances : y \in Uses[x]
  BY DEF Registering
<1>2. made'[y] = 1 /\ UNCHANGED first
  <2>1. ASSUME NEW t \in Threads, Create(t) PROVE made'[y] = 1 /\ UNCHANGED first
    BY <1>1, <2>1 DEF Create, Goes, exits, LazyInv, LazyTypeOK, CountInv
  <2>2. CASE UNCHANGED <<made, first>>
    BY <1>1, <2>2
  <2> QED BY <2>1, <2>2 DEF Next, Pointer, RegisterTask, Publish, Spin, Return, ProcessCallbacksNow, CallTop, Pop,
          Unlock, exits, vars
<1> QED BY <1>1, <1>2 DEF Registering

LEMMA CalledStep ==
  LazyInv /\ ExitTypeOK /\ RegisterInv /\ MainInv /\ CalledInv /\ [Next]_vars => CalledInv'
<1> SUFFICES ASSUME LazyInv, ExitTypeOK, RegisterInv, MainInv, CalledInv, [Next]_vars PROVE CalledInv'
  OBVIOUS
<1>0. LazyTypeOK
  BY DEF LazyInv
<1>1. CASE UNCHANGED <<stack_, called, exit, task, first>>
  <2>1. exit # "no" /\ Registering => Registering'
    BY RegisteringStays
  <2> QED BY <1>1, <2>1 DEF CalledInv
<1>2. ASSUME NEW t \in Threads, RegisterTask(t) PROVE CalledInv'
  <2>1. arg[t] \in Instances /\ pc[t] = "register" /\ stack_' = Append(stack_, arg[t]) /\ lock_ \subseteq {t}
        /\ UNCHANGED <<called, exit, task, first, made>>
    BY <1>0, <1>2 DEF RegisterTask, Goes, LazyTypeOK, exits
  <2>2. CASE exit = "no"
    <3>1. Distinct(stack_')
      BY <2>1, <2>2, AppendDistinct DEF ExitTypeOK, RegisterInv, CalledInv
    <3> QED BY <2>1, <2>2, <3>1 DEF CalledInv
  <2>3. CASE exit \in {"loop", "task"}
    <3>1. t = Main /\ exit = "task"
      BY <2>1, <2>3 DEF MainInv
    <3>2. task \in Instances /\ arg[t] \in Uses[task]
      BY <2>1, <3>1 DEF MainInv
    <3>3. made[arg[t]] = 1 /\ arg[t] \notin first
      BY <2>1 DEF RegisterInv
    <3>4. Registering'
      BY <2>1, <3>2, <3>3 DEF Registering
    <3> QED BY <2>1, <2>3, <3>4 DEF CalledInv
  <2>4. CASE exit = "done"
    <3>1. Registering => Registering'
      BY <2>4, RegisteringStays
    <3> QED BY <2>1, <2>4, <3>1 DEF CalledInv
  <2> QED BY <2>2, <2>3, <2>4 DEF ExitTypeOK
<1>3. CASE ProcessCallbacksNow
  <2>1. exit = "no" /\ exit' = "loop" /\ first' = Elements(stack_) /\ stack_' = stack_ /\ called' = called
    BY <1>3 DEF ProcessCallbacksNow, Elements
  <2>2. Elements(<<>>) = {} /\ Distinct(<<>>)
    BY DEF Elements, Distinct
  <2> QED BY <2>1, <2>2 DEF CalledInv
<1>4. CASE CallTop
  <2>1. /\ exit = "loop" /\ exit' = "task" /\ stack_ # <<>> /\ task' = stack_[Len(stack_)]
        /\ called' = Append(called, task') /\ stack_' = stack_ /\ first' = first
    BY <1>4 DEF CallTop
  <2>2. task' \in Instances /\ task' \in Elements(stack_)
    <3>1. stack_[Len(stack_)] \in Instances /\ Len(stack_) \in DOMAIN stack_
      BY <2>1 DEF ExitTypeOK
    <3> QED BY <2>1, <3>1 DEF Elements
  <2>3. /\ Elements(called') = Elements(called) \cup {task'}
        /\ Distinct(called) /\ task' \notin Elements(called) => Distinct(called')
    BY <2>1, <2>2, AppendDistinct DEF ExitTypeOK
  <2>4. Registering => Registering'
    BY <2>1, RegisteringStays
  <2> QED BY <2>1, <2>2, <2>3, <2>4 DEF CalledInv
<1>5. CASE Pop
  <2>1. /\ exit = "task" /\ exit' = "loop" /\ stack_' = SubSeq(stack_, 1, Len(stack_) - 1)
        /\ called' = called /\ first' = first
    BY <1>5 DEF Pop
  <2>2. Registering => Registering'
    BY <2>1, RegisteringStays
  <2>3. ASSUME ~Registering
        PROVE  /\ Distinct(stack_') /\ Distinct(called) /\ Elements(stack_') = Elements(stack_) \ {task}
               /\ Elements(stack_) \cap Elements(called) = {task} /\ Elements(stack_) \cup Elements(called) = first
    BY <2>1, <2>3, FrontDistinct DEF CalledInv, ExitTypeOK
  <2> QED BY <2>1, <2>2, <2>3 DEF CalledInv
<1>6. CASE Unlock
  <2>1. exit = "loop" /\ exit' = "done" /\ stack_ = <<>> /\ UNCHANGED <<stack_, called, first>>
    BY <1>6 DEF Unlock
  <2>2. Registering => Registering'
    BY <2>1, RegisteringStays
  <2>3. Elements(<<>>) = {}
    BY DEF Elements
  <2> QED BY <2>1, <2>2, <2>3 DEF CalledInv
<1> QED BY <1>1, <1>2, <1>3, <1>4, <1>5, <1>6
        DEF Next, Pointer, Create, Publish, Spin, Return, exits, vars

LEMMA ExitInit == Init => ExitInv
<1>1. Elements(<<>>) = {} /\ Distinct(<<>>)
  BY DEF Elements, Distinct
<1> QED BY <1>1 DEF Init, ExitInv, ExitTypeOK, RegisterInv, MainInv, CalledInv

LEMMA ExitStepKeeps == LazyInv /\ ExitInv /\ [Next]_vars => ExitInv'
BY ExitTypeStep, RegisterStep, MainStep, CalledStep DEF ExitInv

(* AtExitManager::ProcessCallbacksNow calls every callback that was        *)
(* registered before, and none twice, unless a destructor makes an         *)
(* instance: then the pop, which comes after the call, takes the callback  *)
(* of the new one.                                                         *)
THEOREM CallbacksAreCalledOnce == Spec => []CalledOnceEach
<1>1. LazyInv /\ ExitInv /\ [Next]_vars => ExitInv'
  BY ExitStepKeeps
<1>2. ExitInv => CalledOnceEach
  <2> SUFFICES ASSUME ExitInv, exit = "done", ~Registers
               PROVE  {called[i] : i \in DOMAIN called} = first
                      /\ \A i, j \in DOMAIN called : called[i] = called[j] => i = j
    BY DEF CalledOnceEach
  <2>1. ~Registering
    BY DEF Registering, Registers
  <2> QED BY <2>1 DEF ExitInv, CalledInv, Distinct, Elements
<1> QED BY LazyInvariant, ExitInit, <1>1, <1>2, PTL DEF Spec

-----------------------------------------------------------------------------
(* Types *)

(* Destructors ask for instances. *)
UsesOK == Main \in Threads /\ Uses \in [Instances -> SUBSET Instances]

LEMMA AllTypesStep ==
  ASSUME LazyInv, ExitInv, TypeOK, UsesOK, [Next]_vars PROVE TypeOK'
<1>0. LazyTypeOK' /\ ExitTypeOK'
  BY TypeStep, ExitTypeStep DEF LazyInv, ExitInv
<1> SUFFICES /\ lock_' \subseteq {Main} /\ task' \in Instances \cup {Nothing}
             /\ touch' \subseteq Instances /\ first' \subseteq Instances
  BY <1>0 DEF LazyTypeOK, ExitTypeOK, Making, TypeOK
<1>1. ASSUME NEW t \in Threads, ThreadStep(t) PROVE UNCHANGED <<lock_, task, first>> /\ touch' \subseteq touch
  BY <1>1 DEF ThreadStep, Pointer, Asks, Create, RegisterTask, Publish, Spin, Return, exits
<1>2. CASE ProcessCallbacksNow
  BY <1>2 DEF ProcessCallbacksNow, TypeOK
<1>3. CASE CallTop
  <2>1. task' \in Instances
    BY <1>3 DEF CallTop, TypeOK
  <2> QED BY <1>3, <2>1 DEF CallTop, TypeOK, UsesOK
<1>4. CASE Pop \/ Unlock \/ UNCHANGED vars
  BY <1>4 DEF Pop, Unlock, vars, TypeOK
<1> QED BY <1>1, <1>2, <1>3, <1>4 DEF Next, ThreadStep, TypeOK

(* Every variable keeps its type; the manager's lock, which the main       *)
(* thread may enter again, is never another thread's while callbacks run.  *)
THEOREM TypeCorrect == ASSUME UsesOK PROVE Spec => []TypeOK
<1>1. Init => TypeOK
  BY DEF Init, TypeOK, Nothing
<1>2. LazyInv /\ ExitInv /\ TypeOK /\ [Next]_vars => TypeOK'
  BY AllTypesStep
<1> QED BY LazyInvariant, ExitInit, ExitStepKeeps, <1>1, <1>2, PTL DEF Spec
=============================================================================
