----------------------------- MODULE LazyInstance -----------------------------
(***************************************************************************)
(* nbase::LazyInstance and nbase::AtExitManager: instances made by the     *)
(* first thread that asks for them, each of which registers a callback     *)
(* that deletes it at exit.  The main thread runs the callbacks, last in   *)
(* first out, and holds the manager's lock, which it may enter again,      *)
(* while they run.  A destructor may ask for another instance.             *)
(***************************************************************************)
EXTENDS Naturals, Sequences

CONSTANTS
  Threads,   \* that ask for instances
  Main,      \* the one among them that owns the manager
  Instances,
  Uses       \* which instances the destructor of an instance asks for

VARIABLES
  state_,     \* of an instance: "kNone", "kCreating" or "kCreated"
  instance_,  \* it is there
  made,       \* history: how often it was constructed
  pc, arg,    \* of a thread: where it is in Pointer, and for which instance
  stack_,     \* callbacks, the top last
  lock_,      \* the threads that hold it
  exit,       \* ProcessCallbacksNow: "no", "loop", "task" or "done"
  task,       \* the callback it runs
  touch,      \* instances its destructor has yet to ask for
  first, called  \* history: callbacks registered before it began; called
vars == <<state_, instance_, made, pc, arg, stack_, lock_, exit, task, touch, first, called>>
exits == <<exit, task, touch, first, called>>

Nothing == 0  \* no instance has this name

Init ==
  /\ state_ = [x \in Instances |-> "kNone"]
  /\ instance_ = [x \in Instances |-> FALSE] /\ made = [x \in Instances |-> 0]
  /\ pc = [t \in Threads |-> "idle"] /\ arg = [t \in Threads |-> Nothing]
  /\ stack_ = <<>> /\ lock_ = {}
  /\ exit = "no" /\ task = Nothing /\ touch = {} /\ first = {} /\ called = <<>>

-----------------------------------------------------------------------------
(* Pointer() *)

Goes(t, from, to) == pc[t] = from /\ pc' = [pc EXCEPT ![t] = to]

(* The threads ask for what they like; the main thread does so as well     *)
(* until it is in the destructors.                                         *)
Asks(t, x) ==
  \/ (t # Main \/ exit = "no") /\ UNCHANGED touch
  \/ t = Main /\ exit = "task" /\ x \in touch /\ touch' = touch \ {x}

(* Mutant of Pointer: state_ is read first and written later. *)
PointerUnsafe(t, x) ==
  /\ Asks(t, x)
  /\ Goes(t, "idle", IF state_[x] = "kCreated" THEN "got"
                     ELSE IF state_[x] = "kNone" THEN "create" ELSE "spin")
  /\ arg' = [arg EXCEPT ![t] = x]
  /\ UNCHANGED <<state_, instance_, made, stack_, lock_, exit, task, first, called>>

(* Acquire_Load and CompareAndSwap: the thread has the instance, makes it, *)
(* or waits for the one that does.                                         *)
Pointer(t, x) ==
  /\ Asks(t, x)
  /\ Goes(t, "idle", IF state_[x] = "kCreated" THEN "got"
                     ELSE IF state_[x] = "kNone" THEN "create" ELSE "spin")
  /\ arg' = [arg EXCEPT ![t] = x]
  /\ state_' = [state_ EXCEPT ![x] = IF @ = "kNone" THEN "kCreating" ELSE @]
  /\ UNCHANGED <<instance_, made, stack_, lock_, exit, task, first, called>>

Create(t) ==
  /\ Goes(t, "create", "register")
  /\ instance_' = [instance_ EXCEPT ![arg[t]] = TRUE]
  /\ made' = [made EXCEPT ![arg[t]] = @ + 1]
  /\ UNCHANGED <<state_, arg, stack_, lock_, exits>>

(* RegisterCallback, under the lock. *)
RegisterTask(t) ==
  /\ Goes(t, "register", "publish")
  /\ lock_ \subseteq {t}
  /\ stack_' = Append(stack_, arg[t])
  /\ UNCHANGED <<state_, instance_, made, arg, lock_, exits>>

Publish(t) ==
  /\ Goes(t, "publish", "got")
  /\ state_' = [state_ EXCEPT ![arg[t]] = "kCreated"]
  /\ UNCHANGED <<instance_, made, arg, stack_, lock_, exits>>

(* Mutant of Spin: until the instance is no longer unmade. *)
SpinLess(t) ==
  /\ Goes(t, "spin", "got")
  /\ state_[arg[t]] # "kNone"
  /\ UNCHANGED <<state_, instance_, made, arg, stack_, lock_, exits>>

Spin(t) ==
  /\ Goes(t, "spin", "got")
  /\ state_[arg[t]] = "kCreated"
  /\ UNCHANGED <<state_, instance_, made, arg, stack_, lock_, exits>>

(* The caller is done with the pointer. *)
Return(t) ==
  /\ Goes(t, "got", "idle")
  /\ arg' = [arg EXCEPT ![t] = Nothing]
  /\ UNCHANGED <<state_, instance_, made, stack_, lock_, exits>>

-----------------------------------------------------------------------------
(* ProcessCallbacksNow, called by ~AtExitManager *)

ProcessCallbacksNow ==
  /\ exit = "no" /\ pc[Main] = "idle" /\ lock_ = {}
  /\ exit' = "loop" /\ lock_' = {Main}
  /\ first' = {stack_[i] : i \in DOMAIN stack_}
  /\ UNCHANGED <<state_, instance_, made, pc, arg, stack_, task, touch, called>>

(* The top callback is copied and called: OnExit, which deletes. *)
CallTop ==
  /\ exit = "loop" /\ stack_ # <<>>
  /\ exit' = "task"
  /\ task' = stack_[Len(stack_)]
  /\ touch' = Uses[task']
  /\ called' = Append(called, task')
  /\ UNCHANGED <<state_, instance_, made, pc, arg, stack_, lock_, first>>

(* Mutant of Pop: the bottom is popped, as if it were a queue. *)
PopBottom ==
  /\ exit = "task" /\ pc[Main] = "idle" /\ touch = {}
  /\ exit' = "loop" /\ task' = Nothing
  /\ instance_' = [instance_ EXCEPT ![task] = FALSE]
  /\ stack_' = Tail(stack_)
  /\ UNCHANGED <<state_, made, pc, arg, lock_, touch, first, called>>

(* It returns, and only then the top is popped, whatever that is now. *)
Pop ==
  /\ exit = "task" /\ pc[Main] = "idle" /\ touch = {}
  /\ exit' = "loop" /\ task' = Nothing
  /\ instance_' = [instance_ EXCEPT ![task] = FALSE]
  /\ stack_' = SubSeq(stack_, 1, Len(stack_) - 1)
  /\ UNCHANGED <<state_, made, pc, arg, lock_, touch, first, called>>

Unlock ==
  /\ exit = "loop" /\ stack_ = <<>>
  /\ exit' = "done" /\ lock_' = {}
  /\ UNCHANGED <<state_, instance_, made, pc, arg, stack_, task, touch, first, called>>

-----------------------------------------------------------------------------
Next ==
  \/ \E t \in Threads :
       \/ \E x \in Instances : Pointer(t, x)
       \/ Create(t) \/ RegisterTask(t) \/ Publish(t) \/ Spin(t) \/ Return(t)
  \/ ProcessCallbacksNow \/ CallTop \/ Pop \/ Unlock

Spec == Init /\ [][Next]_vars

-----------------------------------------------------------------------------
(* Properties *)

(* Every variable keeps the shape of what it stands for. *)
TypeOK ==
  /\ state_ \in [Instances -> {"kNone", "kCreating", "kCreated"}]
  /\ instance_ \in [Instances -> BOOLEAN] /\ made \in [Instances -> Nat]
  /\ pc \in [Threads -> {"idle", "create", "register", "publish", "spin", "got"}]
  /\ arg \in [Threads -> Instances \cup {Nothing}]
  /\ stack_ \in Seq(Instances) /\ lock_ \subseteq {Main}
  /\ exit \in {"no", "loop", "task", "done"} /\ task \in Instances \cup {Nothing}
  /\ touch \subseteq Instances /\ first \subseteq Instances /\ called \in Seq(Instances)

(* An instance is made once, however many threads ask for it first, and is *)
(* there for everybody who has been given it, until the exit.              *)
MadeOnce ==
  /\ \A x \in Instances : made[x] <= 1
  /\ exit = "no" => \A t \in Threads : pc[t] = "got" => instance_[arg[t]]

(* At exit every callback registered before is called, and none twice.     *)
(* The exception is real: a callback that registers another one is called  *)
(* again in its stead, since the pop comes after the call.                 *)
Registers == \E x \in Instances : \E y \in Uses[x] : made[y] = 1 /\ y \notin first
CalledOnceEach ==
  exit = "done" /\ ~Registers =>
    /\ {called[i] : i \in DOMAIN called} = first
    /\ \A i, j \in DOMAIN called : called[i] = called[j] => i = j
=============================================================================
