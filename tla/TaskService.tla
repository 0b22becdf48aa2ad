----------------------------- MODULE TaskService -----------------------------
(***************************************************************************)
(* What nbase::MessageLoop promises to those who post to it, with none of  *)
(* its queues, events or nested Runs: the clauses of message_loop.h.       *)
(* Module MessageLoop is shown to implement this one.                      *)
(***************************************************************************)
EXTENDS Integers, Sequences

VARIABLES
  queued,   \* tasks posted and not yet started: [id, delayed_run_time, nestable]
  running,  \* ids of the tasks in progress, the innermost last
  done,     \* ids of the tasks that ran to completion
  posted,   \* how many tasks were posted; a task's id is its rank
  now

vars == <<queued, running, done, posted, now>>

Init ==
  /\ queued = {}
  /\ running = <<>>
  /\ done = {}
  /\ posted = 0
  /\ now = 1

Post ==
  /\ posted' = posted + 1
  /\ \E t \in queued' : t.id = posted + 1 /\ queued' = queued \cup {t}
  /\ UNCHANGED <<running, done, now>>

(* The tasks among which the order of posting is kept. *)
InOrder(t) == t.nestable /\ t.delayed_run_time = 0

(* A queued task starts: not before its time, inside another task only if  *)
(* it is nestable, and, among the immediate nestable ones, in order.       *)
Start ==
  /\ \E t \in queued :
       /\ t.delayed_run_time <= now
       /\ t.nestable \/ running = <<>>
       /\ InOrder(t) => \A u \in queued : InOrder(u) => t.id <= u.id
       /\ queued' = queued \ {t}
       /\ running' = Append(running, t.id)
  /\ UNCHANGED <<done, posted, now>>

(* The innermost task in progress returns. *)
Finish ==
  /\ running # <<>>
  /\ done' = done \cup {running[Len(running)]}
  /\ running' = SubSeq(running, 1, Len(running) - 1)
  /\ UNCHANGED <<queued, posted, now>>

Tick ==
  /\ now' = now + 1
  /\ UNCHANGED <<queued, running, done, posted>>

Next == Post \/ Start \/ Finish \/ Tick

Spec == Init /\ [][Next]_vars

-----------------------------------------------------------------------------
InProgress == {running[i] : i \in DOMAIN running}
Ids == {t.id : t \in queued}

(* Every task posted is queued, in progress or done, and only one of them: *)
(* none is lost, none is started twice.                                    *)
OnceEach ==
  /\ 1..posted = Ids \cup InProgress \cup done
  /\ Ids \cap InProgress = {} /\ (Ids \cup InProgress) \cap done = {}
  /\ \A t, u \in queued : t.id = u.id => t = u
  /\ \A i, j \in DOMAIN running : running[i] = running[j] => i = j
=============================================================================
