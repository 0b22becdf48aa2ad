----------------------------- MODULE TimerManager -----------------------------
(***************************************************************************)
(* ui::TimerManager: every timer of the user interface, in one queue that  *)
(* one multimedia timer polls.  That timer is fast (TIMER_INTERVAL) while  *)
(* the first timer is due within a second, slow, for just as long as the   *)
(* first timer takes, otherwise, and off when there are no timers.         *)
(*                                                                         *)
(* Times are relative to the clock: rem of a timer is dwTimeEnd less the   *)
(* time it is, elapsed of a Poll is the time since its currentTime.  So    *)
(* behaviours may go on for ever in finitely many states.                  *)
(***************************************************************************)
EXTENDS Integers, Sequences

CONSTANTS
  Timers,      \* timers that may be in use at the same time: positive numbers
  Pauses,      \* intervals, in ticks of the fast timer
  Repeats,     \* repeat counts, besides REPEAT_FOREVER
  Second,      \* a second, in those ticks
  MaxElapsed,  \* bound: how long one Poll takes
  MaxNesting,  \* bound: how many Polls are inside one another
  MaxMsgs      \* bound: pending messages; more are as good as these

VARIABLES
  m_aTimers, m_bMinPause,
  period,      \* of the multimedia timer, 0 if m_nOldTimerId is
  tick,        \* time until it fires
  msg,         \* WM_USER_DEFINED_TIMER messages pending
  live,        \* timers whose weakFlag has not expired
  polls        \* the Polls in progress, the innermost last
vars == <<m_aTimers, m_bMinPause, period, tick, msg, live, polls>>

REPEAT_FOREVER == -1
TIMERINFO == [id : Timers, rem : Int, uPause : Pauses, iRepeatTime : Int]
NoTimer == [id |-> 0, rem |-> 0, uPause |-> 0, iRepeatTime |-> 0]

(* A Poll is in its loop, or in the callback of the timer it took out,     *)
(* which may be running a modal loop.                                      *)
InPoll(at) == polls # <<>> /\ polls[Len(polls)].at = at
Top == polls[Len(polls)]
Outer == SubSeq(polls, 1, Len(polls) - 1)
InCode == polls = <<>> \/ InPoll("callback")
Goes(at, it) == polls' = Append(Outer, [Top EXCEPT !.at = at, !.it = it])

(* timeSetEvent and timeKillEvent *)
Arm(p) == period' = p /\ tick' = p
Unarm == Arm(0)

Init ==
  /\ m_aTimers = {} /\ m_bMinPause = TRUE
  /\ period = 0 /\ tick = 0 /\ msg = 0
  /\ live = {} /\ polls = <<>>

Queued(id) == \E t \in m_aTimers : t.id = id
Running(id) == \E i \in DOMAIN polls : polls[i].it.id = id

(* Mutant of AddCancelableTimer: m_nOldTimerId is not looked at. *)
AddCancelableTimerUnarmed(id, pause, times) ==
  /\ InCode
  /\ ~Queued(id) /\ ~Running(id)
  /\ m_aTimers' = m_aTimers \cup {[id |-> id, rem |-> pause, uPause |-> pause, iRepeatTime |-> times]}
  /\ live' = live \cup {id}
  /\ IF ~m_bMinPause THEN Arm(1) /\ m_bMinPause' = TRUE
     ELSE UNCHANGED <<period, tick, m_bMinPause>>
  /\ UNCHANGED <<msg, polls>>

AddCancelableTimer(id, pause, times) ==
  /\ InCode
  /\ ~Queued(id) /\ ~Running(id)
  /\ m_aTimers' = m_aTimers \cup {[id |-> id, rem |-> pause, uPause |-> pause, iRepeatTime |-> times]}
  /\ live' = live \cup {id}
  /\ IF period = 0 \/ ~m_bMinPause THEN Arm(1) /\ m_bMinPause' = TRUE
     ELSE UNCHANGED <<period, tick, m_bMinPause>>
  /\ UNCHANGED <<msg, polls>>

(* The owner cancels its WeakCallbackFlag, or is destroyed. *)
Cancel(id) ==
  /\ InCode /\ id \in live
  /\ live' = live \ {id}
  /\ UNCHANGED <<m_aTimers, m_bMinPause, period, tick, msg, polls>>

(* On the multimedia thread. *)
TimeCallback ==
  /\ period # 0 /\ tick = 0
  /\ tick' = period
  /\ msg' = IF msg < MaxMsgs THEN msg + 1 ELSE msg
  /\ UNCHANGED <<m_aTimers, m_bMinPause, period, live, polls>>

(* The UI thread's loop, or a modal loop, dispatches the message. *)
Poll ==
  /\ polls = <<>> \/ InPoll("modal")
  /\ msg > 0 /\ msg' = msg - 1
  /\ Len(polls) < MaxNesting
  /\ polls' = Append(polls, [at |-> "loop", it |-> NoTimer, elapsed |-> 0])
  /\ UNCHANGED <<m_aTimers, m_bMinPause, period, tick, live>>

IsFirst(t) == t \in m_aTimers /\ \A u \in m_aTimers : t.rem <= u.rem
detaTime(t) == t.rem + Top.elapsed

(* The first timer is due: it is taken out and called, *)
PollCall ==
  /\ InPoll("loop")
  /\ \E t \in m_aTimers :
       /\ IsFirst(t) /\ detaTime(t) <= 0 /\ t.id \in live
       /\ m_aTimers' = m_aTimers \ {t}
       /\ Goes("callback", [t EXCEPT !.rem = 0])
  /\ UNCHANGED <<m_bMinPause, period, tick, msg, live>>

(* unless it has been cancelled. *)
PollDrop ==
  /\ InPoll("loop")
  /\ \E t \in m_aTimers :
       /\ IsFirst(t) /\ detaTime(t) <= 0 /\ t.id \notin live
       /\ m_aTimers' = m_aTimers \ {t}
  /\ UNCHANGED <<m_bMinPause, period, tick, msg, live, polls>>

(* It is due within a second. *)
PollFast ==
  /\ InPoll("loop")
  /\ \E t \in m_aTimers : IsFirst(t) /\ detaTime(t) \in 1..(Second - 1)
  /\ IF m_bMinPause THEN UNCHANGED <<period, tick, m_bMinPause>>
     ELSE Arm(1) /\ m_bMinPause' = TRUE
  /\ polls' = Outer
  /\ UNCHANGED <<m_aTimers, msg, live>>

(* Mutant of PollSlow: m_bMinPause is left alone. *)
PollSlowUnmarked ==
  /\ InPoll("loop")
  /\ \E t \in m_aTimers : IsFirst(t) /\ detaTime(t) >= Second /\ Arm(detaTime(t))
  /\ polls' = Outer
  /\ UNCHANGED <<m_aTimers, m_bMinPause, msg, live>>

(* It is due later. *)
PollSlow ==
  /\ InPoll("loop")
  /\ \E t \in m_aTimers : IsFirst(t) /\ detaTime(t) >= Second /\ Arm(detaTime(t))
  /\ m_bMinPause' = FALSE
  /\ polls' = Outer
  /\ UNCHANGED <<m_aTimers, msg, live>>

(* No timer is left. *)
PollEnd ==
  /\ InPoll("loop")
  /\ m_aTimers = {}
  /\ Unarm
  /\ polls' = Outer
  /\ UNCHANGED <<m_aTimers, m_bMinPause, msg, live>>

Left(n) == IF n > 0 THEN n - 1 ELSE n

(* The callback returns, and a timer that repeats is put back, to end its  *)
(* interval after the time this Poll began.                                *)
CallbackReturns ==
  /\ InPoll("callback")
  /\ LET left == Left(Top.it.iRepeatTime)
     IN m_aTimers' = IF left > 0 \/ left = REPEAT_FOREVER
                     THEN m_aTimers \cup {[Top.it EXCEPT !.iRepeatTime = left,
                                             !.rem = Top.it.uPause - Top.elapsed]}
                     ELSE m_aTimers
  /\ Goes("loop", NoTimer)
  /\ UNCHANGED <<m_bMinPause, period, tick, msg, live>>

(* The callback runs a modal loop: a menu, a message box, DoModal. *)
EnterModal ==
  /\ InPoll("callback")
  /\ Goes("modal", Top.it)
  /\ UNCHANGED <<m_aTimers, m_bMinPause, period, tick, msg, live>>

LeaveModal ==
  /\ InPoll("modal")
  /\ Goes("callback", Top.it)
  /\ UNCHANGED <<m_aTimers, m_bMinPause, period, tick, msg, live>>

(* Time passes.  TimeCallback is not late, and no Poll takes for ever. *)
Tick ==
  /\ period # 0 => tick > 0
  /\ \A i \in DOMAIN polls : polls[i].elapsed < MaxElapsed
  /\ m_aTimers' = {[t EXCEPT !.rem = IF @ > -MaxElapsed THEN @ - 1 ELSE @] : t \in m_aTimers}
  /\ polls' = [i \in DOMAIN polls |-> [polls[i] EXCEPT !.elapsed = @ + 1]]
  /\ tick' = IF period # 0 THEN tick - 1 ELSE tick
  /\ UNCHANGED <<m_bMinPause, period, msg, live>>

PollStep == Poll \/ PollCall \/ PollDrop \/ PollFast \/ PollSlow \/ PollEnd

Next ==
  \/ \E id \in Timers : Cancel(id)
  \/ \E id \in Timers, pause \in Pauses, times \in Repeats \cup {REPEAT_FOREVER} : AddCancelableTimer(id, pause, times)
  \/ TimeCallback \/ PollStep \/ CallbackReturns \/ EnterModal \/ LeaveModal \/ Tick

Spec == Init /\ [][Next]_vars

(* The UI thread takes its messages, callbacks return and modal loops end, *)
(* and time passes.                                                        *)
Fairness ==
  /\ WF_vars(PollStep) /\ WF_vars(TimeCallback) /\ WF_vars(Tick)
  /\ SF_vars(CallbackReturns) /\ SF_vars(LeaveModal)

FairSpec == Spec /\ Fairness

-----------------------------------------------------------------------------
(* Properties *)

(* Every variable keeps the shape of what it stands for. *)
TypeOK ==
  /\ m_aTimers \subseteq TIMERINFO
  /\ m_bMinPause \in BOOLEAN /\ period \in Nat /\ tick \in 0..period /\ msg \in 0..MaxMsgs
  /\ live \subseteq Timers
  /\ \A i \in DOMAIN polls :
       /\ polls[i].at \in {"loop", "callback", "modal"}
       /\ polls[i].it \in (IF polls[i].at = "loop" THEN {NoTimer} ELSE TIMERINFO)
       /\ polls[i].elapsed \in 0..MaxElapsed

(* While timers wait for their Poll, the multimedia timer is on, and it    *)
(* fires within a tick or, if it is slow, by the time the first of them is *)
(* due and a Poll may have taken, unless a Poll is to come anyway.         *)
WokenInTime ==
  polls = <<>> /\ m_aTimers # {} =>
    /\ period # 0
    /\ msg > 0 \/ tick <= 1 \/ \A t \in m_aTimers : tick <= t.rem + MaxElapsed

(* A timer is called again and again, REPEAT_FOREVER or as often as it is  *)
(* meant to be, unless it is cancelled.                                    *)
TimersFire == \A id \in Timers : Queued(id) /\ id \in live ~> Running(id) \/ id \notin live
=============================================================================
