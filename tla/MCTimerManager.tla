---------------------------- MODULE MCTimerManager ----------------------------
(* The timers of the user interface on small instances. *)
EXTENDS TimerManager
=============================================================================
