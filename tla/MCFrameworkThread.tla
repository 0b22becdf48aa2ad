-------------------------- MODULE MCFrameworkThread --------------------------
(* The threads of Common.h: the UI's, the game's, and kThreadGlobalMisc, which
   the program names but does not start. *)
EXTENDS FrameworkThread

CONSTANTS kThreadUI, kThreadGame, kThreadGlobalMisc
=============================================================================
