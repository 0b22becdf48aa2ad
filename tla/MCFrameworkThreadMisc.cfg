\* A third thread that posts while the game thread is stopped.
SPECIFICATION Spec
CONSTANTS
  kThreadUI = kThreadUI
  kThreadGame = kThreadGame
  kThreadGlobalMisc = kThreadGlobalMisc
  Main = kThreadUI
  Workers = {kThreadGame, kThreadGlobalMisc}
  MaxStarts = 3
  MaxPosts = 2
INVARIANT NoUseAfterDelete
\* The program ends.
CHECK_DEADLOCK FALSE
