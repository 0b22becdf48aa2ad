\* The program's two threads, with fairness; the game thread may be started twice.
SPECIFICATION FairSpec
CONSTANTS
  kThreadUI = kThreadUI
  kThreadGame = kThreadGame
  kThreadGlobalMisc = kThreadGlobalMisc
  Main = kThreadUI
  Workers = {kThreadGame}
  MaxStarts = 3
  MaxPosts = 4
INVARIANTS TypeOK NoUseAfterDelete NoMapRace StoppedIsReset
PROPERTIES StopRunsPending CloseEnds
\* The program ends.
CHECK_DEADLOCK FALSE
