SPECIFICATION FairSpec
CONSTANTS
  p1 = p1
  Posters = {p1}
  MaxPosts = 2
  MaxTime = 2
  MaxInputs = 1
  MaxModals = 2
  Delays = {0, 1}
INVARIANTS
  TypeOK
  OneHaveWork
  IncomingIsAnnounced
  LoopWaitsForNothing
PROPERTIES
  TasksRun
  QuitLeaves
CHECK_DEADLOCK FALSE
