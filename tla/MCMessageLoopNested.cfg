SPECIFICATION Spec
CONSTANTS
  p1 = p1
  p2 = p2
  Posters = {p1}
  MaxPosts = 3
  MaxTime = 2
  MaxDepth = 2
  Delays = {0, 1}
INVARIANTS
  TypeOK
  NoStrandedWork
  NoOversleep
PROPERTIES
  NestingRespected
  QuitDrains
  ImplementsService
CHECK_DEADLOCK FALSE
