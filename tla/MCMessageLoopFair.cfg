\* Two posters, with fairness.
SPECIFICATION FairSpec
CONSTANTS
  p1 = p1
  p2 = p2
  Posters = {p1, p2}
  MaxPosts = 3
  MaxTime = 2
  MaxDepth = 1
  Delays = {1}
PROPERTIES
  FirstInFirstOut
  EveryTaskRuns
CHECK_DEADLOCK FALSE
