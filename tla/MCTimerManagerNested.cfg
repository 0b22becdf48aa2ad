SPECIFICATION FairSpec
CONSTANTS
  Timers = {1}
  Pauses = {2}
  Repeats = {2}
  Second = 3
  MaxElapsed = 1
  MaxNesting = 2
  MaxMsgs = 1
PROPERTY
  TimersFire
CHECK_DEADLOCK FALSE
