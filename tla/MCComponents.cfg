SPECIFICATION Spec
CONSTANTS
  Timers = {1, 2}
  Pauses = {1, 3}
  Repeats = {2}
  Second = 2
  MaxElapsed = 1
  MaxPolls = 2
  MaxMsgs = 1
  Runners = {1, 2}
  MaxRunners = 3
  MaxWatches = 3
  Threads = {1, 2}
  Main = 1
  Instances = {1, 2, 3}
  Uses <- MCUses
  Observers = {1, 2}
  MaxNesting = 2
  MaxLength = 4
INVARIANTS TypeOK RunnersAreOwned WaitThreadIsSafe MadeOnce CalledOnceEach StayingAreCalledOnce WokenInTime
PROPERTIES TimersFire DestroysWithoutWaiting RunnersGo NotNotifiedOnceStopped
\* Timers may all be done, runners closed, watches over, and programs exit.
CHECK_DEADLOCK FALSE
