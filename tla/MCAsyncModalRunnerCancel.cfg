\* async_modal_runner.h on CancelAllThreads.
SPECIFICATION FairSpec
CONSTANTS
  Runners = {1, 2}
  MaxRunners = 2
PROPERTY CancelEnds
\* All runners may be closed.
CHECK_DEADLOCK FALSE
