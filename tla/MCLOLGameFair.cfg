\* The status follows the client, when the client is not started again
\* before its absence was noticed.
SPECIFICATION FairSpec
CONSTANTS
  Teams <- Alone
  Champs = {1}
  Accounts = {1}
  Phases <- WithReconnect
  PollAfter = 1
  MaxSessions = 2
  MaxFailures = 2
  MaxClicks = 0
  MaxUI = 1
  SlowRestart = TRUE
PROPERTY Follows
\* With the client closed for the last time the program only polls, which
\* changes nothing.
CHECK_DEADLOCK FALSE
