\* The apply button pressed twice, while the champion changes, the client
\* exits or a request fails.
SPECIFICATION Spec
CONSTANTS
  Teams <- Alone
  Champs <- MCChamps
  Accounts = {1}
  Phases <- SelectOnly
  PollAfter = 0
  MaxSessions = 1
  MaxFailures = 1
  MaxClicks = 2
  MaxUI = 1
  SlowRestart = FALSE
INVARIANTS AppliedTogether
\* With the client closed for the last time the program only polls, which
\* changes nothing; and it crashes if op.gg sent no runes.
CHECK_DEADLOCK FALSE
