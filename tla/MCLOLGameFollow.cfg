\* The polling loop, the champion select and the window, through two failed
\* requests and one restart of the client at any time.
SPECIFICATION Spec
CONSTANTS
  Teams <- WithOne
  Champs <- MCChamps
  Accounts = {1, 2}
  Phases <- LobbyAndSelect
  PollAfter = 1
  MaxSessions = 2
  MaxFailures = 2
  MaxClicks = 0
  MaxUI = 1
  SlowRestart = FALSE
INVARIANTS TypeOK LoadedWhenConnected ListIsCurrent ChampIsCurrent SummonerIsCurrent
           LoginIsCurrent AvailableKeepsSeen
\* With the client closed for the last time the program only polls, which
\* changes nothing.
CHECK_DEADLOCK FALSE
