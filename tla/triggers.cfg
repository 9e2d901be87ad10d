CONSTANTS
  Ids = {1, 2}
  Payloads <- MCPayloads
  Slots = {1, 2}
  MaxTime = 2
  MaxEdits = 2
  MaxCommits = 1
  MaxRestarts = 1
  Executors = {1, 2}
  Unlocked = Unlocked
  NoCommit = NoCommit
  Commits = {0, 1, 2, 3}
  Older <- MCOlder
  Requirements <- MCRequirements
  GitAttempts = 2
SPECIFICATION Spec
INVARIANTS SchedulesSound CallSound WorkspaceSound CleanedUp
PROPERTIES OneTimeEnds
CHECK_DEADLOCK FALSE
