SPECIFICATION OutputSpec
CONSTANTS
  t1 = t1  t2 = t2  NoTask = NoTask  c1 = c1  c2 = c2  u1 = u1  u2 = u2
  Tasks = {t1}
  MaxLogs = 1
  Ops = {"stop", "force", "answer"}
  Conns = {c1, c2}
  UserOf <- MCUserOf
  TaskUsers = {u1}
  SendSize = 1
  MaxMessages = 2
  LineSize = 1
  LoggerSize = 1
  OutputBatch = 2
INVARIANTS JobsSound HubSound OutputInOrder
PROPERTIES StopReaches OutputSettles
CHECK_DEADLOCK FALSE
