SPECIFICATION FaultSpec
CONSTANTS
  t1 = t1  t2 = t2  t3 = t3  A = A  B = B  P = P  r1 = r1  r2 = r2
  NoTask = NoTask  NoRunner = NoRunner
  Tasks = {t1}
  Templates = {A, B}
  TemplateOf <- MCOneTemplate
  ProjectOf <- MCProjectOf
  AllowParallelTasks = {}
  Parent <- MCNoParent
  MaxParallelTasks = 2
  ProjectMax <- MCNoProjectMax
  LookupErrors = {FALSE}
  Ops = {"stop", "force", "stopTemplate", "forceTemplate", "dialog"}
  Runners = {r1, r2}
  RunnerMax <- MCRunnerMax
  Reports = {"running", "waiting_confirmation", "success"}
  Timeouts = TRUE
  Reconciles = TRUE
  MaxPending = 1
  MaxFinalizers = 2
INVARIANTS HoldersSound RequeueKeeps
PROPERTIES TimeoutReleases
