SPECIFICATION UndisturbedSpec
CONSTANTS
  t1 = t1  t2 = t2  t3 = t3  A = A  B = B  P = P  r1 = r1  r2 = r2
  NoTask = NoTask  NoRunner = NoRunner
  Tasks = {t1, t2, t3}
  Templates = {A, B}
  TemplateOf <- MCBuildDeploy
  ProjectOf <- MCProjectOf
  AllowParallelTasks = {}
  Parent <- MCAutorun
  MaxParallelTasks = 2
  ProjectMax <- MCNoProjectMax
  LookupErrors = {FALSE}
  Ops = {}
  Runners = {r1}
  RunnerMax <- MCRunnerMax
  Reports = {"running", "success", "error", "stopped"}
  Timeouts = FALSE
  Reconciles = FALSE
  MaxPending = 1
  MaxFinalizers = 2
INVARIANTS ExactlyOnce AutorunAfterEnd
PROPERTIES OutcomeFinal ImplementsLifecycle
