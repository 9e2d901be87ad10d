SPECIFICATION FairSpec
CONSTANTS
  t1 = t1  t2 = t2  t3 = t3  A = A  B = B  P = P
  NoTask = NoTask
  Tasks = {t1, t2, t3}
  Templates = {A, B}
  TemplateOf <- MCTemplateOf
  ProjectOf <- MCOneProject
  AllowParallelTasks = {}
  Terraform = {A}
  Parent <- MCAutorun
  MaxParallelTasks = 1
  ProjectMax <- MCNoProjectMax
  LookupErrors = {FALSE}
  Ops = {"dialog", "force"}
INVARIANTS OnePlace
PROPERTIES ImplementsLifecycle Settles
