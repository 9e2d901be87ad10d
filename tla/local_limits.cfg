SPECIFICATION Spec
CONSTANTS
  t1 = t1  t2 = t2  t3 = t3  A = A  B = B  P = P
  NoTask = NoTask
  Tasks = {t1, t2, t3}
  Templates = {A, B}
  TemplateOf <- MCTemplateOf
  ProjectOf <- MCOneProject
  AllowParallelTasks = {}
  Terraform = {}
  Parent <- MCNoParent
  MaxParallelTasks = 2
  ProjectMax <- MCProjectMax
  LookupErrors = {TRUE, FALSE}
  Ops = {"stop"}
INVARIANTS TypeOK ParallelLimit TemplateExclusive
PROPERTIES RunOnce
