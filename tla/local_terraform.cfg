SPECIFICATION Spec
CONSTANTS
  t1 = t1  t2 = t2  t3 = t3  A = A  B = B  P = P
  NoTask = NoTask
  Tasks = {t1, t2}
  Templates = {A, B}
  TemplateOf <- MCTemplateOf
  ProjectOf <- MCOneProject
  AllowParallelTasks = {A}
  Terraform = {A}
  Parent <- MCNoParent
  MaxParallelTasks = 0
  ProjectMax <- MCProjectMax
  LookupErrors = {FALSE}
  Ops = {"dialog", "force", "forceTemplate"}
INVARIANTS ProjectLimit EndsFinished
