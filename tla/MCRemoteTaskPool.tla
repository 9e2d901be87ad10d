-------------------------- MODULE MCRemoteTaskPool --------------------------
(***************************************************************************)
(* Small instances of RemoteTaskPool for TLC.                              *)
(***************************************************************************)
EXTENDS RemoteTaskPool, TLC

CONSTANTS t1, t2, t3,       \* tasks
          A, B,             \* templates
          P,                \* the project
          r1, r2            \* runners

MCOneTemplate == [t \in Tasks |-> A]
\* The build t1 and its deploy task t2 have different templates, t3 is another build.
MCBuildDeploy == [t \in Tasks |-> IF t = t2 THEN B ELSE A]
MCProjectOf == [p \in Templates |-> P]
MCNoParent == [t \in Tasks |-> NoTask]
\* t2 is the autorun child of t1.
MCAutorun == [t \in Tasks |-> IF t = t2 THEN t1 ELSE NoTask]
MCNoProjectMax == [p \in Projects |-> 0]
MCRunnerMax == [r \in Runners |-> 1]
=============================================================================
