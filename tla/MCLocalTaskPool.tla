-------------------------- MODULE MCLocalTaskPool --------------------------
(***************************************************************************)
(* Small instances of LocalTaskPool for TLC.                               *)
(***************************************************************************)
EXTENDS LocalTaskPool, TLC

CONSTANTS t1, t2, t3,       \* tasks
          A, B,             \* templates
          P                 \* the project

\* Two tasks of A and one of B, in one project.
MCTemplateOf == [t \in Tasks |-> IF t = t3 THEN B ELSE A]
MCOneProject == (A :> P) @@ (B :> P)
MCNoParent == [t \in Tasks |-> NoTask]
\* t3 is the autorun child of t1.
MCAutorun == [t \in Tasks |-> IF t = t3 THEN t1 ELSE NoTask]
MCProjectMax == [p \in Projects |-> 1]
MCNoProjectMax == [p \in Projects |-> 0]
=============================================================================
