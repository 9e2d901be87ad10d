----------------------------- MODULE TaskStatus -----------------------------
(***************************************************************************)
(* The task status machine shared by the server's TaskRunner, the pool and *)
(* the runners: pkg/task_logger/task_logger.go and the transition filter   *)
(* of TaskRunner.SetStatus (services/tasks/TaskRunner_logging.go).         *)
(* Statuses keep their wire names.                                         *)
(***************************************************************************)

\* UnfinishedTaskStatuses(): what the pool looks for when it stops tasks.
UnfinishedTaskStatuses ==
    {"waiting", "starting", "waiting_confirmation", "confirmed", "rejected",
     "running", "stopping"}

FinishedStatuses == {"stopped", "success", "error"}

\* TaskStatus.IsValid(): the ten statuses a runner may report.
Statuses == UnfinishedTaskStatuses \cup FinishedStatuses

\* TaskStatus.IsFinished().
IsFinished(s) == s \in FinishedStatuses

\* The switch of SetStatus over the old status.  Go's switch does not fall
\* through, so the empty cases for success and error refuse nothing: only
\* "stopped" is final.
Refuses(old, new) ==
    \/ old = "confirmed" /\ new = "waiting_confirmation"
    \/ old = "running" /\ new = "waiting"
    \/ old = "stopping" /\ new \in {"waiting", "running", "waiting_confirmation"}
    \/ old = "stopped"

\* SetStatus returns early when the status is the old one or is refused.
Accepts(old, new) == new # old /\ ~Refuses(old, new)

\* The status after SetStatus(new).
AfterSetStatus(old, new) == IF Accepts(old, new) THEN new ELSE old
=============================================================================
