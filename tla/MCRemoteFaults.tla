--------------------------- MODULE MCRemoteFaults ---------------------------
(***************************************************************************)
(* A remote task and two runners, with one source of trouble at a time.    *)
(***************************************************************************)
EXTENDS MCRemoteTaskPool

(* One source of trouble at a time: users who stop tasks by force or by the *)
(* template, silent runners against the timeout, or the reconciler (one     *)
(* timer per task is modelled, and a reconciled task would need several).   *)
VARIABLE trouble

(* History: a report that had passed its checks was applied after the       *)
(* reconciler took the task from the runner.                               *)
VARIABLE late

faultVars == <<vars, trouble, late>>

FaultInit ==
    /\ Init
    /\ trouble \in {"stops", "timeout", "reconciler"}
    /\ late = FALSE

Overtaken(t) == report[t] # "none" /\ report'[t] = "none" /\ runner[t] = NoRunner

(* What runners report; only the users of "stops" answer a plan.            *)
Reported == IF trouble = "stops" THEN Reports ELSE Reports \ {"waiting_confirmation"}

FaultNext ==
    /\ UNCHANGED trouble
    /\ \/ Undisturbed(Reported)
       \/ trouble = "stops" /\ TemplateStop
       \/ \E t \in Tasks :
             \/ trouble = "stops" /\ (Answer(t) \/ RemoteStopTask(t, TRUE))
             \/ trouble = "timeout" /\ (Timer(t) \/ RemoteStopTask(t, FALSE))
             \/ trouble = "reconciler" /\ Reconciler(t)
    /\ late' = (late \/ \E t \in Tasks : Overtaken(t))

FaultSpec == FaultInit /\ [][FaultNext]_faultVars
                /\ (trouble = "timeout" => Fairness)

(* Only a silent runner: the timeout releases what was handed to it.         *)
TimeoutReleases == trouble = "timeout" => HandedOffReleased

(* A finished task does not stay in the running map, if it was not forced.   *)
NoLeakUnforced == trouble = "timeout" => NoLeak

(* At most one runner has the task, if the reconciler gives it to no other.  *)
OneHolder == trouble # "reconciler" => SingleHolder

(* Who holds a task: at most one runner, and no slot after its end.          *)
HoldersSound == NoLeakUnforced /\ OneHolder

(* Requeueing neither drops nor doubles a task.  A report that its requeue   *)
(* overtook may finish the task in the queue, so that it is claimed before   *)
(* the event of the requeue, which then removes it from the running map.     *)
RequeueKeeps == trouble = "reconciler" => QueuedOnce /\ (late \/ NotLost)
=============================================================================
