--------------------------- MODULE LocalTaskPool ---------------------------
(***************************************************************************)
(* The task pool with tasks that the server executes itself: the job of a  *)
(* task is a LocalExecutor (services/tasks/local_executor.go), which runs  *)
(* an app (db_lib), Terraform with its confirmation dialogue included.     *)
(***************************************************************************)
EXTENDS TaskPool

CONSTANT Terraform      \* templates run by TerraformApp

ASSUME LocalAssumption == Terraform \subseteq Templates

vars == poolVars

IsTerraform(t) == TemplateOf[t] \in Terraform

\* The control points of run(); the job runs between started and returned.
RunPoints == {"none", "sleep", "started", "preparing", "asking", "dialog", "answered",
              "app", "confirm", "apply", "returned", "autorun", "children", "finish", "send"}

\* The process of the task's app may be alive, or its repository in use.
Executing == {t \in Tasks : run[t] \in {"preparing", "asking", "dialog", "answered",
                                       "app", "confirm", "apply"}}

TypeOK ==
    /\ status \in [Tasks -> Statuses]
    /\ row \in [Tasks -> Statuses \cup {"none"}]
    /\ ended \subseteq Tasks /\ killed \subseteq Tasks
    /\ run \in [Tasks -> RunPoints]
    /\ queue \in Seq(Tasks) /\ running \subseteq Tasks /\ active \subseteq Tasks
    /\ registering \subseteq Tasks
    /\ loop \in Tasks \cup {"idle", "tick"}
    /\ hpc \in {"idle", "snap", "scan"}
    /\ skip \in Tasks \cup {NoTask}
    /\ todo \in Seq(Tasks)
    /\ hpc = "scan" => todo # <<>>
    /\ stopper \in [pc : {"idle", "rows", "queue", "running", "rest"},
                    tpl : Templates \cup {NoTask}, force : BOOLEAN,
                    todo : SUBSET Tasks, done : SUBSET Tasks]

others == <<ended, killed, storeVars, intake, handler, stopper>>

-----------------------------------------------------------------------------
(* run(): reading the survey secrets or signing the JWT fails.             *)
SecretsFail(t) ==
    /\ Goto(t, "started", "finish")
    /\ SetStatus(t, "error")
    /\ UNCHANGED others

(* LocalExecutor.Prepare *)
Prepare(t) ==
    /\ Goto(t, "started", "preparing")
    /\ SetStatus(t, "running")
    /\ UNCHANGED others

(* Prepare checks out the repository and saves its commit with the status. *)
Checkout(t) == row' = [row EXCEPT ![t] = status'[t]]

(* terraform init, which Prepare runs after the checkout, asks whether to   *)
(* copy the state; or its process ends without a line that the log listener *)
(* takes for the end, and Wait goes on waiting for the copy of stdin.  Kill *)
(* knows no process of Prepare.                                            *)
InitAsks(t) ==
    /\ IsTerraform(t)
    /\ Goto(t, "preparing", "asking")
    /\ status' = [status EXCEPT ![t] = AfterSetStatus(@, "waiting_confirmation")] \/ UNCHANGED status
    /\ Checkout(t)
    /\ UNCHANGED others

(* terraformReader looks at the status every three seconds: an answer or a  *)
(* stop that comes before it has seen the question is never seen.          *)
InitNotices(t) ==
    /\ status[t] = "waiting_confirmation"
    /\ Goto(t, "asking", "dialog")
    /\ UNCHANGED <<status, row, others>>

(* terraformReader's inner loop, which does not look for stopping.         *)
InitAnswered(t) ==
    /\ Goto(t, "dialog", "answered")
    /\ \/ status[t] \in {"confirmed", "rejected"} /\ SetStatus(t, "running")
       \/ IsFinished(status[t]) /\ UNCHANGED <<status, row>>
    /\ UNCHANGED others

(* Prepare succeeded; Run does not start the app of a killed task.         *)
Prepared(t) ==
    /\ IF t \in killed THEN status' = [status EXCEPT ![t] = AfterSetStatus(@, "stopped")]
                        ELSE UNCHANGED status
    /\ LET to == IF t \in killed THEN "returned" ELSE "app" IN
       \/ Goto(t, "preparing", to) /\ Checkout(t)
       \/ Goto(t, "answered", to) /\ IF UNCHANGED status THEN UNCHANGED row ELSE Checkout(t)
    /\ UNCHANGED others

(* The app's process exits without an error: Ansible and shell after their *)
(* only command, Terraform after apply.                                    *)
AppExits(t) ==
    /\ \/ Goto(t, "apply", "returned")
       \/ ~IsTerraform(t) /\ Goto(t, "app", "returned")
    /\ UNCHANGED <<status, row, others>>

(* TerraformApp.Run after a successful plan: nothing to change (or a plan  *)
(* only), approved in advance, or the user has to confirm.                 *)
Planned(t) ==
    /\ IsTerraform(t)
    /\ \/ Goto(t, "app", "returned") /\ SetStatus(t, "success")
       \/ Goto(t, "app", "apply") /\ SetStatus(t, "running")
       \/ Goto(t, "app", "confirm") /\ SetStatus(t, "waiting_confirmation")
    /\ UNCHANGED others

\* Mutant: a rejected plan is not set to error.
AnsweredRejectedKept(t) ==
    /\ \/ status[t] = "confirmed" /\ Goto(t, "confirm", "apply") /\ SetStatus(t, "running")
       \/ /\ IsFinished(status[t]) \/ status[t] \in {"stopping", "rejected"}
          /\ Goto(t, "confirm", "returned")
          /\ UNCHANGED <<status, row>>
    /\ UNCHANGED others

(* The polling loop of TerraformApp.Run ends.                              *)
Answered(t) ==
    /\ \/ status[t] = "rejected" /\ Goto(t, "confirm", "returned") /\ SetStatus(t, "error")
       \/ status[t] = "confirmed" /\ Goto(t, "confirm", "apply") /\ SetStatus(t, "running")
       \/ /\ IsFinished(status[t]) \/ status[t] = "stopping"
          /\ Goto(t, "confirm", "returned")
          /\ UNCHANGED <<status, row>>
    /\ UNCHANGED others

(* Prepare, plan or the app fails, a killed process included.              *)
JobFails(t) == \E from \in {"preparing", "answered", "app", "apply"} : JobError(t, from)

(* job.Run returned nil.                                                   *)
JobReturns(t) ==
    /\ Goto(t, "returned", "autorun")
    /\ IF status[t] = "running" THEN SetStatus(t, "success") ELSE UNCHANGED <<status, row>>
    /\ UNCHANGED others

(* startAutorunTasks                                                       *)
RunAutorun(t) ==
    \/ /\ Goto(t, "autorun", IF status[t] = "success" THEN "children" ELSE "finish")
       /\ UNCHANGED <<status, row, others>>
    \/ \E c \in Tasks : run[t] = "children" /\ AutorunChild(t, c)
    \/ /\ Goto(t, "children", "finish")
       /\ AutorunDone(t)
       /\ UNCHANGED <<status, row, others>>

-----------------------------------------------------------------------------
Job(t) == \/ SecretsFail(t) \/ Prepare(t) \/ Prepared(t) \/ AppExits(t)
          \/ InitAsks(t) \/ InitNotices(t) \/ InitAnswered(t)
          \/ Planned(t) \/ Answered(t) \/ JobFails(t) \/ JobReturns(t)

RunStep(t) == BeginRun(t) \/ Job(t) \/ RunAutorun(t) \/ FinishRun(t)

TemplateStop ==
    \/ \E p \in Templates, force \in BOOLEAN : TemplateStopRows(p, force)
    \/ TemplateStopSnapshot
    \/ \E t \in Tasks : \/ TemplateStopQueued(t)
                        \/ TemplateStopRunning(t)
                        \/ TemplateStopRest(t)

Api(t) == \/ AddTask(t) \/ ConfirmTask(t) \/ RejectTask(t)
          \/ \E force \in BOOLEAN : StopTask(t, force)

Init == PoolInit

Next ==
    \/ Tick
    \/ HandleQueue
    \/ \E t \in Tasks :
          Api(t) \/ Register(t) \/ HandleNew(t) \/ RunStep(t) \/ SendFinished(t)
    \/ TemplateStop

(***************************************************************************)
(* Fairness.  The loops of Run and handleQueue and every run() goroutine   *)
(* are scheduled, and apps terminate.  Strong fairness for channel ends:   *)
(* Go queues blocked senders first-in first-out, and the select of Run     *)
(* picks among ready cases at random.                                      *)
(***************************************************************************)
Fairness ==
    /\ WF_vars(Tick) /\ WF_vars(HandleQueue)
    /\ SF_vars(\E t \in Tasks : Register(t)) /\ SF_vars(\E t \in Tasks : HandleNew(t))
    /\ \A t \in Tasks : WF_vars(RunStep(t)) /\ SF_vars(SendFinished(t))

Spec == Init /\ [][Next]_vars

FairSpec == Spec /\ Fairness

-----------------------------------------------------------------------------
(* util.Config.MaxParallelTasks bounds the run() goroutines that are alive, *)
(* whatever is added, stopped or finished while handleQueue scans (blocks). *)
ParallelLimit == MaxParallelTasks > 0 => Cardinality(Live) <= MaxParallelTasks

(* Project.MaxParallelTasks bounds the live runs of each project (blocks).  *)
ProjectLimit ==
    \A p \in Projects :
        ProjectMax[p] > 0 =>
            Cardinality({t \in Live : ProjectOf[TemplateOf[t]] = p}) <= ProjectMax[p]

(* Two tasks of a template without AllowParallelTasks never execute at once *)
(* (the template check of blocks and the status it looks at).              *)
TemplateExclusive ==
    \A t, u \in Executing :
        t # u /\ TemplateOf[t] = TemplateOf[u] => TemplateOf[t] \in AllowParallelTasks

(* A live run is in the running map and out of the queue, so that GetTask,  *)
(* stop requests and the limits see it, and it cannot be claimed again.    *)
LiveTracked == \A t \in Live : t \in running /\ ~InQueue(t)

(* Where a task can be, the inductive invariant behind LiveTracked and      *)
(* RunOnce: being registered, with Run, queued (once) or running, never in *)
(* two of these places, and in none before its row exists or after its run *)
(* has ended.                                                              *)
OnePlace ==
    /\ running = Live
    /\ \A i, j \in 1..Len(queue) : queue[i] = queue[j] => i = j
    /\ \A t \in Tasks :
          /\ t \in running => ~InQueue(t)
          /\ loop = t => ~Known(t)
          /\ t \in registering => ~Known(t) /\ loop # t
          /\ t \in ended => /\ run[t] \in {"none", "send"}
                            /\ ~InQueue(t) /\ loop # t /\ t \notin registering
          /\ Known(t) \/ loop = t \/ t \in registering \cup ended => Exists(t)

(* finishRun records the end of a run with a finished status (the status   *)
(* that run() leaves behind when the job returns).                         *)
EndsFinished == \A t \in ended : run[t] = "none" => IsFinished(row[t])

(* A task whose end is recorded is not started again by handleQueue.       *)
RunOnce == [][\A t \in Tasks : t \in ended => run'[t] # "sleep"]_vars

(* The pool implements TaskLifecycle: whatever is stopped, confirmed or     *)
(* fails, a task is started once, within the capacity of the pool, after    *)
(* its build, and not again once its run has ended.                         *)
Phase(t) ==
    IF run[t] # "none" THEN "live"
    ELSE IF t \in ended THEN "done"
    ELSE IF Exists(t) THEN "added" ELSE "new"

Lifecycle == INSTANCE TaskLifecycle
    WITH phase <- [t \in Tasks |-> Phase(t)], Capacity <- MaxParallelTasks, Requeues <- FALSE

ImplementsLifecycle == Lifecycle!Spec

(* A run that waits for a user: in the dialogue after a plan; in that of    *)
(* init, which a graceful stop does not end; or in init with a question    *)
(* whose answer, or whose stop, came before terraformReader looked, or with *)
(* a process that ended unnoticed: nothing ends that wait.                 *)
Waits(t) ==
    \/ run[t] = "confirm" /\ status[t] = "waiting_confirmation"
    \/ run[t] = "dialog" /\ ~IsFinished(status[t]) /\ status[t] \notin {"confirmed", "rejected"}
    \/ run[t] = "asking" /\ status[t] # "waiting_confirmation"

(* Every task that was added is finished in the database at last, out of   *)
(* the queue and of the running map, with no goroutine left behind, unless *)
(* a run waits for a user (TerraformApp.Run, terraformReader.Read).        *)
Settled(t) == IsFinished(row[t]) /\ ~Known(t) /\ run[t] = "none" /\ t \notin registering

Settles == \A t \in Tasks : Exists(t) ~> (Settled(t) \/ \E u \in Tasks : Waits(u))
=============================================================================
