--------------------------- MODULE RemoteTaskPool ---------------------------
(***************************************************************************)
(* The task pool with tasks that runners execute.  The job of a task is a  *)
(* RemoteJob (services/tasks/RemoteJob.go), which only assigns the task to *)
(* a runner; the end is reported through the runner API                    *)
(* (api/runners/runners.go) and completed by FinalizeRemoteTask.  Reports, *)
(* the task timeout, forced stops and the runner-task reconciler           *)
(* (services/tasks/runner_reconciler.go) race for that.                    *)
(*                                                                         *)
(* Runners are the environment: whether one is online, and what it reports *)
(* and when, is any choice.                                                *)
(***************************************************************************)
EXTENDS TaskPool

CONSTANTS
    Runners, NoRunner,
    RunnerMax,      \* [Runners -> Nat] Runner.MaxParallelTasks, 0 for no limit
    Reports,        \* the statuses the runners of a run report
    Timeouts,       \* MaxTaskDurationSec > 0
    Reconciles,     \* the reconciler loses patience with runners in this run
    MaxPending,     \* bound on pending sends of EventTypeRequeued for a task
    MaxFinalizers   \* bound on FinalizeRemoteTask calls of a task before the lock

ASSUME RemoteAssumption ==
    /\ NoRunner \notin Runners
    /\ RunnerMax \in [Runners -> Nat]
    /\ Reports \subseteq Statuses
    /\ Timeouts \in BOOLEAN /\ Reconciles \in BOOLEAN
    /\ MaxPending \in Nat \ {0} /\ MaxFinalizers \in Nat \ {0}

VARIABLES
    runner,      \* [Tasks -> Runners \cup {NoRunner}] Task.RunnerID
    pick,        \* the runner selected while the start webhook is called
    requeued,    \* [Tasks -> Nat] run() goroutines blocked sending EventTypeRequeued
    held,        \* [Tasks -> SUBSET Runners] the runners that hold the task as a job
    report,      \* [Tasks -> status an UpdateRunner call is about to set, or "none"]
    timer,       \* [Tasks -> {"off", "armed", "fired"}] scheduleTimeout
    finalizers,  \* [Tasks -> Nat] FinalizeRemoteTask calls that have not tried the lock
    fin,         \* [Tasks -> control point of the call that holds the finalize lock]
    recon,       \* [pc, task, runner] what the reconciler does, and its decision's inputs
    finishes     \* [Tasks -> 0..2] how often finishRun was executed (history; 2 is more)

jobVars    == <<runner, pick, requeued>>
endVars    == <<held, report, timer, finalizers, fin, recon, finishes>>
remoteVars == <<jobVars, endVars>>
vars       == <<poolVars, remoteVars>>

RunPoints == {"none", "sleep", "started", "selected", "finish", "send"}

TypeOK ==
    /\ status \in [Tasks -> Statuses]
    /\ row \in [Tasks -> Statuses \cup {"none"}]
    /\ ended \subseteq Tasks /\ killed \subseteq Tasks
    /\ run \in [Tasks -> RunPoints]
    /\ queue \in Seq(Tasks) /\ running \subseteq Tasks /\ active \subseteq Tasks
    /\ registering \subseteq Tasks
    /\ loop \in Tasks \cup {"idle", "tick"}
    /\ hpc \in {"idle", "snap", "scan"}
    /\ skip \in Tasks \cup {NoTask}
    /\ todo \in Seq(Tasks)
    /\ hpc = "scan" => todo # <<>>
    /\ stopper \in [pc : {"idle", "rows", "queue", "running", "rest"},
                    tpl : Templates \cup {NoTask}, force : BOOLEAN,
                    todo : SUBSET Tasks, done : SUBSET Tasks]
    /\ runner \in [Tasks -> Runners \cup {NoRunner}]
    /\ pick \in [Tasks -> Runners \cup {NoRunner}]
    /\ requeued \in [Tasks -> 0..MaxPending]
    /\ held \in [Tasks -> SUBSET Runners]
    /\ report \in [Tasks -> Reports \cup {"none"}]
    /\ timer \in [Tasks -> {"off", "armed", "fired"}]
    /\ finalizers \in [Tasks -> 0..MaxFinalizers]
    /\ fin \in [Tasks -> {"none", "locked", "send", "autorun", "children"}]
    /\ recon \in [pc : {"idle", "requeue", "send", "fail", "finalize"},
                  task : Tasks \cup {NoTask}, runner : Runners \cup {NoRunner}]
    /\ finishes \in [Tasks -> 0..2]

NoDecision == [pc |-> "idle", task |-> NoTask, runner |-> NoRunner]

Init ==
    /\ PoolInit
    /\ runner = [t \in Tasks |-> NoRunner] /\ pick = [t \in Tasks |-> NoRunner]
    /\ requeued = [t \in Tasks |-> 0]
    /\ held = [t \in Tasks |-> {}]
    /\ report = [t \in Tasks |-> "none"]
    /\ timer = [t \in Tasks |-> "off"]
    /\ finalizers = [t \in Tasks |-> 0] /\ fin = [t \in Tasks |-> "none"]
    /\ recon = NoDecision
    /\ finishes = [t \in Tasks |-> 0]

\* GetNumberOfRunningTasksOfRunner
Busy(r) == Cardinality({t \in running : runner[t] = r})

\* The finalize lock of the state store (TryFinalize, DeleteFinalize).
Locked(t) == fin[t] # "none" \/ (recon.pc = "send" /\ recon.task = t)

\* A goroutine that calls FinalizeRemoteTask is started, or the caller goes on
\* to call it, if c holds.
Finalizing(t, c) ==
    /\ c => finalizers[t] < MaxFinalizers
    /\ finalizers' = IF c THEN [finalizers EXCEPT ![t] = @ + 1] ELSE finalizers

others == <<ended, killed, storeVars, intake, handler, stopper>>

-----------------------------------------------------------------------------
(* RemoteJob.Run *)

(* The task is not found, the store fails or no runner is configured.      *)
DispatchFails(t) == JobError(t, "started") /\ UNCHANGED remoteVars

(* selectRunner picks an online runner with free capacity.                 *)
SelectRunner(t, r) ==
    /\ Known(t)
    /\ RunnerMax[r] = 0 \/ Busy(r) < RunnerMax[r]
    /\ Goto(t, "started", "selected")
    /\ pick' = [pick EXCEPT ![t] = r]
    /\ UNCHANGED <<status, row, others, runner, requeued, endVars>>

(* ErrAllRunnersBusy: run() puts the task back into the queue and blocks on *)
(* the send of EventTypeRequeued.                                          *)
Requeue(t) ==
    /\ Known(t)
    /\ Goto(t, "started", "none")
    /\ requeued[t] < MaxPending
    /\ SetStatus(t, "waiting")
    /\ queue' = Append(queue, t)
    /\ requeued' = [requeued EXCEPT ![t] = @ + 1]
    /\ UNCHANGED <<ended, killed, running, active, intake, handler, stopper,
                   runner, pick, endVars>>

SendRequeued(t) ==
    /\ requeued[t] > 0
    /\ requeued' = [requeued EXCEPT ![t] = @ - 1]
    /\ ReceiveRequeued(t)
    /\ UNCHANGED <<taskVars, intake, stopper, runner, pick, endVars>>

(* The start webhook fails, or the assignment cannot be stored (RunnerID   *)
(* is set by then).                                                        *)
AssignFails(t) ==
    /\ JobError(t, "selected")
    /\ runner' \in {runner, [runner EXCEPT ![t] = pick[t]]}
    /\ pick' = [pick EXCEPT ![t] = NoRunner]
    /\ UNCHANGED <<requeued, endVars>>

\* Mutant: run() finishes the task although it handed it off.
AssignRunnerNotHandedOff(t) ==
    /\ Goto(t, "selected", "finish")
    /\ runner' = [runner EXCEPT ![t] = pick[t]]
    /\ pick' = [pick EXCEPT ![t] = NoRunner]
    /\ saveStatus(t)
    /\ UNCHANGED <<status, others, requeued, endVars>>

(* The task is assigned, its timeout scheduled, and run() hands it off.    *)
AssignRunner(t) ==
    /\ Goto(t, "selected", "none")
    /\ runner' = [runner EXCEPT ![t] = pick[t]]
    /\ pick' = [pick EXCEPT ![t] = NoRunner]
    /\ saveStatus(t)
    /\ timer' = IF Timeouts THEN [timer EXCEPT ![t] = "armed"] ELSE timer
    /\ UNCHANGED <<status, others, requeued, held, report, finalizers, fin, recon, finishes>>

CountFinish(t) == finishes' = [finishes EXCEPT ![t] = IF @ = 2 THEN 2 ELSE @ + 1]

RunStep(t) ==
    \/ BeginRun(t) /\ UNCHANGED remoteVars
    \/ DispatchFails(t)
    \/ \E r \in Runners : SelectRunner(t, r)
    \/ Requeue(t)
    \/ AssignFails(t)
    \/ AssignRunner(t)
    \/ /\ FinishRun(t) /\ CountFinish(t)
       /\ UNCHANGED <<jobVars, held, report, timer, finalizers, fin, recon>>

-----------------------------------------------------------------------------
(* The runner API *)

\* Mutant: the RunnerID is not compared with the polling runner.
PollDeliversAny(t) ==
    /\ t \in running /\ runner[t] # NoRunner
    /\ status[t] \in {"waiting", "starting"}
    /\ report[t] = "none"
    /\ \E r \in Runners : held' = [held EXCEPT ![t] = @ \cup {r}]
    /\ UNCHANGED <<poolVars, jobVars, report, timer, finalizers, fin, recon, finishes>>

(* GetRunner offers a waiting or starting task of the polling runner as a  *)
(* new job.                                                                *)
PollDelivers(t) ==
    /\ t \in running /\ runner[t] # NoRunner
    /\ status[t] \in {"waiting", "starting"}
    /\ report[t] = "none"
    /\ held' = [held EXCEPT ![t] = @ \cup {runner[t]}]
    /\ UNCHANGED <<poolVars, jobVars, report, timer, finalizers, fin, recon, finishes>>

\* Mutant: reports for finished tasks are not refused.
ReportArrivesFinished(t, s) ==
    /\ report[t] = "none" /\ Known(t)
    /\ runner[t] \in held[t]
    /\ report' = [report EXCEPT ![t] = s]
    /\ UNCHANGED <<poolVars, jobVars, held, timer, finalizers, fin, recon, finishes>>

(* UpdateRunner passes its checks: the task is known, assigned to the      *)
(* reporting runner and not finished.                                      *)
ReportArrives(t, s) ==
    /\ report[t] = "none" /\ Known(t)
    /\ runner[t] \in held[t]
    /\ ~IsFinished(status[t])
    /\ report' = [report EXCEPT ![t] = s]
    /\ UNCHANGED <<poolVars, jobVars, held, timer, finalizers, fin, recon, finishes>>

(* UpdateRunner sets the status, saves the commit if the report has one,   *)
(* and starts the finalization of a finished task.                         *)
ReportApplies(t) ==
    /\ report[t] # "none"
    /\ \/ SetStatus(t, report[t])
       \/ /\ status' = [status EXCEPT ![t] = AfterSetStatus(@, report[t])]
          /\ row' = [row EXCEPT ![t] = status'[t]]
    /\ Finalizing(t, IsFinished(status'[t]))
    /\ report' = [report EXCEPT ![t] = "none"]
    /\ UNCHANGED <<others, run, jobVars, held, timer, fin, recon, finishes>>

(* UpdateRunner answers a report with the task among TerminatedJobs: the   *)
(* runner ends the job.                                                    *)
ReportRejected(t, r) ==
    /\ r \in held[t] /\ report[t] = "none"
    /\ IF Known(t) THEN runner[t] # r \/ IsFinished(status[t]) ELSE IsFinished(row[t])
    /\ held' = [held EXCEPT ![t] = @ \ {r}]
    /\ UNCHANGED <<poolVars, jobVars, report, timer, finalizers, fin, recon, finishes>>

(* prepareRemoteJob of a poll (GetRunner) cannot read the task's secrets.  *)
(* A runner sends one request at a time, so no report is under way.        *)
PollFails(t) ==
    /\ report[t] = "none"
    /\ t \in running /\ runner[t] # NoRunner
    /\ status[t] \in {"waiting", "starting"}
    /\ SetStatus(t, "error")
    /\ Finalizing(t, TRUE)
    /\ UNCHANGED <<others, run, jobVars, held, report, timer, fin, recon, finishes>>

-----------------------------------------------------------------------------
(* scheduleTimeout: the timer's function finds the task unfinished ...     *)
TimerFires(t) ==
    /\ timer[t] = "armed"
    /\ timer' = [timer EXCEPT ![t] = IF Known(t) /\ ~IsFinished(status[t])
                                       THEN "fired" ELSE "off"]
    /\ UNCHANGED <<poolVars, jobVars, held, report, finalizers, fin, recon, finishes>>

\* Mutant: the failed task is not finalized.
TimerFailsOnly(t) ==
    /\ timer[t] = "fired"
    /\ timer' = [timer EXCEPT ![t] = "off"]
    /\ SetStatus(t, "error")
    /\ UNCHANGED <<others, run, jobVars, held, report, finalizers, fin, recon, finishes>>

(* ... and fails it.                                                       *)
TimerFails(t) ==
    /\ timer[t] = "fired"
    /\ timer' = [timer EXCEPT ![t] = "off"]
    /\ SetStatus(t, "error")
    /\ Finalizing(t, TRUE)
    /\ UNCHANGED <<others, run, jobVars, held, report, fin, recon, finishes>>

-----------------------------------------------------------------------------
(* FinalizeRemoteTask *)

(* TryFinalize: the call ends if another one holds the lock.               *)
TryFinalize(t) ==
    /\ finalizers[t] > 0
    /\ finalizers' = [finalizers EXCEPT ![t] = @ - 1]
    /\ fin' = IF Locked(t) THEN fin ELSE [fin EXCEPT ![t] = "locked"]
    /\ UNCHANGED <<poolVars, jobVars, held, report, timer, recon, finishes>>

FinGoto(t, from, to) == fin[t] = from /\ fin' = [fin EXCEPT ![t] = to]

\* Mutant: the children are added before the slot is released.
FinalizeFinishLate(t) ==
    /\ FinGoto(t, "locked", "autorun")
    /\ SaveEnd(t) /\ CountFinish(t)
    /\ UNCHANGED <<status, killed, run, storeVars, intake, handler, stopper,
                   jobVars, held, report, timer, finalizers, recon>>

FinalizeFinish(t) ==
    /\ FinGoto(t, "locked", "send")
    /\ SaveEnd(t) /\ CountFinish(t)
    /\ UNCHANGED <<status, killed, run, storeVars, intake, handler, stopper,
                   jobVars, held, report, timer, finalizers, recon>>

FinalizeSend(t) ==
    /\ FinGoto(t, "send", "autorun")
    /\ ReceiveFinished(t)
    /\ UNCHANGED <<taskVars, intake, stopper, jobVars, held, report, timer, finalizers,
                   recon, finishes>>

(* startAutorunTasks, then DeleteFinalize.                                 *)
FinalizeAutorun(t) ==
    \/ /\ FinGoto(t, "autorun", IF status[t] = "success" THEN "children" ELSE "none")
       /\ UNCHANGED <<poolVars, jobVars, held, report, timer, finalizers, recon, finishes>>
    \/ \E c \in Tasks : /\ fin[t] = "children" /\ AutorunChild(t, c)
                        /\ UNCHANGED remoteVars
    \/ /\ FinGoto(t, "children", "none")
       /\ AutorunDone(t)
       /\ UNCHANGED <<poolVars, jobVars, held, report, timer, finalizers, recon, finishes>>

FinalizeStep(t) == TryFinalize(t) \/ FinalizeFinish(t) \/ FinalizeAutorun(t)

-----------------------------------------------------------------------------
(* The reconciler, one task at a time.  Which runner is offline, lost or   *)
(* restarted is any choice; the task's status decides what is done about   *)
(* it, and may have changed when it is done.                               *)

Decide(t) ==
    /\ Reconciles
    /\ recon.pc = "idle" \/ (recon.pc = "finalize" /\ fin[recon.task] = "none")
    /\ t \in running /\ runner[t] # NoRunner
    /\ status[t] \in {"starting", "waiting", "running"}
    /\ recon' = [pc |-> IF status[t] = "running" THEN "fail" ELSE "requeue",
                 task |-> t, runner |-> runner[t]]
    /\ UNCHANGED <<poolVars, jobVars, held, report, timer, finalizers, fin, finishes>>

(* The finalize lock is held, or the re-check fails: nothing is done.      *)
Keeps(t) ==
    /\ recon.task = t
    /\ \/ recon.pc \in {"requeue", "fail"} /\ Locked(t)
       \/ /\ recon.pc = "requeue"
          /\ status[t] \notin {"starting", "waiting"} \/ runner[t] # recon.runner
       \/ recon.pc = "fail" /\ IsFinished(status[t])
    /\ recon' = NoDecision
    /\ UNCHANGED <<poolVars, jobVars, held, report, timer, finalizers, fin, finishes>>

\* Mutant: only the event is sent.
RequeueOfflineEventOnly(t) ==
    /\ recon.pc = "requeue" /\ recon.task = t
    /\ ~Locked(t)
    /\ status[t] \in {"starting", "waiting"} /\ runner[t] = recon.runner
    /\ status' = [status EXCEPT ![t] = "waiting"]
    /\ row' = [row EXCEPT ![t] = "waiting"]
    /\ runner' = [runner EXCEPT ![t] = NoRunner]
    /\ recon' = [recon EXCEPT !.pc = "send"]
    /\ UNCHANGED <<others, run, pick, requeued, held, report, timer, finalizers, fin, finishes>>

(* requeueTaskRunnerOffline up to the send of EventTypeRequeued.  It gives *)
(* up if the task cannot be stored.                                        *)
RequeueTaskRunnerOffline(t) ==
    /\ recon.pc = "requeue" /\ recon.task = t
    /\ ~Locked(t)
    /\ status[t] \in {"starting", "waiting"} /\ runner[t] = recon.runner
    /\ status' = [status EXCEPT ![t] = "waiting"]
    /\ runner' = [runner EXCEPT ![t] = NoRunner]
    /\ \/ /\ row' = [row EXCEPT ![t] = "waiting"]
          /\ queue' = Append(queue, t)
          /\ recon' = [recon EXCEPT !.pc = "send"]
       \/ /\ row' = [row EXCEPT ![t] = IF status[t] = "waiting" THEN @ ELSE "waiting"]
          /\ recon' = NoDecision
          /\ UNCHANGED queue
    /\ UNCHANGED <<ended, killed, run, running, active, intake, handler, stopper,
                   pick, requeued, held, report, timer, finalizers, fin, finishes>>

ReconcilerSends(t) ==
    /\ recon.pc = "send" /\ recon.task = t
    /\ recon' = NoDecision
    /\ ReceiveRequeued(t)
    /\ UNCHANGED <<taskVars, intake, stopper, jobVars, held, report, timer, finalizers,
                   fin, finishes>>

(* failTaskRunnerLost goes on as the holder of the finalize lock.  The     *)
(* RunnerID is cleared when the runner's row is gone.                      *)
FailTaskRunnerLost(t) ==
    /\ recon.pc = "fail" /\ recon.task = t
    /\ ~Locked(t) /\ ~IsFinished(status[t])
    /\ SetStatus(t, "error")
    /\ runner' \in {runner, [runner EXCEPT ![t] = NoRunner]}
    /\ fin' = [fin EXCEPT ![t] = "locked"]
    /\ recon' = [recon EXCEPT !.pc = "finalize"]
    /\ UNCHANGED <<others, run, pick, requeued, held, report, timer, finalizers, finishes>>

-----------------------------------------------------------------------------
(* Stops: a forced stop of a task that the pool knows also finalizes it.   *)

RemoteStopTask(t, force) ==
    /\ StopTask(t, force)
    /\ Finalizing(t, force /\ Known(t))
    /\ UNCHANGED <<jobVars, held, report, timer, fin, recon, finishes>>

TemplateStop ==
    \/ /\ \/ \E p \in Templates, force \in BOOLEAN : TemplateStopRows(p, force)
          \/ TemplateStopSnapshot
          \/ \E t \in Tasks : TemplateStopQueued(t)
       /\ UNCHANGED remoteVars
    \/ \E t \in Tasks :
          /\ TemplateStopRunning(t)
          /\ Finalizing(t, stopper.force /\ ~IsFinished(status[t]))
          /\ UNCHANGED <<jobVars, held, report, timer, fin, recon, finishes>>
    \/ \E t \in Tasks :
          /\ TemplateStopRest(t)
          /\ Finalizing(t, Known(t))
          /\ UNCHANGED <<jobVars, held, report, timer, fin, recon, finishes>>

-----------------------------------------------------------------------------
RunnerApi(t, reports) ==
    \/ PollDelivers(t) \/ PollFails(t) \/ ReportApplies(t)
    \/ \E s \in reports : ReportArrives(t, s)
    \/ \E r \in Runners : ReportRejected(t, r)

Sends(t) ==
    \/ SendFinished(t) /\ UNCHANGED remoteVars
    \/ SendRequeued(t) \/ FinalizeSend(t)

(* Tasks are added, dispatched, reported and completed.                    *)
Undisturbed(reports) ==
    \/ (Tick \/ HandleQueue) /\ UNCHANGED remoteVars
    \/ \E t \in Tasks :
          \/ (AddTask(t) \/ Register(t) \/ HandleNew(t)) /\ UNCHANGED remoteVars
          \/ RunStep(t) \/ Sends(t) \/ FinalizeStep(t) \/ RunnerApi(t, reports)

(* What breaks into that: users, the timeout and the reconciler.           *)
Answer(t) == (ConfirmTask(t) \/ RejectTask(t)) /\ UNCHANGED remoteVars

Timer(t) == TimerFires(t) \/ TimerFails(t)

Reconciler(t) ==
    \/ Decide(t) \/ Keeps(t) \/ RequeueTaskRunnerOffline(t) \/ FailTaskRunnerLost(t)
    \/ ReconcilerSends(t)

Next ==
    \/ Undisturbed(Reports)
    \/ \E t \in Tasks :
          \/ Answer(t) \/ Timer(t) \/ Reconciler(t)
          \/ \E force \in BOOLEAN : RemoteStopTask(t, force)
    \/ TemplateStop

(***************************************************************************)
(* Fairness: the goroutines of the server run and blocked senders are      *)
(* served (see LocalTaskPool); a dispatch does not find every runner busy  *)
(* for ever; an armed timer fires.  Nothing is assumed of runners.         *)
(***************************************************************************)
Fairness ==
    /\ WF_vars(Tick /\ UNCHANGED remoteVars)
    /\ WF_vars(HandleQueue /\ UNCHANGED remoteVars)
    /\ SF_vars(\E t \in Tasks : Register(t) /\ UNCHANGED remoteVars)
    /\ SF_vars(\E t \in Tasks : HandleNew(t) /\ UNCHANGED remoteVars)
    /\ \A t \in Tasks :
          /\ WF_vars(RunStep(t))
          /\ SF_vars(SendFinished(t) /\ UNCHANGED remoteVars)
          /\ SF_vars(SendRequeued(t)) /\ SF_vars(FinalizeSend(t))
          /\ WF_vars(TryFinalize(t)) /\ WF_vars(FinalizeFinish(t)) /\ WF_vars(FinalizeAutorun(t))
          /\ WF_vars(ReportApplies(t)) /\ WF_vars(Timer(t))

Spec == Init /\ [][Next]_vars

UndisturbedSpec == Init /\ [][Undisturbed(Reports)]_vars

FairSpec == Spec /\ Fairness

-----------------------------------------------------------------------------
(* A task that is being dispatched is in the running map (stop requests,   *)
(* limits and the runner's slots see it).                                  *)
LiveTracked == Live \subseteq running

(* A task is queued at most once.                                          *)
QueuedOnce == \A i, j \in 1..Len(queue) : queue[i] = queue[j] => i = j

(* The completion of a task (finishRun) is executed at most once.          *)
FinishedOnce == \A t \in Tasks : finishes[t] <= 1

(* A finished task in the running map has a goroutine that will remove it. *)
NoLeak ==
    \A t \in running :
        IsFinished(status[t]) =>
            \/ run[t] # "none" \/ fin[t] \in {"locked", "send"} \/ requeued[t] > 0
            \/ finalizers[t] > 0

(* An unfinished task without a recorded end is in the queue or in the     *)
(* running map once Run has passed it on: requeueing never drops it.       *)
NotLost ==
    \A t \in Tasks \ (ended \cup registering) :
        Exists(t) /\ ~IsFinished(row[t]) /\ loop # t => Known(t)

(* A task is tracked while it lives, completed at most once and not lost,  *)
(* whatever reports and requeues overlap.                                  *)
ExactlyOnce == TypeOK /\ LiveTracked /\ FinishedOnce /\ NotLost

(* A deploy task that follows a build is added when the build succeeded, its *)
(* end is recorded and its slot is released (finalizeRemoteTaskLocked).     *)
AutorunAfterEnd ==
    \A c \in Tasks :
        Exists(c) /\ Parent[c] # NoTask =>
            /\ Parent[c] \in ended \ running
            /\ row[Parent[c]] = "success"

(* At most one runner has the task as a job: it is not executed twice.      *)
SingleHolder == \A t \in Tasks : Cardinality(held[t]) <= 1

(* The outcome success or error is final once End is recorded.             *)
OutcomeFinal ==
    [][\A t \in ended : row[t] \in {"success", "error"} => row'[t] = row[t]]_vars

(* The pool implements TaskLifecycle with runners as well: a task holds     *)
(* its place from the claim to the event of its end or of its requeue.      *)
Phase(t) ==
    IF t \in running THEN "live"
    ELSE IF t \in ended THEN "done"
    ELSE IF Exists(t) THEN "added" ELSE "new"

Lifecycle == INSTANCE TaskLifecycle
    WITH phase <- [t \in Tasks |-> Phase(t)], Capacity <- MaxParallelTasks, Requeues <- TRUE

ImplementsLifecycle == Lifecycle!Spec

(* A task that was handed to a runner leaves the running map, even if the  *)
(* runner stays silent: the timeout is the backstop.                       *)
HandedOffReleased ==
    \A t \in Tasks : (t \in running /\ runner[t] # NoRunner) ~> t \notin running
=============================================================================
