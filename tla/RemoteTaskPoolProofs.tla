------------------------ MODULE RemoteTaskPoolProofs ------------------------
(***************************************************************************)
(* Proofs about RemoteTaskPool for every set of tasks, templates, runners  *)
(* and limits: type correctness of the whole specification and who may     *)
(* overwrite an outcome in it; for tasks that nobody stops and no timeout  *)
(* or reconciler touches, the way of a task from its row to its recorded   *)
(* end; and who holds a task while users stop tasks, timeouts fire and     *)
(* reports are late: without the reconciler it is with one runner at most, *)
(* and under timeouts a finished task has someone who removes it; with the *)
(* reconciler no task is queued twice or lost.                             *)
(***************************************************************************)
EXTENDS MCRemoteFaults, QueueProofs, FiniteSetTheorems, TLAPS

-----------------------------------------------------------------------------
(* The stages of a task.  A stage says of every variable where it has the   *)
(* task, so that a step of another task cannot disturb it and a step of the *)
(* task leads to a stage.                                                   *)

\* No report and no call of FinalizeRemoteTask is under way.
Unreported(t) == report[t] = "none" /\ finalizers[t] = 0 /\ fin[t] = "none"

\* The completion has not been executed, or once.
Open(t)   == t \notin ended /\ finishes[t] = 0
Closed(t) == t \in ended /\ finishes[t] = 1 /\ row[t] = status[t] /\ IsFinished(status[t])

\* No runner has ever been told of the task.
Fresh(t) == runner[t] = NoRunner /\ held[t] = {} /\ Unreported(t) /\ Open(t)

Outside(t) == ~InQueue(t) /\ t \notin running /\ t \notin active
Inside(t)  == t \in running /\ t \in active /\ Exists(t)

\* Neither an AddTask call nor Run has the task.
PassedOn(t) == t \notin registering /\ loop # t

\* No goroutine of run() exists for the task.
NoRun(t) == run[t] = "none" /\ requeued[t] = 0

\* The row is missing, or AddTask failed after it was created.
Unadded(t) ==
    /\ Outside(t) /\ PassedOn(t) /\ NoRun(t) /\ Fresh(t)
    /\ \/ row[t] = "none" /\ status[t] = "waiting"
       \/ row[t] = "error"

\* On the way to the queue.
AtIntake(t) ==
    /\ Outside(t) /\ NoRun(t) /\ Fresh(t) /\ Exists(t) /\ status[t] = "waiting"
    /\ (t \in registering) # (loop = t)

AtQueue(t) ==
    /\ InQueue(t) /\ t \notin running /\ t \notin active
    /\ PassedOn(t) /\ NoRun(t) /\ Fresh(t) /\ Exists(t) /\ status[t] = "waiting"

\* run() looks for a runner.
Dispatched(t) ==
    /\ Inside(t) /\ ~InQueue(t) /\ PassedOn(t) /\ Fresh(t) /\ requeued[t] = 0
    /\ \/ run[t] = "sleep" /\ status[t] = "waiting"
       \/ run[t] \in {"started", "selected"} /\ status[t] = "starting"

\* Back in the queue, and still in the running map until the event arrives.
Requeuing(t) ==
    /\ Inside(t) /\ InQueue(t) /\ PassedOn(t) /\ Fresh(t)
    /\ run[t] = "none" /\ requeued[t] = 1 /\ status[t] = "waiting"

\* The job failed before the hand-off: run() completes the task.
Failed(t) ==
    /\ Inside(t) /\ ~InQueue(t) /\ PassedOn(t) /\ requeued[t] = 0
    /\ held[t] = {} /\ Unreported(t) /\ IsFinished(status[t])
    /\ \/ run[t] = "finish" /\ Open(t)
       \/ run[t] = "send" /\ Closed(t)

\* A runner has the task.
Handed(t) ==
    /\ Inside(t) /\ ~InQueue(t) /\ PassedOn(t) /\ NoRun(t) /\ Open(t)
    /\ ~IsFinished(status[t]) /\ finalizers[t] = 0 /\ fin[t] = "none"

\* The one call of FinalizeRemoteTask, up to finishRun and up to its event.
Ending(t) ==
    /\ Inside(t) /\ ~InQueue(t) /\ PassedOn(t) /\ NoRun(t) /\ Open(t)
    /\ IsFinished(status[t]) /\ report[t] = "none"
    /\ \/ finalizers[t] = 1 /\ fin[t] = "none"
       \/ finalizers[t] = 0 /\ fin[t] = "locked"

Closing(t) ==
    /\ Inside(t) /\ ~InQueue(t) /\ PassedOn(t) /\ NoRun(t) /\ Closed(t)
    /\ report[t] = "none" /\ finalizers[t] = 0 /\ fin[t] = "send"

\* Out of the pool; perhaps the children are being added.
Done(t) ==
    /\ Outside(t) /\ Exists(t) /\ PassedOn(t) /\ NoRun(t) /\ Closed(t)
    /\ report[t] = "none" /\ finalizers[t] = 0
    /\ \/ fin[t] \in {"none", "autorun"}
       \/ fin[t] = "children" /\ status[t] = "success"

Stage(t) ==
    \/ Unadded(t) \/ AtIntake(t) \/ AtQueue(t) \/ Dispatched(t) \/ Requeuing(t) \/ Failed(t)
    \/ Handed(t) \/ Ending(t) \/ Closing(t) \/ Done(t)

(* The inductive invariant: every task is at a stage, is queued once, and   *)
(* nobody has stopped one or decided to take one from its runner.          *)
Calm == Distinct(queue) /\ killed = {} /\ recon = NoDecision

Orderly == Calm /\ \A t \in Tasks : Stage(t)
-----------------------------------------------------------------------------
(* Type correctness, for every step of the specification. *)

\* The part of TypeOK about the variables that local tasks have as well.
PoolTyped ==
    /\ status \in [Tasks -> Statuses]
    /\ row \in [Tasks -> Statuses \cup {"none"}]
    /\ ended \subseteq Tasks /\ killed \subseteq Tasks
    /\ run \in [Tasks -> RunPoints]
    /\ queue \in Seq(Tasks) /\ running \subseteq Tasks /\ active \subseteq Tasks
    /\ registering \subseteq Tasks
    /\ loop \in Tasks \cup {"idle", "tick"}
    /\ hpc \in {"idle", "snap", "scan"}
    /\ skip \in Tasks \cup {NoTask}
    /\ todo \in Seq(Tasks)
    /\ hpc = "scan" => todo # <<>>
    /\ stopper \in [pc : {"idle", "rows", "queue", "running", "rest"},
                    tpl : Templates \cup {NoTask}, force : BOOLEAN,
                    todo : SUBSET Tasks, done : SUBSET Tasks]

\* The part about the runners' variables.
RemoteTyped ==
    /\ runner \in [Tasks -> Runners \cup {NoRunner}]
    /\ pick \in [Tasks -> Runners \cup {NoRunner}]
    /\ requeued \in [Tasks -> 0..MaxPending]
    /\ held \in [Tasks -> SUBSET Runners]
    /\ report \in [Tasks -> Reports \cup {"none"}]
    /\ timer \in [Tasks -> {"off", "armed", "fired"}]
    /\ finalizers \in [Tasks -> 0..MaxFinalizers]
    /\ fin \in [Tasks -> {"none", "locked", "send", "autorun", "children"}]
    /\ recon \in [pc : {"idle", "requeue", "send", "fail", "finalize"},
                  task : Tasks \cup {NoTask}, runner : Runners \cup {NoRunner}]
    /\ finishes \in [Tasks -> 0..2]

(* The two parts are the whole.                                            *)
LEMMA TypeParts ==
    /\ TypeOK <=> PoolTyped /\ RemoteTyped
    /\ TypeOK' <=> PoolTyped' /\ RemoteTyped'
BY DEF TypeOK, PoolTyped, RemoteTyped

(* SetStatus, on the TaskRunner or on the row only, and saveStatus.        *)
LEMMA SetStatusTyped ==
    ASSUME PoolTyped, NEW t \in Tasks,
           \/ \E s \in Statuses : SetStatus(t, s) \/ SetRowStatus(t, s)
           \/ saveStatus(t) /\ UNCHANGED status
    PROVE  /\ status' \in [Tasks -> Statuses]
           /\ row' \in [Tasks -> Statuses \cup {"none"}]
<1>1. \A s \in Statuses : /\ AfterSetStatus(status[t], s) \in Statuses
                          /\ AfterSetStatus(row[t], s) \in Statuses \cup {"none"}
  BY DEF AfterSetStatus, PoolTyped
<1> QED
  BY <1>1 DEF SetStatus, SetRowStatus, saveStatus, PoolTyped

(* AddTask, Run and the operations on one task.                            *)
LEMMA IntakeTyped ==
    ASSUME PoolTyped,
           \/ Tick
           \/ \E t \in Tasks : \/ CreateTask(t) \/ CreateTaskFails(t) \/ Register(t)
                               \/ ConfirmTask(t) \/ RejectTask(t)
                               \/ \E force \in BOOLEAN : StopTask(t, force)
    PROVE  PoolTyped'
<1> USE DEF taskVars, storeVars, intake, handler
<1>0. {"waiting", "error", "stopped", "stopping", "confirmed", "rejected"} \subseteq Statuses
  BY DEF Statuses, UnfinishedTaskStatuses, FinishedStatuses
<1>1. CASE Tick
  BY <1>1 DEF Tick, PoolTyped
<1>2. ASSUME NEW t \in Tasks, CreateTask(t) \/ CreateTaskFails(t)
      PROVE  PoolTyped'
  BY <1>0, <1>2 DEF CreateTask, CreateTaskFails, PoolTyped
<1>3. ASSUME NEW t \in Tasks, Register(t) \/ ConfirmTask(t) \/ RejectTask(t)
      PROVE  PoolTyped'
  <2>1. /\ status' \in [Tasks -> Statuses]
        /\ row' \in [Tasks -> Statuses \cup {"none"}]
    BY <1>0, <1>3, SetStatusTyped DEF Register, ConfirmTask, RejectTask
  <2> QED
    BY <1>3, <2>1 DEF Register, ConfirmTask, RejectTask, PoolTyped
<1>4. ASSUME NEW t \in Tasks, NEW force \in BOOLEAN, StopTask(t, force)
      PROVE  PoolTyped'
  <2>1. /\ status' \in [Tasks -> Statuses]
        /\ row' \in [Tasks -> Statuses \cup {"none"}]
    BY <1>0, <1>4, SetStatusTyped DEF StopTask, StopTaskRunner
  <2>2. killed' \subseteq Tasks
    BY <1>4 DEF StopTask, StopTaskRunner, PoolTyped
  <2> QED
    BY <1>4, <2>1, <2>2 DEF StopTask, PoolTyped
<1> QED
  BY <1>1, <1>2, <1>3, <1>4

(* handleQueue and the events that it receives.                            *)
LEMMA HandlerTyped ==
    ASSUME PoolTyped,
           \/ HandleQueue
           \/ \E t \in Tasks : HandleNew(t) \/ SendFinished(t)
    PROVE  PoolTyped'
<1> USE DEF taskVars, storeVars, intake, handler
<1>1. CASE HandleTick
  BY <1>1 DEF HandleTick, PoolTyped
<1>2. CASE Snapshot
  BY <1>2 DEF Snapshot, Continue, PoolTyped
<1>3. ASSUME hpc = "scan"
      PROVE  Head(todo) \in Tasks /\ Tail(todo) \in Seq(Tasks)
  BY <1>3 DEF PoolTyped
<1>4. CASE ScanSkip
  <2>1. queue' \in Seq(Tasks)
    BY <1>4, RemoveQueue DEF ScanSkip, Dequeue, PoolTyped
  <2> QED
    BY <1>3, <1>4, <2>1 DEF ScanSkip, Continue, PoolTyped
<1>5. CASE ScanRun
  <2>1. queue' \in Seq(Tasks)
    BY <1>5, RemoveQueue DEF ScanRun, Dequeue, PoolTyped
  <2>2. /\ running' \subseteq Tasks /\ active' \subseteq Tasks
        /\ run' \in [Tasks -> RunPoints]
    BY <1>3, <1>5 DEF ScanRun, onTaskRun, PoolTyped, RunPoints
  <2> QED
    BY <1>3, <1>5, <2>1, <2>2 DEF ScanRun, Continue, PoolTyped
<1>6. ASSUME NEW t \in Tasks, HandleNew(t)
      PROVE  PoolTyped'
  <2>1. queue' \in Seq(Tasks)
    BY <1>6, AppendQueue DEF HandleNew, PoolTyped
  <2> QED
    BY <1>6, <2>1 DEF HandleNew, PoolTyped
<1>7. ASSUME NEW t \in Tasks, SendFinished(t)
      PROVE  PoolTyped'
  BY <1>7 DEF SendFinished, ReceiveFinished, onTaskStop, Goto, RunPoints, PoolTyped
<1> QED
  BY <1>1, <1>2, <1>4, <1>5, <1>6, <1>7 DEF HandleQueue

(* StopTasksByTemplate touches only statuses, rows and the queue.          *)
LEMMA TemplateStopTyped ==
    ASSUME PoolTyped,
           \/ \E p \in Templates, force \in BOOLEAN : TemplateStopRows(p, force)
           \/ TemplateStopSnapshot
           \/ \E t \in Tasks :
                 TemplateStopQueued(t) \/ TemplateStopRunning(t) \/ TemplateStopRest(t)
    PROVE  PoolTyped'
<1> USE DEF taskVars, storeVars, intake, handler
<1>0. {"stopped", "stopping"} \subseteq Statuses
  BY DEF Statuses, UnfinishedTaskStatuses, FinishedStatuses
<1>1. ASSUME NEW p \in Templates, NEW force \in BOOLEAN, TemplateStopRows(p, force)
      PROVE  PoolTyped'
  <2>1. row' \in [Tasks -> Statuses \cup {"none"}]
    BY <1>0, <1>1 DEF TemplateStopRows, PoolTyped
  <2> QED
    BY <1>1, <2>1 DEF TemplateStopRows, NoStop, PoolTyped
<1> DEFINE Stoppers == [pc : {"idle", "rows", "queue", "running", "rest"},
                        tpl : Templates \cup {NoTask}, force : BOOLEAN,
                        todo : SUBSET Tasks, done : SUBSET Tasks]
<1>a. stopper \in Stoppers /\ NoStop \in Stoppers
  BY DEF PoolTyped, NoStop
<1>b. \A T \in SUBSET Tasks, pc \in {"queue", "running", "rest"} :
         [stopper EXCEPT !.pc = pc, !.todo = T] \in Stoppers
  BY <1>a
<1>c. \A T \in SUBSET Tasks, D \in SUBSET Tasks :
         [stopper EXCEPT !.todo = T, !.done = D] \in Stoppers
  BY <1>a
<1>d. \A T \in SUBSET Tasks : [stopper EXCEPT !.todo = T] \in Stoppers
  BY <1>a
<1>2. CASE TemplateStopSnapshot
  <2> DEFINE Q == OfTemplate(Queued, stopper.tpl)
             R == OfTemplate(running, stopper.tpl)
             U == Unhandled
  <2>1. Q \in SUBSET Tasks /\ R \in SUBSET Tasks /\ U \in SUBSET Tasks
    BY DEF OfTemplate, Queued, Unhandled, PoolTyped
  <2>2. \/ stopper' = [stopper EXCEPT !.pc = "queue", !.todo = Q]
        \/ stopper' = [stopper EXCEPT !.pc = "running", !.todo = R]
        \/ stopper' = [stopper EXCEPT !.pc = "rest", !.todo = U]
        \/ stopper' = NoStop
    BY <1>2 DEF TemplateStopSnapshot
  <2> HIDE DEF Q, R, U, Stoppers
  <2>3. stopper' \in Stoppers
    BY <1>a, <1>b, <2>1, <2>2
  <2> QED
    BY <1>2, <2>3 DEF TemplateStopSnapshot, PoolTyped, Stoppers
<1>3. ASSUME NEW t \in Tasks,
             TemplateStopQueued(t) \/ TemplateStopRunning(t) \/ TemplateStopRest(t)
      PROVE  PoolTyped'
  <2>1. /\ status' \in [Tasks -> Statuses]
        /\ row' \in [Tasks -> Statuses \cup {"none"}]
    <3>1. \/ \E s \in Statuses : SetStatus(t, s) \/ SetRowStatus(t, s)
          \/ UNCHANGED <<status, row>>
      BY <1>0, <1>3 DEF TemplateStopQueued, TemplateStopRunning, TemplateStopRest,
         StopTaskRunner
    <3> QED
      BY <3>1, SetStatusTyped DEF PoolTyped
  <2>2. queue' \in Seq(Tasks) /\ killed' \subseteq Tasks
    BY <1>3, RemoveQueue DEF TemplateStopQueued, TemplateStopRunning, TemplateStopRest,
       StopTaskRunner, Dequeue, PoolTyped
  <2>3. \/ stopper' = [stopper EXCEPT !.todo = stopper.todo \ {t}, !.done = stopper.done \cup {t}]
        \/ stopper' = [stopper EXCEPT !.todo = stopper.todo \ {t}]
        \/ stopper' = NoStop
    BY <1>3 DEF TemplateStopQueued, TemplateStopRunning, TemplateStopRest, Stopped, Passed
  <2>4. stopper.todo \ {t} \in SUBSET Tasks /\ stopper.done \cup {t} \in SUBSET Tasks
    <3>1. stopper.todo \in SUBSET Tasks /\ stopper.done \in SUBSET Tasks
      BY <1>a
    <3> QED
      BY <1>3, <3>1
  <2>5. stopper' \in Stoppers
    <3> HIDE DEF Stoppers
    <3> QED
      BY <1>a, <1>c, <1>d, <2>3, <2>4
  <2> QED
    BY <1>3, <2>1, <2>2, <2>5
    DEF TemplateStopQueued, TemplateStopRunning, TemplateStopRest, PoolTyped
<1> QED
  BY <1>1, <1>2, <1>3

(* run() with its RemoteJob.                                               *)
LEMMA RunTyped ==
    ASSUME TypeOK, NEW t \in Tasks, RunStep(t)
    PROVE  TypeOK'
<1> USE RemoteAssumption DEF taskVars, storeVars, intake, handler, others, remoteVars, jobVars,
        endVars
<1>0. {"waiting", "starting", "stopped", "error"} \subseteq Statuses
  BY DEF Statuses, UnfinishedTaskStatuses, FinishedStatuses
<1>1. PoolTyped /\ RemoteTyped
  BY TypeParts
<1>2. CASE BeginRun(t) /\ UNCHANGED remoteVars
  <2>1. \E s \in Statuses : SetStatus(t, s)
    BY <1>0, <1>2 DEF BeginRun
  <2>2. PoolTyped'
    BY ZenonT(30), <1>1, <1>2, <2>1, SetStatusTyped DEF BeginRun, Goto, RunPoints, PoolTyped
  <2> QED
    BY <1>1, <1>2, <2>2, TypeParts DEF RemoteTyped
<1>3. ASSUME NEW from, JobError(t, from)
      PROVE  PoolTyped'
  <2>1. \E s \in Statuses : SetStatus(t, s)
    BY <1>0, <1>3 DEF JobError
  <2> QED
    BY <1>1, <1>3, <2>1, SetStatusTyped DEF JobError, Goto, RunPoints, PoolTyped
<1>4. CASE DispatchFails(t)
  <2>1. PoolTyped'
    BY <1>3, <1>4 DEF DispatchFails
  <2> QED
    BY <1>1, <1>4, <2>1, TypeParts DEF DispatchFails, RemoteTyped
<1>5. CASE AssignFails(t)
  <2>1. PoolTyped'
    BY <1>3, <1>5 DEF AssignFails
  <2>2. RemoteTyped'
    BY <1>1, <1>5 DEF AssignFails, RemoteTyped
  <2> QED
    BY <2>1, <2>2, TypeParts
<1>6. ASSUME NEW r \in Runners, SelectRunner(t, r)
      PROVE  TypeOK'
  <2>1. PoolTyped'
    BY <1>1, <1>6 DEF SelectRunner, Goto, RunPoints, PoolTyped
  <2>2. RemoteTyped'
    BY <1>1, <1>6 DEF SelectRunner, RemoteTyped
  <2> QED
    BY <2>1, <2>2, TypeParts
<1>7. CASE Requeue(t)
  <2>1. /\ status' \in [Tasks -> Statuses] /\ row' \in [Tasks -> Statuses \cup {"none"}]
        /\ queue' \in Seq(Tasks)
    BY <1>0, <1>1, <1>7, SetStatusTyped, AppendQueue DEF Requeue, PoolTyped
  <2>2. PoolTyped'
    BY <1>1, <1>7, <2>1 DEF Requeue, Goto, RunPoints, PoolTyped
  <2>3. RemoteTyped'
    BY <1>1, <1>7 DEF Requeue, RemoteTyped
  <2> QED
    BY <2>2, <2>3, TypeParts
<1>8. CASE AssignRunner(t)
  <2>1. row' \in [Tasks -> Statuses \cup {"none"}]
    BY <1>1, <1>8, SetStatusTyped DEF AssignRunner
  <2>2. PoolTyped'
    BY <1>1, <1>8, <2>1 DEF AssignRunner, Goto, RunPoints, PoolTyped
  <2>3. RemoteTyped'
    BY <1>1, <1>8 DEF AssignRunner, RemoteTyped
  <2> QED
    BY <2>2, <2>3, TypeParts
<1>9. CASE /\ FinishRun(t) /\ CountFinish(t)
           /\ UNCHANGED <<jobVars, held, report, timer, finalizers, fin, recon>>
  <2>1. row' \in [Tasks -> Statuses \cup {"none"}]
    BY <1>1, <1>9, SetStatusTyped DEF FinishRun, SaveEnd
  <2>2. PoolTyped'
    BY <1>1, <1>9, <2>1 DEF FinishRun, SaveEnd, Goto, RunPoints, PoolTyped
  <2>3. RemoteTyped'
    BY <1>1, <1>9 DEF CountFinish, RemoteTyped
  <2> QED
    BY <2>2, <2>3, TypeParts
<1> QED
  BY <1>2, <1>4, <1>5, <1>6, <1>7, <1>8, <1>9 DEF RunStep

(* The rendezvous with handleQueue.                                        *)
LEMMA SendsTyped ==
    ASSUME TypeOK, NEW t \in Tasks, Sends(t) \/ ReconcilerSends(t)
    PROVE  TypeOK'
<1> USE RemoteAssumption DEF taskVars, storeVars, intake, handler, remoteVars, jobVars, endVars
<1>1. PoolTyped /\ RemoteTyped
  BY TypeParts
<1>2. CASE SendFinished(t) /\ UNCHANGED remoteVars
  BY <1>1, <1>2, HandlerTyped, TypeParts DEF RemoteTyped
<1>3. CASE SendRequeued(t) \/ FinalizeSend(t) \/ ReconcilerSends(t)
  <2>1. PoolTyped'
    BY <1>1, <1>3 DEF SendRequeued, FinalizeSend, ReconcilerSends, ReceiveRequeued,
       ReceiveFinished, onTaskStop, PoolTyped
  <2>2. RemoteTyped'
    BY <1>1, <1>3 DEF SendRequeued, FinalizeSend, FinGoto, ReconcilerSends, NoDecision,
       RemoteTyped
  <2> QED
    BY <2>1, <2>2, TypeParts
<1> QED
  BY <1>2, <1>3 DEF Sends

(* Finalizing counts up to MaxFinalizers.                                  *)
LEMMA FinalizingTyped ==
    ASSUME RemoteTyped, NEW t \in Tasks, NEW c \in BOOLEAN, Finalizing(t, c)
    PROVE  finalizers' \in [Tasks -> 0..MaxFinalizers]
BY RemoteAssumption DEF Finalizing, RemoteTyped

(* The runner API, the timer and FinalizeRemoteTask.                       *)
LEMMA CompletionTyped ==
    ASSUME TypeOK, NEW t \in Tasks,
           RunnerApi(t, Reports) \/ Timer(t) \/ FinalizeStep(t)
    PROVE  TypeOK'
<1> USE RemoteAssumption DEF poolVars, taskVars, storeVars, intake, handler, others, remoteVars,
        jobVars, endVars
<1>0. {"error"} \subseteq Statuses /\ "none" \notin Statuses
  BY DEF Statuses, UnfinishedTaskStatuses, FinishedStatuses
<1>1. PoolTyped /\ RemoteTyped
  BY TypeParts
<1>2. CASE PollDelivers(t) \/ (\E s \in Reports : ReportArrives(t, s))
              \/ (\E r \in Runners : ReportRejected(t, r)) \/ TimerFires(t) \/ TryFinalize(t)
  <2>1. PoolTyped'
    BY <1>1, <1>2 DEF PollDelivers, ReportArrives, ReportRejected, TimerFires, TryFinalize,
       PoolTyped
  <2>2. held' \in [Tasks -> SUBSET Runners] /\ report' \in [Tasks -> Reports \cup {"none"}]
    <3>1. CASE PollDelivers(t)
      <4>1. held[t] \cup {runner[t]} \in SUBSET Runners
        BY <1>1, <3>1 DEF PollDelivers, RemoteTyped
      <4> QED
        BY <1>1, <3>1, <4>1 DEF PollDelivers, RemoteTyped
    <3>2. CASE \E r \in Runners : ReportRejected(t, r)
      <4>1. PICK r \in Runners : ReportRejected(t, r)
        BY <3>2
      <4>2. held[t] \ {r} \in SUBSET Runners
        BY <1>1 DEF RemoteTyped
      <4> QED
        BY <1>1, <4>1, <4>2 DEF ReportRejected, RemoteTyped
    <3> QED
      BY <1>1, <1>2, <3>1, <3>2 DEF ReportArrives, TimerFires, TryFinalize, RemoteTyped
  <2>3. /\ timer' \in [Tasks -> {"off", "armed", "fired"}]
        /\ finalizers' \in [Tasks -> 0..MaxFinalizers]
        /\ fin' \in [Tasks -> {"none", "locked", "send", "autorun", "children"}]
        /\ UNCHANGED <<runner, pick, requeued, recon, finishes>>
    BY <1>1, <1>2 DEF PollDelivers, ReportArrives, ReportRejected, TimerFires, TryFinalize,
       RemoteTyped
  <2>4. RemoteTyped'
    BY <1>1, <2>2, <2>3 DEF RemoteTyped
  <2> QED
    BY <2>1, <2>4, TypeParts
<1>3. CASE PollFails(t) \/ ReportApplies(t) \/ TimerFails(t)
  <2>1. status' \in [Tasks -> Statuses]
    <3>1. report[t] # "none" => report[t] \in Statuses
      BY <1>1 DEF RemoteTyped
    <3>2. \E s \in Statuses : status' = [status EXCEPT ![t] = AfterSetStatus(@, s)]
      BY <1>0, <1>3, <3>1 DEF PollFails, ReportApplies, TimerFails, SetStatus
    <3> QED
      BY <1>1, <3>2 DEF AfterSetStatus, PoolTyped
  <2>2. row' \in [Tasks -> Statuses \cup {"none"}]
    <3>1. report[t] # "none" => report[t] \in Statuses
      BY <1>1 DEF RemoteTyped
    <3>2. \E s \in Statuses \cup {"none"} : row' = [row EXCEPT ![t] = s]
      BY <1>0, <1>1, <1>3, <2>1, <3>1
      DEF PollFails, ReportApplies, TimerFails, SetStatus, PoolTyped
    <3> QED
      BY <1>1, <3>2 DEF PoolTyped
  <2>3. PoolTyped'
    BY <1>1, <1>3, <2>1, <2>2 DEF PollFails, ReportApplies, TimerFails, PoolTyped
  <2>4. finalizers' \in [Tasks -> 0..MaxFinalizers]
    BY <1>1, <1>3 DEF PollFails, ReportApplies, TimerFails, Finalizing, RemoteTyped
  <2>5. RemoteTyped'
    BY <1>1, <1>3, <2>4 DEF PollFails, ReportApplies, TimerFails, RemoteTyped
  <2> QED
    BY <2>3, <2>5, TypeParts
<1>4. CASE FinalizeFinish(t)
  <2>1. status' \in [Tasks -> Statuses] /\ row' \in [Tasks -> Statuses \cup {"none"}]
    BY <1>1, <1>4, SetStatusTyped DEF FinalizeFinish, SaveEnd
  <2>2. PoolTyped'
    BY <1>1, <1>4, <2>1 DEF FinalizeFinish, SaveEnd, PoolTyped
  <2>3. RemoteTyped'
    BY <1>1, <1>4 DEF FinalizeFinish, FinGoto, CountFinish, RemoteTyped
  <2> QED
    BY <2>2, <2>3, TypeParts
<1>5. CASE FinalizeAutorun(t)
  <2>1. CASE \E c \in Tasks : AutorunChild(t, c) /\ UNCHANGED remoteVars
    <3>1. PoolTyped'
      BY <1>1, <2>1, IntakeTyped DEF AutorunChild
    <3>2. RemoteTyped'
      BY <1>1, <2>1 DEF RemoteTyped
    <3> QED
      BY <3>1, <3>2, TypeParts
  <2>2. CASE \/ FinGoto(t, "autorun", IF status[t] = "success" THEN "children" ELSE "none")
             \/ FinGoto(t, "children", "none")
    <3>1. fin' \in [Tasks -> {"none", "locked", "send", "autorun", "children"}]
      BY <1>1, <2>2 DEF FinGoto, RemoteTyped
    <3>2. \/ \E c \in Tasks : AutorunChild(t, c) /\ UNCHANGED remoteVars
          \/ UNCHANGED <<poolVars, jobVars, held, report, timer, finalizers, recon, finishes>>
      BY <1>5 DEF FinalizeAutorun
    <3>3. CASE UNCHANGED <<poolVars, jobVars, held, report, timer, finalizers, recon, finishes>>
      <4>1. PoolTyped'
        BY <1>1, <3>3 DEF PoolTyped
      <4>2. RemoteTyped'
        BY <1>1, <3>1, <3>3 DEF RemoteTyped
      <4> QED
        BY <4>1, <4>2, TypeParts
    <3> QED
      BY <2>1, <3>2, <3>3
  <2> QED
    BY <1>5, <2>1, <2>2 DEF FinalizeAutorun
<1> QED
  BY <1>2, <1>3, <1>4, <1>5 DEF RunnerApi, Timer, FinalizeStep

(* The reconciler.                                                         *)
LEMMA ReconcilerTyped ==
    ASSUME TypeOK, NEW t \in Tasks, Reconciler(t)
    PROVE  TypeOK'
<1> USE RemoteAssumption DEF poolVars, taskVars, storeVars, intake, handler, others, remoteVars,
        jobVars, endVars
<1>0. {"error", "waiting"} \subseteq Statuses
  BY DEF Statuses, UnfinishedTaskStatuses, FinishedStatuses
<1>1. PoolTyped /\ RemoteTyped
  BY TypeParts
<1> DEFINE Recons == [pc : {"idle", "requeue", "send", "fail", "finalize"},
                      task : Tasks \cup {NoTask}, runner : Runners \cup {NoRunner}]
<1>a. NoDecision \in Recons /\ recon \in Recons
  BY <1>1 DEF NoDecision, RemoteTyped
<1>b. [recon EXCEPT !.pc = "send"] \in Recons /\ [recon EXCEPT !.pc = "finalize"] \in Recons
  BY <1>a
<1>2. CASE Decide(t) \/ Keeps(t)
  <2>1. recon' \in Recons
    BY <1>1, <1>2, <1>a DEF Decide, Keeps, RemoteTyped
  <2>2. UNCHANGED <<poolVars, jobVars, held, report, timer, finalizers, fin, finishes>>
    BY <1>2 DEF Decide, Keeps
  <2>3. PoolTyped'
    BY <1>1, <2>2 DEF PoolTyped
  <2>4. RemoteTyped'
    BY <1>1, <2>1, <2>2 DEF RemoteTyped
  <2> QED
    BY <2>3, <2>4, TypeParts
<1>3. CASE RequeueTaskRunnerOffline(t)
  <2>0. \E s \in Statuses \cup {"none"} : row' = [row EXCEPT ![t] = s]
    BY <1>0, <1>1, <1>3 DEF RequeueTaskRunnerOffline, PoolTyped
  <2>1. /\ status' \in [Tasks -> Statuses] /\ row' \in [Tasks -> Statuses \cup {"none"}]
        /\ runner' \in [Tasks -> Runners \cup {NoRunner}]
    BY SMTT(20), <1>0, <1>1, <1>3, <2>0 DEF RequeueTaskRunnerOffline, PoolTyped, RemoteTyped
  <2>2. queue' \in Seq(Tasks)
    <3>1. queue' = Append(queue, t) \/ queue' = queue
      BY <1>3 DEF RequeueTaskRunnerOffline
    <3>2. Append(queue, t) \in Seq(Tasks) /\ queue \in Seq(Tasks)
      BY <1>1 DEF PoolTyped
    <3> QED
      BY <3>1, <3>2
  <2>3. recon' \in Recons
    <3> HIDE DEF Recons
    <3> QED
      BY <1>3, <1>a, <1>b DEF RequeueTaskRunnerOffline
  <2>4. PoolTyped'
    BY <1>1, <1>3, <2>1, <2>2 DEF RequeueTaskRunnerOffline, PoolTyped
  <2>5. RemoteTyped'
    BY <1>1, <1>3, <2>1, <2>3 DEF RequeueTaskRunnerOffline, RemoteTyped
  <2> QED
    BY <2>4, <2>5, TypeParts
<1>4. CASE FailTaskRunnerLost(t)
  <2>1. status' \in [Tasks -> Statuses] /\ row' \in [Tasks -> Statuses \cup {"none"}]
    BY <1>0, <1>1, <1>4, SetStatusTyped DEF FailTaskRunnerLost
  <2>2. recon' \in Recons
    <3> HIDE DEF Recons
    <3> QED
      BY <1>4, <1>b DEF FailTaskRunnerLost
  <2>3. /\ runner' \in [Tasks -> Runners \cup {NoRunner}]
        /\ fin' \in [Tasks -> {"none", "locked", "send", "autorun", "children"}]
    BY <1>1, <1>4 DEF FailTaskRunnerLost, RemoteTyped
  <2>4. PoolTyped'
    BY <1>1, <1>4, <2>1 DEF FailTaskRunnerLost, PoolTyped
  <2>5. RemoteTyped'
    BY <1>1, <1>4, <2>2, <2>3 DEF FailTaskRunnerLost, RemoteTyped
  <2> QED
    BY <2>4, <2>5, TypeParts
<1>5. CASE ReconcilerSends(t)
  BY <1>5, SendsTyped
<1> QED
  BY <1>2, <1>3, <1>4, <1>5 DEF Reconciler

(* Forced stops, of one task or of a template, start a finalization.       *)
LEMMA StopTyped ==
    ASSUME TypeOK,
           TemplateStop \/ \E t \in Tasks, force \in BOOLEAN : RemoteStopTask(t, force)
    PROVE  TypeOK'
<1> USE DEF remoteVars, jobVars, endVars
<1>1. PoolTyped /\ RemoteTyped
  BY TypeParts
<1>2. PoolTyped'
  BY <1>1, IntakeTyped, TemplateStopTyped DEF TemplateStop, RemoteStopTask
<1>3. \/ UNCHANGED finalizers
      \/ \E t \in Tasks, c \in BOOLEAN : Finalizing(t, c)
  BY DEF TemplateStop, RemoteStopTask, IsFinished, Known, InQueue
<1>4. finalizers' \in [Tasks -> 0..MaxFinalizers]
  BY <1>1, <1>3, FinalizingTyped DEF RemoteTyped
<1>5. RemoteTyped'
  BY <1>1, <1>4 DEF TemplateStop, RemoteStopTask, RemoteTyped
<1> QED
  BY <1>2, <1>5, TypeParts

(* Every step keeps the types.                                             *)
LEMMA TypedStep == TypeOK /\ [Next]_vars => TypeOK'
<1> SUFFICES ASSUME TypeOK, [Next]_vars PROVE TypeOK'
  OBVIOUS
<1> USE DEF remoteVars, jobVars, endVars
<1>1. PoolTyped /\ RemoteTyped
  BY TypeParts
<1>2. CASE UNCHANGED vars
  BY SMTT(20), <1>2 DEF vars, poolVars, taskVars, storeVars, intake, handler, TypeOK
<1>3. CASE UNCHANGED remoteVars /\
           \/ Tick \/ HandleQueue
           \/ \E t \in Tasks : \/ AddTask(t) \/ Register(t) \/ HandleNew(t)
                               \/ ConfirmTask(t) \/ RejectTask(t)
  <2>1. PoolTyped'
    BY <1>1, <1>3, IntakeTyped, HandlerTyped DEF AddTask
  <2>2. RemoteTyped'
    BY <1>1, <1>3 DEF RemoteTyped
  <2> QED
    BY <2>1, <2>2, TypeParts
<1>4. ASSUME NEW t \in Tasks,
             \/ RunStep(t) \/ Sends(t) \/ RunnerApi(t, Reports) \/ Timer(t) \/ FinalizeStep(t)
             \/ Reconciler(t)
      PROVE  TypeOK'
  BY <1>4, RunTyped, SendsTyped, CompletionTyped, ReconcilerTyped
<1>5. CASE TemplateStop \/ \E t \in Tasks, force \in BOOLEAN : RemoteStopTask(t, force)
  BY <1>5, StopTyped
<1> QED
  BY <1>2, <1>3, <1>4, <1>5 DEF Next, Undisturbed, Answer

(* The initial values have the types.                                      *)
LEMMA TypedInit == Init => TypeOK
BY RemoteAssumption
   DEF Init, PoolInit, NoStop, NoDecision, TypeOK, RunPoints, Statuses, UnfinishedTaskStatuses

(* Type correctness: every variable of the pool, of run(), the runner API,   *)
(* FinalizeRemoteTask and the reconciler keeps its range.                  *)
THEOREM RemoteTypeCorrect == Spec => []TypeOK
BY TypedInit, TypedStep, PTL DEF Spec

-----------------------------------------------------------------------------
(* Who overwrites an outcome, with users, timeouts and the reconciler.      *)

Outcomes == {"success", "error"}

\* An outcome in the row is the task's status.
OutcomeStored == \A t \in Tasks : row[t] \in Outcomes => status[t] = row[t]

\* A report or a timeout that had found the task unfinished, run() of a task
\* that was dispatched once more, or a user's stop or answer.
Reopens(t) ==
    \/ report[t] # "none" /\ report'[t] = "none"
    \/ timer[t] = "fired" /\ timer'[t] = "off"
    \/ run[t] \in {"sleep", "started", "selected"} /\ run'[t] # run[t]
    \/ Answer(t) \/ \E force \in BOOLEAN : RemoteStopTask(t, force)
    \/ stopper.pc = "rest" /\ t \in stopper.todo /\ TemplateStopRest(t)

\* Nothing else changes an outcome: no finalizer, poll, reconciliation, first
\* dispatch or bulk stop of queued and running tasks.
OutcomeReopened ==
    [][\A t \in Tasks : row[t] \in Outcomes /\ row'[t] # row[t] => Reopens(t)]_vars

\* What a step may do to the status and the row of a task.
Stored(t) == /\ row'[t] \in Outcomes => status'[t] = row'[t]
             /\ row[t] \in Outcomes /\ row'[t] # row[t] => Reopens(t)

(* A step that leaves status and row of the task alone, or saves the status. *)
LEMMA SavedStored ==
    ASSUME OutcomeStored, NEW t \in Tasks, status'[t] = status[t],
           row'[t] \in {row[t], status[t]}
    PROVE  Stored(t)
BY DEF OutcomeStored, Stored

(* Status and row are set together.                                        *)
LEMMA SetStored ==
    ASSUME TypeOK, OutcomeStored, NEW u \in Tasks, NEW s, SetStatus(u, s), NEW t \in Tasks
    PROVE  /\ row'[t] \in Outcomes => status'[t] = row'[t]
           /\ t # u => Stored(t)
           /\ row'[u] \in {row[u], s}
<1>1. t # u => status'[t] = status[t] /\ row'[t] = row[t]
  BY DEF SetStatus, TypeOK
<1>2. /\ status'[u] = AfterSetStatus(status[u], s)
      /\ row'[u] = IF Accepts(status[u], s) THEN s ELSE row[u]
  BY DEF SetStatus, TypeOK
<1>3. t # u => Stored(t)
  BY <1>1, SavedStored
<1>4. row'[u] \in Outcomes => status'[u] = row'[u]
  BY <1>2 DEF AfterSetStatus, OutcomeStored
<1> QED
  BY <1>2, <1>3, <1>4 DEF Stored

(* A status that is not an outcome of the task is not overwritten here.      *)
LEMMA SetUnfinished ==
    ASSUME TypeOK, OutcomeStored, NEW u \in Tasks, NEW s, SetStatus(u, s), NEW t \in Tasks,
           ~IsFinished(status[u])
    PROVE  Stored(t)
<1>1. row[u] \notin Outcomes
  BY DEF OutcomeStored, Outcomes, IsFinished, FinishedStatuses
<1> QED
  BY <1>1, SetStored DEF Stored

(* Only the row of the task is stopped.                                    *)
LEMMA RowStopped ==
    ASSUME TypeOK, NEW u \in Tasks, SetRowStatus(u, "stopped")
    PROVE  /\ row'[u] \notin Outcomes
           /\ \A t \in Tasks : status'[t] = status[t] /\ (t # u => row'[t] = row[t])
<1>1. /\ row' = [row EXCEPT ![u] = AfterSetStatus(row[u], "stopped")] /\ UNCHANGED status
      /\ u \in DOMAIN row
  BY DEF SetRowStatus, TypeOK
<1>2. AfterSetStatus(row[u], "stopped") \notin Outcomes
  BY DEF AfterSetStatus, Accepts, Refuses, Outcomes
<1> QED
  BY <1>1, <1>2

LEMMA IntakeStored ==
    ASSUME TypeOK, OutcomeStored, NEW t \in Tasks, NEW u \in Tasks,
           CreateTask(u) \/ CreateTaskFails(u) \/ Register(u) \/ HandleNew(u)
    PROVE  Stored(t)
<1>1. CASE CreateTask(u) \/ CreateTaskFails(u)
  <2>1. row[u] \notin Outcomes
    BY <1>1 DEF CreateTask, CreateTaskFails, Exists, Outcomes
  <2>2. t # u => status'[t] = status[t] /\ row'[t] = row[t]
    BY <1>1 DEF CreateTask, CreateTaskFails, TypeOK
  <2>3. row'[u] = "waiting" \/ (row'[u] = "error" /\ status'[u] = "error")
    BY <1>1 DEF CreateTask, CreateTaskFails, TypeOK
  <2> QED
    BY <2>1, <2>2, <2>3, SavedStored DEF Stored, Outcomes
<1>2. CASE Register(u) \/ HandleNew(u)
  <2>1. status'[t] = status[t] /\ row'[t] \in {row[t], status[t]}
    BY <1>2 DEF Register, HandleNew, saveStatus, taskVars, TypeOK
  <2> QED
    BY <2>1, SavedStored
<1> QED
  BY <1>1, <1>2

LEMMA RunStored ==
    ASSUME TypeOK, OutcomeStored, NEW t \in Tasks, NEW u \in Tasks, RunStep(u)
    PROVE  Stored(t)
<1>1. CASE \E s : SetStatus(u, s) /\ run[u] \in {"sleep", "started", "selected"} /\ run'[u] # run[u]
  <2>1. PICK s : SetStatus(u, s)
    BY <1>1
  <2>2. Stored(u)
    BY <1>1, <2>1, SetStored DEF Stored, Reopens
  <2> QED
    BY <2>1, <2>2, SetStored
<1>2. CASE status' = status /\ (row' = row \/ saveStatus(u))
  <2>1. status'[t] = status[t] /\ row'[t] \in {row[t], status[t]}
    BY <1>2 DEF saveStatus, TypeOK
  <2> QED
    BY <2>1, SavedStored
<1>3. run \in [Tasks -> RunPoints]
  BY DEF TypeOK
<1>4. CASE BeginRun(u) \/ DispatchFails(u) \/ Requeue(u) \/ AssignFails(u)
  <2>1. PICK s : SetStatus(u, s)
    BY <1>4 DEF BeginRun, DispatchFails, JobError, Requeue, AssignFails
  <2>2. run[u] \in {"sleep", "started", "selected"} /\ run'[u] # run[u]
    BY <1>3, <1>4 DEF BeginRun, DispatchFails, JobError, Requeue, AssignFails, Goto
  <2> QED
    BY <1>1, <2>1, <2>2
<1>5. CASE (\E r \in Runners : SelectRunner(u, r)) \/ AssignRunner(u) \/ FinishRun(u)
  <2>1. status' = status /\ (row' = row \/ saveStatus(u))
    BY <1>5 DEF SelectRunner, AssignRunner, FinishRun, SaveEnd
  <2> QED
    BY <1>2, <2>1
<1> QED
  BY <1>4, <1>5 DEF RunStep

LEMMA ApiStored ==
    ASSUME TypeOK, OutcomeStored, NEW t \in Tasks, NEW u \in Tasks,
           RunnerApi(u, Reports) \/ Timer(u)
    PROVE  Stored(t)
<1>1. CASE ReportApplies(u)
  <2>1. Reopens(u)
    BY <1>1 DEF ReportApplies, Reopens, TypeOK
  <2>2. CASE SetStatus(u, report[u])
    BY <2>1, <2>2, SetStored DEF Stored
  <2>3. CASE /\ status' = [status EXCEPT ![u] = AfterSetStatus(@, report[u])]
             /\ row' = [row EXCEPT ![u] = status'[u]]
    <3>1. /\ t # u => status'[t] = status[t] /\ row'[t] = row[t]
          /\ row'[u] = status'[u]
      BY <2>3 DEF TypeOK
    <3> QED
      BY <2>1, <3>1, SavedStored DEF Stored
  <2> QED
    BY <1>1, <2>2, <2>3 DEF ReportApplies
<1>2. CASE PollFails(u)
  <2>1. SetStatus(u, "error") /\ ~IsFinished(status[u])
    BY <1>2 DEF PollFails, IsFinished, FinishedStatuses
  <2> QED
    BY <2>1, SetUnfinished
<1>3. CASE TimerFails(u)
  <2>1. SetStatus(u, "error") /\ Reopens(u)
    BY <1>3 DEF TimerFails, Reopens, TypeOK
  <2> QED
    BY <2>1, SetStored DEF Stored
<1>4. CASE \/ PollDelivers(u) \/ (\E s \in Reports : ReportArrives(u, s))
           \/ (\E r \in Runners : ReportRejected(u, r)) \/ TimerFires(u)
  <2>1. status' = status /\ row' = row
    BY <1>4 DEF PollDelivers, ReportArrives, ReportRejected, TimerFires, poolVars, taskVars
  <2> QED
    BY <2>1, SavedStored
<1> QED
  BY <1>1, <1>2, <1>3, <1>4 DEF RunnerApi, Timer

LEMMA FinalizeStored ==
    ASSUME TypeOK, OutcomeStored, NEW t \in Tasks, NEW u \in Tasks, FinalizeStep(u) \/ Sends(u)
    PROVE  Stored(t)
<1>1. CASE \E c \in Tasks : AutorunChild(u, c)
  BY <1>1, IntakeStored DEF AutorunChild
<1>2. CASE ~\E c \in Tasks : AutorunChild(u, c)
  <2>1. status' = status /\ (row' = row \/ saveStatus(u))
    BY <1>2 DEF FinalizeStep, TryFinalize, FinalizeFinish, SaveEnd, FinalizeAutorun, Sends, SendFinished,
                SendRequeued, FinalizeSend, poolVars, taskVars
  <2>2. status'[t] = status[t] /\ row'[t] \in {row[t], status[t]}
    BY <2>1 DEF saveStatus, TypeOK
  <2> QED
    BY <2>2, SavedStored
<1> QED
  BY <1>1, <1>2

LEMMA ReconcilerStored ==
    ASSUME TypeOK, OutcomeStored, NEW t \in Tasks, NEW u \in Tasks, Reconciler(u)
    PROVE  Stored(t)
<1>1. CASE RequeueTaskRunnerOffline(u)
  <2>1. status[u] \in {"starting", "waiting"} /\ row[u] \notin Outcomes
    BY <1>1 DEF RequeueTaskRunnerOffline, OutcomeStored, Outcomes
  <2>2. /\ t # u => status'[t] = status[t] /\ row'[t] = row[t]
        /\ row'[u] \in {row[u], "waiting"}
    BY <1>1 DEF RequeueTaskRunnerOffline, TypeOK
  <2> QED
    BY <2>1, <2>2, SavedStored DEF Stored, Outcomes
<1>2. CASE FailTaskRunnerLost(u)
  BY <1>2, SetUnfinished DEF FailTaskRunnerLost
<1>3. CASE Decide(u) \/ Keeps(u) \/ ReconcilerSends(u)
  <2>1. status' = status /\ row' = row
    BY <1>3 DEF Decide, Keeps, ReconcilerSends, poolVars, taskVars
  <2> QED
    BY <2>1, SavedStored
<1> QED
  BY <1>1, <1>2, <1>3 DEF Reconciler

(* Stops and answers of users.                                             *)
LEMMA UserStored ==
    ASSUME TypeOK, OutcomeStored, NEW t \in Tasks, NEW u \in Tasks,
           Answer(u) \/ \E force \in BOOLEAN : RemoteStopTask(u, force)
    PROVE  Stored(t)
<1>1. Reopens(u)
  BY DEF Reopens
<1>2. (\E s : SetStatus(u, s)) \/ SetRowStatus(u, "stopped")
  BY DEF Answer, ConfirmTask, RejectTask, RemoteStopTask, StopTask, StopTaskRunner
<1>3. CASE \E s : SetStatus(u, s)
  BY <1>1, <1>3, SetStored DEF Stored
<1>4. CASE SetRowStatus(u, "stopped")
  BY <1>1, <1>4, RowStopped, SavedStored DEF Stored
<1> QED
  BY <1>2, <1>3, <1>4

(* The stop of a template's tasks: only its last loop stops an ended task.   *)
LEMMA TemplateStored ==
    ASSUME TypeOK, OutcomeStored, NEW t \in Tasks, TemplateStop
    PROVE  Stored(t)
<1>1. CASE \E p \in Templates, force \in BOOLEAN : TemplateStopRows(p, force)
  <2>1. status' = status /\ (row'[t] = row[t] \/ (row[t] = "waiting" /\ row'[t] = "stopped"))
    BY <1>1 DEF TemplateStopRows, TypeOK
  <2> QED
    BY <2>1, SavedStored DEF Stored, Outcomes
<1>2. CASE TemplateStopSnapshot
  <2>1. status' = status /\ row' = row
    BY <1>2 DEF TemplateStopSnapshot, taskVars
  <2> QED
    BY <2>1, SavedStored
<1>3. ASSUME NEW u \in Tasks, TemplateStopQueued(u) \/ TemplateStopRunning(u)
      PROVE  Stored(t)
  <2>1. CASE \E s : SetStatus(u, s) /\ ~IsFinished(status[u])
    BY <2>1, SetUnfinished
  <2>2. CASE status' = status /\ row' = row
    BY <2>2, SavedStored
  <2> QED
    BY <1>3, <2>1, <2>2
    DEF TemplateStopQueued, TemplateStopRunning, StopTaskRunner, IsFinished, FinishedStatuses,
        UnfinishedTaskStatuses
<1>4. ASSUME NEW u \in Tasks, TemplateStopRest(u)
      PROVE  Stored(t)
  <2>1. Reopens(u)
    BY <1>4 DEF Reopens, TemplateStopRest
  <2>2. CASE SetStatus(u, "stopped")
    BY <2>1, <2>2, SetStored DEF Stored
  <2>3. CASE SetRowStatus(u, "stopped")
    BY <2>1, <2>3, RowStopped, SavedStored DEF Stored
  <2>4. CASE status' = status /\ row' = row
    BY <2>4, SavedStored
  <2> QED
    BY <1>4, <2>2, <2>3, <2>4 DEF TemplateStopRest
<1> QED
  BY <1>1, <1>2, <1>3, <1>4 DEF TemplateStop

LEMMA StoredStep ==
    ASSUME TypeOK, OutcomeStored, [Next]_vars, NEW t \in Tasks
    PROVE  Stored(t)
<1>1. CASE UNCHANGED vars \/ Tick \/ HandleQueue
  <2>1. status' = status /\ row' = row
    BY <1>1 DEF vars, poolVars, taskVars, Tick, HandleQueue, HandleTick, Snapshot, ScanSkip, ScanRun
  <2> QED
    BY <2>1, SavedStored
<1>2. ASSUME NEW u \in Tasks, AddTask(u) \/ Register(u) \/ HandleNew(u)
      PROVE  Stored(t)
  BY <1>2, IntakeStored DEF AddTask
<1>3. ASSUME NEW u \in Tasks, \/ RunStep(u) \/ Sends(u) \/ FinalizeStep(u)
                              \/ RunnerApi(u, Reports) \/ Timer(u) \/ Reconciler(u)
      PROVE  Stored(t)
  BY <1>3, RunStored, FinalizeStored, ApiStored, ReconcilerStored
<1>4. ASSUME NEW u \in Tasks, Answer(u) \/ \E force \in BOOLEAN : RemoteStopTask(u, force)
      PROVE  Stored(t)
  BY <1>4, UserStored
<1>5. CASE TemplateStop
  BY <1>5, TemplateStored
<1> QED
  BY <1>1, <1>2, <1>3, <1>4, <1>5 DEF Next, Undisturbed

(* An outcome in a task's row, recorded or not, is overwritten only by a     *)
(* report or a timeout that had found the task unfinished, by run() of a     *)
(* task that was put back and dispatched again, and by stops and answers     *)
(* that do not look at the status (SetStatus lets success and error go).     *)
THEOREM OutcomeReopenedHolds == Spec => OutcomeReopened
<1>1. Init => OutcomeStored
  BY DEF Init, PoolInit, OutcomeStored, Outcomes
<1>2. TypeOK /\ OutcomeStored /\ [Next]_vars => OutcomeStored'
  BY StoredStep DEF OutcomeStored, Stored
<1>3. TypeOK /\ OutcomeStored /\ [Next]_vars
        => [\A t \in Tasks : row[t] \in Outcomes /\ row'[t] # row[t] => Reopens(t)]_vars
  BY StoredStep DEF Stored
<1> QED
  BY <1>1, <1>2, <1>3, RemoteTypeCorrect, PTL DEF Spec, OutcomeReopened

-----------------------------------------------------------------------------
(* The way of a task. *)

\* A step leaves what a stage says of u as it is.
SameTask(u) ==
    /\ status'[u] = status[u] /\ row'[u] = row[u] /\ run'[u] = run[u]
    /\ u \in ended' <=> u \in ended
SameStore(u) ==
    /\ InQueue(u)' <=> InQueue(u)
    /\ u \in running' <=> u \in running
    /\ u \in active' <=> u \in active
SameIntake(u) ==
    /\ u \in registering' <=> u \in registering
    /\ loop' = u <=> loop = u
SameJob(u) ==
    /\ runner'[u] = runner[u] /\ requeued'[u] = requeued[u] /\ held'[u] = held[u]
    /\ report'[u] = report[u] /\ finalizers'[u] = finalizers[u] /\ fin'[u] = fin[u]
    /\ finishes'[u] = finishes[u]
Same(u) == SameTask(u) /\ SameStore(u) /\ SameIntake(u) /\ SameJob(u)

\* AddTask may be called for t: by a user, or by the build it follows.
ParentReady(t) ==
    \/ Parent[t] = NoTask
    \/ Parent[t] \in Tasks /\ fin[Parent[t]] = "children"

\* The phase of t stays or makes one move of TaskLifecycle.
Turn(t) ==
    \/ Phase(t)' = Phase(t)
    \/ Phase(t) = "new"   /\ Phase(t)' = "added" /\ ParentReady(t)
    \/ Phase(t) = "added" /\ Phase(t)' = "live"  /\ ~PoolFull
    \/ Phase(t) = "live"  /\ Phase(t)' \in {"added", "done"}

\* What a step of t does, and what a step of no task does.
Effect(t) ==
    /\ Calm'
    /\ \A u \in Tasks : u # t => Same(u)
    /\ Stage(t)'
    /\ t \in ended => t \in ended' /\ row'[t] = row[t]
    /\ Turn(t)
Pause ==
    /\ Calm'
    /\ \A u \in Tasks : Same(u)

(* What stays because the variables stay.                                  *)
LEMMA SameFacts ==
    ASSUME NEW u
    PROVE  /\ UNCHANGED taskVars => SameTask(u)
           /\ UNCHANGED storeVars => SameStore(u)
           /\ UNCHANGED intake => SameIntake(u)
           /\ UNCHANGED remoteVars => SameJob(u)
BY DEF taskVars, storeVars, intake, remoteVars, jobVars, endVars, SameTask, SameStore, SameIntake,
       SameJob, InQueue

(* A task that a step does not touch keeps its stage.                      *)
LEMMA SameStage ==
    ASSUME NEW u, Same(u), Stage(u)
    PROVE  Stage(u)'
<1> USE DEF Same, SameTask, SameStore, SameIntake, SameJob, Unreported, Open, Closed, Fresh, Outside,
        Inside, PassedOn, NoRun, Exists
<1>1. CASE Unadded(u)
  BY <1>1 DEF Unadded, Stage
<1>2. CASE AtIntake(u)
  BY <1>2 DEF AtIntake, Stage
<1>3. CASE AtQueue(u)
  BY <1>3 DEF AtQueue, Stage
<1>4. CASE Dispatched(u)
  BY <1>4 DEF Dispatched, Stage
<1>5. CASE Requeuing(u)
  BY <1>5 DEF Requeuing, Stage
<1>6. CASE Failed(u)
  BY <1>6 DEF Failed, Stage, IsFinished
<1>7. CASE Handed(u)
  BY <1>7 DEF Handed, Stage, IsFinished
<1>8. CASE Ending(u)
  BY <1>8 DEF Ending, Stage, IsFinished
<1>9. CASE Closing(u)
  BY <1>9 DEF Closing, Stage, IsFinished
<1>10. CASE Done(u)
  BY <1>10 DEF Done, Stage, IsFinished
<1> QED
  BY <1>1, <1>2, <1>3, <1>4, <1>5, <1>6, <1>7, <1>8, <1>9, <1>10 DEF Stage

(* How the code can tell the stage of a task.                              *)
LEMMA StageOf ==
    ASSUME TypeOK, NEW t \in Tasks, Stage(t)
    PROVE  /\ ~Exists(t) => Unadded(t)
           /\ t \in registering \/ loop = t => AtIntake(t)
           /\ InQueue(t) => AtQueue(t) \/ Requeuing(t)
           /\ run[t] \in {"sleep", "started", "selected"} => Dispatched(t)
           /\ run[t] \in {"finish", "send"} => Failed(t)
           /\ requeued[t] # 0 => Requeuing(t)
           /\ report[t] # "none" => Handed(t)
           /\ held[t] # {} => Handed(t) \/ Ending(t) \/ Closing(t) \/ Done(t)
           /\ t \in running /\ runner[t] # NoRunner
                => Failed(t) \/ Handed(t) \/ Ending(t) \/ Closing(t)
           /\ finalizers[t] # 0 \/ fin[t] = "locked" => Ending(t)
           /\ fin[t] = "send" => Closing(t)
           /\ fin[t] \in {"autorun", "children"} => Done(t)
           /\ t \in ended => Failed(t) \/ Closing(t) \/ Done(t)
<1> USE DEF Unreported, Open, Closed, Fresh, Outside, Inside, PassedOn, NoRun
<1>1. CASE Unadded(t) \/ AtIntake(t) \/ AtQueue(t)
  BY <1>1 DEF Unadded, AtIntake, AtQueue, Exists
<1>2. CASE Dispatched(t) \/ Requeuing(t) \/ Failed(t)
  BY <1>2 DEF Dispatched, Requeuing, Failed
<1>3. CASE Handed(t) \/ Ending(t) \/ Closing(t) \/ Done(t)
  BY <1>3 DEF Handed, Ending, Closing, Done
<1> QED
  BY <1>1, <1>2, <1>3 DEF Stage

(* The phase that a stage belongs to, before and after a step.             *)
LEMMA StagePhase ==
    ASSUME NEW t
    PROVE  /\ Unadded(t) => Phase(t) = IF Exists(t) THEN "added" ELSE "new"
           /\ AtIntake(t) \/ AtQueue(t) => Phase(t) = "added"
           /\ \/ Dispatched(t) \/ Requeuing(t) \/ Failed(t) \/ Handed(t) \/ Ending(t)
              \/ Closing(t)
              => Phase(t) = "live"
           /\ Done(t) => Phase(t) = "done"
BY DEF Unadded, AtIntake, AtQueue, Dispatched, Requeuing, Failed, Handed, Ending, Closing, Done,
       Fresh, Open, Closed, Outside, Inside, Phase

(* The same of the state after a step.                                     *)
LEMMA StagePhaseNext ==
    ASSUME NEW t
    PROVE  /\ Unadded(t)' => Phase(t)' = IF Exists(t)' THEN "added" ELSE "new"
           /\ AtIntake(t)' \/ AtQueue(t)' => Phase(t)' = "added"
           /\ \/ Dispatched(t)' \/ Requeuing(t)' \/ Failed(t)' \/ Handed(t)' \/ Ending(t)'
              \/ Closing(t)'
              => Phase(t)' = "live"
           /\ Done(t)' => Phase(t)' = "done"
BY DEF Unadded, AtIntake, AtQueue, Dispatched, Requeuing, Failed, Handed, Ending, Closing, Done,
       Fresh, Open, Closed, Outside, Inside, Phase

(* InQueue in terms of the queue's entries, before and after a step.       *)
LEMMA InQueueEntries ==
    \A u : /\ InQueue(u) <=> u \in Entries(queue)
           /\ InQueue(u)' <=> u \in Entries(queue')
BY DEF InQueue, Entries

(* What a step that keeps its task at the end of a phase has to show.      *)
LEMMA EffectOf ==
    ASSUME TypeOK, Orderly, NEW t \in Tasks, NEW from, NEW to,
           Phase(t) = from, Phase(t)' = to, from # "done" /\ t \notin ended,
           Calm', \A u \in Tasks : u # t => Same(u), Stage(t)',
           \/ from = to
           \/ from = "new" /\ to = "added" /\ ParentReady(t)
           \/ from = "added" /\ to = "live" /\ ~PoolFull
           \/ from = "live" /\ to \in {"added", "done"}
    PROVE  Effect(t)
BY DEF Effect, Turn

(* AddTask, called by a user or for a child: the task is on its way, or its *)
(* row is in error.                                                        *)
LEMMA CreateEffect ==
    ASSUME TypeOK, Orderly, NEW t \in Tasks, ParentReady(t),
           CreateTask(t) \/ CreateTaskFails(t), UNCHANGED remoteVars
    PROVE  Effect(t)
<1> USE DEF SameTask, SameIntake, TypeOK
<1>0. Unadded(t) /\ ~Exists(t) /\ status[t] = "waiting"
  BY StageOf DEF Orderly, CreateTask, CreateTaskFails, Exists, Unadded
<1>1. \A u : SameStore(u) /\ SameJob(u)
  BY SameFacts DEF CreateTask, CreateTaskFails
<1>2. \A u \in Tasks : u # t => Same(u)
  <2>1. \A u \in Tasks : u # t => SameTask(u)
    BY SMTT(20) DEF CreateTask, CreateTaskFails
  <2>2. \A u \in Tasks : u # t => SameIntake(u)
    BY SMTT(20) DEF CreateTask, CreateTaskFails, intake
  <2> QED
    BY <1>1, <2>1, <2>2 DEF Same
<1>3. Calm'
  BY DEF CreateTask, CreateTaskFails, Orderly, Calm, storeVars, remoteVars, endVars
<1>4. SameStore(t) /\ SameJob(t) /\ loop' = loop /\ run'[t] = run[t] /\ ended' = ended
  BY <1>1 DEF CreateTask, CreateTaskFails, intake
<1>5. Outside(t)' /\ NoRun(t)' /\ Fresh(t)'
  BY <1>0, <1>4 DEF Unadded, Outside, NoRun, Fresh, Unreported, Open, SameStore, SameJob
<1>6. CASE CreateTask(t)
  <2>1. Exists(t)' /\ status'[t] = "waiting" /\ t \in registering' /\ loop' # t
    BY <1>0, <1>6 DEF CreateTask, Exists, Unadded, PassedOn
  <2>2. AtIntake(t)'
    BY <1>5, <2>1 DEF AtIntake
  <2> QED
    BY <1>0, <1>2, <1>3, <2>2, StagePhase, StagePhaseNext
    DEF Effect, Stage, Turn, Unadded, Fresh, Open
<1>7. CASE CreateTaskFails(t)
  <2>1. row'[t] = "error" /\ PassedOn(t)'
    BY <1>0, <1>7 DEF CreateTaskFails, Unadded, PassedOn, intake
  <2>2. Unadded(t)' /\ Exists(t)'
    BY <1>5, <2>1 DEF Unadded, Exists
  <2> QED
    BY <1>0, <1>2, <1>3, <2>2, StagePhase, StagePhaseNext
    DEF Effect, Stage, Turn, Unadded, Fresh, Open
<1> QED
  BY <1>6, <1>7

(* Run receives a task, and hands it to handleQueue.                       *)
LEMMA RegisterEffect ==
    ASSUME TypeOK, Orderly, NEW t \in Tasks, Register(t) \/ HandleNew(t), UNCHANGED remoteVars
    PROVE  Effect(t)
<1> USE PoolAssumption DEF SameTask, SameIntake, TypeOK
<1>0. AtIntake(t) /\ status[t] = "waiting"
  BY StageOf DEF Orderly, Register, HandleNew, AtIntake
<1>1. \A u : SameJob(u)
  BY SameFacts
<1>2. CASE Register(t)
  <2>1. \A u : SameStore(u)
    BY <1>2, SameFacts DEF Register
  <2>2. \A u \in Tasks : u # t => Same(u)
    BY <1>1, <1>2, <2>1 DEF Register, saveStatus, Same
  <2>3. Calm'
    BY <1>2 DEF Register, Orderly, Calm, storeVars, remoteVars, endVars
  <2>4. /\ SameStore(t) /\ SameJob(t) /\ loop' = t /\ t \notin registering'
        /\ row'[t] = "waiting" /\ UNCHANGED <<status, run, ended>>
    BY <1>0, <1>1, <1>2, <2>1 DEF Register, saveStatus
  <2>5. AtIntake(t)'
    BY <1>0, <2>4
    DEF AtIntake, Outside, NoRun, Fresh, Unreported, Open, Exists, SameStore, SameJob
  <2>6. Phase(t) = "added" /\ Phase(t)' = "added" /\ t \notin ended
    BY <1>0, <2>5, StagePhase, StagePhaseNext DEF AtIntake, Fresh, Open
  <2> QED
    BY <2>2, <2>3, <2>5, <2>6, EffectOf DEF Stage
<1>3. CASE HandleNew(t)
  <2>0. Distinct(queue) /\ t \notin Entries(queue)
    BY <1>0, InQueueEntries DEF Orderly, Calm, AtIntake, Outside
  <2>1. Distinct(queue') /\ Entries(queue') = Entries(queue) \cup {t}
    BY <1>3, <2>0, AppendQueue DEF HandleNew
  <2>2. \A u : InQueue(u)' <=> InQueue(u) \/ u = t
    BY <2>1, InQueueEntries
  <2>3. \A u \in Tasks : u # t => Same(u)
    BY <1>1, <1>3, <2>2 DEF HandleNew, taskVars, SameStore, Same
  <2>4. Calm'
    BY <1>3, <2>1 DEF HandleNew, Orderly, Calm, taskVars, remoteVars, endVars
  <2>5. /\ SameJob(t) /\ loop' # t /\ InQueue(t)'
        /\ UNCHANGED <<registering, running, active, status, row, run, ended>>
    BY <1>1, <1>3, <2>2 DEF HandleNew, taskVars
  <2>6. AtQueue(t)'
    BY <1>0, <1>3, <2>5
    DEF HandleNew, AtIntake, AtQueue, Outside, PassedOn, NoRun, Fresh, Unreported, Open, Exists,
        SameJob
  <2> QED
    BY <1>0, <2>3, <2>4, <2>6, StagePhase, StagePhaseNext
    DEF Effect, Stage, Turn, AtIntake, Fresh, Open
<1> QED
  BY <1>2, <1>3

(* The ticks, the snapshot and an entry that is passed over touch no task:  *)
(* no queued task has failed, so that none is dropped from the queue.      *)
LEMMA PauseEffect ==
    ASSUME TypeOK, Orderly, Tick \/ HandleTick \/ Snapshot \/ ScanSkip, UNCHANGED remoteVars
    PROVE  Pause
<1> USE PoolAssumption DEF TypeOK
<1>1. \A u : SameJob(u) /\ SameTask(u)
  BY SameFacts DEF Tick, HandleTick, Snapshot, ScanSkip
<1>2. \A u \in Tasks : SameIntake(u)
  BY DEF Tick, HandleTick, Snapshot, ScanSkip, intake, SameIntake
<1>3. Distinct(queue') /\ UNCHANGED <<running, active>> /\ \A u : InQueue(u)' <=> InQueue(u)
  <2>1. CASE UNCHANGED queue
    BY <2>1 DEF Tick, HandleTick, Snapshot, ScanSkip, storeVars, InQueue, Orderly, Calm
  <2>2. CASE ScanSkip /\ Dequeue(Head(todo)) /\ status[Head(todo)] = "error"
    <3>1. Head(todo) \in Tasks
      BY <2>2 DEF ScanSkip
    <3>2. ~InQueue(Head(todo))
      BY <2>2, <3>1, StageOf DEF Orderly, AtQueue, Requeuing
    <3>3. Distinct(queue') /\ Entries(queue') = Entries(queue) \ {Head(todo)}
      BY <2>2, RemoveQueue DEF Dequeue, Orderly, Calm
    <3>4. \A u : InQueue(u)' <=> InQueue(u)
      BY <3>2, <3>3, InQueueEntries
    <3> QED
      BY <2>2, <3>3, <3>4 DEF ScanSkip
  <2> QED
    BY <2>1, <2>2 DEF Tick, HandleTick, Snapshot, ScanSkip, storeVars
<1>4. Calm'
  BY <1>3 DEF Tick, HandleTick, Snapshot, ScanSkip, taskVars, remoteVars, endVars, Orderly, Calm
<1> QED
  BY <1>1, <1>2, <1>3, <1>4 DEF Pause, Same, SameStore

(* The claim: a task between its requeue and the event of it is still among *)
(* the active tasks of its template, so that blocks() refuses it.          *)
LEMMA ClaimEffect ==
    ASSUME AllowParallelTasks = {}, TypeOK, Orderly, ScanRun, UNCHANGED remoteVars
    PROVE  Effect(Head(todo)) /\ Head(todo) \in Tasks
<1> USE PoolAssumption DEF TypeOK
<1>0. Head(todo) \in Tasks
  BY DEF ScanRun
<1>1. PICK t \in Tasks :
         /\ t = Head(todo) /\ InQueue(t) /\ ~TemplateBusy(t) /\ ~PoolFull
         /\ Dequeue(t) /\ onTaskRun(t) /\ run' = [run EXCEPT ![t] = "sleep"]
         /\ UNCHANGED <<status, row, ended, killed, intake>>
  BY <1>0 DEF ScanRun, Blocks
<1>2. AtQueue(t)
  <2>1. SUFFICES ASSUME Requeuing(t) PROVE FALSE
    BY <1>1, StageOf DEF Orderly
  <2>2. t \in active /\ status[t] = "waiting"
    BY <2>1 DEF Requeuing, Inside
  <2> QED
    BY <1>1, <2>2 DEF TemplateBusy, ActiveOf, IsFinished, FinishedStatuses
<1>3. Distinct(queue') /\ Entries(queue') = Entries(queue) \ {t}
  BY <1>1, RemoveQueue DEF Dequeue, Orderly, Calm
<1>4. \A u : InQueue(u)' <=> InQueue(u) /\ u # t
  BY <1>3, InQueueEntries
<1>5. \A u : SameJob(u) /\ SameIntake(u)
  BY <1>1, SameFacts
<1>6. \A u \in Tasks : u # t => Same(u)
  BY <1>1, <1>4, <1>5 DEF onTaskRun, Same, SameTask, SameStore
<1>7. Calm'
  BY <1>1, <1>3 DEF Orderly, Calm, remoteVars, endVars
<1>8. /\ ~InQueue(t)' /\ t \in running' /\ t \in active' /\ run'[t] = "sleep"
      /\ SameJob(t) /\ SameIntake(t) /\ UNCHANGED <<status, row, ended>>
  BY <1>1, <1>4, <1>5 DEF onTaskRun
<1>9. Dispatched(t)'
  BY <1>2, <1>8 DEF AtQueue, Dispatched, Inside, PassedOn, NoRun, Fresh, Unreported, Open, Exists,
     SameJob, SameIntake
<1>10. Phase(t) = "added" /\ Phase(t)' = "live" /\ t \notin ended
  BY <1>2, <1>9, StagePhase, StagePhaseNext DEF AtQueue, Fresh, Open
<1> QED
  BY <1>1, <1>6, <1>7, <1>9, <1>10, EffectOf DEF Stage

(* What every step of run() before the event leaves alone.                 *)
LEMMA RunLeaves ==
    ASSUME TypeOK, Orderly, NEW t \in Tasks, RunStep(t)
    PROVE  /\ \A u : SameIntake(u)
           /\ UNCHANGED <<running, active>> /\ killed' = {} /\ recon' = NoDecision
           /\ \A u \in Tasks : u # t => SameTask(u) /\ SameJob(u)
           /\ held' = held /\ report' = report /\ finalizers' = finalizers /\ fin' = fin
           /\ queue' = queue \/ Requeue(t)
<1> USE DEF TypeOK, SameTask, SameJob, SameIntake, Orderly, Calm, others, storeVars, intake,
        remoteVars, jobVars, endVars, SetStatus, saveStatus, SaveEnd, Goto
<1>1. CASE (BeginRun(t) /\ UNCHANGED remoteVars) \/ DispatchFails(t)
  BY SMTT(20), <1>1 DEF BeginRun, DispatchFails, JobError
<1>2. CASE \E r \in Runners : SelectRunner(t, r)
  BY <1>2 DEF SelectRunner
<1>3. CASE Requeue(t)
  BY <1>3 DEF Requeue
<1>4. CASE AssignFails(t)
  BY <1>4 DEF AssignFails, JobError
<1>5. CASE AssignRunner(t)
  BY <1>5 DEF AssignRunner
<1>6. CASE /\ FinishRun(t) /\ CountFinish(t)
           /\ UNCHANGED <<jobVars, held, report, timer, finalizers, fin, recon>>
  BY SMTT(20), <1>6 DEF FinishRun, CountFinish
<1> QED
  BY <1>1, <1>2, <1>3, <1>4, <1>5, <1>6 DEF RunStep

(* run(): to the hand-off, back to the queue, or to a failure that run()    *)
(* itself completes.                                                       *)
LEMMA RunEffect ==
    ASSUME TypeOK, Orderly, NEW t \in Tasks, RunStep(t)
    PROVE  Effect(t)
<1> USE DEF TypeOK, Inside, PassedOn, NoRun, Fresh, Unreported, Open, Exists
<1>0. "none" \notin Statuses /\ status[t] \in Statuses
  BY DEF Statuses, UnfinishedTaskStatuses, FinishedStatuses
<1>1. SameIntake(t) /\ UNCHANGED <<running, active, held, report, finalizers, fin>>
  BY RunLeaves
<1>2. Dispatched(t) \/ Failed(t)
  BY StageOf DEF Orderly, RunStep, BeginRun, DispatchFails, SelectRunner, Requeue, AssignFails,
     AssignRunner, JobError, FinishRun, Goto
<1>3. Phase(t) = "live"
  BY <1>2, StagePhase
<1>4. CASE Requeue(t)
  <2>0. Dispatched(t) /\ status[t] = "starting"
    BY <1>4, StageOf DEF Orderly, Requeue, Goto, Dispatched
  <2>1. Distinct(queue) /\ t \notin Entries(queue)
    BY <2>0, InQueueEntries DEF Orderly, Calm, Dispatched
  <2>2. Distinct(queue') /\ Entries(queue') = Entries(queue) \cup {t}
    BY <1>4, <2>1, AppendQueue DEF Requeue
  <2>3. \A u : InQueue(u)' <=> InQueue(u) \/ u = t
    BY <2>2, InQueueEntries
  <2>4. \A u \in Tasks : u # t => Same(u)
    BY <2>3, RunLeaves DEF Same, SameStore
  <2>5. /\ run'[t] = "none" /\ status'[t] = "waiting" /\ row'[t] # "none"
        /\ requeued'[t] = 1 /\ UNCHANGED <<ended, runner, finishes>>
    BY <1>4, <2>0
    DEF Requeue, Goto, SetStatus, AfterSetStatus, Accepts, Refuses, Dispatched, endVars
  <2>6. Requeuing(t)'
    BY <1>1, <2>0, <2>3, <2>5 DEF Dispatched, Requeuing, SameIntake
  <2> QED
    BY <1>3, <2>0, <2>2, <2>4, <2>6, RunLeaves, StagePhaseNext
    DEF Effect, Calm, Stage, Turn, Dispatched
<1>5. CASE queue' = queue
  <2>1. \A u : SameStore(u)
    BY <1>1, <1>5 DEF SameStore, InQueue
  <2>2. \A u \in Tasks : u # t => Same(u)
    BY <2>1, RunLeaves DEF Same
  <2>3. Calm'
    BY <1>5, RunLeaves DEF Calm, Orderly
  <2>4. Dispatched(t)' \/ Failed(t)' \/ Handed(t)'
    <3>1. CASE BeginRun(t) /\ UNCHANGED remoteVars
      <4>0. Dispatched(t) /\ status[t] = "waiting"
        BY <3>1, StageOf DEF Orderly, BeginRun, Goto, Dispatched
      <4>1. /\ run'[t] = "started" /\ status'[t] = "starting" /\ row'[t] # "none"
            /\ UNCHANGED <<ended, runner, requeued, finishes>>
        BY <3>1, <4>0 DEF BeginRun, Goto, SetStatus, AfterSetStatus, Accepts, Refuses, remoteVars,
           jobVars, endVars
      <4> QED
        BY <1>1, <2>1, <4>0, <4>1 DEF Dispatched, SameStore, SameIntake
    <3>2. ASSUME NEW r \in Runners, SelectRunner(t, r)
          PROVE  Dispatched(t)'
      <4>0. Dispatched(t) /\ status[t] = "starting"
        BY <3>2, StageOf DEF Orderly, SelectRunner, Goto, Dispatched
      <4>1. run'[t] = "selected" /\ UNCHANGED <<status, row, ended, runner, requeued, finishes>>
        BY <3>2 DEF SelectRunner, Goto, others, endVars
      <4> QED
        BY <1>1, <2>1, <4>0, <4>1 DEF Dispatched, SameStore, SameIntake
    <3>3. CASE DispatchFails(t) \/ AssignFails(t)
      <4>0. Dispatched(t) /\ status[t] = "starting"
        BY <3>3, StageOf DEF Orderly, DispatchFails, AssignFails, JobError, Goto, Dispatched
      <4>1. /\ run'[t] = "finish" /\ status'[t] = "error" /\ row'[t] # "none"
            /\ UNCHANGED <<ended, requeued, finishes>>
        BY <3>3, <4>0 DEF DispatchFails, AssignFails, JobError, Goto, SetStatus, AfterSetStatus,
           Accepts, Refuses, remoteVars, jobVars, endVars, Orderly, Calm
      <4> QED
        BY <1>1, <2>1, <4>0, <4>1
        DEF Dispatched, Failed, IsFinished, FinishedStatuses, SameStore, SameIntake
    <3>4. CASE AssignRunner(t)
      <4>0. Dispatched(t) /\ status[t] = "starting"
        BY <3>4, StageOf DEF Orderly, AssignRunner, Goto, Dispatched
      <4>1. /\ run'[t] = "none" /\ row'[t] # "none"
            /\ UNCHANGED <<status, ended, requeued, finishes>>
        BY <1>0, <3>4 DEF AssignRunner, Goto, saveStatus, others
      <4> QED
        BY <1>1, <2>1, <4>0, <4>1
        DEF Dispatched, Handed, IsFinished, FinishedStatuses, SameStore, SameIntake
    <3>5. CASE /\ FinishRun(t) /\ CountFinish(t)
               /\ UNCHANGED <<jobVars, held, report, timer, finalizers, fin, recon>>
      <4>0. Failed(t) /\ Open(t)
        BY <3>5, StageOf DEF Orderly, FinishRun, Goto, Failed
      <4>1. /\ run'[t] = "send" /\ row'[t] = status[t] /\ t \in ended' /\ finishes'[t] = 1
            /\ UNCHANGED <<status, requeued>>
        BY <3>5, <4>0 DEF FinishRun, SaveEnd, saveStatus, Goto, CountFinish, jobVars
      <4> QED
        BY <1>0, <1>1, <2>1, <4>0, <4>1 DEF Failed, Closed, IsFinished, SameStore, SameIntake
    <3> HIDE DEF TypeOK, Inside, PassedOn, NoRun, Fresh, Unreported, Open, Exists
    <3>6. CASE Requeue(t)
      <4>1. Len(queue') = Len(queue) + 1 /\ Len(queue) \in Nat
        BY <3>6 DEF Requeue, TypeOK
      <4> QED
        BY <1>5, <4>1
    <3> QED
      BY <3>1, <3>2, <3>3, <3>4, <3>5, <3>6 DEF RunStep
  <2>5. t \notin ended
    <3>1. run[t] # "send"
      BY DEF RunStep, BeginRun, DispatchFails, SelectRunner, Requeue, AssignFails, AssignRunner,
         JobError, FinishRun, Goto
    <3> QED
      BY <1>2, <3>1 DEF Dispatched, Failed
  <2> QED
    BY <1>3, <2>2, <2>3, <2>4, <2>5, StagePhaseNext DEF Effect, Stage, Turn
<1> QED
  BY <1>4, <1>5, RunLeaves

(* The events of a requeue, of a failed run and of a finalized task.       *)
LEMMA SendsEffect ==
    ASSUME TypeOK, Orderly, NEW t \in Tasks, Sends(t)
    PROVE  Effect(t)
<1> USE DEF TypeOK
<1>0. \A u : SameIntake(u)
  BY SameFacts DEF Sends, SendFinished, SendRequeued, FinalizeSend
<1>1. /\ running' = running \ {t} /\ active' = active \ {t}
      /\ UNCHANGED <<queue, status, row, ended, killed, held, report, finalizers, recon,
                     runner, finishes>>
  BY DEF Sends, SendFinished, SendRequeued, FinalizeSend, ReceiveFinished, ReceiveRequeued,
     onTaskStop, taskVars, remoteVars, jobVars, endVars
<1>2. Calm' /\ \A u : InQueue(u)' <=> InQueue(u)
  BY <1>1 DEF Orderly, Calm, InQueue
<1>3. \A u \in Tasks : u # t => Same(u)
  <2>1. \A u \in Tasks : u # t => run'[u] = run[u] /\ requeued'[u] = requeued[u] /\ fin'[u] = fin[u]
    BY DEF Sends, SendFinished, SendRequeued, FinalizeSend, FinGoto, Goto, taskVars, remoteVars,
       jobVars, endVars
  <2> QED
    BY <1>0, <1>1, <1>2, <2>1 DEF Same, SameTask, SameStore, SameJob
<1>4. CASE SendFinished(t) /\ UNCHANGED remoteVars
  <2>0. Failed(t) /\ Closed(t)
    BY <1>4, StageOf DEF Orderly, SendFinished, Goto, Failed
  <2>1. run'[t] = "none" /\ UNCHANGED <<requeued, fin>>
    BY <1>4 DEF SendFinished, Goto, remoteVars, jobVars, endVars
  <2>2. Done(t)'
    BY <1>0, <1>1, <1>2, <2>0, <2>1
    DEF Failed, Done, Inside, Outside, Exists, PassedOn, NoRun, Closed, Unreported, IsFinished,
        SameIntake
  <2>3. Phase(t) = "live" /\ Phase(t)' = "done"
    BY <2>0, <2>2, StagePhase, StagePhaseNext
  <2> QED
    BY <1>1, <1>2, <1>3, <2>2, <2>3 DEF Effect, Stage, Turn
<1>5. CASE FinalizeSend(t)
  <2>0. Closing(t)
    BY <1>5, StageOf DEF Orderly, FinalizeSend, FinGoto
  <2>1. fin'[t] = "autorun" /\ UNCHANGED <<run, requeued>>
    BY <1>5 DEF FinalizeSend, FinGoto, taskVars, jobVars
  <2>2. Done(t)'
    BY <1>0, <1>1, <1>2, <2>0, <2>1
    DEF Closing, Done, Inside, Outside, Exists, PassedOn, NoRun, Closed, IsFinished, SameIntake
  <2>3. Phase(t) = "live" /\ Phase(t)' = "done"
    BY <2>0, <2>2, StagePhase, StagePhaseNext
  <2> QED
    BY <1>1, <1>2, <1>3, <2>2, <2>3 DEF Effect, Stage, Turn
<1>6. CASE SendRequeued(t)
  <2>0. Requeuing(t)
    BY <1>6, StageOf DEF Orderly, SendRequeued
  <2>1. requeued'[t] = 0 /\ UNCHANGED <<run, fin>>
    BY <1>6, <2>0 DEF SendRequeued, taskVars, endVars, Requeuing
  <2>2. AtQueue(t)'
    BY <1>0, <1>1, <1>2, <2>0, <2>1
    DEF Requeuing, AtQueue, Inside, Exists, PassedOn, NoRun, Fresh, Unreported, Open, SameIntake
  <2>3. Phase(t) = "live" /\ Phase(t)' = "added" /\ t \notin ended
    BY <2>0, <2>2, StagePhase, StagePhaseNext DEF Requeuing, Fresh, Open
  <2> QED
    BY <1>2, <1>3, <2>2, <2>3, EffectOf DEF Stage
<1> QED
  BY <1>4, <1>5, <1>6 DEF Sends

(* Steps about a task that is in no queue of the pool: they leave the store *)
(* and the intake alone.                                                   *)
LEMMA AsideEffect ==
    ASSUME TypeOK, Orderly, NEW t \in Tasks,
           UNCHANGED <<run, storeVars, intake, killed, recon, jobVars>>,
           \A u \in Tasks : u # t =>
              /\ status'[u] = status[u] /\ row'[u] = row[u] /\ (u \in ended' <=> u \in ended)
              /\ held'[u] = held[u] /\ report'[u] = report[u] /\ finalizers'[u] = finalizers[u]
              /\ fin'[u] = fin[u] /\ finishes'[u] = finishes[u],
           t \in ended => t \in ended' /\ row'[t] = row[t],
           \/ Handed(t) /\ (Handed(t)' \/ Ending(t)')
           \/ Ending(t) /\ (Ending(t)' \/ Closing(t)')
           \/ Closing(t) /\ Closing(t)'
           \/ Done(t) /\ Done(t)'
    PROVE  Effect(t)
<1>1. Calm'
  BY DEF Orderly, Calm, storeVars
<1>2. \A u \in Tasks : u # t => Same(u)
  <2>1. \A u : SameStore(u) /\ SameIntake(u)
    BY SameFacts
  <2>2. UNCHANGED <<run, runner, requeued>>
    BY DEF jobVars
  <2> QED
    BY <2>1, <2>2 DEF Same, SameTask, SameJob
<1>3. Phase(t)' = Phase(t)
  BY StagePhase, StagePhaseNext
<1> QED
  BY <1>1, <1>2, <1>3 DEF Effect, Stage, Turn

(* The runner API.                                                         *)
LEMMA RunnerApiEffect ==
    ASSUME TypeOK, Orderly, NEW t \in Tasks, RunnerApi(t, Reports)
    PROVE  Effect(t)
<1> USE DEF TypeOK, Inside, PassedOn, NoRun, Open, Exists
<1>1. UNCHANGED <<run, storeVars, intake, ended, killed, recon, jobVars, fin, finishes>>
  BY DEF RunnerApi, PollDelivers, PollFails, ReportApplies, ReportArrives, ReportRejected, poolVars,
     taskVars, others
<1>2. InQueue(t)' <=> InQueue(t)
  BY <1>1 DEF InQueue, storeVars
<1>3. UNCHANGED <<run, running, active, registering, loop, runner, requeued>>
  BY <1>1 DEF storeVars, intake, jobVars
<1>4. CASE PollDelivers(t) \/ \E s \in Reports : ReportArrives(t, s)
  <2>0. Handed(t)
    BY <1>4, StageOf DEF Orderly, PollDelivers, ReportArrives, Failed, Ending, Closing, Done, Closed,
       IsFinished, FinishedStatuses
  <2>1. UNCHANGED <<status, row, finalizers>>
    BY <1>4 DEF PollDelivers, ReportArrives, poolVars, taskVars
  <2>2. Handed(t)'
    BY <1>1, <1>2, <1>3, <2>0, <2>1 DEF Handed, IsFinished
  <2>3. \A u \in Tasks : u # t => held'[u] = held[u] /\ report'[u] = report[u]
    BY <1>4 DEF PollDelivers, ReportArrives
  <2> QED
    BY <1>1, <2>0, <2>1, <2>2, <2>3, AsideEffect
<1>5. CASE \E r \in Runners : ReportRejected(t, r)
  <2>0. held[t] # {} /\ \A u \in Tasks : u # t => held'[u] = held[u]
    BY <1>5 DEF ReportRejected
  <2>1. UNCHANGED <<status, row, finalizers, report>>
    BY <1>5 DEF ReportRejected, poolVars, taskVars
  <2>2. Handed(t) => Handed(t)'
    BY <1>1, <1>2, <1>3, <2>1 DEF Handed, IsFinished
  <2>3. Ending(t) => Ending(t)'
    BY <1>1, <1>2, <1>3, <2>1 DEF Ending, IsFinished
  <2>4. Closing(t) => Closing(t)'
    BY <1>1, <1>2, <1>3, <2>1 DEF Closing, Closed, IsFinished
  <2>5. Done(t) => Done(t)'
    BY <1>1, <1>2, <1>3, <2>1 DEF Done, Outside, Closed, IsFinished
  <2> QED
    BY <1>1, <2>0, <2>1, <2>2, <2>3, <2>4, <2>5, StageOf, AsideEffect DEF Orderly
<1>6. CASE PollFails(t) \/ ReportApplies(t)
  <2>0. Handed(t)
    BY <1>6, StageOf DEF Orderly, PollFails, ReportApplies, Failed, Ending, Closing, Closed,
       IsFinished, FinishedStatuses
  <2>1. "none" \notin Statuses /\ "error" \in Statuses
    BY DEF Statuses, UnfinishedTaskStatuses, FinishedStatuses
  <2>2. report[t] # "none" => report[t] \in Statuses
    BY RemoteAssumption
  <2>3. \A u \in Tasks : u # t =>
           /\ status'[u] = status[u] /\ row'[u] = row[u] /\ held'[u] = held[u]
           /\ report'[u] = report[u] /\ finalizers'[u] = finalizers[u]
    BY <1>6 DEF PollFails, ReportApplies, SetStatus, Finalizing
  <2>4. status'[t] \in Statuses /\ row'[t] # "none" /\ report'[t] = "none"
    <3>1. CASE PollFails(t)
      BY <2>0, <2>1, <3>1 DEF PollFails, SetStatus, AfterSetStatus, Handed
    <3>2. CASE ReportApplies(t)
      <4>1. status'[t] \in Statuses
        BY <2>2, <3>2 DEF ReportApplies, SetStatus, AfterSetStatus
      <4>2. row'[t] \in {row[t], report[t], status'[t]}
        BY <3>2 DEF ReportApplies, SetStatus
      <4> QED
        BY <2>0, <2>1, <2>2, <3>2, <4>1, <4>2 DEF ReportApplies, Handed
    <3> QED
      BY <1>6, <3>1, <3>2
  <2>5. finalizers'[t] = IF IsFinished(status'[t]) THEN 1 ELSE 0
    <3>1. CASE PollFails(t)
      <4>1. status'[t] = "error"
        BY <2>0, <3>1
        DEF PollFails, SetStatus, AfterSetStatus, Accepts, Refuses, Handed, IsFinished,
            FinishedStatuses
      <4>2. finalizers'[t] = 1
        BY <2>0, <3>1 DEF PollFails, Finalizing, Handed
      <4> QED
        BY <4>1, <4>2 DEF IsFinished, FinishedStatuses
    <3>2. CASE ReportApplies(t)
      BY <2>0, <3>2 DEF ReportApplies, Finalizing, Handed
    <3> QED
      BY <1>6, <3>1, <3>2
  <2>6. Handed(t)' \/ Ending(t)'
    BY <1>1, <1>2, <1>3, <2>0, <2>4, <2>5 DEF Handed, Ending
  <2> QED
    BY <1>1, <2>0, <2>3, <2>6, AsideEffect DEF Handed
<1> QED
  BY <1>4, <1>5, <1>6 DEF RunnerApi

(* FinalizeRemoteTask, called once for a task.                             *)
LEMMA FinalizeEffect ==
    ASSUME TypeOK, Orderly, NEW t \in Tasks, FinalizeStep(t)
    PROVE  Effect(t) \/ \E c \in Tasks : Effect(c)
<1> USE DEF TypeOK, Inside, PassedOn, NoRun, Open, Exists
<1>1. CASE TryFinalize(t)
  <2>0. Ending(t) /\ finalizers[t] = 1 /\ fin[t] = "none"
    <3>1. finalizers[t] > 0 /\ Stage(t)
      BY <1>1 DEF TryFinalize, Orderly
    <3>2. Ending(t)
      BY <3>1, StageOf
    <3> QED
      BY <3>1, <3>2 DEF Ending
  <2>1. ~Locked(t)
    BY <2>0 DEF Locked, Orderly, Calm, NoDecision
  <2>2. /\ finalizers'[t] = 0 /\ fin'[t] = "locked"
        /\ \A u \in Tasks : u # t => finalizers'[u] = finalizers[u] /\ fin'[u] = fin[u]
        /\ UNCHANGED <<poolVars, jobVars, held, report, recon, finishes>>
    BY <1>1, <2>0, <2>1 DEF TryFinalize
  <2>3. UNCHANGED <<status, row, ended, killed, run, storeVars, intake>>
    BY <2>2 DEF poolVars, taskVars
  <2>4. Ending(t)'
    BY <2>0, <2>2, <2>3 DEF Ending, IsFinished, InQueue, storeVars, intake, jobVars
  <2> QED
    BY <2>0, <2>2, <2>3, <2>4, AsideEffect
<1>2. CASE FinalizeFinish(t)
  <2>0. Ending(t) /\ fin[t] = "locked"
    BY <1>2, StageOf DEF Orderly, FinalizeFinish, FinGoto
  <2>1. /\ fin'[t] = "send" /\ row'[t] = status[t] /\ finishes'[t] = 1 /\ ended' = ended \cup {t}
        /\ UNCHANGED <<status, killed, run, storeVars, intake, jobVars, held, report, finalizers,
                       recon>>
    BY <1>2, <2>0 DEF FinalizeFinish, FinGoto, SaveEnd, saveStatus, CountFinish, Ending
  <2>2. \A u \in Tasks : u # t =>
           fin'[u] = fin[u] /\ row'[u] = row[u] /\ finishes'[u] = finishes[u]
    BY <1>2 DEF FinalizeFinish, FinGoto, SaveEnd, saveStatus, CountFinish
  <2>3. "none" \notin Statuses /\ status[t] \in Statuses
    BY DEF Statuses, UnfinishedTaskStatuses, FinishedStatuses
  <2>4. Closing(t)'
    BY <2>0, <2>1, <2>3
    DEF Ending, Closing, Closed, IsFinished, InQueue, storeVars, intake, jobVars
  <2>5. t \notin ended
    BY <2>0 DEF Ending
  <2> QED
    BY <2>0, <2>1, <2>2, <2>4, <2>5, AsideEffect
<1>3. ASSUME NEW c \in Tasks, fin[t] = "children", AutorunChild(t, c), UNCHANGED remoteVars
      PROVE  Effect(c)
  <2>1. ParentReady(c)
    BY <1>3 DEF AutorunChild, Children, ParentReady
  <2> QED
    BY <1>3, <2>1, CreateEffect DEF AutorunChild
<1>4. CASE /\ \/ FinGoto(t, "autorun", IF status[t] = "success" THEN "children" ELSE "none")
              \/ FinGoto(t, "children", "none")
           /\ UNCHANGED <<poolVars, jobVars, held, report, timer, finalizers, recon, finishes>>
  <2>0. Done(t)
    BY <1>4, StageOf DEF Orderly, FinGoto
  <2>1. /\ fin'[t] = "none" \/ (fin'[t] = "children" /\ status[t] = "success")
        /\ \A u \in Tasks : u # t => fin'[u] = fin[u]
    <3>1. CASE FinGoto(t, "children", "none")
      BY <3>1 DEF FinGoto
    <3>2. CASE FinGoto(t, "autorun", IF status[t] = "success" THEN "children" ELSE "none")
      BY <3>2 DEF FinGoto
    <3> QED
      BY <1>4, <3>1, <3>2
  <2>2. UNCHANGED <<status, row, ended, killed, run, storeVars, intake>>
    BY <1>4 DEF poolVars, taskVars
  <2>3. Done(t)'
    BY <1>4, <2>0, <2>1, <2>2
    DEF Done, Outside, Closed, IsFinished, InQueue, storeVars, intake, jobVars
  <2> QED
    BY <1>4, <2>0, <2>1, <2>2, <2>3, AsideEffect
<1> QED
  BY <1>1, <1>2, <1>3, <1>4 DEF FinalizeStep, FinalizeAutorun

(* Every step is the step of one task along its way, or of none.           *)
LEMMA StepEffect ==
    ASSUME AllowParallelTasks = {}, TypeOK, Orderly, [Undisturbed(Reports)]_vars
    PROVE  Pause \/ \E t \in Tasks : Effect(t)
<1>1. CASE UNCHANGED vars
  <2>1. UNCHANGED taskVars /\ UNCHANGED storeVars /\ UNCHANGED intake /\ UNCHANGED remoteVars
    BY <1>1 DEF vars, poolVars
  <2>2. Calm'
    BY <2>1 DEF taskVars, storeVars, remoteVars, endVars, Orderly, Calm
  <2> QED
    BY <2>1, <2>2, SameFacts DEF Pause, Same
<1>2. CASE (Tick \/ HandleQueue) /\ UNCHANGED remoteVars
  BY <1>2, PauseEffect, ClaimEffect DEF HandleQueue
<1>3. ASSUME NEW t \in Tasks, AddTask(t) \/ Register(t) \/ HandleNew(t), UNCHANGED remoteVars
      PROVE  Effect(t)
  BY <1>3, CreateEffect, RegisterEffect DEF AddTask, ParentReady
<1>4. ASSUME NEW t \in Tasks,
             RunStep(t) \/ Sends(t) \/ FinalizeStep(t) \/ RunnerApi(t, Reports)
      PROVE  \E u \in Tasks : Effect(u)
  BY <1>4, RunEffect, SendsEffect, FinalizeEffect, RunnerApiEffect
<1> QED
  BY <1>1, <1>2, <1>3, <1>4 DEF Undisturbed

(* The stages are kept.                                                    *)
LEMMA OrderlyStep ==
    ASSUME AllowParallelTasks = {}, TypeOK, Orderly, [Undisturbed(Reports)]_vars
    PROVE  Orderly'
<1>1. CASE Pause
  BY <1>1, SameStage DEF Pause, Orderly
<1>2. ASSUME NEW t \in Tasks, Effect(t)
      PROVE  Orderly'
  BY <1>2, SameStage DEF Effect, Orderly
<1> QED
  BY <1>1, <1>2, StepEffect

(* Undisturbed steps are steps of the specification.                       *)
LEMMA UndisturbedTyped == UndisturbedSpec => []TypeOK
<1>1. TypeOK /\ [Undisturbed(Reports)]_vars => TypeOK'
  BY TypedStep DEF Next
<1> QED
  BY <1>1, TypedInit, PTL DEF UndisturbedSpec

(* A task goes its way, from AddTask over the queue, run() and a runner to  *)
(* its recorded end, and is at one place of it at a time.                  *)
THEOREM RemoteTasksOrderly ==
    ASSUME AllowParallelTasks = {}
    PROVE  UndisturbedSpec => []Orderly
<1>1. Init => Orderly
  <2> SUFFICES ASSUME Init PROVE Orderly
    OBVIOUS
  <2>1. Len(queue) = 0 /\ Calm
    BY DEF Init, PoolInit, Calm, Distinct
  <2>2. ASSUME NEW t \in Tasks PROVE Unadded(t)
    BY <2>1, PoolAssumption
    DEF Init, PoolInit, Unadded, Outside, PassedOn, NoRun, Fresh, Unreported, Open, InQueue
  <2> QED
    BY <2>1, <2>2 DEF Orderly, Stage
<1>2. TypeOK /\ Orderly /\ [Undisturbed(Reports)]_vars => Orderly'
  BY OrderlyStep
<1> QED
  BY <1>1, <1>2, UndisturbedTyped, PTL DEF UndisturbedSpec

(* Read off the stages: a task is tracked while it lives, completed at most *)
(* once and not lost, as long as nobody stops or answers it and neither a   *)
(* timeout nor the reconciler starts a second completion (run(), the runner *)
(* API, FinalizeRemoteTask).                                               *)
THEOREM ExactlyOnceHolds ==
    ASSUME AllowParallelTasks = {}
    PROVE  UndisturbedSpec => []ExactlyOnce
<1>1. TypeOK /\ Orderly => ExactlyOnce
  <2> SUFFICES ASSUME TypeOK, Orderly PROVE ExactlyOnce
    OBVIOUS
  <2>1. ASSUME NEW t \in Tasks
        PROVE  /\ run[t] # "none" => t \in running
               /\ finishes[t] <= 1
               /\ t \notin ended \cup registering /\ Exists(t) /\ ~IsFinished(row[t]) /\ loop # t
                    => InQueue(t) \/ t \in running
    <3> USE DEF Open, Closed, Fresh, Inside, NoRun
    <3>1. CASE Unadded(t) \/ AtIntake(t) \/ AtQueue(t)
      BY <3>1 DEF Unadded, AtIntake, AtQueue, Exists, IsFinished, FinishedStatuses
    <3>2. CASE Dispatched(t) \/ Requeuing(t) \/ Failed(t)
      BY <3>2 DEF Dispatched, Requeuing, Failed
    <3>3. CASE Handed(t) \/ Ending(t) \/ Closing(t) \/ Done(t)
      BY <3>3 DEF Handed, Ending, Closing, Done
    <3> QED
      BY <3>1, <3>2, <3>3 DEF Orderly, Stage
  <2> QED
    BY <2>1 DEF ExactlyOnce, LiveTracked, Live, FinishedOnce, NotLost, Known
<1> QED
  BY <1>1, UndisturbedTyped, RemoteTasksOrderly, PTL

(* A deploy task is added only when the end of its build is recorded as a   *)
(* success and its slot is released (finalizeRemoteTaskLocked).            *)
THEOREM AutorunAfterEndHolds ==
    ASSUME AllowParallelTasks = {}
    PROVE  UndisturbedSpec => []AutorunAfterEnd
<1>1. Init => AutorunAfterEnd
  BY DEF Init, PoolInit, AutorunAfterEnd, Exists
<1>2. TypeOK /\ Orderly /\ AutorunAfterEnd /\ [Undisturbed(Reports)]_vars => AutorunAfterEnd'
  <2> SUFFICES ASSUME TypeOK, Orderly, AutorunAfterEnd, [Undisturbed(Reports)]_vars,
                      NEW c \in Tasks, Exists(c)', Parent[c] # NoTask
               PROVE  Parent[c] \in ended' \ running' /\ row'[Parent[c]] = "success"
    BY DEF AutorunAfterEnd
  <2> DEFINE p == Parent[c]
  <2>0. p \in Tasks
    BY PoolAssumption
  <2>1. p \in ended \ running /\ row[p] = "success"
    <3>1. CASE Exists(c)
      BY <3>1 DEF AutorunAfterEnd
    <3>2. CASE ~Exists(c)
      <4>1. Unadded(c)
        BY <3>2, StageOf DEF Orderly
      <4>2. Phase(c) = "new"
        BY <3>2, <4>1, StagePhase
      <4>3. ~Same(c)
        BY <3>2 DEF Same, SameTask, Exists
      <4>4. Effect(c)
        BY <4>3, StepEffect DEF Pause, Effect
      <4>5. ParentReady(c)
        <5>1. Phase(c)' # "new"
          BY DEF Phase
        <5> QED
          BY <4>2, <4>4, <5>1 DEF Effect, Turn
      <4>6. Done(p) /\ fin[p] = "children"
        BY <2>0, <4>5, StageOf DEF ParentReady, Orderly
      <4> QED
        BY <4>6 DEF Done, Outside, Closed
    <3> QED
      BY <3>1, <3>2
  <2>2. p \in ended' \ running' /\ row'[p] = row[p]
    <3>1. CASE Same(p)
      BY <2>1, <3>1 DEF Same, SameTask, SameStore
    <3>2. CASE Effect(p)
      <4>1. Phase(p) = "done"
        BY <2>1 DEF Phase
      <4>2. Phase(p)' = "done"
        BY <3>2, <4>1 DEF Effect, Turn
      <4> QED
        BY <2>1, <3>2, <4>2 DEF Effect, Phase
    <3> QED
      BY <2>0, <3>1, <3>2, StepEffect DEF Pause, Effect
  <2> QED
    BY <2>1, <2>2
<1> QED
  BY <1>1, <1>2, UndisturbedTyped, RemoteTasksOrderly, PTL DEF UndisturbedSpec

(* Under the same restriction the recorded outcome of a task is final:      *)
(* OutcomeReopened is what is left of that without it.                     *)
THEOREM OutcomeFinalHolds ==
    ASSUME AllowParallelTasks = {}
    PROVE  UndisturbedSpec => OutcomeFinal
<1>1. TypeOK /\ Orderly /\ [Undisturbed(Reports)]_vars
        => [\A t \in ended : row[t] \in {"success", "error"} => row'[t] = row[t]]_vars
  <2> SUFFICES ASSUME TypeOK, Orderly, [Undisturbed(Reports)]_vars, NEW t \in ended
               PROVE  row'[t] = row[t]
    OBVIOUS
  <2>1. t \in Tasks
    BY DEF TypeOK
  <2>2. Same(t) \/ Effect(t)
    BY <2>1, StepEffect DEF Pause, Effect
  <2> QED
    BY <2>2 DEF Same, SameTask, Effect
<1> QED
  BY <1>1, UndisturbedTyped, RemoteTasksOrderly, PTL DEF UndisturbedSpec, OutcomeFinal

-----------------------------------------------------------------------------
\* The phases of all tasks, the state of TaskLifecycle.
Phases == [t \in Tasks |-> Phase(t)]

(* The instance's own name for the cardinality of a set.                   *)
LEMMA SameCardinality == \A S : Lifecycle!Cardinality(S) = Cardinality(S)
BY DEF Lifecycle!Cardinality, Cardinality

(* The step of one task along its way is a step of TaskLifecycle.          *)
LEMMA EffectMoves ==
    ASSUME TypeOK, Orderly, NEW t \in Tasks, Effect(t)
    PROVE  Lifecycle!Next \/ Phases' = Phases
<1>1. \A u \in Tasks : u # t => Phase(u)' = Phase(u)
  BY DEF Effect, Same, SameTask, SameStore, Phase, Exists
<1>2. ASSUME NEW from, NEW to, Phase(t) = from, Phase(t)' = to
      PROVE  Lifecycle!Move(t, from, to)
  BY <1>1, <1>2 DEF Lifecycle!Move
<1>3. CASE Phase(t)' = Phase(t)
  BY <1>1, <1>3 DEF Phases
<1>4. CASE Phase(t) = "new" /\ Phase(t)' = "added" /\ ParentReady(t)
  <2>1. Parent[t] # NoTask => Parent[t] \in Tasks /\ Phase(Parent[t]) = "done"
    BY <1>4, StageOf, StagePhase DEF ParentReady, Orderly
  <2> QED
    BY <1>2, <1>4, <2>1 DEF Lifecycle!Next, Lifecycle!Add
<1>5. CASE Phase(t) = "added" /\ Phase(t)' = "live" /\ ~PoolFull
  <2>1. Lifecycle!Live = running
    BY DEF Lifecycle!Live, Phase, TypeOK
  <2>2. Cardinality(running) \in Nat
    BY PoolAssumption, FS_Subset, FS_CardinalityType DEF TypeOK
  <2>3. MaxParallelTasks = 0 \/ Cardinality(running) < MaxParallelTasks
    BY <1>5, <2>2, PoolAssumption DEF PoolFull
  <2> QED
    BY <1>2, <1>5, <2>1, <2>3, SameCardinality DEF Lifecycle!Next, Lifecycle!Start
<1>6. CASE Phase(t) = "live" /\ Phase(t)' \in {"added", "done"}
  BY <1>2, <1>6 DEF Lifecycle!Next, Lifecycle!Requeue, Lifecycle!Finish
<1> QED
  BY <1>3, <1>4, <1>5, <1>6 DEF Effect, Turn

(* The pool with runners implements TaskLifecycle: a task is added once,    *)
(* after its build, started within the capacity, perhaps put back when all *)
(* runners are busy, and stays finished.                                   *)
THEOREM RemotePoolImplementsLifecycle ==
    ASSUME AllowParallelTasks = {}
    PROVE  UndisturbedSpec => ImplementsLifecycle
<1>1. Init => Lifecycle!Init
  BY DEF Init, PoolInit, Lifecycle!Init, Phase, Exists
<1>2. TypeOK /\ Orderly /\ [Undisturbed(Reports)]_vars => [Lifecycle!Next]_Phases
  <2> SUFFICES ASSUME TypeOK, Orderly, [Undisturbed(Reports)]_vars
               PROVE  Lifecycle!Next \/ Phases' = Phases
    BY DEF Phases
  <2>1. CASE Pause
    BY <2>1 DEF Pause, Same, SameTask, SameStore, Phase, Phases, Exists
  <2> QED
    BY <2>1, EffectMoves, StepEffect
<1> QED
  BY <1>1, <1>2, UndisturbedTyped, RemoteTasksOrderly, PTL
  DEF UndisturbedSpec, ImplementsLifecycle, Lifecycle!Spec, Phases

-----------------------------------------------------------------------------
(* Who holds a task under stops, timeouts and late reports.                *)

(* What the server and users do when the reconciler does not interfere.    *)
Unreconciled ==
    \/ Undisturbed(Reports) \/ TemplateStop
    \/ \E t \in Tasks : \/ Answer(t) \/ Timer(t)
                        \/ \E force \in BOOLEAN : RemoteStopTask(t, force)

-----------------------------------------------------------------------------
(* The places of a task: AddTask or Run, the queue, run() or a runner.      *)
InIntake(t) == t \in registering \/ loop = t
InRun(t)    == run[t] # "none" \/ runner[t] # NoRunner

(* A task is in one of the places at most, and a runner that holds it is    *)
(* the one it is assigned to.                                              *)
Placed(t) ==
    /\ InIntake(t) \/ InQueue(t) \/ InRun(t) => Exists(t)
    /\ ~(t \in registering /\ loop = t)
    /\ InQueue(t) => ~InIntake(t)
    /\ InRun(t) => ~InIntake(t) /\ ~InQueue(t)
    /\ runner[t] # NoRunner => run[t] \in {"none", "finish", "send"}
    /\ held[t] \subseteq {runner[t]}

(* The inductive invariant for SingleHolder.                               *)
OneClaim == Distinct(queue) /\ recon = NoDecision /\ \A t \in Tasks : Placed(t)

\* A step leaves the places of u as they are.
SamePlace(u) ==
    /\ InQueue(u)' <=> InQueue(u)
    /\ u \in registering' <=> u \in registering
    /\ loop' = u <=> loop = u
    /\ run'[u] = run[u] /\ runner'[u] = runner[u] /\ held'[u] = held[u]

(* A row is never deleted: every write gives it a status.                  *)
LEMMA RowsStay ==
    ASSUME TypeOK, Unreconciled
    PROVE  \A u \in Tasks : Exists(u) => Exists(u)'
<1> USE DEF TypeOK, Exists
<1>0. "none" \notin Statuses /\ {"waiting", "starting", "running", "error", "stopped", "stopping",
                                 "confirmed", "rejected"} \subseteq Statuses
  BY DEF Statuses, UnfinishedTaskStatuses, FinishedStatuses
<1>1. ASSUME NEW t \in Tasks, NEW s \in Statuses, SetStatus(t, s) \/ SetRowStatus(t, s)
      PROVE  \A u \in Tasks : Exists(u) => Exists(u)'
  BY <1>0, <1>1 DEF SetStatus, SetRowStatus, AfterSetStatus
<1>2. ASSUME NEW t \in Tasks, saveStatus(t)
      PROVE  \A u \in Tasks : Exists(u) => Exists(u)'
  BY <1>0, <1>2 DEF saveStatus
<1>3. CASE UNCHANGED row
  BY <1>3
<1>4. CASE (Tick \/ HandleQueue) /\ UNCHANGED remoteVars
  BY <1>3, <1>4 DEF Tick, HandleQueue, HandleTick, Snapshot, ScanSkip, ScanRun, taskVars
<1>5. ASSUME NEW t \in Tasks, CreateTask(t) \/ CreateTaskFails(t)
      PROVE  \A u \in Tasks : Exists(u) => Exists(u)'
  BY <1>5 DEF CreateTask, CreateTaskFails
<1>6. ASSUME NEW t \in Tasks, Register(t) \/ HandleNew(t)
      PROVE  \A u \in Tasks : Exists(u) => Exists(u)'
  BY <1>2, <1>3, <1>6 DEF Register, HandleNew, taskVars
<1>7. ASSUME NEW t \in Tasks, RunStep(t)
      PROVE  \A u \in Tasks : Exists(u) => Exists(u)'
  <2>1. \/ \E s \in Statuses : SetStatus(t, s)
        \/ saveStatus(t)
        \/ UNCHANGED row
    BY <1>0, <1>7 DEF RunStep, BeginRun, DispatchFails, JobError, SelectRunner, Requeue, AssignFails,
       AssignRunner, FinishRun, SaveEnd
  <2> QED
    BY <1>1, <1>2, <1>3, <2>1
<1>8. ASSUME NEW t \in Tasks, Sends(t) \/ FinalizeStep(t)
      PROVE  \A u \in Tasks : Exists(u) => Exists(u)'
  <2>1. \/ saveStatus(t) \/ UNCHANGED row
        \/ \E c \in Tasks : CreateTask(c) \/ CreateTaskFails(c)
    BY <1>8 DEF Sends, SendFinished, SendRequeued, FinalizeSend, FinalizeStep, TryFinalize,
       FinalizeFinish, FinalizeAutorun, AutorunChild, SaveEnd, poolVars, taskVars
  <2> QED
    BY <1>2, <1>3, <1>5, <2>1
<1>9. ASSUME NEW t \in Tasks, RunnerApi(t, Reports)
      PROVE  \A u \in Tasks : Exists(u) => Exists(u)'
  <2>1. CASE ReportApplies(t)
    <3>1. report[t] \in Statuses
      BY <2>1, RemoteAssumption DEF ReportApplies
    <3>2. CASE SetStatus(t, report[t])
      BY <1>1, <3>1, <3>2
    <3>3. CASE /\ status' = [status EXCEPT ![t] = AfterSetStatus(@, report[t])]
               /\ row' = [row EXCEPT ![t] = status'[t]]
      BY <1>0, <3>1, <3>3 DEF AfterSetStatus
    <3> QED
      BY <2>1, <3>2, <3>3 DEF ReportApplies
  <2>2. CASE ~ReportApplies(t)
    <3>1. UNCHANGED row \/ SetStatus(t, "error")
      BY <1>9, <2>2 DEF RunnerApi, PollDelivers, PollFails, ReportArrives, ReportRejected, poolVars,
         taskVars
    <3> QED
      BY <1>0, <1>1, <1>3, <3>1
  <2> QED
    BY <2>1, <2>2
<1>10. CASE TemplateStop
  <2>1. CASE \E p \in Templates, force \in BOOLEAN : TemplateStopRows(p, force)
    BY <2>1 DEF TemplateStopRows
  <2>2. CASE ~(\E p \in Templates, force \in BOOLEAN : TemplateStopRows(p, force))
    <3>1. \/ UNCHANGED row
          \/ \E t \in Tasks, s \in {"stopped", "stopping"} : SetStatus(t, s) \/ SetRowStatus(t, s)
      BY <1>10, <2>2 DEF TemplateStop, TemplateStopSnapshot, TemplateStopQueued, TemplateStopRunning,
         TemplateStopRest, StopTaskRunner, taskVars
    <3> QED
      BY <1>0, <1>1, <1>3, <3>1
  <2> QED
    BY <2>1, <2>2
<1>11. ASSUME NEW t \in Tasks,
              Answer(t) \/ Timer(t) \/ \E force \in BOOLEAN : RemoteStopTask(t, force)
       PROVE  \A u \in Tasks : Exists(u) => Exists(u)'
  <2>1. \/ UNCHANGED row
        \/ \E s \in {"stopped", "stopping", "error", "confirmed", "rejected"} :
              SetStatus(t, s) \/ SetRowStatus(t, s)
    BY <1>11 DEF Answer, ConfirmTask, RejectTask, Timer, TimerFires, TimerFails, RemoteStopTask,
       StopTask, StopTaskRunner, poolVars, taskVars
  <2> QED
    BY <1>0, <1>1, <1>3, <2>1
<1> QED
  BY <1>4, <1>5, <1>6, <1>7, <1>8, <1>9, <1>10, <1>11 DEF Unreconciled, Undisturbed, AddTask

(* A task whose places stay keeps its place.                               *)
LEMMA SamePlaced ==
    ASSUME NEW u, SamePlace(u), Exists(u) => Exists(u)', Placed(u)
    PROVE  Placed(u)'
BY DEF SamePlace, Placed, InIntake, InRun

(* Steps that move no task between places: most of them touch statuses,     *)
(* rows and what concerns a report or a finalization.                      *)
LEMMA StayPlaced ==
    ASSUME TypeOK, OneClaim, Unreconciled, recon' = recon,
           UNCHANGED <<queue, registering, run, runner, held>>,
           \A u \in Tasks : loop' = u <=> loop = u
    PROVE  OneClaim'
<1>1. \A u \in Tasks : SamePlace(u)
  BY DEF SamePlace, InQueue
<1> QED
  BY <1>1, RowsStay, SamePlaced DEF OneClaim

(* Steps that move one task.                                               *)
LEMMA MovePlaced ==
    ASSUME TypeOK, OneClaim, Unreconciled, recon' = recon, Distinct(queue'),
           NEW t \in Tasks, Placed(t)',
           \A u \in Tasks : u # t => SamePlace(u)
    PROVE  OneClaim'
BY RowsStay, SamePlaced DEF OneClaim

(* An entry leaves the queue.                                              *)
LEMMA DequeuePlaced ==
    ASSUME TypeOK, OneClaim, Unreconciled, recon' = recon, NEW t \in Tasks, Dequeue(t),
           UNCHANGED <<intake, run, runner, held>>
    PROVE  OneClaim'
<1>1. Distinct(queue') /\ Entries(queue') = Entries(queue) \ {t}
  BY SMTT(20), RemoveQueue DEF Dequeue, OneClaim, TypeOK
<1>2. \A u : InQueue(u)' <=> InQueue(u) /\ u # t
  BY <1>1, InQueueEntries
<1>3. \A u \in Tasks : u # t => SamePlace(u)
  BY <1>2 DEF SamePlace, intake
<1>4. Placed(t)'
  BY <1>2, RowsStay DEF OneClaim, Placed, InIntake, InRun, intake
<1> QED
  BY <1>1, <1>3, <1>4, MovePlaced

(* AddTask: a task without a row is nowhere.                               *)
LEMMA CreatePlaced ==
    ASSUME TypeOK, OneClaim, Unreconciled, NEW t \in Tasks,
           CreateTask(t) \/ CreateTaskFails(t), UNCHANGED remoteVars
    PROVE  OneClaim'
<1> USE DEF storeVars, intake, remoteVars, jobVars, endVars
<1>1. CASE CreateTaskFails(t)
  BY <1>1, StayPlaced DEF CreateTaskFails
<1>2. CASE CreateTask(t)
  <2>1. Placed(t) /\ ~Exists(t) /\ ~InIntake(t) /\ ~InQueue(t) /\ ~InRun(t)
    BY <1>2 DEF CreateTask, OneClaim, Placed
  <2>2. Exists(t)'
    BY <1>2 DEF CreateTask, Exists, TypeOK
  <2>3. UNCHANGED <<queue, loop, run, runner, held, recon>> /\ registering' = registering \cup {t}
    BY <1>2 DEF CreateTask
  <2>4. \A u \in Tasks : u # t => SamePlace(u)
    BY <2>3 DEF SamePlace, InQueue
  <2>5. Placed(t)'
    BY <2>1, <2>2, <2>3 DEF Placed, InIntake, InRun, InQueue
  <2> QED
    BY <2>3, <2>4, <2>5, MovePlaced DEF OneClaim
<1> QED
  BY <1>1, <1>2

(* Run takes a task from AddTask and gives it to handleQueue.              *)
LEMMA RegisterPlaced ==
    ASSUME TypeOK, OneClaim, Unreconciled, NEW t \in Tasks,
           Register(t) \/ HandleNew(t), UNCHANGED remoteVars
    PROVE  OneClaim'
<1> USE PoolAssumption DEF storeVars, remoteVars, jobVars, endVars
<1>0. Placed(t) /\ InIntake(t) /\ Exists(t) /\ ~InQueue(t) /\ ~InRun(t)
  BY DEF Register, HandleNew, OneClaim, Placed, InIntake
<1>1. Exists(t)'
  BY <1>0, RowsStay
<1>2. CASE Register(t)
  <2>1. /\ registering' = registering \ {t} /\ loop' = t /\ loop = "idle"
        /\ UNCHANGED <<queue, run, runner, held, recon>>
    BY <1>2 DEF Register
  <2>2. \A u \in Tasks : u # t => SamePlace(u)
    BY <2>1 DEF SamePlace, InQueue
  <2>3. Placed(t)'
    BY <1>0, <1>1, <2>1 DEF Placed, InIntake, InRun, InQueue
  <2> QED
    BY <2>1, <2>2, <2>3, MovePlaced DEF OneClaim
<1>3. CASE HandleNew(t)
  <2>1. /\ queue' = Append(queue, t) /\ loop' = "idle" /\ loop = t
        /\ UNCHANGED <<registering, run, runner, held, recon>>
    BY <1>3 DEF HandleNew, taskVars
  <2>2. Distinct(queue') /\ Entries(queue') = Entries(queue) \cup {t}
    BY <1>0, <2>1, AppendQueue, InQueueEntries DEF OneClaim, TypeOK
  <2>3. \A u : InQueue(u)' <=> InQueue(u) \/ u = t
    BY <2>2, InQueueEntries
  <2>4. \A u \in Tasks : u # t => SamePlace(u)
    BY <2>1, <2>3 DEF SamePlace
  <2>5. Placed(t)'
    BY <1>0, <1>1, <2>1, <2>3 DEF Placed, InIntake, InRun
  <2> QED
    BY <2>1, <2>2, <2>4, <2>5, MovePlaced
<1> QED
  BY <1>2, <1>3

(* handleQueue.                                                            *)
LEMMA HandlerPlaced ==
    ASSUME TypeOK, OneClaim, Unreconciled, Tick \/ HandleQueue, UNCHANGED remoteVars
    PROVE  OneClaim'
<1> USE PoolAssumption DEF taskVars, storeVars, intake, remoteVars, jobVars, endVars
<1>1. CASE Tick \/ HandleTick \/ Snapshot
  <2>1. UNCHANGED <<queue, registering, run, runner, held, recon>>
    BY <1>1 DEF Tick, HandleTick, Snapshot
  <2>2. \A u \in Tasks : loop' = u <=> loop = u
    BY <1>1 DEF Tick, HandleTick, Snapshot
  <2> QED
    BY <2>1, <2>2, StayPlaced
<1>2. CASE ScanSkip
  <2>1. CASE UNCHANGED queue
    <3>1. UNCHANGED <<registering, loop, run, runner, held, recon>>
      BY <1>2 DEF ScanSkip
    <3>2. \A u \in Tasks : loop' = u <=> loop = u
      BY <3>1
    <3> QED
      BY <2>1, <3>1, <3>2, StayPlaced
  <2>2. CASE Dequeue(Head(todo))
    <3>1. Head(todo) \in Tasks /\ UNCHANGED <<registering, loop, run, runner, held, recon>>
      BY <1>2 DEF ScanSkip, TypeOK
    <3> QED
      BY <2>2, <3>1, DequeuePlaced
  <2> QED
    BY <1>2, <2>1, <2>2 DEF ScanSkip
<1>3. CASE ScanRun
  <2>1. PICK t \in Tasks : /\ t = Head(todo) /\ InQueue(t) /\ Dequeue(t)
                           /\ run' = [run EXCEPT ![t] = "sleep"]
                           /\ UNCHANGED intake
    <3>1. Head(todo) \in Tasks
      BY <1>3 DEF ScanRun, TypeOK
    <3> QED
      BY <1>3, <3>1 DEF ScanRun
  <2>2. Distinct(queue') /\ Entries(queue') = Entries(queue) \ {t}
    BY <2>1, RemoveQueue DEF Dequeue, OneClaim, TypeOK
  <2>3. \A u : InQueue(u)' <=> InQueue(u) /\ u # t
    BY <2>2, InQueueEntries
  <2>4. \A u \in Tasks : u # t => SamePlace(u)
    BY <2>1, <2>3 DEF SamePlace
  <2>5. Exists(t) /\ ~InIntake(t) /\ runner[t] = NoRunner /\ held[t] \subseteq {runner[t]}
    BY <2>1 DEF OneClaim, Placed, InRun
  <2>6. Exists(t)' /\ run'[t] = "sleep" /\ UNCHANGED <<registering, loop, runner, held>>
    BY <2>1, <2>5, RowsStay DEF TypeOK
  <2>7. Placed(t)'
    BY <2>3, <2>5, <2>6 DEF Placed, InIntake, InRun
  <2> QED
    BY <2>2, <2>4, <2>7, MovePlaced
<1> QED
  BY <1>1, <1>2, <1>3 DEF HandleQueue

(* run(): the task comes back to the queue when its goroutine ends, and its *)
(* runner is assigned at its end.                                          *)
LEMMA RunPlaced ==
    ASSUME TypeOK, OneClaim, Unreconciled, NEW t \in Tasks, RunStep(t)
    PROVE  OneClaim'
<1> USE DEF others, taskVars, storeVars, intake, remoteVars, jobVars, endVars
<1>0. Placed(t) /\ InRun(t) /\ Exists(t) /\ ~InIntake(t) /\ ~InQueue(t)
  BY DEF RunStep, BeginRun, DispatchFails, SelectRunner, Requeue, AssignFails, AssignRunner,
     JobError, FinishRun, Goto, OneClaim, Placed, InRun
<1>1. Exists(t)' /\ UNCHANGED <<registering, loop, held, recon>>
  <2>1. UNCHANGED <<registering, loop, held, recon>>
    BY DEF RunStep, BeginRun, DispatchFails, SelectRunner, Requeue, AssignFails, AssignRunner,
       JobError, FinishRun
  <2> QED
    BY <1>0, <2>1, RowsStay
<1>2. \A u \in Tasks : u # t => run'[u] = run[u] /\ runner'[u] = runner[u]
  BY DEF RunStep, BeginRun, DispatchFails, SelectRunner, Requeue, AssignFails, AssignRunner,
     JobError, FinishRun, Goto, TypeOK
<1>3. CASE Requeue(t)
  <2>1. /\ run[t] = "started" /\ run'[t] = "none" /\ UNCHANGED runner
        /\ queue' = Append(queue, t)
    BY <1>3 DEF Requeue, Goto, TypeOK
  <2>2. Distinct(queue') /\ Entries(queue') = Entries(queue) \cup {t}
    BY <1>0, <2>1, AppendQueue, InQueueEntries DEF OneClaim, TypeOK
  <2>3. \A u : InQueue(u)' <=> InQueue(u) \/ u = t
    BY <2>2, InQueueEntries
  <2>4. \A u \in Tasks : u # t => SamePlace(u)
    BY <1>1, <1>2, <2>3 DEF SamePlace
  <2>5. Placed(t)'
    BY <1>0, <1>1, <2>1, <2>3 DEF Placed, InIntake, InRun
  <2> QED
    BY <1>1, <2>2, <2>4, <2>5, MovePlaced
<1>4. CASE ~Requeue(t)
  <2>1. UNCHANGED queue
    BY <1>4 DEF RunStep, BeginRun, DispatchFails, SelectRunner, AssignFails, AssignRunner,
       JobError, FinishRun
  <2>2. \A u \in Tasks : u # t => SamePlace(u)
    BY <1>1, <1>2, <2>1 DEF SamePlace, InQueue
  <2>3. \/ runner'[t] = runner[t] /\ (runner[t] # NoRunner => run'[t] \in {"finish", "send"})
        \/ runner[t] = NoRunner /\ run'[t] \in {"none", "finish"}
    <3>1. CASE (BeginRun(t) /\ UNCHANGED remoteVars) \/ \E r \in Runners : SelectRunner(t, r)
      <4>1. runner'[t] = runner[t] /\ runner[t] = NoRunner
        BY <1>0, <3>1 DEF BeginRun, SelectRunner, Goto, Placed
      <4> QED
        BY <4>1
    <3>2. CASE DispatchFails(t)
      BY <3>2 DEF DispatchFails, JobError, Goto, TypeOK
    <3>3. CASE AssignFails(t) \/ AssignRunner(t)
      BY <1>0, <3>3 DEF AssignFails, AssignRunner, JobError, Goto, Placed, TypeOK
    <3>4. CASE /\ FinishRun(t) /\ CountFinish(t)
               /\ UNCHANGED <<jobVars, held, report, timer, finalizers, fin, recon>>
      BY <3>4 DEF FinishRun, Goto, TypeOK
    <3> QED
      BY <1>4, <3>1, <3>2, <3>3, <3>4 DEF RunStep
  <2>4. held[t] \subseteq {runner[t]} /\ NoRunner \notin held[t]
    BY <1>0, RemoteAssumption DEF Placed, TypeOK
  <2>5. held'[t] \subseteq {runner'[t]}
    BY <1>1, <2>3, <2>4
  <2>6. ~InQueue(t)'
    BY <1>0, <2>1 DEF InQueue
  <2>7. Placed(t)'
    BY <1>0, <1>1, <2>3, <2>5, <2>6 DEF Placed, InIntake
  <2> QED
    BY <1>1, <2>1, <2>2, <2>7, MovePlaced DEF OneClaim
<1> QED
  BY <1>3, <1>4

(* Reports, the timer, finalizations and stops leave the places alone,      *)
(* except that a bulk stop takes a task from the queue, and that a poll     *)
(* gives a task to its runner and an answer takes it from one.             *)
LEMMA AsidePlaced ==
    ASSUME TypeOK, OneClaim, Unreconciled, NEW t \in Tasks,
           \/ Sends(t) \/ FinalizeStep(t) \/ RunnerApi(t, Reports) \/ Answer(t) \/ Timer(t)
           \/ \E force \in BOOLEAN : RemoteStopTask(t, force)
    PROVE  OneClaim'
<1> USE DEF others, poolVars, taskVars, storeVars, intake, remoteVars, jobVars, endVars
<1>1. CASE \/ TryFinalize(t) \/ FinalizeFinish(t) \/ Answer(t) \/ Timer(t)
           \/ \E force \in BOOLEAN : RemoteStopTask(t, force)
           \/ PollFails(t) \/ ReportApplies(t) \/ \E s \in Reports : ReportArrives(t, s)
  <2>1. UNCHANGED <<queue, registering, loop, run, runner, held, recon>>
    BY <1>1 DEF TryFinalize, FinalizeFinish, Answer, ConfirmTask, RejectTask, Timer, TimerFires,
       TimerFails, RemoteStopTask, StopTask, PollFails, ReportApplies, ReportArrives
  <2> QED
    BY <2>1, StayPlaced
<1>2. CASE SendRequeued(t) \/ FinalizeSend(t)
  <2>1. UNCHANGED <<queue, registering, loop, run, runner, held, recon>>
    BY <1>2 DEF SendRequeued, FinalizeSend, ReceiveRequeued, ReceiveFinished
  <2> QED
    BY <2>1, StayPlaced
<1>3. CASE SendFinished(t) /\ UNCHANGED remoteVars
  <2>0. Placed(t) /\ InRun(t) /\ Exists(t)
    BY <1>3 DEF SendFinished, Goto, OneClaim, Placed, InRun
  <2>1. /\ run'[t] = "none" /\ \A u \in Tasks : u # t => run'[u] = run[u]
        /\ UNCHANGED <<queue, registering, loop, runner, held, recon>>
    BY <1>3 DEF SendFinished, ReceiveFinished, Goto, TypeOK
  <2>2. \A u \in Tasks : u # t => SamePlace(u)
    BY <2>1 DEF SamePlace, InQueue
  <2>3. Placed(t)'
    BY <2>0, <2>1, RowsStay DEF Placed, InIntake, InRun, InQueue
  <2> QED
    BY <2>1, <2>2, <2>3, MovePlaced DEF OneClaim
<1>4. CASE FinalizeAutorun(t)
  <2>1. CASE \E c \in Tasks : AutorunChild(t, c) /\ UNCHANGED remoteVars
    BY <2>1, CreatePlaced DEF AutorunChild
  <2>2. CASE UNCHANGED <<poolVars, jobVars, held, report, timer, finalizers, recon, finishes>>
    BY <2>2, StayPlaced
  <2> QED
    BY <1>4, <2>1, <2>2 DEF FinalizeAutorun
<1>5. CASE PollDelivers(t) \/ \E r \in Runners : ReportRejected(t, r)
  <2>1. /\ held'[t] \subseteq held[t] \cup {runner[t]}
        /\ \A u \in Tasks : u # t => held'[u] = held[u]
        /\ UNCHANGED <<row, queue, registering, loop, run, runner, recon>>
    BY <1>5 DEF PollDelivers, ReportRejected, TypeOK
  <2>2. \A u \in Tasks : u # t => SamePlace(u)
    BY <2>1 DEF SamePlace, InQueue
  <2>3. Placed(t)'
    BY <2>1 DEF OneClaim, Placed, InIntake, InRun, InQueue, Exists
  <2> QED
    BY <2>1, <2>2, <2>3, MovePlaced DEF OneClaim
<1> QED
  BY <1>1, <1>2, <1>3, <1>4, <1>5 DEF Sends, FinalizeStep, RunnerApi

(* A bulk stop.                                                            *)
LEMMA TemplateStopPlaced ==
    ASSUME TypeOK, OneClaim, Unreconciled, TemplateStop
    PROVE  OneClaim'
<1> USE DEF taskVars, storeVars, intake, remoteVars, jobVars, endVars
<1>1. UNCHANGED <<registering, loop, run, runner, held, recon>>
  BY DEF TemplateStop, TemplateStopRows, TemplateStopSnapshot, TemplateStopQueued,
     TemplateStopRunning, TemplateStopRest
<1>2. UNCHANGED queue \/ \E t \in Tasks : Dequeue(t)
  BY DEF TemplateStop, TemplateStopRows, TemplateStopSnapshot, TemplateStopQueued,
     TemplateStopRunning, TemplateStopRest
<1>3. CASE UNCHANGED queue
  BY <1>1, <1>3, StayPlaced
<1>4. CASE \E t \in Tasks : Dequeue(t)
  BY <1>1, <1>4, DequeuePlaced
<1> QED
  BY <1>2, <1>3, <1>4

(* The places are kept by every step that is not the reconciler's.         *)
LEMMA OneClaimStep ==
    ASSUME TypeOK, OneClaim, [Unreconciled]_vars
    PROVE  OneClaim'
<1>1. CASE UNCHANGED vars
  BY <1>1 DEF vars, poolVars, taskVars, storeVars, intake, remoteVars, jobVars, endVars, OneClaim,
     Placed, InIntake, InRun, InQueue, Exists
<1>2. CASE Unreconciled
  <2>1. CASE (Tick \/ HandleQueue) /\ UNCHANGED remoteVars
    BY <1>2, <2>1, HandlerPlaced
  <2>2. ASSUME NEW t \in Tasks, AddTask(t) \/ Register(t) \/ HandleNew(t), UNCHANGED remoteVars
        PROVE  OneClaim'
    BY <1>2, <2>2, CreatePlaced, RegisterPlaced DEF AddTask
  <2>3. ASSUME NEW t \in Tasks, RunStep(t)
        PROVE  OneClaim'
    BY <1>2, <2>3, RunPlaced
  <2>4. ASSUME NEW t \in Tasks,
               \/ Sends(t) \/ FinalizeStep(t) \/ RunnerApi(t, Reports) \/ Answer(t) \/ Timer(t)
               \/ \E force \in BOOLEAN : RemoteStopTask(t, force)
        PROVE  OneClaim'
    BY <1>2, <2>4, AsidePlaced
  <2>5. CASE TemplateStop
    BY <1>2, <2>5, TemplateStopPlaced
  <2> QED
    BY <1>2, <2>1, <2>2, <2>3, <2>4, <2>5 DEF Unreconciled, Undisturbed
<1> QED
  BY <1>1, <1>2

(* At first no task is anywhere.                                           *)
LEMMA OneClaimInit == Init => OneClaim
<1> SUFFICES ASSUME Init PROVE OneClaim
  OBVIOUS
<1>1. queue = <<>> /\ recon = NoDecision /\ registering = {} /\ loop = "idle"
  BY DEF Init, PoolInit
<1>2. \A t \in Tasks : run[t] = "none" /\ runner[t] = NoRunner /\ held[t] = {} /\ loop # t
  BY PoolAssumption DEF Init, PoolInit
<1>3. Distinct(queue) /\ \A t \in Tasks : ~InQueue(t)
  BY <1>1 DEF Distinct, InQueue
<1> QED
  BY <1>1, <1>2, <1>3 DEF OneClaim, Placed, InIntake, InRun

(* A runner that holds a task is the one of its RunnerID.                   *)
LEMMA OneClaimSingle == TypeOK /\ OneClaim => SingleHolder
<1> SUFFICES ASSUME TypeOK, OneClaim, NEW t \in Tasks
             PROVE  Cardinality(held[t]) <= 1
  BY DEF SingleHolder
<1>1. held[t] = {} \/ held[t] = {runner[t]}
  BY DEF OneClaim, Placed
<1> QED
  <2>1. Cardinality({}) = 0 /\ Cardinality({runner[t]}) = 1
    BY FS_EmptySet, FS_Singleton
  <2> QED
    BY <1>1, <2>1

(* Without the reconciler a task is executed by one runner at most, however *)
(* users stop and answer, timeouts fire and reports are late: it returns to *)
(* the queue only before it has a runner (RemoteJob.Run, UpdateRunner's     *)
(* ownership check, GetRunner).                                            *)
THEOREM SingleHolderHolds == ~Reconciles => (Spec => []SingleHolder)
<1> SUFFICES ASSUME ~Reconciles PROVE Spec => []SingleHolder
  OBVIOUS
<1>1. TypeOK /\ OneClaim /\ [Next]_vars => OneClaim'
  <2> SUFFICES ASSUME TypeOK, OneClaim, [Next]_vars PROVE OneClaim'
    OBVIOUS
  <2>1. ~(\E t \in Tasks : Reconciler(t))
    BY DEF Reconciler, Decide, Keeps, RequeueTaskRunnerOffline, FailTaskRunnerLost,
       ReconcilerSends, OneClaim, NoDecision, TypeOK
  <2>2. [Unreconciled]_vars
    BY <2>1 DEF Next, Unreconciled
  <2> QED
    BY <2>2, OneClaimStep
<1> QED
  BY <1>1, OneClaimInit, OneClaimSingle, RemoteTypeCorrect, PTL DEF Spec

-----------------------------------------------------------------------------
(* Who removes a finished task: run(), or a call of FinalizeRemoteTask.     *)

\* Without forced and bulk stops.
Unforced ==
    \/ Undisturbed(Reports)
    \/ \E t \in Tasks : Timer(t) \/ RemoteStopTask(t, FALSE)

Pending(t) == InIntake(t) \/ InQueue(t)

\* Nothing but run() can finish a task that has no runner.
Unasked(t) == timer[t] = "off" /\ report[t] = "none" /\ finalizers[t] = 0 /\ fin[t] = "none"

Remover(t) ==
    run[t] # "none" \/ fin[t] \in {"locked", "send"} \/ requeued[t] > 0 \/ finalizers[t] > 0

(* A task is unfinished until it has a runner or run() completes it; then a *)
(* finished one in the running map has a remover.                          *)
Attended(t) ==
    /\ ~Exists(t) \/ Pending(t) \/ run[t] \in {"sleep", "started", "selected"}
         => ~IsFinished(status[t])
    /\ run[t] = "selected" => pick[t] # NoRunner
    /\ runner[t] = NoRunner => Unasked(t)
    /\ fin[t] \in {"autorun", "children"} => t \notin running
    /\ t \in running => Exists(t)
    /\ t \in running /\ IsFinished(status[t]) => Remover(t)

(* The inductive invariant for NoLeak, together with OneClaim.             *)
Gentle == \A t \in Tasks : Attended(t)

\* A step does not finish u, brings it to no place and leaves its completion.
SameCare(u) ==
    /\ Pending(u)' => Pending(u)
    /\ u \in running' => u \in running
    /\ IsFinished(status'[u]) => IsFinished(status[u])
    /\ run'[u] = run[u] /\ pick'[u] = pick[u] /\ runner'[u] = runner[u]
    /\ timer'[u] = timer[u] /\ report'[u] = report[u] /\ finalizers'[u] = finalizers[u]
    /\ fin'[u] = fin[u] /\ requeued'[u] = requeued[u]

(* Unforced steps are not the reconciler's.                                *)
LEMMA UnforcedSteps == Unforced => Unreconciled
BY DEF Unforced, Unreconciled

(* The queue after a removal and after an addition, seen from a task.      *)
LEMMA PendingQueue ==
    ASSUME TypeOK, OneClaim, NEW t \in Tasks
    PROVE  /\ Dequeue(t) => \A u : InQueue(u)' => InQueue(u)
           /\ queue' = Append(queue, t) => \A u : InQueue(u)' <=> InQueue(u) \/ u = t
           /\ UNCHANGED queue => \A u : InQueue(u)' <=> InQueue(u)
<1>1. Distinct(queue) /\ queue \in Seq(Tasks)
  BY DEF OneClaim, TypeOK
<1>2. Entries(RemoveFirst(queue, t)) = Entries(queue) \ {t}
  BY <1>1, RemoveQueue
<1>3. Entries(Append(queue, t)) = Entries(queue) \cup {t}
  BY <1>1, AppendQueue
<1> QED
  BY <1>2, <1>3, InQueueEntries DEF Dequeue, InQueue

(* A task that a step does not touch stays attended.                       *)
LEMMA SameAttended ==
    ASSUME NEW u, SameCare(u), Exists(u) => Exists(u)', Attended(u)
    PROVE  Attended(u)'
BY DEF SameCare, Attended, Unasked, Remover, IsFinished

(* What a step of one task has to show.                                    *)
LEMMA MoveAttended ==
    ASSUME TypeOK, Gentle, Unforced, NEW t \in Tasks, Attended(t)',
           \A u \in Tasks : u # t => SameCare(u)
    PROVE  Gentle'
BY RowsStay, UnforcedSteps, SameAttended DEF Gentle

(* What a step of no task has to show.                                     *)
LEMMA StayAttended ==
    ASSUME TypeOK, Gentle, Unforced, \A u \in Tasks : SameCare(u)
    PROVE  Gentle'
BY RowsStay, UnforcedSteps, SameAttended DEF Gentle

(* AddTask: the status of a task without a row is not finished.            *)
LEMMA CreateAttended ==
    ASSUME TypeOK, OneClaim, Gentle, Unforced, NEW t \in Tasks,
           CreateTask(t) \/ CreateTaskFails(t), UNCHANGED remoteVars
    PROVE  Gentle'
<1> USE DEF storeVars, intake, remoteVars, jobVars, endVars
<1>1. UNCHANGED <<queue, running, loop, run, pick, runner, timer, report, finalizers, fin, requeued>>
  BY DEF CreateTask, CreateTaskFails
<1>2. \A u \in Tasks : u # t =>
         /\ status'[u] = status[u]
         /\ u \in registering' <=> u \in registering
  BY SMTT(20) DEF CreateTask, CreateTaskFails, TypeOK
<1>3. \A u \in Tasks : u # t => SameCare(u)
  BY <1>1, <1>2, PendingQueue DEF SameCare, Pending, InIntake, IsFinished
<1>4. ~Exists(t) /\ Placed(t) /\ Attended(t)
  BY DEF CreateTask, CreateTaskFails, OneClaim, Gentle
<1>5. t \notin running /\ run[t] = "none" /\ runner[t] = NoRunner /\ ~InQueue(t) /\ ~InIntake(t)
  BY <1>4 DEF Placed, Attended, InRun
<1>6. Exists(t)'
  BY DEF CreateTask, CreateTaskFails, Exists, TypeOK
<1>7. Pending(t)' => ~IsFinished(status'[t])
  <2>1. CASE CreateTask(t)
    BY <1>4, <2>1 DEF CreateTask, Attended, IsFinished
  <2>2. CASE CreateTaskFails(t)
    BY <1>5, <2>2, PendingQueue DEF CreateTaskFails, Pending, InIntake
  <2> QED
    BY <2>1, <2>2
<1>8. Attended(t)'
  BY <1>1, <1>4, <1>5, <1>6, <1>7 DEF Attended, Unasked
<1> QED
  BY <1>3, <1>8, MoveAttended

(* Run and handleQueue, up to the claim.                                   *)
LEMMA IntakeAttended ==
    ASSUME TypeOK, OneClaim, Gentle, Unforced, UNCHANGED remoteVars,
           \/ Tick \/ HandleTick \/ Snapshot \/ ScanSkip
           \/ \E t \in Tasks : Register(t) \/ HandleNew(t)
    PROVE  Gentle'
<1> USE PoolAssumption DEF taskVars, storeVars, intake, remoteVars, jobVars, endVars
<1>1. UNCHANGED <<status, running, run, pick, runner, timer, report, finalizers, fin, requeued>>
  BY DEF Tick, HandleTick, Snapshot, ScanSkip, Register, HandleNew
<1>2. \A u \in Tasks : Pending(u)' => Pending(u)
  <2>1. CASE Tick \/ HandleTick \/ Snapshot
    <3>1. UNCHANGED <<queue, registering>> /\ \A u \in Tasks : loop' = u <=> loop = u
      BY <2>1 DEF Tick, HandleTick, Snapshot
    <3> QED
      BY <3>1 DEF Pending, InIntake, InQueue
  <2>2. CASE ScanSkip
    <3>1. /\ UNCHANGED <<registering, loop>>
          /\ UNCHANGED queue \/ (Dequeue(Head(todo)) /\ Head(todo) \in Tasks)
      BY <2>2 DEF ScanSkip, TypeOK
    <3>2. \A u : InQueue(u)' => InQueue(u)
      BY <3>1, PendingQueue DEF InQueue
    <3> QED
      BY <3>1, <3>2 DEF Pending, InIntake
  <2>3. ASSUME NEW t \in Tasks, Register(t)
        PROVE  \A u \in Tasks : Pending(u)' => Pending(u)
    <3>1. UNCHANGED queue /\ t \in registering /\ registering' = registering \ {t} /\ loop' = t
      BY <2>3 DEF Register
    <3> QED
      BY <3>1 DEF Pending, InIntake, InQueue
  <2>4. ASSUME NEW t \in Tasks, HandleNew(t)
        PROVE  \A u \in Tasks : Pending(u)' => Pending(u)
    <3>1. /\ queue' = Append(queue, t) /\ loop = t /\ UNCHANGED registering
          /\ \A u \in Tasks : loop' # u
      BY <2>4 DEF HandleNew
    <3>2. \A u : InQueue(u)' <=> InQueue(u) \/ u = t
      BY <3>1, PendingQueue
    <3> QED
      BY <3>1, <3>2 DEF Pending, InIntake
  <2> QED
    BY <2>1, <2>2, <2>3, <2>4
<1> QED
  BY <1>1, <1>2, StayAttended DEF SameCare, IsFinished

(* The claim.                                                              *)
LEMMA ClaimAttended ==
    ASSUME TypeOK, OneClaim, Gentle, Unforced, ScanRun, UNCHANGED remoteVars
    PROVE  Gentle'
<1> USE DEF intake, remoteVars, jobVars, endVars
<1>0. Head(todo) \in Tasks
  BY DEF ScanRun, TypeOK
<1>1. PICK t \in Tasks : /\ t = Head(todo) /\ InQueue(t) /\ Dequeue(t) /\ onTaskRun(t)
                         /\ run' = [run EXCEPT ![t] = "sleep"]
                         /\ UNCHANGED <<status, row, intake>>
  BY <1>0 DEF ScanRun
<1>2. \A u : InQueue(u)' => InQueue(u)
  BY <1>1, PendingQueue
<1>3. /\ run'[t] = "sleep" /\ \A u \in Tasks : u # t => run'[u] = run[u]
      /\ running' = running \cup {t}
      /\ UNCHANGED <<status, row, registering, loop, pick, runner, timer, report, finalizers, fin,
                     requeued>>
  BY <1>1 DEF onTaskRun, TypeOK
<1>4. \A u \in Tasks : u # t => SameCare(u)
  BY <1>2, <1>3 DEF SameCare, Pending, InIntake, IsFinished
<1>5. Placed(t) /\ Attended(t) /\ InQueue(t)
  BY <1>1 DEF OneClaim, Gentle
<1>6. ~IsFinished(status[t]) /\ Exists(t) /\ runner[t] = NoRunner /\ Unasked(t)
  BY <1>5 DEF Placed, Attended, Pending, InRun
<1>7. Attended(t)'
  BY <1>3, <1>6 DEF Attended, Unasked, Remover, Exists, IsFinished
<1> QED
  BY <1>4, <1>7, MoveAttended

(* run(): the task is unfinished when it is handed off or put back.         *)
LEMMA RunAttended ==
    ASSUME TypeOK, OneClaim, Gentle, Unforced, NEW t \in Tasks, RunStep(t)
    PROVE  Gentle'
<1> USE DEF others, storeVars, intake, remoteVars, jobVars, endVars
<1>0. InRun(t)
  BY DEF RunStep, BeginRun, DispatchFails, SelectRunner, Requeue, AssignFails, AssignRunner,
     JobError, FinishRun, Goto, InRun
<1>1. Placed(t) /\ Attended(t) /\ Exists(t) /\ ~Pending(t)
  BY <1>0 DEF OneClaim, Gentle, Placed, Pending
<1>2. Exists(t)'
  BY <1>1, RowsStay, UnforcedSteps
<1>3. /\ UNCHANGED <<running, registering, loop, report, finalizers, fin>>
      /\ \A u \in Tasks : u # t =>
            /\ status'[u] = status[u] /\ run'[u] = run[u] /\ pick'[u] = pick[u]
            /\ runner'[u] = runner[u] /\ timer'[u] = timer[u] /\ requeued'[u] = requeued[u]
      /\ Requeue(t) \/ UNCHANGED queue
  BY SMTT(20) DEF RunStep, BeginRun, DispatchFails, SelectRunner, Requeue, AssignFails, AssignRunner,
     JobError, FinishRun, Goto, SetStatus, TypeOK
<1>4. \A u \in Tasks : u # t => SameCare(u)
  <2>1. \A u : u # t => (InQueue(u)' => InQueue(u))
    BY <1>3, PendingQueue DEF Requeue
  <2> QED
    BY <1>3, <2>1 DEF SameCare, Pending, InIntake, IsFinished
<1>5. CASE Requeue(t)
  <2>1. /\ run[t] = "started" /\ run'[t] = "none" /\ requeued'[t] > 0
        /\ status'[t] = AfterSetStatus(status[t], "waiting")
        /\ UNCHANGED <<pick, runner, timer>>
    BY <1>5 DEF Requeue, Goto, SetStatus, TypeOK
  <2>2. ~IsFinished(status'[t])
    BY <1>1, <2>1 DEF Attended, AfterSetStatus, IsFinished, FinishedStatuses
  <2> QED
    BY <1>1, <1>2, <1>3, <1>4, <2>1, <2>2, MoveAttended DEF Attended, Unasked
<1>6. CASE ~Requeue(t)
  <2> SUFFICES Attended(t)'
    BY <1>4, MoveAttended
  <2>1. ~Pending(t)'
    BY <1>1, <1>3, <1>6, PendingQueue DEF Pending, InIntake
  <2>2. ASSUME run'[t] \in {"finish", "send"},
               timer'[t] = timer[t] /\ (runner'[t] = NoRunner => runner[t] = NoRunner)
        PROVE  Attended(t)'
    BY <1>1, <1>2, <1>3, <2>1, <2>2 DEF Attended, Unasked, Remover
  <2>3. ASSUME run'[t] \in {"started", "selected"}, ~IsFinished(status'[t]),
               run'[t] = "selected" => pick'[t] # NoRunner,
               timer'[t] = timer[t] /\ runner'[t] = runner[t]
        PROVE  Attended(t)'
    BY <1>1, <1>2, <1>3, <2>1, <2>3 DEF Attended, Unasked, Remover
  <2>4. CASE BeginRun(t) /\ UNCHANGED remoteVars
    <3>1. UNCHANGED <<runner, timer>> /\ run[t] = "sleep"
      BY <2>4 DEF BeginRun, Goto
    <3>2. CASE status[t] = "stopping"
      <4>1. run'[t] = "finish"
        BY <2>4, <3>2 DEF BeginRun, Goto, TypeOK
      <4> QED
        BY <2>2, <3>1, <4>1
    <3>3. CASE status[t] # "stopping"
      <4>1. run'[t] = "started" /\ status'[t] = AfterSetStatus(status[t], "starting")
        BY <2>4, <3>3 DEF BeginRun, Goto, SetStatus, TypeOK
      <4>2. ~IsFinished(status'[t])
        BY <1>1, <3>1, <4>1 DEF Attended, AfterSetStatus, IsFinished, FinishedStatuses
      <4> QED
        BY <2>3, <3>1, <4>1, <4>2
    <3> QED
      BY <3>2, <3>3
  <2>5. CASE DispatchFails(t) \/ AssignFails(t)
    <3>1. /\ run'[t] = "finish" /\ UNCHANGED timer
          /\ run[t] = "started" => UNCHANGED runner
          /\ run[t] \in {"started", "selected"}
      BY <2>5 DEF DispatchFails, AssignFails, JobError, Goto, TypeOK
    <3>2. runner[t] = NoRunner
      BY <1>1, <3>1 DEF Placed
    <3> QED
      BY <2>2, <3>1, <3>2
  <2>6. ASSUME NEW r \in Runners, SelectRunner(t, r)
        PROVE  Attended(t)'
    <3>1. /\ run[t] = "started" /\ run'[t] = "selected" /\ pick'[t] = r
          /\ UNCHANGED <<status, runner, timer>>
      BY <2>6 DEF SelectRunner, Goto, TypeOK
    <3>2. r # NoRunner /\ ~IsFinished(status'[t])
      BY <1>1, <3>1, RemoteAssumption DEF Attended, IsFinished
    <3> QED
      BY <2>3, <3>1, <3>2
  <2>7. CASE AssignRunner(t)
    <3>1. /\ run[t] = "selected" /\ run'[t] = "none" /\ runner'[t] = pick[t]
          /\ UNCHANGED status
      BY <2>7 DEF AssignRunner, Goto, TypeOK
    <3>2. runner'[t] # NoRunner /\ ~IsFinished(status'[t])
      BY <1>1, <3>1 DEF Attended, IsFinished
    <3> QED
      BY <1>1, <1>2, <1>3, <2>1, <3>1, <3>2 DEF Attended
  <2>8. CASE /\ FinishRun(t) /\ CountFinish(t)
             /\ UNCHANGED <<jobVars, held, report, timer, finalizers, fin, recon>>
    <3>1. run'[t] = "send" /\ UNCHANGED <<runner, timer>>
      BY <2>8 DEF FinishRun, Goto, TypeOK
    <3> QED
      BY <2>2, <3>1
  <2> QED
    BY <1>6, <2>4, <2>5, <2>6, <2>7, <2>8 DEF RunStep
<1> QED
  BY <1>5, <1>6

(* The events: their task leaves the running map.                          *)
LEMMA SendsAttended ==
    ASSUME TypeOK, OneClaim, Gentle, Unforced, NEW t \in Tasks, Sends(t)
    PROVE  Gentle'
<1> USE DEF taskVars, intake, remoteVars, jobVars, endVars
<1>1. /\ running' = running \ {t}
      /\ UNCHANGED <<queue, status, row, registering, loop, pick, runner, timer, report, finalizers>>
      /\ \A u \in Tasks : u # t =>
            run'[u] = run[u] /\ requeued'[u] = requeued[u] /\ fin'[u] = fin[u]
  BY SMTT(20) DEF Sends, SendFinished, SendRequeued, FinalizeSend, FinGoto, Goto, ReceiveFinished,
     ReceiveRequeued, onTaskStop, TypeOK
<1>2. \A u \in Tasks : Pending(u)' <=> Pending(u)
  BY <1>1, PendingQueue DEF Pending, InIntake
<1>3. \A u \in Tasks : u # t => SameCare(u)
  BY <1>1, <1>2 DEF SameCare, IsFinished
<1>4. /\ run'[t] \in {run[t], "none"} /\ fin'[t] \in {fin[t], "autorun"}
      /\ fin'[t] # fin[t] => fin[t] = "send"
  BY DEF Sends, SendFinished, SendRequeued, FinalizeSend, FinGoto, Goto, TypeOK
<1>5. Attended(t)'
  BY <1>1, <1>2, <1>4 DEF Gentle, Attended, Unasked, Exists, IsFinished
<1> QED
  BY <1>3, <1>5, MoveAttended

(* The runner API: a finished status comes with a call of                  *)
(* FinalizeRemoteTask, and concerns a task that has a runner.              *)
LEMMA ApiAttended ==
    ASSUME TypeOK, OneClaim, Gentle, Unforced, NEW t \in Tasks,
           RunnerApi(t, Reports) \/ Timer(t) \/ RemoteStopTask(t, FALSE)
    PROVE  Gentle'
<1> USE DEF others, poolVars, taskVars, storeVars, intake, jobVars
<1>0. Placed(t) /\ Attended(t)
  BY DEF OneClaim, Gentle
<1>1. /\ UNCHANGED <<queue, registering, loop, running, run, pick, runner, fin, requeued>>
      /\ \A u \in Tasks : u # t =>
            /\ status'[u] = status[u] /\ timer'[u] = timer[u] /\ report'[u] = report[u]
            /\ finalizers'[u] = finalizers[u]
  <2>1. CASE RunnerApi(t, Reports)
    BY <2>1 DEF RunnerApi, PollDelivers, PollFails, ReportApplies, ReportArrives, ReportRejected,
       SetStatus, Finalizing, TypeOK
  <2>2. CASE Timer(t)
    BY <2>2 DEF Timer, TimerFires, TimerFails, SetStatus, Finalizing, TypeOK
  <2>3. CASE RemoteStopTask(t, FALSE)
    BY <2>3 DEF RemoteStopTask, StopTask, StopTaskRunner, SetStatus, SetRowStatus, Finalizing, TypeOK
  <2> QED
    BY <2>1, <2>2, <2>3
<1>2. \A u \in Tasks : Pending(u)' <=> Pending(u)
  BY <1>1, PendingQueue DEF Pending, InIntake
<1>3. \A u \in Tasks : u # t => SameCare(u)
  BY <1>1, <1>2 DEF SameCare, IsFinished
<1> SUFFICES Attended(t)'
  BY <1>3, MoveAttended
<1>4. Exists(t) => Exists(t)'
  BY RowsStay, UnforcedSteps
<1>5. ASSUME status'[t] = status[t] \/ (IsFinished(status'[t]) => IsFinished(status[t])),
             finalizers'[t] = finalizers[t], Exists(t)' => Exists(t),
             runner[t] = NoRunner => timer'[t] = "off" /\ report'[t] = "none"
      PROVE  Attended(t)'
  BY <1>0, <1>1, <1>2, <1>4, <1>5 DEF Attended, Unasked, Remover, IsFinished
<1>6. ASSUME runner[t] # NoRunner, IsFinished(status'[t]) => finalizers'[t] > 0
      PROVE  Attended(t)'
  <2>1. InRun(t) /\ ~Pending(t) /\ run[t] \in {"none", "finish", "send"} /\ Exists(t)
    BY <1>0, <1>6 DEF Placed, InRun, Pending
  <2> QED
    BY <1>0, <1>1, <1>2, <1>4, <1>6, <2>1 DEF Attended, Remover
<1>7. runner[t] = NoRunner => timer[t] = "off" /\ report[t] = "none"
  BY <1>0 DEF Attended, Unasked
<1>8. CASE \/ PollDelivers(t) \/ TimerFires(t) \/ (\E s \in Reports : ReportArrives(t, s))
           \/ \E r \in Runners : ReportRejected(t, r)
  <2>1. UNCHANGED <<status, row, finalizers>>
    BY <1>8 DEF PollDelivers, TimerFires, ReportArrives, ReportRejected
  <2>2. (\E s \in Reports : ReportArrives(t, s)) => runner[t] # NoRunner
    BY RemoteAssumption DEF ReportArrives, TypeOK
  <2>3. runner[t] = NoRunner => timer'[t] = "off" /\ report'[t] = "none"
    BY <1>7, <1>8, <2>2 DEF PollDelivers, TimerFires, ReportRejected
  <2> QED
    BY <1>5, <2>1, <2>3 DEF Exists
<1>9. CASE PollFails(t) \/ ReportApplies(t) \/ TimerFails(t)
  <2>1. runner[t] # NoRunner
    BY <1>7, <1>9 DEF PollFails, ReportApplies, TimerFails
  <2>2. IsFinished(status'[t]) => finalizers'[t] > 0
    <3>1. IsFinished(status'[t]) => finalizers' = [finalizers EXCEPT ![t] = @ + 1]
      BY <1>9 DEF PollFails, ReportApplies, TimerFails, Finalizing
    <3>2. finalizers \in [Tasks -> 0..MaxFinalizers]
      BY DEF TypeOK
    <3> QED
      BY <3>1, <3>2, RemoteAssumption
  <2> QED
    BY <1>6, <2>1, <2>2
<1>10. CASE RemoteStopTask(t, FALSE)
  <2>1. UNCHANGED <<timer, report, finalizers>> /\ Exists(t)
    BY <1>10 DEF RemoteStopTask, StopTask, Finalizing
  <2>2. status'[t] = status[t] \/ status'[t] = AfterSetStatus(status[t], "stopping")
    BY <1>10 DEF RemoteStopTask, StopTask, StopTaskRunner, SetStatus, SetRowStatus, TypeOK
  <2>3. IsFinished(status'[t]) => IsFinished(status[t])
    BY <2>2 DEF AfterSetStatus, IsFinished, FinishedStatuses
  <2> QED
    BY <1>5, <1>7, <2>1, <2>3
<1> QED
  BY <1>8, <1>9, <1>10 DEF RunnerApi, Timer

(* FinalizeRemoteTask holds its lock until the task has left the running    *)
(* map, so that a call that finds it held need not remove the task.        *)
LEMMA FinalizeAttended ==
    ASSUME TypeOK, OneClaim, Gentle, Unforced, NEW t \in Tasks, FinalizeStep(t)
    PROVE  Gentle'
<1> USE DEF poolVars, taskVars, storeVars, intake, jobVars
<1>0. Placed(t) /\ Attended(t)
  BY DEF OneClaim, Gentle
<1>1. CASE \E c \in Tasks : AutorunChild(t, c) /\ UNCHANGED remoteVars
  BY <1>1, CreateAttended DEF AutorunChild
<1>2. CASE ~\E c \in Tasks : AutorunChild(t, c) /\ UNCHANGED remoteVars
  <2>1. /\ UNCHANGED <<queue, registering, loop, running, status, run, pick, runner, timer, report,
                       requeued>>
        /\ \A u \in Tasks : u # t => fin'[u] = fin[u] /\ finalizers'[u] = finalizers[u]
    BY <1>2 DEF FinalizeStep, TryFinalize, FinalizeFinish, FinalizeAutorun, FinGoto, TypeOK
  <2>2. \A u \in Tasks : Pending(u)' <=> Pending(u)
    BY <2>1, PendingQueue DEF Pending, InIntake
  <2>3. \A u \in Tasks : u # t => SameCare(u)
    BY <2>1, <2>2 DEF SameCare, IsFinished
  <2> SUFFICES Attended(t)'
    BY <2>3, MoveAttended
  <2>4. runner[t] # NoRunner
    BY <1>0, <1>2 DEF FinalizeStep, TryFinalize, FinalizeFinish, FinalizeAutorun, FinGoto, Attended,
       Unasked
  <2>5. InRun(t) /\ ~Pending(t) /\ Exists(t) /\ run[t] \in {"none", "finish", "send"}
    BY <1>0, <2>4 DEF Placed, InRun, Pending
  <2>6. Exists(t)'
    BY <2>5, RowsStay, UnforcedSteps
  <2>7. ASSUME t \notin running \/ fin'[t] \in {"locked", "send"}
        PROVE  Attended(t)'
    BY <2>1, <2>2, <2>4, <2>5, <2>6, <2>7 DEF Attended, Remover
  <2>8. CASE TryFinalize(t)
    <3>1. fin'[t] = IF fin[t] # "none" THEN fin[t] ELSE "locked"
      BY <2>8 DEF TryFinalize, Locked, OneClaim, NoDecision, TypeOK
    <3> QED
      BY <1>0, <2>7, <3>1 DEF Attended, TypeOK
  <2>9. CASE FinalizeFinish(t)
    BY <2>7, <2>9 DEF FinalizeFinish, FinGoto, TypeOK
  <2>10. CASE FinalizeAutorun(t)
    <3>1. fin[t] \in {"autorun", "children"}
      BY <1>2, <2>10 DEF FinalizeAutorun, FinGoto
    <3> QED
      BY <1>0, <2>7, <3>1 DEF Attended
  <2> QED
    BY <2>8, <2>9, <2>10 DEF FinalizeStep
<1> QED
  BY <1>1, <1>2

(* Gentle is kept.                                                         *)
LEMMA GentleStep ==
    ASSUME TypeOK, OneClaim, Gentle, [Unforced]_vars
    PROVE  Gentle'
<1>1. CASE UNCHANGED vars
  BY <1>1 DEF vars, poolVars, taskVars, storeVars, intake, remoteVars, jobVars, endVars, Gentle,
     Attended, Pending, InIntake, Unasked, Remover, InQueue, Exists, IsFinished
<1>2. CASE Unforced
  <2>1. CASE (Tick \/ HandleQueue) /\ UNCHANGED remoteVars
    BY <1>2, <2>1, IntakeAttended, ClaimAttended DEF HandleQueue
  <2>2. ASSUME NEW t \in Tasks, AddTask(t) \/ Register(t) \/ HandleNew(t), UNCHANGED remoteVars
        PROVE  Gentle'
    BY <1>2, <2>2, CreateAttended, IntakeAttended DEF AddTask
  <2>3. ASSUME NEW t \in Tasks,
               \/ RunStep(t) \/ Sends(t) \/ FinalizeStep(t) \/ RunnerApi(t, Reports) \/ Timer(t)
               \/ RemoteStopTask(t, FALSE)
        PROVE  Gentle'
    BY <1>2, <2>3, RunAttended, SendsAttended, FinalizeAttended, ApiAttended
  <2> QED
    BY <1>2, <2>1, <2>2, <2>3 DEF Unforced, Undisturbed
<1> QED
  BY <1>1, <1>2

(* At first nothing is finished.                                           *)
LEMMA GentleInit == Init => Gentle
<1> SUFFICES ASSUME Init, NEW t \in Tasks PROVE Attended(t)
  BY DEF Gentle
<1>1. /\ status[t] = "waiting" /\ run[t] = "none" /\ t \notin running
      /\ Unasked(t) /\ fin[t] = "none"
  BY DEF Init, PoolInit, Unasked
<1> QED
  BY <1>1 DEF Attended, IsFinished, FinishedStatuses

(* NoLeak is part of Gentle.                                               *)
LEMMA GentleNoLeak == TypeOK /\ Gentle => NoLeak
BY DEF Gentle, Attended, Remover, NoLeak, TypeOK

-----------------------------------------------------------------------------
(* The invariant of the specification with one source of trouble.          *)
FaultInv ==
    /\ TypeOK
    /\ trouble # "reconciler" => OneClaim
    /\ trouble = "timeout" => Gentle

(* FaultNext restricts Next to the chosen source.                          *)
LEMMA FaultSteps ==
    ASSUME [FaultNext]_faultVars
    PROVE  /\ trouble' = trouble
           /\ [Next]_vars
           /\ trouble # "reconciler" => [Unreconciled]_vars
           /\ trouble = "timeout" => [Unforced]_vars
<1>1. CASE UNCHANGED faultVars
  BY <1>1 DEF faultVars
<1>2. CASE FaultNext
  <2>1. Undisturbed(Reported) => Undisturbed(Reports)
    <3>1. \A t : RunnerApi(t, Reported) => RunnerApi(t, Reports)
      BY DEF RunnerApi, Reported
    <3> QED
      BY <3>1 DEF Undisturbed
  <2> QED
    BY <1>2, <2>1 DEF FaultNext, Next, Unreconciled, Unforced
<1> QED
  BY <1>1, <1>2

(* Under any of the sources: unless the reconciler acts, a task is with one *)
(* runner at most (GetRunner offers it only to the runner it is assigned   *)
(* to), and under timeouts and silent runners a task that is finished and  *)
(* still in the running map has run() or a call of FinalizeRemoteTask to   *)
(* remove it, so that it does not hold a slot for ever.                    *)
THEOREM HoldersSoundHolds == FaultSpec => []HoldersSound
<1>1. FaultInit => FaultInv
  BY TypedInit, OneClaimInit, GentleInit DEF FaultInit, FaultInv
<1>2. FaultInv /\ [FaultNext]_faultVars => FaultInv'
  <2> SUFFICES ASSUME FaultInv, [FaultNext]_faultVars PROVE FaultInv'
    OBVIOUS
  <2>1. TypeOK'
    BY FaultSteps, TypedStep DEF FaultInv
  <2>2. trouble' # "reconciler" => OneClaim'
    BY FaultSteps, OneClaimStep DEF FaultInv
  <2>3. trouble' = "timeout" => Gentle'
    BY FaultSteps, GentleStep DEF FaultInv
  <2> QED
    BY <2>1, <2>2, <2>3 DEF FaultInv
<1>3. FaultInv => HoldersSound
  BY OneClaimSingle, GentleNoLeak DEF FaultInv, HoldersSound, NoLeakUnforced, OneHolder
<1> QED
  BY <1>1, <1>2, <1>3, PTL DEF FaultSpec

-----------------------------------------------------------------------------
(* The reconciler: what it requeues is neither doubled nor lost.            *)

\* A task that run() has claimed and not given to a runner yet.
Claimed(t) == run[t] \in {"sleep", "started", "selected"}

\* The reconciler has decided about the task, or waits to send its event.
Decided(t) == recon.task = t /\ recon.pc \in {"requeue", "fail"}
Resent(t)  == recon.task = t /\ recon.pc = "send"

(* What holds however late reports are: a queued task has no runner and is  *)
(* not claimed, nor is one the reconciler has decided about.               *)
Kept(t) ==
    /\ InIntake(t) \/ InQueue(t) \/ InRun(t) => Exists(t)
    /\ ~(t \in registering /\ loop = t)
    /\ InIntake(t) => ~InQueue(t) /\ ~InRun(t)
    /\ InQueue(t) \/ Claimed(t) => runner[t] = NoRunner
    /\ ~(InQueue(t) /\ Claimed(t))
    /\ run[t] = "send" \/ fin[t] \in {"send", "autorun", "children"} => t \in ended
    /\ Decided(t) => runner[t] # NoRunner

(* What holds of a task without a recorded end until a report is overtaken: *)
(* it is somewhere, it is not finished before it has a runner, and while an *)
(* event of its requeue is to come it is queued and still in the running    *)
(* map, so that its own template keeps handleQueue from claiming it.       *)
Followed(t) ==
    /\ Exists(t) => InIntake(t) \/ Known(t) \/ IsFinished(row[t])
    /\ InRun(t) => Known(t)
    /\ ~Exists(t) \/ InIntake(t) \/ InQueue(t) \/ Claimed(t) => ~IsFinished(status[t])
    /\ requeued[t] > 0 \/ Resent(t) => InQueue(t) /\ t \in running
    /\ requeued[t] <= 1 /\ (requeued[t] = 1 => ~Resent(t))

(* The inductive invariant for RequeueKeeps.                               *)
Requeuable ==
    /\ Distinct(queue) /\ active = running
    /\ \A t \in Tasks : Kept(t) /\ (late \/ t \in ended \/ Followed(t))

\* What happens while the reconciler is the source of trouble.
Reconciled == Undisturbed(Reports) \/ \E t \in Tasks : Reconciler(t)

\* A step leaves u where it is.
SameTrack(u) ==
    /\ InQueue(u)' <=> InQueue(u)
    /\ u \in registering' <=> u \in registering
    /\ loop' = u <=> loop = u
    /\ u \in running' <=> u \in running
    /\ run'[u] = run[u] /\ runner'[u] = runner[u] /\ requeued'[u] = requeued[u]
    /\ status'[u] = status[u] /\ row'[u] = row[u] /\ fin'[u] = fin[u]
    /\ Decided(u)' => Decided(u)
    /\ Resent(u)' <=> Resent(u)

(* A task that a step leaves alone keeps what the invariant says of it.     *)
LEMMA SameKept ==
    ASSUME NEW u, SameTrack(u), ended \subseteq ended'
    PROVE  (Kept(u) => Kept(u)') /\ (Followed(u) => Followed(u)')
BY DEF SameTrack, Kept, Followed, InIntake, InRun, Claimed, Known, Exists, IsFinished

(* What a step of one task has to show.                                    *)
LEMMA MoveKept ==
    ASSUME Requeuable, NEW t \in Tasks, ended \subseteq ended', late => late',
           Distinct(queue'), active' = running',
           \A u \in Tasks : u # t => SameTrack(u),
           Kept(t)', late' \/ t \in ended' \/ Followed(t)'
    PROVE  Requeuable'
BY SameKept DEF Requeuable

(* What a step of no task has to show.                                     *)
LEMMA StayKept ==
    ASSUME Requeuable, ended \subseteq ended', late => late',
           Distinct(queue'), active' = running',
           \A u \in Tasks : SameTrack(u)
    PROVE  Requeuable'
BY SameKept DEF Requeuable

(* AddTask: a task without a row is nowhere and not finished.              *)
LEMMA CreateKept ==
    ASSUME TypeOK, Requeuable, late => late', NEW t \in Tasks,
           CreateTask(t) \/ CreateTaskFails(t), UNCHANGED remoteVars
    PROVE  Requeuable'
<1> USE DEF storeVars, intake, remoteVars, jobVars, endVars
<1>1. /\ UNCHANGED <<queue, running, active, loop, run, runner, requeued, fin, recon, ended>>
      /\ registering' \in {registering, registering \cup {t}}
      /\ \A u \in Tasks : u # t => status'[u] = status[u] /\ row'[u] = row[u]
  BY DEF CreateTask, CreateTaskFails, TypeOK
<1>2. \A u \in Tasks : u # t => SameTrack(u)
  BY <1>1 DEF SameTrack, InQueue, Decided, Resent
<1>3. ~Exists(t) /\ Kept(t)
  BY DEF CreateTask, CreateTaskFails, Requeuable
<1>4. ~InIntake(t) /\ ~InQueue(t) /\ ~InRun(t)
  BY <1>3 DEF Kept
<1>5. Exists(t)' /\ ~InQueue(t)' /\ ~InRun(t)' /\ (InIntake(t)' => CreateTask(t))
  BY <1>1, <1>4 DEF CreateTask, CreateTaskFails, Exists, TypeOK, InQueue, InRun, InIntake
<1>6. Kept(t)'
  BY <1>1, <1>3, <1>4, <1>5 DEF Kept, InIntake, InRun, Claimed, Decided
<1>7. Followed(t) => Followed(t)'
  <2>1. ASSUME Followed(t), CreateTask(t) PROVE Followed(t)'
    BY <1>1, <1>3, <1>4, <1>5, <2>1 DEF Followed, CreateTask, InIntake, InRun, Claimed, Resent, IsFinished
  <2>2. ASSUME Followed(t), CreateTaskFails(t) PROVE Followed(t)'
    <3>1. row'[t] = "error"
      BY <2>2 DEF CreateTaskFails, TypeOK
    <3>2. IsFinished(row'[t])
      BY <3>1 DEF IsFinished, FinishedStatuses
    <3>3. ~InIntake(t)'
      BY <1>4, <2>2 DEF CreateTaskFails, InIntake
    <3> QED
      BY <1>1, <1>3, <1>4, <1>5, <2>2, <3>2, <3>3 DEF Followed, InRun, Claimed, Resent
  <2> QED
    BY <2>1, <2>2
<1> QED
  BY <1>1, <1>2, <1>6, <1>7, MoveKept DEF Requeuable

(* Run takes a task from AddTask and gives it to handleQueue.              *)
LEMMA RegisterKept ==
    ASSUME TypeOK, Requeuable, late => late', NEW t \in Tasks,
           Register(t) \/ HandleNew(t), UNCHANGED remoteVars
    PROVE  Requeuable'
<1> USE PoolAssumption DEF taskVars, storeVars, remoteVars, jobVars, endVars
<1>0. Kept(t) /\ InIntake(t) /\ Exists(t) /\ ~InQueue(t) /\ ~InRun(t)
  BY DEF Register, HandleNew, Requeuable, Kept, InIntake
<1>1. UNCHANGED <<status, running, active, run, runner, requeued, fin, recon, ended>>
  BY DEF Register, HandleNew
<1>2. CASE Register(t)
  <2>1. /\ registering' = registering \ {t} /\ loop' = t /\ loop = "idle" /\ UNCHANGED queue
        /\ row' = [row EXCEPT ![t] = status[t]]
    BY <1>2 DEF Register, saveStatus
  <2>2. \A u \in Tasks : u # t => SameTrack(u)
    BY <1>1, <2>1 DEF SameTrack, InQueue, Decided, Resent, TypeOK
  <2>3. Exists(t)' /\ ~InQueue(t)' /\ ~InRun(t)' /\ InIntake(t)' /\ ~(t \in registering')
    <3>1. "none" \notin Statuses
      BY DEF Statuses, UnfinishedTaskStatuses, FinishedStatuses
    <3> QED
      BY <1>0, <1>1, <2>1, <3>1 DEF Exists, TypeOK, InQueue, InRun, InIntake
  <2>4. Kept(t)'
    BY <1>0, <1>1, <2>3 DEF Kept, InRun, Claimed, Decided
  <2>5. Followed(t) => Followed(t)'
    BY <1>0, <1>1, <2>3 DEF Followed, InRun, Claimed, Resent, IsFinished
  <2> QED
    BY <1>1, <2>1, <2>2, <2>4, <2>5, MoveKept DEF Requeuable
<1>3. CASE HandleNew(t)
  <2>1. /\ queue' = Append(queue, t) /\ loop' = "idle" /\ loop = t
        /\ UNCHANGED <<registering, row>>
    BY <1>3 DEF HandleNew
  <2>2. Distinct(queue') /\ Entries(queue') = Entries(queue) \cup {t}
    BY <1>0, <2>1, AppendQueue, InQueueEntries DEF Requeuable, TypeOK
  <2>3. \A u : InQueue(u)' <=> InQueue(u) \/ u = t
    BY <2>2, InQueueEntries
  <2>4. \A u \in Tasks : u # t => SameTrack(u)
    BY <1>1, <2>1, <2>3 DEF SameTrack, Decided, Resent
  <2>5. Exists(t)' /\ InQueue(t)' /\ ~InIntake(t)' /\ ~InRun(t)'
    BY <1>0, <1>1, <2>1, <2>3 DEF Exists, InIntake, InRun, Kept
  <2>6. Kept(t)'
    BY <1>0, <1>1, <2>1, <2>5 DEF Kept, InRun, InIntake, Claimed, Decided
  <2>7. Followed(t) => Followed(t)'
    BY <1>0, <1>1, <2>5 DEF Followed, Known, InRun, Claimed, Resent, IsFinished
  <2> QED
    BY <1>1, <2>2, <2>4, <2>6, <2>7, MoveKept DEF Requeuable
<1> QED
  BY <1>2, <1>3

(* handleQueue.  A queued task whose event is to come is in the active set  *)
(* and unfinished: its own template blocks it.                             *)
LEMMA HandlerKept ==
    ASSUME AllowParallelTasks = {}, TypeOK, Requeuable, late => late',
           Tick \/ HandleQueue, UNCHANGED remoteVars
    PROVE  Requeuable'
<1> USE PoolAssumption DEF taskVars, storeVars, intake, remoteVars, jobVars, endVars
<1>1. CASE Tick \/ HandleTick \/ Snapshot
  <2>1. UNCHANGED <<status, row, ended, queue, running, active, registering, run, runner, requeued, fin, recon>>
    BY <1>1 DEF Tick, HandleTick, Snapshot
  <2>2. \A u \in Tasks : loop' = u <=> loop = u
    BY <1>1 DEF Tick, HandleTick, Snapshot
  <2>3. \A u \in Tasks : SameTrack(u)
    BY <2>1, <2>2 DEF SameTrack, InQueue, Decided, Resent
  <2> QED
    BY <2>1, <2>3, StayKept DEF Requeuable
<1>2. CASE ScanSkip
  <2>1. UNCHANGED <<status, row, ended, running, active, registering, loop, run, runner, requeued, fin, recon>>
    BY <1>2 DEF ScanSkip
  <2>2. CASE UNCHANGED queue
    <3>1. \A u \in Tasks : SameTrack(u)
      BY <2>1, <2>2 DEF SameTrack, InQueue, Decided, Resent
    <3> QED
      BY <2>1, <2>2, <3>1, StayKept DEF Requeuable
  <2>3. CASE ~UNCHANGED queue
    <3>1. PICK t \in Tasks : Dequeue(t) /\ status[t] = "error"
      <4>1. Head(todo) \in Tasks
        BY <1>2 DEF ScanSkip, TypeOK
      <4> QED
        BY <1>2, <2>3, <4>1 DEF ScanSkip
    <3>2. Distinct(queue') /\ Entries(queue') = Entries(queue) \ {t}
      BY SMTT(20), <3>1, RemoveQueue DEF Dequeue, Requeuable, TypeOK
    <3>3. \A u : InQueue(u)' <=> InQueue(u) /\ u # t
      BY <3>2, InQueueEntries
    <3>4. \A u \in Tasks : u # t => SameTrack(u)
      BY <2>1, <3>3 DEF SameTrack, Decided, Resent
    <3>5. Kept(t) => Kept(t)'
      BY <2>1, <3>3 DEF Kept, InIntake, InRun, Claimed, Decided, Exists
    <3>6. InQueue(t) => late \/ t \in ended
      <4>1. IsFinished(status[t])
        BY <3>1 DEF IsFinished, FinishedStatuses
      <4> QED
        BY <4>1 DEF Requeuable, Followed
    <3>7. CASE InQueue(t)
      BY <2>1, <3>2, <3>4, <3>5, <3>6, <3>7, MoveKept DEF Requeuable
    <3>8. CASE ~InQueue(t)
      <4>1. SameTrack(t)
        BY <2>1, <3>3, <3>8 DEF SameTrack, Decided, Resent
      <4> QED
        BY <2>1, <3>2, <3>4, <4>1, StayKept DEF Requeuable
    <3> QED
      BY <3>7, <3>8
  <2> QED
    BY <2>2, <2>3
<1>3. CASE ScanRun
  <2>0. Head(todo) \in Tasks
    BY <1>3 DEF ScanRun, TypeOK
  <2>1. PICK t \in Tasks : /\ InQueue(t) /\ Dequeue(t) /\ onTaskRun(t)
                           /\ run' = [run EXCEPT ![t] = "sleep"]
                           /\ ~TemplateBusy(t)
                           /\ UNCHANGED <<status, row, ended, intake>>
    BY <1>3, <2>0 DEF ScanRun, Blocks
  <2>2. Distinct(queue') /\ Entries(queue') = Entries(queue) \ {t}
    BY <2>1, RemoveQueue DEF Dequeue, Requeuable, TypeOK
  <2>3. \A u : InQueue(u)' <=> InQueue(u) /\ u # t
    BY <2>2, InQueueEntries
  <2>4. /\ run'[t] = "sleep" /\ \A u \in Tasks : u # t => run'[u] = run[u]
        /\ running' = running \cup {t} /\ active' = active \cup {t}
        /\ UNCHANGED <<registering, loop, runner, requeued, fin, recon>>
    BY <2>1 DEF onTaskRun, TypeOK
  <2>5. \A u \in Tasks : u # t => SameTrack(u)
    BY <2>1, <2>3, <2>4 DEF SameTrack, Decided, Resent
  <2>6. Kept(t) /\ Exists(t) /\ ~InIntake(t) /\ runner[t] = NoRunner /\ ~Decided(t)
    BY <2>1 DEF Requeuable, Kept
  <2>7. Kept(t)'
    BY <2>1, <2>3, <2>4, <2>6 DEF Kept, InIntake, InRun, Claimed, Decided, Exists
  <2>8. Followed(t) => Followed(t)'
    <3> SUFFICES ASSUME Followed(t) PROVE Followed(t)'
      OBVIOUS
    <3>1. ~IsFinished(status[t])
      BY <2>1 DEF Followed
    <3>2. t \notin active
      BY <2>1, <3>1 DEF TemplateBusy, ActiveOf
    <3>3. ~(requeued[t] > 0) /\ ~Resent(t)
      BY <3>2 DEF Followed, Requeuable
    <3>4. t \in running' /\ Exists(t)'
      BY <2>1, <2>4, <2>6 DEF Exists
    <3> QED
      BY <2>1, <2>4, <3>1, <3>3, <3>4 DEF Followed, Known, Resent, IsFinished
  <2> QED
    BY <2>1, <2>2, <2>4, <2>5, <2>7, <2>8, MoveKept DEF Requeuable
<1> QED
  BY <1>1, <1>2, <1>3 DEF HandleQueue

(* run(): it puts the task back or assigns a runner as its last act.       *)
LEMMA RunKept ==
    ASSUME TypeOK, Requeuable, late => late', NEW t \in Tasks, RunStep(t)
    PROVE  Requeuable'
<1> USE DEF others, taskVars, storeVars, intake, remoteVars, jobVars, endVars
<1>0. Kept(t) /\ run[t] # "none" /\ InRun(t) /\ Exists(t) /\ ~InIntake(t)
  BY DEF RunStep, BeginRun, DispatchFails, SelectRunner, Requeue, AssignFails, AssignRunner,
     JobError, FinishRun, Goto, Requeuable, Kept, InRun
<1>1. Exists(t)'
  BY <1>0, RowsStay DEF Unreconciled, Undisturbed
<1>2. UNCHANGED <<running, active, registering, loop, recon, fin>> /\ ended \subseteq ended'
  BY DEF RunStep, BeginRun, DispatchFails, SelectRunner, Requeue, AssignFails, AssignRunner,
     JobError, FinishRun, SaveEnd
<1>3. \A u \in Tasks : u # t =>
         /\ run'[u] = run[u] /\ runner'[u] = runner[u] /\ requeued'[u] = requeued[u]
         /\ status'[u] = status[u] /\ row'[u] = row[u]
  BY DEF RunStep, BeginRun, DispatchFails, SelectRunner, Requeue, AssignFails, AssignRunner,
     JobError, FinishRun, Goto, SetStatus, SaveEnd, saveStatus, TypeOK
<1>4. CASE Requeue(t)
  <2>1. /\ run[t] = "started" /\ run'[t] = "none" /\ UNCHANGED <<runner, ended>>
        /\ queue' = Append(queue, t) /\ requeued'[t] = requeued[t] + 1
        /\ status'[t] = AfterSetStatus(status[t], "waiting")
    BY <1>4 DEF Requeue, Goto, SetStatus, TypeOK
  <2>2. Claimed(t) /\ ~InQueue(t) /\ runner[t] = NoRunner
    BY <1>0, <2>1 DEF Claimed, Kept
  <2>3. Distinct(queue') /\ Entries(queue') = Entries(queue) \cup {t}
    BY <2>1, <2>2, AppendQueue, InQueueEntries DEF Requeuable, TypeOK
  <2>4. \A u : InQueue(u)' <=> InQueue(u) \/ u = t
    BY <2>3, InQueueEntries
  <2>5. \A u \in Tasks : u # t => SameTrack(u)
    BY <1>2, <1>3, <2>4 DEF SameTrack, Decided, Resent
  <2>6. Kept(t)'
    BY <1>0, <1>1, <1>2, <2>1, <2>2, <2>4 DEF Kept, InIntake, InRun, Claimed, Decided
  <2>7. Followed(t) => Followed(t)'
    <3> SUFFICES ASSUME Followed(t) PROVE Followed(t)'
      OBVIOUS
    <3>1. t \in running /\ ~(requeued[t] > 0) /\ ~Resent(t) /\ ~IsFinished(status[t])
      BY <1>0, <2>2 DEF Followed, Known
    <3>2. requeued'[t] = 1
      BY <2>1, <3>1, RemoteAssumption DEF TypeOK
    <3>3. ~IsFinished(status'[t])
      BY <2>1, <3>1 DEF AfterSetStatus, IsFinished, FinishedStatuses
    <3>4. InQueue(t)' /\ t \in running' /\ ~Resent(t)'
      BY <1>2, <2>4, <3>1 DEF Resent
    <3> QED
      BY <1>1, <3>2, <3>3, <3>4 DEF Followed, Known
  <2> QED
    BY <1>2, <2>1, <2>3, <2>5, <2>6, <2>7, MoveKept DEF Requeuable
<1>5. CASE ~Requeue(t)
  <2>1. UNCHANGED <<queue, requeued>>
    BY <1>5 DEF RunStep, BeginRun, DispatchFails, SelectRunner, AssignFails, AssignRunner,
       JobError, FinishRun
  <2>2. \A u \in Tasks : u # t => SameTrack(u)
    BY <1>2, <1>3, <2>1 DEF SameTrack, InQueue, Decided, Resent
  <2>3. \/ /\ Claimed(t) /\ Claimed(t)' /\ runner'[t] = runner[t]
           /\ ~IsFinished(status[t]) => ~IsFinished(status'[t])
        \/ Claimed(t) /\ run'[t] = "finish"
        \/ Claimed(t) /\ run'[t] = "none"
        \/ run[t] = "finish" /\ run'[t] = "send" /\ t \in ended' /\ runner'[t] = runner[t]
    <3>1. CASE BeginRun(t) /\ UNCHANGED remoteVars
      <4>1. CASE status[t] = "stopping"
        BY <3>1, <4>1 DEF BeginRun, Goto, Claimed, TypeOK
      <4>2. CASE status[t] # "stopping"
        <5>1. /\ run[t] = "sleep" /\ run'[t] = "started" /\ runner' = runner
              /\ status'[t] = AfterSetStatus(status[t], "starting")
          BY <3>1, <4>2 DEF BeginRun, Goto, SetStatus, TypeOK
        <5>2. ~IsFinished(status[t]) => ~IsFinished(status'[t])
          BY <5>1 DEF AfterSetStatus, IsFinished, FinishedStatuses
        <5> QED
          BY <5>1, <5>2 DEF Claimed
      <4> QED
        BY <4>1, <4>2
    <3>2. CASE DispatchFails(t) \/ AssignFails(t)
      BY <3>2 DEF DispatchFails, AssignFails, JobError, Goto, Claimed, TypeOK
    <3>3. CASE \E r \in Runners : SelectRunner(t, r)
      BY <3>3 DEF SelectRunner, Goto, Claimed, TypeOK
    <3>4. CASE AssignRunner(t)
      BY <3>4 DEF AssignRunner, Goto, Claimed, TypeOK
    <3>5. CASE FinishRun(t) /\ UNCHANGED jobVars
      BY <3>5 DEF FinishRun, Goto, SaveEnd, TypeOK
    <3> QED
      BY <1>5, <3>1, <3>2, <3>3, <3>4, <3>5 DEF RunStep
  <2>4. (InQueue(t)' <=> InQueue(t)) /\ ~InIntake(t)' /\ (Decided(t)' <=> Decided(t)) /\ (Resent(t)' <=> Resent(t))
    BY <1>0, <1>2, <2>1 DEF InQueue, InIntake, Decided, Resent
  <2>5. Claimed(t) => ~InQueue(t) /\ runner[t] = NoRunner /\ ~Decided(t)
    BY <1>0 DEF Kept
  <2>6. Kept(t)'
    BY <1>0, <1>1, <1>2, <2>3, <2>4, <2>5 DEF Kept, InIntake, Claimed
  <2>7. t \notin ended' => (Followed(t) => Followed(t)')
    <3> SUFFICES ASSUME Followed(t), t \notin ended' PROVE Followed(t)'
      OBVIOUS
    <3>1. Claimed(t) /\ t \in running /\ ~InQueue(t)
      BY <1>0, <2>3, <2>5 DEF Followed, Known
    <3>2. Claimed(t)' => ~IsFinished(status'[t])
      BY <2>3, <3>1 DEF Followed, Claimed
    <3>3. t \in running' /\ ~InQueue(t)' /\ requeued'[t] = requeued[t]
      BY <1>2, <2>1, <2>4, <3>1
    <3> QED
      BY <1>1, <2>4, <3>1, <3>2, <3>3 DEF Followed, Known
  <2> QED
    BY <1>2, <2>1, <2>2, <2>6, <2>7, MoveKept DEF Requeuable
<1> QED
  BY <1>4, <1>5

(* The events of an end and of a requeue: the slot is released, and a task  *)
(* whose requeue is announced is in the queue.                             *)
LEMMA SendsKept ==
    ASSUME TypeOK, Requeuable, late => late', NEW t \in Tasks, Sends(t) \/ ReconcilerSends(t)
    PROVE  Requeuable'
<1> USE DEF taskVars, intake, remoteVars, jobVars, endVars
<1>1. /\ running' = running \ {t} /\ active' = active \ {t}
      /\ UNCHANGED <<queue, status, row, ended, registering, loop, runner>>
      /\ \A u \in Tasks : u # t =>
            run'[u] = run[u] /\ requeued'[u] = requeued[u] /\ fin'[u] = fin[u]
  BY DEF Sends, SendFinished, SendRequeued, FinalizeSend, ReconcilerSends, FinGoto, Goto, ReceiveFinished,
     ReceiveRequeued, onTaskStop, TypeOK
<1>2. recon' = recon \/ (recon.task = t /\ recon.pc = "send" /\ recon' = NoDecision)
  BY DEF Sends, SendFinished, SendRequeued, FinalizeSend, ReconcilerSends
<1>3. \A u \in Tasks : (Decided(u)' => Decided(u)) /\ (u # t => (Resent(u)' <=> Resent(u)))
  BY <1>2, PoolAssumption DEF Decided, Resent, NoDecision
<1>4. \A u \in Tasks : u # t => SameTrack(u)
  BY <1>1, <1>3 DEF SameTrack, InQueue
<1>5. Kept(t) /\ (InQueue(t)' <=> InQueue(t)) /\ (InIntake(t)' <=> InIntake(t)) /\ (Exists(t)' <=> Exists(t))
  BY <1>1 DEF Requeuable, InQueue, InIntake, Exists
<1>6. CASE SendFinished(t) /\ UNCHANGED remoteVars
  <2>1. run[t] = "send" /\ run'[t] = "none" /\ UNCHANGED fin
    BY <1>6 DEF SendFinished, Goto, TypeOK
  <2>2. t \in ended /\ t \in ended'
    BY <1>1, <1>5, <2>1 DEF Kept
  <2>3. Kept(t)'
    BY <1>1, <1>3, <1>5, <2>1, <2>2 DEF Kept, InRun, Claimed, InIntake
  <2> QED
    BY <1>1, <1>4, <2>2, <2>3, MoveKept DEF Requeuable
<1>7. CASE FinalizeSend(t)
  <2>1. fin[t] = "send" /\ UNCHANGED run
    BY <1>7 DEF FinalizeSend, FinGoto
  <2>2. t \in ended /\ t \in ended'
    BY <1>1, <1>5, <2>1 DEF Kept
  <2>3. Kept(t)'
    BY <1>1, <1>3, <1>5, <2>1, <2>2 DEF Kept, InRun, Claimed, InIntake
  <2> QED
    BY <1>1, <1>4, <2>2, <2>3, MoveKept DEF Requeuable
<1>8. CASE SendRequeued(t) \/ ReconcilerSends(t)
  <2>1. /\ UNCHANGED <<run, fin>>
        /\ \/ requeued[t] > 0 /\ requeued'[t] = requeued[t] - 1 /\ UNCHANGED recon
           \/ Resent(t) /\ requeued'[t] = requeued[t] /\ recon' = NoDecision
    BY <1>8 DEF SendRequeued, ReconcilerSends, Resent, TypeOK
  <2>2. Kept(t)'
    BY <1>1, <1>3, <1>5, <2>1 DEF Kept, InRun, Claimed, InIntake
  <2>3. Followed(t) => Followed(t)'
    <3> SUFFICES ASSUME Followed(t) PROVE Followed(t)'
      OBVIOUS
    <3>1. InQueue(t) /\ Exists(t) /\ ~IsFinished(status[t])
      BY <1>5, <2>1 DEF Followed, Kept
    <3>2. requeued'[t] = 0 /\ ~Resent(t)'
      <4>1. requeued[t] \in Nat /\ requeued[t] <= 1 /\ (requeued[t] = 1 => ~Resent(t))
        BY RemoteAssumption DEF Followed, TypeOK
      <4>2. CASE requeued[t] > 0 /\ requeued'[t] = requeued[t] - 1 /\ UNCHANGED recon
        BY <4>1, <4>2 DEF Resent
      <4>3. CASE Resent(t) /\ requeued'[t] = requeued[t] /\ recon' = NoDecision
        BY <4>1, <4>3, PoolAssumption DEF Resent, NoDecision
      <4> QED
        BY <2>1, <4>2, <4>3
    <3>3. InQueue(t)' /\ Exists(t)' /\ ~IsFinished(status'[t])
      BY <1>1, <1>5, <3>1 DEF IsFinished
    <3> QED
      BY <3>2, <3>3 DEF Followed, Known
  <2> QED
    BY <1>1, <1>4, <2>2, <2>3, MoveKept DEF Requeuable
<1> QED
  BY <1>6, <1>7, <1>8 DEF Sends

(* FinalizeRemoteTask: it records the end before it releases the slot.     *)
LEMMA FinalizeKept ==
    ASSUME TypeOK, Requeuable, late => late', NEW t \in Tasks, FinalizeStep(t)
    PROVE  Requeuable'
<1> USE DEF poolVars, taskVars, storeVars, intake, remoteVars, jobVars, endVars
<1>1. CASE \E c \in Tasks : AutorunChild(t, c) /\ UNCHANGED remoteVars
  BY <1>1, CreateKept DEF AutorunChild
<1>2. CASE FinalizeFinish(t)
  <2>1. /\ ended' = ended \cup {t} /\ row' = [row EXCEPT ![t] = status[t]]
        /\ fin' = [fin EXCEPT ![t] = "send"]
        /\ UNCHANGED <<queue, running, active, status, registering, loop, run, runner, requeued, recon>>
    BY <1>2 DEF FinalizeFinish, FinGoto, SaveEnd, saveStatus
  <2>2. \A u \in Tasks : u # t => SameTrack(u)
    BY <2>1 DEF SameTrack, InQueue, Decided, Resent, TypeOK
  <2>3. Exists(t)'
    <3>1. "none" \notin Statuses
      BY DEF Statuses, UnfinishedTaskStatuses, FinishedStatuses
    <3> QED
      BY <2>1, <3>1 DEF Exists, TypeOK
  <2>4. Kept(t)'
    BY <2>1, <2>3 DEF Requeuable, Kept, InIntake, InQueue, InRun, Claimed, Decided
  <2> QED
    BY <2>1, <2>2, <2>4, MoveKept DEF Requeuable
<1>3. CASE \/ TryFinalize(t)
           \/ fin[t] \in {"autorun", "children"} /\ (\E x \in {"children", "none"} : fin' = [fin EXCEPT ![t] = x])
              /\ UNCHANGED <<poolVars, jobVars, held, report, timer, finalizers, recon, finishes>>
  <2>1. /\ UNCHANGED <<status, row, ended, queue, running, active, registering, loop, run, runner, requeued, recon>>
        /\ \A u \in Tasks : u # t => fin'[u] = fin[u]
        /\ \/ fin'[t] \in {"none", "locked", fin[t]}
           \/ fin[t] \in {"autorun", "children"} /\ fin'[t] = "children"
    BY <1>3 DEF TryFinalize, TypeOK
  <2>2. \A u \in Tasks : u # t => SameTrack(u)
    BY <2>1 DEF SameTrack, InQueue, Decided, Resent
  <2>3. Kept(t)'
    BY <2>1 DEF Requeuable, Kept, InIntake, InQueue, InRun, Claimed, Decided, Exists
  <2>4. Followed(t) => Followed(t)'
    BY <2>1 DEF Followed, InIntake, InQueue, InRun, Claimed, Known, Resent, Exists, IsFinished
  <2> QED
    BY <2>1, <2>2, <2>3, <2>4, MoveKept DEF Requeuable
<1> QED
  BY <1>1, <1>2, <1>3 DEF FinalizeStep, FinalizeAutorun, FinGoto

(* A report or a failed poll changes the status of a task that a runner has *)
(* and the reconciler leaves, and so it may finish that task; a report that *)
(* finds no runner is late.                                                *)
LEMMA ApiKept ==
    ASSUME TypeOK, Requeuable, late => late', NEW t \in Tasks, RunnerApi(t, Reports),
           Overtaken(t) => late'
    PROVE  Requeuable'
<1> USE DEF others, poolVars, taskVars, storeVars, intake, remoteVars, jobVars, endVars
<1>0. /\ UNCHANGED <<ended, queue, running, active, registering, loop, run, runner, requeued, fin, recon>>
      /\ \A u \in Tasks : u # t => status'[u] = status[u] /\ row'[u] = row[u]
  BY DEF RunnerApi, PollDelivers, PollFails, ReportApplies, ReportArrives, ReportRejected, SetStatus, TypeOK
<1>1. \A u \in Tasks : u # t => SameTrack(u)
  BY <1>0 DEF SameTrack, InQueue, Decided, Resent
<1>2. CASE UNCHANGED <<status, row>>
  <2>1. \A u \in Tasks : SameTrack(u)
    BY <1>0, <1>2 DEF SameTrack, InQueue, Decided, Resent
  <2> QED
    BY <1>0, <2>1, StayKept DEF Requeuable
<1>3. CASE PollFails(t) \/ ReportApplies(t)
  <2>1. Kept(t) /\ (Exists(t) => Exists(t)')
    BY RowsStay DEF Requeuable, Unreconciled, Undisturbed
  <2>2. Kept(t)'
    BY <1>0, <2>1 DEF Kept, InIntake, InQueue, InRun, Claimed, Decided
  <2>3. late' \/ runner[t] # NoRunner
    <3>1. CASE PollFails(t)
      BY <3>1 DEF PollFails
    <3>2. CASE ReportApplies(t)
      BY <3>2 DEF ReportApplies, Overtaken, TypeOK
    <3> QED
      BY <1>3, <3>1, <3>2
  <2>4. ASSUME runner[t] # NoRunner, Followed(t) PROVE Followed(t)'
    <3>1. InRun(t) /\ Exists(t) /\ ~InIntake(t) /\ ~InQueue(t) /\ ~Claimed(t) /\ Exists(t)'
      BY <2>1, <2>4 DEF Kept, InRun
    <3>2. t \in running /\ ~(requeued[t] > 0) /\ ~Resent(t)
      BY <2>4, <3>1 DEF Followed, Known
    <3>3. t \in running' /\ ~InIntake(t)' /\ ~InQueue(t)' /\ ~Claimed(t)' /\ ~Resent(t)'
      BY <1>0, <3>1, <3>2 DEF InIntake, InQueue, Claimed, Resent
    <3> QED
      BY <1>0, <2>4, <3>1, <3>2, <3>3 DEF Followed, Known
  <2> QED
    BY <1>0, <1>1, <2>2, <2>3, <2>4, MoveKept DEF Requeuable
<1> QED
  BY <1>2, <1>3 DEF RunnerApi, PollDelivers, ReportArrives, ReportRejected

(* The reconciler decides about tasks that a runner has, which are neither  *)
(* queued nor claimed: what it requeues is queued once, and stays in the    *)
(* running map until its event or until it is completed.                   *)
LEMMA ReconcilerKept ==
    ASSUME TypeOK, Requeuable, late => late', NEW t \in Tasks, Reconciler(t)
    PROVE  Requeuable'
<1> USE PoolAssumption DEF others, poolVars, taskVars, storeVars, intake, remoteVars, jobVars, endVars
<1>1. CASE ReconcilerSends(t)
  BY <1>1, SendsKept
<1>2. CASE Keeps(t)
  <2>1. /\ UNCHANGED <<poolVars, jobVars, fin>>
        /\ recon.pc \in {"requeue", "fail"} /\ recon' = NoDecision
    BY <1>2 DEF Keeps
  <2>2. \A u \in Tasks : SameTrack(u)
    BY <2>1 DEF SameTrack, InQueue, Decided, Resent, NoDecision
  <2> QED
    BY <2>1, <2>2, StayKept DEF Requeuable
<1>3. ASSUME runner[t] # NoRunner
      PROVE  /\ Kept(t) /\ InRun(t) /\ Exists(t) /\ ~InIntake(t) /\ ~InQueue(t) /\ ~Claimed(t)
             /\ Followed(t) => t \in running /\ requeued[t] = 0
  <2>1. Kept(t) /\ InRun(t) /\ Exists(t) /\ ~InIntake(t) /\ ~InQueue(t) /\ ~Claimed(t)
    BY <1>3 DEF Requeuable, Kept, InRun
  <2>2. requeued[t] \in Nat
    BY RemoteAssumption DEF TypeOK
  <2> QED
    BY <2>1, <2>2 DEF Followed, Known
<1>4. CASE Decide(t)
  <2>1. /\ UNCHANGED <<poolVars, jobVars, fin>> /\ recon.pc \in {"idle", "finalize"}
        /\ runner[t] # NoRunner /\ recon'.task = t /\ recon'.pc \in {"requeue", "fail"}
    BY <1>4 DEF Decide
  <2>2. \A u \in Tasks : ~Resent(u) /\ ~Resent(u)' /\ (u # t => ~Decided(u)')
    BY <2>1 DEF Resent, Decided
  <2>3. \A u \in Tasks : u # t => SameTrack(u)
    BY <2>1, <2>2 DEF SameTrack, InQueue
  <2>4. Kept(t)'
    BY <1>3, <2>1 DEF Kept, InIntake, InQueue, InRun, Claimed, Exists
  <2>5. Followed(t) => Followed(t)'
    BY <2>1, <2>2 DEF Followed, InIntake, InQueue, InRun, Claimed, Known, Exists, IsFinished
  <2> QED
    BY <2>1, <2>3, <2>4, <2>5, MoveKept DEF Requeuable
<1>5. CASE RequeueTaskRunnerOffline(t) \/ FailTaskRunnerLost(t)
  <2>1. recon.task = t /\ recon.pc \in {"requeue", "fail"} /\ runner[t] # NoRunner
    <3>1. Decided(t)
      BY <1>5 DEF RequeueTaskRunnerOffline, FailTaskRunnerLost, Decided
    <3> QED
      BY <3>1 DEF Requeuable, Kept, Decided
  <2>2. /\ UNCHANGED <<ended, running, active, registering, loop, run, requeued>>
        /\ \A u \in Tasks : u # t => /\ status'[u] = status[u] /\ row'[u] = row[u]
                                     /\ runner'[u] = runner[u] /\ fin'[u] = fin[u]
        /\ fin'[t] \in {"locked", fin[t]}
    BY <1>5 DEF RequeueTaskRunnerOffline, FailTaskRunnerLost, SetStatus, TypeOK
  <2>3. ~Claimed(t)' /\ ~InIntake(t)'
    BY <1>3, <2>1, <2>2 DEF Claimed, InIntake
  <2>4. Exists(t)'
    <3>1. row'[t] \in {"waiting", "error", row[t]}
      BY <1>5 DEF RequeueTaskRunnerOffline, FailTaskRunnerLost, SetStatus, TypeOK
    <3> QED
      BY <1>3, <2>1, <3>1 DEF Exists
  <2>5. CASE queue' = Append(queue, t)
    <3>1. /\ runner'[t] = NoRunner /\ status'[t] = "waiting"
          /\ recon'.pc = "send" /\ recon'.task = t
      <4>1. RequeueTaskRunnerOffline(t) /\ recon' = [recon EXCEPT !.pc = "send"]
        <5>1. Len(queue') # Len(queue)
          BY <2>5 DEF TypeOK
        <5> QED
          BY <1>5, <5>1 DEF RequeueTaskRunnerOffline, FailTaskRunnerLost
      <4> QED
        BY <2>1, <4>1 DEF RequeueTaskRunnerOffline, TypeOK
    <3>2. Distinct(queue') /\ Entries(queue') = Entries(queue) \cup {t}
      BY <1>3, <2>1, <2>5, AppendQueue, InQueueEntries DEF Requeuable, TypeOK
    <3>3. \A u : InQueue(u)' <=> InQueue(u) \/ u = t
      BY <3>2, InQueueEntries
    <3>4. \A u \in Tasks : u # t => SameTrack(u)
      BY <2>1, <2>2, <3>1, <3>3 DEF SameTrack, Decided, Resent
    <3>5. Kept(t)'
      BY <1>3, <2>1, <2>2, <2>3, <2>4, <3>1 DEF Kept, Decided
    <3>6. Followed(t) => Followed(t)'
      <4>1. ~IsFinished(status'[t])
        BY <3>1 DEF IsFinished, FinishedStatuses
      <4> QED
        BY <1>3, <2>1, <2>2, <2>4, <3>3, <4>1 DEF Followed, Known
    <3> QED
      BY <2>2, <3>2, <3>4, <3>5, <3>6, MoveKept DEF Requeuable
  <2>6. CASE UNCHANGED queue
    <3>1. recon'.pc \in {"idle", "finalize"}
      <4>1. Len(Append(queue, t)) # Len(queue)
        BY DEF TypeOK
      <4> QED
        BY <1>5, <2>6, <4>1 DEF RequeueTaskRunnerOffline, FailTaskRunnerLost, NoDecision, TypeOK
    <3>2. \A u \in Tasks : ~Resent(u) /\ ~Resent(u)' /\ ~Decided(u)'
      BY <2>1, <3>1 DEF Resent, Decided
    <3>3. \A u \in Tasks : u # t => SameTrack(u)
      BY <2>2, <2>6, <3>2 DEF SameTrack, InQueue
    <3>4. ~InQueue(t)'
      BY <1>3, <2>1, <2>6 DEF InQueue
    <3>5. Kept(t)'
      BY <1>3, <2>1, <2>2, <2>3, <2>4, <3>2, <3>4 DEF Kept
    <3>6. Followed(t) => Followed(t)'
      BY <1>3, <2>1, <2>2, <2>3, <2>4, <3>2, <3>4 DEF Followed, Known
    <3> QED
      BY <2>2, <2>6, <3>3, <3>5, <3>6, MoveKept DEF Requeuable
  <2> QED
    BY <1>5, <2>5, <2>6 DEF RequeueTaskRunnerOffline, FailTaskRunnerLost
<1> QED
  BY <1>1, <1>2, <1>4, <1>5 DEF Reconciler

(* Every step of a pool with a reconciler keeps the invariant.             *)
LEMMA RequeuableStep ==
    ASSUME AllowParallelTasks = {}, TypeOK, Requeuable, Reconciled,
           late' = (late \/ \E t \in Tasks : Overtaken(t))
    PROVE  Requeuable'
<1>1. CASE (Tick \/ HandleQueue) /\ UNCHANGED remoteVars
  BY <1>1, HandlerKept
<1>2. ASSUME NEW t \in Tasks, AddTask(t), UNCHANGED remoteVars PROVE Requeuable'
  BY <1>2, CreateKept DEF AddTask
<1>3. ASSUME NEW t \in Tasks, Register(t) \/ HandleNew(t), UNCHANGED remoteVars PROVE Requeuable'
  BY <1>3, RegisterKept
<1>4. ASSUME NEW t \in Tasks, RunStep(t) PROVE Requeuable'
  BY <1>4, RunKept
<1>5. ASSUME NEW t \in Tasks, Sends(t) PROVE Requeuable'
  BY <1>5, SendsKept
<1>6. ASSUME NEW t \in Tasks, FinalizeStep(t) PROVE Requeuable'
  BY <1>6, FinalizeKept
<1>7. ASSUME NEW t \in Tasks, RunnerApi(t, Reports) PROVE Requeuable'
  BY <1>7, ApiKept
<1>8. ASSUME NEW t \in Tasks, Reconciler(t) PROVE Requeuable'
  BY <1>8, ReconcilerKept
<1> QED
  BY <1>1, <1>2, <1>3, <1>4, <1>5, <1>6, <1>7, <1>8 DEF Reconciled, Undisturbed

(* A stuttering step does too.                                             *)
LEMMA RequeuableStutter == Requeuable /\ UNCHANGED faultVars => Requeuable'
<1> SUFFICES ASSUME Requeuable, UNCHANGED faultVars PROVE Requeuable'
  OBVIOUS
<1> USE DEF faultVars, vars, poolVars, taskVars, storeVars, intake, remoteVars, jobVars, endVars
<1>1. \A u \in Tasks : SameTrack(u)
  BY DEF SameTrack, InQueue, Decided, Resent
<1> QED
  BY <1>1, StayKept DEF Requeuable

(* At the start no task is anywhere.                                       *)
LEMMA RequeuableInit == Init => Requeuable
<1> SUFFICES ASSUME Init PROVE Requeuable
  OBVIOUS
<1> USE PoolAssumption DEF Init, PoolInit
<1>1. Distinct(queue) /\ \A u : ~InQueue(u)
  BY DEF Distinct, InQueue
<1>2. ASSUME NEW t \in Tasks PROVE Kept(t) /\ Followed(t)
  <2>1. ~Exists(t) /\ ~InIntake(t) /\ ~InRun(t) /\ ~Claimed(t) /\ ~Decided(t) /\ ~Resent(t)
    BY DEF Exists, InIntake, InRun, Claimed, Decided, Resent, NoDecision
  <2>2. ~IsFinished(status[t])
    BY DEF IsFinished, FinishedStatuses
  <2> QED
    BY <1>1, <2>1, <2>2 DEF Kept, Followed
<1> QED
  BY <1>1, <1>2 DEF Requeuable

(* RequeueKeeps: whatever is reported and whenever the reconciler gives a   *)
(* runner up, no task is queued twice, and until a report is applied that   *)
(* its requeue has overtaken no unfinished task is dropped.  The hypothesis *)
(* is needed: a template that allows parallel tasks lets handleQueue claim  *)
(* a requeued task before its event, which then takes it out of the running *)
(* map (requeueTaskRunnerOffline enqueues before it sends).                *)
THEOREM RequeueKeepsHolds == AllowParallelTasks = {} => (FaultSpec => []RequeueKeeps)
<1> SUFFICES ASSUME AllowParallelTasks = {} PROVE FaultSpec => []RequeueKeeps
  OBVIOUS
<1> DEFINE Inv == TypeOK /\ (trouble = "reconciler" => Requeuable)
<1>1. FaultInit => Inv
  BY TypedInit, RequeuableInit DEF FaultInit
<1>2. Inv /\ [FaultNext]_faultVars => Inv'
  <2> SUFFICES ASSUME Inv, [FaultNext]_faultVars PROVE Inv'
    OBVIOUS
  <2>1. TypeOK' /\ trouble' = trouble
    BY FaultSteps, TypedStep
  <2>2. ASSUME trouble = "reconciler", FaultNext PROVE Requeuable'
    <3>1. Undisturbed(Reported) => Undisturbed(Reports)
      <4>1. \A t : RunnerApi(t, Reported) => RunnerApi(t, Reports)
        BY DEF RunnerApi, Reported
      <4> QED
        BY <4>1 DEF Undisturbed
    <3>2. Reconciled /\ late' = (late \/ \E t \in Tasks : Overtaken(t))
      BY <2>2, <3>1 DEF FaultNext, Reconciled
    <3> QED
      BY <2>2, <3>2, RequeuableStep
  <2> QED
    BY <2>1, <2>2, RequeuableStutter
<1>3. Inv => RequeueKeeps
  <2> SUFFICES ASSUME Inv, trouble = "reconciler" PROVE QueuedOnce /\ (late \/ NotLost)
    BY DEF RequeueKeeps
  <2>1. Requeuable
    OBVIOUS
  <2>2. QueuedOnce
    BY <2>1 DEF Requeuable, Distinct, QueuedOnce
  <2>3. late \/ NotLost
    BY <2>1 DEF Requeuable, Followed, NotLost, InIntake
  <2> QED
    BY <2>2, <2>3
<1> QED
  BY <1>1, <1>2, <1>3, PTL DEF FaultSpec
=============================================================================
