------------------------------ MODULE TaskPool ------------------------------
(***************************************************************************)
(* The server's task pool in single-process mode (MemoryTaskStateStore):   *)
(* services/tasks/TaskPool.go, TaskRunner.go, task_state_store.go.         *)
(*                                                                         *)
(* The goroutines are AddTask callers, the loop of TaskPool.Run, the queue *)
(* handler handleQueue, one run() goroutine per dispatched task and one    *)
(* bulk stop (StopTasksByTemplate).  They meet on two unbuffered channels, *)
(* register and queueEvents: a send is a rendezvous, one step of both ends.*)
(*                                                                         *)
(* Atomicity.  A step is one operation on the store (its mutex is held) or *)
(* one SetStatus, with the reads that immediately precede it.  What        *)
(* handleQueue does for one queue entry is one step: only handleQueue adds *)
(* to or removes from the running and active sets.                         *)
(*                                                                         *)
(* This module has what local and remote tasks share; LocalTaskPool and    *)
(* RemoteTaskPool add the job (executor) and the next-state relation.      *)
(***************************************************************************)
EXTENDS Naturals, FiniteSets, Sequences, SequencesExt, TaskStatus

CONSTANTS
    Tasks,              \* the tasks that may be added
    NoTask,             \* no task / the nil event
    Templates,          \* templates
    TemplateOf,         \* [Tasks -> Templates]
    ProjectOf,          \* [Templates -> projects]
    AllowParallelTasks, \* templates whose tasks may run in parallel
    Parent,             \* [Tasks -> Tasks \cup {NoTask}] build task of an autorun child
    MaxParallelTasks,   \* util.Config.MaxParallelTasks, 0 for no limit
    ProjectMax,         \* [projects -> Nat] Project.MaxParallelTasks, 0 for no limit
    LookupErrors,       \* outcomes of store.GetProject in blocks(): {FALSE} or BOOLEAN
    Ops                 \* the API operations a run exercises

Projects == {ProjectOf[p] : p \in Templates}

ASSUME PoolAssumption ==
    /\ Tasks \cap {NoTask, "idle", "tick"} = {}
    /\ IsFiniteSet(Tasks)
    /\ TemplateOf \in [Tasks -> Templates]
    /\ AllowParallelTasks \subseteq Templates
    /\ Parent \in [Tasks -> Tasks \cup {NoTask}]
    /\ MaxParallelTasks \in Nat
    /\ ProjectMax \in [Projects -> Nat]
    /\ LookupErrors \subseteq BOOLEAN
    /\ Ops \subseteq {"stop", "force", "confirm", "reject", "dialog",
                      "stopTemplate", "forceTemplate"}

VARIABLES
    \* TaskRunner and its row in the database
    status,       \* [Tasks -> Statuses] TaskRunner.Task.Status
    row,          \* [Tasks -> Statuses \cup {"none"}] the persisted status
    ended,        \* tasks whose End time is recorded
    killed,       \* tasks whose job was killed (job.IsKilled)
    run,          \* [Tasks -> control point of the run() goroutine]
    \* MemoryTaskStateStore
    queue,        \* sequence of tasks
    running,      \* tasks in the running map
    active,       \* tasks in the per-project active maps
    \* AddTask callers and TaskPool.Run
    registering,  \* tasks whose AddTask is blocked on (or before) register <-
    loop,         \* what Run() is sending to queueEvents: a task, "tick", "idle"
    \* handleQueue
    hpc,          \* "idle" (receiving), "snap" (event handled), "scan"
    skip,         \* skipTaskID
    todo,         \* rest of the QueueRange snapshot
    \* StopTasksByTemplate
    stopper       \* [pc, tpl, force, todo, done]

taskVars  == <<status, row, ended, killed, run>>
storeVars == <<queue, running, active>>
intake    == <<registering, loop>>
handler   == <<hpc, skip, todo>>
poolVars  == <<taskVars, storeVars, intake, handler, stopper>>

Exists(t)   == row[t] # "none"
InQueue(t)  == \E i \in 1..Len(queue) : queue[i] = t
\* GetTask: the queue first, then the running map.
Known(t)    == InQueue(t) \/ t \in running
\* The tasks whose run() goroutine is alive.
Live        == {t \in Tasks : run[t] # "none"}
ActiveOf(p) == {t \in active : ProjectOf[TemplateOf[t]] = p}
Children(t) == {c \in Tasks : Parent[c] = t}

NoStop == [pc |-> "idle", tpl |-> NoTask, force |-> FALSE, todo |-> {}, done |-> {}]

PoolInit ==
    /\ status = [t \in Tasks |-> "waiting"]
    /\ row = [t \in Tasks |-> "none"]
    /\ ended = {} /\ killed = {}
    /\ run = [t \in Tasks |-> "none"]
    /\ queue = <<>> /\ running = {} /\ active = {}
    /\ registering = {} /\ loop = "idle"
    /\ hpc = "idle" /\ skip = NoTask /\ todo = <<>>
    /\ stopper = NoStop

-----------------------------------------------------------------------------
(* TaskRunner.SetStatus: an accepted status is stored and persisted.       *)
SetStatus(t, s) ==
    /\ status' = [status EXCEPT ![t] = AfterSetStatus(@, s)]
    /\ row' = [row EXCEPT ![t] = IF Accepts(status[t], s) THEN s ELSE @]

(* saveStatus and SetCommit: UpdateTask gives the row the task's status.   *)
saveStatus(t) == row' = [row EXCEPT ![t] = status[t]]

(* SetStatus on a TaskRunner built from the task's row, unknown to the     *)
(* pool: only the row changes.                                             *)
SetRowStatus(t, s) ==
    /\ row' = [row EXCEPT ![t] = AfterSetStatus(@, s)]
    /\ UNCHANGED status

-----------------------------------------------------------------------------
(* AddTask, Run *)

(* AddTask up to the send on register: the row is created.                 *)
CreateTask(t) ==
    /\ ~Exists(t)
    /\ row' = [row EXCEPT ![t] = "waiting"]
    /\ registering' = registering \cup {t}
    /\ UNCHANGED <<status, ended, killed, run, storeVars, loop, handler, stopper>>

(* populateDetails or the storing of survey secrets fails: the new row is  *)
(* set to error and the task is never registered.                          *)
CreateTaskFails(t) ==
    /\ ~Exists(t)
    /\ row' = [row EXCEPT ![t] = "error"]
    /\ status' = [status EXCEPT ![t] = "error"]
    /\ UNCHANGED <<ended, killed, run, storeVars, intake, handler, stopper>>

AddTask(t) == Parent[t] = NoTask /\ (CreateTask(t) \/ CreateTaskFails(t))

(* Run() receives a task from register and saves its status.               *)
Register(t) ==
    /\ t \in registering /\ loop = "idle"
    /\ registering' = registering \ {t}
    /\ loop' = t
    /\ saveStatus(t)
    /\ UNCHANGED <<status, ended, killed, run, storeVars, handler, stopper>>

(* The 5 second ticker.                                                    *)
Tick ==
    /\ loop = "idle"
    /\ loop' = "tick"
    /\ UNCHANGED <<taskVars, storeVars, registering, handler, stopper>>

-----------------------------------------------------------------------------
(* handleQueue *)

\* Mutant: the running map is forgotten.
StopActiveOnly(t) == active' = active \ {t} /\ running' = running

onTaskRun(t) == active' = active \cup {t} /\ running' = running \cup {t}

onTaskStop(t) == active' = active \ {t} /\ running' = running \ {t}

\* Mutant: the task stays in the queue.
DequeueNothing(t) == queue' = queue

(* DequeueByID and ClaimAndDequeue remove the first entry of the task.     *)
Dequeue(t) == queue' = RemoveFirst(queue, t)

HandleNew(t) ==
    /\ hpc = "idle" /\ loop = t
    /\ queue' = Append(queue, t)
    /\ loop' = "idle"
    /\ hpc' = "snap" /\ skip' = NoTask
    /\ UNCHANGED <<taskVars, running, active, registering, todo, stopper>>

HandleTick ==
    /\ hpc = "idle" /\ loop = "tick"
    /\ loop' = "idle"
    /\ hpc' = "snap" /\ skip' = NoTask
    /\ UNCHANGED <<taskVars, storeVars, registering, todo, stopper>>

(* EventTypeFinished, EventTypeRequeued: the handler's end of the          *)
(* rendezvous; the sender's end is in the actions that use them.           *)
ReceiveFinished(t) ==
    /\ hpc = "idle"
    /\ onTaskStop(t)
    /\ hpc' = "snap" /\ skip' = NoTask
    /\ UNCHANGED <<queue, todo>>

ReceiveRequeued(t) ==
    /\ hpc = "idle"
    /\ onTaskStop(t)
    /\ hpc' = "snap" /\ skip' = t
    /\ UNCHANGED <<queue, todo>>

\* Mutant: the end of the pass is missed.
ContinueForever(rest) == todo' = rest /\ hpc' = "scan" /\ skip' = skip

(* The rest of the pass; the handler receives again after the last entry.  *)
Continue(rest) ==
    /\ todo' = rest
    /\ hpc' = IF rest = <<>> THEN "idle" ELSE "scan"
    /\ skip' = IF rest = <<>> THEN NoTask ELSE skip

Snapshot ==
    /\ hpc = "snap"
    /\ Continue(queue)
    /\ UNCHANGED <<taskVars, storeVars, intake, stopper>>

\* Mutant: one task too many.
PoolFullLate == MaxParallelTasks > 0 /\ Cardinality(running) > MaxParallelTasks

PoolFull == MaxParallelTasks > 0 /\ Cardinality(running) >= MaxParallelTasks

\* Mutant: a task that has not reached "running" is overlooked.
TemplateBusyRunning(t) ==
    \E u \in ActiveOf(ProjectOf[TemplateOf[t]]) :
        /\ status[u] = "running"
        /\ TemplateOf[u] = TemplateOf[t]
        /\ TemplateOf[u] \notin AllowParallelTasks

TemplateBusy(t) ==
    \E u \in ActiveOf(ProjectOf[TemplateOf[t]]) :
        /\ ~IsFinished(status[u])
        /\ TemplateOf[u] = TemplateOf[t]
        /\ TemplateOf[u] \notin AllowParallelTasks

\* Mutant: one task too many.
ProjectFullLate(p) == ProjectMax[p] > 0 /\ Cardinality(ActiveOf(p)) > ProjectMax[p]

ProjectFull(p) == ProjectMax[p] > 0 /\ Cardinality(ActiveOf(p)) >= ProjectMax[p]

(* blocks(): lookupErr is the outcome of store.GetProject, which is only   *)
(* asked when the project has active tasks.                                *)
Blocks(t, lookupErr) ==
    LET p == ProjectOf[TemplateOf[t]] IN
    \/ PoolFull
    \/ TemplateBusy(t)
    \/ ActiveOf(p) # {} /\ ~lookupErr /\ ProjectFull(p)

(* An entry that is passed over: just requeued, failed, blocked, or gone   *)
(* from the queue by the time of ClaimAndDequeue.  A failed task, which    *)
(* only a remote one can be in the queue, is removed (DequeueByID).        *)
ScanSkip ==
    /\ hpc = "scan"
    /\ LET t      == Head(todo)
           failed == t # skip /\ status[t] = "error" IN
          /\ \/ t = skip \/ failed
             \/ \E e \in LookupErrors : Blocks(t, e)
             \/ ~InQueue(t)
          /\ IF failed THEN Dequeue(t) ELSE UNCHANGED queue
    /\ Continue(Tail(todo))
    /\ UNCHANGED <<taskVars, running, active, intake, stopper>>

(* ClaimAndDequeue succeeds and runTask starts the run() goroutine.        *)
ScanRun ==
    /\ hpc = "scan"
    /\ LET t == Head(todo) IN
          /\ t # skip
          /\ status[t] # "error"
          /\ \E e \in LookupErrors : ~Blocks(t, e)
          /\ InQueue(t)
          /\ Dequeue(t)
          /\ onTaskRun(t)
          /\ run' = [run EXCEPT ![t] = "sleep"]
    /\ Continue(Tail(todo))
    /\ UNCHANGED <<status, row, ended, killed, intake, stopper>>

HandleQueue == HandleTick \/ Snapshot \/ ScanSkip \/ ScanRun

-----------------------------------------------------------------------------
(* TaskRunner.run(), before and after the job *)

Goto(t, from, to) == run[t] = from /\ run' = [run EXCEPT ![t] = to]

(* After the one second sleep: a task stopped gracefully in the meantime   *)
(* ends here, any other is set to starting.                                *)
BeginRun(t) ==
    /\ IF status[t] = "stopping"
         THEN Goto(t, "sleep", "finish") /\ SetStatus(t, "stopped")
         ELSE Goto(t, "sleep", "started") /\ SetStatus(t, "starting")
    /\ UNCHANGED <<ended, killed, storeVars, intake, handler, stopper>>

(* job.Run returned an error other than ErrAllRunnersBusy.                 *)
JobError(t, from) ==
    /\ Goto(t, from, "finish")
    /\ SetStatus(t, IF t \in killed THEN "stopped" ELSE "error")
    /\ UNCHANGED <<ended, killed, storeVars, intake, handler, stopper>>

(* startAutorunTasks of a successful task, the status being checked at its *)
(* start: its children are added one after the other, each time blocked on *)
(* register.                                                               *)
AutorunChild(t, c) ==
    /\ c \in Children(t)
    /\ Children(t) \cap registering = {}
    /\ CreateTask(c) \/ CreateTaskFails(c)

(* Children whose templates cannot be listed or whose AddTask is refused   *)
(* are left out.                                                           *)
AutorunDone(t) == Children(t) \cap registering = {}

(* finishRun up to the send of EventTypeFinished: End and status are saved. *)
SaveEnd(t) ==
    /\ ended' = ended \cup {t}
    /\ saveStatus(t)

FinishRun(t) ==
    /\ Goto(t, "finish", "send")
    /\ SaveEnd(t)
    /\ UNCHANGED <<status, killed, storeVars, intake, handler, stopper>>

(* The send of EventTypeFinished meets handleQueue; run() returns.         *)
SendFinished(t) ==
    /\ Goto(t, "send", "none")
    /\ ReceiveFinished(t)
    /\ UNCHANGED <<status, row, ended, killed, intake, stopper>>

-----------------------------------------------------------------------------
(* API operations on one task *)

(* stopTaskRunner without the finalization of remote tasks.                *)
StopTaskRunner(t, force) ==
    /\ SetStatus(t, IF force THEN "stopped" ELSE "stopping")
    /\ killed' = IF status[t] = "running" THEN killed \cup {t} ELSE killed

StopOps == {f \in BOOLEAN : (IF f THEN "force" ELSE "stop") \in Ops}

(* StopTask; a task the pool does not know is stopped in the database.     *)
StopTask(t, force) ==
    /\ Exists(t)
    /\ force \in StopOps
    /\ IF Known(t) THEN StopTaskRunner(t, force)
                   ELSE SetRowStatus(t, "stopped") /\ UNCHANGED killed
    /\ UNCHANGED <<ended, run, storeVars, intake, handler, stopper>>

(* The API accepts an answer at any time ("confirm", "reject"); the client  *)
(* offers it while the task waits for confirmation ("dialog").             *)
MayAnswer(op, t) ==
    op \in Ops \/ ("dialog" \in Ops /\ status[t] = "waiting_confirmation")

ConfirmTask(t) ==
    /\ MayAnswer("confirm", t)
    /\ Known(t)
    /\ SetStatus(t, "confirmed")
    /\ UNCHANGED <<ended, killed, run, storeVars, intake, handler, stopper>>

RejectTask(t) ==
    /\ MayAnswer("reject", t)
    /\ Known(t)
    /\ SetStatus(t, "rejected")
    /\ UNCHANGED <<ended, killed, run, storeVars, intake, handler, stopper>>

-----------------------------------------------------------------------------
(* StopTasksByTemplate: one call at a time is modelled *)

OfTemplate(S, p) == {t \in S : TemplateOf[t] = p}
Queued == {t \in Tasks : InQueue(t)}

TemplateStopOps ==
    {f \in BOOLEAN : (IF f THEN "forceTemplate" ELSE "stopTemplate") \in Ops}

(* SetWaitingTasksToStopped: every waiting row in one query, which may fail. *)
TemplateStopRows(p, force) ==
    /\ stopper.pc = "idle" /\ force \in TemplateStopOps
    /\ row' \in {row, [t \in Tasks |-> IF TemplateOf[t] = p /\ row[t] = "waiting"
                                          THEN "stopped" ELSE row[t]]}
    /\ stopper' = [NoStop EXCEPT !.pc = "rows", !.tpl = p, !.force = force]
    /\ UNCHANGED <<status, ended, killed, run, storeVars, intake, handler>>

(* The unfinished rows of the template that the first two loops have left. *)
Unhandled ==
    {t \in OfTemplate(Tasks, stopper.tpl) : row[t] \in UnfinishedTaskStatuses} \ stopper.done

(* The snapshot that begins each of the three loops.  The call ends if the *)
(* query for the last one fails or finds nothing.                          *)
TemplateStopSnapshot ==
    /\ \/ /\ stopper.pc = "rows"
          /\ stopper' = [stopper EXCEPT !.pc = "queue",
                             !.todo = OfTemplate(Queued, stopper.tpl)]
       \/ /\ stopper.pc = "queue" /\ stopper.todo = {}
          /\ stopper' = [stopper EXCEPT !.pc = "running",
                             !.todo = OfTemplate(running, stopper.tpl)]
       \/ /\ stopper.pc = "running" /\ stopper.todo = {}
          /\ \/ stopper' = NoStop
             \/ /\ Unhandled # {}
                /\ stopper' = [stopper EXCEPT !.pc = "rest", !.todo = Unhandled]
    /\ UNCHANGED <<taskVars, storeVars, intake, handler>>

Stopped(t) == stopper' = [stopper EXCEPT !.todo = @ \ {t}, !.done = @ \cup {t}]
Passed(t)  == stopper' = [stopper EXCEPT !.todo = @ \ {t}]

(* The queue loop: a waiting task is only dequeued, its row is stopped.    *)
TemplateStopQueued(t) ==
    /\ stopper.pc = "queue" /\ t \in stopper.todo
    /\ \/ IsFinished(status[t]) /\ Passed(t) /\ UNCHANGED <<status, row, queue>>
       \/ /\ status[t] = "waiting"
          /\ Dequeue(t)
          /\ Stopped(t)
          /\ UNCHANGED <<status, row>>
       \/ /\ status[t] \in UnfinishedTaskStatuses \ {"waiting"}
          /\ SetStatus(t, IF stopper.force THEN "stopped" ELSE "stopping")
          /\ Stopped(t)
          /\ UNCHANGED queue
    /\ UNCHANGED <<ended, killed, run, running, active, intake, handler>>

(* The loop over running tasks.                                            *)
TemplateStopRunning(t) ==
    /\ stopper.pc = "running" /\ t \in stopper.todo
    /\ IF IsFinished(status[t])
         THEN Passed(t) /\ UNCHANGED <<status, row, killed>>
         ELSE Stopped(t) /\ StopTaskRunner(t, stopper.force)
    /\ UNCHANGED <<ended, run, storeVars, intake, handler>>

(* The loop over unfinished rows not handled above; a task that the pool   *)
(* does not know is passed over if its details cannot be read.             *)
TemplateStopRest(t) ==
    /\ stopper.pc = "rest" /\ t \in stopper.todo
    /\ \/ Known(t) /\ SetStatus(t, "stopped")
       \/ ~Known(t) /\ (SetRowStatus(t, "stopped") \/ UNCHANGED <<status, row>>)
    /\ stopper' = IF stopper.todo = {t} THEN NoStop
                  ELSE [stopper EXCEPT !.todo = @ \ {t}]
    /\ UNCHANGED <<ended, killed, run, storeVars, intake, handler>>
=============================================================================
