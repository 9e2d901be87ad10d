------------------------ MODULE LocalTaskPoolProofs ------------------------
(***************************************************************************)
(* Proofs about LocalTaskPool for every set of tasks and templates and     *)
(* every limit: type correctness, that a task is in one place at a time    *)
(* (so that a live run is tracked and is never claimed twice), the limit   *)
(* on parallel tasks; and on top of the place invariant that the pool      *)
(* implements TaskLifecycle, the limit of a project, the exclusion of runs *)
(* of one template, and the status that a run leaves behind.               *)
(***************************************************************************)
EXTENDS LocalTaskPool, QueueProofs, FiniteSetTheorems, TLAPS

\* What one step may do to the rows: none is deleted.
RowsKept == \A u \in Tasks : Exists(u) => Exists(u)'

(* The facts about SetStatus: the status it leaves is the old or the new    *)
(* one, and a row that exists goes on to exist.                            *)
LEMMA SetStatusFacts ==
    ASSUME TypeOK, NEW t \in Tasks, NEW s \in Statuses, SetStatus(t, s)
    PROVE  /\ status' \in [Tasks -> Statuses]
           /\ row' \in [Tasks -> Statuses \cup {"none"}]
           /\ RowsKept
<1>1. AfterSetStatus(status[t], s) \in Statuses
  BY DEF AfterSetStatus, TypeOK
<1>2. "none" \notin Statuses
  BY DEF Statuses, UnfinishedTaskStatuses, FinishedStatuses
<1> QED
  BY <1>1, <1>2 DEF SetStatus, TypeOK, RowsKept, Exists

(* The same for SetStatus on a TaskRunner that was built from the row.     *)
LEMMA SetRowStatusFacts ==
    ASSUME TypeOK, NEW t \in Tasks, NEW s \in Statuses, SetRowStatus(t, s)
    PROVE  /\ status' \in [Tasks -> Statuses]
           /\ row' \in [Tasks -> Statuses \cup {"none"}]
           /\ RowsKept
<1>1. AfterSetStatus(row[t], s) \in {row[t], s}
  BY DEF AfterSetStatus
<1>2. "none" \notin Statuses
  BY DEF Statuses, UnfinishedTaskStatuses, FinishedStatuses
<1> QED
  BY <1>1, <1>2 DEF SetRowStatus, TypeOK, RowsKept, Exists

(* The same for saveStatus, which may also create the row.                 *)
LEMMA SaveStatusFacts ==
    ASSUME TypeOK, NEW t \in Tasks, saveStatus(t)
    PROVE  /\ row' \in [Tasks -> Statuses \cup {"none"}]
           /\ RowsKept
           /\ Exists(t)'
<1>1. "none" \notin Statuses
  BY DEF Statuses, UnfinishedTaskStatuses, FinishedStatuses
<1> QED
  BY <1>1 DEF saveStatus, TypeOK, RowsKept, Exists

-----------------------------------------------------------------------------
(* Every step keeps the types. *)

(* The operations on the API side: AddTask, Run, stop and answers.         *)
LEMMA IntakeType ==
    ASSUME TypeOK,
           \/ Tick
           \/ \E t \in Tasks : \/ CreateTask(t) \/ CreateTaskFails(t) \/ Register(t)
                               \/ ConfirmTask(t) \/ RejectTask(t)
                               \/ \E force \in BOOLEAN : StopTask(t, force)
    PROVE  TypeOK' /\ RowsKept
<1> USE DEF taskVars, storeVars, intake, handler
<1>0. "none" \notin Statuses /\ {"waiting", "error", "stopped", "stopping", "confirmed",
                                   "rejected"} \subseteq Statuses
  BY DEF Statuses, UnfinishedTaskStatuses, FinishedStatuses
<1>1. CASE Tick
  BY <1>1 DEF Tick, TypeOK, RowsKept, Exists
<1>2. ASSUME NEW t \in Tasks, CreateTask(t)
      PROVE  TypeOK' /\ RowsKept
  BY <1>0, <1>2 DEF CreateTask, TypeOK, RowsKept, Exists
<1>3. ASSUME NEW t \in Tasks, CreateTaskFails(t)
      PROVE  TypeOK' /\ RowsKept
  BY <1>0, <1>3 DEF CreateTaskFails, TypeOK, RowsKept, Exists
<1>4. ASSUME NEW t \in Tasks, Register(t)
      PROVE  TypeOK' /\ RowsKept
  <2>1. row' \in [Tasks -> Statuses \cup {"none"}] /\ RowsKept
    BY <1>4, SaveStatusFacts DEF Register
  <2> QED
    BY <1>4, <2>1 DEF Register, TypeOK
<1>5. ASSUME NEW t \in Tasks, ConfirmTask(t) \/ RejectTask(t)
      PROVE  TypeOK' /\ RowsKept
  <2>1. /\ status' \in [Tasks -> Statuses]
        /\ row' \in [Tasks -> Statuses \cup {"none"}]
        /\ RowsKept
    BY <1>0, <1>5, SetStatusFacts DEF ConfirmTask, RejectTask
  <2> QED
    BY <1>5, <2>1 DEF ConfirmTask, RejectTask, TypeOK
<1>6. ASSUME NEW t \in Tasks, NEW force \in BOOLEAN, StopTask(t, force)
      PROVE  TypeOK' /\ RowsKept
  <2>1. /\ status' \in [Tasks -> Statuses]
        /\ row' \in [Tasks -> Statuses \cup {"none"}]
        /\ RowsKept
    BY <1>0, <1>6, SetStatusFacts, SetRowStatusFacts DEF StopTask, StopTaskRunner
  <2>2. killed' \subseteq Tasks
    BY <1>6 DEF StopTask, StopTaskRunner, TypeOK
  <2> QED
    BY <1>6, <2>1, <2>2 DEF StopTask, TypeOK
<1> QED
  BY <1>1, <1>2, <1>3, <1>4, <1>5, <1>6

(* handleQueue.                                                            *)
LEMMA HandlerType ==
    ASSUME TypeOK,
           HandleQueue \/ \E t \in Tasks : HandleNew(t) \/ SendFinished(t)
    PROVE  TypeOK' /\ RowsKept
<1> USE DEF taskVars, storeVars, intake, handler
<1>1. CASE HandleTick
  BY <1>1 DEF HandleTick, TypeOK, RowsKept, Exists
<1>2. CASE Snapshot
  BY <1>2 DEF Snapshot, Continue, TypeOK, RowsKept, Exists
<1>3. ASSUME hpc = "scan"
      PROVE  Head(todo) \in Tasks /\ Tail(todo) \in Seq(Tasks)
  BY <1>3 DEF TypeOK
<1>4. CASE ScanSkip
  <2>1. queue' \in Seq(Tasks)
    BY <1>4, RemoveQueue DEF ScanSkip, Dequeue, TypeOK
  <2> QED
    BY <1>3, <1>4, <2>1 DEF ScanSkip, Continue, TypeOK, RowsKept, Exists
<1>6. CASE ScanRun
  <2>1. queue' \in Seq(Tasks)
    BY <1>6, RemoveQueue DEF ScanRun, Dequeue, TypeOK
  <2>2. /\ running' \subseteq Tasks /\ active' \subseteq Tasks
        /\ run' \in [Tasks -> RunPoints]
    BY <1>3, <1>6 DEF ScanRun, onTaskRun, TypeOK, RunPoints
  <2> QED
    BY <1>3, <1>6, <2>1, <2>2 DEF ScanRun, Continue, TypeOK, RowsKept, Exists
<1>7. ASSUME NEW t \in Tasks, HandleNew(t)
      PROVE  TypeOK' /\ RowsKept
  <2>1. queue' \in Seq(Tasks)
    BY <1>7, AppendQueue DEF HandleNew, TypeOK
  <2> QED
    BY <1>7, <2>1 DEF HandleNew, TypeOK, RowsKept, Exists
<1>8. ASSUME NEW t \in Tasks, SendFinished(t)
      PROVE  TypeOK' /\ RowsKept
  BY <1>8 DEF SendFinished, ReceiveFinished, onTaskStop, Goto, RunPoints, TypeOK, RowsKept,
              Exists
<1> QED
  BY <1>1, <1>2, <1>4, <1>6, <1>7, <1>8 DEF HandleQueue

(* run() moves on: the control point of one live goroutine changes, to one *)
(* at which it is alive and past its start.                                *)
Moves(t) == \E to \in RunPoints \ {"none", "sleep"} :
                /\ run[t] \notin {"none", "send"}
                /\ run' = [run EXCEPT ![t] = to]

(* The steps of run() between the claim and finishRun: the store, the       *)
(* intake and the handler are not touched.                                 *)
LEMMA JobFacts ==
    ASSUME TypeOK, NEW t \in Tasks,
           BeginRun(t) \/ Job(t)
    PROVE  /\ status' \in [Tasks -> Statuses]
           /\ row' \in [Tasks -> Statuses \cup {"none"}]
           /\ RowsKept
           /\ Moves(t) \/ run' = run
           /\ UNCHANGED others
<1>1. {"starting", "stopped", "error", "running", "success", "waiting_confirmation"}
         \subseteq Statuses
  BY DEF Statuses, UnfinishedTaskStatuses, FinishedStatuses
<1>2. \/ \E s \in Statuses : SetStatus(t, s)
      \/ Prepared(t) \/ InitAsks(t)
      \/ UNCHANGED <<status, row>>
  BY <1>1 DEF BeginRun, Job, SecretsFail, Prepare, InitNotices, InitAnswered, AppExits, Planned,
              Answered, JobFails,
              JobError, JobReturns
<1>3. /\ status' \in [Tasks -> Statuses]
      /\ row' \in [Tasks -> Statuses \cup {"none"}]
      /\ RowsKept
  <2>1. CASE \E s \in Statuses : SetStatus(t, s)
    BY <2>1, SetStatusFacts
  <2>2. CASE Prepared(t) \/ InitAsks(t)
    <3>1. status' \in [Tasks -> Statuses]
      BY <1>1, <2>2 DEF Prepared, InitAsks, AfterSetStatus, TypeOK
    <3>2. "none" \notin Statuses
      BY DEF Statuses, UnfinishedTaskStatuses, FinishedStatuses
    <3>3. row' = row \/ \E s \in Statuses : row' = [row EXCEPT ![t] = s]
      BY <2>2, <3>1 DEF Prepared, InitAsks, Checkout
    <3> QED
      BY <3>1, <3>2, <3>3 DEF TypeOK, RowsKept, Exists
  <2>3. CASE UNCHANGED <<status, row>>
    BY <2>3 DEF TypeOK, RowsKept, Exists
  <2> QED
    BY <1>2, <2>1, <2>2, <2>3
<1>4. Moves(t) \/ run' = run
  BY DEF BeginRun, Job, SecretsFail, Prepare, InitAsks, InitNotices, InitAnswered,
         Checkout, Prepared, AppExits, Planned,
         Answered, JobFails, JobError, JobReturns, Goto, Moves, RunPoints
<1>5. UNCHANGED others
  BY DEF BeginRun, Job, SecretsFail, Prepare, InitAsks, InitNotices, InitAnswered,
         Checkout, Prepared, AppExits, Planned,
         Answered, JobFails, JobError, JobReturns, others
<1> QED
  BY <1>3, <1>4, <1>5

(* run(), with startAutorunTasks and finishRun.                            *)
LEMMA RunStepType ==
    ASSUME TypeOK, NEW t \in Tasks, RunStep(t)
    PROVE  TypeOK' /\ RowsKept
<1> USE DEF others, storeVars, intake, handler
<1>1. CASE BeginRun(t) \/ Job(t)
  <2>1. run' \in [Tasks -> RunPoints]
    BY <1>1, JobFacts DEF Moves, TypeOK
  <2> QED
    BY <1>1, <2>1, JobFacts DEF TypeOK
<1>2. CASE RunAutorun(t)
  <2>1. ASSUME NEW c \in Tasks, AutorunChild(t, c)
        PROVE  TypeOK' /\ RowsKept
    BY <2>1, IntakeType DEF AutorunChild
  <2>2. CASE \/ /\ Goto(t, "autorun", IF status[t] = "success" THEN "children" ELSE "finish")
                /\ UNCHANGED <<status, row, others>>
             \/ Goto(t, "children", "finish") /\ UNCHANGED <<status, row, others>>
    BY <2>2 DEF Goto, TypeOK, RunPoints, RowsKept, Exists
  <2> QED
    BY <1>2, <2>1, <2>2 DEF RunAutorun
<1>3. CASE FinishRun(t)
  <2>1. row' \in [Tasks -> Statuses \cup {"none"}] /\ RowsKept
    BY <1>3, SaveStatusFacts DEF FinishRun, SaveEnd
  <2> QED
    BY <1>3, <2>1 DEF FinishRun, SaveEnd, Goto, RunPoints, TypeOK
<1> QED
  BY <1>1, <1>2, <1>3 DEF RunStep

(* StopTasksByTemplate touches only statuses, rows and the queue.          *)
LEMMA TemplateStopType ==
    ASSUME TypeOK, TemplateStop
    PROVE  TypeOK' /\ RowsKept
<1> USE DEF taskVars, storeVars, intake, handler
<1>0. "none" \notin Statuses /\ {"stopped", "stopping"} \subseteq Statuses
  BY DEF Statuses, UnfinishedTaskStatuses, FinishedStatuses
<1>1. ASSUME NEW p \in Templates, NEW force \in BOOLEAN, TemplateStopRows(p, force)
      PROVE  TypeOK' /\ RowsKept
  <2>1. row' \in [Tasks -> Statuses \cup {"none"}] /\ RowsKept
    BY <1>0, <1>1 DEF TemplateStopRows, TypeOK, RowsKept, Exists
  <2> QED
    BY <1>1, <2>1 DEF TemplateStopRows, NoStop, TypeOK
<1> DEFINE Stoppers == [pc : {"idle", "rows", "queue", "running", "rest"},
                        tpl : Templates \cup {NoTask}, force : BOOLEAN,
                        todo : SUBSET Tasks, done : SUBSET Tasks]
<1>a. stopper \in Stoppers /\ NoStop \in Stoppers
  BY DEF TypeOK, NoStop
<1>b. \A T \in SUBSET Tasks, pc \in {"queue", "running", "rest"} :
         [stopper EXCEPT !.pc = pc, !.todo = T] \in Stoppers
  BY <1>a
<1>c. \A T \in SUBSET Tasks, D \in SUBSET Tasks :
         [stopper EXCEPT !.todo = T, !.done = D] \in Stoppers
  BY <1>a
<1>d. \A T \in SUBSET Tasks : [stopper EXCEPT !.todo = T] \in Stoppers
  BY <1>a
<1> HIDE DEF Stoppers
<1>2. CASE TemplateStopSnapshot
  <2>1. /\ OfTemplate(Queued, stopper.tpl) \subseteq Tasks
        /\ OfTemplate(running, stopper.tpl) \subseteq Tasks
        /\ Unhandled \subseteq Tasks
    BY DEF OfTemplate, Queued, Unhandled, TypeOK
  <2>2. stopper' \in Stoppers
    BY <1>2, <1>a, <1>b, <2>1 DEF TemplateStopSnapshot
  <2> QED
    BY <1>2, <2>2 DEF TemplateStopSnapshot, TypeOK, RowsKept, Exists, Stoppers
<1>3. ASSUME NEW t \in Tasks, Stopped(t) \/ Passed(t)
      PROVE  stopper' \in Stoppers
  <2>1. stopper.todo \ {t} \in SUBSET Tasks /\ stopper.done \cup {t} \in SUBSET Tasks
    BY <1>a DEF Stoppers
  <2> QED
    BY <1>3, <1>c, <1>d, <2>1 DEF Stopped, Passed
<1>4. ASSUME NEW t \in Tasks, TemplateStopQueued(t)
      PROVE  TypeOK' /\ RowsKept
  <2>1. /\ status' \in [Tasks -> Statuses]
        /\ row' \in [Tasks -> Statuses \cup {"none"}]
        /\ RowsKept
    <3>1. CASE UNCHANGED <<status, row>>
      BY <3>1 DEF TypeOK, RowsKept, Exists
    <3>2. CASE SetStatus(t, IF stopper.force THEN "stopped" ELSE "stopping")
      BY <1>0, <3>2, SetStatusFacts
    <3> QED
      BY <1>4, <3>1, <3>2 DEF TemplateStopQueued
  <2>2. queue' \in Seq(Tasks)
    BY <1>4, RemoveQueue DEF TemplateStopQueued, Dequeue, TypeOK
  <2> QED
    BY <1>3, <1>4, <2>1, <2>2 DEF TemplateStopQueued, TypeOK, Stoppers
<1>5. ASSUME NEW t \in Tasks, TemplateStopRunning(t)
      PROVE  TypeOK' /\ RowsKept
  <2>1. CASE UNCHANGED <<status, row, killed>> /\ Passed(t)
    BY <1>3, <1>5, <2>1 DEF TemplateStopRunning, TypeOK, RowsKept, Exists,
                               Stoppers
  <2>2. CASE Stopped(t) /\ StopTaskRunner(t, stopper.force)
    <3>1. /\ status' \in [Tasks -> Statuses]
          /\ row' \in [Tasks -> Statuses \cup {"none"}]
          /\ RowsKept
      BY <1>0, <2>2, SetStatusFacts DEF StopTaskRunner
    <3> QED
      BY <1>3, <1>5, <2>2, <3>1 DEF TemplateStopRunning, StopTaskRunner, TypeOK,
                                      Stoppers
  <2> QED
    BY <1>5, <2>1, <2>2 DEF TemplateStopRunning
<1>6. ASSUME NEW t \in Tasks, TemplateStopRest(t)
      PROVE  TypeOK' /\ RowsKept
  <2>1. /\ status' \in [Tasks -> Statuses]
        /\ row' \in [Tasks -> Statuses \cup {"none"}]
        /\ RowsKept
    <3>1. CASE UNCHANGED <<status, row>>
      BY <3>1 DEF TypeOK, RowsKept, Exists
    <3>2. CASE SetStatus(t, "stopped") \/ SetRowStatus(t, "stopped")
      BY <1>0, <3>2, SetStatusFacts, SetRowStatusFacts
    <3> QED
      BY <1>6, <3>1, <3>2 DEF TemplateStopRest
  <2> QED
    <3>1. stopper' \in Stoppers
      <4>1. stopper.todo \ {t} \in SUBSET Tasks
        BY <1>a DEF Stoppers
      <4> QED
        BY <1>6, <1>a, <1>d, <4>1 DEF TemplateStopRest
    <3> QED
      BY <1>6, <2>1, <3>1 DEF TemplateStopRest, TypeOK, Stoppers
<1> QED
  BY <1>1, <1>2, <1>4, <1>5, <1>6 DEF TemplateStop

(* Type correctness: whatever the API, the pool, the jobs and the bulk stop *)
(* do, and in whatever order, the state stays well-formed; a queue pass    *)
(* never goes on with an empty snapshot.                                   *)
THEOREM TypeCorrect == Spec => []TypeOK
<1>1. Init => TypeOK
  BY DEF Init, PoolInit, NoStop, TypeOK, Statuses, UnfinishedTaskStatuses, RunPoints
<1>2. TypeOK /\ [Next]_vars => TypeOK'
  <2> SUFFICES ASSUME TypeOK, [Next]_vars
               PROVE  TypeOK'
    OBVIOUS
  <2>1. CASE UNCHANGED vars
    BY <2>1 DEF vars, poolVars, taskVars, storeVars, intake, handler, TypeOK
  <2>2. CASE Next
    BY <2>2, IntakeType, HandlerType, RunStepType, TemplateStopType DEF Next, Api, AddTask
  <2> QED
    BY <2>1, <2>2
<1> QED
  BY <1>1, <1>2, PTL DEF Spec

-----------------------------------------------------------------------------
(* A task is in one place at a time. *)

(* InQueue in terms of the queue's entries.                                *)
LEMMA InQueueEntries == \A t : InQueue(t) <=> t \in Entries(queue)
BY DEF InQueue, Entries

(* Steps that leave the queue, the running map and the intake alone.       *)
LEMMA QuietStep ==
    ASSUME TypeOK, OnePlace, RowsKept,
           UNCHANGED <<queue, running, registering, loop, ended>>,
           run' = run \/ \E t \in Tasks : Moves(t)
    PROVE  OnePlace'
<1>1. /\ Live' = Live
      /\ \A t \in Tasks : run[t] \in {"none", "send"} => run'[t] = run[t]
  BY DEF Live, Moves, TypeOK
<1>2. \A t : InQueue(t)' <=> InQueue(t)
  BY DEF InQueue
<1>3. \A t : Known(t)' <=> Known(t)
  BY <1>2 DEF Known
<1> QED
  BY <1>1, <1>2, <1>3 DEF OnePlace, RowsKept

(* CreateTask: the task was nowhere before, as it had no row.              *)
LEMMA CreateOnePlace ==
    ASSUME TypeOK, OnePlace, NEW t \in Tasks, CreateTask(t)
    PROVE  OnePlace'
<1> USE DEF storeVars
<1>1. /\ ~Known(t) /\ loop # t /\ t \notin registering \cup ended
      /\ registering' = registering \cup {t}
      /\ Exists(t)' /\ RowsKept
  BY DEF CreateTask, OnePlace, Exists, RowsKept, TypeOK
<1>2. Live' = Live /\ UNCHANGED <<queue, running, ended, run, loop>>
  BY DEF CreateTask, Live
<1>3. \A u : (InQueue(u)' <=> InQueue(u)) /\ (Known(u)' <=> Known(u))
  BY <1>2 DEF InQueue, Known
<1> QED
  BY <1>1, <1>2, <1>3 DEF OnePlace, RowsKept

(* Register: from register to Run.                                         *)
LEMMA RegisterOnePlace ==
    ASSUME TypeOK, OnePlace, NEW t \in Tasks, Register(t)
    PROVE  OnePlace'
<1> USE DEF storeVars
<1>1. /\ t \in registering /\ loop' = t
      /\ registering' = registering \ {t}
      /\ RowsKept
  BY SaveStatusFacts DEF Register
<1>2. Live' = Live /\ UNCHANGED <<queue, running, ended, run>>
  BY DEF Register, Live
<1>3. \A u : (InQueue(u)' <=> InQueue(u)) /\ (Known(u)' <=> Known(u))
  BY <1>2 DEF InQueue, Known
<1> QED
  BY <1>1, <1>2, <1>3 DEF OnePlace, RowsKept

(* A task's entry is taken out of the queue and nothing else changes place. *)
LEMMA DequeueOnePlace ==
    ASSUME TypeOK, OnePlace, RowsKept, NEW t, Dequeue(t),
           UNCHANGED <<running, registering, loop, ended, run>>
    PROVE  OnePlace'
<1>1. Distinct(queue)
  BY DEF OnePlace, Distinct
<1>2. Distinct(queue') /\ Entries(queue') = Entries(queue) \ {t}
  BY <1>1, RemoveQueue DEF Dequeue, TypeOK
<1>3. \A u : InQueue(u)' => InQueue(u)
  BY <1>2 DEF InQueue, Entries
<1>4. \A u : Known(u)' => Known(u)
  BY <1>3 DEF Known
<1>5. Live' = Live
  BY DEF Live
<1> QED
  BY <1>2, <1>3, <1>4, <1>5 DEF OnePlace, Distinct, RowsKept

(* HandleNew: from Run into the queue.                                     *)
LEMMA EnqueueOnePlace ==
    ASSUME TypeOK, OnePlace, NEW t \in Tasks, HandleNew(t)
    PROVE  OnePlace'
<1> USE DEF taskVars
<1>1. loop = t /\ ~InQueue(t) /\ t \notin running /\ t \notin ended /\ t \notin registering
  BY DEF HandleNew, OnePlace, Known
<1>2. Distinct(queue) /\ t \notin Entries(queue)
  BY <1>1, InQueueEntries DEF OnePlace, Distinct
<1>3. Distinct(queue') /\ Entries(queue') = Entries(queue) \cup {t}
  BY <1>2, AppendQueue DEF HandleNew, TypeOK
<1>4. \A u : InQueue(u)' <=> InQueue(u) \/ u = t
  BY <1>3 DEF InQueue, Entries
<1>5. /\ Live' = Live /\ loop' = "idle" /\ loop' \notin Tasks /\ RowsKept
      /\ UNCHANGED <<running, registering, ended, run, row>>
  BY PoolAssumption DEF HandleNew, Live, RowsKept, Exists
<1> QED
  BY <1>1, <1>3, <1>4, <1>5 DEF OnePlace, Distinct, RowsKept, Known

(* ScanRun: from the queue into the running map, with a live goroutine.    *)
LEMMA ClaimOnePlace ==
    ASSUME TypeOK, OnePlace, ScanRun
    PROVE  OnePlace'
<1> DEFINE t == Head(todo)
<1> USE DEF intake
<1>1. t \in Tasks /\ InQueue(t)
  BY DEF ScanRun, TypeOK
<1>2. /\ Dequeue(t) /\ running' = running \cup {t} /\ run' = [run EXCEPT ![t] = "sleep"]
      /\ UNCHANGED <<row, ended, registering, loop>>
  BY DEF ScanRun, onTaskRun
<1> HIDE DEF t
<1>3. t \notin running /\ t \notin ended /\ t \notin registering /\ loop # t /\ Exists(t)
  BY <1>1 DEF OnePlace, Known
<1>4. Distinct(queue) /\ t \in Entries(queue)
  BY <1>1, InQueueEntries DEF OnePlace, Distinct
<1>5. Distinct(queue') /\ Entries(queue') = Entries(queue) \ {t}
  BY <1>2, <1>4, RemoveQueue DEF Dequeue, TypeOK
<1>6. \A u : InQueue(u)' <=> InQueue(u) /\ u # t
  BY <1>5 DEF InQueue, Entries
<1>7. Live' = Live \cup {t}
  BY <1>1, <1>2 DEF Live, TypeOK
<1>8. /\ \A u \in Tasks : Exists(u)' <=> Exists(u)
      /\ \A u \in Tasks : u # t => run'[u] = run[u]
  BY <1>2 DEF Exists, TypeOK
<1> QED
  BY <1>1, <1>2, <1>3, <1>5, <1>6, <1>7, <1>8 DEF OnePlace, Distinct, Known

(* SendFinished: out of the running map, the goroutine ends.               *)
LEMMA ReleaseOnePlace ==
    ASSUME TypeOK, OnePlace, NEW t \in Tasks, SendFinished(t)
    PROVE  OnePlace'
<1> USE DEF intake
<1>1. /\ run[t] = "send" /\ run' = [run EXCEPT ![t] = "none"]
      /\ running' = running \ {t}
      /\ UNCHANGED <<queue, row, ended, registering, loop>>
  BY DEF SendFinished, ReceiveFinished, onTaskStop, Goto
<1>2. Live' = Live \ {t} /\ \A u \in Tasks : u # t => run'[u] = run[u]
  BY <1>1 DEF Live, TypeOK
<1>3. /\ \A u : InQueue(u)' <=> InQueue(u)
      /\ \A u \in Tasks : Exists(u)' <=> Exists(u)
  BY <1>1 DEF InQueue, Exists
<1>4. run'[t] = "none"
  BY <1>1 DEF TypeOK
<1> QED
  BY <1>1, <1>2, <1>3, <1>4 DEF OnePlace, Known

(* FinishRun: the end is recorded by the goroutine of a running task.      *)
LEMMA FinishOnePlace ==
    ASSUME TypeOK, OnePlace, NEW t \in Tasks, FinishRun(t)
    PROVE  OnePlace'
<1> USE DEF storeVars, intake
<1>1. /\ run[t] = "finish" /\ run' = [run EXCEPT ![t] = "send"]
      /\ ended' = ended \cup {t}
      /\ UNCHANGED <<queue, running, registering, loop>>
      /\ RowsKept
  BY SaveStatusFacts DEF FinishRun, SaveEnd, Goto
<1>2. /\ Live' = Live /\ t \in Live /\ run'[t] = "send"
      /\ \A u \in Tasks : u # t => run'[u] = run[u]
  BY <1>1 DEF Live, TypeOK
<1>3. t \in running /\ Known(t)
  BY <1>2 DEF OnePlace, Known
<1>4. \A u : (InQueue(u)' <=> InQueue(u)) /\ (Known(u)' <=> Known(u))
  BY <1>1 DEF InQueue, Known
<1> QED
  BY <1>1, <1>2, <1>3, <1>4 DEF OnePlace, RowsKept

(* The ticks of Run put no task anywhere.                                  *)
LEMMA TickOnePlace ==
    ASSUME TypeOK, OnePlace, Tick \/ HandleTick
    PROVE  OnePlace'
<1> USE DEF taskVars, storeVars
<1>1. /\ loop' \notin Tasks
      /\ UNCHANGED <<queue, running, registering, ended, run, row>>
  BY PoolAssumption DEF Tick, HandleTick
<1>2. /\ Live' = Live
      /\ \A u : (InQueue(u)' <=> InQueue(u)) /\ (Known(u)' <=> Known(u))
      /\ \A u \in Tasks : Exists(u)' <=> Exists(u)
  BY <1>1 DEF Live, InQueue, Known, Exists
<1> QED
  BY <1>1, <1>2 DEF OnePlace

(* Every step of the API, of Run and of startAutorunTasks.                 *)
LEMMA IntakeOnePlace ==
    ASSUME TypeOK, OnePlace, NEW t \in Tasks,
           \/ CreateTask(t) \/ CreateTaskFails(t) \/ Register(t)
           \/ ConfirmTask(t) \/ RejectTask(t)
           \/ \E force \in BOOLEAN : StopTask(t, force)
    PROVE  OnePlace'
<1>1. RowsKept
  BY IntakeType
<1>2. CASE CreateTask(t)
  BY <1>2, CreateOnePlace
<1>3. CASE Register(t)
  BY <1>3, RegisterOnePlace
<1>4. CASE \/ CreateTaskFails(t) \/ ConfirmTask(t) \/ RejectTask(t)
           \/ \E force \in BOOLEAN : StopTask(t, force)
  <2>1. UNCHANGED <<queue, running, registering, loop, ended, run>>
    BY <1>4 DEF CreateTaskFails, ConfirmTask, RejectTask, StopTask, storeVars, intake
  <2> QED
    BY <1>1, <2>1, QuietStep
<1> QED
  BY <1>2, <1>3, <1>4

(* Every step of handleQueue and every rendezvous with it.                 *)
LEMMA HandlerOnePlace ==
    ASSUME TypeOK, OnePlace,
           HandleQueue \/ \E t \in Tasks : HandleNew(t) \/ SendFinished(t)
    PROVE  OnePlace'
<1>1. RowsKept
  BY HandlerType
<1>2. CASE HandleTick
  BY <1>2, TickOnePlace
<1>3. CASE Snapshot
  <2>1. UNCHANGED <<queue, running, registering, loop, ended, run>>
    BY <1>3 DEF Snapshot, taskVars, storeVars, intake
  <2> QED
    BY <1>1, <2>1, QuietStep
<1>4. CASE ScanSkip
  <2>1. UNCHANGED <<running, registering, loop, ended, run>>
    BY <1>4 DEF ScanSkip, taskVars, intake
  <2>2. Dequeue(Head(todo)) \/ UNCHANGED queue
    BY <1>4 DEF ScanSkip
  <2> QED
    BY <1>1, <2>1, <2>2, DequeueOnePlace, QuietStep
<1>5. CASE ScanRun
  BY <1>5, ClaimOnePlace
<1>6. ASSUME NEW t \in Tasks, HandleNew(t) \/ SendFinished(t)
      PROVE  OnePlace'
  BY <1>6, EnqueueOnePlace, ReleaseOnePlace
<1> QED
  BY <1>2, <1>3, <1>4, <1>5, <1>6 DEF HandleQueue

(* Every step of run().                                                    *)
LEMMA RunStepOnePlace ==
    ASSUME TypeOK, OnePlace, NEW t \in Tasks, RunStep(t)
    PROVE  OnePlace'
<1> USE DEF others, storeVars, intake
<1>1. RowsKept
  BY RunStepType
<1>2. CASE BeginRun(t) \/ Job(t)
  <2>1. Moves(t) \/ run' = run
    BY <1>2, JobFacts
  <2>2. UNCHANGED <<queue, running, registering, loop, ended>>
    BY <1>2, JobFacts
  <2> QED
    BY <1>1, <2>1, <2>2, QuietStep
<1>3. CASE RunAutorun(t)
  <2>1. ASSUME NEW c \in Tasks, AutorunChild(t, c)
        PROVE  OnePlace'
    BY <2>1, IntakeOnePlace DEF AutorunChild
  <2>2. CASE \/ /\ Goto(t, "autorun", IF status[t] = "success" THEN "children" ELSE "finish")
                /\ UNCHANGED <<status, row, others>>
             \/ Goto(t, "children", "finish") /\ UNCHANGED <<status, row, others>>
    <3>1. Moves(t)
      BY <2>2 DEF Goto, Moves, RunPoints
    <3> QED
      BY <1>1, <2>2, <3>1, QuietStep
  <2> QED
    BY <1>3, <2>1, <2>2 DEF RunAutorun
<1>4. CASE FinishRun(t)
  BY <1>4, FinishOnePlace
<1> QED
  BY <1>2, <1>3, <1>4 DEF RunStep

(* Every step of StopTasksByTemplate.                                      *)
LEMMA TemplateStopOnePlace ==
    ASSUME TypeOK, OnePlace, TemplateStop
    PROVE  OnePlace'
<1> USE DEF taskVars, storeVars, intake
<1>1. RowsKept
  BY TemplateStopType
<1>2. UNCHANGED <<running, registering, loop, ended, run>>
  BY DEF TemplateStop, TemplateStopRows, TemplateStopSnapshot, TemplateStopQueued,
         TemplateStopRunning, TemplateStopRest
<1>3. queue' = queue \/ \E t \in Tasks : Dequeue(t)
  BY DEF TemplateStop, TemplateStopRows, TemplateStopSnapshot, TemplateStopQueued,
         TemplateStopRunning, TemplateStopRest
<1> QED
  BY <1>1, <1>2, <1>3, QuietStep, DequeueOnePlace

(* A task is in one place at a time: being registered, with Run, queued     *)
(* once or running, and nowhere after its end (AddTask, Run, handleQueue,  *)
(* run and the stop operations in any interleaving).                       *)
THEOREM TaskInOnePlace == Spec => []OnePlace
<1>1. Init => OnePlace
  <2> SUFFICES ASSUME Init PROVE OnePlace
    OBVIOUS
  <2>1. Live = {} /\ running = {}
    BY DEF Init, PoolInit, Live
  <2>2. Len(queue) = 0 /\ \A t : ~InQueue(t)
    BY DEF Init, PoolInit, InQueue
  <2>3. loop \notin Tasks /\ registering = {} /\ ended = {}
    BY PoolAssumption DEF Init, PoolInit
  <2> QED
    BY <2>1, <2>2, <2>3 DEF OnePlace, Known
<1>2. TypeOK /\ OnePlace /\ [Next]_vars => OnePlace'
  <2> SUFFICES ASSUME TypeOK, OnePlace, [Next]_vars
               PROVE  OnePlace'
    OBVIOUS
  <2>1. CASE UNCHANGED vars
    <3>1. UNCHANGED <<queue, running, registering, loop, ended, run, row>>
      BY <2>1 DEF vars, poolVars, taskVars, storeVars, intake
    <3>2. RowsKept
      BY <3>1 DEF RowsKept, Exists
    <3> QED
      BY <3>1, <3>2, QuietStep
  <2>2. CASE Next
    BY <2>2, TickOnePlace, IntakeOnePlace, HandlerOnePlace, RunStepOnePlace,
       TemplateStopOnePlace DEF Next, Api, AddTask
  <2> QED
    BY <2>1, <2>2
<1> QED
  BY <1>1, <1>2, TypeCorrect, PTL DEF Spec

(* A live run is in the running map and out of the queue: GetTask, the stop *)
(* requests and blocks() see it, and ClaimAndDequeue cannot claim it again. *)
THEOREM LiveRunsTracked == Spec => []LiveTracked
<1>1. OnePlace => LiveTracked
  BY DEF OnePlace, LiveTracked, Live
<1> QED
  BY <1>1, TaskInOnePlace, PTL

-----------------------------------------------------------------------------
(* Only the claim of handleQueue starts a run, and it needs a queue entry, *)
(* which a task that has ended does not have.                              *)
LEMMA OnlyClaimStarts ==
    ASSUME TypeOK, OnePlace, [Next]_vars, NEW t \in Tasks, t \in ended
    PROVE  run'[t] # "sleep"
<1>1. run[t] \in {"none", "send"} /\ ~InQueue(t)
  BY DEF OnePlace
<1>2. CASE run' = run
  BY <1>1, <1>2
<1>3. CASE ScanRun
  <2>1. PICK u : InQueue(u) /\ run' = [run EXCEPT ![u] = "sleep"]
    BY <1>3 DEF ScanRun
  <2> QED
    BY <1>1, <2>1 DEF TypeOK
<1>4. ASSUME NEW u \in Tasks, Moves(u) \/ run' = [run EXCEPT ![u] = "none"]
                              \/ run' = [run EXCEPT ![u] = "send"]
      PROVE  run'[t] # "sleep"
  BY <1>1, <1>4 DEF Moves, TypeOK
<1>5. ASSUME NEW u \in Tasks, RunStep(u) \/ SendFinished(u)
      PROVE  run' = run \/ Moves(u) \/ run' = [run EXCEPT ![u] = "none"]
             \/ run' = [run EXCEPT ![u] = "send"]
  <2>1. CASE BeginRun(u) \/ Job(u)
    BY <2>1, JobFacts
  <2>2. CASE RunAutorun(u)
    BY <2>2 DEF RunAutorun, AutorunChild, CreateTask, CreateTaskFails, Goto, Moves, RunPoints
  <2>3. CASE FinishRun(u) \/ SendFinished(u)
    BY <2>3 DEF FinishRun, SendFinished, Goto
  <2> QED
    BY <1>5, <2>1, <2>2, <2>3 DEF RunStep
<1>6. CASE UNCHANGED vars
  BY <1>2, <1>6 DEF vars, poolVars, taskVars
<1>7. CASE Tick \/ HandleTick \/ Snapshot \/ ScanSkip
  BY <1>2, <1>7 DEF Tick, HandleTick, Snapshot, ScanSkip, taskVars
<1>8. ASSUME NEW u \in Tasks, Api(u) \/ Register(u) \/ HandleNew(u)
      PROVE  run' = run
  BY <1>8 DEF Api, AddTask, CreateTask, CreateTaskFails, ConfirmTask, RejectTask, StopTask,
              Register, HandleNew, taskVars
<1>9. CASE TemplateStop
  BY <1>2, <1>9 DEF TemplateStop, TemplateStopRows, TemplateStopSnapshot, TemplateStopQueued,
         TemplateStopRunning, TemplateStopRest, taskVars
<1> QED
  BY <1>2, <1>3, <1>4, <1>5, <1>6, <1>7, <1>8, <1>9 DEF Next, HandleQueue

(* A task whose end is recorded is not started again (finishRun against    *)
(* handleQueue and a late Register or bulk stop).                          *)
THEOREM RunsOnce == Spec => RunOnce
<1>1. TypeOK /\ OnePlace /\ [Next]_vars
         => [\A t \in Tasks : t \in ended => run'[t] # "sleep"]_vars
  BY OnlyClaimStarts
<1> QED
  BY <1>1, TypeCorrect, TaskInOnePlace, PTL DEF Spec, RunOnce

-----------------------------------------------------------------------------
(* The limit on parallel tasks, in terms of the running map.               *)
RunningLimit == MaxParallelTasks > 0 => Cardinality(running) <= MaxParallelTasks

(* Only onTaskRun adds to the running map.                                 *)
LEMMA OnlyClaimAdds ==
    ASSUME [Next]_vars
    PROVE  \/ running' \subseteq running
           \/ ScanRun
<1> USE DEF storeVars
<1>1. CASE UNCHANGED vars
  BY <1>1 DEF vars, poolVars
<1>2. CASE Tick \/ HandleTick \/ Snapshot \/ ScanSkip
  BY <1>2 DEF Tick, HandleTick, Snapshot, ScanSkip
<1>3. ASSUME NEW t \in Tasks, Api(t) \/ Register(t) \/ HandleNew(t) \/ SendFinished(t)
      PROVE  running' \subseteq running
  BY <1>3 DEF Api, AddTask, CreateTask, CreateTaskFails, ConfirmTask, RejectTask, StopTask,
              Register, HandleNew, SendFinished, ReceiveFinished, onTaskStop
<1>4. ASSUME NEW t \in Tasks, RunStep(t)
      PROVE  running' \subseteq running
  BY <1>4 DEF RunStep, BeginRun, Job, SecretsFail, Prepare, InitAsks, InitNotices, InitAnswered,
         Checkout, Prepared, AppExits,
              Planned, Answered, JobFails, JobError, JobReturns, RunAutorun, AutorunChild,
              CreateTask, CreateTaskFails, FinishRun, others
<1>5. CASE TemplateStop
  BY <1>5 DEF TemplateStop, TemplateStopRows, TemplateStopSnapshot, TemplateStopQueued,
         TemplateStopRunning, TemplateStopRest
<1> QED
  BY <1>1, <1>2, <1>3, <1>4, <1>5 DEF Next, HandleQueue

(* The check of blocks() and the claim are one step, so the map never grows *)
(* past the limit.                                                         *)
LEMMA RunningLimitStep ==
    ASSUME TypeOK, RunningLimit, [Next]_vars
    PROVE  RunningLimit'
<1>1. IsFiniteSet(running)
  BY PoolAssumption, FS_Subset DEF TypeOK
<1>2. CASE running' \subseteq running
  <2>1. Cardinality(running') <= Cardinality(running)
    BY <1>1, <1>2, FS_Subset
  <2>2. Cardinality(running) \in Nat /\ Cardinality(running') \in Nat
    BY <1>1, <1>2, FS_Subset, FS_CardinalityType
  <2> QED
    BY <2>1, <2>2, PoolAssumption DEF RunningLimit
<1>3. CASE ScanRun
  <2> SUFFICES ASSUME MaxParallelTasks > 0
               PROVE  Cardinality(running') <= MaxParallelTasks
    BY DEF RunningLimit
  <2>1. PICK t : running' = running \cup {t}
    BY <1>3 DEF ScanRun, onTaskRun
  <2>2. ~PoolFull
    BY <1>3 DEF ScanRun, Blocks
  <2>3. Cardinality(running) < MaxParallelTasks /\ Cardinality(running) \in Nat
    BY <1>1, <2>2, FS_CardinalityType, PoolAssumption DEF PoolFull
  <2>4. Cardinality(running') \in {Cardinality(running), Cardinality(running) + 1}
    BY <1>1, <2>1, FS_AddElement
  <2> QED
    BY <2>3, <2>4, PoolAssumption
<1> QED
  BY <1>2, <1>3, OnlyClaimAdds

(* util.Config.MaxParallelTasks bounds the live run() goroutines, whatever  *)
(* is added, stopped or finished while handleQueue scans.                  *)
THEOREM ParallelLimitHolds == Spec => []ParallelLimit
<1>1. Init => RunningLimit
  BY PoolAssumption, FS_EmptySet DEF Init, PoolInit, RunningLimit
<1>2. TypeOK /\ RunningLimit /\ [Next]_vars => RunningLimit'
  BY RunningLimitStep
<1>3. OnePlace /\ RunningLimit => ParallelLimit
  BY DEF OnePlace, RunningLimit, ParallelLimit
<1> QED
  BY <1>1, <1>2, <1>3, TypeCorrect, TaskInOnePlace, PTL DEF Spec

-----------------------------------------------------------------------------
(* The pool implements TaskLifecycle; limits and recorded ends.            *)

\* A run that has not yet left its job.
Early == {"sleep", "started", "preparing", "asking", "dialog", "answered", "app", "confirm",
          "apply"}

\* A goroutine moves on before its end is recorded, never back into the job.
Proceeds(t) == \E to \in RunPoints \ {"none", "sleep", "send"} :
                   /\ run[t] \notin {"none", "send"}
                   /\ to \in Early => run[t] \in Early
                   /\ run' = [run EXCEPT ![t] = to]

\* A step that changes no task's phase.
Quiet ==
    /\ run' = run \/ \E t \in Tasks : Proceeds(t)
    /\ UNCHANGED <<running, active, ended>>
    /\ \A t \in Tasks : Exists(t)' <=> Exists(t)

\* A task gets its row, an autorun child after its build.
Adds(t) ==
    /\ ~Exists(t)
    /\ Parent[t] # NoTask => Parent[t] \in Tasks /\ run[Parent[t]] = "children"
    /\ \A u \in Tasks : Exists(u)' <=> Exists(u) \/ u = t
    /\ UNCHANGED <<run, running, active, ended, stopper>>

(* What links the places of a task to its phase: the active maps and the   *)
(* running map agree, a run whose end is announced has it recorded, and a  *)
(* bulk stop works on tasks with a row.                                    *)
Linked ==
    /\ active = running
    /\ \A t \in Tasks : run[t] = "send" => t \in ended
    /\ \A t \in stopper.todo : Exists(t)

(* The tasks whose rows the steps change do have a row.                    *)
LEMMA ExistsFacts ==
    ASSUME TypeOK, OnePlace, NEW t \in Tasks,
           Known(t) \/ run[t] # "none" \/ loop = t \/ t \in registering
    PROVE  Exists(t)
BY DEF OnePlace, Live, Known

(* SetStatus and saveStatus of a task with a row.                          *)
LEMMA RowFacts ==
    ASSUME TypeOK, NEW t \in Tasks, Exists(t),
           \/ \E s \in Statuses : SetStatus(t, s) \/ SetRowStatus(t, s)
           \/ saveStatus(t)
           \/ \E s \in Statuses : row' = [row EXCEPT ![t] = s]
           \/ row' = row
    PROVE  \A u \in Tasks : Exists(u)' <=> Exists(u)
<1>1. "none" \notin Statuses
  BY DEF Statuses, UnfinishedTaskStatuses, FinishedStatuses
<1> QED
  BY <1>1 DEF SetStatus, SetRowStatus, saveStatus, AfterSetStatus, TypeOK, Exists

(* run() between the claim and finishRun.                                  *)
LEMMA JobQuiet ==
    ASSUME TypeOK, OnePlace, NEW t \in Tasks, BeginRun(t) \/ Job(t)
    PROVE  Quiet /\ UNCHANGED stopper
<1>0. {"starting", "stopped", "error", "running", "success", "waiting_confirmation"}
         \subseteq Statuses
  BY DEF Statuses, UnfinishedTaskStatuses, FinishedStatuses
<1>1. Proceeds(t) \/ run' = run
  BY DEF BeginRun, Job, SecretsFail, Prepare, InitAsks, InitNotices, InitAnswered,
         Checkout, Prepared, AppExits, Planned,
         Answered, JobFails, JobError, JobReturns, Goto, Proceeds, RunPoints, Early
<1>2. run[t] # "none"
  BY DEF BeginRun, Job, SecretsFail, Prepare, InitAsks, InitNotices, InitAnswered,
         Checkout, Prepared, AppExits, Planned,
         Answered, JobFails, JobError, JobReturns, Goto
<1>3. Exists(t)
  BY <1>2, ExistsFacts
<1>4. \/ \E s \in Statuses : SetStatus(t, s)
      \/ \E s \in Statuses : row' = [row EXCEPT ![t] = s]
      \/ row' = row
  <2>1. CASE Prepared(t) \/ InitAsks(t)
    <3>1. status' \in [Tasks -> Statuses]
      BY <2>1, JobFacts DEF Job
    <3> QED
      BY <2>1, <3>1 DEF Prepared, InitAsks, Checkout
  <2>2. CASE BeginRun(t) \/ SecretsFail(t) \/ Prepare(t) \/ JobFails(t)
    BY <1>0, <2>2 DEF BeginRun, SecretsFail, Prepare, JobFails, JobError
  <2>3. CASE \/ InitNotices(t) \/ InitAnswered(t) \/ AppExits(t) \/ Planned(t) \/ Answered(t)
             \/ JobReturns(t)
    BY <1>0, <2>3 DEF InitNotices, InitAnswered, AppExits, Planned, Answered, JobReturns
  <2> QED
    BY <2>1, <2>2, <2>3 DEF Job
<1>5. UNCHANGED others
  BY JobFacts
<1> QED
  BY <1>1, <1>3, <1>4, <1>5, RowFacts DEF Quiet, others, storeVars

(* What a step does to the phases: nothing, or one of five.                *)
LEMMA StepKinds ==
    ASSUME TypeOK, OnePlace, Linked, [Next]_vars
    PROVE  \/ Quiet
           \/ \E t \in Tasks : Adds(t) \/ FinishRun(t) \/ SendFinished(t)
           \/ ScanRun
<1> USE DEF taskVars, storeVars, intake
<1>0. {"stopped", "stopping", "confirmed", "rejected"} \subseteq Statuses
  BY DEF Statuses, UnfinishedTaskStatuses, FinishedStatuses
<1>1. CASE UNCHANGED vars
  BY <1>1 DEF vars, poolVars, Quiet, Exists
<1>2. CASE Tick \/ HandleTick \/ Snapshot \/ ScanSkip \/ \E t \in Tasks : HandleNew(t)
  BY <1>2 DEF Tick, HandleTick, Snapshot, ScanSkip, HandleNew, Quiet, Exists
<1>3. ASSUME NEW t \in Tasks, CreateTask(t) \/ CreateTaskFails(t),
             Parent[t] # NoTask => Parent[t] \in Tasks /\ run[Parent[t]] = "children"
      PROVE  Adds(t)
  BY <1>3 DEF CreateTask, CreateTaskFails, Adds, Exists, TypeOK
<1>4. ASSUME NEW t \in Tasks, Api(t) \/ Register(t)
      PROVE  Quiet \/ Adds(t)
  <2>1. CASE AddTask(t)
    BY <1>3, <2>1 DEF AddTask
  <2>2. CASE ConfirmTask(t) \/ RejectTask(t) \/ Register(t)
    <3>1. Exists(t)
      BY <2>2, ExistsFacts DEF ConfirmTask, RejectTask, Register
    <3>2. saveStatus(t) \/ \E s \in Statuses : SetStatus(t, s)
      BY <1>0, <2>2 DEF ConfirmTask, RejectTask, Register
    <3> QED
      BY <2>2, <3>1, <3>2, RowFacts DEF ConfirmTask, RejectTask, Register, Quiet
  <2>3. ASSUME NEW force \in BOOLEAN, StopTask(t, force)
        PROVE  Quiet
    <3>1. \E s \in Statuses : SetStatus(t, s) \/ SetRowStatus(t, s)
      BY <1>0, <2>3 DEF StopTask, StopTaskRunner
    <3> QED
      BY <2>3, <3>1, RowFacts DEF StopTask, Quiet
  <2> QED
    BY <1>4, <2>1, <2>2, <2>3 DEF Api
<1>5. ASSUME NEW t \in Tasks, RunStep(t)
      PROVE  Quiet \/ FinishRun(t) \/ \E c \in Tasks : Adds(c)
  <2>1. CASE BeginRun(t) \/ Job(t)
    BY <2>1, JobQuiet
  <2>2. ASSUME NEW c \in Tasks, run[t] = "children", AutorunChild(t, c)
        PROVE  Adds(c)
    BY <1>3, <2>2 DEF AutorunChild, Children
  <2>3. CASE \/ Goto(t, "autorun", IF status[t] = "success" THEN "children" ELSE "finish")
             \/ Goto(t, "children", "finish")
    <3>1. Proceeds(t)
      BY <2>3 DEF Goto, Proceeds, RunPoints, Early
    <3>2. UNCHANGED <<row, others>>
      BY <1>5, <2>3 DEF RunStep, RunAutorun, BeginRun, Job, SecretsFail, Prepare,
     InitAsks, InitNotices,
     InitAnswered, Checkout, Prepared,
         AppExits, Planned, Answered, JobFails, JobError, JobReturns, FinishRun, Goto,
         AutorunChild, CreateTask, CreateTaskFails, TypeOK
    <3> QED
      BY <3>1, <3>2 DEF Quiet, others, Exists
  <2> QED
    BY <1>5, <2>1, <2>2, <2>3 DEF RunStep, RunAutorun
<1>6. CASE TemplateStop
  <2>1. UNCHANGED <<run, running, active, ended>>
    BY <1>6 DEF TemplateStop, TemplateStopRows, TemplateStopSnapshot, TemplateStopQueued,
         TemplateStopRunning, TemplateStopRest
  <2>2. ASSUME NEW t \in Tasks, TemplateStopQueued(t) \/ TemplateStopRunning(t) \/ TemplateStopRest(t)
        PROVE  \A u \in Tasks : Exists(u)' <=> Exists(u)
    <3>1. Exists(t)
      BY <2>2 DEF TemplateStopQueued, TemplateStopRunning, TemplateStopRest, Linked
    <3>2. row' = row \/ \E s \in Statuses : SetStatus(t, s) \/ SetRowStatus(t, s)
      BY <1>0, <2>2 DEF TemplateStopQueued, TemplateStopRunning, TemplateStopRest, StopTaskRunner
    <3> QED
      BY <3>1, <3>2, RowFacts
  <2>3. ASSUME NEW q \in Templates, NEW force \in BOOLEAN, TemplateStopRows(q, force)
        PROVE  \A u \in Tasks : Exists(u)' <=> Exists(u)
    BY <2>3 DEF TemplateStopRows, Exists
  <2>4. CASE TemplateStopSnapshot
    BY <2>1, <2>4 DEF TemplateStopSnapshot, Quiet, Exists
  <2> QED
    BY <1>6, <2>1, <2>2, <2>3, <2>4 DEF TemplateStop, Quiet
<1> QED
  BY <1>1, <1>2, <1>4, <1>5, <1>6 DEF Next, HandleQueue

(* The links are kept.                                                     *)
LEMMA LinkedStep ==
    ASSUME TypeOK, OnePlace, Linked, [Next]_vars
    PROVE  Linked'
<1> USE DEF taskVars, storeVars, intake
<1> DEFINE Links == active' = running' /\ \A t \in Tasks : run'[t] = "send" => t \in ended'
<1>1. Links
  <2>1. CASE Quiet
    BY <2>1 DEF Quiet, Proceeds, Linked, TypeOK
  <2>2. ASSUME NEW t \in Tasks, Adds(t)
        PROVE  Links
    BY <2>2 DEF Adds, Linked
  <2>3. ASSUME NEW t \in Tasks, FinishRun(t)
        PROVE  Links
    BY <2>3 DEF FinishRun, SaveEnd, Goto, Linked, TypeOK
  <2>4. ASSUME NEW t \in Tasks, SendFinished(t)
        PROVE  Links
    BY <2>4 DEF SendFinished, ReceiveFinished, onTaskStop, Goto, Linked, TypeOK
  <2>5. CASE ScanRun
    BY <2>5 DEF ScanRun, onTaskRun, Linked, TypeOK
  <2> QED
    BY <2>1, <2>2, <2>3, <2>4, <2>5, StepKinds
<1>2. RowsKept
  BY IntakeType, HandlerType, RunStepType, TemplateStopType DEF Next, Api, AddTask, vars,
     poolVars, RowsKept, Exists
<1>a. \A c \in Tasks : BeginRun(c) \/ Job(c) => UNCHANGED others
  BY JobFacts
<1>3. \/ UNCHANGED stopper \/ stopper' = NoStop \/ TemplateStop
  BY <1>a DEF Next, HandleQueue, Tick, HandleTick, Snapshot, ScanSkip, ScanRun, Api, AddTask,
     CreateTask, CreateTaskFails, ConfirmTask, RejectTask, StopTask, Register, HandleNew,
     RunStep, RunAutorun, AutorunChild, FinishRun, SendFinished, others,
     vars, poolVars
<1>4. \A t \in stopper'.todo : Exists(t)'
  <2>0. stopper \in [pc : {"idle", "rows", "queue", "running", "rest"},
                    tpl : Templates \cup {NoTask}, force : BOOLEAN,
                    todo : SUBSET Tasks, done : SUBSET Tasks]
    BY DEF TypeOK
  <2>a. NoStop.todo = {}
    BY DEF NoStop
  <2>1. CASE UNCHANGED stopper
    BY <1>2, <2>1 DEF Linked, RowsKept, TypeOK
  <2>2. CASE stopper' = NoStop
    BY <2>2 DEF NoStop
  <2>3. CASE TemplateStopSnapshot
    <3>1. \A t \in Tasks : (InQueue(t) \/ t \in running \/ t \in Unhandled) => Exists(t)
      BY DEF OnePlace, Known, Unhandled, Exists, UnfinishedTaskStatuses
    <3> DEFINE Q == OfTemplate(Queued, stopper.tpl)
               R == OfTemplate(running, stopper.tpl)
               U == Unhandled
    <3>a. \/ stopper' = [stopper EXCEPT !.pc = "queue", !.todo = Q]
          \/ stopper' = [stopper EXCEPT !.pc = "running", !.todo = R]
          \/ stopper' = [stopper EXCEPT !.pc = "rest", !.todo = U]
          \/ stopper' = NoStop
      BY <2>3 DEF TemplateStopSnapshot
    <3>b. Q \cup R \cup U \subseteq {t \in Tasks : InQueue(t) \/ t \in running \/ t \in Unhandled}
      BY DEF OfTemplate, Queued, Unhandled, TypeOK
    <3> HIDE DEF Q, R, U
    <3>2. stopper'.todo \in {Q, R, U, {}}
      BY <2>0, <2>a, <3>a
    <3>3. stopper'.todo \subseteq {t \in Tasks : InQueue(t) \/ t \in running \/ t \in Unhandled}
      BY <3>2, <3>b
    <3> QED
      BY <1>2, <3>1, <3>3 DEF RowsKept
  <2>4. ASSUME NEW t \in Tasks, TemplateStopQueued(t) \/ TemplateStopRunning(t) \/ TemplateStopRest(t)
        PROVE  stopper'.todo \subseteq stopper.todo
    <3>1. \/ stopper' = [stopper EXCEPT !.todo = stopper.todo \ {t}, !.done = stopper.done \cup {t}]
          \/ stopper' = [stopper EXCEPT !.todo = stopper.todo \ {t}]
          \/ stopper' = NoStop
      BY <2>4 DEF TemplateStopQueued, TemplateStopRunning, TemplateStopRest, Stopped, Passed
    <3>2. stopper'.todo = stopper.todo \ {t} \/ stopper'.todo = {}
      BY <2>0, <2>a, <3>1
    <3> QED
      BY <3>2
  <2>5. ASSUME NEW q \in Templates, NEW force \in BOOLEAN, TemplateStopRows(q, force)
        PROVE  stopper'.todo = {}
    BY <2>5 DEF TemplateStopRows, NoStop
  <2> QED
    BY <1>2, <1>3, <2>1, <2>2, <2>3, <2>4, <2>5 DEF TemplateStop, Linked, RowsKept, TypeOK
<1> QED
  BY <1>1, <1>4 DEF Linked

(* The links hold in every reachable state.                                *)
THEOREM LinksHold == Spec => []Linked
<1>1. Init => Linked
  BY DEF Init, PoolInit, NoStop, Linked
<1>2. TypeOK /\ OnePlace /\ Linked /\ [Next]_vars => Linked'
  BY LinkedStep
<1> QED
  BY <1>1, <1>2, TypeCorrect, TaskInOnePlace, PTL DEF Spec

-----------------------------------------------------------------------------
\* The phases of all tasks, the state of TaskLifecycle.
Phases == [t \in Tasks |-> Phase(t)]

(* The instance's own name for the cardinality of a set.                   *)
LEMMA SameCardinality == \A S : Lifecycle!Cardinality(S) = Cardinality(S)
BY DEF Lifecycle!Cardinality, Cardinality

(* A task moves from one phase to another and the others stay.             *)
LEMMA PhaseMoves ==
    ASSUME NEW t \in Tasks, NEW from, NEW to,
           Phase(t) = from, Phase(t)' = to,
           \A u \in Tasks : u # t => Phase(u)' = Phase(u)
    PROVE  Lifecycle!Move(t, from, to)
BY DEF Lifecycle!Move

(* The claim of handleQueue: an added task becomes live while the pool has *)
(* room.                                                                   *)
LEMMA ClaimStarts ==
    ASSUME TypeOK, OnePlace, Linked, ScanRun
    PROVE  \E t \in Tasks : Lifecycle!Start(t)
<1>0. Head(todo) \in Tasks
  BY DEF ScanRun, TypeOK
<1>1. PICK t \in Tasks : InQueue(t) /\ run' = [run EXCEPT ![t] = "sleep"]
  BY <1>0 DEF ScanRun
<1>2. ~PoolFull /\ UNCHANGED <<row, ended>>
  BY DEF ScanRun, Blocks
<1>3. t \notin ended /\ Exists(t) /\ t \notin running /\ run[t] = "none"
  BY <1>1 DEF OnePlace, Known, Live
<1>4. Phase(t) = "added" /\ Phase(t)' = "live"
  BY <1>1, <1>2, <1>3 DEF Phase, TypeOK
<1>5. \A u \in Tasks : u # t => Phase(u)' = Phase(u)
  BY <1>1, <1>2 DEF Phase, Exists, TypeOK
<1>6. Lifecycle!Move(t, "added", "live")
  BY <1>1, <1>4, <1>5, PhaseMoves
<1>7. Lifecycle!Live = running
  BY DEF Lifecycle!Live, Phase, OnePlace, Live
<1>8. MaxParallelTasks = 0 \/ Cardinality(running) < MaxParallelTasks
  <2>1. Cardinality(running) \in Nat
    BY PoolAssumption, FS_Subset, FS_CardinalityType DEF TypeOK
  <2> QED
    BY <1>2, <2>1, PoolAssumption DEF PoolFull
<1> QED
  BY <1>1, <1>6, <1>7, <1>8, SameCardinality DEF Lifecycle!Start

(* A row is created by AddTask, or by startAutorunTasks of a live build.   *)
LEMMA RowAdds ==
    ASSUME TypeOK, OnePlace, NEW t \in Tasks, Adds(t)
    PROVE  Lifecycle!Add(t)
<1>1. t \notin ended /\ run[t] = "none"
  BY DEF Adds, OnePlace, Known, Live
<1>2. Phase(t) = "new" /\ Phase(t)' = "added"
  BY <1>1 DEF Phase, Adds
<1>3. \A u \in Tasks : u # t => Phase(u)' = Phase(u)
  BY DEF Phase, Adds
<1>4. Parent[t] # NoTask => Phase(Parent[t]) = "live" /\ Parent[t] \in Tasks
  BY DEF Adds, Phase
<1> QED
  BY <1>2, <1>3, <1>4, PhaseMoves DEF Lifecycle!Add

(* The pool implements TaskLifecycle: in every interleaving of AddTask,     *)
(* Run, handleQueue, run() and the stop operations a task is added once,    *)
(* after its build, started once, within the capacity, and stays finished. *)
THEOREM PoolImplementsLifecycle == Spec => ImplementsLifecycle
<1>1. Init => Lifecycle!Init
  BY DEF Init, PoolInit, Lifecycle!Init, Phase, Exists
<1>2. TypeOK /\ OnePlace /\ Linked /\ [Next]_vars => [Lifecycle!Next]_Phases
  <2> SUFFICES ASSUME TypeOK, OnePlace, Linked, [Next]_vars
               PROVE  Lifecycle!Next \/ Phases' = Phases
    BY DEF Phases
  <2>1. CASE Quiet
    <3>1. \A t \in Tasks : (run'[t] = "none") <=> (run[t] = "none")
      BY <2>1 DEF Quiet, Proceeds, TypeOK
    <3>2. \A t \in Tasks : Phase(t)' = Phase(t)
      BY <2>1, <3>1 DEF Quiet, Phase
    <3> QED
      BY <3>2 DEF Phases
  <2>2. ASSUME NEW t \in Tasks, Adds(t)
        PROVE  Lifecycle!Next
    BY <2>2, RowAdds DEF Lifecycle!Next
  <2>3. ASSUME NEW t \in Tasks, FinishRun(t)
        PROVE  Phases' = Phases
    <3>1. /\ run[t] = "finish" /\ run' = [run EXCEPT ![t] = "send"]
          /\ ended' = ended \cup {t}
          /\ row' = [row EXCEPT ![t] = status[t]]
      BY <2>3 DEF FinishRun, SaveEnd, saveStatus, Goto
    <3>2. \A u \in Tasks : Phase(u)' = Phase(u)
      BY <3>1 DEF Phase, Exists, TypeOK
    <3> QED
      BY <3>2 DEF Phases
  <2>4. ASSUME NEW t \in Tasks, SendFinished(t)
        PROVE  Lifecycle!Next
    <3>1. /\ run[t] = "send" /\ run' = [run EXCEPT ![t] = "none"] /\ t \in ended
          /\ UNCHANGED <<row, ended>>
      BY <2>4 DEF SendFinished, Goto, Linked
    <3>2. Phase(t) = "live" /\ Phase(t)' = "done"
      BY <3>1 DEF Phase, TypeOK
    <3>3. \A u \in Tasks : u # t => Phase(u)' = Phase(u)
      BY <3>1 DEF Phase, Exists, TypeOK
    <3> QED
      BY <3>2, <3>3, PhaseMoves DEF Lifecycle!Next, Lifecycle!Finish
  <2>5. CASE ScanRun
    BY <2>5, ClaimStarts DEF Lifecycle!Next
  <2> QED
    BY <2>1, <2>2, <2>3, <2>4, <2>5, StepKinds
<1> QED
  BY <1>1, <1>2, TypeCorrect, TaskInOnePlace, LinksHold, PTL
  DEF Spec, ImplementsLifecycle, Lifecycle!Spec, Phases

-----------------------------------------------------------------------------
(* The live runs of a project, counted as blocks() counts them.            *)
OfProject(p) == {t \in running : ProjectOf[TemplateOf[t]] = p}

ProjectBound ==
    \A p \in Projects : ProjectMax[p] > 0 => Cardinality(OfProject(p)) <= ProjectMax[p]

(* The check of blocks() and the claim are one step, so that a project      *)
(* does not grow past its limit when its row can be read.                  *)
LEMMA ProjectBoundStep ==
    ASSUME LookupErrors = {FALSE}, TypeOK, Linked, ProjectBound, [Next]_vars
    PROVE  ProjectBound'
<1> SUFFICES ASSUME NEW p \in Projects, ProjectMax[p] > 0
             PROVE  Cardinality(OfProject(p)') <= ProjectMax[p]
  BY DEF ProjectBound
<1>1. IsFiniteSet(OfProject(p)) /\ Cardinality(OfProject(p)) \in Nat
  BY PoolAssumption, FS_Subset, FS_CardinalityType DEF TypeOK, OfProject
<1>2. ProjectMax[p] \in Nat /\ Cardinality(OfProject(p)) <= ProjectMax[p]
  BY PoolAssumption DEF ProjectBound
<1>3. CASE running' \subseteq running
  <2>1. OfProject(p)' \subseteq OfProject(p)
    BY <1>3 DEF OfProject
  <2>2. Cardinality(OfProject(p)') <= Cardinality(OfProject(p)) /\ Cardinality(OfProject(p)') \in Nat
    BY <1>1, <2>1, FS_Subset, FS_CardinalityType
  <2> QED
    BY <1>1, <1>2, <2>2
<1>4. CASE ScanRun
  <2> DEFINE t == Head(todo)
             q == ProjectOf[TemplateOf[t]]
  <2>1. running' = running \cup {t}
    BY <1>4 DEF ScanRun, onTaskRun
  <2>2. ~(ActiveOf(q) # {} /\ ProjectFull(q))
    BY <1>4 DEF ScanRun, Blocks
  <2>3. CASE q # p
    <3>1. OfProject(p)' = OfProject(p)
      BY <2>1, <2>3 DEF OfProject
    <3> QED
      BY <1>2, <3>1
  <2>4. CASE q = p
    <3>1. ActiveOf(q) = OfProject(p)
      BY <2>4 DEF ActiveOf, OfProject, Linked
    <3>2. OfProject(p) = {} \/ Cardinality(OfProject(p)) < ProjectMax[p]
      BY <1>1, <1>2, <2>2, <2>4, <3>1 DEF ProjectFull
    <3>3. OfProject(p)' = OfProject(p) \cup {t}
      BY <2>1, <2>4 DEF OfProject
    <3>4. Cardinality(OfProject(p)') \in {Cardinality(OfProject(p)), Cardinality(OfProject(p)) + 1}
      BY <1>1, <3>3, FS_AddElement
    <3>5. OfProject(p) = {} => Cardinality(OfProject(p)) = 0
      BY FS_EmptySet
    <3> QED
      BY <1>1, <1>2, <3>2, <3>4, <3>5
  <2> QED
    BY <2>3, <2>4
<1> QED
  BY <1>3, <1>4, OnlyClaimAdds

(* Project.MaxParallelTasks bounds the live runs of a project, as long as   *)
(* GetProject does not fail: blocks() ignores the limit when it does.      *)
THEOREM ProjectLimitHolds ==
    LookupErrors = {FALSE} => (Spec => []ProjectLimit)
<1> SUFFICES ASSUME LookupErrors = {FALSE}
             PROVE  Spec => []ProjectLimit
  OBVIOUS
<1>1. Init => ProjectBound
  <2> SUFFICES ASSUME Init, NEW p \in Projects, ProjectMax[p] > 0
               PROVE  Cardinality(OfProject(p)) <= ProjectMax[p]
    BY DEF ProjectBound
  <2>1. OfProject(p) = {}
    BY DEF Init, PoolInit, OfProject
  <2> QED
    BY <2>1, FS_EmptySet, PoolAssumption
<1>2. TypeOK /\ Linked /\ ProjectBound /\ [Next]_vars => ProjectBound'
  BY ProjectBoundStep
<1>3. OnePlace /\ ProjectBound => ProjectLimit
  BY DEF OnePlace, ProjectBound, ProjectLimit, OfProject
<1> QED
  BY <1>1, <1>2, <1>3, TypeCorrect, TaskInOnePlace, LinksHold, PTL DEF Spec

-----------------------------------------------------------------------------
(* Exclusion of the runs of one template.                                  *)

\* On the way to its run, or in the job.
Pending(t) == t \in registering \/ loop = t \/ InQueue(t) \/ run[t] \in Early

(* blocks() recognises a run by its active entry and by a status that is    *)
(* not finished, so that no task may have a finished one from AddTask to   *)
(* the end of its job.                                                     *)
Unended ==
    /\ \A t \in Tasks : Pending(t) => ~IsFinished(status[t])
    /\ \A t \in Tasks : ~Exists(t) => status[t] = "waiting"
    /\ stopper.pc = "idle"

Exclusive ==
    \A t, u \in Tasks :
        run[t] \in Early /\ run[u] \in Early /\ t # u /\ TemplateOf[t] = TemplateOf[u]
            => TemplateOf[t] \in AllowParallelTasks

\* Nobody uses the operations that set a queued or starting task to stopped.
Graceful == Ops \cap {"force", "stopTemplate", "forceTemplate"} = {}

(* SetStatus gives one task the new status, or leaves it.                  *)
LEMMA StatusFacts ==
    ASSUME TypeOK, NEW t \in Tasks, NEW s, SetStatus(t, s)
    PROVE  /\ status'[t] \in {status[t], s}
           /\ \A u \in Tasks : u # t => status'[u] = status[u] /\ row'[u] = row[u]
BY DEF SetStatus, AfterSetStatus, TypeOK

(* A step of run() in its job changes the status of its own task.          *)
LEMMA JobStatus ==
    ASSUME TypeOK, OnePlace, NEW t \in Tasks, BeginRun(t) \/ Job(t)
    PROVE  /\ \A u \in Tasks : u # t => status'[u] = status[u] /\ run'[u] = run[u]
           /\ run'[t] \in Early => status'[t] \in {status[t], "starting", "running", "waiting_confirmation"}
           /\ run'[t] \in Early => run[t] \in Early
           /\ run[t] # "none"
<1> DEFINE Goal == /\ \A u \in Tasks : u # t => status'[u] = status[u] /\ run'[u] = run[u]
                   /\ run'[t] \in Early => status'[t] \in {status[t], "starting", "running", "waiting_confirmation"}
                   /\ run'[t] \in Early => run[t] \in Early
                   /\ run[t] # "none"
<1> USE DEF Early
<1>0. run \in [Tasks -> RunPoints] /\ status \in [Tasks -> Statuses]
  BY DEF TypeOK
<1>1. CASE BeginRun(t) \/ SecretsFail(t) \/ Prepare(t)
  BY <1>0, <1>1 DEF BeginRun, SecretsFail, Prepare, Goto, SetStatus, AfterSetStatus
<1>2. CASE Prepared(t) \/ AppExits(t)
  BY <1>0, <1>2 DEF Prepared, AppExits, Goto, AfterSetStatus
<1>3. CASE Planned(t) \/ Answered(t)
  BY <1>0, <1>3 DEF Planned, Answered, Goto, SetStatus, AfterSetStatus
<1>5. CASE InitAsks(t) \/ InitNotices(t) \/ InitAnswered(t)
  BY <1>0, <1>5 DEF InitAsks, InitNotices, InitAnswered, Goto, SetStatus, AfterSetStatus
<1>4. CASE JobFails(t) \/ JobReturns(t)
  BY <1>0, <1>4 DEF JobFails, JobError, JobReturns, Goto, SetStatus, AfterSetStatus
<1> QED
  BY <1>1, <1>2, <1>3, <1>4, <1>5 DEF Job

(* With graceful stops a task keeps an unfinished status until its job has *)
(* returned.                                                               *)
LEMMA UnendedStep ==
    ASSUME Graceful, TypeOK, OnePlace, Linked, Unended, [Next]_vars
    PROVE  Unended'
<1> USE DEF taskVars, storeVars, intake, IsFinished, FinishedStatuses
<1>1. CASE Tick \/ HandleTick \/ Snapshot \/ ScanSkip \/ UNCHANGED vars
  <2>1. /\ UNCHANGED <<status, row, run, registering, stopper>>
        /\ queue' = queue \/ \E u : Dequeue(u)
        /\ loop' = loop \/ loop' \notin Tasks
    BY <1>1, PoolAssumption DEF Tick, HandleTick, Snapshot, ScanSkip, vars, poolVars
  <2>2. ASSUME NEW t \in Tasks, Pending(t)'
        PROVE  Pending(t)
    <3>1. Entries(queue') \subseteq Entries(queue)
      <4>1. Distinct(queue) /\ queue \in Seq(Tasks)
        BY DEF OnePlace, Distinct, TypeOK
      <4> QED
        BY <2>1, <4>1, RemoveQueue DEF Dequeue
    <3>2. InQueue(t)' => InQueue(t)
      BY <3>1 DEF InQueue, Entries
    <3> QED
      BY <2>1, <2>2, <3>2 DEF Pending
  <2> QED
    BY <2>1, <2>2 DEF Unended, Exists
<1>2. ASSUME NEW c \in Tasks, HandleNew(c) \/ Register(c)
      PROVE  Unended'
  <2>1. /\ UNCHANGED <<status, run, stopper>>
        /\ \A t \in Tasks : t \in registering' => t \in registering
        /\ \A t \in Tasks : loop' = t => t \in registering
        /\ \A t \in Tasks : Exists(t) => Exists(t)'
    <3>1. RowsKept
      BY <1>2, IntakeType, HandlerType
    <3> QED
      BY <1>2, <3>1, PoolAssumption DEF HandleNew, Register, RowsKept
  <2>2. ASSUME NEW t \in Tasks
        PROVE  InQueue(t)' => InQueue(t) \/ loop = t
    <3>1. queue' = queue \/ (queue' = Append(queue, c) /\ loop = c)
      BY <1>2 DEF HandleNew, Register
    <3>2. Entries(Append(queue, c)) = Entries(queue) \cup {c}
      BY AppendQueue DEF TypeOK
    <3> QED
      BY <3>1, <3>2, InQueueEntries DEF InQueue, Entries
  <2> QED
    BY <2>1, <2>2 DEF Unended, Pending
<1>3. ASSUME NEW c \in Tasks, CreateTask(c) \/ CreateTaskFails(c)
      PROVE  Unended'
  <2>1. /\ UNCHANGED <<queue, run, loop, stopper>>
        /\ status[c] = "waiting" /\ ~Pending(c)
    BY <1>3, ExistsFacts DEF CreateTask, CreateTaskFails, Unended, Pending, Known, Early
  <2>2. /\ \A t \in Tasks : t # c => status'[t] = status[t] /\ row'[t] = row[t]
        /\ row'[c] # "none"
        /\ \A t \in Tasks : t \in registering' => t \in registering \/ (t = c /\ status' = status)
    BY <1>3 DEF CreateTask, CreateTaskFails, TypeOK
  <2>3. \A t \in Tasks : InQueue(t)' <=> InQueue(t)
    BY <2>1 DEF InQueue
  <2> QED
    BY <2>1, <2>2, <2>3 DEF Unended, Pending, Exists
<1>4. ASSUME NEW c \in Tasks,
             \/ ConfirmTask(c) \/ RejectTask(c)
             \/ \E force \in BOOLEAN : StopTask(c, force)
      PROVE  Unended'
  <2>1. /\ UNCHANGED <<queue, run, loop, registering, stopper>>
        /\ Exists(c)
    BY <1>4, ExistsFacts DEF ConfirmTask, RejectTask, StopTask
  <2>2. \/ \E s \in {"confirmed", "rejected", "stopping"} : SetStatus(c, s)
        \/ SetRowStatus(c, "stopped")
    BY <1>4 DEF ConfirmTask, RejectTask, StopTask, StopTaskRunner, StopOps, Graceful
  <2>3. \A t \in Tasks : Exists(t)' <=> Exists(t)
    <3>1. {"confirmed", "rejected", "stopping", "stopped"} \subseteq Statuses
      BY DEF Statuses, UnfinishedTaskStatuses
    <3> QED
      BY <2>1, <2>2, <3>1, RowFacts
  <2>4. /\ \A t \in Tasks : t # c => status'[t] = status[t]
        /\ status'[c] \in {status[c], "confirmed", "rejected", "stopping"}
    BY <2>2, StatusFacts DEF SetRowStatus
  <2>5. \A t \in Tasks : Pending(t)' <=> Pending(t)
    BY <2>1 DEF Pending, InQueue
  <2> QED
    BY <2>1, <2>3, <2>4, <2>5 DEF Unended
<1>5. ASSUME NEW c \in Tasks, BeginRun(c) \/ Job(c)
      PROVE  Unended'
  <2>1. Quiet /\ UNCHANGED stopper
    BY <1>5, JobQuiet
  <2>2. UNCHANGED <<queue, loop, registering>>
    BY <1>5, JobFacts DEF others
  <2>3. c \in running /\ ~InQueue(c) /\ loop # c /\ c \notin registering
    BY <1>5, JobStatus DEF OnePlace, Live, Known
  <2>4. \A t \in Tasks : InQueue(t)' <=> InQueue(t)
    BY <2>2 DEF InQueue
  <2> QED
    BY <1>5, <2>1, <2>2, <2>3, <2>4, JobStatus, ExistsFacts DEF Unended, Pending, Quiet
<1>6. ASSUME NEW c \in Tasks, RunAutorun(c) \/ FinishRun(c) \/ SendFinished(c)
      PROVE  Unended'
  <2>1. CASE \E d \in Tasks : AutorunChild(c, d)
    BY <1>3, <2>1 DEF AutorunChild
  <2>2. CASE ~ \E d \in Tasks : AutorunChild(c, d)
    <3>1. /\ UNCHANGED <<status, queue, loop, registering, stopper>>
          /\ \A t \in Tasks : run'[t] \in Early => run[t] \in Early
      BY <1>6, <2>2 DEF RunAutorun, FinishRun, SendFinished, ReceiveFinished, Goto, others,
         Early, TypeOK
    <3>2. RowsKept
      BY <1>6, RunStepType, HandlerType DEF RunStep
    <3>3. \A t \in Tasks : InQueue(t)' <=> InQueue(t)
      BY <3>1 DEF InQueue
    <3> QED
      BY <3>1, <3>2, <3>3 DEF Unended, Pending, RowsKept
  <2> QED
    BY <2>1, <2>2
<1>7. CASE ScanRun
  <2>1. UNCHANGED <<status, row, registering, loop, stopper>>
    BY <1>7 DEF ScanRun
  <2>2. PICK c \in Tasks : InQueue(c) /\ run' = [run EXCEPT ![c] = "sleep"] /\ Dequeue(c)
    <3>1. Head(todo) \in Tasks
      BY <1>7 DEF ScanRun, TypeOK
    <3> QED
      BY <1>7, <3>1 DEF ScanRun
  <2>3. ASSUME NEW t \in Tasks
        PROVE  InQueue(t)' => InQueue(t)
    <3>1. Distinct(queue) /\ queue \in Seq(Tasks)
      BY DEF OnePlace, Distinct, TypeOK
    <3>2. Entries(queue') \subseteq Entries(queue)
      BY <2>2, <3>1, RemoveQueue DEF Dequeue
    <3> QED
      BY <3>2 DEF InQueue, Entries
  <2>4. \A t \in Tasks : run'[t] \in Early => run[t] \in Early \/ t = c
    BY <2>2 DEF TypeOK
  <2> QED
    BY <2>1, <2>2, <2>3, <2>4 DEF Unended, Pending, Exists
<1>8. ~TemplateStop
  <2>1. stopper.pc = "idle" /\ TemplateStopOps = {}
    BY DEF Unended, TemplateStopOps, Graceful
  <2> QED
    BY <2>1 DEF TemplateStop, TemplateStopRows, TemplateStopSnapshot, TemplateStopQueued,
       TemplateStopRunning, TemplateStopRest
<1> QED
  BY <1>1, <1>2, <1>3, <1>4, <1>5, <1>6, <1>7, <1>8 DEF Next, HandleQueue, Api, AddTask, RunStep

(* Only a claim brings a run into its job, and blocks() then finds no run   *)
(* of the template there, unless the template allows parallel tasks.       *)
LEMMA ExclusiveStep ==
    ASSUME TypeOK, OnePlace, Linked, Unended, Exclusive, [Next]_vars
    PROVE  Exclusive'
<1>1. CASE ScanRun
  <2>1. PICK c \in Tasks : ~TemplateBusy(c) /\ run' = [run EXCEPT ![c] = "sleep"]
    <3>1. Head(todo) \in Tasks
      BY <1>1 DEF ScanRun, TypeOK
    <3> QED
      BY <1>1, <3>1 DEF ScanRun, Blocks
  <2>2. \A t \in Tasks : run[t] \in Early => t \in active /\ ~IsFinished(status[t])
    BY DEF OnePlace, Linked, Unended, Pending, Live, Early
  <2>3. \A t \in Tasks : run[t] \in Early /\ TemplateOf[t] = TemplateOf[c]
                          => TemplateOf[t] \in AllowParallelTasks
    BY <2>1, <2>2 DEF TemplateBusy, ActiveOf
  <2>4. \A t \in Tasks : t # c => run'[t] = run[t]
    BY <2>1 DEF TypeOK
  <2> QED
    BY <2>3, <2>4 DEF Exclusive
<1>2. CASE ~ScanRun
  <2>1. \A t \in Tasks : run'[t] \in Early => run[t] \in Early
    <3>1. CASE Quiet
      BY <3>1 DEF Quiet, Proceeds, TypeOK
    <3>2. CASE \E t \in Tasks : Adds(t) \/ FinishRun(t) \/ SendFinished(t)
      BY <3>2 DEF Adds, FinishRun, SendFinished, Goto, Early, TypeOK
    <3> QED
      BY <1>2, <3>1, <3>2, StepKinds
  <2> QED
    BY <2>1 DEF Exclusive
<1> QED
  BY <1>1, <1>2

(* Without forced stops and bulk stops, which give a task a finished status *)
(* before its run has ended, two tasks of a template that does not allow    *)
(* parallel tasks never execute at once, from the queue to the end of the   *)
(* job (the template check of blocks).                                     *)
THEOREM TemplateExclusiveHolds == Graceful => (Spec => []TemplateExclusive)
<1> SUFFICES ASSUME Graceful
             PROVE  Spec => []TemplateExclusive
  OBVIOUS
<1>1. Init => Unended /\ Exclusive
  BY DEF Init, PoolInit, NoStop, Unended, Exclusive, Pending, InQueue, Exists, Early,
     IsFinished, FinishedStatuses
<1>2. TypeOK /\ OnePlace /\ Linked /\ Unended /\ Exclusive /\ [Next]_vars
         => Unended' /\ Exclusive'
  BY UnendedStep, ExclusiveStep
<1>3. Exclusive => TemplateExclusive
  BY DEF Exclusive, TemplateExclusive, Executing, Early
<1> QED
  BY <1>1, <1>2, <1>3, TypeCorrect, TaskInOnePlace, LinksHold, PTL DEF Spec

-----------------------------------------------------------------------------
(* The status that a run leaves behind.                                    *)

\* Added and not yet claimed by handleQueue.
Awaits(t) == t \in registering \/ loop = t \/ InQueue(t)

\* The statuses of a task at each point of run().
RunStatus(t) ==
    /\ run[t] = "sleep" => status[t] \in {"waiting", "stopped"}
    /\ run[t] = "started" => status[t] \in {"starting", "stopped"}
    /\ run[t] \in {"preparing", "answered", "app", "apply"} => status[t] \in {"running", "stopped"}
    /\ run[t] \in {"dialog", "confirm"}
         => status[t] \in {"waiting_confirmation", "confirmed", "rejected", "stopped"}
    /\ run[t] = "asking"
         => status[t] \in {"running", "waiting_confirmation", "confirmed", "rejected", "stopped"}
    /\ run[t] = "returned" => status[t] \in {"running", "stopped", "success", "error"}
    /\ run[t] \in {"autorun", "children", "finish", "send"} => IsFinished(status[t])

(* The inductive invariant behind EndsFinished.  A recorded end keeps its   *)
(* finished row because only a forced stop can still reach it.             *)
Ending ==
    /\ \A t \in Tasks :
          /\ RunStatus(t)
          /\ Awaits(t) => status[t] \in {"waiting", "stopped"}
          /\ t \in ended => IsFinished(row[t])
          /\ ~Exists(t) => status[t] = "waiting"
    /\ stopper.pc # "idle" => stopper.force

\* Stops are forced, and answers are given in the dialogue.
Forced == Ops \subseteq {"dialog", "force", "forceTemplate"}

(* A task comes to the queue by way of AddTask and Run only.               *)
LEMMA AwaitsStep ==
    ASSUME TypeOK, OnePlace, [Next]_vars, NEW t \in Tasks, Awaits(t)'
    PROVE  Awaits(t) \/ CreateTask(t)
<1> USE DEF taskVars, storeVars, intake
<1>0. \A c \in Tasks : BeginRun(c) \/ Job(c) => UNCHANGED others
  BY JobFacts
<1>1. \/ UNCHANGED <<registering, loop>>
      \/ Tick \/ HandleTick
      \/ \E c \in Tasks : CreateTask(c) \/ Register(c) \/ HandleNew(c)
  BY <1>0 DEF Next, HandleQueue, Snapshot, ScanSkip, ScanRun, Api, AddTask,
     CreateTaskFails, ConfirmTask, RejectTask, StopTask,
     RunStep, RunAutorun, AutorunChild, FinishRun, SendFinished, others,
     TemplateStop, TemplateStopRows, TemplateStopSnapshot, TemplateStopQueued,
     TemplateStopRunning, TemplateStopRest, vars, poolVars
<1>2. t \in registering' => t \in registering \/ CreateTask(t)
  BY <1>1 DEF Tick, HandleTick, CreateTask, Register, HandleNew
<1>3. loop' = t => loop = t \/ t \in registering
  BY <1>1, PoolAssumption DEF Tick, HandleTick, CreateTask, Register, HandleNew
<1>4. InQueue(t)' => InQueue(t) \/ loop = t
  <2>1. \/ queue' = queue
        \/ \E c : Dequeue(c)
        \/ \E c \in Tasks : HandleNew(c)
    BY <1>0 DEF Next, HandleQueue, Tick, HandleTick, Snapshot, ScanSkip, ScanRun, Api, AddTask,
     CreateTask, CreateTaskFails, ConfirmTask, RejectTask, StopTask, Register,
     RunStep, RunAutorun, AutorunChild, FinishRun, SendFinished,
     ReceiveFinished, others,
     TemplateStop, TemplateStopRows, TemplateStopSnapshot, TemplateStopQueued,
     TemplateStopRunning, TemplateStopRest, vars, poolVars
  <2>2. ASSUME NEW c, Dequeue(c)
        PROVE  InQueue(t)' => InQueue(t)
    <3>1. Distinct(queue) /\ queue \in Seq(Tasks)
      BY DEF OnePlace, Distinct, TypeOK
    <3>2. Entries(queue') \subseteq Entries(queue)
      BY <2>2, <3>1, RemoveQueue DEF Dequeue
    <3> QED
      BY <3>2 DEF InQueue, Entries
  <2>3. ASSUME NEW c \in Tasks, HandleNew(c)
        PROVE  InQueue(t)' => InQueue(t) \/ loop = t
    <3>1. Entries(Append(queue, c)) = Entries(queue) \cup {c}
      BY AppendQueue DEF TypeOK
    <3> QED
      BY <2>3, <3>1 DEF HandleNew, InQueue, Entries
  <2>4. CASE queue' = queue
    BY <2>4 DEF InQueue
  <2> QED
    BY <2>1, <2>2, <2>3, <2>4
<1> QED
  BY <1>2, <1>3, <1>4 DEF Awaits

(* A step of run() through its job.                                        *)
LEMMA JobEnding ==
    ASSUME TypeOK, NEW t \in Tasks, RunStatus(t), BeginRun(t) \/ Job(t)
    PROVE  /\ RunStatus(t)'
           /\ run[t] \notin {"none", "send"}
           /\ \A u \in Tasks : u # t => UNCHANGED <<status[u], row[u], run[u]>>
<1> DEFINE Goal == /\ RunStatus(t)'
                   /\ run[t] \notin {"none", "send"}
                   /\ \A u \in Tasks : u # t => UNCHANGED <<status[u], row[u], run[u]>>
<1> USE DEF RunStatus, Goto, AfterSetStatus, Accepts, Refuses, IsFinished, FinishedStatuses
<1>0. run \in [Tasks -> RunPoints] /\ status \in [Tasks -> Statuses]
      /\ row \in [Tasks -> Statuses \cup {"none"}]
  BY DEF TypeOK
<1>1. CASE BeginRun(t) \/ SecretsFail(t) \/ Prepare(t)
  BY <1>0, <1>1 DEF BeginRun, SecretsFail, Prepare, SetStatus
<1>2. CASE Prepared(t)
  BY <1>0, <1>2 DEF Prepared, Checkout
<1>8. CASE InitAsks(t) \/ InitNotices(t) \/ InitAnswered(t)
  BY <1>0, <1>8 DEF InitAsks, InitNotices, InitAnswered, Checkout, SetStatus
<1>3. CASE AppExits(t)
  BY <1>0, <1>3 DEF AppExits
<1>4. CASE Planned(t)
  BY <1>0, <1>4 DEF Planned, SetStatus
<1>5. CASE Answered(t)
  BY <1>0, <1>5 DEF Answered, SetStatus
<1>6. CASE JobFails(t)
  BY <1>0, <1>6 DEF JobFails, JobError, SetStatus
<1>7. CASE JobReturns(t)
  BY <1>0, <1>7 DEF JobReturns, SetStatus
<1> QED
  BY <1>1, <1>2, <1>3, <1>4, <1>5, <1>6, <1>7, <1>8 DEF Job

(* A step that only sets statuses and rows to stopped.                     *)
Halts ==
    /\ \A t \in Tasks : /\ status'[t] \in {status[t], "stopped"}
                        /\ row'[t] \in {row[t], "stopped"}
                        /\ ~Exists(t)' => status'[t] = status[t]
                        /\ Exists(t) => Exists(t)'
    /\ UNCHANGED <<run, ended, registering, loop>>

(* Such a step keeps the statuses of Ending.                               *)
LEMMA HaltsEnding ==
    ASSUME Ending, Halts, NEW t \in Tasks
    PROVE  /\ RunStatus(t)'
           /\ t \in ended' => IsFinished(row'[t])
           /\ ~Exists(t)' => status'[t] = "waiting"
BY DEF Halts, Ending, RunStatus, IsFinished, FinishedStatuses

(* Forced stops of single tasks and of templates.                          *)
LEMMA StopsHalt ==
    ASSUME Forced, TypeOK, OnePlace, Linked, Ending,
           TemplateStop \/ \E t \in Tasks, force \in BOOLEAN : StopTask(t, force)
    PROVE  Halts /\ (stopper'.pc # "idle" => stopper'.force)
<1> USE DEF taskVars, storeVars, intake
<1>0. /\ status \in [Tasks -> Statuses] /\ row \in [Tasks -> Statuses \cup {"none"}]
      /\ stopper \in [pc : {"idle", "rows", "queue", "running", "rest"},
                      tpl : Templates \cup {NoTask}, force : BOOLEAN,
                      todo : SUBSET Tasks, done : SUBSET Tasks]
  BY DEF TypeOK
<1>1. ASSUME NEW t \in Tasks, Exists(t),
             SetStatus(t, "stopped") \/ SetRowStatus(t, "stopped") \/ UNCHANGED <<status, row>>,
             UNCHANGED <<run, ended, registering, loop>>
      PROVE  Halts
  BY <1>0, <1>1 DEF SetStatus, SetRowStatus, AfterSetStatus, Halts, Exists
<1>2. ASSUME NEW t \in Tasks, NEW force \in BOOLEAN, StopTask(t, force)
      PROVE  Halts /\ UNCHANGED stopper
  <2>1. force
    BY <1>2 DEF StopTask, StopOps, Forced
  <2> QED
    BY <1>1, <1>2, <2>1 DEF StopTask, StopTaskRunner
<1>3. ASSUME NEW p \in Templates, NEW force \in BOOLEAN, TemplateStopRows(p, force)
      PROVE  Halts /\ stopper'.force
  <2>1. force
    BY <1>3 DEF TemplateStopRows, TemplateStopOps, Forced
  <2>2. Halts
    BY <1>0, <1>3 DEF TemplateStopRows, Halts, Exists
  <2>3. stopper'.force = force
    BY <1>3 DEF TemplateStopRows, NoStop
  <2> QED
    BY <2>1, <2>2, <2>3
<1>4. CASE TemplateStopSnapshot
  <2>1. Halts
    BY <1>4 DEF TemplateStopSnapshot, Halts, Exists
  <2>2. stopper' = NoStop \/ stopper'.force = stopper.force
    BY <1>0, <1>4 DEF TemplateStopSnapshot
  <2>3. NoStop.pc = "idle" /\ stopper.force
    BY <1>4 DEF NoStop, TemplateStopSnapshot, Ending
  <2> QED
    BY <2>1, <2>2, <2>3
<1>5. ASSUME NEW t \in Tasks,
             TemplateStopQueued(t) \/ TemplateStopRunning(t) \/ TemplateStopRest(t)
      PROVE  Halts /\ (stopper'.pc # "idle" => stopper'.force)
  <2>1. stopper.force /\ t \in stopper.todo /\ Exists(t)
    BY <1>5 DEF TemplateStopQueued, TemplateStopRunning, TemplateStopRest, Ending, Linked
  <2>2. Halts
    BY <1>1, <1>5, <2>1 DEF TemplateStopQueued, TemplateStopRunning, TemplateStopRest,
       StopTaskRunner
  <2>3. stopper' = NoStop \/ stopper'.force = stopper.force
    BY <1>0, <1>5 DEF TemplateStopQueued, TemplateStopRunning, TemplateStopRest, Stopped, Passed
  <2>4. NoStop.pc = "idle"
    BY DEF NoStop
  <2> QED
    BY <2>1, <2>2, <2>3, <2>4
<1>6. stopper.pc # "idle" => stopper.force
  BY DEF Ending
<1> QED
  BY <1>2, <1>3, <1>4, <1>5, <1>6 DEF TemplateStop

(* With forced stops the statuses of Ending are kept.                      *)
LEMMA EndingStep ==
    ASSUME Forced, TypeOK, OnePlace, Linked, Ending, [Next]_vars
    PROVE  Ending'
<1> USE DEF taskVars, storeVars, intake
<1>0. /\ status \in [Tasks -> Statuses] /\ row \in [Tasks -> Statuses \cup {"none"}]
      /\ run \in [Tasks -> RunPoints]
  BY DEF TypeOK
<1> DEFINE Kept(t) == /\ RunStatus(t)'
                      /\ Awaits(t) => status'[t] \in {"waiting", "stopped"}
                      /\ t \in ended' => IsFinished(row'[t])
                      /\ ~Exists(t)' => status'[t] = "waiting"
                      /\ CreateTask(t) => status'[t] = "waiting"
           Keeps == /\ \A t \in Tasks : Kept(t)
                    /\ stopper'.pc # "idle" => stopper'.force
<1>1. ASSUME Tick \/ HandleTick \/ Snapshot \/ ScanSkip \/ UNCHANGED vars
               \/ \E c \in Tasks : HandleNew(c)
      PROVE  Keeps
  <2>1. UNCHANGED <<status, row, run, ended, stopper>>
    BY <1>1 DEF Tick, HandleTick, Snapshot, ScanSkip, HandleNew, vars, poolVars
  <2>2. \A t \in Tasks : ~CreateTask(t)
    BY <2>1, <1>0 DEF CreateTask, Exists
  <2> QED
    BY <2>1, <2>2 DEF Ending, RunStatus, Exists
<1>2. ASSUME NEW c \in Tasks, Register(c)
      PROVE  Keeps
  <2>1. /\ UNCHANGED <<status, run, ended, stopper>>
        /\ \A t \in Tasks : t # c => row'[t] = row[t]
        /\ c \notin ended /\ Exists(c) /\ row'[c] = status[c]
    BY <1>0, <1>2, ExistsFacts DEF Register, saveStatus, OnePlace
  <2>2. \A t \in Tasks : ~CreateTask(t)
    BY <1>0, <1>2, <2>1 DEF CreateTask, Register, Exists
  <2>3. Exists(c)'
    BY <1>2, SaveStatusFacts DEF Register
  <2> QED
    BY <2>1, <2>2, <2>3 DEF Ending, RunStatus, Exists
<1>3. ASSUME NEW c \in Tasks, CreateTask(c) \/ CreateTaskFails(c)
      PROVE  Keeps
  <2>1. /\ UNCHANGED <<run, ended, stopper>>
        /\ \A t \in Tasks : t # c => status'[t] = status[t] /\ row'[t] = row[t]
        /\ row'[c] # "none" /\ status[c] = "waiting"
    BY <1>0, <1>3 DEF CreateTask, CreateTaskFails, Ending
  <2>2. run[c] = "none" /\ ~Awaits(c) /\ c \notin ended
    BY <1>3, ExistsFacts DEF CreateTask, CreateTaskFails, Awaits, Known, OnePlace
  <2>3. \A t \in Tasks : CreateTask(t) => status' = status /\ ~Exists(t)
    BY DEF CreateTask
  <2> QED
    BY <2>1, <2>2, <2>3 DEF Ending, RunStatus, Exists
<1>4. ASSUME NEW c \in Tasks, ConfirmTask(c) \/ RejectTask(c)
      PROVE  Keeps
  <2>1. status[c] = "waiting_confirmation" /\ Known(c)
    BY <1>4 DEF ConfirmTask, RejectTask, MayAnswer, Forced
  <2>2. run[c] \in {"asking", "dialog", "confirm"} /\ ~Awaits(c) /\ c \notin ended
    BY <1>0, <2>1 DEF Ending, RunStatus, OnePlace, Live, Known, Awaits, RunPoints, IsFinished,
       FinishedStatuses
  <2>3. /\ UNCHANGED <<run, ended, stopper>>
        /\ \A t \in Tasks : t # c => status'[t] = status[t] /\ row'[t] = row[t]
        /\ status'[c] \in {status[c], "confirmed", "rejected"}
        /\ row'[c] \in {row[c], "confirmed", "rejected"}
    BY <1>0, <1>4 DEF ConfirmTask, RejectTask, SetStatus, AfterSetStatus
  <2>4. Exists(c)
    BY <2>1, ExistsFacts
  <2>5. \A t \in Tasks : ~CreateTask(t)
    BY <1>0, <2>3, <2>4 DEF CreateTask, Exists
  <2> QED
    BY <2>1, <2>2, <2>3, <2>4, <2>5 DEF Ending, RunStatus, Exists
<1>5. ASSUME TemplateStop \/ \E c \in Tasks, force \in BOOLEAN : StopTask(c, force)
      PROVE  Keeps
  <2>1. Halts /\ (stopper'.pc # "idle" => stopper'.force)
    BY <1>5, StopsHalt
  <2>2. \A t \in Tasks : ~CreateTask(t)
    BY <1>0, <2>1 DEF Halts, CreateTask, Exists
  <2>3. \A t \in Tasks : Awaits(t) => status'[t] \in {"waiting", "stopped"}
    BY <2>1 DEF Halts, Ending
  <2> QED
    BY <2>1, <2>2, <2>3, HaltsEnding
<1>6. ASSUME NEW c \in Tasks, BeginRun(c) \/ Job(c)
      PROVE  Keeps
  <2>1. UNCHANGED <<ended, stopper, registering>>
    BY <1>6, JobFacts DEF others
  <2>2. RunStatus(c)
    BY DEF Ending
  <2>3. /\ RunStatus(c)'
        /\ run[c] \notin {"none", "send"}
        /\ \A u \in Tasks : u # c => UNCHANGED <<status[u], row[u], run[u]>>
    BY <1>6, <2>2, JobEnding
  <2>4. c \notin ended /\ ~Awaits(c) /\ Exists(c)
    BY <2>3, ExistsFacts DEF OnePlace, Live, Awaits, Known
  <2>5. Exists(c)'
    BY <1>6, <2>4, JobFacts DEF RowsKept
  <2>6. \A t \in Tasks : ~CreateTask(t)
    BY <1>0, <2>1, <2>3, <2>4, <2>5 DEF CreateTask, Exists
  <2> QED
    BY <2>1, <2>3, <2>4, <2>5, <2>6 DEF Ending, RunStatus, Exists
<1>7. ASSUME NEW c \in Tasks, RunAutorun(c) \/ FinishRun(c) \/ SendFinished(c)
      PROVE  Keeps
  <2>1. CASE \E d \in Tasks : AutorunChild(c, d)
    BY <1>3, <2>1 DEF AutorunChild
  <2>2. CASE ~ \E d \in Tasks : AutorunChild(c, d)
    <3>1. /\ UNCHANGED <<status, stopper>>
          /\ \A t \in Tasks : t # c => run'[t] = run[t]
          /\ IsFinished(status[c])
          /\ run'[c] \in {"none", "children", "finish", "send"}
      BY <1>0, <1>7, <2>2 DEF RunAutorun, FinishRun, SendFinished, Goto, others, Ending, RunStatus,
         IsFinished, FinishedStatuses
    <3>2. \/ UNCHANGED <<row, ended>>
          \/ ended' = ended \cup {c} /\ saveStatus(c)
      BY <1>7, <2>2 DEF RunAutorun, FinishRun, SendFinished, SaveEnd, others
    <3>3. Exists(c)
      BY <1>7, ExistsFacts DEF RunAutorun, FinishRun, SendFinished, Goto
    <3>4. /\ \A t \in Tasks : t # c => row'[t] = row[t] /\ (t \in ended' <=> t \in ended)
          /\ c \in ended' => IsFinished(row'[c])
          /\ Exists(c)'
      BY <1>0, <3>1, <3>2, <3>3, SaveStatusFacts DEF saveStatus, Ending, Exists
    <3>5. \A t \in Tasks : ~CreateTask(t)
      BY <1>0, <3>3, <3>4 DEF CreateTask, Exists
    <3>6. RunStatus(c)'
      BY <3>1 DEF RunStatus
    <3> QED
      BY <3>1, <3>3, <3>4, <3>5, <3>6 DEF Ending, RunStatus, Exists
  <2> QED
    BY <2>1, <2>2
<1>8. ASSUME ScanRun
      PROVE  Keeps
  <2>1. UNCHANGED <<status, row, ended, stopper>>
    BY <1>8 DEF ScanRun
  <2>2. PICK c \in Tasks : InQueue(c) /\ run' = [run EXCEPT ![c] = "sleep"]
    <3>1. Head(todo) \in Tasks
      BY <1>8 DEF ScanRun, TypeOK
    <3> QED
      BY <1>8, <3>1 DEF ScanRun
  <2>3. \A t \in Tasks : ~CreateTask(t)
    BY <1>0, <2>1 DEF CreateTask, Exists
  <2>4. RunStatus(c)'
    BY <1>0, <2>1, <2>2 DEF RunStatus, Ending, Awaits
  <2> QED
    BY <1>0, <2>1, <2>2, <2>3, <2>4 DEF Ending, RunStatus, Exists
<1>9. Keeps
  BY <1>1, <1>2, <1>3, <1>4, <1>5, <1>6, <1>7, <1>8 DEF Next, HandleQueue, Api, AddTask, RunStep
<1> QED
  <2>1. \A t \in Tasks : Awaits(t)' => Awaits(t) \/ CreateTask(t)
    BY AwaitsStep
  <2> QED
    BY <1>9, <2>1 DEF Ending

(* With forced stops, of single tasks and of templates, and with answers   *)
(* in the dialogue, finishRun records the end of every run with a finished *)
(* status, and the row keeps one (SetStatus, saveStatus).                  *)
THEOREM EndsFinishedHolds == Forced => (Spec => []EndsFinished)
<1> SUFFICES ASSUME Forced
             PROVE  Spec => []EndsFinished
  OBVIOUS
<1>1. Init => Ending
  BY DEF Init, PoolInit, NoStop, Ending, RunStatus, Awaits, InQueue, Exists
<1>2. TypeOK /\ OnePlace /\ Linked /\ Ending /\ [Next]_vars => Ending'
  BY EndingStep
<1>3. TypeOK /\ Ending => EndsFinished
  BY DEF Ending, EndsFinished, TypeOK
<1> QED
  BY <1>1, <1>2, <1>3, TypeCorrect, TaskInOnePlace, LinksHold, PTL DEF Spec
=============================================================================
