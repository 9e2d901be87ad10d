--------------------------- MODULE JobPoolProofs ---------------------------
(***************************************************************************)
(* Proofs about the job pool of a runner: a job is launched once and stays *)
(* under the control of the pool, and the server has all of its records    *)
(* when it has its outcome, for any number of jobs and records.            *)
(***************************************************************************)
EXTENDS JobPool, QueueProofs

\* Where the poll cycle is: what each of its variables holds, and when.
Phases ==
    /\ ppc \notin {"put", "ack", "terminate", "get"} => DOMAIN body = {} /\ term = {}
    /\ ppc # "current" => DOMAIN cur = {}
    /\ ppc \notin {"current", "new"} => new = {}
    /\ act # NoTask => (ppc = "current" /\ act \in DOMAIN cur) \/ ppc = "new"
    /\ \A t \in DOMAIN body :
          /\ body[t] \in [status : Statuses, from : 0..MaxLogs, upto : 0..MaxLogs]
          /\ body[t].from <= body[t].upto

\* The running map has the tasks that were assigned and have not finished.
Mapped ==
    \A t \in Tasks :
        /\ t \in known => srv[t] # "none"
        /\ srv[t] \notin FinishedStatuses \cup {"none"} => t \in known

JobType == TypeOK /\ Phases /\ Mapped

JobRecord == [status : Statuses, pc : JobPoints, killed : BOOLEAN, logs : 0..MaxLogs, acked : 0..MaxLogs]

(* The job of a task with its fields.                                      *)
LEMMA JobFields ==
    ASSUME TypeOK, NEW t \in Tasks
    PROVE  /\ job[t] \in JobRecord
           /\ job[t].status \in Statuses /\ job[t].pc \in JobPoints /\ job[t].killed \in BOOLEAN
           /\ job[t].logs \in 0..MaxLogs /\ job[t].acked \in 0..MaxLogs /\ job[t].acked <= job[t].logs
BY DEF TypeOK, JobRecord

(* The server.                                                             *)
LEMMA ServerType ==
    ASSUME JobType, NEW t \in Tasks, Assign(t) \/ UserActs(t) \/ Finalize(t)
    PROVE  JobType'
<1>1. UNCHANGED <<received, poolVars, jobVars, pollVars>>
  BY DEF Assign, UserActs, Finalize
<1>2. srv' \in [Tasks -> Statuses \cup {"none"}] /\ known' \subseteq Tasks
  BY DEF Assign, UserActs, Finalize, JobType, TypeOK, AfterSetStatus, Statuses, UnfinishedTaskStatuses, FinishedStatuses
<1>3. TypeOK'
  BY <1>1, <1>2 DEF JobType, TypeOK, poolVars, jobVars, marks, pollVars
<1>4. Phases'
  BY <1>1 DEF JobType, Phases, pollVars
<1>5. Mapped'
  BY DEF Assign, UserActs, Finalize, JobType, TypeOK, Mapped, AfterSetStatus, IsFinished, FinishedStatuses
<1> QED
  BY <1>3, <1>4, <1>5 DEF JobType

(* The Run loop.                                                           *)
LEMMA LoopType ==
    ASSUME JobType, DequeueJob \/ LaunchJob
    PROVE  JobType'
<1>1. UNCHANGED <<serverVars, pollVars>>
  BY DEF DequeueJob, LaunchJob
<1>2. queue' \in Seq(Tasks) /\ launching' \in Tasks \cup {NoTask}
  <2>1. CASE DequeueJob
    BY <2>1, TailQueue DEF DequeueJob, JobType, TypeOK
  <2>2. CASE LaunchJob
    BY <2>2 DEF LaunchJob, JobType, TypeOK
  <2> QED
    BY <2>1, <2>2
<1>3. /\ tracked' \subseteq Tasks
      /\ twice' \subseteq Tasks /\ again' \subseteq Tasks /\ overwritten' \subseteq Tasks
      /\ job' = job \/ (launching \in Tasks /\ job' = [job EXCEPT ![launching] = NewJob])
  BY DEF DequeueJob, LaunchJob, JobType, TypeOK, jobVars, marks
<1>4. NewJob \in JobRecord /\ NewJob.acked = 0 /\ NewJob.logs = 0
  BY JobPoolAssumption DEF NewJob, JobRecord, JobPoints, Statuses, UnfinishedTaskStatuses
<1>5. job' \in [Tasks -> JobRecord] /\ \A t \in Tasks : job'[t].acked <= job'[t].logs
  <2>1. job \in [Tasks -> JobRecord] /\ \A t \in Tasks : job[t].acked <= job[t].logs
    BY DEF JobType, TypeOK, JobRecord
  <2>2. \A t \in Tasks : job'[t] = job[t] \/ job'[t] = NewJob
    BY <1>3, <2>1
  <2> QED
    BY <1>3, <1>4, <2>1, <2>2
<1>6. TypeOK'
  BY <1>1, <1>2, <1>3, <1>5 DEF JobType, TypeOK, JobRecord, serverVars, pollVars
<1> QED
  BY <1>1, <1>6 DEF JobType, Phases, Mapped, serverVars, pollVars

(* The goroutine of a job: where it goes, with which status.               *)
LEMMA GotoFacts ==
    ASSUME JobType, NEW t \in Tasks, NEW from, NEW to \in JobPoints, NEW s \in Statuses,
           JobGoto(t, from, to, s)
    PROVE  /\ job[t].pc = from /\ job' \in [Tasks -> JobRecord]
           /\ job'[t].pc = to /\ job'[t].status = s
           /\ job'[t].logs = job[t].logs /\ job'[t].acked = job[t].acked
           /\ \A u \in Tasks : u # t => job'[u] = job[u]
           /\ UNCHANGED <<serverVars, poolVars, marks, pollVars>>
<1>1. job' = [job EXCEPT ![t].pc = to, ![t].status = s, ![t].killed = @ /\ to # "apply"]
  BY DEF JobGoto
<1>2. job \in [Tasks -> JobRecord]
  BY DEF JobType, TypeOK, JobRecord
<1>3. (job[t].killed /\ to # "apply") \in BOOLEAN
  BY Zenon
<1>4. job' \in [Tasks -> JobRecord]
  BY ZenonT(30), <1>1, <1>2, <1>3 DEF JobRecord
<1> QED
  BY <1>1, <1>2, <1>4 DEF JobGoto, JobRecord

\* The places the goroutine of a job goes to, and the statuses it sets.
Moves(t, from, to, s) ==
    /\ from \in JobPoints \ {"none", "done"} /\ to \in JobPoints \ {"none", "start"} /\ s \in Statuses
    /\ s \in {"success", "error"} => to = "done" \/ s = job[t].status
    /\ to = "done" => IsFinished(s)
    /\ JobGoto(t, from, to, s)

(* Every step of a job is one of these, or a log record.                   *)
LEMMA JobMoves ==
    ASSUME JobType, NEW t \in Tasks, JobStep(t), ~JobLogs(t)
    PROVE  \E from, to, s : Moves(t, from, to, s)
<1>0. job[t].status \in Statuses
  BY JobFields DEF JobType
<1> USE <1>0 DEF Moves, JobPoints, Statuses, UnfinishedTaskStatuses, FinishedStatuses, IsFinished
<1>1. CASE JobStarts(t) \/ JobAsks(t) \/ JobInitAnswered(t)
  BY <1>1 DEF JobStarts, JobAsks, JobInitAnswered
<1>2. CASE JobPrepared(t)
  BY <1>2 DEF JobPrepared
<1>3. CASE JobPlanned(t)
  BY <1>3 DEF JobPlanned
<1>4. CASE JobAnswered(t)
  BY <1>4 DEF JobAnswered
<1>5. CASE JobFails(t)
  BY <1>5 DEF JobFails
<1>6. CASE JobReturns(t)
  <2>1. PICK from \in {"app", "apply"} :
           JobGoto(t, from, "done", CASE IsFinished(job[t].status) -> job[t].status
                                      [] job[t].status = "stopping" -> "stopped"
                                      [] OTHER -> "success")
    BY <1>6 DEF JobReturns
  <2>2. (CASE IsFinished(job[t].status) -> job[t].status
           [] job[t].status = "stopping" -> "stopped"
           [] OTHER -> "success") \in FinishedStatuses
    OBVIOUS
  <2> QED
    BY <2>1, <2>2
<1> QED
  BY <1>1, <1>2, <1>3, <1>4, <1>5, <1>6 DEF JobStep

(* A log record of a job.                                                  *)
LEMMA LogFacts ==
    ASSUME JobType, NEW t \in Tasks, JobLogs(t)
    PROVE  /\ job' \in [Tasks -> JobRecord]
           /\ job[t].pc \notin {"none", "done"} /\ job'[t].pc = job[t].pc /\ job'[t].status = job[t].status
           /\ job'[t].logs = job[t].logs + 1 /\ job'[t].acked = job[t].acked
           /\ \A u \in Tasks : u # t => job'[u] = job[u]
           /\ UNCHANGED <<serverVars, poolVars, marks, pollVars>>
<1>1. job' = [job EXCEPT ![t].logs = @ + 1] /\ job[t].logs < MaxLogs
  BY DEF JobLogs
<1>2. job \in [Tasks -> JobRecord] /\ job[t].logs + 1 \in 0..MaxLogs
  BY <1>1, JobFields, JobPoolAssumption DEF JobType, TypeOK, JobRecord
<1> QED
  BY <1>1, <1>2 DEF JobLogs, JobRecord

(* The goroutine of a job.                                                 *)
LEMMA JobStepType ==
    ASSUME JobType, NEW t \in Tasks, JobStep(t)
    PROVE  JobType'
<1>1. /\ job' \in [Tasks -> JobRecord] /\ UNCHANGED <<serverVars, poolVars, marks, pollVars>>
      /\ \A u \in Tasks : job'[u].acked <= job'[u].logs
  <2>0. \A u \in Tasks : job[u].acked <= job[u].logs /\ job[u].acked \in Nat /\ job[u].logs \in Nat
    BY JobFields, JobPoolAssumption DEF JobType
  <2>1. CASE JobLogs(t)
    BY <2>0, <2>1, LogFacts
  <2>2. CASE ~JobLogs(t)
    BY <2>0, <2>2, JobMoves, GotoFacts DEF Moves
  <2> QED
    BY <2>1, <2>2
<1>2. TypeOK'
  BY <1>1 DEF JobType, TypeOK, JobRecord, serverVars, poolVars, marks, pollVars
<1> QED
  BY <1>1, <1>2 DEF JobType, Phases, Mapped, serverVars, pollVars

(* UpdateRunner: what becomes of the tasks of a report.                    *)
LEMMA UpdateFacts ==
    ASSUME JobType, UpdateRunner
    PROVE  /\ srv' \in [Tasks -> Statuses \cup {"none"}] /\ received' \in [Tasks -> SUBSET (1..MaxLogs)]
           /\ known' = known /\ Mapped'
           /\ \A t \in Tasks :
                 /\ t \in Accepted => /\ srv[t] # "none" /\ ~IsFinished(srv[t])
                                      /\ srv'[t] \in {srv[t], body[t].status}
                                      /\ IsFinished(body[t].status) => srv'[t] = body[t].status
                                      /\ received'[t] = received[t] \cup Records(body[t])
                 /\ t \notin Accepted => srv'[t] = srv[t] /\ received'[t] = received[t]
<1>1. \A t \in DOMAIN body : /\ body[t].status \in Statuses
                             /\ body[t].from \in 0..MaxLogs /\ body[t].upto \in 0..MaxLogs
  BY DEF JobType, Phases
<1>2. \A t \in Accepted : t \in DOMAIN body /\ t \in Tasks /\ t \in known /\ ~IsFinished(srv[t])
  BY DEF Accepted, JobType, TypeOK
<1>3. \A t \in Accepted : Records(body[t]) \subseteq 1..MaxLogs
  BY <1>1, <1>2, JobPoolAssumption DEF Records
<1>4. \A t \in Accepted : /\ AfterSetStatus(srv[t], body[t].status) \in {srv[t], body[t].status}
                          /\ IsFinished(body[t].status) => AfterSetStatus(srv[t], body[t].status) = body[t].status
  BY <1>2 DEF AfterSetStatus, Accepts, Refuses, IsFinished, FinishedStatuses
<1>5. \A t \in Tasks : /\ srv'[t] = IF t \in Accepted THEN AfterSetStatus(srv[t], body[t].status) ELSE srv[t]
                       /\ received'[t] = IF t \in Accepted THEN received[t] \cup Records(body[t]) ELSE received[t]
  BY DEF UpdateRunner
<1>6. received' \in [Tasks -> SUBSET (1..MaxLogs)]
  BY <1>3 DEF UpdateRunner, JobType, TypeOK
<1>7. srv' \in [Tasks -> Statuses \cup {"none"}]
  BY <1>1, <1>2, <1>4 DEF UpdateRunner, JobType, TypeOK
<1>8. \A t \in Accepted : srv[t] # "none"
  BY <1>2 DEF JobType, Mapped
<1>9. Mapped'
  <2>1. known' = known /\ "none" \notin Statuses
    BY DEF UpdateRunner, Statuses, UnfinishedTaskStatuses, FinishedStatuses
  <2>2. ASSUME NEW t \in Tasks
        PROVE  /\ t \in known => srv'[t] # "none"
               /\ srv'[t] \notin FinishedStatuses \cup {"none"} => t \in known
    <3>1. CASE t \in Accepted
      BY <1>1, <1>2, <1>4, <1>5, <1>8, <2>1, <3>1
    <3>2. CASE t \notin Accepted
      BY <1>5, <3>2 DEF JobType, Mapped
    <3> QED
      BY <3>1, <3>2
  <2> QED
    BY <2>1, <2>2 DEF Mapped
<1> QED
  BY <1>4, <1>5, <1>6, <1>7, <1>8, <1>9, <1>2 DEF UpdateRunner

(* sendProgress reads the jobs.                                            *)
LEMMA SendFacts ==
    ASSUME JobType, SendProgress
    PROVE  /\ DOMAIN body' = tracked /\ ppc' = "put"
           /\ \A t \in tracked : /\ body'[t] \in [status : Statuses, from : 0..MaxLogs, upto : 0..MaxLogs]
                                  /\ body'[t].status = job[t].status /\ body'[t].from = job[t].acked
                                  /\ body'[t].upto = job[t].logs /\ body'[t].from <= body'[t].upto
<1>1. \A t \in tracked : /\ job[t].status \in Statuses /\ job[t].logs \in 0..MaxLogs
                         /\ job[t].acked \in 0..MaxLogs /\ job[t].acked <= job[t].logs
  BY JobFields DEF JobType, TypeOK
<1> QED
  BY <1>1 DEF SendProgress

(* ackLogRecords: as many records as were sent.                            *)
LEMMA AckFacts ==
    ASSUME JobType, NEW t \in DOMAIN body
    PROVE  LET n == AckLogRecords(job[t], body[t])
           IN  /\ n \in 0..MaxLogs /\ n <= job[t].logs
               /\ body[t].from = job[t].acked /\ body[t].upto <= job[t].logs => n = body[t].upto
<1>1. /\ job[t].logs \in 0..MaxLogs /\ job[t].acked \in 0..MaxLogs /\ job[t].acked <= job[t].logs
      /\ body[t].from \in 0..MaxLogs /\ body[t].upto \in 0..MaxLogs /\ body[t].from <= body[t].upto
  BY JobFields DEF JobType, TypeOK, Phases
<1> QED
  BY <1>1, JobPoolAssumption DEF AckLogRecords

(* Acknowledge and applyTerminatedJobs change jobs of the report.          *)
LEMMA TerminateFacts ==
    ASSUME JobType, Acknowledge \/ ApplyTerminatedJobs
    PROVE  /\ job' \in [Tasks -> JobRecord] /\ tracked' \subseteq tracked
           /\ UNCHANGED <<serverVars, queue, launching, marks, body, term, cur, new, act>>
           /\ \A t \in Tasks :
                 /\ job'[t].pc = job[t].pc /\ job'[t].logs = job[t].logs
                 /\ job'[t].status \in {job[t].status, "stopped"}
                 /\ job'[t].acked <= job'[t].logs
                 /\ \/ job'[t].acked = job[t].acked
                    \/ /\ Acknowledge /\ t \in DOMAIN body
                       /\ job'[t].acked = AckLogRecords(job[t], body[t])
<1>1. UNCHANGED <<serverVars, queue, launching, marks, body, term, cur, new, act>> /\ tracked' \subseteq tracked
  BY DEF Acknowledge, ApplyTerminatedJobs
<1>2. ASSUME NEW t \in Tasks
      PROVE  /\ job[t] \in JobRecord /\ job[t].acked <= job[t].logs
             /\ job[t].acked \in 0..MaxLogs /\ job[t].logs \in 0..MaxLogs
  BY JobFields DEF JobType
<1>3. CASE Acknowledge
  <2>1. ASSUME NEW t \in Tasks
        PROVE  /\ job'[t] \in JobRecord
               /\ job'[t].pc = job[t].pc /\ job'[t].logs = job[t].logs /\ job'[t].status = job[t].status
               /\ job'[t].acked <= job'[t].logs
               /\ \/ job'[t].acked = job[t].acked
                  \/ t \in DOMAIN body /\ job'[t].acked = AckLogRecords(job[t], body[t])
    <3>1. CASE t \in DOMAIN body \cap tracked
      <4>1. job'[t] = [job[t] EXCEPT !.acked = AckLogRecords(job[t], body[t])]
        BY <1>3, <3>1 DEF Acknowledge
      <4>2. AckLogRecords(job[t], body[t]) \in 0..MaxLogs /\ AckLogRecords(job[t], body[t]) <= job[t].logs
        BY <3>1, AckFacts
      <4> QED
        BY <1>2, <3>1, <4>1, <4>2 DEF JobRecord
    <3>2. CASE t \notin DOMAIN body \cap tracked
      BY <1>2, <1>3, <3>2 DEF Acknowledge
    <3> QED
      BY <3>1, <3>2
  <2>2. job' = [t \in Tasks |-> job'[t]]
    BY <1>3 DEF Acknowledge
  <2>3. job' \in [Tasks -> JobRecord]
    BY <2>1, <2>2
  <2> QED
    BY <1>1, <1>3, <2>1, <2>3
<1>4. CASE ApplyTerminatedJobs
  <2>1. ASSUME NEW t \in Tasks
        PROVE  /\ job'[t] \in JobRecord
               /\ job'[t].pc = job[t].pc /\ job'[t].logs = job[t].logs
               /\ job'[t].status \in {job[t].status, "stopped"}
               /\ job'[t].acked <= job'[t].logs /\ job'[t].acked = job[t].acked
    <3>1. CASE t \in term \cap tracked /\ ~IsFinished(job[t].status)
      <4>1. job'[t] = [job[t] EXCEPT !.killed = TRUE, !.status = "stopped"]
        BY <1>4, <3>1 DEF ApplyTerminatedJobs
      <4> QED
        BY <1>2, <4>1 DEF JobRecord, Statuses, FinishedStatuses
    <3>2. CASE ~(t \in term \cap tracked /\ ~IsFinished(job[t].status))
      BY <1>2, <1>4, <3>2 DEF ApplyTerminatedJobs
    <3> QED
      BY <3>1, <3>2
  <2>2. job' = [t \in Tasks |-> job'[t]]
    BY <1>4 DEF ApplyTerminatedJobs
  <2>3. job' \in [Tasks -> JobRecord]
    BY <2>1, <2>2
  <2> QED
    BY <1>1, <1>4, <2>1, <2>3
<1> QED
  BY <1>3, <1>4

(* checkNewJobs, the current jobs: one job's status or kill.               *)
LEMMA CurrentFacts ==
    ASSUME JobType, NEW t \in Tasks,
           CheckCurrentJob(t) \/ (SetCurrentStatus /\ act = t)
    PROVE  /\ job' \in [Tasks -> JobRecord] /\ t \in DOMAIN cur /\ ppc = "current"
           /\ UNCHANGED <<serverVars, poolVars, twice, again, ppc, body, term, new>>
           /\ overwritten' \in {overwritten, overwritten \cup {t}}
           /\ IsFinished(job[t].status) => job'[t].status = job[t].status \/ t \in overwritten'
           /\ job'[t].pc = job[t].pc /\ job'[t].logs = job[t].logs /\ job'[t].acked = job[t].acked
           /\ job'[t].status \in {job[t].status, cur[t]}
           /\ \A u \in Tasks : u # t => job'[u] = job[u]
           /\ DOMAIN cur' \subseteq DOMAIN cur /\ (\A u \in DOMAIN cur' : cur'[u] = cur[u])
           /\ act' # NoTask => act' \in DOMAIN cur'
           /\ act' \in Tasks \cup {NoTask}
<1>1. /\ job \in [Tasks -> JobRecord] /\ job[t].status \in Statuses
      /\ \A u \in DOMAIN cur : u \in Tasks /\ cur[u] \in Statuses
      /\ t # NoTask /\ (act # NoTask /\ ppc = "current" => act \in DOMAIN cur)
  BY JobFields, JobPoolAssumption DEF JobType, TypeOK, JobRecord, Phases
<1>2. CASE CheckCurrentJob(t)
  <2>1. /\ job' = [job EXCEPT ![t].killed = @ \/ job[t].status \in {"stopping", "stopped"}]
        /\ t \in DOMAIN cur /\ ppc = "current" /\ act = NoTask
        /\ UNCHANGED <<serverVars, poolVars, twice, again, overwritten, ppc, body, term, new>>
        /\ \/ cur' = [u \in DOMAIN cur \ {t} |-> cur[u]] /\ act' = act
           \/ cur' = cur /\ act' = t
    BY <1>2 DEF CheckCurrentJob, marks
  <2>2. (job[t].killed \/ job[t].status \in {"stopping", "stopped"}) \in BOOLEAN
    BY Zenon
  <2>3. job' \in [Tasks -> JobRecord]
    BY <1>1, <2>1, <2>2 DEF JobRecord
  <2>4. /\ job'[t].pc = job[t].pc /\ job'[t].logs = job[t].logs /\ job'[t].acked = job[t].acked
        /\ job'[t].status = job[t].status /\ \A u \in Tasks : u # t => job'[u] = job[u]
    BY <1>1, <2>1 DEF JobRecord
  <2> QED
    BY <1>1, <2>1, <2>3, <2>4
<1>3. CASE SetCurrentStatus /\ act = t
  <2>1. /\ job' = [job EXCEPT ![t].status = cur[t]] /\ ppc = "current" /\ act' = NoTask
        /\ cur' = [u \in DOMAIN cur \ {t} |-> cur[u]]
        /\ overwritten' = IF IsFinished(job[t].status) THEN overwritten \cup {t} ELSE overwritten
        /\ UNCHANGED <<serverVars, poolVars, twice, again, ppc, body, term, new>>
    BY <1>3 DEF SetCurrentStatus
  <2>2. t \in DOMAIN cur
    BY <1>1, <1>3, <2>1
  <2>3. job' \in [Tasks -> JobRecord]
    BY <1>1, <2>1, <2>2 DEF JobRecord
  <2> QED
    BY <1>1, <2>1, <2>2, <2>3 DEF JobRecord
<1> QED
  BY <1>2, <1>3

(* The poll cycle.                                                         *)
LEMMA PollType ==
    ASSUME JobType, Poll
    PROVE  JobType'
<1> USE DEF JobType
<1>0. "none" \notin Statuses /\ DOMAIN NoJobs = {}
  BY DEF Statuses, UnfinishedTaskStatuses, FinishedStatuses, NoJobs
<1>1. CASE SendProgress
  <2>1. UNCHANGED <<serverVars, poolVars, jobVars, term, cur, new, act>> /\ term = {} /\ ppc = "idle"
    BY <1>1 DEF SendProgress, Phases
  <2>2. TypeOK'
    BY <1>1, <2>1, SendFacts DEF TypeOK, serverVars, poolVars, jobVars, marks
  <2>3. Phases'
    BY <1>1, <2>1, SendFacts DEF Phases
  <2> QED
    BY <2>1, <2>2, <2>3 DEF Mapped, serverVars
<1>2. CASE PutAnswered
  <2>1. /\ UNCHANGED <<poolVars, jobVars, body, cur, new, act>> /\ UpdateRunner
        /\ ppc = "put" /\ ppc' = "ack" /\ term' = DOMAIN body \ Accepted
    BY <1>2 DEF PutAnswered
  <2>2. TypeOK'
    BY <2>1, UpdateFacts DEF TypeOK, poolVars, jobVars, marks
  <2>3. Phases'
    BY <2>1 DEF Phases
  <2> QED
    BY <2>1, <2>2, <2>3, UpdateFacts
<1>3. CASE PutLost
  <2>1. /\ UNCHANGED <<poolVars, jobVars, body, term, cur, new, act>> /\ (UpdateRunner \/ UNCHANGED serverVars)
        /\ ppc = "put" /\ ppc' = "get"
    BY <1>3 DEF PutLost
  <2>2. srv' \in [Tasks -> Statuses \cup {"none"}] /\ received' \in [Tasks -> SUBSET (1..MaxLogs)] /\ known' = known
        /\ Mapped'
    BY <2>1, UpdateFacts DEF TypeOK, serverVars, Mapped
  <2>3. TypeOK'
    BY <2>1, <2>2 DEF TypeOK, poolVars, jobVars, marks
  <2>4. Phases'
    BY <2>1 DEF Phases
  <2> QED
    BY <2>2, <2>3, <2>4
<1>4. CASE Acknowledge \/ ApplyTerminatedJobs
  <2>1. ppc \in {"ack", "terminate"} /\ ppc' \in {"terminate", "get"}
    BY <1>4 DEF Acknowledge, ApplyTerminatedJobs
  <2>2. TypeOK'
    BY <1>4, <2>1, TerminateFacts DEF TypeOK, serverVars, marks, JobRecord
  <2>3. Phases' /\ Mapped'
    BY <1>4, <2>1, TerminateFacts DEF Phases, Mapped, serverVars
  <2> QED
    BY <2>2, <2>3
<1>5. CASE GetAnswered
  <2>1. /\ UNCHANGED <<serverVars, poolVars, jobVars, act>> /\ ppc = "get" /\ ppc' = "current"
        /\ body' = NoJobs /\ term' = {} /\ new' = {t \in known : srv[t] \in {"waiting", "starting"}}
        /\ cur' = [t \in (known \ new') \cap tracked |-> srv[t]]
    BY <1>5 DEF GetAnswered
  <2>2. \A t \in DOMAIN cur' : t \in Tasks /\ cur'[t] \in Statuses \ {"waiting", "starting"}
    BY <2>1 DEF TypeOK, Mapped
  <2>3. act = NoTask
    BY <2>1 DEF Phases
  <2>4. TypeOK'
    BY <1>0, <2>1, <2>2 DEF TypeOK, serverVars, poolVars, jobVars, marks
  <2>5. Phases'
    BY <1>0, <2>1, <2>3 DEF Phases
  <2> QED
    BY <2>1, <2>4, <2>5 DEF Mapped, serverVars
<1>6. CASE GetLost
  <2>1. /\ UNCHANGED <<serverVars, poolVars, jobVars, cur, new, act>> /\ ppc = "get" /\ ppc' = "idle"
        /\ body' = NoJobs /\ term' = {}
    BY <1>6 DEF GetLost
  <2>2. TypeOK'
    BY <1>0, <2>1 DEF TypeOK, serverVars, poolVars, jobVars, marks
  <2>3. Phases'
    BY <1>0, <2>1 DEF Phases
  <2> QED
    BY <2>1, <2>2, <2>3 DEF Mapped, serverVars
<1>7. ASSUME NEW t \in Tasks, CheckCurrentJob(t) \/ (SetCurrentStatus /\ act = t)
      PROVE  JobType'
  <2>1. \A u \in Tasks : job'[u].acked <= job'[u].logs
    BY <1>7, CurrentFacts, JobFields
  <2>a. /\ job' \in [Tasks -> JobRecord]
        /\ UNCHANGED <<srv, known, received, queue, launching, tracked, twice, again, ppc, body, term, new>>
        /\ overwritten' \in {overwritten, overwritten \cup {t}} /\ act' \in Tasks \cup {NoTask}
        /\ DOMAIN cur' \subseteq DOMAIN cur /\ (\A u \in DOMAIN cur' : cur'[u] = cur[u])
    BY <1>7, CurrentFacts DEF serverVars, poolVars
  <2>b. overwritten' \subseteq Tasks /\ DOMAIN cur' \subseteq Tasks
        /\ \A u \in DOMAIN cur' : cur'[u] \in Statuses \ {"waiting", "starting"}
    BY <2>a DEF TypeOK
  <2>2. TypeOK'
    BY <2>1, <2>a, <2>b DEF TypeOK, JobRecord
  <2>3. Phases' /\ Mapped'
    BY <1>7, CurrentFacts DEF Phases, Mapped, serverVars
  <2> QED
    BY <2>2, <2>3
<1>8. CASE CurrentDone
  <2>1. /\ UNCHANGED <<serverVars, poolVars, jobVars, body, term, cur, new, act>>
        /\ ppc = "current" /\ ppc' = "new" /\ DOMAIN cur = {}
    BY <1>0, <1>8 DEF CurrentDone
  <2> QED
    BY <2>1 DEF TypeOK, Phases, Mapped, serverVars, poolVars, jobVars, marks
<1>9. ASSUME NEW t \in Tasks, CheckNewJob(t)
      PROVE  JobType'
  BY <1>9 DEF CheckNewJob, TypeOK, Phases, Mapped, serverVars, poolVars, jobVars, marks
<1>10. CASE EnqueueNewJob
  <2>1. /\ UNCHANGED <<serverVars, launching, tracked, job, twice, overwritten, ppc, body, term, cur, new>>
        /\ queue' \in Seq(Tasks) /\ again' \subseteq Tasks /\ act' = NoTask
    <3>1. queue \in Seq(Tasks) /\ act \in Tasks /\ again \subseteq Tasks
      BY <1>10 DEF EnqueueNewJob, TypeOK
    <3>2. Append(queue, act) \in Seq(Tasks)
      BY <3>1
    <3> QED
      BY <1>10, <3>1, <3>2 DEF EnqueueNewJob
  <2> QED
    BY <2>1 DEF TypeOK, Phases, Mapped, serverVars
<1>11. CASE PollDone
  BY <1>11 DEF PollDone, TypeOK, Phases, Mapped, serverVars, poolVars, jobVars, marks
<1>12. SetCurrentStatus => act \in Tasks
  BY DEF SetCurrentStatus, TypeOK
<1> QED
  BY <1>1, <1>2, <1>3, <1>4, <1>5, <1>6, <1>7, <1>8, <1>9, <1>10, <1>11, <1>12 DEF Poll

(* The jobs, the records and the poll cycle keep their types.              *)
LEMMA JobTypeStep ==
    ASSUME JobType, [Next]_vars
    PROVE  JobType'
<1>1. CASE UNCHANGED vars
  BY <1>1 DEF vars, JobType, TypeOK, Phases, Mapped, serverVars, poolVars, jobVars, marks, pollVars
<1> QED
  BY <1>1, ServerType, LoopType, JobStepType, PollType DEF Next

(* Before the first poll.                                                  *)
LEMMA JobTypeStart ==
    ASSUME Init
    PROVE  JobType
<1>1. NewJob \in JobRecord /\ NewJob.acked = 0 /\ NewJob.logs = 0
  BY JobPoolAssumption DEF NewJob, JobRecord, JobPoints, Statuses, UnfinishedTaskStatuses
<1>2. /\ job \in [Tasks -> JobRecord] /\ \A t \in Tasks : job[t].acked = 0 /\ job[t].logs = 0
  <2> DEFINE n == [NewJob EXCEPT !.pc = "none"]
  <2>1. n \in JobRecord /\ n.acked = 0 /\ n.logs = 0
    BY <1>1 DEF JobRecord, JobPoints
  <2>2. job = [t \in Tasks |-> n]
    BY DEF Init
  <2> HIDE DEF n
  <2> QED
    BY <2>1, <2>2
<1>3. DOMAIN body = {} /\ DOMAIN cur = {}
  BY DEF Init, NoJobs
<1>4. TypeOK
  BY <1>2, <1>3 DEF Init, TypeOK, JobRecord
<1>5. Phases /\ Mapped
  BY <1>3 DEF Init, Phases, Mapped
<1> QED
  BY <1>4, <1>5 DEF JobType

-----------------------------------------------------------------------------
(* The inductive invariant *)

\* The job waits to be launched.
InLine(t) == t = launching \/ t \in Entries(queue)

\* The job is not yet launched, or is between the two look-ups of checkNewJobs.
Pending(t) == InLine(t) \/ (ppc = "new" /\ act = t)

\* A job that was launched does not wait to be launched; one that the pool has
\* dropped is over for the server, which does not offer it any more.
OnceAt(t) ==
    /\ t \in new \/ Pending(t) \/ job[t].pc # "none" => srv[t] # "none"
    /\ InLine(t) => job[t].pc = "none"
    /\ t \in tracked => job[t].pc # "none"
    /\ job[t].pc # "none" /\ t \notin tracked
         => IsFinished(srv[t]) /\ t \notin new /\ ~(ppc = "new" /\ act = t)

\* A job is in the queue once, and with the Run loop only after the queue.
OneEntry ==
    /\ Distinct(queue)
    /\ launching \notin again \cup {NoTask} => launching \notin Entries(queue)

Outcome == {"success", "error"}

\* The job of t, and what the server has of it.
Delivered(t) ==
    /\ received[t] \subseteq 1..job[t].logs
    /\ ~IsFinished(srv[t]) => 1..job[t].acked \subseteq received[t]
    /\ job[t].pc = "none" => job[t].logs = 0 /\ job[t].acked = 0
    /\ job[t].status \in Outcome => job[t].pc = "done"
    /\ job[t].pc = "done" => IsFinished(job[t].status) \/ t \in overwritten
    /\ srv[t] \in Outcome => job[t].pc = "done" /\ received[t] = 1..job[t].logs
    /\ t \in DOMAIN cur => job[t].pc # "none" /\ (cur[t] \in Outcome => job[t].pc = "done")

\* The report on t that is under way.
Report(t) ==
    t \in DOMAIN body =>
        /\ job[t].pc # "none" /\ body[t].upto <= job[t].logs
        /\ body[t].status \in Outcome => job[t].pc = "done" /\ body[t].upto = job[t].logs
        /\ ppc \in {"put", "ack"} => body[t].from = job[t].acked
        /\ ppc = "ack" =>
             /\ ~IsFinished(srv[t]) => 1..body[t].upto \subseteq received[t]
             /\ IsFinished(body[t].status) => IsFinished(srv[t])
        /\ t \in term => IsFinished(srv[t])

\* Nothing is claimed of a task that was queued again.
JobInv ==
    /\ OneEntry
    /\ twice \subseteq again
    /\ \A t \in Tasks \ again : OnceAt(t) /\ Delivered(t) /\ Report(t)

(* The statuses of the server change, but for those that have finished.    *)
LEMMA ServerInv ==
    ASSUME JobType, JobInv, NEW t \in Tasks, Assign(t) \/ UserActs(t) \/ Finalize(t)
    PROVE  JobInv'
<1>1. UNCHANGED <<received, queue, launching, tracked, job, marks, ppc, body, term, cur, new, act>>
      /\ UNCHANGED <<twice, again, overwritten>>
  BY DEF Assign, UserActs, Finalize, poolVars, jobVars, marks, pollVars
<1>2. \A u \in Tasks : /\ srv[u] # "none" => srv'[u] # "none"
                       /\ IsFinished(srv[u]) => srv'[u] = srv[u]
                       /\ srv'[u] \in Outcome => srv'[u] = srv[u]
  BY DEF Assign, UserActs, Finalize, JobType, TypeOK, AfterSetStatus, IsFinished, FinishedStatuses, Outcome
<1>3. OneEntry'
  BY <1>1 DEF JobInv, OneEntry
<1>4. ASSUME NEW u \in Tasks \ again'
      PROVE  OnceAt(u)' /\ Delivered(u)' /\ Report(u)'
  <2>1. OnceAt(u) /\ Delivered(u) /\ Report(u)
    BY <1>1 DEF JobInv
  <2>2. Pending(u)' = Pending(u)
    BY <1>1 DEF Pending, InLine
  <2>3. OnceAt(u)'
    BY <1>1, <1>2, <2>1, <2>2 DEF OnceAt, InLine, IsFinished
  <2>4. Delivered(u)'
    BY <1>1, <1>2, <2>1 DEF Delivered, IsFinished
  <2>5. Report(u)'
    BY <1>1, <1>2, <2>1 DEF Report, IsFinished
  <2> QED
    BY <2>3, <2>4, <2>5
<1> QED
  BY <1>1, <1>3, <1>4 DEF JobInv

(* Of the jobs and what is known of them nothing changes.                  *)
LEMMA RecordsKept ==
    ASSUME NEW t \in Tasks, UNCHANGED <<srv, received, overwritten, ppc, body, term, cur>>,
           job'[t] = job[t],
           Delivered(t), Report(t)
    PROVE  Delivered(t)' /\ Report(t)'
BY DEF Delivered, Report

(* The Run loop, wherever the poll cycle is.                               *)
LEMMA LoopInv ==
    ASSUME JobType, JobInv, DequeueJob \/ LaunchJob
    PROVE  JobInv'
<1>1. UNCHANGED <<srv, known, received, again, overwritten, ppc, body, term, cur, new, act>>
  BY DEF DequeueJob, LaunchJob, serverVars, jobVars, marks, pollVars
<1>2. queue \in Seq(Tasks) /\ Distinct(queue) /\ job \in [Tasks -> JobRecord]
  BY DEF JobInv, OneEntry, JobType, TypeOK, JobRecord
<1>3. CASE DequeueJob
  <2>1. /\ UNCHANGED <<job, twice, tracked>> /\ launching = NoTask /\ launching' = Head(queue)
        /\ queue' = Tail(queue) /\ queue # <<>>
    BY <1>3 DEF DequeueJob, jobVars, marks
  <2>2. /\ Distinct(queue') /\ Entries(queue') = Entries(queue) \ {launching'}
        /\ launching' \in Entries(queue) /\ launching' \in Tasks
    BY <1>2, <2>1, TailQueue
  <2>3. OneEntry'
    BY <2>2 DEF OneEntry
  <2>4. ASSUME NEW u \in Tasks \ again'
        PROVE  OnceAt(u)' /\ Delivered(u)' /\ Report(u)'
    <3>1. OnceAt(u) /\ Delivered(u) /\ Report(u)
      BY <1>1 DEF JobInv
    <3>2. (Pending(u)' => Pending(u)) /\ (InLine(u)' => InLine(u))
      BY <1>1, <2>2, JobPoolAssumption DEF Pending, InLine
    <3>3. OnceAt(u)'
      BY <1>1, <2>1, <3>1, <3>2 DEF OnceAt
    <3> QED
      BY <1>1, <2>1, <3>1, <3>3, RecordsKept
  <2> QED
    BY <1>1, <2>1, <2>3, <2>4 DEF JobInv
<1>4. CASE LaunchJob
  <2>0. PICK t \in Tasks : t = launching
    BY <1>4 DEF LaunchJob, JobType, TypeOK
  <2>1. /\ launching' = NoTask /\ UNCHANGED queue
        /\ tracked' = tracked \cup {t}
        /\ job' = [job EXCEPT ![t] = NewJob]
        /\ twice' = IF job[t].pc # "none" THEN twice \cup {t} ELSE twice
    BY <1>4, <2>0 DEF LaunchJob
  <2>2. /\ NewJob.pc = "start" /\ NewJob.logs = 0 /\ NewJob.acked = 0 /\ NewJob.status = "starting"
        /\ job'[t] = NewJob /\ \A u \in Tasks : u # t => job'[u] = job[u]
    BY <1>2, <2>1 DEF NewJob
  <2>3. t \notin again => /\ OnceAt(t) /\ Delivered(t) /\ Report(t)
                         /\ job[t].pc = "none" /\ srv[t] # "none"
    BY <2>0 DEF JobInv, OnceAt, InLine, Pending
  <2>4. twice' \subseteq again'
    BY <1>1, <2>1, <2>3 DEF JobInv
  <2>5. OneEntry'
    BY <1>1, <2>1 DEF JobInv, OneEntry
  <2>6. ASSUME t \notin again
        PROVE  OnceAt(t)' /\ Delivered(t)' /\ Report(t)'
    <3>1. t \notin Entries(queue)
      BY <2>0, <2>6, JobPoolAssumption DEF JobInv, OneEntry
    <3>2. ~InLine(t)'
      BY <2>1, <3>1, JobPoolAssumption DEF InLine
    <3>3. OnceAt(t)'
      BY <1>1, <2>1, <2>2, <2>3, <2>6, <3>2 DEF OnceAt
    <3>4. Delivered(t)' /\ Report(t)'
      BY <1>1, <2>2, <2>3, <2>6 DEF Delivered, Report, Outcome
    <3> QED
      BY <3>3, <3>4
  <2>7. ASSUME NEW u \in Tasks \ again, u # t
         PROVE  OnceAt(u)' /\ Delivered(u)' /\ Report(u)'
    <3>1. OnceAt(u) /\ Delivered(u) /\ Report(u)
      BY DEF JobInv
    <3>2. (Pending(u)' => Pending(u)) /\ (InLine(u)' => InLine(u))
      BY <1>1, <2>1, JobPoolAssumption DEF Pending, InLine
    <3>3. OnceAt(u)'
      BY <1>1, <2>1, <2>2, <2>7, <3>1, <3>2 DEF OnceAt
    <3> QED
      BY <1>1, <2>2, <2>7, <3>1, <3>3, RecordsKept
  <2> QED
    BY <1>1, <2>4, <2>5, <2>6, <2>7 DEF JobInv
<1> QED
  BY <1>3, <1>4

(* The goroutine of a job that has not ended.                              *)
LEMMA JobStepInv ==
    ASSUME JobType, JobInv, NEW t \in Tasks, JobStep(t)
    PROVE  JobInv'
<1>0. t \notin again => OnceAt(t) /\ Delivered(t) /\ Report(t)
  BY DEF JobInv
<1>1. /\ UNCHANGED <<serverVars, poolVars, marks, pollVars>>
      /\ \A u \in Tasks : u # t => job'[u] = job[u]
      /\ job[t].pc \notin {"none", "done"} /\ job'[t].pc # "none" /\ job'[t].acked = job[t].acked
      /\ job'[t].logs \in Nat /\ job[t].logs \in Nat /\ job'[t].logs >= job[t].logs
      /\ t \notin again /\ job'[t].status \in Outcome => job'[t].pc = "done"
      /\ job'[t].pc = "done" => IsFinished(job'[t].status)
  <2>0. job[t].logs \in Nat
    BY JobFields, JobPoolAssumption DEF JobType
  <2>1. CASE JobLogs(t)
    BY <1>0, <2>0, <2>1, LogFacts DEF Delivered
  <2>2. CASE ~JobLogs(t)
    <3>1. PICK from, to, s : Moves(t, from, to, s)
      BY <2>2, JobMoves
    <3>2. /\ from \in JobPoints \ {"none", "done"} /\ to \in JobPoints \ {"none", "start"} /\ s \in Statuses
          /\ s \in {"success", "error"} => to = "done" \/ s = job[t].status
          /\ to = "done" => IsFinished(s)
          /\ JobGoto(t, from, to, s)
      BY <3>1 DEF Moves
    <3>3. /\ job[t].pc = from /\ job'[t].pc = to /\ job'[t].status = s
          /\ job'[t].logs = job[t].logs /\ job'[t].acked = job[t].acked
          /\ \A u \in Tasks : u # t => job'[u] = job[u]
          /\ UNCHANGED <<serverVars, poolVars, marks, pollVars>>
      BY <3>2, GotoFacts
    <3> QED
      BY <1>0, <2>0, <3>2, <3>3 DEF Delivered, Outcome
  <2> QED
    BY <2>1, <2>2
<1>2. UNCHANGED <<srv, received, queue, launching, tracked, twice, again, overwritten, ppc, body, term,
                  cur, new, act>>
  BY <1>1 DEF serverVars, poolVars, marks, pollVars
<1>3. OneEntry' /\ \A u \in Tasks : Pending(u)' = Pending(u) /\ InLine(u)' = InLine(u)
  BY <1>2 DEF JobInv, OneEntry, Pending, InLine
<1>4. t \notin again => OnceAt(t)'
  BY <1>0, <1>1, <1>2, <1>3 DEF OnceAt
<1>5. t \notin again => Delivered(t)'
  BY <1>0, <1>1, <1>2 DEF Delivered
<1>6. t \notin again => Report(t)'
  <2>1. t \in DOMAIN body => body[t].upto \in Nat
    BY JobPoolAssumption DEF JobType, Phases
  <2> QED
    BY <1>0, <1>1, <1>2, <2>1 DEF Report
<1>7. ASSUME NEW u \in Tasks \ again, u # t
      PROVE  OnceAt(u)' /\ Delivered(u)' /\ Report(u)'
  <2>1. OnceAt(u) /\ Delivered(u) /\ Report(u)
    BY <1>1 DEF JobInv
  <2>2. OnceAt(u)'
    BY <1>1, <1>2, <1>3, <1>7, <2>1 DEF OnceAt
  <2> QED
    BY <1>1, <1>2, <1>7, <2>1, <2>2, RecordsKept
<1> QED
  BY <1>2, <1>3, <1>4, <1>5, <1>6, <1>7 DEF JobInv

(* A report is made.                                                       *)
LEMMA SendInv ==
    ASSUME JobType, JobInv, SendProgress
    PROVE  JobInv'
<1>1. /\ UNCHANGED <<srv, received, queue, launching, tracked, job, twice, again, overwritten, term, cur,
                     new, act>>
      /\ ppc = "idle" /\ ppc' = "put"
  BY DEF SendProgress, serverVars, poolVars, jobVars, marks
<1>2. act = NoTask /\ term = {}
  BY <1>1 DEF JobType, Phases
<1>3. OneEntry' /\ \A u \in Tasks : Pending(u)' = Pending(u) /\ InLine(u)' = InLine(u)
  BY <1>1, <1>2 DEF JobInv, OneEntry, Pending, InLine
<1>4. ASSUME NEW u \in Tasks \ again'
      PROVE  OnceAt(u)' /\ Delivered(u)' /\ Report(u)'
  <2>1. OnceAt(u) /\ Delivered(u)
    BY <1>1 DEF JobInv
  <2>2. OnceAt(u)' /\ Delivered(u)'
    BY <1>1, <1>3, <2>1 DEF OnceAt, Delivered
  <2>3. Report(u)'
    <3>1. job[u].logs \in Nat
      BY JobFields, JobPoolAssumption DEF JobType
    <3>2. u \in DOMAIN body' => /\ u \in tracked /\ body'[u].status = job[u].status
                               /\ body'[u].from = job[u].acked /\ body'[u].upto = job[u].logs
      BY SendFacts
    <3> QED
      BY <1>1, <1>2, <2>1, <3>1, <3>2 DEF Report, OnceAt, Delivered
  <2> QED
    BY <2>2, <2>3
<1> QED
  BY <1>1, <1>3, <1>4 DEF JobInv

(* The server takes a report, whether or not its answer arrives.           *)
LEMMA UpdateInv ==
    ASSUME JobType, JobInv, NEW t \in Tasks \ again, UpdateRunner, ppc = "put",
           UNCHANGED <<job, overwritten, body, cur>>
    PROVE  /\ Delivered(t)'
           /\ srv[t] # "none" => srv'[t] # "none"
           /\ IsFinished(srv[t]) => IsFinished(srv'[t])
           /\ t \in DOMAIN body =>
                /\ ~IsFinished(srv'[t]) => 1..body[t].upto \subseteq received'[t]
                /\ IsFinished(body[t].status) => IsFinished(srv'[t])
                /\ t \notin Accepted => IsFinished(srv'[t])
<1>1. OnceAt(t) /\ Delivered(t) /\ Report(t)
  BY DEF JobInv
<1>2. job[t].logs \in Nat /\ job[t].acked \in Nat /\ job[t].acked <= job[t].logs
  BY JobFields, JobPoolAssumption DEF JobType
<1>3. CASE t \in Accepted
  <2>1. t \in DOMAIN body
    BY <1>3 DEF Accepted
  <2>2. /\ body[t].from \in Nat /\ body[t].upto \in Nat /\ body[t].status \in Statuses
    BY <2>1, JobPoolAssumption DEF JobType, Phases
  <2>3. /\ srv[t] # "none" /\ ~IsFinished(srv[t]) /\ srv'[t] \in {srv[t], body[t].status}
        /\ IsFinished(body[t].status) => srv'[t] = body[t].status
        /\ received'[t] = received[t] \cup ((body[t].from + 1)..body[t].upto)
    BY <1>3, UpdateFacts DEF Records
  <2>4. /\ body[t].from = job[t].acked /\ body[t].upto <= job[t].logs
        /\ 1..job[t].acked \subseteq received[t] /\ received[t] \subseteq 1..job[t].logs
        /\ body[t].status \in Outcome => job[t].pc = "done" /\ body[t].upto = job[t].logs
    BY <1>1, <2>1, <2>3 DEF Delivered, Report
  <2>5. received'[t] \subseteq 1..job[t].logs /\ 1..body[t].upto \subseteq received'[t]
        /\ 1..job[t].acked \subseteq received'[t]
    BY <1>2, <2>2, <2>3, <2>4
  <2>6. srv'[t] \in Outcome => srv'[t] = body[t].status
    BY <2>3 DEF Outcome, IsFinished, FinishedStatuses
  <2>7. Delivered(t)'
    BY <1>1, <2>4, <2>5, <2>6 DEF Delivered
  <2>8. srv'[t] # "none"
    BY <2>2, <2>3 DEF Statuses, UnfinishedTaskStatuses, FinishedStatuses
  <2> QED
    BY <1>3, <2>3, <2>5, <2>7, <2>8
<1>4. CASE t \notin Accepted
  <2>1. srv'[t] = srv[t] /\ received'[t] = received[t]
    BY <1>4, UpdateFacts
  <2>2. Delivered(t)'
    BY <1>1, <2>1 DEF Delivered
  <2>3. t \in DOMAIN body => IsFinished(srv[t])
    <3>1. t \in DOMAIN body => srv[t] # "none"
      BY <1>1 DEF Report, OnceAt
    <3> QED
      BY <1>4, <3>1 DEF Accepted, JobType, Mapped, IsFinished
  <2> QED
    BY <2>1, <2>2, <2>3
<1> QED
  BY <1>3, <1>4

(* The request with the report.                                            *)
LEMMA PutInv ==
    ASSUME JobType, JobInv, PutAnswered \/ PutLost
    PROVE  JobInv'
<1>1. /\ UNCHANGED <<queue, launching, tracked, job, twice, again, overwritten, body, cur, new, act>>
      /\ ppc = "put" /\ ppc' \in {"ack", "get"} /\ (UpdateRunner \/ UNCHANGED serverVars)
      /\ PutAnswered => UpdateRunner /\ term' = DOMAIN body \ Accepted
      /\ ppc' = "ack" => PutAnswered
      /\ ~PutAnswered => term' = term
  BY DEF PutAnswered, PutLost, poolVars, jobVars, marks
<1>2. act = NoTask
  BY <1>1 DEF JobType, Phases
<1>3. OneEntry' /\ \A u \in Tasks : Pending(u)' = Pending(u) /\ InLine(u)' = InLine(u)
  BY <1>1, <1>2 DEF JobInv, OneEntry, Pending, InLine
<1>4. ASSUME NEW u \in Tasks \ again'
      PROVE  OnceAt(u)' /\ Delivered(u)' /\ Report(u)'
  <2>1. OnceAt(u) /\ Delivered(u) /\ Report(u)
    BY <1>1 DEF JobInv
  <2>2. CASE UpdateRunner
    <3>1. /\ Delivered(u)'
          /\ srv[u] # "none" => srv'[u] # "none"
          /\ IsFinished(srv[u]) => IsFinished(srv'[u])
          /\ u \in DOMAIN body =>
               /\ ~IsFinished(srv'[u]) => 1..body[u].upto \subseteq received'[u]
               /\ IsFinished(body[u].status) => IsFinished(srv'[u])
               /\ u \notin Accepted => IsFinished(srv'[u])
      BY <1>1, <2>2, UpdateInv
    <3>2. OnceAt(u)'
      BY <1>1, <1>3, <2>1, <3>1 DEF OnceAt
    <3>3. Report(u)'
      BY <1>1, <2>1, <3>1 DEF Report
    <3> QED
      BY <3>1, <3>2, <3>3
  <2>3. CASE UNCHANGED serverVars /\ ~PutAnswered
    BY <1>1, <1>3, <2>1, <2>3 DEF OnceAt, Delivered, Report, serverVars
  <2> QED
    BY <1>1, <2>2, <2>3
<1> QED
  BY <1>1, <1>3, <1>4 DEF JobInv

(* The answer is applied: records are dropped, and jobs are.               *)
LEMMA TerminateInv ==
    ASSUME JobType, JobInv, Acknowledge \/ ApplyTerminatedJobs
    PROVE  JobInv'
<1>1. /\ UNCHANGED <<srv, received, queue, launching, twice, again, overwritten, body, term, cur, new, act>>
      /\ ppc \in {"ack", "terminate"} /\ ppc' \in {"terminate", "get"}
      /\ Acknowledge => ppc = "ack" /\ tracked' = tracked \ {t \in DOMAIN body : IsFinished(body[t].status)}
      /\ ApplyTerminatedJobs => tracked' = tracked \ term
  BY DEF Acknowledge, ApplyTerminatedJobs, serverVars, marks
<1>2. act = NoTask /\ new = {} /\ term \subseteq DOMAIN body /\ DOMAIN body \subseteq Tasks
  BY <1>1 DEF JobType, Phases, TypeOK
<1>3. OneEntry' /\ \A u \in Tasks : Pending(u)' = Pending(u) /\ InLine(u)' = InLine(u)
  BY <1>1, <1>2 DEF JobInv, OneEntry, Pending, InLine
<1>4. ASSUME NEW u \in Tasks \ again'
      PROVE  OnceAt(u)' /\ Delivered(u)' /\ Report(u)'
  <2>1. OnceAt(u) /\ Delivered(u) /\ Report(u)
    BY <1>1 DEF JobInv
  <2>2. /\ job'[u].pc = job[u].pc /\ job'[u].logs = job[u].logs
        /\ job'[u].status \in {job[u].status, "stopped"} /\ tracked' \subseteq tracked
        /\ \/ job'[u].acked = job[u].acked
           \/ /\ Acknowledge /\ u \in DOMAIN body
              /\ job'[u].acked = AckLogRecords(job[u], body[u])
    BY TerminateFacts
  <2>3. u \in tracked \ tracked' => IsFinished(srv[u])
    BY <1>1, <1>2, <2>1 DEF Report
  <2>4. OnceAt(u)'
    BY <1>1, <1>2, <1>3, <2>1, <2>2, <2>3 DEF OnceAt
  <2>5. /\ ~IsFinished(srv[u]) => 1..job'[u].acked \subseteq received[u]
        /\ job[u].pc = "none" => job'[u].acked = job[u].acked
    <3>1. CASE job'[u].acked = job[u].acked
      BY <2>1, <3>1 DEF Delivered
    <3>2. CASE Acknowledge /\ u \in DOMAIN body /\ job'[u].acked = AckLogRecords(job[u], body[u])
      <4>1. job'[u].acked = body[u].upto
        BY <1>1, <2>1, <3>2, AckFacts DEF Report
      <4> QED
        BY <1>1, <2>1, <3>2, <4>1 DEF Report
    <3> QED
      BY <2>2, <3>1, <3>2
  <2>6. Delivered(u)'
    BY <1>1, <2>1, <2>2, <2>5 DEF Delivered, Outcome, IsFinished, FinishedStatuses
  <2>7. Report(u)'
    BY <1>1, <2>1, <2>2 DEF Report
  <2> QED
    BY <2>4, <2>6, <2>7
<1> QED
  BY <1>1, <1>3, <1>4 DEF JobInv

(* The request for the jobs of the runner.                                 *)
LEMMA GetInv ==
    ASSUME JobType, JobInv, GetAnswered \/ GetLost
    PROVE  JobInv'
<1>1. /\ UNCHANGED <<srv, received, queue, launching, tracked, job, twice, again, overwritten, act>>
      /\ ppc = "get" /\ ppc' \in {"idle", "current"} /\ DOMAIN body' = {}
  BY DEF GetAnswered, GetLost, serverVars, poolVars, jobVars, marks, NoJobs
<1>2. act = NoTask /\ new = {} /\ DOMAIN cur = {}
  BY <1>1 DEF JobType, Phases
<1>3. /\ \A u \in new' : u \in known /\ ~IsFinished(srv[u])
      /\ \A u \in DOMAIN cur' : u \in tracked /\ cur'[u] = srv[u]
  BY <1>2 DEF GetAnswered, GetLost, IsFinished, FinishedStatuses
<1>4. OneEntry' /\ \A u \in Tasks : Pending(u)' = Pending(u) /\ InLine(u)' = InLine(u)
  BY <1>1, <1>2 DEF JobInv, OneEntry, Pending, InLine
<1>5. ASSUME NEW u \in Tasks \ again'
      PROVE  OnceAt(u)' /\ Delivered(u)' /\ Report(u)'
  <2>1. OnceAt(u) /\ Delivered(u)
    BY <1>1 DEF JobInv
  <2>2. u \in new' => srv[u] # "none"
    BY <1>3 DEF JobType, Mapped
  <2>3. OnceAt(u)'
    BY <1>1, <1>3, <1>4, <2>1, <2>2 DEF OnceAt
  <2>4. Delivered(u)'
    BY <1>1, <1>3, <2>1 DEF Delivered, OnceAt
  <2>5. Report(u)'
    BY <1>1 DEF Report
  <2> QED
    BY <2>3, <2>4, <2>5
<1> QED
  BY <1>1, <1>4, <1>5 DEF JobInv

(* The current jobs.                                                       *)
LEMMA CurrentInv ==
    ASSUME JobType, JobInv, NEW t \in Tasks, CheckCurrentJob(t) \/ (SetCurrentStatus /\ act = t)
    PROVE  JobInv'
<1>1. /\ t \in DOMAIN cur /\ ppc = "current"
      /\ UNCHANGED <<srv, received, queue, launching, tracked, twice, again, ppc, body, term, new>>
      /\ overwritten' \in {overwritten, overwritten \cup {t}}
      /\ IsFinished(job[t].status) => job'[t].status = job[t].status \/ t \in overwritten'
      /\ job'[t].pc = job[t].pc /\ job'[t].logs = job[t].logs /\ job'[t].acked = job[t].acked
      /\ job'[t].status \in {job[t].status, cur[t]}
      /\ \A u \in Tasks : u # t => job'[u] = job[u]
      /\ DOMAIN cur' \subseteq DOMAIN cur /\ (\A u \in DOMAIN cur' : cur'[u] = cur[u])
  BY CurrentFacts DEF serverVars, poolVars
<1>2. OneEntry' /\ \A u \in Tasks : Pending(u)' = Pending(u) /\ InLine(u)' = InLine(u)
  BY <1>1, JobPoolAssumption DEF JobInv, OneEntry, Pending, InLine
<1>3. ASSUME NEW u \in Tasks \ again'
      PROVE  OnceAt(u)' /\ Delivered(u)' /\ Report(u)'
  <2>1. OnceAt(u) /\ Delivered(u) /\ Report(u)
    BY <1>1 DEF JobInv
  <2>2. /\ job'[u].pc = job[u].pc /\ job'[u].logs = job[u].logs /\ job'[u].acked = job[u].acked
        /\ job'[u].status = job[u].status \/ (u \in DOMAIN cur /\ job'[u].status = cur[u])
        /\ IsFinished(job[u].status) => job'[u].status = job[u].status \/ u \in overwritten'
        /\ u \in overwritten => u \in overwritten'
    BY <1>1
  <2>3. OnceAt(u)' /\ Report(u)'
    BY <1>1, <1>2, <2>1, <2>2 DEF OnceAt, Report
  <2>4. Delivered(u)'
    BY <1>1, <2>1, <2>2 DEF Delivered
  <2> QED
    BY <2>3, <2>4
<1> QED
  BY <1>1, <1>2, <1>3 DEF JobInv

(* The new jobs: what is queued again is recorded.                         *)
LEMMA NewInv ==
    ASSUME JobType, JobInv,
           CurrentDone \/ (\E t \in Tasks : CheckNewJob(t)) \/ EnqueueNewJob \/ PollDone
    PROVE  JobInv'
<1>1. /\ UNCHANGED <<srv, received, launching, tracked, job, twice, overwritten, body, term, cur>>
      /\ again \subseteq again' /\ (~EnqueueNewJob => again' = again)
      /\ ppc \in {"current", "new"} /\ ppc' \in {"new", "idle"}
  BY DEF CurrentDone, CheckNewJob, EnqueueNewJob, PollDone, serverVars, poolVars, jobVars, marks
<1>2. \A u \in Tasks \ again' : Delivered(u)' /\ Report(u)'
  <2>1. DOMAIN body = {}
    BY <1>1 DEF JobType, Phases
  <2> QED
    BY <1>1, <2>1 DEF JobInv, Delivered, Report
<1>3. \A u \in Tasks \ again : OnceAt(u)
  BY DEF JobInv
<1>b. twice' \subseteq again'
  BY <1>1 DEF JobInv
<1>4. CASE CurrentDone
  <2>1. act = NoTask /\ UNCHANGED <<queue, new, act>>
    BY <1>4 DEF CurrentDone, JobType, Phases, NoJobs, poolVars
  <2>2. OneEntry' /\ \A u \in Tasks : Pending(u)' = Pending(u) /\ InLine(u)' = InLine(u)
    BY <1>1, <2>1, JobPoolAssumption DEF JobInv, OneEntry, Pending, InLine
  <2>3. \A u \in Tasks \ again' : OnceAt(u)'
    BY JobPoolAssumption, <1>1, <1>3, <2>1, <2>2 DEF OnceAt
  <2> QED
    BY <1>2, <1>b, <2>2, <2>3 DEF JobInv
<1>5. ASSUME NEW t \in Tasks, CheckNewJob(t)
      PROVE  JobInv'
  <2>1. /\ UNCHANGED <<queue, ppc>> /\ ppc = "new" /\ act = NoTask /\ UNCHANGED again
        /\ t \in new /\ new' = new \ {t} /\ act' = IF t \in tracked THEN NoTask ELSE t
    BY <1>5 DEF CheckNewJob, poolVars, jobVars, marks
  <2>2. OneEntry'
    BY <1>1, <2>1 DEF JobInv, OneEntry
  <2>3. ASSUME NEW u \in Tasks \ again'
        PROVE  OnceAt(u)'
    <3>1. OnceAt(u)
      BY <1>3, <2>1
    <3>2. /\ Pending(u)' => Pending(u) \/ (u = t /\ t \notin tracked)
          /\ InLine(u)' = InLine(u)
          /\ act' = u => u = t
      BY <1>1, <2>1, JobPoolAssumption DEF Pending, InLine
    <3> QED
      BY <1>1, <2>1, <3>1, <3>2 DEF OnceAt
  <2> QED
    BY <1>2, <1>b, <2>2, <2>3 DEF JobInv
<1>6. CASE EnqueueNewJob
  <2>1. PICK t \in Tasks : t = act
    BY <1>6 DEF EnqueueNewJob, JobType, TypeOK
  <2>2. /\ ppc = "new" /\ ppc' = "new" /\ act' = NoTask /\ UNCHANGED new
        /\ \/ queue' = queue /\ again' = again
           \/ /\ ~Contains(queue, t) /\ queue' = Append(queue, t)
              /\ again' = again \cup ({t} \cap (tracked \cup {launching}))
    BY <1>6, <2>1 DEF EnqueueNewJob
  <2>3. queue \in Seq(Tasks) /\ Distinct(queue)
    BY DEF JobType, TypeOK, JobInv, OneEntry
  <2>4. ~Contains(queue, t) => t \notin Entries(queue)
    BY DEF Contains, Entries
  <2>5. Distinct(queue') /\ Entries(queue') \subseteq Entries(queue) \cup {t}
    <3>1. t \notin Entries(queue) => Distinct(Append(queue, t)) /\ Entries(Append(queue, t)) = Entries(queue) \cup {t}
      BY <2>3, AppendQueue
    <3> QED
      BY <2>2, <2>3, <2>4, <3>1
  <2>6. OneEntry'
    BY <1>1, <2>2, <2>5 DEF JobInv, OneEntry
  <2>7. ASSUME NEW u \in Tasks \ again'
        PROVE  OnceAt(u)'
    <3>1. OnceAt(u)
      BY <1>1, <1>3
    <3>2. /\ Pending(u)' => Pending(u)
          /\ InLine(u)' => InLine(u) \/ (u = t /\ u \notin tracked)
      BY <1>1, <2>1, <2>2, <2>5, JobPoolAssumption DEF Pending, InLine
    <3>3. u = t /\ u \notin tracked => job[u].pc = "none"
      BY <2>1, <2>2, <3>1 DEF OnceAt
    <3>4. u # act' /\ UNCHANGED new
      BY <2>2, JobPoolAssumption
    <3> QED
      BY <1>1, <3>1, <3>2, <3>3, <3>4 DEF OnceAt
  <2> QED
    BY <1>2, <1>b, <2>6, <2>7 DEF JobInv
<1>7. CASE PollDone
  <2>1. act = NoTask /\ UNCHANGED <<queue, new, act>>
    BY <1>7 DEF PollDone, poolVars
  <2>2. OneEntry' /\ \A u \in Tasks : Pending(u)' = Pending(u) /\ InLine(u)' = InLine(u)
    BY <1>1, <2>1, JobPoolAssumption DEF JobInv, OneEntry, Pending, InLine
  <2>3. \A u \in Tasks \ again' : OnceAt(u)'
    BY JobPoolAssumption, <1>1, <1>3, <2>1, <2>2 DEF OnceAt
  <2> QED
    BY <1>2, <1>b, <2>2, <2>3 DEF JobInv
<1> QED
  BY <1>4, <1>5, <1>6, <1>7

(* Before the first poll.                                                  *)
LEMMA JobInvStart ==
    ASSUME Init
    PROVE  JobInv
<1>1. /\ srv = [t \in Tasks |-> "none"] /\ received = [t \in Tasks |-> {}]
      /\ queue = <<>> /\ launching = NoTask /\ tracked = {} /\ twice = {}
      /\ ppc = "idle" /\ DOMAIN body = {} /\ DOMAIN cur = {} /\ new = {}
  BY DEF Init, NoJobs
<1>2. \A t \in Tasks : /\ job[t].pc = "none" /\ job[t].status = "starting"
                       /\ job[t].logs = 0 /\ job[t].acked = 0
  BY DEF Init, NewJob
<1>3. Distinct(queue) /\ Entries(queue) = {}
  BY <1>1 DEF Distinct, Entries
<1>4. \A t \in Tasks : ~Pending(t)
  BY <1>1, <1>3, JobPoolAssumption DEF Pending, InLine
<1> QED
  BY <1>1, <1>2, <1>3, <1>4 DEF JobInv, OneEntry, OnceAt, Pending, Delivered, Report, Outcome

(* Whatever requests are lost and whatever users do, and even where the    *)
(* goroutines of the runner race: the counters and the variables of the    *)
(* poll cycle stay consistent.                                             *)
THEOREM JobTypeHolds == Spec => []TypeOK
<1>1. Init => JobType
  BY JobTypeStart
<1>2. JobType /\ [Next]_vars => JobType'
  BY JobTypeStep
<1>3. JobType => TypeOK
  BY DEF JobType
<1> QED
  BY <1>1, <1>2, <1>3, PTL DEF Spec

(* Whatever requests are lost, whatever users do and however the Run loop,  *)
(* the jobs and the poll cycle interleave: a runner launches a job twice    *)
(* only by the window between the two look-ups of checkNewJobs; any other  *)
(* job stays under its control as long as the server takes results, is     *)
(* over with every record delivered when the server has its outcome, and   *)
(* reports its end unless the server's status was set over it              *)
(* (checkNewJobs, sendProgress, ackLogRecords, applyTerminatedJobs).       *)
THEOREM JobsSoundHolds == Spec => []JobsSound
<1> DEFINE Inv == JobType /\ JobInv
<1>1. Init => Inv
  BY JobTypeStart, JobInvStart
<1>2. ASSUME Inv, [Next]_vars
      PROVE  Inv'
  <2>1. JobType'
    BY <1>2, JobTypeStep
  <2>2. CASE UNCHANGED vars
    BY <1>2, <2>1, <2>2 DEF vars, serverVars, poolVars, jobVars, marks, pollVars,
       JobInv, OneEntry, OnceAt, Pending, InLine, Delivered, Report
  <2>3. CASE \E t \in Tasks : Assign(t) \/ UserActs(t) \/ Finalize(t) \/ JobStep(t)
    BY <1>2, <2>1, <2>3, ServerInv, JobStepInv
  <2>4. CASE DequeueJob \/ LaunchJob
    BY <1>2, <2>1, <2>4, LoopInv
  <2>5. CASE Poll
    <3>1. SetCurrentStatus => act \in Tasks
      BY <1>2 DEF SetCurrentStatus, JobType, TypeOK
    <3> QED
      BY <1>2, <2>1, <2>5, <3>1, SendInv, PutInv, TerminateInv, GetInv, CurrentInv, NewInv DEF Poll
  <2> QED
    BY <1>2, <2>2, <2>3, <2>4, <2>5 DEF Next
<1>3. Inv => JobsSound
  <2>1. ASSUME Inv
        PROVE  EndDelivered /\ Once /\ Controlled /\ EndReported
    <3>1. twice \subseteq again /\ \A t \in Tasks \ again : OnceAt(t) /\ Delivered(t)
      BY <2>1 DEF JobInv
    <3>2. EndDelivered /\ EndReported
      BY <3>1 DEF EndDelivered, EndReported, Delivered, Outcome
    <3>3. Once /\ Controlled
      BY <3>1 DEF Once, Controlled, OnceAt, Executing
    <3> QED
      BY <3>2, <3>3
  <2> QED
    BY <2>1 DEF JobsSound, JobType
<1> HIDE DEF Inv
<1> QED
  BY <1>1, <1>2, <1>3, PTL DEF Spec
=============================================================================
