------------------------------ MODULE JobPool ------------------------------
(***************************************************************************)
(* The job pool of one runner: services/runners/job_pool.go and            *)
(* running_job.go, against the server's runner API.                        *)
(*                                                                         *)
(* Three kinds of goroutine meet here: the Run loop moves jobs from the    *)
(* queue to the running jobs, each job executes in a goroutine of its own, *)
(* and a poll cycle (one at a time, JobPool.processing) reports progress   *)
(* with a PUT and fetches the server's view with a GET.  Requests and      *)
(* answers may be lost.                                                    *)
(*                                                                         *)
(* The server is reduced to what a runner can see of it: the status of the *)
(* tasks assigned to the runner and whether they are in the running map    *)
(* (RemoteTaskPool has the server in detail).                              *)
(***************************************************************************)
EXTENDS Naturals, Sequences, SequencesExt, TaskStatus

CONSTANTS
    Tasks, NoTask,
    MaxLogs,    \* bound on the log records of a job
    Ops         \* what users do: "stop", "force", "answer"

ASSUME JobPoolAssumption ==
    /\ NoTask \notin Tasks
    /\ MaxLogs \in Nat
    /\ Ops \subseteq {"stop", "force", "answer"}

VARIABLES
    \* the server
    srv,        \* [Tasks -> status, or "none" before the task is assigned to the runner]
    known,      \* tasks in the server's running map
    received,   \* [Tasks -> set of log records the server has stored]
    \* JobPool
    queue,      \* sequence of tasks
    launching,  \* the job the Run loop has dequeued and not yet added, or NoTask
    tracked,    \* keys of runningJobs
    \* runningJob and its goroutine
    job,        \* [Tasks -> [status, pc, killed, logs, acked]]
    \* history: the tasks whose job
    twice,      \* was launched a second time,
    again,      \* was queued again, the Run loop moving it between two look-ups,
    overwritten, \* ended between the look at its status and the server's being set
    \* the poll cycle
    ppc,        \* "idle", "put", "ack", "terminate", "get", "current", "new"; "off" before Run
    body,       \* progress report: [SUBSET Tasks -> [status, from, upto]]
    term,       \* TerminatedJobs of the answer
    cur,        \* CurrentJobs still to handle: [SUBSET Tasks -> status]
    new,        \* NewJobs still to handle
    act         \* the task between check and act, or NoTask

serverVars == <<srv, known, received>>
poolVars   == <<queue, launching, tracked>>
marks    == <<twice, again, overwritten>>
jobVars    == <<job, marks>>
pollVars   == <<ppc, body, term, cur, new, act>>
vars       == <<serverVars, poolVars, jobVars, pollVars>>

JobPoints == {"none", "start", "call", "prepare", "init", "app", "confirm", "apply", "done"}

TypeOK ==
    /\ srv \in [Tasks -> Statuses \cup {"none"}]
    /\ known \subseteq Tasks
    /\ received \in [Tasks -> SUBSET (1..MaxLogs)]
    /\ queue \in Seq(Tasks) /\ launching \in Tasks \cup {NoTask}
    /\ tracked \subseteq Tasks
    /\ job \in [Tasks -> [status : Statuses, pc : JobPoints, killed : BOOLEAN,
                          logs : 0..MaxLogs, acked : 0..MaxLogs]]
    /\ \A t \in Tasks : job[t].acked <= job[t].logs
    /\ twice \subseteq Tasks /\ again \subseteq Tasks /\ overwritten \subseteq Tasks
    /\ ppc \in {"off", "idle", "put", "ack", "terminate", "get", "current", "new"}
    /\ DOMAIN body \subseteq Tasks /\ DOMAIN cur \subseteq Tasks
    /\ \A t \in DOMAIN cur : cur[t] \in Statuses \ {"waiting", "starting"}
    /\ term \subseteq DOMAIN body /\ new \subseteq Tasks
    /\ act \in Tasks \cup {NoTask}

NewJob == [status |-> "starting", pc |-> "start", killed |-> FALSE, logs |-> 0, acked |-> 0]
NoJobs == [t \in {} |-> NoTask]

Init ==
    /\ srv = [t \in Tasks |-> "none"] /\ known = {} /\ received = [t \in Tasks |-> {}]
    /\ queue = <<>> /\ launching = NoTask /\ tracked = {}
    /\ job = [t \in Tasks |-> [NewJob EXCEPT !.pc = "none"]]
    /\ twice = {} /\ again = {} /\ overwritten = {}
    /\ ppc = "idle" /\ body = NoJobs /\ term = {} /\ cur = NoJobs /\ new = {} /\ act = NoTask

-----------------------------------------------------------------------------
(* The server *)

(* RemoteJob.Run assigns the task to this runner.                          *)
Assign(t) ==
    /\ srv[t] = "none"
    /\ srv' = [srv EXCEPT ![t] = "starting"]
    /\ known' = known \cup {t}
    /\ UNCHANGED <<received, poolVars, jobVars, pollVars>>

(* A user stops an unfinished task, or answers a Terraform plan.           *)
UserActs(t) ==
    /\ t \in known /\ ~IsFinished(srv[t])
    /\ \/ "stop" \in Ops /\ srv' = [srv EXCEPT ![t] = AfterSetStatus(@, "stopping")]
       \/ "force" \in Ops /\ srv' = [srv EXCEPT ![t] = "stopped"]
       \/ /\ "answer" \in Ops /\ srv[t] = "waiting_confirmation"
          /\ \E s \in {"confirmed", "rejected"} : srv' = [srv EXCEPT ![t] = s]
    /\ UNCHANGED <<known, received, poolVars, jobVars, pollVars>>

(* FinalizeRemoteTask takes a finished task out of the running map.        *)
Finalize(t) ==
    /\ t \in known /\ IsFinished(srv[t])
    /\ known' = known \ {t}
    /\ UNCHANGED <<srv, received, poolVars, jobVars, pollVars>>

-----------------------------------------------------------------------------
(* The Run loop.  A job is offered while waiting or starting, so that the  *)
(* test for a failed one never applies.                                    *)

DequeueJob ==
    /\ launching = NoTask /\ queue # <<>>
    /\ launching' = Head(queue) /\ queue' = Tail(queue)
    /\ UNCHANGED <<serverVars, tracked, jobVars, pollVars>>

(* addRunningJob, and the start of the job's goroutine.                    *)
LaunchJob ==
    /\ launching # NoTask
    /\ tracked' = tracked \cup {launching}
    /\ twice' = IF job[launching].pc # "none" THEN twice \cup {launching} ELSE twice
    /\ job' = [job EXCEPT ![launching] = NewJob]
    /\ launching' = NoTask
    /\ UNCHANGED <<serverVars, queue, again, overwritten, pollVars>>

-----------------------------------------------------------------------------
(* The goroutine of a job.  runningJob.SetStatus refuses nothing, so that  *)
(* a job may set itself to running over stopping.  A kill reaches the      *)
(* process of the moment: apply is a new one.  A task that is launched     *)
(* twice has two goroutines and is not followed any further.               *)

Executing(j) == j.pc \in {"prepare", "init", "app", "confirm", "apply"} /\ ~j.killed

JobGoto(t, from, to, s) ==
    /\ job[t].pc = from /\ t \notin twice
    /\ job' = [job EXCEPT ![t].pc = to, ![t].status = s, ![t].killed = @ /\ to # "apply"]
    /\ UNCHANGED <<serverVars, poolVars, marks, pollVars>>

(* SetStatus(running) of the goroutine, and of Executor.Run's Prepare.     *)
JobStarts(t) == JobGoto(t, "start", "call", "running") \/ JobGoto(t, "call", "prepare", "running")

(* terraform init asks for a confirmation in Prepare, or ends unnoticed;    *)
(* an answer or the end of the task takes it on, a stop or a kill does not *)
(* (LocalTaskPool has the dialogue in detail).                             *)
JobAsks(t) ==
    \E s \in {job[t].status, "waiting_confirmation"} : JobGoto(t, "prepare", "init", s)

JobInitAnswered(t) ==
    \/ job[t].status \in {"confirmed", "rejected"} /\ JobGoto(t, "init", "prepare", "running")
    \/ IsFinished(job[t].status) /\ JobGoto(t, "init", "prepare", job[t].status)

(* Prepare is done; the app of a killed job is not started.                *)
JobPrepared(t) ==
    IF job[t].killed THEN JobGoto(t, "prepare", "done", "stopped")
                     ELSE JobGoto(t, "prepare", "app", job[t].status)

JobLogs(t) ==
    /\ job[t].pc \in {"prepare", "app", "apply"} /\ job[t].logs < MaxLogs /\ t \notin twice
    /\ job' = [job EXCEPT ![t].logs = @ + 1]
    /\ UNCHANGED <<serverVars, poolVars, marks, pollVars>>

(* After a plan, Terraform is done if nothing changes, applies the plan if *)
(* that is approved beforehand, or asks for a confirmation ...             *)
JobPlanned(t) ==
    /\ ~job[t].killed
    /\ \/ JobGoto(t, "app", "done", "success")
       \/ JobGoto(t, "app", "apply", "running")
       \/ JobGoto(t, "app", "confirm", "waiting_confirmation")

(* ... and gets an answer.                                                 *)
JobAnswered(t) ==
    \/ job[t].status = "confirmed" /\ JobGoto(t, "confirm", "apply", "running")
    \/ job[t].status = "rejected" /\ JobGoto(t, "confirm", "done", "error")
    \/ job[t].status = "stopping" /\ JobGoto(t, "confirm", "done", "stopped")
    \/ IsFinished(job[t].status) /\ JobGoto(t, "confirm", "done", job[t].status)

(* Executor.Run returns an error, a killed process included, or nil.       *)
JobFails(t) ==
    \E from \in {"prepare", "app", "apply"} :
        JobGoto(t, from, "done", IF job[t].status = "stopping" THEN "stopped" ELSE "error")

JobReturns(t) ==
    \E from \in {"app", "apply"} :
        JobGoto(t, from, "done",
                CASE IsFinished(job[t].status) -> job[t].status
                  [] job[t].status = "stopping" -> "stopped"
                  [] OTHER -> "success")

JobStep(t) ==
    \/ JobStarts(t) \/ JobAsks(t) \/ JobInitAnswered(t) \/ JobPrepared(t) \/ JobLogs(t)
    \/ JobPlanned(t) \/ JobAnswered(t) \/ JobFails(t) \/ JobReturns(t)

-----------------------------------------------------------------------------
(* The poll cycle: sendProgress *)

\* The records acked + 1 .. logs are sent (getProgress).
Records(b) == (b.from + 1)..b.upto

SendProgress ==
    /\ ppc = "idle"
    /\ ppc' = "put"
    /\ body' = [t \in tracked |-> [status |-> job[t].status, from |-> job[t].acked,
                                   upto |-> job[t].logs]]
    /\ UNCHANGED <<serverVars, poolVars, jobVars, term, cur, new, act>>

\* UpdateRunner takes results for these jobs only.
Accepted == {t \in DOMAIN body : t \in known /\ ~IsFinished(srv[t])}

(* UpdateRunner on the server.                                             *)
UpdateRunner ==
    /\ srv' = [t \in Tasks |-> IF t \in Accepted THEN AfterSetStatus(srv[t], body[t].status)
                                                 ELSE srv[t]]
    /\ received' = [t \in Tasks |-> IF t \in Accepted THEN received[t] \cup Records(body[t])
                                                      ELSE received[t]]
    /\ UNCHANGED known

(* The answer arrives.                                                     *)
PutAnswered ==
    /\ ppc = "put" /\ ppc' = "ack"
    /\ UpdateRunner
    /\ term' = DOMAIN body \ Accepted
    /\ UNCHANGED <<poolVars, jobVars, body, cur, new, act>>

(* The request or its answer is lost: checkNewJobs is called all the same. *)
PutLost ==
    /\ ppc = "put" /\ ppc' = "get"
    /\ UpdateRunner \/ UNCHANGED serverVars
    /\ UNCHANGED <<poolVars, jobVars, body, term, cur, new, act>>

\* Mutant: everything logged so far is dropped.
AckAllRecords(j, b) == j.logs

\* ackLogRecords: as many records as were sent are dropped.
AckLogRecords(j, b) ==
    LET sent == b.upto - b.from IN IF sent <= j.logs - j.acked THEN j.acked + sent ELSE j.logs

(* Records are acknowledged, finished jobs are removed.                    *)
Acknowledge ==
    /\ ppc = "ack" /\ ppc' = "terminate"
    /\ job' = [t \in Tasks |-> IF t \in DOMAIN body \cap tracked
                                 THEN [job[t] EXCEPT !.acked = AckLogRecords(job[t], body[t])]
                                 ELSE job[t]]
    /\ tracked' = tracked \ {t \in DOMAIN body : IsFinished(body[t].status)}
    /\ UNCHANGED <<serverVars, queue, launching, marks, body, term, cur, new, act>>

(* applyTerminatedJobs                                                     *)
ApplyTerminatedJobs ==
    /\ ppc = "terminate" /\ ppc' = "get"
    /\ job' = [t \in Tasks |-> IF t \in term \cap tracked /\ ~IsFinished(job[t].status)
                                 THEN [job[t] EXCEPT !.killed = TRUE, !.status = "stopped"]
                                 ELSE job[t]]
    /\ tracked' = tracked \ term
    /\ UNCHANGED <<serverVars, queue, launching, marks, body, term, cur, new, act>>

-----------------------------------------------------------------------------
(* The poll cycle: checkNewJobs *)

GetAnswered ==
    /\ ppc = "get" /\ ppc' = "current"
    /\ body' = NoJobs /\ term' = {}
    /\ new' = {t \in known : srv[t] \in {"waiting", "starting"}}
    /\ cur' = [t \in (known \ new') \cap tracked |-> srv[t]]
    /\ UNCHANGED <<serverVars, poolVars, jobVars, act>>

GetLost ==
    /\ ppc = "get" /\ ppc' = "idle"
    /\ body' = NoJobs /\ term' = {}
    /\ UNCHANGED <<serverVars, poolVars, jobVars, cur, new, act>>

\* The switch of checkNewJobs: the job keeps its own status.
KeepsStatus(own, s) ==
    \/ IsFinished(own)
    \/ own = "running" /\ s \in {"starting", "waiting", "confirmed"}
    \/ own = "stopping" /\ ~IsFinished(s)
    \/ own = "confirmed" /\ s = "waiting_confirmation"
    \/ own = "waiting_confirmation" /\ s = "running"

\* Mutant: the server's status is applied without the kill.
CheckCurrentJobNoKill(t) ==
    /\ ppc = "current" /\ act = NoTask /\ t \in DOMAIN cur
    /\ IF KeepsStatus(job[t].status, cur[t])
         THEN /\ cur' = [u \in DOMAIN cur \ {t} |-> cur[u]]
              /\ UNCHANGED act
         ELSE act' = t /\ UNCHANGED cur
    /\ UNCHANGED <<serverVars, poolVars, jobVars, ppc, body, term, new>>

(* One of CurrentJobs: a job that is stopping is killed; the server's      *)
(* status is to be set unless the job keeps its own ...                    *)
CheckCurrentJob(t) ==
    /\ ppc = "current" /\ act = NoTask /\ t \in DOMAIN cur
    /\ job' = [job EXCEPT ![t].killed = @ \/ job[t].status \in {"stopping", "stopped"}]
    /\ IF KeepsStatus(job[t].status, cur[t])
         THEN /\ cur' = [u \in DOMAIN cur \ {t} |-> cur[u]]
              /\ UNCHANGED act
         ELSE act' = t /\ UNCHANGED cur
    /\ UNCHANGED <<serverVars, poolVars, marks, ppc, body, term, new>>

(* ... and is set, over whatever status the job has by now.                *)
SetCurrentStatus ==
    /\ ppc = "current" /\ act # NoTask
    /\ job' = [job EXCEPT ![act].status = cur[act]]
    /\ overwritten' = IF IsFinished(job[act].status) THEN overwritten \cup {act} ELSE overwritten
    /\ cur' = [u \in DOMAIN cur \ {act} |-> cur[u]]
    /\ act' = NoTask
    /\ UNCHANGED <<serverVars, poolVars, twice, again, ppc, body, term, new>>

CurrentDone ==
    /\ ppc = "current" /\ cur = NoJobs
    /\ ppc' = "new"
    /\ UNCHANGED <<serverVars, poolVars, jobVars, body, term, cur, new, act>>

(* One of NewJobs: it is not among the running jobs ...                    *)
CheckNewJob(t) ==
    /\ ppc = "new" /\ act = NoTask /\ t \in new
    /\ new' = new \ {t}
    /\ act' = IF t \in tracked THEN NoTask ELSE t
    /\ UNCHANGED <<serverVars, poolVars, jobVars, ppc, body, term, cur>>

(* ... nor in the queue, and an executor can be made for it.  If the Run    *)
(* loop has taken it from there, it is queued a second time.               *)
EnqueueNewJob ==
    /\ ppc = "new" /\ act # NoTask
    /\ \/ /\ ~Contains(queue, act) /\ queue' = Append(queue, act)
          /\ again' = again \cup ({act} \cap (tracked \cup {launching}))
       \/ UNCHANGED <<queue, again>>
    /\ act' = NoTask
    /\ UNCHANGED <<serverVars, launching, tracked, job, twice, overwritten, ppc, body, term, cur,
                   new>>

PollDone ==
    /\ ppc = "new" /\ new = {} /\ act = NoTask
    /\ ppc' = "idle"
    /\ UNCHANGED <<serverVars, poolVars, jobVars, body, term, cur, new, act>>

Poll ==
    \/ SendProgress \/ PutAnswered \/ PutLost \/ Acknowledge \/ ApplyTerminatedJobs
    \/ GetAnswered \/ GetLost \/ SetCurrentStatus \/ CurrentDone \/ EnqueueNewJob \/ PollDone
    \/ \E t \in Tasks : CheckCurrentJob(t) \/ CheckNewJob(t)

-----------------------------------------------------------------------------
Next ==
    \/ \E t \in Tasks : Assign(t) \/ UserActs(t) \/ Finalize(t) \/ JobStep(t)
    \/ DequeueJob \/ LaunchJob
    \/ Poll

(***************************************************************************)
(* Fairness: the tickers fire and the goroutines run; a request ends, and  *)
(* not every one is lost; preparations end and killed processes die.  An   *)
(* app need not end by itself.                                             *)
(***************************************************************************)
Fairness ==
    /\ WF_vars(DequeueJob \/ LaunchJob) /\ WF_vars(Poll)
    /\ SF_vars(PutAnswered) /\ SF_vars(GetAnswered)
    /\ \A t \in Tasks :
          /\ WF_vars(JobStarts(t)) /\ WF_vars(JobPrepared(t)) /\ WF_vars(JobAnswered(t))
          /\ WF_vars(job[t].killed /\ JobFails(t))

Spec == Init /\ [][Next]_vars

FairSpec == Spec /\ Fairness

-----------------------------------------------------------------------------
(* When the server has the outcome success or error of a job, the job has  *)
(* ended and the server has every record the job has logged, although      *)
(* records are dropped by count while the job logs on (ackLogRecords) and  *)
(* reports are lost.                                                       *)
EndDelivered ==
    \A t \in Tasks \ again : srv[t] \in {"success", "error"} =>
        job[t].pc = "done" /\ received[t] = 1..job[t].logs

(* A job is launched a second time only if checkNewJobs found it in neither    *)
(* place because the Run loop moved it between the look at the running jobs *)
(* and the one at the queue.                                               *)
Once == twice \subseteq again

(* As long as the server takes results for a job, it executes under the    *)
(* control of the pool: sendProgress drops none that still does.           *)
Controlled ==
    \A t \in Tasks \ again : ~IsFinished(srv[t]) /\ Executing(job[t]) => t \in tracked

(* A job that has ended says so in its reports, unless checkNewJobs set the *)
(* server's status over the final one, having looked before the end.       *)
EndReported ==
    \A t \in Tasks \ again :
        job[t].pc = "done" => IsFinished(job[t].status) \/ t \in overwritten

(* The records of a job are counted consistently, the server has them all  *)
(* when the job has ended; it executes once, under the runner's control,   *)
(* and its end is reported, but for the two windows of checkNewJobs.       *)
JobsSound == TypeOK /\ EndDelivered /\ Once /\ Controlled /\ EndReported

(* A graceful stop that has reached the runner ends the task on the server, *)
(* through the kill in the next poll cycle, the end of the process and the *)
(* last report; unless a window of checkNewJobs was hit, or the job waits  *)
(* in the dialogue of terraform init.                                      *)
StopReaches ==
    \A t \in Tasks : (t \in tracked /\ job[t].status = "stopping")
        ~> (IsFinished(srv[t]) \/ t \in again \cup overwritten \/ job[t].pc = "init")

=============================================================================
