----------------------------- MODULE MCJobPool -----------------------------
(***************************************************************************)
(* Small instances of JobPool and of TaskLogs for TLC, one at a time: the  *)
(* job pool of a runner, or the output of a task on the server.            *)
(***************************************************************************)
EXTENDS JobPool, TaskLogs

CONSTANTS
    t1, t2,             \* tasks
    c1, c2, u1, u2      \* connections and their users

MCUserOf == (c1 :> u1) @@ (c2 :> u2)

(* The runner is not started, its tasks were stopped by force.             *)
NoJob ==
    /\ srv = [t \in Tasks |-> "stopped"] /\ known = {} /\ received = [t \in Tasks |-> {}]
    /\ queue = <<>> /\ launching = NoTask /\ tracked = {}
    /\ job = [t \in Tasks |-> [NewJob EXCEPT !.pc = "none"]]
    /\ twice = {} /\ again = {} /\ overwritten = {}
    /\ ppc = "off" /\ body = NoJobs /\ term = {} /\ cur = NoJobs /\ new = {} /\ act = NoTask

(* The connections of S have ended, the others are not made yet.           *)
Ended(S) ==
    /\ connections = {} /\ closed = S
    /\ send = [c \in Conns |-> <<>>]
    /\ ws = [c \in Conns |-> IF c \in S THEN "closed" ELSE "none"]
    /\ peer = [c \in Conns |-> IF c \in S THEN "gone" ELSE "there"]
    /\ readPump = [c \in Conns |-> IF c \in S THEN "done" ELSE "none"]
    /\ writePump = readPump
    /\ written = send /\ history = [u \in HubUsers |-> <<>>]
    /\ joined = [c \in Conns |-> 0]

(* The command of the task is over, and its output is stored.              *)
NoCommand ==
    /\ quota = [s \in Streams |-> 0]
    /\ waitDelay = TRUE /\ process = "exited" /\ orphans = FALSE /\ caller = "done"
    /\ wrote = quota /\ cut = "no"
    /\ scanner = [s \in Streams |-> "eof"]
    /\ read = quota /\ lines = quota /\ taken = quota
    /\ call = [w \in Writers |-> NotLogging]
    /\ logger = <<>> /\ logs = <<>> /\ rows = <<<<"task", 1>>>> /\ dropped = {}

(* A command whose output nobody watches, or one user does (an app without *)
(* WaitDelay).                                                             *)
Command ==
    /\ LogInit /\ messages = MaxMessages
    /\ \/ /\ Ended(Conns)
          /\ quota \in {[stdout |-> 1, stderr |-> 1], [stdout |-> 3, stderr |-> 0]}
       \/ Ended({c2}) /\ ~waitDelay /\ quota = [stdout |-> 1, stderr |-> 0]

allVars == <<vars, logVars, hubVars>>

OutputInit ==
    \/ Init /\ NoCommand /\ Ended(Conns) /\ messages = MaxMessages
    \/ NoJob /\ NoCommand /\ HubInit
    \/ NoJob /\ Command

OutputNext ==
    \/ Next /\ UNCHANGED <<logVars, hubVars>>
    \/ LogNext /\ UNCHANGED vars

OutputSpec == OutputInit /\ [][OutputNext]_allVars /\ Fairness /\ LogFairness
=============================================================================
