------------------------------ MODULE TaskLogs ------------------------------
(***************************************************************************)
(* The way of a task's output from the process to the database and to the  *)
(* websockets: LogCmd, logPipe and Log of services/tasks/                  *)
(* TaskRunner_logging.go, handleLogs and writeLogs of TaskPool.go and the  *)
(* use the apps make of LogCmd (db_lib/ShellApp.go and AnsiblePlaybook.go).*)
(*                                                                         *)
(* One command runs.  os/exec copies each of its two streams from a pipe of *)
(* the system to a scanner, whose lines a consumer logs; the goroutine of  *)
(* the task waits for both and logs the result.  A record <<s, n>> is line *)
(* n of stream s; a line that is copied in part counts as copied.          *)
(***************************************************************************)
EXTENDS SocketHub

CONSTANTS
    TaskUsers,      \* TaskRunner.users: users of the project and admins
    LineSize,       \* capacity of linesCh
    LoggerSize,     \* capacity of TaskPool.logger
    OutputBatch     \* TaskOutputBatchSize

ASSUME LogAssumption == TaskUsers \subseteq HubUsers /\ {LineSize, LoggerSize, OutputBatch} \subseteq Nat \ {0}

Streams == {"stdout", "stderr"}
ScannerOf == [stdout |-> "stdoutScanner", stderr |-> "stderrScanner"]
\* Who calls Log: the goroutine of the task with a notice and with the result.
Writers == Streams \cup {ScannerOf[s] : s \in Streams} \cup {"notice", "task"}

VARIABLES
    quota,          \* [Streams -> Nat] the lines the process may write
    waitDelay,      \* the command has a WaitDelay (ShellApp)
    process,        \* "running", "exited"
    orphans,        \* children of the process keep its output open
    wrote,          \* [Streams -> Nat] lines written into the pipe of the system
    caller,         \* "wait" (cmd.Wait), "drain" (finishLog), "notice", "result", "done"
    cut,            \* cmd.Wait gave up the output: "no", "noted" (ErrWaitDelay), "silent"
    scanner,        \* [Streams -> "scan", "eof", "error"]
    read,           \* [Streams -> Nat] lines copied to the scanner
    lines,          \* [Streams -> Nat] lines put into linesCh
    taken,          \* [Streams -> Nat] lines taken out
    call,           \* [Writers -> [at, n]] the call of Log: users still to tell
    logger,         \* Seq of records: the channel
    logs,           \* Seq of records: the batch of handleLogs
    rows,           \* Seq of records: task__output
    dropped         \* records of batches that could not be inserted

logVars == <<quota, waitDelay, process, orphans, wrote, caller, cut, scanner, read, lines, taken,
             call, logger, logs, rows, dropped>>
command == <<quota, waitDelay, process, orphans, wrote, cut>>
counts  == <<read, lines, taken>>
stores  == <<logger, logs, rows, dropped>>

NotLogging == [users |-> {}, n |-> 0]

(* What the process will write (quota) is chosen by the instance.          *)
LogInit ==
    /\ waitDelay \in BOOLEAN /\ process = "running" /\ orphans = FALSE
    /\ wrote = [s \in Streams |-> 0]
    /\ caller = "wait" /\ cut = "no"
    /\ scanner = [s \in Streams |-> "scan"]
    /\ read = [s \in Streams |-> 0] /\ lines = [s \in Streams |-> 0] /\ taken = [s \in Streams |-> 0]
    /\ call = [w \in Writers |-> NotLogging]
    /\ logger = <<>> /\ logs = <<>> /\ rows = <<>> /\ dropped = {}

-----------------------------------------------------------------------------
(* The process *)

(* A line is written into the pipe, until its other end is closed.         *)
WriteLine(s) ==
    /\ process = "running" \/ orphans
    /\ caller = "wait" /\ wrote[s] < quota[s]
    /\ wrote' = [wrote EXCEPT ![s] = @ + 1]
    /\ UNCHANGED <<quota, waitDelay, process, orphans, cut, caller, scanner, counts, call, stores>>

(* os/exec copies it to the scanner, which may be slow to take it.         *)
CopyLine(s) ==
    /\ caller = "wait" /\ scanner[s] = "scan"
    /\ read[s] < wrote[s]
    /\ read' = [read EXCEPT ![s] = @ + 1]
    /\ UNCHANGED <<command, caller, scanner, lines, taken, call, stores>>

(* The process ends, by itself or killed; a child may live on.             *)
Exit ==
    /\ process = "running"
    /\ process' = "exited" /\ orphans' \in BOOLEAN
    /\ UNCHANGED <<quota, waitDelay, wrote, cut, caller, scanner, counts, call, stores>>

-----------------------------------------------------------------------------
(* LogWithTime *)

Idle(w) == call[w] = NotLogging

StartLog(w, n) == call' = [call EXCEPT ![w] = [users |-> TaskUsers, n |-> n]]

(* sendToWs: one message per user of the task, a rendezvous with the hub.  *)
SendToWs(w, u) ==
    /\ u \in call[w].users
    /\ Broadcast(u, <<w, call[w].n>>) /\ UNCHANGED messages
    /\ call' = [call EXCEPT ![w].users = @ \ {u}]
    /\ UNCHANGED <<command, caller, scanner, counts, stores>>

(* The record is put into the logger channel; the call returns.            *)
SendToLogger(w) ==
    /\ ~Idle(w) /\ call[w].users = {}
    /\ Len(logger) < LoggerSize
    /\ logger' = Append(logger, <<w, call[w].n>>)
    /\ call' = [call EXCEPT ![w] = NotLogging]
    /\ UNCHANGED <<command, caller, scanner, counts, logs, rows, dropped>>

-----------------------------------------------------------------------------
(* logPipe *)

(* The scanner puts a line into linesCh.                                   *)
ScanLine(s) ==
    /\ scanner[s] = "scan" /\ lines[s] < read[s]
    /\ lines[s] - taken[s] < LineSize
    /\ lines' = [lines EXCEPT ![s] = @ + 1]
    /\ UNCHANGED <<command, caller, scanner, read, taken, call, stores>>

(* The consumer takes a line and logs it.                                  *)
TakeLine(s) ==
    /\ Idle(s) /\ taken[s] < lines[s]
    /\ taken' = [taken EXCEPT ![s] = @ + 1]
    /\ StartLog(s, taken[s] + 1)
    /\ UNCHANGED <<command, caller, scanner, read, lines, stores>>

(* The scanner sees the end of the pipe that finishLog closed.             *)
ScanEOF(s) ==
    /\ caller = "drain" /\ scanner[s] = "scan" /\ lines[s] = read[s]
    /\ scanner' = [scanner EXCEPT ![s] = "eof"]
    /\ UNCHANGED <<command, caller, counts, call, stores>>

(* A line is too long: the job is killed (it may Exit now) and nothing     *)
(* more is read.  The scanner's goroutine logs that while the consumer may *)
(* still have lines to log.                                                *)
ScanFails(s) ==
    /\ caller \in {"wait", "drain"}
    /\ scanner[s] = "scan" /\ lines[s] = read[s] /\ read[s] < wrote[s]
    /\ scanner' = [scanner EXCEPT ![s] = "error"]
    /\ StartLog(ScannerOf[s], 1)
    /\ UNCHANGED <<command, caller, counts, stores>>

\* Mutant: logPipe does not wait for its consumer.
PipeDoneEarly(s) == scanner[s] # "scan"

(* logPipe returns: the channel is closed and the consumer has emptied it. *)
PipeDone(s) ==
    /\ scanner[s] # "scan" /\ Idle(ScannerOf[s])
    /\ taken[s] = lines[s] /\ Idle(s)

-----------------------------------------------------------------------------
(* The app *)

(* The copying of a stream ends with the last writer, or with the scanner. *)
Copied(s) ==
    \/ ~orphans /\ read[s] = wrote[s]
    \/ scanner[s] = "error" /\ PipeDone(s)

\* Mutant: no WaitDelay.
WaitReturnsNoDelay ==
    /\ caller = "wait" /\ process = "exited"
    /\ \A s \in Streams : Copied(s)
    /\ caller' = "drain"
    /\ UNCHANGED <<command, scanner, counts, call, stores>>

(* cmd.Wait returns when the output is copied.  With a WaitDelay it closes *)
(* the pipe some time after the exit: what is in there still is dropped,   *)
(* and the error says so unless the process failed, which goes first.      *)
WaitReturns ==
    /\ caller = "wait" /\ process = "exited"
    /\ \/ (\A s \in Streams : Copied(s)) /\ UNCHANGED cut
       \/ waitDelay /\ cut' \in {"noted", "silent"}
    /\ caller' = "drain"
    /\ UNCHANGED <<quota, waitDelay, process, orphans, wrote, scanner, counts, call, stores>>

(* finishLog returns and the result is logged, or first that the output    *)
(* was cut off, which is not an error.                                     *)
FinishLog ==
    /\ caller = "drain"
    /\ \A s \in Streams : PipeDone(s)
    /\ IF cut = "noted" THEN caller' = "notice" /\ StartLog("notice", 1)
                        ELSE caller' = "result" /\ StartLog("task", 1)
    /\ UNCHANGED <<command, scanner, counts, stores>>

LogResult ==
    /\ caller = "notice" /\ Idle("notice")
    /\ caller' = "result"
    /\ StartLog("task", 1)
    /\ UNCHANGED <<command, scanner, counts, stores>>

Finish ==
    /\ caller = "result" /\ Idle("task")
    /\ caller' = "done"
    /\ UNCHANGED <<command, scanner, counts, call, stores>>

-----------------------------------------------------------------------------
(* handleLogs *)

(* flushLogs, writeLogs and InsertTaskOutputBatch: one statement for the   *)
(* records of all tasks, so that one record of a deleted task is enough    *)
(* for all of them to be lost.                                             *)
FlushLogs(batch) ==
    /\ logs' = <<>>
    /\ \/ rows' = rows \o batch /\ UNCHANGED dropped
       \/ dropped' = dropped \cup ToSet(batch) /\ UNCHANGED rows

ReceiveLog ==
    /\ logger # <<>>
    /\ logger' = Tail(logger)
    /\ LET batch == Append(logs, Head(logger))
       IN  IF Len(batch) >= OutputBatch
             THEN FlushLogs(batch)
             ELSE logs' = batch /\ UNCHANGED <<rows, dropped>>
    /\ UNCHANGED <<command, caller, scanner, counts, call>>

LogTick ==
    /\ logs # <<>>
    /\ FlushLogs(logs)
    /\ UNCHANGED <<command, caller, scanner, read, lines, taken, call, logger>>

-----------------------------------------------------------------------------
(* What the process does, and what the server's goroutines do with it.     *)
ProcessStep == Exit \/ \E s \in Streams : WriteLine(s) \/ ScanFails(s)

LogStep ==
    \/ \E s \in Streams : CopyLine(s) \/ ScanLine(s) \/ TakeLine(s) \/ ScanEOF(s)
    \/ \E w \in Writers : SendToLogger(w)
    \/ WaitReturns \/ FinishLog \/ LogResult \/ Finish
    \/ ReceiveLog \/ LogTick

Tell == \E w \in Writers, u \in TaskUsers : SendToWs(w, u)

LogNext ==
    \/ (ProcessStep \/ LogStep) /\ UNCHANGED hubVars
    \/ Tell
    \/ HubNext /\ UNCHANGED logVars

(* The goroutines run as long as one of them can.  There are only as many  *)
(* steps as lines, so that none of them waits for ever for a channel while *)
(* the others use it.  The process is free to run for ever.                *)
LogFairness == HubFairness /\ WF_logVars(LogStep \/ Tell)

(* One command, whatever it writes, and the clients of the hub.            *)
LogSpec ==
    /\ HubInit /\ LogInit /\ quota \in [Streams -> Nat]
    /\ [][LogNext]_<<hubVars, logVars>>

-----------------------------------------------------------------------------
(* What Log has put into the channel and was not lost, in order.           *)
Kept == rows \o logs \o logger

\* The records of each writer are in the order of its calls, none twice.
Ordered(seq) ==
    \A i, j \in 1..Len(seq) : i < j /\ seq[i][1] = seq[j][1] => seq[i][2] < seq[j][2]

(* Lines of a stream are stored in order and once; what is missing was in  *)
(* a batch that could not be inserted.                                     *)
StoredInOrder ==
    /\ Ordered(Kept)
    /\ \A s \in Streams : \A n \in 1..taken[s] :
          call[s].n # n => <<s, n>> \in ToSet(Kept) \cup dropped

(* Each user of the task is sent the lines in order and once.              *)
SentInOrder ==
    \A u \in TaskUsers :
        /\ Ordered(history[u])
        /\ \A s \in Streams : \A n \in 1..taken[s] :
              call[s].n # n => <<s, n>> \in ToSet(history[u])

\* Nothing but statuses of tasks follows the result of the command.
NothingAfterResult(seq) ==
    \A i, j \in 1..Len(seq) : i < j /\ seq[i][1] = "task" => seq[j][1] = "status"

(* "Flush command output before logging the wait result": the result comes *)
(* after every line of the command, in the table and on every websocket.   *)
ResultLast ==
    /\ NothingAfterResult(Kept)
    /\ \A u \in TaskUsers : NothingAfterResult(history[u])
    /\ caller \in {"result", "done"} => \A s \in Streams : taken[s] = read[s] /\ Idle(s)

(* No line is missed out on the way to the log, unless cmd.Wait gave up or *)
(* a line of the stream was too long.                                      *)
NothingLeft ==
    caller # "wait" =>
        \A s \in Streams : read[s] = wrote[s] \/ cut # "no" \/ scanner[s] = "error"

(* The output of a command is recorded in order, and its result last.      *)
OutputInOrder == StoredInOrder /\ SentInOrder /\ ResultLast /\ NothingLeft

(* The output of a command that ended reaches the table, unless its batch  *)
(* is lost, whatever the websocket clients do; a child that keeps the      *)
(* output open holds up only an app without WaitDelay.  With a WaitDelay    *)
(* cmd.Wait may give up the rest of the output, that of a slow consumer    *)
(* too; the log of a command that succeeded says so.                       *)
OutputStored ==
    (process = "exited" /\ (orphans => waitDelay)) ~>
        /\ caller = "done"
        /\ ToSet(rows) \cup dropped =
              {<<"task", 1>>}
                \cup (IF cut = "noted" THEN {<<"notice", 1>>} ELSE {})
                \cup {<<ScannerOf[s], 1>> : s \in {s \in Streams : scanner[s] = "error"}}
                \cup UNION {{<<s, n>> : n \in 1..read[s]} : s \in Streams}
        /\ \A s \in Streams : read[s] = wrote[s] \/ cut # "no" \/ scanner[s] = "error"

(* What was written is stored or given up, failed connections are released. *)
OutputSettles == OutputStored /\ ConnsReleased
=============================================================================
