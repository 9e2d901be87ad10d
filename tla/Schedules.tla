----------------------------- MODULE Schedules ------------------------------
(* The schedule pool: a cron table in memory, rebuilt from the database by   *)
(* Refresh after every change, and the runners the table starts. Refresh     *)
(* reads the rows before it takes the pool's lock.                           *)
EXTENDS Integers

CONSTANTS
  Ids,          \* identifiers of schedules
  Payloads,     \* rows that users send
  Slots,        \* refreshes that may be under way at once
  MaxTime,      \* last tick of the clock
  MaxEdits,     \* changes made by users
  MaxCommits,   \* commits pushed to the watched repository
  MaxRestarts   \* restarts of the server

VARIABLES
  schedules,    \* project__schedule: identifier to row
  clock,
  entries,      \* the entries of the cron table
  cronOn,       \* cron.Run has been called
  refreshes,    \* Refresh calls under way
  locker,       \* the refresh that holds the pool's lock
  runs,         \* ScheduleRunner.Run goroutines
  commit,       \* last commit of the remote repository
  restarts,
  edits,        \* changes so far; the number names the version of the rows
  applied,      \* version of the rows in the cron table
  fired,        \* tasks attempted for a run time, by the change that set it
  handled,      \* commits a task was attempted for, or that a crash cut off
  tainted       \* what has left a one-time schedule to its own

scheduleVars == <<schedules, clock, entries, cronOn, refreshes, locker, runs,
                  commit, restarts, edits, applied, fired, handled, tainted>>

Nobody == 0
None == -1
Never == MaxTime + 1
Gens == 0..MaxEdits

(* A row; gen is the number of the change that set its times. *)
Schedule(type, runAt, active, repo, del) ==
  [type |-> type, runAt |-> runAt, active |-> active, repo |-> repo, del |-> del, hash |-> None, gen |-> 0]

Row == {s \in [type : {"run_at", "cron"}, runAt : 0..MaxTime, active : BOOLEAN, repo : BOOLEAN, del : BOOLEAN,
               hash : 0..MaxCommits \union {None}, gen : Gens] : s.type = "cron" => s.runAt = 0}
Tables == UNION {[ids -> Row] : ids \in SUBSET Ids}
NoRows == [id \in {} |-> None]

Idle == [pc |-> "idle", rows |-> NoRows, todo |-> {}, now |-> 0, ver |-> 0]
Reading == [Idle EXCEPT !.pc = "read"]

ASSUME ScheduleAssumption ==
  /\ MaxTime \in Nat /\ MaxEdits \in Nat /\ MaxCommits \in Nat /\ MaxRestarts \in Nat
  /\ Slots # {} /\ Nobody \notin Slots
  /\ Payloads \subseteq {s \in Row : s.hash = None}

(* validateSchedulePayload: a run time that has passed is refused. *)
ValidPayload(s) == s.type = "cron" \/ s.runAt >= clock

Wanted(s) == s.repo \/ s.active

(* oneTimeSchedule.Next, and the next minute of a cron line. *)
NextTime(e, t) ==
  IF e.type = "cron" THEN t + 1
  ELSE IF t >= e.runAt THEN Never ELSE e.runAt

(* The writes of the store. *)
CreateRow(id, row) == [j \in DOMAIN schedules \union {id} |-> IF j = id THEN row ELSE schedules[j]]
UpdateRow(id, row) == [schedules EXCEPT ![id] = row]
DeleteRow(id) == [j \in DOMAIN schedules \ {id} |-> schedules[j]]

-----------------------------------------------------------------------------
(* Refresh.                                                                  *)

Mark(cond, reason) == IF cond THEN tainted \union {reason} ELSE tainted

FreeSlots == {i \in Slots : refreshes[i] = Idle}
FreeSlot == CHOOSE i \in FreeSlots : TRUE
StartRefresh == FreeSlots # {} /\ refreshes' = [refreshes EXCEPT ![FreeSlot] = Reading]

GetSchedules(i) ==
  /\ refreshes[i].pc = "read"
  /\ refreshes' = [refreshes EXCEPT ![i] = [@ EXCEPT !.pc = "lock", !.rows = schedules, !.ver = edits]]
  /\ UNCHANGED <<schedules, clock, entries, cronOn, locker, runs, commit, restarts, edits, applied, fired, handled, tainted>>

\* Mutant: the old entries stay in the table.
KeepAndRead(i) ==
  /\ entries' = entries
  /\ refreshes' = [refreshes EXCEPT ![i] = [@ EXCEPT !.pc = "rows", !.todo = DOMAIN refreshes[i].rows, !.now = clock]]

ClearAndRead(i) ==
  /\ entries' = {}
  /\ refreshes' = [refreshes EXCEPT ![i] = [@ EXCEPT !.pc = "rows", !.todo = DOMAIN refreshes[i].rows, !.now = clock]]

Lock(i) ==
  /\ refreshes[i].pc = "lock" /\ locker = Nobody
  /\ locker' = i
  /\ ClearAndRead(i)
  /\ tainted' = Mark(refreshes[i].ver # edits, "stale")
  /\ UNCHANGED <<schedules, clock, cronOn, runs, commit, restarts, edits, applied, fired, handled>>

(* A past run time ends the schedule, a future one is put in the table. *)
Consume(id, s) ==
  IF id \notin DOMAIN schedules THEN schedules
  ELSE IF s.del THEN DeleteRow(id)
  ELSE IF s.active THEN UpdateRow(id, [schedules[id] EXCEPT !.active = FALSE])
  ELSE schedules

Entry(id, s) == [id |-> id, type |-> s.type, runAt |-> s.runAt, gen |-> s.gen, next |-> None]

AddEntry(e) ==
  LET next == IF cronOn THEN NextTime(e, clock) ELSE None
  IN /\ entries' = entries \union {[e EXCEPT !.next = next]}
     /\ tainted' = Mark(next = Never, "late")

Past(s, now) == s.type = "run_at" /\ s.runAt <= now

RefreshRow(i, id) ==
  /\ locker = i /\ id \in refreshes[i].todo
  /\ refreshes' = [refreshes EXCEPT ![i] = [@ EXCEPT !.todo = refreshes[i].todo \ {id}]]
  /\ LET s == refreshes[i].rows[id]
         past == Past(s, refreshes[i].now)
     IN \/ ~Wanted(s) /\ UNCHANGED <<entries, schedules, tainted>>
        \/ Wanted(s) /\ ~past /\ AddEntry(Entry(id, s)) /\ UNCHANGED schedules
        \/ /\ Wanted(s) /\ past
           /\ schedules' = Consume(id, s)
           /\ tainted' = Mark(id \in DOMAIN schedules /\ schedules[id].gen # s.gen, "overwritten")
           /\ UNCHANGED entries
  /\ UNCHANGED <<clock, cronOn, locker, runs, commit, restarts, edits, applied, fired, handled>>

Unlock(i) ==
  /\ locker = i /\ refreshes[i].todo = {}
  /\ locker' = Nobody
  /\ applied' = refreshes[i].ver
  /\ refreshes' = [refreshes EXCEPT ![i] = Idle]
  /\ UNCHANGED <<schedules, clock, entries, cronOn, runs, commit, restarts, edits, fired, handled, tainted>>

-----------------------------------------------------------------------------
(* The handlers of the API: a change of the row, then a Refresh.             *)

Change(rows) ==
  /\ cronOn /\ edits < MaxEdits
  /\ schedules' = rows
  /\ edits' = edits + 1
  /\ StartRefresh
  /\ UNCHANGED <<clock, entries, cronOn, locker, runs, commit, restarts, applied, fired, handled, tainted>>

AddSchedule(id) ==
  /\ id \notin DOMAIN schedules
  /\ \E s \in Payloads : ValidPayload(s) /\ Change(CreateRow(id, [s EXCEPT !.gen = edits + 1]))

UpdateSchedule(id) ==
  /\ id \in DOMAIN schedules
  /\ \E s \in Payloads : ValidPayload(s) /\ Change(UpdateRow(id, [s EXCEPT !.gen = edits + 1]))

SetScheduleActive(id) ==
  /\ id \in DOMAIN schedules
  /\ \E active \in BOOLEAN : Change(UpdateRow(id, [schedules[id] EXCEPT !.active = active]))

RemoveSchedule(id) == id \in DOMAIN schedules /\ Change(DeleteRow(id))

-----------------------------------------------------------------------------
(* The cron loop.                                                            *)

CronRun ==
  /\ ~cronOn /\ \A i \in Slots : refreshes[i] = Idle
  /\ cronOn' = TRUE
  /\ entries' = {[e EXCEPT !.next = NextTime(e, clock)] : e \in entries}
  /\ tainted' = Mark(\E e \in entries : NextTime(e, clock) = Never, "late")
  /\ UNCHANGED <<schedules, clock, refreshes, locker, runs, commit, restarts, edits, applied, fired, handled>>

Due == {e \in entries : e.next <= clock}
Started(e) == [id |-> e.id, at |-> clock, type |-> e.type, gen |-> e.gen, pc |-> "get", row |-> NoRows, hash |-> None]

Fire ==
  /\ cronOn /\ Due # {}
  /\ runs' = runs \union {Started(e) : e \in Due}
  /\ entries' = (entries \ Due) \union {[e EXCEPT !.next = NextTime(e, clock)] : e \in Due}
  /\ UNCHANGED <<schedules, clock, cronOn, refreshes, locker, commit, restarts, edits, applied, fired, handled, tainted>>

-----------------------------------------------------------------------------
(* ScheduleRunner.Run.                                                       *)

Step(r, q) == runs' = (runs \ {r}) \union {q}
Return(r) == runs' = runs \ {r}

GetSchedule(r) ==
  /\ r.pc = "get"
  /\ IF r.id \in DOMAIN schedules
       THEN Step(r, [r EXCEPT !.pc = IF schedules[r.id].repo THEN "remote" ELSE "template", !.row = schedules[r.id]])
       ELSE Return(r)
  /\ UNCHANGED <<schedules, clock, entries, cronOn, refreshes, locker, commit, restarts, edits, applied, fired, handled, tainted>>

(* tryUpdateScheduleCommitHash: the fetch may fail. *)
Unseen(r) == r.row.hash # commit

GetLastRemoteCommitHash(r) ==
  /\ r.pc = "remote"
  /\ IF Unseen(r) THEN Step(r, [r EXCEPT !.pc = "hash", !.hash = commit]) \/ Return(r) ELSE Return(r)
  /\ UNCHANGED <<schedules, clock, entries, cronOn, refreshes, locker, commit, restarts, edits, applied, fired, handled, tainted>>

SetScheduleCommitHash(r) ==
  /\ r.pc = "hash"
  /\ Step(r, [r EXCEPT !.pc = "template"])
  /\ schedules' = IF r.id \in DOMAIN schedules THEN UpdateRow(r.id, [schedules[r.id] EXCEPT !.hash = r.hash]) ELSE schedules
  /\ UNCHANGED <<clock, entries, cronOn, refreshes, locker, commit, restarts, edits, applied, fired, handled, tainted>>

Attempt(r) ==
  /\ fired' = IF r.type = "run_at" THEN [fired EXCEPT ![<<r.id, r.gen>>] = @ + 1] ELSE fired
  /\ handled' = IF r.hash = None THEN handled ELSE handled \union {<<r.id, r.hash>>}

(* The template cannot be read: no task and no Refresh. *)
GetTemplateFails(r) ==
  /\ r.pc = "template"
  /\ Return(r) /\ Attempt(r)
  /\ tainted' = Mark(r.row.type = "run_at", "template")
  /\ UNCHANGED <<schedules, clock, entries, cronOn, refreshes, locker, commit, restarts, edits, applied>>

\* Mutant: the final Refresh is left out.
AddTaskOnly(r) ==
  /\ r.pc = "template"
  /\ Return(r) /\ Attempt(r)
  /\ UNCHANGED <<schedules, clock, entries, cronOn, refreshes, locker, commit, restarts, edits, applied, tainted>>

(* The task is added, or refused; then the pool is refreshed for a run time. *)
AddTask(r) ==
  /\ r.pc = "template"
  /\ Return(r) /\ Attempt(r)
  /\ IF r.row.type = "run_at" THEN StartRefresh ELSE UNCHANGED refreshes
  /\ UNCHANGED <<schedules, clock, entries, cronOn, locker, commit, restarts, edits, applied, tainted>>

-----------------------------------------------------------------------------
Push ==
  /\ commit < MaxCommits
  /\ commit' = commit + 1
  /\ UNCHANGED <<schedules, clock, entries, cronOn, refreshes, locker, runs, restarts, edits, applied, fired, handled, tainted>>

Tick ==
  /\ clock < MaxTime
  /\ clock' = clock + 1
  /\ UNCHANGED <<schedules, entries, cronOn, refreshes, locker, runs, commit, restarts, edits, applied, fired, handled, tainted>>

FirstSlot == CHOOSE i \in Slots : TRUE

(* A restart loses table, refreshes and runners; CreateSchedulePool refreshes. *)
Restart ==
  /\ restarts < MaxRestarts
  /\ restarts' = restarts + 1
  /\ cronOn' = FALSE
  /\ entries' = {} /\ runs' = {} /\ locker' = Nobody
  /\ refreshes' = [i \in Slots |-> IF i = FirstSlot THEN Reading ELSE Idle]
  /\ handled' = handled \union {<<r.id, r.hash>> : r \in {q \in runs : q.hash # None}}
  /\ UNCHANGED <<schedules, clock, commit, edits, applied, fired, tainted>>

RefreshStep(i) == GetSchedules(i) \/ Lock(i) \/ (\E id \in Ids : RefreshRow(i, id)) \/ Unlock(i)
RunStep(r) ==
  \/ GetSchedule(r) \/ GetLastRemoteCommitHash(r) \/ SetScheduleCommitHash(r)
  \/ GetTemplateFails(r) \/ AddTask(r)

ScheduleNext ==
  \/ \E i \in Slots : RefreshStep(i)
  \/ \E id \in Ids : AddSchedule(id) \/ UpdateSchedule(id) \/ SetScheduleActive(id) \/ RemoveSchedule(id)
  \/ CronRun \/ Fire
  \/ \E r \in runs : RunStep(r)
  \/ Push \/ Tick \/ Restart

(* The server has just started over rows whose times nobody has changed yet  *)
(* and whose commits have been handled: any of them, at any time.            *)
ScheduleStart ==
  /\ schedules \in Tables /\ \A id \in DOMAIN schedules : schedules[id].gen = 0
  /\ clock \in 0..MaxTime /\ commit \in 0..MaxCommits /\ restarts \in 0..MaxRestarts /\ edits \in Gens
  /\ entries = {} /\ cronOn = FALSE
  /\ refreshes = [i \in Slots |-> IF i = FirstSlot THEN Reading ELSE Idle]
  /\ locker = Nobody /\ runs = {} /\ applied = edits
  /\ fired = [x \in Ids \X Gens |-> 0] /\ tainted = {}
  /\ handled = {<<id, schedules[id].hash>> : id \in DOMAIN schedules}

ScheduleSpec == ScheduleStart /\ [][ScheduleNext]_scheduleVars

-----------------------------------------------------------------------------
ScheduleTypeOK ==
  /\ DOMAIN schedules \subseteq Ids
  /\ clock \in 0..MaxTime /\ cronOn \in BOOLEAN /\ tainted \subseteq {"stale", "late", "template", "overwritten"}
  /\ locker \in Slots \union {Nobody}
  /\ \A i \in Slots : refreshes[i].pc \in {"idle", "read", "lock", "rows"} /\ (refreshes[i].pc = "rows" <=> locker = i)
  /\ \A r \in runs : r.pc \in {"get", "remote", "hash", "template"}
  /\ applied \in 0..edits

(* A run time somebody asked for starts at most one task, whatever refreshes *)
(* overlap its firing, whoever switches the schedule on again afterwards,    *)
(* and whenever the server restarts.                                         *)
AtMostOnce == \A x \in DOMAIN fired : fired[x] <= 1

(* Once no Refresh is under way and the last to finish had read the rows of  *)
(* the last change, the cron table is what the rows ask for: every wanted    *)
(* cron line and every future run time, with its latest time, nothing else.  *)
TableMatchesRows ==
  (cronOn /\ FreeSlots = Slots /\ applied = edits /\ "overwritten" \notin tainted) =>
    \A id \in Ids :
      LET row == IF id \in DOMAIN schedules THEN {schedules[id]} ELSE {}
      IN /\ (\E e \in entries : e.id = id /\ e.type = "cron") <=> (\E s \in row : Wanted(s) /\ s.type = "cron")
         /\ (\E e \in entries : e.id = id /\ e.next = e.runAt) =>
              \E s \in row : Wanted(s) /\ s.type = "run_at"
         /\ \A s \in row : (Wanted(s) /\ s.type = "run_at" /\ s.runAt > clock) =>
              \E e \in entries : e.id = id /\ e.next = s.runAt /\ e.gen = s.gen

(* A commit is recorded as seen only by a runner that goes on to a task for  *)
(* it: none is skipped unless a crash or a refused task comes between.       *)
CommitNotSkipped ==
  \A id \in DOMAIN schedules :
    LET h == schedules[id].hash
    IN h = None \/ <<id, h>> \in handled \/ \E r \in runs : r.id = id /\ r.hash = h

(* The schedules fire what was asked for: each time once, no commit passed   *)
(* over, and what the cron table holds is what the rows say.                 *)
SchedulesSound == ScheduleTypeOK /\ AtMostOnce /\ TableMatchesRows /\ CommitNotSkipped

(* Every one-time schedule ends up inactive or deleted, unless a refresh     *)
(* with old rows locked, the time passed between the refresh and its entry,  *)
(* or the template could not be read.                                        *)
Armed(s) == s.type = "run_at" /\ s.active /\ ~s.repo
OneTimeEnds == <>[](tainted # {} \/ \A id \in DOMAIN schedules : ~Armed(schedules[id]))

ScheduleFairness ==
  /\ WF_scheduleVars(Tick) /\ WF_scheduleVars(CronRun) /\ WF_scheduleVars(Fire)
  /\ WF_scheduleVars(\E i \in Slots : RefreshStep(i))
  /\ WF_scheduleVars(\E r \in runs : GetSchedule(r))
  /\ WF_scheduleVars(\E r \in runs : GetLastRemoteCommitHash(r))
  /\ WF_scheduleVars(\E r \in runs : SetScheduleCommitHash(r))
  /\ WF_scheduleVars(\E r \in runs : GetTemplateFails(r) \/ AddTask(r))
=============================================================================
