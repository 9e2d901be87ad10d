----------------------------- MODULE MCTriggers -----------------------------
EXTENDS Schedules, Integrations, Workspace

MCPayloads ==
  {Schedule("run_at", t, TRUE, FALSE, FALSE) : t \in 1..MaxTime} \union {Schedule("cron", 0, FALSE, TRUE, FALSE)}

(* From the first tick on with a restart: a one-time schedule and one change, *)
(* or a commit checker and a commit.  Or two changes around the run time.     *)
OneTime(del) == [id \in {1} |-> Schedule("run_at", 2, TRUE, FALSE, del)]
Checker == [id \in {2} |-> Schedule("cron", 0, TRUE, TRUE, FALSE)]

ScheduleInit ==
  /\ \/ /\ clock = 0 /\ commit = 0 /\ restarts = 0
        /\ \/ schedules \in {OneTime(TRUE), OneTime(FALSE)} /\ edits = MaxEdits - 1
           \/ schedules = Checker /\ edits = MaxEdits
     \/ /\ schedules = OneTime(FALSE)
        /\ clock = 1 /\ commit = MaxCommits /\ restarts = MaxRestarts /\ edits = 0
  /\ ScheduleStart

NoSchedules ==
  /\ schedules = NoRows /\ clock = MaxTime /\ commit = MaxCommits /\ restarts = MaxRestarts /\ edits = MaxEdits
  /\ entries = {} /\ cronOn = TRUE /\ refreshes = [i \in Slots |-> Idle]
  /\ locker = Nobody /\ runs = {} /\ applied = edits
  /\ fired = [x \in Ids \X Gens |-> 0] /\ handled = {} /\ tainted = {}

-----------------------------------------------------------------------------
(* A request with a header, a JSON key and a text, signed with one secret. *)
Call == [header |-> [event |-> {"push"}], json |-> [ref |-> {"main"}], body |-> {"push", "main"}, secret |-> "s"]

Matcher(type, key, method, value) == [type |-> type, key |-> key, method |-> method, value |-> value]
Matchers == {Matcher("header", "event", "equals", {"push"}), Matcher("header", "other", "unequals", {"push"}),
             Matcher("json", "ref", "equals", {"dev"}), Matcher("json", "none", "contains", {"nil"}),
             Matcher("string", "", "contains", {"main"})}

Value(kind, source, key, variable) == [kind |-> kind, source |-> source, key |-> key, variable |-> variable]
Values == {Value(k, s, key, "x") : k \in {"environment", "task"}, s \in {"header", "json"}, key \in {"event", "ref"}}
            \union {Value("environment", "string", "", "x")}

SeqsUpTo(S, n) == UNION {[1..k -> S] : k \in 0..n}

Integration(id, auth, secret, unreadable, searchable, matchers, values, params) ==
  [id |-> id, auth |-> auth, secret |-> secret, unreadable |-> unreadable, searchable |-> searchable,
   matchers |-> matchers, values |-> values, params |-> params, defaults |-> [x |-> {"default"}, y |-> {"default"}]]

Second == Integration("b", "none", "", FALSE, TRUE, <<Matcher("header", "event", "equals", {"push"})>>,
                      <<Value("task", "json", "ref", "x")>>, "none")

IntegrationInit ==
  /\ request = Call /\ alias \in {"project", "a"}
  /\ index = 0 /\ reply = "open" /\ started = <<>>
  /\ \/ \E auth \in {"none", "hmac", "other"}, secret \in {"s", "t"}, unreadable, searchable \in BOOLEAN,
           ms \in SeqsUpTo(Matchers, 2), first \in BOOLEAN :
          LET i == Integration("a", auth, secret, unreadable, searchable, ms, <<>>, "none")
          IN found = IF first THEN <<i, Second>> ELSE <<Second, i>>
     \/ \E values \in SeqsUpTo(Values, 2), params \in {"none", "nil", "bad", "full"} :
          found = <<Integration("a", "none", "", FALSE, alias = "project",
                                <<Matcher("header", "event", "equals", {"push"})>>, values, params), Second>>

NoCall == alias = "project" /\ request = Call /\ found = <<>> /\ index = 0 /\ reply = "done" /\ started = <<>>

-----------------------------------------------------------------------------
(* Two tasks of a template; main and dev part after commit 1, which has a    *)
(* parent, so that a branch may be rewound behind a working copy.            *)
MCOlder == {<<c, c>> : c \in Commits} \union {<<0, 1>>, <<0, 2>>, <<0, 3>>, <<1, 2>>, <<1, 3>>}
MCRequirements == [c \in Commits \union {NoCommit} |-> CASE c \in {1, 3} -> "a" [] c = 2 -> "b" [] OTHER -> "none"]

MCTemplate(app, inventory, key, branch, parallel) ==
  [app |-> app, inventory |-> inventory, key |-> key, branch |-> branch, parallel |-> parallel,
   allowBranch |-> app = "ansible", skip |-> app = "ansible", allowSkip |-> app = "ansible",
   become |-> IF branch = "dev" /\ key = "ssh" THEN "wrong" ELSE "none",
   backend |-> app = "terraform", local |-> app = "bash"]

(* How many faults, pushes, clears and crashes. *)
Budget(f, p, l, c) == [faults |-> f, pushes |-> p, clears |-> l, crashes |-> c]
Setups ==
  ({MCTemplate("ansible", "static", "ssh", "", TRUE)} \X {Budget(2, 0, 0, 0), Budget(0, 1, 0, 0), Budget(1, 0, 0, 1)})
    \union ({MCTemplate("ansible", "static", "ssh", "", FALSE)} \X {Budget(0, 2, 0, 0), Budget(1, 1, 0, 1), Budget(1, 0, 1, 0)})
    \union ({MCTemplate("terraform", "file", "none", "dev", TRUE)} \X {Budget(2, 0, 0, 0), Budget(0, 1, 0, 0), Budget(1, 0, 0, 1)})
    \union {<<MCTemplate("terraform", "static", "ssh", "dev", TRUE), Budget(1, 0, 0, 0)>>,
            <<MCTemplate("terraform", "static", "none", "dev", FALSE), Budget(0, 0, 0, 1)>>,
            <<MCTemplate("bash", "none", "broken", "", FALSE), Budget(1, 0, 0, 0)>>,
            <<MCTemplate("bash", "none", "none", "", TRUE), Budget(0, 0, 1, 0)>>}

MCTask(branch, pin, skip) == [branch |-> branch, pin |-> pin, skip |-> skip]

WorkspaceInit ==
  /\ \E setup \in Setups, second \in {MCTask("", NoCommit, FALSE), MCTask("dev", NoCommit, TRUE), MCTask("", 1, FALSE)} :
       /\ second.branch = "" \/ setup[1].allowBranch
       /\ setup[2].clears = 0 \/ second = MCTask("", NoCommit, FALSE)
       /\ job = [template |-> setup[1],
                 task |-> [e \in Executors |-> IF e = 1 THEN MCTask("", NoCommit, FALSE) ELSE second]]
       /\ budget = setup[2]
  /\ heads = [b \in {"main", "dev", "inventory"} |-> IF b = "main" THEN 2 ELSE 3]
  /\ \E c \in {Cloned(1)} \union (IF budget.pushes + budget.clears = 0 THEN {Absent} ELSE {}) :
       /\ copies = [d \in Dirs |-> IF job.template.local THEN Cloned(1) ELSE c]
       /\ disk = [inventory |-> FALSE, raced |-> FALSE,
                  hash |-> MCRequirements[c.head], home |-> {MCRequirements[c.head]} \ {"none"}]
  /\ holder = [d \in Dirs |-> Unlocked] /\ ex = [e \in Executors |-> Executor]
  /\ clearing = {} /\ WorkspaceStart

NoTasks ==
  /\ job = [template |-> MCTemplate("bash", "none", "none", "", FALSE),
            task |-> [e \in Executors |-> MCTask("", NoCommit, FALSE)]]
  /\ heads = <<>> /\ clearing = {} /\ budget = Budget(0, 0, 0, 0)
  /\ copies = [d \in Dirs |-> Absent] /\ holder = [d \in Dirs |-> Unlocked]
  /\ ex = [e \in Executors |-> [Executor EXCEPT !.at = "done"]]
  /\ disk = [inventory |-> FALSE, raced |-> FALSE, hash |-> "none", home |-> {}]

-----------------------------------------------------------------------------
(* One part at a time. *)
Init == \/ ScheduleInit /\ NoCall /\ NoTasks
        \/ IntegrationInit /\ NoSchedules /\ NoTasks
        \/ WorkspaceInit /\ NoSchedules /\ NoCall
Next == \/ ScheduleNext /\ UNCHANGED <<integrationVars, workspaceVars>>
        \/ IntegrationNext /\ UNCHANGED <<scheduleVars, workspaceVars>>
        \/ WorkspaceNext /\ UNCHANGED <<scheduleVars, integrationVars>>
Spec == Init /\ [][Next]_<<scheduleVars, integrationVars, workspaceVars>> /\ ScheduleFairness
=============================================================================
