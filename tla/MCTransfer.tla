----------------------------- MODULE MCTransfer -----------------------------
EXTENDS Backup, Exporter

(* A project of every table, with equal names and deploy chains. *)

N(n) == [name |-> <<n>>, type |-> ""]
Tpl(n, deploy) == [name |-> <<n>>, type |-> IF deploy THEN "deploy" ELSE ""]

(* Rows 1-2 storages, 3-4 keys, 5 environment, 6 view, 7-8 repositories,     *)
(* 9 inventory, 10-12 templates, 13 tplenv, 14 vault, 15 parameters,         *)
(* 16 schedule, 17 integration, 18 matcher, 19 alias.                        *)
Project(same, types, build) ==
  LET Second(k) == IF k \in same THEN N(1) ELSE N(2)
  IN [rows |-> <<
       Row("storage", 0, <<>>, N(1)), Row("storage", 0, <<>>, Second("storage")),
       Row("key", 0, [storage |-> 2], N(1)), Row("key", 0, [source |-> 1], Second("key")),
       Row("env", 0, <<>>, N(1)), Row("view", 0, <<>>, N(1)),
       Row("repo", 0, [key |-> 4], N(1)), Row("repo", 0, [key |-> 3], Second("repo")),
       Row("inv", 0, [key |-> 3, become |-> 4], N(1)),
       Row("tpl", 0, [inv |-> 9, repo |-> 8, view |-> 6, build |-> build[10]], Tpl(1, 10 \in types)),
       Row("tpl", 0, [repo |-> 7, build |-> build[11]], IF "tpl" \in same THEN Tpl(1, 11 \in types) ELSE Tpl(2, 11 \in types)),
       Row("tpl", 0, [repo |-> 8, build |-> build[12]], Tpl(3, 12 \in types)),
       Row("tplenv", 0, [tpl |-> 10, env |-> 5], N(1)), Row("vault", 0, [tpl |-> 11, key |-> 4], N(1)),
       Row("params", 0, [inv |-> 9], N(1)), Row("sched", 0, [tpl |-> 11, repo |-> 8, params |-> 15], N(1)),
       Row("integ", 0, [tpl |-> 12, secret |-> 4], N(1)), Row("matcher", 0, [integ |-> 17], N(1)),
       Row("alias", 0, [integ |-> 17], N(1))>>, next |-> 20]

Builds(types) == {b \in [10..12 -> {None} \union 10..12] :
                    \A t \in 10..12 : b[t] # t /\ (t \notin types => b[t] \in {None, 10})}

BackupInit ==
  /\ \/ /\ edits = -1
        /\ \E same \in SUBSET {"storage", "key", "repo", "tpl"}, types \in SUBSET (10..12) :
             \E b \in Builds(types) : live = Project(same, types, b)
     \/ /\ edits = 0
        /\ live = Project({"key", "repo", "tpl"}, {11}, [t \in 10..12 |-> IF t = 11 THEN 10 ELSE None])
  /\ target \in {"same", "other"}
  /\ phase = "load" /\ at = 1
  /\ loaded = Nothing /\ file = Nothing /\ copy = Nothing

-----------------------------------------------------------------------------
(* Two projects; the second store has an inventory made for a template. *)

O(t, s, k, ref) == [type |-> t, scope |-> s, key |-> k, ref |-> ref, app |-> ""]
Ansible(s, k, ref) == [O("Template", s, k, ref) EXCEPT !.app = "ansible"]

OldProjects(first, second) == <<
  O("User", 0, 1, <<>>), O("User", 0, 2, <<>>), O("Project", 0, first, <<>>), O("Project", 0, second, <<>>), O("Option", 0, 1, <<>>),
  O("ProjectUser", first, 1, [project |-> first, user |-> 1]),
  O("SecretStorage", first, 1, [project |-> first]),
  O("Environment", first, 1, [project |-> first, storage |-> 1]),
  O("AccessKey", first, 1, [project |-> first, env |-> 1, storage |-> 1]),
  O("AccessKey", second, 2, [project |-> second, user |-> 1]),
  O("AccessKey", first, 12, [project |-> first]),
  O("Repository", first, 1, [project |-> first, akey |-> 1]),
  O("Repository", second, 2, [project |-> second, akey |-> 2]),
  O("View", first, 1, [project |-> first]),
  O("Inventory", first, 1, [project |-> first, akey |-> 12, repo |-> 1]),
  Ansible(first, 1, [project |-> first, env |-> 1, repo |-> 1, inv |-> 1, view |-> 1]),
  O("Template", first, 2, [project |-> first, env |-> 1, repo |-> 1, build |-> 1]),
  O("Template", first, 3, [project |-> first, env |-> 1, repo |-> 1, build |-> 4]),
  O("Template", first, 4, [project |-> first, env |-> 1, repo |-> 1]),
  O("TemplateVault", first, 1, [project |-> first, tpl |-> 2, akey |-> 12]),
  O("Schedule", first, 1, [project |-> first, tpl |-> 1, repo |-> 1, inv |-> 1]),
  O("Integration", first, 1, [project |-> first, tpl |-> 2, akey |-> 1]),
  O("IntegrationMatcher", first, 1, [integ |-> 1]),
  O("IntegrationAlias", first, 1, [project |-> first, integ |-> 1]),
  O("Task", first, 1, [project |-> first, tpl |-> 1, inv |-> 1, sched |-> 1, user |-> 1]),
  O("Task", first, 2, [project |-> first, tpl |-> 2, integ |-> 1, build |-> 1]),
  O("TaskOutput", first, 1, [task |-> 2]),
  O("Event", first, 1, [project |-> first, user |-> 1, integ |-> 1, task |-> 2]),
  O("Event", first, 2, [project |-> first, matcher |-> 1]),
  O("Runner", 0, 1, [project |-> second]),
  O("Role", first, 1, [project |-> first]), O("Role", 0, 2, <<>>),
  O("TemplateRole", first, 1, [project |-> first, tpl |-> 1, role |-> 1]),
  O("TemplateRole", first, 2, [project |-> first, tpl |-> 1, role |-> 2]),
  O("IntegrationExtractValue", first, 1, [integ |-> 1])>>

Workspace == <<
  O("Inventory", 2, 2, [project |-> 2, template |-> 5]),
  Ansible(2, 5, [project |-> 2, env |-> 1, repo |-> 2, inv |-> 2]),
  O("Task", 2, 3, [project |-> 2, tpl |-> 5]), O("TaskOutput", 2, 2, [task |-> 3])>>

(* Tasks of runners: one of runner 1, one of a runner that has number 2 in   *)
(* the new store or none, and what depends on them.                          *)
OnRunners == <<
  O("Runner", 0, 3, <<>>),
  O("Task", 1, 4, [project |-> 1, tpl |-> 1, runner |-> 1]), O("Task", 1, 5, [project |-> 1, tpl |-> 1, runner |-> 2]),
  O("Task", 1, 6, [project |-> 1, tpl |-> 2, build |-> 4, runner |-> 3]), O("Task", 1, 7, [project |-> 1, tpl |-> 2, build |-> 5])>>

(* All types but a few in each chain: the visits of the whole map are too many. *)
Chains ==
  {{"User", "Project", "SecretStorage", "Environment", "AccessKey", "Repository", "View", "Inventory",
    "Template", "TemplateVault", "Schedule", "Integration", "IntegrationMatcher", "IntegrationAlias",
    "Task", "TaskOutput", "Event"},
   {"User", "Project", "SecretStorage", "Environment", "AccessKey", "Repository", "View", "Inventory",
    "Template", "TemplateRole", "Integration", "IntegrationExtractValue", "ProjectUser", "Option", "Role", "Runner"}}

(* One chain has tasks and runners. *)
RunnerChain ==
  {"User", "Project", "Environment", "AccessKey", "Repository", "Inventory", "View", "Template", "Task",
   "TaskOutput", "Runner"}

MigrateInit ==
  /\ \/ chain \in Chains /\ old \in {OldProjects(1, 2), OldProjects(1, 2) \o Workspace}
     \/ /\ chain = RunnerChain
        /\ old \in {OldProjects(1, 2) \o OnRunners,
                   OldProjects(1, 2) \o OnRunners \o <<O("TaskOutput", 1, 3, [task |-> 4])>>}
  /\ refused \in {{}, {2}}
  /\ stage = "load" /\ pending = <<>> /\ ran = {} /\ keys = {} /\ made = {} /\ errs = {}

(* One transfer at a time. *)
NoBackup ==
  /\ live = [rows |-> <<>>, next |-> 1] /\ target = "same" /\ edits = -1 /\ phase = "done" /\ at = 1
  /\ loaded = Nothing /\ file = Nothing /\ copy = Nothing
NoMigration ==
  /\ chain = {} /\ old = <<>> /\ refused = {} /\ stage = "done"
  /\ pending = <<>> /\ ran = {} /\ keys = {} /\ made = {} /\ errs = {}

Init == (BackupInit /\ NoMigration) \/ (MigrateInit /\ NoBackup)
Next == (BackupNext /\ UNCHANGED migrateVars) \/ (MigrateNext /\ UNCHANGED backupVars)
Spec == Init /\ [][Next]_<<backupVars, migrateVars>>

=============================================================================
