------------------------------ MODULE Exporter ------------------------------
(***************************************************************************)
(* The migration of all projects from one store to another.  Each type of   *)
(* row has an exporter that loads its rows, and later restores them with    *)
(* every id replaced by the id of the copy (KeyMapper).  The exporters run  *)
(* in the order of a depth-first visit of a Go map, whose iteration order   *)
(* is arbitrary; only the types an exporter depends on come before it.      *)
(***************************************************************************)
EXTENDS Integers, Sequences, FiniteSets, SequencesExt

VARIABLES chain,      \* the types that have an exporter
          old,        \* the rows of the old store, in the order they are read
          refused,    \* keys of the users the new store refuses (their name is taken)
          stage,      \* "load", "restore", "done", or the error that ended it
          pending,    \* exporters the visit has sorted and that have not run
          ran,        \* exporters that have run in this stage
          keys,       \* <<type, scope, key>> of the rows mapped to a copy
          made,       \* the rows created: <<type, scope, key, references kept>>
          errs        \* <<type, scope, key>> of the rows an error was logged for

migrateVars == <<chain, old, refused, stage, pending, ran, keys, made, errs>>

GlobalScope == 0
NoRow == 0

(* An exporter: the types it is loaded and restored after, the columns whose *)
(* copy it must have (or the row fails) and those it leaves empty without.    *)

UserExporter ==
  [export |-> <<>>, import |-> <<>>, must |-> <<>>, may |-> <<>>]
ProjectExporter ==
  [export |-> <<>>, import |-> <<>>, must |-> <<>>, may |-> <<>>]
OptionExporter ==
  [export |-> <<>>, import |-> <<>>, must |-> <<>>, may |-> <<>>]
\* Mutant: views are not waited for.
TemplateExporterNoView ==
  [export |-> <<"Project">>, import |-> <<"Project", "Inventory", "Environment", "Repository">>,
   must |-> [project |-> "Project", env |-> "Environment", repo |-> "Repository"],
   may |-> [inv |-> "Inventory", view |-> "View", build |-> "Template"]]
TemplateExporter ==
  [export |-> <<"Project">>,
   import |-> <<"Project", "Inventory", "Environment", "Repository", "View">>,
   must |-> [project |-> "Project", env |-> "Environment", repo |-> "Repository"],
   may |-> [inv |-> "Inventory", view |-> "View", build |-> "Template"]]
TemplateVaultExporter ==
  [export |-> <<"Template">>, import |-> <<"Project", "Template", "AccessKey">>,
   must |-> [project |-> "Project", tpl |-> "Template"], may |-> [akey |-> "AccessKey"]]
TemplateRoleExporter ==
  [export |-> <<"Template", "Project">>, import |-> <<"Role", "Template", "Project">>,
   must |-> [role |-> "Role", tpl |-> "Template", project |-> "Project"], may |-> <<>>]
AccessKeyExporter ==
  [export |-> <<"Project">>, import |-> <<"User", "Project", "SecretStorage", "Environment">>,
   must |-> <<>>,
   may |-> [project |-> "Project", env |-> "Environment", storage |-> "SecretStorage", source |-> "SecretStorage", user |-> "User"]]
EnvironmentExporter ==
  [export |-> <<"Project">>, import |-> <<"Project", "SecretStorage">>,
   must |-> [project |-> "Project"], may |-> [storage |-> "SecretStorage"]]
RepositoryExporter ==
  [export |-> <<"Project">>, import |-> <<"Project", "AccessKey">>,
   must |-> [project |-> "Project", akey |-> "AccessKey"], may |-> <<>>]
SecretStorageExporter ==
  [export |-> <<"Project">>, import |-> <<"Project">>, must |-> [project |-> "Project"],
   may |-> <<>>]
InventoryExporter ==
  [export |-> <<"Project">>, import |-> <<"Project", "AccessKey", "Repository">>,
   must |-> [project |-> "Project"],
   may |-> [akey |-> "AccessKey", become |-> "AccessKey", repo |-> "Repository"]]
ViewExporter ==
  [export |-> <<"Project">>, import |-> <<"Project">>, must |-> [project |-> "Project"],
   may |-> <<>>]
RoleExporter ==
  [export |-> <<"Project">>, import |-> <<"Project">>, must |-> <<>>,
   may |-> [project |-> "Project"]]
ScheduleExporter ==
  [export |-> <<"Project">>, import |-> <<"Repository", "Project", "Inventory", "Template">>,
   must |-> [project |-> "Project", tpl |-> "Template"],
   may |-> [inv |-> "Inventory", repo |-> "Repository"]]
ProjectUserExporter ==
  [export |-> <<"User", "Project">>, import |-> <<"User", "Project">>,
   must |-> [project |-> "Project", user |-> "User"], may |-> <<>>]
IntegrationExporter ==
  [export |-> <<"Project">>,
   import |-> <<"Project", "SecretStorage", "Template", "Inventory", "AccessKey">>,
   must |-> [project |-> "Project", tpl |-> "Template"],
   may |-> [inv |-> "Inventory", akey |-> "AccessKey"]]
IntegrationExtractValueExporter ==
  [export |-> <<"Project", "Integration">>, import |-> <<"Project", "Integration">>,
   must |-> [integ |-> "Integration"], may |-> <<>>]
IntegrationMatcherExporter ==
  [export |-> <<"Project", "Integration">>, import |-> <<"Project", "Integration">>,
   must |-> [integ |-> "Integration"], may |-> <<>>]
IntegrationAliasExporter ==
  [export |-> <<"Project", "Integration">>, import |-> <<"Project", "Integration">>,
   must |-> [project |-> "Project"], may |-> [integ |-> "Integration"]]
TaskExporter ==
  [export |-> <<"Project">>,
   import |-> <<"Project", "Template", "Inventory", "Integration", "Schedule", "User">>,
   must |-> [project |-> "Project", tpl |-> "Template"],
   may |-> [inv |-> "Inventory", sched |-> "Schedule", user |-> "User", integ |-> "Integration", build |-> "Task"]]
\* The stage of a line of output is left empty: stages are not migrated.
TaskOutputExporter ==
  [export |-> <<"Task">>, import |-> <<"Task", "TaskStage">>, must |-> [task |-> "Task"],
   may |-> <<>>]
EventExporter ==
  [export |-> <<"Project", "User">>,
   import |-> <<"Project", "User", "Integration", "AccessKey", "Schedule", "Environment", "Template", "Task", "Inventory", "Repository", "View">>,
   must |-> <<>>,
   may |-> [project |-> "Project", user |-> "User", integ |-> "Integration", tpl |-> "Template", task |-> "Task", matcher |-> "IntegrationMatcher"]]
RunnerExporter ==
  [export |-> <<"Project">>, import |-> <<"Project">>, must |-> <<>>,
   may |-> [project |-> "Project"]]

(* InitProjectExporters *)
Exporters ==
  [User |-> UserExporter, Project |-> ProjectExporter, Option |-> OptionExporter,
   Template |-> TemplateExporter, TemplateVault |-> TemplateVaultExporter,
   TemplateRole |-> TemplateRoleExporter, AccessKey |-> AccessKeyExporter,
   Environment |-> EnvironmentExporter, Repository |-> RepositoryExporter,
   SecretStorage |-> SecretStorageExporter, Inventory |-> InventoryExporter,
   View |-> ViewExporter, Role |-> RoleExporter, Schedule |-> ScheduleExporter,
   ProjectUser |-> ProjectUserExporter, Integration |-> IntegrationExporter,
   IntegrationExtractValue |-> IntegrationExtractValueExporter,
   IntegrationMatcher |-> IntegrationMatcherExporter,
   IntegrationAlias |-> IntegrationAliasExporter, Task |-> TaskExporter,
   TaskOutput |-> TaskOutputExporter, Event |-> EventExporter, Runner |-> RunnerExporter]

Depends(t) == IF stage = "load" THEN Exporters[t].export ELSE Exporters[t].import

(* Types some exporter depends on: their keys are checked when they are loaded. *)
getUniqueKeys == UNION {Range(Exporters[t].import) : t \in chain}

-----------------------------------------------------------------------------
(* The order: a visit of the map, from whichever type the iteration gives.   *)

RECURSIVE visit(_, _)
visit(t, done) ==
  IF t \in Range(done) \/ t \in ran \/ t \notin chain THEN done
  ELSE Append(FoldLeft(LAMBDA acc, dep : visit(dep, acc), done, Depends(t)), t)

getSortedKeys(t) ==
  /\ stage \in {"load", "restore"} /\ pending = <<>>
  /\ t \in chain \ ran
  /\ pending' = visit(t, <<>>)
  /\ UNCHANGED <<chain, old, refused, stage, ran, keys, made, errs>>

-----------------------------------------------------------------------------
(* Loading. *)

RowsOf(t) == SelectSeq(old, LAMBDA r : r.type = t)
Key(r) == <<r.type, r.scope, r.key>>

(* The types whose loaded keys an exporter asks for. *)
Parents ==
  [t \in DOMAIN Exporters |->
     CASE t \in {"User", "Project", "Option", "Event", "Runner"} -> {}
       [] t \in {"TemplateVault", "TemplateRole"} -> {"Project", "Template"}
       [] t \in {"IntegrationMatcher", "IntegrationExtractValue", "IntegrationAlias"} -> {"Project", "Integration"}
       [] t = "TaskOutput" -> {"Project", "Task"}
       [] OTHER -> {"Project"}]

(* The scope and the key, one behind the other, as decimal numbers. *)
Digits(n) == IF n < 10 THEN <<n>> ELSE <<n \div 10, n % 10>>
keyScope(r) == (IF r.scope = GlobalScope THEN <<>> ELSE Digits(r.scope)) \o Digits(r.key)
HasDuplicate(t) ==
  LET rs == RowsOf(t)
  IN t \in getUniqueKeys /\ \E m, n \in DOMAIN rs : m < n /\ keyScope(rs[m]) = keyScope(rs[n])

LoadType(t) ==
  /\ stage = "load" /\ pending # <<>> /\ t = Head(pending)
  /\ ran' = ran \union {t}
  /\ pending' = Tail(pending)
  /\ stage' = CASE ~(Parents[t] \intersect chain \subseteq ran) -> "unloaded"
                [] HasDuplicate(t) -> "duplicate"
                [] OTHER -> "load"
  /\ UNCHANGED <<chain, old, refused, keys, made, errs>>

Loaded ==
  /\ stage = "load" /\ ran = chain
  /\ stage' = "restore" /\ ran' = {}
  /\ UNCHANGED <<chain, old, refused, pending, keys, made, errs>>

-----------------------------------------------------------------------------
(* Restoring. *)

Must(r) == Exporters[r.type].must
May(r) == Exporters[r.type].may

(* Projects and users are mapped without a scope; a key's user is looked for *)
(* in the scope of the key all the same.                                     *)
ScopeOf(r, f, t) == IF t = "Project" \/ (t = "User" /\ r.type # "AccessKey") THEN GlobalScope ELSE r.scope
Ref(r, f) == IF f \in DOMAIN r.ref THEN r.ref[f] ELSE NoRow
Target(r, f, t) == <<t, ScopeOf(r, f, t), Ref(r, f)>>

getNewKeyInt(ks, r, f) == Target(r, f, Must(r)[f]) \in ks
getNewKeyIntRef(ks, r, f) == Target(r, f, May(r)[f]) \in ks

(* A task keeps the number of its runner, of which nothing is known in the   *)
(* new store; there runners are numbered as they are restored.               *)
RunnerKnown(r, ms) ==
  Ref(r, "runner") = NoRow \/ Ref(r, "runner") \in 1..Cardinality({c \in ms : c[1][1] = "Runner"})

(* What the new store refuses: matchers and extracted values, created for       *)
(* project 0; an inventory of a template, whose column still has the old id; an Ansible    *)
(* template left without inventory.                                          *)
CreateFails(r, kept) ==
  \/ r.type \in {"IntegrationMatcher", "IntegrationExtractValue"}
  \/ r.type = "Inventory" /\ Ref(r, "template") # NoRow
  \/ r.type = "Template" /\ r.app = "ansible" /\ "inv" \notin kept

restoreValue(acc, r) ==
  LET ok   == \A f \in DOMAIN Must(r) : getNewKeyInt(acc.keys, r, f)
      used == {f \in DOMAIN May(r) : Ref(r, f) # NoRow}
      kept == {f \in used : getNewKeyIntRef(acc.keys, r, f)}
      done == ok /\ ~CreateFails(r, kept) /\ RunnerKnown(r, acc.made)
  IN [keys |-> IF done THEN acc.keys \union {Key(r)} ELSE acc.keys,
      made |-> IF done THEN acc.made \union {<<Key(r), kept>>} ELSE acc.made,
      errs |-> IF done /\ kept = used THEN acc.errs ELSE acc.errs \union {Key(r)}]

(* The first user that is refused ends the migration; so does the first      *)
(* output whose task has no copy, before any of its batch is stored.         *)
EndsMigration(r) ==
  \/ r.type = "User" /\ r.key \in refused
  \/ r.type = "TaskOutput" /\ ~getNewKeyInt(keys, r, "task")
Aborts(t) == \E n \in DOMAIN RowsOf(t) : EndsMigration(RowsOf(t)[n])

Restorable(t) ==
  LET rs == RowsOf(t)
      first == CHOOSE n \in DOMAIN rs : EndsMigration(rs[n]) /\ \A m \in 1..(n - 1) : ~EndsMigration(rs[m])
  IN IF ~Aborts(t) THEN rs ELSE IF t = "User" THEN SubSeq(rs, 1, first - 1) ELSE <<>>

RestoreType(t) ==
  /\ stage = "restore" /\ pending # <<>> /\ t = Head(pending)
  /\ ran' = ran \union {t}
  /\ pending' = Tail(pending)
  /\ stage' = IF Aborts(t) THEN "aborted" ELSE stage
  /\ LET acc == FoldLeft(restoreValue, [keys |-> keys, made |-> made, errs |-> errs], Restorable(t))
     IN keys' = acc.keys /\ made' = acc.made /\ errs' = acc.errs
  /\ UNCHANGED <<chain, old, refused>>

Restored ==
  /\ stage = "restore" /\ ran = chain
  /\ stage' = "done"
  /\ UNCHANGED <<chain, old, refused, pending, ran, keys, made, errs>>

MigrateEnded == stage \notin {"load", "restore"} /\ UNCHANGED migrateVars

MigrateNext ==
  \/ \E t \in chain : getSortedKeys(t) \/ LoadType(t) \/ RestoreType(t)
  \/ Loaded \/ Restored \/ MigrateEnded

-----------------------------------------------------------------------------
(* Properties. *)

(* No type is loaded before the types whose keys it asks for (Exporter.go   *)
(* getLoadedKeys: "values not loaded"), whatever order the map gives.       *)
LoadReady == stage # "unloaded"

OldSet == {r \in Range(old) : r.type \in chain}
OldRow(t, s, k) == {r \in OldSet : Key(r) = <<t, s, k>>}
LaterOf(r, f) == Ref(r, f) >= r.key      \* rows of a type are restored in the order of their keys

(* The columns a row keeps when the rows S survive: a template's build       *)
(* template and a task's build task only when it comes before.               *)
KeptFrom(r, S) ==
  {f \in DOMAIN May(r) :
     /\ Ref(r, f) # NoRow /\ ~(r.type = "AccessKey" /\ f = "user") /\ f # "matcher"
     /\ May(r)[f] = r.type => ~LaterOf(r, f)
     /\ OldRow(May(r)[f], ScopeOf(r, f, May(r)[f]), Ref(r, f)) \intersect S # {}}
OnRunner(r) == r.type = "Task" /\ Ref(r, "runner") # NoRow
Made == {c[1] : c \in made}
Survives(r, S) ==
  /\ OnRunner(r) => Key(r) \in Made
  /\ \A f \in DOMAIN Must(r) :
       OldRow(Must(r)[f], ScopeOf(r, f, Must(r)[f]), Ref(r, f)) \intersect S # {}
  /\ ~CreateFails(r, KeptFrom(r, S))
Depth == 6       \* the longest chain of rows that depend on each other
Survivors ==
  LET S[n \in 0..Depth] == IF n = 0 THEN OldSet ELSE LET T == S[n - 1] IN {r \in T : Survives(r, T)}
  IN S[Depth]

(* What a finished migration has created depends on the order the Go map    *)
(* gave its exporters only by the tasks of runners, which may come before   *)
(* their runners: given which of those tasks were created, it is the rows   *)
(* whose required rows survive, each with every reference to a row that     *)
(* survives.  Without runners the order decides nothing.                    *)
OrderIndependent ==
  stage = "done" => made = {<<Key(r), KeptFrom(r, Survivors)>> : r \in Survivors}

(* Nothing is lost without a message: a row that has no copy, or whose copy *)
(* lacks a reference, is among the errors of its type (but for the stages   *)
(* of the outputs), and a migration only stops half-way when a user is      *)
(* refused or a task whose output is to be copied was lost.                 *)
LossReported ==
  /\ stage = "done" =>
       \A r \in OldSet : Key(r) \in errs \/ \E c \in made : c[1] = Key(r)
         /\ c[2] = {f \in DOMAIN May(r) : Ref(r, f) # NoRow}
  /\ stage = "aborted" =>
       \E r \in OldSet : EndsMigration(r) /\ (r.type = "TaskOutput" => \E k \in errs : k[1] = "Task")

(* The order of the map decides about tasks of runners only, and a migration *)
(* does not lose silently.                                                  *)
Migrated == LoadReady /\ OrderIndependent /\ LossReported
=============================================================================
