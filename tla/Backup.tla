------------------------------- MODULE Backup -------------------------------
(***************************************************************************)
(* The backup of a project and its restore.  A backup reads the tables one  *)
(* after the other, without a transaction, while other requests edit them;  *)
(* it makes the names of each table unique, replaces every id by the name   *)
(* of the row it stands for, and drops the columns marked backup:"-".  A    *)
(* restore creates a new project table by table and finds the rows it       *)
(* refers to by their names.                                                *)
(***************************************************************************)
EXTENDS Tables, Sequences, SequencesExt

CONSTANTS MaxEdits       \* bound on the edits made while the tables are read

ASSUME BackupAssumption == MaxEdits \in Nat

VARIABLES live,      \* the project that is backed up, as tables
          phase,     \* "load", "verify", "restore", and how it ended
          at,        \* the next table of the phase
          loaded,    \* table -> the rows read from it, in order
          file,      \* table -> the entries of the backup
          target,    \* restored on the "same" server, under another name, or on an "other"
          copy,      \* table -> the rows created by the restore, in order
          edits      \* edits made during the load; -1 when nobody edits

backupVars == <<live, phase, at, loaded, file, target, copy, edits>>

NoName == <<>>

LoadOrder == <<"tpl", "tplenv", "vault", "repo", "key", "view", "inv", "env",
               "sched", "storage", "alias", "integ", "matcher">>

Tabled == Range(LoadOrder)
Nothing == [k \in Tabled |-> <<>>]

-----------------------------------------------------------------------------
(* Reading a table: its rows ordered by name, the inventory of a schedule or *)
(* an integration taken from its parameters.                                 *)

WithInventory(s, r) ==
  IF "params" \notin DOMAIN r.ref THEN r.ref
  ELSE [inv |-> IF r.ref.params = None THEN None ELSE s.rows[r.ref.params].ref.inv] @@ r.ref

GetAll(s, k) ==
  LET Before(i, j) == \/ s.rows[i].data.name[1] < s.rows[j].data.name[1]
                      \/ s.rows[i].data.name[1] = s.rows[j].data.name[1] /\ i < j
      ids == SetToSortSeq(Of(s, k), Before)
  IN [n \in DOMAIN ids |-> [id |-> ids[n], name |-> s.rows[ids[n]].data.name,
                            type |-> s.rows[ids[n]].data.type,
                            ref |-> WithInventory(s, s.rows[ids[n]])]]

Ids(rs) == {rs[n].id : n \in DOMAIN rs}

(* The rows of a join table are read for the templates that were read, the  *)
(* matchers for the integrations.                                           *)
Owner == [tplenv |-> "tpl", vault |-> "tpl", matcher |-> "integ"]
ReadTable(s, k) ==
  IF k \in DOMAIN Owner
  THEN SelectSeq(GetAll(s, k), LAMBDA r : r.ref[Owner[k]] \in Ids(loaded[Owner[k]]))
  ELSE GetAll(s, k)

Load ==
  /\ phase = "load" /\ at <= Len(LoadOrder)
  /\ loaded' = [loaded EXCEPT ![LoadOrder[at]] = ReadTable(live, LoadOrder[at])]
  /\ at' = at + 1
  /\ UNCHANGED <<live, phase, file, target, copy, edits>>

-----------------------------------------------------------------------------
(* The other requests of the project. *)

Edit ==
  /\ phase = "load" /\ at > 1 /\ edits \in 0..MaxEdits - 1
  /\ edits' = edits + 1
  /\ UNCHANGED <<phase, at, loaded, file, target, copy>>

RemoveRow(i) == Edit /\ ~InUse(live, {i}) /\ live' = delete(live, {i})

LinkTo(i, f, j) ==
  Edit /\ live.rows[i].ref[f] \notin {None, j} /\ live' = update(live, i, [live.rows[i] EXCEPT !.ref[f] = j])

(* A template, with a schedule of its own. *)
AddTemplate(like) ==
  LET s1 == insert(live, live.rows[like])
  IN Edit /\ live' = insert(s1, Row("sched", 0, [tpl |-> live.next], [name |-> <<1>>, type |-> ""]))

Other ==
  \/ \E i \in UNION {Of(live, k) : k \in {"tpl", "repo", "key", "view", "env", "storage"}} : RemoveRow(i)
  \/ \E i \in Of(live, "tpl"), j \in Of(live, "repo") : LinkTo(i, "repo", j)
  \/ \E i \in Of(live, "repo"), j \in Of(live, "key") : LinkTo(i, "key", j)
  \/ \E i \in Of(live, "tpl") : AddTemplate(i)

-----------------------------------------------------------------------------
(* From ids to names. *)

\* Mutant: names are taken as they are.
makeNoNamesUnique(rs) == rs

(* A row whose name an earlier row has gets a random suffix, here its place. *)
makeUniqueNames(rs) ==
  [n \in DOMAIN rs |->
     IF \E m \in 1..n - 1 : rs[m].name = rs[n].name
     THEN [rs[n] EXCEPT !.name = @ \o <<n>>] ELSE rs[n]]

Uniquely == {"tpl", "repo", "inv", "env", "key", "view", "integ", "sched"}
Named(l) == [k \in Tabled |-> IF k \in Uniquely THEN makeUniqueNames(l[k]) ELSE l[k]]

findNameByID(id, rs) ==
  LET hits == {n \in DOMAIN rs : rs[n].id = id}
  IN IF hits = {} THEN NoName ELSE rs[CHOOSE n \in hits : \A m \in hits : n <= m].name

findEntityByName(name, rs) ==
  LET hits == {n \in DOMAIN rs : rs[n].name = name}
  IN IF name = NoName \/ hits = {} THEN None ELSE rs[CHOOSE n \in hits : \A m \in hits : n <= m].id

(* The columns a backup keeps as names, and the table each one names; the    *)
(* others (an inventory's template and repository, a key's environment) are  *)
(* marked backup:"-" and are not written.                                    *)
Kept ==
  [storage |-> <<>>, env |-> <<>>, view |-> <<>>,
   key |-> [storage |-> "storage", source |-> "storage"],
   repo |-> [key |-> "key"], inv |-> [key |-> "key", become |-> "key"],
   tpl |-> [inv |-> "inv", repo |-> "repo", build |-> "tpl", view |-> "view"],
   tplenv |-> [tpl |-> "tpl", env |-> "env"], vault |-> [tpl |-> "tpl", key |-> "key"],
   integ |-> [tpl |-> "tpl", secret |-> "key", inv |-> "inv"],
   sched |-> [tpl |-> "tpl", repo |-> "repo", inv |-> "inv"],
   alias |-> [integ |-> "integ"], matcher |-> [integ |-> "integ"]]

(* A schedule or an integration without its template leaves an empty entry. *)
EntryOf(l, k, r) ==
  LET e == [id |-> r.id, name |-> r.name, type |-> r.type,
            ref |-> [f \in DOMAIN Kept[k] |-> findNameByID(r.ref[f], l[Kept[k][f]])]]
  IN IF k \in {"sched", "integ"} /\ e.ref.tpl = NoName
     THEN [e EXCEPT !.name = NoName, !.ref = [f \in DOMAIN @ |-> NoName]] ELSE e

format(l) ==
  [k \in Tabled |->
     LET es == [n \in DOMAIN l[k] |-> EntryOf(l, k, l[k][n])]
     IN IF k = "tplenv" THEN SelectSeq(es, LAMBDA e : e.ref.env # NoName) ELSE es]

(* The file has the columns that have a value; reading it back leaves the   *)
(* others empty.                                                            *)
Marshal(b) ==
  [k \in Tabled |-> [n \in DOMAIN b[k] |->
     [b[k][n] EXCEPT !.ref = [f \in {f \in DOMAIN @ : @[f] # NoName} |-> @[f]]]]]
Unmarshal(text) ==
  [k \in Tabled |-> [n \in DOMAIN text[k] |->
     [text[k][n] EXCEPT !.ref = [f \in DOMAIN Kept[k] |-> IF f \in DOMAIN @ THEN @[f] ELSE NoName]]]]

(* Writing a template's entry dereferences the name of its repository. *)
Dangles(b) == \E n \in DOMAIN b.tpl : b.tpl[n].ref.repo = NoName

GetBackup ==
  /\ phase = "load" /\ at > Len(LoadOrder)
  /\ LET b == format(Named(loaded))
     IN IF Dangles(b) THEN phase' = "panic" /\ UNCHANGED file
        ELSE phase' = "verify" /\ file' = Unmarshal(Marshal(b))
  /\ at' = 1
  /\ UNCHANGED <<live, loaded, target, copy, edits>>

-----------------------------------------------------------------------------
(* Checking the file, and creating the project from it. *)

verifyDuplicate(name, es) == Cardinality({n \in DOMAIN es : es[n].name = name}) <= 2

(* The names of an entry that must be in the file. *)
Checks == [inv |-> {"key", "become"}, repo |-> {"key"}, tpl |-> {"repo", "inv", "view"}, vault |-> {"key"}]

Verified(b) ==
  LET Known(name, k) == name = NoName \/ findEntityByName(name, b[k]) # None
  IN /\ \A k \in {"env", "view", "sched", "key", "repo", "inv", "storage", "tpl"} :
          \A n \in DOMAIN b[k] : verifyDuplicate(b[k][n].name, b[k])
     /\ \A k \in DOMAIN Checks : \A n \in DOMAIN b[k], f \in Checks[k] : Known(b[k][n].ref[f], Kept[k][f])
     /\ \A n \in DOMAIN b.tpl : b.tpl[n].type = "deploy" => findEntityByName(b.tpl[n].ref.build, b.tpl) # None

Verify ==
  /\ phase = "verify"
  /\ phase' = IF Verified(file) THEN "restore" ELSE "refused"
  /\ UNCHANGED <<live, at, loaded, file, target, copy, edits>>

\* Mutant: templates in the order of the file, deploy templates too.
RestoreOrderAsListed ==
  <<"storage", "env", "view", "key", "repo", "inv", "alltpl", "integ", "alias", "sched">>

RestoreOrder ==
  <<"storage", "env", "view", "key", "repo", "inv", "tpl", "deploy", "integ", "alias", "sched">>

Entries(step) ==
  CASE step = "alltpl" -> file.tpl
    [] step = "tpl" -> SelectSeq(file.tpl, LAMBDA e : e.type # "deploy")
    [] step = "deploy" -> SelectSeq(file.tpl, LAMBDA e : e.type = "deploy")
    [] OTHER -> file[step]
TableOf(step) == IF step \in {"deploy", "alltpl"} THEN "tpl" ELSE step

(* What a name that is not found does: the columns that stop the restore, ... *)
Stops == [key |-> {"storage", "source"}, repo |-> {"key"}, inv |-> {}, tpl |-> {"inv", "repo"},
          integ |-> {"tpl"}, sched |-> {"tpl", "repo"}, tplenv |-> {"env"}, vault |-> {"key"},
          storage |-> {}, env |-> {}, view |-> {}, alias |-> {}, matcher |-> {}]
(* ... of them the ones that need a name. *)
Needs == [repo |-> {"key"}, tpl |-> {"repo"}, integ |-> {"tpl"}, sched |-> {"tpl"}]

Found(c, k, e) ==
  [f \in DOMAIN Kept[k] |->
     IF k = "tpl" /\ f = "build" /\ e.type # "deploy" THEN None
     ELSE findEntityByName(e.ref[f], c[Kept[k][f]])]

Fails(k, e, found) ==
  \E f \in Stops[k] : found[f] = None /\ (e.ref[f] # NoName \/ (k \in DOMAIN Needs /\ f \in Needs[k]))

(* An alias is unique over the server: where the original has it, the copy  *)
(* is not created and nothing is said.                                      *)
CreateIntegrationAliasFails(k, e) ==
  k = "alias" /\ target = "same" /\ \E i \in Of(live, k) : live.rows[i].data.name = e.name

RestoreEntry(r, k, e) ==
  LET found == Found(r.copy, k, e)
  IN IF ~r.ok \/ CreateIntegrationAliasFails(k, e) THEN r
     ELSE IF Fails(k, e, found) THEN [r EXCEPT !.ok = FALSE]
     ELSE [r EXCEPT !.copy[k] = Append(@, [id |-> e.id, name |-> e.name, type |-> e.type, ref |-> found])]

RestoreAll(r, k, es) == FoldLeft(LAMBDA acc, e : RestoreEntry(acc, k, e), r, es)

(* An entry is followed by the rows that belong to it. *)
Belonging(k, e) == SelectSeq(file[k], LAMBDA c : c.ref[Owner[k]] = e.name)
RestoreWithChildren(r, k, e) ==
  LET r1 == RestoreEntry(r, k, e)
  IN CASE k = "tpl" -> RestoreAll(RestoreAll(r1, "tplenv", Belonging("tplenv", e)), "vault", Belonging("vault", e))
       [] k = "integ" -> RestoreAll(r1, "matcher", Belonging("matcher", e))
       [] OTHER -> r1

(* One table; the store may refuse a statement, and nothing is rolled back. *)
Restore(refusal) ==
  /\ phase = "restore" /\ at <= Len(RestoreOrder)
  /\ LET k == TableOf(RestoreOrder[at])
         r == FoldLeft(LAMBDA acc, e : RestoreWithChildren(acc, k, e),
                       [copy |-> copy, ok |-> TRUE], Entries(RestoreOrder[at]))
     IN /\ copy' = r.copy
        /\ phase' = IF ~r.ok THEN "broken" ELSE IF refusal THEN "failed"
                     ELSE IF at = Len(RestoreOrder) THEN "done" ELSE phase
  /\ at' = at + 1
  /\ UNCHANGED <<live, loaded, file, target, edits>>

(* The name of a project is taken by the part of it an earlier attempt left. *)
Retry ==
  /\ phase \in {"failed", "broken"}
  /\ phase' = "exists"
  /\ UNCHANGED <<live, at, loaded, file, target, copy, edits>>

BackupEnded == phase \in {"done", "panic", "refused", "exists"} /\ UNCHANGED backupVars

BackupNext == Load \/ Other \/ GetBackup \/ Verify \/ Restore(FALSE) \/ Restore(TRUE) \/ Retry \/ BackupEnded

-----------------------------------------------------------------------------
(* Properties. *)

Phases == {"load", "verify", "restore", "done", "panic", "refused", "failed", "broken", "exists"}

(* Everything a row that was created refers to has been created before it. *)
BackupTypeOK ==
  /\ phase \in Phases
  /\ \A k \in Tabled : \A n \in DOMAIN copy[k] : \A f \in DOMAIN copy[k][n].ref :
       copy[k][n].ref[f] \in {None} \union
         Ids(IF Kept[k][f] = k THEN SubSeq(copy[k], 1, n - 1) ELSE copy[Kept[k][f]])

Read(k, id) == loaded[k][CHOOSE n \in DOMAIN loaded[k] : loaded[k][n].id = id]
SameName(k, i, j) == Read(k, i).name = Read(k, j).name

(* A restored row refers to the copy of the row its original referred to    *)
(* when it was read, or to nothing: names made unique and looked up again   *)
(* (backup.go makeUniqueNames, findNameByID, findEntityByName) never lead   *)
(* to another row, whatever was edited while the tables were read.  Secret  *)
(* storages keep equal names: there the copy is one of the same name.       *)
Faithful ==
  \A k \in Tabled : \A n \in DOMAIN copy[k] : \A f \in DOMAIN Kept[k] :
    LET now == copy[k][n].ref[f]
        was == Read(k, copy[k][n].id).ref[f]
    IN now # None => \/ now = was
                     \/ Kept[k][f] = "storage" /\ SameName("storage", now, was)

(* The build template of a deploy template is found only when it has been   *)
(* restored: any that is not a deploy template itself, or an earlier one.   *)
Lost(k, n, f) ==
  /\ k = "tpl" /\ f = "build"
  /\ \/ loaded.tpl[n].type # "deploy"
     \/ \E m \in DOMAIN loaded.tpl : loaded.tpl[m].id = loaded.tpl[n].ref.build
                                     /\ loaded.tpl[m].type = "deploy" /\ m > n

(* A backup nobody disturbed can be restored unless one of its deploy       *)
(* templates has no build template (BackupTemplate.Verify refuses it), and  *)
(* its restore brings back every row and every reference but the ones Lost  *)
(* and the aliases the original still holds.                                *)
Complete ==
  edits <= 0 =>
    /\ phase \notin {"panic", "broken"}
    /\ phase = "refused" => \E n \in DOMAIN loaded.tpl : loaded.tpl[n].type = "deploy" /\ loaded.tpl[n].ref.build = None
    /\ phase = "done" =>
         \A k \in Tabled \ {"alias"} : \A n \in DOMAIN loaded[k] : \E m \in DOMAIN copy[k] :
           /\ copy[k][m].id = loaded[k][n].id
           /\ \A f \in DOMAIN Kept[k] : \/ Lost(k, n, f)
                                       \/ (copy[k][m].ref[f] = None) = (loaded[k][n].ref[f] = None)
    /\ phase = "done" /\ target = "other" => Len(copy.alias) = Len(loaded.alias)

(* A row was read whose reference leads to no row that was read. *)
Torn == \E k \in Tabled : \E n \in DOMAIN loaded[k] : \E f \in DOMAIN Kept[k] :
          loaded[k][n].ref[f] \notin Ids(loaded[Kept[k][f]]) \union {None}

(* A backup that fails to be written (the repository of a template is       *)
(* dereferenced in format) or that passes Verify and then fails by itself   *)
(* in Restore, leaving part of a project, was torn by an edit made between  *)
(* the reading of two tables.                                               *)
TornOnly == phase \in {"panic", "broken"} => Torn

(* What Restore leaves behind: no reference to a row that is not there, a   *)
(* whole project from a whole backup, a part of one only from a torn one.   *)
RestoreSound == BackupTypeOK /\ TornOnly /\ Complete
=============================================================================
