------------------------------ MODULE Secrets ------------------------------
(***************************************************************************)
(* The access_key table and the encryption keys that protect it.           *)
(*                                                                         *)
(* Four parties work on them at once: the operator edits the keys file on  *)
(* disk; the server keeps a resolved keyset in memory, reloads it on       *)
(* SIGHUP and by polling, and encrypts what users save; the vault commands *)
(* (rekey, check, backup, rollback) run in a process of their own, with    *)
(* the keyset of the moment they started, and walk the table page by page; *)
(* and tasks store their survey secrets in the same table, as rows that    *)
(* expire.                                                                 *)
(***************************************************************************)
EXTENDS Integers, FiniteSets, FiniteSetsExt

CONSTANTS
    UserKeys,       \* ids of the access keys users manage (naturals)
    Tasks,          \* ids of tasks; the row of a task's secrets has the task's id
    Materials,      \* encryption keys in the order they come into use; keyID derives
                    \* the id from the key, so one value stands for both
    Values,         \* plaintext secrets
    Names,          \* names of access keys (naturals: pages are sorted by name)
    BatchSize,      \* RekeyBatchSize
    NoKey,          \* the empty key or key id
    NoSecret,       \* secret IS NULL
    NoRow,          \* no row with this id
    NoValue,        \* no survey secrets
    Budgets         \* bounds of a behaviour: writes of users, vault commands,
                    \* SIGHUPs and restarts, tasks, keys added to the file

Keys == UserKeys \cup Tasks

\* A stored value: the id in its envelope, the key it was encrypted with and
\* the plaintext. A legacy value has no id.
Cipher == [id : Materials \cup {NoKey}, mat : Materials, plain : Values]
Row == [name : Nat, source : {"local", "env"}, secret : Cipher \cup {NoSecret}]

ASSUME SecretsAssumption ==
    /\ UserKeys \subseteq Nat /\ Tasks \subseteq Nat /\ UserKeys \cap Tasks = {}
    /\ IsFiniteSet(UserKeys) /\ IsFiniteSet(Tasks)
    /\ Names \subseteq Nat /\ Materials \subseteq Nat /\ BatchSize \in Nat \ {0}
    /\ Materials # {} /\ Values # {}
    /\ Budgets \subseteq [writes : Nat, commands : Nat, reloads : Nat, tasks : Nat, keys : Nat]
    /\ NoKey \notin Materials /\ NoValue \notin Values /\ NoRow \notin Row /\ NoSecret \notin Cipher

VARIABLES
    disk,       \* keys file: registered materials, active access and option key
    keyset,     \* the server's resolved keyset
    pending,    \* what each reloader resolved and has not stored yet
    rows,       \* table access_key
    jwt,        \* option jwt_signing_key
    write,      \* the write of a user or of AddTask between encryption and SQL
    cli,        \* the running vault command
    verdict,    \* what the last finished vault check said
    backup,     \* file written by vault rekey --backup
    tasks,      \* survey secrets' life of every task
    budget      \* what is left of the bounds

vars == <<disk, keyset, pending, rows, jwt, write, cli, verdict, backup, tasks, budget>>

Reloaders == {"sighup", "poll"}
Nothing == [kind |-> "none"]

----------------------------------------------------------------------------
(* Keyset, encryption, decryption (util/keyring.go, keyid.go, config.go).   *)

\* resolveEncryptionKeysFrom: fails when the active pointer names no key.
Resolvable(d) == d.access \in d.reg /\ d.option \in d.reg \cup {NoKey}

Resolve(d) == [byID |-> d.reg, access |-> d.access, option |-> d.option]

\* keysetsEqual
KeysetsEqual(a, b) == a.access = b.access /\ a.option = b.option /\ a.byID = b.byID

OptionKey(ks) == IF ks.option # NoKey THEN ks.option ELSE ks.access

\* The envelope "<id>:<ciphertext>". A legacy value has no id.
Encrypt(ks, id, v) == [id |-> id, mat |-> id, plain |-> v]

\* Decryption by id, or by trial of every key for a legacy value.
Decrypts(ks, s) == (IF s.id # NoKey THEN s.id ELSE s.mat) \in ks.byID

\* DecryptAccessSecretWithKey: one explicit key, the id is ignored.
DecryptsWith(m, s) == s.mat = m

\* Mutant: every key that is not active counts as unused.
SafeToRemoveInactive(ks, seen) == ks.byID \ {ks.access, OptionKey(ks)}

\* vault check: retired keys of the keyset that no counted row names.
SafeToRemove(ks, seen) == (ks.byID \ {ks.access, OptionKey(ks)}) \ seen

----------------------------------------------------------------------------
(* The table.                                                               *)

Present == {k \in Keys : rows[k] # NoRow}
Local(r) == r # NoRow /\ r.source = "local"
Holds(r) == Local(r) /\ r.secret # NoSecret

\* The rows before row k in the order of the query: by name.
Before(k) == {j \in Present : \/ rows[j].name < rows[k].name
                              \/ rows[j].name = rows[k].name /\ j < k}
Rank(k) == Cardinality(Before(k))

\* Mutant: the offset is one page too far.
PageLate(i) == {k \in Present : (i + 1) * BatchSize <= Rank(k) /\ Rank(k) < (i + 2) * BatchSize}

\* GetAccessKeys with IgnoreOwner, ordered by name, Count and Offset.
Page(i) == {k \in Present : i * BatchSize <= Rank(k) /\ Rank(k) < (i + 1) * BatchSize}

\* What a running command may have missed: a key written, or the list of keys
\* changed, since the page was read and since the command began.
Disturb(k, moved) ==
    IF cli.cmd \notin {"rekey", "rekeyed", "check"} THEN cli
    ELSE [cli EXCEPT !.dirty = @ \cup {k}, !.touched = @ \cup {k}, !.moved = @ \/ moved]

----------------------------------------------------------------------------
(* The operator and the reload of the keyset.                               *)

AddKeyFile(m) ==
    /\ budget.keys > 0
    /\ m \notin disk.reg /\ m > disk.access        \* rotation goes forward
    /\ disk' = [disk EXCEPT !.reg = @ \cup {m}]
    /\ budget' = [budget EXCEPT !.keys = @ - 1]
    /\ UNCHANGED <<keyset, pending, rows, jwt, write, cli, verdict, backup, tasks>>

SetActive(m) ==
    /\ m \in disk.reg /\ m > disk.access
    /\ disk' = [disk EXCEPT !.access = m, !.option = IF @ = NoKey THEN NoKey ELSE m]
    /\ UNCHANGED <<keyset, pending, rows, jwt, write, cli, verdict, backup, tasks, budget>>

\* Everything that can still encrypt with m has stopped doing so.
Retired(m) ==
    /\ m \notin {disk.access, disk.option, keyset.access, keyset.option}
    /\ \A w \in Reloaders : pending[w] # Nothing =>
                               m \notin {pending[w].access, pending[w].option}
    /\ write # Nothing => write.row.secret = NoSecret \/ write.row.secret.id # m

\* Step 3 of the rotation: the last check reported the key as safe, it saw no
\* legacy value and no pending JWT key, nobody changed the list of keys while
\* it ran, and the key was out of use when it began.
RemoveKeyFile(m) ==
    /\ m \in disk.reg /\ m < disk.access /\ m \in verdict.safe
    /\ verdict.clean /\ ~verdict.moved /\ m \in verdict.retired
    /\ disk' = [disk EXCEPT !.reg = @ \ {m}]
    /\ UNCHANGED <<keyset, pending, rows, jwt, write, cli, verdict, backup, tasks, budget>>

\* reloadEncryptionKeys reads the files before it takes the lock. (A poll that
\* finds nothing new and that no other reload can overtake would change
\* nothing, and is left out.)
ReloadRead(w) ==
    /\ pending[w] = Nothing
    /\ Resolvable(disk)
    /\ budget.reloads > 0 \/ (w = "poll" /\ ~KeysetsEqual(Resolve(disk), keyset))
    /\ pending' = [pending EXCEPT ![w] = Resolve(disk)]
    /\ budget' = [budget EXCEPT !.reloads = IF w = "sighup" THEN @ - 1 ELSE @]
    /\ UNCHANGED <<disk, keyset, rows, jwt, write, cli, verdict, backup, tasks>>

\* It stores what it read under the lock; the poller only when it differs.
ReloadStore(w) ==
    /\ pending[w] # Nothing
    /\ keyset' = IF w = "poll" /\ KeysetsEqual(pending[w], keyset) THEN keyset ELSE pending[w]
    /\ pending' = [pending EXCEPT ![w] = Nothing]
    /\ UNCHANGED <<disk, rows, jwt, write, cli, verdict, backup, tasks, budget>>

Poll == ReloadRead("poll") \/ ReloadStore("poll")

\* The server dies and starts again: what was in memory is gone.
Restart ==
    /\ budget.reloads > 0
    /\ Resolvable(disk)
    /\ keyset' = Resolve(disk)
    /\ pending' = [w \in Reloaders |-> Nothing]
    /\ write' = Nothing
    /\ tasks' = [t \in Tasks |-> IF tasks[t].at \in {"created", "storing", "queued", "sent", "running", "ended"}
                                 THEN [tasks[t] EXCEPT !.at = "lost"] ELSE tasks[t]]
    /\ budget' = [budget EXCEPT !.reloads = @ - 1]
    /\ UNCHANGED <<disk, rows, jwt, cli, verdict, backup>>

----------------------------------------------------------------------------
(* Access keys of users: AccessKeyService and the SQL behind it.            *)

\* SerializeSecret, with the keyset of this moment.
Serialized(v) == Encrypt(keyset, keyset.access, v)

Spend == budget' = [budget EXCEPT !.writes = @ - 1]

CreateKey(k, n, v) ==
    /\ budget.writes > 0 /\ write = Nothing /\ rows[k] = NoRow
    /\ write' = [kind |-> "create", key |-> k,
                 row |-> [name |-> n, source |-> "local", secret |-> Serialized(v)]]
    /\ Spend
    /\ UNCHANGED <<disk, keyset, pending, rows, jwt, cli, verdict, backup, tasks>>

\* Update without OverrideSecret writes the name only.
RenameKey(k, n) ==
    /\ budget.writes > 0 /\ write = Nothing /\ rows[k] # NoRow /\ rows[k].name # n
    /\ rows' = [rows EXCEPT ![k].name = n]
    /\ cli' = Disturb(k, TRUE)
    /\ Spend
    /\ UNCHANGED <<disk, keyset, pending, jwt, write, verdict, backup, tasks>>

\* Update with OverrideSecret: a new secret, or a reference to the
\* environment of the server, which stores no ciphertext.
OverrideKey(k, source, v) ==
    /\ budget.writes > 0 /\ write = Nothing /\ rows[k] # NoRow
    /\ write' = [kind |-> "update", key |-> k,
                 row |-> [name |-> rows[k].name, source |-> source,
                          secret |-> IF source = "local" THEN Serialized(v) ELSE NoSecret]]
    /\ Spend
    /\ UNCHANGED <<disk, keyset, pending, rows, jwt, cli, verdict, backup, tasks>>

\* The insert or the update of CreateKey, OverrideKey and StoreSecret. An
\* update of a row that is gone changes nothing.
FinishWrite ==
    /\ write # Nothing
    /\ LET k == write.key
           lands == write.kind = "create" \/ rows[k] # NoRow
       IN  /\ rows' = IF lands THEN [rows EXCEPT ![k] = write.row] ELSE rows
           /\ cli' = IF lands THEN Disturb(k, write.kind = "create" \/ rows[k].name # write.row.name)
                     ELSE cli
           /\ tasks' = IF k \in Tasks THEN [tasks EXCEPT ![k].at = "queued"] ELSE tasks
    /\ write' = Nothing
    /\ UNCHANGED <<disk, keyset, pending, jwt, verdict, backup, budget>>

DeleteKey(k) ==
    /\ budget.writes > 0 /\ rows[k] # NoRow
    /\ rows' = [rows EXCEPT ![k] = NoRow]
    /\ cli' = Disturb(k, TRUE)
    /\ Spend
    /\ UNCHANGED <<disk, keyset, pending, jwt, write, verdict, backup, tasks>>

----------------------------------------------------------------------------
(* Survey secrets of a task: stored by AddTask, read at dispatch, dropped by *)
(* finishRun, swept once they have expired.                                 *)

Final == {"stopped", "success", "error"}

\* AddTask creates the row of the task; nothing else knows of the task yet.
AddTask(t, v) ==
    /\ tasks[t].at = "none" /\ budget.tasks > 0
    /\ budget' = [budget EXCEPT !.tasks = @ - 1]
    /\ tasks' = [tasks EXCEPT ![t] = [@ EXCEPT !.at = IF v = NoValue THEN "queued" ELSE "created",
                                              !.status = "waiting", !.wants = v]]
    /\ UNCHANGED <<disk, keyset, pending, rows, jwt, write, cli, verdict, backup>>

\* CreateTaskSurveySecrets; FinishWrite inserts the row and registers the task.
StoreSecret(t) ==
    /\ tasks[t].at = "created" /\ write = Nothing
    /\ write' = [kind |-> "create", key |-> t,
                 row |-> [name |-> t, source |-> "local", secret |-> Serialized(tasks[t].wants)]]
    /\ tasks' = [tasks EXCEPT ![t].at = "storing"]
    /\ UNCHANGED <<disk, keyset, pending, rows, jwt, cli, verdict, backup, budget>>

\* GetTaskSurveySecrets: no row is no secrets, an expired row and one that
\* cannot be decrypted are errors.
SurveyFails(t) ==
    rows[t] # NoRow /\ (tasks[t].expired \/ (Holds(rows[t]) /\ ~Decrypts(keyset, rows[t].secret)))

SurveySecrets(t) ==
    IF rows[t] = NoRow \/ ~Holds(rows[t]) THEN NoValue ELSE rows[t].secret.plain

\* SetStatus: a task stopped in memory stays stopped.
Sticky(t, s) == IF tasks[t].status = "stopped" THEN "stopped" ELSE s

\* A local start, or a poll of the runner: the latter is answered with the
\* job again until the runner reports that it runs. A queued task that was
\* stopped by force is claimed and started all the same; when only its row was
\* stopped (by the query of a bulk stop), run() overwrites the status.
Dispatch(t) ==
    /\ tasks[t].at = "queued" \/ (tasks[t].at = "sent" /\ tasks[t].status \notin Final)
    /\ \E over \in BOOLEAN :
         LET Status(s) == IF over THEN s ELSE Sticky(t, s)
         IN  tasks' = [tasks EXCEPT ![t] =
                IF SurveyFails(t) THEN [@ EXCEPT !.at = "ended", !.status = Status("error")]
                ELSE [@ EXCEPT !.at = "sent", !.got = SurveySecrets(t), !.status = Status("starting")]]
    /\ UNCHANGED <<disk, keyset, pending, rows, jwt, write, cli, verdict, backup, budget>>

StartRun(t) ==
    /\ tasks[t].at = "sent"
    /\ tasks' = [tasks EXCEPT ![t].at = "running", ![t].status = Sticky(t, "running")]
    /\ UNCHANGED <<disk, keyset, pending, rows, jwt, write, cli, verdict, backup, budget>>

\* A forced stop, or the query of a bulk stop, gives the row its final status;
\* the task stays where it is. early notes that its secrets were not read yet.
StopTask(t) ==
    /\ tasks[t].at \in {"queued", "sent", "running", "lost"}
    /\ tasks[t].status \notin Final
    /\ tasks' = [tasks EXCEPT ![t].status = "stopped", ![t].early = @ \/ tasks[t].at = "queued"]
    /\ UNCHANGED <<disk, keyset, pending, rows, jwt, write, cli, verdict, backup, budget>>

\* The bulk stop removes the tasks of its template from the queue.
Unqueue(t) ==
    /\ tasks[t].at = "queued"
    /\ tasks' = [tasks EXCEPT ![t].at = "lost"]
    /\ UNCHANGED <<disk, keyset, pending, rows, jwt, write, cli, verdict, backup, budget>>

\* finishRun at the end of the run: the status is saved. (A queued task that
\* was stopped gracefully ends as soon as it is claimed.)
EndRun(t) ==
    /\ tasks[t].at \in {"queued", "sent", "running"}
    /\ tasks' = [tasks EXCEPT ![t].at = "ended",
                   ![t].status = IF tasks[t].at = "queued" THEN "stopped" ELSE Sticky(t, "success")]
    /\ UNCHANGED <<disk, keyset, pending, rows, jwt, write, cli, verdict, backup, budget>>

\* ... and then the secrets are deleted; a failure is logged only.
DropSecret(t, fails) ==
    /\ tasks[t].at = "ended"
    /\ tasks' = [tasks EXCEPT ![t].at = "done"]
    /\ rows' = IF fails THEN rows ELSE [rows EXCEPT ![t] = NoRow]
    /\ cli' = IF fails THEN cli ELSE Disturb(t, rows[t] # NoRow)
    /\ UNCHANGED <<disk, keyset, pending, jwt, write, verdict, backup, budget>>

Expire(t) ==
    /\ rows[t] # NoRow /\ ~tasks[t].expired
    /\ tasks' = [tasks EXCEPT ![t].expired = TRUE]
    /\ UNCHANGED <<disk, keyset, pending, rows, jwt, write, cli, verdict, backup, budget>>

\* Mutants: the sweep looks at the expiry only; it forgets stopped tasks.
SweptExpired(t) == rows[t] # NoRow /\ tasks[t].expired
SweptFinished(t) == rows[t] # NoRow /\ tasks[t].expired /\ tasks[t].status \in {"success", "error"}

\* DeleteExpiredTaskAccessKeys.
Swept(t) == /\ rows[t] # NoRow /\ tasks[t].expired
            /\ tasks[t].status \in Final

Sweep(t) ==
    /\ Swept(t)
    /\ rows' = [rows EXCEPT ![t] = NoRow]
    /\ cli' = Disturb(t, TRUE)
    /\ UNCHANGED <<disk, keyset, pending, jwt, write, verdict, backup, tasks, budget>>

----------------------------------------------------------------------------
(* The vault commands.                                                      *)

Idle == [cmd |-> "idle"]
NoVerdict == [safe |-> {}, retired |-> {}, clean |-> FALSE, moved |-> FALSE]

\* createStore resolves the keys anew. A rollback is started only while the
\* keys of the backup are still in the keys file.
StartCommand(cmd, old) ==
    /\ cli = Idle /\ budget.commands > 0 /\ Resolvable(disk)
    /\ cmd = "rekey" \/ old = NoKey
    /\ cmd = "rollback" => /\ backup # {}
                           /\ \A line \in backup : Decrypts(Resolve(disk), line.secret)
    /\ cli' = [cmd |-> cmd, ks |-> Resolve(disk), old |-> old, page |-> 0, batch |-> {}, lines |-> {},
               dirty |-> {}, touched |-> {}, moved |-> FALSE, seen |-> {}, index |-> [k \in Keys |-> NoRow],
               retired |-> IF cmd = "check" THEN {m \in Materials : m < disk.access /\ Retired(m)} ELSE {}]
    /\ verdict' = NoVerdict
    /\ backup' = IF cmd = "backup" THEN {} ELSE backup
    /\ budget' = [budget EXCEPT !.commands = @ - 1]
    /\ UNCHANGED <<disk, keyset, pending, rows, jwt, write, tasks>>

\* The rows of the next page that hold a local secret, as they are now; they
\* are worked through in any order.
PageRows == {[key |-> k, row |-> rows[k]] : k \in {x \in Page(cli.page) : Local(rows[x])}}

PageIDs == {e.row.secret.id : e \in {x \in PageRows : Holds(x.row)}}

PageLines == {[key |-> e.key, secret |-> e.row.secret] : e \in {x \in PageRows : Holds(x.row)}}

Walking == cli.cmd \in {"rekey", "check", "backup", "rollback"} /\ cli.batch = {}
PastEnd == Page(cli.page) = {}

\* GetAccessKeys for the next page. check counts and backup writes the rows of
\* the page at once, rollback indexes them by id, rekey works through them.
NextPage ==
    /\ Walking /\ ~PastEnd
    /\ cli' = [cli EXCEPT !.page = @ + 1,
                          !.batch = IF cli.cmd = "rekey" THEN PageRows ELSE {},
                          !.dirty = IF cli.cmd = "rekey" THEN {} ELSE @,
                          !.seen = IF cli.cmd = "check" THEN @ \cup PageIDs ELSE @,
                          !.index = [k \in Keys |-> IF cli.cmd = "rollback" /\ k \in Page(cli.page) /\ Local(rows[k])
                                                    THEN rows[k] ELSE cli.index[k]]]
    /\ backup' = IF cli.cmd = "backup" THEN backup \cup PageLines ELSE backup
    /\ UNCHANGED <<disk, keyset, pending, rows, jwt, write, verdict, tasks, budget>>

RekeyDecrypts(s) == IF cli.old = NoKey THEN Decrypts(cli.ks, s) ELSE DecryptsWith(cli.old, s)

\* UpdateAccessKey writes back the name, the source and the secret of the row
\* as the page showed it; the row may be gone.
WriteBack(k, row) == IF rows[k] = NoRow THEN rows ELSE [rows EXCEPT ![k] = row]

RekeyRow ==
    /\ cli.cmd = "rekey"
    /\ \E e \in cli.batch :
        LET s == e.row.secret
        IN  IF s # NoSecret /\ ~RekeyDecrypts(s)
            THEN cli' = Idle /\ rows' = rows                        \* panic
            ELSE /\ cli' = [cli EXCEPT !.batch = @ \ {e}]
                 /\ rows' = WriteBack(e.key, [e.row EXCEPT !.secret =
                                IF s = NoSecret THEN NoSecret ELSE Encrypt(cli.ks, cli.ks.access, s.plain)])
    /\ UNCHANGED <<disk, keyset, pending, jwt, write, verdict, backup, tasks, budget>>

\* RekeyJWTSigningKey, after the last page.
RekeyJWT ==
    /\ cli.cmd = "rekey" /\ Walking /\ PastEnd
    /\ IF jwt = NoSecret \/ Decrypts(cli.ks, jwt) \/ (cli.old # NoKey /\ DecryptsWith(cli.old, jwt))
       THEN /\ jwt' = IF jwt = NoSecret THEN jwt ELSE Encrypt(cli.ks, OptionKey(cli.ks), jwt.plain)
            /\ cli' = [cli EXCEPT !.cmd = "rekeyed"]
       ELSE cli' = Idle /\ jwt' = jwt
    /\ UNCHANGED <<disk, keyset, pending, rows, write, verdict, backup, tasks, budget>>

\* The report of vault check.
CheckReport ==
    /\ cli.cmd = "check" /\ Walking /\ PastEnd
    /\ verdict' = [safe |-> SafeToRemove(cli.ks, cli.seen), retired |-> cli.retired,
                   clean |-> NoKey \notin cli.seen /\ (jwt = NoSecret \/ jwt.id = OptionKey(cli.ks)),
                   moved |-> cli.moved]
    /\ cli' = Idle
    /\ UNCHANGED <<disk, keyset, pending, rows, jwt, write, backup, tasks, budget>>

\* rollbackAccessKeys, after the index is built: one line of the backup. The
\* current secret must still be readable, only then is the old one restored.
RestoreLine ==
    /\ cli.cmd = "restoring"
    /\ \E line \in cli.lines :
        LET row == cli.index[line.key]
        IN  IF row = NoRow THEN cli' = [cli EXCEPT !.lines = @ \ {line}] /\ rows' = rows
            ELSE IF \/ line.key \in Tasks /\ tasks[line.key].expired
                    \/ Holds(row) /\ ~Decrypts(cli.ks, row.secret)
            THEN cli' = Idle /\ rows' = rows                        \* panic
            ELSE /\ cli' = [cli EXCEPT !.lines = @ \ {line}]
                 /\ rows' = WriteBack(line.key, [row EXCEPT !.secret = line.secret])
    /\ UNCHANGED <<disk, keyset, pending, jwt, write, verdict, backup, tasks, budget>>

Indexed ==
    /\ cli.cmd = "rollback" /\ PastEnd
    /\ cli' = [cli EXCEPT !.cmd = "restoring", !.lines = backup]
    /\ UNCHANGED <<disk, keyset, pending, rows, jwt, write, verdict, backup, tasks, budget>>

\* The process ends: done, or killed at any moment.
Exit ==
    /\ cli # Idle
    /\ cli' = Idle
    /\ UNCHANGED <<disk, keyset, pending, rows, jwt, write, verdict, backup, tasks, budget>>

----------------------------------------------------------------------------
(* Every key file, key, secret and task in some legal first state: an       *)
(* installation older than key ids may hold legacy values.                  *)

First == Min(Materials)

\* The plaintext everything holds at first; what is saved later differs.
OldValue == CHOOSE v \in Values : TRUE
NewValues == Values \ {OldValue}

Stored(v, stamped) == [id |-> IF stamped THEN First ELSE NoKey, mat |-> First, plain |-> v]

Init ==
    /\ disk \in [reg : {{First}}, access : {First}, option : {NoKey, First}]
    /\ keyset = Resolve(disk)
    /\ pending = [w \in Reloaders |-> Nothing]
    /\ \E stamped \in BOOLEAN, absent \in {{}, {Min(UserKeys)}} :
          /\ rows = [k \in Keys |->
                        IF k \in absent \cup Tasks THEN NoRow
                        ELSE [name |-> k, source |-> "local", secret |-> Stored(OldValue, stamped)]]
          /\ jwt = Stored(OldValue, stamped)
    /\ write = Nothing /\ cli = Idle /\ verdict = NoVerdict /\ backup = {}
    /\ tasks = [t \in Tasks |-> [at |-> "none", status |-> "none", wants |-> NoValue,
                                  got |-> NoValue, expired |-> FALSE, early |-> FALSE]]
    /\ budget \in Budgets

Operator == \E m \in Materials : AddKeyFile(m) \/ SetActive(m) \/ RemoveKeyFile(m)

Server == Restart \/ \E w \in Reloaders : ReloadRead(w) \/ ReloadStore(w)

User == \/ FinishWrite
        \/ \E k \in UserKeys :
              \/ DeleteKey(k)
              \/ \E n \in Names : RenameKey(k, n)
              \/ \E v \in NewValues : \/ \E n \in Names : CreateKey(k, n, v)
                                   \/ \E s \in {"local", "env"} : OverrideKey(k, s, v)

Task == \E t \in Tasks :
          \/ \E v \in NewValues \cup {NoValue} : AddTask(t, v)
          \/ StoreSecret(t) \/ Dispatch(t) \/ StartRun(t) \/ StopTask(t) \/ Unqueue(t) \/ EndRun(t)
          \/ \E fails \in BOOLEAN : DropSecret(t, fails)
          \/ Expire(t) \/ Sweep(t)

Command == \/ \E cmd \in {"rekey", "check", "backup", "rollback"}, old \in {NoKey, First} :
                StartCommand(cmd, old)
           \/ NextPage \/ RekeyRow \/ RekeyJWT \/ CheckReport \/ Indexed \/ RestoreLine \/ Exit

Next == Operator \/ Server \/ User \/ Task \/ Command

Spec == Init /\ [][Next]_vars

\* The poller's ticker, the hourly sweep and the clock never stop.
FairSpec == /\ Spec /\ WF_vars(ReloadRead("poll")) /\ WF_vars(ReloadStore("poll"))
            /\ \A t \in Tasks : WF_vars(Expire(t)) /\ WF_vars(Sweep(t))

----------------------------------------------------------------------------
(* Properties.                                                              *)

SecretsTypeOK ==
    /\ disk.reg \subseteq Materials /\ disk.access \in Materials
    /\ keyset.byID \subseteq Materials /\ keyset.access \in keyset.byID
    /\ \A k \in Keys : rows[k] = NoRow \/ rows[k] \in Row
    /\ jwt \in Cipher \cup {NoSecret}
    /\ write # Nothing => write.key \in Keys /\ write.row \in Row
    /\ verdict.safe \subseteq Materials
    /\ \A line \in backup : line.key \in Keys /\ line.secret \in Cipher
    /\ \A t \in Tasks : tasks[t].got \in Values \cup {NoValue}

\* Rotation with the server running: whatever users save, reloads install and
\* commands re-encrypt, fail half-way or roll back, the keys file always holds
\* the key of every stored secret and of the JWT signing key (vault_rekey.go,
\* steps 1 to 3).
Readable ==
    /\ \A k \in Keys : Holds(rows[k]) => Decrypts(Resolve(disk), rows[k].secret)
    /\ jwt # NoSecret => Decrypts(Resolve(disk), jwt)

\* A rekey that nobody disturbed has stamped every local secret it did not see
\* change with the active key: the retired key is not needed any more
\* (RekeyAccessKeys, paging included).
RekeyComplete ==
    cli.cmd = "rekeyed" /\ ~cli.moved =>
        /\ \A k \in Keys \ cli.touched : Holds(rows[k]) => rows[k].secret.id = cli.ks.access
        /\ jwt # NoSecret => jwt.id = OptionKey(cli.ks)

\* Re-encryption writes back what it read: a row a rekey changes keeps name,
\* source and plaintext unless somebody wrote it after the page was read.
RekeyKeepsPlain ==
    \A k \in Keys :
        cli.cmd = "rekey" /\ write' = write /\ Holds(rows[k]) /\ rows'[k] \notin {rows[k], NoRow}
        => \/ k \in cli.dirty'
           \/ /\ rows'[k] = [rows[k] EXCEPT !.secret = rows'[k].secret]
              /\ Holds(rows'[k]) /\ rows'[k].secret.plain = rows[k].secret.plain

\* A rekey changes no secret, and in the end has reached every one.
RekeySound == [][RekeyKeepsPlain /\ RekeyComplete']_vars

\* A task is never started with other survey variables than it was given: an
\* expired or unreadable secret fails the task, and a swept one is missed only
\* by a task that had been stopped, and had expired, while it was queued and
\* was started nevertheless: it runs without any (access_key.go, the comment of
\* DeleteExpiredTaskAccessKeys; runners.go prepareRemoteJob).
NeverEmpty ==
    \A t \in Tasks : tasks[t].at \in {"sent", "running"} =>
        \/ tasks[t].got = tasks[t].wants
        \/ tasks[t].got = NoValue /\ tasks[t].early /\ tasks[t].expired

\* The rows are well-formed, and tasks run with the variables they were given.
SurveyKept == SecretsTypeOK /\ NeverEmpty

\* The keyset of the server follows the keys file: a reload that read an older
\* file and stored last is put right by the poller.
ServerCatchesUp == <>[](keyset = Resolve(disk))

\* The secrets of a task whose row stays final do not stay: what finishRun did
\* not delete is swept, and a rekey does not bring it back.
FinalSecretsGone ==
    \A t \in Tasks : tasks[t].status \in Final ~> rows[t] = NoRow \/ tasks[t].status \notin Final

\* What a race or a crash leaves behind is put right by the periodic jobs.
SecretsSettle == ServerCatchesUp /\ FinalSecretsGone

\* vault check: "a key with zero references can be deleted from the keyset":
\* no stored value needs a key reported as safe, when nobody changed the
\* table since the report began.
SafeIsUnused ==
    \A m \in verdict.safe \cap verdict.retired :
        ~verdict.moved => /\ \A k \in Keys : Holds(rows[k]) => rows[k].secret.mat # m
                          /\ jwt # NoSecret => jwt.mat # m
=============================================================================
