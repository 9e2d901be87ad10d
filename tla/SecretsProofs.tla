---------------------------- MODULE SecretsProofs ----------------------------
(***************************************************************************)
(* Proofs about the rotation of encryption keys beside a running server:   *)
(* no stored secret loses its key, a rekey reaches every secret and        *)
(* changes none, and tasks start with the survey variables they were       *)
(* given unless they were stopped and had expired before, for any keys,    *)
(* secrets, tasks, page size and bounds.                                   *)
(***************************************************************************)
EXTENDS Secrets, QueueProofs, FiniteSetTheorems, TLAPS

-----------------------------------------------------------------------------
(* The order of the table, as operators of the table.                      *)
Listed(table) == {k \in Keys : table[k] # NoRow}
Ahead(table, k) == {j \in Listed(table) : \/ table[j].name < table[k].name
                                          \/ table[j].name = table[k].name /\ j < k}
RankIn(table, k) == Cardinality(Ahead(table, k))

\* The rows on the first i pages, and on page i.
Reached(table, i) == {k \in Listed(table) : RankIn(table, k) < i * BatchSize}
OnPage(table, i) == {k \in Listed(table) : i * BatchSize <= RankIn(table, k) /\ RankIn(table, k) < (i + 1) * BatchSize}

-----------------------------------------------------------------------------
(* Types.  An id in an envelope is the id of the key that made it.         *)
Envelope == {c \in Cipher : c.id \in {NoKey, c.mat}}
GoodRow == {row \in Row : row.secret \in Envelope \cup {NoSecret}}
Table == [Keys -> GoodRow \cup {NoRow}]
Keyset == [byID : SUBSET Materials, access : Materials, option : Materials \cup {NoKey}]
Entry == [key : Keys, row : GoodRow]
Line == [key : Keys, secret : Envelope]
TaskState == [at : {"none", "created", "storing", "queued", "sent", "running", "ended", "done", "lost"},
              status : {"none", "waiting", "starting", "running"} \cup Final,
              wants : Values \cup {NoValue}, got : Values \cup {NoValue}, expired : BOOLEAN, early : BOOLEAN]
Process == [cmd : {"rekey", "rekeyed", "check", "backup", "rollback", "restoring"}, ks : Keyset,
            old : Materials \cup {NoKey}, page : Nat, batch : SUBSET Entry, lines : SUBSET Line,
            dirty : SUBSET Keys, touched : SUBSET Keys, moved : BOOLEAN,
            seen : SUBSET (Materials \cup {NoKey}), index : Table,
            retired : SUBSET Materials]

TypeInv ==
    /\ disk \in [reg : SUBSET Materials, access : Materials, option : Materials \cup {NoKey}]
    /\ keyset \in Keyset /\ keyset.access \in keyset.byID
    /\ pending \in [Reloaders -> Keyset \cup {Nothing}]
    /\ \A w \in Reloaders : pending[w] # Nothing => pending[w].access \in pending[w].byID
    /\ rows \in Table
    /\ jwt \in Envelope \cup {NoSecret}
    /\ write \in [kind : {"create", "update"}, key : Keys, row : GoodRow] \cup {Nothing}
    /\ cli \in Process \cup {Idle}
    /\ verdict \in [safe : SUBSET Materials, retired : SUBSET Materials, clean : BOOLEAN, moved : BOOLEAN]
    /\ backup \in SUBSET Line
    /\ tasks \in [Tasks -> TaskState]

-----------------------------------------------------------------------------
(* Readable: whatever is stored or may still be written has its key on     *)
(* disk.  No key is removed while a command runs.                          *)
OnDisk(c) == c # NoSecret => c.mat \in disk.reg

KeysInv ==
    /\ disk.access \in disk.reg /\ disk.option \in {NoKey, disk.access}
    /\ keyset.access \in disk.reg
    /\ \A w \in Reloaders : pending[w] # Nothing => pending[w].access \in disk.reg
    /\ \A k \in Keys : rows[k] # NoRow => OnDisk(rows[k].secret)
    /\ write # Nothing => OnDisk(write.row.secret)
    /\ OnDisk(jwt)
    /\ cli # Idle => /\ cli.ks.access \in disk.reg /\ cli.ks.option \in {NoKey, cli.ks.access}
                     /\ \A line \in cli.lines : OnDisk(line.secret)
                     /\ cli.cmd = "rollback" => \A line \in backup : OnDisk(line.secret)

\* Nothing will be encrypted with m any more.
OutOfUse(m) ==
    /\ m < disk.access /\ m # keyset.access
    /\ \A w \in Reloaders : pending[w] # Nothing => m # pending[w].access
    /\ write # Nothing /\ write.row.secret # NoSecret => write.row.secret.mat # m

\* Nothing stored needs m.
Unneeded(m) ==
    /\ \A k \in Keys : Holds(rows[k]) => rows[k].secret.mat # m
    /\ jwt # NoSecret => jwt.mat # m

\* A check has counted what it passed; its report holds until it is used.
CheckInv ==
    /\ cli # Idle => verdict = NoVerdict
    /\ cli # Idle /\ cli.cmd = "check" => \A m \in cli.retired :
        /\ OutOfUse(m)
        /\ ~cli.moved => \A k \in Reached(rows, cli.page) :
             Holds(rows[k]) /\ rows[k].secret.mat = m => rows[k].secret.id \in cli.seen
    /\ verdict.clean /\ ~verdict.moved => \A m \in verdict.safe \cap verdict.retired : OutOfUse(m) /\ Unneeded(m)

\* A row without a local secret holds none, so that it can need no key, and
\* what is being written carries the id of its key.
EnvInv ==
    /\ \A k \in Keys : rows[k] # NoRow /\ rows[k].source # "local" => rows[k].secret = NoSecret
    /\ write # Nothing /\ write.row.source # "local" => write.row.secret = NoSecret
    /\ write # Nothing /\ write.row.secret # NoSecret => write.row.secret.id = write.row.secret.mat
    /\ cli # Idle => /\ \A e \in cli.batch : e.row.source = "local"
                     /\ \A k \in Keys : cli.index[k] # NoRow => cli.index[k].source = "local"

-----------------------------------------------------------------------------
(* RekeySound: what the pages showed is still so, or was seen to change,   *)
(* and the pages passed are done.                                          *)
RekeyInv ==
    /\ cli # Idle /\ cli.cmd = "rekey" =>
        /\ \A e, f \in cli.batch : e.key = f.key => e = f
        /\ cli.dirty \subseteq cli.touched
        /\ \A e \in cli.batch : e.key \notin cli.dirty => rows[e.key] = e.row
        /\ ~cli.moved => /\ \A e \in cli.batch : rows[e.key] # NoRow /\ rows[e.key].name = e.row.name
                         /\ \A k \in Reached(rows, cli.page) \ cli.touched :
                              Holds(rows[k]) => \/ rows[k].secret.id = cli.ks.access
                                                \/ \E e \in cli.batch : e.key = k
    /\ cli # Idle /\ cli.cmd # "rekey" => cli.batch = {}
    /\ RekeyComplete

-----------------------------------------------------------------------------
(* SurveyKept: all there is of a task's secrets, in the table and on the   *)
(* way to it, is what the task was given.                                  *)
Given(t, c) == c # NoSecret /\ c.plain = tasks[t].wants

DataOf(t) ==
    /\ rows[t] # NoRow => rows[t].source = "local" /\ Given(t, rows[t].secret)
    /\ write # Nothing /\ write.key = t =>
         write.kind = "create" /\ write.row.source = "local" /\ Given(t, write.row.secret) /\ tasks[t].at = "storing"
    /\ \A line \in backup : line.key = t => Given(t, line.secret)
    /\ cli # Idle => /\ \A e \in cli.batch : e.key = t => Given(t, e.row.secret)
                     /\ \A line \in cli.lines : line.key = t => Given(t, line.secret)

\* A task that has not stored its secrets yet has left no trace.
FreshOf(t) ==
    tasks[t].at \in {"none", "created", "storing"} =>
        /\ rows[t] = NoRow
        /\ \A line \in backup : line.key # t
        /\ cli # Idle => /\ \A e \in cli.batch : e.key # t
                         /\ \A line \in cli.lines : line.key # t

\* Only a task whose row is final can lose its secrets, and only one that was
\* stopped while it was queued can be started after that.
Missed(s) == s.early /\ s.expired

Lives(s, present) ==
    /\ s.at = "created" => s.wants # NoValue
    /\ s.at \in {"created", "storing"} => s.status = "waiting"
    /\ s.at = "queued" /\ s.status \in Final => s.early
    /\ s.at = "queued" /\ s.wants # NoValue => present \/ Missed(s)
    /\ s.at = "sent" /\ s.status \notin Final /\ s.wants # NoValue => present \/ Missed(s)
    /\ s.at \in {"sent", "running"} => s.got = s.wants \/ (s.got = NoValue /\ Missed(s))

LifeOf(t) == Lives(tasks[t], rows[t] # NoRow)

SurveyInv == \A t \in Tasks : DataOf(t) /\ FreshOf(t) /\ LifeOf(t)

SecretsInv == TypeInv /\ KeysInv /\ CheckInv /\ EnvInv /\ RekeyInv /\ SurveyInv

-----------------------------------------------------------------------------
(* Pages.                                                                  *)

(* The keys are finitely many numbers, and no row, cipher or key is one of *)
(* the special values.                                                     *)
LEMMA Constants ==
    /\ Keys \subseteq Nat /\ IsFiniteSet(Keys) /\ Tasks \subseteq Keys /\ UserKeys \subseteq Keys
    /\ UserKeys \cap Tasks = {}
    /\ NoRow \notin GoodRow /\ NoSecret \notin Envelope /\ NoKey \notin Materials /\ NoValue \notin Values
    /\ Materials \subseteq Nat /\ Materials # {} /\ Names \subseteq Nat
    /\ BatchSize \in Nat /\ BatchSize > 0
<1>1. IsFiniteSet(Keys)
  BY SecretsAssumption, FS_Union DEF Keys
<1>2. GoodRow \subseteq Row /\ Envelope \subseteq Cipher
  BY DEF GoodRow, Envelope
<1> QED
  BY <1>1, <1>2, SecretsAssumption DEF Keys

(* The names that order the table are numbers.                             *)
LEMMA ListedNames ==
    ASSUME NEW table \in Table
    PROVE  \A k \in Listed(table) : k \in Keys /\ k \in Nat /\ table[k] \in GoodRow /\ table[k].name \in Nat
BY Constants DEF Listed, Table, GoodRow, Row

(* The rank of a row is a number smaller than that of any row behind it,   *)
(* and than the number of rows.                                            *)
LEMMA Ranks ==
    ASSUME NEW table \in Table
    PROVE  /\ IsFiniteSet(Listed(table)) /\ Cardinality(Listed(table)) \in Nat
           /\ \A k \in Listed(table) : RankIn(table, k) \in Nat /\ RankIn(table, k) < Cardinality(Listed(table))
           /\ \A j, k \in Listed(table) : j \in Ahead(table, k) => RankIn(table, j) < RankIn(table, k)
<1>1. IsFiniteSet(Listed(table)) /\ Cardinality(Listed(table)) \in Nat
  BY Constants, FS_Subset, FS_CardinalityType DEF Listed
<1>2. ASSUME NEW k \in Listed(table)
      PROVE  /\ IsFiniteSet(Ahead(table, k)) /\ RankIn(table, k) \in Nat
             /\ k \notin Ahead(table, k)
  <2>1. Ahead(table, k) \subseteq Listed(table)
    BY DEF Ahead
  <2>2. IsFiniteSet(Ahead(table, k)) /\ RankIn(table, k) \in Nat
    BY <1>1, <2>1, FS_Subset, FS_CardinalityType DEF RankIn
  <2>3. k \in Nat /\ table[k].name \in Nat
    BY ListedNames
  <2>4. ~(table[k].name < table[k].name) /\ ~(k < k)
    BY <2>3
  <2> QED
    BY <2>2, <2>4 DEF Ahead
<1>3. ASSUME NEW k \in Listed(table), NEW S \in SUBSET Listed(table), Ahead(table, k) \cup {k} \subseteq S
      PROVE  RankIn(table, k) < Cardinality(S)
  <2>1. Cardinality(Ahead(table, k) \cup {k}) = RankIn(table, k) + 1
    BY <1>2, FS_AddElement DEF RankIn
  <2>2. IsFiniteSet(S) /\ Cardinality(S) \in Nat
    BY <1>1, <1>3, FS_Subset, FS_CardinalityType
  <2>3. Cardinality(Ahead(table, k) \cup {k}) <= Cardinality(S)
    BY <1>3, <2>2, FS_Subset
  <2> QED
    BY <1>2, <2>1, <2>2, <2>3
<1>4. ASSUME NEW k \in Listed(table)
      PROVE  RankIn(table, k) < Cardinality(Listed(table))
  BY <1>3 DEF Ahead
<1>5. ASSUME NEW j \in Listed(table), NEW k \in Listed(table), j \in Ahead(table, k)
      PROVE  RankIn(table, j) < RankIn(table, k)
  <2>1. \A x \in Listed(table) : x \in Nat /\ table[x].name \in Nat
    BY ListedNames
  <2>2. ASSUME NEW x \in Ahead(table, j)
        PROVE  x \in Ahead(table, k)
    <3>1. x \in Listed(table) /\ (table[x].name < table[j].name \/ (table[x].name = table[j].name /\ x < j))
      BY DEF Ahead
    <3>2. table[j].name < table[k].name \/ (table[j].name = table[k].name /\ j < k)
      BY <1>5 DEF Ahead
    <3>3. table[x].name < table[k].name \/ (table[x].name = table[k].name /\ x < k)
      BY <2>1, <3>1, <3>2
    <3> QED
      BY <3>1, <3>3 DEF Ahead
  <2>3. Ahead(table, k) \in SUBSET Listed(table) /\ Ahead(table, j) \cup {j} \subseteq Ahead(table, k)
    BY <1>5, <2>2 DEF Ahead
  <2> QED
    BY <1>3, <2>3 DEF RankIn
<1> QED
  BY <1>1, <1>2, <1>4, <1>5

(* No rank is left out: an empty page has no rows behind it.               *)
LEMMA EmptyPage ==
    ASSUME NEW table \in Table, NEW i \in Nat, OnPage(table, i) = {}
    PROVE  Reached(table, i) = Listed(table)
<1> DEFINE S == Listed(table)
           n == Cardinality(S)
           T == {RankIn(table, k) : k \in S}
           f == [k \in S |-> RankIn(table, k)]
<1>1. IsFiniteSet(S) /\ n \in Nat
  BY Ranks
<1>2. \A k \in S : RankIn(table, k) \in 0..(n - 1)
  BY <1>1, Ranks
<1>3. \A j, k \in S : j # k => RankIn(table, j) # RankIn(table, k)
  <2> SUFFICES ASSUME NEW j \in S, NEW k \in S, j # k
               PROVE  RankIn(table, j) # RankIn(table, k)
    OBVIOUS
  <2>1. j \in Nat /\ k \in Nat /\ table[j].name \in Nat /\ table[k].name \in Nat
    BY ListedNames
  <2>2. \/ table[j].name < table[k].name \/ (table[j].name = table[k].name /\ j < k)
        \/ table[k].name < table[j].name \/ (table[k].name = table[j].name /\ k < j)
    BY <2>1
  <2>3. j \in Ahead(table, k) \/ k \in Ahead(table, j)
    BY <2>2 DEF Ahead
  <2>4. RankIn(table, j) \in Nat /\ RankIn(table, k) \in Nat
    BY Ranks
  <2>5. RankIn(table, j) < RankIn(table, k) \/ RankIn(table, k) < RankIn(table, j)
    BY <2>3, Ranks
  <2> QED
    BY <2>4, <2>5
<1>4. T \subseteq 0..(n - 1) /\ IsFiniteSet(0..(n - 1)) /\ Cardinality(0..(n - 1)) = n
  <2>1. IsFiniteSet(0..(n - 1)) /\ Cardinality(0..(n - 1)) = (IF 0 > n - 1 THEN 0 ELSE (n - 1) - 0 + 1)
    BY SMTT(20), <1>1, FS_Interval
  <2> QED
    BY <1>1, <1>2, <2>1
<1>5. IsFiniteSet(T) /\ Cardinality(T) \in Nat /\ Cardinality(T) <= n /\ (Cardinality(T) = n => T = 0..(n - 1))
  BY <1>4, FS_Subset, FS_CardinalityType
<1>6. n <= Cardinality(T)
  <2>1. f \in [S -> T] /\ \A a, b \in S : f[a] = f[b] => a = b
    BY <1>3
  <2>2. f \in Injection(S, T)
    BY <2>1 DEF Injection, IsInjective
  <2> QED
    BY <1>5, <2>2, FS_Injection
<1>7. T = 0..(n - 1)
  BY <1>1, <1>5, <1>6
<1>8. i * BatchSize \in Nat /\ (i + 1) * BatchSize = i * BatchSize + BatchSize /\ BatchSize \in Nat /\ BatchSize > 0
  BY Constants
<1>9. ASSUME NEW k \in S, ~(RankIn(table, k) < i * BatchSize)
      PROVE  FALSE
  <2>1. i * BatchSize \in 0..(n - 1)
    BY <1>1, <1>2, <1>8, <1>9
  <2>2. PICK j \in S : RankIn(table, j) = i * BatchSize
    BY <1>7, <2>1
  <2>3. j \in OnPage(table, i)
    BY <1>8, <2>2 DEF OnPage
  <2> QED
    BY <2>3
<1> QED
  BY <1>9 DEF Reached

(* The first i + 1 pages are the first i and the next.                     *)
LEMMA NextReached ==
    ASSUME NEW table \in Table, NEW i \in Nat
    PROVE  Reached(table, i + 1) = Reached(table, i) \cup OnPage(table, i)
<1>1. i * BatchSize \in Nat /\ (i + 1) * BatchSize = i * BatchSize + BatchSize /\ BatchSize \in Nat
  BY Constants
<1>2. \A k \in Listed(table) : RankIn(table, k) \in Nat
  BY Ranks
<1>3. \A k \in Listed(table) : RankIn(table, k) < (i + 1) * BatchSize <=>
          \/ RankIn(table, k) < i * BatchSize
          \/ i * BatchSize <= RankIn(table, k) /\ RankIn(table, k) < (i + 1) * BatchSize
  BY <1>1, <1>2
<1> QED
  BY <1>3 DEF Reached, OnPage

(* Before the first page nothing is reached.                               *)
LEMMA NothingReached ==
    ASSUME NEW table \in Table
    PROVE  Reached(table, 0) = {}
<1>1. \A k \in Listed(table) : RankIn(table, k) \in Nat /\ ~(RankIn(table, k) < 0 * BatchSize)
  BY Ranks, Constants
<1> QED
  BY <1>1 DEF Reached

(* The pages depend on which rows there are, and on their names.           *)
LEMMA SamePages ==
    ASSUME NEW table \in Table, NEW other \in Table, NEW i \in Nat,
           \A k \in Keys : (other[k] = NoRow) <=> (table[k] = NoRow),
           \A k \in Keys : table[k] # NoRow => other[k].name = table[k].name
    PROVE  Reached(other, i) = Reached(table, i)
<1>1. Listed(other) = Listed(table)
  BY DEF Listed
<1>2. \A k \in Listed(table) : other[k].name = table[k].name
  BY DEF Listed
<1>3. \A k \in Listed(table) : Ahead(other, k) = Ahead(table, k)
  BY <1>1, <1>2 DEF Ahead
<1>4. \A k \in Listed(table) : RankIn(other, k) = RankIn(table, k)
  BY <1>3 DEF RankIn
<1> QED
  BY <1>1, <1>4 DEF Reached

(* GetAccessKeys gives the page of the table as it is.                     *)
LEMMA PageOf ==
    /\ Present = Listed(rows)
    /\ \A i : Page(i) = OnPage(rows, i)
<1>1. Present = Listed(rows)
  BY DEF Present, Listed
<1>2. \A k : Rank(k) = RankIn(rows, k)
  BY <1>1 DEF Rank, RankIn, Before, Ahead
<1> QED
  BY <1>1, <1>2 DEF Page, OnPage

-----------------------------------------------------------------------------
(* Steps that leave the table alone.                                       *)

\* All but the part about the survey secrets of tasks.
KeyInv == TypeInv /\ KeysInv /\ CheckInv /\ EnvInv /\ RekeyInv

\* A key that was out of use is not taken up again in the server's memory.
StaysOut ==
    \A m \in Materials : OutOfUse(m) =>
        /\ m # keyset'.access
        /\ \A w \in Reloaders : pending'[w] # Nothing => m # pending'[w].access
        /\ write' # Nothing /\ write'.row.secret # NoSecret => write'.row.secret.mat # m

(* The server's memory changes: reloads, a restart, the start of a write.  *)
LEMMA MemoryStep ==
    ASSUME KeyInv, UNCHANGED <<disk, rows, jwt, cli, verdict, backup>>, TypeInv', StaysOut,
           keyset'.access \in disk.reg,
           \A w \in Reloaders : pending'[w] # Nothing => pending'[w].access \in disk.reg,
           write' # Nothing => OnDisk(write'.row.secret),
           write' # Nothing /\ write'.row.source # "local" => write'.row.secret = NoSecret,
           write' # Nothing /\ write'.row.secret # NoSecret => write'.row.secret.id = write'.row.secret.mat
    PROVE  KeyInv'
<1>1. KeysInv'
  BY DEF KeyInv, KeysInv, OnDisk
<1>2. \A m \in Materials : OutOfUse(m) => OutOfUse(m)'
  BY DEF StaysOut, OutOfUse
<1>3. \A m \in Materials : Unneeded(m) => Unneeded(m)'
  BY DEF Unneeded
<1>4. verdict.safe \subseteq Materials /\ (cli # Idle => cli.retired \subseteq Materials)
  BY DEF KeyInv, TypeInv, Process
<1>5. CheckInv'
  BY <1>2, <1>3, <1>4 DEF KeyInv, CheckInv
<1>6. EnvInv'
  BY DEF KeyInv, EnvInv
<1>7. RekeyInv'
  BY DEF KeyInv, RekeyInv, RekeyComplete, OptionKey, Holds, Local
<1> QED
  BY <1>1, <1>5, <1>6, <1>7 DEF KeyInv

(* A keyset comes from the keys file, where the active key is a later one. *)
LEMMA ResolvedKeyset ==
    ASSUME KeyInv
    PROVE  /\ Resolve(disk) \in Keyset /\ Resolve(disk).access = disk.access
           /\ Resolve(disk).byID = disk.reg /\ Resolve(disk).option = disk.option
           /\ Resolve(disk) # Nothing /\ disk.access \in disk.reg
           /\ \A m \in Materials : OutOfUse(m) => m # disk.access
<1>1. disk \in [reg : SUBSET Materials, access : Materials, option : Materials \cup {NoKey}]
  BY DEF KeyInv, TypeInv
<1>2. disk.access \in Nat
  BY <1>1, Constants
<1>3. \A m \in Materials : m < disk.access => m # disk.access
  BY <1>2, Constants
<1>4. Resolve(disk) = [byID |-> disk.reg, access |-> disk.access, option |-> disk.option]
  BY DEF Resolve
<1>5. Resolve(disk) \in Keyset
  BY <1>1, <1>4 DEF Keyset
<1>6. Resolve(disk) # Nothing
  BY <1>4 DEF Nothing
<1> QED
  BY <1>3, <1>4, <1>5, <1>6 DEF OutOfUse, KeyInv, KeysInv

(* A reload reads the keys file, and stores what it read some time later.  *)
LEMMA ReloadKeeps ==
    ASSUME SecretsInv, NEW w \in Reloaders, ReloadRead(w) \/ ReloadStore(w)
    PROVE  SecretsInv'
<1>1. KeyInv /\ TypeInv /\ SurveyInv
  BY DEF SecretsInv, KeyInv
<1>2. UNCHANGED <<disk, rows, jwt, write, cli, verdict, backup, tasks>>
  BY DEF ReloadRead, ReloadStore
<1>3. ASSUME ReloadRead(w) PROVE KeyInv'
  <2>1. keyset' = keyset /\ pending' = [pending EXCEPT ![w] = Resolve(disk)]
    BY <1>3 DEF ReloadRead
  <2>2. /\ pending' \in [Reloaders -> Keyset \cup {Nothing}]
        /\ pending'[w] = Resolve(disk) /\ \A x \in Reloaders : x # w => pending'[x] = pending[x]
    BY <1>1, <2>1, ResolvedKeyset DEF TypeInv
  <2>3. TypeInv'
    BY <1>1, <1>2, <2>1, <2>2, ResolvedKeyset DEF TypeInv
  <2>4. StaysOut
    BY <1>1, <1>2, <2>1, <2>2, ResolvedKeyset DEF StaysOut, OutOfUse
  <2>5. \A x \in Reloaders : pending'[x] # Nothing => pending'[x].access \in disk.reg
    BY <1>1, <2>2, ResolvedKeyset DEF KeyInv, KeysInv
  <2> QED
    BY <1>1, <1>2, <2>1, <2>3, <2>4, <2>5, MemoryStep DEF KeyInv, KeysInv, EnvInv
<1>4. ASSUME ReloadStore(w) PROVE KeyInv'
  <2>1. pending[w] # Nothing /\ keyset' \in {keyset, pending[w]} /\ pending' = [pending EXCEPT ![w] = Nothing]
    BY <1>4 DEF ReloadStore
  <2>2. /\ pending' \in [Reloaders -> Keyset \cup {Nothing}]
        /\ \A x \in Reloaders : pending'[x] # Nothing => pending'[x] = pending[x]
    BY <1>1, <2>1 DEF TypeInv
  <2>3. keyset' \in Keyset /\ keyset'.access \in keyset'.byID
    BY <1>1, <2>1 DEF TypeInv
  <2>4. TypeInv'
    BY <1>1, <1>2, <2>2, <2>3 DEF TypeInv
  <2>5. StaysOut
    BY <1>1, <1>2, <2>1, <2>2 DEF StaysOut, OutOfUse
  <2>6. keyset'.access \in disk.reg /\ \A x \in Reloaders : pending'[x] # Nothing => pending'[x].access \in disk.reg
    BY <1>1, <2>1, <2>2 DEF KeyInv, KeysInv
  <2> QED
    BY <1>1, <1>2, <2>4, <2>5, <2>6, MemoryStep DEF KeyInv, KeysInv, EnvInv
<1>5. KeyInv'
  BY <1>3, <1>4
<1>6. SurveyInv'
  BY <1>1, <1>2 DEF SurveyInv, DataOf, FreshOf, LifeOf, Given
<1> QED
  BY <1>5, <1>6 DEF SecretsInv, KeyInv

(* What a user or a task writes is encrypted with the key of the server.   *)
LEMMA SerializedBy ==
    ASSUME KeyInv, NEW v \in Values
    PROVE  /\ Serialized(v) \in Envelope /\ Serialized(v) # NoSecret
           /\ Serialized(v).mat = keyset.access /\ Serialized(v).id = keyset.access /\ Serialized(v).plain = v
           /\ keyset.access \in disk.reg
<1>1. keyset.access \in Materials /\ keyset.access \in disk.reg
  BY DEF KeyInv, TypeInv, Keyset, KeysInv
<1>2. Serialized(v) = [id |-> keyset.access, mat |-> keyset.access, plain |-> v]
  BY DEF Serialized, Encrypt
<1>3. Serialized(v) \in Cipher
  BY <1>1, <1>2 DEF Cipher
<1>4. Serialized(v) \in Envelope
  BY <1>2, <1>3 DEF Envelope
<1> QED
  BY <1>1, <1>2, <1>4, Constants

(* A write begins: its row will be encrypted with a key in use.            *)
LEMMA BeginWrite ==
    ASSUME SecretsInv, write = Nothing, NEW kind \in {"create", "update"}, NEW k \in Keys, NEW row \in GoodRow,
           write' = [kind |-> kind, key |-> k, row |-> row],
           row.secret = NoSecret \/ (row.source = "local" /\ \E v \in Values : row.secret = Serialized(v)),
           UNCHANGED <<disk, keyset, pending, rows, jwt, cli, verdict, backup>>,
           tasks' \in [Tasks -> TaskState]
    PROVE  KeyInv' /\ write' # Nothing /\ write'.key = k /\ write'.row = row /\ write'.kind = kind
<1>1. KeyInv /\ TypeInv
  BY DEF SecretsInv, KeyInv
<1>2. /\ write' \in [kind : {"create", "update"}, key : Keys, row : GoodRow]
      /\ write'.key = k /\ write'.row = row /\ write'.kind = kind
  OBVIOUS
<1>3. write' # Nothing
  BY <1>2 DEF Nothing
<1>4. TypeInv'
  BY <1>1, <1>2 DEF TypeInv
<1>5. row.secret # NoSecret => /\ row.secret.mat = keyset.access /\ row.secret.id = keyset.access
                               /\ keyset.access \in disk.reg
  BY <1>1, SerializedBy
<1>6. StaysOut
  BY <1>2, <1>5 DEF StaysOut, OutOfUse
<1>7. keyset'.access \in disk.reg /\ \A x \in Reloaders : pending'[x] # Nothing => pending'[x].access \in disk.reg
  BY <1>1 DEF KeyInv, KeysInv
<1>8. OnDisk(write'.row.secret)
  BY <1>2, <1>5 DEF OnDisk
<1>9. KeyInv'
  BY <1>1, <1>2, <1>4, <1>5, <1>6, <1>7, <1>8, MemoryStep
<1> QED
  BY <1>2, <1>3, <1>9

(* Users save a key.                                                       *)
LEMMA UserWriteKeeps ==
    ASSUME SecretsInv, NEW k \in UserKeys, NEW v \in NewValues, NEW source \in {"local", "env"},
           (\E n \in Names : CreateKey(k, n, v)) \/ OverrideKey(k, source, v)
    PROVE  SecretsInv'
<1>1. KeyInv /\ TypeInv /\ SurveyInv /\ k \in Keys /\ k \notin Tasks /\ v \in Values
  BY Constants DEF SecretsInv, KeyInv, NewValues
<1>2. UNCHANGED <<disk, keyset, pending, rows, jwt, cli, verdict, backup, tasks>> /\ write = Nothing
  BY DEF CreateKey, OverrideKey
<1>3. PICK kind \in {"create", "update"}, row \in GoodRow :
        /\ write' = [kind |-> kind, key |-> k, row |-> row]
        /\ row.secret = NoSecret \/ (row.source = "local" /\ row.secret = Serialized(v))
  <2>1. Serialized(v) \in Envelope
    BY <1>1, SerializedBy
  <2>2. rows[k] # NoRow => rows[k].name \in Nat
    BY <1>1 DEF TypeInv, Table, GoodRow, Row
  <2>3. CASE \E n \in Names : CreateKey(k, n, v)
    <3>1. PICK n \in Names : CreateKey(k, n, v)
      BY <2>3
    <3>2. n \in Nat
      BY Constants
    <3> DEFINE row == [name |-> n, source |-> "local", secret |-> Serialized(v)]
    <3>3. row \in GoodRow /\ row.source = "local" /\ row.secret = Serialized(v)
      BY <2>1, <3>2 DEF GoodRow, Row, Envelope
    <3>4. write' = [kind |-> "create", key |-> k, row |-> row]
      BY <3>1 DEF CreateKey
    <3> QED
      BY <3>3, <3>4
  <2>4. CASE OverrideKey(k, source, v)
    <3> DEFINE row == [name |-> rows[k].name, source |-> source,
                       secret |-> IF source = "local" THEN Serialized(v) ELSE NoSecret]
    <3>1. row \in GoodRow /\ (row.secret = NoSecret \/ (row.source = "local" /\ row.secret = Serialized(v)))
      BY <2>1, <2>2, <2>4 DEF GoodRow, Row, Envelope, OverrideKey
    <3>2. write' = [kind |-> "update", key |-> k, row |-> row]
      BY <2>4 DEF OverrideKey
    <3> QED
      BY <3>1, <3>2
  <2> QED
    BY <2>3, <2>4
<1>4. KeyInv' /\ write'.key = k
  BY <1>1, <1>2, <1>3, BeginWrite DEF TypeInv
<1>5. SurveyInv'
  BY <1>1, <1>2, <1>4 DEF SurveyInv, DataOf, FreshOf, LifeOf, Given
<1> QED
  BY <1>4, <1>5 DEF SecretsInv, KeyInv

(* A task stores its survey secrets.                                       *)
LEMMA StoreSecretKeeps ==
    ASSUME SecretsInv, NEW t \in Tasks, StoreSecret(t)
    PROVE  SecretsInv'
<1>1. KeyInv /\ TypeInv /\ SurveyInv /\ t \in Keys /\ t \in Nat /\ tasks[t] \in TaskState
  BY Constants DEF SecretsInv, KeyInv, TypeInv
<1>2. /\ UNCHANGED <<disk, keyset, pending, rows, jwt, cli, verdict, backup>>
      /\ write = Nothing /\ tasks[t].at = "created"
      /\ tasks' = [tasks EXCEPT ![t].at = "storing"]
      /\ write' = [kind |-> "create", key |-> t,
                   row |-> [name |-> t, source |-> "local", secret |-> Serialized(tasks[t].wants)]]
  BY DEF StoreSecret
<1>3. /\ tasks' \in [Tasks -> TaskState] /\ \A x \in Tasks : x # t => tasks'[x] = tasks[x]
      /\ tasks'[t].at = "storing" /\ tasks'[t].wants = tasks[t].wants /\ tasks'[t].status = tasks[t].status
  BY <1>1, <1>2 DEF TypeInv, TaskState
<1>4. tasks[t].wants \in Values
  BY <1>1, <1>2 DEF SurveyInv, LifeOf, Lives, TaskState
<1> DEFINE row == [name |-> t, source |-> "local", secret |-> Serialized(tasks[t].wants)]
<1>5. Serialized(tasks[t].wants) \in Envelope /\ Serialized(tasks[t].wants).plain = tasks[t].wants
      /\ Serialized(tasks[t].wants) # NoSecret
  BY <1>1, <1>4, SerializedBy
<1>6. row \in GoodRow /\ row.source = "local" /\ row.secret = Serialized(tasks[t].wants)
  BY <1>1, <1>5 DEF GoodRow, Row, Envelope
<1> HIDE DEF row
<1>7. write' = [kind |-> "create", key |-> t, row |-> row]
  BY <1>2 DEF row
<1>8. KeyInv' /\ write' # Nothing /\ write'.key = t /\ write'.row = row /\ write'.kind = "create"
  BY <1>1, <1>2, <1>3, <1>4, <1>6, <1>7, BeginWrite
<1>9. SurveyInv'
  <2> SUFFICES ASSUME NEW x \in Tasks
               PROVE  (DataOf(x) /\ FreshOf(x) /\ LifeOf(x))'
    BY DEF SurveyInv
  <2>1. DataOf(x) /\ FreshOf(x) /\ LifeOf(x)
    BY <1>1 DEF SurveyInv
  <2>2. CASE x # t
    BY <1>2, <1>3, <1>8, <2>1, <2>2 DEF DataOf, FreshOf, LifeOf, Given
  <2>3. CASE x = t
    BY <1>2, <1>3, <1>5, <1>6, <1>8, <2>1, <2>3 DEF DataOf, FreshOf, LifeOf, Lives, Given
  <2> QED
    BY <2>2, <2>3
<1> QED
  BY <1>8, <1>9 DEF SecretsInv, KeyInv

(* The server starts again with the keys file and without its memory.      *)
LEMMA RestartKeeps ==
    ASSUME SecretsInv, Restart
    PROVE  SecretsInv'
<1>1. KeyInv /\ TypeInv /\ SurveyInv
  BY DEF SecretsInv, KeyInv
<1>2. /\ UNCHANGED <<disk, rows, jwt, cli, verdict, backup>>
      /\ keyset' = Resolve(disk) /\ write' = Nothing
      /\ pending' = [w \in Reloaders |-> Nothing]
      /\ tasks' = [t \in Tasks |-> IF tasks[t].at \in {"created", "storing", "queued", "sent", "running", "ended"}
                                 THEN [tasks[t] EXCEPT !.at = "lost"] ELSE tasks[t]]
  BY DEF Restart
<1>3. ASSUME NEW t \in Tasks
      PROVE  /\ tasks'[t] \in TaskState /\ tasks'[t].wants = tasks[t].wants
             /\ tasks'[t].at \in {tasks[t].at, "lost"}
             /\ tasks'[t].at \notin {"created", "storing", "queued", "sent", "running"}
  <2>1. tasks[t] \in TaskState
    BY <1>1 DEF TypeInv
  <2> QED
    BY <1>2, <2>1 DEF TaskState
<1>4. tasks' \in [Tasks -> TaskState]
  BY <1>2, <1>3
<1>5. keyset' \in Keyset /\ keyset'.access \in keyset'.byID /\ keyset'.access \in disk.reg
      /\ \A m \in Materials : OutOfUse(m) => m # keyset'.access
  BY <1>1, <1>2, ResolvedKeyset
<1>6. pending' \in [Reloaders -> Keyset \cup {Nothing}] /\ \A w \in Reloaders : pending'[w] = Nothing
  BY <1>2
<1>7. TypeInv'
  BY <1>1, <1>2, <1>4, <1>5, <1>6 DEF TypeInv
<1>8. StaysOut
  BY <1>2, <1>5, <1>6 DEF StaysOut
<1>9. KeyInv'
  BY <1>1, <1>2, <1>5, <1>6, <1>7, <1>8, MemoryStep
<1>10. SurveyInv'
  <2> SUFFICES ASSUME NEW x \in Tasks
               PROVE  (DataOf(x) /\ FreshOf(x) /\ LifeOf(x))'
    BY DEF SurveyInv
  <2>1. DataOf(x) /\ FreshOf(x) /\ LifeOf(x)
    BY <1>1 DEF SurveyInv
  <2>2. DataOf(x)'
    BY <1>2, <1>3, <2>1 DEF DataOf, Given
  <2>3. FreshOf(x)'
    BY <1>2, <1>3, <2>1 DEF FreshOf
  <2>4. LifeOf(x)'
    BY <1>3 DEF LifeOf, Lives
  <2> QED
    BY <2>2, <2>3, <2>4
<1> QED
  BY <1>9, <1>10 DEF SecretsInv, KeyInv

-----------------------------------------------------------------------------
(* The operator.                                                           *)

(* The keys file changes and keeps every key that is still needed.         *)
LEMMA DiskStep ==
    ASSUME KeyInv, UNCHANGED <<keyset, pending, rows, jwt, write, cli, verdict, backup, tasks>>,
           disk' \in [reg : SUBSET Materials, access : Materials, option : Materials \cup {NoKey}],
           disk'.access \in disk'.reg, disk'.option \in {NoKey, disk'.access},
           disk.access <= disk'.access,
           NEW gone \in SUBSET Materials, disk.reg \ gone \subseteq disk'.reg,
           gone # {} => cli = Idle,
           \A m \in gone : OutOfUse(m) /\ Unneeded(m)
    PROVE  KeyInv'
<1>1. TypeInv'
  BY DEF KeyInv, TypeInv
<1>2. \A m \in Materials : OutOfUse(m) => OutOfUse(m)'
  <2>1. disk.access \in Nat /\ disk'.access \in Nat /\ Materials \subseteq Nat
    BY Constants DEF KeyInv, TypeInv
  <2>2. \A m \in Materials : m < disk.access => m < disk'.access
    BY <2>1
  <2> QED
    BY <2>2 DEF OutOfUse
<1>3. \A m \in Materials : Unneeded(m) => Unneeded(m)'
  BY DEF Unneeded
<1>4. verdict.safe \subseteq Materials /\ (cli # Idle => cli.retired \subseteq Materials)
  BY DEF KeyInv, TypeInv, Process
<1>5. CheckInv'
  BY <1>2, <1>3, <1>4 DEF KeyInv, CheckInv
<1>6. EnvInv' /\ RekeyInv'
  BY DEF KeyInv, EnvInv, RekeyInv, RekeyComplete, OptionKey, Holds, Local
<1>7. KeysInv'
  <2>1. keyset.access \notin gone /\ \A w \in Reloaders : pending[w] # Nothing => pending[w].access \notin gone
    BY DEF OutOfUse
  <2>2. write # Nothing /\ write.row.secret # NoSecret => write.row.secret.mat \notin gone
    BY DEF OutOfUse
  <2>3. \A k \in Keys : rows[k] # NoRow /\ rows[k].secret # NoSecret => rows[k].secret.mat \notin gone
    BY DEF Unneeded, KeyInv, EnvInv, Holds, Local
  <2>4. jwt # NoSecret => jwt.mat \notin gone
    BY DEF Unneeded
  <2>5. cli # Idle => disk.reg \subseteq disk'.reg
    OBVIOUS
  <2> QED
    BY <2>1, <2>2, <2>3, <2>4, <2>5 DEF KeyInv, KeysInv, OnDisk
<1> QED
  BY <1>1, <1>5, <1>6, <1>7 DEF KeyInv

(* Keys are added, made active, and removed only when a check has shown    *)
(* that nothing needs them.                                                *)
LEMMA OperatorKeeps ==
    ASSUME SecretsInv, Operator
    PROVE  SecretsInv'
<1>1. KeyInv /\ TypeInv /\ SurveyInv /\ KeysInv /\ CheckInv
  BY DEF SecretsInv, KeyInv
<1>2. PICK m \in Materials : AddKeyFile(m) \/ SetActive(m) \/ RemoveKeyFile(m)
  BY DEF Operator
<1>3. UNCHANGED <<keyset, pending, rows, jwt, write, cli, verdict, backup, tasks>>
  BY <1>2 DEF AddKeyFile, SetActive, RemoveKeyFile
<1>4. /\ disk \in [reg : SUBSET Materials, access : Materials, option : Materials \cup {NoKey}]
      /\ disk.access \in Nat /\ m \in Nat /\ disk.access \in disk.reg /\ disk.option \in {NoKey, disk.access}
  BY <1>1, Constants DEF TypeInv, KeysInv
<1>5. ASSUME AddKeyFile(m) PROVE KeyInv'
  <2>1. disk' = [disk EXCEPT !.reg = @ \cup {m}]
    BY <1>5 DEF AddKeyFile
  <2>2. /\ disk' \in [reg : SUBSET Materials, access : Materials, option : Materials \cup {NoKey}]
        /\ disk'.access = disk.access /\ disk'.option = disk.option /\ disk'.reg = disk.reg \cup {m}
    BY <1>4, <2>1
  <2>3. disk.access <= disk'.access
    BY <1>4, <2>2
  <2>4. PICK gone \in SUBSET Materials : gone = {}
    OBVIOUS
  <2>5. disk.reg \ gone \subseteq disk'.reg /\ disk'.access \in disk'.reg
    BY <1>4, <2>2
  <2> QED
    BY <1>1, <1>3, <1>4, <2>2, <2>3, <2>4, <2>5, DiskStep
<1>6. ASSUME SetActive(m) PROVE KeyInv'
  <2>1. m \in disk.reg /\ m > disk.access /\ disk' = [disk EXCEPT !.access = m, !.option = IF @ = NoKey THEN NoKey ELSE m]
    BY <1>6 DEF SetActive
  <2>2. /\ disk' \in [reg : SUBSET Materials, access : Materials, option : Materials \cup {NoKey}]
        /\ disk'.access = m /\ disk'.option \in {NoKey, m} /\ disk'.reg = disk.reg
    BY <1>4, <2>1
  <2>3. disk.access <= disk'.access
    BY <1>4, <2>1, <2>2
  <2>4. PICK gone \in SUBSET Materials : gone = {}
    OBVIOUS
  <2>5. disk.reg \ gone \subseteq disk'.reg /\ disk'.access \in disk'.reg
    BY <2>1, <2>2
  <2> QED
    BY <1>1, <1>3, <1>4, <2>2, <2>3, <2>4, <2>5, DiskStep
<1>7. ASSUME RemoveKeyFile(m) PROVE KeyInv'
  <2>1. /\ m \in verdict.safe \cap verdict.retired /\ verdict.clean /\ ~verdict.moved
        /\ disk' = [disk EXCEPT !.reg = @ \ {m}]
    BY <1>7 DEF RemoveKeyFile
  <2>2. /\ disk' \in [reg : SUBSET Materials, access : Materials, option : Materials \cup {NoKey}]
        /\ disk'.access = disk.access /\ disk'.option = disk.option /\ disk'.reg = disk.reg \ {m}
    BY <1>4, <2>1
  <2>3. OutOfUse(m) /\ Unneeded(m)
    BY <1>1, <2>1 DEF CheckInv
  <2>4. cli = Idle
    BY <1>1, <2>1 DEF CheckInv, NoVerdict
  <2>5. disk'.access \in disk'.reg /\ disk.access <= disk'.access
    BY <1>4, <2>2, <2>3 DEF OutOfUse
  <2> QED
    BY <1>1, <1>3, <1>4, <2>2, <2>3, <2>4, <2>5, DiskStep
<1>8. SurveyInv'
  BY <1>1, <1>3 DEF SurveyInv, DataOf, FreshOf, LifeOf, Given
<1> QED
  BY <1>2, <1>5, <1>6, <1>7, <1>8 DEF SecretsInv, KeyInv

-----------------------------------------------------------------------------
(* Tasks.                                                                  *)

(* What happens to a task alone does not concern the keys.                 *)
LEMMA TaskStep ==
    ASSUME KeyInv, tasks' \in [Tasks -> TaskState],
           UNCHANGED <<disk, keyset, pending, rows, jwt, write, cli, verdict, backup>>
    PROVE  KeyInv'
<1>1. TypeInv'
  BY DEF KeyInv, TypeInv
<1>2. StaysOut
  BY DEF StaysOut, OutOfUse
<1> QED
  BY <1>1, <1>2, MemoryStep DEF KeyInv, KeysInv, EnvInv

(* What a step may do to the record of a task.                             *)
Moves(s, old, present) ==
    /\ s.wants = old.wants \/ old.at = "none"
    /\ old.at = "storing" => s.at = "storing"
    /\ s.at \in {"none", "created", "storing"} => old.at \in {"none", "created", "storing"}
    /\ Lives(s, present)

(* A dispatched task gets what it was given, or fails, or was stopped early. *)
LEMMA DispatchMoves ==
    ASSUME TypeInv, NEW t \in Tasks, t \in Keys, DataOf(t), LifeOf(t), Dispatch(t)
    PROVE  \E s \in TaskState : tasks' = [tasks EXCEPT ![t] = s] /\ Moves(s, tasks[t], rows[t] # NoRow)
<1>1. tasks[t] \in TaskState /\ NoRow \notin GoodRow
  BY Constants DEF TypeInv
<1>2. PICK over \in BOOLEAN : tasks' = [tasks EXCEPT ![t] =
                IF SurveyFails(t) THEN [@ EXCEPT !.at = "ended", !.status = IF over THEN "error" ELSE Sticky(t, "error")]
                ELSE [@ EXCEPT !.at = "sent", !.got = SurveySecrets(t),
                               !.status = IF over THEN "starting" ELSE Sticky(t, "starting")]]
  BY DEF Dispatch
<1>3. tasks[t].at = "queued" \/ (tasks[t].at = "sent" /\ tasks[t].status \notin Final)
  BY DEF Dispatch
<1>4. CASE SurveyFails(t)
  <2> DEFINE w == IF over THEN "error" ELSE Sticky(t, "error")
  <2> DEFINE s == [tasks[t] EXCEPT !.at = "ended", !.status = w]
  <2>1. tasks' = [tasks EXCEPT ![t] = s]
    BY <1>2, <1>4
  <2>2. w \in {"error", "stopped"}
    BY DEF Sticky
  <2> HIDE DEF w
  <2>3. s \in TaskState /\ s.at = "ended" /\ s.wants = tasks[t].wants
    BY <1>1, <2>2 DEF TaskState, Final
  <2> HIDE DEF s
  <2>4. Moves(s, tasks[t], rows[t] # NoRow)
    BY <1>3, <2>3 DEF Moves, Lives
  <2> QED
    BY <2>1, <2>3, <2>4
<1>5. CASE ~SurveyFails(t)
  <2> DEFINE w == IF over THEN "starting" ELSE Sticky(t, "starting")
  <2> DEFINE s == [tasks[t] EXCEPT !.at = "sent", !.got = SurveySecrets(t), !.status = w]
  <2>1. tasks' = [tasks EXCEPT ![t] = s]
    BY <1>2, <1>5
  <2>2. w \in {"starting", "stopped"}
    BY DEF Sticky
  <2> HIDE DEF w
  <2>3. rows[t] # NoRow => SurveySecrets(t) = tasks[t].wants
    BY DEF SurveySecrets, DataOf, Given, Holds, Local
  <2>4. rows[t] = NoRow => SurveySecrets(t) = NoValue
    BY DEF SurveySecrets
  <2>5. tasks[t].wants # NoValue => rows[t] # NoRow \/ Missed(tasks[t])
    BY <1>3 DEF LifeOf, Lives
  <2>6. SurveySecrets(t) \in Values \cup {NoValue}
    BY <1>1, <2>3, <2>4 DEF TaskState
  <2>7. /\ s \in TaskState /\ s.at = "sent" /\ s.got = SurveySecrets(t) /\ s.wants = tasks[t].wants
        /\ s.early = tasks[t].early /\ s.expired = tasks[t].expired
    BY <1>1, <2>2, <2>6 DEF TaskState, Final
  <2> HIDE DEF s
  <2>8. Moves(s, tasks[t], rows[t] # NoRow)
    BY <1>3, <2>3, <2>4, <2>5, <2>7 DEF Moves, Lives, Missed
  <2> QED
    BY <2>1, <2>7, <2>8
<1> QED
  BY <1>4, <1>5

LEMMA TaskKeeps ==
    ASSUME SecretsInv, NEW t \in Tasks, NEW v \in NewValues \cup {NoValue},
           AddTask(t, v) \/ Dispatch(t) \/ StartRun(t) \/ StopTask(t) \/ Unqueue(t) \/ EndRun(t) \/ Expire(t)
    PROVE  SecretsInv'
<1>1. KeyInv /\ TypeInv /\ SurveyInv /\ tasks[t] \in TaskState /\ t \in Keys
  BY Constants DEF SecretsInv, KeyInv, TypeInv
<1>2. UNCHANGED <<disk, keyset, pending, rows, jwt, write, cli, verdict, backup>>
  BY DEF AddTask, Dispatch, StartRun, StopTask, Unqueue, EndRun, Expire
<1>3. DataOf(t) /\ FreshOf(t) /\ LifeOf(t)
  BY <1>1 DEF SurveyInv
<1>4. Lives(tasks[t], rows[t] # NoRow)
  BY <1>3 DEF LifeOf
<1>5. v \in Values \cup {NoValue}
  BY DEF NewValues
<1>6. \E s \in TaskState : tasks' = [tasks EXCEPT ![t] = s] /\ Moves(s, tasks[t], rows[t] # NoRow)
  <2>1. CASE AddTask(t, v)
    <3> DEFINE s == [tasks[t] EXCEPT !.at = IF v = NoValue THEN "queued" ELSE "created", !.status = "waiting", !.wants = v]
    <3>1. tasks' = [tasks EXCEPT ![t] = s] /\ tasks[t].at = "none"
      BY <2>1 DEF AddTask
    <3>2. s \in TaskState /\ s.at = (IF v = NoValue THEN "queued" ELSE "created") /\ s.status = "waiting" /\ s.wants = v
      BY <1>1, <1>5 DEF TaskState
    <3> HIDE DEF s
    <3>3. Moves(s, tasks[t], rows[t] # NoRow)
      BY <3>1, <3>2 DEF Moves, Lives, Final
    <3> QED
      BY <3>1, <3>2, <3>3
  <2>2. CASE Dispatch(t)
    BY <1>1, <1>3, <2>2, DispatchMoves
  <2>3. CASE StartRun(t)
    <3> DEFINE w == Sticky(t, "running")
    <3> DEFINE s == [tasks[t] EXCEPT !.at = "running", !.status = w]
    <3>1. tasks' = [tasks EXCEPT ![t] = s] /\ tasks[t].at = "sent"
      BY <1>1, <2>3 DEF StartRun, TypeInv
    <3>2. w \in {"running", "stopped"}
      BY DEF Sticky
    <3> HIDE DEF w
    <3>3. /\ s \in TaskState /\ s.at = "running" /\ s.wants = tasks[t].wants /\ s.got = tasks[t].got
          /\ s.early = tasks[t].early /\ s.expired = tasks[t].expired
      BY <1>1, <3>2 DEF TaskState, Final
    <3> HIDE DEF s
    <3>4. Moves(s, tasks[t], rows[t] # NoRow)
      BY <1>4, <3>1, <3>3 DEF Moves, Lives, Missed
    <3> QED
      BY <3>1, <3>3, <3>4
  <2>4. CASE StopTask(t)
    <3> DEFINE e == tasks[t].early \/ tasks[t].at = "queued"
    <3> DEFINE s == [tasks[t] EXCEPT !.status = "stopped", !.early = e]
    <3>1. tasks' = [tasks EXCEPT ![t] = s] /\ tasks[t].at \in {"queued", "sent", "running", "lost"}
      BY <1>1, <2>4 DEF StopTask, TypeInv
    <3>2. e \in BOOLEAN /\ (tasks[t].at = "queued" => e) /\ (tasks[t].early => e)
      BY <1>1 DEF TaskState
    <3> HIDE DEF e
    <3>3. /\ s \in TaskState /\ s.at = tasks[t].at /\ s.wants = tasks[t].wants /\ s.got = tasks[t].got
          /\ s.early = e /\ s.expired = tasks[t].expired /\ s.status = "stopped"
      BY <1>1, <3>2 DEF TaskState, Final
    <3> HIDE DEF s
    <3>4. Moves(s, tasks[t], rows[t] # NoRow)
      BY <1>4, <3>1, <3>2, <3>3 DEF Moves, Lives, Missed, Final
    <3> QED
      BY <3>1, <3>3, <3>4
  <2>5. CASE Unqueue(t)
    <3> DEFINE s == [tasks[t] EXCEPT !.at = "lost"]
    <3>1. tasks' = [tasks EXCEPT ![t] = s] /\ tasks[t].at = "queued"
      BY <1>1, <2>5 DEF Unqueue, TypeInv
    <3>2. s \in TaskState /\ s.at = "lost" /\ s.wants = tasks[t].wants
      BY <1>1 DEF TaskState
    <3> HIDE DEF s
    <3>3. Moves(s, tasks[t], rows[t] # NoRow)
      BY <3>1, <3>2 DEF Moves, Lives
    <3> QED
      BY <3>1, <3>2, <3>3
  <2>6. CASE EndRun(t)
    <3> DEFINE w == IF tasks[t].at = "queued" THEN "stopped" ELSE Sticky(t, "success")
    <3> DEFINE s == [tasks[t] EXCEPT !.at = "ended", !.status = w]
    <3>1. tasks' = [tasks EXCEPT ![t] = s] /\ tasks[t].at \in {"queued", "sent", "running"}
      BY <1>1, <2>6 DEF EndRun, TypeInv
    <3>2. w \in Final
      BY DEF Sticky, Final
    <3> HIDE DEF w
    <3>3. s \in TaskState /\ s.at = "ended" /\ s.wants = tasks[t].wants
      BY <1>1, <3>2 DEF TaskState
    <3> HIDE DEF s
    <3>4. Moves(s, tasks[t], rows[t] # NoRow)
      BY <3>1, <3>3 DEF Moves, Lives
    <3> QED
      BY <3>1, <3>3, <3>4
  <2>7. CASE Expire(t)
    <3> DEFINE s == [tasks[t] EXCEPT !.expired = TRUE]
    <3>1. tasks' = [tasks EXCEPT ![t] = s]
      BY <1>1, <2>7 DEF Expire, TypeInv
    <3>2. /\ s \in TaskState /\ s.at = tasks[t].at /\ s.wants = tasks[t].wants /\ s.status = tasks[t].status
          /\ s.got = tasks[t].got /\ s.early = tasks[t].early /\ s.expired
      BY <1>1 DEF TaskState
    <3> HIDE DEF s
    <3>3. Moves(s, tasks[t], rows[t] # NoRow)
      BY <1>4, <3>2 DEF Moves, Lives, Missed
    <3> QED
      BY <3>1, <3>2, <3>3
  <2> QED
    BY <2>1, <2>2, <2>3, <2>4, <2>5, <2>6, <2>7
<1>7. tasks' \in [Tasks -> TaskState] /\ \A x \in Tasks : x # t => tasks'[x] = tasks[x]
  BY <1>1, <1>6 DEF TypeInv
<1>8. KeyInv'
  BY <1>1, <1>2, <1>7, TaskStep
<1>9. (DataOf(t) /\ FreshOf(t) /\ LifeOf(t))'
  <2>1. PICK s \in TaskState : tasks'[t] = s /\ Moves(s, tasks[t], rows[t] # NoRow)
    BY <1>1, <1>6 DEF TypeInv
  <2>2. write # Nothing => write.key # t \/ tasks[t].at = "storing"
    BY <1>3 DEF DataOf
  <2>3. DataOf(t)'
    BY <1>2, <1>3, <2>1, <2>2 DEF DataOf, FreshOf, Given, Moves
  <2>4. FreshOf(t)'
    BY <1>2, <1>3, <2>1 DEF FreshOf, Moves
  <2>5. LifeOf(t)'
    BY <1>2, <2>1 DEF LifeOf, Moves
  <2> QED
    BY <2>3, <2>4, <2>5
<1>10. SurveyInv'
  BY <1>1, <1>2, <1>7, <1>9 DEF SurveyInv, DataOf, FreshOf, LifeOf, Given
<1> QED
  BY <1>8, <1>10 DEF SecretsInv, KeyInv

-----------------------------------------------------------------------------
(* Steps of users and tasks that change the table.                         *)

(* A running command notes what is written behind its back.                *)
LEMMA Disturbed ==
    ASSUME KeyInv, NEW k \in Keys, NEW mv \in BOOLEAN, cli' = Disturb(k, mv)
    PROVE  /\ cli = Idle => cli' = Idle
           /\ cli # Idle =>
                /\ cli' \in Process /\ cli' # Idle
                /\ cli'.cmd = cli.cmd /\ cli'.ks = cli.ks /\ cli'.old = cli.old /\ cli'.page = cli.page
                /\ cli'.batch = cli.batch /\ cli'.lines = cli.lines /\ cli'.seen = cli.seen
                /\ cli'.index = cli.index /\ cli'.retired = cli.retired
                /\ cli.cmd \in {"rekey", "rekeyed", "check"} =>
                     /\ cli'.dirty = cli.dirty \cup {k} /\ cli'.touched = cli.touched \cup {k}
                     /\ cli'.moved = (cli.moved \/ mv)
<1>1. cli = Idle => cli' = Idle
  BY DEF Disturb, Idle
<1>2. ASSUME cli # Idle PROVE cli \in Process
  BY <1>2 DEF KeyInv, TypeInv
<1>3. ASSUME NEW p \in Process PROVE p # Idle
  BY <1>3 DEF Process, Idle
<1>4. ASSUME cli # Idle, cli.cmd \notin {"rekey", "rekeyed", "check"}
      PROVE  cli' = cli
  BY <1>4 DEF Disturb
<1>5. ASSUME cli # Idle, cli.cmd \in {"rekey", "rekeyed", "check"}
      PROVE  /\ cli' \in Process
             /\ cli'.cmd = cli.cmd /\ cli'.ks = cli.ks /\ cli'.old = cli.old /\ cli'.page = cli.page
             /\ cli'.batch = cli.batch /\ cli'.lines = cli.lines /\ cli'.seen = cli.seen
             /\ cli'.index = cli.index /\ cli'.retired = cli.retired
             /\ cli'.dirty = cli.dirty \cup {k} /\ cli'.touched = cli.touched \cup {k}
             /\ cli'.moved = (cli.moved \/ mv)
  <2>1. cli' = [cli EXCEPT !.dirty = @ \cup {k}, !.touched = @ \cup {k}, !.moved = @ \/ mv]
    BY <1>5 DEF Disturb
  <2>2. PICK b \in BOOLEAN : b = (cli.moved \/ mv)
    OBVIOUS
  <2>3. cli \in Process
    BY <1>2, <1>5
  <2>4. cli' = [cli EXCEPT !.dirty = @ \cup {k}, !.touched = @ \cup {k}, !.moved = b]
    BY <2>1, <2>2, Zenon
  <2>5. /\ cli' \in Process
        /\ cli'.cmd = cli.cmd /\ cli'.ks = cli.ks /\ cli'.old = cli.old /\ cli'.page = cli.page
        /\ cli'.batch = cli.batch /\ cli'.lines = cli.lines /\ cli'.seen = cli.seen
        /\ cli'.index = cli.index /\ cli'.retired = cli.retired
        /\ cli'.dirty = cli.dirty \cup {k} /\ cli'.touched = cli.touched \cup {k}
        /\ cli'.moved = b
    <3>1. cli.dirty \cup {k} \in SUBSET Keys /\ cli.touched \cup {k} \in SUBSET Keys
      BY <2>3 DEF Process
    <3>2. ASSUME NEW p \in Process, NEW D \in SUBSET Keys, NEW T \in SUBSET Keys,
                 cli' = [p EXCEPT !.dirty = D, !.touched = T, !.moved = b]
          PROVE  /\ cli' \in Process
                 /\ cli'.cmd = p.cmd /\ cli'.ks = p.ks /\ cli'.old = p.old /\ cli'.page = p.page
                 /\ cli'.batch = p.batch /\ cli'.lines = p.lines /\ cli'.seen = p.seen
                 /\ cli'.index = p.index /\ cli'.retired = p.retired
                 /\ cli'.dirty = D /\ cli'.touched = T /\ cli'.moved = b
      BY <3>2 DEF Process
    <3> QED
      BY <2>3, <2>4, <3>1, <3>2
  <2> QED
    BY <2>2, <2>5, Zenon
<1> QED
  BY <1>1, <1>2, <1>3, <1>4, <1>5

(* One row of the table is written with a key in use, or removed.          *)
LEMMA TableStep ==
    ASSUME KeyInv, NEW k \in Keys, NEW row \in GoodRow \cup {NoRow}, NEW mv \in BOOLEAN,
           rows' = [rows EXCEPT ![k] = row], cli' = Disturb(k, mv),
           UNCHANGED <<disk, keyset, pending, jwt, verdict, backup>>, write' \in {write, Nothing},
           tasks' \in [Tasks -> TaskState],
           row # NoRow => OnDisk(row.secret) /\ (row.source # "local" => row.secret = NoSecret),
           ~mv => ((row = NoRow) <=> (rows[k] = NoRow)) /\ (row # NoRow => row.name = rows[k].name),
           Holds(row) => \/ Holds(rows[k]) /\ row.secret = rows[k].secret
                         \/ \A m \in Materials : OutOfUse(m) => row.secret.mat # m
    PROVE  KeyInv'
<1>1. rows \in Table /\ TypeInv /\ KeysInv /\ CheckInv /\ EnvInv /\ RekeyInv
  BY DEF KeyInv, TypeInv
<1>2. rows' \in Table /\ rows'[k] = row /\ \A j \in Keys : j # k => rows'[j] = rows[j]
  BY <1>1 DEF Table
<1>3. /\ cli = Idle => cli' = Idle
      /\ cli # Idle =>
                /\ cli' \in Process /\ cli' # Idle
                /\ cli'.cmd = cli.cmd /\ cli'.ks = cli.ks /\ cli'.old = cli.old /\ cli'.page = cli.page
                /\ cli'.batch = cli.batch /\ cli'.lines = cli.lines /\ cli'.seen = cli.seen
                /\ cli'.index = cli.index /\ cli'.retired = cli.retired
                /\ cli.cmd \in {"rekey", "rekeyed", "check"} =>
                     /\ cli'.dirty = cli.dirty \cup {k} /\ cli'.touched = cli.touched \cup {k}
                     /\ cli'.moved = (cli.moved \/ mv)
  BY Disturbed
<1>4. TypeInv'
  <2>1. cli' \in Process \cup {Idle}
    BY <1>3
  <2> QED
    BY <1>1, <1>2, <2>1 DEF TypeInv
<1>5. KeysInv'
  <2>1. \A j \in Keys : rows'[j] # NoRow => OnDisk(rows'[j].secret)
    BY <1>1, <1>2 DEF KeysInv
  <2>2. write' # Nothing => OnDisk(write'.row.secret)
    BY <1>1 DEF KeysInv
  <2> QED
    BY <1>1, <1>3, <2>1, <2>2 DEF KeysInv, OnDisk
<1>6. \A m \in Materials : OutOfUse(m) => OutOfUse(m)'
  BY DEF OutOfUse
<1>7. \A m \in Materials : OutOfUse(m) /\ Unneeded(m) => Unneeded(m)'
  <2> SUFFICES ASSUME NEW m \in Materials, OutOfUse(m), Unneeded(m), NEW j \in Keys, Holds(rows'[j])
               PROVE  rows'[j].secret.mat # m
    BY DEF Unneeded
  <2> QED
    BY <1>2 DEF Unneeded
<1>8. ASSUME cli # Idle, ~mv PROVE Reached(rows', cli.page) = Reached(rows, cli.page)
  <2>1. cli.page \in Nat
    BY <1>1, <1>8 DEF TypeInv, Process
  <2>2. \A j \in Keys : (rows'[j] = NoRow) <=> (rows[j] = NoRow)
    BY <1>2, <1>8
  <2>3. \A j \in Keys : rows[j] # NoRow => rows'[j].name = rows[j].name
    BY <1>2, <1>8
  <2> QED
    BY <1>1, <1>2, <2>1, <2>2, <2>3, SamePages
<1>9. CheckInv'
  <2>1. cli' # Idle => verdict' = NoVerdict
    BY <1>1, <1>3 DEF CheckInv
  <2>2. verdict'.clean /\ ~verdict'.moved => \A m \in verdict'.safe \cap verdict'.retired : OutOfUse(m)' /\ Unneeded(m)'
    <3>1. verdict.safe \subseteq Materials
      BY <1>1 DEF TypeInv
    <3> QED
      BY <1>1, <1>6, <1>7, <3>1 DEF CheckInv
  <2>3. ASSUME cli' # Idle, cli'.cmd = "check", NEW m \in cli'.retired
        PROVE  OutOfUse(m)' /\ (~cli'.moved => \A j \in Reached(rows', cli'.page) :
                 Holds(rows'[j]) /\ rows'[j].secret.mat = m => rows'[j].secret.id \in cli'.seen)
    <3>1. cli # Idle /\ cli.cmd = "check" /\ m \in cli.retired /\ m \in Materials
      BY <1>1, <1>3, <2>3 DEF TypeInv, Process
    <3>2. OutOfUse(m) /\ OutOfUse(m)'
      BY <1>1, <1>6, <3>1 DEF CheckInv
    <3>3. ASSUME ~cli'.moved, NEW j \in Reached(rows', cli'.page), Holds(rows'[j]), rows'[j].secret.mat = m
          PROVE  rows'[j].secret.id \in cli'.seen
      <4>1. ~mv /\ ~cli.moved
        BY <1>3, <3>1, <3>3
      <4>2. j \in Reached(rows, cli.page) /\ j \in Keys
        BY <1>3, <1>8, <3>1, <3>3, <4>1 DEF Reached, Listed
      <4>3. Holds(rows[j]) /\ rows[j].secret = rows'[j].secret
        BY <1>2, <3>2, <3>3, <3>1, <4>2
      <4> QED
        BY <1>1, <1>3, <3>1, <3>3, <4>1, <4>2, <4>3 DEF CheckInv
    <3> QED
      BY <3>2, <3>3
  <2> QED
    BY <2>1, <2>2, <2>3 DEF CheckInv
<1>10. EnvInv'
  <2>1. \A j \in Keys : rows'[j] # NoRow /\ rows'[j].source # "local" => rows'[j].secret = NoSecret
    BY <1>1, <1>2 DEF EnvInv
  <2> QED
    BY <1>1, <1>3, <2>1 DEF EnvInv
<1>11. RekeyInv'
  <2>1. ASSUME cli' # Idle, cli'.cmd = "rekey"
        PROVE  /\ \A e, f \in cli'.batch : e.key = f.key => e = f
               /\ cli'.dirty \subseteq cli'.touched
               /\ \A e \in cli'.batch : e.key \notin cli'.dirty => rows'[e.key] = e.row
    <3>1. cli # Idle /\ cli.cmd = "rekey"
      BY <1>3, <2>1
    <3>2. \A e \in cli.batch : e.key \in Keys
      BY <1>1, <3>1 DEF TypeInv, Process, Entry
    <3> QED
      BY <1>1, <1>2, <1>3, <3>1, <3>2 DEF RekeyInv
  <2>2. ASSUME cli' # Idle, cli'.cmd = "rekey", ~cli'.moved
        PROVE  /\ \A e \in cli'.batch : rows'[e.key] # NoRow /\ rows'[e.key].name = e.row.name
               /\ \A j \in Reached(rows', cli'.page) \ cli'.touched :
                    Holds(rows'[j]) => \/ rows'[j].secret.id = cli'.ks.access
                                       \/ \E e \in cli'.batch : e.key = j
    <3>1. cli # Idle /\ cli.cmd = "rekey" /\ ~cli.moved /\ ~mv
      BY <1>3, <2>2
    <3>2. \A e \in cli.batch : e.key \in Keys /\ rows[e.key] # NoRow /\ rows[e.key].name = e.row.name
      BY <1>1, <3>1 DEF TypeInv, Process, Entry, RekeyInv
    <3>3. \A e \in cli'.batch : rows'[e.key] # NoRow /\ rows'[e.key].name = e.row.name
      BY <1>2, <1>3, <3>1, <3>2
    <3>4. \A j \in Reached(rows', cli'.page) \ cli'.touched : j \in Reached(rows, cli.page) \ cli.touched /\ j \in Keys /\ j # k
      BY <1>3, <1>8, <3>1 DEF Reached, Listed
    <3>5. \A j \in Reached(rows, cli.page) \ cli.touched :
            Holds(rows[j]) => rows[j].secret.id = cli.ks.access \/ \E e \in cli.batch : e.key = j
      BY <1>1, <3>1 DEF RekeyInv
    <3>6. ASSUME NEW j \in Reached(rows', cli'.page) \ cli'.touched, Holds(rows'[j])
          PROVE  rows'[j].secret.id = cli'.ks.access \/ \E e \in cli'.batch : e.key = j
      <4>1. j \in Reached(rows, cli.page) \ cli.touched /\ rows'[j] = rows[j]
        BY <1>2, <3>4
      <4>2. rows[j].secret.id = cli.ks.access \/ \E e \in cli.batch : e.key = j
        BY <3>5, <3>6, <4>1
      <4> QED
        BY <1>3, <3>1, <4>1, <4>2
    <3> QED
      BY <3>3, <3>6
  <2>3. cli' # Idle /\ cli'.cmd # "rekey" => cli'.batch = {}
    BY <1>1, <1>3 DEF RekeyInv
  <2>4. RekeyComplete'
    <3> SUFFICES ASSUME cli'.cmd = "rekeyed", ~cli'.moved
                 PROVE  /\ \A j \in Keys \ cli'.touched : Holds(rows'[j]) => rows'[j].secret.id = cli'.ks.access
                        /\ jwt' # NoSecret => jwt'.id = OptionKey(cli'.ks)
      BY DEF RekeyComplete
    <3>3. cli # Idle
      BY <1>3 DEF Idle
    <3>1. cli # Idle /\ cli.cmd = "rekeyed" /\ ~cli.moved
      BY <1>3, <3>3
    <3>2. \A j \in Keys \ cli'.touched : j # k /\ j \notin cli.touched
      BY <1>3, <3>1
    <3> QED
      BY <1>1, <1>2, <1>3, <3>1, <3>2 DEF RekeyInv, RekeyComplete
  <2> QED
    BY <2>1, <2>2, <2>3, <2>4 DEF RekeyInv
<1> QED
  BY <1>4, <1>5, <1>9, <1>10, <1>11 DEF KeyInv

\* No command holds more of the table than it did.
Forgets == cli' # Idle => cli # Idle /\ cli'.batch \subseteq cli.batch /\ cli'.lines \subseteq cli.lines

(* What does not concern a task leaves its secrets alone.                  *)
LEMMA SurveyFrame ==
    ASSUME SurveyInv, Forgets, backup' = backup, write' \in {write, Nothing},
           NEW x \in Tasks, rows'[x] = rows[x], tasks'[x] = tasks[x]
    PROVE  (DataOf(x) /\ FreshOf(x) /\ LifeOf(x))'
<1>1. DataOf(x) /\ FreshOf(x) /\ LifeOf(x)
  BY DEF SurveyInv
<1>2. DataOf(x)'
  BY <1>1 DEF DataOf, Given, Forgets
<1>3. FreshOf(x)'
  BY <1>1 DEF FreshOf, Forgets
<1>4. LifeOf(x)'
  BY <1>1 DEF LifeOf
<1> QED
  BY <1>2, <1>3, <1>4

(* The same for a task whose row is removed.                               *)
LEMMA SurveyGone ==
    ASSUME SurveyInv, Forgets, backup' = backup, write' = write,
           NEW x \in Tasks, rows'[x] = NoRow, tasks'[x].wants = tasks[x].wants, LifeOf(x)',
           tasks'[x].at = tasks[x].at \/ (tasks[x].at = "ended" /\ tasks'[x].at = "done")
    PROVE  (DataOf(x) /\ FreshOf(x) /\ LifeOf(x))'
<1>1. DataOf(x) /\ FreshOf(x)
  BY DEF SurveyInv
<1>2. DataOf(x)'
  BY <1>1 DEF DataOf, Given, Forgets
<1>3. FreshOf(x)'
  BY <1>1 DEF FreshOf, Forgets
<1> QED
  BY <1>2, <1>3

(* Users rename and delete keys.                                           *)
LEMMA UserTableKeeps ==
    ASSUME SecretsInv, NEW k \in UserKeys, (\E n \in Names : RenameKey(k, n)) \/ DeleteKey(k)
    PROVE  SecretsInv'
<1>1. KeyInv /\ TypeInv /\ SurveyInv /\ k \in Keys /\ k \notin Tasks
  BY Constants DEF SecretsInv, KeyInv
<1>2. UNCHANGED <<disk, keyset, pending, jwt, write, verdict, backup, tasks>> /\ cli' = Disturb(k, TRUE) /\ rows[k] # NoRow
  BY DEF RenameKey, DeleteKey
<1>3. rows[k] \in GoodRow /\ OnDisk(rows[k].secret) /\ (rows[k].source # "local" => rows[k].secret = NoSecret)
  BY <1>1, <1>2 DEF KeyInv, TypeInv, Table, KeysInv, EnvInv
<1>4. PICK row \in GoodRow \cup {NoRow} :
        /\ rows' = [rows EXCEPT ![k] = row]
        /\ row # NoRow => row.secret = rows[k].secret /\ row.source = rows[k].source
  <2>1. CASE \E n \in Names : RenameKey(k, n)
    <3>1. PICK n \in Names : RenameKey(k, n)
      BY <2>1
    <3> DEFINE row == [rows[k] EXCEPT !.name = n]
    <3>2. row \in GoodRow /\ row.secret = rows[k].secret /\ row.source = rows[k].source
      BY <1>3, Constants DEF GoodRow, Row
    <3>3. rows' = [rows EXCEPT ![k] = row]
      BY <1>1, <3>1 DEF RenameKey, TypeInv, Table
    <3> QED
      BY <3>2, <3>3
  <2>2. CASE DeleteKey(k)
    BY <2>2 DEF DeleteKey
  <2> QED
    BY <2>1, <2>2
<1>5. Holds(row) => Holds(rows[k]) /\ row.secret = rows[k].secret
  BY <1>2, <1>4 DEF Holds, Local
<1>6. tasks' \in [Tasks -> TaskState]
  BY <1>1, <1>2 DEF TypeInv
<1>7. row # NoRow => OnDisk(row.secret) /\ (row.source # "local" => row.secret = NoSecret)
  BY <1>3, <1>4
<1>8. KeyInv'
  BY <1>1, <1>2, <1>4, <1>5, <1>6, <1>7, TableStep
<1>9. Forgets
  BY <1>1, <1>2, Disturbed DEF Forgets
<1>10. \A x \in Tasks : rows'[x] = rows[x]
  BY <1>1, <1>4, Constants DEF TypeInv, Table
<1>11. SurveyInv'
  <2> SUFFICES ASSUME NEW x \in Tasks PROVE (DataOf(x) /\ FreshOf(x) /\ LifeOf(x))'
    BY DEF SurveyInv
  <2> QED
    BY <1>1, <1>2, <1>9, <1>10, SurveyFrame
<1> QED
  BY <1>8, <1>11 DEF SecretsInv, KeyInv

(* The SQL of a write: its row was encrypted with a key in use.            *)
LEMMA FinishWriteKeeps ==
    ASSUME SecretsInv, FinishWrite
    PROVE  SecretsInv'
<1>1. KeyInv /\ TypeInv /\ SurveyInv /\ KeysInv /\ EnvInv
  BY DEF SecretsInv, KeyInv
<1>2. PICK k \in Keys, row \in GoodRow : k = write.key /\ row = write.row /\ write # Nothing
  BY <1>1 DEF TypeInv, FinishWrite
<1> DEFINE lands == write.kind = "create" \/ rows[k] # NoRow
<1>3. /\ rows' = (IF lands THEN [rows EXCEPT ![k] = row] ELSE rows)
      /\ cli' = (IF lands THEN Disturb(k, write.kind = "create" \/ rows[k].name # row.name) ELSE cli)
      /\ tasks' = (IF k \in Tasks THEN [tasks EXCEPT ![k].at = "queued"] ELSE tasks)
      /\ write' = Nothing
      /\ UNCHANGED <<disk, keyset, pending, jwt, verdict, backup, budget>>
  BY <1>2 DEF FinishWrite
<1>4. tasks' \in [Tasks -> TaskState] /\ \A x \in Tasks : x # k => tasks'[x] = tasks[x]
  BY <1>1, <1>3 DEF TypeInv, TaskState
<1>5. OnDisk(row.secret) /\ (row.source # "local" => row.secret = NoSecret) /\ row # NoRow
  BY <1>1, <1>2, Constants DEF KeysInv, EnvInv
<1>6. row.secret # NoSecret => \A m \in Materials : OutOfUse(m) => row.secret.mat # m
  BY <1>2 DEF OutOfUse
<1>7. KeyInv' /\ Forgets
  <2>1. CASE lands
    <3>1. PICK mv \in BOOLEAN : mv = (write.kind = "create" \/ rows[k].name # row.name)
      OBVIOUS
    <3>2. rows' = [rows EXCEPT ![k] = row] /\ cli' = Disturb(k, mv)
      BY <1>3, <2>1, <3>1
    <3>3. ~mv => rows[k] # NoRow /\ row.name = rows[k].name
      BY <2>1, <3>1
    <3>4. KeyInv'
      BY <1>1, <1>3, <1>4, <1>5, <1>6, <3>2, <3>3, TableStep DEF Holds
    <3> QED
      BY <1>1, <3>2, <3>4, Disturbed DEF Forgets
  <2>2. CASE ~lands
    <3>1. UNCHANGED <<disk, keyset, pending, rows, jwt, cli, verdict, backup>>
      BY <1>3, <2>2
    <3>2. TypeInv'
      BY <1>1, <1>3, <1>4, <3>1 DEF TypeInv
    <3>3. StaysOut
      BY <1>3, <3>1 DEF StaysOut, OutOfUse
    <3>4. KeyInv'
      BY <1>1, <1>3, <3>1, <3>2, <3>3, MemoryStep DEF KeysInv
    <3> QED
      BY <3>1, <3>4 DEF Forgets
  <2> QED
    BY <2>1, <2>2
<1>8. \A x \in Keys : x # k => rows'[x] = rows[x]
  BY <1>1, <1>3 DEF TypeInv, Table
<1>9. SurveyInv'
  <2> SUFFICES ASSUME NEW x \in Tasks PROVE (DataOf(x) /\ FreshOf(x) /\ LifeOf(x))'
    BY DEF SurveyInv
  <2>1. CASE x # k
    BY <1>1, <1>3, <1>4, <1>7, <1>8, <2>1, SurveyFrame, Constants
  <2>2. CASE x = k
    <3>1. DataOf(x) /\ FreshOf(x) /\ LifeOf(x) /\ tasks[x] \in TaskState
      BY <1>1 DEF SurveyInv, TypeInv
    <3>2. lands /\ row.source = "local" /\ Given(x, row.secret) /\ tasks[x].at = "storing"
      BY <1>2, <2>2, <3>1 DEF DataOf
    <3>3. tasks'[x].at = "queued" /\ tasks'[x].wants = tasks[x].wants /\ tasks'[x].status = tasks[x].status
      BY <1>1, <1>3, <2>2, <3>1 DEF TypeInv, TaskState
    <3>4. rows'[x] = row
      BY <1>1, <1>3, <2>2, <3>2 DEF TypeInv, Table
    <3>5. DataOf(x)'
      BY <1>3, <1>7, <3>1, <3>2, <3>3, <3>4 DEF DataOf, Given, Forgets
    <3>6. LifeOf(x)'
      BY <1>5, <3>1, <3>2, <3>3, <3>4 DEF LifeOf, Lives, Final
    <3> QED
      BY <3>3, <3>5, <3>6 DEF FreshOf
  <2> QED
    BY <2>1, <2>2
<1> QED
  BY <1>7, <1>9 DEF SecretsInv, KeyInv

(* A finished task drops its secrets, or they are swept.                   *)
LEMMA DropKeeps ==
    ASSUME SecretsInv, NEW t \in Tasks, NEW fails \in BOOLEAN, DropSecret(t, fails) \/ Sweep(t)
    PROVE  SecretsInv'
<1>1. KeyInv /\ TypeInv /\ SurveyInv /\ t \in Keys /\ tasks[t] \in TaskState
  BY Constants DEF SecretsInv, KeyInv, TypeInv
<1>2. DataOf(t) /\ FreshOf(t) /\ LifeOf(t)
  BY <1>1 DEF SurveyInv
<1>3. UNCHANGED <<disk, keyset, pending, jwt, write, verdict, backup>>
  BY DEF DropSecret, Sweep
<1>4. tasks' = tasks \/ (tasks[t].at = "ended" /\ tasks' = [tasks EXCEPT ![t].at = "done"])
  BY DEF DropSecret, Sweep
<1>5. /\ tasks' \in [Tasks -> TaskState] /\ \A x \in Tasks : x # t => tasks'[x] = tasks[x]
      /\ tasks'[t].wants = tasks[t].wants
      /\ tasks'[t].at = tasks[t].at \/ (tasks[t].at = "ended" /\ tasks'[t].at = "done")
  BY <1>1, <1>4 DEF TypeInv, TaskState
<1>6. LifeOf(t)'
  <2>1. CASE DropSecret(t, fails)
    <3>1. tasks'[t].at = "done"
      BY <1>1, <2>1 DEF DropSecret, TypeInv, TaskState
    <3> QED
      BY <3>1 DEF LifeOf, Lives
  <2>2. CASE Sweep(t)
    <3>1. tasks' = tasks /\ tasks[t].expired /\ tasks[t].status \in Final
      BY <2>2 DEF Sweep, Swept
    <3>2. Lives(tasks[t], rows[t] # NoRow)
      BY <1>2 DEF LifeOf
    <3>3. Lives(tasks[t], rows'[t] # NoRow)
      BY <3>1, <3>2 DEF Lives, Missed, Final
    <3> QED
      BY <3>1, <3>3 DEF LifeOf
  <2> QED
    BY <2>1, <2>2
<1>7. CASE rows' = rows /\ cli' = cli
  <2>1. KeyInv' /\ Forgets
    BY <1>1, <1>3, <1>5, <1>7, TaskStep DEF Forgets
  <2>2. SurveyInv'
    <3> SUFFICES ASSUME NEW x \in Tasks PROVE (DataOf(x) /\ FreshOf(x) /\ LifeOf(x))'
      BY DEF SurveyInv
    <3>1. CASE x # t
      BY <1>1, <1>3, <1>5, <1>7, <2>1, <3>1, SurveyFrame
    <3>2. CASE x = t
      <4>1. DataOf(t)'
        BY <1>2, <1>3, <1>5, <1>7 DEF DataOf, Given
      <4>2. FreshOf(t)'
        BY <1>2, <1>3, <1>5, <1>7 DEF FreshOf
      <4> QED
        BY <1>6, <3>2, <4>1, <4>2
    <3> QED
      BY <3>1, <3>2
  <2> QED
    BY <2>1, <2>2 DEF SecretsInv, KeyInv
<1>8. CASE ~(rows' = rows /\ cli' = cli)
  <2>1. rows' = [rows EXCEPT ![t] = NoRow] /\ \E mv \in BOOLEAN : cli' = Disturb(t, mv) /\ (~mv => rows[t] = NoRow)
    <3>1. CASE DropSecret(t, fails)
      <4>1. ~fails
        BY <1>8, <3>1 DEF DropSecret
      <4>2. PICK mv \in BOOLEAN : mv = (rows[t] # NoRow)
        OBVIOUS
      <4> QED
        BY <3>1, <4>1, <4>2 DEF DropSecret
    <3>2. CASE Sweep(t)
      BY <3>2 DEF Sweep
    <3> QED
      BY <3>1, <3>2
  <2>2. PICK mv \in BOOLEAN : cli' = Disturb(t, mv) /\ (~mv => rows[t] = NoRow)
    BY <2>1
  <2>3. NoRow \in GoodRow \cup {NoRow} /\ ~Holds(NoRow)
    BY DEF Holds, Local
  <2>4. KeyInv'
    BY <1>1, <1>3, <1>5, <2>1, <2>2, <2>3, TableStep
  <2>5. Forgets
    BY <1>1, <2>2, Disturbed DEF Forgets
  <2>6. rows'[t] = NoRow /\ \A x \in Keys : x # t => rows'[x] = rows[x]
    BY <1>1, <2>1 DEF TypeInv, Table
  <2>7. SurveyInv'
    <3> SUFFICES ASSUME NEW x \in Tasks PROVE (DataOf(x) /\ FreshOf(x) /\ LifeOf(x))'
      BY DEF SurveyInv
    <3>1. CASE x # t
      BY <1>1, <1>3, <1>5, <2>5, <2>6, <3>1, SurveyFrame, Constants
    <3>2. CASE x = t
      BY <1>1, <1>3, <1>5, <1>6, <2>5, <2>6, <3>2, SurveyGone
    <3> QED
      BY <3>1, <3>2
  <2> QED
    BY <2>4, <2>7 DEF SecretsInv, KeyInv
<1> QED
  BY <1>7, <1>8

-----------------------------------------------------------------------------
(* The vault commands.                                                     *)

(* A command ends, or fails.                                               *)
LEMMA IdleKeeps ==
    ASSUME SecretsInv, cli' = Idle, UNCHANGED <<disk, keyset, pending, rows, jwt, write, verdict, backup, tasks>>
    PROVE  SecretsInv'
<1>1. KeyInv /\ TypeInv /\ KeysInv /\ CheckInv /\ EnvInv /\ SurveyInv /\ verdict.safe \subseteq Materials
  BY DEF SecretsInv, KeyInv, TypeInv
<1>2. TypeInv' /\ KeysInv' /\ EnvInv'
  BY <1>1 DEF TypeInv, KeysInv, EnvInv, OnDisk
<1>3. CheckInv'
  BY <1>1 DEF CheckInv, OutOfUse, Unneeded
<1>4. RekeyInv'
  BY DEF RekeyInv, RekeyComplete, Idle
<1>5. SurveyInv'
  <2> SUFFICES ASSUME NEW x \in Tasks PROVE (DataOf(x) /\ FreshOf(x) /\ LifeOf(x))'
    BY DEF SurveyInv
  <2> QED
    BY <1>1, SurveyFrame DEF Forgets
<1> QED
  BY <1>2, <1>3, <1>4, <1>5 DEF SecretsInv

(* A command starts with the keys file of the moment. A check remembers    *)
(* which keys are out of use.                                              *)
LEMMA StartCommandKeeps ==
    ASSUME SecretsInv, NEW cmd \in {"rekey", "check", "backup", "rollback"}, NEW old \in {NoKey, First},
           First \in Materials, StartCommand(cmd, old)
    PROVE  SecretsInv'
<1>1. KeyInv /\ TypeInv /\ KeysInv /\ CheckInv /\ EnvInv /\ SurveyInv
  BY DEF SecretsInv, KeyInv
<1>2. /\ UNCHANGED <<disk, keyset, pending, rows, jwt, write, tasks>>
      /\ verdict' = NoVerdict
      /\ backup' = IF cmd = "backup" THEN {} ELSE backup
      /\ cmd = "rollback" => \A line \in backup : Decrypts(Resolve(disk), line.secret)
  BY DEF StartCommand
<1> DEFINE gone == IF cmd = "check" THEN {m \in Materials : m < disk.access /\ Retired(m)} ELSE {}
           blank == [k \in Keys |-> NoRow]
<1>3. cli' = [cmd |-> cmd, ks |-> Resolve(disk), old |-> old, page |-> 0, batch |-> {}, lines |-> {},
              dirty |-> {}, touched |-> {}, moved |-> FALSE, seen |-> {}, index |-> blank, retired |-> gone]
  BY DEF StartCommand
<1>4. gone \subseteq Materials /\ blank \in Table /\ \A k \in Keys : blank[k] = NoRow
  BY DEF Table
<1>5. \A m \in gone : OutOfUse(m)
  <2> SUFFICES ASSUME NEW m \in Materials, m < disk.access, Retired(m)
               PROVE  OutOfUse(m)
    OBVIOUS
  <2>1. m # keyset.access /\ \A w \in Reloaders : pending[w] # Nothing => m # pending[w].access
    BY DEF Retired
  <2>2. write # Nothing /\ write.row.secret # NoSecret => write.row.secret.mat # m
    BY <1>1 DEF Retired, EnvInv
  <2> QED
    BY <2>1, <2>2 DEF OutOfUse
<1> HIDE DEF gone, blank
<1>6. Resolve(disk) \in Keyset /\ Resolve(disk).access = disk.access /\ Resolve(disk).byID = disk.reg
      /\ Resolve(disk).option = disk.option
  BY <1>1, ResolvedKeyset
<1>7. /\ cli' \in Process /\ cli'.cmd = cmd /\ cli'.ks = Resolve(disk) /\ cli'.page = 0 /\ cli'.batch = {}
      /\ cli'.lines = {} /\ cli'.dirty = {} /\ cli'.index = blank /\ cli'.retired = gone
  BY <1>3, <1>4, <1>6 DEF Process
<1>8. cli' # Idle
  BY <1>7 DEF Idle
<1>9. backup' \in SUBSET Line /\ backup' \subseteq backup
  BY <1>1, <1>2 DEF TypeInv
<1>10. NoVerdict \in [safe : SUBSET Materials, retired : SUBSET Materials, clean : BOOLEAN, moved : BOOLEAN]
       /\ ~NoVerdict.clean
  BY DEF NoVerdict
<1>11. TypeInv'
  BY <1>1, <1>2, <1>7, <1>9, <1>10 DEF TypeInv
<1>12. cmd = "rollback" => \A line \in backup : OnDisk(line.secret)
  <2> SUFFICES ASSUME cmd = "rollback", NEW line \in backup
               PROVE  line.secret.mat \in disk.reg
    BY DEF OnDisk
  <2>1. line.secret.id \in {NoKey, line.secret.mat}
    BY <1>1 DEF TypeInv, Line, Envelope
  <2>2. (IF line.secret.id # NoKey THEN line.secret.id ELSE line.secret.mat) \in disk.reg
    BY <1>2, <1>6 DEF Decrypts
  <2> QED
    BY <2>1, <2>2
<1>13. KeysInv'
  <2>1. cli'.ks.access \in disk.reg /\ cli'.ks.option \in {NoKey, cli'.ks.access}
    BY <1>1, <1>6, <1>7 DEF KeysInv
  <2>2. cli'.cmd = "rollback" => \A line \in backup' : OnDisk(line.secret)
    BY <1>7, <1>9, <1>12
  <2> QED
    BY <1>1, <1>2, <1>7, <2>1, <2>2 DEF KeysInv, OnDisk
<1>14. Reached(rows', cli'.page) = {}
  BY <1>1, <1>2, <1>7, NothingReached DEF TypeInv
<1>15. CheckInv'
  <2>1. \A m \in Materials : OutOfUse(m) => OutOfUse(m)'
    BY <1>2 DEF OutOfUse
  <2> QED
    BY <1>2, <1>4, <1>5, <1>7, <1>10, <1>14, <2>1 DEF CheckInv
<1>16. EnvInv'
  BY <1>1, <1>2, <1>4, <1>7 DEF EnvInv
<1>17. RekeyInv'
  BY <1>7, <1>14 DEF RekeyInv, RekeyComplete
<1>18. SurveyInv'
  <2> SUFFICES ASSUME NEW x \in Tasks PROVE (DataOf(x) /\ FreshOf(x) /\ LifeOf(x))'
    BY DEF SurveyInv
  <2>1. DataOf(x) /\ FreshOf(x) /\ LifeOf(x)
    BY <1>1 DEF SurveyInv
  <2> QED
    BY <1>2, <1>7, <1>9, <2>1 DEF DataOf, FreshOf, LifeOf, Given
<1> QED
  BY <1>11, <1>13, <1>15, <1>16, <1>17, <1>18 DEF SecretsInv

(* What a page shows.                                                      *)
LEMMA PageShows ==
    ASSUME SecretsInv, cli # Idle
    PROVE  /\ cli \in Process /\ cli.page \in Nat /\ Page(cli.page) = OnPage(rows, cli.page)
           /\ PageRows \subseteq Entry /\ PageLines \subseteq Line /\ PageIDs \subseteq Materials \cup {NoKey}
           /\ \A e \in PageRows : rows[e.key] = e.row /\ e.row.source = "local" /\ e.row # NoRow
           /\ \A line \in PageLines : rows[line.key] # NoRow /\ line.secret = rows[line.key].secret
           /\ \A k \in Page(cli.page) : Holds(rows[k]) => /\ \E e \in PageRows : e.key = k
                                                          /\ rows[k].secret.id \in PageIDs
<1>1. cli \in Process /\ rows \in Table
  BY DEF SecretsInv, TypeInv
<1>2. cli.page \in Nat
  BY <1>1 DEF Process
<1>3. Page(cli.page) = OnPage(rows, cli.page)
  BY PageOf
<1>4. \A k \in Page(cli.page) : k \in Keys /\ rows[k] # NoRow /\ rows[k] \in GoodRow
  BY <1>1, <1>3 DEF OnPage, Listed, Table
<1>5. \A e \in PageRows : /\ e.key \in Page(cli.page) /\ rows[e.key] = e.row /\ Local(rows[e.key])
                         /\ e = [key |-> e.key, row |-> e.row]
  <2> SUFFICES ASSUME NEW e \in PageRows
               PROVE  /\ e.key \in Page(cli.page) /\ rows[e.key] = e.row /\ Local(rows[e.key])
                      /\ e = [key |-> e.key, row |-> e.row]
    OBVIOUS
  <2>1. PICK k \in Page(cli.page) : Local(rows[k]) /\ e = [key |-> k, row |-> rows[k]]
    BY DEF PageRows
  <2> QED
    BY <2>1
<1>6. PageRows \subseteq Entry
  <2> SUFFICES ASSUME NEW e \in PageRows PROVE e \in Entry
    OBVIOUS
  <2>1. e.key \in Keys /\ e.row \in GoodRow /\ e = [key |-> e.key, row |-> e.row]
    BY <1>4, <1>5
  <2> QED
    BY <2>1 DEF Entry
<1>7. ASSUME NEW k \in Page(cli.page), Local(rows[k])
      PROVE  \E e \in PageRows : e.key = k /\ e.row = rows[k]
  <2>1. PICK e : e = [key |-> k, row |-> rows[k]]
    OBVIOUS
  <2>2. e \in PageRows
    BY <1>7, <2>1 DEF PageRows
  <2> QED
    BY <2>1, <2>2
<1>8. \A e \in PageRows : e.row # NoRow /\ (Holds(e.row) => e.row.secret \in Envelope)
  BY <1>4, <1>5 DEF Holds, GoodRow
<1>9. PageIDs \subseteq Materials \cup {NoKey}
  BY <1>8 DEF PageIDs, Envelope, Cipher
<1>10. PageLines \subseteq Line /\ \A line \in PageLines : rows[line.key] # NoRow /\ line.secret = rows[line.key].secret
  <2> SUFFICES ASSUME NEW line \in PageLines
               PROVE  line \in Line /\ rows[line.key] # NoRow /\ line.secret = rows[line.key].secret
    OBVIOUS
  <2>1. PICK e \in PageRows : line = [key |-> e.key, secret |-> e.row.secret] /\ Holds(e.row)
    BY DEF PageLines
  <2>2. line.key = e.key /\ line.secret = e.row.secret /\ e.row.secret \in Envelope /\ e.key \in Keys
    BY <1>4, <1>5, <1>8, <2>1
  <2>3. line \in Line
    BY <2>1, <2>2 DEF Line
  <2> QED
    BY <1>5, <1>8, <2>2, <2>3
<1>11. ASSUME NEW k \in Page(cli.page), Holds(rows[k])
       PROVE  (\E e \in PageRows : e.key = k) /\ rows[k].secret.id \in PageIDs
  <2>1. PICK e \in PageRows : e.key = k /\ e.row = rows[k]
    BY <1>7, <1>11 DEF Holds
  <2>2. rows[k].secret.id \in PageIDs
    BY <1>11, <2>1 DEF PageIDs
  <2> QED
    BY <2>1, <2>2
<1>12. \A e \in PageRows : rows[e.key] = e.row /\ e.row.source = "local" /\ e.row # NoRow
  BY <1>5, <1>8 DEF Local
<1> QED
  BY <1>1, <1>2, <1>3, <1>6, <1>9, <1>10, <1>11, <1>12

(* A command reads its next page.                                          *)
LEMMA NextPageKeeps ==
    ASSUME SecretsInv, NextPage
    PROVE  SecretsInv'
<1>1. KeyInv /\ TypeInv /\ KeysInv /\ CheckInv /\ EnvInv /\ RekeyInv /\ SurveyInv
  BY DEF SecretsInv, KeyInv
<1>2. /\ UNCHANGED <<disk, keyset, pending, rows, jwt, write, verdict, tasks>>
      /\ cli.cmd \in {"rekey", "check", "backup", "rollback"} /\ cli.batch = {}
      /\ backup' = IF cli.cmd = "backup" THEN backup \cup PageLines ELSE backup
  BY DEF NextPage, Walking
<1>3. cli # Idle
  BY <1>2 DEF Idle
<1>4. /\ cli \in Process /\ cli.page \in Nat /\ Page(cli.page) = OnPage(rows, cli.page)
      /\ PageRows \subseteq Entry /\ PageLines \subseteq Line /\ PageIDs \subseteq Materials \cup {NoKey}
      /\ \A e \in PageRows : rows[e.key] = e.row /\ e.row.source = "local" /\ e.row # NoRow
      /\ \A line \in PageLines : rows[line.key] # NoRow /\ line.secret = rows[line.key].secret
      /\ \A k \in Page(cli.page) : Holds(rows[k]) => /\ \E e \in PageRows : e.key = k
                                                     /\ rows[k].secret.id \in PageIDs
  BY <1>3, PageShows
<1> DEFINE batch == IF cli.cmd = "rekey" THEN PageRows ELSE {}
           dirty == IF cli.cmd = "rekey" THEN {} ELSE cli.dirty
           seen == IF cli.cmd = "check" THEN cli.seen \cup PageIDs ELSE cli.seen
           index == [k \in Keys |-> IF cli.cmd = "rollback" /\ k \in Page(cli.page) /\ Local(rows[k])
                                    THEN rows[k] ELSE cli.index[k]]
<1>5. cli' = [cli EXCEPT !.page = cli.page + 1, !.batch = batch, !.dirty = dirty, !.seen = seen, !.index = index]
  BY DEF NextPage
<1>6. batch \in SUBSET Entry /\ dirty \in SUBSET Keys /\ seen \in SUBSET (Materials \cup {NoKey})
  BY <1>4 DEF Process
<1>7. index \in Table /\ \A k \in Keys : index[k] # NoRow => index[k].source = "local"
  <2>1. cli.index \in Table /\ rows \in Table
    BY <1>1, <1>4 DEF TypeInv, Process
  <2> QED
    BY <1>1, <1>3, <2>1 DEF Table, EnvInv, Local
<1> HIDE DEF index
<1>8. ASSUME NEW p \in Process, NEW i \in Nat, NEW B \in SUBSET Entry, NEW D \in SUBSET Keys,
             NEW S \in SUBSET (Materials \cup {NoKey}), NEW I \in Table,
             cli' = [p EXCEPT !.page = i, !.batch = B, !.dirty = D, !.seen = S, !.index = I]
      PROVE  /\ cli' \in Process /\ cli'.page = i /\ cli'.batch = B /\ cli'.dirty = D /\ cli'.seen = S
             /\ cli'.index = I /\ cli'.cmd = p.cmd /\ cli'.ks = p.ks /\ cli'.lines = p.lines
             /\ cli'.touched = p.touched /\ cli'.moved = p.moved /\ cli'.retired = p.retired
  BY <1>8 DEF Process
<1>9. /\ cli' \in Process /\ cli'.page = cli.page + 1 /\ cli'.batch = batch /\ cli'.dirty = dirty /\ cli'.seen = seen
      /\ cli'.index = index /\ cli'.cmd = cli.cmd /\ cli'.ks = cli.ks /\ cli'.lines = cli.lines
      /\ cli'.touched = cli.touched /\ cli'.moved = cli.moved /\ cli'.retired = cli.retired
  <2>1. cli.page + 1 \in Nat
    BY <1>4
  <2> HIDE DEF batch, dirty, seen
  <2> QED
    BY <1>4, <1>5, <1>6, <1>7, <1>8, <2>1
<1>10. cli' # Idle
  BY <1>2, <1>9 DEF Idle
<1>11. TypeInv'
  BY <1>1, <1>2, <1>4, <1>9 DEF TypeInv
<1>12. KeysInv'
  BY <1>1, <1>2, <1>3, <1>9 DEF KeysInv, OnDisk
<1>13. Reached(rows', cli'.page) = Reached(rows, cli.page) \cup Page(cli.page)
  BY <1>1, <1>2, <1>4, <1>9, NextReached DEF TypeInv
<1>14. CheckInv'
  <2>1. \A m : OutOfUse(m) => OutOfUse(m)'
    BY <1>2 DEF OutOfUse
  <2>2. verdict' = NoVerdict /\ ~NoVerdict.clean
    BY <1>1, <1>2, <1>3 DEF CheckInv, NoVerdict
  <2>3. ASSUME cli'.cmd = "check", NEW m \in cli'.retired
        PROVE  /\ OutOfUse(m)'
               /\ ~cli'.moved => \A k \in Reached(rows', cli'.page) :
                    Holds(rows'[k]) /\ rows'[k].secret.mat = m => rows'[k].secret.id \in cli'.seen
    <3>1. cli.cmd = "check" /\ m \in cli.retired /\ OutOfUse(m)
      BY <1>1, <1>3, <1>9, <2>3 DEF CheckInv
    <3>2. ~cli.moved => \A k \in Reached(rows, cli.page) :
             Holds(rows[k]) /\ rows[k].secret.mat = m => rows[k].secret.id \in cli.seen
      BY <1>1, <1>3, <3>1 DEF CheckInv
    <3>3. cli'.seen = cli.seen \cup PageIDs
      BY <1>9, <3>1
    <3> QED
      BY <1>2, <1>4, <1>9, <1>13, <2>1, <3>1, <3>2, <3>3
  <2> QED
    BY <2>2, <2>3 DEF CheckInv
<1>15. EnvInv'
  <2>1. \A e \in cli'.batch : e.row.source = "local"
    BY <1>4, <1>9
  <2> QED
    BY <1>1, <1>2, <1>7, <1>9, <2>1 DEF EnvInv
<1>16. RekeyInv'
  <2>1. ASSUME cli'.cmd = "rekey"
        PROVE  /\ \A e, f \in cli'.batch : e.key = f.key => e = f
               /\ cli'.dirty \subseteq cli'.touched
               /\ \A e \in cli'.batch : rows'[e.key] = e.row /\ rows'[e.key] # NoRow /\ rows'[e.key].name = e.row.name
    <3>1. cli'.batch = PageRows /\ cli'.dirty = {}
      BY <1>9, <2>1
    <3>2. \A e, f \in PageRows : e.key = f.key => e = f
      BY DEF PageRows
    <3> QED
      BY <1>2, <1>4, <3>1, <3>2
  <2>2. ASSUME cli'.cmd = "rekey", ~cli'.moved, NEW k \in Reached(rows', cli'.page) \ cli'.touched, Holds(rows'[k])
        PROVE  rows'[k].secret.id = cli'.ks.access \/ \E e \in cli'.batch : e.key = k
    <3>1. cli.cmd = "rekey" /\ ~cli.moved /\ k \notin cli.touched /\ Holds(rows[k]) /\ cli'.batch = PageRows
      BY <1>2, <1>9, <2>2
    <3>2. CASE k \in Reached(rows, cli.page)
      BY <1>1, <1>2, <1>3, <1>9, <3>1, <3>2 DEF RekeyInv
    <3>3. CASE k \in Page(cli.page)
      BY <1>4, <3>1, <3>3
    <3> QED
      BY <1>13, <2>2, <3>2, <3>3
  <2>3. cli'.cmd # "rekey" => cli'.batch = {}
    BY <1>9
  <2>4. RekeyComplete'
    BY <1>2, <1>9 DEF RekeyComplete
  <2> QED
    BY <2>1, <2>2, <2>3, <2>4 DEF RekeyInv
<1>17. SurveyInv'
  <2> SUFFICES ASSUME NEW x \in Tasks PROVE (DataOf(x) /\ FreshOf(x) /\ LifeOf(x))'
    BY DEF SurveyInv
  <2>1. DataOf(x) /\ FreshOf(x) /\ LifeOf(x)
    BY <1>1 DEF SurveyInv
  <2>2. \A e \in cli'.batch : e.key = x => rows[x] = e.row /\ e.row # NoRow
    BY <1>4, <1>9
  <2>3. \A line \in backup' : line \in backup \/ (line.key = x => rows[x] # NoRow /\ line.secret = rows[x].secret)
    BY <1>2, <1>4
  <2>4. DataOf(x)'
    BY <1>2, <1>3, <1>9, <2>1, <2>2, <2>3 DEF DataOf, Given
  <2>5. FreshOf(x)'
    BY <1>2, <1>3, <1>9, <2>1, <2>2, <2>3 DEF FreshOf
  <2>6. LifeOf(x)'
    BY <1>2, <2>1 DEF LifeOf
  <2> QED
    BY <2>4, <2>5, <2>6
<1> QED
  BY <1>11, <1>12, <1>14, <1>15, <1>16, <1>17 DEF SecretsInv

(* A command writes a row back.  Only one that is no check does so, and no *)
(* report is waiting to be used then.                                      *)
LEMMA WriteBackKeeps ==
    ASSUME SecretsInv, cli # Idle, cli.cmd # "check", cli' \in Process, cli'.cmd = cli.cmd, cli'.ks = cli.ks,
           cli'.lines \subseteq cli.lines, cli'.batch \subseteq cli.batch, cli'.index = cli.index,
           UNCHANGED <<disk, keyset, pending, jwt, write, verdict, backup, tasks>>,
           NEW k \in Keys, NEW row \in GoodRow, rows' = WriteBack(k, row),
           OnDisk(row.secret), row.source = "local",
           k \in Tasks => Given(k, row.secret),
           RekeyInv'
    PROVE  SecretsInv'
<1>1. KeyInv /\ TypeInv /\ KeysInv /\ CheckInv /\ EnvInv /\ SurveyInv
  BY DEF SecretsInv, KeyInv
<1>2. rows \in Table /\ cli' # Idle /\ row # NoRow
  <2>1. \A p \in Process : p # Idle
    BY DEF Process, Idle
  <2> QED
    BY <1>1, <2>1, Constants DEF TypeInv
<1>3. /\ rows' \in Table /\ \A j \in Keys : j # k => rows'[j] = rows[j]
      /\ rows'[k] = IF rows[k] = NoRow THEN NoRow ELSE row
  BY <1>2 DEF WriteBack, Table
<1>4. TypeInv'
  BY <1>1, <1>3 DEF TypeInv
<1>5. KeysInv'
  <2>1. \A j \in Keys : rows'[j] # NoRow => OnDisk(rows'[j].secret)
    BY <1>1, <1>3 DEF KeysInv
  <2> QED
    BY <1>1, <2>1 DEF KeysInv, OnDisk
<1>6. CheckInv'
  BY <1>1 DEF CheckInv, NoVerdict
<1>7. EnvInv'
  <2>1. \A j \in Keys : rows'[j] # NoRow /\ rows'[j].source # "local" => rows'[j].secret = NoSecret
    BY <1>1, <1>3 DEF EnvInv
  <2> QED
    BY <1>1, <2>1 DEF EnvInv
<1>8. Forgets
  BY DEF Forgets
<1>9. SurveyInv'
  <2> SUFFICES ASSUME NEW x \in Tasks PROVE (DataOf(x) /\ FreshOf(x) /\ LifeOf(x))'
    BY DEF SurveyInv
  <2>1. CASE rows'[x] = rows[x]
    BY <1>1, <1>8, <2>1, SurveyFrame
  <2>2. CASE rows'[x] # rows[x]
    <3>1. x = k /\ rows[x] # NoRow /\ rows'[x] = row
      BY <1>3, <2>2, Constants
    <3>2. DataOf(x) /\ FreshOf(x) /\ LifeOf(x)
      BY <1>1 DEF SurveyInv
    <3>3. DataOf(x)'
      BY <1>8, <3>1, <3>2 DEF DataOf, Given, Forgets
    <3>4. FreshOf(x)' /\ LifeOf(x)'
      BY <1>2, <3>1, <3>2 DEF FreshOf, LifeOf
    <3> QED
      BY <3>3, <3>4
  <2> QED
    BY <2>1, <2>2
<1> QED
  BY <1>4, <1>5, <1>6, <1>7, <1>9 DEF SecretsInv

(* A process with a smaller batch, or with fewer lines.                    *)
LEMMA LessWork ==
    ASSUME NEW p \in Process
    PROVE  /\ \A B \in SUBSET Entry : LET q == [p EXCEPT !.batch = B] IN
                /\ q \in Process /\ q.batch = B /\ q.cmd = p.cmd /\ q.ks = p.ks /\ q.lines = p.lines /\ q.index = p.index
                /\ q.page = p.page /\ q.dirty = p.dirty /\ q.touched = p.touched /\ q.moved = p.moved
           /\ \A L \in SUBSET Line : LET q == [p EXCEPT !.lines = L] IN
                /\ q \in Process /\ q.lines = L /\ q.cmd = p.cmd /\ q.ks = p.ks /\ q.batch = p.batch /\ q.index = p.index
BY DEF Process

(* What a step of rekey writes: the row as the page showed it, its secret  *)
(* encrypted with the active key.                                          *)
Rewritten(e) == [e.row EXCEPT !.secret = IF e.row.secret = NoSecret THEN NoSecret
                                         ELSE Encrypt(cli.ks, cli.ks.access, e.row.secret.plain)]

(* The row a rekey writes back.                                            *)
LEMMA RewrittenRow ==
    ASSUME SecretsInv, cli # Idle, NEW e \in cli.batch
    PROVE  /\ e.key \in Keys /\ Rewritten(e) \in GoodRow /\ Rewritten(e).name = e.row.name /\ Rewritten(e).source = e.row.source
           /\ e.row.secret = NoSecret => Rewritten(e).secret = NoSecret
           /\ e.row.secret # NoSecret => /\ Rewritten(e).secret # NoSecret
                                         /\ Rewritten(e).secret.plain = e.row.secret.plain
                                         /\ Rewritten(e).secret.id = cli.ks.access
           /\ OnDisk(Rewritten(e).secret)
<1>1. cli \in Process /\ cli.ks.access \in disk.reg
  BY DEF SecretsInv, TypeInv, KeysInv
<1>2. cli.ks.access \in Materials /\ e \in Entry
  BY <1>1 DEF Process, Keyset
<1>3. e.row \in GoodRow /\ e.key \in Keys
  BY <1>2 DEF Entry
<1>4. e.row \in Row /\ e.row.secret \in Envelope \cup {NoSecret}
  BY <1>3 DEF GoodRow
<1>5. CASE e.row.secret = NoSecret
  <2>1. Rewritten(e) = [e.row EXCEPT !.secret = NoSecret]
    BY <1>5 DEF Rewritten
  <2>2. Rewritten(e) \in Row /\ Rewritten(e).secret = NoSecret /\ Rewritten(e).name = e.row.name /\ Rewritten(e).source = e.row.source
    BY <1>4, <2>1 DEF Row
  <2> QED
    BY <1>3, <1>5, <2>2 DEF GoodRow, OnDisk
<1>6. CASE e.row.secret # NoSecret
  <2>1. PICK c : c = [id |-> cli.ks.access, mat |-> cli.ks.access, plain |-> e.row.secret.plain]
    OBVIOUS
  <2>2. e.row.secret.plain \in Values
    BY <1>4, <1>6 DEF Envelope, Cipher
  <2>3. c \in Cipher /\ c.id = cli.ks.access /\ c.mat = cli.ks.access /\ c.plain = e.row.secret.plain
    BY <1>2, <2>1, <2>2 DEF Cipher
  <2>4. c \in Envelope /\ c # NoSecret
    BY <2>3, Constants DEF Envelope
  <2>5. Rewritten(e) = [e.row EXCEPT !.secret = c]
    BY <1>6, <2>1 DEF Rewritten, Encrypt
  <2>6. Rewritten(e) \in Row /\ Rewritten(e).secret = c /\ Rewritten(e).name = e.row.name /\ Rewritten(e).source = e.row.source
    BY <1>4, <2>3, <2>5 DEF Row
  <2> QED
    BY <1>1, <1>3, <1>6, <2>3, <2>4, <2>6 DEF GoodRow, OnDisk
<1> QED
  BY <1>5, <1>6

(* One row of a rekey.                                                     *)
LEMMA RekeyRowKeeps ==
    ASSUME SecretsInv, RekeyRow
    PROVE  SecretsInv'
<1>1. KeyInv /\ TypeInv /\ RekeyInv /\ SurveyInv /\ EnvInv
  BY DEF SecretsInv, KeyInv
<1>2. cli.cmd = "rekey" /\ UNCHANGED <<disk, keyset, pending, jwt, write, verdict, backup, tasks>>
  BY DEF RekeyRow
<1>3. cli # Idle
  BY <1>2 DEF Idle
<1>4. cli \in Process /\ cli.batch \in SUBSET Entry
  BY <1>1, <1>3 DEF TypeInv, Process
<1>5. PICK e \in cli.batch :
        \/ cli' = Idle /\ rows' = rows
        \/ cli' = [cli EXCEPT !.batch = cli.batch \ {e}] /\ rows' = WriteBack(e.key, Rewritten(e))
  BY DEF RekeyRow, Rewritten
<1>6. CASE cli' = Idle /\ rows' = rows
  BY <1>2, <1>6, IdleKeeps
<1>7. CASE cli' = [cli EXCEPT !.batch = cli.batch \ {e}] /\ rows' = WriteBack(e.key, Rewritten(e))
  <2>1. cli.batch \ {e} \in SUBSET Entry
    BY <1>4
  <2>2. /\ cli' \in Process /\ cli'.batch = cli.batch \ {e} /\ cli'.cmd = cli.cmd /\ cli'.ks = cli.ks /\ cli'.lines = cli.lines
        /\ cli'.index = cli.index
        /\ cli'.page = cli.page /\ cli'.dirty = cli.dirty /\ cli'.touched = cli.touched /\ cli'.moved = cli.moved
    BY <1>4, <1>7, <2>1, LessWork
  <2>3. /\ e.key \in Keys /\ Rewritten(e) \in GoodRow /\ Rewritten(e).name = e.row.name /\ Rewritten(e).source = e.row.source
        /\ e.row.secret = NoSecret => Rewritten(e).secret = NoSecret
        /\ e.row.secret # NoSecret => /\ Rewritten(e).secret # NoSecret
                                      /\ Rewritten(e).secret.plain = e.row.secret.plain
                                      /\ Rewritten(e).secret.id = cli.ks.access
        /\ OnDisk(Rewritten(e).secret)
    BY <1>3, RewrittenRow
  <2>4. Rewritten(e).source = "local" /\ (e.key \in Tasks => Given(e.key, Rewritten(e).secret))
    BY <1>1, <1>3, <2>3 DEF EnvInv, SurveyInv, DataOf, Given
  <2>5. /\ rows \in Table /\ Rewritten(e) # NoRow
        /\ rows' \in Table /\ \A j \in Keys : j # e.key => rows'[j] = rows[j]
        /\ rows'[e.key] = IF rows[e.key] = NoRow THEN NoRow ELSE Rewritten(e)
    BY <1>1, <1>7, <2>3, Constants DEF WriteBack, Table, TypeInv
  <2>6. RekeyInv'
    <3>1. \A f \in cli'.batch : f \in cli.batch /\ f.key # e.key /\ f.key \in Keys
      BY <1>1, <1>2, <1>3, <1>4, <2>2 DEF RekeyInv, Entry
    <3>2. /\ \A f, g \in cli'.batch : f.key = g.key => f = g
          /\ cli'.dirty \subseteq cli'.touched
          /\ \A f \in cli'.batch : f.key \notin cli'.dirty => rows'[f.key] = f.row
      BY <1>1, <1>2, <1>3, <2>2, <2>5, <3>1 DEF RekeyInv
    <3>3. ASSUME ~cli'.moved
          PROVE  /\ \A f \in cli'.batch : rows'[f.key] # NoRow /\ rows'[f.key].name = f.row.name
                 /\ \A k \in Reached(rows', cli'.page) \ cli'.touched :
                      Holds(rows'[k]) => rows'[k].secret.id = cli'.ks.access \/ \E f \in cli'.batch : f.key = k
      <4>1. /\ ~cli.moved /\ \A f \in cli.batch : rows[f.key] # NoRow /\ rows[f.key].name = f.row.name
            /\ \A k \in Reached(rows, cli.page) \ cli.touched :
                 Holds(rows[k]) => rows[k].secret.id = cli.ks.access \/ \E f \in cli.batch : f.key = k
        BY <1>1, <1>2, <1>3, <2>2, <3>3 DEF RekeyInv
      <4>2. rows'[e.key] = Rewritten(e) /\ rows'[e.key].name = rows[e.key].name /\ rows[e.key] # NoRow
        BY <2>3, <2>5, <4>1
      <4>3. Reached(rows', cli.page) = Reached(rows, cli.page)
        <5>1. \A j \in Keys : (rows'[j] = NoRow) <=> (rows[j] = NoRow)
          BY <2>5, <4>2
        <5>2. \A j \in Keys : rows[j] # NoRow => rows'[j].name = rows[j].name
          BY <2>5, <4>2
        <5>3. cli.page \in Nat
          BY <1>4 DEF Process
        <5> QED
          BY <2>5, <5>1, <5>2, <5>3, SamePages
      <4>4. ASSUME NEW k \in Reached(rows', cli'.page) \ cli'.touched, Holds(rows'[k])
            PROVE  rows'[k].secret.id = cli'.ks.access \/ \E f \in cli'.batch : f.key = k
        <5>1. k \in Reached(rows, cli.page) \ cli.touched /\ k \in Keys
          BY <2>2, <4>3, <4>4 DEF Reached, Listed
        <5>2. CASE k = e.key
          BY <2>2, <2>3, <4>2, <4>4, <5>2 DEF Holds
        <5>3. CASE k # e.key
          <6>1. Holds(rows[k]) /\ rows'[k] = rows[k]
            BY <2>5, <4>4, <5>1, <5>3
          <6>2. rows[k].secret.id = cli.ks.access \/ \E f \in cli.batch : f.key = k
            BY <4>1, <5>1, <6>1
          <6> QED
            BY <2>2, <5>3, <6>1, <6>2
        <5> QED
          BY <5>2, <5>3
      <4>5. \A f \in cli'.batch : rows'[f.key] # NoRow /\ rows'[f.key].name = f.row.name
        BY <2>5, <3>1, <4>1
      <4> QED
        BY <4>4, <4>5
    <3> QED
      BY <1>2, <2>2, <3>2, <3>3 DEF RekeyInv, RekeyComplete
  <2> HIDE DEF RekeyInv
  <2>7. cli'.batch \subseteq cli.batch /\ cli'.lines \subseteq cli.lines /\ cli.cmd # "check"
    BY <1>2, <2>2
  <2> QED
    BY <1>2, <1>3, <1>7, <2>2, <2>3, <2>4, <2>6, <2>7, WriteBackKeeps
<1> QED
  BY <1>5, <1>6, <1>7

(* At the empty page a command has seen every row.                         *)
LEMMA AllReached ==
    ASSUME SecretsInv, cli # Idle, PastEnd, NEW k \in Keys, rows[k] # NoRow
    PROVE  k \in Reached(rows, cli.page)
<1>1. rows \in Table /\ cli.page \in Nat
  BY DEF SecretsInv, TypeInv, Process
<1>2. OnPage(rows, cli.page) = {}
  BY PageOf DEF PastEnd
<1>3. k \in Listed(rows)
  BY DEF Listed
<1> QED
  BY <1>1, <1>2, <1>3, EmptyPage

(* The keyset of a command has one active key, for options too.            *)
LEMMA OneActive ==
    ASSUME SecretsInv, cli # Idle
    PROVE  OptionKey(cli.ks) = cli.ks.access /\ cli.ks.access \in Materials /\ cli.ks.access \in disk.reg
BY DEF SecretsInv, TypeInv, KeysInv, Process, Keyset, OptionKey

(* The end of a rekey: the JWT signing key.                                *)
LEMMA RekeyJWTKeeps ==
    ASSUME SecretsInv, RekeyJWT
    PROVE  SecretsInv'
<1>1. KeyInv /\ TypeInv /\ KeysInv /\ CheckInv /\ EnvInv /\ RekeyInv /\ SurveyInv
  BY DEF SecretsInv, KeyInv
<1>2. /\ cli.cmd = "rekey" /\ cli.batch = {} /\ PastEnd
      /\ UNCHANGED <<disk, keyset, pending, rows, write, verdict, backup, tasks>>
  BY DEF RekeyJWT, Walking
<1>3. cli # Idle
  BY <1>2 DEF Idle
<1>4. CASE cli' = Idle /\ jwt' = jwt
  BY <1>2, <1>4, IdleKeeps
<1>5. CASE /\ jwt' = IF jwt = NoSecret THEN jwt ELSE Encrypt(cli.ks, OptionKey(cli.ks), jwt.plain)
           /\ cli' = [cli EXCEPT !.cmd = "rekeyed"]
  <2>1. cli \in Process /\ cli.ks.access \in Materials /\ OptionKey(cli.ks) = cli.ks.access /\ cli.ks.access \in disk.reg
    BY <1>1, <1>3, OneActive DEF TypeInv
  <2>2. /\ cli' \in Process /\ cli'.cmd = "rekeyed" /\ cli'.batch = cli.batch /\ cli'.ks = cli.ks /\ cli'.lines = cli.lines
        /\ cli'.index = cli.index /\ cli'.touched = cli.touched /\ cli'.moved = cli.moved
    BY <1>5, <2>1 DEF Process
  <2>3. cli' # Idle
    BY <2>2 DEF Idle
  <2>4. jwt' = NoSecret \/ (jwt' \in Envelope /\ jwt'.mat = cli.ks.access /\ jwt'.id = cli.ks.access)
    <3>1. CASE jwt = NoSecret
      BY <1>5, <3>1
    <3>2. CASE jwt # NoSecret
      <4>1. jwt' = [id |-> cli.ks.access, mat |-> cli.ks.access, plain |-> jwt.plain]
        BY <1>5, <2>1, <3>2 DEF Encrypt
      <4>2. jwt.plain \in Values
        BY <1>1, <3>2 DEF TypeInv, Envelope, Cipher
      <4>3. jwt' \in Cipher /\ jwt'.id = cli.ks.access /\ jwt'.mat = cli.ks.access
        BY <2>1, <4>1, <4>2 DEF Cipher
      <4> QED
        BY <4>3 DEF Envelope
    <3> QED
      BY <3>1, <3>2
  <2>5. TypeInv'
    BY <1>1, <1>2, <2>2, <2>4 DEF TypeInv
  <2>6. KeysInv'
    <3>1. OnDisk(jwt')
      BY <2>1, <2>4 DEF OnDisk
    <3> QED
      BY <1>1, <1>2, <1>3, <2>2, <3>1 DEF KeysInv, OnDisk
  <2>7. CheckInv'
    BY <1>1, <1>2, <1>3, <2>2 DEF CheckInv, NoVerdict
  <2>8. EnvInv'
    BY <1>1, <1>2, <1>3, <2>2 DEF EnvInv
  <2>9. RekeyInv'
    <3>1. ASSUME ~cli.moved, NEW k \in Keys \ cli.touched, Holds(rows[k])
          PROVE  rows[k].secret.id = cli.ks.access
      <4>1. k \in Reached(rows, cli.page)
        BY <1>2, <1>3, <3>1, AllReached DEF Holds, Local
      <4> QED
        BY <1>1, <1>2, <1>3, <3>1, <4>1 DEF RekeyInv
    <3>2. jwt' # NoSecret => jwt'.id = OptionKey(cli'.ks)
      BY <2>1, <2>2, <2>4
    <3>3. RekeyComplete'
      BY <1>2, <2>2, <3>1, <3>2 DEF RekeyComplete
    <3> QED
      BY <1>2, <2>2, <3>3 DEF RekeyInv
  <2>10. SurveyInv'
    <3> SUFFICES ASSUME NEW x \in Tasks PROVE (DataOf(x) /\ FreshOf(x) /\ LifeOf(x))'
      BY DEF SurveyInv
    <3>1. Forgets
      BY <1>3, <2>2 DEF Forgets
    <3> QED
      BY <1>1, <1>2, <3>1, SurveyFrame
  <2> QED
    BY <2>5, <2>6, <2>7, <2>8, <2>9, <2>10 DEF SecretsInv
<1> QED
  BY <1>4, <1>5 DEF RekeyJWT

(* The report of a check holds when it is made: every row was counted.     *)
LEMMA CheckReportKeeps ==
    ASSUME SecretsInv, CheckReport
    PROVE  SecretsInv'
<1>1. KeyInv /\ TypeInv /\ KeysInv /\ CheckInv /\ EnvInv /\ RekeyInv /\ SurveyInv
  BY DEF SecretsInv, KeyInv
<1>2. /\ cli.cmd = "check" /\ PastEnd /\ cli' = Idle
      /\ UNCHANGED <<disk, keyset, pending, rows, jwt, write, backup, tasks>>
  BY DEF CheckReport
<1>3. cli # Idle
  BY <1>2 DEF Idle
<1>4. cli \in Process /\ cli.ks \in Keyset /\ OptionKey(cli.ks) = cli.ks.access /\ cli.ks.access \in Materials
  BY <1>1, <1>3, OneActive DEF TypeInv, Process
<1> DEFINE safe == SafeToRemove(cli.ks, cli.seen)
           clean == NoKey \notin cli.seen /\ (jwt = NoSecret \/ jwt.id = OptionKey(cli.ks))
<1>5. safe \subseteq Materials /\ \A m \in safe : m # cli.ks.access /\ m \notin cli.seen
  BY <1>4 DEF SafeToRemove, Keyset
<1>6. PICK b \in BOOLEAN : b = clean
  OBVIOUS
<1>7. verdict' = [safe |-> safe, retired |-> cli.retired, clean |-> b, moved |-> cli.moved]
  BY <1>6 DEF CheckReport
<1> HIDE DEF safe, clean
<1>8. /\ verdict' \in [safe : SUBSET Materials, retired : SUBSET Materials, clean : BOOLEAN, moved : BOOLEAN]
      /\ verdict'.safe = safe /\ verdict'.retired = cli.retired /\ verdict'.clean = b /\ verdict'.moved = cli.moved
  BY <1>4, <1>5, <1>7 DEF Process
<1>9. TypeInv'
  BY <1>1, <1>2, <1>8 DEF TypeInv
<1>10. KeysInv' /\ EnvInv'
  BY <1>1, <1>2 DEF KeysInv, EnvInv, OnDisk
<1>11. RekeyInv'
  BY <1>2 DEF RekeyInv, RekeyComplete, Idle
<1>12. ASSUME b, ~cli.moved, NEW m \in safe \cap cli.retired
       PROVE  OutOfUse(m)' /\ Unneeded(m)'
  <2>1. OutOfUse(m)
    BY <1>1, <1>2, <1>3 DEF CheckInv
  <2>2. m \in Materials /\ m # NoKey
    BY <1>5, Constants
  <2>3. NoKey \notin cli.seen /\ (jwt = NoSecret \/ jwt.id = cli.ks.access)
    BY <1>4, <1>6, <1>12 DEF clean
  <2>4. ASSUME NEW k \in Keys, Holds(rows[k]), rows[k].secret.mat = m
        PROVE  FALSE
    <3>1. k \in Reached(rows, cli.page) /\ rows[k] # NoRow
      BY <1>2, <1>3, <2>4, AllReached DEF Holds, Local
    <3>2. rows[k].secret.id \in cli.seen
      BY <1>1, <1>2, <1>3, <1>12, <2>4, <3>1 DEF CheckInv
    <3>3. rows[k].secret.id \in {NoKey, m}
      BY <1>1, <2>4, <3>1 DEF TypeInv, Table, GoodRow, Envelope, Holds
    <3> QED
      BY <1>5, <2>3, <3>2, <3>3
  <2>5. jwt # NoSecret => jwt.mat # m
    <3>1. jwt # NoSecret => jwt.id \in {NoKey, jwt.mat}
      BY <1>1 DEF TypeInv, Envelope
    <3> QED
      BY <1>4, <1>5, <2>3, <3>1, Constants
  <2>6. OutOfUse(m)'
    BY <1>2, <2>1 DEF OutOfUse
  <2> QED
    BY <1>2, <2>4, <2>5, <2>6 DEF Unneeded
<1>13. CheckInv'
  BY <1>2, <1>8, <1>12 DEF CheckInv
<1>14. SurveyInv'
  <2> SUFFICES ASSUME NEW x \in Tasks PROVE (DataOf(x) /\ FreshOf(x) /\ LifeOf(x))'
    BY DEF SurveyInv
  <2>1. Forgets
    BY <1>2 DEF Forgets
  <2> QED
    BY <1>1, <1>2, <2>1, SurveyFrame
<1> QED
  BY <1>9, <1>10, <1>11, <1>13, <1>14 DEF SecretsInv

(* A rollback has its index and takes up the backup.                       *)
LEMMA IndexedKeeps ==
    ASSUME SecretsInv, Indexed
    PROVE  SecretsInv'
<1>1. KeyInv /\ TypeInv /\ KeysInv /\ CheckInv /\ EnvInv /\ RekeyInv /\ SurveyInv
  BY DEF SecretsInv, KeyInv
<1>2. /\ cli.cmd = "rollback" /\ cli' = [cli EXCEPT !.cmd = "restoring", !.lines = backup]
      /\ UNCHANGED <<disk, keyset, pending, rows, jwt, write, verdict, backup, tasks>>
  BY DEF Indexed
<1>3. cli # Idle
  BY <1>2 DEF Idle
<1>4. cli \in Process /\ cli.batch = {} /\ backup \in SUBSET Line
  BY <1>1, <1>2, <1>3 DEF TypeInv, RekeyInv
<1>5. /\ cli' \in Process /\ cli'.cmd = "restoring" /\ cli'.lines = backup /\ cli'.batch = {} /\ cli'.ks = cli.ks
      /\ cli'.index = cli.index
  BY <1>2, <1>4 DEF Process
<1>6. TypeInv'
  BY <1>1, <1>2, <1>5 DEF TypeInv
<1>7. KeysInv'
  BY <1>1, <1>2, <1>3, <1>5 DEF KeysInv, OnDisk
<1>8. CheckInv'
  BY <1>1, <1>2, <1>3, <1>5 DEF CheckInv, NoVerdict
<1>9. EnvInv' /\ RekeyInv'
  BY <1>1, <1>2, <1>3, <1>5 DEF EnvInv, RekeyInv, RekeyComplete
<1>10. SurveyInv'
  <2> SUFFICES ASSUME NEW x \in Tasks PROVE (DataOf(x) /\ FreshOf(x) /\ LifeOf(x))'
    BY DEF SurveyInv
  <2>1. DataOf(x) /\ FreshOf(x) /\ LifeOf(x)
    BY <1>1 DEF SurveyInv
  <2> QED
    BY <1>2, <1>5, <2>1 DEF DataOf, FreshOf, LifeOf, Given
<1> QED
  BY <1>6, <1>7, <1>8, <1>9, <1>10 DEF SecretsInv

(* One line of a rollback.                                                 *)
LEMMA RestoreLineKeeps ==
    ASSUME SecretsInv, RestoreLine
    PROVE  SecretsInv'
<1>1. KeyInv /\ TypeInv /\ KeysInv /\ EnvInv /\ RekeyInv /\ SurveyInv
  BY DEF SecretsInv, KeyInv
<1>2. cli.cmd = "restoring" /\ UNCHANGED <<disk, keyset, pending, jwt, write, verdict, backup, tasks>>
  BY DEF RestoreLine
<1>3. cli # Idle
  BY <1>2 DEF Idle
<1>4. cli \in Process /\ cli.lines \in SUBSET Line /\ cli.index \in Table /\ cli.batch = {}
  BY <1>1, <1>2, <1>3 DEF TypeInv, Process, RekeyInv
<1>5. PICK line \in cli.lines :
        \/ cli' = Idle /\ rows' = rows
        \/ cli' = [cli EXCEPT !.lines = cli.lines \ {line}] /\ rows' = rows
        \/ /\ cli' = [cli EXCEPT !.lines = cli.lines \ {line}] /\ cli.index[line.key] # NoRow
           /\ rows' = WriteBack(line.key, [cli.index[line.key] EXCEPT !.secret = line.secret])
  BY DEF RestoreLine
<1>6. line.key \in Keys /\ line.secret \in Envelope /\ OnDisk(line.secret)
  BY <1>1, <1>3, <1>4 DEF Line, KeysInv
<1>7. line.key \in Tasks => Given(line.key, line.secret)
  BY <1>1, <1>3 DEF SurveyInv, DataOf
<1>8. ASSUME cli' = [cli EXCEPT !.lines = cli.lines \ {line}]
      PROVE  /\ cli' \in Process /\ cli'.cmd = cli.cmd /\ cli'.ks = cli.ks /\ cli'.index = cli.index
             /\ cli'.lines \subseteq cli.lines /\ cli'.batch \subseteq cli.batch /\ RekeyInv'
  <2>1. cli.lines \ {line} \in SUBSET Line
    BY <1>4
  <2>2. /\ cli' \in Process /\ cli'.lines = cli.lines \ {line} /\ cli'.cmd = cli.cmd /\ cli'.ks = cli.ks
        /\ cli'.batch = cli.batch /\ cli'.index = cli.index
    BY <1>4, <1>8, <2>1, LessWork
  <2> QED
    BY <1>2, <1>4, <2>2 DEF RekeyInv, RekeyComplete
<1>9. CASE cli' = Idle /\ rows' = rows
  BY <1>2, <1>9, IdleKeeps
<1>10. CASE cli' = [cli EXCEPT !.lines = cli.lines \ {line}] /\ rows' = rows
  <2>1. /\ cli' \in Process /\ cli'.cmd = cli.cmd /\ cli'.ks = cli.ks /\ cli'.index = cli.index
        /\ cli'.lines \subseteq cli.lines /\ cli'.batch \subseteq cli.batch /\ RekeyInv'
    BY <1>8, <1>10
  <2>2. TypeInv'
    BY <1>1, <1>2, <1>10, <2>1 DEF TypeInv
  <2>3. KeysInv' /\ EnvInv'
    BY <1>1, <1>2, <1>3, <1>10, <2>1 DEF KeysInv, EnvInv, OnDisk
  <2>4. CheckInv'
    BY <1>2, <1>3, <2>1 DEF SecretsInv, CheckInv, NoVerdict
  <2>5. SurveyInv'
    <3> SUFFICES ASSUME NEW x \in Tasks PROVE (DataOf(x) /\ FreshOf(x) /\ LifeOf(x))'
      BY DEF SurveyInv
    <3>1. Forgets
      BY <1>3, <2>1 DEF Forgets
    <3> QED
      BY <1>1, <1>2, <1>10, <3>1, SurveyFrame
  <2> QED
    BY <2>1, <2>2, <2>3, <2>4, <2>5 DEF SecretsInv
<1>11. CASE /\ cli' = [cli EXCEPT !.lines = cli.lines \ {line}] /\ cli.index[line.key] # NoRow
            /\ rows' = WriteBack(line.key, [cli.index[line.key] EXCEPT !.secret = line.secret])
  <2>1. /\ cli' \in Process /\ cli'.cmd = cli.cmd /\ cli'.ks = cli.ks /\ cli'.index = cli.index
        /\ cli'.lines \subseteq cli.lines /\ cli'.batch \subseteq cli.batch /\ RekeyInv'
    BY <1>8, <1>11
  <2>2. cli.index[line.key] \in GoodRow /\ cli.index[line.key].source = "local"
    BY <1>1, <1>3, <1>4, <1>6, <1>11 DEF Table, EnvInv
  <2>3. PICK row : row = [cli.index[line.key] EXCEPT !.secret = line.secret]
    OBVIOUS
  <2>4. row \in GoodRow /\ row.secret = line.secret /\ row.source = "local"
    BY <1>6, <2>2, <2>3 DEF GoodRow, Row, Envelope
  <2>5. rows' = WriteBack(line.key, row) /\ cli.cmd # "check"
    BY <1>2, <1>11, <2>3
  <2> QED
    BY <1>2, <1>3, <1>6, <1>7, <2>1, <2>4, <2>5, WriteBackKeeps
<1> QED
  BY <1>5, <1>9, <1>10, <1>11

-----------------------------------------------------------------------------
(* The invariant.                                                          *)

(* The first key is a key, and there is a value to begin with.             *)
LEMMA FirstKey == First \in Materials /\ OldValue \in Values
<1>1. First \in Materials
  BY SecretsAssumption, MinInSet DEF First
<1> QED
  BY <1>1, SecretsAssumption DEF OldValue

(* An installation, with or without key ids, begins in order.              *)
LEMMA InitHolds ==
    ASSUME Init
    PROVE  SecretsInv
<1>1. First \in Materials /\ OldValue \in Values
  BY FirstKey
<1>2. /\ disk \in [reg : {{First}}, access : {First}, option : {NoKey, First}]
      /\ keyset = Resolve(disk) /\ pending = [w \in Reloaders |-> Nothing]
      /\ write = Nothing /\ cli = Idle /\ verdict = NoVerdict /\ backup = {}
      /\ tasks = [t \in Tasks |-> [at |-> "none", status |-> "none", wants |-> NoValue,
                                   got |-> NoValue, expired |-> FALSE, early |-> FALSE]]
  BY DEF Init
<1>3. PICK stamped \in BOOLEAN, absent \in {{}, {Min(UserKeys)}} :
        /\ rows = [k \in Keys |-> IF k \in absent \cup Tasks THEN NoRow
                                  ELSE [name |-> k, source |-> "local", secret |-> Stored(OldValue, stamped)]]
        /\ jwt = Stored(OldValue, stamped)
  BY DEF Init
<1>4. PICK c : c = Stored(OldValue, stamped)
  OBVIOUS
<1>5. c \in Envelope /\ c.mat = First
  <2>1. c \in Cipher /\ c.mat = First /\ c.id \in {NoKey, First}
    BY <1>1, <1>4 DEF Stored, Cipher
  <2> QED
    BY <2>1 DEF Envelope
<1>6. /\ rows \in Table /\ \A t \in Tasks : rows[t] = NoRow
      /\ \A k \in Keys : rows[k] # NoRow => rows[k].secret = c /\ rows[k].source = "local"
  <2>1. \A k \in Keys : rows[k] = NoRow \/ rows[k] = [name |-> k, source |-> "local", secret |-> c]
    BY <1>3, <1>4
  <2>2. \A k \in Keys : [name |-> k, source |-> "local", secret |-> c] \in GoodRow
    BY <1>5, Constants DEF GoodRow, Row, Envelope
  <2>3. rows \in Table
    BY <1>3, <1>4, <2>2 DEF Table
  <2>4. \A t \in Tasks : rows[t] = NoRow
    BY <1>3, Constants
  <2>5. ASSUME NEW k \in Keys, rows[k] # NoRow
        PROVE  rows[k].secret = c /\ rows[k].source = "local"
    <3>1. rows[k] = [name |-> k, source |-> "local", secret |-> c]
      BY <2>1, <2>5
    <3> QED
      BY <3>1
  <2> QED
    BY <2>3, <2>4, <2>5
<1>7. /\ disk \in [reg : SUBSET Materials, access : Materials, option : Materials \cup {NoKey}]
      /\ disk.reg = {First} /\ disk.access = First /\ disk.option \in {NoKey, First}
  BY <1>1, <1>2
<1>8. keyset \in Keyset /\ keyset.access = First /\ keyset.byID = {First}
  BY <1>2, <1>7 DEF Resolve, Keyset
<1>9. tasks \in [Tasks -> TaskState] /\ \A t \in Tasks : tasks[t].at = "none"
  BY <1>2 DEF TaskState
<1>10. verdict \in [safe : SUBSET Materials, retired : SUBSET Materials, clean : BOOLEAN, moved : BOOLEAN]
       /\ ~verdict.clean
  BY <1>2 DEF NoVerdict
<1>11. TypeInv
  BY <1>2, <1>3, <1>4, <1>5, <1>6, <1>7, <1>8, <1>9, <1>10 DEF TypeInv
<1>12. KeysInv
  BY <1>2, <1>3, <1>4, <1>5, <1>6, <1>7, <1>8 DEF KeysInv, OnDisk
<1>13. CheckInv
  BY <1>2, <1>10 DEF CheckInv
<1>14. EnvInv
  BY <1>2, <1>6 DEF EnvInv
<1>15. RekeyInv
  BY <1>2 DEF RekeyInv, RekeyComplete, Idle
<1>16. SurveyInv
  BY <1>2, <1>6, <1>9 DEF SurveyInv, DataOf, FreshOf, LifeOf, Lives
<1> QED
  BY <1>11, <1>12, <1>13, <1>14, <1>15, <1>16 DEF SecretsInv

(* Users keep the invariant.                                               *)
LEMMA UserKeeps ==
    ASSUME SecretsInv, User
    PROVE  SecretsInv'
<1>1. CASE FinishWrite
  BY <1>1, FinishWriteKeeps
<1>2. ASSUME NEW k \in UserKeys, (\E n \in Names : RenameKey(k, n)) \/ DeleteKey(k)
      PROVE  SecretsInv'
  BY <1>2, UserTableKeeps
<1>3. ASSUME NEW k \in UserKeys, NEW v \in NewValues, NEW s \in {"local", "env"},
             (\E n \in Names : CreateKey(k, n, v)) \/ OverrideKey(k, s, v)
      PROVE  SecretsInv'
  BY <1>3, UserWriteKeeps
<1> QED
  BY <1>1, <1>2, <1>3 DEF User

(* Tasks keep the invariant.                                               *)
LEMMA TasksKeep ==
    ASSUME SecretsInv, Task
    PROVE  SecretsInv'
<1>1. PICK t \in Tasks :
          \/ \E v \in NewValues \cup {NoValue} : AddTask(t, v)
          \/ StoreSecret(t) \/ Dispatch(t) \/ StartRun(t) \/ StopTask(t) \/ Unqueue(t) \/ EndRun(t)
          \/ \E fails \in BOOLEAN : DropSecret(t, fails)
          \/ Expire(t) \/ Sweep(t)
  BY DEF Task
<1>2. ASSUME NEW v \in NewValues \cup {NoValue}, AddTask(t, v)
      PROVE  SecretsInv'
  BY <1>2, TaskKeeps
<1>3. CASE StoreSecret(t)
  BY <1>3, StoreSecretKeeps
<1>4. CASE Dispatch(t) \/ StartRun(t) \/ StopTask(t) \/ Unqueue(t) \/ EndRun(t) \/ Expire(t)
  <2>1. NoValue \in NewValues \cup {NoValue}
    OBVIOUS
  <2> QED
    BY <1>4, <2>1, TaskKeeps
<1>5. ASSUME NEW fails \in BOOLEAN, DropSecret(t, fails)
      PROVE  SecretsInv'
  BY <1>5, DropKeeps
<1>6. CASE Sweep(t)
  BY <1>6, DropKeeps
<1> QED
  BY <1>1, <1>2, <1>3, <1>4, <1>5, <1>6

(* Commands keep the invariant.                                            *)
LEMMA CommandKeeps ==
    ASSUME SecretsInv, Command
    PROVE  SecretsInv'
<1>1. ASSUME NEW cmd \in {"rekey", "check", "backup", "rollback"}, NEW old \in {NoKey, First}, StartCommand(cmd, old)
      PROVE  SecretsInv'
  BY <1>1, FirstKey, StartCommandKeeps
<1>2. CASE Exit
  BY <1>2, IdleKeeps DEF Exit
<1> QED
  BY <1>1, <1>2, NextPageKeeps, RekeyRowKeeps, RekeyJWTKeeps, CheckReportKeeps, IndexedKeeps, RestoreLineKeeps
     DEF Command

(* A step that changes nothing keeps the invariant.                        *)
LEMMA StutterKeeps ==
    ASSUME SecretsInv, UNCHANGED vars
    PROVE  SecretsInv'
<1>1. KeyInv /\ SurveyInv /\ UNCHANGED <<disk, keyset, pending, rows, jwt, write, cli, verdict, backup, tasks>>
  BY DEF SecretsInv, KeyInv, vars
<1>2. KeyInv'
  BY <1>1, TaskStep DEF KeyInv, TypeInv
<1>3. SurveyInv'
  BY <1>1 DEF SurveyInv, DataOf, FreshOf, LifeOf, Given
<1> QED
  BY <1>2, <1>3 DEF SecretsInv, KeyInv

(* Every step keeps the invariant.                                         *)
LEMMA StepKeeps ==
    ASSUME SecretsInv, [Next]_vars
    PROVE  SecretsInv'
<1>1. CASE Server
  BY <1>1, RestartKeeps, ReloadKeeps DEF Server
<1> QED
  BY <1>1, OperatorKeeps, UserKeeps, TasksKeep, CommandKeeps, StutterKeeps DEF Next

(* The invariant holds of every behaviour: the types; every value stored   *)
(* or on its way has its key in the keys file; the report of vault check   *)
(* stays true until it is used; rekey is done with the pages it passed;    *)
(* and the secrets of a task are the ones it was given.                    *)
THEOREM SecretsInvariant == Spec => []SecretsInv
<1>1. Init => SecretsInv
  BY InitHolds
<1>2. SecretsInv /\ [Next]_vars => SecretsInv'
  BY StepKeeps
<1> QED
  BY <1>1, <1>2, PTL DEF Spec

(* Rotation never loses a secret: whatever users save, reloads install and *)
(* vault commands re-encrypt, fail half-way or roll back, every stored     *)
(* secret and the JWT signing key can be decrypted with the keys file      *)
(* (vault_rekey.go, vault_check.go, keyring.go).                           *)
THEOREM ReadableHolds == Spec => []Readable
<1>1. SecretsInv => Readable
  <2> SUFFICES ASSUME SecretsInv PROVE Readable
    OBVIOUS
  <2>1. Resolve(disk).byID = disk.reg
    BY DEF Resolve
  <2>2. \A c \in Envelope : c.mat \in disk.reg => Decrypts(Resolve(disk), c)
    BY <2>1 DEF Decrypts, Envelope
  <2>3. jwt # NoSecret => Decrypts(Resolve(disk), jwt)
    BY <2>2 DEF SecretsInv, KeysInv, OnDisk, TypeInv
  <2>4. ASSUME NEW k \in Keys, Holds(rows[k])
        PROVE  Decrypts(Resolve(disk), rows[k].secret)
    <3>1. rows[k] # NoRow /\ rows[k].secret # NoSecret
      BY <2>4 DEF Holds, Local
    <3>2. rows[k].secret \in Envelope /\ rows[k].secret.mat \in disk.reg
      BY <3>1 DEF SecretsInv, TypeInv, Table, GoodRow, KeysInv, OnDisk
    <3> QED
      BY <2>2, <3>2
  <2> QED
    BY <2>3, <2>4 DEF Readable
<1> QED
  BY <1>1, SecretsInvariant, PTL

(* A task is started with the survey variables it was given: rekeys,       *)
(* rollbacks and restarts between AddTask and the dispatch cannot take     *)
(* them away or change them, and a sweep only takes away those of a task   *)
(* that was stopped, and had expired, while it was queued (TaskPool.go     *)
(* stopTaskRunner, TaskRunner.go run, runners.go prepareRemoteJob).        *)
THEOREM SurveyKeptHolds == Spec => []SurveyKept
<1>1. SecretsInv => SurveyKept
  <2> SUFFICES ASSUME SecretsInv PROVE SurveyKept
    OBVIOUS
  <2>1. NeverEmpty
    BY DEF SecretsInv, SurveyInv, LifeOf, Lives, Missed, NeverEmpty
  <2>2. GoodRow \subseteq Row /\ Envelope \subseteq Cipher
    BY DEF GoodRow, Envelope
  <2>3. \A line \in backup : line.key \in Keys /\ line.secret \in Cipher
    BY <2>2 DEF SecretsInv, TypeInv, Line
  <2>4. \A t \in Tasks : tasks[t].got \in Values \cup {NoValue}
    BY DEF SecretsInv, TypeInv, TaskState
  <2>5. write # Nothing => write.key \in Keys /\ write.row \in Row
    BY <2>2 DEF SecretsInv, TypeInv
  <2>6. \A k \in Keys : rows[k] = NoRow \/ rows[k] \in Row
    BY <2>2 DEF SecretsInv, TypeInv, Table
  <2>7. /\ disk.reg \subseteq Materials /\ disk.access \in Materials
        /\ keyset.byID \subseteq Materials /\ keyset.access \in keyset.byID
        /\ jwt \in Cipher \cup {NoSecret} /\ verdict.safe \subseteq Materials
    BY <2>2 DEF SecretsInv, TypeInv, Keyset
  <2> QED
    BY <2>1, <2>3, <2>4, <2>5, <2>6, <2>7 DEF SurveyKept, SecretsTypeOK
<1> QED
  BY <1>1, SecretsInvariant, PTL

-----------------------------------------------------------------------------
(* What a rekey does to the table.                                         *)

(* Beside the rekey itself, only a write it takes note of changes a row.   *)
LEMMA WhoWrites ==
    ASSUME SecretsInv, Next, cli.cmd = "rekey", write' = write,
           NEW k \in Keys, rows'[k] \notin {rows[k], NoRow}
    PROVE  k \in cli'.dirty \/ RekeyRow
<1>1. KeyInv /\ rows \in Table /\ cli # Idle
  BY DEF SecretsInv, KeyInv, TypeInv, Idle
<1>2. rows' # rows
  OBVIOUS
<1>3. ASSUME NEW j \in UserKeys, NEW n \in Names, RenameKey(j, n)
      PROVE  k \in cli'.dirty
  <2>1. rows' = [rows EXCEPT ![j].name = n] /\ cli' = Disturb(j, TRUE) /\ j \in Keys
    BY <1>3, Constants DEF RenameKey
  <2>2. k = j
    BY <1>1, <2>1 DEF Table
  <2>3. cli'.dirty = cli.dirty \cup {j}
    BY <1>1, <2>1, Disturbed
  <2> QED
    BY <2>2, <2>3
<1>4. ASSUME NEW j \in Keys, rows' = [rows EXCEPT ![j] = NoRow]
      PROVE  FALSE
  BY <1>1, <1>4 DEF Table
<1>5. ~Operator /\ ~Server
  BY <1>2 DEF Operator, AddKeyFile, SetActive, RemoveKeyFile, Server, Restart, ReloadRead, ReloadStore
<1>6. ~FinishWrite
  BY DEF FinishWrite
<1>7. ASSUME User PROVE k \in cli'.dirty
  <2>1. \A j \in UserKeys : ~DeleteKey(j)
    BY <1>4, Constants DEF DeleteKey
  <2>2. \A j \in UserKeys, v \in NewValues : /\ \A n \in Names : ~CreateKey(j, n, v)
                                             /\ \A s \in {"local", "env"} : ~OverrideKey(j, s, v)
    BY <1>2 DEF CreateKey, OverrideKey
  <2> QED
    BY <1>3, <1>6, <1>7, <2>1, <2>2 DEF User
<1>8. ~Task
  <2> SUFFICES ASSUME NEW t \in Tasks
               PROVE  /\ \A v : ~AddTask(t, v)
                      /\ ~StoreSecret(t) /\ ~Dispatch(t) /\ ~StartRun(t) /\ ~StopTask(t) /\ ~Unqueue(t) /\ ~EndRun(t) /\ ~Expire(t)
                      /\ \A fails \in BOOLEAN : ~DropSecret(t, fails)
                      /\ ~Sweep(t)
    BY DEF Task
  <2>1. t \in Keys
    BY Constants
  <2> QED
    BY <1>2, <1>4, <2>1
       DEF AddTask, StoreSecret, Dispatch, StartRun, StopTask, Unqueue, EndRun, Expire, DropSecret, Sweep
<1>9. ASSUME Command PROVE RekeyRow
  <2>1. ~RestoreLine
    BY DEF RestoreLine
  <2> QED
    BY <1>2, <1>9, <2>1 DEF Command, StartCommand, NextPage, RekeyJWT, CheckReport, Indexed, Exit
<1> QED
  BY <1>5, <1>7, <1>8, <1>9 DEF Next

(* A step of a rekey keeps name, source and plaintext of a row it rewrites *)
(* unless somebody wrote the row after the page was read.                  *)
LEMMA PlainKept ==
    ASSUME SecretsInv, Next
    PROVE  RekeyKeepsPlain
<1> SUFFICES ASSUME NEW k \in Keys, cli.cmd = "rekey", write' = write, Holds(rows[k]), rows'[k] \notin {rows[k], NoRow},
                    k \notin cli.dirty'
             PROVE  /\ rows'[k] = [rows[k] EXCEPT !.secret = rows'[k].secret]
                    /\ Holds(rows'[k]) /\ rows'[k].secret.plain = rows[k].secret.plain
  BY DEF RekeyKeepsPlain
<1>1. RekeyRow
  BY WhoWrites
<1>2. cli # Idle
  BY DEF Idle
<1>3. cli \in Process /\ cli.batch \in SUBSET Entry /\ rows \in Table /\ RekeyInv
  BY <1>2 DEF SecretsInv, TypeInv, Process
<1>4. PICK e \in cli.batch :
        \/ cli' = Idle /\ rows' = rows
        \/ cli' = [cli EXCEPT !.batch = cli.batch \ {e}] /\ rows' = WriteBack(e.key, Rewritten(e))
  BY <1>1 DEF RekeyRow, Rewritten
<1>5. cli' = [cli EXCEPT !.batch = cli.batch \ {e}] /\ rows' = WriteBack(e.key, Rewritten(e))
  BY <1>4
<1>6. cli'.dirty = cli.dirty
  BY <1>3, <1>5 DEF Process
<1>7. /\ e.key \in Keys /\ Rewritten(e) \in GoodRow /\ Rewritten(e).source = e.row.source
      /\ e.row.secret # NoSecret => Rewritten(e).secret # NoSecret /\ Rewritten(e).secret.plain = e.row.secret.plain
  BY <1>2, RewrittenRow
<1>8. k = e.key /\ rows'[k] = Rewritten(e)
  BY <1>3, <1>5, <1>7 DEF WriteBack, Table
<1>9. rows[k] = e.row /\ e.row \in GoodRow
  BY <1>2, <1>3, <1>6, <1>8 DEF RekeyInv, Entry
<1>10. rows'[k] = [rows[k] EXCEPT !.secret = rows'[k].secret]
  <2>1. PICK c : Rewritten(e) = [e.row EXCEPT !.secret = c]
    BY DEF Rewritten
  <2>2. Rewritten(e).secret = c
    BY <1>9, <2>1 DEF GoodRow, Row
  <2> QED
    BY <1>8, <1>9, <2>1, <2>2
<1>11. e.row.secret # NoSecret /\ e.row.source = "local"
  BY <1>9 DEF Holds, Local
<1>12. Rewritten(e) # NoRow
  BY <1>7, Constants
<1>13. Holds(rows'[k]) /\ rows'[k].secret.plain = rows[k].secret.plain
  BY <1>7, <1>8, <1>9, <1>11, <1>12 DEF Holds, Local
<1> QED
  BY <1>10, <1>13

(* A rekey changes no name, source or plaintext, and when it is done and   *)
(* nobody touched the list of keys, every secret it did not see change is  *)
(* encrypted with the active key (vault_rekey.go, RekeyAccessKeys).        *)
THEOREM RekeySoundHolds == Spec => RekeySound
<1>1. SecretsInv /\ [Next]_vars => SecretsInv'
  BY StepKeeps
<1>2. SecretsInv /\ SecretsInv' /\ [Next]_vars => [RekeyKeepsPlain /\ RekeyComplete']_vars
  <2>1. SecretsInv' => RekeyComplete'
    BY DEF SecretsInv, RekeyInv
  <2> QED
    BY <2>1, PlainKept
<1> QED
  BY <1>1, <1>2, SecretsInvariant, PTL DEF Spec, RekeySound
=============================================================================
