--------------------------- MODULE TriggersProofs ---------------------------
(***************************************************************************)
(* Proofs about what starts tasks and where they work. The workspace of    *)
(* the tasks of a template: locks, commits, requirements and what is left  *)
(* behind, for any number of executors, any history of the repository and  *)
(* any number of faults, pushes, clears and crashes. The schedule pool: a  *)
(* run time starts at most one task, the cron table follows the rows and   *)
(* no commit is passed over, for any rows, payloads, number of overlapping *)
(* refreshes, edits, pushes and restarts.                                  *)
(***************************************************************************)
EXTENDS Schedules, Workspace, TLAPS

-----------------------------------------------------------------------------
(* The workspace.                                                            *)

Points == {"new", "lock", "cleanup"} \cup GitSteps \cup Settled \cup Ended
Installed == {"install", "galaxy", "hash", "vault", "app"}
AnyCommit == Commits \cup {NoCommit}

CopyType == [state : {"none", "partial", "copy"}, head : AnyCommit, sub : AnyCommit, backend : BOOLEAN,
             whole : BOOLEAN, cut : BOOLEAN]
ExecutorType == [at : Points, dir : Dirs, attempt : Nat, commit : AnyCommit,
                 agent : {"none", "failed", "open", "closed"}, backend : BOOLEAN,
                 seen : SUBSET Commits, rewritten : BOOLEAN, disturbed : BOOLEAN]
DiskType == [inventory : BOOLEAN, raced : BOOLEAN, hash : Contents, home : SUBSET Contents]

JobType ==
    /\ heads \in [DOMAIN heads -> Commits] /\ {"main", "inventory"} \subseteq DOMAIN heads
    /\ job \in [template : Template, task : [Executors -> Task]]

WorkspaceType ==
    /\ JobType
    /\ copies \in [Dirs -> CopyType]
    /\ holder \in [Dirs -> Executors \cup {Unlocked}]
    /\ ex \in [Executors -> ExecutorType]
    /\ disk \in DiskType

\* Where an executor can be.
Placed(e) ==
    /\ ex[e].at \in {"new", "keys", "inventory", "validate", "checkout"} => ex[e].dir = "repo"
    /\ ex[e].dir = "inventory" => job.template.inventory = "file"
    /\ ex[e].at \in {"galaxy", "hash"} => job.template.app = "ansible"
    /\ ex[e].backend => job.template.backend

\* What the executor that has the lock of a directory knows of its copy.
Updating(e) ==
    LET copy == copies[ex[e].dir]
    IN /\ ex[e].dir = "repo" /\ ex[e].at \in GitSteps => RemoteHead(e) \in ex[e].seen
       /\ ex[e].dir = "repo" /\ copy.state = "copy" =>
            /\ ex[e].at \in {"pull", "submodules"} => <<copy.head, RemoteHead(e)>> \in Older \/ ex[e].rewritten
            /\ ex[e].at \in {"submodules", "cloning"} => copy.head \in ex[e].seen \/ ex[e].rewritten
            /\ ex[e].at = "checkout" => copy.sub = copy.head /\ (copy.head \in ex[e].seen \/ ex[e].rewritten)

\* What a task that was not disturbed works with.
Commit(e) ==
    Settling(e) /\ ~ex[e].disturbed /\ ~job.template.local =>
      LET copy == copies["repo"]
      IN /\ copy.state = "copy" /\ copy.head = ex[e].commit /\ Complete("repo")
         /\ job.task[e].pin = NoCommit =>
              copy.sub = copy.head /\ (ex[e].commit \in ex[e].seen \/ ex[e].rewritten)
         /\ job.task[e].pin # NoCommit => copy.head = job.task[e].pin

Inventory(e) ==
    ex[e].at \in Installed /\ ~ex[e].disturbed =>
      /\ job.template.inventory = "file" =>
           /\ copies["inventory"].state = "copy" /\ copies["inventory"].sub = copies["inventory"].head
           /\ Complete("inventory")
      /\ job.template.inventory = "static" => disk.inventory

Keys(e) ==
    /\ ex[e].at \in Ended => ex[e].agent # "open"
    /\ Settling(e) /\ ex[e].at # "keys" /\ job.template.key = "ssh" => ex[e].agent = "open"

Holds(e) == Placed(e) /\ Updating(e) /\ Commit(e) /\ Inventory(e) /\ Keys(e)

\* The requirements of a template whose tasks run one at a time.
Hashes(e) ==
    job.template.app = "ansible" =>
      /\ ex[e].at = "hash" => Content \in disk.home
      /\ ex[e].at \in {"vault", "app"} /\ ~skipGalaxyInstall(e) /\ copies["repo"].whole =>
           Content \in disk.home \cup {"none"}

Serial ==
    ~job.template.parallel =>
      /\ \A e, f \in Live : e = f
      /\ ~disk.raced =>
           /\ clearing # {} => Live = {} /\ ("internal" \in clearing \/ disk.hash = "none")
           /\ clearing = {} => disk.hash \in disk.home \cup {"none"}
           /\ \A e \in Executors : Hashes(e)

\* The files that are there are those of a task that crashed or still runs.
Leftovers ==
    (\A e \in Executors : ex[e].at # "dead") =>
      /\ disk.inventory => job.template.inventory = "static" /\ Live # {}
      /\ copies["repo"].backend => \E e \in Live : ex[e].backend

\* Files are missing only while they are removed or cloned, or for good.
Torn(d) == ~copies[d].whole /\ ~copies[d].cut
Breaking == {"remove", "cloning"}
Breaks(e, d) == ex[e].dir = d /\ ex[e].at \in Breaking
Clears(d) == d \in clearing /\ ~(d = "repo" /\ job.template.local)

Mending ==
    /\ Live # {} /\ clearing # {} => disk.raced
    /\ \A d \in Dirs : Torn(d) => disk.raced \/ Clears(d) \/ \E e \in Executors : Breaks(e, d)

WorkspaceInv ==
    /\ WorkspaceType /\ LocksMatch /\ Serial /\ Leftovers /\ Mending
    /\ \A e \in Executors : Holds(e)

-----------------------------------------------------------------------------
(* An executor and its record.                                             *)
LEMMA ExecutorFields ==
    ASSUME WorkspaceType, NEW e \in Executors
    PROVE  /\ ex[e] \in ExecutorType
           /\ ex[e].at \in Points /\ ex[e].dir \in Dirs /\ ex[e].attempt \in Nat
           /\ ex[e].seen \subseteq Commits /\ ex[e].commit \in AnyCommit
           /\ ex[e].agent \in {"none", "failed", "open", "closed"}
           /\ ex[e].backend \in BOOLEAN /\ ex[e].rewritten \in BOOLEAN /\ ex[e].disturbed \in BOOLEAN
           /\ copies[ex[e].dir] \in CopyType
BY DEF WorkspaceType, ExecutorType

(* A working copy and its record.                                          *)
LEMMA CopyFields ==
    ASSUME WorkspaceType, NEW d \in Dirs
    PROVE  /\ copies[d] \in CopyType
           /\ copies[d].state \in {"none", "partial", "copy"}
           /\ copies[d].head \in AnyCommit /\ copies[d].sub \in AnyCommit /\ copies[d].backend \in BOOLEAN
           /\ copies[d].whole \in BOOLEAN /\ copies[d].cut \in BOOLEAN
BY DEF WorkspaceType, CopyType

(* The branch of an executor is one of the repository.                     *)
LEMMA BranchFields ==
    ASSUME WorkspaceType, NEW e \in Executors
    PROVE  /\ resolveGitBranch(e) \in DOMAIN heads /\ Remote(e) \in DOMAIN heads
           /\ RemoteHead(e) \in Commits /\ job.task[e].pin \in AnyCommit
<1>1. job.template \in Template /\ job.task[e] \in Task
  BY DEF WorkspaceType, JobType
<1>2. /\ job.template.branch \in DOMAIN heads \cup {""} /\ job.task[e].branch \in DOMAIN heads \cup {""}
      /\ job.task[e].pin \in AnyCommit
  BY <1>1 DEF Template, Task, AnyCommit
<1>3. resolveGitBranch(e) \in DOMAIN heads
  BY <1>2 DEF resolveGitBranch, WorkspaceType, JobType
<1>4. Remote(e) \in DOMAIN heads
  BY <1>3 DEF Remote, WorkspaceType, JobType
<1> QED
  BY <1>2, <1>3, <1>4 DEF RemoteHead, WorkspaceType, JobType

-----------------------------------------------------------------------------
\* What a step leaves of an executor and of a working copy.
Keeps(o) ==
    /\ ex'[o].dir = ex[o].dir /\ ex'[o].commit = ex[o].commit /\ ex'[o].agent = ex[o].agent
    /\ ex'[o].backend = ex[o].backend /\ ex'[o].seen = ex[o].seen /\ ex'[o].rewritten = ex[o].rewritten
SameCopy(d) ==
    /\ copies'[d].state = copies[d].state /\ copies'[d].head = copies[d].head /\ copies'[d].sub = copies[d].sub
    /\ Torn(d)' => Torn(d)

\* The others go on as they are, disturbed if what they share has changed.
Turn(e, changed) ==
    /\ ex' \in [Executors -> ExecutorType]
    /\ \A o \in Executors : o # e =>
         /\ Keeps(o) /\ ex'[o].at = ex[o].at
         /\ ~ex'[o].disturbed => ~ex[o].disturbed /\ ~(changed /\ Settling(o))

(* Advance, Goto and Disturb as such turns.                                *)
LEMMA DisturbFacts ==
    ASSUME WorkspaceType, NEW e \in Executors, NEW f \in ExecutorType, NEW changed, Disturb(e, f, changed)
    PROVE  Turn(e, changed) /\ ex'[e] = f
<1>1. \A o \in Executors : (ex[o].disturbed \/ (changed /\ Settling(o))) \in BOOLEAN
  BY Zenon
<1>2. \A o \in Executors : ex[o] \in ExecutorType
  BY DEF WorkspaceType
<1>3. \A o \in Executors : o # e => ex'[o] = [ex[o] EXCEPT !.disturbed = @ \/ (changed /\ Settling(o))]
  BY DEF Disturb
<1>4. ASSUME NEW o \in Executors, o # e
      PROVE  /\ ex'[o] \in ExecutorType /\ Keeps(o) /\ ex'[o].at = ex[o].at
             /\ ~ex'[o].disturbed => ~ex[o].disturbed /\ ~(changed /\ Settling(o))
  <2>1. PICK b \in BOOLEAN : b = (ex[o].disturbed \/ (changed /\ Settling(o)))
    BY <1>1
  <2>2. ex'[o] = [ex[o] EXCEPT !.disturbed = b]
    BY <1>3, <1>4, <2>1, Zenon
  <2>3. ex'[o] \in ExecutorType
    BY <1>2, <2>2 DEF ExecutorType
  <2>4. Keeps(o) /\ ex'[o].at = ex[o].at /\ ex'[o].disturbed = b
    BY <1>2, <2>2 DEF ExecutorType, Keeps
  <2> QED
    BY <2>1, <2>3, <2>4
<1>5. ex'[e] = f /\ ex' \in [Executors -> ExecutorType]
  BY <1>4 DEF Disturb
<1> QED
  BY <1>4, <1>5 DEF Turn

(* Advance disturbs nobody ...                                             *)
LEMMA AdvanceFacts ==
    ASSUME WorkspaceType, NEW e \in Executors, NEW f \in ExecutorType, Advance(e, f)
    PROVE  Turn(e, FALSE) /\ ex'[e] = f
BY DEF Advance, Turn, Keeps, WorkspaceType

(* ... Goto changes where the executor is ...                              *)
LEMMA GotoFacts ==
    ASSUME WorkspaceType, NEW e \in Executors, NEW p \in Points, Goto(e, p)
    PROVE  /\ Turn(e, FALSE) /\ Keeps(e)
           /\ ex'[e].at = p /\ ex'[e].disturbed = ex[e].disturbed
<1>1. PICK f : f = [ex[e] EXCEPT !.at = p]
  OBVIOUS
<1>2. ex[e] \in ExecutorType /\ f \in ExecutorType
  BY <1>1 DEF WorkspaceType, ExecutorType
<1>3. Turn(e, FALSE) /\ ex'[e] = f
  BY <1>1, <1>2, AdvanceFacts DEF Goto
<1> QED
  BY <1>1, <1>2, <1>3 DEF Keeps, ExecutorType

(* ... and GitRepository.retry its attempt, too.                           *)
LEMMA RetryFacts ==
    ASSUME WorkspaceType, NEW e \in Executors, NEW p \in Points, NEW q \in Points, NEW changed,
           Retry(e, p, q, changed)
    PROVE  /\ Turn(e, changed) /\ Keeps(e)
           /\ ex'[e].at \in {p, q} /\ ex'[e].disturbed = ex[e].disturbed
<1>1. ex[e] \in ExecutorType /\ ex[e].attempt + 1 \in Nat
  BY DEF WorkspaceType, ExecutorType
<1>2. PICK f : f = IF ex[e].attempt < GitAttempts THEN [ex[e] EXCEPT !.at = p, !.attempt = @ + 1]
                                                 ELSE [ex[e] EXCEPT !.at = q, !.attempt = 1]
  OBVIOUS
<1>3. f = [ex[e] EXCEPT !.at = p, !.attempt = @ + 1] \/ f = [ex[e] EXCEPT !.at = q, !.attempt = 1]
  BY <1>2
<1>4. f \in ExecutorType
  <2>1. CASE f = [ex[e] EXCEPT !.at = p, !.attempt = @ + 1]
    BY <1>1, <2>1 DEF ExecutorType
  <2>2. CASE f = [ex[e] EXCEPT !.at = q, !.attempt = 1]
    BY <1>1, <2>2 DEF ExecutorType
  <2> QED
    BY <1>3, <2>1, <2>2
<1>5. Disturb(e, f, changed)
  BY <1>2 DEF Retry
<1>6. Turn(e, changed) /\ ex'[e] = f
  BY <1>4, <1>5, DisturbFacts
<1> QED
  BY <1>1, <1>3, <1>6 DEF Keeps, ExecutorType

-----------------------------------------------------------------------------
\* What the steps of an executor have in common: another one that has settled
\* is disturbed when the copy it settled on or the inventory file goes.
Undisturbing ==
    /\ \A d \in Dirs : SameCopy(d) \/ copies[d].state # "copy"
    /\ disk.inventory => disk'.inventory

Apart(e) ==
    \A o \in Executors : o # e =>
      /\ Keeps(o) /\ ex'[o].at = ex[o].at
      /\ ~ex'[o].disturbed => ~ex[o].disturbed /\ (Settling(o) => Undisturbing)

Acts(e) ==
    /\ WorkspaceType' /\ job' = job /\ heads' = heads /\ clearing' = clearing
    /\ Apart(e) /\ (disk.raced => disk'.raced)
    /\ \A d \in Dirs : /\ SameCopy(d) \/ (d = ex[e].dir /\ ex[e].at \in GitSteps)
                       /\ Torn(d)' => (Torn(d) /\ ~Breaks(e, d)) \/ Breaks(e, d)'

\* The lock of its directory is kept, released or taken.
Locks(e) ==
    \/ /\ holder' = holder
       /\ \/ ex[e].at \in GitSteps /\ ex'[e].at \in GitSteps /\ ex'[e].dir = ex[e].dir
          \/ ex[e].at \notin GitSteps /\ ex'[e].at \notin GitSteps
    \/ ReleaseLock(e) /\ ex'[e].at \notin GitSteps
    \/ /\ holder[ex[e].dir] = Unlocked /\ holder' = [holder EXCEPT ![ex[e].dir] = e]
       /\ ex[e].at \notin GitSteps /\ ex'[e].at \in GitSteps /\ ex'[e].dir = ex[e].dir

\* The requirements it finds or installs, while no other executor is at work.
Requires(e) ==
    /\ disk.raced => disk'.raced
    /\ ex[e].at \notin Ended /\ ex'[e].at # "new"
    /\ ex[e].at = "new" => /\ job.template.parallel \/ Live = {}
                           /\ clearing # {} => disk'.raced
    /\ ~job.template.parallel /\ disk.hash \in disk.home \cup {"none"} /\ Hashes(e) =>
         disk'.hash \in disk'.home \cup {"none"} /\ Hashes(e)'

\* The files it makes, and takes away at its end.
Leaves(e) ==
    \/ /\ ex'[e].at \notin Ended
       /\ disk'.inventory => disk.inventory \/ job.template.inventory = "static"
       /\ copies'["repo"].backend => copies["repo"].backend \/ ex'[e].backend
       /\ ex[e].backend => ex'[e].backend
    \/ /\ ex'[e].at = "done"
       /\ disk'.inventory => disk.inventory /\ job.template.inventory # "static"
       /\ copies'["repo"].backend => copies["repo"].backend /\ ~ex[e].backend

(* What a step of an executor means for the others.                        *)
LEMMA OthersHold ==
    ASSUME WorkspaceInv, NEW e \in Executors, Acts(e), NEW o \in Executors, o # e
    PROVE  Holds(o)'
<1>1. /\ Keeps(o) /\ ex'[o].at = ex[o].at /\ job' = job /\ heads' = heads
      /\ ~ex'[o].disturbed => ~ex[o].disturbed /\ (Settling(o) => Undisturbing)
  BY DEF Acts, Apart
<1>2. Holds(o) /\ ex[o].dir \in Dirs
  BY ExecutorFields DEF WorkspaceInv
<1>3. Settling(o)' <=> Settling(o)
  BY <1>1 DEF Keeps, Settling
<1>4. RemoteHead(o)' = RemoteHead(o)
  BY <1>1 DEF Keeps, RemoteHead, Remote, resolveGitBranch
<1>5. Placed(o)' /\ Keys(o)'
  BY <1>1, <1>2, <1>3 DEF Holds, Placed, Keys, Keeps
<1>6. ex[o].at \in GitSteps => SameCopy(ex[o].dir)
  BY <1>2 DEF Acts, WorkspaceInv, LocksMatch
<1>7. Updating(o)'
  BY <1>1, <1>2, <1>4, <1>6 DEF Holds, Updating, Keeps, SameCopy, GitSteps
<1>8. Commit(o)'
  <2>1. SUFFICES ASSUME Settling(o), ~ex'[o].disturbed, ~job.template.local
                 PROVE  Commit(o)'
    BY <1>1, <1>3 DEF Commit
  <2>2. Undisturbing /\ copies["repo"].state = "copy"
    BY <1>1, <1>2, <2>1 DEF Holds, Commit
  <2>3. SameCopy("repo")
    BY <2>2 DEF Undisturbing, Dirs
  <2>4. Complete("repo")'
    BY <1>2, <2>1, <2>3, <1>1 DEF Holds, Commit, SameCopy, Acts, Complete, Torn
  <2> QED
    BY <1>1, <1>2, <2>1, <2>3, <2>4 DEF Holds, Commit, SameCopy, Keeps
<1>9. Inventory(o)'
  <2>1. SUFFICES ASSUME ex[o].at \in Installed, ~ex'[o].disturbed
                 PROVE  Inventory(o)'
    BY <1>1 DEF Inventory
  <2>2. Undisturbing /\ ~ex[o].disturbed
    BY <1>1, <2>1 DEF Settling, Settled, Installed
  <2>3. copies["inventory"].state = "copy" => SameCopy("inventory")
    BY <2>2 DEF Undisturbing, Dirs
  <2>4. Complete("inventory") /\ SameCopy("inventory") => Complete("inventory")'
    BY DEF SameCopy, Acts, Complete, Torn
  <2> QED
    BY <1>1, <1>2, <2>1, <2>2, <2>3, <2>4 DEF Holds, Inventory, SameCopy, Undisturbing
<1> QED
  BY <1>5, <1>7, <1>8, <1>9 DEF Holds

(* ... and for the locks ...                                               *)
LEMMA LocksHold ==
    ASSUME WorkspaceInv, NEW e \in Executors, Acts(e), Locks(e)
    PROVE  LocksMatch'
<1>1. /\ \A o \in Executors : o # e => ex'[o].at = ex[o].at /\ ex'[o].dir = ex[o].dir
      /\ holder \in [Dirs -> Executors \cup {Unlocked}] /\ LocksMatch
      /\ \A o \in Executors : ex[o].dir \in Dirs
  BY ExecutorFields DEF Acts, Apart, Keeps, WorkspaceInv, WorkspaceType
<1>2. CASE holder' = holder /\ ex[e].at \in GitSteps /\ ex'[e].at \in GitSteps /\ ex'[e].dir = ex[e].dir
  BY <1>1, <1>2, WorkspaceAssumption DEF LocksMatch
<1>3. CASE holder' = holder /\ ex[e].at \notin GitSteps /\ ex'[e].at \notin GitSteps
  BY <1>1, <1>3, WorkspaceAssumption DEF LocksMatch
<1>4. CASE ReleaseLock(e) /\ ex'[e].at \notin GitSteps
  BY <1>1, <1>4, WorkspaceAssumption DEF LocksMatch, ReleaseLock
<1>5. CASE /\ holder[ex[e].dir] = Unlocked /\ holder' = [holder EXCEPT ![ex[e].dir] = e]
           /\ ex[e].at \notin GitSteps /\ ex'[e].at \in GitSteps /\ ex'[e].dir = ex[e].dir
  BY <1>1, <1>5, WorkspaceAssumption DEF LocksMatch
<1> QED
  BY <1>2, <1>3, <1>4, <1>5 DEF Locks

(* ... the executors at work ...                                           *)
LEMMA LiveFacts ==
    ASSUME NEW e \in Executors, Acts(e), ex[e].at \notin Ended, ex'[e].at # "new"
    PROVE  /\ \A o \in Executors : o # e => (o \in Live' <=> o \in Live)
           /\ e \in Live' <=> ex'[e].at \notin Ended
           /\ e \in Live <=> ex[e].at # "new"
           /\ Live' \subseteq Executors /\ Live \subseteq Executors
BY DEF Acts, Apart, Live

(* ... the requirements ...                                                *)
LEMMA SerialHolds ==
    ASSUME WorkspaceInv, NEW e \in Executors, Acts(e), Requires(e)
    PROVE  Serial'
<1>1. /\ job' = job /\ clearing' = clearing /\ Serial
      /\ \A o \in Executors : o # e => ex'[o].at = ex[o].at
  BY DEF Acts, Apart, WorkspaceInv
<1>2. /\ disk.raced => disk'.raced
      /\ ex[e].at = "new" => (job.template.parallel \/ Live = {}) /\ (clearing # {} => disk'.raced)
      /\ ~job.template.parallel /\ disk.hash \in disk.home \cup {"none"} /\ Hashes(e) =>
           disk'.hash \in disk'.home \cup {"none"} /\ Hashes(e)'
  BY DEF Requires
<1>3. /\ \A o \in Executors : o # e => (o \in Live' <=> o \in Live)
      /\ e \in Live <=> ex[e].at # "new"
      /\ Live' \subseteq Executors /\ Live \subseteq Executors
  BY LiveFacts DEF Requires
<1>4. SUFFICES ASSUME ~job.template.parallel
               PROVE  Serial'
  BY <1>1 DEF Serial
<1>5. \A o \in Executors : o # e => o \notin Live' /\ o \notin Live
  BY <1>1, <1>2, <1>3, <1>4 DEF Serial
<1>6. \A o, f \in Live' : o = f
  BY <1>3, <1>5
<1>7. ASSUME ~disk'.raced
      PROVE  /\ clearing = {} /\ disk'.hash \in disk'.home \cup {"none"}
             /\ \A o \in Executors : Hashes(o)'
  <2>1. ~disk.raced /\ clearing = {}
    BY <1>1, <1>2, <1>3, <1>4, <1>7 DEF Serial
  <2>2. disk.hash \in disk.home \cup {"none"} /\ Hashes(e)
    BY <1>1, <1>4, <2>1 DEF Serial
  <2>3. ASSUME NEW o \in Executors, o # e
        PROVE  Hashes(o)'
    <3>1. ex'[o].at \in Ended \cup {"new"}
      BY <1>5, <2>3 DEF Live
    <3> QED
      BY <3>1 DEF Hashes, Ended
  <2> QED
    BY <1>2, <1>4, <2>1, <2>2, <2>3
<1> QED
  BY <1>1, <1>6, <1>7 DEF Serial

(* ... and the files they share.                                           *)
LEMMA LeftoversHold ==
    ASSUME WorkspaceInv, NEW e \in Executors, Acts(e), Requires(e), Leaves(e)
    PROVE  Leftovers'
<1>1. /\ job' = job /\ Leftovers
      /\ \A o \in Executors : o # e => ex'[o].at = ex[o].at /\ ex'[o].backend = ex[o].backend
  BY DEF Acts, Apart, Keeps, WorkspaceInv
<1>2. /\ \A o \in Executors : o # e => (o \in Live' <=> o \in Live)
      /\ e \in Live' <=> ex'[e].at \notin Ended
      /\ Live' \subseteq Executors /\ Live \subseteq Executors
      /\ ex[e].at # "dead"
  BY LiveFacts DEF Requires, Ended
<1>3. SUFFICES ASSUME \A o \in Executors : ex'[o].at # "dead"
               PROVE  Leftovers'
  BY DEF Leftovers
<1>4. /\ disk.inventory => job.template.inventory = "static" /\ Live # {}
      /\ copies["repo"].backend => \E o \in Live : ex[o].backend
  BY <1>1, <1>2, <1>3 DEF Leftovers
<1>5. CASE /\ ex'[e].at \notin Ended
           /\ disk'.inventory => disk.inventory \/ job.template.inventory = "static"
           /\ copies'["repo"].backend => copies["repo"].backend \/ ex'[e].backend
           /\ ex[e].backend => ex'[e].backend
  <2>1. e \in Live'
    BY <1>2, <1>5
  <2>2. disk'.inventory => job'.template.inventory = "static" /\ Live' # {}
    BY <1>1, <1>4, <1>5, <2>1
  <2>3. copies'["repo"].backend => \E o \in Live' : ex'[o].backend
    BY <1>1, <1>2, <1>4, <1>5, <2>1
  <2> QED
    BY <2>2, <2>3 DEF Leftovers
<1>6. CASE /\ ex'[e].at = "done"
           /\ disk'.inventory => disk.inventory /\ job.template.inventory # "static"
           /\ copies'["repo"].backend => copies["repo"].backend /\ ~ex[e].backend
  <2>1. ~disk'.inventory
    BY <1>4, <1>6
  <2>2. copies'["repo"].backend => \E o \in Live' : ex'[o].backend
    BY <1>1, <1>2, <1>4, <1>6
  <2> QED
    BY <2>1, <2>2 DEF Leftovers
<1> QED
  BY <1>5, <1>6 DEF Leaves

(* Files that are missing are being removed or cloned.                     *)
LEMMA MendingHolds ==
    ASSUME WorkspaceInv, NEW e \in Executors, Acts(e), Requires(e)
    PROVE  Mending'
<1>1. /\ clearing' = clearing /\ job' = job /\ Mending /\ (disk.raced => disk'.raced)
      /\ \A o \in Executors : o # e => ex'[o].at = ex[o].at /\ ex'[o].dir = ex[o].dir
  BY DEF Acts, Apart, Keeps, WorkspaceInv
<1>2. Live' # {} /\ clearing' # {} => disk'.raced
  <2>1. e \in Live <=> ex[e].at # "new"
    BY DEF Requires, Live
  <2> QED
    BY <1>1, <2>1 DEF Mending, Requires
<1>3. ASSUME NEW d \in Dirs, Torn(d)', ~disk'.raced, ~Clears(d)'
      PROVE  \E f \in Executors : Breaks(f, d)'
  <2>1. (Torn(d) /\ ~Breaks(e, d)) \/ Breaks(e, d)'
    BY <1>3 DEF Acts
  <2>2. CASE Torn(d) /\ ~Breaks(e, d)
    <3>1. PICK f \in Executors : Breaks(f, d)
      BY <1>1, <1>3, <2>2 DEF Mending, Clears
    <3> QED
      BY <1>1, <2>2, <3>1 DEF Breaks
  <2> QED
    BY <2>1, <2>2
<1> QED
  BY <1>2, <1>3 DEF Mending

(* Who has the lock of a directory and neither removes nor clones it finds *)
(* all the files that are not missing for good.                            *)
LEMMA Found ==
    ASSUME WorkspaceInv, NEW e \in Executors, ex[e].at \in GitSteps \ Breaking
    PROVE  Complete(ex[e].dir)
<1>1. LocksMatch /\ Mending /\ ex[e].dir \in Dirs
  BY ExecutorFields DEF WorkspaceInv
<1>2. \A f \in Executors : ~Breaks(f, ex[e].dir)
  BY <1>1 DEF LocksMatch, Breaks, Breaking, GitSteps
<1>3. e \in Live
  BY DEF Live, GitSteps, Ended
<1> QED
  BY <1>1, <1>2, <1>3 DEF Mending, Torn, Complete, Clears

(* What is left to show of a step of an executor.                          *)
LEMMA StepHolds ==
    ASSUME WorkspaceInv, NEW e \in Executors, Acts(e), Locks(e), Requires(e), Leaves(e), Holds(e)'
    PROVE  WorkspaceInv'
<1>1. \A o \in Executors : Holds(o)'
  BY OthersHold
<1> QED
  BY <1>1, LocksHold, SerialHolds, LeftoversHold, MendingHolds DEF WorkspaceInv, Acts


-----------------------------------------------------------------------------
(* The template, its tasks and the branches keep their types.              *)
LEMMA JobKept ==
    ASSUME JobType, UNCHANGED <<job, heads>>
    PROVE  JobType'
<1>1. Template' = Template /\ Task' = Task
  BY DEF Template, Task
<1> QED
  BY <1>1 DEF JobType

(* Steps that leave the working copies alone.                              *)
LEMMA QuietActs ==
    ASSUME WorkspaceInv, NEW e \in Executors, Turn(e, FALSE), UNCHANGED <<job, heads, copies, clearing>>,
           holder' \in [Dirs -> Executors \cup {Unlocked}], disk' \in DiskType,
           disk.inventory => disk'.inventory, disk.raced => disk'.raced, ex[e].at \notin Breaking
    PROVE  Acts(e)
<1>1. WorkspaceType'
  BY JobKept DEF WorkspaceInv, WorkspaceType, Turn
<1>2. \A d \in Dirs : (Torn(d)' <=> Torn(d)) /\ ~Breaks(e, d)
  BY DEF Torn, Breaks
<1>3. Undisturbing /\ \A d \in Dirs : SameCopy(d)
  BY <1>2 DEF Undisturbing, SameCopy
<1> QED
  BY <1>1, <1>2, <1>3 DEF Acts, Apart, Turn

(* Steps of git, on the copy in the directory that is locked.              *)
LEMMA GitActs ==
    ASSUME WorkspaceInv, NEW e \in Executors, NEW changed, Turn(e, changed), NEW c \in CopyType,
           copies' = [copies EXCEPT ![ex[e].dir] = c],
           UNCHANGED <<job, heads, clearing, disk>>, holder' \in [Dirs -> Executors \cup {Unlocked}],
           ex[e].at \in GitSteps,
           ~changed => \/ copies[ex[e].dir].state # "copy"
                       \/ /\ c.state = copies[ex[e].dir].state /\ c.head = copies[ex[e].dir].head
                          /\ c.sub = copies[ex[e].dir].sub
                          /\ c.whole \/ c.cut \/ Torn(ex[e].dir),
           \/ c.whole \/ c.cut
           \/ Torn(ex[e].dir) /\ ex[e].at \notin Breaking
           \/ ex'[e].dir = ex[e].dir /\ ex'[e].at \in Breaking
    PROVE  /\ Acts(e) /\ copies'[ex[e].dir] = c
           /\ \A d \in Dirs : d # ex[e].dir => copies'[d] = copies[d]
<1>1. ex[e].dir \in Dirs /\ copies \in [Dirs -> CopyType]
  BY ExecutorFields DEF WorkspaceInv, WorkspaceType
<1>2. /\ copies' \in [Dirs -> CopyType] /\ copies'[ex[e].dir] = c
      /\ \A d \in Dirs : d # ex[e].dir => copies'[d] = copies[d]
  BY <1>1
<1>3. WorkspaceType'
  BY <1>2, JobKept DEF WorkspaceInv, WorkspaceType, Turn
<1>4. \A d \in Dirs : SameCopy(d) \/ d = ex[e].dir
  BY <1>2 DEF SameCopy, Torn
<1>5. \A d \in Dirs : d = ex[e].dir => (Torn(d)' <=> ~c.whole /\ ~c.cut)
  BY <1>2 DEF Torn
<1>6. ~changed => Undisturbing
  BY <1>1, <1>2, <1>4, <1>5 DEF Undisturbing, SameCopy
<1>7. ASSUME NEW d \in Dirs
      PROVE  Torn(d)' => (Torn(d) /\ ~Breaks(e, d)) \/ Breaks(e, d)'
  BY <1>2, <1>5 DEF Torn, Breaks
<1> QED
  BY <1>2, <1>3, <1>4, <1>6, <1>7 DEF Acts, Apart, Turn

(* An executor that goes on under the lock it has.                         *)
LEMMA GitStays ==
    ASSUME WorkspaceInv, NEW e \in Executors, Acts(e), Keeps(e), ex'[e].disturbed = ex[e].disturbed,
           ex[e].at \in GitSteps, ex'[e].at \in GitSteps, UNCHANGED <<holder, disk>>,
           ex'[e].at \in {"validate", "checkout"} => ex[e].dir = "repo",
           copies'["repo"].backend => copies["repo"].backend,
           Updating(e)'
    PROVE  WorkspaceInv'
<1>1. Holds(e) /\ job' = job /\ ex[e].dir \in Dirs
  BY ExecutorFields DEF WorkspaceInv, Acts
<1>2. Locks(e) /\ Requires(e) /\ Leaves(e)
  <2>1. Locks(e)
    BY DEF Locks, Keeps
  <2>2. Hashes(e)'
    BY DEF Hashes, GitSteps
  <2>3. Requires(e)
    BY <2>2 DEF Requires, GitSteps, Ended
  <2>4. Leaves(e)
    BY DEF Leaves, Keeps, GitSteps, Ended
  <2> QED
    BY <2>1, <2>3, <2>4
<1>3. Placed(e)'
  BY <1>1 DEF Keeps, Holds, Placed, GitSteps
<1>4. Settling(e)' => Settling(e) /\ ex[e].dir = "inventory"
  BY DEF Settling, Keeps, GitSteps, Settled
<1>5. Keys(e)' /\ Inventory(e)'
  BY <1>1, <1>4 DEF Keeps, Holds, Keys, Inventory, GitSteps, Ended, Installed
<1>6. Commit(e)'
  <2>1. ex[e].dir = "inventory" => SameCopy("repo")
    BY DEF Acts, Dirs
  <2> QED
    BY <1>1, <1>4, <2>1 DEF Keeps, Holds, Commit, SameCopy, Complete, Torn
<1> QED
  BY <1>2, <1>3, <1>5, <1>6, StepHolds DEF Holds

(* An executor that fails: Cleanup is next.                                *)
LEMMA FailHolds ==
    ASSUME WorkspaceInv, NEW e \in Executors, Acts(e), Locks(e), Keeps(e),
           ex[e].at \notin Ended \cup {"new"}, ex'[e].at = "cleanup", UNCHANGED disk,
           copies'["repo"].backend => copies["repo"].backend
    PROVE  WorkspaceInv'
<1>1. Holds(e) /\ job' = job
  BY DEF WorkspaceInv, Acts
<1>2. Requires(e) /\ Leaves(e)
  <2>1. Hashes(e)'
    BY DEF Hashes
  <2>2. Requires(e)
    BY <2>1 DEF Requires, Ended
  <2>3. Leaves(e)
    BY DEF Leaves, Keeps, Ended
  <2> QED
    BY <2>2, <2>3
<1>3. Holds(e)'
  BY <1>1 DEF Keeps, Holds, Placed, Updating, Commit, Inventory, Keys, Settling, Settled, GitSteps, Installed, Ended
<1> QED
  BY <1>2, <1>3, StepHolds


-----------------------------------------------------------------------------
(* The cache is cleared under a task.                                      *)
LEMMA RacedFacts ==
    ASSUME WorkspaceType, NEW x, disk' = [disk EXCEPT !.raced = @ \/ x]
    PROVE  /\ disk' \in DiskType
           /\ disk'.inventory = disk.inventory /\ disk'.hash = disk.hash /\ disk'.home = disk.home
           /\ ~disk'.raced => ~disk.raced /\ ~x
           /\ disk.raced => disk'.raced
<1>1. (disk.raced \/ x) \in BOOLEAN
  BY Zenon
<1>2. PICK b \in BOOLEAN : b = (disk.raced \/ x)
  BY <1>1
<1>3. disk' = [disk EXCEPT !.raced = b] /\ disk \in DiskType
  BY <1>2, Zenon DEF WorkspaceType
<1>4. disk' \in DiskType
  BY <1>3 DEF DiskType
<1>5. disk'.inventory = disk.inventory /\ disk'.hash = disk.hash /\ disk'.home = disk.home /\ disk'.raced = b
  BY <1>3 DEF DiskType
<1> QED
  BY <1>2, <1>4, <1>5

(* prepareRun starts: a clear that has begun races with it.                *)
LEMMA StartPrepareHolds ==
    ASSUME WorkspaceInv, NEW e \in Executors, StartPrepare(e)
    PROVE  WorkspaceInv'
<1>1. PICK p \in {"keys", "lock", "cleanup"} : Goto(e, p) /\ (p = "keys" => job.template.local)
  BY DEF StartPrepare
<1>2. /\ Turn(e, FALSE) /\ Keeps(e) /\ ex'[e].at = p /\ ex'[e].disturbed = ex[e].disturbed
  BY <1>1, GotoFacts DEF WorkspaceInv, Points, Settled
<1>3. UNCHANGED <<job, heads, copies, holder, clearing>> /\ ex[e].at = "new" /\ (job.template.parallel \/ Live = {})
  BY DEF StartPrepare
<1>4. PICK x : disk' = [disk EXCEPT !.raced = @ \/ x] /\ x = (clearing # {})
  BY DEF StartPrepare
<1>5. /\ disk' \in DiskType
      /\ disk'.inventory = disk.inventory /\ disk'.hash = disk.hash /\ disk'.home = disk.home
      /\ ~disk'.raced => ~disk.raced /\ clearing = {}
  BY <1>4, RacedFacts DEF WorkspaceInv
<1>6. Acts(e)
  <2>1. disk.raced => disk'.raced
    BY <1>4, RacedFacts DEF WorkspaceInv
  <2> QED
    BY <1>2, <1>3, <1>5, <2>1, QuietActs DEF WorkspaceInv, WorkspaceType, Breaking
<1>7. Locks(e)
  BY <1>2, <1>3 DEF Locks, GitSteps
<1>8. Requires(e)
  <2>1. Hashes(e)'
    BY <1>2 DEF Hashes
  <2> QED
    BY <1>2, <1>3, <1>5, <2>1 DEF Requires, Ended
<1>9. Leaves(e)
  BY <1>2, <1>3, <1>5 DEF Leaves, Keeps, Ended
<1>10. Holds(e)'
  <2>1. Holds(e) /\ ex[e].dir = "repo"
    BY <1>3 DEF WorkspaceInv, Holds, Placed
  <2>2. Settling(e)' => p = "keys"
    BY <1>2, <2>1 DEF Settling, Settled, Keeps
  <2>3. Placed(e)' /\ Updating(e)'
    BY <1>2, <1>3, <2>1 DEF Holds, Placed, Updating, Keeps, GitSteps
  <2>4. Commit(e)'
    BY <1>1, <1>3, <2>2 DEF Commit
  <2>5. Inventory(e)' /\ Keys(e)'
    BY <1>2, <2>2 DEF Inventory, Keys, Installed, Ended
  <2> QED
    BY <2>3, <2>4, <2>5 DEF Holds
<1> QED
  BY <1>6, <1>7, <1>8, <1>9, <1>10, StepHolds

(* KeyLock.Lock: the head of the branch has been seen.                     *)
LEMMA LockDirHolds ==
    ASSUME WorkspaceInv, NEW e \in Executors, LockDir(e)
    PROVE  WorkspaceInv'
<1>1. /\ UNCHANGED <<job, heads, copies, disk, clearing>> /\ ex[e].at = "lock"
      /\ holder[ex[e].dir] = Unlocked /\ holder' = [holder EXCEPT ![ex[e].dir] = e]
  BY DEF LockDir
<1>2. /\ Holds(e) /\ ex[e].dir \in Dirs /\ ex[e] \in ExecutorType /\ RemoteHead(e) \in Commits
      /\ disk \in DiskType /\ holder \in [Dirs -> Executors \cup {Unlocked}]
  BY ExecutorFields, BranchFields DEF WorkspaceInv, WorkspaceType
<1>3. PICK f : /\ f = IF ex[e].dir = "repo" THEN [ex[e] EXCEPT !.at = "validate", !.seen = {RemoteHead(e)}]
                                           ELSE [ex[e] EXCEPT !.at = "canpull"]
               /\ Advance(e, f)
  BY DEF LockDir
<1>4. CASE ex[e].dir = "repo"
  <2>1. f = [ex[e] EXCEPT !.at = "validate", !.seen = {RemoteHead(e)}]
    BY <1>3, <1>4
  <2>2. f \in ExecutorType
    BY <1>2, <2>1 DEF ExecutorType, Points, GitSteps
  <2>3. Turn(e, FALSE) /\ ex'[e] = f
    BY <1>3, <2>2, AdvanceFacts DEF WorkspaceInv
  <2>4. /\ ex'[e].at = "validate" /\ ex'[e].dir = "repo" /\ ex'[e].seen = {RemoteHead(e)}
        /\ ex'[e].backend = ex[e].backend
    BY <1>2, <1>4, <2>1, <2>3 DEF ExecutorType
  <2>5. holder' \in [Dirs -> Executors \cup {Unlocked}]
    BY <1>1, <1>2
  <2>6. Acts(e)
    BY <1>1, <1>2, <2>3, <2>5, QuietActs DEF Breaking
  <2>7. Locks(e)
    BY <1>1, <1>4, <2>4 DEF Locks, GitSteps
  <2>8. Requires(e) /\ Leaves(e)
    <3>1. Hashes(e)'
      BY <2>4 DEF Hashes
    <3>2. Requires(e)
      BY <1>1, <2>4, <3>1 DEF Requires, Ended
    <3> QED
      BY <1>1, <2>4, <3>2 DEF Leaves, Ended
  <2>9. RemoteHead(e)' = RemoteHead(e)
    BY <1>1, <1>4, <2>4 DEF RemoteHead, Remote, resolveGitBranch
  <2>10. Holds(e)'
    <3>1. ~Settling(e)'
      BY <2>4 DEF Settling, Settled
    <3>2. Placed(e)' /\ Updating(e)'
      BY <1>1, <1>2, <2>4, <2>9 DEF Holds, Placed, Updating, GitSteps
    <3> QED
      BY <2>4, <3>1, <3>2 DEF Holds, Commit, Inventory, Keys, Installed, Ended
  <2> QED
    BY <2>6, <2>7, <2>8, <2>10, StepHolds
<1>5. CASE ex[e].dir # "repo"
  <2>1. Goto(e, "canpull") /\ ex[e].dir = "inventory"
    BY <1>2, <1>3, <1>5 DEF Goto, Dirs
  <2>2. Turn(e, FALSE) /\ Keeps(e) /\ ex'[e].at = "canpull" /\ ex'[e].disturbed = ex[e].disturbed
    BY <2>1, GotoFacts DEF WorkspaceInv, Points, GitSteps
  <2>3. holder' \in [Dirs -> Executors \cup {Unlocked}]
    BY <1>1, <1>2
  <2>4. Acts(e)
    BY <1>1, <1>2, <2>2, <2>3, QuietActs DEF Breaking
  <2>5. Locks(e)
    BY <1>1, <2>2 DEF Locks, GitSteps, Keeps
  <2>6. Requires(e) /\ Leaves(e)
    <3>1. Hashes(e)'
      BY <2>2 DEF Hashes
    <3>2. Requires(e)
      BY <1>1, <2>2, <3>1 DEF Requires, Ended
    <3> QED
      BY <1>1, <2>2, <3>2 DEF Leaves, Ended, Keeps
  <2>7. Holds(e)'
    <3>1. Settling(e) /\ Settling(e)'
      BY <1>1, <2>1, <2>2 DEF Settling, GitSteps, Keeps
    <3>2. Placed(e)' /\ Updating(e)'
      BY <1>1, <1>2, <2>1, <2>2 DEF Holds, Placed, Updating, Keeps
    <3>3. Commit(e)' /\ Inventory(e)' /\ Keys(e)'
      BY <1>1, <1>2, <2>2, <3>1 DEF Holds, Commit, Inventory, Keys, Installed, Ended, Keeps, Complete
    <3> QED
      BY <3>2, <3>3 DEF Holds
  <2> QED
    BY <2>4, <2>5, <2>6, <2>7, StepHolds
<1> QED
  BY <1>4, <1>5


(* A step under the lock that looks at the copy and does not change it.    *)
LEMMA GitLooks ==
    ASSUME WorkspaceInv, NEW e \in Executors, NEW p \in GitSteps \ {"validate", "cloning", "checkout"},
           Turn(e, FALSE), Keeps(e), ex'[e].at = p, ex'[e].disturbed = ex[e].disturbed,
           ex[e].at \in GitSteps \ Breaking, UNCHANGED <<job, heads, copies, holder, disk, clearing>>,
           ex[e].dir = "repo" /\ copies["repo"].state = "copy" =>
             /\ p \in {"pull", "submodules"} => <<copies["repo"].head, RemoteHead(e)>> \in Older \/ ex[e].rewritten
             /\ p = "submodules" => copies["repo"].head \in ex[e].seen \/ ex[e].rewritten
    PROVE  WorkspaceInv'
<1>1. Holds(e) /\ disk \in DiskType /\ holder \in [Dirs -> Executors \cup {Unlocked}]
  BY DEF WorkspaceInv, WorkspaceType
<1>2. Acts(e)
  BY <1>1, QuietActs DEF Breaking
<1>3. RemoteHead(e)' = RemoteHead(e)
  BY DEF RemoteHead, Remote, resolveGitBranch, Keeps
<1>4. Updating(e)'
  BY <1>1, <1>3 DEF Holds, Updating, Keeps
<1> QED
  BY <1>2, <1>4, GitStays

(* ValidateRepo and CanBePulled.                                           *)
LEMMA LookHolds ==
    ASSUME WorkspaceInv, NEW e \in Executors, ValidateRepo(e) \/ CanBePulled(e)
    PROVE  WorkspaceInv'
<1>1. /\ UNCHANGED <<job, heads, copies, holder, disk, clearing>> /\ ex[e].at \in GitSteps \ Breaking
  BY DEF ValidateRepo, CanBePulled, GitSteps, Breaking
<1>2. PICK p \in {"clone", "canpull", "pull", "remove"} :
        /\ Goto(e, p)
        /\ p = "pull" => <<Copy(e).head, RemoteHead(e)>> \in Older
  BY DEF ValidateRepo, CanBePulled
<1>3. p \in GitSteps \ {"validate", "cloning", "checkout"} /\ p \in Points
  BY <1>2 DEF GitSteps, Points
<1>4. Turn(e, FALSE) /\ Keeps(e) /\ ex'[e].at = p /\ ex'[e].disturbed = ex[e].disturbed
  BY <1>2, <1>3, GotoFacts DEF WorkspaceInv
<1>5. ex[e].dir = "repo" /\ copies["repo"].state = "copy" =>
             /\ p \in {"pull", "submodules"} => <<copies["repo"].head, RemoteHead(e)>> \in Older \/ ex[e].rewritten
             /\ p = "submodules" => copies["repo"].head \in ex[e].seen \/ ex[e].rewritten
  BY <1>2 DEF Copy
<1> QED
  BY <1>1, <1>3, <1>4, <1>5, GitLooks

(* An attempt that fails: the copy is pulled again, or removed.            *)
LEMMA PullsAgain ==
    ASSUME WorkspaceInv, NEW e \in Executors, ex[e].at \in {"pull", "submodules"}, Retry(e, "pull", "remove", FALSE),
           UNCHANGED <<job, heads, copies, holder, disk, clearing>>
    PROVE  WorkspaceInv'
<1>1. Turn(e, FALSE) /\ Keeps(e) /\ ex'[e].at \in {"pull", "remove"} /\ ex'[e].disturbed = ex[e].disturbed
  BY RetryFacts DEF WorkspaceInv, Points, GitSteps
<1>2. PICK p \in {"pull", "remove"} : ex'[e].at = p
  BY <1>1
<1>3. p \in GitSteps \ {"validate", "cloning", "checkout"} /\ ex[e].at \in GitSteps \ Breaking
  BY DEF GitSteps, Breaking
<1>4. Updating(e)
  BY DEF WorkspaceInv, Holds
<1>5. ex[e].dir = "repo" /\ copies["repo"].state = "copy" =>
             /\ p \in {"pull", "submodules"} => <<copies["repo"].head, RemoteHead(e)>> \in Older \/ ex[e].rewritten
             /\ p = "submodules" => copies["repo"].head \in ex[e].seen \/ ex[e].rewritten
  BY <1>4 DEF Updating
<1> QED
  BY <1>1, <1>2, <1>3, <1>5, GitLooks

(* git pull: the copy is at a commit that was seen, or the branch was rewritten.*)
LEMMA PullHolds ==
    ASSUME WorkspaceInv, NEW e \in Executors, Pull(e)
    PROVE  WorkspaceInv'
<1>1. UNCHANGED <<job, heads, holder, disk, clearing>> /\ ex[e].at = "pull" /\ ex[e].at \in GitSteps
  BY DEF Pull, GitSteps
<1>2. /\ Holds(e) /\ ex[e].dir \in Dirs /\ RemoteHead(e) \in Commits /\ ex[e] \in ExecutorType
      /\ copies[ex[e].dir] \in CopyType /\ copies \in [Dirs -> CopyType]
      /\ holder \in [Dirs -> Executors \cup {Unlocked}]
  BY ExecutorFields, BranchFields DEF WorkspaceInv, WorkspaceType
<1>3. CASE /\ Copy(e).state = "copy" /\ copies' = [copies EXCEPT ![ex[e].dir].head = RemoteHead(e)]
           /\ Disturb(e, [ex[e] EXCEPT !.at = "submodules"], RemoteHead(e) # Copy(e).head)
  <2>1. PICK f, c, b : /\ f = [ex[e] EXCEPT !.at = "submodules"] /\ c = [Copy(e) EXCEPT !.head = RemoteHead(e)]
                       /\ b = (RemoteHead(e) # Copy(e).head) /\ Disturb(e, f, b)
    BY <1>3
  <2>2. f \in ExecutorType
    BY <1>2, <2>1 DEF ExecutorType, Points, GitSteps
  <2>3. /\ c \in CopyType /\ c.state = "copy" /\ c.head = RemoteHead(e) /\ c.sub = Copy(e).sub
        /\ c.backend = Copy(e).backend /\ (c.whole \/ c.cut \/ Torn(ex[e].dir))
    BY <1>2, <1>3, <2>1 DEF CopyType, AnyCommit, Copy, Torn
  <2>4. copies' = [copies EXCEPT ![ex[e].dir] = c]
    BY <1>2, <1>3, <2>1 DEF Copy
  <2>5. Turn(e, b) /\ ex'[e] = f
    BY <2>1, <2>2, DisturbFacts DEF WorkspaceInv
  <2>6. Keeps(e) /\ ex'[e].at = "submodules" /\ ex'[e].disturbed = ex[e].disturbed
    BY <1>2, <2>1, <2>5 DEF ExecutorType, Keeps
  <2>7. ~b => c.state = copies[ex[e].dir].state /\ c.head = copies[ex[e].dir].head /\ c.sub = copies[ex[e].dir].sub
    BY <1>3, <2>1, <2>3 DEF Copy
  <2>8. Acts(e) /\ copies'[ex[e].dir] = c /\ \A d \in Dirs : d # ex[e].dir => copies'[d] = copies[d]
    BY <1>1, <1>2, <2>3, <2>4, <2>5, <2>7, GitActs DEF Breaking
  <2>9. RemoteHead(e)' = RemoteHead(e)
    BY <1>1, <2>6 DEF RemoteHead, Remote, resolveGitBranch, Keeps
  <2>10. Updating(e)'
    BY <1>1, <1>2, <2>3, <2>6, <2>8, <2>9, WorkspaceAssumption DEF Holds, Updating, Keeps, GitSteps
  <2>11. copies'["repo"].backend => copies["repo"].backend
    BY <2>3, <2>8 DEF Copy, Dirs
  <2> QED
    BY <1>1, <2>6, <2>8, <2>10, <2>11, GitStays DEF GitSteps
<1>4. CASE /\ Copy(e).state = "copy" /\ <<RemoteHead(e), Copy(e).head>> \in Older /\ RemoteHead(e) # Copy(e).head
           /\ Goto(e, "submodules") /\ UNCHANGED copies
  <2>1. Turn(e, FALSE) /\ Keeps(e) /\ ex'[e].at = "submodules" /\ ex'[e].disturbed = ex[e].disturbed
    BY <1>4, GotoFacts DEF WorkspaceInv, Points, GitSteps
  <2>2. Copy(e).head \in Commits
    BY <1>4, WorkspaceAssumption
  <2>3. <<Copy(e).head, RemoteHead(e)>> \notin Older
    BY <1>2, <1>4, <2>2, WorkspaceAssumption
  <2>4. ex[e].dir = "repo" /\ copies["repo"].state = "copy" => ex[e].rewritten
    BY <1>1, <1>2, <2>3 DEF Holds, Updating, Copy
  <2> QED
    BY <1>1, <1>4, <2>1, <2>4, GitLooks DEF GitSteps, Breaking
<1>5. CASE Retry(e, "pull", "remove", FALSE) /\ UNCHANGED copies
  BY <1>1, <1>5, PullsAgain
<1> QED
  BY <1>3, <1>4, <1>5 DEF Pull


(* The deferred unlock.                                                    *)
LEMMA ReleaseFacts ==
    ASSUME WorkspaceType, NEW e \in Executors, ReleaseLock(e)
    PROVE  holder' \in [Dirs -> Executors \cup {Unlocked}]
BY DEF WorkspaceType, ReleaseLock

(* The copies that git leaves.                                             *)
LEMMA AbsentFacts ==
    /\ Absent \in CopyType /\ Absent.state = "none" /\ Absent.backend = FALSE
    /\ Partial \in CopyType /\ Partial.state = "partial" /\ Partial.backend = FALSE
    /\ Absent.whole /\ Partial.whole
    /\ \A c \in AnyCommit : /\ Cloned(c) \in CopyType /\ Cloned(c).state = "copy" /\ Cloned(c).backend = FALSE
                            /\ Cloned(c).head = c /\ Cloned(c).sub = c /\ Cloned(c).whole
BY DEF Absent, Partial, Cloned, CopyType, AnyCommit

(* What is cut off, and what a removal has left so far.                    *)
LEMMA CutOffFacts ==
    ASSUME WorkspaceType, NEW d \in Dirs
    PROVE  /\ CutOff(d) \in CopyType /\ CutOff(d).state = copies[d].state /\ CutOff(d).head = copies[d].head
           /\ CutOff(d).sub = copies[d].sub /\ CutOff(d).backend = copies[d].backend
           /\ CutOff(d).whole \/ CutOff(d).cut
           /\ CutOff(d).whole = copies[d].whole
<1>1. PICK b \in BOOLEAN : b = ~copies[d].whole
  BY Zenon
<1>2. CutOff(d) = [copies[d] EXCEPT !.cut = b] /\ copies[d] \in CopyType
  BY <1>1, CopyFields, Zenon DEF CutOff
<1> QED
  BY <1>1, <1>2 DEF CopyType

LEMMA RemainsFacts ==
    ASSUME WorkspaceType, NEW d \in Dirs, NEW c \in Remains(d)
    PROVE  /\ c \in CopyType /\ (c.backend => copies[d].backend)
           /\ \/ c.state = "partial" /\ c.whole
              \/ c.state = copies[d].state /\ c.head = copies[d].head
<1>1. copies[d] \in CopyType
  BY CopyFields
<1>2. CASE c = Partial
  BY <1>2, AbsentFacts
<1>3. CASE c = [copies[d] EXCEPT !.whole = FALSE]
  BY <1>1, <1>3 DEF CopyType
<1> QED
  BY <1>2, <1>3 DEF Remains

(* The copy of a directory is up to date.                                  *)
LEMMA UpdatedHolds ==
    ASSUME WorkspaceInv, NEW e \in Executors, ex[e].at \in {"submodules", "cloning"}, NEW c \in CopyType,
           c.state = "copy", c.sub = c.head, c.backend => Copy(e).backend,
           c.whole \/ (ex[e].at = "submodules" /\ c.whole = Copy(e).whole /\ c.cut = Copy(e).cut),
           ex[e].dir = "repo" => c.head \in ex[e].seen \/ ex[e].rewritten,
           Updated(e, c), UNCHANGED <<job, heads, disk, clearing>>
    PROVE  WorkspaceInv'
<1>1. /\ Holds(e) /\ ex[e].dir \in Dirs /\ ex[e] \in ExecutorType /\ ex[e].at \in GitSteps
      /\ holder \in [Dirs -> Executors \cup {Unlocked}]
      /\ copies' = [copies EXCEPT ![ex[e].dir] = c]
  BY ExecutorFields DEF WorkspaceInv, WorkspaceType, GitSteps, Updated
<1>2. PICK b : b = (c # Copy(e))
  OBVIOUS
<1>3. /\ ~b => /\ c.state = copies[ex[e].dir].state /\ c.head = copies[ex[e].dir].head
                /\ c.sub = copies[ex[e].dir].sub
      /\ c.whole \/ c.cut \/ (Torn(ex[e].dir) /\ ex[e].at \notin Breaking)
  BY <1>2 DEF Copy, Torn, Breaking
<1>4. CASE ex[e].dir = "repo"
  <2>1. PICK f : f = [ex[e] EXCEPT !.at = "checkout", !.attempt = 1] /\ Disturb(e, f, b) /\ UNCHANGED holder
    BY <1>2, <1>4 DEF Updated
  <2>2. f \in ExecutorType
    BY <1>1, <2>1 DEF ExecutorType, Points, GitSteps
  <2>3. Turn(e, b) /\ ex'[e] = f
    BY <2>1, <2>2, DisturbFacts DEF WorkspaceInv
  <2>4. Keeps(e) /\ ex'[e].at = "checkout" /\ ex'[e].disturbed = ex[e].disturbed
    BY <1>1, <2>1, <2>3 DEF ExecutorType, Keeps
  <2>5. Acts(e) /\ copies'[ex[e].dir] = c /\ \A d \in Dirs : d # ex[e].dir => copies'[d] = copies[d]
    BY <1>1, <1>3, <2>1, <2>3, GitActs
  <2>6. RemoteHead(e)' = RemoteHead(e)
    BY <2>4 DEF RemoteHead, Remote, resolveGitBranch, Keeps
  <2>7. Updating(e)'
    BY <1>1, <1>4, <2>4, <2>5, <2>6 DEF Holds, Updating, Keeps, GitSteps
  <2>8. copies'["repo"].backend => copies["repo"].backend
    BY <1>4, <2>5 DEF Copy
  <2> QED
    BY <1>1, <1>4, <2>1, <2>4, <2>5, <2>7, <2>8, GitStays DEF GitSteps
<1>5. CASE ex[e].dir # "repo"
  <2>0. ex[e].dir = "inventory"
    BY <1>1, <1>5 DEF Dirs
  <2>1. PICK f : f = [ex[e] EXCEPT !.at = "install", !.attempt = 1] /\ Disturb(e, f, b) /\ ReleaseLock(e)
    BY <1>2, <1>5 DEF Updated
  <2>2. f \in ExecutorType
    BY <1>1, <2>1 DEF ExecutorType, Points, Settled
  <2>3. Turn(e, b) /\ ex'[e] = f /\ holder' \in [Dirs -> Executors \cup {Unlocked}]
    BY <2>1, <2>2, DisturbFacts, ReleaseFacts DEF WorkspaceInv
  <2>4. Keeps(e) /\ ex'[e].at = "install" /\ ex'[e].disturbed = ex[e].disturbed
    BY <1>1, <2>1, <2>3 DEF ExecutorType, Keeps
  <2>5. Acts(e) /\ copies'["inventory"] = c /\ copies'["repo"] = copies["repo"]
    <3>1. Acts(e) /\ copies'[ex[e].dir] = c /\ \A d \in Dirs : d # ex[e].dir => copies'[d] = copies[d]
      BY <1>1, <1>3, <2>3, GitActs
    <3> QED
      BY <2>0, <3>1 DEF Dirs
  <2>6. Locks(e)
    BY <2>1, <2>4 DEF Locks, GitSteps
  <2>7. Requires(e) /\ Leaves(e)
    <3>1. Hashes(e)'
      BY <2>4 DEF Hashes
    <3>2. Requires(e)
      BY <2>4, <3>1 DEF Requires, Ended
    <3> QED
      BY <2>4, <2>5, <3>2 DEF Leaves, Ended, Keeps
  <2>8. Holds(e)'
    <3>1. Settling(e) /\ Settling(e)'
      BY <1>1, <2>0, <2>4 DEF Settling, Settled
    <3>2. Placed(e)' /\ Updating(e)'
      BY <1>1, <2>0, <2>4 DEF Holds, Placed, Updating, Keeps
    <3>3. Commit(e)' /\ Keys(e)'
      BY <1>1, <2>4, <2>5, <3>1 DEF Holds, Commit, Keys, Keeps, Ended, Complete
    <3>4. Complete("inventory")'
      <4>1. c.whole \/ c.cut \/ disk.raced
        BY <1>1, <2>0, Found DEF Complete, Copy, Breaking
      <4> QED
        BY <2>5, <4>1 DEF Complete
    <3>5. Inventory(e)'
      BY <1>1, <2>0, <2>5, <3>4 DEF Holds, Placed, Inventory
    <3> QED
      BY <3>2, <3>3, <3>5 DEF Holds
  <2> QED
    BY <2>5, <2>6, <2>7, <2>8, StepHolds
<1> QED
  BY <1>4, <1>5

(* git submodule update.                                                   *)
LEMMA UpdateSubmodulesHolds ==
    ASSUME WorkspaceInv, NEW e \in Executors, UpdateSubmodules(e)
    PROVE  WorkspaceInv'
<1>1. UNCHANGED <<job, heads, disk, clearing>> /\ ex[e].at = "submodules" /\ Holds(e) /\ Copy(e) \in CopyType
  BY ExecutorFields DEF UpdateSubmodules, WorkspaceInv, Copy
<1>2. CASE Copy(e).state = "copy" /\ Updated(e, [Copy(e) EXCEPT !.sub = Copy(e).head])
  <2>1. PICK c : c = [Copy(e) EXCEPT !.sub = Copy(e).head] /\ Updated(e, c)
    BY <1>2
  <2>2. /\ c \in CopyType /\ c.state = "copy" /\ c.head = Copy(e).head /\ c.sub = c.head
        /\ c.backend = Copy(e).backend /\ c.whole = Copy(e).whole /\ c.cut = Copy(e).cut
    BY <1>1, <1>2, <2>1 DEF CopyType
  <2>3. ex[e].dir = "repo" => c.head \in ex[e].seen \/ ex[e].rewritten
    BY <1>1, <1>2, <2>2 DEF Holds, Updating, Copy
  <2> QED
    BY <1>1, <2>1, <2>2, <2>3, UpdatedHolds
<1>3. CASE Retry(e, "pull", "remove", FALSE) /\ UNCHANGED <<copies, holder>>
  BY <1>1, <1>3, PullsAgain
<1> QED
  BY <1>2, <1>3 DEF UpdateSubmodules

(* A copy that cannot be pulled is removed.                                *)
LEMMA RemoveCopyHolds ==
    ASSUME WorkspaceInv, NEW e \in Executors, RemoveCopy(e)
    PROVE  WorkspaceInv'
<1>1. /\ UNCHANGED <<job, heads, disk, clearing>> /\ ex[e].at = "remove" /\ ex[e].at \in GitSteps
      /\ Holds(e) /\ ex[e].dir \in Dirs /\ ex[e] \in ExecutorType
      /\ disk \in DiskType /\ holder \in [Dirs -> Executors \cup {Unlocked}]
  BY ExecutorFields DEF RemoveCopy, WorkspaceInv, WorkspaceType, GitSteps
<1>2. CASE /\ copies' = [copies EXCEPT ![ex[e].dir] = Absent] /\ UNCHANGED holder
           /\ Disturb(e, [ex[e] EXCEPT !.at = "clone", !.attempt = 1], Copy(e) # Absent)
  <2>1. PICK f, b : f = [ex[e] EXCEPT !.at = "clone", !.attempt = 1] /\ b = (Copy(e) # Absent) /\ Disturb(e, f, b)
    BY <1>2
  <2>2. f \in ExecutorType
    BY <1>1, <2>1 DEF ExecutorType, Points, GitSteps
  <2>3. Turn(e, b) /\ ex'[e] = f
    BY <2>1, <2>2, DisturbFacts DEF WorkspaceInv
  <2>4. Keeps(e) /\ ex'[e].at = "clone" /\ ex'[e].disturbed = ex[e].disturbed
    BY <1>1, <2>1, <2>3 DEF ExecutorType, Keeps
  <2>5. ~b => copies[ex[e].dir].state # "copy"
    BY <2>1, AbsentFacts DEF Copy
  <2>6. Acts(e) /\ copies'[ex[e].dir] = Absent /\ \A d \in Dirs : d # ex[e].dir => copies'[d] = copies[d]
    BY <1>1, <1>2, <2>3, <2>5, AbsentFacts, GitActs
  <2>7. RemoteHead(e)' = RemoteHead(e)
    BY <1>1, <2>4 DEF RemoteHead, Remote, resolveGitBranch, Keeps
  <2>8. Updating(e)'
    BY <1>1, <2>4, <2>6, <2>7, AbsentFacts DEF Holds, Updating, Keeps, GitSteps
  <2>9. copies'["repo"].backend => copies["repo"].backend
    BY <1>1, <2>6, AbsentFacts DEF Dirs
  <2> QED
    BY <1>1, <1>2, <2>4, <2>6, <2>8, <2>9, GitStays DEF GitSteps
<1>3. CASE Fail(e) /\ copies' = [copies EXCEPT ![ex[e].dir] = CutOff(ex[e].dir)]
  <2>1. Turn(e, FALSE) /\ Keeps(e) /\ ex'[e].at = "cleanup"
    BY <1>3, GotoFacts DEF WorkspaceInv, Fail, Points
  <2>2. holder' \in [Dirs -> Executors \cup {Unlocked}] /\ ReleaseLock(e)
    BY <1>3, ReleaseFacts DEF Fail, WorkspaceInv
  <2>3. PICK c : c = CutOff(ex[e].dir) /\ copies' = [copies EXCEPT ![ex[e].dir] = c]
    BY <1>3
  <2>4. /\ c \in CopyType /\ c.state = copies[ex[e].dir].state /\ c.head = copies[ex[e].dir].head
        /\ c.sub = copies[ex[e].dir].sub /\ c.backend = copies[ex[e].dir].backend /\ (c.whole \/ c.cut)
    BY <1>1, <2>3, CutOffFacts DEF WorkspaceInv
  <2>5. Acts(e) /\ copies'[ex[e].dir] = c /\ \A d \in Dirs : d # ex[e].dir => copies'[d] = copies[d]
    BY <1>1, <2>1, <2>2, <2>3, <2>4, GitActs
  <2>6. Locks(e)
    BY <2>1, <2>2 DEF Locks, GitSteps
  <2>7. copies'["repo"].backend => copies["repo"].backend
    BY <2>4, <2>5 DEF Dirs
  <2> QED
    BY <1>1, <2>1, <2>5, <2>6, <2>7, FailHolds DEF Ended
<1> QED
  BY <1>2, <1>3 DEF RemoveCopy

(* It goes file by file: whoever settled on it is disturbed.               *)
LEMMA RemoveFilesHolds ==
    ASSUME WorkspaceInv, NEW e \in Executors, RemoveFiles(e)
    PROVE  WorkspaceInv'
<1>1. /\ UNCHANGED <<job, heads, holder, disk, clearing>> /\ ex[e].at = "remove" /\ ex[e].at \in GitSteps
      /\ Holds(e) /\ ex[e].dir \in Dirs /\ ex[e] \in ExecutorType
      /\ holder \in [Dirs -> Executors \cup {Unlocked}]
  BY ExecutorFields DEF RemoveFiles, WorkspaceInv, WorkspaceType, GitSteps
<1>2. PICK c \in Remains(ex[e].dir) : copies' = [copies EXCEPT ![ex[e].dir] = c]
  BY DEF RemoveFiles
<1>3. /\ c \in CopyType /\ (c.backend => copies[ex[e].dir].backend)
  BY <1>1, <1>2, RemainsFacts DEF WorkspaceInv
<1>4. Disturb(e, ex[e], TRUE)
  BY DEF RemoveFiles
<1>5. Turn(e, TRUE) /\ ex'[e] = ex[e]
  BY <1>1, <1>4, DisturbFacts DEF WorkspaceInv
<1>6. Keeps(e) /\ ex'[e].at = "remove" /\ ex'[e].disturbed = ex[e].disturbed
  BY <1>1, <1>5 DEF Keeps
<1>7. Acts(e) /\ copies'[ex[e].dir] = c /\ \A d \in Dirs : d # ex[e].dir => copies'[d] = copies[d]
  <2>1. ex'[e].dir = ex[e].dir /\ ex'[e].at \in Breaking
    BY <1>6 DEF Keeps, Breaking
  <2> QED
    BY <1>1, <1>2, <1>3, <1>5, <2>1, GitActs
<1>8. RemoteHead(e)' = RemoteHead(e)
  BY <1>1, <1>6 DEF RemoteHead, Remote, resolveGitBranch, Keeps
<1>9. Updating(e)'
  BY <1>1, <1>6, <1>8 DEF Holds, Updating, Keeps
<1>10. copies'["repo"].backend => copies["repo"].backend
  BY <1>3, <1>7 DEF Dirs
<1> QED
  BY <1>1, <1>6, <1>7, <1>9, <1>10, GitStays DEF GitSteps

(* A clone that fails, with or without its partial copy.                   *)
LEMMA CloneFailsHolds ==
    ASSUME WorkspaceInv, NEW e \in Executors, ex[e].at \in {"clone", "cloning"}, NEW n, CloneFails(e, n),
           UNCHANGED <<job, heads, disk, clearing>>
    PROVE  WorkspaceInv'
<1>1. /\ Holds(e) /\ ex[e].dir \in Dirs /\ ex[e] \in ExecutorType /\ ex[e].at \in GitSteps
      /\ disk \in DiskType /\ holder \in [Dirs -> Executors \cup {Unlocked}]
  BY ExecutorFields DEF WorkspaceInv, WorkspaceType, GitSteps
<1>2. PICK c \in {CutOff(ex[e].dir), Absent} : copies' = [copies EXCEPT ![ex[e].dir] = c]
  BY DEF CloneFails
<1>3. PICK changed : changed = (copies[ex[e].dir].state = "copy") /\ Retry(e, "clone", "cleanup", changed)
  BY DEF CloneFails, Copy
<1>4. Turn(e, changed) /\ Keeps(e) /\ ex'[e].at \in {"clone", "cleanup"} /\ ex'[e].disturbed = ex[e].disturbed
  BY <1>3, RetryFacts DEF WorkspaceInv, Points, GitSteps
<1>5. c \in CopyType /\ (c.whole \/ c.cut) /\ (c.backend => copies[ex[e].dir].backend)
  BY <1>1, <1>2, AbsentFacts, CutOffFacts DEF WorkspaceInv
<1>6. /\ ex'[e].at = "cleanup" => ReleaseLock(e)
      /\ ex'[e].at = "clone" => UNCHANGED holder
  BY <1>4 DEF CloneFails
<1>7. holder' \in [Dirs -> Executors \cup {Unlocked}]
  BY <1>1, <1>4, <1>6, ReleaseFacts DEF WorkspaceInv
<1>8. Acts(e) /\ copies'[ex[e].dir] = c /\ \A d \in Dirs : d # ex[e].dir => copies'[d] = copies[d]
  BY <1>1, <1>2, <1>3, <1>4, <1>5, <1>7, GitActs
<1>9. copies'["repo"].backend => copies["repo"].backend
  BY <1>1, <1>5, <1>8 DEF Dirs
<1>10. CASE ex'[e].at = "clone"
  <2>1. RemoteHead(e)' = RemoteHead(e)
    BY <1>4 DEF RemoteHead, Remote, resolveGitBranch, Keeps
  <2>2. Updating(e)'
    BY <1>1, <1>4, <1>10, <2>1 DEF Holds, Updating, Keeps
  <2> QED
    BY <1>1, <1>4, <1>6, <1>8, <1>9, <1>10, <2>2, GitStays DEF GitSteps
<1>11. CASE ex'[e].at = "cleanup"
  <2>1. Locks(e)
    BY <1>6, <1>11 DEF Locks, GitSteps
  <2> QED
    BY <1>1, <1>4, <1>8, <1>9, <1>11, <2>1, FailHolds DEF Ended
<1> QED
  BY <1>4, <1>10, <1>11

(* git clone.                                                              *)
LEMMA CloneHolds ==
    ASSUME WorkspaceInv, NEW e \in Executors, CloneStarts(e) \/ CloneEnds(e)
    PROVE  WorkspaceInv'
<1>1. /\ UNCHANGED <<job, heads, disk, clearing>> /\ ex[e].at \in {"clone", "cloning"} /\ ex[e].at \in GitSteps
      /\ Holds(e) /\ ex[e].dir \in Dirs /\ RemoteHead(e) \in Commits
      /\ holder \in [Dirs -> Executors \cup {Unlocked}]
  BY ExecutorFields, BranchFields DEF CloneStarts, CloneEnds, WorkspaceInv, WorkspaceType, GitSteps
<1>2. CASE \E n : CloneFails(e, n)
  BY <1>1, <1>2, CloneFailsHolds
<1>3. CASE /\ Copy(e).state = "none" /\ copies' = [copies EXCEPT ![ex[e].dir] = Partial]
           /\ Goto(e, "cloning") /\ UNCHANGED holder
  <2>1. Turn(e, FALSE) /\ Keeps(e) /\ ex'[e].at = "cloning" /\ ex'[e].disturbed = ex[e].disturbed
    BY <1>3, GotoFacts DEF WorkspaceInv, Points, GitSteps
  <2>2. copies[ex[e].dir].state # "copy" /\ Partial.whole
    BY <1>3, AbsentFacts DEF Copy
  <2>3. Acts(e) /\ copies'[ex[e].dir] = Partial /\ \A d \in Dirs : d # ex[e].dir => copies'[d] = copies[d]
    BY <1>1, <1>3, <2>1, <2>2, AbsentFacts, GitActs
  <2>4. RemoteHead(e)' = RemoteHead(e)
    BY <1>1, <2>1 DEF RemoteHead, Remote, resolveGitBranch, Keeps
  <2>5. Updating(e)'
    BY <1>1, <2>1, <2>3, <2>4, AbsentFacts DEF Holds, Updating, Keeps, GitSteps
  <2>6. copies'["repo"].backend => copies["repo"].backend
    BY <1>1, <2>3, AbsentFacts DEF Dirs
  <2> QED
    BY <1>1, <1>3, <2>1, <2>3, <2>5, <2>6, GitStays DEF GitSteps
<1>4. CASE ex[e].at = "cloning" /\ Copy(e).state = "copy" /\ Updated(e, Cloned(Copy(e).head))
  <2>1. PICK c : c = Cloned(Copy(e).head) /\ Updated(e, c)
    BY <1>4
  <2>2. Copy(e).head \in AnyCommit
    BY <1>1, CopyFields DEF Copy, WorkspaceInv
  <2>3. c \in CopyType /\ c.state = "copy" /\ c.head = Copy(e).head /\ c.sub = c.head /\ ~c.backend /\ c.whole
    BY <2>1, <2>2, AbsentFacts
  <2>4. ex[e].dir = "repo" => c.head \in ex[e].seen \/ ex[e].rewritten
    BY <1>1, <1>4, <2>3 DEF Holds, Updating, Copy
  <2> QED
    BY <1>1, <1>4, <2>1, <2>3, <2>4, UpdatedHolds
<1> QED
  BY <1>2, <1>3, <1>4 DEF CloneStarts, CloneEnds

(* .git is there before the files.                                         *)
LEMMA CloneFillsHolds ==
    ASSUME WorkspaceInv, NEW e \in Executors, CloneFills(e)
    PROVE  WorkspaceInv'
<1>1. /\ UNCHANGED <<job, heads, holder, ex, disk, clearing>> /\ ex[e].at = "cloning" /\ ex[e].at \in GitSteps
      /\ copies[ex[e].dir].state # "copy" /\ Holds(e) /\ ex[e].dir \in Dirs /\ RemoteHead(e) \in Commits
      /\ holder \in [Dirs -> Executors \cup {Unlocked}] /\ ex \in [Executors -> ExecutorType]
  BY ExecutorFields, BranchFields DEF CloneFills, WorkspaceInv, WorkspaceType, GitSteps, Copy
<1>2. PICK w \in BOOLEAN : copies' = [copies EXCEPT ![ex[e].dir] =
                                        [Cloned(RemoteHead(e)) EXCEPT !.sub = NoCommit, !.whole = w]]
  BY DEF CloneFills
<1> DEFINE c == [Cloned(RemoteHead(e)) EXCEPT !.sub = NoCommit, !.whole = w]
<1>3. c \in CopyType /\ c.head = RemoteHead(e) /\ ~c.backend
  <2>1. Cloned(RemoteHead(e)) \in CopyType /\ Cloned(RemoteHead(e)).head = RemoteHead(e)
        /\ ~Cloned(RemoteHead(e)).backend
    BY <1>1, AbsentFacts DEF AnyCommit
  <2>2. PICK k : k = Cloned(RemoteHead(e))
    OBVIOUS
  <2>3. c = [k EXCEPT !.sub = NoCommit, !.whole = w]
    BY <2>2
  <2> QED
    BY <2>1, <2>2, <2>3 DEF CopyType, AnyCommit
<1> HIDE DEF c
<1>4. Turn(e, FALSE) /\ Keeps(e) /\ ex'[e].at = "cloning" /\ ex'[e].disturbed = ex[e].disturbed
  BY <1>1 DEF Turn, Keeps
<1>5. Acts(e) /\ copies'[ex[e].dir] = c /\ \A d \in Dirs : d # ex[e].dir => copies'[d] = copies[d]
  <2>1. ex'[e].dir = ex[e].dir /\ ex'[e].at \in Breaking
    BY <1>1 DEF Breaking
  <2>2. copies' = [copies EXCEPT ![ex[e].dir] = c]
    BY <1>2 DEF c
  <2> QED
    BY <1>1, <1>3, <1>4, <2>1, <2>2, GitActs
<1>6. RemoteHead(e)' = RemoteHead(e)
  BY <1>1 DEF RemoteHead, Remote, resolveGitBranch
<1>7. Updating(e)'
  BY <1>1, <1>3, <1>5, <1>6 DEF Holds, Updating
<1>8. copies'["repo"].backend => copies["repo"].backend
  BY <1>3, <1>5 DEF Dirs
<1> QED
  BY <1>1, <1>4, <1>5, <1>7, <1>8, GitStays DEF GitSteps

(* checkoutRepository: the commit that the task records, then the unlock.  *)
LEMMA CheckoutHolds ==
    ASSUME WorkspaceInv, NEW e \in Executors, CheckoutRepository(e)
    PROVE  WorkspaceInv'
<1>1. /\ UNCHANGED <<job, heads, disk, clearing>> /\ ex[e].at = "checkout" /\ ex[e].at \in GitSteps
      /\ Holds(e) /\ ex[e].dir = "repo" /\ ex[e] \in ExecutorType /\ job.task[e].pin \in AnyCommit
      /\ copies["repo"] \in CopyType /\ copies \in [Dirs -> CopyType]
      /\ disk \in DiskType /\ holder \in [Dirs -> Executors \cup {Unlocked}]
  BY ExecutorFields, BranchFields DEF CheckoutRepository, WorkspaceInv, WorkspaceType, GitSteps, Holds, Placed
<1>2. CASE Copy(e).state = "copy" /\ ReleaseLock(e) /\ ~(Fail(e) /\ UNCHANGED copies)
  <2>1. PICK x : x = IF job.task[e].pin = NoCommit THEN copies["repo"].head ELSE job.task[e].pin
    OBVIOUS
  <2>2. x \in AnyCommit
    BY <1>1, <2>1 DEF CopyType
  <2>3. PICK f, c, b : /\ f = [ex[e] EXCEPT !.at = "keys", !.commit = x] /\ c = [copies["repo"] EXCEPT !.head = x]
                       /\ b = (x # copies["repo"].head)
    OBVIOUS
  <2>4. copies' = [copies EXCEPT !["repo"] = c] /\ Disturb(e, f, b)
    BY <1>1, <1>2, <2>1, <2>3 DEF CheckoutRepository, Copy
  <2>5. f \in ExecutorType
    BY <1>1, <2>2, <2>3 DEF ExecutorType, Points, Settled
  <2>6. Turn(e, b) /\ ex'[e] = f /\ holder' \in [Dirs -> Executors \cup {Unlocked}]
    BY <1>2, <2>4, <2>5, DisturbFacts, ReleaseFacts DEF WorkspaceInv
  <2>7. /\ ex'[e].at = "keys" /\ ex'[e].dir = "repo" /\ ex'[e].commit = x /\ ex'[e].seen = ex[e].seen
        /\ ex'[e].rewritten = ex[e].rewritten /\ ex'[e].backend = ex[e].backend
    BY <1>1, <2>3, <2>6 DEF ExecutorType
  <2>8. /\ c \in CopyType /\ c.state = "copy" /\ c.head = x /\ c.sub = copies["repo"].sub
        /\ c.backend = copies["repo"].backend /\ c.whole = copies["repo"].whole /\ c.cut = copies["repo"].cut
    BY <1>1, <1>2, <2>2, <2>3 DEF CopyType, Copy
  <2>9. ~b => c.state = copies["repo"].state /\ c.head = copies["repo"].head /\ c.sub = copies["repo"].sub
    BY <1>1, <1>2, <2>3, <2>8 DEF Copy
  <2>10. Acts(e) /\ copies'["repo"] = c
    <3>1. copies' = [copies EXCEPT ![ex[e].dir] = c]
      BY <1>1, <2>4
    <3>2. ~b => /\ c.state = copies[ex[e].dir].state /\ c.head = copies[ex[e].dir].head
                /\ c.sub = copies[ex[e].dir].sub
      BY <1>1, <2>9
    <3>3. /\ UNCHANGED <<job, heads, clearing, disk>> /\ ex[e].at \in GitSteps /\ ex[e].at \notin Breaking
          /\ c.whole \/ c.cut \/ Torn(ex[e].dir)
      BY <1>1, <2>8 DEF Breaking, Torn
    <3>4. Acts(e) /\ copies'[ex[e].dir] = c
      BY <2>6, <2>8, <3>1, <3>2, <3>3, GitActs
    <3> QED
      BY <1>1, <3>4
  <2>11. Locks(e)
    BY <1>2, <2>7 DEF Locks, GitSteps
  <2>12. Requires(e) /\ Leaves(e)
    <3>1. Hashes(e)'
      BY <2>7 DEF Hashes
    <3>2. Requires(e)
      BY <1>1, <2>7, <3>1 DEF Requires, Ended
    <3> QED
      BY <1>1, <2>7, <2>8, <2>10, <3>2 DEF Leaves, Ended
  <2>13. Holds(e)'
    <3>1. Placed(e)' /\ Updating(e)'
      BY <1>1, <2>7 DEF Holds, Placed, Updating, GitSteps
    <3>2. copies["repo"].sub = copies["repo"].head /\ (copies["repo"].head \in ex[e].seen \/ ex[e].rewritten)
      BY <1>1, <1>2 DEF Holds, Updating, Copy
    <3>3. Complete("repo")'
      <4>1. Complete("repo")
        BY <1>1, Found DEF Breaking
      <4> QED
        BY <1>1, <2>8, <2>10, <4>1 DEF Complete
    <3>4. Commit(e)'
      BY <1>1, <2>1, <2>7, <2>8, <2>10, <3>2, <3>3 DEF Commit
    <3>5. Inventory(e)' /\ Keys(e)'
      BY <2>7 DEF Inventory, Keys, Installed, Ended
    <3> QED
      BY <3>1, <3>4, <3>5 DEF Holds
  <2> QED
    BY <2>10, <2>11, <2>12, <2>13, StepHolds
<1>3. CASE Fail(e) /\ UNCHANGED copies
  <2>1. Turn(e, FALSE) /\ Keeps(e) /\ ex'[e].at = "cleanup"
    BY <1>3, GotoFacts DEF WorkspaceInv, Fail, Points
  <2>2. holder' \in [Dirs -> Executors \cup {Unlocked}] /\ ReleaseLock(e) /\ UNCHANGED copies
    BY <1>3, ReleaseFacts DEF Fail, WorkspaceInv
  <2>3. Acts(e)
    BY <1>1, <2>1, <2>2, QuietActs DEF Breaking
  <2>4. Locks(e)
    BY <2>1, <2>2 DEF Locks, GitSteps
  <2> QED
    BY <1>1, <2>1, <2>2, <2>3, <2>4, FailHolds DEF Ended
<1> QED
  BY <1>2, <1>3 DEF CheckoutRepository


-----------------------------------------------------------------------------
(* A step after the unlock that fails.                                     *)
LEMMA SettledFails ==
    ASSUME WorkspaceInv, NEW e \in Executors, ex[e].at \in Settled, Goto(e, "cleanup"),
           UNCHANGED <<job, heads, copies, holder, disk, clearing>>
    PROVE  WorkspaceInv'
<1>1. Turn(e, FALSE) /\ Keeps(e) /\ ex'[e].at = "cleanup"
  BY GotoFacts DEF WorkspaceInv, Points
<1>2. Acts(e)
  BY <1>1, QuietActs DEF WorkspaceInv, WorkspaceType, Breaking, Settled
<1>3. Locks(e)
  BY <1>1 DEF Locks, GitSteps, Settled
<1> QED
  BY <1>1, <1>2, <1>3, FailHolds DEF Ended, Settled

(* A step after the unlock that goes on to the requirements or the app.    *)
LEMMA SettledStays ==
    ASSUME WorkspaceInv, NEW e \in Executors, Acts(e), ex[e].at \in Settled \ {"keys"}, ex'[e].at \in Installed,
           ex'[e].dir = ex[e].dir, ex'[e].commit = ex[e].commit, ex'[e].agent = ex[e].agent,
           ex'[e].seen = ex[e].seen, ex'[e].rewritten = ex[e].rewritten, ex'[e].disturbed = ex[e].disturbed,
           UNCHANGED holder, ex'[e].backend => job.template.backend,
           ex'[e].at \in {"galaxy", "hash"} => job.template.app = "ansible",
           Inventory(e)', Requires(e), Leaves(e)
    PROVE  WorkspaceInv'
<1>1. Holds(e) /\ job' = job /\ SameCopy("repo")
  BY DEF WorkspaceInv, Acts, GitSteps, Settled, Dirs
<1>2. Locks(e)
  BY DEF Locks, GitSteps, Settled, Installed
<1>3. Placed(e)' /\ Updating(e)'
  BY <1>1 DEF Holds, Placed, Updating, GitSteps, Installed
<1>4. Settling(e) /\ Settling(e)'
  BY DEF Settling, Settled, Installed
<1>5. Commit(e)'
  BY <1>1, <1>4 DEF Holds, Commit, SameCopy, Acts, Complete, Torn
<1>6. Keys(e)'
  BY <1>1, <1>4 DEF Holds, Keys, Ended, Installed
<1> QED
  BY <1>2, <1>3, <1>5, <1>6, StepHolds DEF Holds

(* installInventory: the agent of the key.                                 *)
LEMMA InstallKeysHolds ==
    ASSUME WorkspaceInv, NEW e \in Executors, InstallKeys(e)
    PROVE  WorkspaceInv'
<1>1. /\ UNCHANGED <<job, heads, copies, holder, disk, clearing>> /\ ex[e].at = "keys"
      /\ Holds(e) /\ ex[e] \in ExecutorType
  BY ExecutorFields DEF InstallKeys, WorkspaceInv
<1>2. PICK p \in {"cleanup", "inventory"}, g \in {"none", "failed", "open", "closed"} :
        /\ Advance(e, [ex[e] EXCEPT !.at = p, !.agent = g])
        /\ p = "inventory" /\ job.template.key = "ssh" => g = "open"
  BY DEF InstallKeys, Install, StartSSHAgent
<1>3. PICK f : f = [ex[e] EXCEPT !.at = p, !.agent = g] /\ Advance(e, f)
  BY <1>2
<1>4. f \in ExecutorType
  BY <1>1, <1>3 DEF ExecutorType, Points, Settled
<1>5. Turn(e, FALSE) /\ ex'[e] = f
  BY <1>3, <1>4, AdvanceFacts DEF WorkspaceInv
<1>6. /\ ex'[e].at = p /\ ex'[e].agent = g /\ ex'[e].dir = ex[e].dir /\ ex'[e].commit = ex[e].commit
      /\ ex'[e].seen = ex[e].seen /\ ex'[e].rewritten = ex[e].rewritten /\ ex'[e].disturbed = ex[e].disturbed
      /\ ex'[e].backend = ex[e].backend
  BY <1>1, <1>3, <1>5 DEF ExecutorType
<1>7. Acts(e)
  BY <1>1, <1>5, QuietActs DEF WorkspaceInv, WorkspaceType, Breaking
<1>8. Locks(e)
  BY <1>1, <1>6 DEF Locks, GitSteps
<1>9. Requires(e) /\ Leaves(e)
  <2>1. Hashes(e)'
    BY <1>6 DEF Hashes
  <2>2. Requires(e)
    BY <1>1, <1>6, <2>1 DEF Requires, Ended
  <2> QED
    BY <1>1, <1>6, <2>2 DEF Leaves, Ended
<1>10. Holds(e)'
  <2>1. Settling(e) /\ (Settling(e)' => p = "inventory")
    BY <1>1, <1>6 DEF Settling, Settled, GitSteps
  <2>2. Placed(e)' /\ Updating(e)'
    BY <1>1, <1>6 DEF Holds, Placed, Updating, GitSteps
  <2>3. Commit(e)'
    BY <1>1, <1>6, <2>1 DEF Holds, Commit, Complete
  <2>4. Inventory(e)' /\ Keys(e)'
    BY <1>1, <1>2, <1>6, <2>1 DEF Inventory, Keys, Installed, Ended
  <2> QED
    BY <2>2, <2>3, <2>4 DEF Holds
<1> QED
  BY <1>7, <1>8, <1>9, <1>10, StepHolds

(* The inventory, from the database or from a repository of its own.       *)
LEMMA InstallInventoryHolds ==
    ASSUME WorkspaceInv, NEW e \in Executors, InstallInventory(e)
    PROVE  WorkspaceInv'
<1>1. /\ UNCHANGED <<job, heads, copies, holder, clearing>> /\ ex[e].at = "inventory" /\ ex[e].at \in Settled
      /\ Holds(e) /\ ex[e] \in ExecutorType /\ ex[e].dir = "repo" /\ disk \in DiskType
      /\ holder \in [Dirs -> Executors \cup {Unlocked}]
  BY ExecutorFields DEF InstallInventory, WorkspaceInv, WorkspaceType, Settled, Holds, Placed
<1>2. CASE /\ Goto(e, "install") /\ job.template.inventory # "file"
           /\ \/ job.template.inventory = "static" /\ disk' = [disk EXCEPT !.inventory = TRUE]
              \/ job.template.inventory # "static" /\ UNCHANGED disk
  <2>1. Turn(e, FALSE) /\ Keeps(e) /\ ex'[e].at = "install" /\ ex'[e].disturbed = ex[e].disturbed
    BY <1>2, GotoFacts DEF WorkspaceInv, Points, Settled
  <2>2. /\ disk' \in DiskType /\ (disk.inventory => disk'.inventory)
        /\ disk'.hash = disk.hash /\ disk'.home = disk.home /\ disk'.raced = disk.raced
        /\ job.template.inventory = "static" => disk'.inventory
        /\ disk'.inventory => disk.inventory \/ job.template.inventory = "static"
    BY <1>1, <1>2 DEF DiskType
  <2>3. Acts(e)
    BY <1>1, <2>1, <2>2, QuietActs DEF Breaking
  <2>4. Requires(e) /\ Leaves(e)
    <3>1. Hashes(e)'
      BY <2>1 DEF Hashes
    <3>2. Requires(e)
      BY <1>1, <2>1, <2>2, <3>1 DEF Requires, Ended
    <3> QED
      BY <1>1, <2>1, <2>2, <3>2 DEF Leaves, Ended, Keeps
  <2>5. Inventory(e)'
    BY <1>1, <1>2, <2>2 DEF Inventory, Complete
  <2>6. ex'[e].backend => job.template.backend
    BY <1>1, <2>1 DEF Holds, Placed, Keeps
  <2> QED
    BY <1>1, <2>1, <2>3, <2>4, <2>5, <2>6, SettledStays DEF Keeps, Installed
<1>3. CASE Goto(e, "cleanup") /\ UNCHANGED disk
  BY <1>1, <1>3, SettledFails
<1>4. CASE /\ Advance(e, [ex[e] EXCEPT !.at = "lock", !.dir = "inventory"]) /\ UNCHANGED disk
           /\ job.template.inventory = "file"
  <2>1. PICK f : f = [ex[e] EXCEPT !.at = "lock", !.dir = "inventory"] /\ Advance(e, f)
    BY <1>4
  <2>2. f \in ExecutorType
    BY <1>1, <2>1 DEF ExecutorType, Points, Dirs
  <2>3. Turn(e, FALSE) /\ ex'[e] = f
    BY <2>1, <2>2, AdvanceFacts DEF WorkspaceInv
  <2>4. /\ ex'[e].at = "lock" /\ ex'[e].agent = ex[e].agent /\ ex'[e].dir = "inventory" /\ ex'[e].commit = ex[e].commit
        /\ ex'[e].seen = ex[e].seen /\ ex'[e].rewritten = ex[e].rewritten /\ ex'[e].disturbed = ex[e].disturbed
        /\ ex'[e].backend = ex[e].backend
    BY <1>1, <2>1, <2>3 DEF ExecutorType
  <2>5. Acts(e)
    BY <1>1, <1>4, <2>3, QuietActs DEF Breaking
  <2>6. Locks(e)
    BY <1>1, <2>4 DEF Locks, GitSteps
  <2>7. Requires(e) /\ Leaves(e)
    <3>1. Hashes(e)'
      BY <2>4 DEF Hashes
    <3>2. Requires(e)
      BY <1>1, <1>4, <2>4, <3>1 DEF Requires, Ended
    <3> QED
      BY <1>1, <1>4, <2>4, <3>2 DEF Leaves, Ended
  <2>8. Holds(e)'
    <3>1. Settling(e) /\ Settling(e)'
      BY <1>1, <2>4 DEF Settling
    <3>2. Placed(e)' /\ Updating(e)'
      BY <1>1, <1>4, <2>4 DEF Holds, Placed, Updating
    <3>3. Commit(e)' /\ Inventory(e)' /\ Keys(e)'
      BY <1>1, <1>4, <2>4, <3>1 DEF Holds, Commit, Inventory, Keys, Installed, Ended, Complete
    <3> QED
      BY <3>2, <3>3 DEF Holds
  <2> QED
    BY <2>5, <2>6, <2>7, <2>8, StepHolds
<1> QED
  BY <1>2, <1>3, <1>4 DEF InstallInventory

(* The vault keys, and the app.                                            *)
LEMMA VaultHolds ==
    ASSUME WorkspaceInv, NEW e \in Executors, InstallVaultKeyFiles(e)
    PROVE  WorkspaceInv'
<1>1. /\ UNCHANGED <<job, heads, copies, holder, disk, clearing>> /\ ex[e].at = "vault" /\ ex[e].at \in Settled
      /\ Holds(e) /\ disk \in DiskType /\ holder \in [Dirs -> Executors \cup {Unlocked}]
  BY DEF InstallVaultKeyFiles, WorkspaceInv, WorkspaceType, Settled
<1>2. CASE Goto(e, "cleanup")
  BY <1>1, <1>2, SettledFails
<1>3. CASE Goto(e, "app")
  <2>1. Turn(e, FALSE) /\ Keeps(e) /\ ex'[e].at = "app" /\ ex'[e].disturbed = ex[e].disturbed
    BY <1>3, GotoFacts DEF WorkspaceInv, Points, Settled
  <2>2. Acts(e)
    BY <1>1, <2>1, QuietActs DEF Breaking
  <2>3. Requires(e) /\ Leaves(e)
    <3>1. Hashes(e) => Hashes(e)'
      BY <1>1, <2>1 DEF Hashes, Content, skipGalaxyInstall
    <3>2. Requires(e)
      BY <1>1, <2>1, <3>1 DEF Requires, Ended
    <3> QED
      BY <1>1, <2>1, <3>2 DEF Leaves, Ended, Keeps
  <2>4. Inventory(e)'
    BY <1>1, <2>1 DEF Holds, Inventory, Installed, Complete
  <2>5. ex'[e].backend => job.template.backend
    BY <1>1, <2>1 DEF Holds, Placed, Keeps
  <2> QED
    BY <1>1, <2>1, <2>2, <2>3, <2>4, <2>5, SettledStays DEF Keeps, Installed
<1> QED
  BY <1>2, <1>3 DEF InstallVaultKeyFiles

(* The app returns.                                                        *)
LEMMA AppReturnsHolds ==
    ASSUME WorkspaceInv, NEW e \in Executors, AppReturns(e)
    PROVE  WorkspaceInv'
BY SettledFails DEF AppReturns, Settled


(* Galaxy runs, its hash is written, or neither is needed.                 *)
LEMMA AnsibleStays ==
    ASSUME WorkspaceInv, NEW e \in Executors, NEW p \in Installed, Goto(e, p), ex[e].at \in Installed,
           UNCHANGED <<job, heads, copies, holder, clearing>>,
           disk' \in DiskType, disk'.inventory = disk.inventory, disk'.raced = disk.raced,
           p \in {"galaxy", "hash"} => job.template.app = "ansible",
           ~job.template.parallel /\ disk.hash \in disk.home \cup {"none"} /\ Hashes(e) =>
             disk'.hash \in disk'.home \cup {"none"} /\ Hashes(e)'
    PROVE  WorkspaceInv'
<1>1. Holds(e) /\ holder \in [Dirs -> Executors \cup {Unlocked}]
  BY DEF WorkspaceInv, WorkspaceType
<1>2. Turn(e, FALSE) /\ Keeps(e) /\ ex'[e].at = p /\ ex'[e].disturbed = ex[e].disturbed
  BY GotoFacts DEF WorkspaceInv, Points, Settled, Installed
<1>3. Acts(e)
  BY <1>1, <1>2, QuietActs DEF Breaking, Installed
<1>4. Requires(e)
  BY <1>2 DEF Requires, Ended, Installed
<1>5. Leaves(e)
  BY <1>2 DEF Leaves, Ended, Installed, Keeps
<1>6. Inventory(e)'
  BY <1>1, <1>2 DEF Holds, Inventory, Complete
<1>7. ex'[e].backend => job.template.backend
  BY <1>1, <1>2 DEF Holds, Placed, Keeps
<1> QED
  BY <1>2, <1>3, <1>4, <1>5, <1>6, <1>7, SettledStays DEF Keeps, Installed, Settled

(* The requirements file that is in the copy.                              *)
LEMMA ContentFacts ==
    ASSUME WorkspaceType
    PROVE  Content \in Contents
<1>1. copies["repo"].head \in Commits \cup {NoCommit}
  BY CopyFields DEF Dirs, AnyCommit
<1> QED
  BY <1>1 DEF Content, Contents

(* ansible-galaxy installs what is in the copy.                            *)
LEMMA GalaxyHolds ==
    ASSUME WorkspaceInv, NEW e \in Executors, RunGalaxy(e)
    PROVE  WorkspaceInv'
<1>1. /\ UNCHANGED <<job, heads, copies, holder, clearing>> /\ ex[e].at = "galaxy"
      /\ ex[e].at \in Settled /\ ex[e].at \in Installed
      /\ job.template.app = "ansible" /\ disk \in DiskType /\ Content \in Contents
  BY ContentFacts DEF RunGalaxy, WorkspaceInv, WorkspaceType, Settled, Installed, Holds, Placed
<1>2. CASE Goto(e, "hash") /\ disk' = [disk EXCEPT !.home = @ \cup {Content}]
  <2>1. disk.home \cup {Content} \in SUBSET Contents
    BY <1>1 DEF DiskType
  <2>2. PICK h \in SUBSET Contents : h = disk.home \cup {Content}
    BY <2>1
  <2>3. disk' = [disk EXCEPT !.home = h]
    BY <1>2, <2>2
  <2>4. /\ disk' \in DiskType /\ disk'.inventory = disk.inventory /\ disk'.raced = disk.raced
        /\ disk'.hash = disk.hash /\ disk'.home = h
    BY <1>1, <2>3 DEF DiskType
  <2>5. Content' = Content
    BY <1>1 DEF Content
  <2>6. ex'[e].at = "hash"
    BY <1>2, GotoFacts DEF WorkspaceInv, Points, Settled
  <2>7. Hashes(e)'
    BY <2>2, <2>4, <2>5, <2>6 DEF Hashes
  <2> QED
    BY <1>1, <1>2, <2>2, <2>4, <2>7, AnsibleStays DEF Installed
<1>3. CASE Goto(e, "cleanup") /\ UNCHANGED disk
  BY <1>1, <1>3, SettledFails
<1> QED
  BY <1>2, <1>3 DEF RunGalaxy

(* The hash of what galaxy has installed.                                  *)
LEMMA HashHolds ==
    ASSUME WorkspaceInv, NEW e \in Executors, writeMD5Hash(e)
    PROVE  WorkspaceInv'
<1>1. /\ UNCHANGED <<job, heads, copies, holder, clearing>> /\ ex[e].at = "hash"
      /\ ex[e].at \in Settled /\ ex[e].at \in Installed
      /\ job.template.app = "ansible" /\ disk \in DiskType /\ Content \in Contents
  BY ContentFacts DEF writeMD5Hash, WorkspaceInv, WorkspaceType, Settled, Installed, Holds, Placed
<1>2. CASE Goto(e, "vault") /\ disk' = [disk EXCEPT !.hash = Content]
  <2>1. /\ disk' \in DiskType /\ disk'.inventory = disk.inventory /\ disk'.raced = disk.raced
        /\ disk'.hash = Content /\ disk'.home = disk.home
    BY <1>1, <1>2 DEF DiskType
  <2>2. Content' = Content
    BY <1>1 DEF Content
  <2>3. ex'[e].at = "vault"
    BY <1>2, GotoFacts DEF WorkspaceInv, Points, Settled
  <2>4. Hashes(e) => disk'.hash \in disk'.home \cup {"none"} /\ Hashes(e)'
    BY <1>1, <2>1, <2>2, <2>3 DEF Hashes
  <2> QED
    BY <1>1, <1>2, <2>1, <2>4, AnsibleStays DEF Installed
<1>3. CASE Goto(e, "cleanup") /\ UNCHANGED disk
  BY <1>1, <1>3, SettledFails
<1> QED
  BY <1>2, <1>3 DEF writeMD5Hash

(* terraform init and its backend file.                                    *)
LEMMA TerraformHolds ==
    ASSUME WorkspaceInv, NEW e \in Executors, ex[e].at = "install", job.template.app = "terraform", TerraformInit(e),
           UNCHANGED <<job, heads, holder, disk, clearing>>
    PROVE  WorkspaceInv'
<1>1. /\ Holds(e) /\ ex[e] \in ExecutorType /\ copies \in [Dirs -> CopyType] /\ copies["repo"] \in CopyType
      /\ job.template.backend \in BOOLEAN /\ disk \in DiskType /\ holder \in [Dirs -> Executors \cup {Unlocked}]
  BY ExecutorFields, CopyFields DEF WorkspaceInv, WorkspaceType, JobType, Template, Dirs
<1>2. PICK m \in BOOLEAN : m = (copies["repo"].state = "none")
  BY Zenon
<1>3. PICK b \in BOOLEAN : b = (copies["repo"].backend \/ (job.template.backend /\ ~m))
  BY Zenon
<1>4. copies' = [copies EXCEPT !["repo"].backend = b]
  BY <1>1, <1>2, <1>3, Zenon DEF TerraformInit
<1>5. PICK p, f : /\ f = [ex[e] EXCEPT !.at = p, !.backend = job.template.backend] /\ Advance(e, f)
                  /\ p \in {"vault", "cleanup"}
  <2>1. PICK p \in {"vault", "cleanup"} : Advance(e, [[ex[e] EXCEPT !.backend = job.template.backend] EXCEPT !.at = p])
    BY DEF TerraformInit
  <2>2. [[ex[e] EXCEPT !.backend = job.template.backend] EXCEPT !.at = p]
          = [ex[e] EXCEPT !.at = p, !.backend = job.template.backend]
    BY <1>1 DEF ExecutorType
  <2> QED
    BY <2>1, <2>2
<1>6. f \in ExecutorType /\ p \in {"vault", "cleanup"}
  BY <1>1, <1>5 DEF ExecutorType, Points, Settled
<1>7. Turn(e, FALSE) /\ ex'[e] = f
  BY <1>5, <1>6, AdvanceFacts DEF WorkspaceInv
<1>8. /\ ex'[e].at = p /\ ex'[e].agent = ex[e].agent /\ ex'[e].dir = ex[e].dir /\ ex'[e].commit = ex[e].commit
      /\ ex'[e].seen = ex[e].seen /\ ex'[e].rewritten = ex[e].rewritten /\ ex'[e].disturbed = ex[e].disturbed
      /\ ex'[e].backend = job.template.backend
  BY <1>1, <1>5, <1>7 DEF ExecutorType
<1>9. /\ copies' \in [Dirs -> CopyType] /\ copies'["repo"].backend = b
      /\ \A d \in Dirs : SameCopy(d) /\ (Torn(d)' => Torn(d) /\ ~Breaks(e, d))
  BY <1>1, <1>4 DEF CopyType, SameCopy, Dirs, Torn, Breaks, Breaking
<1>10. Acts(e)
  <2>1. WorkspaceType'
    BY <1>7, <1>9, JobKept DEF WorkspaceInv, WorkspaceType, Turn
  <2>2. Undisturbing
    BY <1>9 DEF Undisturbing
  <2> QED
    BY <1>7, <1>9, <2>1, <2>2 DEF Acts, Apart, Turn
<1>11. Requires(e) /\ Leaves(e)
  <2>1. Hashes(e)'
    BY DEF Hashes
  <2>2. Requires(e)
    BY <1>6, <1>8, <2>1 DEF Requires, Ended
  <2>3. ex[e].backend => job.template.backend
    BY <1>1 DEF Holds, Placed
  <2> QED
    BY <1>3, <1>6, <1>8, <1>9, <2>2, <2>3 DEF Leaves, Ended
<1>12. CASE p = "vault"
  <2>1. Inventory(e)'
    BY <1>1, <1>8, <1>9 DEF Holds, Inventory, Installed, SameCopy, Dirs, Complete, Torn
  <2> QED
    BY <1>8, <1>10, <1>11, <1>12, <2>1, SettledStays DEF Settled, Installed
<1>13. CASE p = "cleanup"
  <2>1. Locks(e)
    BY <1>8, <1>13 DEF Locks, GitSteps
  <2>2. Holds(e)'
    BY <1>1, <1>8, <1>13 DEF Holds, Placed, Updating, Commit, Inventory, Keys, Settling, Settled, GitSteps, Installed, Ended
  <2> QED
    BY <1>10, <1>11, <2>1, <2>2, StepHolds
<1> QED
  BY <1>6, <1>12, <1>13

(* InstallRequirements of each app.                                        *)
LEMMA InstallRequirementsHolds ==
    ASSUME WorkspaceInv, NEW e \in Executors, InstallRequirements(e)
    PROVE  WorkspaceInv'
<1>1. /\ UNCHANGED <<job, heads, holder, disk, clearing>> /\ ex[e].at = "install" /\ ex[e].at \in Installed
      /\ disk \in DiskType
  BY DEF InstallRequirements, WorkspaceInv, WorkspaceType, Installed
<1>2. CASE job.template.app = "terraform"
  BY <1>1, <1>2, TerraformHolds DEF InstallRequirements
<1>3. CASE job.template.app # "terraform"
  <2>1. PICK p \in {"vault", "galaxy"} :
          /\ Goto(e, p) /\ UNCHANGED copies
          /\ p = "galaxy" => job.template.app = "ansible"
          /\ p = "vault" /\ job.template.app = "ansible" =>
               skipGalaxyInstall(e) \/ Content \in {"none", disk.hash} \/ ~copies["repo"].whole
    BY <1>3 DEF InstallRequirements, hasRequirementsChanges
  <2>2. ex'[e].at = p
    BY <2>1, GotoFacts DEF WorkspaceInv, Points, Settled
  <2>3. Content' = Content /\ skipGalaxyInstall(e)' = skipGalaxyInstall(e)
    BY <1>1, <2>1 DEF Content, skipGalaxyInstall
  <2>4. disk.hash \in disk.home \cup {"none"} => Hashes(e)'
    BY <1>1, <2>1, <2>2, <2>3 DEF Hashes
  <2> QED
    BY <1>1, <2>1, <2>4, AnsibleStays DEF Installed
<1> QED
  BY <1>2, <1>3

(* Cleanup: the files that go may be those of a task that still runs.      *)
LEMMA CleanupHolds ==
    ASSUME WorkspaceInv, NEW e \in Executors, Cleanup(e)
    PROVE  WorkspaceInv'
<1>1. /\ UNCHANGED <<job, heads, holder, clearing>> /\ ex[e].at = "cleanup"
      /\ Holds(e) /\ ex[e] \in ExecutorType /\ copies \in [Dirs -> CopyType] /\ copies["repo"] \in CopyType
      /\ disk \in DiskType /\ holder \in [Dirs -> Executors \cup {Unlocked}]
      /\ ex[e].agent \in {"none", "failed", "open", "closed"}
  BY ExecutorFields, CopyFields DEF Cleanup, WorkspaceInv, WorkspaceType, Dirs
<1>2. PICK i \in BOOLEAN : i = (disk.inventory /\ job.template.inventory # "static")
  BY Zenon
<1>3. disk' = [disk EXCEPT !.inventory = i]
  BY <1>2, Zenon DEF Cleanup, destroyInventoryFile
<1>4. /\ disk' \in DiskType /\ disk'.inventory = i
      /\ disk'.hash = disk.hash /\ disk'.home = disk.home /\ disk'.raced = disk.raced
  BY <1>1, <1>3 DEF DiskType
<1>5. PICK b \in BOOLEAN : b = (copies["repo"].backend /\ ~ex[e].backend)
  BY Zenon
<1>6. copies' = [copies EXCEPT !["repo"].backend = b]
  BY <1>5, Zenon DEF Cleanup, ClearApp
<1>7. /\ copies' \in [Dirs -> CopyType] /\ copies'["repo"].backend = b
      /\ \A d \in Dirs : SameCopy(d) /\ (Torn(d)' => Torn(d) /\ ~Breaks(e, d))
  BY <1>1, <1>6 DEF CopyType, SameCopy, Dirs, Torn, Breaks, Breaking
<1>8. PICK f, changed, g :
        /\ f = [ex[e] EXCEPT !.at = "done", !.agent = g] /\ Disturb(e, f, changed)
        /\ changed = (job.template.inventory = "static" \/ ex[e].backend)
        /\ g \in {"none", "failed", "closed"}
  <2>1. PICK g : g = destroyKeys(e)
    OBVIOUS
  <2>2. g \in {"none", "failed", "closed"}
    BY <1>1, <2>1 DEF destroyKeys
  <2> QED
    BY <2>1, <2>2 DEF Cleanup
<1>9. f \in ExecutorType
  BY <1>1, <1>8 DEF ExecutorType, Points, Ended
<1>10. Turn(e, changed) /\ ex'[e] = f
  BY <1>8, <1>9, DisturbFacts DEF WorkspaceInv
<1>11. ex'[e].at = "done" /\ ex'[e].agent = g /\ ex'[e].dir = ex[e].dir /\ ex'[e].backend = ex[e].backend
  BY <1>1, <1>8, <1>10 DEF ExecutorType
<1>12. Acts(e)
  <2>1. WorkspaceType'
    BY <1>1, <1>4, <1>7, <1>10, JobKept DEF WorkspaceInv, WorkspaceType, Turn
  <2>2. ~changed => Undisturbing
    BY <1>2, <1>4, <1>7, <1>8 DEF Undisturbing
  <2> QED
    BY <1>1, <1>4, <1>7, <1>10, <2>1, <2>2 DEF Acts, Apart, Turn
<1>13. Locks(e)
  BY <1>1, <1>11 DEF Locks, GitSteps
<1>14. Requires(e)
  <2>1. Hashes(e)'
    BY <1>11 DEF Hashes
  <2> QED
    BY <1>1, <1>4, <1>11, <2>1 DEF Requires, Ended
<1>15. Leaves(e)
  BY <1>2, <1>4, <1>5, <1>7, <1>11 DEF Leaves
<1>16. Holds(e)'
  BY <1>1, <1>8, <1>11 DEF Holds, Placed, Updating, Commit, Inventory, Keys, Settling, Settled, GitSteps, Installed, Ended
<1> QED
  BY <1>12, <1>13, <1>14, <1>15, <1>16, StepHolds


-----------------------------------------------------------------------------
(* A push: what an executor under the lock has seen grows with its branch. *)
LEMMA PushFacts ==
    ASSUME WorkspaceInv, NEW b \in DOMAIN heads, NEW c \in Commits, PushBranch(b, c), NEW e \in Executors
    PROVE  /\ ex'[e] \in ExecutorType
           /\ ex'[e].at = ex[e].at /\ ex'[e].dir = ex[e].dir /\ ex'[e].commit = ex[e].commit
           /\ ex'[e].agent = ex[e].agent /\ ex'[e].backend = ex[e].backend /\ ex'[e].disturbed = ex[e].disturbed
           /\ ex[e].seen \subseteq ex'[e].seen /\ (ex[e].rewritten => ex'[e].rewritten)
           /\ holder["repo"] = e /\ resolveGitBranch(e) = b =>
                c \in ex'[e].seen /\ (<<heads[b], c>> \in Older \/ ex'[e].rewritten)
<1>1. ex[e] \in ExecutorType /\ ex[e].seen \subseteq Commits
  BY ExecutorFields DEF WorkspaceInv
<1>2. CASE holder["repo"] = e /\ resolveGitBranch(e) = b
  <2>1. PICK s \in SUBSET Commits : s = ex[e].seen \cup {c}
    BY <1>1
  <2>2. PICK r \in BOOLEAN : r = (ex[e].rewritten \/ <<heads[b], c>> \notin Older)
    BY Zenon
  <2>3. ex'[e] = [ex[e] EXCEPT !.seen = @ \cup {c}, !.rewritten = @ \/ <<heads[b], c>> \notin Older]
    BY <1>2 DEF PushBranch
  <2>4. ex'[e] = [ex[e] EXCEPT !.seen = s, !.rewritten = r]
    BY <2>1, <2>2, <2>3, Zenon
  <2>5. ex'[e] \in ExecutorType
    BY <1>1, <2>4 DEF ExecutorType
  <2>6. /\ ex'[e].at = ex[e].at /\ ex'[e].dir = ex[e].dir /\ ex'[e].commit = ex[e].commit
        /\ ex'[e].agent = ex[e].agent /\ ex'[e].backend = ex[e].backend /\ ex'[e].disturbed = ex[e].disturbed
        /\ ex'[e].seen = s /\ ex'[e].rewritten = r
    BY <1>1, <2>4 DEF ExecutorType
  <2> QED
    BY <2>1, <2>2, <2>5, <2>6
<1>3. CASE ~(holder["repo"] = e /\ resolveGitBranch(e) = b)
  <2>1. ex'[e] = ex[e]
    BY <1>3 DEF PushBranch
  <2> QED
    BY <1>1, <1>3, <2>1
<1> QED
  BY <1>2, <1>3

(* The push keeps what every executor knows.                               *)
LEMMA PushHolds ==
    ASSUME WorkspaceInv, NEW b \in DOMAIN heads, NEW c \in Commits, PushBranch(b, c)
    PROVE  WorkspaceInv'
<1>1. /\ UNCHANGED <<job, copies, holder, disk, clearing>> /\ heads' = [heads EXCEPT ![b] = c]
      /\ WorkspaceType /\ LocksMatch /\ heads \in [DOMAIN heads -> Commits]
  BY DEF PushBranch, WorkspaceInv, WorkspaceType, JobType
<1>2. /\ DOMAIN heads' = DOMAIN heads /\ heads' \in [DOMAIN heads -> Commits]
      /\ heads'[b] = c /\ \A x \in DOMAIN heads : x # b => heads'[x] = heads[x]
  BY <1>1
<1>3. WorkspaceType'
  <2>1. Template' = Template /\ Task' = Task
    BY <1>2 DEF Template, Task
  <2>2. JobType'
    BY <1>1, <1>2, <2>1 DEF JobType, WorkspaceType
  <2>3. ex' \in [Executors -> ExecutorType]
    BY PushFacts DEF PushBranch
  <2> QED
    BY <1>1, <2>2, <2>3 DEF WorkspaceType
<1>4. \A e \in Executors : /\ ex'[e].at = ex[e].at /\ ex'[e].dir = ex[e].dir /\ ex'[e].backend = ex[e].backend
  BY PushFacts
<1>5. LocksMatch'
  BY <1>1, <1>4, WorkspaceAssumption DEF LocksMatch, WorkspaceType
<1>6. Live' = Live
  BY <1>4 DEF Live
<1>7. Serial' /\ Leftovers' /\ Mending'
  <2>1. \A e \in Executors : Hashes(e)' <=> Hashes(e)
    BY <1>1, <1>4 DEF Hashes, Content, skipGalaxyInstall
  <2>2. Serial'
    BY <1>1, <1>6, <2>1 DEF Serial, WorkspaceInv
  <2>3. Live \subseteq Executors
    BY DEF Live
  <2>4. Mending'
    BY <1>1, <1>4, <1>6 DEF Mending, Torn, Breaks, Clears, WorkspaceInv
  <2> QED
    BY <1>1, <1>4, <1>6, <2>2, <2>3, <2>4 DEF Leftovers, WorkspaceInv
<1>8. ASSUME NEW e \in Executors
      PROVE  Holds(e)'
  <2>1. Holds(e) /\ ex[e].dir \in Dirs /\ RemoteHead(e) \in Commits /\ resolveGitBranch(e) \in DOMAIN heads
    BY <1>1, ExecutorFields, BranchFields DEF WorkspaceInv
  <2>2. /\ ex'[e].at = ex[e].at /\ ex'[e].dir = ex[e].dir /\ ex'[e].commit = ex[e].commit
        /\ ex'[e].agent = ex[e].agent /\ ex'[e].backend = ex[e].backend /\ ex'[e].disturbed = ex[e].disturbed
        /\ ex[e].seen \subseteq ex'[e].seen /\ (ex[e].rewritten => ex'[e].rewritten)
    BY PushFacts
  <2>3. Placed(e)' /\ Keys(e)' /\ Inventory(e)' /\ Commit(e)'
    <3>1. Settling(e)' <=> Settling(e)
      BY <2>2 DEF Settling
    <3> QED
      BY <1>1, <2>1, <2>2, <3>1 DEF Holds, Placed, Keys, Inventory, Commit, Complete
  <2>4. Updating(e)'
    <3>1. CASE ex[e].dir = "repo" /\ ex[e].at \in GitSteps /\ resolveGitBranch(e) = b
      <4>1. holder["repo"] = e
        BY <1>1, <3>1 DEF LocksMatch
      <4>2. c \in ex'[e].seen /\ (<<heads[b], c>> \in Older \/ ex'[e].rewritten)
        BY <3>1, <4>1, PushFacts
      <4>3. RemoteHead(e) = heads[b] /\ RemoteHead(e)' = c
        BY <1>1, <1>2, <2>2, <3>1 DEF RemoteHead, Remote, resolveGitBranch
      <4>4. <<copies["repo"].head, heads[b]>> \in Older => <<copies["repo"].head, c>> \in Older \/ ex'[e].rewritten
        <5>1. SUFFICES ASSUME <<copies["repo"].head, heads[b]>> \in Older
                       PROVE  <<copies["repo"].head, c>> \in Older \/ ex'[e].rewritten
          OBVIOUS
        <5>2. PICK h \in Commits, k \in Commits : h = copies["repo"].head /\ k = heads[b]
          BY <5>1, WorkspaceAssumption
        <5> QED
          BY <4>2, <5>1, <5>2, WorkspaceAssumption
      <4> QED
        BY <1>1, <2>1, <2>2, <3>1, <4>2, <4>3, <4>4 DEF Holds, Updating
    <3>2. CASE ex[e].dir = "repo" /\ resolveGitBranch(e) # b
      <4>1. RemoteHead(e)' = RemoteHead(e)
        BY <1>1, <1>2, <2>1, <2>2, <3>2 DEF RemoteHead, Remote, resolveGitBranch
      <4> QED
        BY <1>1, <2>1, <2>2, <4>1 DEF Holds, Updating
    <3>3. CASE ex[e].dir # "repo" \/ ex[e].at \notin GitSteps
      BY <1>1, <2>1, <2>2, <3>3 DEF Holds, Updating, GitSteps
    <3> QED
      BY <3>1, <3>2, <3>3
  <2> QED
    BY <2>3, <2>4 DEF Holds
<1> QED
  BY <1>3, <1>5, <1>7, <1>8 DEF WorkspaceInv

(* ClearDir lists what it will remove.                                     *)
LEMMA ClearStartsHolds ==
    ASSUME WorkspaceInv, ClearStarts
    PROVE  WorkspaceInv'
<1>1. /\ UNCHANGED <<job, heads, copies, holder, ex>> /\ clearing' \in {RepositoryItems, ProjectItems}
      /\ WorkspaceType
  BY DEF ClearStarts, WorkspaceInv
<1>2. PICK x : disk' = [disk EXCEPT !.raced = @ \/ x] /\ x = (Live # {})
  BY DEF ClearStarts
<1>3. /\ disk' \in DiskType
      /\ disk'.inventory = disk.inventory /\ disk'.hash = disk.hash /\ disk'.home = disk.home
      /\ ~disk'.raced => ~disk.raced /\ Live = {}
  BY <1>1, <1>2, RacedFacts
<1>4. WorkspaceType'
  BY <1>1, <1>3, JobKept DEF WorkspaceType
<1>5. LocksMatch' /\ Live' = Live
  BY <1>1 DEF LocksMatch, WorkspaceInv, Live
<1>6. "internal" \in clearing' /\ clearing' # {}
  BY <1>1 DEF RepositoryItems, ProjectItems
<1>7. \A e \in Executors : (Hashes(e)' <=> Hashes(e)) /\ Holds(e)'
  <2>1. ASSUME NEW e \in Executors
        PROVE  (Hashes(e)' <=> Hashes(e)) /\ Holds(e)'
    <3>1. Holds(e) /\ (Settling(e)' <=> Settling(e)) /\ RemoteHead(e)' = RemoteHead(e)
      BY <1>1 DEF WorkspaceInv, Settling, RemoteHead, Remote, resolveGitBranch
    <3>2. Hashes(e)' <=> Hashes(e)
      BY <1>1, <1>3 DEF Hashes, Content, skipGalaxyInstall
    <3> QED
      BY <1>1, <1>3, <3>1, <3>2 DEF Holds, Placed, Updating, Commit, Inventory, Keys, Complete
  <2> QED
    BY <2>1
<1>8. Serial'
  BY <1>1, <1>3, <1>5, <1>6, <1>7 DEF Serial, WorkspaceInv
<1>9. Leftovers' /\ Mending'
  <2>1. Leftovers'
    BY <1>1, <1>3, <1>5 DEF Leftovers, WorkspaceInv
  <2>2. ASSUME NEW d \in Dirs, Torn(d)', ~disk'.raced
        PROVE  Clears(d)'
    <3>1. (Torn(d) /\ Clears(d)) \/ (\E e \in Executors : Breaks(e, d))
      BY <1>1, <1>3, <2>2 DEF Torn, Mending, WorkspaceInv
    <3>2. \A e \in Executors : ~Breaks(e, d)
      BY <1>3, <2>2 DEF Breaks, Breaking, Live, Ended
    <3>3. clearing = {}
      BY DEF ClearStarts
    <3> QED
      BY <3>1, <3>2, <3>3 DEF Clears
  <2> QED
    BY <1>3, <1>5, <2>1, <2>2 DEF Mending
<1> QED
  BY <1>4, <1>5, <1>7, <1>8, <1>9 DEF WorkspaceInv


(* ... and removes it: every executor that has settled is disturbed.       *)
LEMMA DisturbAllFacts ==
    ASSUME WorkspaceType, DisturbAll, NEW e \in Executors
    PROVE  /\ ex'[e] \in ExecutorType /\ Keeps(e) /\ ex'[e].at = ex[e].at
           /\ ~ex'[e].disturbed => ~ex[e].disturbed /\ ~Settling(e)
<1>1. PICK b \in BOOLEAN : b = (ex[e].disturbed \/ Settling(e))
  BY Zenon
<1>2. ex'[e] = [ex[e] EXCEPT !.disturbed = @ \/ Settling(e)] /\ ex[e] \in ExecutorType
  BY ExecutorFields DEF DisturbAll
<1>3. ex'[e] = [ex[e] EXCEPT !.disturbed = b]
  BY <1>1, <1>2, Zenon
<1>4. ex'[e] \in ExecutorType
  BY <1>2, <1>3 DEF ExecutorType
<1>5. Keeps(e) /\ ex'[e].at = ex[e].at /\ ex'[e].disturbed = b
  BY <1>2, <1>3 DEF ExecutorType, Keeps
<1> QED
  BY <1>1, <1>4, <1>5

LEMMA ClearOneHolds ==
    ASSUME WorkspaceInv, NEW i \in clearing, ClearOne(i)
    PROVE  WorkspaceInv'
<1>1. UNCHANGED <<job, heads, holder>> /\ clearing' = clearing \ {i} /\ WorkspaceType /\ disk \in DiskType
  BY DEF ClearOne, WorkspaceInv, WorkspaceType
<1>2. ASSUME NEW e \in Executors
      PROVE  /\ ex'[e] \in ExecutorType /\ Keeps(e) /\ ex'[e].at = ex[e].at
             /\ ~ex'[e].disturbed => ~ex[e].disturbed /\ ~Settling(e)
  BY <1>1, DisturbAllFacts DEF ClearOne
<1>3. PICK b \in BOOLEAN : b = (disk.inventory /\ i # "file")
  BY Zenon
<1>4. PICK h, k : h = (IF i = "home" THEN {} ELSE disk.home) /\ k = (IF i = "internal" THEN "none" ELSE disk.hash)
  OBVIOUS
<1>5. disk' = [disk EXCEPT !.home = h, !.hash = k, !.inventory = b]
  BY <1>3, <1>4, Zenon DEF ClearOne
<1>6. h \in SUBSET Contents /\ k \in Contents
  BY <1>1, <1>4 DEF DiskType, Contents
<1>7. disk' \in DiskType
  BY <1>1, <1>5, <1>6 DEF DiskType
<1>8. disk'.home = h /\ disk'.hash = k /\ disk'.inventory = b /\ disk'.raced = disk.raced
  BY <1>1, <1>5 DEF DiskType
<1>9. /\ copies' \in [Dirs -> CopyType]
      /\ \A d \in Dirs : copies'[d] = Absent \/ copies'[d] = copies[d]
  BY <1>1, AbsentFacts DEF ClearOne, WorkspaceType
<1>10. WorkspaceType'
  <2>1. ex' \in [Executors -> ExecutorType]
    BY <1>2 DEF ClearOne, DisturbAll
  <2> QED
    BY <1>1, <1>7, <1>9, <2>1, JobKept DEF WorkspaceType
<1>11. LocksMatch'
  BY <1>1, <1>2, WorkspaceAssumption DEF LocksMatch, WorkspaceInv, WorkspaceType, Keeps
<1>12. Live' = Live /\ Live \subseteq Executors
  BY <1>2 DEF Live
<1>13. Serial'
  <2>1. SUFFICES ASSUME ~job.template.parallel
                 PROVE  Serial'
    BY <1>1 DEF Serial
  <2>2. \A e, f \in Live' : e = f
    BY <1>12, <2>1 DEF Serial, WorkspaceInv
  <2>3. ASSUME ~disk'.raced
        PROVE  Live = {} /\ ("internal" \in clearing' \/ disk'.hash = "none")
    BY <1>1, <1>4, <1>8, <2>1, <2>3 DEF Serial, WorkspaceInv
  <2>4. ASSUME Live = {}, NEW e \in Executors
        PROVE  Hashes(e)'
    <3>1. ex'[e].at \in Ended \cup {"new"}
      BY <1>2, <2>4 DEF Live
    <3> QED
      BY <3>1 DEF Hashes, Ended
  <2> QED
    BY <1>12, <2>2, <2>3, <2>4 DEF Serial
<1>14. Leftovers'
  <2>1. SUFFICES ASSUME \A e \in Executors : ex'[e].at # "dead"
                 PROVE  Leftovers'
    BY DEF Leftovers
  <2>2. /\ disk.inventory => job.template.inventory = "static" /\ Live # {}
        /\ copies["repo"].backend => \E e \in Live : ex[e].backend
    BY <1>2, <2>1 DEF Leftovers, WorkspaceInv
  <2>3. disk'.inventory => job'.template.inventory = "static" /\ Live' # {}
    BY <1>1, <1>3, <1>8, <1>12, <2>2
  <2>4. copies'["repo"].backend => \E e \in Live' : ex'[e].backend
    <3>1. copies'["repo"].backend => copies["repo"].backend
      BY <1>9, AbsentFacts DEF Dirs
    <3>2. \A e \in Live : ex'[e].backend = ex[e].backend
      BY <1>2, <1>12 DEF Keeps
    <3> QED
      BY <1>12, <2>2, <3>1, <3>2
  <2> QED
    BY <2>3, <2>4 DEF Leftovers
<1>15. ASSUME NEW e \in Executors
       PROVE  Holds(e)'
  <2>1. Holds(e) /\ Keeps(e) /\ ex'[e].at = ex[e].at /\ (~ex'[e].disturbed => ~Settling(e)) /\ ex[e].dir \in Dirs
    BY <1>1, <1>2, ExecutorFields DEF WorkspaceInv
  <2>2. (Settling(e)' <=> Settling(e)) /\ RemoteHead(e)' = RemoteHead(e)
    BY <1>1, <2>1 DEF Keeps, Settling, RemoteHead, Remote, resolveGitBranch
  <2>3. Placed(e)' /\ Keys(e)'
    BY <1>1, <2>1, <2>2 DEF Holds, Placed, Keys, Keeps
  <2>4. Commit(e)'
    BY <2>1, <2>2 DEF Commit
  <2>5. Inventory(e)'
    BY <2>1 DEF Inventory, Settling, Settled, Installed
  <2>6. PICK c : c = copies'[ex[e].dir] /\ (c = copies[ex[e].dir] \/ c.state = "none")
    BY <1>9, <2>1, AbsentFacts
  <2>7. Updating(e)'
    BY <2>1, <2>2, <2>6 DEF Holds, Updating, Keeps
  <2> QED
    BY <2>3, <2>4, <2>5, <2>7 DEF Holds
<1>16. Mending'
  <2>1. ASSUME NEW d \in Dirs, Torn(d)'
        PROVE  disk'.raced \/ Clears(d)' \/ \E e \in Executors : Breaks(e, d)'
    <3>1. copies'[d] = copies[d] /\ Torn(d) /\ (d = i => ~Clears(d))
      BY <2>1, AbsentFacts DEF ClearOne, Torn, Clears
    <3>2. disk.raced \/ Clears(d) \/ \E e \in Executors : Breaks(e, d)
      BY <3>1 DEF WorkspaceInv, Mending
    <3> QED
      BY <1>1, <1>2, <1>8, <3>1, <3>2 DEF Clears, Breaks, Keeps
  <2>2. Live' # {} /\ clearing' # {} => disk'.raced
    BY <1>1, <1>8, <1>12 DEF Mending, WorkspaceInv
  <2> QED
    BY <2>1, <2>2 DEF Mending
<1> QED
  BY <1>10, <1>11, <1>13, <1>14, <1>15, <1>16 DEF WorkspaceInv

(* It goes file by file, too.                                              *)
LEMMA ClearFilesHolds ==
    ASSUME WorkspaceInv, NEW i \in Dirs, ClearFiles(i)
    PROVE  WorkspaceInv'
<1>1. /\ UNCHANGED <<job, heads, holder, disk, clearing>> /\ WorkspaceType /\ i \in clearing
      /\ Clears(i)
  BY DEF ClearFiles, WorkspaceInv, Clears
<1>2. ASSUME NEW e \in Executors
      PROVE  /\ ex'[e] \in ExecutorType /\ Keeps(e) /\ ex'[e].at = ex[e].at
             /\ ~ex'[e].disturbed => ~ex[e].disturbed /\ ~Settling(e)
  BY <1>1, DisturbAllFacts DEF ClearFiles
<1>3. PICK c \in Remains(i) : copies' = [copies EXCEPT ![i] = c]
  BY DEF ClearFiles
<1>4. /\ c \in CopyType /\ (c.backend => copies[i].backend)
      /\ c.state = "partial" \/ (c.state = copies[i].state /\ c.head = copies[i].head)
      /\ c.state = copies[i].state => c.sub = copies[i].sub
  <2>1. copies[i].state = "copy" /\ copies[i] \in CopyType
    BY <1>1, CopyFields DEF ClearFiles
  <2>2. CASE c = Partial
    BY <2>1, <2>2, AbsentFacts
  <2>3. CASE c = [copies[i] EXCEPT !.whole = FALSE]
    BY <2>1, <2>3 DEF CopyType
  <2> QED
    BY <1>3, <2>2, <2>3 DEF Remains
<1>5. /\ copies' \in [Dirs -> CopyType] /\ copies'[i] = c
      /\ \A d \in Dirs : d # i => copies'[d] = copies[d]
  BY <1>1, <1>3, <1>4 DEF WorkspaceType
<1>6. WorkspaceType'
  <2>1. ex' \in [Executors -> ExecutorType]
    BY <1>2 DEF ClearFiles, DisturbAll
  <2> QED
    BY <1>1, <1>5, <2>1, JobKept DEF WorkspaceType
<1>7. LocksMatch'
  BY <1>1, <1>2, WorkspaceAssumption DEF LocksMatch, WorkspaceInv, WorkspaceType, Keeps
<1>8. Live' = Live /\ Live \subseteq Executors
  BY <1>2 DEF Live
<1>9. Serial'
  <2>1. SUFFICES ASSUME ~job.template.parallel
                 PROVE  Serial'
    BY <1>1 DEF Serial
  <2>2. \A e, f \in Live' : e = f
    BY <1>8, <2>1 DEF Serial, WorkspaceInv
  <2>3. ASSUME ~disk'.raced
        PROVE  Live = {} /\ ("internal" \in clearing' \/ disk'.hash = "none")
    BY <1>1, <2>1, <2>3 DEF Serial, WorkspaceInv
  <2>4. ASSUME Live = {}, NEW e \in Executors
        PROVE  Hashes(e)'
    <3>1. ex'[e].at \in Ended \cup {"new"}
      BY <1>2, <2>4 DEF Live
    <3> QED
      BY <3>1 DEF Hashes, Ended
  <2> QED
    BY <1>1, <1>8, <2>2, <2>3, <2>4 DEF Serial
<1>10. Leftovers'
  <2>1. copies'["repo"].backend => copies["repo"].backend
    BY <1>4, <1>5 DEF Dirs
  <2>2. \A e \in Executors : ex'[e].at = ex[e].at /\ ex'[e].backend = ex[e].backend
    BY <1>2 DEF Keeps
  <2> QED
    BY <1>1, <1>8, <2>1, <2>2 DEF Leftovers, WorkspaceInv
<1>11. ASSUME NEW e \in Executors
       PROVE  Holds(e)'
  <2>1. Holds(e) /\ Keeps(e) /\ ex'[e].at = ex[e].at /\ (~ex'[e].disturbed => ~Settling(e)) /\ ex[e].dir \in Dirs
    BY <1>1, <1>2, ExecutorFields DEF WorkspaceInv
  <2>2. (Settling(e)' <=> Settling(e)) /\ RemoteHead(e)' = RemoteHead(e)
    BY <1>1, <2>1 DEF Keeps, Settling, RemoteHead, Remote, resolveGitBranch
  <2>3. Placed(e)' /\ Keys(e)'
    BY <1>1, <2>1, <2>2 DEF Holds, Placed, Keys, Keeps
  <2>4. Commit(e)' /\ Inventory(e)'
    BY <2>1, <2>2 DEF Commit, Inventory, Settling, Settled, Installed
  <2>5. PICK k : /\ k = copies'[ex[e].dir]
                 /\ \/ k.state = "partial"
                    \/ /\ k.state = copies[ex[e].dir].state /\ k.head = copies[ex[e].dir].head
                       /\ k.sub = copies[ex[e].dir].sub
    BY <1>4, <1>5, <2>1
  <2>6. Updating(e)'
    BY <1>1, <2>1, <2>2, <2>5 DEF Holds, Updating, Keeps
  <2> QED
    BY <2>3, <2>4, <2>6 DEF Holds
<1>12. Mending'
  <2>1. ASSUME NEW d \in Dirs, Torn(d)'
        PROVE  disk'.raced \/ Clears(d)' \/ \E e \in Executors : Breaks(e, d)'
    <3>1. CASE d = i
      BY <1>1, <3>1 DEF Clears
    <3>2. CASE d # i
      <4>1. Torn(d)
        BY <1>5, <2>1, <3>2 DEF Torn
      <4> QED
        BY <1>1, <1>2, <4>1 DEF WorkspaceInv, Mending, Clears, Breaks, Keeps
    <3> QED
      BY <3>1, <3>2
  <2> QED
    BY <1>1, <1>8, <2>1 DEF Mending, WorkspaceInv
<1> QED
  BY <1>6, <1>7, <1>9, <1>10, <1>11, <1>12 DEF WorkspaceInv

(* What is interrupted stays as it is.                                     *)
LEMMA InterruptedFacts ==
    ASSUME WorkspaceType, Interrupted
    PROVE  /\ clearing' = {} /\ copies' \in [Dirs -> CopyType] /\ disk' \in DiskType
           /\ \A d \in Dirs : SameCopy(d) /\ ~Torn(d)' /\ copies'[d].backend = copies[d].backend
           /\ disk'.inventory = disk.inventory /\ disk'.hash = disk.hash
           /\ disk.raced => disk'.raced
           /\ ~disk'.raced => clearing = {} /\ disk'.home = disk.home
<1>1. clearing' = {} /\ copies' = [d \in Dirs |-> CutOff(d)]
  BY DEF Interrupted
<1>2. PICK h \in SUBSET disk.home : /\ disk' = [disk EXCEPT !.home = h, !.raced = @ \/ clearing # {}]
                                    /\ clearing = {} => h = disk.home
  BY DEF Interrupted
<1>3. PICK b \in BOOLEAN : b = (disk.raced \/ clearing # {})
  BY Zenon
<1>4. disk' = [disk EXCEPT !.home = h, !.raced = b] /\ disk \in DiskType
  BY <1>2, <1>3, Zenon DEF WorkspaceType
<1>5. h \in SUBSET Contents
  BY <1>2, <1>4 DEF DiskType
<1>6. /\ disk' \in DiskType /\ disk'.inventory = disk.inventory /\ disk'.hash = disk.hash
      /\ disk'.raced = b /\ disk'.home = h
  BY <1>4, <1>5 DEF DiskType
<1>7. ASSUME NEW d \in Dirs
      PROVE  SameCopy(d) /\ ~Torn(d)' /\ copies'[d].backend = copies[d].backend /\ copies'[d] \in CopyType
  <2>1. copies'[d] = CutOff(d)
    BY <1>1
  <2> QED
    BY <2>1, CutOffFacts DEF SameCopy, Torn
<1> QED
  BY <1>1, <1>2, <1>3, <1>6, <1>7

(* An item that cannot be removed ends ClearDir.                           *)
LEMMA ClearFailsHolds ==
    ASSUME WorkspaceInv, ClearFails
    PROVE  WorkspaceInv'
<1>1. UNCHANGED <<job, heads, holder, ex>> /\ clearing # {} /\ WorkspaceType
  BY DEF ClearFails, WorkspaceInv
<1>2. /\ clearing' = {} /\ copies' \in [Dirs -> CopyType] /\ disk' \in DiskType
      /\ \A d \in Dirs : SameCopy(d) /\ ~Torn(d)' /\ copies'[d].backend = copies[d].backend
      /\ disk'.inventory = disk.inventory /\ disk'.raced
  BY <1>1, InterruptedFacts DEF ClearFails
<1>3. WorkspaceType'
  BY <1>1, <1>2, JobKept DEF WorkspaceType
<1>4. LocksMatch' /\ Live' = Live
  BY <1>1 DEF LocksMatch, WorkspaceInv, Live
<1>5. Serial'
  BY <1>1, <1>2, <1>4 DEF Serial, WorkspaceInv
<1>6. Leftovers' /\ Mending'
  BY <1>1, <1>2, <1>4 DEF Leftovers, Mending, WorkspaceInv, Dirs
<1>7. ASSUME NEW e \in Executors
      PROVE  Holds(e)'
  <2>1. Holds(e) /\ (Settling(e)' <=> Settling(e)) /\ RemoteHead(e)' = RemoteHead(e) /\ ex[e].dir \in Dirs
    BY <1>1, ExecutorFields DEF WorkspaceInv, Settling, RemoteHead, Remote, resolveGitBranch
  <2>2. PICK k : /\ k = copies'[ex[e].dir]
                 /\ k.state = copies[ex[e].dir].state /\ k.head = copies[ex[e].dir].head
                 /\ k.sub = copies[ex[e].dir].sub
    BY <1>2, <2>1 DEF SameCopy
  <2>3. Updating(e)'
    BY <1>1, <2>1, <2>2 DEF Holds, Updating
  <2>4. Complete("repo")' /\ Complete("inventory")'
    BY <1>2 DEF Complete
  <2>5. SameCopy("repo") /\ SameCopy("inventory")
    BY <1>2 DEF Dirs
  <2> QED
    BY <1>1, <1>2, <2>1, <2>3, <2>4, <2>5 DEF Holds, Placed, Commit, Inventory, Keys, SameCopy
<1> QED
  BY <1>3, <1>4, <1>5, <1>6, <1>7 DEF WorkspaceInv

(* A crash: the locks are free and nobody is at work.                      *)
LEMMA CrashHolds ==
    ASSUME WorkspaceInv, Crash
    PROVE  WorkspaceInv'
<1>1. /\ UNCHANGED <<job, heads>> /\ clearing' = {} /\ holder' = [d \in Dirs |-> Unlocked]
      /\ WorkspaceType
  BY InterruptedFacts DEF Crash, WorkspaceInv
<1>2. ASSUME NEW e \in Executors
      PROVE  /\ ex'[e] \in ExecutorType /\ ex'[e].dir = ex[e].dir /\ ex'[e].backend = ex[e].backend
             /\ e \in Live => ex'[e].at = "dead" /\ ex'[e].agent = "none"
             /\ e \notin Live => ex'[e] = ex[e] /\ ex[e].at \in Ended \cup {"new"}
  <2>1. ex[e] \in ExecutorType
    BY <1>1, ExecutorFields
  <2>2. CASE e \in Live
    <3>1. ex'[e] = [ex[e] EXCEPT !.at = "dead", !.agent = "none"]
      BY <2>2 DEF Crash
    <3> QED
      BY <2>1, <2>2, <3>1 DEF ExecutorType, Points, Ended
  <2>3. CASE e \notin Live
    <3>1. ex'[e] = ex[e] /\ ex[e].at \in Ended \cup {"new"}
      BY <2>3 DEF Crash, Live
    <3> QED
      BY <2>1, <2>3, <3>1
  <2> QED
    BY <2>2, <2>3
<1>3. \A e \in Executors : ex'[e].at \in Ended \cup {"new"}
  BY <1>2 DEF Ended
<1>4. /\ copies' \in [Dirs -> CopyType] /\ disk' \in DiskType
      /\ \A d \in Dirs : ~Torn(d)' /\ copies'[d].backend = copies[d].backend
      /\ disk'.inventory = disk.inventory /\ disk'.hash = disk.hash
  BY <1>1, InterruptedFacts DEF Crash
<1>5. ~disk'.raced => ~disk.raced /\ clearing = {} /\ disk'.home = disk.home
  BY <1>1, InterruptedFacts DEF Crash
<1>6. WorkspaceType'
  <2>1. ex' \in [Executors -> ExecutorType]
    BY <1>2 DEF Crash
  <2> QED
    BY <1>1, <1>4, <2>1, JobKept DEF WorkspaceType
<1>7. LocksMatch'
  BY <1>1, <1>3 DEF LocksMatch, GitSteps, Ended
<1>8. Live' = {}
  BY <1>3 DEF Live
<1>9. Serial'
  <2>1. \A e \in Executors : Hashes(e)'
    BY <1>3 DEF Hashes, Ended
  <2> QED
    BY <1>1, <1>4, <1>5, <1>8, <2>1 DEF Serial, WorkspaceInv
<1>10. Leftovers' /\ Mending'
  <2>1. ASSUME \A e \in Executors : ex'[e].at # "dead"
        PROVE  ~disk'.inventory /\ ~copies'["repo"].backend
    <3>1. Live = {} /\ \A e \in Executors : ex[e].at # "dead"
      BY <1>2, <2>1 DEF Live
    <3> QED
      BY <1>4, <3>1 DEF Leftovers, WorkspaceInv, Dirs
  <2> QED
    BY <1>4, <1>8, <2>1 DEF Leftovers, Mending
<1>11. ASSUME NEW e \in Executors
       PROVE  Holds(e)'
  <2>1. Holds(e) /\ ex'[e].dir = ex[e].dir /\ ex'[e].backend = ex[e].backend /\ ex'[e].at \in Ended \cup {"new"}
    BY <1>2, <1>3 DEF WorkspaceInv
  <2>2. ~Settling(e)'
    BY <2>1 DEF Settling, Settled, GitSteps, Ended
  <2>3. ex'[e].at = "new" => ex'[e] = ex[e]
    BY <1>2
  <2>4. Placed(e)'
    BY <1>1, <2>1, <2>3 DEF Holds, Placed, Ended
  <2>5. Updating(e)' /\ Commit(e)' /\ Inventory(e)'
    BY <2>1, <2>2 DEF Updating, Commit, Inventory, GitSteps, Installed, Ended
  <2>6. Keys(e)'
    BY <1>2, <2>1, <2>2 DEF Holds, Keys
  <2> QED
    BY <2>4, <2>5, <2>6 DEF Holds
<1> QED
  BY <1>6, <1>7, <1>9, <1>10, <1>11 DEF WorkspaceInv

-----------------------------------------------------------------------------
(* The invariant at the start.                                             *)
LEMMA WorkspaceStarts ==
    ASSUME WorkspaceStart
    PROVE  WorkspaceInv
<1>1. Executor \in ExecutorType /\ \A e \in Executors : ex[e] = Executor
  BY DEF WorkspaceStart, Executor, ExecutorType, Points, Dirs, AnyCommit
<1>2. copies \in [Dirs -> CopyType] /\ \A d \in Dirs : ~copies[d].backend /\ ~Torn(d)
  BY AbsentFacts DEF WorkspaceStart, Torn, AnyCommit
<1>3. disk \in DiskType /\ ~disk.inventory /\ clearing = {} /\ disk.hash \in disk.home \cup {"none"}
  BY DEF WorkspaceStart, DiskType
<1>4. WorkspaceType
  BY <1>1, <1>2, <1>3 DEF WorkspaceStart, WorkspaceType, JobType
<1>5. \A e \in Executors : /\ ex[e].at = "new" /\ ex[e].dir = "repo" /\ ~ex[e].backend
  BY <1>1 DEF Executor
<1>6. Live = {} /\ LocksMatch
  BY <1>5 DEF Live, LocksMatch, GitSteps, WorkspaceStart
<1>7. Serial /\ Leftovers /\ Mending
  BY <1>2, <1>3, <1>5, <1>6 DEF Serial, Leftovers, Mending, Hashes, Dirs
<1>8. \A e \in Executors : Holds(e)
  BY <1>5 DEF Holds, Placed, Updating, Commit, Inventory, Keys, Settling, Settled, GitSteps, Installed, Ended
<1> QED
  BY <1>4, <1>6, <1>7, <1>8 DEF WorkspaceInv

(* Every step keeps the invariant ...                                      *)
LEMMA WorkspaceStays ==
    ASSUME WorkspaceInv, [WorkspaceNext]_workspaceVars
    PROVE  WorkspaceInv'
<1>1. CASE UNCHANGED workspaceVars
  <2>1. UNCHANGED <<job, heads, copies, holder, ex, disk, clearing>> /\ WorkspaceInv
    BY <1>1 DEF workspaceVars
  <2>2. WorkspaceType'
    BY <2>1, JobKept DEF WorkspaceInv, WorkspaceType
  <2>3. LocksMatch' /\ Live' = Live
    BY <2>1 DEF WorkspaceInv, LocksMatch, Live
  <2>4. ASSUME NEW e \in Executors
        PROVE  (Hashes(e)' <=> Hashes(e)) /\ Holds(e)'
    <3>1. Hashes(e)' <=> Hashes(e)
      BY <2>1 DEF Hashes, Content, skipGalaxyInstall
    <3>2. Holds(e) /\ (Settling(e)' <=> Settling(e)) /\ RemoteHead(e)' = RemoteHead(e)
      BY <2>1 DEF WorkspaceInv, Settling, RemoteHead, Remote, resolveGitBranch
    <3> QED
      BY <2>1, <3>1, <3>2 DEF Holds, Placed, Updating, Commit, Inventory, Keys, Complete
  <2>5. Serial'
    BY <2>1, <2>3, <2>4 DEF WorkspaceInv, Serial
  <2>6. Leftovers' /\ Mending'
    BY <2>1, <2>3 DEF WorkspaceInv, Leftovers, Mending, Torn, Breaks, Clears
  <2> QED
    BY <2>2, <2>3, <2>4, <2>5, <2>6 DEF WorkspaceInv
<1>2. ASSUME NEW e \in Executors, UpdateStep(e)
      PROVE  WorkspaceInv'
  BY <1>2, LockDirHolds, LookHolds, PullHolds, UpdateSubmodulesHolds, RemoveFilesHolds, RemoveCopyHolds,
     CloneHolds, CloneFillsHolds, CheckoutHolds
     DEF UpdateStep
<1>3. ASSUME NEW e \in Executors, InstallStep(e)
      PROVE  WorkspaceInv'
  BY <1>3, InstallKeysHolds, InstallInventoryHolds, InstallRequirementsHolds, GalaxyHolds, HashHolds, VaultHolds,
     AppReturnsHolds, CleanupHolds DEF InstallStep
<1> QED
  BY <1>1, <1>2, <1>3, StartPrepareHolds, PushHolds, ClearStartsHolds, ClearOneHolds, ClearFilesHolds,
     ClearFailsHolds, CrashHolds DEF WorkspaceNext

(* ... so it always holds.                                                 *)
LEMMA WorkspaceInvHolds == WorkspaceSpec => []WorkspaceInv
BY WorkspaceStarts, WorkspaceStays, PTL DEF WorkspaceSpec

(* A task works on the commit it records, with its submodules, its         *)
(* inventory, its requirements and all the files that an interrupted clone *)
(* or removal has not left missing, and git never runs twice in a directory*)
(* (LocalExecutor.prepareRun, updateAndCheckoutRepository, KeyLock,        *)
(* AnsibleApp.installGalaxyRequirementsFile).                              *)
THEOREM WorkspaceSoundHolds == WorkspaceSpec => []WorkspaceSound
<1>1. WorkspaceInv => WorkspaceSound
  <2>1. SUFFICES ASSUME WorkspaceInv
                 PROVE  WorkspaceSound
    OBVIOUS
  <2>2. LocksMatch
    BY <2>1 DEF WorkspaceInv
  <2>3. RightCommit
    BY <2>1 DEF WorkspaceInv, RightCommit, Holds, Commit
  <2>4. RequirementsInstalled
    BY <2>1 DEF WorkspaceInv, RequirementsInstalled, Serial, Hashes
  <2>5. \A e \in Executors : Inventory(e)
    BY <2>1 DEF WorkspaceInv, Holds
  <2> QED
    BY <2>2, <2>3, <2>4, <2>5 DEF WorkspaceSound, Inventory, Installed
<1> QED
  BY <1>1, WorkspaceInvHolds, PTL

(* Whichever step fails, no SSH agent outlives its task, and the last task *)
(* leaves no inventory or backend file (LocalExecutor.Run defers Cleanup). *)
THEOREM CleanedUpHolds == WorkspaceSpec => []CleanedUp
<1>1. WorkspaceInv => CleanedUp
  <2>1. SUFFICES ASSUME WorkspaceInv
                 PROVE  CleanedUp
    OBVIOUS
  <2>2. \A e \in Executors : Inventory(e) /\ Keys(e)
    BY <2>1 DEF WorkspaceInv, Holds
  <2>3. \A e \in Executors : ex[e].at = "app" => Settling(e) /\ ex[e].at \in Installed
    BY DEF Settling, Settled, Installed
  <2>4. Live = {} /\ (\A e \in Executors : ex[e].at # "dead") => ~disk.inventory /\ ~copies["repo"].backend
    BY <2>1 DEF WorkspaceInv, Leftovers
  <2> QED
    BY <2>2, <2>3, <2>4 DEF CleanedUp, Inventory, Keys
<1> QED
  BY <1>1, WorkspaceInvHolds, PTL

-----------------------------------------------------------------------------
(* The schedule pool.                                                        *)

Types == {"run_at", "cron"}
Reasons == {"stale", "late", "template", "overwritten"}
HashType == 0..MaxCommits \union {None}

EntryType == {e \in [id : Ids, type : Types, runAt : 0..MaxTime, gen : Gens, next : Int] :
                e.type = "cron" => e.runAt = 0}
RunType == [id : Ids, at : 0..MaxTime, type : Types, gen : Gens, pc : {"get", "remote", "hash", "template"},
            row : Row \union {NoRows}, hash : HashType]
RefreshType == [pc : {"idle", "read", "lock", "rows"}, rows : Tables, todo : SUBSET Ids, now : 0..MaxTime, ver : Gens]

RefreshOK(i) ==
  /\ refreshes[i].pc = "rows" <=> locker = i
  /\ refreshes[i].pc = "idle" => refreshes[i] = Idle
  /\ refreshes[i].pc = "read" => refreshes[i] = Reading
  /\ refreshes[i].ver <= edits
  /\ refreshes[i].now <= clock
  /\ refreshes[i].todo \subseteq DOMAIN refreshes[i].rows

TypeInv ==
  /\ schedules \in Tables
  /\ clock \in 0..MaxTime
  /\ entries \subseteq EntryType
  /\ cronOn \in BOOLEAN
  /\ refreshes \in [Slots -> RefreshType]
  /\ locker \in Slots \union {Nobody}
  /\ runs \subseteq RunType
  /\ commit \in 0..MaxCommits
  /\ edits \in Gens
  /\ applied \in 0..edits
  /\ fired \in [Ids \X Gens -> 0..1]
  /\ tainted \subseteq Reasons
  /\ \A i \in Slots : RefreshOK(i)

(* What an entry waits for: its first time is computed when the cron loop    *)
(* starts, and a run time that is reached is not waited for again.           *)
NextOK(e) ==
  IF ~cronOn THEN e.next = None
  ELSE IF e.type = "cron" THEN e.next > 0
  ELSE e.next = e.runAt \/ (e.next = Never /\ e.runAt <= clock)

EntriesInv ==
  /\ \A e \in entries : NextOK(e)
  /\ \A e, f \in entries : e.id = f.id => e = f

(* The time that version gen of a schedule asks for, wherever it is kept.    *)
TimeOf(id, s) == [id |-> id, gen |-> s.gen, type |-> s.type, runAt |-> s.runAt]
TableTimes(T) == {TimeOf(id, T[id]) : id \in DOMAIN T}
RefreshesTimes(R) == UNION {TableTimes(R[i].rows) : i \in Slots}
EntryTimes(E) == {TimeOf(e.id, e) : e \in E}
Times(T, R, E) == TableTimes(T) \union RefreshesTimes(R) \union EntryTimes(E)

(* A runner was started for the run time of version g. *)
Begun(id, g, F, Q) == F[<<id, g>>] > 0 \/ \E r \in Q : r.type = "run_at" /\ r.id = id /\ r.gen = g

TimesInv ==
  /\ \A x \in Times(schedules, refreshes, entries) : x.gen <= edits
  /\ \A x, y \in Times(schedules, refreshes, entries) : x.id = y.id /\ x.gen = y.gen => x = y
  /\ \A x \in Times(schedules, refreshes, entries) :
       x.type = "run_at" /\ Begun(x.id, x.gen, fired, runs) => x.runAt <= clock
  /\ \A id \in Ids, g \in Gens : Begun(id, g, fired, runs) => g <= edits

StartedInv ==
  /\ \A e \in entries : e.type = "run_at" /\ Begun(e.id, e.gen, fired, runs) => e.next \in {None, Never}
  /\ \A r, q \in runs : r.type = "run_at" /\ q.type = "run_at" /\ r.id = q.id /\ r.gen = q.gen => r = q
  /\ \A r \in runs : r.type = "run_at" => fired[<<r.id, r.gen>>] = 0

(* What a refresh under way has put in the table. *)
Building(E, f) ==
  /\ \A e \in E : /\ e.id \in DOMAIN f.rows \ f.todo
                  /\ TimeOf(e.id, e) = TimeOf(e.id, f.rows[e.id])
                  /\ Wanted(f.rows[e.id]) /\ ~Past(f.rows[e.id], f.now)
  /\ \A id \in DOMAIN f.rows \ f.todo :
       Wanted(f.rows[id]) /\ ~Past(f.rows[id], f.now) => \E e \in E : e.id = id

BuildInv == \A i \in Slots : locker = i => Building(entries, refreshes[i])

(* Rows read at the last change differ from the table of the database in     *)
(* hashes and in schedules that ended since.                                 *)
Follows(T, R, t) ==
  /\ \A id \in DOMAIN T : /\ id \in DOMAIN R
                          /\ TimeOf(id, T[id]) = TimeOf(id, R[id]) /\ T[id].repo = R[id].repo
                          /\ T[id].active = R[id].active \/ Past(R[id], t)
  /\ \A id \in DOMAIN R : id \in DOMAIN T \/ Past(R[id], t)

FollowInv ==
  \A i \in Slots :
    "overwritten" \notin tainted /\ refreshes[i].ver = edits =>
      /\ refreshes[i].pc = "lock" => Follows(schedules, refreshes[i].rows, clock)
      /\ refreshes[i].pc = "rows" => Follows(schedules, refreshes[i].rows, refreshes[i].now)

Matches(E, T, t) ==
  /\ \A e \in E : e.id \in DOMAIN T /\ Wanted(T[e.id]) /\ T[e.id].type = e.type
  /\ \A id \in DOMAIN T : Wanted(T[id]) /\ ~Past(T[id], t) => \E e \in E : e.id = id /\ TimeOf(id, e) = TimeOf(id, T[id])

TableInv ==
  (cronOn \/ FreeSlots = Slots) /\ locker = Nobody /\ applied = edits /\ "overwritten" \notin tainted =>
    Matches(entries, schedules, clock)

HashInv ==
  /\ CommitNotSkipped
  /\ \A r \in runs : r.pc \in {"get", "remote"} => r.hash = None

SchedulesInv ==
  TypeInv /\ EntriesInv /\ TimesInv /\ StartedInv /\ BuildInv /\ FollowInv /\ TableInv /\ HashInv

-----------------------------------------------------------------------------
(* Tables of rows. *)

(* A table has rows under identifiers. *)
LEMMA TableRow ==
  ASSUME NEW T \in Tables
  PROVE  /\ DOMAIN T \subseteq Ids
         /\ \A id \in DOMAIN T : T[id] \in Row
         /\ T = [id \in DOMAIN T |-> T[id]]
BY DEF Tables

(* The empty table. *)
LEMMA EmptyTable == NoRows \in Tables /\ DOMAIN NoRows = {}
<1>1. DOMAIN NoRows = {}
  BY DEF NoRows
<1>2. NoRows \in [{} -> Row]
  BY DEF NoRows
<1> QED BY <1>1, <1>2 DEF Tables

(* CreateRow: the new row and the old ones. *)
LEMMA Created ==
  ASSUME schedules \in Tables, NEW id \in Ids, NEW row \in Row
  PROVE  /\ CreateRow(id, row) \in Tables
         /\ DOMAIN CreateRow(id, row) = DOMAIN schedules \union {id}
         /\ CreateRow(id, row)[id] = row
         /\ \A j \in DOMAIN schedules : j # id => CreateRow(id, row)[j] = schedules[j]
<1> DEFINE D == DOMAIN schedules \union {id}
<1>1. D \in SUBSET Ids
  BY TableRow
<1>2. CreateRow(id, row) \in [D -> Row]
  BY TableRow DEF CreateRow
<1>3. CreateRow(id, row) \in Tables
  BY <1>1, <1>2 DEF Tables
<1> QED BY <1>3 DEF CreateRow

(* UpdateRow: another row under the same identifier. *)
LEMMA RowUpdated ==
  ASSUME schedules \in Tables, NEW id \in DOMAIN schedules, NEW row \in Row
  PROVE  /\ UpdateRow(id, row) \in Tables
         /\ DOMAIN UpdateRow(id, row) = DOMAIN schedules
         /\ UpdateRow(id, row)[id] = row
         /\ \A j \in DOMAIN schedules : j # id => UpdateRow(id, row)[j] = schedules[j]
<1>1. schedules \in [DOMAIN schedules -> Row] /\ DOMAIN schedules \in SUBSET Ids
  BY TableRow
<1>2. UpdateRow(id, row) \in [DOMAIN schedules -> Row]
  BY <1>1 DEF UpdateRow
<1>3. UpdateRow(id, row) \in Tables
  BY <1>1, <1>2 DEF Tables
<1> QED BY <1>1, <1>3 DEF UpdateRow

(* DeleteRow: the other rows. *)
LEMMA Deleted ==
  ASSUME schedules \in Tables, NEW id
  PROVE  /\ DeleteRow(id) \in Tables
         /\ DOMAIN DeleteRow(id) = DOMAIN schedules \ {id}
         /\ \A j \in DOMAIN schedules \ {id} : DeleteRow(id)[j] = schedules[j]
<1> DEFINE D == DOMAIN schedules \ {id}
<1>1. D \in SUBSET Ids
  BY TableRow
<1>2. DeleteRow(id) \in [D -> Row]
  BY TableRow DEF DeleteRow
<1>3. DeleteRow(id) \in Tables
  BY <1>1, <1>2 DEF Tables
<1> QED BY <1>3 DEF DeleteRow

(* A payload gets the number of its change. *)
LEMMA GenEdit ==
  ASSUME NEW s \in Row, NEW g \in Gens
  PROVE  /\ [s EXCEPT !.gen = g] \in Row
         /\ [s EXCEPT !.gen = g].gen = g /\ [s EXCEPT !.gen = g].hash = s.hash
BY DEF Row

(* A schedule is switched on or off. *)
LEMMA ActiveEdit ==
  ASSUME NEW s \in Row, NEW b \in BOOLEAN
  PROVE  /\ [s EXCEPT !.active = b] \in Row
         /\ \A id : TimeOf(id, [s EXCEPT !.active = b]) = TimeOf(id, s)
         /\ [s EXCEPT !.active = b].repo = s.repo /\ [s EXCEPT !.active = b].hash = s.hash
BY DEF Row, TimeOf

(* A commit is recorded. *)
LEMMA HashEdit ==
  ASSUME NEW s \in Row, NEW h \in HashType
  PROVE  /\ [s EXCEPT !.hash = h] \in Row
         /\ \A id : TimeOf(id, [s EXCEPT !.hash = h]) = TimeOf(id, s)
         /\ [s EXCEPT !.hash = h].repo = s.repo /\ [s EXCEPT !.hash = h].active = s.active
         /\ [s EXCEPT !.hash = h].hash = h
BY DEF Row, HashType, TimeOf

(* Consume ends the schedule under the identifier and leaves all else alone: *)
(* the row keeps its time, its repository and its hash.                      *)
LEMMA Consumed ==
  ASSUME schedules \in Tables, NEW id \in Ids, NEW s \in Row
  PROVE  /\ Consume(id, s) \in Tables
         /\ DOMAIN Consume(id, s) \subseteq DOMAIN schedules
         /\ \A j \in DOMAIN schedules : j # id => j \in DOMAIN Consume(id, s)
         /\ \A j \in DOMAIN Consume(id, s) :
              /\ j # id => Consume(id, s)[j] = schedules[j]
              /\ TimeOf(j, Consume(id, s)[j]) = TimeOf(j, schedules[j])
              /\ Consume(id, s)[j].repo = schedules[j].repo
              /\ Consume(id, s)[j].hash = schedules[j].hash
<1>1. CASE id \notin DOMAIN schedules
  BY <1>1 DEF Consume
<1>2. CASE id \in DOMAIN schedules /\ s.del
  <2>1. Consume(id, s) = DeleteRow(id)
    BY <1>2 DEF Consume
  <2> QED BY <2>1, Deleted
<1>3. CASE id \in DOMAIN schedules /\ ~s.del /\ s.active
  <2> DEFINE row == [schedules[id] EXCEPT !.active = FALSE]
  <2>1. Consume(id, s) = UpdateRow(id, row)
    BY <1>3 DEF Consume
  <2>2. schedules[id] \in Row /\ FALSE \in BOOLEAN
    BY <1>3, TableRow
  <2>3. row \in Row /\ TimeOf(id, row) = TimeOf(id, schedules[id]) /\ row.repo = schedules[id].repo /\ row.hash = schedules[id].hash
    BY <2>2, ActiveEdit
  <2> HIDE DEF row
  <2> QED BY <1>3, <2>1, <2>3, RowUpdated
<1>4. CASE id \in DOMAIN schedules /\ ~s.del /\ ~s.active
  BY <1>4 DEF Consume
<1> QED BY <1>1, <1>2, <1>3, <1>4

-----------------------------------------------------------------------------
(* Slots. *)

(* A slot that a refresh starts in is free. *)
LEMMA FreeSlotIsFree == FreeSlots # {} => FreeSlot \in Slots /\ refreshes[FreeSlot] = Idle
<1>1. FreeSlots # {} => FreeSlot \in FreeSlots
  BY DEF FreeSlot
<1> QED BY <1>1 DEF FreeSlots

(* There is a first slot. *)
LEMMA FirstSlotIsOne == FirstSlot \in Slots
BY ScheduleAssumption DEF FirstSlot

(* The idle and the reading refresh. *)
LEMMA IdleReading ==
  /\ Idle \in RefreshType /\ Idle.pc = "idle" /\ Idle.ver = 0 /\ Idle.now = 0 /\ Idle.rows = NoRows /\ Idle.todo = {}
  /\ Reading \in RefreshType /\ Reading.pc = "read" /\ Reading.ver = 0 /\ Reading.now = 0
  /\ Reading.rows = NoRows /\ Reading.todo = {}
BY EmptyTable, ScheduleAssumption DEF Idle, Reading, RefreshType, Gens

-----------------------------------------------------------------------------
(* What the steps do. *)

(* A refresh starts in a slot that was idle. *)
LEMMA Starting ==
  ASSUME StartRefresh
  PROVE  \E j \in Slots : refreshes[j] = Idle /\ refreshes' = [refreshes EXCEPT ![j] = Reading]
BY FreeSlotIsFree DEF StartRefresh

(* An edit by a user: every row keeps its time and hash or gets a new number. *)
Edit ==
  /\ cronOn /\ edits < MaxEdits /\ edits' = edits + 1
  /\ StartRefresh
  /\ schedules' \in Tables
  /\ \A id \in DOMAIN schedules' :
       \/ schedules'[id].gen = edits + 1 /\ schedules'[id].hash = None
       \/ /\ id \in DOMAIN schedules /\ TimeOf(id, schedules'[id]) = TimeOf(id, schedules[id])
          /\ schedules'[id].hash = schedules[id].hash
  /\ UNCHANGED <<clock, entries, cronOn, locker, runs, commit, restarts, applied, fired, handled, tainted>>

(* The four handlers of the API are edits. *)
LEMMA EditStep ==
  ASSUME TypeInv, NEW id \in Ids,
         AddSchedule(id) \/ UpdateSchedule(id) \/ SetScheduleActive(id) \/ RemoveSchedule(id)
  PROVE  Edit
<1> USE DEF TypeInv
<1>0. ASSUME NEW rows, Change(rows)
      PROVE  /\ cronOn /\ edits < MaxEdits /\ edits' = edits + 1 /\ StartRefresh /\ schedules' = rows
             /\ UNCHANGED <<clock, entries, cronOn, locker, runs, commit, restarts, applied, fired, handled, tainted>>
  BY <1>0 DEF Change
<1>1. edits < MaxEdits => edits + 1 \in Gens
  BY ScheduleAssumption DEF Gens
<1>2. ASSUME NEW s \in Payloads, edits < MaxEdits
      PROVE  /\ [s EXCEPT !.gen = edits + 1] \in Row
             /\ [s EXCEPT !.gen = edits + 1].gen = edits + 1 /\ [s EXCEPT !.gen = edits + 1].hash = None
  <2>1. s \in Row /\ s.hash = None
    BY ScheduleAssumption
  <2> QED BY <1>1, <1>2, <2>1, GenEdit
<1>3. CASE AddSchedule(id)
  <2>1. PICK s \in Payloads : Change(CreateRow(id, [s EXCEPT !.gen = edits + 1]))
    BY <1>3 DEF AddSchedule
  <2>2. PICK row : row = [s EXCEPT !.gen = edits + 1]
    OBVIOUS
  <2>3. row \in Row /\ row.gen = edits + 1 /\ row.hash = None /\ schedules' = CreateRow(id, row)
    BY <1>0, <1>2, <2>1, <2>2
  <2>5. /\ schedules' \in Tables /\ schedules'[id] = row /\ DOMAIN schedules' = DOMAIN schedules \union {id}
        /\ \A j \in DOMAIN schedules : j # id => schedules'[j] = schedules[j]
    BY <2>3, Created
  <2>4. \A j \in DOMAIN schedules' : j = id \/ (j \in DOMAIN schedules /\ schedules'[j] = schedules[j])
    BY <2>5
  <2> QED BY <1>0, <2>1, <2>3, <2>4, <2>5 DEF Edit
<1>4. CASE UpdateSchedule(id)
  <2>1. PICK s \in Payloads : Change(UpdateRow(id, [s EXCEPT !.gen = edits + 1]))
    BY <1>4 DEF UpdateSchedule
  <2>2. PICK row : row = [s EXCEPT !.gen = edits + 1]
    OBVIOUS
  <2>3. row \in Row /\ row.gen = edits + 1 /\ row.hash = None /\ schedules' = UpdateRow(id, row) /\ id \in DOMAIN schedules
    BY <1>0, <1>2, <1>4, <2>1, <2>2 DEF UpdateSchedule
  <2>4. \A j \in DOMAIN schedules' : j = id \/ (j \in DOMAIN schedules /\ schedules'[j] = schedules[j])
    BY <2>3, RowUpdated
  <2>5. schedules' \in Tables /\ schedules'[id] = row
    BY <2>3, RowUpdated
  <2> QED BY <1>0, <2>1, <2>3, <2>4, <2>5 DEF Edit
<1>5. CASE SetScheduleActive(id)
  <2>1. PICK active \in BOOLEAN : Change(UpdateRow(id, [schedules[id] EXCEPT !.active = active]))
    BY <1>5 DEF SetScheduleActive
  <2>2. PICK row : row = [schedules[id] EXCEPT !.active = active]
    OBVIOUS
  <2>3. id \in DOMAIN schedules /\ schedules[id] \in Row
    BY <1>5, TableRow DEF SetScheduleActive
  <2>4. row \in Row /\ TimeOf(id, row) = TimeOf(id, schedules[id]) /\ row.hash = schedules[id].hash
    BY <2>2, <2>3, ActiveEdit
  <2>5. schedules' = UpdateRow(id, row)
    BY <1>0, <2>1, <2>2
  <2>6. \A j \in DOMAIN schedules' : j = id \/ (j \in DOMAIN schedules /\ schedules'[j] = schedules[j])
    BY <2>3, <2>4, <2>5, RowUpdated
  <2>7. schedules' \in Tables /\ schedules'[id] = row
    BY <2>3, <2>4, <2>5, RowUpdated
  <2> QED BY <1>0, <2>1, <2>3, <2>4, <2>6, <2>7 DEF Edit
<1>6. CASE RemoveSchedule(id)
  <2>1. Change(DeleteRow(id))
    BY <1>6 DEF RemoveSchedule
  <2>2. schedules' = DeleteRow(id)
    BY <1>0, <2>1
  <2>3. \A j \in DOMAIN schedules' : j \in DOMAIN schedules /\ schedules'[j] = schedules[j]
    BY <2>2, Deleted
  <2>4. schedules' \in Tables
    BY <2>2, Deleted
  <2> QED BY <1>0, <2>1, <2>3, <2>4 DEF Edit
<1> QED BY <1>3, <1>4, <1>5, <1>6

(* The three things a refresh does with a row. *)
SkipRow(i, id) ==
  /\ ~Wanted(refreshes[i].rows[id])
  /\ UNCHANGED <<entries, schedules, tainted>>
AddRow(i, id) ==
  /\ Wanted(refreshes[i].rows[id]) /\ ~Past(refreshes[i].rows[id], refreshes[i].now)
  /\ AddEntry(Entry(id, refreshes[i].rows[id])) /\ UNCHANGED schedules
EndRow(i, id) ==
  /\ Wanted(refreshes[i].rows[id]) /\ Past(refreshes[i].rows[id], refreshes[i].now)
  /\ schedules' = Consume(id, refreshes[i].rows[id])
  /\ tainted' = Mark(id \in DOMAIN schedules /\ schedules[id].gen # refreshes[i].rows[id].gen, "overwritten")
  /\ UNCHANGED entries
RowDone(i, id) ==
  /\ locker = i /\ id \in refreshes[i].todo
  /\ refreshes' = [refreshes EXCEPT ![i] = [@ EXCEPT !.todo = refreshes[i].todo \ {id}]]
  /\ UNCHANGED <<clock, cronOn, locker, runs, commit, restarts, edits, applied, fired, handled>>

(* A refresh does one of the three. *)
LEMMA RowStep ==
  ASSUME NEW i, NEW id, RefreshRow(i, id)
  PROVE  RowDone(i, id) /\ (SkipRow(i, id) \/ AddRow(i, id) \/ EndRow(i, id))
<1>1. RowDone(i, id)
  BY DEF RefreshRow, RowDone
<1>2. SkipRow(i, id) \/ AddRow(i, id) \/ EndRow(i, id)
  BY DEF RefreshRow, SkipRow, AddRow, EndRow
<1> QED BY <1>1, <1>2

(* The row a refresh works on is a row it read. *)
LEMMA RowOf ==
  ASSUME TypeInv, NEW i \in Slots, NEW id \in DOMAIN refreshes[i].rows
  PROVE  id \in Ids /\ refreshes[i].rows[id] \in Row
<1>1. refreshes[i].rows \in Tables
  BY DEF TypeInv, RefreshType
<1> QED BY <1>1, TableRow

(* The entry of a row, and when it fires next. *)
LEMMA NewEntry ==
  ASSUME TypeInv, NEW id \in Ids, NEW s \in Row, AddEntry(Entry(id, s))
  PROVE  \E e \in EntryType :
           /\ entries' = entries \union {e} /\ e.id = id /\ TimeOf(id, e) = TimeOf(id, s)
           /\ e.next = IF cronOn THEN NextTime(e, clock) ELSE None
           /\ tainted' \in {tainted, tainted \union {"late"}}
<1> DEFINE next == IF cronOn THEN NextTime(Entry(id, s), clock) ELSE None
           e == [Entry(id, s) EXCEPT !.next = next]
<1>1. next \in Int
  BY ScheduleAssumption DEF TypeInv, NextTime, Entry, Never, None, Row
<1>2. entries' = entries \union {e} /\ tainted' \in {tainted, tainted \union {"late"}}
  BY DEF AddEntry, Mark
<1>3. e \in EntryType /\ e.id = id /\ e.next = next /\ TimeOf(id, e) = TimeOf(id, s)
      /\ e.type = s.type /\ e.runAt = s.runAt
  <2> HIDE DEF next
  <2> QED BY <1>1 DEF Entry, EntryType, Row, Types, TimeOf
<1>4. next = IF cronOn THEN NextTime(e, clock) ELSE None
  BY <1>3 DEF NextTime, Entry
<1> HIDE DEF next, e
<1> QED BY <1>2, <1>3, <1>4

-----------------------------------------------------------------------------
(* Types. *)

(* The state of the pool is well-formed when the server starts. *)
LEMMA TypeStart == ScheduleStart => TypeInv
<1> SUFFICES ASSUME ScheduleStart PROVE TypeInv
  OBVIOUS
<1>1. refreshes \in [Slots -> RefreshType]
  BY IdleReading DEF ScheduleStart
<1>2. ASSUME NEW i \in Slots PROVE RefreshOK(i)
  <2>1. refreshes[i] \in {Reading, Idle} /\ locker = Nobody /\ locker # i /\ edits \in Nat /\ clock \in Nat
    BY ScheduleAssumption DEF ScheduleStart, Gens
  <2> QED BY <2>1, IdleReading DEF RefreshOK
<1>3. fired \in [Ids \X Gens -> 0..1] /\ applied \in 0..edits
  BY ScheduleAssumption DEF ScheduleStart, Gens
<1> QED BY <1>1, <1>2, <1>3 DEF ScheduleStart, TypeInv

(* The refreshes stay well-formed when one of them becomes f. *)
LEMMA OneRefresh ==
  ASSUME TypeInv, NEW i \in Slots, NEW f \in RefreshType, refreshes' = [refreshes EXCEPT ![i] = f],
         locker' \in {locker, i, Nobody}, f.pc = "rows" <=> locker' = i,
         locker' # locker => locker \in {i, Nobody},
         f.pc = "idle" => f = Idle, f.pc = "read" => f = Reading, f.ver <= edits', f.now <= clock', f.todo \subseteq DOMAIN f.rows,
         edits' \in Gens, edits' >= edits, clock' \in 0..MaxTime, clock' >= clock
  PROVE  /\ refreshes' \in [Slots -> RefreshType]
         /\ \A j \in Slots : RefreshOK(j)'
<1>1. refreshes' \in [Slots -> RefreshType]
  BY DEF TypeInv
<1>2. ASSUME NEW j \in Slots PROVE RefreshOK(j)'
  <2>1. CASE j = i
    <3>1. refreshes'[j] = f
      BY <2>1 DEF TypeInv
    <3> QED BY <2>1, <3>1 DEF RefreshOK
  <2>2. CASE j # i
    <3>1. refreshes'[j] = refreshes[j] /\ RefreshOK(j) /\ refreshes[j] \in RefreshType
      BY <2>2 DEF TypeInv
    <3>2. (locker' = j) <=> (locker = j)
      BY <2>2, ScheduleAssumption DEF TypeInv
    <3>3. refreshes[j].ver <= edits' /\ refreshes[j].now <= clock'
      <4>1. refreshes[j].ver \in Int /\ refreshes[j].now \in Int /\ edits \in Int /\ clock \in Int /\ edits' \in Int /\ clock' \in Int
        BY <3>1, ScheduleAssumption DEF RefreshType, TypeInv, Gens
      <4> QED BY <3>1, <4>1 DEF RefreshOK
    <3> QED BY <3>1, <3>2, <3>3 DEF RefreshOK
  <2> QED BY <2>1, <2>2
<1> QED BY <1>1, <1>2

(* A refresh that starts leaves the others alone. *)
LEMMA StartingType ==
  ASSUME TypeInv, StartRefresh, locker' = locker, clock' = clock, edits' \in Gens, edits' >= edits
  PROVE  refreshes' \in [Slots -> RefreshType] /\ \A j \in Slots : RefreshOK(j)'
<1>1. PICK j \in Slots : refreshes[j] = Idle /\ refreshes' = [refreshes EXCEPT ![j] = Reading]
  BY Starting
<1>2. Reading \in RefreshType /\ Reading.pc = "read" /\ Reading.todo = {}
  BY IdleReading
<1>3. locker # j
  BY <1>1, IdleReading DEF TypeInv, RefreshOK
<1>4. Reading.ver <= edits' /\ Reading.now <= clock' /\ clock' \in 0..MaxTime /\ clock' >= clock
  BY IdleReading, ScheduleAssumption DEF TypeInv, Gens
<1>5. PICK f \in RefreshType : f = Reading
  BY <1>2
<1> QED BY <1>1, <1>2, <1>3, <1>4, <1>5, OneRefresh

(* Reading the rows, the lock, a row and the unlock change one refresh. *)
LEMMA GetSchedulesIs ==
  ASSUME TypeInv, NEW i \in Slots, GetSchedules(i)
  PROVE  \E f \in RefreshType :
           /\ refreshes' = [refreshes EXCEPT ![i] = f] /\ refreshes'[i] = f
           /\ f.pc = "lock" /\ f.rows = schedules /\ f.ver = edits /\ f.todo = {} /\ f.now = 0
           /\ refreshes[i].pc = "read" /\ locker # i
           /\ UNCHANGED <<schedules, clock, entries, cronOn, locker, runs, commit, edits, applied, fired, handled, tainted>>
<1> DEFINE f == [refreshes[i] EXCEPT !.pc = "lock", !.rows = schedules, !.ver = edits]
<1>1. refreshes[i] = Reading /\ refreshes[i] \in RefreshType /\ locker # i
  BY DEF GetSchedules, TypeInv, RefreshOK
<1>2. f \in RefreshType /\ f.pc = "lock" /\ f.rows = schedules /\ f.ver = edits /\ f.todo = refreshes[i].todo /\ f.now = refreshes[i].now
  BY <1>1 DEF RefreshType, TypeInv
<1>3. refreshes' = [refreshes EXCEPT ![i] = f] /\ refreshes'[i] = f
  BY DEF GetSchedules, TypeInv
<1>4. /\ refreshes[i].pc = "read"
      /\ UNCHANGED <<schedules, clock, entries, cronOn, locker, runs, commit, edits, applied, fired, handled, tainted>>
  BY DEF GetSchedules
<1> HIDE DEF f
<1> QED BY <1>1, <1>2, <1>3, <1>4, IdleReading

(* Lock: the refresh takes the lock and empties the table. *)
LEMMA LockIs ==
  ASSUME TypeInv, NEW i \in Slots, Lock(i)
  PROVE  \E f \in RefreshType :
           /\ refreshes' = [refreshes EXCEPT ![i] = f] /\ refreshes'[i] = f
           /\ f.pc = "rows" /\ f.rows = refreshes[i].rows /\ f.ver = refreshes[i].ver
           /\ f.todo = DOMAIN f.rows /\ f.now = clock
           /\ refreshes[i].pc = "lock" /\ locker = Nobody /\ locker' = i /\ entries' = {}
           /\ tainted' \in {tainted, tainted \union {"stale"}}
           /\ UNCHANGED <<schedules, clock, cronOn, runs, commit, edits, applied, fired, handled>>
<1> DEFINE f == [refreshes[i] EXCEPT !.pc = "rows", !.todo = DOMAIN refreshes[i].rows, !.now = clock]
<1>1. refreshes[i] \in RefreshType
  BY DEF TypeInv
<1>2. DOMAIN refreshes[i].rows \subseteq Ids
  BY <1>1, TableRow DEF RefreshType
<1>3. /\ f \in RefreshType /\ f.pc = "rows" /\ f.rows = refreshes[i].rows /\ f.ver = refreshes[i].ver
      /\ f.todo = DOMAIN f.rows /\ f.now = clock
  BY <1>1, <1>2 DEF RefreshType, TypeInv
<1>4. refreshes' = [refreshes EXCEPT ![i] = f] /\ refreshes'[i] = f
  BY DEF Lock, ClearAndRead, TypeInv
<1>5. /\ refreshes[i].pc = "lock" /\ locker = Nobody /\ locker' = i /\ entries' = {}
      /\ tainted' \in {tainted, tainted \union {"stale"}}
      /\ UNCHANGED <<schedules, clock, cronOn, runs, commit, edits, applied, fired, handled>>
  BY DEF Lock, ClearAndRead, Mark
<1> HIDE DEF f
<1> QED BY <1>3, <1>4, <1>5

(* A row is done: the refresh has one row less to go through. *)
LEMMA RowDoneIs ==
  ASSUME TypeInv, NEW i \in Slots, NEW id, RowDone(i, id)
  PROVE  \E f \in RefreshType :
           /\ refreshes' = [refreshes EXCEPT ![i] = f] /\ refreshes'[i] = f
           /\ f.pc = "rows" /\ f.rows = refreshes[i].rows /\ f.ver = refreshes[i].ver
           /\ f.todo = refreshes[i].todo \ {id} /\ f.now = refreshes[i].now
           /\ refreshes[i].pc = "rows" /\ id \in Ids /\ id \in DOMAIN refreshes[i].rows /\ refreshes[i].rows[id] \in Row
           /\ locker = i
           /\ UNCHANGED <<clock, cronOn, locker, runs, commit, edits, applied, fired, handled>>
<1> DEFINE f == [refreshes[i] EXCEPT !.todo = refreshes[i].todo \ {id}]
<1>1. refreshes[i] \in RefreshType /\ RefreshOK(i) /\ locker = i
  BY DEF TypeInv, RowDone
<1>2. /\ f \in RefreshType /\ f.pc = refreshes[i].pc /\ f.rows = refreshes[i].rows /\ f.ver = refreshes[i].ver
      /\ f.todo = refreshes[i].todo \ {id} /\ f.now = refreshes[i].now
  BY <1>1 DEF RefreshType
<1>3. refreshes' = [refreshes EXCEPT ![i] = f] /\ refreshes'[i] = f
  BY DEF RowDone, TypeInv
<1>4. id \in DOMAIN refreshes[i].rows /\ refreshes[i].pc = "rows"
  BY <1>1 DEF RowDone, RefreshOK
<1>5. UNCHANGED <<clock, cronOn, locker, runs, commit, edits, applied, fired, handled>>
  BY DEF RowDone
<1> HIDE DEF f
<1> QED BY <1>1, <1>2, <1>3, <1>4, <1>5, RowOf

(* Unlock: the refresh ends. *)
LEMMA UnlockIs ==
  ASSUME TypeInv, NEW i \in Slots, Unlock(i)
  PROVE  /\ refreshes' = [refreshes EXCEPT ![i] = Idle] /\ refreshes'[i] = Idle
         /\ refreshes[i].pc = "rows" /\ refreshes[i].todo = {} /\ locker = i /\ locker' = Nobody /\ applied' = refreshes[i].ver
         /\ UNCHANGED <<schedules, clock, entries, cronOn, runs, commit, edits, fired, handled, tainted>>
<1>1. refreshes \in [Slots -> RefreshType] /\ RefreshOK(i)
  BY DEF TypeInv
<1>2. /\ locker = i /\ refreshes[i].todo = {} /\ locker' = Nobody /\ applied' = refreshes[i].ver
      /\ refreshes' = [refreshes EXCEPT ![i] = Idle]
      /\ UNCHANGED <<schedules, clock, entries, cronOn, runs, commit, edits, fired, handled, tainted>>
  BY DEF Unlock
<1> QED BY <1>1, <1>2 DEF RefreshOK

(* One step of a refresh keeps the types. *)
LEMMA RefreshKeepsTypes ==
  ASSUME TypeInv, NEW i \in Slots, RefreshStep(i)
  PROVE  TypeInv'
<1>0. /\ refreshes[i] \in RefreshType /\ RefreshOK(i) /\ i # Nobody
      /\ edits \in Gens /\ edits \in Nat /\ clock \in 0..MaxTime /\ clock \in Nat /\ locker \in Slots \union {Nobody}
  BY ScheduleAssumption DEF TypeInv, Gens
<1>1. CASE GetSchedules(i)
  <2>1. PICK f \in RefreshType :
           /\ refreshes' = [refreshes EXCEPT ![i] = f]
           /\ f.pc = "lock" /\ f.rows = schedules /\ f.ver = edits /\ f.todo = {} /\ f.now = 0
           /\ refreshes[i].pc = "read" /\ locker # i
           /\ UNCHANGED <<schedules, clock, entries, cronOn, locker, runs, commit, edits, applied, fired, handled, tainted>>
    BY <1>1, GetSchedulesIs
  <2>2. refreshes' \in [Slots -> RefreshType] /\ \A j \in Slots : RefreshOK(j)'
    <3>1. edits' \in Gens /\ edits' >= edits /\ clock' \in 0..MaxTime /\ clock' >= clock
      BY <1>0, <2>1
    <3>2. f.ver <= edits' /\ f.now <= clock' /\ f.todo \subseteq DOMAIN f.rows /\ locker' = locker
      BY <1>0, <2>1
    <3> QED BY <1>0, <3>1, <3>2, <2>1, OneRefresh
  <2> QED BY <2>1, <2>2 DEF TypeInv
<1>2. CASE Lock(i)
  <2>1. PICK f \in RefreshType :
           /\ refreshes' = [refreshes EXCEPT ![i] = f]
           /\ f.pc = "rows" /\ f.rows = refreshes[i].rows /\ f.ver = refreshes[i].ver
           /\ f.todo = DOMAIN f.rows /\ f.now = clock
           /\ refreshes[i].pc = "lock" /\ locker = Nobody /\ locker' = i /\ entries' = {}
           /\ tainted' \in {tainted, tainted \union {"stale"}}
           /\ UNCHANGED <<schedules, clock, cronOn, runs, commit, edits, applied, fired, handled>>
    BY <1>2, LockIs
  <2>2. f.ver <= edits
    BY <1>0, <2>1 DEF RefreshOK
  <2>3. refreshes' \in [Slots -> RefreshType] /\ \A j \in Slots : RefreshOK(j)'
    <3>1. edits' \in Gens /\ edits' >= edits /\ clock' \in 0..MaxTime /\ clock' >= clock
      BY <1>0, <2>1
    <3> QED BY <1>0, <3>1, <2>1, <2>2, OneRefresh
  <2>4. tainted' \subseteq Reasons /\ locker' \in Slots \union {Nobody} /\ entries' \subseteq EntryType
    BY <2>1 DEF TypeInv, Reasons
  <2> QED BY <2>1, <2>3, <2>4 DEF TypeInv
<1>3. ASSUME NEW id \in Ids, RefreshRow(i, id)
      PROVE  TypeInv'
  <2>0. RowDone(i, id) /\ (SkipRow(i, id) \/ AddRow(i, id) \/ EndRow(i, id))
    BY <1>3, RowStep
  <2>1. PICK f \in RefreshType :
           /\ refreshes' = [refreshes EXCEPT ![i] = f]
           /\ f.pc = "rows" /\ f.rows = refreshes[i].rows /\ f.ver = refreshes[i].ver
           /\ f.todo = refreshes[i].todo \ {id} /\ f.now = refreshes[i].now
           /\ refreshes[i].pc = "rows" /\ id \in Ids /\ id \in DOMAIN refreshes[i].rows /\ refreshes[i].rows[id] \in Row
           /\ locker = i
           /\ UNCHANGED <<clock, cronOn, locker, runs, commit, edits, applied, fired, handled>>
    BY <2>0, RowDoneIs
  <2>2. f.ver <= edits /\ f.now <= clock /\ f.todo \subseteq DOMAIN f.rows
    BY <1>0, <2>1 DEF RefreshOK
  <2>3. refreshes' \in [Slots -> RefreshType] /\ \A j \in Slots : RefreshOK(j)'
    <3>1. edits' \in Gens /\ edits' >= edits /\ clock' \in 0..MaxTime /\ clock' >= clock
      BY <1>0, <2>1
    <3> QED BY <1>0, <3>1, <2>1, <2>2, OneRefresh
  <2>4. schedules' \in Tables /\ entries' \subseteq EntryType /\ tainted' \subseteq Reasons
    <3>1. CASE SkipRow(i, id)
      BY <3>1 DEF SkipRow, TypeInv
    <3>2. CASE AddRow(i, id)
      <4>1. AddEntry(Entry(id, refreshes[i].rows[id])) /\ schedules' = schedules
        BY <3>2 DEF AddRow
      <4>2. PICK e \in EntryType : entries' = entries \union {e} /\ tainted' \in {tainted, tainted \union {"late"}}
        BY <2>1, <4>1, NewEntry
      <4> QED BY <4>1, <4>2 DEF TypeInv, Reasons
    <3>3. CASE EndRow(i, id)
      <4>1. schedules' = Consume(id, refreshes[i].rows[id]) /\ entries' = entries
            /\ tainted' \in {tainted, tainted \union {"overwritten"}}
        BY <3>3 DEF EndRow, Mark
      <4>2. schedules' \in Tables
        BY <2>1, <4>1, Consumed DEF TypeInv
      <4> QED BY <4>1, <4>2 DEF TypeInv, Reasons
    <3> QED BY <2>0, <3>1, <3>2, <3>3
  <2> QED BY <2>1, <2>3, <2>4 DEF TypeInv
<1>4. CASE Unlock(i)
  <2>1. /\ refreshes' = [refreshes EXCEPT ![i] = Idle]
        /\ locker = i /\ locker' = Nobody /\ applied' = refreshes[i].ver
        /\ UNCHANGED <<schedules, clock, entries, cronOn, runs, commit, edits, fired, handled, tainted>>
    BY <1>4, UnlockIs
  <2>2. Idle \in RefreshType /\ Idle.pc = "idle" /\ Idle.ver <= edits /\ Idle.now <= clock /\ Idle.todo = {}
    BY <1>0, IdleReading
  <2>3. PICK f \in RefreshType : f = Idle
    BY <2>2
  <2>4. refreshes' \in [Slots -> RefreshType] /\ \A j \in Slots : RefreshOK(j)'
    <3>1. edits' \in Gens /\ edits' >= edits /\ clock' \in 0..MaxTime /\ clock' >= clock
      BY <1>0, <2>1
    <3> QED BY <1>0, <3>1, <2>1, <2>2, <2>3, OneRefresh
  <2>5. applied' \in 0..edits
    BY <1>0, <2>1, ScheduleAssumption DEF RefreshOK, RefreshType, Gens
  <2> QED BY <2>1, <2>4, <2>5 DEF TypeInv
<1> QED BY <1>1, <1>2, <1>3, <1>4 DEF RefreshStep

(* An entry whose next time was computed again is still an entry. *)
LEMMA Rescheduled ==
  ASSUME TypeInv, NEW e \in EntryType
  PROVE  /\ NextTime(e, clock) \in Int
         /\ [e EXCEPT !.next = NextTime(e, clock)] \in EntryType
         /\ [e EXCEPT !.next = NextTime(e, clock)].id = e.id
         /\ [e EXCEPT !.next = NextTime(e, clock)].next = NextTime(e, clock)
         /\ \A id : TimeOf(id, [e EXCEPT !.next = NextTime(e, clock)]) = TimeOf(id, e)
         /\ [e EXCEPT !.next = NextTime(e, clock)].type = e.type
         /\ [e EXCEPT !.next = NextTime(e, clock)].runAt = e.runAt
         /\ [e EXCEPT !.next = NextTime(e, clock)].gen = e.gen
<1>1. NextTime(e, clock) \in Int
  BY ScheduleAssumption DEF TypeInv, NextTime, EntryType, Never
<1>2. PICK n \in Int : n = NextTime(e, clock)
  BY <1>1
<1>3. /\ [e EXCEPT !.next = n] \in EntryType
      /\ [e EXCEPT !.next = n].id = e.id /\ [e EXCEPT !.next = n].next = n /\ [e EXCEPT !.next = n].gen = e.gen
      /\ [e EXCEPT !.next = n].type = e.type /\ [e EXCEPT !.next = n].runAt = e.runAt
  BY DEF EntryType
<1>4. \A id : TimeOf(id, [e EXCEPT !.next = n]) = TimeOf(id, e)
  BY <1>3 DEF TimeOf
<1> QED BY <1>1, <1>2, <1>3, <1>4

(* The runner that an entry starts. *)
LEMMA StartedRun ==
  ASSUME TypeInv, NEW e \in EntryType
  PROVE  /\ Started(e) \in RunType /\ Started(e).id = e.id /\ Started(e).type = e.type /\ Started(e).gen = e.gen
         /\ Started(e).pc = "get" /\ Started(e).hash = None
BY DEF Started, RunType, EntryType, TypeInv, HashType

(* Nothing about the refreshes depends on what these steps change. *)
LEMMA RefreshesKept ==
  ASSUME TypeInv, refreshes' = refreshes, locker' = locker, edits' = edits,
         clock' \in 0..MaxTime, clock' >= clock
  PROVE  \A i \in Slots : RefreshOK(i)'
<1> SUFFICES ASSUME NEW i \in Slots PROVE RefreshOK(i)'
  OBVIOUS
<1>1. RefreshOK(i) /\ refreshes[i] \in RefreshType
  BY DEF TypeInv
<1>2. refreshes[i].now \in Int /\ clock \in Int /\ clock' \in Int
  BY <1>1, ScheduleAssumption DEF TypeInv, RefreshType
<1> QED BY <1>1, <1>2 DEF RefreshOK

(* The cron loop keeps the types. *)
LEMMA CronKeepsTypes ==
  ASSUME TypeInv, CronRun \/ Fire
  PROVE  TypeInv'
<1>1. CASE CronRun
  <2>1. /\ cronOn' = TRUE /\ entries' = {[e EXCEPT !.next = NextTime(e, clock)] : e \in entries}
        /\ tainted' \in {tainted, tainted \union {"late"}}
        /\ UNCHANGED <<schedules, clock, refreshes, locker, runs, commit, restarts, edits, applied, fired, handled>>
    BY <1>1 DEF CronRun, Mark
  <2>2. entries' \subseteq EntryType
    BY <2>1, Rescheduled DEF TypeInv
  <2>3. \A i \in Slots : RefreshOK(i)'
    BY <2>1 DEF TypeInv, RefreshOK
  <2>4. tainted' \subseteq Reasons
    BY <2>1 DEF TypeInv, Reasons
  <2> QED BY <2>1, <2>2, <2>3, <2>4 DEF TypeInv
<1>2. CASE Fire
  <2>1. /\ runs' = runs \union {Started(e) : e \in Due}
        /\ entries' = (entries \ Due) \union {[e EXCEPT !.next = NextTime(e, clock)] : e \in Due}
        /\ UNCHANGED <<schedules, clock, cronOn, refreshes, locker, commit, restarts, edits, applied, fired, handled, tainted>>
    BY <1>2 DEF Fire
  <2>2. Due \subseteq EntryType
    BY DEF Due, TypeInv
  <2>3. entries' \subseteq EntryType
    BY <2>1, <2>2, Rescheduled DEF TypeInv
  <2>4. runs' \subseteq RunType
    BY <2>1, <2>2, StartedRun DEF TypeInv
  <2>5. \A i \in Slots : RefreshOK(i)'
    BY <2>1 DEF TypeInv, RefreshOK
  <2> QED BY <2>1, <2>3, <2>4, <2>5 DEF TypeInv
<1> QED BY <1>1, <1>2

(* What the steps of a runner change of it: it goes on under the same        *)
(* identifier and number, or ends.                                           *)
Goes(r) ==
  \/ runs' = runs \ {r} /\ r.hash = None
  \/ \E q \in RunType :
       /\ runs' = (runs \ {r}) \union {q} /\ q.id = r.id /\ q.gen = r.gen /\ q.type = r.type
       /\ q.pc \in {"get", "remote"} => q.hash = None
       /\ r.hash \in {None, q.hash}

(* A runner that goes on stays well-formed. *)
LEMMA GoesOn ==
  ASSUME TypeInv, NEW r \in runs, r.pc \in {"get", "remote"} => r.hash = None,
         GetSchedule(r) \/ GetLastRemoteCommitHash(r) \/ SetScheduleCommitHash(r)
  PROVE  Goes(r)
<1>0. r \in RunType
  BY DEF TypeInv
<1>1. CASE GetSchedule(r)
  <2>1. CASE r.id \in DOMAIN schedules
    <3> DEFINE q == [r EXCEPT !.pc = IF schedules[r.id].repo THEN "remote" ELSE "template", !.row = schedules[r.id]]
    <3>1. schedules[r.id] \in Row
      BY <2>1, TableRow DEF TypeInv
    <3>2. q \in RunType /\ q.id = r.id /\ q.gen = r.gen /\ q.type = r.type /\ q.hash = r.hash
      BY <1>0, <3>1 DEF RunType
    <3>3. runs' = (runs \ {r}) \union {q} /\ r.hash = None
      BY <1>1, <2>1 DEF GetSchedule, Step
    <3> HIDE DEF q
    <3> QED BY <3>2, <3>3 DEF Goes
  <2>2. CASE r.id \notin DOMAIN schedules
    BY <1>1, <2>2 DEF GetSchedule, Return, Goes
  <2> QED BY <2>1, <2>2
<1>2. CASE GetLastRemoteCommitHash(r)
  <2> DEFINE q == [r EXCEPT !.pc = "hash", !.hash = commit]
  <2>1. q \in RunType /\ q.id = r.id /\ q.gen = r.gen /\ q.type = r.type /\ q.pc = "hash"
    BY <1>0 DEF RunType, TypeInv, HashType
  <2>2. r.hash = None /\ (runs' = (runs \ {r}) \union {q} \/ runs' = runs \ {r})
    BY <1>2 DEF GetLastRemoteCommitHash, Step, Return
  <2> HIDE DEF q
  <2> QED BY <2>1, <2>2 DEF Goes
<1>3. CASE SetScheduleCommitHash(r)
  <2> DEFINE q == [r EXCEPT !.pc = "template"]
  <2>1. q \in RunType /\ q.id = r.id /\ q.gen = r.gen /\ q.type = r.type /\ q.pc = "template" /\ q.hash = r.hash
    BY <1>0 DEF RunType
  <2>2. runs' = (runs \ {r}) \union {q}
    BY <1>3 DEF SetScheduleCommitHash, Step
  <2> HIDE DEF q
  <2> QED BY <2>1, <2>2 DEF Goes
<1> QED BY <1>1, <1>2, <1>3

(* A runner records the commit in the row of its schedule. *)
LEMMA HashRecorded ==
  ASSUME TypeInv, NEW r \in runs, SetScheduleCommitHash(r)
  PROVE  /\ schedules' \in Tables /\ DOMAIN schedules' = DOMAIN schedules
         /\ \A j \in DOMAIN schedules :
              /\ TimeOf(j, schedules'[j]) = TimeOf(j, schedules[j])
              /\ schedules'[j].repo = schedules[j].repo /\ schedules'[j].active = schedules[j].active
              /\ IF j = r.id THEN schedules'[j].hash = r.hash ELSE schedules'[j] = schedules[j]
<1>0. r.hash \in HashType /\ schedules \in Tables
  BY DEF TypeInv, RunType
<1>1. CASE r.id \in DOMAIN schedules
  <2> DEFINE row == [schedules[r.id] EXCEPT !.hash = r.hash]
  <2>1. schedules[r.id] \in Row
    BY <1>0, <1>1, TableRow
  <2>2. /\ row \in Row /\ TimeOf(r.id, row) = TimeOf(r.id, schedules[r.id]) /\ row.repo = schedules[r.id].repo
        /\ row.active = schedules[r.id].active /\ row.hash = r.hash
    BY <1>0, <2>1, HashEdit
  <2>3. schedules' = UpdateRow(r.id, row)
    BY <1>1 DEF SetScheduleCommitHash
  <2> HIDE DEF row
  <2>4. /\ schedules' \in Tables /\ DOMAIN schedules' = DOMAIN schedules /\ schedules'[r.id] = row
        /\ \A j \in DOMAIN schedules : j # r.id => schedules'[j] = schedules[j]
    BY <1>0, <1>1, <2>2, <2>3, RowUpdated
  <2> QED BY <2>2, <2>4
<1>2. CASE r.id \notin DOMAIN schedules
  <2>1. schedules' = schedules
    BY <1>2 DEF SetScheduleCommitHash
  <2> QED BY <1>0, <1>2, <2>1
<1> QED BY <1>1, <1>2

(* The end of a runner: its run time has its task. *)
Ends(r) ==
  /\ runs' = runs \ {r} /\ Attempt(r)
  /\ tainted' \in {tainted, tainted \union {"template"}}
  /\ StartRefresh \/ refreshes' = refreshes
  /\ UNCHANGED <<schedules, clock, entries, cronOn, locker, commit, restarts, edits, applied>>

(* The steps with which a runner ends: a task, or a template that is gone. *)
LEMMA RunEnds ==
  ASSUME NEW r, GetTemplateFails(r) \/ AddTask(r)
  PROVE  Ends(r)
BY DEF GetTemplateFails, AddTask, Ends, Return, Mark

(* The steps of a runner keep the types: its run time had no task before. *)
LEMMA RunKeepsTypes ==
  ASSUME TypeInv, NEW r \in runs, r.pc \in {"get", "remote"} => r.hash = None,
         r.type = "run_at" => fired[<<r.id, r.gen>>] = 0, RunStep(r)
  PROVE  TypeInv'
<1>0. r \in RunType
  BY DEF TypeInv
<1>1. CASE GetSchedule(r) \/ GetLastRemoteCommitHash(r) \/ SetScheduleCommitHash(r)
  <2>1. runs' \subseteq RunType
    BY <1>1, GoesOn DEF Goes, TypeInv
  <2>2. schedules' \in Tables
    BY <1>1, HashRecorded DEF GetSchedule, GetLastRemoteCommitHash, TypeInv
  <2>3. UNCHANGED <<clock, entries, cronOn, refreshes, locker, commit, restarts, edits, applied, fired, tainted>>
    BY <1>1 DEF GetSchedule, GetLastRemoteCommitHash, SetScheduleCommitHash
  <2>4. \A i \in Slots : RefreshOK(i)'
    BY <2>3 DEF TypeInv, RefreshOK
  <2> QED BY <2>1, <2>2, <2>3, <2>4 DEF TypeInv
<1>2. CASE GetTemplateFails(r) \/ AddTask(r)
  <2>1. Ends(r)
    BY <1>2, RunEnds
  <2>2. fired' \in [Ids \X Gens -> 0..1]
    <3>1. <<r.id, r.gen>> \in Ids \X Gens /\ fired \in [Ids \X Gens -> 0..1]
      BY <1>0 DEF RunType, TypeInv
    <3>2. fired' = IF r.type = "run_at" THEN [fired EXCEPT ![<<r.id, r.gen>>] = fired[<<r.id, r.gen>>] + 1] ELSE fired
      BY <2>1 DEF Ends, Attempt
    <3> QED BY <3>1, <3>2
  <2>3. refreshes' \in [Slots -> RefreshType] /\ \A i \in Slots : RefreshOK(i)'
    <3>1. CASE StartRefresh
      <4>1. locker' = locker /\ clock' = clock /\ edits' \in Gens /\ edits' >= edits
        BY <2>1, ScheduleAssumption DEF Ends, TypeInv, Gens
      <4> QED BY <3>1, <4>1, StartingType
    <3>2. CASE refreshes' = refreshes
      BY <2>1, <3>2 DEF Ends, TypeInv, RefreshOK
    <3> QED BY <2>1, <3>1, <3>2 DEF Ends
  <2>4. tainted' \subseteq Reasons
    BY <2>1 DEF Ends, TypeInv, Reasons
  <2> QED BY <2>1, <2>2, <2>3, <2>4 DEF TypeInv, Ends
<1> QED BY <1>1, <1>2 DEF RunStep

(* Every step keeps the types, as no run time gets a second task. *)
LEMMA TypeStep ==
  ASSUME TypeInv, StartedInv, HashInv, ScheduleNext
  PROVE  TypeInv'
<1>1. CASE \E i \in Slots : RefreshStep(i)
  BY <1>1, RefreshKeepsTypes
<1>2. ASSUME NEW id \in Ids, AddSchedule(id) \/ UpdateSchedule(id) \/ SetScheduleActive(id) \/ RemoveSchedule(id)
      PROVE  TypeInv'
  <2>1. Edit
    BY <1>2, EditStep
  <2>2. edits' \in Gens /\ edits' >= edits /\ applied' \in 0..edits'
    BY <2>1, ScheduleAssumption DEF Edit, TypeInv, Gens
  <2>3. refreshes' \in [Slots -> RefreshType] /\ \A i \in Slots : RefreshOK(i)'
    BY <2>1, <2>2, StartingType DEF Edit
  <2> QED BY <2>1, <2>2, <2>3 DEF Edit, TypeInv
<1>3. CASE CronRun \/ Fire
  BY <1>3, CronKeepsTypes
<1>4. ASSUME NEW r \in runs, RunStep(r) PROVE TypeInv'
  BY <1>4, RunKeepsTypes DEF StartedInv, HashInv
<1>5. CASE Push
  <2>1. /\ commit' \in 0..MaxCommits
        /\ UNCHANGED <<schedules, clock, entries, cronOn, refreshes, locker, runs, edits, applied, fired, tainted>>
    BY <1>5, ScheduleAssumption DEF Push, TypeInv
  <2> QED BY <2>1 DEF TypeInv, RefreshOK
<1>6. CASE Tick
  <2>1. /\ clock' \in 0..MaxTime /\ clock' >= clock
        /\ UNCHANGED <<schedules, entries, cronOn, refreshes, locker, runs, commit, edits, applied, fired, tainted>>
    BY <1>6, ScheduleAssumption DEF Tick, TypeInv
  <2>2. \A i \in Slots : RefreshOK(i)'
    BY <2>1, RefreshesKept
  <2> QED BY <2>1, <2>2 DEF TypeInv
<1>7. CASE Restart
  <2>1. /\ cronOn' = FALSE /\ entries' = {} /\ runs' = {} /\ locker' = Nobody
        /\ refreshes' = [i \in Slots |-> IF i = FirstSlot THEN Reading ELSE Idle]
        /\ UNCHANGED <<schedules, clock, commit, edits, applied, fired, tainted>>
    BY <1>7 DEF Restart
  <2>2. refreshes' \in [Slots -> RefreshType]
    BY <2>1, IdleReading
  <2>3. ASSUME NEW i \in Slots PROVE RefreshOK(i)'
    <3>1. refreshes'[i] \in {Reading, Idle} /\ locker' # i /\ edits' \in Nat /\ clock' \in Nat
      BY <2>1, ScheduleAssumption DEF TypeInv, Gens
    <3> QED BY <3>1, IdleReading DEF RefreshOK
  <2> QED BY <2>1, <2>2, <2>3 DEF TypeInv
<1> QED BY <1>1, <1>2, <1>3, <1>4, <1>5, <1>6, <1>7 DEF ScheduleNext

-----------------------------------------------------------------------------
(* Commits. *)

(* No step passes over a commit: a hash is recorded by a runner that keeps   *)
(* it until the commit counts as handled.                                    *)
LEMMA HashStep ==
  ASSUME TypeInv, HashInv, ScheduleNext
  PROVE  HashInv'
<1> DEFINE Covered(id, h, H, Q) == h = None \/ <<id, h>> \in H \/ \E r \in Q : r.id = id /\ r.hash = h
<1>0. \A id \in DOMAIN schedules : Covered(id, schedules[id].hash, handled, runs)
  BY DEF HashInv, CommitNotSkipped
<1>1. ASSUME \A id \in DOMAIN schedules' : Covered(id, schedules'[id].hash, handled', runs'),
             \A r \in runs' : r.pc \in {"get", "remote"} => r.hash = None
      PROVE  HashInv'
  BY <1>1 DEF HashInv, CommitNotSkipped
<1>2. ASSUME runs' = runs, handled' = handled,
             \A id \in DOMAIN schedules' :
               schedules'[id].hash = None \/ (id \in DOMAIN schedules /\ schedules'[id].hash = schedules[id].hash)
      PROVE  HashInv'
  <2>1. \A id \in DOMAIN schedules' : Covered(id, schedules'[id].hash, handled', runs')
    BY <1>0, <1>2
  <2> HIDE DEF Covered
  <2> QED BY <1>1, <1>2, <2>1 DEF HashInv
<1>3. ASSUME NEW i \in Slots, RefreshStep(i) PROVE HashInv'
  <2>1. CASE GetSchedules(i) \/ Lock(i) \/ Unlock(i)
    <3>1. UNCHANGED <<schedules, runs, handled>>
      BY <2>1 DEF GetSchedules, Lock, Unlock
    <3> QED BY <1>2, <3>1
  <2>2. ASSUME NEW id \in Ids, RefreshRow(i, id) PROVE HashInv'
    <3>1. RowDone(i, id) /\ (SkipRow(i, id) \/ AddRow(i, id) \/ EndRow(i, id))
      BY <2>2, RowStep
    <3>2. runs' = runs /\ handled' = handled /\ refreshes[i].rows[id] \in Row
      BY <3>1, RowDoneIs
    <3>3. CASE SkipRow(i, id) \/ AddRow(i, id)
      <4>1. schedules' = schedules
        BY <3>3 DEF SkipRow, AddRow
      <4> QED BY <1>2, <3>2, <4>1
    <3>4. CASE EndRow(i, id)
      <4>1. schedules' = Consume(id, refreshes[i].rows[id])
        BY <3>4 DEF EndRow
      <4>2. \A j \in DOMAIN schedules' : j \in DOMAIN schedules /\ schedules'[j].hash = schedules[j].hash
        BY <3>2, <4>1, Consumed DEF TypeInv
      <4> QED BY <1>2, <3>2, <4>2
    <3> QED BY <3>1, <3>3, <3>4
  <2> QED BY <1>3, <2>1, <2>2 DEF RefreshStep
<1>4. ASSUME NEW id \in Ids, AddSchedule(id) \/ UpdateSchedule(id) \/ SetScheduleActive(id) \/ RemoveSchedule(id)
      PROVE  HashInv'
  <2>1. Edit
    BY <1>4, EditStep
  <2> QED BY <1>2, <2>1 DEF Edit
<1>5. CASE CronRun \/ Push \/ Tick
  <2>1. UNCHANGED <<schedules, runs, handled>>
    BY <1>5 DEF CronRun, Push, Tick
  <2> QED BY <1>2, <2>1
<1>6. CASE Fire
  <2>1. runs' = runs \union {Started(e) : e \in Due} /\ schedules' = schedules /\ handled' = handled
    BY <1>6 DEF Fire
  <2>2. \A id \in DOMAIN schedules' : Covered(id, schedules'[id].hash, handled', runs')
    BY <1>0, <2>1
  <2>3. \A r \in runs' : r.pc \in {"get", "remote"} => r.hash = None
    BY <2>1, StartedRun DEF HashInv, TypeInv, Due
  <2> HIDE DEF Covered
  <2> QED BY <1>1, <2>2, <2>3
<1>7. ASSUME NEW r \in runs, GetSchedule(r) \/ GetLastRemoteCommitHash(r) \/ SetScheduleCommitHash(r)
      PROVE  HashInv'
  <2>1. Goes(r)
    BY <1>7, GoesOn DEF HashInv
  <2>2. handled' = handled
    BY <1>7 DEF GetSchedule, GetLastRemoteCommitHash, SetScheduleCommitHash
  <2>3. DOMAIN schedules' = DOMAIN schedules
        /\ \A j \in DOMAIN schedules : schedules'[j].hash = schedules[j].hash \/ (j = r.id /\ schedules'[j].hash = r.hash)
    BY <1>7, HashRecorded DEF GetSchedule, GetLastRemoteCommitHash
  <2>4. ASSUME NEW j \in DOMAIN schedules, NEW h, Covered(j, h, handled, runs) \/ (j = r.id /\ h = r.hash)
        PROVE  Covered(j, h, handled, runs')
    BY <2>1, <2>4 DEF Goes
  <2>5. \A j \in DOMAIN schedules' : Covered(j, schedules'[j].hash, handled', runs')
    <3> HIDE DEF Covered
    <3> QED BY <1>0, <2>2, <2>3, <2>4
  <2>6. \A q \in runs' : q.pc \in {"get", "remote"} => q.hash = None
    BY <2>1 DEF Goes, HashInv
  <2> HIDE DEF Covered
  <2> QED BY <1>1, <2>5, <2>6
<1>8. ASSUME NEW r \in runs, GetTemplateFails(r) \/ AddTask(r) PROVE HashInv'
  <2>1. Ends(r)
    BY <1>8, RunEnds
  <2>2. runs' = runs \ {r} /\ schedules' = schedules /\ handled \subseteq handled'
        /\ (r.hash = None \/ <<r.id, r.hash>> \in handled')
    BY <2>1 DEF Ends, Attempt
  <2>3. \A j \in DOMAIN schedules' : Covered(j, schedules'[j].hash, handled', runs')
    BY <1>0, <2>2
  <2>4. \A q \in runs' : q.pc \in {"get", "remote"} => q.hash = None
    BY <2>2 DEF HashInv
  <2> HIDE DEF Covered
  <2> QED BY <1>1, <2>3, <2>4
<1>9. CASE Restart
  <2>1. /\ runs' = {} /\ schedules' = schedules
        /\ handled' = handled \union {<<r.id, r.hash>> : r \in {q \in runs : q.hash # None}}
    BY <1>9 DEF Restart
  <2>2. \A j \in DOMAIN schedules' : Covered(j, schedules'[j].hash, handled', runs')
    BY <1>0, <2>1
  <2>3. \A q \in runs' : q.pc \in {"get", "remote"} => q.hash = None
    BY <2>1
  <2> HIDE DEF Covered
  <2> QED BY <1>1, <2>2, <2>3
<1> HIDE DEF Covered
<1> QED BY <1>3, <1>4, <1>5, <1>6, <1>7, <1>8, <1>9 DEF ScheduleNext, RunStep

-----------------------------------------------------------------------------
(* Entries. *)

(* The next time of an entry, computed from the clock while cron runs. *)
LEMMA ComputedNext ==
  ASSUME TypeInv, NEW e \in EntryType, e.next = NextTime(e, clock)
  PROVE  /\ e.type = "cron" => e.next > 0
         /\ e.type # "cron" => e.next = e.runAt \/ (e.next = Never /\ e.runAt <= clock)
         /\ e.type # "cron" /\ e.runAt <= clock => e.next = Never
BY ScheduleAssumption DEF TypeInv, EntryType, NextTime

(* Each entry waits for the right time, and a schedule has one at most. *)
LEMMA EntriesStep ==
  ASSUME TypeInv, EntriesInv, BuildInv, ScheduleNext
  PROVE  EntriesInv'
<1>1. CASE UNCHANGED <<entries, cronOn, clock>>
  BY <1>1 DEF EntriesInv, NextOK
<1>2. CASE entries' = {}
  BY <1>2 DEF EntriesInv
<1>3. ASSUME NEW i \in Slots, RefreshStep(i) PROVE EntriesInv'
  <2>1. CASE GetSchedules(i) \/ Unlock(i)
    <3>1. UNCHANGED <<entries, cronOn, clock>>
      BY <2>1 DEF GetSchedules, Unlock
    <3> QED BY <1>1, <3>1
  <2>2. CASE Lock(i)
    <3>1. entries' = {}
      BY <2>2 DEF Lock, ClearAndRead
    <3> QED BY <1>2, <3>1
  <2>3. ASSUME NEW id \in Ids, RefreshRow(i, id) PROVE EntriesInv'
    <3>1. RowDone(i, id) /\ (SkipRow(i, id) \/ AddRow(i, id) \/ EndRow(i, id))
      BY <2>3, RowStep
    <3>2. cronOn' = cronOn /\ clock' = clock /\ refreshes[i].rows[id] \in Row /\ locker = i /\ id \in refreshes[i].todo
      BY <3>1, RowDoneIs DEF RowDone
    <3>3. CASE SkipRow(i, id) \/ EndRow(i, id)
      <4>1. entries' = entries
        BY <3>3 DEF SkipRow, EndRow
      <4> QED BY <1>1, <3>2, <4>1
    <3>4. CASE AddRow(i, id)
      <4>1. AddEntry(Entry(id, refreshes[i].rows[id]))
        BY <3>4 DEF AddRow
      <4>2. PICK e \in EntryType :
              /\ entries' = entries \union {e} /\ e.id = id
              /\ e.next = IF cronOn THEN NextTime(e, clock) ELSE None
        BY <3>2, <4>1, NewEntry
      <4>3. \A x \in entries : x.id # id
        BY <3>2 DEF BuildInv, Building
      <4>4. IF ~cronOn THEN e.next = None
            ELSE IF e.type = "cron" THEN e.next > 0
            ELSE e.next = e.runAt \/ (e.next = Never /\ e.runAt <= clock)
        BY <4>2, ComputedNext DEF TypeInv
      <4> QED BY <3>2, <4>2, <4>3, <4>4 DEF EntriesInv, NextOK
    <3> QED BY <3>1, <3>3, <3>4
  <2> QED BY <1>3, <2>1, <2>2, <2>3 DEF RefreshStep
<1>4. ASSUME NEW id \in Ids, AddSchedule(id) \/ UpdateSchedule(id) \/ SetScheduleActive(id) \/ RemoveSchedule(id)
      PROVE  EntriesInv'
  <2>1. Edit
    BY <1>4, EditStep
  <2> QED BY <1>1, <2>1 DEF Edit
<1>5. CASE CronRun
  <2>1. cronOn' = TRUE /\ clock' = clock /\ entries' = {[e EXCEPT !.next = NextTime(e, clock)] : e \in entries}
    BY <1>5 DEF CronRun
  <2>2. ASSUME NEW x \in entries'
        PROVE  \E e \in entries : x = [e EXCEPT !.next = NextTime(e, clock)] /\ x.id = e.id /\ x \in EntryType /\ x.next = NextTime(x, clock)
    <3>1. PICK e \in entries : x = [e EXCEPT !.next = NextTime(e, clock)]
      BY <2>1, <2>2
    <3>2. x \in EntryType /\ x.id = e.id /\ x.type = e.type /\ x.runAt = e.runAt /\ x.next = NextTime(e, clock)
      BY <3>1, Rescheduled DEF TypeInv
    <3> QED BY <3>1, <3>2 DEF NextTime
  <2>3. \A x \in entries' : NextOK(x)'
    BY <2>1, <2>2, ComputedNext DEF NextOK
  <2>4. \A x, y \in entries' : x.id = y.id => x = y
    BY <2>2 DEF EntriesInv
  <2> QED BY <2>3, <2>4 DEF EntriesInv
<1>6. CASE Fire
  <2>1. /\ cronOn = TRUE /\ cronOn' = TRUE /\ clock' = clock
        /\ entries' = (entries \ Due) \union {[e EXCEPT !.next = NextTime(e, clock)] : e \in Due}
    BY <1>6 DEF Fire, TypeInv
  <2>2. ASSUME NEW x \in entries'
        PROVE  \E e \in entries :
                 /\ x.id = e.id
                 /\ \/ x = e /\ e \notin Due
                    \/ e \in Due /\ x = [e EXCEPT !.next = NextTime(e, clock)] /\ x \in EntryType /\ x.next = NextTime(x, clock)
    <3>1. CASE x \in entries \ Due
      BY <3>1
    <3>2. CASE x \notin entries \ Due
      <4>1. PICK e \in Due : x = [e EXCEPT !.next = NextTime(e, clock)]
        BY <2>1, <2>2, <3>2
      <4>2. e \in entries /\ e \in EntryType
        BY DEF Due, TypeInv
      <4>3. x \in EntryType /\ x.id = e.id /\ x.type = e.type /\ x.runAt = e.runAt /\ x.next = NextTime(e, clock)
        BY <4>1, <4>2, Rescheduled
      <4> QED BY <4>1, <4>2, <4>3 DEF NextTime
    <3> QED BY <3>1, <3>2
  <2>3. \A x \in entries' : NextOK(x)'
    BY <2>1, <2>2, ComputedNext DEF NextOK, EntriesInv
  <2>4. \A x, y \in entries' : x.id = y.id => x = y
    BY <2>2 DEF EntriesInv
  <2> QED BY <2>3, <2>4 DEF EntriesInv
<1>7. ASSUME NEW r \in runs, RunStep(r) PROVE EntriesInv'
  <2>1. UNCHANGED <<entries, cronOn, clock>>
    BY <1>7 DEF RunStep, GetSchedule, GetLastRemoteCommitHash, SetScheduleCommitHash, GetTemplateFails, AddTask
  <2> QED BY <1>1, <2>1
<1>8. CASE Push
  BY <1>1, <1>8 DEF Push
<1>9. CASE Tick
  <2>1. entries' = entries /\ cronOn' = cronOn /\ clock' = clock + 1 /\ clock \in Int
    BY <1>9, ScheduleAssumption DEF Tick, TypeInv
  <2>2. \A e \in entries : e.runAt \in Int
    BY ScheduleAssumption DEF TypeInv, EntryType
  <2> QED BY <2>1, <2>2 DEF EntriesInv, NextOK
<1>10. CASE Restart
  <2>1. entries' = {}
    BY <1>10 DEF Restart
  <2> QED BY <1>2, <2>1
<1> QED BY <1>3, <1>4, <1>5, <1>6, <1>7, <1>8, <1>9, <1>10 DEF ScheduleNext

-----------------------------------------------------------------------------
(* Times: a number stands for one time wherever it is kept. *)

(* The times around are those of the table, of the refreshes and of the      *)
(* entries.                                                                  *)
LEMMA TimesOf ==
  ASSUME NEW T, NEW R, NEW E
  PROVE  /\ \A id \in DOMAIN T : TimeOf(id, T[id]) \in Times(T, R, E)
         /\ \A i \in Slots : \A id \in DOMAIN R[i].rows : TimeOf(id, R[i].rows[id]) \in Times(T, R, E)
         /\ \A e \in E : TimeOf(e.id, e) \in Times(T, R, E)
         /\ \A x \in Times(T, R, E) :
              \/ \E id \in DOMAIN T : x = TimeOf(id, T[id])
              \/ \E i \in Slots : \E id \in DOMAIN R[i].rows : x = TimeOf(id, R[i].rows[id])
              \/ \E e \in E : x = TimeOf(e.id, e)
<1>1. \A U : \A x : x \in TableTimes(U) <=> \E id \in DOMAIN U : x = TimeOf(id, U[id])
  BY DEF TableTimes
<1>2. \A x : x \in RefreshesTimes(R) <=> \E i \in Slots : x \in TableTimes(R[i].rows)
  BY DEF RefreshesTimes
<1>3. \A x : x \in EntryTimes(E) <=> \E e \in E : x = TimeOf(e.id, e)
  BY DEF EntryTimes
<1>4. \A x : x \in Times(T, R, E) <=> x \in TableTimes(T) \/ x \in RefreshesTimes(R) \/ x \in EntryTimes(E)
  BY DEF Times
<1>6. \A id \in DOMAIN T : TimeOf(id, T[id]) \in Times(T, R, E)
  BY <1>1, <1>4
<1>7. \A i \in Slots : \A id \in DOMAIN R[i].rows : TimeOf(id, R[i].rows[id]) \in Times(T, R, E)
  BY <1>1, <1>2, <1>4
<1>8. \A e \in E : TimeOf(e.id, e) \in Times(T, R, E)
  BY <1>3, <1>4
<1>9. ASSUME NEW x \in Times(T, R, E)
      PROVE  \/ \E id \in DOMAIN T : x = TimeOf(id, T[id])
             \/ \E i \in Slots : \E id \in DOMAIN R[i].rows : x = TimeOf(id, R[i].rows[id])
             \/ \E e \in E : x = TimeOf(e.id, e)
  BY <1>1, <1>2, <1>3, <1>4
<1> QED BY <1>6, <1>7, <1>8, <1>9, Zenon

(* The times after a step. *)
LEMMA TimesAfter ==
  ASSUME NEW x \in Times(schedules', refreshes', entries')
  PROVE  \/ \E id \in DOMAIN schedules' : x = TimeOf(id, schedules'[id])
         \/ \E j \in Slots : \E id \in DOMAIN refreshes'[j].rows : x = TimeOf(id, refreshes'[j].rows[id])
         \/ \E e \in entries' : x = TimeOf(e.id, e)
BY TimesOf

(* The fields of a time. *)
LEMMA TimeFields ==
  ASSUME NEW id, NEW s
  PROVE  /\ TimeOf(id, s).id = id /\ TimeOf(id, s).gen = s.gen
         /\ TimeOf(id, s).type = s.type /\ TimeOf(id, s).runAt = s.runAt
BY DEF TimeOf

(* Every time around is well-formed. *)
LEMMA TimesTyped ==
  ASSUME TypeInv, NEW x \in Times(schedules, refreshes, entries)
  PROVE  x.id \in Ids /\ x.gen \in Gens /\ x.type \in Types /\ x.runAt \in 0..MaxTime
<1>1. ASSUME NEW id \in Ids, NEW s \in Row, x = TimeOf(id, s)
      PROVE  x.id \in Ids /\ x.gen \in Gens /\ x.type \in Types /\ x.runAt \in 0..MaxTime
  BY <1>1, TimeFields DEF Row, Types
<1>2. CASE \E id \in DOMAIN schedules : x = TimeOf(id, schedules[id])
  BY <1>1, <1>2, TableRow DEF TypeInv
<1>3. CASE \E i \in Slots : \E id \in DOMAIN refreshes[i].rows : x = TimeOf(id, refreshes[i].rows[id])
  BY <1>1, <1>3, RowOf
<1>4. CASE \E e \in entries : x = TimeOf(e.id, e)
  BY <1>4, TimeFields DEF TypeInv, EntryType
<1> QED BY <1>2, <1>3, <1>4, TimesOf

(* The steps that keep or drop times keep the invariant. *)
LEMMA TimesFewer ==
  ASSUME TypeInv, TimesInv,
         Times(schedules', refreshes', entries') \subseteq Times(schedules, refreshes, entries),
         edits' \in Int, edits' >= edits, clock' \in Int, clock' >= clock,
         \A id \in Ids, g \in Gens : Begun(id, g, fired', runs') => Begun(id, g, fired, runs)
  PROVE  TimesInv'
<1>0. edits \in Int /\ clock \in Int /\ \A g \in Gens : g \in Int
  BY ScheduleAssumption DEF TypeInv, Gens
<1>1. \A x \in Times(schedules', refreshes', entries') :
        x \in Times(schedules, refreshes, entries) /\ x.id \in Ids /\ x.gen \in Gens /\ x.runAt \in Int
  BY TimesTyped, ScheduleAssumption
<1>2. \A x \in Times(schedules', refreshes', entries') : x.gen <= edits'
  BY <1>0, <1>1 DEF TimesInv
<1>3. \A x, y \in Times(schedules', refreshes', entries') : x.id = y.id /\ x.gen = y.gen => x = y
  BY <1>1 DEF TimesInv
<1>4. \A x \in Times(schedules', refreshes', entries') :
        x.type = "run_at" /\ Begun(x.id, x.gen, fired', runs') => x.runAt <= clock'
  BY <1>0, <1>1 DEF TimesInv
<1>5. \A id \in Ids, g \in Gens : Begun(id, g, fired', runs') => g <= edits'
  BY <1>0 DEF TimesInv
<1> QED BY <1>2, <1>3, <1>4, <1>5 DEF TimesInv

(* One refresh gets rows whose times are around. *)
LEMMA RefreshTimes ==
  ASSUME TypeInv, NEW i \in Slots, NEW f, refreshes' = [refreshes EXCEPT ![i] = f],
         f.rows \in {refreshes[i].rows, schedules, NoRows},
         \A id \in DOMAIN schedules' : id \in DOMAIN schedules /\ TimeOf(id, schedules'[id]) = TimeOf(id, schedules[id]),
         \A e \in entries' : TimeOf(e.id, e) \in Times(schedules, refreshes, entries)
  PROVE  Times(schedules', refreshes', entries') \subseteq Times(schedules, refreshes, entries)
<1>1. ASSUME NEW j \in Slots, NEW id \in DOMAIN refreshes'[j].rows
      PROVE  TimeOf(id, refreshes'[j].rows[id]) \in Times(schedules, refreshes, entries)
  <2>1. CASE j # i
    <3>1. refreshes'[j] = refreshes[j]
      BY <2>1 DEF TypeInv
    <3> QED BY <1>1, <3>1, TimesOf
  <2>2. CASE j = i
    <3>1. refreshes'[j] = f
      BY <2>2 DEF TypeInv
    <3> QED BY <1>1, <2>2, <3>1, TimesOf, EmptyTable
  <2> QED BY <2>1, <2>2
<1>2. \A id \in DOMAIN schedules' : TimeOf(id, schedules'[id]) \in Times(schedules, refreshes, entries)
  BY TimesOf
<1> SUFFICES ASSUME NEW x \in Times(schedules', refreshes', entries')
             PROVE  x \in Times(schedules, refreshes, entries)
  OBVIOUS
<1>3. \/ \E id \in DOMAIN schedules' : x = TimeOf(id, schedules'[id])
      \/ \E j \in Slots : \E id \in DOMAIN refreshes'[j].rows : x = TimeOf(id, refreshes'[j].rows[id])
      \/ \E e \in entries' : x = TimeOf(e.id, e)
  BY TimesAfter
<1> QED BY <1>1, <1>2, <1>3

(* The refreshes are left alone. *)
LEMMA SameRefreshTimes ==
  ASSUME TypeInv, refreshes' = refreshes,
         \A id \in DOMAIN schedules' : id \in DOMAIN schedules /\ TimeOf(id, schedules'[id]) = TimeOf(id, schedules[id]),
         \A e \in entries' : TimeOf(e.id, e) \in Times(schedules, refreshes, entries)
  PROVE  Times(schedules', refreshes', entries') \subseteq Times(schedules, refreshes, entries)
<1> SUFFICES ASSUME NEW x \in Times(schedules', refreshes', entries')
             PROVE  x \in Times(schedules, refreshes, entries)
  OBVIOUS
<1>3. \/ \E id \in DOMAIN schedules' : x = TimeOf(id, schedules'[id])
      \/ \E j \in Slots : \E id \in DOMAIN refreshes'[j].rows : x = TimeOf(id, refreshes'[j].rows[id])
      \/ \E e \in entries' : x = TimeOf(e.id, e)
  BY TimesOf
<1> QED BY <1>3, TimesOf

(* Steps that start no runner, and lose none whose time counts. *)
LEMMA BegunKept ==
  ASSUME fired' = fired, runs' \subseteq runs \/ \E r \in runs : Goes(r)
  PROVE  \A id \in Ids, g \in Gens : Begun(id, g, fired', runs') => Begun(id, g, fired, runs)
BY DEF Begun, Goes

(* A refresh brings no new times. *)
LEMMA RefreshKeepsTimes ==
  ASSUME TypeInv, TimesInv, NEW i \in Slots, RefreshStep(i)
  PROVE  TimesInv'
<1>0. edits \in Int /\ clock \in Int /\ edits >= edits /\ clock >= clock
  BY ScheduleAssumption DEF TypeInv, Gens
<1>1. ASSUME UNCHANGED <<edits, clock, fired, runs>>,
             Times(schedules', refreshes', entries') \subseteq Times(schedules, refreshes, entries)
      PROVE  TimesInv'
  BY <1>0, <1>1, TimesFewer
<1>2. CASE GetSchedules(i)
  <2>1. PICK f \in RefreshType :
           /\ refreshes' = [refreshes EXCEPT ![i] = f] /\ f.rows = schedules
           /\ UNCHANGED <<schedules, clock, entries, runs, edits, fired>>
    BY <1>2, GetSchedulesIs
  <2>2. \A e \in entries' : TimeOf(e.id, e) \in Times(schedules, refreshes, entries)
    BY <2>1, TimesOf
  <2> QED BY <1>1, <2>1, <2>2, RefreshTimes
<1>3. CASE Lock(i)
  <2>1. PICK f \in RefreshType :
           /\ refreshes' = [refreshes EXCEPT ![i] = f] /\ f.rows = refreshes[i].rows /\ entries' = {}
           /\ UNCHANGED <<schedules, clock, runs, edits, fired>>
    BY <1>3, LockIs
  <2> QED BY <1>1, <2>1, RefreshTimes
<1>4. ASSUME NEW id \in Ids, RefreshRow(i, id) PROVE TimesInv'
  <2>0. RowDone(i, id) /\ (SkipRow(i, id) \/ AddRow(i, id) \/ EndRow(i, id))
    BY <1>4, RowStep
  <2>1. PICK f \in RefreshType :
           /\ refreshes' = [refreshes EXCEPT ![i] = f] /\ f.rows = refreshes[i].rows
           /\ id \in DOMAIN refreshes[i].rows /\ refreshes[i].rows[id] \in Row
           /\ UNCHANGED <<clock, runs, edits, fired>>
    BY <2>0, RowDoneIs
  <2>2. \A e \in entries : TimeOf(e.id, e) \in Times(schedules, refreshes, entries)
    BY TimesOf
  <2>3. CASE SkipRow(i, id)
    <3>1. schedules' = schedules /\ entries' = entries
      BY <2>3 DEF SkipRow
    <3> QED BY <1>1, <2>1, <2>2, <3>1, RefreshTimes
  <2>4. CASE AddRow(i, id)
    <3>1. AddEntry(Entry(id, refreshes[i].rows[id])) /\ schedules' = schedules
      BY <2>4 DEF AddRow
    <3>2. PICK e \in EntryType : entries' = entries \union {e} /\ e.id = id /\ TimeOf(id, e) = TimeOf(id, refreshes[i].rows[id])
      BY <2>1, <3>1, NewEntry
    <3>3. TimeOf(e.id, e) \in Times(schedules, refreshes, entries)
      BY <2>1, <3>2, TimesOf
    <3>4. \A x \in entries' : TimeOf(x.id, x) \in Times(schedules, refreshes, entries)
      BY <2>2, <3>2, <3>3
    <3> QED BY <1>1, <2>1, <3>1, <3>4, RefreshTimes
  <2>5. CASE EndRow(i, id)
    <3>1. schedules' = Consume(id, refreshes[i].rows[id]) /\ entries' = entries
      BY <2>5 DEF EndRow
    <3>2. \A j \in DOMAIN schedules' : j \in DOMAIN schedules /\ TimeOf(j, schedules'[j]) = TimeOf(j, schedules[j])
      BY <2>1, <3>1, Consumed DEF TypeInv
    <3> QED BY <1>1, <2>1, <2>2, <3>1, <3>2, RefreshTimes
  <2> QED BY <2>0, <2>3, <2>4, <2>5
<1>5. CASE Unlock(i)
  <2>1. /\ refreshes' = [refreshes EXCEPT ![i] = Idle]
        /\ UNCHANGED <<schedules, clock, entries, runs, edits, fired>>
    BY <1>5, UnlockIs
  <2>2. \A e \in entries' : TimeOf(e.id, e) \in Times(schedules, refreshes, entries)
    BY <2>1, TimesOf
  <2>3. Idle.rows = NoRows
    BY IdleReading
  <2> QED BY <1>1, <2>1, <2>2, <2>3, RefreshTimes
<1> QED BY <1>2, <1>3, <1>4, <1>5 DEF RefreshStep

(* An edit brings times under a number that nobody knows yet. *)
LEMMA EditTimes ==
  ASSUME TypeInv, TimesInv, Edit
  PROVE  TimesInv'
<1>0. edits \in Int /\ edits' = edits + 1 /\ \A g \in Gens : g \in Int
  BY ScheduleAssumption DEF TypeInv, Gens, Edit
<1> DEFINE TT == Times(schedules, refreshes, entries)
           TN == Times(schedules', refreshes', entries')
<1>1. \A x \in TN : x \in TT \/ (x.gen = edits + 1 /\ \E id \in DOMAIN schedules' : x = TimeOf(id, schedules'[id]))
  <2> SUFFICES ASSUME NEW x \in TN, x \notin TT
               PROVE  x.gen = edits + 1 /\ \E id \in DOMAIN schedules' : x = TimeOf(id, schedules'[id])
    OBVIOUS
  <2>1. PICK j \in Slots : refreshes' = [refreshes EXCEPT ![j] = Reading]
    BY Starting DEF Edit
  <2>2. ~ \E i \in Slots : \E id \in DOMAIN refreshes'[i].rows : x = TimeOf(id, refreshes'[i].rows[id])
    <3> SUFFICES ASSUME NEW i \in Slots, NEW id \in DOMAIN refreshes'[i].rows PROVE x # TimeOf(id, refreshes'[i].rows[id])
      OBVIOUS
    <3>1. i # j /\ refreshes'[i] = refreshes[i]
      BY <2>1, IdleReading, EmptyTable DEF TypeInv
    <3> QED BY <3>1, TimesOf
  <2>3. ~ \E e \in entries' : x = TimeOf(e.id, e)
    BY TimesOf DEF Edit
  <2>4. PICK id \in DOMAIN schedules' : x = TimeOf(id, schedules'[id])
    BY <2>2, <2>3, TimesOf
  <2>5. ~(id \in DOMAIN schedules /\ TimeOf(id, schedules'[id]) = TimeOf(id, schedules[id]))
    BY <2>4, TimesOf
  <2>6. schedules'[id].gen = edits + 1
    BY <2>5 DEF Edit
  <2> QED BY <2>4, <2>6, TimeFields
<1>2. \A x \in TT : x.gen \in Int /\ x.gen <= edits /\ x.id \in Ids /\ x.gen \in Gens
  BY <1>0, TimesTyped DEF TimesInv
<1>3. \A x \in TN : x.gen <= edits'
  BY <1>0, <1>1, <1>2
<1>4. ASSUME NEW x \in TN, NEW y \in TN, x.id = y.id, x.gen = y.gen PROVE x = y
  <2>1. CASE x \in TT /\ y \in TT
    BY <1>4, <2>1 DEF TimesInv
  <2>2. CASE x.gen = edits + 1 \/ y.gen = edits + 1
    <3>1. x \notin TT /\ y \notin TT
      BY <1>0, <1>2, <1>4, <2>2
    <3>2. PICK a \in DOMAIN schedules', b \in DOMAIN schedules' : x = TimeOf(a, schedules'[a]) /\ y = TimeOf(b, schedules'[b])
      BY <1>1, <3>1
    <3> QED BY <1>4, <3>2, TimeFields
  <2> QED BY <1>1, <2>1, <2>2
<1>5. UNCHANGED <<fired, runs, clock>>
  BY DEF Edit
<1>6. ASSUME NEW x \in TN, x.type = "run_at", Begun(x.id, x.gen, fired, runs) PROVE x.runAt <= clock
  <2>1. x \in TT
    <3>1. CASE x \notin TT
      <4>1. x.gen = edits + 1 /\ x.gen \in Gens /\ x.id \in Ids
        <5>1. x.gen = edits + 1 /\ edits + 1 \in Gens
          BY <1>1, <3>1, ScheduleAssumption DEF Edit, TypeInv, Gens
        <5>2. PICK id \in DOMAIN schedules' : x = TimeOf(id, schedules'[id])
          BY <1>1, <3>1
        <5>3. id \in Ids
          BY TableRow DEF Edit
        <5> QED BY <5>1, <5>2, <5>3, TimeFields
      <4> QED BY <1>0, <1>6, <4>1 DEF TimesInv
    <3> QED BY <3>1
  <2> QED BY <1>6, <2>1 DEF TimesInv
<1>7. \A id \in Ids, g \in Gens : Begun(id, g, fired, runs) => g <= edits'
  BY <1>0 DEF TimesInv
<1> QED BY <1>3, <1>4, <1>5, <1>6, <1>7 DEF TimesInv

(* An entry that fires has reached its run time, and had not fired before. *)
LEMMA DueOnce ==
  ASSUME TypeInv, EntriesInv, StartedInv, cronOn = TRUE, NEW e \in Due, e.type = "run_at"
  PROVE  e.runAt <= clock /\ ~Begun(e.id, e.gen, fired, runs)
<1>1. e \in entries /\ e \in EntryType /\ e.next <= clock
  BY DEF Due, TypeInv
<1>2. e.next = e.runAt \/ (e.next = Never /\ e.runAt <= clock)
  BY <1>1 DEF EntriesInv, NextOK
<1>3. e.runAt \in Nat /\ clock \in Nat /\ clock < Never /\ e.runAt < Never /\ None < 0 /\ None \in Int /\ Never \in Int
  BY <1>1, ScheduleAssumption DEF TypeInv, EntryType, Never, None
<1>4. e.next = e.runAt /\ e.runAt <= clock
  BY <1>1, <1>2, <1>3
<1>5. e.next \notin {None, Never}
  BY <1>3, <1>4
<1> QED BY <1>1, <1>4, <1>5 DEF StartedInv

(* What a firing starts. *)
LEMMA FireStarts ==
  ASSUME TypeInv, Fire
  PROVE  /\ cronOn = TRUE /\ cronOn' = TRUE /\ fired' = fired /\ Due \subseteq entries /\ entries \subseteq EntryType
         /\ runs' = runs \union {Started(e) : e \in Due}
         /\ \A id, g : Begun(id, g, fired', runs') =>
              \/ Begun(id, g, fired, runs)
              \/ \E e \in Due : e.type = "run_at" /\ e.id = id /\ e.gen = g
         /\ UNCHANGED <<schedules, refreshes, locker, clock, edits, applied, tainted>>
         /\ \A x \in entries' : \E e \in entries :
              /\ x.id = e.id /\ TimeOf(x.id, x) = TimeOf(e.id, e) /\ x.type = e.type /\ x.gen = e.gen /\ x.runAt = e.runAt
              /\ x \in EntryType
              /\ (x = e /\ e \notin Due) \/ (e \in Due /\ x.next = NextTime(x, clock))
         /\ \A e \in entries : \E x \in entries' : x.id = e.id /\ TimeOf(x.id, x) = TimeOf(e.id, e)
<1>1. /\ cronOn = TRUE /\ cronOn' = TRUE /\ fired' = fired /\ runs' = runs \union {Started(e) : e \in Due}
      /\ Due \subseteq entries /\ entries \subseteq EntryType
      /\ entries' = (entries \ Due) \union {[e EXCEPT !.next = NextTime(e, clock)] : e \in Due}
      /\ UNCHANGED <<schedules, refreshes, locker, clock, edits, applied, tainted>>
  BY DEF Fire, Due, TypeInv
<1>2. ASSUME NEW id, NEW g, Begun(id, g, fired', runs'), ~Begun(id, g, fired, runs)
      PROVE  \E e \in Due : e.type = "run_at" /\ e.id = id /\ e.gen = g
  <2>1. PICK r \in runs' : r \notin runs /\ r.type = "run_at" /\ r.id = id /\ r.gen = g
    BY <1>1, <1>2 DEF Begun
  <2>2. PICK e \in Due : r = Started(e)
    BY <1>1, <2>1
  <2> QED BY <1>1, <2>1, <2>2, StartedRun
<1>3. ASSUME NEW e \in Due
      PROVE  \E x \in entries' :
               /\ x = [e EXCEPT !.next = NextTime(e, clock)] /\ x \in EntryType
               /\ x.id = e.id /\ TimeOf(x.id, x) = TimeOf(e.id, e) /\ x.type = e.type /\ x.gen = e.gen /\ x.runAt = e.runAt
               /\ x.next = NextTime(x, clock)
  <2> DEFINE x == [e EXCEPT !.next = NextTime(e, clock)]
  <2>1. e \in EntryType /\ x \in entries'
    BY <1>1
  <2>2. /\ x \in EntryType /\ x.id = e.id /\ TimeOf(e.id, x) = TimeOf(e.id, e) /\ x.type = e.type /\ x.gen = e.gen /\ x.runAt = e.runAt
        /\ x.next = NextTime(e, clock)
    BY <2>1, Rescheduled
  <2>3. NextTime(x, clock) = NextTime(e, clock)
    <3> HIDE DEF x
    <3> QED BY <2>2 DEF NextTime
  <2> QED BY <2>1, <2>2, <2>3
<1>4. ASSUME NEW x \in entries'
      PROVE  \E e \in entries :
              /\ x.id = e.id /\ TimeOf(x.id, x) = TimeOf(e.id, e) /\ x.type = e.type /\ x.gen = e.gen /\ x.runAt = e.runAt
              /\ x \in EntryType
              /\ (x = e /\ e \notin Due) \/ (e \in Due /\ x.next = NextTime(x, clock))
  <2>1. CASE x \in entries \ Due
    BY <1>1, <2>1
  <2>2. CASE x \notin entries \ Due
    <3>1. PICK e \in Due : x = [e EXCEPT !.next = NextTime(e, clock)]
      BY <1>1, <1>4, <2>2
    <3> QED BY <1>1, <1>3, <3>1
  <2> QED BY <2>1, <2>2
<1>5. ASSUME NEW e \in entries PROVE \E x \in entries' : x.id = e.id /\ TimeOf(x.id, x) = TimeOf(e.id, e)
  <2>1. CASE e \in Due
    BY <1>3, <2>1
  <2>2. CASE e \notin Due
    BY <1>1, <2>2
  <2> QED BY <2>1, <2>2
<1>6. \A id, g : Begun(id, g, fired', runs') =>
        Begun(id, g, fired, runs) \/ \E e \in Due : e.type = "run_at" /\ e.id = id /\ e.gen = g
  BY <1>2
<1>7. \A x \in entries' : \E e \in entries :
        /\ x.id = e.id /\ TimeOf(x.id, x) = TimeOf(e.id, e) /\ x.type = e.type /\ x.gen = e.gen /\ x.runAt = e.runAt
        /\ x \in EntryType
        /\ (x = e /\ e \notin Due) \/ (e \in Due /\ x.next = NextTime(x, clock))
  BY <1>4
<1>8. \A e \in entries : \E x \in entries' : x.id = e.id /\ TimeOf(x.id, x) = TimeOf(e.id, e)
  BY <1>5
<1> QED BY <1>1, <1>6, <1>7, <1>8

(* What the start of the cron loop does to the entries. *)
LEMMA CronRunIs ==
  ASSUME TypeInv, CronRun
  PROVE  /\ cronOn = FALSE /\ cronOn' = TRUE /\ FreeSlots = Slots /\ tainted' \in {tainted, tainted \union {"late"}}
         /\ UNCHANGED <<schedules, clock, refreshes, locker, runs, edits, applied, fired>>
         /\ \A x \in entries' : \E e \in entries :
              /\ x.id = e.id /\ TimeOf(x.id, x) = TimeOf(e.id, e) /\ x.type = e.type /\ x.gen = e.gen /\ x.runAt = e.runAt
              /\ x \in EntryType /\ x.next = NextTime(x, clock)
         /\ \A e \in entries : \E x \in entries' : x.id = e.id /\ TimeOf(x.id, x) = TimeOf(e.id, e)
<1>1. /\ cronOn = FALSE /\ cronOn' = TRUE /\ FreeSlots = Slots /\ tainted' \in {tainted, tainted \union {"late"}}
      /\ UNCHANGED <<schedules, clock, refreshes, locker, runs, edits, applied, fired>>
      /\ entries' = {[e EXCEPT !.next = NextTime(e, clock)] : e \in entries}
  BY DEF CronRun, Mark, FreeSlots, TypeInv
<1>3. ASSUME NEW e \in entries
      PROVE  \E x \in entries' :
               /\ x = [e EXCEPT !.next = NextTime(e, clock)] /\ x \in EntryType
               /\ x.id = e.id /\ TimeOf(x.id, x) = TimeOf(e.id, e) /\ x.type = e.type /\ x.gen = e.gen /\ x.runAt = e.runAt
               /\ x.next = NextTime(x, clock)
  <2> DEFINE x == [e EXCEPT !.next = NextTime(e, clock)]
  <2>1. e \in EntryType /\ x \in entries'
    BY <1>1 DEF TypeInv
  <2>2. /\ x \in EntryType /\ x.id = e.id /\ TimeOf(e.id, x) = TimeOf(e.id, e) /\ x.type = e.type /\ x.gen = e.gen /\ x.runAt = e.runAt
        /\ x.next = NextTime(e, clock)
    BY <2>1, Rescheduled
  <2>3. NextTime(x, clock) = NextTime(e, clock)
    <3> HIDE DEF x
    <3> QED BY <2>2 DEF NextTime
  <2> QED BY <2>1, <2>2, <2>3
<1>4. ASSUME NEW x \in entries'
      PROVE  \E e \in entries :
              /\ x.id = e.id /\ TimeOf(x.id, x) = TimeOf(e.id, e) /\ x.type = e.type /\ x.gen = e.gen /\ x.runAt = e.runAt
              /\ x \in EntryType /\ x.next = NextTime(x, clock)
  <2>1. PICK e \in entries : x = [e EXCEPT !.next = NextTime(e, clock)]
    BY <1>1, <1>4
  <2> QED BY <1>3, <2>1
<1> QED BY <1>1, <1>3, <1>4

(* The end of a runner counts its run time, which had begun. *)
LEMMA EndsBegun ==
  ASSUME TypeInv, NEW r \in runs, Ends(r)
  PROVE  /\ \A id \in Ids, g \in Gens : Begun(id, g, fired', runs') => Begun(id, g, fired, runs)
         /\ \A x \in Ids \X Gens : fired'[x] # fired[x] => r.type = "run_at" /\ x = <<r.id, r.gen>>
<1>1. r \in RunType /\ <<r.id, r.gen>> \in Ids \X Gens /\ fired \in [Ids \X Gens -> 0..1]
  BY DEF TypeInv, RunType
<1>2. fired' = IF r.type = "run_at" THEN [fired EXCEPT ![<<r.id, r.gen>>] = fired[<<r.id, r.gen>>] + 1] ELSE fired
  BY DEF Ends, Attempt
<1>3. \A x \in Ids \X Gens : fired'[x] # fired[x] => r.type = "run_at" /\ x = <<r.id, r.gen>>
  BY <1>1, <1>2
<1>4. ASSUME NEW id \in Ids, NEW g \in Gens, Begun(id, g, fired', runs') PROVE Begun(id, g, fired, runs)
  <2>0. <<id, g>> \in Ids \X Gens /\ runs' = runs \ {r}
    BY DEF Ends
  <2>1. CASE fired'[<<id, g>>] # fired[<<id, g>>]
    <3>1. r.type = "run_at" /\ r.id = id /\ r.gen = g
      BY <1>3, <2>0, <2>1
    <3> QED BY <3>1 DEF Begun
  <2>2. CASE fired'[<<id, g>>] = fired[<<id, g>>]
    BY <1>4, <2>0, <2>2 DEF Begun
  <2> QED BY <2>1, <2>2
<1> QED BY <1>3, <1>4

(* No step brings a second time for a number, or one that has begun too early. *)
LEMMA TimesStep ==
  ASSUME TypeInv, EntriesInv, TimesInv, StartedInv, HashInv, ScheduleNext
  PROVE  TimesInv'
<1>0. edits \in Int /\ clock \in Int /\ edits >= edits /\ clock >= clock
  BY ScheduleAssumption DEF TypeInv, Gens
<1>1. ASSUME NEW i \in Slots, RefreshStep(i) PROVE TimesInv'
  BY <1>1, RefreshKeepsTimes
<1>2. ASSUME NEW id \in Ids, AddSchedule(id) \/ UpdateSchedule(id) \/ SetScheduleActive(id) \/ RemoveSchedule(id)
      PROVE  TimesInv'
  BY <1>2, EditStep, EditTimes
<1>3. CASE CronRun
  <2>1. UNCHANGED <<schedules, clock, refreshes, runs, edits, fired>>
    BY <1>3, CronRunIs
  <2>2. \A x \in entries' : TimeOf(x.id, x) \in Times(schedules, refreshes, entries)
    BY <1>3, CronRunIs, TimesOf
  <2>3. Times(schedules', refreshes', entries') \subseteq Times(schedules, refreshes, entries)
    BY <2>1, <2>2, SameRefreshTimes
  <2> QED BY <1>0, <2>1, <2>3, TimesFewer
<1>4. CASE Fire
  <2> DEFINE TT == Times(schedules, refreshes, entries)
             TN == Times(schedules', refreshes', entries')
  <2>1. /\ UNCHANGED <<schedules, clock, refreshes, edits>> /\ cronOn = TRUE
        /\ Due \subseteq entries /\ entries \subseteq EntryType
    BY <1>4, FireStarts
  <2>2. \A x \in entries' : TimeOf(x.id, x) \in TT
    BY <1>4, FireStarts, TimesOf
  <2>3. TN \subseteq TT
    BY <2>1, <2>2, SameRefreshTimes
  <2>4. \A e \in Due : TimeOf(e.id, e) \in TT
    BY <2>1, TimesOf
  <2>5. \A id, g : Begun(id, g, fired', runs') => Begun(id, g, fired, runs) \/ \E e \in Due : e.type = "run_at" /\ e.id = id /\ e.gen = g
    BY <1>4, FireStarts
  <2>6. ASSUME NEW x \in TN, x.type = "run_at", Begun(x.id, x.gen, fired', runs') PROVE x.runAt <= clock
    <3>1. x \in TT
      BY <2>3
    <3>2. CASE Begun(x.id, x.gen, fired, runs)
      BY <2>6, <3>1, <3>2 DEF TimesInv
    <3>3. ASSUME NEW e \in Due, e.type = "run_at", e.id = x.id, e.gen = x.gen PROVE x.runAt <= clock
      <4>1. TimeOf(e.id, e) = x
        BY <2>4, <3>1, <3>3, TimeFields DEF TimesInv
      <4> QED BY <2>1, <3>3, <4>1, DueOnce, TimeFields
    <3> QED BY <2>5, <2>6, <3>2, <3>3
  <2>7. ASSUME NEW id \in Ids, NEW g \in Gens, Begun(id, g, fired', runs') PROVE g <= edits
    <3>1. CASE Begun(id, g, fired, runs)
      BY <3>1 DEF TimesInv
    <3>2. ASSUME NEW e \in Due, e.id = id, e.gen = g PROVE g <= edits
      BY <2>4, <3>2, TimeFields DEF TimesInv
    <3> QED BY <2>5, <2>7, <3>1, <3>2
  <2>8. \A x \in TN : x.gen <= edits
    BY <2>3 DEF TimesInv
  <2>9. \A x, y \in TN : x.id = y.id /\ x.gen = y.gen => x = y
    BY <2>3 DEF TimesInv
  <2> QED BY <2>1, <2>6, <2>7, <2>8, <2>9 DEF TimesInv
<1>5. ASSUME NEW r \in runs, GetSchedule(r) \/ GetLastRemoteCommitHash(r) \/ SetScheduleCommitHash(r)
      PROVE  TimesInv'
  <2>1. Goes(r)
    BY <1>5, GoesOn DEF HashInv
  <2>2. UNCHANGED <<clock, entries, refreshes, edits, fired>>
    BY <1>5 DEF GetSchedule, GetLastRemoteCommitHash, SetScheduleCommitHash
  <2>3. \A j \in DOMAIN schedules' : j \in DOMAIN schedules /\ TimeOf(j, schedules'[j]) = TimeOf(j, schedules[j])
    BY <1>5, HashRecorded DEF GetSchedule, GetLastRemoteCommitHash
  <2>4. Times(schedules', refreshes', entries') \subseteq Times(schedules, refreshes, entries)
    BY <2>2, <2>3, SameRefreshTimes, TimesOf
  <2>5. \A id \in Ids, g \in Gens : Begun(id, g, fired', runs') => Begun(id, g, fired, runs)
    BY <2>1, <2>2, BegunKept
  <2> QED BY <1>0, <2>2, <2>4, <2>5, TimesFewer
<1>6. ASSUME NEW r \in runs, GetTemplateFails(r) \/ AddTask(r) PROVE TimesInv'
  <2>1. Ends(r)
    BY <1>6, RunEnds
  <2>2. UNCHANGED <<schedules, clock, entries, edits>>
    BY <2>1 DEF Ends
  <2>3. \A e \in entries' : TimeOf(e.id, e) \in Times(schedules, refreshes, entries)
    BY <2>2, TimesOf
  <2>4. Times(schedules', refreshes', entries') \subseteq Times(schedules, refreshes, entries)
    <3>1. CASE StartRefresh
      <4>1. PICK j \in Slots : refreshes' = [refreshes EXCEPT ![j] = Reading]
        BY <3>1, Starting
      <4>2. Reading.rows = NoRows
        BY IdleReading
      <4> QED BY <2>2, <2>3, <4>1, <4>2, RefreshTimes
    <3>2. CASE refreshes' = refreshes
      BY <2>2, <2>3, <3>2, SameRefreshTimes
    <3> QED BY <2>1, <3>1, <3>2 DEF Ends
  <2>5. \A id \in Ids, g \in Gens : Begun(id, g, fired', runs') => Begun(id, g, fired, runs)
    BY <2>1, EndsBegun
  <2> QED BY <1>0, <2>2, <2>4, <2>5, TimesFewer
<1>7. CASE Push \/ Tick
  <2>1. UNCHANGED <<schedules, entries, refreshes, runs, edits, fired>> /\ clock' \in Int /\ clock' >= clock
    BY <1>0, <1>7 DEF Push, Tick
  <2>2. Times(schedules', refreshes', entries') \subseteq Times(schedules, refreshes, entries)
    BY <2>1
  <2> QED BY <1>0, <2>1, <2>2, TimesFewer
<1>8. CASE Restart
  <2>1. /\ entries' = {} /\ runs' = {}
        /\ refreshes' = [i \in Slots |-> IF i = FirstSlot THEN Reading ELSE Idle]
        /\ UNCHANGED <<schedules, clock, edits, fired>>
    BY <1>8 DEF Restart
  <2>2. ASSUME NEW x \in Times(schedules', refreshes', entries') PROVE x \in Times(schedules, refreshes, entries)
    <3>1. \A j \in Slots : DOMAIN refreshes'[j].rows = {}
      BY <2>1, IdleReading, EmptyTable
    <3>2. \E id \in DOMAIN schedules' : x = TimeOf(id, schedules'[id])
      <4>1. \/ \E id \in DOMAIN schedules' : x = TimeOf(id, schedules'[id])
            \/ \E j \in Slots : \E id \in DOMAIN refreshes'[j].rows : x = TimeOf(id, refreshes'[j].rows[id])
            \/ \E e \in entries' : x = TimeOf(e.id, e)
        BY <2>2, TimesAfter
      <4> QED BY <2>1, <3>1, <4>1
    <3> QED BY <2>1, <3>2, TimesOf
  <2>3. \A id \in Ids, g \in Gens : Begun(id, g, fired', runs') => Begun(id, g, fired, runs)
    BY <2>1, BegunKept
  <2> QED BY <1>0, <2>1, <2>2, <2>3, TimesFewer
<1> QED BY <1>1, <1>2, <1>3, <1>4, <1>5, <1>6, <1>7, <1>8 DEF ScheduleNext, RunStep

-----------------------------------------------------------------------------
(* A run time is started once. *)

(* A run time is started once: its entry is not due again, and a task is
   attempted only by the one runner that was started for it. *)
LEMMA StartedStep ==
  ASSUME TypeInv, EntriesInv, TimesInv, StartedInv, HashInv, ScheduleNext
  PROVE  StartedInv'
<1> DEFINE Spent(E, F, Q) == \A e \in E : e.type = "run_at" /\ Begun(e.id, e.gen, F, Q) => e.next \in {None, Never}
<1>0. ASSUME fired' = fired, runs' = runs, Spent(entries', fired, runs)
      PROVE  StartedInv'
  BY <1>0 DEF StartedInv
<1>1. Spent(entries, fired, runs)
  BY DEF StartedInv
<1>2. ASSUME NEW x \in EntryType, x.type = "run_at", TimeOf(x.id, x) \in Times(schedules, refreshes, entries),
             Begun(x.id, x.gen, fired, runs), x.next = NextTime(x, clock)
      PROVE  x.next = Never
  <2>1. x.runAt <= clock
    BY <1>2, TimeFields DEF TimesInv
  <2> QED BY <1>2, <2>1, ComputedNext
<1>3. ASSUME NEW i \in Slots, RefreshStep(i) PROVE StartedInv'
  <2>1. fired' = fired /\ runs' = runs
    BY <1>3 DEF RefreshStep, GetSchedules, Lock, RefreshRow, Unlock
  <2>2. CASE GetSchedules(i) \/ Unlock(i)
    <3>1. entries' = entries
      BY <2>2 DEF GetSchedules, Unlock
    <3> QED BY <1>0, <1>1, <2>1, <3>1
  <2>3. CASE Lock(i)
    <3>1. entries' = {}
      BY <2>3 DEF Lock, ClearAndRead
    <3> QED BY <1>0, <2>1, <3>1
  <2>4. ASSUME NEW id \in Ids, RefreshRow(i, id) PROVE StartedInv'
    <3>1. RowDone(i, id) /\ (SkipRow(i, id) \/ AddRow(i, id) \/ EndRow(i, id))
      BY <2>4, RowStep
    <3>2. refreshes[i].rows[id] \in Row /\ id \in DOMAIN refreshes[i].rows
      BY <3>1, RowDoneIs
    <3>3. CASE SkipRow(i, id) \/ EndRow(i, id)
      <4>1. entries' = entries
        BY <3>3 DEF SkipRow, EndRow
      <4> QED BY <1>0, <1>1, <2>1, <4>1
    <3>4. CASE AddRow(i, id)
      <4>1. AddEntry(Entry(id, refreshes[i].rows[id]))
        BY <3>4 DEF AddRow
      <4>2. PICK e \in EntryType :
              /\ entries' = entries \union {e} /\ e.id = id /\ TimeOf(id, e) = TimeOf(id, refreshes[i].rows[id])
              /\ e.next = IF cronOn THEN NextTime(e, clock) ELSE None
        BY <3>2, <4>1, NewEntry
      <4>3. TimeOf(e.id, e) \in Times(schedules, refreshes, entries)
        BY <3>2, <4>2, TimesOf
      <4>4. e.type = "run_at" /\ Begun(e.id, e.gen, fired, runs) => e.next \in {None, Never}
        BY <1>2, <4>2, <4>3
      <4>5. Spent(entries', fired, runs)
        BY <1>1, <4>2, <4>4
      <4> HIDE DEF Spent
      <4> QED BY <1>0, <2>1, <4>5
    <3> QED BY <3>1, <3>3, <3>4
  <2> QED BY <1>3, <2>2, <2>3, <2>4 DEF RefreshStep
<1>4. ASSUME NEW id \in Ids, AddSchedule(id) \/ UpdateSchedule(id) \/ SetScheduleActive(id) \/ RemoveSchedule(id)
      PROVE  StartedInv'
  <2>1. Edit
    BY <1>4, EditStep
  <2>2. UNCHANGED <<fired, runs, entries>>
    BY <2>1 DEF Edit
  <2> QED BY <1>0, <1>1, <2>2
<1>5. CASE CronRun
  <2>1. fired' = fired /\ runs' = runs
    BY <1>5, CronRunIs
  <2>2. Spent(entries', fired, runs)
    <3> SUFFICES ASSUME NEW x \in entries', x.type = "run_at", Begun(x.id, x.gen, fired, runs)
                 PROVE  x.next \in {None, Never}
      OBVIOUS
    <3>1. PICK e \in entries : TimeOf(x.id, x) = TimeOf(e.id, e) /\ x \in EntryType /\ x.next = NextTime(x, clock)
      BY <1>5, CronRunIs
    <3>2. TimeOf(x.id, x) \in Times(schedules, refreshes, entries)
      BY <3>1, TimesOf
    <3> QED BY <1>2, <3>1, <3>2
  <2> HIDE DEF Spent
  <2> QED BY <1>0, <2>1, <2>2
<1>6. CASE Fire
  <2>1. /\ fired' = fired /\ Due \subseteq entries /\ entries \subseteq EntryType /\ cronOn = TRUE
        /\ runs' = runs \union {Started(e) : e \in Due}
    BY <1>6, FireStarts
  <2>2. ASSUME NEW x \in entries', x.type = "run_at", Begun(x.id, x.gen, fired', runs')
        PROVE  x.next \in {None, Never}
    <3>1. PICK e \in entries :
              /\ x.id = e.id /\ x.type = e.type /\ x.gen = e.gen /\ x.runAt = e.runAt /\ x \in EntryType
              /\ (x = e /\ e \notin Due) \/ (e \in Due /\ x.next = NextTime(x, clock))
      BY <1>6, FireStarts
    <3>2. CASE e \in Due /\ x.next = NextTime(x, clock)
      <4>1. x.runAt <= clock
        BY <2>1, <2>2, <3>1, <3>2, DueOnce
      <4> QED BY <2>2, <3>1, <3>2, <4>1, ComputedNext
    <3>3. CASE x = e /\ e \notin Due
      <4>1. CASE Begun(x.id, x.gen, fired, runs)
        BY <1>1, <2>2, <3>3, <4>1
      <4>2. ASSUME NEW d \in Due, d.id = x.id PROVE FALSE
        BY <2>1, <3>3, <4>2 DEF EntriesInv
      <4> QED BY <1>6, <2>2, <4>1, <4>2, FireStarts
    <3> QED BY <3>1, <3>2, <3>3
  <2>3. ASSUME NEW r \in runs', r.type = "run_at", r \notin runs
        PROVE  \E e \in Due : r = Started(e) /\ r.id = e.id /\ r.gen = e.gen /\ ~Begun(e.id, e.gen, fired, runs)
    <3>1. PICK e \in Due : r = Started(e)
      BY <2>1, <2>3
    <3>2. r.id = e.id /\ r.gen = e.gen /\ r.type = e.type
      BY <2>1, <3>1, StartedRun
    <3> QED BY <2>1, <2>3, <3>1, <3>2, DueOnce
  <2>4. ASSUME NEW r \in runs', NEW q \in runs', r.type = "run_at", q.type = "run_at", r.id = q.id, r.gen = q.gen
        PROVE  r = q
    <3>1. CASE r \in runs /\ q \in runs
      BY <2>4, <3>1 DEF StartedInv
    <3>2. CASE r \in runs /\ q \notin runs
      BY <2>3, <2>4, <3>2 DEF Begun
    <3>3. CASE r \notin runs /\ q \in runs
      BY <2>3, <2>4, <3>3 DEF Begun
    <3>4. CASE r \notin runs /\ q \notin runs
      <4>1. PICK e \in Due, d \in Due : r = Started(e) /\ q = Started(d) /\ e.id = d.id
        BY <2>3, <2>4, <3>4
      <4> QED BY <2>1, <4>1 DEF EntriesInv
    <3> QED BY <3>1, <3>2, <3>3, <3>4
  <2>5. ASSUME NEW r \in runs', r.type = "run_at" PROVE fired[<<r.id, r.gen>>] = 0
    <3>1. CASE r \in runs
      BY <2>5, <3>1 DEF StartedInv
    <3>2. CASE r \notin runs
      <4>1. PICK e \in Due : r.id = e.id /\ r.gen = e.gen /\ ~Begun(e.id, e.gen, fired, runs)
        BY <2>3, <2>5, <3>2
      <4>2. <<e.id, e.gen>> \in Ids \X Gens
        BY <2>1 DEF EntryType
      <4>3. fired[<<e.id, e.gen>>] \in 0..1 /\ ~(fired[<<e.id, e.gen>>] > 0)
        BY <4>1, <4>2 DEF TypeInv, Begun
      <4> QED BY <4>1, <4>3
    <3> QED BY <3>1, <3>2
  <2> QED BY <2>1, <2>2, <2>4, <2>5 DEF StartedInv
<1>7. ASSUME NEW r \in runs, GetSchedule(r) \/ GetLastRemoteCommitHash(r) \/ SetScheduleCommitHash(r)
      PROVE  StartedInv'
  <2>1. Goes(r)
    BY <1>7, GoesOn DEF HashInv
  <2>2. fired' = fired /\ entries' = entries
    BY <1>7 DEF GetSchedule, GetLastRemoteCommitHash, SetScheduleCommitHash
  <2>3. \A p \in runs' : \E o \in runs : /\ p.id = o.id /\ p.gen = o.gen /\ p.type = o.type
                                         /\ (p = o /\ o # r) \/ (o = r /\ p \notin runs \ {r})
    BY <2>1 DEF Goes
  <2>4. \A e \in entries' : e.type = "run_at" /\ Begun(e.id, e.gen, fired', runs') => e.next \in {None, Never}
    BY <1>1, <2>2, <2>3 DEF Begun
  <2>5. \A p, q \in runs' : p.type = "run_at" /\ q.type = "run_at" /\ p.id = q.id /\ p.gen = q.gen => p = q
    <3>1. CASE runs' = runs \ {r}
      BY <3>1 DEF StartedInv
    <3>2. ASSUME NEW x, runs' = (runs \ {r}) \union {x}, x.id = r.id, x.gen = r.gen, x.type = r.type
          PROVE  \A p, q \in runs' : p.type = "run_at" /\ q.type = "run_at" /\ p.id = q.id /\ p.gen = q.gen => p = q
      BY <3>2 DEF StartedInv
    <3> QED BY <2>1, <3>1, <3>2 DEF Goes
  <2>6. \A p \in runs' : p.type = "run_at" => fired'[<<p.id, p.gen>>] = 0
    BY <2>2, <2>3 DEF StartedInv
  <2> QED BY <2>4, <2>5, <2>6 DEF StartedInv
<1>8. ASSUME NEW r \in runs, GetTemplateFails(r) \/ AddTask(r) PROVE StartedInv'
  <2>1. Ends(r)
    BY <1>8, RunEnds
  <2>2. runs' = runs \ {r} /\ entries' = entries /\ entries \subseteq EntryType /\ runs \subseteq RunType
    BY <2>1 DEF Ends, TypeInv
  <2>3. /\ \A id \in Ids, g \in Gens : Begun(id, g, fired', runs') => Begun(id, g, fired, runs)
        /\ \A x \in Ids \X Gens : fired'[x] # fired[x] => r.type = "run_at" /\ x = <<r.id, r.gen>>
    BY <2>1, EndsBegun
  <2>4. \A e \in entries' : e.type = "run_at" /\ Begun(e.id, e.gen, fired', runs') => e.next \in {None, Never}
    BY <1>1, <2>2, <2>3 DEF EntryType
  <2>5. \A p, q \in runs' : p.type = "run_at" /\ q.type = "run_at" /\ p.id = q.id /\ p.gen = q.gen => p = q
    BY <2>2 DEF StartedInv
  <2>6. ASSUME NEW p \in runs', p.type = "run_at" PROVE fired'[<<p.id, p.gen>>] = 0
    <3>1. p \in runs /\ p # r /\ <<p.id, p.gen>> \in Ids \X Gens
      BY <2>2 DEF RunType
    <3>2. ~(r.type = "run_at" /\ <<p.id, p.gen>> = <<r.id, r.gen>>)
      BY <2>6, <3>1 DEF StartedInv
    <3> QED BY <2>3, <2>6, <3>1, <3>2 DEF StartedInv
  <2> QED BY <2>4, <2>5, <2>6 DEF StartedInv
<1>9. CASE Push \/ Tick
  <2>1. UNCHANGED <<fired, runs, entries>>
    BY <1>9 DEF Push, Tick
  <2> QED BY <1>0, <1>1, <2>1
<1>10. CASE Restart
  <2>1. entries' = {} /\ runs' = {}
    BY <1>10 DEF Restart
  <2> QED BY <2>1 DEF StartedInv
<1> HIDE DEF Spent
<1> QED BY <1>3, <1>4, <1>5, <1>6, <1>7, <1>8, <1>9, <1>10 DEF ScheduleNext, RunStep

-----------------------------------------------------------------------------
(* The table under construction. *)

(* Firings and the start of cron keep what a refresh has built. *)
LEMMA BuildingKept ==
  ASSUME NEW E, NEW N, NEW f, Building(E, f),
         \A x \in N : \E e \in E : x.id = e.id /\ TimeOf(x.id, x) = TimeOf(e.id, e),
         \A e \in E : \E x \in N : x.id = e.id /\ TimeOf(x.id, x) = TimeOf(e.id, e)
  PROVE  Building(N, f)
<1>1. ASSUME NEW x \in N
      PROVE  /\ x.id \in DOMAIN f.rows \ f.todo /\ TimeOf(x.id, x) = TimeOf(x.id, f.rows[x.id])
             /\ Wanted(f.rows[x.id]) /\ ~Past(f.rows[x.id], f.now)
  <2>1. PICK e \in E : x.id = e.id /\ TimeOf(x.id, x) = TimeOf(e.id, e)
    OBVIOUS
  <2> QED BY <2>1 DEF Building
<1>2. ASSUME NEW id \in DOMAIN f.rows \ f.todo, Wanted(f.rows[id]), ~Past(f.rows[id], f.now)
      PROVE  \E x \in N : x.id = id
  <2>1. PICK e \in E : e.id = id
    BY <1>2 DEF Building
  <2> QED BY <2>1
<1> QED BY <1>1, <1>2 DEF Building

(* The table follows the refresh that has the lock. *)
LEMMA BuildStep ==
  ASSUME TypeInv, BuildInv, ScheduleNext
  PROVE  BuildInv'
<1>0. ASSUME entries' = entries, locker' = locker,
             \A j \in Slots : locker = j => refreshes'[j] = refreshes[j]
      PROVE  BuildInv'
  BY <1>0 DEF BuildInv
<1>1. ASSUME locker' = Nobody PROVE BuildInv'
  BY <1>1, ScheduleAssumption DEF BuildInv
<1>2. ASSUME StartRefresh, entries' = entries, locker' = locker PROVE BuildInv'
  <2>1. PICK j \in Slots : refreshes[j] = Idle /\ refreshes' = [refreshes EXCEPT ![j] = Reading]
    BY <1>2, Starting
  <2>2. locker # j
    BY <2>1, IdleReading DEF TypeInv, RefreshOK
  <2>3. \A k \in Slots : locker = k => refreshes'[k] = refreshes[k]
    BY <2>1, <2>2 DEF TypeInv
  <2> QED BY <1>0, <1>2, <2>3
<1>3. ASSUME NEW i \in Slots, RefreshStep(i) PROVE BuildInv'
  <2>1. CASE GetSchedules(i)
    <3>1. entries' = entries /\ locker' = locker /\ locker # i
      BY <2>1, GetSchedulesIs
    <3>2. \A k \in Slots : locker = k => refreshes'[k] = refreshes[k]
      BY <2>1, <3>1 DEF GetSchedules, TypeInv
    <3> QED BY <1>0, <3>1, <3>2
  <2>2. CASE Lock(i)
    <3>1. PICK f \in RefreshType : refreshes'[i] = f /\ f.todo = DOMAIN f.rows /\ locker' = i /\ entries' = {}
      BY <2>2, LockIs
    <3>2. Building(entries', f)
      BY <3>1 DEF Building
    <3> QED BY <3>1, <3>2 DEF BuildInv
  <2>3. CASE Unlock(i)
    <3>1. locker' = Nobody
      BY <2>3, UnlockIs
    <3> QED BY <1>1, <3>1
  <2>4. ASSUME NEW id \in Ids, RefreshRow(i, id) PROVE BuildInv'
    <3>0. RowDone(i, id) /\ (SkipRow(i, id) \/ AddRow(i, id) \/ EndRow(i, id)) /\ id \in refreshes[i].todo
      BY <2>4, RowStep DEF RowDone
    <3>1. PICK f \in RefreshType :
             /\ refreshes'[i] = f
             /\ f.rows = refreshes[i].rows /\ f.todo = refreshes[i].todo \ {id} /\ f.now = refreshes[i].now
             /\ id \in DOMAIN refreshes[i].rows /\ refreshes[i].rows[id] \in Row
             /\ locker = i /\ locker' = i
      BY <3>0, RowDoneIs
    <3>2. Building(entries, refreshes[i])
      BY <3>1 DEF BuildInv
    <3>3. CASE SkipRow(i, id) \/ EndRow(i, id)
      <4>1. entries' = entries /\ (~Wanted(f.rows[id]) \/ Past(f.rows[id], f.now))
        BY <3>1, <3>3 DEF SkipRow, EndRow
      <4>2. Building(entries', f)
        BY <3>1, <3>2, <4>1 DEF Building
      <4> QED BY <3>1, <4>2 DEF BuildInv
    <3>4. CASE AddRow(i, id)
      <4>1. AddEntry(Entry(id, refreshes[i].rows[id])) /\ Wanted(f.rows[id]) /\ ~Past(f.rows[id], f.now)
        BY <3>1, <3>4 DEF AddRow
      <4>2. PICK e \in EntryType : entries' = entries \union {e} /\ e.id = id /\ TimeOf(id, e) = TimeOf(id, refreshes[i].rows[id])
        BY <3>1, <4>1, NewEntry
      <4>3. Building(entries', f)
        BY <3>1, <3>2, <4>1, <4>2 DEF Building
      <4> QED BY <3>1, <4>3 DEF BuildInv
    <3> QED BY <3>0, <3>3, <3>4
  <2> QED BY <1>3, <2>1, <2>2, <2>3, <2>4 DEF RefreshStep
<1>4. ASSUME NEW id \in Ids, AddSchedule(id) \/ UpdateSchedule(id) \/ SetScheduleActive(id) \/ RemoveSchedule(id)
      PROVE  BuildInv'
  <2>1. Edit
    BY <1>4, EditStep
  <2> QED BY <1>2, <2>1 DEF Edit
<1>5. CASE CronRun \/ Fire
  <2>1. locker' = locker /\ refreshes' = refreshes
    BY <1>5, CronRunIs, FireStarts
  <2>2. /\ \A x \in entries' : \E e \in entries : x.id = e.id /\ TimeOf(x.id, x) = TimeOf(e.id, e)
        /\ \A e \in entries : \E x \in entries' : x.id = e.id /\ TimeOf(x.id, x) = TimeOf(e.id, e)
    <3>1. CASE CronRun
      BY <3>1, CronRunIs
    <3>2. CASE Fire
      BY <3>2, FireStarts
    <3> QED BY <1>5, <3>1, <3>2
  <2>3. ASSUME NEW i \in Slots, locker = i PROVE Building(entries', refreshes[i])
    BY <2>2, <2>3, BuildingKept DEF BuildInv
  <2> QED BY <2>1, <2>3 DEF BuildInv
<1>6. ASSUME NEW r \in runs, RunStep(r) PROVE BuildInv'
  <2>1. entries' = entries /\ locker' = locker /\ (StartRefresh \/ refreshes' = refreshes)
    BY <1>6 DEF RunStep, GetSchedule, GetLastRemoteCommitHash, SetScheduleCommitHash, GetTemplateFails, AddTask
  <2> QED BY <1>0, <1>2, <2>1
<1>7. CASE Push \/ Tick
  <2>1. entries' = entries /\ locker' = locker /\ refreshes' = refreshes
    BY <1>7 DEF Push, Tick
  <2> QED BY <1>0, <2>1
<1>8. CASE Restart
  <2>1. locker' = Nobody
    BY <1>8 DEF Restart
  <2> QED BY <1>1, <2>1
<1> QED BY <1>3, <1>4, <1>5, <1>6, <1>7, <1>8 DEF ScheduleNext

-----------------------------------------------------------------------------
(* What a refresh has read, and the database. *)

(* What has passed stays passed. *)
LEMMA PastStays ==
  ASSUME NEW s \in Row, NEW t \in Int, NEW u \in Int, t <= u, Past(s, t)
  PROVE  Past(s, u)
BY ScheduleAssumption DEF Past, Row

(* Being past and being wanted are about the time and two fields. *)
LEMMA SameTime ==
  ASSUME NEW id, NEW s, NEW q, TimeOf(id, s) = TimeOf(id, q)
  PROVE  s.type = q.type /\ s.runAt = q.runAt /\ s.gen = q.gen /\ \A t : Past(s, t) <=> Past(q, t)
<1>1. s.type = q.type /\ s.runAt = q.runAt /\ s.gen = q.gen
  BY TimeFields
<1> QED BY <1>1 DEF Past

(* Later, only more has ended. *)
LEMMA FollowsLater ==
  ASSUME NEW T, NEW R \in Tables, NEW t \in Int, NEW u \in Int, t <= u, Follows(T, R, t)
  PROVE  Follows(T, R, u)
<1>1. \A id \in DOMAIN R : Past(R[id], t) => Past(R[id], u)
  BY TableRow, PastStays
<1> QED BY <1>1 DEF Follows

(* A refresh that ends a schedule whose time it knows. *)
LEMMA ConsumeFollows ==
  ASSUME schedules \in Tables, NEW R, NEW t, Follows(schedules, R, t), NEW id \in Ids, NEW s \in Row,
         id \in DOMAIN schedules => TimeOf(id, schedules[id]) = TimeOf(id, s), Past(s, t)
  PROVE  Follows(Consume(id, s), R, t)
<1> DEFINE N == Consume(id, s)
<1>1. /\ DOMAIN N \subseteq DOMAIN schedules
      /\ \A j \in DOMAIN schedules : j # id => j \in DOMAIN N
      /\ \A j \in DOMAIN N :
           /\ j # id => N[j] = schedules[j]
           /\ TimeOf(j, N[j]) = TimeOf(j, schedules[j])
           /\ N[j].repo = schedules[j].repo
  BY Consumed
<1> HIDE DEF N
<1>2. id \in DOMAIN schedules => Past(R[id], t)
  <2>1. id \in DOMAIN schedules => TimeOf(id, R[id]) = TimeOf(id, s)
    BY DEF Follows
  <2> QED BY <2>1, SameTime
<1>3. \A j \in DOMAIN N : /\ j \in DOMAIN R
                          /\ TimeOf(j, N[j]) = TimeOf(j, R[j]) /\ N[j].repo = R[j].repo
                          /\ N[j].active = R[j].active \/ Past(R[j], t)
  BY <1>1, <1>2 DEF Follows
<1>4. \A j \in DOMAIN R : j \in DOMAIN N \/ Past(R[j], t)
  BY <1>1, <1>2 DEF Follows
<1> QED BY <1>3, <1>4 DEF Follows, N

(* Rows read at the last change differ from the database only in what ended. *)
LEMMA FollowStep ==
  ASSUME TypeInv, TimesInv, HashInv, FollowInv, ScheduleNext
  PROVE  FollowInv'
<1>0. edits \in Int /\ clock \in Int /\ \A i \in Slots : refreshes[i] \in RefreshType /\ RefreshOK(i) /\ refreshes[i].now \in Int /\ refreshes[i].ver \in Int
  BY ScheduleAssumption DEF TypeInv, Gens, RefreshType
<1> DEFINE Ok(T, f, t) == /\ f.pc = "lock" => Follows(T, f.rows, t)
                          /\ f.pc = "rows" => Follows(T, f.rows, f.now)
<1>1. ASSUME NEW i \in Slots, "overwritten" \notin tainted, refreshes[i].ver = edits PROVE Ok(schedules, refreshes[i], clock)
  BY <1>1 DEF FollowInv
<1>2. ASSUME \A i \in Slots : "overwritten" \notin tainted' /\ refreshes'[i].ver = edits' => Ok(schedules', refreshes'[i], clock')
      PROVE  FollowInv'
  BY <1>2 DEF FollowInv
<1>3. ASSUME schedules' = schedules, edits' = edits, clock' = clock, tainted \subseteq tainted', NEW i \in Slots, NEW f,
             refreshes' = [refreshes EXCEPT ![i] = f], f.ver = edits /\ "overwritten" \notin tainted => Ok(schedules, f, clock)
      PROVE  FollowInv'
  <2> SUFFICES ASSUME NEW j \in Slots, "overwritten" \notin tainted', refreshes'[j].ver = edits'
               PROVE  Ok(schedules', refreshes'[j], clock')
    BY <1>2
  <2>1. CASE j = i
    <3>1. refreshes'[j] = f
      BY <1>3, <2>1 DEF TypeInv
    <3> HIDE DEF Ok
    <3> QED BY <1>3, <3>1
  <2>2. CASE j # i
    <3>1. refreshes'[j] = refreshes[j]
      BY <1>3, <2>2 DEF TypeInv
    <3> HIDE DEF Ok
    <3> QED BY <1>1, <1>3, <3>1
  <2> QED BY <2>1, <2>2
<1>4. ASSUME UNCHANGED <<schedules, edits, clock, refreshes>>, tainted \subseteq tainted' PROVE FollowInv'
  BY <1>4 DEF FollowInv
<1>5. ASSUME StartRefresh, UNCHANGED <<schedules, edits, clock>>, tainted \subseteq tainted' PROVE FollowInv'
  <2>1. PICK j \in Slots : refreshes' = [refreshes EXCEPT ![j] = Reading]
    BY <1>5, Starting
  <2>2. Ok(schedules, Reading, clock)
    BY IdleReading
  <2> HIDE DEF Ok
  <2> QED BY <1>3, <1>5, <2>1, <2>2
<1>6. ASSUME NEW i \in Slots, RefreshStep(i) PROVE FollowInv'
  <2>1. CASE GetSchedules(i)
    <3>1. PICK f \in RefreshType :
             /\ refreshes' = [refreshes EXCEPT ![i] = f] /\ f.pc = "lock" /\ f.rows = schedules
             /\ UNCHANGED <<schedules, clock, edits, tainted>>
      BY <2>1, GetSchedulesIs
    <3>2. Ok(schedules, f, clock)
      BY <3>1 DEF Follows
    <3> HIDE DEF Ok
    <3> QED BY <1>3, <3>1, <3>2
  <2>2. CASE Lock(i)
    <3>1. PICK f \in RefreshType :
             /\ refreshes' = [refreshes EXCEPT ![i] = f] /\ f.pc = "rows" /\ f.rows = refreshes[i].rows
             /\ f.ver = refreshes[i].ver /\ f.now = clock /\ refreshes[i].pc = "lock"
             /\ tainted \subseteq tainted' /\ UNCHANGED <<schedules, clock, edits>>
      BY <2>2, LockIs
    <3>2. f.ver = edits /\ "overwritten" \notin tainted => Ok(schedules, f, clock)
      BY <1>1, <3>1
    <3> HIDE DEF Ok
    <3> QED BY <1>3, <3>1, <3>2
  <2>3. CASE Unlock(i)
    <3>1. refreshes' = [refreshes EXCEPT ![i] = Idle] /\ UNCHANGED <<schedules, clock, edits, tainted>>
      BY <2>3, UnlockIs
    <3>2. Ok(schedules, Idle, clock)
      BY IdleReading
    <3> HIDE DEF Ok
    <3> QED BY <1>3, <3>1, <3>2
  <2>4. ASSUME NEW id \in Ids, RefreshRow(i, id) PROVE FollowInv'
    <3>0. RowDone(i, id) /\ (SkipRow(i, id) \/ AddRow(i, id) \/ EndRow(i, id))
      BY <2>4, RowStep
    <3>1. PICK f \in RefreshType :
             /\ refreshes' = [refreshes EXCEPT ![i] = f] /\ refreshes'[i] = f
             /\ f.pc = "rows" /\ f.rows = refreshes[i].rows /\ f.ver = refreshes[i].ver /\ f.now = refreshes[i].now
             /\ refreshes[i].pc = "rows" /\ id \in DOMAIN refreshes[i].rows /\ refreshes[i].rows[id] \in Row /\ locker = i
             /\ UNCHANGED <<clock, edits>>
      BY <3>0, RowDoneIs
    <3>2. f.ver = edits /\ "overwritten" \notin tainted => Ok(schedules, f, clock)
      BY <1>1, <3>1
    <3>3. CASE SkipRow(i, id) \/ AddRow(i, id)
      <4>1. schedules' = schedules /\ tainted \subseteq tainted'
        BY <3>3 DEF SkipRow, AddRow, AddEntry, Mark
      <4> HIDE DEF Ok
      <4> QED BY <1>3, <3>1, <3>2, <4>1
    <3>4. CASE EndRow(i, id)
      <4> DEFINE s == refreshes[i].rows[id]
      <4>1. /\ Past(s, refreshes[i].now) /\ schedules' = Consume(id, s)
            /\ tainted' = Mark(id \in DOMAIN schedules /\ schedules[id].gen # s.gen, "overwritten")
        BY <3>4 DEF EndRow
      <4>2. s \in Row
        BY <3>1
      <4>3. Past(s, clock)
        BY <1>0, <4>1, <4>2, PastStays DEF RefreshOK
      <4>4. "overwritten" \notin tainted' => "overwritten" \notin tainted /\ (id \in DOMAIN schedules => schedules[id].gen = s.gen)
        BY <4>1 DEF Mark
      <4>5. "overwritten" \notin tainted' /\ id \in DOMAIN schedules => TimeOf(id, schedules[id]) = TimeOf(id, s)
        <5>1. TimeOf(id, s) \in Times(schedules, refreshes, entries)
          BY <3>1, TimesOf
        <5>2. id \in DOMAIN schedules => TimeOf(id, schedules[id]) \in Times(schedules, refreshes, entries)
          BY TimesOf
        <5> HIDE DEF s
        <5> QED BY <4>4, <5>1, <5>2, TimeFields DEF TimesInv
      <4> HIDE DEF s
      <4>6. ASSUME NEW R, NEW t, "overwritten" \notin tainted', Follows(schedules, R, t), Past(s, t)
            PROVE  Follows(schedules', R, t)
        BY <4>1, <4>2, <4>5, <4>6, ConsumeFollows DEF TypeInv
      <4> SUFFICES ASSUME NEW j \in Slots, "overwritten" \notin tainted', refreshes'[j].ver = edits'
                   PROVE  Ok(schedules', refreshes'[j], clock')
        BY <1>2
      <4>7. CASE j = i
        BY <3>1, <3>2, <4>1, <4>4, <4>6, <4>7
      <4>8. CASE j # i
        <5>1. refreshes'[j] = refreshes[j] /\ refreshes[j].pc # "rows"
          BY <3>1, <4>8 DEF TypeInv, RefreshOK
        <5>2. refreshes[j].pc = "lock" => Follows(schedules, refreshes[j].rows, clock)
          BY <1>1, <3>1, <4>4, <5>1
        <5> QED BY <3>1, <4>3, <4>6, <5>1, <5>2
      <4> QED BY <4>7, <4>8
    <3> QED BY <3>0, <3>3, <3>4
  <2> QED BY <1>6, <2>1, <2>2, <2>3, <2>4 DEF RefreshStep
<1>7. ASSUME NEW id \in Ids, AddSchedule(id) \/ UpdateSchedule(id) \/ SetScheduleActive(id) \/ RemoveSchedule(id)
      PROVE  FollowInv'
  <2>1. Edit
    BY <1>7, EditStep
  <2>2. PICK j \in Slots : refreshes' = [refreshes EXCEPT ![j] = Reading]
    BY <2>1, Starting DEF Edit
  <2>3. edits' = edits + 1
    BY <2>1 DEF Edit
  <2> SUFFICES ASSUME NEW k \in Slots, refreshes'[k].ver = edits' PROVE Ok(schedules', refreshes'[k], clock')
    BY <1>2
  <2>4. CASE k = j
    <3>1. refreshes'[k] = Reading
      BY <2>2, <2>4 DEF TypeInv
    <3> QED BY <3>1, IdleReading
  <2>5. CASE k # j
    <3>1. refreshes'[k] = refreshes[k]
      BY <2>2, <2>5 DEF TypeInv
    <3>2. refreshes[k].ver <= edits /\ refreshes[k].ver \in Int
      BY <1>0 DEF RefreshOK
    <3>3. FALSE
      BY <1>0, <2>3, <3>1, <3>2
    <3> QED BY <3>3
  <2> QED BY <2>4, <2>5
<1>8. CASE CronRun \/ Fire \/ Push
  <2>1. UNCHANGED <<schedules, edits, clock, refreshes>> /\ tainted \subseteq tainted'
    BY <1>8 DEF CronRun, Fire, Push, Mark
  <2> QED BY <1>4, <2>1
<1>9. ASSUME NEW r \in runs, GetSchedule(r) \/ GetLastRemoteCommitHash(r)
      PROVE  FollowInv'
  <2>1. UNCHANGED <<schedules, edits, clock, refreshes, tainted>>
    BY <1>9 DEF GetSchedule, GetLastRemoteCommitHash
  <2> QED BY <1>4, <2>1
<1>10. ASSUME NEW r \in runs, SetScheduleCommitHash(r) PROVE FollowInv'
  <2>1. UNCHANGED <<edits, clock, refreshes, tainted>>
    BY <1>10 DEF SetScheduleCommitHash
  <2>2. /\ DOMAIN schedules' = DOMAIN schedules
        /\ \A j \in DOMAIN schedules :
             /\ TimeOf(j, schedules'[j]) = TimeOf(j, schedules[j])
             /\ schedules'[j].repo = schedules[j].repo /\ schedules'[j].active = schedules[j].active
    BY <1>10, HashRecorded
  <2>3. \A R, t : Follows(schedules, R, t) => Follows(schedules', R, t)
    BY <2>2 DEF Follows
  <2>4. \A i \in Slots : "overwritten" \notin tainted' /\ refreshes'[i].ver = edits' => Ok(schedules', refreshes'[i], clock')
    BY <1>1, <2>1, <2>3
  <2> HIDE DEF Ok
  <2> QED BY <1>2, <2>4
<1>11. ASSUME NEW r \in runs, GetTemplateFails(r) \/ AddTask(r) PROVE FollowInv'
  <2>1. Ends(r)
    BY <1>11, RunEnds
  <2> QED BY <1>4, <1>5, <2>1 DEF Ends
<1>12. CASE Tick
  <2>1. UNCHANGED <<schedules, edits, refreshes, tainted>> /\ clock' \in Int /\ clock <= clock'
    BY <1>0, <1>12 DEF Tick
  <2>2. ASSUME NEW i \in Slots, "overwritten" \notin tainted, refreshes[i].ver = edits PROVE Ok(schedules, refreshes[i], clock')
    <3>1. refreshes[i].rows \in Tables
      BY <1>0 DEF RefreshType
    <3> QED BY <1>0, <1>1, <2>1, <2>2, <3>1, FollowsLater
  <2> HIDE DEF Ok
  <2> QED BY <1>2, <2>1, <2>2
<1>13. CASE Restart
  <2>1. refreshes' = [i \in Slots |-> IF i = FirstSlot THEN Reading ELSE Idle]
    BY <1>13 DEF Restart
  <2>2. \A i \in Slots : Ok(schedules', refreshes'[i], clock')
    BY <2>1, IdleReading
  <2> HIDE DEF Ok
  <2> QED BY <1>2, <2>2
<1> HIDE DEF Ok
<1> QED BY <1>6, <1>7, <1>8, <1>9, <1>10, <1>11, <1>12, <1>13 DEF ScheduleNext, RunStep

-----------------------------------------------------------------------------
(* The table and the database. *)

(* What a refresh that read the last change has built matches the database. *)
LEMMA BuiltMatches ==
  ASSUME NEW E, NEW T \in Tables, NEW f \in RefreshType, NEW t \in Int, f.now <= t,
         Building(E, f), f.todo = {}, Follows(T, f.rows, f.now)
  PROVE  Matches(E, T, t)
<1>0. f.rows \in Tables /\ f.now \in Int
  BY ScheduleAssumption DEF RefreshType
<1>1. ASSUME NEW e \in E PROVE e.id \in DOMAIN T /\ Wanted(T[e.id]) /\ T[e.id].type = e.type
  <2>1. /\ e.id \in DOMAIN f.rows /\ TimeOf(e.id, e) = TimeOf(e.id, f.rows[e.id])
        /\ Wanted(f.rows[e.id]) /\ ~Past(f.rows[e.id], f.now)
    BY DEF Building
  <2>2. /\ e.id \in DOMAIN T /\ TimeOf(e.id, T[e.id]) = TimeOf(e.id, f.rows[e.id])
        /\ T[e.id].repo = f.rows[e.id].repo /\ T[e.id].active = f.rows[e.id].active
    BY <2>1 DEF Follows
  <2> QED BY <2>1, <2>2, SameTime DEF Wanted
<1>2. ASSUME NEW id \in DOMAIN T, Wanted(T[id]), ~Past(T[id], t)
      PROVE  \E e \in E : e.id = id /\ TimeOf(id, e) = TimeOf(id, T[id])
  <2>1. /\ id \in DOMAIN f.rows /\ TimeOf(id, T[id]) = TimeOf(id, f.rows[id]) /\ T[id].repo = f.rows[id].repo
        /\ T[id].active = f.rows[id].active \/ Past(f.rows[id], f.now)
    BY DEF Follows
  <2>2. ~Past(f.rows[id], t)
    BY <1>2, <2>1, SameTime
  <2>3. ~Past(f.rows[id], f.now)
    BY <1>0, <2>1, <2>2, TableRow, PastStays
  <2>4. Wanted(f.rows[id])
    BY <1>2, <2>1, <2>3 DEF Wanted
  <2>5. PICK e \in E : e.id = id
    BY <2>1, <2>3, <2>4 DEF Building
  <2>6. TimeOf(e.id, e) = TimeOf(e.id, f.rows[e.id])
    BY DEF Building
  <2> QED BY <2>1, <2>5, <2>6
<1> QED BY <1>1, <1>2 DEF Matches

(* A table that matches goes on to do so while times pass, entries fire and  *)
(* commits are recorded.                                                     *)
LEMMA MatchesKept ==
  ASSUME NEW E, NEW T \in Tables, NEW t \in Int, Matches(E, T, t), NEW N, NEW U, NEW u \in Int, t <= u,
         \A x \in N : \E e \in E : x.id = e.id /\ TimeOf(x.id, x) = TimeOf(e.id, e),
         \A e \in E : \E x \in N : x.id = e.id /\ TimeOf(x.id, x) = TimeOf(e.id, e),
         DOMAIN U = DOMAIN T,
         \A j \in DOMAIN T : TimeOf(j, U[j]) = TimeOf(j, T[j]) /\ U[j].repo = T[j].repo /\ U[j].active = T[j].active
  PROVE  Matches(N, U, u)
<1>1. ASSUME NEW x \in N PROVE x.id \in DOMAIN U /\ Wanted(U[x.id]) /\ U[x.id].type = x.type
  <2>1. PICK e \in E : x.id = e.id /\ TimeOf(x.id, x) = TimeOf(e.id, e)
    OBVIOUS
  <2>2. x.id \in DOMAIN T /\ Wanted(T[x.id]) /\ T[x.id].type = e.type
    BY <2>1 DEF Matches
  <2>3. x.type = e.type
    BY <2>1, SameTime
  <2> QED BY <2>2, <2>3, SameTime DEF Wanted
<1>2. ASSUME NEW id \in DOMAIN U, Wanted(U[id]), ~Past(U[id], u)
      PROVE  \E x \in N : x.id = id /\ TimeOf(id, x) = TimeOf(id, U[id])
  <2>1. id \in DOMAIN T /\ TimeOf(id, U[id]) = TimeOf(id, T[id]) /\ T[id] \in Row
    BY TableRow
  <2>2. Wanted(T[id])
    BY <1>2, <2>1 DEF Wanted
  <2>3. ~Past(T[id], t)
    <3>1. ~Past(T[id], u)
      BY <1>2, <2>1, SameTime
    <3> QED BY <2>1, <3>1, PastStays
  <2>4. PICK e \in E : e.id = id /\ TimeOf(id, e) = TimeOf(id, T[id])
    BY <2>1, <2>2, <2>3 DEF Matches
  <2>5. PICK x \in N : x.id = e.id /\ TimeOf(x.id, x) = TimeOf(e.id, e)
    OBVIOUS
  <2> QED BY <2>1, <2>4, <2>5
<1> QED BY <1>1, <1>2 DEF Matches

(* The table matches the rows whenever the last refresh had read them. *)
LEMMA TableStep ==
  ASSUME TypeInv, BuildInv, FollowInv, TableInv, ScheduleNext
  PROVE  TableInv'
<1>0. edits \in Int /\ clock \in Int /\ clock <= clock /\ applied \in Int /\ applied <= edits /\ schedules \in Tables
  BY ScheduleAssumption DEF TypeInv, Gens
<1> DEFINE Resting == (cronOn \/ FreeSlots = Slots) /\ locker = Nobody /\ applied = edits /\ "overwritten" \notin tainted
<1>1. ASSUME Resting' => Resting,
             Resting => /\ clock' \in Int /\ clock <= clock' /\ DOMAIN schedules' = DOMAIN schedules
                        /\ \A j \in DOMAIN schedules :
                             /\ TimeOf(j, schedules'[j]) = TimeOf(j, schedules[j])
                             /\ schedules'[j].repo = schedules[j].repo /\ schedules'[j].active = schedules[j].active
                        /\ \A x \in entries' : \E e \in entries : x.id = e.id /\ TimeOf(x.id, x) = TimeOf(e.id, e)
                        /\ \A e \in entries : \E x \in entries' : x.id = e.id /\ TimeOf(x.id, x) = TimeOf(e.id, e)
      PROVE  TableInv'
  <2> SUFFICES ASSUME Resting' PROVE Matches(entries', schedules', clock')
    BY DEF TableInv
  <2>1. Resting
    BY <1>1
  <2>2. Matches(entries, schedules, clock)
    BY <2>1 DEF TableInv
  <2> HIDE DEF Resting
  <2> QED BY <1>0, <1>1, <2>1, <2>2, MatchesKept
<1>2. ASSUME ~Resting' PROVE TableInv'
  BY <1>2 DEF TableInv
<1>3. ASSUME Resting' => Resting, UNCHANGED <<schedules, entries, clock>> PROVE TableInv'
  <2> HIDE DEF Resting
  <2> QED BY <1>0, <1>1, <1>3
<1>4. ASSUME NEW i \in Slots, refreshes'[i].pc # "idle" PROVE FreeSlots' # Slots
  BY <1>4, IdleReading DEF FreeSlots
<1>5. ASSUME NEW i \in Slots, RefreshStep(i) PROVE TableInv'
  <2>1. CASE GetSchedules(i)
    <3>1. refreshes'[i].pc = "lock" /\ UNCHANGED <<schedules, clock, entries, cronOn, locker, edits, applied, tainted>>
      BY <2>1, GetSchedulesIs
    <3>2. Resting' => Resting
      BY <1>4, <3>1
    <3> HIDE DEF Resting
    <3> QED BY <1>3, <3>1, <3>2
  <2>2. CASE Lock(i)
    <3>1. locker' = i
      BY <2>2 DEF Lock
    <3>2. ~Resting'
      BY <3>1, ScheduleAssumption
    <3> HIDE DEF Resting
    <3> QED BY <1>2, <3>2
  <2>3. ASSUME NEW id \in Ids, RefreshRow(i, id) PROVE TableInv'
    <3>1. locker' = i
      BY <2>3 DEF RefreshRow
    <3>2. ~Resting'
      BY <3>1, ScheduleAssumption
    <3> HIDE DEF Resting
    <3> QED BY <1>2, <3>2
  <2>4. CASE Unlock(i)
    <3>1. /\ refreshes[i].pc = "rows" /\ refreshes[i].todo = {} /\ locker = i /\ applied' = refreshes[i].ver
          /\ UNCHANGED <<schedules, clock, entries, edits, tainted>>
      BY <2>4, UnlockIs
    <3>2. refreshes[i] \in RefreshType /\ refreshes[i].now <= clock /\ Building(entries, refreshes[i])
      BY <3>1 DEF TypeInv, RefreshOK, BuildInv
    <3> SUFFICES ASSUME Resting' PROVE Matches(entries', schedules', clock')
      BY DEF TableInv
    <3>3. Follows(schedules, refreshes[i].rows, refreshes[i].now)
      BY <3>1 DEF FollowInv
    <3>4. PICK f \in RefreshType : f = refreshes[i]
      BY <3>2
    <3> QED BY <1>0, <3>1, <3>2, <3>3, <3>4, BuiltMatches
  <2> QED BY <1>5, <2>1, <2>2, <2>3, <2>4 DEF RefreshStep
<1>6. ASSUME NEW id \in Ids, AddSchedule(id) \/ UpdateSchedule(id) \/ SetScheduleActive(id) \/ RemoveSchedule(id)
      PROVE  TableInv'
  <2>1. Edit
    BY <1>6, EditStep
  <2>2. applied' = applied /\ edits' = edits + 1
    BY <2>1 DEF Edit
  <2>3. ~Resting'
    BY <1>0, <2>2
  <2> HIDE DEF Resting
  <2> QED BY <1>2, <2>3
<1>7. CASE CronRun
  <2>1. FreeSlots = Slots /\ "overwritten" \notin tainted' => "overwritten" \notin tainted
    BY <1>7, CronRunIs
  <2>2. FreeSlots = Slots /\ UNCHANGED <<schedules, clock, locker, edits, applied>>
    BY <1>7, CronRunIs
  <2>3. Resting' => Resting
    BY <2>1, <2>2
  <2>4. /\ \A x \in entries' : \E e \in entries : x.id = e.id /\ TimeOf(x.id, x) = TimeOf(e.id, e)
        /\ \A e \in entries : \E x \in entries' : x.id = e.id /\ TimeOf(x.id, x) = TimeOf(e.id, e)
    BY <1>7, CronRunIs
  <2> HIDE DEF Resting
  <2> QED BY <1>0, <1>1, <2>2, <2>3, <2>4
<1>8. CASE Fire
  <2>1. cronOn = TRUE /\ UNCHANGED <<schedules, clock, locker, edits, applied, tainted>>
    BY <1>8, FireStarts
  <2>2. Resting' => Resting
    BY <2>1
  <2>3. /\ \A x \in entries' : \E e \in entries : x.id = e.id /\ TimeOf(x.id, x) = TimeOf(e.id, e)
        /\ \A e \in entries : \E x \in entries' : x.id = e.id /\ TimeOf(x.id, x) = TimeOf(e.id, e)
    BY <1>8, FireStarts
  <2> HIDE DEF Resting
  <2> QED BY <1>0, <1>1, <2>1, <2>2, <2>3
<1>9. ASSUME NEW r \in runs, GetSchedule(r) \/ GetLastRemoteCommitHash(r) PROVE TableInv'
  <2>1. UNCHANGED <<schedules, entries, clock, cronOn, refreshes, locker, edits, applied, tainted>>
    BY <1>9 DEF GetSchedule, GetLastRemoteCommitHash
  <2>2. Resting' => Resting
    BY <2>1 DEF FreeSlots
  <2> HIDE DEF Resting
  <2> QED BY <1>3, <2>1, <2>2
<1>10. ASSUME NEW r \in runs, SetScheduleCommitHash(r) PROVE TableInv'
  <2>1. UNCHANGED <<entries, clock, cronOn, refreshes, locker, edits, applied, tainted>>
    BY <1>10 DEF SetScheduleCommitHash
  <2>2. Resting' => Resting
    BY <2>1 DEF FreeSlots
  <2>3. /\ DOMAIN schedules' = DOMAIN schedules
        /\ \A j \in DOMAIN schedules :
             /\ TimeOf(j, schedules'[j]) = TimeOf(j, schedules[j])
             /\ schedules'[j].repo = schedules[j].repo /\ schedules'[j].active = schedules[j].active
    BY <1>10, HashRecorded
  <2> HIDE DEF Resting
  <2> QED BY <1>0, <1>1, <2>1, <2>2, <2>3
<1>11. ASSUME NEW r \in runs, GetTemplateFails(r) \/ AddTask(r) PROVE TableInv'
  <2>1. Ends(r)
    BY <1>11, RunEnds
  <2>2. UNCHANGED <<schedules, entries, clock, cronOn, locker, edits, applied>> /\ tainted \subseteq tainted'
    BY <2>1 DEF Ends
  <2>3. FreeSlots' = Slots => FreeSlots = Slots
    <3>1. CASE StartRefresh
      <4>1. PICK j \in Slots : refreshes' = [refreshes EXCEPT ![j] = Reading]
        BY <3>1, Starting
      <4>2. refreshes'[j].pc # "idle"
        BY <4>1, IdleReading DEF TypeInv
      <4> QED BY <1>4, <4>2
    <3>2. CASE refreshes' = refreshes
      BY <3>2 DEF FreeSlots
    <3> QED BY <2>1, <3>1, <3>2 DEF Ends
  <2>4. Resting' => Resting
    BY <2>2, <2>3
  <2> HIDE DEF Resting
  <2> QED BY <1>3, <2>2, <2>4
<1>12. CASE Push \/ Tick
  <2>1. /\ UNCHANGED <<schedules, entries, cronOn, refreshes, locker, edits, applied, tainted>>
        /\ clock' \in Int /\ clock <= clock'
    BY <1>0, <1>12 DEF Push, Tick
  <2>2. Resting' => Resting
    BY <2>1 DEF FreeSlots
  <2> HIDE DEF Resting
  <2> QED BY <1>1, <2>1, <2>2
<1>13. CASE Restart
  <2>1. cronOn' = FALSE /\ refreshes' = [i \in Slots |-> IF i = FirstSlot THEN Reading ELSE Idle]
    BY <1>13 DEF Restart
  <2>2. refreshes'[FirstSlot].pc # "idle"
    BY <2>1, FirstSlotIsOne, IdleReading
  <2>3. ~Resting'
    BY <1>4, <2>1, <2>2, FirstSlotIsOne
  <2> HIDE DEF Resting
  <2> QED BY <1>2, <2>3
<1> HIDE DEF Resting
<1> QED BY <1>5, <1>6, <1>7, <1>8, <1>9, <1>10, <1>11, <1>12, <1>13 DEF ScheduleNext, RunStep

-----------------------------------------------------------------------------
(* The invariant. *)

(* Nothing is under way when the server starts, and every row has the        *)
(* number 0, so a time is known by its schedule alone.                       *)
LEMMA SchedulesStart == ScheduleStart => SchedulesInv
<1> SUFFICES ASSUME ScheduleStart PROVE SchedulesInv
  OBVIOUS
<1>1. TypeInv
  BY TypeStart
<1>2. entries = {} /\ runs = {} /\ locker = Nobody /\ cronOn = FALSE /\ schedules \in Tables
  BY DEF ScheduleStart
<1>3. \A i \in Slots : refreshes[i] \in {Idle, Reading}
  BY DEF ScheduleStart
<1>4. \A i \in Slots : refreshes[i].rows = NoRows /\ refreshes[i].pc \in {"idle", "read"}
  BY <1>3 DEF Idle, Reading
<1>5. EntriesInv
  BY <1>2 DEF EntriesInv
<1>6. TimesInv
  <2>1. \A x \in Times(schedules, refreshes, entries) : x \in TableTimes(schedules)
    BY <1>2, <1>4, EmptyTable DEF Times, RefreshesTimes, EntryTimes, TableTimes
  <2>2. \A x \in TableTimes(schedules) : \E id \in DOMAIN schedules : x = TimeOf(id, schedules[id]) /\ x.id = id /\ x.gen = 0
    BY DEF TableTimes, TimeOf, ScheduleStart
  <2>3. \A x, y \in Times(schedules, refreshes, entries) : x.id = y.id => x = y
    BY <2>1, <2>2
  <2>4. \A id \in Ids, g \in Gens : ~Begun(id, g, fired, runs)
    BY <1>2 DEF Begun, ScheduleStart
  <2>5. edits \in Nat /\ 0 \in Gens
    BY ScheduleAssumption DEF ScheduleStart, Gens
  <2>6. \A x \in Times(schedules, refreshes, entries) : x.gen <= edits
    BY <2>1, <2>2, <2>5
  <2>7. \A x \in Times(schedules, refreshes, entries) : x.id \in Ids /\ x.gen \in Gens
    BY <1>2, <2>1, <2>2, <2>5, TableRow
  <2>8. \A x \in Times(schedules, refreshes, entries) : ~Begun(x.id, x.gen, fired, runs)
    BY <2>4, <2>7
  <2> HIDE DEF Times, Begun
  <2> QED BY <2>3, <2>4, <2>6, <2>8 DEF TimesInv
<1>7. StartedInv
  BY <1>2 DEF StartedInv
<1>8. BuildInv
  BY <1>2, ScheduleAssumption DEF BuildInv
<1>9. FollowInv
  BY <1>4 DEF FollowInv
<1>10. TableInv
  <2>1. refreshes[FirstSlot] = Reading
    BY FirstSlotIsOne DEF ScheduleStart
  <2>2. Reading # Idle
    BY IdleReading DEF Idle, Reading
  <2> QED BY <1>2, <2>1, <2>2, FirstSlotIsOne DEF TableInv, FreeSlots
<1>11. HashInv
  BY <1>2 DEF HashInv, CommitNotSkipped, ScheduleStart
<1> QED BY <1>1, <1>5, <1>6, <1>7, <1>8, <1>9, <1>10, <1>11 DEF SchedulesInv

(* Nothing changes while nothing happens. *)
LEMMA SchedulesStutter ==
  ASSUME SchedulesInv, UNCHANGED scheduleVars
  PROVE  SchedulesInv'
BY DEF SchedulesInv, scheduleVars, TypeInv, RefreshOK, EntriesInv, NextOK, TimesInv, StartedInv, BuildInv,
       Building, FollowInv, Follows, TableInv, Matches, HashInv, CommitNotSkipped, FreeSlots

(* SchedulesInv holds of every behaviour of the pool: whatever refreshes     *)
(* overlap, a run time that was begun is past wherever it is kept, and what  *)
(* the newest refresh read is what the database holds but for the schedules  *)
(* that ended and the commits recorded since.                                *)
THEOREM SchedulesInvariant == ScheduleSpec => []SchedulesInv
<1>1. SchedulesInv /\ ScheduleNext => SchedulesInv'
  BY TypeStep, EntriesStep, TimesStep, StartedStep, BuildStep, FollowStep, TableStep, HashStep DEF SchedulesInv
<1>2. SchedulesInv /\ [ScheduleNext]_scheduleVars => SchedulesInv'
  BY <1>1, SchedulesStutter
<1> QED BY SchedulesStart, <1>2, PTL DEF ScheduleSpec

(* Once no refresh is under way, the cron table of Refresh is what the rows  *)
(* of the last change ask for.                                               *)
LEMMA TableAtRest ==
  ASSUME TypeInv, EntriesInv, TableInv
  PROVE  TableMatchesRows
<1> SUFFICES ASSUME cronOn, FreeSlots = Slots, applied = edits, "overwritten" \notin tainted, NEW id \in Ids
             PROVE  LET row == IF id \in DOMAIN schedules THEN {schedules[id]} ELSE {}
                    IN /\ (\E e \in entries : e.id = id /\ e.type = "cron") <=> (\E s \in row : Wanted(s) /\ s.type = "cron")
                       /\ (\E e \in entries : e.id = id /\ e.next = e.runAt) =>
                            \E s \in row : Wanted(s) /\ s.type = "run_at"
                       /\ \A s \in row : (Wanted(s) /\ s.type = "run_at" /\ s.runAt > clock) =>
                            \E e \in entries : e.id = id /\ e.next = s.runAt /\ e.gen = s.gen
  BY DEF TableMatchesRows
<1> DEFINE row == IF id \in DOMAIN schedules THEN {schedules[id]} ELSE {}
<1>1. locker = Nobody
  <2>1. \A i \in Slots : refreshes[i].pc # "rows"
    BY DEF FreeSlots, Idle
  <2> QED BY <2>1 DEF TypeInv, RefreshOK
<1>2. Matches(entries, schedules, clock)
  BY <1>1 DEF TableInv
<1>3. clock \in 0..MaxTime /\ entries \subseteq EntryType /\ schedules \in Tables /\ MaxTime \in Nat
  BY ScheduleAssumption DEF TypeInv
<1>4. \A s \in row : id \in DOMAIN schedules /\ s = schedules[id] /\ s \in Row
  BY <1>3, TableRow
<1>5. \A e \in entries : e.id = id => \E s \in row : Wanted(s) /\ s.type = e.type
  BY <1>2 DEF Matches
<1>6. \A s \in row : Wanted(s) /\ ~Past(s, clock) =>
        \E e \in entries : e.id = id /\ e.type = s.type /\ e.runAt = s.runAt /\ e.gen = s.gen
  <2> SUFFICES ASSUME NEW s \in row, Wanted(s), ~Past(s, clock)
               PROVE  \E e \in entries : e.id = id /\ e.type = s.type /\ e.runAt = s.runAt /\ e.gen = s.gen
    OBVIOUS
  <2>1. id \in DOMAIN schedules /\ s = schedules[id]
    BY <1>4
  <2> HIDE DEF row
  <2>2. PICK e \in entries : e.id = id /\ TimeOf(id, e) = TimeOf(id, s)
    BY <1>2, <2>1 DEF Matches
  <2> QED BY <2>2, TimeFields
<1>7. \A e \in entries : /\ e.type \in Types /\ e.runAt \in 0..MaxTime
                         /\ e.type = "cron" => e.next # e.runAt
                         /\ e.type = "run_at" /\ e.runAt > clock => e.next = e.runAt
  BY <1>3 DEF EntriesInv, NextOK, EntryType
<1>8. (\E e \in entries : e.id = id /\ e.type = "cron") <=> (\E s \in row : Wanted(s) /\ s.type = "cron")
  <2>1. \A s \in row : s.type = "cron" => ~Past(s, clock)
    BY DEF Past
  <2> HIDE DEF row
  <2> QED BY <1>5, <1>6, <2>1
<1>9. (\E e \in entries : e.id = id /\ e.next = e.runAt) => \E s \in row : Wanted(s) /\ s.type = "run_at"
  <2> HIDE DEF row
  <2> QED BY <1>5, <1>7 DEF Types
<1>10. ASSUME NEW s \in row, Wanted(s), s.type = "run_at", s.runAt > clock
       PROVE  \E e \in entries : e.id = id /\ e.next = s.runAt /\ e.gen = s.gen
  <2>1. s.runAt \in 0..MaxTime
    BY <1>4 DEF Row
  <2>2. ~Past(s, clock)
    BY <1>3, <1>10, <2>1 DEF Past
  <2> HIDE DEF row
  <2> QED BY <1>6, <1>7, <1>10, <2>2
<1> QED BY <1>8, <1>9, <1>10

(* The schedules fire what was asked for: a run time starts at most one task *)
(* across refreshes, edits and restarts, the cron table is what the rows say *)
(* and no commit is passed over.                                             *)
THEOREM SchedulesSoundHolds == ScheduleSpec => []SchedulesSound
<1>1. SchedulesInv => SchedulesSound
  <2> SUFFICES ASSUME SchedulesInv PROVE SchedulesSound
    OBVIOUS
  <2>1. TypeInv /\ EntriesInv /\ TableInv /\ HashInv
    BY DEF SchedulesInv
  <2>2. ScheduleTypeOK
    BY <2>1, TableRow DEF TypeInv, ScheduleTypeOK, RefreshOK, RefreshType, RunType, Reasons
  <2>3. AtMostOnce
    BY <2>1 DEF TypeInv, AtMostOnce
  <2>4. TableMatchesRows
    BY <2>1, TableAtRest
  <2>5. CommitNotSkipped
    BY <2>1 DEF HashInv
  <2> QED BY <2>2, <2>3, <2>4, <2>5 DEF SchedulesSound
<1> QED BY <1>1, SchedulesInvariant, PTL
=============================================================================
