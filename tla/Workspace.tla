----------------------------- MODULE Workspace ------------------------------
(* What a LocalExecutor prepares on disk before its app starts, and takes    *)
(* away afterwards: the working copy of the repository that all tasks of a   *)
(* template share, the inventory, the requirements and the keys. Git runs    *)
(* under one lock per directory; clearing the cache takes no lock.           *)
EXTENDS Integers, FiniteSets

CONSTANTS
  Executors,      \* LocalExecutors, all of one template
  Unlocked,       \* a free lock
  NoCommit,       \* no commit
  Commits,
  Older,          \* pairs of a commit and itself or one of its descendants
  Requirements,   \* the requirements file in a commit, "none" if there is none
  GitAttempts     \* util.Config.GitAttempts

(* The history of a repository is a partial order.                           *)
ASSUME WorkspaceAssumption ==
  /\ Unlocked \notin Executors
  /\ Older \subseteq Commits \X Commits
  /\ \A c \in Commits : <<c, c>> \in Older
  /\ \A a, b \in Commits : <<a, b>> \in Older /\ <<b, a>> \in Older => a = b
  /\ \A a, b, c \in Commits : <<a, b>> \in Older /\ <<b, c>> \in Older => <<a, c>> \in Older

VARIABLES
  job,            \* the template and its tasks
  heads,          \* the branches of the remote repositories
  copies,         \* the working copies, by directory
  holder,         \* KeyLock: who holds the lock of a directory
  ex,             \* the executors
  disk,           \* the other files of the template in the project's directory
  clearing,       \* what ClearDir has listed and not yet removed
  budget          \* faults, pushes, clears and crashes still to come

workspaceVars == <<job, heads, copies, holder, ex, disk, clearing, budget>>

Dirs == {"repo", "inventory"}
(* whole: no file of the commit is missing; cut: files are missing because a *)
(* clone or a removal was cut off, which is kept for the properties only.    *)
Absent == [state |-> "none", head |-> NoCommit, sub |-> NoCommit, backend |-> FALSE, whole |-> TRUE, cut |-> FALSE]
Partial == [Absent EXCEPT !.state = "partial"]
Cloned(c) == [Absent EXCEPT !.state = "copy", !.head = c, !.sub = c]

(* The steps under the lock of a directory, and those after the repository's. *)
GitSteps == {"validate", "canpull", "pull", "submodules", "remove", "clone", "cloning", "checkout"}
Settled == {"keys", "inventory", "install", "galaxy", "hash", "vault", "app"}
Ended == {"done", "dead"}

Contents == {Requirements[c] : c \in Commits \union {NoCommit}} \union {"none"}

Live == {e \in Executors : ex[e].at \notin Ended \union {"new"}}
Settling(e) == ex[e].at \in Settled \/ (ex[e].dir = "inventory" /\ ex[e].at \in GitSteps \union {"lock"})

Executor == [at |-> "new", dir |-> "repo", attempt |-> 1, commit |-> NoCommit, agent |-> "none",
             backend |-> FALSE, seen |-> {}, rewritten |-> FALSE, disturbed |-> FALSE]

(* A template and its tasks, and what earlier ones have left on the disk:    *)
(* nobody runs yet, and the hash is that of requirements in the home.        *)
Template == [app : {"ansible", "terraform", "bash"}, inventory : {"static", "file", "none"},
             key : {"none", "ssh", "broken"}, become : {"none", "wrong"}, branch : DOMAIN heads \union {""},
             parallel : BOOLEAN, allowBranch : BOOLEAN, skip : BOOLEAN, allowSkip : BOOLEAN,
             backend : BOOLEAN, local : BOOLEAN]
Task == [branch : DOMAIN heads \union {""}, pin : Commits \union {NoCommit}, skip : BOOLEAN]

WorkspaceStart ==
  /\ heads \in [DOMAIN heads -> Commits] /\ {"main", "inventory"} \subseteq DOMAIN heads
  /\ job \in [template : Template, task : [Executors -> Task]]
  /\ copies \in [Dirs -> {Absent} \union {Cloned(c) : c \in Commits}]
  /\ job.template.local => copies["repo"] # Absent
  /\ holder = [d \in Dirs |-> Unlocked] /\ ex = [e \in Executors |-> Executor] /\ clearing = {}
  /\ disk \in [inventory : {FALSE}, raced : {FALSE}, hash : Contents, home : SUBSET Contents]
  /\ disk.hash \in disk.home \union {"none"}
  /\ budget \in [faults : Nat, pushes : Nat, clears : Nat, crashes : Nat]

-----------------------------------------------------------------------------
(* The branch of the template before the repository's, and the task's before *)
(* both where the template allows it.                                        *)
resolveGitBranch(e) ==
  LET tpl == job.template task == job.task[e]
  IN IF tpl.allowBranch /\ task.branch # "" THEN task.branch
     ELSE IF tpl.branch # "" THEN tpl.branch ELSE "main"

Remote(e) == IF ex[e].dir = "repo" THEN resolveGitBranch(e) ELSE "inventory"
RemoteHead(e) == heads[Remote(e)]
Copy(e) == copies[ex[e].dir]

skipGalaxyInstall(e) == IF job.template.allowSkip THEN job.task[e].skip ELSE job.template.skip

(* The requirements file in the working copy as it is now. *)
Content == Requirements[copies["repo"].head]

-----------------------------------------------------------------------------
(* A command, a file operation or the installation of a key fails; a git     *)
(* command fails when its own key cannot be installed, too.                  *)
Fault == budget.faults > 0
Spend(kind) == budget' = [budget EXCEPT ![kind] = @ - 1]
Luck == UNCHANGED budget

(* The executor goes on as f; the others lose what they had settled on when  *)
(* it changes what they share.                                               *)
Advance(e, f) == ex' = [ex EXCEPT ![e] = f]
Disturb(e, f, changed) ==
  ex' = [o \in Executors |-> IF o = e THEN f
                             ELSE [ex[o] EXCEPT !.disturbed = @ \/ (changed /\ Settling(o))]]
Goto(e, p) == Advance(e, [ex[e] EXCEPT !.at = p])

(* An error ends the preparation: the deferred unlock runs, then Cleanup.    *)
ReleaseLock(e) == holder' = [d \in Dirs |-> IF holder[d] = e THEN Unlocked ELSE holder[d]]
Fail(e) == Goto(e, "cleanup") /\ ReleaseLock(e)

(* os.RemoveAll goes file by file: .git may outlast the files, or the other  *)
(* way round. What is cut off stays as it is.                                *)
Remains(d) == {[copies[d] EXCEPT !.whole = FALSE], Partial}
CutOff(d) == [copies[d] EXCEPT !.cut = ~copies[d].whole]

-----------------------------------------------------------------------------
(* prepareRun: the temporary directories, then the repository. A repository  *)
(* that is a local path is used in place. Without AllowParallelTasks the     *)
(* task pool starts a task only when no other one of the template executes.  *)
StartPrepare(e) ==
  /\ ex[e].at = "new" /\ (job.template.parallel \/ Live = {})
  /\ \/ Goto(e, IF job.template.local THEN "keys" ELSE "lock") /\ Luck
     \/ Fault /\ Goto(e, "cleanup") /\ Spend("faults")
  /\ disk' = [disk EXCEPT !.raced = @ \/ clearing # {}]
  /\ UNCHANGED <<job, heads, copies, holder, clearing>>

(* KeyLock.Lock: the inventory's directory is not looked at first. *)
LockDir(e) ==
  /\ ex[e].at = "lock" /\ holder[ex[e].dir] = Unlocked
  /\ holder' = [holder EXCEPT ![ex[e].dir] = e]
  /\ Advance(e, IF ex[e].dir = "repo"
                  THEN [ex[e] EXCEPT !.at = "validate", !.seen = {RemoteHead(e)}]
                  ELSE [ex[e] EXCEPT !.at = "canpull"])
  /\ UNCHANGED <<job, heads, copies, disk, clearing, budget>>

(* ValidateRepo: a directory that cannot be looked at is removed.            *)
ValidateRepo(e) ==
  /\ ex[e].at = "validate"
  /\ \/ Goto(e, IF Copy(e).state = "none" THEN "clone" ELSE "canpull") /\ Luck
     \/ Fault /\ Goto(e, "remove") /\ Spend("faults")
  /\ UNCHANGED <<job, heads, copies, holder, disk, clearing>>

(* CanBePulled: git fetch, which is not retried, and merge-base: neither     *)
(* looks at the files, but both need what they read of .git.                 *)
CanBePulled(e) ==
  /\ ex[e].at = "canpull"
  /\ LET ancestor == Copy(e).state = "copy" /\ <<Copy(e).head, RemoteHead(e)>> \in Older
     IN \/ ancestor /\ Goto(e, "pull") /\ Luck
        \/ ~(ancestor /\ Copy(e).whole) /\ Goto(e, "remove") /\ Luck
        \/ Fault /\ Goto(e, "remove") /\ Spend("faults")
  /\ UNCHANGED <<job, heads, copies, holder, disk, clearing>>

(* GitRepository.retry: the operation again, or what follows its failure.    *)
Retry(e, again, after, changed) ==
  Disturb(e, IF ex[e].attempt < GitAttempts
               THEN [ex[e] EXCEPT !.at = again, !.attempt = @ + 1]
               ELSE [ex[e] EXCEPT !.at = after, !.attempt = 1], changed)

(* git pull origin: forward to the branch, or nothing to do; histories that  *)
(* diverge are refused. What is missing may stop it, and stays missing.      *)
Pull(e) ==
  /\ ex[e].at = "pull"
  /\ \/ /\ Copy(e).state = "copy"
        /\ \/ /\ <<Copy(e).head, RemoteHead(e)>> \in Older
              /\ copies' = [copies EXCEPT ![ex[e].dir].head = RemoteHead(e)]
              /\ Disturb(e, [ex[e] EXCEPT !.at = "submodules"], RemoteHead(e) # Copy(e).head)
           \/ /\ <<RemoteHead(e), Copy(e).head>> \in Older /\ RemoteHead(e) # Copy(e).head
              /\ Goto(e, "submodules") /\ UNCHANGED copies
        /\ Luck
     \/ /\ \/ /\ \/ Copy(e).state # "copy" \/ ~Copy(e).whole
                 \/ <<Copy(e).head, RemoteHead(e)>> \notin Older /\ <<RemoteHead(e), Copy(e).head>> \notin Older
              /\ Luck
           \/ Fault /\ Spend("faults")
        /\ Retry(e, "pull", "remove", FALSE) /\ UNCHANGED copies
  /\ UNCHANGED <<job, heads, holder, disk, clearing>>

\* Mutant: the lock covers the update of the working copy only.
UpdatedUnlocks(e, c) ==
  /\ copies' = [copies EXCEPT ![ex[e].dir] = c]
  /\ Disturb(e, [ex[e] EXCEPT !.attempt = 1, !.at = IF ex[e].dir = "repo" THEN "checkout" ELSE "install"],
             c # Copy(e))
  /\ ReleaseLock(e)

(* The working copy c is up to date: the repository is checked out next, the *)
(* inventory's directory is unlocked.                                        *)
Updated(e, c) ==
  /\ copies' = [copies EXCEPT ![ex[e].dir] = c]
  /\ IF ex[e].dir = "repo"
       THEN /\ Disturb(e, [ex[e] EXCEPT !.at = "checkout", !.attempt = 1], c # Copy(e))
            /\ UNCHANGED holder
       ELSE /\ Disturb(e, [ex[e] EXCEPT !.at = "install", !.attempt = 1], c # Copy(e))
            /\ ReleaseLock(e)

(* git submodule update, the second command of a pull. *)
UpdateSubmodules(e) ==
  /\ ex[e].at = "submodules"
  /\ \/ /\ Copy(e).state = "copy" /\ Updated(e, [Copy(e) EXCEPT !.sub = Copy(e).head]) /\ Luck
     \/ /\ ((Copy(e).state # "copy" \/ ~Copy(e).whole) /\ Luck) \/ (Fault /\ Spend("faults"))
        /\ Retry(e, "pull", "remove", FALSE) /\ UNCHANGED <<copies, holder>>
  /\ UNCHANGED <<job, heads, disk, clearing>>

(* What cannot be pulled is removed, file by file, and cloned from scratch.  *)
RemoveFiles(e) ==
  /\ ex[e].at = "remove" /\ Copy(e).state = "copy"
  /\ \E c \in Remains(ex[e].dir) : copies' = [copies EXCEPT ![ex[e].dir] = c]
  /\ Disturb(e, ex[e], TRUE)
  /\ UNCHANGED <<job, heads, holder, disk, clearing, budget>>

RemoveCopy(e) ==
  /\ ex[e].at = "remove"
  /\ \/ /\ copies' = [copies EXCEPT ![ex[e].dir] = Absent]
        /\ Disturb(e, [ex[e] EXCEPT !.at = "clone", !.attempt = 1], Copy(e) # Absent)
        /\ UNCHANGED holder /\ Luck
     \/ /\ copies' = [copies EXCEPT ![ex[e].dir] = CutOff(ex[e].dir)]
        /\ Fault /\ Fail(e) /\ Spend("faults")
  /\ UNCHANGED <<job, heads, disk, clearing>>

(* GitRepository.Clone after an error: the partial copy goes, unless that    *)
(* fails, which nobody notices.                                              *)
CloneFails(e, faults) ==
  /\ \E left \in {0, 1} :
       /\ faults + left <= budget.faults
       /\ copies' = [copies EXCEPT ![ex[e].dir] = IF left = 1 THEN CutOff(ex[e].dir) ELSE Absent]
       /\ budget' = [budget EXCEPT !.faults = @ - faults - left]
  /\ Retry(e, "clone", "cleanup", Copy(e).state = "copy")
  /\ IF ex'[e].at = "cleanup" THEN ReleaseLock(e) ELSE UNCHANGED holder

(* git clone makes the directory and fills it; it refuses one that has files. *)
CloneStarts(e) ==
  /\ ex[e].at = "clone"
  /\ \/ /\ Copy(e).state = "none"
        /\ copies' = [copies EXCEPT ![ex[e].dir] = Partial]
        /\ Goto(e, "cloning") /\ UNCHANGED holder /\ Luck
     \/ Copy(e).state # "none" /\ CloneFails(e, 0)
  /\ UNCHANGED <<job, heads, disk, clearing>>

(* .git is there with its HEAD before all the files are, or before the       *)
(* submodules.                                                               *)
CloneFills(e) ==
  /\ ex[e].at = "cloning" /\ Copy(e).state = "partial"
  /\ \E whole \in BOOLEAN :
       copies' = [copies EXCEPT ![ex[e].dir] = [Cloned(RemoteHead(e)) EXCEPT !.sub = NoCommit, !.whole = whole]]
  /\ UNCHANGED <<job, heads, holder, ex, disk, clearing, budget>>

CloneEnds(e) ==
  /\ ex[e].at = "cloning"
  /\ \/ Copy(e).state = "copy" /\ Updated(e, Cloned(Copy(e).head)) /\ Luck
     \/ CloneFails(e, IF Copy(e).state = "none" THEN 0 ELSE 1)
  /\ UNCHANGED <<job, heads, disk, clearing>>

(* checkoutRepository: the commit of the task, without the submodules, or    *)
(* the one the branch is at, which the task records.                         *)
CheckoutRepository(e) ==
  /\ ex[e].at = "checkout"
  /\ \/ /\ Copy(e).state = "copy"
        /\ LET pin == job.task[e].pin
               c == IF pin = NoCommit THEN Copy(e).head ELSE pin
           IN /\ copies' = [copies EXCEPT !["repo"].head = c]
              /\ Disturb(e, [ex[e] EXCEPT !.at = "keys", !.commit = c], c # Copy(e).head)
        /\ ReleaseLock(e) /\ Luck
     \/ /\ ((Copy(e).state # "copy" \/ ~Copy(e).whole) /\ Luck) \/ (Fault /\ Spend("faults"))
        /\ Fail(e) /\ UNCHANGED copies
  /\ UNCHANGED <<job, heads, disk, clearing>>

-----------------------------------------------------------------------------
(* An SSH key is served by an agent; one that cannot be parsed is an error.  *)
StartSSHAgent(key) == IF key = "broken" THEN "failed" ELSE "open"

(* KeyInstaller.Install for the user's key. *)
Install(key) == [agent |-> IF key \in {"ssh", "broken"} THEN StartSSHAgent(key) ELSE "none",
                 err |-> key = "broken"]

\* Mutant: the error of a key returns before Cleanup is deferred.
InstallKeysUndeferred(e) ==
  /\ ex[e].at = "keys"
  /\ LET user == Install(job.template.key)
         err == user.err \/ job.template.become = "wrong"
     IN Advance(e, [ex[e] EXCEPT !.at = IF err THEN "done" ELSE "inventory", !.agent = user.agent])
  /\ UNCHANGED <<job, heads, copies, holder, disk, clearing, budget>>

(* installInventory: an agent for the user's key, the become key, which must *)
(* be of the right type, and then the inventory itself.                      *)
InstallKeys(e) ==
  /\ ex[e].at = "keys"
  /\ LET user == Install(job.template.key)
         err == user.err \/ job.template.become = "wrong"
     IN Advance(e, [ex[e] EXCEPT !.at = IF err THEN "cleanup" ELSE "inventory", !.agent = user.agent])
  /\ UNCHANGED <<job, heads, copies, holder, disk, clearing, budget>>

InstallInventory(e) ==
  /\ ex[e].at = "inventory"
  /\ CASE job.template.inventory = "static" ->
            \/ Goto(e, "install") /\ disk' = [disk EXCEPT !.inventory = TRUE] /\ Luck
            \/ Fault /\ Goto(e, "cleanup") /\ UNCHANGED disk /\ Spend("faults")
       [] job.template.inventory = "file" ->
            Advance(e, [ex[e] EXCEPT !.at = "lock", !.dir = "inventory"]) /\ UNCHANGED disk /\ Luck
       [] OTHER -> Goto(e, "install") /\ UNCHANGED disk /\ Luck
  /\ UNCHANGED <<job, heads, copies, holder, clearing>>

(* TerraformApp: the backend file, which Clear removes once it is named, and *)
(* terraform init with the selection of the workspace.                       *)
TerraformInit(e) ==
  LET written == [ex[e] EXCEPT !.backend = job.template.backend]
      missing == copies["repo"].state = "none"
  IN /\ \/ ~missing /\ Advance(e, [written EXCEPT !.at = "vault"]) /\ Luck
        \/ /\ (missing /\ Luck) \/ (Fault /\ Spend("faults"))
           /\ Advance(e, [written EXCEPT !.at = "cleanup"])
     /\ copies' = [copies EXCEPT !["repo"].backend = @ \/ (job.template.backend /\ ~missing)]

hasRequirementsChanges == Content # disk.hash

(* AnsibleApp: galaxy runs when the requirements are not those of the hash.  *)
(* One requirements file stands for each of those AnsibleApp looks for; it   *)
(* may be one of the files that are missing.                                 *)
InstallRequirements(e) ==
  /\ ex[e].at = "install"
  /\ CASE job.template.app = "terraform" -> TerraformInit(e)
       [] job.template.app = "ansible" ->
            /\ \/ Goto(e, IF skipGalaxyInstall(e) \/ Content = "none" \/ ~hasRequirementsChanges THEN "vault" ELSE "galaxy")
               \/ ~copies["repo"].whole /\ Goto(e, "vault")
            /\ UNCHANGED copies /\ Luck
       [] OTHER -> Goto(e, "vault") /\ UNCHANGED copies /\ Luck
  /\ UNCHANGED <<job, heads, holder, disk, clearing>>

RunGalaxy(e) ==
  /\ ex[e].at = "galaxy"
  /\ \/ /\ Content # "none" /\ Goto(e, "hash")
        /\ disk' = [disk EXCEPT !.home = @ \union {Content}] /\ Luck
     \/ /\ (Content = "none" /\ Luck) \/ (Fault /\ Spend("faults"))
        /\ Goto(e, "cleanup") /\ UNCHANGED disk
  /\ UNCHANGED <<job, heads, copies, holder, clearing>>

(* The hash is that of the file after the installation. *)
writeMD5Hash(e) ==
  /\ ex[e].at = "hash"
  /\ \/ /\ Content # "none" /\ Goto(e, "vault") /\ disk' = [disk EXCEPT !.hash = Content] /\ Luck
     \/ /\ (Content = "none" /\ Luck) \/ (Fault /\ Spend("faults"))
        /\ Goto(e, "cleanup") /\ UNCHANGED disk
  /\ UNCHANGED <<job, heads, copies, holder, clearing>>

(* installVaultKeyFiles and the arguments; a killed task starts no app.      *)
InstallVaultKeyFiles(e) ==
  /\ ex[e].at = "vault"
  /\ \/ \E killed \in BOOLEAN : Goto(e, IF killed THEN "cleanup" ELSE "app") /\ Luck
     \/ Fault /\ Goto(e, "cleanup") /\ Spend("faults")
  /\ UNCHANGED <<job, heads, copies, holder, disk, clearing>>

AppReturns(e) ==
  /\ ex[e].at = "app" /\ Goto(e, "cleanup")
  /\ UNCHANGED <<job, heads, copies, holder, disk, clearing, budget>>

destroyKeys(e) == IF ex[e].agent = "open" THEN "closed" ELSE ex[e].agent
destroyInventoryFile == disk' = [disk EXCEPT !.inventory = @ /\ job.template.inventory # "static"]
ClearApp(e) == copies' = [copies EXCEPT !["repo"].backend = @ /\ ~ex[e].backend]

(* Cleanup: the agent is closed, the inventory file and the backend file go, *)
(* also those of a task that still runs.                                     *)
Cleanup(e) ==
  /\ ex[e].at = "cleanup"
  /\ Disturb(e, [ex[e] EXCEPT !.at = "done", !.agent = destroyKeys(e)],
             job.template.inventory = "static" \/ ex[e].backend)
  /\ destroyInventoryFile /\ ClearApp(e)
  /\ UNCHANGED <<job, heads, holder, clearing, budget>>

-----------------------------------------------------------------------------
(* A branch of a remote repository moves, forward or to another history.     *)
PushBranch(b, c) ==
  /\ budget.pushes > 0 /\ c # heads[b]
  /\ heads' = [heads EXCEPT ![b] = c]
  /\ LET updating == {e \in Executors : holder["repo"] = e /\ resolveGitBranch(e) = b}
     IN ex' = [e \in Executors |->
                 IF e \in updating
                   THEN [ex[e] EXCEPT !.seen = @ \union {c}, !.rewritten = @ \/ <<heads[b], c>> \notin Older]
                   ELSE ex[e]]
  /\ Spend("pushes")
  /\ UNCHANGED <<job, copies, holder, disk, clearing>>

(* What a clear removes: all of the project's directory, or the directories  *)
(* that begin with the repository's prefix.                                  *)
RepositoryItems == {"repo", "home", "internal"}
ProjectItems == RepositoryItems \union {"inventory", "file"}

(* ClearDir lists the directory ... *)
ClearStarts ==
  /\ clearing = {} /\ budget.clears > 0 /\ Spend("clears")
  /\ clearing' \in {RepositoryItems, ProjectItems}
  /\ disk' = [disk EXCEPT !.raced = @ \/ Live # {}]
  /\ UNCHANGED <<job, heads, copies, holder, ex>>

(* ... and removes what it has listed, in any order and file by file ...     *)
DisturbAll == ex' = [e \in Executors |-> [ex[e] EXCEPT !.disturbed = @ \/ Settling(e)]]

ClearFiles(d) ==
  /\ d \in clearing /\ copies[d].state = "copy" /\ ~(d = "repo" /\ job.template.local)
  /\ \E c \in Remains(d) : copies' = [copies EXCEPT ![d] = c]
  /\ DisturbAll
  /\ UNCHANGED <<job, heads, holder, disk, clearing, budget>>

ClearOne(i) ==
  /\ i \in clearing /\ clearing' = clearing \ {i}
  /\ copies' = [d \in Dirs |-> IF d = i /\ ~(d = "repo" /\ job.template.local) THEN Absent ELSE copies[d]]
  /\ disk' = [disk EXCEPT !.home = IF i = "home" THEN {} ELSE @,
                          !.hash = IF i = "internal" THEN "none" ELSE @,
                          !.inventory = @ /\ i # "file"]
  /\ DisturbAll
  /\ UNCHANGED <<job, heads, holder, budget>>

(* What is being removed or cloned is left as it is, part of a home perhaps.  *)
Interrupted ==
  /\ copies' = [d \in Dirs |-> CutOff(d)] /\ clearing' = {}
  /\ \E home \in IF "home" \in clearing THEN SUBSET disk.home ELSE {disk.home} :
       disk' = [disk EXCEPT !.home = home, !.raced = @ \/ clearing # {}]

(* ... until one cannot be removed. *)
ClearFails ==
  /\ clearing # {} /\ Fault /\ Spend("faults") /\ Interrupted
  /\ UNCHANGED <<job, heads, holder, ex>>

(* The process ends; locks, agents and executors go with it, the files stay. *)
Crash ==
  /\ budget.crashes > 0 /\ (Live # {} \/ clearing # {}) /\ Spend("crashes")
  /\ ex' = [e \in Executors |-> IF e \in Live THEN [ex[e] EXCEPT !.at = "dead", !.agent = "none"] ELSE ex[e]]
  /\ holder' = [d \in Dirs |-> Unlocked] /\ Interrupted
  /\ UNCHANGED <<job, heads>>

-----------------------------------------------------------------------------
UpdateStep(e) == \/ LockDir(e) \/ ValidateRepo(e) \/ CanBePulled(e) \/ Pull(e) \/ UpdateSubmodules(e)
                 \/ RemoveFiles(e) \/ RemoveCopy(e) \/ CloneStarts(e) \/ CloneFills(e) \/ CloneEnds(e)
                 \/ CheckoutRepository(e)
InstallStep(e) == \/ InstallKeys(e) \/ InstallInventory(e) \/ InstallRequirements(e) \/ RunGalaxy(e)
                  \/ writeMD5Hash(e) \/ InstallVaultKeyFiles(e) \/ AppReturns(e) \/ Cleanup(e)

WorkspaceNext ==
  \/ \E e \in Executors : StartPrepare(e) \/ UpdateStep(e) \/ InstallStep(e)
  \/ \E b \in DOMAIN heads, c \in Commits : PushBranch(b, c)
  \/ ClearStarts \/ ClearFails \/ Crash
  \/ \E i \in clearing : ClearOne(i)
  \/ \E d \in Dirs : ClearFiles(d)

WorkspaceSpec == WorkspaceStart /\ [][WorkspaceNext]_workspaceVars

-----------------------------------------------------------------------------
(* Whatever fails, a lock is held by exactly the executor that runs git in   *)
(* that directory (updateAndCheckoutRepository, cloneInventoryRepo).         *)
LocksMatch ==
  /\ \A e \in Executors : ex[e].at \in GitSteps => holder[ex[e].dir] = e
  /\ \A d \in Dirs : holder[d] # Unlocked => ex[holder[d]].at \in GitSteps /\ ex[holder[d]].dir = d

(* Files are missing from a copy only if the clone or the removal that took  *)
(* them was cut off, by an error or a crash, or if the cache was cleared     *)
(* under a task: .git then outlasts them, and fetch and merge-base take such *)
(* a copy for one that can be pulled (CanBePulled, updateRepository).        *)
Complete(d) == copies[d].whole \/ copies[d].cut \/ disk.raced

(* From the unlock to the end of its app, unless another task or a clear     *)
(* touches what it shares, a task works on the commit it records: the one it *)
(* asks for, or one its branch was at after it took the lock (or older, if   *)
(* the branch was rewritten meanwhile) with matching submodules, and all its *)
(* files but those an interrupted clone or removal left missing. That is so  *)
(* after retries, partial clones, crashes and rewritten branches.            *)
RightCommit ==
  \A e \in Executors :
    Settling(e) /\ ~ex[e].disturbed /\ ~job.template.local =>
      LET copy == copies["repo"]
      IN /\ copy.state = "copy" /\ copy.head = ex[e].commit /\ Complete("repo")
         /\ job.task[e].pin = NoCommit =>
              copy.sub = copy.head /\ (ex[e].commit \in ex[e].seen \/ ex[e].rewritten)
         /\ job.task[e].pin # NoCommit => copy.head = job.task[e].pin

(* Tasks of a template that run one at a time: no playbook starts with       *)
(* requirements that were never installed into its home, failed and          *)
(* interrupted installations included, unless the cache was cleared under a  *)
(* task or not to its end, or files are missing, the requirements perhaps    *)
(* among them (installGalaxyRequirementsFile).                               *)
RequirementsInstalled ==
  ~job.template.parallel /\ ~disk.raced =>
    \A e \in Executors :
      ex[e].at = "app" /\ job.template.app = "ansible" /\ ~skipGalaxyInstall(e) /\ copies["repo"].whole =>
        Content = "none" \/ Content \in disk.home

(* The workspace is what the task takes it for, an inventory from a          *)
(* repository included.                                                      *)
WorkspaceSound ==
  /\ LocksMatch /\ RightCommit /\ RequirementsInstalled
  /\ \A e \in Executors :
       ex[e].at = "app" /\ job.template.inventory = "file" /\ ~ex[e].disturbed =>
         /\ copies["inventory"].state = "copy" /\ copies["inventory"].sub = copies["inventory"].head
         /\ Complete("inventory")

(* Whichever step fails, a task that has ended leaves no SSH agent behind,   *)
(* and the last one no inventory or backend file, crashes aside; until then  *)
(* its app has them, unless another task or a clear took the files away      *)
(* (Run defers Cleanup).                                                     *)
CleanedUp ==
  /\ \A e \in Executors :
       /\ ex[e].at \in Ended => ex[e].agent # "open"
       /\ ex[e].at = "app" =>
            /\ job.template.key = "ssh" => ex[e].agent = "open"
            /\ ex[e].disturbed \/ job.template.inventory # "static" \/ disk.inventory
  /\ Live = {} /\ (\A e \in Executors : ex[e].at # "dead") => ~disk.inventory /\ ~copies["repo"].backend
=============================================================================
