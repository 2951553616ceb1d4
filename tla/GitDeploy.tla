------------------------------ MODULE GitDeploy ------------------------------
(***************************************************************************)
(* A git app: a compose app that is built from a git repository           *)
(* (service/git_deploy.go, git_lifecycle.go, git_app_state.go, git_apps.go). *)
(*                                                                         *)
(* A deployment fetches and builds a commit beside the running version,    *)
(* moves the folder, points the image names at the new images and starts   *)
(* them; a start that fails is rolled back to the version before.  What is *)
(* remembered is one state file per app: the version that runs, the last   *)
(* versions, the commits tried, and the operation under way.  An operation *)
(* works on a copy of it in memory (st) and saves it (disk); a stop of the *)
(* service loses the copy, the folder and docker stay where they were.     *)
(*                                                                         *)
(* One app; the table of operations (AppOperations) lets one operation of  *)
(* it run at a time.  All services with a build section are one image per  *)
(* commit.  The state file can always be written, tokens can be read.      *)
(***************************************************************************)
EXTENDS Integers, Sequences, FiniteSets

CONSTANTS
    Commits,          \* the commits of the remote repository
    Older,            \* pairs <<a, b>>: a is b or an ancestor of b
    NoCommit,         \* no commit: nothing deployed, a deleted tag
    Local,            \* a commit made by hand in the app's folder
    First, Ahead,     \* the commit the folder is on, and the branch's head, at first
    MaxTag,           \* tags 1..MaxTag, numbered as they compare; 0 is no tag
    HistoryLength,    \* gitHistoryLength
    AttemptedLength,  \* gitAttemptedLength
    Most,             \* how many pushes, deployments, restores, stops and touches of the owner a run has
    MostInAll         \* and how many of them together

Events == {"pushes", "deployments", "restores", "crashes", "touches"}

ASSUME GitAssumption ==
    /\ {First, Ahead} \subseteq Commits /\ NoCommit \notin Commits /\ Local \notin Commits \cup {NoCommit}
    /\ Older \subseteq Commits \X Commits
    /\ \A c \in Commits : <<c, c>> \in Older
    /\ \A a, b, c \in Commits : <<a, b>> \in Older /\ <<b, c>> \in Older => <<a, c>> \in Older
    /\ \A a, b \in Commits : <<a, b>> \in Older /\ <<b, a>> \in Older => a = b
    /\ {MaxTag, MostInAll} \subseteq Nat
    /\ Most \in [Events -> Nat]
    /\ {HistoryLength, AttemptedLength} \subseteq Nat \ {0}

Tags == 0..MaxTag
Nothing == [commit |-> NoCommit, tag |-> 0]   \* no version
NoOperation == [kind |-> "none", commit |-> NoCommit, tag |-> 0]

VARIABLES
    disk,     \* the app's state file
    st,       \* the copy the operation works on; what is on disk when none runs
    job,      \* the operation under way, and the step it is at
    folder,   \* the clone: HEAD, its branch, the commits it holds, the refs that keep some
    docker,   \* images by commit, where the compose names point, what runs, whether it is well
    remote,   \* remote[0]: the branch's head; remote[t]: the commit of tag t
    base,     \* the commit Local was made on, NoCommit when there is none
    seen,     \* what the properties remember of the past
    used      \* how much of the bounds is used

vars == <<disk, st, job, folder, docker, remote, base, seen, used>>

May(event) ==
    /\ used[event] < Most[event]
    /\ used["pushes"] + used["deployments"] + used["restores"] + used["crashes"] + used["touches"] < MostInAll
Use(event) == [used EXCEPT ![event] = @ + 1]

-----------------------------------------------------------------------------
(* Commits and versions *)

\* git merge-base --is-ancestor
IsAncestor(a, b) ==
    \/ a = b
    \/ <<a, b>> \in Older
    \/ b = Local /\ <<a, base>> \in Older

History(c) == {a \in Commits \cup {Local} : IsAncestor(a, c)}

\* Is tag a higher than tag b?  "" is no version: nothing compares with it.
TagHigher(a, b) == a # 0 /\ b # 0 /\ a > b

\* The newest entry of commit c that ran, else the newest, as a set of at most one entry.
HistoryEntry(s, c) ==
    LET of  == {i \in DOMAIN s.history : s.history[i].commit = c}
        ran == {i \in of : s.history[i].ran}
        among == IF ran # {} THEN ran ELSE of
    IN  {s.history[i] : i \in {k \in among : \A j \in among : k <= j}}

RanEntry(s, c) == {e \in HistoryEntry(s, c) : e.ran}

IsDeployed(s) == s.deployed.commit # NoCommit

Highest == LET there == {t \in 1..MaxTag : remote[t] # NoCommit}
           IN  {t \in there : \A u \in there : u <= t}

-----------------------------------------------------------------------------
(* What is remembered *)

Named(s) == {s.history[i].commit : i \in {k \in DOMAIN s.history : s.history[k].built}}

Remembered(s) == Named(s) \cup ({s.deployed.commit} \ {NoCommit})

\* The entry goes on top, the last HistoryLength stay.
Record(s, entry) ==
    [s EXCEPT !.history = LET all == <<entry>> \o s.history
                          IN  SubSeq(all, 1, IF Len(all) < HistoryLength THEN Len(all) ELSE HistoryLength)]

Removable_WhateverRuns(s, entry) ==
    (Named(s) \cup (IF entry.built THEN {entry.commit} ELSE {})) \ Named(Record(s, entry))

\* The images of the entries that left, unless a remembered version names them.
Removable(s, entry) ==
    LET after == Record(s, entry)
    IN  (Named(s) \cup (IF entry.built THEN {entry.commit} ELSE {}))
            \ (Named(after) \cup {s.deployed.commit})

Attempt(s, c) ==
    IF c = NoCommit \/ \E i \in DOMAIN s.attempted : s.attempted[i] = c THEN s
    ELSE [s EXCEPT !.attempted =
             LET all == Append(s.attempted, c)
             IN  SubSeq(all, IF Len(all) > AttemptedLength THEN Len(all) - AttemptedLength + 1 ELSE 1, Len(all))]

\* The versions to go back to: what runs, and every version of the history that ran.
Offered(s) ==
    ({s.history[i].commit : i \in {k \in DOMAIN s.history : s.history[k].ran}} \cup {s.deployed.commit})
        \ {NoCommit}

\* keepGitCommits: a ref for each of them.
KeepCommits(s) == Offered(s) \cap folder.held

\* RemoveImages leaves the images a container was made from.
RemoveImages(d, gone) == [d EXCEPT !.images = @ \ (gone \ {d.running})]

\* Record an ending, docker being as d: the operation is cleared, the images nobody names go,
\* the commits the history offers stay.  The state file is written in the step after.
Finish(s, entry, d) ==
    LET ended == [s EXCEPT !.op = NoOperation]
    IN  /\ st' = Record(ended, entry)
        /\ docker' = RemoveImages(d, Removable(ended, entry))
        /\ folder' = [folder EXCEPT !.kept = KeepCommits(Record(ended, entry))]
        /\ job' = [job EXCEPT !.at = "save"]

\* ran: deployed or adopted, the outcomes a revert goes back to; built: it names its images.
Entry(ran, built) == [commit |-> job.target, tag |-> job.tag, ran |-> ran, built |-> built]

\* failGitDeploy
Fail(s, built) ==
    /\ Finish(Attempt(s, job.target), Entry(FALSE, built), docker)
    /\ seen' = [seen EXCEPT !.tried = @ \cup {job.target}]

-----------------------------------------------------------------------------
(* Asking for a deployment *)

FolderContainedIn_Unasked(deployed, target) == TRUE

FolderContainedIn(deployed, target) == folder.head = deployed \/ IsAncestor(folder.head, target)

Revertable(s, entry) ==
    /\ entry.ran /\ entry.commit # s.deployed.commit
    /\ entry.commit \in docker.images /\ entry.commit \in folder.held

\* gitDeployPreconditions, the folder being a clean work tree.
MayStart(s, target, tag, revert) ==
    IF IsDeployed(s) /\ target = s.deployed.commit
         /\ (s.blocked \/ folder.head # target \/ tag # s.deployed.tag)
    THEN s.follow = "tags" \/ FolderContainedIn(target, target)
    ELSE /\ ~(IsDeployed(s) /\ ~revert /\ target = s.deployed.commit)
         /\ IsDeployed(s) /\ revert => folder.head = s.deployed.commit
         /\ revert => \A e \in HistoryEntry(s, target) : Revertable(s, e)

Job(at, target, tag, revert, trigger, previous) ==
    [at |-> at, target |-> target, tag |-> tag, revert |-> revert, trigger |-> trigger, previous |-> previous]
Idle == Job("idle", NoCommit, 0, FALSE, "none", Nothing)

\* deployHolding past its checks: the operation is written down, then the work begins.
Begun(s, target, tag, asRevert, trigger) ==
    LET redeploy == IsDeployed(s) /\ target = s.deployed.commit
        revert   == asRevert /\ ~redeploy
        ready    == redeploy /\ target \in docker.images
        begun    == [s EXCEPT !.op = [kind |-> IF revert THEN "revert" ELSE IF ready THEN "deploy" ELSE "build",
                                      commit |-> target, tag |-> tag]]
    IN  /\ disk' = begun /\ st' = begun
        /\ job' = Job(IF revert \/ ready THEN "move" ELSE "fetch", target, tag, revert, trigger, s.deployed)
        /\ used' = Use("deployments")

\* The version a click on "deploy" names: [commit, tag, revert].
Latest(s) ==
    IF s.follow = "branch"
    THEN {[commit |-> remote[0], tag |-> 0, revert |-> FALSE]}
    ELSE {[commit |-> remote[t], tag |-> t,
           revert |-> RanEntry(s, remote[t]) # {} /\ remote[t] # s.deployed.commit] : t \in Highest}

\* A tag chosen by hand, the lower ones included.
ATag(s) ==
    {[commit |-> remote[t], tag |-> t,
      revert |-> RanEntry(s, remote[t]) # {} /\ remote[t] # s.deployed.commit] :
        t \in {u \in 1..MaxTag : s.follow = "tags" /\ remote[u] # NoCommit}}

\* A commit given by hand: on a branch it runs under the tag it ran as; for tags it is the
\* running version or one that ran.
ACommit(s) ==
    {[commit |-> c,
      tag    |-> IF c = s.deployed.commit THEN s.deployed.tag
                 ELSE IF HistoryEntry(s, c) # {} THEN (CHOOSE e \in HistoryEntry(s, c) : TRUE).tag
                 ELSE 0,
      revert |-> HistoryEntry(s, c) # {} /\ ~(s.follow = "tags" /\ c = s.deployed.commit)] :
        c \in {k \in Commits : s.follow = "branch" \/ k = s.deployed.commit \/ RanEntry(s, k) # {}}}

\* A deployment by hand.
StartByHand ==
    /\ job.at = "idle" /\ May("deployments")
    /\ \E choice \in Latest(disk) \cup ATag(disk) \cup ACommit(disk) :
          /\ MayStart(disk, choice.commit, choice.tag, choice.revert)
          /\ Begun(disk, choice.commit, choice.tag, choice.revert, "manual")
    /\ UNCHANGED <<folder, docker, remote, base, seen>>

\* Putting a backup back, of an app docker does not list: one just registered, one whose
\* containers are gone, or whose compose file cannot be read.  The folder goes to the backed-up
\* commit first, which a forge may still give to an app that follows tags.  The service may stop,
\* or .env not be written, before the operation is written down; of an adopted app nothing then
\* keeps what the folder left.
StartRestore ==
    /\ job.at = "idle" /\ May("restores")
    /\ \E c \in Commits, t \in Tags :
          /\ disk.follow = "branch" => t = 0 /\ c \in folder.held
          /\ folder' = [folder EXCEPT !.head = c, !.tip = IF disk.follow = "branch" THEN c ELSE @,
                                      !.held = IF c \in @ THEN @ ELSE @ \cup History(c)]
          /\ \/ /\ UNCHANGED <<disk, st, job>>
                /\ seen' = [seen EXCEPT !.lost = @ \cup (Offered(disk) \ folder.kept)]
             \/ LET begun == [disk EXCEPT !.op = [kind |-> "build", commit |-> c, tag |-> t]]
                    ready == IsDeployed(disk) /\ c = disk.deployed.commit /\ c \in docker.images
                IN  /\ disk' = begun /\ st' = begun /\ UNCHANGED seen
                    /\ job' = Job(IF ready THEN "move" ELSE "fetch", c, t, FALSE, "restore", disk.deployed)
    /\ used' = Use("restores")
    /\ UNCHANGED <<docker, remote, base>>

-----------------------------------------------------------------------------
(* Checking the remote, and what the check starts *)

StartCheck ==
    /\ job.at = "idle"
    /\ disk' = [disk EXCEPT !.op = [kind |-> "check", commit |-> NoCommit, tag |-> 0]]
    /\ st' = disk'
    /\ job' = [Idle EXCEPT !.at = "check"]
    /\ UNCHANGED <<folder, docker, remote, base, seen, used>>

\* A release candidate promoted as is: what runs is known by its higher tag.
Promoted(s, commit, tag) ==
    IF s.follow = "tags" /\ s.deployed.tag # 0 /\ commit = s.deployed.commit /\ TagHigher(tag, s.deployed.tag)
    THEN [s EXCEPT !.deployed.tag = tag,
                   !.history = [i \in DOMAIN s.history |->
                        IF s.history[i] \in RanEntry(s, commit)
                             /\ ~\E j \in DOMAIN s.history : j < i /\ s.history[j] = s.history[i]
                        THEN [s.history[i] EXCEPT !.tag = tag] ELSE s.history[i]]]
    ELSE s

\* What the check saw is read again right after it, and never later: the job keeps it.
CheckEnds(s, commit, tag) ==
    /\ disk' = [s EXCEPT !.op = NoOperation]
    /\ st' = disk'
    /\ job' = [job EXCEPT !.at = "checked", !.target = commit, !.tag = tag]
    /\ UNCHANGED <<folder, docker, remote, base, seen, used>>

CheckAnswers ==
    /\ job.at = "check"
    /\ \E tag \in IF st.follow = "branch" THEN {0} ELSE Highest :
          CheckEnds(Promoted(st, remote[tag], tag), remote[tag], tag)

CheckFails == job.at = "check" /\ CheckEnds(st, NoCommit, 0)

MayDeployAutomatically(s) ==
    /\ s.auto /\ ~s.paused /\ ~s.blocked /\ IsDeployed(s)
    /\ job.target \notin {NoCommit, s.deployed.commit}
    /\ \A i \in DOMAIN s.attempted : s.attempted[i] # job.target
    /\ IF s.follow = "tags" THEN TagHigher(job.tag, s.deployed.tag) ELSE s.deployed.tag = 0

\* Nothing to deploy, or an upgrade of the operating system holds it back.
CheckDone ==
    /\ job.at = "checked" /\ job' = Idle
    /\ UNCHANGED <<disk, st, folder, docker, remote, base, seen, used>>

StartAutomatic ==
    /\ job.at = "checked" /\ MayDeployAutomatically(disk) /\ May("deployments")
    /\ LET revert == HistoryEntry(disk, job.target) # {}
       IN  /\ MayStart(disk, job.target, job.tag, revert)
           /\ Begun(disk, job.target, job.tag, revert, "automatic")
    /\ UNCHANGED <<folder, docker, remote, base, seen>>

\* What must hold does not (a modified file, another branch checked out, or what MayStart says):
\* the reason is recorded and the commit is not tried again.
AutomaticRefused ==
    /\ job.at = "checked" /\ MayDeployAutomatically(disk) /\ May("deployments")
    /\ Finish(Attempt(disk, job.target), Entry(FALSE, FALSE), docker)
    /\ used' = Use("deployments")
    /\ UNCHANGED <<disk, remote, base, seen>>

-----------------------------------------------------------------------------
(* Carrying a deployment out *)

Redeploy == IsDeployed(st) /\ job.target = job.previous.commit

\* fetchGitBranch: what the target must be, on a branch.
BranchAllows ==
    /\ IsAncestor(job.target, remote[0])
    /\ IsDeployed(st) /\ job.previous.tag = 0 => IsAncestor(job.previous.commit, job.target)
    /\ IsDeployed(st) => FolderContainedIn(job.previous.commit, job.target)

\* fetchGitTag: the tag still names the target.  A repair and a restore fetch nothing.
TagAllows == job.trigger = "restore" \/ Redeploy \/ remote[job.tag] = job.target

Fetch ==
    /\ job.at = "fetch"
    /\ IF st.follow = "branch" THEN BranchAllows ELSE TagAllows
    /\ folder' = [folder EXCEPT !.held = @ \cup
            IF st.follow = "branch" THEN History(remote[0])
            ELSE IF job.trigger = "restore" \/ Redeploy THEN {} ELSE History(job.target)]
    /\ job' = [job EXCEPT !.at = "build"]
    /\ UNCHANGED <<disk, st, docker, remote, base, seen, used>>

FetchRefused ==
    /\ job.at = "fetch" /\ Fail(st, FALSE)
    /\ UNCHANGED <<disk, remote, base, used>>

\* In a worktree, under the commit's own tags: what runs is not touched.
Build ==
    /\ job.at = "build" /\ job.target \in folder.held
    /\ docker' = [docker EXCEPT !.images = @ \cup {job.target}]
    /\ st' = [st EXCEPT !.op.kind = "deploy"]
    /\ disk' = st'
    /\ job' = [job EXCEPT !.at = "move"]
    /\ UNCHANGED <<folder, remote, base, seen, used>>

BuildFails ==
    /\ job.at = "build" /\ Fail(st, FALSE)
    /\ UNCHANGED <<disk, remote, base, used>>

\* Only a branch's line is fast-forwarded.
FastForwards ==
    st.follow = "branch" /\ IsDeployed(st) /\ ~job.revert /\ ~Redeploy /\ job.previous.tag = 0

HeadMoves(c) == folder' = [folder EXCEPT !.head = c, !.tip = IF st.follow = "branch" THEN c ELSE @]

Move ==
    /\ job.at = "move" /\ job.target \in folder.held
    /\ IF ~FastForwards THEN HeadMoves(job.target)
       ELSE \/ IsAncestor(folder.head, job.target) /\ HeadMoves(job.target)
            \/ IsAncestor(job.target, folder.head) /\ UNCHANGED folder
    /\ job' = [job EXCEPT !.at = "retag"]
    /\ UNCHANGED <<disk, st, docker, remote, base, seen, used>>

\* An untracked file in the way, or a folder that cannot be fast-forwarded: nothing moved.
MoveFails ==
    /\ job.at = "move" /\ Fail(st, TRUE)
    /\ UNCHANGED <<disk, remote, base, used>>

Retag ==
    /\ job.at = "retag" /\ job.target \in docker.images
    /\ docker' = [docker EXCEPT !.name = job.target]
    /\ job' = [job EXCEPT !.at = "start"]
    /\ UNCHANGED <<disk, st, folder, remote, base, seen, used>>

Running == [docker EXCEPT !.running = docker.name, !.up = TRUE]

\* Going down by hand pauses the automatic rebuild: a revert on a branch, a lower tag.
Pauses == IF job.trigger = "automatic" \/ Redeploy THEN st.paused
          ELSE (job.revert /\ st.follow = "branch") \/ TagHigher(job.previous.tag, job.tag)

Start ==
    /\ job.at = "start"
    /\ Finish([st EXCEPT !.deployed = [commit |-> job.target, tag |-> job.tag],
                         !.blocked = FALSE, !.paused = Pauses],
              Entry(TRUE, TRUE), Running)
    /\ seen' = [seen EXCEPT !.displaced = FALSE, !.lost = @ \ {job.target}]
    /\ UNCHANGED <<disk, remote, base, used>>

\* The names cannot be moved, a pull fails, or containers of the new version do not hold up.
AfterFailedStart ==
    {docker, [docker EXCEPT !.running = IF job.at = "start" THEN docker.name ELSE @,
                            !.up = @ /\ job.at = "retag"]}

StartFails ==
    /\ job.at \in {"retag", "start"} /\ IsDeployed(st)
    /\ docker' \in AfterFailedStart
    /\ job' = [job EXCEPT !.at = "back"]
    /\ UNCHANGED <<disk, st, folder, remote, base, seen, used>>

\* No version before: the app is stopped and stays so.
FirstStartFails ==
    /\ job.at \in {"retag", "start"} /\ ~IsDeployed(st)
    /\ \E d \in AfterFailedStart :
          Finish(Attempt(st, job.target), Entry(FALSE, TRUE), [d EXCEPT !.up = FALSE])
    /\ seen' = [seen EXCEPT !.tried = @ \cup {job.target}]
    /\ UNCHANGED <<disk, remote, base, used>>

\* rollBackGitDeploy: the commit, the images, a start.
MoveBack ==
    /\ job.at = "back" /\ job.previous.commit \in folder.held
    /\ HeadMoves(job.previous.commit)
    /\ job' = [job EXCEPT !.at = "retag back"]
    /\ UNCHANGED <<disk, st, docker, remote, base, seen, used>>

RetagBack_Forgotten ==
    /\ job.at = "retag back"
    /\ job' = [job EXCEPT !.at = "start back"]
    /\ UNCHANGED <<disk, st, folder, docker, remote, base, seen, used>>

RetagBack ==
    /\ job.at = "retag back" /\ job.previous.commit \in docker.images
    /\ docker' = [docker EXCEPT !.name = job.previous.commit]
    /\ job' = [job EXCEPT !.at = "start back"]
    /\ UNCHANGED <<disk, st, folder, remote, base, seen, used>>

RolledBack ==
    /\ job.at = "start back"
    /\ Finish(Attempt([st EXCEPT !.blocked = FALSE], job.target), Entry(FALSE, TRUE), Running)
    /\ seen' = [seen EXCEPT !.tried = @ \cup {job.target}, !.displaced = FALSE]
    /\ UNCHANGED <<disk, remote, base, used>>

RollbackFails ==
    /\ job.at \in {"back", "retag back", "start back"}
    /\ Fail([st EXCEPT !.blocked = TRUE], TRUE)
    /\ UNCHANGED <<disk, remote, base, used>>

\* Did the owner go to an older version with this deployment?
WentDown(old, new) ==
    /\ new.commit # old.commit
    /\ IF old.tag = 0 THEN new.tag = 0 /\ IsAncestor(new.commit, old.commit) ELSE TagHigher(old.tag, new.tag)

\* History: the oldest of a full list of tried commits, when another came on it.
Forgotten ==
    IF st.attempted # disk.attempted /\ Len(disk.attempted) = AttemptedLength THEN {disk.attempted[1]} ELSE {}

\* The end of a deployment, of a refused one, and of a recovery.
Save ==
    /\ job.at = "save"
    /\ disk' = st /\ job' = Idle
    /\ seen' = [seen EXCEPT
          !.tried = @ \cup (IF job.trigger = "none" THEN {job.target} ELSE {}),
          !.forgotten = (@ \cup Forgotten) \ {st.attempted[i] : i \in DOMAIN st.attempted},
          !.down = IF job.trigger \in {"manual", "restore"} /\ st.deployed # disk.deployed
                   THEN WentDown(disk.deployed, st.deployed) ELSE @]
    /\ UNCHANGED <<st, folder, docker, remote, base, used>>

-----------------------------------------------------------------------------
(* Stops of the service, and the recovery at the next start *)

Deploying(s) == s.op.kind \notin {"none", "check"}

\* Where nothing is under way, or only written down already, a stop changes nothing.
Crash ==
    /\ job.at \notin {"idle", "checked", "down"} /\ May("crashes")
    /\ st' = disk /\ job' = [Idle EXCEPT !.at = "down"]
    /\ seen' = [seen EXCEPT
          !.tried = @ \cup (IF Deploying(disk) THEN {disk.op.commit} ELSE {}),
          !.displaced = @ \/ job.at \in {"retag", "start", "back", "retag back", "start back"}
                          \/ (job.at = "save" /\ (st.deployed # disk.deployed \/ st.blocked)),
          !.lost = @ \cup (IF job.at # "save" THEN {}
                           ELSE IF Deploying(disk) THEN Remembered(disk) \ Remembered(st)
                           ELSE Offered(disk) \ Offered(st))]
    /\ used' = Use("crashes")
    /\ UNCHANGED <<disk, folder, docker, remote, base>>

RecoverDeployment_ClearsOnly ==
    /\ job.at = "down" /\ Deploying(disk)
    /\ disk' = [disk EXCEPT !.op = NoOperation] /\ st' = disk'
    /\ job' = Idle
    /\ UNCHANGED <<folder, docker, remote, base, seen, used>>

\* A deployment cut short is recorded and never retried; built: whether the compose files
\* in the folder can be read, and name its images.
RecoverDeployment ==
    /\ job.at = "down" /\ Deploying(disk)
    /\ \E built \in BOOLEAN :
          Finish(Attempt(disk, disk.op.commit),
                 [commit |-> disk.op.commit, tag |-> disk.op.tag, ran |-> FALSE, built |-> built],
                 docker)
    /\ UNCHANGED <<disk, remote, base, seen, used>>

Recover_DeploymentsOnly ==
    /\ job.at = "down" /\ ~Deploying(disk)
    /\ job' = Idle
    /\ UNCHANGED <<disk, st, folder, docker, remote, base, seen, used>>

Recover ==
    /\ job.at = "down" /\ ~Deploying(disk)
    /\ disk' = [disk EXCEPT !.op = NoOperation] /\ st' = disk'
    /\ job' = Idle
    /\ UNCHANGED <<folder, docker, remote, base, seen, used>>

-----------------------------------------------------------------------------
(* The owner's settings, the folder's owner, the remote, git's collector *)

\* UpdateGitApp: turning the switch on, again or not, resumes the automatic rebuild.
SetAuto ==
    /\ job.at = "idle" /\ May("touches")
    /\ \E on \in BOOLEAN :
          /\ disk' = [disk EXCEPT !.auto = on, !.paused = @ /\ ~on]
          /\ disk' # disk
          /\ seen' = [seen EXCEPT !.down = @ /\ ~on]
    /\ st' = disk'
    /\ used' = Use("touches")
    /\ UNCHANGED <<job, folder, docker, remote, base>>

\* UpdateGitApp: the folder is detached, or put on the branch, which must hold no commit that
\* neither the folder nor the remote has.
SwitchMode ==
    /\ job.at = "idle" /\ May("touches")
    /\ IF disk.follow = "branch" THEN UNCHANGED folder
       ELSE /\ \/ folder.tip = NoCommit
               \/ IsAncestor(folder.tip, folder.head)
               \/ IsAncestor(folder.tip, remote[0])
            /\ folder' = [folder EXCEPT !.tip = folder.head]
    /\ disk' = [disk EXCEPT !.follow = IF @ = "branch" THEN "tags" ELSE "branch"]
    /\ st' = disk'
    /\ seen' = [seen EXCEPT !.down = FALSE]
    /\ used' = Use("touches")
    /\ UNCHANGED <<job, docker, remote, base>>

\* Between the steps that read the remote: a push at any other moment is the same to the app.
Push ==
    /\ job.at \in {"idle", "fetch"} /\ May("pushes")
    /\ \E t \in Tags, c \in Commits \cup {NoCommit} :
          /\ c # remote[t]
          /\ (t = 0 => c # NoCommit)
          /\ remote' = [remote EXCEPT ![t] = c]
    /\ used' = Use("pushes")
    /\ UNCHANGED <<disk, st, job, folder, docker, base, seen>>

\* Somebody commits in the folder, on its branch, between two operations.
CommitByHand ==
    /\ job.at = "idle" /\ disk.follow = "branch" /\ base = NoCommit /\ May("touches")
    /\ base' = folder.head
    /\ folder' = [folder EXCEPT !.head = Local, !.tip = Local, !.held = @ \cup {Local}]
    /\ used' = Use("touches")
    /\ UNCHANGED <<disk, st, job, docker, remote, seen>>

\* ... and takes it back, as the refusals ask for.
TakeBack ==
    /\ job.at = "idle" /\ disk.follow = "branch" /\ folder.head = Local
    /\ IsDeployed(disk) /\ disk.deployed.commit \in folder.held
    /\ base' = NoCommit
    /\ folder' = [folder EXCEPT !.head = disk.deployed.commit, !.tip = disk.deployed.commit, !.held = @ \ {Local}]
    /\ UNCHANGED <<disk, st, job, docker, remote, seen, used>>

\* git gc drops the commits no ref leads to.
Reachable == UNION {History(c) : c \in {folder.head, folder.tip} \cup folder.kept}
Collect ==
    /\ job.at = "idle" /\ ~(folder.held \subseteq Reachable)
    /\ folder' = [folder EXCEPT !.held = @ \cap Reachable]
    /\ UNCHANGED <<disk, st, job, docker, remote, base, seen, used>>

-----------------------------------------------------------------------------
(* The specification *)

\* An app just registered and cloned, or a running one adopted at its folder's commit; its
\* owner turned the automatic rebuild on.
InitialState(follow, deployed, history) ==
    [follow |-> follow, deployed |-> deployed, history |-> history, attempted |-> <<>>,
     blocked |-> FALSE, paused |-> FALSE, auto |-> TRUE, op |-> NoOperation]

Adopted == [commit |-> First, tag |-> 0, ran |-> TRUE, built |-> TRUE]

Init ==
    /\ \/ /\ disk \in {InitialState(follow, Nothing, <<>>) : follow \in {"branch", "tags"}}
          /\ docker = [images |-> {}, name |-> NoCommit, running |-> NoCommit, up |-> FALSE]
       \/ /\ disk = InitialState("branch", [commit |-> First, tag |-> 0], <<Adopted>>)
          /\ docker = [images |-> {First}, name |-> First, running |-> First, up |-> TRUE]
    /\ st = disk /\ job = Idle
    /\ folder = [head |-> First, tip |-> IF disk.follow = "branch" THEN First ELSE NoCommit,
                 held |-> {c \in Commits : <<c, First>> \in Older}, kept |-> {}]
    /\ remote = [t \in Tags |-> IF t = 1 THEN First ELSE Ahead]
    /\ base = NoCommit
    /\ seen = [tried |-> {}, forgotten |-> {}, displaced |-> FALSE, lost |-> {}, down |-> FALSE]
    /\ used = [event \in Events |-> 0]

Check == CheckAnswers \/ CheckFails \/ CheckDone \/ StartAutomatic \/ AutomaticRefused
Forward == Fetch \/ FetchRefused \/ Build \/ BuildFails \/ Move \/ MoveFails \/ Retag \/ Start
Back == StartFails \/ FirstStartFails \/ MoveBack \/ RetagBack \/ RolledBack \/ RollbackFails
Work == Check \/ Forward \/ Back \/ Save \/ Recover \/ RecoverDeployment
Environment == Crash \/ SetAuto \/ SwitchMode \/ Push \/ CommitByHand \/ TakeBack \/ Collect

Next == StartByHand \/ StartRestore \/ StartCheck \/ Work \/ Environment

Spec == Init /\ [][Next]_vars
FairSpec == Spec /\ WF_vars(Work)

-----------------------------------------------------------------------------
(* Properties *)

\* "The running version keeps serving while the new one builds, a failed build changes
\* nothing, and a new version that does not start is rolled back": between two operations
\* and until an operation moves the folder, what runs is the version the state names, unless
\* a stop of the service left another one or a rollback failed and the app is blocked.
ServesDeployed ==
    job.at \in {"idle", "check", "checked", "fetch", "build", "move"} /\ IsDeployed(disk)
        /\ ~disk.blocked /\ ~seen.displaced
    => docker.up /\ docker.running = disk.deployed.commit /\ docker.name = disk.deployed.commit

\* A rollback finds what it needs: the images and the commit of the version the state names
\* are there between two operations, whatever was built, tried, recorded and collected
\* (finishGitDeploy, record, keepGitCommits), except for a version that a stop of the service
\* left in the state file after its images were removed, or that an adopted app ran when a
\* restore moved its folder and no more (seen.lost).
RollbackFindsItsVersion ==
    job.at \in {"idle", "check", "checked"} /\ IsDeployed(disk) /\ disk.deployed.commit \notin seen.lost
    => disk.deployed.commit \in docker.images \cap folder.held

\* "git never collects a commit a revert may go back to", and its images stay: every version
\* of the history that ran can be gone back to, with the same exception.
HistoryCanBeGoneBackTo ==
    job.at = "idle" =>
        \A i \in DOMAIN disk.history :
            disk.history[i].ran /\ disk.history[i].commit \notin seen.lost
            => disk.history[i].commit \in docker.images \cap folder.held

VersionsCanBeGoneBackTo == RollbackFindsItsVersion /\ HistoryCanBeGoneBackTo

StartsAlone == job.at = "checked" /\ job'.at \in {"fetch", "move"}

\* The automatic rebuild never takes a commit again whose deployment failed, was refused, was
\* rolled back or was cut short by a stop of the service, unless that commit was the oldest of
\* the gitAttemptedLength last ones when another came on the list (seen.forgotten).
NeverRetriedAlone == [][StartsAlone => job'.target \notin seen.tried \ seen.forgotten]_vars

\* After the owner went down to an older version, the automatic rebuild stays away until the
\* owner deploys again or turns the switch on.
StepDownStands == [][StartsAlone => ~seen.down]_vars

\* Alone, the app only goes up: to a higher tag, to a descendant on its branch, or on a branch
\* to a version of the history the remote came back to.
GoesUpAlone ==
    [][disk'.deployed.commit # disk.deployed.commit /\ job.trigger = "automatic" =>
          IF disk.follow = "tags" THEN TagHigher(disk'.deployed.tag, disk.deployed.tag)
          ELSE job.revert \/ IsAncestor(disk.deployed.commit, disk'.deployed.commit)]_vars

\* What the automatic rebuild may do without its owner.
AutomaticKeepsToItsRules == NeverRetriedAlone /\ StepDownStands /\ GoesUpAlone

\* A commit made by hand on the branch of a deployed app's folder stays on HEAD or on the
\* branch until its author takes it back: no deployment, revert, repair, rollback, recovery
\* or change of mode drops it (gitFolderContainedIn, gitBranchToFollow).  A backup put back
\* over it does: the restore moves the branch without asking what is on it.
HandMade == base # NoCommit /\ Local \in {folder.head, folder.tip}
HandMadeStays == [][~StartRestore /\ HandMade /\ IsDeployed(disk) /\ base' # NoCommit => HandMade']_vars

\* An operation written down is always ended: by its own steps, or by the recovery after a
\* stop of the service.
OperationsEnd == disk.op.kind # "none" ~> disk.op.kind = "none"

==============================================================================
