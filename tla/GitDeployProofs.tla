-------------------------- MODULE GitDeployProofs --------------------------
(***************************************************************************)
(* A git app serves the version its state names, keeps what it may go back *)
(* to, never drops a commit made by hand, and rebuilds by itself only      *)
(* upwards, never below what its owner chose, never what failed: for every *)
(* history of the remote, set of tags and length of the lists, whatever is *)
(* pushed, refused, cut short or touched by hand.                          *)
(*                                                                         *)
(* On the types and on what an operation under way knows (GitInv) stand    *)
(* six invariants, one for each result:                                    *)
(* ServeInv  what runs, at every step of a deployment and of its way back; *)
(* KeepInv   images, commits and refs of what may be gone back to;         *)
(* HandInv   where HEAD and the branch are;                                *)
(* UpInv     where an automatic deployment goes, and where one on a branch;*)
(* DownInv   what keeps the automatic rebuild away after a step down;      *)
(* TriedInv  what the list of tried commits remembers.                     *)
(* All ways an operation can end (Endings) have their effect in Ended.     *)
(***************************************************************************)
EXTENDS GitDeploy, SequenceTheorems, FiniteSetTheorems, TLAPS

(* A version the state names, an entry of its history, the operation under   *)
(* way, and the state file as a whole.                                       *)
Known == Commits \cup {NoCommit}
Versions == [commit : Known, tag : Tags]
Entries == [commit : Commits, tag : Tags, ran : BOOLEAN, built : BOOLEAN]
Operations == [kind : {"none", "check", "build", "deploy", "revert"}, commit : Known, tag : Tags]
States == [follow : {"branch", "tags"}, deployed : Versions, history : Seq(Entries), attempted : Seq(Commits),
           blocked : BOOLEAN, paused : BOOLEAN, auto : BOOLEAN, op : Operations]

Between == {"idle", "check", "checked"}
Working == {"fetch", "build", "move", "retag", "start", "back", "retag back", "start back"}
Triggers == {"none", "manual", "automatic", "restore"}

Jobs == [at : Between \cup Working \cup {"save", "down"}, target : Known, tag : Tags, revert : BOOLEAN,
         trigger : Triggers, previous : Versions]

Dockers == [images : SUBSET Commits, name : Known, running : Known, up : BOOLEAN]
Folders == [head : Commits \cup {Local}, tip : Known \cup {Local},
            held : SUBSET (Commits \cup {Local}), kept : SUBSET Commits]
Pasts == [tried : SUBSET Known, forgotten : SUBSET Commits, displaced : BOOLEAN, lost : SUBSET Commits, down : BOOLEAN]

(* What ran was built.                                                       *)
RanWasBuilt(s) == \A i \in DOMAIN s.history : s.history[i].ran => s.history[i].built

GitTypes ==
  /\ st \in States /\ disk \in States /\ job \in Jobs
  /\ RanWasBuilt(st) /\ RanWasBuilt(disk)
  /\ docker \in Dockers /\ folder \in Folders
  /\ remote \in [Tags -> Known] /\ remote[0] # NoCommit
  /\ base \in Known /\ seen \in Pasts

(* An operation that works has written itself down, works on what is on      *)
(* disk, and knows the version it left.                                      *)
JobInv ==
  /\ job.at # "save" => st = disk
  /\ job.at = "save" => st.follow = disk.follow /\ st.op = NoOperation
  /\ job.at \in Working => /\ job.previous = st.deployed /\ job.target \in Commits
                           /\ Deploying(disk) /\ disk.op.commit = job.target
                           /\ job.trigger # "none"
  /\ job.at \in {"back", "retag back", "start back"} => IsDeployed(st)
  /\ job.at \in Between \cup {"down"} => job.trigger = "none" /\ ~job.revert
  /\ job.at \in {"idle", "check", "down"} => job.target = NoCommit
  /\ Deploying(disk) => disk.op.commit \in Commits
  /\ job.at = "save" /\ job.trigger # "none" => Deploying(disk) /\ disk.op.commit = job.target
  /\ job.at = "save" /\ job.trigger = "none" => st.deployed = disk.deployed
  /\ base = NoCommit => folder.head # Local

-----------------------------------------------------------------------------
(* What the helpers return *)

LEMMA NoTagIsATag == MaxTag \in Nat /\ 0 \in Tags
<1>1. MaxTag \in Nat BY GitAssumption
<1> QED BY <1>1 DEF Tags

LEMMA RecordKeeps ==
  ASSUME NEW s \in States, NEW e \in Entries
  PROVE  /\ Record(s, e) \in States
         /\ \A i \in DOMAIN Record(s, e).history :
               \/ Record(s, e).history[i] = e
               \/ \E k \in DOMAIN s.history : Record(s, e).history[i] = s.history[k]
         /\ Record(s, e).follow = s.follow /\ Record(s, e).deployed = s.deployed
         /\ Record(s, e).attempted = s.attempted /\ Record(s, e).blocked = s.blocked
         /\ Record(s, e).paused = s.paused /\ Record(s, e).auto = s.auto /\ Record(s, e).op = s.op
<1> DEFINE all == <<e>> \o s.history
           n == IF Len(all) < HistoryLength THEN Len(all) ELSE HistoryLength
           top == SubSeq(all, 1, n)
<1>1. s.history \in Seq(Entries) BY DEF States
<1>2. all \in Seq(Entries) /\ Len(all) = 1 + Len(s.history)
  BY <1>1
<1>3. n \in 1..Len(all) BY <1>1, <1>2, GitAssumption
<1>4. top \in Seq(Entries) /\ Len(top) = n /\ \A i \in 1..n : top[i] = all[i]
  BY <1>2, <1>3
<1>5. \A i \in 1..n : all[i] = e \/ \E k \in DOMAIN s.history : all[i] = s.history[k]
  <2>1. SUFFICES ASSUME NEW i \in 1..n, i # 1 PROVE \E k \in DOMAIN s.history : all[i] = s.history[k]
    BY <1>1, <1>2, <1>3
  <2>2. i - 1 \in DOMAIN s.history /\ all[i] = s.history[i - 1]
    BY <1>1, <1>2, <1>3, <2>1
  <2> QED BY <2>2
<1>6. Record(s, e) = [s EXCEPT !.history = top] BY DEF Record
<1>7. DOMAIN top = 1..n BY <1>4
<1> HIDE DEF n, top, all
<1> QED BY <1>4, <1>5, <1>6, <1>7, SMTT(30) DEF States

LEMMA AttemptKeeps ==
  ASSUME NEW s \in States, NEW c \in Known
  PROVE  /\ Attempt(s, c) \in States
         /\ Attempt(s, c).follow = s.follow /\ Attempt(s, c).deployed = s.deployed
         /\ Attempt(s, c).history = s.history /\ Attempt(s, c).blocked = s.blocked
         /\ Attempt(s, c).paused = s.paused /\ Attempt(s, c).auto = s.auto /\ Attempt(s, c).op = s.op
<1> DEFINE all == Append(s.attempted, c)
           from == IF Len(all) > AttemptedLength THEN Len(all) - AttemptedLength + 1 ELSE 1
           rest == SubSeq(all, from, Len(all))
<1>0. CASE Attempt(s, c) = s BY <1>0
<1>1. CASE Attempt(s, c) # s
  <2>1. c \in Commits BY <1>1 DEF Attempt, Known
  <2>2. all \in Seq(Commits) /\ Len(all) = Len(s.attempted) + 1 BY <2>1 DEF States
  <2>3. from \in Nat /\ from >= 1
    <3>1. Len(s.attempted) \in Nat /\ AttemptedLength \in Nat BY GitAssumption DEF States
    <3>2. Len(all) \in Nat BY <2>2, <3>1
    <3> HIDE DEF all
    <3> QED BY <3>1, <3>2
  <2>4. rest \in Seq(Commits) BY <2>2, <2>3
  <2>5. Attempt(s, c) = [s EXCEPT !.attempted = rest] BY <1>1 DEF Attempt
  <2> HIDE DEF rest, from, all
  <2> QED BY <2>4, <2>5 DEF States
<1> QED BY <1>0, <1>1

LEMMA OfferedAreCommits ==
  ASSUME NEW s \in States
  PROVE  Offered(s) \subseteq Commits
<1>1. \A i \in DOMAIN s.history : s.history[i].commit \in Commits
  <2>1. s.history \in Seq(Entries) BY DEF States
  <2>2. \A i \in DOMAIN s.history : s.history[i] \in Entries BY <2>1
  <2> QED BY <2>2 DEF Entries
<1>2. s.deployed.commit \in Commits \cup {NoCommit} BY DEF States, Versions, Known
<1> QED BY <1>1, <1>2 DEF Offered

(* An operation that has come to its end, with entry as its record: the      *)
(* state in memory says so, docker, being as d, and the folder lose nothing  *)
(* that is still remembered, nothing else has changed.                       *)
Ended(deployed, attempted, blocked, paused, entry, d) ==
  /\ st' \in States /\ st'.op = NoOperation /\ RanWasBuilt(st')
  /\ st'.follow = st.follow /\ st'.deployed = deployed /\ st'.attempted = attempted
  /\ st'.blocked = blocked /\ st'.paused = paused
  /\ \A i \in DOMAIN st'.history :
        st'.history[i] = entry \/ \E k \in DOMAIN st.history : st'.history[i] = st.history[k]
  /\ docker' \in Dockers
  /\ docker'.name = d.name /\ docker'.running = d.running /\ docker'.up = d.up
  /\ docker'.images \subseteq d.images
  /\ \A c \in Remembered(st') : c \in d.images => c \in docker'.images
  /\ folder' \in Folders
  /\ folder'.head = folder.head /\ folder'.tip = folder.tip /\ folder'.held = folder.held
  /\ folder'.kept = Offered(st') \cap folder.held
  /\ job' \in Jobs /\ job'.at = "save" /\ job'.target = job.target /\ job'.tag = job.tag
  /\ job'.revert = job.revert /\ job'.trigger = job.trigger /\ job'.previous = job.previous
  /\ disk' = disk /\ remote' = remote /\ base' = base

LEMMA FinishEnds ==
  ASSUME GitTypes, NEW s \in States, NEW e \in Entries, NEW d \in Dockers,
         s.history = st.history, s.follow = st.follow, e.ran => e.built,
         Finish(s, e, d), disk' = disk, remote' = remote, base' = base
  PROVE  Ended(s.deployed, s.attempted, s.blocked, s.paused, e, d)
<1> DEFINE ended == [s EXCEPT !.op = NoOperation]
<1>1. ended \in States /\ ended.follow = s.follow /\ ended.deployed = s.deployed /\ ended.history = s.history
      /\ ended.attempted = s.attempted /\ ended.blocked = s.blocked /\ ended.paused = s.paused
      /\ ended.op = NoOperation
  <2>1. NoOperation \in Operations BY NoTagIsATag DEF NoOperation, Operations, Known
  <2> QED BY <2>1 DEF States
<1>2. st' = Record(ended, e) BY DEF Finish
<1>3. docker' = [d EXCEPT !.images = @ \ (Removable(ended, e) \ {d.running})]
  BY DEF Finish, RemoveImages
<1>4. folder' = [folder EXCEPT !.kept = KeepCommits(st')]
  BY <1>2 DEF Finish
<1>5. job' = [job EXCEPT !.at = "save"] BY DEF Finish
<1> HIDE DEF ended
<1>6. /\ st' \in States /\ st'.op = NoOperation
      /\ st'.follow = s.follow /\ st'.deployed = s.deployed /\ st'.attempted = s.attempted
      /\ st'.blocked = s.blocked /\ st'.paused = s.paused
      /\ \A i \in DOMAIN st'.history :
            st'.history[i] = e \/ \E k \in DOMAIN s.history : st'.history[i] = s.history[k]
  BY <1>1, <1>2, RecordKeeps
<1>7. RanWasBuilt(st') BY <1>6 DEF GitTypes, RanWasBuilt
<1>8. Removable(ended, e) \cap (Named(st') \cup {st'.deployed.commit}) = {}
  BY <1>1, <1>2, <1>6 DEF Removable
<1>9. Remembered(st') \subseteq Named(st') \cup {st'.deployed.commit} BY DEF Remembered
<1>10. /\ docker' \in Dockers
       /\ docker'.name = d.name /\ docker'.running = d.running /\ docker'.up = d.up
       /\ docker'.images = d.images \ (Removable(ended, e) \ {d.running})
  BY <1>3 DEF Dockers
<1>11. KeepCommits(st') = Offered(st') \cap folder.held /\ Offered(st') \subseteq Commits
  BY <1>6, OfferedAreCommits DEF KeepCommits
<1>12. /\ folder' \in Folders
       /\ folder'.head = folder.head /\ folder'.tip = folder.tip /\ folder'.held = folder.held
       /\ folder'.kept = Offered(st') \cap folder.held
  BY <1>4, <1>11 DEF GitTypes, Folders
<1>13. /\ job' \in Jobs /\ job'.at = "save" /\ job'.target = job.target /\ job'.tag = job.tag
       /\ job'.revert = job.revert /\ job'.trigger = job.trigger /\ job'.previous = job.previous
  BY <1>5 DEF GitTypes, Jobs
<1> QED BY <1>6, <1>7, <1>8, <1>9, <1>10, <1>12, <1>13 DEF Ended

(* Entries made by an operation that has a target.                           *)
LEMMA EntryIsOne ==
  ASSUME GitTypes, job.target \in Commits, NEW ran \in BOOLEAN, NEW built \in BOOLEAN
  PROVE  /\ Entry(ran, built) \in Entries
         /\ Entry(ran, built).commit = job.target
         /\ Entry(ran, built).ran = ran /\ Entry(ran, built).built = built
BY DEF Entry, Entries, GitTypes, Jobs

(* Refused, not built or not moved: docker and the folder are as they were.  *)
LEMMA RefusalsEnd ==
  ASSUME GitTypes, JobInv, FetchRefused \/ BuildFails \/ MoveFails
  PROVE  /\ job.at \in {"fetch", "build", "move"}
         /\ \E e \in Entries :
               /\ ~e.ran /\ e.commit = job.target
               /\ Ended(st.deployed, Attempt(st, job.target).attempted, st.blocked, st.paused, e, docker)
         /\ seen' = [seen EXCEPT !.tried = @ \cup {job.target}]
<1>1. /\ job.at \in {"fetch", "build", "move"} /\ disk' = disk /\ remote' = remote /\ base' = base
      /\ \E built \in BOOLEAN : Fail(st, built)
  BY DEF FetchRefused, BuildFails, MoveFails
<1>2. PICK built \in BOOLEAN : Fail(st, built) BY <1>1
<1>3. job.target \in Commits /\ job.target \in Known BY <1>1 DEF JobInv, Working, Known
<1>4. docker \in Dockers /\ st \in States BY DEF GitTypes
<1> QED BY <1>1, <1>2, <1>3, <1>4, EntryIsOne, AttemptKeeps, FinishEnds DEF Fail

LEMMA AutomaticRefusalEnds ==
  ASSUME GitTypes, JobInv, AutomaticRefused
  PROVE  /\ job.at = "checked" /\ job.target \in Commits
         /\ \E e \in Entries :
               /\ ~e.ran /\ e.commit = job.target
               /\ Ended(st.deployed, Attempt(st, job.target).attempted, st.blocked, st.paused, e, docker)
         /\ seen' = seen
<1>1. /\ job.at = "checked" /\ disk' = disk /\ remote' = remote /\ base' = base /\ seen' = seen
      /\ st = disk /\ job.target # NoCommit
      /\ Finish(Attempt(disk, job.target), Entry(FALSE, FALSE), docker)
  BY DEF AutomaticRefused, MayDeployAutomatically, JobInv
<1>2. job.target \in Commits /\ job.target \in Known BY <1>1 DEF GitTypes, Jobs, Known
<1>3. docker \in Dockers /\ st \in States BY DEF GitTypes
<1> QED BY <1>1, <1>2, <1>3, EntryIsOne, AttemptKeeps, FinishEnds

LEMMA RecoveryEnds ==
  ASSUME GitTypes, JobInv, RecoverDeployment
  PROVE  /\ job.at = "down" /\ Deploying(disk)
         /\ \E e \in Entries :
               /\ ~e.ran /\ e.commit = disk.op.commit
               /\ Ended(st.deployed, Attempt(st, disk.op.commit).attempted, st.blocked, st.paused, e, docker)
         /\ seen' = seen
<1> DEFINE E(built) == [commit |-> disk.op.commit, tag |-> disk.op.tag, ran |-> FALSE, built |-> built]
<1>1. /\ job.at = "down" /\ Deploying(disk) /\ disk' = disk /\ remote' = remote /\ base' = base
      /\ seen' = seen /\ st = disk
  BY DEF RecoverDeployment, JobInv
<1>2. PICK built \in BOOLEAN : Finish(Attempt(disk, disk.op.commit), E(built), docker)
  BY DEF RecoverDeployment
<1>3. disk.op.commit \in Commits /\ disk.op.commit \in Known BY <1>1 DEF JobInv, Known
<1>4. docker \in Dockers /\ st \in States /\ disk.op.tag \in Tags BY <1>1 DEF GitTypes, States, Operations
<1>5. E(built) \in Entries /\ ~E(built).ran /\ E(built).commit = disk.op.commit BY <1>3, <1>4 DEF Entries
<1> HIDE DEF E
<1> QED BY <1>1, <1>2, <1>3, <1>4, <1>5, AttemptKeeps, FinishEnds

LEMMA FirstStartEnds ==
  ASSUME GitTypes, JobInv, FirstStartFails
  PROVE  /\ job.at \in {"retag", "start"} /\ ~IsDeployed(st)
         /\ \E e \in Entries, d \in Dockers :
               /\ ~e.ran /\ e.commit = job.target /\ d.images = docker.images
               /\ Ended(st.deployed, Attempt(st, job.target).attempted, st.blocked, st.paused, e, d)
         /\ seen' = [seen EXCEPT !.tried = @ \cup {job.target}]
<1>1. /\ job.at \in {"retag", "start"} /\ ~IsDeployed(st)
      /\ disk' = disk /\ remote' = remote /\ base' = base
      /\ seen' = [seen EXCEPT !.tried = @ \cup {job.target}]
  BY DEF FirstStartFails
<1>2. PICK d \in AfterFailedStart :
          Finish(Attempt(st, job.target), Entry(FALSE, TRUE), [d EXCEPT !.up = FALSE])
  BY DEF FirstStartFails
<1>3. job.target \in Commits /\ job.target \in Known BY <1>1 DEF JobInv, Working, Known
<1>4. docker \in Dockers /\ st \in States BY DEF GitTypes
<1>5. d \in Dockers /\ d.images = docker.images BY <1>2, <1>4 DEF AfterFailedStart, Dockers
<1>6. [d EXCEPT !.up = FALSE] \in Dockers /\ [d EXCEPT !.up = FALSE].images = docker.images
  BY <1>5 DEF Dockers
<1> QED BY <1>1, <1>2, <1>3, <1>4, <1>6, EntryIsOne, AttemptKeeps, FinishEnds

LEMMA StartEnds ==
  ASSUME GitTypes, JobInv, Start
  PROVE  /\ job.at = "start"
         /\ \E e \in Entries, d \in Dockers :
               /\ e.ran /\ e.commit = job.target
               /\ d.images = docker.images /\ d.name = docker.name /\ d.running = docker.name /\ d.up = TRUE
               /\ Ended([commit |-> job.target, tag |-> job.tag], st.attempted, FALSE, Pauses, e, d)
         /\ seen' = [seen EXCEPT !.displaced = FALSE, !.lost = @ \ {job.target}]
<1> DEFINE v == [commit |-> job.target, tag |-> job.tag]
           s == [st EXCEPT !.deployed = v, !.blocked = FALSE, !.paused = Pauses]
<1>1. /\ job.at = "start" /\ disk' = disk /\ remote' = remote /\ base' = base
      /\ seen' = [seen EXCEPT !.displaced = FALSE, !.lost = @ \ {job.target}]
      /\ Finish(s, Entry(TRUE, TRUE), Running)
  BY DEF Start
<1>2. job.target \in Commits BY <1>1 DEF JobInv, Working
<1>3. st \in States BY DEF GitTypes
<1>4. v \in Versions BY <1>2 DEF Versions, Known, GitTypes, Jobs
<1>5. Pauses \in BOOLEAN
  <2>1. st.paused \in BOOLEAN /\ job.revert \in BOOLEAN BY DEF GitTypes, States, Jobs
  <2> QED BY <2>1 DEF Pauses, TagHigher
<1> HIDE DEF v
<1>6. s \in States /\ s.history = st.history /\ s.follow = st.follow /\ s.deployed = v
      /\ s.attempted = st.attempted /\ s.blocked = FALSE /\ s.paused = Pauses
  BY <1>3, <1>4, <1>5 DEF States
<1>7. Running \in Dockers /\ Running.images = docker.images /\ Running.name = docker.name
      /\ Running.running = docker.name /\ Running.up = TRUE
  BY DEF GitTypes, Dockers, Running
<1> HIDE DEF s
<1>8. Entry(TRUE, TRUE) \in Entries /\ Entry(TRUE, TRUE).commit = job.target
      /\ Entry(TRUE, TRUE).ran = TRUE /\ Entry(TRUE, TRUE).built = TRUE
  BY <1>2, EntryIsOne
<1>9. Ended(v, st.attempted, FALSE, Pauses, Entry(TRUE, TRUE), Running)
  BY <1>1, <1>6, <1>7, <1>8, FinishEnds
<1> QED BY <1>1, <1>7, <1>8, <1>9 DEF v

LEMMA RollbackEnds ==
  ASSUME GitTypes, JobInv, RolledBack
  PROVE  /\ job.at = "start back"
         /\ \E e \in Entries, d \in Dockers :
               /\ ~e.ran /\ e.commit = job.target
               /\ d.images = docker.images /\ d.name = docker.name /\ d.running = docker.name /\ d.up = TRUE
               /\ Ended(st.deployed, Attempt(st, job.target).attempted, FALSE, st.paused, e, d)
         /\ seen' = [seen EXCEPT !.tried = @ \cup {job.target}, !.displaced = FALSE]
<1> DEFINE s == [st EXCEPT !.blocked = FALSE]
<1>1. /\ job.at = "start back" /\ disk' = disk /\ remote' = remote /\ base' = base
      /\ seen' = [seen EXCEPT !.tried = @ \cup {job.target}, !.displaced = FALSE]
      /\ Finish(Attempt(s, job.target), Entry(FALSE, TRUE), Running)
  BY DEF RolledBack
<1>2. job.target \in Commits /\ job.target \in Known BY <1>1 DEF JobInv, Working, Known
<1>3. s \in States /\ s.history = st.history /\ s.follow = st.follow /\ s.deployed = st.deployed
      /\ s.attempted = st.attempted /\ s.blocked = FALSE /\ s.paused = st.paused
  BY DEF States, GitTypes
<1>4. Running \in Dockers /\ Running.images = docker.images /\ Running.name = docker.name
      /\ Running.running = docker.name /\ Running.up = TRUE
  BY DEF GitTypes, Dockers, Running
<1>5. Attempt(s, job.target).attempted = Attempt(st, job.target).attempted
  <2>1. st \in States BY DEF GitTypes
  <2> QED BY <2>1, <1>3 DEF Attempt, States
<1> HIDE DEF s
<1>6. Entry(FALSE, TRUE) \in Entries /\ Entry(FALSE, TRUE).commit = job.target
      /\ Entry(FALSE, TRUE).ran = FALSE /\ Entry(FALSE, TRUE).built = TRUE
  BY <1>2, EntryIsOne
<1>7. Ended(st.deployed, Attempt(st, job.target).attempted, FALSE, st.paused, Entry(FALSE, TRUE), Running)
  <2>1. /\ Attempt(s, job.target) \in States
        /\ Attempt(s, job.target).follow = st.follow /\ Attempt(s, job.target).deployed = st.deployed
        /\ Attempt(s, job.target).history = st.history /\ Attempt(s, job.target).blocked = FALSE
        /\ Attempt(s, job.target).paused = st.paused
    BY <1>2, <1>3, AttemptKeeps
  <2>2. Ended(Attempt(s, job.target).deployed, Attempt(s, job.target).attempted, Attempt(s, job.target).blocked,
              Attempt(s, job.target).paused, Entry(FALSE, TRUE), Running)
    BY <1>1, <1>4, <1>6, <2>1, FinishEnds
  <2> QED BY <1>5, <2>1, <2>2
<1> QED BY <1>1, <1>4, <1>6, <1>7

LEMMA FailedRollbackEnds ==
  ASSUME GitTypes, JobInv, RollbackFails
  PROVE  /\ job.at \in {"back", "retag back", "start back"}
         /\ \E e \in Entries :
               /\ ~e.ran /\ e.commit = job.target
               /\ Ended(st.deployed, Attempt(st, job.target).attempted, TRUE, st.paused, e, docker)
         /\ seen' = [seen EXCEPT !.tried = @ \cup {job.target}]
<1> DEFINE s == [st EXCEPT !.blocked = TRUE]
<1>1. /\ job.at \in {"back", "retag back", "start back"}
      /\ disk' = disk /\ remote' = remote /\ base' = base
      /\ seen' = [seen EXCEPT !.tried = @ \cup {job.target}]
      /\ Finish(Attempt(s, job.target), Entry(FALSE, TRUE), docker)
  BY DEF RollbackFails, Fail
<1>2. job.target \in Commits /\ job.target \in Known BY <1>1 DEF JobInv, Working, Known
<1>3. s \in States /\ s.history = st.history /\ s.follow = st.follow /\ s.deployed = st.deployed
      /\ s.attempted = st.attempted /\ s.blocked = TRUE /\ s.paused = st.paused
  BY DEF States, GitTypes
<1>4. docker \in Dockers BY DEF GitTypes
<1>5. Attempt(s, job.target).attempted = Attempt(st, job.target).attempted
  <2>1. st \in States BY DEF GitTypes
  <2> QED BY <2>1, <1>3 DEF Attempt, States
<1> HIDE DEF s
<1>6. Entry(FALSE, TRUE) \in Entries /\ Entry(FALSE, TRUE).commit = job.target
      /\ Entry(FALSE, TRUE).ran = FALSE /\ Entry(FALSE, TRUE).built = TRUE
  BY <1>2, EntryIsOne
<1>7. Ended(st.deployed, Attempt(st, job.target).attempted, TRUE, st.paused, Entry(FALSE, TRUE), docker)
  <2>1. /\ Attempt(s, job.target) \in States
        /\ Attempt(s, job.target).follow = st.follow /\ Attempt(s, job.target).deployed = st.deployed
        /\ Attempt(s, job.target).history = st.history /\ Attempt(s, job.target).blocked = TRUE
        /\ Attempt(s, job.target).paused = st.paused
    BY <1>2, <1>3, AttemptKeeps
  <2>2. Ended(Attempt(s, job.target).deployed, Attempt(s, job.target).attempted, Attempt(s, job.target).blocked,
              Attempt(s, job.target).paused, Entry(FALSE, TRUE), docker)
    BY <1>1, <1>4, <1>6, <2>1, FinishEnds
  <2> QED BY <1>5, <2>1, <2>2
<1> QED BY <1>1, <1>4, <1>6, <1>7

(* What an operation that begins by a click or by the automatic rebuild is:  *)
(* written down, from the version that is deployed to one of the remote or   *)
(* of the history.                                                           *)
Began ==
  /\ disk' = st' /\ st' \in States
  /\ st'.follow = disk.follow /\ st'.deployed = disk.deployed /\ st'.history = disk.history
  /\ st'.attempted = disk.attempted /\ st'.blocked = disk.blocked /\ st'.paused = disk.paused
  /\ st'.op.kind \in {"revert", "deploy", "build"} /\ st'.op.commit = job'.target
  /\ job' \in Jobs /\ job'.at \in {"fetch", "move"} /\ job'.target \in Commits
  /\ job'.previous = disk.deployed
  /\ job'.at = "move" => job'.revert \/ job'.target = disk.deployed.commit
  /\ docker' = docker /\ remote' = remote /\ base' = base /\ seen' = seen

LEMMA HistoryEntryIsOne ==
  ASSUME NEW s \in States, NEW c, NEW e \in HistoryEntry(s, c)
  PROVE  e \in Entries
<1>1. PICK i \in DOMAIN s.history : e = s.history[i] BY DEF HistoryEntry
<1>2. s.history \in Seq(Entries) BY DEF States
<1> QED BY <1>1, <1>2

Choice == [commit : Commits, tag : Tags, revert : BOOLEAN]

LEMMA ChoicesAreOfTheRemote ==
  ASSUME GitTypes, NEW choice \in Latest(disk) \cup ATag(disk) \cup ACommit(disk)
  PROVE  /\ choice \in Choice
         /\ disk.follow = "tags" /\ choice.tag = 0 => choice.revert \/ choice.commit = disk.deployed.commit
<1>1. disk \in States /\ remote \in [Tags -> Known] /\ remote[0] \in Commits
  BY NoTagIsATag DEF GitTypes, Known
<1>2. disk.follow \in {"branch", "tags"} /\ disk.deployed.tag \in Tags BY <1>1 DEF States, Versions
<1>3. \A t \in 1..MaxTag : t \in Tags /\ t # 0 BY NoTagIsATag DEF Tags
<1>4. CASE choice \in Latest(disk)
  <2>1. CASE disk.follow = "branch"
    <3>1. choice = [commit |-> remote[0], tag |-> 0, revert |-> FALSE] BY <1>4, <2>1 DEF Latest
    <3> QED BY <1>1, <2>1, <3>1, NoTagIsATag DEF Choice
  <2>2. CASE disk.follow # "branch"
    <3>1. PICK t \in Highest : choice = [commit |-> remote[t], tag |-> t,
             revert |-> RanEntry(disk, remote[t]) # {} /\ remote[t] # disk.deployed.commit]
      BY <1>4, <2>2 DEF Latest
    <3>2. t \in 1..MaxTag /\ remote[t] # NoCommit BY <3>1 DEF Highest
    <3>3. remote[t] \in Commits BY <1>1, <1>3, <3>2 DEF Known
    <3> QED BY <1>3, <3>1, <3>2, <3>3 DEF Choice
  <2> QED BY <2>1, <2>2
<1>5. CASE choice \in ATag(disk)
  <2>1. PICK t \in {u \in 1..MaxTag : disk.follow = "tags" /\ remote[u] # NoCommit} :
            choice = [commit |-> remote[t], tag |-> t,
                      revert |-> RanEntry(disk, remote[t]) # {} /\ remote[t] # disk.deployed.commit]
    BY <1>5 DEF ATag
  <2>2. t \in 1..MaxTag /\ remote[t] # NoCommit BY <2>1
  <2>3. remote[t] \in Commits BY <1>1, <1>3, <2>2 DEF Known
  <2> QED BY <1>3, <2>1, <2>2, <2>3 DEF Choice
<1>6. CASE choice \in ACommit(disk)
  <2> DEFINE T(c) == IF c = disk.deployed.commit THEN disk.deployed.tag
                     ELSE IF HistoryEntry(disk, c) # {} THEN (CHOOSE e \in HistoryEntry(disk, c) : TRUE).tag
                     ELSE 0
             R(c) == HistoryEntry(disk, c) # {} /\ ~(disk.follow = "tags" /\ c = disk.deployed.commit)
  <2>1. PICK c \in {k \in Commits : disk.follow = "branch" \/ k = disk.deployed.commit \/ RanEntry(disk, k) # {}} :
            choice = [commit |-> c, tag |-> T(c), revert |-> R(c)]
    BY <1>6 DEF ACommit
  <2>2. T(c) \in Tags
    <3>1. CASE HistoryEntry(disk, c) # {}
      <4>1. (CHOOSE e \in HistoryEntry(disk, c) : TRUE) \in HistoryEntry(disk, c) BY <3>1
      <4>2. (CHOOSE e \in HistoryEntry(disk, c) : TRUE) \in Entries BY <1>1, <4>1, HistoryEntryIsOne
      <4> QED BY <1>2, <3>1, <4>2 DEF Entries
    <3> QED BY <1>2, <3>1, NoTagIsATag
  <2>3. R(c) \in BOOLEAN OBVIOUS
  <2>4. disk.follow = "tags" /\ c # disk.deployed.commit => R(c)
    BY <2>1 DEF RanEntry
  <2> HIDE DEF T, R
  <2> QED BY <2>1, <2>2, <2>3, <2>4 DEF Choice
<1> QED BY <1>4, <1>5, <1>6

LEMMA BegunBegins ==
  ASSUME GitTypes, NEW target \in Commits, NEW tag \in Tags, NEW asRevert \in BOOLEAN,
         NEW trigger \in Triggers, Begun(disk, target, tag, asRevert, trigger),
         docker' = docker, remote' = remote, base' = base, seen' = seen
  PROVE  /\ Began /\ job'.target = target /\ job'.tag = tag /\ job'.trigger = trigger
         /\ job'.revert = (asRevert /\ ~(IsDeployed(disk) /\ target = disk.deployed.commit))
<1> DEFINE redeploy == IsDeployed(disk) /\ target = disk.deployed.commit
           revert   == asRevert /\ ~redeploy
           ready    == redeploy /\ target \in docker.images
           kind     == IF revert THEN "revert" ELSE IF ready THEN "deploy" ELSE "build"
           op       == [kind |-> kind, commit |-> target, tag |-> tag]
           begun    == [disk EXCEPT !.op = op]
           where    == IF revert \/ ready THEN "move" ELSE "fetch"
<1>1. /\ disk' = begun /\ st' = begun
      /\ job' = Job(where, target, tag, revert, trigger, disk.deployed)
  BY DEF Begun
<1>2. op \in Operations /\ op.kind \in {"revert", "deploy", "build"} /\ op.commit = target
  BY DEF Operations, Known
<1> HIDE DEF op
<1>3. disk \in States BY DEF GitTypes
<1>4. /\ begun \in States /\ begun.op = op
      /\ begun.follow = disk.follow /\ begun.deployed = disk.deployed /\ begun.history = disk.history
      /\ begun.attempted = disk.attempted /\ begun.blocked = disk.blocked /\ begun.paused = disk.paused
  BY <1>2, <1>3 DEF States
<1>5. disk.deployed \in Versions BY <1>3 DEF States
<1>6. revert \in BOOLEAN OBVIOUS
<1>7. where \in {"fetch", "move"} /\ (where = "move" => revert \/ target = disk.deployed.commit) OBVIOUS
<1> HIDE DEF where, begun
<1>8. /\ job' \in Jobs /\ job'.at = where /\ job'.target = target /\ job'.tag = tag
      /\ job'.trigger = trigger /\ job'.previous = disk.deployed /\ job'.revert = revert
  <2> HIDE DEF revert
  <2> QED BY <1>1, <1>5, <1>6, <1>7 DEF Job, Jobs, Known, Working
<1> QED BY <1>1, <1>2, <1>4, <1>7, <1>8 DEF Began

LEMMA LocalLeadsNowhere ==
  ASSUME NEW c \in Commits
  PROVE  ~IsAncestor(Local, c)
BY GitAssumption DEF IsAncestor

LEMMA StartBegins ==
  ASSUME GitTypes, JobInv, StartByHand \/ StartAutomatic
  PROVE  /\ Began /\ st = disk /\ folder' = folder
         /\ IsDeployed(disk) /\ disk.follow = "branch" /\ job'.at = "move" => folder.head # Local
         /\ \/ /\ job.at = "idle" /\ job'.trigger = "manual"
               /\ disk.follow = "tags" /\ job'.tag = 0
                  => job'.revert \/ job'.target = disk.deployed.commit
            \/ /\ job.at = "checked" /\ job'.trigger = "automatic" /\ MayDeployAutomatically(disk)
               /\ job'.target = job.target /\ job'.tag = job.tag
<1> DEFINE deployed == disk.deployed.commit
<1>1. disk \in States /\ folder \in Folders /\ job \in Jobs BY DEF GitTypes
<1>2. deployed \in Known /\ (IsDeployed(disk) => deployed \in Commits)
  BY <1>1 DEF States, Versions, IsDeployed, Known
<1>3. ASSUME NEW target \in Commits, NEW tag \in Tags, NEW asRevert \in BOOLEAN,
             MayStart(disk, target, tag, asRevert), IsDeployed(disk), disk.follow = "branch",
             (asRevert /\ target # deployed) \/ target = deployed
      PROVE  folder.head # Local
  <2>1. Local \notin Commits BY GitAssumption
  <2>2. deployed \in Commits BY <1>2, <1>3
  <2>3. CASE target = deployed /\ (disk.blocked \/ folder.head # target \/ tag # disk.deployed.tag)
    <3>1. FolderContainedIn(target, target) BY <1>3, <2>3 DEF MayStart
    <3> QED BY <1>3, <2>1, <3>1, LocalLeadsNowhere DEF FolderContainedIn
  <2>4. CASE ~(target = deployed /\ (disk.blocked \/ folder.head # target \/ tag # disk.deployed.tag))
    <3>1. asRevert => folder.head = deployed BY <1>3, <2>4 DEF MayStart
    <3>2. ~asRevert => folder.head = target BY <1>3, <2>4
    <3> QED BY <1>3, <2>1, <2>2, <3>1, <3>2
  <2> QED BY <2>3, <2>4
<1>4. CASE StartByHand
  <2>1. PICK choice \in Latest(disk) \cup ATag(disk) \cup ACommit(disk) :
            /\ MayStart(disk, choice.commit, choice.tag, choice.revert)
            /\ Begun(disk, choice.commit, choice.tag, choice.revert, "manual")
    BY <1>4 DEF StartByHand
  <2>2. /\ choice.commit \in Commits /\ choice.tag \in Tags /\ choice.revert \in BOOLEAN
        /\ disk.follow = "tags" /\ choice.tag = 0 => choice.revert \/ choice.commit = deployed
    BY ChoicesAreOfTheRemote DEF Choice
  <2>3. job.at = "idle" /\ folder' = folder /\ docker' = docker /\ remote' = remote /\ base' = base /\ seen' = seen
    BY <1>4 DEF StartByHand
  <2>4. /\ Began /\ job'.target = choice.commit /\ job'.tag = choice.tag /\ job'.trigger = "manual"
        /\ job'.revert = (choice.revert /\ ~(IsDeployed(disk) /\ choice.commit = deployed))
    BY <2>1, <2>2, <2>3, BegunBegins DEF Triggers
  <2>5. st = disk BY <2>3 DEF JobInv
  <2>6. job'.at = "move" => job'.revert \/ job'.target = deployed BY <2>4 DEF Began
  <2>7. IsDeployed(disk) /\ disk.follow = "branch" /\ job'.at = "move" => folder.head # Local
    BY <1>3, <2>1, <2>2, <2>4, <2>6
  <2>8. disk.follow = "tags" /\ job'.tag = 0 => job'.revert \/ job'.target = deployed
    BY <2>2, <2>4
  <2> QED BY <2>3, <2>4, <2>5, <2>7, <2>8
<1>5. CASE StartAutomatic
  <2> DEFINE revert == HistoryEntry(disk, job.target) # {}
  <2>1. /\ MayStart(disk, job.target, job.tag, revert)
        /\ Begun(disk, job.target, job.tag, revert, "automatic")
        /\ job.at = "checked" /\ MayDeployAutomatically(disk)
        /\ folder' = folder /\ docker' = docker /\ remote' = remote /\ base' = base /\ seen' = seen
    BY <1>5 DEF StartAutomatic
  <2>2. job.target \in Commits /\ job.tag \in Tags /\ job.target # deployed /\ revert \in BOOLEAN
    BY <1>1, <2>1 DEF MayDeployAutomatically, Jobs, Known
  <2> HIDE DEF revert
  <2>3. /\ Began /\ job'.target = job.target /\ job'.tag = job.tag /\ job'.trigger = "automatic"
        /\ job'.revert = (revert /\ ~(IsDeployed(disk) /\ job.target = deployed))
    BY <2>1, <2>2, BegunBegins DEF Triggers
  <2>4. st = disk BY <2>1 DEF JobInv
  <2>5. job'.at = "move" => job'.revert \/ job'.target = deployed BY <2>3 DEF Began
  <2>6. IsDeployed(disk) /\ disk.follow = "branch" /\ job'.at = "move" => folder.head # Local
    BY <1>3, <2>1, <2>2, <2>3, <2>5
  <2> QED BY <2>1, <2>3, <2>4, <2>6
<1> QED BY <1>4, <1>5

-----------------------------------------------------------------------------
(* Types, and what an operation under way knows *)

LEMMA HistoryIsKnown ==
  ASSUME NEW c \in Commits
  PROVE  History(c) \subseteq Commits \cup {Local}
BY DEF History

LEMMA GitInit == Init => GitTypes /\ JobInv
<1> SUFFICES ASSUME Init PROVE GitTypes /\ JobInv OBVIOUS
<1>1. NoOperation \in Operations /\ Nothing \in Versions
  BY NoTagIsATag DEF NoOperation, Operations, Known, Nothing, Versions
<1>2. First \in Commits /\ Ahead \in Commits /\ NoCommit \notin Commits BY GitAssumption
<1>3. Adopted \in Entries /\ <<Adopted>> \in Seq(Entries) /\ Adopted.ran = TRUE /\ Adopted.built = TRUE
      /\ [commit |-> First, tag |-> 0] \in Versions
  BY <1>2, NoTagIsATag DEF Adopted, Entries, Versions, Known
<1>4. \A follow \in {"branch", "tags"} : InitialState(follow, Nothing, <<>>) \in States
      /\ RanWasBuilt(InitialState(follow, Nothing, <<>>))
  BY <1>1 DEF InitialState, States, RanWasBuilt
<1>5. InitialState("branch", [commit |-> First, tag |-> 0], <<Adopted>>) \in States
      /\ RanWasBuilt(InitialState("branch", [commit |-> First, tag |-> 0], <<Adopted>>))
  BY <1>1, <1>3 DEF InitialState, States, RanWasBuilt
<1>6. disk \in States /\ RanWasBuilt(disk) /\ disk.op = NoOperation /\ docker \in Dockers /\ st = disk
  <2> DEFINE Fresh(follow) == InitialState(follow, Nothing, <<>>)
             Old == InitialState("branch", [commit |-> First, tag |-> 0], <<Adopted>>)
  <2>1. \A follow \in {"branch", "tags"} : Fresh(follow).op = NoOperation BY DEF InitialState
  <2>2. Old.op = NoOperation BY DEF InitialState
  <2>3. \/ /\ \E follow \in {"branch", "tags"} : disk = Fresh(follow)
           /\ docker = [images |-> {}, name |-> NoCommit, running |-> NoCommit, up |-> FALSE]
        \/ /\ disk = Old
           /\ docker = [images |-> {First}, name |-> First, running |-> First, up |-> TRUE]
    BY DEF Init
  <2> HIDE DEF Fresh, Old
  <2>4. docker \in Dockers
    <3>1. [images |-> {}, name |-> NoCommit, running |-> NoCommit, up |-> FALSE] \in Dockers
      BY DEF Dockers, Known
    <3>2. [images |-> {First}, name |-> First, running |-> First, up |-> TRUE] \in Dockers
      <4>1. {First} \in SUBSET Commits /\ First \in Known BY <1>2 DEF Known
      <4> QED BY <4>1 DEF Dockers
    <3> QED BY <2>3, <3>1, <3>2
  <2>5. disk \in States /\ RanWasBuilt(disk) /\ disk.op = NoOperation
    BY <1>4, <1>5, <2>1, <2>2, <2>3 DEF Fresh, Old
  <2> QED BY <2>4, <2>5 DEF Init
<1>7. Idle \in Jobs /\ job = Idle BY <1>1, NoTagIsATag DEF Idle, Job, Jobs, Known, Between, Triggers, Init
<1>8. folder \in Folders BY <1>2 DEF Init, Folders, Known
<1>9. remote \in [Tags -> Known] /\ remote[0] # NoCommit BY <1>2, NoTagIsATag DEF Init, Known
<1>10. base \in Known /\ seen \in Pasts BY DEF Init, Known, Pasts
<1>11. GitTypes BY <1>6, <1>7, <1>8, <1>9, <1>10 DEF GitTypes
<1>12. folder.head # Local BY <1>2, GitAssumption DEF Init
<1>13. JobInv BY <1>6, <1>7, <1>12 DEF JobInv, Idle, Job, Between, Working, Deploying, NoOperation
<1> QED BY <1>11, <1>13

LEMMA BeginningsKeepTypes ==
  ASSUME GitTypes, JobInv, StartByHand \/ StartAutomatic
  PROVE  GitTypes' /\ JobInv'
<1>1. Began /\ st = disk /\ folder' = folder /\ job'.trigger # "none"
  BY StartBegins
<1>2. GitTypes' BY <1>1 DEF GitTypes, Began, RanWasBuilt
<1>3. JobInv' BY <1>1 DEF JobInv, Began, Working, Between, Deploying
<1> QED BY <1>2, <1>3

(* A restore moves the folder; and it is written down, or nothing else has   *)
(* changed.                                                                  *)
Restored(c) ==
  /\ c \in Commits /\ folder' \in Folders /\ folder'.head = c
  /\ folder'.tip = (IF disk.follow = "branch" THEN c ELSE folder.tip)
  /\ folder.held \subseteq folder'.held /\ folder'.kept = folder.kept

RestoreCut ==
  /\ UNCHANGED <<disk, st, job>>
  /\ seen' = [seen EXCEPT !.lost = @ \cup (Offered(disk) \ folder.kept)]

LEMMA RestoreBegins ==
  ASSUME GitTypes, JobInv, StartRestore
  PROVE  /\ job.at = "idle" /\ st = disk /\ UNCHANGED <<docker, remote, base>>
         /\ \E c \in Commits :
               /\ Restored(c)
               /\ RestoreCut \/ (Began /\ job'.target = c /\ job'.trigger = "restore" /\ ~job'.revert)
<1>1. PICK c \in Commits, t \in Tags :
          /\ folder' = [folder EXCEPT !.head = c, !.tip = IF disk.follow = "branch" THEN c ELSE @,
                                      !.held = IF c \in @ THEN @ ELSE @ \cup History(c)]
          /\ \/ RestoreCut
             \/ /\ disk' = [disk EXCEPT !.op = [kind |-> "build", commit |-> c, tag |-> t]]
                /\ st' = disk' /\ seen' = seen
                /\ job' = Job(IF IsDeployed(disk) /\ c = disk.deployed.commit /\ c \in docker.images
                             THEN "move" ELSE "fetch", c, t, FALSE, "restore", disk.deployed)
  BY DEF StartRestore, RestoreCut
<1>2. job.at = "idle" /\ UNCHANGED <<docker, remote, base>> BY DEF StartRestore
<1>3. st = disk /\ disk \in States /\ folder \in Folders BY <1>2 DEF JobInv, GitTypes
<1>4. Restored(c)
  <2>1. History(c) \subseteq Commits \cup {Local} BY HistoryIsKnown
  <2>2. /\ folder'.head = c /\ folder'.tip = (IF disk.follow = "branch" THEN c ELSE folder.tip)
        /\ folder'.held = (IF c \in folder.held THEN folder.held ELSE folder.held \cup History(c))
        /\ folder'.kept = folder.kept /\ folder' \in Folders
    BY <1>1, <1>3, <2>1 DEF Folders, Known
  <2> QED BY <2>2 DEF Restored
<1>5. ASSUME ~RestoreCut PROVE Began /\ job'.target = c /\ job'.trigger = "restore" /\ ~job'.revert
  <2> DEFINE at == IF IsDeployed(disk) /\ c = disk.deployed.commit /\ c \in docker.images THEN "move" ELSE "fetch"
             op == [kind |-> "build", commit |-> c, tag |-> t]
  <2>1. op \in Operations /\ op.kind = "build" /\ op.commit = c BY DEF Operations, Known
  <2>2. disk' = [disk EXCEPT !.op = op] /\ st' = disk' /\ seen' = seen
        /\ job' = Job(at, c, t, FALSE, "restore", disk.deployed)
    BY <1>1, <1>5
  <2>3. at \in {"fetch", "move"} /\ (at = "move" => c = disk.deployed.commit) OBVIOUS
  <2> HIDE DEF at, op
  <2>4. /\ st' \in States /\ st'.op = op /\ st'.follow = disk.follow /\ st'.deployed = disk.deployed
        /\ st'.history = disk.history /\ st'.attempted = disk.attempted /\ st'.blocked = disk.blocked
        /\ st'.paused = disk.paused
    BY <1>3, <2>1, <2>2 DEF States
  <2>5. disk.deployed \in Versions BY <1>3 DEF States
  <2>6. /\ job' \in Jobs /\ job'.at = at /\ job'.target = c /\ job'.previous = disk.deployed
        /\ job'.trigger = "restore" /\ job'.revert = FALSE
    BY <2>2, <2>3, <2>5 DEF Job, Jobs, Known, Working, Triggers
  <2> QED BY <1>2, <2>1, <2>2, <2>3, <2>4, <2>6 DEF Began
<1> QED BY <1>2, <1>3, <1>4, <1>5

LEMMA RestoreKeepsTypes ==
  ASSUME GitTypes, JobInv, StartRestore
  PROVE  GitTypes' /\ JobInv'
<1>1. PICK c \in Commits : /\ Restored(c)
                           /\ RestoreCut \/ (Began /\ job'.target = c /\ job'.trigger = "restore" /\ ~job'.revert)
  BY RestoreBegins
<1>2. job.at = "idle" /\ st = disk /\ UNCHANGED <<docker, remote, base>> BY RestoreBegins
<1>3. folder' \in Folders /\ folder'.head # Local BY <1>1, GitAssumption DEF Restored
<1>4. CASE RestoreCut
  <2>1. Offered(disk) \subseteq Commits BY OfferedAreCommits DEF GitTypes
  <2>2. seen' \in Pasts BY <1>4, <2>1 DEF RestoreCut, GitTypes, Pasts
  <2>3. GitTypes' BY <1>2, <1>3, <1>4, <2>2 DEF RestoreCut, GitTypes, RanWasBuilt
  <2>4. JobInv' BY <1>2, <1>3, <1>4 DEF RestoreCut, JobInv, IsDeployed, Deploying
  <2> QED BY <2>3, <2>4
<1>5. CASE Began /\ job'.target = c /\ job'.trigger = "restore" /\ ~job'.revert
  <2>1. GitTypes' BY <1>2, <1>3, <1>5 DEF GitTypes, Began, RanWasBuilt
  <2>2. JobInv' BY <1>2, <1>3, <1>5 DEF JobInv, Began, Working, Between, Deploying
  <2> QED BY <2>1, <2>2
<1> QED BY <1>1, <1>4, <1>5

LEMMA PromotedIsTheSame ==
  ASSUME NEW s \in States, NEW commit \in Known, NEW tag \in Tags
  PROVE  /\ Promoted(s, commit, tag) \in States
         /\ Promoted(s, commit, tag).follow = s.follow
         /\ Promoted(s, commit, tag).deployed.commit = s.deployed.commit
         /\ Promoted(s, commit, tag).attempted = s.attempted
         /\ Promoted(s, commit, tag).blocked = s.blocked /\ Promoted(s, commit, tag).paused = s.paused
         /\ Promoted(s, commit, tag).auto = s.auto /\ Promoted(s, commit, tag).op = s.op
         /\ DOMAIN Promoted(s, commit, tag).history = DOMAIN s.history
         /\ \A i \in DOMAIN s.history :
               /\ Promoted(s, commit, tag).history[i].commit = s.history[i].commit
               /\ Promoted(s, commit, tag).history[i].ran = s.history[i].ran
               /\ Promoted(s, commit, tag).history[i].built = s.history[i].built
         /\ Promoted(s, commit, tag).deployed # s.deployed
            => s.follow = "tags" /\ s.deployed.tag # 0
<1> DEFINE named == [i \in DOMAIN s.history |->
                        IF s.history[i] \in RanEntry(s, commit)
                             /\ ~\E j \in DOMAIN s.history : j < i /\ s.history[j] = s.history[i]
                        THEN [s.history[i] EXCEPT !.tag = tag] ELSE s.history[i]]
           p == [s EXCEPT !.deployed.tag = tag, !.history = named]
<1>1. s.history \in Seq(Entries) /\ s.deployed \in Versions BY DEF States
<1>2. \A i \in DOMAIN s.history :
         /\ named[i] \in Entries /\ named[i].commit = s.history[i].commit
         /\ named[i].ran = s.history[i].ran /\ named[i].built = s.history[i].built
  <2> SUFFICES ASSUME NEW i \in DOMAIN s.history
               PROVE  /\ named[i] \in Entries /\ named[i].commit = s.history[i].commit
                      /\ named[i].ran = s.history[i].ran /\ named[i].built = s.history[i].built
    OBVIOUS
  <2>1. s.history[i] \in Entries BY <1>1
  <2>2. named[i] = s.history[i] \/ named[i] = [s.history[i] EXCEPT !.tag = tag] OBVIOUS
  <2> HIDE DEF named
  <2> QED BY <2>1, <2>2 DEF Entries
<1>3. DOMAIN named = DOMAIN s.history /\ DOMAIN s.history = 1..Len(s.history) BY <1>1
<1>4. \/ Promoted(s, commit, tag) = s
      \/ Promoted(s, commit, tag) = p /\ s.follow = "tags" /\ s.deployed.tag # 0
  BY DEF Promoted
<1> HIDE DEF named
<1>5. named \in Seq(Entries)
  <2>1. named = [i \in 1..Len(s.history) |-> named[i]] BY <1>3 DEF named
  <2>2. Len(s.history) \in Nat BY <1>1
  <2> QED BY <1>2, <1>3, <2>1, <2>2, IsASeq
<1>6. p \in States /\ p.history = named /\ p.deployed.commit = s.deployed.commit
      /\ p.follow = s.follow /\ p.attempted = s.attempted /\ p.blocked = s.blocked
      /\ p.paused = s.paused /\ p.auto = s.auto /\ p.op = s.op
  BY <1>1, <1>5 DEF States, Versions
<1> HIDE DEF p
<1>7. CASE Promoted(s, commit, tag) = s BY <1>7
<1>8. CASE Promoted(s, commit, tag) # s
  <2>1. Promoted(s, commit, tag) = p /\ s.follow = "tags" /\ s.deployed.tag # 0 BY <1>4, <1>8
  <2> QED BY <1>2, <1>3, <1>6, <2>1
<1> QED BY <1>7, <1>8

(* A check ends: the state is the one before, promoted or not.               *)
LEMMA ChecksEnd ==
  ASSUME GitTypes, JobInv, CheckAnswers \/ CheckFails
  PROVE  /\ job.at = "check" /\ job' \in Jobs /\ job'.at = "checked" /\ job'.trigger = "none" /\ ~job'.revert
         /\ disk' = st' /\ st' \in States /\ st'.op = NoOperation
         /\ st'.follow = st.follow /\ st'.deployed.commit = st.deployed.commit
         /\ st'.attempted = st.attempted /\ st'.blocked = st.blocked /\ st'.paused = st.paused
         /\ DOMAIN st'.history = DOMAIN st.history
         /\ \A i \in DOMAIN st.history :
               /\ st'.history[i].commit = st.history[i].commit
               /\ st'.history[i].ran = st.history[i].ran /\ st'.history[i].built = st.history[i].built
         /\ st'.deployed # st.deployed => st.follow = "tags" /\ st.deployed.tag # 0
         /\ folder' = folder /\ docker' = docker /\ remote' = remote /\ base' = base /\ seen' = seen
<1> DEFINE Ends(s, commit, tag) ==
             /\ commit \in Known /\ tag \in Tags /\ CheckEnds(s, commit, tag)
             /\ s \in States /\ s.follow = st.follow /\ s.deployed.commit = st.deployed.commit
             /\ s.attempted = st.attempted /\ s.blocked = st.blocked /\ s.paused = st.paused
             /\ DOMAIN s.history = DOMAIN st.history
             /\ \A i \in DOMAIN st.history :
                   /\ s.history[i].commit = st.history[i].commit
                   /\ s.history[i].ran = st.history[i].ran /\ s.history[i].built = st.history[i].built
             /\ s.deployed # st.deployed => st.follow = "tags" /\ st.deployed.tag # 0
<1>1. st \in States /\ job \in Jobs /\ remote \in [Tags -> Known] BY DEF GitTypes
<1>2. job.at = "check" /\ job.trigger = "none" /\ ~job.revert
  BY DEF CheckAnswers, CheckFails, JobInv, Between
<1>3. \E s \in States, commit \in Known, tag \in Tags : Ends(s, commit, tag)
  <2>1. CASE CheckAnswers
    <3>1. PICK tag \in IF st.follow = "branch" THEN {0} ELSE Highest :
              CheckEnds(Promoted(st, remote[tag], tag), remote[tag], tag)
      BY <2>1 DEF CheckAnswers
    <3>2. tag \in Tags BY <3>1, NoTagIsATag DEF Highest, Tags
    <3>3. remote[tag] \in Known BY <1>1, <3>2
    <3>4. Ends(Promoted(st, remote[tag], tag), remote[tag], tag) BY <1>1, <3>1, <3>2, <3>3, PromotedIsTheSame
    <3> QED BY <3>4
  <2>2. CASE CheckFails
    <3>1. Ends(st, NoCommit, 0) BY <1>1, <2>2, NoTagIsATag DEF CheckFails, Known
    <3> QED BY <3>1
  <2> QED BY <2>1, <2>2
<1>4. PICK s \in States, commit \in Known, tag \in Tags : Ends(s, commit, tag) BY <1>3
<1>5. /\ disk' = [s EXCEPT !.op = NoOperation] /\ st' = disk'
      /\ job' = [job EXCEPT !.at = "checked", !.target = commit, !.tag = tag]
      /\ folder' = folder /\ docker' = docker /\ remote' = remote /\ base' = base /\ seen' = seen
  BY <1>4 DEF CheckEnds
<1>6. NoOperation \in Operations BY NoTagIsATag DEF NoOperation, Operations, Known
<1>7. /\ st' \in States /\ st'.op = NoOperation /\ st'.follow = s.follow /\ st'.deployed = s.deployed
      /\ st'.attempted = s.attempted /\ st'.blocked = s.blocked /\ st'.paused = s.paused /\ st'.history = s.history
  BY <1>4, <1>5, <1>6 DEF States
<1>8. job' \in Jobs /\ job'.at = "checked" /\ job'.trigger = "none" /\ ~job'.revert
  BY <1>1, <1>2, <1>4, <1>5 DEF Jobs, Between
<1> QED BY <1>2, <1>4, <1>5, <1>7, <1>8

(* The other steps of an operation, and those of the world around it.        *)
Moves == Fetch \/ Build \/ Move \/ Retag \/ StartFails \/ MoveBack \/ RetagBack
Endings == \/ FetchRefused \/ BuildFails \/ MoveFails \/ AutomaticRefused \/ RecoverDeployment
           \/ FirstStartFails \/ Start \/ RolledBack \/ RollbackFails
Around == SetAuto \/ SwitchMode \/ Push \/ CommitByHand \/ TakeBack \/ Collect

LEMMA MovesKeepTypes ==
  ASSUME GitTypes, JobInv, Moves
  PROVE  GitTypes' /\ JobInv'
<1>1. CASE Fetch
  <2>1. /\ job.at = "fetch" /\ job' = [job EXCEPT !.at = "build"] /\ disk' = disk /\ st' = st
        /\ docker' = docker /\ remote' = remote /\ base' = base /\ seen' = seen
    BY <1>1 DEF Fetch
  <2>2. PICK more \in SUBSET (Commits \cup {Local}) : folder' = [folder EXCEPT !.held = @ \cup more]
    <3>1. History(job.target) \in SUBSET (Commits \cup {Local}) /\ History(remote[0]) \in SUBSET (Commits \cup {Local})
      BY DEF History
    <3> QED BY <1>1, <3>1 DEF Fetch
  <2>3. folder' \in Folders /\ folder'.head = folder.head BY <2>2 DEF GitTypes, Folders
  <2>4. job' \in Jobs BY <2>1 DEF GitTypes, Jobs, Working
  <2>5. GitTypes' BY <2>1, <2>3, <2>4 DEF GitTypes, RanWasBuilt
  <2>6. JobInv' BY <2>1, <2>3 DEF GitTypes, Jobs, JobInv, Working, Between, Deploying, IsDeployed
  <2> QED BY <2>5, <2>6
<1>2. CASE Build
  <2>1. /\ job.at = "build" /\ job' = [job EXCEPT !.at = "move"] /\ st' = [st EXCEPT !.op.kind = "deploy"]
        /\ disk' = st' /\ docker' = [docker EXCEPT !.images = @ \cup {job.target}]
        /\ folder' = folder /\ remote' = remote /\ base' = base /\ seen' = seen
    BY <1>2 DEF Build
  <2>2. /\ st' \in States /\ st'.op.kind = "deploy" /\ st'.op.commit = st.op.commit
        /\ st'.history = st.history /\ st'.deployed = st.deployed
    BY <2>1 DEF GitTypes, States, Operations
  <2>3. job.target \in Commits BY <2>1 DEF JobInv, Working
  <2>4. docker' \in Dockers BY <2>1, <2>3 DEF GitTypes, Dockers
  <2>5. job' \in Jobs BY <2>1 DEF GitTypes, Jobs, Working
  <2>6. GitTypes' BY <2>1, <2>2, <2>4, <2>5 DEF GitTypes, RanWasBuilt
  <2>7. JobInv' BY <2>1, <2>2 DEF GitTypes, Jobs, JobInv, Working, Between, Deploying, IsDeployed
  <2> QED BY <2>6, <2>7
<1>3. CASE Move \/ MoveBack
  <2>1. /\ job.at \in {"move", "back"} /\ job' = [job EXCEPT !.at = IF job.at = "move" THEN "retag" ELSE "retag back"]
        /\ disk' = disk /\ st' = st /\ docker' = docker /\ remote' = remote /\ base' = base /\ seen' = seen
    BY <1>3 DEF Move, MoveBack
  <2>2. \/ folder' = folder
        \/ \E c \in Commits : folder' = [folder EXCEPT !.head = c, !.tip = IF st.follow = "branch" THEN c ELSE @]
    <3>1. job.target \in Commits BY <2>1 DEF JobInv, Working
    <3>2. job.at = "back" => job.previous.commit \in Commits
      BY <2>1 DEF JobInv, Working, IsDeployed, GitTypes, Jobs, Versions, Known
    <3>3. \/ UNCHANGED folder \/ HeadMoves(job.target) \/ (job.at = "back" /\ HeadMoves(job.previous.commit))
      BY <1>3 DEF Move, MoveBack
    <3> QED BY <3>1, <3>2, <3>3 DEF HeadMoves
  <2>3. folder' \in Folders /\ (folder'.head = Local => folder.head = Local)
    <3>1. Local \notin Commits BY GitAssumption
    <3>2. folder \in Folders BY DEF GitTypes
    <3>3. CASE folder' = folder BY <3>2, <3>3
    <3>4. ASSUME NEW c \in Commits,
                 folder' = [folder EXCEPT !.head = c, !.tip = IF st.follow = "branch" THEN c ELSE @]
          PROVE  folder' \in Folders /\ folder'.head = c
      BY <3>2, <3>4 DEF Folders, Known
    <3> QED BY <2>2, <3>1, <3>3, <3>4
  <2>4. job' \in Jobs BY <2>1 DEF GitTypes, Jobs, Working
  <2>5. GitTypes' BY <2>1, <2>3, <2>4 DEF GitTypes, RanWasBuilt
  <2>6. JobInv' BY <2>1, <2>3 DEF GitTypes, Jobs, JobInv, Working, Between, Deploying, IsDeployed
  <2> QED BY <2>5, <2>6
<1>4. CASE Retag \/ RetagBack
  <2>1. /\ job.at \in {"retag", "retag back"}
        /\ job' = [job EXCEPT !.at = IF job.at = "retag" THEN "start" ELSE "start back"]
        /\ docker' = [docker EXCEPT !.name = IF job.at = "retag" THEN job.target ELSE job.previous.commit]
        /\ disk' = disk /\ st' = st /\ folder' = folder /\ remote' = remote /\ base' = base /\ seen' = seen
    BY <1>4 DEF Retag, RetagBack
  <2>2. job.target \in Known /\ job.previous.commit \in Known BY DEF GitTypes, Jobs, Versions
  <2>3. docker' \in Dockers BY <2>1, <2>2 DEF GitTypes, Dockers
  <2>4. job' \in Jobs BY <2>1 DEF GitTypes, Jobs, Working
  <2>5. GitTypes' BY <2>1, <2>3, <2>4 DEF GitTypes, RanWasBuilt
  <2>6. JobInv' BY <2>1 DEF GitTypes, Jobs, JobInv, Working, Between, Deploying, IsDeployed
  <2> QED BY <2>5, <2>6
<1>5. CASE StartFails
  <2>1. /\ job.at \in {"retag", "start"} /\ IsDeployed(st) /\ docker' \in AfterFailedStart
        /\ job' = [job EXCEPT !.at = "back"]
        /\ disk' = disk /\ st' = st /\ folder' = folder /\ remote' = remote /\ base' = base /\ seen' = seen
    BY <1>5 DEF StartFails
  <2>2. docker' \in Dockers
    <3>1. docker \in Dockers BY DEF GitTypes
    <3> QED BY <2>1, <3>1 DEF AfterFailedStart, Dockers
  <2>3. job' \in Jobs BY <2>1 DEF GitTypes, Jobs, Working
  <2>4. GitTypes' BY <2>1, <2>2, <2>3 DEF GitTypes, RanWasBuilt
  <2>5. JobInv' BY <2>1 DEF GitTypes, Jobs, JobInv, Working, Between, Deploying, IsDeployed
  <2> QED BY <2>4, <2>5
<1> QED BY <1>1, <1>2, <1>3, <1>4, <1>5 DEF Moves

(* What every ending has in common.                                          *)
LEMMA EndingsEnd ==
  ASSUME GitTypes, JobInv, Endings
  PROVE  \E v \in Versions, a \in Seq(Commits), b \in BOOLEAN, p \in BOOLEAN, e \in Entries, d \in Dockers :
            /\ Ended(v, a, b, p, e, d) /\ d.images = docker.images
            /\ e.ran => job.at = "start" /\ e.commit = job.target /\ v.commit = job.target
            /\ job.at # "start" => v = st.deployed
            /\ ~e.ran => v = st.deployed
            /\ job.at \in Working \cup {"checked", "down"}
            /\ job.at = "down" => Deploying(disk)
            /\ job.at = "checked" => job.target \in Commits
            /\ seen' \in Pasts /\ seen'.down = seen.down
            /\ seen'.lost = IF e.ran THEN seen.lost \ {job.target} ELSE seen.lost
<1>1. st \in States /\ docker \in Dockers /\ st.blocked \in BOOLEAN /\ st.paused \in BOOLEAN /\ st.deployed \in Versions
      /\ st.attempted \in Seq(Commits) /\ seen \in Pasts /\ job \in Jobs
  BY DEF GitTypes, States
<1>2. \A c \in Known : Attempt(st, c).attempted \in Seq(Commits)
  BY <1>1, AttemptKeeps DEF States
<1>3. job.target \in Known /\ disk.op.commit \in Known BY DEF GitTypes, Jobs, States, Operations
<1>4. CASE FetchRefused \/ BuildFails \/ MoveFails
  <2>1. /\ job.at \in {"fetch", "build", "move"} /\ seen' = [seen EXCEPT !.tried = @ \cup {job.target}]
    BY <1>4, RefusalsEnd
  <2>2. seen' \in Pasts /\ seen'.down = seen.down /\ seen'.lost = seen.lost BY <1>1, <1>3, <2>1 DEF Pasts
  <2>3. PICK e \in Entries :
           /\ ~e.ran /\ Ended(st.deployed, Attempt(st, job.target).attempted, st.blocked, st.paused, e, docker)
    BY <1>4, RefusalsEnd
  <2>4. Attempt(st, job.target).attempted \in Seq(Commits) BY <1>2, <1>3
  <2> USE <1>1, <2>4
  <2> WITNESS st.deployed \in Versions, Attempt(st, job.target).attempted \in Seq(Commits), st.blocked \in BOOLEAN,
              st.paused \in BOOLEAN, e \in Entries, docker \in Dockers
  <2> QED BY <2>1, <2>2, <2>3 DEF Working
<1>5. CASE AutomaticRefused
  BY <1>1, <1>2, <1>3, <1>5, AutomaticRefusalEnds
<1>6. CASE RecoverDeployment
  BY <1>1, <1>2, <1>3, <1>6, RecoveryEnds
<1>7. CASE FirstStartFails
  <2>1. /\ job.at \in {"retag", "start"} /\ seen' = [seen EXCEPT !.tried = @ \cup {job.target}]
    BY <1>7, FirstStartEnds
  <2>2. seen' \in Pasts /\ seen'.down = seen.down /\ seen'.lost = seen.lost BY <1>1, <1>3, <2>1 DEF Pasts
  <2>3. PICK e \in Entries, d \in Dockers :
           /\ ~e.ran /\ d.images = docker.images
           /\ Ended(st.deployed, Attempt(st, job.target).attempted, st.blocked, st.paused, e, d)
    BY <1>7, FirstStartEnds
  <2>4. Attempt(st, job.target).attempted \in Seq(Commits) BY <1>2, <1>3
  <2> USE <1>1, <2>4
  <2> WITNESS st.deployed \in Versions, Attempt(st, job.target).attempted \in Seq(Commits), st.blocked \in BOOLEAN,
              st.paused \in BOOLEAN, e \in Entries, d \in Dockers
  <2> QED BY <2>1, <2>2, <2>3 DEF Working
<1>8. CASE Start
  <2>1. Pauses \in BOOLEAN BY <1>1 DEF Pauses, TagHigher, Jobs
  <2>2. [commit |-> job.target, tag |-> job.tag] \in Versions BY <1>1, <1>3 DEF Versions, Jobs
  <2>3. /\ seen' = [seen EXCEPT !.displaced = FALSE, !.lost = @ \ {job.target}] /\ job.at = "start"
    BY <1>8, StartEnds
  <2>4. seen' \in Pasts /\ seen'.down = seen.down /\ seen'.lost = seen.lost \ {job.target}
    BY <1>1, <2>3 DEF Pasts
  <2>5. PICK e \in Entries, d \in Dockers :
          /\ e.ran /\ e.commit = job.target /\ d.images = docker.images
          /\ Ended([commit |-> job.target, tag |-> job.tag], st.attempted, FALSE, Pauses, e, d)
    BY <1>8, StartEnds
  <2>6. [commit |-> job.target, tag |-> job.tag].commit = job.target OBVIOUS
  <2> DEFINE v == [commit |-> job.target, tag |-> job.tag]
  <2>7. v \in Versions /\ v.commit = job.target BY <2>2, <2>6
  <2>8. Ended(v, st.attempted, FALSE, Pauses, e, d) BY <2>5
  <2> HIDE DEF v
  <2> USE <1>1, <2>1, <2>7
  <2> WITNESS v \in Versions, st.attempted \in Seq(Commits), FALSE \in BOOLEAN, Pauses \in BOOLEAN,
              e \in Entries, d \in Dockers
  <2> QED BY <2>3, <2>4, <2>5, <2>7, <2>8 DEF Working
<1>9. CASE RolledBack
  <2>1. /\ job.at = "start back"
        /\ seen' = [seen EXCEPT !.tried = @ \cup {job.target}, !.displaced = FALSE]
    BY <1>9, RollbackEnds
  <2>2. seen' \in Pasts /\ seen'.down = seen.down /\ seen'.lost = seen.lost BY <1>1, <1>3, <2>1 DEF Pasts
  <2>3. PICK e \in Entries, d \in Dockers :
           /\ ~e.ran /\ d.images = docker.images
           /\ Ended(st.deployed, Attempt(st, job.target).attempted, FALSE, st.paused, e, d)
    BY <1>9, RollbackEnds
  <2>4. Attempt(st, job.target).attempted \in Seq(Commits) BY <1>2, <1>3
  <2> USE <1>1, <2>4
  <2> WITNESS st.deployed \in Versions, Attempt(st, job.target).attempted \in Seq(Commits), FALSE \in BOOLEAN,
              st.paused \in BOOLEAN, e \in Entries, d \in Dockers
  <2> QED BY <2>1, <2>2, <2>3 DEF Working
<1>10. CASE RollbackFails
  BY <1>1, <1>2, <1>3, <1>10, FailedRollbackEnds, ZenonT(40) DEF Pasts, Working
<1> QED BY <1>4, <1>5, <1>6, <1>7, <1>8, <1>9, <1>10 DEF Endings

LEMMA EndingsKeepTypes ==
  ASSUME GitTypes, JobInv, Endings
  PROVE  GitTypes' /\ JobInv'
<1>1. PICK v \in Versions, a \in Seq(Commits), b \in BOOLEAN, p \in BOOLEAN, e \in Entries, d \in Dockers :
          /\ Ended(v, a, b, p, e, d)
          /\ job.at # "start" => v = st.deployed
          /\ job.at \in Working \cup {"checked", "down"}
          /\ seen' \in Pasts
  BY EndingsEnd
<1>2. GitTypes' BY <1>1 DEF GitTypes, Ended, RanWasBuilt
<1>3. JobInv' BY <1>1 DEF Ended, JobInv, Working, Between, Deploying
<1> QED BY <1>2, <1>3

LEMMA AroundKeepsTypes ==
  ASSUME GitTypes, JobInv, Around
  PROVE  GitTypes' /\ JobInv'
<1>1. CASE SetAuto
  <2>1. PICK on \in BOOLEAN : /\ disk' = [disk EXCEPT !.auto = on, !.paused = @ /\ ~on]
                              /\ seen' = [seen EXCEPT !.down = @ /\ ~on]
    BY <1>1 DEF SetAuto
  <2>2. job.at = "idle" /\ st' = disk' /\ UNCHANGED <<job, folder, docker, remote, base>> BY <1>1 DEF SetAuto
  <2>3. disk' \in States /\ disk'.history = disk.history /\ disk'.op = disk.op
    BY <2>1 DEF GitTypes, States
  <2>4. seen' \in Pasts BY <2>1 DEF GitTypes, Pasts
  <2>5. GitTypes' BY <2>2, <2>3, <2>4 DEF GitTypes, RanWasBuilt
  <2>6. JobInv' BY <2>2, <2>3 DEF JobInv, Working, Between, Deploying
  <2> QED BY <2>5, <2>6
<1>2. CASE SwitchMode
  <2>1. /\ job.at = "idle" /\ st' = disk' /\ UNCHANGED <<job, docker, remote, base>>
        /\ disk' = [disk EXCEPT !.follow = IF @ = "branch" THEN "tags" ELSE "branch"]
        /\ seen' = [seen EXCEPT !.down = FALSE]
        /\ folder' = folder \/ folder' = [folder EXCEPT !.tip = folder.head]
    BY <1>2 DEF SwitchMode
  <2>2. disk' \in States /\ disk'.history = disk.history /\ disk'.op = disk.op
    BY <2>1 DEF GitTypes, States
  <2>3. seen' \in Pasts BY <2>1 DEF GitTypes, Pasts
  <2>4. folder' \in Folders /\ folder'.head = folder.head BY <2>1 DEF GitTypes, Folders, Known
  <2>5. GitTypes' BY <2>1, <2>2, <2>3, <2>4 DEF GitTypes, RanWasBuilt
  <2>6. JobInv' BY <2>1, <2>2, <2>4 DEF JobInv, Working, Between, Deploying
  <2> QED BY <2>5, <2>6
<1>3. CASE Push
  <2>1. PICK t \in Tags, c \in Known : (t = 0 => c # NoCommit) /\ remote' = [remote EXCEPT ![t] = c]
    BY <1>3 DEF Push, Known
  <2>2. UNCHANGED <<disk, st, job, folder, docker, base, seen>> BY <1>3 DEF Push
  <2>3. remote' \in [Tags -> Known] /\ remote'[0] # NoCommit BY <2>1, NoTagIsATag DEF GitTypes
  <2>4. GitTypes' BY <2>2, <2>3 DEF GitTypes, RanWasBuilt
  <2>5. JobInv' BY <2>2 DEF JobInv, Working, Between, Deploying, IsDeployed
  <2> QED BY <2>4, <2>5
<1>4. CASE CommitByHand
  <2>1. /\ job.at = "idle" /\ base' = folder.head /\ UNCHANGED <<disk, st, job, docker, remote, seen>>
        /\ folder' = [folder EXCEPT !.head = Local, !.tip = Local, !.held = @ \cup {Local}]
        /\ folder.head # Local
    BY <1>4 DEF CommitByHand, JobInv
  <2>2. folder.head \in Commits /\ NoCommit \notin Commits BY <2>1, GitAssumption DEF GitTypes, Folders
  <2>3. folder' \in Folders BY <2>1 DEF GitTypes, Folders
  <2>4. GitTypes' BY <2>1, <2>2, <2>3 DEF GitTypes, Known, RanWasBuilt
  <2>5. JobInv' BY <2>1, <2>2 DEF JobInv, Working, Between, Deploying, IsDeployed
  <2> QED BY <2>4, <2>5
<1>5. CASE TakeBack
  <2> DEFINE c == disk.deployed.commit
  <2>1. /\ job.at = "idle" /\ IsDeployed(disk) /\ base' = NoCommit /\ UNCHANGED <<disk, st, job, docker, remote, seen>>
        /\ folder' = [folder EXCEPT !.head = c, !.tip = c, !.held = @ \ {Local}]
    BY <1>5 DEF TakeBack
  <2>2. c \in Commits /\ Local \notin Commits
    BY <2>1, GitAssumption DEF IsDeployed, GitTypes, States, Versions, Known
  <2> HIDE DEF c
  <2>3. folder' \in Folders /\ folder'.head = c BY <2>1, <2>2 DEF GitTypes, Folders, Known
  <2>4. GitTypes' BY <2>1, <2>3 DEF GitTypes, Known, RanWasBuilt
  <2>5. JobInv' BY <2>1, <2>2, <2>3 DEF JobInv, Working, Between, Deploying, IsDeployed
  <2> QED BY <2>4, <2>5
<1>6. CASE Collect
  <2>1. /\ job.at = "idle" /\ UNCHANGED <<disk, st, job, docker, remote, base, seen>>
        /\ folder' = [folder EXCEPT !.held = @ \cap Reachable]
    BY <1>6 DEF Collect
  <2>2. folder' \in Folders /\ folder'.head = folder.head BY <2>1 DEF GitTypes, Folders
  <2>3. GitTypes' BY <2>1, <2>2 DEF GitTypes, RanWasBuilt
  <2>4. JobInv' BY <2>1, <2>2 DEF JobInv, Working, Between, Deploying, IsDeployed
  <2> QED BY <2>3, <2>4
<1> QED BY <1>1, <1>2, <1>3, <1>4, <1>5, <1>6 DEF Around

LEMMA StopsKeepTypes ==
  ASSUME GitTypes, JobInv, Crash \/ Recover
  PROVE  GitTypes' /\ JobInv'
<1>1. CASE Crash
  <2>1. /\ st' = disk /\ job' = [Idle EXCEPT !.at = "down"]
        /\ UNCHANGED <<disk, folder, docker, remote, base>>
        /\ seen' = [seen EXCEPT
               !.tried = @ \cup (IF Deploying(disk) THEN {disk.op.commit} ELSE {}),
               !.displaced = @ \/ job.at \in {"retag", "start", "back", "retag back", "start back"}
                               \/ (job.at = "save" /\ (st.deployed # disk.deployed \/ st.blocked)),
               !.lost = @ \cup (IF job.at # "save" THEN {}
                                ELSE IF Deploying(disk) THEN Remembered(disk) \ Remembered(st)
                                ELSE Offered(disk) \ Offered(st))]
    BY <1>1 DEF Crash
  <2>2. Nothing \in Versions BY NoTagIsATag DEF Nothing, Versions, Known
  <2>3. /\ job' \in Jobs /\ job'.at = "down" /\ job'.trigger = "none" /\ ~job'.revert /\ job'.target = NoCommit
    BY <2>1, <2>2, NoTagIsATag DEF Idle, Job, Jobs, Known, Triggers
  <2>4. disk \in States /\ seen \in Pasts /\ st \in States BY DEF GitTypes
  <2>5. Remembered(disk) \subseteq Commits
    <3>1. disk.history \in Seq(Entries) /\ disk.deployed \in Versions BY <2>4 DEF States
    <3>2. \A i \in DOMAIN disk.history : disk.history[i] \in Entries BY <3>1
    <3>3. \A i \in DOMAIN disk.history : disk.history[i].commit \in Commits BY <3>2 DEF Entries
    <3> QED BY <3>1, <3>3 DEF Remembered, Named, Versions, Known
  <2>6. Offered(disk) \subseteq Commits BY <2>4, OfferedAreCommits
  <2>7. disk.op.commit \in Known BY <2>4 DEF States, Operations
  <2>8. seen' \in Pasts
    <3> DEFINE tries == IF Deploying(disk) THEN {disk.op.commit} ELSE {}
               loses == IF job.at # "save" THEN {}
                        ELSE IF Deploying(disk) THEN Remembered(disk) \ Remembered(st)
                        ELSE Offered(disk) \ Offered(st)
               moved == \/ job.at \in {"retag", "start", "back", "retag back", "start back"}
                        \/ (job.at = "save" /\ (st.deployed # disk.deployed \/ st.blocked))
    <3>1. tries \subseteq Known /\ loses \subseteq Commits BY <2>5, <2>6, <2>7
    <3>2. seen' = [seen EXCEPT !.tried = @ \cup tries, !.displaced = @ \/ moved, !.lost = @ \cup loses] BY <2>1
    <3>3. (seen.displaced \/ moved) \in BOOLEAN OBVIOUS
    <3> HIDE DEF tries, loses, moved
    <3> QED BY <2>4, <3>1, <3>2, <3>3 DEF Pasts
  <2>9. GitTypes' BY <2>1, <2>3, <2>8 DEF GitTypes, RanWasBuilt
  <2>10. JobInv' BY <2>1, <2>3 DEF JobInv, Working, Between, Deploying
  <2> QED BY <2>9, <2>10
<1>2. CASE Recover
  <2>1. /\ job.at = "down" /\ job' = Idle /\ st' = disk' /\ UNCHANGED <<folder, docker, remote, base, seen>>
        /\ disk' = [disk EXCEPT !.op = NoOperation]
    BY <1>2 DEF Recover
  <2>2. Nothing \in Versions /\ NoOperation \in Operations
    BY NoTagIsATag DEF Nothing, Versions, Known, NoOperation, Operations
  <2>3. /\ job' \in Jobs /\ job'.at = "idle" /\ job'.trigger = "none" /\ ~job'.revert /\ job'.target = NoCommit
    BY <2>1, <2>2, NoTagIsATag DEF Idle, Job, Jobs, Known, Triggers, Between
  <2>4. disk' \in States /\ disk'.history = disk.history /\ disk'.op = NoOperation BY <2>1, <2>2 DEF GitTypes, States
  <2>5. GitTypes' BY <2>1, <2>3, <2>4 DEF GitTypes, RanWasBuilt
  <2>6. JobInv' BY <2>1, <2>3, <2>4 DEF JobInv, Working, Between, Deploying, NoOperation
  <2> QED BY <2>5, <2>6
<1> QED BY <1>1, <1>2

LEMMA OthersKeepTypes ==
  ASSUME GitTypes, JobInv, StartCheck \/ CheckAnswers \/ CheckFails \/ CheckDone \/ Save
  PROVE  GitTypes' /\ JobInv'
<1>1. CASE StartCheck
  <2> DEFINE op == [kind |-> "check", commit |-> NoCommit, tag |-> 0]
  <2>1. /\ job.at = "idle" /\ job' = [Idle EXCEPT !.at = "check"] /\ st' = disk'
        /\ UNCHANGED <<folder, docker, remote, base, seen>>
        /\ disk' = [disk EXCEPT !.op = op]
    BY <1>1 DEF StartCheck
  <2>2. Nothing \in Versions /\ op \in Operations /\ op.kind = "check"
    BY NoTagIsATag DEF Nothing, Versions, Known, Operations
  <2> HIDE DEF op
  <2>3. /\ job' \in Jobs /\ job'.at = "check" /\ job'.trigger = "none" /\ ~job'.revert /\ job'.target = NoCommit
    BY <2>1, <2>2, NoTagIsATag DEF Idle, Job, Jobs, Known, Triggers, Between
  <2>4. disk' \in States /\ disk'.history = disk.history /\ disk'.op = op BY <2>1, <2>2 DEF GitTypes, States
  <2>5. GitTypes' BY <2>1, <2>3, <2>4 DEF GitTypes, RanWasBuilt
  <2>6. JobInv' BY <2>1, <2>2, <2>3, <2>4 DEF JobInv, Working, Between, Deploying
  <2> QED BY <2>5, <2>6
<1>2. CASE CheckAnswers \/ CheckFails
  <2>1. RanWasBuilt(st)' /\ RanWasBuilt(disk)'
    <3>1. \A i \in DOMAIN st'.history : st'.history[i].ran => st'.history[i].built
      BY <1>2, ChecksEnd DEF GitTypes, RanWasBuilt
    <3> QED BY <1>2, <3>1, ChecksEnd DEF RanWasBuilt
  <2>3. /\ disk' \in States /\ st' \in States /\ job' \in Jobs /\ folder' = folder /\ docker' = docker
        /\ remote' = remote /\ base' = base /\ seen' = seen
    BY <1>2, ChecksEnd
  <2>4. GitTypes' BY <2>1, <2>3 DEF GitTypes
  <2>5. /\ job'.at = "checked" /\ job'.trigger = "none" /\ ~job'.revert /\ disk' = st'
        /\ disk'.op.kind = "none" /\ base' = base /\ folder' = folder
    BY <1>2, ChecksEnd DEF NoOperation
  <2>2. JobInv' BY <2>5 DEF JobInv, Working, Between, Deploying
  <2> QED BY <2>2, <2>4
<1>3. CASE CheckDone
  <2>1. /\ job.at = "checked" /\ job' = Idle /\ UNCHANGED <<disk, st, folder, docker, remote, base, seen>>
    BY <1>3 DEF CheckDone
  <2>2. Nothing \in Versions BY NoTagIsATag DEF Nothing, Versions, Known
  <2>3. /\ job' \in Jobs /\ job'.at = "idle" /\ job'.trigger = "none" /\ ~job'.revert /\ job'.target = NoCommit
    BY <2>1, <2>2, NoTagIsATag DEF Idle, Job, Jobs, Known, Triggers, Between
  <2>4. GitTypes' BY <2>1, <2>3 DEF GitTypes, RanWasBuilt
  <2>5. JobInv' BY <2>1, <2>3 DEF JobInv, Working, Between, Deploying
  <2> QED BY <2>4, <2>5
<1>4. CASE Save
  <2>1. /\ job.at = "save" /\ disk' = st /\ st' = st /\ job' = Idle /\ UNCHANGED <<folder, docker, remote, base>>
        /\ seen' = [seen EXCEPT
              !.tried = @ \cup (IF job.trigger = "none" THEN {job.target} ELSE {}),
              !.forgotten = (@ \cup Forgotten) \ {st.attempted[i] : i \in DOMAIN st.attempted},
              !.down = IF job.trigger \in {"manual", "restore"} /\ st.deployed # disk.deployed
                       THEN WentDown(disk.deployed, st.deployed) ELSE @]
    BY <1>4 DEF Save
  <2>2. Nothing \in Versions BY NoTagIsATag DEF Nothing, Versions, Known
  <2>3. /\ job' \in Jobs /\ job'.at = "idle" /\ job'.trigger = "none" /\ ~job'.revert /\ job'.target = NoCommit
    BY <2>1, <2>2, NoTagIsATag DEF Idle, Job, Jobs, Known, Triggers, Between
  <2>4. WentDown(disk.deployed, st.deployed) \in BOOLEAN BY DEF WentDown, TagHigher, IsAncestor
  <2>5. seen' \in Pasts
    <3> DEFINE tries == IF job.trigger = "none" THEN {job.target} ELSE {}
               off == (seen.forgotten \cup Forgotten) \ {st.attempted[i] : i \in DOMAIN st.attempted}
               down == IF job.trigger \in {"manual", "restore"} /\ st.deployed # disk.deployed
                       THEN WentDown(disk.deployed, st.deployed) ELSE seen.down
    <3>1. seen \in Pasts /\ job \in Jobs BY DEF GitTypes
    <3>2. tries \subseteq Known BY <3>1 DEF Jobs
    <3>3. down \in BOOLEAN BY <2>4, <3>1 DEF Pasts
    <3>4. off \subseteq Commits
      <4>1. Forgotten \subseteq Commits
        <5>1. AttemptedLength >= 1 /\ AttemptedLength \in Nat BY GitAssumption
        <5>2. disk.attempted \in Seq(Commits) BY DEF GitTypes, States
        <5> QED BY <5>1, <5>2 DEF Forgotten
      <4> QED BY <3>1, <4>1 DEF Pasts
    <3>5. seen' = [seen EXCEPT !.tried = @ \cup tries, !.forgotten = off, !.down = down] BY <2>1
    <3> HIDE DEF tries, down, off
    <3> QED BY <3>1, <3>2, <3>3, <3>4, <3>5 DEF Pasts
  <2>8. disk' = st /\ st' = st /\ UNCHANGED <<folder, docker, remote, base>> BY <2>1
  <2>6. GitTypes'
    <3>1. RanWasBuilt(st)' /\ RanWasBuilt(disk)' BY <2>8 DEF GitTypes, RanWasBuilt
    <3> QED BY <2>3, <2>5, <2>8, <3>1 DEF GitTypes
  <2>9. st.op.kind = "none" BY <2>1 DEF JobInv, NoOperation
  <2>7. JobInv' BY <2>3, <2>8, <2>9 DEF JobInv, Working, Between, Deploying
  <2> QED BY <2>6, <2>7
<1> QED BY <1>1, <1>2, <1>3, <1>4

GitInv == GitTypes /\ JobInv

LEMMA GitSteps == Next => \/ StartByHand \/ StartAutomatic \/ StartRestore \/ StartCheck \/ CheckAnswers
                         \/ CheckFails \/ CheckDone \/ Save \/ Moves \/ Endings \/ Around \/ Crash \/ Recover
BY DEF Next, Work, Check, Forward, Back, Environment, Moves, Endings, Around

LEMMA GitNext == GitInv /\ [Next]_vars => GitInv'
<1> SUFFICES ASSUME GitInv, [Next]_vars PROVE GitInv' OBVIOUS
<1>1. GitTypes /\ JobInv BY DEF GitInv
<1>2. CASE UNCHANGED vars
  BY <1>1, <1>2 DEF vars, GitInv, GitTypes, JobInv, RanWasBuilt, Working, Between, Deploying, IsDeployed
<1>3. CASE Next
  BY <1>1, <1>3, GitSteps, BeginningsKeepTypes, RestoreKeepsTypes, OthersKeepTypes, MovesKeepTypes,
     EndingsKeepTypes, AroundKeepsTypes, StopsKeepTypes DEF GitInv
<1> QED BY <1>2, <1>3

-----------------------------------------------------------------------------
(* The running version keeps serving *)

Serves(s) == IsDeployed(s) /\ ~s.blocked /\ ~seen.displaced
             => docker.up /\ docker.running = s.deployed.commit /\ docker.name = s.deployed.commit

Serving == Between \cup {"fetch", "build", "move", "save", "down"}

(* The names of the images lead to what the next start is to run; and what   *)
(* runs is what the copy in memory names wherever docker is not being        *)
(* changed.                                                                  *)
ServeInv ==
  /\ job.at = "start" => docker.name = job.target
  /\ job.at = "start back" => docker.name = job.previous.commit
  /\ job.at \in Serving => Serves(st)

LEMMA ServeInit == Init => ServeInv
<1> SUFFICES ASSUME Init PROVE ServeInv OBVIOUS
<1>1. job.at = "idle" BY DEF Init, Idle, Job
<1>2. Serves(st)
  <2>1. CASE /\ disk \in {InitialState(follow, Nothing, <<>>) : follow \in {"branch", "tags"}}
    <3>1. disk.deployed = Nothing BY <2>1 DEF InitialState
    <3> QED BY <3>1 DEF Init, Serves, IsDeployed, Nothing
  <2>2. CASE /\ disk = InitialState("branch", [commit |-> First, tag |-> 0], <<Adopted>>)
             /\ docker = [images |-> {First}, name |-> First, running |-> First, up |-> TRUE]
    <3>1. disk.deployed.commit = First BY <2>2 DEF InitialState
    <3> QED BY <2>2, <3>1 DEF Init, Serves
  <2> QED BY <2>1, <2>2 DEF Init
<1> QED BY <1>1, <1>2 DEF ServeInv

LEMMA EndingsServe ==
  ASSUME GitInv, ServeInv, Endings
  PROVE  Serves(st)'
<1>1. GitTypes /\ JobInv BY DEF GitInv
<1>2. seen \in Pasts /\ docker \in Dockers /\ st \in States BY <1>1 DEF GitTypes
<1>3. CASE FetchRefused \/ BuildFails \/ MoveFails
  <2>1. PICK e \in Entries :
           Ended(st.deployed, Attempt(st, job.target).attempted, st.blocked, st.paused, e, docker)
    BY <1>1, <1>3, RefusalsEnd
  <2>2. Serves(st) BY <1>1, <1>3, RefusalsEnd DEF ServeInv, Serving
  <2>3. seen'.displaced = seen.displaced BY <1>1, <1>2, <1>3, RefusalsEnd DEF Pasts
  <2> QED BY <2>1, <2>2, <2>3 DEF Serves, Ended, IsDeployed
<1>4. CASE AutomaticRefused
  <2>1. PICK e \in Entries :
           Ended(st.deployed, Attempt(st, job.target).attempted, st.blocked, st.paused, e, docker)
    BY <1>1, <1>4, AutomaticRefusalEnds
  <2>2. Serves(st) BY <1>1, <1>4, AutomaticRefusalEnds DEF ServeInv, Serving, Between
  <2>3. seen' = seen BY <1>1, <1>4, AutomaticRefusalEnds
  <2> QED BY <2>1, <2>2, <2>3 DEF Serves, Ended, IsDeployed
<1>5. CASE RecoverDeployment
  <2>1. PICK e \in Entries :
           Ended(st.deployed, Attempt(st, disk.op.commit).attempted, st.blocked, st.paused, e, docker)
    BY <1>1, <1>5, RecoveryEnds
  <2>2. Serves(st) BY <1>1, <1>5, RecoveryEnds DEF ServeInv, Serving, Between
  <2>3. seen' = seen BY <1>1, <1>5, RecoveryEnds
  <2> QED BY <2>1, <2>2, <2>3 DEF Serves, Ended, IsDeployed
<1>6. CASE FirstStartFails
  <2>1. st'.deployed = st.deployed /\ ~IsDeployed(st) BY <1>1, <1>6, FirstStartEnds DEF Ended
  <2> QED BY <2>1 DEF Serves, IsDeployed
<1>7. CASE Start
  <2>1. PICK e \in Entries, d \in Dockers :
           /\ d.name = docker.name /\ d.running = docker.name /\ d.up = TRUE
           /\ Ended([commit |-> job.target, tag |-> job.tag], st.attempted, FALSE, Pauses, e, d)
    BY <1>1, <1>7, StartEnds
  <2>2. docker.name = job.target BY <1>1, <1>7, StartEnds DEF ServeInv
  <2>3. st'.deployed.commit = job.target BY <2>1 DEF Ended
  <2>4. docker'.up = TRUE /\ docker'.name = docker.name /\ docker'.running = docker.name BY <2>1 DEF Ended
  <2> QED BY <2>2, <2>3, <2>4 DEF Serves
<1>8. CASE RolledBack
  <2>1. PICK e \in Entries, d \in Dockers :
           /\ d.name = docker.name /\ d.running = docker.name /\ d.up = TRUE
           /\ Ended(st.deployed, Attempt(st, job.target).attempted, FALSE, st.paused, e, d)
    BY <1>1, <1>8, RollbackEnds
  <2>2. job.at = "start back" BY <1>1, <1>8, RollbackEnds
  <2>3. docker.name = st.deployed.commit BY <1>1, <2>2 DEF ServeInv, JobInv, Working
  <2>4. docker'.up = TRUE /\ docker'.name = docker.name /\ docker'.running = docker.name /\ st'.deployed = st.deployed
    BY <2>1 DEF Ended
  <2> QED BY <2>3, <2>4 DEF Serves
<1>9. CASE RollbackFails
  <2>1. st'.blocked = TRUE BY <1>1, <1>9, FailedRollbackEnds DEF Ended
  <2> QED BY <2>1 DEF Serves
<1> QED BY <1>3, <1>4, <1>5, <1>6, <1>7, <1>8, <1>9 DEF Endings

LEMMA ServeNext == GitInv /\ ServeInv /\ [Next]_vars => ServeInv'
<1> SUFFICES ASSUME GitInv, ServeInv, [Next]_vars PROVE ServeInv' OBVIOUS
<1>1. GitTypes /\ JobInv BY DEF GitInv
<1>2. seen \in Pasts /\ docker \in Dockers /\ st \in States /\ disk \in States /\ job \in Jobs BY <1>1 DEF GitTypes
<1>3. ASSUME job'.at \in Serving, docker' = docker, seen'.displaced = seen.displaced, job.at \in Serving,
             st'.deployed.commit = st.deployed.commit, st'.blocked = st.blocked
      PROVE  ServeInv'
  BY <1>3 DEF ServeInv, Serving, Serves, IsDeployed, Between
<1>4. CASE StartByHand \/ StartAutomatic
  <2>1. /\ docker' = docker /\ seen' = seen /\ job'.at \in {"fetch", "move"} /\ st = disk
        /\ st'.deployed = disk.deployed /\ st'.blocked = disk.blocked /\ job.at \in {"idle", "checked"}
    BY <1>1, <1>4, StartBegins DEF Began
  <2> QED BY <1>3, <2>1 DEF Serving, Between
<1>5. CASE StartRestore
  <2>1. /\ docker' = docker /\ seen'.displaced = seen.displaced /\ job'.at \in {"idle", "fetch", "move"}
        /\ st = disk /\ job.at = "idle" /\ st'.deployed = disk.deployed /\ st'.blocked = disk.blocked
    BY <1>1, <1>2, <1>5, RestoreBegins DEF RestoreCut, Began, Pasts
  <2> QED BY <1>3, <2>1 DEF Serving, Between
<1>6. CASE StartCheck
  <2>1. /\ docker' = docker /\ seen' = seen /\ job'.at = "check" /\ st = disk /\ job.at = "idle"
        /\ st'.deployed = disk.deployed /\ st'.blocked = disk.blocked
    BY <1>1, <1>2, <1>6 DEF StartCheck, Idle, Job, JobInv, States
  <2> QED BY <1>3, <2>1 DEF Serving, Between
<1>7. CASE CheckAnswers \/ CheckFails
  BY <1>1, <1>3, <1>7, ChecksEnd DEF Serving, Between
<1>8. CASE CheckDone
  <2>1. docker' = docker /\ seen' = seen /\ job'.at = "idle" /\ st' = st /\ job.at = "checked"
    BY <1>8 DEF CheckDone, Idle, Job
  <2> QED BY <1>3, <2>1 DEF Serving, Between
<1>9. CASE Save
  <2>1. /\ docker' = docker /\ job'.at = "idle" /\ st' = st /\ job.at = "save"
        /\ seen'.displaced = seen.displaced
    BY <1>2, <1>9 DEF Save, Idle, Job, Pasts
  <2> QED BY <1>3, <2>1 DEF Serving, Between
<1>10. CASE Moves
  <2>1. CASE Fetch \/ Build
    <3>1. /\ job.at \in {"fetch", "build"} /\ job'.at \in {"build", "move"} /\ seen' = seen
          /\ docker'.name = docker.name /\ docker'.running = docker.running /\ docker'.up = docker.up
          /\ st'.deployed = st.deployed /\ st'.blocked = st.blocked
      BY <1>2, <2>1 DEF Fetch, Build, Jobs, Dockers, States
    <3> QED BY <3>1 DEF ServeInv, Serving, Serves, IsDeployed, Between
  <2>2. CASE Move
    <3>1. job'.at = "retag" BY <1>2, <2>2 DEF Move, Jobs
    <3> QED BY <3>1 DEF ServeInv, Serving, Between
  <2>3. CASE Retag
    <3>1. job'.at = "start" /\ job'.target = job.target /\ docker'.name = job.target
      BY <1>2, <2>3 DEF Retag, Jobs, Dockers
    <3> QED BY <3>1 DEF ServeInv, Serving, Between
  <2>4. CASE StartFails
    <3>1. job'.at = "back" BY <1>2, <2>4 DEF StartFails, Jobs
    <3> QED BY <3>1 DEF ServeInv, Serving, Between
  <2>5. CASE MoveBack
    <3>1. job'.at = "retag back" BY <1>2, <2>5 DEF MoveBack, Jobs
    <3> QED BY <3>1 DEF ServeInv, Serving, Between
  <2>6. CASE RetagBack
    <3>1. job'.at = "start back" /\ job'.previous = job.previous /\ docker'.name = job.previous.commit
      BY <1>2, <2>6 DEF RetagBack, Jobs, Dockers
    <3> QED BY <3>1 DEF ServeInv, Serving, Between
  <2> QED BY <1>10, <2>1, <2>2, <2>3, <2>4, <2>5, <2>6 DEF Moves
<1>11. CASE Endings
  <2>1. Serves(st)' BY <1>11, EndingsServe
  <2>2. job'.at = "save" BY <1>1, <1>11, EndingsEnd DEF Ended
  <2> QED BY <2>1, <2>2 DEF ServeInv
<1>12. CASE Around
  <2>1. CASE SetAuto
    <3>1. /\ docker' = docker /\ job' = job /\ job.at = "idle" /\ st = disk
          /\ st'.deployed = st.deployed /\ st'.blocked = st.blocked /\ seen'.displaced = seen.displaced
      BY <1>1, <1>2, <2>1 DEF SetAuto, JobInv, States, Pasts
    <3> QED BY <1>3, <3>1 DEF Serving, Between
  <2>2. CASE SwitchMode
    <3>1. /\ docker' = docker /\ job' = job /\ job.at = "idle" /\ st = disk
          /\ st'.deployed = st.deployed /\ st'.blocked = st.blocked /\ seen'.displaced = seen.displaced
      BY <1>1, <1>2, <2>2 DEF SwitchMode, JobInv, States, Pasts
    <3> QED BY <1>3, <3>1 DEF Serving, Between
  <2>3. CASE Push \/ CommitByHand \/ TakeBack \/ Collect
    <3>1. docker' = docker /\ job' = job /\ st' = st /\ seen' = seen
      BY <2>3 DEF Push, CommitByHand, TakeBack, Collect
    <3> QED BY <3>1 DEF ServeInv, Serves
  <2> QED BY <1>12, <2>1, <2>2, <2>3 DEF Around
<1>13. CASE Crash
  <2> DEFINE moved == \/ job.at \in {"retag", "start", "back", "retag back", "start back"}
                      \/ (job.at = "save" /\ (st.deployed # disk.deployed \/ st.blocked))
  <2>1. /\ docker' = docker /\ job'.at = "down" /\ st' = disk /\ job.at \notin {"idle", "checked", "down"}
        /\ (seen'.displaced \/ ~seen.displaced) /\ (moved => seen'.displaced)
    BY <1>2, <1>13 DEF Crash, Idle, Job, Pasts
  <2>2. ~moved => /\ job.at \in Serving /\ st.deployed = disk.deployed
                  /\ job.at = "save" => ~st.blocked
                  /\ job.at # "save" => st = disk
    BY <1>1, <1>2, <2>1 DEF Jobs, Working, Serving, Between, JobInv
  <2> HIDE DEF moved
  <2>3. Serves(st)' BY <2>1, <2>2 DEF ServeInv, Serves, IsDeployed
  <2> QED BY <2>1, <2>3 DEF ServeInv
<1>14. CASE Recover
  <2>1. /\ docker' = docker /\ seen' = seen /\ job'.at = "idle" /\ st = disk /\ job.at = "down"
        /\ st'.deployed = disk.deployed /\ st'.blocked = disk.blocked
    BY <1>1, <1>2, <1>14 DEF Recover, Idle, Job, JobInv, States
  <2> QED BY <1>3, <2>1 DEF Serving, Between
<1>15. CASE UNCHANGED vars
  BY <1>15 DEF vars, ServeInv, Serves, IsDeployed
<1> QED BY <1>4, <1>5, <1>6, <1>7, <1>8, <1>9, <1>10, <1>11, <1>12, <1>13, <1>14, <1>15, GitSteps

(* Between two operations, and in one until it moves the folder, what runs   *)
(* is what the state names: a failed build, a refusal and a rollback leave   *)
(* it alone or put it back (Retag, Start, RetagBack, RolledBack).            *)
THEOREM WhatIsDeployedRuns == Spec => []ServesDeployed
<1>1. GitInv /\ ServeInv => ServesDeployed
  BY DEF GitInv, JobInv, ServeInv, Serving, Between, Serves, ServesDeployed
<1> QED BY <1>1, GitInit, GitNext, ServeInit, ServeNext, PTL DEF Spec, GitInv

-----------------------------------------------------------------------------
(* What may be gone back to is kept *)

Safe(s) == \A c \in Offered(s) \ seen.lost : c \in docker.images \cap folder.held
Kept(s) == \A c \in Offered(s) \ seen.lost : c \in folder.kept

(* No operation has ended yet, and no ref is kept: the adopted version is    *)
(* where the folder is, or where its owner's commit was made.                *)
Untouched == /\ Offered(disk) \subseteq {First} /\ folder.head \in {First, Local}
             /\ folder.head = Local => base = First

(* What is offered is there; what is about to start is; refs keep it, of     *)
(* both copies while they differ.                                            *)
KeepInv ==
  /\ Safe(st)
  /\ job.at \in {"retag", "start"} => job.target \in folder.held
  /\ job.at = "start" => job.target \in docker.images
  /\ job.at = "save" => /\ Kept(st)
                        /\ \A c \in Offered(disk) \ seen.lost :
                              c \in folder.held /\ (c \in Remembered(st) => c \in docker.images)
  /\ job.at \in Between \/ (job.at = "down" /\ ~Deploying(disk)) => Kept(disk) \/ Untouched

LEMMA SameOffered ==
  ASSUME NEW s, NEW t, t.deployed.commit = s.deployed.commit, DOMAIN t.history = DOMAIN s.history,
         \A i \in DOMAIN s.history : /\ t.history[i].commit = s.history[i].commit
                                     /\ t.history[i].ran = s.history[i].ran
  PROVE  Offered(t) = Offered(s)
BY DEF Offered

(* What is offered was built, so its images are remembered.                  *)
LEMMA OfferedAreRemembered ==
  ASSUME NEW s, RanWasBuilt(s)
  PROVE  Offered(s) \subseteq Remembered(s)
BY DEF Offered, RanWasBuilt, Remembered, Named

LEMMA KeepInit == Init => KeepInv
<1> SUFFICES ASSUME Init PROVE KeepInv OBVIOUS
<1>1. job.at = "idle" /\ st = disk BY DEF Init, Idle, Job
<1>2. First \in Commits /\ <<First, First>> \in Older BY GitAssumption
<1>3. folder.head = First /\ First \in folder.held BY <1>2 DEF Init
<1>4. Offered(disk) \subseteq {First} /\ (First \in Offered(disk) => First \in docker.images)
  <2>1. CASE disk \in {InitialState(follow, Nothing, <<>>) : follow \in {"branch", "tags"}}
    <3>1. disk.deployed.commit = NoCommit /\ disk.history = <<>> BY <2>1 DEF InitialState, Nothing
    <3>2. Offered(disk) = {} BY <3>1 DEF Offered
    <3> QED BY <3>2
  <2>2. CASE /\ disk = InitialState("branch", [commit |-> First, tag |-> 0], <<Adopted>>)
             /\ docker = [images |-> {First}, name |-> First, running |-> First, up |-> TRUE]
    <3>1. disk.deployed.commit = First /\ disk.history = <<Adopted>> /\ Adopted.commit = First
      BY <2>2 DEF InitialState, Adopted
    <3>2. \A i \in DOMAIN disk.history : disk.history[i] = Adopted BY <3>1
    <3>3. Offered(disk) \subseteq {First} BY <3>1, <3>2 DEF Offered
    <3>4. First \in docker.images BY <2>2
    <3> QED BY <3>3, <3>4
  <2> QED BY <2>1, <2>2 DEF Init
<1>5. First # Local BY <1>2, GitAssumption
<1>6. Safe(st) BY <1>1, <1>3, <1>4 DEF Safe
<1>7. Untouched BY <1>3, <1>4, <1>5 DEF Untouched
<1> QED BY <1>1, <1>6, <1>7 DEF KeepInv, Between

LEMMA EndingsKeep ==
  ASSUME GitInv, GitInv', KeepInv, Endings
  PROVE  KeepInv'
<1>1. GitTypes /\ JobInv BY DEF GitInv
<1>2. PICK v \in Versions, a \in Seq(Commits), b \in BOOLEAN, p \in BOOLEAN, e \in Entries, d \in Dockers :
         /\ Ended(v, a, b, p, e, d) /\ d.images = docker.images
         /\ e.ran => job.at = "start" /\ e.commit = job.target /\ v.commit = job.target
         /\ ~e.ran => v = st.deployed
         /\ job.at \in Working \cup {"checked", "down"}
         /\ seen' \in Pasts
         /\ seen'.lost = IF e.ran THEN seen.lost \ {job.target} ELSE seen.lost
  BY <1>1, EndingsEnd, ZenonT(40)
<1>3. disk = st /\ disk' = disk BY <1>1, <1>2 DEF JobInv, Working, Ended
<1>4. \A c \in Offered(st') : (e.ran /\ c = job.target) \/ c \in Offered(st)
  <2> SUFFICES ASSUME NEW c \in Offered(st') PROVE (e.ran /\ c = job.target) \/ c \in Offered(st)
    OBVIOUS
  <2>1. c # NoCommit BY DEF Offered
  <2>2. CASE c = st'.deployed.commit BY <1>2, <2>1, <2>2 DEF Ended, Offered
  <2>3. CASE c # st'.deployed.commit
    <3>1. PICK i \in DOMAIN st'.history : st'.history[i].ran /\ st'.history[i].commit = c
      BY <2>3 DEF Offered
    <3>2. st'.history[i] = e \/ \E k \in DOMAIN st.history : st'.history[i] = st.history[k]
      BY <1>2, <3>1 DEF Ended
    <3> QED BY <1>2, <2>1, <3>1, <3>2 DEF Offered
  <2> QED BY <2>2, <2>3
<1>5. \A c \in (Offered(st') \cup Offered(st)) \ seen'.lost : c \in docker.images /\ c \in folder.held
  <2> SUFFICES ASSUME NEW c \in (Offered(st') \cup Offered(st)) \ seen'.lost
               PROVE  c \in docker.images /\ c \in folder.held
    OBVIOUS
  <2>1. CASE e.ran /\ c = job.target BY <1>2, <2>1 DEF KeepInv
  <2>2. CASE ~(e.ran /\ c = job.target)
    <3>1. c \in Offered(st) \ seen.lost BY <1>2, <1>4, <2>2
    <3> QED BY <3>1 DEF KeepInv, Safe
  <2> QED BY <2>1, <2>2
<1>6. Offered(st') \subseteq Remembered(st') BY <1>2, OfferedAreRemembered DEF Ended
<1>7. /\ \A c \in Remembered(st') : c \in docker.images => c \in docker'.images
      /\ folder'.held = folder.held /\ folder'.kept = Offered(st') \cap folder.held
      /\ job'.at = "save"
  BY <1>2 DEF Ended
<1>8. Safe(st)' BY <1>5, <1>6, <1>7 DEF Safe
<1>9. Kept(st)' BY <1>5, <1>7 DEF Kept
<1>10. \A c \in Offered(disk') \ seen'.lost :
          c \in folder'.held /\ (c \in Remembered(st') => c \in docker'.images)
  BY <1>3, <1>5, <1>7
<1> QED BY <1>7, <1>8, <1>9, <1>10 DEF KeepInv, Between

LEMMA AroundKeeps ==
  ASSUME GitInv, KeepInv, Around
  PROVE  KeepInv'
<1>1. GitTypes /\ JobInv BY DEF GitInv
<1>2. seen \in Pasts /\ docker \in Dockers /\ st \in States /\ disk \in States /\ job \in Jobs /\ folder \in Folders
  BY <1>1 DEF GitTypes
<1>3. /\ First \in Commits /\ Local \notin Commits /\ NoCommit \notin Commits
      /\ \A c \in Commits : <<c, c>> \in Older
  BY GitAssumption
<1>4. Offered(disk) \subseteq Commits BY <1>2, OfferedAreCommits
<1>5. CASE SetAuto \/ SwitchMode
  <2>1. /\ job.at = "idle" /\ job' = job /\ docker' = docker /\ base' = base /\ st' = disk' /\ st = disk
        /\ disk'.deployed = disk.deployed /\ disk'.history = disk.history /\ seen'.lost = seen.lost
        /\ folder'.head = folder.head /\ folder'.held = folder.held /\ folder'.kept = folder.kept
    <3>1. CASE SetAuto BY <1>1, <1>2, <3>1 DEF SetAuto, JobInv, States, Pasts
    <3>2. CASE SwitchMode BY <1>1, <1>2, <3>2 DEF SwitchMode, JobInv, States, Pasts, Folders
    <3> QED BY <1>5, <3>1, <3>2
  <2>2. Offered(disk') = Offered(disk) BY <2>1, SameOffered
  <2> QED BY <2>1, <2>2 DEF KeepInv, Safe, Kept, Untouched, Between
<1>6. CASE Push
  <2>1. UNCHANGED <<disk, st, job, folder, docker, base, seen>> BY <1>6 DEF Push
  <2> QED BY <2>1 DEF KeepInv, Safe, Kept, Untouched, Between, Deploying
<1>7. CASE CommitByHand
  <2>1. /\ job.at = "idle" /\ UNCHANGED <<disk, st, job, docker, seen>> /\ st = disk
        /\ base' = folder.head /\ folder.head # Local
        /\ folder'.head = Local /\ folder'.held = folder.held \cup {Local} /\ folder'.kept = folder.kept
    BY <1>1, <1>2, <1>7 DEF CommitByHand, JobInv, Folders
  <2>2. Safe(st)' BY <2>1 DEF KeepInv, Safe
  <2>3. (Kept(disk) \/ Untouched)' BY <2>1 DEF KeepInv, Kept, Untouched, Between
  <2> QED BY <2>1, <2>2, <2>3 DEF KeepInv, Between
<1>8. CASE TakeBack
  <2>1. /\ job.at = "idle" /\ UNCHANGED <<disk, st, job, docker, seen>> /\ st = disk
        /\ folder'.head = disk.deployed.commit /\ folder'.held = folder.held \ {Local} /\ folder'.kept = folder.kept
        /\ disk.deployed.commit # NoCommit
    BY <1>1, <1>2, <1>8 DEF TakeBack, JobInv, Folders, IsDeployed
  <2>2. Safe(st)' BY <1>3, <1>4, <2>1 DEF KeepInv, Safe
  <2>3. disk.deployed.commit \in Offered(disk) BY <2>1 DEF Offered
  <2>4. (Kept(disk) \/ Untouched)' BY <1>3, <2>1, <2>3 DEF KeepInv, Kept, Untouched, Between
  <2> QED BY <2>1, <2>2, <2>4 DEF KeepInv, Between
<1>9. CASE Collect
  <2>1. /\ job.at = "idle" /\ UNCHANGED <<disk, st, job, docker, base, seen>> /\ st = disk
        /\ folder'.head = folder.head /\ folder'.held = folder.held \cap Reachable /\ folder'.kept = folder.kept
    BY <1>1, <1>2, <1>9 DEF Collect, JobInv, Folders
  <2>2. \A c \in Offered(disk) \ seen.lost : c \in Reachable
    <3> SUFFICES ASSUME NEW c \in Offered(disk) \ seen.lost PROVE c \in Reachable OBVIOUS
    <3>1. c \in History(c) BY <1>3, <1>4 DEF History, IsAncestor
    <3>2. CASE Kept(disk)
      <4>1. c \in folder.kept BY <3>2 DEF Kept
      <4> QED BY <3>1, <4>1 DEF Reachable
    <3>3. CASE Untouched
      <4>1. c = First /\ folder.head \in {First, Local} /\ (folder.head = Local => base = First)
        BY <3>3 DEF Untouched
      <4>2. c \in History(folder.head) BY <1>3, <3>1, <4>1 DEF History, IsAncestor
      <4> QED BY <4>2 DEF Reachable
    <3> QED BY <2>1, <3>2, <3>3 DEF KeepInv, Between
  <2>3. Safe(st)' BY <2>1, <2>2 DEF KeepInv, Safe
  <2>4. (Kept(disk) \/ Untouched)' BY <2>1 DEF KeepInv, Kept, Untouched, Between
  <2> QED BY <2>1, <2>3, <2>4 DEF KeepInv, Between
<1> QED BY <1>5, <1>6, <1>7, <1>8, <1>9 DEF Around

(* Steps after which the state offers what it did, and docker and the folder *)
(* hold at least what they held.                                             *)
LEMMA GrowingKeeps ==
  ASSUME KeepInv, Offered(st') = Offered(st), seen'.lost = seen.lost,
         docker.images \subseteq docker'.images, folder.held \subseteq folder'.held
  PROVE  Safe(st)'
BY DEF KeepInv, Safe

LEMMA MovesKeep ==
  ASSUME GitInv, GitInv', KeepInv, Moves
  PROVE  KeepInv'
<1>1. GitTypes /\ JobInv BY DEF GitInv
<1>2. docker \in Dockers /\ st \in States /\ job \in Jobs /\ folder \in Folders
  BY <1>1 DEF GitTypes
<1>3. Offered(st') = Offered(st) /\ seen' = seen
  <2>1. st'.deployed = st.deployed /\ st'.history = st.history /\ seen' = seen
    BY <1>2 DEF Moves, Fetch, Build, Move, Retag, StartFails, MoveBack, RetagBack, States
  <2> QED BY <2>1, SameOffered
<1>4. docker.images \subseteq docker'.images
  <2>1. CASE Build BY <1>2, <2>1 DEF Build, Dockers
  <2>2. CASE Retag \/ RetagBack BY <1>2, <2>2 DEF Retag, RetagBack, Dockers
  <2>3. CASE StartFails BY <1>2, <2>3 DEF StartFails, AfterFailedStart, Dockers
  <2>4. CASE Fetch \/ Move \/ MoveBack BY <2>4 DEF Fetch, Move, MoveBack
  <2> QED BY <2>1, <2>2, <2>3, <2>4 DEF Moves
<1>5. folder.held \subseteq folder'.held
  <2>1. CASE Fetch BY <1>2, <2>1 DEF Fetch, Folders
  <2>2. CASE Move BY <1>2, <2>2 DEF Move, HeadMoves, Folders
  <2>3. CASE MoveBack BY <1>2, <2>3 DEF MoveBack, HeadMoves, Folders
  <2>4. CASE Build \/ Retag \/ StartFails \/ RetagBack BY <2>4 DEF Build, Retag, StartFails, RetagBack
  <2> QED BY <2>1, <2>2, <2>3, <2>4 DEF Moves
<1>6. Safe(st)' BY <1>3, <1>4, <1>5, GrowingKeeps
<1>7. /\ job'.target = job.target
      /\ job'.at \in {"build", "move", "retag", "start", "back", "retag back", "start back"}
      /\ job'.at = "retag" => job.target \in folder.held
      /\ job'.at = "start" => job.at = "retag" /\ job.target \in docker.images
  BY <1>2 DEF Moves, Fetch, Build, Move, Retag, StartFails, MoveBack, RetagBack, Jobs
<1> QED BY <1>4, <1>5, <1>6, <1>7 DEF KeepInv, Between

LEMMA CrashKeeps ==
  ASSUME GitInv, KeepInv, Crash
  PROVE  KeepInv'
<1>1. GitTypes /\ JobInv BY DEF GitInv
<1>2. seen \in Pasts /\ st \in States /\ disk \in States /\ job \in Jobs /\ RanWasBuilt(disk)
  BY <1>1 DEF GitTypes
<1> DEFINE loses == IF job.at # "save" THEN {}
                    ELSE IF Deploying(disk) THEN Remembered(disk) \ Remembered(st)
                    ELSE Offered(disk) \ Offered(st)
<1>3. /\ UNCHANGED <<disk, folder, docker, base>> /\ st' = disk /\ job'.at = "down"
      /\ job.at \notin {"idle", "checked", "down"}
  BY <1>2 DEF Crash, Idle, Job
<1>4. seen'.lost = seen.lost \cup loses BY <1>2 DEF Crash, Pasts
<1>5. CASE job.at # "save"
  <2>1. st = disk /\ seen'.lost = seen.lost BY <1>1, <1>4, <1>5 DEF JobInv
  <2>2. Safe(st)' BY <1>3, <2>1 DEF KeepInv, Safe
  <2>3. ~Deploying(disk) => job.at \in Between
    BY <1>1, <1>2, <1>3, <1>5 DEF JobInv, Jobs
  <2>4. ~Deploying(disk) => (Kept(disk) \/ Untouched)' BY <1>3, <2>1, <2>3 DEF KeepInv, Kept, Untouched
  <2>5. Deploying(disk)' = Deploying(disk) BY <1>3 DEF Deploying
  <2> QED BY <1>3, <2>2, <2>4, <2>5 DEF KeepInv, Between
<1>6. CASE job.at = "save" /\ Deploying(disk)
  <2>1. seen'.lost = seen.lost \cup (Remembered(disk) \ Remembered(st)) BY <1>4, <1>6
  <2>2. Offered(disk) \subseteq Remembered(disk) BY <1>2, OfferedAreRemembered
  <2>3. Safe(st)' BY <1>3, <1>6, <2>1, <2>2 DEF KeepInv, Safe
  <2>4. Deploying(disk)' BY <1>3, <1>6 DEF Deploying
  <2> QED BY <1>3, <2>3, <2>4 DEF KeepInv, Between
<1>7. CASE job.at = "save" /\ ~Deploying(disk)
  <2>1. seen'.lost = seen.lost \cup (Offered(disk) \ Offered(st)) BY <1>4, <1>7
  <2>2. Safe(st)' BY <1>3, <2>1 DEF KeepInv, Safe
  <2>3. Kept(disk)' BY <1>3, <1>7, <2>1 DEF KeepInv, Kept
  <2> QED BY <1>3, <2>2, <2>3 DEF KeepInv, Between
<1> QED BY <1>5, <1>6, <1>7

LEMMA KeepNext == GitInv /\ GitInv' /\ KeepInv /\ [Next]_vars => KeepInv'
<1> SUFFICES ASSUME GitInv, GitInv', KeepInv, [Next]_vars PROVE KeepInv' OBVIOUS
<1>1. GitTypes /\ JobInv BY DEF GitInv
<1>2. seen \in Pasts /\ docker \in Dockers /\ st \in States /\ disk \in States /\ job \in Jobs /\ folder \in Folders
  BY <1>1 DEF GitTypes
<1>3. CASE StartByHand \/ StartAutomatic
  <2>1. /\ docker' = docker /\ seen' = seen /\ folder' = folder /\ job'.at \in {"fetch", "move"} /\ st = disk
        /\ st'.deployed = disk.deployed /\ st'.history = disk.history
    BY <1>1, <1>3, StartBegins DEF Began
  <2>2. Offered(st') = Offered(st) BY <2>1, SameOffered
  <2>3. Safe(st)' BY <2>1, <2>2, GrowingKeeps
  <2> QED BY <2>1, <2>3 DEF KeepInv, Between
<1>4. CASE StartRestore
  <2>1. /\ docker' = docker /\ st = disk /\ folder.held \subseteq folder'.held /\ folder'.kept = folder.kept
        /\ job.at = "idle" /\ (RestoreCut \/ Began)
    BY <1>1, <1>4, RestoreBegins DEF Restored
  <2>2. CASE Began
    <3>1. Offered(st') = Offered(st) BY <2>1, <2>2, SameOffered DEF Began
    <3>2. Safe(st)' BY <2>1, <2>2, <3>1, GrowingKeeps DEF Began
    <3> QED BY <2>2, <3>2 DEF KeepInv, Between, Began
  <2>3. CASE RestoreCut
    <3>1. /\ disk' = disk /\ st' = st /\ job' = job
          /\ seen'.lost = seen.lost \cup (Offered(disk) \ folder.kept)
      BY <1>2, <2>3 DEF RestoreCut, Pasts
    <3>2. Safe(st)' BY <2>1, <3>1 DEF KeepInv, Safe
    <3>3. Kept(disk)' BY <2>1, <3>1 DEF Kept
    <3> QED BY <2>1, <3>1, <3>2, <3>3 DEF KeepInv
  <2> QED BY <2>1, <2>2, <2>3
<1>5. ASSUME docker' = docker, seen'.lost = seen.lost, folder' = folder, base' = base, st' = disk', st = disk,
             job'.at \in Between, job.at \in Between \/ (job.at = "down" /\ ~Deploying(disk)),
             st'.deployed.commit = st.deployed.commit, DOMAIN st'.history = DOMAIN st.history,
             \A i \in DOMAIN st.history : /\ st'.history[i].commit = st.history[i].commit
                                          /\ st'.history[i].ran = st.history[i].ran
      PROVE  KeepInv'
  <2>1. Offered(st') = Offered(st) BY <1>5, SameOffered
  <2>2. Safe(st)' BY <1>5, <2>1, GrowingKeeps
  <2>3. (Kept(disk) \/ Untouched)' BY <1>5, <2>1 DEF KeepInv, Kept, Untouched
  <2> QED BY <1>5, <2>2, <2>3 DEF KeepInv, Between
<1>6. CASE StartCheck
  <2>1. /\ docker' = docker /\ seen' = seen /\ folder' = folder /\ base' = base /\ st' = disk' /\ st = disk
        /\ job'.at = "check" /\ job.at = "idle"
        /\ st'.deployed = disk.deployed /\ st'.history = disk.history
    BY <1>1, <1>2, <1>6 DEF StartCheck, Idle, Job, JobInv, States
  <2> QED BY <1>5, <2>1 DEF Between
<1>7. CASE CheckAnswers \/ CheckFails
  <2>1. st = disk BY <1>1, <1>7, ChecksEnd DEF JobInv
  <2> QED BY <1>1, <1>5, <1>7, <2>1, ChecksEnd DEF Between
<1>8. CASE CheckDone
  <2>1. /\ docker' = docker /\ seen' = seen /\ folder' = folder /\ base' = base /\ st' = st /\ disk' = disk
        /\ st = disk /\ job'.at = "idle" /\ job.at = "checked"
    BY <1>1, <1>8 DEF CheckDone, Idle, Job, JobInv
  <2> QED BY <1>5, <2>1 DEF Between
<1>9. CASE Recover
  <2>1. /\ docker' = docker /\ seen' = seen /\ folder' = folder /\ base' = base /\ st' = disk' /\ st = disk
        /\ job'.at = "idle" /\ job.at = "down" /\ ~Deploying(disk)
        /\ st'.deployed = disk.deployed /\ st'.history = disk.history
    BY <1>1, <1>2, <1>9 DEF Recover, Idle, Job, JobInv, States
  <2> QED BY <1>5, <2>1 DEF Between
<1>10. CASE Save
  <2>1. /\ docker' = docker /\ folder' = folder /\ st' = st /\ disk' = st /\ seen'.lost = seen.lost
        /\ job'.at = "idle" /\ job.at = "save"
    BY <1>2, <1>10 DEF Save, Idle, Job, Pasts
  <2>2. Safe(st)' BY <2>1 DEF KeepInv, Safe
  <2>3. Kept(disk)' BY <2>1 DEF KeepInv, Kept
  <2> QED BY <2>1, <2>2, <2>3 DEF KeepInv, Between
<1>11. CASE Moves BY <1>11, MovesKeep
<1>12. CASE Endings BY <1>12, EndingsKeep
<1>13. CASE Around BY <1>13, AroundKeeps
<1>14. CASE Crash BY <1>14, CrashKeeps
<1>15. CASE UNCHANGED vars
  BY <1>15 DEF vars, KeepInv, Safe, Kept, Untouched, Deploying
<1> QED BY <1>3, <1>4, <1>6, <1>7, <1>8, <1>9, <1>10, <1>11, <1>12, <1>13, <1>14, <1>15, GitSteps

(* The version to roll back to and every version of the history that ran     *)
(* have their images and their commit, whatever leaves the list, is removed  *)
(* or is dropped by git's collector (finishGitDeploy, keepGitCommits).       *)
THEOREM WhatRanIsKept == Spec => []VersionsCanBeGoneBackTo
<1>1. GitInv /\ KeepInv => VersionsCanBeGoneBackTo
  <2> SUFFICES ASSUME GitInv, KeepInv PROVE VersionsCanBeGoneBackTo OBVIOUS
  <2>1. job.at \in {"idle", "check", "checked"} => st = disk BY DEF GitInv, JobInv
  <2>2. RollbackFindsItsVersion BY <2>1 DEF RollbackFindsItsVersion, KeepInv, Safe, Offered, IsDeployed
  <2>3. \A i \in DOMAIN disk.history : disk.history[i].commit # NoCommit
    <3>1. disk.history \in Seq(Entries) BY DEF GitInv, GitTypes, States
    <3>2. \A i \in DOMAIN disk.history : disk.history[i] \in Entries BY <3>1
    <3> QED BY <3>2, GitAssumption DEF Entries
  <2>4. HistoryCanBeGoneBackTo BY <2>1, <2>3 DEF HistoryCanBeGoneBackTo, KeepInv, Safe, Offered
  <2> QED BY <2>2, <2>4 DEF VersionsCanBeGoneBackTo
<1> QED BY <1>1, GitInit, GitNext, KeepInit, KeepNext, PTL DEF Spec, GitInv

-----------------------------------------------------------------------------
(* A commit made by hand stays *)

Fetched == Working \ {"fetch"}

(* On a branch the branch is where HEAD is; and once an operation of a       *)
(* deployed app has asked what the folder holds, that is no commit made by   *)
(* hand.                                                                     *)
HandInv ==
  /\ st.follow = "branch" => folder.tip = folder.head
  /\ folder.head = Local => folder.tip = Local
  /\ job.at \in Fetched /\ IsDeployed(st) /\ st.follow = "branch" => folder.head # Local

LEMMA HandInit == Init => HandInv
<1> SUFFICES ASSUME Init PROVE HandInv OBVIOUS
<1>1. job.at = "idle" /\ st = disk BY DEF Init, Idle, Job
<1>2. folder.head = First /\ First # Local BY GitAssumption DEF Init
<1>3. disk.follow = "branch" => folder.tip = First BY DEF Init
<1> QED BY <1>1, <1>2, <1>3 DEF HandInv, Fetched, Working

(* No step of a deployed app but the taking back and a restore drops it.     *)
Drops == HandMade /\ IsDeployed(disk) /\ base' # NoCommit /\ ~HandMade'

LEMMA HandNext == GitInv /\ HandInv /\ [Next]_vars => HandInv' /\ (~StartRestore => ~Drops)
<1> SUFFICES ASSUME GitInv, HandInv, [Next]_vars PROVE HandInv' /\ (~StartRestore => ~Drops) OBVIOUS
<1>1. GitTypes /\ JobInv BY DEF GitInv
<1>2. st \in States /\ disk \in States /\ job \in Jobs /\ folder \in Folders BY <1>1 DEF GitTypes
<1>3. Local \notin Commits BY GitAssumption
(* Steps that leave the folder where it is.                                  *)
<1>4. ASSUME folder'.head = folder.head, folder'.tip = folder.tip, base' = base, st'.follow = st.follow,
             job'.at \notin Fetched
      PROVE  HandInv' /\ ~Drops
  BY <1>4 DEF HandInv, Drops, HandMade
<1>5. CASE StartByHand \/ StartAutomatic
  <2>1. /\ folder' = folder /\ base' = base /\ st = disk /\ st'.follow = disk.follow /\ st'.deployed = disk.deployed
        /\ job'.at \in {"fetch", "move"}
        /\ IsDeployed(disk) /\ disk.follow = "branch" /\ job'.at = "move" => folder.head # Local
    BY <1>1, <1>5, StartBegins DEF Began
  <2> QED BY <2>1 DEF HandInv, Drops, HandMade, Fetched, IsDeployed
<1>6. CASE StartRestore
  <2>1. PICK c \in Commits : Restored(c) /\ (RestoreCut \/ (Began /\ job'.target = c))
    BY <1>1, <1>6, RestoreBegins
  <2>2. st = disk /\ st'.follow = disk.follow BY <1>1, <1>6, <2>1, RestoreBegins DEF RestoreCut, Began
  <2>3. folder'.head = c /\ folder'.tip = IF disk.follow = "branch" THEN c ELSE folder.tip
    BY <2>1 DEF Restored
  <2> QED BY <1>3, <1>6, <2>1, <2>2, <2>3 DEF HandInv
<1>7. CASE StartCheck \/ CheckDone \/ Save
  <2>1. folder' = folder /\ base' = base /\ st'.follow = st.follow /\ job'.at \in Between
    <3>1. CASE StartCheck BY <1>1, <1>2, <3>1 DEF StartCheck, Idle, Job, Between, JobInv, States
    <3>2. CASE CheckDone BY <3>2 DEF CheckDone, Idle, Job, Between
    <3>3. CASE Save BY <3>3 DEF Save, Idle, Job, Between
    <3> QED BY <1>7, <3>1, <3>2, <3>3
  <2> QED BY <1>4, <2>1 DEF Fetched, Working, Between
<1>8. CASE CheckAnswers \/ CheckFails
  BY <1>1, <1>4, <1>8, ChecksEnd DEF Fetched, Working
<1>9. CASE Moves
  <2>1. /\ base' = base /\ disk'.deployed = disk.deployed /\ st'.follow = st.follow /\ st'.deployed = st.deployed
        /\ job.at \in Working /\ st = disk /\ job'.at \in Fetched /\ (job.at = "fetch" \/ job.at \in Fetched)
    <3>1. /\ job.at \in Working /\ base' = base /\ (job.at = "fetch" \/ job.at \in Fetched)
          /\ \E at \in Fetched : job' = [job EXCEPT !.at = at]
      BY <1>9 DEF Moves, Fetch, Build, Move, Retag, StartFails, MoveBack, RetagBack, Working, Fetched
    <3>2. st = disk BY <1>1, <3>1 DEF JobInv, Working
    <3>3. job'.at \in Fetched BY <1>2, <3>1 DEF Jobs
    <3>4. disk'.deployed = disk.deployed /\ st'.follow = st.follow /\ st'.deployed = st.deployed
      <4>1. CASE Build BY <1>2, <3>2, <4>1 DEF Build, States
      <4>2. CASE ~Build BY <1>9, <4>2 DEF Moves, Fetch, Move, Retag, StartFails, MoveBack, RetagBack
      <4> QED BY <4>1, <4>2
    <3> QED BY <3>1, <3>2, <3>3, <3>4
  <2>2. CASE Fetch
    <3>1. folder'.head = folder.head /\ folder'.tip = folder.tip /\ job.at = "fetch" BY <1>2, <2>2 DEF Fetch, Folders
    <3>2. IsDeployed(st) /\ st.follow = "branch" => folder.head # Local
      <4> SUFFICES ASSUME IsDeployed(st), st.follow = "branch" PROVE folder.head # Local OBVIOUS
      <4>1. job.target \in Commits /\ job.previous.commit \in Commits
        BY <1>1, <1>2, <2>1 DEF JobInv, IsDeployed, States, Versions, Known
      <4>2. FolderContainedIn(job.previous.commit, job.target) BY <2>2 DEF Fetch, BranchAllows
      <4> QED BY <1>3, <4>1, <4>2, LocalLeadsNowhere DEF FolderContainedIn
    <3> QED BY <2>1, <3>1, <3>2 DEF HandInv, Drops, HandMade, IsDeployed
  <2>3. CASE Build \/ Retag \/ StartFails \/ RetagBack
    <3>1. folder' = folder /\ job.at \in Fetched
      BY <2>3 DEF Build, Retag, StartFails, RetagBack, Fetched, Working
    <3> QED BY <2>1, <3>1 DEF HandInv, Drops, HandMade, IsDeployed
  <2>4. CASE Move \/ MoveBack
    <3>1. job.at \in Fetched BY <2>4 DEF Move, MoveBack, Fetched, Working
    <3>2. CASE folder' = folder BY <2>1, <3>1, <3>2 DEF HandInv, Drops, HandMade, IsDeployed
    <3>3. CASE folder' # folder
      <4>1. PICK c \in Commits : HeadMoves(c)
        <5>1. job.target \in Commits BY <1>1, <2>1 DEF JobInv
        <5>2. job.at = "back" => job.previous.commit \in Commits
          BY <1>1, <1>2, <2>1 DEF JobInv, IsDeployed, States, Versions, Known
        <5> QED BY <2>4, <3>3, <5>1, <5>2 DEF Move, MoveBack
      <4>2. folder'.head = c /\ folder'.tip = IF st.follow = "branch" THEN c ELSE folder.tip
        BY <1>2, <4>1 DEF HeadMoves, Folders
      <4>3. HandInv' BY <1>3, <2>1, <4>1, <4>2 DEF HandInv
      <4>4. ~Drops
        <5>1. CASE st.follow = "branch" BY <2>1, <3>1, <5>1 DEF HandInv, Drops, HandMade
        <5>2. CASE st.follow # "branch" BY <2>1, <4>2, <5>2 DEF HandInv, Drops, HandMade
        <5> QED BY <5>1, <5>2
      <4> QED BY <4>3, <4>4
    <3> QED BY <3>2, <3>3
  <2> QED BY <1>9, <2>2, <2>3, <2>4 DEF Moves
<1>10. CASE Endings
  <2>1. folder'.head = folder.head /\ folder'.tip = folder.tip /\ base' = base /\ st'.follow = st.follow /\ job'.at = "save"
    BY <1>1, <1>10, EndingsEnd DEF Ended
  <2> QED BY <1>4, <2>1 DEF Fetched, Working
<1>11. CASE Around
  <2>1. job.at = "fetch" \/ job.at = "idle" BY <1>11 DEF Around, SetAuto, SwitchMode, Push, CommitByHand, TakeBack, Collect
  <2>2. job' = job /\ job'.at \notin Fetched
    <3>1. job' = job BY <1>11 DEF Around, SetAuto, SwitchMode, Push, CommitByHand, TakeBack, Collect
    <3> QED BY <2>1, <3>1 DEF Fetched, Working
  <2>3. CASE SetAuto \/ Push \/ Collect
    <3>1. folder'.head = folder.head /\ folder'.tip = folder.tip /\ base' = base /\ st'.follow = st.follow
      <4>1. CASE SetAuto BY <1>1, <1>2, <4>1 DEF SetAuto, States, JobInv
      <4>2. CASE Push BY <4>2 DEF Push
      <4>3. CASE Collect BY <1>2, <4>3 DEF Collect, Folders
      <4> QED BY <2>3, <4>1, <4>2, <4>3
    <3> QED BY <1>4, <2>2, <3>1
  <2>4. CASE SwitchMode
    <3>1. /\ base' = base /\ st = disk /\ st' = disk' /\ disk'.follow = IF disk.follow = "branch" THEN "tags" ELSE "branch"
      BY <1>1, <1>2, <2>4 DEF SwitchMode, JobInv, States
    <3>2. CASE disk.follow = "branch"
      <4>1. folder' = folder BY <2>4, <3>2 DEF SwitchMode
      <4> QED BY <2>2, <3>1, <3>2, <4>1 DEF HandInv, Drops, HandMade
    <3>3. CASE disk.follow # "branch"
      <4>1. /\ folder'.head = folder.head /\ folder'.tip = folder.head
            /\ folder.tip = Local => IsAncestor(Local, folder.head) \/ IsAncestor(Local, remote[0])
        BY <1>2, <1>3, <2>4, <3>3, GitAssumption DEF SwitchMode, Folders
      <4>2. remote[0] \in Commits BY <1>1, NoTagIsATag DEF GitTypes, Known
      <4>3. folder.tip = Local => folder.head = Local
        <5>1. folder.head \in Commits \/ folder.head = Local BY <1>2 DEF Folders
        <5> QED BY <4>1, <4>2, <5>1, LocalLeadsNowhere
      <4> QED BY <2>2, <3>1, <4>1, <4>3 DEF HandInv, Drops, HandMade
    <3> QED BY <3>2, <3>3
  <2>5. CASE CommitByHand
    <3>1. folder'.head = Local /\ folder'.tip = Local /\ st' = st /\ base = NoCommit
      BY <1>2, <2>5 DEF CommitByHand, Folders
    <3> QED BY <2>2, <3>1 DEF HandInv, Drops, HandMade
  <2>6. CASE TakeBack
    <3>1. /\ folder'.head = disk.deployed.commit /\ folder'.tip = disk.deployed.commit /\ st' = st
          /\ base' = NoCommit
      BY <1>2, <2>6 DEF TakeBack, Folders
    <3> QED BY <2>2, <3>1 DEF HandInv, Drops
  <2> QED BY <1>11, <2>3, <2>4, <2>5, <2>6 DEF Around
<1>12. CASE Crash \/ Recover
  <2>1. folder' = folder /\ base' = base /\ st'.follow = st.follow /\ job'.at \in {"down", "idle"}
    <3>1. CASE Crash
      <4>1. folder' = folder /\ base' = base /\ st' = disk /\ job'.at = "down" BY <3>1 DEF Crash, Idle, Job
      <4> QED BY <1>1, <4>1 DEF JobInv
    <3>2. CASE Recover BY <1>1, <1>2, <3>2 DEF Recover, Idle, Job, JobInv, States
    <3> QED BY <1>12, <3>1, <3>2
  <2> QED BY <1>4, <2>1 DEF Fetched, Working
<1>13. CASE UNCHANGED vars
  BY <1>13 DEF vars, HandInv, Drops, HandMade, IsDeployed
<1> QED BY <1>5, <1>6, <1>7, <1>8, <1>9, <1>10, <1>11, <1>12, <1>13, GitSteps

(* No step drops a commit made by hand in the folder of a deployed app: each *)
(* that moves HEAD has asked gitFolderContainedIn, the mode is switched only *)
(* as gitBranchToFollow lets it, and otherwise its author takes it back, or  *)
(* a backup is put back over it.                                             *)
THEOREM HandMadeIsKept == Spec => HandMadeStays
<1>1. GitInv /\ HandInv /\ [Next]_vars
      => [~StartRestore /\ HandMade /\ IsDeployed(disk) /\ base' # NoCommit => HandMade']_vars
  BY HandNext DEF Drops
<1> QED BY <1>1, GitInit, GitNext, HandInit, HandNext, PTL DEF Spec, GitInv, HandMadeStays

-----------------------------------------------------------------------------
(* What the automatic rebuild may do alone *)

Before(a, b) == a = b \/ <<a, b>> \in Older

LEMMA BeforeIsAncestor ==
  ASSUME NEW a, NEW b \in Known
  PROVE  IsAncestor(a, b) <=> Before(a, b)
BY GitAssumption DEF IsAncestor, Before, Known

(* The version an automatic deployment goes to is above the one it leaves,   *)
(* and on a branch every deployment but a revert has been found to be.       *)
UpInv ==
  /\ job.at \in Working /\ job.trigger = "automatic"
     => IF st.follow = "tags" THEN TagHigher(job.tag, st.deployed.tag) ELSE IsDeployed(st) /\ st.deployed.tag = 0
  /\ job.at \in Fetched /\ st.follow = "branch" /\ IsDeployed(st) /\ st.deployed.tag = 0
     => job.revert \/ Before(st.deployed.commit, job.target)
  /\ job.at = "save" /\ job.trigger = "automatic" /\ st.deployed # disk.deployed
     => IF st.follow = "tags" THEN TagHigher(st.deployed.tag, disk.deployed.tag)
        ELSE job.revert \/ Before(disk.deployed.commit, st.deployed.commit)

(* WentDown, of versions of the remote.                                      *)
IsStepDown(old, new) ==
  /\ new.commit # old.commit
  /\ IF old.tag = 0 THEN new.tag = 0 /\ Before(new.commit, old.commit) ELSE TagHigher(old.tag, new.tag)

LEMMA StepDownsAreThese ==
  ASSUME NEW old, NEW new, old.commit \in Known
  PROVE  WentDown(old, new) <=> IsStepDown(old, new)
BY BeforeIsAncestor DEF WentDown, IsStepDown

(* Nothing automatic starts from here.                                       *)
Alone(s) == IsDeployed(s) /\ (s.paused \/ (s.follow = "tags" /\ s.deployed.tag = 0))

ByOwner == {"manual", "restore"}

(* After a step down nothing automatic starts; at the end of a deployment    *)
(* the copy in memory will not either, should this one have been one.        *)
DownInv ==
  /\ seen.down => Alone(disk)
  /\ job.at \in Working /\ seen.down => job.trigger # "automatic"
  /\ job.at = "save" =>
       /\ st.deployed = disk.deployed => st.paused = disk.paused
       /\ st.deployed # disk.deployed /\ seen.down => job.trigger \in ByOwner
       /\ job.trigger \in ByOwner /\ st.deployed # disk.deployed /\ IsStepDown(disk.deployed, st.deployed)
          => Alone(st)

(* The steps of a deployment change only where it is, and its operation is   *)
(* written down again.                                                       *)
LEMMA MovesMove ==
  ASSUME GitInv, Moves
  PROVE  /\ job.at \in Working /\ job'.at \in Fetched /\ (job.at = "fetch" \/ job.at \in Fetched)
         /\ job'.target = job.target /\ job'.tag = job.tag /\ job'.revert = job.revert
         /\ job'.trigger = job.trigger /\ job'.previous = job.previous
         /\ st'.follow = st.follow /\ st'.deployed = st.deployed /\ st'.paused = st.paused
         /\ st'.attempted = st.attempted
         /\ disk'.follow = disk.follow /\ disk'.deployed = disk.deployed /\ disk'.paused = disk.paused
         /\ disk'.attempted = disk.attempted /\ disk'.op.commit = disk.op.commit
         /\ seen' = seen
<1>1. GitTypes /\ JobInv BY DEF GitInv
<1>2. st \in States /\ job \in Jobs BY <1>1 DEF GitTypes
<1>3. /\ job.at \in Working /\ (job.at = "fetch" \/ job.at \in Fetched) /\ seen' = seen
      /\ \E at \in Fetched : job' = [job EXCEPT !.at = at]
  BY DEF Moves, Fetch, Build, Move, Retag, StartFails, MoveBack, RetagBack, Working, Fetched
<1>4. st = disk BY <1>1, <1>3 DEF JobInv, Working
<1>5. /\ job'.target = job.target /\ job'.tag = job.tag /\ job'.revert = job.revert
      /\ job'.trigger = job.trigger /\ job'.previous = job.previous /\ job'.at \in Fetched
  BY <1>2, <1>3 DEF Jobs
<1>6. CASE Build
  <2>1. st' = [st EXCEPT !.op.kind = "deploy"] /\ disk' = st' BY <1>6 DEF Build
  <2>2. st.op \in Operations BY <1>2 DEF States
  <2>3. /\ st'.follow = st.follow /\ st'.deployed = st.deployed /\ st'.paused = st.paused
        /\ st'.attempted = st.attempted /\ st'.op.commit = st.op.commit
    BY <1>2, <2>1, <2>2 DEF States, Operations
  <2> QED BY <1>3, <1>4, <1>5, <2>1, <2>3
<1>7. CASE ~Build
  <2>1. st' = st /\ disk' = disk
    BY <1>7 DEF Moves, Fetch, Move, Retag, StartFails, MoveBack, RetagBack
  <2> QED BY <1>3, <1>5, <2>1
<1> QED BY <1>6, <1>7

(* After every other step no operation of a deployment is under way.         *)
LEMMA RestingSteps ==
  ASSUME GitInv, StartCheck \/ CheckAnswers \/ CheckFails \/ CheckDone \/ Save \/ Crash \/ Recover
  PROVE  job'.at \in Between \cup {"down"}
<1>1. GitTypes /\ JobInv BY DEF GitInv
<1>2. CASE CheckAnswers \/ CheckFails BY <1>1, <1>2, ChecksEnd DEF Between
<1>3. CASE StartCheck \/ CheckDone \/ Save \/ Crash \/ Recover
  BY <1>3 DEF StartCheck, CheckDone, Save, Crash, Recover, Idle, Job, Between
<1> QED BY <1>2, <1>3

LEMMA AroundRests ==
  ASSUME GitInv, Around
  PROVE  /\ job' = job /\ job.at \in {"idle", "fetch"}
         /\ job.at = "fetch" => UNCHANGED <<st, disk, seen>>
BY DEF Around, SetAuto, SwitchMode, Push, CommitByHand, TakeBack, Collect

LEMMA UpInit == Init => UpInv
BY DEF Init, UpInv, Idle, Job, Working, Fetched

LEMMA UpNext == GitInv /\ UpInv /\ [Next]_vars => UpInv'
<1> SUFFICES ASSUME GitInv, UpInv, [Next]_vars PROVE UpInv' OBVIOUS
<1>1. GitTypes /\ JobInv BY DEF GitInv
<1>2. st \in States /\ disk \in States /\ job \in Jobs BY <1>1 DEF GitTypes
<1>3. ASSUME job'.at \in Between \cup {"down"} PROVE UpInv'
  BY <1>3 DEF UpInv, Between, Working, Fetched
<1>4. CASE StartByHand \/ StartAutomatic
  <2>1. /\ st = disk /\ st'.follow = disk.follow /\ st'.deployed = disk.deployed
        /\ job'.at \in {"fetch", "move"}
        /\ job'.at = "move" => job'.revert \/ job'.target = disk.deployed.commit
        /\ job'.trigger = "automatic" => MayDeployAutomatically(disk) /\ job'.tag = job.tag
    BY <1>1, <1>4, StartBegins DEF Began
  <2>2. disk.follow \in {"branch", "tags"} BY <1>2 DEF States
  <2> QED BY <2>1, <2>2 DEF UpInv, Fetched, Before, MayDeployAutomatically, IsDeployed
<1>5. CASE StartRestore
  <2>1. CASE RestoreCut
    <3>1. job' = job /\ job.at = "idle" BY <1>1, <1>5, <2>1, RestoreBegins DEF RestoreCut
    <3> QED BY <1>3, <3>1 DEF Between
  <2>2. CASE Began /\ job'.trigger = "restore"
    BY <2>2 DEF UpInv, Fetched, Before, Began
  <2> QED BY <1>1, <1>5, <2>1, <2>2, RestoreBegins
<1>6. CASE StartCheck \/ CheckAnswers \/ CheckFails \/ CheckDone \/ Save \/ Crash \/ Recover
  BY <1>3, <1>6, RestingSteps
<1>7. CASE Moves
  <2>1. job'.at # "save" BY <1>7, MovesMove DEF Fetched, Working
  <2>2. job'.trigger = "automatic" =>
          IF st'.follow = "tags" THEN TagHigher(job'.tag, st'.deployed.tag)
          ELSE IsDeployed(st') /\ st'.deployed.tag = 0
    BY <1>7, MovesMove DEF UpInv, IsDeployed
  <2>3. ASSUME st.follow = "branch", IsDeployed(st), st.deployed.tag = 0
        PROVE  job.revert \/ Before(st.deployed.commit, job.target)
    <3>1. CASE job.at \in Fetched BY <2>3, <3>1 DEF UpInv
    <3>2. CASE Fetch
      <4>1. job.previous = st.deployed /\ job.target \in Commits /\ job.target \in Known
        BY <1>1, <1>7, MovesMove DEF JobInv, Known
      <4>2. IsAncestor(job.previous.commit, job.target) BY <2>3, <3>2, <4>1 DEF Fetch, BranchAllows
      <4> QED BY <4>1, <4>2, BeforeIsAncestor
    <3>3. job.at \in Fetched \/ Fetch
      BY <1>7 DEF Moves, Build, Move, Retag, StartFails, MoveBack, RetagBack, Fetched, Working
    <3> QED BY <3>1, <3>2, <3>3
  <2>4. st'.follow = "branch" /\ IsDeployed(st') /\ st'.deployed.tag = 0
        => job'.revert \/ Before(st'.deployed.commit, job'.target)
    BY <1>7, <2>3, MovesMove DEF IsDeployed
  <2> QED BY <2>1, <2>2, <2>4 DEF UpInv
<1>8. CASE Endings
  <2>1. PICK v \in Versions, a \in Seq(Commits), b \in BOOLEAN, p \in BOOLEAN, e \in Entries, d \in Dockers :
           /\ Ended(v, a, b, p, e, d)
           /\ e.ran => job.at = "start" /\ e.commit = job.target /\ v.commit = job.target
           /\ job.at # "start" => v = st.deployed
           /\ job.at \in Working \cup {"checked", "down"}
    BY <1>1, <1>8, EndingsEnd
  <2>2. /\ job'.at = "save" /\ job'.trigger = job.trigger /\ job'.revert = job.revert /\ job'.target = job.target
        /\ st'.follow = st.follow /\ st'.deployed = v /\ disk' = disk
    BY <2>1 DEF Ended
  <2>3. st = disk BY <1>1, <2>1 DEF JobInv, Working
  <2>4. job'.at \notin Working BY <2>2 DEF Working
  <2>5. ASSUME job.trigger = "automatic", v # disk.deployed
        PROVE  IF st.follow = "tags" THEN TagHigher(v.tag, disk.deployed.tag)
               ELSE job.revert \/ Before(disk.deployed.commit, v.commit)
    <3>1. job.at = "start" BY <2>1, <2>3, <2>5
    <3>2. CASE Start
      <4>1. v = [commit |-> job.target, tag |-> job.tag]
        <5>1. st'.deployed = [commit |-> job.target, tag |-> job.tag] BY <1>1, <3>2, StartEnds DEF Ended
        <5> QED BY <2>2, <5>1
      <4>2. v.commit = job.target /\ v.tag = job.tag BY <4>1
      <4>3. st.follow \in {"branch", "tags"} BY <1>2 DEF States
      <4> QED BY <2>3, <2>5, <3>1, <4>2, <4>3 DEF UpInv, Working, Fetched
    <3>3. CASE FirstStartFails
      <4>1. st'.deployed = st.deployed BY <1>1, <3>3, FirstStartEnds DEF Ended
      <4> QED BY <2>2, <2>3, <2>5, <4>1
    <3>4. Start \/ FirstStartFails
      BY <1>8, <3>1 DEF Endings, FetchRefused, BuildFails, MoveFails, AutomaticRefused, RecoverDeployment,
                        RolledBack, RollbackFails
    <3> QED BY <3>2, <3>3, <3>4
  <2> QED BY <2>2, <2>4, <2>5 DEF UpInv, Fetched
<1>9. CASE Around
  <2>1. CASE job.at = "idle" BY <1>3, <1>9, <2>1, AroundRests DEF Between
  <2>2. CASE job.at = "fetch" BY <1>9, <2>2, AroundRests DEF UpInv, Fetched, IsDeployed
  <2> QED BY <1>9, <2>1, <2>2, AroundRests
<1>10. CASE UNCHANGED vars
  BY <1>10 DEF vars, UpInv, IsDeployed
<1> QED BY <1>4, <1>5, <1>6, <1>7, <1>8, <1>9, <1>10, GitSteps

(* The deployed version changes on disk when its deployment is saved.        *)
LEMMA DeployedBySave ==
  ASSUME GitInv, [Next]_vars, ~Save
  PROVE  disk'.deployed.commit = disk.deployed.commit
<1>1. GitTypes /\ JobInv BY DEF GitInv
<1>2. disk \in States BY <1>1 DEF GitTypes
<1>3. CASE StartByHand \/ StartAutomatic BY <1>1, <1>3, StartBegins DEF Began
<1>4. CASE StartRestore BY <1>1, <1>4, RestoreBegins DEF RestoreCut, Began
<1>5. CASE StartCheck BY <1>2, <1>5 DEF StartCheck, States
<1>6. CASE CheckAnswers \/ CheckFails
  <2>1. disk = st BY <1>1, <1>6, ChecksEnd DEF JobInv
  <2> QED BY <1>1, <1>6, <2>1, ChecksEnd
<1>7. CASE CheckDone BY <1>7 DEF CheckDone
<1>8. CASE Moves BY <1>8, MovesMove
<1>9. CASE Endings BY <1>1, <1>9, EndingsEnd DEF Ended
<1>10. CASE Around
  <2>1. CASE SetAuto BY <1>2, <2>1 DEF SetAuto, States
  <2>2. CASE SwitchMode BY <1>2, <2>2 DEF SwitchMode, States
  <2>3. CASE Push \/ CommitByHand \/ TakeBack \/ Collect BY <2>3 DEF Push, CommitByHand, TakeBack, Collect
  <2> QED BY <1>10, <2>1, <2>2, <2>3 DEF Around
<1>11. CASE Crash BY <1>11 DEF Crash
<1>12. CASE Recover BY <1>2, <1>12 DEF Recover, States
<1>13. CASE UNCHANGED vars BY <1>13 DEF vars
<1> QED BY <1>3, <1>4, <1>5, <1>6, <1>7, <1>8, <1>9, <1>10, <1>11, <1>12, <1>13, GitSteps

(* What the automatic rebuild deploys is a higher tag, a descendant on the   *)
(* branch, or a version of the history: the check, the fetch and the end of  *)
(* a deployment agree on it, however the remote moves between them.          *)
THEOREM AutomaticGoesUp == Spec => GoesUpAlone
<1> DEFINE Up == disk'.deployed.commit # disk.deployed.commit /\ job.trigger = "automatic" =>
                   IF disk.follow = "tags" THEN TagHigher(disk'.deployed.tag, disk.deployed.tag)
                   ELSE job.revert \/ IsAncestor(disk.deployed.commit, disk'.deployed.commit)
<1>1. GitInv /\ UpInv /\ [Next]_vars => Up
  <2> SUFFICES ASSUME GitInv, UpInv, [Next]_vars PROVE Up OBVIOUS
  <2>1. CASE ~Save BY <2>1, DeployedBySave
  <2>2. CASE Save
    <3>1. job.at = "save" /\ disk' = st BY <2>2 DEF Save
    <3>2. st.follow = disk.follow BY <3>1 DEF GitInv, JobInv
    <3>3. st.deployed.commit \in Known BY DEF GitInv, GitTypes, States, Versions
    <3>4. IsAncestor(disk.deployed.commit, st.deployed.commit) <=> Before(disk.deployed.commit, st.deployed.commit)
      BY <3>3, BeforeIsAncestor
    <3> QED BY <3>1, <3>2, <3>4 DEF UpInv
  <2> QED BY <2>1, <2>2
<1>2. GitInv /\ UpInv /\ [Next]_vars => [Up]_vars BY <1>1
<1> QED BY <1>2, GitInit, GitNext, UpInit, UpNext, PTL DEF Spec, GitInv, GoesUpAlone

LEMMA DownInit == Init => DownInv
BY DEF Init, DownInv, Idle, Job, Working

(* Going down by hand pauses the rebuild, or nothing automatic is above it.  *)
LEMMA StepDownPauses ==
  ASSUME GitInv, UpInv, job.at = "start", job.trigger \in ByOwner,
         IsStepDown(st.deployed, [commit |-> job.target, tag |-> job.tag])
  PROVE  Pauses \/ (st.follow = "tags" /\ job.tag = 0)
<1>1. GitTypes /\ JobInv BY DEF GitInv
<1>2. st \in States /\ st.deployed.commit \in Known /\ st.follow \in {"branch", "tags"}
  BY <1>1 DEF GitTypes, States, Versions
<1>3. job.previous = st.deployed /\ job.target \in Commits /\ NoCommit \notin Commits
  BY <1>1, GitAssumption DEF JobInv, Working
<1>4. job.target # st.deployed.commit BY DEF IsStepDown
<1>5. ~Redeploy BY <1>3, <1>4 DEF Redeploy
<1>6. CASE st.deployed.tag # 0
  <2>1. TagHigher(st.deployed.tag, job.tag) BY <1>6 DEF IsStepDown
  <2> QED BY <1>3, <1>5, <2>1 DEF Pauses, ByOwner
<1>7. CASE st.deployed.tag = 0
  <2>1. job.tag = 0 /\ Before(job.target, st.deployed.commit)
    BY <1>7 DEF IsStepDown
  <2>2. <<job.target, st.deployed.commit>> \in Older BY <1>4, <2>1 DEF Before
  <2>3. st.deployed.commit \in Commits BY <2>2, GitAssumption
  <2>4. CASE st.follow = "branch"
    <3>1. IsDeployed(st) BY <1>3, <2>3 DEF IsDeployed
    <3>2. job.revert \/ Before(st.deployed.commit, job.target)
      BY <1>7, <2>4, <3>1 DEF UpInv, Fetched, Working
    <3>3. ~Before(st.deployed.commit, job.target) BY <1>3, <1>4, <2>2, <2>3, GitAssumption DEF Before
    <3> QED BY <1>5, <2>4, <3>2, <3>3 DEF Pauses, ByOwner
  <2> QED BY <1>2, <2>1, <2>4
<1> QED BY <1>6, <1>7

LEMMA DownNext == GitInv /\ UpInv /\ DownInv /\ [Next]_vars => DownInv'
<1> SUFFICES ASSUME GitInv, UpInv, DownInv, [Next]_vars PROVE DownInv' OBVIOUS
<1>1. GitTypes /\ JobInv BY DEF GitInv
<1>2. st \in States /\ disk \in States /\ job \in Jobs /\ seen \in Pasts BY <1>1 DEF GitTypes
<1>3. ASSUME job'.at \in Between \cup {"down"}, seen'.down => Alone(disk') PROVE DownInv'
  BY <1>3 DEF DownInv, Between, Working
<1>4. ASSUME seen'.down = seen.down, disk'.deployed.commit = disk.deployed.commit, disk'.paused = disk.paused,
             disk'.follow = disk.follow,
             disk'.deployed # disk.deployed => disk.follow = "tags" /\ disk.deployed.tag # 0
      PROVE  seen'.down => Alone(disk')
  BY <1>4 DEF DownInv, Alone, IsDeployed
<1>5. CASE StartByHand \/ StartAutomatic
  <2>1. /\ st = disk /\ disk'.follow = disk.follow /\ disk'.deployed = disk.deployed
        /\ disk'.paused = disk.paused /\ seen' = seen
        /\ job'.at \in {"fetch", "move"} /\ job'.trigger \in {"manual", "automatic"}
        /\ job'.trigger = "automatic" => MayDeployAutomatically(disk)
    BY <1>1, <1>5, StartBegins DEF Began
  <2>2. seen'.down => Alone(disk') BY <1>4, <2>1
  <2>3. job'.trigger = "automatic" => ~seen.down
    BY <2>1 DEF DownInv, Alone, MayDeployAutomatically, TagHigher
  <2> QED BY <2>1, <2>2, <2>3 DEF DownInv
<1>6. CASE StartRestore
  <2>1. /\ disk'.follow = disk.follow /\ disk'.deployed = disk.deployed
        /\ disk'.paused = disk.paused /\ seen'.down = seen.down /\ job.at = "idle"
        /\ job' = job \/ (job'.at \in {"fetch", "move"} /\ job'.trigger = "restore")
    BY <1>1, <1>2, <1>6, RestoreBegins DEF RestoreCut, Began, Pasts
  <2>2. seen'.down => Alone(disk') BY <1>4, <2>1
  <2> QED BY <1>3, <2>1, <2>2 DEF DownInv, Between
<1>7. CASE StartCheck
  <2>1. /\ disk'.follow = disk.follow /\ disk'.deployed = disk.deployed
        /\ disk'.paused = disk.paused /\ seen' = seen
    BY <1>2, <1>7 DEF StartCheck, States
  <2> QED BY <1>3, <1>4, <1>7, <2>1, RestingSteps
<1>8. CASE CheckAnswers \/ CheckFails
  <2>1. st = disk BY <1>1, <1>8, ChecksEnd DEF JobInv
  <2>2. seen'.down => Alone(disk') BY <1>1, <1>4, <1>8, <2>1, ChecksEnd
  <2> QED BY <1>3, <1>8, <2>2, RestingSteps
<1>9. CASE CheckDone
  <2>1. disk' = disk /\ seen' = seen BY <1>9 DEF CheckDone
  <2> QED BY <1>3, <1>4, <1>9, <2>1, RestingSteps
<1>10. CASE Save
  <2>1. job.at = "save" /\ disk' = st BY <1>10 DEF Save
  <2>2. seen'.down = IF job.trigger \in ByOwner /\ st.deployed # disk.deployed
                     THEN WentDown(disk.deployed, st.deployed) ELSE seen.down
    BY <1>2, <1>10 DEF Save, Pasts, ByOwner
  <2>3. st.follow = disk.follow BY <1>1, <2>1 DEF JobInv
  <2>4. seen'.down => Alone(st)
    <3>1. CASE job.trigger \in ByOwner /\ st.deployed # disk.deployed
      <4>1. disk.deployed.commit \in Known BY <1>2 DEF States, Versions
      <4> QED BY <2>1, <2>2, <3>1, <4>1, StepDownsAreThese DEF DownInv
    <3>2. CASE job.trigger \notin ByOwner \/ st.deployed = disk.deployed
      <4>1. seen'.down = seen.down BY <2>2, <3>2
      <4>2. seen.down => st.deployed = disk.deployed /\ st.paused = disk.paused BY <2>1, <3>2 DEF DownInv
      <4> QED BY <2>3, <4>1, <4>2 DEF DownInv, Alone, IsDeployed
    <3> QED BY <3>1, <3>2
  <2> QED BY <1>3, <1>10, <2>1, <2>4, RestingSteps
<1>11. CASE Moves
  <2>1. seen'.down => Alone(disk') BY <1>4, <1>11, MovesMove
  <2>2. job'.at # "save" BY <1>11, MovesMove DEF Fetched, Working
  <2> QED BY <1>11, <2>1, <2>2, MovesMove DEF DownInv, IsDeployed
<1>12. CASE Endings
  <2>1. PICK v \in Versions, a \in Seq(Commits), b \in BOOLEAN, p \in BOOLEAN, e \in Entries, d \in Dockers :
           /\ Ended(v, a, b, p, e, d)
           /\ e.ran => job.at = "start" /\ e.commit = job.target /\ v.commit = job.target
           /\ job.at # "start" => v = st.deployed
           /\ job.at \in Working \cup {"checked", "down"}
           /\ seen'.down = seen.down
    BY <1>1, <1>12, EndingsEnd
  <2>2. /\ job'.at = "save" /\ job'.trigger = job.trigger /\ disk' = disk
        /\ st'.follow = st.follow /\ st'.deployed = v
    BY <2>1 DEF Ended
  <2>3. st = disk BY <1>1, <2>1 DEF JobInv, Working
  <2>4. job'.at \notin Working BY <2>2 DEF Working
  <2>5. seen'.down => Alone(disk') BY <1>4, <2>1, <2>2
  <2>6. CASE Start
    <3>1. st'.deployed = [commit |-> job.target, tag |-> job.tag] /\ st'.paused = Pauses /\ job.at = "start"
      BY <1>1, <1>12, <2>6, StartEnds DEF Ended
    <3>2. job.target \in Commits /\ NoCommit \notin Commits /\ job.previous = st.deployed /\ job.trigger # "none"
      BY <1>1, <3>1, GitAssumption DEF JobInv, Working
    <3>3. v.commit = job.target /\ v.tag = job.tag /\ v = [commit |-> job.target, tag |-> job.tag] BY <2>2, <3>1
    <3>4. v = disk.deployed => st'.paused = disk.paused
      <4> SUFFICES ASSUME v = disk.deployed PROVE st'.paused = disk.paused OBVIOUS
      <4>1. Redeploy BY <2>3, <3>2, <3>3 DEF Redeploy, IsDeployed
      <4> QED BY <2>3, <3>1, <4>1 DEF Pauses
    <3>5. v # disk.deployed /\ seen.down => job.trigger \in ByOwner
      <4> SUFFICES ASSUME seen.down PROVE job.trigger \in ByOwner OBVIOUS
      <4>1. job.trigger # "automatic"
        BY <3>1 DEF DownInv, Working
      <4> QED BY <1>2, <3>2, <4>1 DEF Jobs, Triggers, ByOwner
    <3>6. job.trigger \in ByOwner /\ IsStepDown(disk.deployed, v) => Alone(st')
      <4> SUFFICES ASSUME job.trigger \in ByOwner, IsStepDown(disk.deployed, v) PROVE Alone(st') OBVIOUS
      <4>1. Pauses \/ (st.follow = "tags" /\ job.tag = 0) BY <2>3, <3>1, <3>3, StepDownPauses
      <4> QED BY <2>2, <3>1, <3>2, <3>3, <4>1 DEF Alone, IsDeployed
    <3> QED BY <2>1, <2>2, <2>4, <2>5, <3>4, <3>5, <3>6 DEF DownInv
  <2>7. CASE ~Start
    <3>1. st'.deployed = st.deployed /\ st'.paused = st.paused
      BY <1>1, <1>12, <2>7, RefusalsEnd, AutomaticRefusalEnds, RecoveryEnds, FirstStartEnds, RollbackEnds,
         FailedRollbackEnds DEF Endings, Ended
    <3> QED BY <2>2, <2>3, <2>4, <2>5, <3>1 DEF DownInv
  <2> QED BY <2>6, <2>7
<1>13. CASE Around
  <2>1. CASE SetAuto
    <3>1. PICK on \in BOOLEAN : /\ disk' = [disk EXCEPT !.auto = on, !.paused = @ /\ ~on]
                                /\ seen' = [seen EXCEPT !.down = @ /\ ~on]
      BY <2>1 DEF SetAuto
    <3>2. /\ disk'.paused = (disk.paused /\ ~on) /\ disk'.deployed = disk.deployed /\ disk'.follow = disk.follow
          /\ seen'.down = (seen.down /\ ~on)
      BY <1>2, <3>1 DEF States, Pasts
    <3>3. seen'.down => Alone(disk') BY <3>2 DEF DownInv, Alone, IsDeployed
    <3>4. job'.at = "idle" BY <2>1 DEF SetAuto
    <3> QED BY <1>3, <3>3, <3>4 DEF Between
  <2>2. CASE SwitchMode
    <3>1. ~seen'.down /\ job'.at = "idle" BY <1>2, <2>2 DEF SwitchMode, Pasts
    <3> QED BY <1>3, <3>1 DEF Between
  <2>3. CASE Push \/ CommitByHand \/ TakeBack \/ Collect
    <3>1. disk' = disk /\ st' = st /\ seen' = seen /\ job' = job
      BY <2>3 DEF Push, CommitByHand, TakeBack, Collect
    <3>2. job.at \in {"idle", "fetch"} BY <1>13, AroundRests
    <3> QED BY <3>1, <3>2 DEF DownInv, Alone, IsDeployed, Working
  <2> QED BY <1>13, <2>1, <2>2, <2>3 DEF Around
<1>14. CASE Crash
  <2>1. disk' = disk /\ seen'.down = seen.down BY <1>2, <1>14 DEF Crash, Pasts
  <2> QED BY <1>3, <1>4, <1>14, <2>1, RestingSteps
<1>15. CASE Recover
  <2>1. /\ disk'.follow = disk.follow /\ disk'.deployed = disk.deployed
        /\ disk'.paused = disk.paused /\ seen' = seen
    BY <1>2, <1>15 DEF Recover, States
  <2> QED BY <1>3, <1>4, <1>15, <2>1, RestingSteps
<1>16. CASE UNCHANGED vars
  BY <1>16 DEF vars, DownInv
<1> QED BY <1>5, <1>6, <1>7, <1>8, <1>9, <1>10, <1>11, <1>12, <1>13, <1>14, <1>15, <1>16, GitSteps

(* From a check to a deployment only the automatic rebuild goes.             *)
LEMMA AloneIsAutomatic ==
  ASSUME GitInv, [Next]_vars, StartsAlone
  PROVE  StartAutomatic
<1>1. job.at = "checked" /\ job'.at \in {"fetch", "move"} BY DEF StartsAlone
<1>2. CASE UNCHANGED vars BY <1>1, <1>2 DEF vars
<1>3. CASE StartByHand \/ StartRestore BY <1>1, <1>3 DEF StartByHand, StartRestore
<1>4. CASE StartCheck \/ CheckAnswers \/ CheckFails \/ CheckDone \/ Save \/ Crash \/ Recover
  BY <1>1, <1>4, RestingSteps DEF Between
<1>5. CASE Moves BY <1>1, <1>5, MovesMove DEF Working
<1>6. CASE Endings BY <1>1, <1>6, EndingsEnd DEF Ended, GitInv
<1>7. CASE Around BY <1>1, <1>7, AroundRests
<1> QED BY <1>2, <1>3, <1>4, <1>5, <1>6, <1>7, GitSteps

(* Once the owner went down, the automatic rebuild starts nothing until the  *)
(* owner deploys again, turns it on again or changes the mode: Pauses is     *)
(* enough, where it is not set there is no tag to be above.                  *)
THEOREM StepDownIsRespected == Spec => StepDownStands
<1>1. GitInv /\ DownInv /\ [Next]_vars => [StartsAlone => ~seen.down]_vars
  <2> SUFFICES ASSUME GitInv, DownInv, [Next]_vars, StartsAlone PROVE ~seen.down OBVIOUS
  <2>1. MayDeployAutomatically(disk) BY AloneIsAutomatic DEF StartAutomatic
  <2> QED BY <2>1 DEF DownInv, Alone, MayDeployAutomatically, TagHigher
<1> QED BY <1>1, GitInit, GitNext, UpInit, UpNext, DownInit, DownNext, PTL DEF Spec, GitInv, StepDownStands

-----------------------------------------------------------------------------
(* What was tried is not tried again, until it is forgotten                  *)

TriedIn(q) == {q[i] : i \in DOMAIN q}

(* An attempt is in the list, and pushes out no other than the oldest one of *)
(* a full list.                                                              *)
LEMMA AttemptRemembers ==
  ASSUME NEW s \in States, NEW c \in Commits, Len(s.attempted) <= AttemptedLength
  PROVE  LET a == Attempt(s, c).attempted
             q == s.attempted
         IN  /\ Len(a) <= AttemptedLength /\ c \in TriedIn(a)
             /\ TriedIn(q) \ (IF a # q /\ Len(q) = AttemptedLength THEN {q[1]} ELSE {}) \subseteq TriedIn(a)
<1> DEFINE q == s.attempted
           all == Append(q, c)
           n == Len(q) + 1
           from == IF Len(all) > AttemptedLength THEN Len(all) - AttemptedLength + 1 ELSE 1
           rest == SubSeq(all, from, Len(all))
<1>1. q \in Seq(Commits) /\ Len(q) \in Nat /\ DOMAIN q = 1..Len(q) BY DEF States
<1>2. c # NoCommit /\ AttemptedLength \in Nat /\ AttemptedLength >= 1 BY GitAssumption
<1>3. CASE \E i \in DOMAIN q : q[i] = c
  <2>1. Attempt(s, c).attempted = q BY <1>3 DEF Attempt
  <2>2. c \in TriedIn(q) BY <1>3 DEF TriedIn
  <2> QED BY <2>1, <2>2
<1>4. CASE \A i \in DOMAIN q : q[i] # c
  <2>1. /\ all \in Seq(Commits) /\ Len(all) = n /\ all[n] = c
        /\ \A i \in 1..Len(q) : all[i] = q[i]
    BY <1>1
  <2>2. n \in Nat /\ n >= 1 /\ n <= AttemptedLength + 1 BY <1>1, <1>2
  <2>3. from = (IF Len(q) = AttemptedLength THEN 2 ELSE 1)
    <3>1. Len(all) = n BY <2>1
    <3> HIDE DEF all
    <3> QED BY <1>1, <1>2, <3>1
  <2> HIDE DEF from
  <2>4. /\ Len(rest) = n - from + 1 /\ DOMAIN rest = 1..(n - from + 1)
        /\ \A i \in 1..(n - from + 1) : rest[i] = all[from + i - 1]
    <3>1. Len(all) = n /\ all \in Seq(Commits) BY <2>1
    <3> HIDE DEF all, n
    <3> QED BY <1>2, <2>2, <2>3, <3>1
  <2>5. Attempt(s, c).attempted = rest
    <3>1. Attempt(s, c) = [s EXCEPT !.attempted = rest] BY <1>2, <1>4 DEF Attempt, from
    <3> HIDE DEF rest
    <3> QED BY <3>1 DEF States
  <2> HIDE DEF rest
  <2>6. Len(rest) <= AttemptedLength
    <3> HIDE DEF all
    <3> QED BY <1>1, <1>2, <2>3, <2>4
  <2>7. c \in TriedIn(rest)
    <3>1. n - from + 1 \in 1..(n - from + 1) /\ from + (n - from + 1) - 1 = n
      <4> HIDE DEF all
      <4> QED BY <1>1, <1>2, <2>3
    <3>2. rest[n - from + 1] = c
      <4> HIDE DEF all, n
      <4> QED BY <2>1, <2>4, <3>1
    <3> HIDE DEF all, n
    <3> QED BY <2>4, <3>1, <3>2 DEF TriedIn
  <2>8. ASSUME NEW i \in 1..Len(q), from = 2 => i # 1
        PROVE  q[i] \in TriedIn(rest)
    <3>1. i - from + 1 \in 1..(n - from + 1) /\ from + (i - from + 1) - 1 = i
      <4>1. from \in {1, 2} /\ i \in Nat /\ i >= from /\ i <= n /\ n \in Nat BY <1>1, <2>3, <2>8
      <4> HIDE DEF all, n
      <4> QED BY <4>1
    <3>2. rest[i - from + 1] = q[i]
      <4> HIDE DEF all, n
      <4> QED BY <2>1, <2>4, <3>1
    <3> HIDE DEF all, n
    <3> QED BY <2>4, <3>1, <3>2 DEF TriedIn
  <2>9. rest # q
    <3>1. c \notin TriedIn(q) BY <1>4 DEF TriedIn
    <3> QED BY <2>7, <3>1
  <2>10. TriedIn(q) \ (IF Len(q) = AttemptedLength THEN {q[1]} ELSE {}) \subseteq TriedIn(rest)
    <3> SUFFICES ASSUME NEW i \in 1..Len(q), Len(q) = AttemptedLength => q[i] # q[1]
                 PROVE  q[i] \in TriedIn(rest)
      BY <1>1 DEF TriedIn
    <3> QED BY <2>3, <2>8
  <2> HIDE DEF q
  <2> QED BY <2>5, <2>6, <2>7, <2>9, <2>10 DEF q
<1> QED BY <1>3, <1>4

(* The commits whose attempt came to a bad end; the one a refused automatic  *)
(* deployment is about to record; the one a stop cut short, until recorded.  *)
Taken == seen.tried \ {NoCommit}
Ending == IF job.at = "save" /\ job.trigger = "none" THEN {job.target} \ {NoCommit} ELSE {}
CutShort == IF Deploying(disk) /\ job.at \in {"down", "save"} THEN {disk.op.commit} ELSE {}

(* The list names all of them that are not forgotten, but the one of the     *)
(* operation cut short; and so will the one about to be saved.               *)
TriedInv ==
  /\ Len(disk.attempted) <= AttemptedLength
  /\ Taken \ seen.forgotten \subseteq TriedIn(disk.attempted) \cup CutShort
  /\ job.at = "down" /\ Deploying(disk) => disk.op.commit \in Taken
  /\ job.at = "save" =>
       /\ Len(st.attempted) <= AttemptedLength
       /\ (Taken \cup Ending) \ (seen.forgotten \cup Forgotten) \subseteq TriedIn(st.attempted)

LEMMA TriedInit == Init => TriedInv
<1> SUFFICES ASSUME Init PROVE TriedInv OBVIOUS
<1>1. disk.attempted = <<>> /\ job.at = "idle" /\ seen.tried = {}
  BY DEF Init, InitialState, Idle, Job
<1>2. AttemptedLength \in Nat BY GitAssumption
<1> QED BY <1>1, <1>2 DEF TriedInv, Taken

(* A step that neither ends an operation nor loses one.                      *)
LEMMA OthersForgetNothing ==
  ASSUME TriedInv, job.at # "save", job'.at # "save", job.at = "down" => ~Deploying(disk), job'.at # "down",
         seen'.tried = seen.tried, seen'.forgotten = seen.forgotten, disk'.attempted = disk.attempted
  PROVE  TriedInv'
BY DEF TriedInv, Taken, CutShort

LEMMA EndingsRemember ==
  ASSUME GitInv, TriedInv, Endings
  PROVE  TriedInv'
<1>1. GitTypes /\ JobInv BY DEF GitInv
<1>2. st \in States /\ job \in Jobs /\ seen \in Pasts /\ NoCommit \notin Commits BY <1>1, GitAssumption DEF GitTypes
<1>3. /\ st = disk /\ disk' = disk
      /\ job'.at = "save" /\ job'.target = job.target /\ job'.trigger = job.trigger
      /\ job.at \in Working \cup {"checked", "down"}
  <2>1. PICK v \in Versions, a \in Seq(Commits), b \in BOOLEAN, p \in BOOLEAN, e \in Entries, d \in Dockers :
           /\ Ended(v, a, b, p, e, d) /\ job.at \in Working \cup {"checked", "down"}
    BY <1>1, EndingsEnd
  <2> QED BY <1>1, <2>1 DEF Ended, JobInv, Working
<1>4. Len(disk.attempted) <= AttemptedLength BY DEF TriedInv
<1>5. ASSUME NEW c \in Commits, st'.attempted = Attempt(st, c).attempted, Taken' \cup Ending' = Taken \cup {c},
             Taken' = Taken \/ c \in CutShort', CutShort \subseteq CutShort' \cap {c},
             seen'.forgotten = seen.forgotten
      PROVE  TriedInv'
  <2>1. /\ Len(st'.attempted) <= AttemptedLength /\ c \in TriedIn(st'.attempted)
        /\ TriedIn(disk.attempted) \ Forgotten' \subseteq TriedIn(st'.attempted)
    BY <1>2, <1>3, <1>4, <1>5, AttemptRemembers DEF Forgotten
  <2>2. Taken \ seen.forgotten \subseteq TriedIn(disk.attempted) \cup CutShort BY DEF TriedInv
  <2>3. Taken' \ seen'.forgotten \subseteq TriedIn(disk'.attempted) \cup CutShort'
    <3>1. Taken' \subseteq Taken \cup {c} BY <1>5
    <3> QED BY <1>3, <1>5, <2>2, <3>1
  <2>4. (Taken' \cup Ending') \ (seen'.forgotten \cup Forgotten') \subseteq TriedIn(st'.attempted)
    BY <1>5, <2>1, <2>2
  <2> QED BY <1>3, <1>4, <2>1, <2>3, <2>4 DEF TriedInv
<1>6. CASE FetchRefused \/ BuildFails \/ MoveFails \/ FirstStartFails \/ RolledBack \/ RollbackFails
  <2>1. /\ job.at \in Working
        /\ st'.attempted = Attempt(st, job.target).attempted
        /\ seen' = [seen EXCEPT !.tried = @ \cup {job.target}]
           \/ seen' = [seen EXCEPT !.tried = @ \cup {job.target}, !.displaced = FALSE]
    BY <1>1, <1>6, RefusalsEnd, FirstStartEnds, RollbackEnds, FailedRollbackEnds DEF Ended, Working
  <2>2. /\ job.target \in Commits /\ Deploying(disk) /\ disk.op.commit = job.target
        /\ job'.trigger # "none"
    BY <1>1, <1>3, <2>1 DEF JobInv
  <2>3. seen'.tried = seen.tried \cup {job.target} /\ seen'.forgotten = seen.forgotten BY <1>2, <2>1 DEF Pasts
  <2>4. Taken' = Taken \cup {job.target} /\ Ending' = {} BY <1>2, <2>2, <2>3 DEF Taken, Ending
  <2>5. CutShort' = {job.target} /\ CutShort \subseteq {job.target}
    BY <1>3, <2>2 DEF CutShort, Deploying
  <2> QED BY <1>5, <2>1, <2>2, <2>3, <2>4, <2>5
<1>7. CASE AutomaticRefused
  <2>1. /\ job.at = "checked" /\ job.target \in Commits /\ seen' = seen
        /\ st'.attempted = Attempt(st, job.target).attempted
    BY <1>1, <1>7, AutomaticRefusalEnds DEF Ended
  <2>2. job'.trigger = "none" BY <1>1, <1>3, <2>1 DEF JobInv, Between
  <2>3. Taken' = Taken /\ Ending' = {job.target} BY <1>2, <1>3, <2>1, <2>2 DEF Taken, Ending
  <2>4. CutShort = {} BY <2>1 DEF CutShort
  <2> QED BY <1>5, <2>1, <2>3, <2>4
<1>8. CASE RecoverDeployment
  <2>1. /\ job.at = "down" /\ Deploying(disk) /\ seen' = seen
        /\ st'.attempted = Attempt(st, disk.op.commit).attempted
    BY <1>1, <1>8, RecoveryEnds DEF Ended
  <2>2. disk.op.commit \in Commits /\ job.target = NoCommit BY <1>1, <2>1 DEF JobInv
  <2>3. disk.op.commit \in Taken BY <2>1 DEF TriedInv
  <2>4. Taken' = Taken /\ Ending' = {} BY <1>3, <2>1, <2>2 DEF Taken, Ending
  <2>5. CutShort = {disk.op.commit} /\ CutShort' = {disk.op.commit} BY <1>3, <2>1 DEF CutShort, Deploying
  <2> QED BY <1>5, <2>1, <2>2, <2>3, <2>4, <2>5
<1>9. CASE Start
  <2>1. /\ job.at = "start" /\ st'.attempted = st.attempted
        /\ seen' = [seen EXCEPT !.displaced = FALSE, !.lost = @ \ {job.target}]
    BY <1>1, <1>9, StartEnds DEF Ended
  <2>2. seen'.tried = seen.tried /\ seen'.forgotten = seen.forgotten BY <1>2, <2>1 DEF Pasts
  <2>3. job'.trigger # "none" BY <1>1, <1>3, <2>1 DEF JobInv, Working
  <2>4. Taken' = Taken /\ Ending' = {} BY <2>2, <2>3 DEF Taken, Ending
  <2>5. CutShort = {} BY <2>1 DEF CutShort
  <2>6. Taken \ seen.forgotten \subseteq TriedIn(disk.attempted) BY <2>5 DEF TriedInv
  <2> QED BY <1>3, <1>4, <2>1, <2>2, <2>4, <2>6 DEF TriedInv
<1> QED BY <1>6, <1>7, <1>8, <1>9 DEF Endings

LEMMA TriedNext == GitInv /\ TriedInv /\ [Next]_vars => TriedInv'
<1> SUFFICES ASSUME GitInv, TriedInv, [Next]_vars PROVE TriedInv' OBVIOUS
<1>1. GitTypes /\ JobInv BY DEF GitInv
<1>2. st \in States /\ disk \in States /\ job \in Jobs /\ seen \in Pasts /\ NoCommit \notin Commits
  BY <1>1, GitAssumption DEF GitTypes
<1>3. CASE StartByHand \/ StartAutomatic
  BY <1>1, <1>3, StartBegins, OthersForgetNothing DEF Began
<1>4. CASE StartRestore \/ StartCheck
  <2>1. /\ disk'.attempted = disk.attempted /\ job.at = "idle"
        /\ seen'.tried = seen.tried /\ seen'.forgotten = seen.forgotten
        /\ job'.at \in {"idle", "fetch", "move", "check"}
    <3>1. CASE StartRestore
      BY <1>1, <1>2, <3>1, RestoreBegins DEF RestoreCut, Began, Pasts
    <3>2. CASE StartCheck
      BY <1>2, <3>2 DEF StartCheck, Idle, Job, States
    <3> QED BY <1>4, <3>1, <3>2
  <2> QED BY <2>1, OthersForgetNothing
<1>5. CASE CheckAnswers \/ CheckFails
  <2>1. st = disk BY <1>1, <1>5, ChecksEnd DEF JobInv
  <2> QED BY <1>1, <1>5, <2>1, ChecksEnd, OthersForgetNothing
<1>6. CASE CheckDone
  BY <1>6, OthersForgetNothing DEF CheckDone, Idle, Job
<1>7. CASE Save
  <2>1. /\ job.at = "save" /\ disk' = st /\ job'.at = "idle" BY <1>7 DEF Save, Idle, Job
  <2>2. /\ seen'.tried = seen.tried \cup (IF job.trigger = "none" THEN {job.target} ELSE {})
        /\ seen'.forgotten = (seen.forgotten \cup Forgotten) \ TriedIn(st.attempted)
    BY <1>2, <1>7 DEF Save, Pasts, TriedIn
  <2>3. Taken' = Taken \cup Ending BY <2>1, <2>2 DEF Taken, Ending
  <2> QED BY <2>1, <2>2, <2>3 DEF TriedInv
<1>8. CASE Moves
  <2>1. /\ job.at \in Working /\ job'.at \in Working /\ seen' = seen /\ disk'.attempted = disk.attempted
    BY <1>8, MovesMove DEF Fetched
  <2> QED BY <2>1, OthersForgetNothing DEF Working
<1>9. CASE Endings BY <1>9, EndingsRemember
<1>10. CASE Around
  <2>1. job' = job /\ job.at \in {"idle", "fetch"} BY <1>10, AroundRests
  <2>2. disk'.attempted = disk.attempted /\ seen'.tried = seen.tried /\ seen'.forgotten = seen.forgotten
    BY <1>2, <1>10 DEF Around, SetAuto, SwitchMode, Push, CommitByHand, TakeBack, Collect, States, Pasts
  <2> QED BY <2>1, <2>2, OthersForgetNothing
<1>11. CASE Crash
  <2> DEFINE c == disk.op.commit
  <2>1. /\ disk' = disk /\ job'.at = "down" /\ seen'.forgotten = seen.forgotten
        /\ seen'.tried = seen.tried \cup (IF Deploying(disk) THEN {c} ELSE {})
    BY <1>2, <1>11 DEF Crash, Idle, Job, Pasts
  <2>2. Deploying(disk) => c \in Commits BY <1>1 DEF JobInv
  <2>3. Deploying(disk) => Taken' = Taken \cup {c} /\ CutShort' = {c} /\ CutShort \subseteq {c}
    BY <1>2, <2>1, <2>2 DEF Taken, CutShort, Deploying
  <2>4. ~Deploying(disk) => Taken' = Taken /\ CutShort' = {} /\ CutShort = {}
    BY <2>1 DEF Taken, CutShort, Deploying
  <2>5. Taken' \ seen'.forgotten \subseteq TriedIn(disk'.attempted) \cup CutShort'
    BY <2>1, <2>3, <2>4 DEF TriedInv
  <2>6. job'.at = "down" /\ Deploying(disk)' => disk'.op.commit \in Taken' BY <2>1, <2>3 DEF Deploying
  <2> QED BY <2>1, <2>5, <2>6 DEF TriedInv
<1>12. CASE Recover
  <2>1. /\ disk'.attempted = disk.attempted /\ seen' = seen
        /\ job.at = "down" /\ ~Deploying(disk) /\ job'.at = "idle"
    BY <1>1, <1>2, <1>12 DEF Recover, Idle, Job, States
  <2> QED BY <2>1, OthersForgetNothing
<1>13. CASE UNCHANGED vars
  BY <1>13 DEF vars, TriedInv, Taken, Ending, CutShort, Forgotten, Deploying
<1> QED BY <1>3, <1>4, <1>5, <1>6, <1>7, <1>8, <1>9, <1>10, <1>11, <1>12, <1>13, GitSteps

(* The automatic rebuild leaves alone what failed, was refused, rolled back  *)
(* or cut short, until that is the oldest of a full list of tried commits    *)
(* and another comes on it (gitAttemptedLength).                             *)
THEOREM WhatFailedIsLeftAlone == Spec => NeverRetriedAlone
<1>1. GitInv /\ TriedInv /\ [Next]_vars
      => [StartsAlone => job'.target \notin seen.tried \ seen.forgotten]_vars
  <2> SUFFICES ASSUME GitInv, TriedInv, [Next]_vars, StartsAlone
               PROVE  job'.target \notin seen.tried \ seen.forgotten
    OBVIOUS
  <2>1. StartAutomatic BY AloneIsAutomatic
  <2>2. job.at = "checked" /\ MayDeployAutomatically(disk) BY <2>1 DEF StartAutomatic
  <2>3. job'.target = job.target BY <2>1, <2>2, StartBegins DEF GitInv
  <2>4. job.target # NoCommit /\ job.target \notin TriedIn(disk.attempted)
    BY <2>2 DEF MayDeployAutomatically, TriedIn
  <2>5. Taken \ seen.forgotten \subseteq TriedIn(disk.attempted) BY <2>2 DEF TriedInv, CutShort
  <2> QED BY <2>3, <2>4, <2>5 DEF Taken
<1> QED BY <1>1, GitInit, GitNext, TriedInit, TriedNext, PTL DEF Spec, GitInv, NeverRetriedAlone

(* The rebuild keeps to all its rules: it retries nothing it has not         *)
(* forgotten, goes only up, and respects a step down.                        *)
THEOREM AutomaticIsOrderly == Spec => AutomaticKeepsToItsRules
BY WhatFailedIsLeftAlone, StepDownIsRespected, AutomaticGoesUp, PTL DEF AutomaticKeepsToItsRules

=============================================================================
