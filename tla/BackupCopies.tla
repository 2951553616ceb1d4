----------------------------- MODULE BackupCopies -----------------------------
(***************************************************************************)
(* What a backup holds and where a restore puts it: service/backup_plan,    *)
(* _inventory, _run, _restore, _browse and _system, over the two engines of *)
(* pkg/restic and pkg/rclone that its router chooses between.               *)
(*                                                                         *)
(* One subject: an app, held by a claim and stopped, its operations paired  *)
(* with a backup's by their destination; or the box, its services stopped,  *)
(* nothing claimed, paired by path. A place (a bind's host path, a volume's *)
(* mountpoint) holds a set of files. Left out: apps deployed from git, what *)
(* BackupHold and BackupScheduler model of a hold and of retention, the     *)
(* events, the run log.                                                    *)
(***************************************************************************)
EXTENDS Integers, Sequences, FiniteSets, SequencesExt

CONSTANTS Places, FilePlaces,   \* where data lives; those that hold one file
          Written,              \* those that are written to while the app, or the box, runs
          AppMounts, BoxMounts, \* what an app may declare, in order: [kind, at]; systemBackupPaths
          Lacking,              \* the sets of places the box may not have at first
          BoxUnits,             \* systemUnits, in order
          Containers_,          \* an app's containers, stopped and started as one
          Stamps, Jobs,
          Later,                \* a file written since
          Absent, Nobody,
          MaxHits               \* bound: edits, failures, kills, switches of the engine

ASSUME CopiesAssumption ==
  /\ Written \subseteq Places /\ MaxHits \in Nat
  /\ AppMounts \cup {BoxMounts} \subseteq Seq([kind : {"bind", "volume"}, at : Places])
  /\ BoxUnits \in Seq(ToSet(BoxUnits)) \ {<<>>}
  /\ Absent \notin AppMounts \cup {BoxMounts} /\ Nobody \notin Jobs
  /\ Absent \notin [folder : BOOLEAN, has : SUBSET (Places \cup {Later})]

VARIABLES
  subject,              \* "app" or "box"
  mounts,               \* what it declares, Absent for an app that is not installed
  disk,                 \* place -> [folder, has], or Absent
  up,                   \* what runs and writes
  claim,                \* the job that holds the app
  stamped, repository,  \* stamp -> what rclone's copies and restic's snapshots hold of the run
  key, made, opening,   \* the repository's key file; whether there is a repository; Enable is at it
  job,                  \* the operations under way
  purged, cut, hits     \* history: runs somebody deleted, a kill during a hold; bound
(* History of a restore in its record: `known`, whether docker could place    *)
(* the app's volumes; `before`, what was on disk when the last unit stopped.  *)

copiesVars == <<subject, mounts, disk, up, claim, stamped, repository, key, made, opening, job, purged, cut, hits>>
engine == <<key, made, opening>>
remote == <<stamped, repository, purged>>

Units == IF subject = "app" THEN <<Containers_>> ELSE BoxUnits
Nothing == [has |-> <<>>, compose |-> Absent, manifest |-> Absent]
NoJob == [at |-> "idle", kind |-> "none", stamp |-> Nobody, still |-> FALSE, plan |-> <<>>, next |-> 1,
          was |-> Absent, manifest |-> Absent, only |-> {}, stopped |-> <<>>, ok |-> FALSE, alone |-> TRUE,
          known |-> TRUE, before |-> Absent]
Copy(p) == [folder |-> p \notin FilePlaces, has |-> {p}]

CopiesInit ==
  /\ subject \in {"app", "box"}
  /\ IF subject = "app" THEN mounts \in AppMounts ELSE mounts = BoxMounts
  /\ \E gone \in Lacking \cup {{}} : disk = [p \in Places |-> IF p \in gone THEN Absent ELSE Copy(p)]
  /\ subject = "app" => \A p \in Places : disk[p] # Absent
  /\ up = ToSet(Units) /\ claim = Nobody
  /\ stamped = [s \in Stamps |-> Nothing] /\ repository = stamped
  /\ key \in {"none", "on"} /\ made = (key = "on") /\ opening = FALSE
  /\ job = [w \in Jobs |-> NoJob] /\ purged = {} /\ cut = FALSE /\ hits = 0

Hit == hits < MaxHits /\ hits' = hits + 1
FreeOr(excuse) == IF excuse THEN UNCHANGED hits ELSE Hit

-----------------------------------------------------------------------------
(* PlanBackup: binds are numbered, in order, over those that are copied.     *)
IsFile(x) == x # Absent /\ ~x.folder
isRegularFile(p) == IsFile(disk[p])

\* What the sequence s has at the places I, in their order.
Pick(s, I) == [n \in 1..Cardinality(I) |-> s[CHOOSE k \in I : Cardinality({j \in I : j <= k}) = n]]

PlanBackup(entries, I) ==
  LET number(k) == Cardinality({j \in I : j <= k /\ entries[j].kind = "bind"})
      to(k) == IF entries[k].kind = "volume" THEN <<"volume", entries[k].at>>
               ELSE IF isRegularFile(entries[k].at) THEN <<"file", number(k)>> ELSE <<"bind", number(k)>>
  IN Pick([k \in DOMAIN entries |-> [to |-> to(k), from |-> entries[k].at]], I)

\* What is copied: volumes docker could place, paths the box has.
Located(ms, known) == {k \in DOMAIN ms : ms[k].kind = "bind" \/ known}
SystemBackupInventory == {k \in DOMAIN BoxMounts : disk[BoxMounts[k].at] # Absent}

(* Which copy goes where: [from |-> in the backup, at |-> here].             *)
PairsByDestination(m, local) ==
  LET held == {m.plan[i].to : i \in DOMAIN m.plan}
      firsts == {i \in DOMAIN local : local[i].to \in held /\ \A j \in 1..(i - 1) : local[j].to # local[i].to}
  IN Pick([i \in DOMAIN local |-> [from |-> local[i].to, at |-> local[i].from]], firsts)

\* Mutant: the box's parts paired by their number, as they once were.
PairsByPath_ByNumber(m, local) == PairsByDestination(m, local)

PairsByPath(m, local) ==
  LET of(p) == {j \in DOMAIN m.plan : m.plan[j].from = p}
      pair(i) == [from |-> m.plan[CHOOSE j \in of(local[i].from) : TRUE].to, at |-> local[i].from]
  IN Pick([i \in DOMAIN local |-> pair(i)], {i \in DOMAIN local : of(local[i].from) # {}})

-----------------------------------------------------------------------------
(* The router: copies go to restic while it is enabled; what is read is      *)
(* looked for in the repository first, as long as its key is held.           *)
Enabled == key = "on"
Held == key # "none"
CanCopy == Enabled => made
CanRead == Held => made

Put(s, run) ==
  IF Enabled THEN repository' = [repository EXCEPT ![s] = run] /\ UNCHANGED stamped
             ELSE stamped' = [stamped EXCEPT ![s] = run] /\ UNCHANGED repository
With(has, d, x) == [e \in DOMAIN has \cup {d} |-> IF e = d THEN x ELSE has[e]]
Side(s) == IF Enabled THEN repository[s] ELSE stamped[s]

InRun(s) == DOMAIN stamped[s].has \cup (IF Held THEN DOMAIN repository[s].has ELSE {})
Fetch(s, d) == IF Held /\ d \in DOMAIN repository[s].has THEN repository[s].has[d] ELSE stamped[s].has[d]
ManifestOf(s) == IF Held /\ repository[s].manifest # Absent THEN repository[s].manifest ELSE stamped[s].manifest
ComposeOf(s) == IF Held /\ repository[s].compose # Absent THEN repository[s].compose ELSE stamped[s].compose

\* Enable writes the key, then looks for the repository or makes it.
EnableStarts ==
  /\ key = "none" /\ ~opening /\ Hit /\ key' = "on" /\ opening' = TRUE
  /\ UNCHANGED <<subject, mounts, disk, up, claim, remote, made, job, cut>>

EnableEnds ==
  /\ opening /\ opening' = FALSE
  /\ \/ made' = TRUE /\ UNCHANGED <<key, hits>>
     \/ Hit /\ key' = "none" /\ UNCHANGED made
  /\ UNCHANGED <<subject, mounts, disk, up, claim, remote, job, cut>>

Disable ==
  /\ Enabled /\ Hit /\ key' = "off"
  /\ UNCHANGED <<subject, mounts, disk, up, claim, remote, made, opening, job, cut>>

resume ==
  /\ key = "off" /\ made /\ key' = "on"
  /\ UNCHANGED <<subject, mounts, disk, up, claim, remote, made, opening, job, cut, hits>>

\* From the repository if it is there, otherwise the stamped copy: not both.
Purge(s) ==
  /\ CanRead /\ (stamped[s] # Nothing \/ repository[s] # Nothing) /\ Hit
  /\ purged' = purged \cup {s}
  /\ IF Held /\ repository[s] # Nothing
     THEN repository' = [repository EXCEPT ![s] = Nothing] /\ UNCHANGED stamped
     ELSE /\ stamped' \in {[stamped EXCEPT ![s] = Nothing], [stamped EXCEPT ![s].has = <<>>]}
          /\ UNCHANGED repository
  /\ UNCHANGED <<subject, mounts, disk, up, claim, engine, job, cut>>

-----------------------------------------------------------------------------
(* The app and its owner.                                                    *)
Writes(p) ==
  /\ up # {} /\ disk[p] # Absent /\ Later \notin disk[p].has
  /\ disk' = [disk EXCEPT ![p].has = @ \cup {Later}]
  /\ UNCHANGED <<subject, mounts, up, claim, remote, engine, job, cut, hits>>

\* A bind that is not there is made, a folder, when the containers are.
Made(ms) ==
  [p \in Places |-> IF disk[p] = Absent /\ \E i \in DOMAIN ms : ms[i].at = p THEN [folder |-> TRUE, has |-> {}]
                    ELSE disk[p]]

Edit ==
  /\ subject = "app" /\ mounts # Absent /\ claim = Nobody /\ Hit
  /\ mounts' \in AppMounts \ {mounts} /\ disk' = Made(mounts')
  /\ UNCHANGED <<subject, up, claim, remote, engine, job, cut>>

Uninstall ==
  /\ subject = "app" /\ mounts # Absent /\ claim = Nobody /\ Hit
  /\ mounts' = Absent /\ up' = {} /\ disk' \in {disk, [p \in Places |-> Absent]}
  /\ UNCHANGED <<subject, claim, remote, engine, job, cut>>

-----------------------------------------------------------------------------
Goes(w, to) == job' = [job EXCEPT ![w].at = to]
Ends(w, good) == job' = [job EXCEPT ![w].at = "release", ![w].ok = good]

\* Nothing claims the box: two of its jobs cross.
Starts(w, record) ==
  LET others == {v \in Jobs \ {w} : job[v].at # "idle"} IN
  job' = [v \in Jobs |-> IF v = w THEN [record EXCEPT !.alone = others = {}]
                         ELSE IF v \in others THEN [job[v] EXCEPT !.alone = FALSE] ELSE job[v]]

Fresh(s) == stamped[s] = Nothing /\ repository[s] = Nothing /\ s \notin purged /\ \A v \in Jobs : job[v].stamp # s

(* A backup: planned from the app as it is, then claimed.                    *)
RunBackup(w, s, still) ==
  /\ job[w].at = "idle" /\ subject = "app" /\ mounts # Absent /\ Fresh(s)
  /\ \E known \in BOOLEAN :
       /\ FreeOr(known)
       /\ Starts(w, [NoJob EXCEPT !.at = IF still THEN "claim" ELSE "copy", !.kind = "backup", !.stamp = s,
                       !.still = still, !.plan = PlanBackup(mounts, Located(mounts, known)), !.next = 0, !.was = mounts])
  /\ UNCHANGED <<subject, mounts, disk, up, claim, remote, engine, cut>>

RunSystemBackup(w, s, still) ==
  /\ job[w].at = "idle" /\ subject = "box" /\ Fresh(s)
  /\ Starts(w, [NoJob EXCEPT !.at = IF still THEN "stop" ELSE "copy", !.kind = "backup", !.stamp = s,
                  !.still = still, !.plan = PlanBackup(BoxMounts, SystemBackupInventory), !.was = mounts])
  /\ UNCHANGED <<subject, mounts, disk, up, claim, remote, engine, cut, hits>>

\* A plausible bug: copied without waiting for the claim.
beginWaiting_Tries(w) ==
  /\ job[w].at = "claim" /\ job[w].kind = "backup" /\ Goes(w, "stop")
  /\ claim' = IF claim = Nobody THEN w ELSE claim
  /\ UNCHANGED <<subject, mounts, disk, up, remote, engine, cut, hits>>

beginWaiting(w) ==
  /\ job[w].at = "claim" /\ job[w].kind = "backup"
  /\ IF claim = Nobody THEN claim' = w /\ Goes(w, "stop") /\ UNCHANGED hits
                       ELSE Hit /\ job' = [job EXCEPT ![w] = NoJob] /\ UNCHANGED claim
  /\ UNCHANGED <<subject, mounts, disk, up, remote, engine, cut>>

(* The hold. Stopping a service that is stopped succeeds.                    *)
Stop(w) ==
  LET u == Units[Len(job[w].stopped) + 1]
      last == Len(job[w].stopped) + 1 = Len(Units)
  IN
  /\ job[w].at = "stop" /\ up' = up \ {u}
  /\ job' = [job EXCEPT ![w].stopped = Append(@, u),
              ![w].at = IF last THEN (IF job[w].kind = "backup" THEN "copy" ELSE "put") ELSE "stop",
              ![w].before = IF last /\ job[w].kind = "restore" THEN disk ELSE @]
  /\ UNCHANGED <<subject, mounts, disk, claim, remote, engine, cut, hits>>

StopFails(w) ==
  /\ job[w].at = "stop" /\ Hit /\ Ends(w, FALSE)
  /\ UNCHANGED <<subject, mounts, disk, up, claim, remote, engine, cut>>

\* What was stopped starts again, the last one first, whatever happened in between.
Release(w) ==
  LET n == Len(job[w].stopped) IN
  /\ job[w].at = "release"
  /\ IF n > 0
     THEN /\ up' = (IF mounts = Absent THEN up ELSE up \cup {job[w].stopped[n]})
          /\ job' = [job EXCEPT ![w].stopped = SubSeq(@, 1, n - 1)] /\ UNCHANGED claim
     ELSE /\ job' = [job EXCEPT ![w] = NoJob] /\ claim' = (IF claim = w THEN Nobody ELSE claim) /\ UNCHANGED up
  /\ UNCHANGED <<subject, mounts, disk, remote, engine, cut, hits>>

(* copyPlan: the compose file first, the operations in order ...             *)
Copies(w) ==
  LET s == job[w].stamp
      n == job[w].next
      op == job[w].plan[n]
  IN
  /\ job[w].at = "copy" /\ n <= Len(job[w].plan) /\ CanCopy
  /\ IF n = 0 THEN mounts # Absent /\ Put(s, [Side(s) EXCEPT !.compose = mounts])
     ELSE disk[op.from] # Absent /\ Put(s, [Side(s) EXCEPT !.has = With(@, op.to, disk[op.from])])
  /\ job' = [job EXCEPT ![w].next = n + 1]
  /\ UNCHANGED <<subject, mounts, disk, up, claim, purged, engine, cut, hits>>

CopyFails(w) ==
  LET n == job[w].next
      gone == IF n = 0 THEN mounts = Absent ELSE n <= Len(job[w].plan) /\ disk[job[w].plan[n].from] = Absent
  IN
  /\ job[w].at = "copy" /\ Ends(w, FALSE) /\ FreeOr(~CanCopy \/ gone)
  /\ UNCHANGED <<subject, mounts, disk, up, claim, remote, engine, cut>>

\* A plausible bug: the manifest written when some of it is still to come.
writeManifest_Early(w) ==
  LET s == job[w].stamp IN
  /\ job[w].at = "copy" /\ job[w].next >= Len(job[w].plan) /\ CanCopy
  /\ Put(s, [Side(s) EXCEPT !.manifest = [plan |-> job[w].plan, of |-> job[w].was]])
  /\ Ends(w, TRUE)
  /\ UNCHANGED <<subject, mounts, disk, up, claim, purged, engine, cut, hits>>

\* ... and the manifest last.
writeManifest(w) ==
  LET s == job[w].stamp IN
  /\ job[w].at = "copy" /\ job[w].next > Len(job[w].plan) /\ CanCopy
  /\ Put(s, [Side(s) EXCEPT !.manifest = [plan |-> job[w].plan, of |-> job[w].was]])
  /\ Ends(w, TRUE)
  /\ UNCHANGED <<subject, mounts, disk, up, claim, purged, engine, cut, hits>>

-----------------------------------------------------------------------------
(* A restore: whether the app is installed, and as what, is known from the   *)
(* request on; the manifest is read before the claim, which is refused.      *)
RestoreBackup(w, s, only) ==
  /\ job[w].at = "idle" /\ subject = "app" /\ CanRead /\ ManifestOf(s) # Absent
  /\ mounts = Absent => only = {}
  /\ only \subseteq {op.to : op \in ToSet(ManifestOf(s).plan)}
  /\ Starts(w, [NoJob EXCEPT !.at = "claim", !.kind = "restore", !.stamp = s, !.still = TRUE, !.was = mounts,
                  !.manifest = ManifestOf(s), !.only = only])
  /\ UNCHANGED <<subject, mounts, disk, up, claim, remote, engine, cut, hits>>

Planned(w, was, known) ==
  LET pairs == PairsByDestination(job[w].manifest, PlanBackup(was, Located(was, known)))
  IN IF job[w].only = {} THEN pairs ELSE Pick(pairs, {i \in DOMAIN pairs : pairs[i].from \in job[w].only})

restoreBackup(w) ==
  /\ job[w].at = "claim" /\ job[w].kind = "restore"
  /\ IF claim # Nobody THEN job' = [job EXCEPT ![w] = NoJob] /\ UNCHANGED <<claim, hits>>
     ELSE /\ claim' = w
          /\ IF job[w].was = Absent THEN Goes(w, "install") /\ UNCHANGED hits
             ELSE \E known \in BOOLEAN :
                    /\ FreeOr(known)
                    /\ job' = [job EXCEPT ![w].at = "stop", ![w].plan = Planned(w, job[w].was, known),
                                           ![w].known = known]
  /\ UNCHANGED <<subject, mounts, disk, up, remote, engine, cut>>

\* installFromBackup, from the backup's compose file: its containers exist, and run, after it.
installFromBackup(w) ==
  /\ job[w].at = "install" /\ CanRead /\ ComposeOf(job[w].stamp) # Absent
  /\ mounts' = ComposeOf(job[w].stamp) /\ disk' = Made(mounts') /\ up' = ToSet(Units)
  /\ job' = [job EXCEPT ![w].at = "plan", ![w].was = mounts']
  /\ UNCHANGED <<subject, claim, remote, engine, cut, hits>>

InstallFails(w) ==
  /\ job[w].at = "install" /\ FreeOr(~CanRead \/ ComposeOf(job[w].stamp) = Absent) /\ Ends(w, FALSE)
  /\ UNCHANGED <<subject, mounts, disk, up, claim, remote, engine, cut>>

PlansInstalled(w) ==
  /\ job[w].at = "plan" /\ job' = [job EXCEPT ![w].at = "stop", ![w].plan = Planned(w, job[w].was, TRUE)]
  /\ UNCHANGED <<subject, mounts, disk, up, claim, remote, engine, cut, hits>>

\* Planned from the paths, not from what exists.
RestoreSystemBackup(w, s) ==
  /\ job[w].at = "idle" /\ subject = "box" /\ CanRead /\ ManifestOf(s) # Absent
  /\ Starts(w, [NoJob EXCEPT !.at = "stop", !.kind = "restore", !.stamp = s, !.still = TRUE, !.was = mounts,
                  !.manifest = ManifestOf(s), !.plan = PairsByPath(ManifestOf(s), PlanBackup(BoxMounts, DOMAIN BoxMounts))])
  /\ UNCHANGED <<subject, mounts, disk, up, claim, remote, engine, cut, hits>>

Comes(w) == Fetch(job[w].stamp, job[w].plan[job[w].next].from)
Coming(w) == CanRead /\ job[w].plan[job[w].next].from \in InRun(job[w].stamp)

Over_(old, new) == IF old = Absent THEN new ELSE [old EXCEPT !.has = @ \cup new.has]

\* RestoreDirectory and RestoreFile replace, CopyBack deletes nothing.
Puts(w) ==
  LET p == job[w].plan[job[w].next].at IN
  /\ job[w].at = "put" /\ job[w].next <= Len(job[w].plan) /\ Coming(w)
  /\ disk' = [disk EXCEPT ![p] = IF job[w].only = {} THEN Comes(w) ELSE Over_(disk[p], Comes(w))]
  /\ job' = [job EXCEPT ![w].next = @ + 1]
  /\ UNCHANGED <<subject, mounts, up, claim, remote, engine, cut, hits>>

\* Half-way, the one file or some of the others are there already.
PutFails(w) ==
  LET p == job[w].plan[job[w].next].at IN
  /\ job[w].at = "put" /\ job[w].next <= Len(job[w].plan) /\ FreeOr(~Coming(w))
  /\ disk' \in {disk} \cup (IF Coming(w) THEN {[disk EXCEPT ![p] = Over_(disk[p], Comes(w))]} ELSE {})
  /\ Ends(w, FALSE)
  /\ UNCHANGED <<subject, mounts, up, claim, remote, engine, cut>>

AllPut(w) ==
  /\ job[w].at = "put" /\ job[w].next > Len(job[w].plan) /\ Ends(w, TRUE)
  /\ UNCHANGED <<subject, mounts, disk, up, claim, remote, engine, cut, hits>>

-----------------------------------------------------------------------------
\* The process dies. An app that was held is started by the next one, a service by nobody.
KilledHere ==
  /\ Hit /\ job' = [w \in Jobs |-> NoJob] /\ claim' = Nobody /\ opening' = FALSE
  /\ up' = (IF subject = "app" /\ mounts # Absent THEN ToSet(Units) ELSE up)
  /\ cut' = (cut \/ (subject = "box" /\ up # ToSet(Units)))
  /\ UNCHANGED <<subject, mounts, disk, remote, key, made>>

Works(w) ==
  \/ beginWaiting(w) \/ Stop(w) \/ StopFails(w) \/ Release(w) \/ Copies(w) \/ CopyFails(w) \/ writeManifest(w)
  \/ restoreBackup(w) \/ installFromBackup(w) \/ InstallFails(w) \/ PlansInstalled(w)
  \/ Puts(w) \/ PutFails(w) \/ AllPut(w)

CopiesNext ==
  \/ \E w \in Jobs :
       \/ Works(w)
       \/ \E s \in Stamps : \/ \E still \in BOOLEAN : RunBackup(w, s, still) \/ RunSystemBackup(w, s, still)
                            \/ RestoreSystemBackup(w, s)
                            \/ \E only \in {{}} \cup {{d} : d \in InRun(s)} : RestoreBackup(w, s, only)
  \/ \E p \in Written : Writes(p)
  \/ \E s \in Stamps : Purge(s)
  \/ Edit \/ Uninstall \/ EnableStarts \/ EnableEnds \/ Disable \/ resume \/ KilledHere

CopiesSpec == CopiesInit /\ [][CopiesNext]_copiesVars

-----------------------------------------------------------------------------
\* The app holds the claim, the box only luck: its other jobs stayed away.
Undisturbed(w) == subject = "app" \/ job[w].alone

\* A copy taken held still is of one moment: whatever edits, uninstallations, restores and
\* other backups were waiting, what was copied first still is what is there at the end.
HeldCopyIsOfOneMoment ==
  \A w \in Jobs :
    job[w].kind = "backup" /\ job[w].still /\ job[w].at = "copy" /\ Undisturbed(w) /\ job[w].stamp \notin purged =>
      \A i \in 1..(job[w].next - 1) :
        LET op == job[w].plan[i] IN
        op.to \in InRun(job[w].stamp) => Fetch(job[w].stamp, op.to) = disk[op.from]

\* "A run interrupted half-way leaves files and no manifest": a run with one holds everything
\* the manifest names, in one engine or in both when they were switched in the middle of it.
ManifestMeansWhole ==
  \A s \in Stamps \ purged : \A run \in {stamped[s], repository[s]} :
    run.manifest # Absent =>
      \A i \in DOMAIN run.manifest.plan :
        run.manifest.plan[i].to \in DOMAIN stamped[s].has \cup DOMAIN repository[s].has

\* The box's parts go by their path. What an app backed up has a place as long as docker knows
\* its volume, and as long as what is there now is of the kind it was: a file, or a folder.
HasItsPlace(w, op) ==
  \/ subject = "box"
  \/ IF op.to[1] = "volume" THEN job[w].known ELSE op.to[1] = "file" <=> IsFile(job[w].before[op.from])

\* A restore under way, or just over, that stopped everything before it began: of the box, whatever
\* it lacked then or lacks now; of an app whose mounts are the ones it was backed up with.
RestoresInPeace(w) ==
  /\ job[w].kind = "restore" /\ job[w].at \in {"put", "release"} /\ Len(job[w].stopped) = Len(Units)
  /\ Undisturbed(w) /\ (subject = "box" \/ job[w].was = job[w].manifest.of)

\* A whole restore that succeeded put every path back as the backup has it (a path mounted twice,
\* as one of its copies), unless the path has no place any more.
EveryPathIsBack(w) ==
  LET m == job[w].manifest
      s == job[w].stamp
  IN
  job[w].at = "release" /\ job[w].ok /\ job[w].only = {} /\ s \notin purged =>
    \A i \in DOMAIN m.plan :
      HasItsPlace(w, m.plan[i]) =>
        \E k \in DOMAIN m.plan : m.plan[k].from = m.plan[i].from /\ disk[m.plan[i].from] = Fetch(s, m.plan[k].to)

\* And nothing else: what differs from before is a path the backup has, and that was asked for,
\* in a restore of some paths, in one that failed midway and in one that is not over.
NoOtherPathIsTouched(w) ==
  LET m == job[w].manifest IN
  \A p \in Places :
    disk[p] # job[w].before[p] =>
      \E i \in DOMAIN m.plan : m.plan[i].from = p /\ (job[w].only = {} \/ m.plan[i].to \in job[w].only)

RestoredAsItWas == \A w \in Jobs : RestoresInPeace(w) => EveryPathIsBack(w) /\ NoOtherPathIsTouched(w)

\* "Started again whatever happens": once the last job under way has ended, well or not, what
\* they all stopped runs again, the process killed in the middle included when it is an app's.
StartedAgain ==
  (\A w \in Jobs : job[w].at = "idle") => up = ToSet(Units) \/ mounts = Absent \/ cut

\* The two sides of a hold: nothing moves while it lasts, everything does after it.
HeldThenStartedAgain == HeldCopyIsOfOneMoment /\ StartedAgain

-----------------------------------------------------------------------------
\* What the backup holds of a place the app no longer declares is "reported, not written
\* somewhere it was not asked for".
NothingWrittenElsewhere ==
  \A w \in Jobs :
    job[w].kind = "restore" /\ job[w].at = "put" =>
      \A i \in DOMAIN job[w].plan : \A j \in DOMAIN job[w].manifest.plan :
        job[w].manifest.plan[j].to = job[w].plan[i].from =>
          job[w].manifest.plan[j].from = job[w].plan[i].at
=============================================================================
