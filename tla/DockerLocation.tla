--------------------------- MODULE DockerLocation ---------------------------
(***************************************************************************)
(* Moving Docker's data (pkg/dockerlocation/dockerlocation.go): from its   *)
(* default place to a folder on a drive, or back, with the undo of a move  *)
(* that fails, and Recover, which finishes or undoes a move cut short.     *)
(*                                                                         *)
(* The code is a long script with an undo stack that a stop may cut        *)
(* anywhere.  The model keeps it as one: todo is the set of steps that the *)
(* goroutine that holds the move lock has left to do, taken in the order   *)
(* of the script, undos the undo functions it has collected, and every     *)
(* step that changes the disk, the mounts, Docker or the state file is an  *)
(* action of its own.  A stop of the service drops todo and undos and      *)
(* reads the state file again; a power cut drops the mounts as well, and   *)
(* Docker starts by itself at the boot that follows.                       *)
(*                                                                         *)
(* The two areas (/var/lib/containerd, /var/lib/docker) have four places   *)
(* each: live, live.casaos-old, live.casaos-new and the target folder's.   *)
(* What a place holds is one word:                                         *)
(*   none, empty   there is no such folder; there is nothing in it         *)
(*   partial       a copy or a delete that was not finished                *)
(*   boot          what Docker made when it started on an empty folder     *)
(*   data          the owner's data, whole and up to date                  *)
(*   stale         whole, but the apps have written elsewhere since        *)
(***************************************************************************)
EXTENDS Naturals

CONSTANTS MaxMoves,   \* moves the owner asks for
          MaxCuts,    \* stops of the service and power cuts
          MaxFaults,  \* commands that fail
          MaxAbsent   \* boots at which the drive of the folder is not there

ASSUME BoundsAssumption == {MaxMoves, MaxCuts, MaxFaults, MaxAbsent} \subseteq Nat

Area    == {"containerd", "docker"}
Place   == {"live", "old", "new", "tgt"}
Content == {"none", "empty", "partial", "boot", "stale", "data"}
Where   == {"default", "folder"}

VARIABLES
  fs,       \* per area: its places, the bind mount, the unit and drop-in files, the unit enabled
  unsynced, \* areas whose copy is not flushed to disk yet
  disk,     \* the drive of the folder is there
  docker,   \* Docker and containerd run
  apps,     \* the containers that ran before the move run
  state,    \* Mover.state
  file,     \* the state file
  cut,      \* Mover.interrupted, and Recover's copy of it
  todo, undos, stuck, err, \* the running move: steps left, undos collected, mounts that would not stop, an undo failed
  mixed,    \* history: a move began with the areas in different places
  unnoted,  \* history: a move was cut before it noted what ran
  blind,    \* history: a recovery ran without the drive that alone has the data
  relisted, \* history: a move began while the old copy shown was partly gone
  unstarted, \* history: the last start of Docker, or of the containers noted, was a command that failed
  said,     \* history: a move told the owner that it could not put things right, or not check them
  used      \* [moves, cuts, faults, absent]: what of the bounds is used

disks == <<fs, unsynced, disk>>
run   == <<docker, apps>>
mover == <<state, file, cut>>
work  == <<todo, undos, stuck, err>>
history == <<mixed, unnoted, blind, relisted, unstarted, said>>
past == <<history, used>>
vars  == <<disks, run, mover, work, past>>

Busy(s) == s.phase \in {"stopping", "copying", "switching", "starting"}
NoMove  == [phase |-> "idle", undoing |-> FALSE, from |-> "default", target |-> "default",
            location |-> "default", noted |-> FALSE, old |-> {}]

\* A fault is a command that fails; each is counted, so that they are few.
Fault    == /\ used.faults < MaxFaults
            /\ used' = [used EXCEPT !.faults = @ + 1]
NoFault  == UNCHANGED used

Set(s) == state' = s /\ file' = s

-----------------------------------------------------------------------------
(* What the code reads of the disk.                                        *)

View(a)   == IF fs[a].mnt THEN fs[a].tgt ELSE fs[a].live
InFolder(a) == disk /\ fs[a].tgt # "none"
Has(a, p) == IF p = "tgt" THEN InFolder(a) ELSE fs[a][p] # "none"
EmptyOrMissing(c) == c \in {"none", "empty"}

location == IF fs["docker"].unit THEN "folder" ELSE "default"
dst(target) == IF target = "default" THEN "new" ELSE "tgt"

checkSwitched(target) ==
  \A a \in Area : IF target = "folder" THEN InFolder(a) => fs[a].mnt ELSE ~fs[a].mnt

switchDone(target) ==
  /\ \A a \in Area :
       IF target = "default"
       THEN /\ ~Has(a, "new") /\ ~fs[a].unit
            /\ a = "docker" => ~EmptyOrMissing(View(a))
       ELSE IF InFolder(a) THEN fs[a].unit /\ fs[a].drop
                           ELSE a # "docker" /\ ~Has(a, "old")
  /\ checkSwitched(target)

\* p is <<area, place>>; only the folder's own places can be in use: no mount
\* is ever made of live.casaos-old or live.casaos-new.
inUse(p, loc) == p[2] = "tgt" /\ (loc = "folder" \/ fs[p[1]].mnt)

oldCopy(from) ==
  LET pl == IF from = "folder" THEN "tgt" ELSE "old"
  IN  {<<a, pl>> : a \in {b \in Area : Has(b, pl)}}

finished(s, from, target) ==
  [s EXCEPT !.phase = "done", !.location = target, !.target = "default", !.from = "default",
            !.noted = FALSE, !.undoing = FALSE,
            !.old = {p \in @ \cup oldCopy(from) : ~inUse(p, target)}]

\* Docker runs the owner's containers when it has their data.
OnData == \A a \in Area : View(a) = "data"

-----------------------------------------------------------------------------
(* systemd and Docker, as the code uses them.                              *)

\* A bind mount needs both ends; systemd makes a mount point that is missing.
Bound(r) == [r EXCEPT !.mnt = TRUE, !.live = IF @ = "none" THEN "empty" ELSE @]

\* Docker makes its folders when it starts on an empty one.
Filled(r) == IF r.mnt THEN [r EXCEPT !.tgt = IF EmptyOrMissing(@) THEN "boot" ELSE @]
                      ELSE [r EXCEPT !.live = IF EmptyOrMissing(@) THEN "boot" ELSE @]

\* Starting Docker on the folders f: the drop-ins pull the mounts in, and
\* Docker does not start without them.
Needs(f)   == {a \in Area : f[a].unit /\ f[a].drop /\ ~f[a].mnt}
Startable(f, d) == \A a \in Needs(f) : d /\ f[a].tgt # "none"
Started(f) == [a \in Area |-> Filled(IF a \in Needs(f) THEN Bound(f[a]) ELSE f[a])]

\* startServices: containerd's unit first, then Docker's. A start that fails is
\* ignored, and may have got as far as a mount and the folders made on it.
StartDocker ==
  \/ Startable(fs, disk) /\ docker' = TRUE /\ fs' = Started(fs) /\ unstarted' = FALSE /\ NoFault
  \/ /\ ~docker /\ UNCHANGED docker
     /\ IF Startable(fs, disk) THEN Fault ELSE NoFault
     /\ unstarted' = Startable(fs, disk)
     /\ \E S \in {{}, {"containerd"}, Area} :
          /\ \A a \in S \cap Needs(fs) : disk /\ fs[a].tgt # "none"
          /\ fs' = [a \in Area |-> IF a \in S THEN Started(fs)[a] ELSE fs[a]]

-----------------------------------------------------------------------------
(* The script of a move.                                                   *)

Step(op, a) == [op |-> op, a |-> a]
All(ops) == {Step(op, "all") : op \in ops}
PerArea(ops, S) == {Step(op, a) : op \in ops, a \in S}

\* The order of the script: its loops one after the other, a loop one area after
\* the other (the undos newest first), and for an area the steps of the loop.
Loop(op) ==
  CASE op = "measure" -> 1   [] op = "quiesce" -> 2      [] op = "copying" -> 3
    [] op \in {"copy", "copied"} -> 4
    [] op = "sync" -> 5      [] op = "switching" -> 6
    [] op \in {"aside", "mkdir", "writeUnit", "writeDropIn"} -> 7
    [] op \in {"stopMount", "disable", "dropUnit", "removeLive", "rename"} -> 8
    [] op = "reload" -> 9    [] op = "mount" -> 10       [] op = "check" -> 11
    [] op = "recover" -> 12  [] op = "enableUnit" -> 13  [] op = "startServices" -> 14
    [] op = "verify" -> 15   [] op = "requiesce" -> 16   [] op = "finish" -> 17
    [] op = "undoing" -> 18  [] op = "unmount" -> 19
    [] op \in {"unwrite", "putBack"} -> 20
    [] op \in {"moveAside", "rewrite", "enable", "remount"} -> 21
    [] op = "undone" -> 22   [] op = "verifyKept" -> 23  [] op = "finishKept" -> 24
    [] op = "keepOld" -> 25  [] op = "quiesceCut" -> 26  [] op = "setAside" -> 27
    [] op \in {"backUnmount", "backUnwrite", "backRename"} -> 28
    [] op \in {"bindAside", "bindUnit", "bindDropIn"} -> 29
    [] op = "bindMount" -> 30 [] op = "bindCheck" -> 31  [] op = "dropCopies" -> 32
    [] op \in {"removing", "remove"} -> 33
    [] op = "restart" -> 34  [] op = "fail" -> 35        [] op = "recovered" -> 36
    [] op \in {"deleteOld", "deleteTgt"} -> 37
    [] op = "deleted" -> 38
Pos(op) ==
  CASE op \in {"copied", "mkdir", "disable", "putBack", "rewrite", "backUnwrite", "bindUnit",
               "remove", "deleteTgt"} -> 1
    [] op \in {"writeUnit", "dropUnit", "enable", "backRename", "bindDropIn"} -> 2
    [] op \in {"writeDropIn", "removeLive", "remount"} -> 3
    [] op = "rename" -> 4
    [] OTHER -> 0
NewestFirst == {19, 20, 21}
Rank(op, a) ==
  100 * Loop(op) + Pos(op) + (IF (a = "docker") = (Loop(op) \notin NewestFirst) THEN 10 ELSE 0)

At(op, a) == Step(op, a) \in todo /\ \A s \in todo : Rank(op, a) <= Rank(s.op, s.a)
Then(op, a) == todo' = todo \ {Step(op, a)}
KeepUndo  == UNCHANGED <<undos, stuck, err>>
Push(op, a) == undos' = undos \cup {Step(op, a)} /\ UNCHANGED <<stuck, err>>

\* The move this work is for: the one under way, or the one Recover deals with.
Target == IF Busy(cut) THEN cut.target ELSE state.target

Copies(target) == {a \in Area : Has(a, dst(target))}
RemoveCopies(target) == PerArea({"removing", "remove"}, Copies(target))

\* What follows a step of the switch that failed: the undos, newest first.
UndoSwitch == All({"undoing"}) \cup undos \cup All({"undone"})
\* Mutant: Docker is left stopped.
GiveUp_LeavesDockerStopped(target) == RemoveCopies(target) \cup All({"fail"})
GiveUp(target) == RemoveCopies(target) \cup All({"restart", "fail"})

Init ==
  /\ fs = [a \in Area |-> [live |-> "data", old |-> "none", new |-> "none", tgt |-> "none", aside |-> {},
                           mnt |-> FALSE, unit |-> FALSE, drop |-> FALSE, on |-> FALSE]]
  /\ unsynced = {} /\ disk = TRUE
  /\ docker = TRUE /\ apps = TRUE
  /\ state = NoMove /\ file = NoMove /\ cut = NoMove
  /\ todo = {} /\ undos = {} /\ stuck = {} /\ err = FALSE
  /\ mixed = FALSE /\ unnoted = FALSE /\ blind = FALSE /\ relisted = FALSE
  /\ unstarted = FALSE /\ said = FALSE
  /\ used = [moves |-> 0, cuts |-> 0, faults |-> 0, absent |-> 0]

CheckTarget(target) ==
  /\ docker
  /\ IF target = "default"
     THEN state.location = "folder" /\ \A a \in Area : ~Has(a, "new")
     ELSE /\ state.location = "default" /\ disk
          /\ \A a \in Area : EmptyOrMissing(fs[a].tgt) /\ ~Has(a, "old") /\ ~fs[a].mnt

Start(target) ==
  /\ todo = {} /\ ~Busy(state) /\ ~Busy(cut)
  /\ used.moves < MaxMoves /\ used' = [used EXCEPT !.moves = @ + 1]
  /\ CheckTarget(target)
  /\ Set([state EXCEPT !.phase = "stopping", !.from = state.location, !.target = target,
                       !.undoing = FALSE, !.noted = FALSE])
  /\ todo' = All({"measure", "quiesce", "copying"})
  /\ undos' = {} /\ stuck' = {} /\ err' = FALSE /\ unsynced' = {}
  /\ mixed' = (mixed \/ \E a, b \in Area : fs[a].mnt # fs[b].mnt)
  /\ relisted' = (relisted \/ \E p \in state.old : ~Has(p[1], p[2]))
  /\ UNCHANGED <<fs, disk, run, cut, unnoted, blind, unstarted, said>>

\* The room is measured again, and what runs is noted for Recover.
Measure ==
  /\ At("measure", "all")
  /\ \/ /\ Then("measure", "all") /\ Set([state EXCEPT !.noted = TRUE]) /\ NoFault
     \/ /\ todo' = All({"fail"}) /\ UNCHANGED <<state, file>> /\ Fault
  /\ KeepUndo /\ UNCHANGED <<disks, run, cut, history>>

\* quiesce stops Docker and unmounts what it left mounted.  One that fails
\* leaves Docker stopped or not: what follows starts it in every case.
Quiesced == docker' = FALSE /\ apps' = FALSE /\ NoFault
NotQuiesced == docker' \in {FALSE, docker} /\ apps' = (apps /\ docker') /\ Fault

Quiesce ==
  /\ At("quiesce", "all")
  /\ \/ Quiesced /\ Then("quiesce", "all")
     \/ NotQuiesced /\ todo' = All({"restart", "fail"})
  /\ KeepUndo /\ UNCHANGED <<disks, mover, history>>

\* The way back copies what has a unit to take away.
Copying ==
  /\ At("copying", "all")
  /\ Set([state EXCEPT !.phase = "copying"])
  /\ LET S == {a \in Area : /\ View(a) # "none"
                            /\ state.target = "default" => fs[a].unit}
     IN  todo' = PerArea({"copy", "copied"}, S) \cup All({"sync", "switching"})
  /\ KeepUndo /\ UNCHANGED <<disks, run, cut, past>>

Copy(a) ==
  /\ At("copy", a) /\ Then("copy", a)
  /\ fs' = [fs EXCEPT ![a][dst(state.target)] = "partial"]
  /\ NoFault /\ KeepUndo /\ UNCHANGED <<unsynced, disk, run, mover, history>>

Copied(a) ==
  /\ At("copied", a)
  /\ \/ /\ Then("copied", a) /\ NoFault
        /\ fs' = [fs EXCEPT ![a][dst(state.target)] = View(a)]
        /\ unsynced' = unsynced \cup {a}
     \/ /\ todo' = GiveUp(state.target) /\ Fault /\ UNCHANGED <<fs, unsynced>>
  /\ KeepUndo /\ UNCHANGED <<disk, run, mover, history>>

\* The copies reach the disk before anything points at them.
Sync ==
  /\ At("sync", "all")
  /\ \/ Then("sync", "all") /\ unsynced' = {} /\ NoFault
     \/ todo' = GiveUp(state.target) /\ Fault /\ UNCHANGED unsynced
  /\ KeepUndo /\ UNCHANGED <<fs, disk, run, mover, history>>

\* The units of both areas are written before either is mounted.
Switching ==
  /\ At("switching", "all")
  /\ Set([state EXCEPT !.phase = "switching"])
  /\ LET S == Copies(state.target)
     IN  todo' = (IF state.target = "folder"
                  THEN PerArea({"aside", "mkdir", "writeUnit", "writeDropIn"}, S)
                       \cup All({"reload"}) \cup PerArea({"mount"}, S)
                  ELSE PerArea({"stopMount", "disable", "dropUnit", "removeLive", "rename"}, S)
                       \cup All({"reload"}))
                 \cup All({"check", "startServices", "verify", "finish"})
  /\ KeepUndo /\ UNCHANGED <<disks, run, cut, past>>

\* A step of the switch leaves the area as new says, or it fails and the undos
\* collected so far run.
SwitchStep(op, a, new, undo) ==
  /\ At(op, a)
  /\ \/ /\ Then(op, a) /\ NoFault
        /\ fs' = [fs EXCEPT ![a] = new]
        /\ undos' = undo \cup undos
     \/ todo' = UndoSwitch /\ Fault /\ UNCHANGED <<fs, undos>>
  /\ UNCHANGED <<unsynced, disk, run, mover, stuck, err, history>>

\* switchMounts
SetAside(a) ==
  SwitchStep("aside", a, [fs[a] EXCEPT !.old = fs[a].live, !.live = "none"], PerArea({"putBack"}, {a}))
MakeLive(a) ==
  SwitchStep("mkdir", a, [fs[a] EXCEPT !.live = "empty"], PerArea({"unwrite"}, {a}))
WriteUnit(a)   == SwitchStep("writeUnit", a, [fs[a] EXCEPT !.unit = TRUE], {})
WriteDropIn(a) == SwitchStep("writeDropIn", a, [fs[a] EXCEPT !.drop = TRUE], {})

Reload ==
  /\ At("reload", "all")
  /\ \/ Then("reload", "all") /\ NoFault
     \/ todo' = UndoSwitch /\ Fault
  /\ KeepUndo /\ UNCHANGED <<disks, run, mover, history>>

\* An enable that fails may have mounted before it did.
Mount(a) ==
  /\ At("mount", a)
  /\ \/ Then("mount", a) /\ fs' = [fs EXCEPT ![a] = [Bound(fs[a]) EXCEPT !.on = TRUE]] /\ NoFault
     \/ todo' = {Step("undoing", "all"), Step("unmount", a)} \cup undos \cup All({"undone"})
        /\ fs' \in {fs, [fs EXCEPT ![a] = [Bound(fs[a]) EXCEPT !.on = TRUE]]} /\ Fault
  /\ Push("unmount", a) /\ UNCHANGED <<unsynced, disk, run, mover, history>>

\* switchToDefault
StopMount(a) ==
  SwitchStep("stopMount", a, [fs[a] EXCEPT !.mnt = FALSE], PerArea({"remount"}, {a}))

Disable(a) ==
  /\ At("disable", a) /\ Then("disable", a)
  /\ fs' = [fs EXCEPT ![a].on = FALSE]
  /\ Push("enable", a) /\ UNCHANGED <<unsynced, disk, run, mover, past>>

DropUnit(a) ==
  /\ At("dropUnit", a) /\ Then("dropUnit", a)
  /\ fs' = [fs EXCEPT ![a].unit = FALSE, ![a].drop = FALSE]
  /\ Push("rewrite", a) /\ UNCHANGED <<unsynced, disk, run, mover, past>>

\* os.Remove takes an empty folder only.
RemoveLive(a) ==
  /\ At("removeLive", a)
  /\ IF fs[a].live = "empty" /\ ~fs[a].mnt
     THEN Then("removeLive", a) /\ fs' = [fs EXCEPT ![a].live = "none"]
     ELSE todo' = UndoSwitch /\ UNCHANGED fs
  /\ KeepUndo /\ UNCHANGED <<unsynced, disk, run, mover, past>>

RenameNew(a) ==
  /\ At("rename", a)
  /\ \/ /\ Then("rename", a) /\ NoFault /\ Push("moveAside", a)
        /\ fs' = [fs EXCEPT ![a].live = fs[a].new, ![a].new = "none"]
     \/ /\ todo' = UndoSwitch /\ Fault /\ KeepUndo
        /\ fs' = [fs EXCEPT ![a].live = "empty"]
  /\ UNCHANGED <<unsynced, disk, run, mover, history>>

Check ==
  /\ At("check", "all")
  /\ IF checkSwitched(state.target)
     THEN Then("check", "all") /\ Set([state EXCEPT !.phase = "starting"])
     ELSE todo' = UndoSwitch /\ UNCHANGED <<state, file>>
  /\ KeepUndo /\ UNCHANGED <<disks, run, cut, past>>

StartServices ==
  /\ At("startServices", "all") /\ Then("startServices", "all")
  /\ StartDocker
  /\ KeepUndo /\ UNCHANGED <<unsynced, disk, apps, mover, mixed, unnoted, blind, relisted, said>>

\* Docker must answer, with the images it had, and run what ran.
Source(a, from) == IF from = "folder" THEN fs[a].tgt ELSE fs[a].old
AsBefore(from)  == docker /\ \A a \in Area : View(a) \in {"data", Source(a, from)}

Verify ==
  /\ At("verify", "all")
  /\ \/ /\ AsBefore(state.from) /\ Then("verify", "all") /\ NoFault
        /\ apps' = OnData
        /\ UNCHANGED <<state, file>>
     \/ /\ IF AsBefore(state.from) THEN Fault ELSE NoFault
        /\ Set([state EXCEPT !.phase = "switching", !.undoing = TRUE])
        /\ todo' = All({"requiesce"})
        /\ apps' = FALSE
  /\ KeepUndo /\ UNCHANGED <<disks, docker, cut, history>>

Requiesce ==
  /\ At("requiesce", "all")
  /\ \/ Quiesced /\ todo' = UndoSwitch /\ UNCHANGED err
     \/ NotQuiesced /\ todo' = All({"restart", "fail"}) /\ err' = TRUE
  /\ UNCHANGED <<disks, mover, undos, stuck, history>>

Finish ==
  /\ At("finish", "all") /\ todo' = {}
  /\ Set(finished(state, state.from, state.target))
  /\ KeepUndo /\ UNCHANGED <<disks, run, cut, past>>

-----------------------------------------------------------------------------
(* The undo of a move that failed.                                         *)

\* Recorded before anything is undone.
Undoing ==
  /\ At("undoing", "all") /\ Then("undoing", "all")
  /\ Set([state EXCEPT !.phase = "switching", !.undoing = TRUE])
  /\ KeepUndo /\ UNCHANGED <<disks, run, cut, past>>

\* An undo that fails is noted; the others run all the same.  The reload that
\* ends some of them may fail once the files are written.
UndoStep(op, a, new, failing) ==
  /\ At(op, a) /\ Then(op, a)
  /\ \/ fs' = [fs EXCEPT ![a] = new] /\ NoFault /\ UNCHANGED err
     \/ /\ failing # "never" /\ Fault /\ err' = TRUE
        /\ fs' = IF failing = "reload" THEN [fs EXCEPT ![a] = new] ELSE fs
  /\ UNCHANGED <<unsynced, disk, run, mover, undos, stuck, history>>

\* unmountUndo
Unmount(a) ==
  /\ At("unmount", a) /\ Then("unmount", a)
  /\ \/ fs' = [fs EXCEPT ![a].mnt = FALSE, ![a].on = FALSE] /\ NoFault /\ UNCHANGED <<stuck, err>>
     \/ UNCHANGED fs /\ Fault /\ stuck' = stuck \cup {a} /\ err' = TRUE
  /\ UNCHANGED <<unsynced, disk, run, mover, undos, history>>

\* The folder does not come back over a mount, nor the unit go from under it.
Unwrite(a) ==
  IF a \in stuck
  THEN /\ At("unwrite", a) /\ Then("unwrite", a)
       /\ KeepUndo /\ UNCHANGED <<disks, run, mover, past>>
  ELSE UndoStep("unwrite", a, [fs[a] EXCEPT !.unit = FALSE, !.drop = FALSE], "reload")

\* Mutant: the folder set aside is not renamed back.
PutBack_OnlyRemoves(a) ==
  IF a \in stuck \/ fs[a].mnt \/ ~EmptyOrMissing(fs[a].live)
  THEN /\ At("putBack", a) /\ Then("putBack", a) /\ err' = TRUE
       /\ UNCHANGED <<disks, run, mover, undos, stuck, past>>
  ELSE UndoStep("putBack", a, [fs[a] EXCEPT !.live = "none"], "never")

PutBack(a) ==
  IF a \in stuck \/ fs[a].mnt \/ ~EmptyOrMissing(fs[a].live)
  THEN /\ At("putBack", a) /\ Then("putBack", a) /\ err' = TRUE
       /\ UNCHANGED <<disks, run, mover, undos, stuck, past>>
  ELSE UndoStep("putBack", a, [fs[a] EXCEPT !.live = fs[a].old, !.old = "none"], "never")

\* The undos of switchToDefault.
MoveAside(a) ==
  UndoStep("moveAside", a, [fs[a] EXCEPT !.new = fs[a].live, !.live = "empty"], "never")
Rewrite(a) == UndoStep("rewrite", a, [fs[a] EXCEPT !.unit = TRUE, !.drop = TRUE], "reload")
Enable(a)  == UndoStep("enable", a, [fs[a] EXCEPT !.on = TRUE], "command")
Remount(a) ==
  IF fs[a].unit /\ InFolder(a)
  THEN UndoStep("remount", a, Bound(fs[a]), "command")
  ELSE /\ At("remount", a) /\ Then("remount", a) /\ err' = TRUE
       /\ UNCHANGED <<disks, run, mover, undos, stuck, past>>

\* An undo that failed deletes nothing.
Undone ==
  /\ At("undone", "all")
  /\ todo' = IF err THEN All({"restart", "fail"}) ELSE GiveUp(state.target)
  /\ KeepUndo /\ UNCHANGED <<disks, run, mover, past>>

\* removeTree: not at once, and not at all when it fails.
RemoveBegins(a) ==
  /\ At("removing", a)
  /\ LET d == dst(Target)
     IN  \/ Then("removing", a) /\ fs' = [fs EXCEPT ![a][d] = "partial"] /\ NoFault /\ UNCHANGED err
         \/ todo' = todo \ {Step("removing", a), Step("remove", a)} /\ UNCHANGED fs /\ Fault /\ err' = (err \/ Busy(cut))
  /\ UNCHANGED <<unsynced, disk, run, mover, undos, stuck, history>>
RemoveEnds(a) ==
  /\ At("remove", a) /\ Then("remove", a)
  /\ fs' = [fs EXCEPT ![a][dst(Target)] = "none"]
  /\ KeepUndo /\ UNCHANGED <<unsynced, disk, run, mover, past>>

\* Docker is started, and the containers noted as running with it; that they
\* start is not looked at either.
Restart ==
  /\ At("restart", "all") /\ Then("restart", "all")
  /\ \/ StartDocker /\ apps' = (docker' /\ OnData' /\ (apps \/ state.noted))
     \/ /\ Startable(fs, disk) /\ docker' = TRUE /\ fs' = Started(fs)
        /\ Fault /\ unstarted' = TRUE /\ apps' \in {FALSE, apps /\ OnData'}
  /\ KeepUndo /\ UNCHANGED <<unsynced, disk, mover, mixed, unnoted, blind, relisted, said>>

Fail ==
  /\ At("fail", "all") /\ todo' = {}
  /\ Set([state EXCEPT !.phase = "failed", !.location = location, !.from = "default",
                       !.noted = FALSE, !.undoing = FALSE])
  /\ said' = (said \/ err)
  /\ KeepUndo /\ UNCHANGED <<disks, run, cut, mixed, unnoted, blind, relisted, unstarted, used>>

-----------------------------------------------------------------------------
(* A move cut short, and Recover at the next start of the service.         *)

\* load: the move is shown failed until Recover has dealt with it.
Load ==
  /\ cut' = IF Busy(file) THEN file ELSE NoMove
  /\ state' = IF Busy(file) THEN [file EXCEPT !.phase = "failed"] ELSE file
  /\ todo' = IF Busy(file) THEN All({"recover"}) ELSE {}
  /\ undos' = {} /\ stuck' = {} /\ err' = FALSE
  /\ unnoted' = (unnoted \/ (Busy(file) /\ ~file.noted))
  /\ UNCHANGED <<file, mixed, blind, relisted, said>>

\* The service stops and starts again: Docker and the mounts stay as they are.
Stop ==
  /\ used.cuts < MaxCuts /\ used' = [used EXCEPT !.cuts = @ + 1]
  /\ todo # {} /\ Load
  /\ UNCHANGED <<disks, run, unstarted>>

\* The machine stops and boots: a copy not flushed is not whole, the units that
\* are enabled or that a drop-in asks for mount what they can, and Docker starts.
Boot ==
  LET Kept(a)  == IF a \in unsynced /\ fs[a][dst(Target)] # "none"
                      THEN [fs[a] EXCEPT ![dst(Target)] = "partial"] ELSE fs[a]
      Up(a, d) == LET r == [Kept(a) EXCEPT !.mnt = FALSE]
                  IN  IF r.unit /\ (r.on \/ r.drop) /\ d /\ r.tgt # "none" THEN Bound(r) ELSE r
  IN  /\ used.cuts < MaxCuts
      /\ \/ disk' = TRUE /\ used' = [used EXCEPT !.cuts = @ + 1]
         \/ /\ disk' = FALSE /\ used.absent < MaxAbsent
            /\ used' = [used EXCEPT !.cuts = @ + 1, !.absent = @ + 1]
      /\ Load /\ unsynced' = {} /\ unstarted' = FALSE
      /\ LET f == [a \in Area |-> Up(a, disk')]
         IN  IF Startable(f, disk') THEN docker' = TRUE /\ fs' = Started(f)
                                    ELSE docker' = FALSE /\ fs' = f
      /\ apps' = (docker' /\ ~Busy(file) /\ \A a \in Area : (IF fs'[a].mnt THEN fs'[a].tgt ELSE fs'[a].live) = "data")

\* Mutant: a switch that had ended is put back.
RecoverKeeps_StartingOnly == cut.phase = "starting"

\* A switch that had ended is kept, never one being undone.
RecoverKeeps ==
  \/ cut.phase = "starting"
  \/ cut.phase = "switching" /\ ~cut.undoing /\ switchDone(cut.target)

Recover ==
  /\ At("recover", "all")
  /\ todo' = IF RecoverKeeps
             THEN (IF cut.phase = "switching" /\ cut.target = "folder"
                   THEN PerArea({"enableUnit"}, {a \in Area : InFolder(a)}) ELSE {})
                  \cup All({"startServices", "verifyKept"})
             ELSE All({"quiesceCut"})
  /\ blind' = (blind \/ (~disk /\ (cut.from = "folder" \/ \E a \in Area : fs[a].old = "stale")))
  /\ KeepUndo /\ UNCHANGED <<disks, run, mover, mixed, unnoted, relisted, unstarted, said, used>>

EnableUnit(a) == UndoStep("enableUnit", a, [Bound(fs[a]) EXCEPT !.on = TRUE], "command")

\* A kept switch was never checked; when it cannot be, the data from before is
\* not offered for deletion.
VerifyKept ==
  /\ At("verifyKept", "all")
  /\ \/ /\ AsBefore(cut.from) /\ NoFault
        /\ apps' = OnData /\ UNCHANGED said
        /\ todo' = All({"finishKept", "recovered"})
     \/ /\ IF AsBefore(cut.from) THEN Fault ELSE NoFault
        /\ said' = TRUE /\ UNCHANGED apps
        /\ todo' = All({"finishKept", "keepOld", "recovered"})
  /\ KeepUndo /\ UNCHANGED <<disks, docker, mover, mixed, unnoted, blind, relisted, unstarted>>

FinishKept ==
  /\ At("finishKept", "all") /\ Then("finishKept", "all")
  /\ Set(finished(state, cut.from, location))
  /\ KeepUndo /\ UNCHANGED <<disks, run, cut, past>>

KeepOld ==
  /\ At("keepOld", "all") /\ Then("keepOld", "all")
  /\ Set([state EXCEPT !.old = @ \ oldCopy(cut.from)])
  /\ KeepUndo /\ UNCHANGED <<disks, run, cut, past>>

\* If Docker cannot be stopped, no folder under it changes.
QuiesceCut ==
  LET Back == IF cut.phase # "switching" THEN {}
              ELSE IF cut.from = "default"
                   THEN PerArea({"backUnmount", "backUnwrite", "backRename"}, Area)
                   ELSE PerArea({"bindAside", "bindUnit", "bindDropIn"}, Area)
                        \cup PerArea({"bindMount"}, Area) \cup All({"bindCheck"})
  IN  /\ At("quiesceCut", "all")
      /\ \/ /\ Quiesced /\ UNCHANGED err
            /\ todo' = PerArea({"setAside"}, Area) \cup Back \cup All({"dropCopies", "restart", "recovered"})
         \/ /\ NotQuiesced /\ err' = TRUE
            /\ todo' = All({"restart", "recovered"})
      /\ UNCHANGED <<disks, mover, undos, stuck, history>>

\* setAsideBootFolders: what Docker wrote on a folder that was empty at boot is
\* kept under a name of its own, out of the places the move uses.
SetAsideBoot(a) ==
  /\ At("setAside", a)
  /\ IF /\ Has(a, IF cut.from = "folder" THEN "new" ELSE "old")
        /\ ~EmptyOrMissing(View(a)) /\ ~fs[a].mnt
     THEN fs' = [fs EXCEPT ![a].live = "empty", ![a].aside = fs[a].aside \cup {fs[a].live}]
     ELSE UNCHANGED fs
  /\ Then("setAside", a) /\ KeepUndo /\ UNCHANGED <<unsynced, disk, run, mover, past>>

\* The rest of an area's steps when one of them fails (continue).
RecoverStep(op, a, skip, possible, new, failing) ==
  /\ At(op, a)
  /\ \/ possible /\ Then(op, a) /\ fs' = [fs EXCEPT ![a] = new] /\ NoFault /\ UNCHANGED err
     \/ ~possible /\ todo' = todo \ ({Step(op, a)} \cup PerArea(skip, {a})) /\ err' = TRUE /\ NoFault /\ UNCHANGED fs
     \/ failing = "command" /\ todo' = todo \ ({Step(op, a)} \cup PerArea(skip, {a})) /\ err' = TRUE /\ Fault /\ UNCHANGED fs
     \/ failing = "reload" /\ Then(op, a) /\ fs' = [fs EXCEPT ![a] = new] /\ err' = TRUE /\ Fault
  /\ UNCHANGED <<unsynced, disk, run, mover, undos, stuck, history>>

\* backToDefault: the units of every area go, switched or not yet.
BackUnmount(a) ==
  RecoverStep("backUnmount", a, {"backUnwrite", "backRename"}, TRUE,
              IF fs[a].unit THEN [fs[a] EXCEPT !.mnt = FALSE, !.on = FALSE] ELSE fs[a],
              IF fs[a].unit THEN "command" ELSE "never")
BackUnwrite(a) ==
  RecoverStep("backUnwrite", a, {}, TRUE, [fs[a] EXCEPT !.unit = FALSE, !.drop = FALSE], "reload")
BackRename(a) ==
  RecoverStep("backRename", a, {}, Has(a, "old") => EmptyOrMissing(fs[a].live) /\ ~fs[a].mnt,
              IF Has(a, "old") THEN [fs[a] EXCEPT !.live = fs[a].old, !.old = "none"] ELSE fs[a], "never")

\* backToFolder: every live folder is bound again to its copy in the folder; a
\* live folder that was switched holds the new copy and goes aside.
BindAside(a) ==
  LET switched == ~EmptyOrMissing(View(a)) /\ ~fs[a].mnt
      new == IF switched THEN [fs[a] EXCEPT !.new = fs[a].live, !.live = "empty"]
                         ELSE [fs[a] EXCEPT !.live = IF @ = "none" THEN "empty" ELSE @]
  IN  RecoverStep("bindAside", a, {"bindUnit", "bindDropIn"},
                  InFolder(a) /\ switched => EmptyOrMissing(fs[a].new),
                  IF InFolder(a) THEN new ELSE fs[a], "never")
BindUnit(a) ==
  RecoverStep("bindUnit", a, {}, TRUE, IF InFolder(a) THEN [fs[a] EXCEPT !.unit = TRUE] ELSE fs[a], "never")
BindDropIn(a) ==
  RecoverStep("bindDropIn", a, {}, TRUE, IF InFolder(a) THEN [fs[a] EXCEPT !.drop = TRUE] ELSE fs[a], "reload")
BindMount(a) ==
  RecoverStep("bindMount", a, {}, InFolder(a) => fs[a].unit,
              IF InFolder(a) THEN [Bound(fs[a]) EXCEPT !.on = TRUE] ELSE fs[a],
              IF InFolder(a) THEN "command" ELSE "never")
BindCheck ==
  /\ At("bindCheck", "all") /\ Then("bindCheck", "all")
  /\ err' = (err \/ ~checkSwitched("folder"))
  /\ UNCHANGED <<disks, run, mover, undos, stuck, past>>

\* dropCopies deletes the copies an interrupted move made, if putting the
\* switch back went well, and never a folder Docker uses.
DropCopies ==
  /\ At("dropCopies", "all")
  /\ LET S == {a \in Copies(cut.target) : ~inUse(<<a, dst(cut.target)>>, location)}
     IN  todo' = (IF err THEN {} ELSE PerArea({"removing", "remove"}, S)) \cup (todo \ {Step("dropCopies", "all")})
  /\ KeepUndo /\ UNCHANGED <<disks, run, mover, past>>

Recovered ==
  /\ At("recovered", "all") /\ todo' = {}
  /\ Set([state EXCEPT !.location = location, !.target = "default", !.from = "default",
                       !.noted = FALSE, !.undoing = FALSE])
  /\ cut' = NoMove /\ said' = (said \/ err)
  /\ KeepUndo /\ UNCHANGED <<disks, run, mixed, unnoted, blind, relisted, unstarted, used>>

-----------------------------------------------------------------------------
(* The old copy, and what the apps write.                                  *)

Free == todo = {} /\ ~Busy(state) /\ ~Busy(cut)

DeleteOldCopy ==
  /\ Free /\ state.old # {}
  /\ \A p \in state.old : ~inUse(p, state.location)
  /\ todo' = PerArea({"deleteOld"}, {a \in Area : <<a, "old">> \in state.old})
             \cup PerArea({"deleteTgt"}, {a \in Area : <<a, "tgt">> \in state.old})
             \cup All({"deleted"})
  /\ KeepUndo /\ UNCHANGED <<disks, run, mover, past>>

\* One that cannot be deleted stays listed.
Delete(op, a, p) ==
  /\ At(op, a) /\ Then(op, a)
  /\ \/ fs' = [fs EXCEPT ![a][p] = IF Has(a, p) THEN "none" ELSE @] /\ NoFault
     \/ UNCHANGED fs /\ Fault
  /\ KeepUndo /\ UNCHANGED <<unsynced, disk, run, mover, history>>

Deleted ==
  /\ At("deleted", "all") /\ todo' = {}
  /\ Set([state EXCEPT !.old = {p \in @ : Has(p[1], p[2])}])
  /\ KeepUndo /\ UNCHANGED <<disks, run, cut, past>>

\* The apps write to the data Docker has, and every other copy is out of date.
\* After a move that was cut, what they write counts when the move had not
\* switched anything yet, or had ended its switch and is not being undone.
Unswitched == \A a \in Area : fs[a].mnt = (cut.from = "folder")
AppsWrite ==
  /\ docker /\ OnData
  /\ Free \/ (Busy(cut) /\ At("recover", "all") /\ ~cut.undoing /\ (Unswitched \/ switchDone(cut.target)))
  /\ LET written(a) == IF fs[a].mnt THEN "tgt" ELSE "live"
     IN  /\ \E a \in Area, p \in {"live", "old", "new", "tgt"} : p # written(a) /\ fs[a][p] = "data"
         /\ fs' = [a \in Area |-> [r \in DOMAIN fs[a] |->
                     IF r \in Place \ {written(a)} /\ fs[a][r] = "data" THEN "stale" ELSE fs[a][r]]]
  /\ UNCHANGED <<unsynced, disk, run, mover, work, past>>

SwitchArea(a) ==
  \/ SetAside(a) \/ MakeLive(a) \/ WriteUnit(a) \/ WriteDropIn(a) \/ Mount(a)
  \/ StopMount(a) \/ Disable(a) \/ DropUnit(a) \/ RemoveLive(a) \/ RenameNew(a)
UndoArea(a) ==
  \/ Unmount(a) \/ Unwrite(a) \/ PutBack(a) \/ MoveAside(a) \/ Rewrite(a) \/ Enable(a) \/ Remount(a)
RecoverArea(a) ==
  \/ EnableUnit(a) \/ SetAsideBoot(a) \/ BackUnmount(a) \/ BackUnwrite(a) \/ BackRename(a)
  \/ BindAside(a) \/ BindUnit(a) \/ BindDropIn(a) \/ BindMount(a)

\* What the goroutine that holds the lock does next.
Work ==
  \/ Measure \/ Quiesce \/ Copying \/ Sync \/ Switching \/ Reload \/ Check
  \/ StartServices \/ Verify \/ Requiesce \/ Finish
  \/ Undoing \/ Undone \/ Restart \/ Fail
  \/ Recover \/ VerifyKept \/ FinishKept \/ KeepOld \/ QuiesceCut \/ BindCheck \/ DropCopies \/ Recovered
  \/ Deleted
  \/ \E a \in Area : \/ Copy(a) \/ Copied(a) \/ RemoveBegins(a) \/ RemoveEnds(a)
                     \/ SwitchArea(a) \/ UndoArea(a) \/ RecoverArea(a)
                     \/ Delete("deleteOld", a, "old") \/ Delete("deleteTgt", a, "tgt")

Next ==
  \/ Work
  \/ \E target \in Where : Start(target)
  \/ DeleteOldCopy
  \/ AppsWrite
  \/ Stop \/ Boot

Spec == Init /\ [][Next]_vars
FairSpec == Spec /\ WF_vars(Work)

-----------------------------------------------------------------------------
MoveState == [phase : {"idle", "stopping", "copying", "switching", "starting", "done", "failed"},
              undoing : BOOLEAN, from : Where, target : Where, location : Where,
              noted : BOOLEAN, old : SUBSET (Area \X {"old", "tgt"})]

Somewhere(a, places) == \E p \in places : fs[a][p] = "data"

\* What the properties leave out, by name. A recovery without the drive that
\* alone has the data undoes a switch it cannot judge (blind). And once an undo
\* has failed, and the owner was told, nothing is known of a further move that
\* begins with the areas in different places (see DataSurvivesEvery), or with an
\* old copy shown of which a part is gone (see the README).
Accounted == ~blind /\ (said => ~mixed /\ ~relisted)

\* The owner's data is never lost, at any instant of a move, of its undo, of a
\* recovery or of a boot between them: some place holds all of it, up to date.
\* And what is offered for deletion is spare: with all of it deleted, the data
\* is still there. In the state file too, which a restart shows.
DataSurvives ==
  Accounted => \A a \in Area :
    /\ Somewhere(a, Place)
    /\ ~relisted => \A s \in {state, file} : Somewhere(a, {p \in Place : <<a, p>> \notin s.old})

\* Once a move or a recovery is over and did not say that putting things back
\* failed, Docker runs on the owner's data: not on a partial or old copy, nor
\* on the empty folder of a switch cut halfway; and the containers that ran
\* before the move run again, provided it had noted them and the last command
\* that was to start them did not fail, which nobody looks at (unstarted).
RunsOnTheData == Free /\ docker /\ ~said /\ ~blind => OnData /\ (~unnoted /\ ~unstarted => apps)

\* Docker is never left stopped by a move, one cut short included, whichever
\* command fails, the start that ends the move itself included: its undo
\* starts Docker again. Unless the drive it was moved to is not there, or the
\* last start of all is the command that failed.
DockerComesBack == (todo # {}) ~> (Free /\ (docker \/ ~disk \/ unstarted))

\* dropCopies' comment (dockerlocation.go:1685): it "deletes the copies an
\* interrupted move made, never a folder Docker uses", so the data is not lost.
DataSurvivesEvery == \A a \in Area : Somewhere(a, Place)
=============================================================================
