------------------------------ MODULE ComposeApp ------------------------------
(***************************************************************************)
(* One compose app: its files, its containers, and the requests about it:  *)
(* service/compose_app.go, compose_service.go, compose_recovery.go, with   *)
(* the handlers of route/v2/compose_app.go that load the app for them.     *)
(*                                                                         *)
(* A request loads the app (what is on disk at that moment, its .env       *)
(* resolved), claims it, and works in a goroutine of its own. A save, a    *)
(* save of the .env and an update keep a copy of the compose file, write,  *)
(* pull, create and start; a failure puts the copy back and starts the app *)
(* as the request had loaded it. Start, stop and restart claim nothing. A  *)
(* sweep starts once, when the storage is mounted, what the boot left off. *)
(*                                                                         *)
(* A version of the compose file is an edit of its owner (`edit`, counted) *)
(* and the image the catalogue gave it; a version of the .env is an edit.  *)
(* A definition is what compose runs: both together. Containers carry the  *)
(* definitions they were created from: more than one after a creation that *)
(* failed midway. Every definition names the same services, so orphans are *)
(* left out, and so are pulls (a failed one is reported, not returned), git*)
(* apps, several compose files and the data folders an uninstall deletes.  *)
(* A write that fails leaves the file as it was or as it should be.        *)
(***************************************************************************)
EXTENDS Naturals, FiniteSets

CONSTANTS
  MaxAtOnce,      \* bound: requests at a time
  Images,         \* versions of the image the catalogue names; the app was installed with 0
  Faults,         \* what may fail: "file", "create", "start", "stop", "undo", "down",
                  \* "sweep", "mark" (the file that says the owner stopped the app)
  MaxEdits,       \* bound: edits of the owner, the first included
  MaxCalls,       \* bound: requests
  MaxKills        \* bound: how often the service is killed or the box starts again

ASSUME ImagesAssumption == 0 \in Images /\ Images \subseteq Nat
ASSUME BoundsAssumption == MaxEdits \in Nat \ {0} /\ {MaxAtOnce, MaxCalls, MaxKills} \subseteq Nat

VARIABLES
  file, env, bak, \* docker-compose.yml, .env and docker-compose.yml.bak
  box,            \* docker: of, the definitions of the app's containers, and their state
  holder,         \* who the table of operations says holds the app
  call,           \* a call: where it is (at), what it was asked (op), the definition it loaded
                  \* (the ComposeApp in memory), the compose file and .env it is to write (news),
                  \* the .env it puts back (oldEnv)
  marker,         \* the file that says the owner stopped the app
  live,           \* /DATA is mounted
  sweep,          \* the sweep: "armed", "mark", "look", "clear", "start" or "done"
  edits, asked, kills, \* counters behind the bounds
  kept, keptEnv,  \* ghosts: the edits of the last request that was kept
  odd,            \* ghost: why disk and containers may differ: "crash", "undo", "stale", "over"
  off,            \* ghost: the owner's last word is a stop, and the app is down: "no", "yes",
                  \* "unmarked" (its mark could not be written) or "rebooted" (the boot took it)
  mixed,          \* ghost: the stop that runs is not alone
  abandoned       \* ghost: the boot left the app off and nobody touched it since

files == <<file, env, bak>>
world == <<live, kills>>
ghosts == <<kept, keptEnv, odd, off, mixed, abandoned>>
vars == <<files, box, holder, call, marker, sweep, edits, asked, world, ghosts>>

Calls == 1..MaxAtOnce      \* the goroutines of requests
Edits == 0..MaxEdits
Nobody == 0
NoFile == [edit |-> 0, image |-> 0]
Versions == [edit : 1..MaxEdits, image : Images]
Def(f, e) == [edit |-> f.edit, image |-> f.image, env |-> e]
OnDisk == Def(file, env)
NoDef == Def(NoFile, 0)
Idle == [at |-> "idle", op |-> "none", loaded |-> NoDef, news |-> NoDef, oldEnv |-> 0]
Gone == [of |-> {}, state |-> "none"]

Applies == {"save", "env", "update"}
Ops == Applies \cup {"start", "stop", "install", "uninstall"}

\* An installed app on a box that has been up for a while.
Init ==
  /\ file = [edit |-> 1, image |-> 0]
  /\ env = 0 /\ bak = NoFile
  /\ box = [of |-> {OnDisk}, state |-> "running"]
  /\ holder = Nobody
  /\ call = [c \in Calls |-> Idle]
  /\ marker = FALSE /\ live = TRUE /\ sweep = "done"
  /\ edits = 1 /\ asked = 0 /\ kills = 0
  /\ kept = 1 /\ keptEnv = 0 /\ odd = {}
  /\ off = "no" /\ mixed = FALSE /\ abandoned = FALSE

At(c, step) == call[c].at = step
Goto(c, step) == call' = [call EXCEPT ![c].at = step]
GotoWith(c, step, d) == call' = [call EXCEPT ![c].at = step, ![c].news = d]
Leave(c) == call' = [call EXCEPT ![c] = Idle]
Fails(kind) == kind \in Faults

(***************************************************************************)
(* Docker. Compose lists the app by its containers and loads its file.     *)
(***************************************************************************)
Listed == box.of # {} /\ file # NoFile

\* Create replaces the containers of another definition; its own it leaves alone.
Created(d) == IF box.of = {d} THEN box ELSE [of |-> {d}, state |-> "created"]

\* A creation that fails did nothing, or replaced some of the containers.
HalfCreated(d) ==
  {box} \cup {[of |-> box.of \cup {d}, state |-> s] : s \in {"created", "exited"}}

InState(s) == [box EXCEPT !.state = s]

(***************************************************************************)
(* A request: load the app, read what it writes, claim.                    *)
(***************************************************************************)
Busy == \E c \in Calls : ~At(c, "idle")
Stopping == \E c \in Calls : call[c].op = "stop"
OtherStop(c) == \E d \in Calls \ {c} : call[d].op = "stop"
SweepHasAsked == sweep \in {"look", "clear", "start"}

\* clearAppStopped: a mark that cannot be removed is logged.
MarkCleared == marker' = FALSE \/ (Fails("mark") /\ UNCHANGED marker)

\* What the owner wrote, sent along.
Writes(o) == o \in {"save", "env", "install"}
FirstStep(o) ==
  CASE o = "env" -> "read" [] o = "start" -> "clear" [] o = "stop" -> "stop" [] OTHER -> "claim"

\* A handler loads the app (the .env resolved): what it holds from here on may grow old.
Ask(c, o) ==
  /\ asked < MaxCalls
  /\ At(c, "idle") /\ (\A d \in 1..(c - 1) : ~At(d, "idle"))
  /\ o = "install" \/ Listed
  /\ Writes(o) => edits < MaxEdits
  /\ asked' = asked + 1
  /\ edits' = IF Writes(o) THEN edits + 1 ELSE edits
  /\ \E i \in IF o = "install" THEN Images ELSE {file.image} :
       call' = [call EXCEPT ![c] =
         [at |-> FirstStep(o), op |-> o,
          loaded |-> IF o \in Applies THEN OnDisk ELSE NoDef,
          news |-> IF Writes(o) THEN [edit |-> edits', image |-> i, env |-> edits'] ELSE NoDef,
          oldEnv |-> 0]]
  /\ off' = "no" /\ mixed' = (IF o = "stop" THEN Busy \/ SweepHasAsked ELSE Stopping) /\ abandoned' = FALSE
  /\ UNCHANGED <<files, box, holder, marker, sweep, world, kept, keptEnv, odd>>

\* ApplyEnv reads the compose file it will write back, and claims the app after that.
ReadCurrent(c) ==
  /\ At(c, "read")
  /\ IF file = NoFile
     THEN Leave(c)
     ELSE GotoWith(c, "claim", Def(file, call[c].news.env))
  /\ UNCHANGED <<files, box, holder, marker, sweep, edits, asked, world, ghosts>>

Claim(c) ==
  /\ At(c, "claim")
  /\ IF holder # Nobody
     THEN Leave(c) /\ UNCHANGED <<holder, marker>>
     ELSE /\ holder' = c
          /\ Goto(c, CASE call[c].op = "install" -> "iwrite" [] call[c].op = "uninstall" -> "ustop"
                       [] call[c].op = "update" -> "prepare" [] OTHER -> "backup")
          /\ IF call[c].op = "uninstall" THEN MarkCleared ELSE UNCHANGED marker
  /\ UNCHANGED <<files, box, sweep, edits, asked, world, ghosts>>

\* `end`: the last thing the goroutine does.
Release(c) == Leave(c) /\ holder' = Nobody

\* Mutant: the update is built from the app as it was loaded, not from the file under the claim.
PrepareFromMemory(c) ==
  /\ At(c, "prepare")
  /\ \/ /\ file # NoFile
        /\ \E i \in Images : GotoWith(c, "backup", [call[c].loaded EXCEPT !.image = i])
        /\ UNCHANGED holder
     \/ (file = NoFile \/ Fails("file")) /\ Release(c)
  /\ UNCHANGED <<files, box, marker, sweep, edits, asked, world, ghosts>>

(***************************************************************************)
(* Save, save of the .env, update: pullAndApply.                           *)
(***************************************************************************)
\* prepareUpdate: the file on disk, read under the claim, with the catalogue's image.
Prepare(c) ==
  /\ At(c, "prepare")
  /\ \/ /\ file # NoFile
        /\ \E i \in Images : GotoWith(c, "backup", Def([file EXCEPT !.image = i], env))
        /\ UNCHANGED holder
     \/ (file = NoFile \/ Fails("file")) /\ Release(c)
  /\ UNCHANGED <<files, box, marker, sweep, edits, asked, world, ghosts>>

Backup(c) ==
  /\ At(c, "backup")
  /\ \/ /\ file # NoFile
        /\ bak' = file
        /\ call' = [call EXCEPT ![c].at = "write", ![c].oldEnv = IF call[c].op = "env" THEN env ELSE 0]
        /\ UNCHANGED holder
     \/ (file = NoFile \/ Fails("file")) /\ Release(c) /\ UNCHANGED bak
  /\ UNCHANGED <<file, env, box, marker, sweep, edits, asked, world, ghosts>>

WriteCompose(c) ==
  /\ At(c, "write")
  /\ LET new == [edit |-> call[c].news.edit, image |-> call[c].news.image] IN
     \/ /\ file' = new
        /\ Goto(c, IF call[c].op = "env" THEN "writeenv" ELSE "create")
        /\ odd' = IF call[c].op = "env" /\ new # file THEN odd \cup {"lost"} ELSE odd
     \/ /\ Fails("file")
        /\ file' \in {file, new}
        /\ Goto(c, "undo") /\ UNCHANGED odd
  /\ UNCHANGED <<env, bak, box, holder, marker, sweep, edits, asked, world, kept, keptEnv, off, mixed, abandoned>>

WriteEnv(c) ==
  /\ At(c, "writeenv")
  /\ \/ env' = call[c].news.env /\ Goto(c, "create")
     \/ Fails("file") /\ env' \in {env, call[c].news.env} /\ Goto(c, "undo")
  /\ UNCHANGED <<file, bak, box, holder, marker, sweep, edits, asked, world, ghosts>>

\* The app is loaded again from the files just written, its images pulled. Files that do
\* not load end like a creation that did nothing.
CreateNew(c) ==
  /\ At(c, "create")
  /\ \/ box' = Created(OnDisk) /\ Goto(c, "start")
     \/ Fails("create") /\ box' \in HalfCreated(OnDisk) /\ Goto(c, "undo")
  /\ UNCHANGED <<files, holder, marker, sweep, edits, asked, world, ghosts>>

StartNew(c) ==
  /\ At(c, "start")
  /\ \/ box' = InState("running") /\ Goto(c, "wait")
     \/ Fails("start") /\ box' = InState("failed") /\ Goto(c, "undo")
  /\ UNCHANGED <<files, holder, marker, sweep, edits, asked, world, ghosts>>

\* What a request that was kept leaves counts from then on: the edit it carried, and
\* after a kill or a failed undo, whatever is on disk.
Keep(c) ==
  LET unsure == odd \cap {"crash", "undo"} # {} IN
  /\ odd' = IF call[c].op = "save" THEN {} ELSE odd \cap {"lost"}
  /\ kept' = IF call[c].op = "save" \/ (unsure /\ "lost" \notin odd) THEN file.edit ELSE kept
  /\ keptEnv' = IF call[c].op = "env" \/ unsure THEN env ELSE keptEnv

(***************************************************************************)
(* waitForApp and keepNewDefinition: running, or out of time, or finished  *)
(* cleanly (everyContainerSettled) keeps what was written. An app that     *)
(* somebody stopped meanwhile has exited, cleanly or not.                  *)
(***************************************************************************)
WaitNew(c) ==
  /\ At(c, "wait")
  /\ \/ Release(c) /\ Keep(c) /\ UNCHANGED box
     \/ /\ Fails("start") \/ box.state # "running"
        /\ box' = IF box.state = "running" THEN InState("failed") ELSE box
        /\ Goto(c, "undo") /\ UNCHANGED <<holder, kept, keptEnv, odd>>
  /\ UNCHANGED <<files, marker, sweep, edits, asked, world, off, mixed, abandoned>>

\* Mutant: the undo puts the files back and leaves the containers.
UndoFilesOnly(c) ==
  /\ At(c, "undo")
  /\ \/ file' = bak /\ UNCHANGED odd
     \/ Fails("undo") /\ odd' = odd \cup {"undo"} /\ UNCHANGED file
  /\ Release(c)
  /\ env' = IF call[c].op = "env" THEN call[c].oldEnv ELSE env
  /\ UNCHANGED <<bak, box, marker, sweep, edits, asked, world, kept, keptEnv, off, mixed, abandoned>>

\* The deferred undo: the copy of the compose file, the old .env, the app as it was loaded.
UndoCompose(c) ==
  /\ At(c, "undo")
  /\ \/ /\ file' = bak
        /\ Goto(c, IF call[c].op = "env" THEN "undoenv" ELSE "undocreate")
        /\ UNCHANGED <<holder, odd>>
     \/ /\ Fails("undo") /\ Release(c) /\ odd' = odd \cup {"undo"}
        /\ UNCHANGED file
  /\ UNCHANGED <<env, bak, box, marker, sweep, edits, asked, world, kept, keptEnv, off, mixed, abandoned>>

UndoEnv(c) ==
  /\ At(c, "undoenv")
  /\ \/ env' = call[c].oldEnv /\ Goto(c, "undocreate") /\ UNCHANGED <<holder, odd>>
     \/ /\ Fails("undo") /\ Release(c) /\ odd' = odd \cup {"undo"}
        /\ UNCHANGED env
  /\ UNCHANGED <<file, bak, box, marker, sweep, edits, asked, world, kept, keptEnv, off, mixed, abandoned>>

\* What the undo creates is the definition the request loaded, not the file it put back.
UndoCreate(c) ==
  /\ At(c, "undocreate")
  /\ \/ /\ box' = Created(call[c].loaded) /\ Goto(c, "undostart")
        /\ odd' = IF call[c].loaded # OnDisk THEN odd \cup {"stale"} ELSE odd
        /\ UNCHANGED holder
     \/ /\ Fails("undo") /\ box' \in HalfCreated(call[c].loaded)
        /\ Release(c) /\ odd' = odd \cup {"undo"}
  /\ UNCHANGED <<files, marker, sweep, edits, asked, world, kept, keptEnv, off, mixed, abandoned>>

UndoStart(c) ==
  /\ At(c, "undostart")
  /\ \/ box' = InState("running")
     \/ Fails("undo") /\ box' = InState("failed")
  /\ Release(c)
  /\ UNCHANGED <<files, marker, sweep, edits, asked, world, ghosts>>

(***************************************************************************)
(* Install: the files, then pull, create, start; nothing is put back. An   *)
(* app of that name may be there already: nobody asks.                     *)
(***************************************************************************)
\* Writes that fail take the app's folder away (RMDir, cleanup).
FolderGone == file' = NoFile /\ env' = 0 /\ bak' = NoFile
ContainersStay == IF box.of = {} THEN odd ELSE odd \cup {"over"}

InstallFiles(c) ==
  /\ At(c, "iwrite")
  /\ \/ \E withEnv \in BOOLEAN :
          LET e == IF withEnv THEN call[c].news.env ELSE env IN
          /\ file' = [edit |-> call[c].news.edit, image |-> call[c].news.image]
          /\ env' = e /\ UNCHANGED bak
          /\ kept' = call[c].news.edit /\ keptEnv' = e
          /\ odd' = ContainersStay
          /\ Goto(c, "icreate") /\ UNCHANGED holder
     \/ /\ Fails("file")
        /\ FolderGone /\ kept' = 0 /\ keptEnv' = 0 /\ odd' = ContainersStay
        /\ Release(c)
  /\ UNCHANGED <<box, marker, sweep, edits, asked, world, off, mixed, abandoned>>

InstallCreate(c) ==
  /\ At(c, "icreate")
  /\ \/ box' = Created(OnDisk) /\ odd' = {} /\ Goto(c, "istart") /\ UNCHANGED holder
     \/ /\ Fails("create") /\ box' \in HalfCreated(OnDisk)
        /\ Release(c) /\ UNCHANGED odd
  /\ UNCHANGED <<files, marker, sweep, edits, asked, world, kept, keptEnv, off, mixed, abandoned>>

InstallStart(c) ==
  /\ At(c, "istart")
  /\ \/ box' = InState("running")
     \/ Fails("start") /\ box' = InState("failed")
  /\ Release(c)
  /\ UNCHANGED <<files, marker, sweep, edits, asked, world, ghosts>>

(***************************************************************************)
(* Uninstall: stop, down, then the folder.                                 *)
(***************************************************************************)
UninstallStop(c) ==
  /\ At(c, "ustop")
  /\ \/ box' = (IF box.of = {} THEN box ELSE InState("exited")) /\ Goto(c, "udown") /\ UNCHANGED holder
     \/ Fails("stop") /\ Release(c) /\ UNCHANGED box
  /\ UNCHANGED <<files, marker, sweep, edits, asked, world, ghosts>>

\* Mutant: the folder goes although the containers would not.
UninstallDownIgnored(c) ==
  /\ At(c, "udown")
  /\ \/ box' = Gone
     \/ Fails("down") /\ box' \in {box, Gone}
  /\ Goto(c, "ufolder")
  /\ UNCHANGED <<files, holder, marker, sweep, edits, asked, world, ghosts>>

UninstallDown(c) ==
  /\ At(c, "udown")
  /\ \/ box' = Gone /\ Goto(c, "ufolder") /\ UNCHANGED holder
     \/ Fails("down") /\ box' \in {box, Gone} /\ Release(c)
  /\ UNCHANGED <<files, marker, sweep, edits, asked, world, ghosts>>

UninstallFolder(c) ==
  /\ At(c, "ufolder")
  /\ \/ FolderGone /\ kept' = 0 /\ keptEnv' = 0 /\ odd' = {}
     \/ Fails("file") /\ UNCHANGED <<files, kept, keptEnv, odd>>
  /\ Release(c)
  /\ UNCHANGED <<box, marker, sweep, edits, asked, world, off, mixed, abandoned>>

(***************************************************************************)
(* SetStatus: no claim. Compose starts what containers there are; the wait *)
(* for them to be exited ends by itself after 20 seconds. A restart, which *)
(* clears the mark and starts the containers again, is a start here.       *)
(***************************************************************************)
PowerFrame == UNCHANGED <<files, holder, sweep, edits, asked, world, kept, keptEnv, odd>>

Clear(c) ==
  /\ At(c, "clear")
  /\ MarkCleared
  /\ Goto(c, "up") /\ UNCHANGED <<box, off, mixed, abandoned>> /\ PowerFrame

Up(c) ==
  /\ At(c, "up")
  /\ \/ box.of # {} /\ box' = InState("running")
     \/ box.of # {} /\ Fails("start") /\ box' = InState("failed")
     \/ box.of = {} /\ UNCHANGED box
  /\ Leave(c) /\ UNCHANGED <<marker, off, mixed, abandoned>> /\ PowerFrame

\* The app is down from here on; its mark is only written after that.
Stop(c) ==
  /\ At(c, "stop")
  /\ \/ /\ box' = (IF box.of = {} THEN box ELSE InState("exited")) /\ Goto(c, "mark")
        /\ off' = (IF mixed THEN off ELSE "yes") /\ UNCHANGED mixed
     \/ Fails("stop") /\ Leave(c) /\ mixed' = OtherStop(c) /\ UNCHANGED <<box, off>>
  /\ UNCHANGED <<marker, abandoned>> /\ PowerFrame

\* markAppStopped; a mark that cannot be written is logged.
Mark(c) ==
  /\ At(c, "mark")
  /\ marker' = TRUE \/ (Fails("mark") /\ UNCHANGED marker)
  /\ off' = IF mixed THEN "no" ELSE IF off = "yes" /\ ~marker' THEN "unmarked" ELSE off
  /\ mixed' = OtherStop(c)
  /\ Leave(c) /\ UNCHANGED <<box, abandoned>> /\ PowerFrame

(***************************************************************************)
(* RecoverAppsWaitingForStorage, every 15 seconds for half an hour.        *)
(***************************************************************************)
SweepFrame == UNCHANGED <<files, holder, call, edits, asked, world, kept, keptEnv, odd, off>>

\* Mutant: the sweep is over at its first tick, mounted or not.
SweepTicksOnce ==
  /\ sweep = "armed"
  /\ sweep' = IF live /\ Listed THEN "mark" ELSE "done"
  /\ UNCHANGED <<box, marker, mixed, abandoned>> /\ SweepFrame

\* Once, when the storage is there; whatever comes of it, it does not come back.
SweepTick ==
  /\ sweep = "armed" /\ live
  /\ sweep' = IF Listed THEN "mark" ELSE "done"
  /\ UNCHANGED <<box, marker, mixed, abandoned>> /\ SweepFrame

SweepGivesUp ==
  /\ \/ sweep = "armed"                             \* the window is over
     \/ sweep \in {"mark", "look"} /\ Fails("sweep") \* no list, no states
  /\ sweep' = "done" /\ abandoned' = FALSE
  /\ UNCHANGED <<box, marker, mixed>> /\ SweepFrame

\* Mutant: nobody asks whether the owner stopped the app.
SweepNeverAsks ==
  /\ sweep = "mark" /\ sweep' = "look"
  /\ UNCHANGED <<box, marker, mixed, abandoned>> /\ SweepFrame

\* isAppStoppedByUser. A stop that runs and has no mark yet is not seen.
SweepMark ==
  /\ sweep = "mark"
  /\ sweep' = IF marker THEN "done" ELSE "look"
  /\ mixed' = (mixed \/ (~marker /\ Stopping))
  /\ UNCHANGED <<box, marker, abandoned>> /\ SweepFrame

SweepLook ==
  /\ sweep = "look"
  /\ sweep' = IF box.state = "exited" THEN "clear" ELSE "done"
  /\ UNCHANGED <<box, marker, mixed, abandoned>> /\ SweepFrame

SweepClear ==
  /\ sweep = "clear"
  /\ MarkCleared /\ sweep' = "start"
  /\ UNCHANGED <<box, mixed, abandoned>> /\ SweepFrame

SweepStart ==
  /\ sweep = "start"
  /\ \/ box.of # {} /\ box' = InState("running")
     \/ box.of # {} /\ Fails("start") /\ box' = InState("failed")
     \/ box.of = {} /\ UNCHANGED box
  /\ sweep' = "done" /\ abandoned' = FALSE
  /\ UNCHANGED <<marker, mixed>> /\ SweepFrame

(***************************************************************************)
(* The world: /DATA is mounted; the service is killed; the box starts      *)
(* again. The mark of a stop is in RuntimePath, /var/run/casaos, which a   *)
(* boot empties. Docker starts again what ran, and gives up on an app      *)
(* whose storage is not there.                                             *)
(***************************************************************************)
Mount ==
  /\ ~live /\ live' = TRUE
  /\ UNCHANGED <<files, box, holder, call, marker, sweep, edits, asked, kills, ghosts>>

Killed ==
  /\ kills < MaxKills /\ kills' = kills + 1
  /\ call' = [c \in Calls |-> Idle] /\ holder' = Nobody /\ sweep' = "armed" /\ mixed' = FALSE
  /\ odd' = IF holder = Nobody THEN odd ELSE odd \cup {"crash"}
  /\ UNCHANGED <<files, edits, asked, kept, keptEnv>>

Crash ==
  /\ Killed /\ UNCHANGED <<box, marker, live, abandoned>>
  /\ off' = IF off = "yes" /\ ~marker THEN "unmarked" ELSE off

Reboot ==
  /\ Killed /\ marker' = FALSE /\ live' = FALSE
  /\ box' \in {box} \cup (IF box.state = "running" THEN {InState("exited")} ELSE {})
  /\ abandoned' = (box' # box /\ Listed)
  /\ off' = IF off = "yes" THEN "rebooted" ELSE off

Do(c) ==
  \/ ReadCurrent(c) \/ Claim(c) \/ Prepare(c) \/ Backup(c) \/ WriteCompose(c) \/ WriteEnv(c)
  \/ CreateNew(c) \/ StartNew(c) \/ WaitNew(c)
  \/ UndoCompose(c) \/ UndoEnv(c) \/ UndoCreate(c) \/ UndoStart(c)
  \/ InstallFiles(c) \/ InstallCreate(c) \/ InstallStart(c)
  \/ UninstallStop(c) \/ UninstallDown(c) \/ UninstallFolder(c)
  \/ Clear(c) \/ Up(c) \/ Stop(c) \/ Mark(c)

Sweep == SweepTick \/ SweepGivesUp \/ SweepMark \/ SweepLook \/ SweepClear \/ SweepStart

Next ==
  \/ \E c \in Calls, o \in Ops : Ask(c, o)
  \/ \E c \in Calls : Do(c)
  \/ Sweep \/ Mount \/ Crash \/ Reboot

Spec == Init /\ [][Next]_vars

\* Every call to docker returns, and cron ticks. Nobody has to ask, mount or kill anything.
Fairness == (\A c \in Calls : WF_vars(Do(c))) /\ WF_vars(Sweep)
FairSpec == Spec /\ Fairness

-----------------------------------------------------------------------------
(***************************************************************************)
(* pullAndApply: "both files are put back if that fails, so disk and       *)
(* running state never diverge". While nobody holds the app, its containers*)
(* are of the definition on disk; after a kill, an undo that failed, an    *)
(* install over the app or an undo to a definition that had grown old, it  *)
(* is so again after the next request that is kept.                        *)
(***************************************************************************)
Settled == holder = Nobody /\ box.of # {}
DiskIsWhatRuns ==
  Settled /\ odd \cap {"crash", "undo", "over", "stale"} = {} => box.of = {OnDisk}

\* The same, without the exception of an app that was loaded before another request changed it.
DiskIsWhatRunsAlways ==
  Settled /\ odd \cap {"crash", "undo", "over"} = {} => box.of = {OnDisk}

(***************************************************************************)
(* While nobody holds the app, both files hold what the last request that  *)
(* was kept put there: a failed one leaves no trace, an update no older    *)
(* edit. The save of a .env, which reads the compose file before its claim,*)
(* may put an older one back ("lost").                                     *)
(***************************************************************************)
LastSaveStands ==
  holder = Nobody /\ odd \cap {"crash", "undo", "lost"} = {} => file.edit = kept /\ env = keptEnv

(***************************************************************************)
(* The app can always be found and taken off: its folder goes after its    *)
(* containers, whenever the service is killed. An install over it that     *)
(* cannot write takes the folder first.                                    *)
(***************************************************************************)
FilesOutliveContainers == box.of # {} /\ "over" \notin odd => file # NoFile

(***************************************************************************)
(* compose_recovery.go: "Apps the user explicitly stopped are never        *)
(* restarted." From the moment an app is down because its owner stopped it,*)
(* and until the owner asks for something else, it stays off, through      *)
(* restarts of the service and its sweeps: it is marked, or about to be.   *)
(* Except where the code gives the mark no chance: the service was killed  *)
(* before it was written, or it could not be ("unmarked"); the box started *)
(* again ("rebooted"); or the stop ran beside another request, or beside a *)
(* sweep that had asked for the mark before there was one (`mixed`).       *)
(***************************************************************************)
StoppedStaysOff ==
  off = "yes" /\ ~mixed => box.state # "running" /\ (marker \/ \E c \in Calls : At(c, "mark"))

(***************************************************************************)
(* An app the boot left off comes back once the storage is there, unless   *)
(* the sweep cannot look, the window is over or somebody acts on it.       *)
(***************************************************************************)
AbandonedComesBack == (abandoned /\ live) ~> ~abandoned

\* Who claims the app lets go of it.
ClaimsEnd == \A c \in Calls : holder = c ~> holder # c

\* What was begun or left off is not left hanging.
NothingHangs == AbandonedComesBack /\ ClaimsEnd
=============================================================================
