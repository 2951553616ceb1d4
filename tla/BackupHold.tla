----------------------------- MODULE BackupHold -----------------------------
(***************************************************************************)
(* Holding an app still for its copy: service/backup_hold.go, the note of  *)
(* backup_hold_recovery.go, and the backup and the restore that hold.      *)
(*                                                                         *)
(* A hold lists the running containers, writes them down, stops them one   *)
(* by one, copies, starts them again and erases the note. The process may  *)
(* be killed between any two of these steps; at the next start, before     *)
(* anything else can hold an app, the note is acted on. Every call can     *)
(* fail, as far as CallsThatFail says. One hold per app at a time: the holder has *)
(* claimed it in the table of AppOperations before it lists, and lets go   *)
(* after the note is erased (the release is deferred after the claim's end *)
(* and so runs before it).                                                 *)
(*                                                                         *)
(* The order in which the containers of one app are stopped and started is *)
(* left open, and so is the order of the apps at recovery. The note is one *)
(* file read, changed and renamed into place under one lock. Nobody else   *)
(* starts or stops a container here: the owner and the storage sweep, who  *)
(* do not ask whether an app is held, are left out.                        *)
(***************************************************************************)
EXTENDS Naturals, FiniteSets

CONSTANTS
  HeldApps, Containers,
  OwnerOf,          \* the app of a container
  CallsThatFail,         \* the calls that may fail: "stop", "stopped", "start", "note", "forget", "read"
  MaxKills      \* bound: how often the process is killed

ASSUME OwnerOfAssumption == OwnerOf \in [Containers -> HeldApps]
ASSUME KillsAssumption == MaxKills \in Nat

VARIABLES
  proc,       \* the process: "running", "down" or "recovering"
  up,         \* docker: the containers that run
  note,       \* app -> the containers of its entry in holding.json; an entry is never empty
  stage,      \* app -> what its hold is doing
  listed,     \* app -> the running containers the hold listed
  stopped,    \* app -> heldApp.stopped, or what of the note is still to be started
  unrecovered,\* apps with a container this recovery could not start
  kills,    \* bound
  owed,       \* ghost: the containers a hold stopped that did not come back yet
  excused     \* ghost: the containers a failed call kept from coming back or being noted

holdVars == <<proc, up, note, stage, listed, stopped, unrecovered, kills, owed, excused>>
holdGhosts == <<owed, excused>>

Of(a) == {c \in Containers : OwnerOf[c] = a}
NoNote == {}

HoldInit ==
  /\ proc = "running"
  /\ up \in SUBSET Containers
  /\ note = [a \in HeldApps |-> NoNote]
  /\ stage = [a \in HeldApps |-> "idle"]
  /\ listed = [a \in HeldApps |-> {}]
  /\ stopped = [a \in HeldApps |-> {}]
  /\ unrecovered = {}
  /\ kills = 0
  /\ owed = {} /\ excused = {}

Goes(a, s) == stage' = [stage EXCEPT ![a] = s]

-----------------------------------------------------------------------------
(* runningContainerIDs: only what runs, so that a backup never starts an app *)
(* its owner had switched off.                                               *)
RunningContainers(a) == Of(a) \cap up

ListContainers(a) ==
  /\ proc = "running" /\ stage[a] = "idle"
  /\ listed' = [listed EXCEPT ![a] = RunningContainers(a)]
  /\ Goes(a, "listed")
  /\ UNCHANGED <<proc, up, note, stopped, unrecovered, kills, holdGhosts>>

Remembered_AfterTheStops(a) == note[a]

(* rememberHeld, before the first stop; with nothing to stop it writes       *)
(* nothing. A note that cannot be written does not stop the hold.            *)
Remembered(a) == IF listed[a] = {} THEN note[a] ELSE listed[a]

RememberHeld(a) ==
  /\ stage[a] = "listed"
  /\ \/ note' = [note EXCEPT ![a] = Remembered(a)] /\ UNCHANGED excused
     \/ "note" \in CallsThatFail /\ excused' = excused \cup listed[a] /\ UNCHANGED note
  /\ Goes(a, "stopping")
  /\ UNCHANGED <<proc, up, listed, stopped, unrecovered, kills, owed>>

StopOne(a, c) ==
  /\ stage[a] = "stopping" /\ c \in listed[a] \ stopped[a]
  /\ up' = up \ {c}
  /\ stopped' = [stopped EXCEPT ![a] = @ \cup {c}]
  /\ owed' = owed \cup {c}
  /\ UNCHANGED <<proc, note, stage, listed, unrecovered, kills, excused>>

(* A failed stop is never taken for a still app.                             *)
AfterFailedStop == "releasing"

(* A stop that fails ends the hold, and the container is not among those to  *)
(* start again, whether the daemon stopped it after all or not.              *)
StopFails(a, c) ==
  /\ stage[a] = "stopping" /\ c \in listed[a] \ stopped[a]
  /\ \/ "stop" \in CallsThatFail /\ UNCHANGED <<up, holdGhosts>>
     \/ /\ "stopped" \in CallsThatFail
        /\ up' = up \ {c} /\ owed' = owed \cup {c} /\ excused' = excused \cup {c}
  /\ Goes(a, AfterFailedStop)
  /\ UNCHANGED <<proc, note, listed, stopped, unrecovered, kills>>

(* The context ends between two stops.                                       *)
CancelHold(a) ==
  /\ stage[a] = "stopping" /\ listed[a] \ stopped[a] # {}
  /\ Goes(a, "releasing")
  /\ UNCHANGED <<proc, up, note, listed, stopped, unrecovered, kills, holdGhosts>>

CopyBegins(a) ==
  /\ stage[a] = "stopping" /\ listed[a] \subseteq stopped[a]
  /\ Goes(a, "copying")
  /\ UNCHANGED <<proc, up, note, listed, stopped, unrecovered, kills, holdGhosts>>

(* The copy is over, well or badly: the release is deferred.                 *)
CopyEnds(a) ==
  /\ stage[a] = "copying"
  /\ Goes(a, "releasing")
  /\ UNCHANGED <<proc, up, note, listed, stopped, unrecovered, kills, holdGhosts>>

(* release stopping at the first error.                                      *)
StartOne_FirstErrorOnly(a, c) ==
  /\ stage[a] = "releasing" /\ c \in stopped[a]
  /\ \/ /\ up' = up \cup {c} /\ owed' = owed \ {c} /\ excused' = excused \ {c}
        /\ stopped' = [stopped EXCEPT ![a] = @ \ {c}]
     \/ /\ "start" \in CallsThatFail /\ excused' = excused \cup {c} /\ UNCHANGED <<up, owed>>
        /\ stopped' = [stopped EXCEPT ![a] = {}]
  /\ UNCHANGED <<proc, note, stage, listed, unrecovered, kills>>

(* release: every container is attempted, whatever became of the others.     *)
StartOne(a, c) ==
  /\ stage[a] = "releasing" /\ c \in stopped[a]
  /\ \/ up' = up \cup {c} /\ owed' = owed \ {c} /\ excused' = excused \ {c}
     \/ "start" \in CallsThatFail /\ excused' = excused \cup {c} /\ UNCHANGED <<up, owed>>
  /\ stopped' = [stopped EXCEPT ![a] = @ \ {c}]
  /\ UNCHANGED <<proc, note, stage, listed, unrecovered, kills>>

(* forgetHeld, once every container has been attempted and whether or not    *)
(* they started. The claim on the app is let go after it.                    *)
Forgotten(a) == [note EXCEPT ![a] = NoNote]

ForgetHeld(a) ==
  /\ stage[a] = "releasing" /\ stopped[a] = {}
  /\ note' = Forgotten(a) \/ ("forget" \in CallsThatFail /\ UNCHANGED note)
  /\ Goes(a, "idle")
  /\ listed' = [listed EXCEPT ![a] = {}]
  /\ UNCHANGED <<proc, up, stopped, unrecovered, kills, holdGhosts>>

-----------------------------------------------------------------------------
(* An upgrade, a power cut, the OOM killer: what the process knew is gone,   *)
(* the containers stay as they are and so does the note.                     *)
KilledInHold ==
  /\ proc # "down" /\ kills < MaxKills
  /\ proc' = "down"
  /\ stage' = [a \in HeldApps |-> "idle"]
  /\ listed' = [a \in HeldApps |-> {}]
  /\ stopped' = [a \in HeldApps |-> {}]
  /\ unrecovered' = {}
  /\ kills' = kills + 1
  /\ UNCHANGED <<up, note, holdGhosts>>

(* RecoverHeldApps, at startup, once, before the crontab and the routes.     *)
Boot ==
  /\ proc = "down"
  /\ proc' = "recovering"
  /\ stage' = [a \in HeldApps |-> IF note[a] = NoNote THEN stage[a] ELSE "recovering"]
  /\ stopped' = [a \in HeldApps |-> IF note[a] = NoNote THEN stopped[a] ELSE note[a]]
  /\ UNCHANGED <<up, note, listed, unrecovered, kills, holdGhosts>>

(* The note cannot be read: nothing is recovered.                            *)
BootUnread ==
  /\ "read" \in CallsThatFail /\ proc = "down"
  /\ proc' = "running"
  /\ excused' = excused \cup UNION {note[a] : a \in HeldApps}
  /\ UNCHANGED <<up, note, stage, listed, stopped, unrecovered, kills, owed>>

RecoverOne(a, c) ==
  /\ stage[a] = "recovering" /\ c \in stopped[a]
  /\ \/ up' = up \cup {c} /\ owed' = owed \ {c} /\ excused' = excused \ {c} /\ UNCHANGED unrecovered
     \/ /\ "start" \in CallsThatFail
        /\ excused' = excused \cup {c} /\ unrecovered' = unrecovered \cup {a} /\ UNCHANGED <<up, owed>>
  /\ stopped' = [stopped EXCEPT ![a] = @ \ {c}]
  /\ UNCHANGED <<proc, note, stage, listed, kills>>

(* The note survives a failure, so the next startup tries again.             *)
EndRecovery(a) ==
  /\ stage[a] = "recovering" /\ stopped[a] = {}
  /\ \/ a \notin unrecovered /\ note' = Forgotten(a)
     \/ (a \in unrecovered \/ "forget" \in CallsThatFail) /\ UNCHANGED note
  /\ Goes(a, "idle")
  /\ UNCHANGED <<proc, up, listed, stopped, unrecovered, kills, holdGhosts>>

Serve ==
  /\ proc = "recovering" /\ \A a \in HeldApps : stage[a] # "recovering"
  /\ proc' = "running"
  /\ unrecovered' = {}
  /\ UNCHANGED <<up, note, stage, listed, stopped, kills, holdGhosts>>

HoldStep(a) ==
  \/ RememberHeld(a) \/ CancelHold(a) \/ CopyBegins(a) \/ CopyEnds(a) \/ ForgetHeld(a)
  \/ \E c \in Containers : StopOne(a, c) \/ StopFails(a, c) \/ StartOne(a, c)

RecoveryStep(a) == EndRecovery(a) \/ \E c \in Containers : RecoverOne(a, c)

HoldNext ==
  \/ \E a \in HeldApps : ListContainers(a) \/ HoldStep(a) \/ RecoveryStep(a)
  \/ KilledInHold \/ Boot \/ BootUnread \/ Serve

HoldSpec == HoldInit /\ [][HoldNext]_holdVars

(* A hold goes on while the process runs: its calls return, its copy ends.   *)
(* systemd starts the service again, and startup goes through the note.      *)
HoldFairness ==
  /\ \A a \in HeldApps : WF_holdVars(HoldStep(a)) /\ WF_holdVars(RecoveryStep(a))
  /\ WF_holdVars(Boot) /\ WF_holdVars(Serve)

-----------------------------------------------------------------------------
HoldTypes ==
  /\ proc \in {"running", "down", "recovering"}
  /\ up \in SUBSET Containers
  /\ note \in [HeldApps -> SUBSET Containers]
  /\ stage \in [HeldApps -> {"idle", "listed", "stopping", "copying", "releasing", "recovering"}]
  /\ listed \in [HeldApps -> SUBSET Containers]
  /\ stopped \in [HeldApps -> SUBSET Containers]
  /\ unrecovered \in SUBSET HeldApps
  /\ kills \in 0 .. MaxKills
  /\ owed \in SUBSET Containers
  /\ excused \in SUBSET Containers

(* "The intention is written down before the first container is stopped, and *)
(* erased after the last one is started": at any instant the process can be  *)
(* killed, each container a hold stopped is in the note, unless a call about *)
(* it failed.                                                                *)
OwedIsNoted == \A c \in owed \ excused : c \in note[OwnerOf[c]]

(* The copy runs over an app that is off: every container the hold found     *)
(* running was stopped before, and no release or recovery starts one.        *)
HeldStill == \A a \in HeldApps : stage[a] = "copying" => listed[a] \cap up = {}

(* A release or a recovery is no way of starting an app the owner had        *)
(* switched off: only what a hold stopped is started.                        *)
StartsOnlyWhatItStopped == [][up' \ up \subseteq owed]_holdVars

(* "Whatever happens, the containers that were running come back", across    *)
(* kills: each container a hold stopped runs again one day, unless a call    *)
(* about that very container failed.                                         *)
ComesBack == \A c \in Containers : c \in owed ~> c \in up \cup excused
=============================================================================
