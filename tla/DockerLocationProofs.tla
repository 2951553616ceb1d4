------------------------ MODULE DockerLocationProofs ------------------------
(***************************************************************************)
(* Moving the data of Docker never loses it, and Docker runs on it, for    *)
(* any number of moves, stops, power cuts, commands that fail and boots    *)
(* without the drive.                                                      *)
(*                                                                         *)
(* The inductive invariant IInv has two halves, for as long as the         *)
(* behaviour is Accounted for.  Held says what holds of the disk, the      *)
(* mounts and the state file whatever is left to do, so after a cut as     *)
(* well: with no move in the state file (HeldIdle), with one to the folder *)
(* (HeldFolder), with one back (HeldDefault).  It is not inductive by      *)
(* itself, since what a step writes is only right after the steps before   *)
(* it: InScript says at which stage of the script the work is, which steps *)
(* and undos are left there, and what they rely on.  Both properties       *)
(* follow from Held, and where the recovery decides whether a cut switch   *)
(* had ended (RecoverKeeps), from SwitchEnded, which that reads off.       *)
(*                                                                         *)
(* The types come first, then facts about steps and their order, then one  *)
(* lemma per action and stage, and the theorems.                           *)
(***************************************************************************)
EXTENDS DockerLocation, TLAPS

-----------------------------------------------------------------------------
(* Types.                                                                  *)

Folders == [live : Content, old : Content, new : Content, tgt : Content, aside : SUBSET Content,
            mnt : BOOLEAN, unit : BOOLEAN, drop : BOOLEAN, on : BOOLEAN]

\* The steps of the script: of all, or of an area.
AllOps  == {"measure", "quiesce", "copying", "sync", "switching", "reload", "check",
            "recover", "startServices", "verify", "requiesce", "finish", "undoing",
            "undone", "verifyKept", "finishKept", "keepOld", "quiesceCut", "bindCheck",
            "dropCopies", "restart", "fail", "recovered", "deleted"}
AreaOps == {"copy", "copied", "aside", "mkdir", "writeUnit", "writeDropIn", "stopMount",
            "disable", "dropUnit", "removeLive", "rename", "mount", "enableUnit", "unmount",
            "unwrite", "putBack", "moveAside", "rewrite", "enable", "remount", "setAside",
            "backUnmount", "backUnwrite", "backRename", "bindAside", "bindUnit",
            "bindDropIn", "bindMount", "removing", "remove", "deleteOld", "deleteTgt"}
Steps   == All(AllOps) \cup PerArea(AreaOps, Area)

StepsOK == todo \subseteq Steps /\ undos \subseteq Steps

TypeOK ==
  /\ fs \in [Area -> Folders]
  /\ unsynced \subseteq Area /\ stuck \subseteq Area
  /\ StepsOK
  /\ disk \in BOOLEAN /\ docker \in BOOLEAN /\ apps \in BOOLEAN /\ err \in BOOLEAN
  /\ state \in MoveState /\ file \in MoveState /\ cut \in MoveState
  /\ mixed \in BOOLEAN /\ unnoted \in BOOLEAN /\ blind \in BOOLEAN
  /\ relisted \in BOOLEAN /\ unstarted \in BOOLEAN /\ said \in BOOLEAN

-----------------------------------------------------------------------------
(* What an area's folders r can be.                                        *)

NoFlags(r)   == ~r.mnt /\ ~r.unit /\ ~r.drop /\ ~r.on
Home(r)      == r.live = "data" /\ NoFlags(r)
Asked(r)     == r.unit /\ r.drop
Moved(r)     == r.tgt = "data" /\ r.live # "data" /\ (r.mnt \/ r.on => Asked(r))
Foldered(r)  == Moved(r) /\ Asked(r)
Untouched(r) == Home(r) /\ r.old = "none"
Aside(r)     == Moved(r) /\ r.old = "data"
Taken(r)     == Foldered(r) /\ r.old = "stale"
Returned(r)  == Home(r) /\ r.new = "none"

\* The steps left, and the undos collected.
Do(op, a)   == Step(op, a) \in todo
Owed(op, a) == Step(op, a) \in undos
Left(ops)   == \A s \in todo : s.op \in ops
OwedIn(ops) == \A s \in undos : s.op \in ops

UndoFolder  == {"unmount", "unwrite", "putBack"}
UndoDefault == {"moveAside", "rewrite", "enable", "remount"}
Rest        == {"reload", "check", "startServices", "verify", "finish"}

\* The three records agree up to what load changes.
Records ==
  /\ ~Busy(cut) => state = file
  /\ Busy(cut) => IF Busy(file) THEN cut = file /\ state = [file EXCEPT !.phase = "failed"] ELSE state = file
  /\ Busy(file) => file.from # file.target

\* Docker runs only on the mounts its drop-ins ask for, and on some folder.
DockerHasItsMounts ==
  docker => \A a \in Area : (Asked(fs[a]) => fs[a].mnt) /\ ~EmptyOrMissing(View(a))

OnlyWhenTold == ~said => ~mixed

Fine  == ~said /\ ~unnoted
Early == file.phase \in {"stopping", "copying"}
Ended == file.phase = "starting" \/ (file.phase = "switching" /\ ~file.undoing)

\* What holds of the disk while no move is in the state file.
HeldIdle ==
  /\ \A a \in Area : Home(fs[a]) \/ Moved(fs[a])
  /\ \A a \in Area : <<a, "tgt">> \in file.old =>
       Home(fs[a]) /\ ~fs["docker"].unit /\ (relisted \/ fs[a].tgt # "empty")
  /\ file.location = location
  /\ fs["docker"].unit /\ ~fs["docker"].drop => fs["containerd"].tgt = "data"
  /\ unsynced # {} => ~Busy(cut) /\ (file.target = "default" \/ \A b \in Area : Home(fs[b]))
  /\ ~said => (\A a \in Area : Home(fs[a])) \/ (\A a \in Area : Foldered(fs[a]))
  /\ Fine /\ docker => apps \/ unstarted

\* While the state file has a move to the folder.
HeldFolder ==
  /\ \A a \in Area : Untouched(fs[a]) \/ Aside(fs[a]) \/ Taken(fs[a])
  /\ Early => \A a \in Area : Untouched(fs[a])
  /\ file.phase = "starting" => \A a \in Area : Foldered(fs[a])
  /\ (\E a \in Area : Taken(fs[a])) =>
       /\ \A a \in Area : Taken(fs[a]) /\ (disk => fs[a].mnt)
       /\ Ended
  /\ ~Early /\ (\E a \in Area : fs[a].tgt # "data") => \A a \in Area : Untouched(fs[a])
  /\ ~Early => unsynced = {}
  /\ ~relisted => \A a \in Area, p \in {"old", "tgt"} : <<a, p>> \notin file.old

\* While it has a move to the default place.
HeldDefault ==
  /\ \A a \in Area : Moved(fs[a]) \/ Returned(fs[a])
  /\ \A a \in Area : fs[a].tgt \in {"data", "stale"}
  /\ Early => fs["docker"].unit
  /\ file.phase = "starting" => \A a \in Area : Returned(fs[a])
  /\ (\E a \in Area : fs[a].tgt = "stale") => Ended /\ \A a \in Area : Returned(fs[a])
  /\ file.phase = "switching" /\ ~file.undoing =>
       \/ \E a \in Area : fs[a].unit \/ fs[a].new # "none"
       \/ \A a \in Area : fs[a].live = "data"
  /\ ~Early => unsynced = {}
  /\ \A a \in Area : <<a, "tgt">> \notin file.old
  /\ ~said /\ Early => \A a \in Area : Foldered(fs[a])

ToFolder  == Busy(file) /\ file.target = "folder"
ToDefault == Busy(file) /\ file.target = "default"

Held ==
  /\ Records /\ DockerHasItsMounts /\ OnlyWhenTold
  /\ ~Busy(file) => HeldIdle
  /\ ToFolder => HeldFolder
  /\ ToDefault => HeldDefault

-----------------------------------------------------------------------------
(* Where the work is, and what holds there.                                *)

Going == Busy(file) /\ ~Busy(cut) /\ (file.target = "folder" => disk)
Calm  == undos = {} /\ stuck = {} /\ ~err
Noted == Fine => file.noted
Fresh == IF file.target = "folder" THEN \A a \in Area : ~Taken(fs[a])
                                   ELSE \A a \in Area : fs[a].tgt = "data"

Same == fs["containerd"].mnt = fs["docker"].mnt
Still == \A a \in Area : ~fs[a].mnt => ~EmptyOrMissing(fs[a].live)

Idle ==
  /\ ~Busy(cut) /\ ~Busy(file)
  /\ Left({"deleteOld", "deleteTgt", "deleted"})
  /\ \A a \in Area : Do("deleteOld", a) => <<a, "old">> \in file.old
  /\ \A a \in Area : Do("deleteTgt", a) => <<a, "tgt">> \in file.old

Stopping ==
  /\ Going /\ file.phase = "stopping" /\ ~file.undoing /\ Calm
  /\ Do("copying", "all") /\ Left({"measure", "quiesce", "copying"})
  /\ Do("quiesce", "all") \/ ~docker
  /\ Fine => IF Do("measure", "all") THEN docker => apps \/ unstarted ELSE file.noted
  /\ file.target = "default" => Same /\ Still

CopyingOn ==
  /\ Going /\ file.phase = "copying" /\ ~file.undoing /\ Calm /\ ~docker /\ Noted
  /\ Do("switching", "all") /\ Left({"copy", "copied", "sync", "switching"})
  /\ Do("sync", "all") \/ unsynced = {}
  /\ \A a \in Area : /\ Do("copy", a) => Do("copied", a)
                     /\ Do("copied", a) => Do("sync", "all")
  /\ file.target = "folder" => \A a \in Area : Do("copied", a) \/ fs[a].tgt = "data"
  /\ file.target = "default" =>
       /\ Same /\ Still
       /\ \A a \in Area : /\ Do("copied", a) => fs[a].unit
                          /\ fs[a].unit => Do("copied", a) \/ fs[a].new = View(a)

\* Every change the switch to the folder made is undone by a step of u.
CanGoHome(u) ==
  \A a \in Area :
    /\ fs[a].live # "data" => Step("putBack", a) \in u \/ err
    /\ fs[a].unit \/ fs[a].drop => Step("unwrite", a) \in u \/ a \in stuck
    /\ fs[a].mnt \/ fs[a].on => Step("unmount", a) \in u \/ a \in stuck

\* The switch to the default place: the unit is written again before the mount
\* that needs it, and after what is live has gone aside.
CanGoBack(u) ==
  \A a \in Area :
    /\ fs[a].live = "data" /\ (\E op \in {"rewrite", "enable", "remount"} : Step(op, a) \in u)
         => Step("moveAside", a) \in u
    /\ ~said => Foldered(fs[a]) \/ Step("rewrite", a) \in u
MountsHaveUnits(u) ==
  \A a \in Area : Step("remount", a) \in u \/ Step("enable", a) \in u
                    => Asked(fs[a]) \/ Step("rewrite", a) \in u

FolderInOrder ==
  \A a \in Area :
    /\ fs[a].tgt = "data"
    /\ IF Do("aside", a) THEN Untouched(fs[a]) ELSE fs[a].live # "data"
    /\ Do("mkdir", a) \/ Owed("unwrite", a)
    /\ IF Do("writeDropIn", a)
       THEN /\ Do("mount", a) /\ ~fs[a].mnt /\ ~fs[a].on
            /\ Do("writeUnit", a) \/ fs[a].unit
       ELSE Asked(fs[a])
    /\ Do("mount", a) \/ Owed("unmount", a)
ToTheFolder ==
  /\ Going /\ file.target = "folder" /\ file.phase = "switching" /\ ~file.undoing /\ ~docker
  /\ Noted /\ Fresh /\ CanGoHome(undos) /\ OwedIn(UndoFolder)
  /\ Do("check", "all") /\ Do("finish", "all") /\ Do("verify", "all")
  /\ Left({"aside", "mkdir", "writeUnit", "writeDropIn", "mount"} \cup Rest)
  /\ FolderInOrder

DefaultInOrder ==
  \A a \in Area :
    /\ Do("stopMount", a) => Do("disable", a) /\ ~Owed("remount", a)
    /\ Do("disable", a) => Do("dropUnit", a) /\ ~Owed("enable", a)
    /\ Do("dropUnit", a) => Do("removeLive", a)
    /\ Do("removeLive", a) => Do("rename", a)
    /\ Do("rename", a) =>
         /\ fs[a].live # "data"
         /\ Do("dropUnit", a) \/ (~fs[a].unit /\ ~fs[a].drop)
         /\ Do("disable", a) \/ ~fs[a].on
         /\ Do("stopMount", a) \/ ~fs[a].mnt
         /\ Do("removeLive", a) \/ fs[a].new = "data"
    /\ Owed("remount", a) \/ Owed("enable", a) => Owed("rewrite", a) \/ Do("dropUnit", a)
AllOrNone ==
  \/ /\ Do("removeLive", "docker") /\ fs["docker"].new # "none"
     /\ \A a \in Area : Do("rename", a) =>
          Do("removeLive", a) /\ ~fs[a].mnt /\ ~EmptyOrMissing(fs[a].live)
  \/ \A a \in Area : IF Do("rename", a) THEN fs[a].new = "data" ELSE Returned(fs[a])
ToTheDefault ==
  /\ Going /\ file.target = "default" /\ file.phase = "switching" /\ ~file.undoing /\ ~docker
  /\ Noted /\ Fresh /\ CanGoBack(undos) /\ OwedIn(UndoDefault)
  /\ Do("check", "all") /\ Do("finish", "all") /\ Do("verify", "all")
  /\ Left({"stopMount", "disable", "dropUnit", "removeLive", "rename"} \cup Rest)
  /\ DefaultInOrder
  /\ Do("rename", "containerd") /\ Do("dropUnit", "docker") => Do("stopMount", "docker")
  /\ AllOrNone

\* The undos u answer for every change of the switch.
CanUndo(u) ==
  IF file.target = "folder" THEN CanGoHome(u) ELSE CanGoBack(u) /\ MountsHaveUnits(u)
OwedRight ==
  IF file.target = "folder" THEN OwedIn(UndoFolder) ELSE OwedIn(UndoDefault)

Starting ==
  /\ Going /\ file.phase = "starting" /\ Noted /\ Fresh /\ CanUndo(undos) /\ OwedRight
  /\ Do("finish", "all") /\ Left({"startServices", "verify", "finish"})
  /\ Do("startServices", "all") => Do("verify", "all")
  /\ file.target = "folder" => \A a \in Area : Owed("unmount", a)
  /\ Fine /\ ~Do("verify", "all") /\ docker => apps

Requiescing ==
  /\ Going /\ file.phase = "switching" /\ file.undoing /\ Noted /\ CanUndo(undos) /\ OwedRight
  /\ Do("requiesce", "all") /\ Left({"requiesce"})

UndoingIt ==
  /\ Going /\ file.phase = "switching" /\ (file.undoing \/ Do("undoing", "all"))
  /\ ~docker /\ Noted /\ Fresh /\ CanUndo(todo)
  /\ Do("undone", "all")
  /\ Left({"undoing", "undone"} \cup (IF file.target = "folder" THEN UndoFolder ELSE UndoDefault))

\* What is deleted is spare, and what is left is where it was.
Removing == \E a \in Area : Do("removing", a) \/ Do("remove", a)
Spare ==
  IF file.target = "folder"
  THEN Removing \/ ~err => \A a \in Area : Untouched(fs[a])
  ELSE /\ \A a \in Area : Do("removing", a) \/ Do("remove", a) => fs[a].live # "data"
       /\ ~said /\ ~err => \A a \in Area : Foldered(fs[a])
AppsAreBack == Fine /\ ~Do("restart", "all") /\ ~err /\ docker => apps \/ unstarted

GivingUp ==
  /\ Going /\ (Early \/ file.undoing) /\ Spare /\ AppsAreBack
  /\ Fine /\ Do("restart", "all") => file.noted
  /\ Do("fail", "all") /\ Left({"removing", "remove", "restart", "fail"})

\* Recover, of a move the state file has.
Recovering == Busy(cut) /\ Busy(file) /\ undos = {} /\ Noted

RecoverNext == Recovering /\ Do("recover", "all") /\ Left({"recover"})

SwitchEnded ==
  /\ file.phase \in {"switching", "starting"}
  /\ \A a \in Area : IF file.target = "folder" THEN Foldered(fs[a]) ELSE Returned(fs[a])
Keeping ==
  /\ Recovering /\ SwitchEnded
  /\ Do("verifyKept", "all") /\ Left({"enableUnit", "startServices", "verifyKept"})
  /\ (\E a \in Area : Do("enableUnit", a)) => file.target = "folder" /\ file.phase = "switching"
FinishingKept ==
  /\ Recovering /\ SwitchEnded /\ (Fine /\ docker => apps)
  /\ Do("finishKept", "all") /\ Do("recovered", "all")
  /\ Left({"finishKept", "keepOld", "recovered"})
KeptOver ==
  /\ Busy(cut) /\ ~Busy(file) /\ undos = {}
  /\ Do("recovered", "all") /\ Left({"keepOld", "recovered"})

PuttingBack ==
  /\ Recovering /\ file.phase # "starting" /\ Fresh
  /\ file.target = "default" => disk
QuiesceNext == PuttingBack /\ Do("quiesceCut", "all") /\ Left({"quiesceCut"})

BackSteps == {"backUnmount", "backUnwrite", "backRename"}
BindSteps == {"bindAside", "bindUnit", "bindDropIn", "bindMount", "bindCheck"}
BackInOrder(a) ==
  /\ Do("backRename", a) \/ Home(fs[a]) \/ err
  /\ Do("backRename", a) /\ ~Do("backUnwrite", a) => NoFlags(fs[a])
  /\ Do("backUnwrite", a) /\ ~Do("backUnmount", a) => ~fs[a].mnt /\ ~fs[a].on
BindInOrder(a) ==
  /\ ~Do("bindAside", a) => fs[a].live # "data"
  /\ Do("bindAside", a) /\ ~Do("setAside", a) =>
       fs[a].new = "none" \/ fs[a].mnt \/ EmptyOrMissing(fs[a].live)
  /\ Do("bindUnit", a) \/ fs[a].unit
  /\ Do("bindDropIn", a) \/ fs[a].drop
PutBackNext ==
  /\ PuttingBack /\ ~docker
  /\ Do("dropCopies", "all") /\ Do("restart", "all") /\ Do("recovered", "all")
  /\ Left({"setAside", "dropCopies", "restart", "recovered"} \cup BackSteps \cup BindSteps)
  /\ (\E s \in todo : s.op \in BackSteps) => file.target = "folder" /\ file.phase = "switching"
  /\ (\E s \in todo : s.op \in BindSteps) => file.target = "default" /\ file.phase = "switching"
  /\ \A a \in Area : IF file.target = "folder" THEN BackInOrder(a)
                      ELSE file.phase = "switching" => BindInOrder(a)
Dropping ==
  /\ PuttingBack /\ Spare /\ AppsAreBack
  /\ file.target = "default" /\ Removing => fs["docker"].unit
  /\ Do("recovered", "all") /\ Left({"removing", "remove", "restart", "recovered"})

AMove == Stopping \/ CopyingOn \/ ToTheFolder \/ ToTheDefault \/ Starting \/ Requiescing
           \/ UndoingIt \/ GivingUp
ARecovery == RecoverNext \/ Keeping \/ FinishingKept \/ KeptOver \/ QuiesceNext \/ PutBackNext \/ Dropping

InScript == Idle \/ AMove \/ ARecovery

IInv == Accounted => Held /\ InScript

-----------------------------------------------------------------------------
(* Steps, and the order they are taken in.                                 *)

USE DEF Do, Owed

\* A step is its operation and its area.
LEMMA StepIs ==
  ASSUME NEW o, NEW a
  PROVE  /\ Step(o, a).op = o /\ Step(o, a).a = a
         /\ \A p, b : Step(o, a) = Step(p, b) <=> o = p /\ a = b
BY DEF Step

\* What is in the sets the script is made of.
LEMMA InAll ==
  ASSUME NEW O
  PROVE  /\ \A p, b : Step(p, b) \in All(O) <=> p \in O /\ b = "all"
         /\ \A s \in All(O) : s.op \in O
<1>1. \A p, b : Step(p, b) \in All(O) <=> p \in O /\ b = "all"
  BY StepIs DEF All
<1>2. \A s \in All(O) : s.op \in O
  BY StepIs DEF All
<1> QED BY <1>1, <1>2

LEMMA InPerArea ==
  ASSUME NEW O, NEW S
  PROVE  /\ \A p, b : Step(p, b) \in PerArea(O, S) <=> p \in O /\ b \in S
         /\ \A s \in PerArea(O, S) : s.op \in O
<1>1. \A p, b : Step(p, b) \in PerArea(O, S) <=> p \in O /\ b \in S
  BY StepIs DEF PerArea
<1>2. \A s \in PerArea(O, S) : s.op \in O
  BY StepIs DEF PerArea
<1> QED BY <1>1, <1>2

\* A step that is taken leaves the others.
LEMMA TakenOff ==
  ASSUME NEW o, NEW a, Then(o, a)
  PROVE  /\ \A p, b : Do(p, b)' <=> Do(p, b) /\ ~(p = o /\ b = a)
         /\ todo' \subseteq todo
BY StepIs DEF Then

\* Nothing of a lower rank is left of a script whose next step is o of a.
LEMMA Before ==
  ASSUME NEW o, NEW a, NEW p, NEW b, At(o, a),
         Rank(o, a) \in Nat, Rank(p, b) \in Nat, Rank(p, b) < Rank(o, a)
  PROVE  ~Do(p, b)
BY StepIs DEF At

\* The rank of every step: the docker area comes last in a loop, first in the undos.
later(a)  == IF a = "docker" THEN 10 ELSE 0
sooner(a) == IF a = "docker" THEN 0 ELSE 10

LEMMA RanksOfAll ==
  /\ Rank("measure", "all") = 100  /\ Rank("quiesce", "all") = 200
  /\ Rank("copying", "all") = 300  /\ Rank("sync", "all") = 500
  /\ Rank("switching", "all") = 600  /\ Rank("reload", "all") = 900
  /\ Rank("check", "all") = 1100  /\ Rank("recover", "all") = 1200
  /\ Rank("startServices", "all") = 1400  /\ Rank("verify", "all") = 1500
  /\ Rank("requiesce", "all") = 1600  /\ Rank("finish", "all") = 1700
  /\ Rank("undoing", "all") = 1800  /\ Rank("undone", "all") = 2200
  /\ Rank("verifyKept", "all") = 2300  /\ Rank("finishKept", "all") = 2400
  /\ Rank("keepOld", "all") = 2500  /\ Rank("quiesceCut", "all") = 2600
  /\ Rank("bindCheck", "all") = 3100  /\ Rank("dropCopies", "all") = 3200
  /\ Rank("restart", "all") = 3400  /\ Rank("fail", "all") = 3500
  /\ Rank("recovered", "all") = 3600  /\ Rank("deleted", "all") = 3800
BY DEF Rank, Loop, Pos, NewestFirst

LEMMA RanksOfArea ==
  \A a :
    /\ Rank("copy", a) = 400 + later(a)  /\ Rank("copied", a) = 401 + later(a)
    /\ Rank("aside", a) = 700 + later(a)  /\ Rank("mkdir", a) = 701 + later(a)
    /\ Rank("writeUnit", a) = 702 + later(a)  /\ Rank("writeDropIn", a) = 703 + later(a)
    /\ Rank("stopMount", a) = 800 + later(a)  /\ Rank("disable", a) = 801 + later(a)
    /\ Rank("dropUnit", a) = 802 + later(a)  /\ Rank("removeLive", a) = 803 + later(a)
    /\ Rank("rename", a) = 804 + later(a)  /\ Rank("mount", a) = 1000 + later(a)
    /\ Rank("enableUnit", a) = 1300 + later(a)  /\ Rank("setAside", a) = 2700 + later(a)
    /\ Rank("backUnmount", a) = 2800 + later(a)  /\ Rank("backUnwrite", a) = 2801 + later(a)
    /\ Rank("backRename", a) = 2802 + later(a)  /\ Rank("bindAside", a) = 2900 + later(a)
    /\ Rank("bindUnit", a) = 2901 + later(a)  /\ Rank("bindDropIn", a) = 2902 + later(a)
    /\ Rank("bindMount", a) = 3000 + later(a)  /\ Rank("removing", a) = 3300 + later(a)
    /\ Rank("remove", a) = 3301 + later(a)  /\ Rank("deleteOld", a) = 3700 + later(a)
    /\ Rank("deleteTgt", a) = 3701 + later(a)
BY DEF Rank, Loop, Pos, NewestFirst, later

LEMMA RanksOfUndo ==
  \A a :
    /\ Rank("unmount", a) = 1900 + sooner(a)  /\ Rank("unwrite", a) = 2000 + sooner(a)
    /\ Rank("putBack", a) = 2001 + sooner(a)  /\ Rank("moveAside", a) = 2100 + sooner(a)
    /\ Rank("rewrite", a) = 2101 + sooner(a)  /\ Rank("enable", a) = 2102 + sooner(a)
    /\ Rank("remount", a) = 2103 + sooner(a)
BY DEF Rank, Loop, Pos, NewestFirst, sooner

\* A step left is of all or of an area, and not before the one to be taken.
LEMMA StepLeft ==
  ASSUME TypeOK, NEW s \in todo
  PROVE  /\ Do(s.op, s.a)
         /\ s = Step(s.op, s.a)
         /\ (s.op \in AllOps /\ s.a = "all") \/ (s.op \in AreaOps /\ s.a \in Area)
<1>1. s \in Steps
  BY DEF TypeOK, StepsOK
<1>2. CASE s \in All(AllOps)
  <2>1. PICK o \in AllOps : s = Step(o, "all")
    BY <1>2 DEF All
  <2> QED BY <2>1, StepIs
<1>3. CASE s \in PerArea(AreaOps, Area)
  <2>1. PICK o \in AreaOps, a \in Area : s = Step(o, a)
    BY <1>3 DEF PerArea
  <2> QED BY <2>1, StepIs
<1> QED BY <1>1, <1>2, <1>3 DEF Steps

\* The stage that a step belongs to.
LEMMA StageOf ==
  ASSUME InScript, NEW o, NEW a, Do(o, a)
  PROVE  /\ o \in {"measure", "quiesce", "copying"} => Stopping
         /\ o \in {"copy", "copied", "sync", "switching"} => CopyingOn
         /\ o \in {"aside", "mkdir", "writeUnit", "writeDropIn", "mount"} => ToTheFolder
         /\ o \in {"stopMount", "disable", "dropUnit", "removeLive", "rename"} => ToTheDefault
         /\ o \in {"reload", "check"} => ToTheFolder \/ ToTheDefault
         /\ o \in {"finish", "verify"} => ToTheFolder \/ ToTheDefault \/ Starting
         /\ o = "startServices" => ToTheFolder \/ ToTheDefault \/ Starting \/ Keeping
         /\ o = "requiesce" => Requiescing
         /\ o \in {"undoing", "undone"} \cup UndoFolder \cup UndoDefault => UndoingIt
         /\ o \in UndoFolder => file.target = "folder"
         /\ o \in UndoDefault => file.target # "folder"
         /\ o = "fail" => GivingUp
         /\ o \in {"removing", "remove"} => GivingUp \/ Dropping
         /\ o = "restart" => GivingUp \/ PutBackNext \/ Dropping
         /\ o = "recover" => RecoverNext
         /\ o \in {"enableUnit", "verifyKept"} => Keeping
         /\ o = "finishKept" => FinishingKept
         /\ o = "keepOld" => FinishingKept \/ KeptOver
         /\ o = "quiesceCut" => QuiesceNext
         /\ o \in {"setAside", "dropCopies"} \cup BackSteps \cup BindSteps => PutBackNext
         /\ o = "recovered" => FinishingKept \/ KeptOver \/ PutBackNext \/ Dropping
         /\ o \in {"deleteOld", "deleteTgt", "deleted"} => Idle
<1>1. \A ops : Left(ops) => o \in ops
  BY StepIs DEF Left
<1>2. /\ Idle => o \in {"deleteOld", "deleteTgt", "deleted"}
      /\ Stopping => o \in {"measure", "quiesce", "copying"}
      /\ CopyingOn => o \in {"copy", "copied", "sync", "switching"}
      /\ ToTheFolder => o \in {"aside", "mkdir", "writeUnit", "writeDropIn", "mount"} \cup Rest
      /\ ToTheDefault => o \in {"stopMount", "disable", "dropUnit", "removeLive", "rename"} \cup Rest
      /\ Starting => o \in {"startServices", "verify", "finish"}
      /\ Requiescing => o \in {"requiesce"}
  BY <1>1 DEF Idle, Stopping, CopyingOn, ToTheFolder, ToTheDefault, Starting, Requiescing
<1>3. /\ UndoingIt => o \in {"undoing", "undone"}
                           \cup (IF file.target = "folder" THEN UndoFolder ELSE UndoDefault)
      /\ GivingUp => o \in {"removing", "remove", "restart", "fail"}
      /\ RecoverNext => o \in {"recover"}
      /\ Keeping => o \in {"enableUnit", "startServices", "verifyKept"}
      /\ FinishingKept => o \in {"finishKept", "keepOld", "recovered"}
      /\ KeptOver => o \in {"keepOld", "recovered"}
      /\ QuiesceNext => o \in {"quiesceCut"}
      /\ PutBackNext => o \in {"setAside", "dropCopies", "restart", "recovered"} \cup BackSteps \cup BindSteps
      /\ Dropping => o \in {"removing", "remove", "restart", "recovered"}
  BY <1>1 DEF UndoingIt, GivingUp, RecoverNext, Keeping, FinishingKept, KeptOver, QuiesceNext, PutBackNext, Dropping
<1> HIDE DEF Do
<1> QED
  BY <1>2, <1>3 DEF InScript, AMove, ARecovery, Rest, UndoFolder, UndoDefault, BackSteps, BindSteps

-----------------------------------------------------------------------------
(* What a step leaves as it was.                                           *)

USE DEF Area, Folders, Busy, EmptyOrMissing, NoFlags, Home, Asked, Moved, Foldered, Untouched, Aside,
        Taken, Returned, Early, Ended, Fine, Noted, Going, ToFolder, ToDefault

\* A step of a move that writes no folder and no record keeps what holds of them.
LEMMA HeldStays ==
  ASSUME TypeOK, Held, Busy(file), UNCHANGED <<fs, disk, state, file, cut, mixed, relisted>>,
         unsynced' \subseteq unsynced, docker' => docker, ~said' => ~said
  PROVE  Held'
BY DEF TypeOK, Held, Records, DockerHasItsMounts, OnlyWhenTold, HeldFolder, HeldDefault, View

\* The record of a move that goes on is what all three hold.
LEMMA OneRecord ==
  ASSUME TypeOK, Held, Going
  PROVE  /\ state = file /\ ~Busy(cut) /\ file.from # file.target
         /\ (ToFolder /\ file.target = "folder") \/ (ToDefault /\ file.target = "default")
BY DEF TypeOK, MoveState, Where, Held, Records

\* What a move that gives up deletes, and what it does then.
LEMMA InGiveUp ==
  ASSUME NEW t
  PROVE  /\ \A p, b : Step(p, b) \in GiveUp(t) <=>
              \/ p \in {"removing", "remove"} /\ b \in Copies(t)
              \/ p \in {"restart", "fail"} /\ b = "all"
         /\ \A s \in GiveUp(t) : s.op \in {"removing", "remove", "restart", "fail"}
BY InAll, InPerArea DEF GiveUp, RemoveCopies

\* Before the switch a move gives up with nothing to undo.
LEMMA EarlyGivesUp ==
  ASSUME TypeOK, Held, Going, Early, Noted,
         todo' \in {All({"restart", "fail"}), GiveUp(state.target)},
         UNCHANGED <<fs, disk, state, file, cut, mixed, relisted, said, unnoted>>,
         unsynced' \subseteq unsynced, docker' => docker
  PROVE  Held' /\ InScript'
<1>1. Held'
  BY HeldStays
<1>2. /\ Do("fail", "all")' /\ Do("restart", "all")'
      /\ \A b : Do("removing", b)' \/ Do("remove", b)' => b \in Copies(file.target)
  BY InAll, InGiveUp, OneRecord
<1>3. Left({"removing", "remove", "restart", "fail"})'
  BY InAll, InGiveUp DEF Left
<1>4. /\ file.target = "folder" => \A a \in Area : Untouched(fs[a])
      /\ file.target = "default" => \A a \in Copies(file.target) : fs[a].live # "data"
      /\ file.target = "default" /\ ~said => \A a \in Area : Foldered(fs[a])
  BY OneRecord DEF Held, HeldFolder, HeldDefault, Copies, Has, dst
<1>5. Spare'
  BY <1>2, <1>4, OneRecord DEF Spare, Removing
<1>6. GivingUp'
  BY <1>2, <1>3, <1>5 DEF GivingUp, AppsAreBack
<1> QED BY <1>1, <1>6 DEF InScript, AMove

-----------------------------------------------------------------------------
(* A move, up to its switch.                                               *)

LEMMA MeasureStep ==
  ASSUME TypeOK, Held, InScript, Measure
  PROVE  Held' /\ InScript'
<1>1. Stopping /\ Do("measure", "all")
  BY StageOf DEF Measure, At
<1>2. state = file
  BY <1>1, OneRecord DEF Stopping
<1>3. CASE Then("measure", "all") /\ Set([state EXCEPT !.noted = TRUE])
  <2>1. \A p, b : Do(p, b)' <=> Do(p, b) /\ ~(p = "measure" /\ b = "all")
    BY <1>3, TakenOff
  <2>2. Left({"measure", "quiesce", "copying"})'
    BY <1>1, <1>3, TakenOff DEF Stopping, Left
  <2>3. Held'
    BY <1>1, <1>2, <1>3
    DEF Measure, TypeOK, MoveState, Held, Records, DockerHasItsMounts, OnlyWhenTold, HeldFolder, HeldDefault, View,
        Stopping, Set, KeepUndo, disks, run, mover, history
  <2>4. Stopping'
    BY <1>1, <1>2, <1>3, <2>1, <2>2
    DEF Measure, TypeOK, MoveState, Stopping, Set, KeepUndo, Calm, Same, Still, disks, run, mover, history
  <2> QED BY <2>3, <2>4 DEF InScript, AMove
<1>4. CASE todo' = All({"fail"}) /\ UNCHANGED <<state, file>>
  <2>1. \A p, b : Do(p, b)' <=> p = "fail" /\ b = "all"
    BY <1>4, InAll
  <2>2. Left({"removing", "remove", "restart", "fail"})'
    BY <1>4, InAll DEF Left
  <2>3. Held'
    BY <1>1, <1>4, HeldStays DEF Stopping, Measure, disks, run, history
  <2>4. Spare'
    BY <1>1, <1>4, <2>1, OneRecord
    DEF Measure, Held, HeldFolder, HeldDefault, Stopping, Spare, Removing, disks, history
  <2>5. AppsAreBack'
    BY <1>1, <1>4, <2>1 DEF Measure, Stopping, AppsAreBack, run, history
  <2>6. GivingUp'
    BY <1>1, <1>4, <2>1, <2>2, <2>4, <2>5 DEF Measure, Stopping, GivingUp, disks
  <2> QED BY <2>3, <2>6 DEF InScript, AMove
<1> QED BY <1>3, <1>4 DEF Measure

LEMMA QuiesceStep ==
  ASSUME TypeOK, Held, InScript, Quiesce
  PROVE  Held' /\ InScript'
<1>1. Stopping /\ Do("quiesce", "all")
  BY StageOf DEF Quiesce, At
<1>2. ~Do("measure", "all")
  BY Before, RanksOfAll DEF Quiesce
<1>3. CASE Quiesced /\ Then("quiesce", "all")
  <2>1. \A p, b : Do(p, b)' <=> Do(p, b) /\ ~(p = "quiesce" /\ b = "all")
    BY <1>3, TakenOff
  <2>2. Left({"measure", "quiesce", "copying"})'
    BY <1>1, <1>3, TakenOff DEF Stopping, Left
  <2>3. Held'
    BY <1>1, <1>3, HeldStays DEF Stopping, Quiesce, Quiesced, disks, mover, history
  <2>4. Stopping'
    BY <1>1, <1>2, <1>3, <2>1, <2>2
    DEF Quiesce, Quiesced, Stopping, KeepUndo, Calm, Same, Still, disks, mover, history
  <2> QED BY <2>3, <2>4 DEF InScript, AMove
<1>4. CASE NotQuiesced /\ todo' = All({"restart", "fail"})
  <2>1. Going /\ Early /\ Noted
    BY <1>1, <1>2 DEF Stopping
  <2>2. UNCHANGED <<fs, disk, state, file, cut, mixed, relisted, said, unnoted>> /\ UNCHANGED unsynced
    BY DEF Quiesce, disks, mover, history
  <2>3. docker' => docker
    BY <1>4 DEF NotQuiesced
  <2> QED BY <1>4, <2>1, <2>2, <2>3, EarlyGivesUp
<1> QED BY <1>3, <1>4 DEF Quiesce

LEMMA CopyingStep ==
  ASSUME TypeOK, Held, InScript, Copying
  PROVE  Held' /\ InScript'
<1> DEFINE S == {a \in Area : View(a) # "none" /\ (state.target = "default" => fs[a].unit)}
<1>1. Stopping
  BY StageOf DEF Copying, At
<1>2. ~Do("measure", "all") /\ ~Do("quiesce", "all")
  BY Before, RanksOfAll DEF Copying
<1>3. state = file /\ file' = [file EXCEPT !.phase = "copying"] /\ state' = file'
  BY <1>1, OneRecord DEF Stopping, Copying, Set
<1>4. todo' = PerArea({"copy", "copied"}, S) \cup All({"sync", "switching"})
  BY DEF Copying
<1>5. \A p, b : Do(p, b)' <=> \/ p \in {"copy", "copied"} /\ b \in S
                              \/ p \in {"sync", "switching"} /\ b = "all"
  BY <1>4, InAll, InPerArea
<1>6. Left({"copy", "copied", "sync", "switching"})'
  BY <1>4, InAll, InPerArea DEF Left
<1>7. Held'
  BY <1>1, <1>3
  DEF Copying, TypeOK, MoveState, Held, Records, DockerHasItsMounts, OnlyWhenTold, HeldFolder, HeldDefault, View,
      Stopping, KeepUndo, disks, run, past, history
<1>8. CopyingOn'
  <2>1. UNCHANGED <<fs, unsynced, disk, docker, apps, cut, undos, stuck, err, said, unnoted, unstarted>>
    BY DEF Copying, KeepUndo, disks, run, past, history
  <2>2. /\ Going' /\ file'.phase = "copying" /\ ~file'.undoing
        /\ file'.target = file.target /\ file'.noted = file.noted
    BY <1>1, <1>3, <2>1 DEF TypeOK, MoveState, Stopping
  <2>3. file.target = "folder" => S = Area
    BY <1>1, <1>3, OneRecord DEF Stopping, Held, HeldFolder, View
  <2>4. file.target = "default" => \A a \in Area : fs[a].unit => a \in S
    BY <1>1, <1>3, OneRecord DEF Stopping, Held, HeldDefault, View, Still
  <2>5. file.target = "default" => Same /\ Still
    BY <1>1 DEF Stopping
  <2> HIDE DEF S
  <2>6. file.target = "default" => \A a \in S : fs[a].unit
    BY <1>3 DEF S
  <2> QED
    BY <1>1, <1>2, <1>5, <1>6, <2>1, <2>2, <2>3, <2>4, <2>5, <2>6
    DEF Stopping, CopyingOn, Calm, Same, Still
<1> QED BY <1>7, <1>8 DEF InScript, AMove

LEMMA CopyStep ==
  ASSUME TypeOK, Held, InScript, NEW a \in Area, Copy(a)
  PROVE  Held' /\ InScript'
<1>1. CopyingOn /\ Do("copy", a)
  BY StageOf DEF Copy, At
<1>2. state = file /\ fs' = [fs EXCEPT ![a][dst(file.target)] = "partial"]
  BY <1>1, OneRecord DEF CopyingOn, Copy
<1>3. \A p, b : Do(p, b)' <=> Do(p, b) /\ ~(p = "copy" /\ b = a)
  BY TakenOff DEF Copy
<1>4. Left({"copy", "copied", "sync", "switching"})'
  BY <1>1, TakenOff DEF Copy, CopyingOn, Left
<1>5. Held'
  <2>1. Records' /\ OnlyWhenTold' /\ DockerHasItsMounts'
    BY <1>1, OneRecord DEF Copy, Held, Records, DockerHasItsMounts, OnlyWhenTold, CopyingOn, run, mover, history
  <2>2. ToFolder => HeldFolder'
    BY <1>1, <1>2, OneRecord DEF Copy, TypeOK, Held, HeldFolder, dst, CopyingOn, run, mover, history
  <2>3. ToDefault => HeldDefault'
    BY <1>1, <1>2, OneRecord DEF Copy, TypeOK, Held, HeldDefault, dst, CopyingOn, run, mover, history
  <2> QED BY <1>1, <2>1, <2>2, <2>3 DEF Held, CopyingOn, Copy, mover
<1>6. CopyingOn'
  BY <1>1, <1>2, <1>3, <1>4, OneRecord
  DEF Copy, TypeOK, CopyingOn, dst, View, KeepUndo, Calm, Same, Still, run, mover, history
<1> QED BY <1>5, <1>6 DEF InScript, AMove

LEMMA CopiedStep ==
  ASSUME TypeOK, Held, InScript, NEW a \in Area, Copied(a)
  PROVE  Held' /\ InScript'
<1>1. CopyingOn /\ Do("copied", a)
  BY StageOf DEF Copied, At
<1>2. state = file
  BY <1>1, OneRecord DEF CopyingOn
<1>3. CASE /\ Then("copied", a) /\ fs' = [fs EXCEPT ![a][dst(state.target)] = View(a)]
           /\ unsynced' = unsynced \cup {a}
  <2>1. \A p, b : Do(p, b)' <=> Do(p, b) /\ ~(p = "copied" /\ b = a)
    BY <1>3, TakenOff
  <2>2. Left({"copy", "copied", "sync", "switching"})'
    BY <1>1, <1>3, TakenOff DEF CopyingOn, Left
  <2>3. ~Do("copy", a) /\ Do("sync", "all")
    <3>1. Rank("copy", a) \in Nat /\ Rank("copied", a) \in Nat /\ Rank("copy", a) < Rank("copied", a)
      BY RanksOfArea DEF later
    <3> QED BY <1>1, <3>1, Before DEF Copied, CopyingOn
  <2>4. Held'
    <3>1. Records' /\ OnlyWhenTold' /\ DockerHasItsMounts'
      BY <1>1, OneRecord DEF Copied, Held, Records, DockerHasItsMounts, OnlyWhenTold, CopyingOn, run, mover, history
    <3>2. ToFolder => HeldFolder'
      BY <1>1, <1>2, <1>3, OneRecord DEF Copied, TypeOK, Held, HeldFolder, dst, CopyingOn, run, mover, history
    <3>3. ToDefault => HeldDefault'
      BY <1>1, <1>2, <1>3, OneRecord DEF Copied, TypeOK, Held, HeldDefault, dst, CopyingOn, run, mover, history
    <3> QED BY <1>1, <3>1, <3>2, <3>3 DEF Held, CopyingOn, Copied, mover
  <2>5. CopyingOn'
    BY <1>1, <1>2, <1>3, <2>1, <2>2, <2>3, OneRecord
    DEF Copied, TypeOK, Held, HeldFolder, HeldDefault, CopyingOn, dst, View, KeepUndo, Calm, Same, Still, run, mover, history
  <2> QED BY <2>4, <2>5 DEF InScript, AMove
<1>4. CASE todo' = GiveUp(state.target) /\ UNCHANGED <<fs, unsynced>>
  BY <1>1, <1>4, EarlyGivesUp DEF CopyingOn, Copied, run, mover, history
<1> QED BY <1>3, <1>4 DEF Copied

LEMMA SyncStep ==
  ASSUME TypeOK, Held, InScript, Sync
  PROVE  Held' /\ InScript'
<1>1. CopyingOn /\ Do("sync", "all")
  BY StageOf DEF Sync, At
<1>2. CASE Then("sync", "all") /\ unsynced' = {}
  <2>1. \A p, b : Do(p, b)' <=> Do(p, b) /\ ~(p = "sync" /\ b = "all")
    BY <1>2, TakenOff
  <2>2. Left({"copy", "copied", "sync", "switching"})'
    BY <1>1, <1>2, TakenOff DEF CopyingOn, Left
  <2>3. \A a \in Area : ~Do("copy", a) /\ ~Do("copied", a)
    <3>1. \A a \in Area, p \in {"copy", "copied"} :
            /\ Rank("sync", "all") \in Nat /\ Rank(p, a) \in Nat
            /\ Rank(p, a) < Rank("sync", "all")
      BY RanksOfAll, RanksOfArea DEF later
    <3> QED BY <3>1, Before DEF Sync
  <2>4. Held'
    BY <1>1, <1>2, HeldStays DEF CopyingOn, Sync, run, mover, history
  <2>5. CopyingOn'
    BY <1>1, <1>2, <2>1, <2>2, <2>3
    DEF Sync, CopyingOn, View, KeepUndo, Calm, Same, Still, run, mover, history
  <2> QED BY <2>4, <2>5 DEF InScript, AMove
<1>3. CASE todo' = GiveUp(state.target) /\ UNCHANGED unsynced
  BY <1>1, <1>3, EarlyGivesUp DEF CopyingOn, Sync, run, mover, history
<1> QED BY <1>2, <1>3 DEF Sync

LEMMA SwitchingStep ==
  ASSUME TypeOK, Held, InScript, Switching
  PROVE  Held' /\ InScript'
<1>1. CopyingOn
  BY StageOf DEF Switching, At
<1>2. ~Do("sync", "all") /\ \A a \in Area : ~Do("copied", a)
  <2>1. \A a \in Area :
          /\ Rank("switching", "all") \in Nat /\ Rank("copied", a) \in Nat /\ Rank("sync", "all") \in Nat
          /\ Rank("copied", a) < Rank("switching", "all") /\ Rank("sync", "all") < Rank("switching", "all")
    BY RanksOfAll, RanksOfArea DEF later
  <2> QED BY <2>1, Before DEF Switching
<1>3. state = file /\ file' = [file EXCEPT !.phase = "switching"] /\ state' = file'
  BY <1>1, OneRecord DEF CopyingOn, Switching, Set
<1>4. UNCHANGED <<fs, unsynced, disk, docker, apps, cut, undos, stuck, err, mixed, unnoted, blind, relisted, said, unstarted>>
  BY DEF Switching, KeepUndo, disks, run, past, history
<1>5. /\ Going' /\ file'.phase = "switching" /\ ~file'.undoing
      /\ file'.target = file.target /\ file'.noted = file.noted
  BY <1>1, <1>3, <1>4 DEF TypeOK, MoveState, CopyingOn
<1>6. Fresh
  BY <1>1, OneRecord DEF CopyingOn, Held, HeldFolder, HeldDefault, Fresh
<1>7. Held'
  BY <1>1, <1>2, <1>3, <1>4
  DEF TypeOK, MoveState, Held, Records, DockerHasItsMounts, OnlyWhenTold, HeldFolder, HeldDefault, View, CopyingOn
<1>8. CASE file.target = "folder"
  <2>1. \A a \in Area : Untouched(fs[a]) /\ fs[a].tgt = "data" /\ a \in Copies("folder")
    BY <1>1, <1>2, <1>8 DEF CopyingOn, Held, HeldFolder, Copies, Has, dst, InFolder
  <2>2. todo' = PerArea({"aside", "mkdir", "writeUnit", "writeDropIn"}, Copies("folder"))
                \cup All({"reload"}) \cup PerArea({"mount"}, Copies("folder"))
                \cup All({"check", "startServices", "verify", "finish"})
    BY <1>3, <1>8 DEF Switching
  <2>3. /\ \A p, b : b \in Area /\ p \in {"aside", "mkdir", "writeUnit", "writeDropIn", "mount"} => Do(p, b)'
        /\ Do("check", "all")' /\ Do("finish", "all")' /\ Do("verify", "all")'
    BY <2>1, <2>2, InAll, InPerArea
  <2>4. Left({"aside", "mkdir", "writeUnit", "writeDropIn", "mount"} \cup Rest)'
    BY <2>2, InAll, InPerArea DEF Left, Rest
  <2>5. undos' = {} /\ ~docker' /\ Noted'
    BY <1>1, <1>4, <1>5 DEF CopyingOn, Calm
  <2>6. CanGoHome(undos)' /\ OwedIn(UndoFolder)'
    BY <1>4, <2>1, <2>5 DEF CanGoHome, OwedIn
  <2>7. Fresh'
    BY <1>4, <1>5, <1>6 DEF Fresh
  <2>8. ToTheFolder'
    BY <1>4, <1>5, <1>8, <2>1, <2>3, <2>4, <2>5, <2>6, <2>7 DEF ToTheFolder, FolderInOrder
  <2> QED BY <1>7, <2>8 DEF InScript, AMove
<1>9. CASE file.target = "default"
  <2> DEFINE S == Copies("default")
  <2>1. \A a \in S : fs[a].live # "data" /\ fs[a].new # "none"
    BY <1>1, <1>9 DEF CopyingOn, Held, HeldDefault, Copies, Has, dst
  <2>2. todo' = PerArea({"stopMount", "disable", "dropUnit", "removeLive", "rename"}, S)
                \cup All({"reload"}) \cup All({"check", "startServices", "verify", "finish"})
    BY <1>3, <1>9 DEF Switching
  <2>3. S \subseteq Area
    BY DEF Copies
  <2>4. fs["docker"].unit /\ \A a \in Area : fs[a].unit => fs[a].new = View(a)
    BY <1>1, <1>2, <1>9 DEF CopyingOn, Held, HeldDefault
  <2>5. Same /\ Still
    BY <1>1, <1>9 DEF CopyingOn
  <2>6. \A a \in Area : fs[a].tgt = "data" /\ (Moved(fs[a]) \/ Returned(fs[a]))
    BY <1>1, <1>6, <1>9 DEF CopyingOn, Held, HeldDefault, Fresh
  <2>7. \/ /\ "docker" \in S
           /\ \A a \in S : ~fs[a].mnt /\ ~EmptyOrMissing(fs[a].live)
        \/ \A a \in Area : a \in S /\ fs[a].new = "data"
    BY <2>4, <2>5, <2>6 DEF TypeOK, Same, Still, View, Copies, Has, dst
  <2> HIDE DEF S
  <2>8. \A p, b : p \notin {"reload", "check", "startServices", "verify", "finish"} =>
          (Do(p, b)' <=> p \in {"stopMount", "disable", "dropUnit", "removeLive", "rename"} /\ b \in S)
    BY <2>2, InAll, InPerArea
  <2>9. Do("check", "all")' /\ Do("finish", "all")' /\ Do("verify", "all")'
    BY <2>2, InAll
  <2>10. Left({"stopMount", "disable", "dropUnit", "removeLive", "rename"} \cup Rest)'
    BY <2>2, InAll, InPerArea DEF Left, Rest
  <2>11. undos' = {} /\ ~docker' /\ Noted'
    BY <1>1, <1>4, <1>5 DEF CopyingOn, Calm
  <2>12. CanGoBack(undos)' /\ OwedIn(UndoDefault)'
    BY <1>1, <1>4, <1>9, <2>11 DEF CopyingOn, Held, HeldDefault, CanGoBack, OwedIn
  <2>13. Fresh'
    BY <1>4, <1>5, <1>6 DEF Fresh
  <2>14. ToTheDefault'
    BY <1>4, <1>5, <1>9, <2>1, <2>3, <2>7, <2>8, <2>9, <2>10, <2>11, <2>12, <2>13 DEF ToTheDefault, DefaultInOrder, AllOrNone
  <2> QED BY <1>7, <2>14 DEF InScript, AMove
<1> QED BY <1>1, <1>8, <1>9, OneRecord DEF CopyingOn

-----------------------------------------------------------------------------
(* The switch to the folder.                                               *)

\* The undos of a step that failed, and the record that they run.
LEMMA InUndoSwitch ==
  /\ \A p, b : Step(p, b) \in UndoSwitch <=>
       (p \in {"undoing", "undone"} /\ b = "all") \/ Step(p, b) \in undos
  /\ \A ops : OwedIn(ops) => \A s \in UndoSwitch : s.op \in {"undoing", "undone"} \cup ops
<1>1. \A p, b : Step(p, b) \in UndoSwitch <=>
        (p \in {"undoing", "undone"} /\ b = "all") \/ Step(p, b) \in undos
  BY InAll DEF UndoSwitch
<1>2. \A ops : OwedIn(ops) => \A s \in UndoSwitch : s.op \in {"undoing", "undone"} \cup ops
  BY InAll DEF UndoSwitch, OwedIn
<1> QED BY <1>1, <1>2

\* A step of the switch that fails leaves what the undos can put back.
LEMMA SwitchFails ==
  ASSUME TypeOK, Held, ToTheFolder \/ (ToTheDefault /\ MountsHaveUnits(undos)), todo' = UndoSwitch,
         UNCHANGED <<fs, unsynced, disk, docker, state, file, cut, undos, stuck, err, mixed, unnoted, relisted, said>>
  PROVE  Held' /\ InScript'
<1>1. Held'
  BY HeldStays DEF ToTheFolder, ToTheDefault
<1>2. OwedRight /\ CanUndo(undos) /\ Going /\ ~docker /\ Noted /\ Fresh /\ file.phase = "switching"
  BY DEF OwedRight, CanUndo, ToTheFolder, ToTheDefault
<1>3. \A p, b : Do(p, b)' <=> (p \in {"undoing", "undone"} /\ b = "all") \/ Owed(p, b)
  BY InUndoSwitch
<1>4. Left({"undoing", "undone"} \cup (IF file.target = "folder" THEN UndoFolder ELSE UndoDefault))'
  BY <1>2, InUndoSwitch DEF OwedRight, Left
<1>5. CanUndo(todo)'
  BY <1>2, <1>3 DEF CanUndo, CanGoHome, CanGoBack, MountsHaveUnits
<1>6. UndoingIt'
  BY <1>2, <1>3, <1>4, <1>5 DEF UndoingIt, Fresh
<1> QED BY <1>1, <1>6 DEF InScript, AMove

LEMMA SetAsideStep ==
  ASSUME TypeOK, Held, InScript, NEW a \in Area, SetAside(a)
  PROVE  Held' /\ InScript'
<1>1. ToTheFolder /\ FolderInOrder /\ Do("aside", a)
  BY StageOf DEF SetAside, SwitchStep, At, ToTheFolder
<1>2. CASE /\ Then("aside", a) /\ fs' = [fs EXCEPT ![a] = [fs[a] EXCEPT !.old = fs[a].live, !.live = "none"]]
           /\ undos' = PerArea({"putBack"}, {a}) \cup undos
  <2>1. UNCHANGED <<unsynced, disk, docker, apps, state, file, cut, stuck, err, mixed, unnoted, blind, relisted, said, unstarted>>
    BY DEF SetAside, SwitchStep, run, mover, history
  <2>2. /\ \A p, b : Do(p, b)' <=> Do(p, b) /\ ~(p = "aside" /\ b = a)
        /\ \A p, b : Owed(p, b)' <=> Owed(p, b) \/ (p = "putBack" /\ b = a)
    BY <1>2, TakenOff, InPerArea
  <2>3. Held'
    BY SMTT(30), <1>1, <1>2, <2>1
    DEF TypeOK, Held, ToTheFolder, Records, DockerHasItsMounts, OnlyWhenTold, HeldFolder, FolderInOrder, View
  <2>4. Left({"aside", "mkdir", "writeUnit", "writeDropIn", "mount"} \cup Rest)' /\ OwedIn(UndoFolder)'
    BY <1>1, <1>2, TakenOff, InPerArea DEF Left, OwedIn, ToTheFolder, UndoFolder
  <2>5. CanGoHome(undos)'
    <3>1. CanGoHome(undos) /\ Untouched(fs[a])
      BY <1>1 DEF ToTheFolder, FolderInOrder
    <3> QED BY <3>1, <1>2, <2>1, <2>2 DEF TypeOK, CanGoHome
  <2>6. FolderInOrder'
    BY <1>1, <1>2, <2>1, <2>2 DEF TypeOK, FolderInOrder
  <2>7. Fresh'
    BY <1>1, <1>2, <2>1 DEF TypeOK, ToTheFolder, FolderInOrder, Fresh
  <2>8. ToTheFolder'
    BY <1>1, <2>1, <2>2, <2>4, <2>5, <2>6, <2>7 DEF ToTheFolder
  <2> QED BY <2>3, <2>8 DEF InScript, AMove
<1>3. CASE todo' = UndoSwitch /\ UNCHANGED <<fs, undos>>
  BY <1>1, <1>3, SwitchFails DEF SetAside, SwitchStep, run, mover, history
<1> QED BY <1>2, <1>3 DEF SetAside, SwitchStep

LEMMA MakeLiveStep ==
  ASSUME TypeOK, Held, InScript, NEW a \in Area, MakeLive(a)
  PROVE  Held' /\ InScript'
<1>1. ToTheFolder /\ FolderInOrder /\ Do("mkdir", a)
  BY StageOf DEF MakeLive, SwitchStep, At, ToTheFolder
<1>2. CASE /\ Then("mkdir", a) /\ fs' = [fs EXCEPT ![a] = [fs[a] EXCEPT !.live = "empty"]]
           /\ undos' = PerArea({"unwrite"}, {a}) \cup undos
  <2>1. UNCHANGED <<unsynced, disk, docker, apps, state, file, cut, stuck, err, mixed, unnoted, blind, relisted, said, unstarted>>
    BY DEF MakeLive, SwitchStep, run, mover, history
  <2>2. /\ \A p, b : Do(p, b)' <=> Do(p, b) /\ ~(p = "mkdir" /\ b = a)
        /\ \A p, b : Owed(p, b)' <=> Owed(p, b) \/ (p = "unwrite" /\ b = a)
    BY <1>2, TakenOff, InPerArea
  <2>3. ~Do("aside", a)
    <3>1. Rank("aside", a) \in Nat /\ Rank("mkdir", a) \in Nat /\ Rank("aside", a) < Rank("mkdir", a)
      BY RanksOfArea DEF later
    <3> QED BY <3>1, Before DEF MakeLive, SwitchStep
  <2>4. Held'
    BY <1>1, <1>2, <2>1, <2>3
    DEF TypeOK, Held, ToTheFolder, Records, DockerHasItsMounts, OnlyWhenTold, HeldFolder, FolderInOrder, View
  <2>5. Left({"aside", "mkdir", "writeUnit", "writeDropIn", "mount"} \cup Rest)' /\ OwedIn(UndoFolder)'
    BY <1>1, <1>2, TakenOff, InPerArea DEF Left, OwedIn, ToTheFolder, UndoFolder
  <2>6. CanGoHome(undos)'
    <3>1. CanGoHome(undos) /\ fs[a].live # "data"
      BY <1>1, <2>3 DEF ToTheFolder, FolderInOrder
    <3> QED BY <3>1, <1>2, <2>1, <2>2 DEF TypeOK, CanGoHome
  <2>7. FolderInOrder'
    BY SMTT(30), <1>1, <1>2, <2>1, <2>2, <2>3 DEF TypeOK, FolderInOrder
  <2>8. Fresh'
    BY <1>1, <1>2, <2>1, <2>3 DEF TypeOK, ToTheFolder, FolderInOrder, Fresh
  <2>9. ToTheFolder'
    BY <1>1, <2>1, <2>2, <2>5, <2>6, <2>7, <2>8 DEF ToTheFolder
  <2> QED BY <2>4, <2>9 DEF InScript, AMove
<1>3. CASE todo' = UndoSwitch /\ UNCHANGED <<fs, undos>>
  BY <1>1, <1>3, SwitchFails DEF MakeLive, SwitchStep, run, mover, history
<1> QED BY <1>2, <1>3 DEF MakeLive, SwitchStep

LEMMA WriteUnitStep ==
  ASSUME TypeOK, Held, InScript, NEW a \in Area, WriteUnit(a)
  PROVE  Held' /\ InScript'
<1>1. ToTheFolder /\ FolderInOrder /\ Do("writeUnit", a)
  BY StageOf DEF WriteUnit, SwitchStep, At, ToTheFolder
<1>2. CASE Then("writeUnit", a) /\ fs' = [fs EXCEPT ![a] = [fs[a] EXCEPT !.unit = TRUE]] /\ undos' = {} \cup undos
  <2>1. UNCHANGED <<unsynced, disk, docker, apps, state, file, cut, stuck, err, mixed, unnoted, blind, relisted, said, unstarted>>
    BY DEF WriteUnit, SwitchStep, run, mover, history
  <2>2. /\ \A p, b : Do(p, b)' <=> Do(p, b) /\ ~(p = "writeUnit" /\ b = a)
        /\ UNCHANGED undos
    BY <1>2, TakenOff
  <2>3. ~Do("aside", a) /\ ~Do("mkdir", a)
    <3>1. /\ Rank("aside", a) \in Nat /\ Rank("mkdir", a) \in Nat /\ Rank("writeUnit", a) \in Nat
          /\ Rank("aside", a) < Rank("writeUnit", a) /\ Rank("mkdir", a) < Rank("writeUnit", a)
      BY RanksOfArea DEF later
    <3> QED BY <3>1, Before DEF WriteUnit, SwitchStep
  <2>4. Held'
    <3>1. Records' /\ OnlyWhenTold' /\ DockerHasItsMounts'
      BY <1>1, <2>1 DEF Held, ToTheFolder, Records, DockerHasItsMounts, OnlyWhenTold
    <3>2. HeldFolder'
      BY <1>1, <1>2, <2>1, <2>3 DEF TypeOK, Held, ToTheFolder, HeldFolder, FolderInOrder
    <3> QED BY <1>1, <2>1, <3>1, <3>2 DEF Held, ToTheFolder
  <2>5. Left({"aside", "mkdir", "writeUnit", "writeDropIn", "mount"} \cup Rest)' /\ OwedIn(UndoFolder)'
    BY <1>1, <1>2, TakenOff DEF Left, OwedIn, ToTheFolder
  <2>6. CanGoHome(undos)'
    <3>1. CanGoHome(undos) /\ Owed("unwrite", a)
      BY <1>1, <2>3 DEF ToTheFolder, FolderInOrder
    <3> QED BY <3>1, <1>2, <2>1, <2>2 DEF TypeOK, CanGoHome
  <2>7. FolderInOrder'
    BY <1>1, <1>2, <2>1, <2>2, <2>3 DEF TypeOK, FolderInOrder
  <2>8. Fresh'
    <3>1. CASE Do("writeDropIn", a)
      BY <1>1, <1>2, <2>1, <2>3, <3>1 DEF TypeOK, ToTheFolder, FolderInOrder, Fresh, Held, HeldFolder, Going
    <3>2. CASE ~Do("writeDropIn", a)
      BY <1>1, <1>2, <2>1, <2>3, <3>2 DEF TypeOK, ToTheFolder, FolderInOrder, Fresh
    <3> QED BY <3>1, <3>2
  <2>9. ToTheFolder'
    BY <1>1, <2>1, <2>2, <2>5, <2>6, <2>7, <2>8 DEF ToTheFolder
  <2> QED BY <2>4, <2>9 DEF InScript, AMove
<1>3. CASE todo' = UndoSwitch /\ UNCHANGED <<fs, undos>>
  BY <1>1, <1>3, SwitchFails DEF WriteUnit, SwitchStep, run, mover, history
<1> QED BY <1>2, <1>3 DEF WriteUnit, SwitchStep

LEMMA WriteDropInStep ==
  ASSUME TypeOK, Held, InScript, NEW a \in Area, WriteDropIn(a)
  PROVE  Held' /\ InScript'
<1>1. ToTheFolder /\ FolderInOrder /\ Do("writeDropIn", a)
  BY StageOf DEF WriteDropIn, SwitchStep, At, ToTheFolder
<1>2. CASE Then("writeDropIn", a) /\ fs' = [fs EXCEPT ![a] = [fs[a] EXCEPT !.drop = TRUE]] /\ undos' = {} \cup undos
  <2>1. UNCHANGED <<unsynced, disk, docker, apps, state, file, cut, stuck, err, mixed, unnoted, blind, relisted, said, unstarted>>
    BY DEF WriteDropIn, SwitchStep, run, mover, history
  <2>2. /\ \A p, b : Do(p, b)' <=> Do(p, b) /\ ~(p = "writeDropIn" /\ b = a)
        /\ UNCHANGED undos
    BY <1>2, TakenOff
  <2>3. ~Do("aside", a) /\ ~Do("mkdir", a) /\ ~Do("writeUnit", a)
    <3>1. \A p \in {"aside", "mkdir", "writeUnit"} :
            Rank(p, a) \in Nat /\ Rank("writeDropIn", a) \in Nat /\ Rank(p, a) < Rank("writeDropIn", a)
      BY RanksOfArea DEF later
    <3> QED BY <3>1, Before DEF WriteDropIn, SwitchStep
  <2>4. Held'
    BY <1>1, <1>2, <2>1, <2>3
    DEF TypeOK, Held, ToTheFolder, Records, DockerHasItsMounts, OnlyWhenTold, HeldFolder, FolderInOrder, View
  <2>5. Left({"aside", "mkdir", "writeUnit", "writeDropIn", "mount"} \cup Rest)' /\ OwedIn(UndoFolder)'
    BY <1>1, <1>2, TakenOff DEF Left, OwedIn, ToTheFolder
  <2>6. CanGoHome(undos)'
    <3>1. CanGoHome(undos) /\ Owed("unwrite", a)
      BY <1>1, <2>3 DEF ToTheFolder, FolderInOrder
    <3> QED BY <3>1, <1>2, <2>1, <2>2 DEF TypeOK, CanGoHome
  <2>7. FolderInOrder'
    BY <1>1, <1>2, <2>1, <2>2, <2>3 DEF TypeOK, FolderInOrder
  <2>8. Fresh'
    BY <1>1, <1>2, <2>1, <2>3 DEF TypeOK, ToTheFolder, FolderInOrder, Fresh, Held, HeldFolder
  <2>9. ToTheFolder'
    BY <1>1, <2>1, <2>2, <2>5, <2>6, <2>7, <2>8 DEF ToTheFolder
  <2> QED BY <2>4, <2>9 DEF InScript, AMove
<1>3. CASE todo' = UndoSwitch /\ UNCHANGED <<fs, undos>>
  BY <1>1, <1>3, SwitchFails DEF WriteDropIn, SwitchStep, run, mover, history
<1> QED BY <1>2, <1>3 DEF WriteDropIn, SwitchStep

LEMMA MountStep ==
  ASSUME TypeOK, Held, InScript, NEW a \in Area, Mount(a)
  PROVE  Held' /\ InScript'
<1> DEFINE r == [Bound(fs[a]) EXCEPT !.on = TRUE]
<1>1. ToTheFolder /\ FolderInOrder /\ Do("mount", a)
  BY StageOf DEF Mount, At, ToTheFolder
<1>2. UNCHANGED <<unsynced, disk, docker, apps, state, file, cut, stuck, err, mixed, unnoted, blind, relisted, said, unstarted>>
  BY DEF Mount, Push, run, mover, history
<1>3. /\ \A p, b : Owed(p, b)' <=> Owed(p, b) \/ (p = "unmount" /\ b = a)
      /\ OwedIn(UndoFolder)'
  BY <1>1, StepIs DEF Mount, Push, OwedIn, UndoFolder, ToTheFolder
<1>4. ~Do("aside", a) /\ ~Do("mkdir", a) /\ ~Do("writeUnit", a) /\ ~Do("writeDropIn", a)
  <2>1. \A p \in {"aside", "mkdir", "writeUnit", "writeDropIn"} :
          Rank(p, a) \in Nat /\ Rank("mount", a) \in Nat /\ Rank(p, a) < Rank("mount", a)
    BY RanksOfArea DEF later
  <2> QED BY <2>1, Before DEF Mount
<1>5. /\ r.tgt = fs[a].tgt /\ r.old = fs[a].old /\ r.new = fs[a].new /\ r.live \in {"empty", fs[a].live}
      /\ r.unit = fs[a].unit /\ r.drop = fs[a].drop /\ r.mnt /\ r.on
  BY DEF TypeOK, Bound
<1> HIDE DEF r
<1>6. fs' \in {fs, [fs EXCEPT ![a] = r]}
  BY DEF Mount, r
<1>7. Held'
  BY <1>1, <1>2, <1>4, <1>5, <1>6
  DEF TypeOK, Held, ToTheFolder, Records, DockerHasItsMounts, OnlyWhenTold, HeldFolder, FolderInOrder, View
<1>8. Fresh'
  BY <1>1, <1>2, <1>4, <1>5, <1>6 DEF TypeOK, ToTheFolder, FolderInOrder, Fresh
<1>9. CanGoHome(undos)'
  <2>1. CanGoHome(undos) /\ fs[a].live # "data"
    BY <1>1, <1>4 DEF ToTheFolder, FolderInOrder
  <2> QED BY <2>1, <1>2, <1>3, <1>5, <1>6 DEF TypeOK, CanGoHome
<1>10. CASE Then("mount", a)
  <2>1. \A p, b : Do(p, b)' <=> Do(p, b) /\ ~(p = "mount" /\ b = a)
    BY <1>10, TakenOff
  <2>2. Left({"aside", "mkdir", "writeUnit", "writeDropIn", "mount"} \cup Rest)'
    BY <1>1, <1>10, TakenOff DEF Left, ToTheFolder
  <2>3. FolderInOrder'
    BY <1>1, <1>3, <1>4, <1>5, <1>6, <2>1 DEF TypeOK, FolderInOrder
  <2>4. ToTheFolder'
    BY <1>1, <1>2, <1>3, <1>8, <1>9, <2>1, <2>2, <2>3 DEF ToTheFolder
  <2> QED BY <1>7, <2>4 DEF InScript, AMove
<1>11. CASE todo' = {Step("undoing", "all"), Step("unmount", a)} \cup undos \cup All({"undone"})
  <2>1. \A p, b : Do(p, b)' <=> (p \in {"undoing", "undone"} /\ b = "all") \/ Owed(p, b)'
    BY <1>3, <1>11, InAll, StepIs
  <2>2. Left({"undoing", "undone"} \cup UndoFolder)'
    BY <1>1, <1>11, InAll, StepIs DEF Left, OwedIn, ToTheFolder, UndoFolder
  <2>3. CanGoHome(todo)'
    BY <1>9, <2>1 DEF CanGoHome
  <2>4. UndoingIt'
    BY <1>1, <1>2, <1>8, <2>1, <2>2, <2>3 DEF ToTheFolder, UndoingIt, CanUndo
  <2> QED BY <1>7, <2>4 DEF InScript, AMove
<1> QED BY <1>10, <1>11 DEF Mount

-----------------------------------------------------------------------------
(* The switch to the default place.                                        *)

\* A step of the switch can fail only while each mount and each enabling that
\* is to come back has its unit, or the undo that writes it.
LEMMA UnitsFirst ==
  ASSUME ToTheDefault, NEW o, NEW a, At(o, a),
         \/ o \in {"reload", "check"} /\ a = "all"
         \/ o \in {"stopMount", "removeLive", "rename"} /\ a \in Area
  PROVE  MountsHaveUnits(undos)
<1>1. \A b : Rank("dropUnit", b) \in Nat /\ Rank(o, a) \in Nat
  BY RanksOfAll, RanksOfArea DEF later
<1>2. \A b \in Area : (b # a /\ a # "containerd") \/ (b = a /\ o # "stopMount") => ~Do("dropUnit", b)
  <2>1. \A b \in Area : (b # a /\ a # "containerd") \/ (b = a /\ o # "stopMount")
          => Rank("dropUnit", b) < Rank(o, a)
    BY RanksOfAll, RanksOfArea DEF later
  <2> QED BY <1>1, <2>1, Before
<1>3. DefaultInOrder /\ (Do("rename", "containerd") /\ Do("dropUnit", "docker") => Do("stopMount", "docker"))
  BY DEF ToTheDefault
<1>4. Do(o, a)
  BY DEF At
<1> QED BY <1>2, <1>3, <1>4 DEF DefaultInOrder, MountsHaveUnits

LEMMA StopMountStep ==
  ASSUME TypeOK, Held, InScript, NEW a \in Area, StopMount(a)
  PROVE  Held' /\ InScript'
<1>1. ToTheDefault /\ DefaultInOrder /\ Do("stopMount", a)
  BY StageOf DEF StopMount, SwitchStep, At, ToTheDefault
<1>2. CASE /\ Then("stopMount", a) /\ fs' = [fs EXCEPT ![a] = [fs[a] EXCEPT !.mnt = FALSE]]
           /\ undos' = PerArea({"remount"}, {a}) \cup undos
  <2>1. UNCHANGED <<unsynced, disk, docker, apps, state, file, cut, stuck, err, mixed, unnoted, blind, relisted, said, unstarted>>
    BY DEF StopMount, SwitchStep, run, mover, history
  <2>2. /\ \A p, b : Do(p, b)' <=> Do(p, b) /\ ~(p = "stopMount" /\ b = a)
        /\ \A p, b : Owed(p, b)' <=> Owed(p, b) \/ (p = "remount" /\ b = a)
    BY <1>2, TakenOff, InPerArea
  <2>3. a = "docker" => ~Do("rename", "containerd")
    <3>1. a = "docker" => /\ Rank("rename", "containerd") \in Nat /\ Rank("stopMount", a) \in Nat
                          /\ Rank("rename", "containerd") < Rank("stopMount", a)
      BY RanksOfArea DEF later
    <3> QED BY <3>1, Before DEF StopMount, SwitchStep
  <2>4. Do("disable", a) /\ Do("dropUnit", a) /\ Do("rename", a) /\ fs[a].live # "data"
    BY <1>1 DEF DefaultInOrder
  <2>5. Held'
    BY <1>1, <1>2, <2>1, <2>4
    DEF TypeOK, Held, ToTheDefault, Records, DockerHasItsMounts, OnlyWhenTold, HeldDefault, View
  <2>6. Left({"stopMount", "disable", "dropUnit", "removeLive", "rename"} \cup Rest)' /\ OwedIn(UndoDefault)'
    BY <1>1, <1>2, TakenOff, InPerArea DEF Left, OwedIn, ToTheDefault, UndoDefault
  <2>7. CanGoBack(undos)'
    <3>1. CanGoBack(undos)
      BY <1>1 DEF ToTheDefault
    <3> QED BY <3>1, <1>2, <2>1, <2>2, <2>4 DEF TypeOK, CanGoBack
  <2>8. DefaultInOrder'
    BY SMTT(30), <1>1, <1>2, <2>1, <2>2, <2>4 DEF TypeOK, DefaultInOrder
  <2>9. AllOrNone'
    <3>1. AllOrNone
      BY <1>1 DEF ToTheDefault
    <3> QED BY <3>1, <1>2, <2>2, <2>4 DEF TypeOK, AllOrNone
  <2>10. Fresh'
    BY <1>1, <1>2, <2>1 DEF TypeOK, ToTheDefault, Fresh
  <2>11. ToTheDefault'
    BY <1>1, <2>1, <2>2, <2>3, <2>6, <2>7, <2>8, <2>9, <2>10 DEF ToTheDefault
  <2> QED BY <2>5, <2>11 DEF InScript, AMove
<1>3. CASE todo' = UndoSwitch /\ UNCHANGED <<fs, undos>>
  <2>1. MountsHaveUnits(undos)
    BY <1>1, UnitsFirst DEF StopMount, SwitchStep
  <2> QED BY <1>1, <1>3, <2>1, SwitchFails DEF StopMount, SwitchStep, run, mover, history
<1> QED BY <1>2, <1>3 DEF StopMount, SwitchStep

LEMMA DisableStep ==
  ASSUME TypeOK, Held, InScript, NEW a \in Area, Disable(a)
  PROVE  Held' /\ InScript'
<1>1. ToTheDefault /\ DefaultInOrder /\ Do("disable", a)
  BY StageOf DEF Disable, At, ToTheDefault
<1>2. fs' = [fs EXCEPT ![a].on = FALSE]
  BY DEF Disable
<1>3. UNCHANGED <<unsynced, disk, docker, apps, state, file, cut, stuck, err, mixed, unnoted, blind, relisted, said, unstarted>>
  BY DEF Disable, Push, run, mover, past, history
<1>4. /\ \A p, b : Do(p, b)' <=> Do(p, b) /\ ~(p = "disable" /\ b = a)
      /\ \A p, b : Owed(p, b)' <=> Owed(p, b) \/ (p = "enable" /\ b = a)
  BY TakenOff, StepIs DEF Disable, Push
<1>5. ~Do("stopMount", a)
  <2>1. Rank("stopMount", a) \in Nat /\ Rank("disable", a) \in Nat /\ Rank("stopMount", a) < Rank("disable", a)
    BY RanksOfArea DEF later
  <2> QED BY <2>1, Before DEF Disable
<1>6. Do("dropUnit", a) /\ Do("rename", a) /\ fs[a].live # "data"
  BY <1>1 DEF DefaultInOrder
<1>7. Held'
  BY <1>1, <1>2, <1>3, <1>6
  DEF TypeOK, Held, ToTheDefault, Records, DockerHasItsMounts, OnlyWhenTold, HeldDefault, View
<1>8. Left({"stopMount", "disable", "dropUnit", "removeLive", "rename"} \cup Rest)' /\ OwedIn(UndoDefault)'
  BY <1>1, TakenOff, StepIs DEF Disable, Push, Left, OwedIn, ToTheDefault, UndoDefault
<1>9. CanGoBack(undos)'
  <2>1. CanGoBack(undos)
    BY <1>1 DEF ToTheDefault
  <2> QED BY <2>1, <1>2, <1>3, <1>4, <1>6 DEF TypeOK, CanGoBack
<1>10. DefaultInOrder'
  BY <1>1, <1>2, <1>4, <1>5, <1>6 DEF TypeOK, DefaultInOrder
<1>11. AllOrNone'
  <2>1. AllOrNone
    BY <1>1 DEF ToTheDefault
  <2> QED BY <2>1, <1>2, <1>4, <1>6 DEF TypeOK, AllOrNone
<1>12. Fresh'
  BY <1>1, <1>2, <1>3 DEF TypeOK, ToTheDefault, Fresh
<1>13. ToTheDefault'
  BY <1>1, <1>3, <1>4, <1>8, <1>9, <1>10, <1>11, <1>12 DEF ToTheDefault
<1> QED BY <1>7, <1>13 DEF InScript, AMove

LEMMA DropUnitStep ==
  ASSUME TypeOK, Held, InScript, NEW a \in Area, DropUnit(a)
  PROVE  Held' /\ InScript'
<1>1. ToTheDefault /\ DefaultInOrder /\ AllOrNone /\ Do("dropUnit", a)
  BY StageOf DEF DropUnit, At, ToTheDefault
<1>2. fs' = [fs EXCEPT ![a] = [fs[a] EXCEPT !.unit = FALSE, !.drop = FALSE]]
  BY DEF DropUnit, TypeOK
<1>3. UNCHANGED <<unsynced, disk, docker, apps, state, file, cut, stuck, err, mixed, unnoted, blind, relisted, said, unstarted>>
  BY DEF DropUnit, Push, run, mover, past, history
<1>4. /\ \A p, b : Do(p, b)' <=> Do(p, b) /\ ~(p = "dropUnit" /\ b = a)
      /\ \A p, b : Owed(p, b)' <=> Owed(p, b) \/ (p = "rewrite" /\ b = a)
  BY TakenOff, StepIs DEF DropUnit, Push
<1>5. ~Do("stopMount", a) /\ ~Do("disable", a)
  <2>1. \A p \in {"stopMount", "disable"} :
          Rank(p, a) \in Nat /\ Rank("dropUnit", a) \in Nat /\ Rank(p, a) < Rank("dropUnit", a)
    BY RanksOfArea DEF later
  <2> QED BY <2>1, Before DEF DropUnit
<1>6. Do("rename", a) /\ fs[a].live # "data" /\ ~fs[a].mnt /\ ~fs[a].on
  BY <1>1, <1>5 DEF DefaultInOrder
<1>7. Held'
  <2>1. \E b \in Area : fs[b].new # "none"
    BY <1>1, <1>6 DEF AllOrNone
  <2> QED
    BY <1>1, <1>2, <1>3, <1>6, <2>1
    DEF TypeOK, Held, ToTheDefault, Records, DockerHasItsMounts, OnlyWhenTold, HeldDefault, View
<1>8. Left({"stopMount", "disable", "dropUnit", "removeLive", "rename"} \cup Rest)' /\ OwedIn(UndoDefault)'
  BY <1>1, TakenOff, StepIs DEF DropUnit, Push, Left, OwedIn, ToTheDefault, UndoDefault
<1>9. CanGoBack(undos)'
  <2>1. CanGoBack(undos)
    BY <1>1 DEF ToTheDefault
  <2> QED BY <2>1, <1>2, <1>3, <1>4, <1>6 DEF TypeOK, CanGoBack
<1>10. DefaultInOrder'
  BY <1>1, <1>2, <1>4, <1>5, <1>6 DEF TypeOK, DefaultInOrder
<1>11. AllOrNone'
  BY <1>1, <1>2, <1>4, <1>6 DEF TypeOK, AllOrNone
<1>12. Fresh'
  BY <1>1, <1>2, <1>3 DEF TypeOK, ToTheDefault, Fresh
<1>13. ToTheDefault'
  BY <1>1, <1>3, <1>4, <1>8, <1>9, <1>10, <1>11, <1>12 DEF ToTheDefault
<1> QED BY <1>7, <1>13 DEF InScript, AMove

LEMMA RemoveLiveStep ==
  ASSUME TypeOK, Held, InScript, NEW a \in Area, RemoveLive(a)
  PROVE  Held' /\ InScript'
<1>1. ToTheDefault /\ DefaultInOrder /\ AllOrNone /\ Do("removeLive", a)
  BY StageOf DEF RemoveLive, At, ToTheDefault
<1>2. UNCHANGED <<unsynced, disk, docker, apps, state, file, cut, undos, stuck, err, mixed, unnoted, blind, relisted, said, unstarted>>
  BY DEF RemoveLive, KeepUndo, run, mover, past, history
<1>3. CASE /\ fs[a].live = "empty" /\ ~fs[a].mnt
           /\ Then("removeLive", a) /\ fs' = [fs EXCEPT ![a].live = "none"]
  <2>1. \A p, b : Do(p, b)' <=> Do(p, b) /\ ~(p = "removeLive" /\ b = a)
    BY <1>3, TakenOff
  <2>2. ~Do("dropUnit", a)
    <3>1. /\ Rank("dropUnit", a) \in Nat /\ Rank("removeLive", a) \in Nat
          /\ Rank("dropUnit", a) < Rank("removeLive", a)
      BY RanksOfArea DEF later
    <3> QED BY <3>1, Before DEF RemoveLive
  <2>3. Do("rename", a) /\ \A b \in Area : IF Do("rename", b) THEN fs[b].new = "data" ELSE Returned(fs[b])
    BY <1>1, <1>3 DEF DefaultInOrder, AllOrNone
  <2>4. Held'
    BY <1>1, <1>2, <1>3, <2>3
    DEF TypeOK, Held, ToTheDefault, Records, DockerHasItsMounts, OnlyWhenTold, HeldDefault, View
  <2>5. Left({"stopMount", "disable", "dropUnit", "removeLive", "rename"} \cup Rest)' /\ OwedIn(UndoDefault)'
    BY <1>1, <1>2, <1>3, TakenOff DEF Left, OwedIn, ToTheDefault
  <2>6. CanGoBack(undos)'
    <3>1. CanGoBack(undos)
      BY <1>1 DEF ToTheDefault
    <3> QED BY <3>1, <1>2, <1>3 DEF TypeOK, CanGoBack
  <2>7. DefaultInOrder'
    BY <1>1, <1>2, <1>3, <2>1, <2>2, <2>3 DEF TypeOK, DefaultInOrder
  <2>8. AllOrNone'
    BY <1>3, <2>1, <2>3 DEF TypeOK, AllOrNone
  <2>9. Fresh'
    BY <1>1, <1>2, <1>3 DEF TypeOK, ToTheDefault, Fresh
  <2>10. ToTheDefault'
    BY <1>1, <1>2, <2>1, <2>5, <2>6, <2>7, <2>8, <2>9 DEF ToTheDefault
  <2> QED BY <2>4, <2>10 DEF InScript, AMove
<1>4. CASE todo' = UndoSwitch /\ UNCHANGED fs
  <2>1. MountsHaveUnits(undos)
    BY <1>1, UnitsFirst DEF RemoveLive
  <2> QED BY <1>1, <1>2, <1>4, <2>1, SwitchFails
<1> QED BY <1>3, <1>4 DEF RemoveLive

LEMMA RenameNewStep ==
  ASSUME TypeOK, Held, InScript, NEW a \in Area, RenameNew(a)
  PROVE  Held' /\ InScript'
<1>1. ToTheDefault /\ DefaultInOrder /\ AllOrNone /\ Do("rename", a)
  BY StageOf DEF RenameNew, At, ToTheDefault
<1>2. UNCHANGED <<unsynced, disk, docker, apps, state, file, cut, stuck, err, mixed, unnoted, blind, relisted, said, unstarted>>
  BY DEF RenameNew, Push, KeepUndo, run, mover, history
<1>3. ~Do("stopMount", a) /\ ~Do("disable", a) /\ ~Do("dropUnit", a) /\ ~Do("removeLive", a)
  <2>1. \A p \in {"stopMount", "disable", "dropUnit", "removeLive"} :
          Rank(p, a) \in Nat /\ Rank("rename", a) \in Nat /\ Rank(p, a) < Rank("rename", a)
    BY RanksOfArea DEF later
  <2> QED BY <2>1, Before DEF RenameNew
<1>4. NoFlags(fs[a]) /\ fs[a].new = "data" /\ fs[a].live # "data"
  BY <1>1, <1>3 DEF DefaultInOrder
<1>5. \A b \in Area : IF Do("rename", b) THEN fs[b].new = "data" ELSE Returned(fs[b])
  BY <1>1, <1>3 DEF AllOrNone
<1>6. CASE /\ Then("rename", a) /\ undos' = undos \cup {Step("moveAside", a)}
           /\ fs' = [fs EXCEPT ![a] = [fs[a] EXCEPT !.live = fs[a].new, !.new = "none"]]
  <2>1. /\ \A p, b : Do(p, b)' <=> Do(p, b) /\ ~(p = "rename" /\ b = a)
        /\ \A p, b : Owed(p, b)' <=> Owed(p, b) \/ (p = "moveAside" /\ b = a)
    BY <1>6, TakenOff, StepIs
  <2>2. \A b \in Area : IF Do("rename", b)' THEN fs'[b].new = "data" ELSE Returned(fs'[b])
    BY <1>4, <1>5, <1>6, <2>1 DEF TypeOK
  <2>3. Held'
    BY <1>1, <1>2, <1>4, <1>6, <2>2
    DEF TypeOK, Held, ToTheDefault, Records, DockerHasItsMounts, OnlyWhenTold, HeldDefault, View
  <2>4. Left({"stopMount", "disable", "dropUnit", "removeLive", "rename"} \cup Rest)' /\ OwedIn(UndoDefault)'
    BY <1>1, <1>6, TakenOff, StepIs DEF Left, OwedIn, ToTheDefault, UndoDefault
  <2>5. CanGoBack(undos)'
    <3>1. CanGoBack(undos)
      BY <1>1 DEF ToTheDefault
    <3> QED BY <3>1, <1>2, <1>4, <1>6, <2>1 DEF TypeOK, CanGoBack
  <2>6. DefaultInOrder'
    BY <1>1, <1>2, <1>3, <1>6, <2>1 DEF TypeOK, DefaultInOrder
  <2>7. AllOrNone'
    BY <2>2 DEF AllOrNone
  <2>8. Fresh'
    BY <1>1, <1>2, <1>6 DEF TypeOK, ToTheDefault, Fresh
  <2>9. ToTheDefault'
    BY <1>1, <1>2, <2>1, <2>4, <2>5, <2>6, <2>7, <2>8 DEF ToTheDefault
  <2> QED BY <2>3, <2>9 DEF InScript, AMove
<1>7. CASE todo' = UndoSwitch /\ UNCHANGED undos /\ fs' = [fs EXCEPT ![a] = [fs[a] EXCEPT !.live = "empty"]]
  <2>1. \A p, b : Do(p, b)' <=> (p \in {"undoing", "undone"} /\ b = "all") \/ Owed(p, b)
    BY <1>7, InUndoSwitch
  <2>2. Left({"undoing", "undone"} \cup UndoDefault)'
    BY <1>1, <1>7, InUndoSwitch DEF Left, ToTheDefault
  <2>3. Held'
    BY <1>1, <1>2, <1>4, <1>7
    DEF TypeOK, Held, ToTheDefault, Records, DockerHasItsMounts, OnlyWhenTold, HeldDefault, View
  <2>4. CanGoBack(todo)' /\ MountsHaveUnits(todo)'
    <3>1. CanGoBack(undos) /\ MountsHaveUnits(undos)
      BY <1>1, UnitsFirst DEF ToTheDefault, RenameNew
    <3> QED BY <3>1, <1>2, <1>4, <1>7, <2>1 DEF TypeOK, CanGoBack, MountsHaveUnits
  <2>5. Fresh'
    BY <1>1, <1>2, <1>7 DEF TypeOK, ToTheDefault, Fresh
  <2>6. UndoingIt'
    BY <1>1, <1>2, <2>1, <2>2, <2>4, <2>5 DEF ToTheDefault, UndoingIt, CanUndo
  <2> QED BY <2>3, <2>6 DEF InScript, AMove
<1> QED BY <1>6, <1>7 DEF RenameNew, Push, KeepUndo, TypeOK

-----------------------------------------------------------------------------
(* The end of a move.                                                      *)

LEMMA ReloadStep ==
  ASSUME TypeOK, Held, InScript, Reload
  PROVE  Held' /\ InScript'
<1>1. (ToTheFolder \/ ToTheDefault) /\ Do("reload", "all")
  BY StageOf DEF Reload, At
<1>2. UNCHANGED <<fs, unsynced, disk, docker, apps, state, file, cut, undos, stuck, err, mixed, unnoted, blind, relisted, said, unstarted>>
  BY DEF Reload, KeepUndo, disks, run, mover, history
<1>3. CASE Then("reload", "all")
  <2>1. \A p, b : Do(p, b)' <=> Do(p, b) /\ ~(p = "reload" /\ b = "all")
    BY <1>3, TakenOff
  <2>2. Held'
    BY <1>1, <1>2, HeldStays DEF ToTheFolder, ToTheDefault
  <2>3. CASE ToTheFolder
    <3>1. Left({"aside", "mkdir", "writeUnit", "writeDropIn", "mount"} \cup Rest)'
      BY <1>3, <2>3, TakenOff DEF Left, ToTheFolder
    <3>2. CanGoHome(undos)' /\ FolderInOrder' /\ Fresh' /\ OwedIn(UndoFolder)'
      BY <1>2, <2>1, <2>3 DEF ToTheFolder, CanGoHome, FolderInOrder, Fresh, OwedIn
    <3>3. ToTheFolder'
      BY <1>2, <2>1, <2>3, <3>1, <3>2 DEF ToTheFolder
    <3> QED BY <2>2, <3>3 DEF InScript, AMove
  <2>4. CASE ToTheDefault
    <3>1. Left({"stopMount", "disable", "dropUnit", "removeLive", "rename"} \cup Rest)'
      BY <1>3, <2>4, TakenOff DEF Left, ToTheDefault
    <3>2. CanGoBack(undos)' /\ DefaultInOrder' /\ AllOrNone' /\ Fresh' /\ OwedIn(UndoDefault)'
      BY <1>2, <2>1, <2>4 DEF ToTheDefault, CanGoBack, DefaultInOrder, AllOrNone, Fresh, OwedIn
    <3>3. ToTheDefault'
      BY <1>2, <2>1, <2>4, <3>1, <3>2 DEF ToTheDefault
    <3> QED BY <2>2, <3>3 DEF InScript, AMove
  <2> QED BY <1>1, <2>3, <2>4
<1>4. CASE todo' = UndoSwitch
  <2>1. ToTheFolder \/ (ToTheDefault /\ MountsHaveUnits(undos))
    BY <1>1, UnitsFirst DEF Reload
  <2> QED BY <1>2, <1>4, <2>1, SwitchFails
<1> QED BY <1>3, <1>4 DEF Reload

LEMMA CheckStep ==
  ASSUME TypeOK, Held, InScript, Check
  PROVE  Held' /\ InScript'
<1>1. (ToTheFolder \/ ToTheDefault) /\ Do("check", "all") /\ Going
  BY StageOf DEF Check, At, ToTheFolder, ToTheDefault
<1>2. UNCHANGED <<fs, unsynced, disk, docker, apps, cut, undos, stuck, err, mixed, unnoted, blind, relisted, said, unstarted>>
  BY DEF Check, KeepUndo, disks, run, past, history
<1>3. CASE Then("check", "all") /\ Set([state EXCEPT !.phase = "starting"])
  <2>1. \A p, b : Do(p, b)' <=> Do(p, b) /\ ~(p = "check" /\ b = "all")
    BY <1>3, TakenOff
  <2>2. state = file /\ file' = [file EXCEPT !.phase = "starting"] /\ state' = file'
    BY <1>1, <1>3, OneRecord DEF Set
  <2>3. /\ Going' /\ file'.phase = "starting" /\ ~file'.undoing
        /\ file'.target = file.target /\ file'.noted = file.noted
    BY <1>1, <1>2, <2>2 DEF TypeOK, MoveState, ToTheFolder, ToTheDefault
  <2>4. \A p : p \in {"aside", "mkdir", "writeUnit", "writeDropIn", "mount",
                      "stopMount", "disable", "dropUnit", "removeLive", "rename"} => \A b : ~Do(p, b)
    <3>1. \A p, b : p \in {"aside", "mkdir", "writeUnit", "writeDropIn", "mount",
                           "stopMount", "disable", "dropUnit", "removeLive", "rename"}
            => Rank(p, b) \in Nat /\ Rank("check", "all") \in Nat /\ Rank(p, b) < Rank("check", "all")
      BY RanksOfAll, RanksOfArea DEF later
    <3> QED BY <3>1, Before DEF Check
  <2>5. ~Do("reload", "all")
    BY Before, RanksOfAll DEF Check
  <2>6. Left({"startServices", "verify", "finish"})'
    <3> SUFFICES ASSUME NEW s \in todo'
                 PROVE  s.op \in {"startServices", "verify", "finish"}
      BY DEF Left
    <3>1. s \in todo /\ s # Step("check", "all")
      BY <1>3 DEF Then
    <3>2. s.op \in {"aside", "mkdir", "writeUnit", "writeDropIn", "mount",
                    "stopMount", "disable", "dropUnit", "removeLive", "rename"} \cup Rest
      BY <1>1, <3>1 DEF Left, ToTheFolder, ToTheDefault
    <3>3. s.op \in {"reload", "check"} => s = Step(s.op, "all")
      BY <3>1, StepLeft DEF AreaOps
    <3> QED BY <2>4, <2>5, <3>1, <3>2, <3>3, StepLeft DEF Rest
  <2>7. ToTheFolder => \A a \in Area : Foldered(fs[a]) /\ Owed("unmount", a)
    BY <2>4 DEF Held, HeldFolder, ToTheFolder, FolderInOrder
  <2>8. ToTheDefault => (\A a \in Area : Returned(fs[a])) /\ MountsHaveUnits(undos)
    BY <2>4, UnitsFirst DEF Check, ToTheDefault, AllOrNone
  <2>9. Held'
    BY <1>1, <1>2, <2>2, <2>7, <2>8
    DEF TypeOK, MoveState, Held, ToTheFolder, ToTheDefault, Records, DockerHasItsMounts, OnlyWhenTold,
        HeldFolder, HeldDefault, View
  <2>10. OwedRight' /\ CanUndo(undos)' /\ Fresh'
    BY <1>1, <1>2, <2>3, <2>8
    DEF ToTheFolder, ToTheDefault, OwedRight, OwedIn, CanUndo, CanGoHome, CanGoBack, MountsHaveUnits, Fresh
  <2>11. Starting'
    BY <1>1, <1>2, <2>1, <2>3, <2>6, <2>7, <2>10 DEF ToTheFolder, ToTheDefault, Starting
  <2> QED BY <2>9, <2>11 DEF InScript, AMove
<1>4. CASE todo' = UndoSwitch /\ UNCHANGED <<state, file>>
  <2>1. ToTheFolder \/ (ToTheDefault /\ MountsHaveUnits(undos))
    BY <1>1, UnitsFirst DEF Check
  <2> QED BY <1>2, <1>4, <2>1, SwitchFails
<1> QED BY <1>3, <1>4 DEF Check

\* A bind mount makes its mount point, and nothing else.
LEMMA BoundIs ==
  ASSUME NEW r \in Folders
  PROVE  /\ Bound(r) \in Folders
         /\ Bound(r).mnt /\ Bound(r).live = IF r.live = "none" THEN "empty" ELSE r.live
         /\ Bound(r).old = r.old /\ Bound(r).new = r.new /\ Bound(r).tgt = r.tgt
         /\ Bound(r).unit = r.unit /\ Bound(r).drop = r.drop /\ Bound(r).on = r.on
BY DEF Bound, Content

\* Docker starts on what it finds: it writes only where there is nothing, and
\* on every mount that is asked for.
LEMMA StartedIs ==
  ASSUME NEW f \in [Area -> Folders], NEW a \in Area
  PROVE  LET s == Started(f)[a] IN
         /\ s.old = f[a].old /\ s.new = f[a].new
         /\ s.unit = f[a].unit /\ s.drop = f[a].drop /\ s.on = f[a].on
         /\ Home(f[a]) => s = f[a]
         /\ Moved(f[a]) => Moved(s)
         /\ f[a].mnt => s.mnt
         /\ s.mnt => f[a].mnt \/ Asked(f[a])
         /\ f[a].tgt \notin {"none", "empty"} => s.tgt = f[a].tgt
         /\ f[a].live # "data" => s.live # "data"
         /\ Asked(s) => s.mnt
         /\ ~EmptyOrMissing(IF s.mnt THEN s.tgt ELSE s.live)
         /\ s \in Folders
<1> DEFINE r == IF a \in Needs(f) THEN Bound(f[a]) ELSE f[a]
           s == Started(f)[a]
<1>1. s = Filled(r)
  BY DEF Started
<1>2. /\ r \in Folders /\ r.tgt = f[a].tgt /\ r.old = f[a].old /\ r.new = f[a].new
      /\ r.unit = f[a].unit /\ r.drop = f[a].drop /\ r.on = f[a].on
      /\ (f[a].mnt => r.mnt) /\ (r.mnt => f[a].mnt \/ Asked(f[a]))
      /\ r.live # f[a].live => f[a].live = "none" /\ r.live = "empty"
      /\ Home(f[a]) => r = f[a]
      /\ Asked(r) => r.mnt
  BY BoundIs DEF Needs
<1> HIDE DEF r
<1>3. /\ s.old = r.old /\ s.new = r.new /\ s.mnt = r.mnt
      /\ s.unit = r.unit /\ s.drop = r.drop /\ s.on = r.on
      /\ s.tgt = IF r.mnt /\ EmptyOrMissing(r.tgt) THEN "boot" ELSE r.tgt
      /\ s.live = IF ~r.mnt /\ EmptyOrMissing(r.live) THEN "boot" ELSE r.live
  BY <1>1, <1>2 DEF Filled
<1>4. Home(f[a]) => s = f[a]
  BY <1>1, <1>2 DEF Filled
<1>5. s \in Folders
  BY <1>1, <1>2 DEF Filled, Content
<1> HIDE DEF s
<1>6. /\ s.old = f[a].old /\ s.new = f[a].new
      /\ s.unit = f[a].unit /\ s.drop = f[a].drop /\ s.on = f[a].on
      /\ Moved(f[a]) => Moved(s)
      /\ f[a].mnt => s.mnt
      /\ s.mnt => f[a].mnt \/ Asked(f[a])
      /\ f[a].tgt \notin {"none", "empty"} => s.tgt = f[a].tgt
      /\ f[a].live # "data" => s.live # "data"
      /\ Asked(s) => s.mnt
      /\ ~EmptyOrMissing(IF s.mnt THEN s.tgt ELSE s.live)
  BY <1>2, <1>3
<1> USE DEF s
<1> QED BY <1>4, <1>5, <1>6

\* A start of Docker, whether it is one that fails or not.
StartTry ==
  /\ docker' \in BOOLEAN /\ fs' \in [Area -> Folders]
  /\ \A a \in Area : fs'[a] \in {fs[a], Started(fs)[a]}
  /\ docker' => fs' = Started(fs)
  /\ unstarted' \in BOOLEAN

LEMMA StartIsATry ==
  ASSUME TypeOK, StartDocker \/ Restart
  PROVE  StartTry
<1>1. fs \in [Area -> Folders] /\ \A a \in Area : Started(fs)[a] \in Folders
  BY StartedIs DEF TypeOK
<1>2. Started(fs) = [a \in Area |-> Started(fs)[a]]
  BY DEF Started
<1>3. CASE docker' = TRUE /\ fs' = Started(fs) /\ unstarted' \in BOOLEAN
  BY <1>1, <1>2, <1>3 DEF StartTry
<1>4. ASSUME NEW S, fs' = [a \in Area |-> IF a \in S THEN Started(fs)[a] ELSE fs[a]],
             ~docker, UNCHANGED docker, unstarted' = Startable(fs, disk)
      PROVE  StartTry
  <2>1. fs' \in [Area -> Folders] /\ \A a \in Area : fs'[a] \in {fs[a], Started(fs)[a]}
    BY <1>1, <1>4
  <2>2. unstarted' \in BOOLEAN /\ docker' = FALSE
    BY <1>4 DEF Startable, TypeOK
  <2> QED BY <2>1, <2>2 DEF StartTry
<1>5. CASE StartDocker
  BY <1>3, <1>4, <1>5 DEF StartDocker
<1>6. CASE Restart
  BY <1>3, <1>5, <1>6 DEF Restart
<1> QED BY <1>5, <1>6

LEMMA StartKeeps ==
  ASSUME TypeOK, StartTry, NEW a \in Area
  PROVE  /\ fs'[a].old = fs[a].old /\ fs'[a].new = fs[a].new
         /\ fs'[a].unit = fs[a].unit /\ fs'[a].drop = fs[a].drop /\ fs'[a].on = fs[a].on
         /\ Home(fs[a]) => fs'[a] = fs[a]
         /\ Moved(fs[a]) => Moved(fs'[a])
         /\ fs[a].mnt => fs'[a].mnt
         /\ fs[a].tgt \notin {"none", "empty"} => fs'[a].tgt = fs[a].tgt
         /\ fs[a].live # "data" => fs'[a].live # "data"
<1>1. fs'[a] \in {fs[a], Started(fs)[a]}
  BY DEF StartTry
<1>2. fs \in [Area -> Folders]
  BY DEF TypeOK
<1> QED BY <1>1, <1>2, StartedIs

LEMMA StartMounts ==
  ASSUME TypeOK, StartTry, DockerHasItsMounts
  PROVE  DockerHasItsMounts'
<1>1. CASE ~docker'
  BY <1>1 DEF DockerHasItsMounts
<1>2. CASE fs' = Started(fs)
  BY <1>2, StartedIs DEF DockerHasItsMounts, View, TypeOK
<1> QED BY <1>1, <1>2 DEF StartTry, TypeOK

LEMMA HeldAfterStart ==
  ASSUME TypeOK, Held, Busy(file), StartTry,
         UNCHANGED <<unsynced, disk, state, file, cut, mixed, relisted, said>>
  PROVE  Held'
<1>1. DockerHasItsMounts'
  BY StartMounts DEF Held
<1>2. Records' /\ OnlyWhenTold'
  BY DEF Held, Records, OnlyWhenTold
<1>3. ToFolder => HeldFolder'
  <2>1. \A a \in Area :
          /\ fs'[a].old = fs[a].old /\ fs'[a].unit = fs[a].unit /\ fs'[a].drop = fs[a].drop
          /\ Home(fs[a]) => fs'[a] = fs[a]
          /\ Moved(fs[a]) => Moved(fs'[a])
          /\ fs[a].mnt => fs'[a].mnt
          /\ fs[a].tgt = "data" => fs'[a].tgt = "data"
    BY StartKeeps
  <2> QED BY <2>1 DEF Held, HeldFolder
<1>4. ToDefault => HeldDefault'
  <2>1. \A a \in Area :
          /\ fs'[a].new = fs[a].new /\ fs'[a].unit = fs[a].unit /\ fs'[a].drop = fs[a].drop
          /\ Home(fs[a]) => fs'[a] = fs[a]
          /\ Moved(fs[a]) => Moved(fs'[a])
          /\ fs[a].tgt \in {"data", "stale"} => fs'[a].tgt = fs[a].tgt
    BY StartKeeps
  <2> QED BY <2>1 DEF Held, HeldDefault
<1> QED BY <1>1, <1>2, <1>3, <1>4 DEF Held

LEMMA StartServicesStep ==
  ASSUME TypeOK, Held, InScript, StartServices
  PROVE  Held' /\ InScript'
<1>1. UNCHANGED <<unsynced, disk, apps, state, file, cut, undos, stuck, err, mixed, unnoted, blind, relisted, said>>
  BY DEF StartServices, KeepUndo, mover, past, history
<1>2. \A p, b : Do(p, b)' <=> Do(p, b) /\ ~(p = "startServices" /\ b = "all")
  BY TakenOff DEF StartServices
<1>3. StartTry
  BY StartIsATry DEF StartServices
<1>4. Starting \/ Keeping
  <2>1. ~Do("check", "all")
    BY Before, RanksOfAll DEF StartServices
  <2> QED BY <2>1, StageOf DEF StartServices, At, ToTheFolder, ToTheDefault
<1>5. Held'
  BY <1>1, <1>3, <1>4, HeldAfterStart DEF Starting, Keeping, Recovering
<1>6. \A a \in Area :
        /\ fs'[a].old = fs[a].old /\ fs'[a].new = fs[a].new
        /\ fs'[a].unit = fs[a].unit /\ fs'[a].drop = fs[a].drop
        /\ Home(fs[a]) => fs'[a] = fs[a]
        /\ Moved(fs[a]) => Moved(fs'[a])
        /\ fs[a].tgt \notin {"none", "empty"} => fs'[a].tgt = fs[a].tgt
        /\ fs[a].live # "data" => fs'[a].live # "data"
  BY <1>3, StartKeeps
<1>7. CASE Starting
  <2>1. Left({"startServices", "verify", "finish"})'
    BY <1>7, TakenOff DEF StartServices, Left, Starting
  <2>2. file.target = "folder" => \A a \in Area : Foldered(fs[a]) /\ Owed("unmount", a)
    BY <1>7, OneRecord DEF Starting, Held, HeldFolder
  <2>3. file.target # "folder" => \A a \in Area : Returned(fs[a])
    BY <1>7, OneRecord DEF Starting, Held, HeldDefault
  <2>4. CanUndo(undos)'
    <3>1. CASE file.target = "folder"
      <4>1. CanGoHome(undos)
        BY <1>7, <3>1 DEF Starting, CanUndo
      <4> QED BY <1>1, <1>6, <2>2, <3>1, <4>1 DEF CanUndo, CanGoHome
    <3>2. CASE file.target # "folder"
      <4>1. CanGoBack(undos) /\ MountsHaveUnits(undos)
        BY <1>7, <3>2 DEF Starting, CanUndo
      <4> QED BY <1>1, <1>6, <2>3, <3>2, <4>1 DEF CanUndo, CanGoBack, MountsHaveUnits
    <3> QED BY <3>1, <3>2
  <2>5. Fresh'
    BY <1>1, <1>6, <1>7, <2>2 DEF Starting, Fresh
  <2>6. OwedRight'
    BY <1>1, <1>7 DEF Starting, OwedRight, OwedIn
  <2>7. Do("verify", "all")'
    BY <1>2, <1>7 DEF Starting, StartServices, At
  <2>8. Starting'
    BY <1>1, <1>2, <1>7, <2>1, <2>2, <2>4, <2>5, <2>6, <2>7 DEF Starting
  <2> QED BY <1>5, <2>8 DEF InScript, AMove
<1>8. CASE Keeping
  <2>1. Left({"enableUnit", "startServices", "verifyKept"})'
    BY <1>8, TakenOff DEF StartServices, Left, Keeping
  <2>2. SwitchEnded'
    BY <1>1, <1>6, <1>8 DEF Keeping, SwitchEnded
  <2>3. Keeping'
    BY <1>1, <1>2, <1>8, <2>1, <2>2 DEF Keeping, Recovering
  <2> QED BY <1>5, <2>3 DEF InScript, ARecovery
<1> QED BY <1>4, <1>7, <1>8

LEMMA VerifyStep ==
  ASSUME TypeOK, Held, InScript, Verify
  PROVE  Held' /\ InScript'
<1>1. Starting /\ Do("verify", "all") /\ ~Do("startServices", "all") /\ Going
  <2>1. ~Do("check", "all") /\ ~Do("startServices", "all")
    BY Before, RanksOfAll DEF Verify
  <2> QED BY <2>1, StageOf DEF Verify, At, ToTheFolder, ToTheDefault, Starting
<1>2. UNCHANGED <<fs, unsynced, disk, docker, cut, undos, stuck, err, mixed, unnoted, blind, relisted, said>>
  BY DEF Verify, KeepUndo, disks, history
<1>3. CASE Then("verify", "all") /\ apps' = OnData /\ UNCHANGED <<state, file>>
  <2>1. \A p, b : Do(p, b)' <=> Do(p, b) /\ ~(p = "verify" /\ b = "all")
    BY <1>3, TakenOff
  <2>2. Left({"startServices", "verify", "finish"})'
    BY <1>1, <1>3, TakenOff DEF Left, Starting
  <2>3. docker => OnData
    BY <1>1, OneRecord DEF Starting, Held, HeldFolder, HeldDefault, DockerHasItsMounts, OnData, View
  <2>4. Held'
    BY <1>1, <1>2, <1>3, HeldStays
  <2>5. OwedRight' /\ CanUndo(undos)' /\ Fresh'
    BY <1>1, <1>2, <1>3
    DEF Starting, OwedRight, OwedIn, CanUndo, CanGoHome, CanGoBack, MountsHaveUnits, Fresh
  <2>6. Starting'
    BY <1>1, <1>2, <1>3, <2>1, <2>2, <2>3, <2>5 DEF Starting
  <2> QED BY <2>4, <2>6 DEF InScript, AMove
<1>4. CASE Set([state EXCEPT !.phase = "switching", !.undoing = TRUE]) /\ todo' = All({"requiesce"})
  <2>1. state = file /\ file' = [file EXCEPT !.phase = "switching", !.undoing = TRUE] /\ state' = file'
    BY <1>1, <1>4, OneRecord DEF Set
  <2>2. /\ Going' /\ file'.phase = "switching" /\ file'.undoing
        /\ file'.target = file.target /\ file'.noted = file.noted
    BY <1>1, <1>2, <2>1 DEF TypeOK, MoveState, Starting
  <2>3. Held'
    BY <1>1, <1>2, <2>1
    DEF TypeOK, MoveState, Held, Starting, Fresh, Records, DockerHasItsMounts, OnlyWhenTold, HeldFolder, HeldDefault, View
  <2>4. Left({"requiesce"})' /\ Do("requiesce", "all")'
    BY <1>4, InAll DEF Left
  <2>5. OwedRight' /\ CanUndo(undos)'
    BY <1>1, <1>2, <2>2
    DEF Starting, OwedRight, OwedIn, CanUndo, CanGoHome, CanGoBack, MountsHaveUnits
  <2>6. Requiescing'
    BY <1>1, <1>2, <2>2, <2>4, <2>5 DEF Starting, Requiescing
  <2> QED BY <2>3, <2>6 DEF InScript, AMove
<1> QED BY <1>3, <1>4 DEF Verify

LEMMA RequiesceStep ==
  ASSUME TypeOK, Held, InScript, Requiesce
  PROVE  Held' /\ InScript'
<1>1. Requiescing /\ Going
  BY StageOf DEF Requiesce, At, Requiescing
<1>2. UNCHANGED <<fs, unsynced, disk, state, file, cut, undos, stuck, mixed, unnoted, blind, relisted, said>>
  BY DEF Requiesce, disks, mover, history
<1>3. CASE Quiesced /\ todo' = UndoSwitch /\ UNCHANGED err
  <2>1. Held'
    BY <1>1, <1>2, <1>3, HeldStays DEF Quiesced
  <2>2. \A p, b : Do(p, b)' <=> (p \in {"undoing", "undone"} /\ b = "all") \/ Owed(p, b)
    BY <1>3, InUndoSwitch
  <2>3. Left({"undoing", "undone"} \cup (IF file.target = "folder" THEN UndoFolder ELSE UndoDefault))'
    <3>1. OwedRight
      BY <1>1 DEF Requiescing
    <3> QED BY <1>2, <1>3, <3>1, InUndoSwitch DEF OwedRight, Left
  <2>4. CanUndo(todo)'
    BY <1>1, <1>2, <1>3, <2>2 DEF Requiescing, CanUndo, CanGoHome, CanGoBack, MountsHaveUnits
  <2>5. Fresh
    BY <1>1, OneRecord DEF Requiescing, Fresh, Held, HeldFolder, HeldDefault
  <2>6. UndoingIt'
    BY <1>1, <1>2, <1>3, <2>2, <2>3, <2>4, <2>5 DEF Requiescing, Quiesced, UndoingIt, Fresh
  <2> QED BY <2>1, <2>6 DEF InScript, AMove
<1>4. CASE NotQuiesced /\ todo' = All({"restart", "fail"}) /\ err' = TRUE
  <2>1. docker' => docker
    BY <1>4 DEF NotQuiesced
  <2>2. Held'
    BY <1>1, <1>2, <2>1, HeldStays
  <2>3. \A p, b : Do(p, b)' <=> p \in {"restart", "fail"} /\ b = "all"
    BY <1>4, InAll
  <2>4. Left({"removing", "remove", "restart", "fail"})'
    BY <1>4, InAll DEF Left
  <2>5. Spare' /\ AppsAreBack'
    BY <1>2, <1>4, <2>3 DEF Spare, Removing, AppsAreBack
  <2>6. GivingUp'
    BY <1>1, <1>2, <2>3, <2>4, <2>5 DEF Requiescing, GivingUp
  <2> QED BY <2>2, <2>6 DEF InScript, AMove
<1> QED BY <1>3, <1>4 DEF Requiesce

LEMMA FinishStep ==
  ASSUME TypeOK, Held, InScript, Finish
  PROVE  Held' /\ InScript'
<1>1. Starting /\ Going /\ ~Do("verify", "all")
  <2>1. ~Do("check", "all") /\ ~Do("verify", "all")
    BY Before, RanksOfAll DEF Finish
  <2> QED BY <2>1, StageOf DEF Finish, At, ToTheFolder, ToTheDefault, Starting
<1>2. UNCHANGED <<fs, unsynced, disk, docker, apps, cut, undos, stuck, err, mixed, unnoted, blind, relisted, said, unstarted>>
  BY DEF Finish, KeepUndo, disks, run, past, history
<1>3. state = file /\ ~Busy(cut) /\ file.from \in Where /\ file.from # file.target
  BY <1>1, OneRecord DEF TypeOK, MoveState
<1>4. /\ file' = finished(file, file.from, file.target) /\ state' = file' /\ todo' = {}
  BY <1>3 DEF Finish, Set
<1>5. /\ file'.phase = "done" /\ file'.location = file.target /\ file'.target = "default"
      /\ \A a \in Area : <<a, "tgt">> \in file'.old =>
           /\ file.target # "folder"
           /\ <<a, "tgt">> \in file.old \/ fs[a].tgt # "none"
  BY <1>3, <1>4 DEF TypeOK, MoveState, finished, oldCopy, inUse, Has, InFolder
<1>6. HeldIdle'
  BY <1>1, <1>2, <1>3, <1>5, OneRecord DEF Starting, Held, HeldFolder, HeldDefault, HeldIdle, location
<1>7. Held'
  BY <1>2, <1>3, <1>4, <1>5, <1>6 DEF Held, Records, DockerHasItsMounts, OnlyWhenTold, View
<1>8. Idle'
  BY <1>2, <1>3, <1>4, <1>5 DEF Idle, Left
<1> QED BY <1>7, <1>8 DEF InScript

-----------------------------------------------------------------------------
(* The undo of a move that failed.                                         *)

LEMMA UndoingStep ==
  ASSUME TypeOK, Held, InScript, Undoing
  PROVE  Held' /\ InScript'
<1>1. UndoingIt /\ Going
  BY StageOf DEF Undoing, At, UndoingIt
<1>2. UNCHANGED <<fs, unsynced, disk, docker, apps, cut, undos, stuck, err, mixed, unnoted, blind, relisted, said, unstarted>>
  BY DEF Undoing, KeepUndo, disks, run, past, history
<1>3. \A p, b : Do(p, b)' <=> Do(p, b) /\ ~(p = "undoing" /\ b = "all")
  BY TakenOff DEF Undoing
<1>4. state = file /\ file' = [file EXCEPT !.phase = "switching", !.undoing = TRUE] /\ state' = file'
  BY <1>1, OneRecord DEF Undoing, Set
<1>5. /\ Going' /\ file'.phase = "switching" /\ file'.undoing
      /\ file'.target = file.target /\ file'.noted = file.noted
  BY <1>1, <1>2, <1>4 DEF TypeOK, MoveState
<1>6. Held'
  BY <1>1, <1>2, <1>4
  DEF TypeOK, MoveState, Held, UndoingIt, Fresh, Records, DockerHasItsMounts, OnlyWhenTold, HeldFolder, HeldDefault, View
<1>7. Left({"undoing", "undone"} \cup (IF file.target = "folder" THEN UndoFolder ELSE UndoDefault))'
  BY <1>1, <1>5, TakenOff DEF Undoing, UndoingIt, Left, UndoFolder, UndoDefault
<1>8. CanUndo(todo)' /\ Fresh'
  BY <1>1, <1>2, <1>3, <1>5 DEF UndoingIt, CanUndo, CanGoHome, CanGoBack, MountsHaveUnits, Fresh
<1>9. UndoingIt'
  BY <1>1, <1>2, <1>3, <1>5, <1>7, <1>8 DEF UndoingIt
<1> QED BY <1>6, <1>9 DEF InScript, AMove

\* An undo that is taken: what it leaves, whether it went well or not.
LEMMA UndoTaken ==
  ASSUME TypeOK, Held, UndoingIt, NEW o \in UndoFolder \cup UndoDefault, NEW a \in Area,
         At(o, a), Then(o, a), Held', CanUndo(todo)', Fresh',
         UNCHANGED <<disk, docker, file, cut, unnoted, said>>
  PROVE  InScript'
<1>1. \A p, b : Do(p, b)' <=> Do(p, b) /\ ~(p = o /\ b = a)
  BY TakenOff
<1>2. Left({"undoing", "undone"} \cup (IF file.target = "folder" THEN UndoFolder ELSE UndoDefault))'
  BY TakenOff DEF UndoingIt, Left
<1>3. UndoingIt'
  BY <1>1, <1>2 DEF UndoingIt, UndoFolder, UndoDefault
<1> QED BY <1>3 DEF InScript, AMove

\* By then the record says that the move is being undone.
LEMMA UndoRecorded ==
  ASSUME TypeOK, Held, InScript, NEW o \in UndoFolder \cup UndoDefault, NEW a, At(o, a)
  PROVE  /\ UndoingIt /\ Going /\ file.phase = "switching" /\ file.undoing /\ ~docker /\ Do(o, a)
         /\ o \in UndoFolder => file.target = "folder" /\ CanGoHome(todo)
         /\ o \in UndoDefault => file.target = "default" /\ CanGoBack(todo) /\ MountsHaveUnits(todo)
<1>1. ~Do("undoing", "all")
  <2>1. Rank("undoing", "all") \in Nat /\ Rank(o, a) \in Nat /\ Rank("undoing", "all") < Rank(o, a)
    BY RanksOfAll, RanksOfUndo DEF UndoFolder, UndoDefault, sooner
  <2> QED BY <2>1, Before
<1>2. Do(o, a)
  BY DEF At
<1>3. /\ UndoingIt /\ (o \in UndoFolder => file.target = "folder") /\ (o \in UndoDefault => file.target # "folder")
  BY <1>2, StageOf
<1>4. Going /\ CanUndo(todo) /\ ~docker /\ file.phase = "switching" /\ file.undoing
  BY <1>1, <1>3 DEF UndoingIt
<1>5. (o \in UndoDefault => file.target = "default")
  BY <1>3, <1>4, OneRecord
<1> QED BY <1>2, <1>3, <1>4, <1>5 DEF CanUndo, UndoFolder, UndoDefault

\* While Docker is stopped and the undo is recorded, only the folders matter.
LEMMA HeldInUndo ==
  ASSUME TypeOK, Held, Going, ~docker, file.phase = "switching", file.undoing,
         UNCHANGED <<unsynced, disk, docker, state, file, cut, mixed, relisted, said>>,
         file.target = "folder" =>
           \A a \in Area : /\ fs'[a].tgt = fs[a].tgt
                           /\ fs'[a] = fs[a] \/ Untouched(fs'[a]) \/ Aside(fs'[a])
                           /\ Untouched(fs[a]) => Untouched(fs'[a]),
         file.target = "default" =>
           \A a \in Area : fs'[a].tgt = fs[a].tgt /\ (Moved(fs'[a]) \/ Returned(fs'[a])),
         Fresh
  PROVE  Held'
<1>1. Records' /\ DockerHasItsMounts' /\ OnlyWhenTold'
  BY DEF Held, Records, DockerHasItsMounts, OnlyWhenTold
<1>2. file.target = "folder" => HeldFolder'
  BY DEF Held, HeldFolder, Fresh
<1>3. file.target = "default" => HeldDefault'
  BY DEF Held, HeldDefault, Fresh
<1> QED BY <1>1, <1>2, <1>3 DEF Held

LEMMA UnmountStep ==
  ASSUME TypeOK, Held, InScript, NEW a \in Area, Unmount(a)
  PROVE  Held' /\ InScript'
<1>1. /\ UndoingIt /\ Going /\ file.phase = "switching" /\ file.undoing /\ ~docker /\ Do("unmount", a)
      /\ file.target = "folder" /\ CanGoHome(todo)
  BY UndoRecorded DEF Unmount, UndoFolder
<1>2. UNCHANGED <<unsynced, disk, docker, apps, state, file, cut, undos, mixed, unnoted, blind, relisted, said, unstarted>>
  BY DEF Unmount, run, mover, history
<1>3. \A p, b : Do(p, b)' <=> Do(p, b) /\ ~(p = "unmount" /\ b = a)
  BY TakenOff DEF Unmount
<1>4. Fresh
  BY <1>1 DEF UndoingIt
<1>5. \/ fs' = [fs EXCEPT ![a] = [fs[a] EXCEPT !.mnt = FALSE, !.on = FALSE]] /\ UNCHANGED <<stuck, err>>
      \/ UNCHANGED fs /\ stuck' = stuck \cup {a} /\ err'
  BY DEF Unmount, TypeOK
<1>6. /\ \A b \in Area \ {a} : fs'[b] = fs[b]
      /\ fs'[a].live = fs[a].live /\ fs'[a].old = fs[a].old /\ fs'[a].tgt = fs[a].tgt
      /\ fs'[a].unit = fs[a].unit /\ fs'[a].drop = fs[a].drop
      /\ \/ ~fs'[a].mnt /\ ~fs'[a].on /\ UNCHANGED <<stuck, err>>
         \/ fs'[a] = fs[a] /\ stuck' = stuck \cup {a} /\ err'
  <2>1. CASE fs' = [fs EXCEPT ![a] = [fs[a] EXCEPT !.mnt = FALSE, !.on = FALSE]] /\ UNCHANGED <<stuck, err>>
    BY <2>1 DEF TypeOK
  <2>2. CASE UNCHANGED fs /\ stuck' = stuck \cup {a} /\ err'
    BY <2>2
  <2> QED BY <1>5, <2>1, <2>2
<1>7. Untouched(fs[a]) \/ Aside(fs[a])
  BY <1>1, <1>4 DEF Held, HeldFolder, Fresh
<1>8. (Untouched(fs[a]) => Untouched(fs'[a])) /\ (Aside(fs[a]) => Aside(fs'[a]))
  BY <1>6
<1>9. Held'
  BY <1>1, <1>2, <1>4, <1>6, <1>7, <1>8, HeldInUndo
<1>10. Fresh'
  BY <1>1, <1>2, <1>4, <1>6 DEF Fresh
<1>11. CanUndo(todo)'
  BY <1>1, <1>2, <1>3, <1>6 DEF CanUndo, CanGoHome
<1> QED BY <1>1, <1>2, <1>9, <1>10, <1>11, UndoTaken DEF Unmount, UndoFolder

LEMMA UnwriteStep ==
  ASSUME TypeOK, Held, InScript, NEW a \in Area, Unwrite(a)
  PROVE  Held' /\ InScript'
<1>0. At("unwrite", a) /\ Then("unwrite", a)
  BY DEF Unwrite, UndoStep
<1>1. /\ UndoingIt /\ Going /\ file.phase = "switching" /\ file.undoing /\ ~docker /\ Do("unwrite", a)
      /\ file.target = "folder" /\ CanGoHome(todo)
  BY <1>0, UndoRecorded DEF UndoFolder
<1>2. UNCHANGED <<unsynced, disk, docker, apps, state, file, cut, undos, stuck, mixed, unnoted, blind, relisted, said, unstarted>>
  BY DEF Unwrite, UndoStep, KeepUndo, disks, run, mover, past, history
<1>3. \A p, b : Do(p, b)' <=> Do(p, b) /\ ~(p = "unwrite" /\ b = a)
  BY <1>0, TakenOff
<1>4. Fresh
  BY <1>1 DEF UndoingIt
<1>5. ~Do("unmount", a)
  <2>1. /\ Rank("unmount", a) \in Nat /\ Rank("unwrite", a) \in Nat
        /\ Rank("unmount", a) < Rank("unwrite", a)
    BY RanksOfUndo DEF sooner
  <2> QED BY <1>0, <2>1, Before
<1>6. /\ (err => err') 
      /\ \/ a \notin stuck /\ fs' = [fs EXCEPT ![a] = [fs[a] EXCEPT !.unit = FALSE, !.drop = FALSE]]
         \/ a \in stuck /\ UNCHANGED fs
  BY DEF Unwrite, UndoStep, KeepUndo, disks
<1>7. a \notin stuck => ~fs[a].mnt /\ ~fs[a].on
  BY <1>1, <1>5 DEF CanGoHome
<1>8. /\ \A b \in Area \ {a} : fs'[b] = fs[b]
      /\ fs'[a].live = fs[a].live /\ fs'[a].old = fs[a].old /\ fs'[a].tgt = fs[a].tgt
      /\ fs'[a].mnt = fs[a].mnt /\ fs'[a].on = fs[a].on
      /\ \/ a \notin stuck /\ ~fs'[a].unit /\ ~fs'[a].drop
         \/ a \in stuck /\ fs'[a] = fs[a]
  <2>1. CASE a \notin stuck /\ fs' = [fs EXCEPT ![a] = [fs[a] EXCEPT !.unit = FALSE, !.drop = FALSE]]
    BY <2>1 DEF TypeOK
  <2>2. CASE a \in stuck /\ UNCHANGED fs
    BY <2>2
  <2> QED BY <1>6, <2>1, <2>2
<1>9. Untouched(fs[a]) \/ Aside(fs[a])
  BY <1>1, <1>4 DEF Held, HeldFolder, Fresh
<1>10. (Untouched(fs[a]) => Untouched(fs'[a])) /\ (Aside(fs[a]) => Aside(fs'[a]))
  BY <1>7, <1>8
<1>11. Held'
  BY <1>1, <1>2, <1>4, <1>8, <1>9, <1>10, HeldInUndo
<1>12. Fresh'
  BY <1>1, <1>2, <1>4, <1>8, <1>9, <1>10 DEF Fresh
<1>13. CanUndo(todo)'
  BY <1>1, <1>2, <1>3, <1>6, <1>8 DEF CanUndo, CanGoHome
<1> QED BY <1>0, <1>1, <1>2, <1>11, <1>12, <1>13, UndoTaken DEF UndoFolder

LEMMA PutBackStep ==
  ASSUME TypeOK, Held, InScript, NEW a \in Area, PutBack(a)
  PROVE  Held' /\ InScript'
<1>0. At("putBack", a) /\ Then("putBack", a)
  BY DEF PutBack, UndoStep
<1>1. /\ UndoingIt /\ Going /\ file.phase = "switching" /\ file.undoing /\ ~docker /\ Do("putBack", a)
      /\ file.target = "folder" /\ CanGoHome(todo)
  BY <1>0, UndoRecorded DEF UndoFolder
<1>2. UNCHANGED <<unsynced, disk, docker, apps, state, file, cut, undos, stuck, mixed, unnoted, blind, relisted, said, unstarted>>
  BY DEF PutBack, UndoStep, KeepUndo, disks, run, mover, past, history
<1>3. \A p, b : Do(p, b)' <=> Do(p, b) /\ ~(p = "putBack" /\ b = a)
  BY <1>0, TakenOff
<1>4. Fresh
  BY <1>1 DEF UndoingIt
<1>5. ~Do("unmount", a) /\ ~Do("unwrite", a)
  <2>1. /\ Rank("unmount", a) \in Nat /\ Rank("unwrite", a) \in Nat /\ Rank("putBack", a) \in Nat
        /\ Rank("unmount", a) < Rank("putBack", a) /\ Rank("unwrite", a) < Rank("putBack", a)
    BY RanksOfUndo DEF sooner
  <2> QED BY <1>0, <2>1, Before
<1>6. CASE a \in stuck \/ fs[a].mnt \/ ~EmptyOrMissing(fs[a].live)
  <2>1. UNCHANGED fs /\ err'
    BY <1>6 DEF PutBack, disks
  <2>2. Held'
    BY <1>1, <1>2, <1>4, <2>1, HeldInUndo DEF Held, HeldFolder
  <2>3. CanUndo(todo)' /\ Fresh'
    BY <1>1, <1>2, <1>3, <1>4, <2>1 DEF CanUndo, CanGoHome, Fresh
  <2> QED BY <1>0, <1>1, <1>2, <2>2, <2>3, UndoTaken DEF UndoFolder
<1>7. CASE ~(a \in stuck \/ fs[a].mnt \/ ~EmptyOrMissing(fs[a].live))
  <2>1. /\ fs' = [fs EXCEPT ![a] = [fs[a] EXCEPT !.live = fs[a].old, !.old = "none"]]
        /\ UNCHANGED err
    BY <1>7 DEF PutBack, UndoStep
  <2>2. NoFlags(fs[a])
    BY <1>1, <1>5, <1>7 DEF CanGoHome
  <2>3. fs[a].old = "data"
    BY <1>1, <1>4, <1>7 DEF Held, HeldFolder, Fresh
  <2>4. Untouched(fs'[a]) /\ fs'[a].tgt = fs[a].tgt
    BY <2>1, <2>2, <2>3 DEF TypeOK
  <2>5. \A b \in Area \ {a} : fs'[b] = fs[b]
    BY <2>1 DEF TypeOK
  <2>6. Held'
    BY <1>1, <1>2, <1>4, <2>4, <2>5, HeldInUndo
  <2>7. CanUndo(todo)' /\ Fresh'
    BY <1>1, <1>2, <1>3, <1>4, <2>1, <2>4, <2>5 DEF CanUndo, CanGoHome, Fresh
  <2> QED BY <1>0, <1>1, <1>2, <2>6, <2>7, UndoTaken DEF UndoFolder
<1> QED BY <1>6, <1>7

LEMMA MoveAsideStep ==
  ASSUME TypeOK, Held, InScript, NEW a \in Area, MoveAside(a)
  PROVE  Held' /\ InScript'
<1>0. At("moveAside", a) /\ Then("moveAside", a)
  BY DEF MoveAside, UndoStep
<1>1. /\ UndoingIt /\ Going /\ file.phase = "switching" /\ file.undoing /\ ~docker /\ Do("moveAside", a)
      /\ file.target = "default" /\ CanGoBack(todo) /\ MountsHaveUnits(todo)
  BY <1>0, UndoRecorded DEF UndoDefault
<1>2. UNCHANGED <<unsynced, disk, docker, apps, state, file, cut, undos, stuck, mixed, unnoted, blind, relisted, said, unstarted>>
  BY DEF MoveAside, UndoStep, run, mover, history
<1>3. \A p, b : Do(p, b)' <=> Do(p, b) /\ ~(p = "moveAside" /\ b = a)
  BY <1>0, TakenOff
<1>4. Fresh /\ \A b \in Area : fs[b].tgt = "data" /\ (Moved(fs[b]) \/ Returned(fs[b]))
  BY <1>1 DEF UndoingIt, Fresh, Held, HeldDefault
<1>5. /\ fs' = [fs EXCEPT ![a] = [fs[a] EXCEPT !.new = fs[a].live, !.live = "empty"]]
      /\ UNCHANGED err
  BY DEF MoveAside, UndoStep
<1>6. /\ \A b \in Area \ {a} : fs'[b] = fs[b]
      /\ fs'[a].tgt = fs[a].tgt /\ fs'[a].live = "empty"
      /\ fs'[a].mnt = fs[a].mnt /\ fs'[a].on = fs[a].on
      /\ fs'[a].unit = fs[a].unit /\ fs'[a].drop = fs[a].drop
  BY <1>5 DEF TypeOK
<1>7. Moved(fs'[a])
  BY <1>4, <1>6
<1>8. Held'
  BY <1>1, <1>2, <1>4, <1>6, <1>7, HeldInUndo
<1>9. Fresh'
  BY <1>1, <1>2, <1>4, <1>6 DEF Fresh
<1>10. CanUndo(todo)'
  BY <1>1, <1>2, <1>3, <1>4, <1>6, <1>7 DEF CanUndo, CanGoBack, MountsHaveUnits
<1> QED BY <1>0, <1>1, <1>2, <1>8, <1>9, <1>10, UndoTaken DEF UndoDefault

LEMMA RewriteStep ==
  ASSUME TypeOK, Held, InScript, NEW a \in Area, Rewrite(a)
  PROVE  Held' /\ InScript'
<1>0. At("rewrite", a) /\ Then("rewrite", a)
  BY DEF Rewrite, UndoStep
<1>1. /\ UndoingIt /\ Going /\ file.phase = "switching" /\ file.undoing /\ ~docker /\ Do("rewrite", a)
      /\ file.target = "default" /\ CanGoBack(todo) /\ MountsHaveUnits(todo)
  BY <1>0, UndoRecorded DEF UndoDefault
<1>2. UNCHANGED <<unsynced, disk, docker, apps, state, file, cut, undos, stuck, mixed, unnoted, blind, relisted, said, unstarted>>
  BY DEF Rewrite, UndoStep, run, mover, history
<1>3. \A p, b : Do(p, b)' <=> Do(p, b) /\ ~(p = "rewrite" /\ b = a)
  BY <1>0, TakenOff
<1>4. Fresh /\ \A b \in Area : fs[b].tgt = "data" /\ (Moved(fs[b]) \/ Returned(fs[b]))
  BY <1>1 DEF UndoingIt, Fresh, Held, HeldDefault
<1>5. ~Do("moveAside", a)
  <2>1. /\ Rank("moveAside", a) \in Nat /\ Rank("rewrite", a) \in Nat
        /\ Rank("moveAside", a) < Rank("rewrite", a)
    BY RanksOfUndo DEF sooner
  <2> QED BY <1>0, <2>1, Before
<1>6. fs' = [fs EXCEPT ![a] = [fs[a] EXCEPT !.unit = TRUE, !.drop = TRUE]]
  BY DEF Rewrite, UndoStep
<1>7. /\ \A b \in Area \ {a} : fs'[b] = fs[b]
      /\ fs'[a].tgt = fs[a].tgt /\ fs'[a].live = fs[a].live
      /\ Asked(fs'[a])
  BY <1>6 DEF TypeOK
<1>8. fs[a].live # "data"
  BY <1>1, <1>5 DEF CanGoBack
<1>9. Foldered(fs'[a])
  BY <1>4, <1>7, <1>8
<1>10. Held'
  BY <1>1, <1>2, <1>4, <1>7, <1>9, HeldInUndo
<1>11. Fresh'
  BY <1>1, <1>2, <1>4, <1>7 DEF Fresh
<1>12. CanUndo(todo)'
  BY <1>1, <1>2, <1>3, <1>4, <1>7, <1>9 DEF CanUndo, CanGoBack, MountsHaveUnits
<1> QED BY <1>0, <1>1, <1>2, <1>10, <1>11, <1>12, UndoTaken DEF UndoDefault

LEMMA EnableStep ==
  ASSUME TypeOK, Held, InScript, NEW a \in Area, Enable(a)
  PROVE  Held' /\ InScript'
<1>0. At("enable", a) /\ Then("enable", a)
  BY DEF Enable, UndoStep
<1>1. /\ UndoingIt /\ Going /\ file.phase = "switching" /\ file.undoing /\ ~docker /\ Do("enable", a)
      /\ file.target = "default" /\ CanGoBack(todo) /\ MountsHaveUnits(todo)
  BY <1>0, UndoRecorded DEF UndoDefault
<1>2. UNCHANGED <<unsynced, disk, docker, apps, state, file, cut, undos, stuck, mixed, unnoted, blind, relisted, said, unstarted>>
  BY DEF Enable, UndoStep, run, mover, history
<1>3. \A p, b : Do(p, b)' <=> Do(p, b) /\ ~(p = "enable" /\ b = a)
  BY <1>0, TakenOff
<1>4. Fresh /\ \A b \in Area : fs[b].tgt = "data" /\ (Moved(fs[b]) \/ Returned(fs[b]))
  BY <1>1 DEF UndoingIt, Fresh, Held, HeldDefault
<1>5. ~Do("moveAside", a) /\ ~Do("rewrite", a)
  <2>1. /\ Rank("moveAside", a) \in Nat /\ Rank("rewrite", a) \in Nat /\ Rank("enable", a) \in Nat
        /\ Rank("moveAside", a) < Rank("enable", a) /\ Rank("rewrite", a) < Rank("enable", a)
    BY RanksOfUndo DEF sooner
  <2> QED BY <1>0, <2>1, Before
<1>6. fs[a].live # "data" /\ Asked(fs[a])
  BY <1>1, <1>5 DEF CanGoBack, MountsHaveUnits
<1>7. fs' \in {fs, [fs EXCEPT ![a] = [fs[a] EXCEPT !.on = TRUE]]}
  BY DEF Enable, UndoStep
<1>8. \A b \in Area : /\ fs'[b].tgt = fs[b].tgt /\ fs'[b].live = fs[b].live /\ fs'[b].mnt = fs[b].mnt
                      /\ fs'[b].unit = fs[b].unit /\ fs'[b].drop = fs[b].drop
                      /\ fs'[b].old = fs[b].old /\ fs'[b].new = fs[b].new
                      /\ b # a => fs'[b] = fs[b]
  BY <1>7 DEF TypeOK
<1>9. Foldered(fs'[a])
  BY <1>4, <1>6, <1>8
<1>10. Held'
  BY <1>1, <1>2, <1>4, <1>8, <1>9, HeldInUndo
<1>11. Fresh'
  BY <1>1, <1>2, <1>4, <1>8 DEF Fresh
<1>12. CanUndo(todo)'
  BY <1>1, <1>2, <1>3, <1>4, <1>8, <1>9 DEF CanUndo, CanGoBack, MountsHaveUnits
<1> QED BY <1>0, <1>1, <1>2, <1>10, <1>11, <1>12, UndoTaken DEF UndoDefault

LEMMA RemountStep ==
  ASSUME TypeOK, Held, InScript, NEW a \in Area, Remount(a)
  PROVE  Held' /\ InScript'
<1>0. At("remount", a) /\ Then("remount", a)
  BY DEF Remount, UndoStep
<1>1. /\ UndoingIt /\ Going /\ file.phase = "switching" /\ file.undoing /\ ~docker /\ Do("remount", a)
      /\ file.target = "default" /\ CanGoBack(todo) /\ MountsHaveUnits(todo)
  BY <1>0, UndoRecorded DEF UndoDefault
<1>2. UNCHANGED <<unsynced, disk, docker, apps, state, file, cut, undos, stuck, mixed, unnoted, blind, relisted, said, unstarted>>
  BY DEF Remount, UndoStep, disks, run, mover, past, history
<1>3. \A p, b : Do(p, b)' <=> Do(p, b) /\ ~(p = "remount" /\ b = a)
  BY <1>0, TakenOff
<1>4. Fresh /\ \A b \in Area : fs[b].tgt = "data" /\ (Moved(fs[b]) \/ Returned(fs[b]))
  BY <1>1 DEF UndoingIt, Fresh, Held, HeldDefault
<1>5. ~Do("moveAside", a) /\ ~Do("rewrite", a)
  <2>1. /\ Rank("moveAside", a) \in Nat /\ Rank("rewrite", a) \in Nat /\ Rank("remount", a) \in Nat
        /\ Rank("moveAside", a) < Rank("remount", a) /\ Rank("rewrite", a) < Rank("remount", a)
    BY RanksOfUndo DEF sooner
  <2> QED BY <1>0, <2>1, Before
<1>6. fs[a].live # "data" /\ Asked(fs[a])
  BY <1>1, <1>5 DEF CanGoBack, MountsHaveUnits
<1>7. fs' \in {fs, [fs EXCEPT ![a] = Bound(fs[a])]}
  BY DEF Remount, UndoStep, disks
<1>8. \A b \in Area : /\ fs'[b].tgt = fs[b].tgt /\ (fs'[b].live = fs[b].live \/ fs'[b].live = "empty")
                      /\ fs'[b].unit = fs[b].unit /\ fs'[b].drop = fs[b].drop
                      /\ fs'[b].old = fs[b].old /\ fs'[b].new = fs[b].new /\ fs'[b].on = fs[b].on
                      /\ b # a => fs'[b] = fs[b]
  BY <1>7, BoundIs DEF TypeOK
<1>9. Foldered(fs'[a])
  BY <1>4, <1>6, <1>8
<1>10. Held'
  BY <1>1, <1>2, <1>4, <1>8, <1>9, HeldInUndo
<1>11. Fresh'
  BY <1>1, <1>2, <1>4, <1>8 DEF Fresh
<1>12. CanUndo(todo)'
  BY <1>1, <1>2, <1>3, <1>4, <1>8, <1>9 DEF CanUndo, CanGoBack, MountsHaveUnits
<1> QED BY <1>0, <1>1, <1>2, <1>10, <1>11, <1>12, UndoTaken DEF UndoDefault

LEMMA UndoneStep ==
  ASSUME TypeOK, Held, InScript, Undone
  PROVE  Held' /\ InScript'
<1>1. UndoingIt /\ Going /\ file.phase = "switching" /\ ~docker /\ CanUndo(todo) /\ Noted
  BY StageOf DEF Undone, At, UndoingIt
<1>2. UNCHANGED <<fs, unsynced, disk, docker, apps, state, file, cut, undos, stuck, err, mixed, unnoted, blind, relisted, said, unstarted>>
  BY DEF Undone, KeepUndo, disks, run, mover, past, history
<1>3. ~Do("undoing", "all") /\ \A p : p \in UndoFolder \cup UndoDefault => \A b : ~Do(p, b)
  <2>1. \A p, b : p \in UndoFolder \cup UndoDefault
          => Rank(p, b) \in Nat /\ Rank("undone", "all") \in Nat /\ Rank(p, b) < Rank("undone", "all")
    BY RanksOfAll, RanksOfUndo DEF UndoFolder, UndoDefault, sooner
  <2>2. Rank("undoing", "all") \in Nat /\ Rank("undoing", "all") < Rank("undone", "all")
    BY RanksOfAll
  <2> QED BY <2>1, <2>2, RanksOfAll, Before DEF Undone
<1>4. file.undoing /\ state = file
  BY <1>1, <1>3, OneRecord DEF UndoingIt
<1>5. Held'
  BY <1>1, <1>2, HeldStays
<1>6. file.target = "folder" /\ ~err => \A a \in Area : Untouched(fs[a])
  BY <1>1, <1>3, OneRecord DEF CanUndo, CanGoHome, UndoFolder, UndoingIt, Held, HeldFolder, Fresh
<1>7. file.target # "folder" =>
        /\ \A a \in Copies(file.target) : fs[a].live # "data"
        /\ ~said => \A a \in Area : Foldered(fs[a])
  BY <1>1, <1>3, OneRecord DEF CanUndo, CanGoBack, UndoDefault, Held, HeldDefault, Copies, Has, dst
<1>8. todo' = IF err THEN All({"restart", "fail"}) ELSE GiveUp(file.target)
  BY <1>4 DEF Undone
<1>9. /\ Do("fail", "all")' /\ Do("restart", "all")'
      /\ \A b : Do("removing", b)' \/ Do("remove", b)' => ~err /\ b \in Copies(file.target)
  BY <1>8, InAll, InGiveUp
<1>10. Left({"removing", "remove", "restart", "fail"})'
  BY <1>8, InAll, InGiveUp DEF Left
<1>11. Spare'
  BY <1>2, <1>6, <1>7, <1>9 DEF Spare, Removing
<1>12. GivingUp'
  BY <1>1, <1>2, <1>4, <1>9, <1>10, <1>11 DEF GivingUp, AppsAreBack
<1> QED BY <1>5, <1>12 DEF InScript, AMove

\* What is deleted is the copies of the move that the state file has.
LEMMA DeletesCopies ==
  ASSUME TypeOK, Held, GivingUp \/ Dropping
  PROVE  /\ Target = file.target /\ Target \in Where /\ Busy(file) /\ state.noted = file.noted
         /\ (ToFolder /\ file.target = "folder") \/ (ToDefault /\ file.target = "default")
BY DEF TypeOK, MoveState, Where, Held, Records, GivingUp, Dropping, PuttingBack, Recovering, Target

\* A copy that is deleted is of no use.
LEMMA CopyDeleted ==
  ASSUME TypeOK, Held, GivingUp \/ Dropping, NEW a \in Area, Do("removing", a) \/ Do("remove", a),
         NEW c \in {"none", "partial"},
         fs' = [fs EXCEPT ![a][dst(Target)] = c],
         file.target = "default" /\ Dropping => fs["docker"].unit,
         todo' \subseteq todo,
         UNCHANGED <<unsynced, disk, docker, apps, state, file, cut, undos, err, mixed, unnoted, blind, relisted, said, unstarted>>
  PROVE  Held' /\ Spare'
<1>1. Spare
  BY DEF GivingUp, Dropping
<1>2. \A b \in Area \ {a} : fs'[b] = fs[b]
  BY DEF TypeOK
<1>3. CASE file.target = "folder"
  <2>1. fs'[a] = [fs[a] EXCEPT !.tgt = c] /\ \A b \in Area : Untouched(fs[b])
    BY <1>1, <1>3, DeletesCopies DEF TypeOK, dst, Spare, Removing
  <2>2. \A b \in Area : Untouched(fs'[b]) /\ fs'[b].live = fs[b].live /\ fs'[b].mnt = fs[b].mnt
    BY <1>2, <2>1 DEF TypeOK
  <2>3. Held'
    <3>1. Records' /\ OnlyWhenTold'
      BY <1>3 DEF Held, Records, OnlyWhenTold
    <3>2. DockerHasItsMounts'
      BY <1>3, <2>1, <2>2 DEF Held, DockerHasItsMounts, View
    <3>3. HeldFolder'
      BY <1>3, <2>1, <2>2, DeletesCopies DEF Held, HeldFolder
    <3> QED BY <1>3, <3>1, <3>2, <3>3, DeletesCopies DEF Held
  <2>4. Spare'
    BY <1>3, <2>2 DEF Spare
  <2> QED BY <2>3, <2>4
<1>4. CASE file.target # "folder"
  <2>1. fs'[a] = [fs[a] EXCEPT !.new = c] /\ fs[a].live # "data"
    BY <1>1, <1>4, DeletesCopies DEF TypeOK, dst, Spare
  <2>2. /\ fs'[a].live = fs[a].live /\ fs'[a].tgt = fs[a].tgt /\ fs'[a].mnt = fs[a].mnt /\ fs'[a].on = fs[a].on
        /\ fs'[a].unit = fs[a].unit /\ fs'[a].drop = fs[a].drop
    BY <2>1 DEF TypeOK
  <2>3. HeldDefault /\ (Early \/ file.undoing \/ fs["docker"].unit)
    BY <1>4, DeletesCopies DEF Held, GivingUp
  <2>4. \A b \in Area : /\ fs'[b].live = fs[b].live /\ fs'[b].tgt = fs[b].tgt /\ fs'[b].mnt = fs[b].mnt
                        /\ fs'[b].on = fs[b].on /\ fs'[b].unit = fs[b].unit /\ fs'[b].drop = fs[b].drop
                        /\ b = a \/ fs'[b].new = fs[b].new
    BY <1>2, <2>2
  <2>5. Moved(fs[a])
    BY <2>1, <2>3 DEF HeldDefault
  <2>6. HeldDefault'
    BY <2>1, <2>3, <2>4, <2>5 DEF HeldDefault
  <2>7. Held'
    BY <1>4, <2>4, <2>6, DeletesCopies DEF Held, Records, DockerHasItsMounts, OnlyWhenTold, View
  <2>8. Spare'
    BY <1>1, <1>4, <2>4 DEF Spare
  <2> QED BY <2>7, <2>8
<1> QED BY <1>3, <1>4

LEMMA RemoveBeginsStep ==
  ASSUME TypeOK, Held, InScript, NEW a \in Area, RemoveBegins(a)
  PROVE  Held' /\ InScript'
<1>1. (GivingUp \/ Dropping) /\ Do("removing", a)
  BY StageOf DEF RemoveBegins, At
<1>2. UNCHANGED <<unsynced, disk, docker, apps, state, file, cut, undos, stuck, mixed, unnoted, blind, relisted, said, unstarted>>
  BY DEF RemoveBegins, run, mover, history
<1>3. /\ todo' \subseteq todo /\ (err => err') /\ (UNCHANGED err \/ Busy(cut))
      /\ \A p, b : p \notin {"removing", "remove"} => (Do(p, b)' <=> Do(p, b))
  BY StepIs DEF RemoveBegins, Then, TypeOK
<1>4. (GivingUp => Left({"removing", "remove", "restart", "fail"})')
      /\ (Dropping => Left({"removing", "remove", "restart", "recovered"})')
  BY <1>3 DEF Left, GivingUp, Dropping
<1>5. Dropping /\ file.target = "default" => fs["docker"].unit
  BY <1>1 DEF Dropping, Removing
<1>6. Held' /\ Spare' /\ (file.target = "folder" => \A b \in Area : fs'[b].old = fs[b].old /\ fs'[b].unit = fs[b].unit)
      /\ \A b \in Area : fs'[b].unit = fs[b].unit /\ (fs'[b].tgt = fs[b].tgt \/ file.target = "folder")
  <2>1. CASE fs' = [fs EXCEPT ![a][dst(Target)] = "partial"] /\ UNCHANGED err
    <3>1. Held' /\ Spare'
      BY <1>1, <1>2, <1>3, <1>5, <2>1, CopyDeleted
    <3> QED BY <1>1, <2>1, <3>1, DeletesCopies DEF TypeOK, dst
  <2>2. CASE UNCHANGED fs
    <3>1. Held'
      BY <1>1, <1>2, <2>2, HeldStays, DeletesCopies
    <3>2. Spare'
      BY <1>1, <1>2, <1>3, <2>2 DEF Spare, Removing, GivingUp, Dropping
    <3> QED BY <2>2, <3>1, <3>2
  <2> QED BY <2>1, <2>2 DEF RemoveBegins
<1>7. AppsAreBack'
  BY <1>1, <1>2, <1>3 DEF AppsAreBack, GivingUp, Dropping
<1>8. GivingUp => GivingUp'
  BY <1>2, <1>3, <1>4, <1>6, <1>7 DEF GivingUp
<1>9. Dropping => Dropping'
  <2>1. Fresh /\ Dropping => Fresh'
    BY <1>1, <1>2, <1>6, DeletesCopies DEF Fresh, Dropping, PuttingBack, Recovering, Spare, Removing
  <2> QED BY <1>1, <1>2, <1>3, <1>4, <1>5, <1>6, <1>7, <2>1 DEF Dropping, PuttingBack, Recovering
<1> QED BY <1>1, <1>6, <1>8, <1>9 DEF InScript, AMove, ARecovery

LEMMA RemoveEndsStep ==
  ASSUME TypeOK, Held, InScript, NEW a \in Area, RemoveEnds(a)
  PROVE  Held' /\ InScript'
<1>1. (GivingUp \/ Dropping) /\ Do("remove", a)
  BY StageOf DEF RemoveEnds, At
<1>2. UNCHANGED <<unsynced, disk, docker, apps, state, file, cut, undos, stuck, err, mixed, unnoted, blind, relisted, said, unstarted>>
  BY DEF RemoveEnds, KeepUndo, run, mover, past, history
<1>3. /\ todo' \subseteq todo
      /\ \A p, b : p \notin {"removing", "remove"} => (Do(p, b)' <=> Do(p, b))
  BY TakenOff DEF RemoveEnds
<1>4. (GivingUp => Left({"removing", "remove", "restart", "fail"})')
      /\ (Dropping => Left({"removing", "remove", "restart", "recovered"})')
  BY <1>3 DEF Left, GivingUp, Dropping
<1>5. Dropping /\ file.target = "default" => fs["docker"].unit
  BY <1>1 DEF Dropping, Removing
<1>6. fs' = [fs EXCEPT ![a][dst(Target)] = "none"]
  BY DEF RemoveEnds
<1>7. Held' /\ Spare'
  BY <1>1, <1>2, <1>3, <1>5, <1>6, CopyDeleted
<1>8. \A b \in Area : /\ fs'[b].unit = fs[b].unit /\ fs'[b].old = fs[b].old
                      /\ fs'[b].tgt = fs[b].tgt \/ file.target = "folder"
  BY <1>1, <1>6, DeletesCopies DEF TypeOK, dst
<1>9. AppsAreBack'
  BY <1>1, <1>2, <1>3 DEF AppsAreBack, GivingUp, Dropping
<1>10. GivingUp => GivingUp'
  BY <1>2, <1>3, <1>4, <1>7, <1>9 DEF GivingUp
<1>11. Dropping => Dropping'
  <2>1. Dropping => Fresh'
    BY <1>1, <1>2, <1>8, DeletesCopies DEF Fresh, Dropping, PuttingBack, Spare, Removing
  <2> QED BY <1>1, <1>2, <1>3, <1>4, <1>5, <1>7, <1>8, <1>9, <2>1 DEF Dropping, PuttingBack, Recovering
<1> QED BY <1>1, <1>7, <1>10, <1>11 DEF InScript, AMove, ARecovery

\* Docker is started again on what is left, and the apps with it.
LEMMA RestartStep ==
  ASSUME TypeOK, Held, InScript, Restart
  PROVE  Held' /\ InScript'
<1>1. UNCHANGED <<unsynced, disk, state, file, cut, undos, stuck, err, mixed, unnoted, blind, relisted, said>>
  BY DEF Restart, KeepUndo, mover, past, history
<1>2. \A p, b : Do(p, b)' <=> Do(p, b) /\ ~(p = "restart" /\ b = "all")
  BY TakenOff DEF Restart
<1>3. StartTry
  BY StartIsATry
<1>4. /\ ~Do("dropCopies", "all")
      /\ \A b : ~Do("removing", b) /\ ~Do("remove", b)
  <2>1. \A p, b : p \in {"removing", "remove"}
          => Rank(p, b) \in Nat /\ Rank("restart", "all") \in Nat /\ Rank(p, b) < Rank("restart", "all")
    BY RanksOfAll, RanksOfArea DEF later
  <2>2. Rank("dropCopies", "all") \in Nat /\ Rank("dropCopies", "all") < Rank("restart", "all")
    BY RanksOfAll
  <2> QED BY <2>1, <2>2, RanksOfAll, Before DEF Restart
<1>5. (GivingUp \/ Dropping) /\ Do("restart", "all")
  BY <1>4, StageOf DEF Restart, At, PutBackNext
<1>6. Held'
  BY <1>1, <1>3, <1>5, HeldAfterStart, DeletesCopies
<1>7. \A a \in Area :
        /\ fs'[a].old = fs[a].old /\ fs'[a].new = fs[a].new
        /\ fs'[a].unit = fs[a].unit /\ fs'[a].drop = fs[a].drop
        /\ Home(fs[a]) => fs'[a] = fs[a]
        /\ Moved(fs[a]) => Moved(fs'[a])
        /\ fs[a].tgt \notin {"none", "empty"} => fs'[a].tgt = fs[a].tgt
        /\ fs[a].live # "data" => fs'[a].live # "data"
  BY <1>3, StartKeeps
<1>8. Spare
  BY <1>5 DEF GivingUp, Dropping
<1>9. Spare'
  <2>1. ~Removing'
    BY <1>2, <1>4 DEF Removing
  <2>2. \A b : ~Do("removing", b)' /\ ~Do("remove", b)'
    BY <1>2, <1>4
  <2> QED BY <1>1, <1>7, <1>8, <2>1, <2>2 DEF Spare
<1>10. Fine /\ ~err /\ docker' => OnData'
  <2>1. ~err /\ file.target = "folder" => \A a \in Area : Untouched(fs'[a])
    BY <1>7, <1>8 DEF Spare
  <2>2. ~err /\ ~said /\ file.target # "folder" => \A a \in Area : Foldered(fs'[a])
    BY <1>7, <1>8 DEF Spare
  <2> QED BY <1>6, <2>1, <2>2 DEF Held, DockerHasItsMounts, OnData, View
<1>11. AppsAreBack'
  <2>1. Fine => state.noted
    BY <1>5, DeletesCopies DEF GivingUp, Dropping, PuttingBack, Recovering
  <2>2. unstarted' \/ apps' = (docker' /\ OnData' /\ (apps \/ state.noted))
    BY DEF Restart
  <2> QED BY <1>1, <1>10, <2>1, <2>2 DEF AppsAreBack
<1>12. (GivingUp => Left({"removing", "remove", "restart", "fail"})')
       /\ (Dropping => Left({"removing", "remove", "restart", "recovered"})')
  BY TakenOff DEF Restart, Left, GivingUp, Dropping
<1>13. GivingUp => GivingUp'
  BY <1>1, <1>2, <1>9, <1>11, <1>12 DEF GivingUp
<1>14. Dropping => Dropping'
  <2>1. Dropping => Fresh'
    BY <1>1, <1>7, DeletesCopies DEF Fresh, Dropping, PuttingBack, Held, HeldFolder
  <2>2. ~Removing'
    BY <1>2, <1>4 DEF Removing
  <2> QED BY <1>1, <1>2, <1>9, <1>11, <1>12, <2>1, <2>2 DEF Dropping, PuttingBack, Recovering
<1> QED BY <1>5, <1>6, <1>13, <1>14 DEF InScript, AMove, ARecovery

\* A move that failed is over: what is shown is where Docker is.
LEMMA FailStep ==
  ASSUME TypeOK, Held, InScript, Accounted', Fail
  PROVE  Held' /\ InScript'
<1>1. UNCHANGED <<fs, unsynced, disk, docker, apps, cut, undos, stuck, err, mixed, unnoted, blind, relisted, unstarted>>
  BY DEF Fail, KeepUndo, disks, run
<1>2. GivingUp /\ Going /\ (Early \/ file.undoing)
  BY StageOf DEF Fail, At, GivingUp
<1>3. ~Do("restart", "all") /\ \A b : ~Do("removing", b) /\ ~Do("remove", b)
  <2>1. \A p, b : p \in {"removing", "remove"}
          => Rank(p, b) \in Nat /\ Rank("fail", "all") \in Nat /\ Rank(p, b) < Rank("fail", "all")
    BY RanksOfAll, RanksOfArea DEF later
  <2>2. Rank("restart", "all") \in Nat /\ Rank("restart", "all") < Rank("fail", "all")
    BY RanksOfAll
  <2> QED BY <2>1, <2>2, RanksOfAll, Before DEF Fail
<1>4. /\ state = file /\ ~Busy(cut)
      /\ (ToFolder /\ file.target = "folder" /\ HeldFolder) \/ (ToDefault /\ file.target = "default" /\ HeldDefault)
  BY <1>2, OneRecord DEF Held
<1>5. /\ file' = [file EXCEPT !.phase = "failed", !.location = location, !.from = "default",
                              !.noted = FALSE, !.undoing = FALSE]
      /\ state' = file' /\ todo' = {} /\ said' = (said \/ err)
  BY <1>4 DEF Fail, Set
<1>6. file'.phase = "failed" /\ file'.location = location /\ file'.target = file.target /\ file'.old = file.old
  BY <1>5 DEF TypeOK, MoveState
<1>7. Spare /\ (Fine /\ ~err /\ docker => apps \/ unstarted)
  BY <1>2, <1>3 DEF GivingUp, AppsAreBack
<1>8. ~said' => ~said /\ ~err
  BY <1>5 DEF TypeOK
<1>9. said' => ~mixed /\ ~relisted
  BY <1>1 DEF Accounted
<1>10. CASE file.target = "folder"
  <2>1. HeldFolder /\ (~err => \A a \in Area : Untouched(fs[a]))
    BY <1>4, <1>7, <1>10 DEF Spare
  <2>2. \A a \in Area : Home(fs[a]) \/ Moved(fs[a])
    BY <2>1 DEF HeldFolder
  <2>3. \A a \in Area : <<a, "tgt">> \in file.old => Home(fs[a]) /\ ~fs["docker"].unit /\ relisted
    BY <1>8, <1>9, <2>1 DEF HeldFolder, TypeOK
  <2>4. fs["docker"].unit => fs["containerd"].tgt = "data"
    BY <1>2, <2>1 DEF HeldFolder
  <2>5. unsynced # {} => \A b \in Area : Home(fs[b])
    BY <2>1 DEF HeldFolder
  <2>6. HeldIdle'
    BY <1>1, <1>4, <1>6, <1>7, <1>8, <2>1, <2>2, <2>3, <2>4, <2>5 DEF HeldIdle, location
  <2> QED BY <1>1, <1>4, <1>5, <1>6, <1>8, <2>6, StepIs
       DEF Held, InScript, Idle, Left, Records, DockerHasItsMounts, OnlyWhenTold, View
<1>11. CASE file.target # "folder"
  <2>1. HeldDefault /\ (~said /\ ~err => \A a \in Area : Foldered(fs[a]))
    BY <1>4, <1>7, <1>11 DEF Spare
  <2>2. \A a \in Area : Home(fs[a]) \/ Moved(fs[a])
    BY <2>1 DEF HeldDefault
  <2>3. fs["docker"].unit => fs["containerd"].tgt = "data"
    BY <1>2, <2>1 DEF HeldDefault
  <2>4. HeldIdle'
    BY <1>1, <1>4, <1>6, <1>7, <1>8, <1>11, <2>1, <2>2, <2>3 DEF HeldIdle, HeldDefault, location
  <2> QED BY <1>1, <1>4, <1>5, <1>6, <1>8, <2>4, StepIs
       DEF Held, InScript, Idle, Left, Records, DockerHasItsMounts, OnlyWhenTold, View
<1> QED BY <1>10, <1>11

-----------------------------------------------------------------------------
(* A move cut short.                                                       *)

\* What load makes of the records.
LEMMA Loaded ==
  ASSUME TypeOK, Load
  PROVE  /\ Busy(file) => cut' = file /\ state' = [file EXCEPT !.phase = "failed"]
         /\ ~Busy(file) => ~Busy(cut') /\ state' = file /\ todo' = {} /\ unnoted' = unnoted
         /\ undos' = {} /\ err' = FALSE /\ (unnoted => unnoted')
         /\ Busy(file) /\ ~file.noted => unnoted'
         /\ UNCHANGED <<file, mixed, blind, relisted, said>>
         /\ Busy(file) => Do("recover", "all")' /\ Left({"recover"})'
<1>1. Busy(file) => Do("recover", "all")' /\ Left({"recover"})'
  BY InAll DEF Load, Left
<1>2. unnoted' = (unnoted \/ (Busy(file) /\ ~file.noted)) /\ unnoted \in BOOLEAN
  BY DEF Load, TypeOK
<1>3. /\ (unnoted => unnoted') /\ (Busy(file) /\ ~file.noted => unnoted')
      /\ ~Busy(file) => unnoted' = unnoted
  BY <1>2
<1>4. ~Busy(file) => ~Busy(cut') /\ state' = file /\ todo' = {}
  BY DEF Load, NoMove
<1> QED BY <1>1, <1>3, <1>4 DEF Load

LEMMA LoadedInScript ==
  ASSUME TypeOK, Held, Load
  PROVE  InScript' /\ Records' /\ OnlyWhenTold'
<1>1. Records' /\ OnlyWhenTold'
  BY Loaded DEF Held, Records, OnlyWhenTold
<1>2. Busy(file) => RecoverNext'
  BY Loaded DEF RecoverNext, Recovering, TypeOK
<1>3. ~Busy(file) => Idle'
  BY Loaded DEF Idle, Left
<1> QED BY <1>1, <1>2, <1>3 DEF InScript, ARecovery

LEMMA StopStep ==
  ASSUME TypeOK, Held, Stop
  PROVE  Held' /\ InScript'
<1>1. UNCHANGED <<fs, unsynced, disk, docker, apps, unstarted>> /\ Load
  BY DEF Stop, disks, run
<1>2. Records' /\ OnlyWhenTold' /\ InScript'
  BY <1>1, LoadedInScript
<1>3. UNCHANGED <<file, mixed, blind, relisted, said>> /\ (~Busy(file) => ~Busy(cut') /\ unnoted' = unnoted)
  BY <1>1, Loaded
<1>4. DockerHasItsMounts'
  BY <1>1 DEF Held, DockerHasItsMounts, View
<1>5. ~Busy(file) => HeldIdle'
  BY <1>1, <1>3 DEF Held, HeldIdle, location
<1>6. (ToFolder => HeldFolder') /\ (ToDefault => HeldDefault')
  BY <1>1, <1>3 DEF Held, HeldFolder, HeldDefault
<1> QED BY <1>2, <1>3, <1>4, <1>5, <1>6 DEF Held

\* What an area's folders are after a boot: the copy that was not flushed is not
\* whole, and the mounts that are asked for are there if they can be.
LEMMA BootKeeps ==
  ASSUME TypeOK, Boot, NEW a \in Area
  PROVE  LET flushed == a \notin unsynced \/ dst(Target) = "new" IN
         /\ fs'[a].old = fs[a].old
         /\ fs'[a].new = fs[a].new \/ (fs[a].new # "none" /\ fs'[a].new # "none")
         /\ fs'[a].unit = fs[a].unit /\ fs'[a].drop = fs[a].drop /\ fs'[a].on = fs[a].on
         /\ Home(fs[a]) => Home(fs'[a])
         /\ flushed /\ Moved(fs[a]) => Moved(fs'[a])
         /\ flushed /\ fs[a].tgt \notin {"none", "empty"} => fs'[a].tgt = fs[a].tgt
         /\ Home(fs[a]) /\ fs[a].tgt # "empty" => fs'[a].tgt # "empty"
         /\ docker' => (Asked(fs'[a]) => fs'[a].mnt) /\ ~EmptyOrMissing(View(a)')
         /\ disk' /\ Asked(fs[a]) /\ fs[a].tgt # "none" => fs'[a].mnt
         /\ fs'[a] \in Folders
<1> DEFINE flushed == a \notin unsynced \/ dst(Target) = "new"
           Kept(b)  == IF b \in unsynced /\ fs[b][dst(Target)] # "none"
                       THEN [fs[b] EXCEPT ![dst(Target)] = "partial"] ELSE fs[b]
           Down(b)  == [Kept(b) EXCEPT !.mnt = FALSE]
           Up(b, d) == IF Down(b).unit /\ (Down(b).on \/ Down(b).drop) /\ d /\ Down(b).tgt # "none"
                       THEN Bound(Down(b)) ELSE Down(b)
           f == [b \in Area |-> Up(b, disk')]
<1>1. IF Startable(f, disk') THEN docker' = TRUE /\ fs' = Started(f)
                             ELSE docker' = FALSE /\ fs' = f
  BY DEF Boot
<1>2. dst(Target) \in {"new", "tgt"}
  BY DEF dst
<1>3. \A b \in Area : Kept(b) \in Folders
  BY <1>2 DEF TypeOK, Content
<1>4. /\ Kept(a).live = fs[a].live /\ Kept(a).old = fs[a].old
      /\ Kept(a).unit = fs[a].unit /\ Kept(a).drop = fs[a].drop /\ Kept(a).on = fs[a].on
      /\ Kept(a).new = fs[a].new \/ (fs[a].new # "none" /\ Kept(a).new = "partial")
      /\ Kept(a).tgt = fs[a].tgt \/ (fs[a].tgt # "none" /\ Kept(a).tgt = "partial" /\ ~flushed)
  BY <1>2 DEF TypeOK
<1> HIDE DEF Kept, flushed
<1>5. /\ \A b \in Area : Down(b) \in Folders
      /\ Down(a).live = Kept(a).live /\ Down(a).old = Kept(a).old /\ Down(a).new = Kept(a).new
      /\ Down(a).unit = Kept(a).unit /\ Down(a).drop = Kept(a).drop /\ Down(a).on = Kept(a).on
      /\ Down(a).tgt = Kept(a).tgt /\ ~Down(a).mnt
  BY <1>3
<1> HIDE DEF Down
<1>6. /\ \A b \in Area : Up(b, disk') \in Folders
      /\ Up(a, disk').old = Down(a).old /\ Up(a, disk').new = Down(a).new
      /\ Up(a, disk').unit = Down(a).unit /\ Up(a, disk').drop = Down(a).drop /\ Up(a, disk').on = Down(a).on
      /\ Up(a, disk').tgt = Down(a).tgt
      /\ Up(a, disk').live = Down(a).live \/ (Down(a).live = "none" /\ Up(a, disk').live = "empty" /\ Up(a, disk').mnt)
      /\ Up(a, disk').mnt <=> Down(a).unit /\ (Down(a).on \/ Down(a).drop) /\ disk' /\ Down(a).tgt # "none"
  BY <1>5, BoundIs
<1> HIDE DEF Up
<1>7. f \in [Area -> Folders] /\ f[a] = Up(a, disk')
  BY <1>6
<1> HIDE DEF f
<1>8. /\ f[a].old = fs[a].old
      /\ f[a].new = fs[a].new \/ (fs[a].new # "none" /\ f[a].new # "none")
      /\ f[a].unit = fs[a].unit /\ f[a].drop = fs[a].drop /\ f[a].on = fs[a].on
      /\ Home(fs[a]) => Home(f[a])
      /\ flushed /\ Moved(fs[a]) => Moved(f[a])
      /\ f[a].tgt = fs[a].tgt \/ (f[a].tgt = "partial" /\ fs[a].tgt # "none" /\ ~flushed)
      /\ disk' /\ Asked(fs[a]) /\ fs[a].tgt # "none" => f[a].mnt
  BY <1>4, <1>5, <1>6, <1>7
<1>9. CASE docker' = TRUE /\ fs' = Started(f)
  <2>1. fs'[a] = Started(f)[a]
    BY <1>9
  <2>2. fs'[a] \in Folders
    BY <1>7, <2>1, StartedIs
  <2>3. Home(f[a]) => fs'[a] = f[a]
    BY <1>7, <2>1, StartedIs
  <2> QED BY <1>7, <1>8, <1>9, <2>1, <2>2, <2>3, StartedIs DEF flushed, View
<1>10. CASE docker' = FALSE /\ fs' = f
  BY <1>7, <1>8, <1>10 DEF flushed
<1> QED BY <1>1, <1>9, <1>10

\* A copy that is not flushed yet is the new one, of a move that switched nothing.
LEMMA UnsyncedIs ==
  ASSUME TypeOK, Held, unsynced # {}
  PROVE  /\ Target = file.target /\ (ToFolder \/ ToDefault => Early)
         /\ Target = "folder" => \A a \in Area : Home(fs[a])
BY DEF TypeOK, MoveState, Where, Held, Records, HeldIdle, HeldFolder, HeldDefault, Target

LEMMA BootStep ==
  ASSUME TypeOK, Held, Boot
  PROVE  Held' /\ InScript'
<1>1. Load /\ unsynced' = {}
  BY DEF Boot
<1>2. Records' /\ OnlyWhenTold' /\ InScript'
  BY <1>1, LoadedInScript
<1>3. UNCHANGED <<file, mixed, blind, relisted, said>> /\ (~Busy(file) => ~Busy(cut') /\ unnoted' = unnoted)
  BY <1>1, Loaded
<1>4. DockerHasItsMounts'
  BY BootKeeps DEF DockerHasItsMounts
<1>5. \A a \in Area :
        /\ fs'[a].old = fs[a].old
        /\ fs'[a].new = fs[a].new \/ (fs[a].new # "none" /\ fs'[a].new # "none")
        /\ fs'[a].unit = fs[a].unit /\ fs'[a].drop = fs[a].drop /\ fs'[a].on = fs[a].on
        /\ Home(fs[a]) => Home(fs'[a])
        /\ Home(fs[a]) /\ fs[a].tgt # "empty" => fs'[a].tgt # "empty"
        /\ disk' /\ Asked(fs[a]) /\ fs[a].tgt # "none" => fs'[a].mnt
  BY BootKeeps
<1>6. \A a \in Area : /\ Moved(fs[a]) => Moved(fs'[a])
                      /\ ~Home(fs[a]) /\ fs[a].tgt \notin {"none", "empty"} => fs'[a].tgt = fs[a].tgt
                      /\ file.target = "default" /\ fs[a].tgt \notin {"none", "empty"} => fs'[a].tgt = fs[a].tgt
  BY BootKeeps, UnsyncedIs DEF dst, TypeOK, MoveState, Where
<1>7. ~Busy(file) => HeldIdle'
  <2>1. ~said /\ docker' => (\A a \in Area : View(a)' = "data") \/ Busy(file)
    BY <1>4, <1>5, <1>6 DEF Held, HeldIdle, DockerHasItsMounts, View
  <2>2. ~Busy(file) /\ ~said /\ docker' => apps'
    BY <2>1 DEF Boot, View
  <2>3. fs["docker"].unit /\ fs["containerd"].tgt = "data" => fs'["containerd"].tgt = "data"
    <3>1. CASE unsynced = {}
      BY <3>1, BootKeeps
    <3>2. CASE unsynced # {}
      BY <3>2, UnsyncedIs, BootKeeps DEF dst, TypeOK, MoveState, Where
    <3> QED BY <3>1, <3>2
  <2>4. ASSUME ~Busy(file)
        PROVE  /\ \A a \in Area : Home(fs'[a]) \/ Moved(fs'[a])
               /\ \A a \in Area : <<a, "tgt">> \in file.old =>
                    Home(fs'[a]) /\ ~fs'["docker"].unit /\ (relisted \/ fs'[a].tgt # "empty")
               /\ file.location = location'
               /\ fs'["docker"].unit /\ ~fs'["docker"].drop => fs'["containerd"].tgt = "data"
    BY <1>5, <1>6, <2>3, <2>4 DEF Held, HeldIdle, location
  <2>5. ~Busy(file) /\ ~said => (\A a \in Area : Home(fs'[a])) \/ (\A a \in Area : Foldered(fs'[a]))
    BY <1>5, <1>6 DEF Held, HeldIdle
  <2> QED BY <1>1, <1>3, <2>2, <2>4, <2>5 DEF HeldIdle
<1>8. ToFolder => HeldFolder'
  <2>1. CASE unsynced # {}
    BY <1>1, <1>3, <1>5, <2>1, UnsyncedIs DEF Held, HeldFolder
  <2>2. CASE unsynced = {}
    <3>1. \A a \in Area : fs[a].tgt \notin {"none", "empty"} => fs'[a].tgt = fs[a].tgt
      BY <2>2, BootKeeps
    <3> QED BY <1>1, <1>3, <1>5, <1>6, <3>1 DEF Held, HeldFolder
  <2> QED BY <2>1, <2>2
<1>9. ToDefault => HeldDefault'
  BY <1>1, <1>3, <1>5, <1>6 DEF Held, HeldDefault
<1> QED BY <1>2, <1>3, <1>4, <1>7, <1>8, <1>9 DEF Held

\* The record of a move that a recovery deals with.
LEMMA CutRecord ==
  ASSUME TypeOK, Held, Recovering
  PROVE  /\ cut = file /\ state = [file EXCEPT !.phase = "failed"] /\ file.from # file.target
         /\ Target = file.target
         /\ (ToFolder /\ file.target = "folder" /\ cut.from = "default" /\ HeldFolder)
              \/ (ToDefault /\ file.target = "default" /\ cut.from = "folder" /\ HeldDefault)
BY DEF TypeOK, MoveState, Where, Held, Records, Recovering, Target

\* A switch that had ended is judged by the disk: what it says holds.
LEMMA KeepsWhatEnded ==
  ASSUME TypeOK, Held, RecoverNext, RecoverKeeps
  PROVE  SwitchEnded
<1>1. Recovering
  BY DEF RecoverNext
<1>2. CASE file.target = "folder"
  BY <1>1, <1>2, CutRecord
  DEF RecoverKeeps, SwitchEnded, switchDone, checkSwitched, InFolder, HeldFolder
<1>3. CASE file.target = "default"
  BY <1>1, <1>3, CutRecord
  DEF RecoverKeeps, SwitchEnded, switchDone, checkSwitched, Has, HeldDefault
<1> QED BY <1>1, <1>2, <1>3, CutRecord

\* And one that is put back has left the data where it was.
LEMMA PutsBackWhatIsFresh ==
  ASSUME TypeOK, Held, RecoverNext, ~RecoverKeeps,
         disk \/ (cut.from # "folder" /\ \A a \in Area : fs[a].old # "stale")
  PROVE  PuttingBack
<1>1. Recovering
  BY DEF RecoverNext
<1>2. CASE file.target = "folder"
  <2>1. Fresh
    BY <1>1, <1>2, CutRecord
    DEF RecoverKeeps, Fresh, switchDone, checkSwitched, InFolder, HeldFolder
  <2> QED BY <1>1, <1>2, <2>1, CutRecord DEF PuttingBack, RecoverKeeps
<1>3. CASE file.target = "default"
  <2>1. Fresh
    BY <1>1, <1>3, CutRecord
    DEF RecoverKeeps, Fresh, switchDone, checkSwitched, Has, View, HeldDefault
  <2> QED BY <1>1, <1>3, <2>1, CutRecord DEF PuttingBack, RecoverKeeps
<1> QED BY <1>1, <1>2, <1>3, CutRecord

LEMMA RecoverTakesUp ==
  ASSUME TypeOK, Held, InScript, Accounted', Recover
  PROVE  Held' /\ InScript'
<1>1. RecoverNext /\ Recovering
  BY StageOf DEF Recover, At, RecoverNext
<1>2. UNCHANGED <<fs, unsynced, disk, docker, apps, state, file, cut, undos, stuck, err, mixed, unnoted, relisted, said, unstarted>>
  BY DEF Recover, KeepUndo, disks, run, mover
<1>3. disk \/ (cut.from # "folder" /\ \A a \in Area : fs[a].old # "stale")
  BY DEF Recover, Accounted
<1>4. Held'
  BY <1>1, <1>2, HeldStays DEF Recovering
<1>5. CASE RecoverKeeps
  <2> DEFINE S == {a \in Area : InFolder(a)}
             E == cut.phase = "switching" /\ cut.target = "folder"
  <2>1. SwitchEnded
    BY <1>1, <1>5, KeepsWhatEnded
  <2>2. todo' = (IF E THEN PerArea({"enableUnit"}, S) ELSE {}) \cup All({"startServices", "verifyKept"})
    BY <1>5 DEF Recover
  <2> HIDE DEF S
  <2>3. /\ Do("verifyKept", "all")' /\ Left({"enableUnit", "startServices", "verifyKept"})'
        /\ (\E a \in Area : Do("enableUnit", a)') => E
    BY <2>2, InAll, InPerArea DEF Left
  <2>4. E => file.target = "folder" /\ file.phase = "switching"
    BY <1>1, CutRecord
  <2>5. Keeping'
    BY <1>1, <1>2, <2>1, <2>3, <2>4 DEF Keeping, Recovering, SwitchEnded
  <2> QED BY <1>4, <2>5 DEF InScript, ARecovery
<1>6. CASE ~RecoverKeeps
  <2>1. PuttingBack
    BY <1>1, <1>3, <1>6, PutsBackWhatIsFresh
  <2>2. todo' = All({"quiesceCut"})
    BY <1>6 DEF Recover
  <2>3. Do("quiesceCut", "all")' /\ Left({"quiesceCut"})'
    BY <2>2, InAll DEF Left
  <2>4. QuiesceNext'
    BY <1>2, <2>1, <2>3 DEF QuiesceNext, PuttingBack, Recovering, Fresh
  <2> QED BY <1>4, <2>4 DEF InScript, ARecovery
<1> QED BY <1>5, <1>6

-----------------------------------------------------------------------------
(* A switch that had ended is kept.                                        *)

LEMMA EnableUnitStep ==
  ASSUME TypeOK, Held, InScript, NEW a \in Area, EnableUnit(a)
  PROVE  Held' /\ InScript'
<1>1. At("enableUnit", a) /\ Then("enableUnit", a)
  BY DEF EnableUnit, UndoStep
<1>2. Keeping /\ Recovering /\ SwitchEnded /\ file.target = "folder" /\ file.phase = "switching"
  BY <1>1, StageOf DEF At, Keeping
<1>3. UNCHANGED <<unsynced, disk, docker, apps, state, file, cut, undos, stuck, mixed, unnoted, blind, relisted, said, unstarted>>
  BY DEF EnableUnit, UndoStep, run, mover, history
<1>4. \A p, b : Do(p, b)' <=> Do(p, b) /\ ~(p = "enableUnit" /\ b = a)
  BY <1>1, TakenOff
<1>5. Left({"enableUnit", "startServices", "verifyKept"})'
  BY <1>1, <1>2, TakenOff DEF Keeping, Left
<1>6. fs' \in {fs, [fs EXCEPT ![a] = [Bound(fs[a]) EXCEPT !.on = TRUE]]}
  BY DEF EnableUnit, UndoStep
<1>7. \A b \in Area : /\ fs'[b].tgt = fs[b].tgt /\ (fs'[b].live = fs[b].live \/ fs'[b].live = "empty")
                      /\ fs'[b].unit = fs[b].unit /\ fs'[b].drop = fs[b].drop
                      /\ fs'[b].old = fs[b].old /\ (fs[b].mnt => fs'[b].mnt)
  BY <1>6, BoundIs DEF TypeOK
<1>8. \A b \in Area : Foldered(fs'[b])
  BY <1>2, <1>7 DEF SwitchEnded
<1>9. Held'
  BY <1>2, <1>3, <1>7, <1>8, CutRecord
  DEF SwitchEnded, Held, Records, DockerHasItsMounts, OnlyWhenTold, HeldFolder, View
<1>10. Keeping'
  BY <1>2, <1>3, <1>4, <1>5, <1>8 DEF Keeping, Recovering, SwitchEnded
<1> QED BY <1>9, <1>10 DEF InScript, ARecovery

LEMMA VerifyKeptStep ==
  ASSUME TypeOK, Held, InScript, VerifyKept
  PROVE  Held' /\ InScript'
<1>1. Keeping /\ Recovering /\ SwitchEnded
  BY StageOf DEF VerifyKept, At, Keeping
<1>2. UNCHANGED <<fs, unsynced, disk, docker, state, file, cut, undos, stuck, err, mixed, unnoted, blind, relisted>>
  BY DEF VerifyKept, KeepUndo, disks, mover
<1>3. /\ Do("finishKept", "all")' /\ Do("recovered", "all")'
      /\ Left({"finishKept", "keepOld", "recovered"})'
  BY InAll DEF VerifyKept, Left
<1>4. docker => OnData
  BY <1>1, CutRecord DEF SwitchEnded, Held, DockerHasItsMounts, OnData, View
<1>5. (apps' = OnData /\ UNCHANGED said) \/ said'
  BY DEF VerifyKept
<1>6. Held'
  BY <1>1, <1>2, <1>5, HeldStays DEF Recovering
<1>7. FinishingKept'
  BY <1>1, <1>2, <1>3, <1>4, <1>5 DEF FinishingKept, Recovering, SwitchEnded
<1> QED BY <1>6, <1>7 DEF InScript, ARecovery

LEMMA FinishKeptStep ==
  ASSUME TypeOK, Held, InScript, FinishKept
  PROVE  Held' /\ InScript'
<1>1. FinishingKept /\ Recovering /\ SwitchEnded
  BY StageOf DEF FinishKept, At, FinishingKept
<1>2. UNCHANGED <<fs, unsynced, disk, docker, apps, cut, undos, stuck, err, mixed, unnoted, blind, relisted, said, unstarted>>
  BY DEF FinishKept, KeepUndo, disks, run, past, history
<1>3. /\ cut = file /\ state = [file EXCEPT !.phase = "failed"]
      /\ (file.target = "folder" /\ cut.from = "default" /\ HeldFolder)
           \/ (file.target = "default" /\ cut.from = "folder" /\ HeldDefault)
  BY <1>1, CutRecord
<1>4. file' = finished(state, cut.from, location) /\ state' = file'
  BY DEF FinishKept, Set
<1>5. location = file.target
  BY <1>1, <1>3 DEF SwitchEnded, location
<1>6. /\ file'.phase = "done" /\ file'.location = location /\ file'.target = "default"
      /\ \A a \in Area : <<a, "tgt">> \in file'.old =>
           /\ file.target = "default"
           /\ <<a, "tgt">> \in file.old \/ fs[a].tgt # "none"
  BY <1>3, <1>4, <1>5 DEF TypeOK, MoveState, finished, oldCopy, inUse, Has, InFolder
<1>7. unsynced = {}
  BY <1>1, <1>3 DEF SwitchEnded, HeldFolder, HeldDefault
<1>8. ASSUME file.target = "folder" PROVE HeldIdle'
  <2>1. \A a \in Area : Foldered(fs[a])
    BY <1>1, <1>8 DEF SwitchEnded
  <2> QED BY <1>1, <1>2, <1>6, <1>7, <1>8, <2>1 DEF HeldIdle, location, FinishingKept
<1>9. ASSUME file.target = "default" PROVE HeldIdle'
  <2>1. (\A a \in Area : Returned(fs[a])) /\ HeldDefault
    BY <1>1, <1>3, <1>9 DEF SwitchEnded
  <2> QED BY <1>1, <1>2, <1>6, <1>7, <1>9, <2>1 DEF HeldIdle, HeldDefault, location, FinishingKept
<1>10. HeldIdle'
  BY <1>3, <1>8, <1>9
<1>11. Held'
  BY <1>2, <1>4, <1>6, <1>10 DEF Held, Records, DockerHasItsMounts, OnlyWhenTold, View
<1>12. \A p, b : Do(p, b)' <=> Do(p, b) /\ ~(p = "finishKept" /\ b = "all")
  BY TakenOff DEF FinishKept
<1>13. Left({"keepOld", "recovered"})'
  <2> SUFFICES ASSUME NEW s \in todo'
               PROVE  s.op \in {"keepOld", "recovered"}
    BY DEF Left
  <2>1. s \in todo /\ s # Step("finishKept", "all")
    BY DEF FinishKept, Then
  <2>2. s.op \in {"finishKept", "keepOld", "recovered"}
    BY <1>1, <2>1 DEF FinishingKept, Left
  <2> QED BY <2>1, <2>2, StepLeft DEF AreaOps
<1>14. KeptOver'
  BY <1>1, <1>2, <1>6, <1>12, <1>13 DEF FinishingKept, Recovering, KeptOver
<1> QED BY <1>11, <1>14 DEF InScript, ARecovery

LEMMA KeepOldStep ==
  ASSUME TypeOK, Held, InScript, KeepOld
  PROVE  Held' /\ InScript'
<1>1. KeptOver
  <2>1. ~Do("finishKept", "all")
    BY Before, RanksOfAll DEF KeepOld
  <2> QED BY <2>1, StageOf DEF KeepOld, At, FinishingKept
<1>2. UNCHANGED <<fs, unsynced, disk, docker, apps, cut, undos, stuck, err, mixed, unnoted, blind, relisted, said, unstarted>>
  BY DEF KeepOld, KeepUndo, disks, run, past, history
<1>3. state = file /\ ~Busy(file) /\ HeldIdle
  BY <1>1 DEF KeptOver, Held, Records
<1>4. file' = [file EXCEPT !.old = file.old \ oldCopy(cut.from)] /\ state' = file'
  BY <1>3 DEF KeepOld, Set
<1>5. /\ file'.phase = file.phase /\ file'.location = file.location /\ file'.target = file.target
      /\ file'.old \subseteq file.old
  BY <1>4 DEF TypeOK, MoveState
<1>6. HeldIdle'
  BY <1>2, <1>3, <1>5 DEF HeldIdle, location
<1>7. Held'
  BY <1>2, <1>3, <1>4, <1>5, <1>6 DEF Held, Records, DockerHasItsMounts, OnlyWhenTold, View
<1>8. \A p, b : Do(p, b)' <=> Do(p, b) /\ ~(p = "keepOld" /\ b = "all")
  BY TakenOff DEF KeepOld
<1>9. Left({"keepOld", "recovered"})'
  BY <1>1, TakenOff DEF KeepOld, KeptOver, Left
<1>10. KeptOver'
  BY <1>1, <1>2, <1>3, <1>5, <1>8, <1>9 DEF KeptOver
<1> QED BY <1>7, <1>10 DEF InScript, ARecovery

-----------------------------------------------------------------------------
(* Any other is put back.                                                  *)

LEMMA QuiesceCutStep ==
  ASSUME TypeOK, Held, InScript, QuiesceCut
  PROVE  Held' /\ InScript'
<1>1. QuiesceNext /\ PuttingBack /\ Recovering
  BY StageOf DEF QuiesceCut, At, QuiesceNext, PuttingBack
<1>2. UNCHANGED <<fs, unsynced, disk, state, file, cut, undos, stuck, mixed, unnoted, blind, relisted, said>>
  BY DEF QuiesceCut, disks, mover, history
<1>3. docker' => docker
  BY DEF QuiesceCut, Quiesced, NotQuiesced
<1>4. Held'
  BY <1>1, <1>2, <1>3, HeldStays DEF Recovering
<1>5. PuttingBack'
  BY <1>1, <1>2 DEF PuttingBack, Recovering, Fresh
<1> DEFINE Back == IF cut.phase # "switching" THEN {}
                   ELSE IF cut.from = "default"
                        THEN PerArea({"backUnmount", "backUnwrite", "backRename"}, Area)
                        ELSE PerArea({"bindAside", "bindUnit", "bindDropIn"}, Area)
                             \cup PerArea({"bindMount"}, Area) \cup All({"bindCheck"})
<1>6. CASE /\ Quiesced /\ UNCHANGED err
           /\ todo' = PerArea({"setAside"}, Area) \cup Back \cup All({"dropCopies", "restart", "recovered"})
  <2>1. /\ \A p, b : Step(p, b) \in Back =>
             /\ file.phase = "switching"
             /\ (file.target = "folder" /\ p \in BackSteps) \/ (file.target = "default" /\ p \in BindSteps)
        /\ \A s \in Back : s.op \in BackSteps \cup BindSteps
        /\ file.target = "folder" /\ file.phase = "switching" =>
             \A a \in Area : \A p \in BackSteps : Step(p, a) \in Back
        /\ file.target = "default" /\ file.phase = "switching" =>
             \A a \in Area : \A p \in {"bindAside", "bindUnit", "bindDropIn"} : Step(p, a) \in Back
    BY <1>1, CutRecord, InAll, InPerArea DEF BackSteps, BindSteps
  <2>2. \A s \in Back : file.phase = "switching"
    BY <1>1, CutRecord
  <2>3. /\ (\E s \in Back : s.op \in BackSteps) => file.target = "folder"
        /\ (\E s \in Back : s.op \in BindSteps) => file.target = "default"
    BY <1>1, CutRecord, InAll, InPerArea DEF BackSteps, BindSteps
  <2> HIDE DEF Back
  <2>4. \A p, b : Do(p, b)' <=>
          \/ p = "setAside" /\ b \in Area
          \/ Step(p, b) \in Back
          \/ p \in {"dropCopies", "restart", "recovered"} /\ b = "all"
    BY <1>6, InAll, InPerArea
  <2>5. \A s \in todo' : s \in Back \/ s.op \in {"setAside", "dropCopies", "restart", "recovered"}
    BY <1>6, InAll, InPerArea
  <2>6. Left({"setAside", "dropCopies", "restart", "recovered"} \cup BackSteps \cup BindSteps)'
    BY <2>1, <2>5 DEF Left
  <2>7. /\ (\E s \in todo' : s.op \in BackSteps) => file.target = "folder" /\ file.phase = "switching"
        /\ (\E s \in todo' : s.op \in BindSteps) => file.target = "default" /\ file.phase = "switching"
    BY <1>1, <2>2, <2>3, <2>5, CutRecord DEF BackSteps, BindSteps
  <2>8. file.target = "folder" => \A a \in Area : BackInOrder(a)'
    <3>1. CASE file.phase = "switching"
      BY <2>1, <2>4, <3>1 DEF BackInOrder, BackSteps
    <3>2. CASE file.phase # "switching" /\ file.target = "folder"
      <4>1. \A a \in Area : Home(fs[a])
        BY <1>1, <3>2, CutRecord DEF PuttingBack, HeldFolder
      <4> QED BY <1>2, <4>1 DEF BackInOrder
    <3> QED BY <3>1, <3>2
  <2>9. file.target = "default" /\ file.phase = "switching" => \A a \in Area : BindInOrder(a)'
    BY <2>1, <2>4 DEF BindInOrder
  <2>10. PutBackNext'
    BY <1>1, <1>2, <1>5, <1>6, <2>4, <2>6, <2>7, <2>8, <2>9, CutRecord DEF PutBackNext, Quiesced
  <2> QED BY <1>4, <2>10 DEF InScript, ARecovery
<1>7. CASE NotQuiesced /\ err' = TRUE /\ todo' = All({"restart", "recovered"})
  <2>1. \A p, b : Do(p, b)' <=> p \in {"restart", "recovered"} /\ b = "all"
    BY <1>7, InAll
  <2>2. Left({"removing", "remove", "restart", "recovered"})'
    BY <1>7, InAll DEF Left
  <2>3. ~Removing' /\ Spare' /\ AppsAreBack'
    BY <1>2, <1>7, <2>1 DEF Spare, Removing, AppsAreBack
  <2>4. Dropping'
    BY <1>2, <1>5, <2>1, <2>2, <2>3 DEF Dropping
  <2> QED BY <1>4, <2>4 DEF InScript, ARecovery
<1> QED BY <1>6, <1>7 DEF QuiesceCut

\* A step of the way back that leaves the areas in order.
LEMMA PutBackGoesOn ==
  ASSUME TypeOK, Held, PutBackNext, todo' \subseteq todo,
         \A p \in {"dropCopies", "restart", "recovered"} : Do(p, "all")',
         UNCHANGED <<disk, docker, file, cut, undos, unnoted, said>>,
         Fresh',
         file.target = "folder" => \A a \in Area : BackInOrder(a)',
         file.target = "default" /\ file.phase = "switching" => \A a \in Area : BindInOrder(a)',
         Held'
  PROVE  InScript'
<1>1. Left({"setAside", "dropCopies", "restart", "recovered"} \cup BackSteps \cup BindSteps)'
  BY DEF PutBackNext, Left
<1>2. PuttingBack /\ Recovering /\ PuttingBack'
  BY DEF PutBackNext, PuttingBack, Recovering
<1>3. PutBackNext'
  BY <1>1, <1>2, CutRecord DEF PutBackNext
<1> QED BY <1>3 DEF InScript, ARecovery

\* While Docker is stopped and the move is put back, only the folders matter.
LEMMA HeldInPutBack ==
  ASSUME TypeOK, Held, PutBackNext,
         UNCHANGED <<unsynced, disk, docker, state, file, cut, mixed, relisted, said>>,
         \A a \in Area : fs'[a].tgt = fs[a].tgt,
         file.target = "folder" =>
           \A a \in Area : /\ fs'[a] = fs[a] \/ Untouched(fs'[a]) \/ Aside(fs'[a])
                           /\ Untouched(fs[a]) => Untouched(fs'[a]),
         file.target = "default" =>
           /\ \A a \in Area : /\ Moved(fs'[a]) \/ Returned(fs'[a])
                              /\ fs[a].unit => fs'[a].unit
                              /\ Foldered(fs[a]) => Foldered(fs'[a])
           /\ file.phase = "switching" /\ ~file.undoing =>
                \/ \E a \in Area : fs'[a].unit \/ fs'[a].new # "none"
                \/ \A a \in Area : fs'[a].live = "data"
  PROVE  Held' /\ Fresh'
<1>1. PuttingBack /\ Recovering /\ Fresh /\ ~docker /\ file.phase # "starting"
  BY DEF PutBackNext, PuttingBack
<1>2. Records' /\ DockerHasItsMounts' /\ OnlyWhenTold'
  BY <1>1 DEF Held, Records, DockerHasItsMounts, OnlyWhenTold
<1>3. file.target = "folder" => HeldFolder' /\ Fresh'
  BY <1>1, CutRecord DEF HeldFolder, Fresh
<1>4. file.target = "default" => HeldDefault' /\ Fresh'
  BY <1>1, CutRecord DEF HeldDefault, Fresh
<1> QED BY <1>1, <1>2, <1>3, <1>4, CutRecord DEF Held

\* What is known where a step of the way back is taken.
LEMMA InPutBack ==
  ASSUME TypeOK, Held, PutBackNext
  PROVE  /\ Recovering /\ Fresh /\ ~docker /\ file.phase # "starting"
         /\ \/ /\ file.target = "folder" /\ ToFolder /\ cut.from = "default" /\ HeldFolder
               /\ \A a \in Area : (Untouched(fs[a]) \/ Aside(fs[a])) /\ BackInOrder(a)
            \/ /\ file.target = "default" /\ ToDefault /\ cut.from = "folder" /\ HeldDefault /\ disk
               /\ \A a \in Area : fs[a].tgt = "data" /\ InFolder(a) /\ (Moved(fs[a]) \/ Returned(fs[a]))
               /\ file.phase = "switching" => \A a \in Area : BindInOrder(a)
<1>1. PuttingBack /\ Recovering /\ Fresh /\ ~docker /\ file.phase # "starting"
  BY DEF PutBackNext, PuttingBack
<1> QED BY <1>1, CutRecord DEF PutBackNext, PuttingBack, Fresh, HeldFolder, HeldDefault, InFolder

LEMMA SetAsideBootStep ==
  ASSUME TypeOK, Held, InScript, NEW a \in Area, SetAsideBoot(a)
  PROVE  Held' /\ InScript'
<1>1. PutBackNext
  BY StageOf DEF SetAsideBoot, At
<1>2. UNCHANGED <<unsynced, disk, docker, apps, state, file, cut, undos, stuck, err, mixed, unnoted, blind, relisted, said, unstarted>>
  BY DEF SetAsideBoot, KeepUndo, run, mover, past, history
<1>3. todo' \subseteq todo /\ \A p, b : Do(p, b)' <=> Do(p, b) /\ ~(p = "setAside" /\ b = a)
  BY TakenOff DEF SetAsideBoot
<1>4. \A p \in {"dropCopies", "restart", "recovered"} : Do(p, "all")'
  BY <1>1, <1>3 DEF PutBackNext
<1> DEFINE mine == /\ Has(a, IF cut.from = "folder" THEN "new" ELSE "old")
                   /\ ~EmptyOrMissing(View(a)) /\ ~fs[a].mnt
<1>5. IF mine THEN fs' = [fs EXCEPT ![a] = [fs[a] EXCEPT !.live = "empty", !.aside = fs[a].aside \cup {fs[a].live}]]
              ELSE UNCHANGED fs
  BY DEF SetAsideBoot, TypeOK
<1>6. mine => ~EmptyOrMissing(fs[a].live) /\ ~fs[a].mnt /\
              IF cut.from = "folder" THEN fs[a].new # "none" ELSE fs[a].old # "none"
  BY DEF Has, View
<1>7. ~mine => \/ fs[a].mnt \/ EmptyOrMissing(fs[a].live)
               \/ IF cut.from = "folder" THEN fs[a].new = "none" ELSE fs[a].old = "none"
  BY DEF Has, View
<1> HIDE DEF mine
<1>8. \A b \in Area : /\ fs'[b].tgt = fs[b].tgt /\ fs'[b].old = fs[b].old /\ fs'[b].new = fs[b].new
                      /\ fs'[b].mnt = fs[b].mnt /\ fs'[b].on = fs[b].on
                      /\ fs'[b].unit = fs[b].unit /\ fs'[b].drop = fs[b].drop
                      /\ fs'[b].live = IF mine /\ b = a THEN "empty" ELSE fs[b].live
  <2>1. CASE mine
    <3> DEFINE set == [fs[a] EXCEPT !.live = "empty", !.aside = fs[a].aside \cup {fs[a].live}]
    <3>1. fs'[a] = set /\ \A b \in Area \ {a} : fs'[b] = fs[b]
      BY <1>5, <2>1 DEF TypeOK
    <3>2. /\ set.tgt = fs[a].tgt /\ set.old = fs[a].old /\ set.new = fs[a].new
          /\ set.mnt = fs[a].mnt /\ set.on = fs[a].on
          /\ set.unit = fs[a].unit /\ set.drop = fs[a].drop /\ set.live = "empty"
      BY DEF TypeOK
    <3> HIDE DEF set
    <3> QED BY <2>1, <3>1, <3>2
  <2>2. CASE ~mine
    BY <1>5, <2>2
  <2> QED BY <2>1, <2>2
<1>9. CASE file.target = "folder"
  <2>1. mine => Aside(fs[a])
    BY <1>1, <1>6, <1>9, InPutBack
  <2>2. \A b \in Area : (Untouched(fs[b]) => Untouched(fs'[b])) /\ (Aside(fs[b]) => Aside(fs'[b]))
    BY <1>8, <2>1
  <2>3. Held' /\ Fresh'
    BY <1>1, <1>2, <1>8, <1>9, <2>2, InPutBack, HeldInPutBack
  <2>4. \A b \in Area : BackInOrder(b)
    BY <1>1, <1>9, InPutBack
  <2>5. \A b \in Area : BackInOrder(b)'
    BY <1>2, <1>3, <1>8, <2>1, <2>4 DEF BackInOrder
  <2> QED BY <1>1, <1>2, <1>3, <1>4, <1>9, <2>3, <2>5, PutBackGoesOn
<1>10. CASE file.target = "default"
  <2>1. mine => Moved(fs[a]) /\ fs[a].new # "none"
    BY <1>1, <1>6, <1>10, InPutBack
  <2>2. \A b \in Area : /\ Moved(fs'[b]) \/ Returned(fs'[b])
                        /\ Foldered(fs[b]) => Foldered(fs'[b])
    BY <1>1, <1>8, <1>10, <2>1, InPutBack
  <2>3. file.phase = "switching" /\ ~file.undoing =>
          \/ \E b \in Area : fs'[b].unit \/ fs'[b].new # "none"
          \/ \A b \in Area : fs'[b].live = "data"
    BY <1>1, <1>8, <1>10, <2>1, InPutBack DEF HeldDefault
  <2>4. Held' /\ Fresh'
    BY <1>1, <1>2, <1>8, <1>10, <2>2, <2>3, HeldInPutBack
  <2>5. file.phase = "switching" => \A b \in Area : BindInOrder(b)
    BY <1>1, <1>10, InPutBack
  <2>6. file.phase = "switching" => \A b \in Area : BindInOrder(b)'
    BY <1>1, <1>2, <1>3, <1>7, <1>8, <1>10, <2>5, InPutBack DEF BindInOrder
  <2> QED BY <1>1, <1>2, <1>3, <1>4, <1>10, <2>4, <2>6, PutBackGoesOn
<1> QED BY <1>1, <1>9, <1>10, InPutBack

\* A step of putting back an area that fails takes the rest of its steps away.
LEMMA PutBackLeaves ==
  ASSUME TypeOK, PutBackNext, NEW o, NEW a, NEW skip,
         o \in {"setAside"} \cup BackSteps \cup BindSteps,
         skip \subseteq {"setAside"} \cup BackSteps \cup BindSteps,
         Then(o, a) \/ todo' = todo \ ({Step(o, a)} \cup PerArea(skip, {a}))
  PROVE  /\ todo' \subseteq todo /\ ~Do(o, a)'
         /\ \A p, b : Do(p, b)' => Do(p, b)
         /\ \A p, b : b # a => (Do(p, b)' <=> Do(p, b))
         /\ \A p \in {"dropCopies", "restart", "recovered"} : Do(p, "all")'
         /\ Then(o, a) => \A p : p # o => (Do(p, a)' <=> Do(p, a))
         /\ todo' = todo \ ({Step(o, a)} \cup PerArea(skip, {a})) => \A p \in skip : ~Do(p, a)'
<1>0. \A p, b : Step(p, b) \in PerArea(skip, {a}) <=> p \in skip /\ b = a
  BY InPerArea
<1>1. CASE Then(o, a)
  <2>1. todo' \subseteq todo /\ \A p, b : Do(p, b)' <=> Do(p, b) /\ ~(p = o /\ b = a)
    BY <1>1, TakenOff
  <2>2. todo' = todo \ ({Step(o, a)} \cup PerArea(skip, {a})) => \A p \in skip : ~Do(p, a)'
    BY <1>0
  <2> QED BY <1>1, <2>1, <2>2 DEF PutBackNext, BackSteps, BindSteps
<1>2. CASE ~Then(o, a) /\ todo' = todo \ ({Step(o, a)} \cup PerArea(skip, {a}))
  <2>2. \A p, b : Step(p, b) = Step(o, a) <=> p = o /\ b = a
    BY StepIs
  <2>3. todo' \subseteq todo /\ \A p, b : Do(p, b)' <=> Do(p, b) /\ ~((p = o \/ p \in skip) /\ b = a)
    BY <1>0, <1>2, <2>2
  <2> QED BY <1>2, <2>3 DEF PutBackNext, BackSteps, BindSteps
<1> QED BY <1>1, <1>2

LEMMA BackUnmountStep ==
  ASSUME TypeOK, Held, InScript, NEW a \in Area, BackUnmount(a)
  PROVE  Held' /\ InScript'
<1> DEFINE new == IF fs[a].unit THEN [fs[a] EXCEPT !.mnt = FALSE, !.on = FALSE] ELSE fs[a]
<1>1. PutBackNext /\ file.target = "folder"
  <2>1. PutBackNext /\ Do("backUnmount", a)
    BY StageOf DEF BackUnmount, RecoverStep, At, BackSteps
  <2> QED BY <2>1, StepIs DEF PutBackNext, BackSteps
<1>2. /\ UNCHANGED <<unsynced, disk, docker, apps, state, file, cut, undos, stuck, mixed, unnoted, blind, relisted, said, unstarted>>
      /\ todo' \subseteq todo /\ ~Do("backUnmount", a)' /\ (err => err')
      /\ \A p, b : Do(p, b)' => Do(p, b)
      /\ \A p, b : b # a => (Do(p, b)' <=> Do(p, b))
      /\ \A p \in {"dropCopies", "restart", "recovered"} : Do(p, "all")'
      /\ \/ fs' = [fs EXCEPT ![a] = new] /\ \A p : p # "backUnmount" => (Do(p, a)' <=> Do(p, a))
         \/ UNCHANGED fs /\ err' /\ \A p \in {"backUnwrite", "backRename"} : ~Do(p, a)'
  <2>1. UNCHANGED <<unsynced, disk, docker, apps, state, file, cut, undos, stuck, mixed, unnoted, blind, relisted, said, unstarted>>
    BY DEF BackUnmount, RecoverStep, run, mover, history
  <2>2. \/ Then("backUnmount", a) /\ fs' = [fs EXCEPT ![a] = new] /\ UNCHANGED err
        \/ /\ todo' = todo \ ({Step("backUnmount", a)} \cup PerArea({"backUnwrite", "backRename"}, {a}))
           /\ UNCHANGED fs /\ err'
    BY DEF BackUnmount, RecoverStep
  <2> DEFINE skip == {"backUnwrite", "backRename"}
  <2>3. /\ "backUnmount" \in {"setAside"} \cup BackSteps \cup BindSteps
        /\ skip \subseteq {"setAside"} \cup BackSteps \cup BindSteps
        /\ Then("backUnmount", a) \/ todo' = todo \ ({Step("backUnmount", a)} \cup PerArea(skip, {a}))
    BY <2>2 DEF BackSteps
  <2> HIDE DEF skip
  <2>4. /\ todo' \subseteq todo /\ ~Do("backUnmount", a)'
        /\ \A p, b : Do(p, b)' => Do(p, b)
        /\ \A p, b : b # a => (Do(p, b)' <=> Do(p, b))
        /\ \A p \in {"dropCopies", "restart", "recovered"} : Do(p, "all")'
        /\ Then("backUnmount", a) => \A p : p # "backUnmount" => (Do(p, a)' <=> Do(p, a))
        /\ todo' = todo \ ({Step("backUnmount", a)} \cup PerArea(skip, {a})) => \A p \in skip : ~Do(p, a)'
    BY <1>1, <2>3, PutBackLeaves
  <2> USE DEF skip
  <2> QED BY <2>1, <2>2, <2>4
<1>3. \A b \in Area : (Untouched(fs[b]) \/ Aside(fs[b])) /\ BackInOrder(b)
  BY <1>1, InPutBack
<1>4. CASE fs' = [fs EXCEPT ![a] = new] /\ \A p : p # "backUnmount" => (Do(p, a)' <=> Do(p, a))
  <2>1. \A b \in Area : /\ b # a => fs'[b] = fs[b]
                        /\ fs'[b].tgt = fs[b].tgt /\ fs'[b].old = fs[b].old /\ fs'[b].live = fs[b].live
                        /\ fs'[b].unit = fs[b].unit /\ fs'[b].drop = fs[b].drop
    BY <1>4 DEF TypeOK
  <2>2. ~fs'[a].mnt /\ ~fs'[a].on
    BY <1>3, <1>4 DEF TypeOK
  <2>3. \A b \in Area : (Untouched(fs[b]) => Untouched(fs'[b])) /\ (Aside(fs[b]) => Aside(fs'[b]))
    BY <2>1, <2>2
  <2>4. Held' /\ Fresh'
    BY <1>1, <1>2, <1>3, <2>1, <2>3, HeldInPutBack
  <2>5. \A b \in Area : BackInOrder(b)'
    BY <1>2, <1>3, <1>4, <2>1, <2>2 DEF BackInOrder
  <2> QED BY <1>1, <1>2, <2>4, <2>5, PutBackGoesOn
<1>5. CASE UNCHANGED fs /\ err' /\ \A p \in {"backUnwrite", "backRename"} : ~Do(p, a)'
  <2>1. Held' /\ Fresh'
    BY <1>1, <1>2, <1>5, HeldInPutBack
  <2>2. \A b \in Area : BackInOrder(b)'
    BY <1>2, <1>3, <1>5 DEF BackInOrder
  <2> QED BY <1>1, <1>2, <2>1, <2>2, PutBackGoesOn
<1> QED BY <1>2, <1>4, <1>5

LEMMA BackUnwriteStep ==
  ASSUME TypeOK, Held, InScript, NEW a \in Area, BackUnwrite(a)
  PROVE  Held' /\ InScript'
<1> DEFINE new == [fs[a] EXCEPT !.unit = FALSE, !.drop = FALSE]
<1>1. PutBackNext /\ file.target = "folder" /\ At("backUnwrite", a) /\ Do("backUnwrite", a)
  <2>1. PutBackNext /\ At("backUnwrite", a) /\ Do("backUnwrite", a)
    BY StageOf DEF BackUnwrite, RecoverStep, At, BackSteps
  <2> QED BY <2>1, StepIs DEF PutBackNext, BackSteps
<1>2. ~Do("backUnmount", a)
  <2>1. /\ Rank("backUnmount", a) \in Nat /\ Rank("backUnwrite", a) \in Nat
        /\ Rank("backUnmount", a) < Rank("backUnwrite", a)
    BY RanksOfArea DEF later
  <2> QED BY <1>1, <2>1, Before
<1>3. /\ UNCHANGED <<unsynced, disk, docker, apps, state, file, cut, undos, stuck, mixed, unnoted, blind, relisted, said, unstarted>>
      /\ todo' \subseteq todo /\ ~Do("backUnwrite", a)' /\ (err => err')
      /\ \A p, b : Do(p, b)' => Do(p, b)
      /\ \A p, b : b # a => (Do(p, b)' <=> Do(p, b))
      /\ \A p \in {"dropCopies", "restart", "recovered"} : Do(p, "all")'
      /\ fs' = [fs EXCEPT ![a] = new] /\ \A p : p # "backUnwrite" => (Do(p, a)' <=> Do(p, a))
  <2>1. UNCHANGED <<unsynced, disk, docker, apps, state, file, cut, undos, stuck, mixed, unnoted, blind, relisted, said, unstarted>>
    BY DEF BackUnwrite, RecoverStep, run, mover, history
  <2>2. Then("backUnwrite", a) /\ fs' = [fs EXCEPT ![a] = new] /\ (err => err')
    BY DEF BackUnwrite, RecoverStep
  <2> QED BY <1>1, <2>1, <2>2, PutBackLeaves DEF BackSteps
<1>4. \A b \in Area : (Untouched(fs[b]) \/ Aside(fs[b])) /\ BackInOrder(b)
  BY <1>1, InPutBack
<1>5. ~fs[a].mnt /\ ~fs[a].on
  BY <1>1, <1>2, <1>4 DEF BackInOrder
<1>6. \A b \in Area : /\ b # a => fs'[b] = fs[b]
                      /\ fs'[b].tgt = fs[b].tgt /\ fs'[b].old = fs[b].old /\ fs'[b].live = fs[b].live
                      /\ fs'[b].mnt = fs[b].mnt /\ fs'[b].on = fs[b].on
  BY <1>3 DEF TypeOK
<1>7. NoFlags(fs'[a])
  BY <1>3, <1>5 DEF TypeOK
<1>8. \A b \in Area : (Untouched(fs[b]) => Untouched(fs'[b])) /\ (Aside(fs[b]) => Aside(fs'[b]))
  BY <1>6, <1>7
<1>9. Held' /\ Fresh'
  BY <1>1, <1>3, <1>4, <1>6, <1>8, HeldInPutBack
<1>10. \A b \in Area : BackInOrder(b)'
  BY <1>3, <1>4, <1>6, <1>7 DEF BackInOrder
<1> QED BY <1>1, <1>3, <1>9, <1>10, PutBackGoesOn

LEMMA BackRenameStep ==
  ASSUME TypeOK, Held, InScript, NEW a \in Area, BackRename(a)
  PROVE  Held' /\ InScript'
<1> DEFINE new == IF Has(a, "old") THEN [fs[a] EXCEPT !.live = fs[a].old, !.old = "none"] ELSE fs[a]
<1>1. PutBackNext /\ file.target = "folder" /\ At("backRename", a) /\ Do("backRename", a)
  <2>1. PutBackNext /\ At("backRename", a) /\ Do("backRename", a)
    BY StageOf DEF BackRename, RecoverStep, At, BackSteps
  <2> QED BY <2>1, StepIs DEF PutBackNext, BackSteps
<1>2. ~Do("backUnwrite", a)
  <2>1. /\ Rank("backUnwrite", a) \in Nat /\ Rank("backRename", a) \in Nat
        /\ Rank("backUnwrite", a) < Rank("backRename", a)
    BY RanksOfArea DEF later
  <2> QED BY <1>1, <2>1, Before
<1>3. /\ UNCHANGED <<unsynced, disk, docker, apps, state, file, cut, undos, stuck, mixed, unnoted, blind, relisted, said, unstarted>>
      /\ todo' \subseteq todo /\ ~Do("backRename", a)' /\ (err => err')
      /\ \A p, b : Do(p, b)' => Do(p, b)
      /\ \A p, b : b # a => (Do(p, b)' <=> Do(p, b))
      /\ \A p : p # "backRename" => (Do(p, a)' <=> Do(p, a))
      /\ \A p \in {"dropCopies", "restart", "recovered"} : Do(p, "all")'
      /\ fs' = [fs EXCEPT ![a] = new] \/ (UNCHANGED fs /\ err')
  <2>1. UNCHANGED <<unsynced, disk, docker, apps, state, file, cut, undos, stuck, mixed, unnoted, blind, relisted, said, unstarted>>
    BY DEF BackRename, RecoverStep, run, mover, history
  <2>2. PerArea({}, {a}) = {}
    BY DEF PerArea
  <2>3. Then("backRename", a) /\ (err => err')
    BY <2>2 DEF BackRename, RecoverStep, Then
  <2>4. fs' = [fs EXCEPT ![a] = new] \/ (UNCHANGED fs /\ err')
    BY DEF BackRename, RecoverStep
  <2> QED BY <1>1, <2>1, <2>3, <2>4, PutBackLeaves DEF BackSteps
<1>4. \A b \in Area : (Untouched(fs[b]) \/ Aside(fs[b])) /\ BackInOrder(b)
  BY <1>1, InPutBack
<1>5. NoFlags(fs[a])
  BY <1>1, <1>2, <1>4 DEF BackInOrder
<1>6. CASE fs' = [fs EXCEPT ![a] = new]
  <2>1. \A b \in Area : (b # a => fs'[b] = fs[b]) /\ fs'[b].tgt = fs[b].tgt
    BY <1>6 DEF TypeOK
  <2>2. Untouched(fs'[a])
    BY <1>4, <1>5, <1>6 DEF TypeOK, Has
  <2>3. Held' /\ Fresh'
    BY <1>1, <1>3, <1>4, <2>1, <2>2, HeldInPutBack
  <2>4. \A b \in Area : BackInOrder(b)'
    BY <1>3, <1>4, <2>1, <2>2 DEF BackInOrder
  <2> QED BY <1>1, <1>3, <2>3, <2>4, PutBackGoesOn
<1>7. CASE UNCHANGED fs /\ err'
  <2>1. Held' /\ Fresh'
    BY <1>1, <1>3, <1>7, HeldInPutBack
  <2>2. \A b \in Area : BackInOrder(b)'
    BY <1>3, <1>4, <1>7 DEF BackInOrder
  <2> QED BY <1>1, <1>3, <2>1, <2>2, PutBackGoesOn
<1> QED BY <1>3, <1>6, <1>7

\* What is taken off and kept when a live folder is bound again to the drive's.
LEMMA BindLeaves ==
  ASSUME TypeOK, Held, InScript, NEW o \in {"bindAside", "bindUnit", "bindDropIn", "bindMount"},
         NEW a \in Area, At(o, a), Then(o, a)
  PROVE  /\ PutBackNext /\ file.target = "default" /\ file.phase = "switching" /\ Do(o, a)
         /\ InFolder(a) /\ BindInOrder(a)
         /\ \A b \in Area : fs[b].tgt = "data" /\ (Moved(fs[b]) \/ Returned(fs[b])) /\ BindInOrder(b)
         /\ todo' \subseteq todo
         /\ \A p, b : Do(p, b)' <=> Do(p, b) /\ ~(p = o /\ b = a)
         /\ \A p \in {"dropCopies", "restart", "recovered"} : Do(p, "all")'
<1>1. PutBackNext /\ Do(o, a)
  BY StageOf DEF At, BindSteps
<1>2. file.target = "default" /\ file.phase = "switching"
  BY <1>1, StepIs DEF PutBackNext, BindSteps
<1>3. todo' \subseteq todo /\ \A p, b : Do(p, b)' <=> Do(p, b) /\ ~(p = o /\ b = a)
  BY TakenOff
<1>4. \A p \in {"dropCopies", "restart", "recovered"} : Do(p, "all")'
  BY <1>1, <1>3 DEF PutBackNext
<1> QED BY <1>1, <1>2, <1>3, <1>4, InPutBack

\* An area of which the folder is bound again keeps the data in it.
LEMMA BindKeeps ==
  ASSUME TypeOK, Held, PutBackNext, file.target = "default", file.phase = "switching", NEW a \in Area,
         UNCHANGED <<unsynced, disk, docker, state, file, cut, undos, mixed, relisted, said, unnoted>>,
         todo' \subseteq todo, \A p \in {"dropCopies", "restart", "recovered"} : Do(p, "all")',
         \A b \in Area : b # a => fs'[b] = fs[b],
         fs'[a].tgt = "data", Moved(fs'[a]),
         fs[a].unit => fs'[a].unit, fs[a].drop => fs'[a].drop,
         fs'[a].unit \/ fs'[a].new # "none",
         \A b \in Area : BindInOrder(b)'
  PROVE  Held' /\ InScript'
<1>1. Held' /\ Fresh'
  BY InPutBack, HeldInPutBack
<1> QED BY <1>1, PutBackGoesOn

LEMMA BindAsideStep ==
  ASSUME TypeOK, Held, InScript, NEW a \in Area, BindAside(a)
  PROVE  Held' /\ InScript'
<1> DEFINE switched == ~EmptyOrMissing(View(a)) /\ ~fs[a].mnt
           new == IF switched THEN [fs[a] EXCEPT !.new = fs[a].live, !.live = "empty"]
                              ELSE [fs[a] EXCEPT !.live = IF fs[a].live = "none" THEN "empty" ELSE fs[a].live]
<1>1. At("bindAside", a) /\ Do("bindAside", a)
  BY DEF BindAside, RecoverStep, At
<1>2. PutBackNext /\ file.target = "default" /\ file.phase = "switching"
  <2>1. PutBackNext
    BY <1>1, StageOf DEF BindSteps
  <2> QED BY <1>1, <2>1, StepIs DEF PutBackNext, BindSteps
<1>3. ~Do("setAside", a)
  <2>1. /\ Rank("setAside", a) \in Nat /\ Rank("bindAside", a) \in Nat
        /\ Rank("setAside", a) < Rank("bindAside", a)
    BY RanksOfArea DEF later
  <2> QED BY <1>1, <2>1, Before
<1>4. InFolder(a) /\ BindInOrder(a) /\ fs[a].tgt = "data" /\ (Moved(fs[a]) \/ Returned(fs[a]))
  BY <1>2, InPutBack
<1>5. switched => fs[a].new = "none"
  BY <1>1, <1>3, <1>4 DEF BindInOrder, View
<1>6. Then("bindAside", a) /\ fs' = [fs EXCEPT ![a] = new] /\ UNCHANGED err
  <2>1. InFolder(a) /\ switched => EmptyOrMissing(fs[a].new)
    BY <1>5
  <2> QED BY <1>4, <2>1 DEF BindAside, RecoverStep
<1>7. UNCHANGED <<unsynced, disk, docker, state, file, cut, undos, mixed, relisted, said, unnoted>>
  BY DEF BindAside, RecoverStep, run, mover, history
<1>8. /\ todo' \subseteq todo
      /\ \A p, b : Do(p, b)' <=> Do(p, b) /\ ~(p = "bindAside" /\ b = a)
      /\ \A p \in {"dropCopies", "restart", "recovered"} : Do(p, "all")'
      /\ \A b \in Area : BindInOrder(b)
  BY <1>1, <1>6, BindLeaves
<1>9. /\ \A b \in Area : b # a => fs'[b] = fs[b]
      /\ fs'[a] = new
  BY <1>6 DEF TypeOK
<1>10. /\ fs'[a].tgt = "data" /\ fs'[a].mnt = fs[a].mnt /\ fs'[a].on = fs[a].on
       /\ fs'[a].unit = fs[a].unit /\ fs'[a].drop = fs[a].drop
       /\ fs'[a].new = IF switched THEN fs[a].live ELSE fs[a].new
       /\ fs'[a].live \in {"empty", fs[a].live} /\ (switched => fs'[a].live = "empty")
  BY <1>4, <1>9 DEF TypeOK
<1>11. switched <=> ~EmptyOrMissing(fs[a].live) /\ ~fs[a].mnt
  BY DEF View
<1> HIDE DEF switched, new
<1>12. Moved(fs'[a])
  BY <1>4, <1>10, <1>11
<1>13. \A b \in Area : BindInOrder(b)'
  BY <1>8, <1>9, <1>10, <1>12 DEF BindInOrder
<1>14. Held'
  <2>1. file.phase = "switching" /\ ~file.undoing =>
          \/ \E b \in Area : fs'[b].unit \/ fs'[b].new # "none"
          \/ \A b \in Area : fs'[b].live = "data"
    BY <1>2, <1>4, <1>9, <1>10, <1>11, InPutBack DEF HeldDefault
  <2>2. \A b \in Area : /\ fs'[b].tgt = fs[b].tgt
                        /\ Moved(fs'[b]) \/ Returned(fs'[b])
                        /\ fs[b].unit => fs'[b].unit
                        /\ Foldered(fs[b]) => Foldered(fs'[b])
    BY <1>2, <1>4, <1>9, <1>10, <1>12, InPutBack
  <2> QED BY <1>2, <1>7, <2>1, <2>2, HeldInPutBack
<1>15. Fresh'
  BY <1>2, <1>7, <1>9, <1>10, InPutBack DEF Fresh
<1> QED BY <1>2, <1>7, <1>8, <1>13, <1>14, <1>15, PutBackGoesOn

LEMMA BindUnitStep ==
  ASSUME TypeOK, Held, InScript, NEW a \in Area, BindUnit(a)
  PROVE  Held' /\ InScript'
<1>1. At("bindUnit", a) /\ Then("bindUnit", a)
  <2>1. PerArea({}, {a}) = {}
    BY DEF PerArea
  <2> QED BY <2>1 DEF BindUnit, RecoverStep, Then
<1>2. /\ PutBackNext /\ file.target = "default" /\ file.phase = "switching" /\ InFolder(a)
      /\ \A b \in Area : fs[b].tgt = "data" /\ (Moved(fs[b]) \/ Returned(fs[b])) /\ BindInOrder(b)
      /\ todo' \subseteq todo
      /\ \A p, b : Do(p, b)' <=> Do(p, b) /\ ~(p = "bindUnit" /\ b = a)
      /\ \A p \in {"dropCopies", "restart", "recovered"} : Do(p, "all")'
  BY <1>1, BindLeaves
<1>3. ~Do("bindAside", a)
  <2>1. /\ Rank("bindAside", a) \in Nat /\ Rank("bindUnit", a) \in Nat
        /\ Rank("bindAside", a) < Rank("bindUnit", a)
    BY RanksOfArea DEF later
  <2> QED BY <1>1, <2>1, Before
<1>4. fs' = [fs EXCEPT ![a] = [fs[a] EXCEPT !.unit = TRUE]]
  BY <1>2 DEF BindUnit, RecoverStep
<1>5. UNCHANGED <<unsynced, disk, docker, state, file, cut, undos, mixed, relisted, said, unnoted>>
  BY DEF BindUnit, RecoverStep, run, mover, history
<1>6. /\ \A b \in Area : b # a => fs'[b] = fs[b]
      /\ fs'[a].tgt = "data" /\ fs'[a].live = fs[a].live /\ fs'[a].new = fs[a].new
      /\ fs'[a].mnt = fs[a].mnt /\ fs'[a].on = fs[a].on
      /\ fs'[a].unit /\ fs'[a].drop = fs[a].drop
  BY <1>2, <1>4 DEF TypeOK
<1>7. Moved(fs'[a])
  BY <1>2, <1>3, <1>6 DEF BindInOrder
<1>8. \A b \in Area : BindInOrder(b)'
  BY <1>2, <1>6 DEF BindInOrder
<1> QED BY <1>2, <1>5, <1>6, <1>7, <1>8, BindKeeps

LEMMA BindDropInStep ==
  ASSUME TypeOK, Held, InScript, NEW a \in Area, BindDropIn(a)
  PROVE  Held' /\ InScript'
<1>1. At("bindDropIn", a) /\ Then("bindDropIn", a)
  <2>1. PerArea({}, {a}) = {}
    BY DEF PerArea
  <2> QED BY <2>1 DEF BindDropIn, RecoverStep, Then
<1>2. /\ PutBackNext /\ file.target = "default" /\ file.phase = "switching" /\ InFolder(a)
      /\ \A b \in Area : fs[b].tgt = "data" /\ (Moved(fs[b]) \/ Returned(fs[b])) /\ BindInOrder(b)
      /\ todo' \subseteq todo
      /\ \A p, b : Do(p, b)' <=> Do(p, b) /\ ~(p = "bindDropIn" /\ b = a)
      /\ \A p \in {"dropCopies", "restart", "recovered"} : Do(p, "all")'
  BY <1>1, BindLeaves
<1>3. ~Do("bindAside", a) /\ ~Do("bindUnit", a)
  <2>1. /\ Rank("bindAside", a) \in Nat /\ Rank("bindUnit", a) \in Nat /\ Rank("bindDropIn", a) \in Nat
        /\ Rank("bindAside", a) < Rank("bindDropIn", a) /\ Rank("bindUnit", a) < Rank("bindDropIn", a)
    BY RanksOfArea DEF later
  <2> QED BY <1>1, <2>1, Before
<1>4. fs' = [fs EXCEPT ![a] = [fs[a] EXCEPT !.drop = TRUE]]
  BY <1>2 DEF BindDropIn, RecoverStep
<1>5. UNCHANGED <<unsynced, disk, docker, state, file, cut, undos, mixed, relisted, said, unnoted>>
  BY DEF BindDropIn, RecoverStep, run, mover, history
<1>6. /\ \A b \in Area : b # a => fs'[b] = fs[b]
      /\ fs'[a].tgt = "data" /\ fs'[a].live = fs[a].live /\ fs'[a].new = fs[a].new
      /\ fs'[a].mnt = fs[a].mnt /\ fs'[a].on = fs[a].on
      /\ fs'[a].unit = fs[a].unit /\ fs'[a].drop
  BY <1>2, <1>4 DEF TypeOK
<1>7. fs[a].unit /\ Moved(fs'[a])
  BY <1>2, <1>3, <1>6 DEF BindInOrder
<1>8. \A b \in Area : BindInOrder(b)'
  BY <1>2, <1>6 DEF BindInOrder
<1> QED BY <1>2, <1>5, <1>6, <1>7, <1>8, BindKeeps

LEMMA BindMountStep ==
  ASSUME TypeOK, Held, InScript, NEW a \in Area, BindMount(a)
  PROVE  Held' /\ InScript'
<1>1. At("bindMount", a) /\ Then("bindMount", a)
  <2>1. PerArea({}, {a}) = {}
    BY DEF PerArea
  <2> QED BY <2>1 DEF BindMount, RecoverStep, Then
<1>2. /\ PutBackNext /\ file.target = "default" /\ file.phase = "switching" /\ InFolder(a)
      /\ \A b \in Area : fs[b].tgt = "data" /\ (Moved(fs[b]) \/ Returned(fs[b])) /\ BindInOrder(b)
      /\ todo' \subseteq todo
      /\ \A p, b : Do(p, b)' <=> Do(p, b) /\ ~(p = "bindMount" /\ b = a)
      /\ \A p \in {"dropCopies", "restart", "recovered"} : Do(p, "all")'
  BY <1>1, BindLeaves
<1>3. ~Do("bindAside", a) /\ ~Do("bindUnit", a) /\ ~Do("bindDropIn", a)
  <2>1. /\ Rank("bindAside", a) \in Nat /\ Rank("bindUnit", a) \in Nat /\ Rank("bindDropIn", a) \in Nat
        /\ Rank("bindMount", a) \in Nat /\ Rank("bindAside", a) < Rank("bindMount", a)
        /\ Rank("bindUnit", a) < Rank("bindMount", a) /\ Rank("bindDropIn", a) < Rank("bindMount", a)
    BY RanksOfArea DEF later
  <2> QED BY <1>1, <2>1, Before
<1>4. fs' \in {fs, [fs EXCEPT ![a] = [Bound(fs[a]) EXCEPT !.on = TRUE]]}
  BY <1>2 DEF BindMount, RecoverStep
<1>5. UNCHANGED <<unsynced, disk, docker, state, file, cut, undos, mixed, relisted, said, unnoted>>
  BY DEF BindMount, RecoverStep, run, mover, history
<1>6. /\ \A b \in Area : b # a => fs'[b] = fs[b]
      /\ fs'[a].tgt = "data" /\ fs'[a].live \in {fs[a].live, "empty"} /\ fs'[a].new = fs[a].new
      /\ fs'[a].unit = fs[a].unit /\ fs'[a].drop = fs[a].drop
  BY <1>2, <1>4, BoundIs DEF TypeOK
<1>7. Asked(fs[a]) /\ Moved(fs'[a])
  BY <1>2, <1>3, <1>6 DEF BindInOrder
<1>8. \A b \in Area : BindInOrder(b)'
  BY <1>2, <1>3, <1>6, <1>7 DEF BindInOrder
<1> QED BY <1>2, <1>5, <1>6, <1>7, <1>8, BindKeeps

LEMMA BindCheckStep ==
  ASSUME TypeOK, Held, InScript, BindCheck
  PROVE  Held' /\ InScript'
<1>1. PutBackNext
  BY StageOf DEF BindCheck, At, BindSteps
<1>2. UNCHANGED <<fs, unsynced, disk, docker, apps, state, file, cut, undos, stuck, mixed, unnoted, blind, relisted, said, unstarted>>
  BY DEF BindCheck, disks, run, mover, past, history
<1>3. todo' \subseteq todo /\ \A p, b : Do(p, b)' <=> Do(p, b) /\ ~(p = "bindCheck" /\ b = "all")
  BY TakenOff DEF BindCheck
<1>4. \A p \in {"dropCopies", "restart", "recovered"} : Do(p, "all")'
  BY <1>1, <1>3 DEF PutBackNext
<1>5. err => err'
  BY DEF BindCheck, TypeOK
<1>6. Held' /\ Fresh'
  <2>1. Held'
    BY <1>1, <1>2, InPutBack, HeldStays DEF Recovering
  <2> QED BY <1>1, <1>2, <2>1, InPutBack DEF Fresh
<1>7. file.target = "folder" => \A a \in Area : BackInOrder(a)'
  <2>1. file.target = "folder" => \A a \in Area : BackInOrder(a)
    BY <1>1, InPutBack
  <2> QED BY <1>2, <1>3, <1>5, <2>1 DEF BackInOrder
<1>8. file.target = "default" /\ file.phase = "switching" => \A a \in Area : BindInOrder(a)'
  <2>1. file.target = "default" /\ file.phase = "switching" => \A a \in Area : BindInOrder(a)
    BY <1>1, InPutBack
  <2> QED BY <1>2, <1>3, <2>1 DEF BindInOrder
<1> QED BY <1>1, <1>2, <1>3, <1>4, <1>6, <1>7, <1>8, PutBackGoesOn

LEMMA DropCopiesStep ==
  ASSUME TypeOK, Held, InScript, DropCopies
  PROVE  Held' /\ InScript'
<1> DEFINE S == {a \in Copies(cut.target) : ~inUse(<<a, dst(cut.target)>>, location)}
           D == IF err THEN {} ELSE PerArea({"removing", "remove"}, S)
<1>1. PutBackNext /\ PuttingBack
  BY StageOf DEF DropCopies, At, PutBackNext
<1>2. UNCHANGED <<fs, unsynced, disk, docker, apps, state, file, cut, undos, stuck, err, mixed, unnoted, blind, relisted, said, unstarted>>
  BY DEF DropCopies, KeepUndo, disks, run, mover, past, history
<1>3. \A p, b : p \in {"setAside"} \cup BackSteps \cup BindSteps => ~Do(p, b)
  <2>1. \A p, b : p \in {"setAside", "backUnmount", "backUnwrite", "backRename", "bindAside",
                         "bindUnit", "bindDropIn", "bindMount"}
          => Rank(p, b) \in Nat /\ Rank("dropCopies", "all") \in Nat /\ Rank(p, b) < Rank("dropCopies", "all")
    BY RanksOfAll, RanksOfArea DEF later
  <2>2. \A p, b : p \in {"setAside", "backUnmount", "backUnwrite", "backRename", "bindAside",
                         "bindUnit", "bindDropIn", "bindMount"} => ~Do(p, b)
    BY <2>1, Before DEF DropCopies
  <2>3. ~Do("bindCheck", "all")
    BY RanksOfAll, Before DEF DropCopies
  <2>4. \A b : Do("bindCheck", b) => b = "all"
    <3> SUFFICES ASSUME NEW b, Do("bindCheck", b) PROVE b = "all"
      OBVIOUS
    <3> QED BY StepLeft, StepIs DEF AreaOps
  <2> QED BY <2>2, <2>3, <2>4 DEF BackSteps, BindSteps
<1>4. todo' = D \cup (todo \ {Step("dropCopies", "all")})
  BY DEF DropCopies
<1>5. /\ \A p, b : Step(p, b) \in D => p \in {"removing", "remove"} /\ ~err /\ b \in Copies(file.target)
      /\ \A s \in D : s.op \in {"removing", "remove"}
  <2>1. cut.target = file.target /\ S \subseteq Copies(cut.target)
    BY <1>1, CutRecord DEF PuttingBack
  <2> HIDE DEF S
  <2> QED BY <2>1, InPerArea
<1> HIDE DEF S, D
<1>6. \A p, b : Do(p, b)' <=> Step(p, b) \in D \/ (Do(p, b) /\ ~(p = "dropCopies" /\ b = "all"))
  BY <1>4, StepIs
<1>7. \A p, b : p \in {"removing", "remove"} => ~Do(p, b)
  BY <1>1, StepIs DEF PutBackNext, Left, BackSteps, BindSteps
<1>8. Left({"removing", "remove", "restart", "recovered"})'
  <2> SUFFICES ASSUME NEW s \in todo'
               PROVE  s.op \in {"removing", "remove", "restart", "recovered"}
    BY DEF Left
  <2>1. CASE s \in D
    BY <1>5, <2>1
  <2>2. CASE s \in todo /\ s # Step("dropCopies", "all")
    <3>1. s.op \in {"setAside", "dropCopies", "restart", "recovered"} \cup BackSteps \cup BindSteps
      BY <1>1, <2>2 DEF PutBackNext, Left
    <3>2. s.op = "dropCopies" => s = Step("dropCopies", "all")
      BY <2>2, StepLeft DEF AreaOps
    <3> QED BY <1>3, <2>2, <3>1, <3>2, StepLeft
  <2> QED BY <1>4, <2>1, <2>2
<1>9. Held'
  BY <1>1, <1>2, InPutBack, HeldStays DEF Recovering
<1>10. PuttingBack'
  BY <1>1, <1>2 DEF PuttingBack, Recovering, Fresh
<1>11. CASE file.target = "folder"
  <2>1. ~err => \A a \in Area : Untouched(fs[a])
    BY <1>1, <1>3, <1>11, InPutBack DEF BackInOrder, BackSteps
  <2>2. Spare'
    BY <1>2, <1>5, <1>6, <1>7, <1>11, <2>1 DEF Spare, Removing
  <2>3. Dropping'
    BY <1>1, <1>2, <1>6, <1>8, <1>10, <1>11, <2>2 DEF Dropping, PutBackNext, AppsAreBack
  <2> QED BY <1>9, <2>3 DEF InScript, ARecovery
<1>12. CASE file.target = "default"
  <2>1. \A a \in Copies(file.target) : fs[a].live # "data"
    BY <1>1, <1>12, InPutBack DEF Copies, Has, dst
  <2>2. fs["docker"].unit /\ (~said => \A a \in Area : Foldered(fs[a]))
    <3>1. CASE file.phase = "switching"
      BY <1>1, <1>3, <1>12, <3>1, InPutBack DEF BindInOrder, BindSteps
    <3>2. CASE file.phase # "switching"
      BY <1>1, <1>12, <3>2, InPutBack DEF HeldDefault
    <3> QED BY <3>1, <3>2
  <2>3. Spare'
    BY <1>2, <1>5, <1>6, <1>7, <1>12, <2>1, <2>2 DEF Spare
  <2>4. Dropping'
    BY <1>1, <1>2, <1>6, <1>8, <1>10, <2>2, <2>3 DEF Dropping, PutBackNext, AppsAreBack
  <2> QED BY <1>9, <2>4 DEF InScript, ARecovery
<1> QED BY <1>1, <1>11, <1>12, InPutBack

\* A recovery is over: what is shown is where Docker is.
LEMMA RecoveredStep ==
  ASSUME TypeOK, Held, InScript, Accounted', Recovered
  PROVE  Held' /\ InScript'
<1>1. UNCHANGED <<fs, unsynced, disk, docker, apps, undos, stuck, err, mixed, unnoted, blind, relisted, unstarted>>
  BY DEF Recovered, KeepUndo, disks, run
<1>2. /\ ~Do("finishKept", "all") /\ ~Do("dropCopies", "all") /\ ~Do("restart", "all")
      /\ \A b : ~Do("removing", b) /\ ~Do("remove", b)
  <2>1. \A p, b : p \in {"removing", "remove"}
          => Rank(p, b) \in Nat /\ Rank("recovered", "all") \in Nat /\ Rank(p, b) < Rank("recovered", "all")
    BY RanksOfAll, RanksOfArea DEF later
  <2> QED BY <2>1, RanksOfAll, Before DEF Recovered
<1>3. KeptOver \/ Dropping
  BY <1>2, StageOf DEF Recovered, At, FinishingKept, PutBackNext
<1>4. /\ state' = [state EXCEPT !.location = location, !.target = "default", !.from = "default",
                                !.noted = FALSE, !.undoing = FALSE]
      /\ file' = state' /\ cut' = NoMove /\ todo' = {} /\ said' = (said \/ err)
  BY DEF Recovered, Set
<1>5. /\ ~Busy(state) /\ state.old = file.old /\ (KeptOver => state = file)
  BY <1>3, CutRecord DEF TypeOK, MoveState, Held, Records, KeptOver, Dropping, PuttingBack
<1>6. /\ file'.phase = state.phase /\ file'.location = location /\ file'.target = "default"
      /\ file'.old = file.old /\ ~Busy(cut')
  BY <1>4, <1>5 DEF TypeOK, MoveState, NoMove
<1>7. ~said' => ~said /\ ~err
  BY <1>4 DEF TypeOK
<1>8. said' => ~mixed /\ ~relisted
  BY <1>1 DEF Accounted
<1>9. ASSUME KeptOver PROVE HeldIdle'
  <2>1. HeldIdle /\ ~Busy(file)
    BY <1>9 DEF KeptOver, Held
  <2> QED BY <1>1, <1>5, <1>6, <1>7, <1>9, <2>1 DEF HeldIdle, location
<1>10. ASSUME Dropping, file.target = "folder" PROVE HeldIdle'
  <2>1. HeldFolder /\ Fresh /\ (~err => \A a \in Area : Untouched(fs[a])) /\ (Fine /\ ~err /\ docker => apps \/ unstarted)
    BY <1>2, <1>10, CutRecord DEF Dropping, PuttingBack, Spare, AppsAreBack
  <2>2. \A a \in Area : Home(fs[a]) \/ Moved(fs[a])
    BY <2>1 DEF HeldFolder
  <2>3. \A a \in Area : <<a, "tgt">> \in file.old => Home(fs[a]) /\ ~fs["docker"].unit /\ relisted
    BY <1>7, <1>8, <2>1 DEF HeldFolder, TypeOK
  <2>4. fs["docker"].unit => fs["containerd"].tgt = "data"
    BY <2>1 DEF HeldFolder
  <2> QED BY <1>1, <1>6, <1>7, <2>1, <2>2, <2>3, <2>4 DEF HeldIdle, location
<1>11. ASSUME Dropping, file.target = "default" PROVE HeldIdle'
  <2>1. /\ HeldDefault /\ Fresh /\ (~said /\ ~err => \A a \in Area : Foldered(fs[a]))
        /\ (Fine /\ ~err /\ docker => apps \/ unstarted)
    BY <1>2, <1>11, CutRecord DEF Dropping, PuttingBack, Spare, AppsAreBack
  <2>2. \A a \in Area : fs[a].tgt = "data" /\ (Home(fs[a]) \/ Moved(fs[a])) /\ <<a, "tgt">> \notin file.old
    BY <1>11, <2>1 DEF HeldDefault, Fresh
  <2> QED BY <1>1, <1>6, <1>7, <2>1, <2>2 DEF HeldIdle, location
<1>12. HeldIdle'
  BY <1>3, <1>9, <1>10, <1>11, CutRecord DEF Dropping, PuttingBack
<1>13. Held'
  BY <1>1, <1>4, <1>5, <1>6, <1>7, <1>12 DEF Held, Records, DockerHasItsMounts, OnlyWhenTold, View
<1>14. Idle'
  BY <1>4, <1>5, <1>6 DEF Idle, Left
<1> QED BY <1>13, <1>14 DEF InScript

-----------------------------------------------------------------------------
(* A move begins; the old copy is deleted; the apps write.                 *)

\* Nothing is under way.
LEMMA FreeIs ==
  ASSUME TypeOK, Held, Free
  PROVE  /\ state = file /\ ~Busy(file) /\ ~Busy(cut) /\ HeldIdle
         /\ \A p, b : ~Do(p, b)
BY DEF Free, Held, Records

LEMMA StartStep ==
  ASSUME TypeOK, Held, InScript, Accounted', NEW target \in Where, Start(target)
  PROVE  Held' /\ InScript'
<1>1. state = file /\ ~Busy(file) /\ ~Busy(cut) /\ HeldIdle
  BY FreeIs DEF Start, Free
<1>2. UNCHANGED <<fs, disk, docker, apps, cut, unnoted, blind, said, unstarted>> /\ docker
  BY DEF Start, CheckTarget, run
<1>3. /\ file' = [file EXCEPT !.phase = "stopping", !.from = file.location, !.target = target,
                              !.undoing = FALSE, !.noted = FALSE]
      /\ state' = file' /\ unsynced' = {} /\ undos' = {} /\ stuck' = {} /\ err' = FALSE
  BY <1>1 DEF Start, Set
<1>4. /\ file'.phase = "stopping" /\ file'.target = target /\ ~file'.undoing /\ ~file'.noted
      /\ file'.from = file.location /\ file'.old = file.old
  BY <1>3 DEF TypeOK, MoveState
<1>5. /\ \A p, b : Do(p, b)' <=> p \in {"measure", "quiesce", "copying"} /\ b = "all"
      /\ Left({"measure", "quiesce", "copying"})'
  BY InAll DEF Start, Left
<1>6. /\ mixed' = (mixed \/ \E a, b \in Area : fs[a].mnt # fs[b].mnt)
      /\ relisted' = (relisted \/ \E p \in file.old : ~Has(p[1], p[2]))
  BY <1>1 DEF Start
<1>7. /\ (mixed => mixed') /\ (~Same => mixed') /\ (said => ~mixed' /\ ~relisted')
      /\ ~relisted' => ~relisted /\ \A p \in file.old : Has(p[1], p[2])
  BY <1>2, <1>6 DEF TypeOK, Same, Accounted
<1>8. ~said => (\A a \in Area : Home(fs[a])) \/ (\A a \in Area : Foldered(fs[a]))
  BY <1>1 DEF HeldIdle
<1>9. Same /\ (~said => ~mixed')
  <2>1. ~said => \A a, b \in Area : fs[a].mnt = fs[b].mnt
    BY <1>2, <1>8 DEF Held, DockerHasItsMounts, TypeOK
  <2>2. ~said => ~mixed
    BY DEF Held, OnlyWhenTold
  <2> QED BY <1>6, <1>7, <2>1, <2>2 DEF TypeOK, Same
<1>10. DockerHasItsMounts' /\ OnlyWhenTold' /\ Still
  BY <1>2, <1>9 DEF Held, DockerHasItsMounts, OnlyWhenTold, View, Still
<1>11. target = "folder" =>
         /\ disk /\ file.location = "default"
         /\ \A a \in Area : EmptyOrMissing(fs[a].tgt) /\ fs[a].old = "none" /\ ~fs[a].mnt
  BY <1>1 DEF Start, CheckTarget, Has
<1>12. target # "folder" =>
         /\ target = "default" /\ file.location = "folder" /\ fs["docker"].unit
         /\ \A a \in Area : fs[a].new = "none"
  BY <1>1 DEF Start, CheckTarget, Has, HeldIdle, location, Where
<1>13. Records' /\ Busy(file') /\ ~Busy(cut')
  BY <1>1, <1>2, <1>3, <1>4, <1>11, <1>12 DEF Records
<1>14. target = "folder" => HeldFolder'
  <2>1. target = "folder" => \A a \in Area : Untouched(fs[a])
    BY <1>1, <1>11 DEF HeldIdle
  <2>2. target = "folder" /\ ~relisted' => \A a \in Area, p \in {"old", "tgt"} : <<a, p>> \notin file.old
    BY <1>1, <1>7, <1>11 DEF HeldIdle, Has, InFolder
  <2> QED BY <1>2, <1>3, <1>4, <2>1, <2>2 DEF HeldFolder
<1>15. target # "folder" => HeldDefault'
  <2>1. target # "folder" => \A a \in Area : Moved(fs[a]) \/ Returned(fs[a])
    BY <1>1, <1>12 DEF HeldIdle
  <2>2. target # "folder" => \A a \in Area : fs[a].tgt = "data"
    <3>1. CASE fs["docker"].drop
      BY <1>1, <1>2, <1>9, <1>12, <3>1 DEF Held, HeldIdle, DockerHasItsMounts, Same
    <3>2. CASE ~fs["docker"].drop
      BY <1>1, <1>12, <3>2 DEF HeldIdle
    <3> QED BY <3>1, <3>2
  <2>3. target # "folder" => \A a \in Area : <<a, "tgt">> \notin file.old
    BY <1>1, <1>12 DEF HeldIdle
  <2>4. target # "folder" /\ ~said => \A a \in Area : Foldered(fs[a])
    BY <1>8, <1>12
  <2> QED BY <1>2, <1>3, <1>4, <1>12, <2>1, <2>2, <2>3, <2>4 DEF HeldDefault
<1>16. Held'
  BY <1>4, <1>10, <1>12, <1>13, <1>14, <1>15 DEF Held
<1>17. Fine => apps \/ unstarted
  BY <1>1, <1>2 DEF HeldIdle
<1>18. Going'
  BY <1>2, <1>4, <1>11, <1>13
<1>19. Stopping'
  BY <1>2, <1>3, <1>4, <1>5, <1>9, <1>10, <1>17, <1>18 DEF Stopping, Calm, Same, Still
<1> QED BY <1>16, <1>19 DEF InScript, AMove

LEMMA DeleteOldCopyStep ==
  ASSUME TypeOK, Held, InScript, DeleteOldCopy
  PROVE  Held' /\ InScript'
<1>1. state = file /\ ~Busy(file) /\ ~Busy(cut) /\ HeldIdle
  BY FreeIs DEF DeleteOldCopy
<1>2. UNCHANGED <<fs, unsynced, disk, docker, apps, state, file, cut, undos, stuck, err, mixed, unnoted, blind, relisted, said, unstarted>>
  BY DEF DeleteOldCopy, KeepUndo, disks, run, mover, past, history
<1>3. /\ \A p, b : Do(p, b)' =>
           /\ p = "deleteOld" => <<b, "old">> \in file.old
           /\ p = "deleteTgt" => <<b, "tgt">> \in file.old
      /\ Left({"deleteOld", "deleteTgt", "deleted"})'
  BY <1>1, InAll, InPerArea DEF DeleteOldCopy, Left
<1>4. Held'
  BY <1>1, <1>2 DEF Held, Records, DockerHasItsMounts, OnlyWhenTold, HeldIdle, View, location
<1>5. Idle'
  BY <1>1, <1>2, <1>3 DEF Idle
<1> QED BY <1>4, <1>5 DEF InScript

LEMMA DeleteStep ==
  ASSUME TypeOK, Held, InScript, NEW a \in Area,
         Delete("deleteOld", a, "old") \/ Delete("deleteTgt", a, "tgt")
  PROVE  Held' /\ InScript'
<1>1. Idle
  BY StageOf DEF Delete, At
<1>2. state = file /\ ~Busy(file) /\ ~Busy(cut) /\ HeldIdle
  BY <1>1 DEF Idle, Held, Records
<1>3. UNCHANGED <<unsynced, disk, docker, apps, state, file, cut, undos, stuck, err, mixed, unnoted, blind, relisted, said, unstarted>>
  BY DEF Delete, KeepUndo, run, mover, history
<1>4. Idle'
  <2>1. todo' \subseteq todo
    BY TakenOff DEF Delete
  <2> QED BY <1>1, <1>3, <2>1 DEF Idle, Left
<1>5. \/ UNCHANGED fs
      \/ fs' = [fs EXCEPT ![a] = [fs[a] EXCEPT !.old = "none"]]
      \/ <<a, "tgt">> \in file.old /\ fs' = [fs EXCEPT ![a] = [fs[a] EXCEPT !.tgt = "none"]]
  <2>1. CASE Delete("deleteOld", a, "old")
    BY <2>1 DEF Delete, TypeOK
  <2>2. CASE Delete("deleteTgt", a, "tgt")
    <3>1. <<a, "tgt">> \in file.old
      BY <1>1, <2>2 DEF Idle, Delete, At
    <3> QED BY <2>2, <3>1 DEF Delete, TypeOK
  <2> QED BY <2>1, <2>2
<1>6. \A b \in Area : /\ fs'[b].live = fs[b].live /\ fs'[b].mnt = fs[b].mnt /\ fs'[b].on = fs[b].on
                      /\ fs'[b].unit = fs[b].unit /\ fs'[b].drop = fs[b].drop
                      /\ fs'[b].tgt = fs[b].tgt
                           \/ (Home(fs[b]) /\ ~fs["docker"].unit /\ fs'[b].tgt = "none")
  <2>1. <<a, "tgt">> \in file.old => Home(fs[a]) /\ ~fs["docker"].unit
    BY <1>2 DEF HeldIdle
  <2> QED BY <1>5, <2>1 DEF TypeOK
<1>7. HeldIdle'
  BY <1>2, <1>3, <1>6 DEF HeldIdle, location
<1>8. Held'
  BY <1>2, <1>3, <1>6, <1>7 DEF Held, Records, DockerHasItsMounts, OnlyWhenTold, View
<1> QED BY <1>4, <1>8 DEF InScript

LEMMA DeletedStep ==
  ASSUME TypeOK, Held, InScript, Deleted
  PROVE  Held' /\ InScript'
<1>1. Idle
  BY StageOf DEF Deleted, At
<1>2. state = file /\ ~Busy(file) /\ ~Busy(cut) /\ HeldIdle
  BY <1>1 DEF Idle, Held, Records
<1>3. UNCHANGED <<fs, unsynced, disk, docker, apps, cut, undos, stuck, err, mixed, unnoted, blind, relisted, said, unstarted>>
  BY DEF Deleted, KeepUndo, disks, run, past, history
<1>4. file' = [file EXCEPT !.old = {p \in file.old : Has(p[1], p[2])}] /\ state' = file' /\ todo' = {}
  BY <1>2 DEF Deleted, Set
<1>5. /\ file'.phase = file.phase /\ file'.location = file.location /\ file'.target = file.target
      /\ file'.old \subseteq file.old
  BY <1>4 DEF TypeOK, MoveState
<1>6. HeldIdle'
  BY <1>2, <1>3, <1>5 DEF HeldIdle, location
<1>7. Held'
  BY <1>2, <1>3, <1>4, <1>5, <1>6 DEF Held, Records, DockerHasItsMounts, OnlyWhenTold, View
<1>8. Idle'
  BY <1>2, <1>3, <1>4, <1>5 DEF Idle, Left
<1> QED BY <1>7, <1>8 DEF InScript

\* The apps write where Docker runs: what they write counts while no move is
\* under way, or when one that was cut had switched nothing, or all.
LEMMA AppsWriteStep ==
  ASSUME TypeOK, Held, InScript, AppsWrite
  PROVE  Held' /\ InScript'
<1>1. UNCHANGED <<unsynced, disk, docker, apps, state, file, cut, todo, undos, stuck, err, mixed, unnoted, blind, relisted, said, unstarted>>
  BY DEF AppsWrite, run, mover, work, past, history
<1>2. docker /\ (\A a \in Area : View(a) = "data")
  BY DEF AppsWrite, OnData
<1>3. \A a \in Area :
        /\ fs'[a].mnt = fs[a].mnt /\ fs'[a].on = fs[a].on
        /\ fs'[a].unit = fs[a].unit /\ fs'[a].drop = fs[a].drop
        /\ fs'[a].live = IF fs[a].mnt /\ fs[a].live = "data" THEN "stale" ELSE fs[a].live
        /\ fs'[a].tgt = IF ~fs[a].mnt /\ fs[a].tgt = "data" THEN "stale" ELSE fs[a].tgt
        /\ fs'[a].old = IF fs[a].old = "data" THEN "stale" ELSE fs[a].old
        /\ fs'[a].new = IF fs[a].new = "data" THEN "stale" ELSE fs[a].new
  BY DEF AppsWrite, TypeOK, Place
<1>4. Records' /\ DockerHasItsMounts' /\ OnlyWhenTold'
  BY <1>1, <1>2, <1>3 DEF Held, Records, DockerHasItsMounts, OnlyWhenTold, View
<1>5. CASE Free
  <2>1. ~Busy(file) /\ ~Busy(cut) /\ HeldIdle /\ \A p, b : ~Do(p, b)
    BY <1>5, FreeIs
  <2>2. \A a \in Area : Moved(fs[a]) => fs[a].mnt
    BY <1>2 DEF View
  <2>3. HeldIdle'
    BY <1>1, <1>3, <2>1, <2>2 DEF HeldIdle, location
  <2>4. Idle'
    BY <1>1, <1>5, <2>1 DEF Idle, Left, Free
  <2> QED BY <1>1, <1>4, <2>1, <2>3, <2>4 DEF Held, InScript
<1>6. CASE Busy(cut) /\ At("recover", "all") /\ ~cut.undoing /\ (Unswitched \/ switchDone(cut.target))
  <2>1. RecoverNext /\ Recovering
    BY <1>6, StageOf DEF At, RecoverNext
  <2>2. RecoverNext'
    BY <1>1, <2>1 DEF RecoverNext, Recovering, Left
  <2>3. CASE file.target = "folder"
    <3>1. HeldFolder /\ cut = file /\ cut.from = "default"
      BY <2>1, <2>3, CutRecord
    <3>2. CASE Unswitched
      <4>1. \A a \in Area : Untouched(fs[a]) /\ Untouched(fs'[a])
        BY <1>2, <1>3, <3>1, <3>2 DEF HeldFolder, Unswitched, View
      <4> QED BY <1>1, <1>4, <2>1, <2>2, <2>3, <3>1, <4>1, CutRecord DEF Held, HeldFolder, InScript, ARecovery
    <3>3. CASE switchDone(cut.target)
      <4>1. ~Early
        BY <2>3, <3>1, <3>3 DEF HeldFolder, switchDone
      <4>2. \A a \in Area : Foldered(fs[a]) /\ fs[a].mnt
        BY <2>3, <3>1, <3>3, <4>1 DEF HeldFolder, switchDone, checkSwitched, InFolder
      <4>3. \A a \in Area : Taken(fs'[a]) /\ fs'[a].mnt
        BY <1>3, <3>1, <4>2 DEF HeldFolder
      <4>4. Ended
        BY <1>6, <2>1, <3>1, <4>1 DEF Recovering
      <4> QED BY <1>1, <1>4, <2>1, <2>2, <2>3, <3>1, <4>1, <4>3, <4>4, CutRecord
           DEF Held, HeldFolder, InScript, ARecovery
    <3> QED BY <1>6, <3>2, <3>3
  <2>4. CASE file.target = "default"
    <3>1. HeldDefault /\ cut = file /\ cut.from = "folder"
      BY <2>1, <2>4, CutRecord
    <3>2. CASE Unswitched
      <4>1. \A a \in Area : Moved(fs[a]) /\ fs[a].mnt /\ Foldered(fs'[a]) /\ fs'[a].tgt = fs[a].tgt
        <5>1. \A a \in Area : Moved(fs[a]) /\ fs[a].mnt
          BY <3>1, <3>2 DEF HeldDefault, Unswitched
        <5> QED BY <1>3, <5>1
      <4> QED BY <1>1, <1>3, <1>4, <2>1, <2>2, <2>4, <3>1, <4>1, CutRecord DEF Held, HeldDefault, InScript, ARecovery
    <3>3. CASE switchDone(cut.target)
      <4>1. ~Early
        BY <2>4, <3>1, <3>3 DEF HeldDefault, switchDone
      <4>2. \A a \in Area : Returned(fs[a]) /\ Returned(fs'[a])
        BY <1>2, <1>3, <2>4, <3>1, <3>3 DEF HeldDefault, switchDone, checkSwitched, Has, View
      <4>3. Ended
        BY <1>6, <2>1, <3>1, <4>1 DEF Recovering
      <4> QED BY <1>1, <1>3, <1>4, <2>1, <2>2, <2>4, <3>1, <4>1, <4>2, <4>3, CutRecord
           DEF Held, HeldDefault, InScript, ARecovery
    <3> QED BY <1>6, <3>2, <3>3
  <2> QED BY <2>1, <2>3, <2>4, CutRecord
<1> QED BY <1>5, <1>6 DEF AppsWrite

-----------------------------------------------------------------------------
(* The types.                                                              *)

\* A step that writes an area's folders, or none.
LEMMA Rewritten ==
  ASSUME TypeOK, NEW a \in Area, NEW r \in Folders, fs' = [fs EXCEPT ![a] = r] \/ UNCHANGED fs
  PROVE  fs' \in [Area -> Folders]
BY DEF TypeOK

LEMMA FoldersNow ==
  ASSUME TypeOK, NEW a \in Area
  PROVE  fs[a] \in Folders /\ Bound(fs[a]) \in Folders
BY BoundIs DEF TypeOK

\* What a step makes of an area's folders.
LEMMA FlagsSet ==
  ASSUME TypeOK, NEW a \in Area
  PROVE  /\ [fs[a] EXCEPT !.on = FALSE] \in Folders
         /\ [fs[a] EXCEPT !.on = TRUE] \in Folders
         /\ [fs[a] EXCEPT !.mnt = FALSE] \in Folders
         /\ [fs[a] EXCEPT !.unit = TRUE] \in Folders
         /\ [fs[a] EXCEPT !.drop = TRUE] \in Folders
         /\ [fs[a] EXCEPT !.unit = FALSE, !.drop = FALSE] \in Folders
         /\ [fs[a] EXCEPT !.unit = TRUE, !.drop = TRUE] \in Folders
         /\ [fs[a] EXCEPT !.mnt = FALSE, !.on = FALSE] \in Folders
         /\ [Bound(fs[a]) EXCEPT !.on = TRUE] \in Folders
<1>1. /\ [fs[a] EXCEPT !.on = FALSE] \in Folders
      /\ [fs[a] EXCEPT !.on = TRUE] \in Folders
      /\ [fs[a] EXCEPT !.mnt = FALSE] \in Folders
      /\ [fs[a] EXCEPT !.unit = TRUE] \in Folders
      /\ [fs[a] EXCEPT !.drop = TRUE] \in Folders
  BY FoldersNow
<1>2. [fs[a] EXCEPT !.unit = FALSE, !.drop = FALSE] \in Folders
  BY FoldersNow
<1>3. [fs[a] EXCEPT !.unit = TRUE, !.drop = TRUE] \in Folders
  BY FoldersNow
<1>4. [fs[a] EXCEPT !.mnt = FALSE, !.on = FALSE] \in Folders
  BY FoldersNow
<1>5. [Bound(fs[a]) EXCEPT !.on = TRUE] \in Folders
  BY FoldersNow
<1> HIDE DEF Folders
<1> QED BY <1>1, <1>2, <1>3, <1>4, <1>5

LEMMA PlaceSet ==
  ASSUME TypeOK, NEW a \in Area, NEW p \in {"old", "new", "tgt"}, NEW c \in Content
  PROVE  [fs[a] EXCEPT ![p] = c] \in Folders
BY FoldersNow

LEMMA SwitchFolders ==
  ASSUME TypeOK, NEW a \in Area, SwitchArea(a)
  PROVE  fs' \in [Area -> Folders]
<1> USE FoldersNow
<1>0. "none" \in Content /\ "empty" \in Content
  BY DEF Content
<1> USE <1>0
<1> HIDE DEF Folders
<1>1. CASE SetAside(a) \/ MakeLive(a)
  <2>1. /\ [fs[a] EXCEPT !.old = fs[a].live, !.live = "none"] \in Folders
        /\ [fs[a] EXCEPT !.live = "empty"] \in Folders
    BY DEF Folders
  <2> QED BY <1>1, <2>1, Rewritten DEF SetAside, MakeLive, SwitchStep
<1>2. CASE WriteUnit(a) \/ WriteDropIn(a) \/ StopMount(a)
  BY <1>2, FlagsSet, Rewritten DEF WriteUnit, WriteDropIn, StopMount, SwitchStep
<1>3. CASE Mount(a)
  BY <1>3, FlagsSet, Rewritten DEF Mount
<1>4. CASE Disable(a) \/ DropUnit(a)
  <2>1. \/ fs' = [fs EXCEPT ![a] = [fs[a] EXCEPT !.on = FALSE]]
        \/ fs' = [fs EXCEPT ![a] = [fs[a] EXCEPT !.unit = FALSE, !.drop = FALSE]]
    BY <1>4 DEF Disable, DropUnit, TypeOK
  <2> QED BY <2>1, FlagsSet, Rewritten
<1>5. CASE RemoveLive(a) \/ RenameNew(a)
  <2>1. /\ [fs[a] EXCEPT !.live = "none"] \in Folders /\ [fs[a] EXCEPT !.live = "empty"] \in Folders
        /\ [fs[a] EXCEPT !.live = fs[a].new, !.new = "none"] \in Folders
    BY DEF Folders
  <2>2. \/ UNCHANGED fs \/ fs' = [fs EXCEPT ![a] = [fs[a] EXCEPT !.live = "none"]]
        \/ fs' = [fs EXCEPT ![a] = [fs[a] EXCEPT !.live = fs[a].new, !.new = "none"]]
        \/ fs' = [fs EXCEPT ![a] = [fs[a] EXCEPT !.live = "empty"]]
    BY <1>5 DEF RemoveLive, RenameNew, TypeOK
  <2> QED BY <2>1, <2>2, Rewritten
<1> QED BY <1>1, <1>2, <1>3, <1>4, <1>5 DEF SwitchArea

LEMMA UndoFolders ==
  ASSUME TypeOK, NEW a \in Area, UndoArea(a)
  PROVE  fs' \in [Area -> Folders]
<1> USE FoldersNow
<1>0. "none" \in Content /\ "empty" \in Content
  BY DEF Content
<1> USE <1>0
<1> HIDE DEF Folders
<1>1. CASE Unmount(a)
  <2>1. UNCHANGED fs \/ fs' = [fs EXCEPT ![a] = [fs[a] EXCEPT !.mnt = FALSE, !.on = FALSE]]
    BY <1>1 DEF Unmount, TypeOK
  <2> QED BY <2>1, FlagsSet, Rewritten
<1>2. CASE Unwrite(a) \/ PutBack(a)
  <2>1. [fs[a] EXCEPT !.live = fs[a].old, !.old = "none"] \in Folders
    BY DEF Folders
  <2> QED BY <1>2, <2>1, FlagsSet, Rewritten DEF Unwrite, PutBack, UndoStep, disks
<1>3. CASE MoveAside(a)
  <2>1. [fs[a] EXCEPT !.new = fs[a].live, !.live = "empty"] \in Folders
    BY DEF Folders
  <2> QED BY <1>3, <2>1, Rewritten DEF MoveAside, UndoStep
<1>4. CASE Rewrite(a) \/ Enable(a) \/ Remount(a)
  BY <1>4, FlagsSet, Rewritten DEF Rewrite, Enable, Remount, UndoStep, disks
<1> QED BY <1>1, <1>2, <1>3, <1>4 DEF UndoArea

LEMMA RecoverFolders ==
  ASSUME TypeOK, NEW a \in Area, RecoverArea(a)
  PROVE  fs' \in [Area -> Folders]
<1> USE FoldersNow
<1>0. "none" \in Content /\ "empty" \in Content
  BY DEF Content
<1> USE <1>0
<1> HIDE DEF Folders
<1>1. CASE EnableUnit(a)
  BY <1>1, FlagsSet, Rewritten DEF EnableUnit, UndoStep
<1>2. CASE SetAsideBoot(a)
  <2>1. [fs[a] EXCEPT !.live = "empty", !.aside = fs[a].aside \cup {fs[a].live}] \in Folders
    BY DEF Folders
  <2>2. \/ UNCHANGED fs
        \/ fs' = [fs EXCEPT ![a] = [fs[a] EXCEPT !.live = "empty", !.aside = fs[a].aside \cup {fs[a].live}]]
    BY <1>2 DEF SetAsideBoot, TypeOK
  <2> QED BY <2>1, <2>2, Rewritten
<1>3. CASE BackUnmount(a) \/ BackUnwrite(a)
  BY <1>3, FlagsSet, Rewritten DEF BackUnmount, BackUnwrite, RecoverStep
<1>4. CASE BackRename(a)
  <2>1. [fs[a] EXCEPT !.live = fs[a].old, !.old = "none"] \in Folders
    BY DEF Folders
  <2> QED BY <1>4, <2>1, Rewritten DEF BackRename, RecoverStep
<1>5. CASE BindAside(a)
  <2>1. /\ [fs[a] EXCEPT !.new = fs[a].live, !.live = "empty"] \in Folders
        /\ [fs[a] EXCEPT !.live = IF @ = "none" THEN "empty" ELSE @] \in Folders
    BY DEF Folders
  <2> QED BY <1>5, <2>1, Rewritten DEF BindAside, RecoverStep
<1>6. CASE BindUnit(a) \/ BindDropIn(a) \/ BindMount(a)
  BY <1>6, FlagsSet, Rewritten DEF BindUnit, BindDropIn, BindMount, RecoverStep
<1> QED BY <1>1, <1>2, <1>3, <1>4, <1>5, <1>6 DEF RecoverArea

LEMMA CopyFolders ==
  ASSUME TypeOK, NEW a \in Area,
         \/ Copy(a) \/ Copied(a) \/ RemoveBegins(a) \/ RemoveEnds(a)
         \/ Delete("deleteOld", a, "old") \/ Delete("deleteTgt", a, "tgt")
  PROVE  fs' \in [Area -> Folders]
<1>1. \/ UNCHANGED fs
      \/ \E c \in Content, p \in {"old", "new", "tgt"} : fs' = [fs EXCEPT ![a] = [fs[a] EXCEPT ![p] = c]]
  <2>1. View(a) \in Content /\ fs[a].old \in Content /\ fs[a].tgt \in Content
    BY FoldersNow DEF View
  <2>2. \A t : dst(t) \in {"new", "tgt"}
    BY DEF dst
  <2>3. CASE Copy(a) \/ Copied(a)
    BY <2>1, <2>2, <2>3 DEF Copy, Copied, Content, TypeOK
  <2>4. CASE RemoveBegins(a) \/ RemoveEnds(a)
    BY <2>2, <2>4 DEF RemoveBegins, RemoveEnds, Content, TypeOK
  <2>5. CASE Delete("deleteOld", a, "old") \/ Delete("deleteTgt", a, "tgt")
    BY <2>1, <2>5 DEF Delete, Content, TypeOK
  <2> QED BY <2>3, <2>4, <2>5
<1> HIDE DEF Folders
<1>2. CASE UNCHANGED fs
  BY <1>2, FoldersNow, Rewritten
<1>3. ASSUME NEW c \in Content, NEW p \in {"old", "new", "tgt"}, fs' = [fs EXCEPT ![a] = [fs[a] EXCEPT ![p] = c]]
      PROVE  fs' \in [Area -> Folders]
  BY <1>3, PlaceSet, Rewritten
<1> QED BY <1>1, <1>2, <1>3

\* Docker writes where there is nothing, the apps over what there is.
LEMMA RunFolders ==
  ASSUME TypeOK, StartDocker \/ Restart \/ Boot \/ AppsWrite
  PROVE  fs' \in [Area -> Folders]
<1>1. CASE StartDocker \/ Restart
  BY <1>1, StartIsATry DEF StartTry
<1>2. CASE Boot
  <2>1. \A a \in Area : fs'[a] \in Folders
    BY <1>2, BootKeeps
  <2>2. fs' = [a \in Area |-> fs'[a]]
    BY <1>2 DEF Boot, Started
  <2> QED BY <2>1, <2>2
<1>3. CASE AppsWrite
  BY <1>3 DEF AppsWrite, TypeOK, Place, Content
<1> QED BY <1>1, <1>2, <1>3

\* The folders are those of an area, whatever is done to them.
LEMMA FoldersStay ==
  ASSUME TypeOK, Next
  PROVE  fs' \in [Area -> Folders]
<1>1. fs \in [Area -> Folders]
  BY DEF TypeOK
<1>2. CASE Measure \/ Quiesce \/ Copying \/ Sync \/ Switching \/ Reload \/ Check \/ Verify
             \/ Requiesce \/ Finish \/ Undoing \/ Undone \/ Fail
  BY <1>1, <1>2 DEF Measure, Quiesce, Copying, Sync, Switching, Reload, Check, Verify, Requiesce, Finish,
     Undoing, Undone, Fail, disks
<1>3. CASE Recover \/ VerifyKept \/ FinishKept \/ KeepOld \/ QuiesceCut \/ BindCheck \/ DropCopies
             \/ Recovered \/ Deleted \/ DeleteOldCopy \/ Stop \/ \E target \in Where : Start(target)
  BY <1>1, <1>3 DEF Recover, VerifyKept, FinishKept, KeepOld, QuiesceCut, BindCheck, DropCopies, Recovered,
     Deleted, DeleteOldCopy, Stop, Start, disks
<1>4. CASE StartServices \/ Restart \/ Boot \/ AppsWrite
  BY <1>4, RunFolders DEF StartServices
<1> QED BY <1>2, <1>3, <1>4, SwitchFolders, UndoFolders, RecoverFolders, CopyFolders DEF Next, Work

\* What the set of steps is made of.
LEMMA StepSets ==
  /\ \A O : O \subseteq AllOps => All(O) \subseteq Steps
  /\ \A O, S : O \subseteq AreaOps /\ S \subseteq Area => PerArea(O, S) \subseteq Steps
  /\ \A o \in AllOps : Step(o, "all") \in Steps
  /\ \A o \in AreaOps, a \in Area : Step(o, a) \in Steps
BY DEF Steps, All, PerArea

\* The script has no other steps.
LEMMA StepsStay ==
  ASSUME TypeOK, Next
  PROVE  StepsOK'
<1> USE DEF TypeOK, StepsOK, AllOps, AreaOps, Then, work
<1>1. CASE Measure \/ Quiesce
  BY <1>1, StepSets DEF Measure, Quiesce, KeepUndo
<1>2. CASE Copying
  BY <1>2, StepSets DEF Copying, KeepUndo
<1>3. CASE Sync \/ Switching \/ Reload \/ Check
  BY <1>3, StepSets DEF Sync, Switching, Reload, Check, KeepUndo, UndoSwitch, GiveUp, RemoveCopies,
     Copies
<1>4. CASE StartServices \/ Verify
  BY <1>4, StepSets DEF StartServices, Verify, KeepUndo
<1>5. CASE Requiesce \/ Finish
  BY <1>5, StepSets DEF Requiesce, Finish, KeepUndo, UndoSwitch
<1>6. CASE Undoing \/ Undone
  BY <1>6, StepSets DEF Undoing, Undone, KeepUndo, GiveUp, RemoveCopies, Copies
<1>7. CASE Restart \/ Fail
  BY <1>7, StepSets DEF Restart, Fail, KeepUndo
<1>8. CASE Recover \/ VerifyKept
  BY <1>8, StepSets DEF Recover, VerifyKept, KeepUndo
<1>9. CASE FinishKept \/ KeepOld
  BY <1>9, StepSets DEF FinishKept, KeepOld, KeepUndo
<1>10. CASE QuiesceCut
  BY <1>10, StepSets DEF QuiesceCut
<1>11. CASE BindCheck \/ DropCopies
  BY <1>11, StepSets DEF BindCheck, DropCopies, KeepUndo, Copies
<1>12. CASE Recovered
  BY <1>12, StepSets DEF Recovered, KeepUndo
<1>13. CASE Deleted
  BY <1>13, StepSets DEF Deleted, KeepUndo
<1>14. CASE DeleteOldCopy \/ AppsWrite
  BY <1>14, StepSets DEF DeleteOldCopy, AppsWrite, KeepUndo
<1>15. CASE Stop
  BY <1>15, StepSets DEF Stop, Load
<1>16. CASE Boot
  BY <1>16, StepSets DEF Boot, Load
<1>17. ASSUME NEW a \in Area, Copy(a) \/ Copied(a)
      PROVE  StepsOK'
  BY <1>17, StepSets DEF Copy, Copied, KeepUndo, GiveUp, RemoveCopies, Copies
<1>18. ASSUME NEW a \in Area, RemoveBegins(a) \/ RemoveEnds(a)
      PROVE  StepsOK'
  BY <1>18, StepSets DEF RemoveBegins, RemoveEnds, KeepUndo
<1>19. ASSUME NEW a \in Area, SetAside(a) \/ MakeLive(a) \/ WriteUnit(a) \/ WriteDropIn(a) \/ Mount(a)
      PROVE  StepsOK'
  BY <1>19, StepSets DEF SetAside, MakeLive, WriteUnit, WriteDropIn, Mount, Push, UndoSwitch,
     SwitchStep
<1>20. ASSUME NEW a \in Area, StopMount(a) \/ Disable(a) \/ DropUnit(a) \/ RemoveLive(a) \/ RenameNew(a)
      PROVE  StepsOK'
  BY <1>20, StepSets DEF StopMount, Disable, DropUnit, RemoveLive, RenameNew, KeepUndo, Push,
     UndoSwitch, SwitchStep
<1>21. ASSUME NEW a \in Area, Unmount(a)
      PROVE  StepsOK'
  BY <1>21, StepSets DEF Unmount
<1>22. ASSUME NEW a \in Area, Unwrite(a)
      PROVE  StepsOK'
  BY <1>22, StepSets DEF Unwrite, KeepUndo, UndoStep
<1>23. ASSUME NEW a \in Area, PutBack(a)
      PROVE  StepsOK'
  BY <1>23, StepSets DEF PutBack, UndoStep
<1>24. ASSUME NEW a \in Area, MoveAside(a) \/ Rewrite(a)
      PROVE  StepsOK'
  BY <1>24, StepSets DEF MoveAside, Rewrite, UndoStep
<1>25. ASSUME NEW a \in Area, Enable(a) \/ Remount(a)
      PROVE  StepsOK'
  BY <1>25, StepSets DEF Enable, Remount, UndoStep
<1>26. ASSUME NEW a \in Area, EnableUnit(a) \/ SetAsideBoot(a)
      PROVE  StepsOK'
  BY <1>26, StepSets DEF EnableUnit, SetAsideBoot, KeepUndo, UndoStep
<1>27. ASSUME NEW a \in Area, BackUnmount(a)
      PROVE  StepsOK'
  BY <1>27, StepSets DEF BackUnmount, RecoverStep
<1>28. ASSUME NEW a \in Area, BackUnwrite(a)
      PROVE  StepsOK'
  BY <1>28, StepSets DEF BackUnwrite, RecoverStep
<1>29. ASSUME NEW a \in Area, BackRename(a)
      PROVE  StepsOK'
  BY <1>29, StepSets DEF BackRename, RecoverStep
<1>30. ASSUME NEW a \in Area, BindAside(a)
      PROVE  StepsOK'
  BY <1>30, StepSets DEF BindAside, RecoverStep
<1>31. ASSUME NEW a \in Area, BindUnit(a)
      PROVE  StepsOK'
  BY <1>31, StepSets DEF BindUnit, RecoverStep
<1>32. ASSUME NEW a \in Area, BindDropIn(a)
      PROVE  StepsOK'
  BY <1>32, StepSets DEF BindDropIn, RecoverStep
<1>33. ASSUME NEW a \in Area, BindMount(a)
      PROVE  StepsOK'
  BY <1>33, StepSets DEF BindMount, RecoverStep
<1>34. ASSUME NEW a \in Area, Delete("deleteOld", a, "old") \/ Delete("deleteTgt", a, "tgt")
      PROVE  StepsOK'
  BY <1>34, StepSets DEF Delete, KeepUndo
<1>35. ASSUME NEW target \in Where, Start(target)
      PROVE  StepsOK'
  BY <1>35, StepSets DEF Start
<1> QED BY <1>1, <1>2, <1>3, <1>4, <1>5, <1>6, <1>7, <1>8, <1>9, <1>10, <1>11, <1>12, <1>13, <1>14,
     <1>15, <1>16, <1>17, <1>18, <1>19, <1>20, <1>21, <1>22, <1>23, <1>24, <1>25, <1>26, <1>27,
     <1>28, <1>29, <1>30, <1>31, <1>32, <1>33, <1>34, <1>35 DEF Next, Work, SwitchArea, UndoArea,
     RecoverArea
\* What is true or false stays so, and the areas stay areas.
FlagsOK ==
  /\ unsynced \subseteq Area /\ stuck \subseteq Area
  /\ disk \in BOOLEAN /\ docker \in BOOLEAN /\ apps \in BOOLEAN /\ err \in BOOLEAN
  /\ mixed \in BOOLEAN /\ unnoted \in BOOLEAN /\ blind \in BOOLEAN
  /\ relisted \in BOOLEAN /\ unstarted \in BOOLEAN /\ said \in BOOLEAN

LEMMA FlagsStay ==
  ASSUME TypeOK, Next
  PROVE  FlagsOK'
<1>1. FlagsOK
  BY DEF TypeOK, FlagsOK
<1> USE <1>1 DEF FlagsOK, disks, run, work, past, history
<1>2. CASE Measure \/ Quiesce
  BY <1>2 DEF Measure, Quiesce, Quiesced, NotQuiesced, KeepUndo
<1>3. CASE Copying
  BY <1>3 DEF Copying, KeepUndo
<1>4. CASE Sync \/ Switching \/ Reload \/ Check
  BY <1>4 DEF Sync, Switching, Reload, Check, KeepUndo
<1>5. CASE StartServices \/ Verify
  BY <1>5, StartIsATry DEF StartServices, Verify, StartTry, KeepUndo, OnData
<1>6. CASE Requiesce \/ Finish
  BY <1>6 DEF Requiesce, Finish, Quiesced, NotQuiesced, KeepUndo
<1>7. CASE Undoing \/ Undone
  BY <1>7 DEF Undoing, Undone, KeepUndo
<1>8. CASE Restart \/ Fail
  BY <1>8, StartIsATry DEF Restart, Fail, StartTry, KeepUndo, OnData
<1>9. CASE Recover \/ VerifyKept
  BY <1>9 DEF Recover, VerifyKept, KeepUndo, OnData
<1>10. CASE FinishKept \/ KeepOld
  BY <1>10 DEF FinishKept, KeepOld, KeepUndo
<1>11. CASE QuiesceCut
  BY <1>11 DEF QuiesceCut, Quiesced, NotQuiesced
<1>12. CASE BindCheck \/ DropCopies
  BY <1>12 DEF BindCheck, DropCopies, KeepUndo
<1>13. CASE Recovered
  BY <1>13 DEF Recovered, KeepUndo
<1>14. CASE Deleted
  BY <1>14 DEF Deleted, KeepUndo
<1>15. CASE DeleteOldCopy \/ AppsWrite
  BY <1>15 DEF DeleteOldCopy, AppsWrite, KeepUndo, OnData
<1>16. CASE Stop
  BY <1>16 DEF Stop, Load
<1>17. CASE Boot
  BY <1>17 DEF Boot, Load
<1>18. ASSUME NEW a \in Area, Copy(a) \/ Copied(a)
      PROVE  FlagsOK'
  BY <1>18 DEF Copy, Copied, KeepUndo
<1>19. ASSUME NEW a \in Area, RemoveBegins(a) \/ RemoveEnds(a)
      PROVE  FlagsOK'
  BY <1>19 DEF RemoveBegins, RemoveEnds, KeepUndo
<1>20. ASSUME NEW a \in Area, SetAside(a) \/ MakeLive(a) \/ WriteUnit(a) \/ WriteDropIn(a) \/ Mount(a)
      PROVE  FlagsOK'
  BY <1>20 DEF SetAside, MakeLive, WriteUnit, WriteDropIn, Mount, Push, SwitchStep
<1>21. ASSUME NEW a \in Area, StopMount(a) \/ Disable(a) \/ DropUnit(a) \/ RemoveLive(a) \/ RenameNew(a)
      PROVE  FlagsOK'
  BY <1>21 DEF StopMount, Disable, DropUnit, RemoveLive, RenameNew, KeepUndo, Push, SwitchStep
<1>22. ASSUME NEW a \in Area, Unmount(a)
      PROVE  FlagsOK'
  BY <1>22 DEF Unmount
<1>23. ASSUME NEW a \in Area, Unwrite(a)
      PROVE  FlagsOK'
  BY <1>23 DEF Unwrite, KeepUndo, UndoStep
<1>24. ASSUME NEW a \in Area, PutBack(a)
      PROVE  FlagsOK'
  BY <1>24 DEF PutBack, UndoStep
<1>25. ASSUME NEW a \in Area, MoveAside(a) \/ Rewrite(a)
      PROVE  FlagsOK'
  BY <1>25 DEF MoveAside, Rewrite, UndoStep
<1>26. ASSUME NEW a \in Area, Enable(a) \/ Remount(a)
      PROVE  FlagsOK'
  BY <1>26 DEF Enable, Remount, UndoStep
<1>27. ASSUME NEW a \in Area, EnableUnit(a) \/ SetAsideBoot(a)
      PROVE  FlagsOK'
  BY <1>27 DEF EnableUnit, SetAsideBoot, KeepUndo, UndoStep
<1>28. ASSUME NEW a \in Area, BackUnmount(a)
      PROVE  FlagsOK'
  BY <1>28 DEF BackUnmount, RecoverStep
<1>29. ASSUME NEW a \in Area, BackUnwrite(a)
      PROVE  FlagsOK'
  BY <1>29 DEF BackUnwrite, RecoverStep
<1>30. ASSUME NEW a \in Area, BackRename(a)
      PROVE  FlagsOK'
  BY <1>30 DEF BackRename, RecoverStep
<1>31. ASSUME NEW a \in Area, BindAside(a)
      PROVE  FlagsOK'
  BY <1>31 DEF BindAside, RecoverStep
<1>32. ASSUME NEW a \in Area, BindUnit(a)
      PROVE  FlagsOK'
  BY <1>32 DEF BindUnit, RecoverStep
<1>33. ASSUME NEW a \in Area, BindDropIn(a)
      PROVE  FlagsOK'
  BY <1>33 DEF BindDropIn, RecoverStep
<1>34. ASSUME NEW a \in Area, BindMount(a)
      PROVE  FlagsOK'
  BY <1>34 DEF BindMount, RecoverStep
<1>35. ASSUME NEW a \in Area, Delete("deleteOld", a, "old") \/ Delete("deleteTgt", a, "tgt")
      PROVE  FlagsOK'
  BY <1>35 DEF Delete, KeepUndo
<1>36. ASSUME NEW target \in Where, Start(target)
      PROVE  FlagsOK'
  BY <1>36 DEF Start
<1> QED BY <1>1, <1>2, <1>3, <1>4, <1>5, <1>6, <1>7, <1>8, <1>9, <1>10, <1>11, <1>12, <1>13, <1>14,
     <1>15, <1>16, <1>17, <1>18, <1>19, <1>20, <1>21, <1>22, <1>23, <1>24, <1>25, <1>26, <1>27,
     <1>28, <1>29, <1>30, <1>31, <1>32, <1>33, <1>34, <1>35, <1>36 DEF Next, Work, SwitchArea,
     UndoArea, RecoverArea
\* The state file's record, the shown one and the interrupted one.
RecordsOK == state \in MoveState /\ file \in MoveState /\ cut \in MoveState

\* What a record becomes when its move is undone, fails or ends.
LEMMA UndoneRecord ==
  ASSUME NEW s \in MoveState
  PROVE  [s EXCEPT !.phase = "switching", !.undoing = TRUE] \in MoveState
BY DEF MoveState

LEMMA FailedRecord ==
  ASSUME NEW s \in MoveState
  PROVE  [s EXCEPT !.phase = "failed", !.location = location, !.from = "default",
                   !.noted = FALSE, !.undoing = FALSE] \in MoveState
BY DEF MoveState, Where, location

LEMMA SettledRecord ==
  ASSUME NEW s \in MoveState
  PROVE  /\ [s EXCEPT !.location = location, !.target = "default", !.from = "default",
                      !.noted = FALSE, !.undoing = FALSE] \in MoveState
         /\ NoMove \in MoveState
BY DEF MoveState, Where, location, NoMove

LEMMA LoadedRecord ==
  ASSUME NEW s \in MoveState
  PROVE  /\ [s EXCEPT !.phase = "failed"] \in MoveState
         /\ NoMove \in MoveState
BY DEF MoveState, Where, NoMove

LEMMA StartedRecord ==
  ASSUME NEW s \in MoveState, NEW t \in Where
  PROVE  [s EXCEPT !.phase = "stopping", !.from = s.location, !.target = t,
                   !.undoing = FALSE, !.noted = FALSE] \in MoveState
BY DEF MoveState

LEMMA FinishedRecord ==
  ASSUME NEW s \in MoveState, NEW f, NEW t \in Where
  PROVE  finished(s, f, t) \in MoveState
<1>1. {p \in s.old \cup oldCopy(f) : ~inUse(p, t)} \in SUBSET (Area \X {"old", "tgt"})
  BY DEF oldCopy, MoveState
<1> QED BY <1>1 DEF finished, MoveState, Where

\* Every record is one of a move.
LEMMA RecordsStay ==
  ASSUME TypeOK, Next
  PROVE  RecordsOK'
<1>1. CASE Undoing \/ Fail
  BY <1>1, UndoneRecord, FailedRecord DEF Undoing, Fail, Set, TypeOK, RecordsOK
<1>2. CASE Verify
  BY <1>2, UndoneRecord DEF Verify, Set, TypeOK, RecordsOK, mover
<1>3. CASE Finish \/ FinishKept
  <2>1. state.target \in Where /\ location \in Where
    BY DEF TypeOK, MoveState, location, Where
  <2>2. /\ finished(state, state.from, state.target) \in MoveState
        /\ finished(state, cut.from, location) \in MoveState
    BY <2>1, FinishedRecord DEF TypeOK
  <2> QED BY <1>3, <2>2 DEF Finish, FinishKept, Set, TypeOK, RecordsOK
<1>4. CASE Recovered
  BY <1>4, SettledRecord DEF Recovered, Set, TypeOK, RecordsOK
<1>5. CASE Stop \/ Boot
  BY <1>5, LoadedRecord DEF Stop, Boot, Load, TypeOK, RecordsOK
<1>6. ASSUME NEW target \in Where, Start(target)
      PROVE  RecordsOK'
  BY <1>6, StartedRecord DEF Start, Set, TypeOK, RecordsOK
<1>7. RecordsOK
  BY DEF TypeOK, RecordsOK
<1> USE <1>7 DEF RecordsOK, MoveState, Where, mover
<1>8. CASE Measure \/ Quiesce
  BY <1>8 DEF Measure, Quiesce, Set
<1>9. CASE Copying
  BY <1>9 DEF Copying, Set
<1>10. CASE Sync \/ Switching \/ Reload \/ Check
  BY <1>10 DEF Sync, Switching, Reload, Check, Set
<1>11. CASE StartServices
  BY <1>11 DEF StartServices
<1>12. CASE Requiesce
  BY <1>12 DEF Requiesce
<1>13. CASE Undone
  BY <1>13 DEF Undone
<1>14. CASE Restart
  BY <1>14 DEF Restart
<1>15. CASE Recover \/ VerifyKept
  BY <1>15 DEF Recover, VerifyKept
<1>16. CASE KeepOld
  BY <1>16 DEF KeepOld, Set
<1>17. CASE QuiesceCut
  BY <1>17 DEF QuiesceCut
<1>18. CASE BindCheck \/ DropCopies
  BY <1>18 DEF BindCheck, DropCopies, location
<1>19. CASE Deleted
  BY <1>19 DEF Deleted, Set
<1>20. CASE DeleteOldCopy \/ AppsWrite
  BY <1>20 DEF DeleteOldCopy, AppsWrite, location
<1>21. ASSUME NEW a \in Area, Copy(a) \/ Copied(a)
      PROVE  RecordsOK'
  BY <1>21 DEF Copy, Copied
<1>22. ASSUME NEW a \in Area, RemoveBegins(a) \/ RemoveEnds(a)
      PROVE  RecordsOK'
  BY <1>22 DEF RemoveBegins, RemoveEnds
<1>23. ASSUME NEW a \in Area, SetAside(a) \/ MakeLive(a) \/ WriteUnit(a) \/ WriteDropIn(a) \/ Mount(a)
      PROVE  RecordsOK'
  BY <1>23 DEF SetAside, MakeLive, WriteUnit, WriteDropIn, Mount, SwitchStep
<1>24. ASSUME NEW a \in Area, StopMount(a) \/ Disable(a) \/ DropUnit(a) \/ RemoveLive(a) \/ RenameNew(a)
      PROVE  RecordsOK'
  BY <1>24 DEF StopMount, Disable, DropUnit, RemoveLive, RenameNew, SwitchStep
<1>25. ASSUME NEW a \in Area, Unmount(a)
      PROVE  RecordsOK'
  BY <1>25 DEF Unmount
<1>26. ASSUME NEW a \in Area, Unwrite(a)
      PROVE  RecordsOK'
  BY <1>26 DEF Unwrite, UndoStep
<1>27. ASSUME NEW a \in Area, PutBack(a)
      PROVE  RecordsOK'
  BY <1>27 DEF PutBack, UndoStep
<1>28. ASSUME NEW a \in Area, MoveAside(a) \/ Rewrite(a)
      PROVE  RecordsOK'
  BY <1>28 DEF MoveAside, Rewrite, UndoStep
<1>29. ASSUME NEW a \in Area, Enable(a) \/ Remount(a)
      PROVE  RecordsOK'
  BY <1>29 DEF Enable, Remount, UndoStep
<1>30. ASSUME NEW a \in Area, EnableUnit(a) \/ SetAsideBoot(a)
      PROVE  RecordsOK'
  BY <1>30 DEF EnableUnit, SetAsideBoot, UndoStep
<1>31. ASSUME NEW a \in Area, BackUnmount(a)
      PROVE  RecordsOK'
  BY <1>31 DEF BackUnmount, RecoverStep
<1>32. ASSUME NEW a \in Area, BackUnwrite(a)
      PROVE  RecordsOK'
  BY <1>32 DEF BackUnwrite, RecoverStep
<1>33. ASSUME NEW a \in Area, BackRename(a)
      PROVE  RecordsOK'
  BY <1>33 DEF BackRename, RecoverStep
<1>34. ASSUME NEW a \in Area, BindAside(a)
      PROVE  RecordsOK'
  BY <1>34 DEF BindAside, RecoverStep
<1>35. ASSUME NEW a \in Area, BindUnit(a)
      PROVE  RecordsOK'
  BY <1>35 DEF BindUnit, RecoverStep
<1>36. ASSUME NEW a \in Area, BindDropIn(a)
      PROVE  RecordsOK'
  BY <1>36 DEF BindDropIn, RecoverStep
<1>37. ASSUME NEW a \in Area, BindMount(a)
      PROVE  RecordsOK'
  BY <1>37 DEF BindMount, RecoverStep
<1>38. ASSUME NEW a \in Area, Delete("deleteOld", a, "old") \/ Delete("deleteTgt", a, "tgt")
      PROVE  RecordsOK'
  BY <1>38 DEF Delete
<1> QED BY <1>1, <1>2, <1>3, <1>4, <1>5, <1>6, <1>7, <1>8, <1>9, <1>10, <1>11, <1>12, <1>13, <1>14,
     <1>15, <1>16, <1>17, <1>18, <1>19, <1>20, <1>21, <1>22, <1>23, <1>24, <1>25, <1>26, <1>27,
     <1>28, <1>29, <1>30, <1>31, <1>32, <1>33, <1>34, <1>35, <1>36, <1>37, <1>38 DEF Next, Work,
     SwitchArea, UndoArea, RecoverArea
\* What is noted of the past is not forgotten.
HistoryStays == /\ blind => blind'
                /\ said => said'
                /\ mixed => mixed'
                /\ relisted => relisted'

LEMMA HistoryGrows ==
  ASSUME TypeOK, Next
  PROVE  HistoryStays
<1> USE DEF TypeOK, HistoryStays, work, past, history
<1>1. CASE Measure \/ Quiesce
  BY <1>1 DEF Measure, Quiesce, KeepUndo
<1>2. CASE Copying
  BY <1>2 DEF Copying, KeepUndo
<1>3. CASE Sync \/ Switching \/ Reload \/ Check
  BY <1>3 DEF Sync, Switching, Reload, Check, KeepUndo
<1>4. CASE StartServices \/ Verify
  BY <1>4 DEF StartServices, Verify, KeepUndo
<1>5. CASE Requiesce \/ Finish
  BY <1>5 DEF Requiesce, Finish, KeepUndo
<1>6. CASE Undoing \/ Undone
  BY <1>6 DEF Undoing, Undone, KeepUndo
<1>7. CASE Restart \/ Fail
  BY <1>7 DEF Restart, Fail, KeepUndo
<1>8. CASE Recover \/ VerifyKept
  BY <1>8 DEF Recover, VerifyKept, KeepUndo
<1>9. CASE FinishKept \/ KeepOld
  BY <1>9 DEF FinishKept, KeepOld, KeepUndo
<1>10. CASE QuiesceCut
  BY <1>10 DEF QuiesceCut
<1>11. CASE BindCheck \/ DropCopies
  BY <1>11 DEF BindCheck, DropCopies, KeepUndo
<1>12. CASE Recovered
  BY <1>12 DEF Recovered, KeepUndo
<1>13. CASE Deleted
  BY <1>13 DEF Deleted, KeepUndo
<1>14. CASE DeleteOldCopy \/ AppsWrite
  BY <1>14 DEF DeleteOldCopy, AppsWrite, KeepUndo
<1>15. CASE Stop
  BY <1>15 DEF Stop, Load
<1>16. CASE Boot
  BY <1>16 DEF Boot, Load
<1>17. ASSUME NEW a \in Area, Copy(a) \/ Copied(a)
      PROVE  HistoryStays
  BY <1>17 DEF Copy, Copied, KeepUndo
<1>18. ASSUME NEW a \in Area, RemoveBegins(a) \/ RemoveEnds(a)
      PROVE  HistoryStays
  BY <1>18 DEF RemoveBegins, RemoveEnds, KeepUndo
<1>19. ASSUME NEW a \in Area, SetAside(a) \/ MakeLive(a) \/ WriteUnit(a) \/ WriteDropIn(a) \/ Mount(a)
      PROVE  HistoryStays
  BY <1>19 DEF SetAside, MakeLive, WriteUnit, WriteDropIn, Mount, Push, SwitchStep
<1>20. ASSUME NEW a \in Area, StopMount(a) \/ Disable(a) \/ DropUnit(a) \/ RemoveLive(a) \/ RenameNew(a)
      PROVE  HistoryStays
  BY <1>20 DEF StopMount, Disable, DropUnit, RemoveLive, RenameNew, KeepUndo, Push, SwitchStep
<1>21. ASSUME NEW a \in Area, Unmount(a)
      PROVE  HistoryStays
  BY <1>21 DEF Unmount
<1>22. ASSUME NEW a \in Area, Unwrite(a)
      PROVE  HistoryStays
  BY <1>22 DEF Unwrite, KeepUndo, UndoStep
<1>23. ASSUME NEW a \in Area, PutBack(a)
      PROVE  HistoryStays
  BY <1>23 DEF PutBack, UndoStep
<1>24. ASSUME NEW a \in Area, MoveAside(a) \/ Rewrite(a)
      PROVE  HistoryStays
  BY <1>24 DEF MoveAside, Rewrite, UndoStep
<1>25. ASSUME NEW a \in Area, Enable(a) \/ Remount(a)
      PROVE  HistoryStays
  BY <1>25 DEF Enable, Remount, UndoStep
<1>26. ASSUME NEW a \in Area, EnableUnit(a) \/ SetAsideBoot(a)
      PROVE  HistoryStays
  BY <1>26 DEF EnableUnit, SetAsideBoot, KeepUndo, UndoStep
<1>27. ASSUME NEW a \in Area, BackUnmount(a)
      PROVE  HistoryStays
  BY <1>27 DEF BackUnmount, RecoverStep
<1>28. ASSUME NEW a \in Area, BackUnwrite(a)
      PROVE  HistoryStays
  BY <1>28 DEF BackUnwrite, RecoverStep
<1>29. ASSUME NEW a \in Area, BackRename(a)
      PROVE  HistoryStays
  BY <1>29 DEF BackRename, RecoverStep
<1>30. ASSUME NEW a \in Area, BindAside(a)
      PROVE  HistoryStays
  BY <1>30 DEF BindAside, RecoverStep
<1>31. ASSUME NEW a \in Area, BindUnit(a)
      PROVE  HistoryStays
  BY <1>31 DEF BindUnit, RecoverStep
<1>32. ASSUME NEW a \in Area, BindDropIn(a)
      PROVE  HistoryStays
  BY <1>32 DEF BindDropIn, RecoverStep
<1>33. ASSUME NEW a \in Area, BindMount(a)
      PROVE  HistoryStays
  BY <1>33 DEF BindMount, RecoverStep
<1>34. ASSUME NEW a \in Area, Delete("deleteOld", a, "old") \/ Delete("deleteTgt", a, "tgt")
      PROVE  HistoryStays
  BY <1>34 DEF Delete, KeepUndo
<1>35. ASSUME NEW target \in Where, Start(target)
      PROVE  HistoryStays
  BY <1>35 DEF Start
<1> QED BY <1>1, <1>2, <1>3, <1>4, <1>5, <1>6, <1>7, <1>8, <1>9, <1>10, <1>11, <1>12, <1>13, <1>14,
     <1>15, <1>16, <1>17, <1>18, <1>19, <1>20, <1>21, <1>22, <1>23, <1>24, <1>25, <1>26, <1>27,
     <1>28, <1>29, <1>30, <1>31, <1>32, <1>33, <1>34, <1>35 DEF Next, Work, SwitchArea, UndoArea,
     RecoverArea
\* The first state, and the types of every step.
LEMMA TypeInit ==
  Init => TypeOK /\ Idle /\ Held
<1> SUFFICES ASSUME Init PROVE TypeOK /\ Idle /\ Held
  OBVIOUS
<1>1. [live |-> "data", old |-> "none", new |-> "none", tgt |-> "none", aside |-> {},
       mnt |-> FALSE, unit |-> FALSE, drop |-> FALSE, on |-> FALSE] \in Folders
  BY DEF Content
<1>2. fs \in [Area -> Folders]
  BY <1>1 DEF Init
<1>3. RecordsOK
  BY DEF Init, RecordsOK, NoMove, MoveState, Where
<1>4. TypeOK
  BY <1>2, <1>3 DEF Init, TypeOK, StepsOK, RecordsOK
<1>5. Idle
  BY DEF Init, Idle, Left, NoMove
<1>6. \A a \in Area : Home(fs[a]) /\ ~fs[a].mnt /\ fs[a].live = "data" /\ ~fs[a].unit
  BY DEF Init
<1>7. Held
  BY <1>6 DEF Init, Held, Records, DockerHasItsMounts, OnlyWhenTold, HeldIdle, NoMove, View, location
<1> QED BY <1>4, <1>5, <1>7

LEMMA TypeStays ==
  ASSUME TypeOK, UNCHANGED vars
  PROVE  TypeOK'
<1>1. UNCHANGED <<fs, unsynced, disk, docker, apps, state, file, cut, todo, undos, stuck, err>>
  BY DEF vars, disks, run, mover, work
<1>2. UNCHANGED <<mixed, unnoted, blind, relisted, unstarted, said>>
  BY DEF vars, past, history
<1> QED BY <1>1, <1>2 DEF TypeOK, StepsOK

LEMMA TypeStep ==
  ASSUME TypeOK, [Next]_vars
  PROVE  TypeOK'
<1>1. CASE Next
  BY <1>1, FoldersStay, StepsStay, FlagsStay, RecordsStay DEF TypeOK, FlagsOK, RecordsOK
<1> QED BY <1>1, TypeStays

-----------------------------------------------------------------------------
(* Every step keeps the invariant.                                         *)

LEMMA MoveKeeps ==
  ASSUME TypeOK, Held, InScript, Accounted',
         \/ Measure \/ Quiesce \/ Copying \/ Sync \/ Switching \/ Reload \/ Check
         \/ StartServices \/ Verify \/ Requiesce \/ Finish
         \/ Undoing \/ Undone \/ Restart \/ Fail
  PROVE  Held' /\ InScript'
BY MeasureStep, QuiesceStep, CopyingStep, SyncStep, SwitchingStep, ReloadStep, CheckStep,
   StartServicesStep, VerifyStep, RequiesceStep, FinishStep,
   UndoingStep, UndoneStep, RestartStep, FailStep

LEMMA RecoveryKeeps ==
  ASSUME TypeOK, Held, InScript, Accounted',
         \/ Recover \/ VerifyKept \/ FinishKept \/ KeepOld \/ QuiesceCut \/ BindCheck \/ DropCopies
         \/ Recovered \/ Deleted \/ DeleteOldCopy \/ AppsWrite \/ Stop \/ Boot
         \/ \E target \in Where : Start(target)
  PROVE  Held' /\ InScript'
BY RecoverTakesUp, VerifyKeptStep, FinishKeptStep, KeepOldStep, QuiesceCutStep, BindCheckStep, DropCopiesStep,
   RecoveredStep, DeletedStep, DeleteOldCopyStep, AppsWriteStep, StopStep, BootStep, StartStep

LEMMA AreaKeeps ==
  ASSUME TypeOK, Held, InScript, NEW a \in Area,
         \/ Copy(a) \/ Copied(a) \/ RemoveBegins(a) \/ RemoveEnds(a)
         \/ SwitchArea(a) \/ UndoArea(a) \/ RecoverArea(a)
         \/ Delete("deleteOld", a, "old") \/ Delete("deleteTgt", a, "tgt")
  PROVE  Held' /\ InScript'
<1>1. CASE Copy(a) \/ Copied(a) \/ RemoveBegins(a) \/ RemoveEnds(a)
  BY <1>1, CopyStep, CopiedStep, RemoveBeginsStep, RemoveEndsStep
<1>2. CASE SwitchArea(a)
  BY <1>2, SetAsideStep, MakeLiveStep, WriteUnitStep, WriteDropInStep, MountStep,
     StopMountStep, DisableStep, DropUnitStep, RemoveLiveStep, RenameNewStep DEF SwitchArea
<1>3. CASE UndoArea(a)
  BY <1>3, UnmountStep, UnwriteStep, PutBackStep, MoveAsideStep, RewriteStep, EnableStep, RemountStep DEF UndoArea
<1>4. CASE RecoverArea(a)
  BY <1>4, EnableUnitStep, SetAsideBootStep, BackUnmountStep, BackUnwriteStep, BackRenameStep,
     BindAsideStep, BindUnitStep, BindDropInStep, BindMountStep DEF RecoverArea
<1>5. CASE Delete("deleteOld", a, "old") \/ Delete("deleteTgt", a, "tgt")
  BY <1>5, DeleteStep
<1> QED BY <1>1, <1>2, <1>3, <1>4, <1>5

LEMMA StepKeeps ==
  ASSUME TypeOK, IInv, [Next]_vars
  PROVE  IInv'
<1>1. CASE Next
  <2>1. Accounted' => Accounted
    BY <1>1, HistoryGrows DEF HistoryStays, Accounted, TypeOK
  <2>2. ASSUME Accounted' PROVE Held' /\ InScript'
    BY <1>1, <2>1, <2>2, MoveKeeps, RecoveryKeeps, AreaKeeps DEF IInv, Next, Work
  <2> QED BY <2>2 DEF IInv
<1>2. CASE UNCHANGED vars
  <2>1. /\ UNCHANGED <<fs, unsynced, disk, docker, apps, state, file, cut>>
        /\ UNCHANGED <<todo, undos, stuck, err, mixed, unnoted, blind, relisted, unstarted, said>>
    BY <1>2 DEF vars, disks, run, mover, work, past, history
  <2>2. Held' = Held
    BY <2>1 DEF Held, Records, DockerHasItsMounts, OnlyWhenTold, HeldIdle, HeldFolder, HeldDefault, View, location
  <2>3. (Idle \/ Stopping \/ CopyingOn \/ Requiescing)' = (Idle \/ Stopping \/ CopyingOn \/ Requiescing)
    BY <2>1 DEF Idle, Stopping, CopyingOn, Requiescing, Left, Calm, Same, Still, View,
       CanUndo, CanGoHome, CanGoBack, MountsHaveUnits, OwedRight, OwedIn
  <2>4. (ToTheFolder \/ ToTheDefault)' = (ToTheFolder \/ ToTheDefault)
    BY <2>1 DEF ToTheFolder, ToTheDefault, Left, Fresh, CanGoHome, CanGoBack, OwedIn, FolderInOrder,
       DefaultInOrder, AllOrNone
  <2>5. (Starting \/ UndoingIt \/ GivingUp)' = (Starting \/ UndoingIt \/ GivingUp)
    BY <2>1 DEF Starting, UndoingIt, GivingUp, Left, Fresh, CanUndo, CanGoHome, CanGoBack, MountsHaveUnits,
       OwedRight, OwedIn, Spare, Removing, AppsAreBack
  <2>6. (RecoverNext \/ Keeping \/ FinishingKept \/ KeptOver)' = (RecoverNext \/ Keeping \/ FinishingKept \/ KeptOver)
    BY <2>1 DEF RecoverNext, Keeping, FinishingKept, KeptOver, Recovering, SwitchEnded, Left
  <2>7. (QuiesceNext \/ PutBackNext \/ Dropping)' = (QuiesceNext \/ PutBackNext \/ Dropping)
    BY <2>1 DEF QuiesceNext, PutBackNext, Dropping, PuttingBack, Recovering, Fresh, Left, BackInOrder, BindInOrder,
       Spare, Removing, AppsAreBack
  <2> QED BY <2>1, <2>2, <2>3, <2>4, <2>5, <2>6, <2>7 DEF IInv, Accounted, InScript, AMove, ARecovery
<1> QED BY <1>1, <1>2

-----------------------------------------------------------------------------
(* What follows from it.                                                   *)

\* While the state file has no move, the data is at home or in the folder; while
\* it has one, the data is where the move left it or took it from.
LEMMA HeldSurvives ==
  ASSUME TypeOK, Held, NEW a \in Area
  PROVE  /\ Somewhere(a, Place)
         /\ ~relisted => \A s \in {state, file} : Somewhere(a, {p \in Place : <<a, p>> \notin s.old})
<1>1. state.old = file.old
  BY DEF Held, Records, TypeOK, MoveState
<1>2. \/ fs[a].live = "data"
      \/ fs[a].tgt = "data" /\ (~relisted => <<a, "tgt">> \notin file.old)
  <2>1. CASE ~Busy(file)
    BY <2>1 DEF Held, HeldIdle
  <2>2. CASE ToFolder
    BY <2>2 DEF Held, HeldFolder
  <2>3. CASE ToDefault
    BY <2>3 DEF Held, HeldDefault
  <2> QED BY <2>1, <2>2, <2>3 DEF TypeOK, MoveState, Where
<1>3. <<a, "live">> \notin file.old
  BY DEF TypeOK, MoveState
<1> QED BY <1>1, <1>2, <1>3 DEF Somewhere, Place

LEMMA Survives ==
  TypeOK /\ IInv => DataSurvives
BY HeldSurvives DEF IInv, DataSurvives

LEMMA Runs ==
  TypeOK /\ IInv => RunsOnTheData
<1> SUFFICES ASSUME TypeOK, IInv, Free, docker, ~said, ~blind
             PROVE  OnData /\ (~unnoted /\ ~unstarted => apps)
  BY DEF RunsOnTheData
<1>1. Held /\ InScript
  BY DEF IInv, Accounted
<1>2. ~Busy(file) /\ HeldIdle
  BY <1>1 DEF Held, Records, Free
<1>3. OnData
  BY <1>1, <1>2 DEF HeldIdle, Held, DockerHasItsMounts, OnData, View
<1> QED BY <1>2, <1>3 DEF HeldIdle

-----------------------------------------------------------------------------
(* The theorems.                                                           *)

\* Whatever the numbers of moves, cuts, faults and boots without the drive, every
\* variable has its type and the script no step of its own making.
THEOREM TypeInvariant ==
  Spec => []TypeOK
<1>1. Init => TypeOK
  BY TypeInit
<1>2. TypeOK /\ [Next]_vars => TypeOK'
  BY TypeStep
<1> QED BY <1>1, <1>2, PTL DEF Spec

\* The records, the disk and the steps that are left agree, at every instant of
\* a move, of its undo and of a recovery (IInv).
THEOREM ScriptInvariant ==
  Spec => []IInv
<1>1. Init => IInv
  BY TypeInit DEF IInv, InScript
<1>2. TypeOK /\ IInv /\ [Next]_vars => IInv'
  BY StepKeeps
<1> QED BY <1>1, <1>2, TypeInvariant, PTL DEF Spec

\* DataSurvives: the owner's data is never lost, and what is offered for deletion
\* is spare, whichever command fails and wherever the move or its recovery is cut.
THEOREM DataIsNeverLost ==
  Spec => []DataSurvives
BY ScriptInvariant, TypeInvariant, Survives, PTL

\* RunsOnTheData: a move or a recovery that is over and told the owner of nothing
\* left Docker on the owner's data, with the containers that ran before.
THEOREM DockerRunsOnTheData ==
  Spec => []RunsOnTheData
BY ScriptInvariant, TypeInvariant, Runs, PTL
=============================================================================
