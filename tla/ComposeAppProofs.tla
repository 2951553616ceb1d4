--------------------------- MODULE ComposeAppProofs ---------------------------
(***************************************************************************)
(* The files of an app outlive its containers, what its owner stopped      *)
(* stays off, a save that was acknowledged stands, and what runs is what   *)
(* the files say: for any number of requests, edits and images, whatever   *)
(* fails and however often the service is killed or the box starts again.  *)
(* The first two rest on ComposeInv, that only the holder of the claim is  *)
(* at a step that writes; the other two on HolderInv besides, what the     *)
(* holder's step says of the files and of the containers.                  *)
(***************************************************************************)
EXTENDS ComposeApp, TLAPS

Defs == [edit : 0 .. MaxEdits, image : Images, env : Nat]
ClaimedSteps ==
  {"prepare", "backup", "write", "writeenv", "create", "start", "wait", "undo", "undoenv",
   "undocreate", "undostart", "iwrite", "icreate", "istart", "ustop", "udown", "ufolder"}
Steps == ClaimedSteps \cup {"idle", "read", "claim", "clear", "up", "stop", "mark"}
Requests == [at : Steps, op : Ops \cup {"none"}, loaded : Defs, news : Defs, oldEnv : Nat]
States == {"none", "running", "exited", "created", "failed"}
Boxes == [of : SUBSET Defs, state : States]
Files == Versions \cup {NoFile}

ComposeTypes ==
  /\ file \in Files /\ bak \in Files /\ env \in Nat
  /\ box \in Boxes
  /\ holder \in Calls \cup {Nobody}
  /\ call \in [Calls -> Requests]
  /\ marker \in BOOLEAN /\ live \in BOOLEAN
  /\ sweep \in {"armed", "mark", "look", "clear", "start", "done"}
  /\ edits \in 1 .. MaxEdits
  /\ asked \in Nat /\ kills \in Nat
  /\ kept \in Nat /\ keptEnv \in Nat
  /\ odd \subseteq {"crash", "undo", "stale", "over", "lost"}
  /\ off \in {"no", "yes", "unmarked", "rebooted"}
  /\ mixed \in BOOLEAN /\ abandoned \in BOOLEAN

(* What a request knows while it works: only the holder of the claim is at   *)
(* a step that writes, and between its steps nobody took what it relies on.  *)
WithCopy == {"write", "writeenv", "create", "start", "wait", "undo", "undoenv", "undocreate", "undostart"}
WithFile == WithCopy \cup {"icreate", "istart"}
WithBox == {"start", "wait", "undostart", "istart"}

CallInv(c) ==
  /\ call[c].at \in ClaimedSteps => holder = c
  /\ call[c].at = "read" => call[c].op = "env"
  /\ call[c].at = "claim" => call[c].op \in {"save", "env", "update", "install", "uninstall"}
  /\ call[c].at = "claim" /\ Writes(call[c].op) => call[c].news.edit > 0
  /\ call[c].at \in {"backup", "write", "iwrite"} => call[c].news.edit > 0
  /\ call[c].at \in WithCopy => bak # NoFile
  /\ call[c].at \in WithFile => file # NoFile
  /\ call[c].at \in WithBox => box.of # {}
  /\ call[c].at = "ufolder" => box.of = {}
  /\ call[c].at = "idle" => call[c].op = "none"
  /\ call[c].op = "stop" <=> call[c].at \in {"stop", "mark"}

NothingRunsEmpty == box.of = {} => box.state # "running"

(* A stop nobody crossed is alone, and its app is down until it marks it.    *)
StopIsAlone ==
  \A c \in Calls :
    call[c].op = "stop" /\ ~mixed =>
      /\ \A d \in Calls \ {c} : call[d].at = "idle"
      /\ ~SweepHasAsked
      /\ call[c].at = "mark" => off = "yes"

(* The owner's last word is a stop: nothing is under way that would undo it. *)
OffIsQuiet ==
  off = "yes" =>
    /\ \A c \in Calls : call[c].at \in {"idle", "mark"}
    /\ mixed => ~marker
    /\ ~mixed => /\ ~SweepHasAsked
                 /\ box.state # "running"
                 /\ marker \/ \E c \in Calls : call[c].at = "mark"

ComposeInv ==
  /\ ComposeTypes
  /\ \A c \in Calls : CallInv(c)
  /\ FilesOutliveContainers
  /\ NothingRunsEmpty
  /\ StopIsAlone
  /\ OffIsQuiet

-----------------------------------------------------------------------------
LEMMA DefsAreTyped ==
  /\ NoDef \in Defs /\ Idle \in Requests
  /\ \A f \in Files, e \in Nat : Def(f, e) \in Defs
  /\ \A f \in Files : f # NoFile => f \in Versions /\ f.edit > 0 /\ f.image \in Images
  /\ \A d \in Defs : d.edit > 0 => [edit |-> d.edit, image |-> d.image] \in Versions
  /\ \A v \in Versions : v # NoFile /\ v \in Files
  /\ NoFile \in Files
<1>1. 0 \in Images /\ MaxEdits \in Nat /\ 0 \in 0 .. MaxEdits
  BY ImagesAssumption, BoundsAssumption
<1>2. NoDef \in Defs
  BY <1>1 DEF NoDef, Def, NoFile, Defs
<1>3. Idle \in Requests
  BY <1>2 DEF Idle, Requests, Steps
<1>4. ASSUME NEW f \in Files PROVE f.edit \in 0 .. MaxEdits /\ f.image \in Images
  <2>1. CASE f \in Versions
    <3>1. f.edit \in 1 .. MaxEdits /\ f.image \in Images
      BY <2>1 DEF Versions
    <3>2. \A x \in 1 .. MaxEdits : x \in 0 .. MaxEdits
      BY <1>1
    <3> QED
      BY <3>1, <3>2
  <2>2. CASE f = NoFile
    BY <1>1, <2>2 DEF NoFile
  <2> QED
    BY <2>1, <2>2 DEF Files
<1>5. \A f \in Files, e \in Nat : Def(f, e) \in Defs
  BY <1>4 DEF Def, Defs
<1>6. ASSUME NEW f \in Files, f # NoFile PROVE f \in Versions /\ f.edit > 0 /\ f.image \in Images
  <2>1. f \in Versions
    BY <1>6 DEF Files
  <2>2. f.edit \in 1 .. MaxEdits /\ f.image \in Images
    BY <2>1 DEF Versions
  <2> QED
    BY <2>1, <2>2
<1>7. ASSUME NEW d \in Defs, d.edit > 0
      PROVE  [edit |-> d.edit, image |-> d.image] \in Versions
  <2>1. d.edit \in 0 .. MaxEdits /\ d.image \in Images
    BY DEF Defs
  <2>2. d.edit \in 1 .. MaxEdits
    BY <1>1, <1>7, <2>1
  <2> QED
    BY <2>1, <2>2 DEF Versions
<1>8. \A v \in Versions : v # NoFile /\ v \in Files
  <2>1. \A v \in Versions : v.edit \in 1 .. MaxEdits
    BY DEF Versions
  <2>2. NoFile.edit = 0
    BY DEF NoFile
  <2> QED
    BY <1>1, <2>1, <2>2 DEF Files
<1>9. NoFile \in Files
  BY DEF Files
<1> QED
  BY <1>2, <1>3, <1>5, <1>6, <1>7, <1>8, <1>9

Spared(c) == \A d \in Calls \ {c} : call'[d] = call[d]

LEMMA GotoIs ==
  ASSUME ComposeTypes, NEW c \in Calls, NEW s \in Steps, Goto(c, s)
  PROVE  /\ call' \in [Calls -> Requests] /\ Spared(c)
         /\ call'[c].at = s /\ call'[c].op = call[c].op /\ call'[c].loaded = call[c].loaded
         /\ call'[c].news = call[c].news /\ call'[c].oldEnv = call[c].oldEnv
  BY DEF ComposeTypes, Requests, Goto, Spared

LEMMA GotoWithIs ==
  ASSUME ComposeTypes, NEW c \in Calls, NEW s \in Steps, NEW d \in Defs, GotoWith(c, s, d)
  PROVE  /\ call' \in [Calls -> Requests] /\ Spared(c)
         /\ call'[c].at = s /\ call'[c].op = call[c].op /\ call'[c].news = d
  BY DEF ComposeTypes, Requests, GotoWith, Spared

LEMMA LeaveIs ==
  ASSUME ComposeTypes, NEW c \in Calls, Leave(c)
  PROVE  /\ call' \in [Calls -> Requests] /\ Spared(c)
         /\ call'[c] = Idle /\ call'[c].at = "idle" /\ call'[c].op = "none"
  BY DefsAreTyped DEF ComposeTypes, Leave, Spared, Idle

LEMMA BoxesAreTyped ==
  ASSUME ComposeTypes
  PROVE  /\ box.of \subseteq Defs /\ box.state \in States
         /\ \A s \in States : /\ InState(s) \in Boxes
                              /\ InState(s).of = box.of /\ InState(s).state = s
         /\ \A d \in Defs : /\ Created(d) \in Boxes /\ Created(d).of # {}
                            /\ HalfCreated(d) \subseteq Boxes
                            /\ \A b \in HalfCreated(d) : b = box \/ b.of # {}
         /\ Gone \in Boxes /\ Gone.of = {} /\ Gone.state = "none"
         /\ OnDisk \in Defs
<1>1. box \in Boxes
  BY DEF ComposeTypes
<1>2. box.of \subseteq Defs /\ box.state \in States
  BY <1>1 DEF Boxes
<1>3. \A s \in States : InState(s) \in Boxes /\ InState(s).of = box.of /\ InState(s).state = s
  BY <1>1 DEF Boxes, InState
<1>4. ASSUME NEW d \in Defs
      PROVE  /\ Created(d) \in Boxes /\ Created(d).of # {}
             /\ HalfCreated(d) \subseteq Boxes
             /\ \A b \in HalfCreated(d) : b = box \/ b.of # {}
  BY <1>1, <1>2 DEF Created, HalfCreated, Boxes, States
<1>5. Gone \in Boxes /\ Gone.of = {} /\ Gone.state = "none"
  BY DEF Gone, Boxes, States
<1>6. OnDisk \in Defs
  BY DefsAreTyped DEF ComposeTypes, OnDisk
<1> QED
  BY <1>2, <1>3, <1>4, <1>5, <1>6

LEMMA ComposeStarts == Init => ComposeInv
<1> SUFFICES ASSUME Init PROVE ComposeInv
  OBVIOUS
<1>1. file \in Files /\ bak \in Files /\ file # NoFile /\ OnDisk \in Defs
  <2>1. 1 \in 1 .. MaxEdits /\ 0 \in Images
    BY ImagesAssumption, BoundsAssumption
  <2>2. file \in Versions /\ file # NoFile
    BY <2>1 DEF Init, Versions, NoFile
  <2> QED
    BY <2>2, DefsAreTyped DEF Init, Files, OnDisk
<1>2. ComposeTypes
  <2>1. box \in Boxes
    BY <1>1 DEF Init, Boxes, States
  <2>2. call \in [Calls -> Requests]
    BY DefsAreTyped DEF Init
  <2>3. edits \in 1 .. MaxEdits
    BY BoundsAssumption DEF Init
  <2> QED
    BY <1>1, <2>1, <2>2, <2>3 DEF Init, ComposeTypes
<1>3. ASSUME NEW c \in Calls PROVE CallInv(c)
  BY <1>1 DEF Init, CallInv, Idle, ClaimedSteps, WithCopy, WithFile, WithBox
<1> QED
  BY <1>1, <1>2, <1>3 DEF Init, ComposeInv, FilesOutliveContainers, NothingRunsEmpty, StopIsAlone,
     OffIsQuiet, Idle
-----------------------------------------------------------------------------
(* The steps of a request that write its files.                              *)
LEMMA RequestIs ==
  ASSUME ComposeTypes, NEW c \in Calls
  PROVE  /\ call[c].news \in Defs /\ call[c].news.env \in Nat /\ call[c].loaded \in Defs
         /\ call[c].oldEnv \in Nat /\ env \in Nat /\ call[c].news.edit \in Nat
<1>1. call[c].news \in Defs /\ call[c].loaded \in Defs /\ call[c].oldEnv \in Nat
  BY DEF ComposeTypes, Requests
<1>2. call[c].news.env \in Nat /\ call[c].news.edit \in 0 .. MaxEdits
  BY <1>1 DEF Defs
<1> QED
  BY <1>1, <1>2, BoundsAssumption DEF ComposeTypes

LEMMA WriteStepsAreTyped ==
  ASSUME ComposeTypes, NEW c \in Calls, CallInv(c),
         \/ ReadCurrent(c) \/ Claim(c) \/ Prepare(c) \/ Backup(c)
         \/ WriteCompose(c) \/ WriteEnv(c)
  PROVE  ComposeTypes' /\ Spared(c)
<1>1. CASE ReadCurrent(c)
  <2>1. Def(file, call[c].news.env) \in Defs
    BY RequestIs, DefsAreTyped DEF ComposeTypes
  <2>2. call' \in [Calls -> Requests] /\ Spared(c)
    BY <1>1, <2>1, LeaveIs, GotoWithIs DEF ReadCurrent, Steps
  <2> QED
    BY <1>1, <2>2 DEF ReadCurrent, ComposeTypes, files, world, ghosts
<1>2. CASE Claim(c)
  <2>1. call' \in [Calls -> Requests] /\ Spared(c)
    BY <1>2, LeaveIs, GotoIs DEF Claim, Steps, ClaimedSteps
  <2> QED
    BY <1>2, <2>1 DEF Claim, MarkCleared, ComposeTypes, files, world, ghosts
<1>3. CASE Prepare(c)
  <2>1. ASSUME file # NoFile, NEW i \in Images PROVE Def([file EXCEPT !.image = i], env) \in Defs
    <3>1. file \in Versions
      BY <2>1, DefsAreTyped DEF ComposeTypes
    <3>2. [file EXCEPT !.image = i] \in Versions
      BY <3>1 DEF Versions
    <3> QED
      BY <3>2, RequestIs, DefsAreTyped
  <2>2. call' \in [Calls -> Requests] /\ Spared(c)
    BY <1>3, <2>1, LeaveIs, GotoWithIs DEF Prepare, Release, Steps, ClaimedSteps
  <2> QED
    BY <1>3, <2>2 DEF Prepare, Release, ComposeTypes, files, world, ghosts
<1>4. CASE Backup(c)
  <2>1. call' \in [Calls -> Requests] /\ Spared(c)
    <3>1. CASE Leave(c)
      BY <3>1, LeaveIs
    <3>2. CASE call' = [call EXCEPT ![c].at = "write", ![c].oldEnv = IF call[c].op = "env" THEN env ELSE 0]
      <4> DEFINE e == IF call[c].op = "env" THEN env ELSE 0
                 q == [call[c] EXCEPT !.at = "write", !.oldEnv = e]
      <4>1. e \in Nat /\ call[c] \in Requests /\ "write" \in Steps
        BY RequestIs DEF ComposeTypes, Steps, ClaimedSteps
      <4>2. q \in Requests
        BY <4>1 DEF Requests
      <4>3. call' = [call EXCEPT ![c] = q]
        BY <3>2
      <4> HIDE DEF q
      <4> QED
        BY <4>2, <4>3 DEF ComposeTypes, Spared
    <3> QED
      BY <1>4, <3>1, <3>2 DEF Backup, Release
  <2> QED
    BY <1>4, <2>1 DEF Backup, Release, ComposeTypes, world, ghosts
<1>5. CASE WriteCompose(c)
  <2>1. call' \in [Calls -> Requests] /\ Spared(c)
    BY <1>5, GotoIs DEF WriteCompose, Steps, ClaimedSteps
  <2>2. file' \in Files
    BY <1>5, RequestIs, DefsAreTyped DEF WriteCompose, CallInv, At, ComposeTypes
  <2> QED
    BY <1>5, <2>1, <2>2 DEF WriteCompose, ComposeTypes, world
<1>6. CASE WriteEnv(c)
  <2>1. call' \in [Calls -> Requests] /\ Spared(c)
    BY <1>6, GotoIs DEF WriteEnv, Steps, ClaimedSteps
  <2>2. env' \in Nat
    BY <1>6, RequestIs DEF WriteEnv
  <2> QED
    BY <1>6, <2>1, <2>2 DEF WriteEnv, ComposeTypes, world, ghosts
<1> QED
  BY <1>1, <1>2, <1>3, <1>4, <1>5, <1>6

(* The steps that create, start and undo.                                    *)
LEMMA ApplyStepsAreTyped ==
  ASSUME ComposeTypes, NEW c \in Calls,
         \/ CreateNew(c) \/ StartNew(c) \/ WaitNew(c)
         \/ UndoCompose(c) \/ UndoEnv(c) \/ UndoCreate(c) \/ UndoStart(c)
  PROVE  ComposeTypes' /\ Spared(c)
<1>0. call[c].loaded \in Defs /\ call[c].oldEnv \in Nat
  BY RequestIs
<1>1. CASE CreateNew(c)
  <2>1. call' \in [Calls -> Requests] /\ Spared(c)
    BY <1>1, LeaveIs, GotoIs DEF CreateNew, Release, Steps, ClaimedSteps
  <2>2. box' \in Boxes
    BY <1>1, <1>0, BoxesAreTyped DEF CreateNew, States, ComposeTypes
  <2> QED
    BY <1>1, <2>1, <2>2 DEF CreateNew, Release, ComposeTypes, files, world, ghosts
<1>2. CASE StartNew(c)
  <2>1. call' \in [Calls -> Requests] /\ Spared(c)
    BY <1>2, LeaveIs, GotoIs DEF StartNew, Release, Steps, ClaimedSteps
  <2>2. box' \in Boxes
    BY <1>2, <1>0, BoxesAreTyped DEF StartNew, States, ComposeTypes
  <2> QED
    BY <1>2, <2>1, <2>2 DEF StartNew, Release, ComposeTypes, files, world, ghosts
<1>3. CASE WaitNew(c)
  <2>1. call' \in [Calls -> Requests] /\ Spared(c)
    BY <1>3, LeaveIs, GotoIs DEF WaitNew, Release, Steps, ClaimedSteps
  <2>2. box' \in Boxes
    BY <1>3, BoxesAreTyped DEF WaitNew, States, ComposeTypes
  <2>3. /\ kept' \in Nat /\ keptEnv' \in Nat
        /\ odd' \subseteq {"crash", "undo", "stale", "over", "lost"}
    <3>1. file.edit \in Nat
      <4>1. Def(file, 0) \in Defs
        BY DefsAreTyped DEF ComposeTypes
      <4>2. Def(file, 0).edit \in 0 .. MaxEdits
        BY <4>1 DEF Defs
      <4> QED
        BY <4>2, BoundsAssumption DEF Def
    <3>2. CASE Keep(c)
      BY <3>1, <3>2 DEF Keep, ComposeTypes
    <3>3. CASE UNCHANGED <<kept, keptEnv, odd>>
      BY <3>3 DEF ComposeTypes
    <3> QED
      BY <1>3, <3>2, <3>3 DEF WaitNew
  <2> QED
    BY <1>3, <2>1, <2>2, <2>3 DEF WaitNew, Release, ComposeTypes, files, world
<1>4. CASE UndoCompose(c)
  <2>1. call' \in [Calls -> Requests] /\ Spared(c)
    BY <1>4, LeaveIs, GotoIs DEF UndoCompose, Release, Steps, ClaimedSteps
  <2>2. file' \in Files
    BY <1>4, <1>0, RequestIs, DefsAreTyped DEF UndoCompose, ComposeTypes
  <2> QED
    BY <1>4, <2>1, <2>2 DEF UndoCompose, Release, ComposeTypes, world, ghosts
<1>5. CASE UndoEnv(c)
  <2>1. call' \in [Calls -> Requests] /\ Spared(c)
    BY <1>5, LeaveIs, GotoIs DEF UndoEnv, Release, Steps, ClaimedSteps
  <2>2. env' \in Nat
    BY <1>5, <1>0, RequestIs, DefsAreTyped DEF UndoEnv, ComposeTypes
  <2> QED
    BY <1>5, <2>1, <2>2 DEF UndoEnv, Release, ComposeTypes, world, ghosts
<1>6. CASE UndoCreate(c)
  <2>1. call' \in [Calls -> Requests] /\ Spared(c)
    BY <1>6, LeaveIs, GotoIs DEF UndoCreate, Release, Steps, ClaimedSteps
  <2>2. box' \in Boxes
    BY <1>6, <1>0, BoxesAreTyped DEF UndoCreate, States, ComposeTypes
  <2> QED
    BY <1>6, <2>1, <2>2 DEF UndoCreate, Release, ComposeTypes, files, world, ghosts
<1>7. CASE UndoStart(c)
  <2>1. call' \in [Calls -> Requests] /\ Spared(c)
    BY <1>7, LeaveIs, GotoIs DEF UndoStart, Release, Steps, ClaimedSteps
  <2>2. box' \in Boxes
    BY <1>7, <1>0, BoxesAreTyped DEF UndoStart, States, ComposeTypes
  <2> QED
    BY <1>7, <2>1, <2>2 DEF UndoStart, Release, ComposeTypes, files, world, ghosts
<1> QED
  BY <1>1, <1>2, <1>3, <1>4, <1>5, <1>6, <1>7

(* Install, uninstall, and the power of an app.                              *)
LEMMA OtherStepsAreTyped ==
  ASSUME ComposeTypes, NEW c \in Calls, CallInv(c),
         \/ InstallFiles(c) \/ InstallCreate(c) \/ InstallStart(c)
         \/ UninstallStop(c) \/ UninstallDown(c) \/ UninstallFolder(c)
         \/ Clear(c) \/ Up(c) \/ Stop(c) \/ Mark(c)
  PROVE  ComposeTypes' /\ Spared(c)
<1>0. call[c].loaded \in Defs /\ call[c].oldEnv \in Nat
  BY RequestIs
<1>1. CASE InstallFiles(c)
  <2>1. call' \in [Calls -> Requests] /\ Spared(c)
    BY <1>1, LeaveIs, GotoIs DEF InstallFiles, Release, Steps, ClaimedSteps
  <2>2. /\ file' \in Files /\ bak' \in Files /\ env' \in Nat
        /\ kept' \in Nat /\ keptEnv' \in Nat
    BY <1>1, RequestIs, DefsAreTyped DEF InstallFiles, FolderGone, CallInv, At, ComposeTypes
  <2>3. odd' \subseteq {"crash", "undo", "stale", "over", "lost"}
    BY <1>1 DEF InstallFiles, ContainersStay, ComposeTypes
  <2> QED
    BY <1>1, <2>1, <2>2, <2>3 DEF InstallFiles, Release, ComposeTypes, world
<1>2. CASE InstallCreate(c)
  <2>1. call' \in [Calls -> Requests] /\ Spared(c)
    BY <1>2, LeaveIs, GotoIs DEF InstallCreate, Release, Steps, ClaimedSteps
  <2>2. box' \in Boxes
    BY <1>2, <1>0, BoxesAreTyped DEF InstallCreate, States, ComposeTypes
  <2> QED
    BY <1>2, <2>1, <2>2 DEF InstallCreate, Release, ComposeTypes, files, world, ghosts
<1>3. CASE InstallStart(c)
  <2>1. call' \in [Calls -> Requests] /\ Spared(c)
    BY <1>3, LeaveIs, GotoIs DEF InstallStart, Release, Steps, ClaimedSteps
  <2>2. box' \in Boxes
    BY <1>3, <1>0, BoxesAreTyped DEF InstallStart, States, ComposeTypes
  <2> QED
    BY <1>3, <2>1, <2>2 DEF InstallStart, Release, ComposeTypes, files, world, ghosts
<1>4. CASE UninstallStop(c)
  <2>1. call' \in [Calls -> Requests] /\ Spared(c)
    BY <1>4, LeaveIs, GotoIs DEF UninstallStop, Release, Steps, ClaimedSteps
  <2>2. box' \in Boxes
    BY <1>4, <1>0, BoxesAreTyped DEF UninstallStop, States, ComposeTypes
  <2> QED
    BY <1>4, <2>1, <2>2 DEF UninstallStop, Release, ComposeTypes, files, world, ghosts
<1>5. CASE UninstallDown(c)
  <2>1. call' \in [Calls -> Requests] /\ Spared(c)
    BY <1>5, LeaveIs, GotoIs DEF UninstallDown, Release, Steps, ClaimedSteps
  <2>2. box' \in Boxes
    BY <1>5, <1>0, BoxesAreTyped DEF UninstallDown, States, ComposeTypes
  <2> QED
    BY <1>5, <2>1, <2>2 DEF UninstallDown, Release, ComposeTypes, files, world, ghosts
<1>6. CASE UninstallFolder(c)
  <2>1. call' \in [Calls -> Requests] /\ Spared(c)
    BY <1>6, LeaveIs DEF UninstallFolder, Release
  <2>2. /\ file' \in Files /\ bak' \in Files /\ env' \in Nat
        /\ kept' \in Nat /\ keptEnv' \in Nat
    BY <1>6, DefsAreTyped DEF UninstallFolder, FolderGone, ComposeTypes, files
  <2> QED
    BY <1>6, <2>1, <2>2 DEF UninstallFolder, Release, ComposeTypes, world
<1>7. CASE Clear(c)
  <2>1. call' \in [Calls -> Requests] /\ Spared(c)
    BY <1>7, LeaveIs, GotoIs DEF Clear, Release, Steps, ClaimedSteps
  <2>2. box' \in Boxes
    BY <1>7, <1>0, BoxesAreTyped DEF Clear, States, ComposeTypes
  <2> QED
    BY <1>7, <2>1, <2>2 DEF Clear, MarkCleared, Release, ComposeTypes, files, world, ghosts, PowerFrame
<1>8. CASE Up(c)
  <2>1. call' \in [Calls -> Requests] /\ Spared(c)
    BY <1>8, LeaveIs, GotoIs DEF Up, Release, Steps, ClaimedSteps
  <2>2. box' \in Boxes
    BY <1>8, <1>0, BoxesAreTyped DEF Up, States, ComposeTypes
  <2> QED
    BY <1>8, <2>1, <2>2 DEF Up, Release, ComposeTypes, files, world, ghosts, PowerFrame
<1>9. CASE Stop(c)
  <2>1. call' \in [Calls -> Requests] /\ Spared(c)
    BY <1>9, LeaveIs, GotoIs DEF Stop, Release, Steps, ClaimedSteps
  <2>2. box' \in Boxes
    BY <1>9, <1>0, BoxesAreTyped DEF Stop, States, ComposeTypes
  <2> QED
    BY <1>9, <2>1, <2>2 DEF Stop, Release, ComposeTypes, files, world, ghosts, PowerFrame, OtherStop
<1>10. CASE Mark(c)
  <2>1. call' \in [Calls -> Requests] /\ Spared(c)
    BY <1>10, LeaveIs, GotoIs DEF Mark, Release, Steps, ClaimedSteps
  <2>2. box' \in Boxes
    BY <1>10, <1>0, BoxesAreTyped DEF Mark, States, ComposeTypes
  <2> QED
    BY <1>10, <2>1, <2>2 DEF Mark, Release, ComposeTypes, files, world, ghosts, PowerFrame, OtherStop
<1> QED
  BY <1>1, <1>2, <1>3, <1>4, <1>5, <1>6, <1>7, <1>8, <1>9, <1>10

LEMMA AskIsTyped ==
  ASSUME ComposeTypes, NEW c \in Calls, NEW o \in Ops, Ask(c, o)
  PROVE  ComposeTypes' /\ Spared(c) /\ call'[c].at = FirstStep(o) /\ call'[c].op = o
         /\ (Writes(o) => call'[c].news.edit > 0)
<1>1. edits' \in 1 .. MaxEdits
  BY BoundsAssumption DEF Ask, ComposeTypes
<1>2. file.image \in Images
  <2>1. Def(file, 0) \in Defs
    BY DefsAreTyped DEF ComposeTypes
  <2>2. Def(file, 0).image \in Images
    BY <2>1 DEF Defs
  <2> QED
    BY <2>2 DEF Def
<1>3. PICK i \in Images :
        call' = [call EXCEPT ![c] =
          [at |-> FirstStep(o), op |-> o,
           loaded |-> IF o \in Applies THEN OnDisk ELSE NoDef,
           news |-> IF Writes(o) THEN [edit |-> edits', image |-> i, env |-> edits'] ELSE NoDef,
           oldEnv |-> 0]]
  BY <1>2 DEF Ask
<1> DEFINE l == IF o \in Applies THEN OnDisk ELSE NoDef
           n == IF Writes(o) THEN [edit |-> edits', image |-> i, env |-> edits'] ELSE NoDef
           q == [at |-> FirstStep(o), op |-> o, loaded |-> l, news |-> n, oldEnv |-> 0]
<1>4. l \in Defs
  BY DefsAreTyped, BoxesAreTyped
<1>5. n \in Defs /\ (Writes(o) => n.edit > 0)
  <2>1. edits' \in 0 .. MaxEdits /\ edits' \in Nat /\ edits' > 0
    BY <1>1, BoundsAssumption
  <2> QED
    BY <2>1, DefsAreTyped DEF Defs
<1>6. FirstStep(o) \in Steps
  BY DEF FirstStep, Steps, ClaimedSteps
<1>7. q \in Requests
  BY <1>4, <1>5, <1>6 DEF Requests
<1>8. call' = [call EXCEPT ![c] = q]
  BY <1>3
<1>9. q.at = FirstStep(o) /\ q.op = o /\ (Writes(o) => q.news.edit > 0)
  BY <1>5
<1> HIDE DEF q
<1>10. call' \in [Calls -> Requests] /\ Spared(c) /\ call'[c] = q
  BY <1>7, <1>8 DEF ComposeTypes, Spared
<1>11. mixed' \in BOOLEAN
  BY DEF Ask, Busy, Stopping, SweepHasAsked
<1>12. /\ UNCHANGED <<file, env, bak, box, holder, marker, sweep, live, kills, kept, keptEnv, odd>>
       /\ asked' = asked + 1 /\ off' = "no" /\ abandoned' = FALSE
  BY DEF Ask, files, world
<1>13. ComposeTypes'
  <2>1. asked' \in Nat
    BY <1>12 DEF ComposeTypes
  <2>2. call' \in [Calls -> Requests]
    BY <1>10
  <2> QED
    BY <1>1, <1>11, <1>12, <2>1, <2>2 DEF ComposeTypes
<1> QED
  BY <1>9, <1>10, <1>13

LEMMA WorldIsTyped ==
  ASSUME ComposeTypes, Sweep \/ Mount \/ Crash \/ Reboot
  PROVE  ComposeTypes'
<1>1. CASE SweepTick
  <2>1. box' \in Boxes
    BY <1>1, BoxesAreTyped DEF SweepTick, States, ComposeTypes
  <2> QED
    BY <1>1, <2>1 DEF SweepTick, SweepFrame, Stopping, ComposeTypes, files, world
<1>2. CASE SweepGivesUp
  <2>1. box' \in Boxes
    BY <1>2, BoxesAreTyped DEF SweepGivesUp, States, ComposeTypes
  <2> QED
    BY <1>2, <2>1 DEF SweepGivesUp, SweepFrame, Stopping, ComposeTypes, files, world
<1>3. CASE SweepMark
  <2>1. box' \in Boxes
    BY <1>3, BoxesAreTyped DEF SweepMark, States, ComposeTypes
  <2> QED
    BY <1>3, <2>1 DEF SweepMark, SweepFrame, Stopping, ComposeTypes, files, world
<1>4. CASE SweepLook
  <2>1. box' \in Boxes
    BY <1>4, BoxesAreTyped DEF SweepLook, States, ComposeTypes
  <2> QED
    BY <1>4, <2>1 DEF SweepLook, SweepFrame, Stopping, ComposeTypes, files, world
<1>5. CASE SweepClear
  <2>1. box' \in Boxes
    BY <1>5, BoxesAreTyped DEF SweepClear, States, ComposeTypes
  <2> QED
    BY <1>5, <2>1 DEF SweepClear, MarkCleared, SweepFrame, ComposeTypes, files, world
<1>6. CASE SweepStart
  <2>1. box' \in Boxes
    BY <1>6, BoxesAreTyped DEF SweepStart, States, ComposeTypes
  <2> QED
    BY <1>6, <2>1 DEF SweepStart, SweepFrame, Stopping, ComposeTypes, files, world
<1>7. CASE Mount
  BY <1>7 DEF Mount, ComposeTypes, files, ghosts
<1>8. CASE Crash
  <2>1. call' \in [Calls -> Requests]
    BY <1>8, DefsAreTyped DEF Crash, Killed
  <2>2. odd' \subseteq {"crash", "undo", "stale", "over", "lost"} /\ kills' \in Nat
    BY <1>8 DEF Crash, Killed, ComposeTypes
  <2> QED
    BY <1>8, <2>1, <2>2 DEF Crash, Killed, ComposeTypes, files
<1>9. CASE Reboot
  <2>1. box' \in Boxes
    BY <1>9, BoxesAreTyped DEF Reboot, States, ComposeTypes
  <2>2. call' \in [Calls -> Requests]
    BY <1>9, DefsAreTyped DEF Reboot, Killed
  <2>3. odd' \subseteq {"crash", "undo", "stale", "over", "lost"} /\ kills' \in Nat
    BY <1>9 DEF Reboot, Killed, ComposeTypes
  <2>4. abandoned' \in BOOLEAN /\ off' \in {"no", "yes", "unmarked", "rebooted"}
    BY <1>9 DEF Reboot, Listed, ComposeTypes
  <2> QED
    BY <1>9, <2>1, <2>2, <2>3, <2>4 DEF Reboot, Killed, ComposeTypes, files
<1> QED
  BY <1>1, <1>2, <1>3, <1>4, <1>5, <1>6, <1>7, <1>8, <1>9 DEF Sweep
-----------------------------------------------------------------------------
(* The invariant. A request that leaves relies on nothing; a step of the     *)
(* holder of the claim touches nobody else, and crosses every stop.          *)
LEMMA IdleReliesOnNothing ==
  ASSUME NEW c \in Calls, call'[c] = Idle
  PROVE  CallInv(c)'
<1>1. call'[c].at = "idle" /\ call'[c].op = "none"
  BY DEF Idle
<1> QED
  BY <1>1 DEF CallInv, ClaimedSteps, WithCopy, WithFile, WithBox

LEMMA ClaimedStepKeeps ==
  ASSUME ComposeInv, NEW c \in Calls, call[c].at \in ClaimedSteps,
         ComposeTypes', Spared(c), CallInv(c)', call'[c].op \in {call[c].op, "none"},
         FilesOutliveContainers', NothingRunsEmpty', UNCHANGED <<mixed, off, sweep>>
  PROVE  ComposeInv'
<1>1. /\ CallInv(c) /\ holder = c /\ call[c].op # "stop" /\ call[c].at # "idle"
  BY DEF ComposeInv, CallInv, ClaimedSteps
<1>2. call'[c].op # "stop" /\ call'[c].at # "mark"
  BY <1>1 DEF CallInv
<1>3. ASSUME NEW d \in Calls PROVE CallInv(d)'
  <2>1. CASE d = c
    BY <2>1
  <2>2. CASE d # c
    <3>1. call'[d] = call[d] /\ CallInv(d) /\ call[d].at \notin ClaimedSteps
      BY <1>1, <2>2 DEF ComposeInv, CallInv, Spared
    <3> QED
      BY <3>1 DEF CallInv, ClaimedSteps, WithCopy, WithFile, WithBox
  <2> QED
    BY <2>1, <2>2
<1>4. \A d \in Calls : call'[d].op = "stop" => mixed
  BY <1>1, <1>2 DEF ComposeInv, StopIsAlone, Spared
<1>5. StopIsAlone'
  BY <1>4 DEF StopIsAlone
<1>6. OffIsQuiet'
  BY <1>1 DEF ComposeInv, OffIsQuiet, ClaimedSteps
<1> QED
  BY <1>3, <1>5, <1>6 DEF ComposeInv

(* The steps that write: what is put on disk is a compose file.              *)
LEMMA WritesKeep ==
  ASSUME ComposeInv, NEW c \in Calls,
         Prepare(c) \/ Backup(c) \/ WriteCompose(c) \/ WriteEnv(c)
  PROVE  ComposeInv'
<1>0. ComposeTypes /\ CallInv(c) /\ ComposeTypes' /\ Spared(c)
  BY WriteStepsAreTyped DEF ComposeInv
<1>1. call[c].at \in ClaimedSteps /\ holder = c /\ call[c].op # "stop"
  BY <1>0 DEF Prepare, Backup, WriteCompose, WriteEnv, At, ClaimedSteps, CallInv
<1>2. NothingRunsEmpty' /\ UNCHANGED <<mixed, off, sweep, box>>
  BY DEF ComposeInv, NothingRunsEmpty, Prepare, Backup, WriteCompose, WriteEnv, files, ghosts
<1>3. CASE Prepare(c)
  <2>1. CASE Leave(c)
    BY <1>0, <1>1, <1>2, <1>3, <2>1, LeaveIs, IdleReliesOnNothing, ClaimedStepKeeps
    DEF Prepare, ComposeInv, FilesOutliveContainers, files, ghosts
  <2>2. ASSUME file # NoFile, NEW i \in Images,
               GotoWith(c, "backup", Def([file EXCEPT !.image = i], env)), UNCHANGED holder
        PROVE  ComposeInv'
    <3>1. file \in Versions
      BY <1>0, <2>2, DefsAreTyped DEF ComposeTypes
    <3>2. [file EXCEPT !.image = i] \in Versions
      BY <3>1 DEF Versions
    <3> DEFINE d == Def([file EXCEPT !.image = i], env)
    <3>3. d \in Defs /\ d.edit > 0
      BY <3>2, RequestIs, DefsAreTyped, <1>0 DEF Def
    <3> HIDE DEF d
    <3>4. /\ call'[c].at = "backup" /\ call'[c].op = call[c].op /\ call'[c].news = d
      BY <1>0, <2>2, <3>3, GotoWithIs DEF d, Steps, ClaimedSteps
    <3>5. CallInv(c)'
      BY <1>1, <2>2, <3>3, <3>4 DEF CallInv, WithCopy, WithFile, WithBox
    <3> QED
      BY <1>0, <1>1, <1>2, <1>3, <3>4, <3>5, ClaimedStepKeeps
      DEF Prepare, ComposeInv, FilesOutliveContainers, files, ghosts
  <2> QED
    BY <1>3, <2>1, <2>2 DEF Prepare, Release
<1>4. CASE Backup(c)
  <2>1. CASE Leave(c)
    BY <1>0, <1>1, <1>2, <1>4, <2>1, LeaveIs, IdleReliesOnNothing, ClaimedStepKeeps
    DEF Backup, ComposeInv, FilesOutliveContainers, ghosts
  <2>2. CASE ~Leave(c)
    <3>1. /\ file # NoFile /\ bak' = file /\ file' = file /\ holder' = holder
          /\ call' = [call EXCEPT ![c].at = "write", ![c].oldEnv = IF call[c].op = "env" THEN env ELSE 0]
      BY <1>4, <2>2 DEF Backup, Release
    <3>2. /\ call'[c].at = "write" /\ call'[c].op = call[c].op /\ call'[c].news = call[c].news
      BY <1>0, <3>1 DEF ComposeTypes, Requests
    <3>3. call[c].news.edit > 0
      BY <1>0, <1>4 DEF Backup, At, CallInv
    <3>4. CallInv(c)'
      BY <1>1, <3>1, <3>2, <3>3 DEF CallInv, WithCopy, WithFile, WithBox
    <3> QED
      BY <1>0, <1>1, <1>2, <3>1, <3>2, <3>4, ClaimedStepKeeps DEF FilesOutliveContainers
  <2> QED
    BY <2>1, <2>2
<1>5. CASE WriteCompose(c)
  <2>1. /\ call[c].at = "write" /\ bak # NoFile /\ file # NoFile /\ call[c].news.edit > 0
    BY <1>0, <1>5 DEF WriteCompose, At, CallInv, WithCopy, WithFile
  <2>2. [edit |-> call[c].news.edit, image |-> call[c].news.image] # NoFile
    BY <1>0, <2>1, RequestIs, DefsAreTyped
  <2>3. file' # NoFile /\ holder' = holder /\ bak' = bak
    BY <1>5, <2>1, <2>2 DEF WriteCompose
  <2>4. PICK s \in {"writeenv", "create", "undo"} : Goto(c, s)
    BY <1>5 DEF WriteCompose
  <2>5. call'[c].at = s /\ call'[c].op = call[c].op
    BY <1>0, <2>4, GotoIs DEF Steps, ClaimedSteps
  <2>6. CallInv(c)'
    BY <1>1, <1>2, <2>1, <2>3, <2>5 DEF CallInv, WithCopy, WithFile, WithBox
  <2> QED
    BY <1>0, <1>1, <1>2, <2>3, <2>5, <2>6, ClaimedStepKeeps DEF FilesOutliveContainers
<1>6. CASE WriteEnv(c)
  <2>1. bak # NoFile /\ file # NoFile
    BY <1>0, <1>6 DEF WriteEnv, At, CallInv, WithCopy, WithFile
  <2>2. file' = file /\ holder' = holder /\ bak' = bak
    BY <1>6 DEF WriteEnv
  <2>3. PICK s \in {"create", "undo"} : Goto(c, s)
    BY <1>6 DEF WriteEnv
  <2>4. call'[c].at = s /\ call'[c].op = call[c].op
    BY <1>0, <2>3, GotoIs DEF Steps, ClaimedSteps
  <2>5. CallInv(c)'
    BY <1>1, <1>2, <2>1, <2>2, <2>4 DEF CallInv, WithCopy, WithFile, WithBox
  <2> QED
    BY <1>0, <1>1, <1>2, <2>1, <2>2, <2>4, <2>5, ClaimedStepKeeps DEF FilesOutliveContainers
<1> QED
  BY <1>3, <1>4, <1>5, <1>6

(* The steps that create, start and undo: there is a compose file all along. *)
LEMMA ApplyKeeps ==
  ASSUME ComposeInv, NEW c \in Calls,
         \/ CreateNew(c) \/ StartNew(c) \/ WaitNew(c)
         \/ UndoCompose(c) \/ UndoEnv(c) \/ UndoCreate(c) \/ UndoStart(c)
  PROVE  ComposeInv'
<1>0. ComposeTypes /\ CallInv(c) /\ ComposeTypes' /\ Spared(c)
  BY ApplyStepsAreTyped DEF ComposeInv
<1>1. /\ call[c].at \in ClaimedSteps /\ holder = c /\ call[c].op # "stop"
      /\ call[c].at \in WithCopy /\ bak # NoFile /\ file # NoFile
  BY <1>0 DEF CreateNew, StartNew, WaitNew, UndoCompose, UndoEnv, UndoCreate, UndoStart, At,
     ClaimedSteps, WithCopy, WithFile, CallInv
<1>2. call[c].loaded \in Defs
  BY <1>0, RequestIs
<1>3. CASE CreateNew(c)
  <2>1. /\ file' # NoFile /\ bak' = bak /\ NothingRunsEmpty'
        /\ UNCHANGED <<mixed, off, sweep>>
    BY <1>0, <1>1, <1>2, <1>3, BoxesAreTyped DEF CreateNew, Release, At, CallInv, WithCopy, WithFile, WithBox,
       ComposeInv, NothingRunsEmpty, States, files, ghosts
  <2>2. CASE Leave(c)
    BY <1>0, <1>1, <1>2, <2>1, <2>2, LeaveIs, IdleReliesOnNothing, ClaimedStepKeeps
    DEF FilesOutliveContainers
  <2>3. CASE ~Leave(c)
    <3>1. PICK s \in {"start", "undo"} : Goto(c, s)
      BY <1>3, <2>3 DEF CreateNew, Release
    <3>2. call'[c].at = s /\ call'[c].op = call[c].op
      BY <1>0, <3>1, GotoIs DEF Steps, ClaimedSteps
    <3>3. holder' = holder /\ (s \in WithBox => box'.of # {})
      <4>1. CASE box' = Created(OnDisk)
        BY <1>0, <1>3, <2>3, <4>1, BoxesAreTyped DEF CreateNew, Release
      <4>2. CASE Goto(c, "undo")
        BY <1>0, <1>3, <2>3, <3>2, <4>2, GotoIs DEF CreateNew, Release, WithBox, Steps, ClaimedSteps
      <4> QED
        BY <1>3, <2>3, <4>1, <4>2 DEF CreateNew, Release
    <3>4. CallInv(c)'
      BY <1>1, <2>1, <3>2, <3>3 DEF CallInv, WithCopy, WithFile, WithBox, ClaimedSteps
    <3> QED
      BY <1>0, <1>1, <2>1, <3>2, <3>4, ClaimedStepKeeps DEF FilesOutliveContainers
  <2> QED
    BY <2>2, <2>3
<1>4. CASE StartNew(c)
  <2>1. /\ file' # NoFile /\ bak' = bak /\ NothingRunsEmpty'
        /\ UNCHANGED <<mixed, off, sweep>>
    BY <1>0, <1>1, <1>2, <1>4, BoxesAreTyped DEF StartNew, Release, At, CallInv, WithCopy, WithFile, WithBox,
       ComposeInv, NothingRunsEmpty, States, files, ghosts
  <2>2. CASE Leave(c)
    BY <1>0, <1>1, <1>2, <2>1, <2>2, LeaveIs, IdleReliesOnNothing, ClaimedStepKeeps
    DEF FilesOutliveContainers
  <2>3. CASE ~Leave(c)
    <3>1. PICK s \in {"wait", "undo"} : Goto(c, s)
      BY <1>4, <2>3 DEF StartNew, Release
    <3>2. call'[c].at = s /\ call'[c].op = call[c].op
      BY <1>0, <3>1, GotoIs DEF Steps, ClaimedSteps
    <3>3. holder' = holder /\ (s \in WithBox => box'.of # {}) /\ (s \in WithCopy => bak # NoFile)
      BY <1>0, <1>1, <1>2, <1>4, <2>3, <3>1, <3>2, BoxesAreTyped DEF StartNew, Release, At, CallInv, WithCopy, WithBox,
         States
    <3>4. CallInv(c)'
      BY <1>1, <2>1, <3>2, <3>3 DEF CallInv, WithCopy, WithFile, WithBox, ClaimedSteps
    <3> QED
      BY <1>0, <1>1, <2>1, <3>2, <3>4, ClaimedStepKeeps DEF FilesOutliveContainers
  <2> QED
    BY <2>2, <2>3
<1>5. CASE WaitNew(c)
  <2>1. /\ file' # NoFile /\ bak' = bak /\ NothingRunsEmpty'
        /\ UNCHANGED <<mixed, off, sweep>>
    BY <1>0, <1>1, <1>2, <1>5, BoxesAreTyped DEF WaitNew, Release, At, CallInv, WithCopy, WithFile, WithBox,
       ComposeInv, NothingRunsEmpty, States, files, ghosts
  <2>2. CASE Leave(c)
    BY <1>0, <1>1, <1>2, <2>1, <2>2, LeaveIs, IdleReliesOnNothing, ClaimedStepKeeps
    DEF FilesOutliveContainers
  <2>3. CASE ~Leave(c)
    <3>1. PICK s \in {"undo"} : Goto(c, s)
      BY <1>5, <2>3 DEF WaitNew, Release
    <3>2. call'[c].at = s /\ call'[c].op = call[c].op
      BY <1>0, <3>1, GotoIs DEF Steps, ClaimedSteps
    <3>3. holder' = holder /\ (s \in WithBox => box'.of # {}) /\ (s \in WithCopy => bak # NoFile)
      BY <1>0, <1>1, <1>2, <1>5, <2>3, <3>1, <3>2, BoxesAreTyped DEF WaitNew, Release, At, CallInv, WithCopy, WithBox,
         States
    <3>4. CallInv(c)'
      BY <1>1, <2>1, <3>2, <3>3 DEF CallInv, WithCopy, WithFile, WithBox, ClaimedSteps
    <3> QED
      BY <1>0, <1>1, <2>1, <3>2, <3>4, ClaimedStepKeeps DEF FilesOutliveContainers
  <2> QED
    BY <2>2, <2>3
<1>6. CASE UndoCompose(c)
  <2>1. /\ file' # NoFile /\ bak' = bak /\ NothingRunsEmpty'
        /\ UNCHANGED <<mixed, off, sweep>>
    BY <1>0, <1>1, <1>2, <1>6, BoxesAreTyped DEF UndoCompose, Release, At, CallInv, WithCopy, WithFile, WithBox,
       ComposeInv, NothingRunsEmpty, States, files, ghosts
  <2>2. CASE Leave(c)
    BY <1>0, <1>1, <1>2, <2>1, <2>2, LeaveIs, IdleReliesOnNothing, ClaimedStepKeeps
    DEF FilesOutliveContainers
  <2>3. CASE ~Leave(c)
    <3>1. PICK s \in {"undoenv", "undocreate"} : Goto(c, s)
      BY <1>6, <2>3 DEF UndoCompose, Release
    <3>2. call'[c].at = s /\ call'[c].op = call[c].op
      BY <1>0, <3>1, GotoIs DEF Steps, ClaimedSteps
    <3>3. holder' = holder /\ (s \in WithBox => box'.of # {}) /\ (s \in WithCopy => bak # NoFile)
      BY <1>0, <1>1, <1>2, <1>6, <2>3, <3>1, <3>2, BoxesAreTyped DEF UndoCompose, Release, At, CallInv, WithCopy, WithBox,
         States
    <3>4. CallInv(c)'
      BY <1>1, <2>1, <3>2, <3>3 DEF CallInv, WithCopy, WithFile, WithBox, ClaimedSteps
    <3> QED
      BY <1>0, <1>1, <2>1, <3>2, <3>4, ClaimedStepKeeps DEF FilesOutliveContainers
  <2> QED
    BY <2>2, <2>3
<1>7. CASE UndoEnv(c)
  <2>1. /\ file' # NoFile /\ bak' = bak /\ NothingRunsEmpty'
        /\ UNCHANGED <<mixed, off, sweep>>
    BY <1>0, <1>1, <1>2, <1>7, BoxesAreTyped DEF UndoEnv, Release, At, CallInv, WithCopy, WithFile, WithBox,
       ComposeInv, NothingRunsEmpty, States, files, ghosts
  <2>2. CASE Leave(c)
    BY <1>0, <1>1, <1>2, <2>1, <2>2, LeaveIs, IdleReliesOnNothing, ClaimedStepKeeps
    DEF FilesOutliveContainers
  <2>3. CASE ~Leave(c)
    <3>1. PICK s \in {"undocreate"} : Goto(c, s)
      BY <1>7, <2>3 DEF UndoEnv, Release
    <3>2. call'[c].at = s /\ call'[c].op = call[c].op
      BY <1>0, <3>1, GotoIs DEF Steps, ClaimedSteps
    <3>3. holder' = holder /\ (s \in WithBox => box'.of # {}) /\ (s \in WithCopy => bak # NoFile)
      BY <1>0, <1>1, <1>2, <1>7, <2>3, <3>1, <3>2, BoxesAreTyped DEF UndoEnv, Release, At, CallInv, WithCopy, WithBox,
         States
    <3>4. CallInv(c)'
      BY <1>1, <2>1, <3>2, <3>3 DEF CallInv, WithCopy, WithFile, WithBox, ClaimedSteps
    <3> QED
      BY <1>0, <1>1, <2>1, <3>2, <3>4, ClaimedStepKeeps DEF FilesOutliveContainers
  <2> QED
    BY <2>2, <2>3
<1>8. CASE UndoCreate(c)
  <2>1. /\ file' # NoFile /\ bak' = bak /\ NothingRunsEmpty'
        /\ UNCHANGED <<mixed, off, sweep>>
    BY <1>0, <1>1, <1>2, <1>8, BoxesAreTyped DEF UndoCreate, Release, At, CallInv, WithCopy, WithFile, WithBox,
       ComposeInv, NothingRunsEmpty, States, files, ghosts
  <2>2. CASE Leave(c)
    BY <1>0, <1>1, <1>2, <2>1, <2>2, LeaveIs, IdleReliesOnNothing, ClaimedStepKeeps
    DEF FilesOutliveContainers
  <2>3. CASE ~Leave(c)
    <3>1. PICK s \in {"undostart"} : Goto(c, s)
      BY <1>8, <2>3 DEF UndoCreate, Release
    <3>2. call'[c].at = s /\ call'[c].op = call[c].op
      BY <1>0, <3>1, GotoIs DEF Steps, ClaimedSteps
    <3>3. holder' = holder /\ (s \in WithBox => box'.of # {}) /\ (s \in WithCopy => bak # NoFile)
      BY <1>0, <1>1, <1>2, <1>8, <2>3, <3>1, <3>2, BoxesAreTyped DEF UndoCreate, Release, At, CallInv, WithCopy, WithBox,
         States
    <3>4. CallInv(c)'
      BY <1>1, <2>1, <3>2, <3>3 DEF CallInv, WithCopy, WithFile, WithBox, ClaimedSteps
    <3> QED
      BY <1>0, <1>1, <2>1, <3>2, <3>4, ClaimedStepKeeps DEF FilesOutliveContainers
  <2> QED
    BY <2>2, <2>3
<1>9. CASE UndoStart(c)
  <2>1. /\ file' # NoFile /\ NothingRunsEmpty' /\ Leave(c)
        /\ UNCHANGED <<mixed, off, sweep>>
    BY <1>0, <1>1, <1>9, BoxesAreTyped DEF UndoStart, Release, At, CallInv, WithBox,
       NothingRunsEmpty, States, files, ghosts
  <2> QED
    BY <1>0, <1>1, <2>1, LeaveIs, IdleReliesOnNothing, ClaimedStepKeeps
    DEF FilesOutliveContainers
<1> QED
  BY <1>3, <1>4, <1>5, <1>6, <1>7, <1>8, <1>9

(* Install and uninstall: the folder goes after the containers.              *)
LEMMA FolderKeeps ==
  ASSUME ComposeInv, NEW c \in Calls,
         \/ InstallFiles(c) \/ InstallCreate(c) \/ InstallStart(c)
         \/ UninstallStop(c) \/ UninstallDown(c) \/ UninstallFolder(c)
  PROVE  ComposeInv'
<1>0. ComposeTypes /\ CallInv(c) /\ ComposeTypes' /\ Spared(c)
  BY OtherStepsAreTyped DEF ComposeInv
<1>1. /\ call[c].at \in ClaimedSteps /\ holder = c /\ call[c].op # "stop"
      /\ UNCHANGED <<mixed, off, sweep>>
  BY <1>0 DEF InstallFiles, InstallCreate, InstallStart, UninstallStop, UninstallDown,
     UninstallFolder, At, ClaimedSteps, CallInv, ghosts
<1>2. FilesOutliveContainers /\ NothingRunsEmpty
  BY DEF ComposeInv
<1>3. ASSUME Leave(c), FilesOutliveContainers', NothingRunsEmpty' PROVE ComposeInv'
  BY <1>0, <1>1, <1>3, LeaveIs, IdleReliesOnNothing, ClaimedStepKeeps
<1>4. CASE InstallFiles(c)
  <2>1. NothingRunsEmpty' /\ call[c].news.edit > 0
    BY <1>0, <1>2, <1>4 DEF InstallFiles, NothingRunsEmpty, At, CallInv
  <2>2. CASE Leave(c) /\ FolderGone /\ odd' = ContainersStay
    <3>1. FilesOutliveContainers'
      BY <1>4, <2>2 DEF InstallFiles, ContainersStay, FilesOutliveContainers
    <3> QED
      BY <1>3, <2>1, <2>2, <3>1
  <2>3. CASE ~(Leave(c) /\ FolderGone /\ odd' = ContainersStay)
    <3>1. /\ file' = [edit |-> call[c].news.edit, image |-> call[c].news.image]
          /\ Goto(c, "icreate") /\ holder' = holder
      BY <1>4, <2>3 DEF InstallFiles, Release
    <3>2. file' # NoFile
      BY <1>0, <2>1, <3>1, RequestIs, DefsAreTyped
    <3>3. call'[c].at = "icreate" /\ call'[c].op = call[c].op
      BY <1>0, <3>1, GotoIs DEF Steps, ClaimedSteps
    <3>4. CallInv(c)'
      BY <1>1, <3>1, <3>2, <3>3 DEF CallInv, WithCopy, WithFile, WithBox
    <3> QED
      BY <1>0, <1>1, <2>1, <3>2, <3>3, <3>4, ClaimedStepKeeps DEF FilesOutliveContainers
  <2> QED
    BY <2>2, <2>3
<1>5. CASE InstallCreate(c)
  <2>1. file # NoFile /\ file' = file
    BY <1>0, <1>5 DEF InstallCreate, At, CallInv, WithFile, files
  <2>2. NothingRunsEmpty'
    BY <1>0, <1>2, <1>5, BoxesAreTyped DEF InstallCreate, NothingRunsEmpty
  <2>3. CASE Leave(c)
    BY <1>3, <2>1, <2>2, <2>3 DEF FilesOutliveContainers
  <2>4. CASE ~Leave(c)
    <3>1. box' = Created(OnDisk) /\ Goto(c, "istart") /\ holder' = holder
      BY <1>5, <2>4 DEF InstallCreate, Release
    <3>2. box'.of # {}
      BY <1>0, <3>1, BoxesAreTyped
    <3>3. call'[c].at = "istart" /\ call'[c].op = call[c].op
      BY <1>0, <3>1, GotoIs DEF Steps, ClaimedSteps
    <3>4. CallInv(c)'
      BY <1>1, <2>1, <3>1, <3>2, <3>3 DEF CallInv, WithCopy, WithFile, WithBox
    <3> QED
      BY <1>0, <1>1, <2>1, <2>2, <3>3, <3>4, ClaimedStepKeeps DEF FilesOutliveContainers
  <2> QED
    BY <2>3, <2>4
<1>6. CASE InstallStart(c)
  <2>1. file # NoFile /\ file' = file /\ box.of # {} /\ Leave(c)
    BY <1>0, <1>6 DEF InstallStart, Release, At, CallInv, WithFile, WithBox, files
  <2>2. NothingRunsEmpty'
    BY <1>0, <1>6, <2>1, BoxesAreTyped DEF InstallStart, NothingRunsEmpty, States
  <2> QED
    BY <1>3, <2>1, <2>2 DEF FilesOutliveContainers
<1>7. CASE UninstallStop(c)
  <2>1. /\ box'.of = box.of /\ (box' = box \/ box'.state = "exited")
        /\ UNCHANGED <<file, odd>>
    BY <1>0, <1>7, BoxesAreTyped DEF UninstallStop, States, files, ghosts
  <2>2. FilesOutliveContainers' /\ NothingRunsEmpty'
    BY <1>2, <2>1 DEF FilesOutliveContainers, NothingRunsEmpty
  <2>3. CASE Leave(c)
    BY <1>3, <2>2, <2>3
  <2>4. CASE ~Leave(c)
    <3>1. Goto(c, "udown") /\ holder' = holder
      BY <1>7, <2>4 DEF UninstallStop, Release
    <3>2. call'[c].at = "udown" /\ call'[c].op = call[c].op
      BY <1>0, <3>1, GotoIs DEF Steps, ClaimedSteps
    <3>3. CallInv(c)'
      BY <1>1, <3>1, <3>2 DEF CallInv, WithCopy, WithFile, WithBox
    <3> QED
      BY <1>0, <1>1, <2>2, <3>2, <3>3, ClaimedStepKeeps
  <2> QED
    BY <2>3, <2>4
<1>8. CASE UninstallDown(c)
  <2>1. /\ box' \in {box, Gone} /\ UNCHANGED <<file, odd>> /\ Gone.of = {} /\ Gone.state = "none"
    BY <1>0, <1>8, BoxesAreTyped DEF UninstallDown, files, ghosts
  <2>2. FilesOutliveContainers' /\ NothingRunsEmpty'
    BY <1>2, <2>1 DEF FilesOutliveContainers, NothingRunsEmpty
  <2>3. CASE Leave(c)
    BY <1>3, <2>2, <2>3
  <2>4. CASE ~Leave(c)
    <3>1. box' = Gone /\ Goto(c, "ufolder") /\ holder' = holder
      BY <1>8, <2>4 DEF UninstallDown, Release
    <3>2. call'[c].at = "ufolder" /\ call'[c].op = call[c].op
      BY <1>0, <3>1, GotoIs DEF Steps, ClaimedSteps
    <3>3. CallInv(c)'
      BY <1>1, <2>1, <3>1, <3>2 DEF CallInv, WithCopy, WithFile, WithBox
    <3> QED
      BY <1>0, <1>1, <2>2, <3>2, <3>3, ClaimedStepKeeps
  <2> QED
    BY <2>3, <2>4
<1>9. CASE UninstallFolder(c)
  <2>1. box' = box /\ box.of = {} /\ Leave(c)
    BY <1>0, <1>9 DEF UninstallFolder, Release, At, CallInv
  <2> QED
    BY <1>2, <1>3, <2>1 DEF FilesOutliveContainers, NothingRunsEmpty
<1> QED
  BY <1>4, <1>5, <1>6, <1>7, <1>8, <1>9

(* A step outside the claim leaves the files and what the containers are of. *)
LEMMA UnclaimedStepKeeps ==
  ASSUME ComposeInv, NEW c \in Calls, ComposeTypes', Spared(c), CallInv(c)',
         UNCHANGED <<file, bak, odd>>, box'.of = box.of,
         holder' = holder \/ holder = Nobody,
         NothingRunsEmpty', StopIsAlone', OffIsQuiet'
  PROVE  ComposeInv'
<1>1. ASSUME NEW d \in Calls, d # c PROVE CallInv(d)'
  <2>1. call'[d] = call[d] /\ CallInv(d) /\ d # Nobody
    BY <1>1 DEF ComposeInv, Spared, Calls, Nobody
  <2>2. call[d].at \in ClaimedSteps => holder' = d
    BY <2>1 DEF CallInv
  <2> QED
    BY <2>1, <2>2 DEF CallInv
<1>2. FilesOutliveContainers'
  BY DEF ComposeInv, FilesOutliveContainers
<1> QED
  BY <1>1, <1>2 DEF ComposeInv

(* A request that is no stop crosses every stop, and the owner's last word   *)
(* was no stop since it was asked.                                           *)
LEMMA StopsAreCrossed ==
  ASSUME ComposeInv, NEW c \in Calls, CallInv(c), Spared(c), call[c].at # "idle",
         call[c].op # "stop", call'[c].op # "stop", UNCHANGED <<mixed, off, sweep>>
  PROVE  StopIsAlone' /\ OffIsQuiet'
<1>1. \A d \in Calls : call'[d].op = "stop" => mixed
  BY DEF ComposeInv, StopIsAlone, Spared
<1>2. off # "yes"
  BY DEF ComposeInv, OffIsQuiet, CallInv
<1> QED
  BY <1>1, <1>2 DEF StopIsAlone, OffIsQuiet

LEMMA ClaimKeeps ==
  ASSUME ComposeInv, NEW c \in Calls, ReadCurrent(c) \/ Claim(c)
  PROVE  ComposeInv'
<1>0. ComposeTypes /\ CallInv(c) /\ ComposeTypes' /\ Spared(c)
  BY WriteStepsAreTyped DEF ComposeInv
<1>1. /\ UNCHANGED <<file, bak, odd, box, mixed, off, sweep>>
      /\ NothingRunsEmpty' /\ (holder' = holder \/ holder = Nobody)
  BY DEF ReadCurrent, Claim, files, ghosts, ComposeInv, NothingRunsEmpty
<1>2. call[c].at \in {"read", "claim"} /\ call[c].op # "stop"
  BY <1>0 DEF ReadCurrent, Claim, At, CallInv
<1>3. ASSUME CallInv(c)', call'[c].op # "stop" PROVE ComposeInv'
  BY <1>0, <1>1, <1>2, <1>3, UnclaimedStepKeeps, StopsAreCrossed
<1>4. CASE Leave(c)
  BY <1>0, <1>3, <1>4, LeaveIs, IdleReliesOnNothing
<1>5. CASE ReadCurrent(c) /\ ~Leave(c)
  <2> DEFINE d == Def(file, call[c].news.env)
  <2>1. GotoWith(c, "claim", d) /\ file # NoFile /\ call[c].op = "env"
    BY <1>0, <1>5 DEF ReadCurrent, At, CallInv
  <2>2. d \in Defs /\ d.edit > 0
    BY <1>0, <2>1, RequestIs, DefsAreTyped DEF ComposeTypes, Def
  <2> HIDE DEF d
  <2>3. call'[c].at = "claim" /\ call'[c].op = "env" /\ call'[c].news = d
    BY <1>0, <2>1, <2>2, GotoWithIs DEF Steps
  <2>4. CallInv(c)'
    BY <2>2, <2>3 DEF CallInv, ClaimedSteps, WithCopy, WithFile, WithBox
  <2> QED
    BY <1>3, <2>3, <2>4
<1>6. CASE Claim(c) /\ ~Leave(c)
  <2>1. PICK s \in {"iwrite", "ustop", "prepare", "backup"} :
          /\ Goto(c, s) /\ holder' = c
          /\ s \in {"iwrite", "backup"} => Writes(call[c].op)
    BY <1>0, <1>6 DEF Claim, At, CallInv, Writes
  <2>2. call'[c].at = s /\ call'[c].op = call[c].op /\ call'[c].news = call[c].news
    BY <1>0, <2>1, GotoIs DEF Steps, ClaimedSteps
  <2>3. s \in {"iwrite", "backup"} => call[c].news.edit > 0
    BY <1>0, <1>6, <2>1 DEF Claim, At, CallInv
  <2>4. CallInv(c)'
    BY <1>2, <2>1, <2>2, <2>3 DEF CallInv, ClaimedSteps, WithCopy, WithFile, WithBox
  <2> QED
    BY <1>2, <1>3, <2>2, <2>4
<1> QED
  BY <1>4, <1>5, <1>6

(* The power of an app: a stop that was alone leaves the app off.            *)
LEMMA PowerKeeps ==
  ASSUME ComposeInv, NEW c \in Calls, Clear(c) \/ Up(c) \/ Stop(c) \/ Mark(c)
  PROVE  ComposeInv'
<1>0. ComposeTypes /\ CallInv(c) /\ ComposeTypes' /\ Spared(c)
  BY OtherStepsAreTyped DEF ComposeInv
<1>1. UNCHANGED <<file, bak, odd, holder, sweep>> /\ box'.of = box.of
  BY <1>0, BoxesAreTyped DEF Clear, Up, Stop, Mark, PowerFrame, files, States
<1>2. NothingRunsEmpty'
  BY <1>0, BoxesAreTyped DEF Clear, Up, Stop, Mark, ComposeInv, NothingRunsEmpty, States
<1>3. call[c].at # "idle" /\ (off = "yes" => call[c].at = "mark")
  <2>1. call[c].at # "idle"
    BY DEF Clear, Up, Stop, Mark, At
  <2> QED
    BY <2>1 DEF ComposeInv, OffIsQuiet
<1>4. ASSUME CallInv(c)', StopIsAlone', OffIsQuiet' PROVE ComposeInv'
  BY <1>0, <1>1, <1>2, <1>4, UnclaimedStepKeeps
<1>5. CASE Clear(c)
  <2>1. call'[c].at = "up" /\ call'[c].op = call[c].op /\ call[c].op # "stop"
    BY <1>0, <1>5, GotoIs DEF Clear, At, CallInv, Steps
  <2>2. CallInv(c)'
    BY <2>1 DEF CallInv, ClaimedSteps, WithCopy, WithFile, WithBox
  <2>3. UNCHANGED <<mixed, off>>
    BY <1>5 DEF Clear
  <2> QED
    BY <1>0, <1>1, <1>3, <1>4, <2>1, <2>2, <2>3, StopsAreCrossed
<1>6. CASE Up(c)
  <2>1. call'[c].op = "none" /\ CallInv(c)' /\ call[c].op # "stop"
    BY <1>0, <1>6, LeaveIs, IdleReliesOnNothing DEF Up, At, CallInv
  <2>2. UNCHANGED <<mixed, off>>
    BY <1>6 DEF Up
  <2> QED
    BY <1>0, <1>1, <1>3, <1>4, <2>1, <2>2, StopsAreCrossed
<1>7. CASE Stop(c) \/ Mark(c)
  <2>1. call[c].op = "stop"
    BY <1>0, <1>7 DEF Stop, Mark, At, CallInv
  <2>2. ~mixed => (\A d \in Calls \ {c} : call[d].at = "idle") /\ ~SweepHasAsked
    BY <2>1 DEF ComposeInv, StopIsAlone
  <2>3. CASE Leave(c)
    <3>1. call'[c] = Idle /\ call'[c].op = "none" /\ call'[c].at = "idle" /\ CallInv(c)'
      BY <1>0, <2>3, LeaveIs, IdleReliesOnNothing
    <3>2. ~Goto(c, "mark")
      BY <1>0, <3>1, GotoIs DEF Steps
    <3>3. mixed' = OtherStop(c)
      BY <1>7, <3>2 DEF Stop, Mark
    <3>4. StopIsAlone'
      BY <3>1, <3>3, <1>0 DEF StopIsAlone, OtherStop, Spared
    <3>5. ASSUME off' = "yes" PROVE OffIsQuiet'
      <4>1. CASE Mark(c)
        <5>1. call[c].at = "mark" /\ box' = box /\ ~mixed /\ off = "yes" /\ marker'
          BY <3>5, <2>1, <4>1 DEF Mark, At, ComposeInv, StopIsAlone
        <5>2. box.state # "running"
          BY <5>1 DEF ComposeInv, OffIsQuiet
        <5>3. \A d \in Calls : call'[d].at = "idle"
          BY <1>0, <2>2, <3>1, <5>1 DEF Spared
        <5>4. ~mixed'
          <6>1. \A d \in Calls \ {c} : call[d].op # "stop"
            BY <2>2, <5>1 DEF ComposeInv, CallInv
          <6> QED
            BY <3>3, <6>1 DEF OtherStop
        <5> QED
          BY <1>1, <2>2, <5>1, <5>2, <5>3, <5>4 DEF OffIsQuiet, SweepHasAsked
      <4>2. CASE Stop(c)
        <5>1. call[c].at = "stop" /\ off' = off
          BY <3>2, <4>2 DEF Stop, At
        <5> QED
          BY <1>3, <3>5, <5>1
      <4> QED
        BY <1>7, <4>1, <4>2
    <3>6. OffIsQuiet'
      BY <3>5 DEF OffIsQuiet
    <3> QED
      BY <1>4, <3>1, <3>4, <3>6
  <2>4. CASE ~Leave(c)
    <3>1. /\ Goto(c, "mark") /\ mixed' = mixed /\ off' = (IF mixed THEN off ELSE "yes")
          /\ box' = (IF box.of = {} THEN box ELSE InState("exited")) /\ call[c].at = "stop"
      BY <1>7, <2>4 DEF Stop, Mark, At
    <3>2. call'[c].at = "mark" /\ call'[c].op = "stop"
      BY <1>0, <2>1, <3>1, GotoIs DEF Steps
    <3>3. CallInv(c)'
      BY <3>2 DEF CallInv, ClaimedSteps, WithCopy, WithFile, WithBox
    <3>4. box'.state # "running"
      BY <1>0, <3>1, BoxesAreTyped DEF ComposeInv, NothingRunsEmpty, States
    <3>5. ~SweepHasAsked' <=> ~SweepHasAsked
      BY <1>1 DEF SweepHasAsked
    <3>6. ASSUME NEW d \in Calls, call'[d].op = "stop", ~mixed
          PROVE  (\A e \in Calls \ {d} : call'[e].at = "idle") /\ ~SweepHasAsked'
      <4>1. d = c
        <5>1. ASSUME d # c PROVE FALSE
          <6>1. call[d].op = "stop" /\ call[d].at = "idle" /\ CallInv(d)
            BY <1>0, <2>2, <3>6, <5>1 DEF Spared, ComposeInv
          <6> QED
            BY <6>1 DEF CallInv
        <5> QED
          BY <5>1
      <4> QED
        BY <1>0, <2>2, <3>5, <3>6, <4>1 DEF Spared
    <3>7. StopIsAlone'
      BY <3>1, <3>6 DEF StopIsAlone
    <3>8. ASSUME off' = "yes" PROVE ~mixed
      BY <1>3, <3>1, <3>8
    <3>9. OffIsQuiet'
      BY <1>0, <2>2, <3>1, <3>2, <3>4, <3>5, <3>8 DEF OffIsQuiet, Spared
    <3> QED
      BY <1>4, <3>3, <3>7, <3>9
  <2> QED
    BY <2>3, <2>4
<1> QED
  BY <1>5, <1>6, <1>7

LEMMA AskKeeps ==
  ASSUME ComposeInv, NEW c \in Calls, NEW o \in Ops, Ask(c, o)
  PROVE  ComposeInv'
<1>0. /\ ComposeTypes /\ ComposeTypes' /\ Spared(c)
      /\ call'[c].at = FirstStep(o) /\ call'[c].op = o
      /\ Writes(o) => call'[c].news.edit > 0
  BY AskIsTyped DEF ComposeInv
<1>1. /\ UNCHANGED <<file, bak, odd, box, holder, sweep>> /\ off' = "no"
      /\ mixed' = (IF o = "stop" THEN Busy \/ SweepHasAsked ELSE Stopping)
  BY DEF Ask, files
<1>2. NothingRunsEmpty' /\ OffIsQuiet'
  BY <1>1 DEF ComposeInv, NothingRunsEmpty, OffIsQuiet
<1>3. CallInv(c)'
  <2>1. /\ FirstStep(o) \in {"read", "claim", "clear", "stop"}
        /\ FirstStep(o) = "read" => o = "env"
        /\ FirstStep(o) = "claim" => o \in {"save", "update", "install", "uninstall"}
        /\ FirstStep(o) = "stop" <=> o = "stop"
    BY DEF FirstStep, Ops, Applies
  <2> QED
    BY <1>0, <2>1 DEF CallInv, ClaimedSteps, WithCopy, WithFile, WithBox
<1>4. StopIsAlone'
  <2>1. CASE o = "stop"
    <3>1. ASSUME ~mixed' PROVE /\ \A d \in Calls : call[d].at = "idle"
                               /\ ~SweepHasAsked'
      BY <1>1, <2>1, <3>1 DEF Busy, At, SweepHasAsked
    <3>2. ASSUME NEW d \in Calls, call'[d].op = "stop", ~mixed' PROVE d = c
      <4>1. call[d].at = "idle" /\ CallInv(d)
        BY <3>1, <3>2 DEF ComposeInv
      <4>2. call[d].op # "stop"
        BY <4>1 DEF CallInv
      <4> QED
        BY <1>0, <3>2, <4>2 DEF Spared
    <3>3. call'[c].at = "stop"
      BY <1>0, <2>1 DEF FirstStep
    <3>4. ~mixed' => \A d \in Calls \ {c} : call'[d].at = "idle"
      BY <1>0, <3>1 DEF Spared
    <3> QED
      BY <3>1, <3>2, <3>3, <3>4 DEF StopIsAlone
  <2>2. CASE o # "stop"
    <3>1. \A d \in Calls : call'[d].op = "stop" => d # c /\ call[d].op = "stop"
      BY <1>0, <2>2 DEF Spared
    <3>2. \A d \in Calls : call'[d].op = "stop" => mixed'
      BY <1>1, <2>2, <3>1 DEF Stopping
    <3> QED
      BY <3>2 DEF StopIsAlone
  <2> QED
    BY <2>1, <2>2
<1> QED
  BY <1>0, <1>1, <1>2, <1>3, <1>4, UnclaimedStepKeeps

(* The sweep, storage that comes, kills and boots. A sweep that begins       *)
(* crosses the stops under way; what the owner stopped it passes by.         *)
LEMMA WorldKeeps ==
  ASSUME ComposeInv, Sweep \/ Mount \/ Crash \/ Reboot
  PROVE  ComposeInv'
<1>0. ComposeTypes /\ ComposeTypes'
  BY WorldIsTyped DEF ComposeInv
<1>1. UNCHANGED <<file, bak>> /\ odd \subseteq odd' /\ box'.of = box.of
  <2>1. CASE Sweep
    BY <1>0, <2>1, BoxesAreTyped DEF Sweep, SweepTick, SweepGivesUp, SweepMark, SweepLook,
       SweepClear, SweepStart, SweepFrame, files, States
  <2>2. CASE Mount
    BY <2>2 DEF Mount, files, ghosts
  <2>3. CASE Crash \/ Reboot
    BY <1>0, <2>3, BoxesAreTyped DEF Crash, Reboot, Killed, files, States
  <2> QED
    BY <2>1, <2>2, <2>3
<1>2. FilesOutliveContainers'
  BY <1>1 DEF ComposeInv, FilesOutliveContainers
<1>3. CASE Sweep
  <2>1. UNCHANGED <<call, holder, off>>
    BY <1>3 DEF Sweep, SweepTick, SweepGivesUp, SweepMark, SweepLook, SweepClear, SweepStart, SweepFrame
  <2>2. \A c \in Calls : CallInv(c)'
    BY <1>1, <2>1 DEF ComposeInv, CallInv
  <2>3. NothingRunsEmpty'
    BY <1>0, <1>3, BoxesAreTyped DEF Sweep, SweepTick, SweepGivesUp, SweepMark, SweepLook,
       SweepClear, SweepStart, ComposeInv, NothingRunsEmpty, States
  <2>4. StopIsAlone'
    <3>1. CASE SweepTick \/ SweepGivesUp
      BY <2>1, <3>1 DEF SweepTick, SweepGivesUp, SweepHasAsked, ComposeInv, StopIsAlone
    <3>2. CASE SweepMark
      BY <2>1, <3>2 DEF SweepMark, Stopping, SweepHasAsked, ComposeInv, StopIsAlone
    <3>3. CASE SweepLook \/ SweepClear \/ SweepStart
      <4>1. SweepHasAsked /\ mixed' = mixed
        BY <3>3 DEF SweepLook, SweepClear, SweepStart, SweepHasAsked
      <4> QED
        BY <2>1, <4>1 DEF ComposeInv, StopIsAlone
    <3> QED
      BY <1>3, <3>1, <3>2, <3>3 DEF Sweep
  <2>5. ASSUME off = "yes" PROVE OffIsQuiet'
    <3>1. \A c \in Calls : call[c].at \in {"idle", "mark"}
      BY <2>5 DEF ComposeInv, OffIsQuiet
    <3>0. mixed' => ~marker'
      <4>1. mixed => ~marker
        BY <2>5 DEF ComposeInv, OffIsQuiet
      <4>2. marker' => marker
        BY <1>3 DEF Sweep, SweepTick, SweepGivesUp, SweepMark, SweepLook, SweepClear, SweepStart, MarkCleared
      <4>3. mixed' => mixed \/ ~marker
        BY <1>3 DEF Sweep, SweepTick, SweepGivesUp, SweepMark, SweepLook, SweepClear, SweepStart
      <4> QED
        BY <4>1, <4>2, <4>3
    <3>2. ASSUME ~mixed' PROVE ~SweepHasAsked' /\ marker' = marker /\ box' = box /\ ~mixed
      <4>1. ~mixed
        BY <1>3, <3>2 DEF Sweep, SweepTick, SweepGivesUp, SweepMark, SweepLook, SweepClear, SweepStart
      <4>2. ~SweepHasAsked /\ (marker \/ Stopping)
        <5>1. ~SweepHasAsked /\ (marker \/ \E c \in Calls : call[c].at = "mark")
          BY <2>5, <4>1 DEF ComposeInv, OffIsQuiet
        <5>2. \A c \in Calls : call[c].at = "mark" => call[c].op = "stop"
          BY DEF ComposeInv, CallInv
        <5> QED
          BY <5>1, <5>2 DEF Stopping
      <4>3. CASE SweepTick \/ SweepGivesUp
        BY <4>1, <4>3 DEF SweepTick, SweepGivesUp, SweepHasAsked
      <4>4. CASE SweepMark
        BY <3>2, <4>1, <4>2, <4>4 DEF SweepMark, SweepHasAsked
      <4>5. ~(SweepLook \/ SweepClear \/ SweepStart)
        BY <4>2 DEF SweepLook, SweepClear, SweepStart, SweepHasAsked
      <4> QED
        BY <1>3, <4>3, <4>4, <4>5 DEF Sweep
    <3>3. ~mixed => box.state # "running" /\ (marker \/ \E c \in Calls : call[c].at = "mark")
      BY <2>5 DEF ComposeInv, OffIsQuiet
    <3> QED
      BY <2>1, <3>0, <3>1, <3>2, <3>3 DEF OffIsQuiet
  <2>6. OffIsQuiet'
    BY <2>1, <2>5 DEF OffIsQuiet
  <2> QED
    BY <1>0, <1>2, <2>2, <2>3, <2>4, <2>6 DEF ComposeInv
<1>4. CASE Mount
  BY <1>0, <1>2, <1>4 DEF Mount, files, ghosts, ComposeInv, CallInv, NothingRunsEmpty, StopIsAlone,
     SweepHasAsked, OffIsQuiet
<1>5. CASE Crash \/ Reboot
  <2>1. \A c \in Calls : call'[c] = Idle /\ call'[c].at = "idle" /\ call'[c].op = "none"
    BY <1>5 DEF Crash, Reboot, Killed, Idle
  <2>2. \A c \in Calls : CallInv(c)'
    BY <2>1, IdleReliesOnNothing
  <2>3. NothingRunsEmpty'
    BY <1>0, <1>5, BoxesAreTyped DEF Crash, Reboot, ComposeInv, NothingRunsEmpty, States
  <2>4. StopIsAlone'
    BY <2>1 DEF StopIsAlone
  <2>5. OffIsQuiet'
    <3>1. CASE Crash
      <4>1. ASSUME off' = "yes"
            PROVE  marker' /\ ~mixed' /\ box'.state # "running"
        <5>1. off = "yes" /\ marker /\ UNCHANGED <<marker, box>> /\ ~mixed'
          BY <1>0, <3>1, <4>1 DEF Crash, Killed, ComposeTypes
        <5> QED
          BY <5>1 DEF ComposeInv, OffIsQuiet
      <4>2. ~SweepHasAsked'
        BY <3>1 DEF Crash, Killed, SweepHasAsked
      <4> QED
        BY <2>1, <3>1, <4>1, <4>2 DEF OffIsQuiet
    <3>2. CASE Reboot
      BY <3>2 DEF Reboot, OffIsQuiet
    <3> QED
      BY <1>5, <3>1, <3>2
  <2> QED
    BY <1>0, <1>2, <2>2, <2>3, <2>4, <2>5 DEF ComposeInv
<1> QED
  BY <1>3, <1>4, <1>5

LEMMA ComposeKeeps == ComposeInv /\ [Next]_vars => ComposeInv'
<1> SUFFICES ASSUME ComposeInv, [Next]_vars PROVE ComposeInv'
  OBVIOUS
<1>1. ASSUME NEW c \in Calls, NEW o \in Ops, Ask(c, o) PROVE ComposeInv'
  BY <1>1, AskKeeps
<1>2. ASSUME NEW c \in Calls, Do(c) PROVE ComposeInv'
  BY <1>2, ClaimKeeps, WritesKeep, ApplyKeeps, FolderKeeps, PowerKeeps DEF Do
<1>3. CASE Sweep \/ Mount \/ Crash \/ Reboot
  BY <1>3, WorldKeeps
<1>4. CASE UNCHANGED vars
  BY <1>4 DEF vars, files, world, ghosts, ComposeInv, ComposeTypes, CallInv, FilesOutliveContainers,
     NothingRunsEmpty, StopIsAlone, SweepHasAsked, OffIsQuiet
<1> QED
  BY <1>1, <1>2, <1>3, <1>4 DEF Next

LEMMA ComposeSafe == Spec => []ComposeInv
  BY ComposeStarts, ComposeKeeps, PTL DEF Spec

(***************************************************************************)
(* Every variable of the app, its files, its requests and the sweep keeps  *)
(* its type, whatever the requests and the failures.                       *)
(***************************************************************************)
THEOREM ComposeTypeOK == Spec => []ComposeTypes
<1>1. ComposeInv => ComposeTypes
  BY DEF ComposeInv
<1> QED
  BY <1>1, ComposeSafe, PTL

(***************************************************************************)
(* Uninstall and install take an app's folder after its containers: while  *)
(* there are containers there is the file an owner finds them by, wherever *)
(* the service is killed, however many requests there are at a time.       *)
(***************************************************************************)
THEOREM FilesStay == Spec => []FilesOutliveContainers
<1>1. ComposeInv => FilesOutliveContainers
  BY DEF ComposeInv
<1> QED
  BY <1>1, ComposeSafe, PTL

(***************************************************************************)
(* From the moment an app is down because its owner stopped it, it is off, *)
(* and marked or about to be, until the owner asks for something else:     *)
(* neither the sweep nor a request that was under way starts it, whatever  *)
(* the order of their steps, unless the mark never came to be ("unmarked", *)
(* "rebooted") or a sweep had asked for it before it was there (`mixed`).  *)
(***************************************************************************)
THEOREM StoppedAppsStayOff == Spec => []StoppedStaysOff
<1>1. ComposeInv => StoppedStaysOff
  BY DEF ComposeInv, OffIsQuiet, StoppedStaysOff, At
<1> QED
  BY <1>1, ComposeSafe, PTL
-----------------------------------------------------------------------------
(* What disk, .env and containers are while a request works, for the two     *)
(* promises of pullAndApply. `odd` names what excuses each of them.          *)
EditSaved(f) == odd \cap {"crash", "undo", "lost"} = {} => f.edit = kept
EnvSaved(e) == odd \cap {"crash", "undo"} = {} => e = keptEnv
OldEnv(c) == IF call[c].op = "env" THEN call[c].oldEnv ELSE env
AsSaved == EditSaved(file) /\ EnvSaved(env)
AsRun == box.of # {} /\ odd \cap {"crash", "undo", "over", "stale"} = {} => box.of = {OnDisk}

Untouched == {"prepare", "backup", "write", "iwrite", "ustop", "udown"}
Written == {"write", "writeenv", "create", "start", "wait", "undo"}
PutBack == {"undocreate", "undostart", "icreate", "istart", "ufolder"}

(* From the copy on, it is the copy and the old .env that hold what was kept,*)
(* and an update carries the edit it found.                                  *)
SavedInv(c) ==
  /\ call[c].at = "prepare" => call[c].op = "update"
  /\ call[c].at \in WithCopy \cup {"backup"} => call[c].op \in Applies
  /\ call[c].at \in {"writeenv", "undoenv"} => call[c].op = "env"
  /\ call[c].at \in Untouched \cup PutBack => AsSaved
  /\ call[c].at \in {"backup", "write"} /\ call[c].op = "update" => call[c].news.edit = file.edit
  /\ call[c].at = "write" => bak = file
  /\ call[c].at \in Written =>
       EditSaved(bak) /\ EnvSaved(OldEnv(c))
  /\ call[c].at \in {"writeenv", "create", "start", "wait"} =>
       (call[c].op = "update" \/ (call[c].op = "env" /\ "lost" \notin odd) => file.edit = bak.edit)
  /\ call[c].at = "undoenv" => EditSaved(file) /\ EnvSaved(call[c].oldEnv)
  /\ call[c].at = "icreate" => file.edit = kept /\ env = keptEnv

RunInv(c) ==
  /\ call[c].at \in Untouched \cup {"undostart"} => AsRun
  /\ call[c].at \in {"start", "wait", "istart"} => box.of = {OnDisk}
  /\ call[c].at = "icreate" => box.of = {} \/ "over" \in odd

HolderInv ==
  /\ holder = Nobody => AsSaved /\ AsRun
  /\ \A c \in Calls : SavedInv(c) /\ RunInv(c)

LEMMA HolderStarts == Init => HolderInv
  BY DEF Init, HolderInv, SavedInv, RunInv, AsSaved, AsRun, EditSaved, EnvSaved, Idle, WithCopy,
     Untouched, Written, PutBack, OldEnv

LEMMA IdleKnowsNothing ==
  ASSUME NEW c \in Calls, call'[c].at \notin ClaimedSteps
  PROVE  SavedInv(c)' /\ RunInv(c)'
  BY DEF SavedInv, RunInv, ClaimedSteps, WithCopy, Untouched, Written, PutBack

(* A step of the holder concerns nobody else.                                *)
LEMMA HolderStepKeeps ==
  ASSUME ComposeInv, NEW c \in Calls, holder = c, Spared(c), SavedInv(c)', RunInv(c)',
         holder' = Nobody => AsSaved' /\ AsRun'
  PROVE  HolderInv'
<1>1. ASSUME NEW d \in Calls, d # c PROVE SavedInv(d)' /\ RunInv(d)'
  <2>1. call'[d] = call[d] /\ call[d].at \notin ClaimedSteps
    BY <1>1 DEF ComposeInv, CallInv, Spared
  <2> QED
    BY <2>1, IdleKnowsNothing
<1> QED
  BY <1>1 DEF HolderInv

(* A request that lets go leaves the files and the containers as it found    *)
(* them, or says why not.                                                    *)
LEMMA ReleaseKeeps ==
  ASSUME ComposeInv, NEW c \in Calls, holder = c, Spared(c), Leave(c), AsSaved', AsRun'
  PROVE  HolderInv'
<1>1. call'[c].at = "idle"
  BY LeaveIs DEF ComposeInv
<1>2. SavedInv(c)' /\ RunInv(c)'
  BY <1>1, IdleKnowsNothing DEF ClaimedSteps
<1> QED
  BY <1>2, HolderStepKeeps

LEMMA PrepareAndBackupKeepBoth ==
  ASSUME ComposeInv, HolderInv, NEW c \in Calls, Prepare(c) \/ Backup(c)
  PROVE  HolderInv'
<1>0. /\ ComposeTypes /\ CallInv(c) /\ Spared(c) /\ SavedInv(c) /\ RunInv(c)
  BY WriteStepsAreTyped DEF ComposeInv, HolderInv
<1>1. /\ call[c].at \in {"prepare", "backup"} /\ holder = c
      /\ UNCHANGED <<file, env, box, kept, keptEnv, odd>>
  BY <1>0 DEF Prepare, Backup, At, CallInv, ClaimedSteps, files, ghosts
<1>2. AsSaved /\ AsRun /\ AsSaved' /\ AsRun'
  BY <1>0, <1>1 DEF SavedInv, RunInv, Untouched, AsSaved, AsRun, EditSaved, EnvSaved, OnDisk
<1>3. CASE Leave(c)
  BY <1>0, <1>1, <1>2, <1>3, ReleaseKeeps
<1>4. CASE Prepare(c) /\ ~Leave(c)
  <2>1. PICK i \in Images : /\ GotoWith(c, "backup", Def([file EXCEPT !.image = i], env))
                            /\ file # NoFile /\ holder' = holder
    BY <1>4 DEF Prepare, Release
  <2> DEFINE d == Def([file EXCEPT !.image = i], env)
  <2>2. file \in Versions /\ call[c].op = "update"
    BY <1>0, <1>4, <2>1, DefsAreTyped DEF ComposeTypes, SavedInv, Prepare, At
  <2>3. [file EXCEPT !.image = i] \in Versions /\ d.edit = file.edit
    BY <2>2 DEF Versions, Def
  <2>4. d \in Defs
    BY <1>0, <2>3, RequestIs, DefsAreTyped
  <2> HIDE DEF d
  <2>5. call'[c].at = "backup" /\ call'[c].op = "update" /\ call'[c].news.edit = file.edit
    BY <1>0, <2>1, <2>2, <2>3, <2>4, GotoWithIs DEF d, Steps, ClaimedSteps
  <2>6. SavedInv(c)' /\ RunInv(c)'
    BY <1>1, <1>2, <2>5 DEF SavedInv, RunInv, WithCopy, Untouched, Written, PutBack, Applies
  <2> QED
    BY <1>0, <1>1, <1>2, <2>6, HolderStepKeeps
<1>5. CASE Backup(c) /\ ~Leave(c)
  <2>1. /\ bak' = file /\ holder' = holder
        /\ call' = [call EXCEPT ![c].at = "write", ![c].oldEnv = IF call[c].op = "env" THEN env ELSE 0]
    BY <1>5 DEF Backup, Release
  <2>2. /\ call'[c].at = "write" /\ call'[c].op = call[c].op /\ call'[c].news = call[c].news
        /\ call[c].op = "env" => call'[c].oldEnv = env
    BY <1>0, <2>1 DEF ComposeTypes, Requests
  <2>3. /\ call[c].op \in Applies
        /\ call[c].op = "update" => call[c].news.edit = file.edit
    BY <1>0, <1>5 DEF Backup, At, SavedInv
  <2>4. EditSaved(bak)'
    BY <1>1, <1>2, <2>1 DEF AsSaved, EditSaved
  <2>5. EnvSaved(OldEnv(c))'
    <3>1. OldEnv(c)' = env
      BY <1>1, <2>2 DEF OldEnv
    <3> QED
      BY <1>1, <1>2, <3>1 DEF AsSaved, EnvSaved
  <2>6. SavedInv(c)'
    BY <1>1, <1>2, <2>1, <2>2, <2>3, <2>4, <2>5 DEF SavedInv
  <2>7. RunInv(c)'
    BY <1>2, <2>2 DEF RunInv
  <2> QED
    BY <1>0, <1>1, <1>2, <2>6, <2>7, HolderStepKeeps
<1> QED
  BY <1>3, <1>4, <1>5

LEMMA WritesKeepBoth ==
  ASSUME ComposeInv, HolderInv, NEW c \in Calls, WriteCompose(c) \/ WriteEnv(c)
  PROVE  HolderInv'
<1>0. /\ ComposeTypes /\ CallInv(c) /\ Spared(c) /\ SavedInv(c) /\ RunInv(c)
  BY WriteStepsAreTyped DEF ComposeInv, HolderInv
<1>1. /\ call[c].at \in {"write", "writeenv"} /\ holder = c /\ holder' = c
      /\ UNCHANGED <<bak, kept, keptEnv>> /\ odd \subseteq odd' /\ odd' \subseteq odd \cup {"lost"}
  BY <1>0 DEF WriteCompose, WriteEnv, At, CallInv, ClaimedSteps, files, ghosts
<1>2. PICK s \in {"writeenv", "create", "undo"} :
        /\ Goto(c, s)
        /\ WriteCompose(c) => /\ s = "writeenv" => call[c].op = "env"
                              /\ s # "undo" => file' = [edit |-> call[c].news.edit, image |-> call[c].news.image]
                              /\ s # "undo" /\ call[c].op = "env" /\ "lost" \notin odd' => file' = file
                              /\ env' = env
        /\ WriteEnv(c) => s # "writeenv" /\ file' = file
  <2>1. CASE WriteCompose(c)
    <3> DEFINE new == [edit |-> call[c].news.edit, image |-> call[c].news.image]
    <3>1. env' = env /\ ~WriteEnv(c)
      BY <2>1 DEF WriteCompose, WriteEnv, At
    <3>2. CASE /\ file' = new /\ Goto(c, IF call[c].op = "env" THEN "writeenv" ELSE "create")
               /\ odd' = IF call[c].op = "env" /\ new # file THEN odd \cup {"lost"} ELSE odd
      BY <3>1, <3>2
    <3>3. CASE Goto(c, "undo")
      BY <3>1, <3>3
    <3> QED
      BY <2>1, <3>2, <3>3 DEF WriteCompose
  <2>2. CASE WriteEnv(c)
    BY <2>2 DEF WriteCompose, WriteEnv, At
  <2> QED
    BY <2>1, <2>2
<1>3. /\ call'[c].at = s /\ call'[c].op = call[c].op /\ call'[c].oldEnv = call[c].oldEnv
  BY <1>0, <1>2, GotoIs DEF Steps, ClaimedSteps
<1>4. /\ call[c].op \in Applies /\ (s = "writeenv" => call[c].op = "env")
      /\ WriteEnv(c) => call[c].op = "env"
  BY <1>0, <1>1, <1>2 DEF SavedInv, WithCopy, WriteEnv, At
<1>5. EditSaved(bak) /\ EnvSaved(OldEnv(c))
  BY <1>0, <1>1 DEF SavedInv, Written
<1>6. EditSaved(bak)' /\ EnvSaved(OldEnv(c))'
  <2>1. OldEnv(c)' = OldEnv(c)
    BY <1>2, <1>3, <1>4 DEF OldEnv
  <2> QED
    BY <1>1, <1>5, <2>1 DEF EditSaved, EnvSaved
<1>7. s # "undo" /\ (call[c].op = "update" \/ (call[c].op = "env" /\ "lost" \notin odd')) => file'.edit = bak'.edit
  <2>1. CASE WriteCompose(c)
    <3>1. bak = file /\ (call[c].op = "update" => call[c].news.edit = file.edit)
      BY <1>0, <2>1 DEF WriteCompose, At, SavedInv
    <3> QED
      BY <1>1, <1>2, <2>1, <3>1
  <2>2. CASE WriteEnv(c)
    <3>1. "lost" \notin odd => file.edit = bak.edit
      BY <1>0, <1>4, <2>2 DEF WriteEnv, At, SavedInv
    <3>2. call[c].op = "env" /\ odd' = odd
      BY <1>4, <2>2 DEF WriteEnv, ghosts
    <3> QED
      BY <1>1, <1>2, <2>2, <3>1, <3>2
  <2> QED
    BY <2>1, <2>2
<1>8. SavedInv(c)'
  BY <1>3, <1>4, <1>6, <1>7 DEF SavedInv, Untouched, PutBack
<1>9. RunInv(c)'
  BY <1>3 DEF RunInv, Untouched
<1> QED
  BY <1>0, <1>1, <1>8, <1>9, HolderStepKeeps DEF Calls, Nobody

(* Containers created from a definition are of that one; a creation that     *)
(* stops midway leaves some of it and some of what was there.                *)
LEMMA CreationsAreOf ==
  ASSUME ComposeTypes, NEW d \in Defs
  PROVE  /\ Created(d).of = {d}
         /\ \A b \in HalfCreated(d) : b.of = box.of \/ b.of = box.of \cup {d}
  BY DEF Created, HalfCreated

LEMMA AppliesKeepBoth ==
  ASSUME ComposeInv, HolderInv, NEW c \in Calls, CreateNew(c) \/ StartNew(c) \/ WaitNew(c)
  PROVE  HolderInv'
<1>0. /\ ComposeTypes /\ CallInv(c) /\ Spared(c) /\ SavedInv(c) /\ RunInv(c)
  BY ApplyStepsAreTyped DEF ComposeInv, HolderInv
<1>1. /\ call[c].at \in {"create", "start", "wait"} /\ holder = c /\ UNCHANGED <<file, env, bak>>
      /\ call[c].op \in Applies /\ OnDisk' = OnDisk
      /\ EditSaved(bak) /\ EnvSaved(OldEnv(c))
      /\ call[c].op = "update" \/ (call[c].op = "env" /\ "lost" \notin odd) => file.edit = bak.edit
  BY <1>0 DEF CreateNew, StartNew, WaitNew, At, CallInv, SavedInv, ClaimedSteps, WithCopy, Written, files,
     OnDisk
<1>2. ASSUME NEW s \in {"start", "wait", "undo"}, Goto(c, s), UNCHANGED <<holder, kept, keptEnv, odd>>,
             s # "undo" => box'.of = {OnDisk}
      PROVE  HolderInv'
  <2>1. /\ call'[c].at = s /\ call'[c].op = call[c].op /\ call'[c].oldEnv = call[c].oldEnv
    BY <1>0, <1>2, GotoIs DEF Steps, ClaimedSteps
  <2>2. OldEnv(c)' = OldEnv(c)
    BY <1>1, <2>1 DEF OldEnv
  <2>3. EditSaved(bak)' /\ EnvSaved(OldEnv(c))'
    BY <1>1, <1>2, <2>2 DEF EditSaved, EnvSaved
  <2>4. SavedInv(c)'
    BY <1>1, <1>2, <2>1, <2>3 DEF SavedInv, Untouched, PutBack
  <2>5. RunInv(c)'
    BY <1>1, <1>2, <2>1 DEF RunInv, Untouched
  <2> QED
    BY <1>0, <1>1, <1>2, <2>4, <2>5, HolderStepKeeps DEF Calls, Nobody
<1>3. CASE CreateNew(c)
  <2>1. CASE box' = Created(OnDisk) /\ Goto(c, "start")
    BY <1>0, <1>2, <1>3, <2>1, BoxesAreTyped, CreationsAreOf DEF CreateNew, ghosts
  <2>2. CASE Goto(c, "undo")
    BY <1>2, <1>3, <2>2 DEF CreateNew, ghosts
  <2> QED
    BY <1>3, <2>1, <2>2 DEF CreateNew
<1>4. CASE StartNew(c)
  <2>1. box'.of = box.of /\ box.of = {OnDisk}
    BY <1>0, <1>4, BoxesAreTyped DEF StartNew, At, RunInv, States
  <2> QED
    BY <1>2, <1>4, <2>1 DEF StartNew, ghosts
<1>5. CASE WaitNew(c)
  <2>1. CASE Goto(c, "undo") /\ UNCHANGED <<holder, kept, keptEnv, odd>>
    BY <1>2, <2>1
  <2>2. CASE Release(c) /\ Keep(c) /\ UNCHANGED box
    <3>1. box.of = {OnDisk}
      BY <1>0, <1>5 DEF WaitNew, At, RunInv
    <3>2. AsRun'
      BY <1>1, <2>2, <3>1 DEF AsRun
    <3>3. EditSaved(file)'
      <4>1. CASE call[c].op = "save"
        BY <1>1, <2>2, <4>1 DEF Keep, EditSaved
      <4>2. CASE call[c].op # "save" /\ "lost" \notin odd
        BY <1>1, <2>2, <4>2 DEF Keep, EditSaved, Applies
      <4>3. CASE call[c].op # "save" /\ "lost" \in odd
        BY <2>2, <4>3 DEF Keep, EditSaved
      <4> QED
        BY <4>1, <4>2, <4>3
    <3>4. EnvSaved(env)'
      BY <1>1, <2>2 DEF Keep, EnvSaved, OldEnv
    <3> QED
      BY <1>0, <1>1, <2>2, <3>2, <3>3, <3>4, ReleaseKeeps DEF AsSaved, Release
  <2> QED
    BY <1>5, <2>1, <2>2 DEF WaitNew
<1> QED
  BY <1>3, <1>4, <1>5

(* An undo puts back the files that were kept, one after the other; what it  *)
(* creates is what runs, or it says that its definition had grown old.       *)
LEMMA UndoesKeepBoth ==
  ASSUME ComposeInv, HolderInv, NEW c \in Calls,
         UndoCompose(c) \/ UndoEnv(c) \/ UndoCreate(c) \/ UndoStart(c)
  PROVE  HolderInv'
<1>0. /\ ComposeTypes /\ CallInv(c) /\ Spared(c) /\ SavedInv(c) /\ RunInv(c)
  BY ApplyStepsAreTyped DEF ComposeInv, HolderInv
<1>1. /\ call[c].at \in {"undo", "undoenv", "undocreate", "undostart"} /\ holder = c
      /\ call[c].op \in Applies /\ UNCHANGED <<kept, keptEnv>> /\ odd \subseteq odd'
  BY <1>0 DEF UndoCompose, UndoEnv, UndoCreate, UndoStart, At, CallInv, SavedInv, ClaimedSteps, WithCopy,
     ghosts
<1>2. CASE Release(c) /\ odd' = odd \cup {"undo"}
  <2>1. AsSaved' /\ AsRun'
    BY <1>2 DEF AsSaved, AsRun, EditSaved, EnvSaved
  <2> QED
    BY <1>0, <1>1, <1>2, <2>1, ReleaseKeeps DEF Release
<1>3. CASE UndoCompose(c) /\ ~(Release(c) /\ odd' = odd \cup {"undo"})
  <2> DEFINE s == IF call[c].op = "env" THEN "undoenv" ELSE "undocreate"
  <2>1. /\ file' = bak /\ Goto(c, s) /\ UNCHANGED <<holder, odd, env>>
    BY <1>3 DEF UndoCompose
  <2>2. s \in Steps
    BY DEF Steps, ClaimedSteps
  <2>3. /\ call'[c].at = s /\ call'[c].op = call[c].op /\ call'[c].oldEnv = call[c].oldEnv
    BY <1>0, <2>1, <2>2, GotoIs
  <2>4. EditSaved(bak) /\ EnvSaved(OldEnv(c))
    BY <1>0, <1>3 DEF UndoCompose, At, SavedInv, Written
  <2>5. EditSaved(file)'
    BY <1>1, <2>1, <2>4 DEF EditSaved
  <2>6. CASE call[c].op = "env"
    <3>1. EnvSaved(call[c].oldEnv)'
      BY <1>1, <2>1, <2>3, <2>4, <2>6 DEF EnvSaved, OldEnv
    <3>2. SavedInv(c)'
      BY <1>1, <2>3, <2>5, <2>6, <3>1 DEF SavedInv, Untouched, Written, PutBack
    <3>3. RunInv(c)'
      BY <2>3, <2>6 DEF RunInv, Untouched
    <3> QED
      BY <1>0, <1>1, <2>1, <3>2, <3>3, HolderStepKeeps DEF Calls, Nobody
  <2>7. CASE call[c].op # "env"
    <3>1. EnvSaved(env)'
      BY <1>1, <2>1, <2>4, <2>7 DEF EnvSaved, OldEnv
    <3>2. SavedInv(c)'
      BY <1>1, <2>3, <2>5, <2>7, <3>1 DEF SavedInv, AsSaved, Untouched, Written
    <3>3. RunInv(c)'
      BY <2>3, <2>7 DEF RunInv, Untouched
    <3> QED
      BY <1>0, <1>1, <2>1, <3>2, <3>3, HolderStepKeeps DEF Calls, Nobody
  <2> QED
    BY <2>6, <2>7
<1>4. CASE UndoEnv(c) /\ ~(Release(c) /\ odd' = odd \cup {"undo"})
  <2>1. env' = call[c].oldEnv /\ Goto(c, "undocreate") /\ UNCHANGED <<file, holder, odd>>
    BY <1>4 DEF UndoEnv
  <2>2. call'[c].at = "undocreate" /\ call'[c].op = call[c].op
    BY <1>0, <2>1, GotoIs DEF Steps, ClaimedSteps
  <2>3. AsSaved'
    BY <1>0, <1>1, <1>4, <2>1 DEF UndoEnv, At, SavedInv, AsSaved, EditSaved, EnvSaved
  <2>4. SavedInv(c)' /\ RunInv(c)'
    BY <1>1, <2>2, <2>3 DEF SavedInv, RunInv, Untouched, Written
  <2> QED
    BY <1>0, <1>1, <2>1, <2>4, HolderStepKeeps DEF Calls, Nobody
<1>5. CASE UndoCreate(c) /\ ~(Release(c) /\ odd' = odd \cup {"undo"})
  <2>1. /\ box' = Created(call[c].loaded) /\ Goto(c, "undostart") /\ UNCHANGED <<file, env, holder>>
        /\ odd' = IF call[c].loaded # OnDisk THEN odd \cup {"stale"} ELSE odd
    BY <1>5 DEF UndoCreate, files
  <2>2. call'[c].at = "undostart" /\ call'[c].op = call[c].op
    BY <1>0, <2>1, GotoIs DEF Steps, ClaimedSteps
  <2>3. AsSaved'
    BY <1>0, <1>1, <1>5, <2>1 DEF UndoCreate, At, SavedInv, PutBack, AsSaved, EditSaved, EnvSaved
  <2>4. box'.of = {call[c].loaded} /\ OnDisk' = OnDisk
    BY <1>0, <2>1, RequestIs, CreationsAreOf DEF OnDisk
  <2>5. AsRun'
    BY <2>1, <2>4 DEF AsRun
  <2>6. SavedInv(c)' /\ RunInv(c)'
    BY <1>1, <2>2, <2>3, <2>5 DEF SavedInv, RunInv, Written
  <2> QED
    BY <1>0, <1>1, <2>1, <2>6, HolderStepKeeps DEF Calls, Nobody
<1>6. CASE UndoStart(c)
  <2>1. /\ AsSaved /\ AsRun /\ UNCHANGED <<file, env, odd>> /\ Release(c) /\ box'.of = box.of
    BY <1>0, <1>6, BoxesAreTyped DEF UndoStart, At, SavedInv, RunInv, PutBack, States, files, ghosts
  <2>2. AsSaved' /\ AsRun'
    BY <1>1, <2>1 DEF AsSaved, AsRun, EditSaved, EnvSaved, OnDisk
  <2> QED
    BY <1>0, <1>1, <2>1, <2>2, ReleaseKeeps DEF Release
<1> QED
  BY <1>2, <1>3, <1>4, <1>5, <1>6

(* Install and uninstall. What is installed is what counts from then on.     *)
LEMMA InstallsKeepBoth ==
  ASSUME ComposeInv, HolderInv, NEW c \in Calls, InstallFiles(c) \/ InstallCreate(c) \/ InstallStart(c)
  PROVE  HolderInv'
<1>0. /\ ComposeTypes /\ CallInv(c) /\ Spared(c) /\ SavedInv(c) /\ RunInv(c)
  BY OtherStepsAreTyped DEF ComposeInv, HolderInv
<1>1. call[c].at \in {"iwrite", "icreate", "istart"} /\ holder = c
  BY <1>0 DEF InstallFiles, InstallCreate, InstallStart, At, CallInv, ClaimedSteps
<1>2. CASE InstallFiles(c)
  <2>1. /\ box' = box /\ odd' = ContainersStay /\ file'.edit = kept' /\ env' = keptEnv'
    BY <1>2 DEF InstallFiles, FolderGone, NoFile
  <2>2. AsSaved' /\ (box.of = {} \/ "over" \in odd')
    BY <2>1 DEF AsSaved, EditSaved, EnvSaved, ContainersStay
  <2>3. AsRun'
    BY <2>1, <2>2 DEF AsRun
  <2>4. CASE Leave(c)
    BY <1>0, <1>1, <2>2, <2>3, <2>4, ReleaseKeeps
  <2>5. CASE ~Leave(c)
    <3>1. Goto(c, "icreate") /\ holder' = holder
      BY <1>2, <2>5 DEF InstallFiles, Release
    <3>2. call'[c].at = "icreate"
      BY <1>0, <3>1, GotoIs DEF Steps, ClaimedSteps
    <3>3. SavedInv(c)' /\ RunInv(c)'
      BY <2>1, <2>2, <3>2 DEF SavedInv, RunInv, WithCopy, Untouched, Written
    <3> QED
      BY <1>0, <1>1, <3>1, <3>3, HolderStepKeeps DEF Calls, Nobody
  <2> QED
    BY <2>4, <2>5
<1>3. CASE InstallCreate(c)
  <2>1. /\ UNCHANGED <<file, env, kept, keptEnv>> /\ file.edit = kept /\ env = keptEnv
        /\ OnDisk' = OnDisk /\ (box.of = {} \/ "over" \in odd) /\ OnDisk \in Defs
    BY <1>0, <1>3, BoxesAreTyped DEF InstallCreate, At, SavedInv, RunInv, files, OnDisk
  <2>2. AsSaved'
    BY <2>1 DEF AsSaved, EditSaved, EnvSaved
  <2>3. CASE box' = Created(OnDisk) /\ odd' = {} /\ Goto(c, "istart") /\ UNCHANGED holder
    <3>1. call'[c].at = "istart"
      BY <1>0, <2>3, GotoIs DEF Steps, ClaimedSteps
    <3>2. box'.of = {OnDisk'}
      BY <1>0, <2>1, <2>3, CreationsAreOf
    <3>3. SavedInv(c)' /\ RunInv(c)'
      BY <2>2, <3>1, <3>2 DEF SavedInv, RunInv, WithCopy, Untouched, Written
    <3> QED
      BY <1>0, <1>1, <2>3, <3>3, HolderStepKeeps DEF Calls, Nobody
  <2>4. CASE box' \in HalfCreated(OnDisk) /\ Release(c) /\ UNCHANGED odd
    <3>1. box'.of = box.of \/ box'.of = box.of \cup {OnDisk}
      BY <1>0, <2>1, <2>4, CreationsAreOf
    <3>2. AsRun'
      BY <2>1, <2>4, <3>1 DEF AsRun
    <3> QED
      BY <1>0, <1>1, <2>2, <2>4, <3>2, ReleaseKeeps DEF Release
  <2> QED
    BY <1>3, <2>3, <2>4 DEF InstallCreate
<1>4. CASE InstallStart(c)
  <2>1. /\ UNCHANGED <<file, env, kept, keptEnv, odd>> /\ AsSaved /\ box.of = {OnDisk} /\ OnDisk' = OnDisk
        /\ box'.of = box.of /\ Release(c)
    BY <1>0, <1>4, BoxesAreTyped DEF InstallStart, At, SavedInv, RunInv, PutBack, States, files, ghosts, OnDisk
  <2>2. AsSaved' /\ AsRun'
    BY <2>1 DEF AsSaved, EditSaved, EnvSaved, AsRun
  <2> QED
    BY <1>0, <1>1, <2>1, <2>2, ReleaseKeeps DEF Release
<1> QED
  BY <1>2, <1>3, <1>4

LEMMA UninstallsKeepBoth ==
  ASSUME ComposeInv, HolderInv, NEW c \in Calls, UninstallStop(c) \/ UninstallDown(c) \/ UninstallFolder(c)
  PROVE  HolderInv'
<1>0. /\ ComposeTypes /\ CallInv(c) /\ Spared(c) /\ SavedInv(c) /\ RunInv(c)
  BY OtherStepsAreTyped DEF ComposeInv, HolderInv
<1>1. call[c].at \in {"ustop", "udown", "ufolder"} /\ holder = c /\ AsSaved
  BY <1>0 DEF UninstallStop, UninstallDown, UninstallFolder, At, CallInv, SavedInv, ClaimedSteps,
     Untouched, PutBack
<1>2. CASE UninstallStop(c) \/ UninstallDown(c)
  <2>1. /\ UNCHANGED <<file, env, kept, keptEnv, odd>> /\ OnDisk' = OnDisk /\ AsRun
        /\ box'.of = box.of \/ box'.of = {}
    BY <1>0, <1>2, BoxesAreTyped DEF UninstallStop, UninstallDown, At, RunInv, Untouched, States, files,
       ghosts, OnDisk
  <2>2. AsSaved' /\ AsRun'
    BY <1>1, <2>1 DEF AsSaved, EditSaved, EnvSaved, AsRun
  <2>3. CASE Leave(c)
    BY <1>0, <1>1, <2>2, <2>3, ReleaseKeeps
  <2>4. CASE ~Leave(c)
    <3>1. PICK s \in {"udown", "ufolder"} : Goto(c, s) /\ holder' = holder
      BY <1>2, <2>4 DEF UninstallStop, UninstallDown, Release
    <3>2. call'[c].at = s
      BY <1>0, <3>1, GotoIs DEF Steps, ClaimedSteps
    <3>3. SavedInv(c)' /\ RunInv(c)'
      BY <2>2, <3>2 DEF SavedInv, RunInv, WithCopy, Written
    <3> QED
      BY <1>0, <1>1, <3>1, <3>3, HolderStepKeeps DEF Calls, Nobody
  <2> QED
    BY <2>3, <2>4
<1>3. CASE UninstallFolder(c)
  <2>1. box' = box /\ box.of = {} /\ Release(c)
    BY <1>0, <1>3 DEF UninstallFolder, At, CallInv
  <2>2. AsSaved'
    BY <1>1, <1>3 DEF UninstallFolder, FolderGone, NoFile, AsSaved, EditSaved, EnvSaved, files
  <2>3. AsRun'
    BY <2>1 DEF AsRun
  <2> QED
    BY <1>0, <1>1, <2>1, <2>2, <2>3, ReleaseKeeps DEF Release
<1> QED
  BY <1>2, <1>3

(* Who does not hold the app changes neither file and creates nothing; who   *)
(* claims it finds it as the last one left it.                               *)
LEMMA OnlyClaims ==
  ASSUME ComposeInv, HolderInv, NEW c \in Calls, Spared(c),
         UNCHANGED <<file, env, bak, kept, keptEnv, odd>>, box'.of = box.of,
         \/ holder' = holder /\ call'[c].at \notin ClaimedSteps
         \/ /\ holder = Nobody /\ holder' # Nobody
            /\ call'[c].at \in {"prepare", "backup", "iwrite", "ustop"}
            /\ call'[c].at = "prepare" => call'[c].op = "update"
            /\ call'[c].at = "backup" => call'[c].op \in Applies \ {"update"}
  PROVE  HolderInv'
<1>1. (AsSaved' <=> AsSaved) /\ (AsRun' <=> AsRun) /\ OnDisk' = OnDisk
  BY DEF AsSaved, AsRun, EditSaved, EnvSaved, OnDisk
<1>2. ASSUME NEW d \in Calls, d # c PROVE SavedInv(d)' /\ RunInv(d)'
  <2>1. call'[d] = call[d] /\ SavedInv(d) /\ RunInv(d)
    BY <1>2 DEF HolderInv, Spared
  <2>2. OldEnv(d)' = OldEnv(d)
    BY <2>1 DEF OldEnv
  <2>3. SavedInv(d)'
    BY <1>1, <2>1, <2>2 DEF SavedInv, EditSaved, EnvSaved
  <2>4. RunInv(d)'
    BY <1>1, <2>1 DEF RunInv
  <2> QED
    BY <2>3, <2>4
<1>3. SavedInv(c)' /\ RunInv(c)'
  <2>1. CASE call'[c].at \notin ClaimedSteps
    BY <2>1, IdleKnowsNothing
  <2>2. CASE holder = Nobody /\ call'[c].at \in {"prepare", "backup", "iwrite", "ustop"}
    <3>1. AsSaved' /\ AsRun'
      BY <1>1, <2>2 DEF HolderInv
    <3> QED
      BY <2>2, <3>1 DEF SavedInv, RunInv, WithCopy, Written, PutBack, ClaimedSteps
  <2> QED
    BY <2>1, <2>2
<1> QED
  BY <1>1, <1>2, <1>3 DEF HolderInv

LEMMA RequestsKeepBoth ==
  ASSUME ComposeInv, HolderInv, NEW c \in Calls,
         \/ ReadCurrent(c) \/ Claim(c) \/ Clear(c) \/ Up(c) \/ Stop(c) \/ Mark(c)
         \/ \E o \in Ops : Ask(c, o)
  PROVE  HolderInv'
<1>0. ComposeTypes /\ CallInv(c)
  BY DEF ComposeInv
<1>1. CASE ReadCurrent(c)
  <2>1. Def(file, call[c].news.env) \in Defs
    BY <1>0, RequestIs, DefsAreTyped DEF ComposeTypes
  <2>2. Spared(c) /\ call'[c].at \in {"idle", "claim"}
    BY <1>0, <1>1, <2>1, LeaveIs, GotoWithIs DEF ReadCurrent, Steps
  <2> QED
    BY <1>1, <2>2, OnlyClaims DEF ReadCurrent, ClaimedSteps, files, ghosts
<1>2. CASE Claim(c)
  <2>1. CASE holder # Nobody
    BY <1>0, <1>2, <2>1, LeaveIs, OnlyClaims DEF Claim, ClaimedSteps, files, ghosts
  <2>2. CASE holder = Nobody
    <3>1. PICK s \in {"iwrite", "ustop", "prepare", "backup"} :
            /\ Goto(c, s) /\ holder' = c
            /\ s = "prepare" => call[c].op = "update"
            /\ s = "backup" => call[c].op \in Applies \ {"update"}
      BY <1>0, <1>2, <2>2 DEF Claim, At, CallInv, Applies
    <3>2. call'[c].at = s /\ call'[c].op = call[c].op /\ Spared(c)
      BY <1>0, <3>1, GotoIs DEF Steps, ClaimedSteps
    <3> QED
      BY <1>2, <2>2, <3>1, <3>2, OnlyClaims DEF Claim, files, ghosts, Calls, Nobody
  <2> QED
    BY <2>1, <2>2
<1>3. CASE Clear(c) \/ Up(c) \/ Stop(c) \/ Mark(c)
  <2>1. Spared(c) /\ call'[c].at \in {"idle", "up", "mark"}
    BY <1>0, <1>3, LeaveIs, GotoIs DEF Clear, Up, Stop, Mark, Steps
  <2>2. box'.of = box.of
    BY <1>0, <1>3, BoxesAreTyped DEF Clear, Up, Stop, Mark, States
  <2> QED
    BY <1>3, <2>1, <2>2, OnlyClaims DEF Clear, Up, Stop, Mark, PowerFrame, ClaimedSteps, files
<1>4. ASSUME NEW o \in Ops, Ask(c, o) PROVE HolderInv'
  <2>1. Spared(c) /\ call'[c].at \notin ClaimedSteps
    BY <1>0, <1>4, AskIsTyped DEF FirstStep, ClaimedSteps, Ops, Applies
  <2> QED
    BY <1>4, <2>1, OnlyClaims DEF Ask, files
<1> QED
  BY <1>1, <1>2, <1>3, <1>4

LEMMA WorldKeepsBoth ==
  ASSUME ComposeInv, HolderInv, Sweep \/ Mount \/ Crash \/ Reboot
  PROVE  HolderInv'
<1>0. ComposeTypes
  BY DEF ComposeInv
<1>1. /\ UNCHANGED <<file, env, bak, kept, keptEnv>> /\ box'.of = box.of /\ OnDisk' = OnDisk
  BY <1>0, BoxesAreTyped DEF Sweep, SweepTick, SweepGivesUp, SweepMark, SweepLook, SweepClear, SweepStart,
     SweepFrame, Mount, Crash, Reboot, Killed, files, ghosts, States, OnDisk
<1>2. CASE Sweep \/ Mount
  <2>1. UNCHANGED <<call, holder, odd>>
    BY <1>2 DEF Sweep, SweepTick, SweepGivesUp, SweepMark, SweepLook, SweepClear, SweepStart, SweepFrame,
       Mount, ghosts
  <2>2. (AsSaved' <=> AsSaved) /\ (AsRun' <=> AsRun)
    BY <1>1, <2>1 DEF AsSaved, AsRun, EditSaved, EnvSaved
  <2>3. ASSUME NEW c \in Calls PROVE SavedInv(c)' /\ RunInv(c)'
    <3>1. SavedInv(c) /\ RunInv(c) /\ OldEnv(c)' = OldEnv(c)
      BY <1>1, <2>1 DEF HolderInv, OldEnv
    <3>2. SavedInv(c)'
      BY <1>1, <2>1, <2>2, <3>1 DEF SavedInv, EditSaved, EnvSaved
    <3> QED
      BY <1>1, <2>1, <2>2, <3>1, <3>2 DEF RunInv
  <2> QED
    BY <2>1, <2>2, <2>3 DEF HolderInv
<1>3. CASE Crash \/ Reboot
  <2>1. \A c \in Calls : call'[c].at \notin ClaimedSteps
    BY <1>3 DEF Crash, Reboot, Killed, Idle, ClaimedSteps
  <2>2. odd' = IF holder = Nobody THEN odd ELSE odd \cup {"crash"}
    BY <1>3 DEF Crash, Reboot, Killed
  <2>3. AsSaved' /\ AsRun'
    <3>1. CASE holder = Nobody
      <4>1. AsSaved /\ AsRun /\ odd' = odd
        BY <2>2, <3>1 DEF HolderInv
      <4> QED
        BY <1>1, <4>1 DEF AsSaved, AsRun, EditSaved, EnvSaved
    <3>2. CASE holder # Nobody
      BY <2>2, <3>2 DEF AsSaved, AsRun, EditSaved, EnvSaved
    <3> QED
      BY <3>1, <3>2
  <2> QED
    BY <2>1, <2>3, IdleKnowsNothing DEF HolderInv
<1> QED
  BY <1>2, <1>3

LEMMA BothKept == ComposeInv /\ HolderInv /\ [Next]_vars => HolderInv'
<1> SUFFICES ASSUME ComposeInv, HolderInv, [Next]_vars PROVE HolderInv'
  OBVIOUS
<1>1. ASSUME NEW c \in Calls, NEW o \in Ops, Ask(c, o) PROVE HolderInv'
  BY <1>1, RequestsKeepBoth
<1>2. ASSUME NEW c \in Calls, Do(c) PROVE HolderInv'
  BY <1>2, RequestsKeepBoth, PrepareAndBackupKeepBoth, WritesKeepBoth, AppliesKeepBoth, UndoesKeepBoth,
     InstallsKeepBoth, UninstallsKeepBoth DEF Do
<1>3. CASE Sweep \/ Mount \/ Crash \/ Reboot
  BY <1>3, WorldKeepsBoth
<1>4. CASE UNCHANGED vars
  BY <1>4 DEF vars, files, world, ghosts, HolderInv, SavedInv, RunInv, AsSaved, AsRun, EditSaved, EnvSaved,
     OldEnv, OnDisk
<1> QED
  BY <1>1, <1>2, <1>3, <1>4 DEF Next

LEMMA BothSafe == Spec => []HolderInv
  BY HolderStarts, ComposeSafe, BothKept, PTL DEF Spec

(***************************************************************************)
(* pullAndApply: "both files are put back if that fails, so disk and       *)
(* running state never diverge": whoever saves, updates, installs or takes *)
(* off the app, in whatever order and whatever fails, its containers are   *)
(* of the definition on disk once the claim is let go of, but for a kill,  *)
(* a failed undo, an install over the app and an undo to a definition that *)
(* had grown old, until the next request that is kept.                     *)
(***************************************************************************)
THEOREM WhatRunsIsOnDisk == Spec => []DiskIsWhatRuns
<1>1. HolderInv => DiskIsWhatRuns
  BY DEF HolderInv, AsRun, DiskIsWhatRuns, Settled
<1> QED
  BY <1>1, BothSafe, PTL

(***************************************************************************)
(* A request that fails leaves no trace in the compose file or the .env,   *)
(* and an update builds on the last edit that was kept: once the claim is  *)
(* let go of, both files hold what the last request that was kept wrote.   *)
(***************************************************************************)
THEOREM LastSavesStand == Spec => []LastSaveStands
<1>1. HolderInv => LastSaveStands
  BY DEF HolderInv, AsSaved, EditSaved, EnvSaved, LastSaveStands
<1> QED
  BY <1>1, BothSafe, PTL
=============================================================================
