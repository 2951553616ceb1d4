--------------------------- MODULE BackupScheduler ---------------------------
(***************************************************************************)
(* The backups that run by themselves: the tick of                         *)
(* service/backup_scheduler.go, the retention of backup_retention.go, the  *)
(* owner saving the schedules (SetBackupSchedules of route/v2/backup.go)   *)
(* and the backups asked for by hand (runBackupInBackground there).        *)
(*                                                                         *)
(* Cron starts a tick every minute in a goroutine of its own, whether the  *)
(* last one is over or not. A tick reads the schedules once, runs what is  *)
(* due one after the other, deletes old runs after each backup that        *)
(* landed, and writes LastRun into the file as it is then. A key is an app *)
(* and a destination; the file has one schedule per key. A run is a folder *)
(* at the destination; it is whole once its manifest is there, which is    *)
(* written last and which nothing here looks at. A file with two schedules *)
(* of one key, which neither the save nor the tick refuses, is left out.   *)
(***************************************************************************)
EXTENDS BackupCalendar, FiniteSets

CONSTANTS
  Keys, Ticks, Hands,   \* schedules; goroutines of cron and of the button
  Settings,             \* what an owner may set: at, every, weekday, keep, enabled
  HandKeeps,            \* what a backup by hand may keep
  Faults,               \* the calls that may fail: "copy", "list", "purge", "record"
  MaxClock, MaxCrashes, MaxSaves   \* bounds

ASSUME SettingsAssumption ==
  Settings \subseteq [every : {"daily", "weekly"}, at : 0 .. Day - 1, weekday : 0 .. Week - 1,
                     keep : Int, enabled : BOOLEAN]
ASSUME WorkersAssumption == Ticks \cap Hands = {}
ASSUME NamesAssumption == "no one" \notin Ticks /\ "no key" \notin Keys
ASSUME BoundsAssumption ==
  /\ HandKeeps \subseteq Int /\ MaxClock \in Nat /\ MaxCrashes \in Nat /\ MaxSaves \in Nat
  /\ Day * Week <= MaxClock

Workers == Ticks \cup Hands
NoSchedule == [enabled |-> FALSE]
NoOne == "no one"
NotSaving == [saving |-> FALSE, seen |-> [k \in Keys |-> Never]]

VARIABLES
  clock,
  file,      \* schedules.json: key -> its setting and LastRun, or NoSchedule
  lock,      \* backupTick: the tick that holds it, or NoOne
  open,      \* the core's flag: an upgrade of the system is open
  work,      \* worker -> what it is doing
  due,       \* tick -> the schedules it read that it did not come to yet
  runs,      \* key -> the stamps of the folders at the destination
  whole,     \* key -> those with a manifest
  owner,     \* the owner's save: whether it read the file, and the LastRuns it found
  crashes, saves,   \* bounds
  spent,     \* ghost: key -> the tick's moment of the last recorded run
  lost,      \* ghost: keys whose LastRun the owner's save took from an older file
  tried      \* ghost: key -> the tick's moment of the last copy that came to an end

vars == <<clock, file, lock, open, work, due, runs, whole, owner, crashes, saves, spent, lost, tried>>
places == <<runs, whole>>
bounds == <<crashes, saves>>
ghosts == <<spent, lost, tried>>
world == <<clock, open, owner, bounds>>

NoKey == "no key"
Idle == [stage |-> "idle", now |-> Never, key |-> NoKey, as |-> NoSchedule, keep |-> 0, old |-> {}]
AtNext(t) == [Idle EXCEPT !.stage = "next", !.now = t]
Copying(t, k, s, n) == [Idle EXCEPT !.stage = "copying", !.now = t, !.key = k, !.as = s, !.keep = n]
Scheduled == {k \in Keys : file[k] # NoSchedule}
WithLastRun(s, t) ==
  [every |-> s.every, at |-> s.at, weekday |-> s.weekday, keep |-> s.keep,
   enabled |-> s.enabled, lastRun |-> t]

Init ==
  /\ clock = Day * Week
  /\ file \in [Keys -> {WithLastRun(s, Never) : s \in Settings}]
  /\ lock = NoOne /\ open = FALSE
  /\ work = [w \in Workers |-> Idle]
  /\ due = [w \in Ticks |-> {}]
  /\ runs = [k \in Keys |-> {}] /\ whole = [k \in Keys |-> {}]
  /\ owner = NotSaving
  /\ crashes = 0 /\ saves = 0
  /\ spent = [k \in Keys |-> Never] /\ lost = {} /\ tried = [k \in Keys |-> Never]

Becomes(w, s) == work' = [work EXCEPT ![w] = s]

(* DueSchedules: every schedule with a slot it has not run.                  *)
DueSchedules == {k \in Scheduled : IsDue(file[k], clock)}

RunsToPurge_KeepsOneLess(stamps, keep) ==
  IF keep <= 0 THEN {} ELSE {s \in stamps : Cardinality({t \in stamps : t > s}) >= keep - 1}

(* RunsToPurge: all but the newest `keep`; zero or less keeps everything.    *)
RunsToPurge(stamps, keep) ==
  IF keep <= 0 THEN {} ELSE {s \in stamps : Cardinality({t \in stamps : t > s}) >= keep}

-----------------------------------------------------------------------------
(* RunDueBackups.                                                            *)
MayStart_WhateverRuns == TRUE

MayStart == lock = NoOne

StartTick(w) ==
  /\ work[w] = Idle /\ MayStart
  /\ DueSchedules # {}
  /\ lock' = w
  /\ Becomes(w, AtNext(clock))
  /\ due' = [due EXCEPT ![w] = {[key |-> k, as |-> file[k]] : k \in DueSchedules}]
  /\ UNCHANGED <<world, file, places, ghosts>>

(* Another tick runs, or nothing is due.                                     *)
LeaveTick(w) ==
  /\ work[w] = Idle /\ (~MayStart \/ DueSchedules = {})
  /\ UNCHANGED vars

EndTick(w) ==
  /\ work[w].stage = "next" /\ (due[w] = {} \/ open)
  /\ lock' = NoOne
  /\ Becomes(w, Idle)
  /\ due' = [due EXCEPT ![w] = {}]
  /\ UNCHANGED <<world, file, places, ghosts>>

StartRun_NotWhileHandsCopy(w, d) ==
  /\ work[w].stage = "next" /\ ~open /\ d \in due[w]
  /\ LET job == Copying(work[w].now, d.key, d.as, d.as.keep) IN
     IF \E h \in Hands : work[h].key = d.key THEN Becomes(w, [job EXCEPT !.stage = "recording"])
     ELSE Becomes(w, job)
  /\ due' = [due EXCEPT ![w] = @ \ {d}]
  /\ UNCHANGED <<world, file, lock, places, ghosts>>

(* The backup begins; a folder is there once the first bytes are.            *)
StartRun(w, d) ==
  /\ work[w].stage = "next" /\ ~open /\ d \in due[w]
  /\ Becomes(w, Copying(work[w].now, d.key, d.as, d.as.keep))
  /\ due' = [due EXCEPT ![w] = @ \ {d}]
  /\ UNCHANGED <<world, file, lock, places, ghosts>>

(* What comes after a copy: nothing is deleted after a failure.              *)
AfterCopy(w, landed) ==
  IF landed /\ work[w].keep > 0 THEN [work[w] EXCEPT !.stage = "listing"]
  ELSE IF w \in Ticks THEN [work[w] EXCEPT !.stage = "recording"] ELSE Idle

Tried(w) ==
  /\ tried' = IF w \in Ticks THEN [tried EXCEPT ![work[w].key] = work[w].now] ELSE tried
  /\ UNCHANGED <<spent, lost>>

CopyFiles(w) ==
  /\ work[w].stage = "copying"
  /\ runs' = [runs EXCEPT ![work[w].key] = @ \cup {work[w].now}]
  /\ UNCHANGED <<world, file, lock, work, due, whole, ghosts>>

(* copyPlan puts the manifest last.                                          *)
CopyLands(w) ==
  /\ work[w].stage = "copying"
  /\ LET k == work[w].key IN
     /\ runs' = [runs EXCEPT ![k] = @ \cup {work[w].now}]
     /\ whole' = [whole EXCEPT ![k] = @ \cup {work[w].now}]
  /\ Becomes(w, AfterCopy(w, TRUE)) /\ Tried(w)
  /\ UNCHANGED <<world, file, lock, due>>

CopyFails(w) ==
  /\ "copy" \in Faults /\ work[w].stage = "copying"
  /\ Becomes(w, AfterCopy(w, FALSE)) /\ Tried(w)
  /\ UNCHANGED <<world, file, lock, due, places>>

(* ApplyRetention: what is there now, beyond the last `keep`.                *)
ListRuns(w) ==
  /\ work[w].stage = "listing"
  /\ \/ Becomes(w, [work[w] EXCEPT !.stage = "purging",
                                      !.old = RunsToPurge(runs[work[w].key], work[w].keep)])
     \/ "list" \in Faults /\ Becomes(w, AfterCopy(w, FALSE))
  /\ UNCHANGED <<world, file, lock, due, places, ghosts>>

(* One run that cannot be deleted does not spare the others.                 *)
PurgeOne(w, s) ==
  /\ work[w].stage = "purging" /\ s \in work[w].old
  /\ \/ LET k == work[w].key IN
        runs' = [runs EXCEPT ![k] = @ \ {s}] /\ whole' = [whole EXCEPT ![k] = @ \ {s}]
     \/ "purge" \in Faults /\ UNCHANGED places
  /\ Becomes(w, [work[w] EXCEPT !.old = @ \ {s}])
  /\ UNCHANGED <<world, file, lock, due, ghosts>>

EndPurge(w) ==
  /\ work[w].stage = "purging" /\ work[w].old = {}
  /\ Becomes(w, AfterCopy(w, FALSE))
  /\ UNCHANGED <<world, file, lock, due, places, ghosts>>

Recorded_AsTheTickReadIt(w) ==
  [file EXCEPT ![work[w].key] = WithLastRun(work[w].as, work[w].now)]

(* recordBackupRun: in the file as it is now, if the schedule is still there.*)
Recorded(w) ==
  IF file[work[w].key] = NoSchedule THEN file
  ELSE [file EXCEPT ![work[w].key].lastRun = work[w].now]

RecordRun(w) ==
  /\ work[w].stage = "recording"
  /\ \/ file' = Recorded(w) /\ spent' = [spent EXCEPT ![work[w].key] = work[w].now]
     \/ "record" \in Faults /\ UNCHANGED <<file, spent>>
  /\ Becomes(w, AtNext(work[w].now))
  /\ UNCHANGED <<world, lock, due, places, lost, tried>>

-----------------------------------------------------------------------------
(* runBackupInBackground: named by the moment of the click. Two backups of a *)
(* key that begin within one second would share a folder; that is left out.  *)
StartByHand(w, k, keep) ==
  /\ work[w] = Idle
  /\ clock \notin runs[k] /\ \A v \in Workers : work[v].stage # "idle" => work[v].now # clock
  /\ Becomes(w, Copying(clock, k, NoSchedule, keep))
  /\ UNCHANGED <<world, file, lock, due, places, ghosts>>

(* SetBackupSchedules reads what is on disk, so a LastRun the screen never   *)
(* saw is not lost, and lets go of the lock.                                 *)
ReadSchedules ==
  /\ ~owner.saving /\ saves < MaxSaves
  /\ owner' = [saving |-> TRUE,
                seen |-> [k \in Keys |-> IF file[k] = NoSchedule THEN Never ELSE file[k].lastRun]]
  /\ saves' = saves + 1
  /\ UNCHANGED <<clock, open, crashes, file, lock, work, due, places, ghosts>>

SaveSchedules ==
  /\ owner.saving
  /\ \E set \in [Keys -> Settings \cup {NoSchedule}] :
       file' = [k \in Keys |-> IF set[k] = NoSchedule THEN NoSchedule
                               ELSE WithLastRun(set[k], owner.seen[k])]
  /\ lost' = lost \cup {k \in Keys : file'[k] = NoSchedule \/ owner.seen[k] < spent[k]}
  /\ owner' = NotSaving
  /\ UNCHANGED <<clock, open, bounds, lock, work, due, places, spent, tried>>

(* The clock, the core's flag, and the end of the process.                   *)
Minute ==
  /\ clock < MaxClock /\ clock' = clock + 1
  /\ UNCHANGED <<open, owner, bounds, file, lock, work, due, places, ghosts>>

OpenUpgrade ==
  /\ ~open /\ open' = TRUE
  /\ clock < MaxClock /\ clock' = clock + 1
  /\ UNCHANGED <<owner, bounds, file, lock, work, due, places, ghosts>>

CloseUpgrade ==
  /\ open /\ open' = FALSE
  /\ UNCHANGED <<clock, owner, bounds, file, lock, work, due, places, ghosts>>

Crash ==
  /\ crashes < MaxCrashes /\ crashes' = crashes + 1
  /\ lock' = NoOne /\ owner' = NotSaving
  /\ work' = [w \in Workers |-> Idle]
  /\ due' = [w \in Ticks |-> {}]
  /\ UNCHANGED <<clock, open, saves, file, places, ghosts>>

WorkerStep(w) ==
  \/ CopyLands(w) \/ CopyFails(w) \/ ListRuns(w) \/ EndPurge(w)
  \/ \E s \in Never .. MaxClock : PurgeOne(w, s)

TickStep(w) ==
  WorkerStep(w) \/ EndTick(w) \/ RecordRun(w) \/ \E d \in due[w] : StartRun(w, d)

Next ==
  \/ \E w \in Ticks : StartTick(w) \/ LeaveTick(w) \/ TickStep(w) \/ CopyFiles(w)
  \/ \E w \in Hands : WorkerStep(w) \/ CopyFiles(w)
                      \/ \E k \in Keys, keep \in HandKeeps : StartByHand(w, k, keep)
  \/ ReadSchedules \/ SaveSchedules \/ Minute \/ OpenUpgrade \/ CloseUpgrade \/ Crash

Spec == Init /\ [][Next]_vars

(* Cron ticks every minute, which is fair where this runs (MCBackupScheduler *)
(* says it), and a tick goes on; an upgrade is closed one day.               *)
CronTicks == \E w \in Ticks : StartTick(w)

SchedulerFairness ==
  /\ \A w \in Ticks : WF_vars(TickStep(w))
  /\ WF_vars(CloseUpgrade) /\ WF_vars(SaveSchedules)
-----------------------------------------------------------------------------
Schedules == {WithLastRun(s, t) : s \in Settings, t \in Never .. MaxClock}
Moments == Never .. MaxClock
Jobs ==
  [stage : {"idle", "next", "copying", "listing", "purging", "recording"}, now : Moments,
   key : Keys \cup {NoKey}, as : Schedules \cup {NoSchedule}, keep : Int, old : SUBSET Moments]

TypeOK ==
  /\ clock \in Moments
  /\ file \in [Keys -> Schedules \cup {NoSchedule}]
  /\ lock \in Ticks \cup {NoOne} /\ open \in BOOLEAN
  /\ work \in [Workers -> Jobs]
  /\ due \in [Ticks -> SUBSET [key : Keys, as : Schedules]]
  /\ runs \in [Keys -> SUBSET Moments] /\ whole \in [Keys -> SUBSET Moments]
  /\ owner \in [saving : BOOLEAN, seen : [Keys -> Moments]]
  /\ crashes \in 0 .. MaxCrashes /\ saves \in 0 .. MaxSaves
  /\ spent \in [Keys -> Moments] /\ lost \in SUBSET Keys /\ tried \in [Keys -> Moments]

(* A tick that lasts for hours undoes nothing the owner saved meanwhile: but *)
(* for LastRun, the file changes by the owner's save only.                   *)
AsSet(s) == IF s = NoSchedule THEN s ELSE [s EXCEPT !.lastRun = Never]
OwnerSaveStands ==
  [][\A k \in Keys : AsSet(file'[k]) # AsSet(file[k]) => owner.saving /\ ~owner'.saving]_vars

(* A slot whose run was recorded is not run again, though a tick is started  *)
(* every minute and the process may be killed; except where the owner's save *)
(* put an older LastRun back.                                                *)
SlotRunsOnce ==
  [][\A w \in Ticks :
       LET job == work'[w] IN
       work[w].stage = "next" /\ job.stage = "copying" /\ job.key \notin lost
         => spent[job.key] < MostRecentSlot(job.as, job.now)]_vars

(* "A retention that empties a destination is not a retention": whatever     *)
(* retentions overlap, a run is deleted only while at least as many newer    *)
(* runs as the smallest retention keeps are there.                           *)
Keeps == {n \in HandKeeps \cup {s.keep : s \in Settings} : n > 0}
NewestStay ==
  [][\A k \in Keys : \A s \in runs[k] \ runs'[k] :
       \E n \in Keeps : Cardinality({t \in runs'[k] : t > s}) >= n]_vars

(* "What was skipped runs once when the upgrade is closed": a slot that is   *)
(* due is not due for ever, with copies that fail, upgrades, and kills, and  *)
(* nothing ends it but a copy of a tick no older than the slot that came to  *)
(* its end, well or not, or the owner's save.                                *)
SpentByARun(k) ==
  k \in DueSchedules /\ k \notin DueSchedules' =>
    tried[k] >= MostRecentSlot(file[k], clock) \/ (owner.saving /\ ~owner'.saving)

DueIsRun ==
  /\ \A k \in Keys : k \in DueSchedules ~> k \notin DueSchedules
  /\ [][\A k \in Keys : SpentByARun(k)]_vars

(* backup_scheduler.go:197: "Applying retention now could drop a good backup *)
(* from last week in favour of a broken one from tonight." The next backup   *)
(* that lands applies it, and it counts the broken one.                      *)
GoodIsNotDroppedForBroken ==
  [][\A k \in Keys : \A s \in whole[k] \ whole'[k] :
       \A t \in runs'[k] \ whole'[k] :
         t > s => \E w \in Workers : work[w].stage = "copying" /\ work[w].key = k /\ work[w].now = t]_vars
=============================================================================
