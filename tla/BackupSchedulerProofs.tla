----------------------- MODULE BackupSchedulerProofs -----------------------
(***************************************************************************)
(* The ticks, the retention and the owner's save, for every set of         *)
(* schedules, goroutines and settings, every calendar, and whatever calls  *)
(* fail. Then the hold that stops an app for a copy, for every set of apps *)
(* and containers: what it stopped is noted until it runs again. Last the  *)
(* arithmetic of the calendar: which moment a schedule falls due at.       *)
(***************************************************************************)
EXTENDS BackupScheduler, BackupHold, BackupClock, FiniteSetTheorems, TLAPS

Active == {"copying", "listing", "purging", "recording"}

(* One tick: only the holder of the lock is not idle, and only it has        *)
(* schedules left. A backup by hand records nothing.                         *)
OneTick ==
  /\ \A w \in Ticks : work[w].stage # "idle" => lock = w
  /\ \A w \in Ticks : due[w] # {} => work[w].stage # "idle"
  /\ \A w \in Hands : work[w].stage \notin {"next", "recording"}
  /\ \A w \in Workers : work[w].stage \in Active => work[w].key \in Keys

(* A schedule a tick has left is due, is there once, and is not being run.   *)
LeftIsDue ==
  \A w \in Ticks :
    /\ \A d \in due[w] :
         /\ IsDue(d.as, work[w].now)
         /\ d.key \notin lost => spent[d.key] <= d.as.lastRun
         /\ work[w].stage \in Active => work[w].key # d.key
    /\ \A d, e \in due[w] : d.key = e.key => d = e

(* The file knows of every recorded run, where the owner's save lost none.   *)
FileKnows == \A k \in Keys \ lost : file[k] # NoSchedule /\ spent[k] <= file[k].lastRun

(* What a tick is about to record was tried, at its own moment.              *)
TriedFirst ==
  \A w \in Ticks : work[w].stage \in Active \ {"copying"} => tried[work[w].key] = work[w].now

(* What is to be deleted has enough newer runs.                              *)
Enough(S, s) == \E n \in Keeps : Cardinality({t \in S : t > s}) >= n
OldIsOld ==
  \A w \in Workers : work[w].stage = "purging" =>
    \A s \in work[w].old : Enough(runs[work[w].key], s)
KeepIsMeant == \A w \in Workers : work[w].stage \in Active => work[w].keep \in Keeps \/ work[w].keep <= 0
ListingKeeps == \A w \in Workers : work[w].stage \in {"listing", "purging"} => work[w].keep > 0

SchedulerInv ==
  TypeOK /\ OneTick /\ LeftIsDue /\ FileKnows /\ OldIsOld /\ KeepIsMeant /\ ListingKeeps
  /\ TriedFirst

-----------------------------------------------------------------------------
LEMMA MomentsFinite == ASSUME NEW S \in SUBSET Moments PROVE IsFiniteSet(S)
<1>1. IsFiniteSet(Moments)
  BY FS_Interval, BoundsAssumption DEF Moments, Never
<1> QED
  BY <1>1, FS_Subset

LEMMA KeepsAreInts == Keeps \subseteq Int
  BY BoundsAssumption, SettingsAssumption DEF Keeps

(* More runs never make fewer newer ones. *)
LEMMA EnoughGrows ==
  ASSUME NEW S \in SUBSET Moments, NEW T \in SUBSET Moments, S \subseteq T, NEW s, Enough(S, s)
  PROVE  Enough(T, s)
<1>1. PICK n \in Keeps : Cardinality({t \in S : t > s}) >= n
  BY DEF Enough
<1>2. IsFiniteSet({t \in T : t > s}) /\ {t \in S : t > s} \subseteq {t \in T : t > s}
  BY MomentsFinite, {t \in T : t > s} \in SUBSET Moments
<1>3. /\ Cardinality({t \in S : t > s}) <= Cardinality({t \in T : t > s})
      /\ Cardinality({t \in S : t > s}) \in Nat /\ Cardinality({t \in T : t > s}) \in Nat
  BY <1>2, FS_Subset, FS_CardinalityType
<1>4. Cardinality({t \in T : t > s}) >= n
  BY <1>1, <1>3, KeepsAreInts
<1> QED
  BY <1>4 DEF Enough

(* Deleting a run with enough newer ones leaves every other enough. *)
LEMMA EnoughStays ==
  ASSUME NEW S \in SUBSET Moments, NEW s \in Moments, NEW d \in Moments, Enough(S, s), Enough(S, d)
  PROVE  Enough(S \ {d}, s)
<1>1. CASE d > s
  <2>1. PICK n \in Keeps : Cardinality({t \in S : t > d}) >= n
    BY DEF Enough
  <2>2. /\ IsFiniteSet({t \in S \ {d} : t > s})
        /\ {t \in S : t > d} \subseteq {t \in S \ {d} : t > s}
    <3>1. IsFiniteSet({t \in S \ {d} : t > s})
      BY MomentsFinite, {t \in S \ {d} : t > s} \in SUBSET Moments
    <3>2. \A t \in Moments : t > d => t > s /\ t # d
      BY <1>1 DEF Moments, Never
    <3> QED
      BY <3>1, <3>2
  <2>3. /\ Cardinality({t \in S : t > d}) <= Cardinality({t \in S \ {d} : t > s})
        /\ Cardinality({t \in S : t > d}) \in Nat /\ Cardinality({t \in S \ {d} : t > s}) \in Nat
    BY <2>2, FS_Subset, FS_CardinalityType
  <2>4. Cardinality({t \in S \ {d} : t > s}) >= n
    BY <2>1, <2>3, KeepsAreInts
  <2> QED
    BY <2>4 DEF Enough
<1>2. CASE ~(d > s)
  <2>1. {t \in S : t > s} = {t \in S \ {d} : t > s}
    BY <1>2
  <2> QED
    BY <2>1 DEF Enough
<1> QED
  BY <1>1, <1>2

(* The slots are moments one can compare. *)
LEMMA SlotIsInt ==
  ASSUME NEW s \in Schedules, NEW t \in Moments PROVE MostRecentSlot(s, t) \in Int
<1>1. s.every \in {"daily", "weekly"} /\ s.at \in Int /\ s.weekday \in Int
  BY SettingsAssumption, CalendarAssumption DEF Schedules, WithLastRun
<1>2. t \in Int /\ DayOf(t) \in Int
  BY CalendarAssumption DEF Moments, Never, DayOf
<1>3. SlotThatDay(s, t) \in Int
  BY <1>1, <1>2, CalendarAssumption DEF SlotThatDay
<1>4. StepsBack(s, SlotThatDay(s, t)) \in Int
  <2>1. DayOf(SlotThatDay(s, t)) \in Int
    BY <1>3, CalendarAssumption DEF DayOf
  <2>2. WeekdayOf(SlotThatDay(s, t)) \in Int
    BY <2>1, CalendarAssumption DEF WeekdayOf
  <2> QED
    BY <2>2, <1>1, CalendarAssumption DEF StepsBack
<1>5. Day \in Int /\ Week \in Int
  BY CalendarAssumption
<1> QED
  BY <1>1, <1>2, <1>3, <1>4, <1>5 DEF MostRecentSlot

LEMMA ScheduleFields ==
  ASSUME NEW s \in Schedules
  PROVE  /\ s.lastRun \in Moments /\ s.keep \in Int /\ s # NoSchedule
         /\ s.keep \in Keeps \/ s.keep <= 0
         /\ \A t \in Moments : [s EXCEPT !.lastRun = t] \in Schedules
<1>1. PICK x \in Settings, t \in Moments : s = WithLastRun(x, t)
  BY DEF Schedules, Moments
<1>2. s.lastRun \in Moments /\ s.keep \in Int /\ s.keep = x.keep
  BY <1>1, SettingsAssumption DEF WithLastRun
<1>3. s # NoSchedule
  BY <1>1 DEF WithLastRun, NoSchedule
<1>4. s.keep \in Keeps \/ s.keep <= 0
  BY <1>2 DEF Keeps
<1>5. ASSUME NEW u \in Moments PROVE [s EXCEPT !.lastRun = u] \in Schedules
  <2>1. [s EXCEPT !.lastRun = u] = WithLastRun(x, u)
    BY <1>1 DEF WithLastRun
  <2> QED
    BY <2>1 DEF Schedules, Moments
<1> QED
  BY <1>2, <1>3, <1>4, <1>5

LEMMA NoScheduleIsNone == NoSchedule \notin Schedules
  BY ScheduleFields

-----------------------------------------------------------------------------
(* Types. *)
LEMMA JobTypes ==
  /\ Idle \in Jobs
  /\ \A t \in Moments : AtNext(t) \in Jobs
  /\ \A t \in Moments, k \in Keys, s \in Schedules \cup {NoSchedule}, n \in Int : Copying(t, k, s, n) \in Jobs
<1>1. Never \in Moments
  BY BoundsAssumption DEF Never, Moments
<1>2. Idle \in Jobs
  BY <1>1 DEF Idle, Jobs
<1>3. ASSUME NEW t \in Moments PROVE AtNext(t) \in Jobs
  BY <1>2 DEF AtNext, Jobs
<1>4. ASSUME NEW t \in Moments, NEW k \in Keys, NEW s \in Schedules \cup {NoSchedule}, NEW n \in Int
      PROVE Copying(t, k, s, n) \in Jobs
  BY <1>2 DEF Copying, Jobs
<1> QED
  BY <1>2, <1>3, <1>4

LEMMA ClockStarts == Day * Week \in Moments /\ Never \in Moments
<1>1. Day * Week \in Nat
  BY CalendarAssumption
<1> QED
  BY <1>1, BoundsAssumption DEF Moments, Never

LEMMA NotSavingType == NotSaving \in [saving : BOOLEAN, seen : [Keys -> Moments]]
  BY ClockStarts DEF NotSaving

LEMMA TypeInit == Init => TypeOK
<1> SUFFICES ASSUME Init PROVE TypeOK
  OBVIOUS
<1>1. file \in [Keys -> Schedules \cup {NoSchedule}]
  <2>1. \A s \in Settings : WithLastRun(s, Never) \in Schedules
    BY ClockStarts DEF Schedules, Moments
  <2> QED
    BY <2>1 DEF Init
<1>2. /\ work \in [Workers -> Jobs] /\ due \in [Ticks -> SUBSET [key : Keys, as : Schedules]]
      /\ runs \in [Keys -> SUBSET Moments] /\ whole \in [Keys -> SUBSET Moments]
      /\ spent \in [Keys -> Moments] /\ tried \in [Keys -> Moments]
  BY JobTypes, ClockStarts DEF Init
<1>3. crashes \in 0 .. MaxCrashes /\ saves \in 0 .. MaxSaves /\ clock \in Moments
  BY ClockStarts, BoundsAssumption DEF Init
<1> QED
  BY <1>1, <1>2, <1>3, NotSavingType DEF Init, TypeOK

LEMMA TypeStep == TypeOK /\ OneTick /\ [Next]_vars => TypeOK'
<1> SUFFICES ASSUME TypeOK, OneTick, [Next]_vars PROVE TypeOK'
  OBVIOUS
<1> USE JobTypes, ClockStarts, BoundsAssumption
    DEF TypeOK, world, places, bounds, ghosts, Tried, Becomes, Workers
<1>1. ASSUME NEW w \in Ticks, StartTick(w) PROVE TypeOK'
  <2>1. \A k \in DueSchedules : k \in Keys /\ file[k] \in Schedules
    BY <1>1 DEF DueSchedules, Scheduled
  <2>2. {[key |-> k, as |-> file[k]] : k \in DueSchedules} \in SUBSET [key : Keys, as : Schedules]
    BY <2>1
  <2> QED
    BY <1>1, <2>2 DEF StartTick
<1>2. ASSUME NEW w \in Ticks, LeaveTick(w) PROVE TypeOK'
  BY <1>2 DEF LeaveTick, vars
<1>3. ASSUME NEW w \in Ticks, EndTick(w) PROVE TypeOK'
  BY <1>3 DEF EndTick
<1>4. ASSUME NEW w \in Ticks, NEW d \in due[w], StartRun(w, d) PROVE TypeOK'
  <2>1. d.key \in Keys /\ d.as \in Schedules /\ d.as.keep \in Int /\ work[w].now \in Moments
    BY <1>4, ScheduleFields DEF Jobs
  <2>2. Copying(work[w].now, d.key, d.as, d.as.keep) \in Jobs
    BY <2>1
  <2> QED
    BY <1>4, <2>2 DEF StartRun
<1>5. ASSUME NEW w \in Workers, CopyFiles(w) PROVE TypeOK'
  <2>1. work[w].now \in Moments
    BY DEF Jobs
  <2>2. runs' \in [Keys -> SUBSET Moments]
    BY <1>5, <2>1 DEF CopyFiles
  <2> QED
    BY <1>5, <2>2 DEF CopyFiles
<1>6. ASSUME NEW w \in Workers, NEW b \in BOOLEAN PROVE AfterCopy(w, b) \in Jobs
  BY DEF AfterCopy, Jobs
<1>7. ASSUME NEW w \in Workers, WorkerStep(w) PROVE TypeOK'
  <2>1. CASE CopyLands(w)
    <3>1. work' \in [Workers -> Jobs]
      BY <1>6, <2>1 DEF CopyLands
    <3>2. work[w].now \in Moments
      BY DEF Jobs
    <3>3. runs' \in [Keys -> SUBSET Moments] /\ whole' \in [Keys -> SUBSET Moments]
      BY <2>1, <3>2 DEF CopyLands
    <3> QED
      BY <2>1, <3>1, <3>3 DEF CopyLands
  <2>2. CASE CopyFails(w)
    <3>1. work' \in [Workers -> Jobs]
      BY <1>6, <2>2 DEF CopyFails
    <3>2. work[w].now \in Moments
      BY DEF Jobs
    <3>3. tried' \in [Keys -> Moments]
      BY <2>2, <3>2 DEF CopyFails
    <3> QED
      BY <2>2, <3>1, <3>3 DEF CopyFails
  <2>3. CASE ListRuns(w)
    <3>2. CASE Becomes(w, [work[w] EXCEPT !.stage = "purging",
                                          !.old = RunsToPurge(runs[work[w].key], work[w].keep)])
      <4>1. RunsToPurge(runs[work[w].key], work[w].keep) \in SUBSET Moments
        BY <2>3 DEF ListRuns, OneTick, Active, RunsToPurge
      <4> QED
        BY <2>3, <3>2, <4>1, ZenonT(40) DEF ListRuns, Jobs
    <3> QED
      BY <1>6, <2>3, <3>2 DEF ListRuns
  <2>4. CASE EndPurge(w)
    BY <1>6, <2>4 DEF EndPurge
  <2>5. ASSUME NEW s \in Moments, PurgeOne(w, s) PROVE TypeOK'
    <3>1. [work[w] EXCEPT !.old = @ \ {s}] \in Jobs
      BY ZenonT(40) DEF Jobs
    <3>2. work' \in [Workers -> Jobs]
      BY <2>5, <3>1 DEF PurgeOne
    <3>3. runs' \in [Keys -> SUBSET Moments] /\ whole' \in [Keys -> SUBSET Moments]
      BY <2>5, SMTT(30) DEF PurgeOne
    <3> QED
      BY <2>5, <3>2, <3>3 DEF PurgeOne
  <2> QED
    BY <1>7, <2>1, <2>2, <2>3, <2>4, <2>5 DEF WorkerStep, Moments
<1>8. ASSUME NEW w \in Ticks, RecordRun(w) PROVE TypeOK'
  <2>1. work[w].key \in Keys /\ work[w].now \in Moments
    BY <1>8 DEF RecordRun, OneTick, Active, Jobs
  <2>2. Recorded(w) \in [Keys -> Schedules \cup {NoSchedule}]
    BY <2>1, ScheduleFields DEF Recorded
  <2> QED
    BY <1>8, <2>1, <2>2 DEF RecordRun
<1>9. ASSUME NEW w \in Hands, NEW k \in Keys, NEW n \in HandKeeps, StartByHand(w, k, n) PROVE TypeOK'
  BY <1>9 DEF StartByHand
<1>10. CASE ReadSchedules
  <2>1. \A k \in Keys : file[k] # NoSchedule => file[k].lastRun \in Moments
    BY ScheduleFields
  <2> QED
    BY <1>10, <2>1 DEF ReadSchedules
<1>11. CASE SaveSchedules
  <2>1. \A x \in Settings, t \in Moments : WithLastRun(x, t) \in Schedules
    BY DEF Schedules, Moments
  <2> QED
    BY <1>11, <2>1 DEF SaveSchedules, NotSaving
<1>12. CASE Minute \/ OpenUpgrade \/ CloseUpgrade
  <2>1. clock < MaxClock => clock + 1 \in Moments
    BY DEF Moments, Never
  <2> QED
    BY <1>12, <2>1 DEF Minute, OpenUpgrade, CloseUpgrade
<1>13. CASE Crash
  <2>1. work' \in [Workers -> Jobs] /\ due' \in [Ticks -> SUBSET [key : Keys, as : Schedules]]
    BY <1>13 DEF Crash
  <2>2. crashes' \in 0 .. MaxCrashes
    BY <1>13 DEF Crash
  <2> QED
    BY <1>13, <2>1, <2>2, NotSavingType DEF Crash
<1>14. CASE UNCHANGED vars
  BY <1>14 DEF vars
<1> QED
  BY <1>1, <1>2, <1>3, <1>4, <1>5, <1>7, <1>8, <1>9, <1>10, <1>11, <1>12, <1>13, <1>14
  DEF Next, TickStep

-----------------------------------------------------------------------------
(* One tick at a time. *)
LEMMA JobStages ==
  /\ Idle.stage = "idle"
  /\ \A t : AtNext(t).stage = "next" /\ AtNext(t).now = t
  /\ \A t, k, s, n : LET job == Copying(t, k, s, n) IN
       job.stage = "copying" /\ job.now = t /\ job.key = k /\ job.as = s /\ job.keep = n
  BY DEF Idle, AtNext, Copying

LEMMA AfterCopyIs ==
  ASSUME TypeOK, NEW w \in Workers, NEW b \in BOOLEAN
  PROVE  \/ /\ work[w].keep > 0
            /\ AfterCopy(w, b) = [work[w] EXCEPT !.stage = "listing"]
            /\ AfterCopy(w, b).stage = "listing"
         \/ w \in Ticks /\ AfterCopy(w, b) = [work[w] EXCEPT !.stage = "recording"]
            /\ AfterCopy(w, b).stage = "recording"
         \/ w \notin Ticks /\ AfterCopy(w, b) = Idle /\ AfterCopy(w, b).stage = "idle"
<1>1. work[w] \in Jobs
  BY DEF TypeOK
<1> QED
  BY <1>1, JobStages DEF AfterCopy, Jobs

(* What a step of a worker after its copy began does to its job. *)
LEMMA WorkerStepIs ==
  ASSUME TypeOK, NEW w \in Workers, WorkerStep(w) \/ CopyFiles(w)
  PROVE  /\ UNCHANGED <<lock, due, file, spent, lost>>
         /\ \A v \in Workers : v # w => work'[v] = work[v]
         /\ work[w].stage \in Active
         /\ work'[w].stage \in Active \/ (w \notin Ticks /\ work'[w].stage = "idle")
         /\ work'[w].stage = "recording" => w \in Ticks \/ work[w].stage = "recording"
         /\ work'[w].stage \in Active =>
              work'[w].key = work[w].key /\ work'[w].now = work[w].now /\ work'[w].keep = work[w].keep
<1> USE DEF TypeOK, ghosts, Tried, world, Becomes, Active
<1>1. work[w] \in Jobs
  OBVIOUS
<1>2. CASE CopyLands(w)
  BY <1>1, <1>2, AfterCopyIs, TRUE \in BOOLEAN, ZenonT(40) DEF CopyLands, Jobs
<1>3. CASE CopyFails(w) \/ EndPurge(w)
  <2>1. /\ work' = [work EXCEPT ![w] = AfterCopy(w, FALSE)] /\ work[w].stage \in Active
        /\ UNCHANGED <<lock, due, file, spent, lost>>
    BY <1>3 DEF CopyFails, EndPurge
  <2>2. work'[w] = AfterCopy(w, FALSE) /\ \A v \in Workers : v # w => work'[v] = work[v]
    BY <2>1
  <2> QED
    BY <1>1, <2>1, <2>2, AfterCopyIs, FALSE \in BOOLEAN, ZenonT(40) DEF Jobs
<1>4. CASE ListRuns(w)
  <2>1. CASE Becomes(w, AfterCopy(w, FALSE))
    <3>1. /\ work' = [work EXCEPT ![w] = AfterCopy(w, FALSE)] /\ work[w].stage \in Active
          /\ UNCHANGED <<lock, due, file, spent, lost>>
      BY <1>4, <2>1 DEF ListRuns
    <3>2. work'[w] = AfterCopy(w, FALSE) /\ \A v \in Workers : v # w => work'[v] = work[v]
      BY <3>1
    <3> QED
      BY <1>1, <3>1, <3>2, AfterCopyIs, FALSE \in BOOLEAN, ZenonT(40) DEF Jobs
  <2>2. ASSUME NEW S, Becomes(w, [work[w] EXCEPT !.stage = "purging", !.old = S])
        PROVE  /\ work'[w].stage = "purging" /\ work'[w].key = work[w].key
               /\ work'[w].now = work[w].now /\ work'[w].keep = work[w].keep
               /\ \A v \in Workers : v # w => work'[v] = work[v]
    BY <1>1, <2>2 DEF Jobs
  <2> QED
    BY <1>4, <2>1, <2>2 DEF ListRuns
<1>5. CASE \E s \in Never .. MaxClock : PurgeOne(w, s)
  BY <1>1, <1>5 DEF PurgeOne, Jobs
<1>6. CASE CopyFiles(w)
  BY <1>1, <1>6 DEF CopyFiles
<1> QED
  BY <1>2, <1>3, <1>4, <1>5, <1>6 DEF WorkerStep

LEMMA OneTickStep == TypeOK /\ OneTick /\ [Next]_vars => OneTick'
<1> SUFFICES ASSUME TypeOK, OneTick, [Next]_vars PROVE OneTick'
  OBVIOUS
<1> USE JobStages, WorkersAssumption DEF OneTick, Workers, Becomes, Active
<1>1. ASSUME NEW w \in Ticks, StartTick(w) PROVE OneTick'
  <2>1. \A v \in Ticks : work[v].stage = "idle" /\ due[v] = {}
    BY <1>1, NamesAssumption DEF StartTick, MayStart, NoOne
  <2>2. /\ work' = [work EXCEPT ![w] = AtNext(clock)] /\ lock' = w
        /\ \A v \in Ticks : v # w => due'[v] = due[v]
    BY <1>1 DEF StartTick, TypeOK
  <2> QED
    BY <2>1, <2>2 DEF TypeOK
<1>3. ASSUME NEW w \in Ticks, EndTick(w) PROVE OneTick'
  <2>1. lock = w /\ \A v \in Ticks : v # w => work[v].stage = "idle" /\ due[v] = {}
    BY <1>3 DEF EndTick
  <2>2. work' = [work EXCEPT ![w] = Idle] /\ due' = [due EXCEPT ![w] = {}]
    BY <1>3 DEF EndTick
  <2> QED
    BY <2>1, <2>2 DEF TypeOK
<1>4. ASSUME NEW w \in Ticks, NEW d \in due[w], StartRun(w, d) PROVE OneTick'
  BY <1>4 DEF StartRun, TypeOK
<1>7. ASSUME NEW w \in Workers, WorkerStep(w) \/ CopyFiles(w) PROVE OneTick'
  BY <1>7, WorkerStepIs
<1>8. ASSUME NEW w \in Ticks, RecordRun(w) PROVE OneTick'
  BY <1>8 DEF RecordRun, TypeOK
<1>9. ASSUME NEW w \in Hands, NEW k \in Keys, NEW n \in HandKeeps, StartByHand(w, k, n) PROVE OneTick'
  BY <1>9 DEF StartByHand, TypeOK
<1>13. CASE Crash
  BY <1>13 DEF Crash
<1>14. CASE \/ UNCHANGED vars \/ ReadSchedules \/ SaveSchedules \/ Minute \/ OpenUpgrade \/ CloseUpgrade
            \/ \E w \in Ticks : LeaveTick(w)
  BY <1>14 DEF vars, ReadSchedules, SaveSchedules, Minute, OpenUpgrade, CloseUpgrade, LeaveTick
<1> QED
  BY <1>1, <1>3, <1>4, <1>7, <1>8, <1>9, <1>13, <1>14 DEF Next, TickStep

-----------------------------------------------------------------------------
(* Retention. *)
Retains == OldIsOld /\ KeepIsMeant /\ ListingKeeps

(* A step adds runs, or deletes one that has enough newer ones. *)
LEMMA RunsStep ==
  ASSUME TypeOK, OneTick, OldIsOld, [Next]_vars, NEW k \in Keys
  PROVE  \/ runs[k] \subseteq runs'[k]
         \/ \E d \in Moments : Enough(runs[k], d) /\ runs'[k] = runs[k] \ {d}
<1>1. ASSUME NEW w \in Workers, NEW d \in Moments, PurgeOne(w, d)
      PROVE  runs[k] \subseteq runs'[k] \/ (Enough(runs[k], d) /\ runs'[k] = runs[k] \ {d})
  <2>1. Enough(runs[work[w].key], d)
    BY <1>1 DEF OldIsOld, PurgeOne
  <2>2. CASE runs' = [runs EXCEPT ![work[w].key] = @ \ {d}]
    BY <2>1, <2>2 DEF TypeOK
  <2>3. CASE UNCHANGED runs
    BY <2>3
  <2> QED
    BY <1>1, <2>2, <2>3 DEF PurgeOne, places
<1>2. ASSUME NEW w \in Workers, CopyFiles(w) \/ CopyLands(w) PROVE runs[k] \subseteq runs'[k]
  <2>1. runs' = [runs EXCEPT ![work[w].key] = @ \cup {work[w].now}]
    BY <1>2 DEF CopyFiles, CopyLands
  <2>2. runs \in [Keys -> SUBSET Moments]
    BY DEF TypeOK
  <2> QED
    BY <2>1, <2>2
<1>3. ASSUME NEW w \in Workers, CopyFails(w) \/ ListRuns(w) \/ EndPurge(w) PROVE UNCHANGED runs
  BY <1>3 DEF CopyFails, ListRuns, EndPurge, places
<1>4. ASSUME NEW w \in Workers, WorkerStep(w) \/ CopyFiles(w)
      PROVE  \/ runs[k] \subseteq runs'[k]
             \/ \E d \in Moments : Enough(runs[k], d) /\ runs'[k] = runs[k] \ {d}
  <2>1. CASE \E d \in Moments : PurgeOne(w, d)
    BY <1>1, <2>1
  <2>2. CASE CopyFiles(w) \/ CopyLands(w)
    BY <1>2, <2>2
  <2>3. CASE CopyFails(w) \/ ListRuns(w) \/ EndPurge(w)
    BY <1>3, <2>3
  <2> QED
    BY <1>4, <2>1, <2>2, <2>3 DEF WorkerStep, Moments
<1>5. ASSUME NEW w \in Ticks, StartTick(w) \/ EndTick(w) \/ RecordRun(w) \/ (\E d \in due[w] : StartRun(w, d))
      PROVE UNCHANGED runs
  BY <1>5 DEF StartTick, EndTick, RecordRun, StartRun, places
<1>6. ASSUME NEW w \in Hands, NEW x \in Keys, NEW n \in HandKeeps, StartByHand(w, x, n) PROVE UNCHANGED runs
  BY <1>6 DEF StartByHand, places
<1>7. CASE \/ UNCHANGED vars \/ ReadSchedules \/ SaveSchedules \/ Minute \/ OpenUpgrade \/ CloseUpgrade
           \/ Crash \/ \E w \in Ticks : LeaveTick(w)
  BY <1>7 DEF vars, ReadSchedules, SaveSchedules, Minute, OpenUpgrade, CloseUpgrade, Crash, LeaveTick,
              places
<1> QED
  BY <1>4, <1>5, <1>6, <1>7 DEF Next, TickStep, Workers

(* A job that deletes was already deleting, or lists what is there now. *)
LEMMA JobStep ==
  ASSUME TypeOK, OneTick, [Next]_vars, NEW w \in Workers, work'[w].stage = "purging"
  PROVE  \/ /\ work[w].stage = "purging" /\ work'[w].key = work[w].key
            /\ work'[w].old \subseteq work[w].old
         \/ /\ work[w].stage = "listing" /\ UNCHANGED runs /\ work'[w].key = work[w].key
            /\ work'[w].old = RunsToPurge(runs[work[w].key], work[w].keep)
<1> USE JobStages DEF TypeOK, Becomes
<1>1. work[w] \in Jobs
  OBVIOUS
<1>2. ASSUME NEW v \in Workers, v # w,
             \/ WorkerStep(v) \/ CopyFiles(v) \/ StartTick(v) \/ EndTick(v) \/ RecordRun(v)
             \/ (\E d \in due[v] : StartRun(v, d)) \/ \E k \in Keys, n \in HandKeeps : StartByHand(v, k, n)
      PROVE  work'[w] = work[w]
  <2>1. CASE WorkerStep(v) \/ CopyFiles(v)
    BY <1>2, <2>1, WorkerStepIs
  <2>2. CASE StartTick(v) \/ EndTick(v) \/ RecordRun(v)
    BY <1>2, <2>2 DEF StartTick, EndTick, RecordRun
  <2>3. CASE (\E d \in due[v] : StartRun(v, d)) \/ \E k \in Keys, n \in HandKeeps : StartByHand(v, k, n)
    BY <1>2, <2>3 DEF StartRun, StartByHand
  <2> QED
    BY <1>2, <2>1, <2>2, <2>3
<1>3. ASSUME \/ StartTick(w) \/ EndTick(w) \/ RecordRun(w) \/ (\E d \in due[w] : StartRun(w, d))
             \/ \E k \in Keys, n \in HandKeeps : StartByHand(w, k, n)
      PROVE  FALSE
  <2>1. CASE StartTick(w) \/ EndTick(w) \/ RecordRun(w)
    BY <2>1 DEF StartTick, EndTick, RecordRun
  <2>2. CASE (\E d \in due[w] : StartRun(w, d)) \/ \E k \in Keys, n \in HandKeeps : StartByHand(w, k, n)
    BY <2>2 DEF StartRun, StartByHand
  <2> QED
    BY <1>3, <2>1, <2>2
<1>4. CASE CopyFiles(w)
  BY <1>4 DEF CopyFiles
<1>5. CASE CopyLands(w)
  <2>1. work'[w] = AfterCopy(w, TRUE)
    BY <1>5 DEF CopyLands
  <2> QED
    BY <2>1, AfterCopyIs, TRUE \in BOOLEAN
<1>6. CASE CopyFails(w) \/ EndPurge(w)
  <2>1. work'[w] = AfterCopy(w, FALSE)
    BY <1>6 DEF CopyFails, EndPurge
  <2> QED
    BY <2>1, AfterCopyIs, FALSE \in BOOLEAN
<1>7. CASE ListRuns(w)
  <2>1. CASE Becomes(w, AfterCopy(w, FALSE))
    BY <2>1, AfterCopyIs, FALSE \in BOOLEAN, ZenonT(40)
  <2>2. CASE Becomes(w, [work[w] EXCEPT !.stage = "purging", !.old = RunsToPurge(runs[work[w].key], work[w].keep)])
    BY <1>1, <1>7, <2>2 DEF ListRuns, Jobs, places
  <2> QED
    BY <1>7, <2>1, <2>2 DEF ListRuns
<1>8. CASE \E s \in Moments : PurgeOne(w, s)
  <2>1. PICK s \in Moments : work[w].stage = "purging" /\ work' = [work EXCEPT ![w] = [work[w] EXCEPT !.old = work[w].old \ {s}]]
    BY <1>8 DEF PurgeOne
  <2>2. work'[w] = [work[w] EXCEPT !.old = work[w].old \ {s}]
    BY <2>1
  <2> QED
    BY <1>1, <2>1, <2>2 DEF Jobs
<1>9. CASE \/ UNCHANGED vars \/ ReadSchedules \/ SaveSchedules \/ Minute \/ OpenUpgrade \/ CloseUpgrade
           \/ \E v \in Ticks : LeaveTick(v)
  BY <1>9 DEF vars, ReadSchedules, SaveSchedules, Minute, OpenUpgrade, CloseUpgrade, LeaveTick
<1>10. CASE Crash
  BY <1>10 DEF Crash
<1> QED
  BY <1>2, <1>3, <1>4, <1>5, <1>6, <1>7, <1>8, <1>9, <1>10 DEF Next, TickStep, WorkerStep, Workers, Moments

LEMMA KeepStep == TypeOK /\ OneTick /\ Retains /\ [Next]_vars => KeepIsMeant' /\ ListingKeeps'
<1> SUFFICES ASSUME TypeOK, OneTick, Retains, [Next]_vars, NEW w \in Workers
             PROVE  /\ work'[w].stage \in Active => work'[w].keep \in Keeps \/ work'[w].keep <= 0
                    /\ work'[w].stage \in {"listing", "purging"} => work'[w].keep > 0
  BY DEF KeepIsMeant, ListingKeeps
<1> USE JobStages DEF Retains, KeepIsMeant, ListingKeeps, Becomes
<1>1. work[w] \in Jobs /\ work[w].keep \in Int
  BY DEF TypeOK, Jobs
<1>2. CASE work'[w] = work[w]
  BY <1>2
<1>3. CASE \E v \in Workers : WorkerStep(v) \/ CopyFiles(v)
  <2>1. PICK v \in Workers : WorkerStep(v) \/ CopyFiles(v)
    BY <1>3
  <2>2. CASE v # w
    BY <2>1, <2>2, <1>2, WorkerStepIs
  <2>3. CASE v = w
    <3>1. work'[w].stage \in Active => work[w].stage \in Active /\ work'[w].keep = work[w].keep
      BY <2>1, <2>3, WorkerStepIs
    <3>2. work'[w].stage = "purging" => work[w].stage \in {"listing", "purging"}
      BY JobStep
    <3>3. work'[w].stage = "listing" => work'[w].keep > 0
      <4>1. CASE \/ \E b \in BOOLEAN : work'[w] = AfterCopy(w, b)
        BY <4>1, <1>1, AfterCopyIs DEF Jobs
      <4>2. CASE CopyFiles(w)
        BY <4>2 DEF CopyFiles
      <4>3. CASE \E s \in Moments : PurgeOne(w, s)
        <5>1. work'[w].stage = "purging"
          BY <4>3, <1>1 DEF PurgeOne, Jobs, TypeOK
        <5> QED
          BY <5>1
      <4>4. CASE ListRuns(w)
        <5>1. CASE Becomes(w, AfterCopy(w, FALSE))
          BY <5>1, <4>1, FALSE \in BOOLEAN DEF TypeOK
        <5>2. ASSUME NEW S, Becomes(w, [work[w] EXCEPT !.stage = "purging", !.old = S])
              PROVE work'[w].stage = "purging"
          BY <5>2, <1>1 DEF TypeOK, Jobs
        <5> QED
          BY <4>4, <5>1, <5>2 DEF ListRuns
      <4>5. CASE CopyLands(w) \/ CopyFails(w) \/ EndPurge(w)
        <5>1. \E b \in BOOLEAN : work'[w] = AfterCopy(w, b)
          BY <4>5 DEF CopyLands, CopyFails, EndPurge, TypeOK
        <5> QED
          BY <5>1, <4>1
      <4> QED
        BY <2>1, <2>3, <4>2, <4>3, <4>4, <4>5 DEF WorkerStep, Moments
    <3> QED
      BY <3>1, <3>2, <3>3 DEF Active
  <2> QED
    BY <2>2, <2>3
<1>4. ASSUME NEW v \in Ticks, StartTick(v) \/ EndTick(v) \/ RecordRun(v)
      PROVE  work'[w] = work[w] \/ work'[w].stage \in {"idle", "next"}
  BY <1>4 DEF StartTick, EndTick, RecordRun, TypeOK
<1>5. ASSUME NEW v \in Ticks, NEW d \in due[v], StartRun(v, d)
      PROVE  work'[w] = work[w] \/ (work'[w].stage = "copying" /\ (work'[w].keep \in Keeps \/ work'[w].keep <= 0))
  <2>1. d.as.keep \in Keeps \/ d.as.keep <= 0
    BY ScheduleFields DEF TypeOK
  <2> QED
    BY <1>5, <2>1 DEF StartRun, TypeOK
<1>6. ASSUME NEW v \in Hands, NEW k \in Keys, NEW n \in HandKeeps, StartByHand(v, k, n)
      PROVE  work'[w] = work[w] \/ (work'[w].stage = "copying" /\ (work'[w].keep \in Keeps \/ work'[w].keep <= 0))
  <2>1. n \in Keeps \/ n <= 0
    BY BoundsAssumption DEF Keeps
  <2> QED
    BY <1>6, <2>1 DEF StartByHand, TypeOK
<1>7. CASE \/ UNCHANGED vars \/ ReadSchedules \/ SaveSchedules \/ Minute \/ OpenUpgrade \/ CloseUpgrade
           \/ \E v \in Ticks : LeaveTick(v)
  BY <1>2, <1>7 DEF vars, ReadSchedules, SaveSchedules, Minute, OpenUpgrade, CloseUpgrade, LeaveTick
<1>8. CASE Crash
  BY <1>8 DEF Crash, Active
<1>9. "idle" \notin Active /\ "next" \notin Active
  BY DEF Active
<1> QED
  BY <1>2, <1>3, <1>4, <1>5, <1>6, <1>7, <1>8, <1>9 DEF Next, TickStep, Workers

LEMMA OldStep == TypeOK /\ OneTick /\ Retains /\ [Next]_vars => OldIsOld'
<1> SUFFICES ASSUME TypeOK, OneTick, Retains, [Next]_vars,
                    NEW w \in Workers, work'[w].stage = "purging", NEW s \in work'[w].old
             PROVE  Enough(runs'[work'[w].key], s)
  BY DEF OldIsOld, Enough, Keeps
<1> DEFINE k == work[w].key
<1>1. work[w] \in Jobs /\ runs \in [Keys -> SUBSET Moments] /\ runs' \in [Keys -> SUBSET Moments]
  BY TypeStep DEF TypeOK
<1>2. CASE work[w].stage = "purging" /\ work'[w].key = k /\ work'[w].old \subseteq work[w].old
  <2>1. k \in Keys /\ s \in Moments /\ Enough(runs[k], s)
    BY <1>1, <1>2 DEF OneTick, Active, Retains, OldIsOld, Jobs
  <2>2. CASE runs[k] \subseteq runs'[k]
    BY <1>1, <1>2, <2>1, <2>2, EnoughGrows
  <2>3. CASE \E d \in Moments : Enough(runs[k], d) /\ runs'[k] = runs[k] \ {d}
    BY <1>1, <1>2, <2>1, <2>3, EnoughStays
  <2> QED
    BY <2>1, <2>2, <2>3, RunsStep DEF Retains
<1>3. CASE /\ work[w].stage = "listing" /\ UNCHANGED runs /\ work'[w].key = k
           /\ work'[w].old = RunsToPurge(runs[k], work[w].keep)
  <2>1. k \in Keys /\ work[w].keep \in Keeps
    BY <1>3 DEF OneTick, Active, Retains, KeepIsMeant, ListingKeeps, TypeOK, Jobs
  <2>2. Cardinality({t \in runs[k] : t > s}) >= work[w].keep
    BY <1>3 DEF RunsToPurge
  <2> QED
    BY <1>3, <2>1, <2>2 DEF Enough
<1> QED
  BY <1>2, <1>3, JobStep

-----------------------------------------------------------------------------
(* Slots. *)
LEMMA LeftTypes ==
  ASSUME TypeOK, NEW w \in Ticks, NEW d \in due[w]
  PROVE  d.key \in Keys /\ d.as \in Schedules /\ d.as.lastRun \in Moments /\ d = [key |-> d.key, as |-> d.as]
  BY ScheduleFields DEF TypeOK

LEMMA FileStep == TypeOK /\ OneTick /\ FileKnows /\ [Next]_vars => FileKnows'
<1> SUFFICES ASSUME TypeOK, OneTick, FileKnows, [Next]_vars, NEW k \in Keys, k \notin lost'
             PROVE  file'[k] # NoSchedule /\ spent'[k] <= file'[k].lastRun
  BY DEF FileKnows
<1>1. ASSUME UNCHANGED <<file, spent, lost>> PROVE file'[k] # NoSchedule /\ spent'[k] <= file'[k].lastRun
  BY <1>1 DEF FileKnows
<1>2. ASSUME NEW w \in Workers, WorkerStep(w) \/ CopyFiles(w) PROVE UNCHANGED <<file, spent, lost>>
  BY <1>2, WorkerStepIs
<1>3. ASSUME NEW w \in Ticks, StartTick(w) \/ EndTick(w) \/ LeaveTick(w) \/ (\E d \in due[w] : StartRun(w, d))
      PROVE  UNCHANGED <<file, spent, lost>>
  BY <1>3 DEF StartTick, EndTick, LeaveTick, StartRun, ghosts, vars
<1>4. ASSUME NEW w \in Hands, NEW x \in Keys, NEW n \in HandKeeps, StartByHand(w, x, n)
      PROVE UNCHANGED <<file, spent, lost>>
  BY <1>4 DEF StartByHand, ghosts
<1>5. CASE UNCHANGED vars \/ ReadSchedules \/ Minute \/ OpenUpgrade \/ CloseUpgrade \/ Crash
  BY <1>1, <1>5 DEF vars, ReadSchedules, Minute, OpenUpgrade, CloseUpgrade, Crash, ghosts
<1>6. ASSUME NEW w \in Ticks, RecordRun(w) PROVE file'[k] # NoSchedule /\ spent'[k] <= file'[k].lastRun
  <2>1. UNCHANGED lost /\ work[w].key \in Keys /\ work[w].now \in Moments /\ file[k] # NoSchedule /\ file[k] \in Schedules
    BY <1>6 DEF RecordRun, OneTick, Active, FileKnows, TypeOK, Jobs, Workers
  <2>2. CASE UNCHANGED <<file, spent>>
    BY <1>1, <2>1, <2>2
  <2>3. CASE file' = Recorded(w) /\ spent' = [spent EXCEPT ![work[w].key] = work[w].now]
    <3>1. CASE k = work[w].key
      <4>1. file' = [file EXCEPT ![k].lastRun = work[w].now] /\ spent'[k] = work[w].now
        BY <2>1, <2>3, <3>1 DEF Recorded, TypeOK
      <4>2. file'[k] = [file[k] EXCEPT !.lastRun = work[w].now]
        BY <4>1 DEF TypeOK
      <4>3. file'[k] \in Schedules /\ file'[k].lastRun = work[w].now
        <5>1. PICK x \in Settings, t \in Moments : file[k] = WithLastRun(x, t)
          BY <2>1 DEF Schedules, Moments
        <5> QED
          BY <2>1, <4>2, <5>1, ScheduleFields DEF WithLastRun
      <4> QED
        BY <2>1, <4>1, <4>3, ScheduleFields DEF Moments, Never
    <3>2. CASE k # work[w].key
      BY <2>1, <2>3, <3>2 DEF Recorded, FileKnows, TypeOK
    <3> QED
      BY <3>1, <3>2
  <2> QED
    BY <1>6, <2>2, <2>3 DEF RecordRun
<1>7. CASE SaveSchedules
  <2>1. PICK set \in [Keys -> Settings \cup {NoSchedule}] :
          file' = [x \in Keys |-> IF set[x] = NoSchedule THEN NoSchedule ELSE WithLastRun(set[x], owner.seen[x])]
    BY <1>7 DEF SaveSchedules
  <2>2. file'[k] # NoSchedule /\ ~(owner.seen[k] < spent[k]) /\ spent' = spent
    BY <1>7 DEF SaveSchedules
  <2>3. file'[k].lastRun = owner.seen[k]
    BY <2>1, <2>2 DEF WithLastRun
  <2> QED
    BY <2>2, <2>3 DEF TypeOK, Moments, Never
<1> QED
  BY <1>1, <1>2, <1>3, <1>4, <1>5, <1>6, <1>7 DEF Next, TickStep, Workers

LEMMA LeftStep == TypeOK /\ OneTick /\ LeftIsDue /\ FileKnows /\ [Next]_vars => LeftIsDue'
<1> SUFFICES ASSUME TypeOK, OneTick, LeftIsDue, FileKnows, [Next]_vars, NEW w \in Ticks
             PROVE  /\ \A d \in due'[w] :
                         /\ IsDue(d.as, work'[w].now)
                         /\ d.key \notin lost' => spent'[d.key] <= d.as.lastRun
                         /\ work'[w].stage \in Active => work'[w].key # d.key
                    /\ \A d, e \in due'[w] : d.key = e.key => d = e
  BY DEF LeftIsDue, IsDue, MostRecentSlot, SlotThatDay, StepsBack, WeekdayOf, DayOf
<1> USE JobStages DEF Becomes
<1>1. CASE due'[w] = {}
  BY <1>1
<1>2. ASSUME due'[w] \subseteq due[w], lost \subseteq lost', UNCHANGED spent, work'[w].now = work[w].now,
             work'[w].stage \in Active => work[w].stage \in Active /\ work'[w].key = work[w].key
      PROVE  /\ \A d \in due'[w] :
                  /\ IsDue(d.as, work'[w].now)
                  /\ d.key \notin lost' => spent'[d.key] <= d.as.lastRun
                  /\ work'[w].stage \in Active => work'[w].key # d.key
             /\ \A d, e \in due'[w] : d.key = e.key => d = e
  BY <1>2 DEF LeftIsDue
<1>3. ASSUME NEW v \in Workers, WorkerStep(v) \/ CopyFiles(v)
      PROVE  \/ due'[w] = {}
             \/ /\ due'[w] \subseteq due[w] /\ lost \subseteq lost' /\ UNCHANGED spent /\ work'[w].now = work[w].now
                /\ work'[w].stage \in Active => work[w].stage \in Active /\ work'[w].key = work[w].key
  BY <1>3, WorkerStepIs DEF Workers
<1>4. CASE StartTick(w)
  <2>1. work'[w] = AtNext(clock) /\ due'[w] = {[key |-> k, as |-> file[k]] : k \in DueSchedules}
        /\ UNCHANGED <<spent, lost>>
    BY <1>4 DEF StartTick, ghosts, TypeOK, Workers
  <2>2. work'[w].now = clock /\ work'[w].stage \notin Active
    BY <2>1 DEF Active
  <2>3. ASSUME NEW d \in due'[w]
        PROVE  d.key \in Keys /\ d.as = file[d.key] /\ IsDue(d.as, clock) /\ d = [key |-> d.key, as |-> file[d.key]]
    BY <2>1, <2>3 DEF DueSchedules, Scheduled
  <2> QED
    BY <2>1, <2>2, <2>3 DEF FileKnows
<1>5. ASSUME NEW d \in due[w], StartRun(w, d)
      PROVE  /\ \A x \in due'[w] :
                  /\ IsDue(x.as, work'[w].now)
                  /\ x.key \notin lost' => spent'[x.key] <= x.as.lastRun
                  /\ work'[w].stage \in Active => work'[w].key # x.key
             /\ \A x, y \in due'[w] : x.key = y.key => x = y
  <2>1. /\ work'[w].key = d.key /\ work'[w].now = work[w].now /\ due'[w] = due[w] \ {d}
        /\ UNCHANGED <<spent, lost>>
    BY <1>5 DEF StartRun, ghosts, TypeOK, Workers
  <2> QED
    BY <2>1 DEF LeftIsDue
<1>6. CASE RecordRun(w)
  <2>1. /\ work'[w].now = work[w].now /\ work'[w].stage \notin Active /\ UNCHANGED <<due, lost>>
        /\ work[w].stage \in Active
    BY <1>6 DEF RecordRun, ghosts, TypeOK, Workers, Active
  <2>2. \A k \in Keys : k # work[w].key => spent'[k] = spent[k]
    BY <1>6 DEF RecordRun, TypeOK
  <2>3. \A d \in due[w] : d.key \in Keys
    BY LeftTypes
  <2> QED
    BY <2>1, <2>2, <2>3 DEF LeftIsDue
<1>7. ASSUME NEW v \in Ticks, v # w, StartTick(v) \/ EndTick(v) \/ RecordRun(v) \/ (\E d \in due[v] : StartRun(v, d))
      PROVE  due'[w] = {}
  <2>1. due[w] = {}
    <3>1. CASE StartTick(v)
      BY <3>1, NamesAssumption DEF StartTick, MayStart, OneTick, NoOne
    <3>2. CASE work[v].stage # "idle"
      BY <1>7, <3>2 DEF OneTick
    <3> QED
      BY <1>7, <3>1, <3>2 DEF EndTick, RecordRun, StartRun
  <2>2. due'[w] = due[w]
    <3>1. CASE RecordRun(v)
      BY <3>1 DEF RecordRun
    <3>2. CASE StartTick(v) \/ EndTick(v)
      BY <1>7, <3>2 DEF StartTick, EndTick, TypeOK
    <3>3. CASE \E d \in due[v] : StartRun(v, d)
      BY <1>7, <3>3 DEF StartRun, TypeOK
    <3> QED
      BY <1>7, <3>1, <3>2, <3>3
  <2> QED
    BY <2>1, <2>2
<1>8. CASE EndTick(w)
  BY <1>1, <1>8 DEF EndTick, TypeOK
<1>9. ASSUME NEW v \in Hands, NEW k \in Keys, NEW n \in HandKeeps, StartByHand(v, k, n)
      PROVE  due' = due /\ UNCHANGED <<spent, lost>> /\ work'[w] = work[w]
  BY <1>9, WorkersAssumption DEF StartByHand, ghosts, TypeOK, Workers
<1>10. CASE \/ UNCHANGED vars \/ ReadSchedules \/ SaveSchedules \/ Minute \/ OpenUpgrade \/ CloseUpgrade
            \/ \E v \in Ticks : LeaveTick(v)
  <2>1. due' = due /\ work' = work /\ UNCHANGED spent /\ lost \subseteq lost'
    BY <1>10 DEF vars, ReadSchedules, SaveSchedules, Minute, OpenUpgrade, CloseUpgrade, LeaveTick, ghosts
  <2> QED
    BY <1>2, <2>1
<1>11. CASE Crash
  BY <1>1, <1>11 DEF Crash
<1> QED
  BY <1>1, <1>2, <1>3, <1>4, <1>5, <1>6, <1>7, <1>8, <1>9, <1>10, <1>11 DEF Next, TickStep, Workers

(* Only a copy that comes to its end changes what was tried, to its moment.  *)
LEMMA TriedStep == TypeOK /\ OneTick /\ TriedFirst /\ [Next]_vars => TriedFirst'
<1> SUFFICES ASSUME TypeOK, OneTick, TriedFirst, [Next]_vars, NEW w \in Ticks,
                    work'[w].stage \in Active \ {"copying"}
             PROVE  tried'[work'[w].key] = work'[w].now
  BY DEF TriedFirst
<1> USE JobStages DEF ghosts, Becomes
<1>1. w \in Workers /\ work \in [Workers -> Jobs] /\ tried \in [Keys -> Moments]
  BY DEF Workers, TypeOK
<1>2. ASSUME work'[w] = work[w], UNCHANGED tried PROVE tried'[work'[w].key] = work'[w].now
  BY <1>2 DEF TriedFirst
<1>3. ASSUME NEW v \in Workers, WorkerStep(v) \/ CopyFiles(v) PROVE tried'[work'[w].key] = work'[w].now
  <2>1. /\ v # w => work'[w] = work[w] /\ work[v].stage \in Active
        /\ v = w => work[w].stage \in Active /\ work'[w].key = work[w].key /\ work'[w].now = work[w].now
    BY <1>1, <1>3, WorkerStepIs
  <2>2. v # w => v \notin Ticks
    BY <2>1 DEF OneTick, Active
  <2>3. work[v].key \in Keys
    BY <1>1, <1>3, WorkerStepIs DEF OneTick
  <2>4. CASE CopyLands(v) \/ CopyFails(v)
    <3>1. tried' = IF v \in Ticks THEN [tried EXCEPT ![work[v].key] = work[v].now] ELSE tried
      BY <2>4 DEF CopyLands, CopyFails, Tried
    <3>2. CASE v = w
      BY <1>1, <2>1, <2>3, <3>1, <3>2
    <3>3. CASE v # w
      BY <1>2, <2>1, <2>2, <3>1, <3>3
    <3> QED BY <3>2, <3>3
  <2>5. CASE ListRuns(v) \/ EndPurge(v) \/ CopyFiles(v) \/ \E x \in Never .. MaxClock : PurgeOne(v, x)
    <3>1. UNCHANGED tried
      BY <2>5 DEF ListRuns, EndPurge, CopyFiles, PurgeOne
    <3>2. CASE v = w
      <4>1. ~CopyFiles(w)
        BY <1>1, <3>2 DEF CopyFiles
      <4>2. work[w].stage # "copying"
        BY <2>5, <3>2, <4>1 DEF ListRuns, EndPurge, PurgeOne
      <4> QED BY <2>1, <3>1, <3>2, <4>2 DEF TriedFirst
    <3>3. CASE v # w
      BY <1>2, <2>1, <3>1, <3>3
    <3> QED BY <3>2, <3>3
  <2> QED BY <1>3, <2>4, <2>5 DEF WorkerStep
<1>4. ASSUME NEW v \in Ticks, StartTick(v) \/ EndTick(v) \/ RecordRun(v) \/ \E d \in due[v] : StartRun(v, d)
      PROVE  tried'[work'[w].key] = work'[w].now
  <2>1. UNCHANGED tried /\ v # w => work'[w] = work[w]
    BY <1>1, <1>4 DEF StartTick, EndTick, RecordRun, StartRun, Workers
  <2>2. v = w => work'[w].stage \in {"next", "idle", "copying"}
    BY <1>1, <1>4 DEF StartTick, EndTick, RecordRun, StartRun
  <2> QED BY <1>2, <1>4, <2>1, <2>2 DEF StartTick, EndTick, RecordRun, StartRun, Active
<1>5. ASSUME NEW v \in Hands, NEW x \in Keys, NEW n \in HandKeeps, StartByHand(v, x, n)
      PROVE  tried'[work'[w].key] = work'[w].now
  BY <1>1, <1>2, <1>5, WorkersAssumption DEF StartByHand, Workers
<1>6. CASE Crash
  BY <1>1, <1>6 DEF Crash, Active
<1>7. CASE \/ UNCHANGED vars \/ ReadSchedules \/ SaveSchedules \/ Minute \/ OpenUpgrade \/ CloseUpgrade
           \/ \E v \in Ticks : LeaveTick(v)
  BY <1>2, <1>7 DEF vars, ReadSchedules, SaveSchedules, Minute, OpenUpgrade, CloseUpgrade, LeaveTick
<1> QED
  BY <1>3, <1>4, <1>5, <1>6, <1>7 DEF Next, TickStep, Workers

-----------------------------------------------------------------------------
LEMMA SchedulerInit == Init => SchedulerInv
<1> SUFFICES ASSUME Init PROVE SchedulerInv
  OBVIOUS
<1>1. TypeOK
  BY TypeInit
<1>2. OneTick /\ OldIsOld /\ KeepIsMeant /\ ListingKeeps /\ LeftIsDue /\ TriedFirst
  BY JobStages DEF Init, OneTick, OldIsOld, KeepIsMeant, ListingKeeps, LeftIsDue, TriedFirst, Active, Workers
<1>3. FileKnows
  BY ScheduleFields, <1>1, ClockStarts DEF Init, FileKnows, TypeOK, WithLastRun, NoSchedule, Never
<1> QED
  BY <1>1, <1>2, <1>3 DEF SchedulerInv

(* The invariant holds through every tick, save, backup by hand and kill.    *)
THEOREM SchedulerInvHolds == Spec => []SchedulerInv
<1>1. SchedulerInv /\ [Next]_vars => SchedulerInv'
  BY TypeStep, OneTickStep, KeepStep, OldStep, FileStep, LeftStep, TriedStep DEF SchedulerInv, Retains
<1> QED
  BY <1>1, SchedulerInit, PTL DEF Spec

(* Types, for every calendar and every set of schedules and goroutines. *)
THEOREM SchedulerTypeOK == Spec => []TypeOK
<1>1. SchedulerInv => TypeOK
  BY DEF SchedulerInv
<1> QED
  BY <1>1, SchedulerInvHolds, PTL

(* A run whose end was recorded is not run again for the same slot. *)
THEOREM SlotsRunOnce == Spec => SlotRunsOnce
<1>1. ASSUME SchedulerInv, [Next]_vars, NEW w \in Ticks, work[w].stage = "next",
             work'[w].stage = "copying", work'[w].key \notin lost
      PROVE  spent[work'[w].key] < MostRecentSlot(work'[w].as, work'[w].now)
  <2> USE JobStages DEF SchedulerInv, Becomes
  <2>1. \A v \in Workers : WorkerStep(v) \/ CopyFiles(v) => v # w /\ work'[w] = work[w]
    BY <1>1, WorkerStepIs DEF Active, Workers
  <2>2. \A v \in Ticks : StartTick(v) \/ EndTick(v) \/ RecordRun(v) => FALSE
    BY <1>1 DEF StartTick, EndTick, RecordRun, TypeOK, Workers
  <2>3. \A v \in Hands, k \in Keys, n \in HandKeeps : StartByHand(v, k, n) => FALSE
    BY <1>1, WorkersAssumption DEF StartByHand, TypeOK, Workers
  <2>4. ~(\/ UNCHANGED vars \/ ReadSchedules \/ SaveSchedules \/ Minute \/ OpenUpgrade \/ CloseUpgrade
          \/ Crash \/ \E v \in Ticks : LeaveTick(v))
    BY <1>1 DEF vars, ReadSchedules, SaveSchedules, Minute, OpenUpgrade, CloseUpgrade, Crash, LeaveTick,
                Workers
  <2>5. \E d \in due[w] : StartRun(w, d)
    <3>1. \A v \in Ticks : v # w => ~\E d \in due[v] : StartRun(v, d)
      BY <1>1 DEF StartRun, TypeOK, Workers
    <3> QED
      BY <1>1, <2>1, <2>2, <2>3, <2>4, <3>1 DEF Next, TickStep, Workers
  <2>6. PICK d \in due[w] : StartRun(w, d)
    BY <2>5
  <2>7. work'[w].key = d.key /\ work'[w].as = d.as /\ work'[w].now = work[w].now
    BY <1>1, <2>6 DEF StartRun, TypeOK, Workers
  <2>8. spent[d.key] <= d.as.lastRun /\ d.as.lastRun < MostRecentSlot(d.as, work[w].now)
    BY <1>1, <2>7 DEF LeftIsDue, IsDue
  <2>9. /\ spent[d.key] \in Int /\ d.as.lastRun \in Int
        /\ MostRecentSlot(d.as, work[w].now) \in Int
    <3>1. d.key \in Keys /\ d.as \in Schedules /\ d.as.lastRun \in Moments
      BY <1>1, LeftTypes
    <3>2. work[w].now \in Moments /\ spent[d.key] \in Moments
      BY <1>1, <3>1 DEF TypeOK, Jobs, Workers
    <3> QED
      BY <3>1, <3>2, SlotIsInt DEF Moments, Never
  <2> QED
    BY <2>7, <2>8, <2>9
<1>2. SchedulerInv /\ [Next]_vars =>
        [\A w \in Ticks :
           LET job == work'[w] IN
           work[w].stage = "next" /\ job.stage = "copying" /\ job.key \notin lost
             => spent[job.key] < MostRecentSlot(job.as, job.now)]_vars
  BY <1>1
<1> QED
  BY <1>2, SchedulerInvHolds, PTL DEF Spec, SlotRunsOnce

(* However many retentions overlap, each deletion leaves newer runs behind. *)
THEOREM RetentionKeepsTheNewest == Spec => NewestStay
<1>1. ASSUME SchedulerInv, [Next]_vars, NEW k \in Keys, NEW s \in runs[k] \ runs'[k]
      PROVE  \E n \in Keeps : Cardinality({t \in runs'[k] : t > s}) >= n
  <2>1. PICK d \in Moments : Enough(runs[k], d) /\ runs'[k] = runs[k] \ {d}
    BY <1>1, RunsStep DEF SchedulerInv
  <2>2. s = d /\ s \in Moments
    BY <2>1
  <2>3. Enough(runs'[k], s)
    BY <1>1, <2>1, <2>2, EnoughStays DEF SchedulerInv, TypeOK
  <2> QED
    BY <2>3 DEF Enough
<1>2. SchedulerInv /\ [Next]_vars =>
        [\A k \in Keys : \A s \in runs[k] \ runs'[k] :
           \E n \in Keeps : Cardinality({t \in runs'[k] : t > s}) >= n]_vars
  BY <1>1
<1> QED
  BY <1>2, SchedulerInvHolds, PTL DEF Spec, NewestStay

(* Nothing but the owner's save changes what the owner set. *)
THEOREM OwnersSaveStands == Spec => OwnerSaveStands
<1>1. ASSUME SchedulerInv, [Next]_vars, NEW k \in Keys, AsSet(file'[k]) # AsSet(file[k])
      PROVE  owner.saving /\ ~owner'.saving
  <2> USE DEF SchedulerInv
  <2>1. UNCHANGED file => FALSE
    BY <1>1
  <2>2. \A w \in Workers : ~(WorkerStep(w) \/ CopyFiles(w))
    BY <1>1, <2>1, WorkerStepIs
  <2>3. ASSUME NEW w \in Ticks, RecordRun(w) PROVE FALSE
    <3>1. file' = Recorded(w) /\ work[w].key \in Keys /\ work[w].now \in Moments /\ file[work[w].key] # NoSchedule
      BY <1>1, <2>1, <2>3 DEF RecordRun, Recorded, OneTick, Active, TypeOK, Jobs, Workers
    <3>2. k = work[w].key /\ file'[k] = [file[k] EXCEPT !.lastRun = work[w].now]
      BY <1>1, <3>1 DEF Recorded, TypeOK
    <3>3. file[k] \in Schedules
      BY <1>1, <3>1, <3>2 DEF TypeOK
    <3>4. file'[k] \in Schedules
      BY <3>1, <3>2, <3>3, ScheduleFields
    <3>5. [file'[k] EXCEPT !.lastRun = Never] = [file[k] EXCEPT !.lastRun = Never]
      BY <3>2
    <3> QED
      BY <1>1, <3>3, <3>4, <3>5, NoScheduleIsNone DEF AsSet
  <2>4. SaveSchedules
    BY <1>1, <2>1, <2>2, <2>3
    DEF Next, TickStep, Workers, StartTick, LeaveTick, EndTick, StartRun, StartByHand, ReadSchedules,
        Minute, OpenUpgrade, CloseUpgrade, Crash, vars
  <2> QED
    BY <2>4 DEF SaveSchedules, NotSaving
<1>2. SchedulerInv /\ [Next]_vars =>
        [\A k \in Keys : AsSet(file'[k]) # AsSet(file[k]) => owner.saving /\ ~owner'.saving]_vars
  BY <1>1
<1> QED
  BY <1>2, SchedulerInvHolds, PTL DEF Spec, OwnerSaveStands

-----------------------------------------------------------------------------
(* The hold and its note, for every set of apps and containers, whatever     *)
(* calls fail and however often the process is killed.                       *)
Holds == {"stopping", "copying", "releasing"}
StillOwed(a) == Of(a) \cap (owed \ excused)

(* Which stages go with which state of the process. *)
ProcStage ==
  /\ proc = "down" => \A a \in HeldApps : stage[a] = "idle"
  /\ proc = "recovering" => \A a \in HeldApps : stage[a] \in {"idle", "recovering"}
  /\ proc = "running" => \A a \in HeldApps : stage[a] # "recovering"

(* What a hold remembers belongs to its app, and to what it listed. *)
OwnContainers ==
  \A a \in HeldApps :
    /\ listed[a] \subseteq Of(a) /\ stopped[a] \subseteq Of(a) /\ note[a] \subseteq Of(a)
    /\ stage[a] \in {"idle", "listed"} => stopped[a] = {}
    /\ stage[a] = "recovering" => stopped[a] \subseteq note[a]

(* While the process lives, what is owed is what the hold, or the recovery,  *)
(* still has to start; before the stops begin it is noted or excused.        *)
OwedIsHeld ==
  \A a \in HeldApps :
    /\ proc # "down" => StillOwed(a) \subseteq stopped[a]
    /\ stage[a] = "stopping" => listed[a] \subseteq note[a] \cup excused
    /\ stage[a] \in Holds => stopped[a] \subseteq owed /\ stopped[a] \cap up = {}
    /\ stage[a] = "copying" => listed[a] \subseteq stopped[a]

(* A noted container that does not run is owed. *)
NoteIsOwed ==
  \A a \in HeldApps : note[a] \ up \subseteq owed /\ (stage[a] = "listed" => listed[a] \subseteq up)

HoldInv == HoldTypes /\ ProcStage /\ OwnContainers /\ OwedIsHeld /\ NoteIsOwed /\ OwedIsNoted

LEMMA HoldStarts == HoldInit => HoldInv
  BY KillsAssumption, OwnerOfAssumption
  DEF HoldInit, HoldInv, HoldTypes, ProcStage, OwnContainers, OwedIsHeld, NoteIsOwed, OwedIsNoted,
      StillOwed, Holds, Of, NoNote

LEMMA HoldStepKeeps == HoldInv /\ [HoldNext]_holdVars => HoldInv'
<1> SUFFICES ASSUME HoldInv, [HoldNext]_holdVars PROVE HoldInv'
  OBVIOUS
<1> USE OwnerOfAssumption, KillsAssumption DEF HoldInv, holdGhosts, Goes
<1>1. ASSUME NEW a \in HeldApps, ListContainers(a) PROVE HoldInv'
  BY <1>1 DEF ListContainers, RunningContainers, HoldTypes, ProcStage, OwnContainers, OwedIsHeld,
              NoteIsOwed, OwedIsNoted, StillOwed, Holds, Of
<1>2. ASSUME NEW a \in HeldApps, RememberHeld(a) PROVE HoldInv'
  BY <1>2 DEF RememberHeld, Remembered, HoldTypes, ProcStage, OwnContainers, OwedIsHeld,
              NoteIsOwed, OwedIsNoted, StillOwed, Holds, Of
<1>3. ASSUME NEW a \in HeldApps, NEW c \in Containers, StopOne(a, c) PROVE HoldInv'
  BY <1>3 DEF StopOne, HoldTypes, ProcStage, OwnContainers, OwedIsHeld,
              NoteIsOwed, OwedIsNoted, StillOwed, Holds, Of
<1>4. ASSUME NEW a \in HeldApps, NEW c \in Containers, StopFails(a, c) PROVE HoldInv'
  BY <1>4 DEF StopFails, AfterFailedStop, HoldTypes, ProcStage, OwnContainers, OwedIsHeld,
              NoteIsOwed, OwedIsNoted, StillOwed, Holds, Of
<1>5. ASSUME NEW a \in HeldApps, CancelHold(a) \/ CopyBegins(a) \/ CopyEnds(a) PROVE HoldInv'
  BY <1>5 DEF CancelHold, CopyBegins, CopyEnds, HoldTypes, ProcStage, OwnContainers, OwedIsHeld,
              NoteIsOwed, OwedIsNoted, StillOwed, Holds, Of
<1>6. ASSUME NEW a \in HeldApps, NEW c \in Containers, StartOne(a, c) PROVE HoldInv'
  BY <1>6 DEF StartOne, HoldTypes, ProcStage, OwnContainers, OwedIsHeld,
              NoteIsOwed, OwedIsNoted, StillOwed, Holds, Of
<1>7. ASSUME NEW a \in HeldApps, ForgetHeld(a) PROVE HoldInv'
  BY <1>7 DEF ForgetHeld, Forgotten, NoNote, HoldTypes, ProcStage, OwnContainers, OwedIsHeld,
              NoteIsOwed, OwedIsNoted, StillOwed, Holds, Of
<1>8. CASE KilledInHold
  BY <1>8 DEF KilledInHold, HoldTypes, ProcStage, OwnContainers, OwedIsHeld,
              NoteIsOwed, OwedIsNoted, StillOwed, Holds, Of
<1>9. CASE Boot
  BY <1>9 DEF Boot, NoNote, HoldTypes, ProcStage, OwnContainers, OwedIsHeld,
              NoteIsOwed, OwedIsNoted, StillOwed, Holds, Of
<1>10. CASE BootUnread
  BY <1>10 DEF BootUnread, HoldTypes, ProcStage, OwnContainers, OwedIsHeld,
              NoteIsOwed, OwedIsNoted, StillOwed, Holds, Of
<1>11. ASSUME NEW a \in HeldApps, NEW c \in Containers, RecoverOne(a, c) PROVE HoldInv'
  BY <1>11 DEF RecoverOne, HoldTypes, ProcStage, OwnContainers, OwedIsHeld,
              NoteIsOwed, OwedIsNoted, StillOwed, Holds, Of
<1>12. ASSUME NEW a \in HeldApps, EndRecovery(a) PROVE HoldInv'
  BY <1>12 DEF EndRecovery, Forgotten, NoNote, HoldTypes, ProcStage, OwnContainers, OwedIsHeld,
              NoteIsOwed, OwedIsNoted, StillOwed, Holds, Of
<1>13. CASE Serve
  BY <1>13 DEF Serve, HoldTypes, ProcStage, OwnContainers, OwedIsHeld,
              NoteIsOwed, OwedIsNoted, StillOwed, Holds, Of
<1>14. CASE UNCHANGED holdVars
  BY <1>14 DEF holdVars, HoldTypes, ProcStage, OwnContainers, OwedIsHeld,
              NoteIsOwed, OwedIsNoted, StillOwed, Holds, Of
<1> QED
  BY <1>1, <1>2, <1>3, <1>4, <1>5, <1>6, <1>7, <1>8, <1>9, <1>10, <1>11, <1>12, <1>13, <1>14
  DEF HoldNext, HoldStep, RecoveryStep

(* The invariant holds in every state of every hold, kill and recovery.      *)
THEOREM HoldInvHolds == HoldSpec => []HoldInv
<1>1. HoldInit => HoldInv
  BY HoldStarts
<1>2. HoldInv /\ [HoldNext]_holdVars => HoldInv'
  BY HoldStepKeeps
<1> QED
  BY <1>1, <1>2, PTL DEF HoldSpec

(* The note, the hold and what docker runs stay of their types. *)
THEOREM HoldTypeOK == HoldSpec => []HoldTypes
<1>1. HoldInv => HoldTypes
  BY DEF HoldInv
<1> QED
  BY <1>1, HoldInvHolds, PTL

(* Whenever the process is killed, what a hold stopped is in holding.json,   *)
(* unless a call about that very container failed.                           *)
THEOREM HoldIsNoted == HoldSpec => []OwedIsNoted
<1>1. HoldInv => OwedIsNoted
  BY DEF HoldInv
<1> QED
  BY <1>1, HoldInvHolds, PTL

(* Neither a release nor a recovery starts a container under a running copy. *)
THEOREM CopyIsStill == HoldSpec => []HeldStill
<1>1. HoldInv => HeldStill
  BY DEF HoldInv, OwedIsHeld, HeldStill, Holds
<1> QED
  BY <1>1, HoldInvHolds, PTL

(* Only a container that a hold stopped is ever started. *)
LEMMA StartedWasOwed == HoldInv /\ [HoldNext]_holdVars => up' \ up \subseteq owed
<1> SUFFICES ASSUME HoldInv, [HoldNext]_holdVars PROVE up' \ up \subseteq owed
  OBVIOUS
<1>1. ASSUME NEW a \in HeldApps, NEW c \in Containers, StartOne(a, c) PROVE up' \ up \subseteq owed
  BY <1>1 DEF StartOne, HoldInv, OwedIsHeld, Holds, HoldTypes
<1>2. ASSUME NEW a \in HeldApps, NEW c \in Containers, RecoverOne(a, c) PROVE up' \ up \subseteq owed
  BY <1>2 DEF RecoverOne, HoldInv, OwnContainers, NoteIsOwed, HoldTypes
<1>3. ASSUME NEW a \in HeldApps, NEW c \in Containers, StopOne(a, c) \/ StopFails(a, c)
      PROVE up' \ up \subseteq owed
  BY <1>3 DEF StopOne, StopFails
<1>4. ASSUME NEW a \in HeldApps,
             ListContainers(a) \/ RememberHeld(a) \/ CancelHold(a) \/ CopyBegins(a) \/ CopyEnds(a)
               \/ ForgetHeld(a) \/ EndRecovery(a)
      PROVE up' \ up \subseteq owed
  BY <1>4 DEF ListContainers, RememberHeld, CancelHold, CopyBegins, CopyEnds, ForgetHeld, EndRecovery
<1>5. CASE KilledInHold \/ Boot \/ BootUnread \/ Serve \/ UNCHANGED holdVars
  BY <1>5 DEF KilledInHold, Boot, BootUnread, Serve, holdVars
<1> QED
  BY <1>1, <1>2, <1>3, <1>4, <1>5 DEF HoldNext, HoldStep, RecoveryStep

(* The action property of the runs, from the invariant. *)
THEOREM HoldStartsOnlyWhatItStopped == HoldSpec => StartsOnlyWhatItStopped
<1>1. HoldInv /\ [HoldNext]_holdVars => [up' \ up \subseteq owed]_holdVars
  BY StartedWasOwed
<1> QED
  BY <1>1, HoldInvHolds, PTL DEF HoldSpec, StartsOnlyWhatItStopped

-----------------------------------------------------------------------------
(***************************************************************************)
(* The calendar. A slot is a day and the time of day; between the slot and *)
(* the next, a day or a week of days later, nothing fires.                 *)
(***************************************************************************)
(* A multiple that is larger is larger by one at least.                      *)
LEMMA Grows ==
  ASSUME NEW D \in Nat \ {0}, NEW p \in Int, NEW q \in Int, p < q
  PROVE  p * D + D <= q * D
<1>1. q - p - 1 \in Nat
  OBVIOUS
<1>2. \A a, b \in Nat : a * b \in Nat
  OBVIOUS
<1>3. (q - p - 1) * D \in Nat
  BY <1>1, <1>2
<1>4. (q - p - 1) * D = q * D - p * D - D
  OBVIOUS
<1> QED BY <1>3, <1>4

(* Division with a rest, and back.                                          *)
LEMMA DivisionIs ==
  ASSUME NEW D \in Nat \ {0}, NEW t \in Int
  PROVE  t \div D \in Int /\ (t % D) \in 0 .. D - 1 /\ t = (t \div D) * D + (t % D)
OBVIOUS

LEMMA Joined ==
  ASSUME NEW D \in Nat \ {0}, NEW q \in Int, NEW r \in 0 .. D - 1
  PROVE  (q * D + r) \div D = q /\ (q * D + r) % D = r
OBVIOUS

LEMMA Around ==
  ASSUME NEW D \in Nat \ {0}, NEW r \in 0 .. D - 1
  PROVE  r % D = r /\ (r + D) % D = r
OBVIOUS

(* What a schedule asks for.                                                *)
Rules ==
  [every : {"daily", "weekly"}, at : 0 .. Day - 1, weekday : 0 .. Week - 1, enabled : BOOLEAN,
   lastRun : Int]

(* A moment the schedule fires at is its time on a day of its weekday.       *)
LEMMA FiresOn ==
  ASSUME NEW s \in Rules, NEW d \in Int
  PROVE  /\ d * Day + s.at \in Int
         /\ Fires(s, d * Day + s.at) <=> (s.every = "weekly" => d % Week = s.weekday)
<1>1. s.at \in 0 .. Day - 1 /\ Day \in Nat \ {0}
  BY CalendarAssumption DEF Rules
<1> DEFINE x == d * Day + s.at
<1>2. x \in Int /\ x \div Day = d /\ x % Day = s.at
  BY <1>1
<1> HIDE DEF x
<1>3. Fires(s, x) <=> (s.every = "weekly" => d % Week = s.weekday)
  BY <1>2 DEF Fires, WeekdayOf, DayOf
<1> QED BY <1>2, <1>3 DEF x

LEMMA FiresIs ==
  ASSUME NEW s \in Rules, NEW t \in Int, Fires(s, t)
  PROVE  t = DayOf(t) * Day + s.at /\ DayOf(t) \in Int /\ (s.every = "weekly" => DayOf(t) % Week = s.weekday)
BY CalendarAssumption, DivisionIs DEF Fires, WeekdayOf, DayOf, Rules

(* Daily: the last of the days whose time is not after now.                  *)
LEMMA DailySlot ==
  ASSUME NEW s \in Rules, NEW t \in Int, s.every = "daily"
  PROVE  \E d \in Int : /\ MostRecentSlot(s, t) = d * Day + s.at
                        /\ d * Day + s.at <= t /\ t < d * Day + Day + s.at
<1> DEFINE q == t \div Day
<1>1. q \in Int /\ (t % Day) \in 0 .. Day - 1 /\ t = q * Day + (t % Day) /\ s.at \in 0 .. Day - 1 /\ Day \in Nat \ {0}
  BY CalendarAssumption, DivisionIs DEF Rules
<1>2. MostRecentSlot(s, t) = IF q * Day + s.at > t THEN q * Day + s.at - Day ELSE q * Day + s.at
  <2>1. SlotThatDay(s, t) = q * Day + s.at
    BY DEF SlotThatDay, DayOf
  <2>2. MostRecentSlot(s, t) = IF SlotThatDay(s, t) > t THEN SlotThatDay(s, t) - Day ELSE SlotThatDay(s, t)
    BY Zenon DEF MostRecentSlot
  <2> HIDE DEF q
  <2> QED BY <1>1, <2>1, <2>2
<1> HIDE DEF q
<1>3. CASE q * Day + s.at > t
  <2>1. (q - 1) * Day = q * Day - Day /\ q - 1 \in Int
    BY <1>1
  <2>2. MostRecentSlot(s, t) = (q - 1) * Day + s.at
    BY <1>1, <1>2, <1>3, <2>1
  <2>3. (q - 1) * Day + s.at <= t /\ t < (q - 1) * Day + Day + s.at
    BY <1>1, <1>3, <2>1
  <2> QED BY <2>1, <2>2, <2>3
<1>4. CASE q * Day + s.at <= t
  BY <1>1, <1>2, <1>4
<1> QED BY <1>1, <1>3, <1>4

(* Weekly: of the days of its weekday.                                       *)
LEMMA WeeklySlot ==
  ASSUME NEW s \in Rules, NEW t \in Int, s.every = "weekly"
  PROVE  \E d \in Int : /\ MostRecentSlot(s, t) = d * Day + s.at /\ d % Week = s.weekday
                        /\ d * Day + s.at <= t /\ t < (d + Week) * Day + s.at
<1> DEFINE q == t \div Day
           a == q \div Week
           m == q % Week
           back == (m - s.weekday + Week) % Week
           b == IF m >= s.weekday THEN a ELSE a - 1
           d == b * Week + s.weekday
<1>1. /\ q \in Int /\ (t % Day) \in 0 .. Day - 1 /\ t = q * Day + (t % Day)
      /\ s.at \in 0 .. Day - 1 /\ Day \in Nat \ {0} /\ s.weekday \in 0 .. Week - 1 /\ Week \in Nat \ {0}
  BY CalendarAssumption, DivisionIs DEF Rules
<1>2. a \in Int /\ m \in 0 .. Week - 1 /\ q = a * Week + m
  BY <1>1, DivisionIs
<1>3. (q * Day + s.at) \div Day = q
  BY <1>1, Joined
<1>4. MostRecentSlot(s, t) = LET thatWeek == q * Day + s.at - back * Day
                             IN  IF thatWeek > t THEN thatWeek - Week * Day ELSE thatWeek
  <2>1. SlotThatDay(s, t) = q * Day + s.at
    BY DEF SlotThatDay, DayOf
  <2>2. StepsBack(s, q * Day + s.at) = back
    BY <1>3 DEF StepsBack, WeekdayOf, DayOf
  <2> HIDE DEF q, m, a
  <2>3. MostRecentSlot(s, t) = LET thatWeek == SlotThatDay(s, t) - StepsBack(s, SlotThatDay(s, t)) * Day
                               IN  IF thatWeek > t THEN thatWeek - Week * Day ELSE thatWeek
    BY Zenon DEF MostRecentSlot
  <2>4. back \in Int
    BY <1>1, <1>2
  <2> HIDE DEF back
  <2> QED BY <1>1, <2>1, <2>2, <2>3, <2>4
<1> HIDE DEF q, m, a
<1>5. back = IF m >= s.weekday THEN m - s.weekday ELSE m - s.weekday + Week
  <2>1. CASE m >= s.weekday
    <3>1. m - s.weekday \in 0 .. Week - 1
      BY <1>1, <1>2, <2>1
    <3>2. (m - s.weekday + Week) % Week = m - s.weekday
      BY <1>1, <3>1, Around
    <3> QED BY <2>1, <3>2
  <2>2. CASE m < s.weekday
    <3>1. m - s.weekday + Week \in 0 .. Week - 1
      BY <1>1, <1>2, <2>2
    <3>2. (m - s.weekday + Week) % Week = m - s.weekday + Week
      BY <1>1, <3>1, Around
    <3> QED BY <1>1, <1>2, <2>2, <3>2
  <2> QED BY <1>1, <1>2, <2>1, <2>2
<1>6. b \in Int /\ d \in Int /\ d % Week = s.weekday
  <2>1. b \in Int
    BY <1>2
  <2> HIDE DEF b
  <2>2. (b * Week + s.weekday) % Week = s.weekday
    <3> DEFINE w == s.weekday
    <3>1. w \in 0 .. Week - 1 /\ Week \in Nat \ {0}
      BY <1>1
    <3> HIDE DEF w
    <3>2. (b * Week + w) % Week = w
      BY <2>1, <3>1, Joined
    <3> QED BY <3>2 DEF w
  <2> QED BY <1>1, <2>1, <2>2
<1>7. q - back = d /\ back \in 0 .. Week - 1
  <2>1. (a - 1) * Week = a * Week - Week
    BY <1>1, <1>2
  <2> QED BY <1>1, <1>2, <1>5, <2>1
<1> HIDE DEF back, b, d
<1>8. q * Day + s.at - back * Day = d * Day + s.at
  <2>1. (q - back) * Day = q * Day - back * Day
    BY <1>1, <1>7
  <2> QED BY <1>1, <1>7, <2>1
<1>9. CASE d * Day + s.at <= t
  <2>1. q < d + Week
    BY <1>1, <1>6, <1>7
  <2>2. q * Day + Day <= (d + Week) * Day
    BY <1>1, <1>6, <2>1, Grows
  <2>3. (d + Week) * Day \in Int /\ q * Day \in Int /\ d * Day \in Int
    BY <1>1, <1>6
  <2>4. t < (d + Week) * Day + s.at
    BY <1>1, <2>2, <2>3
  <2>5. MostRecentSlot(s, t) = d * Day + s.at
    BY <1>1, <1>4, <1>8, <1>9, <2>3
  <2> QED BY <1>6, <1>9, <2>4, <2>5
<1>10. CASE d * Day + s.at > t
  <2>1. d - Week \in Int /\ (d - Week) * Day = d * Day - Week * Day /\ d - Week + Week = d
    BY <1>1, <1>6
  <2>2. (d - Week) % Week = s.weekday
    <3> DEFINE c == b - 1
    <3>1. d - Week = c * Week + s.weekday /\ c \in Int
      BY <1>1, <1>6 DEF d
    <3> HIDE DEF c
    <3>2. (c * Week + s.weekday) % Week = s.weekday
      BY <1>1, <3>1, Joined
    <3> QED BY <3>1, <3>2
  <2>3. q * Day <= t /\ back * Day < Week * Day /\ back * Day + Day <= Week * Day
    BY <1>1, <1>7, Grows
  <2>4. (d - Week) * Day + s.at <= t
    BY <1>1, <1>6, <1>7, <1>8, <2>1, <2>3
  <2>5. MostRecentSlot(s, t) = (d - Week) * Day + s.at
    BY <1>1, <1>4, <1>6, <1>8, <1>10, <2>1
  <2> QED BY <1>10, <2>1, <2>2, <2>4, <2>5
<1> QED BY <1>1, <1>6, <1>9, <1>10


(* Between a slot and the next nothing fires.                                *)
LEMMA SlotIsLast ==
  ASSUME NEW s \in Rules, NEW t \in Int
  PROVE  LET slot == MostRecentSlot(s, t) IN
         /\ slot \in Int /\ slot <= t /\ Fires(s, slot)
         /\ \A x \in slot + 1 .. t : ~Fires(s, x)
<1>1. Day \in Nat \ {0} /\ Week \in Nat \ {0} /\ s.at \in 0 .. Day - 1 /\ s.weekday \in 0 .. Week - 1
  BY CalendarAssumption DEF Rules
<1> DEFINE gap == IF s.every = "daily" THEN 1 ELSE Week
<1>2. s.every = "daily" \/ s.every = "weekly"
  BY DEF Rules
<1>3. \E d \in Int : /\ MostRecentSlot(s, t) = d * Day + s.at /\ (s.every = "weekly" => d % Week = s.weekday)
                     /\ d * Day + s.at <= t /\ t < (d + gap) * Day + s.at
  <2>1. CASE s.every = "daily"
    <3>1. PICK d \in Int : MostRecentSlot(s, t) = d * Day + s.at /\ d * Day + s.at <= t /\ t < d * Day + Day + s.at
      BY <2>1, DailySlot
    <3>2. (d + 1) * Day = d * Day + Day /\ s.every # "weekly" /\ gap = 1
      BY <1>1, <2>1
    <3> QED BY <3>1, <3>2
  <2>2. CASE s.every = "weekly"
    <3>1. gap = Week
      BY <2>2
    <3> QED BY <2>2, <3>1, WeeklySlot
  <2> QED BY <1>2, <2>1, <2>2
<1>4. PICK d \in Int : /\ MostRecentSlot(s, t) = d * Day + s.at /\ (s.every = "weekly" => d % Week = s.weekday)
                       /\ d * Day + s.at <= t /\ t < (d + gap) * Day + s.at
  BY <1>3
<1>5. d * Day + s.at \in Int /\ Fires(s, d * Day + s.at)
  BY <1>4, FiresOn
<1>6. ASSUME NEW x \in Int, d * Day + s.at < x, x <= t, Fires(s, x) PROVE FALSE
  <2>1. x = DayOf(x) * Day + s.at /\ DayOf(x) \in Int /\ (s.every = "weekly" => DayOf(x) % Week = s.weekday)
    BY <1>6, FiresIs
  <2> DEFINE e == DayOf(x)
  <2> HIDE DEF e
  <2>2. x = e * Day + s.at /\ e \in Int /\ (s.every = "weekly" => e % Week = s.weekday)
    BY <2>1 DEF e
  <2>3. d < e
    <3>1. CASE e < d
      <4>1. e * Day + Day <= d * Day
        BY <1>1, <2>2, <3>1, Grows
      <4> QED BY <1>1, <1>6, <2>2, <4>1
    <3>2. e # d
      BY <1>1, <1>6, <2>2
    <3> QED BY <2>2, <3>1, <3>2
  <2>4. d + gap <= e
    <3>1. CASE s.every = "daily"
      BY <2>2, <2>3, <3>1
    <3>2. CASE s.every = "weekly"
      <4>1. /\ d \div Week \in Int /\ d = (d \div Week) * Week + s.weekday
            /\ e \div Week \in Int /\ e = (e \div Week) * Week + s.weekday
        BY <1>1, <1>4, <2>2, <3>2, DivisionIs
      <4> DEFINE p == d \div Week
                 q == e \div Week
      <4> HIDE DEF p, q
      <4>2. p \in Int /\ d = p * Week + s.weekday /\ q \in Int /\ e = q * Week + s.weekday
        BY <4>1 DEF p, q
      <4>3. p < q
        <5>1. CASE q < p
          <6>1. q * Week + Week <= p * Week
            BY <1>1, <4>2, <5>1, Grows
          <6> QED BY <1>1, <2>3, <4>2, <6>1
        <5>2. q # p
          BY <1>1, <2>3, <4>2
        <5> QED BY <4>2, <5>1, <5>2
      <4>4. p * Week + Week <= q * Week
        BY <1>1, <4>2, <4>3, Grows
      <4>5. gap = Week
        BY <3>2
      <4> QED BY <1>1, <4>2, <4>4, <4>5
    <3> QED BY <1>2, <3>1, <3>2
  <2>5. gap \in Int
    BY <1>1
  <2> HIDE DEF gap
  <2>6. (d + gap) * Day <= e * Day
    <3>1. CASE d + gap < e
      <4>1. d + gap \in Int
        BY <2>5
      <4> HIDE DEF gap
      <4>2. (d + gap) * Day + Day <= e * Day
        BY <1>1, <2>2, <3>1, <4>1, Grows
      <4>3. (d + gap) * Day \in Int /\ e * Day \in Int
        BY <1>1, <2>2, <4>1
      <4> QED BY <1>1, <4>2, <4>3
    <3>2. CASE d + gap = e
      BY <1>1, <2>2, <3>2
    <3> QED BY <2>2, <2>4, <2>5, <3>1, <3>2
  <2>7. (d + gap) * Day \in Int /\ e * Day \in Int
    BY <1>1, <2>2, <2>5
  <2> QED BY <1>1, <1>4, <1>6, <2>2, <2>6, <2>7
<1> QED BY <1>4, <1>5, <1>6

(***************************************************************************)
(* mostRecentSlot gives the last moment the schedule fires at that is not  *)
(* after now, and a schedule is due exactly while such a moment passed     *)
(* since its last run: for days and weeks of any length, every frequency,  *)
(* time of day and weekday, and every moment, however long the box slept.  *)
(***************************************************************************)
THEOREM DueIsASlotMissed ==
  ASSUME NEW s \in Rules, NEW t \in Int
  PROVE  TheLastSlot(s, t)
<1> DEFINE slot == MostRecentSlot(s, t)
<1>1. /\ slot \in Int /\ slot <= t /\ Fires(s, slot) /\ \A x \in slot + 1 .. t : ~Fires(s, x)
  BY SlotIsLast
<1>2. s.lastRun \in Int
  BY DEF Rules
<1>3. IsDue(s, t) <=> s.enabled /\ s.lastRun < slot
  BY DEF IsDue
<1> HIDE DEF slot
<1>4. s.lastRun < slot <=> \E x \in s.lastRun + 1 .. t : Fires(s, x)
  BY <1>1, <1>2
<1> QED BY <1>1, <1>3, <1>4 DEF TheLastSlot, slot

(* The schedule stays one an owner may set, but for its last run.            *)
RuleInv == schedule \in Rules /\ now \in Int

(***************************************************************************)
(* And so for a schedule that is looked at, run and recorded as time goes  *)
(* by: at every moment what is due is what the owner chose.                *)
(***************************************************************************)
THEOREM WhatIsDueIsMissed == CalendarSpec => []SlotIsTheLast
<1>1. CalendarInit => RuleInv
  BY CalendarAssumption DEF CalendarInit, Unrun, Rules, RuleInv, Never
<1>2. RuleInv /\ [CalendarNext]_calendarVars => RuleInv'
  <2> SUFFICES ASSUME RuleInv, [CalendarNext]_calendarVars PROVE RuleInv'
    OBVIOUS
  <2>1. CASE RunDue
    BY <2>1 DEF RunDue, RuleInv, Rules
  <2>2. CASE Sleep
    BY <2>2, ClockAssumption DEF Sleep, RuleInv
  <2>3. CASE UNCHANGED calendarVars
    BY <2>3 DEF calendarVars, RuleInv
  <2> QED BY <2>1, <2>2, <2>3 DEF CalendarNext
<1>3. RuleInv => SlotIsTheLast
  BY DueIsASlotMissed DEF RuleInv, SlotIsTheLast
<1> QED BY <1>1, <1>2, <1>3, PTL DEF CalendarSpec

-----------------------------------------------------------------------------
(* A schedule of the scheduler is a rule of the calendar with its keep.      *)
RuleOf(s) ==
  [every |-> s.every, at |-> s.at, weekday |-> s.weekday, enabled |-> s.enabled, lastRun |-> s.lastRun]

LEMMA ScheduleIsRule ==
  ASSUME NEW s \in Schedules
  PROVE  /\ RuleOf(s) \in Rules /\ RuleOf(s).lastRun = s.lastRun /\ RuleOf(s).enabled = s.enabled
         /\ \A t : MostRecentSlot(RuleOf(s), t) = MostRecentSlot(s, t)
<1>1. PICK x \in Settings, u \in Moments : s = WithLastRun(x, u)
  BY DEF Schedules, Moments
<1>2. RuleOf(s) \in Rules
  BY <1>1, SettingsAssumption DEF WithLastRun, RuleOf, Rules, Moments, Never
<1>3. ASSUME NEW t PROVE MostRecentSlot(RuleOf(s), t) = MostRecentSlot(s, t)
  BY DEF RuleOf, MostRecentSlot, SlotThatDay, StepsBack
<1> QED BY <1>2, <1>3 DEF RuleOf

(* As time goes by what is due stays due.                                    *)
LEMMA DueStaysDue ==
  ASSUME NEW x \in Schedules, NEW t \in Int, IsDue(x, t)
  PROVE  IsDue(x, t + 1)
<1> DEFINE s == RuleOf(x)
           a == MostRecentSlot(s, t)
           b == MostRecentSlot(s, t + 1)
<1>0. s \in Rules /\ s.lastRun = x.lastRun /\ s.enabled = x.enabled
      /\ a = MostRecentSlot(x, t) /\ b = MostRecentSlot(x, t + 1)
  BY ScheduleIsRule
<1> HIDE DEF s
<1>1. a \in Int /\ a <= t /\ Fires(s, a)
  BY <1>0, SlotIsLast
<1>2. b \in Int /\ \A u \in b + 1 .. t + 1 : ~Fires(s, u)
  BY <1>0, SlotIsLast
<1>3. x.lastRun \in Int /\ x.enabled /\ x.lastRun < a
  BY <1>0 DEF Rules, IsDue
<1> HIDE DEF a, b
<1>4. a <= b
  BY <1>1, <1>2
<1>5. x.lastRun < b
  BY <1>1, <1>2, <1>3, <1>4
<1> QED BY <1>0, <1>3, <1>5 DEF IsDue

(***************************************************************************)
(* What is due stays due until a tick tried it and says so, or the owner   *)
(* saves: a run that failed counts, one that never began does not, however *)
(* many ticks, kills, failing calls and upgrades there are.                *)
(***************************************************************************)
THEOREM SlotsAreSpentByRuns == Spec => [][\A k \in Keys : SpentByARun(k)]_vars
<1>1. ASSUME SchedulerInv, [Next]_vars, NEW k \in Keys, k \in DueSchedules, k \notin DueSchedules',
             ~(owner.saving /\ ~owner'.saving)
      PROVE  tried[k] >= MostRecentSlot(file[k], clock)
  <2> USE <1>1 DEF SchedulerInv
  <2>1. file[k] \in Schedules /\ clock \in Moments /\ clock \in Int /\ IsDue(file[k], clock)
    BY DEF TypeOK, DueSchedules, Scheduled, Moments, Never
  <2>2. file[k] # NoSchedule
    BY <2>1, ScheduleFields
  <2>3. ASSUME UNCHANGED file, clock' = clock \/ clock' = clock + 1 PROVE FALSE
    BY <2>1, <2>2, <2>3, DueStaysDue DEF DueSchedules, Scheduled
  <2>4. ~\E w \in Workers : WorkerStep(w) \/ CopyFiles(w)
    <3>1. \A w \in Workers : WorkerStep(w) \/ CopyFiles(w) => UNCHANGED <<file, clock>>
      BY WorkerStepIs DEF WorkerStep, CopyFiles, CopyLands, CopyFails, ListRuns, EndPurge, PurgeOne, world
    <3> QED BY <2>3, <3>1
  <2>5. PICK w \in Ticks : RecordRun(w)
    <3>1. ~SaveSchedules
      BY DEF SaveSchedules, NotSaving
    <3>2. ~(ReadSchedules \/ Minute \/ OpenUpgrade \/ CloseUpgrade \/ Crash \/ UNCHANGED vars)
      BY <2>3 DEF ReadSchedules, Minute, OpenUpgrade, CloseUpgrade, Crash, vars
    <3>3. \A w \in Ticks : ~(StartTick(w) \/ LeaveTick(w) \/ EndTick(w) \/ \E d \in due[w] : StartRun(w, d))
      BY <2>3 DEF StartTick, LeaveTick, EndTick, StartRun, world, vars
    <3>4. \A w \in Hands, x \in Keys, n \in HandKeeps : ~StartByHand(w, x, n)
      BY <2>3 DEF StartByHand, world
    <3> QED BY <2>4, <3>1, <3>2, <3>3, <3>4 DEF Next, TickStep, Workers
  <2>6. clock' = clock /\ file' = Recorded(w)
    BY <2>3, <2>5 DEF RecordRun, world
  <2>7. work[w].now \in Moments /\ work[w].key \in Keys /\ tried[work[w].key] = work[w].now
    BY <2>5 DEF RecordRun, OneTick, TriedFirst, Active, TypeOK, Jobs, Workers
  <2>8. k = work[w].key /\ file'[k] = [file[k] EXCEPT !.lastRun = work[w].now]
    <3>1. UNCHANGED file => FALSE
      BY <2>3, <2>6
    <3>2. k = work[w].key
      <4>1. SUFFICES ASSUME k # work[w].key PROVE FALSE
        OBVIOUS
      <4>2. file'[k] = file[k]
        BY <2>6, <2>7, <4>1 DEF Recorded, TypeOK
      <4> QED BY <2>1, <2>2, <2>6, <4>2 DEF DueSchedules, Scheduled
    <3> QED BY <2>2, <2>6, <2>7, <3>2 DEF Recorded, TypeOK
  <2>9. file'[k] \in Schedules /\ file'[k] # NoSchedule /\ ~IsDue(file'[k], clock)
    <3>1. file'[k] \in Schedules
      BY <2>1, <2>7, <2>8, ScheduleFields
    <3>2. file'[k] # NoSchedule
      BY <3>1, ScheduleFields
    <3> QED BY <2>6, <3>1, <3>2 DEF DueSchedules, Scheduled
  <2>10. /\ file'[k].enabled = file[k].enabled /\ file'[k].lastRun = work[w].now
         /\ file'[k].every = file[k].every /\ file'[k].at = file[k].at /\ file'[k].weekday = file[k].weekday
    BY <2>1, <2>8 DEF Schedules, WithLastRun
  <2>11. MostRecentSlot(file'[k], clock) = MostRecentSlot(file[k], clock)
    BY <2>10 DEF MostRecentSlot, SlotThatDay, StepsBack
  <2>12. MostRecentSlot(file[k], clock) \in Int
    BY <2>1, SlotIsInt
  <2> QED BY <2>1, <2>7, <2>8, <2>9, <2>10, <2>11, <2>12 DEF IsDue, Moments, Never
<1>2. SchedulerInv /\ [Next]_vars => [\A k \in Keys : SpentByARun(k)]_vars
  BY <1>1 DEF SpentByARun
<1> QED BY <1>2, SchedulerInvHolds, PTL DEF Spec
=============================================================================
