# CasaOS-AppManagement in TLA+

A verification project for the app management service of CasaOS (the Go code of this
repository): TLA+ modules translated from the source, TLC runs on small instances, and
proofs checked by TLAPS.

1. [The system](#the-system)
2. [The modules and the code](#the-modules-and-the-code)
3. [The runs](#the-runs)
4. [Fairness](#fairness)
5. [What is proved](#what-is-proved)
6. [Where code and documents differ](#where-code-and-documents-differ)
7. [What the models assume](#what-the-models-assume)
8. [The plan](#the-plan)

To check everything again, in this directory: `tlc -workers 2 -config MCX.cfg MCX` for a run
(the module of each run is in `PROJECT.json`), `tlapm XProofs.tla` for the proofs.

## The system

The service installs, updates, backs up, watches and moves the docker compose apps of one
box. It is one process with many goroutines: one per HTTP request, more that requests
leave behind (an install answers before it has pulled anything), and those of cron (a tick
of the backups every minute, git checks every five, the storage sweep every 15 seconds, the
catalogues every ten minutes). What it must remember it keeps in files. What it works on -
the docker daemon, systemd, the mounts, rclone and restic destinations, git remotes -
runs beside it and can fail at any call. The core, another process, upgrades the operating
system and asks this one what runs.

| Component | State it keeps | Operations | What makes it correct |
| --- | --- | --- | --- |
| operation table (`service/app_operations.go`) | `running`, `marked`, in memory | `Begin` and its `end`, `beginWaiting`, `handOver`, `markInProgress` and its `done`, `RunningOperations` | one operation per app; a refusal names what really runs; the core is told of all that runs |
| upgrade window (`service/backup_upgrade_hold.go` and its callers) | the core's flag file, read only | list yourself, then look for the flag | nothing that starts by itself runs through an upgrade |
| backup hold (`service/backup_hold.go`, `backup_hold_recovery.go`) | `holding.json`: the containers held | hold, release, recover at startup | the copy is of an app that is off; what was stopped comes back, after a kill too |
| backup scheduler (`service/backup_scheduler.go`, `backup_schedule.go`, `backup_retention.go`) | `schedules.json`, the runs at a destination | tick, run, retention, the owner's save, a backup by hand | a slot runs once, and is spent by nothing but a run; retention never takes the newest; the owner's save stands |
| docker location (`pkg/dockerlocation`) | state file, unit and drop-in files, bind mounts, four places per area | move, its undo stack, recover, delete the old copy | the data is whole somewhere at every instant; docker never runs on half a copy, and comes back |
| git apps (`service/git_*.go`) | a state file per app, the clone, images by commit | check, deploy, revert, roll back, recover, switch automatic deployments and the mode | what serves is what is remembered; a rollback and a revert find their version; a commit that failed is not retried alone |
| compose apps (`service/compose_app.go`, `compose_service.go`, `compose_env.go`) | compose file, its copy, `.env`, containers | install, save, save of the `.env`, update, uninstall, start, stop, restart | disk and containers agree; a failed request leaves no trace |
| restart recovery (`service/compose_recovery.go`) | a mark per app its owner stopped, "swept already" | the sweep | what the boot left off comes back, what the owner stopped stays off |
| update all (`service/compose_update_all.go`) | the run in progress or the last one | start, progress | one run at a time; every app ends in a final state |
| what a backup holds (`service/backup_plan.go`, `_run`, `_restore`, `_system`, `pkg/restic`, `pkg/rclone`) | the runs at a destination, in two engines; the key of one | back up, restore, install from a backup, delete a run, switch the engine | a manifest means a whole run; a restore puts every path back and touches no other; what was stopped runs again |
| repository checks (`service/restic_check.go`) | when each repository was checked | a weekly check, one by hand | one at a time, not every minute after a fault; a fault is told, or found again |
| app store catalogue (`service/appstore*.go`) | catalogues in memory and on disk, the list of stores | register, unregister, update | an interrupted update keeps the old catalogue |
| image updates (`service/image_update.go`) | what registries said, what the button would do | check all, check one, forget | no badge for an update nobody can take |
| docker watch (`service/docker_watch.go`) | troubles by container | observe, tick, resume | one message per episode, none for what was asked |
| logs (`service/logs*.go`, `pkg/logstore`) | day files, followers, queues of live readers | follow, write, purge, query, tail | no line twice, bounded memory, what is dropped is counted |
| statistics (`service/stats.go`, `pkg/dockerstats`) | containers seen, ring files | tick, query | no sample measured against another container's |
| HTTP routes (`route/`) | none | decode, call, encode | |

How they meet: every operation on an app goes through the operation table (start, stop and
restart of a compose app do not). A scheduled backup is listed there by the tick and claimed
by the run; it holds the app still (backup hold) and is followed by the retention. A git
check's claim becomes its deployment's. The core reads `RunningOperations`. A restore holds
the app, and of a git app ends in a deployment. The recovery of the hold, of a cut move of
docker's data and of git operations run once, in `main`, before the crontab and the routes.

What is hard in it: kills and power cuts between two writes, where a note, a state file or a
mount says less than what is true; undos that fail themselves; two goroutines that read a
file, work for hours and write; checks (of a claim, of the flag, of a mark) that are used
after they were true; automatic actions that come back every few minutes to what just failed.

## The modules and the code

Each module's header says what it leaves out. `PROJECT.json` maps every definition to its
lines.

What may run, and when:

- **`AppClaims`** is the abstract promise of the table: an app belongs to nobody or to one
  operation, and changes hands only by being let go.
- **`AppOperations`** is `app_operations.go`. A handle is one call together with the closure
  it returned; the closure can be called twice, which is what `sync.Once` is there for. The
  mutex makes each access one step. `ClaimsPromise` says it implements `AppClaims`, under the
  mapping of an app to the one call that holds it.
- **`UpgradeWindow`** extends `AppOperations` with the callers that start by themselves (tick
  of the backups, checks and deployments of git apps, the weekly repository checks), with
  clicks, and with the core, which is external and modelled from how this service answers it.

Backups:

- **`BackupHold`** is the hold, its note and the recovery. Every call can fail, the process
  can be killed between any two steps. `owed` remembers which containers a hold stopped,
  `excused` the ones about which a call failed.
- **`BackupCalendar`** is `mostRecentSlot` and `IsDue`, pure operators over minutes, with
  the length of a day and of a week as parameters; `Fires` is what was meant by them.
  **`BackupClock`** is one schedule that is looked at, run and recorded while time passes.
- **`BackupScheduler`** extends it with ticks (cron starts one every minute whether the last
  one is over or not), backups by hand, retention, the owner's save in its two halves, the
  flag of an upgrade and kills.
- **`BackupCopies`** is what is copied and where it goes back: the plan and its numbers, the
  copy with its manifest last, a restore of all or of some, of an app that must be installed
  first, or of the box. Of one run the stamped copies (rclone) and the repository (restic) may
  each hold a part: the router, its key and the steps that make and unmake it are here.
  `before` remembers what the disk held when the app was down and the restore began.
- **`RepositoryChecks`** is the look at the repositories: the tick that reads once what is due
  and works on that for hours, the check by hand, the word on the bus, which may not take it, and
  the record after it, which is written either way.

Apps:

- **`GitDeploy`** is one git app. `disk` is its state file, `st` the copy an operation works
  on, `job` the step it is at; `folder`, `docker` and `remote` are the clone, the images and
  the repository.
- **`GitWebhook`** is the webhook of one git app: deliveries, the checks they start or queue, the
  file with the secret, and the owner who turns it on and off, registers, removes and restores
  the app. What a check finds is in `GitDeploy`; here it only asks the remote.
- **`ComposeApp`** is one compose app: its files, its containers (by the definitions they
  were created from, more than one after a creation that failed midway), two requests at a
  time, and the sweep. A request carries the definition it loaded before its claim.
- **`AppStore`** is the catalogues: the folder of each store beside its backup and its
  download, the sweep of the cron and the requests that cross it (nothing locks), the list of
  stores in the settings.
- **`ImageTags`** is pure: what an update would write, and whether it is offered. The code
  asks that in two places, and the module has both.
- **`ImageUpdates`** are the three answers kept about an app (the registries', the button's,
  the page's, which lasts an hour) beside the sweep, the update of one app and the run that
  updates all.

Docker's data:

- **`DockerLocation`** is the long script of a move as what it is: `todo`, the steps left,
  and `undos`, the functions collected so far, both sets whose steps are taken in the order of
  the script (`Rank`: its loops, an area after the other in each, the undos newest first; the
  code's stack is that order, since it pushes as it goes). Every step that changes the disk, the
  mounts, docker or the state file is an action; a stop of the service drops `todo` and `undos`,
  a power cut the mounts as well. What each of the four places of an area holds is one word.
  A start of docker may fail like any command, and may get as far as containerd's mount.

What is watched:

- **`LogStream`** is the abstract promise to a live reader: every message once, in order, as
  itself or in the count of a lag. **`LogHub`** is the queue with its limit and its goroutine,
  which offers outside the lock what a publication may drop meanwhile; `StreamIsTold` says it
  implements `LogStream`.
- **`LogFollow`** is one container's lines on their way to the day files: the collector that
  starts and ends followers, the follower, the buffered writer, the purge, kills. A day's file is
  created before the first write to it, so it may be there and empty.
- **`LogPages`** is how the history is read: pages merged from several files, cursors, polls and
  the walk backwards, each with its window of events and their limit. A page is read in steps (the
  flush, the clock, every file, the events), between which lines arrive and are written.
- **`DockerWatch`** is the trouble of containers: events in the order docker tells them, the
  tick that judges, the episodes, a stream that breaks and is taken up again.
- **`Sampler`** is one container's readings: missed lists, failed calls, recreations, the rule
  that needs a rate, the queue in which what fires and what resolves is brought to a bus that
  may refuse it.

`MC*` modules give the constants values, and put together in one run the parts that do not
meet: a behaviour of such a run is a behaviour of the `part` it chose at first, and the others
stay as they were. That is sound because no part reads another's state, which the head of each
of these modules argues: the followers fill the files the pages read and publish to the hub,
but nothing comes back (`MCLive`); an update takes a catalogue as a whole and may find any
other at any time (`MCStores`); a hold stands between the claim and the copy of one run, and
what the scheduler decides does not depend on it (`MCBackupScheduler`); what a
backup holds, when it is due and what it may run beside are three questions (`MCBackups`), of
which the first takes the claim of an app for granted and the second is one schedule and a
clock; a webhook and a repository share nothing (`MCOutside`). `*Proofs` modules hold the theorems.

## The runs

Twelve runs; eight pass, four show a difference between the code and what it says of itself.
Every property of a passing run has a mutant of the code that TLC finds violating it. Type
correctness is a question of no run: where it matters it is proved.

| Run | What it asks | Bounds and why they are enough | States |
| --- | --- | --- | --- |
| `backups` | Does a manifest mean a whole run, does a restore put every path back and touch no other, is a copy of one moment, does what was stopped run again? Is a slot the last one that passed, and a schedule due exactly if one did? Is there one owner per app, does the handshake keep unattended work out of an upgrade, is the list empty exactly when nothing runs? | 2 jobs, 2 runs, 2 places of which one is a file and one may be missing, a failure, an edit, an uninstallation, a deletion, a kill or a switch of the engine; every kind of schedule on days of 3 minutes and weeks of 4 days, sleeps longer than a week, 4 weeks; 2 schedules of different apps, a git app that is one of them, a click that waits, a repository: every pair of callers that can meet, a closure called late finds the app free, its own or another's | 1,372,311 |
| `scheduler` | Does a slot run once, do the newest runs stay, does the owner's save stand, is what is due run one day and no slot spent without a run? Is what a hold stopped noted and back in the end? | 1 schedule, 2 ticks and a backup by hand at once, a save, a kill, copies and deletes that fail, retentions of 1 and 2; and 2 apps held at once (they share the note), one of 2 containers (one stop of two fails), every call failing, 2 kills (one of them during the recovery) | 289,374 |
| `scheduler_broken` | (difference) Does a retention drop a good run for a broken one? | 1 tick, 2 days | found |
| `location` | Is the data whole at every instant, does docker run on it and come back, is what is offered for deletion spare? | 2 moves (there and back), 2 cuts of any kind (one of them during the recovery), a command that fails (the start of docker is one), a drive that is absent at a boot | 114,624 |
| `location_mixed` | (difference) The same, after an undo that could not unmount one area | 2 failing commands, 1 cut | found |
| `git` | Is what runs what is remembered, do rollback and revert find their version, is nothing retried that is remembered, nothing taken down alone, does a commit by hand stay, do operations end? | 2 commits, 2 tags, 3 deployments, a restore, 2 pushes, a kill and a touch of the owner, 4 of these in all; a history of 2, from which the third version falls, and a list of 1 tried commit, which the second makes forget the first | 1,715,950 |
| `outside` | Is the secret on disk the owner's whatever deliveries cross a change or a removal, is a push looked at that was answered, is the debounce kept, does all of it come to its end? Is every repository looked at again and again, and a fault the bus has not had found again? | a delivery and the owner (two locks need two parties to wait for each other), 2 checks at once, 2 secrets (one replaced), a push, a kill; 2 repositories, 2 ticks or hands at once, a week of 2 days (a fault is looked at again after 1), 2 upsets (a fault and a kill while it is told) | 186,532 |
| `compose` | Do disk and containers agree, does a failed request leave no trace, do files outlive containers, does what the owner stopped stay off and what the boot left off come back, do claims end? | 2 requests, at once or one after the other, 2 images, 3 edits, every call failing (the writing of the owner's mark too), a kill or a reboot | 275,074 |
| `compose_stale` | (difference) The undo of a request whose app changed between its load and its claim | as `compose` | found |
| `live` | Is a reader told everything, is no line lost or written twice, do pages show all that was on time, is an end of trouble true and told, does an alert outlive a gap, is the bus's last word the alert? | 2 readers with a queue of 2 and 3 messages (one full queue, one drop while the head is offered); 2 lines, days and runs of a container with a fault, a missed event or a kill; 2 files, 2 lines, pages of 2, 2 events with a page limit of 1, a clock of 3 (with 3 lines, or 2 in each file, which take too long for a run kept here, it holds too: 5,834,626 and 18,587,727 states); 2 containers of one app with 3 troubles; 2 ticks a minute, 3 incidents, an alert queue of 2 | 1,691,036 |
| `stores` | Does a failed update keep the catalogue, does every store come back, is the badge what the button does, does an update go forward, does a run answer for each app? | 2 stores, one of them mirrored, 2 catalogues, 3 upsets (catalogues published, calls that fail, requests, kills); 2 apps of 2 services, 2 compose files that differ in both (one tag is a version back, the other one that floats), 2 turns of the catalogue or of the registries | 435,891 |
| `restore_elsewhere` | (difference) A restore of an app that dropped a bind since its backup | 1 run | found |

`location`, `compose`, `live` and `backups` (with the differences of `location`, `compose` and
`backups`) switch the deadlock check off: an owner who asks for nothing more, a box that is not
cut, a container that prints no more are states the system may stop in. The others are checked
for it. `backups` uses the symmetry of the runs and of the jobs: it checks no liveness, and no
definition tells them apart.

What the passing properties except, they except by name, in the state:

- `excused` (a failed call about that very container; an app or a catalogue that changed behind
  an answer), `alone` (no other job or worker crossed this one), `purged` (somebody deleted the
  run), `cut` of `BackupCopies` (a kill while the box's services were stopped); `HasItsPlace` (a
  volume docker could not place, a file where a folder was: the restore reports those);
- `lost` (a save put an older `LastRun` back; a save of the `.env` put an older compose file
  back; a stop took images before the state file forgot them, or a restore of an adopted app
  moved its folder and no more);
- of docker's data: `blind` (a recovery ran without the drive that alone has the data),
  `unnoted` (a move cut before it noted what ran), `unstarted` (the last start of all is the
  command that failed), `said` (the owner was told it could not be put right) and with it
  `mixed` (a further move began with the areas in different places) and `relisted` (one began
  while the old copy shown was partly gone);
- of git apps: `displaced` (a stop left another version running), `forgotten` (a full list of
  tried commits dropped its oldest), and of `HandMadeStays` the step that begins a restore;
- of compose apps: `odd` (why disk and containers may differ), the values "unmarked" and
  "rebooted" of `off` (the mark of a stop was never written, or a boot took it), `mixed` (the
  stop ran beside another request, or a sweep that had asked for the mark before);
- of what is watched: `reread` (lines on disk when a follower resumed and the newest file told
  no last line), `late` (lines and events that no page holds back for any more), `cut` of
  `LogPages` (events past a page's limit), `unsaid` (the last word on an alert was lost, in a
  full queue or in a publish that failed), `unheard` (the publish of a fault failed; its record
  must be one of a fault all the same).

## Fairness

- A goroutine at work goes on: its calls return (with an error, too). Weak fairness of the
  steps of a hold, a recovery, a tick, a move, a git operation, a compose request, an update of
  a catalogue (`UpdateCatalog`, `RequestGoesOn`), of an app (`Updates`) and of all
  (`RunGoesOn`). The timeouts of the calls (`waitForApp`, `callTimeout`, `context.WithTimeout`)
  justify it.
- systemd starts the service again, and `main` runs the recoveries first: `Boot`, `Serve`.
- cron ticks: `CronTicks` of the backups, `CronGoesOn` of the catalogues, the sweep of the
  apps. For that sweep it is the disjunction of its steps, one of which is that the window is
  over.
- An upgrade of the system is closed one day, and an owner's save that began ends.
- The docker watch is told: the stream opens again, events come, its ticker ticks
  (`WatchFairness`).
- What a store publishes can be downloaded and built again some day (`Repairs`). It is the one
  assumption that a fault ends; without it no store could come back.
- A delivery, a queued check and the owner take the lock of the webhooks one day (strong
  fairness: `sync.Mutex` hands itself over to who has waited a millisecond), and the window of
  the debounce closes. Who holds the app need never let it go: the queued check gives up.
- The checks of the repositories: the tick comes every hour, a check returns within
  `resticCheckLimit`, time passes (`ChecksFairness`). A part that rests in `MCOutside` is asked
  for nothing.
- `AppOperations` and `UpgradeWindow` assume none: nothing says that what holds an app ever lets
  it go.

Nobody has to click, push, mount, fail or be killed, and but for `Repairs` no property rests on
a failure that eventually stops (a hold has no such assumption: `excused` names the container
instead).

## What is proved

By TLAPS, for every value of the constants, under the named assumptions of the modules:

| Theorem | Property | Inductive invariant, and why it is needed |
| --- | --- | --- |
| `OperationsProofs!TableTypeOK`, `TableExcludes`, `TableNames`, `TableCounts`, `TableLists` | `TypeOK`, `OneOperationPerApp`, `HoldIsWhatRuns`, `MarksAreCounted`, and `RunningIsListed` | `TableInv`: exclusion is not inductive by itself. That a free entry has no holder is what makes a claim safe, and that a count of marks is the number of live ones is what keeps `done` from going below zero |
| `OperationsProofs!TableImplementsClaims` | `ClaimsPromise` | every step of the table is a claim, a letting go or a stutter of `AppClaims` under `ownerBar`; a hand-over is a stutter, since the call stays the holder |
| `OperationsProofs!UpgradeRunsAlone`, `ListIsTrue` | `NothingRunsThroughUpgrade`, `ListTellsTheTruth` | `WindowInv`: `Stages` says which closure is live at which stage of its caller, so that what runs is listed; `CoreSays`, that the core is past its question only with the flag in place. `WindowUsesTheTable` gives it every theorem of the table |
| `BackupSchedulerProofs!SchedulerTypeOK`, `SlotsRunOnce`, `SlotsAreSpentByRuns`, `RetentionKeepsTheNewest`, `OwnersSaveStands` | `TypeOK`, `SlotRunsOnce`, the safety part of `DueIsRun` (`SpentByARun`), `NewestStay`, `OwnerSaveStands` | `SchedulerInv`: one tick at a time, what a tick has left is due and is there once (`LeftIsDue`), the file knows of every recorded run (`FileKnows`), what a purge has left to delete still has enough newer runs (`OldIsOld`, with a lemma that counting survives the deletes of others) |
| `BackupSchedulerProofs!HoldTypeOK`, `HoldIsNoted`, `CopyIsStill`, `HoldStartsOnlyWhatItStopped` | `HoldTypes`, `OwedIsNoted`, `HeldStill`, `StartsOnlyWhatItStopped` | `HoldInv`: what is owed is what the hold that lives still has to start, or is in the note; neither half survives the other's steps alone |
| `BackupCopiesProofs!JobsKeepToTheirSteps`, `WhatIsNamedIsThere`, `HoldsAndLetsGo`, `WhatIsRestoredIsWhole` | `ManifestMeansWhole`, `HeldThenStartedAgain`, `RestoredAsItWas` | Four layers. `WorkInv`: the key of the engine and the step each job is at. `HoldInv`: what a job that holds stopped is off, and what is off is owed. `CopyAll`: what the run of a backup holds so far, copied from services that are off, with the manifest last. `PutAll`: what a restore has put back so far, from a run that was whole when it was read; without the second layer neither of the last two is inductive, since a service that runs writes between two copies. What the restore has passed in its plan is back, what it has not is as it was `before` (`PlaceInv`, `Untouched`), and every path that has its place is in the plan (`PairsPlaced`, `PlacedIsPlanned`) |
| `GitDeployProofs!WhatIsDeployedRuns`, `WhatRanIsKept`, `HandMadeIsKept`, `AutomaticIsOrderly` (with `AutomaticGoesUp`, `StepDownIsRespected`, `WhatFailedIsLeftAlone`) | `ServesDeployed`, `VersionsCanBeGoneBackTo`, `HandMadeStays`, `AutomaticKeepsToItsRules` | `GitInv`, the types and what an operation under way knows, and on it one invariant for each result: `ServeInv` (what runs at every step of a deployment and of its way back), `KeepInv` (images, commits and refs of what may be gone back to, in the file, in the copy worked on, and between the two), `HandInv` (where HEAD and the branch are), `UpInv`, `DownInv`, `TriedInv`. All ways an operation can end have their effect in one lemma. Nothing is supposed of the number of commits: `TriedInv` says that what was tried is in the list, or is `forgotten` |
| `OperationsProofs!SecretStaysTheOwners`, `AnsweredPushesAreLookedAt`, `ChecksStayApart` | `SecretIsTheOwners`, `PushesAreLookedAt`, and `ChecksKeepApart`, the first part of `WebhooksSettle` | `HookInv`: who is between the reading of the file and its writing holds the lock, and what it read is what is there (`LockGuards`); the file goes before the app does (`FileIsTheOwners`); the queue says so exactly while one check waits, and none started within the debounce once its window closed (`QueueIsOne`) |
| `OperationsProofs!RepositoriesAreLookedAtInTime` | the safety parts of `RepositoriesAreWatched` (`NoneTooSoon`, and `FoundAgain` or `AgainSoon`) | `ChecksInv`: what a tick has left to look at is due still, since one looker at a time is at work (`OneLooks`, `LeftIsDue`); and a record is written only after the publish of the fault it would hide: where that failed, the record says the repository is not in order (`UntoldIsDue`) |
| `ComposeAppProofs!ComposeTypeOK`, `FilesStay`, `StoppedAppsStayOff` | `FilesOutliveContainers`, `StoppedStaysOff` | `ComposeInv`: only the holder of the claim is at a step that writes, and what it relies on (the copy, the compose file, containers to start) stays until it is through (`CallInv`); a stop nobody crossed is alone (`StopIsAlone`), and from when the app is down by the owner's stop nothing is under way that would undo it (`OffIsQuiet`), the mark is there or next to be written |
| `ComposeAppProofs!LastSavesStand`, `WhatRunsIsOnDisk` | `LastSaveStands`, `DiskIsWhatRuns` | `HolderInv`: at each step of the holder, which of the files are the new ones and which the old (`SavedInv`), and from which the containers were created (`RunInv`); with no holder they agree. That a request which has not claimed yet knows nothing of the files is why the claim must come before the copy is taken |
| `StoresProofs!BadgesAreTheButton` | `BadgeIsTheButton` | `UpdatesInv`: the property holds of the answers that were given (`KnownInv`), but a sweep, a page and an update carry answers not given yet, worked out from the app as they found it; `SweepInv`, `PageInv` and `UpdateInv` say of those, for apps that nothing happened to since, that they are true when they are given |
| `StoresProofs!UpdatesGoForward` | `UpdateGoesForward` | `UpdateInv` (the update that decided would decide the same now) and a lemma about the two comparisons of tags, semver's and the natural one: a tag above another is one that the other is below (`AboveIsBelow`). It is what keeps an update from offering the way back |
| `StoresProofs!FailuresKeepTheCatalogue` | the first part of `StoreKeepsACatalogue` | `StoreInv`: where the catalogue is at each step of an update, in the folder, in the `.backup`, or in both (`CatalogueIsHeld`), provided the update was alone since it began (`AloneIsAlone`) |
| `BackupSchedulerProofs!DueIsASlotMissed` | `TheLastSlot`, which `SlotIsTheLast` states of the run's schedule and clock | none: an arithmetic of minutes, days and weeks of any length. A weekly slot is at most a week back (`WeeklySlot`), and between two slots the schedule does not fire (`Around`) |
| `BackupSchedulerProofs!WhatIsDueIsMissed` | `SlotIsTheLast` | `RuleInv`: running a schedule changes nothing of it but its last run |
| `DockerLocationProofs!TypeInvariant`, `ScriptInvariant`, `DataIsNeverLost`, `DockerRunsOnTheData` | `DataSurvives`, `RunsOnTheData` | `IInv`, as long as the behaviour is `Accounted` for: `Held` and `InScript`. `Held` says what the disk, the mounts and the state file are whatever is left to do, so also after a cut: with no move in the state file, with one to the folder, with one back. Both properties follow from it, but it is not inductive, since a step is right only after those before it. `InScript` says of each stage of the script which steps are left, which undos are owed, and what they rely on: that every change of the switch has its undo on the stack or on the list (`CanGoHome`, `CanGoBack`), that a copy is deleted only where the data is elsewhere (`Spare`), that the new copies are live in both areas before either old one is let go (`AllOrNone`). What the recovery decides by looking (`RecoverKeeps`) is `SwitchEnded` exactly, which is why it may keep the switch and must undo any other. A start that fails is one more end of the same step: it leaves what `Held` allows. A power cut is one lemma for all stages: it needs only `Held` |
| `LiveProofs!HubImplementsStream`, `BacklogStaysBounded` | `StreamIsTold`, and that a backlog keeps to its limit | `HubInv`: what was removed from a queue was told or is counted (`RemovedIsToldOrCounted`), but between the taking and the accounting, where it is in both; and what a goroutine holds is what the reader is to hear next (`PickIsNext`), whatever was dropped since it was picked |
| `LiveProofs!BusKnowsTheAlert`, `GapsEndNoAlert` | `LastWordIsTrue`, `AlertOutlivesGaps` | `WordInv`: the last word that waits, or else the bus's, is the alert's state, unless that word was the one that was lost; so a word lost before another one does not matter; `MinuteInv`: an alert that ended over a gap has a minute that was measured |
| `LiveProofs!PagesLeaveNothingOut` | `PagesShowAll` | a page sorts what it finds (`SortedSorts`, by the least number principle) and leaves nothing before its last line out (`ForwardsIsAPage`, `BackwardsIsAPage`); `PageInv`: of a page half read, every file that was read gave all the page takes of it, since what comes after its flush and its clock is past its hold-back or `late`; `PollInv` and `WalkInv`: the cursors are never past the hold-back, so what comes on time comes behind them, and the windows of events have no gap between them |
| `LiveProofs!AlertsSayWhatIs` | `EpisodesAreTrue`, the first part of `AlertsAreTrue` | `WatchInv`: what the watch remembers of a container is what it does, or an event that will say otherwise is unread (`KnownIsReal`); which needs that a "start" or "healthy" in the stream is still so or is taken back further on (`WordsAreReal`). What was said is in what is remembered (`SaidIsRemembered`): a container in trouble is not forgotten |
| `LiveProofs!FilesKeepTheLog` | `FilesAreTheLog` | `OrderInv`: the days' files and then the buffer are in order, whatever is flushed, lost or purged, and a follower that reads has passed the last of their lines or will skip to it, but for the lines it takes up again because the newest file told it nothing (`reread`, which does not weaken what is said of any other line); `RecordInv`, as long as no call failed and no event was missed: of every end not handled yet, what the run printed is kept, or a follower that reads that run is behind it or will start again, or a start comes first in the stream |

Assumptions are those of the modules: names that differ (a free entry is no kind), finitely
many calls, an app for every container, settings of the right shape, a bound on the clock
that leaves a week before it, a queue with room for one message, an ancestry of commits that
has no circles (`GitDeploy`), places and containers that are there (`BackupCopies`), images
with a tag that is one or with a digest (`ImageUpdates`), a calendar of at least a day
(`LogFollow`). None of them is about the order of events.

Every safety property of every passing run is stated by a theorem: as it is, or, where a
temporal property has a safety part and a liveness part (`DueIsRun`, `WebhooksSettle`,
`RepositoriesAreWatched`, `StoreKeepsACatalogue`, `AlertsAreTrue`), in its safety part.

Model-checked only: every liveness property and part, since liveness under fairness and
ENABLED are out of the prover's reach. That is `ComesBack` (`scheduler`),
`DockerComesBack` (`location`), `OperationsEnd` (`git`), `NothingHangs` (`compose`),
`RunAnswersForEach` (`stores`), and what the five above say beyond their safety part.

No module uses a RECURSIVE operator.

## Where code and documents differ

Shown by a run:

- `scheduler_broken`: `backup_scheduler.go:198` says nothing is deleted after a failure, since
  retention "could drop a good backup from last week in favour of a broken one from tonight".
  The retention after the next backup that lands counts the broken run, and drops the good one.
- `location_mixed`: `dockerlocation.go:1685` says `dropCopies` deletes "never a folder Docker
  uses". After an undo that could not unmount one area, a move back that is cut takes the live
  folder of the other area for the new copy.
- `compose_stale`: `compose_app.go:942` says "disk and running state never diverge". The undo
  puts the file back and starts the definition the request had loaded before its claim.
- `restore_elsewhere`: `backup_restore.go:26` says that what the app no longer declares is
  "reported, not written somewhere it was not asked for". Binds are paired by their number
  (`backup_plan.go:92-136`, `backup_restore.go:213-239`), so a bind dropped since the backup
  shifts those after it, each into its neighbour's folder. The box's backup pairs by path.

Seen while modelling, without a run of their own; what a property excepts, it excepts by name:

- *Recovery.* `compose_recovery.go:31` says "Apps the user explicitly stopped are never
  restarted." The mark is under `/var/run/casaos` (`:53`, `README.md:55`), which a reboot
  empties; and it is written only once the app is down (`compose_app.go:1379`, `:1388`), with a
  failure that is logged (`compose_recovery.go:62-70`). So an app its owner stopped is started by
  the sweep after a reboot, when the service was killed between the two, when the mark could not
  be written, and when the sweep had looked for it just before (`:130`). A stop claims nothing,
  and the undo of a save may start the app again over it.
- *Hold.* A release that could not start a container erases its note all the same
  (`backup_hold.go:129`, against the comment at `:126`), and a second hold of the app erases
  the note a failed recovery kept. The box has no note: a kill while its services are stopped
  leaves them stopped.
- *Scheduler.* The owner's save of the schedules reads `LastRun`, lets go of the lock and writes
  it back (`route/v2/backup.go:370-394`): a run recorded in between is forgotten, and its slot
  run twice. Nothing refuses two schedules of one app and destination (`:362-401`): a recorded
  run then marks both (`backup_scheduler.go:174`). The flag of an upgrade is looked for once per
  tick of the repository checks (`restic_check.go:131`), not before each, as the backups do
  (`:123`).
- *Copies.* A backup's plan is made before a wait of up to ten minutes for the app. Two jobs
  about the box do not exclude each other. An engine switched in the middle of a run splits
  the run, and a deletion takes the repository's half first. A kill in `Enable` between the key
  and the repository (`pkg/restic/engine.go:249`) leaves a key without a repository, and the
  stamped copies cannot be read until it is made, against "stay listed, restorable"
  (`pkg/restic/router.go:28`). A bind of one file comes up as a folder on a box that does not
  have it. A restore uses what was installed when it was asked for. A deletion of a run in
  progress can leave a manifest without its data; a deleted destination keeps its restic key.
- *Docker's data.* The error of a `systemctl start` is ignored (`dockerlocation.go:928-936`). A
  start that ends a move is looked at by what follows it, and undone; one that ends the undo or
  the recovery is not, so docker, or what ran on it, may stay down, against "Docker is never left
  stopped by an interrupted move" (`:1492`), and a move that says "everything was put back as it
  was" (`:741`) may have left it so. `unstarted` names it. A boot without the drive, during the
  recovery of a move: docker starts on what is there (`dockerlocation.go:1487`, `:1738`). With
  three cuts it loses data: one just after the units of a move to the folder were written, so
  that the boot mounts them and the apps write there; one into a boot without the drive, where
  the recovery cannot tell and undoes the switch (against "a switch that had ended is kept",
  `:1509`); and one in the middle of that undo, with the drive back: the next recovery goes on
  with it and deletes the newer copy (`dropCopies`). `blind` names it. The list of the old copy
  is written after its folders are deleted (`:1469-1477`): a stop between leaves paths listed
  that are gone, the next move keeps them (`:673`) and may put the live data at one of them
  (`.casaos-old`), and once an undo of that move failed too, what is offered for deletion is the
  only good copy. `relisted` names it; `inUse` does not know the path.
- *Git apps.* The images of versions that left the history are removed before the state file
  that forgets them is written (`git_deploy.go:509`): a stop in between leaves a file that
  names a version without images. The list of what was tried holds twenty commits, and the
  automatic rebuild may try again what fell off it (`git_app_state.go:389-399`). A restore moves
  the folder to the backup's commit before anything else (`git_restore.go:136`): it drops a commit
  made there by hand; stopped right after, it leaves an adopted app in a folder its history does
  not know; and that a commit is older than the deployed one is found out only then, by the
  deployment, which refuses it (`git_deploy.go:379-383`). A queued check that gave up after half
  an hour, or was killed, takes the pushes that joined it along, which were answered that they
  would be looked at (`git_webhook_receive.go:168`); the poll finds them.
- *Compose apps.* The save of a `.env` reads the compose file before it claims the app
  (`compose_app.go:1261`) and may write an older one back; an install over an app whose
  write fails removes that app's folder (`compose_service.go:88`).
- *Logs.* A day's file is created before its first write (`pkg/logstore/writer.go:97`). After a
  write that failed, or a kill in between, the newest file is empty, and the last line is looked
  for there only (`:153-155`): the next follower takes up the retention again, and lines are on
  disk twice, against "from where its files stop" (`logs_follow.go:21-22`). A page flushes first
  and looks at the clock after (`store.go:92-98`): a line that comes between the two and is old
  enough by then is passed over, against "must not pass a line still in a buffer". A page has 500
  events at most, the latest (`query.go:140`); the others are in no page. The end of a container
  waits up to `dieDrain` (2 s) for its last lines, longer than the second a page holds back, so a
  poll forwards may pass the event.
- *Watch.* A container that was in trouble and is removed keeps its app from ever being said to
  be healthy. Messages leave in goroutines of their own: their order on the bus is nobody's.
- *The bus.* A publish that fails, is refused or takes too long is logged, and that is all
  (`service.go:116-158`). The bus then keeps its last word on an alert until the next one. A fault
  of a repository is recorded as if it had been told (`restic_check.go:199`, `:208-209`, where the
  fault is said to be "in the log, on the bus and in this file"), and found again a day later.
- *Catalogues.* A store removed and registered again is not downloaded when the size is the
  same. The cron's reload of the settings undoes a registration that is not written yet, and a
  kill while the settings are written (`pkg/config/init.go:96`) loses the list of stores. A
  `.backup` that a kill left is never read back.
- *Updates.* A sweep in flight puts back an answer the update of an app forgot; an
  uninstallation leaves the page's answer of the hour; a kill between an update and its
  forgetting leaves the badge. A catalogue refreshed between the decision and the writing is
  written without asking again whether it goes backwards. `1.2` and `1.2.0` are each offered
  for the other, and digests have no order.

## What the models assume

- `AppOperations`: of several kinds of mark on one app, which one the list names is left open.
- `UpgradeWindow`: the core asks until the list is empty and upgrades then; it closes in any
  way. What a copy does is not here.
- `BackupHold`: nobody else starts or stops the containers. The owner's start, which asks no
  one, and the sweep may; no document promises otherwise.
- `BackupScheduler`: one schedule per app and destination, which nothing in the code enforces; with
  two of one key, a run of either is recorded for both. Clock changes, the log and the events are
  left out.
- `BackupCopies`: one app or the box, not deployed from git; a place holds a set of files, and
  an app that runs writes to some places and not to others; manifests of another format or
  another app are refused before anything happens and left out; containers are stopped and
  started as one.
- `DockerLocation`: what fails is a command (systemctl, rsync, sync, docker) or a file
  operation of the forward switch. File operations of an undo or of a recovery succeed, but
  where the code itself decides on a folder that is not empty; so do the writes of the state
  file, whose errors the code only logs. One target folder; docker and containerd are one
  service; the drive is absent at boots only. After a cut, what the apps write counts when the
  move had switched nothing yet, or had ended its switch and is not being undone.
- `GitDeploy`: writes of the state file succeed; commits by hand happen between operations;
  all services with a build section are one image per commit; one cloned app whose owner
  turned the automatic deployments on; pushes to the branch come at the points where an
  operation looks at the remote. What of an attempt later steps read is kept as `ran` and
  `built`. `seen.lost` are versions whose images or whose ref went before a state file that
  forgets them was written (the prune that a stop cuts short, the ref a refused deployment drops).
- `RepositoryChecks`: a record is its age, in days; the listing of the destinations does not fail;
  `untold` are the faults a tick found and the bus has not, since of one asked for by hand
  somebody sees the answer.
- `GitWebhook`: the app is registered at first; the files can be read and written; every delivery
  is of a push, its body within the limit, signed with some secret the box has shown. `asked` is
  that the remote was asked, also where its answer is an error, which the check records.
- `ComposeApp`: all definitions name the same services (so no orphans), one compose file, not
  a git app; a pull that fails is reported and not returned; a restart is a start; an update
  always reads the file again, under its claim, as the code does; a write that fails leaves
  the old content or the new. It starts on an installed app and a box that has been up for a
  while.
- `AppStore`: a catalogue is its size; the file system fails only where a download or a build
  does. `ImageUpdates`: one updater at a time, one verdict of the registry per app.
- `LogHub`: the array under the queue is a sequence. `LogFollow`: one container, whose lines
  come in the order of their time; a write that fails may have written some of the lines, whole.
  `LogPages`: no purge, no day's end, one page at a time, and a flush does not fail (a line a flush
  lost is in no file, and `LogFollow` has it).
- `DockerWatch`: ages stop growing where they no longer matter, and a minute does not end
  before its events were read. `Sampler`: one identity; the evaluator of the rules is another
  repository's, modelled from what this code hands it.

**Not modelled**, and why, per component in `PROJECT.json`: what is planned below (the access
keys and the adoption of git apps; the log of backups), and what a state machine has nothing to
say about (compose parsing, the environment text, interpolation; the containers and images of the
first interface, which are calls passed on; the HTTP routes; rendering, decoding, configuration).

## The plan

Done, most important first: the operation table and the upgrade handshake (they decide what
may run at all), the hold (it stops apps), the scheduler (it deletes backups), what a backup
holds, docker's data (it moves everything the owner has), git apps (they change what runs by
themselves), compose apps and the sweep, the catalogues and the updates, the logs, the watch
and the alerts.

Next, in this order:

1. git apps: the first clone, adoption and removal around `GitDeploy`, with the access keys.
2. The log of backups.
3. A composition of `BackupCopies` with two apps, whose runs share a destination.

Abstract specifications worth stating next: "a place holds the data" of `DockerLocation`
(whatever the script does, the owner's data moves from one place to another in one step);
"what serves" of `GitDeploy` and `ComposeApp`; the log a container printed, of `LogFollow`.

Theorems worth proving next: these refinements. `HeldFolder` and `HeldDefault`
(`DockerLocationProofs`), `ServeInv` (`GitDeployProofs`), `RunInv` (`ComposeAppProofs`) and
`RecordInv` (`LiveProofs`) say already where the abstract value is at each step.
