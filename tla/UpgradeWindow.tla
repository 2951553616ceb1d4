---------------------------- MODULE UpgradeWindow ----------------------------
(***************************************************************************)
(* What the box does by itself, and the operating system upgrade           *)
(* (service/backup_upgrade_hold.go and its callers).                       *)
(*                                                                         *)
(* The core writes a flag file and then asks RunningOperations until it is *)
(* empty; a scheduled backup and an automatic deployment list themselves   *)
(* first and look for the flag after. The module composes the table of     *)
(* AppOperations with the tick of the scheduled backups, the git apps'     *)
(* checks and deployments, the weekly repository checks, whatever somebody *)
(* clicks, and the core, which is not in this repository and is modelled   *)
(* from the way this service answers it.                                   *)
(*                                                                         *)
(* A backup is listed twice while it copies: by the tick, and again by     *)
(* RunBackup; retention is listed a second time too. What the copy itself  *)
(* does to the app is the business of BackupHold.                          *)
(***************************************************************************)
EXTENDS AppOperations

CONSTANTS
  Backups,        \* the schedules: one app and one destination each
  GitApps,        \* the registered git apps, by the name of their app
  Clicks,         \* operations somebody asked for
  Destinations,   \* the destinations kept with restic
  AppOf,          \* the app of a schedule
  Backup, Check, Deploy, Update   \* the kinds of operation these are

(* The closures: the tick's own mark, the mark inside the run, the hold of a *)
(* check and of the deployment it becomes, and the hold of a click.          *)
Listed(b) == <<"schedule", b>>
Inside(b) == <<"run", b>>
Git(g) == <<"git", g>>
Click(c) == <<"click", c>>

ASSUME CallersAssumption ==
  /\ AppOf \in [Backups -> Apps]
  /\ GitApps \subseteq Apps
  /\ {Backup, Check, Deploy, Update} \subseteq Kinds
  /\ Handles = {Listed(b) : b \in Backups} \cup {Inside(b) : b \in Backups}
                 \cup {Git(g) : g \in GitApps} \cup {Click(c) : c \in Clicks}

VARIABLES
  busy,       \* the flag file of the core is there
  core,       \* what the core is about: "away", "asking" or "upgrading"
  due,        \* the schedules the running tick still has to do
  backup,     \* schedule -> how far its backup is
  git,        \* git app -> how far its check or deployment is
  toCheck,    \* the destinations the running restic tick still has to check
  checking    \* the destination being checked, as a set of at most one

tickVars == <<due, backup>>
resticVars == <<toCheck, checking>>
windowVars == <<running, marked, op, busy, core, due, backup, git, toCheck, checking>>

BackupStages == {"idle", "listed", "copying", "copied", "retaining"}
GitStages == {"idle", "looked", "checking", "deploying"}

WindowInit ==
  /\ Init
  /\ busy = FALSE
  /\ core = "away"
  /\ due = {}
  /\ backup = [b \in Backups |-> "idle"]
  /\ git = [g \in GitApps |-> "idle"]
  /\ toCheck = {}
  /\ checking = {}

LooksClosed_OnError == busy \in BOOLEAN

(* osUpgradeOpen: only a file that is not there means no upgrade. Any error  *)
(* of the stat is taken for an open one, so the answer is yes whatever the   *)
(* flag is, and no only without the flag.                                    *)
LooksClosed == ~busy
LooksOpen == busy \in BOOLEAN

-----------------------------------------------------------------------------
(* RunDueBackups: one tick at a time, one backup after another.              *)
StartTick ==
  /\ due = {}
  /\ due' \in SUBSET Backups \ {{}}
  /\ UNCHANGED <<running, marked, op, busy, core, backup, git, resticVars>>

ListBackup(b) ==
  /\ b \in due
  /\ \A c \in Backups : backup[c] = "idle"
  /\ Mark(Listed(b), AppOf[b], Backup)
  /\ backup' = [backup EXCEPT ![b] = "listed"]
  /\ UNCHANGED <<busy, core, due, git, resticVars>>

BreakTick(b) ==
  /\ backup[b] = "listed"
  /\ LooksOpen
  /\ Done(Listed(b))
  /\ backup' = [backup EXCEPT ![b] = "idle"]
  /\ due' = {}
  /\ UNCHANGED <<busy, core, git, resticVars>>

(* The runner starts. RunBackup marks the app a second time.                 *)
StartCopy(b) ==
  /\ backup[b] = "listed"
  /\ LooksClosed
  /\ Mark(Inside(b), AppOf[b], Backup)
  /\ backup' = [backup EXCEPT ![b] = "copying"]
  /\ UNCHANGED <<busy, core, due, git, resticVars>>

EndCopy(b) ==
  /\ backup[b] = "copying"
  /\ Done(Inside(b))
  /\ backup' = [backup EXCEPT ![b] = "copied"]
  /\ UNCHANGED <<busy, core, due, git, resticVars>>

(* ApplyRetention, after a run that succeeded, under a mark of its own.      *)
StartRetention(b) ==
  /\ backup[b] = "copied"
  /\ Mark(Inside(b), AppOf[b], Backup)
  /\ backup' = [backup EXCEPT ![b] = "retaining"]
  /\ UNCHANGED <<busy, core, due, git, resticVars>>

EndRetention(b) ==
  /\ backup[b] = "retaining"
  /\ Done(Inside(b))
  /\ backup' = [backup EXCEPT ![b] = "copied"]
  /\ UNCHANGED <<busy, core, due, git, resticVars>>

(* listed(): the mark goes, and the next schedule of the tick has its turn.  *)
Unlist(b) ==
  /\ backup[b] = "copied"
  /\ Done(Listed(b))
  /\ backup' = [backup EXCEPT ![b] = "idle"]
  /\ due' = due \ {b}
  /\ UNCHANGED <<busy, core, git, resticVars>>

-----------------------------------------------------------------------------
(* CheckGitApps looks before each app; a check by hand or a push that was    *)
(* queued does not. beginGitCheck claims the app, or leaves it for later.    *)
LookToCheck(g) ==
  /\ git[g] = "idle"
  /\ LooksClosed
  /\ git' = [git EXCEPT ![g] = "looked"]
  /\ UNCHANGED <<running, marked, op, busy, core, tickVars, resticVars>>

TakeForCheck(g) ==
  /\ git[g] \in {"idle", "looked"}
  /\ Begin(Git(g), g, Check)
  /\ git' = [git EXCEPT ![g] = "checking"]
  /\ UNCHANGED <<busy, core, tickVars, resticVars>>

AppIsBusy(g) ==
  /\ git[g] = "looked"
  /\ ~CanBegin(g)
  /\ git' = [git EXCEPT ![g] = "idle"]
  /\ UNCHANGED <<running, marked, op, busy, core, tickVars, resticVars>>

(* deployGitAppAutomatically: with the app held, look, then pass the hold on *)
(* to the deployment. Nothing to deploy and an open upgrade both end it.     *)
EndCheck(g) ==
  /\ git[g] = "checking"
  /\ End(Git(g))
  /\ git' = [git EXCEPT ![g] = "idle"]
  /\ UNCHANGED <<busy, core, tickVars, resticVars>>

StartDeployment(g) ==
  /\ git[g] = "checking"
  /\ LooksClosed
  /\ HandOver(Git(g), Deploy)
  /\ git' = [git EXCEPT ![g] = "deploying"]
  /\ UNCHANGED <<busy, core, tickVars, resticVars>>

EndDeployment(g) ==
  /\ git[g] = "deploying"
  /\ End(Git(g))
  /\ git' = [git EXCEPT ![g] = "idle"]
  /\ UNCHANGED <<busy, core, tickVars, resticVars>>

-----------------------------------------------------------------------------
(* RunDueResticChecks: the flag is looked for once, then every destination   *)
(* that is due is checked, one at a time, listed nowhere.                    *)
StartResticTick ==
  /\ toCheck = {} /\ checking = {}
  /\ LooksClosed
  /\ toCheck' \in SUBSET Destinations \ {{}}
  /\ UNCHANGED <<running, marked, op, busy, core, tickVars, git, checking>>

StartResticCheck(d) ==
  /\ d \in toCheck /\ checking = {}
  /\ checking' = {d}
  /\ toCheck' = toCheck \ {d}
  /\ UNCHANGED <<running, marked, op, busy, core, tickVars, git>>

EndResticCheck ==
  /\ checking # {}
  /\ checking' = {}
  /\ UNCHANGED <<running, marked, op, busy, core, tickVars, git, toCheck>>

-----------------------------------------------------------------------------
(* What somebody clicks is not held back by an upgrade.                      *)
ClickBegins(c) ==
  /\ \E a \in Apps : Begin(Click(c), a, Update)
  /\ UNCHANGED <<busy, core, tickVars, git, resticVars>>

(* A backup by hand that holds its app still waits for it: beginWaiting.     *)
ClickWaits(c) ==
  /\ \E a \in Apps : StartWaiting(Click(c), a, Backup)
  /\ UNCHANGED <<busy, core, tickVars, git, resticVars>>

ClickAsks(c) ==
  /\ Ask(Click(c))
  /\ UNCHANGED <<busy, core, tickVars, git, resticVars>>

ClickEnds(c) ==
  /\ End(Click(c))
  /\ UNCHANGED <<busy, core, tickVars, git, resticVars>>

CallReturns(h) ==
  /\ Return(h)
  /\ UNCHANGED <<busy, core, tickVars, git, resticVars>>

(* The core: the flag first, then the question, then the upgrade; it asks    *)
(* again while anything is listed, and may close the upgrade at any time.    *)
OpenUpgrade ==
  /\ core = "away"
  /\ busy' = TRUE
  /\ core' = "asking"
  /\ UNCHANGED <<running, marked, op, tickVars, git, resticVars>>

StartUpgrade ==
  /\ core = "asking"
  /\ RunningOperations = {}
  /\ core' = "upgrading"
  /\ UNCHANGED <<running, marked, op, busy, tickVars, git, resticVars>>

CloseUpgrade ==
  /\ core \in {"asking", "upgrading"}
  /\ busy' = FALSE
  /\ core' = "away"
  /\ UNCHANGED <<running, marked, op, tickVars, git, resticVars>>

WindowNext ==
  \/ StartTick
  \/ \E b \in Backups :
       \/ ListBackup(b) \/ BreakTick(b) \/ StartCopy(b) \/ EndCopy(b)
       \/ StartRetention(b) \/ EndRetention(b) \/ Unlist(b)
  \/ \E g \in GitApps :
       \/ LookToCheck(g) \/ TakeForCheck(g) \/ AppIsBusy(g) \/ EndCheck(g)
       \/ StartDeployment(g) \/ EndDeployment(g)
  \/ StartResticTick \/ EndResticCheck
  \/ \E d \in Destinations : StartResticCheck(d)
  \/ \E c \in Clicks : ClickBegins(c) \/ ClickWaits(c) \/ ClickAsks(c) \/ ClickEnds(c)
  \/ \E h \in Handles : CallReturns(h)
  \/ OpenUpgrade \/ StartUpgrade \/ CloseUpgrade

WindowSpec == WindowInit /\ [][WindowNext]_windowVars

-----------------------------------------------------------------------------
WindowTypeOK ==
  /\ TypeOK
  /\ busy \in BOOLEAN
  /\ core \in {"away", "asking", "upgrading"}
  /\ due \in SUBSET Backups
  /\ backup \in [Backups -> BackupStages]
  /\ git \in [GitApps -> GitStages]
  /\ toCheck \in SUBSET Destinations
  /\ checking \in SUBSET Destinations

BackupRuns(b) == backup[b] \in {"copying", "copied", "retaining"}
DeploymentRuns(g) == git[g] = "deploying"

(* "one of the two always sees the other": once the core took an empty list  *)
(* for an answer, no scheduled backup, with its retention, and no automatic  *)
(* deployment is under way, and none begins until the upgrade is closed.     *)
NothingRunsThroughUpgrade ==
  core = "upgrading" =>
    /\ \A b \in Backups : ~BackupRuns(b)
    /\ \A g \in GitApps : ~DeploymentRuns(g)

(* The core never waits for nothing and never misses anything: the list is   *)
(* empty exactly when no backup, check, deployment or click is in progress.  *)
ListTellsTheTruth ==
  RunningOperations = {} <=>
    /\ \A b \in Backups : backup[b] = "idle"
    /\ \A g \in GitApps : git[g] \in {"idle", "looked"}
    /\ \A c \in Clicks : ~Holding(Click(c))
=============================================================================
