----------------------------- MODULE GitWebhook -----------------------------
(***************************************************************************)
(* The webhook of one git app: service/git_webhook.go,                     *)
(* git_webhook_receive.go, and what of git_apps.go, git_app_state.go and   *)
(* git_restore.go makes, changes and removes the two files it needs.       *)
(*                                                                         *)
(* A forge delivers a push; the delivery is read, and under the lock of    *)
(* the webhooks its signature is compared, a check is started or queued,   *)
(* and the delivery is written down beside the secret it read. A queued    *)
(* check waits for the window of the debounce, then for the app. What the  *)
(* owner asks of the app takes the claim of the app first and the lock     *)
(* after; a delivery that holds the lock asks for the claim, and never     *)
(* waits for it.                                                           *)
(*                                                                         *)
(* The forge signs with any secret the box has ever shown. What the check  *)
(* finds is in GitDeploy: here it asks the remote, which shows it every    *)
(* push before that moment. Deliveries of other events, bodies too large,  *)
(* files that cannot be read or written and access keys are left out.      *)
(***************************************************************************)
EXTENDS Naturals, FiniteSetsExt

CONSTANTS
  Deliveries,     \* requests of the forge at a time
  Checkers,       \* goroutines of checks a webhook started, at a time
  MaxPushes, MaxSecrets, MaxKills \* bounds

ASSUME WebhookBounds == {MaxPushes, MaxSecrets, MaxKills} \subseteq Nat
ASSUME WebhookNames == {"nobody", "owner"} \cap Deliveries = {} /\ "nobody" \notin Checkers

VARIABLES
  registered,     \* <app>.json is there
  hook,           \* the secret in <app>.webhook, Off when there is no such file
  claim,          \* who holds the app in the table of operations
  lock,           \* who holds gitWebhooks
  pending, fresh, \* gitWebhookRuns: a check is queued; one was started within the debounce
  delivery,       \* a request: where it is (at), its signature (signed), the push it tells of,
                  \* the secret it read (read)
  checker,        \* where a check that a webhook started is
  owner,          \* the owner's request: where it is (at), what it asks (op)
  others,          \* a poll, a check by hand or a deployment: where it is
  open,           \* an upgrade of the system is open
  pushes,         \* the head of the remote's branch
  secrets, kills, \* counters behind the bounds
  wanted,         \* ghost: the secret the owner was shown last, Off when there is none
  asked,          \* ghost: the pushes the remote had when it was asked last
  promised        \* ghost: the last push of which a delivery was answered that it is looked at

hookVars == <<registered, hook, claim, lock, pending, fresh, delivery, checker, owner, others,
              open, pushes, secrets, kills, wanted, asked, promised>>

Off == 0
Nobody == "nobody"
Nothing == [at |-> "idle", signed |-> Off, push |-> 0, read |-> Off]
NoRequest == [at |-> "idle", op |-> "none"]

HookInit ==
  /\ registered = TRUE /\ hook = Off /\ wanted = Off
  /\ claim = Nobody /\ lock = Nobody /\ pending = FALSE /\ fresh = FALSE
  /\ delivery = [d \in Deliveries |-> Nothing]
  /\ checker = [c \in Checkers |-> "idle"]
  /\ owner = NoRequest /\ others = "idle" /\ open = FALSE
  /\ pushes = 0 /\ secrets = 0 /\ kills = 0 /\ asked = 0 /\ promised = 0

world == <<open, pushes, kills>>
appVars == <<registered, hook, wanted, secrets, owner>>
runVars == <<pending, fresh, checker, asked, promised>>

CheckerGoes(c, at) == checker' = [checker EXCEPT ![c] = at]

-----------------------------------------------------------------------------
(***************************************************************************)
(* A delivery: ReceiveGitWebhook.                                          *)
(***************************************************************************)
\* Both files were there when it came; its body is read without the lock.
Arrives(d, s) ==
  /\ delivery[d].at = "idle" /\ registered /\ hook # Off
  /\ delivery' = [delivery EXCEPT ![d] = [at |-> "body", signed |-> s, push |-> pushes, read |-> Off]]
  /\ UNCHANGED <<claim, lock, others, appVars, runVars, world>>

\* Asked again under the lock: it may have been turned off, or its secret replaced, meanwhile.
Compare(d) ==
  /\ delivery[d].at = "body" /\ lock = Nobody
  /\ IF registered /\ hook # Off /\ hook = delivery[d].signed
     THEN /\ lock' = d
          /\ delivery' = [delivery EXCEPT ![d].at = "schedule", ![d].read = hook]
     ELSE delivery' = [delivery EXCEPT ![d] = Nothing] /\ UNCHANGED lock
  /\ UNCHANGED <<claim, others, appVars, runVars, world>>

Answered(d) == delivery' = [delivery EXCEPT ![d].at = "save"]
Promises(d) == promised' = Max({promised, delivery[d].push})
Refused(d) == delivery' = [delivery EXCEPT ![d] = Nothing] /\ lock' = Nobody

\* A check is queued, in a goroutine of its own.
Queue(d, at) ==
  /\ pending' = TRUE
  /\ \E c \in Checkers : checker[c] = "idle" /\ CheckerGoes(c, at)
  /\ Answered(d) /\ Promises(d)
  /\ UNCHANGED <<claim, lock, fresh>>

\* beginGitCheck claims the app, or cannot prepare the check and answers an error.
CheckAtOnce(d) ==
  \/ /\ fresh' = TRUE
     /\ \E c \in Checkers : checker[c] = "idle" /\ CheckerGoes(c, "ask") /\ claim' = c
     /\ Answered(d) /\ Promises(d) /\ UNCHANGED <<lock, pending>>
  \/ Refused(d) /\ UNCHANGED <<claim, pending, fresh, checker, promised>>

ScheduleFrame == UNCHANGED <<others, appVars, asked, world>>

\* Mutant: under the lock, the delivery waits for the app to come free.
ScheduleWaitsForTheApp(d) ==
  /\ delivery[d].at = "schedule"
  /\ IF open
     THEN Answered(d) /\ UNCHANGED <<claim, lock, pending, fresh, checker, promised>>
     ELSE claim = Nobody /\ CheckAtOnce(d)
  /\ ScheduleFrame

\* scheduleGitWebhookCheck, the lock held: an upgrade holds it off, a queued check takes it
\* along, the window and a busy app queue it.
Schedule(d) ==
  /\ delivery[d].at = "schedule"
  /\ CASE open -> Answered(d) /\ UNCHANGED <<claim, lock, pending, fresh, checker, promised>>
       [] ~open /\ pending ->
            Answered(d) /\ Promises(d) /\ UNCHANGED <<claim, lock, pending, fresh, checker>>
       [] ~open /\ ~pending /\ fresh -> Queue(d, "window")
       [] ~open /\ ~pending /\ ~fresh /\ claim # Nobody -> Queue(d, "wait")
       [] OTHER -> CheckAtOnce(d)
  /\ ScheduleFrame

\* The file is written whole: the delivery, and the secret that was read.
WriteDelivery(d) ==
  /\ delivery[d].at = "save"
  /\ hook' = delivery[d].read
  /\ delivery' = [delivery EXCEPT ![d] = Nothing] /\ lock' = Nobody
  /\ UNCHANGED <<registered, claim, others, wanted, secrets, owner, runVars, world>>

-----------------------------------------------------------------------------
(***************************************************************************)
(* A queued check: runQueuedGitWebhookCheck, then runGitCheck.             *)
(***************************************************************************)
CheckerFrame == UNCHANGED <<delivery, others, appVars, world>>

\* waitForGitWebhookWindow, which looks under the lock.
WindowCloses(c) ==
  /\ checker[c] = "window" /\ ~fresh /\ lock = Nobody
  /\ CheckerGoes(c, "wait")
  /\ UNCHANGED <<claim, lock, pending, fresh, asked, promised>> /\ CheckerFrame

\* beginWaiting: the app, or after half an hour nothing.
GetsTheApp(c) ==
  /\ checker[c] = "wait" /\ claim = Nobody
  /\ claim' = c /\ CheckerGoes(c, "got")
  /\ UNCHANGED <<lock, pending, fresh, asked, promised>> /\ CheckerFrame

GivesUp(c) ==
  /\ checker[c] = "wait" /\ claim # Nobody
  /\ CheckerGoes(c, "gaveup")
  /\ UNCHANGED <<claim, lock, pending, fresh, asked, promised>> /\ CheckerFrame

\* Mutant: the queue is left only once the check is over.
StillQueued(c) ==
  /\ checker[c] \in {"got", "gaveup"} /\ lock = Nobody
  /\ IF checker[c] = "got"
     THEN fresh' = TRUE /\ CheckerGoes(c, "prepare") /\ UNCHANGED <<pending, promised>>
     ELSE pending' = FALSE /\ CheckerGoes(c, "idle") /\ promised' = 0 /\ UNCHANGED fresh
  /\ UNCHANGED <<claim, lock, asked>> /\ CheckerFrame

\* Out of the queue before the remote is asked: a push from here on queues a check of its own.
LeavesTheQueue(c) ==
  /\ checker[c] \in {"got", "gaveup"} /\ lock = Nobody
  /\ pending' = FALSE
  /\ IF checker[c] = "got"
     THEN fresh' = TRUE /\ CheckerGoes(c, "prepare") /\ UNCHANGED promised
     ELSE CheckerGoes(c, "idle") /\ promised' = 0 /\ UNCHANGED fresh
  /\ UNCHANGED <<claim, lock, asked>> /\ CheckerFrame

\* prepareGitCheck: the app may be gone, or its state cannot be written.
Prepares(c) ==
  /\ checker[c] = "prepare"
  /\ \/ registered /\ CheckerGoes(c, "ask") /\ UNCHANGED <<claim, promised>>
     \/ CheckerGoes(c, "idle") /\ claim' = Nobody /\ promised' = 0
  /\ UNCHANGED <<lock, pending, fresh, asked>> /\ CheckerFrame

Asks(c) ==
  /\ checker[c] = "ask"
  /\ asked' = pushes /\ CheckerGoes(c, "deploy")
  /\ UNCHANGED <<claim, lock, pending, fresh, promised>> /\ CheckerFrame

\* Whatever the automatic rebuild may deploy is over, and the claim let go.
EndsCheck(c) ==
  /\ checker[c] = "deploy"
  /\ claim' = Nobody /\ CheckerGoes(c, "idle")
  /\ UNCHANGED <<lock, pending, fresh, asked, promised>> /\ CheckerFrame

CheckGoesOn(c) ==
  \/ GetsTheApp(c) \/ GivesUp(c) \/ Prepares(c) \/ Asks(c) \/ EndsCheck(c)

-----------------------------------------------------------------------------
(***************************************************************************)
(* What else claims the app: CheckGitApps and CheckGitApp, deployments.    *)
(***************************************************************************)
OtherTakesTheApp ==
  /\ others = "idle" /\ claim = Nobody /\ registered
  /\ claim' = "other" /\ others' = "busy"
  /\ UNCHANGED <<lock, delivery, appVars, runVars, world>>

OtherAsks ==
  /\ others = "busy" /\ asked' = pushes
  /\ UNCHANGED <<claim, lock, delivery, others, appVars, pending, fresh, checker, promised, world>>

OtherEnds ==
  /\ others = "busy" /\ claim' = Nobody /\ others' = "idle"
  /\ UNCHANGED <<lock, delivery, appVars, runVars, world>>

-----------------------------------------------------------------------------
(***************************************************************************)
(* The owner: registers the app, changes its webhook, removes it (or       *)
(* uninstalls it), restores it from a backup. Each claims the app.         *)
(***************************************************************************)
OwnerFrame == UNCHANGED <<delivery, others, runVars, world>>
OwnerGoes(at) == owner' = [owner EXCEPT !.at = at]

\* UpdateGitApp refuses a new secret while the webhook is off; CreateGitApp a name in use.
Requests(op) ==
  /\ owner.at = "idle" /\ claim = Nobody
  /\ CASE op \in {"on", "off", "remove"} -> registered
       [] op = "renew" -> registered /\ hook # Off
       [] op = "register" -> ~registered
       [] OTHER -> TRUE
  /\ op \in {"on", "renew"} => secrets < MaxSecrets
  /\ claim' = "owner"
  /\ owner' = [at |-> CASE op = "remove" -> "forget" [] op = "register" -> "save" [] OTHER -> "set", op |-> op]
  /\ UNCHANGED <<registered, hook, lock, wanted, secrets>> /\ OwnerFrame

\* setGitWebhook, under its lock from the reading to the writing.
SetsWebhook ==
  /\ owner.at = "set" /\ lock = Nobody
  /\ IF owner.op = "renew" \/ (owner.op = "on" /\ hook = Off)
     THEN hook' = secrets + 1 /\ secrets' = secrets + 1
     ELSE hook' = (IF owner.op = "on" THEN hook ELSE Off) /\ UNCHANGED secrets
  /\ wanted' = hook'
  /\ OwnerGoes("save")
  /\ UNCHANGED <<registered, claim, lock>> /\ OwnerFrame

\* Mutant: the files of the app are removed without the lock.
ForgetsUnlocked ==
  /\ owner.at = "forget"
  /\ hook' = Off /\ wanted' = Off /\ OwnerGoes("forgetting")
  /\ UNCHANGED <<registered, claim, lock, secrets>> /\ OwnerFrame

\* forgetGitApp: the secret goes first, then the app.
Forgets ==
  /\ owner.at = "forget" /\ lock = Nobody
  /\ lock' = "owner" /\ hook' = Off /\ wanted' = Off
  /\ OwnerGoes("forgetting")
  /\ UNCHANGED <<registered, claim, secrets>> /\ OwnerFrame

ForgetsTheApp ==
  /\ owner.at = "forgetting"
  /\ registered' = FALSE /\ lock' = Nobody
  /\ OwnerGoes("save")
  /\ UNCHANGED <<hook, claim, wanted, secrets>> /\ OwnerFrame

\* saveGitApp, and the end of the claim; of a removal the end only.
OwnerSaves ==
  /\ owner.at = "save"
  /\ registered' = (owner.op # "remove")
  /\ owner' = NoRequest /\ claim' = Nobody
  /\ UNCHANGED <<hook, lock, wanted, secrets>> /\ OwnerFrame

\* A call before the files are written fails (docker, git, a write), or the state cannot be
\* written: what was done to the webhook stays.
OwnerFails ==
  /\ owner.at \in {"set", "forget", "save"}
  /\ owner' = NoRequest /\ claim' = Nobody
  /\ UNCHANGED <<registered, hook, lock, wanted, secrets>> /\ OwnerFrame

OwnerGoesOn == SetsWebhook \/ Forgets \/ ForgetsTheApp \/ OwnerSaves

-----------------------------------------------------------------------------
Push ==
  /\ pushes < MaxPushes /\ pushes' = pushes + 1
  /\ UNCHANGED <<claim, lock, delivery, others, open, kills, appVars, runVars>>

Upgrade ==
  /\ open' = ~open
  /\ UNCHANGED <<claim, lock, delivery, others, pushes, kills, appVars, runVars>>

DebounceEnds ==
  /\ fresh /\ fresh' = FALSE
  /\ UNCHANGED <<claim, lock, delivery, others, appVars, pending, checker, asked, promised, world>>

\* The files stay; what was queued or promised is forgotten.
KillService ==
  /\ kills < MaxKills /\ kills' = kills + 1
  /\ claim' = Nobody /\ lock' = Nobody /\ pending' = FALSE /\ fresh' = FALSE
  /\ delivery' = [d \in Deliveries |-> Nothing] /\ checker' = [c \in Checkers |-> "idle"]
  /\ owner' = NoRequest /\ others' = "idle" /\ promised' = 0
  /\ UNCHANGED <<registered, hook, wanted, secrets, asked, open, pushes>>

HookNext ==
  \/ \E d \in Deliveries : Compare(d) \/ Schedule(d) \/ WriteDelivery(d)
  \/ \E d \in Deliveries, s \in 1 .. secrets : Arrives(d, s)
  \/ \E c \in Checkers : CheckGoesOn(c) \/ WindowCloses(c) \/ LeavesTheQueue(c)
  \/ OtherTakesTheApp \/ OtherAsks \/ OtherEnds
  \/ \E op \in {"on", "off", "renew", "remove", "register", "restore"} : Requests(op)
  \/ OwnerGoesOn \/ OwnerFails
  \/ Push \/ Upgrade \/ DebounceEnds \/ KillService

HookSpec == HookInit /\ [][HookNext]_hookVars

\* Goroutines go on and time passes; sync.Mutex leaves nobody waiting for ever (its
\* starvation mode), while an operation of somebody else may hold the app for ever.
HookFairness ==
  /\ \A d \in Deliveries : SF_hookVars(Compare(d)) /\ WF_hookVars(Schedule(d) \/ WriteDelivery(d))
  /\ \A c \in Checkers :
       /\ WF_hookVars(CheckGoesOn(c))
       /\ SF_hookVars(WindowCloses(c) \/ LeavesTheQueue(c))
  /\ SF_hookVars(SetsWebhook \/ Forgets) /\ WF_hookVars(ForgetsTheApp \/ OwnerSaves)
  /\ WF_hookVars(DebounceEnds)
FairHookSpec == HookSpec /\ HookFairness

-----------------------------------------------------------------------------
(***************************************************************************)
(* setGitWebhook, forgetGitApp: "a delivery recorded meanwhile would write *)
(* the webhook's secret back". The secret on disk is the one the owner was *)
(* shown last and goes with the app, whatever deliveries cross a change;   *)
(* and none that was signed with an older one is acted on.                 *)
(***************************************************************************)
SecretIsTheOwners ==
  /\ hook # Off => registered
  /\ hook = wanted
  /\ \A d \in Deliveries : delivery[d].at \in {"schedule", "save"} => delivery[d].read = wanted

(***************************************************************************)
(* scheduleGitWebhookCheck: "so that a push landing after that check asked *)
(* the remote is still seen". A push that was answered as looked at has    *)
(* been asked for, or a check that has yet to ask is under way - unless it *)
(* gave up waiting, could not be prepared or was killed.                   *)
(***************************************************************************)
YetToAsk == {"window", "wait", "got", "gaveup", "prepare", "ask"}
PushesAreLookedAt ==
  promised > asked => \E c \in Checkers : checker[c] \in YetToAsk

(***************************************************************************)
(* gitWebhookDebounce, "the least time between two checks webhooks start   *)
(* for one app", and "one check waits at most".                            *)
(***************************************************************************)
Queued(c) == checker[c] \in {"window", "wait", "got", "gaveup"}
ChecksKeepApart ==
  [][/\ \A c \in Checkers : (checker[c] # checker'[c] /\ claim # c /\ claim' = c) => ~fresh
     /\ \A c, e \in Checkers : Queued(c)' /\ Queued(e)' => c = e]_hookVars

(***************************************************************************)
(* A delivery is answered, a change of the owner comes to its end and a    *)
(* queued check does too: the two locks never wait for each other, and the *)
(* checks that come of it keep apart.                                      *)
(***************************************************************************)
WebhooksSettle ==
  /\ ChecksKeepApart
  /\ \A d \in Deliveries : delivery[d].at # "idle" ~> delivery[d].at = "idle"
  /\ \A c \in Checkers : checker[c] # "idle" ~> checker[c] = "idle"
  /\ owner.at # "idle" ~> owner.at = "idle"
=============================================================================
