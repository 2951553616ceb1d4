-------------------------- MODULE RepositoryChecks --------------------------
(***************************************************************************)
(* The checks of the restic repositories: service/restic_check.go. The     *)
(* tick looks every hour which are due, an owner asks for one by hand;     *)
(* one check at a time, a fault is told on the bus before it is written,   *)
(* whether the bus took it or not.                                         *)
(*                                                                         *)
(* A record is known by its age, and an age stops growing once everything  *)
(* is due at it. A file that is gone and one that cannot be read are the   *)
(* same: every repository is due, and the next record starts it again.     *)
(***************************************************************************)
EXTENDS Naturals

CONSTANTS
  Repos,               \* destinations
  Lookers,            \* ticks and checks by hand, at a time
  Every, AfterFault,   \* resticCheckEvery, resticCheckAfterFault
  MaxUpsets            \* bound: kills, requests, upgrades, files lost, repositories that change

NoOne == "no one"

ASSUME PeriodsAreNatural ==
  /\ {Every, AfterFault, MaxUpsets} \subseteq Nat /\ 0 < AfterFault /\ AfterFault <= Every
  /\ NoOne \notin Lookers

VARIABLES
  record,    \* restic-checks.json: of each repository ok and age, or Never
  looking,      \* who holds resticCheckBusy, NoOne
  look,   \* a tick or a check by hand: where it is (at), what it found due (left), the
             \* repository (repo), what came out (ok), the time since its `now` (since)
  kept,      \* the destinations kept with restic
  sound,     \* the repositories in order
  upgrading,      \* an upgrade of the system is open
  untold,    \* ghost: the faults a tick found that the bus has not
  unheard,   \* ghost: those of a publish that failed
  upsets     \* counter behind the bound

checkVars == <<record, looking, look, kept, sound, upgrading, untold, unheard, upsets>>

Never == [ok |-> FALSE, age |-> Every]
NoLook == [at |-> "idle", hand |-> FALSE, left |-> {}, repo |-> "none", ok |-> TRUE, since |-> 0]
Older(age) == IF age < Every THEN age + 1 ELSE age

ChecksInit ==
  /\ record = [r \in Repos |-> Never] /\ looking = NoOne
  /\ look = [c \in Lookers |-> NoLook]
  /\ kept \in SUBSET Repos /\ sound = Repos /\ upgrading = FALSE /\ upsets = 0
  /\ untold = {} /\ unheard = {}

around == <<kept, sound, upgrading, upsets>>
faults == <<untold, unheard>>

\* resticCheckDue: never checked, a week ago, or a day ago when it found a fault.
Due(r) == record[r].age >= IF record[r].ok THEN Every ELSE AfterFault

-----------------------------------------------------------------------------
(***************************************************************************)
(* RunDueResticChecks: what is due is read once, under the lock.           *)
(***************************************************************************)
TickStarts(c) ==
  /\ look[c].at = "idle" /\ looking = NoOne /\ ~upgrading
  /\ looking' = c
  /\ look' = [look EXCEPT ![c] = [NoLook EXCEPT !.at = "next", !.left = {r \in Repos : Due(r)}]]
  /\ UNCHANGED <<record, faults, around>>

\* Whether a destination is kept with restic is asked as its turn comes.
NextRepo(c) ==
  /\ look[c].at = "next"
  /\ \E r \in look[c].left :
       look' = [look EXCEPT ![c].left = @ \ {r}, ![c].repo = r,
                                  ![c].at = IF r \in kept THEN "check" ELSE "next"]
  /\ UNCHANGED <<record, looking, faults, around>>

TickEnds(c) ==
  /\ look[c].at = "next" /\ look[c].left = {}
  /\ looking' = NoOne /\ look' = [look EXCEPT ![c] = NoLook]
  /\ UNCHANGED <<record, faults, around>>

\* StartResticCheck, which no upgrade holds off.
HandStarts(c, r) ==
  /\ look[c].at = "idle" /\ looking = NoOne /\ upsets < MaxUpsets /\ upsets' = upsets + 1
  /\ looking' = c
  /\ look' = [look EXCEPT ![c] = [NoLook EXCEPT !.at = "check", !.hand = TRUE, !.repo = r]]
  /\ UNCHANGED <<record, faults, kept, sound, upgrading>>

-----------------------------------------------------------------------------
(***************************************************************************)
(* checkResticDestination.                                                 *)
(***************************************************************************)
Writes(c, ok) == record' = [record EXCEPT ![look[c].repo] = [ok |-> ok, age |-> look[c].since]]

Untold(c, ok) ==
  LET r == {look[c].repo} IN
  CASE ok -> untold' = untold \ r /\ unheard' = unheard \ r
    [] ~ok /\ ~look[c].hand -> untold' = untold \cup r /\ unheard' = unheard \ r
    [] OTHER -> UNCHANGED faults

\* Mutant: what came out is written, and then told.
ChecksAndWrites(c) ==
  /\ look[c].at = "check"
  /\ \E ok \in {FALSE, look[c].repo \in sound} :
       /\ look' = [look EXCEPT ![c].at = IF ok THEN "write" ELSE "tell", ![c].ok = ok]
       /\ Untold(c, ok) /\ Writes(c, ok)
  /\ UNCHANGED <<looking, around>>

\* A check fails on a repository in order too: a timeout, an error of the remote.
Checks(c) ==
  /\ look[c].at = "check"
  /\ \E ok \in {FALSE, look[c].repo \in sound} :
       /\ look' = [look EXCEPT ![c].at = IF ok THEN "write" ELSE "tell", ![c].ok = ok]
       /\ Untold(c, ok)
  /\ UNCHANGED <<record, looking, around>>

\* PublishEventWrapper, which only logs that the bus did not take it.
Tells(c) ==
  /\ look[c].at = "tell"
  /\ LET r == {look[c].repo} IN
     \/ untold' = untold \ r /\ unheard' = unheard \ r
     \/ unheard' = unheard \cup (r \cap untold) /\ UNCHANGED untold
  /\ look' = [look EXCEPT ![c].at = "write"]
  /\ UNCHANGED <<record, looking, around>>

\* recordResticCheck, whose error is only logged. A check by hand ends with it.
Records(c) ==
  /\ look[c].at = "write"
  /\ Writes(c, look[c].ok) \/ UNCHANGED record
  /\ IF look[c].hand
     THEN looking' = NoOne /\ look' = [look EXCEPT ![c] = NoLook]
     ELSE UNCHANGED looking /\ look' = [look EXCEPT ![c].at = "next"]
  /\ UNCHANGED <<faults, around>>

LookGoesOn(c) == NextRepo(c) \/ TickEnds(c) \/ Checks(c) \/ Tells(c) \/ Records(c)

-----------------------------------------------------------------------------
TimePasses ==
  /\ record' = [r \in Repos |-> [record[r] EXCEPT !.age = Older(@)]]
  /\ look' = [c \in Lookers |->
       IF look[c].at = "idle" THEN look[c] ELSE [look[c] EXCEPT !.since = Older(@)]]
  /\ UNCHANGED <<looking, faults, around>>

Upset == upsets < MaxUpsets /\ upsets' = upsets + 1

KillChecks ==
  /\ Upset /\ looking' = NoOne /\ look' = [c \in Lookers |-> NoLook]
  /\ UNCHANGED <<record, kept, sound, upgrading, faults>>

LosesFile ==
  /\ Upset /\ record' = [r \in Repos |-> Never]
  /\ UNCHANGED <<looking, look, kept, sound, upgrading, faults>>

\* A pack is lost or mended; an owner turns restic on or off for a destination.
RepoChanges(r) ==
  /\ Upset
  /\ \/ sound' = (IF r \in sound THEN sound \ {r} ELSE sound \cup {r}) /\ UNCHANGED kept
     \/ kept' = (IF r \in kept THEN kept \ {r} ELSE kept \cup {r}) /\ UNCHANGED sound
  /\ UNCHANGED <<record, looking, look, upgrading, faults>>

UpgradeOpens == Upset /\ ~upgrading /\ upgrading' = TRUE /\ UNCHANGED <<record, looking, look, kept, sound, faults>>
UpgradeCloses == upgrading /\ upgrading' = FALSE /\ UNCHANGED <<record, looking, look, kept, sound, faults, upsets>>

ChecksNext ==
  \/ \E c \in Lookers : TickStarts(c) \/ LookGoesOn(c)
  \/ \E c \in Lookers, r \in Repos : HandStarts(c, r)
  \/ TimePasses \/ KillChecks \/ LosesFile \/ UpgradeOpens \/ UpgradeCloses
  \/ \E r \in Repos : RepoChanges(r)

ChecksSpec == ChecksInit /\ [][ChecksNext]_checkVars

\* Cron ticks, calls return within resticCheckLimit, time passes and an upgrade is over one day.
CronTicksChecks == \E c \in Lookers : TickStarts(c)
ChecksFairness ==
  /\ \A c \in Lookers : WF_checkVars(LookGoesOn(c))
  /\ WF_checkVars(CronTicksChecks) /\ WF_checkVars(TimePasses) /\ WF_checkVars(UpgradeCloses)
FairChecksSpec == ChecksSpec /\ ChecksFairness

-----------------------------------------------------------------------------
(***************************************************************************)
(* "A repository nobody looks at is a repository nobody knows is good":    *)
(* while it is kept with restic it is checked again and again, after a     *)
(* fault, a kill, a record that could not be written; "a failing check is  *)
(* not tried again every minute", since the tick checks what is due by the *)
(* file as it is then, though it read it hours before; and "a `no` is told *)
(* on the message bus": a fault a tick found and did not tell, killed in   *)
(* between, is still due, so that it is found again at the next tick. One  *)
(* whose publish failed (`unheard`) is written down as if it was told, but *)
(* as a fault: due again after AfterFault, and never counted as in order.  *)
(***************************************************************************)
Looked(r) == \E c \in Lookers : look[c].at = "check" /\ look[c].repo = r
TicksLookAt(c, r) == look[c].at = "next" /\ look'[c].at = "check" /\ look'[c].repo = r
Telling(r) == \E c \in Lookers : look[c].at = "tell" /\ look[c].repo = r

NoneTooSoon == [][\A c \in Lookers, r \in Repos : TicksLookAt(c, r) => Due(r)]_checkVars
FoundAgain(r) == Due(r) \/ Telling(r)
AgainSoon(r) == r \in unheard /\ ~record[r].ok

RepositoriesAreWatched ==
  /\ \A r \in Repos : []<>(Looked(r) \/ r \notin kept)
  /\ NoneTooSoon
  /\ [](\A r \in untold : FoundAgain(r) \/ AgainSoon(r))
=============================================================================
