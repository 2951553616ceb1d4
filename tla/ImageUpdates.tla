---------------------------- MODULE ImageUpdates ----------------------------
(***************************************************************************)
(* service/image_update.go, the cached answers of appstore_management.go    *)
(* and the run of compose_update_all.go: which apps have an update on       *)
(* offer. A sweep asks the registries about every app and works for minutes *)
(* on the apps as it found them; the update of one app asks about that app; *)
(* a page of the dashboard asks and keeps the answer for an hour. The       *)
(* answers outlive the process, and the apps change in the meantime.        *)
(*                                                                         *)
(* Left out: an update asked for by hand while the run updates another app  *)
(* (there is one updater here), two saves of the answers at once, and what  *)
(* an update does to the containers, which is ComposeApp.                   *)
(***************************************************************************)
EXTENDS ImageTags

CONSTANTS Apps, Files, FirstFile, NotInstalled, NoEntry,  \* compose files (service -> image), the one at the start; none
          MaxTurns               \* bound: what happens to the apps, what is asked for, restarts

ASSUME UpdatesAssumption ==
  /\ {NotInstalled, NoEntry} \cap Files = {} /\ FirstFile \in Files /\ MaxTurns \in Nat
  /\ \A f \in Files : Tagged(f)

VARIABLES
  file, catalogue,      \* app -> its compose file, or NotInstalled; app -> the catalogue's
  moved,                \* apps with a container that is not on the published image
  registry, offered,    \* app -> "yes", "no", "unknown"
  stored,               \* both, in /var/lib/casaos/image_updates.json
  answer,               \* app -> isAppUpgradable: "yes", "no", "unknown" (no entry)
  sweep, update, asker, \* CheckImageUpdates, an update of one app, a page
  run,                  \* the run of every app
  excused,              \* history: the answers that something overtook since they were given
  turns

updatesVars == <<file, catalogue, moved, registry, offered, stored, answer, sweep, update, asker, run, excused, turns>>
apps == <<file, catalogue, moved>>
answers == <<registry, offered, stored, answer>>

YesNo(b) == IF b THEN "yes" ELSE "no"
Unknown == [a \in Apps |-> "unknown"]
Installed == {a \in Apps : file[a] # NotInstalled}

NoSweep == [at |-> "idle", copies |-> <<>>, fresh |-> <<>>, todo |-> {}, found |-> <<>>, clean |-> {}]
NoUpdate == [at |-> "idle", app |-> "none", copy |-> NotInstalled, force |-> FALSE, inRun |-> FALSE, said |-> FALSE,
             clean |-> TRUE]
NoAsker == [app |-> "none", value |-> "no", clean |-> TRUE]
NoRun == [queue |-> <<>>, state |-> [a \in Apps |-> "none"], going |-> FALSE]

UpdatesInit ==
  /\ file = [a \in Apps |-> FirstFile] /\ catalogue \in [Apps -> Files \cup {NoEntry}] /\ moved = {}
  /\ registry = Unknown /\ offered = Unknown /\ answer = Unknown /\ stored = <<Unknown, Unknown>>
  /\ sweep = NoSweep /\ update = NoUpdate /\ asker = NoAsker /\ run = NoRun
  /\ excused = {} /\ turns = 0

\* isUpdateAvailable: without a catalogue entry the registries are the whole answer.
IsUpdateAvailable(app, store, m) == IF store = NoEntry THEN m ELSE IsUpdateAvailableWith(app, store, m)
ComposeYAMLForUpdate(app, store) == IF store = NoEntry THEN app ELSE UpdatedComposeYAML(app, store)

-----------------------------------------------------------------------------
(* What happens to an app: whoever looked at it before knows it as it was.   *)
Turn == turns < MaxTurns /\ turns' = turns + 1

\* The answers that are kept (all but those dropped) are overtaken too.
Overtakes(a, kept) ==
  /\ sweep' = [sweep EXCEPT !.clean = @ \ {a}]
  /\ update' = [update EXCEPT !.clean = @ /\ update.app # a]
  /\ asker' = [asker EXCEPT !.clean = @ /\ asker.app # a]
  /\ excused' = excused \cup {<<a, which>> : which \in kept}

\* An answer given about some apps is good for those that did not change since it was looked for.
Overtaken(which, about, clean) ==
  (excused \ (about \X {which})) \cup ((about \ clean) \X {which})

\* The cron fetches the catalogue and drops every cached answer.
CatalogueMoves(a) ==
  /\ Turn /\ \E f \in (Files \cup {NoEntry}) \ {catalogue[a]} : catalogue' = [catalogue EXCEPT ![a] = f]
  /\ answer' = Unknown /\ Overtakes(a, {"offered"})
  /\ UNCHANGED <<file, moved, registry, offered, stored, run>>

Republishes(a) ==
  /\ a \in Installed \ moved /\ Turn /\ moved' = moved \cup {a}
  /\ UNCHANGED <<file, catalogue, answers, sweep, update, asker, run, excused>>

Edits(a) ==
  /\ a \in Installed /\ update.app # a /\ Turn
  /\ \E f \in Files \ {file[a]} : file' = [file EXCEPT ![a] = f]
  /\ moved' = moved \ {a} /\ Overtakes(a, {"registry", "offered", "answer"})
  /\ UNCHANGED <<catalogue, answers, run>>

\* A plausible bug: one answer forgotten, the other kept.
ForgetImageUpdates_RegistryOnly(a) ==
  /\ registry' = [registry EXCEPT ![a] = "unknown"] /\ UNCHANGED offered
  /\ stored' = <<registry', offered>>

ForgetImageUpdates(a) ==
  /\ registry' = [registry EXCEPT ![a] = "unknown"] /\ offered' = [offered EXCEPT ![a] = "unknown"]
  /\ stored' = <<registry', offered'>>

\* Leaves the cached answer, which an app installed within the hour inherits.
Uninstalls(a) ==
  /\ a \in Installed /\ update.app # a /\ Turn
  /\ file' = [file EXCEPT ![a] = NotInstalled] /\ moved' = moved \ {a}
  /\ ForgetImageUpdates(a) /\ Overtakes(a, {"answer"})
  /\ UNCHANGED <<catalogue, answer, run>>

Installs(a) ==
  /\ a \notin Installed /\ \E f \in Files : file' = [file EXCEPT ![a] = f]
  /\ Overtakes(a, {}) /\ UNCHANGED <<catalogue, moved, answers, run, turns>>

\* LoadImageUpdates. Lost are the answers that were not saved yet, and that an update just
\* applied was to be forgotten.
Restarts ==
  /\ Turn /\ registry' = stored[1] /\ offered' = stored[2] /\ answer' = Unknown
  /\ sweep' = NoSweep /\ update' = NoUpdate /\ asker' = NoAsker /\ run' = NoRun
  /\ excused' = {x \in Apps \X {"registry", "offered"} :
                   x \in excused \/ stored # <<registry, offered>> \/ (update.app = x[1] /\ update.at = "forget")}
  /\ UNCHANGED <<apps, stored>>

-----------------------------------------------------------------------------
\* verdict: the digests the containers were created from, beside what the registries publish.
Verdict(a) == YesNo(a \in moved)

(* CheckImageUpdates.                                                        *)
SweepStarts ==
  /\ sweep.at = "idle" /\ Turn
  /\ sweep' = [NoSweep EXCEPT !.at = "ask", !.copies = [a \in Installed |-> file[a]], !.clean = Installed]
  /\ UNCHANGED <<apps, answers, update, asker, run, excused>>

\* A verdict on each app, but for those a registry did not answer for.
SweepAsks ==
  /\ sweep.at = "ask"
  /\ \E silent \in SUBSET DOMAIN sweep.copies :
       /\ IF silent = {} THEN UNCHANGED turns ELSE Turn
       /\ sweep' = [sweep EXCEPT !.at = "remember",
                     !.fresh = [a \in DOMAIN sweep.copies \ silent |-> Verdict(a)]]
  /\ UNCHANGED <<apps, answers, update, asker, run, excused>>

\* remember: an app that is gone leaves both maps, one that did not answer keeps what it had.
SweepRemembers ==
  LET known == DOMAIN sweep.copies IN
  /\ sweep.at = "remember"
  /\ sweep' = [sweep EXCEPT !.at = "decide", !.todo = DOMAIN sweep.fresh]
  /\ registry' = [a \in Apps |-> IF a \in DOMAIN sweep.fresh THEN sweep.fresh[a]
                                 ELSE IF a \in known THEN registry[a] ELSE "unknown"]
  /\ offered' = [a \in Apps |-> IF a \in known THEN offered[a] ELSE "unknown"]
  /\ excused' = Overtaken("registry", DOMAIN sweep.fresh, sweep.clean)
  /\ UNCHANGED <<apps, stored, answer, update, asker, run, turns>>

\* What the button would do, for the app as the sweep found it.
SweepDecides(a) ==
  LET value == YesNo(IsUpdateAvailable(sweep.copies[a], catalogue[a], registry[a] = "yes")) IN
  /\ sweep.at = "decide" /\ a \in sweep.todo
  /\ sweep' = [sweep EXCEPT !.todo = @ \ {a},
                           !.found = [b \in DOMAIN @ \cup {a} |-> IF b = a THEN value ELSE @[b]]]
  /\ answer' = [answer EXCEPT ![a] = value]
  /\ excused' = Overtaken("answer", {a}, {b \in sweep.clean : <<b, "registry">> \notin excused})
  /\ UNCHANGED <<apps, registry, offered, stored, update, asker, run, turns>>

\* rememberOffered.
SweepOffers ==
  /\ sweep.at = "decide" /\ sweep.todo = {}
  /\ sweep' = [sweep EXCEPT !.at = "save"]
  /\ offered' = [a \in Apps |-> IF a \in DOMAIN sweep.found THEN sweep.found[a] ELSE offered[a]]
  /\ excused' = Overtaken("offered", DOMAIN sweep.found, sweep.clean)
  /\ UNCHANGED <<apps, registry, stored, answer, update, asker, run, turns>>

SweepSaves ==
  /\ sweep.at = "save" /\ sweep' = NoSweep /\ stored' = <<registry, offered>>
  /\ UNCHANGED <<apps, registry, offered, answer, update, asker, run, excused, turns>>

-----------------------------------------------------------------------------
(* A page: the cached answer, or one computed and then cached.               *)
PageAsks(a) ==
  /\ asker.app = "none" /\ a \in Installed /\ answer[a] = "unknown"
  /\ asker' = [app |-> a, value |-> YesNo(IsUpdateAvailable(file[a], catalogue[a], registry[a] = "yes")),
               clean |-> <<a, "registry">> \notin excused /\ ~(update.app = a /\ update.at = "forget")]
  /\ UNCHANGED <<apps, answers, sweep, update, run, excused, turns>>

PageCaches ==
  LET a == asker.app IN
  /\ a # "none" /\ asker' = NoAsker /\ answer' = [answer EXCEPT ![a] = asker.value]
  /\ excused' = Overtaken("answer", {a}, IF asker.clean THEN {a} ELSE {})
  /\ UNCHANGED <<apps, registry, offered, stored, sweep, update, run, turns>>

Expires(a) ==
  /\ answer[a] # "unknown" /\ answer' = [answer EXCEPT ![a] = "unknown"]
  /\ UNCHANGED <<apps, registry, offered, stored, sweep, update, asker, run, excused, turns>>

-----------------------------------------------------------------------------
(* One app: the update button, or the run.                                   *)
Begins(a, force, inRun) ==
  update' = [NoUpdate EXCEPT !.app = a, !.copy = file[a], !.force = force, !.inRun = inRun,
                             !.at = IF force THEN "prepare" ELSE "check"]

\* UpdateComposeApp; with force nothing is asked.
UpdateComposeApp(a) ==
  /\ update.at = "idle" /\ ~run.going /\ a \in Installed /\ Turn
  /\ \E force \in BOOLEAN : Begins(a, force, FALSE)
  /\ UNCHANGED <<apps, answers, sweep, asker, run, excused>>

\* CheckImageUpdatesForApp; one that fails is not fatal, the catalogue has something to say.
Checks ==
  LET a == update.app
      value == YesNo(IsUpdateAvailable(update.copy, catalogue[a], a \in moved))
  IN
  /\ update.at = "check"
  /\ registry' = [registry EXCEPT ![a] = Verdict(a)]
  /\ answer' = [answer EXCEPT ![a] = value] /\ offered' = [offered EXCEPT ![a] = value]
  /\ excused' = IF update.clean THEN excused \ ({a} \X {"registry", "offered", "answer"})
                ELSE excused \cup ({a} \X {"registry", "offered", "answer"})
  /\ update' = [update EXCEPT !.at = "save"]
  /\ UNCHANGED <<apps, stored, sweep, asker, run, turns>>

CheckFails ==
  /\ update.at = "check" /\ Turn /\ update' = [update EXCEPT !.at = "decide"]
  /\ UNCHANGED <<apps, answers, sweep, asker, run, excused>>

CheckSaves ==
  /\ update.at = "save" /\ update' = [update EXCEPT !.at = "decide"] /\ stored' = <<registry, offered>>
  /\ UNCHANGED <<apps, registry, offered, answer, sweep, asker, run, excused, turns>>

\* setUpdateAllState: what became of the app, and the next one.
Ends(state) ==
  /\ update' = NoUpdate
  /\ run' = IF update.inRun THEN [run EXCEPT !.state[update.app] = state] ELSE run

\* ForgetUpgradable, then UpdateAvailability.
Decides ==
  LET a == update.app
      available == IsUpdateAvailable(update.copy, catalogue[a], registry[a] = "yes")
  IN
  /\ update.at = "decide" /\ answer' = [answer EXCEPT ![a] = YesNo(available)]
  /\ excused' = Overtaken("answer", {a}, IF update.clean /\ <<a, "registry">> \notin excused THEN {a} ELSE {})
  /\ IF available THEN update' = [update EXCEPT !.at = "prepare", !.said = registry[a] = "yes"] /\ UNCHANGED run
     ELSE Ends("current")
  /\ UNCHANGED <<apps, registry, offered, stored, sweep, asker, turns>>

\* prepareUpdate reads the file and the catalogue as they are now; PullAndApply.
Applies ==
  LET a == update.app
      after == ComposeYAMLForUpdate(file[a], catalogue[a])
  IN
  /\ update.at = "prepare" /\ a \in Installed
  /\ file' = [file EXCEPT ![a] = after] /\ moved' = moved \ {a}
  /\ sweep' = [sweep EXCEPT !.clean = @ \ {a}] /\ asker' = [asker EXCEPT !.clean = @ /\ asker.app # a]
  /\ update' = [update EXCEPT !.at = "forget"]
  /\ UNCHANGED <<catalogue, answers, run, excused, turns>>

\* The pull or the containers fail, or the catalogue has grown a service.
ApplyFails ==
  /\ update.at = "prepare" /\ (update.app \in Installed => Turn) /\ (update.app \notin Installed => UNCHANGED turns)
  /\ Ends("failed") /\ answer' = [answer EXCEPT ![update.app] = "unknown"]
  /\ UNCHANGED <<apps, registry, offered, stored, sweep, asker, excused>>

Forgets ==
  /\ update.at = "forget" /\ ForgetImageUpdates(update.app) /\ update' = [update EXCEPT !.at = "finish"]
  /\ UNCHANGED <<apps, answer, sweep, asker, run, excused, turns>>

\* FinishUpgrade.
Finishes ==
  /\ update.at = "finish" /\ Ends("updated") /\ answer' = [answer EXCEPT ![update.app] = "unknown"]
  /\ UNCHANGED <<apps, registry, offered, stored, sweep, asker, excused, turns>>

-----------------------------------------------------------------------------
(* The run: one at a time, one app after another.                            *)
StartUpdateAll ==
  /\ ~run.going /\ update.at = "idle" /\ Turn
  /\ \E ids \in SUBSET Apps \ {{}} :
       run' = [queue |-> SetToSeq(ids), state |-> [a \in Apps |-> IF a \in ids THEN "queued" ELSE "none"], going |-> TRUE]
  /\ UNCHANGED <<apps, answers, sweep, update, asker, excused>>

\* A plausible bug: one that is not installed any more is passed over.
RunNext_PassesOver ==
  LET a == Head(run.queue) IN
  /\ run.going /\ update.at = "idle" /\ run.queue # <<>>
  /\ IF a \in Installed THEN Begins(a, FALSE, TRUE) ELSE UNCHANGED update
  /\ run' = [run EXCEPT !.queue = Tail(@), !.state[a] = IF a \in Installed THEN "updating" ELSE @]
  /\ UNCHANGED <<apps, answers, sweep, asker, excused, turns>>

\* One that is not installed any more fails.
RunNext ==
  LET a == Head(run.queue) IN
  /\ run.going /\ update.at = "idle" /\ run.queue # <<>>
  /\ IF a \in Installed THEN Begins(a, FALSE, TRUE) ELSE UNCHANGED update
  /\ run' = [run EXCEPT !.queue = Tail(@), !.state[a] = IF a \in Installed THEN "updating" ELSE "failed"]
  /\ UNCHANGED <<apps, answers, sweep, asker, excused, turns>>

RunFinishes ==
  /\ run.going /\ update.at = "idle" /\ run.queue = <<>> /\ run' = [run EXCEPT !.going = FALSE]
  /\ UNCHANGED <<apps, answers, sweep, update, asker, excused, turns>>

\* What goes on by itself once it began: the update of an app, the run.
Updates == Checks \/ CheckFails \/ CheckSaves \/ Decides \/ Applies \/ ApplyFails \/ Forgets \/ Finishes

RunGoesOn == RunNext \/ RunFinishes

UpdatesNext ==
  \/ \E a \in Apps : \/ CatalogueMoves(a) \/ Republishes(a) \/ Edits(a) \/ Uninstalls(a) \/ Installs(a)
                     \/ SweepDecides(a) \/ PageAsks(a) \/ Expires(a) \/ UpdateComposeApp(a)
  \/ Restarts
  \/ SweepStarts \/ SweepAsks \/ SweepRemembers \/ SweepOffers \/ SweepSaves \/ PageCaches
  \/ Updates \/ StartUpdateAll \/ RunGoesOn

UpdatesSpec == UpdatesInit /\ [][UpdatesNext]_updatesVars

-----------------------------------------------------------------------------
\* A badge, or a cached answer, that says an update is on offer is about an app that is there
\* and what its button would do now, through updates, uninstallations and restarts, unless the
\* app or the catalogue changed behind the answer.
BadgeIsTheButton ==
  \A a \in Apps : update.app # a =>
    /\ offered[a] = "yes" /\ <<a, "offered">> \notin excused =>
         a \in Installed /\ IsUpdateAvailable(file[a], catalogue[a], a \in moved)
    /\ answer[a] = "yes" /\ <<a, "answer">> \notin excused =>
         a \in Installed /\ IsUpdateAvailable(file[a], catalogue[a], a \in moved)

\* An update that was checked, of an app and a catalogue that did not change since, goes forward.
UpdateGoesForward ==
  [][\A a \in Apps :
      Applies /\ update.app = a /\ ~update.force /\ update.clean /\ catalogue[a] # NoEntry =>
        GoesForward(file[a], catalogue[a], update.said, file'[a])]_updatesVars

\* A run of every app that is not cut short says of each of its apps what became of it.
RunAnswersForEach ==
  run.going ~> ~run.going /\ \A a \in Apps : run.state[a] \in {"none", "updated", "current", "failed"}
=============================================================================
