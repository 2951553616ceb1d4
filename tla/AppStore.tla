------------------------------ MODULE AppStore ------------------------------
(***************************************************************************)
(* service/appstore.go, appstore_management.go and appstore_mirror.go: the  *)
(* app stores a box lists, each with the catalogue it downloaded. The cron  *)
(* updates every listed store; a request registers or removes one. None of  *)
(* them takes a lock, and a kill can fall between any two steps.            *)
(*                                                                         *)
(* A catalogue is a value, and its size stands for it: two of one size are  *)
(* not told apart (the code does not fetch the second either). Left out: an *)
(* error of the file system that is not a failing download or build, and    *)
(* what the readers make of a catalogue.                                   *)
(***************************************************************************)
EXTENDS Integers, Sequences, FiniteSets, SequencesExt

CONSTANTS Urls, Catalogues,
          Mirrored,              \* url -> the copy of it made last night
          None, NotAStore,       \* no folder; a download without an Apps folder
          Cron, Hand,            \* who updates: the cron, a request
          MaxUpsets              \* bound: catalogues published, calls that fail, requests, kills

ASSUME StoresAssumption ==
  /\ Urls # {} /\ Catalogues # {} /\ Mirrored \in [Urls -> Catalogues \cup {NotAStore}]
  /\ None \notin Urls \cup Catalogues \cup {NotAStore} /\ NotAStore \notin Catalogues
  /\ Cron # Hand /\ MaxUpsets \in Nat

VARIABLES
  published,            \* url -> what the store publishes
  listed,               \* ServerInfo.AppStoreList
  inFile,               \* the list in the configuration file, Cut while it is emptied
  sizeSeen, inMemory,   \* url -> lastAPPStoreSize (as the catalogue of that size), s.catalog
  work, backup, tmp,    \* url -> its folder, .backup and .tmp
  worker,               \* who -> where it is
  acked,                \* history: the stores somebody was told are registered
  upsets

storeVars == <<published, listed, inFile, sizeSeen, inMemory, work, backup, tmp, worker, acked, upsets>>
folders == <<work, backup, tmp>>
lists == <<listed, inFile, acked>>

Cut == <<None>>
Fetched == Catalogues \cup {NotAStore}
Idle == [at |-> "idle", url |-> None, todo |-> {}, saw |-> None, source |-> "", kept |-> FALSE,
         ok |-> FALSE, was |-> None, alone |-> TRUE, crossed |-> FALSE]

StoreInit ==
  /\ published = Mirrored
  /\ listed = <<CHOOSE u \in Urls : TRUE>>
  /\ inFile = listed /\ acked = ToSet(listed)
  /\ sizeSeen = [u \in Urls |-> None] /\ inMemory = sizeSeen
  /\ work = [u \in Urls |-> IF u \in acked THEN CHOOSE c \in Catalogues : TRUE ELSE None]
  /\ backup = sizeSeen /\ tmp = sizeSeen
  /\ worker = [w \in {Cron, Hand} |-> Idle] /\ upsets = 0

-----------------------------------------------------------------------------
(* The stores out there.                                                     *)
Upset == upsets < MaxUpsets /\ upsets' = upsets + 1

Publishes(u) ==
  /\ Upset /\ \E c \in Fetched : published' = [published EXCEPT ![u] = c]
  /\ UNCHANGED <<sizeSeen, inMemory, folders, worker, lists>>

Repairs(u) ==
  /\ published[u] = NotAStore /\ \E c \in Catalogues : published' = [published EXCEPT ![u] = c]
  /\ UNCHANGED <<sizeSeen, inMemory, folders, worker, lists, upsets>>

At(source, u) == IF source = "original" THEN published[u] ELSE Mirrored[u]

-----------------------------------------------------------------------------
(* UpdateCatalog of one store.                                               *)
Updating(w) == worker[w].at \in {"head", "download", "backup", "place", "build", "defer", "restore", "sweep"}
Goes(w, to) == worker' = [worker EXCEPT ![w].at = to]
Fails(w, to) == worker' = [worker EXCEPT ![w].at = to, ![w].ok = FALSE]
Rests == UNCHANGED <<published, lists>>

\* Whoever else works on the store is not alone any more, nor is this one.
Enters(w, u, to, todo) ==
  LET others == {v \in {Cron, Hand} \ {w} : worker[v].url = u /\ worker[v].at # "idle"}
  IN worker' = [v \in {Cron, Hand} |->
       IF v = w THEN [Idle EXCEPT !.at = to, !.url = u, !.todo = todo, !.was = work[u], !.alone = others = {}]
       ELSE IF v \in others THEN [worker[v] EXCEPT !.alone = FALSE] ELSE worker[v]]

\* pickCatalogueSource: the original, or the mirror when it does not answer.
HeadAnswers(w, source) ==
  LET u == worker[w].url IN
  /\ worker[w].at = "head"
  /\ IF source = "original" THEN UNCHANGED upsets ELSE Upset
  /\ worker' = [worker EXCEPT ![w].source = source, ![w].saw = At(source, u), ![w].ok = At(source, u) = sizeSeen[u],
                              ![w].at = IF At(source, u) = sizeSeen[u] THEN "over" ELSE "download"]
  /\ UNCHANGED <<sizeSeen, inMemory, folders>> /\ Rests

HeadFails(w) ==
  /\ worker[w].at = "head" /\ Upset /\ Fails(w, "over")
  /\ UNCHANGED <<sizeSeen, inMemory, folders>> /\ Rests

Downloads(w) ==
  LET u == worker[w].url IN
  /\ worker[w].at = "download" /\ Goes(w, "backup")
  /\ tmp' = [tmp EXCEPT ![u] = At(worker[w].source, u)]
  /\ UNCHANGED <<sizeSeen, inMemory, work, backup, upsets>> /\ Rests

DownloadFails(w) ==
  /\ worker[w].at = "download" /\ Upset /\ Fails(w, "sweep")
  /\ tmp' = [tmp EXCEPT ![worker[w].url] = NotAStore]
  /\ UNCHANGED <<sizeSeen, inMemory, work, backup>> /\ Rests

Backup(w) ==
  LET u == worker[w].url IN
  /\ worker[w].at = "backup"
  /\ worker' = [worker EXCEPT ![w].at = "place", ![w].kept = work[u] # None]
  /\ backup' = [backup EXCEPT ![u] = IF work[u] # None THEN work[u] ELSE @]
  /\ work' = [work EXCEPT ![u] = None]
  /\ UNCHANGED <<sizeSeen, inMemory, tmp, upsets>> /\ Rests

Place(w) ==
  LET u == worker[w].url
      can == tmp[u] # None /\ work[u] = None
  IN
  /\ worker[w].at = "place"
  /\ IF can THEN Goes(w, "build") ELSE Fails(w, "defer")
  /\ work' = [work EXCEPT ![u] = IF can THEN tmp[u] ELSE @]
  /\ tmp' = [tmp EXCEPT ![u] = IF can THEN None ELSE @]
  /\ UNCHANGED <<sizeSeen, inMemory, backup, upsets>> /\ Rests

\* StoreRoot, the placeholder and BuildCatalog.
Builds(w) ==
  LET u == worker[w].url
      good == work[u] \in Catalogues
  IN
  /\ worker[w].at = "build"
  /\ worker' = [worker EXCEPT ![w].at = "defer", ![w].ok = good]
  /\ inMemory' = [inMemory EXCEPT ![u] = IF good THEN work[u] ELSE @]
  /\ UNCHANGED <<sizeSeen, folders, upsets>> /\ Rests

BuildFails(w) ==
  /\ worker[w].at = "build" /\ Upset /\ Fails(w, "defer")
  /\ \E c \in {None, inMemory[worker[w].url]} : inMemory' = [inMemory EXCEPT ![worker[w].url] = c]
  /\ UNCHANGED <<sizeSeen, folders>> /\ Rests

\* Mutant: the size of a download that failed is remembered.
Sweep_SizeOfAFailure(w) ==
  LET u == worker[w].url IN
  /\ worker[w].at = "sweep" /\ Goes(w, "over")
  /\ tmp' = [tmp EXCEPT ![u] = None]
  /\ sizeSeen' = [sizeSeen EXCEPT ![u] = worker[w].saw]
  /\ UNCHANGED <<inMemory, work, backup, upsets>> /\ Rests

\* The deferred calls, the last one first: the backup dropped or put back ...
Defer(w) ==
  LET u == worker[w].url IN
  /\ worker[w].at = "defer"
  /\ Goes(w, IF worker[w].kept /\ ~worker[w].ok THEN "restore" ELSE "sweep")
  /\ backup' = [backup EXCEPT ![u] = IF worker[w].kept /\ worker[w].ok THEN None ELSE @]
  /\ work' = [work EXCEPT ![u] = IF worker[w].kept /\ ~worker[w].ok THEN None ELSE @]
  /\ UNCHANGED <<sizeSeen, inMemory, tmp, upsets>> /\ Rests

Restore(w) ==
  LET u == worker[w].url
      can == backup[u] # None /\ work[u] = None
  IN
  /\ worker[w].at = "restore" /\ Goes(w, "sweep")
  /\ work' = [work EXCEPT ![u] = IF can THEN backup[u] ELSE @]
  /\ backup' = [backup EXCEPT ![u] = IF can THEN None ELSE @]
  /\ UNCHANGED <<sizeSeen, inMemory, tmp, upsets>> /\ Rests

\* ... then the download removed, and the size remembered.
Sweep(w) ==
  LET u == worker[w].url IN
  /\ worker[w].at = "sweep" /\ Goes(w, "over")
  /\ tmp' = [tmp EXCEPT ![u] = None]
  /\ sizeSeen' = [sizeSeen EXCEPT ![u] = IF worker[w].ok THEN worker[w].saw ELSE @]
  /\ UNCHANGED <<inMemory, work, backup, upsets>> /\ Rests

UpdateCatalog(w) ==
  \/ \E source \in {"original", "mirror"} : HeadAnswers(w, source)
  \/ HeadFails(w) \/ Downloads(w) \/ DownloadFails(w) \/ Backup(w) \/ Place(w)
  \/ Builds(w) \/ BuildFails(w) \/ Defer(w) \/ Restore(w) \/ Sweep(w)

-----------------------------------------------------------------------------
(* AppStoreManagement: the cron, a registration, a removal, a reader.        *)
Same == UNCHANGED <<published, sizeSeen, inMemory, folders>>
Alike == Same /\ UNCHANGED upsets

\* A file that is being written reads as one without a list: the list stands.
ReloadConfig == IF inFile = Cut THEN listed ELSE inFile

\* A registration or a removal that is not saved yet is undone by it.
CronStarts ==
  /\ worker[Cron].at = "idle" /\ listed' = ReloadConfig
  /\ worker' = [w \in {Cron, Hand} |->
       IF w = Cron THEN [Idle EXCEPT !.at = "over", !.todo = ToSet(ReloadConfig)]
       ELSE [worker[w] EXCEPT !.crossed = @ \/ ReloadConfig # listed]]
  /\ UNCHANGED <<inFile, acked>> /\ Alike

CronNext ==
  /\ worker[Cron].at = "over"
  /\ IF worker[Cron].todo = {} THEN worker' = [worker EXCEPT ![Cron] = Idle]
     ELSE \E u \in worker[Cron].todo : Enters(Cron, u, "head", worker[Cron].todo \ {u})
  /\ UNCHANGED lists /\ Alike

RegisterAppStore(u) ==
  /\ worker[Hand].at = "idle" /\ u \notin ToSet(listed) /\ Upset
  /\ Enters(Hand, u, "head", {}) /\ UNCHANGED lists /\ Same

Registered ==
  /\ worker[Hand].at = "over"
  /\ IF worker[Hand].ok
     THEN listed' = Append(listed, worker[Hand].url) /\ Goes(Hand, "save")
     ELSE worker' = [worker EXCEPT ![Hand] = Idle] /\ UNCHANGED listed
  /\ UNCHANGED <<inFile, acked>> /\ Alike

\* Refused for the last one.
UnregisterAppStore(i) ==
  /\ worker[Hand].at = "idle" /\ Len(listed) > 1 /\ Upset
  /\ listed' = RemoveAt(listed, i) /\ acked' = acked \ {listed[i]}
  /\ Enters(Hand, listed[i], "save", {listed[i]})
  /\ UNCHANGED inFile /\ Same

\* SaveSetup empties the file, then writes it.
SaveCuts ==
  /\ worker[Hand].at = "save" /\ Goes(Hand, "write") /\ inFile' = Cut
  /\ UNCHANGED <<listed, acked>> /\ Alike

SaveWrites ==
  LET removes == worker[Hand].todo # {} IN
  /\ worker[Hand].at = "write" /\ inFile' = listed
  /\ IF removes THEN Goes(Hand, "rmdir") ELSE worker' = [worker EXCEPT ![Hand] = Idle]
  /\ acked' = IF removes \/ worker[Hand].crossed THEN acked ELSE acked \cup {worker[Hand].url}
  /\ UNCHANGED listed /\ Alike

RemovesFolder ==
  /\ worker[Hand].at = "rmdir" /\ worker' = [worker EXCEPT ![Hand] = Idle]
  /\ work' = [work EXCEPT ![worker[Hand].url] = None]
  /\ UNCHANGED <<published, sizeSeen, inMemory, backup, tmp, lists, upsets>>

\* Catalog, CategoryMap, Recommend and ComposeApp: from memory, else from the folder.
Catalog(u) ==
  /\ u \in ToSet(listed) /\ inMemory[u] = None /\ work[u] \in Catalogues
  /\ inMemory' = [inMemory EXCEPT ![u] = work[u]]
  /\ UNCHANGED <<published, sizeSeen, folders, worker, lists, upsets>>

\* The new process reads the list; one killed while it was being written is gone.
KilledAnew ==
  /\ Upset
  /\ listed' = (IF inFile = Cut THEN <<>> ELSE inFile) /\ acked' = (IF inFile = Cut THEN {} ELSE acked)
  /\ sizeSeen' = [u \in Urls |-> None] /\ inMemory' = sizeSeen'
  /\ worker' = [w \in {Cron, Hand} |-> Idle]
  /\ UNCHANGED <<published, inFile, folders>>

\* What goes on by itself: the cron comes round, a request is not left half way. (A
\* specification that says so is fair to these, to UpdateCatalog of each worker and, for a
\* store to come back, to Repairs.)
CronGoesOn == CronStarts \/ CronNext
RequestGoesOn == Registered \/ SaveCuts \/ SaveWrites \/ RemovesFolder

StoreNext ==
  \/ \E u \in Urls : Publishes(u) \/ Repairs(u) \/ RegisterAppStore(u) \/ Catalog(u)
  \/ \E w \in {Cron, Hand} : UpdateCatalog(w)
  \/ \E i \in DOMAIN listed : UnregisterAppStore(i)
  \/ CronGoesOn \/ RequestGoesOn \/ KilledAnew

StoreSpec == StoreInit /\ [][StoreNext]_storeVars

-----------------------------------------------------------------------------
\* An update that nobody crosses keeps the catalogue the store had: as long as it goes on, a
\* kill included, the folder or its backup holds it, or the folder holds a new one that was
\* built; and when it fails, the folder holds it again.
FailureKeepsTheCatalogue ==
  \A w \in {Cron, Hand} :
    LET u == worker[w].url IN
    worker[w].alone /\ worker[w].was \in Catalogues =>
      /\ Updating(w) => \/ worker[w].was \in {work[u], backup[u]}
                        \/ worker[w].ok /\ work[u] \in Catalogues
      /\ worker[w].at = "over" /\ ~worker[w].ok => work[u] = worker[w].was

\* And a registered store whose catalogue this process has not fetched has one on the disk
\* some day, whatever a kill or a failed update left there.
StoreKeepsACatalogue ==
  /\ []FailureKeepsTheCatalogue
  /\ \A u \in Urls : (u \in acked /\ sizeSeen[u] = None) ~> (work[u] \in Catalogues \/ u \notin acked)

=============================================================================
