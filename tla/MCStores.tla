------------------------------ MODULE MCStores ------------------------------
(***************************************************************************)
(* The catalogues and the updates that are read off them. An update sees a *)
(* catalogue only as a whole, and any other at any time (CatalogueMoves of *)
(* ImageUpdates), so the two share no state and a behaviour is one of      *)
(* either.                                                                 *)
(***************************************************************************)
EXTENDS AppStore, ImageUpdates

CONSTANTS u1, u2, cat1, cat2, app1, app2, web, db
MCMirrored == [u \in Urls |-> cat2]

Tag(numbers, build) == [numbers |-> numbers, build |-> build]
Image(tag) == [tag |-> tag, of |-> "repo"]
Old == Tag(<<1, 2>>, <<Word(1), Number(9)>>)
New == Tag(<<1, 2>>, <<Word(1), Number(10)>>)
Latest == Tag(<<>>, <<Word(2)>>)
MCFloating == {Latest}
App1(w, d) == (web :> Image(w)) @@ (db :> Image(d))
MCFirstFile == App1(New, New)
MCFiles == {MCFirstFile, App1(Old, Latest)}

VARIABLE part

MCInit == part \in {"stores", "updates"} /\ StoreInit /\ UpdatesInit
                /\ (part = "stores" => catalogue = [x \in Apps |-> NoEntry])

MCNext ==
  /\ part' = part
  /\ \/ part = "stores" /\ StoreNext /\ UNCHANGED updatesVars
     \/ part = "updates" /\ UpdatesNext /\ UNCHANGED storeVars

\* Nothing hangs, the cron comes round, and what a store publishes is one again some day.
MCSpec ==
  /\ MCInit /\ [][MCNext]_<<part, storeVars, updatesVars>>
  /\ WF_storeVars(part = "stores" /\ CronGoesOn)
  /\ WF_storeVars(part = "stores" /\ RequestGoesOn)
  /\ \A w \in {Cron, Hand} : WF_storeVars(part = "stores" /\ UpdateCatalog(w))
  /\ WF_storeVars(part = "stores" /\ \E u \in Urls : Repairs(u))
  /\ WF_updatesVars(part = "updates" /\ Updates)
  /\ WF_updatesVars(part = "updates" /\ RunGoesOn)
=============================================================================
