------------------------------- MODULE MCLive -------------------------------
(***************************************************************************)
(* What is watched while the apps run: the logs (followed, read in pages,  *)
(* told to live readers), the trouble of containers and the alerts of      *)
(* their use. The parts share no state (the followers fill the files which *)
(* the pages read and publish to the hub, the two others follow streams of *)
(* their own, and nothing comes back), so a behaviour is one of any one of *)
(* them.                                                                   *)
(***************************************************************************)
EXTENDS LogHub, LogFollow, LogPages, DockerWatch, Sampler, TLC

CONSTANTS r1, r2, line, event, c1, c2, a1
MCReaders == {r1, r2}
MCKinds == {line, event}
MCWants == (r1 :> {line, event} @@ r2 :> {line})
MCContainers == {c1, c2}
MCProjects == {a1}
MCProjectOf == (c1 :> a1 @@ c2 :> a1)

VARIABLE part

logVars == <<hubVars, followVars, pagesVars>>
liveVars == <<logVars, watchVars, samplerVars, part>>

MCInit ==
  /\ part \in {"hub", "follow", "pages", "watch", "sampler"}
  /\ HubInit /\ FollowInit /\ PagesInit /\ WatchInit /\ SamplerInit

MCNext ==
  /\ part' = part
  /\ \/ part = "hub" /\ HubNext /\ UNCHANGED <<followVars, pagesVars, watchVars, samplerVars>>
     \/ part = "follow" /\ FollowNext /\ UNCHANGED <<hubVars, pagesVars, watchVars, samplerVars>>
     \/ part = "pages" /\ PagesNext /\ UNCHANGED <<hubVars, followVars, watchVars, samplerVars>>
     \/ part = "watch" /\ WatchNext /\ UNCHANGED <<logVars, samplerVars>>
     \/ part = "sampler" /\ SamplerNext /\ UNCHANGED <<logVars, watchVars>>

MCSpec == MCInit /\ [][MCNext]_liveVars /\ WatchFairness
=============================================================================
