---------------------------- MODULE MCGitDeploy ----------------------------
(* One app at commit 1 of a branch whose head is 2; tag 1 is commit 1, tag 2 is commit 2. *)
EXTENDS GitDeploy

MCOlder == {<<1, 1>>, <<1, 2>>, <<2, 2>>}
MCMost == [pushes |-> 2, deployments |-> 3, restores |-> 1, crashes |-> 1, touches |-> 1]
=============================================================================
