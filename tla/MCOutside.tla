----------------------------- MODULE MCOutside -----------------------------
(***************************************************************************)
(* What a remote tells: the webhook of one app, with a delivery and two    *)
(* checks at a time, and the checks of two restic repositories by two      *)
(* ticks or hands at a time. Neither part reads what the other writes; the *)
(* part that rests has no delivery and no tick.                            *)
(***************************************************************************)
EXTENDS GitWebhook, RepositoryChecks

VARIABLE part

OutsideInit ==
  /\ part \in {"webhook", "checks"}
  /\ HookInit /\ ChecksInit /\ (part = "webhook" => kept = {})

OutsideNext ==
  /\ part' = part
  /\ \/ part = "webhook" /\ HookNext /\ UNCHANGED checkVars
     \/ part = "checks" /\ ChecksNext /\ UNCHANGED hookVars

OutsideSpec ==
  /\ OutsideInit /\ [][OutsideNext]_<<part, hookVars, checkVars>>
  /\ HookFairness
  /\ \A c \in Lookers : WF_checkVars(LookGoesOn(c))
  /\ WF_checkVars(part = "checks" /\ CronTicksChecks)
  /\ WF_checkVars(part = "checks" /\ TimePasses)
  /\ WF_checkVars(UpgradeCloses)
=============================================================================
