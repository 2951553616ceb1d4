------------------------- MODULE MCBackupScheduler -------------------------
(***************************************************************************)
(* What backs up and what is held for it, one after the other: a daily      *)
(* schedule on days of two minutes, that keeps two runs or is off and keeps *)
(* one, two ticks and a backup by hand; and two apps held at once, one of   *)
(* two containers and one of one.                                           *)
(***************************************************************************)
EXTENDS BackupScheduler, BackupHold

CONSTANTS web, db, cache, shop, blog, Parts

VARIABLE part   \* what this behaviour is about

Daily(at, keep) == [every |-> "daily", at |-> at, weekday |-> 0, keep |-> keep, enabled |-> TRUE]

SwitchedOff == [Daily(0, 1) EXCEPT !.enabled = FALSE]

MCSettings == {Daily(1, 2), SwitchedOff}
MCOneSetting == {Daily(0, 2)}
MCOwnerOf == [c \in Containers |-> IF c = cache THEN blog ELSE shop]

BackupsInit ==
  /\ part \in Parts
  /\ Init /\ (part = "schedules" \/ \A k \in Keys : ~file[k].enabled)
  /\ HoldInit /\ (part = "hold" \/ up = Containers)

BackupsNext ==
  \/ part = "schedules" /\ Next /\ UNCHANGED <<part, holdVars>>
  \/ part = "hold" /\ HoldNext /\ UNCHANGED <<part, vars>>

\* Whichever part rests owes nothing: no step of it that is fair is enabled.
BackupsSpec ==
  /\ BackupsInit /\ [][BackupsNext]_<<part, vars, holdVars>>
  /\ WF_vars(part = "schedules" /\ CronTicks) /\ SchedulerFairness /\ HoldFairness
=============================================================================
