----------------------------- MODULE MCBackups -----------------------------
(***************************************************************************)
(* Backups, in three parts of which none reads what another writes. What   *)
(* one holds: an app of two mounts, or the box with two paths and two      *)
(* units, two jobs, two runs. When one is due: a schedule of every kind    *)
(* against a clock that is looked at every minute or, while the box        *)
(* sleeps, only after a while; one that is due runs and is recorded at     *)
(* once. And beside what: a schedule for each of two apps, one of them     *)
(* from git, a click and a destination, over the table of operations, with *)
(* an upgrade of the system.                                               *)
(***************************************************************************)
EXTENDS BackupCopies, BackupClock, UpgradeWindow

CONSTANTS m1, m2, u1, u2,
          app, other, nightly, weekly, click,
          Parts

Bind(x) == [kind |-> "bind", at |-> x]
MCAppMounts == {<<Bind(m1), Bind(m2)>>, <<Bind(m2), [kind |-> "volume", at |-> m1]>>}
MCBoxMounts == <<Bind(m1), Bind(m2)>>
MCBoxUnits == <<u1, u2>>
MCApps == {app, other}
MCAppOf == [b \in Backups |-> IF b = nightly THEN app ELSE other]
MCHandles == {Listed(b) : b \in Backups} \cup {Inside(b) : b \in Backups} \cup {Git(app), Click(click)}
CopiesSymmetry == Permutations(Stamps) \cup Permutations(Jobs)

VARIABLE part   \* what this behaviour is about

MCInit ==
  /\ part \in Parts
  /\ WindowInit
  /\ CopiesInit /\ (part # "copies" => subject = "box" /\ key = "none" /\ \A x \in Places : disk[x] # Absent)
  /\ CalendarInit /\ (part # "calendar" => now = Day * Week /\ schedule = CHOOSE s \in Unrun : TRUE)

MCNext ==
  /\ part' = part
  /\ \/ part = "copies" /\ CopiesNext /\ UNCHANGED <<calendarVars, windowVars>>
     \/ part = "calendar" /\ CalendarNext /\ UNCHANGED <<copiesVars, windowVars>>
     \/ part = "window" /\ WindowNext /\ UNCHANGED <<copiesVars, calendarVars>>

MCSpec == MCInit /\ [][MCNext]_<<part, copiesVars, calendarVars, windowVars>>
=============================================================================
