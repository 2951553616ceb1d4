---------------------------- MODULE BackupClock ----------------------------
(***************************************************************************)
(* One schedule against the clock: service/backup_schedule.go with what    *)
(* runs and records it, service/backup_scheduler.go, taken as one step.    *)
(* The clock is looked at every minute or, while the box sleeps, only      *)
(* after a while. What a run is and what may fail of it is in              *)
(* BackupScheduler.                                                        *)
(***************************************************************************)
EXTENDS BackupCalendar

CONSTANTS MaxSleep, Weeks   \* bounds: minutes slept at once, weeks lived

ASSUME ClockAssumption == MaxSleep \in Nat /\ Weeks \in Nat

VARIABLES schedule, now

calendarVars == <<schedule, now>>

(* What an owner may have set: the save accepts nothing else.                *)
Unrun ==
  [every : {"daily", "weekly"}, at : 0 .. Day - 1, weekday : 0 .. Week - 1,
   enabled : BOOLEAN, lastRun : {Never}]

CalendarInit == schedule \in Unrun /\ now \in Day * Week .. 2 * Day * Week - 1

RunDue ==
  /\ IsDue(schedule, now)
  /\ schedule' = [schedule EXCEPT !.lastRun = now]
  /\ UNCHANGED now

Sleep ==
  /\ ~IsDue(schedule, now)
  /\ \E d \in 0 .. MaxSleep : now' = now + d
  /\ now' < Weeks * Day * Week
  /\ UNCHANGED schedule

CalendarNext == RunDue \/ Sleep

CalendarSpec == CalendarInit /\ [][CalendarNext]_calendarVars

-----------------------------------------------------------------------------
(* When the schedule runs is what its owner chose, however long the box      *)
(* slept: the slot is the last one that passed, and the schedule is due      *)
(* exactly if one passed since its last run.                                 *)
SlotIsTheLast == TheLastSlot(schedule, now)
=============================================================================
