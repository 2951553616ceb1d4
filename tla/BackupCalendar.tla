--------------------------- MODULE BackupCalendar ---------------------------
(***************************************************************************)
(* When a backup falls due: service/backup_schedule.go. A moment is a      *)
(* number of minutes since the midnight that began some week, a day is Day *)
(* minutes and a week Week days, so that a small instance keeps the shape  *)
(* of the arithmetic. The days of a change of clocks are left out.         *)
(***************************************************************************)
EXTENDS Integers

CONSTANTS Day, Week

ASSUME CalendarAssumption == Day \in Nat \ {0} /\ Week \in Nat \ {0}

(* LastRun of a schedule that never ran, before any slot of a later week.    *)
Never == 0

DayOf(t) == t \div Day
WeekdayOf(t) == DayOf(t) % Week
SlotThatDay(s, t) == DayOf(t) * Day + s.at

StepsBack_Forward(s, slot) == (s.weekday - WeekdayOf(slot) + Week) % Week

(* How many days back the chosen weekday is.                                 *)
StepsBack(s, slot) == (WeekdayOf(slot) - s.weekday + Week) % Week

(* mostRecentSlot: the last moment this was to fire, at or before t.         *)
MostRecentSlot(s, t) ==
  LET today == SlotThatDay(s, t)
      thatWeek == today - StepsBack(s, today) * Day
  IN  CASE s.every = "daily"  -> IF today > t THEN today - Day ELSE today
        [] s.every = "weekly" -> IF thatWeek > t THEN thatWeek - Week * Day ELSE thatWeek

(* IsDue: there is a slot it has not run yet.                                *)
IsDue(s, t) == s.enabled /\ s.lastRun < MostRecentSlot(s, t)

-----------------------------------------------------------------------------
(* What was meant: the moments a schedule fires at.                          *)
Fires(s, t) == t % Day = s.at /\ (s.every = "weekly" => WeekdayOf(t) = s.weekday)

(* mostRecentSlot gives the last firing moment that is not after t, for      *)
(* every frequency, time of day, weekday and moment, and "a rule that        *)
(* misfires runs a backup twice, and one that never fires" backs nothing up: *)
(* a schedule is due exactly while a slot passed since its last run, however *)
(* long the box slept, and slots slept through are one run.                  *)
TheLastSlot(s, t) ==
  LET slot == MostRecentSlot(s, t) IN
  /\ slot <= t /\ Fires(s, slot)
  /\ \A x \in slot + 1 .. t : ~Fires(s, x)
  /\ IsDue(s, t) <=> s.enabled /\ \E x \in s.lastRun + 1 .. t : Fires(s, x)
=============================================================================
