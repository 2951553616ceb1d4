------------------------------- MODULE Sampler -------------------------------
(***************************************************************************)
(* The resource alerts of a container: pkg/dockerstats (the sampler's tick *)
(* lists, measures and records), the rule of the CPU, and the publisher of *)
(* service/stats.go that brings what fires and resolves to the bus. A rate *)
(* needs a reading before it; what breaks the row of readings - a call     *)
(* that fails, docker away, a slow tick, a container recreated under its   *)
(* identity or restarted - must not end an alert.                          *)
(*                                                                         *)
(* One identity. The store of minutes and the evaluator of the rules are   *)
(* the Common library's, modelled from the use made of them: a minute      *)
(* without a record keeps an alert, one without the rate ends it. Left     *)
(* out: the other series, limits, inspections, the purge of the history.   *)
(***************************************************************************)
EXTENDS Integers, Sequences

CONSTANTS TicksPerMinute, MissedTicks, MaxGap,
          AlertQueue,           \* "alertQueueSize"
          MaxIncidents          \* bound: what happens to the container or to docker

ASSUME SamplerAssumption == {TicksPerMinute, MissedTicks, MaxGap, AlertQueue} \subseteq Nat \ {0} /\ MaxIncidents \in Nat

VARIABLES
  box,          \* docker's container: its id, its state, whether its counters began anew, its use
  slot, ticked, \* the tick of the minute, and whether it was used
  entry,        \* reg[key]: here, dockerID, missed, resolved, the age of its snapshot (0: none)
  listed,       \* between the list of a tick and its measures: the id to measure, 0 for none
  minute,       \* store: the uses recorded this minute, and the tick of a record without a rate (0: none)
  cool,         \* history: the use was low, or the container stopped, since the last minute
  alert,        \* the rule fires
  jobs, bus,    \* the publisher: its queue, what the bus got last
  unsaid,       \* history: the last word on the alert was lost, in a full queue or on its way to the bus
  incidents

samplerVars == <<box, slot, ticked, entry, listed, minute, cool, alert, jobs, bus, unsaid, incidents>>

NoEntry == [here |-> FALSE, id |-> 0, missed |-> 0, resolved |-> FALSE, snap |-> 0]
NoMinute == [uses |-> {}, bare |-> 0]

SamplerInit ==
  /\ box = [id |-> 1, state |-> "running", anew |-> FALSE, use |-> "high"]
  /\ slot = 1 /\ ticked = FALSE /\ entry = NoEntry /\ listed = 0
  /\ minute = NoMinute /\ cool = FALSE /\ alert = FALSE
  /\ jobs = <<>> /\ bus = "resolved" /\ unsaid = FALSE /\ incidents = 0

-----------------------------------------------------------------------------
(* Docker: the container is stopped, started, recreated; its use changes.    *)
Incident == incidents < MaxIncidents /\ incidents' = incidents + 1

BoxChanges ==
  /\ Incident
  /\ \/ box.state = "running" /\ box' = [box EXCEPT !.state = "stopped"]
     \/ box.state = "running" /\ box' = [box EXCEPT !.anew = TRUE]          \* restarted
     \/ box.state # "gone" /\ box' = [box EXCEPT !.state = "gone"]
     \/ box.state = "stopped" /\ box' = [box EXCEPT !.state = "running", !.anew = TRUE]
     \/ box' = [box EXCEPT !.id = @ + 1, !.state = "running", !.anew = TRUE]
     \/ box.use = "high" /\ box' = [box EXCEPT !.use = "low"]
     \/ box.use = "low" /\ box' = [box EXCEPT !.use = "high"]
  /\ cool' = (cool \/ box'.use = "low" \/ box'.state = "stopped")
  /\ UNCHANGED <<slot, ticked, entry, listed, minute, alert, jobs, bus, unsaid>>

-----------------------------------------------------------------------------
(* The publisher. emitAlert never waits: a full queue drops the newest.      *)
Emitted(e) ==
  IF Len(jobs) < AlertQueue THEN jobs' = Append(jobs, e) /\ unsaid' = FALSE
                            ELSE unsaid' = TRUE /\ UNCHANGED jobs

Quiet == UNCHANGED <<jobs, unsaid>>

\* Mutant: each message has a goroutine of its own.
Publishes_InAnyOrder ==
  /\ \E i \in DOMAIN jobs :
       bus' = jobs[i] /\ jobs' = SubSeq(jobs, 1, i - 1) \o SubSeq(jobs, i + 1, Len(jobs))
  /\ UNCHANGED <<box, slot, ticked, entry, listed, minute, cool, alert, unsaid, incidents>>

PublishAlert ==
  /\ jobs # <<>> /\ bus' = Head(jobs) /\ jobs' = Tail(jobs)
  /\ UNCHANGED <<box, slot, ticked, entry, listed, minute, cool, alert, unsaid, incidents>>

\* PublishEventWrapper only logs a publish that fails, is refused or takes too long.
PublishFails ==
  /\ jobs # <<>> /\ jobs' = Tail(jobs) /\ unsaid' = (unsaid \/ Len(jobs) = 1)
  /\ UNCHANGED <<box, slot, ticked, entry, listed, minute, cool, alert, bus, incidents>>

(* The evaluator: a change of the alert is emitted, once.                    *)
Becomes(fires) ==
  /\ alert' = fires
  /\ IF fires = alert THEN Quiet ELSE Emitted(IF fires THEN "firing" ELSE "resolved")

\* OnMinute; a minute of both kinds of use is over or under the threshold.
MinuteEnds ==
  \/ minute = NoMinute /\ Becomes(alert)
  \/ minute # NoMinute /\ minute.uses = {} /\ Becomes(FALSE)
  \/ \E use \in minute.uses : Becomes(use = "high")

-----------------------------------------------------------------------------
(* Time, which does not wait for a slow tick.                                *)
Older(n) == IF n = 0 \/ n > MaxGap THEN n ELSE n + 1

TimePasses ==
  /\ ticked' = FALSE
  /\ entry' = [entry EXCEPT !.snap = Older(@)]
  /\ IF slot < TicksPerMinute
     THEN slot' = slot + 1 /\ UNCHANGED <<minute, cool, alert>> /\ Quiet
     ELSE /\ slot' = 1 /\ MinuteEnds /\ minute' = NoMinute
          /\ cool' = (box.use = "low" \/ box.state = "stopped")
  /\ UNCHANGED <<box, listed, bus, incidents>>

-----------------------------------------------------------------------------
(* Tick: the list. Docker away is a gap, "not evidence the alerts ended".    *)
ListFails ==
  /\ ~ticked /\ listed = 0 /\ Incident /\ ticked' = TRUE
  /\ UNCHANGED <<box, slot, entry, listed, minute, cool, alert, jobs, bus, unsaid>>

\* A new docker id under the identity starts over; one that runs will be measured.
ListsRunning ==
  /\ ~ticked /\ listed = 0 /\ box.state = "running" /\ ticked' = TRUE
  /\ listed' = box.id
  /\ entry' = [here |-> TRUE, id |-> box.id, missed |-> 0, resolved |-> FALSE,
               snap |-> IF entry.here /\ entry.id = box.id THEN entry.snap ELSE 0]
  /\ UNCHANGED <<box, slot, minute, cool, alert, bus, incidents>> /\ Quiet

ListsStopped ==
  /\ ~ticked /\ listed = 0 /\ box.state = "stopped" /\ ticked' = TRUE
  /\ entry' = [here |-> TRUE, id |-> box.id, missed |-> 0, resolved |-> TRUE, snap |-> 0]
  /\ Becomes(alert /\ entry.resolved) /\ minute' = IF entry.resolved THEN minute ELSE NoMinute
  /\ UNCHANGED <<box, slot, listed, cool, bus, incidents>>

ListsNothing ==
  /\ ~ticked /\ listed = 0 /\ box.state = "gone" /\ ticked' = TRUE
  /\ IF entry.here /\ entry.missed + 1 >= MissedTicks
     THEN entry' = NoEntry /\ Becomes(FALSE) /\ minute' = NoMinute
     ELSE /\ entry' = IF entry.here THEN [entry EXCEPT !.missed = @ + 1] ELSE entry
          /\ UNCHANGED <<alert, minute>> /\ Quiet
  /\ UNCHANGED <<box, slot, listed, cool, bus, incidents>>

(* The measures. A stats call that fails leaves a gap.                       *)
StatsFail ==
  /\ listed # 0 /\ listed' = 0
  /\ box.state # "running" \/ box.id # listed
  /\ UNCHANGED <<box, slot, ticked, entry, minute, cool, alert, jobs, bus, unsaid, incidents>>

StatsTimeOut ==
  /\ listed # 0 /\ listed' = 0 /\ Incident
  /\ UNCHANGED <<box, slot, ticked, entry, minute, cool, alert, jobs, bus, unsaid>>

\* Measure: the rate needs a baseline that is young and counters that went on.
HasRate == entry.snap \in 1..MaxGap /\ ~box.anew
LastOfTheMinute == slot = TicksPerMinute

Reading ==
  IF HasRate THEN [minute EXCEPT !.uses = @ \cup {box.use}] ELSE [minute EXCEPT !.bare = slot]

\* Mutant: a reading without a rate is recorded wherever it falls.
Recorded_Always == minute' = Reading

\* The first reading after a gap is not recorded when it would be alone in its minute.
Recorded == minute' = IF ~HasRate /\ LastOfTheMinute THEN minute ELSE Reading

Measures ==
  /\ listed # 0 /\ listed = box.id /\ box.state = "running" /\ listed' = 0
  /\ Recorded
  /\ entry' = [entry EXCEPT !.snap = 1] /\ box' = [box EXCEPT !.anew = FALSE]
  /\ UNCHANGED <<slot, ticked, cool, alert, bus, incidents>> /\ Quiet

-----------------------------------------------------------------------------
SamplerNext ==
  \/ BoxChanges \/ PublishAlert \/ PublishFails \/ (listed = 0 /\ TimePasses)
  \/ ListFails \/ ListsRunning \/ ListsStopped \/ ListsNothing
  \/ StatsFail \/ StatsTimeOut \/ Measures

SamplerSpec == SamplerInit /\ [][SamplerNext]_samplerVars

-----------------------------------------------------------------------------
(* Docker away, a call that fails, a slow tick, a restart or a recreation is *)
(* no end of an alert: while the container is not stopped, nor missing in    *)
(* MissedTicks lists, and uses as much, its alert stands. (Excepted: a first *)
(* reading without a rate, whose minute's later ticks brought none either.)  *)
Unlucky == minute.uses = {} /\ minute.bare \in 1..(TicksPerMinute - 1)
Missing == box.state = "gone" /\ entry.missed + 1 >= MissedTicks
AlertOutlivesGaps == [][alert /\ ~alert' => cool \/ Unlucky \/ Missing]_samplerVars

(* "so that a firing and the resolved that follows it reach the bus in the   *)
(* order the sampler emitted them": when nothing waits, the bus's last word  *)
(* on the alert is the alert, whatever was lost before it. (Excepted: a last *)
(* word that was itself lost, in a full queue or in a publish that failed;   *)
(* nothing says it again, and the bus is wrong until the next one.)          *)
LastWordIsTrue == ~unsaid /\ jobs = <<>> => (bus = "firing") = alert
=============================================================================
