------------------------------ MODULE LogFollow ------------------------------
(***************************************************************************)
(* How the lines of a container come to its day files: service/logs.go     *)
(* (the collector), service/logs_follow.go (one follower per container),   *)
(* pkg/logstore/writer.go (the buffer and the day files), store.go and     *)
(* purge.go. Followers of different containers share nothing, so one       *)
(* container is modelled; what the others write shows in the cap of the    *)
(* purge, which may take any number of the oldest days.                    *)
(*                                                                         *)
(* A line is its number in the container's log, in the order of its time.  *)
(* Left out: the text of a line, one torn in its middle by a full disk, the *)
(* settings (retention and cap change what a purge plans, which is open).  *)
(***************************************************************************)
EXTENDS Integers, Sequences, FiniteSets

CONSTANTS
  Retention,    \* days of logs that are kept
  MaxLines, MaxDay, MaxRuns,    \* bounds: lines printed, the last day, runs of the container
  Mishaps, MaxMishaps   \* bounds: what may go wrong once, and how much of it in all

ASSUME FollowAssumption == {Retention, MaxLines, MaxDay, MaxRuns, MaxMishaps} \subseteq Nat /\ MaxDay > 0

VARIABLES
  lines,        \* docker: the day each line was printed on
  running, ends,\* docker: the container runs; how many lines there were at the end of each run
  today,
  events,       \* docker's events not yet handled: AStart, or the number of the run that died
  watch,        \* the goroutine of the events: "idle", or it awaits the follower of a run that died
  store,        \* "down" (no process, or no disk for it), "open", "stopping" (StopLogs)
  f,            \* the follower: where it is, `again`, `last` and where its stream is and ends
  w,            \* the writer: its buffer, the day of it, its file (none, linked, unlinked)
  disk, made,   \* day -> the lines of its file; the days that have a file, empty or not
  purge,        \* one runs, and the days it has still to remove
  lost,         \* history: lines a failing disk, a purge or the retention took
  reread,       \* history: lines of the files when a follower resumed that could not tell where they stop
  mishaps       \* what went wrong: a failing call, a missed event, a stop or a kill

dockerVars == <<lines, running, ends, today>>
followVars == <<lines, running, ends, today, events, watch, store, f, w, disk, made, purge, lost, reread, mishaps>>

Days == 1..MaxDay
Printed == DOMAIN lines
AStart == 0
NoFollower == [at |-> "none", again |-> FALSE, last |-> 0, pos |-> 0, run |-> 0]
NoPurge == [on |-> FALSE, left |-> {}]
NoWriter == [buf |-> <<>>, day |-> 0, file |-> "none"]
Elements(s) == {s[i] : i \in DOMAIN s}
OnDisk == UNION {Elements(disk[d]) : d \in Days}
EndOf(run) == IF run = 0 THEN 0 ELSE ends[run]

FollowInit ==
  /\ lines = <<>> /\ running = FALSE /\ ends = <<>> /\ today = 1
  /\ events = <<>> /\ watch = "idle" /\ store = "down"
  /\ f = NoFollower /\ w = NoWriter /\ disk = [d \in Days |-> <<>>] /\ made = {} /\ purge = NoPurge
  /\ lost = {} /\ reread = {}
  /\ mishaps = {}

Befalls(what) ==
  /\ what \in Mishaps \ mishaps /\ Cardinality(mishaps) < MaxMishaps
  /\ mishaps' = mishaps \cup {what}

-----------------------------------------------------------------------------
(* Docker and the calendar.                                                  *)
Notify(e) == IF store = "open" THEN Append(events, e) ELSE events

Start ==
  /\ ~running /\ Len(ends) < MaxRuns
  /\ running' = TRUE /\ events' = Notify(AStart)
  /\ UNCHANGED <<lines, ends, today, watch, store, f, w, disk, made, purge, lost, reread, mishaps>>

Prints ==
  /\ running /\ Len(lines) < MaxLines
  /\ lines' = Append(lines, today)
  /\ UNCHANGED <<running, ends, today, events, watch, store, f, w, disk, made, purge, lost, reread, mishaps>>

Die ==
  /\ running /\ running' = FALSE
  /\ ends' = Append(ends, Len(lines)) /\ events' = Notify(Len(ends) + 1)
  /\ UNCHANGED <<lines, today, watch, store, f, w, disk, made, purge, lost, reread, mishaps>>

Midnight ==
  /\ today < MaxDay /\ today' = today + 1
  /\ UNCHANGED <<lines, running, ends, events, watch, store, f, w, disk, made, purge, lost, reread, mishaps>>

\* The stream of events breaks: one of them never comes.
Miss ==
  /\ watch = "idle" /\ events # <<>> /\ Befalls("miss") /\ events' = Tail(events)
  /\ UNCHANGED <<dockerVars, watch, store, f, w, disk, made, purge, lost, reread>>

-----------------------------------------------------------------------------
(* follow, under followMu: nothing once the context ended; a start while the *)
(* last run drains asks the same goroutine to go on.                         *)
Follow(restart) ==
  IF store # "open" THEN f
  ELSE IF f.at # "none" THEN [f EXCEPT !.again = @ \/ restart]
  ELSE [NoFollower EXCEPT !.at = "start"]

(* logsOnEvent. A die waits for the follower, then is recorded.              *)
OnStart ==
  /\ watch = "idle" /\ events # <<>> /\ Head(events) = AStart
  /\ events' = Tail(events) /\ f' = Follow(TRUE)
  /\ UNCHANGED <<dockerVars, watch, store, w, disk, made, purge, lost, reread, mishaps>>

OnDie ==
  /\ watch = "idle" /\ events # <<>> /\ Head(events) # AStart
  /\ IF f.at = "none" THEN events' = Tail(events) /\ UNCHANGED watch
                      ELSE watch' = "await" /\ UNCHANGED events
  /\ UNCHANGED <<dockerVars, store, f, w, disk, made, purge, lost, reread, mishaps>>

\* dieDrain is over and the follower still drains: the event is recorded all the same.
DrainTimesOut ==
  /\ watch = "await" /\ watch' = "idle" /\ events' = Tail(events)
  /\ UNCHANGED <<dockerVars, store, f, w, disk, made, purge, lost, reread, mishaps>>

(* followRunning: at the opening and every minute.                           *)
Tick ==
  /\ store = "open" /\ running /\ f.at = "none" /\ f' = Follow(FALSE)
  /\ UNCHANGED <<dockerVars, events, watch, store, w, disk, made, purge, lost, reread, mishaps>>

-----------------------------------------------------------------------------
(* readLogs. LastTimestamp is the last line of the newest day file, which    *)
(* may be empty; without one, the retention is the floor. Docker may give a  *)
(* few lines before.                                                         *)
LastTimestamp ==
  IF made = {} THEN 0
  ELSE LET d == CHOOSE d \in made : \A e \in made : e <= d
       IN  IF disk[d] = <<>> THEN 0 ELSE disk[d][Len(disk[d])]

Before(day) == Cardinality({l \in Printed : lines[l] < day})
Starts(last) ==
  IF last > 0 /\ last >= Before(today - Retention)
  THEN {last, last - 1}
  ELSE Before(today - Retention)..Before(today - Retention + 1)

\* A newest file that cannot be read tells no last line either.
ReadOpens ==
  /\ f.at = "start" /\ store = "open"
  /\ \E last \in {LastTimestamp, 0} : \E s \in Starts(last) :
       /\ IF last = LastTimestamp THEN UNCHANGED mishaps ELSE Befalls("fault")
       /\ f' = [f EXCEPT !.at = "read", !.last = last, !.pos = s,
                         !.run = IF running THEN Len(ends) + 1 ELSE Len(ends)]
       /\ lost' = lost \cup {l \in 1..s : l \notin OnDisk}
       /\ reread' = IF last = 0 THEN reread \cup OnDisk ELSE reread
  /\ UNCHANGED <<dockerVars, events, watch, store, w, disk, made, purge>>

\* The inspection, the request for the logs or the stream fails, or the context ends.
ReadFails ==
  /\ f.at \in {"start", "read"} /\ f' = [NoFollower EXCEPT !.at = "close", !.again = f.again]
  /\ \/ store = "stopping" /\ UNCHANGED mishaps
     \/ store = "open" /\ Befalls("fault")
  /\ UNCHANGED <<dockerVars, events, watch, store, w, disk, made, purge, lost, reread>>

\* Docker ends the stream with the run it was opened in.
ReadEnds ==
  /\ f.at = "read" /\ f.run <= Len(ends) /\ f.pos >= EndOf(f.run)
  /\ f' = [NoFollower EXCEPT !.at = "close", !.again = f.again]
  /\ UNCHANGED <<dockerVars, events, watch, store, w, disk, made, purge, lost, reread, mishaps>>

-----------------------------------------------------------------------------
(* The writer. A flush goes to the file it has open, which a purge may have  *)
(* removed, or opens the day's file; a failing one drops the buffer.         *)
\* The first n lines of the buffer reach the file of its day, which is created for them.
Writes(n) ==
  IF w.file = "unlinked"
  THEN lost' = lost \cup Elements(w.buf) /\ UNCHANGED <<disk, made>>
  ELSE /\ disk' = [disk EXCEPT ![w.day] = @ \o SubSeq(w.buf, 1, n)] /\ made' = made \cup {w.day}
       /\ lost' = lost \cup Elements(SubSeq(w.buf, n + 1, Len(w.buf)))

Flushed == IF w.buf = <<>> THEN UNCHANGED <<disk, made, lost>> ELSE Writes(Len(w.buf))

OpenFails ==
  /\ w.buf # <<>> /\ w.file = "none" /\ Befalls("fault")
  /\ lost' = lost \cup Elements(w.buf) /\ UNCHANGED <<disk, made>>

WriteFails == w.buf # <<>> /\ Befalls("fault") /\ \E n \in 0..Len(w.buf) - 1 : Writes(n)

FlushFails == OpenFails \/ WriteFails

FileAfterFlush == IF w.file = "none" THEN "linked" ELSE w.file

\* Write: a line of another day flushes and closes the file of the last one.
Write(l) ==
  IF lines[l] = w.day
  THEN w' = [w EXCEPT !.buf = Append(@, l)] /\ UNCHANGED <<disk, made, lost, mishaps>>
  ELSE /\ \/ Flushed /\ UNCHANGED mishaps
          \/ FlushFails
       /\ w' = [buf |-> <<l>>, day |-> lines[l], file |-> "none"]

ReadLine ==
  /\ f.at = "read" /\ f.pos < Len(lines) /\ f' = [f EXCEPT !.pos = @ + 1]
  /\ IF f.pos + 1 <= f.last THEN UNCHANGED <<w, disk, made, lost, mishaps>> ELSE Write(f.pos + 1)
  /\ UNCHANGED <<dockerVars, events, watch, store, purge, reread>>

\* Every second, at 64 KiB and before a page is read.
Flush ==
  /\ w.buf # <<>>
  /\ \/ /\ (Flushed /\ UNCHANGED mishaps) \/ WriteFails
        /\ w' = [w EXCEPT !.buf = <<>>, !.file = FileAfterFlush]
     \/ OpenFails /\ w' = [w EXCEPT !.buf = <<>>]
  /\ UNCHANGED <<dockerVars, events, watch, store, f, purge, reread>>

\* Mutant: the writer is left to its flush of every second.
CloseWriter_Later ==
  /\ f.at = "close" /\ f' = [NoFollower EXCEPT !.at = "tail", !.again = f.again]
  /\ UNCHANGED <<dockerVars, events, watch, store, w, disk, made, lost, reread, purge, mishaps>>

\* CloseWriter, deferred in readLogs; then, under followMu, the next run or the end.
CloseWriter ==
  /\ f.at = "close" /\ f' = [NoFollower EXCEPT !.at = "tail", !.again = f.again]
  /\ \/ Flushed /\ UNCHANGED mishaps
     \/ FlushFails
  /\ w' = NoWriter
  /\ UNCHANGED <<dockerVars, events, watch, store, purge, reread>>

FollowerEnds ==
  /\ f.at = "tail"
  /\ IF f.again /\ store = "open"
     THEN f' = [NoFollower EXCEPT !.at = "start"] /\ UNCHANGED <<watch, events>>
     ELSE /\ f' = NoFollower /\ watch' = "idle"
          /\ events' = IF watch = "await" THEN Tail(events) ELSE events
  /\ UNCHANGED <<dockerVars, store, w, disk, made, purge, lost, reread, mishaps>>

-----------------------------------------------------------------------------
(* Purge: the open file is dropped, the days are planned, then removed, the   *)
(* open file is dropped again. A flush may come between any two of these.    *)
DropFile == w' = [w EXCEPT !.file = "none"]

PurgePlans ==
  /\ store = "open" /\ ~purge.on
  /\ \E newest \in Days \cup {0} :
       /\ newest >= today - Retention
       /\ LET plan == made \cap 1..newest IN plan # {} /\ purge' = [on |-> TRUE, left |-> plan]
  /\ DropFile
  /\ UNCHANGED <<dockerVars, events, watch, store, f, disk, made, lost, reread, mishaps>>

PurgeRemoves ==
  /\ purge.left # {} /\ purge' = [purge EXCEPT !.left = {}]
  /\ disk' = [d \in Days |-> IF d \in purge.left THEN <<>> ELSE disk[d]] /\ made' = made \ purge.left
  /\ lost' = lost \cup UNION {Elements(disk[d]) : d \in purge.left}
  /\ w' = IF w.day \in purge.left /\ w.file = "linked" THEN [w EXCEPT !.file = "unlinked"] ELSE w
  /\ UNCHANGED <<dockerVars, events, watch, store, f, reread, mishaps>>

PurgeEnds ==
  /\ purge.on /\ purge.left = {} /\ purge' = NoPurge /\ DropFile
  /\ UNCHANGED <<dockerVars, events, watch, store, f, disk, made, lost, reread, mishaps>>

-----------------------------------------------------------------------------
(* The process. StopLogs waits for the follower, a kill for nothing: it may  *)
(* come between the creation of a file and the first write to it.            *)
StopLogs ==
  /\ store = "open" /\ ~purge.on /\ Befalls("kill")
  /\ store' = "stopping" /\ events' = <<>> /\ watch' = "idle"
  /\ UNCHANGED <<dockerVars, f, w, disk, made, purge, lost, reread>>

Stopped ==
  /\ store = "stopping" /\ f.at = "none" /\ store' = "down"
  /\ UNCHANGED <<dockerVars, events, watch, f, w, disk, made, purge, lost, reread, mishaps>>

Kill ==
  /\ store = "open" /\ Befalls("kill") /\ store' = "down"
  /\ events' = <<>> /\ watch' = "idle" /\ f' = NoFollower /\ w' = NoWriter /\ purge' = NoPurge
  /\ made' \in {made, IF w.buf # <<>> /\ w.file = "none" THEN made \cup {w.day} ELSE made}
  /\ UNCHANGED <<dockerVars, disk, lost, reread>>

\* The store is opened again and again until its disk is there; events are nobody's till then.
OpenStore ==
  /\ store = "down" /\ store' = "open"
  /\ UNCHANGED <<dockerVars, events, watch, f, w, disk, made, purge, lost, reread, mishaps>>

-----------------------------------------------------------------------------
FollowNext ==
  \/ Start \/ Prints \/ Die \/ Midnight \/ Miss
  \/ OnStart \/ OnDie \/ DrainTimesOut \/ Tick \/ Flush
  \/ PurgePlans \/ PurgeRemoves \/ PurgeEnds
  \/ ReadOpens \/ ReadFails \/ ReadEnds \/ ReadLine \/ CloseWriter \/ FollowerEnds
  \/ StopLogs \/ Stopped \/ Kill \/ OpenStore

FollowSpec == FollowInit /\ [][FollowNext]_followVars

-----------------------------------------------------------------------------
(* A follower resumes "from where the files stop": through restarts of the   *)
(* container and of the service, kills, purges and lines docker repeats, no  *)
(* line is in the files twice, and they are in order. (Excepted: a line that *)
(* was there when a follower resumed and the newest file had no last line to *)
(* tell, created for a write that failed or never came, or not readable. The *)
(* code then takes up the retention again.) And "the died event follows the  *)
(* container's last lines on disk": when the event of a run is recorded      *)
(* after its follower ended, all that run printed is in the files, but for   *)
(* what a purge took. (The latter is not said when a call failed or the      *)
(* event of its start was missed.)                                           *)
LinesOnceInOrder ==
  \A d \in Days : \A i, j \in DOMAIN disk[d] :
    i < j => disk[d][i] < disk[d][j] \/ disk[d][i] \in reread

RunIsRecorded == watch = "await" /\ f.at = "tail" /\ FollowerEnds /\ watch' = "idle"
RunsEndOnDisk ==
  [][RunIsRecorded /\ mishaps \subseteq {"kill"}
       => EndOf(Head(events) - 1) + 1..EndOf(Head(events)) \subseteq OnDisk \cup lost]_followVars

FilesAreTheLog == []LinesOnceInOrder /\ RunsEndOnDisk
=============================================================================
