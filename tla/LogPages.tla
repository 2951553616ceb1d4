------------------------------- MODULE LogPages -------------------------------
(***************************************************************************)
(* How the history of the logs is read in pages (pkg/logstore/query.go)    *)
(* while the writers go on: forwards from a cursor, as a client polls and  *)
(* as the export walks, and backwards from the newest page. A page merges  *)
(* the day files on (time, file, offset), and a cursor names a line. A     *)
(* line that sits in a writer's buffer is not in its file yet: a page that *)
(* may be followed by a poll stops short of the last second, and every     *)
(* writer is flushed before a page is read. The writers go on while it is: *)
(* the flush, the clock, each file and the events are steps of their own.  *)
(*                                                                         *)
(* A line is its time, its file and its place in the file; one the filter  *)
(* does not accept is as if it were not there. A client asks for one page  *)
(* at a time. Left out: the bytes (chunks, a line being written, the       *)
(* binary search), the split in days, the purge, a flush that fails.       *)
(***************************************************************************)
EXTENDS Integers, Sequences, FiniteSets, FiniteSetsExt, Functions

CONSTANTS Files,        \* the day files, by their place in the order of names
          Limit,        \* lines in a page
          HoldBack,     \* "holdBack"
          EventLimit,   \* "maxPageEvents"
          MaxNow, MaxPrinted, MaxEvents \* bounds: the clock, the lines, the events

ASSUME PagesAssumption == Files \subseteq Nat \ {0} /\ {Limit, HoldBack, EventLimit} \subseteq Nat \ {0}

VARIABLES now,
          flight,       \* file -> lines printed that have not come to the writer
          buffer, file, \* file -> lines in the writer's buffer, and in the file
          late,         \* history: lines no page holds back for any more
          journal,      \* the events in the order of the file: their times, and if recorded late
          page,         \* the page being read: what for, the hold-back, the files to read, the lines
          poll,         \* the polling client: its cursor
          walk,         \* the client that goes back: its cursor, and whether it walks
          start,        \* history: where the walk began (its newest line)
          got, back,    \* history: the lines of the polls and of the walk, in order
          seen, cut     \* history: the events the pages had, and those past their limit

cursorVars == <<poll, walk, start, got, back, seen, cut>>
pagesVars == <<now, flight, buffer, file, late, journal, page, cursorVars>>

NoCursor == [at |-> 0, file |-> 0, seq |-> 0]   \* "sorts before every line"

NoPage == [for |-> "none", clocked |-> FALSE, hold |-> 0, unread |-> {}, lines |-> {}]

PagesInit ==
  /\ now = 1
  /\ flight = [x \in Files |-> <<>>] /\ buffer = [x \in Files |-> <<>>] /\ file = [x \in Files |-> <<>>]
  /\ late = {} /\ journal = <<>> /\ seen = {} /\ cut = {} /\ page = NoPage
  /\ poll = NoCursor /\ walk = [on |-> FALSE, from |-> NoCursor] /\ start = NoCursor
  /\ got = <<>> /\ back = <<>>

-----------------------------------------------------------------------------
(* The writers.                                                              *)
Count(x) == Len(flight[x]) + Len(buffer[x]) + Len(file[x])

PrintLine(x) ==
  /\ MapThenSumSet(Count, Files) < MaxPrinted
  /\ flight' = [flight EXCEPT ![x] = Append(@, now)]
  /\ UNCHANGED <<now, buffer, file, late, journal, page, cursorVars>>

\* The follower hands the line to the writer; it is late if a page may have passed it.
Arrive(x) ==
  /\ flight[x] # <<>>
  /\ buffer' = [buffer EXCEPT ![x] = Append(@, Head(flight[x]))]
  /\ flight' = [flight EXCEPT ![x] = Tail(@)]
  /\ late' = IF now >= Head(flight[x]) + HoldBack
             THEN late \cup {[at |-> Head(flight[x]), file |-> x, seq |-> Len(file[x]) + Len(buffer[x]) + 1]}
             ELSE late
  /\ UNCHANGED <<now, file, journal, page, cursorVars>>

FlushOne(x) ==
  /\ buffer[x] # <<>>
  /\ file' = [file EXCEPT ![x] = @ \o buffer[x]] /\ buffer' = [buffer EXCEPT ![x] = <<>>]
  /\ UNCHANGED <<now, flight, late, journal, page, cursorVars>>

\* An event is in the journal as it happens; that of a die waits for the container's follower.
Record(wait) ==
  /\ wait < now /\ Len(journal) < MaxEvents
  /\ journal' = Append(journal, [at |-> now - wait, late |-> wait >= HoldBack])
  /\ UNCHANGED <<now, flight, buffer, file, late, page, cursorVars>>

Second ==
  /\ now < MaxNow /\ now' = now + 1
  /\ UNCHANGED <<flight, buffer, file, late, journal, page, cursorVars>>

-----------------------------------------------------------------------------
(* Store.Read: every writer is flushed, then read takes the time, the files  *)
(* and, last, the events.                                                    *)
LinesOf(content) ==
  UNION {{[at |-> content[x][i], file |-> x, seq |-> i] : i \in DOMAIN content[x]} : x \in Files}

FlushedFiles == [x \in Files |-> file[x] \o buffer[x]]

\* The newest page begins a session; the older ones, and the polls, go on from a cursor.
Ask(for) ==
  /\ page = NoPage
  /\ for = "newest" => ~walk.on /\ back = <<>> /\ poll = NoCursor
  /\ for = "older" => walk.on
  /\ file' = FlushedFiles /\ buffer' = [x \in Files |-> <<>>]
  /\ page' = [NoPage EXCEPT !.for = for, !.unread = Files]
  /\ UNCHANGED <<now, flight, late, journal, cursorVars>>

Hold == now - HoldBack

\* s.now() after the flush: a line that came between is not held back if it is old enough by now.
ReadClock ==
  /\ page.for # "none" /\ ~page.clocked
  /\ page' = [page EXCEPT !.clocked = TRUE, !.hold = Hold]
  /\ late' = IF page.for = "older" THEN late
             ELSE late \cup {l \in LinesOf(FlushedFiles) \ LinesOf(file) : l.at <= Hold}
  /\ UNCHANGED <<now, flight, buffer, file, journal, cursorVars>>

\* compareTo: by time, then file, then offset.
Precedes(k, l) ==
  \/ k.at < l.at
  \/ k.at = l.at /\ k.file < l.file
  \/ k.at = l.at /\ k.file = l.file /\ k.seq < l.seq

\* Mutant: the last second is not held back.
Ahead_ToTheEnd(l) == Precedes(poll, l)

\* take, forwards: past the cursor, no younger than the hold-back, if the filter accepts it.
Ahead(l) == Precedes(poll, l) /\ l.at <= page.hold

\* take, backwards; the newest page holds back too, "its first line's cursor may start a poll".
Behind(l) == IF page.for = "newest" THEN l.at <= page.hold ELSE Precedes(l, walk.from)

Takes(l) == IF page.for = "poll" THEN Ahead(l) ELSE Behind(l)

ReadFile(x) ==
  /\ page.clocked /\ x \in page.unread
  /\ page' = [page EXCEPT !.unread = @ \ {x},
                          !.lines = @ \cup {l \in LinesOf(file) : l.file = x /\ Takes(l)}]
  /\ UNCHANGED <<now, flight, buffer, file, late, journal, cursorVars>>

\* The merge: the first k of S in the direction of the walk, as a sequence.
Sorted(S) ==
  LET rank(l) == Cardinality({k \in S : Precedes(k, l)}) + 1
  IN  [i \in 1..Cardinality(S) |-> CHOOSE l \in S : rank(l) = i]
Forwards(S, k) == SubSeq(Sorted(S), 1, k)
Backwards(S, k) == [i \in 1..k |-> Sorted(S)[Cardinality(S) + 1 - i]]

\* A page is full at its limit, and earlier when its bytes are used up, but has one line.
Sizes(S) == IF S = {} THEN {0} ELSE {Min({Cardinality(S), Limit})} \cup 1..Min({Cardinality(S), Limit})
Full(S, k) == k = Limit \/ k < Cardinality(S)

\* ReadEvents: those of the window that were recorded last, up to the limit.
InWindow(since, until) == {i \in DOMAIN journal : since <= journal[i].at /\ journal[i].at <= until}
LastOf(I) == {i \in I : Cardinality({j \in I : i <= j}) <= EventLimit}

Shows(since, until) ==
  LET window == InWindow(since, until)
  IN  seen' = seen \cup LastOf(window) /\ cut' = cut \cup (window \ LastOf(window))

Answers(for) ==
  /\ page.for = for /\ page.clocked /\ page.unread = {} /\ page' = NoPage
  /\ UNCHANGED <<now, flight, buffer, file, late, journal>>

(* LogsQuery with a cursor to go on from, and each page of LogsExport. The   *)
(* client resumes from the last line it got, its old cursor without one; the *)
(* window of events goes from the cursor it sent to the page's far end.      *)
Poll ==
  LET S == page.lines
  IN  /\ Answers("poll")
      /\ \E k \in Sizes(S) :
           LET lines == Forwards(S, k) IN
           /\ got' = got \o lines
           /\ poll' = IF k > 0 THEN lines[k] ELSE poll
           /\ Shows(poll.at, IF Full(S, k) THEN lines[k].at ELSE page.hold)
      /\ UNCHANGED <<walk, start, back>>

(* The newest page: the older ones go on from its last line, and the polls   *)
(* of the same client from its first.                                        *)
NewestPage ==
  LET S == page.lines
  IN  /\ Answers("newest")
      /\ \E k \in Sizes(S) :
           LET lines == Backwards(S, k) IN
           /\ back' = lines
           /\ walk' = IF k = 0 THEN walk ELSE [on |-> Full(S, k), from |-> lines[k]]
           /\ start' = IF k = 0 THEN start ELSE lines[1]
           /\ poll' = IF k = 0 THEN poll ELSE lines[1]
           /\ Shows(IF Full(S, k) THEN lines[k].at ELSE 0, page.hold)
      /\ UNCHANGED got

OlderPage ==
  LET S == page.lines
  IN  /\ Answers("older")
      /\ \E k \in Sizes(S) :
           LET lines == Backwards(S, k) IN
           /\ back' = back \o lines
           /\ walk' = IF k = 0 THEN [walk EXCEPT !.on = FALSE]
                      ELSE [on |-> Full(S, k), from |-> lines[k]]
           /\ Shows(IF Full(S, k) THEN lines[k].at ELSE 0, walk.from.at)
      /\ UNCHANGED <<poll, start, got>>

-----------------------------------------------------------------------------
PagesNext ==
  \/ \E x \in Files : PrintLine(x) \/ Arrive(x) \/ FlushOne(x)
  \/ \E wait \in 0..HoldBack : Record(wait)
  \/ Second
  \/ \E for \in {"poll", "newest", "older"} : Ask(for)
  \/ ReadClock
  \/ \E x \in Files : ReadFile(x)
  \/ Poll \/ NewestPage \/ OlderPage

PagesSpec == PagesInit /\ [][PagesNext]_pagesVars

-----------------------------------------------------------------------------
OnTime == LinesOf(file) \ late

(* However pages, writers and time are interleaved: polls give each line     *)
(* once, in order, and none they passed is left out; a walk back gives each  *)
(* line once, and when it ends none is left out before its first. Between    *)
(* them they have everything. And "consecutive pages leave no gap": an event *)
(* between the walk's last line and the polls' was in some page's window.    *)
(* But the lines that come, or events that are recorded, when they cannot be *)
(* held back any more, a line that comes between a page's flush and its      *)
(* clock (all these are `late`), and the events past a page's limit (`cut`). *)
PollsSkipNothing ==
  /\ \A i, j \in DOMAIN got : i < j => Precedes(got[i], got[j])
  /\ \A l \in OnTime : Precedes(start, l) /\ ~Precedes(poll, l) => l \in Range(got)

WalkSkipsNothing ==
  /\ \A i, j \in DOMAIN back : i < j => Precedes(back[j], back[i])
  /\ back # <<>> /\ ~walk.on => \A l \in OnTime : ~Precedes(start, l) => l \in Range(back)

EventsInSomePage ==
  \A i \in DOMAIN journal :
    journal[i].at < poll.at /\ (walk.on => walk.from.at <= journal[i].at) /\ ~journal[i].late
      => i \in seen \cup cut

PagesShowAll == PollsSkipNothing /\ WalkSkipsNothing /\ EventsInSomePage
=============================================================================
