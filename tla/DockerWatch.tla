----------------------------- MODULE DockerWatch -----------------------------
(***************************************************************************)
(* service/docker_watch.go: what happens to an app's containers when nobody *)
(* asked for it. One goroutine follows docker's events, decides what each  *)
(* of them means (observe) and what the time passing means (tick), and     *)
(* takes up the containers anew after a break of the stream (resume).      *)
(*                                                                         *)
(* Times are ages, in minutes, that grow no further than they matter; a    *)
(* minute does not end before its events were read. Left out: the log's    *)
(* use of the same stream (LogFollow), the pause before a broken stream is *)
(* followed again, and the goroutine each message is sent in: messages     *)
(* appear in the order they were decided in.                               *)
(***************************************************************************)
EXTENDS Integers, Sequences, FiniteSets

CONSTANTS Containers,   \* by their names: one that is recreated is the same
          Projects, ProjectOf,
          WatchWindow, StopGrace, RestartsForALoop,
          MaxUnread, Troubles, MaxTroubles  \* bounds: events unread; what happens, and how much of it

ASSUME WatchAssumption ==
  /\ ProjectOf \in [Containers -> Projects]
  /\ {WatchWindow, StopGrace, RestartsForALoop, MaxUnread, MaxTroubles} \subseteq Nat

VARIABLES
  real,         \* container -> does it run, is it unhealthy, for how long has it run well
  held,         \* the apps an operation holds
  link,         \* "broken", "open" (docker streams), "listed" (and resume is over)
  unread,       \* the events of the stream
  known,        \* w.containers
  clock,        \* a minute has passed since the last tick
  out,          \* what the last step published
  episode,      \* history: container -> what was published of it since its app was healthy
  did           \* bound: how much has happened

watchVars == <<real, held, link, unread, known, clock, out, episode, did>>

Forgotten == [here |-> FALSE, last |-> 0, killed |-> StopGrace + 1, starts |-> <<>>, running |-> FALSE,
              unhealthy |-> FALSE, fine |-> 0, troubled |-> FALSE, looping |-> FALSE]

WatchInit ==
  /\ real = [c \in Containers |-> [up |-> TRUE, sick |-> FALSE, fresh |-> FALSE, well |-> WatchWindow]]
  /\ held = {} /\ link = "broken" /\ unread = <<>>
  /\ known = [c \in Containers |-> Forgotten] /\ clock = FALSE
  /\ out = {} /\ episode = [c \in Containers |-> {}] /\ did = 0

-----------------------------------------------------------------------------
(* Docker, its users and the operations of this service.                     *)
Happens(what) == what \in Troubles /\ did < MaxTroubles /\ did' = did + 1

Sends(c, e) ==
  unread' = IF link = "broken" THEN unread ELSE Append(unread, [of |-> c, action |-> e])

Room == Len(unread) < MaxUnread

Dies(c, how) ==
  /\ Room /\ real[c].up /\ Happens("die")
  /\ real' = [real EXCEPT ![c] = [up |-> FALSE, sick |-> FALSE, fresh |-> FALSE, well |-> 0]]
  /\ Sends(c, how)
  /\ UNCHANGED <<held, link, known, clock, out, episode>>

Starts_(c) ==
  /\ Room /\ ~real[c].up
  /\ real' = [real EXCEPT ![c] = [up |-> TRUE, sick |-> FALSE, fresh |-> TRUE, well |-> 0]]
  /\ Sends(c, "start")
  /\ UNCHANGED <<held, link, known, clock, out, episode, did>>

Killed(c) ==
  /\ Room /\ real[c].up /\ Happens("kill") /\ Sends(c, "kill")
  /\ UNCHANGED <<real, held, link, known, clock, out, episode>>

Sickens(c) ==
  /\ Room /\ real[c].up /\ ~real[c].sick /\ Happens("sick")
  /\ real' = [real EXCEPT ![c].sick = TRUE, ![c].well = 0]
  /\ Sends(c, "unhealthy")
  /\ UNCHANGED <<held, link, known, clock, out, episode>>

\* Docker also says so of one that was only starting.
Heals(c) ==
  /\ Room /\ real[c].up /\ (real[c].sick \/ real[c].fresh)
  /\ real' = [real EXCEPT ![c].sick = FALSE, ![c].fresh = FALSE]
  /\ Sends(c, "healthy")
  /\ UNCHANGED <<held, link, known, clock, out, episode, did>>

Holds(a) ==
  /\ a \notin held /\ Happens("hold") /\ held' = held \cup {a}
  /\ UNCHANGED <<real, link, unread, known, clock, out, episode>>

Releases(a) ==
  /\ a \in held /\ held' = held \ {a}
  /\ UNCHANGED <<real, link, unread, known, clock, out, episode, did>>

Aged(n, most) == IF n < most THEN n + 1 ELSE n

Minute ==
  /\ unread = <<>>
  /\ real' = [c \in Containers |-> [real[c] EXCEPT !.well =
               IF real[c].up /\ ~real[c].sick THEN Aged(@, WatchWindow) ELSE 0]]
  /\ known' = [c \in Containers |-> [known[c] EXCEPT
       !.last = Aged(@, WatchWindow), !.killed = Aged(@, StopGrace + 1), !.fine = Aged(@, WatchWindow),
       !.starts = [i \in DOMAIN @ |-> Aged(@[i], WatchWindow)]]]
  /\ clock' = (link = "listed")
  /\ UNCHANGED <<held, link, unread, out, episode, did>>

-----------------------------------------------------------------------------
(* The stream.                                                               *)
Breaks ==
  /\ link # "broken" /\ Happens("break") /\ link' = "broken" /\ unread' = <<>> /\ clock' = FALSE
  /\ UNCHANGED <<real, held, known, out, episode>>

\* follow: docker streams, and only then the containers that run are listed.
Opens ==
  /\ link = "broken" /\ link' = "open"
  /\ UNCHANGED <<real, held, unread, known, clock, out, episode, did>>

Resumes ==
  /\ link = "open" /\ link' = "listed"
  /\ known' = [c \in Containers |-> IF known[c].here
       THEN [known[c] EXCEPT !.running = real[c].up, !.unhealthy = real[c].sick, !.fine = 0]
       ELSE known[c]]
  /\ UNCHANGED <<real, held, unread, clock, out, episode, did>>

-----------------------------------------------------------------------------
(* observe.                                                                  *)
Asked(w) == w.killed <= StopGrace

Recent(starts) == SelectSeq(starts, LAMBDA age : age < WatchWindow)
LastOnes(s) == SubSeq(s, IF Len(s) > RestartsForALoop + 1 THEN Len(s) - RestartsForALoop ELSE 1, Len(s))

\* What the watch remembers after event e of a container, and what it publishes.
Died(w, isHeld, code) ==
  LET bad == code = "crash" /\ ~Asked(w) /\ ~isHeld
  IN  [w |-> [w EXCEPT !.running = FALSE, !.troubled = @ \/ bad], said |-> IF bad THEN {"died"} ELSE {}]

Started(w, isHeld) ==
  LET n == LastOnes(Append(Recent(w.starts), 0))
      loop == Len(n) > RestartsForALoop /\ ~w.looping
      u == [w EXCEPT !.running = TRUE, !.unhealthy = FALSE, !.fine = 0]
  IN  IF Asked(w) \/ isHeld THEN [w |-> u, said |-> {}]
      ELSE [w |-> [u EXCEPT !.starts = n, !.troubled = @ \/ loop, !.looping = @ \/ loop],
            said |-> IF loop THEN {"restarting"} ELSE {}]

Unhealthy(w) == [w |-> [w EXCEPT !.unhealthy = TRUE, !.troubled = TRUE], said |-> {"unhealthy"}]

Healthy(w) ==
  [w |-> [w EXCEPT !.fine = IF w.unhealthy \/ ~w.running THEN 0 ELSE @, !.running = TRUE, !.unhealthy = FALSE],
   said |-> {}]

observe(w, e, isHeld) ==
  CASE e = "kill" -> [w |-> [w EXCEPT !.killed = 0], said |-> {}]
    [] e \in {"crash", "exit"} -> Died(w, isHeld, e)
    [] e = "start" -> Started(w, isHeld)
    [] e = "unhealthy" -> Unhealthy(w)
    [] e = "healthy" -> Healthy(w)

Observes ==
  /\ link = "listed" /\ unread # <<>>
  /\ LET c == Head(unread).of
         o == observe([known[c] EXCEPT !.here = TRUE, !.last = 0], Head(unread).action, ProjectOf[c] \in held)
     IN  /\ known' = [known EXCEPT ![c] = o.w]
         /\ out' = {[of |-> c, what |-> s] : s \in o.said}
         /\ episode' = [episode EXCEPT ![c] = @ \cup o.said]
  /\ unread' = Tail(unread)
  /\ UNCHANGED <<real, held, link, clock, did>>

-----------------------------------------------------------------------------
(* tick.                                                                     *)
RunsWell(w) == w.running /\ ~w.unhealthy /\ w.fine >= WatchWindow
Owing(a) == {c \in Containers : ProjectOf[c] = a /\ known[c].troubled}

\* Mutant: one container that runs well again is enough.
Recovered_OneOfThem == {a \in Projects : \E c \in Owing(a) : RunsWell(known[c])}

Recovered == {a \in Projects : Owing(a) # {} /\ \A c \in Owing(a) : RunsWell(known[c])}

Over(c) == ProjectOf[c] \in Recovered /\ known[c].troubled
AtRest(w) == ~w.troubled /\ w.last >= WatchWindow

Ticks ==
  /\ link = "listed" /\ clock /\ clock' = FALSE
  /\ known' = [c \in Containers |->
       IF AtRest(known[c]) THEN Forgotten
       ELSE IF Over(c) /\ RunsWell(known[c]) THEN [known[c] EXCEPT !.troubled = FALSE, !.looping = FALSE]
       ELSE known[c]]
  /\ out' = {[of |-> a, what |-> "healthy"] : a \in Recovered}
  /\ episode' = [c \in Containers |-> IF ProjectOf[c] \in Recovered THEN {} ELSE episode[c]]
  /\ UNCHANGED <<real, held, link, unread, did>>

-----------------------------------------------------------------------------
WatchNext ==
  \/ \E c \in Containers : \/ \E how \in {"crash", "exit"} : Dies(c, how)
                           \/ Starts_(c) \/ Killed(c) \/ Sickens(c) \/ Heals(c)
  \/ \E a \in Projects : Holds(a) \/ Releases(a)
  \/ Minute \/ Breaks \/ Opens \/ Resumes \/ Observes \/ Ticks

WatchSpec == WatchInit /\ [][WatchNext]_watchVars

\* The stream is followed again and read, time passes, the ticker ticks.
WatchFairness ==
  WF_watchVars(Opens) /\ WF_watchVars(Resumes) /\ WF_watchVars(Observes)
    /\ WF_watchVars(Minute) /\ WF_watchVars(Ticks)

-----------------------------------------------------------------------------
(* "which ends the episode", "once an episode": an app is said to be healthy *)
(* only if every container that was in trouble since really has run well for *)
(* the whole window, through breaks of the stream and recreations (or docker *)
(* has just said otherwise); a loop is said once until then. And 4 is owed   *)
(* after 1, 2 and 3: once the containers of an app run well and go on to,    *)
(* its trouble is over and somebody is told.                                 *)
Unread(c) == \E i \in DOMAIN unread : unread[i].of = c
Says(x, what) == [of |-> x, what |-> what] \in out'
Well(a) == \A c \in Containers : ProjectOf[c] = a => real[c].up /\ ~real[c].sick
Untroubled(a) == \A c \in Containers : ProjectOf[c] = a => episode[c] = {}

HealthyIsHealthy ==
  \A c \in Containers :
    Ticks /\ Says(ProjectOf[c], "healthy") /\ episode[c] # {} /\ ~Unread(c) => real[c].well >= WatchWindow
LoopIsSaidOnce == \A c \in Containers : Observes /\ Says(c, "restarting") => "restarting" \notin episode[c]
EpisodesAreTrue == [][HealthyIsHealthy /\ LoopIsSaidOnce]_watchVars

AlertsAreTrue ==
  /\ EpisodesAreTrue
  /\ \A a \in Projects : <>[]Well(a) => []<>Untroubled(a)
=============================================================================
