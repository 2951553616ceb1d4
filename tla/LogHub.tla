------------------------------- MODULE LogHub -------------------------------
(***************************************************************************)
(* pkg/logstore/hub.go: the queue between the collector of the logs, which *)
(* must never wait, and a live reader, who may be slow. Publish appends to *)
(* the queue of every subscriber under the hub's lock and drops the oldest *)
(* message of a full one. One goroutine per subscriber offers the head of  *)
(* the queue, or the number of dropped messages, outside the lock: what it *)
(* offers may be dropped while the reader takes it.                        *)
(*                                                                         *)
(* A message is its number among those offered to the subscriber. The array *)
(* under the queue and its compaction are left out.                        *)
(***************************************************************************)
EXTENDS Integers, Sequences

CONSTANTS Readers, Kinds,
          Wants,        \* reader -> the kinds of message its matcher accepts
          QueueSize,    \* the backlog of a subscriber
          MaxMessages   \* bound: messages published

ASSUME HubAssumption ==
  /\ Wants \in [Readers -> SUBSET Kinds]
  /\ QueueSize \in Nat \ {0} /\ MaxMessages \in Nat

VARIABLES
  queue,        \* reader -> q[head:]
  popped,       \* reader -> messages ever removed from the head
  dropped,      \* reader -> drops not yet told
  wake,         \* reader -> the one slot of `wake` is taken
  sub,          \* reader -> "no", "in" (subs), "closed" (under the lock), "done" (the channel)
  drain,        \* reader -> where its goroutine is
  item,         \* reader -> what the goroutine offers, and the `popped` it was picked at
  published,
  offered, told, last   \* history: what LogStream speaks of

hub == <<queue, popped, dropped, wake, sub, published>>
hubVars == <<queue, popped, dropped, wake, sub, drain, item, published, offered, told, last>>

NoItem == [lag |-> TRUE, n |-> 0, id |-> 0]

HubInit ==
  /\ queue = [r \in Readers |-> <<>>]
  /\ popped = [r \in Readers |-> 0] /\ dropped = [r \in Readers |-> 0]
  /\ wake = [r \in Readers |-> FALSE]
  /\ sub = [r \in Readers |-> "no"] /\ drain = [r \in Readers |-> "none"]
  /\ item = [r \in Readers |-> NoItem]
  /\ published = 0
  /\ offered = [r \in Readers |-> 0] /\ told = [r \in Readers |-> 0]
  /\ last = [r \in Readers |-> [lag |-> TRUE, n |-> 0]]

-----------------------------------------------------------------------------
(* Publish: one step, under the lock.                                        *)
Hears(r, k) == sub[r] = "in" /\ k \in Wants[r]
IsFull(r) == Len(queue[r]) = QueueSize

\* Mutant: the drop is not counted.
Publish_ForgetsDrops(k) ==
  /\ published < MaxMessages /\ published' = published + 1
  /\ queue' = [r \in Readers |-> IF ~Hears(r, k) THEN queue[r]
                ELSE Append(IF IsFull(r) THEN Tail(queue[r]) ELSE queue[r], offered[r] + 1)]
  /\ popped' = [r \in Readers |-> IF Hears(r, k) /\ IsFull(r) THEN popped[r] + 1 ELSE popped[r]]
  /\ wake' = [r \in Readers |-> wake[r] \/ Hears(r, k)]
  /\ offered' = [r \in Readers |-> IF Hears(r, k) THEN offered[r] + 1 ELSE offered[r]]
  /\ UNCHANGED <<dropped, sub, drain, item, told, last>>

Publish(k) ==
  /\ published < MaxMessages /\ published' = published + 1
  /\ queue' = [r \in Readers |-> IF ~Hears(r, k) THEN queue[r]
                ELSE Append(IF IsFull(r) THEN Tail(queue[r]) ELSE queue[r], offered[r] + 1)]
  /\ popped' = [r \in Readers |-> IF Hears(r, k) /\ IsFull(r) THEN popped[r] + 1 ELSE popped[r]]
  /\ dropped' = [r \in Readers |-> IF Hears(r, k) /\ IsFull(r) THEN dropped[r] + 1 ELSE dropped[r]]
  /\ wake' = [r \in Readers |-> wake[r] \/ Hears(r, k)]
  /\ offered' = [r \in Readers |-> IF Hears(r, k) THEN offered[r] + 1 ELSE offered[r]]
  /\ UNCHANGED <<sub, drain, item, told, last>>

(* Subscribe starts the goroutine; what it returned ends it, in two steps.   *)
Subscribe(r) ==
  /\ sub[r] = "no"
  /\ sub' = [sub EXCEPT ![r] = "in"] /\ drain' = [drain EXCEPT ![r] = "pick"]
  /\ UNCHANGED <<queue, popped, dropped, wake, item, published, offered, told, last>>

Unsubscribe(r) ==
  /\ sub[r] = "in" /\ sub' = [sub EXCEPT ![r] = "closed"]
  /\ UNCHANGED <<queue, popped, dropped, wake, drain, item, published, offered, told, last>>

CloseDone(r) ==
  /\ sub[r] = "closed" /\ sub' = [sub EXCEPT ![r] = "done"]
  /\ UNCHANGED <<queue, popped, dropped, wake, drain, item, published, offered, told, last>>

-----------------------------------------------------------------------------
(* drain, the goroutine of a subscriber.                                     *)
GoesTo(r, at) == drain' = [drain EXCEPT ![r] = at]

\* Under the lock: the lag before the head, the head before sleep.
PickEnded(r) ==
  /\ drain[r] = "pick" /\ sub[r] \in {"closed", "done"} /\ GoesTo(r, "ended")
  /\ UNCHANGED <<hub, item, offered, told, last>>

PickLag(r) ==
  /\ drain[r] = "pick" /\ sub[r] = "in" /\ dropped[r] > 0 /\ GoesTo(r, "check")
  /\ item' = [item EXCEPT ![r] = [lag |-> TRUE, n |-> dropped[r], id |-> 0]]
  /\ UNCHANGED <<hub, offered, told, last>>

PickHead(r) ==
  /\ drain[r] = "pick" /\ sub[r] = "in" /\ dropped[r] = 0 /\ queue[r] # <<>> /\ GoesTo(r, "check")
  /\ item' = [item EXCEPT ![r] = [lag |-> FALSE, n |-> Head(queue[r]), id |-> popped[r]]]
  /\ UNCHANGED <<hub, offered, told, last>>

PickNothing(r) ==
  /\ drain[r] = "pick" /\ sub[r] = "in" /\ dropped[r] = 0 /\ queue[r] = <<>> /\ GoesTo(r, "wait")
  /\ UNCHANGED <<hub, item, offered, told, last>>

\* Everywhere it waits, a signalled change makes it pick again, a closed `done` ends it.
Woken(r) ==
  /\ drain[r] \in {"wait", "check", "offer"} /\ wake[r]
  /\ wake' = [wake EXCEPT ![r] = FALSE] /\ GoesTo(r, "pick")
  /\ UNCHANGED <<queue, popped, dropped, sub, item, published, offered, told, last>>

Ended(r) ==
  /\ drain[r] \in {"wait", "offer"} /\ sub[r] = "done" /\ GoesTo(r, "ended")
  /\ UNCHANGED <<hub, item, offered, told, last>>

NoChange(r) ==
  /\ drain[r] = "check" /\ ~wake[r] /\ GoesTo(r, "offer")
  /\ UNCHANGED <<hub, item, offered, told, last>>

\* The reader takes what is offered, whatever was published since it was picked.
Take(r) ==
  /\ drain[r] = "offer" /\ GoesTo(r, "account")
  /\ last' = [last EXCEPT ![r] = [lag |-> item[r].lag, n |-> item[r].n]]
  /\ told' = [told EXCEPT ![r] = IF item[r].lag THEN @ + item[r].n ELSE item[r].n]
  /\ UNCHANGED <<hub, item, offered>>

\* Under the lock again: a message that was sent while it was dropped is no drop.
Account(r) ==
  /\ drain[r] = "account" /\ GoesTo(r, "pick")
  /\ \/ /\ item[r].lag
        /\ dropped' = [dropped EXCEPT ![r] = @ - item[r].n] /\ UNCHANGED <<queue, popped>>
     \/ /\ ~item[r].lag /\ popped[r] # item[r].id
        /\ dropped' = [dropped EXCEPT ![r] = @ - 1] /\ UNCHANGED <<queue, popped>>
     \/ /\ ~item[r].lag /\ popped[r] = item[r].id /\ queue[r] # <<>>
        /\ queue' = [queue EXCEPT ![r] = Tail(@)] /\ popped' = [popped EXCEPT ![r] = @ + 1]
        /\ UNCHANGED dropped
  /\ UNCHANGED <<wake, sub, item, published, offered, told, last>>

Drain(r) == \/ PickEnded(r) \/ PickLag(r) \/ PickHead(r) \/ PickNothing(r)
            \/ Woken(r) \/ Ended(r) \/ NoChange(r) \/ Account(r)

HubNext ==
  \/ \E k \in Kinds : Publish(k)
  \/ \E r \in Readers : Subscribe(r) \/ Unsubscribe(r) \/ CloseDone(r) \/ Drain(r) \/ Take(r)

HubSpec == HubInit /\ [][HubNext]_hubVars

-----------------------------------------------------------------------------
(* Whatever is dropped while the reader takes it, each reader is told of     *)
(* every message once, in order, as itself or in the count of a lag: the     *)
(* hub implements the stream.                                                *)
Stream == INSTANCE LogStream
StreamIsTold == Stream!StreamSpec
=============================================================================
