----------------------------- MODULE LiveProofs -----------------------------
(***************************************************************************)
(* What is shown live, for any number of readers, messages, containers,    *)
(* alerts, files and lines.                                                *)
(*                                                                         *)
(* The hub implements the stream, for any backlog and however fast a       *)
(* reader takes what it is offered (HubInv). The alerts' state and the     *)
(* words for the bus are two halves of one fact: the words that wait, said *)
(* in order, end in the alert's state (WordInv); and an alert with a gap   *)
(* before it ended has a minute that decided so (MinuteInv). A page sorts  *)
(* what it finds (SortedSorts) and leaves nothing before its last line     *)
(* (ForwardsIsAPage, BackwardsIsAPage); the cursors are never past the     *)
(* hold-back, so what comes on time comes behind them (PollInv, WalkInv).  *)
(* And what the watch remembers of a container is what it does, or an      *)
(* event that will say otherwise is unread (KnownIsReal). The files and    *)
(* the buffer are in order, and a follower knows their last line           *)
(* (OrderInv); every end that is not handled yet has a follower that reads *)
(* up to it, or has (RecordInv).                                           *)
(***************************************************************************)
EXTENDS LogHub, Sampler, LogPages, DockerWatch, LogFollow, FiniteSetTheorems, SequenceTheorems,
        WellFoundedInduction, TLAPS

Items == [lag : BOOLEAN, n : Nat, id : Nat]

HubTypes ==
  /\ queue \in [Readers -> Seq(Nat)] /\ popped \in [Readers -> Nat]
  /\ dropped \in [Readers -> Nat] /\ wake \in [Readers -> BOOLEAN]
  /\ sub \in [Readers -> {"no", "in", "closed", "done"}]
  /\ drain \in [Readers -> {"none", "pick", "check", "offer", "account", "wait", "ended"}]
  /\ item \in [Readers -> Items]
  /\ published \in Nat /\ offered \in [Readers -> Nat] /\ told \in [Readers -> Nat]
  /\ last \in [Readers -> [lag : BOOLEAN, n : Nat]]

(* The queue is what was offered and not removed, and never over its limit.  *)
Numbered(s, p) == \A i \in 1 .. Len(s) : s[i] = p + i
QueueIsTheRest(r) ==
  /\ Numbered(queue[r], popped[r])
  /\ popped[r] + Len(queue[r]) = offered[r]
  /\ Len(queue[r]) <= QueueSize

(* What was picked stays one the reader was not told of: a lag no longer     *)
(* than the drops, or the message after those it knows.                      *)
PickIsNext(r) ==
  \/ /\ item[r].lag /\ item[r].n > 0 /\ item[r].n <= dropped[r]
  \/ /\ ~item[r].lag /\ item[r].n = item[r].id + 1 /\ item[r].n <= offered[r]
     /\ told[r] = item[r].id

(* What was removed was told or is counted; between the taking and the       *)
(* accounting, what was taken is in neither place or in both.                *)
RemovedIsToldOrCounted(r) ==
  /\ drain[r] # "account" => told[r] + dropped[r] = popped[r]
  /\ drain[r] \in {"check", "offer"} => PickIsNext(r)
  /\ drain[r] = "account" /\ item[r].lag =>
       item[r].n <= dropped[r] /\ told[r] + dropped[r] = popped[r] + item[r].n
  /\ drain[r] = "account" /\ ~item[r].lag =>
       /\ told[r] = item[r].id + 1 /\ told[r] <= offered[r]
       /\ told[r] + dropped[r] = popped[r] + 1

(* Before it subscribes nothing works for a reader.                          *)
NobodyBefore(r) == sub[r] = "no" => drain[r] = "none"

ReaderInv(r) == QueueIsTheRest(r) /\ RemovedIsToldOrCounted(r) /\ NobodyBefore(r)

HubInv == HubTypes /\ \A r \in Readers : ReaderInv(r)

-----------------------------------------------------------------------------
(* What a step that leaves a reader alone leaves.                            *)
Spared(r) ==
  /\ queue'[r] = queue[r] /\ popped'[r] = popped[r] /\ dropped'[r] = dropped[r]
  /\ drain'[r] = drain[r] /\ item'[r] = item[r] /\ offered'[r] = offered[r]
  /\ told'[r] = told[r] /\ (sub'[r] = "no" => sub[r] = "no")

NatsAt(r) ==
  /\ queue[r] \in Seq(Nat) /\ popped[r] \in Nat /\ dropped[r] \in Nat
  /\ item[r] \in Items /\ item[r].lag \in BOOLEAN /\ item[r].n \in Nat /\ item[r].id \in Nat
  /\ offered[r] \in Nat /\ told[r] \in Nat

LEMMA OneLess ==
  ASSUME NEW t \in Nat, NEW d \in Nat, NEW p \in Nat, NEW i \in Nat,
         t = i + 1, t + d = p + 1, p # i
  PROVE  d - 1 \in Nat /\ t + (d - 1) = p
OBVIOUS

LEMMA TypesAt ==
  ASSUME HubTypes, NEW r \in Readers
  PROVE  NatsAt(r)
<1>1. item[r] \in Items
  BY DEF HubTypes
<1> QED
  BY <1>1 DEF HubTypes, NatsAt, Items

LEMMA SparedKeeps ==
  ASSUME NEW r \in Readers, ReaderInv(r), Spared(r)
  PROVE  ReaderInv(r)'
  BY DEF ReaderInv, NobodyBefore, Spared, QueueIsTheRest, Numbered, RemovedIsToldOrCounted, PickIsNext

LEMMA AppendIsNumbered ==
  ASSUME NEW s \in Seq(Nat), NEW p \in Nat, Numbered(s, p), NEW n \in Nat, n = p + Len(s) + 1
  PROVE  /\ Append(s, n) \in Seq(Nat) /\ Len(Append(s, n)) = Len(s) + 1
         /\ Numbered(Append(s, n), p)
  BY DEF Numbered

LEMMA TailIsNumbered ==
  ASSUME NEW s \in Seq(Nat), NEW p \in Nat, Numbered(s, p), s # <<>>
  PROVE  /\ Tail(s) \in Seq(Nat) /\ Len(Tail(s)) = Len(s) - 1 /\ Len(s) \in Nat \ {0}
         /\ Head(s) = p + 1 /\ Numbered(Tail(s), p + 1)
  BY DEF Numbered

(* A publication to a full queue, whose oldest message makes room.           *)
LEMMA RoomIsMade ==
  ASSUME NEW s \in Seq(Nat), NEW p \in Nat, Numbered(s, p), NEW o \in Nat, p + Len(s) = o,
         Len(s) = QueueSize
  PROVE  /\ Append(Tail(s), o + 1) \in Seq(Nat) /\ Len(Append(Tail(s), o + 1)) = QueueSize
         /\ Numbered(Append(Tail(s), o + 1), p + 1)
<1>1. s # <<>>
  BY HubAssumption
<1> DEFINE t == Tail(s)
<1>2. /\ t \in Seq(Nat) /\ Len(t) = Len(s) - 1 /\ Len(s) \in Nat \ {0} /\ Numbered(t, p + 1)
  BY <1>1, TailIsNumbered
<1> HIDE DEF t
<1>3. o + 1 \in Nat /\ p + 1 \in Nat /\ Len(t) + 1 = Len(s)
  BY <1>2
<1>4. o + 1 = (p + 1) + Len(t) + 1
  <2>1. \A l, m \in Int : l = m - 1 /\ p + m = o => o + 1 = (p + 1) + l + 1
    OBVIOUS
  <2> QED
    BY <1>2, <2>1
<1>5. /\ Append(t, o + 1) \in Seq(Nat) /\ Len(Append(t, o + 1)) = Len(t) + 1
      /\ Numbered(Append(t, o + 1), p + 1)
  BY <1>2, <1>3, <1>4, AppendIsNumbered
<1> QED
  BY <1>3, <1>5 DEF t

LEMMA HubStarts == HubInit => HubInv
<1> SUFFICES ASSUME HubInit PROVE HubInv
  OBVIOUS
<1>1. NoItem \in Items
  BY DEF NoItem, Items
<1>2. HubTypes
  BY <1>1 DEF HubInit, HubTypes
<1>3. ASSUME NEW r \in Readers PROVE ReaderInv(r)
  BY HubAssumption DEF HubInit, ReaderInv, NobodyBefore, QueueIsTheRest, Numbered, RemovedIsToldOrCounted
<1> QED
  BY <1>2, <1>3 DEF HubInv

LEMMA PublishKeeps ==
  ASSUME HubInv, NEW k \in Kinds, Publish(k)
  PROVE  HubInv'
<1>0. HubTypes /\ \A r \in Readers : ReaderInv(r) /\ NatsAt(r)
  BY TypesAt DEF HubInv
<1>1. ASSUME NEW r \in Readers, Hears(r, k), IsFull(r)
      PROVE  queue'[r] \in Seq(Nat) /\ ReaderInv(r)'
  <2>1. /\ queue'[r] = Append(Tail(queue[r]), offered[r] + 1)
        /\ popped'[r] = popped[r] + 1 /\ dropped'[r] = dropped[r] + 1
        /\ offered'[r] = offered[r] + 1 /\ drain'[r] = drain[r] /\ item'[r] = item[r]
        /\ told'[r] = told[r]
    BY <1>1 DEF Publish
  <2>2. /\ Numbered(queue[r], popped[r]) /\ popped[r] + Len(queue[r]) = offered[r]
        /\ Len(queue[r]) = QueueSize
    BY <1>0, <1>1 DEF IsFull, ReaderInv, QueueIsTheRest
  <2>3. /\ queue'[r] \in Seq(Nat) /\ Len(queue'[r]) = QueueSize
        /\ Numbered(queue'[r], popped[r] + 1)
    <3>1. /\ queue[r] \in Seq(Nat) /\ popped[r] \in Nat /\ offered[r] \in Nat
      BY <1>0 DEF NatsAt
    <3>2. /\ Append(Tail(queue[r]), offered[r] + 1) \in Seq(Nat)
          /\ Len(Append(Tail(queue[r]), offered[r] + 1)) = QueueSize
          /\ Numbered(Append(Tail(queue[r]), offered[r] + 1), popped[r] + 1)
      BY <2>2, <3>1, RoomIsMade
    <3> QED
      BY <2>1, <3>2
  <2>4. QueueIsTheRest(r)'
    <3>1. Numbered(queue[r], popped[r])'
      BY <2>1, <2>3 DEF Numbered
    <3>2. popped'[r] + Len(queue'[r]) = offered'[r]
      BY <1>0, <2>1, <2>2, <2>3 DEF NatsAt
    <3>3. Len(queue'[r]) <= QueueSize
      BY <2>3, HubAssumption
    <3> QED
      BY <3>1, <3>2, <3>3 DEF QueueIsTheRest
  <2>5. RemovedIsToldOrCounted(r)'
    <3>1. RemovedIsToldOrCounted(r) /\ NatsAt(r)
      BY <1>0 DEF ReaderInv
    <3>2. PickIsNext(r) => PickIsNext(r)'
      BY <2>1, <3>1 DEF PickIsNext, NatsAt
    <3>3. drain[r] # "account" => told'[r] + dropped'[r] = popped'[r]
      BY <2>1, <3>1 DEF RemovedIsToldOrCounted, NatsAt
    <3>4. drain[r] = "account" /\ item[r].lag =>
            item[r].n <= dropped'[r] /\ told[r] + dropped'[r] = popped'[r] + item[r].n
      <4> SUFFICES ASSUME drain[r] = "account", item[r].lag
                   PROVE  /\ item[r].n <= dropped'[r]
                          /\ told[r] + dropped'[r] = popped'[r] + item[r].n
        OBVIOUS
      <4>1. item[r].n <= dropped[r] /\ told[r] + dropped[r] = popped[r] + item[r].n
        BY <3>1 DEF RemovedIsToldOrCounted
      <4>2. /\ popped'[r] = popped[r] + 1 /\ dropped'[r] = dropped[r] + 1
            /\ offered'[r] = offered[r] + 1
        BY <2>1
      <4>3. /\ popped[r] \in Nat /\ dropped[r] \in Nat /\ offered[r] \in Nat /\ told[r] \in Nat
            /\ item[r].n \in Nat /\ item[r].id \in Nat
        BY <3>1 DEF NatsAt
      <4> QED
        BY <4>1, <4>2, <4>3
    <3>5. drain[r] = "account" /\ ~item[r].lag =>
            /\ told[r] = item[r].id + 1 /\ told[r] <= offered'[r]
            /\ told[r] + dropped'[r] = popped'[r] + 1
      <4> SUFFICES ASSUME drain[r] = "account", ~item[r].lag
                   PROVE  /\ told[r] = item[r].id + 1 /\ told[r] <= offered'[r]
                          /\ told[r] + dropped'[r] = popped'[r] + 1
        OBVIOUS
      <4>1. /\ told[r] = item[r].id + 1 /\ told[r] <= offered[r]
            /\ told[r] + dropped[r] = popped[r] + 1
        BY <3>1 DEF RemovedIsToldOrCounted
      <4>2. /\ popped'[r] = popped[r] + 1 /\ dropped'[r] = dropped[r] + 1
            /\ offered'[r] = offered[r] + 1
        BY <2>1
      <4>3. /\ popped[r] \in Nat /\ dropped[r] \in Nat /\ offered[r] \in Nat /\ told[r] \in Nat
            /\ item[r].n \in Nat /\ item[r].id \in Nat
        BY <3>1 DEF NatsAt
      <4> QED
        BY <4>1, <4>2, <4>3
    <3> QED
      BY <2>1, <3>1, <3>2, <3>3, <3>4, <3>5 DEF RemovedIsToldOrCounted
  <2>6. NobodyBefore(r)'
    BY <1>0, <2>1 DEF ReaderInv, NobodyBefore, Publish
  <2> QED
    BY <2>3, <2>4, <2>5, <2>6 DEF ReaderInv
<1>2. ASSUME NEW r \in Readers, Hears(r, k), ~IsFull(r)
      PROVE  queue'[r] \in Seq(Nat) /\ ReaderInv(r)'
  <2>1. /\ queue'[r] = Append(queue[r], offered[r] + 1)
        /\ popped'[r] = popped[r] /\ dropped'[r] = dropped[r]
        /\ offered'[r] = offered[r] + 1 /\ drain'[r] = drain[r] /\ item'[r] = item[r]
        /\ told'[r] = told[r]
    BY <1>2 DEF Publish
  <2>2. /\ Numbered(queue[r], popped[r]) /\ popped[r] + Len(queue[r]) = offered[r]
        /\ Len(queue[r]) < QueueSize
    BY <1>0, <1>2, HubAssumption DEF IsFull, ReaderInv, QueueIsTheRest, NatsAt
  <2>3. /\ queue'[r] \in Seq(Nat) /\ Len(queue'[r]) = Len(queue[r]) + 1
        /\ Numbered(queue'[r], popped[r])
    <3>1. queue[r] \in Seq(Nat) /\ popped[r] \in Nat /\ offered[r] \in Nat
      BY <1>0 DEF NatsAt
    <3>2. offered[r] + 1 \in Nat /\ offered[r] + 1 = popped[r] + Len(queue[r]) + 1
      BY <2>2, <3>1
    <3> DEFINE n == offered[r] + 1
    <3>3. n \in Nat /\ n = popped[r] + Len(queue[r]) + 1 /\ queue'[r] = Append(queue[r], n)
      BY <2>1, <3>2
    <3> HIDE DEF n
    <3> QED
      BY <2>2, <3>1, <3>3, AppendIsNumbered
  <2>4. QueueIsTheRest(r)'
    <3>1. Numbered(queue[r], popped[r])'
      BY <2>1, <2>3 DEF Numbered
    <3>2. popped'[r] + Len(queue'[r]) = offered'[r]
      BY <1>0, <2>1, <2>2, <2>3 DEF NatsAt
    <3>3. Len(queue'[r]) <= QueueSize
      BY <1>0, <2>2, <2>3, HubAssumption DEF NatsAt
    <3> QED
      BY <3>1, <3>2, <3>3 DEF QueueIsTheRest
  <2>5. RemovedIsToldOrCounted(r)'
    BY <1>0, <2>1 DEF ReaderInv, RemovedIsToldOrCounted, PickIsNext, NatsAt
  <2>6. NobodyBefore(r)'
    BY <1>0, <2>1 DEF ReaderInv, NobodyBefore, Publish
  <2> QED
    BY <2>3, <2>4, <2>5, <2>6 DEF ReaderInv
<1>3. ASSUME NEW r \in Readers, ~Hears(r, k)
      PROVE  queue'[r] \in Seq(Nat) /\ ReaderInv(r)'
  <2>1. Spared(r)
    BY <1>3 DEF Publish, Spared
  <2> QED
    BY <1>0, <2>1, SparedKeeps DEF Spared, NatsAt
<1>4. \A r \in Readers : queue'[r] \in Seq(Nat) /\ ReaderInv(r)'
  BY <1>1, <1>2, <1>3
<1>5. queue' \in [Readers -> Seq(Nat)]
  <2>1. queue' = [r \in Readers |-> queue'[r]]
    BY DEF Publish
  <2> QED
    BY <1>4, <2>1
<1>6. /\ popped' \in [Readers -> Nat] /\ dropped' \in [Readers -> Nat]
      /\ wake' \in [Readers -> BOOLEAN] /\ offered' \in [Readers -> Nat] /\ published' \in Nat
  BY <1>0 DEF Publish, Hears, HubTypes
<1>7. HubTypes'
  BY <1>0, <1>5, <1>6 DEF Publish, HubTypes
<1> QED
  BY <1>4, <1>7 DEF HubInv

(* Every other step is one reader's.                                         *)
LEMMA OneReaderKeeps ==
  ASSUME HubInv, NEW r \in Readers, HubTypes', ReaderInv(r)',
         \A x \in Readers \ {r} : Spared(x)
  PROVE  HubInv'
<1>1. ASSUME NEW x \in Readers PROVE ReaderInv(x)'
  <2>1. CASE x = r
    BY <2>1
  <2>2. CASE x # r
    BY <2>2, SparedKeeps DEF HubInv
  <2> QED
    BY <2>1, <2>2
<1> QED
  BY <1>1 DEF HubInv

LEMMA SubscriptionKeeps ==
  ASSUME HubInv, NEW r \in Readers, Subscribe(r) \/ Unsubscribe(r) \/ CloseDone(r)
  PROVE  HubInv'
<1>0. HubTypes /\ ReaderInv(r)
  BY DEF HubInv
<1>1. HubTypes'
  BY <1>0 DEF HubTypes, Subscribe, Unsubscribe, CloseDone
<1>2. \A x \in Readers \ {r} : Spared(x)
  BY <1>0 DEF HubTypes, Subscribe, Unsubscribe, CloseDone, Spared
<1>3. CASE Subscribe(r)
  <2>1. /\ sub[r] = "no" /\ drain' = [drain EXCEPT ![r] = "pick"] /\ drain'[r] = "pick"
        /\ UNCHANGED <<queue, popped, dropped, item, offered, told>>
    BY <1>0, <1>3 DEF Subscribe, HubTypes
  <2>2. told[r] + dropped[r] = popped[r]
    BY <1>0, <2>1 DEF ReaderInv, NobodyBefore, RemovedIsToldOrCounted
  <2>3. ReaderInv(r)'
    BY <1>0, <1>3, <2>1, <2>2 DEF ReaderInv, NobodyBefore, Subscribe, HubTypes, QueueIsTheRest,
       Numbered, RemovedIsToldOrCounted
  <2> QED
    BY <1>1, <1>2, <2>3, OneReaderKeeps
<1>4. CASE Unsubscribe(r) \/ CloseDone(r)
  <2>1. Spared(r)
    BY <1>0, <1>4 DEF HubTypes, Unsubscribe, CloseDone, Spared
  <2> QED
    BY <1>0, <1>1, <1>2, <2>1, SparedKeeps, OneReaderKeeps
<1> QED
  BY <1>3, <1>4

(* What is picked comes next.                                                *)
LEMMA PickKeeps ==
  ASSUME HubInv, NEW r \in Readers,
         PickEnded(r) \/ PickLag(r) \/ PickHead(r) \/ PickNothing(r)
  PROVE  HubInv'
<1>0. HubTypes /\ ReaderInv(r) /\ NatsAt(r)
  BY TypesAt DEF HubInv
<1>1. /\ drain[r] = "pick" /\ UNCHANGED <<hub, offered, told, last>>
      /\ \E at \in {"ended", "check", "wait"} : drain' = [drain EXCEPT ![r] = at]
      /\ \E i : item' = [item EXCEPT ![r] = i] \/ item' = item
  BY DEF PickEnded, PickLag, PickHead, PickNothing, GoesTo
<1>2. \A x \in Readers \ {r} : Spared(x)
  BY <1>0, <1>1 DEF HubTypes, hub, Spared
<1>3. told[r] + dropped[r] = popped[r]
  BY <1>0, <1>1 DEF ReaderInv, RemovedIsToldOrCounted
<1>4. CASE PickEnded(r) \/ PickNothing(r)
  <2>1. HubTypes'
    BY <1>0, <1>1, <1>4 DEF HubTypes, PickEnded, PickNothing, hub
  <2>2. drain'[r] \in {"ended", "wait"}
    BY <1>0, <1>4 DEF HubTypes, PickEnded, PickNothing, GoesTo
  <2>3. ReaderInv(r)'
    BY <1>0, <1>1, <1>3, <1>4, <2>2 DEF ReaderInv, NobodyBefore, QueueIsTheRest, Numbered,
       RemovedIsToldOrCounted, hub
  <2> QED
    BY <1>2, <2>1, <2>3, OneReaderKeeps
<1>5. CASE PickLag(r)
  <2>1. /\ drain'[r] = "check" /\ dropped[r] > 0
        /\ item' = [item EXCEPT ![r] = [lag |-> TRUE, n |-> dropped[r], id |-> 0]]
    BY <1>0, <1>5 DEF HubTypes, PickLag, GoesTo
  <2>2. [lag |-> TRUE, n |-> dropped[r], id |-> 0] \in Items
    BY <1>0 DEF NatsAt, Items
  <2>3. HubTypes'
    BY <1>0, <1>1, <2>1, <2>2 DEF HubTypes, hub
  <2>4. item'[r].lag /\ item'[r].n = dropped[r]
    BY <1>0, <2>1 DEF HubTypes
  <2>5. PickIsNext(r)'
    BY <1>0, <1>1, <2>1, <2>4 DEF PickIsNext, hub, NatsAt
  <2>6. ReaderInv(r)'
    BY <1>0, <1>1, <1>3, <2>1, <2>5 DEF ReaderInv, NobodyBefore, QueueIsTheRest, Numbered,
       RemovedIsToldOrCounted, hub
  <2> QED
    BY <1>2, <2>3, <2>6, OneReaderKeeps
<1>6. CASE PickHead(r)
  <2>1. /\ drain'[r] = "check" /\ queue[r] # <<>> /\ dropped[r] = 0
        /\ item' = [item EXCEPT ![r] = [lag |-> FALSE, n |-> Head(queue[r]), id |-> popped[r]]]
    BY <1>0, <1>6 DEF HubTypes, PickHead, GoesTo
  <2>2. Head(queue[r]) = popped[r] + 1 /\ Len(queue[r]) \in Nat \ {0}
    BY <1>0, <2>1, TailIsNumbered DEF ReaderInv, QueueIsTheRest, NatsAt
  <2>3. item' = [item EXCEPT ![r] = [lag |-> FALSE, n |-> popped[r] + 1, id |-> popped[r]]]
    BY <2>1, <2>2
  <2>4. [lag |-> FALSE, n |-> popped[r] + 1, id |-> popped[r]] \in Items
    BY <1>0 DEF NatsAt, Items
  <2>5. HubTypes'
    BY <1>0, <1>1, <2>3, <2>4 DEF HubTypes, hub
  <2>6. ~item'[r].lag /\ item'[r].n = popped[r] + 1 /\ item'[r].id = popped[r]
    BY <1>0, <2>3 DEF HubTypes
  <2>7. popped[r] + 1 <= offered[r] /\ told[r] = popped[r]
    BY <1>0, <1>3, <2>1, <2>2 DEF ReaderInv, QueueIsTheRest, NatsAt
  <2>8. PickIsNext(r)'
    BY <1>1, <2>6, <2>7 DEF PickIsNext, hub
  <2>9. ReaderInv(r)'
    BY <1>0, <1>1, <1>3, <2>1, <2>8 DEF ReaderInv, NobodyBefore, QueueIsTheRest, Numbered,
       RemovedIsToldOrCounted, hub
  <2> QED
    BY <1>2, <2>5, <2>9, OneReaderKeeps
<1> QED
  BY <1>4, <1>5, <1>6

LEMMA WaitKeeps ==
  ASSUME HubInv, NEW r \in Readers, Woken(r) \/ Ended(r) \/ NoChange(r)
  PROVE  HubInv'
<1>0. HubTypes /\ ReaderInv(r)
  BY DEF HubInv
<1>1. /\ drain[r] \in {"wait", "check", "offer"}
      /\ \/ drain' = [drain EXCEPT ![r] = "pick"]
         \/ drain' = [drain EXCEPT ![r] = "ended"]
         \/ drain[r] = "check" /\ drain' = [drain EXCEPT ![r] = "offer"]
      /\ UNCHANGED <<queue, popped, dropped, sub, item, published, offered, told, last>>
  BY DEF Woken, Ended, NoChange, GoesTo, hub
<1>2. HubTypes'
  BY <1>0, <1>1 DEF HubTypes, Woken, Ended, NoChange, hub
<1>3. \A x \in Readers \ {r} : Spared(x)
  BY <1>0, <1>1 DEF HubTypes, Spared
<1>4. \/ drain'[r] \in {"pick", "ended"}
      \/ drain[r] = "check" /\ drain'[r] = "offer"
  BY <1>0, <1>1 DEF HubTypes
<1>5. ReaderInv(r)'
  BY <1>0, <1>1, <1>4 DEF ReaderInv, NobodyBefore, QueueIsTheRest, Numbered,
     RemovedIsToldOrCounted, PickIsNext
<1> QED
  BY <1>2, <1>3, <1>5, OneReaderKeeps

LEMMA TakeKeeps ==
  ASSUME HubInv, NEW r \in Readers, Take(r)
  PROVE  HubInv'
<1>0. HubTypes /\ ReaderInv(r) /\ NatsAt(r)
  BY TypesAt DEF HubInv
<1>1. /\ drain[r] = "offer" /\ drain' = [drain EXCEPT ![r] = "account"]
      /\ told' = [told EXCEPT ![r] = IF item[r].lag THEN @ + item[r].n ELSE item[r].n]
      /\ UNCHANGED <<hub, item, offered>>
  BY DEF Take, GoesTo
<1>2. HubTypes'
  <2>1. last' \in [Readers -> [lag : BOOLEAN, n : Nat]]
    BY <1>0 DEF HubTypes, Take, NatsAt
  <2>2. told' \in [Readers -> Nat]
    BY <1>0, <1>1 DEF HubTypes, NatsAt
  <2> QED
    BY <1>0, <1>1, <2>1, <2>2 DEF HubTypes, hub
<1>3. \A x \in Readers \ {r} : Spared(x)
  BY <1>0, <1>1 DEF HubTypes, Spared, hub
<1>4. /\ drain'[r] = "account"
      /\ told'[r] = IF item[r].lag THEN told[r] + item[r].n ELSE item[r].n
  BY <1>0, <1>1 DEF HubTypes
<1>5. PickIsNext(r) /\ told[r] + dropped[r] = popped[r]
  BY <1>0, <1>1 DEF ReaderInv, RemovedIsToldOrCounted
<1>6. QueueIsTheRest(r)' /\ NobodyBefore(r)'
  BY <1>0, <1>1 DEF ReaderInv, QueueIsTheRest, Numbered, NobodyBefore, hub
<1>7. RemovedIsToldOrCounted(r)'
  BY <1>0, <1>1, <1>4, <1>5, SMTT(30) DEF RemovedIsToldOrCounted, PickIsNext, NatsAt, hub
<1> QED
  BY <1>2, <1>3, <1>6, <1>7, OneReaderKeeps DEF ReaderInv

(* A message that was dropped while it was taken was counted once too often. *)
LEMMA AccountKeeps ==
  ASSUME HubInv, NEW r \in Readers, Account(r)
  PROVE  HubInv'
<1>0. HubTypes /\ ReaderInv(r) /\ NatsAt(r)
  BY TypesAt DEF HubInv
<1>1. /\ drain[r] = "account" /\ drain' = [drain EXCEPT ![r] = "pick"]
      /\ UNCHANGED <<wake, sub, item, published, offered, told, last>>
  BY DEF Account, GoesTo
<1>2. drain'[r] = "pick"
  BY <1>0, <1>1 DEF HubTypes
<1>3. CASE item[r].lag \/ popped[r] # item[r].id
  <2> DEFINE d == IF item[r].lag THEN dropped[r] - item[r].n ELSE dropped[r] - 1
  <2>1. dropped' = [dropped EXCEPT ![r] = d] /\ UNCHANGED <<queue, popped>>
    <3>1. CASE item[r].lag
      BY <1>0, <3>1 DEF Account, HubTypes
    <3>2. CASE ~item[r].lag
      BY <1>0, <1>3, <3>2 DEF Account, HubTypes
    <3> QED
      BY <3>1, <3>2
  <2>2. d \in Nat /\ told[r] + d = popped[r]
    <3>1. CASE item[r].lag
      <4>1. item[r].n <= dropped[r] /\ told[r] + dropped[r] = popped[r] + item[r].n
        BY <1>0, <1>1, <3>1 DEF ReaderInv, RemovedIsToldOrCounted
      <4> QED
        BY <1>0, <3>1, <4>1, SMTT(30) DEF NatsAt
    <3>2. CASE ~item[r].lag
      <4>1. told[r] = item[r].id + 1 /\ told[r] + dropped[r] = popped[r] + 1
        BY <1>0, <1>1, <3>2 DEF ReaderInv, RemovedIsToldOrCounted
      <4>2. d = dropped[r] - 1 /\ popped[r] # item[r].id
        BY <1>3, <3>2
      <4>3. dropped[r] \in Nat /\ popped[r] \in Nat /\ told[r] \in Nat /\ item[r].id \in Nat
        BY <1>0 DEF NatsAt
      <4>4. dropped[r] - 1 \in Nat /\ told[r] + (dropped[r] - 1) = popped[r]
        BY <4>1, <4>2, <4>3, OneLess
      <4> QED
        BY <4>2, <4>4
    <3> QED
      BY <3>1, <3>2
  <2> HIDE DEF d
  <2>3. HubTypes'
    BY <1>0, <1>1, <2>1, <2>2 DEF HubTypes
  <2>4. \A x \in Readers \ {r} : Spared(x)
    BY <1>0, <1>1, <2>1 DEF HubTypes, Spared
  <2>5. dropped'[r] = d
    BY <1>0, <2>1 DEF HubTypes
  <2>6. ReaderInv(r)'
    BY <1>0, <1>1, <1>2, <2>1, <2>2, <2>5 DEF ReaderInv, NobodyBefore, QueueIsTheRest, Numbered,
       RemovedIsToldOrCounted
  <2> QED
    BY <2>3, <2>4, <2>6, OneReaderKeeps
<1>4. CASE ~item[r].lag /\ popped[r] = item[r].id
  <2>1. /\ queue[r] # <<>> /\ queue' = [queue EXCEPT ![r] = Tail(@)]
        /\ popped' = [popped EXCEPT ![r] = @ + 1] /\ dropped' = dropped
    BY <1>4 DEF Account
  <2>2. /\ Tail(queue[r]) \in Seq(Nat) /\ Len(Tail(queue[r])) = Len(queue[r]) - 1
        /\ Len(queue[r]) \in Nat \ {0} /\ Numbered(Tail(queue[r]), popped[r] + 1)
    BY <1>0, <2>1, TailIsNumbered DEF ReaderInv, QueueIsTheRest, NatsAt
  <2>3. HubTypes'
    BY <1>0, <1>1, <2>1, <2>2 DEF HubTypes
  <2>4. \A x \in Readers \ {r} : Spared(x)
    BY <1>0, <1>1, <2>1 DEF HubTypes, Spared
  <2>5. queue'[r] = Tail(queue[r]) /\ popped'[r] = popped[r] + 1
    BY <1>0, <2>1 DEF HubTypes
  <2>6. Numbered(queue[r], popped[r])'
    BY <2>2, <2>5 DEF Numbered
  <2>7. QueueIsTheRest(r)'
    <3>1. popped[r] + Len(queue[r]) = offered[r] /\ Len(queue[r]) <= QueueSize
      BY <1>0 DEF ReaderInv, QueueIsTheRest
    <3>2. popped'[r] + Len(queue'[r]) = offered'[r]
      BY <1>0, <1>1, <2>2, <2>5, <3>1 DEF NatsAt
    <3>3. Len(queue'[r]) <= QueueSize
      BY <2>2, <2>5, <3>1, HubAssumption
    <3> QED
      BY <2>6, <3>2, <3>3 DEF QueueIsTheRest
  <2>8. told[r] + dropped[r] = popped[r] + 1
    BY <1>0, <1>1, <1>4 DEF ReaderInv, RemovedIsToldOrCounted
  <2>9. RemovedIsToldOrCounted(r)' /\ NobodyBefore(r)'
    BY <1>0, <1>1, <1>2, <2>1, <2>5, <2>8 DEF ReaderInv, RemovedIsToldOrCounted, NobodyBefore
  <2> QED
    BY <2>3, <2>4, <2>7, <2>9, OneReaderKeeps DEF ReaderInv
<1> QED
  BY <1>3, <1>4

LEMMA HubKeeps == HubInv /\ [HubNext]_hubVars => HubInv'
<1> SUFFICES ASSUME HubInv, [HubNext]_hubVars PROVE HubInv'
  OBVIOUS
<1>1. ASSUME NEW k \in Kinds, Publish(k) PROVE HubInv'
  BY <1>1, PublishKeeps
<1>2. ASSUME NEW r \in Readers, Subscribe(r) \/ Unsubscribe(r) \/ CloseDone(r) PROVE HubInv'
  BY <1>2, SubscriptionKeeps
<1>3. ASSUME NEW r \in Readers, Drain(r) PROVE HubInv'
  BY <1>3, PickKeeps, WaitKeeps, AccountKeeps DEF Drain
<1>4. ASSUME NEW r \in Readers, Take(r) PROVE HubInv'
  BY <1>4, TakeKeeps
<1>5. CASE UNCHANGED hubVars
  <2>1. HubTypes' /\ \A r \in Readers : Spared(r)
    BY <1>5 DEF hubVars, HubInv, HubTypes, Spared
  <2> QED
    BY <2>1, SparedKeeps DEF HubInv
<1> QED
  BY <1>1, <1>2, <1>3, <1>4, <1>5 DEF HubNext

LEMMA HubSafe == HubSpec => []HubInv
  BY HubStarts, HubKeeps, PTL DEF HubSpec

(* However slow a reader is, what is kept for it stays within its backlog,   *)
(* and what was taken from it is known: nothing is lost without a count.     *)
BacklogIsBounded ==
  \A r \in Readers :
    /\ Len(queue[r]) <= QueueSize
    /\ drain[r] # "account" => offered[r] = told[r] + dropped[r] + Len(queue[r])

(* The collector never waits, and no backlog grows past its limit.           *)
THEOREM BacklogStaysBounded == HubSpec => []BacklogIsBounded
<1>1. HubInv => BacklogIsBounded
  <2> SUFFICES ASSUME HubInv, NEW r \in Readers
               PROVE  /\ Len(queue[r]) <= QueueSize
                      /\ drain[r] # "account" => offered[r] = told[r] + dropped[r] + Len(queue[r])
    BY DEF BacklogIsBounded
  <2> QED
    BY TypesAt DEF HubInv, ReaderInv, NatsAt, QueueIsTheRest, RemovedIsToldOrCounted
<1> QED
  BY <1>1, HubSafe, PTL

-----------------------------------------------------------------------------
LEMMA HubImplementsStep ==
  HubInv /\ [HubNext]_hubVars => [Stream!StreamNext]_<<offered, told, last>>
<1> SUFFICES ASSUME HubInv, [HubNext]_hubVars
             PROVE  Stream!StreamNext \/ UNCHANGED <<offered, told, last>>
  OBVIOUS
<1>0. ASSUME NEW r \in Readers PROVE HubTypes /\ ReaderInv(r) /\ NatsAt(r)
  BY TypesAt DEF HubInv
<1>1. ASSUME NEW k \in Kinds, Publish(k) PROVE Stream!StreamNext
  <2> DEFINE R == {r \in Readers : Hears(r, k)}
  <2>1. Stream!Offer(R)
    BY <1>1 DEF Publish, Stream!Offer
  <2> QED
    BY <2>1 DEF Stream!StreamNext
<1>2. ASSUME NEW r \in Readers, Take(r), item[r].lag PROVE Stream!StreamNext
  <2>1. /\ item[r].n \in 1 .. offered[r] /\ told[r] + item[r].n <= offered[r]
        /\ item[r].n > 0
    BY <1>0, <1>2, SMTT(30) DEF Take, ReaderInv, RemovedIsToldOrCounted, PickIsNext, QueueIsTheRest, NatsAt
  <2>2. Stream!TellLag(r, item[r].n)
    BY <1>2, <2>1 DEF Take, Stream!TellLag
  <2> QED
    BY <2>1, <2>2 DEF Stream!StreamNext
<1>3. ASSUME NEW r \in Readers, Take(r), ~item[r].lag PROVE Stream!StreamNext
  <2>1. item[r].n = told[r] + 1 /\ told[r] < offered[r]
    BY <1>0, <1>3 DEF Take, ReaderInv, RemovedIsToldOrCounted, PickIsNext, NatsAt
  <2>2. Stream!TellMessage(r)
    <3>1. /\ told' = [told EXCEPT ![r] = item[r].n]
          /\ last' = [last EXCEPT ![r] = [lag |-> FALSE, n |-> item[r].n]]
          /\ UNCHANGED offered
      <4>1. item[r].lag = FALSE
        BY <1>0, <1>3 DEF NatsAt
      <4> QED
        BY <1>3, <4>1 DEF Take
    <3> QED
      BY <2>1, <3>1 DEF Stream!TellMessage
  <2> QED
    BY <2>2 DEF Stream!StreamNext
<1>4. ASSUME NEW r \in Readers, Subscribe(r) \/ Unsubscribe(r) \/ CloseDone(r) \/ Drain(r)
      PROVE  UNCHANGED <<offered, told, last>>
  BY <1>4 DEF hub, Subscribe, Unsubscribe, CloseDone, Drain, PickEnded, PickLag, PickHead,
     PickNothing, Woken, Ended, NoChange, Account
<1>5. CASE UNCHANGED hubVars
  BY <1>5 DEF hubVars
<1> QED
  BY <1>1, <1>2, <1>3, <1>4, <1>5 DEF HubNext

(* Every reader is told of every message once and in order, as itself or in  *)
(* the count of a lag, for every set of readers and every limit of a queue.  *)
THEOREM HubImplementsStream == HubSpec => StreamIsTold
<1>1. HubInit => Stream!StreamInit
  BY DEF HubInit, Stream!StreamInit
<1> QED
  BY <1>1, HubImplementsStep, HubSafe, PTL DEF HubSpec, StreamIsTold, Stream!StreamSpec

-----------------------------------------------------------------------------
(* The alerts of a container's use: Sampler                                  *)

Words == {"firing", "resolved"}

SamplerTypes ==
  /\ box \in [id : Nat, state : {"running", "stopped", "gone"}, anew : BOOLEAN, use : {"high", "low"}]
  /\ slot \in 1 .. TicksPerMinute
  /\ entry \in [here : BOOLEAN, id : Nat, missed : Nat, resolved : BOOLEAN, snap : Nat]
  /\ minute \in [uses : SUBSET {"high", "low"}, bare : 0 .. TicksPerMinute]
  /\ cool \in BOOLEAN /\ alert \in BOOLEAN /\ unsaid \in BOOLEAN
  /\ jobs \in Seq(Words) /\ bus \in Words

(* What the minute has of a low use was seen while it was low, and a minute  *)
(* with nothing but a reading without a rate has it from before its last     *)
(* tick.                                                                     *)
MinuteInv ==
  /\ box.use = "low" \/ box.state = "stopped" => cool
  /\ "low" \in minute.uses => cool
  /\ minute.uses = {} => minute = NoMinute \/ minute.bare \in 1 .. TicksPerMinute - 1

(* The last word on the alert: in the queue, or the bus has it.              *)
LastWord == IF jobs = <<>> THEN bus ELSE jobs[Len(jobs)]
WordInv == ~unsaid => (alert <=> LastWord = "firing")

SamplerInv == SamplerTypes /\ MinuteInv /\ WordInv

LEMMA SamplerStarts == SamplerInit => SamplerInv
<1> SUFFICES ASSUME SamplerInit PROVE SamplerInv OBVIOUS
<1>1. TicksPerMinute \in Nat \ {0} BY SamplerAssumption
<1>2. 1 \in 1 .. TicksPerMinute /\ 0 \in 0 .. TicksPerMinute BY <1>1
<1>3. /\ NoMinute \in [uses : SUBSET {"high", "low"}, bare : 0 .. TicksPerMinute]
      /\ NoEntry \in [here : BOOLEAN, id : Nat, missed : Nat, resolved : BOOLEAN, snap : Nat]
      /\ NoMinute.uses = {}
  BY <1>2 DEF NoMinute, NoEntry
<1>4. SamplerTypes
  <2>1. <<>> \in Seq(Words) /\ "resolved" \in Words BY DEF Words
  <2>2. box \in [id : Nat, state : {"running", "stopped", "gone"}, anew : BOOLEAN, use : {"high", "low"}]
    BY DEF SamplerInit
  <2> QED BY <1>2, <1>3, <2>1, <2>2 DEF SamplerInit, SamplerTypes
<1>5. MinuteInv /\ WordInv BY <1>3 DEF SamplerInit, MinuteInv, WordInv, LastWord
<1> QED BY <1>4, <1>5 DEF SamplerInv

(* A change of the alert is the last word, unless it is dropped.             *)
LEMMA BecomesIsTheLastWord ==
  ASSUME SamplerInv, NEW fires \in BOOLEAN, Becomes(fires), bus' = bus
  PROVE  /\ alert' = fires /\ unsaid' \in BOOLEAN /\ jobs' \in Seq(Words) /\ WordInv'
<1>1. alert' = fires BY DEF Becomes
<1>2. /\ jobs \in Seq(Words) /\ unsaid \in BOOLEAN /\ alert \in BOOLEAN /\ AlertQueue \in Nat
      /\ bus \in Words /\ WordInv
  BY SamplerAssumption DEF SamplerInv, SamplerTypes
<1>3. CASE fires = alert
  BY <1>1, <1>2, <1>3 DEF Becomes, Quiet, WordInv, LastWord
<1>4. CASE fires # alert
  <2> DEFINE e == IF fires THEN "firing" ELSE "resolved"
  <2>1. Emitted(e) BY <1>4 DEF Becomes
  <2>2. e \in Words /\ (e = "firing" <=> fires) BY DEF Words
  <2> HIDE DEF e
  <2>3. CASE Len(jobs) < AlertQueue
    <3>1. jobs' = Append(jobs, e) /\ unsaid' = FALSE BY <2>1, <2>3 DEF Emitted
    <3>2. jobs' \in Seq(Words) /\ jobs' # <<>> /\ jobs'[Len(jobs')] = e BY <1>2, <2>2, <3>1
    <3> QED BY <1>1, <1>2, <2>2, <3>1, <3>2 DEF WordInv, LastWord
  <2>4. CASE ~(Len(jobs) < AlertQueue)
    BY <1>1, <1>2, <2>1, <2>4 DEF Emitted, WordInv
  <2> QED BY <2>3, <2>4
<1> QED BY <1>3, <1>4

LEMMA MinuteDecides ==
  ASSUME SamplerInv, MinuteEnds, bus' = bus
  PROVE  /\ alert' \in BOOLEAN /\ unsaid' \in BOOLEAN /\ jobs' \in Seq(Words) /\ WordInv'
         /\ alert /\ ~alert' => cool \/ Unlucky
<1>1. SamplerTypes /\ MinuteInv BY DEF SamplerInv
<1>2. CASE minute = NoMinute /\ Becomes(alert)
  BY <1>1, <1>2, BecomesIsTheLastWord DEF SamplerTypes
<1>3. CASE minute # NoMinute /\ minute.uses = {} /\ Becomes(FALSE)
  BY <1>1, <1>3, BecomesIsTheLastWord DEF MinuteInv, Unlucky
<1>4. CASE \E use \in minute.uses : Becomes(use = "high")
  <2>1. PICK use \in minute.uses : Becomes(use = "high") BY <1>4
  <2>2. use \in {"high", "low"} BY <1>1, <2>1 DEF SamplerTypes
  <2>3. (use = "high") \in BOOLEAN OBVIOUS
  <2>4. /\ alert' = (use = "high") /\ unsaid' \in BOOLEAN /\ jobs' \in Seq(Words) /\ WordInv'
    BY <2>1, <2>3, BecomesIsTheLastWord
  <2> QED BY <1>1, <2>1, <2>2, <2>4 DEF MinuteInv
<1> QED BY <1>2, <1>3, <1>4 DEF MinuteEnds

LEMMA SamplerStep ==
  ASSUME SamplerInv, [SamplerNext]_samplerVars
  PROVE  SamplerInv' /\ (alert /\ ~alert' => cool \/ Unlucky \/ Missing)
<1>1. SamplerTypes /\ MinuteInv /\ WordInv BY DEF SamplerInv
<1>2. CASE BoxChanges
  <2>1. /\ jobs' = jobs /\ bus' = bus /\ unsaid' = unsaid /\ alert' = alert /\ slot' = slot
        /\ entry' = entry /\ minute' = minute /\ cool' = (cool \/ box'.use = "low" \/ box'.state = "stopped")
    BY <1>2 DEF BoxChanges
  <2>2. box' \in [id : Nat, state : {"running", "stopped", "gone"}, anew : BOOLEAN, use : {"high", "low"}]
    <3>1. box.id + 1 \in Nat BY <1>1 DEF SamplerTypes
    <3>2. box' \in {[box EXCEPT !.state = "stopped"], [box EXCEPT !.anew = TRUE], [box EXCEPT !.state = "gone"],
                    [box EXCEPT !.state = "running", !.anew = TRUE],
                    [box EXCEPT !.id = @ + 1, !.state = "running", !.anew = TRUE],
                    [box EXCEPT !.use = "low"], [box EXCEPT !.use = "high"]}
      BY <1>2 DEF BoxChanges
    <3>3. box \in [id : Nat, state : {"running", "stopped", "gone"}, anew : BOOLEAN, use : {"high", "low"}]
      BY <1>1 DEF SamplerTypes
    <3> QED BY <3>1, <3>2, <3>3
  <2> QED BY <1>1, <2>1, <2>2 DEF SamplerInv, SamplerTypes, MinuteInv, WordInv, LastWord
<1>3. CASE PublishAlert
  <2>1. /\ jobs # <<>> /\ bus' = Head(jobs) /\ jobs' = Tail(jobs) /\ unsaid' = unsaid /\ alert' = alert
        /\ UNCHANGED <<box, slot, entry, minute, cool>>
    BY <1>3 DEF PublishAlert
  <2>2. jobs \in Seq(Words) BY <1>1 DEF SamplerTypes
  <2>3. /\ bus' \in Words /\ jobs' \in Seq(Words)
        /\ jobs' = <<>> => bus' = jobs[Len(jobs)]
        /\ jobs' # <<>> => jobs'[Len(jobs')] = jobs[Len(jobs)]
    <3>1. Len(jobs) \in Nat /\ Len(jobs) >= 1 /\ bus' = jobs[1] /\ \A i \in 1 .. Len(jobs) : jobs[i] \in Words
      BY <2>1, <2>2
    <3>2. jobs' \in Seq(Words) /\ Len(jobs') = Len(jobs) - 1 /\ \A i \in 1 .. Len(jobs') : jobs'[i] = jobs[i + 1]
      BY <2>1, <2>2
    <3>3. jobs' = <<>> <=> Len(jobs') = 0 BY <3>2
    <3>4. jobs' # <<>> => jobs'[Len(jobs')] = jobs[Len(jobs)]
      BY <3>1, <3>2, <3>3
    <3> QED BY <3>1, <3>2, <3>3, <3>4
  <2>4. LastWord' = LastWord BY <2>1, <2>3 DEF LastWord
  <2> QED BY <1>1, <2>1, <2>3, <2>4 DEF SamplerInv, SamplerTypes, MinuteInv, WordInv
<1>4. CASE listed = 0 /\ TimePasses
  <2>1. /\ entry' = [entry EXCEPT !.snap = Older(@)] /\ box' = box /\ bus' = bus BY <1>4 DEF TimePasses
  <2>2. entry' \in [here : BOOLEAN, id : Nat, missed : Nat, resolved : BOOLEAN, snap : Nat]
    BY <1>1, <2>1 DEF SamplerTypes, Older
  <2>3. CASE slot < TicksPerMinute
    <3>1. slot' = slot + 1 /\ UNCHANGED <<minute, cool, alert, jobs, unsaid>>
      BY <1>4, <2>3 DEF TimePasses, Quiet
    <3>2. slot' \in 1 .. TicksPerMinute BY <1>1, <2>3, <3>1, SamplerAssumption DEF SamplerTypes
    <3> QED BY <1>1, <2>1, <2>2, <3>1, <3>2 DEF SamplerInv, SamplerTypes, MinuteInv, WordInv, LastWord
  <2>4. CASE ~(slot < TicksPerMinute)
    <3>1. /\ slot' = 1 /\ MinuteEnds /\ minute' = NoMinute
          /\ cool' = (box.use = "low" \/ box.state = "stopped")
      BY <1>4, <2>4 DEF TimePasses
    <3>2. 1 \in 1 .. TicksPerMinute /\ TicksPerMinute \in Nat BY SamplerAssumption
    <3>3. NoMinute \in [uses : SUBSET {"high", "low"}, bare : 0 .. TicksPerMinute] /\ NoMinute.uses = {}
      BY <3>2 DEF NoMinute
    <3> QED BY <1>1, <2>1, <2>2, <3>1, <3>2, <3>3, MinuteDecides DEF SamplerInv, SamplerTypes, MinuteInv
  <2> QED BY <2>3, <2>4
<1>5. CASE ListFails \/ StatsFail \/ StatsTimeOut
  <2>1. UNCHANGED <<box, slot, entry, minute, cool, alert, jobs, bus, unsaid>>
    BY <1>5 DEF ListFails, StatsFail, StatsTimeOut
  <2> QED BY <1>1, <2>1 DEF SamplerInv, SamplerTypes, MinuteInv, WordInv, LastWord
<1>6. CASE ListsRunning
  <2>1. /\ entry' = [here |-> TRUE, id |-> box.id, missed |-> 0, resolved |-> FALSE,
                     snap |-> IF entry.here /\ entry.id = box.id THEN entry.snap ELSE 0]
        /\ UNCHANGED <<box, slot, minute, cool, alert, jobs, bus, unsaid>>
    BY <1>6 DEF ListsRunning, Quiet
  <2>2. entry' \in [here : BOOLEAN, id : Nat, missed : Nat, resolved : BOOLEAN, snap : Nat]
    BY <1>1, <2>1 DEF SamplerTypes
  <2> QED BY <1>1, <2>1, <2>2 DEF SamplerInv, SamplerTypes, MinuteInv, WordInv, LastWord
<1>7. CASE ListsStopped
  <2>1. /\ box.state = "stopped" /\ Becomes(alert /\ entry.resolved)
        /\ entry' = [here |-> TRUE, id |-> box.id, missed |-> 0, resolved |-> TRUE, snap |-> 0]
        /\ minute' = IF entry.resolved THEN minute ELSE NoMinute
        /\ UNCHANGED <<box, slot, cool, bus>>
    BY <1>7 DEF ListsStopped
  <2>2. (alert /\ entry.resolved) \in BOOLEAN /\ cool
    BY <1>1, <2>1 DEF SamplerTypes, MinuteInv
  <2>3. alert' \in BOOLEAN /\ unsaid' \in BOOLEAN /\ jobs' \in Seq(Words) /\ WordInv'
    BY <2>1, <2>2, BecomesIsTheLastWord
  <2>4. /\ entry' \in [here : BOOLEAN, id : Nat, missed : Nat, resolved : BOOLEAN, snap : Nat]
        /\ minute' \in [uses : SUBSET {"high", "low"}, bare : 0 .. TicksPerMinute]
    BY <1>1, <2>1, SamplerAssumption DEF SamplerTypes, NoMinute
  <2>5. MinuteInv' BY <1>1, <2>1 DEF MinuteInv, NoMinute
  <2> QED BY <1>1, <2>1, <2>2, <2>3, <2>4, <2>5 DEF SamplerInv, SamplerTypes
<1>8. CASE ListsNothing
  <2>0. box.state = "gone" /\ UNCHANGED <<box, slot, cool, bus>> BY <1>8 DEF ListsNothing
  <2>1. CASE entry.here /\ entry.missed + 1 >= MissedTicks
    <3>1. entry' = NoEntry /\ Becomes(FALSE) /\ minute' = NoMinute BY <1>8, <2>1 DEF ListsNothing
    <3>2. alert' \in BOOLEAN /\ unsaid' \in BOOLEAN /\ jobs' \in Seq(Words) /\ WordInv'
      BY <2>0, <3>1, BecomesIsTheLastWord
    <3>3. /\ entry' \in [here : BOOLEAN, id : Nat, missed : Nat, resolved : BOOLEAN, snap : Nat]
          /\ minute' \in [uses : SUBSET {"high", "low"}, bare : 0 .. TicksPerMinute]
      BY <3>1, SamplerAssumption DEF NoEntry, NoMinute
    <3>4. MinuteInv' BY <1>1, <2>0, <3>1 DEF MinuteInv, NoMinute
    <3>5. Missing BY <2>0, <2>1 DEF Missing
    <3> QED BY <1>1, <2>0, <3>2, <3>3, <3>4, <3>5 DEF SamplerInv, SamplerTypes
  <2>2. CASE ~(entry.here /\ entry.missed + 1 >= MissedTicks)
    <3>1. /\ entry' = IF entry.here THEN [entry EXCEPT !.missed = @ + 1] ELSE entry
          /\ UNCHANGED <<alert, minute, jobs, unsaid>>
      BY <1>8, <2>2 DEF ListsNothing, Quiet
    <3>2. entry' \in [here : BOOLEAN, id : Nat, missed : Nat, resolved : BOOLEAN, snap : Nat]
      BY <1>1, <3>1 DEF SamplerTypes
    <3> QED BY <1>1, <2>0, <3>1, <3>2 DEF SamplerInv, SamplerTypes, MinuteInv, WordInv, LastWord
  <2> QED BY <2>1, <2>2
<1>9. CASE Measures
  <2>1. /\ Recorded /\ box.state = "running"
        /\ entry' = [entry EXCEPT !.snap = 1] /\ box' = [box EXCEPT !.anew = FALSE]
        /\ UNCHANGED <<slot, cool, alert, jobs, bus, unsaid>>
    BY <1>9 DEF Measures, Quiet
  <2>2. /\ entry' \in [here : BOOLEAN, id : Nat, missed : Nat, resolved : BOOLEAN, snap : Nat]
        /\ box' \in [id : Nat, state : {"running", "stopped", "gone"}, anew : BOOLEAN, use : {"high", "low"}]
        /\ box'.use = box.use /\ box'.state = box.state
    BY <1>1, <2>1 DEF SamplerTypes
  <2>3. /\ minute' \in [uses : SUBSET {"high", "low"}, bare : 0 .. TicksPerMinute]
        /\ "low" \in minute'.uses => cool
        /\ minute'.uses = {} => minute' = NoMinute \/ minute'.bare \in 1 .. TicksPerMinute - 1
    <3>1. CASE ~HasRate /\ LastOfTheMinute
      BY <1>1, <2>1, <3>1 DEF Recorded, MinuteInv, SamplerTypes
    <3>2. CASE HasRate
      <4>1. minute' = [minute EXCEPT !.uses = @ \cup {box.use}] BY <2>1, <3>2 DEF Recorded, Reading
      <4>2. box.use \in {"high", "low"} BY <1>1 DEF SamplerTypes
      <4>3. minute'.uses = minute.uses \cup {box.use} /\ minute'.bare = minute.bare
        BY <1>1, <4>1 DEF SamplerTypes
      <4> QED BY <1>1, <4>1, <4>2, <4>3 DEF MinuteInv, SamplerTypes
    <3>3. CASE ~HasRate /\ ~LastOfTheMinute
      <4>1. minute' = [minute EXCEPT !.bare = slot] BY <2>1, <3>3 DEF Recorded, Reading
      <4>2. slot \in 1 .. TicksPerMinute - 1 BY <1>1, <3>3, SamplerAssumption DEF SamplerTypes, LastOfTheMinute
      <4>3. slot \in 0 .. TicksPerMinute BY <4>2, SamplerAssumption
      <4> QED BY <1>1, <4>1, <4>2, <4>3 DEF MinuteInv, SamplerTypes
    <3> QED BY <3>1, <3>2, <3>3
  <2> QED BY <1>1, <2>1, <2>2, <2>3 DEF SamplerInv, SamplerTypes, MinuteInv, WordInv, LastWord
<1>10. CASE PublishFails
  <2>1. /\ jobs # <<>> /\ jobs' = Tail(jobs) /\ unsaid' = (unsaid \/ Len(jobs) = 1) /\ alert' = alert
        /\ UNCHANGED <<box, slot, entry, minute, cool, bus>>
    BY <1>10 DEF PublishFails
  <2>2. jobs \in Seq(Words) BY <1>1 DEF SamplerTypes
  <2>3. jobs' \in Seq(Words) /\ Len(jobs) \in Nat /\ Len(jobs) >= 1 BY <2>1, <2>2
  <2>4. unsaid' \in BOOLEAN BY <1>1, <2>1 DEF SamplerTypes
  <2>5. WordInv'
    <3>1. CASE Len(jobs) = 1 BY <2>1, <3>1 DEF WordInv
    <3>2. CASE Len(jobs) # 1
      <4>1. jobs' # <<>> /\ jobs'[Len(jobs')] = jobs[Len(jobs)]
        <5>1. Len(jobs') = Len(jobs) - 1 /\ \A i \in 1 .. Len(jobs') : jobs'[i] = jobs[i + 1]
          BY <2>1, <2>2
        <5> QED BY <2>2, <2>3, <3>2, <5>1
      <4>2. LastWord' = LastWord BY <2>1, <4>1 DEF LastWord
      <4> QED BY <1>1, <2>1, <3>2, <4>2 DEF WordInv
    <3> QED BY <3>1, <3>2
  <2> QED BY <1>1, <2>1, <2>3, <2>4, <2>5 DEF SamplerInv, SamplerTypes, MinuteInv
<1>11. CASE UNCHANGED samplerVars
  BY <1>1, <1>11 DEF samplerVars, SamplerInv, SamplerTypes, MinuteInv, WordInv, LastWord
<1> QED BY <1>2, <1>3, <1>4, <1>5, <1>6, <1>7, <1>8, <1>9, <1>10, <1>11 DEF SamplerNext

(* A firing and the resolved that follows it reach the bus in their order:   *)
(* once nothing waits, and unless the last word itself was lost, the bus     *)
(* knows the alert as it is, however long the queue, whatever was dropped or *)
(* failed to be published before, and whatever happened to the container.    *)
THEOREM BusKnowsTheAlert == SamplerSpec => []LastWordIsTrue
<1>1. SamplerInv => LastWordIsTrue
  BY DEF SamplerInv, SamplerTypes, WordInv, LastWord, LastWordIsTrue
<1>2. SamplerInv /\ [SamplerNext]_samplerVars => SamplerInv' BY SamplerStep
<1> QED BY <1>1, <1>2, SamplerStarts, PTL DEF SamplerSpec

(* No gap in the readings ends an alert: for every length of a minute, of a  *)
(* gap that still has a rate, and of the row of lists that make one gone.    *)
THEOREM GapsEndNoAlert == SamplerSpec => AlertOutlivesGaps
<1>1. SamplerInv /\ [SamplerNext]_samplerVars
      => SamplerInv' /\ [alert /\ ~alert' => cool \/ Unlucky \/ Missing]_samplerVars
  BY SamplerStep
<1> QED BY <1>1, SamplerStarts, PTL DEF SamplerSpec, AlertOutlivesGaps

-----------------------------------------------------------------------------
(* The pages.                                                                *)
Cursors == [at : Nat, file : Nat, seq : Nat]
Lines == [at : Nat \ {0}, file : Files, seq : Nat \ {0}]
Contents == [Files -> Seq(Nat \ {0})]

(* Every line the writers have, in their buffers or in the files: what a     *)
(* page reads, since it flushes first.                                       *)
Written == LinesOf(FlushedFiles)

PagesTypes ==
  /\ now \in Nat \ {0}
  /\ flight \in Contents /\ buffer \in Contents /\ file \in Contents
  /\ IsFiniteSet(Written)
  /\ journal \in Seq([at : Nat, late : BOOLEAN])
  /\ page \in [for : {"none", "poll", "newest", "older"}, clocked : BOOLEAN, hold : Int,
               unread : SUBSET Files, lines : SUBSET Lines]
  /\ poll \in Cursors /\ start \in Cursors
  /\ walk \in [on : BOOLEAN, from : Cursors]
  /\ got \in Seq(Cursors) /\ back \in Seq(Cursors)

(* The polls go up to their cursor, which is never past the hold-back, so a  *)
(* line that comes on time comes behind it; and they have every line between *)
(* the walk's first and their cursor.                                        *)
PollInv ==
  /\ poll = NoCursor \/ poll.at <= Hold
  /\ poll = NoCursor => got = <<>>
  /\ \A i \in DOMAIN got : ~Precedes(poll, got[i])
  /\ \A i, j \in DOMAIN got : i < j => Precedes(got[i], got[j])
  /\ \A l \in Written \ late : Precedes(start, l) /\ ~Precedes(poll, l) => l \in Range(got)

(* A walk goes down to its cursor, and has every line between that and its   *)
(* first; one that ended has every line before its first.                    *)
WalkInv ==
  /\ back # <<>> => start.at <= Hold
  /\ walk.on => back # <<>> /\ walk.from # NoCursor /\ walk.from.at <= Hold
  /\ walk.on => \A i \in DOMAIN back : ~Precedes(back[i], walk.from)
  /\ \A i, j \in DOMAIN back : i < j => Precedes(back[j], back[i])
  /\ back # <<>> =>
       \A l \in Written \ late :
         ~Precedes(start, l) /\ (walk.on => ~Precedes(l, walk.from)) => l \in Range(back)

(* The page being read. Once it is known how far it may go (Top: an older    *)
(* page knows from the start, the others from the clock) every line up to    *)
(* there that is not late is in its file, since what comes after the flush   *)
(* is younger; so each file that was read gave all the page takes of it.     *)
Bounded == page.for = "older" \/ page.clocked
Top == IF page.for = "older" THEN walk.from.at ELSE page.hold

PageInv ==
  /\ page.for = "newest" => poll = NoCursor /\ back = <<>> /\ ~walk.on
  /\ page.for = "older" => walk.on
  /\ page.clocked => page.for # "none" /\ page.hold <= Hold
  /\ ~page.clocked => page.lines = {} /\ (page.for # "none" => page.unread = Files)
  /\ \A l \in page.lines : l \in Written /\ Takes(l)
  /\ Bounded => \A l \in Written \ late : l.at <= Top => l \in LinesOf(file)
  /\ page.clocked => \A l \in Written \ late : l.file \notin page.unread /\ Takes(l) => l \in page.lines

PagesInv == PagesTypes /\ PollInv /\ WalkInv /\ PageInv /\ EventsInSomePage

-----------------------------------------------------------------------------
(* compareTo is a strict order of the cursors, and tells any two apart.      *)
LEMMA CursorsAreOrdered ==
  ASSUME NEW a \in Cursors, NEW b \in Cursors, NEW c \in Cursors
  PROVE  /\ ~Precedes(a, a)
         /\ Precedes(a, b) /\ Precedes(b, c) => Precedes(a, c)
         /\ Precedes(a, b) => ~Precedes(b, a) /\ a.at <= b.at
         /\ a # b => Precedes(a, b) \/ Precedes(b, a)
BY DEF Cursors, Precedes

(* The merge sorts: place i of the sequence has the line with i - 1 before.  *)
Place(S, l) == Cardinality({k \in S : Precedes(k, l)}) + 1

LEMMA PlacesAreTheirs ==
  ASSUME NEW S, S \subseteq Cursors, IsFiniteSet(S)
  PROVE  /\ \A l \in S : Place(S, l) \in 1 .. Cardinality(S)
         /\ \A k, l \in S : Precedes(k, l) => Place(S, k) < Place(S, l)
         /\ \A i \in 1 .. Cardinality(S) : \E l \in S : Place(S, l) = i
<1>0. Cardinality(S) \in Nat
  BY FS_CardinalityType
<1>1. \A l \in S : Place(S, l) \in 1 .. Cardinality(S)
  <2> SUFFICES ASSUME NEW l \in S PROVE Place(S, l) \in 1 .. Cardinality(S)
    OBVIOUS
  <2> DEFINE B == {k \in S : Precedes(k, l)}
  <2>1. l \notin B
    BY CursorsAreOrdered
  <2>2. B \subseteq S \ {l}
    BY <2>1
  <2>3. IsFiniteSet(S \ {l}) /\ Cardinality(S \ {l}) = Cardinality(S) - 1
    BY FS_RemoveElement
  <2>4. IsFiniteSet(B) /\ Cardinality(B) <= Cardinality(S) - 1
    BY <2>2, <2>3, FS_Subset
  <2>5. Cardinality(B) \in Nat
    BY <2>4, FS_CardinalityType
  <2>6. Place(S, l) = Cardinality(B) + 1
    BY DEF Place
  <2> QED BY <2>4, <2>5, <2>6, <1>0
<1>2. \A k, l \in S : Precedes(k, l) => Place(S, k) < Place(S, l)
  <2> SUFFICES ASSUME NEW k \in S, NEW l \in S, Precedes(k, l) PROVE Place(S, k) < Place(S, l)
    OBVIOUS
  <2> DEFINE B == {j \in S : Precedes(j, k)}
             C == {j \in S : Precedes(j, l)}
  <2>1. k \notin B
    BY CursorsAreOrdered
  <2>2. B \cup {k} \subseteq C
    BY CursorsAreOrdered
  <2>3. IsFiniteSet(B) /\ IsFiniteSet(C)
    BY FS_Subset
  <2>4. IsFiniteSet(B \cup {k}) /\ Cardinality(B \cup {k}) = Cardinality(B) + 1
    BY <2>1, <2>3, FS_AddElement
  <2>5. Cardinality(B \cup {k}) <= Cardinality(C)
    BY <2>2, <2>3, FS_Subset
  <2>6. Cardinality(B) \in Nat /\ Cardinality(C) \in Nat
    BY <2>3, FS_CardinalityType
  <2>7. Place(S, k) = Cardinality(B) + 1 /\ Place(S, l) = Cardinality(C) + 1
    BY DEF Place
  <2> QED BY <2>4, <2>5, <2>6, <2>7
<1>3. \A i \in 1 .. Cardinality(S) : \E l \in S : Place(S, l) = i
  <2> DEFINE h == [l \in S |-> Place(S, l)]
             T == 1 .. Cardinality(S)
  <2>1. \A k, l \in S : h[k] = h[l] => k = l
    BY <1>1, <1>2, CursorsAreOrdered
  <2>2. h \in Injection(S, T)
    BY <1>1, <2>1 DEF Injection, IsInjective
  <2>3. IsFiniteSet(T) /\ Cardinality(T) = Cardinality(S)
    BY <1>0, FS_Interval
  <2>4. h \in Surjection(S, T)
    BY <2>2, <2>3, FS_Injection
  <2>5. \A i \in T : \E l \in S : h[l] = i
    BY <2>4 DEF Surjection
  <2> QED BY <2>5
<1> QED BY <1>1, <1>2, <1>3

LEMMA SortedSorts ==
  ASSUME NEW S, S \subseteq Cursors, IsFiniteSet(S)
  PROVE  /\ Cardinality(S) \in Nat
         /\ Sorted(S) \in [1 .. Cardinality(S) -> S]
         /\ \A i, j \in 1 .. Cardinality(S) : i < j => Precedes(Sorted(S)[i], Sorted(S)[j])
         /\ \A l \in S : \E i \in 1 .. Cardinality(S) : Sorted(S)[i] = l
<1> DEFINE n == Cardinality(S)
<1>0. n \in Nat
  BY FS_CardinalityType
<1>1. /\ \A l \in S : Place(S, l) \in 1 .. n
      /\ \A k, l \in S : Precedes(k, l) => Place(S, k) < Place(S, l)
      /\ \A i \in 1 .. n : \E l \in S : Place(S, l) = i
  BY PlacesAreTheirs
<1>2. Sorted(S) = [i \in 1 .. n |-> CHOOSE l \in S : Place(S, l) = i]
  BY DEF Sorted, Place
<1>3. \A i \in 1 .. n : Sorted(S)[i] \in S /\ Place(S, Sorted(S)[i]) = i
  BY <1>1, <1>2
<1>4. \A i, j \in 1 .. n : i < j => Precedes(Sorted(S)[i], Sorted(S)[j])
  <2> SUFFICES ASSUME NEW i \in 1 .. n, NEW j \in 1 .. n, i < j
               PROVE  Precedes(Sorted(S)[i], Sorted(S)[j])
    OBVIOUS
  <2>1. Sorted(S)[i] # Sorted(S)[j]
    BY <1>3
  <2>2. Precedes(Sorted(S)[j], Sorted(S)[i]) => j < i
    BY <1>1, <1>3
  <2>3. Sorted(S)[i] \in Cursors /\ Sorted(S)[j] \in Cursors
    BY <1>3
  <2> QED BY <2>1, <2>2, <2>3, <1>0, CursorsAreOrdered
<1>5. \A k, l \in S : Place(S, k) = Place(S, l) => k = l
  BY <1>1, CursorsAreOrdered
<1>6. \A l \in S : Sorted(S)[Place(S, l)] = l
  BY <1>1, <1>3, <1>5
<1>7. Sorted(S) \in [1 .. n -> S]
  BY <1>2, <1>3
<1> QED BY <1>0, <1>1, <1>4, <1>6, <1>7

(* A page has between one line and all of them, and none if there is none.   *)
LEMMA PagesHaveALine ==
  ASSUME NEW S, IsFiniteSet(S), NEW k \in Sizes(S)
  PROVE  /\ k \in 0 .. Cardinality(S)
         /\ k = 0 => S = {}
         /\ ~Full(S, k) => k = Cardinality(S)
         /\ Full(S, k) => k > 0
<1> DEFINE n == Cardinality(S)
           M == {n, Limit}
<1>1. n \in Nat /\ Limit \in Nat \ {0} /\ (n = 0 <=> S = {})
  BY FS_CardinalityType, FS_EmptySet, PagesAssumption
<1>2. Min(M) \in M /\ \A y \in M : Min(M) <= y
  <2>1. \E x \in M : \A y \in M : x <= y
    BY <1>1
  <2> QED BY <2>1 DEF Min
<1>3. Sizes(S) = IF S = {} THEN {0} ELSE {Min(M)} \cup 1 .. Min(M)
  BY DEF Sizes
<1>4. Min(M) \in Nat /\ Min(M) <= n /\ (S # {} => Min(M) > 0)
  BY <1>1, <1>2
<1>5. k \in 0 .. n /\ (k = 0 => S = {})
  <2> HIDE DEF n, M
  <2> QED BY <1>1, <1>3, <1>4
<1>6. (~Full(S, k) => k = n) /\ (Full(S, k) => k > 0)
  BY <1>1, <1>5 DEF Full
<1> QED BY <1>5, <1>6

(* A page goes in its direction, over lines of S, and leaves only such as    *)
(* are beyond its last.                                                      *)
LEMMA ForwardsIsAPage ==
  ASSUME NEW S, S \subseteq Cursors, IsFiniteSet(S), NEW k \in 0 .. Cardinality(S)
  PROVE  LET sheet == Forwards(S, k) IN
         /\ sheet \in Seq(Cursors) /\ Len(sheet) = k /\ \A i \in 1 .. k : sheet[i] \in S
         /\ \A i, j \in 1 .. k : i < j => Precedes(sheet[i], sheet[j])
         /\ \A l \in S : (\E i \in 1 .. k : sheet[i] = l) \/ (k > 0 => Precedes(sheet[k], l))
         /\ k = Cardinality(S) => \A l \in S : \E i \in 1 .. k : sheet[i] = l
<1> DEFINE n == Cardinality(S)
           all == Sorted(S)
           sheet == Forwards(S, k)
<1>1. /\ n \in Nat /\ k \in Nat /\ k <= n /\ all \in [1 .. n -> S]
      /\ \A i, j \in 1 .. n : i < j => Precedes(all[i], all[j])
      /\ \A l \in S : \E i \in 1 .. n : all[i] = l
  BY SortedSorts
<1>2. sheet = SubSeq(all, 1, k)
  BY DEF Forwards
<1> HIDE DEF n, all, sheet
<1>3. \A i \in 1 .. k : all[i] \in Cursors /\ all[i] \in S
  BY <1>1
<1>4. sheet \in Seq(Cursors) /\ Len(sheet) = k /\ \A i \in 1 .. k : sheet[i] = all[i]
  <2>1. /\ SubSeq(all, 1, k) \in Seq(Cursors)
        /\ Len(SubSeq(all, 1, k)) = IF 1 <= k THEN k - 1 + 1 ELSE 0
        /\ \A i \in 1 .. k - 1 + 1 : SubSeq(all, 1, k)[i] = all[1 + i - 1]
    BY <1>1, <1>3, SubSeqProperties
  <2> QED BY <1>1, <1>2, <2>1
<1>5. \A l \in S : (\E i \in 1 .. k : sheet[i] = l) \/ (k > 0 => Precedes(sheet[k], l))
  <2> SUFFICES ASSUME NEW l \in S, k > 0, ~\E i \in 1 .. k : sheet[i] = l
               PROVE  Precedes(sheet[k], l)
    OBVIOUS
  <2>1. PICK i \in 1 .. n : all[i] = l
    BY <1>1
  <2>2. k < i
    BY <1>1, <1>4, <2>1
  <2> QED BY <1>1, <1>4, <2>1, <2>2
<1>6. \A i, j \in 1 .. k : i < j => Precedes(sheet[i], sheet[j])
  BY <1>1, <1>4
<1>7. k = n => \A l \in S : \E i \in 1 .. k : sheet[i] = l
  BY <1>1, <1>4
<1> QED BY <1>3, <1>4, <1>5, <1>6, <1>7 DEF sheet, n

LEMMA BackwardsIsAPage ==
  ASSUME NEW S, S \subseteq Cursors, IsFiniteSet(S), NEW k \in 0 .. Cardinality(S)
  PROVE  LET sheet == Backwards(S, k) IN
         /\ sheet \in Seq(Cursors) /\ Len(sheet) = k /\ \A i \in 1 .. k : sheet[i] \in S
         /\ \A i, j \in 1 .. k : i < j => Precedes(sheet[j], sheet[i])
         /\ \A l \in S : (\E i \in 1 .. k : sheet[i] = l) \/ (k > 0 => Precedes(l, sheet[k]))
         /\ k = Cardinality(S) => \A l \in S : \E i \in 1 .. k : sheet[i] = l
<1> DEFINE n == Cardinality(S)
           all == Sorted(S)
           sheet == Backwards(S, k)
<1>1. /\ n \in Nat /\ k \in Nat /\ k <= n /\ all \in [1 .. n -> S]
      /\ \A i, j \in 1 .. n : i < j => Precedes(all[i], all[j])
      /\ \A l \in S : \E i \in 1 .. n : all[i] = l
  BY SortedSorts
<1>2. sheet = [i \in 1 .. k |-> all[n + 1 - i]]
  BY DEF Backwards
<1> HIDE DEF n, all, sheet
<1>3. \A i \in 1 .. k : n + 1 - i \in 1 .. n /\ sheet[i] = all[n + 1 - i]
  BY <1>1, <1>2
<1>4. \A i \in 1 .. k : sheet[i] \in S /\ sheet[i] \in Cursors
  BY <1>1, <1>3
<1>5. sheet \in Seq(Cursors) /\ Len(sheet) = k
  BY <1>1, <1>2, <1>4
<1>6. \A i \in 1 .. n : i \in n + 1 - k .. n => \E j \in 1 .. k : sheet[j] = all[i]
  <2> SUFFICES ASSUME NEW i \in 1 .. n, i \in n + 1 - k .. n
               PROVE  \E j \in 1 .. k : sheet[j] = all[i]
    OBVIOUS
  <2>1. n + 1 - i \in 1 .. k /\ n + 1 - (n + 1 - i) = i
    BY <1>1
  <2>2. sheet[n + 1 - i] = all[i]
    BY <1>3, <2>1
  <2> QED BY <2>1, <2>2
<1>7. \A l \in S : (\E i \in 1 .. k : sheet[i] = l) \/ (k > 0 => Precedes(l, sheet[k]))
  <2> SUFFICES ASSUME NEW l \in S, k > 0, ~\E i \in 1 .. k : sheet[i] = l
               PROVE  Precedes(l, sheet[k])
    OBVIOUS
  <2>1. PICK i \in 1 .. n : all[i] = l
    BY <1>1
  <2>2. i < n + 1 - k
    BY <1>1, <1>6, <2>1
  <2>3. n + 1 - k \in 1 .. n /\ sheet[k] = all[n + 1 - k]
    BY <1>1, <1>3
  <2> QED BY <1>1, <2>1, <2>2, <2>3
<1>8. \A i, j \in 1 .. k : i < j => Precedes(sheet[j], sheet[i])
  <2> SUFFICES ASSUME NEW i \in 1 .. k, NEW j \in 1 .. k, i < j PROVE Precedes(sheet[j], sheet[i])
    OBVIOUS
  <2>1. /\ n + 1 - j \in 1 .. n /\ n + 1 - i \in 1 .. n /\ n + 1 - j < n + 1 - i
        /\ sheet[j] = all[n + 1 - j] /\ sheet[i] = all[n + 1 - i]
    BY <1>1, <1>3
  <2> QED BY <1>1, <2>1
<1>9. k = n => \A l \in S : \E i \in 1 .. k : sheet[i] = l
  <2> SUFFICES ASSUME k = n, NEW l \in S PROVE \E i \in 1 .. k : sheet[i] = l
    OBVIOUS
  <2>1. PICK i \in 1 .. n : all[i] = l
    BY <1>1
  <2>2. i \in n + 1 - k .. n
    BY <1>1
  <2> QED BY <1>6, <2>1, <2>2
<1> QED BY <1>4, <1>5, <1>7, <1>8, <1>9 DEF sheet, n

-----------------------------------------------------------------------------
(* What a page reads.                                                        *)
Joined(a, b) == [x \in Files |-> a[x] \o b[x]]

LEMMA LinesAre ==
  ASSUME NEW c \in Contents
  PROVE  /\ LinesOf(c) \subseteq Lines
         /\ \A l \in Lines : l \in LinesOf(c) <=> l.seq <= Len(c[l.file]) /\ c[l.file][l.seq] = l.at
<1>1. \A x \in Files : c[x] \in Seq(Nat \ {0}) /\ Len(c[x]) \in Nat /\ DOMAIN c[x] = 1 .. Len(c[x])
  BY DEF Contents
<1>2. \A x \in Files : \A i \in 1 .. Len(c[x]) : c[x][i] \in Nat \ {0}
  BY <1>1, ElementOfSeq
<1>3. \A l : l \in LinesOf(c) <=>
        \E x \in Files : \E i \in DOMAIN c[x] : l = [at |-> c[x][i], file |-> x, seq |-> i]
  BY DEF LinesOf
<1>4. \A l \in LinesOf(c) : l \in Lines
  BY <1>1, <1>2, <1>3 DEF Lines
<1>5. ASSUME NEW l \in Lines, l \in LinesOf(c)
      PROVE  l.seq <= Len(c[l.file]) /\ c[l.file][l.seq] = l.at
  <2>1. PICK x \in Files : \E i \in DOMAIN c[x] : l = [at |-> c[x][i], file |-> x, seq |-> i]
    BY <1>3, <1>5
  <2>2. PICK i \in DOMAIN c[x] : l = [at |-> c[x][i], file |-> x, seq |-> i]
    BY <2>1
  <2> QED BY <1>1, <2>1, <2>2
<1>6. ASSUME NEW l \in Lines, l.seq <= Len(c[l.file]), c[l.file][l.seq] = l.at
      PROVE  l \in LinesOf(c)
  <2>1. l.file \in Files /\ l.seq \in DOMAIN c[l.file]
    BY <1>1, <1>6 DEF Lines
  <2>2. l = [at |-> c[l.file][l.seq], file |-> l.file, seq |-> l.seq]
    BY <1>6 DEF Lines
  <2> QED BY <1>3, <2>1, <2>2
<1> QED BY <1>4, <1>5, <1>6

LEMMA JoinedIs ==
  ASSUME NEW a \in Contents, NEW b \in Contents
  PROVE  /\ Joined(a, b) \in Contents
         /\ \A x \in Files : Joined(a, b)[x] = a[x] \o b[x]
         /\ LinesOf(a) \subseteq LinesOf(Joined(a, b))
<1>1. \A x \in Files : a[x] \in Seq(Nat \ {0}) /\ b[x] \in Seq(Nat \ {0})
  BY DEF Contents
<1>2. \A x \in Files :
        /\ a[x] \o b[x] \in Seq(Nat \ {0})
        /\ Len(a[x]) \in Nat /\ Len(b[x]) \in Nat
        /\ Len(a[x] \o b[x]) = Len(a[x]) + Len(b[x])
        /\ \A i \in 1 .. Len(a[x]) : (a[x] \o b[x])[i] = a[x][i]
  <2> SUFFICES ASSUME NEW x \in Files
               PROVE  /\ a[x] \o b[x] \in Seq(Nat \ {0})
                      /\ Len(a[x]) \in Nat /\ Len(b[x]) \in Nat
                      /\ Len(a[x] \o b[x]) = Len(a[x]) + Len(b[x])
                      /\ \A i \in 1 .. Len(a[x]) : (a[x] \o b[x])[i] = a[x][i]
    OBVIOUS
  <2>1. a[x] \in Seq(Nat \ {0}) /\ b[x] \in Seq(Nat \ {0})
    BY <1>1
  <2>2. Len(a[x]) \in Nat /\ Len(b[x]) \in Nat
    BY <2>1
  <2>3. /\ a[x] \o b[x] \in Seq(Nat \ {0})
        /\ Len(a[x] \o b[x]) = Len(a[x]) + Len(b[x])
        /\ \A i \in 1 .. Len(a[x]) + Len(b[x]) :
             (a[x] \o b[x])[i] = IF i <= Len(a[x]) THEN a[x][i] ELSE b[x][i - Len(a[x])]
    BY <2>1, ConcatProperties
  <2> DEFINE p == a[x] \o b[x]
  <2>4. /\ p \in Seq(Nat \ {0}) /\ Len(p) = Len(a[x]) + Len(b[x])
        /\ \A i \in 1 .. Len(a[x]) + Len(b[x]) :
             p[i] = IF i <= Len(a[x]) THEN a[x][i] ELSE b[x][i - Len(a[x])]
    BY <2>3
  <2> HIDE DEF p
  <2>5. \A i \in 1 .. Len(a[x]) : p[i] = a[x][i]
    <3> SUFFICES ASSUME NEW i \in 1 .. Len(a[x]) PROVE p[i] = a[x][i]
      OBVIOUS
    <3> DEFINE m == Len(a[x])
               n == Len(b[x])
    <3>1. m \in Nat /\ n \in Nat /\ i \in 1 .. m
      BY <2>2
    <3>2. \A j \in 1 .. m + n : p[j] = IF j <= m THEN a[x][j] ELSE b[x][j - m]
      BY <2>4
    <3> HIDE DEF m, n
    <3>3. i \in 1 .. m + n /\ i <= m
      BY <3>1
    <3> QED BY <3>2, <3>3
  <2> QED BY <2>2, <2>4, <2>5 DEF p
<1>3. Joined(a, b) \in Contents /\ \A x \in Files : Joined(a, b)[x] = a[x] \o b[x]
  BY <1>2 DEF Joined, Contents
<1>4. ASSUME NEW l \in LinesOf(a) PROVE l \in LinesOf(Joined(a, b))
  <2>1. l \in Lines /\ l.seq <= Len(a[l.file]) /\ a[l.file][l.seq] = l.at
    BY <1>4, LinesAre
  <2>2. l.file \in Files /\ l.seq \in Nat \ {0}
    BY <2>1 DEF Lines
  <2>3. l.seq <= Len(Joined(a, b)[l.file]) /\ Joined(a, b)[l.file][l.seq] = l.at
    <3> DEFINE J == Joined(a, b)
    <3>1. /\ Len(J[l.file]) = Len(a[l.file]) + Len(b[l.file])
          /\ Len(a[l.file]) \in Nat /\ Len(b[l.file]) \in Nat
          /\ \A i \in 1 .. Len(a[l.file]) : J[l.file][i] = a[l.file][i]
      BY <1>2, <1>3, <2>2, Zenon
    <3> HIDE DEF J
    <3>2. l.seq \in 1 .. Len(a[l.file])
      BY <2>1, <2>2, <3>1
    <3>3. J[l.file][l.seq] = a[l.file][l.seq]
      BY <3>1, <3>2
    <3>4. l.seq <= Len(J[l.file])
      <4> DEFINE m == Len(a[l.file])
                 n == Len(b[l.file])
                 o == Len(J[l.file])
      <4>1. o = m + n /\ m \in Nat /\ n \in Nat /\ l.seq \in 1 .. m
        BY <3>1, <3>2
      <4> HIDE DEF m, n, o
      <4>2. l.seq <= o
        BY <4>1
      <4> QED BY <4>2 DEF o
    <3> QED BY <2>1, <3>3, <3>4 DEF J
  <2> QED BY <1>3, <2>1, <2>3, LinesAre
<1> QED BY <1>3, <1>4

(* The line that arrives is the only new one; a flush adds none.             *)
LEMMA ALineMore ==
  ASSUME NEW c \in Contents, NEW d \in Contents, NEW x \in Files, NEW t \in Nat \ {0},
         \A y \in Files : d[y] = IF y = x THEN Append(c[y], t) ELSE c[y]
  PROVE  LinesOf(d) = LinesOf(c) \cup {[at |-> t, file |-> x, seq |-> Len(c[x]) + 1]}
<1> DEFINE new == [at |-> t, file |-> x, seq |-> Len(c[x]) + 1]
<1>1. c[x] \in Seq(Nat \ {0}) /\ Len(c[x]) \in Nat
  BY DEF Contents
<1>2. new \in Lines
  BY <1>1 DEF Lines
<1>3. /\ Len(d[x]) = Len(c[x]) + 1 /\ d[x][Len(c[x]) + 1] = t
      /\ \A i \in 1 .. Len(c[x]) : d[x][i] = c[x][i]
  <2>1. d[x] = Append(c[x], t)
    OBVIOUS
  <2>2. /\ Len(Append(c[x], t)) = Len(c[x]) + 1
        /\ \A i \in 1 .. Len(c[x]) : Append(c[x], t)[i] = c[x][i]
        /\ Append(c[x], t)[Len(c[x]) + 1] = t
    BY <1>1, AppendProperties
  <2> QED BY <2>1, <2>2, Zenon
<1>4. ASSUME NEW l \in Lines PROVE l \in LinesOf(d) <=> l \in LinesOf(c) \/ l = new
  <2>1. l \in LinesOf(d) <=> l.seq <= Len(d[l.file]) /\ d[l.file][l.seq] = l.at
    BY LinesAre
  <2>2. l \in LinesOf(c) <=> l.seq <= Len(c[l.file]) /\ c[l.file][l.seq] = l.at
    BY LinesAre
  <2>3. l.file \in Files /\ l.seq \in Nat \ {0}
    BY DEF Lines
  <2>4. CASE l.file # x
    BY <2>1, <2>2, <2>3, <2>4
  <2>5. CASE l.file = x
    <3>1. l = new <=> l.at = t /\ l.seq = Len(c[x]) + 1
      BY <2>5 DEF Lines
    <3>2. CASE l.seq <= Len(c[x])
      <4>1. l.seq \in 1 .. Len(c[x]) /\ l # new
        BY <1>1, <2>3, <3>1, <3>2
      <4>2. d[x][l.seq] = c[x][l.seq] /\ l.seq <= Len(d[x])
        BY <1>1, <1>3, <2>3, <4>1
      <4> QED BY <2>1, <2>2, <2>5, <3>2, <4>1, <4>2
    <3>3. CASE l.seq = Len(c[x]) + 1
      BY <1>1, <1>3, <2>1, <2>2, <2>3, <2>5, <3>1, <3>3
    <3>4. CASE l.seq > Len(c[x]) + 1
      BY <1>1, <1>3, <2>1, <2>2, <2>3, <2>5, <3>1, <3>4
    <3> QED BY <1>1, <2>3, <3>2, <3>3, <3>4
  <2> QED BY <2>4, <2>5
<1>5. LinesOf(c) \subseteq Lines /\ LinesOf(d) \subseteq Lines
  BY LinesAre
<1> QED BY <1>2, <1>4, <1>5

LEMMA WrittenIsJoined ==
  /\ Written = LinesOf(Joined(file, buffer))
  /\ Written' = LinesOf(Joined(file', buffer'))
  /\ FlushedFiles = Joined(file, buffer)
BY DEF Written, FlushedFiles, Joined, LinesOf

LEMMA FlushesKeepTheLines ==
  ASSUME PagesTypes, file' \in Contents, buffer' \in Contents,
         \A x \in Files : \/ file'[x] = file[x] /\ buffer'[x] = buffer[x]
                          \/ file'[x] = file[x] \o buffer[x] /\ buffer'[x] = <<>>
  PROVE  Written' = Written
<1>1. file \in Contents /\ buffer \in Contents
  BY DEF PagesTypes
<1>2. ASSUME NEW x \in Files PROVE file'[x] \o buffer'[x] = file[x] \o buffer[x]
  <2>1. file[x] \in Seq(Nat \ {0}) /\ buffer[x] \in Seq(Nat \ {0})
    BY <1>1 DEF Contents
  <2>2. file[x] \o buffer[x] \in Seq(Nat \ {0})
    BY <2>1
  <2>3. (file[x] \o buffer[x]) \o <<>> = file[x] \o buffer[x]
    BY <2>2, ConcatEmptySeq
  <2> QED BY <2>3
<1>3. Joined(file', buffer') = Joined(file, buffer)
  BY <1>2 DEF Joined
<1> QED BY <1>3, WrittenIsJoined

(* The flush before a page puts all that is written in the files.            *)
LEMMA AskFlushes ==
  ASSUME PagesTypes, NEW for \in {"poll", "newest", "older"}, Ask(for)
  PROVE  /\ LinesOf(file') = Written /\ Written' = Written
         /\ file' \in Contents /\ buffer' \in Contents
<1>1. file \in Contents /\ buffer \in Contents
  BY DEF PagesTypes
<1>2. file' = Joined(file, buffer) /\ buffer' = [x \in Files |-> <<>>]
  BY WrittenIsJoined DEF Ask
<1>3. file' \in Contents
  BY <1>1, <1>2, JoinedIs
<1>4. <<>> \in Seq(Nat \ {0})
  OBVIOUS
<1>5. buffer' \in Contents
  BY <1>2, <1>4 DEF Contents
<1>6. \A x \in Files : file'[x] = file[x] \o buffer[x] /\ buffer'[x] = <<>>
  BY <1>1, <1>2, JoinedIs
<1>7. Written' = Written
  BY <1>3, <1>5, <1>6, FlushesKeepTheLines
<1>8. LinesOf(file') = Written
  BY <1>2, WrittenIsJoined
<1> QED BY <1>3, <1>5, <1>7, <1>8

LEMMA WhatIsWritten ==
  ASSUME PagesTypes
  PROVE  /\ LinesOf(file) \subseteq Written /\ Written \subseteq Lines
         /\ Lines \subseteq Cursors /\ NoCursor \in Cursors
<1>1. file \in Contents /\ buffer \in Contents
  BY DEF PagesTypes
<1>2. LinesOf(file) \subseteq Written /\ Written \subseteq Lines
  BY <1>1, JoinedIs, LinesAre, WrittenIsJoined
<1>3. Lines \subseteq Cursors /\ NoCursor \in Cursors
  BY PagesAssumption DEF Lines, Cursors, NoCursor
<1> QED BY <1>2, <1>3

(* What a page takes is no younger than it may go.                           *)
LEMMA TakesUpToTheTop ==
  ASSUME PagesTypes, NEW l \in Lines, Takes(l)
  PROVE  page.for = "none" \/ l.at <= Top
<1>1. l \in Cursors /\ walk.from \in Cursors
  BY WhatIsWritten DEF PagesTypes
<1>2. page.for \in {"none", "poll", "newest", "older"}
  BY DEF PagesTypes
<1>3. CASE page.for = "older"
  BY <1>1, <1>3, CursorsAreOrdered DEF Takes, Behind, Top
<1>4. CASE page.for \in {"poll", "newest"}
  BY <1>4 DEF Takes, Ahead, Behind, Top
<1> QED BY <1>2, <1>3, <1>4

LEMMA PagesStart == PagesInit => PagesInv
<1> SUFFICES ASSUME PagesInit PROVE PagesInv
  OBVIOUS
<1> USE DEF PagesInit
<1>1. <<>> \in Seq(Nat \ {0}) /\ <<>> \in Seq(Cursors) /\ DOMAIN <<>> = {}
  OBVIOUS
<1>2. flight \in Contents /\ buffer \in Contents /\ file \in Contents
  BY <1>1 DEF Contents
<1>3. \A x \in Files : Joined(file, buffer)[x] = <<>>
  <2>1. <<>> \o <<>> = <<>>
    BY <1>1, ConcatEmptySeq
  <2> QED BY <1>2, <2>1, JoinedIs
<1>4. Written = {}
  <2> SUFFICES ASSUME NEW l \in Written PROVE FALSE
    OBVIOUS
  <2>1. Joined(file, buffer) \in Contents
    BY <1>2, JoinedIs
  <2>2. l \in Lines /\ l.seq <= Len(Joined(file, buffer)[l.file])
    BY <2>1, LinesAre, WrittenIsJoined
  <2>3. l.file \in Files /\ l.seq \in Nat \ {0}
    BY <2>2 DEF Lines
  <2> QED BY <1>3, <2>2, <2>3
<1>5. NoCursor \in Cursors
  BY DEF NoCursor, Cursors
<1>6. PagesTypes
  <2>1. journal \in Seq([at : Nat, late : BOOLEAN])
    OBVIOUS
  <2> QED BY <1>1, <1>2, <1>4, <1>5, <2>1, FS_EmptySet DEF PagesTypes, NoPage
<1>7. PollInv
  BY <1>1, <1>4 DEF PollInv
<1>8. WalkInv
  BY <1>1 DEF WalkInv
<1>9. EventsInSomePage
  BY <1>1 DEF EventsInSomePage
<1>10. PageInv
  BY DEF PageInv, NoPage, Bounded
<1> QED BY <1>6, <1>7, <1>8, <1>9, <1>10 DEF PagesInv

-----------------------------------------------------------------------------
(* The writers go on: what they add on time is younger than any page.        *)
LEMMA OnTimeIsBehindThePages ==
  ASSUME PagesInv, now' \in Nat, now <= now', UNCHANGED <<page, poll, walk, start, got, back>>,
         Written \subseteq Written', LinesOf(file) \subseteq LinesOf(file'),
         \A l \in Written' \ late' : l \in Written \ late \/ (l \in Lines /\ l.at > Hold')
  PROVE  PollInv' /\ WalkInv' /\ PageInv'
<1>1. /\ now \in Nat /\ Hold \in Int /\ Hold' \in Int /\ Hold <= Hold'
      /\ poll \in Cursors /\ start \in Cursors /\ walk.from \in Cursors
      /\ poll.at \in Nat /\ start.at \in Nat
  BY PagesAssumption, SMTT(30) DEF PagesInv, PagesTypes, Hold, Cursors
<1>2. \A l \in Lines : l \in Cursors /\ l.at \in Nat \ {0} /\ l.file \in Nat \ {0}
  BY PagesAssumption DEF Lines, Cursors
<1>3. ASSUME NEW l \in Lines, l.at > Hold' PROVE Precedes(poll, l) /\ (back # <<>> => Precedes(start, l))
  <2>1. poll.at < l.at
    BY <1>1, <1>2, <1>3 DEF PagesInv, PollInv, NoCursor
  <2>2. back # <<>> => start.at < l.at
    BY <1>1, <1>2, <1>3 DEF PagesInv, WalkInv
  <2> QED BY <2>1, <2>2 DEF Precedes
<1>4. PollInv'
  <2>1. /\ poll' = NoCursor \/ poll'.at <= Hold'
        /\ poll' = NoCursor => got' = <<>>
        /\ \A i \in DOMAIN got' : ~Precedes(poll', got'[i])
        /\ \A i, j \in DOMAIN got' : i < j => Precedes(got'[i], got'[j])
    BY <1>1 DEF PagesInv, PollInv
  <2>2. \A l \in Written' \ late' : Precedes(start', l) /\ ~Precedes(poll', l) => l \in Range(got')
    BY <1>3 DEF PagesInv, PollInv
  <2> QED BY <2>1, <2>2 DEF PollInv
<1>5. WalkInv'
  <2>0. walk.from.at \in Nat
    BY <1>1 DEF Cursors
  <2>1. /\ back' # <<>> => start'.at <= Hold'
        /\ walk'.on => back' # <<>> /\ walk'.from # NoCursor /\ walk'.from.at <= Hold'
        /\ walk'.on => \A i \in DOMAIN back' : ~Precedes(back'[i], walk'.from)
        /\ \A i, j \in DOMAIN back' : i < j => Precedes(back'[j], back'[i])
    <3>1. walk'.on => walk'.from.at <= Hold'
      BY <1>1, <2>0 DEF PagesInv, WalkInv
    <3> QED BY <1>1, <3>1 DEF PagesInv, WalkInv
  <2>2. back' # <<>> =>
          \A l \in Written' \ late' :
            ~Precedes(start', l) /\ (walk'.on => ~Precedes(l, walk'.from)) => l \in Range(back')
    BY <1>3 DEF PagesInv, WalkInv
  <2> QED BY <2>1, <2>2 DEF WalkInv
<1>6. PageInv'
  <2>1. Bounded => Top \in Int /\ Top <= Hold
    BY <1>1, SMTT(30) DEF PagesInv, PagesTypes, PageInv, WalkInv, Bounded, Top, Cursors
  <2>2. ASSUME NEW l \in Lines, l.at > Hold', Bounded PROVE ~(l.at <= Top)
    BY <1>1, <1>2, <2>1, <2>2
  <2>3. ASSUME NEW l \in Lines, l.at > Hold', page.clocked PROVE ~Takes(l)
    <3>1. Bounded /\ page.for # "none"
      BY <2>3 DEF Bounded, PagesInv, PageInv
    <3>2. ~(l.at <= Top)
      BY <2>2, <2>3, <3>1
    <3> QED BY <3>1, <3>2, TakesUpToTheTop DEF PagesInv
  <2>4. Bounded' = Bounded /\ Top' = Top /\ \A l : Takes(l)' = Takes(l)
    BY DEF Bounded, Top, Takes, Ahead, Behind
  <2>5. /\ page'.for = "newest" => poll' = NoCursor /\ back' = <<>> /\ ~walk'.on
        /\ page'.for = "older" => walk'.on
        /\ page'.clocked => page'.for # "none"
        /\ ~page'.clocked => page'.lines = {} /\ (page'.for # "none" => page'.unread = Files)
    BY DEF PagesInv, PageInv
  <2>6. page'.clocked => page'.hold <= Hold'
    BY <1>1 DEF PagesInv, PageInv, PagesTypes
  <2>7. \A l \in page'.lines : l \in Written' /\ Takes(l)'
    BY <2>4 DEF PagesInv, PageInv
  <2>8. Bounded' => \A l \in Written' \ late' : l.at <= Top' => l \in LinesOf(file')
    BY <2>2, <2>4 DEF PagesInv, PageInv
  <2>9. page'.clocked =>
          \A l \in Written' \ late' : l.file \notin page'.unread /\ Takes(l)' => l \in page'.lines
    BY <2>3, <2>4 DEF PagesInv, PageInv
  <2> QED BY <2>5, <2>6, <2>7, <2>8, <2>9 DEF PageInv
<1> QED BY <1>4, <1>5, <1>6

LEMMA WritersKeepTheirTypes ==
  ASSUME PagesInv,
         (\E x \in Files : PrintLine(x) \/ Arrive(x) \/ FlushOne(x))
           \/ (\E wait \in 0 .. HoldBack : Record(wait)) \/ Second
  PROVE  /\ flight' \in Contents /\ buffer' \in Contents /\ file' \in Contents
         /\ now' \in Nat \ {0} /\ now <= now'
         /\ journal' \in Seq([at : Nat, late : BOOLEAN])
         /\ UNCHANGED <<page, poll, walk, start, got, back, seen, cut>>
<1>0. /\ flight \in Contents /\ buffer \in Contents /\ file \in Contents /\ now \in Nat \ {0}
      /\ journal \in Seq([at : Nat, late : BOOLEAN]) /\ HoldBack \in Nat \ {0}
  BY PagesAssumption DEF PagesInv, PagesTypes
<1>1. ASSUME NEW x \in Files
      PROVE  flight[x] \in Seq(Nat \ {0}) /\ buffer[x] \in Seq(Nat \ {0}) /\ file[x] \in Seq(Nat \ {0})
  BY <1>0 DEF Contents
<1>2. \A c \in Contents : \A x \in Files : \A s \in Seq(Nat \ {0}) : [c EXCEPT ![x] = s] \in Contents
  BY DEF Contents
<1>3. ASSUME NEW x \in Files, PrintLine(x) PROVE flight' \in Contents
  <2>1. Append(flight[x], now) \in Seq(Nat \ {0})
    BY <1>0, <1>1
  <2> QED BY <1>0, <1>2, <1>3, <2>1 DEF PrintLine
<1>4. ASSUME NEW x \in Files, Arrive(x) PROVE flight' \in Contents /\ buffer' \in Contents
  <2>1. flight[x] # <<>> /\ flight[x] \in Seq(Nat \ {0}) /\ buffer[x] \in Seq(Nat \ {0})
    BY <1>1, <1>4 DEF Arrive
  <2>2. Head(flight[x]) \in Nat \ {0} /\ Tail(flight[x]) \in Seq(Nat \ {0})
    BY <2>1
  <2>3. Append(buffer[x], Head(flight[x])) \in Seq(Nat \ {0})
    BY <2>1, <2>2
  <2> QED BY <1>0, <1>2, <1>4, <2>2, <2>3 DEF Arrive
<1>5. ASSUME NEW x \in Files, FlushOne(x) PROVE file' \in Contents /\ buffer' \in Contents
  <2>1. file[x] \o buffer[x] \in Seq(Nat \ {0}) /\ <<>> \in Seq(Nat \ {0})
    BY <1>1
  <2> QED BY <1>0, <1>2, <1>5, <2>1 DEF FlushOne
<1>6. ASSUME NEW wait \in 0 .. HoldBack, Record(wait)
      PROVE  journal' \in Seq([at : Nat, late : BOOLEAN])
  <2>1. now - wait \in Nat /\ (wait >= HoldBack) \in BOOLEAN
    BY <1>0, <1>6 DEF Record
  <2>2. [at |-> now - wait, late |-> wait >= HoldBack] \in [at : Nat, late : BOOLEAN]
    BY <2>1
  <2> QED BY <1>0, <1>6, <2>2 DEF Record
<1>7. \/ \E x \in Files : PrintLine(x)
      \/ \E x \in Files : Arrive(x)
      \/ \E x \in Files : FlushOne(x)
      \/ \E wait \in 0 .. HoldBack : Record(wait)
      \/ Second
  OBVIOUS
<1>8. CASE \E x \in Files : PrintLine(x)
  <2>1. PICK x \in Files : PrintLine(x)
    BY <1>8
  <2>2. flight' \in Contents
    BY <1>3, <2>1
  <2> QED BY <1>0, <2>1, <2>2 DEF PrintLine, cursorVars
<1>9. CASE \E x \in Files : Arrive(x)
  <2>1. PICK x \in Files : Arrive(x)
    BY <1>9
  <2>2. flight' \in Contents /\ buffer' \in Contents
    BY <1>4, <2>1
  <2>3. UNCHANGED <<now, file, journal, page, poll, walk, start, got, back, seen, cut>>
    BY <2>1 DEF Arrive, cursorVars
  <2> QED BY <1>0, <2>2, <2>3
<1>10. CASE \E x \in Files : FlushOne(x)
  <2>1. PICK x \in Files : FlushOne(x)
    BY <1>10
  <2>2. file' \in Contents /\ buffer' \in Contents
    BY <1>5, <2>1
  <2>3. UNCHANGED <<now, flight, journal, page, poll, walk, start, got, back, seen, cut>>
    BY <2>1 DEF FlushOne, cursorVars
  <2> QED BY <1>0, <2>2, <2>3
<1>11. CASE \E wait \in 0 .. HoldBack : Record(wait)
  BY <1>0, <1>6, <1>11 DEF Record, cursorVars
<1>12. CASE Second
  BY <1>0, <1>12 DEF Second, cursorVars
<1> QED BY <1>7, <1>8, <1>9, <1>10, <1>11, <1>12

LEMMA LastOfTheSecond ==
  ASSUME NEW S, NEW s \in Seq(S), NEW t \in Seq(S), NEW e \in S
  PROVE  s \o Append(t, e) = Append(s \o t, e)
OBVIOUS

LEMMA ArriveAddsItsLine ==
  ASSUME PagesTypes, NEW x \in Files, Arrive(x), buffer' \in Contents
  PROVE  \E l \in Lines : /\ Written' = Written \cup {l}
                          /\ late' = IF l.at > Hold THEN late ELSE late \cup {l}
<1> DEFINE h == Head(flight[x])
           new == [at |-> h, file |-> x, seq |-> Len(file[x]) + Len(buffer[x]) + 1]
<1>1. file \in Contents /\ buffer \in Contents /\ flight \in Contents /\ now \in Nat /\ HoldBack \in Nat
  BY PagesAssumption DEF PagesTypes
<1>2. file[x] \in Seq(Nat \ {0}) /\ buffer[x] \in Seq(Nat \ {0}) /\ h \in Nat \ {0}
  <2>1. flight[x] \in Seq(Nat \ {0}) /\ flight[x] # <<>>
    BY <1>1 DEF Contents, Arrive
  <2> QED BY <1>1, <2>1 DEF Contents
<1> HIDE DEF h
<1>3. /\ Joined(file, buffer) \in Contents
      /\ \A y \in Files : Joined(file, buffer)[y] = file[y] \o buffer[y]
  BY <1>1, JoinedIs
<1>4. /\ Joined(file', buffer') \in Contents
      /\ \A y \in Files : Joined(file', buffer')[y] = file'[y] \o buffer'[y]
  <2>1. file' \in Contents
    BY <1>1 DEF Arrive
  <2> QED BY <2>1, JoinedIs
<1>5. file[x] \o Append(buffer[x], h) = Append(file[x] \o buffer[x], h)
  <2>1. \A s, t \in Seq(Nat \ {0}) : \A e \in Nat \ {0} : s \o Append(t, e) = Append(s \o t, e)
    BY LastOfTheSecond
  <2> QED BY <1>2, <2>1, Zenon
<1>6. ASSUME NEW y \in Files
      PROVE  Joined(file', buffer')[y] =
               IF y = x THEN Append(Joined(file, buffer)[y], h) ELSE Joined(file, buffer)[y]
  <2>1. file' = file /\ buffer' = [buffer EXCEPT ![x] = Append(buffer[x], h)]
    BY DEF Arrive, h
  <2>2. buffer'[y] = IF y = x THEN Append(buffer[x], h) ELSE buffer[y]
    BY <1>1, <2>1 DEF Contents
  <2>3. CASE y = x
    <3>1. Joined(file', buffer')[y] = file[x] \o Append(buffer[x], h)
      BY <1>4, <2>1, <2>2, <2>3
    <3>2. Joined(file, buffer)[y] = file[x] \o buffer[x]
      BY <1>3, <2>3
    <3> QED BY <1>5, <2>3, <3>1, <3>2
  <2>4. CASE y # x
    <3>1. Joined(file', buffer')[y] = file[y] \o buffer[y]
      BY <1>4, <2>1, <2>2, <2>4
    <3> QED BY <1>3, <2>4, <3>1
  <2> QED BY <2>3, <2>4
<1>7. Len(Joined(file, buffer)[x]) = Len(file[x]) + Len(buffer[x])
  <2>1. Joined(file, buffer)[x] = file[x] \o buffer[x]
    BY <1>3
  <2>2. Len(file[x] \o buffer[x]) = Len(file[x]) + Len(buffer[x])
    BY <1>2, ConcatProperties
  <2> QED BY <2>1, <2>2
<1>8. Written' = Written \cup {new}
  <2>1. LinesOf(Joined(file', buffer')) =
          LinesOf(Joined(file, buffer)) \cup
            {[at |-> h, file |-> x, seq |-> Len(Joined(file, buffer)[x]) + 1]}
    BY <1>2, <1>3, <1>4, <1>6, ALineMore, SMTT(30)
  <2> QED BY <1>7, <2>1, WrittenIsJoined
<1>9. new \in Lines /\ new.at = h
  <2>1. Len(file[x]) \in Nat /\ Len(buffer[x]) \in Nat
    BY <1>2
  <2>2. Len(file[x]) + Len(buffer[x]) + 1 \in Nat \ {0}
    <3> DEFINE m == Len(file[x])
               n == Len(buffer[x])
    <3>1. m \in Nat /\ n \in Nat
      BY <2>1
    <3> HIDE DEF m, n
    <3>2. m + n + 1 \in Nat \ {0}
      BY <3>1
    <3> QED BY <3>2 DEF m, n
  <2> QED BY <1>2, <2>2 DEF Lines
<1>10. late' = IF now >= h + HoldBack THEN late \cup {new} ELSE late
  BY DEF Arrive, h
<1>11. now >= h + HoldBack <=> ~(h > Hold)
  BY <1>1, <1>2 DEF Hold
<1>12. late' = IF new.at > Hold THEN late ELSE late \cup {new}
  BY <1>9, <1>10, <1>11
<1> HIDE DEF new
<1> QED BY <1>8, <1>9, <1>12

WriterStep ==
  \/ \E x \in Files : PrintLine(x) \/ Arrive(x) \/ FlushOne(x)
  \/ \E wait \in 0 .. HoldBack : Record(wait)
  \/ Second

(* Each writer adds nothing to the lines, or the line that arrives.          *)
LEMMA WritersAddTheirLine ==
  ASSUME PagesInv, WriterStep, file' \in Contents, buffer' \in Contents
  PROVE  \/ Written' = Written /\ late' = late
         \/ \E l \in Lines : /\ Written' = Written \cup {l} /\ now' = now
                             /\ late' = IF l.at > Hold THEN late ELSE late \cup {l}
<1>0. PagesTypes
  BY DEF PagesInv
<1>1. ASSUME UNCHANGED <<file, buffer, late>> PROVE Written' = Written /\ late' = late
  BY <1>1, WrittenIsJoined
<1>2. ASSUME NEW x \in Files, PrintLine(x) PROVE Written' = Written /\ late' = late
  BY <1>1, <1>2 DEF PrintLine
<1>3. ASSUME NEW x \in Files, Arrive(x)
      PROVE  \E l \in Lines : /\ Written' = Written \cup {l} /\ now' = now
                              /\ late' = IF l.at > Hold THEN late ELSE late \cup {l}
  <2>1. \E l \in Lines : /\ Written' = Written \cup {l}
                         /\ late' = IF l.at > Hold THEN late ELSE late \cup {l}
    BY <1>0, <1>3, ArriveAddsItsLine
  <2>2. now' = now
    BY <1>3 DEF Arrive
  <2> QED BY <2>1, <2>2
<1>4. ASSUME NEW x \in Files, FlushOne(x) PROVE Written' = Written /\ late' = late
  <2>1. \A y \in Files : \/ file'[y] = file[y] /\ buffer'[y] = buffer[y]
                         \/ file'[y] = file[y] \o buffer[y] /\ buffer'[y] = <<>>
    <3> SUFFICES ASSUME NEW y \in Files
                 PROVE  \/ file'[y] = file[y] /\ buffer'[y] = buffer[y]
                        \/ file'[y] = file[y] \o buffer[y] /\ buffer'[y] = <<>>
      OBVIOUS
    <3>1. file' = [file EXCEPT ![x] = file[x] \o buffer[x]] /\ buffer' = [buffer EXCEPT ![x] = <<>>]
      BY <1>4 DEF FlushOne
    <3>2. DOMAIN file = Files /\ DOMAIN buffer = Files
      BY <1>0 DEF PagesTypes, Contents
    <3>3. CASE y = x
      BY <3>1, <3>2, <3>3
    <3>4. CASE y # x
      BY <3>1, <3>2, <3>4
    <3> QED BY <3>3, <3>4
  <2>2. late' = late
    BY <1>4 DEF FlushOne
  <2> QED BY <1>0, <2>1, <2>2, FlushesKeepTheLines
<1>5. ASSUME (\E wait \in 0 .. HoldBack : Record(wait)) \/ Second PROVE Written' = Written /\ late' = late
  BY <1>1, <1>5 DEF Record, Second
<1> QED BY <1>2, <1>3, <1>4, <1>5 DEF WriterStep

(* and takes no line out of the files.                                       *)
LEMMA FilesGrow ==
  ASSUME PagesTypes, WriterStep
  PROVE  LinesOf(file) \subseteq LinesOf(file')
<1>1. file \in Contents /\ buffer \in Contents
  BY DEF PagesTypes
<1>2. ASSUME NEW x \in Files, FlushOne(x) PROVE LinesOf(file) \subseteq LinesOf(file')
  <2> DEFINE b == [y \in Files |-> IF y = x THEN buffer[y] ELSE <<>>]
  <2>1. b \in Contents
    BY <1>1 DEF Contents
  <2>2. ASSUME NEW y \in Files PROVE file'[y] = file[y] \o b[y]
    <3>1. file' = [file EXCEPT ![x] = file[x] \o buffer[x]]
      BY <1>2 DEF FlushOne
    <3>2. CASE y = x
      BY <1>1, <3>1, <3>2 DEF Contents
    <3>3. CASE y # x
      <4>1. file'[y] = file[y] /\ b[y] = <<>> /\ file[y] \in Seq(Nat \ {0})
        BY <1>1, <3>1, <3>3 DEF Contents
      <4>2. file[y] \o <<>> = file[y]
        BY <4>1, ConcatEmptySeq
      <4> QED BY <4>1, <4>2
    <3> QED BY <3>2, <3>3
  <2>3. file' = [y \in Files |-> file'[y]]
    BY <1>1, <1>2 DEF FlushOne, Contents
  <2>4. file' = Joined(file, b)
    BY <2>2, <2>3 DEF Joined
  <2> QED BY <1>1, <2>1, <2>4, JoinedIs
<1>3. ASSUME file' = file PROVE LinesOf(file) \subseteq LinesOf(file')
  BY <1>3
<1>4. \/ file' = file
      \/ \E x \in Files : FlushOne(x)
  BY DEF WriterStep, PrintLine, Arrive, Record, Second
<1> QED BY <1>2, <1>3, <1>4

LEMMA AnEventIsInSomePage ==
  ASSUME PagesInv, WriterStep, UNCHANGED <<poll, walk, seen, cut>>
  PROVE  EventsInSomePage'
<1>1. /\ now \in Nat \ {0} /\ HoldBack \in Nat \ {0} /\ Hold = now - HoldBack
      /\ poll = NoCursor \/ poll.at <= Hold
      /\ poll.at \in Nat /\ (poll = NoCursor => poll.at = 0)
      /\ journal \in Seq([at : Nat, late : BOOLEAN])
  BY PagesAssumption DEF PagesInv, PagesTypes, PollInv, Hold, Cursors, NoCursor
<1>2. \A i \in DOMAIN journal :
        journal[i].at < poll'.at /\ (walk'.on => walk'.from.at <= journal[i].at) /\ ~journal[i].late
          => i \in seen' \cup cut'
  BY DEF PagesInv, EventsInSomePage
<1>3. ASSUME NEW wait \in 0 .. HoldBack, Record(wait) PROVE EventsInSomePage'
  <2> DEFINE e == [at |-> now - wait, late |-> wait >= HoldBack]
  <2>1. e \in [at : Nat, late : BOOLEAN]
    <3>1. now - wait \in Nat /\ (wait >= HoldBack) \in BOOLEAN
      BY <1>1, <1>3 DEF Record
    <3> QED BY <3>1
  <2>2. e.late \/ ~(e.at < poll'.at)
    <3>1. e.late = (wait >= HoldBack) /\ e.at = now - wait
      OBVIOUS
    <3> HIDE DEF e
    <3>2. wait >= HoldBack \/ ~(now - wait < poll.at)
      BY <1>1, <1>3 DEF Record
    <3>3. CASE wait >= HoldBack
      BY <3>1, <3>3, Zenon
    <3>4. CASE ~(now - wait < poll.at)
      BY <3>1, <3>4
    <3> QED BY <3>2, <3>3, <3>4
  <2>3. journal' = Append(journal, e)
    BY <1>3, Zenon DEF Record
  <2> HIDE DEF e
  <2>4. \A i \in DOMAIN journal' : (i \in DOMAIN journal /\ journal'[i] = journal[i]) \/ journal'[i] = e
    BY <1>1, <2>1, <2>3
  <2> QED BY <1>2, <2>2, <2>4, Zenon DEF EventsInSomePage
<1>4. ASSUME (\E x \in Files : PrintLine(x) \/ Arrive(x) \/ FlushOne(x)) \/ Second PROVE EventsInSomePage'
  <2>1. journal' = journal
    BY <1>4 DEF PrintLine, Arrive, FlushOne, Second
  <2> QED BY <1>2, <2>1, Zenon DEF EventsInSomePage
<1> QED BY <1>3, <1>4 DEF WriterStep

LEMMA WritersGoOn ==
  ASSUME PagesInv, WriterStep
  PROVE  PagesInv'
<1>1. /\ flight' \in Contents /\ buffer' \in Contents /\ file' \in Contents
      /\ now' \in Nat \ {0} /\ now <= now'
      /\ journal' \in Seq([at : Nat, late : BOOLEAN])
      /\ UNCHANGED <<page, poll, walk, start, got, back, seen, cut>>
  BY WritersKeepTheirTypes DEF WriterStep
<1>2. \/ Written' = Written /\ late' = late
      \/ \E l \in Lines : /\ Written' = Written \cup {l} /\ now' = now
                          /\ late' = IF l.at > Hold THEN late ELSE late \cup {l}
  BY <1>1, WritersAddTheirLine
<1>3. IsFiniteSet(Written') /\ Written \subseteq Written'
  <2>1. IsFiniteSet(Written)
    BY DEF PagesInv, PagesTypes
  <2>2. \A l : IsFiniteSet(Written \cup {l})
    BY <2>1, FS_AddElement
  <2> QED BY <1>2, <2>1, <2>2
<1>4. PagesTypes'
  BY <1>1, <1>3 DEF PagesInv, PagesTypes
<1>5. \A l \in Written' \ late' : l \in Written \ late \/ (l \in Lines /\ l.at > Hold')
  <2>1. CASE Written' = Written /\ late' = late
    BY <2>1, Zenon
  <2>2. CASE \E l \in Lines : /\ Written' = Written \cup {l} /\ now' = now
                              /\ late' = IF l.at > Hold THEN late ELSE late \cup {l}
    <3>1. PICK l \in Lines : /\ Written' = Written \cup {l} /\ now' = now
                             /\ late' = IF l.at > Hold THEN late ELSE late \cup {l}
      BY <2>2
    <3>2. Hold' = Hold
      BY <3>1 DEF Hold
    <3>3. \A k \in Written' \ late' : k \in Written \ late \/ (k = l /\ l.at > Hold)
      BY <3>1, Zenon
    <3> QED BY <3>1, <3>2, <3>3, Zenon
  <2> QED BY <1>2, <2>1, <2>2
<1>6. PollInv' /\ WalkInv' /\ PageInv'
  BY <1>1, <1>3, <1>5, FilesGrow, OnTimeIsBehindThePages DEF PagesInv
<1>7. EventsInSomePage'
  BY <1>1, AnEventIsInSomePage
<1> QED BY <1>4, <1>6, <1>7 DEF PagesInv

-----------------------------------------------------------------------------
(* A page goes on where the ones before it stopped.                          *)
Ascends(s) == \A i, j \in DOMAIN s : i < j => Precedes(s[i], s[j])
Descends(s) == \A i, j \in DOMAIN s : i < j => Precedes(s[j], s[i])

LEMMA PagesInARow ==
  ASSUME NEW s \in Seq(Cursors), NEW p \in Seq(Cursors)
  PROVE  /\ s \o p \in Seq(Cursors)
         /\ DOMAIN s = 1 .. Len(s) /\ DOMAIN p = 1 .. Len(p)
         /\ DOMAIN (s \o p) = 1 .. Len(s) + Len(p) /\ Len(s) \in Nat /\ Len(p) \in Nat
         /\ \A i \in DOMAIN s : i \in DOMAIN (s \o p) /\ (s \o p)[i] = s[i]
         /\ \A i \in DOMAIN p : Len(s) + i \in DOMAIN (s \o p) /\ (s \o p)[Len(s) + i] = p[i]
         /\ \A i \in DOMAIN (s \o p) : i \in DOMAIN s \/ i - Len(s) \in DOMAIN p
<1> DEFINE m == Len(s)
           n == Len(p)
           r == s \o p
<1>1. m \in Nat /\ n \in Nat /\ DOMAIN s = 1 .. m /\ DOMAIN p = 1 .. n
  OBVIOUS
<1>2. /\ r \in Seq(Cursors) /\ Len(r) = m + n
      /\ \A i \in 1 .. m + n : r[i] = IF i <= m THEN s[i] ELSE p[i - m]
  BY ConcatProperties
<1>3. DOMAIN r = 1 .. m + n
  BY <1>2
<1> HIDE DEF m, n, r
<1>4. \A i \in DOMAIN s : i \in DOMAIN r /\ r[i] = s[i]
  BY <1>1, <1>2, <1>3
<1>5. \A i \in DOMAIN p : m + i \in DOMAIN r /\ r[m + i] = p[i]
  <2> SUFFICES ASSUME NEW i \in DOMAIN p PROVE m + i \in DOMAIN r /\ r[m + i] = p[i]
    OBVIOUS
  <2> DEFINE q == m + i
  <2>1. q \in 1 .. m + n /\ ~(q <= m) /\ q - m = i
    BY <1>1
  <2> HIDE DEF q
  <2>2. r[q] = p[i]
    BY <1>2, <2>1
  <2> QED BY <1>3, <2>1, <2>2 DEF q
<1>6. \A i \in DOMAIN r : i \in DOMAIN s \/ i - m \in DOMAIN p
  BY <1>1, <1>3
<1> QED BY <1>1, <1>2, <1>3, <1>4, <1>5, <1>6 DEF m, n, r

LEMMA InRange ==
  ASSUME NEW s \in Seq(Cursors), NEW p \in Seq(Cursors)
  PROVE  \A l : l \in Range(s \o p) <=> l \in Range(s) \/ l \in Range(p)
<1>1. /\ \A i \in DOMAIN s : i \in DOMAIN (s \o p) /\ (s \o p)[i] = s[i]
      /\ \A i \in DOMAIN p : Len(s) + i \in DOMAIN (s \o p) /\ (s \o p)[Len(s) + i] = p[i]
      /\ \A i \in DOMAIN (s \o p) : i \in DOMAIN s \/ i - Len(s) \in DOMAIN p
      /\ DOMAIN (s \o p) = 1 .. Len(s) + Len(p) /\ Len(s) \in Nat
  BY PagesInARow
<1> DEFINE r == s \o p
           m == Len(s)
<1>2. \A i \in DOMAIN r : i \in DOMAIN s \/ (i - m \in DOMAIN p /\ i = m + (i - m))
  BY <1>1
<1> HIDE DEF r, m
<1>3. \A i \in DOMAIN r : r[i] \in Range(s) \/ r[i] \in Range(p)
  <2> SUFFICES ASSUME NEW i \in DOMAIN r, i \notin DOMAIN s PROVE r[i] \in Range(p)
    BY <1>1 DEF Range, r, m
  <2>1. i - m \in DOMAIN p /\ i = m + (i - m)
    BY <1>2
  <2>2. r[m + (i - m)] = p[i - m]
    BY <1>1, <2>1 DEF r, m
  <2> QED BY <2>1, <2>2 DEF Range
<1>4. \A l : l \in Range(r) => l \in Range(s) \/ l \in Range(p)
  BY <1>3 DEF Range
<1>5. \A l : l \in Range(s) \/ l \in Range(p) => l \in Range(r)
  BY <1>1 DEF Range, r, m
<1> QED BY <1>4, <1>5 DEF r

LEMMA StillInOrder ==
  ASSUME NEW s \in Seq(Cursors), NEW p \in Seq(Cursors)
  PROVE  /\ Ascends(s) /\ Ascends(p)
             /\ (\A i \in DOMAIN s : \A j \in DOMAIN p : Precedes(s[i], p[j])) => Ascends(s \o p)
         /\ Descends(s) /\ Descends(p)
             /\ (\A i \in DOMAIN s : \A j \in DOMAIN p : Precedes(p[j], s[i])) => Descends(s \o p)
<1> DEFINE r == s \o p
           m == Len(s)
           n == Len(p)
<1>1. /\ \A i \in DOMAIN s : i \in DOMAIN r /\ r[i] = s[i]
      /\ \A i \in DOMAIN p : m + i \in DOMAIN r /\ r[m + i] = p[i]
      /\ \A i \in DOMAIN r : i \in DOMAIN s \/ i - m \in DOMAIN p
      /\ DOMAIN r = 1 .. m + n /\ m \in Nat /\ n \in Nat
      /\ DOMAIN s = 1 .. m /\ DOMAIN p = 1 .. n
  BY PagesInARow
<1> HIDE DEF r, m, n
<1>2. \A i \in DOMAIN r : i \notin DOMAIN s => r[i] = p[i - m] /\ i > m
  <2> SUFFICES ASSUME NEW i \in DOMAIN r, i \notin DOMAIN s PROVE r[i] = p[i - m] /\ i > m
    OBVIOUS
  <2>1. i - m \in DOMAIN p /\ i = m + (i - m) /\ i > m
    BY <1>1
  <2> QED BY <1>1, <2>1
<1>3. ASSUME NEW i \in DOMAIN r, NEW j \in DOMAIN r, i < j
      PROVE  \/ /\ i \in DOMAIN s /\ j \in DOMAIN s /\ r[i] = s[i] /\ r[j] = s[j]
             \/ /\ i \in DOMAIN s /\ j - m \in DOMAIN p /\ r[i] = s[i] /\ r[j] = p[j - m]
             \/ /\ i - m \in DOMAIN p /\ j - m \in DOMAIN p /\ i - m < j - m
                /\ r[i] = p[i - m] /\ r[j] = p[j - m]
  <2>1. CASE j \in DOMAIN s
    BY <1>1, <1>3, <2>1
  <2>2. CASE j \notin DOMAIN s /\ i \in DOMAIN s
    BY <1>1, <1>2, <2>2
  <2>3. CASE j \notin DOMAIN s /\ i \notin DOMAIN s
    <3>1. i - m \in DOMAIN p /\ j - m \in DOMAIN p /\ r[i] = p[i - m] /\ r[j] = p[j - m]
      BY <1>1, <1>2, <2>3
    <3>2. i - m < j - m
      BY <1>1, <1>3
    <3> QED BY <3>1, <3>2
  <2> QED BY <2>1, <2>2, <2>3
<1>4. ASSUME Ascends(s), Ascends(p), \A i \in DOMAIN s : \A j \in DOMAIN p : Precedes(s[i], p[j])
      PROVE  Ascends(r)
  <2> SUFFICES ASSUME NEW i \in DOMAIN r, NEW j \in DOMAIN r, i < j PROVE Precedes(r[i], r[j])
    BY DEF Ascends
  <2> QED BY <1>3, <1>4 DEF Ascends
<1>5. ASSUME Descends(s), Descends(p), \A i \in DOMAIN s : \A j \in DOMAIN p : Precedes(p[j], s[i])
      PROVE  Descends(r)
  <2> SUFFICES ASSUME NEW i \in DOMAIN r, NEW j \in DOMAIN r, i < j PROVE Precedes(r[j], r[i])
    BY DEF Descends
  <2> QED BY <1>3, <1>5 DEF Descends
<1> QED BY <1>4, <1>5 DEF r

-----------------------------------------------------------------------------
(* A page is asked for, takes the time and reads its files.                  *)
LEMMA CursorsStay ==
  ASSUME PagesInv, UNCHANGED <<now, journal, cursorVars>>, Written' = Written, late \subseteq late'
  PROVE  PollInv' /\ WalkInv' /\ EventsInSomePage'
<1>1. UNCHANGED <<Hold, journal, poll, walk, start, got, back, seen, cut>>
  BY DEF Hold, cursorVars
<1>2. PollInv'
  BY <1>1, Zenon DEF PagesInv, PollInv
<1>3. WalkInv'
  BY <1>1, Zenon DEF PagesInv, WalkInv
<1> QED BY <1>1, <1>2, <1>3, Zenon DEF PagesInv, EventsInSomePage

LEMMA AskBegins ==
  ASSUME PagesInv, NEW for \in {"poll", "newest", "older"}, Ask(for)
  PROVE  PagesInv'
<1>1. LinesOf(file') = Written /\ Written' = Written /\ file' \in Contents /\ buffer' \in Contents
  BY AskFlushes DEF PagesInv
<1>2. UNCHANGED <<now, flight, late, journal, cursorVars>>
  BY DEF Ask
<1>3. PollInv' /\ WalkInv' /\ EventsInSomePage'
  BY <1>1, <1>2, CursorsStay
<1>4. page' = [for |-> for, clocked |-> FALSE, hold |-> 0, unread |-> Files, lines |-> {}]
  BY DEF Ask, NoPage
<1>5. PagesTypes'
  BY <1>1, <1>2, <1>4 DEF PagesInv, PagesTypes, cursorVars
<1>6. PageInv'
  <2>1. UNCHANGED <<walk, poll, back>>
    BY <1>2 DEF cursorVars
  <2>2. /\ page'.for = for /\ page'.clocked = FALSE /\ page'.lines = {} /\ page'.unread = Files
    BY <1>4
  <2> QED BY <1>1, <2>1, <2>2 DEF Ask, PageInv, Bounded
<1> QED BY <1>3, <1>5, <1>6 DEF PagesInv

LEMMA ClockIsRead ==
  ASSUME PagesInv, ReadClock
  PROVE  PagesInv'
<1>1. /\ UNCHANGED <<now, flight, buffer, file, journal, cursorVars>> /\ late \subseteq late'
      /\ Written' = Written /\ Hold' = Hold
  BY WrittenIsJoined DEF ReadClock, Hold
<1>2. PollInv' /\ WalkInv' /\ EventsInSomePage'
  BY <1>1, CursorsStay
<1>3. Hold \in Int
  BY PagesAssumption DEF PagesInv, PagesTypes, Hold
<1>4. /\ page.for # "none" /\ ~page.clocked /\ page'.for = page.for /\ page'.clocked = TRUE
      /\ page'.hold = Hold /\ page'.unread = page.unread /\ page'.lines = page.lines
      /\ page' \in [for : {"none", "poll", "newest", "older"}, clocked : BOOLEAN, hold : Int,
                    unread : SUBSET Files, lines : SUBSET Lines]
  BY <1>3 DEF PagesInv, PagesTypes, ReadClock
<1>5. PagesTypes'
  BY <1>1, <1>4 DEF PagesInv, PagesTypes, cursorVars
<1>6. PageInv'
  <2>1. UNCHANGED <<walk, poll, back>>
    BY <1>1 DEF cursorVars
  <2>2. page'.lines = {} /\ page'.unread = Files
    BY <1>4 DEF PagesInv, PageInv
  <2>3. Written \subseteq Lines
    BY WhatIsWritten DEF PagesInv
  <2>4. ASSUME NEW l \in Written \ late', l.at <= Top' PROVE l \in LinesOf(file')
    <3>1. CASE page.for = "older"
      <4>1. Bounded /\ Top' = Top /\ late' = late
        BY <1>4, <2>1, <3>1 DEF Bounded, Top, ReadClock
      <4> QED BY <1>1, <2>4, <4>1 DEF PagesInv, PageInv
    <3>2. CASE page.for # "older"
      <4>1. Top' = Hold /\ l.at <= Hold
        BY <1>4, <2>4, <3>2 DEF Top
      <4>2. late' = late \cup {k \in Written \ LinesOf(file) : k.at <= Hold}
        BY <3>2 DEF ReadClock, Written
      <4> QED BY <1>1, <2>4, <4>1, <4>2
    <3> QED BY <3>1, <3>2
  <2>5. page'.hold <= Hold'
    BY <1>1, <1>3, <1>4
  <2>6. \A l \in Written' \ late' : ~(l.file \notin page'.unread)
    BY <1>1, <2>2, <2>3 DEF Lines
  <2>7. /\ page'.for = "newest" => poll' = NoCursor /\ back' = <<>> /\ ~walk'.on
        /\ page'.for = "older" => walk'.on
    BY <1>4, <2>1 DEF PagesInv, PageInv
  <2> QED BY <1>1, <1>4, <2>2, <2>4, <2>5, <2>6, <2>7 DEF PageInv
<1> QED BY <1>2, <1>5, <1>6 DEF PagesInv

LEMMA FileIsRead ==
  ASSUME PagesInv, NEW x \in Files, ReadFile(x)
  PROVE  PagesInv'
<1>1. /\ UNCHANGED <<now, flight, buffer, file, late, journal, cursorVars>>
      /\ Written' = Written /\ Hold' = Hold
  BY WrittenIsJoined DEF ReadFile, Hold
<1>2. PollInv' /\ WalkInv' /\ EventsInSomePage'
  BY <1>1, CursorsStay
<1>3. LinesOf(file) \subseteq Written /\ Written \subseteq Lines
  BY WhatIsWritten DEF PagesInv
<1> DEFINE taken == {l \in LinesOf(file) : l.file = x /\ Takes(l)}
<1>4. /\ page.clocked /\ page'.for = page.for /\ page'.clocked = page.clocked /\ page'.hold = page.hold
      /\ page'.unread = page.unread \ {x} /\ page'.lines = page.lines \cup taken
      /\ page' \in [for : {"none", "poll", "newest", "older"}, clocked : BOOLEAN, hold : Int,
                    unread : SUBSET Files, lines : SUBSET Lines]
  BY <1>3 DEF PagesInv, PagesTypes, ReadFile
<1>5. PagesTypes'
  BY <1>1, <1>4 DEF PagesInv, PagesTypes, cursorVars
<1>6. PageInv'
  <2>1. UNCHANGED <<walk, poll, back>>
    BY <1>1 DEF cursorVars
  <2>2. Bounded' = Bounded /\ Top' = Top /\ \A l : Takes(l)' = Takes(l)
    BY <1>4, <2>1 DEF Bounded, Top, Takes, Ahead, Behind
  <2>3. \A l \in page'.lines : l \in Written' /\ Takes(l)'
    BY <1>1, <1>3, <1>4, <2>2 DEF PagesInv, PageInv
  <2>4. ASSUME NEW l \in Written' \ late', l.file \notin page'.unread, Takes(l) PROVE l \in page'.lines
    <3>1. CASE l.file # x
      BY <1>1, <1>4, <2>4, <3>1 DEF PagesInv, PageInv
    <3>2. CASE l.file = x
      <4>1. l.at <= Top /\ Bounded
        BY <1>1, <1>3, <1>4, <2>4, TakesUpToTheTop DEF PagesInv, PageInv, Bounded
      <4>2. l \in LinesOf(file)
        BY <1>1, <2>4, <4>1 DEF PagesInv, PageInv
      <4> QED BY <1>4, <2>4, <3>2, <4>2
    <3> QED BY <3>1, <3>2
  <2>5. /\ page'.for = "newest" => poll' = NoCursor /\ back' = <<>> /\ ~walk'.on
        /\ page'.for = "older" => walk'.on
        /\ page'.clocked => page'.for # "none" /\ page'.hold <= Hold'
        /\ page'.clocked
    BY <1>1, <1>4, <2>1 DEF PagesInv, PageInv
  <2>6. Bounded' => \A l \in Written' \ late' : l.at <= Top' => l \in LinesOf(file')
    BY <1>1, <2>2 DEF PagesInv, PageInv
  <2> QED BY <2>2, <2>3, <2>4, <2>5, <2>6 DEF PageInv
<1> QED BY <1>2, <1>5, <1>6 DEF PagesInv

-----------------------------------------------------------------------------
(* An answer. The events it shows are its window, but for those past the     *)
(* limit.                                                                    *)
LEMMA ShowsItsWindow ==
  ASSUME NEW since, NEW until, Shows(since, until)
  PROVE  seen' \cup cut' = seen \cup cut \cup InWindow(since, until)
BY DEF Shows, LastOf

LEMMA EventsHaveATime ==
  ASSUME PagesTypes, NEW i \in DOMAIN journal
  PROVE  journal[i].at \in Nat
<1>1. journal \in Seq([at : Nat, late : BOOLEAN])
  BY DEF PagesTypes
<1>2. i \in 1 .. Len(journal)
  BY <1>1
<1>3. journal[i] \in [at : Nat, late : BOOLEAN]
  BY <1>1, <1>2, ElementOfSeq
<1> QED BY <1>3

LEMMA AnswerHas ==
  ASSUME PagesInv, NEW for \in {"poll", "newest", "older"}, Answers(for)
  PROVE  /\ page.for = for /\ page.hold \in Int /\ page.hold <= Hold /\ Hold \in Int
         /\ page.lines \subseteq Cursors /\ page.lines \subseteq Written /\ IsFiniteSet(page.lines)
         /\ \A l \in page.lines : Takes(l)
         /\ \A l \in Written \ late : Takes(l) => l \in page.lines
         /\ UNCHANGED <<now, flight, buffer, file, late, journal, Written, Hold>>
         /\ file' \in Contents /\ buffer' \in Contents
         /\ page' \in [for : {"none", "poll", "newest", "older"}, clocked : BOOLEAN, hold : Int,
                       unread : SUBSET Files, lines : SUBSET Lines]
         /\ PageInv'
<1>1. /\ page.for = for /\ page.clocked /\ page.unread = {} /\ page' = NoPage
      /\ UNCHANGED <<now, flight, buffer, file, late, journal, Written, Hold>>
  BY WrittenIsJoined DEF Answers, Hold
<1>2. Written \subseteq Cursors /\ IsFiniteSet(Written)
  BY WhatIsWritten DEF PagesInv, PagesTypes
<1>3. page.lines \subseteq Written
  BY DEF PagesInv, PageInv
<1>4. IsFiniteSet(page.lines) /\ page.lines \subseteq Cursors
  BY <1>2, <1>3, FS_Subset
<1>5. page.hold \in Int /\ page.hold <= Hold /\ Hold \in Int
  BY <1>1, PagesAssumption DEF PagesInv, PagesTypes, PageInv, Hold
<1>6. /\ \A l \in page.lines : Takes(l)
      /\ \A l \in Written \ late : Takes(l) => l \in page.lines
  BY <1>1 DEF PagesInv, PageInv
<1>7. PageInv'
  BY <1>1 DEF PageInv, NoPage, Bounded
<1>8. /\ page' \in [for : {"none", "poll", "newest", "older"}, clocked : BOOLEAN, hold : Int,
                    unread : SUBSET Files, lines : SUBSET Lines]
  BY <1>1 DEF NoPage
<1>9. file' \in Contents /\ buffer' \in Contents
  BY <1>1 DEF PagesInv, PagesTypes
<1> QED BY <1>1, <1>3, <1>4, <1>5, <1>6, <1>7, <1>8, <1>9

LEMMA PollGoesOn ==
  ASSUME PagesInv, Poll
  PROVE  PagesInv'
<1> DEFINE S == page.lines
<1>1. /\ page.for = "poll" /\ page.hold \in Int /\ page.hold <= Hold /\ Hold \in Int
      /\ S \subseteq Cursors /\ S \subseteq Written /\ IsFiniteSet(S)
      /\ \A l \in S : Takes(l)
      /\ \A l \in Written \ late : Takes(l) => l \in S
      /\ UNCHANGED <<now, flight, buffer, file, late, journal, Written, Hold>>
      /\ page' \in [for : {"none", "poll", "newest", "older"}, clocked : BOOLEAN, hold : Int,
                    unread : SUBSET Files, lines : SUBSET Lines]
      /\ PageInv' /\ UNCHANGED <<walk, start, back>>
  BY AnswerHas DEF Poll
<1>2. PICK k \in Sizes(S) :
        /\ got' = got \o Forwards(S, k)
        /\ poll' = IF k > 0 THEN Forwards(S, k)[k] ELSE poll
        /\ Shows(poll.at, IF Full(S, k) THEN Forwards(S, k)[k].at ELSE page.hold)
  BY DEF Poll
<1> DEFINE given == Forwards(S, k)
<1>3. /\ poll \in Cursors /\ start \in Cursors /\ got \in Seq(Cursors)
      /\ Written \subseteq Cursors /\ PagesTypes
  BY WhatIsWritten DEF PagesInv, PagesTypes
<1>4. /\ \A l \in S : Precedes(poll, l) /\ l.at <= page.hold
      /\ \A l \in Written \ late : Precedes(poll, l) /\ l.at <= page.hold => l \in S
  BY <1>1 DEF Takes, Ahead
<1>6. /\ k \in 0 .. Cardinality(S) /\ (k = 0 => S = {}) /\ (~Full(S, k) => k = Cardinality(S)) /\ k \in Nat
      /\ Full(S, k) => k > 0
  BY <1>1, <1>2, PagesHaveALine
<1>7. /\ given \in Seq(Cursors) /\ Len(given) = k /\ \A i \in 1 .. k : given[i] \in S
      /\ \A i, j \in 1 .. k : i < j => Precedes(given[i], given[j])
      /\ \A l \in S : (\E i \in 1 .. k : given[i] = l) \/ (k > 0 => Precedes(given[k], l))
      /\ k = Cardinality(S) => \A l \in S : \E i \in 1 .. k : given[i] = l
  BY <1>1, <1>6, ForwardsIsAPage
<1> HIDE DEF S, given
<1>8. DOMAIN given = 1 .. k
  BY <1>7
<1>9. k > 0 => poll' = given[k] /\ poll' \in S /\ Precedes(poll, poll') /\ poll'.at <= page.hold
  BY <1>2, <1>4, <1>6, <1>7 DEF given
<1>10. k = 0 => poll' = poll /\ S = {}
  BY <1>2, <1>6
<1>11. got' = got \o given /\ poll' \in Cursors
  BY <1>1, <1>2, <1>3, <1>6, <1>9, <1>10 DEF given
<1>12. PagesTypes'
  BY <1>1, <1>3, <1>7, <1>11, PagesInARow DEF PagesTypes
<1>13. Ascends(got') /\ \A i \in DOMAIN got' : ~Precedes(poll', got'[i])
  <2>1. Ascends(got) /\ Ascends(given)
    BY <1>7, <1>8 DEF Ascends, PagesInv, PollInv
  <2>2. \A i \in DOMAIN got : got[i] \in Cursors /\ ~Precedes(poll, got[i])
    BY <1>3 DEF PagesInv, PollInv
  <2>3. \A j \in DOMAIN given : given[j] \in Cursors /\ Precedes(poll, given[j])
    BY <1>1, <1>4, <1>7, <1>8
  <2>4. \A i \in DOMAIN got : \A j \in DOMAIN given : Precedes(got[i], given[j])
    BY <1>3, <2>2, <2>3, CursorsAreOrdered
  <2>5. Ascends(got')
    BY <1>3, <1>7, <1>11, <2>1, <2>4, StillInOrder
  <2>6. \A i \in DOMAIN got : ~Precedes(poll', got[i])
    BY <1>3, <1>6, <1>9, <1>10, <1>11, <2>2, CursorsAreOrdered
  <2>7. \A j \in DOMAIN given : ~Precedes(poll', given[j])
    BY <1>6, <1>7, <1>8, <1>9, <1>11, <2>3, CursorsAreOrdered
  <2>8. \A i \in DOMAIN got' : (i \in DOMAIN got /\ got'[i] = got[i]) \/ \E j \in DOMAIN given : got'[i] = given[j]
    <3>1. /\ \A i \in DOMAIN got : got'[i] = got[i]
          /\ \A i \in DOMAIN given : got'[Len(got) + i] = given[i]
          /\ \A i \in DOMAIN got' : i \in DOMAIN got \/ i - Len(got) \in DOMAIN given
          /\ DOMAIN got' = 1 .. Len(got) + Len(given) /\ Len(got) \in Nat /\ Len(given) \in Nat
      BY <1>3, <1>7, <1>11, PagesInARow
    <3>2. \A i \in DOMAIN got' : i = Len(got) + (i - Len(got))
      BY <3>1
    <3> QED BY <3>1, <3>2
  <2> QED BY <2>5, <2>6, <2>7, <2>8
<1>14. \A l \in Written' \ late' : Precedes(start', l) /\ ~Precedes(poll', l) => l \in Range(got')
  <2> SUFFICES ASSUME NEW l \in Written \ late, Precedes(start, l), ~Precedes(poll', l)
               PROVE  l \in Range(got')
    BY <1>1
  <2>1. l \in Range(got') <=> l \in Range(got) \/ l \in Range(given)
    BY <1>3, <1>7, <1>11, InRange
  <2>2. CASE ~Precedes(poll, l)
    BY <2>1, <2>2 DEF PagesInv, PollInv
  <2>3. CASE Precedes(poll, l)
    <3>1. k > 0
      BY <1>6, <1>10, <2>3
    <3>2. l.at <= poll'.at
      <4>1. l = poll' \/ Precedes(l, poll')
        BY <1>3, <1>11, CursorsAreOrdered
      <4> QED BY <1>3, <1>11, <4>1, CursorsAreOrdered DEF Cursors
    <3>3. l \in S
      <4>1. l.at <= page.hold
        BY <1>1, <1>3, <1>9, <1>11, <3>1, <3>2, SMTT(30) DEF Cursors
      <4> QED BY <1>4, <2>3, <4>1
    <3>4. \E i \in 1 .. k : given[i] = l
      BY <1>7, <1>9, <3>1, <3>3
    <3> QED BY <1>8, <2>1, <3>4 DEF Range
  <2> QED BY <2>2, <2>3
<1>15. PollInv'
  <2>1. poll' = NoCursor \/ poll'.at <= Hold'
    <3>1. CASE k > 0
      <4>1. poll'.at \in Nat
        BY <1>11 DEF Cursors
      <4> QED BY <1>1, <1>9, <3>1, <4>1
    <3>2. CASE k = 0
      BY <1>1, <1>10, <3>2 DEF PagesInv, PollInv
    <3> QED BY <1>6, <3>1, <3>2
  <2>2. poll' = NoCursor => got' = <<>>
    <3> SUFFICES ASSUME poll' = NoCursor PROVE got' = <<>>
      OBVIOUS
    <3>1. ~Precedes(poll, NoCursor)
      BY <1>3 DEF Precedes, NoCursor, Cursors
    <3>2. k = 0
      BY <1>6, <1>9, <3>1
    <3>3. given = <<>> /\ got = <<>>
      BY <1>7, <1>10, <3>2, EmptySeq DEF PagesInv, PollInv
    <3> QED BY <1>11, <3>3, ConcatEmptySeq
  <2> QED BY <1>13, <1>14, <2>1, <2>2 DEF PollInv, Ascends
<1>16. WalkInv'
  <2>1. WalkInv /\ UNCHANGED <<back, start, walk, late, Hold, Written>>
    BY <1>1 DEF PagesInv
  <2> QED BY <2>1 DEF WalkInv
<1>17. EventsInSomePage'
  <2> SUFFICES ASSUME NEW i \in DOMAIN journal, journal[i].at < poll'.at,
                      walk.on => walk.from.at <= journal[i].at, ~journal[i].late
               PROVE  i \in seen' \cup cut'
    BY <1>1 DEF EventsInSomePage
  <2>0. journal[i].at \in Nat /\ poll.at \in Nat /\ poll'.at \in Nat
    BY <1>3, <1>11, EventsHaveATime DEF Cursors
  <2> DEFINE until == IF Full(S, k) THEN given[k].at ELSE page.hold
  <2>1. seen' \cup cut' = seen \cup cut \cup InWindow(poll.at, until)
    BY <1>2, ShowsItsWindow DEF given
  <2>2. CASE journal[i].at < poll.at
    BY <2>1, <2>2 DEF PagesInv, EventsInSomePage
  <2>3. CASE ~(journal[i].at < poll.at)
    <3>1. k > 0
      BY <1>6, <1>10, <2>3
    <3>2. journal[i].at <= until
      BY <1>1, <1>9, <2>0, <3>1
    <3>3. i \in InWindow(poll.at, until)
      BY <2>0, <2>3, <3>2 DEF InWindow
    <3> QED BY <2>1, <3>3
  <2> QED BY <2>2, <2>3
<1> QED BY <1>1, <1>12, <1>15, <1>16, <1>17 DEF PagesInv

LEMMA NewestPageBegins ==
  ASSUME PagesInv, NewestPage
  PROVE  PagesInv'
<1> DEFINE S == page.lines
<1>1. /\ page.for = "newest" /\ page.hold \in Int /\ page.hold <= Hold /\ Hold \in Int
      /\ S \subseteq Cursors /\ S \subseteq Written /\ IsFiniteSet(S)
      /\ \A l \in S : Takes(l)
      /\ \A l \in Written \ late : Takes(l) => l \in S
      /\ UNCHANGED <<now, flight, buffer, file, late, journal, Written, Hold>>
      /\ page' \in [for : {"none", "poll", "newest", "older"}, clocked : BOOLEAN, hold : Int,
                    unread : SUBSET Files, lines : SUBSET Lines]
      /\ PageInv' /\ got' = got
  BY AnswerHas DEF NewestPage
<1>2. PICK k \in Sizes(S) :
        /\ back' = Backwards(S, k)
        /\ walk' = IF k = 0 THEN walk ELSE [on |-> Full(S, k), from |-> Backwards(S, k)[k]]
        /\ start' = IF k = 0 THEN start ELSE Backwards(S, k)[1]
        /\ poll' = IF k = 0 THEN poll ELSE Backwards(S, k)[1]
        /\ Shows(IF Full(S, k) THEN Backwards(S, k)[k].at ELSE 0, page.hold)
  BY DEF NewestPage
<1> DEFINE given == Backwards(S, k)
<1>3. /\ got \in Seq(Cursors) /\ got = <<>> /\ poll = NoCursor /\ back = <<>> /\ ~walk.on
      /\ Written \subseteq Lines /\ Written \subseteq Cursors /\ PagesTypes
  BY <1>1, WhatIsWritten DEF PagesInv, PagesTypes, PollInv, PageInv
<1>4. /\ \A l \in S : l.at <= page.hold
      /\ \A l \in Written \ late : l.at <= page.hold => l \in S
  BY <1>1 DEF Takes, Behind
<1>6. /\ k \in 0 .. Cardinality(S) /\ (~Full(S, k) => k = Cardinality(S)) /\ k \in Nat
      /\ Full(S, k) => k > 0
  BY <1>1, <1>2, PagesHaveALine
<1>7. /\ given \in Seq(Cursors) /\ Len(given) = k /\ \A i \in 1 .. k : given[i] \in S
      /\ \A i, j \in 1 .. k : i < j => Precedes(given[j], given[i])
      /\ \A l \in S : (\E i \in 1 .. k : given[i] = l) \/ (k > 0 => Precedes(l, given[k]))
      /\ k = Cardinality(S) => \A l \in S : \E i \in 1 .. k : given[i] = l
  BY <1>1, <1>6, BackwardsIsAPage
<1>8. /\ back' = given
      /\ k > 0 => /\ walk' = [on |-> Full(S, k), from |-> given[k]]
                  /\ start' = given[1] /\ poll' = given[1]
      /\ k = 0 => UNCHANGED <<walk, start, poll>>
  BY <1>2, <1>6
<1>9. DOMAIN given = 1 .. k
  BY <1>7
<1>10. Full(S, k) \in BOOLEAN
  BY DEF Full
<1>0. seen' \cup cut' = seen \cup cut \cup InWindow(IF Full(S, k) THEN given[k].at ELSE 0, page.hold)
  BY <1>2, ShowsItsWindow
<1> HIDE DEF S, given
<1>11. CASE k = 0
  <2>1. back' = back
    BY <1>3, <1>7, <1>8, <1>11, EmptySeq
  <2>2. UNCHANGED <<poll, walk, start, got, back, late, Hold, Written>>
    BY <1>1, <1>8, <1>11, <2>1
  <2>3. PagesTypes'
    BY <1>1, <1>3, <2>2 DEF PagesTypes
  <2>4. PollInv' /\ WalkInv'
    BY <2>2 DEF PagesInv, PollInv, WalkInv
  <2>5. EventsInSomePage'
    BY <1>0, <1>1, <2>2 DEF PagesInv, EventsInSomePage
  <2> QED BY <1>1, <2>3, <2>4, <2>5 DEF PagesInv
<1>12. CASE k > 0
  <2>1. /\ 1 \in 1 .. k /\ k \in 1 .. k
        /\ walk'.on <=> Full(S, k)
        /\ walk'.from = given[k] /\ start' = given[1] /\ poll' = given[1]
    BY <1>6, <1>8, <1>10, <1>12
  <2>2. /\ start' \in Cursors /\ start' \in S /\ start'.at <= page.hold
        /\ given[k] \in Cursors /\ given[k] \in S /\ given[k].at <= page.hold
    BY <1>1, <1>4, <1>7, <2>1
  <2>3. start'.at \in Nat \ {0} /\ given[k].at \in Nat \ {0} /\ start'.at <= Hold /\ given[k].at <= Hold
    <3>1. start'.at \in Nat \ {0} /\ given[k].at \in Nat \ {0}
      BY <1>1, <1>3, <2>2 DEF Lines
    <3> QED BY <1>1, <2>2, <3>1
  <2>4. PagesTypes'
    <3>1. walk' \in [on : BOOLEAN, from : Cursors]
      BY <1>8, <1>10, <1>12, <2>2
    <3> QED BY <1>1, <1>3, <1>7, <1>8, <2>1, <2>2, <3>1 DEF PagesTypes
  <2>5. PollInv'
    <3>1. \A l \in Written' \ late' : ~(Precedes(start', l) /\ ~Precedes(poll', l))
      BY <2>1
    <3>2. DOMAIN got' = {}
      BY <1>1, <1>3
    <3> QED BY <1>1, <1>3, <2>1, <2>3, <3>1, <3>2 DEF PollInv
  <2>6. \A l \in Written \ late : ~Precedes(start', l) => l \in S
    <3> SUFFICES ASSUME NEW l \in Written \ late, ~Precedes(start', l) PROVE l.at <= page.hold
      BY <1>4
    <3>1. l = start' \/ Precedes(l, start')
      BY <1>3, <2>2, CursorsAreOrdered
    <3>2. l.at <= start'.at
      BY <1>3, <2>2, <3>1, CursorsAreOrdered DEF Cursors
    <3> QED BY <1>1, <1>3, <2>2, <2>3, <3>2 DEF Cursors
  <2>7. WalkInv'
    <3>1. walk'.on => back' # <<>> /\ walk'.from # NoCursor /\ walk'.from.at <= Hold'
      <4>1. given # <<>>
        BY <1>7, <1>12
      <4> QED BY <1>1, <1>8, <2>1, <2>3, <4>1 DEF NoCursor
    <3>2. \A i \in DOMAIN back' : ~Precedes(back'[i], walk'.from)
      <4> SUFFICES ASSUME NEW i \in 1 .. k PROVE ~Precedes(given[i], given[k])
        BY <1>8, <1>9, <2>1
      <4>1. given[i] \in Cursors /\ (i < k => Precedes(given[k], given[i])) /\ (i < k \/ i = k)
        BY <1>1, <1>6, <1>7, <2>1
      <4> QED BY <2>2, <4>1, CursorsAreOrdered
    <3>3. \A i, j \in DOMAIN back' : i < j => Precedes(back'[j], back'[i])
      BY <1>7, <1>8, <1>9
    <3>4. ASSUME NEW l \in Written' \ late', ~Precedes(start', l), walk'.on => ~Precedes(l, walk'.from)
          PROVE  l \in Range(back')
      <4>1. l \in S
        BY <1>1, <2>6, <3>4
      <4>2. \E i \in 1 .. k : given[i] = l
        BY <1>6, <1>7, <1>12, <2>1, <3>4, <4>1
      <4> QED BY <1>8, <1>9, <4>2 DEF Range
    <3>5. start'.at <= Hold'
      BY <1>1, <2>3
    <3> QED BY <3>1, <3>2, <3>3, <3>4, <3>5 DEF WalkInv
  <2>8. EventsInSomePage'
    <3> SUFFICES ASSUME NEW i \in DOMAIN journal, journal[i].at < poll'.at,
                        walk'.on => walk'.from.at <= journal[i].at
                 PROVE  i \in seen' \cup cut'
      BY <1>1 DEF EventsInSomePage
    <3>1. journal[i].at \in Nat /\ journal[i].at <= page.hold
      <4>1. journal[i].at \in Nat
        BY <1>3, EventsHaveATime
      <4> QED BY <1>1, <2>1, <2>2, <2>3, <4>1
    <3>2. (IF Full(S, k) THEN given[k].at ELSE 0) <= journal[i].at
      BY <2>1, <3>1
    <3>3. i \in InWindow(IF Full(S, k) THEN given[k].at ELSE 0, page.hold)
      BY <3>1, <3>2 DEF InWindow
    <3> QED BY <1>0, <3>3
  <2> QED BY <1>1, <2>4, <2>5, <2>7, <2>8 DEF PagesInv
<1> QED BY <1>6, <1>11, <1>12

LEMMA OlderPageGoesBack ==
  ASSUME PagesInv, OlderPage
  PROVE  PagesInv'
<1> DEFINE S == page.lines
<1>1. /\ page.for = "older" /\ Hold \in Int
      /\ S \subseteq Cursors /\ S \subseteq Written /\ IsFiniteSet(S)
      /\ \A l \in S : Takes(l)
      /\ \A l \in Written \ late : Takes(l) => l \in S
      /\ UNCHANGED <<now, flight, buffer, file, late, journal, Written, Hold>>
      /\ page' \in [for : {"none", "poll", "newest", "older"}, clocked : BOOLEAN, hold : Int,
                    unread : SUBSET Files, lines : SUBSET Lines]
      /\ PageInv' /\ UNCHANGED <<poll, start, got>>
  BY AnswerHas DEF OlderPage
<1>2. PICK k \in Sizes(S) :
        /\ back' = back \o Backwards(S, k)
        /\ walk' = IF k = 0 THEN [walk EXCEPT !.on = FALSE]
                   ELSE [on |-> Full(S, k), from |-> Backwards(S, k)[k]]
        /\ Shows(IF Full(S, k) THEN Backwards(S, k)[k].at ELSE 0, walk.from.at)
  BY DEF OlderPage
<1> DEFINE given == Backwards(S, k)
<1>3. /\ back \in Seq(Cursors) /\ walk \in [on : BOOLEAN, from : Cursors] /\ walk.from \in Cursors
      /\ walk.on /\ walk.from # NoCursor /\ back # <<>> /\ start.at <= Hold /\ walk.from.at <= Hold
      /\ Written \subseteq Lines /\ Written \subseteq Cursors /\ PagesTypes
  BY <1>1, WhatIsWritten DEF PagesInv, PagesTypes, WalkInv, PageInv
<1>4. /\ \A l \in S : Precedes(l, walk.from)
      /\ \A l \in Written \ late : Precedes(l, walk.from) => l \in S
  BY <1>1 DEF Takes, Behind
<1>6. /\ k \in 0 .. Cardinality(S) /\ (k = 0 => S = {}) /\ (~Full(S, k) => k = Cardinality(S)) /\ k \in Nat
      /\ Full(S, k) => k > 0
  BY <1>1, <1>2, PagesHaveALine
<1>7. /\ given \in Seq(Cursors) /\ Len(given) = k /\ \A i \in 1 .. k : given[i] \in S
      /\ \A i, j \in 1 .. k : i < j => Precedes(given[j], given[i])
      /\ \A l \in S : (\E i \in 1 .. k : given[i] = l) \/ (k > 0 => Precedes(l, given[k]))
      /\ k = Cardinality(S) => \A l \in S : \E i \in 1 .. k : given[i] = l
  BY <1>1, <1>6, BackwardsIsAPage
<1>8. /\ back' = back \o given
      /\ walk' = IF k = 0 THEN [walk EXCEPT !.on = FALSE] ELSE [on |-> Full(S, k), from |-> given[k]]
  BY <1>2
<1>0. seen' \cup cut' = seen \cup cut \cup InWindow(IF Full(S, k) THEN given[k].at ELSE 0, walk.from.at)
  BY <1>2, ShowsItsWindow
<1> HIDE DEF S, given
<1>9. DOMAIN given = 1 .. k
  BY <1>7
<1>10. Full(S, k) \in BOOLEAN
  BY DEF Full
<1>11. k > 0 => given[k] \in S /\ given[k] \in Cursors /\ Precedes(given[k], walk.from)
  BY <1>1, <1>4, <1>6, <1>7
<1>12. /\ walk' \in [on : BOOLEAN, from : Cursors]
       /\ k = 0 => ~walk'.on /\ S = {}
       /\ k > 0 => walk'.from = given[k] /\ (walk'.on <=> Full(S, k))
  <2>1. CASE k = 0
    <3>1. walk' = [walk EXCEPT !.on = FALSE]
      BY <1>8, <2>1
    <3>2. walk' \in [on : BOOLEAN, from : Cursors] /\ ~walk'.on
      BY <1>3, <3>1
    <3> QED BY <1>6, <2>1, <3>2
  <2>2. CASE k > 0
    <3>1. walk' = [on |-> Full(S, k), from |-> given[k]]
      BY <1>8, <2>2
    <3> QED BY <1>10, <1>11, <2>2, <3>1
  <2> QED BY <1>6, <2>1, <2>2
<1>13. /\ back' \in Seq(Cursors) /\ DOMAIN back \subseteq DOMAIN back' /\ DOMAIN back # {}
  <2>1. /\ back' \in Seq(Cursors)
        /\ DOMAIN back = 1 .. Len(back) /\ Len(back) \in Nat
        /\ \A i \in DOMAIN back : i \in DOMAIN back'
    BY <1>3, <1>7, <1>8, PagesInARow
  <2>2. Len(back) > 0
    BY <1>3, <2>1
  <2>3. 1 \in DOMAIN back
    BY <2>1, <2>2
  <2> QED BY <2>1, <2>3
<1>14. PagesTypes'
  BY <1>1, <1>3, <1>12, <1>13 DEF PagesTypes
<1>15. PollInv'
  <2>1. PollInv /\ UNCHANGED <<poll, got, start, late, Hold, Written>>
    BY <1>1, <1>3 DEF PagesInv
  <2> QED BY <2>1 DEF PollInv
<1>16. Descends(back') /\ (walk'.on => \A i \in DOMAIN back' : ~Precedes(back'[i], walk'.from))
  <2>1. Descends(back) /\ Descends(given)
    BY <1>7, <1>9 DEF Descends, PagesInv, WalkInv
  <2>2. \A i \in DOMAIN back : back[i] \in Cursors /\ ~Precedes(back[i], walk.from)
    BY <1>1, <1>3 DEF PagesInv, WalkInv
  <2>3. \A j \in DOMAIN given : given[j] \in Cursors /\ Precedes(given[j], walk.from)
    BY <1>1, <1>4, <1>7, <1>9
  <2>4. \A i \in DOMAIN back : \A j \in DOMAIN given : Precedes(given[j], back[i])
    BY <1>3, <2>2, <2>3, CursorsAreOrdered
  <2>5. Descends(back')
    BY <1>3, <1>7, <1>8, <2>1, <2>4, StillInOrder
  <2>6. k > 0 => \A i \in DOMAIN back : ~Precedes(back[i], given[k])
    BY <1>11, <2>2, <1>3, CursorsAreOrdered
  <2>7. k > 0 => \A j \in DOMAIN given : ~Precedes(given[j], given[k])
    <3> SUFFICES ASSUME k > 0, NEW j \in 1 .. k PROVE ~Precedes(given[j], given[k])
      BY <1>9
    <3>1. given[j] \in Cursors /\ (j < k => Precedes(given[k], given[j])) /\ (j < k \/ j = k)
      BY <1>1, <1>6, <1>7
    <3> QED BY <1>11, <3>1, CursorsAreOrdered
  <2>8. \A i \in DOMAIN back' : \/ i \in DOMAIN back /\ back'[i] = back[i]
                                \/ \E j \in DOMAIN given : back'[i] = given[j]
    <3>1. /\ \A i \in DOMAIN back : back'[i] = back[i]
          /\ \A i \in DOMAIN given : back'[Len(back) + i] = given[i]
          /\ \A i \in DOMAIN back' : i \in DOMAIN back \/ i - Len(back) \in DOMAIN given
          /\ DOMAIN back' = 1 .. Len(back) + Len(given) /\ Len(back) \in Nat /\ Len(given) \in Nat
      BY <1>3, <1>7, <1>8, PagesInARow
    <3>2. \A i \in DOMAIN back' : i = Len(back) + (i - Len(back))
      BY <3>1
    <3> QED BY <3>1, <3>2
  <2> QED BY <1>6, <1>12, <2>5, <2>6, <2>7, <2>8
<1>17. ASSUME NEW l \in Written \ late, ~Precedes(start, l), walk'.on => ~Precedes(l, walk'.from)
       PROVE  l \in Range(back')
  <2>1. l \in Range(back') <=> l \in Range(back) \/ l \in Range(given)
    BY <1>3, <1>7, <1>8, InRange
  <2>2. CASE ~Precedes(l, walk.from)
    BY <1>3, <1>17, <2>1, <2>2 DEF PagesInv, WalkInv
  <2>3. CASE Precedes(l, walk.from)
    <3>1. l \in S /\ k > 0
      BY <1>4, <1>6, <1>12, <2>3
    <3>2. \E i \in 1 .. k : given[i] = l
      BY <1>6, <1>7, <1>12, <1>17, <3>1
    <3> QED BY <1>9, <2>1, <3>2 DEF Range
  <2> QED BY <2>2, <2>3
<1>18. WalkInv'
  <2>1. back' # <<>>
    BY <1>13
  <2>2. walk'.on => walk'.from # NoCursor /\ walk'.from.at <= Hold'
    <3>1. k > 0 => given[k].at \in Nat \ {0}
      BY <1>1, <1>3, <1>11 DEF Lines
    <3>2. k > 0 => given[k].at <= walk.from.at
      BY <1>3, <1>11, CursorsAreOrdered
    <3>3. k > 0 => given[k].at <= Hold
      BY <1>1, <1>3, <3>1, <3>2 DEF Cursors
    <3> QED BY <1>1, <1>6, <1>12, <3>1, <3>3 DEF NoCursor
  <2>3. start'.at <= Hold'
    BY <1>1, <1>3
  <2>4. \A l \in Written' \ late' :
          ~Precedes(start', l) /\ (walk'.on => ~Precedes(l, walk'.from)) => l \in Range(back')
    BY <1>1, <1>17
  <2> QED BY <1>16, <2>1, <2>2, <2>3, <2>4 DEF WalkInv, Descends
<1>19. EventsInSomePage'
  <2> SUFFICES ASSUME NEW i \in DOMAIN journal, journal[i].at < poll.at,
                      walk'.on => walk'.from.at <= journal[i].at, ~journal[i].late
               PROVE  i \in seen' \cup cut'
    BY <1>1 DEF EventsInSomePage
  <2>0. journal[i].at \in Nat /\ walk.from.at \in Nat
    BY <1>3, EventsHaveATime DEF Cursors
  <2>1. CASE walk.from.at <= journal[i].at
    BY <1>0, <2>1 DEF PagesInv, EventsInSomePage
  <2>2. CASE ~(walk.from.at <= journal[i].at)
    <3>1. (IF Full(S, k) THEN given[k].at ELSE 0) <= journal[i].at
      BY <1>6, <1>12, <2>0
    <3>2. i \in InWindow(IF Full(S, k) THEN given[k].at ELSE 0, walk.from.at)
      BY <2>0, <2>2, <3>1 DEF InWindow
    <3> QED BY <1>0, <3>2
  <2> QED BY <2>1, <2>2
<1> QED BY <1>1, <1>14, <1>15, <1>18, <1>19 DEF PagesInv

-----------------------------------------------------------------------------
LEMMA PagesStep == PagesInv /\ [PagesNext]_pagesVars => PagesInv'
<1> SUFFICES ASSUME PagesInv, [PagesNext]_pagesVars PROVE PagesInv'
  OBVIOUS
<1>1. CASE WriterStep
  BY <1>1, WritersGoOn
<1>2. CASE \E for \in {"poll", "newest", "older"} : Ask(for)
  BY <1>2, AskBegins
<1>3. CASE ReadClock
  BY <1>3, ClockIsRead
<1>4. CASE \E x \in Files : ReadFile(x)
  BY <1>4, FileIsRead
<1>5. CASE Poll
  BY <1>5, PollGoesOn
<1>6. CASE NewestPage
  BY <1>6, NewestPageBegins
<1>7. CASE OlderPage
  BY <1>7, OlderPageGoesBack
<1>8. CASE UNCHANGED pagesVars
  <2>1. /\ UNCHANGED <<now, flight, buffer, file, late, journal, page, cursorVars>>
        /\ UNCHANGED <<poll, walk, start, got, back, seen, cut>>
    BY <1>8 DEF pagesVars, cursorVars
  <2>2. Written' = Written /\ Hold' = Hold /\ Bounded' = Bounded /\ Top' = Top
    BY <2>1, WrittenIsJoined DEF Hold, Bounded, Top
  <2>3. \A l : Takes(l)' = Takes(l)
    BY <2>1 DEF Takes, Ahead, Behind
  <2>4. PagesTypes'
    BY <2>1, <2>2 DEF PagesInv, PagesTypes
  <2>5. PollInv' /\ WalkInv' /\ EventsInSomePage'
    BY <2>1, <2>2, CursorsStay
  <2>6. PageInv'
    BY <2>1, <2>2, <2>3 DEF PagesInv, PageInv
  <2> QED BY <2>4, <2>5, <2>6 DEF PagesInv
<1> QED BY <1>1, <1>2, <1>3, <1>4, <1>5, <1>6, <1>7, <1>8 DEF PagesNext, WriterStep

(* However the steps of the pages of a client that polls and walks back meet *)
(* the writers and the clock: no line is given twice or out of order, none   *)
(* that is not `late` is passed over, and each event on time between the     *)
(* walk's last line and the polls' was in a page's window (query.go: take,   *)
(* merge, page).                                                             *)
THEOREM PagesLeaveNothingOut == PagesSpec => []PagesShowAll
<1>1. PagesInv => PagesShowAll
  <2> SUFFICES ASSUME PagesInv PROVE PagesShowAll
    OBVIOUS
  <2>1. OnTime \subseteq Written \ late
    <3>1. file \in Contents /\ buffer \in Contents
      BY DEF PagesInv, PagesTypes
    <3> QED BY <3>1, JoinedIs, WrittenIsJoined DEF OnTime
  <2>2. PollsSkipNothing
    BY <2>1 DEF PagesInv, PollInv, PollsSkipNothing
  <2>3. WalkSkipsNothing
    BY <2>1 DEF PagesInv, WalkInv, WalkSkipsNothing
  <2> QED BY <2>2, <2>3 DEF PagesInv, PagesShowAll
<1> QED BY <1>1, PagesStart, PagesStep, PTL DEF PagesSpec

-----------------------------------------------------------------------------
(***************************************************************************)
(* The watch of the containers. What was said of a container is in what    *)
(* the watch remembers of it (SaidIsRemembered); and what it remembers is  *)
(* what the container does, or an event that will say otherwise is unread  *)
(* (KnownIsReal, which needs that such an event is the container's last    *)
(* word: WordsAreReal).                                                    *)
(***************************************************************************)
WatchMemory == {"here", "last", "killed", "starts", "running", "unhealthy", "fine", "troubled", "looping"}
WatchWords == {"kill", "crash", "exit", "start", "unhealthy", "healthy"}
Resets == {"crash", "exit", "start", "unhealthy"}

IsMemory(mem) ==
  /\ DOMAIN mem = WatchMemory /\ mem.fine \in Nat
  /\ mem.here \in BOOLEAN /\ mem.running \in BOOLEAN /\ mem.unhealthy \in BOOLEAN
  /\ mem.troubled \in BOOLEAN /\ mem.looping \in BOOLEAN

WatchTypes ==
  /\ real \in [Containers -> [up : BOOLEAN, sick : BOOLEAN, fresh : BOOLEAN, well : Nat]]
  /\ DOMAIN known = Containers /\ \A c \in Containers : IsMemory(known[c])
  /\ unread \in Seq([of : Containers, action : WatchWords])
  /\ episode \in [Containers -> SUBSET {"died", "restarting", "unhealthy"}]
  /\ link = "broken" => unread = <<>>

SaidIsRemembered ==
  \A c \in Containers :
    /\ episode[c] # {} => known[c].troubled
    /\ "restarting" \in episode[c] => known[c].looping
    /\ known[c].running => known[c].here

ResetAfter(c, i) == \E j \in DOMAIN unread : j > i /\ unread[j].of = c /\ unread[j].action \in Resets
RunsReally(c) == real[c].up /\ ~real[c].sick

WordsAreReal ==
  \A c \in Containers, i \in DOMAIN unread :
    unread[i].of = c /\ unread[i].action \in {"start", "healthy"} => RunsReally(c) \/ ResetAfter(c, i)

KnownIsReal ==
  link = "listed" =>
    \A c \in Containers :
      known[c].running /\ ~known[c].unhealthy =>
        (RunsReally(c) /\ known[c].fine <= real[c].well) \/ ResetAfter(c, 0)

WatchInv == WatchTypes /\ SaidIsRemembered /\ WordsAreReal /\ KnownIsReal

LEMMA ForgottenIs ==
  IsMemory(Forgotten) /\ ~Forgotten.here /\ ~Forgotten.running /\ ~Forgotten.troubled /\ ~Forgotten.looping
BY DEF Forgotten, IsMemory, WatchMemory

LEMMA WatchStarts == WatchInit => WatchInv
<1> SUFFICES ASSUME WatchInit PROVE WatchInv
  OBVIOUS
<1>1. \A c \in Containers : known[c] = Forgotten
  BY DEF WatchInit
<1>2. real \in [Containers -> [up : BOOLEAN, sick : BOOLEAN, fresh : BOOLEAN, well : Nat]]
  BY WatchAssumption DEF WatchInit
<1>3. WatchTypes
  BY <1>1, <1>2, ForgottenIs DEF WatchInit, WatchTypes
<1>4. SaidIsRemembered
  BY <1>1, ForgottenIs DEF WatchInit, SaidIsRemembered
<1> QED BY <1>3, <1>4 DEF WatchInit, WatchInv, WordsAreReal, KnownIsReal

(* Docker's side: a change of the container is the last word of the stream.  *)
LEMMA WordKeeps ==
  ASSUME WatchInv, NEW c \in Containers, NEW e \in WatchWords, Sends(c, e),
         NEW x \in [up : BOOLEAN, sick : BOOLEAN, fresh : BOOLEAN, well : Nat], real' = [real EXCEPT ![c] = x],
         e \in {"start", "healthy"} => x.up /\ ~x.sick,
         e \notin Resets => (RunsReally(c) => x.up /\ ~x.sick) /\ x.well = real[c].well,
         UNCHANGED <<link, known, episode>>
  PROVE  WatchInv'
<1>1. /\ real \in [Containers -> [up : BOOLEAN, sick : BOOLEAN, fresh : BOOLEAN, well : Nat]]
      /\ unread \in Seq([of : Containers, action : WatchWords])
  BY DEF WatchInv, WatchTypes
<1>2. /\ real' \in [Containers -> [up : BOOLEAN, sick : BOOLEAN, fresh : BOOLEAN, well : Nat]]
      /\ real'[c] = x /\ \A d \in Containers : d # c => real'[d] = real[d]
  BY <1>1
<1>3. SaidIsRemembered'
  BY DEF WatchInv, SaidIsRemembered
<1>4. CASE link = "broken"
  <2>1. unread = <<>> /\ unread' = <<>>
    BY <1>4 DEF WatchInv, WatchTypes, Sends
  <2>2. WatchTypes'
    BY <1>2, <2>1 DEF WatchInv, WatchTypes, IsMemory
  <2> QED BY <1>3, <1>4, <2>1, <2>2 DEF WatchInv, WordsAreReal, KnownIsReal
<1>5. CASE link # "broken"
  <2> DEFINE n == Len(unread)
             v == [of |-> c, action |-> e]
  <2>1. unread' = Append(unread, v) /\ v \in [of : Containers, action : WatchWords] /\ v.of = c /\ v.action = e
    BY <1>5 DEF Sends
  <2> HIDE DEF v
  <2>2. /\ n \in Nat /\ DOMAIN unread = 1 .. n /\ DOMAIN unread' = 1 .. n + 1
        /\ unread' \in Seq([of : Containers, action : WatchWords])
        /\ unread'[n + 1] = v /\ \A i \in 1 .. n : unread'[i] = unread[i]
    <3> DEFINE M == [of : Containers, action : WatchWords]
    <3> HIDE DEF M
    <3>1. unread \in Seq(M) /\ v \in M
      BY <1>1, <2>1 DEF M
    <3>2. /\ n \in Nat /\ DOMAIN unread = 1 .. n /\ DOMAIN unread' = 1 .. n + 1
          /\ unread' \in Seq(M) /\ unread'[n + 1] = v /\ \A i \in 1 .. n : unread'[i] = unread[i]
      BY <2>1, <3>1
    <3> QED BY <3>2 DEF M
  <2> HIDE DEF n
  <2>3. \A d, i : ResetAfter(d, i) => ResetAfter(d, i)'
    BY <2>2 DEF ResetAfter
  <2>4. e \in Resets => \A i \in 0 .. n : ResetAfter(c, i)'
    <3>1. n + 1 \in 1 .. n + 1 /\ \A i \in 0 .. n : n + 1 > i
      BY <2>2
    <3> QED BY <2>1, <2>2, <3>1 DEF ResetAfter
  <2>5. WatchTypes'
    BY <1>2, <1>5, <2>2 DEF WatchInv, WatchTypes, IsMemory
  <2>6. WordsAreReal'
    <3> SUFFICES ASSUME NEW d \in Containers, NEW i \in 1 .. n + 1,
                        unread'[i].of = d, unread'[i].action \in {"start", "healthy"}
                 PROVE  RunsReally(d)' \/ ResetAfter(d, i)'
      BY <2>2 DEF WordsAreReal
    <3>1. CASE i = n + 1
      <4>1. d = c /\ x.up /\ ~x.sick
        BY <2>1, <2>2, <3>1
      <4> QED BY <1>2, <4>1 DEF RunsReally
    <3>2. CASE i # n + 1
      <4>1. i \in 1 .. n /\ unread'[i] = unread[i]
        BY <2>2, <3>2
      <4>2. RunsReally(d) \/ ResetAfter(d, i)
        BY <2>2, <4>1 DEF WatchInv, WordsAreReal
      <4>3. CASE d = c
        <5>1. i \in 0 .. n
          BY <4>1
        <5>2. e \in Resets => ResetAfter(d, i)'
          BY <2>4, <4>3, <5>1
        <5>3. e \notin Resets /\ RunsReally(d) => RunsReally(d)'
          BY <1>2, <4>3 DEF RunsReally
        <5> QED BY <2>3, <4>2, <5>2, <5>3
      <4>4. CASE d # c
        BY <1>2, <2>3, <4>2, <4>4 DEF RunsReally
      <4> QED BY <4>3, <4>4
    <3> QED BY <3>1, <3>2
  <2>7. KnownIsReal'
    BY <1>2, <2>2, <2>3, <2>4 DEF WatchInv, KnownIsReal, RunsReally
  <2> QED BY <1>3, <2>5, <2>6, <2>7 DEF WatchInv
<1> QED BY <1>4, <1>5

LEMMA DockerKeeps ==
  ASSUME WatchInv, NEW c \in Containers,
         Dies(c, "crash") \/ Dies(c, "exit") \/ Starts_(c) \/ Killed(c) \/ Sickens(c) \/ Heals(c)
  PROVE  WatchInv'
<1> DEFINE Real == [up : BOOLEAN, sick : BOOLEAN, fresh : BOOLEAN, well : Nat]
<1>1. real \in [Containers -> Real] /\ real[c] \in Real
  BY DEF WatchInv, WatchTypes
<1>2. ASSUME NEW e \in {"crash", "exit"}, Dies(c, e) PROVE WatchInv'
  <2> DEFINE x == [up |-> FALSE, sick |-> FALSE, fresh |-> FALSE, well |-> 0]
  <2>1. x \in Real /\ real' = [real EXCEPT ![c] = x] /\ Sends(c, e) /\ UNCHANGED <<link, known, episode>>
    BY <1>2 DEF Dies
  <2>2. e \in WatchWords /\ e \in Resets /\ e \notin {"start", "healthy"}
    BY <1>2 DEF WatchWords, Resets
  <2> HIDE DEF x
  <2> QED BY <2>1, <2>2, WordKeeps
<1>3. CASE Starts_(c)
  <2> DEFINE x == [up |-> TRUE, sick |-> FALSE, fresh |-> TRUE, well |-> 0]
  <2>1. /\ x \in Real /\ x.up /\ ~x.sick /\ real' = [real EXCEPT ![c] = x] /\ Sends(c, "start")
        /\ UNCHANGED <<link, known, episode>> /\ "start" \in WatchWords /\ "start" \in Resets
    BY <1>3 DEF Starts_, WatchWords, Resets
  <2> HIDE DEF x
  <2> QED BY <2>1, WordKeeps
<1>4. CASE Killed(c)
  <2>1. real' = [real EXCEPT ![c] = real[c]]
    BY <1>1, <1>4 DEF Killed
  <2>2. /\ Sends(c, "kill") /\ UNCHANGED <<link, known, episode>> /\ "kill" \in WatchWords
        /\ (RunsReally(c) => real[c].up /\ ~real[c].sick)
    BY <1>4 DEF Killed, WatchWords, RunsReally
  <2> QED BY <1>1, <2>1, <2>2, WordKeeps
<1>5. CASE Sickens(c)
  <2> DEFINE x == [real[c] EXCEPT !.sick = TRUE, !.well = 0]
  <2>1. /\ x \in Real /\ real' = [real EXCEPT ![c] = x] /\ Sends(c, "unhealthy")
        /\ UNCHANGED <<link, known, episode>> /\ "unhealthy" \in WatchWords /\ "unhealthy" \in Resets
    BY <1>1, <1>5 DEF Sickens, WatchWords, Resets
  <2> HIDE DEF x
  <2> QED BY <2>1, WordKeeps
<1>6. CASE Heals(c)
  <2> DEFINE x == [real[c] EXCEPT !.sick = FALSE, !.fresh = FALSE]
  <2>1. /\ x \in Real /\ x.up /\ ~x.sick /\ x.well = real[c].well /\ real' = [real EXCEPT ![c] = x]
        /\ Sends(c, "healthy") /\ UNCHANGED <<link, known, episode>> /\ "healthy" \in WatchWords
    BY <1>1, <1>6 DEF Heals, WatchWords
  <2> HIDE DEF x
  <2> QED BY <2>1, WordKeeps
<1> QED BY <1>2, <1>3, <1>4, <1>5, <1>6

LEMMA MinuteKeeps ==
  ASSUME WatchInv, Minute
  PROVE  WatchInv'
<1> DEFINE Real == [up : BOOLEAN, sick : BOOLEAN, fresh : BOOLEAN, well : Nat]
<1>1. unread = <<>> /\ UNCHANGED <<link, unread, episode>>
  BY DEF Minute
<1>2. \A n, m \in Nat : Aged(n, WatchWindow) \in Nat /\ (n <= m => Aged(n, WatchWindow) <= Aged(m, WatchWindow))
  BY WatchAssumption DEF Aged
<1>3. /\ real' \in [Containers -> Real]
      /\ \A c \in Containers : /\ real'[c].up = real[c].up /\ real'[c].sick = real[c].sick
                               /\ RunsReally(c) => real'[c].well = Aged(real[c].well, WatchWindow)
                               /\ real[c].well \in Nat
  <2> SUFFICES ASSUME NEW c \in Containers
               PROVE  LET x == [real[c] EXCEPT !.well = IF real[c].up /\ ~real[c].sick THEN Aged(@, WatchWindow) ELSE 0] IN
                      /\ x \in Real /\ x.up = real[c].up /\ x.sick = real[c].sick
                      /\ RunsReally(c) => x.well = Aged(real[c].well, WatchWindow)
                      /\ real[c].well \in Nat
    BY DEF Minute
  <2>1. real[c] \in Real
    BY DEF WatchInv, WatchTypes
  <2> QED BY <1>2, <2>1 DEF RunsReally
<1>4. /\ DOMAIN known' = Containers
      /\ \A c \in Containers :
           /\ IsMemory(known'[c]) /\ known'[c].here = known[c].here /\ known'[c].running = known[c].running
           /\ known'[c].unhealthy = known[c].unhealthy /\ known'[c].fine = Aged(known[c].fine, WatchWindow)
           /\ known'[c].troubled = known[c].troubled /\ known'[c].looping = known[c].looping
           /\ known[c].fine \in Nat
  <2>1. ASSUME NEW c \in Containers
        PROVE  /\ IsMemory(known'[c]) /\ known'[c].here = known[c].here /\ known'[c].running = known[c].running
               /\ known'[c].unhealthy = known[c].unhealthy /\ known'[c].fine = Aged(known[c].fine, WatchWindow)
               /\ known'[c].troubled = known[c].troubled /\ known'[c].looping = known[c].looping
               /\ known[c].fine \in Nat
    <3> DEFINE st == [i \in DOMAIN known[c].starts |-> Aged(known[c].starts[i], WatchWindow)]
               l == Aged(known[c].last, WatchWindow)
               k == Aged(known[c].killed, StopGrace + 1)
               fi == Aged(known[c].fine, WatchWindow)
    <3>1. known'[c] = [known[c] EXCEPT !.last = l, !.killed = k, !.fine = fi, !.starts = st]
      BY DEF Minute
    <3>2. IsMemory(known[c])
      BY DEF WatchInv, WatchTypes
    <3>3. fi \in Nat
      BY <1>2, <3>2 DEF IsMemory
    <3> HIDE DEF st, l, k, fi
    <3>4. IsMemory(known'[c]) /\ known'[c].fine = fi
      BY <3>1, <3>2, <3>3 DEF IsMemory, WatchMemory
    <3>5. /\ known'[c].here = known[c].here /\ known'[c].running = known[c].running
          /\ known'[c].unhealthy = known[c].unhealthy
          /\ known'[c].troubled = known[c].troubled /\ known'[c].looping = known[c].looping
      BY <3>1, <3>2 DEF IsMemory, WatchMemory
    <3> QED BY <3>2, <3>4, <3>5 DEF fi, IsMemory
  <2>2. DOMAIN known' = Containers
    BY DEF Minute
  <2> QED BY <2>1, <2>2
<1>5. WatchTypes'
  BY <1>1, <1>3, <1>4 DEF WatchInv, WatchTypes
<1>6. SaidIsRemembered'
  BY <1>1, <1>4 DEF WatchInv, SaidIsRemembered
<1>7. WordsAreReal'
  BY <1>1 DEF WordsAreReal
<1>8. KnownIsReal'
  BY <1>1, <1>2, <1>3, <1>4 DEF WatchInv, KnownIsReal, RunsReally, ResetAfter
<1> QED BY <1>5, <1>6, <1>7, <1>8 DEF WatchInv

LEMMA StreamKeeps ==
  ASSUME WatchInv, Breaks \/ Opens \/ Resumes
  PROVE  WatchInv'
<1>1. CASE Breaks
  BY <1>1 DEF Breaks, WatchInv, WatchTypes, SaidIsRemembered, WordsAreReal, KnownIsReal, IsMemory
<1>2. CASE Opens
  BY <1>2 DEF Opens, WatchInv, WatchTypes, SaidIsRemembered, WordsAreReal, KnownIsReal, IsMemory, RunsReally, ResetAfter
<1>3. CASE Resumes
  <2>1. /\ DOMAIN known' = Containers
        /\ \A c \in Containers :
             /\ IsMemory(known'[c]) /\ known'[c].here = known[c].here
             /\ known'[c].troubled = known[c].troubled /\ known'[c].looping = known[c].looping
             /\ known[c].here => /\ known'[c].running = real[c].up /\ known'[c].unhealthy = real[c].sick
                                 /\ known'[c].fine = 0
             /\ ~known[c].here => known'[c] = known[c]
             /\ real[c].well \in Nat
    <3>1. DOMAIN known' = Containers
      BY <1>3 DEF Resumes
    <3>2. ASSUME NEW c \in Containers, known[c].here
          PROVE  /\ IsMemory(known'[c]) /\ known'[c].here = known[c].here
                 /\ known'[c].troubled = known[c].troubled /\ known'[c].looping = known[c].looping
                 /\ known'[c].running = real[c].up /\ known'[c].unhealthy = real[c].sick /\ known'[c].fine = 0
      <4>1. known'[c] = [known[c] EXCEPT !.running = real[c].up, !.unhealthy = real[c].sick, !.fine = 0]
        BY <1>3, <3>2 DEF Resumes
      <4>2. IsMemory(known[c]) /\ real[c].up \in BOOLEAN /\ real[c].sick \in BOOLEAN
        BY DEF WatchInv, WatchTypes
      <4> QED BY <4>1, <4>2 DEF IsMemory, WatchMemory
    <3>3. ASSUME NEW c \in Containers, ~known[c].here PROVE known'[c] = known[c] /\ IsMemory(known[c])
      BY <1>3, <3>3 DEF Resumes, WatchInv, WatchTypes
    <3>4. \A c \in Containers : real[c].well \in Nat
      BY DEF WatchInv, WatchTypes
    <3> QED BY <3>1, <3>2, <3>3, <3>4
  <2>2. /\ link = "open" /\ link' = "listed" /\ UNCHANGED <<real, unread, episode>>
    BY <1>3 DEF Resumes
  <2>3. WatchTypes'
    BY <2>1, <2>2 DEF WatchInv, WatchTypes
  <2>4. SaidIsRemembered'
    BY <2>1, <2>2 DEF WatchInv, SaidIsRemembered
  <2>5. WordsAreReal'
    BY <2>2 DEF WatchInv, WordsAreReal, RunsReally, ResetAfter
  <2>6. KnownIsReal'
    BY <2>1, <2>2 DEF WatchInv, SaidIsRemembered, KnownIsReal, RunsReally
  <2> QED BY <2>3, <2>4, <2>5, <2>6 DEF WatchInv
<1> QED BY <1>1, <1>2, <1>3

(* What an event makes of a memory.                                          *)
LEMMA ObserveIs ==
  ASSUME NEW mem, IsMemory(mem), NEW e \in WatchWords, NEW h \in BOOLEAN
  PROVE  LET o == observe(mem, e, h) IN
         /\ IsMemory(o.w) /\ o.said \subseteq {"died", "restarting", "unhealthy"} /\ o.w.here = mem.here
         /\ (mem.troubled \/ o.said # {} => o.w.troubled) /\ (mem.looping => o.w.looping)
         /\ "restarting" \in o.said => o.w.looping /\ ~mem.looping
         /\ e \in {"crash", "exit"} => ~o.w.running
         /\ e = "unhealthy" => o.w.unhealthy
         /\ e = "start" => o.w.fine = 0
         /\ e = "healthy" => o.w.fine = IF mem.unhealthy \/ ~mem.running THEN 0 ELSE mem.fine
         /\ e = "kill" => o.w.running = mem.running /\ o.w.unhealthy = mem.unhealthy /\ o.w.fine = mem.fine
<1> DEFINE o == observe(mem, e, h)
<1>1. CASE e = "kill"
  <2>1. o = [w |-> [mem EXCEPT !.killed = 0], said |-> {}]
    BY <1>1 DEF observe
  <2> QED BY <1>1, <2>1 DEF IsMemory, WatchMemory
<1>2. CASE e \in {"crash", "exit"}
  <2> DEFINE bad == e = "crash" /\ ~Asked(mem) /\ ~h
             t == mem.troubled \/ bad
  <2>1. o.w = [mem EXCEPT !.running = FALSE, !.troubled = t] /\ o.said = IF bad THEN {"died"} ELSE {}
    BY <1>2 DEF observe, Died
  <2>2. t \in BOOLEAN /\ (mem.troubled => t) /\ (bad => t)
    OBVIOUS
  <2> HIDE DEF bad, t, o
  <2>3. IsMemory(o.w) /\ o.w.here = mem.here /\ o.w.troubled = t /\ o.w.looping = mem.looping /\ ~o.w.running
    BY <2>1, <2>2 DEF IsMemory, WatchMemory
  <2>4. o.said \subseteq {"died"} /\ (o.said # {} => bad)
    BY <2>1
  <2>5. mem.troubled \/ o.said # {} => o.w.troubled
    BY <2>2, <2>3, <2>4
  <2> QED BY <1>2, <2>3, <2>4, <2>5 DEF o
<1>3. CASE e = "start"
  <2> DEFINE n == LastOnes(Append(Recent(mem.starts), 0))
             loop == Len(n) > RestartsForALoop /\ ~mem.looping
             u == [mem EXCEPT !.running = TRUE, !.unhealthy = FALSE, !.fine = 0]
             t == mem.troubled \/ loop
             l == mem.looping \/ loop
  <2>1. /\ IsMemory(u) /\ u.here = mem.here /\ u.troubled = mem.troubled /\ u.looping = mem.looping /\ u.fine = 0
    BY DEF IsMemory, WatchMemory
  <2>2. \/ o = [w |-> u, said |-> {}]
        \/ o = [w |-> [u EXCEPT !.starts = n, !.troubled = t, !.looping = l], said |-> IF loop THEN {"restarting"} ELSE {}]
    <3>1. u.troubled = mem.troubled /\ u.looping = mem.looping
      BY <2>1
    <3>2. o = Started(mem, h)
      BY <1>3 DEF observe
    <3>3. Started(mem, h) = IF Asked(mem) \/ h THEN [w |-> u, said |-> {}]
            ELSE [w |-> [u EXCEPT !.starts = n, !.troubled = u.troubled \/ loop, !.looping = u.looping \/ loop],
                  said |-> IF loop THEN {"restarting"} ELSE {}]
      BY DEF Started
    <3> HIDE DEF u, n
    <3> QED BY <3>1, <3>2, <3>3
  <2>3. t \in BOOLEAN /\ l \in BOOLEAN /\ (mem.troubled => t) /\ (loop => t) /\ (mem.looping => l) /\ (loop => l /\ ~mem.looping)
    OBVIOUS
  <2> HIDE DEF u, n, loop, t, l, o
  <2>4. CASE o = [w |-> u, said |-> {}]
    <3>1. o.w = u /\ o.said = {}
      BY <2>4
    <3> QED BY <1>3, <2>1, <3>1 DEF o
  <2>5. CASE o = [w |-> [u EXCEPT !.starts = n, !.troubled = t, !.looping = l], said |-> IF loop THEN {"restarting"} ELSE {}]
    <3>1. o.w = [u EXCEPT !.starts = n, !.troubled = t, !.looping = l] /\ o.said = IF loop THEN {"restarting"} ELSE {}
      BY <2>5
    <3>2. IsMemory(o.w) /\ o.w.here = u.here /\ o.w.troubled = t /\ o.w.looping = l /\ o.w.fine = u.fine
      BY <2>1, <2>3, <3>1 DEF IsMemory, WatchMemory
    <3> QED BY <1>3, <2>1, <2>3, <3>1, <3>2 DEF o
  <2> QED BY <2>2, <2>4, <2>5
<1>4. CASE e = "unhealthy"
  <2>1. o.w = [mem EXCEPT !.unhealthy = TRUE, !.troubled = TRUE] /\ o.said = {"unhealthy"}
    BY <1>4 DEF observe, Unhealthy
  <2> HIDE DEF o
  <2>2. IsMemory(o.w) /\ o.w.here = mem.here /\ o.w.troubled /\ o.w.looping = mem.looping /\ o.w.unhealthy
    BY <2>1 DEF IsMemory, WatchMemory
  <2> QED BY <1>4, <2>1, <2>2 DEF o
<1>5. CASE e = "healthy"
  <2> DEFINE fi == IF mem.unhealthy \/ ~mem.running THEN 0 ELSE mem.fine
  <2>1. o.w = [mem EXCEPT !.fine = fi, !.running = TRUE, !.unhealthy = FALSE] /\ o.said = {}
    BY <1>5 DEF observe, Healthy
  <2>2. fi \in Nat
    BY DEF IsMemory
  <2> HIDE DEF fi, o
  <2>3. IsMemory(o.w) /\ o.said = {} /\ o.w.fine = fi /\ o.w.here = mem.here /\ o.w.troubled = mem.troubled /\ o.w.looping = mem.looping
    BY <2>1, <2>2 DEF IsMemory, WatchMemory
  <2> QED BY <1>5, <2>1, <2>3 DEF fi, o
<1> QED BY <1>1, <1>2, <1>3, <1>4, <1>5 DEF WatchWords

LEMMA ObservesKeeps ==
  ASSUME WatchInv, Observes
  PROVE  WatchInv'
<1> DEFINE M == [of : Containers, action : WatchWords]
           c == Head(unread).of
           e == Head(unread).action
           mem == [known[c] EXCEPT !.here = TRUE, !.last = 0]
           h == ProjectOf[c] \in held
           o == observe(mem, e, h)
           n == Len(unread)
<1>1. /\ known' = [known EXCEPT ![c] = o.w] /\ episode' = [episode EXCEPT ![c] = @ \cup o.said]
      /\ unread' = Tail(unread) /\ unread # <<>> /\ link = "listed" /\ UNCHANGED <<real, link>>
  BY DEF Observes
<1>2. /\ n \in Nat \ {0} /\ DOMAIN unread = 1 .. n /\ DOMAIN unread' = 1 .. n - 1 /\ unread' \in Seq(M)
      /\ \A i \in 1 .. n : unread[i] \in M
      /\ \A i \in 1 .. n - 1 : unread'[i] = unread[i + 1]
      /\ Head(unread) = unread[1] /\ Head(unread) \in M
  <2>1. unread \in Seq(M)
    BY DEF WatchInv, WatchTypes
  <2> HIDE DEF M
  <2> QED BY <1>1, <2>1
<1>3. c \in Containers /\ e \in WatchWords /\ unread[1].of = c /\ unread[1].action = e
  BY <1>2
<1>4. IsMemory(known[c])
  BY <1>3 DEF WatchInv, WatchTypes
<1>5. /\ IsMemory(mem) /\ mem.here /\ mem.running = known[c].running /\ mem.unhealthy = known[c].unhealthy
      /\ mem.fine = known[c].fine /\ mem.troubled = known[c].troubled /\ mem.looping = known[c].looping
  BY <1>4 DEF IsMemory, WatchMemory
<1>6. h \in BOOLEAN
  OBVIOUS
<1> HIDE DEF M, c, e, mem, h, n
<1>7. /\ IsMemory(o.w) /\ o.said \subseteq {"died", "restarting", "unhealthy"} /\ o.w.here
      /\ (mem.troubled \/ o.said # {} => o.w.troubled) /\ (mem.looping => o.w.looping)
      /\ "restarting" \in o.said => o.w.looping /\ ~mem.looping
      /\ e \in {"crash", "exit"} => ~o.w.running
      /\ e = "unhealthy" => o.w.unhealthy
      /\ e = "start" => o.w.fine = 0
      /\ e = "healthy" => o.w.fine = IF mem.unhealthy \/ ~mem.running THEN 0 ELSE mem.fine
      /\ e = "kill" => o.w.running = mem.running /\ o.w.unhealthy = mem.unhealthy /\ o.w.fine = mem.fine
  BY <1>3, <1>5, <1>6, ObserveIs
<1> HIDE DEF o
<1>8. /\ DOMAIN known' = Containers /\ known'[c] = o.w
      /\ \A d \in Containers : d # c => known'[d] = known[d]
  BY <1>1, <1>3 DEF WatchInv, WatchTypes
<1>9. /\ episode' \in [Containers -> SUBSET {"died", "restarting", "unhealthy"}]
      /\ episode'[c] = episode[c] \cup o.said
      /\ \A d \in Containers : d # c => episode'[d] = episode[d]
  BY <1>1, <1>3, <1>7 DEF WatchInv, WatchTypes
<1>10. WatchTypes'
  <2>1. \A d \in Containers : IsMemory(known'[d])
    BY <1>7, <1>8 DEF WatchInv, WatchTypes
  <2>2. unread' \in Seq([of : Containers, action : WatchWords])
    BY <1>2 DEF M
  <2>3. link' # "broken"
    BY <1>1
  <2>4. real' \in [Containers -> [up : BOOLEAN, sick : BOOLEAN, fresh : BOOLEAN, well : Nat]]
    BY <1>1 DEF WatchInv, WatchTypes
  <2> QED BY <1>8, <1>9, <2>1, <2>2, <2>3, <2>4 DEF WatchTypes
<1>11. SaidIsRemembered'
  <2>1. ASSUME NEW d \in Containers, d # c
        PROVE  /\ episode'[d] # {} => known'[d].troubled
               /\ "restarting" \in episode'[d] => known'[d].looping
               /\ known'[d].running => known'[d].here
    BY <1>8, <1>9, <2>1 DEF WatchInv, SaidIsRemembered
  <2>2. /\ episode'[c] # {} => known'[c].troubled
        /\ "restarting" \in episode'[c] => known'[c].looping
        /\ known'[c].running => known'[c].here
    <3>1. (episode[c] # {} => mem.troubled) /\ ("restarting" \in episode[c] => mem.looping)
      BY <1>3, <1>5 DEF WatchInv, SaidIsRemembered
    <3>2. episode'[c] # {} => o.w.troubled
      BY <1>7, <1>9, <3>1
    <3>3. "restarting" \in episode'[c] => o.w.looping
      BY <1>7, <1>9, <3>1
    <3> QED BY <1>7, <1>8, <3>2, <3>3
  <2> QED BY <2>1, <2>2 DEF SaidIsRemembered
<1>12. \A d \in Containers, i \in Nat : ResetAfter(d, i + 1) => ResetAfter(d, i)'
  <2> SUFFICES ASSUME NEW d \in Containers, NEW i \in Nat, NEW j \in 1 .. n,
                      j > i + 1, unread[j].of = d, unread[j].action \in Resets
               PROVE  ResetAfter(d, i)'
    BY <1>2 DEF ResetAfter
  <2>1. j - 1 \in 1 .. n - 1 /\ j - 1 > i /\ unread'[j - 1] = unread[j]
    BY <1>2
  <2> QED BY <1>2, <2>1 DEF ResetAfter
<1>13. \A d \in Containers : ResetAfter(d, 0) => ResetAfter(d, 1) \/ (d = c /\ e \in Resets)
  <2> SUFFICES ASSUME NEW d \in Containers, NEW j \in 1 .. n, unread[j].of = d, unread[j].action \in Resets
               PROVE  ResetAfter(d, 1) \/ (d = c /\ e \in Resets)
    BY <1>2 DEF ResetAfter
  <2>1. CASE j = 1
    BY <1>3, <2>1
  <2>2. CASE j # 1
    BY <1>2, <2>2 DEF ResetAfter
  <2> QED BY <2>1, <2>2
<1>14. \A d \in Containers : RunsReally(d)' = RunsReally(d)
  BY <1>1 DEF RunsReally
<1>15. WordsAreReal'
  <2> SUFFICES ASSUME NEW d \in Containers, NEW i \in 1 .. n - 1,
                      unread'[i].of = d, unread'[i].action \in {"start", "healthy"}
               PROVE  RunsReally(d)' \/ ResetAfter(d, i)'
    BY <1>2 DEF WordsAreReal
  <2>1. i + 1 \in DOMAIN unread /\ unread'[i] = unread[i + 1] /\ i \in Nat
    BY <1>2
  <2>2. RunsReally(d) \/ ResetAfter(d, i + 1)
    BY <2>1 DEF WatchInv, WordsAreReal
  <2> QED BY <1>12, <1>14, <2>1, <2>2
<1>16. KnownIsReal'
  <2> SUFFICES ASSUME NEW d \in Containers, known'[d].running, ~known'[d].unhealthy
               PROVE  (RunsReally(d)' /\ known'[d].fine <= real'[d].well) \/ ResetAfter(d, 0)'
    BY DEF KnownIsReal
  <2>1. ResetAfter(d, 1) => ResetAfter(d, 0)'
    <3>1. 0 + 1 = 1 /\ 0 \in Nat
      OBVIOUS
    <3>2. ResetAfter(d, 0 + 1) => ResetAfter(d, 0)'
      BY <1>12, <3>1
    <3> QED BY <3>1, <3>2
  <2>2. known[d].running /\ ~known[d].unhealthy => (RunsReally(d) /\ known[d].fine <= real[d].well) \/ ResetAfter(d, 0)
    BY <1>1 DEF WatchInv, KnownIsReal
  <2>3. CASE d # c
    <3>1. known'[d] = known[d]
      BY <1>8, <2>3
    <3> QED BY <1>1, <1>13, <1>14, <2>1, <2>2, <2>3, <3>1
  <2>4. CASE d = c
    <3>1. known'[d] = o.w /\ real'[d] = real[d] /\ real[d].well \in Nat
      BY <1>1, <1>8, <2>4 DEF WatchInv, WatchTypes
    <3>2. e \notin {"crash", "exit", "unhealthy"}
      BY <1>7, <3>1
    <3>3. e \in {"start", "healthy"} => RunsReally(d) \/ ResetAfter(d, 1)
      <4>1. 1 \in DOMAIN unread
        BY <1>2
      <4> QED BY <1>3, <2>4, <4>1 DEF WatchInv, WordsAreReal
    <3>4. CASE e = "start"
      <4>1. known'[d].fine = 0
        BY <1>7, <3>1, <3>4
      <4> QED BY <1>14, <2>1, <3>1, <3>3, <3>4, <4>1
    <3>5. e # "start" => (ResetAfter(d, 0) => ResetAfter(d, 1))
      BY <1>13, <3>2 DEF Resets
    <3>6. CASE e = "healthy"
      <4>1. o.w.fine = IF mem.unhealthy \/ ~mem.running THEN 0 ELSE mem.fine
        BY <1>7, <3>6
      <4>2. CASE mem.unhealthy \/ ~mem.running
        <5>1. known'[d].fine = 0
          BY <3>1, <4>1, <4>2
        <5> QED BY <1>14, <2>1, <3>1, <3>3, <3>6, <5>1
      <4>3. CASE ~mem.unhealthy /\ mem.running
        <5>1. known'[d].fine = known[d].fine /\ known[d].running /\ ~known[d].unhealthy
          BY <1>5, <2>4, <3>1, <4>1, <4>3
        <5> QED BY <1>14, <2>1, <2>2, <3>1, <3>5, <3>6, <5>1
      <4> QED BY <4>2, <4>3
    <3>7. CASE e = "kill"
      <4>1. known'[d].fine = known[d].fine /\ known[d].running /\ ~known[d].unhealthy
        BY <1>5, <1>7, <2>4, <3>1, <3>7
      <4> QED BY <1>14, <2>1, <2>2, <3>1, <3>5, <3>7, <4>1
    <3> QED BY <1>3, <3>2, <3>4, <3>6, <3>7 DEF WatchWords
  <2> QED BY <2>3, <2>4
<1> QED BY <1>10, <1>11, <1>15, <1>16 DEF WatchInv

LEMMA TicksKeeps ==
  ASSUME WatchInv, Ticks
  PROVE  WatchInv'
<1>1. /\ link = "listed" /\ UNCHANGED <<real, link, unread>>
      /\ known' = [c \in Containers |->
           IF AtRest(known[c]) THEN Forgotten
           ELSE IF Over(c) /\ RunsWell(known[c]) THEN [known[c] EXCEPT !.troubled = FALSE, !.looping = FALSE]
           ELSE known[c]]
      /\ episode' = [c \in Containers |-> IF ProjectOf[c] \in Recovered THEN {} ELSE episode[c]]
  BY DEF Ticks
<1>2. \A c \in Containers : IsMemory(known[c])
  BY DEF WatchInv, WatchTypes
<1>3. ASSUME NEW c \in Containers
      PROVE  /\ IsMemory(known'[c])
             /\ known'[c].running => /\ known'[c].here = known[c].here /\ known[c].running
                                     /\ known'[c].unhealthy = known[c].unhealthy
                                     /\ known'[c].fine = known[c].fine
             /\ ProjectOf[c] \notin Recovered => known'[c] = known[c] \/ (~known[c].troubled /\ known'[c] = Forgotten)
  <2>1. CASE AtRest(known[c])
    <3>1. known'[c] = Forgotten /\ ~known[c].troubled
      BY <1>1, <2>1 DEF AtRest
    <3> QED BY <3>1, ForgottenIs
  <2>2. CASE ~AtRest(known[c]) /\ Over(c) /\ RunsWell(known[c])
    <3>1. known'[c] = [known[c] EXCEPT !.troubled = FALSE, !.looping = FALSE] /\ ProjectOf[c] \in Recovered
      BY <1>1, <2>2 DEF Over
    <3>2. /\ IsMemory(known'[c]) /\ known'[c].here = known[c].here /\ known'[c].running = known[c].running
          /\ known'[c].unhealthy = known[c].unhealthy /\ known'[c].fine = known[c].fine
      BY <1>2, <3>1 DEF IsMemory, WatchMemory
    <3> QED BY <3>1, <3>2
  <2>3. CASE ~AtRest(known[c]) /\ ~(Over(c) /\ RunsWell(known[c]))
    <3>1. known'[c] = known[c]
      BY <1>1, <2>3
    <3> QED BY <1>2, <3>1
  <2> QED BY <2>1, <2>2, <2>3
<1>4. \A c \in Containers : episode'[c] = IF ProjectOf[c] \in Recovered THEN {} ELSE episode[c]
  BY <1>1
<1>5. WatchTypes'
  <2>1. episode' \in [Containers -> SUBSET {"died", "restarting", "unhealthy"}]
    BY <1>1 DEF WatchInv, WatchTypes
  <2>2. DOMAIN known' = Containers
    BY <1>1
  <2>3. \A c \in Containers : IsMemory(known'[c])
    BY <1>3
  <2> QED BY <1>1, <2>1, <2>2, <2>3 DEF WatchInv, WatchTypes
<1>6. SaidIsRemembered'
  <2> SUFFICES ASSUME NEW c \in Containers
               PROVE  /\ episode'[c] # {} => known'[c].troubled
                      /\ "restarting" \in episode'[c] => known'[c].looping
                      /\ known'[c].running => known'[c].here
    BY DEF SaidIsRemembered
  <2>1. /\ episode[c] # {} => known[c].troubled
        /\ "restarting" \in episode[c] => known[c].looping
        /\ known[c].running => known[c].here
    BY DEF WatchInv, SaidIsRemembered
  <2>2. CASE ProjectOf[c] \in Recovered
    BY <1>3, <1>4, <2>1, <2>2
  <2>3. CASE ProjectOf[c] \notin Recovered
    BY <1>3, <1>4, <2>1, <2>3, ForgottenIs
  <2> QED BY <2>2, <2>3
<1>7. WordsAreReal'
  BY <1>1 DEF WatchInv, WordsAreReal, RunsReally, ResetAfter
<1>8. KnownIsReal'
  <2>1. link' = link /\ real' = real /\ unread' = unread
    BY <1>1
  <2> SUFFICES ASSUME link' = "listed", NEW c \in Containers, known'[c].running, ~known'[c].unhealthy
               PROVE  (RunsReally(c) /\ known'[c].fine <= real[c].well) \/ ResetAfter(c, 0)
    BY <2>1 DEF KnownIsReal, RunsReally, ResetAfter
  <2>2. known[c].running /\ ~known[c].unhealthy /\ known'[c].fine = known[c].fine
    BY <1>3
  <2> QED BY <2>1, <2>2 DEF WatchInv, KnownIsReal
<1> QED BY <1>5, <1>6, <1>7, <1>8 DEF WatchInv

LEMMA WatchNextKeeps ==
  ASSUME WatchInv, [WatchNext]_watchVars
  PROVE  WatchInv'
<1>1. CASE UNCHANGED <<real, link, unread, known, episode>>
  BY <1>1 DEF WatchInv, WatchTypes, SaidIsRemembered, WordsAreReal, KnownIsReal, RunsReally, ResetAfter
<1>2. ASSUME NEW a \in Projects, Holds(a) \/ Releases(a)
      PROVE  UNCHANGED <<real, link, unread, known, episode>>
  BY <1>2 DEF Holds, Releases
<1>3. UNCHANGED watchVars => UNCHANGED <<real, link, unread, known, episode>>
  BY DEF watchVars
<1> QED BY <1>1, <1>2, <1>3, DockerKeeps, MinuteKeeps, StreamKeeps, ObservesKeeps, TicksKeeps DEF WatchNext

(* An app is said to be healthy only if each container that was in trouble   *)
(* has run well for the whole window, whatever breaks of the stream,         *)
(* recreations and operations came between, or docker has said otherwise     *)
(* and it is not read yet; and a restart loop is said once an episode: the   *)
(* first part of AlertsAreTrue, for any containers, window and loop.         *)
THEOREM AlertsSayWhatIs == WatchSpec => EpisodesAreTrue
<1>1. ASSUME WatchInv, NEW c \in Containers, Ticks, Says(ProjectOf[c], "healthy"), episode[c] # {}, ~Unread(c)
      PROVE  real[c].well >= WatchWindow
  <2>1. ProjectOf[c] \in Recovered /\ link = "listed"
    BY <1>1 DEF Ticks, Says
  <2>2. known[c].troubled
    BY <1>1 DEF WatchInv, SaidIsRemembered
  <2>3. RunsWell(known[c])
    BY <2>1, <2>2 DEF Recovered, Owing
  <2>4. ~ResetAfter(c, 0)
    BY <1>1 DEF ResetAfter, Unread
  <2>5. known[c].fine <= real[c].well
    BY <1>1, <2>1, <2>3, <2>4 DEF WatchInv, KnownIsReal, RunsWell
  <2>6. known[c].fine \in Nat /\ real[c].well \in Nat /\ WatchWindow \in Nat
    BY <1>1, WatchAssumption DEF WatchInv, WatchTypes, IsMemory
  <2> QED BY <2>3, <2>5, <2>6 DEF RunsWell
<1>2. ASSUME WatchInv, NEW c \in Containers, Observes, Says(c, "restarting")
      PROVE  "restarting" \notin episode[c]
  <2> DEFINE mem == [known[c] EXCEPT !.here = TRUE, !.last = 0]
             e == Head(unread).action
             h == ProjectOf[c] \in held
             o == observe(mem, e, h)
  <2>1. Head(unread).of = c /\ "restarting" \in o.said
    BY <1>2 DEF Observes, Says
  <2>2. e \in WatchWords
    <3> DEFINE M == [of : Containers, action : WatchWords]
    <3>1. unread \in Seq(M) /\ unread # <<>>
      BY <1>2 DEF WatchInv, WatchTypes, Observes
    <3> HIDE DEF M
    <3>2. Head(unread) \in M
      BY <3>1
    <3> QED BY <3>2 DEF M
  <2>3. IsMemory(mem) /\ mem.looping = known[c].looping
    <3>1. IsMemory(known[c])
      BY <1>2 DEF WatchInv, WatchTypes
    <3> QED BY <3>1 DEF IsMemory, WatchMemory
  <2>4. h \in BOOLEAN
    OBVIOUS
  <2> HIDE DEF mem, e, h
  <2>5. ~mem.looping
    BY <2>1, <2>2, <2>3, <2>4, ObserveIs
  <2> QED BY <1>2, <2>3, <2>5 DEF WatchInv, SaidIsRemembered
<1>3. WatchInv /\ [WatchNext]_watchVars => [HealthyIsHealthy /\ LoopIsSaidOnce]_watchVars
  BY <1>1, <1>2 DEF HealthyIsHealthy, LoopIsSaidOnce
<1>4. WatchInit => WatchInv
  BY WatchStarts
<1>5. WatchInv /\ [WatchNext]_watchVars => WatchInv'
  BY WatchNextKeeps
<1> QED BY <1>3, <1>4, <1>5, PTL DEF WatchSpec, EpisodesAreTrue

-----------------------------------------------------------------------------
(***************************************************************************)
(* The lines of a container. The files hold lines of their day, in order,  *)
(* the buffer those after them (BufferIsNext), and a follower that reads   *)
(* knows the last of both (FollowerIsAhead): what it takes up is new.      *)
(***************************************************************************)
Places == {"none", "start", "read", "close", "tail"}

FollowTypes ==
  /\ lines \in Seq(Days) /\ today \in Days /\ running \in BOOLEAN /\ ends \in Seq(Nat)
  /\ f \in [at : Places, again : BOOLEAN, last : Nat, pos : Nat, run : Nat]
  /\ w \in [buf : Seq(Nat), day : Nat, file : {"none", "linked", "unlinked"}]
  /\ disk \in [Days -> Seq(Nat)]

DaysInOrder ==
  \A k, l \in Printed : lines[l] <= today /\ (k <= l => lines[k] <= lines[l])

FilesInOrder ==
  /\ made \subseteq Days /\ \A d \in Days : disk[d] # <<>> => d \in made
  /\ \A d \in Days : \A i \in DOMAIN disk[d] : disk[d][i] \in Printed /\ lines[disk[d][i]] = d
  /\ LinesOnceInOrder

BufferIsNext ==
  /\ \A i \in DOMAIN w.buf : w.buf[i] \in Printed /\ lines[w.buf[i]] = w.day
                           /\ \A l \in OnDisk : l < w.buf[i] \/ l \in reread
  /\ \A i, j \in DOMAIN w.buf : i < j => w.buf[i] < w.buf[j] \/ w.buf[i] \in reread
  /\ f.at \notin {"read", "close"} => w.buf = <<>>

FollowerIsAhead ==
  f.at = "read" => \A l \in OnDisk \cup Elements(w.buf) : l <= f.last \/ l <= f.pos \/ l \in reread

OrderInv == FollowTypes /\ DaysInOrder /\ FilesInOrder /\ BufferIsNext /\ FollowerIsAhead

Kept == OnDisk \cup Elements(w.buf) \cup lost

(* A nonempty set of natural numbers has a least one.                        *)
LEMMA LeastOne ==
  ASSUME NEW S, S \subseteq Nat, S # {}
  PROVE  \E m \in S : \A j \in S : m <= j
<1> DEFINE R == OpToRel(<, Nat)
<1>1. R = {p \in Nat \X Nat : p[1] < p[2]}
  BY Zenon DEF OpToRel
<1>2. IsWellFoundedOn(R, Nat)
  BY NatLessThanWellFounded, Zenon
<1> HIDE DEF R
<1>3. PICK m \in S : \A j \in S : ~(<<j, m>> \in R)
  BY <1>2, WFMin
<1>4. \A j \in S : ~(j < m)
  BY <1>1, <1>3
<1> QED BY <1>3, <1>4

LEMMA OnDiskIs ==
  \A x : x \in OnDisk <=> \E d \in Days : \E i \in DOMAIN disk[d] : x = disk[d][i]
BY DEF OnDisk, Elements

LEMMA DaysArePositive == Days \subseteq Nat \ {0} /\ 1 \in Days /\ MaxDay \in Nat
BY FollowAssumption DEF Days

LEMMA NothingFollows == NoFollower \in [at : Places, again : BOOLEAN, last : Nat, pos : Nat, run : Nat]
                        /\ NoFollower.at = "none" /\ ~NoFollower.again /\ NoFollower.run = 0
BY DEF NoFollower, Places

LEMMA NothingIsWritten ==
  NoWriter \in [buf : Seq(Nat), day : Nat, file : {"none", "linked", "unlinked"}] /\ NoWriter.buf = <<>>
BY DEF NoWriter

LEMMA FollowStarts == FollowInit => OrderInv
<1> SUFFICES ASSUME FollowInit PROVE OrderInv
  OBVIOUS
<1>1. FollowTypes
  <2>1. lines = <<>> /\ ends = <<>> /\ running = FALSE /\ today \in Days
    BY DaysArePositive DEF FollowInit
  <2>2. disk \in [Days -> Seq(Nat)]
    BY DEF FollowInit
  <2>3. f = NoFollower /\ w = NoWriter
    BY DEF FollowInit
  <2>4. lines \in Seq(Days) /\ ends \in Seq(Nat) /\ running \in BOOLEAN
    <3>1. <<>> \in Seq(Days)
      OBVIOUS
    <3>2. <<>> \in Seq(Nat)
      OBVIOUS
    <3> QED BY <2>1, <3>1, <3>2
  <2> QED BY <2>1, <2>2, <2>3, <2>4, NothingFollows, NothingIsWritten DEF FollowTypes
<1>2. Printed = {} /\ w.buf = <<>> /\ \A d \in Days : disk[d] = <<>>
  BY NothingIsWritten DEF FollowInit, Printed
<1>3. f.at = "none"
  BY NothingFollows DEF FollowInit
<1>4. DaysInOrder
  BY <1>2 DEF DaysInOrder
<1>5. FilesInOrder
  BY <1>2 DEF FollowInit, FilesInOrder, LinesOnceInOrder
<1>6. BufferIsNext
  BY <1>2 DEF BufferIsNext
<1>7. FollowerIsAhead
  BY <1>3 DEF FollowerIsAhead
<1> QED BY <1>1, <1>4, <1>5, <1>6, <1>7 DEF OrderInv

(* The buffer reaches the file of its day, or is lost.                       *)
LEMMA FlushFiles ==
  ASSUME OrderInv, UNCHANGED <<lines, reread>>, Flushed \/ FlushFails
  PROVE  /\ disk' \in [Days -> Seq(Nat)] /\ FilesInOrder'
         /\ OnDisk' \subseteq OnDisk \cup Elements(w.buf)
         /\ Kept \subseteq OnDisk' \cup lost'
<1>1. CASE UNCHANGED <<disk, made>> /\ lost \subseteq lost' /\ Elements(w.buf) \subseteq lost'
  <2>1. FilesInOrder' /\ OnDisk' = OnDisk
    BY <1>1 DEF OrderInv, FilesInOrder, LinesOnceInOrder, Printed, OnDisk
  <2>2. disk' \in [Days -> Seq(Nat)]
    BY <1>1 DEF OrderInv, FollowTypes
  <2> QED BY <1>1, <2>1, <2>2 DEF Kept
<1>2. ASSUME w.buf # <<>>, w.file # "unlinked", NEW k \in 0 .. Len(w.buf), Writes(k)
      PROVE  /\ disk' \in [Days -> Seq(Nat)] /\ FilesInOrder'
             /\ OnDisk' \subseteq OnDisk \cup Elements(w.buf)
             /\ Kept \subseteq OnDisk' \cup lost'
  <2> DEFINE d == w.day
             s == disk[d]
             a == w.buf
             b == SubSeq(a, 1, k)
             m == Len(s)
             n == Len(b)
             c == s \o b
             rest == SubSeq(a, k + 1, Len(a))
  <2>0. /\ disk' = [disk EXCEPT ![d] = s \o b] /\ made' = made \cup {d} /\ lost' = lost \cup Elements(rest)
        /\ a \in Seq(Nat) /\ Len(a) \in Nat /\ DOMAIN a = 1 .. Len(a) /\ a # <<>>
    <3>1. /\ disk' = [disk EXCEPT ![d] = s \o b] /\ made' = made \cup {d}
          /\ lost' = lost \cup Elements(rest)
      BY <1>2 DEF Writes
    <3>2. a \in Seq(Nat)
      BY DEF OrderInv, FollowTypes
    <3> QED BY <1>2, <3>1, <3>2
  <2>1. /\ b \in Seq(Nat) /\ n \in Nat /\ n = k /\ DOMAIN b = 1 .. n
        /\ \A i \in 1 .. n : i \in DOMAIN a /\ b[i] = a[i]
        /\ \A i \in DOMAIN a : i \in 1 .. n \/ a[i] \in Elements(rest)
    <3> HIDE DEF a
    <3>1. b \in Seq(Nat) /\ n = k /\ DOMAIN b = 1 .. n /\ \A i \in 1 .. n : i \in DOMAIN a /\ b[i] = a[i]
      <4>1. k \in 0 .. Len(a)
        BY <1>2 DEF a
      <4> QED BY <2>0, <4>1
    <3>2. ASSUME NEW i \in DOMAIN a, i \notin 1 .. n PROVE a[i] \in Elements(rest)
      <4>1. k \in 0 .. Len(a)
        BY <1>2 DEF a
      <4>2. i - k \in DOMAIN rest /\ rest[i - k] = a[i]
        BY <2>0, <3>1, <3>2, <4>1
      <4> QED BY <4>2 DEF Elements
    <3> QED BY <1>2, <3>1, <3>2
  <2>2. d \in Days
    <3>1. 1 \in DOMAIN a
      BY <2>0
    <3>2. a[1] \in Printed /\ lines[a[1]] = d
      BY <3>1 DEF OrderInv, BufferIsNext
    <3> QED BY <3>2 DEF OrderInv, FollowTypes, Printed
  <2>3. s \in Seq(Nat) /\ m \in Nat /\ DOMAIN s = 1 .. m
    BY <2>2 DEF OrderInv, FollowTypes
  <2>4. disk' \in [Days -> Seq(Nat)] /\ disk'[d] = c /\ \A e \in Days : e # d => disk'[e] = disk[e]
    BY <2>0, <2>1, <2>2, <2>3, SMTT(30) DEF OrderInv, FollowTypes
  <2> HIDE DEF d, s, a, b, m, n, c, rest
  <2>5. /\ DOMAIN c = 1 .. m + n
        /\ \A i \in 1 .. m : c[i] = s[i]
        /\ \A i \in 1 .. n : c[m + i] = b[i]
    <3>1. Len(s) = m /\ Len(b) = n
      BY DEF m, n
    <3>2. /\ c \in Seq(Nat) /\ Len(c) = m + n
          /\ \A i \in 1 .. m + n : c[i] = IF i <= m THEN s[i] ELSE b[i - m]
      <4>1. s \in Seq(Nat) /\ b \in Seq(Nat) /\ m \in Nat /\ n \in Nat
        BY <2>1, <2>3
      <4> QED BY <3>1, <4>1, ConcatProperties DEF c
    <3>3. DOMAIN c = 1 .. m + n
      BY <3>2
    <3>4. ASSUME NEW i \in 1 .. m PROVE c[i] = s[i]
      <4>1. i \in 1 .. m + n /\ i <= m
        BY <2>1, <2>3
      <4> QED BY <3>2, <4>1
    <3>5. ASSUME NEW i \in 1 .. n PROVE c[m + i] = b[i]
      <4>1. m + i \in 1 .. m + n /\ ~(m + i <= m) /\ (m + i) - m = i
        BY <2>1, <2>3
      <4> QED BY <3>2, <4>1
    <3> QED BY <3>3, <3>4, <3>5
  <2>6. \A i \in 1 .. m + n : (i \in 1 .. m /\ c[i] = s[i]) \/ (i > m /\ i - m \in 1 .. n /\ c[i] = b[i - m])
    <3> SUFFICES ASSUME NEW i \in 1 .. m + n, i > m PROVE i - m \in 1 .. n /\ c[i] = b[i - m]
      BY <2>1, <2>3, <2>5
    <3>1. i - m \in 1 .. n /\ m + (i - m) = i
      BY <2>1, <2>3
    <3> QED BY <2>5, <3>1
  <2>7. OnDisk' \subseteq OnDisk \cup Elements(w.buf)
    <3> SUFFICES ASSUME NEW e \in Days, NEW i \in DOMAIN disk'[e]
                 PROVE  disk'[e][i] \in OnDisk \cup Elements(a)
      BY DEF OnDisk, Elements, a
    <3>1. CASE e # d
      BY <2>4, <3>1, OnDiskIs
    <3>2. CASE e = d
      <4>1. i \in 1 .. m + n /\ disk'[e][i] = c[i]
        BY <2>4, <2>5, <3>2
      <4>2. \A j \in 1 .. m : s[j] \in OnDisk
        BY <2>2, <2>3, OnDiskIs DEF s
      <4> QED BY <2>1, <2>6, <4>1, <4>2 DEF Elements
    <3> QED BY <3>1, <3>2
  <2>8. Kept \subseteq OnDisk' \cup lost'
    <3>1. ASSUME NEW e \in Days, NEW i \in DOMAIN disk[e]
          PROVE  disk[e][i] \in OnDisk'
      <4>1. CASE e # d
        BY <2>4, <4>1 DEF OnDisk, Elements
      <4>2. CASE e = d
        <5>1. i \in 1 .. m /\ disk[e][i] = c[i] /\ i \in DOMAIN disk'[d]
          <6>1. i \in 1 .. m /\ disk[e][i] = s[i]
            BY <2>3, <4>2 DEF s
          <6>2. i \in 1 .. m + n
            BY <2>1, <2>3, <6>1
          <6> QED BY <2>4, <2>5, <6>1, <6>2
        <5> QED BY <2>2, <2>4, <5>1 DEF OnDisk, Elements
      <4> QED BY <4>1, <4>2
    <3>2. ASSUME NEW i \in 1 .. n
          PROVE  b[i] \in OnDisk'
      <4>1. m + i \in DOMAIN disk'[d] /\ disk'[d][m + i] = b[i]
        BY <2>1, <2>3, <2>4, <2>5
      <4> QED BY <2>2, <4>1 DEF OnDisk, Elements
    <3>3. OnDisk \subseteq OnDisk'
      BY <3>1, OnDiskIs
    <3>4. ASSUME NEW i \in DOMAIN a PROVE a[i] \in OnDisk' \cup lost'
      BY <2>0, <2>1, <3>2, <3>4
    <3>5. Elements(w.buf) \subseteq OnDisk' \cup lost'
      BY <3>4 DEF Elements, a
    <3> QED BY <2>0, <3>3, <3>5 DEF Kept
  <2>9. \A j \in 1 .. n : /\ b[j] \in Printed /\ lines[b[j]] = d
                          /\ \A i \in 1 .. m : s[i] < b[j] \/ s[i] \in reread
    <3>1. \A i \in 1 .. m : s[i] \in OnDisk
      BY <2>2, <2>3, OnDiskIs DEF s
    <3> QED BY <2>1, <3>1 DEF OrderInv, BufferIsNext, a, d
  <2>10. \A i \in 1 .. m : s[i] \in Printed /\ lines[s[i]] = d
    BY <2>2, <2>3 DEF OrderInv, FilesInOrder, s
  <2>11. ASSUME NEW e \in Days
         PROVE  /\ \A i \in DOMAIN disk'[e] : disk'[e][i] \in Printed /\ lines[disk'[e][i]] = e
                /\ \A i, j \in DOMAIN disk'[e] : i < j => disk'[e][i] < disk'[e][j] \/ disk'[e][i] \in reread
    <3>1. CASE e # d
      BY <2>4, <3>1 DEF OrderInv, FilesInOrder, LinesOnceInOrder
    <3>2. CASE e = d
      <4>1. \A i, j \in 1 .. m : i < j => s[i] < s[j] \/ s[i] \in reread
        BY <2>2, <2>3 DEF OrderInv, FilesInOrder, LinesOnceInOrder, s
      <4>2. \A i, j \in 1 .. n : i < j => b[i] < b[j] \/ b[i] \in reread
        BY <2>1 DEF OrderInv, BufferIsNext, a
      <4>3. ASSUME NEW i \in 1 .. m + n, NEW j \in 1 .. m + n, i < j
            PROVE  c[i] < c[j] \/ c[i] \in reread
        <5>1. CASE i \in 1 .. m /\ j \in 1 .. m
          BY <2>5, <4>1, <4>3, <5>1
        <5>2. CASE i \in 1 .. m /\ j > m
          BY <2>1, <2>3, <2>6, <2>9, <4>3, <5>2
        <5>3. CASE i > m
          <6>1. j > m /\ i - m < j - m
            BY <2>1, <2>3, <4>3, <5>3
          <6> QED BY <2>1, <2>3, <2>6, <4>2, <4>3, <5>3, <6>1
        <5> QED BY <2>1, <2>3, <5>1, <5>2, <5>3
      <4>4. \A i \in 1 .. m + n : c[i] \in Printed /\ lines[c[i]] = d
        BY <2>1, <2>3, <2>6, <2>9, <2>10
      <4> QED BY <2>4, <2>5, <3>2, <4>3, <4>4
    <3> QED BY <3>1, <3>2
  <2>12. made' \subseteq Days /\ \A e \in Days : disk'[e] # <<>> => e \in made'
    BY <2>0, <2>2, <2>4 DEF OrderInv, FilesInOrder
  <2>13. FilesInOrder'
    BY <2>11, <2>12 DEF FilesInOrder, LinesOnceInOrder, Printed
  <2> QED BY <2>4, <2>7, <2>8, <2>13
<1>3. CASE w.buf = <<>> /\ UNCHANGED <<disk, made, lost>>
  BY <1>1, <1>3 DEF Elements
<1>4. ASSUME w.buf # <<>>, NEW k \in 0 .. Len(w.buf), Writes(k)
      PROVE  \/ w.file # "unlinked"
             \/ UNCHANGED <<disk, made>> /\ lost \subseteq lost' /\ Elements(w.buf) \subseteq lost'
  BY <1>4 DEF Writes
<1>5. Len(w.buf) \in Nat /\ Len(w.buf) \in 0 .. Len(w.buf) /\ 0 .. Len(w.buf) - 1 \subseteq 0 .. Len(w.buf)
  BY DEF OrderInv, FollowTypes
<1> QED BY <1>1, <1>2, <1>3, <1>4, <1>5 DEF Flushed, FlushFails, OpenFails, WriteFails

(* Whatever loses lines or hands the buffer over.                            *)
LEMMA LessIsInOrder ==
  ASSUME OrderInv, UNCHANGED <<lines, today, reread>>, FollowTypes', FilesInOrder',
         OnDisk' \subseteq OnDisk \cup Elements(w.buf),
         w'.buf = <<>> \/ (w'.buf = w.buf /\ w'.day = w.day /\ OnDisk' \subseteq OnDisk),
         f'.at \notin {"read", "close"} => w'.buf = <<>>,
         f'.at = "read" => f.at = "read" /\ f'.last = f.last /\ f.pos <= f'.pos
  PROVE  OrderInv'
<1>1. DaysInOrder'
  BY DEF OrderInv, DaysInOrder, Printed
<1>2. Elements(w'.buf) \subseteq Elements(w.buf)
  BY DEF Elements
<1>3. BufferIsNext'
  <2>1. CASE w'.buf = <<>>
    BY <2>1 DEF BufferIsNext
  <2>2. CASE w'.buf = w.buf /\ w'.day = w.day /\ OnDisk' \subseteq OnDisk
    BY <2>2 DEF OrderInv, BufferIsNext, Printed
  <2> QED BY <2>1, <2>2
<1>4. FollowerIsAhead'
  <2> SUFFICES ASSUME f'.at = "read", NEW l \in OnDisk \cup Elements(w.buf)
               PROVE  l <= f'.last \/ l <= f'.pos \/ l \in reread
    BY <1>2 DEF FollowerIsAhead
  <2>1. l <= f.last \/ l <= f.pos \/ l \in reread
    BY DEF OrderInv, FollowerIsAhead
  <2>2. l \in Nat /\ f.pos \in Nat /\ f'.pos \in Nat
    <3>1. \A d \in Days : disk[d] \in Seq(Nat)
      BY DEF OrderInv, FollowTypes
    <3>2. w.buf \in Seq(Nat) /\ f.pos \in Nat /\ f'.pos \in Nat
      BY DEF OrderInv, FollowTypes
    <3> QED BY <3>1, <3>2, OnDiskIs DEF Elements
  <2> QED BY <2>1, <2>2
<1> QED BY <1>1, <1>3, <1>4 DEF OrderInv

(* No line that is kept is after the last line of the newest file, when it   *)
(* has one, but for those to be read again.                                  *)
LEMMA LastIsTheNewest ==
  ASSUME OrderInv
  PROVE  /\ LastTimestamp \in Nat
         /\ LastTimestamp > 0 => LastTimestamp \in OnDisk /\ \A l \in OnDisk : l <= LastTimestamp \/ l \in reread
<1>1. (\A d \in Days : disk[d] \in Seq(Nat)) /\ made \subseteq Days
  BY DEF OrderInv, FollowTypes, FilesInOrder
<1>2. CASE made = {}
  BY <1>2 DEF LastTimestamp
<1>3. CASE made # {}
  <2> DEFINE d == CHOOSE d \in made : \A e \in made : e <= d
             n == Len(disk[d])
  <2>1. \E m \in made : \A e \in made : e <= m
    <3> DEFINE S == {MaxDay - e : e \in made}
    <3>1. S \subseteq Nat /\ S # {}
      <4>1. \A e \in made : MaxDay - e \in Nat
        BY <1>1, DaysArePositive DEF Days
      <4> QED BY <1>3, <4>1
    <3>2. PICK m \in S : \A j \in S : m <= j
      <4> HIDE DEF S
      <4> QED BY <3>1, LeastOne
    <3>3. PICK x \in made : m = MaxDay - x
      BY <3>2
    <3>4. \A e \in made : e <= x
      <4> SUFFICES ASSUME NEW e \in made PROVE e <= x
        OBVIOUS
      <4>1. MaxDay - e \in S
        OBVIOUS
      <4> HIDE DEF S
      <4>2. m <= MaxDay - e
        BY <3>2, <4>1
      <4> QED BY <1>1, <3>3, <4>2, DaysArePositive
    <3> QED BY <3>4
  <2>2. /\ d \in made /\ (\A e \in made : e <= d)
        /\ LastTimestamp = IF disk[d] = <<>> THEN 0 ELSE disk[d][n]
    BY <1>3, <2>1 DEF LastTimestamp
  <2> HIDE DEF d
  <2>3. CASE disk[d] = <<>>
    BY <2>2, <2>3
  <2>4. CASE disk[d] # <<>>
    <3>0. d \in Days /\ LastTimestamp = disk[d][n] /\ \A e \in Days : disk[e] # <<>> => e <= d
      BY <1>1, <2>2, <2>4 DEF OrderInv, FilesInOrder
    <3>1. n \in Nat \ {0} /\ DOMAIN disk[d] = 1 .. n /\ disk[d][n] \in Nat /\ n \in 1 .. n
      BY <1>1, <2>4, <3>0
    <3>2. disk[d][n] \in OnDisk /\ disk[d][n] \in Printed /\ lines[disk[d][n]] = d
      BY <3>0, <3>1, OnDiskIs DEF OrderInv, FilesInOrder
    <3>3. ASSUME NEW e \in Days, NEW i \in DOMAIN disk[e] PROVE disk[e][i] <= disk[d][n] \/ disk[e][i] \in reread
      <4>1. e <= d
        BY <1>1, <3>0, <3>3
      <4>2. disk[e][i] \in Nat /\ disk[e][i] \in Printed /\ lines[disk[e][i]] = e
        BY <1>1 DEF OrderInv, FilesInOrder
      <4>3. CASE e = d
        <5>1. i \in 1 .. n
          BY <3>1, <4>3
        <5>2. CASE i = n
          BY <3>1, <4>3, <5>2
        <5>3. CASE i # n
          <6>1. i < n
            BY <3>1, <5>1, <5>3
          <6>2. disk[d][i] < disk[d][n] \/ disk[d][i] \in reread
            BY <3>0, <3>1, <5>1, <6>1 DEF OrderInv, FilesInOrder, LinesOnceInOrder
          <6> QED BY <3>1, <4>2, <4>3, <6>2
        <5> QED BY <5>2, <5>3
      <4>4. CASE e < d
        <5>1. lines[disk[d][n]] <= lines[disk[e][i]] \/ ~(disk[d][n] <= disk[e][i])
          BY <3>2, <4>2 DEF OrderInv, DaysInOrder
        <5> QED BY <3>0, <3>1, <3>2, <4>2, <4>4, <5>1, DaysArePositive
      <4> QED BY <3>0, <4>1, <4>3, <4>4, DaysArePositive
    <3> QED BY <3>0, <3>1, <3>2, <3>3, OnDiskIs
  <2> QED BY <2>3, <2>4
<1> QED BY <1>2, <1>3

LEMMA BeforeIsNat == ASSUME OrderInv, NEW d PROVE Before(d) \in Nat
<1>1. lines \in Seq(Days)
  BY DEF OrderInv, FollowTypes
<1>2. IsFiniteSet(Printed)
  <2>1. Printed = 1 .. Len(lines) /\ Len(lines) \in Nat
    BY <1>1 DEF Printed
  <2> QED BY <2>1, FS_Interval
<1>3. IsFiniteSet({l \in Printed : lines[l] < d})
  BY <1>2, FS_Subset
<1> QED BY <1>3, FS_CardinalityType DEF Before

(* Where the stream is opened.                                               *)
LEMMA StartsAre ==
  ASSUME OrderInv, NEW stop \in Nat, NEW s \in Starts(stop)
  PROVE  s \in Nat /\ s + 1 >= stop
<1>1. Before(today - Retention) \in Nat /\ Before(today - Retention + 1) \in Nat
  BY BeforeIsNat
<1> QED BY <1>1 DEF Starts

(* What the follower has for the last line, and where it reads from.         *)
LEMMA OpensAt ==
  ASSUME OrderInv, ReadOpens
  PROVE  \E stop \in Nat : \E s \in Nat :
           /\ f' = [f EXCEPT !.at = "read", !.last = stop, !.pos = s,
                             !.run = IF running THEN Len(ends) + 1 ELSE Len(ends)]
           /\ stop <= s + 1 /\ (stop > 0 => stop \in OnDisk)
           /\ \A l \in OnDisk : l <= stop \/ l \in reread'
           /\ lost' = lost \cup {l \in 1 .. s : l \notin OnDisk}
           /\ reread \subseteq reread'
<1> DEFINE n == LastTimestamp
<1>1. PICK stop \in {n, 0} : \E s \in Starts(stop) :
        /\ f' = [f EXCEPT !.at = "read", !.last = stop, !.pos = s,
                          !.run = IF running THEN Len(ends) + 1 ELSE Len(ends)]
        /\ lost' = lost \cup {l \in 1 .. s : l \notin OnDisk}
        /\ reread' = IF stop = 0 THEN reread \cup OnDisk ELSE reread
  BY DEF ReadOpens
<1>2. n \in Nat /\ (n > 0 => n \in OnDisk /\ \A l \in OnDisk : l <= n \/ l \in reread)
  BY LastIsTheNewest
<1> HIDE DEF n
<1>3. stop \in Nat /\ (stop > 0 => stop = n)
  BY <1>1, <1>2
<1>4. PICK s \in Starts(stop) :
        /\ f' = [f EXCEPT !.at = "read", !.last = stop, !.pos = s,
                          !.run = IF running THEN Len(ends) + 1 ELSE Len(ends)]
        /\ lost' = lost \cup {l \in 1 .. s : l \notin OnDisk}
  BY <1>1
<1>5. s \in Nat /\ stop <= s + 1
  BY <1>3, StartsAre
<1>6. (\A l \in OnDisk : l <= stop \/ l \in reread') /\ reread \subseteq reread'
  BY <1>1, <1>2, <1>3
<1> QED BY <1>2, <1>3, <1>4, <1>5, <1>6

LEMMA OpensInOrder ==
  ASSUME OrderInv, ReadOpens
  PROVE  OrderInv'
<1>1. PICK stop \in Nat, s \in Nat :
        /\ f' = [f EXCEPT !.at = "read", !.last = stop, !.pos = s,
                          !.run = IF running THEN Len(ends) + 1 ELSE Len(ends)]
        /\ \A l \in OnDisk : l <= stop \/ l \in reread'
        /\ reread \subseteq reread'
  BY OpensAt
<1>2. UNCHANGED <<lines, today, running, ends, w, disk, made>> /\ f.at = "start"
  BY DEF ReadOpens, dockerVars
<1>3. f \in [at : Places, again : BOOLEAN, last : Nat, pos : Nat, run : Nat] /\ Len(ends) \in Nat
  BY DEF OrderInv, FollowTypes
<1>4. /\ f' \in [at : Places, again : BOOLEAN, last : Nat, pos : Nat, run : Nat]
      /\ f'.at = "read" /\ f'.last = stop
  <2> DEFINE r == IF running THEN Len(ends) + 1 ELSE Len(ends)
  <2>1. r \in Nat /\ f' = [f EXCEPT !.at = "read", !.last = stop, !.pos = s, !.run = r]
    BY <1>1, <1>3
  <2> HIDE DEF r
  <2> QED BY <1>1, <1>3, <2>1 DEF Places
<1>5. w.buf = <<>>
  BY <1>2 DEF OrderInv, BufferIsNext
<1>6. FollowTypes' /\ DaysInOrder' /\ FilesInOrder' /\ BufferIsNext'
  BY <1>1, <1>2, <1>4, <1>5 DEF OrderInv, FollowTypes, DaysInOrder, FilesInOrder, LinesOnceInOrder, BufferIsNext, Printed, OnDisk
<1>7. FollowerIsAhead'
  BY <1>1, <1>2, <1>4, <1>5 DEF FollowerIsAhead, OnDisk, Elements
<1> QED BY <1>6, <1>7 DEF OrderInv

(* A line that is new to the files and to the buffer is after all of theirs. *)
LEMMA ReadsInOrder ==
  ASSUME OrderInv, ReadLine
  PROVE  OrderInv' /\ Kept \subseteq Kept' /\ f.pos + 1 \in Kept' \cup {l \in Nat : l <= f.last}
<1> DEFINE l == f.pos + 1
<1>1. /\ f.at = "read" /\ f.pos < Len(lines) /\ f' = [f EXCEPT !.pos = l]
      /\ UNCHANGED <<lines, today, running, ends, reread>>
  BY DEF ReadLine, dockerVars
<1>2. f \in [at : Places, again : BOOLEAN, last : Nat, pos : Nat, run : Nat] /\ lines \in Seq(Days)
      /\ w \in [buf : Seq(Nat), day : Nat, file : {"none", "linked", "unlinked"}]
  BY DEF OrderInv, FollowTypes
<1>3. /\ l \in Nat /\ l \in Printed /\ lines[l] \in Days /\ l > f.pos
      /\ f' \in [at : Places, again : BOOLEAN, last : Nat, pos : Nat, run : Nat]
      /\ f'.at = "read" /\ f'.last = f.last /\ f'.pos = l
  <2>1. l \in Nat /\ l \in 1 .. Len(lines) /\ l > f.pos
    BY <1>1, <1>2
  <2>2. l \in Printed /\ lines[l] \in Days
    BY <1>2, <2>1 DEF Printed
  <2> HIDE DEF l
  <2> QED BY <1>1, <1>2, <2>1, <2>2
<1> HIDE DEF l
<1>4. CASE l <= f.last
  <2>1. UNCHANGED <<w, disk, made, lost>>
    BY <1>4 DEF ReadLine, l
  <2>2. FollowTypes' /\ FilesInOrder' /\ OnDisk' = OnDisk
    BY <1>1, <1>3, <2>1 DEF OrderInv, FollowTypes, FilesInOrder, LinesOnceInOrder, Printed, OnDisk
  <2>3. OrderInv'
    BY <1>1, <1>2, <1>3, <2>1, <2>2, LessIsInOrder
  <2> QED BY <1>3, <1>4, <2>1, <2>2, <2>3 DEF Kept, Elements, l
<1>5. CASE l > f.last
  <2>1. Write(l)
    BY <1>2, <1>3, <1>5 DEF ReadLine, l
  <2>2. \A k \in OnDisk \cup Elements(w.buf) : k \in Nat /\ (k < l \/ k \in reread)
    <3> SUFFICES ASSUME NEW k \in OnDisk \cup Elements(w.buf) PROVE k \in Nat /\ (k < l \/ k \in reread)
      OBVIOUS
    <3>1. k <= f.last \/ k <= f.pos \/ k \in reread
      BY <1>1 DEF OrderInv, FollowerIsAhead
    <3>2. k \in Nat
      <4>1. \A d \in Days : disk[d] \in Seq(Nat)
        BY DEF OrderInv, FollowTypes
      <4> QED BY <1>2, <4>1, OnDiskIs DEF Elements
    <3> QED BY <1>2, <1>3, <1>5, <3>1, <3>2
  <2>3. DaysInOrder'
    BY <1>1 DEF OrderInv, DaysInOrder, Printed
  <2>4. CASE lines[l] = w.day
    <3>1. w' = [w EXCEPT !.buf = Append(@, l)] /\ UNCHANGED <<disk, made, lost>>
      BY <2>1, <2>4 DEF Write
    <3> DEFINE b == w.buf
               n == Len(b)
    <3>2. /\ n \in Nat /\ DOMAIN b = 1 .. n /\ w'.buf = Append(b, l) /\ w'.day = w.day
          /\ w' \in [buf : Seq(Nat), day : Nat, file : {"none", "linked", "unlinked"}]
      <4> DEFINE v == Append(b, l)
      <4>1. n \in Nat /\ DOMAIN b = 1 .. n /\ v \in Seq(Nat) /\ w' = [w EXCEPT !.buf = v]
        BY <1>2, <1>3, <3>1
      <4> HIDE DEF v
      <4>2. w'.buf = v /\ w'.day = w.day
            /\ w' \in [buf : Seq(Nat), day : Nat, file : {"none", "linked", "unlinked"}]
        BY <1>2, <4>1
      <4> QED BY <4>1, <4>2 DEF v
    <3>3. /\ DOMAIN w'.buf = 1 .. n + 1 /\ w'.buf[n + 1] = l /\ \A i \in 1 .. n : w'.buf[i] = b[i]
      BY <1>2, <1>3, <3>2
    <3> HIDE DEF n, b
    <3>4. FollowTypes' /\ FilesInOrder' /\ OnDisk' = OnDisk
      <4>1. FollowTypes'
        BY <1>1, <1>3, <3>1, <3>2 DEF OrderInv, FollowTypes
      <4>2. FilesInOrder'
        BY <1>1, <3>1 DEF OrderInv, FilesInOrder, LinesOnceInOrder, Printed
      <4> QED BY <3>1, <4>1, <4>2 DEF OnDisk
    <3>5. Elements(w'.buf) = Elements(b) \cup {l}
      <4>1. \A i \in 1 .. n + 1 : i = n + 1 \/ i \in 1 .. n
        BY <3>2
      <4>2. 1 .. n \subseteq 1 .. n + 1 /\ n + 1 \in 1 .. n + 1
        BY <3>2
      <4> QED BY <3>2, <3>3, <4>1, <4>2 DEF Elements
    <3>6. \A i \in 1 .. n : b[i] \in Elements(w.buf)
      BY <3>2 DEF Elements, b
    <3>7. BufferIsNext'
      <4>1. ASSUME NEW i \in 1 .. n + 1
            PROVE  w'.buf[i] \in Printed /\ lines[w'.buf[i]] = w.day
                   /\ \A k \in OnDisk : k < w'.buf[i] \/ k \in reread
        <5>1. CASE i = n + 1
          BY <1>3, <2>2, <2>4, <3>3, <5>1
        <5>2. CASE i # n + 1
          <6>1. i \in 1 .. n
            BY <3>2, <5>2
          <6> QED BY <3>2, <3>3, <6>1 DEF OrderInv, BufferIsNext, b
        <5> QED BY <5>1, <5>2
      <4>2. ASSUME NEW i \in 1 .. n + 1, NEW j \in 1 .. n + 1, i < j
            PROVE  w'.buf[i] < w'.buf[j] \/ w'.buf[i] \in reread
        <5>1. i \in 1 .. n
          BY <3>2, <4>2
        <5>2. CASE j = n + 1
          BY <2>2, <3>3, <3>6, <5>1, <5>2
        <5>3. CASE j # n + 1
          <6>1. j \in 1 .. n
            BY <3>2, <5>3
          <6> QED BY <3>2, <3>3, <4>2, <5>1, <6>1 DEF OrderInv, BufferIsNext, b
        <5> QED BY <5>2, <5>3
      <4> QED BY <1>1, <1>3, <3>2, <3>3, <3>4, <4>1, <4>2 DEF BufferIsNext, Printed
    <3>8. FollowerIsAhead'
      <4>1. \A k \in OnDisk' \cup Elements(w'.buf) : k <= l \/ k \in reread
        BY <1>3, <2>2, <3>4, <3>5 DEF b
      <4> HIDE DEF l
      <4> QED BY <1>1, <1>3, <4>1 DEF FollowerIsAhead
    <3>9. Kept \subseteq Kept' /\ l \in Kept'
      BY <3>1, <3>4, <3>5 DEF Kept, b
    <3> QED BY <2>3, <3>4, <3>7, <3>8, <3>9 DEF OrderInv, l
  <2>5. CASE lines[l] # w.day
    <3>1. w' = [buf |-> <<l>>, day |-> lines[l], file |-> "none"] /\ (Flushed \/ FlushFails)
      BY <2>1, <2>5 DEF Write
    <3>2. /\ disk' \in [Days -> Seq(Nat)] /\ FilesInOrder' /\ OnDisk' \subseteq OnDisk \cup Elements(w.buf)
          /\ Kept \subseteq OnDisk' \cup lost'
      BY <1>1, <3>1, FlushFiles
    <3>3. /\ w'.buf = <<l>> /\ w'.day = lines[l] /\ DOMAIN w'.buf = {1} /\ w'.buf[1] = l
          /\ w' \in [buf : Seq(Nat), day : Nat, file : {"none", "linked", "unlinked"}]
      <4> DEFINE v == <<l>>
      <4>1. v \in Seq(Nat) /\ DOMAIN v = {1} /\ v[1] = l /\ lines[l] \in Nat
        <5>1. v \in Seq(Nat) /\ Len(v) = 1 /\ v[1] = l
          BY <1>3
        <5>2. DOMAIN v = {1}
          BY <5>1
        <5> QED BY <1>3, <5>1, <5>2, DaysArePositive
      <4>2. w' = [buf |-> v, day |-> lines[l], file |-> "none"]
        BY <3>1
      <4> HIDE DEF v
      <4>3. w'.buf = v /\ w'.day = lines[l]
            /\ w' \in [buf : Seq(Nat), day : Nat, file : {"none", "linked", "unlinked"}]
        BY <4>1, <4>2
      <4> QED BY <4>1, <4>3 DEF v
    <3>4. Elements(w'.buf) = {l}
      BY <3>3 DEF Elements
    <3>5. FollowTypes'
      BY <1>1, <1>3, <3>2, <3>3 DEF OrderInv, FollowTypes
    <3>6. BufferIsNext'
      <4>1. \A k \in OnDisk' : k < l \/ k \in reread
        BY <2>2, <3>2
      <4>2. l \in Printed' /\ lines'[l] = w'.day /\ f'.at = "read"
        BY <1>1, <1>3, <3>3 DEF Printed
      <4>3. \A i, j \in DOMAIN w'.buf : ~(i < j)
        BY <3>3
      <4> QED BY <1>1, <1>3, <3>3, <4>1, <4>2, <4>3 DEF BufferIsNext
    <3>7. FollowerIsAhead'
      <4>1. \A k \in OnDisk' \cup Elements(w'.buf) : k <= l \/ k \in reread
        BY <1>3, <2>2, <3>2, <3>4, DaysArePositive
      <4> HIDE DEF l
      <4> QED BY <1>1, <1>3, <4>1 DEF FollowerIsAhead
    <3>8. Kept \subseteq Kept' /\ l \in Kept'
      BY <3>2, <3>4 DEF Kept
    <3> QED BY <2>3, <3>2, <3>5, <3>6, <3>7, <3>8 DEF OrderInv, l
  <2> QED BY <2>4, <2>5
<1> QED BY <1>2, <1>3, <1>4, <1>5

LEMMA DockerInOrder ==
  ASSUME OrderInv, Prints \/ Die \/ Midnight \/ Start
  PROVE  OrderInv'
<1>1. CASE Prints
  <2> DEFINE n == Len(lines)
  <2>1. lines' = Append(lines, today) /\ UNCHANGED <<running, ends, today, f, w, disk, made, reread>>
    BY <1>1 DEF Prints
  <2>2. lines \in Seq(Days) /\ today \in Days
    BY DEF OrderInv, FollowTypes
  <2>3. /\ lines' \in Seq(Days) /\ n \in Nat /\ Printed = 1 .. n /\ Printed' = 1 .. n + 1
        /\ lines'[n + 1] = today /\ \A i \in 1 .. n : lines'[i] = lines[i]
    <3> DEFINE D == Days
    <3>1. lines \in Seq(D) /\ today \in D
      BY <2>2
    <3> HIDE DEF D
    <3>2. /\ lines' \in Seq(D) /\ n \in Nat /\ DOMAIN lines = 1 .. n /\ DOMAIN lines' = 1 .. n + 1
          /\ lines'[n + 1] = today /\ \A i \in 1 .. n : lines'[i] = lines[i]
      BY <2>1, <3>1
    <3> QED BY <3>2 DEF D, Printed
  <2> HIDE DEF n
  <2>4. FollowTypes'
    BY <2>1, <2>3 DEF OrderInv, FollowTypes
  <2>5. \A l \in Printed : l \in Printed' /\ lines'[l] = lines[l]
    BY <2>3
  <2>6. DaysInOrder'
    <3> SUFFICES ASSUME NEW k \in 1 .. n + 1, NEW l \in 1 .. n + 1
                 PROVE  lines'[l] <= today /\ (k <= l => lines'[k] <= lines'[l])
      BY <2>1, <2>3 DEF DaysInOrder
    <3>1. \A i \in 1 .. n + 1 : lines'[i] <= today /\ (i = n + 1 \/ i \in 1 .. n)
      BY <2>2, <2>3, DaysArePositive DEF OrderInv, DaysInOrder
    <3>2. CASE l = n + 1
      BY <2>3, <3>1, <3>2
    <3>3. CASE l # n + 1 /\ k <= l
      <4>1. l \in 1 .. n /\ k \in 1 .. n
        BY <2>3, <3>3
      <4> QED BY <2>3, <3>1, <4>1 DEF OrderInv, DaysInOrder
    <3> QED BY <3>1, <3>2, <3>3
  <2>7. FilesInOrder' /\ OnDisk' = OnDisk
    BY <2>1, <2>5 DEF OrderInv, FilesInOrder, LinesOnceInOrder, OnDisk
  <2>8. BufferIsNext' /\ FollowerIsAhead'
    BY <2>1, <2>5, <2>7 DEF OrderInv, BufferIsNext, FollowerIsAhead, Elements
  <2> QED BY <2>4, <2>6, <2>7, <2>8 DEF OrderInv
<1>2. CASE Midnight
  <2>1. today' = today + 1 /\ today < MaxDay /\ UNCHANGED <<lines, running, ends, f, w, disk, made, reread>>
    BY <1>2 DEF Midnight
  <2>2. today' \in Days /\ today \in Nat
    BY <2>1, DaysArePositive DEF OrderInv, FollowTypes, Days
  <2>3. FollowTypes'
    BY <2>1, <2>2 DEF OrderInv, FollowTypes
  <2>4. DaysInOrder'
    <3>1. \A l \in Printed : lines[l] \in Nat
      <4>1. \A l \in Printed : lines[l] \in Days
        BY DEF OrderInv, FollowTypes, Printed
      <4> QED BY <4>1, DaysArePositive
    <3> QED BY <2>1, <2>2, <3>1 DEF OrderInv, DaysInOrder, Printed
  <2>5. FilesInOrder' /\ BufferIsNext' /\ FollowerIsAhead'
    BY <2>1 DEF OrderInv, FilesInOrder, LinesOnceInOrder, BufferIsNext, FollowerIsAhead, Printed, OnDisk
  <2> QED BY <2>3, <2>4, <2>5 DEF OrderInv
<1>3. CASE Die \/ Start
  <2>1. running' \in BOOLEAN /\ UNCHANGED <<lines, today, f, w, disk, made, reread>>
    BY <1>3 DEF Die, Start
  <2>2. ends' \in Seq(Nat)
    <3>1. lines \in Seq(Days) /\ ends \in Seq(Nat)
      BY DEF OrderInv, FollowTypes
    <3>2. Len(lines) \in Nat
      BY <3>1
    <3> QED BY <1>3, <3>1, <3>2 DEF Die, Start
  <2>3. FollowTypes'
    BY <2>1, <2>2 DEF OrderInv, FollowTypes
  <2>4. DaysInOrder' /\ FilesInOrder' /\ BufferIsNext' /\ FollowerIsAhead'
    BY <2>1 DEF OrderInv, DaysInOrder, FilesInOrder, LinesOnceInOrder, BufferIsNext, FollowerIsAhead, Printed, OnDisk
  <2> QED BY <2>3, <2>4 DEF OrderInv
<1> QED BY <1>1, <1>2, <1>3

LEMMA FollowerInOrder ==
  ASSUME OrderInv, OnStart \/ Tick \/ ReadFails \/ ReadEnds \/ FollowerEnds
  PROVE  OrderInv' /\ UNCHANGED <<lines, running, ends, w, disk, lost>>
<1> DEFINE F == [at : Places, again : BOOLEAN, last : Nat, pos : Nat, run : Nat]
<1>1. UNCHANGED <<lines, today, running, ends, w, disk, made, reread, lost>>
  BY DEF OnStart, Tick, ReadFails, ReadEnds, FollowerEnds, dockerVars
<1>2. f \in F
  BY DEF OrderInv, FollowTypes
<1>3. f' \in F /\ (f'.at = "read" => f' = [f EXCEPT !.again = f'.again]) /\ (f'.at \notin {"read", "close"} => w.buf = <<>>)
  <2>1. \A r \in BOOLEAN : /\ Follow(r) \in F
                           /\ Follow(r).at = "read" => Follow(r) = [f EXCEPT !.again = Follow(r).again]
                           /\ Follow(r).at \notin {"read", "close"} => w.buf = <<>>
    <3> SUFFICES ASSUME NEW r \in BOOLEAN
                 PROVE  /\ Follow(r) \in F
                        /\ Follow(r).at = "read" => Follow(r) = [f EXCEPT !.again = Follow(r).again]
                        /\ Follow(r).at \notin {"read", "close"} => w.buf = <<>>
      OBVIOUS
    <3>1. f.at \notin {"read", "close"} => w.buf = <<>>
      BY DEF OrderInv, BufferIsNext
    <3>2. CASE store # "open"
      <4>1. Follow(r) = f
        BY <3>2 DEF Follow
      <4>2. f = [f EXCEPT !.again = f.again]
        BY <1>2
      <4> QED BY <1>2, <3>1, <4>1, <4>2
    <3>3. CASE store = "open" /\ f.at # "none"
      <4> DEFINE a == f.again \/ r
      <4>1. a \in BOOLEAN
        OBVIOUS
      <4>2. Follow(r) = [f EXCEPT !.again = a]
        BY <3>3 DEF Follow
      <4> HIDE DEF a
      <4>3. Follow(r) \in F /\ Follow(r).at = f.at /\ Follow(r).again = a
        BY <1>2, <4>1, <4>2
      <4> QED BY <3>1, <4>2, <4>3
    <3>4. CASE store = "open" /\ f.at = "none"
      <4>1. Follow(r) = [NoFollower EXCEPT !.at = "start"]
        BY <3>4 DEF Follow
      <4>2. Follow(r) \in F /\ Follow(r).at = "start"
        BY <4>1, NothingFollows DEF Places
      <4> QED BY <3>1, <3>4, <4>2
    <3> QED BY <3>2, <3>3, <3>4
  <2>2. CASE OnStart \/ Tick
    BY <2>1, <2>2 DEF OnStart, Tick
  <2>3. CASE ReadFails \/ ReadEnds
    <3>1. f' = [NoFollower EXCEPT !.at = "close", !.again = f.again]
      BY <2>3 DEF ReadFails, ReadEnds
    <3> QED BY <1>2, <3>1, NothingFollows DEF Places
  <2>4. CASE FollowerEnds
    <3>1. f' \in {NoFollower, [NoFollower EXCEPT !.at = "start"]} /\ f.at = "tail"
      BY <2>4 DEF FollowerEnds
    <3>2. f' \in F /\ f'.at \in {"none", "start"}
      BY <3>1, NothingFollows DEF Places
    <3>3. w.buf = <<>>
      BY <3>1 DEF OrderInv, BufferIsNext
    <3> QED BY <3>2, <3>3
  <2> QED BY <2>2, <2>3, <2>4
<1>4. f'.at = "read" => f.at = "read" /\ f'.last = f.last /\ f.pos <= f'.pos
  BY <1>2, <1>3
<1>5. FollowTypes' /\ FilesInOrder' /\ OnDisk' = OnDisk
  BY <1>1, <1>3 DEF OrderInv, FollowTypes, FilesInOrder, LinesOnceInOrder, Printed, OnDisk
<1> QED BY <1>1, <1>3, <1>4, <1>5, LessIsInOrder

LEMMA WriterInOrder ==
  ASSUME OrderInv, Flush \/ CloseWriter \/ PurgePlans \/ PurgeRemoves \/ PurgeEnds
  PROVE  /\ OrderInv' /\ Kept \subseteq Kept' /\ UNCHANGED <<lines, running, ends>>
         /\ UNCHANGED f \/ (CloseWriter /\ f.at = "close" /\ f'.at = "tail" /\ f'.again = f.again)
<1> DEFINE F == [at : Places, again : BOOLEAN, last : Nat, pos : Nat, run : Nat]
           W == [buf : Seq(Nat), day : Nat, file : {"none", "linked", "unlinked"}]
<1>1. UNCHANGED <<lines, today, running, ends, reread>>
  BY DEF Flush, CloseWriter, PurgePlans, PurgeRemoves, PurgeEnds, dockerVars
<1>2. f \in F /\ w \in W
  BY DEF OrderInv, FollowTypes
<1>3. CASE Flush \/ CloseWriter
  <2>1. /\ disk' \in [Days -> Seq(Nat)] /\ FilesInOrder' /\ OnDisk' \subseteq OnDisk \cup Elements(w.buf)
        /\ Kept \subseteq OnDisk' \cup lost'
    <3>1. Flushed \/ FlushFails
      BY <1>3 DEF Flush, FlushFails, CloseWriter
    <3> QED BY <1>1, <3>1, FlushFiles
  <2>2. w' \in W /\ w'.buf = <<>>
    <3>1. CASE Flush
      <4>1. /\ FileAfterFlush \in {"none", "linked", "unlinked"}
            /\ \/ w' = [w EXCEPT !.buf = <<>>, !.file = FileAfterFlush]
               \/ w' = [w EXCEPT !.buf = <<>>]
        BY <1>2, <3>1 DEF Flush, FileAfterFlush
      <4>2. <<>> \in Seq(Nat)
        OBVIOUS
      <4> HIDE DEF FileAfterFlush
      <4> QED BY <1>2, <4>1, <4>2
    <3>2. CASE CloseWriter
      BY <3>2, NothingIsWritten DEF CloseWriter
    <3> QED BY <1>3, <3>1, <3>2
  <2>3. f' \in F /\ (f'.at # "read" \/ f' = f)
    BY <1>2, <1>3, NothingFollows DEF Flush, CloseWriter, Places
  <2>4. UNCHANGED f \/ (CloseWriter /\ f.at = "close" /\ f'.at = "tail" /\ f'.again = f.again)
    BY <1>2, <1>3, NothingFollows DEF Flush, CloseWriter
  <2>5. FollowTypes'
    BY <1>1, <1>2, <2>1, <2>2, <2>3 DEF OrderInv, FollowTypes
  <2>6. f'.at = "read" => f.at = "read" /\ f'.last = f.last /\ f.pos <= f'.pos
    BY <1>2, <2>3
  <2>7. OrderInv'
    BY <1>1, <2>1, <2>2, <2>5, <2>6, LessIsInOrder
  <2> QED BY <1>1, <2>1, <2>4, <2>7 DEF Kept
<1>4. CASE PurgePlans \/ PurgeEnds
  <2>1. UNCHANGED <<f, disk, made, lost>> /\ w' = [w EXCEPT !.file = "none"]
    BY <1>4 DEF PurgePlans, PurgeEnds, DropFile
  <2>2. w' \in W /\ w'.buf = w.buf /\ w'.day = w.day
    BY <1>2, <2>1
  <2>3. FollowTypes' /\ FilesInOrder' /\ OnDisk' = OnDisk
    BY <1>1, <2>1, <2>2 DEF OrderInv, FollowTypes, FilesInOrder, LinesOnceInOrder, Printed, OnDisk
  <2>4. OrderInv'
    <3>1. f'.at \notin {"read", "close"} => w'.buf = <<>>
      BY <2>1, <2>2 DEF OrderInv, BufferIsNext
    <3> QED BY <1>1, <1>2, <2>1, <2>2, <2>3, <3>1, LessIsInOrder
  <2> QED BY <1>1, <2>1, <2>2, <2>3, <2>4 DEF Kept, Elements
<1>5. CASE PurgeRemoves
  <2>1. /\ disk' = [d \in Days |-> IF d \in purge.left THEN <<>> ELSE disk[d]] /\ UNCHANGED f
        /\ made' = made \ purge.left
        /\ lost' = lost \cup UNION {Elements(disk[d]) : d \in purge.left}
        /\ w' = w \/ w' = [w EXCEPT !.file = "unlinked"]
    BY <1>5 DEF PurgeRemoves
  <2>2. w' \in W /\ w'.buf = w.buf /\ w'.day = w.day
    BY <1>2, <2>1
  <2>3. disk' \in [Days -> Seq(Nat)] /\ \A d \in Days : disk'[d] = disk[d] \/ (disk'[d] = <<>> /\ d \in purge.left)
    BY <2>1 DEF OrderInv, FollowTypes
  <2>4. FollowTypes' /\ FilesInOrder'
    BY <1>1, <2>1, <2>2, <2>3 DEF OrderInv, FollowTypes, FilesInOrder, LinesOnceInOrder, Printed
  <2>5. OnDisk' \subseteq OnDisk
    BY <2>3 DEF OnDisk, Elements
  <2>6. OnDisk \subseteq OnDisk' \cup lost' /\ lost \subseteq lost'
    BY <2>1, <2>3 DEF OnDisk
  <2>7. OrderInv'
    <3>1. f'.at \notin {"read", "close"} => w'.buf = <<>>
      BY <2>1, <2>2 DEF OrderInv, BufferIsNext
    <3> QED BY <1>1, <1>2, <2>1, <2>2, <2>4, <2>5, <3>1, LessIsInOrder
  <2> QED BY <1>1, <2>1, <2>2, <2>6, <2>7 DEF Kept, Elements
<1> QED BY <1>3, <1>4, <1>5

LEMMA KilledInOrder ==
  ASSUME OrderInv, Kill
  PROVE  OrderInv'
<1>1. f' = NoFollower /\ w' = NoWriter /\ UNCHANGED <<lines, today, running, ends, disk, reread>>
  BY DEF Kill, dockerVars
<1>2. made \subseteq made' /\ made' \subseteq Days
  <2>1. CASE w.buf = <<>>
    BY <2>1 DEF Kill, OrderInv, FilesInOrder
  <2>2. CASE w.buf # <<>>
    <3>1. w.buf \in Seq(Nat) /\ lines \in Seq(Days)
      BY DEF OrderInv, FollowTypes
    <3>2. 1 \in DOMAIN w.buf
      BY <2>2, <3>1
    <3>3. w.buf[1] \in Printed /\ lines[w.buf[1]] = w.day
      BY <3>2 DEF OrderInv, BufferIsNext
    <3>4. w.day \in Days
      BY <3>1, <3>3 DEF Printed
    <3> QED BY <3>4 DEF Kill, OrderInv, FilesInOrder
  <2> QED BY <2>1, <2>2
<1>3. FollowTypes' /\ FilesInOrder' /\ OnDisk' = OnDisk
  BY <1>1, <1>2, NothingFollows, NothingIsWritten
     DEF OrderInv, FollowTypes, FilesInOrder, LinesOnceInOrder, Printed, OnDisk
<1> QED BY <1>1, <1>3, LessIsInOrder, NothingFollows, NothingIsWritten

LEMMA NothingDisturbs ==
  ASSUME OrderInv, UNCHANGED <<lines, running, ends, today, f, w, disk, made, reread>>
  PROVE  OrderInv'
BY DEF OrderInv, FollowTypes, DaysInOrder, FilesInOrder, LinesOnceInOrder, BufferIsNext, FollowerIsAhead, Printed, OnDisk

LEMMA OrderStep ==
  ASSUME OrderInv, [FollowNext]_followVars
  PROVE  OrderInv'
<1>1. CASE Miss \/ OnDie \/ DrainTimesOut \/ StopLogs \/ Stopped \/ OpenStore \/ UNCHANGED followVars
  <2>1. UNCHANGED <<lines, running, ends, today, f, w, disk, made, reread>>
    BY <1>1 DEF Miss, OnDie, DrainTimesOut, StopLogs, Stopped, OpenStore, followVars, dockerVars
  <2> QED BY <2>1, NothingDisturbs
<1> QED BY <1>1, DockerInOrder, FollowerInOrder, WriterInOrder, OpensInOrder, ReadsInOrder, KilledInOrder DEF FollowNext

(***************************************************************************)
(* What a run printed. A follower that reads has seen to every line before *)
(* the one it is at (ReadIsKept); and for each run whose end is not        *)
(* handled yet it reads that run, has read all of it, or will start again, *)
(* unless the event of a start comes first (EndsAreCovered). That holds    *)
(* only while the store is open and neither an event was missed nor a call *)
(* failed.                                                                 *)
(***************************************************************************)
QueueTypes ==
  /\ events \in Seq(Nat) /\ \A i \in DOMAIN events : events[i] <= Len(ends)
  /\ \A i \in DOMAIN ends : ends[i] <= Len(lines) /\ \A j \in DOMAIN ends : i <= j => ends[i] <= ends[j]
  /\ watch = "await" => events # <<>> /\ Head(events) # AStart
  /\ store # "open" => events = <<>> /\ watch = "idle"
  /\ store = "down" => f.at = "none"

ReadIsKept ==
  f.at = "read" =>
    /\ f.last <= f.pos + 1 /\ \A l \in 1 .. f.pos : l \in Kept
    /\ f.last > 0 => f.last \in Kept

RunIsKept(r) == r <= Len(ends) /\ \A l \in 1 .. EndOf(r) : l \in Kept

Covers(r) ==
  \/ f.at \in {"none", "start"} \/ f.again
  \/ f.at = "read" /\ r <= f.run
  \/ f.at \in {"close", "tail"} /\ RunIsKept(r)

EndsAreCovered ==
  store = "open" /\ mishaps \subseteq {"kill"} =>
    \A r \in Nat \ {AStart} :
      /\ \A i \in DOMAIN events :
           events[i] = r => Covers(r) \/ \E j \in DOMAIN events : j < i /\ events[j] = AStart
      /\ running /\ r = Len(ends) + 1 => Covers(r) \/ \E j \in DOMAIN events : events[j] = AStart

RecordInv == QueueTypes /\ ReadIsKept /\ EndsAreCovered

LEMMA RecordStarts == FollowInit => RecordInv
<1> SUFFICES ASSUME FollowInit PROVE RecordInv
  OBVIOUS
<1>1. f.at = "none" /\ store = "down" /\ events = <<>> /\ ends = <<>> /\ watch = "idle"
  BY NothingFollows DEF FollowInit
<1>2. <<>> \in Seq(Nat)
  OBVIOUS
<1> QED BY <1>1, <1>2 DEF RecordInv, QueueTypes, ReadIsKept, EndsAreCovered

(* The first event taken off the queue: a start, after which the follower    *)
(* covers everything, or an end.                                             *)
LEMMA TakenOff ==
  ASSUME OrderInv, RecordInv, events # <<>>, events' = Tail(events)
  PROVE  /\ events' \in Seq(Nat)
         /\ \A i \in DOMAIN events' : i + 1 \in DOMAIN events /\ events'[i] = events[i + 1]
         /\ \A j \in DOMAIN events : j = 1 \/ (j - 1 \in DOMAIN events' /\ events'[j - 1] = events[j])
         /\ Head(events) = events[1] /\ 1 \in DOMAIN events
<1> DEFINE n == Len(events)
<1>1. events \in Seq(Nat)
  BY DEF RecordInv, QueueTypes
<1>2. /\ n \in Nat \ {0} /\ DOMAIN events = 1 .. n /\ DOMAIN events' = 1 .. n - 1 /\ events' \in Seq(Nat)
      /\ \A i \in 1 .. n - 1 : events'[i] = events[i + 1]
      /\ Head(events) = events[1]
  BY <1>1
<1> HIDE DEF n
<1>3. \A j \in 1 .. n : j = 1 \/ (j - 1 \in 1 .. n - 1 /\ (j - 1) + 1 = j)
  BY <1>2
<1> QED BY <1>2, <1>3

LEMMA EndsAreNat ==
  ASSUME OrderInv, RecordInv
  PROVE  /\ Len(ends) \in Nat /\ Len(lines) \in Nat /\ DOMAIN ends = 1 .. Len(ends)
         /\ \A r \in Nat : r <= Len(ends) => EndOf(r) \in Nat
         /\ \A r, q \in Nat : r <= q /\ q <= Len(ends) => EndOf(r) <= EndOf(q)
<1>1. ends \in Seq(Nat) /\ lines \in Seq(Days)
  BY DEF OrderInv, FollowTypes
<1>2. Len(ends) \in Nat /\ Len(lines) \in Nat /\ DOMAIN ends = 1 .. Len(ends) /\ \A i \in 1 .. Len(ends) : ends[i] \in Nat
  BY <1>1
<1>3. \A r \in Nat : r <= Len(ends) => EndOf(r) \in Nat
  BY <1>2 DEF EndOf
<1>4. \A r, q \in Nat : r <= q /\ q <= Len(ends) => EndOf(r) <= EndOf(q)
  BY <1>2, SMTT(30) DEF EndOf, RecordInv, QueueTypes
<1> QED BY <1>2, <1>3, <1>4

(* Whatever else happens, what is kept stays kept, and the follower goes on  *)
(* covering what it covers.                                                  *)
LEMMA StaysCovered ==
  ASSUME OrderInv, RecordInv, UNCHANGED <<running, ends, events, watch, store>>, mishaps \subseteq mishaps',
         Len(lines) <= Len(lines)', Len(lines)' \in Nat, Kept \subseteq Kept', OrderInv',
         UNCHANGED f \/ (f'.at = f.at /\ f'.run = f.run /\ f'.again = f.again /\ ReadIsKept')
           \/ (f.at = "close" /\ f'.at = "tail" /\ f'.again = f.again)
  PROVE  RecordInv'
<1>1. QueueTypes'
  <2>1. store' = "down" => f'.at = "none"
    BY DEF RecordInv, QueueTypes
  <2>2. \A i \in DOMAIN ends : ends[i] <= Len(lines)'
    <3>1. \A i \in DOMAIN ends : ends[i] \in Nat /\ ends[i] <= Len(lines)
      <4>1. ends \in Seq(Nat)
        BY DEF OrderInv, FollowTypes
      <4> QED BY <4>1 DEF RecordInv, QueueTypes
    <3> QED BY <3>1, EndsAreNat
  <2> QED BY <2>1, <2>2 DEF RecordInv, QueueTypes
<1>2. ReadIsKept'
  BY DEF RecordInv, ReadIsKept
<1>3. \A r \in Nat : Covers(r) => Covers(r)'
  <2>1. \A r \in Nat : RunIsKept(r) => RunIsKept(r)'
    BY DEF RunIsKept, EndOf
  <2> QED BY <2>1 DEF Covers
<1>4. \A i \in DOMAIN events : events[i] \in Nat
  BY DEF RecordInv, QueueTypes
<1>5. Len(ends) + 1 \in Nat
  BY EndsAreNat
<1>6. EndsAreCovered'
  BY <1>3, <1>4, <1>5 DEF RecordInv, EndsAreCovered
<1> QED BY <1>1, <1>2, <1>6 DEF RecordInv

LEMMA NewlyCovered ==
  ASSUME QueueTypes', ReadIsKept',
         f'.at \in {"none", "start"} \/ f'.again \/ store' # "open" \/ ~(mishaps' \subseteq {"kill"})
  PROVE  RecordInv'
BY DEF RecordInv, EndsAreCovered, Covers

LEMMA TakenOffTypes ==
  ASSUME OrderInv, RecordInv, events # <<>>, events' = Tail(events), watch' = "idle",
         UNCHANGED <<lines, ends, store>>, store' = "down" => f'.at = "none"
  PROVE  QueueTypes'
<1>1. events' \in Seq(Nat) /\ \A i \in DOMAIN events' : i + 1 \in DOMAIN events /\ events'[i] = events[i + 1]
  BY TakenOff
<1>2. \A i \in DOMAIN events' : events'[i] <= Len(ends)
  BY <1>1 DEF RecordInv, QueueTypes
<1>3. store = "open"
  BY DEF RecordInv, QueueTypes
<1> QED BY <1>1, <1>2, <1>3 DEF RecordInv, QueueTypes

(* Docker says one more thing.                                               *)
LEMMA SaidMore ==
  ASSUME OrderInv, RecordInv, NEW e \in Nat, events' = Notify(e), store = "open"
  PROVE  /\ events' \in Seq(Nat) /\ (events # <<>> => events' # <<>> /\ Head(events') = Head(events))
         /\ \A i \in DOMAIN events : i \in DOMAIN events' /\ events'[i] = events[i]
         /\ \E k \in DOMAIN events' : events'[k] = e /\ (\A i \in DOMAIN events : i < k)
                                      /\ \A i \in DOMAIN events' : i = k \/ i \in DOMAIN events
<1> DEFINE n == Len(events)
<1>1. events \in Seq(Nat) /\ events' = Append(events, e)
  BY DEF RecordInv, QueueTypes, Notify
<1>2. /\ n \in Nat /\ DOMAIN events = 1 .. n /\ DOMAIN events' = 1 .. n + 1 /\ events' \in Seq(Nat)
      /\ \A i \in 1 .. n : events'[i] = events[i]
      /\ events'[n + 1] = e
  BY <1>1
<1>3. events # <<>> => events' # <<>> /\ Head(events') = Head(events)
  BY <1>1
<1> HIDE DEF n
<1>4. n + 1 \in 1 .. n + 1 /\ (\A i \in 1 .. n : i < n + 1 /\ i \in 1 .. n + 1) /\ \A i \in 1 .. n + 1 : i = n + 1 \/ i \in 1 .. n
  BY <1>2
<1> QED BY <1>2, <1>3, <1>4

LEMMA StartIsRecorded ==
  ASSUME OrderInv, RecordInv, Start
  PROVE  RecordInv'
<1>1. running' = TRUE /\ events' = Notify(AStart) /\ UNCHANGED <<lines, ends, watch, store, f, w, disk, lost, mishaps>>
  BY DEF Start
<1>2. ReadIsKept'
  BY <1>1 DEF RecordInv, ReadIsKept, Kept, OnDisk, Elements
<1>3. CASE store # "open"
  <2>1. events' = events
    BY <1>1, <1>3 DEF Notify
  <2> QED BY <1>1, <1>2, <1>3, <2>1, NewlyCovered DEF RecordInv, QueueTypes
<1>4. CASE store = "open"
  <2>1. /\ events' \in Seq(Nat) /\ (events # <<>> => events' # <<>> /\ Head(events') = Head(events))
        /\ \A i \in DOMAIN events : i \in DOMAIN events' /\ events'[i] = events[i]
    BY <1>1, <1>4, SaidMore DEF AStart
  <2>2. PICK k \in DOMAIN events' : /\ events'[k] = AStart /\ (\A i \in DOMAIN events : i < k)
                                    /\ \A i \in DOMAIN events' : i = k \/ i \in DOMAIN events
    BY <1>1, <1>4, SaidMore DEF AStart
  <2>3. Len(ends) \in Nat
    BY EndsAreNat
  <2>4. QueueTypes'
    <3>1. \A i \in DOMAIN events' : events'[i] <= Len(ends)
      BY <2>1, <2>2, <2>3 DEF RecordInv, QueueTypes, AStart
    <3> QED BY <1>1, <1>4, <2>1, <3>1 DEF RecordInv, QueueTypes
  <2>5. \A r : Covers(r)' = Covers(r)
    BY <1>1 DEF Covers, RunIsKept, EndOf, Kept, OnDisk, Elements
  <2>6. EndsAreCovered'
    BY <1>1, <1>4, <2>1, <2>2, <2>5 DEF RecordInv, EndsAreCovered
  <2> QED BY <1>2, <2>4, <2>6 DEF RecordInv
<1> QED BY <1>3, <1>4

LEMMA DieIsRecorded ==
  ASSUME OrderInv, RecordInv, Die
  PROVE  RecordInv'
<1> DEFINE r == Len(ends) + 1
           m == Len(lines)
<1>1. /\ running = TRUE /\ running' = FALSE /\ ends' = Append(ends, m) /\ events' = Notify(r)
      /\ UNCHANGED <<lines, watch, store, f, w, disk, lost, mishaps>>
  BY DEF Die
<1>2. Len(ends) \in Nat /\ m \in Nat /\ DOMAIN ends = 1 .. Len(ends) /\ ends \in Seq(Nat)
  BY EndsAreNat DEF OrderInv, FollowTypes
<1>3. r \in Nat /\ r # AStart /\ Len(ends) < r /\ Len(ends') = r
  BY <1>1, <1>2 DEF AStart
<1>4. DOMAIN ends' = 1 .. r /\ ends'[r] = m /\ \A i \in 1 .. Len(ends) : ends'[i] = ends[i]
  BY <1>1, <1>2
<1> HIDE DEF r, m
<1>5. \A i \in 1 .. Len(ends) : ends[i] \in Nat /\ ends[i] <= m /\ \A j \in 1 .. Len(ends) : i <= j => ends[i] <= ends[j]
  <2>1. \A i \in 1 .. Len(ends) : ends[i] \in Nat
    BY <1>2
  <2>2. \A i \in 1 .. Len(ends) : ends[i] <= m /\ \A j \in 1 .. Len(ends) : i <= j => ends[i] <= ends[j]
    BY <1>2 DEF RecordInv, QueueTypes, m
  <2> QED BY <2>1, <2>2
<1>6. \A i \in DOMAIN ends' : ends'[i] <= Len(lines') /\ \A j \in DOMAIN ends' : i <= j => ends'[i] <= ends'[j]
  <2> SUFFICES ASSUME NEW i \in 1 .. r, NEW j \in 1 .. r
               PROVE  ends'[i] <= m /\ (i <= j => ends'[i] <= ends'[j])
    BY <1>1, <1>4 DEF m
  <2>1. (i = r \/ i \in 1 .. Len(ends)) /\ (j = r \/ j \in 1 .. Len(ends))
    BY <1>2, <1>3 DEF r
  <2>2. ends'[i] <= m
    BY <1>2, <1>4, <1>5, <2>1
  <2>3. i <= j => ends'[i] <= ends'[j]
    BY <1>2, <1>3, <1>4, <1>5, <2>1
  <2> QED BY <2>2, <2>3
<1>7. ReadIsKept'
  BY <1>1 DEF RecordInv, ReadIsKept, Kept, OnDisk, Elements
<1>8. CASE store # "open"
  <2>1. events' = events
    BY <1>1, <1>8 DEF Notify
  <2>2. QueueTypes'
    BY <1>1, <1>6, <1>8, <2>1 DEF RecordInv, QueueTypes
  <2> QED BY <1>1, <1>7, <1>8, <2>2, NewlyCovered
<1>9. CASE store = "open"
  <2>1. /\ events' \in Seq(Nat) /\ (events # <<>> => events' # <<>> /\ Head(events') = Head(events))
        /\ \A i \in DOMAIN events : i \in DOMAIN events' /\ events'[i] = events[i]
    BY <1>1, <1>3, <1>9, SaidMore
  <2>2. PICK k \in DOMAIN events' : /\ events'[k] = r /\ (\A i \in DOMAIN events : i < k)
                                    /\ \A i \in DOMAIN events' : i = k \/ i \in DOMAIN events
    BY <1>1, <1>3, <1>9, SaidMore
  <2>3. \A i \in DOMAIN events : events[i] \in Nat /\ events[i] <= Len(ends)
    BY DEF RecordInv, QueueTypes
  <2>4. QueueTypes'
    <3>1. \A i \in DOMAIN events' : events'[i] <= Len(ends')
      <4> SUFFICES ASSUME NEW i \in DOMAIN events' PROVE events'[i] <= r
        BY <1>3
      <4>1. CASE i = k
        BY <1>3, <2>2, <4>1
      <4>2. CASE i \in DOMAIN events
        <5>1. events'[i] = events[i] /\ events[i] \in Nat /\ events[i] <= Len(ends)
          BY <2>1, <2>3, <4>2
        <5> QED BY <1>2, <1>3, <5>1
      <4> QED BY <2>2, <4>1, <4>2
    <3> QED BY <1>1, <1>6, <1>9, <2>1, <3>1 DEF RecordInv, QueueTypes
  <2>5. \A q \in Nat : Covers(q) => Covers(q)'
    <3>1. \A q \in Nat : q <= Len(ends) => EndOf(q)' = EndOf(q)
      BY <1>2, <1>4 DEF EndOf
    <3>2. \A q \in Nat : RunIsKept(q) => RunIsKept(q)'
      BY <1>1, <1>2, <1>3, <3>1 DEF RunIsKept, Kept, OnDisk, Elements
    <3> QED BY <1>1, <3>2 DEF Covers
  <2>6. EndsAreCovered'
    <3> SUFFICES ASSUME mishaps' \subseteq {"kill"}, NEW q \in Nat \ {AStart}, NEW i \in DOMAIN events', events'[i] = q
                 PROVE  Covers(q)' \/ \E j \in DOMAIN events' : j < i /\ events'[j] = AStart
      BY <1>1 DEF EndsAreCovered
    <3>1. CASE i = k
      <4>1. Covers(r) \/ \E j \in DOMAIN events : events[j] = AStart
        BY <1>1, <1>3, <1>9 DEF RecordInv, EndsAreCovered, r
      <4>2. q = r
        BY <2>2, <3>1
      <4>3. CASE Covers(r)
        BY <1>3, <2>5, <4>2, <4>3
      <4>4. ASSUME NEW j \in DOMAIN events, events[j] = AStart
            PROVE  j \in DOMAIN events' /\ j < i /\ events'[j] = AStart
        BY <2>1, <2>2, <3>1, <4>4
      <4> QED BY <4>1, <4>3, <4>4
    <3>2. CASE i \in DOMAIN events
      <4>1. Covers(q) \/ \E j \in DOMAIN events : j < i /\ events[j] = AStart
        BY <1>1, <1>9, <2>1, <3>2 DEF RecordInv, EndsAreCovered
      <4> QED BY <2>1, <2>5, <3>2, <4>1
    <3> QED BY <2>2, <3>1, <3>2
  <2> QED BY <1>7, <2>4, <2>6 DEF RecordInv
<1> QED BY <1>8, <1>9

LEMMA EventsAreRecorded ==
  ASSUME OrderInv, OrderInv', RecordInv, Miss \/ OnStart \/ OnDie \/ DrainTimesOut \/ Tick
  PROVE  RecordInv'
<1>1. UNCHANGED <<lines, running, ends, store, w, disk, lost>> /\ mishaps \subseteq mishaps'
  BY DEF Miss, Befalls, OnStart, OnDie, DrainTimesOut, Tick, dockerVars
<1>2. CASE Miss
  <2>1. events # <<>> /\ events' = Tail(events) /\ watch' = "idle" /\ UNCHANGED f /\ "miss" \in mishaps'
    BY <1>2 DEF Miss, Befalls
  <2>2. QueueTypes'
    BY <1>1, <2>1, TakenOffTypes DEF RecordInv, QueueTypes
  <2>3. ReadIsKept'
    BY <1>1, <2>1 DEF RecordInv, ReadIsKept, Kept, OnDisk, Elements
  <2> QED BY <2>1, <2>2, <2>3, NewlyCovered
<1>3. CASE OnStart
  <2>1. events # <<>> /\ events' = Tail(events) /\ watch' = "idle" /\ f' = Follow(TRUE)
    BY <1>3 DEF OnStart
  <2>2. store = "open"
    BY <2>1 DEF RecordInv, QueueTypes
  <2>3. CASE f.at = "none"
    <3>1. f'.at = "start"
      BY <2>1, <2>2, <2>3 DEF Follow, NoFollower
    <3>2. QueueTypes' /\ ReadIsKept'
      BY <1>1, <2>1, <2>2, <3>1, TakenOffTypes DEF ReadIsKept
    <3> QED BY <3>1, <3>2, NewlyCovered
  <2>4. CASE f.at # "none"
    <3>1. f' = [f EXCEPT !.again = TRUE]
      BY <2>1, <2>2, <2>4 DEF Follow
    <3>2. f \in [at : Places, again : BOOLEAN, last : Nat, pos : Nat, run : Nat]
      BY DEF OrderInv, FollowTypes
    <3>3. f'.again /\ f'.at = f.at /\ f'.last = f.last /\ f'.pos = f.pos
      BY <3>1, <3>2
    <3>4. QueueTypes'
      BY <1>1, <2>1, <2>2, TakenOffTypes
    <3>5. ReadIsKept'
      BY <1>1, <3>3 DEF RecordInv, ReadIsKept, Kept, OnDisk, Elements
    <3> QED BY <3>3, <3>4, <3>5, NewlyCovered
  <2> QED BY <2>3, <2>4
<1>4. CASE OnDie /\ f.at = "none"
  <2>1. events # <<>> /\ events' = Tail(events) /\ watch' = "idle" /\ UNCHANGED f
    BY <1>4 DEF OnDie
  <2>2. QueueTypes' /\ ReadIsKept'
    BY <1>1, <1>4, <2>1, TakenOffTypes DEF ReadIsKept
  <2> QED BY <1>4, <2>1, <2>2, NewlyCovered
<1>5. CASE OnDie /\ f.at # "none"
  <2>1. watch' = "await" /\ events # <<>> /\ Head(events) # AStart /\ UNCHANGED <<events, f, mishaps>>
    BY <1>5 DEF OnDie
  <2>2. store = "open"
    BY <2>1 DEF RecordInv, QueueTypes
  <2>3. QueueTypes'
    BY <1>1, <2>1, <2>2 DEF RecordInv, QueueTypes
  <2>4. ReadIsKept' /\ EndsAreCovered'
    BY <1>1, <2>1 DEF RecordInv, ReadIsKept, EndsAreCovered, Covers, RunIsKept, EndOf, Kept, OnDisk, Elements
  <2> QED BY <2>3, <2>4 DEF RecordInv
<1>6. CASE DrainTimesOut
  <2>1. watch = "await" /\ watch' = "idle" /\ events' = Tail(events) /\ UNCHANGED <<f, mishaps>>
    BY <1>6 DEF DrainTimesOut
  <2>2. events # <<>> /\ Head(events) # AStart /\ store = "open"
    BY <2>1 DEF RecordInv, QueueTypes
  <2>3. QueueTypes'
    BY <1>1, <2>1, <2>2, TakenOffTypes
  <2>4. /\ events \in Seq(Nat) /\ events[1] # AStart
        /\ \A i \in DOMAIN events' : i \in Nat /\ i + 1 \in DOMAIN events /\ events'[i] = events[i + 1]
        /\ \A j \in DOMAIN events : j \in Nat /\ (j = 1 \/ (j - 1 \in DOMAIN events' /\ events'[j - 1] = events[j]))
    <3>1. events \in Seq(Nat)
      BY DEF RecordInv, QueueTypes
    <3>2. events' \in Seq(Nat)
      BY <2>1, <2>2, TakenOff
    <3> QED BY <2>1, <2>2, <3>1, <3>2, TakenOff
  <2>5. \A r : Covers(r)' = Covers(r)
    BY <1>1, <2>1 DEF Covers, RunIsKept, EndOf, Kept, OnDisk, Elements
  <2>6. EndsAreCovered'
    <3> SUFFICES ASSUME mishaps' \subseteq {"kill"}, NEW r \in Nat \ {AStart}
                 PROVE  /\ \A i \in DOMAIN events' : events'[i] = r =>
                              Covers(r)' \/ \E j \in DOMAIN events' : j < i /\ events'[j] = AStart
                        /\ running /\ r = Len(ends) + 1 => Covers(r)' \/ \E j \in DOMAIN events' : events'[j] = AStart
      BY <1>1 DEF EndsAreCovered
    <3>1. /\ \A i \in DOMAIN events :
               events[i] = r => Covers(r) \/ \E j \in DOMAIN events : j < i /\ events[j] = AStart
          /\ running /\ r = Len(ends) + 1 => Covers(r) \/ \E j \in DOMAIN events : events[j] = AStart
      BY <2>1, <2>2 DEF RecordInv, EndsAreCovered
    <3>2. ASSUME NEW i \in DOMAIN events', events'[i] = r
          PROVE  Covers(r)' \/ \E j \in DOMAIN events' : j < i /\ events'[j] = AStart
      <4>1. i \in Nat /\ (Covers(r) \/ \E j \in DOMAIN events : j < i + 1 /\ events[j] = AStart)
        BY <2>4, <3>1, <3>2
      <4>2. ASSUME NEW j \in DOMAIN events, j < i + 1, events[j] = AStart
            PROVE  j - 1 \in DOMAIN events' /\ j - 1 < i /\ events'[j - 1] = AStart
        BY <2>4, <4>1, <4>2
      <4> QED BY <2>5, <4>1, <4>2
    <3>3. ASSUME running, r = Len(ends) + 1
          PROVE  Covers(r)' \/ \E j \in DOMAIN events' : events'[j] = AStart
      <4>1. ASSUME NEW j \in DOMAIN events, events[j] = AStart
            PROVE  j - 1 \in DOMAIN events' /\ events'[j - 1] = AStart
        BY <2>4, <4>1
      <4> QED BY <2>5, <3>1, <3>3, <4>1
    <3> QED BY <3>2, <3>3
  <2>7. ReadIsKept'
    BY <1>1, <2>1 DEF RecordInv, ReadIsKept, Kept, OnDisk, Elements
  <2> QED BY <2>3, <2>6, <2>7 DEF RecordInv
<1>7. CASE Tick
  <2>1. f' = Follow(FALSE) /\ store = "open" /\ f.at = "none" /\ UNCHANGED <<events, watch>>
    BY <1>7 DEF Tick
  <2>2. f'.at = "start"
    BY <2>1 DEF Follow, NoFollower
  <2>3. QueueTypes' /\ ReadIsKept'
    BY <1>1, <2>1, <2>2 DEF RecordInv, QueueTypes, ReadIsKept
  <2> QED BY <2>2, <2>3, NewlyCovered
<1> QED BY <1>2, <1>3, <1>4, <1>5, <1>6, <1>7

LEMMA WritingIsRecorded ==
  ASSUME OrderInv, OrderInv', RecordInv,
         Prints \/ Midnight \/ Flush \/ CloseWriter \/ PurgePlans \/ PurgeRemoves \/ PurgeEnds
  PROVE  RecordInv'
<1>1. Len(lines) \in Nat
  BY EndsAreNat
<1>2. CASE Prints \/ Midnight
  <2>1. /\ UNCHANGED <<running, ends, watch, store, f, w, disk, lost, mishaps, events>>
        /\ lines' = lines \/ lines' = Append(lines, today)
    BY <1>2 DEF Prints, Midnight
  <2>2. Len(lines)' \in Nat /\ Len(lines) <= Len(lines)'
    <3>1. lines \in Seq(Days)
      BY DEF OrderInv, FollowTypes
    <3>2. lines' = Append(lines, today) => Len(lines') = Len(lines) + 1
      BY <3>1
    <3> QED BY <1>1, <2>1, <3>2
  <2>3. Kept \subseteq Kept'
    BY <2>1 DEF Kept, OnDisk, Elements
  <2> QED BY <2>1, <2>2, <2>3, StaysCovered
<1>3. CASE Flush \/ CloseWriter \/ PurgePlans \/ PurgeRemoves \/ PurgeEnds
  <2>1. UNCHANGED <<events, watch, store>> /\ mishaps \subseteq mishaps'
    BY <1>3 DEF Flush, CloseWriter, FlushFails, OpenFails, WriteFails, PurgePlans, PurgeRemoves, PurgeEnds, Befalls
  <2>2. /\ Kept \subseteq Kept' /\ UNCHANGED <<lines, running, ends>>
        /\ UNCHANGED f \/ (f.at = "close" /\ f'.at = "tail" /\ f'.again = f.again)
    BY <1>3, WriterInOrder
  <2> QED BY <1>1, <2>1, <2>2, StaysCovered
<1> QED BY <1>2, <1>3

LEMMA ReadingIsRecorded ==
  ASSUME OrderInv, OrderInv', RecordInv, ReadOpens \/ ReadLine
  PROVE  RecordInv'
<1> DEFINE F == [at : Places, again : BOOLEAN, last : Nat, pos : Nat, run : Nat]
<1>1. f \in F /\ Len(lines) \in Nat /\ Len(ends) \in Nat
  BY EndsAreNat DEF OrderInv, FollowTypes
<1>2. CASE ReadLine
  <2>1. /\ f.at = "read" /\ f' = [f EXCEPT !.pos = f.pos + 1] /\ UNCHANGED <<lines, running, ends, events, watch, store>>
    BY <1>2 DEF ReadLine, dockerVars
  <2>2. mishaps \subseteq mishaps'
    BY <1>2 DEF ReadLine, Write, FlushFails, OpenFails, WriteFails, Befalls
  <2>3. Kept \subseteq Kept' /\ f.pos + 1 \in Kept' \cup {l \in Nat : l <= f.last}
    BY <1>2, ReadsInOrder
  <2>4. f'.at = f.at /\ f'.run = f.run /\ f'.again = f.again /\ f'.last = f.last /\ f'.pos = f.pos + 1
    BY <1>1, <2>1
  <2>5. /\ f.last <= f.pos + 1 /\ (\A l \in 1 .. f.pos : l \in Kept)
        /\ f.last > 0 => f.last \in Kept
    BY <2>1 DEF RecordInv, ReadIsKept
  <2>6. f.pos + 1 \in Kept'
    <3>1. CASE f.pos + 1 <= f.last
      <4>1. f.pos + 1 = f.last /\ f.last > 0
        BY <1>1, <2>5, <3>1
      <4> QED BY <2>3, <2>5, <4>1
    <3> QED BY <2>3, <3>1
  <2>7. ReadIsKept'
    <3>1. \A l \in 1 .. f.pos + 1 : l = f.pos + 1 \/ l \in 1 .. f.pos
      BY <1>1
    <3> QED BY <1>1, <2>3, <2>4, <2>5, <2>6, <3>1 DEF ReadIsKept
  <2> QED BY <1>1, <2>1, <2>2, <2>3, <2>4, <2>7, StaysCovered
<1>3. CASE ReadOpens
  <2> DEFINE r == IF running THEN Len(ends) + 1 ELSE Len(ends)
  <2>1. /\ f.at = "start" /\ store = "open"
        /\ UNCHANGED <<lines, running, ends, events, watch, store, w, disk>>
    BY <1>3 DEF ReadOpens, dockerVars
  <2>2. PICK n \in Nat, s \in Nat :
          /\ f' = [f EXCEPT !.at = "read", !.last = n, !.pos = s, !.run = r]
          /\ n <= s + 1 /\ (n > 0 => n \in OnDisk)
          /\ lost' = lost \cup {l \in 1 .. s : l \notin OnDisk}
    BY <1>3, OpensAt
  <2>3. mishaps \subseteq mishaps'
    BY <1>3 DEF ReadOpens, Befalls
  <2>4. r \in Nat /\ Len(ends) <= r /\ (running => r = Len(ends) + 1)
    BY <1>1
  <2> HIDE DEF r
  <2>5. f'.at = "read" /\ f'.last = n /\ f'.pos = s /\ f'.run = r
    BY <1>1, <2>2
  <2>6. OnDisk' = OnDisk
    BY <2>1 DEF OnDisk
  <2>7. ReadIsKept'
    BY <2>2, <2>5, <2>6 DEF ReadIsKept, Kept
  <2>8. QueueTypes'
    BY <2>1 DEF RecordInv, QueueTypes
  <2>9. EndsAreCovered'
    <3>1. \A q \in Nat : q <= Len(ends) \/ (running /\ q = Len(ends) + 1) => Covers(q)'
      BY <1>1, <2>4, <2>5 DEF Covers
    <3>2. \A i \in DOMAIN events : events[i] <= Len(ends)
      BY DEF RecordInv, QueueTypes
    <3> QED BY <2>1, <3>1, <3>2 DEF EndsAreCovered
  <2> QED BY <2>7, <2>8, <2>9 DEF RecordInv
<1> QED BY <1>2, <1>3

LEMMA EndingIsRecorded ==
  ASSUME OrderInv, OrderInv', RecordInv, ReadFails \/ ReadEnds \/ FollowerEnds
  PROVE  RecordInv'
<1>1. UNCHANGED <<lines, running, ends, store, w, disk, lost>>
  BY DEF ReadFails, ReadEnds, FollowerEnds, dockerVars
<1>2. f \in [at : Places, again : BOOLEAN, last : Nat, pos : Nat, run : Nat]
  BY DEF OrderInv, FollowTypes
<1>3. CASE ReadFails \/ ReadEnds
  <2>1. /\ f' = [NoFollower EXCEPT !.at = "close", !.again = f.again] /\ UNCHANGED <<events, watch>>
        /\ f.at \in {"start", "read"}
    BY <1>3 DEF ReadFails, ReadEnds
  <2>2. f'.at = "close" /\ f'.again = f.again
    BY <1>2, <2>1, NothingFollows
  <2>3. QueueTypes' /\ ReadIsKept'
    BY <1>1, <2>1, <2>2 DEF RecordInv, QueueTypes, ReadIsKept
  <2>4. CASE ReadFails
    <3>1. store' # "open" \/ "fault" \in mishaps'
      BY <2>4 DEF ReadFails, Befalls
    <3>2. store' # "open" \/ ~(mishaps' \subseteq {"kill"})
      BY <3>1
    <3> QED BY <2>3, <3>2, NewlyCovered
  <2>5. CASE ReadEnds
    <3>1. f.at = "read" /\ f.run <= Len(ends) /\ EndOf(f.run) <= f.pos /\ UNCHANGED mishaps
      BY <1>2, <2>5 DEF ReadEnds
    <3>2. Len(ends) \in Nat /\ EndOf(f.run) \in Nat
      BY <1>2, <3>1, EndsAreNat
    <3>3. \A q \in Nat : q <= f.run => RunIsKept(q)
      <4> SUFFICES ASSUME NEW q \in Nat, q <= f.run, NEW l \in 1 .. EndOf(q)
                   PROVE  q <= Len(ends) /\ l \in Kept
        BY <1>2, <3>1, <3>2 DEF RunIsKept
      <4>1. q <= Len(ends) /\ EndOf(q) \in Nat /\ EndOf(q) <= EndOf(f.run)
        BY <1>2, <3>1, <3>2, EndsAreNat
      <4>2. l \in 1 .. f.pos
        BY <1>2, <3>1, <3>2, <4>1
      <4> QED BY <3>1, <4>1, <4>2 DEF RecordInv, ReadIsKept
    <3>4. \A q : RunIsKept(q)' = RunIsKept(q)
      BY <1>1 DEF RunIsKept, EndOf, Kept, OnDisk, Elements
    <3>5. \A q \in Nat : Covers(q) => Covers(q)'
      BY <2>2, <3>1, <3>3, <3>4 DEF Covers
    <3>6. EndsAreCovered'
      BY <1>1, <2>1, <3>1, <3>5 DEF RecordInv, EndsAreCovered
    <3> QED BY <2>3, <3>6 DEF RecordInv
  <2> QED BY <1>3, <2>4, <2>5
<1>4. CASE FollowerEnds /\ f.again /\ store = "open"
  <2>1. f' = [NoFollower EXCEPT !.at = "start"] /\ UNCHANGED <<watch, events>>
    BY <1>4 DEF FollowerEnds
  <2>2. f'.at = "start"
    BY <2>1, NothingFollows
  <2>3. QueueTypes' /\ ReadIsKept'
    BY <1>1, <1>4, <2>1, <2>2 DEF RecordInv, QueueTypes, ReadIsKept
  <2> QED BY <2>2, <2>3, NewlyCovered
<1>5. CASE FollowerEnds /\ ~(f.again /\ store = "open")
  <2>1. f' = NoFollower /\ watch' = "idle" /\ events' = IF watch = "await" THEN Tail(events) ELSE events
    BY <1>5 DEF FollowerEnds
  <2>2. f'.at = "none"
    BY <2>1, NothingFollows
  <2>3. QueueTypes'
    <3>1. CASE watch = "await"
      <4>1. events # <<>> /\ events' = Tail(events)
        BY <2>1, <3>1 DEF RecordInv, QueueTypes
      <4> QED BY <1>1, <2>1, <2>2, <4>1, TakenOffTypes
    <3>2. CASE watch # "await"
      BY <1>1, <2>1, <2>2, <3>2 DEF RecordInv, QueueTypes
    <3> QED BY <3>1, <3>2
  <2>4. ReadIsKept'
    BY <2>2 DEF ReadIsKept
  <2> QED BY <2>2, <2>3, <2>4, NewlyCovered
<1> QED BY <1>3, <1>4, <1>5

LEMMA StoppingIsRecorded ==
  ASSUME OrderInv, OrderInv', RecordInv, StopLogs \/ Stopped \/ Kill \/ OpenStore
  PROVE  RecordInv'
<1>1. UNCHANGED <<lines, running, ends, disk, lost>>
  BY DEF StopLogs, Stopped, Kill, OpenStore, dockerVars
<1>2. <<>> \in Seq(Nat)
  OBVIOUS
<1>3. CASE StopLogs
  <2>1. store' = "stopping" /\ events' = <<>> /\ watch' = "idle" /\ UNCHANGED <<f, w>>
    BY <1>3 DEF StopLogs
  <2>2. QueueTypes'
    BY <1>1, <1>2, <2>1 DEF RecordInv, QueueTypes
  <2>3. ReadIsKept'
    BY <1>1, <2>1 DEF RecordInv, ReadIsKept, Kept, OnDisk, Elements
  <2> QED BY <2>1, <2>2, <2>3, NewlyCovered
<1>4. CASE Stopped
  <2>1. store = "stopping" /\ store' = "down" /\ f'.at = "none" /\ UNCHANGED <<events, watch, f>>
    BY <1>4 DEF Stopped
  <2>2. QueueTypes' /\ ReadIsKept'
    BY <1>1, <2>1 DEF RecordInv, QueueTypes, ReadIsKept
  <2> QED BY <2>1, <2>2, NewlyCovered
<1>5. CASE Kill
  <2>1. store' = "down" /\ events' = <<>> /\ watch' = "idle" /\ f'.at = "none"
    BY <1>5, NothingFollows DEF Kill
  <2>2. QueueTypes' /\ ReadIsKept'
    BY <1>1, <1>2, <2>1 DEF RecordInv, QueueTypes, ReadIsKept
  <2> QED BY <2>1, <2>2, NewlyCovered
<1>6. CASE OpenStore
  <2>1. store = "down" /\ store' = "open" /\ UNCHANGED <<events, watch, f>>
    BY <1>6 DEF OpenStore
  <2>2. f'.at = "none"
    BY <2>1 DEF RecordInv, QueueTypes
  <2>3. QueueTypes' /\ ReadIsKept'
    BY <1>1, <2>1, <2>2 DEF RecordInv, QueueTypes, ReadIsKept
  <2> QED BY <2>2, <2>3, NewlyCovered
<1> QED BY <1>3, <1>4, <1>5, <1>6

LEMMA RecordStep ==
  ASSUME OrderInv, RecordInv, [FollowNext]_followVars
  PROVE  RecordInv'
<1>1. OrderInv'
  BY OrderStep
<1>2. CASE UNCHANGED followVars
  BY <1>2 DEF followVars, RecordInv, QueueTypes, ReadIsKept, EndsAreCovered, Covers, RunIsKept, EndOf, Kept, OnDisk, Elements
<1> QED BY <1>1, <1>2, StartIsRecorded, DieIsRecorded, EventsAreRecorded, WritingIsRecorded, ReadingIsRecorded,
           EndingIsRecorded, StoppingIsRecorded DEF FollowNext

(* No line is in the files twice and they are in order, whatever restarts,   *)
(* kills, purges and lines docker repeats, but for a line that was there     *)
(* when a follower resumed on an empty or unreadable newest file; and when   *)
(* the end of a run is recorded after its follower ended, all that run       *)
(* printed is in the files, or a purge, a failing disk or the retention took *)
(* it. For any lines, days, runs and retention: FilesAreTheLog, both parts.  *)
THEOREM FilesKeepTheLog == FollowSpec => FilesAreTheLog
<1> DEFINE Inv == OrderInv /\ RecordInv
           EndIsThere == RunIsRecorded /\ mishaps \subseteq {"kill"}
                      => EndOf(Head(events) - 1) + 1 .. EndOf(Head(events)) \subseteq OnDisk \cup lost
<1>1. FollowInit => Inv
  BY FollowStarts, RecordStarts
<1>2. Inv /\ [FollowNext]_followVars => Inv'
  BY OrderStep, RecordStep
<1>3. Inv => LinesOnceInOrder
  BY DEF OrderInv, FilesInOrder
<1>4. Inv => EndIsThere
  <2> SUFFICES ASSUME OrderInv, RecordInv, RunIsRecorded, mishaps \subseteq {"kill"}
               PROVE  EndOf(Head(events) - 1) + 1 .. EndOf(Head(events)) \subseteq OnDisk \cup lost
    OBVIOUS
  <2> DEFINE r == Head(events)
  <2>1. watch = "await" /\ f.at = "tail" /\ ~(f.again /\ store = "open")
    BY DEF RunIsRecorded, FollowerEnds
  <2>2. store = "open" /\ events # <<>> /\ r # AStart
    BY <2>1 DEF RecordInv, QueueTypes
  <2>3. r \in Nat /\ r = events[1] /\ 1 \in DOMAIN events /\ \A j \in DOMAIN events : ~(j < 1)
    <3>1. events \in Seq(Nat)
      BY DEF RecordInv, QueueTypes
    <3> QED BY <2>2, <3>1
  <2> HIDE DEF r
  <2>4. Covers(r)
    BY <2>2, <2>3 DEF RecordInv, EndsAreCovered
  <2>5. RunIsKept(r)
    BY <2>1, <2>2, <2>4 DEF Covers
  <2>6. w.buf = <<>>
    BY <2>1 DEF OrderInv, BufferIsNext
  <2>7. Elements(w.buf) = {}
    BY <2>6 DEF Elements
  <2>8. EndOf(r) \in Nat /\ EndOf(r - 1) \in Nat
    <3>1. r - 1 \in Nat /\ r - 1 <= Len(ends) /\ r <= Len(ends)
      BY <2>2, <2>3, <2>5, EndsAreNat DEF RunIsKept, AStart
    <3> QED BY <2>3, <3>1, EndsAreNat
  <2>9. EndOf(r - 1) + 1 .. EndOf(r) \subseteq 1 .. EndOf(r)
    BY <2>8
  <2>10. EndOf(r - 1) + 1 .. EndOf(r) \subseteq OnDisk \cup lost
    BY <2>5, <2>7, <2>9 DEF RunIsKept, Kept
  <2> QED BY <2>10 DEF r
<1>5. Inv /\ [FollowNext]_followVars => [EndIsThere]_followVars
  BY <1>4
<1>6. FollowSpec => []LinesOnceInOrder
  BY <1>1, <1>2, <1>3, PTL DEF FollowSpec
<1>7. FollowSpec => [][EndIsThere]_followVars
  BY <1>1, <1>2, <1>5, PTL DEF FollowSpec
<1> QED BY <1>6, <1>7 DEF FilesAreTheLog, RunsEndOnDisk
=============================================================================
