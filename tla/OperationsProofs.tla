-------------------------- MODULE OperationsProofs --------------------------
(***************************************************************************)
(* What the core is asked to do, by its owner, by itself and by a remote.  *)
(* First the table of AppOperations keeps its promise for every set of     *)
(* apps, kinds and calls: its invariants are inductive together, and it    *)
(* implements AppClaims.  Then its largest user, the handshake between     *)
(* the core and what the box does by itself (UpgradeWindow), for every     *)
(* set of schedules, git apps and clicks.  Then what a remote tells, for   *)
(* any number of deliveries, checks, repositories and ticks: the webhook   *)
(* (the secret is the owner's, a push that was answered is looked at, and  *)
(* checks keep the debounce) and the repositories (no tick looks at one    *)
(* before it is due, and a fault that was not told is found again).        *)
(* The parts share no state.                                               *)
(***************************************************************************)
EXTENDS UpgradeWindow, GitWebhook, RepositoryChecks, FiniteSetTheorems, TLAPS

(* The inductive invariant. OneOperationPerApp alone is not inductive: that  *)
(* a free entry has no holder, which HoldIsWhatRuns says, is what makes a    *)
(* claim safe, and `end` frees an entry only its own holder stands behind.   *)
TableInv == TypeOK /\ OneOperationPerApp /\ HoldIsWhatRuns /\ MarksAreCounted

(* The marks of an app are among the calls in flight, so they can be counted. *)
LEMMA MarksFinite == ASSUME NEW a, NEW k PROVE IsFiniteSet(Marks(a, k))
  BY HandlesAssumption, FS_Subset DEF Marks

LEMMA TableInit == Init => TableInv
<1> SUFFICES ASSUME Init PROVE TableInv
  OBVIOUS
<1>1. TypeOK
  BY PatienceAssumption DEF Init, TypeOK, Ops, IdleOp, Phases
<1>2. OneOperationPerApp /\ HoldIsWhatRuns
  BY DEF Init, OneOperationPerApp, HoldIsWhatRuns, Holding, IdleOp, held
<1>3. MarksAreCounted
  <2> SUFFICES ASSUME NEW a \in Apps, NEW k \in Kinds
               PROVE marked[a][k] = Cardinality(Marks(a, k))
    BY DEF MarksAreCounted
  <2>1. Marks(a, k) = {}
    BY DEF Init, Marks, Marking, IdleOp
  <2> QED
    BY <2>1, FS_EmptySet DEF Init
<1> QED
  BY <1>1, <1>2, <1>3 DEF TableInv

(* Begin and a round of beginWaiting that finds the app free. *)
LEMMA ClaimedKeepsTable ==
  ASSUME TableInv, NEW h \in Handles, NEW a \in Apps, NEW k \in Kinds,
         op[h].phase \in {"idle", "waiting"}, Claimed(h, a, k)
  PROVE TableInv'
<1> USE DEF Claimed, CanBegin, Holding, Marking
<1>1. TypeOK'
  BY PatienceAssumption DEF TableInv, TypeOK, Ops, Phases
<1>2. \A g \in Handles : g # h => op'[g] = op[g]
  BY DEF TableInv, TypeOK
<1>3. op'[h] = [phase |-> "holding", app |-> a, kind |-> k, asked |-> 0]
  BY DEF TableInv, TypeOK
<1>4. \A g \in Handles : Holding(g) => op[g].app # a
  BY FreeAssumption DEF TableInv, TypeOK, HoldIsWhatRuns
<1>5. OneOperationPerApp'
  BY <1>2, <1>3, <1>4 DEF TableInv, OneOperationPerApp
<1>6. HoldIsWhatRuns'
  BY <1>2, <1>3, <1>4 DEF TableInv, TypeOK, HoldIsWhatRuns, held
<1>7. MarksAreCounted'
  BY <1>2, <1>3 DEF TableInv, MarksAreCounted, Marks
<1> QED
  BY <1>1, <1>5, <1>6, <1>7 DEF TableInv

LEMMA TableStep == TableInv /\ [Next]_vars => TableInv'
<1> SUFFICES ASSUME TableInv, [Next]_vars PROVE TableInv'
  OBVIOUS
<1> USE DEF Holding, Marking
<1>1. ASSUME NEW h \in Handles, NEW a \in Apps, NEW k \in Kinds, Begin(h, a, k)
      PROVE TableInv'
  BY <1>1, ClaimedKeepsTable DEF Begin
<1>2. ASSUME NEW h \in Handles, NEW a \in Apps, NEW k \in Kinds, StartWaiting(h, a, k)
      PROVE TableInv'
  <2> USE <1>2 DEF StartWaiting
  <2>1. TypeOK'
    BY PatienceAssumption DEF TableInv, TypeOK, Ops, Phases
  <2>2. OneOperationPerApp' /\ HoldIsWhatRuns'
    BY DEF TableInv, TypeOK, OneOperationPerApp, HoldIsWhatRuns, held
  <2>3. MarksAreCounted'
    BY DEF TableInv, TypeOK, MarksAreCounted, Marks
  <2> QED
    BY <2>1, <2>2, <2>3 DEF TableInv
<1>3. ASSUME NEW h \in Handles, NEW a \in Apps, NEW k \in Kinds, Mark(h, a, k)
      PROVE TableInv'
  <2> USE <1>3 DEF Mark
  <2>1. TypeOK'
    BY PatienceAssumption DEF TableInv, TypeOK, Ops, Phases
  <2>2. OneOperationPerApp' /\ HoldIsWhatRuns'
    BY DEF TableInv, TypeOK, OneOperationPerApp, HoldIsWhatRuns, held
  <2>3. ASSUME NEW b \in Apps, NEW j \in Kinds
        PROVE marked'[b][j] = Cardinality(Marks(b, j)')
    <3>1. CASE b = a /\ j = k
      <4>1. Marks(b, j)' = Marks(b, j) \cup {h} /\ h \notin Marks(b, j)
        BY <3>1 DEF TableInv, TypeOK, Marks
      <4>2. marked'[b][j] = marked[b][j] + 1
        BY <3>1 DEF TableInv, TypeOK
      <4> QED
        BY <4>1, <4>2, MarksFinite, FS_AddElement, ZenonT(40) DEF TableInv, MarksAreCounted
    <3>2. CASE ~(b = a /\ j = k)
      <4>1. Marks(b, j)' = Marks(b, j)
        BY <3>2 DEF TableInv, TypeOK, Marks
      <4>2. marked'[b][j] = marked[b][j]
        BY <3>2 DEF TableInv, TypeOK
      <4> QED
        BY <4>1, <4>2 DEF TableInv, MarksAreCounted
    <3> QED
      BY <3>1, <3>2
  <2> QED
    BY <2>1, <2>2, <2>3 DEF TableInv, MarksAreCounted
<1>4. ASSUME NEW h \in Handles, NEW k \in Kinds, HandOver(h, k)
      PROVE TableInv'
  <2> USE <1>4 DEF HandOver
  <2>1. TypeOK'
    BY DEF TableInv, TypeOK, Ops
  <2>2. OneOperationPerApp' /\ HoldIsWhatRuns'
    BY FreeAssumption DEF TableInv, TypeOK, Ops, OneOperationPerApp, HoldIsWhatRuns, held
  <2>3. MarksAreCounted'
    BY DEF TableInv, TypeOK, Ops, MarksAreCounted, Marks
  <2> QED
    BY <2>1, <2>2, <2>3 DEF TableInv
<1>5. ASSUME NEW h \in Handles, Ask(h)
      PROVE TableInv'
  <2>1. CASE AskAndGet(h)
    BY <2>1, ClaimedKeepsTable DEF AskAndGet, TableInv, TypeOK
  <2>2. CASE AskAndSleep(h)
    <3> USE <2>2 DEF AskAndSleep
    <3>1. TypeOK'
      BY PatienceAssumption DEF TableInv, TypeOK, Ops
    <3>2. OneOperationPerApp' /\ HoldIsWhatRuns'
      BY DEF TableInv, TypeOK, Ops, OneOperationPerApp, HoldIsWhatRuns, held
    <3>3. MarksAreCounted'
      BY DEF TableInv, TypeOK, Ops, MarksAreCounted, Marks
    <3> QED
      BY <3>1, <3>2, <3>3 DEF TableInv
  <2>3. CASE GiveUp(h)
    <3> USE <2>3 DEF GiveUp, IdleOp
    <3>1. TypeOK'
      BY PatienceAssumption DEF TableInv, TypeOK, Ops, Phases
    <3>2. OneOperationPerApp' /\ HoldIsWhatRuns'
      BY DEF TableInv, TypeOK, OneOperationPerApp, HoldIsWhatRuns, held
    <3>3. MarksAreCounted'
      BY DEF TableInv, TypeOK, MarksAreCounted, Marks
    <3> QED
      BY <3>1, <3>2, <3>3 DEF TableInv
  <2> QED
    BY <1>5, <2>1, <2>2, <2>3 DEF Ask
<1>6. ASSUME NEW h \in Handles, End(h)
      PROVE TableInv'
  <2>1. CASE EndAgain(h)
    BY <2>1 DEF EndAgain, TableInv, TypeOK, OneOperationPerApp, HoldIsWhatRuns, held,
                MarksAreCounted, Marks
  <2>2. CASE LetGo(h)
    <3> USE <2>2 DEF LetGo
    <3>1. TypeOK'
      BY DEF TableInv, TypeOK, Ops, Phases
    <3>2. OneOperationPerApp' /\ HoldIsWhatRuns'
      BY DEF TableInv, TypeOK, Ops, OneOperationPerApp, HoldIsWhatRuns, held
    <3>3. MarksAreCounted'
      BY DEF TableInv, TypeOK, Ops, MarksAreCounted, Marks
    <3> QED
      BY <3>1, <3>2, <3>3 DEF TableInv
  <2> QED
    BY <1>6, <2>1, <2>2 DEF End
<1>7. ASSUME NEW h \in Handles, Done(h)
      PROVE TableInv'
  <2>1. CASE DoneAgain(h)
    BY <2>1 DEF DoneAgain, TableInv, TypeOK, OneOperationPerApp, HoldIsWhatRuns, held,
                MarksAreCounted, Marks
  <2>2. CASE Unmark(h)
    <3> USE <2>2 DEF Unmark
    <3> DEFINE a == op[h].app
               k == op[h].kind
    <3>1. a \in Apps /\ k \in Kinds /\ h \in Marks(a, k)
      BY DEF TableInv, TypeOK, Marks
    <3>2. marked[a][k] \in Nat \ {0}
      <4>1. Cardinality(Marks(a, k)) # 0
        BY <3>1, MarksFinite, FS_EmptySet
      <4> QED
        BY <3>1, <4>1 DEF TableInv, TypeOK, MarksAreCounted
    <3>3. TypeOK'
      <4>1. marked' \in [Apps -> [Kinds -> Nat]]
        <5>1. marked[a][k] - 1 \in Nat
          BY <3>2
        <5>2. marked' = [marked EXCEPT ![a] = [marked[a] EXCEPT ![k] = marked[a][k] - 1]]
          BY <3>1 DEF TableInv, TypeOK
        <5>3. [marked[a] EXCEPT ![k] = marked[a][k] - 1] \in [Kinds -> Nat]
          BY <3>1, <5>1 DEF TableInv, TypeOK
        <5> HIDE DEF a, k
        <5> QED
          BY <3>1, <5>2, <5>3 DEF TableInv, TypeOK
      <4>2. /\ op' \in [Handles -> Ops]
            /\ \A g \in Handles : op'[g].app = op[g].app /\ op'[g].kind = op[g].kind
            /\ \A g \in Handles : g # h => op'[g] = op[g]
        BY DEF TableInv, TypeOK, Ops, Phases
      <4>3. \A g \in Handles : op'[g].phase # "idle" => op'[g].app \in Apps /\ op'[g].kind \in Kinds
        BY <3>1, <4>2 DEF TableInv, TypeOK
      <4> QED
        BY <4>1, <4>2, <4>3 DEF TableInv, TypeOK
    <3>4. OneOperationPerApp' /\ HoldIsWhatRuns'
      BY DEF TableInv, TypeOK, Ops, OneOperationPerApp, HoldIsWhatRuns, held
    <3>5. ASSUME NEW b \in Apps, NEW j \in Kinds
          PROVE marked'[b][j] = Cardinality(Marks(b, j)')
      <4>1. CASE b = a /\ j = k
        <5>1. Marks(b, j)' = Marks(b, j) \ {h}
          BY <4>1 DEF TableInv, TypeOK, Ops, Marks
        <5>2. marked'[b][j] = marked[b][j] - 1
          BY <4>1, <3>1 DEF TableInv, TypeOK
        <5>3. Cardinality(Marks(b, j) \ {h}) = Cardinality(Marks(b, j)) - 1
          BY <4>1, <3>1, MarksFinite, FS_RemoveElement
        <5> QED
          BY <5>1, <5>2, <5>3 DEF TableInv, MarksAreCounted
      <4>2. CASE ~(b = a /\ j = k)
        <5>1. Marks(b, j)' = Marks(b, j)
          BY <4>2 DEF TableInv, TypeOK, Ops, Marks
        <5>2. marked'[b][j] = marked[b][j]
          BY <4>2, <3>1 DEF TableInv, TypeOK
        <5> QED
          BY <5>1, <5>2 DEF TableInv, MarksAreCounted
      <4> QED
        BY <4>1, <4>2
    <3> QED
      BY <3>3, <3>4, <3>5 DEF TableInv, MarksAreCounted
  <2> QED
    BY <1>7, <2>1, <2>2 DEF Done
<1>8. ASSUME NEW h \in Handles, Return(h)
      PROVE TableInv'
  <2> USE <1>8 DEF Return, IdleOp
  <2>1. TypeOK'
    BY PatienceAssumption DEF TableInv, TypeOK, Ops, Phases
  <2>2. OneOperationPerApp' /\ HoldIsWhatRuns'
    BY DEF TableInv, TypeOK, OneOperationPerApp, HoldIsWhatRuns, held
  <2>3. MarksAreCounted'
    BY DEF TableInv, TypeOK, MarksAreCounted, Marks
  <2> QED
    BY <2>1, <2>2, <2>3 DEF TableInv
<1>9. CASE UNCHANGED vars
  BY <1>9 DEF vars, TableInv, TypeOK, OneOperationPerApp, HoldIsWhatRuns, held,
              MarksAreCounted, Marks
<1> QED
  BY <1>1, <1>2, <1>3, <1>4, <1>5, <1>6, <1>7, <1>8, <1>9 DEF Next

(* A call that holds or marks its app is in the list the core reads. *)
LEMMA TableListsWhatRuns == TableInv => RunningIsListed
<1> SUFFICES ASSUME TableInv, NEW h \in Handles, Holding(h) \/ Marking(h)
             PROVE \E entry \in RunningOperations :
                     entry.app = op[h].app /\ (Holding(h) => entry.kinds = {op[h].kind})
  BY DEF RunningIsListed
<1> DEFINE a == op[h].app
           k == op[h].kind
           entry == [app |-> a, kinds |-> IF running[a] # Free THEN {running[a]} ELSE MarkedKinds(a)]
<1>1. a \in Apps /\ k \in Kinds
  BY DEF TableInv, TypeOK, Holding, Marking
<1>2. Holding(h) => running[a] = k /\ running[a] # Free
  BY <1>1, FreeAssumption DEF TableInv, HoldIsWhatRuns
<1>3. Marking(h) => k \in MarkedKinds(a)
  <2> SUFFICES ASSUME Marking(h) PROVE marked[a][k] > 0
    BY <1>1 DEF MarkedKinds
  <2>1. h \in Marks(a, k)
    BY DEF Marks
  <2>2. Cardinality(Marks(a, k)) # 0
    BY <2>1, MarksFinite, FS_EmptySet
  <2> QED
    BY <1>1, <2>2 DEF TableInv, TypeOK, MarksAreCounted
<1>4. entry \in RunningOperations
  BY <1>1, <1>2, <1>3 DEF RunningOperations
<1> QED
  BY <1>2, <1>4

(* The invariants of the table, for every set of apps, kinds and calls. *)
THEOREM TableSafe == Spec => []TableInv
  BY TableInit, TableStep, PTL DEF Spec

(* The counts of the table never leave the naturals: letting a mark go never *)
(* looks for one that is not there (slices.Index would answer -1).           *)
THEOREM TableTypeOK == Spec => []TypeOK
  BY TableSafe, PTL DEF TableInv

(* Two calls that were not refused are never on the same app. *)
THEOREM TableExcludes == Spec => []OneOperationPerApp
  BY TableSafe, PTL DEF TableInv

(* What a refusal names is what really runs. *)
THEOREM TableNames == Spec => []HoldIsWhatRuns
  BY TableSafe, PTL DEF TableInv

(* Nested and overlapping marks are all counted. *)
THEOREM TableCounts == Spec => []MarksAreCounted
  BY TableSafe, PTL DEF TableInv

(* The core is told of everything that runs. *)
THEOREM TableLists == Spec => []RunningIsListed
  BY TableSafe, TableListsWhatRuns, PTL

-----------------------------------------------------------------------------
(* The refinement: the owner the table stands for is the one holder. *)
LEMMA OwnerIsHolder ==
  ASSUME TableInv, NEW a \in Apps
  PROVE  /\ \A h \in Handles : Holding(h) /\ op[h].app = a => ownerBar[a] = h
         /\ (\A h \in Handles : Holding(h) => op[h].app # a) => ownerBar[a] = Free
<1>1. ASSUME NEW h \in Handles, Holding(h), op[h].app = a
      PROVE ownerBar[a] = h
  <2>1. holders(a) = {h}
    BY <1>1 DEF holders, TableInv, OneOperationPerApp
  <2> QED
    BY <2>1 DEF ownerBar, theOne
<1>2. ASSUME \A h \in Handles : Holding(h) => op[h].app # a
      PROVE ownerBar[a] = Free
  <2>1. holders(a) = {}
    BY <1>2 DEF holders
  <2> QED
    BY <2>1 DEF ownerBar, theOne
<1> QED
  BY <1>1, <1>2

LEMMA OwnerOnlyHolds ==
  ASSUME TableInv, NEW a \in Apps, NEW h \in Handles, ownerBar[a] = h
  PROVE  Holding(h) /\ op[h].app = a
<1>1. \E g \in Handles : Holding(g) /\ op[g].app = a
  BY OwnerIsHolder, FreeAssumption
<1> QED
  BY <1>1, OwnerIsHolder

LEMMA OwnersStay ==
  ASSUME \A a \in Apps : holders(a)' = holders(a)
  PROVE ownerBar' = ownerBar
  BY DEF ownerBar

(* A claim of the table is a claim of the promise. *)
LEMMA ClaimedIsClaim ==
  ASSUME TableInv, TableInv', NEW h \in Handles, NEW a \in Apps, NEW k \in Kinds,
         op[h].phase \in {"idle", "waiting"}, Claimed(h, a, k)
  PROVE Claims!Claim(h, a)
<1>1. \A g \in Handles : Holding(g) => op[g].app # a
  BY FreeAssumption DEF Holding, Claimed, CanBegin, TableInv, TypeOK, HoldIsWhatRuns
<1>2. ownerBar[a] = Free
  BY <1>1, OwnerIsHolder
<1>3. \A b \in Apps : ownerBar[b] # h
  BY OwnerOnlyHolds DEF Holding
<1>4. Holding(h)' /\ op'[h].app = a
  BY DEF Claimed, Holding, TableInv, TypeOK
<1>5. ownerBar'[a] = h
  <2>1. holders(a)' = {h}
    BY <1>4 DEF holders, TableInv, OneOperationPerApp
  <2> QED
    BY <2>1 DEF ownerBar, theOne
<1>6. \A b \in Apps : b # a => ownerBar'[b] = ownerBar[b]
  <2> SUFFICES ASSUME NEW b \in Apps, b # a PROVE ownerBar'[b] = ownerBar[b]
    OBVIOUS
  <2>1. holders(b)' = holders(b)
    BY DEF holders, Holding, Claimed, TableInv, TypeOK
  <2> QED
    BY <2>1 DEF ownerBar
<1>7. ownerBar' = [ownerBar EXCEPT ![a] = h]
  <2>1. ownerBar = [b \in Apps |-> ownerBar[b]] /\ ownerBar' = [b \in Apps |-> ownerBar'[b]]
    BY DEF ownerBar
  <2> QED
    BY <1>5, <1>6, <2>1
<1> QED
  BY <1>2, <1>3, <1>7 DEF Claims!Claim

(* Letting an app go is letting it go. *)
LEMMA LetGoIsLetGo ==
  ASSUME TableInv, NEW h \in Handles, LetGo(h)
  PROVE Claims!LetGo(h, op[h].app)
<1>1. PICK a \in Apps : a = op[h].app
  BY DEF LetGo, Holding, TableInv, TypeOK
<1>a. Holding(h)
  BY DEF LetGo
<1>2. ownerBar[a] = h
  BY <1>1, <1>a, OwnerIsHolder
<1>3. ownerBar'[a] = Free
  <2>1. holders(a)' = {}
    BY <1>1, <1>a DEF LetGo, holders, Holding, TableInv, TypeOK, Ops, OneOperationPerApp
  <2> QED
    BY <1>1, <2>1 DEF ownerBar, theOne
<1>4. \A b \in Apps : b # a => ownerBar'[b] = ownerBar[b]
  <2> SUFFICES ASSUME NEW b \in Apps, b # a PROVE ownerBar'[b] = ownerBar[b]
    OBVIOUS
  <2>1. holders(b)' = holders(b)
    BY <1>1 DEF LetGo, holders, Holding, TableInv, TypeOK, Ops
  <2> QED
    BY <2>1 DEF ownerBar
<1>5. ownerBar' = [ownerBar EXCEPT ![a] = Free]
  <2>1. ownerBar = [b \in Apps |-> ownerBar[b]] /\ ownerBar' = [b \in Apps |-> ownerBar'[b]]
    BY DEF ownerBar
  <2> QED
    BY <1>1, <1>3, <1>4, <2>1
<1> QED
  BY <1>1, <1>2, <1>5 DEF Claims!LetGo

LEMMA TableImplementsStep ==
  TableInv /\ TableInv' /\ [Next]_vars => [Claims!ClaimsNext]_ownerBar
<1> SUFFICES ASSUME TableInv, TableInv', [Next]_vars, ownerBar' # ownerBar
             PROVE Claims!ClaimsNext
  OBVIOUS
<1>1. ASSUME NEW h \in Handles, NEW a \in Apps, NEW k \in Kinds, Begin(h, a, k)
      PROVE Claims!ClaimsNext
  BY <1>1, ClaimedIsClaim DEF Begin, Claims!ClaimsNext
<1>2. ASSUME NEW h \in Handles, AskAndGet(h)
      PROVE Claims!ClaimsNext
  BY <1>2, ClaimedIsClaim DEF AskAndGet, Claims!ClaimsNext, TableInv, TypeOK
<1>3. ASSUME NEW h \in Handles, LetGo(h)
      PROVE Claims!ClaimsNext
  BY <1>3, LetGoIsLetGo DEF LetGo, Claims!ClaimsNext, Holding, TableInv, TypeOK
<1>4. ASSUME NEW h \in Handles,
             \/ \E a \in Apps, k \in Kinds : StartWaiting(h, a, k) \/ Mark(h, a, k)
             \/ AskAndSleep(h) \/ GiveUp(h) \/ Unmark(h) \/ Return(h)
             \/ \E k \in Kinds : HandOver(h, k)
      PROVE ownerBar' = ownerBar
  <2>1. \A g \in Handles : /\ Holding(g)' <=> Holding(g)
                           /\ Holding(g) => op'[g].app = op[g].app
    BY <1>4 DEF StartWaiting, Mark, AskAndSleep, GiveUp, Unmark, Return, HandOver,
                IdleOp, Holding, Marking, TableInv, TypeOK, Ops
  <2> QED
    BY <2>1, OwnersStay DEF holders
<1>5. ASSUME UNCHANGED vars PROVE ownerBar' = ownerBar
  BY <1>5, OwnersStay DEF vars, holders, Holding
<1>6. ASSUME NEW h \in Handles, EndAgain(h) \/ DoneAgain(h) PROVE ownerBar' = ownerBar
  BY <1>6, <1>5 DEF EndAgain, DoneAgain, vars
<1>7. ASSUME NEW h \in Handles, Ask(h) \/ End(h) \/ Done(h)
      PROVE Claims!ClaimsNext
  BY <1>7, <1>2, <1>3, <1>4, <1>6 DEF Ask, End, Done
<1> QED
  BY <1>1, <1>4, <1>5, <1>7 DEF Next

LEMMA TableImplementsInit == Init => Claims!ClaimsInit
<1>1. Init => \A a \in Apps : holders(a) = {}
  BY DEF Init, holders, Holding, IdleOp
<1> QED
  BY <1>1 DEF Claims!ClaimsInit, ownerBar, theOne

(* The table implements one operation per app, for every set of apps and calls. *)
THEOREM TableImplementsClaims == Spec => ClaimsPromise
<1>1. TableInv /\ TableInv' /\ [Next]_vars => [Claims!ClaimsNext]_ownerBar
  BY TableImplementsStep
<1> QED
  BY <1>1, TableImplementsInit, TableSafe, PTL DEF Spec, ClaimsPromise, Claims!ClaimsSpec

-----------------------------------------------------------------------------
(* The operating system upgrade: UpgradeWindow                               *)

(* Which closure is live at which stage of its caller. *)
Stages ==
  /\ \A b \in Backups :
       /\ Marking(Listed(b)) <=> backup[b] # "idle"
       /\ Marking(Inside(b)) <=> backup[b] \in {"copying", "retaining"}
       /\ ~Holding(Listed(b)) /\ ~Holding(Inside(b))
  /\ \A g \in GitApps :
       /\ Holding(Git(g)) <=> git[g] \in {"checking", "deploying"}
       /\ ~Marking(Git(g))
  /\ \A c \in Clicks : ~Marking(Click(c))

CoreSays == core = "away" \/ busy

(* The inductive invariant: what runs has a live closure, so it is listed,   *)
(* and the core is past its question only with the flag in place.            *)
WindowInv == WindowTypeOK /\ TableInv /\ Stages /\ CoreSays /\ NothingRunsThroughUpgrade

LEMMA HandlesAre ==
  /\ \A b \in Backups : Listed(b) \in Handles /\ Inside(b) \in Handles
  /\ \A g \in GitApps : Git(g) \in Handles
  /\ \A c \in Clicks : Click(c) \in Handles
  BY CallersAssumption

(* Every step of the composition is a step of the table, or none of its business. *)
LEMMA WindowStepsTheTable == WindowNext => [Next]_vars
<1> SUFFICES ASSUME WindowNext PROVE [Next]_vars
  OBVIOUS
<1> USE HandlesAre, CallersAssumption DEF vars, resticVars, tickVars
<1>1. ASSUME NEW b \in Backups,
             \/ ListBackup(b) \/ BreakTick(b) \/ StartCopy(b) \/ EndCopy(b)
             \/ StartRetention(b) \/ EndRetention(b) \/ Unlist(b)
      PROVE [Next]_vars
  <2>1. AppOf[b] \in Apps /\ Backup \in Kinds
    OBVIOUS
  <2> QED
    BY <1>1, <2>1 DEF Next, ListBackup, BreakTick, StartCopy, EndCopy, StartRetention,
                      EndRetention, Unlist
<1>2. ASSUME NEW g \in GitApps,
             \/ LookToCheck(g) \/ TakeForCheck(g) \/ AppIsBusy(g) \/ EndCheck(g)
             \/ StartDeployment(g) \/ EndDeployment(g)
      PROVE [Next]_vars
  <2>1. g \in Apps /\ Check \in Kinds /\ Deploy \in Kinds
    OBVIOUS
  <2> QED
    BY <1>2, <2>1 DEF Next, LookToCheck, TakeForCheck, AppIsBusy, EndCheck, StartDeployment,
                      EndDeployment
<1>3. ASSUME NEW c \in Clicks, ClickBegins(c) \/ ClickWaits(c) \/ ClickAsks(c) \/ ClickEnds(c)
      PROVE [Next]_vars
  BY <1>3 DEF Next, ClickBegins, ClickWaits, ClickAsks, ClickEnds
<1>4. ASSUME NEW h \in Handles, CallReturns(h)
      PROVE [Next]_vars
  BY <1>4 DEF Next, CallReturns
<1>5. CASE \/ StartTick \/ StartResticTick \/ EndResticCheck
           \/ \E d \in Destinations : StartResticCheck(d)
           \/ OpenUpgrade \/ StartUpgrade \/ CloseUpgrade
  BY <1>5 DEF StartTick, StartResticTick, EndResticCheck, StartResticCheck, OpenUpgrade,
              StartUpgrade, CloseUpgrade
<1> QED
  BY <1>1, <1>2, <1>3, <1>4, <1>5 DEF WindowNext

LEMMA WindowInitOK == WindowInit => WindowInv
<1> SUFFICES ASSUME WindowInit PROVE WindowInv
  OBVIOUS
<1>1. TableInv
  BY TableInit DEF WindowInit
<1>2. WindowTypeOK
  BY <1>1 DEF WindowInit, WindowTypeOK, TableInv, BackupStages, GitStages
<1>3. Stages
  BY HandlesAre DEF WindowInit, Init, Stages, Holding, Marking, IdleOp
<1>4. CoreSays /\ NothingRunsThroughUpgrade
  BY DEF WindowInit, CoreSays, NothingRunsThroughUpgrade
<1> QED
  BY <1>1, <1>2, <1>3, <1>4 DEF WindowInv

(* What the question of the core cannot miss: an empty list means that no    *)
(* closure is live.                                                          *)
LEMMA EmptyListNothingLive ==
  ASSUME TableInv, RunningOperations = {}, NEW h \in Handles
  PROVE ~Holding(h) /\ ~Marking(h)
  BY TableListsWhatRuns DEF RunningIsListed

(* The steps of a closure, seen from its caller: only its own phase moves. *)
LEMMA MarkMoves ==
  ASSUME TableInv, NEW h \in Handles, NEW a \in Apps, NEW k \in Kinds, Mark(h, a, k)
  PROVE  Marking(h)' /\ ~Holding(h)' /\ \A g \in Handles : g # h => op'[g] = op[g]
  BY DEF Mark, Marking, Holding, TableInv, TypeOK

LEMMA DoneMoves ==
  ASSUME TableInv, NEW h \in Handles, Done(h)
  PROVE  ~Marking(h)' /\ ~Holding(h)' /\ \A g \in Handles : g # h => op'[g] = op[g]
  BY DEF Done, Unmark, DoneAgain, Marking, Holding, TableInv, TypeOK, Ops

LEMMA EndMoves ==
  ASSUME TableInv, NEW h \in Handles, End(h)
  PROVE  ~Marking(h)' /\ ~Holding(h)' /\ \A g \in Handles : g # h => op'[g] = op[g]
  BY DEF End, LetGo, EndAgain, Marking, Holding, TableInv, TypeOK, Ops

LEMMA BeginMoves ==
  ASSUME TableInv, NEW h \in Handles, NEW a \in Apps, NEW k \in Kinds, Begin(h, a, k)
  PROVE  ~Marking(h)' /\ Holding(h)' /\ \A g \in Handles : g # h => op'[g] = op[g]
  BY DEF Begin, Claimed, Marking, Holding, TableInv, TypeOK

LEMMA WaitMoves ==
  ASSUME TableInv, NEW h \in Handles, ~Marking(h),
         Ask(h) \/ \E a \in Apps, k \in Kinds : StartWaiting(h, a, k)
  PROVE  ~Marking(h)' /\ \A g \in Handles : g # h => op'[g] = op[g]
  BY DEF Ask, AskAndGet, AskAndSleep, GiveUp, StartWaiting, Claimed, IdleOp, Marking, TableInv, TypeOK, Ops

LEMMA HandOverMoves ==
  ASSUME TableInv, NEW h \in Handles, NEW k \in Kinds, HandOver(h, k)
  PROVE  ~Marking(h)' /\ Holding(h)' /\ \A g \in Handles : g # h => op'[g] = op[g]
  BY DEF HandOver, Marking, Holding, TableInv, TypeOK, Ops

LEMMA ReturnMoves ==
  ASSUME TableInv, NEW h \in Handles, Return(h)
  PROVE  \A g \in Handles : (Marking(g)' <=> Marking(g)) /\ (Holding(g)' <=> Holding(g))
  BY DEF Return, IdleOp, Marking, Holding, TableInv, TypeOK

LEMMA WindowStep == WindowInv /\ [WindowNext]_windowVars => WindowInv'
<1> SUFFICES ASSUME WindowInv, [WindowNext]_windowVars PROVE WindowInv'
  OBVIOUS
<1>1. TableInv
  BY DEF WindowInv
<1>2. TableInv'
  BY <1>1, WindowStepsTheTable, TableStep DEF windowVars, vars
<1>3. CASE UNCHANGED windowVars
  BY <1>2, <1>3 DEF windowVars, resticVars, tickVars, WindowInv, WindowTypeOK, TableInv, Stages,
                    Holding, Marking, CoreSays, NothingRunsThroughUpgrade, BackupRuns, DeploymentRuns
<1> USE HandlesAre DEF resticVars, tickVars
<1>4. ASSUME NEW b \in Backups,
             \/ ListBackup(b) \/ BreakTick(b) \/ StartCopy(b) \/ EndCopy(b)
             \/ StartRetention(b) \/ EndRetention(b) \/ Unlist(b)
      PROVE WindowInv'
  <2> USE <1>4 DEF ListBackup, BreakTick, StartCopy, EndCopy, StartRetention, EndRetention, Unlist
  <2>1. AppOf[b] \in Apps /\ Backup \in Kinds
    BY CallersAssumption
  <2>2. PICK h \in {Listed(b), Inside(b)} :
          (\/ Mark(h, AppOf[b], Backup)
           \/ Done(h))
    OBVIOUS
  <2>3. \A g \in Handles : g # h => op'[g] = op[g]
    BY <1>1, <2>1, <2>2, MarkMoves, DoneMoves
  <2>4. WindowTypeOK'
    BY <1>2 DEF WindowInv, WindowTypeOK, TableInv, BackupStages
  <2>5. Stages'
    <3>1. \A c \in Backups : c # b => backup'[c] = backup[c]
      BY DEF WindowInv, WindowTypeOK
    <3>2. \A c \in Backups \ {b} :
            /\ Marking(Listed(c))' <=> backup'[c] # "idle"
            /\ Marking(Inside(c))' <=> backup'[c] \in {"copying", "retaining"}
            /\ ~Holding(Listed(c))' /\ ~Holding(Inside(c))'
      <4> SUFFICES ASSUME NEW c \in Backups \ {b}
                   PROVE /\ Marking(Listed(c))' <=> backup'[c] # "idle"
                         /\ Marking(Inside(c))' <=> backup'[c] \in {"copying", "retaining"}
                         /\ ~Holding(Listed(c))' /\ ~Holding(Inside(c))'
        OBVIOUS
      <4>1. Listed(c) # h /\ Inside(c) # h
        BY DEF Listed, Inside
      <4>2. op'[Listed(c)] = op[Listed(c)] /\ op'[Inside(c)] = op[Inside(c)]
        BY <2>3, <4>1
      <4> QED
        BY <3>1, <4>2 DEF WindowInv, Stages, Marking, Holding
    <3>3. /\ \A g \in GitApps :
               /\ Holding(Git(g))' <=> git'[g] \in {"checking", "deploying"}
               /\ ~Marking(Git(g))'
          /\ \A c \in Clicks : ~Marking(Click(c))'
      BY <2>3 DEF WindowInv, Stages, Marking, Holding, Listed, Inside, Git, Click
    <3>4. ListBackup(b) =>
            /\ Marking(Listed(b))' /\ ~Holding(Listed(b))'
            /\ op'[Inside(b)] = op[Inside(b)]
      BY <1>1, <2>1, MarkMoves DEF Listed, Inside
    <3>5. BreakTick(b) \/ Unlist(b) =>
            /\ ~Marking(Listed(b))' /\ ~Holding(Listed(b))'
            /\ op'[Inside(b)] = op[Inside(b)]
      BY <1>1, DoneMoves DEF Listed, Inside
    <3>6. StartCopy(b) \/ StartRetention(b) =>
            /\ Marking(Inside(b))' /\ ~Holding(Inside(b))'
            /\ op'[Listed(b)] = op[Listed(b)]
      BY <1>1, <2>1, MarkMoves DEF Listed, Inside
    <3>7. EndCopy(b) \/ EndRetention(b) =>
            /\ ~Marking(Inside(b))' /\ ~Holding(Inside(b))'
            /\ op'[Listed(b)] = op[Listed(b)]
      BY <1>1, DoneMoves DEF Listed, Inside
    <3>8. /\ Marking(Listed(b))' <=> backup'[b] # "idle"
          /\ Marking(Inside(b))' <=> backup'[b] \in {"copying", "retaining"}
          /\ ~Holding(Listed(b))' /\ ~Holding(Inside(b))'
      <4>1. /\ Marking(Listed(b)) <=> backup[b] # "idle"
            /\ Marking(Inside(b)) <=> backup[b] \in {"copying", "retaining"}
            /\ ~Holding(Listed(b)) /\ ~Holding(Inside(b))
        BY DEF WindowInv, Stages
      <4>2. CASE ListBackup(b)
        BY <3>4, <4>1, <4>2 DEF WindowInv, WindowTypeOK, Marking, Holding
      <4>3. CASE BreakTick(b) \/ Unlist(b)
        <5>1. backup'[b] = "idle"
          BY <4>3 DEF WindowInv, WindowTypeOK
        <5>2. ~Marking(Inside(b))
          BY <4>1, <4>3
        <5> QED
          BY <3>5, <4>1, <4>3, <5>1, <5>2 DEF Marking, Holding
      <4>4. CASE StartCopy(b) \/ StartRetention(b)
        BY <3>6, <4>1, <4>4 DEF WindowInv, WindowTypeOK, Marking, Holding
      <4>5. CASE EndCopy(b) \/ EndRetention(b)
        BY <3>7, <4>1, <4>5 DEF WindowInv, WindowTypeOK, Marking, Holding
      <4> QED
        BY <1>4, <4>2, <4>3, <4>4, <4>5
    <3> QED
      BY <3>2, <3>3, <3>8 DEF Stages
  <2>6. CoreSays' /\ NothingRunsThroughUpgrade'
    BY DEF WindowInv, WindowTypeOK, CoreSays, NothingRunsThroughUpgrade, BackupRuns,
           DeploymentRuns, LooksClosed
  <2> QED
    BY <1>2, <2>4, <2>5, <2>6 DEF WindowInv
<1>5. ASSUME NEW g \in GitApps,
             \/ LookToCheck(g) \/ TakeForCheck(g) \/ AppIsBusy(g) \/ EndCheck(g)
             \/ StartDeployment(g) \/ EndDeployment(g)
      PROVE WindowInv'
  <2> USE <1>5 DEF LookToCheck, TakeForCheck, AppIsBusy, EndCheck, StartDeployment, EndDeployment
  <2>1. g \in Apps /\ Check \in Kinds /\ Deploy \in Kinds
    BY CallersAssumption
  <2>2. \A h \in Handles : h # Git(g) => op'[h] = op[h]
    BY <1>1, <2>1, BeginMoves, EndMoves, HandOverMoves
  <2>3. WindowTypeOK'
    BY <1>2 DEF WindowInv, WindowTypeOK, TableInv, GitStages
  <2>4. Stages'
    <3>1. \A f \in GitApps : f # g => git'[f] = git[f]
      BY DEF WindowInv, WindowTypeOK
    <3>2. \A f \in GitApps \ {g} :
            /\ Holding(Git(f))' <=> git'[f] \in {"checking", "deploying"}
            /\ ~Marking(Git(f))'
      BY <2>2, <3>1, ZenonT(40) DEF WindowInv, Stages, Marking, Holding, Git
    <3>3. /\ \A b \in Backups :
               /\ Marking(Listed(b))' <=> backup'[b] # "idle"
               /\ Marking(Inside(b))' <=> backup'[b] \in {"copying", "retaining"}
               /\ ~Holding(Listed(b))' /\ ~Holding(Inside(b))'
          /\ \A c \in Clicks : ~Marking(Click(c))'
      BY <2>2 DEF WindowInv, Stages, Marking, Holding, Listed, Inside, Git, Click
    <3>4. TakeForCheck(g) \/ StartDeployment(g) => ~Marking(Git(g))' /\ Holding(Git(g))'
      BY <1>1, <2>1, BeginMoves, HandOverMoves
    <3>5. EndCheck(g) \/ EndDeployment(g) => ~Marking(Git(g))' /\ ~Holding(Git(g))'
      BY <1>1, EndMoves
    <3>6. LookToCheck(g) \/ AppIsBusy(g) => op' = op
      OBVIOUS
    <3>7. /\ Holding(Git(g))' <=> git'[g] \in {"checking", "deploying"}
          /\ ~Marking(Git(g))'
      BY <3>4, <3>5, <3>6 DEF WindowInv, WindowTypeOK, Stages, Marking, Holding
    <3> QED
      BY <3>2, <3>3, <3>7 DEF Stages
  <2>5. CoreSays' /\ NothingRunsThroughUpgrade'
    BY DEF WindowInv, WindowTypeOK, CoreSays, NothingRunsThroughUpgrade, BackupRuns,
           DeploymentRuns, LooksClosed
  <2> QED
    BY <1>2, <2>3, <2>4, <2>5 DEF WindowInv
<1>6. ASSUME NEW c \in Clicks, ClickBegins(c) \/ ClickWaits(c) \/ ClickAsks(c) \/ ClickEnds(c)
      PROVE WindowInv'
  <2> USE <1>6 DEF ClickBegins, ClickWaits, ClickAsks, ClickEnds
  <2>1. ~Marking(Click(c))' /\ \A h \in Handles : h # Click(c) => op'[h] = op[h]
    <3>1. ~Marking(Click(c))
      BY DEF WindowInv, Stages
    <3> QED
      BY <1>1, <3>1, CallersAssumption, BeginMoves, EndMoves, WaitMoves
  <2>2. Stages'
    BY <2>1 DEF WindowInv, Stages, Marking, Holding, Listed, Inside, Git, Click
  <2>3. WindowTypeOK' /\ CoreSays' /\ NothingRunsThroughUpgrade'
    BY <1>2 DEF WindowInv, WindowTypeOK, TableInv, CoreSays, NothingRunsThroughUpgrade,
                BackupRuns, DeploymentRuns
  <2> QED
    BY <1>2, <2>2, <2>3 DEF WindowInv
<1>7. ASSUME NEW h \in Handles, CallReturns(h)
      PROVE WindowInv'
  <2> USE <1>7 DEF CallReturns
  <2>1. Stages'
    BY <1>1, ReturnMoves DEF WindowInv, Stages
  <2>2. WindowTypeOK' /\ CoreSays' /\ NothingRunsThroughUpgrade'
    BY <1>2 DEF WindowInv, WindowTypeOK, TableInv, CoreSays, NothingRunsThroughUpgrade,
                BackupRuns, DeploymentRuns
  <2> QED
    BY <1>2, <2>1, <2>2 DEF WindowInv
<1>8. CASE \/ StartTick \/ StartResticTick \/ EndResticCheck
           \/ \E d \in Destinations : StartResticCheck(d)
  BY <1>2, <1>8 DEF StartTick, StartResticTick, EndResticCheck, StartResticCheck, WindowInv,
              WindowTypeOK, TableInv, Stages, Holding, Marking, CoreSays,
              NothingRunsThroughUpgrade, BackupRuns, DeploymentRuns
<1>9. CASE OpenUpgrade \/ StartUpgrade \/ CloseUpgrade
  <2> USE <1>9 DEF OpenUpgrade, StartUpgrade, CloseUpgrade
  <2>1. WindowTypeOK' /\ Stages' /\ CoreSays'
    BY <1>2 DEF WindowInv, WindowTypeOK, TableInv, Stages, Holding, Marking, CoreSays
  <2>2. NothingRunsThroughUpgrade'
    <3>1. CASE StartUpgrade
      <4>1. \A h \in Handles : ~Holding(h) /\ ~Marking(h)
        BY <1>1, <3>1, EmptyListNothingLive
      <4>2. /\ \A b \in Backups : backup[b] = "idle"
            /\ \A g \in GitApps : git[g] # "deploying"
        BY <4>1 DEF WindowInv, Stages
      <4> QED
        BY <3>1, <4>2 DEF NothingRunsThroughUpgrade, BackupRuns, DeploymentRuns
    <3>2. CASE OpenUpgrade \/ CloseUpgrade
      BY <3>2 DEF NothingRunsThroughUpgrade
    <3> QED
      BY <3>1, <3>2
  <2> QED
    BY <1>2, <2>1, <2>2 DEF WindowInv
<1> QED
  BY <1>3, <1>4, <1>5, <1>6, <1>7, <1>8, <1>9 DEF WindowNext

(* The closures of the callers and the list of the core tell the same. *)
LEMMA ListIsExact == WindowInv => ListTellsTheTruth
<1> SUFFICES ASSUME WindowInv PROVE ListTellsTheTruth
  OBVIOUS
<1> USE HandlesAre DEF Stages
<1>1. ASSUME RunningOperations = {}
      PROVE  /\ \A b \in Backups : backup[b] = "idle"
             /\ \A g \in GitApps : git[g] \in {"idle", "looked"}
             /\ \A c \in Clicks : ~Holding(Click(c))
  <2>1. \A h \in Handles : ~Holding(h) /\ ~Marking(h)
    BY <1>1, EmptyListNothingLive DEF WindowInv
  <2> QED
    BY <2>1 DEF WindowInv, WindowTypeOK, GitStages
<1>2. ASSUME \A b \in Backups : backup[b] = "idle",
             \A g \in GitApps : git[g] \in {"idle", "looked"},
             \A c \in Clicks : ~Holding(Click(c))
      PROVE RunningOperations = {}
  <2>1. \A h \in Handles : ~Holding(h) /\ ~Marking(h)
    BY <1>2, CallersAssumption DEF WindowInv
  <2>2. \A a \in Apps : running[a] = Free
    BY <2>1 DEF WindowInv, TableInv, HoldIsWhatRuns, held
  <2>3. \A a \in Apps : MarkedKinds(a) = {}
    <3> SUFFICES ASSUME NEW a \in Apps, NEW k \in Kinds PROVE ~(marked[a][k] > 0)
      BY DEF MarkedKinds
    <3>1. Marks(a, k) = {}
      BY <2>1 DEF Marks
    <3>2. marked[a][k] = Cardinality(Marks(a, k))
      BY DEF WindowInv, TableInv, MarksAreCounted
    <3>3. Cardinality(Marks(a, k)) = 0
      BY <3>1, FS_EmptySet
    <3> QED
      BY <3>2, <3>3
  <2> QED
    BY <2>2, <2>3 DEF RunningOperations
<1> QED
  BY <1>1, <1>2 DEF ListTellsTheTruth

THEOREM WindowSafe == WindowSpec => []WindowInv
  BY WindowInitOK, WindowStep, PTL DEF WindowSpec

(* However many schedules, git apps and clicks there are: once the core took *)
(* an empty list for an answer, nothing the box does by itself runs.         *)
THEOREM UpgradeRunsAlone == WindowSpec => []NothingRunsThroughUpgrade
  BY WindowSafe, PTL DEF WindowInv

(* The core neither misses an operation nor waits for none. *)
THEOREM ListIsTrue == WindowSpec => []ListTellsTheTruth
  BY WindowSafe, ListIsExact, PTL

(* What the composition does to the table is what the table allows. *)
THEOREM WindowUsesTheTable == WindowSpec => Spec
<1>1. WindowInit => Init
  BY DEF WindowInit
<1>2. [WindowNext]_windowVars => [Next]_vars
  BY WindowStepsTheTable DEF windowVars, vars
<1> QED
  BY <1>1, <1>2, PTL DEF WindowSpec, Spec

-----------------------------------------------------------------------------
(* What a remote tells.                                                    *)

HookStages == {"idle", "body", "schedule", "save"}
CheckStages == {"idle", "window", "wait", "got", "gaveup", "prepare", "ask", "deploy"}
OwnerStages == {"idle", "set", "forget", "forgetting", "save"}
Changes == {"none", "on", "off", "renew", "remove", "register", "restore"}

HookTypes ==
  /\ registered \in BOOLEAN /\ pending \in BOOLEAN /\ fresh \in BOOLEAN
  /\ hook \in Nat /\ wanted \in Nat /\ secrets \in Nat
  /\ pushes \in Nat /\ asked \in Nat /\ promised \in Nat
  /\ delivery \in [Deliveries -> [at : HookStages, signed : Nat, push : Nat, read : Nat]]
  /\ checker \in [Checkers -> CheckStages]
  /\ owner \in [at : OwnerStages, op : Changes]

(* Who is between the reading of the file and its writing holds the lock,    *)
(* and what it read is what is there.                                        *)
LockGuards ==
  /\ \A d \in Deliveries : delivery[d].at \in {"schedule", "save"} =>
       lock = d /\ delivery[d].read = hook
  /\ owner.at = "forgetting" => lock = "owner"

(* The file is the owner's, and goes before the app does.                    *)
FileIsTheOwners ==
  /\ hook = wanted
  /\ hook # Off => registered
  /\ owner.at = "set" /\ owner.op \in {"on", "renew"} => registered
  /\ owner.at = "forgetting" => hook = Off
  /\ owner.at = "save" /\ owner.op = "remove" => hook = Off

SecretInv == LockGuards /\ FileIsTheOwners

(* One check is queued while the queue says so, and none was started within  *)
(* the debounce once its window is closed.                                   *)
QueueIsOne ==
  /\ pending => \E c \in Checkers : Queued(c)
  /\ \A c \in Checkers : Queued(c) => pending
  /\ \A c, e \in Checkers : Queued(c) /\ Queued(e) => c = e
  /\ \A c \in Checkers : checker[c] \in {"wait", "got", "gaveup"} => ~fresh

(* Nobody knows of a push before it was made.                                *)
PushesAreKnown ==
  /\ \A d \in Deliveries : delivery[d].push <= pushes
  /\ promised <= pushes

QueueInv == QueueIsOne /\ PushesAreKnown /\ PushesAreLookedAt

HookInv == HookTypes /\ SecretInv /\ QueueInv

-----------------------------------------------------------------------------
LEMMA LargerIsOneOfThem ==
  ASSUME NEW m \in Nat, NEW n \in Nat
  PROVE  Max({m, n}) \in {m, n}
<1>1. PICK x \in {m, n} : \A y \in {m, n} : x >= y
  <2>1. CASE m >= n BY <2>1
  <2>2. CASE n >= m BY <2>2
  <2>. QED BY <2>1, <2>2
<1>. QED BY <1>1 DEF Max

LEMMA HookStarts == HookInit => HookInv
<1>. SUFFICES ASSUME HookInit PROVE HookInv
  OBVIOUS
<1>. USE DEF HookInit, Nothing, NoRequest, Off
<1>1. HookTypes
  BY DEF HookTypes, HookStages, CheckStages, OwnerStages, Changes
<1>2. SecretInv
  BY DEF SecretInv, LockGuards, FileIsTheOwners
<1>3. QueueInv
  BY DEF QueueInv, QueueIsOne, PushesAreKnown, PushesAreLookedAt, Queued
<1>. QED BY <1>1, <1>2, <1>3 DEF HookInv

(* What an element of a record is, said once for the steps below.            *)
LEMMA TypesOfOne ==
  ASSUME HookTypes
  PROVE  /\ \A d \in Deliveries : /\ delivery[d].at \in HookStages /\ delivery[d].signed \in Nat
                                 /\ delivery[d].push \in Nat /\ delivery[d].read \in Nat
         /\ \A c \in Checkers : checker[c] \in CheckStages
         /\ owner.at \in OwnerStages /\ owner.op \in Changes
BY DEF HookTypes

-----------------------------------------------------------------------------
LEMMA TypesKept == HookTypes /\ [HookNext]_hookVars => HookTypes'
<1>. SUFFICES ASSUME HookTypes, [HookNext]_hookVars PROVE HookTypes'
  OBVIOUS
<1>. USE DEF HookTypes, appVars, runVars, world, Off, HookStages
<1>1. CASE UNCHANGED hookVars
  BY <1>1 DEF hookVars
<1>2. ASSUME NEW d \in Deliveries, NEW s \in 1 .. secrets, Arrives(d, s) PROVE HookTypes'
  BY <1>2 DEF Arrives
<1>3. ASSUME NEW d \in Deliveries, Compare(d) PROVE HookTypes'
  BY <1>3 DEF Compare, Nothing
<1>4. ASSUME NEW d \in Deliveries, Schedule(d) PROVE HookTypes'
  <2>1. CASE open \/ pending
    <3>. promised' \in Nat
      BY <1>4, <2>1, TypesOfOne, LargerIsOneOfThem DEF Schedule, Promises
    <3>. QED BY <1>4, <2>1 DEF Schedule, ScheduleFrame, Answered
  <2>2. ASSUME NEW at \in {"window", "wait"}, Queue(d, at), ScheduleFrame PROVE HookTypes'
    <3>. promised' \in Nat
      BY <2>2, TypesOfOne, LargerIsOneOfThem DEF Queue, Promises
    <3>. QED BY <2>2 DEF Queue, ScheduleFrame, Answered, CheckerGoes, CheckStages
  <2>3. CASE CheckAtOnce(d) /\ ScheduleFrame
    <3>. promised' \in Nat
      BY <2>3, TypesOfOne, LargerIsOneOfThem DEF CheckAtOnce, Promises
    <3>1. CASE Refused(d) /\ UNCHANGED <<pending, fresh, checker, promised>>
      BY <3>1, <2>3 DEF ScheduleFrame, Refused, Nothing
    <3>2. CASE \E c \in Checkers : fresh' = TRUE /\ CheckerGoes(c, "ask") /\ Answered(d) /\ UNCHANGED pending
      BY <3>2, <2>3 DEF ScheduleFrame, Answered, CheckerGoes, CheckStages
    <3>. QED BY <2>3, <3>1, <3>2 DEF CheckAtOnce
  <2>. QED BY <1>4, <2>1, <2>2, <2>3 DEF Schedule
<1>5. ASSUME NEW d \in Deliveries, WriteDelivery(d) PROVE HookTypes'
  BY <1>5, TypesOfOne DEF WriteDelivery, Nothing
<1>6. ASSUME NEW c \in Checkers, CheckGoesOn(c) \/ WindowCloses(c) \/ LeavesTheQueue(c)
      PROVE HookTypes'
  <2>. USE DEF CheckerFrame, CheckerGoes, CheckStages
  <2>1. CASE GetsTheApp(c) BY <2>1 DEF GetsTheApp
  <2>2. CASE GivesUp(c) BY <2>2 DEF GivesUp
  <2>3. CASE Prepares(c) BY <2>3 DEF Prepares
  <2>4. CASE Asks(c) BY <2>4 DEF Asks
  <2>5. CASE EndsCheck(c) BY <2>5 DEF EndsCheck
  <2>6. CASE WindowCloses(c) BY <2>6 DEF WindowCloses
  <2>7. CASE LeavesTheQueue(c)
    <3>1. CASE checker[c] = "got" BY <2>7, <3>1 DEF LeavesTheQueue
    <3>2. CASE checker[c] # "got"
      <4>1. promised' = 0 /\ pending' = FALSE /\ fresh' = fresh /\ asked' = asked
        BY <2>7, <3>2 DEF LeavesTheQueue
      <4>2. checker' \in [Checkers -> CheckStages]
        BY <2>7, <3>2 DEF LeavesTheQueue
      <4>. QED BY <2>7, <4>1, <4>2 DEF LeavesTheQueue
    <3>. QED BY <3>1, <3>2
  <2>. QED BY <1>6, <2>1, <2>2, <2>3, <2>4, <2>5, <2>6, <2>7 DEF CheckGoesOn
<1>7. CASE OtherTakesTheApp \/ OtherAsks \/ OtherEnds
  BY <1>7 DEF OtherTakesTheApp, OtherAsks, OtherEnds
<1>8. ASSUME NEW req \in {"on", "off", "renew", "remove", "register", "restore"}, Requests(req)
      PROVE HookTypes'
  BY <1>8 DEF Requests, OwnerFrame, OwnerStages, Changes
<1>9. CASE OwnerGoesOn \/ OwnerFails
  <2>. USE DEF OwnerFrame, OwnerGoes, NoRequest, OwnerStages, Changes
  <2>1. CASE SetsWebhook BY <2>1 DEF SetsWebhook
  <2>2. CASE Forgets BY <2>2 DEF Forgets
  <2>3. CASE ForgetsTheApp BY <2>3 DEF ForgetsTheApp
  <2>4. CASE OwnerSaves BY <2>4 DEF OwnerSaves
  <2>5. CASE OwnerFails BY <2>5 DEF OwnerFails
  <2>. QED BY <1>9, <2>1, <2>2, <2>3, <2>4, <2>5 DEF OwnerGoesOn
<1>10. CASE Push \/ Upgrade \/ DebounceEnds
  <2>1. CASE Push BY <2>1 DEF Push
  <2>2. CASE Upgrade BY <2>2 DEF Upgrade
  <2>3. CASE DebounceEnds BY <2>3 DEF DebounceEnds
  <2>. QED BY <1>10, <2>1, <2>2, <2>3
<1>11. CASE KillService
  BY <1>11 DEF KillService, Nothing, NoRequest, CheckStages, OwnerStages, Changes
<1>. QED
  BY <1>1, <1>2, <1>3, <1>4, <1>5, <1>6, <1>7, <1>8, <1>9, <1>10, <1>11 DEF HookNext

-----------------------------------------------------------------------------
(* The secret: what leaves the file, the lock and their users alone, and     *)
(* then each of the others.                                                  *)
LEMMA SecretKept == HookTypes /\ SecretInv /\ [HookNext]_hookVars => SecretInv'
<1>. SUFFICES ASSUME HookTypes, SecretInv, [HookNext]_hookVars PROVE SecretInv'
  OBVIOUS
<1>. USE TypesOfOne, WebhookNames
     DEF SecretInv, LockGuards, FileIsTheOwners, Nobody, Off
<1>1. CASE UNCHANGED <<registered, hook, wanted, lock, delivery, owner>>
  BY <1>1
<1>2. ASSUME NEW d \in Deliveries, NEW s \in 1 .. secrets, Arrives(d, s) PROVE SecretInv'
  BY <1>2 DEF Arrives, appVars, HookTypes
<1>3. ASSUME NEW d \in Deliveries, Compare(d) PROVE SecretInv'
  BY <1>3 DEF Compare, appVars, HookTypes, Nothing
<1>4. ASSUME NEW d \in Deliveries, Schedule(d) PROVE SecretInv'
  <2>1. UNCHANGED <<registered, hook, wanted, owner>> /\ delivery[d].at = "schedule"
    BY <1>4 DEF Schedule, ScheduleFrame, appVars
  <2>2. (Answered(d) /\ UNCHANGED lock) \/ Refused(d)
    BY <1>4 DEF Schedule, Queue, CheckAtOnce
  <2>. QED BY <2>1, <2>2 DEF Answered, Refused, Nothing, HookTypes
<1>5. ASSUME NEW d \in Deliveries, WriteDelivery(d) PROVE SecretInv'
  BY <1>5 DEF WriteDelivery, Nothing, HookTypes
<1>6. ASSUME NEW c \in Checkers, CheckGoesOn(c) \/ WindowCloses(c) \/ LeavesTheQueue(c)
      PROVE UNCHANGED <<registered, hook, wanted, lock, delivery, owner>>
  BY <1>6 DEF CheckGoesOn, GetsTheApp, GivesUp, Prepares, Asks, EndsCheck, WindowCloses,
              LeavesTheQueue, CheckerFrame, appVars
<1>7. CASE OtherTakesTheApp \/ OtherAsks \/ OtherEnds \/ Push \/ Upgrade \/ DebounceEnds
  BY <1>7, <1>1 DEF OtherTakesTheApp, OtherAsks, OtherEnds, Push, Upgrade, DebounceEnds, appVars
<1>8. ASSUME NEW req \in {"on", "off", "renew", "remove", "register", "restore"}, Requests(req)
      PROVE SecretInv'
  BY <1>8 DEF Requests, OwnerFrame
<1>9. CASE SetsWebhook
  BY <1>9 DEF SetsWebhook, OwnerFrame, OwnerGoes, HookTypes
<1>10. CASE Forgets
  BY <1>10 DEF Forgets, OwnerFrame, OwnerGoes, HookTypes
<1>11. CASE ForgetsTheApp
  BY <1>11 DEF ForgetsTheApp, OwnerFrame, OwnerGoes, HookTypes
<1>12. CASE OwnerSaves
  BY <1>12 DEF OwnerSaves, OwnerFrame, NoRequest
<1>13. CASE OwnerFails
  BY <1>13 DEF OwnerFails, OwnerFrame, NoRequest
<1>14. CASE KillService
  BY <1>14 DEF KillService, Nothing, NoRequest
<1>. QED
  BY <1>1, <1>2, <1>3, <1>4, <1>5, <1>6, <1>7, <1>8, <1>9, <1>10, <1>11, <1>12, <1>13, <1>14
  DEF HookNext, hookVars, OwnerGoesOn

-----------------------------------------------------------------------------
(* The queue: what leaves the runs, the deliveries and the pushes alone, and *)
(* then each of the others.                                                  *)
runs == <<pending, fresh, checker, delivery, pushes, asked, promised>>

LEMMA ScheduleKeepsQueue ==
  ASSUME HookTypes, QueueInv, NEW d \in Deliveries, Schedule(d)
  PROVE  QueueInv'
<1>. USE TypesOfOne DEF QueueInv, QueueIsOne, PushesAreKnown, PushesAreLookedAt, Queued, YetToAsk
<1>1. delivery[d].push <= pushes /\ UNCHANGED <<pushes, asked>>
  BY DEF Schedule, ScheduleFrame, world
<1>2. \A e \in Deliveries : delivery'[e].push <= pushes'
  <2>1. Answered(d) \/ Refused(d)
    BY DEF Schedule, Queue, CheckAtOnce
  <2>. QED BY <1>1, <2>1 DEF Answered, Refused, Nothing, HookTypes
<1>3. Promises(d) => promised' <= pushes'
  BY <1>1, LargerIsOneOfThem DEF Promises, HookTypes
<1>4. CASE open
  BY <1>1, <1>2, <1>4 DEF Schedule
<1>5. CASE ~open /\ pending
  BY <1>1, <1>2, <1>3, <1>5 DEF Schedule
<1>6. ASSUME NEW at \in {"window", "wait"}, Queue(d, at), ~pending, at = "wait" => ~fresh
      PROVE  QueueInv'
  <2>1. PICK c \in Checkers : checker[c] = "idle" /\ CheckerGoes(c, at)
    BY <1>6 DEF Queue
  <2>2. checker'[c] = at /\ \A e \in Checkers : e # c => checker'[e] = checker[e]
    BY <2>1 DEF CheckerGoes, HookTypes
  <2>3. pending' = TRUE /\ fresh' = fresh /\ Promises(d)
    BY <1>6 DEF Queue
  <2>. QED BY <1>1, <1>2, <1>3, <1>6, <2>2, <2>3
<1>7. CASE ~pending /\ CheckAtOnce(d)
  <2>1. CASE Refused(d) /\ UNCHANGED <<pending, fresh, checker, promised>>
    BY <1>1, <1>2, <2>1
  <2>2. ASSUME NEW c \in Checkers, checker[c] = "idle", CheckerGoes(c, "ask"), Promises(d),
               UNCHANGED pending
        PROVE  QueueInv'
    <3>1. checker'[c] = "ask" /\ \A e \in Checkers : e # c => checker'[e] = checker[e]
      BY <2>2 DEF CheckerGoes, HookTypes
    <3>. QED BY <1>1, <1>2, <1>3, <1>7, <2>2, <3>1
  <2>. QED BY <1>7, <2>1, <2>2 DEF CheckAtOnce
<1>. QED BY <1>4, <1>5, <1>6, <1>7 DEF Schedule

LEMMA CheckerKeepsQueue ==
  ASSUME HookTypes, QueueInv, NEW c \in Checkers,
         CheckGoesOn(c) \/ WindowCloses(c) \/ LeavesTheQueue(c)
  PROVE  QueueInv'
<1>. USE TypesOfOne
     DEF QueueInv, QueueIsOne, PushesAreKnown, PushesAreLookedAt, Queued, YetToAsk, CheckerFrame, world
<1>. DEFINE Goes(at) == checker'[c] = at /\ \A e \in Checkers : e # c => checker'[e] = checker[e]
<1>0. ASSUME NEW at \in CheckStages, CheckerGoes(c, at) PROVE Goes(at)
  BY <1>0 DEF CheckerGoes, HookTypes
<1>. HIDE DEF Goes
<1>1. CASE WindowCloses(c)
  <2>. Goes("wait") BY <1>0, <1>1 DEF WindowCloses, CheckStages
  <2>. QED BY <1>1 DEF WindowCloses, Goes
<1>2. CASE GetsTheApp(c)
  <2>. Goes("got") BY <1>0, <1>2 DEF GetsTheApp, CheckStages
  <2>. QED BY <1>2 DEF GetsTheApp, Goes
<1>3. CASE GivesUp(c)
  <2>. Goes("gaveup") BY <1>0, <1>3 DEF GivesUp, CheckStages
  <2>. QED BY <1>3 DEF GivesUp, Goes
<1>4. CASE LeavesTheQueue(c) /\ checker[c] = "got"
  <2>. Goes("prepare") BY <1>0, <1>4 DEF LeavesTheQueue, CheckStages
  <2>. QED BY <1>4 DEF LeavesTheQueue, Goes
<1>5. CASE LeavesTheQueue(c) /\ checker[c] # "got"
  <2>. Goes("idle") BY <1>0, <1>5 DEF LeavesTheQueue, CheckStages
  <2>. QED BY <1>5 DEF LeavesTheQueue, Goes, HookTypes
<1>6. CASE Prepares(c)
  <2>1. CASE CheckerGoes(c, "ask") /\ promised' = promised
    <3>. Goes("ask") BY <1>0, <2>1 DEF CheckStages
    <3>. QED BY <1>6, <2>1 DEF Prepares, Goes
  <2>2. CASE CheckerGoes(c, "idle") /\ promised' = 0
    <3>. Goes("idle") BY <1>0, <2>2 DEF CheckStages
    <3>. QED BY <1>6, <2>2 DEF Prepares, Goes, HookTypes
  <2>. QED BY <1>6, <2>1, <2>2 DEF Prepares
<1>7. CASE Asks(c)
  <2>. Goes("deploy") BY <1>0, <1>7 DEF Asks, CheckStages
  <2>. QED BY <1>7 DEF Asks, Goes, HookTypes
<1>8. CASE EndsCheck(c)
  <2>. Goes("idle") BY <1>0, <1>8 DEF EndsCheck, CheckStages
  <2>. QED BY <1>8 DEF EndsCheck, Goes
<1>. QED BY <1>1, <1>2, <1>3, <1>4, <1>5, <1>6, <1>7, <1>8 DEF CheckGoesOn

LEMMA QueueKept == HookTypes /\ QueueInv /\ [HookNext]_hookVars => QueueInv'
<1>. SUFFICES ASSUME HookTypes, QueueInv, [HookNext]_hookVars PROVE QueueInv'
  OBVIOUS
<1>. USE TypesOfOne
     DEF QueueInv, QueueIsOne, PushesAreKnown, PushesAreLookedAt, Queued
<1>1. CASE UNCHANGED runs
  BY <1>1 DEF runs
<1>2. ASSUME NEW d \in Deliveries, NEW s \in 1 .. secrets, Arrives(d, s) PROVE QueueInv'
  BY <1>2 DEF Arrives, runVars, world, HookTypes
<1>3. ASSUME NEW d \in Deliveries, Compare(d) \/ WriteDelivery(d) PROVE QueueInv'
  <2>. UNCHANGED <<pushes, runVars>> /\ \A e \in Deliveries : delivery'[e].push \in {delivery[e].push, 0}
    BY <1>3 DEF Compare, WriteDelivery, world, Nothing, HookTypes
  <2>. QED BY DEF runVars, HookTypes
<1>4. ASSUME NEW d \in Deliveries, Schedule(d) PROVE QueueInv'
  BY <1>4, ScheduleKeepsQueue
<1>5. ASSUME NEW c \in Checkers, CheckGoesOn(c) \/ WindowCloses(c) \/ LeavesTheQueue(c)
      PROVE QueueInv'
  BY <1>5, CheckerKeepsQueue
<1>6. CASE OtherTakesTheApp \/ OtherEnds \/ Upgrade \/ OwnerGoesOn \/ OwnerFails
           \/ \E req \in {"on", "off", "renew", "remove", "register", "restore"} : Requests(req)
  <2>. UNCHANGED runs
    BY <1>6 DEF OtherTakesTheApp, OtherEnds, Upgrade, OwnerGoesOn, OwnerFails, SetsWebhook, Forgets,
                ForgetsTheApp, OwnerSaves, Requests, OwnerFrame, runs, runVars, world
  <2>. QED BY <1>1
<1>7. CASE OtherAsks
  BY <1>7 DEF OtherAsks, world, HookTypes
<1>8. CASE Push
  BY <1>8 DEF Push, runVars, HookTypes
<1>9. CASE DebounceEnds
  BY <1>9 DEF DebounceEnds, world
<1>10. CASE KillService
  BY <1>10 DEF KillService, Nothing, HookTypes
<1>. QED
  BY <1>1, <1>2, <1>3, <1>4, <1>5, <1>6, <1>7, <1>8, <1>9, <1>10 DEF HookNext, hookVars, runs

-----------------------------------------------------------------------------
LEMMA HookSafe == HookSpec => []HookInv
<1>1. HookInv /\ [HookNext]_hookVars => HookInv'
  BY TypesKept, SecretKept, QueueKept DEF HookInv
<1>. QED BY HookStarts, <1>1, PTL DEF HookSpec

(***************************************************************************)
(* setGitWebhook, forgetGitApp: whatever deliveries cross a change or the  *)
(* removal of the app, the secret on disk is the one the owner was shown   *)
(* last, and none signed with another is acted on.                         *)
(***************************************************************************)
THEOREM SecretStaysTheOwners == HookSpec => []SecretIsTheOwners
<1>1. HookInv => SecretIsTheOwners
  BY DEF HookInv, SecretInv, LockGuards, FileIsTheOwners, SecretIsTheOwners
<1>. QED BY HookSafe, <1>1, PTL

(***************************************************************************)
(* scheduleGitWebhookCheck: a push that was answered as looked at has been *)
(* asked for, or a check that has yet to ask is under way.                 *)
(***************************************************************************)
THEOREM AnsweredPushesAreLookedAt == HookSpec => []PushesAreLookedAt
<1>1. HookInv => PushesAreLookedAt
  BY DEF HookInv, QueueInv
<1>. QED BY HookSafe, <1>1, PTL

-----------------------------------------------------------------------------
(* Only a delivery and a queued check claim the app for a check, and neither *)
(* does within the debounce.                                                 *)
LEMMA ClaimsAreApart ==
  ASSUME HookInv, [HookNext]_hookVars, NEW c \in Checkers,
         checker[c] # checker'[c], claim # c, claim' = c
  PROVE  ~fresh
<1>. USE WebhookNames DEF Nobody
<1>1. ASSUME NEW d \in Deliveries, Schedule(d) PROVE ~fresh
  BY <1>1 DEF Schedule, Queue, CheckAtOnce
<1>2. ASSUME NEW e \in Checkers, GetsTheApp(e) PROVE ~fresh
  BY <1>2 DEF GetsTheApp, HookInv, QueueInv, QueueIsOne
<1>3. ASSUME NEW e \in Checkers,
             GivesUp(e) \/ Prepares(e) \/ Asks(e) \/ EndsCheck(e) \/ WindowCloses(e) \/ LeavesTheQueue(e)
      PROVE  claim' \in {claim, Nobody}
  BY <1>3 DEF GivesUp, Prepares, Asks, EndsCheck, WindowCloses, LeavesTheQueue
<1>4. ASSUME NEW d \in Deliveries, (\E s \in 1 .. secrets : Arrives(d, s)) \/ Compare(d) \/ WriteDelivery(d)
      PROVE  claim' = claim
  BY <1>4 DEF Arrives, Compare, WriteDelivery
<1>5. CASE OtherTakesTheApp \/ OtherAsks \/ OtherEnds \/ OwnerGoesOn \/ OwnerFails
           \/ \E req \in {"on", "off", "renew", "remove", "register", "restore"} : Requests(req)
  BY <1>5 DEF OtherTakesTheApp, OtherAsks, OtherEnds, OwnerGoesOn, OwnerFails, SetsWebhook, Forgets,
              ForgetsTheApp, OwnerSaves, Requests, OwnerFrame, runVars
<1>6. CASE Push \/ Upgrade \/ DebounceEnds \/ UNCHANGED hookVars
  BY <1>6 DEF Push, Upgrade, DebounceEnds, runVars, hookVars
<1>7. CASE KillService
  BY <1>7 DEF KillService
<1>. QED BY <1>1, <1>2, <1>3, <1>4, <1>5, <1>6, <1>7 DEF HookNext, CheckGoesOn

(***************************************************************************)
(* gitWebhookDebounce: no check starts within it, and one waits at most.   *)
(***************************************************************************)
THEOREM ChecksStayApart == HookSpec => ChecksKeepApart
<1>1. HookInv /\ HookInv' /\ [HookNext]_hookVars =>
        [/\ \A c \in Checkers : (checker[c] # checker'[c] /\ claim # c /\ claim' = c) => ~fresh
         /\ \A c, e \in Checkers : Queued(c)' /\ Queued(e)' => c = e]_hookVars
  BY ClaimsAreApart DEF HookInv, QueueInv, QueueIsOne
<1>. QED BY HookSafe, <1>1, PTL DEF HookSpec, ChecksKeepApart

-----------------------------------------------------------------------------
(* The repositories: who looks holds the lock (OneLooks); what a tick has left or  *)
(* looks at is due by the file as it is, not only as it read it (LeftIsDue); *)
(* of a fault nobody was told of its repository is due (UntoldIsDue).        *)
Looks == [at : {"idle", "next", "check", "tell", "write"}, hand : BOOLEAN, left : SUBSET Repos,
          repo : Repos \cup {"none"}, ok : BOOLEAN, since : 0 .. Every]

RecordsTypes == record \in [Repos -> [ok : BOOLEAN, age : 0 .. Every]]
ChecksTypes ==
  /\ RecordsTypes /\ untold \subseteq Repos /\ look \in [Lookers -> Looks]
  /\ \A c \in Lookers : look[c].at \in {"check", "tell", "write"} => look[c].repo \in Repos

OneLooks == \A c \in Lookers : look[c].at # "idle" => looking = c

LeftIsDue ==
  \A c \in Lookers :
    /\ look[c].at = "next" => ~look[c].hand
    /\ ~look[c].hand /\ look[c].at # "idle" => \A r \in look[c].left : Due(r)
    /\ ~look[c].hand /\ look[c].at \in {"check", "tell"} => Due(look[c].repo)
    /\ ~look[c].hand /\ look[c].at \in {"check", "tell", "write"} => look[c].repo \notin look[c].left

UntoldIsDue ==
  /\ \A r \in untold : Due(r) \/ AgainSoon(r)
  /\ \A c \in Lookers :
       /\ look[c].at = "tell" => ~look[c].ok
       /\ look[c].at = "write" /\ look[c].repo \in untold => look[c].repo \in unheard /\ ~look[c].ok

ChecksInv == ChecksTypes /\ OneLooks /\ LeftIsDue /\ UntoldIsDue

LEMMA ChecksStart == ChecksInit => ChecksInv
<1> SUFFICES ASSUME ChecksInit PROVE ChecksInv
  OBVIOUS
<1>1. NoLook \in Looks
  BY PeriodsAreNatural DEF NoLook, Looks
<1>2. Never \in [ok : BOOLEAN, age : 0 .. Every]
  BY PeriodsAreNatural DEF Never
<1>3. \A c \in Lookers : look[c] = NoLook /\ look[c].at = "idle"
  BY DEF ChecksInit, NoLook
<1>4. ChecksTypes
  BY <1>1, <1>2, <1>3 DEF ChecksInit, ChecksTypes, RecordsTypes
<1> QED BY <1>3, <1>4 DEF ChecksInit, ChecksInv, OneLooks, LeftIsDue, UntoldIsDue

(* One looker goes on, the others are idle.                                  *)
LEMMA OneGoesOn ==
  ASSUME ChecksInv, NEW c \in Lookers, NEW l \in Looks, look' = [look EXCEPT ![c] = l],
         look[c].at # "idle" \/ looking = NoOne, l.at # "idle" => looking' = c,
         l.at \in {"check", "tell", "write"} => l.repo \in Repos,
         RecordsTypes', untold' \subseteq Repos
  PROVE  /\ ChecksTypes' /\ OneLooks' /\ look'[c] = l
         /\ \A d \in Lookers : d # c => look'[d] = look[d] /\ look[d].at = "idle"
<1>1. look \in [Lookers -> Looks]
  BY DEF ChecksInv, ChecksTypes
<1>2. /\ look' \in [Lookers -> Looks] /\ look'[c] = l
      /\ \A d \in Lookers : d # c => look'[d] = look[d]
  BY <1>1
<1>3. \A d \in Lookers : d # c => look[d].at = "idle"
  BY PeriodsAreNatural DEF ChecksInv, OneLooks
<1>4. ChecksTypes'
  BY <1>2, <1>3 DEF ChecksTypes
<1>5. OneLooks'
  BY <1>2, <1>3 DEF OneLooks
<1> QED BY <1>2, <1>3, <1>4, <1>5

LEMMA TickStartsKeeps ==
  ASSUME ChecksInv, NEW c \in Lookers, TickStarts(c)
  PROVE  ChecksInv'
<1> DEFINE dueNow == {r \in Repos : Due(r)}
           l == [NoLook EXCEPT !.at = "next", !.left = dueNow]
<1>1. /\ look[c].at = "idle" /\ looking = NoOne /\ looking' = c /\ look' = [look EXCEPT ![c] = l]
      /\ record' = record /\ untold' = untold /\ unheard' = unheard
  BY DEF TickStarts, faults
<1>2. l.at = "next" /\ ~l.hand /\ l.left = dueNow /\ l \in Looks
  <2>1. dueNow \in SUBSET Repos
    OBVIOUS
  <2> HIDE DEF dueNow
  <2>2. NoLook \in Looks /\ ~NoLook.hand
    BY PeriodsAreNatural DEF NoLook, Looks
  <2> QED BY <2>1, <2>2 DEF Looks
<1> HIDE DEF l
<1>3. RecordsTypes' /\ untold' \subseteq Repos
  BY <1>1 DEF ChecksInv, ChecksTypes, RecordsTypes
<1>4. /\ ChecksTypes' /\ OneLooks' /\ look'[c] = l
      /\ \A d \in Lookers : d # c => look'[d] = look[d] /\ look[d].at = "idle"
  BY <1>1, <1>2, <1>3, OneGoesOn
<1>5. \A r : Due(r)' <=> Due(r)
  BY <1>1 DEF Due
<1>6. LeftIsDue'
  BY <1>2, <1>4, <1>5 DEF LeftIsDue
<1>7. UntoldIsDue'
  BY <1>1, <1>2, <1>4, <1>5 DEF ChecksInv, UntoldIsDue, AgainSoon
<1> QED BY <1>4, <1>6, <1>7 DEF ChecksInv

LEMMA HandStartsKeeps ==
  ASSUME ChecksInv, NEW c \in Lookers, NEW r \in Repos, HandStarts(c, r)
  PROVE  ChecksInv'
<1> DEFINE l == [NoLook EXCEPT !.at = "check", !.hand = TRUE, !.repo = r]
<1>1. /\ look[c].at = "idle" /\ looking = NoOne /\ looking' = c /\ look' = [look EXCEPT ![c] = l]
      /\ record' = record /\ untold' = untold /\ unheard' = unheard
  BY DEF HandStarts, faults
<1>2. l.at = "check" /\ l.hand /\ l.repo = r /\ l \in Looks
  <2>1. NoLook \in Looks
    BY PeriodsAreNatural DEF NoLook, Looks
  <2> QED BY <2>1 DEF Looks
<1> HIDE DEF l
<1>3. RecordsTypes' /\ untold' \subseteq Repos
  BY <1>1 DEF ChecksInv, ChecksTypes, RecordsTypes
<1>4. /\ ChecksTypes' /\ OneLooks' /\ look'[c] = l
      /\ \A d \in Lookers : d # c => look'[d] = look[d] /\ look[d].at = "idle"
  BY <1>1, <1>2, <1>3, OneGoesOn
<1>5. \A s : Due(s)' <=> Due(s)
  BY <1>1 DEF Due
<1>6. LeftIsDue'
  BY <1>2, <1>4, <1>5 DEF LeftIsDue
<1>7. UntoldIsDue'
  BY <1>1, <1>2, <1>4, <1>5 DEF ChecksInv, UntoldIsDue, AgainSoon
<1> QED BY <1>4, <1>6, <1>7 DEF ChecksInv

LEMMA NextRepoKeeps ==
  ASSUME ChecksInv, NEW c \in Lookers, NextRepo(c)
  PROVE  /\ ChecksInv'
         /\ look'[c].at = "check" => Due(look'[c].repo)
<1>1. PICK r \in look[c].left :
        look' = [look EXCEPT ![c] = [look[c] EXCEPT !.left = look[c].left \ {r}, !.repo = r,
                                                    !.at = IF r \in kept THEN "check" ELSE "next"]]
  BY DEF NextRepo, ChecksInv, ChecksTypes
<1> DEFINE l == [look[c] EXCEPT !.left = look[c].left \ {r}, !.repo = r,
                                !.at = IF r \in kept THEN "check" ELSE "next"]
<1>2. /\ look[c].at = "next" /\ look[c] \in Looks /\ r \in Repos
      /\ looking' = looking /\ record' = record /\ untold' = untold /\ unheard' = unheard
  BY <1>1 DEF NextRepo, around, faults, ChecksInv, ChecksTypes, Looks
<1>3. /\ l.at \in {"check", "next"} /\ l.left = look[c].left \ {r} /\ l.repo = r /\ l.hand = look[c].hand
      /\ l \in Looks
  BY <1>2 DEF Looks
<1>4. look' = [look EXCEPT ![c] = l]
  BY <1>1
<1>5. looking = c /\ ~look[c].hand /\ \A s \in look[c].left : Due(s)
  BY <1>2 DEF ChecksInv, OneLooks, LeftIsDue
<1> HIDE DEF l
<1>6. RecordsTypes' /\ untold' \subseteq Repos
  BY <1>2 DEF ChecksInv, ChecksTypes, RecordsTypes
<1>7. /\ ChecksTypes' /\ OneLooks' /\ look'[c] = l
      /\ \A d \in Lookers : d # c => look'[d] = look[d] /\ look[d].at = "idle"
  BY <1>2, <1>3, <1>4, <1>5, <1>6, OneGoesOn
<1>8. \A s : Due(s)' <=> Due(s)
  BY <1>2 DEF Due
<1>9. LeftIsDue'
  BY <1>1, <1>3, <1>5, <1>7, <1>8 DEF LeftIsDue
<1>10. UntoldIsDue'
  BY <1>2, <1>3, <1>7, <1>8 DEF ChecksInv, UntoldIsDue, AgainSoon
<1> QED BY <1>1, <1>3, <1>5, <1>7, <1>9, <1>10 DEF ChecksInv

LEMMA TickEndsKeeps ==
  ASSUME ChecksInv, NEW c \in Lookers, TickEnds(c)
  PROVE  ChecksInv'
<1>1. /\ look[c].at = "next" /\ look' = [look EXCEPT ![c] = NoLook] /\ record' = record /\ untold' = untold /\ unheard' = unheard
      /\ NoLook \in Looks /\ NoLook.at = "idle"
  BY PeriodsAreNatural DEF TickEnds, around, faults, NoLook, Looks
<1>2. RecordsTypes' /\ untold' \subseteq Repos
  BY <1>1 DEF ChecksInv, ChecksTypes, RecordsTypes
<1>3. /\ ChecksTypes' /\ OneLooks' /\ look'[c] = NoLook
      /\ \A d \in Lookers : d # c => look'[d] = look[d] /\ look[d].at = "idle"
  BY <1>1, <1>2, OneGoesOn
<1>4. \A s : Due(s)' <=> Due(s)
  BY <1>1 DEF Due
<1>5. LeftIsDue'
  BY <1>1, <1>3 DEF LeftIsDue
<1>6. UntoldIsDue'
  BY <1>1, <1>3, <1>4 DEF ChecksInv, UntoldIsDue, AgainSoon
<1> QED BY <1>3, <1>5, <1>6 DEF ChecksInv

LEMMA ChecksKeeps ==
  ASSUME ChecksInv, NEW c \in Lookers, Checks(c)
  PROVE  ChecksInv'
<1>1. PICK ok \in {FALSE, look[c].repo \in sound} :
        /\ look' = [look EXCEPT ![c] = [look[c] EXCEPT !.at = IF ok THEN "write" ELSE "tell", !.ok = ok]]
        /\ Untold(c, ok)
  BY DEF Checks, ChecksInv, ChecksTypes
<1> DEFINE l == [look[c] EXCEPT !.at = IF ok THEN "write" ELSE "tell", !.ok = ok]
<1>2. /\ look[c].at = "check" /\ look[c] \in Looks /\ look[c].repo \in Repos
      /\ looking' = looking /\ record' = record
  BY DEF Checks, around, ChecksInv, ChecksTypes
<1>3. /\ l.at = (IF ok THEN "write" ELSE "tell") /\ l.left = look[c].left /\ l.repo = look[c].repo
      /\ l.hand = look[c].hand /\ l.ok = ok /\ l \in Looks
  <2>1. ok \in BOOLEAN
    <3> DEFINE m == look[c].repo \in sound
    <3>1. m \in BOOLEAN
      OBVIOUS
    <3> HIDE DEF m
    <3>2. ok \in {FALSE, m}
      BY <1>1 DEF m
    <3> QED BY <3>1, <3>2
  <2>2. (IF ok THEN "write" ELSE "tell") \in {"write", "tell"}
    OBVIOUS
  <2> QED BY <1>2, <2>1, <2>2 DEF Looks
<1>4. look' = [look EXCEPT ![c] = l]
  BY <1>1
<1>5. looking = c
  BY <1>2 DEF ChecksInv, OneLooks
<1> HIDE DEF l
<1>6. /\ ok => untold' = untold \ {l.repo} /\ unheard' = unheard \ {l.repo}
      /\ ~ok /\ ~l.hand => untold' = untold \cup {l.repo} /\ unheard' = unheard \ {l.repo}
      /\ ~ok /\ l.hand => untold' = untold /\ unheard' = unheard
  BY <1>1, <1>3 DEF Untold, faults
<1>7. RecordsTypes' /\ untold' \subseteq Repos
  BY <1>2, <1>3, <1>6 DEF ChecksInv, ChecksTypes, RecordsTypes
<1>8. /\ ChecksTypes' /\ OneLooks' /\ look'[c] = l
      /\ \A d \in Lookers : d # c => look'[d] = look[d] /\ look[d].at = "idle"
  BY <1>2, <1>3, <1>4, <1>5, <1>7, OneGoesOn
<1>9. \A s : Due(s)' <=> Due(s)
  BY <1>2 DEF Due
<1>10. LeftIsDue'
  BY <1>2, <1>3, <1>8, <1>9 DEF ChecksInv, LeftIsDue
<1>11. ~l.hand => Due(l.repo)
  BY <1>2, <1>3 DEF ChecksInv, LeftIsDue
<1>12. UntoldIsDue'
  <2>1. \A s \in untold' : Due(s)' \/ AgainSoon(s)'
    <3> SUFFICES ASSUME NEW s \in untold' PROVE Due(s)' \/ AgainSoon(s)'
      OBVIOUS
    <3>1. CASE s = l.repo /\ ~l.hand
      BY <1>9, <1>11, <3>1
    <3>2. CASE s \in untold /\ (s \in unheard => s \in unheard')
      BY <1>2, <1>9, <3>2 DEF ChecksInv, UntoldIsDue, AgainSoon
    <3> QED BY <1>6, <3>1, <3>2
  <2>2. (l.at = "tell" => ~l.ok) /\ (l.at = "write" => l.repo \notin untold')
    BY <1>3, <1>6
  <2> QED BY <1>8, <2>1, <2>2 DEF UntoldIsDue
<1> QED BY <1>8, <1>10, <1>12 DEF ChecksInv

LEMMA TellsKeeps ==
  ASSUME ChecksInv, NEW c \in Lookers, Tells(c)
  PROVE  ChecksInv'
<1> DEFINE l == [look[c] EXCEPT !.at = "write"]
<1>1. /\ look[c].at = "tell" /\ look[c] \in Looks /\ look[c].repo \in Repos
      /\ looking' = looking /\ record' = record
      /\ untold' \subseteq untold /\ (untold' \ {look[c].repo}) \cap unheard' = (untold \ {look[c].repo}) \cap unheard
      /\ look[c].repo \in untold' => look[c].repo \in unheard' /\ untold' = untold
      /\ look' = [look EXCEPT ![c] = l]
  BY DEF Tells, around, ChecksInv, ChecksTypes
<1>2. /\ l.at = "write" /\ l.left = look[c].left /\ l.repo = look[c].repo /\ l.hand = look[c].hand /\ l \in Looks
      /\ l.ok = look[c].ok
  BY <1>1 DEF Looks
<1>3. looking = c
  BY <1>1 DEF ChecksInv, OneLooks
<1> HIDE DEF l
<1>4. RecordsTypes' /\ untold' \subseteq Repos
  BY <1>1 DEF ChecksInv, ChecksTypes, RecordsTypes
<1>5. /\ ChecksTypes' /\ OneLooks' /\ look'[c] = l
      /\ \A d \in Lookers : d # c => look'[d] = look[d] /\ look[d].at = "idle"
  BY <1>1, <1>2, <1>3, <1>4, OneGoesOn
<1>6. \A s : Due(s)' <=> Due(s)
  BY <1>1 DEF Due
<1>7. LeftIsDue'
  BY <1>1, <1>2, <1>5, <1>6 DEF ChecksInv, LeftIsDue
<1>8. UntoldIsDue'
  BY <1>1, <1>2, <1>5, <1>6 DEF ChecksInv, UntoldIsDue, AgainSoon
<1> QED BY <1>5, <1>7, <1>8 DEF ChecksInv

(* A check that was recorded: what was due stays so, its own repository      *)
(* excepted, which nobody has left and of which everything was told.         *)
LEMMA RecordsKeeps ==
  ASSUME ChecksInv, NEW c \in Lookers, Records(c)
  PROVE  ChecksInv'
<1> DEFINE l == IF look[c].hand THEN NoLook ELSE [look[c] EXCEPT !.at = "next"]
           o == look[c].repo
<1>1. /\ look[c].at = "write" /\ look[c] \in Looks /\ look \in [Lookers -> Looks] /\ o \in Repos
      /\ looking = c /\ untold' = untold /\ unheard' = unheard
      /\ o \in untold => o \in unheard /\ ~look[c].ok
  BY DEF Records, faults, ChecksInv, ChecksTypes, OneLooks, UntoldIsDue
<1>2. look' = [look EXCEPT ![c] = l] /\ (~look[c].hand => looking' = looking)
  BY <1>1 DEF Records
<1>3. /\ l \in Looks
      /\ ~look[c].hand => l.at = "next" /\ l.left = look[c].left /\ l.repo = o /\ ~l.hand
      /\ look[c].hand => l.at = "idle"
  BY <1>1, PeriodsAreNatural DEF Looks, NoLook
<1>4. /\ RecordsTypes' /\ \A s \in Repos \ {o} : record'[s] = record[s]
      /\ record' = record \/ record'[o].ok = look[c].ok
  <2>1. CASE record' = record
    BY <2>1 DEF ChecksInv, ChecksTypes, RecordsTypes
  <2>2. CASE record' = [record EXCEPT ![o] = [ok |-> look[c].ok, age |-> look[c].since]]
    <3>1. [ok |-> look[c].ok, age |-> look[c].since] \in [ok : BOOLEAN, age : 0 .. Every]
      BY <1>1 DEF Looks
    <3> QED BY <2>2, <3>1 DEF ChecksInv, ChecksTypes, RecordsTypes
  <2> QED BY <2>1, <2>2 DEF Records, Writes
<1> HIDE DEF l, o
<1>5. untold' \subseteq Repos
  BY <1>1 DEF ChecksInv, ChecksTypes
<1>6. /\ ChecksTypes' /\ OneLooks' /\ look'[c] = l
      /\ \A d \in Lookers : d # c => look'[d] = look[d] /\ look[d].at = "idle"
  BY <1>1, <1>2, <1>3, <1>4, <1>5, OneGoesOn
<1>7. \A s \in Repos \ {o} : Due(s)' <=> Due(s)
  BY <1>4 DEF Due
<1>8. look[c].left \subseteq Repos
  BY <1>1 DEF Looks
<1>9. ~look[c].hand => (\A s \in look[c].left : Due(s)) /\ o \notin look[c].left
  BY <1>1 DEF ChecksInv, LeftIsDue, o
<1>10. LeftIsDue'
  BY <1>3, <1>6, <1>7, <1>8, <1>9 DEF LeftIsDue
<1>11. UntoldIsDue'
  <2>1. \A s \in untold' : Due(s)' \/ AgainSoon(s)'
    <3> SUFFICES ASSUME NEW s \in untold PROVE Due(s)' \/ AgainSoon(s)'
      BY <1>1
    <3>1. Due(s) \/ AgainSoon(s)
      BY DEF ChecksInv, UntoldIsDue
    <3>2. CASE s # o
      BY <1>1, <1>4, <1>5, <1>7, <3>1, <3>2 DEF AgainSoon
    <3>3. CASE s = o /\ record' # record
      BY <1>1, <1>4, <3>3 DEF AgainSoon
    <3>4. CASE record' = record
      BY <1>1, <3>1, <3>4 DEF Due, AgainSoon
    <3> QED BY <3>2, <3>3, <3>4
  <2>2. \A d \in Lookers : look'[d].at \notin {"tell", "write"}
    BY <1>3, <1>6
  <2> QED BY <2>1, <2>2 DEF UntoldIsDue
<1> QED BY <1>6, <1>10, <1>11 DEF ChecksInv

(* Time: everybody stays where he is, and what is due stays due.             *)
LEMMA TimePassesKeeps ==
  ASSUME ChecksInv, TimePasses
  PROVE  ChecksInv'
<1>1. looking' = looking /\ untold' = untold /\ unheard' = unheard
  BY DEF TimePasses, faults
<1>2. /\ RecordsTypes'
      /\ \A s \in Repos : record'[s].ok = record[s].ok /\ record'[s].age >= record[s].age
                          /\ record[s].age \in Nat /\ record'[s].age \in Nat
  <2> SUFFICES ASSUME NEW s \in Repos
               PROVE  LET n == [record[s] EXCEPT !.age = Older(@)] IN
                      /\ n \in [ok : BOOLEAN, age : 0 .. Every]
                      /\ n.ok = record[s].ok /\ n.age >= record[s].age /\ record[s].age \in Nat /\ n.age \in Nat
    BY DEF TimePasses, RecordsTypes
  <2>1. record[s] \in [ok : BOOLEAN, age : 0 .. Every]
    BY DEF ChecksInv, ChecksTypes, RecordsTypes
  <2> QED BY <2>1, PeriodsAreNatural DEF Older
<1>3. /\ look' \in [Lookers -> Looks]
      /\ \A d \in Lookers : /\ look'[d].at = look[d].at /\ look'[d].hand = look[d].hand
                            /\ look'[d].left = look[d].left /\ look'[d].repo = look[d].repo
                            /\ look'[d].ok = look[d].ok
                            /\ look[d].left \subseteq Repos
  <2> SUFFICES ASSUME NEW d \in Lookers
               PROVE  LET n == IF look[d].at = "idle" THEN look[d] ELSE [look[d] EXCEPT !.since = Older(@)] IN
                      /\ n \in Looks /\ n.at = look[d].at /\ n.hand = look[d].hand
                      /\ n.left = look[d].left /\ n.repo = look[d].repo /\ n.ok = look[d].ok /\ look[d].left \subseteq Repos
    BY DEF TimePasses
  <2>1. look[d] \in Looks
    BY DEF ChecksInv, ChecksTypes
  <2> QED BY <2>1, PeriodsAreNatural DEF Older, Looks
<1>4. \A s \in Repos : Due(s) => Due(s)'
  BY <1>2, PeriodsAreNatural DEF Due
<1>5. ChecksTypes'
  BY <1>1, <1>2, <1>3 DEF ChecksInv, ChecksTypes
<1>6. OneLooks'
  BY <1>1, <1>3 DEF ChecksInv, OneLooks
<1>7. LeftIsDue'
  BY <1>3, <1>4 DEF ChecksInv, ChecksTypes, LeftIsDue
<1>8. UntoldIsDue'
  <2>1. \A d \in untold : Due(d)' \/ AgainSoon(d)'
    BY <1>1, <1>2, <1>4 DEF ChecksInv, ChecksTypes, UntoldIsDue, AgainSoon
  <2> QED BY <1>1, <1>3, <2>1 DEF ChecksInv, UntoldIsDue
<1> QED BY <1>5, <1>6, <1>7, <1>8 DEF ChecksInv

(* A kill: nobody looks any more, and what was due is.                       *)
LEMMA KillChecksKeeps ==
  ASSUME ChecksInv, KillChecks
  PROVE  ChecksInv'
<1>1. /\ record' = record /\ untold' = untold /\ unheard' = unheard /\ look' = [c \in Lookers |-> NoLook]
      /\ NoLook \in Looks /\ NoLook.at = "idle"
  BY PeriodsAreNatural DEF KillChecks, faults, NoLook, Looks
<1>2. ChecksTypes'
  BY <1>1 DEF ChecksInv, ChecksTypes, RecordsTypes
<1>3. OneLooks' /\ LeftIsDue'
  BY <1>1 DEF OneLooks, LeftIsDue
<1>4. \A s : Due(s)' <=> Due(s)
  BY <1>1 DEF Due
<1>5. UntoldIsDue'
  BY <1>1, <1>4 DEF ChecksInv, UntoldIsDue, AgainSoon
<1> QED BY <1>2, <1>3, <1>5 DEF ChecksInv

LEMMA LosesFileKeeps ==
  ASSUME ChecksInv, LosesFile
  PROVE  ChecksInv'
<1>1. /\ looking' = looking /\ look' = look /\ untold' = untold /\ unheard' = unheard
      /\ record' = [r \in Repos |-> Never]
  BY DEF LosesFile, faults
<1>2. Never \in [ok : BOOLEAN, age : 0 .. Every] /\ ~Never.ok /\ Never.age = Every
  BY PeriodsAreNatural DEF Never
<1>3. \A s \in Repos : Due(s)'
  BY <1>1, <1>2, PeriodsAreNatural DEF Due
<1>4. ChecksTypes'
  BY <1>1, <1>2 DEF ChecksInv, ChecksTypes, RecordsTypes
<1>5. OneLooks'
  BY <1>1 DEF ChecksInv, OneLooks
<1>6. \A d \in Lookers : look[d].left \subseteq Repos
  BY DEF ChecksInv, ChecksTypes, Looks
<1>7. LeftIsDue'
  BY <1>1, <1>3, <1>6 DEF ChecksInv, ChecksTypes, LeftIsDue
<1>8. UntoldIsDue'
  BY <1>1, <1>3 DEF ChecksInv, ChecksTypes, UntoldIsDue, AgainSoon
<1> QED BY <1>4, <1>5, <1>7, <1>8 DEF ChecksInv

LEMMA OthersKeep ==
  ASSUME ChecksInv, UNCHANGED <<record, looking, look, untold, unheard>>
  PROVE  ChecksInv'
BY DEF ChecksInv, ChecksTypes, RecordsTypes, OneLooks, LeftIsDue, UntoldIsDue, Due, AgainSoon

LEMMA ChecksNextKeeps == ChecksInv /\ [ChecksNext]_checkVars => ChecksInv'
<1> SUFFICES ASSUME ChecksInv, [ChecksNext]_checkVars PROVE ChecksInv'
  OBVIOUS
<1>1. ASSUME NEW c \in Lookers, TickStarts(c) PROVE ChecksInv'
  BY <1>1, TickStartsKeeps
<1>2. ASSUME NEW c \in Lookers, NextRepo(c) PROVE ChecksInv'
  BY <1>2, NextRepoKeeps
<1>3. ASSUME NEW c \in Lookers, TickEnds(c) PROVE ChecksInv'
  BY <1>3, TickEndsKeeps
<1>4. ASSUME NEW c \in Lookers, Checks(c) PROVE ChecksInv'
  BY <1>4, ChecksKeeps
<1>5. ASSUME NEW c \in Lookers, Tells(c) PROVE ChecksInv'
  BY <1>5, TellsKeeps
<1>6. ASSUME NEW c \in Lookers, Records(c) PROVE ChecksInv'
  BY <1>6, RecordsKeeps
<1>7. ASSUME NEW c \in Lookers, NEW r \in Repos, HandStarts(c, r) PROVE ChecksInv'
  BY <1>7, HandStartsKeeps
<1>8. CASE TimePasses
  BY <1>8, TimePassesKeeps
<1>9. CASE KillChecks
  BY <1>9, KillChecksKeeps
<1>10. CASE LosesFile
  BY <1>10, LosesFileKeeps
<1>11. CASE UpgradeOpens \/ UpgradeCloses \/ \E r \in Repos : RepoChanges(r)
  <2>1. UNCHANGED <<record, looking, look, untold, unheard>>
    BY <1>11 DEF UpgradeOpens, UpgradeCloses, RepoChanges, faults
  <2> QED BY <2>1, OthersKeep
<1>12. CASE UNCHANGED checkVars
  <2>1. UNCHANGED <<record, looking, look, untold, unheard>>
    BY <1>12 DEF checkVars
  <2> QED BY <2>1, OthersKeep
<1> QED BY <1>1, <1>2, <1>3, <1>4, <1>5, <1>6, <1>7, <1>8, <1>9, <1>10, <1>11, <1>12 DEF ChecksNext, LookGoesOn

(* Only NextRepo takes a tick from one repository to the check of the next.  *)
LEMMA NobodyLooksTooSoon ==
  ASSUME ChecksInv, [ChecksNext]_checkVars
  PROVE  \A c \in Lookers, r \in Repos : TicksLookAt(c, r) => Due(r)
<1> SUFFICES ASSUME NEW c \in Lookers, NEW r \in Repos, look[c].at = "next", look'[c].at = "check",
                    look'[c].repo = r
             PROVE  Due(r)
  BY DEF TicksLookAt
<1>1. look \in [Lookers -> Looks] /\ looking = c
  BY DEF ChecksInv, ChecksTypes, OneLooks
<1>2. c # NoOne /\ \A d \in Lookers : look[d].at # "idle" => d = c
  BY <1>1, PeriodsAreNatural DEF ChecksInv, OneLooks
<1>3. ASSUME NEW d \in Lookers, NextRepo(d) PROVE Due(r)
  <2>1. d = c
    BY <1>2, <1>3 DEF NextRepo
  <2> QED BY <1>3, <2>1, NextRepoKeeps
<1>4. ASSUME NEW d \in Lookers, TickEnds(d) \/ Checks(d) \/ Tells(d) \/ Records(d) PROVE Due(r)
  <2>1. look[d].at # "idle"
    BY <1>4 DEF TickEnds, Checks, Tells, Records
  <2>2. d = c /\ TickEnds(c)
    BY <1>2, <1>4, <2>1 DEF Checks, Tells, Records
  <2>3. look'[c] = NoLook
    BY <1>1, <2>2 DEF TickEnds
  <2> QED BY <2>3 DEF NoLook
<1>5. ASSUME NEW d \in Lookers, NEW s \in Repos, TickStarts(d) \/ HandStarts(d, s) PROVE Due(r)
  BY <1>1, <1>2, <1>5 DEF TickStarts, HandStarts
<1>6. CASE TimePasses
  <2>1. look'[c] = [look[c] EXCEPT !.since = Older(@)]
    BY <1>6 DEF TimePasses
  <2>2. look'[c].at = look[c].at
    BY <1>1, <2>1 DEF Looks
  <2> QED BY <2>2
<1>7. CASE KillChecks
  BY <1>7 DEF KillChecks, NoLook
<1>8. CASE LosesFile \/ UpgradeOpens \/ UpgradeCloses \/ (\E s \in Repos : RepoChanges(s)) \/ UNCHANGED checkVars
  BY <1>8 DEF LosesFile, UpgradeOpens, UpgradeCloses, RepoChanges, checkVars
<1> QED BY <1>3, <1>4, <1>5, <1>6, <1>7, <1>8 DEF ChecksNext, LookGoesOn

(***************************************************************************)
(* "A failing check is not tried again every minute": a tick looks at a    *)
(* repository only when its last record is as old as it has to be, though  *)
(* the tick read the file hours before. And a fault that a tick found and  *)
(* the bus has not is one whose repository is due, so that it is found     *)
(* again, or one whose publish failed, and then its record is of a fault,  *)
(* due again after AfterFault. Both for any repositories and periods.      *)
(***************************************************************************)
THEOREM RepositoriesAreLookedAtInTime == ChecksSpec => NoneTooSoon /\ [](\A r \in untold : FoundAgain(r) \/ AgainSoon(r))
<1>1. ChecksInv => \A r \in untold : FoundAgain(r) \/ AgainSoon(r)
  BY DEF ChecksInv, UntoldIsDue, FoundAgain
<1>2. ChecksInv /\ [ChecksNext]_checkVars => [\A c \in Lookers, r \in Repos : TicksLookAt(c, r) => Due(r)]_checkVars
  BY NobodyLooksTooSoon
<1> QED BY <1>1, <1>2, ChecksStart, ChecksNextKeeps, PTL DEF ChecksSpec, NoneTooSoon

=============================================================================
