---------------------------- MODULE AppOperations ----------------------------
(***************************************************************************)
(* service/app_operations.go: the one table that refuses two operations on *)
(* an app at the same time, and that lists what runs for the core.         *)
(*                                                                         *)
(* `running` is what Begin claimed, `marked` is what markInProgress says   *)
(* runs without a claim. A handle is one call of Begin, beginWaiting or    *)
(* markInProgress together with the closure it returned (`end`, `done`):   *)
(* the closure can be called again after it has done its work, and by then *)
(* somebody else may hold the app. The mutex makes every access one step.  *)
(*                                                                         *)
(* The list of marks of an app is kept as how many there are of each kind: *)
(* its order only chooses which of several kinds RunningOperations names.  *)
(* The deadline of beginWaiting is a bound on how often it asks, which may *)
(* also pass earlier: the clock is not the table's to read.                *)
(***************************************************************************)
EXTENDS Naturals, FiniteSets

CONSTANTS
  Apps,       \* the names of the installed apps
  Kinds,      \* what an operation can be: install, update, backup, ...
  Handles,    \* the calls that can be in flight
  Free,       \* an app with no entry in `running`; also "no app" of an idle handle
  Patience    \* how often beginWaiting asks before it gives up, at most

ASSUME PatienceAssumption == Patience \in Nat \ {0}
ASSUME FreeAssumption == Free \notin Kinds /\ Free \notin Apps /\ Free \notin Handles
ASSUME HandlesAssumption == IsFiniteSet(Handles)

VARIABLES
  running,    \* app -> the kind of operation that holds it, or Free
  marked,     \* app -> kind -> how many marks of that kind
  op          \* handle -> where the call is, on which app, as what, asked how often

vars == <<running, marked, op>>

Phases == {"idle", "waiting", "holding", "ended", "marking", "done"}
Ops == [phase : Phases, app : Apps \cup {Free}, kind : Kinds \cup {Free}, asked : 0 .. Patience]
IdleOp == [phase |-> "idle", app |-> Free, kind |-> Free, asked |-> 0]

Holding(h) == op[h].phase = "holding"
Marking(h) == op[h].phase = "marking"
Marks(a, k) == {h \in Handles : Marking(h) /\ op[h].app = a /\ op[h].kind = k}

Init ==
  /\ running = [a \in Apps |-> Free]
  /\ marked = [a \in Apps |-> [k \in Kinds |-> 0]]
  /\ op = [h \in Handles |-> IdleOp]

CanBegin_AsksNobody(a) == TRUE

-----------------------------------------------------------------------------
(* Begin: claims the app, or refuses. A refused call leaves nothing behind. *)
CanBegin(a) == running[a] = Free

Claimed(h, a, k) ==
  /\ CanBegin(a)
  /\ running' = [running EXCEPT ![a] = k]
  /\ op' = [op EXCEPT ![h] = [phase |-> "holding", app |-> a, kind |-> k, asked |-> 0]]
  /\ UNCHANGED marked

Begin(h, a, k) == op[h].phase = "idle" /\ Claimed(h, a, k)

(* beginWaiting, its first round and the rounds after each quarter of a      *)
(* second: claim the app, or sleep and ask again, or give up with the        *)
(* refusal once the deadline has passed or the context ended.                *)
StartWaiting(h, a, k) ==
  /\ op[h].phase = "idle"
  /\ op' = [op EXCEPT ![h] = [phase |-> "waiting", app |-> a, kind |-> k, asked |-> 0]]
  /\ UNCHANGED <<running, marked>>

AskAndGet(h) ==
  /\ op[h].phase = "waiting"
  /\ Claimed(h, op[h].app, op[h].kind)

AskAndSleep(h) ==
  /\ op[h].phase = "waiting"
  /\ ~CanBegin(op[h].app)
  /\ op[h].asked < Patience
  /\ op' = [op EXCEPT ![h].asked = @ + 1]
  /\ UNCHANGED <<running, marked>>

GiveUp(h) ==
  /\ op[h].phase = "waiting"
  /\ ~CanBegin(op[h].app)
  /\ op' = [op EXCEPT ![h] = IdleOp]
  /\ UNCHANGED <<running, marked>>

Ask(h) == AskAndGet(h) \/ AskAndSleep(h) \/ GiveUp(h)

(* end, what Begin returned. once.Do: a second call does nothing, whoever    *)
(* holds the app by then.                                                    *)
EndAgain(h) == UNCHANGED <<running, marked, op>>

LetGo(h) ==
  /\ Holding(h)
  /\ running' = [running EXCEPT ![op[h].app] = Free]
  /\ op' = [op EXCEPT ![h].phase = "ended"]
  /\ UNCHANGED marked

End(h) == LetGo(h) \/ (op[h].phase = "ended" /\ EndAgain(h))

(* handOver: the operation passes its hold to one it starts, under the new   *)
(* operation's name and without letting the app go.                          *)
HandOver(h, k) ==
  /\ Holding(h)
  /\ running[op[h].app] # Free
  /\ running' = [running EXCEPT ![op[h].app] = k]
  /\ op' = [op EXCEPT ![h].kind = k]
  /\ UNCHANGED marked

(* markInProgress: never refuses and stops nothing else.                     *)
Mark(h, a, k) ==
  /\ op[h].phase = "idle"
  /\ marked' = [marked EXCEPT ![a][k] = @ + 1]
  /\ op' = [op EXCEPT ![h] = [phase |-> "marking", app |-> a, kind |-> k, asked |-> 0]]
  /\ UNCHANGED running

(* done, what markInProgress returned: one mark of that kind, whichever, and *)
(* nothing when it is called again.                                          *)
DoneAgain(h) == UNCHANGED <<running, marked, op>>

Unmark_ForgetsTheOthers(h) ==
  /\ Marking(h)
  /\ marked' = [marked EXCEPT ![op[h].app][op[h].kind] = 0]
  /\ op' = [op EXCEPT ![h].phase = "done"]
  /\ UNCHANGED running

Unmark(h) ==
  /\ Marking(h)
  /\ marked' = [marked EXCEPT ![op[h].app][op[h].kind] = @ - 1]
  /\ op' = [op EXCEPT ![h].phase = "done"]
  /\ UNCHANGED running

Done(h) == Unmark(h) \/ (op[h].phase = "done" /\ DoneAgain(h))

(* The closure goes out of scope, and its handle stands for another call.    *)
Return(h) ==
  /\ op[h].phase \in {"ended", "done"}
  /\ op' = [op EXCEPT ![h] = IdleOp]
  /\ UNCHANGED <<running, marked>>

Next ==
  \E h \in Handles :
    \/ \E a \in Apps, k \in Kinds : Begin(h, a, k) \/ StartWaiting(h, a, k) \/ Mark(h, a, k)
    \/ \E k \in Kinds : HandOver(h, k)
    \/ Ask(h)
    \/ End(h)
    \/ Done(h)
    \/ Return(h)

Spec == Init /\ [][Next]_vars

-----------------------------------------------------------------------------
(* RunningOperations: one entry per app, the hold's kind over a mark's. Of   *)
(* several marked kinds the code names the one marked first.                 *)
MarkedKinds(a) == {k \in Kinds : marked[a][k] > 0}

RunningOperations ==
  {[app |-> a, kinds |-> IF running[a] # Free THEN {running[a]} ELSE MarkedKinds(a)] :
     a \in {b \in Apps : running[b] # Free \/ MarkedKinds(b) # {}}}

(* held: a mark is no hold.                                                  *)
held(a) == running[a] # Free

-----------------------------------------------------------------------------
TypeOK ==
  /\ running \in [Apps -> Kinds \cup {Free}]
  /\ marked \in [Apps -> [Kinds -> Nat]]
  /\ op \in [Handles -> Ops]
  /\ \A h \in Handles : op[h].phase # "idle" => op[h].app \in Apps /\ op[h].kind \in Kinds

(* "One operation per app": no two calls that were not refused are on the    *)
(* same app, whatever was waited for, handed over, let go twice.             *)
OneOperationPerApp ==
  \A g, h \in Handles : Holding(g) /\ Holding(h) /\ op[g].app = op[h].app => g = h

(* A refusal, and the list the core reads, name what really runs: the table  *)
(* has an app under the kind its holder goes by, and no app without holder.  *)
HoldIsWhatRuns ==
  /\ \A h \in Handles : Holding(h) => running[op[h].app] = op[h].kind
  /\ \A a \in Apps : held(a) => \E h \in Handles : Holding(h) /\ op[h].app = a

(* Nested and overlapping marks of one kind on one app: the table has as     *)
(* many as there are operations that have not said they are over.            *)
MarksAreCounted ==
  \A a \in Apps, k \in Kinds : marked[a][k] = Cardinality(Marks(a, k))

(* What runs is listed, from the moment it claimed or marked its app until   *)
(* it ends: the core waits while anything is.                                *)
RunningIsListed ==
  \A h \in Handles : Holding(h) \/ Marking(h)
    => \E entry \in RunningOperations :
         entry.app = op[h].app /\ (Holding(h) => entry.kinds = {op[h].kind})

(* The table implements the promise.                                         *)
holders(a) == {h \in Handles : Holding(h) /\ op[h].app = a}
theOne(S) == IF S = {} THEN Free ELSE CHOOSE h \in S : TRUE
ownerBar == [a \in Apps |-> theOne(holders(a))]

Claims == INSTANCE AppClaims WITH owner <- ownerBar, Nobody <- Free
ClaimsPromise == Claims!ClaimsSpec
=============================================================================
