--------------------------- MODULE BackupCopiesProofs ---------------------------
(***************************************************************************)
(* What a backup names is there, what it copied held still is of one       *)
(* moment, what it stopped runs again, and a whole restore puts every path *)
(* back as it was: for every set of places, mounts, services, runs and     *)
(* jobs, whatever fails, however often the engine is switched, runs are    *)
(* deleted, or the process is killed.                                      *)
(*                                                                         *)
(* The invariant grows in four layers, each inductive with the one below:  *)
(* WorkInv   the types, the engine's key and what a job is at;             *)
(* HoldInv   what a job that holds stopped is off, what is off is owed;    *)
(* CopyAll   what the run of a backup holds so far, and names last;        *)
(* PutAll    what a restore has put back so far.                           *)
(***************************************************************************)
EXTENDS BackupCopies, FiniteSetTheorems, WellFoundedInduction, TLAPS

(* Of some numbers, one is the least.                                        *)
LEMMA FirstOne ==
  ASSUME NEW S, S \subseteq Nat, S # {}
  PROVE  \E m \in S : \A j \in S : m <= j
<1> DEFINE R == OpToRel(<, Nat)
<1>1. R = {p \in Nat \X Nat : p[1] < p[2]}
  BY Zenon DEF OpToRel
<1>2. IsWellFoundedOn(R, Nat)
  BY NatLessThanWellFounded, Zenon
<1> HIDE DEF R
<1>3. PICK m \in S : \A j \in S : ~(<<j, m>> \in R)
  BY <1>2, WFMin
<1>4. \A j \in S : ~(j < m)
  BY <1>1, <1>3
<1> QED
  BY <1>3, <1>4

(* Pick: what it leaves out, it leaves out; what it keeps, it keeps.         *)
LEMMA PickFinds ==
  ASSUME NEW s, NEW len \in Nat, NEW I \in SUBSET (1 .. len)
  PROVE  /\ DOMAIN Pick(s, I) = 1 .. Len(Pick(s, I)) /\ Len(Pick(s, I)) \in Nat
         /\ \A n \in DOMAIN Pick(s, I) : \E k \in I : Pick(s, I)[n] = s[k]
         /\ \A k \in I : \E n \in DOMAIN Pick(s, I) : Pick(s, I)[n] = s[k]
<1> DEFINE below(k) == {j \in I : j <= k}
           rank == [k \in I |-> Cardinality(below(k))]
           N == Cardinality(I)
<1>1. IsFiniteSet(I) /\ N \in Nat /\ I \subseteq Int
  <2>1. IsFiniteSet(1 .. len)
    BY FS_Interval
  <2>2. IsFiniteSet(I)
    BY <2>1, FS_Subset
  <2>3. \A i \in 1 .. len : i \in Int
    OBVIOUS
  <2>4. I \subseteq Int
    BY <2>3
  <2> QED
    BY <2>2, <2>4, FS_CardinalityType
<1>2. ASSUME NEW k \in I
      PROVE  IsFiniteSet(below(k)) /\ rank[k] \in 1 .. N
  <2>1. IsFiniteSet(below(k)) /\ Cardinality(below(k)) <= N /\ Cardinality(below(k)) \in Nat
    BY <1>1, FS_Subset, FS_CardinalityType
  <2>2. k \in below(k)
    BY <1>1
  <2>3. Cardinality(below(k)) # 0
    BY <2>1, <2>2, FS_EmptySet
  <2> QED
    BY <1>1, <2>1, <2>3
<1>3. ASSUME NEW k \in I, NEW l \in I, k < l
      PROVE  rank[k] < rank[l]
  <2>0. k \in Int /\ l \in Int /\ \A j \in I : j \in Int
    BY <1>1
  <2>9. \A j \in I : j <= k => j <= l
    BY <1>3, <2>0
  <2>10. l <= l /\ ~(l <= k)
    BY <1>3, <2>0
  <2>1. below(k) \in SUBSET below(l) /\ l \in below(l) /\ l \notin below(k)
    BY <2>9, <2>10
  <2>2. Cardinality(below(k)) <= Cardinality(below(l)) /\ Cardinality(below(k)) # Cardinality(below(l))
    BY <1>2, <2>1, FS_Subset
  <2>3. rank[k] = Cardinality(below(k)) /\ rank[l] = Cardinality(below(l))
    OBVIOUS
  <2> HIDE DEF rank, below, N
  <2>4. rank[k] \in Int /\ rank[l] \in Int
    BY <1>1, <1>2
  <2> QED
    BY <2>2, <2>3, <2>4
<1>4. rank \in Injection(I, 1 .. N)
  <2>1. rank \in [I -> 1 .. N]
    BY <1>2
  <2>2. \A k, l \in I : rank[k] = rank[l] => k = l
    <3> SUFFICES ASSUME NEW k \in I, NEW l \in I, k # l PROVE rank[k] # rank[l]
      OBVIOUS
    <3> HIDE DEF rank
    <3>1. k < l \/ l < k
      BY <1>1
    <3>2. rank[k] \in Int /\ rank[l] \in Int
      BY <2>1, <1>1
    <3> QED
      BY <1>3, <3>1, <3>2
  <2> HIDE DEF rank
  <2> QED
    BY <2>1, <2>2 DEF Injection, IsInjective
<1>5. \A n \in 1 .. N : \E k \in I : rank[k] = n
  <2>1. IsFiniteSet(1 .. N) /\ Cardinality(1 .. N) = N
    BY <1>1, FS_Interval
  <2>2. rank \in Surjection(I, 1 .. N)
    BY <1>4, <2>1, FS_Injection
  <2> HIDE DEF rank
  <2> QED
    BY <2>2 DEF Surjection
<1> DEFINE at(n) == CHOOSE k \in I : Cardinality({j \in I : j <= k}) = n
<1>6. ASSUME NEW n \in 1 .. N PROVE at(n) \in I /\ rank[at(n)] = n
  <2>1. \E k \in I : Cardinality({j \in I : j <= k}) = n
    BY <1>5
  <2> QED
    BY <2>1
<1>7. Pick(s, I) = [n \in 1 .. N |-> s[at(n)]]
  BY DEF Pick
<1>9. DOMAIN Pick(s, I) = 1 .. N /\ Len(Pick(s, I)) = N /\ Pick(s, I) = [n \in 1 .. N |-> Pick(s, I)[n]]
  <2> HIDE DEF at, N
  <2>1. DOMAIN Pick(s, I) = 1 .. N /\ Pick(s, I) = [n \in 1 .. N |-> Pick(s, I)[n]]
    BY <1>7
  <2>2. Len(Pick(s, I)) = N
    BY <1>1, <2>1
  <2> QED
    BY <2>1, <2>2
<1>10. ASSUME NEW k \in I PROVE at(rank[k]) = k /\ rank[k] \in 1 .. N
  <2>1. rank[k] \in 1 .. N
    BY <1>2
  <2>2. at(rank[k]) \in I /\ rank[at(rank[k])] = rank[k]
    BY <1>6, <2>1
  <2>3. \A x, y \in I : rank[x] = rank[y] => x = y
    BY <1>4 DEF Injection, IsInjective
  <2> QED
    BY <2>1, <2>2, <2>3
<1> HIDE DEF at, rank, N
<1>11. \A n \in 1 .. N : Pick(s, I)[n] = s[at(n)]
  BY <1>7
<1>12. \A n \in DOMAIN Pick(s, I) : \E k \in I : Pick(s, I)[n] = s[k]
  BY <1>6, <1>9, <1>11
<1>13. \A k \in I : \E n \in DOMAIN Pick(s, I) : Pick(s, I)[n] = s[k]
  BY <1>9, <1>10, <1>11
<1> QED
  BY <1>1, <1>9, <1>12, <1>13

LEMMA PickTypes ==
  ASSUME NEW S, NEW s, NEW len \in Nat, NEW I \in SUBSET (1 .. len), \A k \in I : s[k] \in S
  PROVE  Pick(s, I) \in Seq(S)
<1> DEFINE p == Pick(s, I)
<1>1. DOMAIN p = 1 .. Len(p) /\ Len(p) \in Nat /\ \A n \in DOMAIN p : p[n] \in S
  <2>1. \A n \in DOMAIN p : \E k \in I : p[n] = s[k]
    BY PickFinds
  <2>2. DOMAIN p = 1 .. Len(p) /\ Len(p) \in Nat
    BY PickFinds
  <2> HIDE DEF p
  <2> QED
    BY <2>1, <2>2
<1>2. p = [n \in DOMAIN p |-> p[n]]
  BY DEF Pick
<1> HIDE DEF p
<1>3. p \in [1 .. Len(p) -> S]
  BY <1>1, <1>2
<1>4. p \in Seq(S)
  BY <1>1, <1>3
<1> QED
  BY <1>4 DEF p
-----------------------------------------------------------------------------
Lists == AppMounts \cup {BoxMounts}
Dests == ({"volume"} \X Places) \cup ({"file", "bind"} \X Nat)
Contents == [folder : BOOLEAN, has : SUBSET (Places \cup {Later})]
Operations == [to : Dests, from : Places]
Pairs == [from : Dests, at : Places]
Manifests == [plan : Seq(Operations), of : Lists]
Holdings == UNION {[D -> Contents] : D \in SUBSET Dests}
Runs == [has : Holdings, compose : Lists \cup {Absent}, manifest : Manifests \cup {Absent}]
UnitNames == ToSet(BoxUnits) \cup {Containers_}
Steps == {"idle", "claim", "stop", "copy", "release", "install", "plan", "put"}
Records ==
  [at : Steps, kind : {"none", "backup", "restore"}, stamp : Stamps \cup {Nobody}, still : BOOLEAN,
   plan : Seq(Operations) \cup Seq(Pairs), next : Nat, was : Lists \cup {Absent},
   manifest : Manifests \cup {Absent}, only : SUBSET Dests, stopped : Seq(UnitNames), ok : BOOLEAN, alone : BOOLEAN,
   known : BOOLEAN, before : [Places -> Contents \cup {Absent}] \cup {Absent}]

CopiesTypes ==
  /\ subject \in {"app", "box"} /\ mounts \in Lists \cup {Absent}
  /\ disk \in [Places -> Contents \cup {Absent}]
  /\ up \subseteq ToSet(Units) /\ claim \in Jobs \cup {Nobody}
  /\ stamped \in [Stamps -> Runs] /\ repository \in [Stamps -> Runs]
  /\ key \in {"none", "on", "off"} /\ made \in BOOLEAN /\ opening \in BOOLEAN
  /\ job \in [Jobs -> Records]
  /\ purged \subseteq Stamps /\ cut \in BOOLEAN /\ hits \in Nat

(* Nothing is in the repository before it is made, and its key stays.        *)
EngineInv ==
  /\ key = "none" \/ opening => ~made
  /\ opening => key # "none"
  /\ ~made => \A s \in Stamps : repository[s] = Nothing

(* A plan of ms: a volume under its name, a bind under its number among those copied. *)
Number(ms, I, k) == Cardinality({j \in I : j <= k /\ ms[j].kind = "bind"})
IsOf(o, ms, I, k) ==
  /\ o.from = ms[k].at
  /\ IF ms[k].kind = "volume" THEN o.to = <<"volume", ms[k].at>>
     ELSE \E t \in {"file", "bind"} : o.to = <<t, Number(ms, I, k)>>
IsPlanOf(plan, ms) ==
  \E I \in SUBSET DOMAIN ms :
    /\ subject = "app" => \A k \in DOMAIN ms : ms[k].kind = "bind" => k \in I
    /\ \A i \in DOMAIN plan : \E k \in I : IsOf(plan[i], ms, I, k)

LEMMA ListsAreTyped ==
  ASSUME NEW ms \in Lists
  PROVE  /\ ms \in Seq([kind : {"bind", "volume"}, at : Places]) /\ DOMAIN ms = 1 .. Len(ms) /\ Len(ms) \in Nat
         /\ \A k \in DOMAIN ms : ms[k].kind \in {"bind", "volume"} /\ ms[k].at \in Places
<1> DEFINE M == [kind : {"bind", "volume"}, at : Places]
<1>1. ms \in Seq(M)
  BY CopiesAssumption DEF Lists
<1>2. \A k \in DOMAIN ms : ms[k] \in M
  <2> HIDE DEF M
  <2> QED
    BY <1>1
<1> QED
  BY <1>1, <1>2

LEMMA NumbersTellApart ==
  ASSUME NEW ms \in Lists, NEW I \in SUBSET DOMAIN ms
  PROVE  /\ \A k \in I : Number(ms, I, k) \in Nat
         /\ \A k, l \in I : ms[k].kind = "bind" /\ ms[l].kind = "bind" /\ Number(ms, I, k) = Number(ms, I, l) => k = l
<1> DEFINE below(k) == {j \in I : j <= k /\ ms[j].kind = "bind"}
<1>1. IsFiniteSet(I) /\ I \subseteq Int
  <2>1. DOMAIN ms = 1 .. Len(ms) /\ Len(ms) \in Nat
    BY ListsAreTyped
  <2>2. IsFiniteSet(1 .. Len(ms))
    BY <2>1, FS_Interval
  <2> QED
    BY <2>1, <2>2, FS_Subset
<1>2. ASSUME NEW k \in I PROVE IsFiniteSet(below(k)) /\ Cardinality(below(k)) \in Nat
  BY <1>1, FS_Subset, FS_CardinalityType
<1>3. \A k \in I : Number(ms, I, k) = Cardinality(below(k))
  BY DEF Number
<1>4. ASSUME NEW k \in I, NEW l \in I, ms[l].kind = "bind", k < l
      PROVE  Cardinality(below(k)) # Cardinality(below(l))
  <2>1. below(k) \in SUBSET below(l) /\ l \in below(l) /\ l \notin below(k)
    BY <1>1, <1>4
  <2> QED
    BY <1>2, <2>1, FS_Subset
<1> HIDE DEF below
<1>5. \A k, l \in I : k = l \/ k < l \/ l < k
  BY <1>1
<1> QED
  BY <1>2, <1>3, <1>4, <1>5

(* What is backed up under one name is one place, within a plan and, of an   *)
(* app that stayed as it was, between one plan and the next.                 *)
LEMMA OnePlaceOfEach ==
  ASSUME CopiesTypes, NEW ms \in Lists, NEW p, NEW q, IsPlanOf(p, ms), IsPlanOf(q, ms), p = q \/ subject = "app",
         NEW i \in DOMAIN p, NEW j \in DOMAIN q, p[i].to = q[j].to
  PROVE  p[i].from = q[j].from
<1>1. PICK I \in SUBSET DOMAIN ms :
        /\ subject = "app" => \A k \in DOMAIN ms : ms[k].kind = "bind" => k \in I
        /\ \A n \in DOMAIN p : \E k \in I : IsOf(p[n], ms, I, k)
  BY DEF IsPlanOf
<1> DEFINE like(J) == J = I \/ (subject = "app" /\ \A k \in DOMAIN ms : ms[k].kind = "bind" => k \in J)
<1>2. PICK J \in SUBSET DOMAIN ms : like(J) /\ \A n \in DOMAIN q : \E k \in J : IsOf(q[n], ms, J, k)
  <2>1. CASE p = q
    <3>1. \A n \in DOMAIN q : \E k \in I : IsOf(q[n], ms, I, k)
      BY <1>1, <2>1
    <3>2. like(I)
      OBVIOUS
    <3> HIDE DEF like
    <3> QED
      BY <3>1, <3>2, Zenon
  <2>2. CASE subject = "app"
    BY <2>2 DEF IsPlanOf
  <2> QED
    BY <2>1, <2>2
<1>3. PICK k \in I : IsOf(p[i], ms, I, k)
  BY <1>1
<1>4. PICK l \in J : IsOf(q[j], ms, J, l)
  BY <1>2
<1>5. ms[k].kind \in {"bind", "volume"} /\ ms[l].kind \in {"bind", "volume"}
  BY ListsAreTyped
<1>6. CASE ms[k].kind = "volume" \/ ms[l].kind = "volume"
  BY <1>3, <1>4, <1>5, <1>6 DEF IsOf
<1>7. CASE ms[k].kind = "bind" /\ ms[l].kind = "bind"
  <2>1. Number(ms, J, l) = Number(ms, I, l) /\ l \in I
    <3>1. l \in I
      BY <1>1, <1>2, <1>7
    <3>2. CASE J = I
      BY <3>1, <3>2
    <3>3. CASE subject = "app"
      <4>1. {n \in J : n <= l /\ ms[n].kind = "bind"} = {n \in I : n <= l /\ ms[n].kind = "bind"}
        BY <1>1, <1>2, <3>3
      <4> QED
        BY <3>1, <4>1 DEF Number
    <3> QED
      BY <1>2, <3>2, <3>3
  <2>2. Number(ms, I, k) = Number(ms, I, l)
    BY <1>3, <1>4, <1>7, <2>1 DEF IsOf
  <2>3. k = l
    BY <1>7, <2>1, <2>2, NumbersTellApart
  <2> QED
    BY <1>3, <1>4, <2>3 DEF IsOf
<1> QED
  BY <1>5, <1>6, <1>7

(* PlanBackup makes such a plan, of all it is given, a bind as what it is.   *)
Dest(ms, I, k) ==
  IF ms[k].kind = "volume" THEN <<"volume", ms[k].at>>
  ELSE IF isRegularFile(ms[k].at) THEN <<"file", Number(ms, I, k)>> ELSE <<"bind", Number(ms, I, k)>>

LEMMA PlansAreOfTheirList ==
  ASSUME CopiesTypes, NEW ms \in Lists, NEW I \in SUBSET DOMAIN ms,
         subject = "app" => \A k \in DOMAIN ms : ms[k].kind = "bind" => k \in I
  PROVE  /\ PlanBackup(ms, I) \in Seq(Operations) /\ IsPlanOf(PlanBackup(ms, I), ms)
         /\ \A k \in I : \E n \in DOMAIN PlanBackup(ms, I) : PlanBackup(ms, I)[n] = [to |-> Dest(ms, I, k), from |-> ms[k].at]
         /\ \A k \in I : \E n \in DOMAIN PlanBackup(ms, I) : PlanBackup(ms, I)[n].from = ms[k].at
<1> DEFINE number(k) == Cardinality({j \in I : j <= k /\ ms[j].kind = "bind"})
           to(k) == IF ms[k].kind = "volume" THEN <<"volume", ms[k].at>>
                    ELSE IF isRegularFile(ms[k].at) THEN <<"file", number(k)>> ELSE <<"bind", number(k)>>
           all == [k \in DOMAIN ms |-> [to |-> to(k), from |-> ms[k].at]]
<1>0. DOMAIN ms = 1 .. Len(ms) /\ Len(ms) \in Nat
  BY ListsAreTyped
<1>1. ASSUME NEW k \in DOMAIN ms PROVE number(k) \in Nat
  <2>1. IsFiniteSet(1 .. Len(ms))
    BY <1>0, FS_Interval
  <2> QED
    BY <1>0, <2>1, FS_Subset, FS_CardinalityType
<1>2. ASSUME NEW k \in DOMAIN ms PROVE to(k) \in Dests
  <2>1. ms[k].at \in Places
    BY ListsAreTyped
  <2> HIDE DEF number
  <2> QED
    BY <1>1, <2>1 DEF Dests
<1>3. \A k \in I : all[k] \in Operations
  <2> HIDE DEF to
  <2> QED
    BY <1>0, <1>2, ListsAreTyped DEF Operations
<1>4. PlanBackup(ms, I) = Pick(all, I)
  BY DEF PlanBackup
<1>5. ASSUME NEW k \in I
      PROVE  IsOf(all[k], ms, I, k) /\ all[k].from = ms[k].at /\ all[k] = [to |-> Dest(ms, I, k), from |-> ms[k].at]
  BY DEF IsOf, Number, Dest
<1> HIDE DEF all
<1>8. I \in SUBSET (1 .. Len(ms))
  BY <1>0
<1>6. /\ Pick(all, I) \in Seq(Operations)
      /\ \A n \in DOMAIN Pick(all, I) : \E k \in I : Pick(all, I)[n] = all[k]
      /\ \A k \in I : \E n \in DOMAIN Pick(all, I) : Pick(all, I)[n] = all[k]
  BY <1>0, <1>3, <1>8, PickFinds, PickTypes
<1>7. IsPlanOf(Pick(all, I), ms)
  BY <1>5, <1>6 DEF IsPlanOf
<1>9. ASSUME NEW k \in I
      PROVE  \E n \in DOMAIN Pick(all, I) :
               Pick(all, I)[n] = [to |-> Dest(ms, I, k), from |-> ms[k].at] /\ Pick(all, I)[n].from = ms[k].at
  <2>1. PICK n \in DOMAIN Pick(all, I) : Pick(all, I)[n] = all[k]
    BY <1>6
  <2>2. all[k] = [to |-> Dest(ms, I, k), from |-> ms[k].at]
    BY <1>5
  <2> QED
    BY <2>1, <2>2
<1>10. \A k \in I : \E n \in DOMAIN Pick(all, I) : Pick(all, I)[n] = [to |-> Dest(ms, I, k), from |-> ms[k].at]
  BY <1>9
<1>11. \A k \in I : \E n \in DOMAIN Pick(all, I) : Pick(all, I)[n].from = ms[k].at
  BY <1>9
<1> QED
  BY <1>4, <1>6, <1>7, <1>10, <1>11

(* What is put back comes from the manifest and goes to a place that is      *)
(* declared: of the box by its path, all of it; of an app by its name.       *)
FromManifest(pair, m) == \E k \in DOMAIN m.plan : m.plan[k].from = pair.at /\ m.plan[k].to = pair.from

LEMMA PlansAreSequences ==
  ASSUME NEW p \in Seq(Operations)
  PROVE  /\ DOMAIN p = 1 .. Len(p) /\ Len(p) \in Nat
         /\ \A i \in DOMAIN p : p[i] \in Operations /\ p[i].to \in Dests /\ p[i].from \in Places
<1>1. DOMAIN p = 1 .. Len(p) /\ Len(p) \in Nat /\ \A i \in DOMAIN p : p[i] \in Operations
  OBVIOUS
<1> QED
  BY <1>1 DEF Operations

LEMMA PathsArePaired ==
  ASSUME NEW m \in Manifests, NEW local \in Seq(Operations)
  PROVE  /\ PairsByPath(m, local) \in Seq(Pairs)
         /\ \A n \in DOMAIN PairsByPath(m, local) : FromManifest(PairsByPath(m, local)[n], m)
         /\ \A i \in DOMAIN local : \A j \in DOMAIN m.plan : m.plan[j].from = local[i].from =>
              \E n \in DOMAIN PairsByPath(m, local) : PairsByPath(m, local)[n].at = local[i].from
<1> DEFINE of(p) == {j \in DOMAIN m.plan : m.plan[j].from = p}
           pair(i) == [from |-> m.plan[CHOOSE j \in of(local[i].from) : TRUE].to, at |-> local[i].from]
           here == {i \in DOMAIN local : of(local[i].from) # {}}
           all == [i \in DOMAIN local |-> pair(i)]
<1>1. m.plan \in Seq(Operations)
  BY DEF Manifests
<1>2. DOMAIN local = 1 .. Len(local) /\ Len(local) \in Nat /\ here \in SUBSET (1 .. Len(local))
  BY PlansAreSequences
<1>3. ASSUME NEW i \in here
      PROVE  all[i] = pair(i) /\ all[i].at = local[i].from /\ FromManifest(all[i], m) /\ all[i] \in Pairs
  <2>1. PICK j \in of(local[i].from) : j = CHOOSE k \in of(local[i].from) : TRUE
    OBVIOUS
  <2>2. all[i] = [from |-> m.plan[j].to, at |-> local[i].from]
    BY <2>1
  <2>3. m.plan[j].to \in Dests /\ local[i].from \in Places
    BY <1>1, PlansAreSequences
  <2> QED
    BY <2>1, <2>2, <2>3 DEF FromManifest, Pairs
<1>4. PairsByPath(m, local) = Pick(all, here)
  BY DEF PairsByPath
<1>5. \A i \in DOMAIN local : \A j \in DOMAIN m.plan : m.plan[j].from = local[i].from => i \in here
  OBVIOUS
<1> HIDE DEF all, here
<1>6. \A k \in here : all[k] \in Pairs
  BY <1>3
<1>7. /\ Pick(all, here) \in Seq(Pairs)
      /\ \A n \in DOMAIN Pick(all, here) : \E k \in here : Pick(all, here)[n] = all[k]
      /\ \A k \in here : \E n \in DOMAIN Pick(all, here) : Pick(all, here)[n] = all[k]
  BY <1>2, <1>6, PickFinds, PickTypes
<1>8. \A n \in DOMAIN Pick(all, here) : FromManifest(Pick(all, here)[n], m)
  BY <1>3, <1>7
<1>9. ASSUME NEW i \in here PROVE \E n \in DOMAIN Pick(all, here) : Pick(all, here)[n].at = local[i].from
  <2>1. PICK n \in DOMAIN Pick(all, here) : Pick(all, here)[n] = all[i]
    BY <1>7
  <2>2. all[i].at = local[i].from
    BY <1>3
  <2> QED
    BY <2>1, <2>2
<1> QED
  BY <1>4, <1>5, <1>7, <1>8, <1>9

LEMMA DestinationsArePaired ==
  ASSUME NEW m \in Manifests, NEW local \in Seq(Operations)
  PROVE  /\ PairsByDestination(m, local) \in Seq(Pairs)
         /\ \A n \in DOMAIN PairsByDestination(m, local) : \E i \in DOMAIN local, j \in DOMAIN m.plan :
              /\ local[i].to = m.plan[j].to
              /\ PairsByDestination(m, local)[n] = [from |-> m.plan[j].to, at |-> local[i].from]
         /\ \A i \in DOMAIN local, j \in DOMAIN m.plan : local[i].to = m.plan[j].to =>
              \E n \in DOMAIN PairsByDestination(m, local) : PairsByDestination(m, local)[n].from = m.plan[j].to
<1> DEFINE held == {m.plan[i].to : i \in DOMAIN m.plan}
           firsts == {i \in DOMAIN local : local[i].to \in held /\ \A j \in 1..(i - 1) : local[j].to # local[i].to}
           all == [i \in DOMAIN local |-> [from |-> local[i].to, at |-> local[i].from]]
<1>1. DOMAIN local = 1 .. Len(local) /\ Len(local) \in Nat /\ firsts \in SUBSET (1 .. Len(local))
  BY PlansAreSequences
<1>2. ASSUME NEW i \in firsts
      PROVE  /\ all[i] \in Pairs
             /\ \E j \in DOMAIN m.plan : /\ local[i].to = m.plan[j].to
                                          /\ all[i] = [from |-> m.plan[j].to, at |-> local[i].from]
  <2>1. local[i].to \in Dests /\ local[i].from \in Places
    BY PlansAreSequences
  <2>2. PICK j \in DOMAIN m.plan : local[i].to = m.plan[j].to
    OBVIOUS
  <2> QED
    BY <2>1, <2>2 DEF Pairs
<1>3. PairsByDestination(m, local) = Pick(all, firsts)
  BY DEF PairsByDestination
<1>4. firsts \subseteq DOMAIN local
  OBVIOUS
<1>8. ASSUME NEW i \in DOMAIN local, NEW j \in DOMAIN m.plan, local[i].to = m.plan[j].to
      PROVE  \E k \in firsts : all[k].from = m.plan[j].to
  <2> DEFINE same == {k \in DOMAIN local : local[k].to = m.plan[j].to}
  <2>1. same \subseteq Nat /\ same # {} /\ same \subseteq 1 .. Len(local)
    BY <1>1, <1>8
  <2>2. PICK k \in same : \A l \in same : k <= l
    BY <2>1, FirstOne
  <2>3. \A l \in 1 .. (k - 1) : l \in DOMAIN local /\ l \notin same
    <3> HIDE DEF same
    <3> QED
      BY <1>1, <2>1, <2>2
  <2>4. k \in firsts
    BY <2>3
  <2> QED
    BY <2>4
<1> HIDE DEF all, firsts
<1>5. \A k \in firsts : all[k] \in Pairs
  BY <1>2
<1>6. /\ Pick(all, firsts) \in Seq(Pairs)
      /\ \A n \in DOMAIN Pick(all, firsts) : \E k \in firsts : Pick(all, firsts)[n] = all[k]
      /\ \A k \in firsts : \E n \in DOMAIN Pick(all, firsts) : Pick(all, firsts)[n] = all[k]
  BY <1>1, <1>5, PickFinds, PickTypes
<1>7. ASSUME NEW n \in DOMAIN Pick(all, firsts)
      PROVE  \E i \in DOMAIN local, j \in DOMAIN m.plan :
               local[i].to = m.plan[j].to /\ Pick(all, firsts)[n] = [from |-> m.plan[j].to, at |-> local[i].from]
  <2>1. PICK k \in firsts : Pick(all, firsts)[n] = all[k]
    BY <1>6
  <2> QED
    BY <1>2, <1>4, <2>1
<1>9. ASSUME NEW i \in DOMAIN local, NEW j \in DOMAIN m.plan, local[i].to = m.plan[j].to
      PROVE  \E n \in DOMAIN Pick(all, firsts) : Pick(all, firsts)[n].from = m.plan[j].to
  <2>1. PICK k \in firsts : all[k].from = m.plan[j].to
    BY <1>8, <1>9
  <2>2. PICK n \in DOMAIN Pick(all, firsts) : Pick(all, firsts)[n] = all[k]
    BY <1>6
  <2> QED
    BY <2>1, <2>2
<1> QED
  BY <1>3, <1>6, <1>7, <1>9

(* What an app has a place for: a volume docker knows, a file where there is *)
(* a file, a folder where there is none.                                     *)
Placed(op, here, known) == IF op.to[1] = "volume" THEN known ELSE op.to[1] = "file" <=> IsFile(here[op.from])

LEMMA PlacedIsPlanned ==
  ASSUME CopiesTypes, subject = "app", NEW ms \in Lists, NEW p, IsPlanOf(p, ms), NEW known \in BOOLEAN,
         NEW i \in DOMAIN p, Placed(p[i], disk, known)
  PROVE  \E n \in DOMAIN PlanBackup(ms, Located(ms, known)) : PlanBackup(ms, Located(ms, known))[n].to = p[i].to
<1> DEFINE J == Located(ms, known)
<1>1. /\ J \in SUBSET DOMAIN ms /\ \A k \in DOMAIN ms : ms[k].kind = "bind" => k \in J
      /\ known => J = DOMAIN ms
  BY DEF Located
<1>9. PICK I \in SUBSET DOMAIN ms :
        (\A l \in DOMAIN ms : ms[l].kind = "bind" => l \in I) /\ \E k \in I : IsOf(p[i], ms, I, k)
  BY DEF IsPlanOf
<1>10. PICK k \in I : IsOf(p[i], ms, I, k)
  BY <1>9
<1>2. k \in DOMAIN ms /\ (\A l \in DOMAIN ms : ms[l].kind = "bind" => l \in I) /\ IsOf(p[i], ms, I, k)
  BY <1>9, <1>10
<1>3. ms[k].kind \in {"bind", "volume"}
  BY ListsAreTyped
<1>4. k \in J /\ Dest(ms, J, k) = p[i].to
  <2>1. CASE ms[k].kind = "volume"
    <3>1. p[i].to = <<"volume", ms[k].at>>
      BY <1>2, <2>1 DEF IsOf
    <3>2. p[i].to[1] = "volume"
      BY <3>1
    <3>3. J = DOMAIN ms
      BY <1>1, <3>2 DEF Placed
    <3>4. Dest(ms, J, k) = p[i].to
      BY <2>1, <3>1 DEF Dest
    <3> QED
      BY <1>2, <3>3, <3>4
  <2>2. CASE ms[k].kind = "bind"
    <3>1. PICK t \in {"file", "bind"} : p[i].to = <<t, Number(ms, I, k)>> /\ p[i].from = ms[k].at
      BY <1>2, <2>2 DEF IsOf
    <3>2. Number(ms, J, k) = Number(ms, I, k)
      <4>1. {l \in J : l <= k /\ ms[l].kind = "bind"} = {l \in I : l <= k /\ ms[l].kind = "bind"}
        BY <1>1, <1>2
      <4> QED
        BY <4>1 DEF Number
    <3>3. p[i].to[1] = t
      BY <3>1
    <3>4. t = "file" <=> isRegularFile(ms[k].at)
      BY <3>1, <3>3 DEF Placed, isRegularFile
    <3> QED
      BY <1>1, <2>2, <3>1, <3>2, <3>4 DEF Dest
  <2> QED
    BY <1>3, <2>1, <2>2
<1> HIDE DEF J
<1>5. PICK n \in DOMAIN PlanBackup(ms, J) : PlanBackup(ms, J)[n] = [to |-> Dest(ms, J, k), from |-> ms[k].at]
  BY <1>1, <1>4, PlansAreOfTheirList
<1> QED
  BY <1>4, <1>5 DEF J

(* A plan of a restore: pairs of what was asked for; of an app that stayed as *)
(* it was, from the manifest, and all of it that has a place.                *)
LEMMA PlannedIsPaired ==
  ASSUME CopiesTypes, NEW w \in Jobs, NEW was \in Lists, NEW known \in BOOLEAN, job[w].manifest \in Manifests
  PROVE  /\ Planned(w, was, known) \in Seq(Pairs)
         /\ \A n \in DOMAIN Planned(w, was, known) : job[w].only = {} \/ Planned(w, was, known)[n].from \in job[w].only
         /\ subject = "app" /\ was = job[w].manifest.of /\ IsPlanOf(job[w].manifest.plan, was) =>
              \A n \in DOMAIN Planned(w, was, known) : FromManifest(Planned(w, was, known)[n], job[w].manifest)
         /\ job[w].only = {} /\ subject = "app" /\ was = job[w].manifest.of /\ IsPlanOf(job[w].manifest.plan, was) =>
              \A i \in DOMAIN job[w].manifest.plan : Placed(job[w].manifest.plan[i], disk, known) =>
                \E n \in DOMAIN Planned(w, was, known) : Planned(w, was, known)[n].from = job[w].manifest.plan[i].to
<1> DEFINE m == job[w].manifest
           local == PlanBackup(was, Located(was, known))
           pairs == PairsByDestination(m, local)
           asked == {i \in DOMAIN pairs : pairs[i].from \in job[w].only}
<1>1. /\ Located(was, known) \in SUBSET DOMAIN was
      /\ \A k \in DOMAIN was : was[k].kind = "bind" => k \in Located(was, known)
  BY DEF Located
<1>2. local \in Seq(Operations) /\ IsPlanOf(local, was)
  BY <1>1, PlansAreOfTheirList
<1>3. /\ pairs \in Seq(Pairs)
      /\ \A n \in DOMAIN pairs : \E i \in DOMAIN local, j \in DOMAIN m.plan :
           /\ local[i].to = m.plan[j].to
           /\ pairs[n] = [from |-> m.plan[j].to, at |-> local[i].from]
      /\ \A i \in DOMAIN local, j \in DOMAIN m.plan : local[i].to = m.plan[j].to =>
           \E n \in DOMAIN pairs : pairs[n].from = m.plan[j].to
  BY <1>2, DestinationsArePaired
<1>4. Planned(w, was, known) = IF job[w].only = {} THEN pairs ELSE Pick(pairs, asked)
  BY DEF Planned
<1>5. ASSUME subject = "app", was = m.of, IsPlanOf(m.plan, was), NEW n \in DOMAIN pairs
      PROVE  FromManifest(pairs[n], m)
  <2>1. PICK i \in DOMAIN local, j \in DOMAIN m.plan :
          local[i].to = m.plan[j].to /\ pairs[n] = [from |-> m.plan[j].to, at |-> local[i].from]
    BY <1>3
  <2>2. local[i].from = m.plan[j].from
    <3> HIDE DEF local, m, pairs
    <3> QED
      BY <1>2, <1>5, <2>1, OnePlaceOfEach
  <2> QED
    BY <2>1, <2>2 DEF FromManifest
<1>6. ASSUME subject = "app", was = m.of, IsPlanOf(m.plan, was), NEW i \in DOMAIN m.plan, Placed(m.plan[i], disk, known)
      PROVE  \E n \in DOMAIN pairs : pairs[n].from = m.plan[i].to
  <2> HIDE DEF m, pairs
  <2>1. \E n \in DOMAIN local : local[n].to = m.plan[i].to
    BY <1>6, PlacedIsPlanned
  <2> QED
    BY <1>3, <2>1
<1>7. DOMAIN pairs = 1 .. Len(pairs) /\ Len(pairs) \in Nat /\ \A i \in DOMAIN pairs : pairs[i] \in Pairs
  <2> HIDE DEF pairs
  <2> QED
    BY <1>3
<1>8. CASE job[w].only = {}
  <2>1. Planned(w, was, known) = pairs
    BY <1>4, <1>8
  <2> HIDE DEF pairs, m
  <2>2. subject = "app" /\ was = m.of /\ IsPlanOf(m.plan, was) => \A n \in DOMAIN pairs : FromManifest(pairs[n], m)
    BY <1>5
  <2>3. subject = "app" /\ was = m.of /\ IsPlanOf(m.plan, was) =>
          \A i \in DOMAIN m.plan : Placed(m.plan[i], disk, known) => \E n \in DOMAIN pairs : pairs[n].from = m.plan[i].to
    BY <1>6
  <2> QED
    BY <1>3, <1>8, <2>1, <2>2, <2>3 DEF m
<1>9. CASE job[w].only # {}
  <2>1. asked \in SUBSET (1 .. Len(pairs)) /\ (\A k \in asked : pairs[k] \in Pairs) /\ asked \subseteq DOMAIN pairs
        /\ \A k \in asked : pairs[k].from \in job[w].only
    BY <1>7
  <2> HIDE DEF pairs, asked, m
  <2>2. /\ Pick(pairs, asked) \in Seq(Pairs)
        /\ \A n \in DOMAIN Pick(pairs, asked) : \E k \in asked : Pick(pairs, asked)[n] = pairs[k]
    BY <1>7, <2>1, PickFinds, PickTypes
  <2>3. \A n \in DOMAIN Pick(pairs, asked) : Pick(pairs, asked)[n].from \in job[w].only
    BY <2>1, <2>2
  <2>4. subject = "app" /\ was = m.of /\ IsPlanOf(m.plan, was) =>
          \A n \in DOMAIN Pick(pairs, asked) : FromManifest(Pick(pairs, asked)[n], m)
    BY <1>5, <2>1, <2>2
  <2> QED
    BY <1>4, <1>9, <2>2, <2>3, <2>4 DEF m
<1> QED
  BY <1>8, <1>9
-----------------------------------------------------------------------------
(* A job: what it is at, what it holds.                                      *)
JobInv(w) ==
  /\ job[w].at = "idle" <=> job[w].kind = "none"
  /\ job[w].kind # "none" => job[w].stamp \in Stamps
  /\ job[w].kind = "backup" =>
       /\ job[w].at \in {"claim", "stop", "copy", "release"} /\ job[w].was \in Lists
       /\ job[w].plan \in Seq(Operations) /\ IsPlanOf(job[w].plan, job[w].was)
       /\ subject = "box" => job[w].was = BoxMounts
  /\ job[w].kind = "restore" =>
       /\ job[w].at \in {"claim", "install", "plan", "stop", "put", "release"} /\ job[w].still
       /\ job[w].plan \in Seq(Pairs) /\ job[w].next > 0 /\ job[w].manifest \in Manifests
       /\ IsPlanOf(job[w].manifest.plan, job[w].manifest.of)
  /\ subject = "app" /\ job[w].still /\ job[w].at \notin {"idle", "claim"} => claim = w
  /\ subject = "box" => job[w].at \notin {"claim", "install", "plan"}
  /\ job[w].at = "plan" => job[w].was \in Lists
  /\ job[w].at = "claim" => job[w].still
  /\ job[w].at = "stop" => job[w].still /\ Len(job[w].stopped) < Len(Units)
  /\ job[w].at \in {"idle", "claim", "install", "plan"} \/ ~job[w].still => job[w].stopped = <<>>
  /\ job[w].still /\ job[w].at \in {"copy", "put"} => Len(job[w].stopped) = Len(Units)
  /\ Len(job[w].stopped) <= Len(Units) /\ \A i \in DOMAIN job[w].stopped : job[w].stopped[i] = Units[i]

AloneInv(w) == job[w].at # "idle" /\ job[w].alone => \A v \in Jobs \ {w} : job[v].at = "idle"

(* A manifest is the plan of what it says it is of.                          *)
Names(run) ==
  run.manifest # Absent =>
    /\ IsPlanOf(run.manifest.plan, run.manifest.of)
    /\ subject = "box" => run.manifest.of = BoxMounts
NamesInv == \A s \in Stamps : Names(stamped[s]) /\ Names(repository[s])

BoxInv == subject = "box" => mounts = BoxMounts

WorkInv ==
  /\ CopiesTypes /\ EngineInv /\ BoxInv /\ NamesInv
  /\ \A w \in Jobs : JobInv(w) /\ AloneInv(w)

-----------------------------------------------------------------------------
(* A step of one job leaves the others as they are, or no longer alone.      *)
Like(v) ==
  /\ job'[v].at = job[v].at /\ job'[v].kind = job[v].kind /\ job'[v].stamp = job[v].stamp
  /\ job'[v].still = job[v].still /\ job'[v].plan = job[v].plan /\ job'[v].next = job[v].next
  /\ job'[v].was = job[v].was /\ job'[v].manifest = job[v].manifest /\ job'[v].only = job[v].only
  /\ job'[v].stopped = job[v].stopped /\ job'[v].ok = job[v].ok
  /\ job'[v].known = job[v].known /\ job'[v].before = job[v].before
  /\ job'[v].alone => job[v].alone
Others(w) == \A v \in Jobs \ {w} : Like(v)

LEMMA JobKeeps ==
  ASSUME NEW v \in Jobs, JobInv(v), Like(v), subject' = subject, claim = v => claim' = v
  PROVE  JobInv(v)'
BY DEF JobInv, Like, Units, IsPlanOf

LEMMA JobsKeep ==
  ASSUME WorkInv, NEW w \in Jobs, Others(w), subject' = subject,
         job[w].at # "idle", job'[w].at = "idle" \/ (job'[w].alone => job[w].alone),
         JobInv(w)', \A v \in Jobs \ {w} : claim = v => claim' = v
  PROVE  \A v \in Jobs : JobInv(v)' /\ AloneInv(v)'
<1>1. ASSUME NEW v \in Jobs \ {w} PROVE JobInv(v)' /\ Like(v) /\ AloneInv(v)
  BY JobKeeps DEF WorkInv, Others
<1>2. AloneInv(w)
  BY DEF WorkInv
<1>3. AloneInv(w)'
  BY <1>1, <1>2 DEF AloneInv, Like
<1>4. ASSUME NEW v \in Jobs \ {w} PROVE AloneInv(v)'
  BY <1>1 DEF AloneInv, Like
<1> QED
  BY <1>1, <1>3, <1>4

LEMMA StartsAlone ==
  ASSUME WorkInv, NEW w \in Jobs, NEW r \in Records, Starts(w, r), job[w].at = "idle", r.at # "idle"
  PROVE  /\ job' \in [Jobs -> Records] /\ Others(w)
         /\ job'[w] = [r EXCEPT !.alone = \A v \in Jobs \ {w} : job[v].at = "idle"]
         /\ \A v \in Jobs : AloneInv(v)'
<1> DEFINE others == {v \in Jobs \ {w} : job[v].at # "idle"}
<1>0. job \in [Jobs -> Records] /\ \A v \in Jobs : AloneInv(v)
  BY DEF WorkInv, CopiesTypes
<1>1. job' = [v \in Jobs |-> IF v = w THEN [r EXCEPT !.alone = others = {}]
                             ELSE IF v \in others THEN [job[v] EXCEPT !.alone = FALSE] ELSE job[v]]
  BY DEF Starts
<1>2. (others = {}) <=> \A v \in Jobs \ {w} : job[v].at = "idle"
  OBVIOUS
<1>3. job'[w] = [r EXCEPT !.alone = \A v \in Jobs \ {w} : job[v].at = "idle"]
  BY <1>1, <1>2
<1>4. ASSUME NEW v \in Jobs PROVE job'[v] \in Records
  <2>1. CASE v = w
    BY <1>1, <2>1 DEF Records
  <2>2. CASE v # w /\ v \in others
    BY <1>0, <1>1, <2>2 DEF Records
  <2>3. CASE v # w /\ v \notin others
    BY <1>0, <1>1, <2>3
  <2> QED
    BY <2>1, <2>2, <2>3
<1>5. job' \in [Jobs -> Records]
  BY <1>1, <1>4
<1>6. ASSUME NEW v \in Jobs \ {w} PROVE Like(v) /\ (job'[v].at # "idle" => ~job'[v].alone)
  <2>1. CASE v \in others
    BY <1>0, <1>1, <2>1 DEF Records, Like
  <2>2. CASE v \notin others
    BY <1>0, <1>1, <2>2 DEF Records, Like
  <2> QED
    BY <2>1, <2>2
<1>7. AloneInv(w)'
  BY <1>3, <1>6 DEF AloneInv, Like, Records
<1>8. \A v \in Jobs \ {w} : AloneInv(v)'
  BY <1>6 DEF AloneInv
<1> QED
  BY <1>3, <1>5, <1>6, <1>7, <1>8 DEF Others

LEMMA UnitsAreTyped ==
  ASSUME CopiesTypes
  PROVE  /\ Units \in Seq(UnitNames) /\ DOMAIN Units = 1 .. Len(Units) /\ Len(Units) \in Nat \ {0}
         /\ \A i \in DOMAIN Units : Units[i] \in ToSet(Units)
         /\ ToSet(Units) \subseteq UnitNames
<1>1. CASE subject = "app"
  BY <1>1 DEF Units, UnitNames, ToSet
<1>2. CASE subject = "box"
  <2>1. BoxUnits \in Seq(ToSet(BoxUnits)) /\ BoxUnits # <<>>
    BY CopiesAssumption
  <2>2. Len(BoxUnits) \in Nat \ {0} /\ DOMAIN BoxUnits = 1 .. Len(BoxUnits)
    BY <2>1
  <2>3. BoxUnits \in Seq(UnitNames)
    BY <2>1 DEF UnitNames
  <2> QED
    BY <1>2, <2>2, <2>3 DEF Units, UnitNames, ToSet
<1> QED
  BY <1>1, <1>2 DEF CopiesTypes

LEMMA StartsAreTyped ==
  /\ NoJob \in Records /\ Nothing \in Runs /\ \A p \in Places : Copy(p) \in Contents
  /\ Nothing.manifest = Absent /\ DOMAIN Nothing.has = {}
<1>1. <<>> \in Seq(Operations) /\ <<>> \in Seq(Pairs) /\ <<>> \in Seq(UnitNames)
  OBVIOUS
<1>2. NoJob \in Records
  BY <1>1 DEF NoJob, Records, Steps
<1>3. <<>> \in [{} -> Contents]
  OBVIOUS
<1>4. <<>> \in Holdings
  BY <1>3 DEF Holdings
<1>5. Nothing \in Runs
  BY <1>4 DEF Nothing, Runs
<1> QED
  BY <1>2, <1>5 DEF Copy, Contents, Nothing

LEMMA WithIsTyped ==
  ASSUME NEW has \in Holdings, NEW d \in Dests, NEW x \in Contents
  PROVE  /\ With(has, d, x) \in Holdings /\ DOMAIN With(has, d, x) = DOMAIN has \cup {d}
         /\ \A e \in DOMAIN has : e # d => With(has, d, x)[e] = has[e]
         /\ With(has, d, x)[d] = x
<1>1. PICK D \in SUBSET Dests : has \in [D -> Contents]
  BY DEF Holdings
<1>2. DOMAIN has = D /\ D \cup {d} \in SUBSET Dests
  BY <1>1
<1>3. With(has, d, x) \in [D \cup {d} -> Contents]
  BY <1>1, <1>2 DEF With
<1> QED
  BY <1>2, <1>3 DEF Holdings, With

LEMMA RunsAreTyped ==
  ASSUME NEW run \in Runs
  PROVE  /\ run.has \in Holdings /\ DOMAIN run.has \subseteq Dests /\ \A d \in DOMAIN run.has : run.has[d] \in Contents
         /\ run.compose \in Lists \cup {Absent} /\ run.manifest \in Manifests \cup {Absent}
<1>1. run.has \in Holdings
  BY DEF Runs
<1>2. PICK D \in SUBSET Dests : run.has \in [D -> Contents]
  BY <1>1 DEF Holdings
<1> QED
  BY <1>1, <1>2 DEF Runs

LEMMA StoresKeep ==
  ASSUME EngineInv, NamesInv, UNCHANGED <<subject, stamped, repository, key, made, opening>>
  PROVE  EngineInv' /\ NamesInv'
BY DEF EngineInv, NamesInv, Names, IsPlanOf

LEMMA JobStepWorks ==
  ASSUME WorkInv, NEW w \in Jobs, UNCHANGED <<subject, mounts, stamped, repository, key, made, opening>>,
         CopiesTypes', Others(w), job[w].at # "idle", job'[w].at = "idle" \/ (job'[w].alone => job[w].alone),
         JobInv(w)', \A v \in Jobs \ {w} : claim = v => claim' = v
  PROVE  WorkInv'
<1>1. EngineInv' /\ NamesInv'
  BY StoresKeep DEF WorkInv
<1>2. \A v \in Jobs : JobInv(v)' /\ AloneInv(v)'
  BY JobsKeep
<1>3. BoxInv'
  BY DEF WorkInv, BoxInv
<1> QED
  BY <1>1, <1>2, <1>3 DEF WorkInv

LEMMA JobIsTyped ==
  ASSUME WorkInv, NEW w \in Jobs
  PROVE  /\ job \in [Jobs -> Records] /\ job[w] \in Records /\ JobInv(w) /\ AloneInv(w)
         /\ job[w].stopped \in Seq(UnitNames) /\ Len(job[w].stopped) \in Nat /\ job[w].next \in Nat
         /\ NoJob \in Records
  BY StartsAreTyped DEF WorkInv, CopiesTypes, Records

Bearing(w) ==
  /\ job'[w].kind = job[w].kind /\ job'[w].stamp = job[w].stamp /\ job'[w].still = job[w].still
  /\ job'[w].plan = job[w].plan /\ job'[w].was = job[w].was /\ job'[w].manifest = job[w].manifest

(* A job that goes on with what it bears.                                    *)
LEMMA JobMoves ==
  ASSUME NEW w \in Jobs, JobInv(w), Bearing(w), subject' = subject, job[w].at # "idle",
         NEW to \in Steps \ {"idle", "claim", "plan"}, job'[w].at = to,
         job[w].kind = "backup" => to \in {"stop", "copy", "release"},
         job[w].kind = "restore" => to \in {"install", "stop", "put", "release"} /\ job'[w].next > 0,
         subject = "app" /\ job[w].still => claim' = w,
         subject = "box" => to # "install",
         NEW stopped, job'[w].stopped = stopped,
         to = "stop" => job[w].still /\ Len(stopped) < Len(Units),
         to = "install" \/ ~job[w].still => stopped = <<>>,
         job[w].still /\ to \in {"copy", "put"} => Len(stopped) = Len(Units),
         Len(stopped) <= Len(Units), \A i \in DOMAIN stopped : stopped[i] = Units[i]
  PROVE  JobInv(w)'
<1>1. Units' = Units
  BY DEF Units
<1>2. IsPlanOf(job[w].plan, job[w].was)' <=> IsPlanOf(job[w].plan, job[w].was)
  BY DEF IsPlanOf, Bearing
<1>3. IsPlanOf(job[w].manifest.plan, job[w].manifest.of)' <=> IsPlanOf(job[w].manifest.plan, job[w].manifest.of)
  BY DEF IsPlanOf, Bearing
<1> QED
  BY <1>1, <1>2, <1>3 DEF JobInv, Bearing

LEMMA EndsIs ==
  ASSUME WorkInv, NEW w \in Jobs, NEW good \in BOOLEAN, Ends(w, good)
  PROVE  /\ job' \in [Jobs -> Records] /\ Others(w)
         /\ job'[w] = [job[w] EXCEPT !.at = "release", !.ok = good]
         /\ job'[w].at = "release" /\ job'[w].ok = good /\ job'[w].kind = job[w].kind /\ job'[w].stamp = job[w].stamp
         /\ job'[w].still = job[w].still /\ job'[w].plan = job[w].plan /\ job'[w].next = job[w].next
         /\ job'[w].was = job[w].was /\ job'[w].manifest = job[w].manifest /\ job'[w].only = job[w].only
         /\ job'[w].stopped = job[w].stopped /\ job'[w].alone = job[w].alone
         /\ job'[w].known = job[w].known /\ job'[w].before = job[w].before
<1>1. job \in [Jobs -> Records] /\ job[w] \in Records
  BY JobIsTyped
<1>2. /\ job' \in [Jobs -> Records] /\ job'[w] = [job[w] EXCEPT !.at = "release", !.ok = good]
      /\ \A v \in Jobs \ {w} : job'[v] = job[v]
  BY <1>1 DEF Ends, Records, Steps
<1>3. Others(w)
  BY <1>2 DEF Others, Like
<1> QED
  BY <1>1, <1>2, <1>3 DEF Records

LEMMA EndsWorks ==
  ASSUME WorkInv, NEW w \in Jobs, NEW good \in BOOLEAN, Ends(w, good), subject' = subject, claim' = claim,
         job[w].at \in {"stop", "copy", "install", "put"}
  PROVE  JobInv(w)'
<1>1. JobInv(w) /\ Bearing(w) /\ job'[w].at = "release" /\ job'[w].stopped = job[w].stopped
  BY JobIsTyped, EndsIs DEF Bearing
<1>2. /\ Len(job[w].stopped) <= Len(Units) /\ \A i \in DOMAIN job[w].stopped : job[w].stopped[i] = Units[i]
      /\ ~job[w].still => job[w].stopped = <<>>
      /\ subject = "app" /\ job[w].still => claim = w
      /\ job[w].kind = "restore" => job[w].next > 0
  BY <1>1 DEF JobInv
<1>3. job'[w].next = job[w].next
  BY EndsIs
<1> QED
  BY <1>1, <1>2, <1>3, JobMoves DEF Steps

LEMMA BeginWaitingWorks ==
  ASSUME WorkInv, NEW w \in Jobs, beginWaiting(w)
  PROVE  WorkInv'
<1>1. job \in [Jobs -> Records] /\ job[w] \in Records /\ JobInv(w) /\ NoJob \in Records /\ Len(Units) \in Nat \ {0}
  BY JobIsTyped, UnitsAreTyped DEF WorkInv
<1>2. CASE claim = Nobody
  <2>1. job' = [job EXCEPT ![w].at = "stop"] /\ claim' = w
    BY <1>2 DEF beginWaiting, Goes
  <2>2. job' \in [Jobs -> Records] /\ Others(w)
    BY <1>1, <2>1 DEF Records, Steps, Others, Like
  <2>3. JobInv(w)' /\ job'[w].alone = job[w].alone /\ job[w].at = "claim" /\ subject' = subject
    <3>1. /\ Bearing(w) /\ job'[w].at = "stop" /\ job'[w].stopped = job[w].stopped /\ subject' = subject
          /\ job'[w].alone = job[w].alone /\ job[w].at = "claim" /\ job[w].kind = "backup"
      BY <1>1, <2>1 DEF Records, Bearing, beginWaiting
    <3>2. job[w].stopped = <<>> /\ job[w].still
      BY <1>1, <3>1 DEF JobInv
    <3>3. Len(<<>>) = 0 /\ DOMAIN <<>> = {}
      OBVIOUS
    <3> QED
      BY <1>1, <2>1, <3>1, <3>2, <3>3, JobMoves DEF Steps
  <2>4. CopiesTypes'
    BY <2>1, <2>2 DEF beginWaiting, WorkInv, CopiesTypes, Units, remote, engine, Hit
  <2> QED
    <3>1. \A v \in Jobs \ {w} : claim = v => claim' = v
      BY <1>2, CopiesAssumption
    <3> QED
      BY <2>2, <2>3, <2>4, <3>1, JobStepWorks DEF beginWaiting, remote, engine
<1>3. CASE claim # Nobody
  <2>1. job' = [job EXCEPT ![w] = NoJob] /\ claim' = claim /\ hits' \in Nat
    BY <1>3 DEF beginWaiting, Hit, WorkInv, CopiesTypes
  <2>2. job' \in [Jobs -> Records] /\ Others(w)
    BY <1>1, <2>1 DEF Others, Like
  <2>3. JobInv(w)'
    BY <1>1, <2>1 DEF JobInv, NoJob, Units, beginWaiting
  <2>4. CopiesTypes'
    BY <2>1, <2>2 DEF beginWaiting, WorkInv, CopiesTypes, Units, remote, engine
  <2> QED
    BY <1>1, <2>1, <2>2, <2>3, <2>4, JobStepWorks DEF beginWaiting, remote, engine, NoJob
<1> QED
  BY <1>2, <1>3

LEMMA StopWorks ==
  ASSUME WorkInv, NEW w \in Jobs, Stop(w)
  PROVE  WorkInv'
<1> DEFINE n == Len(job[w].stopped) + 1
           next == IF n = Len(Units) THEN (IF job[w].kind = "backup" THEN "copy" ELSE "put") ELSE "stop"
           there == IF n = Len(Units) /\ job[w].kind = "restore" THEN disk ELSE job[w].before
<1>1. /\ job \in [Jobs -> Records] /\ job[w] \in Records /\ JobInv(w) /\ job[w].stopped \in Seq(UnitNames)
      /\ there \in [Places -> Contents \cup {Absent}] \cup {Absent}
  BY JobIsTyped DEF Records, WorkInv, CopiesTypes
<1>2. job' = [job EXCEPT ![w].stopped = Append(@, Units[n]), ![w].at = next, ![w].before = there] /\ job[w].at = "stop"
  BY DEF Stop
<1>3. n \in DOMAIN Units /\ Units[n] \in UnitNames /\ n \in Nat /\ Len(Units) \in Nat
  <2>1. Units \in Seq(UnitNames) /\ DOMAIN Units = 1 .. Len(Units) /\ Len(Units) \in Nat
    BY UnitsAreTyped DEF WorkInv
  <2>2. Len(job[w].stopped) < Len(Units) /\ Len(job[w].stopped) \in Nat
    BY <1>1, <1>2 DEF JobInv
  <2> HIDE DEF n
  <2>3. n \in 1 .. Len(Units)
    BY <2>1, <2>2 DEF n
  <2> QED
    BY <2>1, <2>3
<1> DEFINE more == Append(job[w].stopped, Units[n])
<1>4. /\ more \in Seq(UnitNames) /\ Len(more) = n /\ DOMAIN more = 1 .. n /\ more[n] = Units[n]
      /\ \A i \in 1 .. n : i # n => i \in DOMAIN job[w].stopped /\ more[i] = job[w].stopped[i]
  BY <1>1, <1>3
<1>5. /\ job' \in [Jobs -> Records] /\ Others(w)
      /\ job'[w] = [job[w] EXCEPT !.stopped = more, !.at = next, !.before = there]
  <2> HIDE DEF more, there
  <2> QED
    BY <1>1, <1>2, <1>4 DEF Records, Steps, Others, Like, more
<1>6. \A i \in 1 .. n : more[i] = Units[i]
  <2> HIDE DEF more
  <2> QED
    BY <1>1, <1>4 DEF JobInv
<1>7. JobInv(w)'
  <2> HIDE DEF more, n, there
  <2>1. n <= Len(Units)
    BY <1>3, UnitsAreTyped DEF WorkInv
  <2>2. n = Len(Units) \/ n < Len(Units)
    BY <1>3, <2>1
  <2>3. subject' = subject /\ claim' = claim
    BY DEF Stop
  <2>4. /\ job'[w].at = next /\ job'[w].stopped = more /\ job'[w].kind = job[w].kind /\ job'[w].stamp = job[w].stamp
        /\ job'[w].still = job[w].still /\ job'[w].plan = job[w].plan /\ job'[w].was = job[w].was
        /\ job'[w].manifest = job[w].manifest /\ job'[w].next = job[w].next
    BY <1>1, <1>5 DEF Records
  <2>5. /\ job[w].still /\ job[w].kind \in {"backup", "restore"}
        /\ subject = "app" => claim = w
        /\ job[w].kind = "restore" => job[w].next > 0
    BY <1>1, <1>2 DEF JobInv, Records
  <2>6. Bearing(w) /\ next \in {"stop", "copy", "put"} /\ (next = "copy" <=> n = Len(Units) /\ job[w].kind = "backup")
        /\ (next = "put" <=> n = Len(Units) /\ job[w].kind # "backup")
    BY <2>4 DEF Bearing
  <2>7. \A i \in DOMAIN more : more[i] = Units[i]
    BY <1>4, <1>6
  <2> HIDE DEF next
  <2>8. /\ next = "stop" => Len(more) < Len(Units)
        /\ next \in {"copy", "put"} => Len(more) = Len(Units)
        /\ Len(more) <= Len(Units)
    BY <1>4, <2>1, <2>2, <2>6 DEF next
  <2>9. /\ JobInv(w) /\ job[w].at # "idle" /\ job'[w].at = next /\ job'[w].stopped = more
        /\ job[w].kind = "restore" => job'[w].next > 0
        /\ next \in Steps \ {"idle", "claim", "plan"}
        /\ job[w].kind = "backup" => next \in {"stop", "copy", "release"}
        /\ job[w].kind = "restore" => next \in {"install", "stop", "put", "release"}
        /\ subject = "app" => claim' = w
    BY <1>1, <1>2, <2>3, <2>4, <2>5, <2>6 DEF Steps
  <2> HIDE DEF more
  <2> QED
    BY <2>3, <2>5, <2>6, <2>7, <2>8, <2>9, JobMoves
<1>8. CopiesTypes'
  BY <1>5 DEF Stop, WorkInv, CopiesTypes, Units, remote, engine
<1> HIDE DEF more, n, there
<1> QED
  BY <1>1, <1>2, <1>5, <1>7, <1>8, JobStepWorks DEF Stop, remote, engine, Records

LEMMA StopFailsWorks ==
  ASSUME WorkInv, NEW w \in Jobs, StopFails(w)
  PROVE  WorkInv'
<1>1. Ends(w, FALSE) /\ job[w].at = "stop"
  BY DEF StopFails
<1>2. JobInv(w)'
  BY <1>1, EndsWorks DEF StopFails
<1>3. CopiesTypes'
  <2>1. job' \in [Jobs -> Records]
    BY <1>1, EndsIs
  <2>2. hits' \in Nat
    BY DEF StopFails, Hit, WorkInv, CopiesTypes
  <2> QED
    BY <2>1, <2>2 DEF StopFails, WorkInv, CopiesTypes, Units, remote, engine
<1> QED
  BY <1>1, <1>2, <1>3, EndsIs, JobStepWorks DEF StopFails, remote, engine

LEMMA ReleaseWorks ==
  ASSUME WorkInv, NEW w \in Jobs, Release(w)
  PROVE  WorkInv'
<1> DEFINE n == Len(job[w].stopped)
<1>1. /\ job \in [Jobs -> Records] /\ job[w] \in Records /\ JobInv(w) /\ job[w].stopped \in Seq(UnitNames)
      /\ NoJob \in Records /\ n \in Nat /\ job[w].at = "release"
  BY JobIsTyped DEF Release
<1>2. CASE n > 0
  <2> DEFINE less == SubSeq(job[w].stopped, 1, n - 1)
  <2>1. /\ job' = [job EXCEPT ![w].stopped = less] /\ claim' = claim
        /\ up' \in {up, up \cup {job[w].stopped[n]}}
    BY <1>2 DEF Release
  <2>2. /\ less \in Seq(UnitNames) /\ Len(less) = n - 1 /\ DOMAIN less = 1 .. n - 1 /\ n \in DOMAIN job[w].stopped
        /\ \A i \in 1 .. n - 1 : i \in DOMAIN job[w].stopped /\ less[i] = job[w].stopped[i]
    BY <1>1, <1>2
  <2>3. job[w].stopped[n] = Units[n] /\ n \in DOMAIN Units
    <3>1. Len(Units) \in Nat /\ DOMAIN Units = 1 .. Len(Units)
      BY UnitsAreTyped DEF WorkInv
    <3>2. n <= Len(Units) /\ job[w].stopped[n] = Units[n]
      BY <1>1, <2>2 DEF JobInv
    <3> HIDE DEF n
    <3> QED
      BY <1>1, <1>2, <3>1, <3>2
  <2>4. /\ job' \in [Jobs -> Records] /\ Others(w)
        /\ job'[w] = [job[w] EXCEPT !.stopped = less]
    <3> HIDE DEF less
    <3> QED
      BY <1>1, <2>1, <2>2 DEF Records, Others, Like
  <2>5. JobInv(w)'
    <3> HIDE DEF less, n
    <3>1. subject' = subject
      BY DEF Release
    <3>2. /\ job'[w].at = "release" /\ job'[w].stopped = less /\ job'[w].kind = job[w].kind /\ job'[w].stamp = job[w].stamp
          /\ job'[w].still = job[w].still /\ job'[w].plan = job[w].plan /\ job'[w].was = job[w].was
          /\ job'[w].manifest = job[w].manifest /\ job'[w].next = job[w].next
      BY <1>1, <2>4 DEF Records
    <3>3. job[w].still
      <4>1. job[w].stopped # <<>>
        BY <1>1, <1>2 DEF n
      <4> QED
        BY <1>1, <4>1 DEF JobInv, Records
    <3>4. n <= Len(Units) /\ n - 1 <= Len(Units)
      <4>1. Len(Units) \in Nat
        BY UnitsAreTyped DEF WorkInv
      <4>2. n <= Len(Units)
        BY <1>1 DEF JobInv, n
      <4> QED
        BY <1>1, <4>1, <4>2
    <3>5. \A i \in DOMAIN less : less[i] = Units[i]
      BY <1>1, <2>2 DEF JobInv
    <3>6. Bearing(w) /\ claim' = claim
      BY <2>1, <3>2 DEF Bearing
    <3>7. /\ subject = "app" => claim = w
          /\ job[w].kind \in {"backup", "restore"}
          /\ job[w].kind = "restore" => job[w].next > 0
      BY <1>1, <3>3 DEF JobInv, Records
    <3>8. Len(less) <= Len(Units) /\ (job[w].kind = "restore" => job'[w].next > 0)
      BY <2>2, <3>2, <3>4, <3>7
    <3> QED
      BY <1>1, <3>1, <3>2, <3>3, <3>5, <3>6, <3>7, <3>8, JobMoves DEF Steps
  <2>6. CopiesTypes'
    <3>1. up' \subseteq ToSet(Units)
      BY <2>1, <2>3, UnitsAreTyped DEF WorkInv, CopiesTypes
    <3> QED
      BY <2>1, <2>4, <3>1 DEF Release, WorkInv, CopiesTypes, Units, remote, engine
  <2> HIDE DEF less, n
  <2> QED
    BY <1>1, <2>1, <2>4, <2>5, <2>6, JobStepWorks DEF Release, remote, engine, Records
<1>3. CASE ~(n > 0)
  <2>1. job' = [job EXCEPT ![w] = NoJob] /\ claim' = (IF claim = w THEN Nobody ELSE claim) /\ up' = up
    BY <1>3 DEF Release
  <2>2. job' \in [Jobs -> Records] /\ Others(w)
    BY <1>1, <2>1 DEF Others, Like
  <2>3. JobInv(w)'
    <3>1. job'[w] = NoJob /\ Len(Units') \in Nat
      BY <1>1, <2>1, UnitsAreTyped DEF Release, Units, WorkInv
    <3> QED
      BY <3>1 DEF JobInv, NoJob
  <2>4. CopiesTypes'
    BY <2>1, <2>2 DEF Release, WorkInv, CopiesTypes, Units, remote, engine
  <2> QED
    BY <1>1, <2>1, <2>2, <2>3, <2>4, JobStepWorks DEF Release, remote, engine, NoJob
<1> QED
  BY <1>2, <1>3

LEMMA PutIs ==
  ASSUME CopiesTypes, NEW s \in Stamps, NEW run \in Runs, Put(s, run)
  PROVE  /\ stamped' \in [Stamps -> Runs] /\ repository' \in [Stamps -> Runs]
         /\ \A t \in Stamps \ {s} : stamped'[t] = stamped[t] /\ repository'[t] = repository[t]
         /\ \/ Enabled /\ repository'[s] = run /\ stamped' = stamped
            \/ ~Enabled /\ stamped'[s] = run /\ repository' = repository
BY DEF CopiesTypes, Put

LEMMA SideIsTyped ==
  ASSUME CopiesTypes, NEW s \in Stamps
  PROVE  /\ stamped[s] \in Runs /\ repository[s] \in Runs /\ Side(s) \in Runs
         /\ Side(s) = IF Enabled THEN repository[s] ELSE stamped[s]
BY DEF CopiesTypes, Side

LEMMA CopiesWorks ==
  ASSUME WorkInv, NEW w \in Jobs, Copies(w)
  PROVE  /\ WorkInv'
         /\ LET s == job[w].stamp IN
            /\ s \in Stamps /\ job[w].kind = "backup" /\ job'[w] = [job[w] EXCEPT !.next = @ + 1]
            /\ \A v \in Jobs \ {w} : job'[v] = job[v]
            /\ \A t \in Stamps \ {s} : stamped'[t] = stamped[t] /\ repository'[t] = repository[t]
            /\ stamped'[s].manifest = stamped[s].manifest /\ repository'[s].manifest = repository[s].manifest
            /\ job[w].next = 0 => stamped'[s].has = stamped[s].has /\ repository'[s].has = repository[s].has
            /\ job[w].next # 0 =>
                 LET o == job[w].plan[job[w].next] IN
                 /\ job[w].next \in DOMAIN job[w].plan /\ o \in Operations /\ disk[o.from] \in Contents
                 /\ \/ repository'[s].has = With(repository[s].has, o.to, disk[o.from]) /\ stamped' = stamped
                    \/ stamped'[s].has = With(stamped[s].has, o.to, disk[o.from]) /\ repository' = repository
<1> DEFINE s == job[w].stamp
           n == job[w].next
           o == job[w].plan[n]
<1>1. /\ job \in [Jobs -> Records] /\ job[w] \in Records /\ JobInv(w) /\ job[w].at = "copy" /\ n \in Nat
      /\ n <= Len(job[w].plan) /\ CanCopy /\ CopiesTypes /\ EngineInv /\ NamesInv
  BY JobIsTyped DEF Copies, WorkInv
<1>2. s \in Stamps /\ job[w].kind = "backup" /\ job[w].plan \in Seq(Operations)
  BY <1>1 DEF JobInv, Records
<1>3. stamped[s] \in Runs /\ repository[s] \in Runs /\ Side(s) \in Runs
      /\ Side(s) = IF Enabled THEN repository[s] ELSE stamped[s]
  BY <1>1, <1>2, SideIsTyped
<1>4. n # 0 => n \in DOMAIN job[w].plan /\ o \in Operations /\ o.to \in Dests /\ o.from \in Places /\ disk[o.from] \in Contents
  <2>1. ASSUME n # 0 PROVE n \in DOMAIN job[w].plan /\ o \in Operations /\ o.to \in Dests /\ o.from \in Places
    <3>1. DOMAIN job[w].plan = 1 .. Len(job[w].plan) /\ Len(job[w].plan) \in Nat
      BY <1>2, PlansAreSequences
    <3>2. n \in DOMAIN job[w].plan
      BY <1>1, <2>1, <3>1
    <3> HIDE DEF n
    <3> QED
      BY <1>2, <3>2, PlansAreSequences
  <2>2. n # 0 => disk[o.from] # Absent
    BY DEF Copies
  <2> HIDE DEF n, o
  <2> QED
    BY <1>1, <2>1, <2>2 DEF CopiesTypes
<1> DEFINE run == IF n = 0 THEN [Side(s) EXCEPT !.compose = mounts]
                  ELSE [Side(s) EXCEPT !.has = With(@, o.to, disk[o.from])]
<1>5. /\ run \in Runs /\ Put(s, run) /\ run.manifest = Side(s).manifest
      /\ n = 0 => run.has = Side(s).has
      /\ n # 0 => run.has = With(Side(s).has, o.to, disk[o.from])
  <2>1. CASE n = 0
    <3>1. run = [Side(s) EXCEPT !.compose = mounts] /\ Put(s, run)
      BY <2>1 DEF Copies
    <3>2. mounts \in Lists \cup {Absent}
      BY <1>1 DEF CopiesTypes
    <3> HIDE DEF run
    <3> QED
      BY <1>3, <2>1, <3>1, <3>2 DEF Runs
  <2>2. CASE n # 0
    <3>1. run = [Side(s) EXCEPT !.has = With(@, o.to, disk[o.from])] /\ Put(s, run)
      BY <2>2 DEF Copies
    <3>2. Side(s).has \in Holdings
      BY <1>3, RunsAreTyped
    <3>3. With(Side(s).has, o.to, disk[o.from]) \in Holdings
      BY <1>4, <2>2, <3>2, WithIsTyped
    <3> HIDE DEF run
    <3> QED
      BY <1>3, <2>2, <3>1, <3>3 DEF Runs
  <2> QED
    BY <2>1, <2>2
<1> HIDE DEF run
<1>6. /\ stamped' \in [Stamps -> Runs] /\ repository' \in [Stamps -> Runs]
      /\ \A t \in Stamps \ {s} : stamped'[t] = stamped[t] /\ repository'[t] = repository[t]
      /\ \/ Enabled /\ repository'[s] = run /\ stamped' = stamped
         \/ ~Enabled /\ stamped'[s] = run /\ repository' = repository
  BY <1>1, <1>2, <1>5, PutIs
<1>7. /\ stamped'[s].manifest = stamped[s].manifest /\ repository'[s].manifest = repository[s].manifest
      /\ n = 0 => stamped'[s].has = stamped[s].has /\ repository'[s].has = repository[s].has
      /\ n # 0 => \/ repository'[s].has = With(repository[s].has, o.to, disk[o.from]) /\ stamped' = stamped
                  \/ stamped'[s].has = With(stamped[s].has, o.to, disk[o.from]) /\ repository' = repository
  BY <1>3, <1>5, <1>6
<1>8. /\ job' \in [Jobs -> Records] /\ job'[w] = [job[w] EXCEPT !.next = @ + 1] /\ \A v \in Jobs \ {w} : job'[v] = job[v]
      /\ job'[w].at = "copy" /\ job'[w].alone = job[w].alone
  <2>1. job' = [job EXCEPT ![w].next = n + 1]
    BY DEF Copies
  <2>2. n + 1 \in Nat
    BY <1>1
  <2> QED
    BY <1>1, <2>1, <2>2 DEF Records
<1>9. Others(w)
  BY <1>8 DEF Others, Like
<1>10. JobInv(w)'
  <2>1. Bearing(w) /\ job'[w].stopped = job[w].stopped /\ subject' = subject /\ claim' = claim
    BY <1>1, <1>8 DEF Bearing, Records, Copies
  <2>2. /\ Len(job[w].stopped) <= Len(Units) /\ \A i \in DOMAIN job[w].stopped : job[w].stopped[i] = Units[i]
        /\ ~job[w].still => job[w].stopped = <<>>
        /\ job[w].still => Len(job[w].stopped) = Len(Units)
        /\ subject = "app" /\ job[w].still => claim = w
    BY <1>1 DEF JobInv
  <2> QED
    BY <1>1, <1>2, <1>8, <2>1, <2>2, JobMoves, ZenonT(40) DEF Steps
<1>11. CopiesTypes'
  BY <1>1, <1>6, <1>8 DEF CopiesTypes, Copies, Units, engine
<1>12. EngineInv'
  <2>1. UNCHANGED <<key, made, opening>>
    BY DEF Copies, engine
  <2>2. ~made => repository' = repository
    BY <1>1, <1>6 DEF CanCopy
  <2> QED
    BY <1>1, <2>1, <2>2 DEF EngineInv
<1>13. NamesInv'
  <2>1. subject' = subject
    BY DEF Copies
  <2>2. ASSUME NEW t \in Stamps
        PROVE  stamped'[t].manifest = stamped[t].manifest /\ repository'[t].manifest = repository[t].manifest
    BY <1>6, <1>7
  <2> QED
    BY <1>1, <2>1, <2>2 DEF NamesInv, Names, IsPlanOf
<1>14. \A v \in Jobs : JobInv(v)' /\ AloneInv(v)'
  <2>1. subject' = subject /\ claim' = claim
    BY DEF Copies
  <2> QED
    BY <1>1, <1>8, <1>9, <1>10, <2>1, JobsKeep
<1>15. BoxInv'
  BY DEF WorkInv, BoxInv, Copies
<1> QED
  BY <1>2, <1>4, <1>6, <1>7, <1>8, <1>11, <1>12, <1>13, <1>14, <1>15 DEF WorkInv

LEMMA CopyFailsWorks ==
  ASSUME WorkInv, NEW w \in Jobs, CopyFails(w)
  PROVE  WorkInv'
<1>1. Ends(w, FALSE) /\ job[w].at = "copy"
  BY DEF CopyFails
<1>2. JobInv(w)'
  BY <1>1, EndsWorks DEF CopyFails
<1>3. CopiesTypes'
  <2>1. job' \in [Jobs -> Records]
    BY <1>1, EndsIs
  <2>2. hits' \in Nat
    BY DEF CopyFails, FreeOr, Hit, WorkInv, CopiesTypes
  <2> QED
    BY <2>1, <2>2 DEF CopyFails, WorkInv, CopiesTypes, Units, remote, engine
<1> QED
  BY <1>1, <1>2, <1>3, EndsIs, JobStepWorks DEF CopyFails, remote, engine

LEMMA WriteManifestWorks ==
  ASSUME WorkInv, NEW w \in Jobs, writeManifest(w)
  PROVE  /\ WorkInv'
         /\ LET s == job[w].stamp IN
            /\ s \in Stamps /\ job[w].kind = "backup" /\ job'[w].at = "release"
            /\ job'[w] = [job[w] EXCEPT !.at = "release", !.ok = TRUE] /\ \A v \in Jobs \ {w} : job'[v] = job[v]
            /\ \A t \in Stamps \ {s} : stamped'[t] = stamped[t] /\ repository'[t] = repository[t]
            /\ stamped'[s].has = stamped[s].has /\ repository'[s].has = repository[s].has
            /\ stamped'[s].manifest \in {stamped[s].manifest, [plan |-> job[w].plan, of |-> job[w].was]}
            /\ repository'[s].manifest \in {repository[s].manifest, [plan |-> job[w].plan, of |-> job[w].was]}
<1> DEFINE s == job[w].stamp
           m == [plan |-> job[w].plan, of |-> job[w].was]
           run == [Side(s) EXCEPT !.manifest = m]
<1>1. /\ job \in [Jobs -> Records] /\ job[w] \in Records /\ JobInv(w) /\ job[w].at = "copy"
      /\ CanCopy /\ CopiesTypes /\ EngineInv /\ NamesInv /\ Ends(w, TRUE) /\ Put(s, run)
  BY JobIsTyped DEF writeManifest, WorkInv
<1>2. /\ s \in Stamps /\ job[w].kind = "backup" /\ m \in Manifests /\ IsPlanOf(m.plan, m.of)
      /\ subject = "box" => m.of = BoxMounts
  <2>1. job[w].kind = "backup" /\ s \in Stamps
    BY <1>1 DEF JobInv, Records
  <2> QED
    BY <1>1, <2>1 DEF JobInv, Manifests
<1>3. stamped[s] \in Runs /\ repository[s] \in Runs /\ Side(s) \in Runs
      /\ Side(s) = IF Enabled THEN repository[s] ELSE stamped[s]
  BY <1>1, <1>2, SideIsTyped
<1> HIDE DEF m
<1>5. run \in Runs /\ run.has = Side(s).has /\ run.manifest = m
  BY <1>2, <1>3 DEF Runs
<1> HIDE DEF run
<1>6. /\ stamped' \in [Stamps -> Runs] /\ repository' \in [Stamps -> Runs]
      /\ \A t \in Stamps \ {s} : stamped'[t] = stamped[t] /\ repository'[t] = repository[t]
      /\ \/ Enabled /\ repository'[s] = run /\ stamped' = stamped
         \/ ~Enabled /\ stamped'[s] = run /\ repository' = repository
  BY <1>1, <1>2, <1>5, PutIs
<1>7. /\ stamped'[s].has = stamped[s].has /\ repository'[s].has = repository[s].has
      /\ stamped'[s].manifest \in {stamped[s].manifest, m} /\ repository'[s].manifest \in {repository[s].manifest, m}
  BY <1>3, <1>5, <1>6
<1>8. /\ job' \in [Jobs -> Records] /\ Others(w) /\ job'[w] = [job[w] EXCEPT !.at = "release", !.ok = TRUE]
      /\ job'[w].at = "release" /\ job'[w].alone = job[w].alone
  BY <1>1, EndsIs
<1>9. \A v \in Jobs \ {w} : job'[v] = job[v]
  BY <1>1 DEF Ends
<1>10. JobInv(w)'
  BY <1>1, EndsWorks DEF writeManifest
<1>11. CopiesTypes'
  BY <1>1, <1>6, <1>8 DEF CopiesTypes, writeManifest, Units, engine
<1>12. EngineInv'
  <2>1. UNCHANGED <<key, made, opening>>
    BY DEF writeManifest, engine
  <2>2. ~made => repository' = repository
    BY <1>1, <1>6 DEF CanCopy
  <2> QED
    BY <1>1, <2>1, <2>2 DEF EngineInv
<1>13. NamesInv'
  <2>1. subject' = subject
    BY DEF writeManifest
  <2>2. ASSUME NEW t \in Stamps
        PROVE  stamped'[t].manifest \in {stamped[t].manifest, m} /\ repository'[t].manifest \in {repository[t].manifest, m}
    BY <1>6, <1>7
  <2> QED
    BY <1>1, <1>2, <2>1, <2>2 DEF NamesInv, Names, IsPlanOf
<1>14. \A v \in Jobs : JobInv(v)' /\ AloneInv(v)'
  <2>1. subject' = subject /\ claim' = claim
    BY DEF writeManifest
  <2> QED
    BY <1>1, <1>8, <1>10, <2>1, JobsKeep
<1>15. BoxInv'
  BY DEF WorkInv, BoxInv, writeManifest
<1> QED
  BY <1>2, <1>6, <1>7, <1>8, <1>9, <1>11, <1>12, <1>13, <1>14, <1>15 DEF WorkInv, m

LEMMA ReadIsTyped ==
  ASSUME WorkInv, NEW s \in Stamps
  PROVE  /\ ManifestOf(s) # Absent => /\ ManifestOf(s) \in Manifests /\ IsPlanOf(ManifestOf(s).plan, ManifestOf(s).of)
                                      /\ subject = "box" => ManifestOf(s).of = BoxMounts
         /\ ComposeOf(s) # Absent => ComposeOf(s) \in Lists
         /\ InRun(s) \subseteq Dests
         /\ \A d \in InRun(s) : Fetch(s, d) \in Contents
<1>1. stamped[s] \in Runs /\ repository[s] \in Runs /\ Names(stamped[s]) /\ Names(repository[s])
  BY DEF WorkInv, CopiesTypes, NamesInv
<1>2. ManifestOf(s) \in {repository[s].manifest, stamped[s].manifest} /\ ComposeOf(s) \in {repository[s].compose, stamped[s].compose}
  BY DEF ManifestOf, ComposeOf
<1>3. /\ DOMAIN stamped[s].has \subseteq Dests /\ \A d \in DOMAIN stamped[s].has : stamped[s].has[d] \in Contents
      /\ stamped[s].compose \in Lists \cup {Absent} /\ stamped[s].manifest \in Manifests \cup {Absent}
  BY <1>1, RunsAreTyped
<1>4. /\ DOMAIN repository[s].has \subseteq Dests /\ \A d \in DOMAIN repository[s].has : repository[s].has[d] \in Contents
      /\ repository[s].compose \in Lists \cup {Absent} /\ repository[s].manifest \in Manifests \cup {Absent}
  BY <1>1, RunsAreTyped
<1>5. ManifestOf(s) # Absent => /\ ManifestOf(s) \in Manifests /\ IsPlanOf(ManifestOf(s).plan, ManifestOf(s).of)
                                /\ subject = "box" => ManifestOf(s).of = BoxMounts
  BY <1>1, <1>2, <1>3, <1>4 DEF Names
<1>6. ComposeOf(s) # Absent => ComposeOf(s) \in Lists
  BY <1>2, <1>3, <1>4
<1>7. InRun(s) \subseteq Dests /\ \A d \in InRun(s) : Fetch(s, d) \in Contents
  BY <1>3, <1>4 DEF InRun, Fetch
<1> QED
  BY <1>5, <1>6, <1>7

(* A job that goes from one step of a restore to the next, its plan made.    *)
LEMMA RestoreBackupWorks ==
  ASSUME WorkInv, NEW w \in Jobs, restoreBackup(w)
  PROVE  WorkInv'
<1>1. /\ job \in [Jobs -> Records] /\ job[w] \in Records /\ JobInv(w) /\ NoJob \in Records /\ CopiesTypes
      /\ job[w].at = "claim" /\ job[w].kind = "restore"
  BY JobIsTyped DEF restoreBackup, WorkInv
<1>2. CASE claim # Nobody
  <2>1. job' = [job EXCEPT ![w] = NoJob] /\ claim' = claim /\ hits' = hits
    BY <1>2 DEF restoreBackup
  <2>2. job' \in [Jobs -> Records] /\ Others(w)
    BY <1>1, <2>1 DEF Others, Like
  <2>3. JobInv(w)'
    <3>1. job'[w] = NoJob /\ Len(Units') \in Nat
      BY <1>1, <2>1, UnitsAreTyped DEF restoreBackup, Units
    <3> QED
      BY <3>1 DEF JobInv, NoJob
  <2>4. CopiesTypes'
    BY <1>1, <2>1, <2>2 DEF restoreBackup, CopiesTypes, Units, remote, engine
  <2> QED
    BY <1>1, <2>1, <2>2, <2>3, <2>4, JobStepWorks DEF restoreBackup, remote, engine, NoJob
<1>3. CASE claim = Nobody
  <2>0. /\ claim' = w /\ \A v \in Jobs \ {w} : claim = v => claim' = v
        /\ job[w].stopped = <<>> /\ job[w].still /\ Len(<<>>) = 0 /\ DOMAIN <<>> = {}
        /\ subject = "app" /\ UNCHANGED <<subject, mounts, disk, up, stamped, repository, purged, key, made, opening, cut>>
    <3>1. claim' = w /\ \A v \in Jobs \ {w} : claim = v => claim' = v
      BY <1>3, CopiesAssumption DEF restoreBackup
    <3>2. subject = "app" /\ job[w].stopped = <<>> /\ job[w].still
      BY <1>1 DEF JobInv, CopiesTypes
    <3>3. UNCHANGED <<subject, mounts, disk, up, remote, engine, cut>>
      BY Zenon DEF restoreBackup
    <3> QED
      BY <3>1, <3>2, <3>3 DEF remote, engine
  <2>1. CASE job[w].was = Absent
    <3>1. job' = [job EXCEPT ![w].at = "install"] /\ hits' = hits
      BY <1>3, <2>1 DEF restoreBackup, Goes
    <3>2. /\ job' \in [Jobs -> Records] /\ Others(w) /\ Bearing(w) /\ job'[w].at = "install"
          /\ job'[w].stopped = job[w].stopped /\ job'[w].alone = job[w].alone /\ job'[w].next = job[w].next
      BY <1>1, <3>1 DEF Records, Steps, Others, Like, Bearing
    <3>3. JobInv(w)'
      <4>1. Len(Units) \in Nat /\ job[w].next > 0
        BY <1>1, UnitsAreTyped DEF JobInv
      <4> QED
        BY <1>1, <2>0, <3>2, <4>1, JobMoves DEF Steps
    <3>4. CopiesTypes'
      BY <1>1, <2>0, <3>1, <3>2 DEF CopiesTypes, Units
    <3> QED
      BY <1>1, <2>0, <3>2, <3>3, <3>4, JobStepWorks
  <2>2. CASE job[w].was # Absent
    <3>1. PICK known \in BOOLEAN :
            /\ FreeOr(known)
            /\ job' = [job EXCEPT ![w].at = "stop", ![w].plan = Planned(w, job[w].was, known), ![w].known = known]
      BY <1>3, <2>2 DEF restoreBackup
    <3> DEFINE plan == Planned(w, job[w].was, known)
    <3>2. job[w].was \in Lists /\ job[w].manifest \in Manifests /\ plan \in Seq(Pairs)
      <4>1. job[w].was \in Lists /\ job[w].manifest \in Manifests
        BY <1>1, <2>2 DEF JobInv, Records
      <4> QED
        BY <1>1, <4>1, PlannedIsPaired
    <3> HIDE DEF plan
    <3>3. /\ job' \in [Jobs -> Records] /\ Others(w) /\ job'[w].at = "stop" /\ job'[w].plan = plan
          /\ job'[w].kind = job[w].kind /\ job'[w].stamp = job[w].stamp /\ job'[w].still = job[w].still
          /\ job'[w].was = job[w].was /\ job'[w].manifest = job[w].manifest
          /\ job'[w].stopped = job[w].stopped /\ job'[w].alone = job[w].alone /\ job'[w].next = job[w].next
      <4>1. job' = [job EXCEPT ![w].at = "stop", ![w].plan = plan, ![w].known = known]
        BY <3>1 DEF plan
      <4> QED
        BY <1>1, <3>2, <4>1 DEF Records, Steps, Others, Like
    <3>4. JobInv(w)'
      <4>1. Len(Units') \in Nat /\ Len(Units') > 0
        BY <1>1, <2>0, UnitsAreTyped DEF Units
      <4>2. IsPlanOf(job[w].manifest.plan, job[w].manifest.of)' <=> IsPlanOf(job[w].manifest.plan, job[w].manifest.of)
        BY <2>0, <3>3 DEF IsPlanOf
      <4> QED
        BY <1>1, <2>0, <3>2, <3>3, <4>1, <4>2 DEF JobInv
    <3>5. CopiesTypes'
      <4>1. hits' \in Nat
        BY <1>1, <3>1 DEF FreeOr, Hit, CopiesTypes
      <4> QED
        BY <1>1, <2>0, <3>3, <4>1 DEF CopiesTypes, Units
    <3> QED
      BY <1>1, <2>0, <3>3, <3>4, <3>5, JobStepWorks
  <2> QED
    BY <2>1, <2>2
<1> QED
  BY <1>2, <1>3

LEMMA MadeIsTyped ==
  ASSUME CopiesTypes, NEW ms
  PROVE  Made(ms) \in [Places -> Contents \cup {Absent}]
BY DEF Made, CopiesTypes, Contents

LEMMA InstallWorks ==
  ASSUME WorkInv, NEW w \in Jobs, installFromBackup(w)
  PROVE  WorkInv'
<1>1. /\ job \in [Jobs -> Records] /\ job[w] \in Records /\ JobInv(w) /\ CopiesTypes /\ EngineInv /\ NamesInv
      /\ job[w].at = "install"
  BY JobIsTyped DEF installFromBackup, WorkInv
<1>2. job[w].kind = "restore" /\ job[w].stamp \in Stamps /\ subject = "app" /\ job[w].stopped = <<>>
  BY <1>1 DEF JobInv, Records, CopiesTypes
<1>3. mounts' \in Lists
  BY <1>1, <1>2, ReadIsTyped DEF installFromBackup
<1>4. UNCHANGED <<subject, claim, stamped, repository, purged, key, made, opening, cut, hits>>
  BY DEF installFromBackup, remote, engine
<1>5. /\ job' \in [Jobs -> Records] /\ Others(w) /\ job'[w].at = "plan" /\ job'[w].was = mounts'
      /\ job'[w].kind = job[w].kind /\ job'[w].stamp = job[w].stamp /\ job'[w].still = job[w].still
      /\ job'[w].plan = job[w].plan /\ job'[w].manifest = job[w].manifest
      /\ job'[w].stopped = job[w].stopped /\ job'[w].alone = job[w].alone /\ job'[w].next = job[w].next
  <2>1. job' = [job EXCEPT ![w].at = "plan", ![w].was = mounts']
    BY DEF installFromBackup
  <2> QED
    BY <1>1, <1>3, <2>1 DEF Records, Steps, Others, Like
<1>6. JobInv(w)'
  <2>1. Len(Units') \in Nat /\ Len(<<>>) = 0 /\ DOMAIN <<>> = {}
    BY <1>1, <1>4, UnitsAreTyped DEF Units
  <2>2. IsPlanOf(job[w].manifest.plan, job[w].manifest.of)' <=> IsPlanOf(job[w].manifest.plan, job[w].manifest.of)
    BY <1>4, <1>5 DEF IsPlanOf
  <2> QED
    BY <1>1, <1>2, <1>3, <1>4, <1>5, <2>1, <2>2 DEF JobInv
<1>7. CopiesTypes'
  <2>1. disk' \in [Places -> Contents \cup {Absent}]
    BY <1>1, MadeIsTyped DEF installFromBackup
  <2>2. up' \subseteq ToSet(Units')
    BY <1>4 DEF installFromBackup, Units
  <2> QED
    BY <1>1, <1>3, <1>4, <1>5, <2>1, <2>2 DEF CopiesTypes
<1>8. EngineInv' /\ NamesInv'
  BY <1>1, <1>4, StoresKeep
<1>9. \A v \in Jobs : JobInv(v)' /\ AloneInv(v)'
  BY <1>1, <1>4, <1>5, <1>6, JobsKeep
<1>10. BoxInv'
  BY <1>2, <1>4 DEF BoxInv
<1> QED
  BY <1>7, <1>8, <1>9, <1>10 DEF WorkInv

LEMMA InstallFailsWorks ==
  ASSUME WorkInv, NEW w \in Jobs, InstallFails(w)
  PROVE  WorkInv'
<1>1. Ends(w, FALSE) /\ job[w].at = "install"
  BY DEF InstallFails
<1>2. JobInv(w)'
  BY <1>1, EndsWorks DEF InstallFails
<1>3. CopiesTypes'
  <2>1. job' \in [Jobs -> Records]
    BY <1>1, EndsIs
  <2>2. hits' \in Nat
    BY DEF InstallFails, FreeOr, Hit, WorkInv, CopiesTypes
  <2> QED
    BY <2>1, <2>2 DEF InstallFails, WorkInv, CopiesTypes, Units, remote, engine
<1> QED
  BY <1>1, <1>2, <1>3, EndsIs, JobStepWorks DEF InstallFails, remote, engine

LEMMA PlansInstalledWorks ==
  ASSUME WorkInv, NEW w \in Jobs, PlansInstalled(w)
  PROVE  WorkInv'
<1> DEFINE plan == Planned(w, job[w].was, TRUE)
<1>1. /\ job \in [Jobs -> Records] /\ job[w] \in Records /\ JobInv(w) /\ CopiesTypes
      /\ job[w].at = "plan"
  BY JobIsTyped DEF PlansInstalled, WorkInv
<1>2. /\ job[w].kind = "restore" /\ job[w].stamp \in Stamps /\ subject = "app" /\ job[w].stopped = <<>>
      /\ job[w].was \in Lists /\ job[w].manifest \in Manifests /\ job[w].still
  BY <1>1 DEF JobInv, Records, CopiesTypes
<1>3. plan \in Seq(Pairs)
  BY <1>1, <1>2, PlannedIsPaired
<1>4. UNCHANGED <<subject, mounts, disk, up, claim, stamped, repository, purged, key, made, opening, cut, hits>>
  BY DEF PlansInstalled, remote, engine
<1> HIDE DEF plan
<1>5. /\ job' \in [Jobs -> Records] /\ Others(w) /\ job'[w].at = "stop" /\ job'[w].plan = plan
      /\ job'[w].kind = job[w].kind /\ job'[w].stamp = job[w].stamp /\ job'[w].still = job[w].still
      /\ job'[w].was = job[w].was /\ job'[w].manifest = job[w].manifest
      /\ job'[w].stopped = job[w].stopped /\ job'[w].alone = job[w].alone /\ job'[w].next = job[w].next
  <2>1. job' = [job EXCEPT ![w].at = "stop", ![w].plan = plan]
    BY DEF PlansInstalled, plan
  <2> QED
    BY <1>1, <1>3, <2>1 DEF Records, Steps, Others, Like
<1>6. JobInv(w)'
  <2>1. Len(Units') \in Nat /\ Len(Units') > 0 /\ Len(<<>>) = 0 /\ DOMAIN <<>> = {}
    BY <1>1, <1>4, UnitsAreTyped DEF Units
  <2>2. IsPlanOf(job[w].manifest.plan, job[w].manifest.of)' <=> IsPlanOf(job[w].manifest.plan, job[w].manifest.of)
    BY <1>4, <1>5 DEF IsPlanOf
  <2> QED
    BY <1>1, <1>2, <1>3, <1>4, <1>5, <2>1, <2>2 DEF JobInv
<1>7. CopiesTypes'
  BY <1>1, <1>4, <1>5 DEF CopiesTypes, Units
<1> QED
  BY <1>1, <1>4, <1>5, <1>6, <1>7, JobStepWorks

LEMMA ComesIsTyped ==
  ASSUME WorkInv, NEW w \in Jobs, job[w].at = "put", job[w].next <= Len(job[w].plan)
  PROVE  LET p == job[w].plan[job[w].next].at IN
         /\ job[w].kind = "restore" /\ job[w].stamp \in Stamps /\ job[w].next \in DOMAIN job[w].plan /\ p \in Places
         /\ Coming(w) => Comes(w) \in Contents /\ Over_(disk[p], Comes(w)) \in Contents
<1>1. job[w] \in Records /\ JobInv(w) /\ job[w].next \in Nat
  BY JobIsTyped
<1>2. job[w].kind = "restore" /\ job[w].stamp \in Stamps /\ job[w].plan \in Seq(Pairs) /\ job[w].next > 0
  BY <1>1 DEF JobInv, Records
<1>3. job[w].next \in DOMAIN job[w].plan /\ job[w].plan[job[w].next] \in Pairs
  BY <1>1, <1>2
<1>4. job[w].plan[job[w].next].at \in Places
  BY <1>3 DEF Pairs
<1>5. Coming(w) => Comes(w) \in Contents
  BY <1>2, ReadIsTyped DEF Coming, Comes
<1>6. disk[job[w].plan[job[w].next].at] \in Contents \cup {Absent}
  BY <1>4 DEF WorkInv, CopiesTypes
<1>7. \A x \in Contents \cup {Absent}, y \in Contents : Over_(x, y) \in Contents
  BY DEF Over_, Contents
<1> QED
  BY <1>2, <1>3, <1>4, <1>5, <1>6, <1>7

LEMMA PutsWorks ==
  ASSUME WorkInv, NEW w \in Jobs, Puts(w)
  PROVE  /\ WorkInv'
         /\ job'[w] = [job[w] EXCEPT !.next = @ + 1] /\ \A v \in Jobs \ {w} : job'[v] = job[v]
<1>1. /\ job \in [Jobs -> Records] /\ job[w] \in Records /\ JobInv(w) /\ CopiesTypes
      /\ job[w].at = "put" /\ job[w].next <= Len(job[w].plan) /\ job[w].next \in Nat /\ Coming(w)
  BY JobIsTyped DEF Puts, WorkInv
<1> DEFINE p == job[w].plan[job[w].next].at
<1>2. job[w].kind = "restore" /\ p \in Places /\ Comes(w) \in Contents /\ Over_(disk[p], Comes(w)) \in Contents
  BY <1>1, ComesIsTyped
<1>3. UNCHANGED <<subject, mounts, up, claim, stamped, repository, purged, key, made, opening, cut, hits>>
  BY DEF Puts, remote, engine
<1>4. disk' \in [Places -> Contents \cup {Absent}]
  <2>1. disk' = [disk EXCEPT ![p] = IF job[w].only = {} THEN Comes(w) ELSE Over_(disk[p], Comes(w))]
    BY DEF Puts
  <2> HIDE DEF p
  <2> QED
    BY <1>1, <1>2, <2>1 DEF CopiesTypes
<1>5. /\ job' \in [Jobs -> Records] /\ job'[w] = [job[w] EXCEPT !.next = @ + 1] /\ \A v \in Jobs \ {w} : job'[v] = job[v]
      /\ job'[w].at = "put" /\ job'[w].alone = job[w].alone /\ job'[w].stopped = job[w].stopped /\ Bearing(w)
  <2>1. job' = [job EXCEPT ![w].next = @ + 1] /\ job[w].next + 1 \in Nat
    BY <1>1 DEF Puts
  <2> QED
    BY <1>1, <2>1 DEF Records, Bearing
<1>6. Others(w)
  BY <1>5 DEF Others, Like
<1>7. JobInv(w)'
  <2>1. /\ Len(job[w].stopped) <= Len(Units) /\ \A i \in DOMAIN job[w].stopped : job[w].stopped[i] = Units[i]
        /\ ~job[w].still => job[w].stopped = <<>>
        /\ job[w].still => Len(job[w].stopped) = Len(Units)
        /\ subject = "app" /\ job[w].still => claim = w
        /\ job[w].next + 1 > 0
    BY <1>1 DEF JobInv
  <2>2. job'[w].next = job[w].next + 1
    BY <1>1, <1>5 DEF Records
  <2> QED
    BY <1>1, <1>2, <1>3, <1>5, <2>1, <2>2, JobMoves, ZenonT(40) DEF Steps
<1>8. CopiesTypes'
  BY <1>1, <1>3, <1>4, <1>5 DEF CopiesTypes, Units
<1>9. WorkInv'
  BY <1>1, <1>3, <1>5, <1>6, <1>7, <1>8, JobStepWorks
<1> QED
  BY <1>5, <1>9

LEMMA PutFailsWorks ==
  ASSUME WorkInv, NEW w \in Jobs, PutFails(w)
  PROVE  WorkInv'
<1>1. Ends(w, FALSE) /\ job[w].at = "put" /\ job[w].next <= Len(job[w].plan)
  BY DEF PutFails
<1>2. JobInv(w)'
  BY <1>1, EndsWorks DEF PutFails
<1>3. CopiesTypes'
  <2> DEFINE p == job[w].plan[job[w].next].at
  <2>1. job' \in [Jobs -> Records]
    BY <1>1, EndsIs
  <2>2. hits' \in Nat
    BY DEF PutFails, FreeOr, Hit, WorkInv, CopiesTypes
  <2>3. disk' \in {disk} \cup (IF Coming(w) THEN {[disk EXCEPT ![p] = Over_(disk[p], Comes(w))]} ELSE {})
    BY DEF PutFails
  <2>4. p \in Places /\ (Coming(w) => Over_(disk[p], Comes(w)) \in Contents)
    BY <1>1, ComesIsTyped
  <2> HIDE DEF p
  <2>5. disk' \in [Places -> Contents \cup {Absent}]
    BY <2>3, <2>4 DEF WorkInv, CopiesTypes
  <2> QED
    BY <2>1, <2>2, <2>5 DEF PutFails, WorkInv, CopiesTypes, Units, remote, engine
<1> QED
  BY <1>1, <1>2, <1>3, EndsIs, JobStepWorks DEF PutFails, remote, engine

LEMMA AllPutWorks ==
  ASSUME WorkInv, NEW w \in Jobs, AllPut(w)
  PROVE  WorkInv'
<1>1. Ends(w, TRUE) /\ job[w].at = "put"
  BY DEF AllPut
<1>2. JobInv(w)'
  BY <1>1, EndsWorks DEF AllPut
<1>3. CopiesTypes'
  <2>1. job' \in [Jobs -> Records]
    BY <1>1, EndsIs
  <2> QED
    BY <2>1 DEF AllPut, WorkInv, CopiesTypes, Units, remote, engine
<1> QED
  BY <1>1, <1>2, <1>3, EndsIs, JobStepWorks DEF AllPut, remote, engine

(* What begins, and everything that is no step of a job.                     *)
Begun(w, r) ==
  /\ job'[w].at = r.at /\ job'[w].kind = r.kind /\ job'[w].stamp = r.stamp /\ job'[w].still = r.still
  /\ job'[w].plan = r.plan /\ job'[w].next = r.next /\ job'[w].was = r.was /\ job'[w].manifest = r.manifest
  /\ job'[w].only = r.only /\ job'[w].stopped = r.stopped /\ job'[w].ok = r.ok /\ job'[w].known = r.known
  /\ job'[w].alone = \A v \in Jobs \ {w} : job[v].at = "idle"

LEMMA StartsIs ==
  ASSUME WorkInv, NEW w \in Jobs, NEW r \in Records, Starts(w, r), job[w].at = "idle", r.at # "idle"
  PROVE  job' \in [Jobs -> Records] /\ Others(w) /\ Begun(w, r) /\ \A v \in Jobs : AloneInv(v)'
<1>1. /\ job' \in [Jobs -> Records] /\ Others(w)
      /\ job'[w] = [r EXCEPT !.alone = \A v \in Jobs \ {w} : job[v].at = "idle"]
      /\ \A v \in Jobs : AloneInv(v)'
  BY StartsAlone
<1>2. Begun(w, r)
  <2> DEFINE b == \A v \in Jobs \ {w} : job[v].at = "idle"
  <2>1. job'[w] = [r EXCEPT !.alone = b] /\ b \in BOOLEAN
    BY <1>1
  <2>2. Begun(w, r) <=> /\ job'[w].at = r.at /\ job'[w].kind = r.kind /\ job'[w].stamp = r.stamp /\ job'[w].still = r.still
                        /\ job'[w].plan = r.plan /\ job'[w].next = r.next /\ job'[w].was = r.was
                        /\ job'[w].manifest = r.manifest
                        /\ job'[w].only = r.only /\ job'[w].stopped = r.stopped /\ job'[w].ok = r.ok
                        /\ job'[w].known = r.known /\ job'[w].alone = b
    BY DEF Begun
  <2> HIDE DEF b
  <2> QED
    BY <2>1, <2>2 DEF Records
<1> QED
  BY <1>1, <1>2

LEMMA StartsWorks ==
  ASSUME WorkInv, NEW w \in Jobs, NEW r \in Records, Starts(w, r), job[w].at = "idle", r.at # "idle",
         UNCHANGED <<subject, mounts, disk, up, claim, stamped, repository, purged, key, made, opening, cut>>,
         hits' \in Nat, JobInv(w)'
  PROVE  WorkInv'
<1>1. job' \in [Jobs -> Records] /\ Others(w) /\ \A v \in Jobs : AloneInv(v)'
  BY StartsAlone
<1>2. CopiesTypes'
  BY <1>1 DEF WorkInv, CopiesTypes, Units
<1>3. EngineInv' /\ NamesInv'
  BY StoresKeep DEF WorkInv
<1>4. ASSUME NEW v \in Jobs \ {w} PROVE JobInv(v)'
  BY <1>1, JobKeeps DEF WorkInv, Others
<1>5. BoxInv'
  BY DEF WorkInv, BoxInv
<1> QED
  BY <1>1, <1>2, <1>3, <1>4, <1>5 DEF WorkInv

RunBackupRecord(s, still, known) ==
  [NoJob EXCEPT !.at = IF still THEN "claim" ELSE "copy", !.kind = "backup", !.stamp = s,
     !.still = still, !.plan = PlanBackup(mounts, Located(mounts, known)), !.next = 0, !.was = mounts]

LEMMA RunBackupWorks ==
  ASSUME WorkInv, NEW w \in Jobs, NEW s \in Stamps, NEW still \in BOOLEAN, RunBackup(w, s, still)
  PROVE  /\ WorkInv' /\ Others(w)
         /\ \E known \in BOOLEAN : Begun(w, RunBackupRecord(s, still, known))
<1>1. PICK known \in BOOLEAN : FreeOr(known) /\ Starts(w, RunBackupRecord(s, still, known))
  BY DEF RunBackup, RunBackupRecord
<1> DEFINE plan == PlanBackup(mounts, Located(mounts, known))
           r == RunBackupRecord(s, still, known)
<1>2. /\ UNCHANGED <<subject, mounts, disk, up, claim, stamped, repository, purged, key, made, opening, cut>>
      /\ job[w].at = "idle" /\ subject = "app" /\ mounts \in Lists /\ hits' \in Nat /\ NoJob \in Records /\ CopiesTypes
  BY <1>1, StartsAreTyped DEF RunBackup, remote, engine, WorkInv, CopiesTypes, FreeOr, Hit
<1>3. plan \in Seq(Operations) /\ IsPlanOf(plan, mounts)
  <2>1. /\ Located(mounts, known) \in SUBSET DOMAIN mounts
        /\ \A k \in DOMAIN mounts : mounts[k].kind = "bind" => k \in Located(mounts, known)
    BY DEF Located
  <2> QED
    BY <1>2, <2>1, PlansAreOfTheirList
<1> HIDE DEF plan
<1>4. /\ r = [NoJob EXCEPT !.at = IF still THEN "claim" ELSE "copy", !.kind = "backup", !.stamp = s,
                !.still = still, !.plan = plan, !.next = 0, !.was = mounts]
  BY DEF RunBackupRecord, plan
<1> HIDE DEF r
<1>5. /\ r \in Records /\ r.at = IF still THEN "claim" ELSE "copy"
      /\ r.kind = "backup" /\ r.stamp = s /\ r.still = still /\ r.plan = plan /\ r.was = mounts /\ r.stopped = <<>>
  BY <1>2, <1>3, <1>4 DEF Records, Steps, NoJob
<1>6. Starts(w, r)
  BY <1>1 DEF r
<1>7. Others(w) /\ Begun(w, r)
  BY <1>2, <1>5, <1>6, StartsIs
<1>8. JobInv(w)'
  <2>1. Len(Units') \in Nat /\ Len(<<>>) = 0 /\ DOMAIN <<>> = {}
    BY <1>2, UnitsAreTyped DEF Units
  <2>2. IsPlanOf(plan, mounts)' <=> IsPlanOf(plan, mounts)
    BY <1>2 DEF IsPlanOf, plan, PlanBackup, Located, isRegularFile
  <2>3. /\ job'[w].at = r.at /\ job'[w].kind = "backup" /\ job'[w].stamp = s /\ job'[w].still = still
        /\ job'[w].plan = plan /\ job'[w].was = mounts /\ job'[w].stopped = <<>>
    BY <1>5, <1>7 DEF Begun
  <2>4. IsPlanOf(job[w].plan, job[w].was)'
    BY <1>2, <1>3, <2>3 DEF IsPlanOf
  <2> QED
    BY <1>2, <1>3, <1>5, <2>1, <2>3, <2>4 DEF JobInv
<1>9. WorkInv'
  BY <1>2, <1>5, <1>6, <1>8, StartsWorks
<1> QED
  BY <1>7, <1>9 DEF r

RunSystemBackupRecord(s, still) ==
  [NoJob EXCEPT !.at = IF still THEN "stop" ELSE "copy", !.kind = "backup", !.stamp = s,
     !.still = still, !.plan = PlanBackup(BoxMounts, SystemBackupInventory), !.was = mounts]

LEMMA RunSystemBackupWorks ==
  ASSUME WorkInv, NEW w \in Jobs, NEW s \in Stamps, NEW still \in BOOLEAN, RunSystemBackup(w, s, still)
  PROVE  WorkInv' /\ Others(w) /\ Begun(w, RunSystemBackupRecord(s, still))
<1> DEFINE plan == PlanBackup(BoxMounts, SystemBackupInventory)
           r == RunSystemBackupRecord(s, still)
<1>2. /\ UNCHANGED <<subject, mounts, disk, up, claim, stamped, repository, purged, key, made, opening, cut>>
      /\ job[w].at = "idle" /\ subject = "box" /\ mounts = BoxMounts /\ mounts \in Lists /\ hits' \in Nat
      /\ NoJob \in Records /\ CopiesTypes
  BY StartsAreTyped DEF RunSystemBackup, remote, engine, WorkInv, CopiesTypes, BoxInv, Lists
<1>3. plan \in Seq(Operations) /\ IsPlanOf(plan, mounts)
  <2>1. SystemBackupInventory \in SUBSET DOMAIN BoxMounts
    BY DEF SystemBackupInventory
  <2> QED
    BY <1>2, <2>1, PlansAreOfTheirList
<1> HIDE DEF plan
<1>4. /\ r = [NoJob EXCEPT !.at = IF still THEN "stop" ELSE "copy", !.kind = "backup", !.stamp = s,
                !.still = still, !.plan = plan, !.was = mounts]
  BY DEF RunSystemBackupRecord, plan
<1> HIDE DEF r
<1>5. /\ r \in Records /\ r.at = IF still THEN "stop" ELSE "copy"
      /\ r.kind = "backup" /\ r.stamp = s /\ r.still = still /\ r.plan = plan /\ r.was = mounts /\ r.stopped = <<>>
  BY <1>2, <1>3, <1>4 DEF Records, Steps, NoJob
<1>6. Starts(w, r)
  BY DEF r, RunSystemBackup, RunSystemBackupRecord
<1>7. Others(w) /\ Begun(w, r)
  BY <1>2, <1>5, <1>6, StartsIs
<1>8. JobInv(w)'
  <2>1. Len(Units') \in Nat /\ Len(Units') > 0 /\ Len(<<>>) = 0 /\ DOMAIN <<>> = {}
    BY <1>2, UnitsAreTyped DEF Units
  <2>3. /\ job'[w].at = r.at /\ job'[w].kind = "backup" /\ job'[w].stamp = s /\ job'[w].still = still
        /\ job'[w].plan = plan /\ job'[w].was = mounts /\ job'[w].stopped = <<>>
    BY <1>5, <1>7 DEF Begun
  <2>4. IsPlanOf(job[w].plan, job[w].was)'
    BY <1>2, <1>3, <2>3 DEF IsPlanOf
  <2> QED
    BY <1>2, <1>3, <1>5, <2>1, <2>3, <2>4 DEF JobInv
<1>9. WorkInv'
  BY <1>2, <1>5, <1>6, <1>8, StartsWorks
<1> QED
  BY <1>7, <1>9 DEF r

RestoreBackupRecord(s, only) ==
  [NoJob EXCEPT !.at = "claim", !.kind = "restore", !.stamp = s, !.still = TRUE, !.was = mounts,
     !.manifest = ManifestOf(s), !.only = only]

LEMMA RestoreStartsWorks ==
  ASSUME WorkInv, NEW w \in Jobs, NEW s \in Stamps, NEW only, only \in {{}} \cup {{d} : d \in InRun(s)},
         RestoreBackup(w, s, only)
  PROVE  WorkInv' /\ Others(w) /\ Begun(w, RestoreBackupRecord(s, only))
<1> DEFINE r == RestoreBackupRecord(s, only)
           m == ManifestOf(s)
<1>2. /\ UNCHANGED <<subject, mounts, disk, up, claim, stamped, repository, purged, key, made, opening, cut>>
      /\ job[w].at = "idle" /\ subject = "app" /\ mounts \in Lists \cup {Absent} /\ hits' \in Nat
      /\ NoJob \in Records /\ CopiesTypes
  BY StartsAreTyped DEF RestoreBackup, remote, engine, WorkInv, CopiesTypes
<1>3. m \in Manifests /\ IsPlanOf(m.plan, m.of) /\ only \in SUBSET Dests
  BY ReadIsTyped DEF RestoreBackup
<1> HIDE DEF m
<1>4. r = [NoJob EXCEPT !.at = "claim", !.kind = "restore", !.stamp = s, !.still = TRUE, !.was = mounts,
             !.manifest = m, !.only = only]
  BY DEF RestoreBackupRecord, m
<1> HIDE DEF r
<1>5. /\ r \in Records /\ r.at = "claim" /\ r.kind = "restore" /\ r.stamp = s /\ r.still /\ r.plan = <<>> /\ r.next = 1
      /\ r.manifest = m /\ r.stopped = <<>>
  BY <1>2, <1>3, <1>4 DEF Records, Steps, NoJob
<1>6. Starts(w, r)
  BY DEF r, RestoreBackup, RestoreBackupRecord
<1>7. Others(w) /\ Begun(w, r)
  BY <1>2, <1>5, <1>6, StartsIs
<1>8. JobInv(w)'
  <2>1. Len(Units') \in Nat /\ Len(<<>>) = 0 /\ DOMAIN <<>> = {} /\ <<>> \in Seq(Pairs)
    BY <1>2, UnitsAreTyped DEF Units
  <2>3. /\ job'[w].at = "claim" /\ job'[w].kind = "restore" /\ job'[w].stamp = s /\ job'[w].still
        /\ job'[w].plan = <<>> /\ job'[w].next = 1 /\ job'[w].manifest = m /\ job'[w].stopped = <<>>
    BY <1>5, <1>7 DEF Begun
  <2>4. IsPlanOf(job[w].manifest.plan, job[w].manifest.of)'
    BY <1>2, <1>3, <2>3 DEF IsPlanOf
  <2> QED
    BY <1>2, <1>3, <2>1, <2>3, <2>4 DEF JobInv
<1>9. WorkInv'
  BY <1>2, <1>5, <1>6, <1>8, StartsWorks
<1> QED
  BY <1>7, <1>9 DEF r

RestoreSystemRecord(s) ==
  [NoJob EXCEPT !.at = "stop", !.kind = "restore", !.stamp = s, !.still = TRUE, !.was = mounts,
     !.manifest = ManifestOf(s), !.plan = PairsByPath(ManifestOf(s), PlanBackup(BoxMounts, DOMAIN BoxMounts))]

LEMMA RestoreSystemWorks ==
  ASSUME WorkInv, NEW w \in Jobs, NEW s \in Stamps, RestoreSystemBackup(w, s)
  PROVE  /\ WorkInv' /\ Others(w) /\ Begun(w, RestoreSystemRecord(s))
         /\ \A i \in DOMAIN job'[w].plan : FromManifest(job'[w].plan[i], ManifestOf(s))
         /\ \A k \in DOMAIN ManifestOf(s).plan :
              \E i \in DOMAIN job'[w].plan : job'[w].plan[i].at = ManifestOf(s).plan[k].from
<1> DEFINE r == RestoreSystemRecord(s)
           m == ManifestOf(s)
           local == PlanBackup(BoxMounts, DOMAIN BoxMounts)
           plan == PairsByPath(m, local)
<1>2. /\ UNCHANGED <<subject, mounts, disk, up, claim, stamped, repository, purged, key, made, opening, cut>>
      /\ job[w].at = "idle" /\ subject = "box" /\ mounts = BoxMounts /\ mounts \in Lists /\ hits' \in Nat
      /\ NoJob \in Records /\ CopiesTypes
  BY StartsAreTyped DEF RestoreSystemBackup, remote, engine, WorkInv, CopiesTypes, BoxInv, Lists
<1>3. m \in Manifests /\ IsPlanOf(m.plan, m.of) /\ m.of = BoxMounts
  BY <1>2, ReadIsTyped DEF RestoreSystemBackup
<1>a. /\ local \in Seq(Operations)
      /\ \A k \in DOMAIN BoxMounts : \E n \in DOMAIN local : local[n].from = BoxMounts[k].at
  BY <1>2, PlansAreOfTheirList
<1> HIDE DEF m, local
<1>b. /\ plan \in Seq(Pairs) /\ \A i \in DOMAIN plan : FromManifest(plan[i], m)
      /\ \A i \in DOMAIN local : \A j \in DOMAIN m.plan : m.plan[j].from = local[i].from =>
           \E n \in DOMAIN plan : plan[n].at = local[i].from
  BY <1>3, <1>a, PathsArePaired
<1> HIDE DEF plan
<1>c. ASSUME NEW k \in DOMAIN m.plan PROVE \E i \in DOMAIN plan : plan[i].at = m.plan[k].from
  <2>1. PICK l \in DOMAIN BoxMounts : m.plan[k].from = BoxMounts[l].at
    BY <1>3 DEF IsPlanOf, IsOf
  <2>2. PICK i \in DOMAIN local : local[i].from = BoxMounts[l].at
    BY <1>a
  <2> QED
    BY <1>b, <2>1, <2>2
<1>4. r = [NoJob EXCEPT !.at = "stop", !.kind = "restore", !.stamp = s, !.still = TRUE, !.was = mounts,
             !.manifest = m, !.plan = plan]
  BY DEF RestoreSystemRecord, m, plan, local
<1> HIDE DEF r
<1>5. /\ r \in Records /\ r.at = "stop" /\ r.kind = "restore" /\ r.stamp = s /\ r.still /\ r.plan = plan /\ r.next = 1
      /\ r.manifest = m /\ r.stopped = <<>>
  BY <1>2, <1>3, <1>4, <1>b DEF Records, Steps, NoJob
<1>6. Starts(w, r)
  BY DEF r, RestoreSystemBackup, RestoreSystemRecord
<1>7. Others(w) /\ Begun(w, r)
  BY <1>2, <1>5, <1>6, StartsIs
<1>d. /\ job'[w].at = "stop" /\ job'[w].kind = "restore" /\ job'[w].stamp = s /\ job'[w].still
      /\ job'[w].plan = plan /\ job'[w].next = 1 /\ job'[w].manifest = m /\ job'[w].stopped = <<>>
  BY <1>5, <1>7 DEF Begun
<1>8. JobInv(w)'
  <2>1. Len(Units') \in Nat /\ Len(Units') > 0 /\ Len(<<>>) = 0 /\ DOMAIN <<>> = {}
    BY <1>2, UnitsAreTyped DEF Units
  <2>4. IsPlanOf(job[w].manifest.plan, job[w].manifest.of)'
    BY <1>2, <1>3, <1>d DEF IsPlanOf
  <2> QED
    BY <1>2, <1>3, <1>b, <1>d, <2>1, <2>4 DEF JobInv
<1>9. WorkInv'
  BY <1>2, <1>5, <1>6, <1>8, StartsWorks
<1> QED
  BY <1>7, <1>9, <1>b, <1>c, <1>d DEF r, m

LEMMA JobsStay ==
  ASSUME WorkInv, UNCHANGED <<subject, claim, job>>
  PROVE  \A w \in Jobs : JobInv(w)' /\ AloneInv(w)'
BY DEF WorkInv, JobInv, AloneInv, Units, IsPlanOf

LEMMA WritesWorks ==
  ASSUME WorkInv, NEW p \in Written, Writes(p)
  PROVE  WorkInv'
<1>1. UNCHANGED <<subject, mounts, up, claim, stamped, repository, purged, key, made, opening, job, cut, hits>>
  BY DEF Writes, remote, engine
<1>2. p \in Places
  BY CopiesAssumption
<1>3. disk' \in [Places -> Contents \cup {Absent}]
  BY <1>2 DEF Writes, WorkInv, CopiesTypes, Contents
<1>4. CopiesTypes'
  BY <1>1, <1>3 DEF WorkInv, CopiesTypes, Units
<1>5. EngineInv' /\ NamesInv' /\ BoxInv'
  BY <1>1, StoresKeep DEF WorkInv, BoxInv
<1> QED
  BY <1>1, <1>4, <1>5, JobsStay DEF WorkInv

LEMMA PurgeWorks ==
  ASSUME WorkInv, NEW s \in Stamps, Purge(s)
  PROVE  WorkInv'
<1>1. /\ UNCHANGED <<subject, mounts, disk, up, claim, key, made, opening, job, cut>>
      /\ purged' = purged \cup {s} /\ hits' \in Nat /\ CopiesTypes /\ EngineInv /\ NamesInv /\ BoxInv
  BY DEF Purge, engine, Hit, WorkInv, CopiesTypes
<1> DEFINE empty == [stamped[s] EXCEPT !.has = <<>>]
<1>2. Nothing \in Runs /\ empty \in Runs /\ Nothing.manifest = Absent /\ empty.manifest = stamped[s].manifest
  <2>1. stamped[s] \in Runs /\ Nothing.has \in Holdings /\ Nothing.has = <<>>
    BY <1>1, StartsAreTyped, RunsAreTyped DEF CopiesTypes, Nothing
  <2> QED
    BY <2>1, StartsAreTyped DEF Runs
<1>3. \/ repository' = [repository EXCEPT ![s] = Nothing] /\ stamped' = stamped
      \/ stamped' = [stamped EXCEPT ![s] = Nothing] /\ repository' = repository
      \/ stamped' = [stamped EXCEPT ![s] = empty] /\ repository' = repository
  BY DEF Purge
<1> HIDE DEF empty
<1>4. CopiesTypes'
  BY <1>1, <1>2, <1>3 DEF CopiesTypes, Units
<1>5. EngineInv'
  BY <1>1, <1>3 DEF EngineInv, CopiesTypes
<1>6. NamesInv'
  <2>1. ASSUME NEW t \in Stamps
        PROVE  stamped'[t].manifest \in {stamped[t].manifest, Absent} /\ repository'[t].manifest \in {repository[t].manifest, Absent}
    BY <1>1, <1>2, <1>3 DEF CopiesTypes
  <2> QED
    BY <1>1, <2>1 DEF NamesInv, Names, IsPlanOf
<1>7. BoxInv'
  BY <1>1 DEF BoxInv
<1> QED
  BY <1>1, <1>4, <1>5, <1>6, <1>7, JobsStay DEF WorkInv

LEMMA EditWorks ==
  ASSUME WorkInv, Edit
  PROVE  WorkInv'
<1>1. /\ UNCHANGED <<subject, up, claim, stamped, repository, purged, key, made, opening, job, cut>>
      /\ hits' \in Nat /\ subject = "app" /\ mounts' \in Lists /\ disk' = Made(mounts') /\ CopiesTypes
  BY DEF Edit, remote, engine, Hit, WorkInv, CopiesTypes, Lists
<1>2. CopiesTypes'
  BY <1>1, MadeIsTyped DEF CopiesTypes, Units
<1>3. EngineInv' /\ NamesInv' /\ BoxInv'
  BY <1>1, StoresKeep DEF WorkInv, BoxInv
<1> QED
  BY <1>1, <1>2, <1>3, JobsStay DEF WorkInv

LEMMA UninstallWorks ==
  ASSUME WorkInv, Uninstall
  PROVE  WorkInv'
<1>1. /\ UNCHANGED <<subject, claim, stamped, repository, purged, key, made, opening, job, cut>>
      /\ hits' \in Nat /\ subject = "app" /\ mounts' = Absent /\ up' = {} /\ disk' \in {disk, [p \in Places |-> Absent]}
  BY DEF Uninstall, remote, engine, Hit, WorkInv, CopiesTypes
<1>2. CopiesTypes'
  BY <1>1 DEF WorkInv, CopiesTypes, Units
<1>3. EngineInv' /\ NamesInv' /\ BoxInv'
  BY <1>1, StoresKeep DEF WorkInv, BoxInv
<1> QED
  BY <1>1, <1>2, <1>3, JobsStay DEF WorkInv

LEMMA EngineWorks ==
  ASSUME WorkInv, EnableStarts \/ EnableEnds \/ Disable \/ resume
  PROVE  WorkInv'
<1>1. UNCHANGED <<subject, mounts, disk, up, claim, stamped, repository, purged, job, cut>>
  BY DEF EnableStarts, EnableEnds, Disable, resume, remote
<1>2. key' \in {"none", "on", "off"} /\ made' \in BOOLEAN /\ opening' \in BOOLEAN /\ hits' \in Nat
  <2>1. key \in {"none", "on", "off"} /\ made \in BOOLEAN /\ opening \in BOOLEAN /\ hits \in Nat
    BY DEF WorkInv, CopiesTypes
  <2>2. CASE EnableStarts
    BY <2>1, <2>2 DEF EnableStarts, Hit
  <2>3. CASE EnableEnds
    <3>1. opening' \in BOOLEAN /\ made' \in BOOLEAN
      BY <2>1, <2>3, Zenon DEF EnableEnds
    <3>2. key' \in {key, "none"} /\ hits' \in {hits, hits + 1}
      BY <2>3 DEF EnableEnds, Hit
    <3> QED
      BY <2>1, <3>1, <3>2
  <2>4. CASE Disable
    BY <2>1, <2>4 DEF Disable, Hit
  <2>5. CASE resume
    BY <2>1, <2>5 DEF resume
  <2> QED
    BY <2>2, <2>3, <2>4, <2>5
<1>3. CopiesTypes'
  BY <1>1, <1>2 DEF WorkInv, CopiesTypes, Units
<1>4. EngineInv'
  BY <1>1 DEF EnableStarts, EnableEnds, Disable, resume, Enabled, WorkInv, EngineInv
<1>5. NamesInv' /\ BoxInv'
  BY <1>1 DEF WorkInv, NamesInv, Names, IsPlanOf, BoxInv
<1> QED
  BY <1>1, <1>3, <1>4, <1>5, JobsStay DEF WorkInv

LEMMA IdleIsRight ==
  ASSUME CopiesTypes, NEW w \in Jobs, job[w] = NoJob
  PROVE  JobInv(w) /\ AloneInv(w)
<1>1. Len(Units) \in Nat
  BY UnitsAreTyped
<1> QED
  BY <1>1 DEF JobInv, AloneInv, NoJob

LEMMA KilledWorks ==
  ASSUME WorkInv, KilledHere
  PROVE  WorkInv'
<1>1. /\ UNCHANGED <<subject, mounts, disk, stamped, repository, purged, key, made>>
      /\ job' = [w \in Jobs |-> NoJob] /\ claim' = Nobody /\ opening' = FALSE /\ hits' \in Nat /\ cut' \in BOOLEAN
      /\ up' \subseteq ToSet(Units)
  BY DEF KilledHere, remote, Hit, WorkInv, CopiesTypes
<1>2. CopiesTypes'
  BY <1>1, StartsAreTyped DEF WorkInv, CopiesTypes, Units
<1>3. EngineInv' /\ NamesInv' /\ BoxInv'
  BY <1>1 DEF WorkInv, EngineInv, NamesInv, Names, IsPlanOf, BoxInv
<1>4. ASSUME NEW w \in Jobs PROVE JobInv(w)' /\ AloneInv(w)'
  <2>1. Len(Units') \in Nat /\ job'[w] = NoJob
    BY <1>1, UnitsAreTyped DEF WorkInv, Units
  <2> QED
    BY <2>1 DEF JobInv, AloneInv, NoJob
<1> QED
  BY <1>2, <1>3, <1>4 DEF WorkInv

LEMMA WorkStarts ==
  ASSUME CopiesInit
  PROVE  WorkInv
<1>1. mounts \in Lists /\ BoxInv
  BY DEF CopiesInit, Lists, BoxInv
<1>2. disk \in [Places -> Contents \cup {Absent}]
  <2>1. PICK gone : disk = [p \in Places |-> IF p \in gone THEN Absent ELSE Copy(p)]
    BY DEF CopiesInit
  <2> QED
    BY <2>1, StartsAreTyped
<1>3. CopiesTypes
  BY <1>1, <1>2, StartsAreTyped, CopiesAssumption DEF CopiesTypes, CopiesInit
<1>4. \A s \in Stamps : stamped[s] = Nothing /\ repository[s] = Nothing
  BY DEF CopiesInit
<1>5. EngineInv /\ NamesInv
  BY <1>4, StartsAreTyped DEF CopiesInit, EngineInv, NamesInv, Names
<1>6. \A w \in Jobs : job[w] = NoJob
  BY DEF CopiesInit
<1> QED
  BY <1>1, <1>3, <1>5, <1>6, IdleIsRight DEF WorkInv

LEMMA WorkStutters ==
  ASSUME WorkInv, UNCHANGED copiesVars
  PROVE  WorkInv'
<1>1. UNCHANGED <<subject, mounts, disk, up, claim, stamped, repository, purged, key, made, opening, job, cut, hits>>
  BY DEF copiesVars
<1>2. CopiesTypes'
  BY <1>1 DEF WorkInv, CopiesTypes, Units
<1>3. EngineInv' /\ NamesInv' /\ BoxInv'
  BY <1>1, StoresKeep DEF WorkInv, BoxInv
<1> QED
  BY <1>1, <1>2, <1>3, JobsStay DEF WorkInv

LEMMA WorkStays ==
  ASSUME WorkInv, [CopiesNext]_copiesVars
  PROVE  WorkInv'
<1>1. ASSUME NEW w \in Jobs, Works(w) PROVE WorkInv'
  BY <1>1, BeginWaitingWorks, StopWorks, StopFailsWorks, ReleaseWorks, CopiesWorks, CopyFailsWorks, WriteManifestWorks,
     RestoreBackupWorks, InstallWorks, InstallFailsWorks, PlansInstalledWorks, PutsWorks, PutFailsWorks, AllPutWorks
     DEF Works
<1>2. ASSUME NEW w \in Jobs, NEW s \in Stamps, NEW still \in BOOLEAN,
             RunBackup(w, s, still) \/ RunSystemBackup(w, s, still) \/ RestoreSystemBackup(w, s)
      PROVE  WorkInv'
  BY <1>2, RunBackupWorks, RunSystemBackupWorks, RestoreSystemWorks
<1>3. ASSUME NEW w \in Jobs, NEW s \in Stamps, NEW only \in {{}} \cup {{d} : d \in InRun(s)}, RestoreBackup(w, s, only)
      PROVE  WorkInv'
  BY <1>3, RestoreStartsWorks
<1>4. CASE \E p \in Written : Writes(p)
  BY <1>4, WritesWorks
<1>5. CASE \E s \in Stamps : Purge(s)
  BY <1>5, PurgeWorks
<1>6. CASE Edit \/ Uninstall \/ KilledHere
  BY <1>6, EditWorks, UninstallWorks, KilledWorks
<1>7. CASE EnableStarts \/ EnableEnds \/ Disable \/ resume
  BY <1>7, EngineWorks
<1>8. CASE UNCHANGED copiesVars
  BY <1>8, WorkStutters
<1> QED
  BY <1>1, <1>2, <1>3, <1>4, <1>5, <1>6, <1>7, <1>8 DEF CopiesNext

(* Every place, copy, claim and job stays what it may be; nothing is in the  *)
(* repository before it is made; only one job at a time works on an app that *)
(* is held, and it stopped what comes first of its units; and a manifest is  *)
(* the plan of the app, or of the box, it names.                             *)
THEOREM JobsKeepToTheirSteps == CopiesSpec => []WorkInv
<1>1. CopiesInit => WorkInv
  BY WorkStarts
<1>2. WorkInv /\ [CopiesNext]_copiesVars => WorkInv'
  BY WorkStays
<1> QED
  BY <1>1, <1>2, PTL DEF CopiesSpec

-----------------------------------------------------------------------------
(* What a job stopped stays stopped while it holds it; what does not run is  *)
(* what some job will start again.                                           *)
Holds(w) == job[w].still /\ Undisturbed(w) /\ (job[w].at \in {"stop", "copy", "put"} \/ Len(job[w].stopped) = Len(Units))
QuietInv(w) == Holds(w) => \A i \in DOMAIN job[w].stopped : job[w].stopped[i] \notin up
StartInv ==
  mounts = Absent \/ cut \/ \A u \in ToSet(Units) : u \in up \/ \E w \in Jobs : u \in ToSet(job[w].stopped)

HoldInv == WorkInv /\ (\A w \in Jobs : QuietInv(w)) /\ StartInv

LEMMA OneHolds ==
  ASSUME WorkInv, NEW w \in Jobs, NEW v \in Jobs, v # w, Holds(w)
  PROVE  /\ job[w].at \in {"stop", "copy", "put", "release"}
         /\ subject = "app" => claim = w
         /\ subject = "box" => job[v].at = "idle"
         /\ job[v].stopped = <<>>
         /\ ~(job[v].still /\ job[v].at \notin {"idle", "claim"})
<1>1. JobInv(w) /\ JobInv(v) /\ AloneInv(w) /\ job[w].at \in Steps /\ subject \in {"app", "box"} /\ Len(Units) \in Nat \ {0}
  BY UnitsAreTyped DEF WorkInv, CopiesTypes, Records
<1>2. job[w].at \in {"stop", "copy", "put", "release"}
  <2>1. Len(<<>>) = 0
    OBVIOUS
  <2> QED
    BY <1>1, <2>1 DEF Holds, JobInv, Steps
<1>3. subject = "app" => claim = w
  BY <1>1, <1>2 DEF Holds, JobInv
<1>4. subject = "box" => job[v].at = "idle"
  BY <1>1, <1>2 DEF Holds, Undisturbed, AloneInv
<1>5. ~(job[v].still /\ job[v].at \notin {"idle", "claim"})
  BY <1>1, <1>3, <1>4 DEF JobInv
<1>6. job[v].stopped = <<>>
  BY <1>1, <1>5 DEF JobInv
<1> QED
  BY <1>2, <1>3, <1>4, <1>5, <1>6

LEMMA HoldsEnds ==
  ASSUME NEW v \in Jobs, Like(v), subject' = subject, Holds(v)'
  PROVE  Holds(v)
BY DEF Like, Holds, Undisturbed, Units

LEMMA QuietKeeps ==
  ASSUME NEW w \in Jobs, \A v \in Jobs : QuietInv(v), Others(w), subject' = subject,
         \A v \in Jobs \ {w} : Holds(v) => up' \subseteq up
  PROVE  \A v \in Jobs \ {w} : QuietInv(v)'
<1> SUFFICES ASSUME NEW v \in Jobs \ {w}, Holds(v)', NEW i \in DOMAIN job'[v].stopped
             PROVE  job'[v].stopped[i] \notin up'
  BY DEF QuietInv
<1>1. Like(v)
  BY DEF Others
<1>2. Holds(v)
  BY <1>1, HoldsEnds
<1>3. job'[v].stopped = job[v].stopped
  BY <1>1 DEF Like
<1> QED
  BY <1>2, <1>3 DEF QuietInv

LEMMA StartKeeps ==
  ASSUME NEW w \in Jobs, StartInv, Others(w), subject' = subject, mounts = Absent => mounts' = Absent, cut' = cut,
         \A u \in ToSet(Units) : u \in up \/ u \in ToSet(job[w].stopped) => u \in up' \/ u \in ToSet(job'[w].stopped) \/ mounts' = Absent,
         \A u \in ToSet(Units) : u \in up => u \in up' \/ u \in ToSet(job'[w].stopped) \/ mounts' = Absent
  PROVE  StartInv'
<1>1. Units' = Units
  BY DEF Units
<1> SUFFICES ASSUME mounts' # Absent, ~cut, NEW u \in ToSet(Units)
             PROVE  u \in up' \/ \E v \in Jobs : u \in ToSet(job'[v].stopped)
  BY <1>1 DEF StartInv
<1>2. u \in up \/ \E v \in Jobs : u \in ToSet(job[v].stopped)
  BY DEF StartInv
<1>3. ASSUME NEW v \in Jobs, u \in ToSet(job[v].stopped)
      PROVE  u \in up' \/ \E x \in Jobs : u \in ToSet(job'[x].stopped)
  <2>1. CASE v = w
    BY <1>3, <2>1
  <2>2. CASE v # w
    <3>1. job'[v].stopped = job[v].stopped
      BY <2>2 DEF Others, Like
    <3> QED
      BY <1>3, <3>1
  <2> QED
    BY <2>1, <2>2
<1> QED
  BY <1>2, <1>3

(* The steps that stop nothing, start nothing and go on, or give up.         *)
Calm(w) ==
  /\ Others(w) /\ UNCHANGED <<subject, mounts, up, cut>>
  /\ job'[w].still = job[w].still /\ job'[w].alone = job[w].alone /\ job'[w].stopped = job[w].stopped
  /\ job'[w].kind = job[w].kind /\ job'[w].stamp = job[w].stamp /\ job'[w].only = job[w].only
  /\ job'[w].manifest = job[w].manifest /\ job'[w].was = job[w].was
  /\ job[w].at \in {"stop", "copy", "put"} \/ job[w].stopped = <<>>
Quits(w) ==
  /\ Others(w) /\ UNCHANGED <<subject, mounts, up, cut>>
  /\ job[w].stopped = <<>> /\ job'[w] = NoJob

LEMMA EndsCalmly ==
  ASSUME WorkInv, NEW w \in Jobs, NEW good \in BOOLEAN, Ends(w, good), UNCHANGED <<subject, mounts, up, cut>>,
         job[w].at \in {"stop", "copy", "install", "put"}
  PROVE  Calm(w)
BY EndsIs, JobIsTyped DEF Calm, JobInv

LEMMA CalmSteps ==
  ASSUME WorkInv, NEW w \in Jobs,
         \/ beginWaiting(w) \/ StopFails(w) \/ Copies(w) \/ CopyFails(w) \/ writeManifest(w) \/ restoreBackup(w)
         \/ InstallFails(w) \/ PlansInstalled(w) \/ Puts(w) \/ PutFails(w) \/ AllPut(w)
  PROVE  Calm(w) \/ Quits(w)
<1>1. job \in [Jobs -> Records] /\ job[w] \in Records /\ JobInv(w)
  BY JobIsTyped
<1>2. UNCHANGED <<subject, mounts, up, cut>>
  BY DEF beginWaiting, StopFails, Copies, CopyFails, writeManifest, restoreBackup, InstallFails, PlansInstalled, Puts,
         PutFails, AllPut
<1>3. CASE StopFails(w) \/ CopyFails(w) \/ writeManifest(w) \/ InstallFails(w) \/ PutFails(w) \/ AllPut(w)
  <2>1. (Ends(w, FALSE) \/ Ends(w, TRUE)) /\ job[w].at \in {"stop", "copy", "install", "put"}
    BY <1>3 DEF StopFails, CopyFails, writeManifest, InstallFails, PutFails, AllPut
  <2> QED
    BY <1>2, <2>1, EndsCalmly
<1>4. CASE beginWaiting(w)
  <2>1. job[w].stopped = <<>>
    BY <1>1, <1>4 DEF beginWaiting, JobInv
  <2>2. CASE job' = [job EXCEPT ![w].at = "stop"]
    BY <1>1, <1>2, <2>1, <2>2 DEF Calm, Others, Like, Records
  <2>3. CASE job' = [job EXCEPT ![w] = NoJob]
    BY <1>1, <1>2, <2>1, <2>3 DEF Quits, Others, Like
  <2> QED
    BY <1>4, <2>2, <2>3 DEF beginWaiting, Goes
<1>5. CASE restoreBackup(w)
  <2>1. job[w].stopped = <<>>
    BY <1>1, <1>5 DEF restoreBackup, JobInv
  <2>2. CASE job' = [job EXCEPT ![w] = NoJob]
    BY <1>1, <1>2, <2>1, <2>2 DEF Quits, Others, Like
  <2>3. CASE job' = [job EXCEPT ![w].at = "install"]
    BY <1>1, <1>2, <2>1, <2>3 DEF Calm, Others, Like, Records
  <2>4. CASE \E known \in BOOLEAN :
               job' = [job EXCEPT ![w].at = "stop", ![w].plan = Planned(w, job[w].was, known), ![w].known = known]
    BY <1>1, <1>2, <2>1, <2>4 DEF Calm, Others, Like, Records
  <2> QED
    BY <1>5, <2>2, <2>3, <2>4 DEF restoreBackup, Goes
<1>6. CASE Copies(w)
  <2>1. job[w].at = "copy" /\ job' = [job EXCEPT ![w].next = job[w].next + 1]
    BY <1>6 DEF Copies
  <2> QED
    BY <1>1, <1>2, <2>1 DEF Calm, Others, Like, Records
<1>7. CASE Puts(w)
  <2>1. job[w].at = "put" /\ job' = [job EXCEPT ![w].next = @ + 1]
    BY <1>7 DEF Puts
  <2> QED
    BY <1>1, <1>2, <2>1 DEF Calm, Others, Like, Records
<1>8. CASE PlansInstalled(w)
  <2>1. job[w].stopped = <<>> /\ job' = [job EXCEPT ![w].at = "stop", ![w].plan = Planned(w, job[w].was, TRUE)]
    BY <1>1, <1>8 DEF PlansInstalled, JobInv
  <2> QED
    BY <1>1, <1>2, <2>1 DEF Calm, Others, Like, Records
<1> QED
  BY <1>3, <1>4, <1>5, <1>6, <1>7, <1>8

LEMMA CalmHolds ==
  ASSUME HoldInv, NEW w \in Jobs, Calm(w) \/ Quits(w), WorkInv'
  PROVE  HoldInv'
<1>1. Others(w) /\ UNCHANGED <<subject, mounts, up, cut>> /\ WorkInv /\ StartInv /\ QuietInv(w) /\ \A v \in Jobs : QuietInv(v)
  BY DEF Calm, Quits, HoldInv
<1>2. \A v \in Jobs \ {w} : QuietInv(v)'
  BY <1>1, QuietKeeps
<1>3. job'[w].stopped = job[w].stopped
  BY DEF Calm, Quits, NoJob
<1>4. StartInv'
  BY <1>1, <1>3, StartKeeps
<1>5. QuietInv(w)'
  <2>1. CASE job[w].stopped = <<>>
    BY <1>3, <2>1 DEF QuietInv
  <2>2. CASE job[w].stopped # <<>>
    <3>1. Calm(w) /\ job[w].at \in {"stop", "copy", "put"}
      BY <2>2 DEF Calm, Quits
    <3>2. Holds(w)' => Holds(w)
      BY <1>1, <3>1 DEF Holds, Undisturbed, Calm
    <3> QED
      BY <1>1, <1>3, <3>2 DEF QuietInv
  <2> QED
    BY <2>1, <2>2
<1> QED
  BY <1>2, <1>4, <1>5 DEF HoldInv

LEMMA StopHolds ==
  ASSUME HoldInv, NEW w \in Jobs, Stop(w), WorkInv'
  PROVE  HoldInv'
<1> DEFINE n == Len(job[w].stopped) + 1
           more == Append(job[w].stopped, Units[n])
<1>1. /\ job \in [Jobs -> Records] /\ job[w] \in Records /\ job[w].at = "stop" /\ WorkInv /\ StartInv
      /\ \A v \in Jobs : QuietInv(v)
      /\ UNCHANGED <<subject, mounts, cut>> /\ up' = up \ {Units[n]} /\ job[w].stopped \in Seq(UnitNames)
  BY JobIsTyped DEF HoldInv, Stop
<1>2. /\ DOMAIN more = 1 .. n /\ more[n] = Units[n] /\ n \in 1 .. n
      /\ \A i \in 1 .. n : i # n => i \in DOMAIN job[w].stopped /\ more[i] = job[w].stopped[i]
      /\ \A i \in DOMAIN job[w].stopped : i \in 1 .. n /\ more[i] = job[w].stopped[i]
  BY <1>1
<1>3. /\ Others(w) /\ job'[w].stopped = more /\ job'[w].still = job[w].still /\ job'[w].alone = job[w].alone
  <2>1. job' = [job EXCEPT ![w].stopped = Append(@, Units[n]),
                  ![w].at = IF n = Len(Units) THEN (IF job[w].kind = "backup" THEN "copy" ELSE "put") ELSE "stop",
                  ![w].before = IF n = Len(Units) /\ job[w].kind = "restore" THEN disk ELSE @]
    BY DEF Stop
  <2> HIDE DEF n
  <2> QED
    BY <1>1, <2>1 DEF Others, Like, Records
<1> HIDE DEF n, more
<1>4. \A v \in Jobs \ {w} : QuietInv(v)'
  BY <1>1, <1>3, QuietKeeps
<1>5. QuietInv(w)'
  <2>1. Holds(w)' => Holds(w)
    BY <1>1, <1>3 DEF Holds, Undisturbed
  <2>2. Holds(w) => \A i \in 1 .. n : more[i] \notin up'
    BY <1>1, <1>2 DEF QuietInv
  <2> QED
    BY <1>2, <1>3, <2>1, <2>2 DEF QuietInv
<1>6. StartInv'
  <2>1. \A u : u \in ToSet(job[w].stopped) => u \in ToSet(more)
    BY <1>2 DEF ToSet
  <2>2. Units[n] \in ToSet(more)
    BY <1>2 DEF ToSet
  <2> QED
    BY <1>1, <1>3, <2>1, <2>2, StartKeeps
<1> QED
  BY <1>4, <1>5, <1>6 DEF HoldInv

LEMMA ReleaseHolds ==
  ASSUME HoldInv, NEW w \in Jobs, Release(w), WorkInv'
  PROVE  HoldInv'
<1> DEFINE n == Len(job[w].stopped)
           less == SubSeq(job[w].stopped, 1, n - 1)
<1>1. /\ job \in [Jobs -> Records] /\ job[w] \in Records /\ JobInv(w) /\ job[w].at = "release" /\ WorkInv /\ StartInv
      /\ \A v \in Jobs : QuietInv(v)
      /\ UNCHANGED <<subject, mounts, cut>> /\ job[w].stopped \in Seq(UnitNames) /\ n \in Nat
  BY JobIsTyped DEF HoldInv, Release
<1>2. CASE n > 0
  <2>1. /\ up' = (IF mounts = Absent THEN up ELSE up \cup {job[w].stopped[n]})
        /\ job' = [job EXCEPT ![w].stopped = less]
    BY <1>2 DEF Release
  <2>2. /\ Len(less) = n - 1 /\ DOMAIN job[w].stopped = 1 .. n /\ DOMAIN less = 1 .. n - 1
        /\ \A i \in 1 .. n : i # n => i \in DOMAIN less /\ less[i] = job[w].stopped[i]
    BY <1>1, <1>2
  <2>3. Others(w) /\ job'[w].stopped = less /\ job'[w].at = "release"
    <3> HIDE DEF less
    <3> QED
      BY <1>1, <2>1 DEF Others, Like, Records
  <2>4. job[w].still /\ n - 1 < Len(Units) /\ Len(Units) \in Nat
    <3>1. job[w].stopped # <<>>
      BY <1>2
    <3>2. n <= Len(Units) /\ Len(Units) \in Nat
      BY <1>1, UnitsAreTyped DEF JobInv, WorkInv
    <3> QED
      BY <1>1, <3>1, <3>2 DEF JobInv, Records
  <2> HIDE DEF n, less
  <2>5. \A v \in Jobs \ {w} : QuietInv(v)'
    <3>1. \A v \in Jobs \ {w} : ~Holds(v)
      BY <1>1, <2>4, OneHolds
    <3> QED
      BY <1>1, <2>3, <3>1, QuietKeeps
  <2>6. QuietInv(w)'
    <3>1. ~Holds(w)'
      <4>1. Len(Units') = Len(Units)
        BY <1>1 DEF Units
      <4> QED
        BY <1>1, <2>2, <2>3, <2>4, <4>1 DEF Holds
    <3> QED
      BY <3>1 DEF QuietInv
  <2>7. StartInv'
    <3>1. \A u : u \in ToSet(job[w].stopped) => u \in ToSet(less) \/ u = job[w].stopped[n]
      BY <2>2 DEF ToSet
    <3> QED
      BY <1>1, <2>1, <2>3, <3>1, StartKeeps
  <2> QED
    BY <2>5, <2>6, <2>7 DEF HoldInv
<1>3. CASE ~(n > 0)
  <2>1. job' = [job EXCEPT ![w] = NoJob] /\ up' = up /\ job[w].stopped = <<>>
    BY <1>1, <1>3 DEF Release
  <2>2. Quits(w)
    BY <1>1, <2>1 DEF Quits, Others, Like
  <2> QED
    BY <2>2, CalmHolds
<1> QED
  BY <1>2, <1>3

LEMMA InstallHolds ==
  ASSUME HoldInv, NEW w \in Jobs, installFromBackup(w), WorkInv'
  PROVE  HoldInv'
<1>1. /\ job \in [Jobs -> Records] /\ job[w] \in Records /\ JobInv(w) /\ job[w].at = "install" /\ WorkInv
      /\ \A v \in Jobs : QuietInv(v)
      /\ UNCHANGED <<subject, cut>> /\ up' = ToSet(Units)
  BY JobIsTyped DEF HoldInv, installFromBackup
<1>2. job[w].stopped = <<>> /\ job[w].still
  BY <1>1 DEF JobInv, Records
<1>3. Others(w) /\ job'[w].stopped = <<>>
  <2>1. job' = [job EXCEPT ![w].at = "plan", ![w].was = mounts']
    BY DEF installFromBackup
  <2> QED
    BY <1>1, <1>2, <2>1 DEF Others, Like, Records
<1>4. \A v \in Jobs \ {w} : QuietInv(v)'
  <2>1. \A v \in Jobs \ {w} : ~Holds(v)
    BY <1>1, <1>2, OneHolds
  <2> QED
    BY <1>1, <1>3, <2>1, QuietKeeps
<1>5. QuietInv(w)'
  BY <1>3 DEF QuietInv
<1>6. StartInv'
  BY <1>1 DEF StartInv, Units
<1> QED
  BY <1>4, <1>5, <1>6 DEF HoldInv

LEMMA BegunHolds ==
  ASSUME HoldInv, NEW w \in Jobs, job[w].at = "idle", Others(w), UNCHANGED <<subject, mounts, up, cut>>,
         job'[w].stopped = <<>>, WorkInv'
  PROVE  HoldInv'
<1>1. job[w].stopped = <<>> /\ StartInv /\ \A v \in Jobs : QuietInv(v)
  BY JobIsTyped DEF HoldInv, JobInv
<1>2. \A v \in Jobs \ {w} : QuietInv(v)'
  BY <1>1, QuietKeeps
<1>3. QuietInv(w)'
  BY DEF QuietInv
<1>4. StartInv'
  BY <1>1, StartKeeps
<1> QED
  BY <1>2, <1>3, <1>4 DEF HoldInv

LEMMA OutsideHolds ==
  ASSUME HoldInv, UNCHANGED <<subject, job, cut>>, (up' = up /\ (mounts = Absent <=> mounts' = Absent)) \/ (up' = {} /\ mounts' = Absent),
         WorkInv'
  PROVE  HoldInv'
<1>1. \A v \in Jobs : Holds(v)' => Holds(v)
  BY DEF Holds, Undisturbed, Units
<1>2. \A v \in Jobs : QuietInv(v)'
  BY <1>1 DEF HoldInv, QuietInv
<1>3. StartInv'
  BY DEF HoldInv, StartInv, Units
<1> QED
  BY <1>2, <1>3 DEF HoldInv

LEMMA KilledHolds ==
  ASSUME HoldInv, KilledHere, WorkInv'
  PROVE  HoldInv'
<1>1. \A v \in Jobs : job'[v] = NoJob
  BY DEF KilledHere
<1>2. \A v \in Jobs : QuietInv(v)'
  BY <1>1 DEF QuietInv, NoJob
<1>3. StartInv'
  <2>1. subject' = subject /\ mounts' = mounts /\ up' = (IF subject = "app" /\ mounts # Absent THEN ToSet(Units) ELSE up)
        /\ cut' = (cut \/ (subject = "box" /\ up # ToSet(Units)))
    BY DEF KilledHere
  <2>2. subject \in {"app", "box"}
    BY DEF HoldInv, WorkInv, CopiesTypes
  <2> QED
    BY <2>1, <2>2 DEF StartInv, Units
<1> QED
  BY <1>2, <1>3 DEF HoldInv

LEMMA HoldStarts ==
  ASSUME CopiesInit
  PROVE  HoldInv
<1>1. WorkInv
  BY WorkStarts
<1>2. \A w \in Jobs : QuietInv(w)
  BY DEF CopiesInit, QuietInv, NoJob
<1>3. StartInv
  BY DEF CopiesInit, StartInv
<1> QED
  BY <1>1, <1>2, <1>3 DEF HoldInv

LEMMA HoldStays ==
  ASSUME HoldInv, [CopiesNext]_copiesVars
  PROVE  HoldInv'
<1>0. WorkInv /\ WorkInv'
  BY WorkStays DEF HoldInv
<1>1. ASSUME NEW w \in Jobs, Works(w) PROVE HoldInv'
  <2>1. CASE Stop(w)
    BY <1>0, <2>1, StopHolds
  <2>2. CASE Release(w)
    BY <1>0, <2>2, ReleaseHolds
  <2>3. CASE installFromBackup(w)
    BY <1>0, <2>3, InstallHolds
  <2>4. CASE ~(Stop(w) \/ Release(w) \/ installFromBackup(w))
    <3>1. Calm(w) \/ Quits(w)
      BY <1>0, <1>1, <2>4, CalmSteps DEF Works
    <3> QED
      BY <1>0, <3>1, CalmHolds
  <2> QED
    BY <2>1, <2>2, <2>3, <2>4
<1>2. ASSUME NEW w \in Jobs, NEW s \in Stamps, NEW still \in BOOLEAN, RunBackup(w, s, still)
      PROVE  HoldInv'
  <2>1. Others(w) /\ job'[w].stopped = <<>>
    <3>1. PICK known \in BOOLEAN : Others(w) /\ Begun(w, RunBackupRecord(s, still, known))
      BY <1>0, <1>2, RunBackupWorks
    <3> QED
      BY <3>1 DEF Begun, RunBackupRecord, NoJob
  <2> QED
    BY <1>0, <1>2, <2>1, BegunHolds DEF RunBackup
<1>3. ASSUME NEW w \in Jobs, NEW s \in Stamps, NEW still \in BOOLEAN, RunSystemBackup(w, s, still)
      PROVE  HoldInv'
  <2>1. Others(w) /\ job'[w].stopped = <<>>
    <3>1. Others(w) /\ Begun(w, RunSystemBackupRecord(s, still))
      BY <1>0, <1>3, RunSystemBackupWorks
    <3> QED
      BY <3>1 DEF Begun, RunSystemBackupRecord, NoJob
  <2> QED
    BY <1>0, <1>3, <2>1, BegunHolds DEF RunSystemBackup
<1>4. ASSUME NEW w \in Jobs, NEW s \in Stamps, RestoreSystemBackup(w, s)
      PROVE  HoldInv'
  <2>1. Others(w) /\ job'[w].stopped = <<>>
    <3>1. Others(w) /\ Begun(w, RestoreSystemRecord(s))
      BY <1>0, <1>4, RestoreSystemWorks
    <3> QED
      BY <3>1 DEF Begun, RestoreSystemRecord, NoJob
  <2> QED
    BY <1>0, <1>4, <2>1, BegunHolds DEF RestoreSystemBackup
<1>5. ASSUME NEW w \in Jobs, NEW s \in Stamps, NEW only \in {{}} \cup {{d} : d \in InRun(s)}, RestoreBackup(w, s, only)
      PROVE  HoldInv'
  <2>1. Others(w) /\ job'[w].stopped = <<>>
    <3>1. Others(w) /\ Begun(w, RestoreBackupRecord(s, only))
      BY <1>0, <1>5, RestoreStartsWorks
    <3> QED
      BY <3>1 DEF Begun, RestoreBackupRecord, NoJob
  <2> QED
    BY <1>0, <1>5, <2>1, BegunHolds DEF RestoreBackup
<1>6. CASE (\E p \in Written : Writes(p)) \/ (\E s \in Stamps : Purge(s))
  <2>1. UNCHANGED <<subject, job, cut, up, mounts>>
    BY <1>6 DEF Writes, Purge
  <2> QED
    BY <1>0, <2>1, OutsideHolds
<1>8. CASE Edit
  <2>1. mounts # Absent /\ mounts' # Absent /\ UNCHANGED <<subject, job, cut, up>>
    BY <1>8, CopiesAssumption DEF Edit
  <2> QED
    BY <1>0, <2>1, OutsideHolds
<1>9. CASE Uninstall
  BY <1>0, <1>9, OutsideHolds DEF Uninstall
<1>10. CASE EnableStarts \/ EnableEnds \/ Disable \/ resume
  <2>1. UNCHANGED <<subject, job, cut, up, mounts>>
    BY <1>10 DEF EnableStarts, EnableEnds, Disable, resume
  <2> QED
    BY <1>0, <2>1, OutsideHolds
<1>11. CASE KilledHere
  BY <1>0, <1>11, KilledHolds
<1>12. CASE UNCHANGED copiesVars
  <2>1. UNCHANGED <<subject, job, cut, up, mounts>>
    BY <1>12 DEF copiesVars
  <2> QED
    BY <1>0, <2>1, OutsideHolds
<1> QED
  BY <1>1, <1>2, <1>3, <1>4, <1>5, <1>6, <1>8, <1>9, <1>10, <1>11, <1>12 DEF CopiesNext

LEMMA HeldIsOff ==
  ASSUME HoldInv, NEW w \in Jobs, Holds(w), job[w].at \in {"copy", "put"} \/ Len(job[w].stopped) = Len(Units)
  PROVE  up = {}
<1>1. /\ JobInv(w) /\ QuietInv(w) /\ up \subseteq ToSet(Units) /\ DOMAIN Units = 1 .. Len(Units)
      /\ job[w].stopped \in Seq(UnitNames)
  BY JobIsTyped, UnitsAreTyped DEF HoldInv, WorkInv, CopiesTypes
<1>2. Len(job[w].stopped) = Len(Units)
  BY <1>1 DEF JobInv, Holds
<1>3. DOMAIN job[w].stopped = DOMAIN Units
  BY <1>1, <1>2
<1>4. \A i \in DOMAIN Units : Units[i] \notin up
  BY <1>1, <1>3 DEF QuietInv, JobInv
<1> QED
  BY <1>1, <1>4 DEF ToSet

LEMMA AllIdleIsStarted ==
  ASSUME HoldInv
  PROVE  StartedAgain
<1> SUFFICES ASSUME \A w \in Jobs : job[w].at = "idle", mounts # Absent, ~cut PROVE up = ToSet(Units)
  BY DEF StartedAgain
<1>1. \A w \in Jobs : job[w].stopped = <<>>
  BY DEF HoldInv, WorkInv, JobInv
<1>2. up \subseteq ToSet(Units)
  BY DEF HoldInv, WorkInv, CopiesTypes
<1>3. \A u \in ToSet(Units) : u \in up
  <2>1. ToSet(<<>>) = {}
    BY DEF ToSet
  <2> QED
    BY <1>1, <2>1 DEF HoldInv, StartInv
<1> QED
  BY <1>2, <1>3

-----------------------------------------------------------------------------
(* The run a backup makes is its own, holds what it has copied so far and,   *)
(* of what is held, as it is on the disk. It is named when it is whole.      *)
InEither(s) == DOMAIN stamped[s].has \cup DOMAIN repository[s].has
Unnamed(s) == stamped[s].manifest = Absent /\ repository[s].manifest = Absent
AsOnDisk(run, o) == o.to \in DOMAIN run.has => run.has[o.to] = disk[o.from]

OwnInv == \A w, v \in Jobs : w # v /\ job[w].kind = "backup" /\ job[v].kind = "backup" => job[w].stamp # job[v].stamp

CopyInv(w) ==
  LET s == job[w].stamp
      plan == job[w].plan
  IN
  job[w].kind = "backup" =>
    /\ job[w].next <= Len(plan) + 1
    /\ job[w].at \in {"claim", "stop"} => job[w].next <= 1
    /\ s \notin purged /\ job[w].at # "release" =>
         /\ Unnamed(s)
         /\ job[w].at # "copy" => InEither(s) = {}
         /\ job[w].at = "copy" => InEither(s) = {plan[i].to : i \in {j \in DOMAIN plan : j < job[w].next}}
         /\ job[w].at = "copy" /\ job[w].still /\ Undisturbed(w) =>
              \A i \in DOMAIN plan : i < job[w].next =>
                AsOnDisk(stamped[s], plan[i]) /\ AsOnDisk(repository[s], plan[i])

CopyAll == HoldInv /\ OwnInv /\ ManifestMeansWhole /\ \A w \in Jobs : CopyInv(w)

LEMMA OwnKeeps ==
  ASSUME OwnInv, \A v \in Jobs : job'[v].kind = "backup" => job[v].kind = "backup" /\ job'[v].stamp = job[v].stamp
  PROVE  OwnInv'
BY DEF OwnInv

LEMMA MeansKeeps ==
  ASSUME ManifestMeansWhole, purged \subseteq purged',
         \A s \in Stamps \ purged' : stamped'[s] = stamped[s] /\ repository'[s] = repository[s]
  PROVE  ManifestMeansWhole'
BY DEF ManifestMeansWhole

LEMMA CopyKeeps ==
  ASSUME NEW w \in Jobs, CopyInv(w), Like(w), subject' = subject, purged \subseteq purged',
         job[w].kind = "backup" /\ job[w].stamp \notin purged' =>
           stamped'[job[w].stamp] = stamped[job[w].stamp] /\ repository'[job[w].stamp] = repository[job[w].stamp],
         Holds(w) /\ job[w].at = "copy" => disk' = disk
  PROVE  CopyInv(w)'
<1> DEFINE s == job[w].stamp
           plan == job[w].plan
<1> SUFFICES ASSUME job[w].kind = "backup" PROVE CopyInv(w)'
  BY DEF Like, CopyInv
<1>1. /\ job'[w].next <= Len(job'[w].plan) + 1
      /\ job'[w].at \in {"claim", "stop"} => job'[w].next <= 1
  BY DEF CopyInv, Like
<1>2. ASSUME s \notin purged', job[w].at # "release"
      PROVE  /\ Unnamed(s)'
             /\ InEither(s)' = InEither(s)
             /\ job[w].at # "copy" => InEither(s) = {}
             /\ job[w].at = "copy" => InEither(s) = {plan[i].to : i \in {j \in DOMAIN plan : j < job[w].next}}
             /\ job[w].at = "copy" /\ job[w].still /\ Undisturbed(w)' =>
                  \A i \in DOMAIN plan : i < job[w].next =>
                    AsOnDisk(stamped[s], plan[i])' /\ AsOnDisk(repository[s], plan[i])'
  <2>1. s \notin purged /\ stamped'[s] = stamped[s] /\ repository'[s] = repository[s]
    BY <1>2
  <2>2. Unnamed(s)' /\ InEither(s)' = InEither(s)
    BY <1>2, <2>1 DEF Unnamed, InEither, CopyInv, Like
  <2>3. /\ job[w].at # "copy" => InEither(s) = {}
        /\ job[w].at = "copy" => InEither(s) = {plan[i].to : i \in {j \in DOMAIN plan : j < job[w].next}}
    BY <1>2, <2>1 DEF CopyInv
  <2>4. ASSUME job[w].at = "copy", job[w].still, Undisturbed(w)', NEW i \in DOMAIN plan, i < job[w].next
        PROVE  AsOnDisk(stamped[s], plan[i])' /\ AsOnDisk(repository[s], plan[i])'
    <3>1. Undisturbed(w) /\ Holds(w)
      BY <2>4 DEF Undisturbed, Holds, Like
    <3>2. disk' = disk
      BY <2>4, <3>1
    <3>3. AsOnDisk(stamped[s], plan[i]) /\ AsOnDisk(repository[s], plan[i])
      BY <1>2, <2>1, <2>4, <3>1 DEF CopyInv
    <3> QED
      BY <2>1, <3>2, <3>3 DEF AsOnDisk, Like
  <2> QED
    BY <2>2, <2>3, <2>4
<1> QED
  BY <1>1, <1>2 DEF CopyInv, Like

LEMMA CopyOthers ==
  ASSUME CopyAll, NEW u \in Jobs, Others(u), subject' = subject, purged \subseteq purged',
         \A s \in Stamps \ purged' : \/ stamped'[s] = stamped[s] /\ repository'[s] = repository[s]
                                     \/ job[u].kind = "backup" /\ s = job[u].stamp,
         disk' = disk \/ (job[u].still /\ job[u].at \notin {"idle", "claim"})
  PROVE  \A w \in Jobs \ {u} : CopyInv(w)'
<1> SUFFICES ASSUME NEW w \in Jobs \ {u} PROVE CopyInv(w)'
  OBVIOUS
<1>1. /\ WorkInv /\ JobInv(w) /\ CopyInv(w) /\ Like(w)
      /\ job[w].kind = "backup" /\ job[u].kind = "backup" => job[w].stamp # job[u].stamp
  BY DEF CopyAll, HoldInv, WorkInv, OwnInv, Others
<1>2. job[w].kind = "backup" /\ job[w].stamp \notin purged' =>
        stamped'[job[w].stamp] = stamped[job[w].stamp] /\ repository'[job[w].stamp] = repository[job[w].stamp]
  BY <1>1 DEF JobInv
<1>3. Holds(w) /\ job[w].at = "copy" => disk' = disk
  BY <1>1, OneHolds
<1> QED
  BY <1>1, <1>2, <1>3, CopyKeeps

(* Steps that write no copy.                                                 *)
LEMMA CopyUnwritten ==
  ASSUME CopyAll, NEW u \in Jobs, Others(u), UNCHANGED <<subject, stamped, repository, purged>>,
         disk' = disk \/ (job[u].still /\ job[u].at \notin {"idle", "claim"}),
         CopyInv(u)', HoldInv',
         job'[u].kind = "backup" => job[u].kind = "backup" /\ job'[u].stamp = job[u].stamp
  PROVE  CopyAll'
<1>1. \A w \in Jobs \ {u} : CopyInv(w)'
  BY CopyOthers
<1>2. ManifestMeansWhole'
  BY MeansKeeps DEF CopyAll
<1>3. OwnInv'
  BY OwnKeeps DEF CopyAll, Others, Like
<1> QED
  BY <1>1, <1>2, <1>3 DEF CopyAll

LEMMA NotOfBackup ==
  ASSUME NEW w \in Jobs, job'[w].kind # "backup"
  PROVE  CopyInv(w)'
BY DEF CopyInv

LEMMA RestoreKeepsCopies ==
  ASSUME CopyAll, NEW w \in Jobs, restoreBackup(w) \/ InstallFails(w) \/ PlansInstalled(w) \/ Puts(w) \/ PutFails(w) \/ AllPut(w),
         HoldInv'
  PROVE  CopyAll'
<1>1. WorkInv /\ JobInv(w) /\ job[w].at \in Steps
  BY JobIsTyped DEF CopyAll, HoldInv, Records
<1>2. job[w].kind # "backup"
  BY <1>1 DEF JobInv, restoreBackup, InstallFails, PlansInstalled, Puts, PutFails, AllPut
<1>3. UNCHANGED <<subject, stamped, repository, purged>>
  BY DEF restoreBackup, InstallFails, PlansInstalled, Puts, PutFails, AllPut, remote
<1>4. disk' = disk \/ (job[w].still /\ job[w].at \notin {"idle", "claim"})
  <2>1. CASE Puts(w) \/ PutFails(w)
    <3>1. job[w].at = "put"
      BY <2>1 DEF Puts, PutFails
    <3>2. job[w].kind \in {"none", "backup", "restore"}
      BY JobIsTyped, <1>1 DEF Records
    <3> QED
      BY <1>1, <1>2, <3>1, <3>2 DEF JobInv
  <2>2. CASE ~(Puts(w) \/ PutFails(w))
    BY <2>2 DEF restoreBackup, InstallFails, PlansInstalled, AllPut
  <2> QED
    BY <2>1, <2>2
<1>5. Calm(w) \/ Quits(w)
  BY <1>1, CalmSteps
<1>6. Others(w) /\ job'[w].kind # "backup"
  BY <1>2, <1>5 DEF Calm, Quits, NoJob
<1> QED
  BY <1>3, <1>4, <1>6, NotOfBackup, CopyUnwritten

LEMMA InstallKeepsCopies ==
  ASSUME CopyAll, NEW w \in Jobs, installFromBackup(w), HoldInv'
  PROVE  CopyAll'
<1>1. WorkInv /\ JobInv(w) /\ job \in [Jobs -> Records] /\ job[w] \in Records /\ job[w].at = "install"
  BY JobIsTyped DEF CopyAll, HoldInv, installFromBackup
<1>2. job[w].kind = "restore" /\ job[w].still
  BY <1>1 DEF JobInv, Records
<1>3. Others(w) /\ job'[w].kind = "restore"
  <2>1. job' = [job EXCEPT ![w].at = "plan", ![w].was = mounts']
    BY DEF installFromBackup
  <2> QED
    BY <1>1, <1>2, <2>1 DEF Others, Like, Records
<1>4. UNCHANGED <<subject, stamped, repository, purged>>
  BY DEF installFromBackup, remote
<1> QED
  BY <1>1, <1>2, <1>3, <1>4, NotOfBackup, CopyUnwritten

LEMMA WaitKeepsCopies ==
  ASSUME CopyAll, NEW w \in Jobs, beginWaiting(w), HoldInv'
  PROVE  CopyAll'
<1>1. WorkInv /\ job \in [Jobs -> Records] /\ job[w] \in Records /\ job[w].at = "claim" /\ CopyInv(w)
  BY JobIsTyped DEF CopyAll, HoldInv, beginWaiting
<1>2. UNCHANGED <<subject, disk, stamped, repository, purged>>
  BY DEF beginWaiting, remote
<1>3. CASE job' = [job EXCEPT ![w].at = "stop"]
  <2>1. /\ Others(w) /\ job'[w].at = "stop" /\ job'[w].kind = job[w].kind /\ job'[w].stamp = job[w].stamp
        /\ job'[w].plan = job[w].plan /\ job'[w].next = job[w].next
    BY <1>1, <1>3 DEF Others, Like, Records
  <2>2. CopyInv(w)'
    BY <1>1, <1>2, <2>1 DEF CopyInv, Unnamed, InEither
  <2> QED
    BY <1>2, <2>1, <2>2, CopyUnwritten
<1>4. CASE job' = [job EXCEPT ![w] = NoJob]
  <2>1. Others(w) /\ job'[w].kind # "backup"
    BY <1>1, <1>4 DEF Others, Like, NoJob
  <2> QED
    BY <1>2, <2>1, NotOfBackup, CopyUnwritten
<1> QED
  BY <1>3, <1>4 DEF beginWaiting, Goes

LEMMA FailKeepsCopies ==
  ASSUME CopyAll, NEW w \in Jobs, StopFails(w) \/ CopyFails(w), HoldInv'
  PROVE  CopyAll'
<1>1. WorkInv /\ CopyInv(w) /\ Ends(w, FALSE) /\ UNCHANGED <<subject, disk, stamped, repository, purged>>
  BY DEF CopyAll, HoldInv, StopFails, CopyFails, remote
<1>2. /\ Others(w) /\ job'[w].at = "release" /\ job'[w].kind = job[w].kind /\ job'[w].stamp = job[w].stamp
      /\ job'[w].plan = job[w].plan /\ job'[w].next = job[w].next
  BY <1>1, EndsIs
<1>3. CopyInv(w)'
  BY <1>1, <1>2 DEF CopyInv
<1> QED
  BY <1>1, <1>2, <1>3, CopyUnwritten

LEMMA StopKeepsCopies ==
  ASSUME CopyAll, NEW w \in Jobs, Stop(w), HoldInv'
  PROVE  CopyAll'
<1>1. /\ WorkInv /\ job \in [Jobs -> Records] /\ job[w] \in Records /\ JobInv(w) /\ job[w].at = "stop" /\ CopyInv(w)
      /\ job[w].next \in Nat
  BY JobIsTyped DEF CopyAll, HoldInv, Stop
<1>2. UNCHANGED <<subject, disk, stamped, repository, purged>>
  BY DEF Stop, remote
<1>3. /\ Others(w) /\ job'[w].at \in {"stop", "copy", "put"} /\ job'[w].kind = job[w].kind /\ job'[w].stamp = job[w].stamp
      /\ job'[w].plan = job[w].plan /\ job'[w].next = job[w].next
  <2> DEFINE n == Len(job[w].stopped) + 1
  <2>1. job' = [job EXCEPT ![w].stopped = Append(@, Units[n]),
                  ![w].at = IF n = Len(Units) THEN (IF job[w].kind = "backup" THEN "copy" ELSE "put") ELSE "stop",
                  ![w].before = IF n = Len(Units) /\ job[w].kind = "restore" THEN disk ELSE @]
    BY DEF Stop
  <2> HIDE DEF n
  <2> QED
    BY <1>1, <2>1 DEF Others, Like, Records
<1>4. CopyInv(w)'
  <2> SUFFICES ASSUME job[w].kind = "backup" PROVE CopyInv(w)'
    BY <1>3 DEF CopyInv
  <2>1. job[w].plan \in Seq(Operations) /\ DOMAIN job[w].plan = 1 .. Len(job[w].plan) /\ Len(job[w].plan) \in Nat
    BY <1>1 DEF JobInv
  <2>2. /\ job[w].next <= Len(job[w].plan) + 1 /\ job[w].next <= 1
        /\ job[w].stamp \notin purged => Unnamed(job[w].stamp) /\ InEither(job[w].stamp) = {}
    BY <1>1 DEF CopyInv
  <2>3. \A i \in DOMAIN job[w].plan : ~(i < job[w].next)
    BY <1>1, <2>1, <2>2
  <2>4. {job[w].plan[i].to : i \in {j \in DOMAIN job[w].plan : j < job[w].next}} = {}
    BY <2>3
  <2>5. Unnamed(job[w].stamp)' <=> Unnamed(job[w].stamp)
    BY <1>2, <1>3 DEF Unnamed
  <2>6. InEither(job[w].stamp)' = InEither(job[w].stamp)
    BY <1>2, <1>3 DEF InEither
  <2> QED
    BY <1>2, <1>3, <2>2, <2>3, <2>4, <2>5, <2>6 DEF CopyInv
<1> QED
  BY <1>2, <1>3, <1>4, CopyUnwritten

LEMMA ReleaseKeepsCopies ==
  ASSUME CopyAll, NEW w \in Jobs, Release(w), HoldInv'
  PROVE  CopyAll'
<1>1. WorkInv /\ job \in [Jobs -> Records] /\ job[w] \in Records /\ job[w].at = "release" /\ CopyInv(w)
  BY JobIsTyped DEF CopyAll, HoldInv, Release
<1>2. UNCHANGED <<subject, disk, stamped, repository, purged>>
  BY DEF Release, remote
<1>3. CASE job' = [job EXCEPT ![w].stopped = SubSeq(@, 1, Len(job[w].stopped) - 1)]
  <2>1. /\ Others(w) /\ job'[w].at = "release" /\ job'[w].kind = job[w].kind /\ job'[w].stamp = job[w].stamp
        /\ job'[w].plan = job[w].plan /\ job'[w].next = job[w].next
    BY <1>1, <1>3 DEF Others, Like, Records
  <2>2. CopyInv(w)'
    BY <1>1, <1>2, <2>1 DEF CopyInv
  <2> QED
    BY <1>2, <2>1, <2>2, CopyUnwritten
<1>4. CASE job' = [job EXCEPT ![w] = NoJob]
  <2>1. Others(w) /\ job'[w].kind # "backup"
    BY <1>1, <1>4 DEF Others, Like, NoJob
  <2> QED
    BY <1>2, <2>1, NotOfBackup, CopyUnwritten
<1> QED
  BY <1>3, <1>4 DEF Release

(* The copy itself.                                                          *)
LEMMA CopiesKeepCopies ==
  ASSUME CopyAll, NEW w \in Jobs, Copies(w), HoldInv'
  PROVE  CopyAll'
<1> DEFINE s == job[w].stamp
           n == job[w].next
           plan == job[w].plan
           o == plan[n]
<1>1. /\ WorkInv /\ CopiesTypes /\ job \in [Jobs -> Records] /\ job[w] \in Records /\ JobInv(w) /\ job[w].at = "copy" /\ CopyInv(w)
      /\ n \in Nat /\ n <= Len(plan)
  BY JobIsTyped DEF CopyAll, HoldInv, Copies, WorkInv
<1>2. /\ s \in Stamps /\ job[w].kind = "backup" /\ job'[w] = [job[w] EXCEPT !.next = @ + 1]
      /\ \A v \in Jobs \ {w} : job'[v] = job[v]
      /\ \A t \in Stamps \ {s} : stamped'[t] = stamped[t] /\ repository'[t] = repository[t]
      /\ stamped'[s].manifest = stamped[s].manifest /\ repository'[s].manifest = repository[s].manifest
      /\ n = 0 => stamped'[s].has = stamped[s].has /\ repository'[s].has = repository[s].has
      /\ n # 0 => /\ n \in DOMAIN plan /\ o \in Operations /\ disk[o.from] \in Contents
                  /\ \/ repository'[s].has = With(repository[s].has, o.to, disk[o.from]) /\ stamped' = stamped
                     \/ stamped'[s].has = With(stamped[s].has, o.to, disk[o.from]) /\ repository' = repository
  BY <1>1, CopiesWorks
<1>3. UNCHANGED <<subject, disk, purged>>
  BY DEF Copies
<1>4. /\ Others(w) /\ job'[w].at = "copy" /\ job'[w].kind = "backup" /\ job'[w].stamp = s /\ job'[w].plan = plan
      /\ job'[w].next = n + 1 /\ job'[w].still = job[w].still /\ job'[w].alone = job[w].alone
  BY <1>1, <1>2 DEF Others, Like, Records
<1>5. \A v \in Jobs \ {w} : CopyInv(v)'
  BY <1>2, <1>3, <1>4, CopyOthers
<1>6. OwnInv'
  BY <1>4, OwnKeeps, <1>2 DEF CopyAll
<1>7. plan \in Seq(Operations) /\ IsPlanOf(plan, job[w].was) /\ job[w].was \in Lists /\ n + 1 <= Len(plan) + 1
      /\ DOMAIN plan = 1 .. Len(plan) /\ Len(plan) \in Nat
  BY <1>1, <1>2 DEF JobInv
<1> HIDE DEF s, n, plan
<1>8. ManifestMeansWhole'
  <2> SUFFICES ASSUME NEW t \in Stamps \ purged', NEW run \in {stamped'[t], repository'[t]}, run.manifest # Absent,
                      NEW i \in DOMAIN run.manifest.plan
               PROVE  run.manifest.plan[i].to \in DOMAIN stamped'[t].has \cup DOMAIN repository'[t].has
    BY DEF ManifestMeansWhole
  <2>1. CASE t = s
    <3>1. Unnamed(s)
      BY <1>1, <1>2, <1>3, <2>1 DEF CopyInv, s
    <3> QED
      BY <1>2, <2>1, <3>1 DEF Unnamed
  <2>2. CASE t # s
    BY <1>2, <1>3, <2>2 DEF CopyAll, ManifestMeansWhole
  <2> QED
    BY <2>1, <2>2
<1>9. CopyInv(w)'
  <2>1. ASSUME s \notin purged
        PROVE  /\ Unnamed(s)'
               /\ InEither(s)' = {plan[i].to : i \in {j \in DOMAIN plan : j < n + 1}}
               /\ job[w].still /\ Undisturbed(w) =>
                    \A i \in DOMAIN plan : i < n + 1 =>
                      AsOnDisk(stamped[s], plan[i])' /\ AsOnDisk(repository[s], plan[i])'
    <3>1. /\ Unnamed(s) /\ InEither(s) = {plan[i].to : i \in {j \in DOMAIN plan : j < n}}
          /\ job[w].still /\ Undisturbed(w) =>
               \A i \in DOMAIN plan : i < n => AsOnDisk(stamped[s], plan[i]) /\ AsOnDisk(repository[s], plan[i])
      BY <1>1, <1>2, <2>1 DEF CopyInv, s, n, plan
    <3>2. Unnamed(s)'
      BY <1>2, <1>4, <3>1 DEF Unnamed, s
    <3>3. CASE n = 0
      <4>1. \A i \in DOMAIN plan : ~(i < n + 1) /\ ~(i < n)
        BY <1>7, <3>3
      <4>2. InEither(s)' = {}
        BY <1>2, <1>4, <3>1, <3>3, <4>1 DEF InEither, s
      <4> QED
        BY <3>2, <4>1, <4>2
    <3>4. CASE n # 0
      <4>1. \A i \in DOMAIN plan : i < n + 1 <=> (i < n \/ i = n)
        BY <1>1, <1>7
      <4>2. n \in DOMAIN plan /\ o.to \in Dests
        BY <1>2, <3>4 DEF Operations
      <4>3. /\ repository[s].has \in Holdings /\ stamped[s].has \in Holdings
        BY <1>1, <1>2, RunsAreTyped DEF CopiesTypes
      <4>4. PICK old \in Holdings, other \in Holdings :
              LET new == With(old, o.to, disk[o.from]) IN
              \/ repository[s].has = old /\ repository'[s].has = new /\ stamped[s].has = other /\ stamped'[s].has = other
              \/ stamped[s].has = old /\ stamped'[s].has = new /\ repository[s].has = other /\ repository'[s].has = other
        BY <1>2, <3>4, <4>3
      <4> DEFINE new == With(old, o.to, disk[o.from])
      <4>9. \/ repository[s].has = old /\ repository'[s].has = new /\ stamped[s].has = other /\ stamped'[s].has = other
            \/ stamped[s].has = old /\ stamped'[s].has = new /\ repository[s].has = other /\ repository'[s].has = other
        BY <4>4
      <4> HIDE DEF new
      <4>5. /\ DOMAIN new = DOMAIN old \cup {o.to} /\ new[o.to] = disk[o.from]
            /\ \A e \in DOMAIN old : e # o.to => new[e] = old[e]
        <5>1. disk[o.from] \in Contents
          BY <1>2, <3>4
        <5> DEFINE x == disk[o.from]
                   d == o.to
        <5>2. new = With(old, d, x) /\ x \in Contents /\ d \in Dests /\ old \in Holdings
          BY <4>2, <5>1 DEF new
        <5> HIDE DEF x, d
        <5>3. /\ DOMAIN new = DOMAIN old \cup {d} /\ new[d] = x
              /\ \A e \in DOMAIN old : e # d => new[e] = old[e]
          BY <5>2, WithIsTyped
        <5> QED
          BY <5>3 DEF x, d
      <4>6. InEither(s) = DOMAIN old \cup DOMAIN other /\ InEither(s)' = DOMAIN new \cup DOMAIN other
        BY <1>4, <4>9 DEF InEither, s
      <4>7. InEither(s)' = {plan[i].to : i \in {j \in DOMAIN plan : j < n + 1}}
        BY <3>1, <4>1, <4>2, <4>5, <4>6
      <4>8. ASSUME job[w].still, Undisturbed(w), NEW i \in DOMAIN plan, i < n + 1
            PROVE  AsOnDisk(stamped[s], plan[i])' /\ AsOnDisk(repository[s], plan[i])'
        <5>1. \A j, k \in DOMAIN plan : plan[j].to = plan[k].to => plan[j].from = plan[k].from
          BY <1>1, <1>7, OnePlaceOfEach
        <5>2. \A j \in DOMAIN plan : j < n => /\ plan[j].to \in DOMAIN old => old[plan[j].to] = disk[plan[j].from]
                                              /\ plan[j].to \in DOMAIN other => other[plan[j].to] = disk[plan[j].from]
          BY <3>1, <4>9, <4>8 DEF AsOnDisk
        <5>3. plan[i].to \in DOMAIN new => new[plan[i].to] = disk[plan[i].from]
          BY <4>1, <4>2, <4>5, <4>8, <5>1, <5>2
        <5>4. plan[i].to \in DOMAIN other => other[plan[i].to] = disk[plan[i].from]
          <6>1. CASE i < n
            BY <5>2, <6>1
          <6>2. CASE i = n
            <7>1. ASSUME o.to \in DOMAIN other PROVE other[o.to] = disk[o.from]
              <8>1. PICK j \in DOMAIN plan : j < n /\ plan[j].to = o.to
                BY <3>1, <4>6, <7>1
              <8> QED
                BY <4>2, <5>1, <5>2, <7>1, <8>1
            <7> QED
              BY <6>2, <7>1
          <6> QED
            BY <4>1, <4>8, <6>1, <6>2
        <5> QED
          BY <1>3, <1>4, <4>9, <5>3, <5>4 DEF AsOnDisk, s, plan
      <4> QED
        BY <3>2, <4>7, <4>8
    <3> QED
      BY <3>3, <3>4
  <2>2. Undisturbed(w)' <=> Undisturbed(w)
    BY <1>3, <1>4 DEF Undisturbed
  <2> QED
    BY <1>3, <1>4, <1>7, <2>1, <2>2 DEF CopyInv, s, n, plan
<1> QED
  BY <1>5, <1>6, <1>8, <1>9 DEF CopyAll

LEMMA WriteManifestKeepsCopies ==
  ASSUME CopyAll, NEW w \in Jobs, writeManifest(w), HoldInv'
  PROVE  CopyAll'
<1> DEFINE s == job[w].stamp
           plan == job[w].plan
           m == [plan |-> plan, of |-> job[w].was]
<1>1. /\ WorkInv /\ job \in [Jobs -> Records] /\ job[w] \in Records /\ JobInv(w) /\ job[w].at = "copy" /\ CopyInv(w)
      /\ job[w].next > Len(plan) /\ job[w].next \in Nat
  BY JobIsTyped DEF CopyAll, HoldInv, writeManifest
<1>2. /\ s \in Stamps /\ job[w].kind = "backup"
      /\ job'[w] = [job[w] EXCEPT !.at = "release", !.ok = TRUE] /\ \A v \in Jobs \ {w} : job'[v] = job[v]
      /\ \A t \in Stamps \ {s} : stamped'[t] = stamped[t] /\ repository'[t] = repository[t]
      /\ stamped'[s].has = stamped[s].has /\ repository'[s].has = repository[s].has
      /\ stamped'[s].manifest \in {stamped[s].manifest, m} /\ repository'[s].manifest \in {repository[s].manifest, m}
  BY <1>1, WriteManifestWorks
<1>3. UNCHANGED <<subject, disk, purged>>
  BY DEF writeManifest
<1>4. /\ Others(w) /\ job'[w].at = "release" /\ job'[w].kind = "backup" /\ job'[w].stamp = s /\ job'[w].plan = plan
      /\ job'[w].next = job[w].next
  BY <1>1, <1>2 DEF Others, Like, Records
<1>5. \A v \in Jobs \ {w} : CopyInv(v)'
  BY <1>2, <1>3, <1>4, CopyOthers
<1>6. OwnInv'
  BY <1>2, <1>4, OwnKeeps DEF CopyAll
<1>7. CopyInv(w)'
  BY <1>1, <1>2, <1>4 DEF CopyInv
<1>8. plan \in Seq(Operations) /\ DOMAIN plan = 1 .. Len(plan) /\ Len(plan) \in Nat
  BY <1>1, <1>2 DEF JobInv
<1>9. m.plan = plan
  OBVIOUS
<1> HIDE DEF s, plan, m
<1>10. ManifestMeansWhole'
  <2> SUFFICES ASSUME NEW t \in Stamps \ purged', NEW run \in {stamped'[t], repository'[t]}, run.manifest # Absent,
                      NEW i \in DOMAIN run.manifest.plan
               PROVE  run.manifest.plan[i].to \in DOMAIN stamped'[t].has \cup DOMAIN repository'[t].has
    BY DEF ManifestMeansWhole
  <2>1. CASE t = s
    <3>1. Unnamed(s) /\ InEither(s) = {plan[j].to : j \in {k \in DOMAIN plan : k < job[w].next}}
      BY <1>1, <1>2, <1>3, <2>1 DEF CopyInv, s, plan
    <3>2. run.manifest = m
      BY <1>2, <2>1, <3>1 DEF Unnamed
    <3>3. i \in DOMAIN plan /\ i < job[w].next
      BY <1>1, <1>8, <1>9, <3>2
    <3>4. plan[i].to \in InEither(s)
      BY <3>1, <3>3
    <3> QED
      BY <1>2, <1>9, <2>1, <3>2, <3>4 DEF InEither
  <2>2. CASE t # s
    BY <1>2, <1>3, <2>2 DEF CopyAll, ManifestMeansWhole
  <2> QED
    BY <2>1, <2>2
<1> QED
  BY <1>5, <1>6, <1>7, <1>10 DEF CopyAll

(* A backup begins with a run nobody has, a restore with none of its own.    *)
LEMMA BackupBeginsFresh ==
  ASSUME CopyAll, NEW w \in Jobs, NEW s \in Stamps, Fresh(s), Others(w), UNCHANGED <<subject, disk, stamped, repository, purged>>,
         job[w].at = "idle",
         job'[w].kind = "backup", job'[w].stamp = s, job'[w].plan \in Seq(Operations), job'[w].next \in {0, 1}, HoldInv'
  PROVE  CopyAll'
<1>1. \A v \in Jobs \ {w} : CopyInv(v)'
  BY CopyOthers
<1>2. ManifestMeansWhole'
  BY MeansKeeps DEF CopyAll
<1>3. OwnInv'
  BY DEF CopyAll, OwnInv, Others, Like, Fresh
<1>4. CopyInv(w)'
  <2>1. DOMAIN job'[w].plan = 1 .. Len(job'[w].plan) /\ Len(job'[w].plan) \in Nat
    OBVIOUS
  <2>2. \A i \in DOMAIN job'[w].plan : ~(i < job'[w].next)
    BY <2>1
  <2>3. {job'[w].plan[i].to : i \in {j \in DOMAIN job'[w].plan : j < job'[w].next}} = {}
    BY <2>2
  <2>4. Unnamed(job[w].stamp)' /\ InEither(job[w].stamp)' = {}
    BY StartsAreTyped DEF Unnamed, InEither, Fresh
  <2>5. job'[w].next <= 1 /\ job'[w].next <= Len(job'[w].plan) + 1
    BY <2>1
  <2> QED
    BY <2>2, <2>3, <2>4, <2>5 DEF CopyInv
<1> QED
  BY <1>1, <1>2, <1>3, <1>4 DEF CopyAll

LEMMA StartsKeepCopies ==
  ASSUME CopyAll, NEW w \in Jobs, NEW s \in Stamps, HoldInv',
         \/ \E still \in BOOLEAN : RunBackup(w, s, still) \/ RunSystemBackup(w, s, still)
         \/ RestoreSystemBackup(w, s)
         \/ \E only \in {{}} \cup {{d} : d \in InRun(s)} : RestoreBackup(w, s, only)
  PROVE  CopyAll'
<1>0. WorkInv /\ (\A v \in Jobs : JobInv(v)')
  BY DEF CopyAll, HoldInv, WorkInv
<1>1. ASSUME NEW still \in BOOLEAN, RunBackup(w, s, still) PROVE CopyAll'
  <2>1. PICK known \in BOOLEAN : Others(w) /\ Begun(w, RunBackupRecord(s, still, known))
    BY <1>0, <1>1, RunBackupWorks
  <2>2. job'[w].kind = "backup" /\ job'[w].stamp = s /\ job'[w].next = 0
    BY <2>1 DEF Begun, RunBackupRecord, NoJob
  <2>3. job'[w].plan \in Seq(Operations)
    BY <1>0, <2>2 DEF JobInv
  <2>4. Fresh(s) /\ UNCHANGED <<subject, disk, stamped, repository, purged>> /\ job[w].at = "idle"
    BY <1>1 DEF RunBackup, remote
  <2> QED
    BY <2>1, <2>2, <2>3, <2>4, BackupBeginsFresh
<1>2. ASSUME NEW still \in BOOLEAN, RunSystemBackup(w, s, still) PROVE CopyAll'
  <2>1. Others(w) /\ Begun(w, RunSystemBackupRecord(s, still))
    BY <1>0, <1>2, RunSystemBackupWorks
  <2>2. job'[w].kind = "backup" /\ job'[w].stamp = s /\ job'[w].next = 1
    BY <2>1 DEF Begun, RunSystemBackupRecord, NoJob
  <2>3. job'[w].plan \in Seq(Operations)
    BY <1>0, <2>2 DEF JobInv
  <2>4. Fresh(s) /\ UNCHANGED <<subject, disk, stamped, repository, purged>> /\ job[w].at = "idle"
    BY <1>2 DEF RunSystemBackup, remote
  <2> QED
    BY <2>1, <2>2, <2>3, <2>4, BackupBeginsFresh
<1>3. CASE RestoreSystemBackup(w, s)
  <2>1. Others(w) /\ Begun(w, RestoreSystemRecord(s))
    BY <1>0, <1>3, RestoreSystemWorks
  <2>2. job'[w].kind = "restore"
    BY <2>1 DEF Begun, RestoreSystemRecord, NoJob
  <2>3. UNCHANGED <<subject, disk, stamped, repository, purged>>
    BY <1>3 DEF RestoreSystemBackup, remote
  <2> QED
    BY <2>1, <2>2, <2>3, NotOfBackup, CopyUnwritten
<1>4. ASSUME NEW only \in {{}} \cup {{d} : d \in InRun(s)}, RestoreBackup(w, s, only) PROVE CopyAll'
  <2>1. Others(w) /\ Begun(w, RestoreBackupRecord(s, only))
    BY <1>0, <1>4, RestoreStartsWorks
  <2>2. job'[w].kind = "restore"
    BY <2>1 DEF Begun, RestoreBackupRecord, NoJob
  <2>3. UNCHANGED <<subject, disk, stamped, repository, purged>>
    BY <1>4 DEF RestoreBackup, remote
  <2> QED
    BY <2>1, <2>2, <2>3, NotOfBackup, CopyUnwritten
<1> QED
  BY <1>1, <1>2, <1>3, <1>4

(* What nobody's job does: it writes nothing where one is held still.        *)
LEMMA OutsideIsHeldOff ==
  ASSUME HoldInv, NEW w \in Jobs, Holds(w), job[w].at \in {"copy", "put"} \/ Len(job[w].stopped) = Len(Units)
  PROVE  /\ \A p : ~Writes(p)
         /\ ~Edit /\ ~Uninstall
<1>1. up = {}
  BY HeldIsOff
<1>2. subject = "app" => claim = w
  <2>1. JobInv(w) /\ Len(Units) \in Nat \ {0} /\ job[w].still
    BY UnitsAreTyped DEF HoldInv, WorkInv, Holds
  <2>2. Len(<<>>) = 0
    OBVIOUS
  <2> QED
    BY <2>1, <2>2 DEF JobInv
<1> QED
  BY <1>1, <1>2, CopiesAssumption DEF Writes, Edit, Uninstall

LEMMA OutsideKeepsCopies ==
  ASSUME CopyAll, HoldInv', UNCHANGED <<subject, job>>, purged \subseteq purged',
         \A s \in Stamps \ purged' : stamped'[s] = stamped[s] /\ repository'[s] = repository[s],
         disk' = disk \/ (\E p : Writes(p)) \/ Edit \/ Uninstall
  PROVE  CopyAll'
<1>1. ASSUME NEW w \in Jobs PROVE CopyInv(w)'
  <2>1. CopyInv(w) /\ JobInv(w) /\ Like(w) /\ HoldInv
    BY DEF CopyAll, HoldInv, WorkInv, Like
  <2>2. job[w].kind = "backup" /\ job[w].stamp \notin purged' =>
          stamped'[job[w].stamp] = stamped[job[w].stamp] /\ repository'[job[w].stamp] = repository[job[w].stamp]
    BY <2>1 DEF JobInv
  <2>3. Holds(w) /\ job[w].at = "copy" => disk' = disk
    BY <2>1, OutsideIsHeldOff
  <2> QED
    BY <2>1, <2>2, <2>3, CopyKeeps
<1>2. ManifestMeansWhole'
  BY MeansKeeps DEF CopyAll
<1>3. OwnInv'
  BY OwnKeeps DEF CopyAll
<1> QED
  BY <1>1, <1>2, <1>3 DEF CopyAll

LEMMA KilledKeepsCopies ==
  ASSUME CopyAll, KilledHere, HoldInv'
  PROVE  CopyAll'
<1>1. \A w \in Jobs : job'[w].kind # "backup"
  BY DEF KilledHere, NoJob
<1>2. \A w \in Jobs : CopyInv(w)'
  BY <1>1, NotOfBackup
<1>3. OwnInv'
  BY <1>1, OwnKeeps DEF CopyAll
<1>4. ManifestMeansWhole'
  BY MeansKeeps DEF CopyAll, KilledHere, remote
<1> QED
  BY <1>2, <1>3, <1>4 DEF CopyAll

LEMMA CopiesStart ==
  ASSUME CopiesInit
  PROVE  CopyAll
<1>1. HoldInv
  BY HoldStarts
<1>2. \A w \in Jobs : job[w].kind = "none"
  BY DEF CopiesInit, NoJob
<1>3. OwnInv /\ \A w \in Jobs : CopyInv(w)
  BY <1>2 DEF OwnInv, CopyInv
<1>4. ManifestMeansWhole
  <2>1. \A s \in Stamps : stamped[s].manifest = Absent /\ repository[s].manifest = Absent
    BY DEF CopiesInit, Nothing
  <2> QED
    BY <2>1 DEF ManifestMeansWhole
<1> QED
  BY <1>1, <1>3, <1>4 DEF CopyAll

LEMMA CopiesStay ==
  ASSUME CopyAll, [CopiesNext]_copiesVars
  PROVE  CopyAll'
<1>0. HoldInv'
  BY HoldStays DEF CopyAll
<1>1. ASSUME NEW w \in Jobs, Works(w) PROVE CopyAll'
  BY <1>0, <1>1, WaitKeepsCopies, StopKeepsCopies, FailKeepsCopies, ReleaseKeepsCopies, CopiesKeepCopies,
     WriteManifestKeepsCopies, RestoreKeepsCopies, InstallKeepsCopies DEF Works
<1>2. ASSUME NEW w \in Jobs, NEW s \in Stamps,
             \/ \E still \in BOOLEAN : RunBackup(w, s, still) \/ RunSystemBackup(w, s, still)
             \/ RestoreSystemBackup(w, s)
             \/ \E only \in {{}} \cup {{d} : d \in InRun(s)} : RestoreBackup(w, s, only)
      PROVE  CopyAll'
  BY <1>0, <1>2, StartsKeepCopies
<1>3. CASE \E p \in Written : Writes(p)
  <2>1. UNCHANGED <<subject, job, purged, stamped, repository>> /\ \E p : Writes(p)
    BY <1>3 DEF Writes, remote
  <2> QED
    BY <1>0, <2>1, OutsideKeepsCopies
<1>4. ASSUME NEW s \in Stamps, Purge(s) PROVE CopyAll'
  <2>1. /\ UNCHANGED <<subject, job, disk>> /\ purged \subseteq purged'
        /\ \A t \in Stamps \ purged' : stamped'[t] = stamped[t] /\ repository'[t] = repository[t]
    <3>1. stamped \in [Stamps -> Runs] /\ repository \in [Stamps -> Runs]
      BY DEF CopyAll, HoldInv, WorkInv, CopiesTypes
    <3> QED
      BY <1>4, <3>1 DEF Purge
  <2> QED
    BY <1>0, <2>1, OutsideKeepsCopies
<1>5. CASE Edit \/ Uninstall
  <2>1. UNCHANGED <<subject, job, purged, stamped, repository>>
    BY <1>5 DEF Edit, Uninstall, remote
  <2> QED
    BY <1>0, <1>5, <2>1, OutsideKeepsCopies
<1>6. CASE EnableStarts \/ EnableEnds \/ Disable \/ resume \/ UNCHANGED copiesVars
  <2>1. UNCHANGED <<subject, job, disk, purged, stamped, repository>>
    BY <1>6 DEF EnableStarts, EnableEnds, Disable, resume, copiesVars, remote
  <2> QED
    BY <1>0, <2>1, OutsideKeepsCopies
<1>7. CASE KilledHere
  BY <1>0, <1>7, KilledKeepsCopies
<1> QED
  BY <1>1, <1>2, <1>3, <1>4, <1>5, <1>6, <1>7 DEF CopiesNext

LEMMA CopiesAreExact ==
  ASSUME CopyAll
  PROVE  HeldCopyIsOfOneMoment
<1> SUFFICES ASSUME NEW w \in Jobs, job[w].kind = "backup", job[w].still, job[w].at = "copy", Undisturbed(w),
                    job[w].stamp \notin purged, NEW i \in 1 .. (job[w].next - 1),
                    job[w].plan[i].to \in InRun(job[w].stamp)
             PROVE  Fetch(job[w].stamp, job[w].plan[i].to) = disk[job[w].plan[i].from]
  BY DEF HeldCopyIsOfOneMoment
<1>1. JobInv(w) /\ CopyInv(w) /\ job[w].next \in Nat
  BY JobIsTyped DEF CopyAll, HoldInv
<1>2. job[w].plan \in Seq(Operations) /\ job[w].next <= Len(job[w].plan) + 1
  BY <1>1 DEF JobInv, CopyInv
<1>3. i \in DOMAIN job[w].plan /\ i < job[w].next
  BY <1>1, <1>2
<1>4. AsOnDisk(stamped[job[w].stamp], job[w].plan[i]) /\ AsOnDisk(repository[job[w].stamp], job[w].plan[i])
  BY <1>1, <1>3 DEF CopyInv
<1> QED
  BY <1>4 DEF AsOnDisk, InRun, Fetch

(* A run that has a manifest holds everything the manifest names, however    *)
(* often the engine was switched while it was made: beginRun, copyPlan and   *)
(* writeManifest keep their order for any number of jobs and runs.           *)
THEOREM WhatIsNamedIsThere == CopiesSpec => []ManifestMeansWhole
<1>1. CopiesInit => CopyAll
  BY CopiesStart
<1>2. CopyAll /\ [CopiesNext]_copiesVars => CopyAll'
  BY CopiesStay
<1>3. CopyAll => ManifestMeansWhole
  BY DEF CopyAll
<1> QED
  BY <1>1, <1>2, <1>3, PTL DEF CopiesSpec

(* The hold and its end: what was copied still is what is there while it is  *)
(* held, and what any job stopped runs again once the last of them ended.    *)
THEOREM HoldsAndLetsGo == CopiesSpec => []HeldThenStartedAgain
<1>1. CopiesInit => CopyAll
  BY CopiesStart
<1>2. CopyAll /\ [CopiesNext]_copiesVars => CopyAll'
  BY CopiesStay
<1>3. CopyAll => HeldThenStartedAgain
  BY CopiesAreExact, AllIdleIsStarted DEF CopyAll, HeldThenStartedAgain
<1> QED
  BY <1>1, <1>2, <1>3, PTL DEF CopiesSpec

-----------------------------------------------------------------------------
(* What a restore puts back: each place it has come to has what the run      *)
(* keeps for it, and the run a restore reads stays as it is.                 *)
Kept(s, d) == IF d \in DOMAIN repository[s].has THEN repository[s].has[d] ELSE stamped[s].has[d]
IsBack(w) ==
  \A i \in DOMAIN job[w].plan : i < job[w].next =>
    \E k \in DOMAIN job[w].plan : /\ job[w].plan[k].at = job[w].plan[i].at
                                  /\ disk[job[w].plan[i].at] = Kept(job[w].stamp, job[w].plan[k].from)
PutInv(w) ==
  LET m == job[w].manifest IN
  job[w].kind = "restore" =>
    /\ job[w].stamp \notin purged => ~Unnamed(job[w].stamp)
    /\ job[w].at \in {"claim", "install", "plan"} => job[w].plan = <<>>
    /\ job[w].at \in {"claim", "install", "plan", "stop"} => job[w].next = 1
    /\ subject = "box" \/ job[w].was = m.of => \A i \in DOMAIN job[w].plan : FromManifest(job[w].plan[i], m)
    /\ subject = "box" => \A k \in DOMAIN m.plan : \E i \in DOMAIN job[w].plan : job[w].plan[i].at = m.plan[k].from
    /\ job[w].at = "release" /\ job[w].ok => job[w].next > Len(job[w].plan)
    /\ job[w].only = {} /\ job[w].stamp \notin purged /\ Holds(w)
       /\ (job[w].at = "put" \/ (job[w].at = "release" /\ job[w].ok)) => IsBack(w)

(* It is planned for all that has a place, and writes to no other.           *)
PairsPlaced(w, here) ==
  \A i \in DOMAIN job[w].manifest.plan : Placed(job[w].manifest.plan[i], here, job[w].known) =>
    \E j \in DOMAIN job[w].plan : job[w].plan[j].from = job[w].manifest.plan[i].to
Untouched(w) ==
  \A p \in Places : disk[p] # job[w].before[p] => \E j \in DOMAIN job[w].plan : job[w].plan[j].at = p
AppAsWhole(w) == subject = "app" /\ job[w].only = {} /\ job[w].was = job[w].manifest.of
PlaceInv(w) ==
  job[w].kind = "restore" =>
    /\ job[w].at \in {"claim", "install", "plan"} => job[w].known
    /\ \A i \in DOMAIN job[w].plan : job[w].only = {} \/ job[w].plan[i].from \in job[w].only
    /\ AppAsWhole(w) /\ job[w].at = "stop" => PairsPlaced(w, disk)
    /\ Holds(w) /\ job[w].at \in {"put", "release"} => Untouched(w) /\ (AppAsWhole(w) => PairsPlaced(w, job[w].before))

PutAll == CopyAll /\ \A w \in Jobs : PutInv(w) /\ PlaceInv(w)

LEMMA FetchIsKept ==
  ASSUME WorkInv, NEW s \in Stamps, NEW d
  PROVE  Fetch(s, d) = Kept(s, d)
<1>1. ~Held => DOMAIN repository[s].has = {}
  BY StartsAreTyped DEF WorkInv, EngineInv, Held
<1> QED
  BY <1>1 DEF Fetch, Kept

LEMMA PutKeeps ==
  ASSUME NEW w \in Jobs, PutInv(w), Like(w), subject' = subject, purged \subseteq purged',
         job[w].kind = "restore" /\ job[w].stamp \notin purged' =>
           stamped'[job[w].stamp] = stamped[job[w].stamp] /\ repository'[job[w].stamp] = repository[job[w].stamp],
         Holds(w) /\ job[w].at \in {"put", "release"} => disk' = disk
  PROVE  PutInv(w)'
<1> SUFFICES ASSUME job[w].kind = "restore" PROVE PutInv(w)'
  BY DEF Like, PutInv
<1>1. job[w].stamp \notin purged' => ~Unnamed(job[w].stamp)'
  BY DEF PutInv, Unnamed, Like
<1>2. ASSUME job[w].only = {}, job[w].stamp \notin purged', Holds(w)', job[w].at = "put" \/ (job[w].at = "release" /\ job[w].ok)
      PROVE  IsBack(w)'
  <2>1. Holds(w) /\ disk' = disk
    BY <1>2, HoldsEnds
  <2>2. IsBack(w)
    BY <1>2, <2>1 DEF PutInv
  <2>3. job'[w].plan = job[w].plan /\ job'[w].next = job[w].next /\ job'[w].stamp = job[w].stamp
    BY DEF Like
  <2> SUFFICES ASSUME NEW i \in DOMAIN job[w].plan, i < job[w].next
               PROVE  \E k \in DOMAIN job[w].plan : /\ job[w].plan[k].at = job[w].plan[i].at
                                                    /\ disk'[job[w].plan[i].at] = Kept(job[w].stamp, job[w].plan[k].from)'
    BY <2>3 DEF IsBack
  <2>4. PICK k \in DOMAIN job[w].plan : /\ job[w].plan[k].at = job[w].plan[i].at
                                        /\ disk[job[w].plan[i].at] = Kept(job[w].stamp, job[w].plan[k].from)
    BY <2>2 DEF IsBack
  <2>5. Kept(job[w].stamp, job[w].plan[k].from)' = Kept(job[w].stamp, job[w].plan[k].from)
    BY <1>2, <2>3 DEF Kept
  <2> QED
    BY <2>1, <2>4, <2>5
<1> QED
  BY <1>1, <1>2 DEF PutInv, Like, FromManifest

LEMMA PlacedWithFiles ==
  ASSUME NEW op, NEW here, NEW there, NEW known, op.from \in Places,
         \A p \in Places : IsFile(there[p]) <=> IsFile(here[p])
  PROVE  Placed(op, there, known) <=> Placed(op, here, known)
BY DEF Placed

LEMMA PlaceKeeps ==
  ASSUME NEW w \in Jobs, JobInv(w), PlaceInv(w), Like(w), subject' = subject,
         Holds(w) /\ job[w].at \in {"put", "release"} => disk' = disk,
         job[w].kind = "restore" /\ subject = "app" /\ job[w].at = "stop" =>
           \A p \in Places : IsFile(disk'[p]) <=> IsFile(disk[p])
  PROVE  PlaceInv(w)'
<1> SUFFICES ASSUME job[w].kind = "restore" PROVE PlaceInv(w)'
  BY DEF Like, PlaceInv
<1> DEFINE m == job[w].manifest
<1>1. Holds(w)' => Holds(w)
  BY HoldsEnds
<1>2. AppAsWhole(w)' <=> AppAsWhole(w)
  BY DEF AppAsWhole, Like
<1>3. m \in Manifests /\ \A i \in DOMAIN m.plan : m.plan[i].from \in Places
  <2>1. m \in Manifests /\ m.plan \in Seq(Operations)
    BY DEF JobInv, Manifests
  <2> QED
    BY <2>1, PlansAreSequences
<1>4. ASSUME AppAsWhole(w), job[w].at = "stop" PROVE PairsPlaced(w, disk)'
  <2>1. PairsPlaced(w, disk)
    BY <1>4 DEF PlaceInv
  <2>2. \A i \in DOMAIN m.plan : Placed(m.plan[i], disk', job[w].known) <=> Placed(m.plan[i], disk, job[w].known)
    BY <1>3, <1>4, PlacedWithFiles DEF AppAsWhole
  <2> QED
    BY <2>1, <2>2 DEF PairsPlaced, Like
<1>5. ASSUME Holds(w), job[w].at \in {"put", "release"} PROVE Untouched(w)' /\ (AppAsWhole(w) => PairsPlaced(w, job[w].before)')
  BY <1>5 DEF PlaceInv, Untouched, PairsPlaced, Placed, Like
<1> QED
  BY <1>1, <1>2, <1>4, <1>5 DEF PlaceInv, Like

(* Once it holds everything, it writes to one of its places, or to none.     *)
LEMMA PlaceGoesOn ==
  ASSUME NEW w \in Jobs, PlaceInv(w), job[w].kind = "restore", Bearing(w), subject' = subject,
         job'[w].only = job[w].only, job'[w].known = job[w].known, job'[w].before = job[w].before,
         job'[w].at \in {"put", "release"}, Holds(w)' => Holds(w) /\ job[w].at \in {"put", "release"},
         disk' = disk \/ \E j \in DOMAIN job[w].plan : \A q \in Places : q # job[w].plan[j].at => disk'[q] = disk[q]
  PROVE  PlaceInv(w)'
<1>1. AppAsWhole(w)' <=> AppAsWhole(w)
  BY DEF AppAsWhole, Bearing
<1>2. ASSUME Holds(w)' PROVE Untouched(w)' /\ (AppAsWhole(w) => PairsPlaced(w, job[w].before)')
  <2>1. Untouched(w) /\ (AppAsWhole(w) => PairsPlaced(w, job[w].before))
    BY <1>2 DEF PlaceInv
  <2>2. PairsPlaced(w, job[w].before)' <=> PairsPlaced(w, job[w].before)
    BY DEF PairsPlaced, Placed, Bearing
  <2>3. Untouched(w)'
    <3> SUFFICES ASSUME NEW q \in Places, disk'[q] # job[w].before[q]
                 PROVE  \E j \in DOMAIN job[w].plan : job[w].plan[j].at = q
      BY DEF Untouched, Bearing
    <3>1. CASE disk'[q] = disk[q]
      BY <2>1, <3>1 DEF Untouched
    <3>2. CASE disk'[q] # disk[q]
      BY <3>2
    <3> QED
      BY <3>1, <3>2
  <2> QED
    BY <2>1, <2>2, <2>3
<1> QED
  BY <1>1, <1>2 DEF PlaceInv, Bearing

LEMMA PutOthers ==
  ASSUME PutAll, NEW u \in Jobs, Others(u), subject' = subject, purged \subseteq purged',
         \A s \in Stamps \ purged' : Unnamed(s) \/ (stamped'[s] = stamped[s] /\ repository'[s] = repository[s]),
         disk' = disk \/ (job[u].still /\ job[u].at \notin {"idle", "claim"}),
         CopyAll', PutInv(u)', PlaceInv(u)'
  PROVE  PutAll'
<1>1. ASSUME NEW w \in Jobs \ {u} PROVE PutInv(w)' /\ PlaceInv(w)'
  <2>1. WorkInv /\ JobInv(w) /\ PutInv(w) /\ PlaceInv(w) /\ Like(w)
    BY DEF PutAll, CopyAll, HoldInv, WorkInv, Others
  <2>2. job[w].kind = "restore" /\ job[w].stamp \notin purged' =>
          stamped'[job[w].stamp] = stamped[job[w].stamp] /\ repository'[job[w].stamp] = repository[job[w].stamp]
    BY <2>1 DEF JobInv, PutInv
  <2>3. Holds(w) => disk' = disk
    BY <2>1, OneHolds
  <2>4. job[w].kind = "restore" /\ subject = "app" /\ job[w].at = "stop" => Holds(w)
    BY <2>1 DEF JobInv, Holds, Undisturbed
  <2> QED
    BY <2>1, <2>2, <2>3, <2>4, PutKeeps, PlaceKeeps
<1> QED
  BY <1>1 DEF PutAll

LEMMA NotOfRestore ==
  ASSUME NEW w \in Jobs, job'[w].kind # "restore"
  PROVE  PutInv(w)' /\ PlaceInv(w)'
BY DEF PutInv, PlaceInv

(* The steps of a backup, and the ends of a restore that failed.             *)
LEMMA BackupKeepsRestores ==
  ASSUME PutAll, NEW w \in Jobs, beginWaiting(w) \/ Copies(w) \/ CopyFails(w) \/ writeManifest(w), CopyAll'
  PROVE  PutAll'
<1>1. /\ WorkInv /\ JobInv(w) /\ CopyInv(w) /\ job[w].at \in Steps /\ job[w].kind \in {"none", "backup", "restore"}
      /\ UNCHANGED <<subject, disk, purged>>
  BY JobIsTyped DEF PutAll, CopyAll, HoldInv, Records, beginWaiting, Copies, CopyFails, writeManifest, remote
<1>2. job[w].kind = "backup"
  BY <1>1 DEF JobInv, beginWaiting, Copies, CopyFails, writeManifest
<1>3. Calm(w) \/ Quits(w)
  BY <1>1, CalmSteps
<1>4. Others(w) /\ job'[w].kind # "restore"
  BY <1>2, <1>3 DEF Calm, Quits, NoJob
<1>5. \A s \in Stamps \ purged' : Unnamed(s) \/ (stamped'[s] = stamped[s] /\ repository'[s] = repository[s])
  <2>1. CASE beginWaiting(w) \/ CopyFails(w)
    BY <2>1 DEF beginWaiting, CopyFails, remote
  <2>2. CASE Copies(w) \/ writeManifest(w)
    <3>1. /\ job[w].at = "copy"
          /\ \A t \in Stamps \ {job[w].stamp} : stamped'[t] = stamped[t] /\ repository'[t] = repository[t]
      BY <1>1, <2>2, CopiesWorks, WriteManifestWorks DEF Copies, writeManifest
    <3> QED
      BY <1>1, <1>2, <3>1 DEF CopyInv
  <2> QED
    BY <2>1, <2>2
<1> QED
  BY <1>1, <1>4, <1>5, NotOfRestore, PutOthers

LEMMA FailKeepsRestores ==
  ASSUME PutAll, NEW w \in Jobs, StopFails(w) \/ InstallFails(w) \/ PutFails(w), CopyAll'
  PROVE  PutAll'
<1>1. /\ WorkInv /\ JobInv(w) /\ PutInv(w) /\ PlaceInv(w) /\ job[w].at \in Steps
      /\ job[w].kind \in {"none", "backup", "restore"} /\ Len(Units) \in Nat \ {0} /\ Len(job[w].stopped) \in Nat
      /\ UNCHANGED <<subject, stamped, repository, purged>> /\ Ends(w, FALSE)
  BY JobIsTyped, UnitsAreTyped DEF PutAll, CopyAll, HoldInv, WorkInv, Records, StopFails, InstallFails, PutFails, remote
<1>2. /\ Others(w) /\ job'[w].at = "release" /\ job'[w].ok = FALSE /\ job'[w].kind = job[w].kind
      /\ job'[w].stamp = job[w].stamp /\ job'[w].plan = job[w].plan /\ job'[w].was = job[w].was
      /\ job'[w].manifest = job[w].manifest /\ job'[w].only = job[w].only /\ job'[w].still = job[w].still
      /\ job'[w].known = job[w].known /\ job'[w].before = job[w].before /\ job'[w].alone = job[w].alone
      /\ job'[w].stopped = job[w].stopped
  BY <1>1, EndsIs
<1>3. disk' = disk \/ (job[w].still /\ job[w].at \notin {"idle", "claim"})
  <2>1. CASE PutFails(w)
    BY <1>1, <2>1 DEF PutFails, JobInv
  <2>2. CASE ~PutFails(w)
    BY <2>2 DEF StopFails, InstallFails
  <2> QED
    BY <2>1, <2>2
<1>4. PutInv(w)'
  BY <1>1, <1>2 DEF PutInv, Unnamed, FromManifest
<1>5. PlaceInv(w)'
  <2> SUFFICES ASSUME job[w].kind = "restore" PROVE PlaceInv(w)'
    BY <1>2, NotOfRestore
  <2>1. Holds(w)' => Holds(w) /\ job[w].at \in {"put", "release"}
    <3>1. Len(<<>>) = 0 /\ Units' = Units
      BY <1>1 DEF Units
    <3> QED
      BY <1>1, <1>2, <3>1 DEF Holds, Undisturbed, JobInv, StopFails, InstallFails, PutFails
  <2>2. disk' = disk \/ \E j \in DOMAIN job[w].plan : \A q \in Places : q # job[w].plan[j].at => disk'[q] = disk[q]
    <3>1. CASE PutFails(w)
      <4> DEFINE n == job[w].next
                 p == job[w].plan[n].at
      <4>1. /\ disk' \in {disk} \cup (IF Coming(w) THEN {[disk EXCEPT ![p] = Over_(disk[p], Comes(w))]} ELSE {})
            /\ n <= Len(job[w].plan)
        BY <3>1 DEF PutFails
      <4>2. n \in DOMAIN job[w].plan /\ disk \in [Places -> Contents \cup {Absent}]
        <5>1. job[w].plan \in Seq(Pairs) /\ n > 0 /\ n \in Nat
          BY <1>1, JobIsTyped DEF JobInv
        <5> QED
          BY <1>1, <4>1, <5>1 DEF WorkInv, CopiesTypes
      <4> HIDE DEF p
      <4>3. disk' = disk \/ disk' = [disk EXCEPT ![p] = Over_(disk[p], Comes(w))]
        BY <4>1
      <4>4. \A q \in Places : q # p => disk'[q] = disk[q]
        BY <4>2, <4>3
      <4> QED
        BY <4>2, <4>4 DEF p
    <3>2. CASE ~PutFails(w)
      BY <3>2 DEF StopFails, InstallFails
    <3> QED
      BY <3>1, <3>2
  <2> QED
    BY <1>1, <1>2, <2>1, <2>2, PlaceGoesOn DEF Bearing
<1> QED
  BY <1>1, <1>2, <1>3, <1>4, <1>5, PutOthers

LEMMA StopKeepsRestores ==
  ASSUME PutAll, NEW w \in Jobs, Stop(w), CopyAll'
  PROVE  PutAll'
<1>1. /\ WorkInv /\ job \in [Jobs -> Records] /\ job[w] \in Records /\ JobInv(w) /\ job[w].at = "stop" /\ PutInv(w) /\ PlaceInv(w)
      /\ UNCHANGED <<subject, disk, stamped, repository, purged>>
  BY JobIsTyped DEF PutAll, CopyAll, HoldInv, Stop, remote
<1>2. /\ Others(w) /\ job'[w].at \in {"stop", "copy", "put"} /\ job'[w].kind = job[w].kind
      /\ job'[w].stamp = job[w].stamp /\ job'[w].plan = job[w].plan /\ job'[w].next = job[w].next
      /\ job'[w].was = job[w].was /\ job'[w].manifest = job[w].manifest /\ job'[w].only = job[w].only
      /\ job'[w].known = job[w].known
      /\ job[w].kind = "restore" => \/ job'[w].at = "stop"
                                    \/ job'[w].at = "put" /\ job'[w].before = disk
  <2> DEFINE n == Len(job[w].stopped) + 1
  <2>1. job' = [job EXCEPT ![w].stopped = Append(@, Units[n]),
                  ![w].at = IF n = Len(Units) THEN (IF job[w].kind = "backup" THEN "copy" ELSE "put") ELSE "stop",
                  ![w].before = IF n = Len(Units) /\ job[w].kind = "restore" THEN disk ELSE @]
    BY DEF Stop
  <2> HIDE DEF n
  <2> QED
    BY <1>1, <2>1 DEF Others, Like, Records
<1>3. PutInv(w)'
  <2> SUFFICES ASSUME job[w].kind = "restore" PROVE PutInv(w)'
    BY <1>2, NotOfRestore
  <2>1. job[w].plan \in Seq(Pairs) /\ job[w].next = 1
    BY <1>1 DEF JobInv, PutInv
  <2>2. \A i \in DOMAIN job[w].plan : ~(i < job[w].next)
    BY <2>1
  <2>3. IsBack(w)'
    BY <1>2, <2>2 DEF IsBack
  <2> QED
    BY <1>1, <1>2, <2>1, <2>3 DEF PutInv, Unnamed, FromManifest
<1>4. PlaceInv(w)'
  <2> SUFFICES ASSUME job[w].kind = "restore" PROVE PlaceInv(w)'
    BY <1>2, NotOfRestore
  <2>1. AppAsWhole(w)' <=> AppAsWhole(w)
    BY <1>1, <1>2 DEF AppAsWhole
  <2>2. AppAsWhole(w) => PairsPlaced(w, disk)' /\ (job'[w].before = disk => PairsPlaced(w, job[w].before)')
    BY <1>1, <1>2 DEF PlaceInv, PairsPlaced, Placed
  <2>3. job'[w].before = disk => Untouched(w)'
    BY <1>1 DEF Untouched
  <2> QED
    BY <1>1, <1>2, <2>1, <2>2, <2>3 DEF PlaceInv
<1> QED
  BY <1>1, <1>2, <1>3, <1>4, PutOthers

LEMMA ReleaseKeepsRestores ==
  ASSUME PutAll, NEW w \in Jobs, Release(w), CopyAll'
  PROVE  PutAll'
<1> DEFINE n == Len(job[w].stopped)
           less == SubSeq(job[w].stopped, 1, n - 1)
<1>1. /\ WorkInv /\ job \in [Jobs -> Records] /\ job[w] \in Records /\ JobInv(w) /\ job[w].at = "release" /\ PutInv(w) /\ PlaceInv(w)
      /\ UNCHANGED <<subject, disk, stamped, repository, purged>> /\ job[w].stopped \in Seq(UnitNames) /\ n \in Nat
  BY JobIsTyped DEF PutAll, CopyAll, HoldInv, Release, remote
<1>2. CASE n > 0
  <2>1. job' = [job EXCEPT ![w].stopped = less] /\ Len(less) = n - 1
    BY <1>1, <1>2 DEF Release
  <2> HIDE DEF less
  <2>2. /\ Others(w) /\ job'[w].at = "release" /\ job'[w].kind = job[w].kind /\ job'[w].stopped = less
        /\ job'[w].stamp = job[w].stamp /\ job'[w].plan = job[w].plan /\ job'[w].next = job[w].next
        /\ job'[w].was = job[w].was /\ job'[w].manifest = job[w].manifest /\ job'[w].only = job[w].only
        /\ job'[w].ok = job[w].ok /\ job'[w].still = job[w].still /\ job'[w].known = job[w].known
        /\ job'[w].before = job[w].before
    BY <1>1, <2>1 DEF Others, Like, Records
  <2>3. n <= Len(Units) /\ Len(Units) \in Nat /\ Len(Units)' = Len(Units)
    BY <1>1, UnitsAreTyped DEF JobInv, WorkInv, Units
  <2>4. ~Holds(w)'
    <3> HIDE DEF n
    <3> QED
      BY <1>1, <1>2, <2>1, <2>2, <2>3 DEF Holds
  <2>5. PutInv(w)'
    BY <1>1, <2>2, <2>4 DEF PutInv, Unnamed, FromManifest
  <2>6. PlaceInv(w)'
    BY <1>1, <2>2, <2>4, NotOfRestore, PlaceGoesOn DEF Bearing
  <2> QED
    BY <1>1, <2>2, <2>5, <2>6, PutOthers
<1>3. CASE ~(n > 0)
  <2>1. job' = [job EXCEPT ![w] = NoJob]
    BY <1>3 DEF Release
  <2>2. Others(w) /\ job'[w].kind = "none"
    BY <1>1, <2>1 DEF Others, Like, NoJob
  <2> QED
    BY <1>1, <2>2, NotOfRestore, PutOthers
<1> QED
  BY <1>2, <1>3

(* A restore is planned, and puts one place after the other.                 *)
LEMMA PlannedKeepsRestores ==
  ASSUME PutAll, NEW w \in Jobs, restoreBackup(w) \/ PlansInstalled(w), CopyAll'
  PROVE  PutAll'
<1>1. /\ WorkInv /\ CopiesTypes /\ job \in [Jobs -> Records] /\ job[w] \in Records /\ JobInv(w) /\ PutInv(w) /\ PlaceInv(w)
      /\ UNCHANGED <<subject, disk, stamped, repository, purged>>
  BY JobIsTyped DEF PutAll, CopyAll, HoldInv, WorkInv, restoreBackup, PlansInstalled, remote
<1>2. job[w].kind = "restore" /\ job[w].at \in {"claim", "plan"} /\ job[w].plan = <<>> /\ job[w].next = 1 /\ subject = "app"
  <2>1. job[w].kind = "restore" /\ job[w].at \in {"claim", "plan"}
    BY <1>1 DEF JobInv, restoreBackup, PlansInstalled, Records
  <2>2. subject \in {"app", "box"}
    BY <1>1 DEF CopiesTypes
  <2> QED
    BY <1>1, <2>1, <2>2 DEF PutInv, JobInv
<1>3. CASE job' = [job EXCEPT ![w] = NoJob]
  <2>1. Others(w) /\ job'[w].kind = "none"
    BY <1>1, <1>3 DEF Others, Like, NoJob
  <2> QED
    BY <1>1, <2>1, NotOfRestore, PutOthers
<1>4. CASE job' = [job EXCEPT ![w].at = "install"]
  <2>1. /\ Others(w) /\ job'[w].at = "install" /\ job'[w].kind = job[w].kind
        /\ job'[w].stamp = job[w].stamp /\ job'[w].plan = job[w].plan /\ job'[w].next = job[w].next
        /\ job'[w].known = job[w].known
    BY <1>1, <1>4 DEF Others, Like, Records
  <2>2. PutInv(w)' /\ PlaceInv(w)'
    BY <1>1, <1>2, <2>1 DEF PutInv, PlaceInv, Unnamed
  <2> QED
    BY <1>1, <2>1, <2>2, PutOthers
<1>5. ASSUME NEW known \in BOOLEAN, NEW plan, job[w].was # Absent, plan = Planned(w, job[w].was, known),
             Others(w), job'[w].at = "stop", job'[w].kind = job[w].kind, job'[w].stamp = job[w].stamp, job'[w].plan = plan,
             job'[w].next = job[w].next, job'[w].was = job[w].was, job'[w].manifest = job[w].manifest,
             job'[w].only = job[w].only, job'[w].known = known
      PROVE  PutAll'
  <2>1. job[w].was \in Lists
    BY <1>1, <1>5 DEF Records
  <2>2. job[w].manifest \in Manifests /\ IsPlanOf(job[w].manifest.plan, job[w].manifest.of)
    BY <1>1, <1>2 DEF JobInv
  <2>3. /\ plan \in Seq(Pairs)
        /\ \A n \in DOMAIN plan : job[w].only = {} \/ plan[n].from \in job[w].only
        /\ job[w].was = job[w].manifest.of => \A n \in DOMAIN plan : FromManifest(plan[n], job[w].manifest)
        /\ job[w].only = {} /\ job[w].was = job[w].manifest.of =>
             \A i \in DOMAIN job[w].manifest.plan : Placed(job[w].manifest.plan[i], disk, known) =>
               \E n \in DOMAIN plan : plan[n].from = job[w].manifest.plan[i].to
    BY <1>1, <1>2, <1>5, <2>1, <2>2, PlannedIsPaired
  <2>4. PutInv(w)'
    BY <1>1, <1>2, <1>5, <2>3 DEF PutInv, Unnamed, FromManifest
  <2>5. AppAsWhole(w) => PairsPlaced(w, disk)'
    BY <1>1, <1>5, <2>3 DEF AppAsWhole, PairsPlaced, Placed
  <2>6. PlaceInv(w)'
    BY <1>1, <1>2, <1>5, <2>3, <2>5 DEF PlaceInv, AppAsWhole
  <2> QED
    BY <1>1, <1>5, <2>4, <2>6, PutOthers
<1>6. CASE restoreBackup(w)
  <2>1. ASSUME NEW known \in BOOLEAN, job[w].was # Absent,
               job' = [job EXCEPT ![w].at = "stop", ![w].plan = Planned(w, job[w].was, known), ![w].known = known]
        PROVE  PutAll'
    <3>1. PICK plan : plan = Planned(w, job[w].was, known)
      OBVIOUS
    <3>2. job' = [job EXCEPT ![w].at = "stop", ![w].plan = plan, ![w].known = known]
      BY <2>1, <3>1
    <3>3. /\ Others(w) /\ job'[w].at = "stop" /\ job'[w].kind = job[w].kind /\ job'[w].stamp = job[w].stamp
          /\ job'[w].plan = plan /\ job'[w].next = job[w].next /\ job'[w].was = job[w].was
          /\ job'[w].manifest = job[w].manifest /\ job'[w].only = job[w].only /\ job'[w].known = known
      BY <1>1, <3>2 DEF Others, Like, Records
    <3> QED
      BY <1>5, <2>1, <3>1, <3>3
  <2> QED
    BY <1>3, <1>4, <1>6, <2>1 DEF restoreBackup, Goes
<1>7. CASE PlansInstalled(w)
  <2>1. job[w].was # Absent /\ job[w].at = "plan"
    BY <1>1, <1>7, CopiesAssumption DEF PlansInstalled, JobInv, Lists
  <2>2. job[w].known = TRUE
    BY <1>1, <1>2, <2>1 DEF PlaceInv, Records
  <2>3. PICK plan : plan = Planned(w, job[w].was, TRUE)
    OBVIOUS
  <2>4. job' = [job EXCEPT ![w].at = "stop", ![w].plan = plan]
    BY <1>7, <2>3 DEF PlansInstalled
  <2>5. /\ Others(w) /\ job'[w].at = "stop" /\ job'[w].kind = job[w].kind /\ job'[w].stamp = job[w].stamp
        /\ job'[w].plan = plan /\ job'[w].next = job[w].next /\ job'[w].was = job[w].was
        /\ job'[w].manifest = job[w].manifest /\ job'[w].only = job[w].only /\ job'[w].known = TRUE
    BY <1>1, <2>2, <2>4 DEF Others, Like, Records
  <2> QED
    BY <1>5, <2>1, <2>3, <2>5
<1> QED
  BY <1>6, <1>7

LEMMA InstallKeepsRestores ==
  ASSUME PutAll, NEW w \in Jobs, installFromBackup(w), CopyAll'
  PROVE  PutAll'
<1>1. /\ WorkInv /\ job \in [Jobs -> Records] /\ job[w] \in Records /\ JobInv(w) /\ PutInv(w) /\ PlaceInv(w) /\ job[w].at = "install"
      /\ UNCHANGED <<subject, stamped, repository, purged>>
  BY JobIsTyped DEF PutAll, CopyAll, HoldInv, installFromBackup, remote
<1>2. job[w].kind = "restore" /\ job[w].still /\ subject = "app"
  BY <1>1 DEF JobInv, Records, WorkInv, CopiesTypes
<1>3. /\ Others(w) /\ job'[w].at = "plan" /\ job'[w].kind = job[w].kind
      /\ job'[w].stamp = job[w].stamp /\ job'[w].plan = job[w].plan /\ job'[w].next = job[w].next
      /\ job'[w].known = job[w].known
  <2>1. job' = [job EXCEPT ![w].at = "plan", ![w].was = mounts']
    BY DEF installFromBackup
  <2> QED
    BY <1>1, <2>1 DEF Others, Like, Records
<1>4. PutInv(w)' /\ PlaceInv(w)'
  BY <1>1, <1>2, <1>3 DEF PutInv, PlaceInv, Unnamed
<1> QED
  BY <1>1, <1>2, <1>3, <1>4, PutOthers

LEMMA PutsKeepRestores ==
  ASSUME PutAll, NEW w \in Jobs, Puts(w), CopyAll'
  PROVE  PutAll'
<1> DEFINE n == job[w].next
           plan == job[w].plan
           p == plan[n].at
           s == job[w].stamp
<1>1. /\ WorkInv /\ job \in [Jobs -> Records] /\ job[w] \in Records /\ JobInv(w) /\ PutInv(w) /\ PlaceInv(w)
      /\ job[w].at = "put"
      /\ UNCHANGED <<subject, stamped, repository, purged>> /\ n \in Nat /\ n <= Len(plan) /\ Coming(w)
      /\ disk \in [Places -> Contents \cup {Absent}]
  BY JobIsTyped DEF PutAll, CopyAll, HoldInv, WorkInv, CopiesTypes, Puts, remote
<1>2. job[w].kind = "restore" /\ s \in Stamps /\ n \in DOMAIN plan /\ p \in Places /\ job[w].still
  BY <1>1, ComesIsTyped DEF JobInv
<1>3. /\ Others(w) /\ job'[w].at = "put" /\ job'[w].kind = job[w].kind /\ job'[w].still = job[w].still
      /\ job'[w].stamp = job[w].stamp /\ job'[w].plan = job[w].plan /\ job'[w].next = n + 1
      /\ job'[w].was = job[w].was /\ job'[w].manifest = job[w].manifest /\ job'[w].only = job[w].only
      /\ job'[w].alone = job[w].alone /\ job'[w].known = job[w].known /\ job'[w].before = job[w].before
  <2>1. job' = [job EXCEPT ![w].next = n + 1]
    BY DEF Puts
  <2> HIDE DEF n
  <2> QED
    BY <1>1, <2>1 DEF Others, Like, Records
<1>4. disk' = [disk EXCEPT ![p] = IF job[w].only = {} THEN Comes(w) ELSE Over_(disk[p], Comes(w))]
  BY DEF Puts
<1>5. Comes(w) = Kept(s, plan[n].from)
  BY <1>1, <1>2, FetchIsKept DEF Comes
<1>6. plan \in Seq(Pairs) /\ DOMAIN plan = 1 .. Len(plan) /\ \A i \in DOMAIN plan : plan[i].at \in Places
  <2>1. plan \in Seq(Pairs)
    BY <1>1, <1>2 DEF JobInv
  <2>2. DOMAIN plan = 1 .. Len(plan) /\ \A i \in DOMAIN plan : plan[i] \in Pairs
    BY <2>1
  <2> QED
    BY <2>1, <2>2 DEF Pairs
<1>7. ASSUME job[w].only = {}, s \notin purged, Holds(w)' PROVE IsBack(w)'
  <2>1. Holds(w)
    BY <1>1, <1>2, <1>3, <1>7 DEF Holds, Undisturbed
  <2>2. IsBack(w)
    BY <1>1, <1>2, <1>7, <2>1 DEF PutInv
  <2> HIDE DEF n, p
  <2>3. disk'[p] = Kept(s, plan[n].from)
    BY <1>1, <1>2, <1>4, <1>5, <1>7
  <2>4. ASSUME NEW i \in DOMAIN plan, i < n + 1
        PROVE  \E k \in DOMAIN plan : plan[k].at = plan[i].at /\ disk'[plan[i].at] = Kept(s, plan[k].from)
    <3>1. CASE plan[i].at = p
      BY <1>2, <2>3, <3>1 DEF p
    <3>2. CASE plan[i].at # p
      <4>1. i # n /\ i < n
        BY <1>1, <1>6, <2>4, <3>2 DEF p
      <4>2. PICK k \in DOMAIN plan : plan[k].at = plan[i].at /\ disk[plan[i].at] = Kept(s, plan[k].from)
        BY <2>2, <4>1 DEF IsBack, n
      <4>3. disk'[plan[i].at] = disk[plan[i].at]
        BY <1>1, <1>4, <1>6, <3>2
      <4> QED
        BY <4>2, <4>3
    <3> QED
      BY <3>1, <3>2
  <2>5. job'[w].plan = plan /\ job'[w].next = n + 1 /\ job'[w].stamp = s
    BY <1>1, <1>3 DEF n
  <2> SUFFICES ASSUME NEW i \in DOMAIN plan, i < n + 1
               PROVE  \E k \in DOMAIN plan : /\ plan[k].at = plan[i].at
                                             /\ disk'[plan[i].at] = Kept(job[w].stamp, plan[k].from)'
    BY <2>5 DEF IsBack
  <2>6. PICK k \in DOMAIN plan : plan[k].at = plan[i].at /\ disk'[plan[i].at] = Kept(s, plan[k].from)
    BY <2>4
  <2>7. Kept(job[w].stamp, plan[k].from)' = Kept(s, plan[k].from)
    BY <1>1, <2>5 DEF Kept
  <2> QED
    BY <2>6, <2>7
<1>8. PutInv(w)'
  BY <1>1, <1>2, <1>3, <1>7 DEF PutInv, Unnamed, FromManifest
<1>9. PlaceInv(w)'
  <2>1. Holds(w)' => Holds(w) /\ job[w].at \in {"put", "release"}
    BY <1>1, <1>2, <1>3 DEF Holds, Undisturbed
  <2> HIDE DEF p
  <2>2. \A q \in Places : q # p => disk'[q] = disk[q]
    BY <1>1, <1>4
  <2>3. \E j \in DOMAIN job[w].plan : \A q \in Places : q # job[w].plan[j].at => disk'[q] = disk[q]
    BY <1>2, <2>2 DEF p
  <2> QED
    BY <1>1, <1>2, <1>3, <2>1, <2>3, PlaceGoesOn DEF Bearing
<1> QED
  BY <1>1, <1>2, <1>3, <1>8, <1>9, PutOthers

LEMMA AllPutKeepsRestores ==
  ASSUME PutAll, NEW w \in Jobs, AllPut(w), CopyAll'
  PROVE  PutAll'
<1>1. /\ WorkInv /\ JobInv(w) /\ PutInv(w) /\ PlaceInv(w) /\ job[w].at = "put" /\ job[w].next > Len(job[w].plan) /\ Ends(w, TRUE)
      /\ UNCHANGED <<subject, disk, stamped, repository, purged>>
  BY DEF PutAll, CopyAll, HoldInv, WorkInv, AllPut, remote
<1>2. /\ Others(w) /\ job'[w].at = "release" /\ job'[w].kind = job[w].kind /\ job'[w].still = job[w].still
      /\ job'[w].stamp = job[w].stamp /\ job'[w].plan = job[w].plan /\ job'[w].next = job[w].next
      /\ job'[w].was = job[w].was /\ job'[w].manifest = job[w].manifest /\ job'[w].only = job[w].only
      /\ job'[w].alone = job[w].alone /\ job'[w].known = job[w].known /\ job'[w].before = job[w].before
  BY <1>1, EndsIs
<1>3. Holds(w)' => Holds(w)
  BY <1>1, <1>2 DEF Holds, Undisturbed
<1>4. job[w].kind = "restore" /\ job[w].only = {} /\ job[w].stamp \notin purged /\ Holds(w)' => IsBack(w)'
  <2>1. IsBack(w)' <=> IsBack(w)
    BY <1>1, <1>2 DEF IsBack, Kept
  <2> QED
    BY <1>1, <1>3, <2>1 DEF PutInv
<1>5. PutInv(w)'
  BY <1>1, <1>2, <1>4 DEF PutInv, Unnamed, FromManifest
<1>6. PlaceInv(w)'
  BY <1>1, <1>2, <1>3, NotOfRestore, PlaceGoesOn DEF Bearing
<1> QED
  BY <1>1, <1>2, <1>5, <1>6, PutOthers

(* A restore begins with a run that has a manifest.                          *)
LEMMA StartsKeepRestores ==
  ASSUME PutAll, NEW w \in Jobs, NEW s \in Stamps, CopyAll',
         \/ \E still \in BOOLEAN : RunBackup(w, s, still) \/ RunSystemBackup(w, s, still)
         \/ RestoreSystemBackup(w, s)
         \/ \E only \in {{}} \cup {{d} : d \in InRun(s)} : RestoreBackup(w, s, only)
  PROVE  PutAll'
<1>0. WorkInv
  BY DEF PutAll, CopyAll, HoldInv
<1>1. UNCHANGED <<subject, disk, stamped, repository, purged>>
  BY DEF RunBackup, RunSystemBackup, RestoreSystemBackup, RestoreBackup, remote
<1>2. ASSUME ManifestOf(s) # Absent PROVE ~Unnamed(s)'
  BY <1>1, <1>2 DEF ManifestOf, Unnamed
<1>3. ASSUME NEW still \in BOOLEAN, RunBackup(w, s, still) PROVE PutAll'
  <2>1. PICK known \in BOOLEAN : Others(w) /\ Begun(w, RunBackupRecord(s, still, known))
    BY <1>0, <1>3, RunBackupWorks
  <2>2. job'[w].kind = "backup"
    BY <2>1 DEF Begun, RunBackupRecord, NoJob
  <2> QED
    BY <1>1, <2>1, <2>2, NotOfRestore, PutOthers
<1>4. ASSUME NEW still \in BOOLEAN, RunSystemBackup(w, s, still) PROVE PutAll'
  <2>1. Others(w) /\ Begun(w, RunSystemBackupRecord(s, still))
    BY <1>0, <1>4, RunSystemBackupWorks
  <2>2. job'[w].kind = "backup"
    BY <2>1 DEF Begun, RunSystemBackupRecord, NoJob
  <2> QED
    BY <1>1, <2>1, <2>2, NotOfRestore, PutOthers
<1>5. CASE RestoreSystemBackup(w, s)
  <2>1. /\ Others(w) /\ Begun(w, RestoreSystemRecord(s))
        /\ \A i \in DOMAIN job'[w].plan : FromManifest(job'[w].plan[i], ManifestOf(s))
        /\ \A k \in DOMAIN ManifestOf(s).plan :
             \E i \in DOMAIN job'[w].plan : job'[w].plan[i].at = ManifestOf(s).plan[k].from
    BY <1>0, <1>5, RestoreSystemWorks
  <2>2. /\ job'[w].kind = "restore" /\ job'[w].at = "stop" /\ job'[w].stamp = s /\ job'[w].next = 1
        /\ job'[w].manifest = ManifestOf(s) /\ job'[w].only = {} /\ subject' = "box"
    BY <1>1, <1>5, <2>1 DEF Begun, RestoreSystemRecord, NoJob, RestoreSystemBackup
  <2>3. ManifestOf(s) # Absent
    BY <1>5 DEF RestoreSystemBackup
  <2>4. PutInv(w)'
    BY <1>2, <2>1, <2>2, <2>3 DEF PutInv, FromManifest
  <2>5. PlaceInv(w)'
    BY <2>2 DEF PlaceInv, AppAsWhole
  <2> QED
    BY <1>1, <2>1, <2>4, <2>5, PutOthers
<1>6. ASSUME NEW only \in {{}} \cup {{d} : d \in InRun(s)}, RestoreBackup(w, s, only) PROVE PutAll'
  <2>1. Others(w) /\ Begun(w, RestoreBackupRecord(s, only))
    BY <1>0, <1>6, RestoreStartsWorks
  <2>2. /\ job'[w].kind = "restore" /\ job'[w].at = "claim" /\ job'[w].stamp = s /\ job'[w].next = 1
        /\ job'[w].plan = <<>> /\ job'[w].known = TRUE
    BY <2>1 DEF Begun, RestoreBackupRecord, NoJob
  <2>3. ManifestOf(s) # Absent /\ subject' = "app"
    BY <1>1, <1>6 DEF RestoreBackup
  <2>4. PutInv(w)'
    BY <1>2, <2>2, <2>3 DEF PutInv
  <2>5. PlaceInv(w)'
    BY <2>2 DEF PlaceInv
  <2> QED
    BY <1>1, <2>1, <2>4, <2>5, PutOthers
<1> QED
  BY <1>3, <1>4, <1>5, <1>6

LEMMA OutsideKeepsRestores ==
  ASSUME PutAll, CopyAll', UNCHANGED <<subject, job>>, purged \subseteq purged',
         \A s \in Stamps \ purged' : stamped'[s] = stamped[s] /\ repository'[s] = repository[s],
         disk' = disk \/ (\E p : Writes(p)) \/ Edit \/ Uninstall
  PROVE  PutAll'
<1>1. ASSUME NEW w \in Jobs PROVE PutInv(w)' /\ PlaceInv(w)'
  <2>1. PutInv(w) /\ PlaceInv(w) /\ JobInv(w) /\ Like(w) /\ HoldInv
    BY DEF PutAll, CopyAll, HoldInv, WorkInv, Like
  <2>2. job[w].kind = "restore" /\ job[w].stamp \notin purged' =>
          stamped'[job[w].stamp] = stamped[job[w].stamp] /\ repository'[job[w].stamp] = repository[job[w].stamp]
    BY <2>1 DEF JobInv
  <2>3. Holds(w) /\ job[w].at \in {"put", "release"} => disk' = disk
    BY <2>1, OutsideIsHeldOff DEF Holds
  <2>4. job[w].kind = "restore" /\ subject = "app" /\ job[w].at = "stop" =>
          \A p \in Places : IsFile(disk'[p]) <=> IsFile(disk[p])
    <3> SUFFICES ASSUME job[w].kind = "restore", subject = "app", job[w].at = "stop"
                 PROVE  \A p \in Places : IsFile(disk'[p]) <=> IsFile(disk[p])
      OBVIOUS
    <3>1. claim = w /\ w # Nobody /\ disk \in [Places -> Contents \cup {Absent}]
      BY <2>1, CopiesAssumption DEF JobInv, HoldInv, WorkInv, CopiesTypes
    <3>2. ASSUME NEW p, Writes(p) PROVE \A q \in Places : IsFile(disk'[q]) <=> IsFile(disk[q])
      <4>1. disk' = [disk EXCEPT ![p].has = @ \cup {Later}] /\ disk[p] # Absent
        BY <3>2 DEF Writes
      <4>2. \A q \in Places : q # p => disk'[q] = disk[q]
        BY <3>1, <4>1
      <4>3. p \in Places => disk[p] \in Contents /\ disk'[p] = [disk[p] EXCEPT !.has = @ \cup {Later}]
        BY <3>1, <4>1
      <4>4. p \in Places => disk'[p] \in [folder : BOOLEAN, has : SUBSET (Places \cup {Later})] /\ disk'[p].folder = disk[p].folder
        BY <4>3 DEF Contents
      <4>5. p \in Places => disk'[p] # Absent
        BY <4>4, CopiesAssumption
      <4> QED
        BY <4>1, <4>2, <4>4, <4>5 DEF IsFile
    <3> QED
      BY <3>1, <3>2 DEF Edit, Uninstall
  <2> QED
    BY <2>1, <2>2, <2>3, <2>4, PutKeeps, PlaceKeeps
<1> QED
  BY <1>1 DEF PutAll

LEMMA RestoresStart ==
  ASSUME CopiesInit
  PROVE  PutAll
<1>1. \A w \in Jobs : job[w].kind = "none"
  BY DEF CopiesInit, NoJob
<1>2. \A w \in Jobs : PutInv(w) /\ PlaceInv(w)
  BY <1>1 DEF PutInv, PlaceInv
<1> QED
  BY <1>2, CopiesStart DEF PutAll

LEMMA RestoresStay ==
  ASSUME PutAll, [CopiesNext]_copiesVars
  PROVE  PutAll'
<1>0. CopyAll'
  BY CopiesStay DEF PutAll
<1>1. ASSUME NEW w \in Jobs, Works(w) PROVE PutAll'
  BY <1>0, <1>1, BackupKeepsRestores, FailKeepsRestores, StopKeepsRestores, ReleaseKeepsRestores, PlannedKeepsRestores,
     InstallKeepsRestores, PutsKeepRestores, AllPutKeepsRestores DEF Works
<1>2. ASSUME NEW w \in Jobs, NEW s \in Stamps,
             \/ \E still \in BOOLEAN : RunBackup(w, s, still) \/ RunSystemBackup(w, s, still)
             \/ RestoreSystemBackup(w, s)
             \/ \E only \in {{}} \cup {{d} : d \in InRun(s)} : RestoreBackup(w, s, only)
      PROVE  PutAll'
  BY <1>0, <1>2, StartsKeepRestores
<1>3. CASE \E p \in Written : Writes(p)
  <2>1. UNCHANGED <<subject, job, purged, stamped, repository>> /\ \E p : Writes(p)
    BY <1>3 DEF Writes, remote
  <2> QED
    BY <1>0, <2>1, OutsideKeepsRestores
<1>4. ASSUME NEW s \in Stamps, Purge(s) PROVE PutAll'
  <2>1. /\ UNCHANGED <<subject, job, disk>> /\ purged \subseteq purged'
        /\ \A t \in Stamps \ purged' : stamped'[t] = stamped[t] /\ repository'[t] = repository[t]
    <3>1. stamped \in [Stamps -> Runs] /\ repository \in [Stamps -> Runs]
      BY DEF PutAll, CopyAll, HoldInv, WorkInv, CopiesTypes
    <3> QED
      BY <1>4, <3>1 DEF Purge
  <2> QED
    BY <1>0, <2>1, OutsideKeepsRestores
<1>5. CASE Edit \/ Uninstall
  <2>1. UNCHANGED <<subject, job, purged, stamped, repository>>
    BY <1>5 DEF Edit, Uninstall, remote
  <2> QED
    BY <1>0, <1>5, <2>1, OutsideKeepsRestores
<1>6. CASE EnableStarts \/ EnableEnds \/ Disable \/ resume \/ UNCHANGED copiesVars
  <2>1. UNCHANGED <<subject, job, disk, purged, stamped, repository>>
    BY <1>6 DEF EnableStarts, EnableEnds, Disable, resume, copiesVars, remote
  <2> QED
    BY <1>0, <2>1, OutsideKeepsRestores
<1>7. CASE KilledHere
  <2>1. \A w \in Jobs : job'[w].kind = "none"
    BY <1>7 DEF KilledHere, NoJob
  <2>2. \A w \in Jobs : PutInv(w)' /\ PlaceInv(w)'
    BY <2>1, NotOfRestore
  <2> QED
    BY <1>0, <2>2 DEF PutAll
<1> QED
  BY <1>1, <1>2, <1>3, <1>4, <1>5, <1>6, <1>7 DEF CopiesNext

LEMMA RestoresAreWhole ==
  ASSUME PutAll
  PROVE  RestoredAsItWas
<1> SUFFICES ASSUME NEW w \in Jobs, RestoresInPeace(w) PROVE EveryPathIsBack(w) /\ NoOtherPathIsTouched(w)
  BY DEF RestoredAsItWas
<1> DEFINE s == job[w].stamp
           m == job[w].manifest
           plan == job[w].plan
<1>1. WorkInv /\ CopiesTypes /\ JobInv(w) /\ PutInv(w) /\ PlaceInv(w) /\ job[w].next \in Nat
  BY JobIsTyped DEF PutAll, CopyAll, HoldInv, WorkInv
<1>2. /\ job[w].kind = "restore" /\ job[w].at \in {"put", "release"} /\ Undisturbed(w) /\ subject \in {"app", "box"}
      /\ subject = "box" \/ job[w].was = m.of
  BY <1>1 DEF RestoresInPeace, CopiesTypes
<1>3. /\ job[w].still /\ s \in Stamps /\ m \in Manifests /\ m.of \in Lists /\ IsPlanOf(m.plan, m.of)
      /\ plan \in Seq(Pairs)
  BY <1>1, <1>2 DEF JobInv, Manifests
<1>4. Holds(w) /\ DOMAIN plan = 1 .. Len(plan) /\ \A j \in DOMAIN plan : FromManifest(plan[j], m)
  BY <1>1, <1>2, <1>3 DEF PutInv, Holds, RestoresInPeace
<1>5. EveryPathIsBack(w)
  <2> SUFFICES ASSUME job[w].at = "release", job[w].ok, job[w].only = {}, s \notin purged,
                      NEW i \in DOMAIN m.plan, HasItsPlace(w, m.plan[i])
               PROVE  \E k \in DOMAIN m.plan : m.plan[k].from = m.plan[i].from /\ disk[m.plan[i].from] = Fetch(s, m.plan[k].to)
    BY DEF EveryPathIsBack
  <2>1. job[w].next > Len(plan) /\ IsBack(w)
    BY <1>1, <1>2, <1>4 DEF PutInv
  <2>2. PICK j \in DOMAIN plan : plan[j].at = m.plan[i].from
    <3>1. CASE subject = "box"
      BY <1>1, <1>2, <3>1 DEF PutInv
    <3>2. CASE subject = "app"
      <4>1. Placed(m.plan[i], job[w].before, job[w].known)
        BY <3>2 DEF HasItsPlace, Placed
      <4>2. PairsPlaced(w, job[w].before)
        BY <1>1, <1>2, <1>4, <3>2 DEF PlaceInv, AppAsWhole
      <4>3. PICK j \in DOMAIN plan : plan[j].from = m.plan[i].to
        BY <4>1, <4>2 DEF PairsPlaced
      <4>4. PICK k \in DOMAIN m.plan : m.plan[k].from = plan[j].at /\ m.plan[k].to = plan[j].from
        BY <1>4 DEF FromManifest
      <4>5. m.plan[k].from = m.plan[i].from
        <5> HIDE DEF m
        <5> QED
          BY <1>1, <1>3, <4>3, <4>4, OnePlaceOfEach DEF m
      <4> QED
        BY <4>3, <4>4, <4>5
    <3> QED
      BY <1>2, <3>1, <3>2
  <2>3. PICK k \in DOMAIN plan : plan[k].at = plan[j].at /\ disk[plan[j].at] = Kept(s, plan[k].from)
    BY <1>1, <1>4, <2>1, <2>2 DEF IsBack
  <2>4. PICK l \in DOMAIN m.plan : m.plan[l].from = plan[k].at /\ m.plan[l].to = plan[k].from
    BY <1>4, <2>3 DEF FromManifest
  <2>5. Kept(s, plan[k].from) = Fetch(s, m.plan[l].to)
    BY <1>1, <1>3, <2>4, FetchIsKept
  <2> QED
    BY <2>2, <2>3, <2>4, <2>5
<1>6. NoOtherPathIsTouched(w)
  <2> SUFFICES ASSUME NEW p \in Places, disk[p] # job[w].before[p]
               PROVE  \E i \in DOMAIN m.plan : m.plan[i].from = p /\ (job[w].only = {} \/ m.plan[i].to \in job[w].only)
    BY DEF NoOtherPathIsTouched
  <2>1. PICK j \in DOMAIN plan : plan[j].at = p
    BY <1>1, <1>2, <1>4 DEF PlaceInv, Untouched
  <2>2. PICK i \in DOMAIN m.plan : m.plan[i].from = plan[j].at /\ m.plan[i].to = plan[j].from
    BY <1>4 DEF FromManifest
  <2>3. job[w].only = {} \/ plan[j].from \in job[w].only
    BY <1>1, <1>2 DEF PlaceInv
  <2> QED
    BY <2>1, <2>2, <2>3
<1> QED
  BY <1>5, <1>6

(* A restore that succeeded put every place back as the backup has it: of    *)
(* the box by its paths, of an app that was not changed since by its names,  *)
(* and whatever became of it, it wrote nowhere else, while other jobs, edits *)
(* and the engine's switches go on around it.                                *)
THEOREM WhatIsRestoredIsWhole == CopiesSpec => []RestoredAsItWas
<1>1. CopiesInit => PutAll
  BY RestoresStart
<1>2. PutAll /\ [CopiesNext]_copiesVars => PutAll'
  BY RestoresStay
<1>3. PutAll => RestoredAsItWas
  BY RestoresAreWhole
<1> QED
  BY <1>1, <1>2, <1>3, PTL DEF CopiesSpec
=============================================================================
