---------------------------- MODULE StoresProofs ----------------------------
(***************************************************************************)
(* The badges, the updates and the catalogues, for every set of apps,       *)
(* stores, compose files and catalogues. First what the two comparisons of  *)
(* tags have in common: a tag above another is one that the other is below, *)
(* by which an update goes forward. Then the invariant of the answers,      *)
(* UpdatesInv: an answer that nothing overtook says what the button would   *)
(* do (KnownInv), and so does what a sweep (SweepInv), a page (PageInv) and *)
(* an update (UpdateInv) hold and have not given yet. The sweep and the     *)
(* page are on the apps as they found them, so their parts speak only of    *)
(* apps nothing happened to since. Last the stores, which share no state    *)
(* with the updates (MCStores): StoreInv.                                   *)
(***************************************************************************)
EXTENDS AppStore, ImageUpdates, WellFoundedInduction, TLAPS

(* A nonempty set of natural numbers has a least one.                        *)
LEMMA LeastOne ==
  ASSUME NEW S, S \subseteq Nat, S # {}
  PROVE  \E m \in S : \A j \in S : m <= j
<1> DEFINE R == OpToRel(<, Nat)
<1>1. R = {p \in Nat \X Nat : p[1] < p[2]}
  BY Zenon DEF OpToRel
<1>2. IsWellFoundedOn(R, Nat)
  BY NatLessThanWellFounded, Zenon
<1> HIDE DEF R
<1>3. PICK m \in S : \A j \in S : ~(<<j, m>> \in R)
  BY <1>2, WFMin
<1>4. \A j \in S : ~(j < m)
  BY <1>1, <1>3
<1> QED BY <1>3, <1>4

(* The first difference of two sequences is the same from either side.       *)
LEMMA DifferIs ==
  ASSUME NEW S, NEW x \in Seq(S), NEW y \in Seq(S)
  PROVE  /\ Differ(x, y) = Differ(y, x)
         /\ Differ(x, y) # 0 => Differ(x, y) \in DOMAIN x \cap DOMAIN y
<1> DEFINE places == {i \in DOMAIN x \cap DOMAIN y : x[i] # y[i]}
           back == {i \in DOMAIN y \cap DOMAIN x : y[i] # x[i]}
<1>1. places = back
  OBVIOUS
<1>2. Differ(x, y) = IF places = {} THEN 0 ELSE CHOOSE i \in places : \A j \in places : i <= j
  BY DEF Differ
<1>3. Differ(y, x) = IF back = {} THEN 0 ELSE CHOOSE i \in back : \A j \in back : i <= j
  BY DEF Differ
<1>4. places \subseteq Nat /\ places \subseteq DOMAIN x \cap DOMAIN y
  OBVIOUS
<1> HIDE DEF places, back
<1>5. Differ(x, y) = Differ(y, x)
  BY <1>1, <1>2, <1>3
<1>6. CASE places # {}
  <2>1. \E m \in places : \A j \in places : m <= j
    BY <1>4, <1>6, LeastOne
  <2>2. (CHOOSE i \in places : \A j \in places : i <= j) \in places
    BY <2>1
  <2> QED BY <1>2, <1>4, <1>5, <1>6, <2>2
<1> QED BY <1>2, <1>5, <1>6

\* Two numbers the other way round.
LEMMA OrderFlips ==
  ASSUME NEW m \in Int, NEW n \in Int
  PROVE  /\ OrderOf(m, n) # "unordered"
         /\ OrderOf(m, n) = "above" => OrderOf(n, m) = "below"
BY DEF OrderOf

\* A run of digits, a run of letters, a dot or a dash.
Marks == Nat \X Nat

\* The natural comparison the other way round.
LEMMA NaturalFlips ==
  ASSUME NEW x \in Seq(Marks), NEW y \in Seq(Marks)
  PROVE  /\ NaturalCompare(x, y) = "above" => NaturalCompare(y, x) = "below"
         /\ NaturalCompare(x, y) = "unordered" <=> NaturalCompare(y, x) = "unordered"
<1> DEFINE i == Differ(x, y)
<1>1. Differ(y, x) = i /\ (i # 0 => i \in DOMAIN x \cap DOMAIN y)
  BY DifferIs
<1>2. NaturalCompare(x, y) = IF i = 0 THEN OrderOf(Len(x), Len(y))
                             ELSE IF x[i][1] = 0 /\ y[i][1] = 0 THEN OrderOf(x[i][2], y[i][2])
                             ELSE "unordered"
  BY DEF NaturalCompare
<1>3. NaturalCompare(y, x) = IF i = 0 THEN OrderOf(Len(y), Len(x))
                             ELSE IF y[i][1] = 0 /\ x[i][1] = 0 THEN OrderOf(y[i][2], x[i][2])
                             ELSE "unordered"
  BY <1>1 DEF NaturalCompare
<1> HIDE DEF i
<1>4. CASE i = 0
  BY <1>2, <1>3, <1>4, OrderFlips
<1>5. CASE i # 0
  <2>1. x[i] \in Marks /\ y[i] \in Marks
    BY <1>1, <1>5
  <2>2. x[i][2] \in Int /\ y[i][2] \in Int
    BY <2>1, SMTT(30) DEF Marks
  <2> QED BY <1>2, <1>3, <1>5, <2>2, OrderFlips
<1> QED BY <1>4, <1>5

\* The semver library's comparison of builds, the other way round.
LEMMA BuildsFlip ==
  ASSUME NEW x \in Seq(Marks), NEW y \in Seq(Marks), SemverBuilds(x, y) = "above"
  PROVE  SemverBuilds(y, x) = "below"
<1> DEFINE i == Differ(x, y)
<1>1. Differ(y, x) = i /\ (i # 0 => i \in DOMAIN x \cap DOMAIN y)
  BY DifferIs
<1>2. CASE (x = <<>>) # (y = <<>>)
  BY <1>2 DEF SemverBuilds
<1>3. CASE (x = <<>>) = (y = <<>>)
  <2>1. SemverBuilds(x, y) = IF i = 0 THEN OrderOf(Len(x), Len(y))
                             ELSE IF x[i][1] # y[i][1] THEN OrderOf(x[i][1], y[i][1])
                             ELSE OrderOf(x[i][2], y[i][2])
    BY <1>3 DEF SemverBuilds
  <2>2. SemverBuilds(y, x) = IF i = 0 THEN OrderOf(Len(y), Len(x))
                             ELSE IF y[i][1] # x[i][1] THEN OrderOf(y[i][1], x[i][1])
                             ELSE OrderOf(y[i][2], x[i][2])
    BY <1>1, <1>3 DEF SemverBuilds
  <2> HIDE DEF i
  <2>3. CASE i = 0
    BY <2>1, <2>2, <2>3, OrderFlips
  <2>4. CASE i # 0
    <3>1. x[i] \in Marks /\ y[i] \in Marks
      BY <1>1, <2>4
    <3>2. x[i][1] \in Int /\ x[i][2] \in Int /\ y[i][1] \in Int /\ y[i][2] \in Int
      BY <3>1, SMTT(30) DEF Marks
    <3> QED BY <2>1, <2>2, <2>4, <3>2, OrderFlips
  <2> QED BY <2>3, <2>4
<1> QED BY <1>2, <1>3

\* A build is a sequence of marks.
LEMMA BuildsAreMarks ==
  ASSUME NEW build \in Seq({0, 1} \X Nat)
  PROVE  build \in Seq(Marks)
<1>1. {0, 1} \X Nat \subseteq Marks
  BY DEF Marks
<1> DEFINE S == {0, 1} \X Nat
<1>2. build \in Seq(S) /\ S \subseteq Marks
  BY <1>1
<1> HIDE DEF S
<1> QED BY <1>2

\* A tag, from its first character to its last, is a sequence of marks.
LEMMA RunsAreMarks ==
  ASSUME NEW t \in Tags, VersionLike(t)
  PROVE  Runs(t) \in Seq(Marks)
<1> DEFINE first == [i \in 1..(2 * Len(t.numbers) - 1) |->
                       IF i % 2 = 1 THEN Number(t.numbers[(i + 1) \div 2]) ELSE Dot]
           second == IF t.build = <<>> THEN <<>> ELSE <<Dash>> \o t.build
<1>1. t.numbers \in Seq(Nat) /\ t.build \in Seq({0, 1} \X Nat) /\ Len(t.numbers) \in Nat /\ Len(t.numbers) # 0
  BY DEF Tags, VersionLike
<1>2. first \in Seq(Marks)
  <2>1. 2 * Len(t.numbers) - 1 \in Nat
    BY <1>1
  <2>2. ASSUME NEW i \in 1..(2 * Len(t.numbers) - 1) PROVE first[i] \in Marks
    <3>1. CASE i % 2 = 1
      <4>1. (i + 1) \div 2 \in 1..Len(t.numbers)
        BY <1>1
      <4>2. t.numbers[(i + 1) \div 2] \in Nat
        BY <1>1, <4>1
      <4> QED BY <3>1, <4>2 DEF Number, Marks
    <3>2. CASE i % 2 # 1
      BY <3>2 DEF Dot, Marks
    <3> QED BY <3>1, <3>2
  <2>3. first \in [1..(2 * Len(t.numbers) - 1) -> Marks]
    BY <2>2
  <2> HIDE DEF first
  <2> QED BY <2>1, <2>3
<1>3. second \in Seq(Marks)
  <2>1. t.build \in Seq(Marks)
    BY <1>1, BuildsAreMarks
  <2>2. <<Dash>> \in Seq(Marks) /\ <<>> \in Seq(Marks)
    BY DEF Dash, Marks
  <2> QED BY <2>1, <2>2
<1>4. Runs(t) = first \o second
  BY DEF Runs
<1> HIDE DEF first, second
<1> QED BY <1>2, <1>3, <1>4

\* Three numbers are numbers.
LEMMA PaddedIsNumbers ==
  ASSUME NEW t \in Tags, IsSemver(t)
  PROVE  Padded(t) \in Seq(Nat)
<1> DEFINE zeros == [i \in 1..(3 - Len(t.numbers)) |-> 0]
<1>1. t.numbers \in Seq(Nat)
  BY DEF Tags
<1>2. Len(t.numbers) \in 1..3
  BY DEF IsSemver
<1>3. 3 - Len(t.numbers) \in Nat
  <2> DEFINE n == Len(t.numbers)
  <2>1. n \in 1..3
    BY <1>2
  <2> HIDE DEF n
  <2>2. 3 - n \in Nat
    BY <2>1
  <2> QED BY <2>2 DEF n
<1>4. zeros \in Seq(Nat)
  BY <1>3
<1>5. Padded(t) = t.numbers \o zeros
  BY DEF Padded
<1> HIDE DEF zeros
<1> QED BY <1>1, <1>4, <1>5

\* The comparison of two semvers, the other way round.
LEMMA SemverFlips ==
  ASSUME NEW s \in Tags, NEW t \in Tags, IsSemver(s), IsSemver(t), CompareSemver(s, t) = "above"
  PROVE  CompareSemver(t, s) = "below"
<1> DEFINE p == Padded(s)
           q == Padded(t)
           i == Differ(p, q)
<1>1. p \in Seq(Nat) /\ q \in Seq(Nat) /\ s.build \in Seq(Marks) /\ t.build \in Seq(Marks)
  <2>1. s.build \in Seq({0, 1} \X Nat) /\ t.build \in Seq({0, 1} \X Nat)
    BY DEF Tags
  <2> QED BY <2>1, PaddedIsNumbers, BuildsAreMarks
<1>2. CompareSemver(s, t) = IF i # 0 THEN OrderOf(p[i], q[i])
                            ELSE IF s.build # <<>> /\ t.build # <<>> /\ NaturalCompare(s.build, t.build) # "unordered"
                                 THEN NaturalCompare(s.build, t.build)
                            ELSE SemverBuilds(s.build, t.build)
  BY DEF CompareSemver
<1> HIDE DEF p, q
<1>3. Differ(q, p) = i /\ (i # 0 => i \in DOMAIN p \cap DOMAIN q)
  BY <1>1, DifferIs
<1>4. CompareSemver(t, s) = IF i # 0 THEN OrderOf(q[i], p[i])
                            ELSE IF t.build # <<>> /\ s.build # <<>> /\ NaturalCompare(t.build, s.build) # "unordered"
                                 THEN NaturalCompare(t.build, s.build)
                            ELSE SemverBuilds(t.build, s.build)
  BY <1>3 DEF CompareSemver, p, q
<1> HIDE DEF i
<1>5. CASE i # 0
  <2>1. p[i] \in Int /\ q[i] \in Int
    BY <1>1, <1>3, <1>5
  <2> QED BY <1>2, <1>4, <1>5, <2>1, OrderFlips
<1>6. CASE i = 0
  BY <1>1, <1>2, <1>4, <1>6, NaturalFlips, BuildsFlip
<1> QED BY <1>5, <1>6

(* A tag above another: that one is below it.                                *)
LEMMA AboveIsBelow ==
  ASSUME NEW s \in Tags, NEW t \in Tags, CompareTags(s, t) = "above"
  PROVE  CompareTags(t, s) = "below"
<1>1. s # t
  BY DEF CompareTags
<1>2. CASE IsSemver(s) /\ IsSemver(t)
  BY <1>1, <1>2, SemverFlips DEF CompareTags
<1>3. CASE ~(IsSemver(s) /\ IsSemver(t))
  <2>1. VersionLike(s) /\ VersionLike(t) /\ NaturalCompare(Runs(s), Runs(t)) = "above"
    BY <1>1, <1>3 DEF CompareTags
  <2>2. NaturalCompare(Runs(t), Runs(s)) = "below"
    BY <2>1, RunsAreMarks, NaturalFlips
  <2> QED BY <1>1, <1>3, <2>1, <2>2 DEF CompareTags
<1> QED BY <1>2, <1>3

(* What an offered update writes goes forward.                               *)
LEMMA AnOfferGoesForward ==
  ASSUME NEW app, NEW store, NEW said \in BOOLEAN, Tagged(app), Tagged(store),
         IsUpdateAvailableWith(app, store, said)
  PROVE  GoesForward(app, store, said, UpdatedComposeYAML(app, store))
<1> DEFINE after == UpdatedComposeYAML(app, store)
           plan == PlanUpdateAll(app, store)
           written == Written(app, store)
           changed == {s \in DOMAIN app : after[s] # app[s]}
           rose == {s \in changed : NoTag \notin {after[s].tag, app[s].tag}
                                    /\ CompareTags(after[s].tag, app[s].tag) = "above"}
<1>1. /\ Runs_(store) \subseteq Runs_(app)
      /\ \A s \in written : ~Backwards(app[s], store[s])
      /\ written # {} \/ said
  BY DEF IsUpdateAvailableWith, ServicesUpdateCannotCreate
<1>2. /\ after = [s \in DOMAIN app |->
                   IF s \in Runs_(store) /\ UpdateWritesStoreImage(app[s], store[s]) THEN store[s] ELSE app[s]]
  BY <1>1 DEF UpdatedComposeYAML, ServicesUpdateCannotCreate
<1>3. /\ written \subseteq DOMAIN app /\ DOMAIN after = DOMAIN app
      /\ \A s \in DOMAIN app : after[s] = IF s \in written THEN store[s] ELSE app[s]
  BY <1>1, <1>2 DEF Written, Runs_
<1>4. changed = written
  BY <1>3 DEF Written
<1>5. \A s \in changed : ~Backwards(app[s], after[s])
  BY <1>1, <1>3, <1>4
<1>6. \A s \in DOMAIN app : after[s] = IF s \in DOMAIN plan THEN plan[s].to ELSE app[s]
  <2>1. plan = IF written # {} THEN [s \in written |-> [from |-> app[s], to |-> store[s]]]
               ELSE [s \in Runs_(app) |-> [from |-> app[s], to |-> app[s]]]
    BY DEF PlanUpdateAll, Written
  <2> HIDE DEF after, plan, written
  <2>2. CASE written # {}
    BY <1>3, <2>1, <2>2
  <2>3. CASE written = {}
    BY <1>3, <2>1, <2>3
  <2> QED BY <2>2, <2>3
<1>7. ~IsUpdateAvailableWith(after, store, FALSE)
  <2>1. Written(after, store) = {}
    BY <1>1, <1>2 DEF Written, Runs_
  <2> QED BY <2>1 DEF IsUpdateAvailableWith
<1>8. rose # {} => ~IsUpdateAvailableWith(after, app, FALSE)
  <2> SUFFICES ASSUME NEW s \in rose PROVE ~IsUpdateAvailableWith(after, app, FALSE)
    OBVIOUS
  <2>1. /\ s \in written /\ after[s] = store[s] /\ app[s] # store[s]
        /\ app[s].tag # NoTag /\ store[s].tag # NoTag /\ CompareTags(store[s].tag, app[s].tag) = "above"
    BY <1>3, <1>4
  <2>2. app[s] # NoService /\ store[s] # NoService /\ s \in DOMAIN app /\ s \in DOMAIN store
        /\ UpdateWritesStoreImage(app[s], store[s])
    BY <2>1 DEF Written, Runs_
  <2>3. app[s].tag \in Tags /\ store[s].tag \in Tags
    BY <2>1, <2>2 DEF Tagged
  <2>4. CompareTags(app[s].tag, store[s].tag) = "below" /\ app[s].tag # store[s].tag
    BY <2>1, <2>3, AboveIsBelow DEF CompareTags
  <2>5. Backwards(after[s], app[s])
    BY <2>1, <2>4 DEF Backwards
  <2>6. s \in Written(after, app)
    BY <1>3, <2>1, <2>2 DEF Written, Runs_, UpdateWritesStoreImage
  <2> HIDE DEF after
  <2> QED BY <2>5, <2>6 DEF IsUpdateAvailableWith
<1>9. changed # {} \/ said
  BY <1>1, <1>4
<1> QED BY <1>5, <1>6, <1>7, <1>8, <1>9 DEF GoesForward

-----------------------------------------------------------------------------
(* What the maps of answers hold.                                            *)
Values == {"yes", "no", "unknown"}

UpdatesTypes ==
  /\ DOMAIN file = Apps /\ DOMAIN catalogue = Apps /\ moved \subseteq Apps
  /\ \A a \in Apps : /\ file[a] = NotInstalled \/ Tagged(file[a])
                     /\ catalogue[a] = NoEntry \/ Tagged(catalogue[a])
  /\ registry \in [Apps -> Values] /\ offered \in [Apps -> Values] /\ answer \in [Apps -> Values]
  /\ stored \in [Apps -> Values] \X [Apps -> Values]
  /\ sweep = [at |-> sweep.at, copies |-> sweep.copies, fresh |-> sweep.fresh, todo |-> sweep.todo,
              found |-> sweep.found, clean |-> sweep.clean]
  /\ sweep.at \in {"idle", "ask", "remember", "decide", "save"}
  /\ update = [at |-> update.at, app |-> update.app, copy |-> update.copy, force |-> update.force,
               inRun |-> update.inRun, said |-> update.said, clean |-> update.clean]
  /\ update.at \in {"idle", "check", "save", "decide", "prepare", "forget", "finish"}
  /\ update.clean \in BOOLEAN /\ update.said \in BOOLEAN /\ update.force \in BOOLEAN
  /\ update.at # "idle" => update.app \in Apps
  /\ asker = [app |-> asker.app, value |-> asker.value, clean |-> asker.clean]
  /\ asker.clean \in BOOLEAN /\ asker.value \in {"yes", "no"}
  /\ asker.app # "none" => asker.app \in Apps

(* What the button of an app would do now. *)
OnOffer(a) == a \in Installed /\ IsUpdateAvailable(file[a], catalogue[a], a \in moved)

(* What is known of an app, unless something overtook it or the update that  *)
(* was just applied is yet to have it forgotten.                             *)
AtForget(a) == update.app = a /\ update.at = "forget"
AtFinish(a) == update.app = a /\ update.at \in {"forget", "finish"}
RegistryInv(a) == registry[a] = "yes" /\ <<a, "registry">> \notin excused /\ ~AtForget(a) => a \in moved
OfferedInv(a) == offered[a] = "yes" /\ <<a, "offered">> \notin excused /\ ~AtForget(a) => OnOffer(a)
AnswerInv(a) == answer[a] = "yes" /\ <<a, "answer">> \notin excused /\ ~AtFinish(a) => OnOffer(a)
KnownInv == \A a \in Apps : RegistryInv(a) /\ OfferedInv(a) /\ AnswerInv(a)

(* The sweep, about the apps that nothing happened to since it began.        *)
SweepInv ==
  /\ DOMAIN sweep.copies \subseteq Apps /\ DOMAIN sweep.fresh \subseteq Apps
  /\ sweep.todo \subseteq Apps /\ DOMAIN sweep.found \subseteq Apps
  /\ sweep.todo \cap DOMAIN sweep.found = {}
  /\ sweep.at \in {"ask", "remember"} => DOMAIN sweep.found = {}
  /\ \A a \in sweep.clean : a \in Installed /\ sweep.copies[a] = file[a]
  /\ sweep.at = "remember" => \A a \in sweep.clean \cap DOMAIN sweep.fresh : sweep.fresh[a] = "yes" => a \in moved
  /\ sweep.at = "decide" =>
       \A a \in sweep.clean : /\ a \in sweep.todo /\ registry[a] = "yes" => a \in moved
                              /\ a \in DOMAIN sweep.found /\ sweep.found[a] = "yes" => OnOffer(a)
  /\ \A a \in DOMAIN sweep.fresh : sweep.fresh[a] \in {"yes", "no"}
  /\ \A a \in DOMAIN sweep.found : sweep.found[a] \in {"yes", "no"}

PageInv == \A a \in Apps : asker.app = a /\ asker.clean /\ asker.value = "yes" => OnOffer(a)

(* Nobody edits an app or takes it off while it is updated.                  *)
UpdateInv ==
  /\ update.at \in {"check", "save", "decide", "prepare"} => update.app \in Installed /\ update.copy = file[update.app]
  /\ update.at = "prepare" /\ ~update.force /\ update.clean =>
       IsUpdateAvailable(file[update.app], catalogue[update.app], update.said)

UpdatesInv == UpdatesTypes /\ KnownInv /\ SweepInv /\ PageInv /\ UpdateInv

-----------------------------------------------------------------------------
(* An offer is one for the compose file, or one for what moved: that an      *)
(* image moved takes none back.                                              *)
ForTheFile(app, store) == IsUpdateAvailable(app, store, FALSE)
ForTheMove(app, store) == IsUpdateAvailable(app, store, TRUE)

LEMMA OfferIs ==
  ASSUME NEW app, NEW store, NEW m \in BOOLEAN
  PROVE  IsUpdateAvailable(app, store, m) <=> ForTheFile(app, store) \/ (m /\ ForTheMove(app, store))
<1>1. CASE m = TRUE
  BY <1>1 DEF IsUpdateAvailable, IsUpdateAvailableWith, ForTheFile, ForTheMove
<1>2. CASE m = FALSE
  BY <1>2 DEF IsUpdateAvailable, IsUpdateAvailableWith, ForTheFile, ForTheMove
<1> QED BY <1>1, <1>2

(* The same of the button, before a step and after it.                       *)
LEMMA OnOfferIs ==
  ASSUME NEW a \in Apps
  PROVE  /\ OnOffer(a) <=> file[a] # NotInstalled
                           /\ (ForTheFile(file[a], catalogue[a])
                               \/ (a \in moved /\ ForTheMove(file[a], catalogue[a])))
         /\ OnOffer(a)' <=> file'[a] # NotInstalled
                            /\ (ForTheFile(file'[a], catalogue'[a])
                                \/ (a \in moved' /\ ForTheMove(file'[a], catalogue'[a])))
<1>1. IsUpdateAvailable(file[a], catalogue[a], a \in moved)
        <=> ForTheFile(file[a], catalogue[a]) \/ (a \in moved /\ ForTheMove(file[a], catalogue[a]))
  <2> DEFINE m == a \in moved
  <2>1. m \in BOOLEAN
    OBVIOUS
  <2> HIDE DEF m
  <2>2. IsUpdateAvailable(file[a], catalogue[a], m)
          <=> ForTheFile(file[a], catalogue[a]) \/ (m /\ ForTheMove(file[a], catalogue[a]))
    BY <2>1, OfferIs
  <2> QED BY <2>2 DEF m
<1>2. IsUpdateAvailable(file'[a], catalogue'[a], a \in moved')
        <=> ForTheFile(file'[a], catalogue'[a]) \/ (a \in moved' /\ ForTheMove(file'[a], catalogue'[a]))
  <2> DEFINE m == a \in moved'
  <2>1. m \in BOOLEAN
    OBVIOUS
  <2> HIDE DEF m
  <2>2. IsUpdateAvailable(file'[a], catalogue'[a], m)
          <=> ForTheFile(file'[a], catalogue'[a]) \/ (m /\ ForTheMove(file'[a], catalogue'[a]))
    BY <2>1, OfferIs
  <2> QED BY <2>2 DEF m
<1> QED BY <1>1, <1>2, Zenon DEF OnOffer, Installed

(* A value that was worked out from what a registry said, or from what is.   *)
LEMMA WhatARegistrySays ==
  ASSUME NEW app, NEW store, NEW r
  PROVE  /\ IsUpdateAvailable(app, store, r = "yes") <=> ForTheFile(app, store) \/ (r = "yes" /\ ForTheMove(app, store))
         /\ YesNo(IsUpdateAvailable(app, store, r = "yes")) \in {"yes", "no"}
         /\ YesNo(IsUpdateAvailable(app, store, r = "yes")) = "yes"
              <=> ForTheFile(app, store) \/ (r = "yes" /\ ForTheMove(app, store))
<1> DEFINE m == r = "yes"
<1>1. m \in BOOLEAN
  OBVIOUS
<1> HIDE DEF m
<1>2. IsUpdateAvailable(app, store, m) <=> ForTheFile(app, store) \/ (m /\ ForTheMove(app, store))
  BY <1>1, OfferIs
<1> QED BY <1>2 DEF m, YesNo

(* The same of what the containers run.                                      *)
LEMMA WhatThereIs ==
  ASSUME NEW app, NEW store, NEW a, NEW S
  PROVE  /\ YesNo(IsUpdateAvailable(app, store, a \in S)) \in {"yes", "no"}
         /\ YesNo(IsUpdateAvailable(app, store, a \in S)) = "yes"
              <=> ForTheFile(app, store) \/ (a \in S /\ ForTheMove(app, store))
<1> DEFINE m == a \in S
<1>1. m \in BOOLEAN
  OBVIOUS
<1> HIDE DEF m
<1>2. IsUpdateAvailable(app, store, m) <=> ForTheFile(app, store) \/ (m /\ ForTheMove(app, store))
  BY <1>1, OfferIs
<1> QED BY <1>2 DEF m, YesNo

(* An update leaves an app tagged.                                           *)
LEMMA UpdatesKeepTags ==
  ASSUME NEW app, NEW store, Tagged(app), store = NoEntry \/ Tagged(store)
  PROVE  Tagged(ComposeYAMLForUpdate(app, store))
<1>1. CASE store = NoEntry
  BY <1>1 DEF ComposeYAMLForUpdate
<1>2. CASE store # NoEntry /\ ServicesUpdateCannotCreate(app, store) # {}
  BY <1>2 DEF ComposeYAMLForUpdate, UpdatedComposeYAML
<1>3. CASE store # NoEntry /\ ServicesUpdateCannotCreate(app, store) = {}
  BY <1>3 DEF ComposeYAMLForUpdate, UpdatedComposeYAML, Tagged, Runs_
<1> QED BY <1>1, <1>2, <1>3

(* The invariant holds at the start.                                         *)
LEMMA UpdatesStart == UpdatesInit => UpdatesInv
<1> SUFFICES ASSUME UpdatesInit PROVE UpdatesInv
  OBVIOUS
<1> USE DEF UpdatesInit, Unknown, NoSweep, NoUpdate, NoAsker
<1>1. UpdatesTypes
  BY UpdatesAssumption DEF UpdatesTypes, Values
<1>2. KnownInv
  BY DEF KnownInv, RegistryInv, OfferedInv, AnswerInv
<1>3. SweepInv
  BY DEF SweepInv
<1>4. PageInv /\ UpdateInv
  BY DEF PageInv, UpdateInv
<1> QED BY <1>1, <1>2, <1>3, <1>4 DEF UpdatesInv

(* What happens to an app overtakes the answers that are kept, and no other. *)
LEMMA OvertakesIs ==
  ASSUME NEW x, NEW kept, Overtakes(x, kept)
  PROVE  \A a, w : <<a, w>> \in excused' <=> <<a, w>> \in excused \/ (a = x /\ w \in kept)
BY DEF Overtakes

-----------------------------------------------------------------------------
(* The offers of all apps, before a step and after it.                       *)
Offers ==
  \A a \in Apps :
    /\ OnOffer(a) <=> file[a] # NotInstalled
                      /\ (ForTheFile(file[a], catalogue[a])
                          \/ (a \in moved /\ ForTheMove(file[a], catalogue[a])))
    /\ OnOffer(a)' <=> file'[a] # NotInstalled
                       /\ (ForTheFile(file'[a], catalogue'[a])
                           \/ (a \in moved' /\ ForTheMove(file'[a], catalogue'[a])))

(* OnOfferIs, of all apps.                                                   *)
LEMMA OffersAre == Offers
BY OnOfferIs DEF Offers

\* The catalogue moves, what is cached is dropped: the badge is overtaken.
LEMMA CatalogueMovesKeeps ==
  ASSUME UpdatesInv, NEW x \in Apps, CatalogueMoves(x)
  PROVE  UpdatesInv'
<1> USE DEF CatalogueMoves, apps, answers, Installed, Turn, Overtakes, Unknown
<1>0. Offers
  BY OffersAre
<1>11. \A a, w : <<a, w>> \in excused' <=> <<a, w>> \in excused \/ (a = x /\ w \in {"offered"})
  BY OvertakesIs
<1>12. PICK f \in Files \cup {NoEntry} : catalogue' = [catalogue EXCEPT ![x] = f]
  OBVIOUS
<1>1. UpdatesTypes'
  BY <1>12, UpdatesAssumption DEF UpdatesInv, UpdatesTypes, Values
<1>2. KnownInv'
  <2> SUFFICES ASSUME NEW a \in Apps PROVE (RegistryInv(a) /\ OfferedInv(a) /\ AnswerInv(a))'
    BY DEF KnownInv
  <2>1. RegistryInv(a) /\ OfferedInv(a) /\ AnswerInv(a)
    BY DEF UpdatesInv, KnownInv
  <2>2. RegistryInv(a)'
    BY <1>0, <2>1, <1>11
    DEF UpdatesTypes, UpdatesInv, Offers, RegistryInv, OfferedInv, AnswerInv, AtForget, AtFinish
  <2>3. OfferedInv(a)'
    BY <1>0, <2>1, <1>11, <1>12
    DEF UpdatesTypes, UpdatesInv, Offers, RegistryInv, OfferedInv, AnswerInv, AtForget, AtFinish
  <2>4. AnswerInv(a)'
    BY <1>0, <2>1, <1>11
    DEF UpdatesTypes, UpdatesInv, Offers, RegistryInv, OfferedInv, AnswerInv, AtForget, AtFinish
  <2> QED BY <2>2, <2>3, <2>4
<1>3. SweepInv'
  BY <1>0 DEF UpdatesInv, UpdatesTypes, SweepInv, Offers
<1>4. PageInv'
  BY <1>0 DEF UpdatesInv, UpdatesTypes, PageInv, Offers
<1>5. UpdateInv'
  BY DEF UpdatesInv, UpdatesTypes, UpdateInv
<1> QED BY <1>1, <1>2, <1>3, <1>4, <1>5 DEF UpdatesInv

\* An image moves: it takes no offer back.
LEMMA RepublishesKeeps ==
  ASSUME UpdatesInv, NEW x \in Apps, Republishes(x)
  PROVE  UpdatesInv'
<1> USE DEF Republishes, apps, answers, Installed, Turn
<1>0. Offers
  BY OffersAre
<1>1. UpdatesTypes'
  BY DEF UpdatesInv, UpdatesTypes, Values
<1>2. KnownInv'
  BY <1>0
  DEF UpdatesInv, UpdatesTypes, KnownInv, Offers, RegistryInv, OfferedInv, AnswerInv, AtForget, AtFinish
<1>3. SweepInv'
  BY <1>0 DEF UpdatesInv, UpdatesTypes, SweepInv, Offers
<1>4. PageInv'
  BY <1>0 DEF UpdatesInv, UpdatesTypes, PageInv, Offers
<1>5. UpdateInv'
  BY DEF UpdatesInv, UpdatesTypes, UpdateInv
<1> QED BY <1>1, <1>2, <1>3, <1>4, <1>5 DEF UpdatesInv

\* All that was known of the app is overtaken.
LEMMA EditsKeeps ==
  ASSUME UpdatesInv, NEW x \in Apps, Edits(x)
  PROVE  UpdatesInv'
<1> USE DEF Edits, apps, answers, Installed, Turn, Overtakes
<1>0. Offers
  BY OffersAre
<1>11. \A a, w : <<a, w>> \in excused' <=> <<a, w>> \in excused \/ (a = x /\ w \in {"registry", "offered", "answer"})
  BY OvertakesIs
<1>12. PICK f \in Files : file' = [file EXCEPT ![x] = f]
  OBVIOUS
<1>1. UpdatesTypes'
  BY <1>12, UpdatesAssumption DEF UpdatesInv, UpdatesTypes, Values
<1>2. KnownInv'
  <2> SUFFICES ASSUME NEW a \in Apps PROVE (RegistryInv(a) /\ OfferedInv(a) /\ AnswerInv(a))'
    BY DEF KnownInv
  <2>1. RegistryInv(a) /\ OfferedInv(a) /\ AnswerInv(a)
    BY DEF UpdatesInv, KnownInv
  <2>2. RegistryInv(a)'
    BY <1>0, <2>1, <1>11, <1>12
    DEF UpdatesTypes, UpdatesInv, Offers, RegistryInv, OfferedInv, AnswerInv, AtForget, AtFinish
  <2>3. OfferedInv(a)'
    BY <1>0, <2>1, <1>11, <1>12
    DEF UpdatesTypes, UpdatesInv, Offers, RegistryInv, OfferedInv, AnswerInv, AtForget, AtFinish
  <2>4. AnswerInv(a)'
    BY <1>0, <2>1, <1>11, <1>12
    DEF UpdatesTypes, UpdatesInv, Offers, RegistryInv, OfferedInv, AnswerInv, AtForget, AtFinish
  <2> QED BY <2>2, <2>3, <2>4
<1>3. SweepInv'
  BY <1>0 DEF UpdatesInv, UpdatesTypes, SweepInv, Offers
<1>4. PageInv'
  BY <1>0 DEF UpdatesInv, UpdatesTypes, PageInv, Offers
<1>5. UpdateInv'
  BY DEF UpdatesInv, UpdatesTypes, UpdateInv
<1> QED BY <1>1, <1>2, <1>3, <1>4, <1>5 DEF UpdatesInv

\* The badge is forgotten, the cached answer overtaken.
LEMMA UninstallsKeeps ==
  ASSUME UpdatesInv, NEW x \in Apps, Uninstalls(x)
  PROVE  UpdatesInv'
<1> USE DEF Uninstalls, apps, answers, Installed, Turn, Overtakes, ForgetImageUpdates
<1>0. Offers
  BY OffersAre
<1>11. \A a, w : <<a, w>> \in excused' <=> <<a, w>> \in excused \/ (a = x /\ w \in {"answer"})
  BY OvertakesIs
<1>1. UpdatesTypes'
  BY DEF UpdatesInv, UpdatesTypes, Values
<1>2. KnownInv'
  <2> SUFFICES ASSUME NEW a \in Apps PROVE (RegistryInv(a) /\ OfferedInv(a) /\ AnswerInv(a))'
    BY DEF KnownInv
  <2>1. RegistryInv(a) /\ OfferedInv(a) /\ AnswerInv(a)
    BY DEF UpdatesInv, KnownInv
  <2>2. RegistryInv(a)'
    BY <1>0, <2>1, <1>11
    DEF UpdatesTypes, UpdatesInv, Offers, RegistryInv, OfferedInv, AnswerInv, AtForget, AtFinish
  <2>3. OfferedInv(a)'
    BY <1>0, <2>1, <1>11
    DEF UpdatesTypes, UpdatesInv, Offers, RegistryInv, OfferedInv, AnswerInv, AtForget, AtFinish
  <2>4. AnswerInv(a)'
    BY <1>0, <2>1, <1>11
    DEF UpdatesTypes, UpdatesInv, Offers, RegistryInv, OfferedInv, AnswerInv, AtForget, AtFinish
  <2> QED BY <2>2, <2>3, <2>4
<1>3. SweepInv'
  BY <1>0 DEF UpdatesInv, UpdatesTypes, SweepInv, Offers
<1>4. PageInv'
  BY <1>0 DEF UpdatesInv, UpdatesTypes, PageInv, Offers
<1>5. UpdateInv'
  BY DEF UpdatesInv, UpdatesTypes, UpdateInv
<1> QED BY <1>1, <1>2, <1>3, <1>4, <1>5 DEF UpdatesInv

\* Of an app that is not there, nothing is on offer.
LEMMA InstallsKeeps ==
  ASSUME UpdatesInv, NEW x \in Apps, Installs(x)
  PROVE  UpdatesInv'
<1> USE DEF Installs, apps, answers, Installed, Overtakes
<1>0. Offers
  BY OffersAre
<1>11. \A a, w : <<a, w>> \in excused' <=> <<a, w>> \in excused \/ (a = x /\ w \in {})
  BY OvertakesIs
<1>12. PICK f \in Files : file' = [file EXCEPT ![x] = f]
  OBVIOUS
<1>1. UpdatesTypes'
  BY <1>12, UpdatesAssumption DEF UpdatesInv, UpdatesTypes, Values
<1>2. KnownInv'
  <2> SUFFICES ASSUME NEW a \in Apps PROVE (RegistryInv(a) /\ OfferedInv(a) /\ AnswerInv(a))'
    BY DEF KnownInv
  <2>1. RegistryInv(a) /\ OfferedInv(a) /\ AnswerInv(a)
    BY DEF UpdatesInv, KnownInv
  <2>2. RegistryInv(a)'
    BY <1>0, <2>1, <1>11, <1>12
    DEF UpdatesTypes, UpdatesInv, Offers, RegistryInv, OfferedInv, AnswerInv, AtForget, AtFinish
  <2>3. OfferedInv(a)'
    BY <1>0, <2>1, <1>11, <1>12
    DEF UpdatesTypes, UpdatesInv, Offers, RegistryInv, OfferedInv, AnswerInv, AtForget, AtFinish
  <2>4. AnswerInv(a)'
    BY <1>0, <2>1, <1>11, <1>12
    DEF UpdatesTypes, UpdatesInv, Offers, RegistryInv, OfferedInv, AnswerInv, AtForget, AtFinish
  <2> QED BY <2>2, <2>3, <2>4
<1>3. SweepInv'
  BY <1>0 DEF UpdatesInv, UpdatesTypes, SweepInv, Offers
<1>4. PageInv'
  BY <1>0 DEF UpdatesInv, UpdatesTypes, PageInv, Offers
<1>5. UpdateInv'
  BY DEF UpdatesInv, UpdatesTypes, UpdateInv
<1> QED BY <1>1, <1>2, <1>3, <1>4, <1>5 DEF UpdatesInv

\* The copy of an app that nothing happened to is its file, and its verdict is one that holds.
LEMMA SweepDecidesKeeps ==
  ASSUME UpdatesInv, NEW x \in Apps, SweepDecides(x)
  PROVE  UpdatesInv'
<1> USE DEF SweepDecides, apps, answers, Installed
<1>0. Offers
  BY OffersAre
<1> DEFINE value == YesNo(IsUpdateAvailable(sweep.copies[x], catalogue[x], registry[x] = "yes"))
           clean == {b \in sweep.clean : <<b, "registry">> \notin excused}
<1>10. /\ value \in {"yes", "no"}
       /\ value = "yes" <=> ForTheFile(sweep.copies[x], catalogue[x])
                            \/ (registry[x] = "yes" /\ ForTheMove(sweep.copies[x], catalogue[x]))
  BY WhatARegistrySays
<1>11. \A a, w : <<a, w>> \in excused' <=> \/ <<a, w>> \in excused /\ ~(a \in {x} /\ w = "answer")
                                           \/ a \in {x} /\ a \notin clean /\ w = "answer"
  <2>1. excused' = Overtaken("answer", {x}, clean)
    OBVIOUS
  <2> HIDE DEF SweepDecides, clean, value
  <2> QED BY <2>1 DEF Overtaken
<1>12. /\ sweep' = [sweep EXCEPT !.todo = @ \ {x}, !.found = [b \in DOMAIN @ \cup {x} |-> IF b = x THEN value ELSE @[b]]]
       /\ answer' = [answer EXCEPT ![x] = value]
       /\ UNCHANGED <<file, catalogue, moved, registry, offered, stored, update, asker, run, turns>>
       /\ sweep.at = "decide" /\ x \in sweep.todo
  OBVIOUS
<1> HIDE DEF value, SweepDecides
<1> DEFINE found == [b \in DOMAIN sweep.found \cup {x} |-> IF b = x THEN value ELSE sweep.found[b]]
<1>13. sweep' = [sweep EXCEPT !.todo = sweep.todo \ {x}, !.found = found]
  BY <1>12
<1>14. /\ sweep'.at = sweep.at /\ sweep'.clean = sweep.clean /\ sweep'.todo = sweep.todo \ {x}
       /\ sweep'.copies = sweep.copies /\ sweep'.fresh = sweep.fresh
       /\ DOMAIN sweep'.found = DOMAIN sweep.found \cup {x}
       /\ x \notin DOMAIN sweep.found /\ sweep'.found[x] = value
       /\ \A b \in DOMAIN sweep.found : sweep'.found[b] = sweep.found[b]
  <2>1. sweep' = [at |-> sweep.at, copies |-> sweep.copies, fresh |-> sweep.fresh, todo |-> sweep.todo \ {x},
                  found |-> found, clean |-> sweep.clean]
    BY <1>13 DEF UpdatesInv, UpdatesTypes
  <2>2. x \notin DOMAIN sweep.found
    BY <1>12 DEF UpdatesInv, SweepInv
  <2> QED BY <2>1, <2>2
<1>1. UpdatesTypes'
  BY <1>10, <1>12, <1>13 DEF UpdatesInv, UpdatesTypes, Values
<1>2. KnownInv'
  <2> SUFFICES ASSUME NEW a \in Apps PROVE (RegistryInv(a) /\ OfferedInv(a) /\ AnswerInv(a))'
    BY DEF KnownInv
  <2>1. RegistryInv(a) /\ OfferedInv(a) /\ AnswerInv(a)
    BY DEF UpdatesInv, KnownInv
  <2>2. RegistryInv(a)'
    BY <1>0, <2>1, <1>11, <1>12
    DEF UpdatesTypes, UpdatesInv, Offers, RegistryInv, OfferedInv, AnswerInv, AtForget, AtFinish, SweepInv
  <2>3. OfferedInv(a)'
    BY <1>0, <2>1, <1>11, <1>12
    DEF UpdatesTypes, UpdatesInv, Offers, RegistryInv, OfferedInv, AnswerInv, AtForget, AtFinish, SweepInv
  <2>4. AnswerInv(a)'
    BY <1>0, <2>1, <1>10, <1>11, <1>12
    DEF UpdatesTypes, UpdatesInv, Offers, RegistryInv, OfferedInv, AnswerInv, AtForget, AtFinish, SweepInv
  <2> QED BY <2>2, <2>3, <2>4
<1>3. SweepInv'
  BY <1>0, <1>10, <1>12, <1>14 DEF UpdatesInv, UpdatesTypes, SweepInv, Offers
<1>4. PageInv'
  BY <1>0, <1>12 DEF UpdatesInv, UpdatesTypes, PageInv, Offers
<1>5. UpdateInv'
  BY <1>12 DEF UpdatesInv, UpdatesTypes, UpdateInv
<1> QED BY <1>1, <1>2, <1>3, <1>4, <1>5 DEF UpdatesInv

\* A page works out what the button would do.
LEMMA PageAsksKeeps ==
  ASSUME UpdatesInv, NEW x \in Apps, PageAsks(x)
  PROVE  UpdatesInv'
<1> USE DEF PageAsks, apps, answers, Installed
<1>0. Offers
  BY OffersAre
<1> DEFINE value == YesNo(IsUpdateAvailable(file[x], catalogue[x], registry[x] = "yes"))
           clean == <<x, "registry">> \notin excused /\ ~AtForget(x)
<1>10. /\ value \in {"yes", "no"}
       /\ value = "yes" <=> ForTheFile(file[x], catalogue[x])
                            \/ (registry[x] = "yes" /\ ForTheMove(file[x], catalogue[x]))
  BY WhatARegistrySays
<1>11. clean \in BOOLEAN
  OBVIOUS
<1>12. asker' = [app |-> x, value |-> value, clean |-> clean]
  BY DEF AtForget
<1> HIDE DEF value
<1>13. asker'.app = x /\ asker'.value = value /\ asker'.clean = clean
  BY <1>12
<1>1. UpdatesTypes'
  BY <1>10, <1>11, <1>12 DEF UpdatesInv, UpdatesTypes, Values
<1>2. KnownInv'
  BY <1>0
  DEF UpdatesInv, UpdatesTypes, KnownInv, Offers, RegistryInv, OfferedInv, AnswerInv, AtForget, AtFinish
<1>3. SweepInv'
  BY <1>0 DEF UpdatesInv, UpdatesTypes, SweepInv, Offers
<1>4. PageInv'
  <2> SUFFICES ASSUME clean, value = "yes" PROVE OnOffer(x)'
    BY <1>13 DEF PageInv
  <2>1. registry[x] = "yes" => x \in moved
    BY DEF UpdatesInv, KnownInv, RegistryInv
  <2> QED BY <1>0, <1>10, <2>1 DEF Offers
<1>5. UpdateInv'
  BY DEF UpdatesInv, UpdatesTypes, UpdateInv
<1> QED BY <1>1, <1>2, <1>3, <1>4, <1>5 DEF UpdatesInv

\* A cached answer goes.
LEMMA ExpiresKeeps ==
  ASSUME UpdatesInv, NEW x \in Apps, Expires(x)
  PROVE  UpdatesInv'
<1> USE DEF Expires, apps, answers, Installed
<1>0. Offers
  BY OffersAre
<1>1. UpdatesTypes'
  BY DEF UpdatesInv, UpdatesTypes, Values
<1>2. KnownInv'
  BY <1>0
  DEF UpdatesInv, UpdatesTypes, KnownInv, Offers, RegistryInv, OfferedInv, AnswerInv, AtForget, AtFinish
<1>3. SweepInv'
  BY <1>0 DEF UpdatesInv, UpdatesTypes, SweepInv, Offers
<1>4. PageInv'
  BY <1>0 DEF UpdatesInv, UpdatesTypes, PageInv, Offers
<1>5. UpdateInv'
  BY DEF UpdatesInv, UpdatesTypes, UpdateInv
<1> QED BY <1>1, <1>2, <1>3, <1>4, <1>5 DEF UpdatesInv

\* An update takes the app as it is.
LEMMA UpdateComposeAppKeeps ==
  ASSUME UpdatesInv, NEW x \in Apps, UpdateComposeApp(x)
  PROVE  UpdatesInv'
<1> USE DEF UpdateComposeApp, apps, answers, Installed, Turn, Begins, NoUpdate
<1>0. Offers
  BY OffersAre
<1>10. PICK force \in BOOLEAN : Begins(x, force, FALSE)
  OBVIOUS
<1>11. /\ update'.app = x /\ update'.copy = file[x] /\ update'.force = force /\ update'.clean
       /\ update'.at = IF force THEN "prepare" ELSE "check"
  BY <1>10
<1>1. UpdatesTypes'
  BY DEF UpdatesInv, UpdatesTypes, Values
<1>2. KnownInv'
  BY <1>0
  DEF UpdatesInv, UpdatesTypes, KnownInv, Offers, RegistryInv, OfferedInv, AnswerInv, AtForget, AtFinish
<1>3. SweepInv'
  BY <1>0 DEF UpdatesInv, UpdatesTypes, SweepInv, Offers
<1>4. PageInv'
  BY <1>0 DEF UpdatesInv, UpdatesTypes, PageInv, Offers
<1>5. UpdateInv'
  BY <1>11 DEF UpdatesInv, UpdatesTypes, UpdateInv
<1> QED BY <1>1, <1>2, <1>3, <1>4, <1>5 DEF UpdatesInv

\* What was stored is what was known, or it is overtaken.
LEMMA RestartsKeeps ==
  ASSUME UpdatesInv, Restarts
  PROVE  UpdatesInv'
<1> USE DEF Restarts, apps, answers, Installed, Turn, NoSweep, NoUpdate, NoAsker, Unknown
<1>0. Offers
  BY OffersAre
<1>11. \A a, w : <<a, w>> \in excused' <=>
         /\ a \in Apps /\ w \in {"registry", "offered"}
         /\ <<a, w>> \in excused \/ stored # <<registry, offered>> \/ AtForget(a)
  BY DEF AtForget
<1>12. /\ registry' = stored[1] /\ offered' = stored[2] /\ UNCHANGED <<file, catalogue, moved>>
       /\ answer' = [a \in Apps |-> "unknown"] /\ update'.at = "idle"
  OBVIOUS
<1>1. UpdatesTypes'
  BY DEF UpdatesInv, UpdatesTypes, Values
<1>2. KnownInv'
  <2> SUFFICES ASSUME NEW a \in Apps PROVE (RegistryInv(a) /\ OfferedInv(a) /\ AnswerInv(a))'
    BY DEF KnownInv
  <2>1. RegistryInv(a) /\ OfferedInv(a) /\ (OnOffer(a)' <=> OnOffer(a))
    BY <1>0, <1>12 DEF UpdatesInv, KnownInv, Offers
  <2>2. \A w \in {"registry", "offered"} : <<a, w>> \notin excused' =>
          <<a, w>> \notin excused /\ registry' = registry /\ offered' = offered /\ ~AtForget(a)
    BY <1>11, <1>12
  <2>3. RegistryInv(a)' /\ OfferedInv(a)'
    BY <1>12, <2>1, <2>2 DEF RegistryInv, OfferedInv
  <2>4. AnswerInv(a)'
    BY <1>12 DEF AnswerInv
  <2> QED BY <2>3, <2>4
<1>3. SweepInv'
  BY <1>0 DEF UpdatesInv, UpdatesTypes, SweepInv, Offers
<1>4. PageInv'
  BY <1>0 DEF UpdatesInv, UpdatesTypes, PageInv, Offers
<1>5. UpdateInv'
  BY DEF UpdatesInv, UpdatesTypes, UpdateInv
<1> QED BY <1>1, <1>2, <1>3, <1>4, <1>5 DEF UpdatesInv

\* The sweep takes the apps as they are.
LEMMA SweepStartsKeeps ==
  ASSUME UpdatesInv, SweepStarts
  PROVE  UpdatesInv'
<1> USE DEF SweepStarts, apps, answers, Installed, Turn, NoSweep
<1>0. Offers
  BY OffersAre
<1>1. UpdatesTypes'
  BY DEF UpdatesInv, UpdatesTypes, Values
<1>2. KnownInv'
  BY <1>0
  DEF UpdatesInv, UpdatesTypes, KnownInv, Offers, RegistryInv, OfferedInv, AnswerInv, AtForget, AtFinish
<1>3. SweepInv'
  BY <1>0 DEF UpdatesInv, UpdatesTypes, SweepInv, Offers
<1>4. PageInv'
  BY <1>0 DEF UpdatesInv, UpdatesTypes, PageInv, Offers
<1>5. UpdateInv'
  BY DEF UpdatesInv, UpdatesTypes, UpdateInv
<1> QED BY <1>1, <1>2, <1>3, <1>4, <1>5 DEF UpdatesInv

\* The verdicts are of now.
LEMMA SweepAsksKeeps ==
  ASSUME UpdatesInv, SweepAsks
  PROVE  UpdatesInv'
<1> USE DEF SweepAsks, apps, answers, Installed, Turn, Verdict, YesNo
<1>0. Offers
  BY OffersAre
<1>1. UpdatesTypes'
  BY DEF UpdatesInv, UpdatesTypes, Values
<1>2. KnownInv'
  BY <1>0
  DEF UpdatesInv, UpdatesTypes, KnownInv, Offers, RegistryInv, OfferedInv, AnswerInv, AtForget, AtFinish
<1>3. SweepInv'
  BY <1>0 DEF UpdatesInv, UpdatesTypes, SweepInv, Offers
<1>4. PageInv'
  BY <1>0 DEF UpdatesInv, UpdatesTypes, PageInv, Offers
<1>5. UpdateInv'
  BY DEF UpdatesInv, UpdatesTypes, UpdateInv
<1> QED BY <1>1, <1>2, <1>3, <1>4, <1>5 DEF UpdatesInv

\* The verdicts of the apps that nothing happened to are theirs.
LEMMA SweepRemembersKeeps ==
  ASSUME UpdatesInv, SweepRemembers
  PROVE  UpdatesInv'
<1> USE DEF SweepRemembers, apps, answers, Installed
<1>0. Offers
  BY OffersAre
<1>11. \A a, w : <<a, w>> \in excused' <=> \/ <<a, w>> \in excused /\ ~(a \in DOMAIN sweep.fresh /\ w = "registry")
                                           \/ a \in DOMAIN sweep.fresh /\ a \notin sweep.clean /\ w = "registry"
  <2>1. excused' = Overtaken("registry", DOMAIN sweep.fresh, sweep.clean)
    OBVIOUS
  <2> HIDE DEF SweepRemembers
  <2> QED BY <2>1 DEF Overtaken
<1>1. UpdatesTypes'
  BY DEF UpdatesInv, UpdatesTypes, SweepInv, Values
<1>2. KnownInv'
  <2> SUFFICES ASSUME NEW a \in Apps PROVE (RegistryInv(a) /\ OfferedInv(a) /\ AnswerInv(a))'
    BY DEF KnownInv
  <2>1. RegistryInv(a) /\ OfferedInv(a) /\ AnswerInv(a)
    BY DEF UpdatesInv, KnownInv
  <2>2. RegistryInv(a)'
    BY <1>0, <2>1, <1>11
    DEF UpdatesTypes, UpdatesInv, Offers, RegistryInv, OfferedInv, AnswerInv, AtForget, AtFinish, SweepInv
  <2>3. OfferedInv(a)'
    BY <1>0, <2>1, <1>11
    DEF UpdatesTypes, UpdatesInv, Offers, RegistryInv, OfferedInv, AnswerInv, AtForget, AtFinish, SweepInv
  <2>4. AnswerInv(a)'
    BY <1>0, <2>1, <1>11
    DEF UpdatesTypes, UpdatesInv, Offers, RegistryInv, OfferedInv, AnswerInv, AtForget, AtFinish, SweepInv
  <2> QED BY <2>2, <2>3, <2>4
<1>3. SweepInv'
  BY <1>0 DEF UpdatesInv, UpdatesTypes, SweepInv, Offers
<1>4. PageInv'
  BY <1>0 DEF UpdatesInv, UpdatesTypes, PageInv, Offers
<1>5. UpdateInv'
  BY DEF UpdatesInv, UpdatesTypes, UpdateInv
<1> QED BY <1>1, <1>2, <1>3, <1>4, <1>5 DEF UpdatesInv

\* What was found is kept, of the apps that nothing happened to as theirs.
LEMMA SweepOffersKeeps ==
  ASSUME UpdatesInv, SweepOffers
  PROVE  UpdatesInv'
<1> USE DEF SweepOffers, apps, answers, Installed
<1>0. Offers
  BY OffersAre
<1>11. \A a, w : <<a, w>> \in excused' <=> \/ <<a, w>> \in excused /\ ~(a \in DOMAIN sweep.found /\ w = "offered")
                                           \/ a \in DOMAIN sweep.found /\ a \notin sweep.clean /\ w = "offered"
  <2>1. excused' = Overtaken("offered", DOMAIN sweep.found, sweep.clean)
    OBVIOUS
  <2> HIDE DEF SweepOffers
  <2> QED BY <2>1 DEF Overtaken
<1>12. offered' = [a \in Apps |-> IF a \in DOMAIN sweep.found THEN sweep.found[a] ELSE offered[a]]
  BY DEF UpdatesInv, UpdatesTypes, SweepInv
<1>1. UpdatesTypes'
  BY <1>12 DEF UpdatesInv, UpdatesTypes, SweepInv, Values
<1>2. KnownInv'
  <2> SUFFICES ASSUME NEW a \in Apps PROVE (RegistryInv(a) /\ OfferedInv(a) /\ AnswerInv(a))'
    BY DEF KnownInv
  <2>1. RegistryInv(a) /\ OfferedInv(a) /\ AnswerInv(a)
    BY DEF UpdatesInv, KnownInv
  <2>2. RegistryInv(a)'
    BY <1>0, <2>1, <1>11
    DEF UpdatesTypes, UpdatesInv, Offers, RegistryInv, OfferedInv, AnswerInv, AtForget, AtFinish, SweepInv
  <2>3. OfferedInv(a)'
    BY <1>0, <2>1, <1>11, <1>12
    DEF UpdatesTypes, UpdatesInv, Offers, RegistryInv, OfferedInv, AnswerInv, AtForget, AtFinish, SweepInv
  <2>4. AnswerInv(a)'
    BY <1>0, <2>1, <1>11
    DEF UpdatesTypes, UpdatesInv, Offers, RegistryInv, OfferedInv, AnswerInv, AtForget, AtFinish, SweepInv
  <2> QED BY <2>2, <2>3, <2>4
<1>3. SweepInv'
  BY <1>0 DEF UpdatesInv, UpdatesTypes, SweepInv, Offers
<1>4. PageInv'
  BY <1>0 DEF UpdatesInv, UpdatesTypes, PageInv, Offers
<1>5. UpdateInv'
  BY DEF UpdatesInv, UpdatesTypes, UpdateInv
<1> QED BY <1>1, <1>2, <1>3, <1>4, <1>5 DEF UpdatesInv

\* What is known is stored.
LEMMA SweepSavesKeeps ==
  ASSUME UpdatesInv, SweepSaves
  PROVE  UpdatesInv'
<1> USE DEF SweepSaves, apps, answers, Installed, NoSweep
<1>0. Offers
  BY OffersAre
<1>1. UpdatesTypes'
  BY DEF UpdatesInv, UpdatesTypes, Values
<1>2. KnownInv'
  BY <1>0
  DEF UpdatesInv, UpdatesTypes, KnownInv, Offers, RegistryInv, OfferedInv, AnswerInv, AtForget, AtFinish
<1>3. SweepInv'
  BY <1>0 DEF UpdatesInv, UpdatesTypes, SweepInv, Offers
<1>4. PageInv'
  BY <1>0 DEF UpdatesInv, UpdatesTypes, PageInv, Offers
<1>5. UpdateInv'
  BY DEF UpdatesInv, UpdatesTypes, UpdateInv
<1> QED BY <1>1, <1>2, <1>3, <1>4, <1>5 DEF UpdatesInv

\* A page keeps what it worked out, if nothing overtook it.
LEMMA PageCachesKeeps ==
  ASSUME UpdatesInv, PageCaches
  PROVE  UpdatesInv'
<1> USE DEF PageCaches, apps, answers, Installed, NoAsker
<1>0. Offers
  BY OffersAre
<1>11. \A a, w : <<a, w>> \in excused' <=> \/ <<a, w>> \in excused /\ ~(a \in {asker.app} /\ w = "answer")
                                           \/ /\ a \in {asker.app} /\ w = "answer"
                                              /\ a \notin (IF asker.clean THEN {asker.app} ELSE {})
  <2>1. excused' = Overtaken("answer", {asker.app}, (IF asker.clean THEN {asker.app} ELSE {}))
    OBVIOUS
  <2> HIDE DEF PageCaches
  <2> QED BY <2>1 DEF Overtaken
<1>1. UpdatesTypes'
  BY DEF UpdatesInv, UpdatesTypes, Values
<1>2. KnownInv'
  <2> SUFFICES ASSUME NEW a \in Apps PROVE (RegistryInv(a) /\ OfferedInv(a) /\ AnswerInv(a))'
    BY DEF KnownInv
  <2>1. RegistryInv(a) /\ OfferedInv(a) /\ AnswerInv(a)
    BY DEF UpdatesInv, KnownInv
  <2>2. RegistryInv(a)'
    BY <1>0, <2>1, <1>11
    DEF UpdatesTypes, UpdatesInv, Offers, RegistryInv, OfferedInv, AnswerInv, AtForget, AtFinish, PageInv
  <2>3. OfferedInv(a)'
    BY <1>0, <2>1, <1>11
    DEF UpdatesTypes, UpdatesInv, Offers, RegistryInv, OfferedInv, AnswerInv, AtForget, AtFinish, PageInv
  <2>4. AnswerInv(a)'
    BY <1>0, <2>1, <1>11
    DEF UpdatesTypes, UpdatesInv, Offers, RegistryInv, OfferedInv, AnswerInv, AtForget, AtFinish, PageInv
  <2> QED BY <2>2, <2>3, <2>4
<1>3. SweepInv'
  BY <1>0 DEF UpdatesInv, UpdatesTypes, SweepInv, Offers
<1>4. PageInv'
  BY <1>0 DEF UpdatesInv, UpdatesTypes, PageInv, Offers
<1>5. UpdateInv'
  BY DEF UpdatesInv, UpdatesTypes, UpdateInv
<1> QED BY <1>1, <1>2, <1>3, <1>4, <1>5 DEF UpdatesInv

\* The update asks about its app: the three answers are of now, and the copy is the file.
LEMMA ChecksKeeps ==
  ASSUME UpdatesInv, Checks
  PROVE  UpdatesInv'
<1> USE DEF Checks, apps, answers, Installed, Verdict
<1>0. Offers
  BY OffersAre
<1> DEFINE u == update.app
           value == YesNo(IsUpdateAvailable(update.copy, catalogue[u], u \in moved))
<1>10. /\ value \in {"yes", "no"}
       /\ value = "yes" <=> ForTheFile(update.copy, catalogue[u])
                            \/ (u \in moved /\ ForTheMove(update.copy, catalogue[u]))
  BY WhatThereIs
<1>11. \A a, w : <<a, w>> \in excused' =>
         <<a, w>> \in excused \/ (a = u /\ w \in {"registry", "offered", "answer"})
  OBVIOUS
<1>12. \A a, w : <<a, w>> \in excused /\ a # u => <<a, w>> \in excused'
  OBVIOUS
<1>13. /\ registry' = [registry EXCEPT ![u] = YesNo(u \in moved)]
       /\ answer' = [answer EXCEPT ![u] = value] /\ offered' = [offered EXCEPT ![u] = value]
       /\ update' = [update EXCEPT !.at = "save"] /\ update.at = "check"
       /\ UNCHANGED <<file, catalogue, moved, stored, sweep, asker, run, turns>>
  OBVIOUS
<1>14. u \in Apps /\ update.copy = file[u] /\ file[u] # NotInstalled
       /\ YesNo(u \in moved) \in {"yes", "no"} /\ (YesNo(u \in moved) = "yes" <=> u \in moved)
  BY <1>13 DEF UpdatesInv, UpdatesTypes, UpdateInv, YesNo
<1>15. update'.at = "save" /\ update'.app = u
  BY <1>13 DEF UpdatesInv, UpdatesTypes
<1> HIDE DEF value, Checks, u
<1>1. UpdatesTypes'
  BY <1>10, <1>13, <1>14 DEF UpdatesInv, UpdatesTypes, Values, u
<1>2. KnownInv'
  <2> SUFFICES ASSUME NEW a \in Apps PROVE (RegistryInv(a) /\ OfferedInv(a) /\ AnswerInv(a))'
    BY DEF KnownInv
  <2>1. RegistryInv(a) /\ OfferedInv(a) /\ AnswerInv(a) /\ (OnOffer(a)' <=> OnOffer(a))
    BY <1>0, <1>13 DEF UpdatesInv, KnownInv, Offers
  <2>2. CASE a = u
    <3>1. /\ registry'[a] = YesNo(u \in moved) /\ answer'[a] = value /\ offered'[a] = value
      BY <1>13, <2>2 DEF UpdatesInv, UpdatesTypes
    <3>2. value = "yes" => OnOffer(a)
      BY <1>0, <1>10, <1>14, <2>2 DEF Offers
    <3> QED BY <1>13, <1>14, <2>1, <2>2, <3>1, <3>2 DEF RegistryInv, OfferedInv, AnswerInv
  <2>3. CASE a # u
    <3>1. registry'[a] = registry[a] /\ answer'[a] = answer[a] /\ offered'[a] = offered[a]
      BY <1>13, <2>3 DEF UpdatesInv, UpdatesTypes
    <3>2. ~AtForget(a) /\ ~AtFinish(a)
      BY <1>13 DEF AtForget, AtFinish
    <3> QED BY <1>12, <1>13, <2>1, <2>3, <3>1, <3>2 DEF RegistryInv, OfferedInv, AnswerInv
  <2> QED BY <2>2, <2>3
<1>3. SweepInv'
  BY <1>0, <1>13, <1>14 DEF UpdatesInv, UpdatesTypes, SweepInv, Offers
<1>4. PageInv'
  BY <1>0, <1>13 DEF UpdatesInv, UpdatesTypes, PageInv, Offers
<1>5. UpdateInv'
  BY <1>13, <1>14, <1>15 DEF UpdatesInv, UpdatesTypes, UpdateInv, u
<1> QED BY <1>1, <1>2, <1>3, <1>4, <1>5 DEF UpdatesInv

\* The check is not answered.
LEMMA CheckFailsKeeps ==
  ASSUME UpdatesInv, CheckFails
  PROVE  UpdatesInv'
<1> USE DEF CheckFails, apps, answers, Installed, Turn
<1>0. Offers
  BY OffersAre
<1>1. UpdatesTypes'
  BY DEF UpdatesInv, UpdatesTypes, Values
<1>2. KnownInv'
  BY <1>0
  DEF UpdatesInv, UpdatesTypes, KnownInv, Offers, RegistryInv, OfferedInv, AnswerInv, AtForget, AtFinish
<1>3. SweepInv'
  BY <1>0 DEF UpdatesInv, UpdatesTypes, SweepInv, Offers
<1>4. PageInv'
  BY <1>0 DEF UpdatesInv, UpdatesTypes, PageInv, Offers
<1>5. UpdateInv'
  BY DEF UpdatesInv, UpdatesTypes, UpdateInv
<1> QED BY <1>1, <1>2, <1>3, <1>4, <1>5 DEF UpdatesInv

\* What is known is stored.
LEMMA CheckSavesKeeps ==
  ASSUME UpdatesInv, CheckSaves
  PROVE  UpdatesInv'
<1> USE DEF CheckSaves, apps, answers, Installed
<1>0. Offers
  BY OffersAre
<1>1. UpdatesTypes'
  BY DEF UpdatesInv, UpdatesTypes, Values
<1>2. KnownInv'
  BY <1>0
  DEF UpdatesInv, UpdatesTypes, KnownInv, Offers, RegistryInv, OfferedInv, AnswerInv, AtForget, AtFinish
<1>3. SweepInv'
  BY <1>0 DEF UpdatesInv, UpdatesTypes, SweepInv, Offers
<1>4. PageInv'
  BY <1>0 DEF UpdatesInv, UpdatesTypes, PageInv, Offers
<1>5. UpdateInv'
  BY DEF UpdatesInv, UpdatesTypes, UpdateInv
<1> QED BY <1>1, <1>2, <1>3, <1>4, <1>5 DEF UpdatesInv

\* The update decides as its button would.
LEMMA DecidesKeeps ==
  ASSUME UpdatesInv, Decides
  PROVE  UpdatesInv'
<1> USE DEF Decides, apps, answers, Installed, Ends, NoUpdate
<1>0. Offers
  BY OffersAre
<1> DEFINE u == update.app
           available == IsUpdateAvailable(update.copy, catalogue[u], registry[u] = "yes")
<1>10. /\ available \in BOOLEAN /\ YesNo(available) \in {"yes", "no"} /\ (YesNo(available) = "yes" <=> available)
       /\ available <=> ForTheFile(update.copy, catalogue[u])
                        \/ (registry[u] = "yes" /\ ForTheMove(update.copy, catalogue[u]))
  BY WhatARegistrySays DEF YesNo, IsUpdateAvailable, IsUpdateAvailableWith
<1>11. \A a, w : <<a, w>> \in excused' <=> \/ <<a, w>> \in excused /\ ~(a \in {u} /\ w = "answer")
                                           \/ /\ a \in {u} /\ w = "answer"
                                              /\ a \notin (IF update.clean /\ <<u, "registry">> \notin excused
                                                           THEN {u} ELSE {})
  <2>1. excused' = Overtaken("answer", {u}, (IF update.clean /\ <<u, "registry">> \notin excused THEN {u} ELSE {}))
    OBVIOUS
  <2> HIDE DEF Decides, available
  <2> QED BY <2>1 DEF Overtaken
<1>12. /\ answer' = [answer EXCEPT ![u] = YesNo(available)] /\ update.at = "decide"
       /\ IF available THEN update' = [update EXCEPT !.at = "prepare", !.said = registry[u] = "yes"]
          ELSE update' = [at |-> "idle", app |-> "none", copy |-> NotInstalled, force |-> FALSE, inRun |-> FALSE,
                          said |-> FALSE, clean |-> TRUE]
       /\ UNCHANGED <<file, catalogue, moved, registry, offered, stored, sweep, asker, turns>>
  OBVIOUS
<1>13. u \in Apps /\ update.copy = file[u] /\ file[u] # NotInstalled
  BY <1>12 DEF UpdatesInv, UpdatesTypes, UpdateInv
<1> HIDE DEF available, Decides, u
<1>1. UpdatesTypes'
  <2>1. CASE available
    <3>1. update' = [update EXCEPT !.at = "prepare", !.said = registry[u] = "yes"]
      BY <1>12, <2>1
    <3>2. update' = [at |-> "prepare", app |-> u, copy |-> update.copy, force |-> update.force, inRun |-> update.inRun,
                     said |-> registry[u] = "yes", clean |-> update.clean]
      BY <3>1 DEF UpdatesInv, UpdatesTypes, u
    <3> QED BY <1>10, <1>12, <1>13, <3>2 DEF UpdatesInv, UpdatesTypes, Values
  <2>2. CASE ~available
    <3>1. update' = [at |-> "idle", app |-> "none", copy |-> NotInstalled, force |-> FALSE, inRun |-> FALSE,
                     said |-> FALSE, clean |-> TRUE]
      BY <1>12, <2>2
    <3>2. /\ update' = [at |-> update'.at, app |-> update'.app, copy |-> update'.copy, force |-> update'.force,
                        inRun |-> update'.inRun, said |-> update'.said, clean |-> update'.clean]
          /\ update'.at = "idle" /\ update'.clean \in BOOLEAN /\ update'.said \in BOOLEAN /\ update'.force \in BOOLEAN
      BY <3>1
    <3> QED BY <1>10, <1>12, <3>2 DEF UpdatesInv, UpdatesTypes, Values
  <2> QED BY <1>10, <2>1, <2>2
<1>2. KnownInv'
  <2> SUFFICES ASSUME NEW a \in Apps PROVE (RegistryInv(a) /\ OfferedInv(a) /\ AnswerInv(a))'
    BY DEF KnownInv
  <2>1. RegistryInv(a) /\ OfferedInv(a) /\ AnswerInv(a) /\ (OnOffer(a)' <=> OnOffer(a)) /\ ~AtForget(a) /\ ~AtFinish(a)
    BY <1>0, <1>12 DEF UpdatesInv, KnownInv, Offers, AtForget, AtFinish
  <2>2. RegistryInv(a)' /\ OfferedInv(a)'
    BY <1>11, <1>12, <2>1 DEF RegistryInv, OfferedInv
  <2>3. CASE a = u
    <3>1. answer'[a] = "yes" => available
      BY <1>10, <1>12, <2>3 DEF UpdatesInv, UpdatesTypes
    <3>2. <<u, "registry">> \notin excused => (available => OnOffer(a))
      BY <1>0, <1>10, <1>13, <2>1, <2>3 DEF Offers, RegistryInv
    <3>3. <<u, "answer">> \notin excused' => <<u, "registry">> \notin excused
      BY <1>11
    <3>4. answer'[a] = "yes" /\ <<a, "answer">> \notin excused' => OnOffer(a)
      BY <2>3, <3>1, <3>2, <3>3
    <3> QED BY <2>1, <2>2, <3>4 DEF AnswerInv
  <2>4. CASE a # u
    <3>1. answer'[a] = answer[a]
      BY <1>12, <2>4 DEF UpdatesInv, UpdatesTypes
    <3> QED BY <1>11, <2>1, <2>2, <2>4, <3>1 DEF AnswerInv
  <2> QED BY <2>2, <2>3, <2>4
<1>3. SweepInv'
  BY <1>0, <1>12 DEF UpdatesInv, UpdatesTypes, SweepInv, Offers
<1>4. PageInv'
  BY <1>0, <1>12 DEF UpdatesInv, UpdatesTypes, PageInv, Offers
<1>5. UpdateInv'
  <2>1. CASE available
    <3>1. update' = [at |-> "prepare", app |-> u, copy |-> update.copy, force |-> update.force, inRun |-> update.inRun,
                     said |-> registry[u] = "yes", clean |-> update.clean]
      BY <1>12, <2>1 DEF UpdatesInv, UpdatesTypes, u
    <3>2. update'.app = u /\ update'.copy = update.copy /\ update'.said = (registry[u] = "yes")
      BY <3>1
    <3>3. IsUpdateAvailable(file[u], catalogue[u], registry[u] = "yes")
      BY <1>13, <2>1 DEF available
    <3>4. IsUpdateAvailable(file'[u], catalogue'[u], update'.said)
      BY <1>12, <3>2, <3>3, Zenon
    <3> QED BY <1>12, <1>13, <3>2, <3>4 DEF UpdateInv
  <2>2. CASE ~available
    BY <1>12, <2>2 DEF UpdateInv
  <2> QED BY <1>10, <2>1, <2>2
<1> QED BY <1>1, <1>2, <1>3, <1>4, <1>5 DEF UpdatesInv

\* The file is what the catalogue says: nothing is to be said of the app before it is forgotten.
LEMMA AppliesKeeps ==
  ASSUME UpdatesInv, Applies
  PROVE  UpdatesInv'
<1> USE DEF Applies, apps, answers, Installed
<1>0. Offers
  BY OffersAre
<1>1. UpdatesTypes'
  <2>1. Tagged(ComposeYAMLForUpdate(file[update.app], catalogue[update.app]))
    BY UpdatesKeepTags DEF UpdatesInv, UpdatesTypes
  <2> QED BY <2>1 DEF UpdatesInv, UpdatesTypes, Values
<1>2. KnownInv'
  BY <1>0
  DEF UpdatesInv, UpdatesTypes, KnownInv, Offers, RegistryInv, OfferedInv, AnswerInv, AtForget, AtFinish
<1>3. SweepInv'
  BY <1>0 DEF UpdatesInv, UpdatesTypes, SweepInv, Offers
<1>4. PageInv'
  BY <1>0 DEF UpdatesInv, UpdatesTypes, PageInv, Offers
<1>5. UpdateInv'
  BY DEF UpdatesInv, UpdatesTypes, UpdateInv
<1> QED BY <1>1, <1>2, <1>3, <1>4, <1>5 DEF UpdatesInv

\* An update that failed forgets the cached answer.
LEMMA ApplyFailsKeeps ==
  ASSUME UpdatesInv, ApplyFails
  PROVE  UpdatesInv'
<1> USE DEF ApplyFails, apps, answers, Installed, Ends, NoUpdate, Turn
<1>0. Offers
  BY OffersAre
<1>1. UpdatesTypes'
  BY DEF UpdatesInv, UpdatesTypes, Values
<1>2. KnownInv'
  BY <1>0
  DEF UpdatesInv, UpdatesTypes, KnownInv, Offers, RegistryInv, OfferedInv, AnswerInv, AtForget, AtFinish
<1>3. SweepInv'
  BY <1>0 DEF UpdatesInv, UpdatesTypes, SweepInv, Offers
<1>4. PageInv'
  BY <1>0 DEF UpdatesInv, UpdatesTypes, PageInv, Offers
<1>5. UpdateInv'
  BY DEF UpdatesInv, UpdatesTypes, UpdateInv
<1> QED BY <1>1, <1>2, <1>3, <1>4, <1>5 DEF UpdatesInv

\* An update that was applied forgets the badge.
LEMMA ForgetsKeeps ==
  ASSUME UpdatesInv, Forgets
  PROVE  UpdatesInv'
<1> USE DEF Forgets, apps, answers, Installed, ForgetImageUpdates
<1>0. Offers
  BY OffersAre
<1>1. UpdatesTypes'
  BY DEF UpdatesInv, UpdatesTypes, Values
<1>2. KnownInv'
  BY <1>0
  DEF UpdatesInv, UpdatesTypes, KnownInv, Offers, RegistryInv, OfferedInv, AnswerInv, AtForget, AtFinish
<1>3. SweepInv'
  BY <1>0 DEF UpdatesInv, UpdatesTypes, SweepInv, Offers
<1>4. PageInv'
  BY <1>0 DEF UpdatesInv, UpdatesTypes, PageInv, Offers
<1>5. UpdateInv'
  BY DEF UpdatesInv, UpdatesTypes, UpdateInv
<1> QED BY <1>1, <1>2, <1>3, <1>4, <1>5 DEF UpdatesInv

\* An update that is over forgets the cached answer.
LEMMA FinishesKeeps ==
  ASSUME UpdatesInv, Finishes
  PROVE  UpdatesInv'
<1> USE DEF Finishes, apps, answers, Installed, Ends, NoUpdate
<1>0. Offers
  BY OffersAre
<1>1. UpdatesTypes'
  BY DEF UpdatesInv, UpdatesTypes, Values
<1>2. KnownInv'
  BY <1>0
  DEF UpdatesInv, UpdatesTypes, KnownInv, Offers, RegistryInv, OfferedInv, AnswerInv, AtForget, AtFinish
<1>3. SweepInv'
  BY <1>0 DEF UpdatesInv, UpdatesTypes, SweepInv, Offers
<1>4. PageInv'
  BY <1>0 DEF UpdatesInv, UpdatesTypes, PageInv, Offers
<1>5. UpdateInv'
  BY DEF UpdatesInv, UpdatesTypes, UpdateInv
<1> QED BY <1>1, <1>2, <1>3, <1>4, <1>5 DEF UpdatesInv

\* A run begins.
LEMMA StartUpdateAllKeeps ==
  ASSUME UpdatesInv, StartUpdateAll
  PROVE  UpdatesInv'
<1> USE DEF StartUpdateAll, apps, answers, Installed, Turn
<1>0. Offers
  BY OffersAre
<1>1. UpdatesTypes'
  BY DEF UpdatesInv, UpdatesTypes, Values
<1>2. KnownInv'
  BY <1>0
  DEF UpdatesInv, UpdatesTypes, KnownInv, Offers, RegistryInv, OfferedInv, AnswerInv, AtForget, AtFinish
<1>3. SweepInv'
  BY <1>0 DEF UpdatesInv, UpdatesTypes, SweepInv, Offers
<1>4. PageInv'
  BY <1>0 DEF UpdatesInv, UpdatesTypes, PageInv, Offers
<1>5. UpdateInv'
  BY DEF UpdatesInv, UpdatesTypes, UpdateInv
<1> QED BY <1>1, <1>2, <1>3, <1>4, <1>5 DEF UpdatesInv

\* A run takes the next app as it is.
LEMMA RunNextKeeps ==
  ASSUME UpdatesInv, RunNext
  PROVE  UpdatesInv'
<1> USE DEF RunNext, apps, answers, Installed, Begins, NoUpdate
<1>0. Offers
  BY OffersAre
<1>1. UpdatesTypes'
  BY ZenonT(40) DEF UpdatesInv, UpdatesTypes, Values
<1>2. KnownInv'
  BY <1>0
  DEF UpdatesInv, UpdatesTypes, KnownInv, Offers, RegistryInv, OfferedInv, AnswerInv, AtForget, AtFinish
<1>3. SweepInv'
  BY <1>0 DEF UpdatesInv, UpdatesTypes, SweepInv, Offers
<1>4. PageInv'
  BY <1>0 DEF UpdatesInv, UpdatesTypes, PageInv, Offers
<1>5. UpdateInv'
  <2>1. CASE Head(run.queue) \in Installed
    <3>1. Begins(Head(run.queue), FALSE, TRUE) /\ UNCHANGED <<file, catalogue>>
      BY <2>1
    <3>2. update'.at = "check" /\ update'.app = Head(run.queue) /\ update'.copy = file[Head(run.queue)]
      BY <3>1
    <3> QED BY <2>1, <3>1, <3>2 DEF UpdateInv
  <2>2. CASE Head(run.queue) \notin Installed
    BY <2>2 DEF UpdatesInv, UpdatesTypes, UpdateInv
  <2> QED BY <2>1, <2>2
<1> QED BY <1>1, <1>2, <1>3, <1>4, <1>5 DEF UpdatesInv

\* A run ends.
LEMMA RunFinishesKeeps ==
  ASSUME UpdatesInv, RunFinishes
  PROVE  UpdatesInv'
<1> USE DEF RunFinishes, apps, answers, Installed
<1>0. Offers
  BY OffersAre
<1>1. UpdatesTypes'
  BY DEF UpdatesInv, UpdatesTypes, Values
<1>2. KnownInv'
  BY <1>0
  DEF UpdatesInv, UpdatesTypes, KnownInv, Offers, RegistryInv, OfferedInv, AnswerInv, AtForget, AtFinish
<1>3. SweepInv'
  BY <1>0 DEF UpdatesInv, UpdatesTypes, SweepInv, Offers
<1>4. PageInv'
  BY <1>0 DEF UpdatesInv, UpdatesTypes, PageInv, Offers
<1>5. UpdateInv'
  BY DEF UpdatesInv, UpdatesTypes, UpdateInv
<1> QED BY <1>1, <1>2, <1>3, <1>4, <1>5 DEF UpdatesInv

\* A stutter.
LEMMA NothingKeeps ==
  ASSUME UpdatesInv, UNCHANGED updatesVars
  PROVE  UpdatesInv'
<1> USE DEF updatesVars
<1>0. Offers
  BY OffersAre
<1>1. UpdatesTypes'
  BY DEF UpdatesInv, UpdatesTypes, Values
<1>2. KnownInv'
  BY <1>0 DEF UpdatesInv, KnownInv, Offers, RegistryInv, OfferedInv, AnswerInv, AtForget, AtFinish
<1>3. SweepInv'
  <2>1. SweepInv /\ \A a \in Apps : OnOffer(a)' <=> OnOffer(a)
    BY <1>0 DEF UpdatesInv, Offers
  <2>2. /\ sweep' = sweep /\ registry' = registry /\ moved' = moved /\ file' = file
        /\ Installed' = Installed /\ Installed \subseteq Apps
    BY DEF Installed
  <2> HIDE DEF updatesVars
  <2> QED BY <2>1, <2>2 DEF SweepInv
<1>4. PageInv' /\ UpdateInv'
  BY <1>0 DEF UpdatesInv, PageInv, UpdateInv, Offers, Installed
<1> QED BY <1>1, <1>2, <1>3, <1>4 DEF UpdatesInv

-----------------------------------------------------------------------------
\* Every step keeps the invariant.
LEMMA UpdatesStep == UpdatesInv /\ [UpdatesNext]_updatesVars => UpdatesInv'
<1> SUFFICES ASSUME UpdatesInv, [UpdatesNext]_updatesVars PROVE UpdatesInv'
  OBVIOUS
<1>1. CASE \E a \in Apps : CatalogueMoves(a)
  BY <1>1, CatalogueMovesKeeps
<1>2. CASE \E a \in Apps : Republishes(a)
  BY <1>2, RepublishesKeeps
<1>3. CASE \E a \in Apps : Edits(a)
  BY <1>3, EditsKeeps
<1>4. CASE \E a \in Apps : Uninstalls(a)
  BY <1>4, UninstallsKeeps
<1>5. CASE \E a \in Apps : Installs(a)
  BY <1>5, InstallsKeeps
<1>6. CASE \E a \in Apps : SweepDecides(a)
  BY <1>6, SweepDecidesKeeps
<1>7. CASE \E a \in Apps : PageAsks(a)
  BY <1>7, PageAsksKeeps
<1>8. CASE \E a \in Apps : Expires(a)
  BY <1>8, ExpiresKeeps
<1>9. CASE \E a \in Apps : UpdateComposeApp(a)
  BY <1>9, UpdateComposeAppKeeps
<1>10. CASE Restarts
  BY <1>10, RestartsKeeps
<1>11. CASE SweepStarts
  BY <1>11, SweepStartsKeeps
<1>12. CASE SweepAsks
  BY <1>12, SweepAsksKeeps
<1>13. CASE SweepRemembers
  BY <1>13, SweepRemembersKeeps
<1>14. CASE SweepOffers
  BY <1>14, SweepOffersKeeps
<1>15. CASE SweepSaves
  BY <1>15, SweepSavesKeeps
<1>16. CASE PageCaches
  BY <1>16, PageCachesKeeps
<1>17. CASE Checks
  BY <1>17, ChecksKeeps
<1>18. CASE CheckFails
  BY <1>18, CheckFailsKeeps
<1>19. CASE CheckSaves
  BY <1>19, CheckSavesKeeps
<1>20. CASE Decides
  BY <1>20, DecidesKeeps
<1>21. CASE Applies
  BY <1>21, AppliesKeeps
<1>22. CASE ApplyFails
  BY <1>22, ApplyFailsKeeps
<1>23. CASE Forgets
  BY <1>23, ForgetsKeeps
<1>24. CASE Finishes
  BY <1>24, FinishesKeeps
<1>25. CASE StartUpdateAll
  BY <1>25, StartUpdateAllKeeps
<1>26. CASE RunNext
  BY <1>26, RunNextKeeps
<1>27. CASE RunFinishes
  BY <1>27, RunFinishesKeeps
<1>28. CASE UNCHANGED updatesVars
  BY <1>28, NothingKeeps
<1>29. QED
  BY <1>1, <1>2, <1>3, <1>4, <1>5, <1>6, <1>7, <1>8, <1>9, <1>10, <1>11, <1>12, <1>13, <1>14,
     <1>15, <1>16, <1>17, <1>18, <1>19, <1>20,
     <1>21, <1>22, <1>23, <1>24, <1>25, <1>26, <1>27, <1>28
  DEF UpdatesNext, Updates, RunGoesOn

\* A badge, and an answer kept for a page, is about an app that is there and about what its
\* button would do now: whatever order a sweep that takes minutes, an update, a page, an edit, an
\* uninstallation and a restart come in, for any number of apps and any compose files.
THEOREM BadgesAreTheButton == UpdatesSpec => []BadgeIsTheButton
<1>1. UpdatesInv => BadgeIsTheButton
  BY Zenon DEF UpdatesInv, KnownInv, OfferedInv, AnswerInv, OnOffer, AtForget, AtFinish, BadgeIsTheButton
<1> QED BY <1>1, UpdatesStart, UpdatesStep, PTL DEF UpdatesSpec

\* An update that was offered, of an app and a catalogue that did not change since it was checked,
\* gives no service a tag behind the one it had, writes what its plan showed, and is not offered
\* again, nor is the way back: for all tags, by the order the two comparisons of the code give.
THEOREM UpdatesGoForward == UpdatesSpec => UpdateGoesForward
<1> DEFINE Forward ==
      \A a \in Apps : Applies /\ update.app = a /\ ~update.force /\ update.clean /\ catalogue[a] # NoEntry =>
                        GoesForward(file[a], catalogue[a], update.said, file'[a])
<1>1. ASSUME UpdatesInv, UpdatesNext PROVE Forward
  <2> SUFFICES ASSUME NEW a \in Apps, Applies, update.app = a, ~update.force, update.clean, catalogue[a] # NoEntry
               PROVE  GoesForward(file[a], catalogue[a], update.said, file'[a])
    OBVIOUS
  <2>1. update.at = "prepare" /\ file[a] # NotInstalled /\ file'[a] = UpdatedComposeYAML(file[a], catalogue[a])
    BY <1>1 DEF Applies, Installed, ComposeYAMLForUpdate, UpdatesInv, UpdatesTypes
  <2>2. Tagged(file[a]) /\ Tagged(catalogue[a]) /\ update.said \in BOOLEAN
    BY <1>1, <2>1 DEF UpdatesInv, UpdatesTypes
  <2>3. IsUpdateAvailable(file[a], catalogue[a], update.said)
    BY <1>1, <2>1 DEF UpdatesInv, UpdateInv
  <2>4. IsUpdateAvailableWith(file[a], catalogue[a], update.said)
    BY <2>3 DEF IsUpdateAvailable
  <2> QED BY <2>1, <2>2, <2>4, AnOfferGoesForward
<1>2. UpdatesInv /\ [UpdatesNext]_updatesVars => [Forward]_updatesVars
  BY <1>1
<1> QED BY <1>2, UpdatesStart, UpdatesStep, PTL DEF UpdatesSpec, UpdateGoesForward

-----------------------------------------------------------------------------
(***************************************************************************)
(* The catalogues. A worker alone with its store knows where the store's   *)
(* catalogue is at each of its steps (Holds); that it is alone means that  *)
(* no step of the other is about the same folder (AloneIsAlone).           *)
(***************************************************************************)
Workers == {Cron, Hand}
Folder == Fetched \cup {None}
Works == {"head", "download", "backup", "place", "build", "defer", "restore", "sweep"}
Jobs == [at : Works \cup {"idle", "over", "save", "write", "rmdir"}, url : Urls \cup {None}, todo : SUBSET Urls,
         saw : Folder, source : {"", "original", "mirror"}, kept : BOOLEAN, ok : BOOLEAN, was : Folder,
         alone : BOOLEAN, crossed : BOOLEAN]

ListsAre == listed \in Seq(Urls) /\ inFile \in Seq(Urls) \cup {Cut} /\ published \in [Urls -> Fetched]
FoldersAre == {work, backup, tmp} \subseteq [Urls -> Folder]
WorkersAre ==
  /\ worker \in [Workers -> Jobs]
  /\ \A w \in Workers : worker[w].url = None => worker[w].was = None
  /\ \A w \in Workers : worker[w].at \in Works => worker[w].url \in Urls
  /\ worker[Hand].at # "idle" => worker[Hand].url \in Urls
StoreTypes == ListsAre /\ FoldersAre /\ WorkersAre

(* Who is alone shares his store with nobody.                                *)
AloneIsAlone ==
  \A w, v \in Workers :
    worker[w].alone /\ worker[w].at # "idle" /\ worker[w].url # None /\ v # w /\ worker[v].at # "idle" =>
      worker[v].url # worker[w].url

(* Where the catalogue of the store is, at each step of its update.          *)
Holds(j, folder, saved) ==
  /\ j.at \in {"head", "download", "backup"} => folder = j.was /\ ~j.ok
  /\ j.at = "place" => folder = None /\ saved = j.was /\ j.kept /\ ~j.ok
  /\ j.at = "build" => saved = j.was /\ j.kept /\ ~j.ok
  /\ j.at = "defer" => saved = j.was /\ j.kept /\ (j.ok => folder \in Catalogues)
  /\ j.at = "restore" => folder = None /\ saved = j.was /\ ~j.ok
  /\ j.at = "sweep" => IF j.ok THEN folder \in Catalogues ELSE folder = j.was
  /\ j.at = "over" => j.ok \/ folder = j.was

CatalogueIsHeld ==
  \A w \in Workers :
    worker[w].alone /\ worker[w].was \in Catalogues =>
      Holds(worker[w], work[worker[w].url], backup[worker[w].url])

StoreInv == StoreTypes /\ AloneIsAlone /\ CatalogueIsHeld

LEMMA IdleIs == Idle \in Jobs /\ Idle.at = "idle" /\ Idle.url = None /\ Idle.was = None /\ None \notin Catalogues
BY StoresAssumption DEF Idle, Jobs, Folder, Works

LEMMA StoreStarts == StoreInit => StoreInv
<1> SUFFICES ASSUME StoreInit PROVE StoreInv
  OBVIOUS
<1>1. listed \in Seq(Urls) /\ inFile = listed
  BY StoresAssumption DEF StoreInit
<1>2. ListsAre
  BY <1>1, StoresAssumption DEF StoreInit, ListsAre, Fetched
<1>3. FoldersAre
  BY StoresAssumption DEF StoreInit, FoldersAre, Folder, Fetched
<1>4. \A w \in Workers : worker[w] = Idle
  BY DEF StoreInit, Workers
<1>5. worker \in [Workers -> Jobs]
  BY IdleIs DEF StoreInit, Workers
<1>6. WorkersAre
  BY <1>4, <1>5, IdleIs DEF WorkersAre, Works, Workers
<1>7. AloneIsAlone /\ CatalogueIsHeld
  BY <1>4, IdleIs DEF AloneIsAlone, CatalogueIsHeld
<1> QED BY <1>2, <1>3, <1>6, <1>7 DEF StoreInv, StoreTypes

(* One worker goes a step on with its store, or is done with it.             *)
LEMMA WorkerGoesOn ==
  ASSUME StoreInv, NEW w \in Workers, NEW j \in Jobs, worker' = [worker EXCEPT ![w] = j],
         worker[w].at # "idle", ListsAre', FoldersAre',
         \/ j.at = "idle" /\ j.was = None
         \/ /\ j.url = worker[w].url /\ j.was = worker[w].was /\ j.alone = worker[w].alone
            /\ j.at \in Works => j.url \in Urls
            /\ j.alone /\ j.was \in Catalogues => Holds(j, work'[j.url], backup'[j.url]),
         \A u \in Urls \ {worker[w].url} : work'[u] = work[u] /\ backup'[u] = backup[u]
  PROVE  StoreInv'
<1>1. worker \in [Workers -> Jobs] /\ None \notin Catalogues
  BY StoresAssumption DEF StoreInv, StoreTypes, WorkersAre
<1>2. /\ worker' \in [Workers -> Jobs] /\ worker'[w] = j
      /\ \A v \in Workers : v # w => worker'[v] = worker[v]
  BY <1>1
<1>3. \A v \in Workers : (worker[v].url = None => worker[v].was = None) /\ (worker[v].at \in Works => worker[v].url \in Urls)
  BY DEF StoreInv, StoreTypes, WorkersAre
<1>4. "idle" \notin Works
  BY DEF Works
<1>5. WorkersAre'
  BY <1>2, <1>3, <1>4 DEF StoreInv, StoreTypes, WorkersAre, Workers
<1>6. AloneIsAlone'
  BY <1>2 DEF StoreInv, AloneIsAlone
<1>7. ASSUME NEW v \in Workers, v # w, worker[v].alone, worker[v].was \in Catalogues
      PROVE  Holds(worker[v], work'[worker[v].url], backup'[worker[v].url])
  <2>1. Holds(worker[v], work[worker[v].url], backup[worker[v].url])
    BY <1>7 DEF StoreInv, CatalogueIsHeld
  <2>2. CASE worker[v].at = "idle"
    BY <2>2 DEF Holds
  <2>3. CASE worker[v].at # "idle"
    <3>1. worker[v].url # None
      BY <1>1, <1>3, <1>7
    <3>2. worker[v].url \in Urls
      BY <3>1, <1>1 DEF Jobs
    <3>3. worker[v].url # worker[w].url
      BY <1>7, <2>3, <3>1 DEF StoreInv, AloneIsAlone
    <3> QED BY <2>1, <3>2, <3>3
  <2> QED BY <2>2, <2>3
<1>8. j.alone /\ j.was \in Catalogues => Holds(j, work'[j.url], backup'[j.url])
  BY <1>1 DEF Holds
<1>9. CatalogueIsHeld'
  BY <1>2, <1>7, <1>8 DEF CatalogueIsHeld
<1> QED BY <1>5, <1>6, <1>9 DEF StoreInv, StoreTypes

(* A worker that had nothing to do takes a store.                            *)
LEMMA WorkerEnters ==
  ASSUME StoreInv, NEW w \in Workers, NEW u \in Urls, NEW todo \in SUBSET Urls, NEW to \in {"head", "save"},
         Enters(w, u, to, todo), ListsAre', UNCHANGED <<work, backup, tmp>>
  PROVE  StoreInv'
<1> DEFINE others == {v \in Workers \ {w} : worker[v].url = u /\ worker[v].at # "idle"}
           m == others = {}
           j == [Idle EXCEPT !.at = to, !.url = u, !.todo = todo, !.was = work[u], !.alone = m]
<1>1. worker' = [v \in Workers |-> IF v = w THEN j
                                   ELSE IF v \in others THEN [worker[v] EXCEPT !.alone = FALSE] ELSE worker[v]]
  BY DEF Enters, Workers
<1>2. m \in BOOLEAN
  OBVIOUS
<1>3. worker \in [Workers -> Jobs] /\ work[u] \in Folder
  BY DEF StoreInv, StoreTypes, WorkersAre, FoldersAre
<1>4. /\ j \in Jobs /\ j.at = to /\ j.url = u /\ j.was = work[u] /\ j.alone = m /\ ~j.ok
  <2> HIDE DEF m
  <2> QED BY <1>2, <1>3, StoresAssumption DEF Idle, Jobs, Folder, Works
<1>5. m <=> \A v \in Workers : v # w => ~(worker[v].url = u /\ worker[v].at # "idle")
  OBVIOUS
<1>6. \A v \in Workers : v # w =>
        LET n == IF v \in others THEN [worker[v] EXCEPT !.alone = FALSE] ELSE worker[v] IN
        /\ n \in Jobs /\ n.at = worker[v].at /\ n.url = worker[v].url /\ n.was = worker[v].was
        /\ n.kept = worker[v].kept /\ n.ok = worker[v].ok
        /\ n.alone => worker[v].alone /\ ~(worker[v].url = u /\ worker[v].at # "idle")
  BY <1>3, ZenonT(40) DEF Jobs
<1> HIDE DEF others, m, j
<1>7. /\ worker' \in [Workers -> Jobs] /\ worker'[w] = j
      /\ \A v \in Workers : v # w =>
           /\ worker'[v].at = worker[v].at /\ worker'[v].url = worker[v].url /\ worker'[v].was = worker[v].was
           /\ worker'[v].kept = worker[v].kept /\ worker'[v].ok = worker[v].ok
           /\ worker'[v].alone => worker[v].alone /\ ~(worker[v].url = u /\ worker[v].at # "idle")
  BY <1>1, <1>4, <1>6
<1>8. u # None
  BY StoresAssumption
<1>9. WorkersAre'
  BY <1>4, <1>7, <1>8 DEF StoreInv, StoreTypes, WorkersAre, Workers
<1>10. AloneIsAlone'
  BY <1>4, <1>5, <1>7 DEF StoreInv, AloneIsAlone
<1>11. Holds(j, work'[u], backup'[u])
  BY <1>4 DEF Holds
<1>12. CatalogueIsHeld'
  <2> SUFFICES ASSUME NEW v \in Workers, v # w, worker'[v].alone, worker'[v].was \in Catalogues
               PROVE  Holds(worker'[v], work'[worker'[v].url], backup'[worker'[v].url])
    BY <1>4, <1>7, <1>11 DEF CatalogueIsHeld
  <2>1. Holds(worker[v], work[worker[v].url], backup[worker[v].url])
    BY <1>7 DEF StoreInv, CatalogueIsHeld
  <2> QED BY <1>7, <2>1 DEF Holds
<1>13. FoldersAre'
  BY DEF StoreInv, StoreTypes, FoldersAre
<1> QED BY <1>9, <1>10, <1>12, <1>13 DEF StoreInv, StoreTypes

(* What a worker's step knows of its store.                                  *)
LEMMA WorkerIs ==
  ASSUME StoreInv, NEW w \in Workers, worker[w].at \in Works \/ worker[w].at = "over"
  PROVE  /\ worker[w] \in Jobs /\ worker \in [Workers -> Jobs] /\ worker[w].at # "idle"
         /\ worker[w].at \in Works => worker[w].url \in Urls
         /\ worker[w].alone /\ worker[w].was \in Catalogues =>
              Holds(worker[w], work[worker[w].url], backup[worker[w].url])
BY DEF StoreInv, StoreTypes, WorkersAre, CatalogueIsHeld, Works


LEMMA HeadAnswersKeeps ==
  ASSUME StoreInv, NEW w \in Workers, NEW source \in {"original", "mirror"}, HeadAnswers(w, source)
  PROVE  StoreInv'
<1> DEFINE u == worker[w].url
           m == At(source, u) = sizeSeen[u]
           j == [worker[w] EXCEPT !.source = source, !.saw = At(source, u), !.ok = m,
                                  !.at = IF m THEN "over" ELSE "download"]
<1>1. worker[w].at = "head"
  BY DEF HeadAnswers
<1>2. /\ worker[w] \in Jobs /\ worker \in [Workers -> Jobs] /\ u \in Urls
      /\ worker[w].alone /\ worker[w].was \in Catalogues => Holds(worker[w], work[u], backup[u])
  BY <1>1, WorkerIs DEF Works
<1>3. worker' = [worker EXCEPT ![w] = j] /\ UNCHANGED <<work, backup, tmp, published, listed, inFile>>
  BY <1>2 DEF HeadAnswers, Rests, lists, folders
<1>4. At(source, u) \in Folder /\ m \in BOOLEAN
  BY <1>2, StoresAssumption DEF At, StoreInv, StoreTypes, ListsAre, Fetched, Folder
<1>5. /\ j \in Jobs /\ j.at = (IF m THEN "over" ELSE "download") /\ j.ok = m
      /\ j.url = u /\ j.was = worker[w].was /\ j.alone = worker[w].alone
  <2> HIDE DEF m
  <2> QED BY <1>2, <1>4 DEF Jobs, Works
<1> HIDE DEF m, j
<1>6. Holds(worker[w], work[u], backup[u]) => Holds(j, work'[u], backup'[u])
  BY <1>1, <1>3, <1>5 DEF Holds
<1>7. ListsAre' /\ FoldersAre'
  BY <1>3 DEF StoreInv, StoreTypes, ListsAre, FoldersAre
<1> QED BY <1>1, <1>2, <1>3, <1>5, <1>6, <1>7, WorkerGoesOn

LEMMA HeadFailsKeeps ==
  ASSUME StoreInv, NEW w \in Workers, HeadFails(w)
  PROVE  StoreInv'
<1> DEFINE u == worker[w].url
           j == [worker[w] EXCEPT !.at = "over", !.ok = FALSE]
<1>1. worker[w].at = "head"
  BY DEF HeadFails
<1>2. /\ worker[w] \in Jobs /\ worker \in [Workers -> Jobs] /\ u \in Urls
      /\ worker[w].alone /\ worker[w].was \in Catalogues => Holds(worker[w], work[u], backup[u])
  BY <1>1, WorkerIs DEF Works
<1>3. worker' = [worker EXCEPT ![w] = j] /\ UNCHANGED <<work, backup, tmp, published, listed, inFile>>
  BY <1>2 DEF HeadFails, Fails, Rests, lists, folders
<1>4. /\ j \in Jobs /\ j.at = "over" /\ ~j.ok /\ j.url = u /\ j.was = worker[w].was /\ j.alone = worker[w].alone
  BY <1>2 DEF Jobs
<1> HIDE DEF j
<1>5. Holds(worker[w], work[u], backup[u]) => Holds(j, work'[u], backup'[u])
  BY <1>1, <1>3, <1>4 DEF Holds
<1>6. ListsAre' /\ FoldersAre'
  BY <1>3 DEF StoreInv, StoreTypes, ListsAre, FoldersAre
<1> QED BY <1>1, <1>2, <1>3, <1>4, <1>5, <1>6, WorkerGoesOn

LEMMA DownloadsKeeps ==
  ASSUME StoreInv, NEW w \in Workers, Downloads(w) \/ DownloadFails(w)
  PROVE  StoreInv'
<1> DEFINE u == worker[w].url
           j == IF Downloads(w) THEN [worker[w] EXCEPT !.at = "backup"]
                ELSE [worker[w] EXCEPT !.at = "sweep", !.ok = FALSE]
<1>1. worker[w].at = "download"
  BY DEF Downloads, DownloadFails
<1>2. /\ worker[w] \in Jobs /\ worker \in [Workers -> Jobs] /\ u \in Urls
      /\ worker[w].alone /\ worker[w].was \in Catalogues => Holds(worker[w], work[u], backup[u])
  BY <1>1, WorkerIs DEF Works
<1>3. worker' = [worker EXCEPT ![w] = j] /\ UNCHANGED <<work, backup, published, listed, inFile>>
  BY <1>2 DEF Downloads, DownloadFails, Goes, Fails, Rests, lists
<1>4. tmp' = [tmp EXCEPT ![u] = At(worker[w].source, u)] \/ tmp' = [tmp EXCEPT ![u] = NotAStore]
  BY DEF Downloads, DownloadFails
<1>5. At(worker[w].source, u) \in Folder /\ NotAStore \in Folder
  BY <1>2, StoresAssumption DEF At, StoreInv, StoreTypes, ListsAre, Fetched, Folder
<1>6. /\ j \in Jobs /\ j.at \in {"backup", "sweep"} /\ (j.at = "sweep" => ~j.ok)
      /\ j.ok \in {FALSE, worker[w].ok} /\ j.url = u /\ j.was = worker[w].was /\ j.alone = worker[w].alone
  BY <1>2 DEF Jobs, Works
<1> HIDE DEF j
<1>7. Holds(worker[w], work[u], backup[u]) => Holds(j, work'[u], backup'[u])
  BY <1>1, <1>3, <1>6 DEF Holds
<1>8. ListsAre' /\ FoldersAre'
  BY <1>3, <1>4, <1>5 DEF StoreInv, StoreTypes, ListsAre, FoldersAre
<1> QED BY <1>1, <1>2, <1>3, <1>6, <1>7, <1>8, WorkerGoesOn

LEMMA BackupKeeps ==
  ASSUME StoreInv, NEW w \in Workers, Backup(w)
  PROVE  StoreInv'
<1> DEFINE u == worker[w].url
           m == work[u] # None
           j == [worker[w] EXCEPT !.at = "place", !.kept = m]
<1>1. worker[w].at = "backup"
  BY DEF Backup
<1>2. /\ worker[w] \in Jobs /\ worker \in [Workers -> Jobs] /\ u \in Urls
      /\ worker[w].alone /\ worker[w].was \in Catalogues => Holds(worker[w], work[u], backup[u])
  BY <1>1, WorkerIs DEF Works
<1>3. /\ worker' = [worker EXCEPT ![w] = j] /\ UNCHANGED <<tmp, published, listed, inFile>>
      /\ work' = [work EXCEPT ![u] = None]
      /\ backup' = [backup EXCEPT ![u] = IF m THEN work[u] ELSE backup[u]]
  BY <1>2 DEF Backup, Rests, lists
<1>4. {work, backup, tmp} \subseteq [Urls -> Folder] /\ None \in Folder /\ m \in BOOLEAN
  BY DEF StoreInv, StoreTypes, FoldersAre, Folder
<1>5. /\ j \in Jobs /\ j.at = "place" /\ j.kept = m /\ j.ok = worker[w].ok
      /\ j.url = u /\ j.was = worker[w].was /\ j.alone = worker[w].alone
  <2> HIDE DEF m
  <2> QED BY <1>2, <1>4 DEF Jobs, Works
<1> HIDE DEF j
<1>6. worker[w].was \in Catalogues /\ Holds(worker[w], work[u], backup[u]) => Holds(j, work'[u], backup'[u])
  BY <1>1, <1>2, <1>3, <1>4, <1>5, StoresAssumption DEF Holds
<1>7. ListsAre' /\ FoldersAre' /\ \A x \in Urls \ {u} : work'[x] = work[x] /\ backup'[x] = backup[x]
  BY <1>2, <1>3, <1>4 DEF StoreInv, StoreTypes, ListsAre, FoldersAre
<1> QED BY <1>1, <1>2, <1>3, <1>5, <1>6, <1>7, WorkerGoesOn

LEMMA PlaceKeeps ==
  ASSUME StoreInv, NEW w \in Workers, Place(w)
  PROVE  StoreInv'
<1> DEFINE u == worker[w].url
           can == tmp[u] # None /\ work[u] = None
           j == IF can THEN [worker[w] EXCEPT !.at = "build"] ELSE [worker[w] EXCEPT !.at = "defer", !.ok = FALSE]
<1>1. worker[w].at = "place"
  BY DEF Place
<1>2. /\ worker[w] \in Jobs /\ worker \in [Workers -> Jobs] /\ u \in Urls
      /\ worker[w].alone /\ worker[w].was \in Catalogues => Holds(worker[w], work[u], backup[u])
  BY <1>1, WorkerIs DEF Works
<1>3. /\ worker' = [worker EXCEPT ![w] = j] /\ UNCHANGED <<backup, published, listed, inFile>>
      /\ work' = [work EXCEPT ![u] = IF can THEN tmp[u] ELSE work[u]]
      /\ tmp' = [tmp EXCEPT ![u] = IF can THEN None ELSE tmp[u]]
  BY <1>2 DEF Place, Goes, Fails, Rests, lists
<1>4. {work, backup, tmp} \subseteq [Urls -> Folder] /\ None \in Folder
  BY DEF StoreInv, StoreTypes, FoldersAre, Folder
<1>5. /\ j \in Jobs /\ j.at \in {"build", "defer"} /\ j.kept = worker[w].kept /\ j.ok \in {FALSE, worker[w].ok}
      /\ j.url = u /\ j.was = worker[w].was /\ j.alone = worker[w].alone
  BY <1>2 DEF Jobs, Works
<1> HIDE DEF j
<1>6. Holds(worker[w], work[u], backup[u]) => Holds(j, work'[u], backup'[u])
  BY <1>1, <1>3, <1>5 DEF Holds
<1>7. ListsAre' /\ FoldersAre' /\ \A x \in Urls \ {u} : work'[x] = work[x] /\ backup'[x] = backup[x]
  BY <1>2, <1>3, <1>4 DEF StoreInv, StoreTypes, ListsAre, FoldersAre
<1> QED BY <1>1, <1>2, <1>3, <1>5, <1>6, <1>7, WorkerGoesOn

LEMMA BuildsKeeps ==
  ASSUME StoreInv, NEW w \in Workers, Builds(w) \/ BuildFails(w)
  PROVE  StoreInv'
<1> DEFINE u == worker[w].url
<1>1. worker[w].at = "build"
  BY DEF Builds, BuildFails
<1>2. /\ worker[w] \in Jobs /\ worker \in [Workers -> Jobs] /\ u \in Urls
      /\ worker[w].alone /\ worker[w].was \in Catalogues => Holds(worker[w], work[u], backup[u])
  BY <1>1, WorkerIs DEF Works
<1>3. UNCHANGED <<work, backup, tmp, published, listed, inFile>>
  BY DEF Builds, BuildFails, Rests, lists, folders
<1>5. \E ok \in BOOLEAN : (ok => work[u] \in Catalogues) /\ worker' = [worker EXCEPT ![w] = [worker[w] EXCEPT !.at = "defer", !.ok = ok]]
  <2>1. CASE Builds(w)
    <3> DEFINE good == work[u] \in Catalogues
    <3>1. worker' = [worker EXCEPT ![w] = [worker[w] EXCEPT !.at = "defer", !.ok = good]]
      BY <1>2, <2>1 DEF Builds
    <3>2. good \in BOOLEAN /\ (good => work[u] \in Catalogues)
      OBVIOUS
    <3> HIDE DEF good
    <3> QED BY <3>1, <3>2
  <2>2. CASE BuildFails(w)
    <3>1. worker' = [worker EXCEPT ![w] = [worker[w] EXCEPT !.at = "defer", !.ok = FALSE]]
      BY <1>2, <2>2 DEF BuildFails, Fails
    <3> QED BY <3>1
  <2> QED BY <2>1, <2>2
<1>6. PICK ok \in BOOLEAN : (ok => work[u] \in Catalogues) /\ worker' = [worker EXCEPT ![w] = [worker[w] EXCEPT !.at = "defer", !.ok = ok]]
  BY <1>5
<1> DEFINE n == [worker[w] EXCEPT !.at = "defer", !.ok = ok]
<1>7. /\ n \in Jobs /\ n.at = "defer" /\ n.kept = worker[w].kept /\ n.ok = ok
      /\ n.url = u /\ n.was = worker[w].was /\ n.alone = worker[w].alone
  BY <1>2, <1>6 DEF Jobs, Works
<1>8. worker' = [worker EXCEPT ![w] = n]
  BY <1>6
<1> HIDE DEF n
<1>9. Holds(worker[w], work[u], backup[u]) => Holds(n, work'[u], backup'[u])
  BY <1>1, <1>3, <1>6, <1>7 DEF Holds
<1>10. ListsAre' /\ FoldersAre'
  BY <1>3 DEF StoreInv, StoreTypes, ListsAre, FoldersAre
<1> QED BY <1>1, <1>2, <1>3, <1>7, <1>8, <1>9, <1>10, WorkerGoesOn

LEMMA DeferKeeps ==
  ASSUME StoreInv, NEW w \in Workers, Defer(w)
  PROVE  StoreInv'
<1> DEFINE u == worker[w].url
           k == worker[w].kept
           ok == worker[w].ok
           j == [worker[w] EXCEPT !.at = IF k /\ ~ok THEN "restore" ELSE "sweep"]
<1>1. worker[w].at = "defer"
  BY DEF Defer
<1>2. /\ worker[w] \in Jobs /\ worker \in [Workers -> Jobs] /\ u \in Urls
      /\ worker[w].alone /\ worker[w].was \in Catalogues => Holds(worker[w], work[u], backup[u])
  BY <1>1, WorkerIs DEF Works
<1>3. /\ worker' = [worker EXCEPT ![w] = j] /\ UNCHANGED <<tmp, published, listed, inFile>>
      /\ work' = [work EXCEPT ![u] = IF k /\ ~ok THEN None ELSE work[u]]
      /\ backup' = [backup EXCEPT ![u] = IF k /\ ok THEN None ELSE backup[u]]
  BY <1>2 DEF Defer, Goes, Rests, lists
<1>4. {work, backup, tmp} \subseteq [Urls -> Folder] /\ None \in Folder /\ k \in BOOLEAN /\ ok \in BOOLEAN
  BY <1>2 DEF StoreInv, StoreTypes, FoldersAre, Folder, Jobs
<1>5. /\ j \in Jobs /\ j.at = (IF k /\ ~ok THEN "restore" ELSE "sweep") /\ j.kept = k /\ j.ok = ok
      /\ j.url = u /\ j.was = worker[w].was /\ j.alone = worker[w].alone
  BY <1>2 DEF Jobs, Works
<1> HIDE DEF j
<1>6. Holds(worker[w], work[u], backup[u]) => Holds(j, work'[u], backup'[u])
  BY <1>1, <1>2, <1>3, <1>4, <1>5 DEF Holds
<1>7. ListsAre' /\ FoldersAre' /\ \A x \in Urls \ {u} : work'[x] = work[x] /\ backup'[x] = backup[x]
  BY <1>2, <1>3, <1>4 DEF StoreInv, StoreTypes, ListsAre, FoldersAre
<1>8. j.at \in Works => j.url \in Urls
  BY <1>2, <1>5
<1> QED BY <1>1, <1>2, <1>3, <1>5, <1>6, <1>7, <1>8, WorkerGoesOn

LEMMA RestoreKeeps ==
  ASSUME StoreInv, NEW w \in Workers, Restore(w)
  PROVE  StoreInv'
<1> DEFINE u == worker[w].url
           can == backup[u] # None /\ work[u] = None
           j == [worker[w] EXCEPT !.at = "sweep"]
<1>1. worker[w].at = "restore"
  BY DEF Restore
<1>2. /\ worker[w] \in Jobs /\ worker \in [Workers -> Jobs] /\ u \in Urls
      /\ worker[w].alone /\ worker[w].was \in Catalogues => Holds(worker[w], work[u], backup[u])
  BY <1>1, WorkerIs DEF Works
<1>3. /\ worker' = [worker EXCEPT ![w] = j] /\ UNCHANGED <<tmp, published, listed, inFile>>
      /\ work' = [work EXCEPT ![u] = IF can THEN backup[u] ELSE work[u]]
      /\ backup' = [backup EXCEPT ![u] = IF can THEN None ELSE backup[u]]
  BY <1>2 DEF Restore, Goes, Rests, lists
<1>4. {work, backup, tmp} \subseteq [Urls -> Folder] /\ None \in Folder
  BY DEF StoreInv, StoreTypes, FoldersAre, Folder
<1>5. /\ j \in Jobs /\ j.at = "sweep" /\ j.ok = worker[w].ok
      /\ j.url = u /\ j.was = worker[w].was /\ j.alone = worker[w].alone
  BY <1>2 DEF Jobs, Works
<1> HIDE DEF j
<1>6. worker[w].was \in Catalogues /\ Holds(worker[w], work[u], backup[u]) => Holds(j, work'[u], backup'[u])
  BY <1>1, <1>2, <1>3, <1>4, <1>5, StoresAssumption DEF Holds
<1>7. ListsAre' /\ FoldersAre' /\ \A x \in Urls \ {u} : work'[x] = work[x] /\ backup'[x] = backup[x]
  BY <1>2, <1>3, <1>4 DEF StoreInv, StoreTypes, ListsAre, FoldersAre
<1> QED BY <1>1, <1>2, <1>3, <1>5, <1>6, <1>7, WorkerGoesOn

LEMMA SweepKeeps ==
  ASSUME StoreInv, NEW w \in Workers, Sweep(w)
  PROVE  StoreInv'
<1> DEFINE u == worker[w].url
           j == [worker[w] EXCEPT !.at = "over"]
<1>1. worker[w].at = "sweep"
  BY DEF Sweep
<1>2. /\ worker[w] \in Jobs /\ worker \in [Workers -> Jobs] /\ u \in Urls
      /\ worker[w].alone /\ worker[w].was \in Catalogues => Holds(worker[w], work[u], backup[u])
  BY <1>1, WorkerIs DEF Works
<1>3. /\ worker' = [worker EXCEPT ![w] = j] /\ UNCHANGED <<work, backup, published, listed, inFile>>
      /\ tmp' = [tmp EXCEPT ![u] = None]
  BY <1>2 DEF Sweep, Goes, Rests, lists
<1>4. /\ j \in Jobs /\ j.at = "over" /\ j.ok = worker[w].ok
      /\ j.url = u /\ j.was = worker[w].was /\ j.alone = worker[w].alone
  BY <1>2 DEF Jobs
<1> HIDE DEF j
<1>5. Holds(worker[w], work[u], backup[u]) => Holds(j, work'[u], backup'[u])
  BY <1>1, <1>3, <1>4 DEF Holds
<1>6. ListsAre' /\ FoldersAre'
  BY <1>3 DEF StoreInv, StoreTypes, ListsAre, FoldersAre, Folder
<1> QED BY <1>1, <1>2, <1>3, <1>4, <1>5, <1>6, WorkerGoesOn

LEMMA UpdateCatalogKeeps ==
  ASSUME StoreInv, NEW w \in Workers, UpdateCatalog(w)
  PROVE  StoreInv'
BY HeadAnswersKeeps, HeadFailsKeeps, DownloadsKeeps, BackupKeeps, PlaceKeeps, BuildsKeeps, DeferKeeps,
   RestoreKeeps, SweepKeeps DEF UpdateCatalog


-----------------------------------------------------------------------------
(* The cron, a registration, a removal.                                      *)
LEMMA ListIs ==
  ASSUME StoreInv
  PROVE  /\ listed \in Seq(Urls) /\ ReloadConfig \in Seq(Urls)
         /\ \A s \in Seq(Urls) : ToSet(s) \subseteq Urls
BY DEF StoreInv, StoreTypes, ListsAre, ReloadConfig, ToSet

LEMMA CronStartsKeeps ==
  ASSUME StoreInv, CronStarts
  PROVE  StoreInv'
<1> DEFINE todo == ToSet(ReloadConfig)
           m == ReloadConfig # listed
           j == [Idle EXCEPT !.at = "over", !.todo = todo]
           n == [worker[Hand] EXCEPT !.crossed = @ \/ m]
<1>1. /\ worker' = [w \in Workers |-> IF w = Cron THEN j ELSE [worker[w] EXCEPT !.crossed = @ \/ m]]
      /\ listed' = ReloadConfig /\ UNCHANGED <<work, backup, tmp, published, inFile>>
  BY DEF CronStarts, Workers, Alike, Same, folders
<1>2. Cron # Hand /\ Cron \in Workers /\ Hand \in Workers /\ worker \in [Workers -> Jobs] /\ todo \in SUBSET Urls
      /\ \A w \in Workers : w = Cron \/ w = Hand
  BY StoresAssumption, ListIs DEF StoreInv, StoreTypes, WorkersAre, Workers
<1>3. j \in Jobs /\ j.at = "over" /\ j.url = None /\ j.was = None
  <2> HIDE DEF todo
  <2> QED BY <1>2, StoresAssumption DEF Idle, Jobs, Folder, Works
<1>4. m \in BOOLEAN
  OBVIOUS
<1>5. /\ n \in Jobs /\ n.at = worker[Hand].at /\ n.url = worker[Hand].url /\ n.was = worker[Hand].was
      /\ n.kept = worker[Hand].kept /\ n.ok = worker[Hand].ok /\ n.alone = worker[Hand].alone
  <2> HIDE DEF m
  <2> QED BY <1>2, <1>4 DEF Jobs
<1>6. worker'[Cron] = j /\ worker'[Hand] = n /\ worker' \in [Workers -> Jobs]
  <2>1. worker'[Cron] = j /\ worker'[Hand] = n
    BY <1>1, <1>2
  <2> HIDE DEF j, n, m
  <2> QED BY <1>1, <1>2, <1>3, <1>5, <2>1
<1> HIDE DEF j, n, m, todo
<1>7. ListsAre' /\ FoldersAre'
  BY <1>1, ListIs DEF StoreInv, StoreTypes, ListsAre, FoldersAre
<1>8. WorkersAre'
  BY <1>2, <1>3, <1>5, <1>6 DEF StoreInv, StoreTypes, WorkersAre, Works
<1>9. AloneIsAlone'
  BY <1>2, <1>3, <1>5, <1>6 DEF StoreInv, AloneIsAlone
<1>10. CatalogueIsHeld'
  BY <1>1, <1>2, <1>3, <1>5, <1>6, StoresAssumption DEF StoreInv, CatalogueIsHeld, Holds
<1> QED BY <1>7, <1>8, <1>9, <1>10 DEF StoreInv, StoreTypes

(* Whoever is done is idle.                                                  *)
LEMMA WorkerEnds ==
  ASSUME StoreInv, NEW w \in Workers, worker[w].at # "idle", worker' = [worker EXCEPT ![w] = Idle],
         ListsAre', FoldersAre', \A u \in Urls \ {worker[w].url} : work'[u] = work[u] /\ backup'[u] = backup[u]
  PROVE  StoreInv'
BY IdleIs, WorkerGoesOn

(* A request between two steps that concern no folder.                       *)
LEMMA RequestGoesOnTo ==
  ASSUME StoreInv, NEW to \in {"save", "write", "rmdir"}, worker[Hand].at # "idle", Goes(Hand, to), ListsAre',
         UNCHANGED <<work, backup, tmp>>
  PROVE  StoreInv'
<1> DEFINE j == [worker[Hand] EXCEPT !.at = to]
<1>1. Hand \in Workers /\ worker \in [Workers -> Jobs]
  BY DEF Workers, StoreInv, StoreTypes, WorkersAre
<1>2. worker' = [worker EXCEPT ![Hand] = j]
  BY <1>1 DEF Goes
<1>3. j \in Jobs /\ j.at = to /\ j.url = worker[Hand].url /\ j.was = worker[Hand].was /\ j.alone = worker[Hand].alone
  BY <1>1 DEF Jobs, Works
<1> HIDE DEF j
<1>4. Holds(j, work'[j.url], backup'[j.url]) /\ j.at \notin Works
  BY <1>3 DEF Holds, Works
<1>5. FoldersAre'
  BY DEF StoreInv, StoreTypes, FoldersAre
<1> QED BY <1>1, <1>2, <1>3, <1>4, <1>5, WorkerGoesOn

LEMMA CronNextKeeps ==
  ASSUME StoreInv, CronNext
  PROVE  StoreInv'
<1>1. /\ Cron \in Workers /\ worker[Cron].at # "idle" /\ worker[Cron].todo \in SUBSET Urls
      /\ UNCHANGED <<work, backup, tmp, published, listed, inFile>>
  BY DEF CronNext, Workers, StoreInv, StoreTypes, WorkersAre, Jobs, Alike, Same, folders, lists
<1>2. ListsAre' /\ FoldersAre'
  BY <1>1 DEF StoreInv, StoreTypes, ListsAre, FoldersAre
<1>3. CASE worker' = [worker EXCEPT ![Cron] = Idle]
  BY <1>1, <1>2, <1>3, WorkerEnds
<1>4. ASSUME NEW u \in worker[Cron].todo, Enters(Cron, u, "head", worker[Cron].todo \ {u}) PROVE StoreInv'
  <2>1. u \in Urls /\ worker[Cron].todo \ {u} \in SUBSET Urls
    BY <1>1
  <2> QED BY <1>1, <1>2, <1>4, <2>1, WorkerEnters
<1> QED BY <1>3, <1>4 DEF CronNext

LEMMA RegisterKeeps ==
  ASSUME StoreInv, NEW u \in Urls, RegisterAppStore(u)
  PROVE  StoreInv'
<1>1. /\ Hand \in Workers /\ Enters(Hand, u, "head", {})
      /\ UNCHANGED <<work, backup, tmp, published, listed, inFile>>
  BY DEF RegisterAppStore, Workers, Same, folders, lists
<1>2. ListsAre'
  BY <1>1 DEF StoreInv, StoreTypes, ListsAre
<1>3. {} \in SUBSET Urls
  OBVIOUS
<1> QED BY <1>1, <1>2, <1>3, WorkerEnters

LEMMA RegisteredKeeps ==
  ASSUME StoreInv, Registered
  PROVE  StoreInv'
<1>1. /\ Hand \in Workers /\ worker[Hand].at = "over" /\ UNCHANGED <<work, backup, tmp, published, inFile>>
  BY DEF Registered, Workers, Alike, Same, folders
<1>2. FoldersAre'
  BY <1>1 DEF StoreInv, StoreTypes, FoldersAre
<1>3. CASE worker[Hand].ok
  <2>1. listed' = Append(listed, worker[Hand].url) /\ Goes(Hand, "save")
    BY <1>3 DEF Registered
  <2>2. worker[Hand].url \in Urls
    BY <1>1 DEF StoreInv, StoreTypes, WorkersAre
  <2>3. ListsAre'
    BY <1>1, <2>1, <2>2, ListIs DEF StoreInv, StoreTypes, ListsAre
  <2> QED BY <1>1, <2>1, <2>3, RequestGoesOnTo
<1>4. CASE ~worker[Hand].ok
  <2>1. worker' = [worker EXCEPT ![Hand] = Idle] /\ listed' = listed
    BY <1>4 DEF Registered
  <2>2. ListsAre'
    BY <1>1, <2>1 DEF StoreInv, StoreTypes, ListsAre
  <2> QED BY <1>1, <1>2, <2>1, <2>2, WorkerEnds
<1> QED BY <1>3, <1>4

LEMMA UnregisterKeeps ==
  ASSUME StoreInv, NEW i \in DOMAIN listed, UnregisterAppStore(i)
  PROVE  StoreInv'
<1>1. /\ Hand \in Workers /\ listed \in Seq(Urls) /\ listed[i] \in Urls /\ i \in 1 .. Len(listed)
  BY ListIs DEF Workers
<1>2. /\ listed' = RemoveAt(listed, i) /\ Enters(Hand, listed[i], "save", {listed[i]})
      /\ UNCHANGED <<work, backup, tmp, published, inFile>>
  BY DEF UnregisterAppStore, Same, folders
<1>3. RemoveAt(listed, i) \in Seq(Urls)
  <2>1. SubSeq(listed, 1, i - 1) \in Seq(Urls) /\ SubSeq(listed, i + 1, Len(listed)) \in Seq(Urls)
    BY <1>1
  <2> QED BY <2>1 DEF RemoveAt
<1>4. ListsAre'
  BY <1>2, <1>3 DEF StoreInv, StoreTypes, ListsAre
<1> QED BY <1>1, <1>2, <1>4, WorkerEnters

LEMMA SavesKeep ==
  ASSUME StoreInv, SaveCuts \/ SaveWrites \/ RemovesFolder
  PROVE  StoreInv'
<1>1. Hand \in Workers /\ worker[Hand].at # "idle"
  BY DEF SaveCuts, SaveWrites, RemovesFolder, Workers
<1>2. ListsAre'
  BY DEF SaveCuts, SaveWrites, RemovesFolder, Alike, Same, lists, StoreInv, StoreTypes, ListsAre
<1>3. CASE SaveCuts
  BY <1>1, <1>2, <1>3, RequestGoesOnTo DEF SaveCuts, Alike, Same, folders
<1>4. CASE SaveWrites /\ Goes(Hand, "rmdir")
  BY <1>1, <1>2, <1>4, RequestGoesOnTo DEF SaveWrites, Alike, Same, folders
<1>5. CASE SaveWrites /\ worker' = [worker EXCEPT ![Hand] = Idle]
  <2>1. UNCHANGED <<work, backup, tmp>>
    BY <1>5 DEF SaveWrites, Alike, Same, folders
  <2>2. FoldersAre'
    BY <2>1 DEF StoreInv, StoreTypes, FoldersAre
  <2> QED BY <1>1, <1>2, <1>5, <2>1, <2>2, WorkerEnds
<1>6. CASE RemovesFolder
  <2>1. /\ worker' = [worker EXCEPT ![Hand] = Idle] /\ work' = [work EXCEPT ![worker[Hand].url] = None]
        /\ UNCHANGED <<backup, tmp>>
    BY <1>6 DEF RemovesFolder
  <2>2. work \in [Urls -> Folder] /\ None \in Folder
    BY DEF StoreInv, StoreTypes, FoldersAre, Folder
  <2>3. FoldersAre' /\ \A u \in Urls \ {worker[Hand].url} : work'[u] = work[u] /\ backup'[u] = backup[u]
    BY <2>1, <2>2 DEF StoreInv, StoreTypes, FoldersAre
  <2> QED BY <1>1, <1>2, <2>1, <2>3, WorkerEnds
<1> QED BY <1>3, <1>4, <1>5, <1>6 DEF SaveWrites

LEMMA KilledKeeps ==
  ASSUME StoreInv, KilledAnew
  PROVE  StoreInv'
<1>1. /\ listed' = (IF inFile = Cut THEN <<>> ELSE inFile) /\ worker' = [w \in Workers |-> Idle]
      /\ UNCHANGED <<work, backup, tmp, published, inFile>>
  BY DEF KilledAnew, Workers, folders
<1>2. ListsAre' /\ FoldersAre'
  BY <1>1 DEF StoreInv, StoreTypes, ListsAre, FoldersAre
<1>3. WorkersAre'
  BY <1>1, IdleIs DEF WorkersAre, Works, Workers
<1>4. AloneIsAlone' /\ CatalogueIsHeld'
  BY <1>1, IdleIs DEF AloneIsAlone, CatalogueIsHeld
<1> QED BY <1>2, <1>3, <1>4 DEF StoreInv, StoreTypes

LEMMA StoreElseKeeps ==
  ASSUME StoreInv, UNCHANGED <<work, backup, tmp, worker, listed, inFile>>, published' \in [Urls -> Fetched]
  PROVE  StoreInv'
BY DEF StoreInv, StoreTypes, ListsAre, FoldersAre, WorkersAre, AloneIsAlone, CatalogueIsHeld

LEMMA StoreNextKeeps == StoreInv /\ [StoreNext]_storeVars => StoreInv'
<1> SUFFICES ASSUME StoreInv, [StoreNext]_storeVars PROVE StoreInv'
  OBVIOUS
<1>1. published \in [Urls -> Fetched]
  BY DEF StoreInv, StoreTypes, ListsAre
<1>2. ASSUME NEW u \in Urls, Publishes(u) \/ Repairs(u) \/ Catalog(u) PROVE StoreInv'
  <2>1. published' \in [Urls -> Fetched]
    BY <1>1, <1>2 DEF Publishes, Repairs, Catalog, Fetched
  <2>2. UNCHANGED <<work, backup, tmp, worker, listed, inFile>>
    BY <1>2 DEF Publishes, Repairs, Catalog, folders, lists
  <2> QED BY <2>1, <2>2, StoreElseKeeps
<1>3. CASE UNCHANGED storeVars
  BY <1>1, <1>3, StoreElseKeeps DEF storeVars
<1>4. ASSUME NEW u \in Urls, RegisterAppStore(u) PROVE StoreInv'
  BY <1>4, RegisterKeeps
<1>5. ASSUME NEW w \in {Cron, Hand}, UpdateCatalog(w) PROVE StoreInv'
  BY <1>5, UpdateCatalogKeeps DEF Workers
<1>6. ASSUME NEW i \in DOMAIN listed, UnregisterAppStore(i) PROVE StoreInv'
  BY <1>6, UnregisterKeeps
<1>7. CASE CronGoesOn
  BY <1>7, CronStartsKeeps, CronNextKeeps DEF CronGoesOn
<1>8. CASE RequestGoesOn
  BY <1>8, RegisteredKeeps, SavesKeep DEF RequestGoesOn
<1>9. CASE KilledAnew
  BY <1>9, KilledKeeps
<1> QED BY <1>2, <1>3, <1>4, <1>5, <1>6, <1>7, <1>8, <1>9 DEF StoreNext

(***************************************************************************)
(* UpdateCatalog keeps the catalogue the store had until a new one was     *)
(* built, whatever fails and whenever a kill comes, as long as nobody else *)
(* works on that store: for any stores and catalogues.                     *)
(***************************************************************************)
THEOREM FailuresKeepTheCatalogue == StoreSpec => []FailureKeepsTheCatalogue
<1>1. StoreInv => FailureKeepsTheCatalogue
  BY DEF StoreInv, CatalogueIsHeld, Holds, FailureKeepsTheCatalogue, Updating, Workers
<1> QED BY <1>1, StoreStarts, StoreNextKeeps, PTL DEF StoreSpec
=============================================================================
