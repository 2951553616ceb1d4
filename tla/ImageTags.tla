----------------------------- MODULE ImageTags ------------------------------
(***************************************************************************)
(* What an update of an app would write, and whether it is offered at all:  *)
(* IsUpdateAvailableWith of service/appstore_management.go beside           *)
(* updatedComposeYAML of compose_app.go, which ask the same questions in    *)
(* two places, and PlanUpdateAll of compose_update_all.go, which shows it.  *)
(*                                                                         *)
(* An image is [tag |-> a tag] (and a repository), or NoTag when a digest   *)
(* pins it. A tag is its version numbers, then the runs of digits and of    *)
(* letters after the dash, as <<kind, value>>: "1.40.2.8395-ls123" has the  *)
(* numbers <<1, 40, 2, 8395>> and the build <<Word(1), Number(123)>>; one   *)
(* without numbers is a word.                                              *)
(***************************************************************************)
EXTENDS Integers, Sequences, FiniteSets, SequencesExt

CONSTANTS NoTag,      \* what ExtractImageAndTag answers for a digest
          NoService,  \* an app, or a catalogue, without the service
          Floating,   \* NeedCheckDigestTags: latest and its like
          Blacklisted \* NoUpdateBlacklist

Number(n) == <<0, n>>
Word(k) == <<1, k>>   \* words in their alphabetic order
Dot == <<2, 0>>
Dash == <<2, 1>>

Tags == [numbers : Seq(Nat), build : Seq({0, 1} \X Nat)]

VersionLike(t) == t.numbers # <<>>

\* The tag from its first character to its last.
Runs(t) ==
  [i \in 1..(2 * Len(t.numbers) - 1) |-> IF i % 2 = 1 THEN Number(t.numbers[(i + 1) \div 2]) ELSE Dot]
  \o (IF t.build = <<>> THEN <<>> ELSE <<Dash>> \o t.build)

OrderOf(m, n) == IF m < n THEN "below" ELSE IF m > n THEN "above" ELSE "equal"

\* The first place two sequences differ, or 0.
Differ(x, y) ==
  LET places == {i \in DOMAIN x \cap DOMAIN y : x[i] # y[i]}
  IN IF places = {} THEN 0 ELSE CHOOSE i \in places : \A j \in places : i <= j

NaturalCompare(x, y) ==
  LET i == Differ(x, y) IN
  IF i = 0 THEN OrderOf(Len(x), Len(y))
  ELSE IF x[i][1] = 0 /\ y[i][1] = 0 THEN OrderOf(x[i][2], y[i][2])
  ELSE "unordered"

\* The semver library: three numbers at most, a build is below none, digits before letters.
IsSemver(t) == Len(t.numbers) \in 1..3
Padded(t) == t.numbers \o [i \in 1..(3 - Len(t.numbers)) |-> 0]

SemverBuilds(x, y) ==
  LET i == Differ(x, y) IN
  IF (x = <<>>) # (y = <<>>) THEN (IF y = <<>> THEN "below" ELSE "above")
  ELSE IF i = 0 THEN OrderOf(Len(x), Len(y))
  ELSE IF x[i][1] # y[i][1] THEN OrderOf(x[i][1], y[i][1])
  ELSE OrderOf(x[i][2], y[i][2])

CompareSemver(s, t) ==
  LET i == Differ(Padded(s), Padded(t))
      natural == NaturalCompare(s.build, t.build)
  IN
  IF i # 0 THEN OrderOf(Padded(s)[i], Padded(t)[i])
  ELSE IF s.build # <<>> /\ t.build # <<>> /\ natural # "unordered" THEN natural
  ELSE SemverBuilds(s.build, t.build)

CompareTags(s, t) ==
  IF s = t THEN "equal"
  ELSE IF IsSemver(s) /\ IsSemver(t) THEN CompareSemver(s, t)
  ELSE IF VersionLike(s) /\ VersionLike(t) THEN NaturalCompare(Runs(s), Runs(t))
  ELSE "unordered"

-----------------------------------------------------------------------------
(* One service, then an app: a function from services to images.             *)
ReferenceFloats(image) == image.tag \in Floating

UpdateWritesStoreImage(local, store) == ~ReferenceFloats(local) /\ ~ReferenceFloats(store)

\* A catalogue behind what runs, and one that nothing orders against it.
Backwards(local, store) ==
  /\ local.tag # NoTag /\ store.tag # NoTag /\ local.tag # store.tag
  /\ CompareTags(store.tag, local.tag) \in {"below", "unordered"}

\* What an app is here: each of its services has a tag, or a digest.
Tagged(app) == \A s \in DOMAIN app : app[s] = NoService \/ app[s].tag = NoTag \/ app[s].tag \in Tags

Runs_(app) == {s \in DOMAIN app : app[s] # NoService}

ServicesUpdateCannotCreate(app, store) == Runs_(store) \ Runs_(app)

\* The services whose image the update replaces.
Written(app, store) ==
  {s \in Runs_(app) \cap Runs_(store) : store[s] # app[s] /\ UpdateWritesStoreImage(app[s], store[s])}

\* A plausible bug: one service that goes forward is enough.
IsUpdateAvailableWith_Any(app, store, moved) ==
  /\ ServicesUpdateCannotCreate(app, store) = {}
  /\ (\E s \in Written(app, store) : ~Backwards(app[s], store[s])) \/ moved

\* `moved` is what the registries said.
IsUpdateAvailableWith(app, store, moved) ==
  /\ ServicesUpdateCannotCreate(app, store) = {}
  /\ \A s \in Runs_(app) : app[s] \notin Blacklisted
  /\ \A s \in Written(app, store) : ~Backwards(app[s], store[s])
  /\ Written(app, store) # {} \/ moved

\* The compose file an update writes: every service the catalogue names, or an error.
UpdatedComposeYAML(app, store) ==
  IF ServicesUpdateCannotCreate(app, store) # {} THEN app
  ELSE [s \in DOMAIN app |->
         IF s \in Runs_(store) /\ UpdateWritesStoreImage(app[s], store[s]) THEN store[s] ELSE app[s]]

\* The plan a person confirms: service -> from, to; every service when none changes.
PlanUpdateAll(app, store) ==
  LET changed == {s \in Runs_(app) \cap Runs_(store) :
                    store[s] # app[s] /\ UpdateWritesStoreImage(app[s], store[s])}
  IN IF changed # {} THEN [s \in changed |-> [from |-> app[s], to |-> store[s]]]
     ELSE [s \in Runs_(app) |-> [from |-> app[s], to |-> app[s]]]

-----------------------------------------------------------------------------
\* What it is for an update to go forward: no service gets a tag behind the one it had, or one
\* that nothing orders; it changes a service, or the registries said an image moved; the plan a
\* person saw is what was written; and with the same catalogue it is not offered again, nor is
\* the way back when a tag rose.
GoesForward(app, store, moved, after) ==
  LET plan == PlanUpdateAll(app, store)
      changed == {s \in DOMAIN app : after[s] # app[s]}
      rose == {s \in changed : NoTag \notin {after[s].tag, app[s].tag}
                               /\ CompareTags(after[s].tag, app[s].tag) = "above"}
  IN
  /\ \A s \in changed : ~Backwards(app[s], after[s])
  /\ changed # {} \/ moved
  /\ \A s \in DOMAIN app : after[s] = IF s \in DOMAIN plan THEN plan[s].to ELSE app[s]
  /\ ~IsUpdateAvailableWith(after, store, FALSE)
  /\ rose # {} => ~IsUpdateAvailableWith(after, app, FALSE)
=============================================================================
