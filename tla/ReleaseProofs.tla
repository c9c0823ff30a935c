----------------------------- MODULE ReleaseProofs -----------------------------
(***************************************************************************)
(* Proofs about Release for any number of pushes, drafts and edits by      *)
(* hand, and whether or not the lookup finds drafts; and about Checkpoint, *)
(* the command with which a release is packaged and verified.              *)
(*                                                                         *)
(* That what is verified is a reviewed build needs to be known long before *)
(* the verification: only runs past the guard build (Guarded), and what a  *)
(* release or a download holds was built by such a run or by nobody        *)
(* (Genuine).  That what was accepted stays needs the release to be fixed. *)
(***************************************************************************)
EXTENDS Release, Checkpoint, SequenceTheorems, TLAPS

Pieces == Built \cup {Altered, Missing}
Genuine(assets) == assets \in [Names -> Pieces]

Guarded == \A r \in DOMAIN runs : runs[r].stage # "guard" => runs[r].commit \in Reviewed

Contents ==
    /\ \A i \in Ids : Genuine(releases[i].assets)
    /\ bundle # None => Genuine(bundle[1].assets)

Final(a) ==
    /\ OneBuild(a.assets, a.commit) /\ a.commit \in Reviewed /\ tag = a.commit
    /\ a.id \in Ids /\ releases[a.id].fixed
    /\ releases[a.id].state = "published" /\ releases[a.id].assets = a.assets

AcceptedFinal == accepted # None => Final(accepted[1])

Inv == TypeOK /\ Guarded /\ Contents /\ VerifiedIsOneReviewedBuild /\ AcceptedFinal

-------------------------------------------------------------------------------
LEMMA InitInv == Init => Inv
<1> SUFFICES ASSUME Init PROVE Inv
  OBVIOUS
<1>1. runs = <<[commit |-> tag, stage |-> "guard"]>> /\ tag \in Commits
  BY DEF Init
<1>2. runs \in Seq(RunSet) /\ Len(runs) = 1 /\ DOMAIN runs = {1} /\ runs[1].stage = "guard"
  BY <1>1 DEF RunSet
<1>3. releases = <<>> /\ releases \in Seq(ReleaseSet) /\ Ids = {}
  BY DEF Init, Ids
<1>4. TypeOK
  BY <1>2, <1>3, ReleaseAssumption DEF Init, TypeOK, NoGate
<1> QED BY <1>2, <1>3, <1>4
   DEF Init, Inv, Guarded, Contents, VerifiedIsOneReviewedBuild, AcceptedFinal

(* What a step may do to the runs: each keeps its commit, and what it built. *)
RunsFollow ==
    /\ runs' \in Seq(RunSet) /\ Len(runs') <= MaxRuns
    /\ DOMAIN runs \subseteq DOMAIN runs'
    /\ \A r \in DOMAIN runs : runs'[r].commit = runs[r].commit
    /\ Built \subseteq Built' /\ Guarded'

LEMMA RunsStay == ASSUME Inv, UNCHANGED runs PROVE RunsFollow
BY DEF Inv, TypeOK, RunsFollow, Built, Guarded

LEMMA StageFollows ==
    ASSUME Inv, NEW r \in DOMAIN runs, NEW from, NEW to, Stage(r, from, to),
           to \in {"package", "lookup", "create", "done"},
           from \in {"lookup", "create", "done"} => to \in {"lookup", "create", "done"},
           from = "guard" => runs[r].commit \in Reviewed
    PROVE  RunsFollow
<1> DEFINE new == [runs[r] EXCEPT !.stage = to]
<1>1. runs \in Seq(RunSet) /\ r \in 1..Len(runs) /\ runs[r] \in RunSet /\ Len(runs) \in Nat
  BY DEF Inv, TypeOK
<1>2. new \in RunSet /\ new.commit = runs[r].commit /\ new.stage = to
  BY <1>1 DEF RunSet
<1>3. runs' = [runs EXCEPT ![r] = new] /\ runs[r].stage = from
  BY DEF Stage
<1> HIDE DEF new
<1>4. /\ runs' \in Seq(RunSet) /\ Len(runs') = Len(runs)
      /\ \A q \in 1..Len(runs) : runs'[q] = IF q = r THEN new ELSE runs[q]
  BY <1>1, <1>2, <1>3, ExceptSeq
<1>5. DOMAIN runs' = DOMAIN runs /\ DOMAIN runs = 1..Len(runs)
  BY <1>1, <1>4
<1>6. Built \subseteq Built'
  BY <1>2, <1>3, <1>4, <1>5 DEF Built
<1>7. Guarded'
  BY <1>2, <1>3, <1>4, <1>5 DEF Inv, Guarded
<1> QED BY <1>2, <1>4, <1>5, <1>6, <1>7 DEF RunsFollow, Inv, TypeOK

LEMMA PushFollows == ASSUME Inv, NEW c \in Commits, Push(c) PROVE RunsFollow
<1> DEFINE new == [commit |-> c, stage |-> "guard"]
<1>1. runs \in Seq(RunSet) /\ Len(runs) \in Nat /\ new \in RunSet /\ DOMAIN runs = 1..Len(runs)
  BY DEF Inv, TypeOK, RunSet
<1>2. runs' = Append(runs, new) /\ new.stage = "guard" /\ Len(runs) < MaxRuns
  BY DEF Push
<1> HIDE DEF new
<1>3. /\ runs' \in Seq(RunSet) /\ Len(runs') = Len(runs) + 1
      /\ \A q \in 1..Len(runs) : runs'[q] = runs[q]
      /\ runs'[Len(runs) + 1] = new
  BY <1>1, <1>2, AppendProperties
<1>4. DOMAIN runs' = 1..(Len(runs) + 1)
  BY <1>3
<1>5. Built \subseteq Built' /\ Guarded'
  BY <1>1, <1>2, <1>3, <1>4 DEF Built, Inv, Guarded
<1> QED BY <1>1, <1>2, <1>3, <1>4, <1>5, ReleaseAssumption DEF RunsFollow

(* Then what was one build stays one, and the pieces of builds stay pieces.  *)
LEMMA BuildsStay ==
    ASSUME Inv, RunsFollow
    PROVE  /\ Pieces \subseteq Pieces'
           /\ \A a : Genuine(a) => Genuine(a)'
           /\ \A a, c : OneBuild(a, c) => OneBuild(a, c)'
<1>1. Pieces \subseteq Pieces'
  BY DEF RunsFollow, Pieces, Altered, Missing
<1>2. ASSUME NEW a, Genuine(a) PROVE Genuine(a)'
  BY <1>1, <1>2 DEF Genuine, Names
<1>3. ASSUME NEW a, NEW c, OneBuild(a, c) PROVE OneBuild(a, c)'
  BY <1>3 DEF OneBuild, RunsFollow, Assets, Names
<1> QED BY <1>1, <1>2, <1>3

LEMMA VerifiedStay ==
    ASSUME Inv, RunsFollow, UNCHANGED verified
    PROVE  VerifiedIsOneReviewedBuild'
BY BuildsStay DEF Inv, VerifiedIsOneReviewedBuild

(* What a run has built holds pieces of its own build.                       *)
LEMMA PiecesAreAssets ==
    ASSUME Inv
    PROVE  /\ Pieces \subseteq 0..Missing
           /\ Altered \notin DOMAIN runs /\ Missing \notin DOMAIN runs
<1>1. Len(runs) \in Nat /\ Len(runs) <= MaxRuns /\ DOMAIN runs = 1..Len(runs)
  BY DEF Inv, TypeOK
<1>2. Built \subseteq DOMAIN runs
  BY DEF Built
<1> QED BY <1>1, <1>2, ReleaseAssumption DEF Pieces, Altered, Missing

-------------------------------------------------------------------------------
(* A release that is there.                                                  *)
LEMMA ReleaseParts ==
    ASSUME Inv, NEW i \in Ids
    PROVE  /\ releases[i] \in ReleaseSet /\ releases[i].assets \in AssetSets
           /\ Genuine(releases[i].assets)
<1>1. releases \in Seq(ReleaseSet) /\ i \in 1..Len(releases)
  BY DEF Inv, TypeOK, Ids
<1>2. releases[i] \in ReleaseSet
  BY <1>1, ElementOfSeq
<1> QED BY <1>2 DEF ReleaseSet, Inv, Contents

(* What a step may do to the releases: a fixed one stays as it is.           *)
ReleasesFollow ==
    /\ releases' \in Seq(ReleaseSet) /\ Ids \subseteq Ids'
    /\ \A i \in Ids' : Genuine(releases[i].assets)'
    /\ \A i \in Ids' : releases'[i].fixed => releases'[i].state = "published"
    /\ \A i \in Ids : releases[i].fixed => releases'[i] = releases[i]

LEMMA ReleasesStay == ASSUME Inv, RunsFollow, UNCHANGED releases PROVE ReleasesFollow
<1>1. \A i \in Ids : Genuine(releases[i].assets)'
  <2> TAKE i \in Ids
  <2>1. Genuine(releases[i].assets)
    BY DEF Inv, Contents
  <2> QED BY <2>1, BuildsStay DEF Genuine
<1> QED BY <1>1 DEF Inv, TypeOK, ReleasesFollow, Ids

LEMMA DraftFollows ==
    ASSUME Inv, RunsFollow, NEW draft \in ReleaseSet, releases' = Append(releases, draft),
           ~ draft.fixed, Genuine(draft.assets)
    PROVE  ReleasesFollow
<1>1. releases \in Seq(ReleaseSet) /\ Len(releases) \in Nat /\ Ids = 1..Len(releases)
  BY DEF Inv, TypeOK, Ids
<1>2. /\ releases' \in Seq(ReleaseSet) /\ Len(releases') = Len(releases) + 1
      /\ \A i \in 1..Len(releases) : releases'[i] = releases[i]
      /\ releases'[Len(releases) + 1] = draft
  BY <1>1, AppendProperties
<1>3. Ids' = 1..(Len(releases) + 1)
  BY <1>2 DEF Ids
<1>4. \A i \in Ids' : Genuine(releases'[i].assets)
  BY <1>1, <1>2, <1>3 DEF Inv, Contents
<1>5. \A i \in Ids' : Genuine(releases[i].assets)'
  BY <1>4, BuildsStay DEF Genuine
<1> QED BY <1>1, <1>2, <1>3, <1>5 DEF Inv, TypeOK, ReleasesFollow

LEMMA ChangeFollows ==
    ASSUME Inv, RunsFollow, NEW i \in Ids, NEW new \in ReleaseSet,
           releases' = [releases EXCEPT ![i] = new], ~ releases[i].fixed,
           new.fixed => new.state = "published", Genuine(new.assets)
    PROVE  ReleasesFollow
<1>1. releases \in Seq(ReleaseSet) /\ Len(releases) \in Nat /\ Ids = 1..Len(releases)
  BY DEF Inv, TypeOK, Ids
<1>2. /\ releases' \in Seq(ReleaseSet) /\ Len(releases') = Len(releases)
      /\ \A j \in 1..Len(releases) : releases'[j] = IF j = i THEN new ELSE releases[j]
  BY <1>1, ExceptSeq
<1>3. Ids' = Ids
  BY <1>1, <1>2 DEF Ids
<1>4. \A j \in Ids' : Genuine(releases'[j].assets)
  BY <1>1, <1>2, <1>3 DEF Inv, Contents
<1>5. \A j \in Ids' : Genuine(releases[j].assets)'
  BY <1>4, BuildsStay DEF Genuine
<1> QED BY <1>1, <1>2, <1>3, <1>5 DEF Inv, TypeOK, ReleasesFollow

(* A fixed release keeps the tag where it is, and what was accepted with it. *)
LEMMA FinalStays ==
    ASSUME Inv, RunsFollow, ReleasesFollow, UNCHANGED accepted, UNCHANGED tag \/ ~ Fixed
    PROVE  AcceptedFinal'
<1> SUFFICES ASSUME accepted # None PROVE Final(accepted[1])'
  BY DEF AcceptedFinal
<1>1. Final(accepted[1])
  BY DEF Inv, AcceptedFinal
<1>2. tag' = tag
  BY <1>1 DEF Final, Fixed
<1>3. OneBuild(accepted[1].assets, accepted[1].commit)'
  BY <1>1, BuildsStay DEF Final, OneBuild
<1> QED BY <1>1, <1>2, <1>3 DEF Final, ReleasesFollow

LEMMA BundleStays ==
    ASSUME Inv, RunsFollow, ReleasesFollow, UNCHANGED bundle
    PROVE  /\ bundle' # None => bundle'[1].id \in Ids' /\ bundle'[1].assets \in AssetSets
           /\ (bundle # None => Genuine(bundle[1].assets))'
BY BuildsStay DEF Inv, TypeOK, Contents, ReleasesFollow, Genuine

Settled == edits \in 0..MaxEdits /\ immutable \in BOOLEAN
           /\ gate.stage \in {"none", "recorded", "compared", "published"}

(* The steps that neither download nor verify.                               *)
LEMMA QuietInv ==
    ASSUME Inv, RunsFollow, ReleasesFollow, UNCHANGED <<bundle, verified, accepted>>,
           UNCHANGED tag \/ (~ Fixed /\ tag' \in Commits), Settled'
    PROVE  Inv'
<1>1. TypeOK'
  BY BundleStays DEF Inv, TypeOK, Settled, RunsFollow, ReleasesFollow
<1>2. Contents'
  BY BundleStays DEF Contents, ReleasesFollow
<1> QED BY <1>1, <1>2, VerifiedStay, FinalStays DEF Inv, RunsFollow

-------------------------------------------------------------------------------
(* A run builds once it is past the guard, and drafts what it has built.     *)
LEMMA WorkflowInv ==
    ASSUME Inv, NEW r \in DOMAIN runs, Guard(r) \/ Package(r) \/ Lookup(r) \/ Create(r)
    PROVE  Inv'
<1>1. RunsFollow
  <2>1. CASE Guard(r)
    BY <2>1, StageFollows DEF Guard
  <2>2. CASE Package(r)
    BY <2>2, StageFollows DEF Package
  <2>3. CASE Lookup(r)
    BY <2>3, StageFollows DEF Lookup
  <2>4. CASE Create(r)
    BY <2>4, StageFollows DEF Create
  <2> QED BY <2>1, <2>2, <2>3, <2>4
<1>2. ASSUME Create(r) PROVE ReleasesFollow
  <2>1. r \in Built
    BY <1>2 DEF Create, Stage, Built
  <2>2. Genuine(Assets(r)) /\ Genuine([Assets(r) EXCEPT !["provenance"] = Missing])
    BY <2>1 DEF Genuine, Pieces, Assets
  <2>3. \A a : Genuine(a) => a \in AssetSets
    BY PiecesAreAssets DEF Genuine, AssetSets
  <2>4. ASSUME NEW a, Genuine(a),
               releases' = Append(releases, [state |-> "draft", assets |-> a, fixed |-> FALSE])
        PROVE  ReleasesFollow
    <3> DEFINE draft == [state |-> "draft", assets |-> a, fixed |-> FALSE]
    <3>1. draft \in ReleaseSet /\ ~ draft.fixed /\ draft.assets = a
      BY <2>3, <2>4 DEF ReleaseSet
    <3>2. releases' = Append(releases, draft)
      BY <2>4
    <3> HIDE DEF draft
    <3> QED BY <1>1, <2>4, <3>1, <3>2, DraftFollows
  <2> QED BY <1>1, <1>2, <2>2, <2>4, ReleasesStay DEF Create
<1>3. ReleasesFollow
  BY <1>1, <1>2, ReleasesStay DEF Guard, Package, Lookup
<1>4. UNCHANGED <<tag, immutable, looked, bundle, verified, gate, accepted, edits>>
  BY DEF Guard, Package, Lookup, Create, Stage
<1> QED BY <1>1, <1>3, <1>4, QuietInv DEF Inv, TypeOK, Settled

(* What verifies was built by one run, for that commit, past the guard.      *)
LEMMA VerifiedIsBuilt ==
    ASSUME Inv, bundle # None, NEW c, Verifies(bundle[1].assets, c)
    PROVE  OneBuild(bundle[1].assets, c) /\ c \in Reviewed
<1> DEFINE a == bundle[1].assets
           r == a["provenance"]
<1>1. Genuine(a) /\ r \in DOMAIN runs /\ runs[r].commit = c /\ \A n \in Names : a[n] = r
  BY DEF Inv, Contents, Verifies, Attested
<1>2. a = Assets(r)
  BY <1>1 DEF Genuine, Assets
<1>3. r \in Built
  BY <1>1, PiecesAreAssets DEF Genuine, Pieces, Names
<1> QED BY <1>1, <1>2, <1>3 DEF OneBuild, Built, Inv, Guarded

(* The steps that read the releases, and judge what they have read.          *)
LEMMA ReadInv ==
    ASSUME Inv, NEW c \in Commits,
           View \/ Download \/ VerifyDraft(c) \/ DownloadPublished \/ VerifyPublished(c)
    PROVE  Inv'
<1>1. UNCHANGED <<tag, runs, immutable, edits, releases, gate>>
  BY DEF View, Download, VerifyDraft, DownloadPublished, VerifyPublished, Workflow
<1>2. RunsFollow
  BY <1>1, RunsStay
<1>3. ReleasesFollow
  BY <1>1, <1>2, ReleasesStay
<1>4. bundle' # None => bundle'[1].id \in Ids /\ bundle'[1].assets = releases[bundle'[1].id].assets
  BY DEF View, Download, VerifyDraft, DownloadPublished, VerifyPublished, In, None
<1>5. \A i \in Ids : releases[i].assets \in AssetSets /\ Genuine(releases[i].assets)
  BY ReleaseParts
<1>6. TypeOK'
  BY <1>1, <1>4, <1>5 DEF Inv, TypeOK, Ids
<1>7. Contents'
  BY <1>1, <1>4, <1>5 DEF Contents, Genuine, Pieces, Built, Ids, Missing, Altered
<1>8. VerifiedIsOneReviewedBuild'
  <2>1. CASE VerifyDraft(c)
    <3>1. OneBuild(bundle[1].assets, c) /\ c \in Reviewed
      BY <2>1, VerifiedIsBuilt DEF VerifyDraft
    <3>2. verified' = verified \cup {[commit |-> c, assets |-> bundle[1].assets]}
      BY <2>1 DEF VerifyDraft
    <3> QED BY <1>1, <3>1, <3>2 DEF Inv, VerifiedIsOneReviewedBuild, OneBuild
  <2>2. CASE UNCHANGED verified
    BY <1>2, <2>2, VerifiedStay
  <2> QED BY <2>1, <2>2 DEF View, Download, DownloadPublished, VerifyPublished
<1>9. AcceptedFinal'
  <2>1. CASE VerifyPublished(c)
    <3>1. OneBuild(bundle[1].assets, c) /\ c \in Reviewed /\ bundle[1].id \in Ids
      BY <2>1, VerifiedIsBuilt DEF VerifyPublished, Inv, TypeOK
    <3>2. /\ PublishedAs(bundle[1].id, bundle[1].assets, c)
          /\ accepted' = <<[id |-> bundle[1].id, assets |-> bundle[1].assets, commit |-> c]>>
      BY <2>1 DEF VerifyPublished
    <3> QED BY <1>1, <3>1, <3>2 DEF AcceptedFinal, Final, PublishedAs, OneBuild, Ids
  <2>2. CASE UNCHANGED accepted
    BY <1>1, <1>2, <1>3, <2>2, FinalStays
  <2> QED BY <2>1, <2>2 DEF View, Download, VerifyDraft, DownloadPublished
<1> QED BY <1>2, <1>6, <1>7, <1>8, <1>9 DEF Inv, RunsFollow

(* The maintainer publishes a draft, which no acceptance is about yet.       *)
LEMMA GateInv == ASSUME Inv, Snapshot \/ CompareLive \/ Publish PROVE Inv'
<1>1. /\ UNCHANGED <<tag, runs, immutable, edits, bundle, verified, accepted>>
      /\ gate'.stage \in {"recorded", "compared", "published"}
  <2>1. CASE Snapshot
    BY <2>1 DEF Snapshot, Workflow
  <2>2. CASE CompareLive
    BY <2>2 DEF CompareLive, Workflow
  <2>3. CASE Publish
    BY <2>3 DEF Publish, Workflow
  <2> QED BY <2>1, <2>2, <2>3
<1>2. RunsFollow
  BY <1>1, RunsStay
<1>3. ASSUME Publish PROVE ReleasesFollow
  <2>1. PICK i \in In("draft") :
           releases' = [releases EXCEPT ![i].state = "published", ![i].fixed = immutable]
    BY <1>3 DEF Publish
  <2> DEFINE new == [releases[i] EXCEPT !.state = "published", !.fixed = immutable]
  <2>2. i \in Ids /\ releases[i] \in ReleaseSet /\ Genuine(releases[i].assets) /\ ~ releases[i].fixed
    BY ReleaseParts DEF In, Inv, TypeOK
  <2>3. new \in ReleaseSet /\ new.state = "published" /\ new.assets = releases[i].assets
    BY <2>2 DEF Inv, TypeOK, ReleaseSet
  <2>4. releases' = [releases EXCEPT ![i] = new]
    BY <2>1, <2>2 DEF Inv, TypeOK, Ids
  <2> HIDE DEF new
  <2> QED BY <1>2, <2>2, <2>3, <2>4, ChangeFollows
<1>4. ReleasesFollow
  BY <1>2, <1>3, ReleasesStay DEF Snapshot, CompareLive
<1> QED BY <1>1, <1>2, <1>4, QuietInv DEF Inv, TypeOK, Settled

(* What is done by hand passes a fixed release by.                           *)
LEMMA EditInv == ASSUME Inv, EditRelease PROVE Inv'
<1>1. UNCHANGED <<tag, runs, immutable, gate, bundle, verified, accepted>> /\ edits' \in 0..MaxEdits
  BY ReleaseAssumption DEF EditRelease, Others, Inv, TypeOK
<1>2. RunsFollow
  BY <1>1, RunsStay
<1>3. PICK i \in Existing :
         /\ ~ releases[i].fixed
         /\ \/ \E n \in Names, x \in Pieces : releases' = [releases EXCEPT ![i].assets[n] = x]
            \/ releases' = [releases EXCEPT ![i].state = "deleted"]
  BY DEF EditRelease, Pieces
<1>4. /\ i \in Ids /\ releases[i] \in ReleaseSet /\ Genuine(releases[i].assets)
      /\ releases \in Seq(ReleaseSet)
  BY DEF Existing, Inv, TypeOK, Contents, Ids
<1>5. ASSUME NEW new \in ReleaseSet, releases' = [releases EXCEPT ![i] = new],
             ~ new.fixed, Genuine(new.assets)
      PROVE  ReleasesFollow
  BY <1>2, <1>3, <1>4, <1>5, ChangeFollows
<1>6. ASSUME NEW n \in Names, NEW x \in Pieces, releases' = [releases EXCEPT ![i].assets[n] = x]
      PROVE  ReleasesFollow
  <2> DEFINE assets == [releases[i].assets EXCEPT ![n] = x]
             new == [releases[i] EXCEPT !.assets = assets]
  <2>1. Genuine(assets)
    BY <1>4 DEF Genuine
  <2>2. assets \in AssetSets
    BY <2>1, PiecesAreAssets DEF Genuine, AssetSets
  <2>3. releases' = [releases EXCEPT ![i] = new]
    BY <1>4, <1>6
  <2> HIDE DEF assets
  <2>4. new \in ReleaseSet /\ new.fixed = releases[i].fixed /\ new.assets = assets
    BY <1>4, <2>2 DEF ReleaseSet
  <2> HIDE DEF new
  <2> QED BY <1>3, <1>5, <2>1, <2>3, <2>4
<1>7. ASSUME releases' = [releases EXCEPT ![i].state = "deleted"] PROVE ReleasesFollow
  <2> DEFINE new == [releases[i] EXCEPT !.state = "deleted"]
  <2>1. releases' = [releases EXCEPT ![i] = new]
    BY <1>4, <1>7
  <2>2. new \in ReleaseSet /\ new.fixed = releases[i].fixed /\ new.assets = releases[i].assets
    BY <1>4 DEF ReleaseSet
  <2> HIDE DEF new
  <2> QED BY <1>3, <1>4, <1>5, <2>1, <2>2
<1>8. ReleasesFollow
  BY <1>3, <1>6, <1>7
<1> QED BY <1>1, <1>2, <1>8, QuietInv DEF Inv, TypeOK, Settled

LEMMA NextInv == Inv /\ [Next]_vars => Inv'
<1> SUFFICES ASSUME Inv, [Next]_vars PROVE Inv'
  OBVIOUS
<1>1. CASE UNCHANGED vars
  <2>1. RunsFollow /\ ReleasesFollow
    BY <1>1, RunsStay, ReleasesStay DEF vars
  <2> QED BY <1>1, <2>1, QuietInv DEF vars, Inv, TypeOK, Settled
<1>2. ASSUME NEW c \in Commits, Push(c) PROVE Inv'
  <2>1. RunsFollow
    BY <1>2, PushFollows
  <2>2. ReleasesFollow
    BY <1>2, <2>1, ReleasesStay DEF Push
  <2> QED BY <1>2, <2>1, <2>2, QuietInv DEF Push, Others, Inv, TypeOK, Settled
<1>3. CASE SetImmutable
  <2>1. RunsFollow /\ ReleasesFollow
    BY <1>3, RunsStay, ReleasesStay DEF SetImmutable
  <2> QED BY <1>3, <2>1, QuietInv DEF SetImmutable, Others, Inv, TypeOK, Settled
<1>4. tag \in Commits
  BY DEF Inv, TypeOK
<1> QED BY <1>1, <1>2, <1>3, <1>4, WorkflowInv, ReadInv, GateInv, EditInv DEF Next

-------------------------------------------------------------------------------
(* The runs, the releases and what was downloaded are what they should be.   *)
THEOREM TypeCorrect == Spec => []TypeOK
<1>1. Inv => TypeOK
  BY DEF Inv
<1> QED BY <1>1, InitInv, NextInv, PTL DEF Spec

(* Draft verification accepts the output of one reviewed run, or nothing.    *)
THEOREM VerifiedBuild == Spec => []VerifiedIsOneReviewedBuild
<1>1. Inv => VerifiedIsOneReviewedBuild
  BY DEF Inv
<1> QED BY <1>1, InitInv, NextInv, PTL DEF Spec

(* What the published verification has accepted is there to stay.            *)
THEOREM AcceptedForGood == Spec => []AcceptedStays
<1>1. Inv => AcceptedStays
  BY DEF Inv, AcceptedFinal, Final, AcceptedStays
<1> QED BY <1>1, InitInv, NextInv, PTL DEF Spec
-------------------------------------------------------------------------------
(* The checkpoint, of a policy directory of any number of files and any      *)
(* bytes.  Several directories have one stream, and so one digest.  That     *)
(* none of them passes but the committed one is a matter of lengths: once    *)
(* the rules are in the frozen file, they and their path leave no room in    *)
(* the stream for another path, which has one symbol at least.               *)

\* The paths that the walk has hashed so far, as places in the order.
Hashed == {i \in 1 .. walked : Selects(Order[i])}

\* What the file at a place adds to the length of the stream.
Size(i) == Len(Order[i]) + Len(policy[Order[i]].bytes)

\* Every hashed file was read, and has its own part of the stream.
StreamHolds ==
    LET length == Len(entries.stream)
    IN  /\ \A i \in Hashed : Readable(Order[i]) /\ Size(i) <= length
        /\ \A i, j \in Hashed : i # j => Size(i) + Size(j) <= length

\* The stream of the committed directory is that of the frozen rules.
StreamOfRules ==
    PolicyAsCommitted =>
        entries.stream = IF \E i \in 1 .. walked : Order[i] = Rego THEN Rego \o Rules ELSE <<>>

Past(passes) == pc \in passes \cup {"passed"}

Progress ==
    /\ pc \in {"lstat", "build"} => walked = 0 /\ entries.stream = <<>>
    /\ Past({"build", "walk", "read", "compare"}) => link = {} /\ Present(Rego)
    /\ Past({"walk", "read", "compare"}) =>
          /\ evidence # "invalid"
          /\ entries.built = IF evidence = "changed" \/ builder = "drifted" THEN "other" ELSE "body"
    /\ Past({"read", "compare"}) => walked = Len(Order)
    /\ Past({"compare"}) => entries.evidence = evidence /\ entries.rego = policy[Rego]
    /\ pc = "passed" => entries = Committed

CheckpointInv ==
    CheckpointTypeOK /\ StreamHolds /\ StreamOfRules /\ Progress /\ FailsForCauseOnly

LEMMA PathFacts ==
    /\ Len(Order) \in Nat /\ DOMAIN Order = 1 .. Len(Order)
    /\ \A i \in 1 .. Len(Order) : Order[i] \in Paths
    /\ \A p \in Paths : p \in Seq(Symbols) /\ Len(p) \in Nat /\ 1 <= Len(p)
    /\ \A p \in Paths : \E i \in 1 .. Len(Order) : Order[i] = p
<1>1. Len(Order) \in Nat /\ DOMAIN Order = 1 .. Len(Order)
  BY CheckpointAssumption
<1>2. \A i \in 1 .. Len(Order) : Order[i] \in Paths /\ Order[i] \in Seq(Symbols)
  <2>1. \A q \in Seq(Seq(Symbols)) : \A i \in 1 .. Len(q) : q[i] \in Seq(Symbols)
    OBVIOUS
  <2>2. Order \in Seq(Seq(Symbols))
    BY CheckpointAssumption
  <2> QED BY <1>1, <2>1, <2>2 DEF Paths
<1>3. \A p \in Paths : \E i \in 1 .. Len(Order) : Order[i] = p
  BY <1>1 DEF Paths
<1>4. \A p \in Seq(Symbols) : p # <<>> => Len(p) \in Nat /\ 1 <= Len(p)
  OBVIOUS
<1>5. \A p \in Paths : p \in Seq(Symbols) /\ p # <<>>
  BY <1>2, <1>3, CheckpointAssumption, Zenon
<1> QED BY <1>1, <1>2, <1>3, <1>4, <1>5, Zenon

LEMMA FileFacts ==
    /\ Absent \in FileStates /\ Absent.state = "absent" /\ Absent.bytes = <<>>
    /\ \A b \in Bytes : /\ File(b) \in FileStates /\ File(b).state = "readable"
                        /\ File(b).bytes = b /\ File(b) # Absent
    /\ \A f \in FileStates :
          /\ f.bytes \in Seq(Symbols) /\ Len(f.bytes) \in Nat
          /\ f.state = "readable" => f # Absent /\ f = File(f.bytes)
<1>1. \A f \in FileStates : f.bytes \in Seq(Symbols)
  <2>1. \A b \in Bytes : b \in Seq(Symbols)
    BY CheckpointAssumption
  <2>2. <<>> \in Seq(Symbols)
    OBVIOUS
  <2>3. \A f \in FileStates : f.bytes = <<>> \/ \E b \in Bytes : f.bytes = b
    BY DEF FileStates, Absent, Unreadable, File
  <2> QED BY <2>1, <2>2, <2>3
<1>2. \A f \in FileStates : f.state = "readable" => f # Absent /\ f = File(f.bytes)
  BY DEF FileStates, Absent, Unreadable, File
<1>3. \A b \in Bytes : File(b) \in FileStates /\ File(b).state = "readable"
                       /\ File(b).bytes = b /\ File(b) # Absent
  BY DEF FileStates, Absent, Unreadable, File
<1>4. \A q \in Seq(Symbols) : Len(q) \in Nat
  OBVIOUS
<1> QED BY <1>1, <1>2, <1>3, <1>4 DEF FileStates, Absent

LEMMA SizeType == CheckpointTypeOK => \A i \in 1 .. Len(Order) : Size(i) \in Nat
<1> SUFFICES ASSUME CheckpointTypeOK, NEW i \in 1 .. Len(Order) PROVE Size(i) \in Nat
  OBVIOUS
<1>1. Order[i] \in Paths
  BY PathFacts
<1>2. policy[Order[i]] \in FileStates
  BY <1>1 DEF CheckpointTypeOK
<1>3. Len(Order[i]) \in Nat /\ Len(policy[Order[i]].bytes) \in Nat
  BY <1>1, <1>2, PathFacts, FileFacts
<1>4. \A m, n \in Nat : m + n \in Nat
  OBVIOUS
<1>5. Len(Order[i]) + Len(policy[Order[i]].bytes) \in Nat
  BY <1>3, <1>4, Zenon
<1> QED BY <1>5 DEF Size

LEMMA CheckpointInitInv == CheckpointInit => CheckpointInv
<1> SUFFICES ASSUME CheckpointInit PROVE CheckpointInv
  OBVIOUS
<1>1. CheckpointTypeOK
  <2>1. <<>> \in Seq(Symbols) /\ 0 \in 0 .. Len(Order)
    BY PathFacts
  <2>2. entries \in [built : {"nothing", "body", "other"}, stream : Seq(Symbols),
                     evidence : {"none", "committed", "laid out", "changed", "invalid"},
                     rego : FileStates]
    BY <2>1, FileFacts DEF CheckpointInit, Nothing
  <2> QED BY <2>1, <2>2 DEF CheckpointInit, CheckpointTypeOK
<1>2. walked = 0 /\ entries.stream = <<>> /\ pc = "lstat"
  BY DEF CheckpointInit, Nothing
<1>3. 1 .. walked = {}
  BY <1>2
<1>4. StreamHolds /\ StreamOfRules
  BY <1>2, <1>3 DEF StreamHolds, StreamOfRules, Hashed
<1>5. Progress /\ FailsForCauseOnly
  BY <1>2 DEF Progress, Past, FailsForCauseOnly
<1> QED BY <1>1, <1>4, <1>5 DEF CheckpointInv

\* What a step that hashes nothing leaves of the invariant.
LEMMA StreamKept ==
    ASSUME CheckpointInv, UNCHANGED <<policy, walked>>, entries'.stream = entries.stream
    PROVE  StreamHolds' /\ StreamOfRules'
<1>1. Hashed' = Hashed
  BY DEF Hashed, Selects, Present
<1>2. StreamHolds'
  BY <1>1 DEF CheckpointInv, StreamHolds, Readable, Size
<1>3. StreamOfRules'
  BY DEF CheckpointInv, StreamOfRules, PolicyAsCommitted
<1> QED BY <1>2, <1>3

\* In the committed tree the rules are there, to be read.
LEMMA RulesCommitted ==
    ASSUME CheckpointTypeOK, PolicyAsCommitted
    PROVE  /\ policy[Rego] = File(Rules) /\ Present(Rego) /\ Readable(Rego)
           /\ \A p \in Selected : p # Rego => policy[p] = Absent
<1>1. policy[Rego] = File(Rules)
  BY CheckpointAssumption DEF PolicyAsCommitted
<1>2. Rules \in Bytes
  BY CheckpointAssumption
<1> QED BY <1>1, <1>2, FileFacts DEF PolicyAsCommitted, Present, Readable

LEMMA FrozenStep == CheckpointInv /\ frozenInputPaths => CheckpointInv'
<1> SUFFICES ASSUME CheckpointInv, frozenInputPaths PROVE CheckpointInv'
  OBVIOUS
<1> USE DEF CheckpointInv, frozenInputPaths, Pass, Fail, Tree
<1>1. UNCHANGED <<policy, link, evidence, builder, manifest, walked, entries>> /\ pc = "lstat"
  OBVIOUS
<1>2. CheckpointTypeOK'
  BY <1>1 DEF CheckpointTypeOK, Over
<1>3. StreamHolds' /\ StreamOfRules'
  BY <1>1, StreamKept
<1>4. Progress'
  BY <1>1 DEF Progress, Past, frozenInputs, Files, Present, CheckpointTypeOK
<1>5. FailsForCauseOnly'
  <2> SUFFICES ASSUME pc' = "failed", PolicyAsCommitted, link = {} PROVE FALSE
    BY <1>1 DEF FailsForCauseOnly, PolicyAsCommitted
  <2>1. Present(Rego)
    BY RulesCommitted
  <2> QED BY <2>1
<1> QED BY <1>2, <1>3, <1>4, <1>5

LEMMA BuildStep == CheckpointInv /\ BuildCases => CheckpointInv'
<1> SUFFICES ASSUME CheckpointInv, BuildCases PROVE CheckpointInv'
  OBVIOUS
<1> USE DEF CheckpointInv, BuildCases, Pass, Fail, Tree
<1>1. UNCHANGED <<policy, link, evidence, builder, manifest, walked>> /\ pc = "build"
  OBVIOUS
<1>2. \/ pc' = "failed" /\ UNCHANGED entries /\ evidence = "invalid"
      \/ /\ pc' = "walk" /\ evidence # "invalid"
         /\ entries' = [entries EXCEPT !.built =
                IF evidence = "changed" \/ builder = "drifted" THEN "other" ELSE "body"]
  OBVIOUS
<1>3. CheckpointTypeOK' /\ entries'.stream = entries.stream
  BY <1>1, <1>2 DEF CheckpointTypeOK, Over
<1>4. StreamHolds' /\ StreamOfRules'
  BY <1>1, <1>3, StreamKept
<1>5. Progress'
  BY <1>1, <1>2 DEF Progress, Past, CheckpointTypeOK, Present
<1>6. FailsForCauseOnly'
  BY <1>1, <1>2 DEF FailsForCauseOnly
<1> QED BY <1>3, <1>4, <1>5, <1>6

LEMMA WalkEndsStep == CheckpointInv /\ WalkEnds => CheckpointInv'
<1> SUFFICES ASSUME CheckpointInv, WalkEnds PROVE CheckpointInv'
  OBVIOUS
<1> USE DEF CheckpointInv, WalkEnds, Pass, Tree
<1>1. /\ UNCHANGED <<policy, link, evidence, builder, manifest, walked, entries>>
      /\ pc = "walk" /\ pc' = "read" /\ walked = Len(Order)
  OBVIOUS
<1>2. CheckpointTypeOK'
  BY <1>1 DEF CheckpointTypeOK, Over
<1>3. StreamHolds' /\ StreamOfRules'
  BY <1>1, StreamKept
<1>4. Progress' /\ FailsForCauseOnly'
  BY <1>1 DEF Progress, Past, FailsForCauseOnly, Present
<1> QED BY <1>2, <1>3, <1>4

\* The walk at its next path.
LEMMA NextPath ==
    ASSUME CheckpointInv, Visit
    PROVE  /\ walked \in Nat /\ walked + 1 \in 1 .. Len(Order) /\ Order[walked + 1] \in Paths
           /\ 1 .. walked + 1 = (1 .. walked) \cup {walked + 1}
           /\ policy[Order[walked + 1]] \in FileStates
<1>1. walked \in Nat /\ walked + 1 \in 1 .. Len(Order)
  <2>1. walked \in 0 .. Len(Order) /\ walked < Len(Order)
    BY DEF CheckpointInv, CheckpointTypeOK, Visit
  <2> QED BY <2>1, PathFacts
<1>2. Order[walked + 1] \in Paths
  BY <1>1, PathFacts
<1>3. policy[Order[walked + 1]] \in FileStates
  BY <1>2 DEF CheckpointInv, CheckpointTypeOK
<1>4. 1 .. walked + 1 = (1 .. walked) \cup {walked + 1}
  BY <1>1
<1> QED BY <1>1, <1>2, <1>3, <1>4

LEMMA PassedOver ==
    ASSUME CheckpointInv, Visit, ~ Selects(Order[walked + 1]),
           walked' = walked + 1, UNCHANGED <<pc, entries>>
    PROVE  CheckpointInv'
<1>1. UNCHANGED <<policy, link, evidence, builder, manifest>> /\ pc = "walk"
  BY DEF Visit, Tree
<1>2. CheckpointTypeOK'
  <2>1. walked' \in 0 .. Len(Order)
    BY NextPath, PathFacts
  <2> QED BY <1>1, <2>1 DEF CheckpointInv, CheckpointTypeOK
<1>3. Hashed' = Hashed
  BY <1>1, NextPath DEF Hashed, Selects, Present
<1>4. StreamHolds'
  BY <1>1, <1>3 DEF CheckpointInv, StreamHolds, Readable, Size
<1>5. StreamOfRules'
  <2> SUFFICES ASSUME PolicyAsCommitted
               PROVE  entries.stream = IF \E i \in 1 .. walked + 1 : Order[i] = Rego
                                       THEN Rego \o Rules ELSE <<>>
    BY <1>1 DEF StreamOfRules, PolicyAsCommitted
  <2>1. Order[walked + 1] # Rego
    BY RulesCommitted, CheckpointAssumption DEF CheckpointInv, Selects
  <2>2. (\E i \in 1 .. walked + 1 : Order[i] = Rego) <=> \E i \in 1 .. walked : Order[i] = Rego
    BY <2>1, NextPath
  <2> QED BY <2>2 DEF CheckpointInv, StreamOfRules
<1>6. Progress' /\ FailsForCauseOnly'
  BY <1>1 DEF CheckpointInv, Progress, Past, FailsForCauseOnly, Present
<1> QED BY <1>2, <1>4, <1>5, <1>6 DEF CheckpointInv

\* The stream has room for the next file behind those that it holds already.
LEMMA RoomForTheNext ==
    ASSUME CheckpointTypeOK, StreamHolds, walked + 1 \in 1 .. Len(Order),
           NEW length \in Nat, length = Len(entries.stream) + Size(walked + 1),
           NEW i \in Hashed \cup {walked + 1}, NEW j \in Hashed \cup {walked + 1}
    PROVE  Size(i) <= length /\ (i # j => Size(i) + Size(j) <= length)
<1> DEFINE old == Len(entries.stream)
<1>1. walked \in Nat /\ Hashed \subseteq 1 .. walked /\ Hashed \subseteq 1 .. Len(Order)
  <2>1. walked \in 0 .. Len(Order) /\ Len(Order) \in Nat
    BY PathFacts DEF CheckpointTypeOK
  <2>2. walked \in Nat /\ 1 .. walked \subseteq 1 .. Len(Order)
    BY <2>1
  <2> QED BY <2>2 DEF Hashed
<1>2. Size(i) \in Nat /\ Size(j) \in Nat /\ Size(walked + 1) \in Nat
  BY <1>1, SizeType
<1>3. old \in Nat
  <2>1. entries.stream \in Seq(Symbols)
    BY DEF CheckpointTypeOK
  <2> QED BY <2>1
<1>4. \A k \in Hashed : Size(k) <= old
  BY DEF StreamHolds
<1>5. \A k, m \in Hashed : k # m => Size(k) + Size(m) <= old
  BY DEF StreamHolds
<1> HIDE DEF old
<1>6. CASE i \in Hashed /\ j \in Hashed
  BY <1>2, <1>3, <1>4, <1>5, <1>6 DEF old
<1>7. CASE i \in Hashed /\ j = walked + 1
  BY <1>2, <1>3, <1>4, <1>7 DEF old
<1>8. CASE i = walked + 1
  BY <1>2, <1>3, <1>4, <1>8 DEF old
<1> QED BY <1>6, <1>7, <1>8

LEMMA Hashes ==
    ASSUME CheckpointInv, Visit, Selects(Order[walked + 1]), Readable(Order[walked + 1]),
           NEW after, after = entries.stream \o Order[walked + 1] \o policy[Order[walked + 1]].bytes,
           entries' = [entries EXCEPT !.stream = after],
           walked' = walked + 1, UNCHANGED pc
    PROVE  CheckpointInv'
<1> DEFINE path == Order[walked + 1]
           bytes == policy[path].bytes
           before == entries.stream
<1>1. UNCHANGED <<policy, link, evidence, builder, manifest>> /\ pc = "walk"
  BY DEF Visit, Tree
<1>2. path \in Seq(Symbols) /\ bytes \in Seq(Symbols) /\ before \in Seq(Symbols)
  BY NextPath, PathFacts, FileFacts DEF CheckpointInv, CheckpointTypeOK
<1>3. after \in Seq(Symbols) /\ Len(after) = Len(before) + (Len(path) + Len(bytes))
  <2> HIDE DEF path, bytes, before
  <2>1. after = before \o path \o bytes
    BY DEF path, bytes, before
  <2> QED BY <1>2, <2>1
<1>4. Len(after) \in Nat /\ Len(after) = Len(entries.stream) + Size(walked + 1)
  <2>1. Len(path) \in Nat /\ Len(bytes) \in Nat
    BY <1>2
  <2>2. Size(walked + 1) = Len(path) + Len(bytes)
    BY DEF Size
  <2>3. Len(after) \in Nat
    <3>1. \A q \in Seq(Symbols) : Len(q) \in Nat
      OBVIOUS
    <3> QED BY <1>3, <3>1, Zenon
  <2> QED BY <1>3, <2>2, <2>3
<1>5. entries'.stream = after /\ entries'.built = entries.built
  BY DEF CheckpointInv, CheckpointTypeOK
<1>6. CheckpointTypeOK'
  <2>1. walked' \in 0 .. Len(Order)
    BY NextPath, PathFacts
  <2>2. entries' \in [built : {"nothing", "body", "other"}, stream : Seq(Symbols),
                      evidence : {"none", "committed", "laid out", "changed", "invalid"},
                      rego : FileStates]
    BY <1>3 DEF CheckpointInv, CheckpointTypeOK
  <2> QED BY <1>1, <2>1, <2>2 DEF CheckpointInv, CheckpointTypeOK
<1>7. Hashed' = Hashed \cup {walked + 1}
  BY <1>1, NextPath DEF Hashed, Selects, Present
<1>8. StreamHolds'
  <2>1. \A i \in Hashed' : Readable(Order[i])'
    BY <1>1, <1>7 DEF CheckpointInv, StreamHolds, Readable
  <2>2. \A i, j \in Hashed' : Size(i) <= Len(after) /\ (i # j => Size(i) + Size(j) <= Len(after))
    BY <1>4, <1>7, NextPath, RoomForTheNext DEF CheckpointInv
  <2>3. \A i : Size(i)' = Size(i)
    BY <1>1 DEF Size
  <2> QED BY <1>5, <2>1, <2>2, <2>3 DEF StreamHolds
<1>9. StreamOfRules'
  <2> SUFFICES ASSUME PolicyAsCommitted
               PROVE  after = IF \E i \in 1 .. walked + 1 : Order[i] = Rego
                              THEN Rego \o Rules ELSE <<>>
    BY <1>1, <1>5 DEF StreamOfRules, PolicyAsCommitted
  <2>1. path = Rego
    BY RulesCommitted DEF CheckpointInv, Selects, Present
  <2>2. ~ \E i \in 1 .. walked : Order[i] = Rego
    BY <2>1, NextPath, PathFacts, CheckpointAssumption
  <2>3. before = <<>>
    BY <2>2 DEF CheckpointInv, StreamOfRules
  <2>4. bytes = Rules
    BY <2>1, RulesCommitted, FileFacts, CheckpointAssumption DEF CheckpointInv
  <2>5. after = Rego \o Rules
    BY <1>2, <2>1, <2>3, <2>4
  <2>6. \E i \in 1 .. walked + 1 : Order[i] = Rego
    BY <2>1, NextPath
  <2> QED BY <2>5, <2>6
<1>10. Progress' /\ FailsForCauseOnly'
  BY <1>1, <1>5 DEF CheckpointInv, Progress, Past, FailsForCauseOnly, Present
<1> QED BY <1>6, <1>8, <1>9, <1>10 DEF CheckpointInv

LEMMA VisitStep == CheckpointInv /\ Visit => CheckpointInv'
<1> SUFFICES ASSUME CheckpointInv, Visit PROVE CheckpointInv'
  OBVIOUS
<1> DEFINE path == Order[walked + 1]
<1>1. CASE ~ Selects(path) /\ walked' = walked + 1 /\ UNCHANGED <<pc, entries>>
  BY <1>1, PassedOver
<1>2. CASE /\ Selects(path) /\ Readable(path)
           /\ entries' = [entries EXCEPT !.stream = @ \o path \o policy[path].bytes]
           /\ walked' = walked + 1 /\ UNCHANGED pc
  <2>1. PICK after : after = entries.stream \o path \o policy[path].bytes
    OBVIOUS
  <2>2. entries' = [entries EXCEPT !.stream = after]
    BY <1>2, <2>1
  <2> QED BY <1>2, <2>1, <2>2, Hashes
<1>3. CASE Selects(path) /\ ~ Readable(path) /\ Fail("walk") /\ UNCHANGED walked
  <2>1. /\ UNCHANGED <<policy, link, evidence, builder, manifest, walked, entries>>
        /\ pc = "walk" /\ pc' = "failed"
    BY <1>3 DEF Visit, Tree, Fail, Pass
  <2>2. CheckpointTypeOK'
    BY <2>1 DEF CheckpointInv, CheckpointTypeOK, Over
  <2>3. StreamHolds' /\ StreamOfRules'
    BY <2>1, StreamKept
  <2>4. ~ PolicyAsCommitted
    BY <1>3, RulesCommitted DEF CheckpointInv, Selects, Present
  <2>5. Progress' /\ FailsForCauseOnly'
    BY <2>1, <2>4 DEF Progress, Past, FailsForCauseOnly, PolicyAsCommitted
  <2> QED BY <2>2, <2>3, <2>5 DEF CheckpointInv
<1> QED BY <1>1, <1>2, <1>3 DEF Visit

LEMMA ReadStep == CheckpointInv /\ ReadFrozen => CheckpointInv'
<1> SUFFICES ASSUME CheckpointInv, ReadFrozen PROVE CheckpointInv'
  OBVIOUS
<1>1. UNCHANGED <<policy, link, evidence, builder, manifest, walked>> /\ pc = "read"
  BY DEF ReadFrozen, Pass, Fail, Tree
<1>2. \/ pc' = "failed" /\ UNCHANGED entries /\ ~ Readable(Rego)
      \/ /\ pc' = "compare"
         /\ entries' = [entries EXCEPT !.evidence = evidence, !.rego = policy[Rego]]
  BY DEF ReadFrozen, Pass, Fail, frozenInputs, Files
<1>3. policy[Rego] \in FileStates
  BY CheckpointAssumption DEF CheckpointInv, CheckpointTypeOK
<1>4. CheckpointTypeOK' /\ entries'.stream = entries.stream
  BY <1>1, <1>2, <1>3 DEF CheckpointInv, CheckpointTypeOK, Over
<1>5. StreamHolds' /\ StreamOfRules'
  BY <1>1, <1>4, StreamKept
<1>6. Progress'
  BY <1>1, <1>2 DEF CheckpointInv, Progress, Past, CheckpointTypeOK, Present
<1>7. FailsForCauseOnly'
  BY <1>1, <1>2, RulesCommitted DEF CheckpointInv, FailsForCauseOnly, PolicyAsCommitted
<1> QED BY <1>4, <1>5, <1>6, <1>7 DEF CheckpointInv

\* At the end of the walk of the committed directory the stream is the committed one.
LEMMA CommittedGenerated ==
    ASSUME CheckpointInv, pc = "compare", PolicyAsCommitted,
           evidence = "committed", builder = "same"
    PROVE  entries = Committed
<1>1. entries.built = "body" /\ entries.evidence = "committed" /\ walked = Len(Order)
      /\ entries.rego = File(Rules)
  BY RulesCommitted DEF CheckpointInv, Progress, Past
<1>2. \E i \in 1 .. walked : Order[i] = Rego
  BY <1>1, PathFacts, CheckpointAssumption
<1>3. entries.stream = Rego \o Rules
  BY <1>2 DEF CheckpointInv, StreamOfRules
<1> QED BY <1>1, <1>3 DEF CheckpointInv, CheckpointTypeOK, Committed

LEMMA CompareStep == CheckpointInv /\ Compare => CheckpointInv'
<1> SUFFICES ASSUME CheckpointInv, Compare PROVE CheckpointInv'
  OBVIOUS
<1>1. /\ UNCHANGED <<policy, link, evidence, builder, manifest, walked, entries>>
      /\ pc = "compare"
  BY DEF Compare, Pass, Fail, Tree
<1>2. \/ pc' = "passed" /\ entries = Committed
      \/ pc' = "failed" /\ ~ (manifest = "committed" /\ entries = Committed)
  BY DEF Compare, Pass, Fail
<1>3. CheckpointTypeOK'
  BY <1>1, <1>2 DEF CheckpointInv, CheckpointTypeOK, Over
<1>4. StreamHolds' /\ StreamOfRules'
  BY <1>1, StreamKept
<1>5. Progress'
  BY <1>1, <1>2 DEF CheckpointInv, Progress, Past, Present, Committed
<1>6. FailsForCauseOnly'
  BY <1>1, <1>2, CommittedGenerated DEF FailsForCauseOnly, PolicyAsCommitted
<1> QED BY <1>3, <1>4, <1>5, <1>6 DEF CheckpointInv

(* What buildManifest has made so far follows from the tree, at every step.  *)
THEOREM CheckpointInvariant == CheckpointSpec => []CheckpointInv
<1>1. CheckpointInv /\ [CheckpointNext]_checkpoint_vars => CheckpointInv'
  <2> SUFFICES ASSUME CheckpointInv, [CheckpointNext]_checkpoint_vars PROVE CheckpointInv'
    OBVIOUS
  <2>1. CASE UNCHANGED checkpoint_vars
    <3>1. UNCHANGED <<pc, policy, link, evidence, builder, manifest, walked, entries>>
      BY <2>1 DEF checkpoint_vars
    <3>2. StreamHolds' /\ StreamOfRules'
      BY <3>1, StreamKept
    <3>3. CheckpointTypeOK'
      <4>1. CheckpointTypeOK
        BY DEF CheckpointInv
      <4>2. entries' \in [built : {"nothing", "body", "other"}, stream : Seq(Symbols),
                          evidence : {"none", "committed", "laid out", "changed", "invalid"},
                          rego : FileStates]
        BY <3>1, <4>1, Zenon DEF CheckpointTypeOK
      <4>3. /\ pc' \in {"lstat", "build", "walk", "read", "compare"} \cup Over
            /\ policy' \in [Paths -> FileStates] /\ link' \subseteq Files
            /\ evidence' \in {"committed", "laid out", "changed", "invalid"}
            /\ builder' \in {"same", "drifted"}
            /\ manifest' \in {"committed", "changed", "absent"}
            /\ walked' \in 0 .. Len(Order)
        BY <3>1, <4>1 DEF CheckpointTypeOK
      <4> QED BY <4>2, <4>3 DEF CheckpointTypeOK
    <3>4. Progress'
      BY <3>1 DEF CheckpointInv, Progress, Past, Present
    <3>5. FailsForCauseOnly'
      BY <3>1 DEF CheckpointInv, FailsForCauseOnly, PolicyAsCommitted
    <3> QED BY <3>2, <3>3, <3>4, <3>5 DEF CheckpointInv
  <2> QED BY <2>1, FrozenStep, BuildStep, VisitStep, WalkEndsStep, ReadStep, CompareStep
          DEF CheckpointNext, calculatePolicyDirectoryDigest
<1> QED BY <1>1, CheckpointInitInv, PTL DEF CheckpointSpec

\* Nothing but the rules, as committed, gives their stream once they are there.
LEMMA Undivided ==
    ASSUME CheckpointInv, pc = "passed"
    PROVE  PassPinsTheTree
<1>1. /\ entries = Committed /\ walked = Len(Order) /\ link = {}
      /\ entries.evidence = evidence /\ entries.rego = policy[Rego] /\ evidence # "invalid"
      /\ entries.built = IF evidence = "changed" \/ builder = "drifted" THEN "other" ELSE "body"
  BY DEF CheckpointInv, Progress, Past
<1>2. evidence = "committed" /\ builder = "same" /\ policy[Rego] = File(Rules)
  BY <1>1 DEF Committed, CheckpointInv, CheckpointTypeOK
<1>3. Rules \in Seq(Symbols) /\ Rego \in Seq(Symbols) /\ Rego \in Paths
  BY PathFacts, CheckpointAssumption
<1>4. Len(entries.stream) = Len(Rego) + Len(Rules)
  BY <1>1, <1>3 DEF Committed
<1>5. PICK r \in 1 .. walked : Order[r] = Rego
  BY <1>1, <1>3, PathFacts
<1>6. r \in Hashed /\ policy[Order[r]].bytes = Rules
  <2>1. Selects(Rego) /\ policy[Rego].bytes = Rules
    BY <1>2, FileFacts, CheckpointAssumption DEF Selects, Present
  <2> QED BY <1>5, <2>1 DEF Hashed
<1>7. ASSUME NEW path \in Selected, path # Rego
      PROVE  policy[path] = Absent
  <2> SUFFICES ASSUME Present(path) PROVE FALSE
    BY DEF Present
  <2>1. PICK i \in 1 .. walked : Order[i] = path
    BY <1>1, PathFacts, CheckpointAssumption
  <2>2. i \in Hashed /\ i # r
    BY <1>5, <1>7, <2>1 DEF Hashed, Selects
  <2>3. /\ Size(r) + Size(i) <= Len(entries.stream)
        /\ Size(r) = Len(Rego) + Len(Rules) /\ Size(i) = Len(path) + Len(policy[path].bytes)
    BY <1>5, <1>6, <2>1, <2>2 DEF CheckpointInv, StreamHolds, Size
  <2>4. path \in Paths /\ policy[path] \in FileStates
    BY CheckpointAssumption DEF CheckpointInv, CheckpointTypeOK
  <2>5. Len(path) \in Nat /\ 1 <= Len(path) /\ Len(policy[path].bytes) \in Nat
    BY <2>4, PathFacts, FileFacts
  <2>6. Len(Rego) \in Nat /\ Len(Rules) \in Nat
    BY <1>3
  <2>7. \A a, b, c, d \in Nat : 1 <= c => ~ ((a + b) + (c + d) <= a + b)
    OBVIOUS
  <2>8. (Len(Rego) + Len(Rules)) + (Len(path) + Len(policy[path].bytes))
            <= Len(Rego) + Len(Rules)
    BY <1>4, <2>3, Zenon
  <2> QED BY <2>5, <2>6, <2>7, <2>8, Zenon
<1>8. PolicyAsCommitted
  BY <1>2, <1>7 DEF PolicyAsCommitted
<1> QED BY <1>1, <1>2, <1>8 DEF PassPinsTheTree

(* Where the command is, the tree it reads and what it has generated.        *)
THEOREM CheckpointTypeCorrect == CheckpointSpec => []CheckpointTypeOK
<1> QED BY CheckpointInvariant, PTL DEF CheckpointInv

(* Passing pins the policy, the evidence and BuildCase, whatever files else  *)
(* are in the directory and however their bytes could be divided.            *)
THEOREM PassPins == CheckpointSpec => []PassPinsTheTree
<1>1. CheckpointInv => PassPinsTheTree
  BY Undivided DEF PassPinsTheTree
<1> QED BY <1>1, CheckpointInvariant, PTL

(* The command fails only if something that it is about has changed.         *)
THEOREM FailsForCause == CheckpointSpec => []FailsForCauseOnly
<1> QED BY CheckpointInvariant, PTL DEF CheckpointInv
================================================================================
