--------------------------------- MODULE Release ---------------------------------
(***************************************************************************)
(* The release pipeline: the workflow that a pushed tag starts, up to the  *)
(* draft (release.yml and the scripts it calls), its verification, the     *)
(* publication as docs/releasing.md has the maintainer do it, and the      *)
(* verification of what was published.  Each is a sequence of calls to     *)
(* GitHub, between which jobs are run again, drafts are edited by hand and *)
(* the administrator may move the tag.  The three archives are represented *)
(* by the source archive and one that was built.                           *)
(***************************************************************************)
EXTENDS Naturals, Sequences

CONSTANTS Commits,      \* what the tag may name
          Reviewed,     \* those on main
          DraftsSeen,   \* whether looking a tag up finds drafts (external)
          MaxRuns,      \* bound: pushes of the tag
          MaxReleases,  \* bound: drafts made
          MaxEdits      \* bound: edits of releases by hand

ASSUME ReleaseAssumption ==
    /\ Reviewed \subseteq Commits /\ DraftsSeen \in BOOLEAN
    /\ MaxRuns \in Nat \ {0} /\ MaxReleases \in Nat /\ MaxEdits \in Nat

VARIABLES tag,        \* the commit the tag names
          runs,       \* the workflow's runs: the commit of each, and its stage
          releases,   \* the releases with the tag, as they are on GitHub
          immutable,  \* new releases are immutable
          looked,     \* the assets in the metadata that the retriever has recorded
          bundle,     \* what it, or the published verification, has downloaded
          verified,   \* the bundles that draft verification has accepted
          gate,       \* the maintainer's recorded snapshot, and its stage
          accepted,   \* what the published verification has accepted
          edits       \* how many edits by hand there were

vars == <<tag, runs, releases, immutable, looked, bundle, verified, gate, accepted, edits>>

Names == {"build", "source", "SHA256SUMS", "provenance"}
Ids == DOMAIN releases

\* An asset is the run that made it, or else Altered, or Missing.
Altered == 0
Missing == MaxRuns + 1
Assets(r) == [n \in Names |-> r]
Whole(assets) == \A n \in Names : assets[n] # Missing
None == <<>>
NoGate == [stage |-> "none"]

In(state) == {i \in Ids : releases[i].state = state}
Existing == Ids \ In("deleted")

Init ==
    /\ tag \in Commits /\ runs = <<[commit |-> tag, stage |-> "guard"]>>
    /\ releases = <<>> /\ immutable \in BOOLEAN
    /\ looked = None /\ bundle = None /\ verified = {} /\ gate = NoGate /\ accepted = None
    /\ edits = 0

-------------------------------------------------------------------------------
Stage(r, from, to) ==
    /\ runs[r].stage = from /\ runs' = [runs EXCEPT ![r].stage = to]
    /\ UNCHANGED <<tag, immutable, looked, bundle, verified, gate, accepted, edits>>

\* A job that fails may be run again, from its first step.

\* release-source-guard.sh
Guard(r) ==
    /\ Stage(r, "guard", "package") /\ UNCHANGED releases
    /\ tag = runs[r].commit /\ runs[r].commit \in Reviewed

\* package-release.sh, on both platforms: the tag names what was checked out.
\* aggregate-release-assets.py and the attestation of its output follow.
Package(r) ==
    /\ Stage(r, "package", "lookup") /\ tag = runs[r].commit /\ UNCHANGED releases

\* create-release-draft.sh, the lookup: a confirmed 404 is needed to go on,
\* which GitHub answers unless a release of the tag is published.  One run of
\* the workflow at a time may be in this job.
Lookup(r) ==
    /\ Stage(r, "lookup", "create") /\ UNCHANGED releases
    /\ In("published") = {} /\ (DraftsSeen => In("draft") = {})
    /\ \A q \in DOMAIN runs : runs[q].stage # "create"

\* Mutant: what was not uploaded has no entry.
CreateShort(r) ==
    /\ Len(releases) < MaxReleases /\ Stage(r, "create", "lookup")
    /\ releases' = Append(releases, [state |-> "draft", fixed |-> FALSE,
                                     assets |-> [n \in Names \ {"provenance"} |-> r]])

\* gh release create --draft --verify-tag; it stops half-way, and the job
\* fails, with a draft that lacks some assets, or none.
Create(r) ==
    /\ Len(releases) < MaxReleases
    /\ \/ /\ Stage(r, "create", "done")
          /\ releases' = Append(releases, [state |-> "draft", assets |-> Assets(r), fixed |-> FALSE])
       \/ /\ Stage(r, "create", "lookup")
          /\ releases' = Append(releases, [state |-> "draft", fixed |-> FALSE,
                                           assets |-> [Assets(r) EXCEPT !["provenance"] = Missing]])
       \/ Stage(r, "create", "lookup") /\ UNCHANGED releases

-------------------------------------------------------------------------------
Workflow == <<tag, runs, immutable, edits>>

\* retrieve-release-draft.sh: the metadata of a draft; of one, if there are two.
View ==
    /\ \E i \in In("draft") : Whole(releases[i].assets) /\ looked' = <<releases[i].assets>>
    /\ bundle' = None
    /\ UNCHANGED <<Workflow, releases, verified, gate, accepted>>

\* The download, from the draft as it is by then or from the other one.
Download ==
    /\ looked # None /\ looked' = None
    /\ \E i \in In("draft") :
          bundle' = IF releases[i].assets = looked[1]
                    THEN <<[of |-> "draft", id |-> i, assets |-> releases[i].assets]>> ELSE None
    /\ UNCHANGED <<Workflow, releases, verified, gate, accepted>>

\* require_checksums: sums made with the archives, or by hand to fit them.
Checksums(a) == a["SHA256SUMS"] \in {a["build"], Altered} /\ a["SHA256SUMS"] \in {a["source"], Altered}

\* require_source_binding: the source archive is that of the commit.
SourceBound(a, c) == a["source"] \in DOMAIN runs /\ runs[a["source"]].commit = c

\* Mutant: the provenance is looked at, and not what it is the provenance of.
AttestedLoosely(a, c) == a["provenance"] \in DOMAIN runs /\ runs[a["provenance"]].commit = c

\* gh attestation verify of the other assets: made by a run, of the commit.
Attested(a, c) ==
    /\ a["provenance"] \in DOMAIN runs /\ runs[a["provenance"]].commit = c
    /\ \A n \in Names : a[n] = a["provenance"]

\* verify-release.sh, what its two phases share.
Verifies(a, c) == Whole(a) /\ Checksums(a) /\ SourceBound(a, c) /\ Attested(a, c)

VerifyDraft(c) ==
    /\ bundle # None /\ bundle[1].of = "draft" /\ Verifies(bundle[1].assets, c)
    /\ verified' = verified \cup {[commit |-> c, assets |-> bundle[1].assets]}
    /\ bundle' = None
    /\ UNCHANGED <<Workflow, releases, looked, gate, accepted>>

-------------------------------------------------------------------------------
\* docs/releasing.md: with a draft verified, and exactly one release that has
\* the tag, its state, its assets and the commit of the tag are recorded.
Snapshot ==
    /\ gate.stage = "none" /\ verified # {}
    /\ \E i \in In("draft") :
          /\ Existing = {i} /\ Whole(releases[i].assets)
          /\ gate' = [stage |-> "recorded", id |-> i, assets |-> releases[i].assets,
                      commit |-> tag, immutable |-> immutable]
    /\ UNCHANGED <<Workflow, releases, looked, bundle, verified, accepted>>

\* Read again, and compared: the release, the tag and the setting.
CompareLive ==
    /\ gate.stage = "recorded" /\ immutable /\ gate.immutable /\ Existing = {gate.id}
    /\ releases[gate.id].state = "draft" /\ releases[gate.id].assets = gate.assets
    /\ tag = gate.commit /\ \E v \in verified : v.commit = tag
    /\ gate' = [gate EXCEPT !.stage = "compared"]
    /\ UNCHANGED <<Workflow, releases, looked, bundle, verified, accepted>>

\* gh release edit --draft=false, of the release that the tag finds by now.
Publish ==
    /\ gate.stage = "compared" /\ gate' = [gate EXCEPT !.stage = "published"]
    /\ \E i \in In("draft") :
          releases' = [releases EXCEPT ![i].state = "published", ![i].fixed = immutable]
    /\ UNCHANGED <<Workflow, looked, bundle, verified, accepted>>

\* verify-release.yml in its published phase: the download,
DownloadPublished ==
    /\ bundle' \in {<<[of |-> "published", id |-> i, assets |-> releases[i].assets]>>
                      : i \in In("published")}
    /\ UNCHANGED <<Workflow, releases, looked, verified, gate, accepted>>

\* Mutant: isImmutable is not asked for.
PublishedMutable(i, a, c) == releases[i].state = "published" /\ releases[i].assets = a /\ tag = c

\* and the release and the tag, read after that.
PublishedAs(i, a, c) ==
    releases[i].state = "published" /\ releases[i].fixed /\ releases[i].assets = a /\ tag = c

VerifyPublished(c) ==
    /\ bundle # None /\ bundle[1].of = "published" /\ bundle' = None
    /\ Verifies(bundle[1].assets, c) /\ PublishedAs(bundle[1].id, bundle[1].assets, c)
    /\ accepted' = <<[id |-> bundle[1].id, assets |-> bundle[1].assets, commit |-> c]>>
    /\ UNCHANGED <<Workflow, releases, looked, verified, gate>>

-------------------------------------------------------------------------------
Others == <<looked, bundle, verified, gate, accepted>>
Built == {r \in DOMAIN runs : runs[r].stage \in {"lookup", "create", "done"}}
Fixed == \E i \in Ids : releases[i].fixed

\* The administrator moves the tag, which starts a run; not that of an
\* immutable release (external).
Push(c) ==
    /\ Len(runs) < MaxRuns /\ ~ Fixed
    /\ tag' = c /\ runs' = Append(runs, [commit |-> c, stage |-> "guard"])
    /\ UNCHANGED <<releases, immutable, edits, Others>>

\* An asset of a release that is not immutable is replaced, by another or by
\* one that a run has made, or it is removed, or the release is deleted.
EditRelease ==
    /\ edits < MaxEdits /\ edits' = edits + 1
    /\ \E i \in Existing :
          /\ ~ releases[i].fixed
          /\ \/ \E n \in Names, x \in Built \cup {Altered, Missing} :
                   releases' = [releases EXCEPT ![i].assets[n] = x]
             \/ releases' = [releases EXCEPT ![i].state = "deleted"]
    /\ UNCHANGED <<tag, runs, immutable, Others>>

SetImmutable == immutable' = ~ immutable /\ UNCHANGED <<tag, runs, releases, edits, Others>>

Next ==
    \/ \E r \in DOMAIN runs : Guard(r) \/ Package(r) \/ Lookup(r) \/ Create(r)
    \/ View \/ Download \/ (\E c \in Commits : VerifyDraft(c))
    \/ Snapshot \/ CompareLive \/ Publish
    \/ DownloadPublished \/ (\E c \in Commits : VerifyPublished(c))
    \/ (\E c \in Commits : Push(c)) \/ EditRelease \/ SetImmutable

Spec == Init /\ [][Next]_vars

-------------------------------------------------------------------------------
RunSet == [commit : Commits, stage : {"guard", "package", "lookup", "create", "done"}]
AssetSets == [Names -> 0..Missing]
ReleaseSet == [state : {"draft", "published", "deleted"}, assets : AssetSets, fixed : BOOLEAN]

TypeOK ==
    /\ tag \in Commits /\ immutable \in BOOLEAN /\ edits \in 0..MaxEdits
    /\ Len(runs) <= MaxRuns
    /\ runs \in Seq(RunSet) /\ releases \in Seq(ReleaseSet)
    /\ \A i \in Ids : releases[i].fixed => releases[i].state = "published"
    /\ bundle # None => bundle[1].id \in Ids /\ bundle[1].assets \in AssetSets
    /\ gate.stage \in {"none", "recorded", "compared", "published"}

OneBuild(assets, c) == \E r \in DOMAIN runs : assets = Assets(r) /\ runs[r].commit = c

(***************************************************************************)
(* What draft verification accepts is the whole output of one run, for the *)
(* commit it was given, and that commit is on main: however often drafts   *)
(* were made, cut short, duplicated or edited while they were read.        *)
(***************************************************************************)
VerifiedIsOneReviewedBuild ==
    \A v \in verified : OneBuild(v.assets, v.commit) /\ v.commit \in Reviewed

(***************************************************************************)
(* The last word, that of the published verification, is about what stays: *)
(* the release still has exactly those assets, the one build of a reviewed *)
(* commit, and the tag still names it.                                     *)
(***************************************************************************)
AcceptedStays ==
    accepted # None =>
        LET a == accepted[1]
        IN  /\ OneBuild(a.assets, a.commit) /\ a.commit \in Reviewed /\ tag = a.commit
            /\ releases[a.id].state = "published" /\ releases[a.id].assets = a.assets

(***************************************************************************)
(* "No draft, source asset, or tag is overwritten: a collision or defect   *)
(* requires a new prerelease": of a tag there is one release, and a run    *)
(* that finds one there already makes no other.                            *)
(***************************************************************************)
CollisionStops == \A i, j \in Existing : i = j
===============================================================================
