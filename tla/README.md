# A TLA+ model of agent-governance-evidence

This directory specifies the repository's evidence pipeline in TLA+, checks it
with TLC and proves parts of it with TLAPS. Paths below are relative to the
repository; line numbers of every definition are in `PROJECT.json` under "map".

## 1. The system

An agent runtime is exercised by an adapter on one controlled tool; the adapter
writes down what it observed; a helper derives two in-toto statements from that
and signs them; an external verifier checks the signatures and asks a Rego policy
whether the deployment is admitted.

| component | state it keeps | operations | talks to |
|---|---|---|---|
| evidence model (`internal/evidence/deployment.go`) | a document, rewritten in place | Parse, Normalize, Validate, Generate | called by the CLI and the signing helper |
| companion CLI (`cmd/agent-governance-evidence`, `internal/evidence/output.go`) | the output file, temporaries beside it | generate and commit | file system, other invocations |
| signing helper (`internal/demokit/statements.go`, `signer.go`) | one case under construction | BuildCase, SignStatement (twice) | evidence files, signer |
| adapters (`adapters/non-agt`, `adapters/agt`) | policy documents, one evidence file per case, records | load policy, decide at `tool.pre`, run the tool, look at the marker, write evidence | tool, file system |
| admission gate (`policy/agent_governance.rego`) | none | decide on an array of verified statements | called by the verifier |
| demo (`cmd/demo/main.go`) | a working directory | build, compare with the CLI, sign, verify, read the VSA | all of the above |
| offline verifier (`autogov`, external) | none | verify signatures, run the policy, write a VSA | gate |
| verifier installer (`scripts/setup-autogov.sh`) | staging directories, one destination | download, check pin, build, link | module proxy, other installers |
| AGT environment (`adapters/agt/setup.sh`, `verify_pins.sh`, import guard) | wheel cache, venv, receipt | fetch, check digest, install, check at import | package index |
| checkpoint (`cmd/checkpoint`) | a manifest of digests | build, compare | the tree |
| release pipeline (`.github/workflows/`, `scripts/*release*`, `docs/releasing.md`) | a tag, release drafts and assets, a recorded snapshot | guard, package, aggregate, create, retrieve, verify, publish | release service, the administrator |

What makes it hard:

* **Concurrency and failure.** Invocations of the CLI share an output path;
  adapters overwrite an evidence file while it may be read; the two signatures of
  a case are separate steps; installers race to one destination.
* **What earlier runs left.** The environment setup, the demonstration and the
  release pipeline are run again after failures, over caches, directories, receipts
  and drafts that an earlier run may have left half-made.
* **Checked, then used.** The publication gate compares a live release and then
  publishes it in another call; the producer verifies files and then imports them;
  a release is edited by hand between any two calls.
* **Clocks.** A bundle verifies only if five separate readings of the signer's clock
  fit together.
* **Delivery.** Whoever invokes the verifier assembles the attestation file:
  statements may be missing, repeated, reordered, or from different runs.
* **Three readers of one document.** The CLI and the helper share Go code but
  call it in different orders, and the policy restates its rules in Rego.
* **Encodings.** Digests, timestamps, lists and extensions have several equivalent
  encodings, and a digest is taken over one of them.
* **Zero values.** The decoder turns an omitted member into a false, a zero or an
  empty list, each of which is a meaningful observation.
* **Labels.** A case carries the kind its producer gave it.

What correctness means, component by component: the output path is an atomic
register (CLI); equivalent inputs give one body and a body states no more and no
less than its input (evidence model); one evidence file gives one pair of
mutually bound statements that the policy understands (helper); what is admitted
really happened, whatever the label and the delivery (pipeline); admission is
warranted by the statements alone, ambiguity is never resolved, and a denial is
always explained (gate); the verifier's destination is filled once, with a whole
build of the pinned module (installer); what the AGT producer imports is the pinned
engine, and a setup that reports success is enough for that (AGT environment); exit
status 0 was earned by the run's own bundles, and no directory is shared or left
behind (demo); bundles signed in time verify (signer); the committed tree passes
and no other (checkpoint); what is verified is one build of a reviewed commit, and
what is accepted in the end stays (release pipeline).

## 2. The modules

| module | models |
|---|---|
| `AtomicFile` | abstract: the output file as an atomic register |
| `OutputCommit` | `GenerateAgentGovernanceDeployment` and `writeOutput`: concurrent invocations, one action per system call that can fail, and crashes |
| `OutputCommitProofs` | its theorems |
| `Evidence` | Parse, Normalize, Validate, Generate as operators |
| `Statements` | BuildTestResultStatement, BuildDeploymentStatement, BuildCase |
| `AdmissionGate` | the Rego policy, rule by rule, under its own names |
| `Producer` | the toy runtime and `run_case` |
| `EvidenceCanon` | an evidence file rewritten in equivalent encodings, and its three readers |
| `Pipeline` | adapters, helper, signatures, attestation files and verification, composed |
| `PipelineProofs` | its theorems |
| `GateBundle` | the gate against hand-signed, altered statements |
| `ReaderProofs` | the theorems of `EvidenceCanon` and of `GateBundle` |
| `WriteOnce` | abstract: the verifier's destination as a write-once slot |
| `Installer` | `setup-autogov.sh`: concurrent runs, one action per command that can fail, signals and kills |
| `InstallerProofs` | its theorems |
| `AgtSetup` | `adapters/agt/setup.sh` over its cache, environment and receipt, and the producer's import guard |
| `AgtSetupProofs` | its theorems |
| `Demo` | `cmd/demo`: runs, their directories, every step of a case that can fail, the exit status |
| `DemoProofs` | its theorems |
| `Signer` | `signer.go`: certificates and timestamps on a clock that is set meanwhile |
| `SignerProofs` | its theorems |
| `Checkpoint` | `cmd/checkpoint`: the passes over the tree, the walk of the policy directory and the comparison |
| `Release` | the release workflows, their scripts and the publication gate, against a release service |
| `ReleaseProofs` | the theorems of `Release` and of `Checkpoint`, the command that packaging and verifying a release run |
| `MC...` | the instances that TLC checks |

```
Evidence <- Statements <- AdmissionGate <- EvidenceCanon
   ^                          ^
Producer ------------------- Pipeline, GateBundle

AtomicFile <- OutputCommit <- OutputCommitProofs      Pipeline <- PipelineProofs
WriteOnce <- Installer <- InstallerProofs             EvidenceCanon, GateBundle <- ReaderProofs

AgtSetup <- AgtSetupProofs    Demo <- DemoProofs    Signer <- SignerProofs
Release, Checkpoint <- ReleaseProofs
```

**OutputCommit.** A directory maps names to inodes, and an inode is named by the
invocation that created it. `CreateTemp` takes a free name exclusively, writes go
to the open inode chunk by chunk, `Rename` and `RemoveTemp` act on whatever the
temporary *name* refers to. Nothing in the model assumes that the name still
belongs to its creator; `NoStrayTemporary` and the refinement show it. Every
system call has a failing disjunct, with the prefix already written left in the
file, and `Crash` may strike at any point. A failure of `os.Remove` is ignored by
the code and leaves the invocation in `leaked`.

**Evidence.** A document keeps the members some rule relates to another one:
digests with their case, timestamps with zone and fraction, the enforcement lists,
the policy facts and the cases. A member that is only compared with a constant or
matched with a grammar (names, URIs, ids, identity, audit) cannot interact with
anything; the set `illegal` says which such class fails. SHA-256 is collision
free: a digest is what it is a digest of. The size bounds are kept for the input
and for the indented output, which are different numbers. Sorting is stated by what it
yields: `DedupeSort` is the strictly ascending list of the points, `SortCases` the
stable rearrangement of the cases. `DocumentShape` and its parts declare the members, as
the structs of the code do.

**EvidenceCanon.** One file, and a producer who writes it in another encoding, one
member or list at a time: digests in the other case, timestamps in another zone,
intervention points swapped or repeated, the two cases swapped, extensions laid out
otherwise. After each step the CLI, the helper and the gate are asked. `CanonAssumption` says
that the first file has the members of a document, and nothing of what they hold.

**Statements, AdmissionGate.** A statement is its type, subject, root keys and
predicate; its payload bytes are identified with it. The gate reads the bundle as
a sequence because the policy reads arrays, and where the policy counts a
comprehension the model counts the indices that satisfy it. Each reporting rule of the policy is
a tag in `DeploymentViolations` or `CaseViolations`.

**Producer, Pipeline.** What happened in a run is its `truth` (policy loaded,
verdict at `tool.pre`, marker written), carried beside each file and statement as
a history that no action reads. `Start` takes the digest of the policy file and
the policy itself from two readings, as `main` and `run_case` do. `Truncate` and
`Fill` are the two halves of the in-place write. `Build` reads a file once; on an
error the caller gives up and nothing changes. `Deliver` adds any statement signed
so far to the attestation file; `Verify` hands it to the gate.

**GateBundle.** The statements of honest drafts, with one member altered: in the
deployment statement alone, in one test result (bound by its digest into the case
or not), or in the predicate with the test results derived again from it. The
file then grows from those and from unrelated statements. `ShapeAssumption` says that
drafts and unrelated statements have the members of their types. What makes an
admission warranted is stated up to two things the policy leaves free, the `url` of a
test result and further root members of its predicate: the policy reads neither.

**Installer.** A run goes through `Check`, `Prepare`, `Stage`, `Download`, `Build`,
`Link` and `Cleanup`, each of which may fail; a failure before the trap is set ends
the run (`Refuse`), one after it goes to `Cleanup` (`Abort`). `Interrupt` is a
handled signal, which the trap still serves; `Kill` is one after which nothing
runs. A run builds one executable, so the run names the inode that `Link` puts at
the destination; `Download` obtains whatever the caller's proxy serves, and the
comparison that follows it is part of the action. `Occupy` is somebody who
installs a verifier by hand and `MoveAside` the operator whom the documentation
tells to move one away; both may act between any two steps. The directories start
absent, as directories, as symlinks or as files.

**AgtSetup.** A wheel in the cache is a build, whole or cut short; an installed
engine is one too, and when it was cut short it lacks files (`part`), its RECORD
(`bare`) or both (`stub`). `Start` to `Receipt` are the commands of `setup.sh`, each
of which may fail, and `Kill` stops the script anywhere; the next run finds what is
there. That pip cannot replace an installation without RECORD (`Removable`), undoes
what it did when it fails, and leaves an incomplete installation when it is killed
(`Interrupted`) is pip's behaviour and external. `Accepts` is the producer's guard in its
four parts, under the names of the code; `Produce` imports what the name resolves to, so
that a guard that let something else pass would show. `HandInstall`, `ReplaceWheel`,
`DeleteEnvironment` and `ChangePath` are people at work between two runs. The script
runs once at a time.

**Demo.** A path holds a directory with its maker and what is in it: whose trusted
root, whose bundle, which results. `prepareWorkdir` creates a given path exclusively;
`Offline` is the verifier, which writes a result only if the bundle is that of the
root, and which may stop before or after writing it, exit with a code that does not
fit, or not run at all; `Read` takes whatever result the file holds. Evidence may have
`drifted`, so that a case gives the other result than expected. `judged` is a history:
the cases whose own bundle this run's verifier has judged as expected. A run that is
killed leaves its directory; the caller deletes a given directory only after its run.
Bundles and verdicts are `Pipeline`'s and `Signer`'s subject and are one step here.

**Signer.** Time and the clock are two variables: `Tick` lets time pass and `Adjust` sets
the clock, anywhere within `Drift` of the true time, between any two of its five
readings, each of which is an action. Certificates have holder, issuer, purpose and
validity; the chains and the trusted root are put together as in the code, and
`Verifies` is what a verifier does with them. Keys and signatures are taken to be sound.

**Checkpoint.** One run of the command over a tree that starts in any state: the
files of the policy directory absent, unreadable or with any content, links in place of
files, evidence laid out otherwise, changed or broken. The walk of that directory goes
path by path in lexical order (`Visit`): a file without one of the three suffixes is
passed over, one that cannot be read ends the command. The digest is taken over a stream
in which nothing separates paths from contents, as in the code, and paths are spelt
with the symbols that files hold; collisions of that stream are in the model, collisions
of SHA-256 are not.

**Release.** An asset is the run of the workflow that made it, or altered, or missing;
three archives are represented by two. Each call to the service is an action: `Lookup` and
`Create`, `View` and `Download`, `Snapshot`, `CompareLive` and `Publish`,
`DownloadPublished` and the final `VerifyPublished`. Between any two of them
`EditRelease` replaces or removes an asset or deletes a release, `Push` moves the tag,
and `SetImmutable` changes the setting, as long as GitHub allows it (`Fixed`).
`DraftsSeen` says whether a lookup by tag finds drafts; GitHub answers it with
published releases only. A job that fails is run again from its first step.
`Snapshot`, `CompareLive` and `Publish` translate the commands that
`docs/releasing.md` has the maintainer run.

## 3. What is checked

| run | instance | properties |
|---|---|---|
| `output_commit` | two writers, one invocation on standard output, one refused; two temporary names; two chunks | `TypeOK`, `NoStrayTemporary`, `RefusedLeavesNoTrace`, `ExactBytes`, `AtomicOutput`, `EveryInvocationEnds` |
| `evidence_canon` | some 80 files, valid or with one fact off, at and past each bound, in all encodings | `SameFactsSameBody`, `SameFactsSameStatements`, `BodyStatesTheFile`, `CLIRepeatsTheHelper`, `GateReadsTheHelper` |
| `pipeline` | one evidence file, two runs, eight case specifications, two policies, attestation files of up to three statements | `TypeOK`, `AdmissionReflectsReality`, `AdmissionPairsOneRun`, `HonestCaseAdmitted` |
| `gate_bundle` | three drafts, about 150 alterations of each, two unrelated statements, files of up to four statements | `AdmittedIsWarranted`, `DenialsAttributed`, `AmbiguityRevokes` |
| `installer` | two runs, a pinned and another module, all kinds of storage, an outsider at the destination | `TypeOK`, `StorageNotFollowed`, `NoStagingLeft`, `NeverOverwritten`, `EveryRunEnds` |
| `agt_setup` | the pinned wheel, another build of its version, and a newer version, each served, cached or installed by hand | `TypeOK`, `ImportsPinned`, `SetupSuffices`, `CacheHeals` |
| `demo` | two runs, a given path that may be filled already, a case to pass and a case to fail | `TypeOK`, `SuccessIsEarned`, `TemporaryRemoved`, `OwnDirectoryOnly`, `EveryRunEnds` |
| `signer` | margins of 2, 3 and 5 units, drift 1, 7 units of time | `TypeOK`, `BundlesVerify` |
| `checkpoint` | four paths in the policy directory, each absent, unreadable or with one of a few contents, all other inputs | `CheckpointTypeOK`, `PassPinsTheTree`, `FailsForCauseOnly` |
| `release` | a reviewed commit and a stray one, two pushes, two drafts, two edits | `TypeOK`, `VerifiedIsOneReviewedBuild`, `AcceptedStays` |
| `release_rerun` | the same | `CollisionStops`, which is violated |

`release_rerun` shows a disagreement of the code with its documentation.
`docs/releasing.md` says that "a collision or defect requires a new prerelease", and
`create-release-draft.sh` means to stop with "release already exists". It asks for
`releases/tags/$tag`, which finds no drafts, so that a job that is run again after its
upload failed half-way makes a second draft beside the first. The other properties
hold all the same: retrieval may read either draft, verification tells them
apart, and the publication gate stops at two releases.

The bounds, and why they are enough. Two writers are the smallest number that can
disturb one another, and the properties are about pairs; two names let one be
reused, be in use, and run out after a crash; two chunks give a half-written file.
`MaxPoints` is 2 in `evidence_canon` so that three listed points with a repetition
go past the bound before and not after deduplication; the other bounds have the
code's own values, which are hit exactly and exceeded by one. Two adapter runs
give a stale statement of the first beside those of the second. Three statements
hold a pair and a duplicate, a stale one, or a second deployment; four hold the
two-case draft and a duplicate. Two installers and an outsider give every order of
two links and a third party's file; the theorems cover any number. Three builds
give one that is pinned, one that only its digest and one that also its version gives
away. Two runs of the demonstration meet in one path before, during and after each
other's work, and a case of each kind lets a result be lost and be mistaken. The
signer's units keep the order of its margins (`2 * Drift <= Skew <= Hour <= Day`), with
time enough for the signing certificate and the authorities to expire. In
`checkpoint` the committed rules contain the path of another file, so that the stream
can be divided otherwise. Two edits alter an archive and the checksums that cover it; two
runs are what a stale draft, a moved tag or a second draft takes.

Fairness is assumed in `output_commit`, `installer` and `demo`: weak fairness of each
invocation's, or run's, next step. A system call on a local file returns, with a
result or an error, `go mod download` and `go build` return, and no step waits for
another process. No fairness is put on `Crash`, `Kill`, `Interrupt`, `Occupy` or
`MoveAside`. In `demo` the binaries that a run waits for return. `agt_setup` assumes
more, of the operator and the server and not of the code: the script is run again and
again, it is not killed at the same step for ever, and the pinned wheel arrives whole
now and then (strong fairness of `Start`, `Verify` and that outcome of `Fetch`);
`CacheHeals` says that under these the script's own steps are enough to get rid of a bad
cache entry. The other runs check safety alone.

Deadlock checking is off in `output_commit`, `installer`, `pipeline`, `gate_bundle`,
`demo` and `checkpoint`, where everything may end: all invocations have returned or
the bounds are reached. It is on elsewhere.

Each property has a mutant: a definition changed as a plausible bug would change
it (`PROJECT.json`, "mutants"; the operators marked `Mutant` in the modules), under
which TLC finds the property violated.

## 4. What is proved

`OutputCommitProofs` proves the safety half of `output_commit` for every set of
invocations, every set of names and every number of chunks. The assumptions are
those of `OutputAssumption`: the output path is not a temporary name, and inodes
are distinct from `Nil` and from the prior file.

The inductive invariant `Inv` has four parts. `TypeOK`. `OwnNames`: an invocation
between creation and commit holds its own inode under its own name, which no other
live invocation has; together with `NoStrayTemporary` this is what makes a rename
move the right file. `Progress`: the number of chunks written is determined by the
control point, and is all of them by the time of the rename; without it, renaming
an incomplete file could not be excluded. `WholeAtDest`: the output path holds the
prior file, nothing, or the complete file of an invocation that returned success.
From `Inv`: `TypeCorrect`, `TemporariesOwned`, `RefusedInvisible`, `BytesExact`,
and `Refinement`, that every step is a step of `AtomicFile` or leaves its variables
alone.

`PipelineProofs` proves `AdmissionReflectsReality`, `AdmissionPairsOneRun` and
`TypeOK` for every set of evidence files, case specifications and policies, and
for any number of runs and deliveries. What is admitted is a statement; what it
must agree with happened several steps earlier in another process. The invariant
carries the agreement along that path. `Shows(evidence, truth)` says that evidence
claims no enforcement that did not take place, whatever its label. One lemma per
transformation shows that it is kept: `RunShows` for what an adapter writes,
`ZeroFillShows` for what the decoder makes of omitted members, `NormalizeShows`
(with `SortOne`: sorting one case keeps it) and `BindShows` for the two rewritings
of the helper. `Tells` is the same of a test result, which knows the policy only
through the digest of its decision record (`TestResultTells`). `BuildCaseShows`
puts them together, and `AdapterInv`, `FileInv`, `HelperInv`, `SignedInv` and
`VerifierInv` state them of each place where evidence or statements rest.
`AdmittedEnforced` then reads the gate's rules from the other end.

The proof needs `PolicyAssumption`: a policy file is not the record
`no-policy.json`. A test result does not carry the deployment's `loaded` flag; that
its decision was made under a policy is known only from the digest in its
decision record, and a policy file with the digest of the no-policy record would
make the two indistinguishable. In the code one is written by the adapter itself
and the other is a policy with rules. SHA-256 is collision free by its definition
in `Evidence`.

It also proves the converse, `HonestCaseAdmitted`: a file whose deployment and test
result come from one run in which policy, verdict and marker agree is admitted. This is
about availability, and it takes every program on the way to agree with the next, down
to the annotations that the helper writes and the policy reads. The invariant
`MadeInv` records where things come from (`AdapterMade`, `FileMade`, `HelperMade`,
`SignedMade`): each statement is what `BuildCase` makes of what `run_case` wrote. The
lemmas follow one honest case along that path: `HonestFill`, `HonestNormalize`,
`HonestResult`, `HonestBuild`, `HonestDeployment`, and then the policy's questions in its
order, `HonestFacts`, `HonestEnvelope`, `HonestLinkage`, `HonestAdmission`.

`ReaderProofs` proves all five properties of `evidence_canon` and all three of
`gate_bundle`. For `evidence_canon` the invariant is only that the file keeps its members
(`CanonInv`); the work is in the operators, for documents of any length, any bounds and
files that are refused as well as accepted. The steps:

* *A normal form exists.* Sorting is stated by its result, so it must be shown that
  there is one: `Enumeration` (a finite set under a strict order can be listed),
  `DedupeSortPoints` and `SortCasesRearranges`; and that it is unique, `OnlyOneOrder`.
* *It is a fixpoint and loses nothing.* `NormalDocumentKeeps`: what `Normalize` yields
  is a document, normalizes to itself, and has the `Facts` of the document it came from.
* *It does not depend on the encoding.* `SameDocument` says when two documents are
  encodings of one, and `SameDocumentNormal` that they then have one normal form. Every
  rewriting leads to such a document (`Rewriting`), but for the swap of two cases: there
  either the order tells the cases apart (`SortTwo`), or they bear one identifier and
  every document with both is refused (`SwappedGenerate`).
* *All answers are functions of it.* `Generated` and `Built` say what `Generate` and
  `BuildCase` answer in terms of normal forms, through all four derivations of `BuildCase`;
  `SameAnswers` and `SwappedAnswers` are the two properties of the encodings, `Answered` and
  `GeneratedFromBody` what an accepted file comes to.
* *The gate understands it.* `Complete` collects what is known of a pair that the helper
  built; `DeploymentReadable`, `ResultReadable` and `PairReadable` go through the rules of
  the policy with it. That nothing reported means admitted is `AccountsAgree`, below.

Two things came to light on the way. The other case of a digest that is absent is no
digest, and the rewriting of the model had to leave it alone; and the policy refuses
evidence that the Go validation accepts whenever the tool is another than the repository's
own, which `GateReadsTheHelper` now states as an equivalence.

For `gate_bundle` it proves the three properties for any drafts of the given
shape, any unrelated statements, and files of any length. `AdmissionsWarranted`: what is
admitted is one well-formed deployment with, for each of its cases, exactly one test
result of the same agent that is bound by its digest and states the same facts.
`DenialsAreAttributed`: what is not admitted has a violation that the policy
reports. `AmbiguityIsRevoked`: an additional deployment or test result revokes an
admission. The invariant `FilesInv` says that the
file is put together from drafts, alterations and strangers, whose shape every
alteration keeps (`PredicateVariantShape`, `BoundShape`, `ResultVariantShape` and so on): the
policy is a set of rules that read members, and a member that is not there would make a rule
silent. `CasesDistinct` and `FaithfulResult` are the two arguments by counting and by
linkage.

`InstallerProofs` proves the safety half of `installer`: the type invariant,
`StorageNotFollowed`, `NoStagingLeft`, and that any number of runs implement
`WriteOnce` (`NeverOverwritten`). Its invariant has two parts beside those. `RunAt`:
a run that links has fetched the pinned module and built it whole, it has not
reported anything before, and what is at the destination belongs to a run that
will not build again. `Storage`: the directories do not turn into symlinks after
the check, and where they are symlinks or files no run is past `Prepare`.
`InstallerAssumption` says that runs, outsiders' files and nothing are told apart.

`AgtSetupProofs` proves the safety half of `agt_setup` for any builds. `Progress` ties the
script's control point to what it has established so far: past `Verify` the cached
wheel is the pinned one, past `Install` the engine is too, and whole. `Ready`
is what remains of it after the end, until something is changed by hand. That an
import is of the pinned engine does not follow from these, since anything may have
been changed since; it follows from what the guard itself looks at (`AcceptedIsPinned`).
`AgtAssumption`: the pinned build is one of those served and has the locked version.

`DemoProofs` proves the safety half of `demo` for any number of runs and cases. `Own`: a
run at work has the directory at its path, which it made itself, and a temporary one of a
run that is over is gone or was kept; two runs therefore never work in one path
(`StepLocal`, `OthersDirectory`). `Earned`: there is no result yet of a case that the run
has not come to, a result and exit code as expected mean a judged bundle, and as long
as nothing was counted as a failure all earlier cases are judged. `DemoAssumption` keeps the given path, runs and the maker of a
retained directory apart.

`SignerProofs` proves `BundlesVerify` for all margins and any drift of at most half the
five minutes (`SignerAssumption`). `Windows`: each validity keeps its distance from the true
time at which its maker was begun, whatever the clock showed; `Stamped`: a timestamp
falls into every window that is open long enough for it.

`ReleaseProofs` proves the safety half of `release` for any commits and any number of
runs, releases and edits. `Guarded`: a run that is past the guard is of a reviewed
commit. `Contents`: a release or a download consists of pieces that such runs have built, or
of altered or missing ones (`Genuine`); with the attestation of each asset the whole
set is then one run's. `AcceptedFinal`:
what was accepted is a fixed release, so neither it nor the tag can move.
`ReleaseAssumption` says no more than that the constants are what they stand for.

It also proves the three properties of `checkpoint`, for any number of paths and any
contents. The digest alone pins nothing: several directories have one stream. What
divides them is that the frozen rules are compared a second time, by themselves, and the
argument is one of lengths. `StreamHolds`: every hashed file has room in the stream for
its path and its bytes, and any two of them have room together. A checkpoint that passes
has the committed stream, which is as long as the rules and their path, and has the rules
in their file; another file would need one more symbol at least, since no path is empty
(`Undivided`). No induction over the directory is needed, because the walk is a
sequence of steps and the invariant speaks of the part walked so far. `StreamOfRules` is the
converse, that the committed directory gives the committed stream whatever other files
the walk passes over; `FailsForCauseOnly` rests on it. `Progress` says what each pass has
established. `CheckpointAssumption`: the paths are different and not empty, and the
frozen one is among the selected. Edits between the passes stay outside the model.

Of liveness the prover can do the half that needs neither fairness nor `ENABLED`.
`StepsBounded`, in `OutputCommitProofs`, `InstallerProofs` and `DemoProofs`, counts with
`Left` the steps that an invocation, or run, may still take: it is zero exactly at an end
(`Bounded`), every step of its own lowers it, and no step of another process, no signal,
kill or edit raises it (`Nearer`). So an invocation takes at most `Chunks + 6` steps, a run
of the installer eight, a run of the demonstration four for each case and four more,
whatever the others do; there are no retries, and nobody can make a process start over.
What remains for TLC is that a next step is always possible.

Only model-checked: the liveness properties `EveryInvocationEnds`, `EveryRunEnds` (of
the installer and of the demonstration) and `CacheHeals`, because liveness under fairness
is beyond the prover. Every invariant and every action property that a run checks is proved,
but for `CollisionStops`, which is false.

## 5. Not modelled

* Keys, signatures, the encoding of certificates, of timestamp tokens and of DSSE, and
  their verification (`signer.go`, `autogov`): cryptography, taken to be sound. What
  they say, and when they are valid, is `Signer`'s.
* Grammar rules member by member (`validateBoundedText`, `validateAbsoluteURI` and the
  like), and the embedded JSON schema, which repeats them.
* Flags and usage messages of the commands; `-help` ends a command before it does
  anything.
* The wording of errors and violations, and the redaction of values in them.
* Freshness. The policy compares no two runs; the repository's replay test pins
  this as a known gap, and no property here claims otherwise.
* Two runs of `setup.sh` at once, and edits of the tree while the checkpoint reads it:
  neither takes a lock, and the models have one script, and a quiet tree.
* The caller who deletes a working directory while the demonstration works in it.
* `verify_pins.sh` and `lock.sh`, which compare and regenerate committed pins; the tag
  rulesets and the layout of archives in the release pipeline; the evaluator of the
  AGT adapter; tests, fixtures and CI.

## 6. Plan

In this order; all of it is done.

1. Output commit, with refinement and proofs.
2. Evidence model, statements, gate, and their agreement.
3. The composed pipeline.
4. The gate against altered statements.
5. `Installer`, implementing a write-once slot, with proofs.
6. Proofs about the pipeline: `AdmissionReflectsReality`, `AdmissionPairsOneRun`.
7. `AgtSetup`, with liveness and proofs.
8. `Release`, with proofs.
9. `Demo` and `Signer`, with proofs.
10. `Checkpoint`, with proofs.
11. Proofs about the operators: a normalized document is a fixpoint of Normalize;
    equivalent encodings have one normal form; and the five properties of
    `EvidenceCanon` that rest on these.
12. Proofs about the gate: `AdmittedIsWarranted`, `DenialsAttributed` and
    `AmbiguityRevokes` for any bundle; `HonestCaseAdmitted`.
13. Bounds on the steps of every invocation and run (`StepsBounded`).
