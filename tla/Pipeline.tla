------------------------------- MODULE Pipeline -------------------------------
(***************************************************************************)
(* The whole path of one deployment's evidence:                            *)
(*                                                                         *)
(*   adapter runs a case -> evidence file -> BuildCase -> two signatures   *)
(*     -> a bundle of attestations -> offline verification -> VSA.         *)
(*                                                                         *)
(* Adapters run again and overwrite their evidence file, in place, while   *)
(* the signing helper reads; the two statements of a case are signed one   *)
(* after the other, and the process may die between; whoever calls the     *)
(* offline verifier assembles the attestation file from anything signed so *)
(* far: stale, missing, repeated, reordered or mixed from several runs.    *)
(*                                                                         *)
(* Adapters are honest about what they observe but free in how they label  *)
(* it: Specs may contain a case labelled allowed-action whose policy was   *)
(* never loaded.  The claim is that an admission never depends on a label. *)
(***************************************************************************)
EXTENDS Producer, AdmissionGate

CONSTANTS Paths,       \* evidence files, each written by one adapter
          Specs,       \* the cases an adapter may run
          PolicyReads, \* what its two readings of the policy file may give
          MaxRuns,     \* bound: runs of the adapters in all
          MaxBundle    \* bound: statements in one attestation file

ASSUME PipelineAssumption == MaxRuns \in Nat /\ MaxBundle \in Nat

\* A policy file is not the record no-policy.json, which Sha256(<<>>) is of.
ASSUME PolicyAssumption == \A read \in PolicyReads : read.digested # <<>>

VARIABLES adapter,  \* each adapter: [pc, spec, docs, truth]
          file,     \* each evidence file: <<>> or <<[content, truth]>>
          runs,     \* runs started
          helper,   \* the signing helper: <<>> or <<[built, truth, todo]>>
          signed,   \* every signed statement, with the truth it was derived from
          bundle,   \* the attestation file under assembly
          vsa       \* the verification just made: <<>> or <<[result, on]>>

vars == <<adapter, file, runs, helper, signed, bundle, vsa>>

Idle == [pc |-> "idle"]

Init ==
    /\ adapter = [e \in Paths |-> Idle]
    /\ file = [e \in Paths |-> <<>>]
    /\ runs = 0
    /\ helper = <<>>
    /\ signed = {}
    /\ bundle = <<>>
    /\ vsa = <<>>

-------------------------------------------------------------------------------
(* An adapter                                                                *)

\* main takes the digest of the policy file; then run_case begins, and builds
\* the runtime from the policy file as it is by then, or from nothing.
Start(e) ==
    /\ adapter[e].pc = "idle" /\ runs < MaxRuns
    /\ \E spec \in Specs, read \in PolicyReads :
          adapter' = [adapter EXCEPT ![e] =
              [pc |-> "invoke", spec |-> spec,
               shared |-> [policy_digest |-> Sha256(read.digested)],
               docs |-> IF spec.policy_loaded THEN <<read.loaded>> ELSE <<>>]]
    /\ runs' = runs + 1
    /\ UNCHANGED <<file, helper, signed, bundle, vsa>>

\* The tool call, through tool.pre or around it, and the look at the marker.
Invoke(e) ==
    /\ adapter[e].pc = "invoke"
    /\ adapter' = [adapter EXCEPT ![e] =
           [pc |-> "write", spec |-> @.spec, shared |-> @.shared, docs |-> @.docs,
            truth |-> invoke_tool(@.spec, @.docs)]]
    /\ UNCHANGED <<file, runs, helper, signed, bundle, vsa>>

Written(e) ==
    LET a == adapter[e]
    IN  run_case(a.spec, a.shared, a.docs, a.truth)

\* write_text truncates the evidence file and then fills it.
Truncate(e) ==
    /\ adapter[e].pc = "write"
    /\ adapter' = [adapter EXCEPT ![e].pc = "fill"]
    /\ file' = [file EXCEPT ![e] =
           <<[content |-> TornFile(Written(e)), truth |-> adapter[e].truth]>>]
    /\ UNCHANGED <<runs, helper, signed, bundle, vsa>>

Fill(e) ==
    /\ adapter[e].pc = "fill"
    /\ adapter' = [adapter EXCEPT ![e] = Idle]
    /\ file' = [file EXCEPT ![e] =
           <<[content |-> EvidenceFile(Written(e)), truth |-> adapter[e].truth]>>]
    /\ UNCHANGED <<runs, helper, signed, bundle, vsa>>

\* The adapter is killed; its file stays as it is.
AdapterCrash(e) ==
    /\ adapter[e].pc # "idle"
    /\ adapter' = [adapter EXCEPT ![e] = Idle]
    /\ UNCHANGED <<file, runs, helper, signed, bundle, vsa>>

-------------------------------------------------------------------------------
(* The signing helper                                                        *)

\* Mutant: a case is built before the signatures of the previous one are done.
BuildWhileSigning(e) ==
    /\ file[e] # <<>>
    /\ LET built == BuildCase(file[e][1].content)
       IN  /\ IsOk(built)
           /\ helper' = Append(helper, [built |-> Value(built), truth |-> file[e][1].truth,
                                        todo |-> "deployment"])
    /\ UNCHANGED <<adapter, file, runs, signed, bundle, vsa>>

\* BuildCase reads the evidence file once; on an error the caller gives up.
Build(e) ==
    /\ helper = <<>> /\ file[e] # <<>>
    /\ LET built == BuildCase(file[e][1].content)
       IN  /\ IsOk(built)
           /\ helper' = <<[built |-> Value(built), truth |-> file[e][1].truth,
                           todo |-> "deployment"]>>
    /\ UNCHANGED <<adapter, file, runs, signed, bundle, vsa>>

\* signer.SignStatement, for the deployment and then for the test result.
Sign ==
    /\ helper # <<>>
    /\ LET h == helper[1]
           first == h.todo = "deployment"
           s == IF first THEN h.built.deployment ELSE h.built.testResult
       IN  /\ signed' = signed \cup {[statement |-> s, truth |-> h.truth]}
           /\ helper' = IF first THEN <<[h EXCEPT !.todo = "testResult"]>> ELSE <<>>
    /\ UNCHANGED <<adapter, file, runs, bundle, vsa>>

HelperCrash ==
    /\ helper # <<>>
    /\ helper' = <<>>
    /\ UNCHANGED <<adapter, file, runs, signed, bundle, vsa>>

-------------------------------------------------------------------------------
(* The verifier                                                              *)

\* One more line in the attestation file of the next invocation.
Deliver ==
    /\ Len(bundle) < MaxBundle
    /\ \E x \in signed : bundle' = Append(bundle, x.statement)
    /\ vsa' = <<>>
    /\ UNCHANGED <<adapter, file, runs, helper, signed>>

\* autogov offline --fail-on-policy-error: the policy decides the VSA result.
Verify ==
    /\ bundle # <<>>
    /\ vsa' = <<[result |-> IF allow(bundle) THEN "PASSED" ELSE "FAILED", on |-> bundle]>>
    /\ bundle' = <<>>
    /\ UNCHANGED <<adapter, file, runs, helper, signed>>

Next ==
    \/ \E e \in Paths :
          Start(e) \/ Invoke(e) \/ Truncate(e) \/ Fill(e) \/ AdapterCrash(e) \/ Build(e)
    \/ Sign \/ HelperCrash
    \/ Deliver \/ Verify

Spec == Init /\ [][Next]_vars

-------------------------------------------------------------------------------
TypeOK ==
    /\ \A e \in Paths : adapter[e].pc \in {"idle", "invoke", "write", "fill"}
    /\ \A e \in Paths : Len(file[e]) <= 1
    /\ runs \in 0 .. MaxRuns
    /\ Len(helper) <= 1
    /\ Len(bundle) <= MaxBundle
    /\ \A i \in DOMAIN vsa : vsa[i].result \in {"PASSED", "FAILED"}

Passed == vsa # <<>> /\ vsa[1].result = "PASSED"

\* What really happened behind the signed statements of a kind in a bundle.
TruthsOf(b, type) ==
    {x.truth : x \in {y \in signed : y.statement.predicateType = type
                                       /\ y.statement \in ToSet(b)}}

Enforced(truth) ==
    /\ truth.loaded
    /\ truth.verdict \in {<<"allow">>, <<"deny">>}
    /\ truth.marker = (truth.verdict = <<"allow">>)

(***************************************************************************)
(* Admission is about what happened: whenever the gate passes an           *)
(* attestation file, then in every run that yields its deployment          *)
(* statement a policy was loaded, the decision was made at tool.pre, and   *)
(* the controlled tool wrote its marker exactly if the verdict was allow.  *)
(* Bypassed, policy-free and unverified cases are never passed, whatever   *)
(* they are labelled and whatever else is in the file.                     *)
(***************************************************************************)
AdmissionReflectsReality ==
    Passed =>
        /\ TruthsOf(vsa[1].on, DeploymentType) # {}
        /\ \A truth \in TruthsOf(vsa[1].on, DeploymentType) : Enforced(truth)

(***************************************************************************)
(* The two signed statements of an admission tell of the same events: the  *)
(* test result that carried it is one that BuildCase derived, together     *)
(* with that deployment statement, from a file in which the adapter had    *)
(* recorded them, and not from a run of the case that went differently.    *)
(* A run that went the same way gives the same test result: the gate has   *)
(* no notion of freshness, as the repository's replay test records.        *)
(***************************************************************************)
AdmissionPairsOneRun ==
    Passed =>
        \E x, y \in signed :
            /\ {x.statement, y.statement} \subseteq ToSet(vsa[1].on)
            /\ x.statement.predicateType = DeploymentType
            /\ y.statement.predicateType = TestResultType
            /\ x.statement.predicate.cases[1].testResult.statementDigest = Sha256(y.statement)
            /\ x.truth = y.truth

(***************************************************************************)
(* The gate is not merely strict: a correctly labelled, verified case that *)
(* the runtime really enforced is passed when exactly its two statements   *)
(* are presented, in either order.                                         *)
(***************************************************************************)
HonestCaseAdmitted ==
    \A x, y \in signed :
        LET c == x.statement.predicate.cases[1]
        IN  /\ x.statement.predicateType = DeploymentType
            /\ y.statement.predicateType = TestResultType
            /\ Enforced(x.truth)
            /\ c.kind = IF x.truth.marker THEN "allowed-action" ELSE "denied-action"
            /\ c.outcome.state = "verified"
            /\ c.testResult.statementDigest = Sha256(y.statement)
            => allow(<<x.statement, y.statement>>) /\ allow(<<y.statement, x.statement>>)
===============================================================================
