---------------------------- MODULE PipelineProofs ----------------------------
(***************************************************************************)
(* Proofs about Pipeline for any evidence files, any case specifications,  *)
(* any policies and any number of runs and deliveries.                     *)
(*                                                                         *)
(* What is admitted is a statement, and what it must agree with happened   *)
(* several steps earlier in another process.  The invariant carries the    *)
(* agreement along the path: from the run to the file, through the torn    *)
(* file, decoding, normalization and the binding of the digest to the two  *)
(* statements, into the set of signed ones and out of it into a bundle.    *)
(***************************************************************************)
EXTENDS Pipeline, FiniteSetTheorems, TLAPS

\* The one truth in which a verdict was reached and heeded under a policy.
EnforcedTruth(v) == [loaded |-> TRUE, verdict |-> <<v>>, marker |-> v = "allow"]

\* A decision record that names a policy file, and not the absence of one.
NamesPolicy(g) ==
    \E id, verdict, doc :
        /\ doc # <<>>
        /\ NormalizeDigest(g) = Sha256([caseId |-> id, verdict |-> verdict,
                                       policyArtifactDigest |-> Sha256(doc)])

Decisive(o) == o.state = "observed" /\ o.verdict \in {"allow", "deny"}

\* What the decision of a case says of the run, whatever its label says.
DecisionShows(o, loaded, truth) ==
    /\ {"state", "verdict", "reference"} \subseteq DOMAIN o
    /\ Decisive(o) =>
          /\ 1 \in DOMAIN o.reference
          /\ loaded => NamesPolicy(o.reference[1])
          /\ NamesPolicy(o.reference[1]) => truth = EnforcedTruth(o.verdict)

\* Evidence of one case that claims no enforcement that did not take place.
Shows(e, truth) ==
    /\ {"runtimePolicy", "cases"} \subseteq DOMAIN e
    /\ "loaded" \in DOMAIN e.runtimePolicy
    /\ DOMAIN e.cases = {1}
    /\ "decision" \in DOMAIN e.cases[1]
    /\ DecisionShows(e.cases[1].decision, e.runtimePolicy.loaded, truth)

\* The same of a test result, which knows the policy by the decision record only.
Tells(t, truth) ==
    LET a == t.predicate.configuration[1].annotations
    IN  /\ a.decisionState = "observed" /\ a.decisionVerdict \in {"allow", "deny"}
        /\ NamesPolicy(a.decisionDigest)
        => truth = EnforcedTruth(a.decisionVerdict)

-------------------------------------------------------------------------------
(* An error apart, a result is what was put into it.                         *)
LEMMA ValueOk == ASSUME NEW x PROVE Value(Ok(x)) = x
  BY DEF Value, Ok

LEMMA SortOne ==
    ASSUME NEW cases, DOMAIN cases = {1}
    PROVE  /\ DOMAIN SortCases(cases) = {1} /\ SortCases(cases)[1] = cases[1]
           /\ Len(SortCases(cases)) = 1
<1> DEFINE precedes(i, j) == \/ CaseBefore(cases[i], cases[j])
                             \/ ~ CaseBefore(cases[j], cases[i]) /\ i < j
           sorted(p) == \A i, j \in DOMAIN cases : i < j => precedes(p[i], p[j])
           order == CHOOSE p \in [DOMAIN cases -> DOMAIN cases] : sorted(p)
<1>1. sorted([k \in DOMAIN cases |-> 1])
  OBVIOUS
<1>2. [k \in DOMAIN cases |-> 1] \in [DOMAIN cases -> DOMAIN cases]
  OBVIOUS
<1> HIDE DEF sorted
<1>3. order \in [DOMAIN cases -> DOMAIN cases]
  BY <1>1, <1>2
<1>4. order[1] = 1
  BY <1>3
<1>5. SortCases(cases) = [k \in DOMAIN cases |-> cases[order[k]]]
  BY DEF SortCases, sorted
<1>6. SortCases(cases) = <<cases[1]>>
  BY <1>4, <1>5
<1> QED BY <1>6

(* Only a decision made under a policy leads to the truth it shows.          *)
LEMMA DecisionTrue ==
    ASSUME NEW spec, NEW shared, NEW docs,
           spec.policy_loaded => docs # <<>>,
           \E doc : doc # <<>> /\ shared.policy_digest = Sha256(doc)
    PROVE  LET truth == invoke_tool(spec, docs)
           IN  DecisionShows(DecisionOf(spec, shared, truth), spec.policy_loaded, truth)
<1> DEFINE truth == invoke_tool(spec, docs)
           o == DecisionOf(spec, shared, truth)
           decided == decide(docs, spec.purpose)
           record == [caseId |-> spec.id, verdict |-> truth.verdict[1],
                      policyArtifactDigest |-> PolicyDigest(spec, shared)]
<1>1. {"state", "verdict", "reference"} \subseteq DOMAIN o
  BY DEF DecisionOf
<1>2. SUFFICES ASSUME Decisive(o)
               PROVE  /\ 1 \in DOMAIN o.reference
                      /\ spec.policy_loaded => NamesPolicy(o.reference[1])
                      /\ NamesPolicy(o.reference[1]) => truth = EnforcedTruth(o.verdict)
  BY <1>1 DEF DecisionShows
<1>3. truth.verdict # <<>> /\ o.verdict = truth.verdict[1]
  BY <1>2 DEF Decisive, DecisionOf
<1>4. o.reference = <<Sha256(record)>>
  BY <1>3 DEF DecisionOf
<1>5. ~ spec.bypass
  BY <1>3 DEF invoke_tool
<1>6. truth = [loaded |-> docs # <<>>, verdict |-> <<decided>>, marker |-> decided = "allow"]
  BY <1>5 DEF invoke_tool
<1>7. o.verdict = decided
  BY <1>3, <1>6
<1>8. NormalizeDigest(o.reference[1]) = Sha256(record)
  BY <1>4 DEF NormalizeDigest, Sha256
<1>9. ASSUME spec.policy_loaded PROVE NamesPolicy(o.reference[1])
  <2>1. PICK doc : doc # <<>> /\ PolicyDigest(spec, shared) = Sha256(doc)
    BY <1>9 DEF PolicyDigest
  <2>2. record = [caseId |-> spec.id, verdict |-> truth.verdict[1],
                  policyArtifactDigest |-> Sha256(doc)]
    BY <2>1
  <2> QED BY <1>8, <2>1, <2>2 DEF NamesPolicy
<1>10. ASSUME NamesPolicy(o.reference[1]) PROVE truth = EnforcedTruth(o.verdict)
  <2>1. PICK id, v, doc :
            /\ doc # <<>>
            /\ Sha256(record) = Sha256([caseId |-> id, verdict |-> v,
                                        policyArtifactDigest |-> Sha256(doc)])
    BY <1>8, <1>10 DEF NamesPolicy
  <2>2. PolicyDigest(spec, shared) = Sha256(doc)
    BY <2>1 DEF Sha256
  <2>3. spec.policy_loaded
    BY <2>1, <2>2 DEF PolicyDigest, Sha256
  <2>4. (docs # <<>>) = TRUE
    BY <2>3
  <2> QED BY <1>6, <1>7, <2>4 DEF EnforcedTruth
<1> QED BY <1>4, <1>9, <1>10

(* The evidence of a run shows what happened in that run.                    *)
LEMMA RunShows ==
    ASSUME NEW spec, NEW shared, NEW docs,
           spec.policy_loaded => docs # <<>>,
           \E doc : doc # <<>> /\ shared.policy_digest = Sha256(doc)
    PROVE  LET truth == invoke_tool(spec, docs)
           IN  Shows(run_case(spec, shared, docs, truth), truth)
<1> DEFINE truth == invoke_tool(spec, docs)
           e == run_case(spec, shared, docs, truth)
<1>1. /\ {"runtimePolicy", "cases"} \subseteq DOMAIN e
      /\ "loaded" \in DOMAIN e.runtimePolicy
      /\ e.runtimePolicy.loaded = spec.policy_loaded
      /\ e.cases = <<CaseOf(spec, shared, truth)>>
  BY DEF run_case
<1>2. /\ "decision" \in DOMAIN CaseOf(spec, shared, truth)
      /\ CaseOf(spec, shared, truth).decision = DecisionOf(spec, shared, truth)
  BY DEF CaseOf
<1> QED BY <1>1, <1>2, DecisionTrue DEF Shows

(* What the decoder fills in for omitted members claims no enforcement.      *)
LEMMA ZeroFillShows ==
    ASSUME NEW e, NEW absent, NEW truth, Shows(e, truth)
    PROVE  Shows(ZeroFill(e, absent), truth)
<1> DEFINE z == ZeroFill(e, absent)
<1>1. {"runtimePolicy", "cases"} \subseteq DOMAIN z
  BY DEF Shows, ZeroFill
<1>2. /\ "loaded" \in DOMAIN z.runtimePolicy
      /\ z.runtimePolicy.loaded => e.runtimePolicy.loaded
  BY DEF Shows, ZeroFill
<1>3. DOMAIN z.cases = {1}
  BY DEF Shows, ZeroFill
<1>4. "decision" \in DOMAIN z.cases[1] /\ z.cases[1].decision = e.cases[1].decision
  BY DEF Shows, ZeroFill
<1> QED BY <1>1, <1>2, <1>3, <1>4 DEF Shows, DecisionShows

(* Binding the digest of a test result leaves the facts of the case alone.   *)
LEMMA BindShows ==
    ASSUME NEW e, NEW digest, NEW truth, Shows(e, truth)
    PROVE  Shows(BindDigest(e, digest), truth)
<1> DEFINE z == BindDigest(e, digest)
<1>1. {"runtimePolicy", "cases"} \subseteq DOMAIN z /\ z.runtimePolicy = e.runtimePolicy
  BY DEF Shows, BindDigest
<1>2. DOMAIN z.cases = {1}
  BY DEF Shows, BindDigest
<1>3. "decision" \in DOMAIN z.cases[1] /\ z.cases[1].decision = e.cases[1].decision
  BY DEF Shows, BindDigest
<1> QED BY <1>1, <1>2, <1>3 DEF Shows

(* The references of a decision survive normalization.                       *)
LEMMA NormalizeDecision ==
    ASSUME NEW o, NEW loaded, NEW truth, DecisionShows(o, loaded, truth)
    PROVE  DecisionShows(NormalizeObservation(o), loaded, truth)
<1> DEFINE n == NormalizeObservation(o)
<1>1. {"state", "verdict", "reference"} \subseteq DOMAIN n
  BY DEF DecisionShows, NormalizeObservation
<1>2. n.state = o.state /\ n.verdict = o.verdict
  BY DEF DecisionShows, NormalizeObservation
<1>3. n.reference = [i \in DOMAIN o.reference |-> NormalizeDigest(o.reference[i])]
  BY DEF DecisionShows, NormalizeObservation, Each
<1>4. ASSUME NEW g PROVE NamesPolicy(NormalizeDigest(g)) <=> NamesPolicy(g)
  <2>1. NormalizeDigest(NormalizeDigest(g)) = NormalizeDigest(g)
    BY DEF NormalizeDigest
  <2> QED BY <2>1 DEF NamesPolicy
<1> QED BY <1>1, <1>2, <1>3, <1>4 DEF DecisionShows, Decisive

(* Normalization keeps the one case, its decision and the loaded flag.       *)
LEMMA NormalizeShows ==
    ASSUME NEW e, NEW truth, Shows(e, truth), IsOk(Normalize(e))
    PROVE  Shows(Value(Normalize(e)), truth)
<1> DEFINE z == Value(Normalize(e))
           cases == [i \in DOMAIN e.cases |-> NormalizeCase(e.cases[i])]
<1>1. z = [e EXCEPT
            !.agent.artifactDigest = NormalizeDigest(@),
            !.runtime.digest = NormalizeDigest(@),
            !.adapter.runtimeDigest = NormalizeDigest(@),
            !.runtimePolicy.digest = NormalizeDigest(@),
            !.tool = NormalizeDigest(@),
            !.enforcement.required = DedupeSort(@),
            !.enforcement.observed = DedupeSort(@),
            !.extensions = Each(@, LAMBDA x : [x EXCEPT !.layout = "canonical"]),
            !.cases = SortCases([i \in DOMAIN @ |-> NormalizeCase(@[i])])]
  BY DEF Normalize, IsOk, Err, Ok, Value
<1>2. {"runtimePolicy", "cases"} \subseteq DOMAIN z /\ z.cases = SortCases(cases)
  BY <1>1 DEF Shows
<1>3. "loaded" \in DOMAIN z.runtimePolicy /\ z.runtimePolicy.loaded = e.runtimePolicy.loaded
  BY <1>1 DEF Shows
<1>4. DOMAIN z.cases = {1} /\ z.cases[1] = NormalizeCase(e.cases[1])
  BY <1>2, SortOne DEF Shows
<1>5. /\ "decision" \in DOMAIN z.cases[1]
      /\ z.cases[1].decision = NormalizeObservation(e.cases[1].decision)
  BY <1>4 DEF Shows, NormalizeCase
<1>6. DecisionShows(z.cases[1].decision, z.runtimePolicy.loaded, truth)
  BY <1>3, <1>5, NormalizeDecision DEF Shows
<1> QED BY <1>2, <1>3, <1>4, <1>5, <1>6 DEF Shows

(* A test result derived from evidence tells what the evidence shows.        *)
LEMMA TestResultTells ==
    ASSUME NEW e, NEW truth, Shows(e, truth),
           IsOk(BuildTestResultStatement(e, e.cases[1]))
    PROVE  LET t == Value(BuildTestResultStatement(e, e.cases[1]))
           IN  t.predicateType = TestResultType /\ Tells(t, truth)
<1> DEFINE c == e.cases[1]
           t == Value(BuildTestResultStatement(e, c))
           a == t.predicate.configuration[1].annotations
<1>1. t = TestResultStatement(e, c)
  BY DEF BuildTestResultStatement, IsOk, Ok, Err, Value
<1>2. t.predicateType = TestResultType /\ a = Annotations(e, c)
  BY <1>1 DEF TestResultStatement
<1>3. a.decisionState = c.decision.state /\ a.decisionVerdict = c.decision.verdict
  BY <1>2 DEF Annotations, Linking, BaseAnnotations
<1>4. c.decision.state = "observed" => a.decisionDigest = c.decision.reference[1]
  BY <1>2 DEF Annotations, Linking, Value
<1> QED BY <1>2, <1>3, <1>4 DEF Tells, Shows, DecisionShows, Decisive

(***************************************************************************)
(* Both statements of a built case agree with the run behind the file, and *)
(* the deployment statement commits to its test result.                    *)
(***************************************************************************)
LEMMA BuildCaseShows ==
    ASSUME NEW f, NEW truth, Shows(f.doc, truth), IsOk(BuildCase(f))
    PROVE  LET built == Value(BuildCase(f))
           IN  /\ built.deployment.predicateType = DeploymentType
               /\ Shows(built.deployment.predicate, truth)
               /\ built.testResult.predicateType = TestResultType
               /\ Tells(built.testResult, truth)
<1> DEFINE parsed == Parse(f)
           d == Value(parsed)
           n == Normalize(BindDigest(d, Placeholder))
           e == BindDigest(Value(n), NoDigest)
           tr == BuildTestResultStatement(e, e.cases[1])
           bound == BindDigest(e, Sha256(Value(tr)))
           body == Generate(bound)
           dep == BuildDeploymentStatement(Value(body), Value(body))
<1>1. /\ IsOk(parsed) /\ IsOk(n) /\ IsOk(tr) /\ IsOk(body) /\ IsOk(dep)
      /\ BuildCase(f) = Ok([evidence |-> Value(body), deployment |-> Value(dep),
                            testResult |-> Value(tr)])
  BY DEF BuildCase, IsOk
<1>2. Shows(d, truth)
  <2>1. d = ZeroFill(f.doc, f.absent)
    BY <1>1 DEF Parse, IsOk, Err, Ok, Value
  <2> QED BY <2>1, ZeroFillShows
<1>3. Shows(e, truth)
  BY <1>1, <1>2, BindShows, NormalizeShows
<1>4. Value(tr).predicateType = TestResultType /\ Tells(Value(tr), truth)
  BY <1>1, <1>3, TestResultTells
<1>5. Shows(bound, truth)
  BY <1>3, BindShows
<1>6. body = Normalize(bound)
  BY <1>1 DEF Generate, IsOk
<1>7. Shows(Value(body), truth)
  BY <1>1, <1>5, <1>6, NormalizeShows
<1>8. Value(dep).predicateType = DeploymentType /\ Value(dep).predicate = Value(body)
  BY <1>1 DEF BuildDeploymentStatement, IsOk, Ok, Err, Value
<1> HIDE DEF dep, tr, body
<1>9. Value(BuildCase(f)) = [evidence |-> Value(body), deployment |-> Value(dep),
                             testResult |-> Value(tr)]
  BY <1>1, ValueOk
<1> QED BY <1>4, <1>7, <1>8, <1>9

-------------------------------------------------------------------------------
(* The inductive invariant.                                                  *)

AdapterInv ==
    \A e \in Paths :
        /\ adapter[e].pc = "invoke" =>
              /\ adapter[e].spec.policy_loaded => adapter[e].docs # <<>>
              /\ \E doc : doc # <<>> /\ adapter[e].shared.policy_digest = Sha256(doc)
        /\ adapter[e].pc \in {"write", "fill"} => Shows(Written(e), adapter[e].truth)

\* A torn file is of a document that shows the truth as well.
FileInv ==
    \A e \in Paths : file[e] # <<>> => Shows(file[e][1].content.doc, file[e][1].truth)

HelperInv ==
    helper # <<>> =>
        /\ helper[1].built.deployment.predicateType = DeploymentType
        /\ Shows(helper[1].built.deployment.predicate, helper[1].truth)
        /\ helper[1].built.testResult.predicateType = TestResultType
        /\ Tells(helper[1].built.testResult, helper[1].truth)

SignedInv ==
    \A x \in signed :
        /\ x.statement.predicateType = DeploymentType => Shows(x.statement.predicate, x.truth)
        /\ x.statement.predicateType = TestResultType => Tells(x.statement, x.truth)

SignedStatements == {x.statement : x \in signed}

VerifierInv ==
    /\ bundle \in Seq(SignedStatements)
    /\ Passed => vsa[1].on \in Seq(SignedStatements) /\ allow(vsa[1].on)

Shape ==
    /\ DOMAIN adapter = Paths /\ DOMAIN file = Paths
    /\ \A e \in Paths : "pc" \in DOMAIN adapter[e]
    /\ \A e \in Paths : file[e] = <<>> \/ \E x : file[e] = <<x>>
    /\ helper = <<>> \/ \E h : helper = <<h>>

Inv == Shape /\ AdapterInv /\ FileInv /\ HelperInv /\ SignedInv /\ VerifierInv

(* Nothing has happened and nothing is claimed.                              *)
LEMMA InitInv == Init => Inv
  BY DEF Init, Inv, Shape, AdapterInv, FileInv, HelperInv, SignedInv, VerifierInv,
         SignedStatements, Idle, Passed

(* The adapter puts into its file what it has seen.                          *)
LEMMA AdapterStep ==
    ASSUME Inv, NEW e \in Paths,
           Start(e) \/ Invoke(e) \/ Truncate(e) \/ Fill(e) \/ AdapterCrash(e)
    PROVE  Inv'
<1> USE DEF Inv, Shape
<1>1. HelperInv' /\ SignedInv' /\ VerifierInv'
  BY DEF Start, Invoke, Truncate, Fill, AdapterCrash, HelperInv, SignedInv, VerifierInv,
         Passed, SignedStatements
<1>2. Shape'
  BY DEF Start, Invoke, Truncate, Fill, AdapterCrash, Idle
<1>3. AdapterInv'
  <2>1. CASE Start(e)
    <3>1. PICK spec \in Specs, read \in PolicyReads :
              adapter' = [adapter EXCEPT ![e] =
                  [pc |-> "invoke", spec |-> spec,
                   shared |-> [policy_digest |-> Sha256(read.digested)],
                   docs |-> IF spec.policy_loaded THEN <<read.loaded>> ELSE <<>>]]
      BY <2>1 DEF Start
    <3>2. read.digested # <<>> /\ adapter'[e].shared.policy_digest = Sha256(read.digested)
      BY <3>1, PolicyAssumption
    <3>3. adapter'[e].spec.policy_loaded => adapter'[e].docs # <<>>
      BY <3>1
    <3>4. adapter'[e].pc = "invoke" /\ \A g \in Paths \ {e} : adapter'[g] = adapter[g]
      BY <3>1
    <3> QED BY <3>2, <3>3, <3>4 DEF AdapterInv, Written
  <2>2. CASE Invoke(e)
    <3> DEFINE a == adapter[e]
    <3>1. /\ adapter'[e].pc = "write"
          /\ Written(e)' = run_case(a.spec, a.shared, a.docs, invoke_tool(a.spec, a.docs))
          /\ adapter'[e].truth = invoke_tool(a.spec, a.docs)
      BY <2>2 DEF Invoke, Written
    <3>2. /\ a.spec.policy_loaded => a.docs # <<>>
          /\ \E doc : doc # <<>> /\ a.shared.policy_digest = Sha256(doc)
      BY <2>2 DEF Invoke, AdapterInv
    <3>3. Shows(Written(e)', adapter'[e].truth)
      BY <3>1, <3>2, RunShows
    <3>4. \A g \in Paths \ {e} : adapter'[g] = adapter[g]
      BY <2>2 DEF Invoke
    <3> QED BY <3>1, <3>3, <3>4 DEF AdapterInv, Written
  <2>3. CASE Truncate(e)
    BY <2>3 DEF Truncate, AdapterInv, Written
  <2>4. CASE Fill(e) \/ AdapterCrash(e)
    BY <2>4 DEF Fill, AdapterCrash, Idle, AdapterInv, Written
  <2> QED BY <2>1, <2>2, <2>3, <2>4
<1>4. FileInv'
  <2>1. CASE Truncate(e)
    BY <2>1 DEF Truncate, FileInv, AdapterInv, TornFile, EvidenceFile
  <2>2. CASE Fill(e)
    BY <2>2 DEF Fill, FileInv, AdapterInv, EvidenceFile
  <2>3. CASE Start(e) \/ Invoke(e) \/ AdapterCrash(e)
    BY <2>3 DEF Start, Invoke, AdapterCrash, FileInv
  <2> QED BY <2>1, <2>2, <2>3
<1> QED BY <1>1, <1>2, <1>3, <1>4

(* The helper derives statements from a file and signs no others.            *)
LEMMA HelperStep ==
    ASSUME Inv, (\E e \in Paths : Build(e)) \/ Sign \/ HelperCrash
    PROVE  Inv'
<1> USE DEF Inv, Shape
<1>1. ASSUME NEW e \in Paths, Build(e) PROVE Inv'
  <2>1. Shape' /\ AdapterInv' /\ FileInv' /\ SignedInv' /\ VerifierInv'
    BY <1>1 DEF Build, AdapterInv, Written, FileInv, SignedInv, VerifierInv, Passed,
                SignedStatements
  <2>2. HelperInv'
    BY <1>1, BuildCaseShows DEF Build, FileInv, HelperInv
  <2> QED BY <2>1, <2>2
<1>2. CASE Sign
  <2>1. Shape' /\ AdapterInv' /\ FileInv'
    BY <1>2 DEF Sign, AdapterInv, Written, FileInv
  <2>2. HelperInv'
    BY <1>2 DEF Sign, HelperInv
  <2>3. SignedInv'
    BY <1>2 DEF Sign, SignedInv, HelperInv, DeploymentType, TestResultType
  <2>4. VerifierInv'
    BY <1>2 DEF Sign, VerifierInv, Passed, SignedStatements
  <2> QED BY <2>1, <2>2, <2>3, <2>4
<1>3. CASE HelperCrash
  BY <1>3 DEF HelperCrash, AdapterInv, Written, FileInv, HelperInv, SignedInv, VerifierInv,
              Passed, SignedStatements
<1> QED BY <1>1, <1>2, <1>3

(* Every step keeps the agreement.                                           *)
LEMMA NextInv == Inv /\ [Next]_vars => Inv'
<1> SUFFICES ASSUME Inv, [Next]_vars PROVE Inv'
  OBVIOUS
<1>1. CASE UNCHANGED vars
  BY <1>1 DEF vars, Inv, Shape, AdapterInv, Written, FileInv, HelperInv, SignedInv,
              VerifierInv, Passed, SignedStatements
<1>2. CASE Deliver
  BY <1>2 DEF Deliver, Inv, Shape, AdapterInv, Written, FileInv, HelperInv, SignedInv,
              VerifierInv, Passed, SignedStatements
<1>3. CASE Verify
  BY <1>3 DEF Verify, Inv, Shape, AdapterInv, Written, FileInv, HelperInv, SignedInv,
              VerifierInv, Passed, SignedStatements
<1> QED BY <1>1, <1>2, <1>3, AdapterStep, HelperStep DEF Next

-------------------------------------------------------------------------------
(* What admission implies.                                                   *)

(***************************************************************************)
(* Every signed statement in the place of the one admitted deployment      *)
(* statement comes from a run in which its observed verdict was enforced,  *)
(* and the statement is accompanied by a test result that commits to the   *)
(* same verdict and the same decision record.                              *)
(***************************************************************************)
LEMMA AdmittedEnforced ==
    ASSUME Inv, Passed
    PROVE  \E i \in DOMAIN vsa[1].on :
             LET s == vsa[1].on[i]
                 c == s.predicate.cases[1]
             IN  /\ deployment_statements(vsa[1].on) = {i}
                 /\ s.predicateType = DeploymentType
                 /\ c.decision.verdict \in {"allow", "deny"}
                 /\ \A x \in signed :
                       x.statement = s => x.truth = EnforcedTruth(c.decision.verdict)
                 /\ \E j \in DOMAIN vsa[1].on :
                       LET t == vsa[1].on[j]
                       IN  /\ t.predicateType = TestResultType
                           /\ c.testResult.statementDigest = Sha256(t)
                           /\ \A y \in signed : y.statement = t =>
                                 y.truth = EnforcedTruth(c.decision.verdict)
<1> DEFINE b == vsa[1].on
<1>1. b \in Seq(SignedStatements) /\ PositivelyAdmitted(b)
  BY DEF Inv, VerifierInv, allow
<1> HIDE DEF b
<1>2. PICK i \in deployment_statements(b) :
          deployment_statements(b) = {i} /\ admissible_deployment(b, b[i])
  BY <1>1 DEF PositivelyAdmitted
<1> DEFINE s == b[i]
           c == s.predicate.cases[1]
<1>3. i \in DOMAIN b /\ s \in SignedStatements /\ s.predicateType = DeploymentType
  BY <1>1, <1>2 DEF deployment_statements
<1>4. PICK x \in signed : x.statement = s
  BY <1>3 DEF SignedStatements
<1>5. Shows(s.predicate, x.truth)
  BY <1>3, <1>4 DEF Inv, SignedInv
<1>6. case_admissible(b, s, c)
  BY <1>2, <1>5 DEF admissible_deployment, Shows
<1>7. Decisive(c.decision)
  BY <1>6 DEF case_admissible, Decisive
<1>8. s.predicate.runtimePolicy.loaded
  BY <1>6 DEF case_admissible, deployment_enforcing
<1>9. NamesPolicy(c.decision.reference[1])
  BY <1>5, <1>7, <1>8 DEF Shows, DecisionShows
<1>10. ASSUME NEW y \in signed, y.statement = s
       PROVE  y.truth = EnforcedTruth(c.decision.verdict)
  <2>1. Shows(s.predicate, y.truth)
    BY <1>3, <1>10 DEF Inv, SignedInv
  <2> QED BY <2>1, <1>7, <1>9 DEF Shows, DecisionShows
<1>11. PICK j \in case_test_results(b, c) : tr_statement_valid(s, c, b[j])
  BY <1>6 DEF case_admissible, linkage_valid
<1> DEFINE t == b[j]
           a == t.predicate.configuration[1].annotations
<1>12. j \in DOMAIN b /\ t.predicateType = TestResultType
  BY <1>11 DEF case_test_results, test_result_statements
<1>13. c.testResult.statementDigest = Sha256(t)
  BY <1>11 DEF tr_statement_valid
<1>14. tr_annotations_valid(s, c, t.predicate.configuration[1])
  BY <1>11 DEF tr_statement_valid
<1>15. /\ a.decisionState = "observed" /\ a.decisionVerdict = c.decision.verdict
       /\ c.decision.reference = <<a.decisionDigest>>
  BY <1>7, <1>14 DEF tr_annotations_valid, Decisive
<1>16. NamesPolicy(a.decisionDigest)
  <2>1. c.decision.reference[1] = a.decisionDigest
    BY <1>15
  <2> HIDE DEF a, c
  <2> QED BY <1>9, <2>1
<1>17. ASSUME NEW y \in signed, y.statement = t
       PROVE  y.truth = EnforcedTruth(c.decision.verdict)
  <2>1. Tells(t, y.truth)
    BY <1>12, <1>17 DEF Inv, SignedInv
  <2> QED BY <2>1, <1>7, <1>15, <1>16 DEF Tells, Decisive
<1> HIDE DEF s, c, t
<1> USE DEF b
<1> QED BY <1>2, <1>3, <1>7, <1>10, <1>12, <1>13, <1>17 DEF s, c, t, Decisive

(***************************************************************************)
(* Whatever is in an attestation file, and whatever the adapters call      *)
(* their cases, what the gate passes is a run in which a loaded policy     *)
(* decided at tool.pre and the controlled tool obeyed.                     *)
(***************************************************************************)
THEOREM Reality == Spec => []AdmissionReflectsReality
<1>1. Inv => AdmissionReflectsReality
  <2> SUFFICES ASSUME Inv, Passed
               PROVE  /\ TruthsOf(vsa[1].on, DeploymentType) # {}
                      /\ \A truth \in TruthsOf(vsa[1].on, DeploymentType) : Enforced(truth)
    BY DEF AdmissionReflectsReality
  <2> DEFINE b == vsa[1].on
  <2>1. PICK i \in DOMAIN b :
            /\ deployment_statements(b) = {i} /\ b[i].predicateType = DeploymentType
            /\ \E verdict \in {"allow", "deny"} :
                  \A x \in signed : x.statement = b[i] => x.truth = EnforcedTruth(verdict)
    BY AdmittedEnforced
  <2>2. PICK x \in signed : x.statement = b[i]
    BY DEF Inv, VerifierInv, SignedStatements
  <2>3. x.truth \in TruthsOf(b, DeploymentType)
    BY <2>1, <2>2 DEF TruthsOf, ToSet
  <2>4. ASSUME NEW y \in signed, y.statement.predicateType = DeploymentType,
               y.statement \in ToSet(b)
        PROVE  Enforced(y.truth)
    <3>1. y.statement = b[i]
      BY <2>1, <2>4 DEF ToSet, deployment_statements
    <3>2. PICK verdict \in {"allow", "deny"} : y.truth = EnforcedTruth(verdict)
      BY <2>1, <3>1
    <3>3. Enforced(EnforcedTruth("allow")) /\ Enforced(EnforcedTruth("deny"))
      BY DEF Enforced, EnforcedTruth
    <3> QED BY <3>2, <3>3
  <2> HIDE DEF b
  <2>5. TruthsOf(b, DeploymentType) # {}
        /\ \A truth \in TruthsOf(b, DeploymentType) : Enforced(truth)
    BY <2>3, <2>4 DEF TruthsOf
  <2> QED BY <2>5 DEF b
<1> QED BY <1>1, InitInv, NextInv, PTL DEF Spec

(***************************************************************************)
(* The deployment statement and the test result that carry an admission    *)
(* tell of runs that went the same way: a statement that survived from an  *)
(* earlier run of the case is never paired with the outcome of another.    *)
(***************************************************************************)
THEOREM PairsOneRun == Spec => []AdmissionPairsOneRun
<1>1. Inv => AdmissionPairsOneRun
  <2> SUFFICES ASSUME Inv, Passed
               PROVE  \E x, y \in signed :
                         /\ {x.statement, y.statement} \subseteq ToSet(vsa[1].on)
                         /\ x.statement.predicateType = DeploymentType
                         /\ y.statement.predicateType = TestResultType
                         /\ x.statement.predicate.cases[1].testResult.statementDigest
                               = Sha256(y.statement)
                         /\ x.truth = y.truth
    BY DEF AdmissionPairsOneRun
  <2> DEFINE b == vsa[1].on
  <2>1. PICK i \in DOMAIN b, j \in DOMAIN b, verdict \in {"allow", "deny"} :
            /\ b[i].predicateType = DeploymentType
            /\ b[j].predicateType = TestResultType
            /\ b[i].predicate.cases[1].testResult.statementDigest = Sha256(b[j])
            /\ \A x \in signed : x.statement = b[i] => x.truth = EnforcedTruth(verdict)
            /\ \A y \in signed : y.statement = b[j] => y.truth = EnforcedTruth(verdict)
    BY AdmittedEnforced
  <2>2. PICK x \in signed : x.statement = b[i]
    BY DEF Inv, VerifierInv, SignedStatements
  <2>3. PICK y \in signed : y.statement = b[j]
    BY DEF Inv, VerifierInv, SignedStatements
  <2>4. {x.statement, y.statement} \subseteq ToSet(b)
    BY <2>2, <2>3 DEF ToSet
  <2> QED BY <2>1, <2>2, <2>3, <2>4
<1> QED BY <1>1, InitInv, NextInv, PTL DEF Spec

(* The processes are at known points and the bounds of the model are kept.   *)
THEOREM TypeCorrect == Spec => []TypeOK
<1> USE PipelineAssumption DEF TypeOK
<1>1. Init => TypeOK
  BY DEF Init, Idle
<1>2. ASSUME Inv, TypeOK, [Next]_vars PROVE TypeOK'
  <2> USE <1>2 DEF Inv, Shape
  <2>1. CASE UNCHANGED vars
    BY <2>1 DEF vars
  <2>2. ASSUME NEW e \in Paths,
               Start(e) \/ Invoke(e) \/ Truncate(e) \/ Fill(e) \/ AdapterCrash(e) \/ Build(e)
        PROVE  TypeOK'
    <3>1. CASE Start(e)
      BY <3>1 DEF Start
    <3>2. CASE Invoke(e)
      BY <3>2 DEF Invoke
    <3>3. CASE Truncate(e)
      BY <3>3 DEF Truncate
    <3>4. CASE Fill(e)
      BY <3>4 DEF Fill, Idle
    <3>5. CASE AdapterCrash(e)
      BY <3>5 DEF AdapterCrash, Idle
    <3>6. CASE Build(e)
      BY <3>6 DEF Build
    <3> QED BY <2>2, <3>1, <3>2, <3>3, <3>4, <3>5, <3>6
  <2>3. CASE Sign \/ HelperCrash
    BY <2>3 DEF Sign, HelperCrash
  <2>4. CASE Deliver
    BY <2>4 DEF Deliver, VerifierInv, SignedStatements
  <2>5. CASE Verify
    BY <2>5 DEF Verify
  <2> QED BY <1>2, <2>1, <2>2, <2>3, <2>4, <2>5 DEF Next
<1> QED BY <1>1, <1>2, InitInv, NextInv, PTL DEF Spec

-------------------------------------------------------------------------------
(* What honesty earns: from the run of a case to the admission of its two    *)
(* statements.                                                               *)

(* The one point that the adapters require is a list in order already.       *)
LEMMA OnePoint == DedupeSort(<<ToolPre>>) = <<ToolPre>>
<1> DEFINE S == ToSet(<<ToolPre>>)
           lists == [1 .. Cardinality(S) -> S]
<1>1. S = {ToolPre}
  BY DEF ToSet
<1>2. Cardinality(S) = 1
  BY <1>1, FS_Singleton
<1>3. lists = [{1} -> {ToolPre}]
  BY <1>1, <1>2
<1>4. \A q : q \in lists <=> q = <<ToolPre>>
  <2>1. \A q \in [{1} -> {ToolPre}] : q = [i \in {1} |-> ToolPre]
    OBVIOUS
  <2>2. [i \in {1} |-> ToolPre] = <<ToolPre>>
    OBVIOUS
  <2> QED BY <1>3, <2>1, <2>2
<1>5. Ascending(<<ToolPre>>)
  BY DEF Ascending
<1>6. DedupeSort(<<ToolPre>>) = CHOOSE q \in lists : Ascending(q)
  BY DEF DedupeSort
<1> HIDE DEF lists
<1> QED BY <1>4, <1>5, <1>6

\* The case of a run x: [id, kind, verdict, decided, outcome, result, seen].
HonestCase(c, x) ==
    /\ {"id", "kind", "correlationId", "decision", "outcome", "testResult"} \subseteq DOMAIN c
    /\ "statementDigest" \in DOMAIN c.testResult
    /\ c.id = x.id /\ c.kind = x.kind /\ c.correlationId = Sha256(x.id)
    /\ {"state", "verdict", "reference"} \subseteq DOMAIN c.decision
    /\ c.decision.state = "observed" /\ c.decision.verdict = x.verdict
    /\ c.decision.reference = <<Sha256(x.decided)>>
    /\ {"state", "result", "reference"} \subseteq DOMAIN c.outcome
    /\ c.outcome.state = x.outcome /\ c.outcome.result = x.result
    /\ x.outcome = "verified" => c.outcome.reference = <<Sha256(x.seen)>>

\* Evidence of that one case, from an adapter that enforced.
HonestEvidence(e, x) ==
    /\ {"agent", "tool", "runtimePolicy", "enforcement", "cases"} \subseteq DOMAIN e
    /\ e.agent = [name |-> "agent-image", artifactDigest |-> Sha256("agent-image.txt")]
    /\ e.tool = Sha256("write_marker.py")
    /\ "loaded" \in DOMAIN e.runtimePolicy /\ e.runtimePolicy.loaded
    /\ {"mode", "required", "observed"} \subseteq DOMAIN e.enforcement
    /\ e.enforcement.mode = "enforce"
    /\ e.enforcement.required = <<ToolPre>> /\ e.enforcement.observed = <<ToolPre>>
    /\ DOMAIN e.cases = {1}
    /\ HonestCase(e.cases[1], x)

RecordOf(spec, shared, truth) ==
    [id |-> spec.id, kind |-> spec.kind, verdict |-> truth.verdict[1],
     decided |-> [caseId |-> spec.id, verdict |-> truth.verdict[1],
                  policyArtifactDigest |-> PolicyDigest(spec, shared)],
     outcome |-> IF spec.outcome_verified THEN "verified" ELSE "unknown",
     result |-> IF ~ spec.outcome_verified THEN "unknown"
                ELSE IF truth.marker THEN "occurred" ELSE "blocked",
     seen |-> [caseId |-> spec.id, markerPresent |-> truth.marker]]

(* A run that enforced records just that.                                    *)
LEMMA HonestRun ==
    ASSUME NEW spec, NEW shared, NEW docs, NEW truth, truth = invoke_tool(spec, docs),
           Enforced(truth), docs # <<>> => spec.policy_loaded
    PROVE  HonestEvidence(run_case(spec, shared, docs, truth), RecordOf(spec, shared, truth))
<1> DEFINE e == run_case(spec, shared, docs, truth)
           x == RecordOf(spec, shared, truth)
           c == CaseOf(spec, shared, truth)
<1>1. ~ spec.bypass /\ truth.loaded = (docs # <<>>) /\ spec.policy_loaded
  BY DEF Enforced, invoke_tool
<1>2. truth.verdict # <<>> /\ truth.marker = (truth.verdict[1] = "allow")
  BY DEF Enforced
<1>3. c.decision = [state |-> "observed", verdict |-> x.verdict,
                    reference |-> <<Sha256(x.decided)>>, observedAt |-> <<At(spec.start)>>]
  BY <1>2 DEF CaseOf, DecisionOf, RecordOf
<1>4. c.outcome = [state |-> x.outcome, result |-> x.result,
                   reference |-> IF spec.outcome_verified THEN <<Sha256(x.seen)>> ELSE <<>>,
                   observedAt |-> IF spec.outcome_verified THEN <<At(spec.start + 1)>> ELSE <<>>]
  BY DEF CaseOf, OutcomeOf, RecordOf
<1>5. /\ {"id", "kind", "correlationId", "decision", "outcome", "testResult"} \subseteq DOMAIN c
      /\ "statementDigest" \in DOMAIN c.testResult
      /\ c.id = x.id /\ c.kind = x.kind /\ c.correlationId = Sha256(x.id)
      /\ x.verdict = truth.verdict[1]
  BY DEF CaseOf, RecordOf
<1>6. HonestCase(c, x)
  <2> HIDE DEF c, x
  <2>1. /\ {"state", "verdict", "reference"} \subseteq DOMAIN c.decision
        /\ c.decision.state = "observed" /\ c.decision.verdict = x.verdict
        /\ c.decision.reference = <<Sha256(x.decided)>>
    BY <1>3
  <2>2. /\ {"state", "result", "reference"} \subseteq DOMAIN c.outcome
        /\ c.outcome.state = x.outcome /\ c.outcome.result = x.result
    BY <1>4
  <2>3. x.outcome = "verified" => c.outcome.reference = <<Sha256(x.seen)>>
    <3>1. x.outcome = "verified" => spec.outcome_verified
      BY DEF x, RecordOf
    <3> QED BY <1>4, <3>1
  <2> QED BY <1>5, <2>1, <2>2, <2>3 DEF HonestCase
<1>7. /\ {"agent", "tool", "runtimePolicy", "enforcement", "cases"} \subseteq DOMAIN e
      /\ e.agent = [name |-> "agent-image", artifactDigest |-> Sha256("agent-image.txt")]
      /\ e.tool = Sha256("write_marker.py")
      /\ "loaded" \in DOMAIN e.runtimePolicy /\ e.runtimePolicy.loaded
      /\ {"mode", "required", "observed"} \subseteq DOMAIN e.enforcement
      /\ e.enforcement.mode = "enforce"
      /\ e.enforcement.required = <<ToolPre>> /\ e.enforcement.observed = <<ToolPre>>
      /\ e.cases = <<c>>
  BY <1>1 DEF run_case
<1> HIDE DEF e, c, x
<1>8. HonestEvidence(e, x)
  BY <1>6, <1>7 DEF HonestEvidence
<1> QED BY <1>8 DEF e, x

(* It survives the decoding of a file that omits the digest yet to be bound. *)
LEMMA HonestFill ==
    ASSUME NEW e, NEW x, HonestEvidence(e, x)
    PROVE  HonestEvidence(ZeroFill(e, {"statementDigest"}), x)
<1> DEFINE z == ZeroFill(e, {"statementDigest"})
<1>1. /\ DOMAIN z = DOMAIN e /\ z.agent = e.agent /\ z.tool = e.tool
      /\ DOMAIN z.runtimePolicy = DOMAIN e.runtimePolicy
      /\ z.runtimePolicy.loaded = e.runtimePolicy.loaded
  BY DEF HonestEvidence, ZeroFill
<1>2. /\ DOMAIN z.enforcement = DOMAIN e.enforcement /\ z.enforcement.mode = e.enforcement.mode
      /\ z.enforcement.required = e.enforcement.required
      /\ z.enforcement.observed = e.enforcement.observed
  BY DEF HonestEvidence, ZeroFill
<1>3. /\ DOMAIN z.cases = {1}
      /\ z.cases[1] = [e.cases[1] EXCEPT !.testResult.statementDigest = NoDigest]
  BY DEF HonestEvidence, ZeroFill
<1>4. HonestCase(z.cases[1], x)
  BY <1>3 DEF HonestEvidence, HonestCase
<1> QED BY <1>1, <1>2, <1>3, <1>4 DEF HonestEvidence

(* It survives the binding of a digest.                                      *)
LEMMA HonestBind ==
    ASSUME NEW e, NEW digest, NEW x, HonestEvidence(e, x)
    PROVE  HonestEvidence(BindDigest(e, digest), x)
<1> DEFINE z == BindDigest(e, digest)
<1>1. /\ DOMAIN z = DOMAIN e /\ z.agent = e.agent /\ z.tool = e.tool
      /\ z.runtimePolicy = e.runtimePolicy /\ z.enforcement = e.enforcement
  BY DEF HonestEvidence, BindDigest
<1>2. /\ DOMAIN z.cases = {1}
      /\ z.cases[1] = [e.cases[1] EXCEPT !.testResult.statementDigest = digest]
  BY DEF HonestEvidence, BindDigest
<1>3. HonestCase(z.cases[1], x)
  BY <1>2 DEF HonestEvidence, HonestCase
<1> QED BY <1>1, <1>2, <1>3 DEF HonestEvidence

(* Digests that are in their normal form stay as they are.                   *)
LEMMA CanonicalKept ==
    ASSUME NEW y
    PROVE  /\ NormalizeDigest(Sha256(y)) = Sha256(y)
           /\ Each(<<Sha256(y)>>, NormalizeDigest) = <<Sha256(y)>>
<1>1. NormalizeDigest(Sha256(y)) = Sha256(y)
  BY DEF NormalizeDigest, Sha256
<1> HIDE DEF Sha256
<1>2. Each(<<Sha256(y)>>, NormalizeDigest) = [i \in {1} |-> NormalizeDigest(<<Sha256(y)>>[i])]
  BY DEF Each
<1>3. [i \in {1} |-> NormalizeDigest(<<Sha256(y)>>[i])] = <<Sha256(y)>>
  BY <1>1
<1> QED BY <1>1, <1>2, <1>3

(* The case survives normalization.                                          *)
LEMMA HonestNormalCase ==
    ASSUME NEW c, NEW x, HonestCase(c, x)
    PROVE  HonestCase(NormalizeCase(c), x)
<1> DEFINE z == NormalizeCase(c)
<1>1. /\ DOMAIN z = DOMAIN c /\ z.id = c.id /\ z.kind = c.kind
      /\ z.correlationId = NormalizeDigest(c.correlationId)
      /\ z.decision = NormalizeObservation(c.decision)
      /\ z.outcome = NormalizeObservation(c.outcome)
  BY DEF HonestCase, NormalizeCase
<1>2. LET n == NormalizeObservation(c.decision)
      IN  /\ DOMAIN n = DOMAIN c.decision
          /\ n.state = c.decision.state /\ n.verdict = c.decision.verdict
          /\ n.reference = Each(c.decision.reference, NormalizeDigest)
  BY DEF NormalizeObservation, HonestCase
<1>3. LET n == NormalizeObservation(c.outcome)
      IN  /\ DOMAIN n = DOMAIN c.outcome
          /\ n.state = c.outcome.state /\ n.result = c.outcome.result
          /\ n.reference = Each(c.outcome.reference, NormalizeDigest)
  BY DEF NormalizeObservation, HonestCase
<1>4. /\ c.decision.reference = <<Sha256(x.decided)>>
      /\ x.outcome = "verified" => c.outcome.reference = <<Sha256(x.seen)>>
      /\ c.correlationId = Sha256(x.id)
  BY DEF HonestCase
<1> HIDE DEF z
<1>5. z.correlationId = Sha256(x.id)
  BY <1>1, <1>4, CanonicalKept
<1>6. z.decision.reference = <<Sha256(x.decided)>>
  BY <1>1, <1>2, <1>4, CanonicalKept
<1>7. x.outcome = "verified" => z.outcome.reference = <<Sha256(x.seen)>>
  BY <1>1, <1>3, <1>4, CanonicalKept
<1>8. /\ {"state", "verdict", "reference"} \subseteq DOMAIN z.decision
      /\ z.decision.state = "observed" /\ z.decision.verdict = x.verdict
  BY <1>1, <1>2 DEF HonestCase
<1>9. /\ {"state", "result", "reference"} \subseteq DOMAIN z.outcome
      /\ z.outcome.state = x.outcome /\ z.outcome.result = x.result
  BY <1>1, <1>3 DEF HonestCase
<1>10. /\ {"id", "kind", "correlationId", "decision", "outcome", "testResult"} \subseteq DOMAIN z
       /\ z.id = x.id /\ z.kind = x.kind
  BY <1>1 DEF HonestCase
<1>11. "statementDigest" \in DOMAIN z.testResult
  BY DEF z, NormalizeCase, HonestCase
<1>12. HonestCase(z, x)
  BY <1>5, <1>6, <1>7, <1>8, <1>9, <1>10, <1>11 DEF HonestCase
<1> QED BY <1>12 DEF z

(* Normalization works on the cases one by one: with one, in its place.      *)
LEMMA NormalOneCase ==
    ASSUME NEW e, NEW x, HonestEvidence(e, x), IsOk(Normalize(e))
    PROVE  LET z == Value(Normalize(e))
           IN  /\ DOMAIN z.cases = {1} /\ z.cases[1] = NormalizeCase(e.cases[1])
               /\ Len(z.cases) = 1
<1> DEFINE z == Value(Normalize(e))
           cases == [i \in DOMAIN e.cases |-> NormalizeCase(e.cases[i])]
<1>1. z = [e EXCEPT
            !.agent.artifactDigest = NormalizeDigest(@),
            !.runtime.digest = NormalizeDigest(@),
            !.adapter.runtimeDigest = NormalizeDigest(@),
            !.runtimePolicy.digest = NormalizeDigest(@),
            !.tool = NormalizeDigest(@),
            !.enforcement.required = DedupeSort(@),
            !.enforcement.observed = DedupeSort(@),
            !.extensions = Each(@, LAMBDA y : [y EXCEPT !.layout = "canonical"]),
            !.cases = SortCases([i \in DOMAIN @ |-> NormalizeCase(@[i])])]
  BY DEF Normalize, IsOk, Err, Ok, Value
<1>2. z.cases = SortCases(cases)
  BY <1>1 DEF HonestEvidence
<1> QED BY <1>2, SortOne DEF HonestEvidence

(* And the evidence does.                                                    *)
LEMMA HonestNormalize ==
    ASSUME NEW e, NEW x, HonestEvidence(e, x), IsOk(Normalize(e))
    PROVE  HonestEvidence(Value(Normalize(e)), x)
<1> DEFINE z == Value(Normalize(e))
<1>1. z = [e EXCEPT
            !.agent.artifactDigest = NormalizeDigest(@),
            !.runtime.digest = NormalizeDigest(@),
            !.adapter.runtimeDigest = NormalizeDigest(@),
            !.runtimePolicy.digest = NormalizeDigest(@),
            !.tool = NormalizeDigest(@),
            !.enforcement.required = DedupeSort(@),
            !.enforcement.observed = DedupeSort(@),
            !.extensions = Each(@, LAMBDA y : [y EXCEPT !.layout = "canonical"]),
            !.cases = SortCases([i \in DOMAIN @ |-> NormalizeCase(@[i])])]
  BY DEF Normalize, IsOk, Err, Ok, Value
<1>2. /\ DOMAIN z = DOMAIN e
      /\ z.agent = [e.agent EXCEPT !.artifactDigest = NormalizeDigest(@)]
      /\ z.tool = NormalizeDigest(e.tool)
  BY <1>1 DEF HonestEvidence
<1>3. /\ DOMAIN z.runtimePolicy = DOMAIN e.runtimePolicy
      /\ z.runtimePolicy.loaded = e.runtimePolicy.loaded
  <2>1. z.runtimePolicy = [e.runtimePolicy EXCEPT !.digest = NormalizeDigest(@)]
    BY <1>1 DEF HonestEvidence
  <2> HIDE DEF z
  <2> QED BY <2>1 DEF HonestEvidence
<1>4. /\ DOMAIN z.enforcement = DOMAIN e.enforcement
      /\ z.enforcement.mode = e.enforcement.mode
      /\ z.enforcement.required = DedupeSort(e.enforcement.required)
      /\ z.enforcement.observed = DedupeSort(e.enforcement.observed)
  <2> DEFINE core == [e EXCEPT
                 !.agent.artifactDigest = NormalizeDigest(@),
                 !.runtime.digest = NormalizeDigest(@),
                 !.adapter.runtimeDigest = NormalizeDigest(@),
                 !.runtimePolicy.digest = NormalizeDigest(@),
                 !.tool = NormalizeDigest(@)]
             sorted == [core EXCEPT
                 !.enforcement.required = DedupeSort(@),
                 !.enforcement.observed = DedupeSort(@)]
             laid == [sorted EXCEPT
                 !.extensions = Each(@, LAMBDA y : [y EXCEPT !.layout = "canonical"]),
                 !.cases = SortCases([i \in DOMAIN @ |-> NormalizeCase(@[i])])]
  <2>1. z = laid
    BY <1>1
  <2>2. DOMAIN core = DOMAIN e /\ core.enforcement = e.enforcement
    OBVIOUS
  <2> HIDE DEF core, z
  <2>3. laid.enforcement = sorted.enforcement
    BY <2>2 DEF HonestEvidence
  <2> HIDE DEF laid
  <2>4. /\ DOMAIN sorted.enforcement = DOMAIN e.enforcement
        /\ sorted.enforcement.mode = e.enforcement.mode
        /\ sorted.enforcement.required = DedupeSort(e.enforcement.required)
        /\ sorted.enforcement.observed = DedupeSort(e.enforcement.observed)
    BY <2>2 DEF HonestEvidence
  <2> HIDE DEF sorted
  <2> QED BY <2>1, <2>3, <2>4
<1>5. DOMAIN z.cases = {1} /\ z.cases[1] = NormalizeCase(e.cases[1])
  BY NormalOneCase
<1>6. HonestCase(z.cases[1], x)
  BY <1>5, HonestNormalCase DEF HonestEvidence
<1> HIDE DEF z
<1>7. z.tool = Sha256("write_marker.py")
  BY <1>2, CanonicalKept DEF HonestEvidence
<1>8. z.agent = [name |-> "agent-image", artifactDigest |-> Sha256("agent-image.txt")]
  <2>1. NormalizeDigest(Sha256("agent-image.txt")) = Sha256("agent-image.txt")
    BY CanonicalKept
  <2>2. e.agent = [name |-> "agent-image", artifactDigest |-> Sha256("agent-image.txt")]
    BY DEF HonestEvidence
  <2> QED BY <1>2, <2>1, <2>2
<1>9. /\ {"mode", "required", "observed"} \subseteq DOMAIN z.enforcement
       /\ z.enforcement.mode = "enforce"
       /\ z.enforcement.required = <<ToolPre>> /\ z.enforcement.observed = <<ToolPre>>
  BY <1>4, OnePoint DEF HonestEvidence
<1>10. "loaded" \in DOMAIN z.runtimePolicy /\ z.runtimePolicy.loaded
  BY <1>3 DEF HonestEvidence
<1>11. HonestEvidence(z, x)
  BY <1>2, <1>5, <1>6, <1>7, <1>8, <1>9, <1>10 DEF HonestEvidence
<1> QED BY <1>11 DEF z

(* Evidence of the same run yields the same test result.                     *)
LEMMA HonestResult ==
    ASSUME NEW e, NEW p, NEW x, HonestEvidence(e, x), HonestEvidence(p, x)
    PROVE  TestResultStatement(e, e.cases[1]) = TestResultStatement(p, p.cases[1])
<1> DEFINE c == e.cases[1]
           d == p.cases[1]
<1>1. BaseAnnotations(e, c) = BaseAnnotations(p, d)
  BY DEF BaseAnnotations, HonestEvidence, HonestCase
<1>2. /\ c.decision.state = d.decision.state /\ c.outcome.state = d.outcome.state
      /\ c.decision.reference = d.decision.reference
      /\ c.outcome.state = "verified" => c.outcome.reference = d.outcome.reference
      /\ c.id = d.id /\ e.tool = p.tool /\ e.agent = p.agent
  BY DEF HonestEvidence, HonestCase
<1> HIDE DEF c, d
<1>3. Annotations(e, c) = Annotations(p, d)
  <2>1. CASE c.outcome.state = "verified"
    BY <1>1, <1>2, <2>1 DEF Annotations, Linking
  <2>2. CASE c.outcome.state # "verified"
    <3>1. "resultArtifactDigest" \notin DOMAIN BaseAnnotations(e, c)
      BY DEF BaseAnnotations
    <3> QED BY <1>1, <1>2, <2>2, <3>1 DEF Annotations, Linking
  <2> QED BY <2>1, <2>2
<1>4. AgentSubject(e) = AgentSubject(p)
  BY <1>2 DEF AgentSubject
<1>5. TestResultStatement(e, c) = TestResultStatement(p, d)
  BY <1>2, <1>3, <1>4 DEF TestResultStatement
<1> QED BY <1>5 DEF c, d

(***************************************************************************)
(* What the helper makes of the file of an honest run: a valid predicate   *)
(* of those facts, and the test result that its one case commits to.       *)
(***************************************************************************)
LEMMA HonestBuild ==
    ASSUME NEW e, NEW x, HonestEvidence(e, x), IsOk(BuildCase(EvidenceFile(e)))
    PROVE  LET built == Value(BuildCase(EvidenceFile(e)))
               p == built.deployment.predicate
           IN  /\ built.deployment.type = StatementType
               /\ built.deployment.subject = <<AgentSubject(p)>>
               /\ CoreKeys \subseteq built.deployment.keys
               /\ built.deployment.keys \subseteq allowed_root_keys
               /\ HonestEvidence(p, x) /\ Validate(p) /\ Len(p.cases) = 1
               /\ built.testResult = TestResultStatement(p, p.cases[1])
               /\ p.cases[1].testResult.statementDigest = Sha256(built.testResult)
<1> DEFINE f == EvidenceFile(e)
           parsed == Parse(f)
           d == Value(parsed)
           n == Normalize(BindDigest(d, Placeholder))
           k == BindDigest(Value(n), NoDigest)
           tr == BuildTestResultStatement(k, k.cases[1])
           bound == BindDigest(k, Sha256(Value(tr)))
           body == Generate(bound)
           dep == BuildDeploymentStatement(Value(body), Value(body))
           built == Value(BuildCase(f))
<1>1. /\ IsOk(parsed) /\ IsOk(n) /\ IsOk(tr) /\ IsOk(body) /\ IsOk(dep)
      /\ BuildCase(f) = Ok([evidence |-> Value(body), deployment |-> Value(dep),
                            testResult |-> Value(tr)])
  BY DEF BuildCase, IsOk
<1>2. HonestEvidence(d, x)
  <2>1. d = ZeroFill(e, {"statementDigest"})
    BY <1>1 DEF Parse, IsOk, Err, Ok, Value, EvidenceFile
  <2> QED BY <2>1, HonestFill
<1>3. HonestEvidence(k, x)
  BY <1>1, <1>2, HonestBind, HonestNormalize
<1>4. Value(tr) = TestResultStatement(k, k.cases[1])
  BY <1>1 DEF BuildTestResultStatement, IsOk, Ok, Err, Value
<1>5. body = Normalize(bound) /\ Validate(Value(Normalize(bound)))
  BY <1>1 DEF Generate, IsOk
<1>6. HonestEvidence(Value(body), x) /\ Len(Value(body).cases) = 1
  BY <1>1, <1>3, <1>5, HonestBind, HonestNormalize, NormalOneCase
<1>7. Value(dep) = [type |-> StatementType, predicateType |-> DeploymentType,
                    subject |-> <<AgentSubject(Value(body))>>,
                    keys |-> CoreKeys \cup (IF Value(body).extensions = <<>> THEN {}
                                            ELSE {"extensions"}),
                    predicate |-> Value(body)]
  BY <1>1 DEF BuildDeploymentStatement, IsOk, Ok, Err, Value
<1>8. Value(body).cases[1].testResult.statementDigest = Sha256(Value(tr))
  <2> DEFINE g == Sha256(Value(tr))
             c == k.cases[1]
  <2>1. HonestCase(c, x) /\ DOMAIN k.cases = {1} /\ "cases" \in DOMAIN k
    BY <1>3 DEF HonestEvidence
  <2>2. bound.cases[1] = [c EXCEPT !.testResult.statementDigest = g]
    BY <2>1 DEF BindDigest
  <2>3. Value(body).cases[1] = NormalizeCase(bound.cases[1])
    BY <1>1, <1>3, <1>5, HonestBind, NormalOneCase
  <2> HIDE DEF k, tr, body, g, bound
  <2>4. NormalizeCase([c EXCEPT !.testResult.statementDigest = g]).testResult.statementDigest
            = NormalizeDigest(g)
    BY <2>1 DEF NormalizeCase, HonestCase
  <2>5. NormalizeDigest(g) = g
    BY CanonicalKept DEF g
  <2> QED BY <2>2, <2>3, <2>4, <2>5 DEF g
<1> HIDE DEF dep, tr, body
<1>9. built = [evidence |-> Value(body), deployment |-> Value(dep), testResult |-> Value(tr)]
  BY <1>1, ValueOk
<1>10. Value(tr) = TestResultStatement(Value(body), Value(body).cases[1])
  BY <1>3, <1>4, <1>6, HonestResult
<1>11. /\ CoreKeys \subseteq Value(dep).keys /\ Value(dep).keys \subseteq allowed_root_keys
       /\ Value(dep).type = StatementType /\ Value(dep).predicate = Value(body)
       /\ Value(dep).subject = <<AgentSubject(Value(body))>>
  BY <1>7 DEF allowed_root_keys
<1> HIDE DEF built, k, f
<1>12. LET p == built.deployment.predicate
       IN  /\ built.deployment.type = StatementType
           /\ built.deployment.subject = <<AgentSubject(p)>>
           /\ CoreKeys \subseteq built.deployment.keys
           /\ built.deployment.keys \subseteq allowed_root_keys
           /\ HonestEvidence(p, x) /\ Validate(p) /\ Len(p.cases) = 1
           /\ built.testResult = TestResultStatement(p, p.cases[1])
           /\ p.cases[1].testResult.statementDigest = Sha256(built.testResult)
  BY <1>5, <1>6, <1>8, <1>9, <1>10, <1>11
<1> QED BY <1>12 DEF built, f

\* A deployment statement as the helper makes it of the file of an honest run.
HonestDeployment(s, x) ==
    LET p == s.predicate
    IN  /\ s.predicateType = DeploymentType /\ s.type = StatementType
        /\ s.subject = <<AgentSubject(p)>>
        /\ CoreKeys \subseteq s.keys /\ s.keys \subseteq allowed_root_keys
        /\ HonestEvidence(p, x) /\ Validate(p) /\ Len(p.cases) = 1

(* What the Go validation has checked of the case is what the policy checks. *)
LEMMA HonestFacts ==
    ASSUME NEW s, NEW x, HonestDeployment(s, x), x.outcome = "verified"
    PROVE  LET c == s.predicate.cases[1]
           IN  /\ case_timestamps_valid(c) /\ case_shape_valid(c)
               /\ c.testResult.testId = c.id
               /\ deployment_enforcing(s)
<1> DEFINE p == s.predicate
           c == p.cases[1]
<1>1. Validate(p) /\ HonestEvidence(p, x) /\ HonestCase(c, x)
  BY DEF HonestDeployment, HonestEvidence
<1>2. ValidCase(p, c)
  BY <1>1 DEF Validate, ValidConformance, HonestEvidence
<1>3. Recorded(c.decision, c) /\ c.decision.verdict \in {"allow", "deny"}
  BY <1>1, <1>2 DEF ValidCase, ValidDecision, HonestCase
<1>4. Recorded(c.outcome, c) /\ c.outcome.result \in {"occurred", "blocked"}
  BY <1>1, <1>2 DEF ValidCase, ValidOutcome, HonestCase
<1>5. ValidInterval(c) /\ c.kind \in Kinds /\ CanonicalDigest(c.correlationId)
      /\ ValidTestResult(c)
  BY <1>2 DEF ValidCase
<1>6. c.decision.state = "observed" /\ c.outcome.state = "verified"
  BY <1>1 DEF HonestCase
<1> HIDE DEF c
<1>7. case_timestamps_valid(c)
  BY <1>3, <1>4, <1>5 DEF case_timestamps_valid, Recorded, ValidInterval, ToSet
<1>8. case_shape_valid(c)
  BY <1>3, <1>4, <1>5, <1>6 DEF case_shape_valid, observation_shape_valid, Recorded,
                                ValidInterval, ValidTestResult
<1>9. deployment_enforcing(s)
  <2>1. /\ p.runtimePolicy.count \in 0 .. MaxPolicies /\ p.runtimePolicy.loaded
        /\ p.runtimePolicy.loaded = (p.runtimePolicy.count >= 1)
    BY <1>1 DEF Validate, ValidRuntimePolicy, HonestEvidence
  <2>2. p.runtimePolicy.count \in 1 .. MaxPolicies
    <3>1. p.runtimePolicy.count >= 1
      BY <2>1, Zenon
    <3>2. MaxPolicies \in Nat
      BY BoundsAssumption
    <3> QED BY <2>1, <3>1, <3>2
  <2>3. /\ p.enforcement.mode = "enforce" /\ default_behavior_valid(s)
        /\ Len(p.enforcement.required) >= 1
        /\ ToSet(p.enforcement.required) \subseteq ToSet(p.enforcement.observed)
    BY <1>1 DEF Validate, ValidEnforcement, HonestEvidence, default_behavior_valid, ToSet
  <2> QED BY <2>1, <2>2, <2>3 DEF deployment_enforcing, runtime_policy_consistent
<1> QED BY <1>5, <1>7, <1>8, <1>9 DEF c, ValidTestResult

(* And its envelope is the one the policy requires.                          *)
LEMMA HonestEnvelope ==
    ASSUME NEW s, NEW x, HonestDeployment(s, x), x.outcome = "verified"
    PROVE  deployment_envelope_valid(s) /\ valid_case_cardinality(s)
<1> DEFINE p == s.predicate
<1>1. Validate(p) /\ HonestEvidence(p, x)
  BY DEF HonestDeployment
<1>2. valid_case_cardinality(s)
  BY <1>1 DEF Validate, ValidConformance, valid_case_cardinality
<1>3. Unique(<<ToolPre>>) /\ Len(<<ToolPre>>) = 1
  <2>1. ToSet(<<ToolPre>>) = {ToolPre}
    BY DEF ToSet
  <2> QED BY <2>1, FS_Singleton DEF Unique
<1>4. CoreForms(p) = {"lower"}
  BY <1>1 DEF Validate, ValidRuntimeAdapter, ValidConformance, CanonicalDigest, CoreForms
<1>5. nested_core_shape_valid(s)
  <2>1. \A i \in DOMAIN p.cases : case_shape_valid(p.cases[i])
    BY <1>1, HonestFacts DEF HonestEvidence
  <2>2. "grammar" \notin p.illegal /\ p.enforcement.mode \in {"enforce", "monitor"}
        /\ p.enforcement.defaultBehavior \in {"allow", "deny"}
    BY <1>1 DEF Validate, ValidEnforcement
  <2>3. /\ Len(p.enforcement.required) \in 1 .. MaxPoints
        /\ Len(p.enforcement.observed) <= MaxPoints
    BY <1>1 DEF Validate, ValidEnforcement
  <2>4. Unique(p.enforcement.required) /\ Unique(p.enforcement.observed)
    BY <1>1, <1>3 DEF HonestEvidence
  <2> QED BY <1>4, <2>1, <2>2, <2>3, <2>4 DEF nested_core_shape_valid
<1>6. controlled_tool_valid(s) /\ adapter_valid(s) /\ "schemaVersion" \notin p.illegal
  BY <1>1 DEF Validate, ValidRuntimeAdapter, HonestEvidence, controlled_tool_valid,
              controlled_tool_digest, adapter_valid
<1>7. /\ s.type = StatementType /\ Len(s.subject) = 1
      /\ \E i \in DOMAIN s.subject : NamesAgent(s.subject[i], s) /\ DigestsAgent(s.subject[i], s)
      /\ s.keys \subseteq allowed_root_keys /\ required_root_keys_present(s)
  BY DEF HonestDeployment, AgentSubject, NamesAgent, DigestsAgent, required_root_keys_present
<1> QED BY <1>2, <1>5, <1>6, <1>7 DEF deployment_envelope_valid

(* The test result of such a case passes the cross-binding rules.            *)
LEMMA HonestLinkage ==
    ASSUME NEW s, NEW x, HonestDeployment(s, x), x.outcome = "verified",
           NEW t, t = TestResultStatement(s.predicate, s.predicate.cases[1]),
           s.predicate.cases[1].testResult.statementDigest = Sha256(t)
    PROVE  /\ t.predicateType = TestResultType /\ Claims(t, s.predicate.cases[1].id)
           /\ tr_statement_valid(s, s.predicate.cases[1], t)
<1> DEFINE p == s.predicate
           c == p.cases[1]
           d == [name |-> ConformanceDescriptor, digest |-> p.tool,
                 annotations |-> Annotations(p, c)]
<1>1. HonestCase(c, x) /\ s.subject = <<AgentSubject(p)>>
  BY DEF HonestDeployment, HonestEvidence
<1>2. /\ t.type = StatementType /\ t.predicateType = TestResultType
      /\ t.subject = <<AgentSubject(p)>> /\ t.predicate.configuration = <<d>>
      /\ t.predicate.url = "absent" /\ t.predicate.failedTests = <<>>
  BY DEF TestResultStatement
<1>3. tr_result_profile_valid(c, t.predicate)
  BY <1>1 DEF TestResultStatement, tr_result_profile_valid, HonestCase
<1>4. /\ DOMAIN d.annotations = expected_annotation_keys(c)
      /\ d.annotations.caseId = c.id
      /\ d.annotations.agentDigest = p.agent.artifactDigest
      /\ d.annotations.correlationId = c.correlationId
      /\ d.annotations.decisionState = c.decision.state
      /\ d.annotations.decisionVerdict = c.decision.verdict
      /\ d.annotations.outcomeState = c.outcome.state
      /\ d.annotations.outcomeResult = c.outcome.result
  BY DEF Annotations, Linking, BaseAnnotations, expected_annotation_keys
<1>5. /\ d.annotations.decisionDigest = Sha256(x.decided)
      /\ d.annotations.resultArtifactDigest = Sha256(x.seen)
  <2>1. /\ c.decision.state = "observed" /\ Value(c.decision.reference) = Sha256(x.decided)
        /\ c.outcome.state = "verified" /\ Value(c.outcome.reference) = Sha256(x.seen)
    BY <1>1 DEF HonestCase, Value
  <2> HIDE DEF c
  <2> QED BY <2>1 DEF Annotations, Linking, BaseAnnotations
<1>6. tr_annotations_valid(s, c, d)
  <2> HIDE DEF d
  <2> QED BY <1>1, <1>4, <1>5 DEF tr_annotations_valid, HonestCase
<1>7. d.name = ConformanceDescriptor /\ d.digest = p.tool
  OBVIOUS
<1>8. "caseId" \in DOMAIN d.annotations
  BY <1>4 DEF expected_annotation_keys
<1>9. c.testResult.testId = c.id
  BY HonestFacts
<1> HIDE DEF d
<1>10. Claims(t, c.id)
  BY <1>2, <1>4, <1>8 DEF Claims
<1>11. tr_statement_valid(s, c, t)
  <2>1. t.predicate.configuration[1] = d /\ Len(t.subject) = 1
        /\ \E i \in DOMAIN s.subject : t.subject[1] = s.subject[i]
    BY <1>1, <1>2
  <2>2. tr_url_valid(t.predicate)
    BY <1>2 DEF tr_url_valid
  <2> HIDE DEF p, c
  <2> QED BY <1>2, <1>3, <1>6, <1>7, <1>9, <2>1, <2>2 DEF tr_statement_valid, p, c
<1> QED BY <1>2, <1>10, <1>11

(***************************************************************************)
(* The gate admits the two statements of an honest, verified case whose    *)
(* label is the right one, whatever their order.                           *)
(***************************************************************************)
LEMMA HonestAdmission ==
    ASSUME NEW b, NEW i, NEW j, i # j, DOMAIN b = {i, j},
           NEW x, HonestDeployment(b[i], x), x.verdict \in {"allow", "deny"},
           x.outcome = "verified",
           x.result = (IF x.verdict = "allow" THEN "occurred" ELSE "blocked"),
           b[i].predicate.cases[1].kind
               = (IF x.verdict = "allow" THEN "allowed-action" ELSE "denied-action"),
           b[j] = TestResultStatement(b[i].predicate, b[i].predicate.cases[1]),
           b[i].predicate.cases[1].testResult.statementDigest = Sha256(b[j])
    PROVE  allow(b)
<1> DEFINE s == b[i]
           t == b[j]
           p == s.predicate
           c == p.cases[1]
<1>1. DOMAIN p.cases = {1} /\ HonestCase(c, x)
  BY DEF HonestDeployment, HonestEvidence
<1>2. /\ t.predicateType = TestResultType /\ Claims(t, c.id)
      /\ tr_statement_valid(s, c, t)
  BY HonestLinkage
<1>3. deployment_statements(b) = {i}
  BY <1>2 DEF deployment_statements, HonestDeployment, DeploymentType, TestResultType
<1>4. case_test_results(b, c) = {j}
  <2>1. s.predicateType # TestResultType
    BY DEF HonestDeployment, DeploymentType, TestResultType
  <2> HIDE DEF s, t, c
  <2> QED BY <1>2, <2>1 DEF case_test_results, test_result_statements, s, t
<1>5. /\ case_timestamps_valid(c) /\ deployment_enforcing(s)
      /\ deployment_envelope_valid(s) /\ valid_case_cardinality(s)
  BY HonestFacts, HonestEnvelope
<1>6. case_admissible(b, s, c)
  <2>1. linkage_valid(b, s, c)
    BY <1>2, <1>4 DEF linkage_valid
  <2>2. c.decision.state = "observed" /\ c.outcome.state = "verified"
    BY <1>1 DEF HonestCase
  <2>3. \/ /\ c.kind = "allowed-action"
           /\ c.decision.verdict = "allow" /\ c.outcome.result = "occurred"
        \/ /\ c.kind = "denied-action"
           /\ c.decision.verdict = "deny" /\ c.outcome.result = "blocked"
    BY <1>1 DEF HonestCase
  <2> QED BY <1>5, <2>1, <2>2, <2>3 DEF case_admissible
<1>7. admissible_deployment(b, s)
  BY <1>1, <1>5, <1>6 DEF admissible_deployment
<1>8. agent_governance_violations(b) = {}
  <2> DEFINE D == {b[k] : k \in deployment_statements(b)}
             cases == ToSet(p.cases)
  <2>1. /\ Cardinality(deployment_statements(b)) = 1
        /\ \A y : y \in D <=> y = s
    BY <1>3, FS_Singleton
  <2>2. \A y : y \in cases <=> y = c
    BY <1>1 DEF ToSet
  <2>3. CaseViolations(b, s, c) = {}
    <3>1. Cardinality(case_test_results(b, c)) = 1
      BY <1>4, FS_Singleton
    <3>2. /\ c.kind \in {"allowed-action", "denied-action"}
          /\ c.decision.state = "observed" /\ c.outcome.state = "verified"
          /\ c.kind = "allowed-action" =>
                c.decision.verdict = "allow" /\ c.outcome.result = "occurred"
          /\ c.kind = "denied-action" =>
                c.decision.verdict = "deny" /\ c.outcome.result = "blocked"
      BY <1>6 DEF case_admissible
    <3>3. ~ \E k \in case_test_results(b, c) :
               case_test_results(b, c) = {k} /\ ~ tr_statement_valid(s, c, b[k])
      BY <1>2, <1>4
    <3>4. case_test_results(b, c) # {} /\ ~ Cardinality(case_test_results(b, c)) > 1
      BY <1>4, <3>1
    <3> HIDE DEF s, c
    <3> QED BY <1>5, <3>2, <3>3, <3>4 DEF CaseViolations, When
  <2>4. DeploymentViolations(s) = {}
    <3>1. Cardinality({y.id : y \in cases}) = 1 /\ Cardinality({y.kind : y \in cases}) = 1
      <4>1. {y.id : y \in cases} = {c.id} /\ {y.kind : y \in cases} = {c.kind}
        BY <2>2
      <4> QED BY <4>1, FS_Singleton
    <3>2. Len(p.cases) = 1
      BY DEF HonestDeployment
    <3>3. \A y \in ToSet(s.subject) : NamesAgent(y, s) /\ DigestsAgent(y, s)
      BY DEF HonestDeployment, ToSet, AgentSubject, NamesAgent, DigestsAgent
    <3>4. default_behavior_valid(s) /\ runtime_policy_consistent(s)
      BY <1>5 DEF deployment_enforcing
    <3>5. /\ s.type = StatementType /\ "schemaVersion" \notin p.illegal /\ Len(s.subject) = 1
          /\ s.keys \subseteq allowed_root_keys /\ required_root_keys_present(s)
          /\ nested_core_shape_valid(s) /\ controlled_tool_valid(s) /\ adapter_valid(s)
      BY <1>5 DEF deployment_envelope_valid
    <3> HIDE DEF s, c
    <3>6. /\ Cardinality({y.id : y \in ToSet(p.cases)}) = Len(p.cases)
          /\ Cardinality({y.kind : y \in ToSet(p.cases)}) = Len(p.cases)
      BY <3>1, <3>2
    <3> QED BY <1>5, <3>3, <3>4, <3>5, <3>6 DEF DeploymentViolations, When
  <2> HIDE DEF D, cases, s, c, p
  <2>5. UNION {DeploymentViolations(y) : y \in D} = {}
    BY <2>1, <2>4
  <2>6. UNION {UNION {CaseViolations(b, y, z) : z \in ToSet(y.predicate.cases)} : y \in D} = {}
    BY <2>1, <2>2, <2>3 DEF cases, p
  <2> QED BY <2>1, <2>5, <2>6 DEF agent_governance_violations, When, D
<1> QED BY <1>3, <1>7, <1>8 DEF allow, PositivelyAdmitted

-------------------------------------------------------------------------------
(* Where the statements come from.                                           *)

\* A file that an adapter has written, or begun to write, of a run of a case.
Made(f, truth) ==
    \E spec, shared, docs :
        /\ docs # <<>> => spec.policy_loaded
        /\ truth = invoke_tool(spec, docs)
        /\ f \in {EvidenceFile(run_case(spec, shared, docs, truth)),
                  TornFile(run_case(spec, shared, docs, truth))}

\* The statements that the helper builds of such a file.
BuiltOf(built, truth) ==
    \E f : Made(f, truth) /\ IsOk(BuildCase(f)) /\ built = Value(BuildCase(f))

AdapterMade ==
    \A e \in Paths :
        LET a == adapter[e]
        IN  /\ a.pc \in {"invoke", "write", "fill"} => (a.docs # <<>> => a.spec.policy_loaded)
            /\ a.pc \in {"write", "fill"} => a.truth = invoke_tool(a.spec, a.docs)

FileMade ==
    \A e \in Paths : file[e] # <<>> => Made(file[e][1].content, file[e][1].truth)

HelperMade == helper # <<>> => BuiltOf(helper[1].built, helper[1].truth)

SignedMade ==
    \A x \in signed :
        x.statement.predicateType = DeploymentType =>
            \E built : BuiltOf(built, x.truth) /\ x.statement = built.deployment

(***************************************************************************)
(* Every deployment statement that is signed was built from the file of    *)
(* the run whose truth goes with it: the provenance that the admission of  *)
(* an honest case starts from.                                             *)
(***************************************************************************)
MadeInv == AdapterMade /\ FileMade /\ HelperMade /\ SignedMade

LEMMA InitMade == Init => MadeInv
  BY DEF Init, Idle, MadeInv, AdapterMade, FileMade, HelperMade, SignedMade

(* Every step keeps the provenance.                                          *)
LEMMA NextMade == Inv /\ MadeInv /\ [Next]_vars => MadeInv'
<1> SUFFICES ASSUME Inv, MadeInv, [Next]_vars PROVE MadeInv'
  OBVIOUS
<1> USE DEF Inv, Shape, MadeInv
<1>1. CASE UNCHANGED vars
  BY <1>1 DEF vars, AdapterMade, FileMade, HelperMade, SignedMade
<1>2. ASSUME NEW e \in Paths, Start(e) \/ Invoke(e) \/ AdapterCrash(e) PROVE MadeInv'
  <2>1. FileMade' /\ HelperMade' /\ SignedMade'
    BY <1>2 DEF Start, Invoke, AdapterCrash, FileMade, HelperMade, SignedMade
  <2>2. CASE Start(e)
    <3>1. PICK spec \in Specs, read \in PolicyReads :
              adapter' = [adapter EXCEPT ![e] =
                  [pc |-> "invoke", spec |-> spec,
                   shared |-> [policy_digest |-> Sha256(read.digested)],
                   docs |-> IF spec.policy_loaded THEN <<read.loaded>> ELSE <<>>]]
      BY <2>2 DEF Start
    <3>2. adapter'[e].pc = "invoke" /\ (adapter'[e].docs # <<>> => adapter'[e].spec.policy_loaded)
      BY <3>1
    <3>3. \A g \in Paths \ {e} : adapter'[g] = adapter[g]
      BY <3>1
    <3> QED BY <2>1, <3>2, <3>3 DEF AdapterMade
  <2>3. CASE Invoke(e)
    BY <2>1, <2>3 DEF Invoke, AdapterMade
  <2>4. CASE AdapterCrash(e)
    BY <2>1, <2>4 DEF AdapterCrash, Idle, AdapterMade
  <2> QED BY <1>2, <2>2, <2>3, <2>4
<1>3. ASSUME NEW e \in Paths, Truncate(e) \/ Fill(e) PROVE MadeInv'
  <2> DEFINE a == adapter[e]
  <2>1. HelperMade' /\ SignedMade'
    BY <1>3 DEF Truncate, Fill, HelperMade, SignedMade
  <2>2. AdapterMade'
    <3>1. CASE Truncate(e)
      BY <3>1 DEF Truncate, AdapterMade
    <3>2. CASE Fill(e)
      BY <3>2 DEF Fill, Idle, AdapterMade
    <3> QED BY <1>3, <3>1, <3>2
  <2>3. FileMade'
    <3>1. a.truth = invoke_tool(a.spec, a.docs) /\ (a.docs # <<>> => a.spec.policy_loaded)
      BY <1>3 DEF Truncate, Fill, AdapterMade
    <3>2. Made(EvidenceFile(Written(e)), a.truth) /\ Made(TornFile(Written(e)), a.truth)
      BY <3>1 DEF Made, Written
    <3>3. /\ file'[e][1].content \in {EvidenceFile(Written(e)), TornFile(Written(e))}
          /\ file'[e][1].truth = a.truth
          /\ \A g \in Paths \ {e} : file'[g] = file[g]
      BY <1>3 DEF Truncate, Fill
    <3> QED BY <3>2, <3>3 DEF FileMade
  <2> QED BY <2>1, <2>2, <2>3
<1>4. ASSUME NEW e \in Paths, Build(e) PROVE MadeInv'
  <2>1. AdapterMade' /\ FileMade' /\ SignedMade'
    BY <1>4 DEF Build, AdapterMade, FileMade, SignedMade
  <2>2. HelperMade'
    BY <1>4 DEF Build, FileMade, HelperMade, BuiltOf
  <2> QED BY <2>1, <2>2
<1>5. CASE Sign
  <2>1. AdapterMade' /\ FileMade'
    BY <1>5 DEF Sign, AdapterMade, FileMade
  <2>2. HelperMade'
    BY <1>5 DEF Sign, HelperMade
  <2>3. SignedMade'
    BY <1>5 DEF Sign, SignedMade, HelperMade, HelperInv, DeploymentType, TestResultType
  <2> QED BY <2>1, <2>2, <2>3
<1>6. CASE HelperCrash \/ Deliver \/ Verify
  BY <1>6 DEF HelperCrash, Deliver, Verify, AdapterMade, FileMade, HelperMade, SignedMade
<1> QED BY <1>1, <1>2, <1>3, <1>4, <1>5, <1>6 DEF Next

(***************************************************************************)
(* The gate is not merely strict: whatever the adapters, the policies and  *)
(* the number of runs, the two statements of a correctly labelled case     *)
(* that was really enforced and verified are admitted in either order.     *)
(***************************************************************************)
THEOREM HonestyAdmitted == Spec => []HonestCaseAdmitted
<1>1. Inv /\ MadeInv => HonestCaseAdmitted
  <2> SUFFICES ASSUME MadeInv, NEW x \in signed, NEW y \in signed,
                      x.statement.predicateType = DeploymentType,
                      y.statement.predicateType = TestResultType,
                      Enforced(x.truth),
                      x.statement.predicate.cases[1].kind =
                          (IF x.truth.marker THEN "allowed-action" ELSE "denied-action"),
                      x.statement.predicate.cases[1].outcome.state = "verified",
                      x.statement.predicate.cases[1].testResult.statementDigest
                          = Sha256(y.statement)
               PROVE  allow(<<x.statement, y.statement>>) /\ allow(<<y.statement, x.statement>>)
    BY DEF HonestCaseAdmitted
  <2> DEFINE s == x.statement
             t == y.statement
             truth == x.truth
  <2>1. PICK f : Made(f, truth) /\ IsOk(BuildCase(f)) /\ s = Value(BuildCase(f)).deployment
    BY DEF MadeInv, SignedMade, BuiltOf
  <2>2. PICK spec, shared, docs :
            /\ docs # <<>> => spec.policy_loaded
            /\ truth = invoke_tool(spec, docs)
            /\ f \in {EvidenceFile(run_case(spec, shared, docs, truth)),
                      TornFile(run_case(spec, shared, docs, truth))}
    BY <2>1 DEF Made
  <2> DEFINE e == run_case(spec, shared, docs, truth)
             r == RecordOf(spec, shared, truth)
  <2>3. f = EvidenceFile(e)
    BY <2>1, <2>2 DEF BuildCase, Parse, IsOk, Err, TornFile, EvidenceFile
  <2>4. HonestEvidence(e, r)
    BY <2>2, HonestRun
  <2>5. /\ HonestDeployment(s, r)
        /\ s.predicate.cases[1].testResult.statementDigest
              = Sha256(TestResultStatement(s.predicate, s.predicate.cases[1]))
    BY <2>1, <2>3, <2>4, HonestBuild DEF HonestDeployment
  <2>6. t = TestResultStatement(s.predicate, s.predicate.cases[1])
    BY <2>5 DEF Sha256
  <2>7. r.verdict \in {"allow", "deny"} /\ truth.marker = (r.verdict = "allow")
    BY DEF Enforced, RecordOf
  <2>8. r.outcome = "verified"
    BY <2>5 DEF HonestDeployment, HonestEvidence, HonestCase
  <2>9. r.result = (IF r.verdict = "allow" THEN "occurred" ELSE "blocked")
    BY <2>7, <2>8 DEF RecordOf
  <2>10. s.predicate.cases[1].kind
             = (IF r.verdict = "allow" THEN "allowed-action" ELSE "denied-action")
    BY <2>7
  <2> HIDE DEF s, t, r, e, truth
  <2>11. allow(<<s, t>>)
    <3> DEFINE b == <<s, t>>
    <3>1. b[1] = s /\ b[2] = t /\ DOMAIN b = {1, 2}
      OBVIOUS
    <3> HIDE DEF b
    <3>2. 1 # 2 /\ DOMAIN b = {1, 2}
      BY <3>1
    <3>3. /\ HonestDeployment(b[1], r)
          /\ b[1].predicate.cases[1].kind
                = (IF r.verdict = "allow" THEN "allowed-action" ELSE "denied-action")
          /\ b[2] = TestResultStatement(b[1].predicate, b[1].predicate.cases[1])
          /\ b[1].predicate.cases[1].testResult.statementDigest = Sha256(b[2])
      BY <2>5, <2>6, <2>10, <3>1
    <3>4. allow(b)
      BY <2>7, <2>8, <2>9, <3>2, <3>3, HonestAdmission, Zenon
    <3> QED BY <3>4 DEF b
  <2>12. allow(<<t, s>>)
    <3> DEFINE b == <<t, s>>
    <3>1. b[2] = s /\ b[1] = t /\ DOMAIN b = {2, 1}
      OBVIOUS
    <3> HIDE DEF b
    <3>2. 2 # 1 /\ DOMAIN b = {2, 1}
      BY <3>1
    <3>3. /\ HonestDeployment(b[2], r)
          /\ b[2].predicate.cases[1].kind
                = (IF r.verdict = "allow" THEN "allowed-action" ELSE "denied-action")
          /\ b[1] = TestResultStatement(b[2].predicate, b[2].predicate.cases[1])
          /\ b[2].predicate.cases[1].testResult.statementDigest = Sha256(b[1])
      BY <2>5, <2>6, <2>10, <3>1
    <3>4. allow(b)
      BY <2>7, <2>8, <2>9, <3>2, <3>3, HonestAdmission, Zenon
    <3> QED BY <3>4 DEF b
  <2> QED BY <2>11, <2>12 DEF s, t
<1> QED BY <1>1, InitInv, NextInv, InitMade, NextMade, PTL DEF Spec
===============================================================================
