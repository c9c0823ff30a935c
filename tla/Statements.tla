------------------------------ MODULE Statements ------------------------------
(***************************************************************************)
(* The signing helper of internal/demokit/statements.go: from a producer's *)
(* evidence file to the two in-toto statements that are signed separately. *)
(*                                                                         *)
(* A statement is                                                          *)
(*   [type, predicateType, subject, keys, predicate]                       *)
(* where keys are the root members of the predicate object.  The payload   *)
(* bytes of a statement are taken to be the statement, so that its digest  *)
(* commits to all of it.                                                   *)
(***************************************************************************)
EXTENDS Evidence

StatementType == "statement/v1"
DeploymentType == "agent-governance-deployment"
TestResultType == "test-result"
ConformanceDescriptor == "agent-governance-conformance"

CoreKeys == {"schemaVersion", "agent", "runtime", "adapter", "runtimePolicy",
             "enforcement", "identity", "audit", "conformance"}

AgentSubject(e) == [name |-> e.agent.name, digest |-> e.agent.artifactDigest]

\* The namespaced linkage annotations of the one configuration descriptor.
BaseAnnotations(e, c) ==
    [agentDigest |-> e.agent.artifactDigest, caseId |-> c.id,
     correlationId |-> c.correlationId,
     decisionState |-> c.decision.state, decisionVerdict |-> c.decision.verdict,
     outcomeState |-> c.outcome.state, outcomeResult |-> c.outcome.result]

\* The base annotations, and the references of the case named by linked.
Linking(e, c, linked) ==
    [k \in DOMAIN BaseAnnotations(e, c) \cup linked |->
        IF k = "decisionDigest" THEN Value(c.decision.reference)
        ELSE IF k = "resultArtifactDigest" THEN Value(c.outcome.reference)
        ELSE BaseAnnotations(e, c)[k]]

\* Mutant: the two commitments are annotated together or not at all.
AnnotationsTogether(e, c) ==
    Linking(e, c, IF c.decision.state = "observed" /\ c.outcome.state = "verified"
                  THEN {"decisionDigest", "resultArtifactDigest"} ELSE {})

Annotations(e, c) ==
    Linking(e, c, (IF c.decision.state = "observed" THEN {"decisionDigest"} ELSE {})
                    \cup (IF c.outcome.state = "verified" THEN {"resultArtifactDigest"} ELSE {}))

TestResultStatement(e, c) ==
    LET verified == c.outcome.state = "verified"
    IN  [type |-> StatementType,
         predicateType |-> TestResultType,
         subject |-> <<AgentSubject(e)>>,
         keys |-> {"configuration"},
         predicate |->
            [configuration |-> <<[name |-> ConformanceDescriptor, digest |-> e.tool,
                                  annotations |-> Annotations(e, c)]>>,
             result |-> IF verified THEN "PASSED" ELSE "WARNED",
             passedTests |-> IF verified THEN <<c.id>> ELSE <<>>,
             warnedTests |-> IF verified THEN <<>> ELSE <<c.id>>,
             failedTests |-> <<>>,
             url |-> "absent"]]

BuildTestResultStatement(e, c) ==
    IF /\ c.decision.state = "observed" => c.decision.reference # <<>>
       /\ c.outcome.state \in {"verified", "unknown"}
       /\ c.outcome.state = "verified" => c.outcome.reference # <<>>
    THEN Ok(TestResultStatement(e, c))
    ELSE Err

BuildDeploymentStatement(e, body) ==
    IF body.agent = e.agent
    THEN Ok([type |-> StatementType,
             predicateType |-> DeploymentType,
             subject |-> <<AgentSubject(e)>>,
             keys |-> CoreKeys \cup (IF body.extensions = <<>> THEN {} ELSE {"extensions"}),
             predicate |-> body])
    ELSE Err

BindDigest(e, g) == [e EXCEPT !.cases[1].testResult.statementDigest = g]

\* Mutant: the digest is bound to the statement of the evidence as it was read.
BuildCaseUnnormalized(f) ==
    LET parsed == Parse(f)
        d == Value(parsed)
        tr == BuildTestResultStatement(d, d.cases[1])
        body == Generate(BindDigest(d, Sha256(Value(tr))))
        dep == BuildDeploymentStatement(Value(body), Value(body))
    IN  IF /\ IsOk(parsed)
           /\ Len(d.cases) = 1
           /\ d.cases[1].testResult.statementDigest = NoDigest
           /\ IsOk(tr) /\ IsOk(body) /\ IsOk(dep)
        THEN Ok([evidence |-> Value(body), deployment |-> Value(dep), testResult |-> Value(tr)])
        ELSE Err

\* Mutant: the digest is bound in a copy of the case, not in the evidence.
BuildCaseBindsCopy(f) ==
    LET parsed == Parse(f)
        d == Value(parsed)
        n == Normalize(BindDigest(d, Placeholder))
        e == BindDigest(Value(n), NoDigest)
        tr == BuildTestResultStatement(e, e.cases[1])
        body == Generate(BindDigest(e, Sha256(Value(tr))))
        dep == BuildDeploymentStatement(e, Value(body))
    IN  IF /\ IsOk(parsed)
           /\ Len(d.cases) = 1
           /\ d.cases[1].testResult.statementDigest = NoDigest
           /\ IsOk(n) /\ IsOk(tr) /\ IsOk(body) /\ IsOk(dep)
        THEN Ok([evidence |-> e, deployment |-> Value(dep), testResult |-> Value(tr)])
        ELSE Err

(***************************************************************************)
(* BuildCase: the facts are normalized before either statement is derived  *)
(* from them, with a placeholder where the digest will be bound.  Generate *)
(* works on the evidence in place, so the completed evidence is the body.  *)
(***************************************************************************)
BuildCase(f) ==
    LET parsed == Parse(f)
        d == Value(parsed)
        n == Normalize(BindDigest(d, Placeholder))
        e == BindDigest(Value(n), NoDigest)
        tr == BuildTestResultStatement(e, e.cases[1])
        body == Generate(BindDigest(e, Sha256(Value(tr))))
        dep == BuildDeploymentStatement(Value(body), Value(body))
    IN  IF /\ IsOk(parsed)
           /\ Len(d.cases) = 1
           /\ d.cases[1].testResult.statementDigest = NoDigest
           /\ IsOk(n) /\ IsOk(tr) /\ IsOk(body) /\ IsOk(dep)
        THEN Ok([evidence |-> Value(body), deployment |-> Value(dep), testResult |-> Value(tr)])
        ELSE Err
===============================================================================
