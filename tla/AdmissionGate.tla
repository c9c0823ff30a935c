----------------------------- MODULE AdmissionGate -----------------------------
(***************************************************************************)
(* The admission policy policy/agent_governance.rego, under its own rule   *)
(* names, as operators on a bundle: the sequence of verified statements    *)
(* that the offline verifier hands to the policy engine.  The policy reads *)
(* arrays, so a statement delivered twice counts twice: a comprehension of *)
(* the policy is a set of positions in the bundle.                         *)
(*                                                                         *)
(* A Rego body with an undefined reference is not satisfied; an optional   *)
(* member that a rule reads is therefore required to be present by it.     *)
(***************************************************************************)
EXTENDS Statements

controlled_tool_digest == Sha256("write_marker.py")

deployment_statements(b) == {i \in DOMAIN b : b[i].predicateType = DeploymentType}
test_result_statements(b) == {i \in DOMAIN b : b[i].predicateType = TestResultType}

Unique(points) == Cardinality(ToSet(points)) = Len(points)

-------------------------------------------------------------------------------
(* The shape of the signed predicate.                                        *)

observation_shape_valid(o) ==
    /\ \A i \in DOMAIN o.reference : CanonicalDigest(o.reference[i])
    /\ \A i \in DOMAIN o.observedAt : CanonicalTime(o.observedAt[i])

case_shape_valid(c) ==
    /\ c.kind \in Kinds
    /\ CanonicalDigest(c.correlationId)
    /\ CanonicalTime(c.startedAt) /\ CanonicalTime(c.completedAt)
    /\ c.decision.state \in {"observed", "not-observed"}
    /\ c.decision.verdict \in {"allow", "deny", "unknown"}
    /\ observation_shape_valid(c.decision)
    /\ c.outcome.state \in {"verified", "unknown"}
    /\ c.outcome.result \in {"occurred", "blocked", "unknown"}
    /\ observation_shape_valid(c.outcome)
    /\ CanonicalDigest(c.testResult.statementDigest)

nested_core_shape_valid(s) ==
    LET p == s.predicate
    IN  /\ "grammar" \notin p.illegal
        /\ CoreForms(p) = {"lower"}
        /\ p.enforcement.mode \in {"enforce", "monitor"}
        /\ p.enforcement.defaultBehavior \in {"allow", "deny"}
        /\ Len(p.enforcement.required) \in 1 .. MaxPoints
        /\ Len(p.enforcement.observed) <= MaxPoints
        /\ Unique(p.enforcement.required) /\ Unique(p.enforcement.observed)
        /\ \A i \in DOMAIN p.cases : case_shape_valid(p.cases[i])

required_root_keys_present(s) == CoreKeys \subseteq s.keys

allowed_root_keys == CoreKeys \cup {"extensions"}

valid_case_cardinality(s) == Len(s.predicate.cases) \in 1 .. MaxCases

controlled_tool_valid(s) ==
    "toolName" \notin s.predicate.illegal /\ s.predicate.tool = controlled_tool_digest

adapter_valid(s) ==
    /\ "contractVersion" \notin s.predicate.illegal
    /\ s.predicate.adapter.runtimeDigest = s.predicate.runtime.digest
    /\ CanonicalDigest(s.predicate.adapter.runtimeDigest)

NamesAgent(sub, s) == sub.name = s.predicate.agent.name
DigestsAgent(sub, s) == sub.digest = s.predicate.agent.artifactDigest

deployment_envelope_valid(s) ==
    /\ s.type = StatementType
    /\ Len(s.subject) = 1
    /\ \E i \in DOMAIN s.subject : NamesAgent(s.subject[i], s) /\ DigestsAgent(s.subject[i], s)
    /\ s.keys \subseteq allowed_root_keys
    /\ required_root_keys_present(s)
    /\ nested_core_shape_valid(s)
    /\ "schemaVersion" \notin s.predicate.illegal
    /\ controlled_tool_valid(s)
    /\ adapter_valid(s)

-------------------------------------------------------------------------------
(* Enforcement, case facts and linkage.                                      *)

runtime_policy_consistent(s) ==
    LET rp == s.predicate.runtimePolicy
    IN  \/ rp.count \in 1 .. MaxPolicies /\ rp.loaded
        \/ rp.count = 0 /\ ~ rp.loaded

default_behavior_valid(s) == s.predicate.enforcement.defaultBehavior \in {"allow", "deny"}

\* Mutant: required points that were observed are taken to imply a loaded policy.
deployment_enforcing_unloaded(s) ==
    LET e == s.predicate.enforcement
    IN  /\ e.mode = "enforce"
        /\ default_behavior_valid(s)
        /\ Len(e.required) >= 1
        /\ ToSet(e.required) \subseteq ToSet(e.observed)

deployment_enforcing(s) ==
    LET e == s.predicate.enforcement
    IN  /\ runtime_policy_consistent(s)
        /\ s.predicate.runtimePolicy.loaded
        /\ s.predicate.runtimePolicy.count >= 1
        /\ e.mode = "enforce"
        /\ default_behavior_valid(s)
        /\ Len(e.required) >= 1
        /\ ToSet(e.required) \subseteq ToSet(e.observed)

\* Mutant: the end of the interval is excluded.
case_timestamps_exclusive(c) ==
    LET observed == ToSet(c.decision.observedAt) \cup ToSet(c.outcome.observedAt)
    IN  /\ CanonicalTime(c.startedAt) /\ CanonicalTime(c.completedAt)
        /\ c.decision.observedAt # <<>> /\ c.outcome.observedAt # <<>>
        /\ c.completedAt.clock - c.startedAt.clock \in 0 .. MaxCaseSeconds
        /\ \A t \in observed :
              CanonicalTime(t) /\ t.clock \in c.startedAt.clock .. c.completedAt.clock - 1

\* Both observations are present, canonical and inside a bounded interval.
case_timestamps_valid(c) ==
    LET observed == ToSet(c.decision.observedAt) \cup ToSet(c.outcome.observedAt)
    IN  /\ CanonicalTime(c.startedAt) /\ CanonicalTime(c.completedAt)
        /\ c.decision.observedAt # <<>> /\ c.outcome.observedAt # <<>>
        /\ c.completedAt.clock - c.startedAt.clock \in 0 .. MaxCaseSeconds
        /\ \A t \in observed :
              CanonicalTime(t) /\ t.clock \in c.startedAt.clock .. c.completedAt.clock

\* tr_descriptor: defined only when there is exactly one.
Claims(t, id) ==
    /\ Len(t.predicate.configuration) = 1
    /\ "caseId" \in DOMAIN t.predicate.configuration[1].annotations
    /\ t.predicate.configuration[1].annotations.caseId = id

\* Mutant: a set of statements in the place of the array comprehension.
case_test_results_once(b, c) ==
    {i \in test_result_statements(b) :
        Claims(b[i], c.id) /\ \A j \in 1 .. i - 1 : b[j] # b[i]}

case_test_results(b, c) == {i \in test_result_statements(b) : Claims(b[i], c.id)}

expected_annotation_keys(c) ==
    {"agentDigest", "caseId", "correlationId", "decisionState", "decisionVerdict",
     "outcomeState", "outcomeResult"}
        \cup (IF c.decision.state = "observed" THEN {"decisionDigest"} ELSE {})
        \cup (IF c.outcome.state = "verified" THEN {"resultArtifactDigest"} ELSE {})

\* Mutant: further annotations are tolerated.
tr_annotations_open(s, c, d) ==
    /\ expected_annotation_keys(c) \subseteq DOMAIN d.annotations
    /\ d.annotations.agentDigest = s.predicate.agent.artifactDigest
    /\ d.annotations.correlationId = c.correlationId
    /\ d.annotations.decisionState = c.decision.state
    /\ d.annotations.decisionVerdict = c.decision.verdict
    /\ d.annotations.outcomeState = c.outcome.state
    /\ d.annotations.outcomeResult = c.outcome.result
    /\ c.decision.state = "observed" =>
          c.decision.reference = <<d.annotations.decisionDigest>>
    /\ c.outcome.state = "verified" =>
          c.outcome.reference = <<d.annotations.resultArtifactDigest>>

tr_annotations_valid(s, c, d) ==
    /\ DOMAIN d.annotations = expected_annotation_keys(c)
    /\ d.annotations.agentDigest = s.predicate.agent.artifactDigest
    /\ d.annotations.correlationId = c.correlationId
    /\ d.annotations.decisionState = c.decision.state
    /\ d.annotations.decisionVerdict = c.decision.verdict
    /\ d.annotations.outcomeState = c.outcome.state
    /\ d.annotations.outcomeResult = c.outcome.result
    /\ \/ /\ c.decision.state = "observed"
          /\ c.decision.reference = <<d.annotations.decisionDigest>>
       \/ c.decision.state = "not-observed"
    /\ \/ /\ c.outcome.state = "verified"
          /\ c.outcome.reference = <<d.annotations.resultArtifactDigest>>
       \/ c.outcome.state = "unknown"

tr_result_profile_valid(c, p) ==
    /\ p.failedTests = <<>>
    /\ \/ /\ c.outcome.state = "verified"
          /\ p.result = "PASSED" /\ p.passedTests = <<c.id>> /\ p.warnedTests = <<>>
       \/ /\ c.outcome.state = "unknown"
          /\ p.result = "WARNED" /\ p.warnedTests = <<c.id>> /\ p.passedTests = <<>>

tr_url_valid(p) == p.url \in {"absent", "legal"}

\* Mutant: a test result is bound to its case by the case id alone.
tr_statement_by_id(s, c, t) ==
    /\ c.testResult.testId = c.id
    /\ t.type = StatementType
    /\ t.subject = s.subject
    /\ tr_result_profile_valid(c, t.predicate)
    /\ tr_url_valid(t.predicate)

tr_statement_valid(s, c, t) ==
    LET d == t.predicate.configuration[1]
    IN  /\ Sha256(t) = c.testResult.statementDigest
        /\ c.testResult.testId = c.id
        /\ t.type = StatementType
        /\ Len(t.subject) = 1
        /\ \E i \in DOMAIN s.subject : t.subject[1] = s.subject[i]
        /\ d.name = ConformanceDescriptor
        /\ d.digest = s.predicate.tool
        /\ tr_annotations_valid(s, c, d)
        /\ tr_result_profile_valid(c, t.predicate)
        /\ tr_url_valid(t.predicate)

linkage_valid(b, s, c) ==
    \E i \in case_test_results(b, c) :
        case_test_results(b, c) = {i} /\ tr_statement_valid(s, c, b[i])

case_admissible(b, s, c) ==
    /\ deployment_enforcing(s)
    /\ case_timestamps_valid(c)
    /\ c.decision.state = "observed"
    /\ c.outcome.state = "verified"
    /\ \/ /\ c.kind = "allowed-action"
          /\ c.decision.verdict = "allow" /\ c.outcome.result = "occurred"
       \/ /\ c.kind = "denied-action"
          /\ c.decision.verdict = "deny" /\ c.outcome.result = "blocked"
    /\ linkage_valid(b, s, c)

-------------------------------------------------------------------------------
(* Violations: one tag per reporting rule of the policy.                     *)

When(condition, tag) == IF condition THEN {tag} ELSE {}

DeploymentViolations(s) ==
    LET p == s.predicate
        subjects == ToSet(s.subject)
        cases == ToSet(p.cases)
    IN  UNION {
        When(s.type # StatementType, "statement type"),
        When("schemaVersion" \in p.illegal, "schema version"),
        When(~ required_root_keys_present(s), "missing core fields"),
        When(~ nested_core_shape_valid(s), "nested core shape"),
        When(~ valid_case_cardinality(s), "case cardinality"),
        When(~ controlled_tool_valid(s), "controlled tool"),
        When(~ adapter_valid(s), "adapter"),
        When(~ default_behavior_valid(s), "default behavior"),
        When(~ runtime_policy_consistent(s), "runtime policy facts"),
        When(Len(s.subject) # 1, "subject count"),
        When(\E sub \in subjects : ~ NamesAgent(sub, s), "subject name"),
        When(\E sub \in subjects : ~ DigestsAgent(sub, s), "subject digest"),
        When(~ (s.keys \subseteq allowed_root_keys), "unexpected field"),
        When(Cardinality({c.id : c \in cases}) # Len(p.cases), "duplicate case ids"),
        When(Cardinality({c.kind : c \in cases}) # Len(p.cases), "duplicate case kinds")}

\* Mutant: nothing reports a case that several test results claim.
CaseViolationsUnambiguous(b, s, c) ==
    LET positive == c.kind \in {"allowed-action", "denied-action"}
        trs == case_test_results(b, c)
    IN  UNION {
        When(c.kind = "adapter-bypass", "adapter bypass"),
        When(c.kind = "no-policy-loaded", "no policy loaded"),
        When(positive /\ ~ case_timestamps_valid(c), "case timestamps"),
        When(positive /\ ~ deployment_enforcing(s), "not enforcing"),
        When(positive /\ c.decision.state # "observed", "no observed decision"),
        When(positive /\ c.outcome.state # "verified", "outcome not verified"),
        When(trs = {}, "no test result"),
        When(\E i \in trs : trs = {i} /\ ~ tr_statement_valid(s, c, b[i]), "cross binding")}

CaseViolations(b, s, c) ==
    LET positive == c.kind \in {"allowed-action", "denied-action"}
        observed == c.decision.state = "observed"
        verified == c.outcome.state = "verified"
        trs == case_test_results(b, c)
    IN  UNION {
        When(c.kind = "adapter-bypass", "adapter bypass"),
        When(c.kind = "no-policy-loaded", "no policy loaded"),
        When(positive /\ ~ case_timestamps_valid(c), "case timestamps"),
        When(positive /\ ~ deployment_enforcing(s), "not enforcing"),
        When(positive /\ ~ observed, "no observed decision"),
        When(c.kind = "allowed-action" /\ observed /\ c.decision.verdict # "allow", "verdict"),
        When(c.kind = "denied-action" /\ observed /\ c.decision.verdict # "deny", "verdict"),
        When(positive /\ ~ verified, "outcome not verified"),
        When(c.kind = "allowed-action" /\ verified /\ c.outcome.result # "occurred", "outcome"),
        When(c.kind = "denied-action" /\ verified /\ c.outcome.result # "blocked", "outcome"),
        When(trs = {}, "no test result"),
        When(Cardinality(trs) > 1, "ambiguous test results"),
        When(\E i \in trs : trs = {i} /\ ~ tr_statement_valid(s, c, b[i]), "cross binding")}

agent_governance_violations(b) ==
    LET deployments == {b[i] : i \in deployment_statements(b)}
    IN  When(Cardinality(deployment_statements(b)) # 1, "deployment count")
            \cup (UNION {DeploymentViolations(s) : s \in deployments})
            \cup (UNION {UNION {CaseViolations(b, s, c) : c \in ToSet(s.predicate.cases)}
                           : s \in deployments})

-------------------------------------------------------------------------------
\* Admission is derived positively; the violations are only a further condition.
admissible_deployment(b, s) ==
    /\ deployment_envelope_valid(s)
    /\ valid_case_cardinality(s)
    /\ \A i \in DOMAIN s.predicate.cases : case_admissible(b, s, s.predicate.cases[i])

PositivelyAdmitted(b) ==
    \E i \in deployment_statements(b) :
        deployment_statements(b) = {i} /\ admissible_deployment(b, b[i])

allow(b) == PositivelyAdmitted(b) /\ agent_governance_violations(b) = {}
===============================================================================
