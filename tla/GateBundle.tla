------------------------------ MODULE GateBundle ------------------------------
(***************************************************************************)
(* The admission gate against statements it did not produce.  "This gate   *)
(* evaluates already-signed statements", and a trusted signer may sign a   *)
(* hand-built predicate: here a signer takes statements the helper built   *)
(* and alters one member of the deployment statement, or one of a test     *)
(* result, bound by its digest or not, or derives the test results from an *)
(* altered predicate.  The attestation file then grows one line at a time, *)
(* from those statements and others that have nothing to do with them.     *)
(***************************************************************************)
EXTENDS Producer, AdmissionGate

CONSTANTS Drafts,     \* [deployment, results] as the helper built them
          Strangers,  \* further verified statements that may be in the file
          MaxBundle   \* bound: statements in the attestation file

ASSUME GateBundleAssumption == MaxBundle \in Nat

\* The members by which a statement of either type is represented.
DeploymentShape(s) ==
    /\ HasMembers(s, {"type", "predicateType", "subject", "keys", "predicate"})
    /\ s.predicateType = DeploymentType
    /\ IsSequence(s.subject)
    /\ \A i \in DOMAIN s.subject : HasMembers(s.subject[i], {"name", "digest"})
    /\ "cases" \in DOMAIN s.predicate /\ IsSequence(s.predicate.cases)

ResultShape(t) ==
    /\ HasMembers(t, {"type", "predicateType", "subject", "keys", "predicate"})
    /\ t.predicateType = TestResultType
    /\ IsSequence(t.subject)
    /\ HasMembers(t.predicate, {"configuration", "result", "passedTests", "warnedTests",
                                "failedTests", "url"})
    /\ IsSequence(t.predicate.configuration)
    /\ \A i \in DOMAIN t.predicate.configuration :
          LET d == t.predicate.configuration[i]
          IN  /\ HasMembers(d, {"name", "digest", "annotations"})
              /\ HasMembers(d.annotations, DOMAIN d.annotations)

\* Nothing is assumed of what the members hold.
StatementShape(s) ==
    /\ s.predicateType = DeploymentType => DeploymentShape(s)
    /\ s.predicateType = TestResultType => ResultShape(s)

ASSUME ShapeAssumption ==
    /\ \A d \in Drafts : /\ DeploymentShape(d.deployment) /\ d.deployment.subject # <<>>
                         /\ \A i \in DOMAIN d.results : ResultShape(d.results[i])
    /\ \A s \in Strangers : StatementShape(s)

VARIABLES deployment,  \* the deployment statement, as signed
          results,     \* the test-result statement of each case, as signed
          altered,     \* whether the signer has altered something
          bundle       \* the attestation file

vars == <<deployment, results, altered, bundle>>

Init ==
    /\ \E d \in Drafts : deployment = d.deployment /\ results = d.results
    /\ altered = FALSE
    /\ bundle = <<>>

-------------------------------------------------------------------------------
(* Alterations, one member at a time.                                        *)

Other == Sha256("other")
Upper(g) == [g EXCEPT !.form = "upper"]
Late(c) == At(c.completedAt.clock + 1)

ObservationVariants(o, c) ==
    {[o EXCEPT !.reference = r] : r \in {<<>>, <<Placeholder>>}}
        \cup {[o EXCEPT !.observedAt = t] :
                 t \in {<<>>, <<c.completedAt>>, <<Late(c)>>,
                        <<[c.startedAt EXCEPT !.offset = 1]>>}}

CaseVariants(c) ==
    {[c EXCEPT !.kind = k] : k \in Kinds}
        \cup {[c EXCEPT !.decision.state = x] : x \in {"observed", "not-observed"}}
        \cup {[c EXCEPT !.decision.verdict = x] : x \in {"allow", "deny", "unknown"}}
        \cup {[c EXCEPT !.outcome.state = x] : x \in {"verified", "unknown"}}
        \cup {[c EXCEPT !.outcome.result = x] : x \in {"occurred", "blocked", "unknown"}}
        \cup {[c EXCEPT !.decision = o] : o \in ObservationVariants(c.decision, c)}
        \cup {[c EXCEPT !.outcome = o] : o \in ObservationVariants(c.outcome, c)}
        \cup {[c EXCEPT !.completedAt.clock = c.startedAt.clock + n] :
                 n \in {-1, 0, MaxCaseSeconds, MaxCaseSeconds + 1}}
        \cup {[c EXCEPT !.id = 9], [c EXCEPT !.testResult.testId = 9],
              [c EXCEPT !.correlationId = Sha256(9)],
              [c EXCEPT !.testResult.statementDigest = Placeholder]}

ReplaceCase(p, i, c) == [p EXCEPT !.cases[i] = c]

PredicateVariants(p) ==
    {[p EXCEPT !.illegal = {m}] : m \in {"grammar", "schemaVersion", "contractVersion", "toolName"}}
        \cup {[p EXCEPT !.agent.name = "other"], [p EXCEPT !.agent.artifactDigest = Upper(@)],
              [p EXCEPT !.adapter.runtimeDigest = Other],
              [p EXCEPT !.tool = Other], [p EXCEPT !.tool = Upper(@)]}
        \cup {[p EXCEPT !.runtimePolicy.count = n] : n \in {0, MaxPolicies, MaxPolicies + 1}}
        \cup {[p EXCEPT !.runtimePolicy.loaded = ~ @],
              [p EXCEPT !.runtimePolicy.loaded = FALSE, !.runtimePolicy.count = 0]}
        \cup {[p EXCEPT !.enforcement.mode = "monitor"],
              [p EXCEPT !.enforcement.defaultBehavior = "unknown"]}
        \cup {[p EXCEPT !.enforcement.required = x] : x \in {<<>>, <<1, 2>>, <<1, 1>>}}
        \cup {[p EXCEPT !.enforcement.observed = x] : x \in {<<>>, <<2>>, <<1, 1>>, <<1, 2>>}}
        \cup {[p EXCEPT !.cases = <<>>], [p EXCEPT !.cases = Append(@, @[1])],
              [p EXCEPT !.cases = Append(@, [@[1] EXCEPT !.id = 8])]}
        \cup UNION {{ReplaceCase(p, i, c) : c \in CaseVariants(p.cases[i])} : i \in DOMAIN p.cases}

DeploymentVariants(s) ==
    {[s EXCEPT !.type = "other"]}
        \cup {[s EXCEPT !.subject = x] :
                 x \in {<<>>, s.subject \o s.subject, <<[s.subject[1] EXCEPT !.name = "other"]>>,
                        <<[s.subject[1] EXCEPT !.digest = Other]>>}}
        \cup {[s EXCEPT !.keys = @ \cup {"compliant"}], [s EXCEPT !.keys = @ \ {"audit"}]}
        \cup {[s EXCEPT !.predicate = p] : p \in PredicateVariants(s.predicate)}

AnnotationVariants(a) ==
    {[a EXCEPT !.caseId = 9], [a EXCEPT !.agentDigest = Other],
     [a EXCEPT !.correlationId = Sha256(9)],
     [a EXCEPT !.decisionVerdict = "deny"], [a EXCEPT !.outcomeResult = "blocked"],
     [k \in DOMAIN a \cup {"compliant"} |-> IF k \in DOMAIN a THEN a[k] ELSE "yes"]}
        \cup {[k \in DOMAIN a \ {gone} |-> a[k]] : gone \in DOMAIN a}

ResultVariants(t) ==
    LET d == t.predicate.configuration[1]
    IN  {[t EXCEPT !.type = "other"],
         [t EXCEPT !.subject[1].name = "other"], [t EXCEPT !.subject = @ \o @],
         [t EXCEPT !.keys = @ \cup {"compliant"}],
         [t EXCEPT !.predicate.configuration = <<>>],
         [t EXCEPT !.predicate.configuration = @ \o @],
         [t EXCEPT !.predicate.configuration[1].name = "other"],
         [t EXCEPT !.predicate.configuration[1].digest = Other],
         [t EXCEPT !.predicate.result = "WARNED"],
         [t EXCEPT !.predicate.passedTests = <<>>],
         [t EXCEPT !.predicate.failedTests = <<9>>],
         [t EXCEPT !.predicate.url = "legal"], [t EXCEPT !.predicate.url = "illegal"]}
            \cup {[t EXCEPT !.predicate.configuration[1].annotations = a] :
                     a \in AnnotationVariants(d.annotations)}

-------------------------------------------------------------------------------
AlterDeployment ==
    /\ bundle = <<>> /\ ~ altered
    /\ deployment' \in DeploymentVariants(deployment)
    /\ altered' = TRUE
    /\ UNCHANGED <<results, bundle>>

\* The deployment that refers to the results by their digests.
Bound(d, rs) ==
    [d EXCEPT !.predicate.cases = [i \in DOMAIN @ |->
        [@[i] EXCEPT !.testResult.statementDigest = Sha256(rs[i])]]]

\* An altered test result takes the place of one, bound into that case or not.
AlterResult ==
    /\ bundle = <<>> /\ ~ altered
    /\ \E i \in DOMAIN results, t \in UNION {ResultVariants(results[j]) : j \in DOMAIN results} :
          results' = [results EXCEPT ![i] = t]
    /\ deployment' \in {deployment, Bound(deployment, results')}
    /\ altered' = TRUE
    /\ UNCHANGED bundle

\* The predicate is altered first, and its test results are derived from that.
AlterBoth ==
    /\ bundle = <<>> /\ ~ altered
    /\ \E p \in PredicateVariants(deployment.predicate) :
          LET rs == [i \in DOMAIN p.cases |-> BuildTestResultStatement(p, p.cases[i])]
          IN  /\ \A i \in DOMAIN rs : IsOk(rs[i])
              /\ results' = [i \in DOMAIN rs |-> Value(rs[i])]
              /\ deployment' = Bound([deployment EXCEPT !.subject = <<AgentSubject(p)>>,
                                                        !.predicate = p], results')
    /\ altered' = TRUE
    /\ UNCHANGED bundle

Shelf == {deployment} \cup ToSet(results) \cup Strangers

Deliver ==
    /\ Len(bundle) < MaxBundle
    /\ \E s \in Shelf : bundle' = Append(bundle, s)
    /\ UNCHANGED <<deployment, results, altered>>

Next == AlterDeployment \/ AlterResult \/ AlterBoth \/ Deliver

Spec == Init /\ [][Next]_vars

-------------------------------------------------------------------------------
\* The observed decision and the verified outcome agree with the kind of a case.
FactsProveKind(c) ==
    \/ c.kind = "allowed-action" /\ c.decision.verdict = "allow" /\ c.outcome.result = "occurred"
    \/ c.kind = "denied-action" /\ c.decision.verdict = "deny" /\ c.outcome.result = "blocked"

\* The one test result of a case is the one that the signing helper builds from
\* the facts of the deployment statement, its free url and root members apart.
OneFaithfulResult(b, p, c) ==
    \E j \in DOMAIN b :
        /\ b[j].predicateType = TestResultType
        /\ [b[j] EXCEPT !.predicate.url = "absent", !.keys = {"configuration"}]
              = TestResultStatement(p, c)
        /\ c.testResult.statementDigest = Sha256(b[j])
        /\ \A k \in DOMAIN b \ {j} :
              b[k].predicateType = TestResultType => ~ Claims(b[k], c.id)

WarrantedBy(b, s) ==
    LET p == s.predicate
    IN  /\ s.subject = <<AgentSubject(p)>>
        /\ p.runtimePolicy.loaded /\ p.enforcement.mode = "enforce"
        /\ p.enforcement.required # <<>>
        /\ ToSet(p.enforcement.required) \subseteq ToSet(p.enforcement.observed)
        /\ Distinct(p.cases, LAMBDA c : c.id) /\ Distinct(p.cases, LAMBDA c : c.kind)
        /\ p.cases # <<>>
        /\ \A i \in DOMAIN p.cases :
              FactsProveKind(p.cases[i]) /\ OneFaithfulResult(b, p, p.cases[i])

(***************************************************************************)
(* The gate admits only a file with one deployment statement, all of whose *)
(* cases prove a loaded, enforcing, exercised control, and each of whose   *)
(* cases is claimed by exactly one test result, which is the statement the *)
(* Go signing helper derives from those very facts: whatever a signer      *)
(* alters in either statement, consistently or not, the Rego rules pin     *)
(* every member that BuildTestResultStatement writes except the url, and   *)
(* leave it free only to add further root members.                         *)
(***************************************************************************)
AdmittedIsWarranted ==
    allow(bundle) =>
        \E i \in DOMAIN bundle :
            /\ bundle[i].predicateType = DeploymentType
            /\ \A j \in DOMAIN bundle \ {i} : bundle[j].predicateType # DeploymentType
            /\ WarrantedBy(bundle, bundle[i])

(***************************************************************************)
(* The positive derivation and the violations are two accounts of one      *)
(* decision: a denial is always attributed to some violation, and the only *)
(* violations that add to the positive derivation are the duplicate ids    *)
(* and kinds, which it does not look for.                                  *)
(***************************************************************************)
DenialsAttributed ==
    LET v == agent_governance_violations(bundle)
    IN  IF PositivelyAdmitted(bundle)
        THEN v \subseteq {"duplicate case ids", "duplicate case kinds"}
        ELSE v # {}

ClaimsCaseOf(s, b) ==
    /\ s.predicateType = TestResultType
    /\ \E d \in deployment_statements(b) :
          \E c \in ToSet(b[d].predicate.cases) : Claims(s, c.id)

(***************************************************************************)
(* An admitted file that grows by one verified statement stays admitted    *)
(* exactly if the newcomer is no deployment statement and claims none of   *)
(* the cases: an ambiguity, a second delivery of the very same statement   *)
(* included, is never resolved in favour of one candidate, and an          *)
(* unrelated attestation never gets in the way.                            *)
(***************************************************************************)
AmbiguityRevokes ==
    [][allow(bundle) /\ Len(bundle') > Len(bundle) =>
          LET s == bundle'[Len(bundle')]
          IN  allow(bundle') =
                 (s.predicateType # DeploymentType /\ ~ ClaimsCaseOf(s, bundle))]_bundle
===============================================================================
