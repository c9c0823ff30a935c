------------------------------- MODULE Producer -------------------------------
(***************************************************************************)
(* The fixture adapters: the toy runtime (adapters/non-agt/toy_runtime.py) *)
(* and the evidence that run_case (adapters/non-agt/producer.py, and line  *)
(* for line adapters/agt/producer.py) records of one conformance case.     *)
(*                                                                         *)
(* A case specification is                                                 *)
(*   [id, kind, purpose, policy_loaded, bypass, outcome_verified, start]   *)
(* and a policy document [rules, default_action], a rule being             *)
(*   [priority, equals, action]                                            *)
(* where equals is <<>> for a rule with no field to match.                 *)
(*                                                                         *)
(* What happened in a case is its truth                                    *)
(*   [loaded, verdict, marker]                                             *)
(* whether a policy was loaded, the verdict tool.pre returned (<<>> when   *)
(* it was bypassed), and whether the controlled tool wrote its marker.     *)
(***************************************************************************)
EXTENDS Evidence

ToolPre == 1   \* INTERVENTION_POINT

Matches(rule, purpose) == rule.equals \in {<<>>, <<purpose>>}

default_behavior(docs) == IF docs = <<>> THEN "allow" ELSE docs[1].default_action

\* The first matching rule in the order of a stable sort by falling priority.
decide(docs, purpose) ==
    LET rules == FlattenSeq([i \in DOMAIN docs |-> docs[i].rules])
        matching == {i \in DOMAIN rules : Matches(rules[i], purpose)}
        first(i) == \A j \in matching :
                        \/ rules[i].priority > rules[j].priority
                        \/ rules[i].priority = rules[j].priority /\ i <= j
    IN  IF matching = {}
        THEN default_behavior(docs)
        ELSE rules[CHOOSE i \in matching : first(i)].action

\* The controlled tool runs on an allow verdict, or when the adapter is bypassed.
invoke_tool(spec, docs) ==
    IF spec.bypass
    THEN [loaded |-> docs # <<>>, verdict |-> <<>>, marker |-> TRUE]
    ELSE LET decided == decide(docs, spec.purpose)
         IN  [loaded |-> docs # <<>>, verdict |-> <<decided>>, marker |-> decided = "allow"]

At(second) == [clock |-> second, offset |-> 0, nanos |-> 0]

\* The digest recorded for a loaded policy is the one main took of the policy
\* file before the first case; run_case reads the file again to run it.  The
\* record of an empty set of policies stands in when none is loaded.
PolicyDigest(spec, shared) == IF spec.policy_loaded THEN shared.policy_digest ELSE Sha256(<<>>)

DecisionOf(spec, shared, truth) ==
    IF truth.verdict = <<>>
    THEN [state |-> "not-observed", verdict |-> "unknown",
          reference |-> <<>>, observedAt |-> <<>>]
    ELSE [state |-> "observed", verdict |-> truth.verdict[1],
          reference |-> <<Sha256([caseId |-> spec.id, verdict |-> truth.verdict[1],
                                  policyArtifactDigest |-> PolicyDigest(spec, shared)])>>,
          observedAt |-> <<At(spec.start)>>]

\* An outcome the harness does not look at stays unknown.
OutcomeOf(spec, truth) ==
    IF spec.outcome_verified
    THEN [state |-> "verified", result |-> IF truth.marker THEN "occurred" ELSE "blocked",
          reference |-> <<Sha256([caseId |-> spec.id, markerPresent |-> truth.marker])>>,
          observedAt |-> <<At(spec.start + 1)>>]
    ELSE [state |-> "unknown", result |-> "unknown",
          reference |-> <<>>, observedAt |-> <<>>]

CaseOf(spec, shared, truth) ==
    [id |-> spec.id, kind |-> spec.kind, correlationId |-> Sha256(spec.id),
     startedAt |-> At(spec.start), completedAt |-> At(spec.start + 1),
     decision |-> DecisionOf(spec, shared, truth), outcome |-> OutcomeOf(spec, truth),
     testResult |-> [testId |-> spec.id, statementDigest |-> NoDigest]]

\* The evidence of one case.  A loaded policy is recorded with the default
\* "deny", whatever the document says; without one, the engine's own default.
run_case(spec, shared, docs, truth) ==
    [agent |-> [name |-> "agent-image", artifactDigest |-> Sha256("agent-image.txt")],
     runtime |-> [digest |-> Sha256("runtime")],
     adapter |-> [runtimeDigest |-> Sha256("runtime")],
     runtimePolicy |-> [count |-> IF spec.policy_loaded THEN 1 ELSE 0,
                        loaded |-> spec.policy_loaded,
                        digest |-> PolicyDigest(spec, shared)],
     enforcement |-> [mode |-> "enforce",
                      defaultBehavior |-> IF spec.policy_loaded THEN "deny"
                                          ELSE default_behavior(docs),
                      required |-> <<ToolPre>>,
                      observed |-> IF spec.bypass THEN <<>> ELSE <<ToolPre>>],
     tool |-> Sha256("write_marker.py"),
     cases |-> <<CaseOf(spec, shared, truth)>>,
     extensions |-> <<>>,
     illegal |-> {},
     indented |-> 1]

\* The file holds the evidence, without the digest that is bound at signing.
EvidenceFile(doc) ==
    [bytes |-> 1, intact |-> TRUE, absent |-> {"statementDigest"}, unknown |-> {}, doc |-> doc]

\* A file whose rewrite has begun and not ended: a prefix is not a JSON document.
TornFile(doc) == [EvidenceFile(doc) EXCEPT !.intact = FALSE]
===============================================================================
