----------------------------- MODULE MCGateBundle -----------------------------
(* Three drafts: an allowed case, a denied case whose outcome was not looked *)
(* at, and one deployment with both an allowed and a denied case.            *)
EXTENDS GateBundle

CaseSpec(id, kind, purpose, verified) ==
    [id |-> id, kind |-> kind, purpose |-> purpose, policy_loaded |-> TRUE,
     bypass |-> FALSE, outcome_verified |-> verified, start |-> 2 * id]

Policy ==
    [rules |-> <<[priority |-> 10, equals |-> <<"sanctioned-write">>, action |-> "allow"]>>,
     default_action |-> "deny"]

Built(spec) ==
    Value(BuildCase(EvidenceFile(run_case(spec, [policy_digest |-> Sha256(Policy)], <<Policy>>,
                                          invoke_tool(spec, <<Policy>>)))))

Allowed == Built(CaseSpec(1, "allowed-action", "sanctioned-write", TRUE))
Denied == Built(CaseSpec(2, "denied-action", "blocked-write", TRUE))
Unverified == Built(CaseSpec(2, "denied-action", "blocked-write", FALSE))

\* The two cases in one predicate, as the end-to-end test combines them.
Both ==
    LET e == Value(Generate([Allowed.evidence EXCEPT
                                 !.cases = Denied.evidence.cases \o @]))
    IN  [deployment |-> Value(BuildDeploymentStatement(e, e)),
         results |-> <<Allowed.testResult, Denied.testResult>>]

Single(built) == [deployment |-> built.deployment, results |-> <<built.testResult>>]

MCDrafts == {Single(Allowed), Single(Unverified), Both}

\* An attestation of another type, and the test result of another case.
Provenance ==
    [type |-> StatementType, predicateType |-> "slsa-provenance",
     subject |-> Allowed.deployment.subject, keys |-> {"buildDefinition"}, predicate |-> <<>>]
Unrelated == Built(CaseSpec(3, "allowed-action", "sanctioned-write", TRUE)).testResult

MCStrangers == {Provenance, Unrelated}
===============================================================================
