------------------------------ MODULE MCPipeline ------------------------------
(* One evidence file, written by up to two runs of its adapter, and files of *)
(* up to three statements: enough for a stale statement of the first run to  *)
(* meet those of the second, for a duplicate, and for two deployments.       *)
EXTENDS Pipeline

Spec1(id, kind, purpose, loaded, bypass, verified) ==
    [id |-> id, kind |-> kind, purpose |-> purpose, policy_loaded |-> loaded,
     bypass |-> bypass, outcome_verified |-> verified, start |-> 2 * id]

\* The cases of the adapters' main; its fifth, an unverified outcome, is below
\* with an id that another run also claims.
FixtureSpecs ==
    {Spec1(1, "allowed-action", "sanctioned-write", TRUE, FALSE, TRUE),
     Spec1(2, "denied-action", "blocked-write", TRUE, FALSE, TRUE),
     Spec1(3, "adapter-bypass", "none", TRUE, TRUE, TRUE),
     Spec1(4, "no-policy-loaded", "sanctioned-write", FALSE, FALSE, TRUE)}

\* Cases that claim id 1 with other facts, or whose label contradicts them.
OtherSpecs ==
    {Spec1(1, "allowed-action", "sanctioned-write", TRUE, FALSE, FALSE),
     Spec1(1, "allowed-action", "sanctioned-write", FALSE, FALSE, TRUE),
     Spec1(1, "allowed-action", "sanctioned-write", TRUE, TRUE, TRUE),
     Spec1(2, "denied-action", "sanctioned-write", TRUE, FALSE, TRUE)}

MCSpecs == FixtureSpecs \cup OtherSpecs

Rule(priority, equals, action) == [priority |-> priority, equals |-> equals, action |-> action]

\* runtime_policy.json, and a document in which a later, stronger rule inverts it.
FixturePolicy ==
    [rules |-> <<Rule(10, <<"sanctioned-write">>, "allow"), Rule(10, <<"blocked-write">>, "deny")>>,
     default_action |-> "deny"]
InvertedPolicy ==
    [rules |-> <<Rule(10, <<"sanctioned-write">>, "allow"), Rule(20, <<>>, "deny")>>,
     default_action |-> "allow"]

\* One of the two throughout, or replaced after its digest was taken.
MCPolicyReads ==
    {[digested |-> FixturePolicy, loaded |-> FixturePolicy],
     [digested |-> InvertedPolicy, loaded |-> InvertedPolicy],
     [digested |-> FixturePolicy, loaded |-> InvertedPolicy]}
===============================================================================
