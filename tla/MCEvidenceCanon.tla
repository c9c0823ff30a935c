---------------------------- MODULE MCEvidenceCanon ----------------------------
(* Files with one case, valid or with one fact off, at and just past each    *)
(* bound; files that omit, add or lose something; and files with two cases.  *)
EXTENDS EvidenceCanon

At(second) == [clock |-> second, offset |-> 0, nanos |-> 0]

Seen(verdict) ==
    [state |-> "observed", verdict |-> verdict, reference |-> <<Sha256("decision")>>,
     observedAt |-> <<At(10)>>]
Unseen ==
    [state |-> "not-observed", verdict |-> "unknown", reference |-> <<>>, observedAt |-> <<>>]
Checked(result) ==
    [state |-> "verified", result |-> result, reference |-> <<Sha256("result")>>,
     observedAt |-> <<At(11)>>]
Unchecked ==
    [state |-> "unknown", result |-> "unknown", reference |-> <<>>, observedAt |-> <<>>]

Case(id, kind, decision, outcome, g) ==
    [id |-> id, kind |-> kind, correlationId |-> Sha256(id),
     startedAt |-> At(10), completedAt |-> At(11), decision |-> decision, outcome |-> outcome,
     testResult |-> [testId |-> id, statementDigest |-> g]]

Doc(cases) ==
    [agent |-> [name |-> "agent", artifactDigest |-> Sha256("agent")],
     runtime |-> [digest |-> Sha256("runtime")],
     adapter |-> [runtimeDigest |-> Sha256("runtime")],
     runtimePolicy |-> [count |-> 1, loaded |-> TRUE, digest |-> Sha256("policy")],
     enforcement |-> [mode |-> "enforce", defaultBehavior |-> "deny",
                      required |-> <<1, 2>>, observed |-> <<2, 1>>],
     tool |-> controlled_tool_digest,
     cases |-> cases,
     extensions |-> <<[layout |-> "other", legal |-> TRUE]>>,
     illegal |-> {},
     indented |-> MaxBytes]

\* The statement digest is known only to files that were completed.
File(doc, absent) ==
    [bytes |-> MaxBytes, intact |-> TRUE, absent |-> absent, unknown |-> {}, doc |-> doc]
Incomplete(doc) == File(doc, {"statementDigest"})

Single(kind, decision, outcome) == Doc(<<Case(1, kind, decision, outcome, NoDigest)>>)
Base == Single("allowed-action", Seen("allow"), Checked("occurred"))

KindDocs ==
    {Single(k, d, o) : k \in Kinds \cup {"other"},
                       d \in {Seen("allow"), Seen("deny"), Unseen},
                       o \in {Checked("occurred"), Checked("blocked"), Unchecked}}

FactDocs ==
    {[Base EXCEPT !.runtimePolicy.count = n] : n \in {0, MaxPolicies, MaxPolicies + 1}}
        \cup {[Base EXCEPT !.runtimePolicy.loaded = FALSE, !.runtimePolicy.count = 0],
              [Base EXCEPT !.tool = Sha256("other")],
              [Base EXCEPT !.enforcement.mode = "monitor"],
              [Base EXCEPT !.enforcement.observed = <<>>],
              [Base EXCEPT !.enforcement.required = <<>>],
              [Base EXCEPT !.enforcement.required = <<1, 2, 3>>],
              [Base EXCEPT !.enforcement.defaultBehavior = "unknown"],
              [Base EXCEPT !.adapter.runtimeDigest = Sha256("other")],
              [Base EXCEPT !.extensions = <<>>],
              [Base EXCEPT !.extensions[1].legal = FALSE],
              [Base EXCEPT !.illegal = {"grammar"}],
              [Base EXCEPT !.indented = MaxBytes + 1],
              [Base EXCEPT !.cases[1].testResult.testId = 2],
              [Base EXCEPT !.cases[1].startedAt.nanos = 1]}
        \cup {[Base EXCEPT !.cases[1].completedAt = At(10 + n)] :
                 n \in {0, MaxCaseSeconds, MaxCaseSeconds + 1}}
        \cup {[Base EXCEPT !.cases[1].outcome.observedAt = <<At(t)>>] : t \in {9, 12}}

\* A bypassed case is where a missing "observed" would pass unnoticed.
Bypass == [Single("adapter-bypass", Unseen, Checked("occurred")) EXCEPT !.enforcement.required = <<1>>]

FilesWithFaults ==
    {[Incomplete(Base) EXCEPT !.bytes = MaxBytes + 1], [Incomplete(Base) EXCEPT !.intact = FALSE],
     [Incomplete(Base) EXCEPT !.unknown = {"compliant"}]}
        \cup {File(d, {m, "statementDigest"}) :
                 d \in {Base, Bypass}, m \in {"loaded", "count", "observed"}}

Pair(x, y) == Doc(<<Case(1, x, Seen("allow"), Checked("occurred"), Sha256("tr1")),
                    Case(2, y, Seen("deny"), Checked("blocked"), Sha256("tr2"))>>)

CompletedFiles ==
    {File(Pair("allowed-action", "denied-action"), {}),
     File(Pair("allowed-action", "allowed-action"), {}),
     File([Pair("allowed-action", "denied-action") EXCEPT !.cases[2].id = 1,
                                                          !.cases[2].testResult.testId = 1], {}),
     File(Bypass, {}),
     File(Doc(<<Case(1, "allowed-action", Seen("allow"), Checked("occurred"), Sha256("tr"))>>), {"count"}),
     File(Doc(<<Case(1, "allowed-action", Seen("allow"), Checked("occurred"), Sha256("tr"))>>), {})}

MCStated == {Incomplete(d) : d \in KindDocs \cup FactDocs} \cup FilesWithFaults \cup CompletedFiles
===============================================================================
