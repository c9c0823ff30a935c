------------------------------- MODULE Evidence -------------------------------
(***************************************************************************)
(* The evidence model of internal/evidence/deployment.go: the companion's  *)
(* path from the bytes of an evidence file to a deployment predicate body, *)
(*                                                                         *)
(*     Parse  ->  Normalize  ->  Validate  ->  Generate.                   *)
(*                                                                         *)
(* A document is a record of the members some rule relates to another      *)
(* member.  The members only ever checked one by one against a constant or *)
(* a grammar are represented by the set "illegal" of those that fail it:   *)
(* "schemaVersion", "contractVersion", "toolName" (name and action class), *)
(* and "grammar" for all the rest (names, URIs, ids, identity, audit,      *)
(* fixture).  Values that have several encodings keep them:                *)
(*                                                                         *)
(*   digest     [of, form]: what it is the SHA-256 of, and how the hex is  *)
(*              written ("lower", "upper"; "none" is the empty string)     *)
(*   timestamp  [clock, offset, nanos]: the wall clock of the zone, the    *)
(*              zone's offset from UTC, and the fraction of the second     *)
(*   optional   <<>> when the member is omitted, <<value>> when present    *)
(*                                                                         *)
(* Identifiers and intervention points are integers, ordered as the        *)
(* strings are.  A fallible operator returns Err or Ok(value).             *)
(***************************************************************************)
EXTENDS Integers, Sequences, FiniteSets, SequencesExt

CONSTANTS MaxBytes,        \* AgentGovernanceMaxPredicateBytes (65536)
          MaxPolicies,     \* 64
          MaxPoints,       \* 32
          MaxCases,        \* 4
          MaxCaseSeconds   \* agentGovernanceMaxCaseDuration (300 s)

ASSUME BoundsAssumption ==
    {MaxBytes, MaxPolicies, MaxPoints, MaxCases, MaxCaseSeconds} \subseteq Nat \ {0}

Err == <<>>
Ok(x) == <<x>>
IsOk(r) == r # Err
Value(r) == r[1]

Kinds == {"allowed-action", "denied-action", "adapter-bypass", "no-policy-loaded"}

\* agentGovernanceCaseKindOrder, with any unknown kind after the known ones.
KindOrder(kind) ==
    CASE kind = "allowed-action"   -> 0
      [] kind = "denied-action"    -> 1
      [] kind = "adapter-bypass"   -> 2
      [] kind = "no-policy-loaded" -> 3
      [] OTHER                     -> 4

-------------------------------------------------------------------------------
(* Digests and timestamps.                                                   *)

\* SHA-256 is taken to be collision free: a digest is what it is a digest of.
Sha256(x) == [of |-> <<x>>, form |-> "lower"]
NoDigest == [of |-> <<>>, form |-> "none"]
Placeholder == [of |-> <<>>, form |-> "lower"]

CanonicalDigest(g) == g.form = "lower"
LooseForms == {"lower", "upper"}
NormalizeDigest(g) == [g EXCEPT !.form = "lower"]

CanonicalTime(t) == t.offset = 0 /\ t.nanos = 0
WholeSecond(t) == t.nanos = 0
NormalizeTime(t) == [clock |-> t.clock - t.offset, offset |-> 0, nanos |-> 0]

Each(opt, Op(_)) == [i \in DOMAIN opt |-> Op(opt[i])]

-------------------------------------------------------------------------------
(* The members of a document, as the structs of the code declare them, with  *)
(* nothing said of what they hold but for what is ordered or reckoned with.  *)

HasMembers(r, members) == r = [m \in members |-> r[m]]
IsSequence(q) == q \in Seq(ToSet(q))
IsOptional(q) == IsSequence(q) /\ Len(q) <= 1

DigestShape(g) == HasMembers(g, {"of", "form"})
TimeShape(t) == HasMembers(t, {"clock", "offset", "nanos"}) /\ {t.clock, t.offset} \subseteq Int

ObservationShape(o, finding) ==
    /\ HasMembers(o, {"state", finding, "reference", "observedAt"})
    /\ IsOptional(o.reference) /\ IsOptional(o.observedAt)
    /\ \A i \in DOMAIN o.reference : DigestShape(o.reference[i])
    /\ \A i \in DOMAIN o.observedAt : TimeShape(o.observedAt[i])

CaseShape(c) ==
    /\ HasMembers(c, {"id", "kind", "correlationId", "startedAt", "completedAt",
                      "decision", "outcome", "testResult"})
    /\ c.id \in Int
    /\ DigestShape(c.correlationId)
    /\ TimeShape(c.startedAt) /\ TimeShape(c.completedAt)
    /\ ObservationShape(c.decision, "verdict") /\ ObservationShape(c.outcome, "result")
    /\ HasMembers(c.testResult, {"testId", "statementDigest"})
    /\ DigestShape(c.testResult.statementDigest)

DocumentShape(d) ==
    /\ HasMembers(d, {"agent", "runtime", "adapter", "runtimePolicy", "enforcement", "tool",
                      "cases", "extensions", "illegal", "indented"})
    /\ HasMembers(d.agent, {"name", "artifactDigest"}) /\ DigestShape(d.agent.artifactDigest)
    /\ HasMembers(d.runtime, {"digest"}) /\ DigestShape(d.runtime.digest)
    /\ HasMembers(d.adapter, {"runtimeDigest"}) /\ DigestShape(d.adapter.runtimeDigest)
    /\ HasMembers(d.runtimePolicy, {"count", "loaded", "digest"})
    /\ d.runtimePolicy.count \in Int /\ d.runtimePolicy.loaded \in BOOLEAN
    /\ DigestShape(d.runtimePolicy.digest)
    /\ HasMembers(d.enforcement, {"mode", "defaultBehavior", "required", "observed"})
    /\ {d.enforcement.required, d.enforcement.observed} \subseteq Seq(Int)
    /\ DigestShape(d.tool)
    /\ IsSequence(d.cases) /\ \A i \in DOMAIN d.cases : CaseShape(d.cases[i])
    /\ IsSequence(d.extensions)
    /\ \A i \in DOMAIN d.extensions : HasMembers(d.extensions[i], {"layout", "legal"})

FileShape(f) ==
    /\ HasMembers(f, {"bytes", "intact", "absent", "unknown", "doc"})
    /\ DocumentShape(f.doc)

-------------------------------------------------------------------------------
(* Parse: what the strict decoder makes of a file.  A file is                *)
(*   [bytes, intact, absent, unknown, doc]                                   *)
(* its length, whether it is one complete JSON document, the required        *)
(* members it omits, the unknown members it carries, and the document that   *)
(* the members it does carry state.                                          *)

\* encoding/json leaves a member that the file omits at its zero value.
ZeroFill(doc, absent) ==
    [doc EXCEPT
        !.runtimePolicy.loaded = IF "loaded" \in absent THEN FALSE ELSE @,
        !.runtimePolicy.count = IF "count" \in absent THEN 0 ELSE @,
        !.enforcement.observed = IF "observed" \in absent THEN <<>> ELSE @,
        !.cases = [i \in DOMAIN @ |->
            IF "statementDigest" \in absent
            THEN [@[i] EXCEPT !.testResult.statementDigest = NoDigest]
            ELSE @[i]]]

\* Only the digest that the signing helper binds later may be missing.
DeferredMembers == {"statementDigest"}

\* Mutant: every omitted member is left to the decoder's zero values.
ParseWithoutPresence(f) ==
    IF f.bytes <= MaxBytes /\ f.intact /\ f.unknown = {}
    THEN Ok(ZeroFill(f.doc, f.absent))
    ELSE Err

Parse(f) ==
    IF /\ f.bytes <= MaxBytes
       /\ f.intact
       /\ f.absent \subseteq DeferredMembers
       /\ f.unknown = {}
    THEN Ok(ZeroFill(f.doc, f.absent))
    ELSE Err

-------------------------------------------------------------------------------
(* Normalize                                                                 *)

\* How the digests of a case, and of a document, are written.
OptionalForms(reference) == {reference[i].form : i \in DOMAIN reference}

CaseForms(c) ==
    {c.correlationId.form, c.testResult.statementDigest.form}
        \cup OptionalForms(c.decision.reference) \cup OptionalForms(c.outcome.reference)

CoreForms(d) ==
    {d.agent.artifactDigest.form, d.runtime.digest.form, d.adapter.runtimeDigest.form,
     d.runtimePolicy.digest.form, d.tool.form}

DigestForms(d) == CoreForms(d) \cup UNION {CaseForms(d.cases[i]) : i \in DOMAIN d.cases}

CaseTimes(c) ==
    {c.startedAt, c.completedAt}
        \cup ToSet(c.decision.observedAt) \cup ToSet(c.outcome.observedAt)

NormalizeObservation(o) ==
    [o EXCEPT !.reference = Each(@, NormalizeDigest),
              !.observedAt = Each(@, NormalizeTime)]

NormalizeCase(c) ==
    [c EXCEPT !.correlationId = NormalizeDigest(@),
              !.testResult.statementDigest = NormalizeDigest(@),
              !.startedAt = NormalizeTime(@),
              !.completedAt = NormalizeTime(@),
              !.decision = NormalizeObservation(@),
              !.outcome = NormalizeObservation(@)]

\* Mutant: duplicates are dropped but the order of the input is kept.
DedupeOnly(points) ==
    LET first(i) == \A j \in 1 .. i - 1 : points[j] # points[i]
        kept == {i \in DOMAIN points : first(i)}
    IN  [k \in 1 .. Cardinality(kept) |-> points[SetToSortSeq(kept, <)[k]]]

Ascending(points) == \A i, j \in DOMAIN points : i < j => points[i] < points[j]

\* The points once each, in their order.
DedupeSort(points) ==
    LET S == ToSet(points)
    IN  CHOOSE q \in [1 .. Cardinality(S) -> S] : Ascending(q)

\* The order of sort.SliceStable on kinds and then ids.
CaseBefore(a, b) ==
    \/ KindOrder(a.kind) < KindOrder(b.kind)
    \/ KindOrder(a.kind) = KindOrder(b.kind) /\ a.id < b.id

SortCases(cases) ==
    LET precedes(i, j) == \/ CaseBefore(cases[i], cases[j])
                          \/ ~ CaseBefore(cases[j], cases[i]) /\ i < j
        sorted(p) == \A i, j \in DOMAIN cases : i < j => precedes(p[i], p[j])
        order == CHOOSE p \in [DOMAIN cases -> DOMAIN cases] : sorted(p)
    IN  [k \in DOMAIN cases |-> cases[order[k]]]

Normalize(d) ==
    IF /\ DigestForms(d) \subseteq LooseForms
       /\ \A i \in DOMAIN d.cases : \A t \in CaseTimes(d.cases[i]) : WholeSecond(t)
    THEN Ok([d EXCEPT
            !.agent.artifactDigest = NormalizeDigest(@),
            !.runtime.digest = NormalizeDigest(@),
            !.adapter.runtimeDigest = NormalizeDigest(@),
            !.runtimePolicy.digest = NormalizeDigest(@),
            !.tool = NormalizeDigest(@),
            !.enforcement.required = DedupeSort(@),
            !.enforcement.observed = DedupeSort(@),
            !.extensions = Each(@, LAMBDA x : [x EXCEPT !.layout = "canonical"]),
            !.cases = SortCases([i \in DOMAIN @ |-> NormalizeCase(@[i])])])
    ELSE Err

-------------------------------------------------------------------------------
(* Validate: the rules in the order of the code; each stands for its part of *)
(* the members behind "illegal" as well.                                     *)

ValidRuntimeAdapter(d) ==
    /\ CanonicalDigest(d.adapter.runtimeDigest)
    /\ d.adapter.runtimeDigest = d.runtime.digest

ValidRuntimePolicy(d) ==
    /\ d.runtimePolicy.count \in 0 .. MaxPolicies
    /\ d.runtimePolicy.loaded = (d.runtimePolicy.count >= 1)

ValidEnforcement(d) ==
    /\ d.enforcement.mode \in {"enforce", "monitor"}
    /\ d.enforcement.defaultBehavior \in {"allow", "deny"}
    /\ Len(d.enforcement.required) \in 1 .. MaxPoints
    /\ Len(d.enforcement.observed) <= MaxPoints

ValidInterval(c) ==
    /\ CanonicalTime(c.startedAt) /\ CanonicalTime(c.completedAt)
    /\ c.completedAt.clock - c.startedAt.clock \in 0 .. MaxCaseSeconds

\* An observation made inside the case interval, with a record to refer to.
Recorded(o, c) ==
    /\ o.reference # <<>>
    /\ \A i \in DOMAIN o.reference : CanonicalDigest(o.reference[i])
    /\ o.observedAt # <<>>
    /\ \A i \in DOMAIN o.observedAt :
          /\ CanonicalTime(o.observedAt[i])
          /\ o.observedAt[i].clock \in c.startedAt.clock .. c.completedAt.clock

Unrecorded(o) == o.reference = <<>> /\ o.observedAt = <<>>

ValidDecision(c) ==
    \/ /\ c.decision.state = "observed"
       /\ c.decision.verdict \in {"allow", "deny"}
       /\ Recorded(c.decision, c)
    \/ /\ c.decision.state = "not-observed"
       /\ c.decision.verdict = "unknown"
       /\ Unrecorded(c.decision)

ValidOutcome(c) ==
    \/ /\ c.outcome.state = "verified"
       /\ c.outcome.result \in {"occurred", "blocked"}
       /\ Recorded(c.outcome, c)
    \/ /\ c.outcome.state = "unknown"
       /\ c.outcome.result = "unknown"
       /\ Unrecorded(c.outcome)

ValidTestResult(c) ==
    /\ c.testResult.testId = c.id
    /\ CanonicalDigest(c.testResult.statementDigest)

ObservedVerdict(c, verdict) ==
    c.decision.state = "observed" /\ c.decision.verdict = verdict

\* The label of a case may not contradict its facts.
KindConsistent(d, c) ==
    /\ c.kind = "allowed-action" => ObservedVerdict(c, "allow")
    /\ c.kind = "denied-action" => ObservedVerdict(c, "deny")
    /\ c.kind = "adapter-bypass" =>
          ~ ( /\ c.decision.state = "observed"
              /\ ToSet(d.enforcement.required) \subseteq ToSet(d.enforcement.observed) )
    /\ c.kind = "no-policy-loaded" => ~ d.runtimePolicy.loaded

ValidCase(d, c) ==
    /\ c.kind \in Kinds
    /\ CanonicalDigest(c.correlationId)
    /\ ValidInterval(c)
    /\ ValidDecision(c)
    /\ ValidOutcome(c)
    /\ ValidTestResult(c)
    /\ KindConsistent(d, c)

Distinct(cases, Key(_)) ==
    \A i, j \in DOMAIN cases : Key(cases[i]) = Key(cases[j]) => i = j

ValidConformance(d) ==
    /\ CanonicalDigest(d.tool)
    /\ Len(d.cases) \in 1 .. MaxCases
    /\ Distinct(d.cases, LAMBDA c : c.id)
    /\ Distinct(d.cases, LAMBDA c : c.kind)
    /\ \A i \in DOMAIN d.cases : ValidCase(d, d.cases[i])

\* The bounds on number, size and depth are about the canonical layout, which
\* Normalize has given each extension by now: the first layout has no say in them.
ValidExtensions(d) == \A i \in DOMAIN d.extensions : d.extensions[i].legal

Validate(d) ==
    /\ d.illegal = {}
    /\ CanonicalDigest(d.agent.artifactDigest)
    /\ CanonicalDigest(d.runtime.digest)
    /\ CanonicalDigest(d.runtimePolicy.digest)
    /\ ValidRuntimeAdapter(d)
    /\ ValidRuntimePolicy(d)
    /\ ValidEnforcement(d)
    /\ ValidConformance(d)
    /\ ValidExtensions(d)

-------------------------------------------------------------------------------
(* Generate: the predicate body is the normalized document.  Its indented    *)
(* form can be too large although the file it was read from was not.  The    *)
(* schema validation that follows repeats rules of Validate.                 *)
Generate(d) ==
    LET n == Normalize(d)
    IN  IF IsOk(n) /\ Validate(Value(n)) /\ d.indented <= MaxBytes THEN n ELSE Err

\* GenerateAgentGovernanceDeployment up to writeOutput.
GenerateFromFile(f) == IF IsOk(Parse(f)) THEN Generate(Value(Parse(f))) ELSE Err
===============================================================================
