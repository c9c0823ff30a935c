----------------------------- MODULE EvidenceCanon -----------------------------
(***************************************************************************)
(* One evidence file, rewritten by its producer step by step in other but  *)
(* equivalent encodings: upper-case digests, zoned timestamps, shuffled    *)
(* and repeated intervention points, reordered cases, extensions laid out  *)
(* differently.  After every rewrite both readers of evidence files are    *)
(* asked: the companion CLI (GenerateFromFile) and the signing helper      *)
(* (BuildCase), whose statements the admission gate then reads.  They are  *)
(* three programs - two Go call paths and a Rego policy - that must agree  *)
(* on what a document states.                                              *)
(***************************************************************************)
EXTENDS AdmissionGate

CONSTANTS Stated,     \* the files to begin with
          Offsets,    \* time zones a producer may write timestamps in
          MaxListed   \* bound: intervention points listed, repetitions included

ASSUME CanonAssumption ==
    /\ Offsets \subseteq Int /\ MaxListed \in Nat
    /\ \A f \in Stated : FileShape(f)

VARIABLE file

CanonInit == file \in Stated

Rewrite(doc) == file' = [file EXCEPT !.doc = doc]

\* The same digest in the other case; an absent digest has no other case.
Recase(g) ==
    [g EXCEPT !.form = CASE @ = "lower" -> "upper" [] @ = "upper" -> "lower" [] OTHER -> @]

WriteDigest ==
    LET d == file.doc
    IN  \/ Rewrite([d EXCEPT !.agent.artifactDigest = Recase(@)])
        \/ Rewrite([d EXCEPT !.adapter.runtimeDigest = Recase(@), !.tool = Recase(@)])
        \/ Rewrite([d EXCEPT !.cases[1].correlationId = Recase(@),
                             !.cases[1].decision.reference = Each(@, Recase)])

\* The same instant in another zone.
Rezone(t, offset) ==
    [t EXCEPT !.offset = offset, !.clock = t.clock - t.offset + offset]

WriteTime ==
    LET d == file.doc
    IN  \E offset \in Offsets :
            \/ Rewrite([d EXCEPT !.cases[1].startedAt = Rezone(@, offset)])
            \/ Rewrite([d EXCEPT !.cases[1].outcome.observedAt =
                                     Each(@, LAMBDA t : Rezone(t, offset))])

SwapPoints ==
    LET points == file.doc.enforcement.required
    IN  \E i \in 1 .. Len(points) - 1 :
            Rewrite([file.doc EXCEPT !.enforcement.required =
                [points EXCEPT ![i] = points[i + 1], ![i + 1] = points[i]]])

RepeatPoint ==
    LET points == file.doc.enforcement.required
    IN  /\ Len(points) < MaxListed
        /\ \E p \in ToSet(points) :
              Rewrite([file.doc EXCEPT !.enforcement.required = Append(points, p)])

SwapCases ==
    /\ Len(file.doc.cases) = 2
    /\ Rewrite([file.doc EXCEPT !.cases = Reverse(@)])

Relayout ==
    Rewrite([file.doc EXCEPT !.extensions = Each(@, LAMBDA x :
        [x EXCEPT !.layout = IF @ = "canonical" THEN "other" ELSE "canonical"])])

CanonNext == WriteDigest \/ WriteTime \/ SwapPoints \/ RepeatPoint \/ SwapCases \/ Relayout

CanonSpec == CanonInit /\ [][CanonNext]_file

-------------------------------------------------------------------------------
(* What a document states, whatever the encoding.                            *)

Instant(t) == <<t.clock - t.offset, t.nanos>>
Instants(opt) == Each(opt, Instant)
Commitments(opt) == Each(opt, LAMBDA g : g.of)

ObservationFacts(o, finding) ==
    <<o.state, finding, Commitments(o.reference), Instants(o.observedAt)>>

CaseFacts(c) ==
    <<c.id, c.kind, c.correlationId.of, Instant(c.startedAt), Instant(c.completedAt),
      ObservationFacts(c.decision, c.decision.verdict),
      ObservationFacts(c.outcome, c.outcome.result), c.testResult.testId>>

Facts(d) ==
    <<d.agent.name, d.agent.artifactDigest.of, d.runtime.digest.of, d.adapter.runtimeDigest.of,
      d.runtimePolicy.count, d.runtimePolicy.loaded, d.runtimePolicy.digest.of,
      d.enforcement.mode, d.enforcement.defaultBehavior,
      ToSet(d.enforcement.required), ToSet(d.enforcement.observed),
      d.tool.of, {CaseFacts(d.cases[i]) : i \in DOMAIN d.cases}>>

(***************************************************************************)
(* "Equivalent inputs (shuffled collections, uppercase digests, zoned      *)
(* timestamps) produce byte-identical output": no rewriting of the same    *)
(* facts changes the answer of the CLI, a refusal included.                *)
(***************************************************************************)
SameFactsSameBody == [][GenerateFromFile(file') = GenerateFromFile(file)]_file

(***************************************************************************)
(* The signing helper answers a rewriting with the same two statements;    *)
(* since the deployment commits to the bytes of the test result, each of   *)
(* its derivations must start from normalized facts, not just the body.    *)
(***************************************************************************)
SameFactsSameStatements == [][BuildCase(file') = BuildCase(file)]_file

(***************************************************************************)
(* An accepted body states exactly what its file stated: nothing that the  *)
(* file omitted was filled in, nothing was lost when collections were      *)
(* sorted, and no observation moved to another instant.  The one omission  *)
(* allowed is the statement digest, which only the helper accepts and      *)
(* which then commits to the test result it built.                         *)
(***************************************************************************)
BodyStatesTheFile ==
    LET cli == GenerateFromFile(file)
        built == BuildCase(file)
    IN  /\ IsOk(cli) => Facts(Value(cli)) = Facts(file.doc) /\ file.absent = {}
        /\ IsOk(built) =>
              /\ Facts(Value(built).deployment.predicate) = Facts(file.doc)
              /\ Value(built).evidence.cases[1].testResult.statementDigest
                    = Sha256(Value(built).testResult)

Completed(evidence) ==
    [bytes |-> evidence.indented, intact |-> TRUE, absent |-> {}, unknown |-> {},
     doc |-> evidence]

(***************************************************************************)
(* The demo requires that the CLI, run on the evidence the helper has      *)
(* completed, prints byte for byte the predicate the helper signs; and a   *)
(* body is evidence too: generating from it gives it back.                 *)
(***************************************************************************)
CLIRepeatsTheHelper ==
    LET built == BuildCase(file)
        cli == GenerateFromFile(file)
    IN  /\ IsOk(built) =>
              GenerateFromFile(Completed(Value(built).evidence))
                  = Ok(Value(built).deployment.predicate)
        /\ IsOk(cli) => GenerateFromFile(Completed(Value(cli))) = cli

\* The reasons for which the gate may refuse well-formed evidence.
FactViolations ==
    {"adapter bypass", "no policy loaded", "case timestamps", "not enforcing",
     "no observed decision", "outcome not verified", "outcome", "controlled tool"}

(***************************************************************************)
(* The Rego policy understands every statement the helper builds: whatever *)
(* evidence the Go validation accepts, if the gate refuses the pair then   *)
(* for a fact of the case, and never for the shape, the encoding, the      *)
(* envelope or the linkage, which the policy spells out a second time.     *)
(* One fact only the policy pins: the tool must be the repository's own.   *)
(***************************************************************************)
GateReadsTheHelper ==
    LET built == BuildCase(file)
        pair == <<Value(built).testResult, Value(built).deployment>>
    IN  IsOk(built) =>
            /\ agent_governance_violations(pair) \subseteq FactViolations
            /\ "controlled tool" \in agent_governance_violations(pair)
                  <=> file.doc.tool.of # controlled_tool_digest.of
            /\ allow(pair) = (agent_governance_violations(pair) = {})
===============================================================================
