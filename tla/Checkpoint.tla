------------------------------- MODULE Checkpoint -------------------------------
(***************************************************************************)
(* cmd/checkpoint: the manifest of what was there before the extraction is *)
(* generated again, from the tree and by the code as they are now, and     *)
(* compared with the committed one.  The tree is read in several passes:   *)
(* the kinds of the frozen files, the evidence, the policy directory, the  *)
(* bytes of the frozen files.  Nothing guards it against edits between     *)
(* them, and it is left alone here.                                        *)
(*                                                                         *)
(* The digest of the policy directory is over its selected files, one      *)
(* after the other, each as its path followed at once by its bytes, with   *)
(* nothing to tell where a path or a file ends.  A path is the sequence of *)
(* symbols that it is spelt with, which may occur in a file as well.       *)
(***************************************************************************)
EXTENDS Naturals, Sequences

CONSTANTS Symbols,   \* what paths and files are spelt with
          Order,     \* the paths in the policy directory, in lexical order
          Selected,  \* those that end in .rego, .json or .yaml
          Rego,      \* the one that is frozen
          Rules,     \* its committed bytes
          Bytes      \* what files in that directory may hold

Paths == {Order[i] : i \in DOMAIN Order}

ASSUME CheckpointAssumption ==
    /\ Order \in Seq(Seq(Symbols)) /\ <<>> \notin Paths
    /\ \A i, j \in DOMAIN Order : Order[i] = Order[j] => i = j
    /\ Rego \in Selected /\ Selected \subseteq Paths
    /\ Rules \in Bytes /\ Bytes \subseteq Seq(Symbols)

VARIABLES pc,        \* where the command is
          policy,    \* the policy directory
          link,      \* the frozen files that are symbolic links
          evidence,  \* the bytes of the evidence files
          builder,   \* BuildCase, as it is now
          manifest,  \* checkpoint.sha256.json
          walked,    \* how many paths the walk of the policy directory has visited
          entries    \* what has been generated so far

checkpoint_vars == <<pc, policy, link, evidence, builder, manifest, walked, entries>>

Absent == [state |-> "absent", bytes |-> <<>>]
Unreadable == [state |-> "unreadable", bytes |-> <<>>]
File(bytes) == [state |-> "readable", bytes |-> bytes]
FileStates == {Absent, Unreadable} \cup {File(b) : b \in Bytes}
Present(path) == policy[path] # Absent
Readable(path) == policy[path].state = "readable"

Files == {"evidence", "rules"}
Nothing == [built |-> "nothing", stream |-> <<>>, evidence |-> "none", rego |-> Absent]

\* What the committed manifest was generated from.
Committed ==
    [built |-> "body", stream |-> Rego \o Rules, evidence |-> "committed", rego |-> File(Rules)]

\* Evidence may be laid out otherwise and say the same; it may be missing.
CheckpointInit ==
    /\ pc = "lstat" /\ walked = 0
    /\ policy \in [Paths -> FileStates]
    /\ link \in SUBSET Files
    /\ evidence \in {"committed", "laid out", "changed", "invalid"}
    /\ builder \in {"same", "drifted"}
    /\ manifest \in {"committed", "changed", "absent"}
    /\ entries = Nothing

Pass(from, to) == pc = from /\ pc' = to
Fail(from) == Pass(from, "failed") /\ UNCHANGED entries
Tree == <<policy, link, evidence, builder, manifest>>

\* Mutant: the rules are not among the frozen inputs.
frozenWithoutRules == {"evidence"}

\* frozenInputs, of which the evidence and the rules are kept.
frozenInputs == Files

\* frozenInputPaths: every frozen input is there and is a regular file.
frozenInputPaths ==
    /\ IF /\ frozenInputs \cap link = {}
          /\ "rules" \in frozenInputs => Present(Rego)
       THEN Pass("lstat", "build") /\ UNCHANGED entries
       ELSE Fail("lstat")
    /\ UNCHANGED <<walked, Tree>>

\* BuildCase of every evidence file, and the digests of what it gives.
BuildCases ==
    LET body == IF evidence = "changed" \/ builder = "drifted" THEN "other" ELSE "body"
    IN  /\ IF evidence = "invalid" THEN Fail("build")
           ELSE Pass("build", "walk") /\ entries' = [entries EXCEPT !.built = body]
        /\ UNCHANGED <<walked, Tree>>

\* Mutant: whatever is in the directory is hashed.
SelectsAny(path) == Present(path)

\* What the walk meets at a path, and hashes.
Selects(path) == Present(path) /\ path \in Selected

\* One path of the walk: a file that is not selected is passed over.
Visit ==
    LET path == Order[walked + 1]
    IN  /\ pc = "walk" /\ walked < Len(Order)
        /\ \/ ~ Selects(path) /\ walked' = walked + 1 /\ UNCHANGED <<pc, entries>>
           \/ /\ Selects(path) /\ Readable(path)
              /\ entries' = [entries EXCEPT !.stream = @ \o path \o policy[path].bytes]
              /\ walked' = walked + 1 /\ UNCHANGED pc
           \/ Selects(path) /\ ~ Readable(path) /\ Fail("walk") /\ UNCHANGED walked
        /\ UNCHANGED Tree

WalkEnds == walked = Len(Order) /\ Pass("walk", "read") /\ UNCHANGED <<entries, walked, Tree>>

calculatePolicyDirectoryDigest == Visit \/ WalkEnds

\* The frozen inputs once more, for their bytes; a link is followed now.
ReadFrozen ==
    /\ IF "rules" \in frozenInputs => Readable(Rego)
       THEN /\ Pass("read", "compare")
            /\ entries' = [entries EXCEPT !.evidence = evidence,
                    !.rego = IF "rules" \in frozenInputs THEN policy[Rego] ELSE File(Rules)]
       ELSE Fail("read")
    /\ UNCHANGED <<walked, Tree>>

\* Mutant: nothing to compare with is neither the one nor the other.
CompareSkips ==
    /\ Pass("compare", IF manifest = "absent" THEN "skipped" ELSE "failed")
    /\ UNCHANGED <<entries, walked, Tree>>

\* The manifest, sorted and marshalled, against the committed one.
Compare ==
    /\ IF manifest = "committed" /\ entries = Committed
       THEN Pass("compare", "passed") /\ UNCHANGED entries ELSE Fail("compare")
    /\ UNCHANGED <<walked, Tree>>

Over == {"passed", "failed"}

CheckpointNext ==
    frozenInputPaths \/ BuildCases \/ calculatePolicyDirectoryDigest \/ ReadFrozen \/ Compare

CheckpointSpec == CheckpointInit /\ [][CheckpointNext]_checkpoint_vars

-------------------------------------------------------------------------------
(***************************************************************************)
(* The types, of what has been generated too, and the walk's place.        *)
(***************************************************************************)
CheckpointTypeOK ==
    /\ pc \in {"lstat", "build", "walk", "read", "compare"} \cup Over
    /\ policy \in [Paths -> FileStates] /\ link \subseteq Files
    /\ evidence \in {"committed", "laid out", "changed", "invalid"}
    /\ builder \in {"same", "drifted"} /\ manifest \in {"committed", "changed", "absent"}
    /\ walked \in 0 .. Len(Order)
    /\ entries \in [built : {"nothing", "body", "other"}, stream : Seq(Symbols),
                    evidence : {"none", "committed", "laid out", "changed", "invalid"},
                    rego : FileStates]

PolicyAsCommitted ==
    \A path \in Selected : policy[path] = IF path = Rego THEN File(Rules) ELSE Absent

(***************************************************************************)
(* Passing pins the policy bundle, the evidence and what BuildCase makes   *)
(* of it: although one policy digest stands for several directories, whose *)
(* files divide the same bytes differently, only the committed one also    *)
(* has the frozen rules in the frozen file.                                *)
(***************************************************************************)
PassPinsTheTree ==
    pc = "passed" =>
        PolicyAsCommitted /\ evidence = "committed" /\ builder = "same" /\ link = {}

(***************************************************************************)
(* "Ignored caches or unrelated untracked files can never change" the      *)
(* checkpoint: it fails only if something that it is about has changed,    *)
(* whatever other files lie in the policy directory.                       *)
(***************************************************************************)
FailsForCauseOnly ==
    pc = "failed" =>
        ~ (/\ PolicyAsCommitted /\ evidence = "committed" /\ builder = "same" /\ link = {}
           /\ manifest = "committed")
===============================================================================
