---------------------------------- MODULE Demo ----------------------------------
(***************************************************************************)
(* cmd/demo: runs of the demonstration, each of which works through all    *)
(* the cases in a working directory of its own: the completed evidence,    *)
(* the companion's predicate, two signed statements, the verifier and the  *)
(* result that it leaves in a file.  Several runs may be given the same    *)
(* directory, or one that an earlier run has filled.  What is signed and   *)
(* how it is judged is Pipeline's; a bundle is its signer here, and        *)
(* verifies under that signer's trusted root only.                         *)
(***************************************************************************)
EXTENDS Naturals, Sequences

CONSTANTS Run,      \* runs of the demonstration
          Given,    \* the path that -workdir may name
          Earlier,  \* whoever filled that path before
          Want      \* the result expected of each case, in the order of the cases

ASSUME DemoAssumption ==
    /\ Given \notin Run /\ Earlier \notin Run /\ "nobody" \notin Run
    /\ Want \in Seq({"PASSED", "FAILED"}) /\ Want # <<>>

VARIABLES pc,       \* where each run is
          at,       \* the case each run is at
          option,   \* its -workdir and -keep
          failures, \* how many of its cases did not match
          status,   \* its exit status
          dirs,     \* the directories, each with its maker and its files
          drifted,  \* the cases whose committed evidence no longer gives Want
          code,     \* the exit code of the verifier each run has waited for
          judged    \* of each run, the cases whose bundle its verifier judged as expected

vars == <<pc, at, option, failures, status, dirs, drifted, code, judged>>

Cases == DOMAIN Want
Paths == Run \cup {Given}   \* a run names the temporary directory made for it

Opposite(r) == IF r = "PASSED" THEN "FAILED" ELSE "PASSED"
ExitFor(r) == IF r = "PASSED" THEN 0 ELSE 1
Gives(c) == IF c \in drifted THEN Opposite(Want[c]) ELSE Want[c]

Gone == [owner |-> "nobody", root |-> {}, bundle |-> {}, vsa |-> [c \in Cases |-> "none"]]
New(d) == [Gone EXCEPT !.owner = d]

\* A directory retained by an earlier run.
Retained == [New(Earlier) EXCEPT !.root = {Earlier}, !.bundle = {Earlier}, !.vsa = Want]

Path(d) == IF option[d] = "given" THEN Given ELSE d

Init ==
    /\ pc = [d \in Run |-> "start"] /\ at = [d \in Run |-> 1]
    /\ option \in [Run -> {"given", "temporary", "kept"}]
    /\ failures = [d \in Run |-> 0] /\ status = [d \in Run |-> "running"]
    /\ \E g \in {Gone, Retained} :
          dirs = [p \in Paths |-> IF p = Given THEN g ELSE Gone]
    /\ drifted \in SUBSET Cases
    /\ code = [d \in Run |-> 0] /\ judged = [d \in Run |-> {}]

Goto(d, from, to) == pc[d] = from /\ pc' = [pc EXCEPT ![d] = to]

\* An error returned by run: what was deferred by then runs.
Fails(d) == status' = [status EXCEPT ![d] = "failed"]
Return(d, from) == Goto(d, from, "cleanup") /\ Fails(d)

\* A file operation in the working directory, and its failure.
Writes(d, from, to, dir) ==
    \/ /\ dirs[Path(d)] # Gone /\ Goto(d, from, to)
       /\ dirs' = [dirs EXCEPT ![Path(d)] = dir] /\ UNCHANGED status
    \/ Return(d, from) /\ UNCHANGED dirs

-------------------------------------------------------------------------------
\* The two binaries are looked for before anything is made.
Start(d) ==
    /\ \/ Goto(d, "start", "prepare") /\ UNCHANGED status
       \/ Goto(d, "start", "end") /\ Fails(d)
    /\ UNCHANGED <<at, option, failures, dirs, drifted, code, judged>>

\* Mutant: MkdirAll of the whole path.
PrepareReuses(d) ==
    /\ Goto(d, "prepare", "root") /\ UNCHANGED status
    /\ dirs' = [dirs EXCEPT ![Path(d)] = IF @ = Gone THEN New(d) ELSE @]
    /\ UNCHANGED <<at, option, failures, drifted, code, judged>>

\* Mutant: a path that is taken is waited for.
PrepareWaits(d) ==
    /\ dirs[Path(d)] = Gone
    /\ Goto(d, "prepare", "root") /\ dirs' = [dirs EXCEPT ![Path(d)] = New(d)]
    /\ UNCHANGED <<at, option, failures, status, drifted, code, judged>>

\* Mkdir, not MkdirAll, of the path that was given; MkdirTemp otherwise.
prepareWorkdir(d) ==
    /\ \/ /\ dirs[Path(d)] = Gone
          /\ Goto(d, "prepare", "root") /\ dirs' = [dirs EXCEPT ![Path(d)] = New(d)]
          /\ UNCHANGED status
       \/ Goto(d, "prepare", "end") /\ Fails(d) /\ UNCHANGED dirs
    /\ UNCHANGED <<at, option, failures, drifted, code, judged>>

\* A new signer, and its trusted root in the directory.
TrustedRoot(d) ==
    /\ Writes(d, "root", "predicate", [dirs[Path(d)] EXCEPT !.root = {d}])
    /\ UNCHANGED <<at, option, failures, drifted, code, judged>>

\* BuildCase, the completed evidence, and the companion run on it; its output
\* is read back and must be the body that BuildCase gave.
Predicate(d) ==
    /\ \/ Goto(d, "predicate", "sign") /\ dirs[Path(d)] # Gone /\ UNCHANGED status
       \/ Return(d, "predicate")
    /\ UNCHANGED <<at, option, failures, dirs, drifted, code, judged>>

\* Two statements signed, and the bundle file of this case.
Sign(d) ==
    /\ Writes(d, "sign", "offline", [dirs[Path(d)] EXCEPT !.bundle = {d}])
    /\ UNCHANGED <<at, option, failures, drifted, code, judged>>

\* autogov offline.  It verifies the bundle under the root, and leaves a VSA
\* and the exit code that goes with it; or it stops before the VSA, or after
\* it with a code of its own; or it does not start, or is killed.
Offline(d) ==
    LET dir == dirs[Path(d)]
        verifies == dir # Gone /\ dir.bundle = dir.root /\ dir.root # {}
        wrote == [dirs EXCEPT ![Path(d)].vsa[at[d]] = Gives(at[d])]
    IN  /\ \/ /\ verifies /\ dirs' = wrote /\ Goto(d, "offline", "read") /\ UNCHANGED status
              /\ \E x \in {1, ExitFor(Gives(at[d]))} :
                    /\ code' = [code EXCEPT ![d] = x]
                    /\ judged' = IF Gives(at[d]) = Want[at[d]] /\ x = ExitFor(Want[at[d]])
                                 THEN [judged EXCEPT ![d] = @ \cup {at[d]}] ELSE judged
           \/ /\ Goto(d, "offline", "read") /\ code' = [code EXCEPT ![d] = 1]
              /\ UNCHANGED <<status, dirs, judged>>
           \/ /\ Return(d, "offline") /\ UNCHANGED <<code, judged>>
              /\ dirs' \in {dirs, IF verifies THEN wrote ELSE dirs}
        /\ UNCHANGED <<at, option, failures, drifted>>

Ok(result, c, x) == result = Want[c] /\ (x = 0 <=> Want[c] = "PASSED")

\* Mutant: there is always a next case.
ReadOn(d) ==
    /\ Goto(d, "read", "predicate") /\ at' = [at EXCEPT ![d] = @ + 1]
    /\ UNCHANGED <<option, failures, status, dirs, drifted, code, judged>>

\* readVSAResult, the comparison, and the next case or the end of run.
Read(d) ==
    LET c == at[d]
        result == dirs[Path(d)].vsa[c]
        missed == failures[d] + IF Ok(result, c, code[d]) THEN 0 ELSE 1
    IN  /\ \/ /\ result # "none" /\ failures' = [failures EXCEPT ![d] = missed]
              /\ \/ /\ c < Len(Want) /\ Goto(d, "read", "predicate")
                    /\ at' = [at EXCEPT ![d] = c + 1] /\ UNCHANGED status
                 \/ /\ c = Len(Want) /\ Goto(d, "read", "cleanup")
                    /\ status' = [status EXCEPT ![d] = IF missed > 0 THEN "failed" ELSE "ok"]
                    /\ UNCHANGED at
           \/ Return(d, "read") /\ UNCHANGED <<at, failures>>
        /\ code' = [code EXCEPT ![d] = 0]
        /\ UNCHANGED <<option, dirs, drifted, judged>>

\* Mutant: the directory is removed whatever it is.
CleanupAny(d) ==
    /\ Goto(d, "cleanup", "end")
    /\ dirs' = [dirs EXCEPT ![Path(d)] = IF option[d] = "kept" THEN @ ELSE Gone]
    /\ UNCHANGED <<at, option, failures, status, drifted, code, judged>>

\* Mutant: only a run that went well cleans up.
CleanupOfSuccess(d) ==
    /\ Goto(d, "cleanup", "end")
    /\ dirs' = [dirs EXCEPT ![Path(d)] =
                    IF option[d] = "temporary" /\ status[d] = "ok" THEN Gone ELSE @]
    /\ UNCHANGED <<at, option, failures, status, drifted, code, judged>>

\* What prepareWorkdir returned for run to defer; a failure to remove is ignored.
Cleanup(d) ==
    /\ \/ /\ Goto(d, "cleanup", "end")
          /\ dirs' = [dirs EXCEPT ![Path(d)] = IF option[d] = "temporary" THEN Gone ELSE @]
       \/ option[d] = "temporary" /\ Goto(d, "cleanup", "stuck") /\ UNCHANGED dirs
    /\ UNCHANGED <<at, option, failures, status, drifted, code, judged>>

Step(d) ==
    \/ Start(d) \/ prepareWorkdir(d) \/ TrustedRoot(d) \/ Predicate(d)
    \/ Sign(d) \/ Offline(d) \/ Read(d) \/ Cleanup(d)

-------------------------------------------------------------------------------
Over == {"end", "stuck", "killed"}

\* SIGKILL or an interrupt, which the demonstration does not handle.
Kill(d) ==
    /\ pc[d] \notin Over /\ Goto(d, pc[d], "killed") /\ Fails(d)
    /\ UNCHANGED <<at, option, failures, dirs, drifted, code, judged>>

\* The caller deletes the directory, when no run is at work in it.
Discard ==
    /\ dirs[Given] # Gone /\ dirs' = [dirs EXCEPT ![Given] = Gone]
    /\ \A d \in Run : dirs[Given].owner = d => pc[d] \in Over
    /\ UNCHANGED <<pc, at, option, failures, status, drifted, code, judged>>

Next == Discard \/ \E d \in Run : Step(d) \/ Kill(d)

Spec == Init /\ [][Next]_vars

\* The binaries that a run waits for return.
FairSpec == Spec /\ \A d \in Run : WF_vars(Step(d))

-------------------------------------------------------------------------------
Results == {"none", "PASSED", "FAILED"}
Directories ==
    [owner : Run \cup {Earlier, "nobody"}, root : SUBSET (Run \cup {Earlier}),
     bundle : SUBSET (Run \cup {Earlier}), vsa : [Cases -> Results]]

TypeOK ==
    /\ pc \in [Run -> {"start", "prepare", "root", "predicate", "sign", "offline",
                       "read", "cleanup"} \cup Over]
    /\ at \in [Run -> Cases] /\ option \in [Run -> {"given", "temporary", "kept"}]
    /\ failures \in [Run -> Nat] /\ status \in [Run -> {"running", "ok", "failed"}]
    /\ dirs \in [Paths -> Directories]
    /\ drifted \in SUBSET Cases /\ code \in [Run -> {0, 1}]
    /\ judged \in [Run -> SUBSET Cases]

(***************************************************************************)
(* An exit status of 0 is evidence: of every case, the run's own bundle    *)
(* was verified in that run with the expected result and exit code; no     *)
(* result left in the directory by another run stands in for that, and no  *)
(* mismatch gets lost on the way to the end.                               *)
(***************************************************************************)
SuccessIsEarned ==
    \A d \in Run : status[d] = "ok" => judged[d] = Cases

(***************************************************************************)
(* "The demo never cleans or reuses an existing caller directory": runs    *)
(* write only in directories that they have made, and of these remove only *)
(* temporary ones that are not to be kept.                                 *)
(***************************************************************************)
OwnDirectoryOnly ==
    [][\A p \in Paths : dirs'[p] # dirs[p] /\ ~ Discard =>
          \/ dirs[p] = Gone
          \/ /\ dirs[p].owner \in Run /\ pc'[dirs[p].owner] # pc[dirs[p].owner]
             /\ dirs'[p] = Gone => p # Given /\ option[p] = "temporary"]_vars

(***************************************************************************)
(* A temporary directory, with its signed bundles, outlives its run only   *)
(* if it was to be kept, could not be removed, or the run was killed: every *)
(* error that a case can meet still cleans up.                             *)
(***************************************************************************)
TemporaryRemoved ==
    \A d \in Run : dirs[d] # Gone /\ pc[d] = "end" => option[d] = "kept"

(***************************************************************************)
(* Every run ends: one that finds its directory taken fails, it does not   *)
(* wait for the other.                                                     *)
(***************************************************************************)
EveryRunEnds == \A d \in Run : <>(pc[d] \in Over)
===============================================================================
