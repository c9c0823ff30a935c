------------------------------ MODULE AtomicFile ------------------------------
(***************************************************************************)
(* What the companion CLI promises about the file named by --output: it is *)
(* an atomic register.  An invocation replaces it by its whole body in one *)
(* step and reports success, or it reports an error (or dies) and the file *)
(* is what it was.                                                         *)
(***************************************************************************)
CONSTANTS Proc,      \* invocations of the CLI
          Valid,     \* those whose evidence generates a predicate body
          Stdout,    \* those that were given no --output
          Body(_)    \* the complete predicate body an invocation generates

VARIABLES file,      \* the content of the output file
          returned   \* how each invocation ended, or "running"

avars == <<file, returned>>

CONSTANT InitialFile \* what the output file may hold beforehand

AInit ==
    /\ file \in InitialFile
    /\ returned = [p \in Proc |-> "running"]

Return(p, how) ==
    /\ returned[p] = "running"
    /\ returned' = [returned EXCEPT ![p] = how]

\* The whole body appears in one step, and success is reported for it.
Publish(p) == p \in Valid \ Stdout /\ Return(p, "ok") /\ file' = Body(p)

\* Success on standard output leaves the file alone.
PrintBody(p) == p \in Valid \cap Stdout /\ Return(p, "ok") /\ UNCHANGED file

\* An error, or the death of the process, leaves the file alone.
GiveUp(p) == (\E how \in {"error", "crashed"} : Return(p, how)) /\ UNCHANGED file

ANext == \E p \in Proc : Publish(p) \/ PrintBody(p) \/ GiveUp(p)

ASpec == AInit /\ [][ANext]_avars
===============================================================================
