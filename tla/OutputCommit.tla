----------------------------- MODULE OutputCommit -----------------------------
(***************************************************************************)
(* GenerateAgentGovernanceDeployment and writeOutput                       *)
(* (internal/evidence/deployment.go, internal/evidence/output.go): several *)
(* invocations of the companion CLI write one output path, each through a  *)
(* temporary file of its own in the same directory.                        *)
(*                                                                         *)
(* A directory maps names to inodes.  An invocation creates at most one    *)
(* file, so the invocation itself names the inode it creates; Prior is the *)
(* file that was at the output path beforehand.  rename(2) and unlink(2)   *)
(* act on names and writes act on the open inode, so nothing in the model  *)
(* says that a name still refers to the file its owner created: that is    *)
(* part of what is checked.  Contents are counted in chunks, because a     *)
(* write can stop half-way.                                                *)
(***************************************************************************)
EXTENDS Naturals

CONSTANTS Proc,    \* invocations of the CLI
          Valid,   \* those whose evidence Generate accepts
          Stdout,  \* those started without --output
          Names,   \* the names os.CreateTemp may draw
          Dest,    \* the output path
          Prior,   \* the inode at Dest before any invocation
          Nil,     \* no inode
          Chunks   \* how many chunks a body is written in

ASSUME OutputAssumption ==
    /\ Valid \subseteq Proc /\ Stdout \subseteq Proc
    /\ Dest \notin Names /\ Nil \notin Names
    /\ Prior \notin Proc /\ Nil \notin Proc /\ Prior # Nil
    /\ Chunks \in Nat \ {0}

VARIABLES pc,       \* where each invocation is
          entry,    \* the directory: names to inodes
          temp,     \* temporaryPath of each invocation, Nil before it has one
          written,  \* chunks in the inode each invocation created
          printed   \* chunks each invocation wrote to standard output

vars == <<pc, entry, temp, written, printed>>

Paths == Names \cup {Dest}
Inodes == Proc \cup {Prior, Nil}

Live == {"generate", "stdout", "create", "write", "close", "rename", "cleanup"}
Over == {"ok", "error", "leaked", "crashed"}

Init ==
    /\ pc = [p \in Proc |-> "generate"]
    /\ \E prior \in {Prior, Nil} :
          entry = [n \in Paths |-> IF n = Dest THEN prior ELSE Nil]
    /\ temp = [p \in Proc |-> Nil]
    /\ written = [p \in Proc |-> 0]
    /\ printed = [p \in Proc |-> 0]

Goto(p, from, to) == pc[p] = from /\ pc' = [pc EXCEPT ![p] = to]

\* Mutant: the output file is opened before the evidence is known to be valid.
GenerateUnchecked(p) ==
    /\ \/ p \in Stdout /\ Goto(p, "generate", "stdout")
       \/ p \notin Stdout /\ Goto(p, "generate", "create")
    /\ UNCHANGED <<entry, temp, written, printed>>

\* Read, parse and generate; evidence that is refused ends the invocation here.
Generate(p) ==
    /\ \/ p \notin Valid /\ Goto(p, "generate", "error")
       \/ p \in Valid \cap Stdout /\ Goto(p, "generate", "stdout")
       \/ p \in Valid \ Stdout /\ Goto(p, "generate", "create")
    /\ UNCHANGED <<entry, temp, written, printed>>

\* Mutant: a short write to standard output is reported as success.
StdoutErrorIgnored(p) ==
    /\ \/ /\ Goto(p, "stdout", IF printed[p] + 1 = Chunks THEN "ok" ELSE "stdout")
          /\ printed' = [printed EXCEPT ![p] = @ + 1]
       \/ Goto(p, "stdout", "ok") /\ UNCHANGED printed
    /\ UNCHANGED <<entry, temp, written>>

\* os.Stdout.Write: a prefix may be out when it fails.
StdoutWrite(p) ==
    /\ \/ /\ Goto(p, "stdout", IF printed[p] + 1 = Chunks THEN "ok" ELSE "stdout")
          /\ printed' = [printed EXCEPT ![p] = @ + 1]
       \/ Goto(p, "stdout", "error") /\ UNCHANGED printed
    /\ UNCHANGED <<entry, temp, written>>

\* Mutant: one fixed temporary name, waited for while another invocation has it.
CreateFixedTemp(p) ==
    /\ LET n == CHOOSE m \in Names : TRUE
       IN  /\ entry[n] = Nil
           /\ Goto(p, "create", "write")
           /\ entry' = [entry EXCEPT ![n] = p]
           /\ temp' = [temp EXCEPT ![p] = n]
    /\ UNCHANGED <<written, printed>>

\* os.CreateTemp draws an unused name and creates it exclusively, or fails
\* before the deferred removal is registered.
CreateTemp(p) ==
    /\ \/ \E n \in Names :
             /\ entry[n] = Nil
             /\ Goto(p, "create", "write")
             /\ entry' = [entry EXCEPT ![n] = p]
             /\ temp' = [temp EXCEPT ![p] = n]
       \/ Goto(p, "create", "error") /\ UNCHANGED <<entry, temp>>
    /\ UNCHANGED <<written, printed>>

\* Mutant: a failed write is closed and committed like a complete one.
WriteErrorIgnored(p) ==
    /\ \/ /\ Goto(p, "write", IF written[p] + 1 = Chunks THEN "close" ELSE "write")
          /\ written' = [written EXCEPT ![p] = @ + 1]
       \/ Goto(p, "write", "close") /\ UNCHANGED written
    /\ UNCHANGED <<entry, temp, printed>>

\* Mutant: one chunk too many is written.
WriteOverrun(p) ==
    /\ \/ /\ Goto(p, "write", IF written[p] = Chunks THEN "close" ELSE "write")
          /\ written' = [written EXCEPT ![p] = @ + 1]
       \/ Goto(p, "write", "cleanup") /\ UNCHANGED written
    /\ UNCHANGED <<entry, temp, printed>>

\* temporary.Write, chunk by chunk; a failure closes the file and returns.
WriteTemp(p) ==
    /\ \/ /\ Goto(p, "write", IF written[p] + 1 = Chunks THEN "close" ELSE "write")
          /\ written' = [written EXCEPT ![p] = @ + 1]
       \/ Goto(p, "write", "cleanup") /\ UNCHANGED written
    /\ UNCHANGED <<entry, temp, printed>>

CloseTemp(p) ==
    /\ Goto(p, "close", "rename") \/ Goto(p, "close", "cleanup")
    /\ UNCHANGED <<entry, temp, written, printed>>

\* os.Rename moves whatever the temporary name refers to over the output path.
Rename(p) ==
    /\ \/ /\ Goto(p, "rename", "ok")
          /\ entry' = [entry EXCEPT ![Dest] = entry[temp[p]], ![temp[p]] = Nil]
       \/ Goto(p, "rename", "cleanup") /\ UNCHANGED entry
    /\ UNCHANGED <<temp, written, printed>>

\* Mutant: committed is set before the rename, so a failure removes nothing.
RemoveSkipped(p) ==
    /\ Goto(p, "cleanup", "error")
    /\ UNCHANGED <<entry, temp, written, printed>>

\* The deferred os.Remove of an uncommitted file; its own failure is ignored.
RemoveTemp(p) ==
    /\ \/ Goto(p, "cleanup", "error") /\ entry' = [entry EXCEPT ![temp[p]] = Nil]
       \/ Goto(p, "cleanup", "leaked") /\ UNCHANGED entry
    /\ UNCHANGED <<temp, written, printed>>

\* The process is killed: no deferred function runs.
Crash(p) ==
    /\ pc[p] \in Live
    /\ pc' = [pc EXCEPT ![p] = "crashed"]
    /\ UNCHANGED <<entry, temp, written, printed>>

Step(p) ==
    \/ Generate(p) \/ StdoutWrite(p) \/ CreateTemp(p) \/ WriteTemp(p)
    \/ CloseTemp(p) \/ Rename(p) \/ RemoveTemp(p)

Next == \E p \in Proc : Step(p) \/ Crash(p)

Spec == Init /\ [][Next]_vars

\* System calls on a local file return, so an invocation that is not killed runs on.
FairSpec == Spec /\ \A p \in Proc : WF_vars(Step(p))

-------------------------------------------------------------------------------
TypeOK ==
    /\ pc \in [Proc -> Live \cup Over]
    /\ entry \in [Paths -> Inodes]
    /\ temp \in [Proc -> Names \cup {Nil}]
    /\ written \in [Proc -> 0 .. Chunks]
    /\ printed \in [Proc -> 0 .. Chunks]

Content(i) == IF i \in Proc THEN <<i, written[i]>> ELSE <<i>>

\* What the caller of an invocation that is at a control point sees of it.
Outcome(at) ==
    IF at \in Live THEN "running" ELSE IF at = "leaked" THEN "error" ELSE at

Abstract == INSTANCE AtomicFile
    WITH Body <- LAMBDA p : <<p, Chunks>>,
         InitialFile <- {<<Prior>>, <<Nil>>},
         file <- Content(entry[Dest]),
         returned <- [p \in Proc |-> Outcome(pc[p])]

(***************************************************************************)
(* writeOutput makes the output path an atomic register: whatever the      *)
(* interleaving of invocations, failures and crashes, the path changes     *)
(* only in the step in which one invocation succeeds, and then it holds    *)
(* all of that invocation's body and of nobody else's.                     *)
(***************************************************************************)
AtomicOutput == Abstract!ASpec

(***************************************************************************)
(* A temporary file left in the output directory is the file its live      *)
(* owner created, or was left by an owner that was killed or whose         *)
(* os.Remove failed; so no invocation renames, removes or reuses another's *)
(* temporary file, and an ordinary failure leaves nothing behind.          *)
(***************************************************************************)
NoStrayTemporary ==
    \A n \in Names : entry[n] # Nil =>
        \E p \in Proc :
            /\ entry[n] = p /\ temp[p] = n
            /\ pc[p] \in {"write", "close", "rename", "cleanup", "leaked", "crashed"}

(***************************************************************************)
(* "Invalid evidence is rejected before an output file is opened": refused *)
(* evidence reaches neither the directory nor standard output.             *)
(***************************************************************************)
RefusedLeavesNoTrace ==
    \A p \in Proc \ Valid :
        /\ \A n \in Paths : entry[n] # p
        /\ printed[p] = 0

(***************************************************************************)
(* "Both destinations receive exact bytes": success without --output means *)
(* the whole body was printed, and an invocation never writes to both.     *)
(***************************************************************************)
ExactBytes ==
    \A p \in Proc :
        /\ pc[p] = "ok" /\ p \in Stdout => printed[p] = Chunks
        /\ written[p] > 0 => printed[p] = 0

(***************************************************************************)
(* Every invocation that is not killed returns: the retry-free path from   *)
(* Generate to the deferred removal has no step that waits for another.    *)
(***************************************************************************)
EveryInvocationEnds == \A p \in Proc : <>(pc[p] \in Over)
===============================================================================
