-------------------------- MODULE OutputCommitProofs --------------------------
(***************************************************************************)
(* Proofs about OutputCommit for any number of invocations, any set of     *)
(* temporary names and any body length.                                    *)
(*                                                                         *)
(* None of the properties is inductive: that rename publishes a whole body *)
(* of its own invocation depends on the temporary name still referring to  *)
(* the file the invocation created, which depends on no other invocation   *)
(* having been given that name.  OwnNames and Progress state that chain.   *)
(***************************************************************************)
EXTENDS OutputCommit, TLAPS

Holding == {"write", "close", "rename", "cleanup"}

\* Each temporary name refers to the file of the one invocation that drew it.
OwnNames ==
    /\ \A p \in Proc : pc[p] \in Holding => temp[p] \in Names /\ entry[temp[p]] = p
    /\ NoStrayTemporary

\* What has been written, printed and decided at each control point.
ProgressAt(p) ==
    /\ pc[p] \in {"generate", "stdout", "create"} => written[p] = 0
    /\ pc[p] \in {"generate", "create"} \cup Holding => printed[p] = 0
    /\ pc[p] = "write" => written[p] < Chunks
    /\ pc[p] = "stdout" => printed[p] < Chunks
    /\ pc[p] \in {"close", "rename"} => written[p] = Chunks
    /\ pc[p] = "stdout" => p \in Valid \cap Stdout
    /\ pc[p] \in {"create"} \cup Holding => p \in Valid \ Stdout
    /\ written[p] > 0 => p \in Valid \ Stdout
    /\ temp[p] # Nil => p \in Valid \ Stdout
    /\ printed[p] > 0 => p \in Valid \cap Stdout
    /\ pc[p] = "ok" /\ p \in Stdout => printed[p] = Chunks

Progress == \A p \in Proc : ProgressAt(p)

\* The output path holds what was there before, or a whole body whose writer returned.
WholeAtDest ==
    \A p \in Proc : entry[Dest] = p =>
        pc[p] = "ok" /\ written[p] = Chunks /\ p \in Valid

Inv == TypeOK /\ OwnNames /\ Progress /\ WholeAtDest

-------------------------------------------------------------------------------
(* Every reachable state is a directory of known inodes and bounded contents *)
LEMMA InitInv == Init => Inv
<1> SUFFICES ASSUME Init PROVE Inv
  OBVIOUS
<1>1. TypeOK
  BY OutputAssumption DEF Init, TypeOK, Paths, Inodes, Live, Over
<1>2. OwnNames
  BY OutputAssumption DEF Init, OwnNames, NoStrayTemporary, Holding, Paths
<1>3. Progress
  <2> SUFFICES ASSUME NEW p \in Proc PROVE ProgressAt(p)
    BY DEF Progress
  <2>1. /\ pc[p] = "generate" /\ temp[p] = Nil
        /\ written[p] = 0 /\ printed[p] = 0
    BY DEF Init
  <2> QED BY <2>1, OutputAssumption DEF ProgressAt, Holding
<1>4. WholeAtDest
  BY OutputAssumption DEF Init, WholeAtDest, Paths
<1> QED BY <1>1, <1>2, <1>3, <1>4 DEF Inv

(* A step of any invocation, and its death, keep the directory well typed.  *)
LEMMA TypeStep == Inv /\ [Next]_vars => TypeOK'
<1> SUFFICES ASSUME Inv, [Next]_vars PROVE TypeOK'
  OBVIOUS
<1> USE OutputAssumption DEF Inv, TypeOK, Paths, Inodes, Live, Over
<1>1. CASE UNCHANGED vars
  BY <1>1 DEF vars
<1>2. ASSUME NEW p \in Proc, Generate(p) PROVE TypeOK'
  BY <1>2 DEF Generate, Goto
<1>3. ASSUME NEW p \in Proc, StdoutWrite(p) PROVE TypeOK'
  <2>1. printed[p] + 1 \in 0 .. Chunks \/ pc[p] # "stdout"
    BY DEF Progress, ProgressAt
  <2> QED BY <1>3, <2>1 DEF StdoutWrite, Goto
<1>4. ASSUME NEW p \in Proc, CreateTemp(p) PROVE TypeOK'
  BY <1>4 DEF CreateTemp, Goto
<1>5. ASSUME NEW p \in Proc, WriteTemp(p) PROVE TypeOK'
  <2>1. written[p] + 1 \in 0 .. Chunks \/ pc[p] # "write"
    BY DEF Progress, ProgressAt
  <2> QED BY <1>5, <2>1 DEF WriteTemp, Goto
<1>6. ASSUME NEW p \in Proc, CloseTemp(p) PROVE TypeOK'
  BY <1>6 DEF CloseTemp, Goto
<1>7. ASSUME NEW p \in Proc, Rename(p) PROVE TypeOK'
  BY <1>7 DEF Rename, Goto, OwnNames, Holding
<1>8. ASSUME NEW p \in Proc, RemoveTemp(p) PROVE TypeOK'
  BY <1>8 DEF RemoveTemp, Goto, OwnNames, Holding
<1>9. ASSUME NEW p \in Proc, Crash(p) PROVE TypeOK'
  BY <1>9 DEF Crash
<1> QED
  BY <1>1, <1>2, <1>3, <1>4, <1>5, <1>6, <1>7, <1>8, <1>9 DEF Next, Step

(* No invocation's step touches the name another invocation drew.           *)
LEMMA OwnNamesStep == Inv /\ [Next]_vars => OwnNames'
<1> SUFFICES ASSUME Inv, [Next]_vars PROVE OwnNames'
  OBVIOUS
<1> USE OutputAssumption DEF Inv, TypeOK, Paths, OwnNames, NoStrayTemporary, Holding
<1>1. CASE UNCHANGED vars
  BY <1>1 DEF vars
<1>2. ASSUME NEW p \in Proc, Generate(p) PROVE OwnNames'
  BY <1>2 DEF Generate, Goto
<1>3. ASSUME NEW p \in Proc, StdoutWrite(p) PROVE OwnNames'
  BY <1>3 DEF StdoutWrite, Goto
<1>4. ASSUME NEW p \in Proc, CreateTemp(p) PROVE OwnNames'
  BY <1>4 DEF CreateTemp, Goto
<1>5. ASSUME NEW p \in Proc, WriteTemp(p) PROVE OwnNames'
  BY <1>5 DEF WriteTemp, Goto
<1>6. ASSUME NEW p \in Proc, CloseTemp(p) PROVE OwnNames'
  BY <1>6 DEF CloseTemp, Goto
<1>7. ASSUME NEW p \in Proc, Rename(p) PROVE OwnNames'
  BY <1>7 DEF Rename, Goto
<1>8. ASSUME NEW p \in Proc, RemoveTemp(p) PROVE OwnNames'
  BY <1>8 DEF RemoveTemp, Goto
<1>9. ASSUME NEW p \in Proc, Crash(p) PROVE OwnNames'
  BY <1>9 DEF Crash, Live
<1> QED
  BY <1>1, <1>2, <1>3, <1>4, <1>5, <1>6, <1>7, <1>8, <1>9 DEF Next, Step

(* Each control point keeps its account of what was written and printed.    *)
LEMMA ProgressStep == Inv /\ [Next]_vars => Progress'
<1> SUFFICES ASSUME Inv, [Next]_vars PROVE Progress'
  OBVIOUS
<1> USE OutputAssumption DEF Inv, TypeOK, Progress, ProgressAt, Holding
<1>1. CASE UNCHANGED vars
  BY <1>1 DEF vars
<1>2. ASSUME NEW p \in Proc, Generate(p) PROVE Progress'
  BY <1>2 DEF Generate, Goto
<1>3. ASSUME NEW p \in Proc, StdoutWrite(p) PROVE Progress'
  BY <1>3 DEF StdoutWrite, Goto
<1>4. ASSUME NEW p \in Proc, CreateTemp(p) PROVE Progress'
  BY <1>4 DEF CreateTemp, Goto
<1>5. ASSUME NEW p \in Proc, WriteTemp(p) PROVE Progress'
  BY <1>5 DEF WriteTemp, Goto
<1>6. ASSUME NEW p \in Proc, CloseTemp(p) PROVE Progress'
  BY <1>6 DEF CloseTemp, Goto
<1>7. ASSUME NEW p \in Proc, Rename(p) PROVE Progress'
  BY <1>7 DEF Rename, Goto
<1>8. ASSUME NEW p \in Proc, RemoveTemp(p) PROVE Progress'
  BY <1>8 DEF RemoveTemp, Goto
<1>9. ASSUME NEW p \in Proc, Crash(p) PROVE Progress'
  BY <1>9 DEF Crash
<1> QED
  BY <1>1, <1>2, <1>3, <1>4, <1>5, <1>6, <1>7, <1>8, <1>9 DEF Next, Step

(* The output path changes only to a whole body of an invocation that ends. *)
LEMMA WholeStep == Inv /\ [Next]_vars => WholeAtDest'
<1> SUFFICES ASSUME Inv, [Next]_vars PROVE WholeAtDest'
  OBVIOUS
<1> USE OutputAssumption DEF Inv, TypeOK, WholeAtDest, Paths
<1>1. CASE UNCHANGED vars
  BY <1>1 DEF vars
<1>2. ASSUME NEW p \in Proc, Generate(p) PROVE WholeAtDest'
  BY <1>2 DEF Generate, Goto
<1>3. ASSUME NEW p \in Proc, StdoutWrite(p) PROVE WholeAtDest'
  BY <1>3 DEF StdoutWrite, Goto
<1>4. ASSUME NEW p \in Proc, CreateTemp(p) PROVE WholeAtDest'
  BY <1>4 DEF CreateTemp, Goto
<1>5. ASSUME NEW p \in Proc, WriteTemp(p) PROVE WholeAtDest'
  BY <1>5 DEF WriteTemp, Goto
<1>6. ASSUME NEW p \in Proc, CloseTemp(p) PROVE WholeAtDest'
  BY <1>6 DEF CloseTemp, Goto
<1>7. ASSUME NEW p \in Proc, Rename(p) PROVE WholeAtDest'
  BY <1>7 DEF Rename, Goto, OwnNames, Progress, ProgressAt, Holding
<1>8. ASSUME NEW p \in Proc, RemoveTemp(p) PROVE WholeAtDest'
  BY <1>8 DEF RemoveTemp, Goto, OwnNames, Holding
<1>9. ASSUME NEW p \in Proc, Crash(p) PROVE WholeAtDest'
  BY <1>9 DEF Crash, Live
<1> QED
  BY <1>1, <1>2, <1>3, <1>4, <1>5, <1>6, <1>7, <1>8, <1>9 DEF Next, Step

(* The inductive invariant: names, contents and output path together.       *)
THEOREM Invariance == Spec => []Inv
<1>1. Inv /\ [Next]_vars => Inv'
  BY TypeStep, OwnNamesStep, ProgressStep, WholeStep DEF Inv
<1> QED BY InitInv, <1>1, PTL DEF Spec

(* Every reachable state is a directory of known inodes with bounded contents. *)
THEOREM TypeCorrect == Spec => []TypeOK
<1>1. Inv => TypeOK
  BY DEF Inv
<1> QED BY Invariance, <1>1, PTL

(* No invocation renames, removes or reuses another's temporary file, and an *)
(* ordinary failure leaves none behind (writeOutput's deferred os.Remove).   *)
THEOREM TemporariesOwned == Spec => []NoStrayTemporary
<1>1. Inv => NoStrayTemporary
  BY DEF Inv, OwnNames
<1> QED BY Invariance, <1>1, PTL

(* Evidence that Generate refuses reaches neither the directory nor stdout.  *)
THEOREM RefusedInvisible == Spec => []RefusedLeavesNoTrace
<1>1. Inv => RefusedLeavesNoTrace
  <2> SUFFICES ASSUME Inv, NEW p \in Proc \ Valid
               PROVE  (\A n \in Paths : entry[n] # p) /\ printed[p] = 0
    BY DEF RefusedLeavesNoTrace
  <2>1. printed[p] = 0
    BY DEF Inv, TypeOK, Progress, ProgressAt
  <2>2. entry[Dest] # p
    BY DEF Inv, WholeAtDest
  <2>3. ASSUME NEW n \in Names, entry[n] = p PROVE FALSE
    <3>1. temp[p] = n
      BY <2>3, OutputAssumption DEF Inv, OwnNames, NoStrayTemporary
    <3> QED
      BY <3>1, OutputAssumption DEF Inv, Progress, ProgressAt
  <2> QED BY <2>1, <2>2, <2>3 DEF Paths
<1> QED BY Invariance, <1>1, PTL

(* Success without --output means that the whole body was printed, and no   *)
(* invocation writes to both destinations (os.Stdout.Write or the file).    *)
THEOREM BytesExact == Spec => []ExactBytes
<1>1. Inv => ExactBytes
  <2> SUFFICES ASSUME Inv, NEW p \in Proc
               PROVE  /\ pc[p] = "ok" /\ p \in Stdout => printed[p] = Chunks
                      /\ written[p] > 0 => printed[p] = 0
    BY DEF ExactBytes
  <2> QED BY DEF Inv, TypeOK, Progress, ProgressAt
<1> QED BY Invariance, <1>1, PTL

(* writeOutput implements the atomic register: a step is invisible at the   *)
(* output path, or publishes one whole body, or ends an invocation without  *)
(* touching the path.                                                       *)
THEOREM Refinement == Spec => AtomicOutput
<1>1. Init => Abstract!AInit
  <2> SUFFICES ASSUME Init PROVE Abstract!AInit
    OBVIOUS
  <2>1. \A p \in Proc : Outcome(pc[p]) = "running"
    BY DEF Init, Outcome, Live
  <2>2. Content(entry[Dest]) \in {<<Prior>>, <<Nil>>}
    BY OutputAssumption DEF Init, Content, Paths
  <2> QED BY <2>1, <2>2 DEF Abstract!AInit
<1>2. Inv /\ [Next]_vars => [Abstract!ANext]_(Abstract!avars)
  <2> SUFFICES ASSUME Inv, [Next]_vars
               PROVE  [Abstract!ANext]_(Abstract!avars)
    OBVIOUS
  <2> DEFINE file == Content(entry[Dest])
             returned == [q \in Proc |-> Outcome(pc[q])]
  <2>1. CASE UNCHANGED vars
    BY <2>1 DEF vars, Abstract!avars, Content
  <2>2. ASSUME NEW p \in Proc, NEW to \in Live \cup Over,
               pc[p] \in Live, pc' = [pc EXCEPT ![p] = to]
        PROVE  /\ returned[p] = "running"
               /\ returned' = [returned EXCEPT ![p] = Outcome(to)]
    <3>1. Outcome(pc[p]) = "running"
      BY <2>2 DEF Outcome
    <3>2. \A q \in Proc : Outcome(pc'[q]) = IF q = p THEN Outcome(to) ELSE Outcome(pc[q])
      BY <2>2 DEF Inv, TypeOK
    <3> QED BY <3>1, <3>2
  \* A live invocation is not the one whose file is at the output path.
  <2>3. ASSUME NEW p \in Proc, pc[p] \in Live, entry'[Dest] = entry[Dest],
               \A q \in Proc \ {p} : written'[q] = written[q]
        PROVE  file' = file
    <3>1. entry[Dest] # p
      BY <2>3 DEF Inv, WholeAtDest, Live
    <3> QED BY <2>3, <3>1 DEF Content
  \* Steps that end nothing.
  <2>4. ASSUME NEW p \in Proc, NEW to \in Live, pc[p] \in Live,
               pc' = [pc EXCEPT ![p] = to], file' = file
        PROVE  UNCHANGED Abstract!avars
    <3>1. returned' = returned
      <4>1. Outcome(to) = "running"
        BY <2>4 DEF Outcome
      <4>2. \A q \in Proc : Outcome(pc'[q]) = Outcome(pc[q])
        BY <2>4, <4>1 DEF Inv, TypeOK, Outcome
      <4> QED BY <4>2
    <3> QED BY <2>4, <3>1 DEF Abstract!avars
  \* Steps that end in an error or by a kill.
  <2>5. ASSUME NEW p \in Proc, NEW to \in {"error", "leaked", "crashed"},
               pc[p] \in Live, pc' = [pc EXCEPT ![p] = to], file' = file
        PROVE  Abstract!ANext
    <3>1. to \in Over /\ Outcome(to) \in {"error", "crashed"}
      BY DEF Over, Outcome, Live
    <3>2. Abstract!Return(p, Outcome(to))
      BY <2>2, <2>5, <3>1 DEF Abstract!Return
    <3> QED BY <2>5, <3>1, <3>2 DEF Abstract!ANext, Abstract!GiveUp
  <2>6. ASSUME NEW p \in Proc, Step(p) \/ Crash(p)
        PROVE  [Abstract!ANext]_(Abstract!avars)
    <3>0. Dest \in Paths /\ Dest \notin Names
      BY OutputAssumption DEF Paths
    <3>1. CASE Generate(p)
      <4>1. file' = file
        BY <3>1, <2>3 DEF Generate, Goto, Live
      <4> QED BY <3>1, <4>1, <2>4, <2>5 DEF Generate, Goto, Live
    <3>2. CASE StdoutWrite(p)
      <4>1. pc[p] = "stdout" /\ file' = file
        BY <3>2, <2>3 DEF StdoutWrite, Goto, Live
      <4>2. CASE Goto(p, "stdout", "ok")
        <5>1. Abstract!Return(p, "ok")
          BY <4>1, <4>2, <2>2 DEF Abstract!Return, Goto, Live, Over, Outcome
        <5>2. p \in Valid \cap Stdout
          BY <4>1 DEF Inv, Progress, ProgressAt
        <5> QED BY <4>1, <5>1, <5>2 DEF Abstract!ANext, Abstract!PrintBody
      <4>3. CASE Goto(p, "stdout", "stdout") \/ Goto(p, "stdout", "error")
        BY <4>1, <4>3, <2>4, <2>5 DEF Goto, Live
      <4> QED BY <3>2, <4>2, <4>3 DEF StdoutWrite
    <3>3. CASE CreateTemp(p)
      <4>1. file' = file
        BY <3>3, <3>0, <2>3 DEF CreateTemp, Goto, Live, Inv, TypeOK
      <4> QED BY <3>3, <4>1, <2>4, <2>5 DEF CreateTemp, Goto, Live
    <3>4. CASE WriteTemp(p)
      <4>1. file' = file
        BY <3>4, <2>3 DEF WriteTemp, Goto, Live, Inv, TypeOK
      <4> QED BY <3>4, <4>1, <2>4 DEF WriteTemp, Goto, Live
    <3>5. CASE CloseTemp(p)
      <4>1. file' = file
        BY <3>5, <2>3 DEF CloseTemp, Goto, Live
      <4> QED BY <3>5, <4>1, <2>4 DEF CloseTemp, Goto, Live
    <3>6. CASE Rename(p)
      <4>1. CASE Goto(p, "rename", "cleanup") /\ UNCHANGED entry
        <5>1. file' = file
          BY <3>6, <4>1, <2>3 DEF Rename, Goto, Live
        <5> QED BY <4>1, <5>1, <2>4 DEF Goto, Live
      <4>2. CASE /\ Goto(p, "rename", "ok")
                 /\ entry' = [entry EXCEPT ![Dest] = entry[temp[p]], ![temp[p]] = Nil]
        <5>1. /\ entry[temp[p]] = p /\ temp[p] \in Names
              /\ written[p] = Chunks /\ p \in Valid \ Stdout
          BY <4>2 DEF Goto, Inv, OwnNames, Holding, Progress, ProgressAt
        <5>2. entry'[Dest] = p
          BY <4>2, <5>1, <3>0 DEF Inv, TypeOK
        <5>3. file' = <<p, Chunks>>
          BY <3>6, <5>1, <5>2 DEF Content, Rename
        <5>4. Abstract!Return(p, "ok")
          BY <4>2, <2>2 DEF Abstract!Return, Goto, Live, Over, Outcome
        <5> QED BY <5>1, <5>3, <5>4 DEF Abstract!ANext, Abstract!Publish
      <4> QED BY <3>6, <4>1, <4>2 DEF Rename
    <3>7. CASE RemoveTemp(p)
      <4>1. pc[p] = "cleanup" /\ temp[p] \in Names
        BY <3>7 DEF RemoveTemp, Goto, Inv, OwnNames, Holding
      <4>2. file' = file
        BY <3>7, <4>1, <3>0, <2>3 DEF RemoveTemp, Live, Inv, TypeOK
      <4> QED BY <3>7, <4>2, <2>5 DEF RemoveTemp, Goto, Live
    <3>8. CASE Crash(p)
      <4>1. file' = file
        BY <3>8, <2>3 DEF Crash
      <4> QED BY <3>8, <4>1, <2>5 DEF Crash
    <3> QED BY <2>6, <3>1, <3>2, <3>3, <3>4, <3>5, <3>6, <3>7, <3>8 DEF Step
  <2> QED BY <2>1, <2>6 DEF Next
<1> QED BY <1>1, <1>2, Invariance, PTL DEF Spec, AtomicOutput, Abstract!ASpec

-------------------------------------------------------------------------------
\* The steps that an invocation may still take, counting a chunk as a step.
Left(p) ==
    CASE pc[p] = "generate" -> Chunks + 6
      [] pc[p] = "create" -> Chunks + 5
      [] pc[p] = "write" -> (Chunks - written[p]) + 4
      [] pc[p] = "close" -> 3
      [] pc[p] = "rename" -> 2
      [] pc[p] = "cleanup" -> 1
      [] pc[p] = "stdout" -> (Chunks - printed[p]) + 1
      [] pc[p] \in Over -> 0

Bounded == \A p \in Proc : Left(p) \in 0 .. Chunks + 6 /\ (Left(p) = 0 <=> pc[p] \in Over)
Nearer == \A p \in Proc : Left(p)' <= Left(p) /\ (Step(p) => Left(p)' < Left(p))

LEMMA LeftBounded == Inv => Bounded
<1> SUFFICES ASSUME Inv, NEW p \in Proc
             PROVE  Left(p) \in 0 .. Chunks + 6 /\ (Left(p) = 0 <=> pc[p] \in Over)
  BY DEF Bounded
<1>1. /\ pc[p] \in Live \cup Over /\ Chunks \in Nat
      /\ written[p] \in 0 .. Chunks /\ printed[p] \in 0 .. Chunks
  BY OutputAssumption DEF Inv, TypeOK
<1> QED BY <1>1 DEF Live, Over, Left

LEMMA NextBounded == Inv' => Bounded'
BY LeftBounded, PTL

(* No step of an invocation, repeated chunks included, leads back.          *)
LEMMA StepLowers == ASSUME Inv, Inv', NEW p \in Proc, Step(p) PROVE Left(p)' < Left(p)
<1>0. Left(p) \in Nat /\ Left(p)' \in Nat /\ ProgressAt(p) /\ ProgressAt(p)'
  BY LeftBounded, NextBounded, OutputAssumption DEF Bounded, Inv, Progress
<1> USE OutputAssumption DEF Inv, TypeOK, Goto, Left, Live, Over
<1>1. CASE Generate(p)
  BY <1>1 DEF Generate
<1>2. CASE StdoutWrite(p)
  BY <1>0, <1>2 DEF StdoutWrite, ProgressAt
<1>3. CASE CreateTemp(p)
  BY <1>0, <1>3 DEF CreateTemp, ProgressAt
<1>4. CASE WriteTemp(p)
  BY <1>0, <1>4 DEF WriteTemp, ProgressAt
<1>5. CASE CloseTemp(p)
  BY <1>5 DEF CloseTemp
<1>6. CASE Rename(p)
  BY <1>6 DEF Rename
<1>7. CASE RemoveTemp(p)
  BY <1>7 DEF RemoveTemp
<1> QED BY <1>1, <1>2, <1>3, <1>4, <1>5, <1>6, <1>7 DEF Step

(* A step or the end of one invocation leaves the others as far as they are. *)
LEMMA OthersWait ==
    ASSUME Inv, NEW e \in Proc, Step(e) \/ Crash(e), NEW p \in Proc, p # e
    PROVE  Left(p)' = Left(p)
<1>1. pc'[p] = pc[p] /\ written'[p] = written[p] /\ printed'[p] = printed[p]
  BY DEF Inv, TypeOK, Step, Crash, Goto, Generate, StdoutWrite, CreateTemp, WriteTemp,
         CloseTemp, Rename, RemoveTemp
<1> QED BY <1>1 DEF Left

(***************************************************************************)
(* Each invocation takes at most Chunks + 6 steps, whatever the others do: *)
(* every step of its own brings it nearer to its end, and no step of       *)
(* another, nor a kill, takes it further from it.  (That it can always     *)
(* take a next step is left to TLC: EveryInvocationEnds.)                  *)
(***************************************************************************)
THEOREM StepsBounded == Spec => []Bounded /\ [][Nearer]_vars
<1>1. ASSUME Inv, Inv', [Next]_vars PROVE [Nearer]_vars
  <2> SUFFICES ASSUME ~ UNCHANGED vars, NEW p \in Proc PROVE Left(p)' <= Left(p)
    BY <1>1, StepLowers DEF Nearer
  <2>0. Left(p) \in Nat /\ Left(p)' \in Nat
    BY <1>1, LeftBounded, NextBounded, OutputAssumption DEF Bounded
  <2>1. PICK e \in Proc : Step(e) \/ Crash(e)
    BY <1>1 DEF Next
  <2>2. CASE e # p
    BY <1>1, <2>0, <2>1, <2>2, OthersWait
  <2>3. CASE e = p /\ Step(p)
    BY <1>1, <2>0, <2>3, StepLowers
  <2>4. CASE Crash(p)
    <3>1. Left(p)' = 0
      BY <1>1, <2>4 DEF Crash, Inv, TypeOK, Left, Over
    <3> QED BY <2>0, <3>1
  <2> QED BY <2>1, <2>2, <2>3, <2>4
<1> QED BY <1>1, LeftBounded, Invariance, PTL DEF Spec
===============================================================================
