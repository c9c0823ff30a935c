---------------------------- MODULE InstallerProofs ----------------------------
(***************************************************************************)
(* Proofs about Installer for any number of runs and any modules served.   *)
(*                                                                         *)
(* That link publishes a whole build of the pinned module follows from how *)
(* far a run must have come before it links, and that what it published    *)
(* stays so from its never building again: RunAt states both.  That no     *)
(* run works in a storage it must not follow depends on the kinds of the   *)
(* two directories never turning into symlinks after the check: Storage.   *)
(***************************************************************************)
EXTENDS Installer, TLAPS

Stopped == {"cleanup", "end", "stuck", "killed"}

RunAt(p) ==
    /\ pc[p] \in {"build", "link"} => fetched[p] = {Pin}
    /\ pc[p] = "link" => built[p] = "whole"
    /\ pc[p] \in Live \ {"cleanup"} => status[p] = "running"
    /\ pc[p] = "cleanup" => status[p] \in {"published", "failed"}
    /\ status[p] \in {"running", "published"} => pc[p] \in Live
    /\ dest = p => pc[p] \in Stopped /\ fetched[p] = {Pin} /\ built[p] = "whole"

Usable == {"absent", "directory"}

Storage ==
    /\ root # "directory" => bin = "absent"
    /\ \A p \in Proc : pc[p] = "prepare" => "symlink" \notin {root, bin}
    /\ ~ ({root, bin} \subseteq Usable) =>
          /\ dest = Empty /\ staging = {}
          /\ \A p \in Proc : pc[p] \in {"check", "prepare", "end", "killed"} /\ fetched[p] = {}

Inv == TypeOK /\ (\A p \in Proc : RunAt(p)) /\ Storage /\ NoStagingLeft

-------------------------------------------------------------------------------
(* No run has begun, and nothing of one is anywhere.                         *)
LEMMA InitInv == Init => Inv
<1> SUFFICES ASSUME Init PROVE Inv
  OBVIOUS
<1>1. TypeOK
  BY DEF Init, TypeOK, Live, Trapped, Kinds
<1>2. Storage
  BY DEF Init, Storage, Usable, Kinds
<1>3. \A p \in Proc : RunAt(p)
  BY InstallerAssumption DEF Init, RunAt, Live, Trapped
<1> QED BY <1>1, <1>2, <1>3 DEF Init, Inv, NoStagingLeft

(* A step of one run, or its end by a signal, keeps the state well typed.    *)
LEMMA RunType ==
    ASSUME Inv, NEW p \in Proc, Step(p) \/ Interrupt(p) \/ Kill(p)
    PROVE  TypeOK'
<1> USE InstallerAssumption DEF Inv, TypeOK, Goto, Ends, Refuse, Abort, Live, Trapped, Kinds
<1>1. CASE Check(p)
  BY <1>1 DEF Check
<1>2. CASE Prepare(p)
  BY <1>2 DEF Prepare
<1>3. CASE Stage(p)
  BY <1>3 DEF Stage
<1>4. CASE Download(p)
  BY <1>4 DEF Download
<1>5. CASE Build(p)
  BY <1>5 DEF Build
<1>6. CASE Link(p)
  BY <1>6 DEF Link
<1>7. CASE Cleanup(p)
  BY <1>7 DEF Cleanup, RunAt
<1>8. CASE Interrupt(p)
  BY <1>8 DEF Interrupt
<1>9. CASE Kill(p)
  BY <1>9 DEF Kill
<1> QED BY <1>1, <1>2, <1>3, <1>4, <1>5, <1>6, <1>7, <1>8, <1>9 DEF Step

(* It leaves the other runs, and what they have published, as they were.     *)
LEMMA RunProgress ==
    ASSUME Inv, NEW p \in Proc, Step(p) \/ Interrupt(p) \/ Kill(p)
    PROVE  \A q \in Proc : RunAt(q)'
<1> USE InstallerAssumption DEF Inv, TypeOK, Goto, Ends, Refuse, Abort, Live, Trapped, Stopped
<1> TAKE q \in Proc
<1>0. RunAt(q) /\ RunAt(p)
  OBVIOUS
<1>1. CASE Check(p)
  BY <1>0, <1>1 DEF Check, RunAt
<1>2. CASE Prepare(p)
  BY <1>0, <1>2 DEF Prepare, RunAt
<1>3. CASE Stage(p)
  BY <1>0, <1>3 DEF Stage, RunAt
<1>4. CASE Download(p)
  BY <1>0, <1>4 DEF Download, RunAt
<1>5. CASE Build(p)
  BY <1>0, <1>5 DEF Build, RunAt
<1>6. CASE Link(p)
  BY <1>0, <1>6 DEF Link, RunAt
<1>7. CASE Cleanup(p)
  BY <1>0, <1>7 DEF Cleanup, RunAt
<1>8. CASE Interrupt(p)
  BY <1>0, <1>8 DEF Interrupt, RunAt
<1>9. CASE Kill(p)
  BY <1>0, <1>9 DEF Kill, RunAt
<1> QED BY <1>1, <1>2, <1>3, <1>4, <1>5, <1>6, <1>7, <1>8, <1>9 DEF Step

(* It goes past the checks only in a storage that is not a symlink.          *)
LEMMA RunStorage ==
    ASSUME Inv, NEW p \in Proc, Step(p) \/ Interrupt(p) \/ Kill(p)
    PROVE  Storage' /\ NoStagingLeft'
<1> USE DEF Inv, TypeOK, Goto, Refuse, Abort, Live, Trapped, Storage, Usable, NoStagingLeft
<1>1. CASE Check(p)
  BY <1>1 DEF Check
<1>2. CASE Prepare(p)
  BY <1>2 DEF Prepare, Kinds
<1>3. CASE Stage(p)
  BY <1>3 DEF Stage
<1>4. CASE Download(p)
  BY <1>4 DEF Download
<1>5. CASE Build(p)
  BY <1>5 DEF Build
<1>6. CASE Link(p)
  BY <1>6 DEF Link
<1>7. CASE Cleanup(p)
  BY <1>7 DEF Cleanup
<1>8. CASE Interrupt(p)
  BY <1>8 DEF Interrupt
<1>9. CASE Kill(p)
  BY <1>9 DEF Kill
<1> QED BY <1>1, <1>2, <1>3, <1>4, <1>5, <1>6, <1>7, <1>8, <1>9 DEF Step

(* Every step keeps the invariant.                                           *)
LEMMA NextInv == Inv /\ [Next]_vars => Inv'
<1> SUFFICES ASSUME Inv, [Next]_vars PROVE Inv'
  OBVIOUS
<1>1. CASE UNCHANGED vars
  BY <1>1 DEF vars, Inv, TypeOK, RunAt, Storage, NoStagingLeft
<1>2. CASE Occupy \/ MoveAside
  <2>1. TypeOK' /\ NoStagingLeft'
    BY <1>2 DEF Occupy, MoveAside, Inv, TypeOK, NoStagingLeft
  <2>2. \A p \in Proc : RunAt(p)'
    BY <1>2, InstallerAssumption DEF Occupy, MoveAside, Inv, RunAt
  <2>3. Storage'
    BY <1>2 DEF Occupy, MoveAside, Inv, Storage, Usable
  <2> QED BY <2>1, <2>2, <2>3 DEF Inv
<1>3. ASSUME NEW p \in Proc, Step(p) \/ Interrupt(p) \/ Kill(p) PROVE Inv'
  BY <1>3, RunType, RunProgress, RunStorage DEF Inv
<1> QED BY <1>1, <1>2, <1>3 DEF Next

-------------------------------------------------------------------------------
(* The processes are at known points, and a run that has ended reports how.  *)
THEOREM TypeCorrect == Spec => []TypeOK
<1>1. Inv => TypeOK
  BY DEF Inv
<1> QED BY <1>1, InitInv, NextInv, PTL DEF Spec

(* A storage that is a symlink or a file is never worked in.                 *)
THEOREM NotFollowed == Spec => []StorageNotFollowed
<1>1. Inv => StorageNotFollowed
  BY DEF Inv, Storage, StorageNotFollowed, Usable
<1> QED BY <1>1, InitInv, NextInv, PTL DEF Spec

(* A staging tree is that of a run that has not cleaned up yet or never will.*)
THEOREM StagingRemoved == Spec => []NoStagingLeft
<1>1. Inv => NoStagingLeft
  BY DEF Inv
<1> QED BY <1>1, InitInv, NextInv, PTL DEF Spec

(***************************************************************************)
(* The racing runs implement the write-once slot: a link fills it with a   *)
(* whole pinned build, other steps of a run change its own status or       *)
(* nothing, and a run stays with what it has built.                        *)
(***************************************************************************)
THEOREM Refinement == Spec => NeverOverwritten
<1> USE InstallerAssumption
<1>1. Init => Slot!SInit
  BY DEF Init, Slot!SInit, Content
<1>2. ASSUME Inv, Inv', [Next]_vars PROVE [Slot!SNext]_Slot!svars
  <2>1. CASE UNCHANGED vars
    BY <2>1 DEF vars, Slot!svars, Content
  <2>2. CASE Occupy
    BY <2>2 DEF Occupy, Slot!SNext, Slot!Occupy, Content
  <2>3. CASE MoveAside
    <3>1. Content(dest) # Empty
      BY <1>2, <2>3 DEF MoveAside, Content, Inv, TypeOK
    <3> QED BY <2>3, <3>1 DEF MoveAside, Slot!SNext, Slot!Vacate, Content
  <2>4. ASSUME NEW p \in Proc, Step(p) \/ Interrupt(p) \/ Kill(p)
        PROVE  [Slot!SNext]_Slot!svars
    <3> USE <1>2, <2>4 DEF Inv, TypeOK, Goto, Ends, Refuse, Abort
    <3>0. RunAt(p)
      OBVIOUS
    <3>1. ASSUME ~ Link(p) PROVE Content(dest)' = Content(dest)
      <4>1. dest' = dest
        BY <3>1 DEF Step, Check, Prepare, Stage, Download, Build, Cleanup, Interrupt, Kill
      <4>2. dest = p => fetched'[p] = fetched[p] /\ built'[p] = built[p]
        BY <3>0, <3>1 DEF Step, Check, Prepare, Stage, Download, Build, Cleanup, Interrupt,
                          Kill, RunAt, Stopped
      <4>3. \A q \in Proc \ {p} : fetched'[q] = fetched[q] /\ built'[q] = built[q]
        BY <3>1 DEF Step, Check, Prepare, Stage, Download, Build, Cleanup, Interrupt, Kill
      <4> QED BY <4>1, <4>2, <4>3 DEF Content
    <3>2. ASSUME ~ Link(p)
          PROVE  \/ status' = status
                 \/ Slot!Becomes(p, "published", "ok")
                 \/ \E from \in {"running", "published"}, to \in {"failed", "dead"} :
                       Slot!Becomes(p, from, to)
      <4>1. CASE Check(p) \/ Prepare(p) \/ Stage(p) \/ Download(p) \/ Build(p)
        BY <3>0, <4>1 DEF Check, Prepare, Stage, Download, Build, Slot!Becomes, RunAt, Live,
                          Trapped
      <4>2. CASE Cleanup(p)
        BY <3>0, <4>2 DEF Cleanup, Slot!Becomes, RunAt
      <4>3. CASE Interrupt(p)
        BY <3>0, <4>3 DEF Interrupt, Slot!Becomes, RunAt, Live, Trapped
      <4>4. CASE Kill(p)
        <5>1. status[p] \in {"running", "published", "failed"}
          BY <3>0, <4>4 DEF Kill, RunAt
        <5> QED BY <4>4, <5>1 DEF Kill, Slot!Becomes
      <4> QED BY <3>2, <4>1, <4>2, <4>3, <4>4 DEF Step
    <3>3. CASE ~ Link(p)
      BY <3>1, <3>2, <3>3 DEF Slot!SNext, Slot!Succeed, Slot!Fail, Slot!svars
    <3>4. CASE Link(p) /\ dest' = p
      <4>1. /\ dest = Empty /\ Slot!Becomes(p, "running", "published")
            /\ fetched'[p] = {Pin} /\ built'[p] = "whole"
        BY <3>0, <3>4 DEF Link, Slot!Becomes, RunAt, Live, Trapped, Stopped
      <4>2. Content(dest) = Empty /\ Content(dest)' = Executable({Pin}, "whole")
        BY <3>4, <4>1 DEF Content
      <4> QED BY <4>1, <4>2 DEF Slot!SNext, Slot!Publish
    <3>5. CASE Link(p) /\ dest' # p
      <4>1. /\ Content(dest)' = Content(dest)
            /\ Slot!Becomes(p, "running", "failed")
        BY <3>0, <3>5 DEF Link, Slot!Becomes, RunAt, Live, Trapped, Content
      <4> QED BY <4>1 DEF Slot!SNext, Slot!Fail
    <3> QED BY <3>3, <3>4, <3>5
  <2> QED BY <1>2, <2>1, <2>2, <2>3, <2>4 DEF Next
<1> QED BY <1>1, <1>2, InitInv, NextInv, PTL DEF Spec, NeverOverwritten, Slot!SSpec

-------------------------------------------------------------------------------
\* The steps that a run may still take; its build takes two.
Left(p) ==
    CASE pc[p] = "check" -> 8
      [] pc[p] = "prepare" -> 7
      [] pc[p] = "stage" -> 6
      [] pc[p] = "download" -> 5
      [] pc[p] = "build" -> IF built[p] = "none" THEN 4 ELSE 3
      [] pc[p] = "link" -> 2
      [] pc[p] = "cleanup" -> 1
      [] OTHER -> 0

Bounded == \A p \in Proc : Left(p) \in 0 .. 8 /\ (Left(p) = 0 <=> pc[p] \notin Live)
Nearer == \A p \in Proc : Left(p)' <= Left(p) /\ (Step(p) => Left(p)' < Left(p))

LEMMA LeftBounded == Inv => Bounded
<1> SUFFICES ASSUME NEW p \in Proc
             PROVE  Left(p) \in 0 .. 8 /\ (Left(p) = 0 <=> pc[p] \notin Live)
  BY DEF Bounded
<1> QED BY DEF Left, Live, Trapped

(* A step of a run leads forward, also where it ends in a failure.           *)
LEMMA StepLowers == ASSUME Inv, NEW p \in Proc, Step(p) PROVE Left(p)' < Left(p)
<1> USE DEF Inv, TypeOK, Goto, Refuse, Abort, Left, Live, Trapped
<1>1. CASE Check(p)
  BY <1>1 DEF Check
<1>2. CASE Prepare(p)
  BY <1>2 DEF Prepare
<1>3. CASE Stage(p)
  BY <1>3 DEF Stage
<1>4. CASE Download(p)
  BY <1>4 DEF Download
<1>5. CASE Build(p)
  BY <1>5 DEF Build
<1>6. CASE Link(p)
  BY <1>6 DEF Link
<1>7. CASE Cleanup(p)
  BY <1>7 DEF Cleanup
<1> QED BY <1>1, <1>2, <1>3, <1>4, <1>5, <1>6, <1>7 DEF Step

(* What one run does leaves the others as far as they are.                   *)
LEMMA OthersWait ==
    ASSUME Inv, NEW e \in Proc, Step(e) \/ Interrupt(e) \/ Kill(e), NEW p \in Proc, p # e
    PROVE  Left(p)' = Left(p)
<1>1. pc'[p] = pc[p] /\ built'[p] = built[p]
  BY DEF Inv, TypeOK, Goto, Refuse, Abort, Step, Interrupt, Kill, Check, Prepare, Stage,
         Download, Build, Link, Cleanup
<1> QED BY <1>1 DEF Left

(***************************************************************************)
(* Each run takes at most eight steps, however many others race it, fill   *)
(* the destination or move it aside: its own steps bring it nearer to its  *)
(* end, and neither another's step nor a signal takes it further from it.  *)
(* (That it can always take a next step is left to TLC: EveryRunEnds.)     *)
(***************************************************************************)
THEOREM StepsBounded == Spec => []Bounded /\ [][Nearer]_vars
<1>1. ASSUME Inv, [Next]_vars PROVE [Nearer]_vars
  <2> SUFFICES ASSUME ~ UNCHANGED vars, NEW p \in Proc PROVE Left(p)' <= Left(p)
    BY <1>1, StepLowers DEF Nearer
  <2>0. Left(p) \in 0 .. 8 /\ Left(p)' \in 0 .. 8
    BY DEF Left
  <2>1. CASE Occupy \/ MoveAside
    BY <2>0, <2>1 DEF Occupy, MoveAside, Left
  <2>2. ASSUME NEW e \in Proc, Step(e) \/ Interrupt(e) \/ Kill(e), e # p
        PROVE  Left(p)' <= Left(p)
    BY <1>1, <2>0, <2>2, OthersWait
  <2>3. CASE Step(p)
    BY <1>1, <2>0, <2>3, StepLowers
  <2>4. CASE Interrupt(p) \/ Kill(p)
    <3>1. Left(p)' <= 1 /\ Left(p) >= 1
      BY <1>1, <2>4 DEF Interrupt, Kill, Abort, Goto, Inv, TypeOK, Left, Live, Trapped
    <3> QED BY <2>0, <3>1
  <2> QED BY <1>1, <2>1, <2>2, <2>3, <2>4 DEF Next
<1> QED BY <1>1, LeftBounded, InitInv, NextInv, PTL DEF Spec
===============================================================================
