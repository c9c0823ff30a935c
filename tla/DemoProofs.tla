------------------------------ MODULE DemoProofs ------------------------------
(***************************************************************************)
(* Proofs about Demo for any number of runs and of cases.                  *)
(*                                                                         *)
(* That a run works in a directory of its own (Own) is what makes the      *)
(* results it reads its own: when it comes to a case there is no result of *)
(* that case yet, so one that is there was written by its verifier, after  *)
(* it judged this run's bundle, and no failure is forgotten (Earned).      *)
(***************************************************************************)
EXTENDS Demo, TLAPS

Working == {"root", "predicate", "sign", "offline", "read", "cleanup"}

Own(d) ==
    /\ pc[d] \in Working => dirs[Path(d)].owner = d
    /\ dirs[d] # Gone =>
          /\ option[d] # "given" /\ dirs[d].owner = d /\ pc[d] \notin {"start", "prepare"}
          /\ pc[d] = "end" => option[d] = "kept"

Result(d, c) == dirs[Path(d)].vsa[c]

Earned(d) ==
    /\ pc[d] \in {"root", "predicate", "sign", "offline"} =>
          \A c \in Cases : c >= at[d] => Result(d, c) = "none"
    /\ pc[d] = "read" =>
          /\ \A c \in Cases : c > at[d] => Result(d, c) = "none"
          /\ Result(d, at[d]) # "none" /\ Ok(Result(d, at[d]), at[d], code[d])
                => at[d] \in judged[d]
    /\ pc[d] \in {"start", "prepare", "root", "predicate", "sign", "offline", "read"} =>
          (failures[d] = 0 => 1..(at[d] - 1) \subseteq judged[d])
    /\ status[d] = "ok" => judged[d] = Cases

Inv == TypeOK /\ \A d \in Run : Own(d) /\ Earned(d)

-------------------------------------------------------------------------------
LEMMA WantType == /\ Len(Want) \in Nat /\ Cases = 1..Len(Want) /\ 1 \in Cases
                  /\ \A c \in Cases : Want[c] \in {"PASSED", "FAILED"}
BY DemoAssumption DEF Cases

LEMMA GivesType == \A c \in Cases : Gives(c) \in {"PASSED", "FAILED"}
BY WantType DEF Gives, Opposite

LEMMA DirectoryTypes ==
    /\ Gone \in Directories /\ Retained \in Directories /\ \A d \in Run : New(d) \in Directories
    /\ Gone.owner = "nobody" /\ \A d \in Run : New(d).owner = d /\ New(d) # Gone
    /\ \A d \in Run : \A c \in Cases : New(d).vsa[c] = "none"
<1>1. Gone \in Directories /\ Gone.owner = "nobody" /\ \A c \in Cases : Gone.vsa[c] = "none"
  BY DEF Gone, Directories, Results
<1>2. \A d \in Run : New(d) \in Directories /\ New(d).owner = d /\ New(d).vsa = Gone.vsa
  BY <1>1 DEF New, Directories
<1>3. Want \in [Cases -> Results]
  BY DemoAssumption, WantType DEF Results
<1>4. Retained \in Directories
  BY <1>1, <1>3 DEF Retained, New, Directories
<1> QED BY <1>1, <1>2, <1>4, DemoAssumption

LEMMA PathType == ASSUME NEW d \in Run PROVE Path(d) \in Paths /\ Path(d) \in {d, Given}
BY DEF Path, Paths

LEMMA InitInv == Init => Inv
<1> SUFFICES ASSUME Init PROVE Inv
  OBVIOUS
<1>1. TypeOK
  BY WantType, DirectoryTypes DEF Init, TypeOK, Paths, Over
<1>2. ASSUME NEW d \in Run PROVE Own(d) /\ Earned(d)
  <2>1. pc[d] = "start" /\ at[d] = 1 /\ status[d] = "running" /\ dirs[d] = Gone
    BY DemoAssumption DEF Init, Paths
  <2> QED BY <2>1 DEF Own, Earned, Working
<1> QED BY <1>1, <1>2 DEF Inv

(* A step of one run leaves the others, and all directories but its own, as  *)
(* they were; it takes a path only that is free or that it has.              *)
LEMMA StepLocal ==
    ASSUME Inv, NEW e \in Run, Step(e) \/ Kill(e)
    PROVE  /\ option' = option /\ drifted' = drifted /\ pc'[e] # pc[e]
           /\ \A d \in Run \ {e} :
                 /\ pc'[d] = pc[d] /\ at'[d] = at[d] /\ failures'[d] = failures[d]
                 /\ status'[d] = status[d] /\ code'[d] = code[d] /\ judged'[d] = judged[d]
           /\ \A p \in Paths : p # Path(e) => dirs'[p] = dirs[p]
           /\ dirs[Path(e)] = Gone \/ dirs[Path(e)].owner = e \/ dirs' = dirs
<1> USE DEF Inv, TypeOK, Goto, Fails, Return, Writes
<1>0. Own(e) /\ Path(e) \in Paths
  BY PathType
<1>1. CASE Start(e)
  BY <1>1 DEF Start
<1>2. CASE prepareWorkdir(e)
  BY <1>2 DEF prepareWorkdir
<1>3. CASE TrustedRoot(e)
  BY <1>0, <1>3 DEF TrustedRoot, Own, Working
<1>4. CASE Predicate(e)
  BY <1>4 DEF Predicate
<1>5. CASE Sign(e)
  BY <1>0, <1>5 DEF Sign, Own, Working
<1>6. CASE Offline(e)
  BY <1>0, <1>6 DEF Offline, Own, Working
<1>7. CASE Read(e)
  BY <1>7 DEF Read
<1>8. CASE Cleanup(e)
  BY <1>0, <1>8 DEF Cleanup, Own, Working
<1>9. CASE Kill(e)
  BY <1>9 DEF Kill, Over
<1> QED BY <1>1, <1>2, <1>3, <1>4, <1>5, <1>6, <1>7, <1>8, <1>9 DEF Step

(* So two runs never have a path in common while one of them works in it.    *)
LEMMA OthersDirectory ==
    ASSUME Inv, NEW e \in Run, Step(e) \/ Kill(e), NEW d \in Run, d # e
    PROVE  /\ dirs'[d] = dirs[d] /\ Path(d)' = Path(d)
           /\ pc[d] \in Working => dirs'[Path(d)] = dirs[Path(d)]
<1>1. /\ option' = option /\ \A p \in Paths : p # Path(e) => dirs'[p] = dirs[p]
      /\ dirs[Path(e)] = Gone \/ dirs[Path(e)].owner = e \/ dirs' = dirs
  BY StepLocal
<1>2. d # Path(e) /\ d \in Paths /\ Path(d) \in Paths
  BY PathType, DemoAssumption DEF Paths
<1>3. pc[d] \in Working => dirs[Path(d)].owner = d
  BY DEF Inv, Own
<1>4. ASSUME pc[d] \in Working, Path(d) = Path(e) PROVE dirs' = dirs
  BY <1>1, <1>3, <1>4, DirectoryTypes, DemoAssumption
<1> QED BY <1>1, <1>2, <1>4 DEF Path

LEMMA StepType == ASSUME Inv, NEW e \in Run, Step(e) \/ Kill(e) PROVE TypeOK'
<1> USE DEF Inv, TypeOK, Goto, Fails, Return, Writes, Over
<1>0. Path(e) \in Paths /\ dirs[Path(e)] \in Directories
  BY PathType
<1>1. CASE Start(e)
  BY <1>1 DEF Start
<1>2. CASE prepareWorkdir(e)
  <2>1. dirs' \in [Paths -> Directories]
    BY <1>0, <1>2, DirectoryTypes DEF prepareWorkdir
  <2>2. UNCHANGED <<at, option, failures, drifted, code, judged>>
    BY <1>2 DEF prepareWorkdir
  <2>3. status' \in [Run -> {"running", "ok", "failed"}]
    BY <1>2 DEF prepareWorkdir
  <2>4. \E l \in {"root", "end"} : pc' = [pc EXCEPT ![e] = l]
    BY <1>2 DEF prepareWorkdir
  <2> QED BY <2>1, <2>2, <2>3, <2>4
<1>3. CASE TrustedRoot(e)
  <2>1. [dirs[Path(e)] EXCEPT !.root = {e}] \in Directories
    BY <1>0 DEF Directories
  <2> QED BY <1>0, <1>3, <2>1 DEF TrustedRoot
<1>4. CASE Predicate(e)
  BY <1>4 DEF Predicate
<1>5. CASE Sign(e)
  <2>1. [dirs[Path(e)] EXCEPT !.bundle = {e}] \in Directories
    BY <1>0 DEF Directories
  <2> QED BY <1>0, <1>5, <2>1 DEF Sign
<1>6. CASE Offline(e)
  <2> DEFINE new == [dirs[Path(e)] EXCEPT !.vsa = [dirs[Path(e)].vsa EXCEPT ![at[e]] = Gives(at[e])]]
             wrote == [dirs EXCEPT ![Path(e)].vsa[at[e]] = Gives(at[e])]
  <2>1. new \in Directories /\ at[e] \in Cases
    BY <1>0, GivesType DEF Directories, Results
  <2>2. wrote = [dirs EXCEPT ![Path(e)] = new]
    BY <1>0
  <2> HIDE DEF new
  <2>3. wrote \in [Paths -> Directories]
    BY <1>0, <2>1, <2>2
  <2> HIDE DEF wrote
  <2>4. dirs' \in {dirs, wrote}
    BY <1>6 DEF Offline, wrote
  <2>5. dirs' \in [Paths -> Directories]
    BY <2>3, <2>4
  <2>6. code' \in [Run -> {0, 1}]
    BY <1>6 DEF Offline, ExitFor
  <2>7. judged' \in [Run -> SUBSET Cases]
    BY <1>6, <2>1 DEF Offline
  <2>8. /\ UNCHANGED <<at, option, failures, drifted>>
        /\ pc' \in {[pc EXCEPT ![e] = "read"], [pc EXCEPT ![e] = "cleanup"]}
        /\ status' \in {status, [status EXCEPT ![e] = "failed"]}
    BY <1>6 DEF Offline
  <2> QED BY <2>5, <2>6, <2>7, <2>8
<1>7. CASE Read(e)
  <2>1. at[e] < Len(Want) => at[e] + 1 \in Cases
    BY WantType
  <2>2. at' \in [Run -> Cases]
    BY <1>7, <2>1 DEF Read
  <2>3. failures' \in [Run -> Nat]
    BY <1>7 DEF Read
  <2>4. /\ status' \in [Run -> {"running", "ok", "failed"}]
        /\ pc' \in {[pc EXCEPT ![e] = "predicate"], [pc EXCEPT ![e] = "cleanup"]}
    BY <1>7 DEF Read
  <2>5. code' \in [Run -> {0, 1}] /\ UNCHANGED <<option, dirs, drifted, judged>>
    BY <1>7 DEF Read
  <2> QED BY <2>2, <2>3, <2>4, <2>5
<1>8. CASE Cleanup(e)
  <2>1. dirs' \in [Paths -> Directories]
    BY <1>0, <1>8, DirectoryTypes DEF Cleanup
  <2>2. UNCHANGED <<at, option, failures, status, drifted, code, judged>>
    BY <1>8 DEF Cleanup
  <2>3. \E l \in {"end", "stuck"} : pc' = [pc EXCEPT ![e] = l]
    BY <1>8 DEF Cleanup
  <2> QED BY <2>1, <2>2, <2>3
<1>9. CASE Kill(e)
  BY <1>9 DEF Kill
<1> QED BY <1>1, <1>2, <1>3, <1>4, <1>5, <1>6, <1>7, <1>8, <1>9 DEF Step

(* What it writes there does not change whose the directory is.              *)
LEMMA OwnKept ==
    ASSUME Inv, NEW e \in Run, option' = option, pc[e] \in Working, pc'[e] \in Working,
           \A p \in Paths : p # Path(e) => dirs'[p] = dirs[p],
           dirs'[Path(e)].owner = dirs[Path(e)].owner
    PROVE  Own(e)'
<1>1. Path(e)' = Path(e) /\ dirs'[Path(e)].owner = e
  BY DEF Path, Inv, Own
<1>2. CASE Path(e) = e
  BY <1>1, <1>2, DemoAssumption DEF Own, Working, Path
<1>3. CASE Path(e) # e
  BY <1>1, <1>3 DEF Own, Working, Path, Inv, Paths
<1> QED BY <1>2, <1>3

(* Each run keeps the directory it has made, until it cleans up.             *)
LEMMA StepOwn == ASSUME Inv, NEW e \in Run, Step(e) \/ Kill(e) PROVE Own(e)'
<1> USE DEF Inv, TypeOK, Goto, Fails, Return, Writes, Own, Working, Path
<1>0. /\ Own(e) /\ Path(e) \in Paths /\ Path(e) \in {e, Given} /\ e \in Paths /\ e # Given
      /\ dirs[e] \in Directories /\ dirs[Path(e)] \in Directories /\ option[e] = "given" <=> Path(e) = Given
  BY PathType, DemoAssumption DEF Paths
<1>1. CASE Start(e)
  BY <1>0, <1>1 DEF Start
<1>2. CASE prepareWorkdir(e)
  BY <1>0, <1>2, DirectoryTypes DEF prepareWorkdir
<1>3. CASE TrustedRoot(e)
  <2>1. /\ pc'[e] \in {"predicate", "cleanup"} /\ option' = option
        /\ \A p \in Paths : p # Path(e) => dirs'[p] = dirs[p]
        /\ dirs'[Path(e)].owner = dirs[Path(e)].owner
    BY <1>0, <1>3 DEF TrustedRoot, Directories
  <2> QED BY <1>3, <2>1, OwnKept DEF TrustedRoot
<1>4. CASE Predicate(e)
  BY <1>0, <1>4 DEF Predicate
<1>5. CASE Sign(e)
  <2>1. /\ pc'[e] \in {"offline", "cleanup"} /\ option' = option
        /\ \A p \in Paths : p # Path(e) => dirs'[p] = dirs[p]
        /\ dirs'[Path(e)].owner = dirs[Path(e)].owner
    BY <1>0, <1>5 DEF Sign, Directories
  <2> QED BY <1>5, <2>1, OwnKept DEF Sign
<1>6. CASE Offline(e)
  <2>1. pc[e] = "offline" /\ pc'[e] \in {"read", "cleanup"} /\ option' = option
    BY <1>6 DEF Offline
  <2>2. dirs' \in {dirs, [dirs EXCEPT ![Path(e)].vsa[at[e]] = Gives(at[e])]}
    BY <1>6 DEF Offline
  <2>3. /\ \A p \in Paths : p # Path(e) => dirs'[p] = dirs[p]
        /\ dirs'[Path(e)].owner = dirs[Path(e)].owner
    BY <1>0, <2>2 DEF Directories
  <2> QED BY <2>1, <2>3, OwnKept
<1>7. CASE Read(e)
  BY <1>0, <1>7 DEF Read
<1>8. CASE Cleanup(e)
  BY <1>0, <1>8, DirectoryTypes DEF Cleanup
<1>9. CASE Kill(e)
  BY <1>0, <1>9 DEF Kill, Over
<1> QED BY <1>1, <1>2, <1>3, <1>4, <1>5, <1>6, <1>7, <1>8, <1>9 DEF Step

(* What the verifier leaves of a case, and its exit code, are as expected    *)
(* only if that is how it judged the bundle.                                 *)
LEMMA OfflineEarned == ASSUME Inv, NEW e \in Run, Offline(e) PROVE Earned(e)'
<1> DEFINE c == at[e]
           wrote == [dirs EXCEPT ![Path(e)].vsa[c] = Gives(c)]
<1>1. /\ Earned(e) /\ c \in Cases /\ pc[e] = "offline" /\ pc'[e] \in {"read", "cleanup"}
      /\ at' = at /\ failures' = failures /\ option' = option /\ judged[e] \subseteq judged'[e]
      /\ judged'[e] \subseteq Cases
      /\ status'[e] = "ok" => status[e] = "ok"
  BY DEF Inv, TypeOK, Offline, Goto, Return, Fails
<1>2. Path(e)' = Path(e) /\ Path(e) \in Paths /\ dirs[Path(e)] \in Directories
  BY <1>1, PathType DEF Path, Inv, TypeOK
<1>3. wrote[Path(e)].vsa = [dirs[Path(e)].vsa EXCEPT ![c] = Gives(c)]
  BY <1>1, <1>2 DEF Inv, TypeOK, Directories
<1>4. dirs' \in {dirs, wrote}
  BY DEF Offline
<1> HIDE DEF wrote
<1>5. \A x \in Cases : x > c => Result(e, x)' = "none"
  BY <1>1, <1>2, <1>3, <1>4, WantType DEF Earned, Result, Directories
<1>6. ASSUME pc'[e] = "read", Result(e, c)' # "none", Ok(Result(e, c)', c, code'[e])
      PROVE  c \in judged'[e]
  <2>1. CASE dirs' = dirs
    BY <1>1, <1>2, <1>6, <2>1, WantType DEF Earned, Result
  <2>2. CASE dirs' # dirs
    <3>1. Result(e, c)' = Gives(c)
      BY <1>1, <1>2, <1>3, <1>4, <2>2 DEF Result, Directories
    <3>2. PICK x \in {1, ExitFor(Gives(c))} :
             /\ code' = [code EXCEPT ![e] = x]
             /\ judged' = IF Gives(c) = Want[c] /\ x = ExitFor(Want[c])
                          THEN [judged EXCEPT ![e] = @ \cup {c}] ELSE judged
      BY <1>6, <2>2 DEF Offline, Goto, Return, Inv, TypeOK
    <3>3. Gives(c) = Want[c] /\ (x = 0 <=> Want[c] = "PASSED")
      <4>1. code'[e] = x
        BY <3>2 DEF Inv, TypeOK
      <4>2. Ok(Gives(c), c, x)
        BY <1>6, <3>1, <4>1
      <4> QED BY <4>2 DEF Ok
    <3>4. x = ExitFor(Want[c])
      BY <1>1, <3>2, <3>3, WantType DEF ExitFor
    <3> QED BY <3>2, <3>3, <3>4 DEF Inv, TypeOK
  <2> QED BY <2>1, <2>2
<1>7. at'[e] = c /\ failures'[e] = failures[e] /\ judged[e] \subseteq judged'[e]
  BY <1>1
<1>8. status'[e] = "ok" => judged'[e] = Cases
  BY <1>1 DEF Earned
<1>9. failures'[e] = 0 => 1..(at'[e] - 1) \subseteq judged'[e]
  <2>1. failures[e] = 0 => 1..(c - 1) \subseteq judged[e]
    BY <1>1 DEF Earned
  <2> QED BY <1>7, <2>1
<1>10. pc'[e] = "read" =>
          /\ \A x \in Cases : x > at'[e] => Result(e, x)' = "none"
          /\ Result(e, at[e])' # "none" /\ Ok(Result(e, at[e])', at'[e], code'[e])
                => at'[e] \in judged'[e]
  BY <1>5, <1>6, <1>7
<1> QED BY <1>1, <1>8, <1>9, <1>10 DEF Earned

(* A run goes on counting, and ends well only with nothing counted.          *)
LEMMA ReadEarned == ASSUME Inv, NEW e \in Run, Read(e) PROVE Earned(e)'
<1> DEFINE c == at[e]
           missed == failures[e] + IF Ok(Result(e, c), c, code[e]) THEN 0 ELSE 1
           On == c < Len(Want) /\ Goto(e, "read", "predicate")
                    /\ at' = [at EXCEPT ![e] = c + 1] /\ UNCHANGED status
           Last == c = Len(Want) /\ Goto(e, "read", "cleanup") /\ UNCHANGED at
                    /\ status' = [status EXCEPT ![e] = IF missed > 0 THEN "failed" ELSE "ok"]
<1>1. /\ Earned(e) /\ c \in Cases /\ pc[e] = "read" /\ failures[e] \in Nat /\ judged[e] \subseteq Cases
      /\ UNCHANGED <<option, dirs, judged>> /\ Path(e)' = Path(e)
  BY DEF Inv, TypeOK, Read, Goto, Return, Fails, Path
<1>2. CASE Return(e, "read") /\ UNCHANGED <<at, failures>>
  BY <1>1, <1>2 DEF Earned, Return, Goto, Fails, Inv, TypeOK
<1>3. CASE Result(e, c) # "none" /\ failures' = [failures EXCEPT ![e] = missed] /\ (On \/ Last)
  <2>1. missed = 0 => 1..c \subseteq judged[e]
    BY <1>1, <1>3, WantType DEF Earned
  <2>2. failures'[e] = missed
    BY <1>3 DEF Inv, TypeOK
  <2>3. CASE On
    <3>1. pc'[e] = "predicate" /\ at'[e] = c + 1 /\ status'[e] = status[e]
      BY <2>3 DEF Goto, Inv, TypeOK
    <3>2. \A x \in Cases : x >= c + 1 => Result(e, x)' = "none"
      BY <1>1, WantType DEF Earned, Result
    <3>3. (c + 1) - 1 = c
      BY <1>1, WantType
    <3> QED BY <1>1, <2>1, <2>2, <3>1, <3>2, <3>3 DEF Earned
  <2>4. CASE Last
    <3>1. pc'[e] = "cleanup" /\ (status'[e] = "ok" => missed = 0)
      BY <1>1, <2>4 DEF Goto, Inv, TypeOK
    <3>2. missed = 0 => judged[e] = Cases
      BY <1>1, <2>1, <2>4, WantType
    <3> QED BY <1>1, <3>1, <3>2 DEF Earned
  <2> QED BY <1>3, <2>3, <2>4
<1> QED BY <1>2, <1>3 DEF Read, Result

LEMMA StepEarned == ASSUME Inv, NEW e \in Run, Step(e) \/ Kill(e) PROVE Earned(e)'
<1> USE DEF Inv, TypeOK, Goto, Fails, Return, Writes
<1>0. /\ Earned(e) /\ Path(e) \in Paths /\ dirs[Path(e)] \in Directories /\ at[e] \in Cases
      /\ option' = option /\ Path(e)' = Path(e)
  BY PathType, StepLocal DEF Path
<1>1. CASE Start(e)
  BY <1>0, <1>1 DEF Start, Earned
<1>2. CASE prepareWorkdir(e)
  <2>1. pc'[e] = "root" => dirs'[Path(e)] = New(e)
    BY <1>0, <1>2 DEF prepareWorkdir
  <2>2. pc'[e] = "root" => \A c \in Cases : Result(e, c)' = "none"
    BY <1>0, <2>1, DirectoryTypes DEF Result
  <2> QED BY <1>0, <1>2, <2>2 DEF prepareWorkdir, Earned
<1>3. CASE TrustedRoot(e)
  <2>1. \A c \in Cases : Result(e, c)' = Result(e, c)
    BY <1>0, <1>3 DEF TrustedRoot, Result, Directories
  <2> QED BY <1>0, <1>3, <2>1 DEF TrustedRoot, Earned
<1>4. CASE Predicate(e)
  <2>1. \A c \in Cases : Result(e, c)' = Result(e, c)
    BY <1>0, <1>4 DEF Predicate, Result
  <2> QED BY <1>0, <1>4, <2>1 DEF Predicate, Earned
<1>5. CASE Sign(e)
  <2>1. \A c \in Cases : Result(e, c)' = Result(e, c)
    BY <1>0, <1>5 DEF Sign, Result, Directories
  <2> QED BY <1>0, <1>5, <2>1 DEF Sign, Earned
<1>6. CASE Offline(e)
  BY <1>6, OfflineEarned
<1>7. CASE Read(e)
  BY <1>7, ReadEarned
<1>8. CASE Cleanup(e)
  BY <1>0, <1>8 DEF Cleanup, Earned
<1>9. CASE Kill(e)
  BY <1>0, <1>9 DEF Kill, Over, Earned
<1> QED BY <1>1, <1>2, <1>3, <1>4, <1>5, <1>6, <1>7, <1>8, <1>9 DEF Step

(* The other runs find everything as they left it.                           *)
LEMMA OthersKept ==
    ASSUME Inv, NEW e \in Run, Step(e) \/ Kill(e), NEW d \in Run, d # e
    PROVE  Own(d)' /\ Earned(d)'
<1>1. /\ Own(d) /\ Earned(d)
      /\ option'[d] = option[d] /\ pc'[d] = pc[d] /\ at'[d] = at[d] /\ failures'[d] = failures[d]
      /\ status'[d] = status[d] /\ code'[d] = code[d] /\ judged'[d] = judged[d]
  BY StepLocal DEF Inv
<1>2. /\ dirs'[d] = dirs[d] /\ Path(d)' = Path(d)
      /\ pc[d] \in Working => dirs'[Path(d)] = dirs[Path(d)]
  BY OthersDirectory
<1>3. Own(d)'
  BY <1>1, <1>2 DEF Own
<1>4. pc[d] \in Working => \A c : Result(d, c)' = Result(d, c)
  BY <1>2 DEF Result
<1>5. Earned(d)'
  BY <1>1, <1>4 DEF Earned, Working
<1> QED BY <1>3, <1>5

(* The caller deletes a directory only when its run is over.                 *)
LEMMA DiscardInv == Inv /\ Discard => Inv'
<1> SUFFICES ASSUME Inv, Discard PROVE Inv'
  OBVIOUS
<1>1. /\ UNCHANGED <<pc, at, option, failures, status, drifted, code, judged>>
      /\ dirs' = [dirs EXCEPT ![Given] = Gone] /\ Given \in Paths
      /\ \A d \in Run : dirs[Given].owner = d => pc[d] \in Over
  BY DEF Discard, Paths
<1>2. TypeOK'
  BY <1>1, DirectoryTypes DEF Inv, TypeOK
<1>3. ASSUME NEW d \in Run PROVE Own(d)' /\ Earned(d)'
  <2>1. /\ Own(d) /\ Earned(d) /\ Path(d)' = Path(d) /\ dirs'[d] = dirs[d]
    BY <1>1, DemoAssumption DEF Inv, TypeOK, Path, Paths
  <2>2. pc[d] \in Working => Path(d) # Given
    BY <1>1, <2>1 DEF Own, Working, Over
  <2>3. pc[d] \in Working => dirs'[Path(d)] = dirs[Path(d)]
    BY <1>1, <2>2, PathType DEF Inv, TypeOK
  <2>4. Own(d)'
    BY <1>1, <2>1, <2>3 DEF Own
  <2>5. pc[d] \in Working => \A c : Result(d, c)' = Result(d, c)
    BY <2>1, <2>3 DEF Result
  <2>6. Earned(d)'
    BY <1>1, <2>1, <2>5 DEF Earned, Working
  <2> QED BY <2>4, <2>6
<1> QED BY <1>2, <1>3 DEF Inv

LEMMA NextInv == Inv /\ [Next]_vars => Inv'
<1> SUFFICES ASSUME Inv, [Next]_vars PROVE Inv'
  OBVIOUS
<1>1. CASE UNCHANGED vars
  BY <1>1 DEF vars, Inv, TypeOK, Own, Earned, Result, Path, Over
<1>2. ASSUME NEW e \in Run, Step(e) \/ Kill(e) PROVE Inv'
  BY <1>2, StepType, StepOwn, StepEarned, OthersKept DEF Inv
<1> QED BY <1>1, <1>2, DiscardInv DEF Next

(* A directory changes only when it is taken, or by the run that has it, and *)
(* only a temporary one that is not to be kept disappears.                   *)
LEMMA StepDirectory ==
    ASSUME Inv, NEW e \in Run, Step(e) \/ Kill(e), NEW p \in Paths, dirs'[p] # dirs[p]
    PROVE  \/ dirs[p] = Gone
           \/ /\ dirs[p].owner \in Run /\ pc'[dirs[p].owner] # pc[dirs[p].owner]
              /\ dirs'[p] = Gone => p # Given /\ option[p] = "temporary"
<1>1. p = Path(e) /\ (dirs[p] = Gone \/ dirs[p].owner = e) /\ pc'[e] # pc[e]
  BY StepLocal
<1>2. ASSUME dirs[p].owner = e, dirs'[p] = Gone PROVE p # Given /\ option[p] = "temporary"
  <2>1. CASE Cleanup(e)
    BY <1>1, <2>1, DemoAssumption DEF Cleanup, Path, Inv, TypeOK
  <2>2. CASE ~ Cleanup(e)
    <3>1. dirs'[p].owner = dirs[p].owner
      <4>1. dirs[p] \in Directories
        BY DEF Inv, TypeOK
      <4>2. CASE TrustedRoot(e) \/ Sign(e)
        BY <1>1, <4>1, <4>2 DEF TrustedRoot, Sign, Writes, Inv, TypeOK, Directories
      <4>3. CASE Offline(e)
        <5>1. dirs' \in {dirs, [dirs EXCEPT ![Path(e)].vsa[at[e]] = Gives(at[e])]}
          BY <4>3 DEF Offline
        <5> QED BY <1>1, <4>1, <5>1 DEF Inv, TypeOK, Directories
      <4>4. CASE prepareWorkdir(e)
        BY <1>1, <1>2, <4>4, DirectoryTypes, DemoAssumption DEF prepareWorkdir, Inv, TypeOK
      <4> QED BY <2>2, <4>2, <4>3, <4>4 DEF Step, Start, Predicate, Read, Kill
    <3> QED BY <1>2, <3>1, DirectoryTypes, DemoAssumption
  <2> QED BY <2>1, <2>2
<1> QED BY <1>1, <1>2

-------------------------------------------------------------------------------
(* The runs, their options and the directories are what they should be.      *)
THEOREM TypeCorrect == Spec => []TypeOK
<1>1. Inv => TypeOK
  BY DEF Inv
<1> QED BY <1>1, InitInv, NextInv, PTL DEF Spec

(* A run that exits with 0 has had every case judged as expected.            *)
THEOREM EarnedSuccess == Spec => []SuccessIsEarned
<1>1. Inv => SuccessIsEarned
  BY DEF Inv, Earned, SuccessIsEarned
<1> QED BY <1>1, InitInv, NextInv, PTL DEF Spec

(* No temporary directory is forgotten by a run that ends.                   *)
THEOREM NothingForgotten == Spec => []TemporaryRemoved
<1>1. Inv => TemporaryRemoved
  BY DEF Inv, Own, TemporaryRemoved
<1> QED BY <1>1, InitInv, NextInv, PTL DEF Spec

(* No run touches a directory that it has not made.                          *)
THEOREM HandsOff == Spec => OwnDirectoryOnly
<1> DEFINE Kept == \A p \in Paths : dirs'[p] # dirs[p] /\ ~ Discard =>
                      \/ dirs[p] = Gone
                      \/ /\ dirs[p].owner \in Run /\ pc'[dirs[p].owner] # pc[dirs[p].owner]
                         /\ dirs'[p] = Gone => p # Given /\ option[p] = "temporary"
<1>1. Inv /\ [Next]_vars => [Kept]_vars
  BY StepDirectory DEF Next
<1>2. Spec => [][Kept]_vars
  BY <1>1, InitInv, NextInv, PTL DEF Spec
<1> QED BY <1>2 DEF OwnDirectoryOnly

-------------------------------------------------------------------------------
\* The steps that a run may still take: to the end of the case it is at, and
\* four for each case after that.
Ahead(d) ==
    CASE pc[d] = "start" -> 8
      [] pc[d] = "prepare" -> 7
      [] pc[d] = "root" -> 6
      [] pc[d] = "predicate" -> 5
      [] pc[d] = "sign" -> 4
      [] pc[d] = "offline" -> 3
      [] pc[d] = "read" -> 2
      [] pc[d] = "cleanup" -> 1
      [] OTHER -> 0

Later(d) == 4 * (Len(Want) - at[d])
Left(d) == Ahead(d) + IF Ahead(d) > 1 THEN Later(d) ELSE 0

Bounded == \A d \in Run : Left(d) \in 0 .. 4 * Len(Want) + 4 /\ (Left(d) = 0 <=> pc[d] \in Over)
Nearer == \A d \in Run : Left(d)' <= Left(d) /\ (Step(d) => Left(d)' < Left(d))

LEMMA LeftBounded == Inv => Bounded
<1> SUFFICES ASSUME Inv, NEW d \in Run
             PROVE  Left(d) \in 0 .. 4 * Len(Want) + 4 /\ (Left(d) = 0 <=> pc[d] \in Over)
  BY DEF Bounded
<1>1. Len(Want) \in Nat /\ at[d] \in 1 .. Len(Want)
  BY WantType DEF Inv, TypeOK
<1>2. Ahead(d) \in 0 .. 8 /\ (Ahead(d) = 0 <=> pc[d] \in Over)
  <2>1. pc[d] \in {"start", "prepare", "root", "predicate", "sign", "offline", "read", "cleanup",
                   "end", "stuck", "killed"}
    BY DEF Inv, TypeOK, Over
  <2> QED BY <2>1 DEF Ahead, Over
<1>3. Later(d) \in Nat /\ Later(d) <= 4 * Len(Want) - 4
  BY <1>1 DEF Later
<1> QED BY <1>1, <1>2, <1>3 DEF Left

LEMMA NextBounded == Inv' => Bounded'
BY LeftBounded, PTL

(* A step leads forward in its case, or to the next one.                     *)
LEMMA StepLowers == ASSUME Inv, NEW d \in Run, Step(d) PROVE Left(d)' < Left(d)
<1>0. Len(Want) \in Nat /\ at[d] \in 1 .. Len(Want)
  BY WantType DEF Inv, TypeOK
<1>1. ASSUME at'[d] = at[d],
             \/ pc[d] = "start" /\ pc'[d] \in {"prepare", "end"}
             \/ pc[d] = "prepare" /\ pc'[d] \in {"root", "end"}
             \/ pc[d] = "root" /\ pc'[d] \in {"predicate", "cleanup"}
             \/ pc[d] = "predicate" /\ pc'[d] \in {"sign", "cleanup"}
             \/ pc[d] = "sign" /\ pc'[d] \in {"offline", "cleanup"}
             \/ pc[d] = "offline" /\ pc'[d] \in {"read", "cleanup"}
             \/ pc[d] = "read" /\ pc'[d] = "cleanup"
             \/ pc[d] = "cleanup" /\ pc'[d] \in {"end", "stuck"}
      PROVE  Left(d)' < Left(d)
  <2>1. /\ Ahead(d) \in 1 .. 8 /\ Ahead(d)' \in 0 .. 8 /\ Ahead(d)' < Ahead(d)
    BY <1>1 DEF Ahead
  <2>2. Later(d)' = Later(d) /\ Later(d) \in Nat
    BY <1>0, <1>1 DEF Later
  <2> QED BY <2>1, <2>2 DEF Left
<1>2. ASSUME at[d] < Len(Want), at'[d] = at[d] + 1, pc[d] = "read", pc'[d] = "predicate"
      PROVE  Left(d)' < Left(d)
  BY <1>0, <1>2 DEF Left, Later, Ahead
<1>3. CASE Read(d)
  BY <1>1, <1>2, <1>3 DEF Read, Goto, Return, Inv, TypeOK
<1>4. CASE ~ Read(d)
  BY <1>1, <1>4 DEF Step, Start, prepareWorkdir, TrustedRoot, Predicate, Sign, Offline, Cleanup,
                    Goto, Return, Writes, Inv, TypeOK
<1> QED BY <1>3, <1>4

(***************************************************************************)
(* Each run takes at most four steps for every case and four more, even    *)
(* where another has its directory, an earlier run filled it or somebody   *)
(* deletes it: its own steps bring it nearer to its end, and nobody else's *)
(* takes it further from it.  (That it can always take a next step is left *)
(* to TLC: EveryRunEnds.)                                                  *)
(***************************************************************************)
THEOREM StepsBounded == Spec => []Bounded /\ [][Nearer]_vars
<1>1. ASSUME Inv, Inv', [Next]_vars PROVE [Nearer]_vars
  <2> SUFFICES ASSUME ~ UNCHANGED vars, NEW d \in Run PROVE Left(d)' <= Left(d)
    BY <1>1, StepLowers DEF Nearer
  <2>0. Left(d) \in Nat /\ Left(d)' \in Nat
    BY <1>1, LeftBounded, NextBounded, WantType DEF Bounded
  <2>1. CASE Discard
    BY <2>0, <2>1 DEF Discard, Left, Later, Ahead
  <2>2. ASSUME NEW e \in Run, Step(e) \/ Kill(e), e # d PROVE Left(d)' <= Left(d)
    <3>1. pc'[d] = pc[d] /\ at'[d] = at[d]
      BY <1>1, <2>2, StepLocal
    <3> QED BY <2>0, <3>1 DEF Left, Later, Ahead
  <2>3. CASE Step(d)
    BY <1>1, <2>0, <2>3, StepLowers
  <2>4. CASE Kill(d)
    <3>1. Left(d)' = 0
      BY <1>1, <2>4 DEF Kill, Goto, Inv, TypeOK, Left, Ahead, Over
    <3> QED BY <2>0, <3>1
  <2> QED BY <1>1, <2>1, <2>2, <2>3, <2>4 DEF Next
<1> QED BY <1>1, LeftBounded, InitInv, NextInv, PTL DEF Spec
===============================================================================
