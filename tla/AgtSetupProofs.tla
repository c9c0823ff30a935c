---------------------------- MODULE AgtSetupProofs ----------------------------
(***************************************************************************)
(* Proofs about AgtSetup for any builds that may be served or installed.   *)
(*                                                                         *)
(* SetupSuffices does not hold of a step by itself: that the script ends   *)
(* well says nothing of the wheel it checked three steps ago.  Progress    *)
(* carries what each step has established up to that end, and Ready from   *)
(* there to the next change.                                               *)
(***************************************************************************)
EXTENDS AgtSetup, TLAPS

Whole == Core(Pin, "whole")

Progress ==
    /\ pc \in {"install", "lock", "receipt"} => wheel = Pinned
    /\ pc \in {"lock", "receipt"} => core = Whole

Ready == ready => pc = "idle" /\ wheel = Pinned /\ core = Whole /\ receipt = "pinned"

Inv == TypeOK /\ Progress /\ Ready /\ ImportsPinned

-------------------------------------------------------------------------------
(* What an engine in the environment is, taken apart and put together.       *)
LEMMA CoreParts ==
    ASSUME NEW c \in Cores \cup {None}
    PROVE  /\ c.of \in Served => c \in Cores \/ c = None
           /\ c \in Cores => c.of \in Served /\ c = Core(c.of, c.state)
BY DEF Cores, Core, None

LEMMA InitInv == Init => Inv
BY DEF Init, Inv, TypeOK, Progress, Ready, ImportsPinned

(* What pip leaves when it is killed is an installation cut short.           *)
LEMMA InterruptedType ==
    ASSUME TypeOK, wheel = Pinned
    PROVE  Interrupted \subseteq Cores \cup {None}
BY DEF TypeOK, Interrupted, Cores, None

(* The steps of the script keep the state well typed.                        *)
LEMMA ScriptType ==
    ASSUME Inv, Start \/ (\E m \in Served : Fetch(m)) \/ Verify \/ Install \/ Lock \/ Receipt \/ Kill
    PROVE  TypeOK'
<1> USE AgtAssumption DEF Inv, TypeOK, Exit
<1>1. CASE Start
  BY <1>1 DEF Start
<1>2. ASSUME NEW m \in Served, Fetch(m) PROVE TypeOK'
  BY <1>2 DEF Fetch, Wheels
<1>3. CASE Verify
  BY <1>3 DEF Verify
<1>4. CASE Install
  <2>1. wheel = Pinned
    BY <1>4 DEF Install, Progress
  <2>2. Core(wheel.of, "whole") \in Cores
    BY <2>1 DEF Pinned, Wheel, Cores
  <2>3. core' \in Cores \cup {None}
    BY <1>4, <2>1, <2>2, InterruptedType DEF Install
  <2> QED BY <1>4, <2>3 DEF Install
<1>5. CASE Lock
  BY <1>5 DEF Lock
<1>6. CASE Receipt
  BY <1>6 DEF Receipt
<1>7. CASE Kill
  BY <1>7 DEF Kill
<1> QED BY <1>1, <1>2, <1>3, <1>4, <1>5, <1>6, <1>7

(* They establish one after the other what the environment needs.            *)
LEMMA ScriptProgress ==
    ASSUME Inv, Start \/ (\E m \in Served : Fetch(m)) \/ Verify \/ Install \/ Lock \/ Receipt \/ Kill
    PROVE  Progress' /\ Ready' /\ ImportsPinned'
<1> USE DEF Inv, Progress, Ready, ImportsPinned, Exit
<1>1. CASE Start
  BY <1>1 DEF Start
<1>2. ASSUME NEW m \in Served, Fetch(m) PROVE Progress' /\ Ready' /\ ImportsPinned'
  BY <1>2 DEF Fetch
<1>3. CASE Verify
  BY <1>3 DEF Verify
<1>4. CASE Install
  BY <1>4 DEF Install, Whole, Pinned, Wheel
<1>5. CASE Lock
  BY <1>5 DEF Lock
<1>6. CASE Receipt
  BY <1>6 DEF Receipt
<1>7. CASE Kill
  BY <1>7 DEF Kill
<1> QED BY <1>1, <1>2, <1>3, <1>4, <1>5, <1>6, <1>7

(* What the guard accepts is the pinned engine: its files are those of the   *)
(* cached wheel, which is the pinned one.                                    *)
LEMMA AcceptedIsPinned ==
    ASSUME Inv, Accepts
    PROVE  ~ shadow /\ core \in {Whole, Core(Pin, "bare")}
<1>1. wheel = Pinned /\ core # None /\ core.of = wheel.of /\ core.state \in {"whole", "bare"}
  BY DEF Accepts, load_pins, verify_core_wheel, verify_installed_distribution
<1>2. core.of = Pin
  BY <1>1 DEF Pinned, Wheel
<1>3. core = Core(core.of, core.state)
  BY <1>1, CoreParts DEF Inv, TypeOK
<1> QED BY <1>1, <1>2, <1>3 DEF Whole, Accepts, find_spec

(* A producer changes nothing, and imports what was accepted.                *)
LEMMA ProduceInv == Inv /\ Produce => Inv'
<1> SUFFICES ASSUME Inv, Produce PROVE Inv'
  OBVIOUS
<1>1. ran' \in {Refused, Whole, Core(Pin, "bare")}
  <2>1. CASE Accepts
    BY <2>1, AcceptedIsPinned DEF Produce
  <2>2. CASE ~ Accepts
    BY <2>2 DEF Produce
  <2> QED BY <2>1, <2>2
<1>2. ImportsPinned'
  BY <1>1 DEF ImportsPinned, Whole
<1>3. ran' \in Cores \cup {None, Refused, Shadow}
  BY <1>1, AgtAssumption DEF Whole, Cores
<1> QED BY <1>2, <1>3 DEF Produce, Inv, TypeOK, Progress, Ready

(* Nor does a change by hand leave anything marked ready that is not.        *)
LEMMA HandInv ==
    ASSUME Inv, (\E m \in Served : HandInstall(m)) \/ DeleteEnvironment \/ ReplaceWheel \/ ChangePath
    PROVE  Inv'
<1> USE DEF Inv, TypeOK, Progress, Ready, ImportsPinned
<1>1. ASSUME NEW m \in Served, HandInstall(m) PROVE Inv'
  <2>1. {Core(m, "whole"), Core(m, "part")} \subseteq Cores
    BY DEF Cores
  <2> QED BY <1>1, <2>1 DEF HandInstall
<1>2. CASE DeleteEnvironment
  BY <1>2 DEF DeleteEnvironment
<1>3. CASE ReplaceWheel
  BY <1>3 DEF ReplaceWheel
<1>4. CASE ChangePath
  BY <1>4 DEF ChangePath
<1> QED BY <1>1, <1>2, <1>3, <1>4

LEMMA NextInv == Inv /\ [Next]_vars => Inv'
<1> SUFFICES ASSUME Inv, [Next]_vars PROVE Inv'
  OBVIOUS
<1>1. CASE UNCHANGED vars
  BY <1>1 DEF vars, Inv, TypeOK, Progress, Ready, ImportsPinned
<1>2. CASE Next
  BY <1>2, ScriptType, ScriptProgress, ProduceInv, HandInv DEF Next, Inv
<1> QED BY <1>1, <1>2

-------------------------------------------------------------------------------
(* The cache, the environment and the receipt are in known states.           *)
THEOREM TypeCorrect == Spec => []TypeOK
<1>1. Inv => TypeOK
  BY DEF Inv
<1> QED BY <1>1, InitInv, NextInv, PTL DEF Spec

(* Whatever was left behind, what a producer imports has the pinned files.   *)
THEOREM PinnedImports == Spec => []ImportsPinned
<1>1. Inv => ImportsPinned
  BY DEF Inv
<1> QED BY <1>1, InitInv, NextInv, PTL DEF Spec

(* A run of setup.sh that ended well leaves what the producer accepts.       *)
THEOREM SetupIsEnough == Spec => []SetupSuffices
<1>1. Inv => SetupSuffices
  BY AgtAssumption DEF Inv, Ready, SetupSuffices, Accepts, load_pins, verify_core_wheel,
     verify_installed_distribution, find_spec, Whole, Core, None, Pinned, Wheel
<1> QED BY <1>1, InitInv, NextInv, PTL DEF Spec
===============================================================================
