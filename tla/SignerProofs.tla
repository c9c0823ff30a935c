----------------------------- MODULE SignerProofs -----------------------------
(***************************************************************************)
(* Proofs about Signer for any margins, any length of a behaviour and any  *)
(* clock no further from the true time than half of Skew.                  *)
(*                                                                         *)
(* A reading of the clock is within Drift of the true time at which it was *)
(* made; so each window is bounded by the times at which the authorities   *)
(* and the signature were begun (Windows), and the timestamp, which is one *)
(* more reading, by those times and what was spent since (Stamped).        *)
(***************************************************************************)
EXTENDS Signer, TLAPS

Made == {"ready", "NotAfter", "timestamp"}
Signing == {"NotAfter", "timestamp"}

Windows ==
    /\ begun.authorities <= time /\ begun.signing <= time
    /\ pc \in {"validityEnd"} \cup Made => ca.from <= begun.authorities + Drift - Hour
    /\ pc \in Made => begun.authorities - Drift + Day <= ca.to
    /\ pc \in Signing =>
          begun.authorities <= begun.signing /\ leaf.from <= begun.signing + Drift - Skew
    /\ pc = "timestamp" => begun.signing - Drift + Hour <= leaf.to

Stamped ==
    bundle # Nothing =>
        /\ pc = "ready" /\ ca.from <= bundle.stamp /\ bundle.leaf.from <= bundle.stamp
        /\ bundle.signing + 2 * Drift <= Hour => bundle.stamp <= bundle.leaf.to
        /\ bundle.authorities + 2 * Drift <= Day => bundle.stamp <= ca.to

Inv == TypeOK /\ Windows /\ Stamped

-------------------------------------------------------------------------------
LEMMA NothingType == Nothing \in [leaf : [from : Int, to : Int], stamp : Int, authorities : Int, signing : Int]
BY DEF Nothing, Never, Window

LEMMA InitInv == Init => Inv
<1> SUFFICES ASSUME Init PROVE Inv
  OBVIOUS
<1>1. TypeOK
  BY SignerAssumption, NothingType DEF Init, TypeOK, Never, Window
<1> QED BY <1>1 DEF Init, Inv, Windows, Stamped, Made, Signing

(* A reading of the clock is within Drift of the true time.                  *)
LEMMA Reading ==
    ASSUME TypeOK
    PROVE  Now \in Int /\ time - Drift <= Now /\ Now <= time + Drift
BY SignerAssumption DEF TypeOK, Now

(* The steps of the signer, and of time, keep the state well typed.          *)
LEMMA NextType == ASSUME Inv, [Next]_vars PROVE TypeOK'
<1> USE SignerAssumption DEF Inv, TypeOK, Goto
<1>1. CASE UNCHANGED vars
  BY <1>1 DEF vars
<1>2. CASE Tick
  BY <1>2 DEF Tick
<1>3. CASE Adjust
  BY <1>3 DEF Adjust
<1>4. CASE NewSigner
  BY <1>4, Reading DEF NewSigner
<1>5. CASE ValidityEnd
  BY <1>5, Reading DEF ValidityEnd
<1>6. CASE SignStatement
  BY <1>6, Reading, NothingType DEF SignStatement
<1>7. CASE NotAfter
  BY <1>7, Reading DEF NotAfter
<1>8. CASE timestampResponse
  BY <1>8, Reading DEF timestampResponse, Never, Window
<1> QED BY <1>1, <1>2, <1>3, <1>4, <1>5, <1>6, <1>7, <1>8 DEF Next

(* Every window keeps its distance from the time at which it was begun.      *)
LEMMA NextWindows == ASSUME Inv, [Next]_vars PROVE Windows'
<1> USE SignerAssumption DEF Inv, TypeOK, Windows, Made, Signing, Goto
<1>1. CASE UNCHANGED vars
  BY <1>1 DEF vars
<1>2. CASE Tick
  BY <1>2 DEF Tick
<1>3. CASE Adjust
  BY <1>3 DEF Adjust
<1>4. CASE NewSigner
  BY <1>4, Reading DEF NewSigner
<1>5. CASE ValidityEnd
  BY <1>5, Reading DEF ValidityEnd
<1>6. CASE SignStatement
  BY <1>6, Reading DEF SignStatement
<1>7. CASE NotAfter
  BY <1>7, Reading DEF NotAfter
<1>8. CASE timestampResponse
  BY <1>8 DEF timestampResponse
<1> QED BY <1>1, <1>2, <1>3, <1>4, <1>5, <1>6, <1>7, <1>8 DEF Next

(* A timestamp falls into the windows that are open long enough for it, and  *)
(* nothing moves them while its bundle is there.                             *)
LEMMA NextStamped == ASSUME Inv, [Next]_vars PROVE Stamped'
<1> USE DEF Inv, TypeOK, Stamped, Goto
<1>1. CASE UNCHANGED vars
  BY <1>1 DEF vars
<1>2. CASE Tick
  BY <1>2 DEF Tick
<1>3. CASE Adjust
  BY <1>3 DEF Adjust
<1>4. CASE NewSigner
  BY <1>4 DEF NewSigner
<1>5. CASE ValidityEnd
  BY <1>5 DEF ValidityEnd
<1>6. CASE SignStatement
  BY <1>6 DEF SignStatement
<1>7. CASE NotAfter
  BY <1>7 DEF NotAfter
<1>8. CASE timestampResponse
  <2>1. /\ ca.from <= Now /\ leaf.from <= Now
        /\ (time - begun.signing) + 2 * Drift <= Hour => Now <= leaf.to
        /\ (time - begun.authorities) + 2 * Drift <= Day => Now <= ca.to
    BY <1>8, Reading, SignerAssumption DEF timestampResponse, Windows, Made, Signing
  <2> QED BY <1>8, <2>1 DEF timestampResponse
<1> QED BY <1>1, <1>2, <1>3, <1>4, <1>5, <1>6, <1>7, <1>8 DEF Next

LEMMA NextInv == Inv /\ [Next]_vars => Inv'
BY NextType, NextWindows, NextStamped DEF Inv

(* A chain of three, each signed by the next, is good at a time at which     *)
(* all three are valid.                                                      *)
LEMMA ChainOfThree ==
    ASSUME NEW a, NEW b, NEW c, NEW use, NEW t,
           a.by = b.of, b.by = c.of,
           a.use \in {use, "any"}, b.use \in {use, "any"}, c.use \in {use, "any"},
           Within(t, a.valid), Within(t, b.valid), Within(t, c.valid)
    PROVE  Chain(<<a, b, c>>, use, t)
<1> DEFINE certs == <<a, b, c>>
<1>1. DOMAIN certs = 1..3 /\ certs[1] = a /\ certs[2] = b /\ certs[3] = c
  OBVIOUS
<1> HIDE DEF certs
<1>2. ASSUME NEW i \in 1..3
      PROVE  /\ Within(t, certs[i].valid) /\ certs[i].use \in {use, "any"}
             /\ i + 1 \in 1..3 => certs[i].by = certs[i + 1].of
  <2>1. CASE i = 1
    BY <1>1, <2>1
  <2>2. CASE i = 2
    BY <1>1, <2>2
  <2>3. CASE i = 3
    BY <1>1, <2>3
  <2> QED BY <2>1, <2>2, <2>3
<1>3. Chain(certs, use, t)
  BY <1>1, <1>2 DEF Chain
<1> QED BY <1>3 DEF certs

(* A bundle whose timestamp is in its windows verifies.                      *)
LEMMA StampedVerifies == Inv => BundlesVerify
<1> SUFFICES ASSUME Inv, bundle # Nothing, bundle.signing + 2 * Drift <= Hour,
                    bundle.authorities + 2 * Drift <= Day
             PROVE  Verifies(bundle, TrustedRootJSON)
  BY DEF BundlesVerify
<1>1. Within(bundle.stamp, ca) /\ Within(bundle.stamp, bundle.leaf)
  BY DEF Inv, Stamped, Within
<1>2. Chain(<<TSALeaf, TSA, Root>>, "time stamping", bundle.stamp)
  BY <1>1, ChainOfThree DEF TSALeaf, TSA, Root, Cert
<1>3. Chain(<<SigningCert(bundle), Fulcio, Root>>, "code signing", bundle.stamp)
  BY <1>1, ChainOfThree DEF SigningCert, Fulcio, Root, Cert
<1> QED BY <1>1, <1>2, <1>3 DEF Verifies, TrustedRootJSON

-------------------------------------------------------------------------------
(* Times, windows and bundles are what they should be.                       *)
THEOREM TypeCorrect == Spec => []TypeOK
<1>1. Inv => TypeOK
  BY DEF Inv
<1> QED BY <1>1, InitInv, NextInv, PTL DEF Spec

(* Every bundle signed in time verifies, however the clock was set meanwhile. *)
THEOREM BundlesAreGood == Spec => []BundlesVerify
BY InitInv, NextInv, StampedVerifies, PTL DEF Spec
===============================================================================
