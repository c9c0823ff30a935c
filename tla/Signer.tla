--------------------------------- MODULE Signer ---------------------------------
(***************************************************************************)
(* internal/demokit/signer.go: a demonstration certificate authority, with *)
(* a signing intermediate and a timestamping one.  A bundle is verified by *)
(* its chains at the time of its timestamp (the verifier is external), and *)
(* every certificate takes its validity from readings of a clock that may  *)
(* be set, back too, between any two of them.  The unit of time is open;   *)
(* the fractions of a second that the encodings drop are below it.         *)
(***************************************************************************)
EXTENDS Integers

CONSTANTS Skew,     \* 5 minutes: a signing certificate is valid that long before
          Hour,     \* and an hour after it is made; the authorities, an hour before
          Day,      \* and a day after
          Drift,    \* the clock is never further than this from the true time
          Horizon   \* bound: the true time at which a behaviour ends

ASSUME SignerAssumption ==
    /\ Skew \in Nat /\ Hour \in Nat /\ Day \in Nat /\ Drift \in Nat /\ Horizon \in Nat
    /\ 2 * Drift <= Skew /\ Skew <= Hour

VARIABLES time,     \* the true time
          wrong,    \* how far the clock is ahead of it
          pc,       \* where the signer is
          begun,    \* the true times at which it began the authorities and the leaf
          ca,       \* the validity of the authorities' certificates
          leaf,     \* that of the signing certificate in the making
          bundle    \* the last bundle, until the next is begun

vars == <<time, wrong, pc, begun, ca, leaf, bundle>>

Window(from, to) == [from |-> from, to |-> to]
Never == Window(0, -1)
Nothing == [leaf |-> Never, stamp |-> -1, authorities |-> -1, signing |-> -1]

Now == time + wrong

Init ==
    /\ time = 0 /\ wrong \in -Drift..Drift /\ pc = "new"
    /\ begun = [authorities |-> 0, signing |-> 0]
    /\ ca = Never /\ leaf = Never /\ bundle = Nothing

Goto(from, to) == pc = from /\ pc' = to

\* NewSigner reads the clock for the start of validityStart, validityEnd, which the
\* root, both intermediates, the timestamping leaf and the trusted root share.
NewSigner ==
    /\ Goto("new", "validityEnd")
    /\ begun' = [begun EXCEPT !.authorities = time]
    /\ ca' = [ca EXCEPT !.from = Now - Hour]
    /\ UNCHANGED <<time, wrong, leaf, bundle>>

ValidityEnd ==
    /\ Goto("validityEnd", "ready") /\ ca' = [ca EXCEPT !.to = Now + Day]
    /\ UNCHANGED <<time, wrong, begun, leaf, bundle>>

\* Mutant: it is never given an end.
SignOpen ==
    /\ Goto("ready", "timestamp")
    /\ begun' = [begun EXCEPT !.signing = time]
    /\ leaf' = [from |-> Now - Skew] /\ bundle' = Nothing
    /\ UNCHANGED <<time, wrong, ca>>

\* Mutant: the signing certificate is valid from now on.
SignTight ==
    /\ Goto("ready", "NotAfter")
    /\ begun' = [begun EXCEPT !.signing = time]
    /\ leaf' = [leaf EXCEPT !.from = Now] /\ bundle' = Nothing
    /\ UNCHANGED <<time, wrong, ca>>

\* SignStatement reads it twice for the signing certificate,
SignStatement ==
    /\ Goto("ready", "NotAfter")
    /\ begun' = [begun EXCEPT !.signing = time]
    /\ leaf' = [leaf EXCEPT !.from = Now - Skew] /\ bundle' = Nothing
    /\ UNCHANGED <<time, wrong, ca>>

NotAfter ==
    /\ Goto("NotAfter", "timestamp") /\ leaf' = [leaf EXCEPT !.to = Now + Hour]
    /\ UNCHANGED <<time, wrong, begun, ca, bundle>>

\* and once more for the timestamp; how long each took is for the properties.
timestampResponse ==
    /\ Goto("timestamp", "ready")
    /\ bundle' = [leaf |-> leaf, stamp |-> Now,
                  authorities |-> time - begun.authorities, signing |-> time - begun.signing]
    /\ leaf' = Never
    /\ UNCHANGED <<time, wrong, begun, ca>>

\* Time passes, from the start of the signer on, and the clock is set.
Tick == time < Horizon /\ pc # "new" /\ time' = time + 1
        /\ UNCHANGED <<wrong, pc, begun, ca, leaf, bundle>>
Adjust == wrong' \in -Drift..Drift /\ UNCHANGED <<time, pc, begun, ca, leaf, bundle>>

Next ==
    \/ Tick \/ Adjust
    \/ NewSigner \/ ValidityEnd \/ SignStatement \/ NotAfter \/ timestampResponse

Spec == Init /\ [][Next]_vars

-------------------------------------------------------------------------------
\* A certificate: who holds it, who signed it, what for and when it is valid.
Cert(of, by, use, valid) == [of |-> of, by |-> by, use |-> use, valid |-> valid]

Root == Cert("root", "root", "any", ca)
Fulcio == Cert("fulcio", "root", "code signing", ca)
TSA == Cert("tsa", "root", "time stamping", ca)
TSALeaf == Cert("tsa leaf", "tsa", "time stamping", ca)
SigningCert(b) == Cert("leaf", "fulcio", "code signing", b.leaf)

TrustedRootJSON ==
    [signing |-> <<Fulcio, Root>>, stamping |-> <<TSALeaf, TSA, Root>>, valid |-> ca]

Within(t, window) == window.from <= t /\ t <= window.to

\* The verifier (external): each certificate of a chain is signed by the next,
\* is for the purpose or for any, and is valid at the time.
Chain(certs, use, t) ==
    \A i \in DOMAIN certs :
        /\ Within(t, certs[i].valid) /\ certs[i].use \in {use, "any"}
        /\ i + 1 \in DOMAIN certs => certs[i].by = certs[i + 1].of

Verifies(b, r) ==
    /\ Within(b.stamp, r.valid)
    /\ Chain(r.stamping, "time stamping", b.stamp)
    /\ Chain(<<SigningCert(b), r.signing[1], r.signing[2]>>, "code signing", b.stamp)

-------------------------------------------------------------------------------
TypeOK ==
    /\ time \in 0..Horizon /\ wrong \in -Drift..Drift
    /\ pc \in {"new", "validityEnd", "ready", "NotAfter", "timestamp"}
    /\ begun \in [authorities : 0..Horizon, signing : 0..Horizon]
    /\ ca \in [from : Int, to : Int] /\ leaf \in [from : Int, to : Int]
    /\ bundle \in [leaf : [from : Int, to : Int], stamp : Int, authorities : Int, signing : Int]

(***************************************************************************)
(* The margins are wide enough: however the clock is set back and forth    *)
(* within Drift of the true time, between any two of its readings, every   *)
(* bundle verifies under the trusted root if its signing took no more than *)
(* an hour, and ended no more than a day after the authorities were begun, *)
(* less 2 * Drift of each.                                                 *)
(***************************************************************************)
BundlesVerify ==
    /\ bundle # Nothing
    /\ bundle.signing + 2 * Drift <= Hour
    /\ bundle.authorities + 2 * Drift <= Day
    => Verifies(bundle, TrustedRootJSON)
===============================================================================
