-------------------------------- MODULE AgtSetup --------------------------------
(***************************************************************************)
(* adapters/agt/setup.sh and the import guard of adapters/agt/producer.py: *)
(* a cache with the wheel of the policy engine, the virtual environment it *)
(* is installed into with a receipt of that, and the producer, which       *)
(* imports the engine only if the three agree.  The script may fail or be  *)
(* killed at any step and is then run again over what the earlier runs     *)
(* left; between runs, packages are installed and files removed by hand.   *)
(* One script or producer runs at a time: neither takes a lock.            *)
(***************************************************************************)
CONSTANTS Served,   \* builds that the wheel's URL, or somebody else, may supply
          Pin,      \* the one whose digest pins.json holds
          Locked    \* those with the package name and version that it names

ASSUME AgtAssumption == Locked \subseteq Served /\ Pin \in Locked

VARIABLES pc,       \* where the run of setup.sh is
          wheel,    \* .wheels/<the pinned filename>
          core,     \* the engine in the environment
          receipt,  \* .autogov-agt-core-wheel.json in the environment
          shadow,   \* another package of the same name precedes it on the path
          ready,    \* setup.sh ended well and nothing has changed since
          ran       \* what the last producer came to, or imported

vars == <<pc, wheel, core, receipt, shadow, ready, ran>>

None == [of |-> "nothing", state |-> "none"]
Shadow == [of |-> "shadow", state |-> "whole"]
Refused == [of |-> "nothing", state |-> "refused"]

\* A wheel may be cut short.  Of an installation that was cut short some of the
\* files are missing ("part"), or its RECORD ("bare"), or both ("stub").
Wheel(m, state) == [of |-> m, state |-> state]
Core(m, state) == [of |-> m, state |-> state]
Wheels == {Wheel(m, s) : m \in Served, s \in {"part", "whole"}}
Cores == {Core(m, s) : m \in Served, s \in {"part", "bare", "stub", "whole"}}

\* What has the pinned sha256.
Pinned == Wheel(Pin, "whole")

Init ==
    /\ pc = "idle" /\ wheel = None /\ core = None /\ receipt = "none"
    /\ shadow = FALSE /\ ready = FALSE /\ ran = None

Exit == pc' = "idle"

Start ==
    /\ pc = "idle" /\ pc' = IF wheel = None THEN "fetch" ELSE "verify"
    /\ ready' = FALSE
    /\ UNCHANGED <<wheel, core, receipt, shadow, ran>>

\* curl -o: of an HTTP error no file is made, of a transfer that dies, with
\* the script, a part remains.
Fetch(m) ==
    /\ pc = "fetch"
    /\ \/ wheel' \in {Wheel(m, "part"), Wheel(m, "whole")} /\ pc' = "verify"
       \/ wheel' \in {None, Wheel(m, "part")} /\ Exit
    /\ UNCHANGED <<core, receipt, shadow, ready, ran>>

\* Mutant: a wheel that fails the check stays in the cache.
VerifyKeeps ==
    /\ pc = "verify" /\ UNCHANGED wheel
    /\ pc' = IF wheel = Pinned THEN "install" ELSE "idle"
    /\ UNCHANGED <<core, receipt, shadow, ready, ran>>

Verify ==
    /\ pc = "verify"
    /\ \/ wheel = Pinned /\ pc' = "install" /\ UNCHANGED wheel
       \/ wheel # Pinned /\ Exit /\ wheel' = None
    /\ UNCHANGED <<core, receipt, shadow, ready, ran>>

Removable == core.state \notin {"bare", "stub"}

Interrupted ==
    {None} \cup {Core(m, s) : m \in {core.of, wheel.of} \cap Served, s \in {"part", "bare", "stub"}}

\* Mutant: what has the right version is not installed again.
InstallOnce ==
    /\ pc = "install"
    /\ \/ /\ pc' = "lock"
          /\ core' = IF core.of \in Locked /\ Removable
                     THEN core ELSE Core(wheel.of, "whole")
       \/ Exit /\ UNCHANGED core
       \/ Exit /\ core' \in Interrupted
    /\ UNCHANGED <<wheel, receipt, shadow, ready, ran>>

\* venv over what is there, and pip install --no-deps --force-reinstall, which
\* cannot remove what has no RECORD, undoes what it did when it fails, and
\* leaves an incomplete engine when it is killed.  The receipt stays.
Install ==
    /\ pc = "install"
    /\ \/ Removable /\ pc' = "lock" /\ core' = Core(wheel.of, "whole")
       \/ Exit /\ UNCHANGED core
       \/ Removable /\ Exit /\ core' \in Interrupted
    /\ UNCHANGED <<wheel, receipt, shadow, ready, ran>>

\* pip install --require-hashes finds the engine's requirement satisfied; the
\* packages it adds are not modelled.
Lock ==
    /\ pc = "lock" /\ (pc' = "receipt" \/ Exit)
    /\ UNCHANGED <<wheel, core, receipt, shadow, ready, ran>>

\* Mutant: what is installed is written down, not what is pinned.
ReceiptCopies ==
    /\ pc = "receipt" /\ Exit /\ receipt' = core.of /\ ready' = TRUE
    /\ UNCHANGED <<wheel, core, shadow, ran>>

\* The installed version is looked at again, and the file written in place.
Receipt ==
    /\ pc = "receipt" /\ Exit
    /\ \/ core.of \in Locked /\ receipt' = "pinned" /\ ready' = TRUE
       \/ core.of \in Locked /\ receipt' = "torn" /\ UNCHANGED ready
       \/ UNCHANGED <<receipt, ready>>
    /\ UNCHANGED <<wheel, core, shadow, ran>>

Kill == pc # "idle" /\ Exit /\ UNCHANGED <<wheel, core, receipt, shadow, ready, ran>>

-------------------------------------------------------------------------------
\* load_pins: the distribution and its version.
load_pins == core # None /\ core.of \in Locked

\* verify_core_wheel: the cached wheel, and the receipt.
verify_core_wheel == wheel = Pinned /\ receipt = "pinned"

\* Mutant: the receipt is proof enough.
ReceiptVouches == core # None

\* verify_installed_distribution: every file with a hash in the RECORD of the
\* verified wheel (all but RECORD itself) has that hash where it is installed.
verify_installed_distribution == core.of = wheel.of /\ core.state \in {"whole", "bare"}

\* VerifiedCoreFinder: what the name resolves to is a verified file.
find_spec == ~ shadow

Accepts == load_pins /\ verify_core_wheel /\ verify_installed_distribution /\ find_spec

\* load_agt_policy_types imports what its name resolves to.
Produce ==
    /\ pc = "idle"
    /\ \/ Accepts /\ ran' = IF shadow THEN Shadow ELSE core
       \/ ~ Accepts /\ ran' = Refused
    /\ UNCHANGED <<pc, wheel, core, receipt, shadow, ready>>

-------------------------------------------------------------------------------
\* Another build is installed by hand, or its files are edited.
HandInstall(m) ==
    /\ pc = "idle" /\ ready' = FALSE /\ core' \in {Core(m, "whole"), Core(m, "part")}
    /\ UNCHANGED <<pc, wheel, receipt, shadow, ran>>

\* "delete those", says the README of .venv and .wheels.
DeleteEnvironment ==
    /\ pc = "idle" /\ ready' = FALSE /\ core' = None /\ receipt' = "none"
    /\ UNCHANGED <<pc, wheel, shadow, ran>>

ReplaceWheel ==
    /\ pc = "idle" /\ ready' = FALSE /\ wheel' \in Wheels \cup {None}
    /\ UNCHANGED <<pc, core, receipt, shadow, ran>>

ChangePath ==
    /\ pc = "idle" /\ shadow' = ~ shadow
    /\ UNCHANGED <<pc, wheel, core, receipt, ready, ran>>

Next ==
    \/ Start \/ (\E m \in Served : Fetch(m)) \/ Verify \/ Install \/ Lock \/ Receipt \/ Kill
    \/ Produce
    \/ (\E m \in Served : HandInstall(m)) \/ DeleteEnvironment \/ ReplaceWheel \/ ChangePath

Spec == Init /\ [][Next]_vars

\* Of the operator and the server, not of the code: the script is run again
\* and again, not killed at the same step for ever, and now and then the
\* pinned wheel arrives whole.
FairSpec ==
    /\ Spec /\ SF_vars(Start) /\ SF_vars(Verify)
    /\ SF_vars(Fetch(Pin) /\ wheel' = Pinned)

-------------------------------------------------------------------------------
TypeOK ==
    /\ pc \in {"idle", "fetch", "verify", "install", "lock", "receipt"}
    /\ wheel \in Wheels \cup {None} /\ core \in Cores \cup {None}
    /\ receipt \in {"none", "torn", "pinned"}
    /\ shadow \in BOOLEAN /\ ready \in BOOLEAN
    /\ ran \in Cores \cup {None, Refused, Shadow}

(***************************************************************************)
(* Whatever setup.sh, its failures and hand-made changes leave behind, the *)
(* engine that a producer imports has all the files of the pinned wheel: a *)
(* receipt from before an interrupted reinstallation does not vouch for    *)
(* what that left, nor a version number for another build.                 *)
(***************************************************************************)
ImportsPinned == ran \in {None, Refused, Core(Pin, "whole"), Core(Pin, "bare")}

(***************************************************************************)
(* "venv ready" keeps its word: once the script ends well, over whatever   *)
(* earlier runs, kills and hand-made installations left, the guard of the  *)
(* producer accepts the environment, until somebody changes it.            *)
(***************************************************************************)
SetupSuffices == ready /\ ~ shadow => Accepts

(***************************************************************************)
(* A bad cache entry, a download cut short or another build, does not stay *)
(* for ever: running the script again gets the pinned wheel in its place,  *)
(* once nobody puts wheels there by hand.                                  *)
(***************************************************************************)
CacheHeals == <>[][~ ReplaceWheel]_vars => []<>(wheel = Pinned)
===============================================================================
