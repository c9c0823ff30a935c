------------------------------- MODULE Installer -------------------------------
(***************************************************************************)
(* scripts/setup-autogov.sh: several runs of the verifier's installer in   *)
(* one checkout, among others who use the same destination.  "link(2)      *)
(* below repeats this check atomically when another process races this     *)
(* early check": the checks, the download, the build and the link are      *)
(* separate steps here, and anything may happen between them.              *)
(*                                                                         *)
(* A run builds at most one executable, so the run names the inode; the    *)
(* hard link and the staging path name the same inode, and removing the    *)
(* staging tree removes only the latter.  mktemp gives each run a staging  *)
(* tree of its own.                                                        *)
(***************************************************************************)
EXTENDS Naturals

CONSTANTS Proc,     \* runs of the installer
          Served,   \* modules that the proxy may serve for the request
          Pin,      \* the one with the version, sum and path asked for
          Foreign,  \* what somebody else may put at the destination
          Empty     \* nothing there

\* What an executable is built from, and how far.
Executable(of, state) == [of |-> of, state |-> state]

ASSUME InstallerAssumption ==
    /\ Foreign \notin Proc /\ Empty \notin Proc /\ Foreign # Empty
    /\ Pin \in Served
    /\ \A of \in SUBSET Served, state \in {"none", "part", "whole"} :
          Executable(of, state) # Empty

VARIABLES pc,       \* where each run is
          status,   \* what it has come to: the exit status it will have
          root,     \* what .autogov is
          bin,      \* what .autogov/bin is
          dest,     \* the inode at .autogov/bin/autogov-VERSION
          staging,  \* the runs whose staging tree exists
          fetched,  \* the modules each run has in its module cache
          built     \* the executable of each run: "none", "part" or "whole"

vars == <<pc, status, root, bin, dest, staging, fetched, built>>

Kinds == {"absent", "directory", "symlink", "file"}

\* Once the staging tree is claimed, an EXIT trap removes it.
Trapped == {"download", "build", "link", "cleanup"}
Live == {"check", "prepare", "stage"} \cup Trapped

Init ==
    /\ pc = [p \in Proc |-> "check"]
    /\ status = [p \in Proc |-> "running"]
    /\ root \in Kinds
    /\ bin \in IF root = "directory" THEN Kinds ELSE {"absent"}
    /\ dest \in IF bin = "directory" THEN {Empty, Foreign} ELSE {Empty}
    /\ staging = {}
    /\ fetched = [p \in Proc |-> {}]
    /\ built = [p \in Proc |-> "none"]

Goto(p, from, to) == pc[p] = from /\ pc' = [pc EXCEPT ![p] = to]
Ends(p, how) == status' = [status EXCEPT ![p] = how]

\* exit 1, or set -e, before and after there is something to clean up.
Refuse(p, at) == Goto(p, at, "end") /\ Ends(p, "failed")
Abort(p, at) == Goto(p, at, "cleanup") /\ Ends(p, "failed")

\* Mutant: the parents are not looked at.
CheckDestination(p) ==
    /\ \/ dest # Empty /\ Refuse(p, "check")
       \/ dest = Empty /\ Goto(p, "check", "prepare") /\ UNCHANGED status
    /\ UNCHANGED <<root, bin, dest, staging, fetched, built>>

\* Mutant: a known collision ends the script without an exit status.
CheckSilent(p) ==
    /\ LET refused == "symlink" \in {root, bin} \/ dest # Empty
       IN  Goto(p, "check", IF refused THEN "end" ELSE "prepare")
    /\ UNCHANGED <<status, root, bin, dest, staging, fetched, built>>

\* The early checks: symlinked parents and a known collision.
Check(p) ==
    /\ LET refused == "symlink" \in {root, bin} \/ dest # Empty
       IN  \/ refused /\ Refuse(p, "check")
           \/ ~ refused /\ Goto(p, "check", "prepare") /\ UNCHANGED status
    /\ UNCHANGED <<root, bin, dest, staging, fetched, built>>

\* mkdir -p, twice, each after a look at what is there by then; the second
\* may fail where the first has succeeded.
Prepare(p) ==
    /\ \/ /\ root # "file" /\ bin \in {"absent", "directory"}
          /\ Goto(p, "prepare", "stage") /\ UNCHANGED status
          /\ root' = IF root = "absent" THEN "directory" ELSE root
          /\ bin' = "directory"
       \/ /\ Refuse(p, "prepare") /\ UNCHANGED bin
          /\ root' \in {root, IF root = "absent" THEN "directory" ELSE root}
    /\ UNCHANGED <<dest, staging, fetched, built>>

\* mktemp -d, and the trap.
Stage(p) ==
    /\ \/ Goto(p, "stage", "download") /\ staging' = staging \cup {p} /\ UNCHANGED status
       \/ Refuse(p, "stage") /\ UNCHANGED staging
    /\ UNCHANGED <<root, bin, dest, fetched, built>>

\* go mod download, of whatever the caller's proxy serves, and the comparison
\* of its version, its sum and the path in its go.mod.
Download(p) ==
    /\ \/ \E m \in Served :
             /\ fetched' = [fetched EXCEPT ![p] = {m}]
             /\ \/ m = Pin /\ Goto(p, "download", "build") /\ UNCHANGED status
                \/ Abort(p, "download")
       \/ Abort(p, "download") /\ UNCHANGED fetched
    /\ UNCHANGED <<root, bin, dest, staging, built>>

\* go build -o $temporary and chmod, which may stop half-way.
Build(p) ==
    /\ \/ /\ pc[p] = "build" /\ built[p] = "none"
          /\ built' = [built EXCEPT ![p] = "part"] /\ UNCHANGED <<pc, status>>
       \/ /\ built[p] = "part" /\ Goto(p, "build", "link")
          /\ built' = [built EXCEPT ![p] = "whole"] /\ UNCHANGED status
       \/ Abort(p, "build") /\ UNCHANGED built
    /\ UNCHANGED <<root, bin, dest, staging, fetched>>

\* Mutant: mv in the place of link.
Move(p) ==
    /\ \/ /\ Goto(p, "link", "cleanup") /\ Ends(p, "published") /\ dest' = p
       \/ Abort(p, "link") /\ UNCHANGED dest
    /\ UNCHANGED <<root, bin, staging, fetched, built>>

\* Mutant: a run that lost the race waits for its turn.
LinkWaits(p) ==
    /\ dest = Empty /\ Goto(p, "link", "cleanup") /\ Ends(p, "published") /\ dest' = p
    /\ UNCHANGED <<root, bin, staging, fetched, built>>

\* link(2) fails if anything, a dangling symlink too, is at the destination.
Link(p) ==
    /\ \/ /\ dest = Empty
          /\ Goto(p, "link", "cleanup") /\ Ends(p, "published") /\ dest' = p
       \/ Abort(p, "link") /\ UNCHANGED dest
    /\ UNCHANGED <<root, bin, staging, fetched, built>>

\* Mutant: the modules in the cache are read-only, so rm leaves the tree.
CleanupReadOnly(p) ==
    /\ Goto(p, "cleanup", "end")
    /\ status' = [status EXCEPT ![p] = IF @ = "published" THEN "ok" ELSE @]
    /\ staging' = IF fetched[p] = {} THEN staging \ {p} ELSE staging
    /\ UNCHANGED <<root, bin, dest, fetched, built>>

\* The EXIT trap.  If rm fails, so does the script, even when it has published.
Cleanup(p) ==
    /\ \/ /\ Goto(p, "cleanup", "end") /\ staging' = staging \ {p}
          /\ status' = [status EXCEPT ![p] = IF @ = "published" THEN "ok" ELSE @]
       \/ Goto(p, "cleanup", "stuck") /\ Ends(p, "failed") /\ UNCHANGED staging
    /\ UNCHANGED <<root, bin, dest, fetched, built>>

Step(p) ==
    \/ Check(p) \/ Prepare(p) \/ Stage(p) \/ Download(p)
    \/ Build(p) \/ Link(p) \/ Cleanup(p)

-------------------------------------------------------------------------------
\* A signal that bash can handle, or a failure to print the path at the end:
\* the trap runs, and the exit status is no success even if the link was made.
Interrupt(p) ==
    /\ pc[p] \in Trapped /\ Abort(p, pc[p])
    /\ UNCHANGED <<root, bin, dest, staging, fetched, built>>

\* SIGKILL, or any signal before the trap is set: nothing runs.
Kill(p) ==
    /\ pc[p] \in Live
    /\ pc' = [pc EXCEPT ![p] = "killed"]
    /\ status' = [status EXCEPT ![p] = IF @ = "failed" THEN @ ELSE "dead"]
    /\ UNCHANGED <<root, bin, dest, staging, fetched, built>>

\* Somebody else installs a verifier by hand, without overwriting either.
Occupy ==
    /\ bin = "directory" /\ dest = Empty /\ dest' = Foreign
    /\ UNCHANGED <<pc, status, root, bin, staging, fetched, built>>

\* "Inspect it and deliberately move it aside before retrying."
MoveAside ==
    /\ dest # Empty /\ dest' = Empty
    /\ UNCHANGED <<pc, status, root, bin, staging, fetched, built>>

Next == Occupy \/ MoveAside \/ \E p \in Proc : Step(p) \/ Interrupt(p) \/ Kill(p)

Spec == Init /\ [][Next]_vars

\* The commands that a run waits for return; no run waits for another.
FairSpec == Spec /\ \A p \in Proc : WF_vars(Step(p))

-------------------------------------------------------------------------------
TypeOK ==
    /\ pc \in [Proc -> Live \cup {"end", "stuck", "killed"}]
    /\ status \in [Proc -> {"running", "published", "ok", "failed", "dead"}]
    /\ root \in Kinds /\ bin \in Kinds
    /\ dest \in Proc \cup {Foreign, Empty}
    /\ staging \subseteq Proc
    /\ fetched \in [Proc -> SUBSET Served]
    /\ built \in [Proc -> {"none", "part", "whole"}]
    /\ \A p \in Proc : pc[p] = "end" => status[p] \in {"ok", "failed"}

Content(i) == IF i \in Proc THEN Executable(fetched[i], built[i]) ELSE i

Slot == INSTANCE WriteOnce
    WITH Body <- Executable({Pin}, "whole"), Strange <- {Foreign},
         slot <- Content(dest)

(***************************************************************************)
(* The destination is a write-once slot: of any number of racing runs one  *)
(* fills it, with a whole build of the pinned module, and no run replaces, *)
(* truncates or changes what is there.  A run that reports success has     *)
(* filled it itself: it never takes what another has put there for its own.*)
(***************************************************************************)
NeverOverwritten == Slot!SSpec

(***************************************************************************)
(* "The verifier storage belongs to this script": with a symlink (or a     *)
(* file) in the place of either directory, no run creates anything in it,  *)
(* and none claims a staging tree or asks the network.                     *)
(***************************************************************************)
StorageNotFollowed ==
    \/ root \in {"absent", "directory"} /\ bin \in {"absent", "directory"}
    \/ /\ dest = Empty
       /\ staging = {} /\ \A p \in Proc : fetched[p] = {}

(***************************************************************************)
(* A staging tree, with its two caches, outlives its run only if the run   *)
(* was killed or could not remove it: failed checks, downloads, builds and *)
(* links, lost races and handled signals all clean up.                     *)
(***************************************************************************)
NoStagingLeft == \A p \in staging : pc[p] \in Trapped \cup {"stuck", "killed"}

(***************************************************************************)
(* Every run ends, whatever the others do: no lock is taken and no step is *)
(* retried.                                                                *)
(***************************************************************************)
EveryRunEnds == \A p \in Proc : <>(pc[p] \in {"end", "stuck", "killed"})
===============================================================================
