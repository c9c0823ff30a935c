------------------------------- MODULE WriteOnce -------------------------------
(***************************************************************************)
(* What setup-autogov.sh promises about the verifier's destination: it is  *)
(* a write-once slot.  An installer fills it, in one step and with the     *)
(* whole build of the pinned module, only while it is empty; whatever is   *)
(* there stays until the operator moves it aside.  Success is reported     *)
(* only by an installer that filled the slot.                              *)
(***************************************************************************)
CONSTANTS Proc,     \* runs of the installer
          Empty,    \* nothing at the destination
          Body,     \* the whole build of the pinned module
          Strange   \* what others may put there

VARIABLES slot,     \* what is at the destination
          status    \* what each run has come to

svars == <<slot, status>>

SInit == slot \in Strange \cup {Empty} /\ status = [p \in Proc |-> "running"]

Becomes(p, from, to) == status[p] = from /\ status' = [status EXCEPT ![p] = to]

Publish(p) == Becomes(p, "running", "published") /\ slot = Empty /\ slot' = Body

Succeed(p) == Becomes(p, "published", "ok") /\ UNCHANGED slot

\* A run may still fail, or die, after it has filled the slot.
Fail(p) ==
    /\ \E from \in {"running", "published"}, to \in {"failed", "dead"} : Becomes(p, from, to)
    /\ UNCHANGED slot

Occupy == slot = Empty /\ slot' \in Strange /\ UNCHANGED status

Vacate == slot # Empty /\ slot' = Empty /\ UNCHANGED status

SNext == Occupy \/ Vacate \/ \E p \in Proc : Publish(p) \/ Succeed(p) \/ Fail(p)

SSpec == SInit /\ [][SNext]_svars
===============================================================================
