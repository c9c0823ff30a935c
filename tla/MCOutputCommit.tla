---------------------------- MODULE MCOutputCommit ----------------------------
(* Two writers of one path, one invocation on standard output and one whose  *)
(* evidence is refused.  Two temporary names let CreateTemp run into a name  *)
(* in use, reuse one that was freed, and run out of names after a crash.     *)
EXTENDS OutputCommit

CONSTANTS w1, w2, out, bad

MCProc == {w1, w2, out, bad}
MCValid == {w1, w2, out}
MCStdout == {out}
===============================================================================
