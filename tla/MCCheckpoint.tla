----------------------------- MODULE MCCheckpoint -----------------------------
(* A policy directory with the frozen rules, a selected file before and one  *)
(* behind them, and one that is not selected.  One path begins another, and  *)
(* the rules are spelt like the path and the bytes of the file behind them.  *)
EXTENDS Checkpoint

CONSTANTS x, y

PolicyOrder == <<<<x>>, <<x, y>>, <<x, x, y>>, <<y>>>>
PolicyFiles == {<<x>>, <<x, y>>, <<y>>}
RegoPath == <<x, y>>
CommittedRules == <<y, x>>
SomeBytes == {<<>>, <<x>>, CommittedRules}
===============================================================================
