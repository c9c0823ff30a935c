-------------------------------- MODULE MCDemo --------------------------------
(* Two runs, each with a directory of its own or with the one that both were *)
(* given, and two cases, one that is to pass and one that is to fail.        *)
EXTENDS Demo

CONSTANTS a, b

TwoRuns == {a, b}
PassThenFail == <<"PASSED", "FAILED">>
===============================================================================
