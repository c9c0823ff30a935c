------------------------------ MODULE MCAgtSetup ------------------------------
(* The pinned wheel, another build of the same version and one of a newer    *)
(* version, each of which may be served, cached, or installed by hand.       *)
EXTENDS AgtSetup
===============================================================================
