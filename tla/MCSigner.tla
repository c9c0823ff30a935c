------------------------------- MODULE MCSigner -------------------------------
(* An hour of three units and a day of five, of which the clock may be one   *)
(* ahead or behind, and time enough to outlast the authorities.              *)
EXTENDS Signer
===============================================================================
