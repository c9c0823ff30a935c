----------------------------- MODULE MCInstaller ------------------------------
(* Two runs, which race one another, whoever installs by hand and whoever    *)
(* moves the verifier aside, with a proxy that serves the pinned module or   *)
(* another one.                                                              *)
EXTENDS Installer
===============================================================================
