------------------------------ MODULE MCRelease -------------------------------
(* A reviewed commit and another, two pushes of the tag, two drafts, and two *)
(* edits, enough to alter an archive and the checksums that cover it.        *)
EXTENDS Release
===============================================================================
