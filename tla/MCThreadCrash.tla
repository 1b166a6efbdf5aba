--------------------------- MODULE MCThreadCrash ----------------------------
(***************************************************************************)
(* Instances of ThreadCrash for TLC.                                       *)
(***************************************************************************)
EXTENDS ThreadCrash
=============================================================================
