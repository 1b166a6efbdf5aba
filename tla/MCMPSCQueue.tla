---------------------------- MODULE MCMPSCQueue -----------------------------
(***************************************************************************)
(* An instance of MPSCQueue for TLC: its constants need no definitions.    *)
(***************************************************************************)
EXTENDS MPSCQueue
=============================================================================
