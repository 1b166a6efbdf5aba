------------------------------ MODULE MCSelect ------------------------------
(***************************************************************************)
(* Select with two descriptors, for TLC: one that select() looks at while  *)
(* the other comes and goes.  Nothing is bounded but what the constants    *)
(* give: descriptors come back, and the program never ends.                *)
(***************************************************************************)
EXTENDS Select
=============================================================================
