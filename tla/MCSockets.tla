----------------------------- MODULE MCSockets ------------------------------
(***************************************************************************)
(* Instances of Sockets for TLC.                                           *)
(***************************************************************************)
EXTENDS Sockets, TLC

Symmetry == Permutations(Fds) \cup Permutations(Accepted)
=============================================================================
