---------------------------- MODULE MCThreadPool ----------------------------
(***************************************************************************)
(* Instances of ThreadPool for TLC.  Each function is handed over by one   *)
(* call at most, so the number of functions bounds the calls.              *)
(***************************************************************************)
EXTENDS ThreadPool, TLC

\* For runs without liveness: the callers and the functions are interchangeable.
Symmetry == Permutations(Callers) \cup Permutations(Jobs)
=============================================================================
