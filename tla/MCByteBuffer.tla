---------------------------- MODULE MCByteBuffer -----------------------------
(***************************************************************************)
(* Instances of ByteBuffer for TLC.                                        *)
(***************************************************************************)
EXTENDS ByteBuffer, TLC

\* A byte, two of them, and a string.
SomeItems ==
  {[width |-> 1, bytes |-> <<1>>], [width |-> 2, bytes |-> <<0, 1>>], [width |-> 0, bytes |-> <<1>>]}

Symmetry == Permutations(Buffers)
=============================================================================
