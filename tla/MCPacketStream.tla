--------------------------- MODULE MCPacketStream ----------------------------
(***************************************************************************)
(* Instances of PacketStream for TLC: lengths of two bytes are enough for  *)
(* each greeting and each header to arrive in parts.                       *)
(***************************************************************************)
EXTENDS PacketStream, TLC

OneAndTwo == Host :> 1 @@ Client :> 2
=============================================================================
