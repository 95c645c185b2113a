---------------------------- MODULE MCPacketCodec ----------------------------
(***************************************************************************)
(* A small instance of PacketCodec.                                        *)
(***************************************************************************)
EXTENDS PacketCodec

(* Data of every length up to the payload: zeros, and two kinds of ramps. *)
RampDatas ==
  {[i \in 1..n |-> (i * step) % Base] :
     n \in 0..PayloadSize, step \in {0, 1, Base - 1}}
=============================================================================
