--------------------------- MODULE MCPacketFramer ---------------------------
(***************************************************************************)
(* Small instances of PacketFramer.                                        *)
(***************************************************************************)
EXTENDS PacketFramer

(* Packets as PacketFromParts builds them: empty, one and two bytes. *)
PacketMessages ==
  {PacketFromParts(0, 0, <<>>), PacketFromParts(1, 2, <<7>>),
   PacketFromParts(2, 1, <<1, 0>>)}

(***************************************************************************)
(* Pieces of headers and data, good and bad: right and wrong versions, all *)
(* kinds of lengths (none, small, the refused one, larger, wrapping).      *)
(***************************************************************************)
PieceMessages ==
  {<<1, 2>>, <<2, 1>>, <<0, 0>>, <<0, 1>>, <<0, PayloadSize>>,
   <<1, 0>>, <<3, 3>>, <<3>>}
=============================================================================
