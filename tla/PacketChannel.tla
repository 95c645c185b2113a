---------------------------- MODULE PacketChannel ----------------------------
(***************************************************************************)
(* What a framed connection promises: packets come out as they were sent,  *)
(* in order, none lost, none twice, and all of them in the end.            *)
(***************************************************************************)
EXTENDS Naturals, Sequences

CONSTANT Messages
VARIABLES sent, taken

Init == sent = <<>> /\ taken = <<>>

Send(m) == sent' = Append(sent, m) /\ UNCHANGED taken

Deliver ==
  /\ Len(taken) < Len(sent)
  /\ taken' = Append(taken, sent[Len(taken) + 1])
  /\ UNCHANGED sent

Next == (\E m \in Messages : Send(m)) \/ Deliver

Safety == Init /\ [][Next]_<<sent, taken>>

Spec == Safety /\ WF_<<sent, taken>>(Deliver)
=============================================================================
