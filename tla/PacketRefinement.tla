-------------------------- MODULE PacketRefinement --------------------------
(***************************************************************************)
(* The packet layer implements the packet queue: the abstract queue is     *)
(* read off the linked list.                                               *)
(***************************************************************************)
EXTENDS PacketLayer

\* The waiting list as a sequence of slots.
WaitingList == CHOOSE w \in Chain : IsList(waiting, w)

\* The packet whose CRC is being checked has not been answered yet.
Pending ==
  LET queued == [i \in 1 .. Len(WaitingList) |-> Content(WaitingList[i])]
  IN  IF at = "crc" THEN <<Content(this)>> \o queued ELSE queued

Abstract == INSTANCE PacketQueue WITH
  SLOTS <- NUMBER_OF_PACKETS, MAX_CONTENT <- MAX_PACKET_SIZE,
  pending <- Pending, serving <- at = "reply", last <- reply.kind

\* Packets are answered in order of completion, with unchanged contents and
\* once each, and "!WOV" is sent only when every slot holds an unanswered
\* packet (DRL_Packet_RX, DRL_Packet_ProcCurrent and DRL_Packet_Proc together).
ImplementsQueue == Abstract!Spec
=============================================================================
