---------------------------- MODULE MCPacketLayer ---------------------------
(***************************************************************************)
(* PacketLayer and its refinement for TLC: any bytes, in any order, at any *)
(* poll.  What a packet asks for is of no interest here, only whether its  *)
(* CRC is good, which its last byte tells.                                 *)
(***************************************************************************)
EXTENDS PacketRefinement

MCCrcOK(s) == s[Len(s)] = FLAG

\* Replies of one, two and three bytes: none, one and one poll inside.
MCReplyLength ==
  [k \in Kind |-> IF k = "!WOV" THEN 1 ELSE IF k = "!CHK" THEN 2 ELSE 3]

\* A flag, an escape, and the byte that is a flag when escaped.
MCByte == {FLAG, ESCAPE, 94}
=============================================================================
