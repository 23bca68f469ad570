---------------------------- MODULE MCNoisyLine -----------------------------
(***************************************************************************)
(* NoisyLine for TLC.                                                      *)
(***************************************************************************)
EXTENDS NoisyLine

MCCrcOK(s) == s[Len(s)] = FLAG

MCReplyLength == [k \in Kind |-> 2]

\* Bytes of a packet that need no escape.
Plain(n) == [i \in 1 .. n |-> 1]

\* A packet with escaped bytes at its start and its end, a full one, and one
\* byte more than a slot holds.
MCRequest ==
  {<<ESCAPE, 1, FLAG>>, Plain(MAX_PACKET_SIZE), Plain(MAX_PACKET_SIZE + 1)}

MCNoise == {FLAG, ESCAPE, 1}

MCByte == 0 .. 255
=============================================================================
