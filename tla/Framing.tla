------------------------------ MODULE Framing -------------------------------
(***************************************************************************)
(* How packets travel on the line, in both directions: a flag at each end, *)
(* and inside it the two special bytes sent as an escape and the byte with *)
(* bit 5 inverted.                                                         *)
(***************************************************************************)
EXTENDS Integers, Sequences

FLAG   == 126   \* 0x7E
ESCAPE == 125   \* 0x7D

Xor20(ch) == IF (ch \div 32) % 2 = 0 THEN ch + 32 ELSE ch - 32

Escaped(ch) == IF ch \in {FLAG, ESCAPE} THEN <<ESCAPE, Xor20(ch)>> ELSE <<ch>>

Frame(packet) ==
  LET body[i \in 0 .. Len(packet)] ==
        IF i = 0 THEN <<FLAG>> ELSE body[i - 1] \o Escaped(packet[i])
  IN  Append(body[Len(packet)], FLAG)
=============================================================================
