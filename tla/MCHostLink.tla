----------------------------- MODULE MCHostLink -----------------------------
(***************************************************************************)
(* HostLink for TLC.                                                       *)
(***************************************************************************)
EXTENDS HostLink

\* A packet whose last byte is not a flag has a bad CRC.
MCCrcOK(s) == s[Len(s)] = FLAG

MCReplyLength ==
  [k \in Kind |-> IF k = "HELLO" THEN 3 ELSE IF k = "!CHK" THEN 2 ELSE 1]

\* A handshake that is welcomed, an information request, a request with a bad CRC.
\* The flag among their bytes travels escaped.
MCRequest == {<<1, QCOM_HDR, FLAG>>, <<2, 9, FLAG>>, <<3, 9, 9>>}

MCByte == 0 .. 255
=============================================================================
