------------------------------ MODULE Commands ------------------------------
(***************************************************************************)
(* The command set of the loader: which reply a packet earns.              *)
(*                                                                         *)
(* A packet is a sequence of bytes (the command byte first, the two CRC    *)
(* bytes last).  A reply is known by its kind; the text and the payload of *)
(* a reply are abstracted away.  The 32-byte header of a handshake is      *)
(* abstracted to one byte, the byte after the command.                     *)
(***************************************************************************)
EXTENDS Integers, Sequences

CONSTANTS
  CrcOK(_),        \* crc_16_l_step over the packet ends in CRC_16_L_OK
  QCOM_HDR,        \* stands for "QCOM fast download protocol host"
  DRL_HDR,         \* stands for "KAIDOU_SHUN!"
  FlashDetected    \* DRL_Flash_Detected, fixed once the probe loop is over

ASSUME HeadersAssumption ==
  /\ QCOM_HDR # DRL_HDR
  /\ FlashDetected \in BOOLEAN

DRL_CMD_STARTING_CMD == 0
DRL_CMD_HANDSHAKE    == 1
DRL_CMD_INFO         == 2
DRL_CMD_FLASH_SIZE   == 3
DRL_CMD_FLASH_READ   == 5
DRL_CMD_ENDING_CMD   == 6

\* Error replies carry their four-letter message as the kind.
ErrorKind == {"!CHK", "!WOV", "!INV", "!FLA", "!LEN", "!ERR"}
Kind      == ErrorKind \cup {"SORRY", "HELLO", "INFO", "SIZE", "READ"}

-----------------------------------------------------------------------------
(* What each handler answers, and whether it opens the gate (clears        *)
(* need_hello).                                                            *)

Answer(kind, need) == [kind |-> kind, need_hello |-> need]

\* DRL_Cmd_Handshake.  Both comparisons test "differs from": anything but the
\* Qualcomm header is told it is not welcome, and the Qualcomm header, since
\* it differs from the loader's own, is welcomed.
Handshake(hdr, need) ==
  IF hdr # QCOM_HDR     THEN {Answer("SORRY", need)}
  ELSE IF hdr # DRL_HDR THEN {Answer("HELLO", FALSE)}
  ELSE                       {Answer("!INV", need)}

\* The table of the blocks found by the probe, and the size of one of them.
DRL_Cmd_Info(need)      == {Answer("INFO", need)}
DRL_Cmd_FlashSize(need) == {Answer("SIZE", need)}

\* The outcome of a flash read depends on the flash, so all of them are possible.
DRL_Packet_FlashRead(need) == {Answer(k, need) : k \in {"READ", "!LEN", "!ERR", "!INV"}}

DRL_Packet_SendInvalid(need) == {Answer("!INV", need)}

\* DRL_Packet_Cmds: nothing is behind commands 0, 4 and 6.
Handle(cmd, hdr, need) ==
  IF cmd = DRL_CMD_HANDSHAKE       THEN Handshake(hdr, need)
  ELSE IF cmd = DRL_CMD_INFO       THEN DRL_Cmd_Info(need)
  ELSE IF cmd = DRL_CMD_FLASH_SIZE THEN DRL_Cmd_FlashSize(need)
  ELSE IF cmd = DRL_CMD_FLASH_READ THEN DRL_Packet_FlashRead(need)
  ELSE DRL_Packet_SendInvalid(need)

Gated(cmd, need) ==
  \/ cmd \notin DRL_CMD_STARTING_CMD .. DRL_CMD_ENDING_CMD
  \/ need /\ cmd # DRL_CMD_HANDSHAKE

\* The body of the loop of DRL_Packet_Proc, from the CRC verdict on: the set of
\* answers the packet may get.
Respond(packet, need) ==
  IF ~CrcOK(packet)               THEN {Answer("!CHK", need)}
  ELSE IF Gated(packet[1], need)  THEN {Answer("!INV", need)}
  ELSE IF ~FlashDetected          THEN {Answer("!FLA", need)}
  ELSE Handle(packet[1], packet[2], need)
=============================================================================
