-------------------------------- MODULE MCPorts --------------------------------
(***************************************************************************)
(* Ports for TLC.  USB: packets of two bytes, receive buffers of two       *)
(* packets, frames that fit into tx_buffer and one that spills a byte, so  *)
(* that transfers of one packet and of several, short ones, full buffers   *)
(* and received bytes written over all occur.  Serial                      *)
(* line: FIFOs of two bytes, which three bytes overrun, and reads that end *)
(* at their limit as well as at an empty FIFO.                             *)
(***************************************************************************)
EXTENDS Ports

MCFrameLengths == {2, 3, 4}
=============================================================================
