----------------------------- MODULE NoisyLine ------------------------------
(***************************************************************************)
(* The packet layer on a line with noise between the frames, and a host    *)
(* that sends frames of any length without waiting for answers.            *)
(***************************************************************************)
EXTENDS PacketLayer

CONSTANTS
  Request,     \* the packets the host may send; they may be too long
  Noise,       \* the bytes noise may look like
  MAX_NOISE,   \* bound: bytes of noise
  MAX_FRAMES   \* bound: frames sent

\* A frame may be longer than a slot, but not so long that the count of its bytes wraps:
\* such a frame could be taken for a short one.
ASSUME LineAssumption ==
  /\ \A s \in Request : s \in Seq(0 .. 255) /\ Len(s) < LENGTH_SPAN
  /\ Noise \subseteq 0 .. 255

VARIABLES
  line,        \* bytes of the current frame still to be delivered
  packet,      \* the packet of that frame
  dropped,     \* a byte of that frame met an overrun
  noise, frames

lineVars == <<vars, line, packet, dropped, noise, frames>>

LineInit ==
  /\ Init
  /\ line = <<>> /\ packet = <<>> /\ dropped = FALSE
  /\ noise = 0 /\ frames = 0

HostSend(p) ==
  /\ line = <<>> /\ frames < MAX_FRAMES
  /\ line' = Frame(p) /\ packet' = p /\ dropped' = FALSE
  /\ frames' = frames + 1
  /\ UNCHANGED <<vars, noise>>

Deliver ==
  /\ line # <<>>
  /\ DRL_Packet_RX(Head(line))
  /\ line' = Tail(line)
  /\ dropped' = (dropped \/ ~CanFill)
  /\ UNCHANGED <<packet, noise, frames>>

NoiseByte(ch) ==
  /\ line = <<>> /\ noise < MAX_NOISE
  /\ DRL_Packet_RX(ch)
  /\ noise' = noise + 1
  /\ UNCHANGED <<line, packet, dropped, frames>>

LineNext ==
  \/ \E p \in Request : HostSend(p)
  \/ Deliver
  \/ \E ch \in Noise : NoiseByte(ch)
  \/ Compute /\ UNCHANGED <<line, packet, dropped, noise, frames>>

LineSpec == LineInit /\ [][LineNext]_lineVars

-----------------------------------------------------------------------------
FrameEnds == line # <<>> /\ line' = <<>> /\ ~dropped'

\* Whatever the noise left behind - half a packet, an escape without its byte, a
\* packet past the capacity - a frame of legal length that follows it is queued
\* with exactly the contents the host sent (the flag in DRL_Packet_RX).
FrameSurvivesNoise ==
  [][FrameEnds /\ Len(packet) \in 3 .. MAX_PACKET_SIZE
       => waiting_last' # NULL /\ Content(waiting_last)' = packet]_lineVars

\* "We will automatically discard packets that are too long": a frame longer
\* than a slot leaves the waiting list as it was (DRL_Packet_ProcCurrent).
TooLongDiscarded ==
  [][FrameEnds /\ Len(packet) > MAX_PACKET_SIZE
       => <<waiting, waiting_last>>' = <<waiting, waiting_last>>]_lineVars
=============================================================================
