------------------------------ MODULE HostLink ------------------------------
(***************************************************************************)
(* The packet layer and a host that keeps to the window: it never has more *)
(* than WINDOW requests unanswered.  The line delivers the host's bytes in *)
(* order; replies reach the host as soon as their closing flag is sent.    *)
(*                                                                         *)
(* io_type.h gives the pool size as the maximum window, which is right     *)
(* where a write does not poll.  Where it does, the closing flag is one    *)
(* more poll between the answer and the release of its slot, so the next   *)
(* request may come in while the slot is still held: the window must leave *)
(* one slot over.                                                          *)
(***************************************************************************)
EXTENDS PacketLayer

CONSTANTS
  WINDOW,     \* requests the host may have unanswered
  Request     \* the packets the host may send, CRC included

ASSUME HostAssumption ==
  /\ WINDOW \in 1 .. NUMBER_OF_PACKETS
  /\ WRITE_POLLS => WINDOW < NUMBER_OF_PACKETS
  /\ \A s \in Request : s \in Seq(0 .. 255) /\ Len(s) \in 3 .. MAX_PACKET_SIZE

VARIABLES
  line,       \* bytes on their way to the loader
  asked,      \* requests without an answer, oldest first
  closed      \* the host has not seen a welcome yet

linkVars == <<vars, line, asked, closed>>

LinkInit == Init /\ line = <<>> /\ asked = <<>> /\ closed = TRUE

HostSend(packet) ==
  /\ Len(asked) < WINDOW
  /\ line' = line \o Frame(packet)
  /\ asked' = Append(asked, packet)
  /\ UNCHANGED <<vars, closed>>

Deliver ==
  /\ line # <<>>
  /\ DRL_Packet_RX(Head(line))
  /\ line' = Tail(line)
  /\ UNCHANGED <<asked, closed>>

\* The reply of this kind, as a whole.
Whole(kind) == [i \in 1 .. REPLY_LENGTH[kind] |-> <<kind, i - 1>>]

\* A flag reaches the host and there was something before it: an answer.
Delivered == sent # <<>> /\ (TXInterrupt \/ TXOpen \/ TXClose)

LoaderStep ==
  /\ Compute
  /\ IF Delivered
     THEN /\ asked' = IF asked = <<>> THEN asked ELSE Tail(asked)
          /\ closed' = (closed /\ sent # Whole("HELLO"))
     ELSE UNCHANGED <<asked, closed>>
  /\ UNCHANGED line

LinkNext == (\E packet \in Request : HostSend(packet)) \/ Deliver \/ LoaderStep

LinkSpec == LinkInit /\ [][LinkNext]_linkVars

\* The loader's processor never stops, a poll hands over a bounded number of
\* bytes and then returns (128 in the UART driver), and the loader polls again
\* and again, so bytes on the line are read in the end.
LinkFairSpec == LinkSpec /\ WF_linkVars(LoaderStep) /\ WF_linkVars(Deliver)

-----------------------------------------------------------------------------
\* A host that keeps to the window never meets an overrun, so DRL_Packet_TX
\* never runs inside itself and never sends from a buffer that was overwritten.
WindowSuffices == reply.kind # "!WOV" /\ Len(calls) <= 1

\* Every frame the host receives is one whole reply, and it is a reply to the
\* oldest request without an answer, under the gate as the host knows it:
\* replies are not mixed, lost, repeated or given in another order.
AnswersInOrder ==
  [][Delivered => /\ asked # <<>>
                  /\ \E a \in Respond(Head(asked), closed) : sent = Whole(a.kind)]_linkVars

\* Every request is answered in the end: DRL_Packet_Proc gets through a poll, a
\* CRC and a reply however many bytes arrive in between.
RequestsAnswered == asked # <<>> ~> calls # <<>> /\ Top.at = "close"

\* What the comment of DRL_Cmd_Handshake says: "If DRL header found -> TX
\* confirmation and open the gates".  The gate opens for the loader's own host.
GateOpensForOwnHost ==
  [][need_hello /\ ~need_hello' => Content(this)[2] = DRL_HDR]_linkVars
=============================================================================
