-------------------------------- MODULE Usb60x0 --------------------------------
(***************************************************************************)
(* io/qsc60x0_usb.c: the USB port of the QSC60x0.  The controller keeps    *)
(* packets in FIFOs of its own, and the driver looks at them only when it  *)
(* is called.  `active' finds out which pair of FIFOs the host uses, 5 and *)
(* 2, 6 and 3, or the pair behind the buffer register, and the port keeps  *)
(* to it.  Every look begins with the control transfer there may be, and   *)
(* one of them makes the look wait for the host.                           *)
(*                                                                         *)
(* A byte is known by its place in its stream, as in Usb60x5.              *)
(***************************************************************************)
EXTENDS Integers, Sequences, SequencesExt

CONSTANTS
  PACKET,       \* bytes of a USB packet (0x40)
  TX_SIZE,      \* sizeof USB_tx_buffer (0x100), more than a packet
  FrameLengths, \* lengths of the frames written, both flags counted (2 or more)
  Codings,      \* line codings, by their halfwords, the one that init sets among them
  Coding0,
  SERIAL_AT,    \* where the linker puts USB_Serial, which is packed
  MAX_SENT,     \* bound: bytes the host sends
  MAX_WRITTEN,  \* bound: bytes written
  MAX_SETUPS    \* bound: control transfers

VARIABLES
  pair,        \* fifo_has_data and fifo_is_empty: "5, 2", "6, 3", "buffer", or "none"
  tx,          \* USB_tx_buffer, USB_State.wr_len and USB_packet_started
  USB_Serial,
  work,        \* the program: where it is, where it goes on after the control transfer,
               \* the frame being written and the bytes still to be handed on
  fifos,       \* the controller: packets each way, and the control transfer with its
               \* data (FIFO 8) and its answer (FIFO 0)
  peer         \* the host, and the streams the program sees
vars == <<pair, tx, USB_Serial, work, fifos, peer>>

-----------------------------------------------------------------------------
Pairs   == {"5, 2", "6, 3", "buffer"}
BANKS   == 2   \* packets a FIFO of a pair holds
NoFrame == [len |-> 0, at |-> 0, polled |-> FALSE]

\* After qsc60x0_usb_init.
Init ==
  /\ pair = "none"
  /\ tx = [buf |-> [n \in 0 .. TX_SIZE - 1 |-> 0], wr_len |-> 0, started |-> FALSE]
  /\ USB_Serial = Coding0
  /\ work = [pc |-> "active", then |-> "active", frame |-> NoFrame, loop |-> <<>>]
  /\ fifos = [in |-> <<>>, out |-> <<>>, setup |-> "none", data |-> <<>>, reply |-> <<>>]
  /\ peer \in [uses : Pairs, sent : {0}, setups : {0}, gives : {FALSE},
               written : {0}, handed : {<<>>}, taken : {<<>>}, closed : {0}]

-----------------------------------------------------------------------------
(* The host and the controller.                                            *)

Requests == {"SET_LINE_CODING", "CLEAR_FEATURE_E", "SET_CONTROL_LINE_STATE_I", "other"}

\* Behind the buffer register packets are one stream.
Stored(out, packet) ==
  IF peer.uses = "buffer" /\ out # <<>> THEN <<Head(out) \o packet>> ELSE Append(out, packet)

HostSends(n) ==
  /\ peer.sent + n <= MAX_SENT
  /\ peer.uses = "buffer" \/ Len(fifos.out) < BANKS
  /\ fifos' = [fifos EXCEPT !.out = Stored(@, [k \in 1 .. n |-> peer.sent + k])]
  /\ peer' = [peer EXCEPT !.sent = @ + n]
  /\ UNCHANGED <<pair, tx, USB_Serial, work>>

HostTakes ==
  /\ fifos.in # <<>>
  /\ peer' = [peer EXCEPT !.taken = @ \o Head(fifos.in)]
  /\ fifos' = [fifos EXCEPT !.in = Tail(@)]
  /\ UNCHANGED <<pair, tx, USB_Serial, work>>

\* A setup packet, and at any time after it the data of a SET_LINE_CODING.
HostSetup(request) ==
  /\ fifos.setup = "none" /\ ~peer.gives /\ peer.setups < MAX_SETUPS
  /\ fifos' = [fifos EXCEPT !.setup = request]
  /\ peer' = [peer EXCEPT !.setups = @ + 1, !.gives = request = "SET_LINE_CODING"]
  /\ UNCHANGED <<pair, tx, USB_Serial, work>>

HostData(coding) ==
  /\ peer.gives
  /\ fifos' = [fifos EXCEPT !.data = <<coding>>]
  /\ peer' = [peer EXCEPT !.gives = FALSE]
  /\ UNCHANGED <<pair, tx, USB_Serial, work>>

HostTakesReply ==
  /\ fifos.reply # <<>>
  /\ fifos' = [fifos EXCEPT !.reply = <<>>]
  /\ UNCHANGED <<pair, tx, USB_Serial, work, peer>>

Takes == HostTakes \/ HostTakesReply

Host ==
  \/ \E n \in 1 .. PACKET : HostSends(n)
  \/ \E request \in Requests : HostSetup(request)
  \/ \E coding \in Codings : HostData(coding)
  \/ Takes

-----------------------------------------------------------------------------
\* qsc60x0_read_usb_fifo, word by word to the address d, over what is there.  At one that
\* is even but no multiple of 4 each halfword goes to d itself, where the last one stays.
qsc60x0_read_usb_fifo(d, there, held) ==
  IF d % 4 = 2 THEN <<Last(held)>> \o Tail(there) ELSE held

\* qsc60x0_usb_setup_update: the coding is what FIFO 8 holds by now, and an answer has
\* to be taken before the program goes on at `then'.
SetupUpdate(then) ==
  LET request == fifos.setup
      waits   == request = "CLEAR_FEATURE_E"
      given   == request = "SET_LINE_CODING" /\ fifos.data # <<>>
  IN  /\ USB_Serial' = IF given THEN qsc60x0_read_usb_fifo(SERIAL_AT, USB_Serial, Head(fifos.data))
                      ELSE USB_Serial
      /\ fifos' = [fifos EXCEPT !.setup = IF waits THEN @ ELSE "none",
                     !.data = IF request \in {"SET_LINE_CODING", "other"} THEN <<>> ELSE @,
                     !.reply = IF waits THEN <<USB_Serial>> ELSE @]
      /\ work' = [work EXCEPT !.pc = IF waits THEN "waits" ELSE then, !.then = then]

Answered ==
  /\ work.pc = "waits" /\ fifos.reply = <<>>
  /\ work' = [work EXCEPT !.pc = work.then]
  /\ fifos' = [fifos EXCEPT !.setup = "none"]
  /\ UNCHANGED <<pair, tx, USB_Serial, peer>>

\* qsc60x0_usb_active, which DRL_IO_Setup calls until a FIFO holds something.
Active ==
  /\ work.pc = "active"
  /\ pair' = IF fifos.out = <<>> THEN "none" ELSE peer.uses
  /\ SetupUpdate(IF fifos.out = <<>> THEN "active" ELSE "idle")
  /\ UNCHANGED <<tx, peer>>

-----------------------------------------------------------------------------
(* qsc60x0_usb_read.                                                       *)

\* While a frame is written there is one look at most before a byte.
Poll ==
  /\ work.pc = "idle" /\ ~work.frame.polled
  /\ SetupUpdate("receive")
  /\ UNCHANGED <<pair, tx, peer>>

\* qsc60x0_usb_get_fill_status: the bytes behind the buffer register.
Fill == IF fifos.out = <<>> THEN 0 ELSE Len(Head(fifos.out))

\* What a look finds: the packet in the bank at hand, or up to a packet of the buffer.
Found ==
  CASE fifos.out = <<>> -> <<>>
    [] fifos.out # <<>> /\ pair # "buffer" -> Head(fifos.out)
    [] OTHER -> SubSeq(Head(fifos.out), 1, IF Fill < PACKET THEN Fill ELSE PACKET)

\* Bytes behind the buffer register are copied at once and leave it
\* (qsc60x0_usb_read_remaining); a bank is read where it is.
LeftBehind ==
  IF pair # "buffer" THEN fifos.out
  ELSE IF Fill = Len(Found) THEN <<>>
       ELSE <<SubSeq(Head(fifos.out), Len(Found) + 1, Fill)>>

AfterRead == [work.frame EXCEPT !.polled = @ \/ work.frame.len # 0]

Receive ==
  /\ work.pc = "receive"
  /\ work' = IF Found = <<>> THEN [work EXCEPT !.pc = "idle", !.frame = AfterRead]
             ELSE [work EXCEPT !.pc = "hand", !.loop = Found]
  /\ fifos' = [fifos EXCEPT !.out = LeftBehind]
  /\ UNCHANGED <<pair, tx, USB_Serial, peer>>

\* qsc60x0_usb_handle_pkts: a byte to DRL_Packet_RX, and after the last one the bank is
\* given back.
Hand ==
  LET last == Len(work.loop) = 1 IN
  /\ work.pc = "hand"
  /\ peer' = [peer EXCEPT !.handed = Append(@, Head(work.loop))]
  /\ work' = IF last THEN [work EXCEPT !.pc = "idle", !.loop = <<>>, !.frame = AfterRead]
             ELSE [work EXCEPT !.loop = Tail(@)]
  /\ fifos' = IF last /\ pair # "buffer" THEN [fifos EXCEPT !.out = Tail(@)] ELSE fifos
  /\ UNCHANGED <<pair, tx, USB_Serial>>

-----------------------------------------------------------------------------
(* Transmitting.                                                           *)

\* DRL_Packet_TX: a frame that is a multiple of the USB packet is followed by two
\* flags.
ExtraFlags(len) == IF len % PACKET = 0 THEN 2 ELSE 0

StartFrame(len) ==
  /\ work.pc = "idle" /\ work.frame = NoFrame
  /\ peer.written + len + ExtraFlags(len) <= MAX_WRITTEN
  /\ work' = [work EXCEPT !.frame = [NoFrame EXCEPT !.len = len]]
  /\ UNCHANGED <<pair, tx, USB_Serial, fifos, peer>>

IsFlag == work.frame.at = 0 \/ work.frame.at >= work.frame.len - 1

\* What the FIFO is given: len bytes of the buffer, len being wr_len after it was set
\* to 0.
Flushed(buf, len) == [n \in 1 .. len |-> buf[n - 1]]

\* The FIFO of a pair has to be ready, the one behind the buffer register is not asked.
Ready == pair = "buffer" \/ Len(fifos.in) < BANKS

\* qsc60x0_usb_write: the buffer goes out at the flag that begins a frame and when it
\* holds a packet; the flag that ends a frame is only noted.
Write ==
  LET frame  == work.frame
      begins == IsFlag /\ ~tx.started
      buf    == [tx.buf EXCEPT ![tx.wr_len] = peer.written + 1]
      send   == begins \/ (~IsFlag /\ tx.wr_len + 1 = PACKET)
      wr_len == IF send THEN 0 ELSE tx.wr_len + 1
      ended  == frame.at + 1 = frame.len + ExtraFlags(frame.len)
  IN  /\ work.pc = "idle" /\ frame # NoFrame
      /\ send => Ready
      /\ tx' = [buf |-> buf, wr_len |-> wr_len,
                started |-> IF IsFlag THEN begins ELSE tx.started]
      /\ fifos' = IF send THEN [fifos EXCEPT !.in = Append(@, Flushed(buf, wr_len))] ELSE fifos
      /\ work' = [work EXCEPT !.frame = IF ended THEN NoFrame
                                        ELSE [@ EXCEPT !.at = @ + 1, !.polled = FALSE]]
      /\ peer' = [peer EXCEPT !.written = @ + 1,
                    !.closed = IF ended /\ ExtraFlags(frame.len) = 2
                               THEN peer.written + 1 - 2 ELSE @]
      /\ UNCHANGED <<pair, USB_Serial>>

-----------------------------------------------------------------------------
\* What goes on by itself: the calls of `active', and then the polls and the frame begun.
Starts   == Active \/ Answered
Proceeds == Answered \/ Poll \/ Receive \/ Hand \/ Write

Driver == Proceeds \/ \E len \in FrameLengths : StartFrame(len)

Next == Host \/ Active \/ Driver

Spec == Init /\ [][Next]_vars

-----------------------------------------------------------------------------
(* Properties.                                                             *)

\* Every byte the host sends, over whichever pair of FIFOs, reaches DRL_Packet_RX once
\* and in its order, although a bank is read while the host fills another one.
HandedInOrder == \A k \in 1 .. Len(peer.handed) : peer.handed[k] = k

\* No look and no frame waits for ever: neither for the host to take an answer nor for a
\* FIFO to become free.
Served ==
  /\ work.pc = "waits" ~> work.pc # "waits"
  /\ work.frame # NoFrame ~> work.frame = NoFrame

\* What packet_io.c says of the two flags that follow a frame whose length is a
\* multiple of the USB packet ("Two flag characters can serve as the short packet"):
\* they flush it.  Once they are written and the host has taken all there is, it has
\* the frame up to its closing flag.
TwoFlagsFlush ==
  work.frame = NoFrame /\ fifos.in = <<>> =>
    \A k \in 1 .. peer.closed : \E n \in 1 .. Len(peer.taken) : peer.taken[n] = k
=============================================================================
