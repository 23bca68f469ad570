-------------------------------- MODULE Usb60x5 --------------------------------
(***************************************************************************)
(* io/qsc60x5_usb.c: the USB port of the QSC60x5.  The controller moves    *)
(* bytes by DMA, out of tx_buffer and into one of two receive buffers, and *)
(* latches in a register which endpoints are done; the driver looks at     *)
(* that register only when it is called.  A write starts a transfer at the *)
(* end of a frame and calls the read routine until the transfer is done,   *)
(* so a read runs inside a write, and what has been received meanwhile is  *)
(* noted and handed on from there.                                         *)
(*                                                                         *)
(* A byte is known by its place in its stream: <<"rx", k>> is the k-th the *)
(* host sent, <<"tx", k>> the k-th that was written.  A write does not ask *)
(* whether tx_buffer is full: the rest of a longer frame, `spilt', goes    *)
(* over the receive buffers behind it.  DRL_Packet_RX is taken not to      *)
(* write in its turn, which is so while it finds a slot: WindowSuffices of *)
(* HostLink.                                                               *)
(*                                                                         *)
(* Requests have their names of the USB standard.  io_type.h:7-10 has two  *)
(* of them swapped: 0x102, which it calls GET_LINE_CODING, is              *)
(* CLEAR_FEATURE and has no data, and 0x21A1, which it calls               *)
(* CLEAR_FEATURE_E, asks for the coding.  So a CLEAR_FEATURE is answered   *)
(* with the first wLength bytes of the coding, which are none, and the     *)
(* question for the coding by an empty packet.  That case also clears the  *)
(* stall and the toggle bit of an endpoint, which only the controller      *)
(* sees; they are left out.                                                *)
(***************************************************************************)
EXTENDS Integers, Sequences

CONSTANTS
  TX_SIZE,      \* sizeof tx_buffer (1040)
  RX_SIZE,      \* USB_RX_BUFFER_SIZE (1152)
  PACKET,       \* the longest USB packet (64)
  FrameLengths, \* lengths of the frames written, both flags counted; a longer one than
                \* the three buffers would go over the variables behind them
  Codings,      \* line codings, the one that init sets among them
  Coding0,
  MAX_SENT,     \* bound: bytes the host sends
  MAX_WRITTEN,  \* bound: bytes written
  MAX_SETUPS    \* bound: control transfers

ASSUME UsbAssumption ==
  /\ TX_SIZE \in Nat \ {0} /\ PACKET \in Nat \ {0}
  /\ RX_SIZE \in Nat \ {0} /\ RX_SIZE % PACKET = 0
  /\ FrameLengths \subseteq 2 .. (TX_SIZE + 2 * RX_SIZE)
  /\ Coding0 \in Codings
  /\ MAX_SENT \in Nat /\ MAX_WRITTEN \in Nat /\ MAX_SETUPS \in Nat

VARIABLES
  \* USB_State and the statics of the file; `ram' is its three buffers
  ram, tx_buf_index, rx_index, setup_data_stage_flag, line_coding,
  USB_rx_buffer, process_rx_buffer, wait_for_tx_done,
  \* the program: the frame being written, the loop over the bytes received
  frame, loop,
  \* the controller: its transfers, the endpoints done, the done bits enabled
  out, in, ep0, done, enabled,
  \* the host: bytes sent, those in transfers that ended, bytes received, the
  \* control transfer under way; and the streams the program sees, with the places
  \* of the bytes written behind tx_buffer
  sent, shipped, taken, ctl, written, handed, spilt

usbVars  == <<ram, tx_buf_index, rx_index, setup_data_stage_flag, line_coding,
              USB_rx_buffer, process_rx_buffer, wait_for_tx_done>>
progVars == <<frame, loop, written, handed, spilt>>
coreVars == <<out, in, ep0, done, enabled>>
hostVars == <<sent, shipped, taken, ctl>>
vars     == <<usbVars, progVars, coreVars, hostVars>>

-----------------------------------------------------------------------------
\* The buffers lie one behind the other in USB_State: tx_buffer, rx_buffer1,
\* rx_buffer2.  A receive buffer is known by the place it starts at.
Ram        == 0 .. (TX_SIZE + 2 * RX_SIZE - 1)
rx_buffer1 == TX_SIZE
rx_buffer2 == TX_SIZE + RX_SIZE
NULL       == 0

NoFrame == [len |-> 0, at |-> 0]
NoLoop  == [i |-> 0, num_bytes_read |-> 0]

\* After qsc60x5_usb_init: the first buffer is ready to receive.
Init ==
  /\ ram = [n \in Ram |-> <<"old", 0>>]
  /\ tx_buf_index = 0 /\ rx_index = 0
  /\ setup_data_stage_flag = FALSE /\ line_coding = Coding0
  /\ USB_rx_buffer = rx_buffer1 /\ process_rx_buffer = NULL
  /\ wait_for_tx_done = FALSE
  /\ frame = NoFrame /\ loop = NoLoop
  /\ out = [buf |-> rx_buffer1, got |-> 0, ready |-> TRUE]
  /\ in = [len |-> 0, left |-> 0]
  /\ ep0 = [setup |-> "none", coding |-> Coding0, reply |-> "none"]
  /\ done = {} /\ enabled = {"setup", "rx"}
  /\ sent = 0 /\ shipped = 0 /\ taken = <<>> /\ written = 0 /\ handed = <<>>
  /\ spilt = {} /\ ctl = [stage |-> "idle", set |-> Coding0, count |-> 0]

-----------------------------------------------------------------------------
(* The host and the controller.                                            *)

Requests == {"SET_LINE_CODING", "GET_LINE_CODING", "CLEAR_FEATURE", "other"}

\* A packet of n bytes goes to the receive buffer set up last.  A short packet, or a
\* full buffer, ends the transfer, and no more is taken until the next is set up.
HostSends(n) ==
  LET ends == n < PACKET \/ out.got + n = RX_SIZE
      to   == out.buf + out.got
  IN  /\ out.ready /\ out.got + n <= RX_SIZE /\ sent + n <= MAX_SENT
      /\ ram' = [k \in Ram |-> IF k \in to .. (to + n - 1)
                               THEN <<"rx", sent + k - to + 1>> ELSE ram[k]]
      /\ out' = [out EXCEPT !.got = @ + n, !.ready = ~ends]
      /\ done' = IF ends THEN done \cup {"rx"} ELSE done
      /\ sent' = sent + n
      /\ shipped' = IF ends THEN sent + n ELSE shipped
      /\ UNCHANGED <<tx_buf_index, rx_index, setup_data_stage_flag, line_coding,
                     USB_rx_buffer, process_rx_buffer, wait_for_tx_done, progVars,
                     in, ep0, enabled, taken, ctl>>

\* The host takes a packet of the transfer under way, as the memory is by then.
HostTakes ==
  LET n    == IF in.left < PACKET THEN in.left ELSE PACKET
      from == in.len - in.left
  IN  /\ in.left > 0
      /\ taken' = taken \o [k \in 1 .. n |-> ram[from + k - 1]]
      /\ in' = [in EXCEPT !.left = @ - n]
      /\ done' = IF in.left = n THEN done \cup {"tx"} ELSE done
      /\ UNCHANGED <<usbVars, progVars, out, ep0, enabled, sent, shipped, ctl>>

\* A control transfer: its setup packet, for SET_LINE_CODING the coding once the
\* endpoint is ready again, and the answer of the device.
HostSetup(request) ==
  /\ ctl.stage = "idle" /\ ctl.count < MAX_SETUPS
  /\ ctl' = [ctl EXCEPT !.stage = request, !.count = @ + 1]
  /\ ep0' = [ep0 EXCEPT !.setup = request]
  /\ done' = done \cup {"setup"}
  /\ UNCHANGED <<usbVars, progVars, out, in, enabled, sent, shipped, taken>>

HostData(coding) ==
  /\ ctl.stage = "SET_LINE_CODING" /\ ep0.setup = "none"
  /\ ctl' = [ctl EXCEPT !.stage = "status", !.set = coding]
  /\ ep0' = [ep0 EXCEPT !.setup = "data", !.coding = coding]
  /\ done' = done \cup {"setup"}
  /\ UNCHANGED <<usbVars, progVars, out, in, enabled, sent, shipped, taken>>

\* The host takes the answer, which ends the transfer.
HostTakesReply ==
  /\ ep0.reply # "none" /\ ctl.stage \notin {"idle", "SET_LINE_CODING"}
  /\ ctl' = [ctl EXCEPT !.stage = "idle"]
  /\ ep0' = [ep0 EXCEPT !.reply = "none"]
  /\ done' = done \cup {"ctrl"}
  /\ UNCHANGED <<usbVars, progVars, out, in, enabled, sent, shipped, taken>>

Host ==
  \/ \E n \in 1 .. PACKET : HostSends(n)
  \/ HostTakes
  \/ \E request \in Requests : HostSetup(request)
  \/ \E coding \in Codings : HostData(coding)
  \/ HostTakesReply

-----------------------------------------------------------------------------
(* qsc60x5_usb_read.                                                       *)

\* qsc60x5_usb_do_handle_setup_msgs.  The answer not yet taken is flushed, the
\* endpoint is made ready again, and unless a data stage follows an answer is set up,
\* an empty packet whatever the request.
AwaitsDataNever == FALSE   \* mutant: no data stage is waited for
AwaitsData == ~setup_data_stage_flag /\ ep0.setup = "SET_LINE_CODING"

HandleSetup ==
  /\ setup_data_stage_flag' = AwaitsData
  /\ line_coding' = IF setup_data_stage_flag THEN ep0.coding ELSE line_coding
  /\ ep0' = [ep0 EXCEPT !.setup = "none",
               !.reply = IF AwaitsData THEN "none" ELSE "empty"]

Which == done \cap enabled

\* A read during a write only notes a full receive buffer: it is not processed before
\* the transmission is done.
StillWaits == wait_for_tx_done /\ "tx" \notin Which

NotedNotWhileWaiting ==   \* mutant: the wait is looked at first
  IF "rx" \in Which /\ ~StillWaits THEN USB_rx_buffer ELSE process_rx_buffer
Noted == IF "rx" \in Which THEN USB_rx_buffer ELSE process_rx_buffer

Processes == ~StillWaits /\ Noted # NULL

OtherBufferSame == USB_rx_buffer   \* mutant: one buffer only
OtherBuffer == IF USB_rx_buffer = rx_buffer1 THEN rx_buffer2 ELSE rx_buffer1

\* The endpoint is made ready for a buffer that is empty.
ep_enable_ready(buffer) == [buf |-> buffer, got |-> 0, ready |-> TRUE]

\* qsc60x5_usb_setup_rx_DMA on the other buffer, and the count of the one just left.
SetupRxDMA ==
  /\ USB_rx_buffer' = OtherBuffer
  /\ out' = ep_enable_ready(OtherBuffer)
  /\ loop' = [i |-> 0, num_bytes_read |-> out.got]

Rearmed == IF Processes THEN {"rx"} ELSE {}

Answered == IF "setup" \in Which /\ ~AwaitsData THEN {"ctrl"} ELSE {}

Flushed == IF "setup" \in Which THEN {"ctrl"} ELSE {}

\* The registers of done bits and of their enables, with endpoints of theirs changed.
ep_clear_done_status(endpoints) == done \ endpoints
ep_disable_done_int(endpoints)  == enabled \ endpoints
ep_enable_done_int(left, endpoints) == left \cup endpoints

\* What a read leaves of both: an IN endpoint that was done is disabled again.
DoneLeft    == ep_clear_done_status(Which \cup Rearmed \cup Flushed)
EnabledLeft == ep_enable_done_int(ep_disable_done_int((Which \cap {"ctrl", "tx"}) \cup Flushed),
                                  Answered \cup Rearmed)

Read ==
  /\ loop = NoLoop /\ Which # {}
  /\ IF "setup" \in Which THEN HandleSetup
     ELSE UNCHANGED <<setup_data_stage_flag, line_coding, ep0>>
  /\ wait_for_tx_done' = StillWaits
  /\ process_rx_buffer' = Noted
  /\ IF Processes THEN SetupRxDMA ELSE UNCHANGED <<USB_rx_buffer, out, loop>>
  /\ done' = DoneLeft /\ enabled' = EnabledLeft
  /\ UNCHANGED <<ram, tx_buf_index, rx_index, frame, written, handed, spilt, in,
                 hostVars>>

\* The loop that hands the bytes to DRL_Packet_RX.
Hand ==
  LET last == loop.i + 1 = loop.num_bytes_read IN
  /\ loop # NoLoop
  /\ handed' = Append(handed, ram[process_rx_buffer + rx_index])
  /\ rx_index' = IF last THEN 0 ELSE rx_index + 1
  /\ process_rx_buffer' = IF last THEN NULL ELSE process_rx_buffer
  /\ loop' = IF last THEN NoLoop ELSE [loop EXCEPT !.i = @ + 1]
  /\ UNCHANGED <<ram, tx_buf_index, setup_data_stage_flag, line_coding, USB_rx_buffer,
                 wait_for_tx_done, frame, written, spilt, coreVars, hostVars>>

-----------------------------------------------------------------------------
(* qsc60x5_usb_write.                                                      *)

Free == ~wait_for_tx_done /\ loop = NoLoop

\* DRL_Packet_TX has a frame to send; its polls may come before any byte.
StartFrame(len) ==
  /\ Free /\ frame = NoFrame /\ written + len <= MAX_WRITTEN
  /\ frame' = [len |-> len, at |-> 0]
  /\ UNCHANGED <<usbVars, loop, written, handed, spilt, coreVars, hostVars>>

\* qsc60x5_usb_setup_tx_DMA on what tx_buffer holds; a transfer still under way would
\* be flushed.
SetupTxDMANoEnable ==   \* mutant: the done bit of the endpoint is not enabled
  /\ in' = [len |-> tx_buf_index + 1, left |-> tx_buf_index + 1]
  /\ done' = IF in.left # 0 THEN ep_clear_done_status({"tx"}) ELSE done
  /\ UNCHANGED enabled
SetupTxDMA ==
  /\ in' = [len |-> tx_buf_index + 1, left |-> tx_buf_index + 1]
  /\ done' = IF in.left # 0 THEN ep_clear_done_status({"tx"}) ELSE done
  /\ enabled' = ep_enable_done_int(enabled, {"tx"})

IsFlag == frame.at \in {0, frame.len - 1}

\* A flag that is not the first byte of the buffer sends it, and waits.
Sends == IsFlag /\ tx_buf_index + 1 # 1

WaitsNever == FALSE   \* mutant: a write does not wait for its transfer
Waits == Sends

WriteByte ==
  /\ Free /\ frame # NoFrame
  /\ ram' = [ram EXCEPT ![tx_buf_index] = <<"tx", written + 1>>]
  /\ written' = written + 1
  /\ spilt' = IF tx_buf_index >= TX_SIZE THEN spilt \cup {written + 1} ELSE spilt
  /\ frame' = IF frame.at + 1 = frame.len THEN NoFrame ELSE [frame EXCEPT !.at = @ + 1]
  /\ wait_for_tx_done' = Waits
  /\ IF Sends
     THEN tx_buf_index' = 0 /\ SetupTxDMA
     ELSE tx_buf_index' = tx_buf_index + 1 /\ UNCHANGED <<in, done, enabled>>
  /\ UNCHANGED <<rx_index, setup_data_stage_flag, line_coding, USB_rx_buffer,
                 process_rx_buffer, loop, handed, out, ep0, hostVars>>

\* A read that finds no endpoint done returns at once.
ReadNothing == loop = NoLoop /\ Which = {} /\ UNCHANGED vars

Driver == Read \/ ReadNothing \/ Hand \/ WriteByte \/ \E len \in FrameLengths : StartFrame(len)

Next == Host \/ Driver

Spec == Init /\ [][Next]_vars

\* The main loop and the waits poll without end, a frame begun is written out, and the
\* host goes on with what it began.
FairSpec ==
  /\ Spec
  /\ WF_vars(Read) /\ WF_vars(Hand) /\ WF_vars(WriteByte)
  /\ WF_vars(HostTakes) /\ WF_vars(HostTakesReply)
  /\ WF_vars(\E coding \in Codings : HostData(coding))

-----------------------------------------------------------------------------
(* Properties.                                                             *)

\* Every byte the host sends reaches DRL_Packet_RX once, in its order, although one
\* buffer is read while the controller fills the other, and a buffer may become full
\* while a write waits.  Where one does not, a byte that a long frame spilt is in its
\* place.
HandedInOrder ==
  \A k \in 1 .. Len(handed) : handed[k] = <<"rx", k>> \/ \E j \in spilt : handed[k] = <<"tx", j>>

\* Every byte written into tx_buffer reaches the host once, in its order: no frame is
\* put there before the controller has read the one before.  The spilt end of a long
\* frame alone may have been received over.
TakenInOrder == \A k \in 1 .. Len(taken) : taken[k] = <<"tx", k>> \/ k \in spilt

\* Once a control transfer is over, the port has the coding the host set last, although
\* its data comes in a second message and reads inside a write handle both.
CodingKept == ctl.stage = "idle" => line_coding = ctl.set

\* Again and again all is handed on that the host sent in transfers that ended, whenever
\* they came in: nothing noted during a write is forgotten.
AllHanded == []<>(Len(handed) >= shipped)

\* A write returns and a control transfer is answered, however the two fall together.
HostIsServed ==
  /\ wait_for_tx_done ~> ~wait_for_tx_done
  /\ ctl.stage # "idle" ~> ctl.stage = "idle"
=============================================================================
