--------------------------------- MODULE Uart ---------------------------------
(***************************************************************************)
(* io/qsc60x5_uart.c, and io/qsc60x0_uart.c which is the same text with    *)
(* other register addresses: the serial port.  The program polls; the line *)
(* brings bytes and takes bytes between any two of its register accesses.  *)
(* A byte the host sends is known by its place, 1 2 ...; DAMAGED is one    *)
(* that the line spoilt.                                                   *)
(***************************************************************************)
EXTENDS Integers, Sequences

CONSTANTS
  RX_FIFO, TX_FIFO,   \* bytes the two FIFOs hold
  TX_LEVEL,           \* TXLEV is set while the transmit FIFO holds fewer bytes
  READ_MAX,           \* bytes one call of the read routine looks for (0x80)
  MAX_LINE            \* bound: bytes of each direction

UartAssumption ==
  /\ RX_FIFO \in Nat \ {0} /\ TX_FIFO \in Nat \ {0} /\ TX_LEVEL \in 1 .. TX_FIFO
  /\ READ_MAX \in Nat \ {0} /\ MAX_LINE \in Nat

VARIABLES
  chip,   \* the controller: receive FIFO, latched error bits, transmit FIFO
  drv,    \* the program counter, and the local `len', and the reset under way
  line    \* what was sent, handed to DRL_Packet_RX, written and taken
uartVars == <<chip, drv, line>>

DAMAGED == 0

-----------------------------------------------------------------------------
\* The status register: RXRDY, TXEMT, the error bits, and TXLEV of the other one.
RXRDY == chip.rx # <<>>
TXEMT == chip.tx = <<>>
TXLEV == Len(chip.tx) < TX_LEVEL

\* A byte arrives, as it was sent or damaged.  A full FIFO loses it.  Either fault is
\* latched in an error bit.
LineBrings(damaged) ==
  /\ line.sent < MAX_LINE
  /\ line' = [line EXCEPT !.sent = @ + 1]
  /\ LET full == Len(chip.rx) = RX_FIFO IN
     chip' = [chip EXCEPT
       !.rx = IF full THEN @ ELSE Append(@, IF damaged THEN DAMAGED ELSE line.sent + 1),
       !.errors = @ \/ full \/ damaged]
  /\ UNCHANGED drv

LineTakes ==
  /\ ~TXEMT
  /\ chip' = [chip EXCEPT !.tx = Tail(@)]
  /\ line' = [line EXCEPT !.taken = Append(@, Head(chip.tx))]
  /\ UNCHANGED drv

Line == LineTakes \/ \E damaged \in BOOLEAN : LineBrings(damaged)

-----------------------------------------------------------------------------
Goto(pc) == drv' = [drv EXCEPT !.pc = pc]

UartOff ==
  /\ chip = [rx |-> <<>>, errors |-> FALSE, tx |-> <<>>]
  /\ drv = [pc |-> "off", len |-> 0, step |-> 0]
  /\ line = [sent |-> 0, handed |-> <<>>, written |-> 0, taken |-> <<>>]

\* init: wait for TXEMT, then read the data register until RXRDY is seen.  A byte that
\* comes between the look and the read is read here and forgotten.
StartInit == drv.pc = "off" /\ Goto("drain") /\ UNCHANGED <<chip, line>>

drain ==
  /\ drv.pc = "drain" /\ TXEMT
  /\ Goto("look")
  /\ UNCHANGED <<chip, line>>

InitLook ==
  /\ drv.pc = "look"
  /\ Goto(IF RXRDY THEN "idle" ELSE "discard")
  /\ UNCHANGED <<chip, line>>

InitDiscard ==
  /\ drv.pc = "discard"
  /\ Goto("look")
  /\ chip' = IF RXRDY THEN [chip EXCEPT !.rx = Tail(@)] ELSE chip
  /\ UNCHANGED line

init == drain \/ InitLook \/ InitDiscard

-----------------------------------------------------------------------------
\* read: up to READ_MAX times, while RXRDY is set, the status is read again, and then
\* the receiver is reset or a byte is taken.
StartRead ==
  /\ drv.pc = "idle"
  /\ drv' = [drv EXCEPT !.pc = "more", !.len = 0]
  /\ UNCHANGED <<chip, line>>

More ==
  /\ drv.pc = "more"
  /\ drv' = IF drv.len >= READ_MAX \/ ~RXRDY THEN [drv EXCEPT !.pc = "idle"]
            ELSE [drv EXCEPT !.pc = "status", !.len = @ + 1]
  /\ UNCHANGED <<chip, line>>

\* SR >> 3: the error bits, and TXEMT below them.
Refused == chip.errors \/ TXEMT

Status ==
  /\ drv.pc = "status"
  /\ drv' = [drv EXCEPT !.pc = IF Refused THEN "reset" ELSE "take", !.step = 1]
  /\ UNCHANGED <<chip, line>>

\* The three commands that act, in their order.
ResetsErrorsLast == <<"rx", "rx", "errors">>   \* mutant: the errors are reset last
Resets == <<"errors", "rx", "rx">>

Reset ==
  /\ drv.pc = "reset"
  /\ drv' = [drv EXCEPT !.pc = IF drv.step = Len(Resets) THEN "more" ELSE @,
                        !.step = @ + 1]
  /\ chip' = IF Resets[drv.step] = "errors" THEN [chip EXCEPT !.errors = FALSE]
             ELSE [chip EXCEPT !.rx = <<>>]
  /\ UNCHANGED line

Take ==
  /\ drv.pc = "take"
  /\ Goto("more")
  /\ chip' = [chip EXCEPT !.rx = Tail(@)]
  /\ line' = [line EXCEPT !.handed = Append(@, Head(chip.rx))]

-----------------------------------------------------------------------------
\* write: wait for TXLEV, then give the byte to the FIFO, which loses it when full.
StartWrite ==
  /\ drv.pc = "idle" /\ line.written < MAX_LINE
  /\ Goto("write")
  /\ UNCHANGED <<chip, line>>

LevelSeenAlways == TRUE   \* mutant: the level is not waited for
LevelSeen == TXLEV

WriteByte ==
  /\ drv.pc = "write" /\ LevelSeen
  /\ Goto("idle")
  /\ line' = [line EXCEPT !.written = @ + 1]
  /\ chip' = IF Len(chip.tx) = TX_FIFO THEN chip
             ELSE [chip EXCEPT !.tx = Append(@, line.written + 1)]

\* What goes on by itself once begun.
Proceeds == init \/ More \/ Status \/ Reset \/ Take \/ WriteByte

UartDriver == Proceeds \/ StartRead \/ StartWrite

-----------------------------------------------------------------------------
(* Properties.                                                             *)

\* DRL_Packet_RX is given bytes that the host sent, undamaged and in their order: what
\* the line spoils before the status is read, or while the receiver is being reset,
\* is never taken.
UartReceives ==
  \A k \in 1 .. Len(line.handed) :
    line.handed[k] > IF k = 1 THEN DAMAGED ELSE line.handed[k - 1]

\* The line carries the bytes written, all and in their order: none is given to a full
\* FIFO.
UartSends ==
  LET sent == line.taken \o chip.tx IN
  Len(sent) = line.written /\ \A k \in DOMAIN sent : sent[k] = k

\* What `//err bits found' and `//reset errors' say (qsc60x5_uart.c 38, 70): the
\* receiver is reset after an error.
ResetOnlyOnError == drv.pc = "reset" /\ drv.step = 1 => chip.errors
=============================================================================
