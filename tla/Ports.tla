--------------------------------- MODULE Ports ---------------------------------
(***************************************************************************)
(* DRL_IO_Setup (io/packet_io.c) and the ports it chooses between: the USB *)
(* port of the board, Usb60x5 on a QSC60x5 and Usb60x0 on a QSC60x0, when  *)
(* its controller is running, else the serial port of Uart, which is the   *)
(* same text on both.  DRL_Current_IO is set once, and the packet layer    *)
(* calls only the port it names.                                           *)
(***************************************************************************)
EXTENDS Usb60x5

CONSTANTS
  RX_FIFO, TX_FIFO, TX_LEVEL, READ_MAX, MAX_LINE,   \* of Uart
  X0_SENT, X0_WRITTEN, X0_SETUPS                    \* bounds of Usb60x0

VARIABLES
  board,            \* "qsc60x5" or "qsc60x0"
  DRL_Current_IO,   \* "NULL", "io_usb" or "io_uart"
  core,             \* the USB controller when the program starts: "off", or "running"
                    \* with the transfer the loader left set up, which is "done" later
  chip, drv, line,                           \* of Uart
  pair, tx, USB_Serial, work, fifos, peer    \* of Usb60x0

UART == INSTANCE Uart
\* Over this port one coding is enough: nobody sees which one is set.
X0Coding == <<Coding0, Coding0>>
X0   == INSTANCE Usb60x0 WITH Codings <- {X0Coding}, Coding0 <- X0Coding, SERIAL_AT <- 0,
          MAX_SENT <- X0_SENT, MAX_WRITTEN <- X0_WRITTEN, MAX_SETUPS <- X0_SETUPS

ASSUME PortsAssumption == UART!UartAssumption

portVars == <<board, DRL_Current_IO, core>>
uartVars == <<chip, drv, line>>
x0Vars   == <<pair, tx, USB_Serial, work, fifos, peer>>
allVars  == <<vars, portVars, uartVars, x0Vars>>

PortsInit ==
  /\ Init /\ UART!UartOff /\ X0!Init
  /\ core \in {"off", "running"}
  /\ board \in IF core = "off" THEN {"qsc60x5"} ELSE {"qsc60x5", "qsc60x0"}
  /\ board = "qsc60x5" => peer.uses = "buffer"   \* one start of the other board's port
  /\ DRL_Current_IO = "NULL"

\* The host ends the transfer that the loader before this program was waiting for.
FirstTransferEnds ==
  /\ board = "qsc60x5" /\ core = "running"
  /\ core' = "done"
  /\ UNCHANGED <<vars, board, DRL_Current_IO, uartVars, x0Vars>>

\* On a QSC60x5, qsc60x5_usb_init and qsc60x5_usb_active: no port when the controller
\* is off, and no return before the first transfer is done.  On a QSC60x0 no return
\* before a FIFO holds something.
UsbInit == IF board = "qsc60x5" THEN core = "done" ELSE work.pc = "idle"

DRL_IO_Setup ==
  /\ DRL_Current_IO = "NULL"
  /\ \/ UsbInit      /\ DRL_Current_IO' = "io_usb"  /\ UNCHANGED drv
     \/ core = "off" /\ DRL_Current_IO' = "io_uart" /\ UART!StartInit
  /\ UNCHANGED <<vars, board, core, chip, line, x0Vars>>

OnUsb(A) ==
  /\ DRL_Current_IO = "io_usb" /\ board = "qsc60x5" /\ A
  /\ UNCHANGED <<portVars, uartVars, x0Vars>>
OnUart(A) ==
  /\ DRL_Current_IO = "io_uart" /\ A
  /\ UNCHANGED <<vars, portVars, x0Vars>>

\* The host and the line are there before the port is set up.
LineEarly ==
  /\ DRL_Current_IO = "NULL" /\ core = "off" /\ UART!Line
  /\ UNCHANGED <<vars, portVars, x0Vars>>

\* The other board's USB port: `active' alone is called before it is chosen.
OnX0(A) == board = "qsc60x0" /\ A /\ UNCHANGED <<vars, portVars, uartVars>>

X0Starts   == DRL_Current_IO = "NULL" /\ OnX0(X0!Starts)
X0Proceeds == DRL_Current_IO # "NULL" /\ OnX0(X0!Proceeds)
X0Driver   == DRL_Current_IO # "NULL" /\ OnX0(X0!Driver)

PortsNext ==
  \/ DRL_IO_Setup \/ FirstTransferEnds \/ LineEarly
  \/ OnUsb(Next)
  \/ OnX0(X0!Host) \/ X0Starts \/ X0Driver
  \/ OnUart(UART!Line \/ UART!UartDriver)

\* The fairness of Usb60x5, and of the other ports: the main loop polls, a write begun
\* goes on, and the host and the line take what the port holds for them.
PortsSpec ==
  /\ PortsInit /\ [][PortsNext]_allVars
  /\ WF_allVars(DRL_IO_Setup)
  /\ WF_allVars(OnUsb(Read)) /\ WF_allVars(OnUsb(Hand)) /\ WF_allVars(OnUsb(WriteByte))
  /\ WF_allVars(OnUsb(HostTakes)) /\ WF_allVars(OnUsb(HostTakesReply))
  /\ WF_allVars(OnUsb(\E coding \in Codings : HostData(coding)))
  /\ WF_allVars(OnUart(UART!Proceeds)) /\ WF_allVars(OnUart(UART!LineTakes))
  /\ WF_allVars(X0Starts \/ X0Proceeds) /\ WF_allVars(OnX0(X0!Takes))

-----------------------------------------------------------------------------
(* Properties.                                                             *)

UartReceives     == UART!UartReceives
UartSends        == UART!UartSends
ResetOnlyOnError == UART!ResetOnlyOnError

\* Over either USB port the bytes of the host reach DRL_Packet_RX once and in their
\* order (Usb60x5 and Usb60x0, HandedInOrder; qsc60x5_usb.c:827, qsc60x0_usb.c:179).
UsbReceives == HandedInOrder /\ X0!HandedInOrder

\* No call of a port waits for ever: the USB ones as in Usb60x5 and Usb60x0, a write and
\* a read of the serial port however the line behaves, and the set-up once the transfer
\* it waits for is done, the host has sent something, or there is no USB.
PortServed ==
  /\ HostIsServed /\ X0!Served
  /\ drv.pc \in {"write", "more"} ~> drv.pc = "idle"
  /\ core # "running" \/ peer.sent > 0 ~> DRL_Current_IO # "NULL"
=============================================================================
