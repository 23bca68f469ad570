----------------------------- MODULE FlashStack -----------------------------
(***************************************************************************)
(* The read command with its page loops (FlashRead), and below it the      *)
(* drivers the page loops call: NandCtrl down to the bus of NAND and       *)
(* SuperAND chips, OneNand down to the registers of a OneNAND.  One of     *)
(* them is looked at in a behaviour; the others stand still.               *)
(***************************************************************************)
EXTENDS FlashRead

CONSTANTS NandBoards, NandAsked, OneNandBoards, OneNandAsked

VARIABLES
  part,                                          \* the part that is looked at
  board, entry, call, ops, result, got,          \* of both drivers
  bus, hw,                                       \* of NandCtrl
  regs, running, ram, late                       \* of OneNand

command == vars
driver == <<board, entry, call, ops, result, got>>
nandOnly == <<bus, hw>>
oneNandOnly == <<regs, running, ram, late>>

Nand == INSTANCE NandCtrl WITH Boards <- NandBoards, Asked <- NandAsked, mem <- entry
OneNand == INSTANCE OneNand WITH Boards <- OneNandBoards, Asked <- OneNandAsked, mem <- entry

ASSUME NandAssumption == Nand!ChipsAreListed
ASSUME ReadableAssumption == Nand!ChipsAreReadable /\ NandAsked \subseteq Nat
ASSUME OneNandAssumption == OneNand!ChipsAreNamed

AbsentDriver ==
  /\ board = "absent" /\ entry = "absent" /\ call = "absent" /\ ops = "absent"
  /\ result = "absent" /\ got = "absent"
AbsentNand == bus = "absent" /\ hw = "absent"
AbsentOneNand == regs = "absent" /\ running = "absent" /\ ram = "absent" /\ late = "absent"

\* Where a driver is looked at, one state of the command above it is enough.
CommandStands ==
  /\ mem = (CHOOSE m \in Memories : TRUE) /\ req = (CHOOSE r \in Requests : TRUE)
  /\ Init

StackInit ==
  \/ part = "command" /\ Init /\ AbsentDriver /\ AbsentNand /\ AbsentOneNand
  \/ part = "nand" /\ Nand!Init /\ CommandStands /\ AbsentOneNand
  \/ part = "onenand" /\ OneNand!Init /\ CommandStands /\ AbsentNand

StackNext ==
  \/ part = "command" /\ Next /\ UNCHANGED <<part, driver, nandOnly, oneNandOnly>>
  \/ part = "nand" /\ Nand!Next /\ UNCHANGED <<part, command, oneNandOnly>>
  \/ part = "onenand" /\ OneNand!Next /\ UNCHANGED <<part, command, nandOnly>>

StackSpec == StackInit /\ [][StackNext]_<<part, command, driver, nandOnly, oneNandOnly>>

-----------------------------------------------------------------------------
(* The properties of the drivers, where they are looked at.                *)

\* What a NAND or SuperAND probe says of its chip is so (NandCtrl, ProbeDescribes).
ProbeDescribes == part = "nand" => Nand!ProbeDescribes

\* A NAND or SuperAND read returns the page asked for (NandCtrl, PageFetched).
PageFetched == part = "nand" => Nand!PageFetched

\* A call gives the lock, the run bit and the read sequence back (NandCtrl, LeftQuiet).
LeftQuiet == part = "nand" => Nand!LeftQuiet

\* A OneNAND read returns the page asked for, in spite of the chip's own pace (OneNand,
\* OwnPage).
OwnPage == part = "onenand" => OneNand!OwnPage
=============================================================================
