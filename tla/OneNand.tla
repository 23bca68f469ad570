------------------------------ MODULE OneNand ------------------------------
(***************************************************************************)
(* The OneNAND driver, register by register, on a chip that works on its   *)
(* own: a command starts an operation, the chip ends it at a time of its   *)
(* own and sets its interrupt, and the driver looks at the interrupt a     *)
(* bounded number of times and then gives up while the chip goes on.       *)
(*                                                                         *)
(* Two ports reach the registers and the data buffers: as memory, and      *)
(* through the SFLASH controller of the MSM7200, 512 bytes at a time.      *)
(***************************************************************************)
EXTENDS Integers, Sequences

CONSTANTS
  Boards,   \* a port and the chip behind it
  Asked     \* the pages that may be asked for

\* Sizes in MB.  Pages of 4 KB are left out: Pre_Initialize always says 2 KB.

VARIABLES
  board,     \* the board the loader runs on
  mem,       \* the entry of mem[] the call is given
  call,      \* the call in progress, or the last one
  ops,       \* what it has yet to do
  result,    \* what it returned, "none" while it runs
  regs,      \* the registers of the chip
  running,   \* the operation the chip is at
  ram,       \* the row each die's DataRAM and SpareRAM hold
  late,      \* the call came while the chip was at the operation of an earlier one
  got        \* the segments the call has stored

vars == <<board, mem, call, ops, result, regs, running, ram, late, got>>

chip == board.chip

-----------------------------------------------------------------------------
(* The driver.                                                             *)

Write(reg, value) == <<<<"write", reg, value>>>>
Wait(flag) == <<<<"wait", flag>>>>
Copy(to, at, n, offset) == <<<<"copy", to, at, n, offset>>>>

O1N_DATARAM == \h200
O1N_SPARERAM == \h8010

\* Which bits of the interrupt register an end of operation sets.
INT == 15
RI == 7
RSTI == 4

\* PLAT_MEMCPY from the buffers of the chip.
GetData(page_size) ==
  Copy("page", 0, page_size, O1N_DATARAM) \o Copy("spare", 0, page_size \div 32, O1N_SPARERAM)

\* SFLASHC_Nand2Buf: offset counts words, data and size bytes.
Nand2Buf(to, offset, size) ==
  LET chunks == (size + 511) \div 512
      Chunk(k) == <<"copy", to, 512 * (k - 1),
                    IF 512 * k > size THEN size - 512 * (k - 1) ELSE 512,
                    offset + 256 * (k - 1)>>
  IN  [k \in 1 .. chunks |-> Chunk(k)]

GetDataSflash(page_size) ==
  Nand2Buf("page", O1N_DATARAM, page_size) \o Nand2Buf("spare", O1N_SPARERAM, page_size \div 32)

OneNAND_Ctrl_Get_Data(page_size) ==
  IF board.port = "msm7200" THEN GetDataSflash(page_size) ELSE GetData(page_size)

ProbeOps ==
  Write("START_ADDRESS1", [die |-> 0, block |-> 0]) \o Write("START_ADDRESS2", 0)
  \o Write("INTERRUPT", {}) \o Write("COMMAND", "HOT_RESET") \o Wait({INT}) \o <<<<"identify">>>>

\* The device id is <density code, whether there are two dies>.
Density(device_id) == 2 * 2 ^ (3 + device_id.density)

ClearInterruptNot == <<>>   \* mutant: the interrupt of the last read is still there
ClearInterrupt == Write("INTERRUPT", {})

\* The blocks of the first die, of 128 KB each, from the size in MB.
FirstDie(density) == density * 4

ReadOps(page) ==
  LET density == Density(mem.device_id)
      addr1_mask == IF mem.device_id.ddp THEN density * 4 ELSE density * 8
      ddp_access == mem.device_id.ddp /\ page \div 64 >= FirstDie(density)
      die == IF ddp_access THEN 1 ELSE 0
  IN  ClearInterrupt
      \o Write("START_ADDRESS1", [die |-> die, block |-> (page \div 64) % addr1_mask])
      \o Write("START_ADDRESS2", die) \o Write("START_ADDRESS8", page % 64)
      \o Write("COMMAND", "READ") \o Wait({INT, RI}) \o OneNAND_Ctrl_Get_Data(mem.page_size)

\* The id of a chip tells its size and whether it has two dies, as the data sheets say.
ChipsAreNamed ==
  /\ \A b \in Boards : /\ b.chip.device_id.ddp \in BOOLEAN
                       /\ b.chip.size \in Nat \ {0} /\ b.chip.size = Density(b.chip.device_id)
  /\ Asked \subseteq Nat

-----------------------------------------------------------------------------
(* Calls.                                                                  *)

NoMem == [type |-> "NONE", manufacturer |-> 0, device_id |-> [density |-> 0, ddp |-> FALSE],
          bit_width |-> 0, page_size |-> 0, size |-> 0, block_size |-> 0]

\* Both ports announce pages of 2 KB; the one of the MSM7200 sets up its controller as well.
OneNAND_Pre_Initialize(m) == [m EXCEPT !.page_size = 2048]

Idle == [op |-> "none", die |-> 0, row |-> 0]
Nothing == -1

Dies == IF chip.device_id.ddp THEN {0, 1} ELSE {0}
PerDie == chip.size * IF chip.device_id.ddp THEN 256 ELSE 512

Init ==
  /\ board \in Boards
  /\ mem = OneNAND_Pre_Initialize(NoMem) /\ call = [kind |-> "probe", page |-> 0] /\ ops = ProbeOps /\ result = "none"
  /\ regs = [START_ADDRESS1 |-> [die |-> 0, block |-> 0], START_ADDRESS2 |-> 0,
             START_ADDRESS8 |-> 0, INTERRUPT |-> {}]
  /\ running = Idle /\ ram = [d \in Dies |-> Nothing] /\ late = FALSE /\ got = <<>>

OneNAND_Read_Upper(page) ==
  /\ result # "none" /\ mem.type = "ONENAND" /\ page < chip.size * 512
  /\ call' = [kind |-> "read", page |-> page] /\ ops' = ReadOps(page)
  /\ result' = "none" /\ late' = (running # Idle) /\ got' = <<>>
  /\ UNCHANGED <<board, mem, regs, running, ram>>

Doing(op) == ops # <<>> /\ Head(ops)[1] = op
Arg(k) == Head(ops)[k + 1]
Continue == ops' = Tail(ops) /\ UNCHANGED <<board, call, result>>

Return ==
  /\ ops = <<>> /\ result = "none" /\ result' = "OK"
  /\ UNCHANGED <<board, mem, call, ops, regs, running, ram, late, got>>

\* A register other than the command.
OneNAND_Ctrl_Reg_Write ==
  /\ Doing("write") /\ Arg(1) # "COMMAND" /\ Continue
  /\ regs' = [regs EXCEPT ![Arg(1)] = Arg(2)]
  /\ UNCHANGED <<mem, running, ram, late, got>>

\* The chip begins, with the address it has, unless it is at an operation still.
Command ==
  LET a == regs.START_ADDRESS1
  IN  /\ Doing("write") /\ Arg(1) = "COMMAND" /\ Continue
      /\ running' = IF running # Idle THEN running
                     ELSE [op |-> Arg(2), die |-> a.die,
                           row |-> IF a.block * 64 < PerDie
                                   THEN a.block * 64 + regs.START_ADDRESS8 ELSE Nothing]
      /\ UNCHANGED <<mem, regs, ram, late, got>>

\* The chip ends its operation, whether anyone waits for it or not.
Finish ==
  /\ running # Idle /\ running' = Idle
  /\ IF running.op = "READ"
     THEN /\ ram' = [ram EXCEPT ![running.die] = running.row]
          /\ regs' = [regs EXCEPT !.INTERRUPT = @ \cup {INT, RI}]
     ELSE regs' = [regs EXCEPT !.INTERRUPT = @ \cup {INT, RSTI}] /\ UNCHANGED ram
  /\ UNCHANGED <<board, mem, call, ops, result, late, got>>

OneNAND_Ctrl_Reg_Read(reg) == regs[reg]

OneNAND_Ctrl_Wait_Ready ==
  /\ Doing("wait") /\ Arg(1) \subseteq OneNAND_Ctrl_Reg_Read("INTERRUPT") /\ Continue
  /\ UNCHANGED <<mem, regs, running, ram, late, got>>

\* 0x10000 looks, and none that saw the flag.
GiveUp ==
  /\ Doing("wait") /\ ~(Arg(1) \subseteq OneNAND_Ctrl_Reg_Read("INTERRUPT"))
  /\ ops' = <<>> /\ result' = IF call.kind = "probe" THEN "PROBE_ERROR" ELSE "R_ASSERT_ERROR"
  /\ UNCHANGED <<board, mem, call, regs, running, ram, late, got>>

\* The ids are read; mem is filled in.
Identify ==
  /\ Doing("identify") /\ Continue
  /\ mem' = [mem EXCEPT !.type = "ONENAND", !.manufacturer = chip.mfr,
                        !.device_id = chip.device_id, !.bit_width = 16,
                        !.size = Density(chip.device_id), !.block_size = mem.page_size * 64]
  /\ UNCHANGED <<regs, running, ram, late, got>>

\* Words of the DataRAM or SpareRAM of the die START_ADDRESS2 selects.
CopyData ==
  LET column == IF Arg(1) = "page" THEN 2 * (Arg(4) - O1N_DATARAM)
                ELSE mem.page_size + 2 * (Arg(4) - O1N_SPARERAM)
  IN  /\ Doing("copy") /\ Continue
      /\ got' = Append(got, [to |-> Arg(1), at |-> Arg(2), n |-> Arg(3),
                             die |-> regs.START_ADDRESS2,
                             row |-> ram[regs.START_ADDRESS2], col |-> column])
      /\ UNCHANGED <<mem, regs, running, ram, late>>

Next ==
  \/ \E page \in Asked : OneNAND_Read_Upper(page)
  \/ Return \/ OneNAND_Ctrl_Reg_Write \/ Command \/ Finish
  \/ OneNAND_Ctrl_Wait_Ready \/ GiveUp \/ Identify \/ CopyData

Spec == Init /\ [][Next]_vars

-----------------------------------------------------------------------------
(* Properties.                                                             *)

\* The byte of a buffer comes from the page asked for, of its die, at its column.
Right(to, at, column) ==
  \E k \in DOMAIN got :
    /\ got[k].to = to /\ got[k].at <= at /\ at < got[k].at + got[k].n
    /\ got[k].die * PerDie + got[k].row = call.page
    /\ got[k].col + (at - got[k].at) = column

\* A read that succeeds returns the page it was asked for, from its own die, with its own
\* spare, and not what an earlier read left in the DataRAM - unless it came while the chip
\* was still at an operation an earlier call had given up: the driver does not look for
\* that, and takes the old interrupt for its own.
OwnPage ==
  call.kind = "read" /\ result = "OK" /\ ~late =>
    /\ \A k \in 0 .. 127 : Right("page", 16 * k, 16 * k)
    /\ \A k \in 0 .. 3 : Right("spare", 16 * k, mem.page_size + 16 * k)
=============================================================================
