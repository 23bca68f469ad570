------------------------------ MODULE NandCtrl ------------------------------
(***************************************************************************)
(* NAND_Ctrl_Probe and NAND_Ctrl_Read of every port, and the two routines  *)
(* of the SuperAND driver, down to what is sent to the chip: a call is the *)
(* list of the bus operations it makes, one step for each, and the chip    *)
(* finds a row from the address bytes it was given.  Between calls the     *)
(* registers of the controller, its lock and the state of the chip stay as *)
(* the last call left them.                                                *)
(*                                                                         *)
(* Data are followed by where they come from: a segment of n bytes at a    *)
(* place of the page or spare buffer, from a row and a column (in bytes)   *)
(* of the chip.                                                            *)
(***************************************************************************)
EXTENDS Integers, Sequences

CONSTANTS
  Boards,     \* a port, the chip behind it, and for the BCM2133 its AXI flags
  Statuses,   \* what NAND_Ctrl_Check_Status may say (the ports in the tree: TRUE)
  Asked       \* the pages that may be asked for

\* Left out, as the code does not read them rightly (Readable lists the rest): pages of 256
\* bytes; pages of 1 KB in more than 64 and up to 128 MB (no third row byte); on the BCM2133 a
\* large-page chip behind AXI (ADDR2 is written twice, ADDR1 never) and a chip of 8 bits
\* unless the flags are 0x90 or 0xb0 (IS_16BIT is never 0 otherwise); on the MSM6250 and the
\* S3C2410 a chip of 16 bits (their configuration stays narrow); on the PXA312 and the MSM6800
\* pages of any size but 512 bytes and 2 KB (a flag of one bit) and on the MSM7200 of more
\* than 4 KB (a field of three bits).  The dummy port plays a
\* chip of its own, with pages of 512 bytes.  A SuperAND with an id that is not in the table
\* is left out too: that table has no end mark.

VARIABLES
  board,    \* the board the loader runs on
  mem,      \* the entry of mem[] the call is given
  call,     \* the call in progress, or the last one
  ops,      \* the operations it has yet to make
  result,   \* what it returned, "none" while it runs
  bus,      \* the chip: last command, address bytes, bytes taken, whether data are ready
  hw,       \* the registers of the controller that outlive a call
  got       \* the segments the call has stored

vars == <<board, mem, call, ops, result, bus, hw, got>>

chip == board.chip
port == board.port

-----------------------------------------------------------------------------
(* The chip.                                                               *)

Byte(v, k) == (v \div <<1, 256, 65536, 16777216>>[k + 1]) % 256

\* Sizes of chips and blocks are in KB, of pages in bytes.
Rows == (2 * chip.size) \div (chip.page_size \div 512)

\* A chip of more rows than two bytes can name waits for a third; further address
\* cycles are ignored.
RowBytes == IF Rows <= 65536 THEN 2 ELSE 3

Value(bytes, from, n) ==
  bytes[from] + 256 * bytes[from + 1] + (IF n = 2 THEN 0 ELSE 65536 * bytes[from + 2])

Nowhere == [row |-> -1, col |-> 0]

ColumnBase == [READ0 |-> 0, READ1 |-> 256, READOOB |-> 512]

\* The emulated chip of dummy.c looks at the command alone.
DummySelected == [row |-> 0, col |-> ColumnBase[bus.cmd]]

\* The row and column the chip has selected, if it was given what it needs.
Selected ==
  LET a == bus.addr
      at(columns, col) ==
        IF Len(a) >= columns + RowBytes
        THEN [row |-> Value(a, columns + 1, RowBytes) % Rows, col |-> col]
        ELSE Nowhere
  IN  CASE port = "dummy" /\ bus.cmd \in DOMAIN ColumnBase -> DummySelected
        [] port = "superand" /\ bus.cmd = "READ" /\ Len(a) = 4 ->
             [row |-> 4 * (a[3] + 256 * a[4]), col |-> (a[1] + 256 * a[2]) * (chip.bits \div 8)]
        [] port \notin {"dummy", "superand"} /\ chip.page_size <= 512 /\ Len(a) > 0
             /\ bus.cmd \in DOMAIN ColumnBase -> at(1, ColumnBase[bus.cmd] + a[1])
        [] port \notin {"dummy", "superand"} /\ chip.page_size > 512 /\ Len(a) > 1
             /\ bus.cmd = "READSTART" -> at(2, a[1] + 256 * a[2])
        [] OTHER -> Nowhere

\* PXA312 and MSM6800 are told of a page by one bit, for 512 bytes or 2 KB: they fetch a page
\* of another size as one of these, and no byte behind that is the page's.
OneBit(large) == IF large THEN 2048 ELSE 512
Announced == port \in {"pxa312", "msm6800"} => chip.page_size = OneBit(hw.large)

\* What the chip gives from a column on, once it is ready and the bus has its width.
\* A SuperAND sector is four pages: the row of a column is one of them.
Given(ahead) ==
  LET sel == Selected
      col == sel.col + ahead
  IN  IF sel = Nowhere \/ ~bus.ready \/ hw.width # chip.bits \/ ~Announced THEN Nowhere
      ELSE IF port = "superand" THEN [row |-> sel.row + col \div 512, col |-> col % 512]
      ELSE [row |-> sel.row, col |-> col]

\* A command and the address bytes behind it.  What ends a large-page address keeps it.
Latched(cmd, bytes) ==
  CASE cmd = "READSTART" ->
         [bus EXCEPT !.cmd = IF @ = "READ0" THEN cmd ELSE "none", !.taken = 0, !.ready = FALSE]
    [] cmd = "READ_EXIT" -> [bus EXCEPT !.cmd = "none", !.open = FALSE]
    [] OTHER ->
         [cmd |-> cmd, addr |-> bytes, taken |-> 0, ready |-> cmd = "READID",
          open |-> bus.open \/ cmd = "READ"]

-----------------------------------------------------------------------------
(* The tables.                                                             *)

Part(ids, page_size, size, block_size, bits) ==
  [ids |-> ids, info |-> [page_size |-> page_size, size |-> size, block_size |-> block_size,
                          bits |-> bits]]
ByDevice(parts) ==
  [d \in UNION {p.ids : p \in parts} |-> (CHOOSE p \in parts : d \in p.ids).info]

MB == 1024

\* A page_size of 0 is that of a large-page chip, which tells it in its fourth id byte.
flash_ids == ByDevice(
  {Part({\h6e, \he8, \hec}, 256, MB, 4, 8), Part({\h64, \hea}, 256, 2 * MB, 4, 8),
   Part({\h6b, \he3, \he5}, 512, 4 * MB, 8, 8), Part({\hd6, \he6}, 512, 8 * MB, 8, 8),
   Part({\h33, \h73}, 512, 16 * MB, 16, 8), Part({\h43, \h53}, 512, 16 * MB, 16, 16),
   Part({\h35, \h75}, 512, 32 * MB, 16, 8), Part({\h45, \h55}, 512, 32 * MB, 16, 16),
   Part({\h36, \h76}, 512, 64 * MB, 16, 8), Part({\h46, \h56}, 512, 64 * MB, 16, 16),
   Part({\h78, \h79, \h39}, 512, 128 * MB, 16, 8),
   Part({\h72, \h74, \h49, \h59}, 512, 128 * MB, 16, 16),
   Part({\h71}, 512, 256 * MB, 16, 8),
   Part({\ha2, \hf2}, 0, 64 * MB, 0, 8), Part({\hb2, \hc2}, 0, 64 * MB, 0, 16),
   Part({\ha1, \hf1}, 0, 128 * MB, 0, 8), Part({\hb1, \hc1}, 0, 128 * MB, 0, 16),
   Part({\haa, \hda}, 0, 256 * MB, 0, 8), Part({\hba, \hca}, 0, 256 * MB, 0, 16),
   Part({\hac, \hdc}, 0, 512 * MB, 0, 8), Part({\hbc, \hcc}, 0, 512 * MB, 0, 16),
   Part({\ha3, \hd3}, 0, 1024 * MB, 0, 8), Part({\hb3, \hc3}, 0, 1024 * MB, 0, 16),
   Part({\ha5, \hd5}, 0, 2048 * MB, 0, 8), Part({\hb5, \hc5}, 0, 2048 * MB, 0, 16)})

superand_ids == ByDevice(
  {Part({\h51, \h52}, 512, 16 * MB, 16, 8), Part({\h53, \h54}, 512, 16 * MB, 16, 16),
   Part({\h49}, 512, 32 * MB, 16, 8), Part({\h4a}, 512, 32 * MB, 16, 16),
   Part({\h58}, 512, 64 * MB, 16, 8), Part({\h5b}, 512, 64 * MB, 16, 16)})

-----------------------------------------------------------------------------
(* The operations of a call.                                               *)

Send(cmd, bytes) == <<<<"send", cmd, bytes>>>>
Reset == Send("RESET", <<>>)
ReadId == Send("READID", <<0>>)
Wait == <<<<"wait">>>>
Status == <<<<"status">>>>
Take(to, at, n) == <<<<"take", to, at, n>>>>
Identify(table) == <<<<"identify", table>>>>
Extend(skip) == <<<<"extend", skip>>>>
Set(reg, value) == <<<<"set", reg, value>>>>

\* The bytes of page << 8 * k and of page >> 8 * k in a register of 32 bits.
Left(page, k) == [i \in 1 .. 4 |-> IF i <= k THEN 0 ELSE Byte(page, i - 1 - k)]
Right(page, k) == [i \in 1 .. 4 |-> IF i + k <= 4 THEN Byte(page, i - 1 + k) ELSE 0]

\* The row bytes a port sends that drives the chip by itself.
RowOf(page, limit) ==
  LET low == <<Byte(page, 0), Byte(page, 1)>>
  IN  IF mem.size > limit THEN Append(low, Byte(page, 2)) ELSE low

SmallLimit == 32 * MB
LargeLimitDoubled == 256 * MB   \* mutant: the third byte is sent from too large a size on
LargeLimit == 128 * MB

Spare == mem.page_size \div 32

Fetch(cmd, page) == Send(cmd, <<0>> \o RowOf(page, SmallLimit)) \o Wait \o Status

SmallRead(page) ==
  Fetch("READ0", page) \o Take("page", 0, 256 * (mem.bit_width \div 8))
  \o (IF mem.bit_width = 8
      THEN Fetch("READ1", page) \o Take("page", 256, 256) ELSE <<>>)
  \o Fetch("READOOB", page) \o Take("spare", 0, 16)

LargeRead(page) ==
  Send("READ0", <<0, 0>> \o RowOf(page, LargeLimit)) \o Send("READSTART", <<>>)
  \o Wait \o Status \o Take("page", 0, mem.page_size) \o Take("spare", 0, Spare)

\* The template, and the ports that repeat it.
DefaultRead(page) == IF mem.page_size <= 512 THEN SmallRead(page) ELSE LargeRead(page)
DummyRead(page) == DefaultRead(page)
S3cRead(page) == DefaultRead(page)

Template(extend) ==
  Reset \o ReadId \o Identify("all")
  \o extend \o Reset

DefaultProbe == Template(Extend(1))
DummyProbe == Template(Extend(1))

\* The bus is eight bits wide until the id is known, and stays so on the S3C2410, which
\* cannot take the large pages the S3C2440 and S3C2412 take either.
S3cProbe ==
  Reset \o ReadId \o Identify("all")
  \o (IF port = "s3c2410" THEN <<<<"small_only">>>> ELSE Extend(1))
  \o (IF port = "s3c2410" THEN <<>> ELSE <<<<"width">>>>) \o Reset

Axi == board.flags \in {\hf0, \he0}
Is16Bit == board.flags \in {\h90, \hb0} => chip.bits = 16
Lock(on) == <<<<"hold", on>>>>

\* IS_16BIT is looked at before the lock is taken.
BcmProbe ==
  (IF Axi THEN <<>> ELSE Lock(TRUE))
  \o Reset \o ReadId \o Identify("all") \o Extend(1)
  \o (IF Axi THEN <<<<"large">>>> ELSE <<>>) \o Lock(FALSE) \o Reset

BcmRead(page) ==
  IF Axi
  THEN (IF mem.page_size > 512
        THEN Set("addr2", Left(page, 2)) \o Set("addr2", Right(page, 2))
        ELSE Set("addr1", Left(page, 1)) \o Set("addr2", Right(page, 3)))
       \o Wait \o Take("page", 0, mem.page_size) \o Take("spare", 0, Spare)
  ELSE Lock(TRUE) \o DefaultRead(page) \o Lock(FALSE)

Start == Lock(TRUE)
Stop == Lock(FALSE)

PxaProbe ==
  Start \o Reset \o ReadId \o Identify("all") \o Extend(1)
  \o Stop \o <<<<"large">>, <<"width">>>> \o Start \o Reset \o Stop

\* NDCB1 and NDCB2 hold the address, of which four or five cycles are sent.
PxaRead(page) ==
  Start
  \o (IF mem.page_size <= 512
      THEN Send("READ0", SubSeq(Left(page, 1) \o Right(page, 3), 1, 4))
      ELSE Send("READ0", SubSeq(Left(page, 2) \o Right(page, 2), 1, 5))
           \o Send("READSTART", <<>>))
  \o Wait \o Take("page", 0, mem.page_size) \o Take("spare", 0, Spare) \o Stop

\* A codeword: 512 bytes of data and 16 of spare, in the buffer of the controller.
Codewords(n) ==
  [k \in 1 .. 2 * n |-> IF k % 2 = 1 THEN <<"exec">> ELSE <<"copy", (k \div 2) - 1>>]

Msm6250Probe ==
  Reset \o ReadId \o Identify("small")
  \o (IF port = "msm6550" THEN <<<<"width">>>> ELSE <<>>) \o Reset

Msm6250Read(page) == Set("page", Left(page, 0)) \o Codewords(1)

Msm6800Probe ==
  Reset \o <<<<"autoprobe">>>>
  \o ReadId \o Identify("all") \o Extend(1) \o Reset

Msm6800Read(page) == Set("page", Left(page, 0)) \o Codewords(mem.page_size \div 512)

\* OP_ERR of the status ends the probe.
Msm7200Probe ==
  Reset \o <<<<"autoprobe">>>> \o Status
  \o ReadId \o Identify("all") \o Extend(1)
  \o <<<<"codewords">>, <<"width">>>> \o Reset

\* The address is written before the first codeword alone.
Msm7200Read(page) ==
  (IF mem.page_size > 512
   THEN Set("addr1", Left(page, 2)) \o Set("addr2", Right(page, 2))
   ELSE Set("addr1", Left(page, 1)) \o Set("addr2", Right(page, 3)))
  \o Codewords(mem.page_size \div 512)

SuperAndProbe == ReadId \o Identify("superand")

SuperAndRead(page) ==
  LET sand_page == page % 4
      sand_sector == page \div 4
  IN  Send("READ", <<0, IF mem.bit_width = 8 THEN 2 * sand_page ELSE sand_page,
                     Byte(sand_sector, 0), Byte(sand_sector, 1)>>)
      \o Wait \o Status \o Take("page", 0, mem.page_size) \o Send("READ_EXIT", <<>>)

ProbeOps ==
  CASE port = "default" -> DefaultProbe
    [] port = "dummy" -> DummyProbe
    [] port \in {"s3c2410", "s3c2440"} -> S3cProbe
    [] port = "bcm2133" -> BcmProbe
    [] port = "pxa312" -> PxaProbe
    [] port \in {"msm6250", "msm6550"} -> Msm6250Probe
    [] port = "msm6800" -> Msm6800Probe
    [] port = "msm7200" -> Msm7200Probe
    [] port = "superand" -> SuperAndProbe

ReadOps(page) ==
  CASE port = "default" -> DefaultRead(page)
    [] port = "dummy" -> DummyRead(page)
    [] port \in {"s3c2410", "s3c2440"} -> S3cRead(page)
    [] port = "bcm2133" -> BcmRead(page)
    [] port = "pxa312" -> PxaRead(page)
    [] port \in {"msm6250", "msm6550"} -> Msm6250Read(page)
    [] port = "msm6800" -> Msm6800Read(page)
    [] port = "msm7200" -> Msm7200Read(page)
    [] port = "superand" -> SuperAndRead(page)

Controllers == {"default", "dummy", "s3c2410", "s3c2440", "bcm2133", "pxa312", "msm6250", "msm6550",
                "msm6800", "msm7200", "superand"}

\* The geometry a large-page chip tells in its id byte.
PageSize(extra_id) == <<1024, 2048, 4096, 8192>>[1 + (extra_id % 4)]
BlockSize(extra_id) == <<64, 128, 256, 512>>[1 + ((extra_id \div 16) % 4)]

\* A chip the tables name is what they say, and a large-page chip what its id byte says.
Matches(c, info) ==
  /\ c.bits = info.bits /\ c.size = info.size
  /\ IF info.page_size = 0
     THEN c.page_size = PageSize(c.ext) /\ c.page_size > 512 /\ c.block_size = BlockSize(c.ext)
     ELSE c.page_size = info.page_size /\ c.page_size <= 512 /\ c.block_size = info.block_size

ChipsAreListed ==
  \A b \in Boards :
    LET table == IF b.port = "superand" THEN superand_ids ELSE flash_ids
    IN  /\ b.port \in Controllers /\ b.chip.ext \in 0 .. 255 /\ b.chip.dev \in Nat
        /\ b.chip.page_size \in Nat
        /\ b.chip.dev \in DOMAIN table => Matches(b.chip, table[b.chip.dev])

\* A chip its port can read: nothing of what is left out above.
Readable(b) ==
  LET c == b.chip
  IN  /\ c.page_size >= 512
      /\ c.page_size = 1024 => c.size <= 64 * MB \/ c.size > LargeLimit
      /\ b.port = "dummy" => c.page_size = 512
      /\ b.port = "bcm2133" =>
           /\ b.flags \in {\hf0, \he0} => c.page_size = 512
           /\ c.bits = 8 => b.flags \in {\h90, \hb0}
      /\ b.port \in {"msm6250", "s3c2410"} => c.bits = 8
      /\ b.port \in {"pxa312", "msm6800"} => c.page_size \in {512, 2048}
      /\ b.port = "msm7200" => c.page_size <= 4096
ChipsAreReadable == \A b \in Boards : Readable(b)

-----------------------------------------------------------------------------
(* Calls.                                                                  *)

NoMem == [type |-> "NONE", manufacturer |-> 0, device_id |-> 0, bit_width |-> 0,
          page_size |-> 0, size |-> 0, block_size |-> 0]

\* The width of the bus a controller starts with; where the port has none to set, the
\* board's.
InitialWidth ==
  CASE port \in {"default", "dummy", "superand"} -> chip.bits
    [] port = "bcm2133" -> IF Is16Bit THEN 16 ELSE 8
    [] OTHER -> 8

Zero == <<0, 0, 0, 0>>

\* main calls the probe once, before anything is read.
Init ==
  /\ board \in Boards
  /\ mem = NoMem /\ call = [kind |-> "probe", page |-> 0]
  /\ ops = ProbeOps /\ result = "none"
  /\ bus = [cmd |-> "none", addr |-> <<>>, taken |-> 0, ready |-> FALSE, open |-> FALSE]
  /\ hw = [width |-> InitialWidth, held |-> FALSE, large |-> FALSE,
           addr1 |-> Zero, addr2 |-> Zero, page |-> Zero, per_page |-> 8,
           next |-> 0, buffer |-> 0]
  /\ got = <<>>

\* The page loop of the driver asks for a page.
Read(page) ==
  /\ result # "none" /\ mem.type # "NONE" /\ page < Rows
  /\ call' = [kind |-> "read", page |-> page] /\ ops' = ReadOps(page)
  /\ result' = "none" /\ got' = <<>>
  /\ UNCHANGED <<board, mem, bus, hw>>

Doing(op) == ops # <<>> /\ Head(ops)[1] = op
Arg(k) == Head(ops)[k + 1]
Continue == ops' = Tail(ops) /\ UNCHANGED <<board, call, result>>

\* The call returns before its end.
Fail(error) ==
  result' = error /\ ops' = <<>> /\ UNCHANGED <<board, call, bus, hw, got>>

Return ==
  /\ ops = <<>> /\ result = "none" /\ result' = "OK"
  /\ UNCHANGED <<board, mem, call, ops, bus, hw, got>>

-----------------------------------------------------------------------------
(* Operations.                                                             *)

NAND_Ctrl_Command_Write ==
  /\ Doing("send") /\ Continue
  /\ bus' = Latched(Arg(1), Arg(2))
  /\ UNCHANGED <<mem, hw, got>>

NAND_Ctrl_Wait_Ready ==
  /\ Doing("wait") /\ Continue
  /\ bus' = [bus EXCEPT !.ready = TRUE]
  /\ UNCHANGED <<mem, hw, got>>

NAND_Ctrl_Check_Status ==
  /\ Doing("status")
  /\ \/ TRUE \in Statuses /\ Continue /\ UNCHANGED <<bus, hw, got>>
     \/ /\ FALSE \in Statuses
        /\ Fail(IF call.kind = "probe" THEN "PROBE_ERROR" ELSE "READ_ERROR")
  /\ UNCHANGED mem

\* n bytes from where the chip stands.
NAND_Ctrl_Data_Read ==
  /\ Doing("take") /\ Continue
  /\ got' = Append(got, [to |-> Arg(1), at |-> Arg(2), n |-> Arg(3), from |-> Given(bus.taken)])
  /\ bus' = [bus EXCEPT !.taken = @ + Arg(3)]
  /\ UNCHANGED <<mem, hw>>

Table(name) ==
  CASE name = "all" -> flash_ids
    [] name = "small" -> [d \in {e \in DOMAIN flash_ids : flash_ids[e].page_size # 0} |-> flash_ids[d]]
    [] name = "superand" -> superand_ids

\* The id bytes of the chip: the first two are looked up.
IdByte(k) == <<chip.mfr, chip.dev, chip.third, chip.ext>>[k]

Lookup ==
  LET table == Table(Arg(1))
      dev_id == IdByte(bus.taken + 2)
  IN  /\ Doing("identify") /\ bus.cmd = "READID"
      /\ IF dev_id \in DOMAIN table
         THEN /\ mem' = [type |-> IF port = "superand" THEN "SUPERAND" ELSE "NAND",
                         manufacturer |-> IdByte(bus.taken + 1), device_id |-> dev_id,
                         bit_width |-> table[dev_id].bits,
                         page_size |-> table[dev_id].page_size, size |-> table[dev_id].size,
                         block_size |-> table[dev_id].block_size]
              /\ bus' = [bus EXCEPT !.taken = @ + 2] /\ Continue /\ UNCHANGED <<hw, got>>
         ELSE Fail("PROBE_ERROR") /\ UNCHANGED mem

SkipNone(skip) == 0   \* mutant: the third byte is taken for the fourth
Skip(skip) == skip

\* A large-page chip tells its geometry in the byte behind the skipped one.
ReadExtraId ==
  /\ Doing("extend") /\ Continue
  /\ IF mem.page_size # 0 THEN UNCHANGED <<mem, bus>>
     ELSE LET extra_id == IdByte(bus.taken + Skip(Arg(1)) + 1)
          IN  /\ mem' = [mem EXCEPT !.page_size = PageSize(extra_id),
                                    !.block_size = BlockSize(extra_id),
                                    !.device_id = @ + 256 * extra_id]
              /\ bus' = [bus EXCEPT !.taken = @ + Skip(Arg(1)) + 1]
  /\ UNCHANGED <<hw, got>>

RefuseLarge ==
  /\ Doing("small_only")
  /\ \/ mem.page_size # 0 /\ Continue /\ UNCHANGED <<mem, bus, hw, got>>
     \/ mem.page_size = 0 /\ Fail("PROBE_ERROR") /\ mem' = [mem EXCEPT !.type = "NONE"]

\* What a probe tells its controller of the chip it found.
Configure ==
  /\ \/ Doing("width") /\ hw' = [hw EXCEPT !.width = mem.bit_width]
     \/ Doing("large") /\ hw' = [hw EXCEPT !.large = mem.page_size > 512]
     \/ Doing("codewords") /\ hw' = [hw EXCEPT !.per_page = 1 + (((mem.page_size \div 512) - 1) % 8)]
     \/ /\ Doing("autoprobe")
        /\ hw' = [hw EXCEPT !.large = chip.page_size > 512, !.width = chip.bits]
  /\ Continue /\ UNCHANGED <<mem, bus, got>>

HeldOn(on) == TRUE   \* mutant: the lock is taken and not given back
Held(on) == on

Hold == Doing("hold") /\ hw' = [hw EXCEPT !.held = Held(Arg(1))]
        /\ Continue /\ UNCHANGED <<mem, bus, got>>

\* An address register: the controller starts a page, sending the chip the commands and
\* bytes its kind of page takes.
SetAddress ==
  LET regs == [hw EXCEPT ![Arg(1)] = Arg(2), !.next = 0]
      bytes == IF Arg(1) = "page" THEN (IF hw.large THEN <<0, 0>> ELSE <<0>>) \o regs.page
               ELSE regs.addr1 \o regs.addr2
  IN  /\ Doing("set") /\ Continue /\ hw' = regs
      /\ bus' = [bus EXCEPT !.cmd = IF hw.large THEN "READSTART" ELSE "READ0",
                            !.addr = bytes, !.taken = 0, !.ready = FALSE]
      /\ UNCHANGED <<mem, got>>

\* The controller fetches the next codeword of the page and tells when it is there.
Execute ==
  /\ Doing("exec") /\ Continue
  /\ hw' = [hw EXCEPT !.buffer = hw.next, !.next = @ + 1]
  /\ bus' = [bus EXCEPT !.ready = TRUE]
  /\ UNCHANGED <<mem, got>>

CopyCodeword ==
  LET i == Arg(1)
      data(column) == IF hw.buffer < hw.per_page THEN Given(column) ELSE Nowhere
  IN  /\ Doing("copy") /\ Continue
      /\ got' = got \o <<[to |-> "page", at |-> 512 * i, n |-> 512, from |-> data(512 * hw.buffer)],
                        [to |-> "spare", at |-> 16 * i, n |-> 16,
                         from |-> data(chip.page_size + 16 * hw.buffer)]>>
      /\ UNCHANGED <<mem, bus, hw>>

Next ==
  \/ \E page \in Asked : Read(page)
  \/ Return
  \/ NAND_Ctrl_Command_Write \/ NAND_Ctrl_Wait_Ready \/ NAND_Ctrl_Check_Status
  \/ NAND_Ctrl_Data_Read \/ Lookup \/ ReadExtraId \/ RefuseLarge \/ Configure
  \/ Hold \/ SetAddress \/ Execute \/ CopyCodeword

Spec == Init /\ [][Next]_vars

-----------------------------------------------------------------------------
(* Properties.                                                             *)

\* A probe that succeeds describes the chip that is there, whatever its port: width,
\* page, block and size, from a table for some chips and from an id byte for others.
ProbeDescribes ==
  call.kind = "probe" /\ result = "OK" =>
    mem = [type |-> IF port = "superand" THEN "SUPERAND" ELSE "NAND",
           manufacturer |-> chip.mfr,
           device_id |-> chip.dev + IF chip.page_size > 512 THEN 256 * chip.ext ELSE 0,
           bit_width |-> chip.bits, page_size |-> chip.page_size, size |-> chip.size,
           block_size |-> chip.block_size]

\* What the segments left at a byte of a buffer, and what the chip holds.
Content(place) ==
  IF port = "dummy" THEN [row |-> 0, col |-> IF place.col < 512 THEN 128 ELSE 192]
  ELSE place

Stored(to, at) ==
  LET over == {k \in DOMAIN got : got[k].to = to /\ got[k].at <= at /\ at < got[k].at + got[k].n}
      last == CHOOSE k \in over : \A j \in over : j <= k
  IN  IF over = {} THEN Nowhere
      ELSE [row |-> got[last].from.row, col |-> got[last].from.col + (at - got[last].at)]

Grain == {16 * k : k \in 0 .. (mem.page_size \div 16) - 1}
SpareGrain == {16 * k : k \in 0 .. (Spare \div 16) - 1}

\* A read that succeeds has stored the page it was asked for and that page's spare,
\* every part from its own row and column, whatever earlier calls, finished or not, left
\* in the chip, the lock and the registers.
PageFetched ==
  call.kind = "read" /\ result = "OK" =>
    /\ \A at \in Grain : Content(Stored("page", at)) = Content([row |-> call.page, col |-> at])
    /\ port # "superand" =>
         \A at \in SpareGrain :
           Content(Stored("spare", at)) = Content([row |-> call.page, col |-> mem.page_size + at])

\* A call that succeeds gives back what it took for its length: the lock of the BCM2133,
\* the run bit of the PXA312, and the read sequence a SuperAND is put into.
LeftQuiet == result = "OK" => ~hw.held /\ ~bus.open
=============================================================================
