------------------------------ MODULE FlashRead ------------------------------
(***************************************************************************)
(* DRL_Packet_FlashRead and the drivers behind it: the checks of the       *)
(* request, the page loop of nand.c and superand.c, and the ways the       *)
(* controllers fetch a page.  The data of all pages come first in rawBuf   *)
(* and their spares behind them; rawBuf keeps what earlier requests, and   *)
(* requests that failed half way, left in it.                              *)
(*                                                                         *)
(* Offsets and sizes are in bytes.  Contents are followed in cells of CELL *)
(* bytes, known by where they come from.                                   *)
(***************************************************************************)
EXTENDS Integers, Sequences, FiniteSets

CONSTANTS
  Memories,   \* what the probe may have left in mem[0]
  Requests,   \* the requests a host may make
  Statuses    \* what NAND_Ctrl_Check_Status may say (the ports in the tree: TRUE)

CELL == 16
DCC_BUFFER_SIZE == 1024
RAW_SIZE == 2048

Types == {"NONE", "NAND", "NOR", "SUPERAND"}
Controllers == {"commands", "codewords", "whole"}
Algos == {"none", "rle", "lzo", "lz4", "other"}

\* What the tables know of with pages of up to 1 KB: powers of two from 4 to 256 MB.
Sizes ==
  {4194304, 8388608, 16777216, 33554432, 67108864, 134217728, 268435456}

\* The parts the tables of the drivers describe.  Left out, as their replies are not
\* what a host would expect: NANDs with 256-byte pages, and those with pages of 1 KB
\* and more than 64 MB, whose third row byte is not sent.
ASSUME MemoriesAssumption ==
  \A m \in Memories :
    /\ m.type \in Types /\ m.ctrl \in Controllers
    /\ m.page_size \in {512, 1024, 2048, 4096, 8192}
    /\ m.bit_width \in {8, 16}
    /\ m.size \in Nat /\ m.base_offset \in Nat
    /\ m.type \in {"NAND", "SUPERAND"} /\ m.page_size <= 1024 => m.size \in Sizes
    /\ m.type = "NAND" /\ m.page_size = 1024 => m.size <= 67108864
    /\ m.type = "SUPERAND" => m.page_size = 512 /\ m.size <= 67108864

\* A request for no bytes is left out: the page loops are entered before the size is
\* looked at and run on for 2^32 bytes.
ASSUME RequestsAssumption ==
  \A r \in Requests :
    /\ r.id \in 0 .. 255 /\ r.algo \in Algos
    /\ r.offset \in Nat /\ r.size \in Nat /\ 0 < r.size /\ r.size < 65536

ASSUME StatusesAssumption == Statuses \subseteq BOOLEAN

VARIABLES
  mem,       \* mem[0]; the other entries of mem[] are of no type
  pc,        \* "idle", "command" when a request came, or what the page at hand needs
  req,       \* the request in the packet being answered
  loop,      \* the variables of the page loop, and the codeword of the page at hand
  rawBuf,    \* the cells of rawBuf
  reply      \* the reply of the last request

vars == <<mem, pc, req, loop, rawBuf, reply>>

-----------------------------------------------------------------------------
Error(text) == [kind |-> text, offset |-> 0, algo |-> "other", data |-> <<>>]

\* compBuf holds the cells as the algorithm encodes them.
Data(offset, algo, cells) ==
  [kind |-> "data", offset |-> offset, algo |-> algo, data |-> cells]

NoReply == Error("none")

\* A cell of a chip's row, the start of its spare being column page_size.
Page(row, column) == <<"page", row, column>>
Bss == <<"bss", 0, 0>>

Idle == [offset |-> 0, page_offset |-> 0, spare_offset |-> 0, size |-> 0, codeword |-> 0]

\* The first request has come.
Init ==
  /\ mem \in Memories
  /\ pc = "command" /\ req \in Requests /\ loop = Idle
  /\ rawBuf = [c \in 0 .. (RAW_SIZE \div CELL - 1) |-> Bss]
  /\ reply = NoReply

-----------------------------------------------------------------------------
(* The chip, from how the controllers address it.                          *)

Rows == mem.size \div mem.page_size

\* The row a chip finds from the bytes it is given: those of a row it expects.
RowOf(bytes) ==
  LET value == bytes[1] + 256 * bytes[2] + 65536 * (IF Len(bytes) = 3 THEN bytes[3] ELSE 0)
  IN  value % Rows

\* The row bytes the controllers send, of pages of up to 512 bytes and of larger ones.
RowBytes(page, limit) ==
  LET low == <<page % 256, (page \div 256) % 256>>
  IN  IF mem.size > limit THEN Append(low, (page \div 65536) % 256) ELSE low

SmallLimitDoubled == 67108864   \* mutant: the third byte from 64 MB on
SmallLimit == 33554432
LargeLimit == 134217728

-----------------------------------------------------------------------------
(* Writing rawBuf.                                                         *)

\* n bytes of a row from a column on, written at byte at of rawBuf.
Put(buf, at, n, row, column) ==
  LET first == at \div CELL
      here  == first .. (first + n \div CELL - 1)
  IN  [c \in DOMAIN buf \cup here |->
         IF c \in here THEN Page(row, column + (c - first) * CELL) ELSE buf[c]]

PAGE == loop.offset \div mem.page_size

Refuse(text) ==
  /\ reply' = Error(text) /\ pc' = "idle" /\ loop' = Idle

\* What the handler sends of size bytes of rawBuf, once the driver has returned.
Send(buf, size) ==
  IF req.algo = "other" THEN Error("!INV")
  ELSE Data(req.offset, req.algo, [k \in 1 .. (size \div CELL) |-> buf[k - 1]])

\* A page and its spare are in buf: the next page of the loop, or the reply.
Fetched(buf, spare) ==
  LET left == loop.size - mem.page_size IN
  /\ rawBuf' = buf
  /\ IF left # 0
     THEN /\ loop' = [offset |-> loop.offset + mem.page_size,
                      page_offset |-> loop.page_offset + mem.page_size,
                      spare_offset |-> loop.spare_offset + spare, size |-> left,
                      codeword |-> 0]
          /\ pc' = "page" /\ UNCHANGED reply
     ELSE reply' = Send(buf, loop.spare_offset + spare) /\ pc' = "idle" /\ loop' = Idle
  /\ UNCHANGED <<mem, req>>

-----------------------------------------------------------------------------
(* The request.                                                            *)

\* The packet layer hands over a request; it takes the next one after the reply.
Receive(r) ==
  /\ pc = "idle"
  /\ req' = r /\ pc' = "command" /\ reply' = NoReply
  /\ UNCHANGED <<mem, loop, rawBuf>>

BeyondRaw(r) == r.size > RAW_SIZE   \* mutant: what rawBuf holds, spares forgotten
Beyond(r) == r.size > DCC_BUFFER_SIZE

\* Memory that is read by its address: the reply names the address it was read from.
FromMemory(r, base) ==
  IF r.algo = "other" THEN Error("!INV")
  ELSE Data(r.offset + base, r.algo, <<<<"memory", r.offset + base, r.size>>>>)

ReadAt(base) ==
  /\ reply' = FromMemory(req, base) /\ pc' = "idle"
  /\ UNCHANGED loop

\* flash_id - 1 is 0: the other entries have no type.
Known(r) == r.id = 1 /\ mem.type # "NONE"

MisalignedNever(r) == FALSE   \* mutant: the size is not looked at
Misaligned(r) == r.size % mem.page_size # 0

Start(r) ==
  [offset |-> r.offset, page_offset |-> 0, spare_offset |-> r.size, size |-> r.size,
   codeword |-> 0]

\* The handler, up to its reply or to the page loop of the driver.
DRL_Packet_FlashRead ==
  /\ pc = "command"
  /\ \/ Beyond(req) /\ Refuse("!LEN")
     \/ ~Beyond(req) /\ req.id = 0 /\ ReadAt(0)
     \/ ~Beyond(req) /\ req.id # 0 /\ ~Known(req) /\ Refuse("deadbeef")
     \/ ~Beyond(req) /\ Known(req) /\ mem.type = "NOR" /\ ReadAt(mem.base_offset)
     \/ /\ ~Beyond(req) /\ Known(req) /\ mem.type # "NOR"
        /\ IF Misaligned(req) THEN Refuse("!FLA")
           ELSE loop' = Start(req) /\ pc' = "page" /\ UNCHANGED reply
  /\ UNCHANGED <<mem, req, rawBuf>>

-----------------------------------------------------------------------------
(* A page.                                                                 *)

Small == mem.page_size <= 512

ByCommands == mem.type = "NAND" /\ mem.ctrl = "commands"

\* The row the chip finds for the page at hand, and the size of its spare.
SmallRow == RowOf(RowBytes(PAGE, SmallLimit))
LargeRow == RowOf(RowBytes(PAGE, LargeLimit))
Spare == mem.page_size \div 32

\* READ0: the first 0x100 words of a small page.
ReadHalf ==
  /\ pc = "page" /\ ByCommands /\ Small
  /\ rawBuf' = Put(rawBuf, loop.page_offset, 256 * (mem.bit_width \div 8), SmallRow, 0)
  /\ pc' = IF mem.bit_width = 8 THEN "half" ELSE "oob"
  /\ UNCHANGED <<mem, req, loop, reply>>

\* READ1: the second half, of a chip eight bits wide.
ReadOtherHalf ==
  /\ pc = "half"
  /\ rawBuf' = Put(rawBuf, loop.page_offset + 256, 256, SmallRow, 256)
  /\ pc' = "oob"
  /\ UNCHANGED <<mem, req, loop, reply>>

\* READOOB: its sixteen spare bytes.
ReadOob ==
  /\ pc = "oob"
  /\ Fetched(Put(rawBuf, loop.spare_offset, 16, SmallRow, 512), Spare)

\* A page and its spare, one behind the other in the chip's row.
WholePage(row) ==
  Fetched(Put(Put(rawBuf, loop.page_offset, mem.page_size, row, 0),
              loop.spare_offset, Spare, row, mem.page_size), Spare)

ReadLarge == pc = "page" /\ ByCommands /\ ~Small /\ WholePage(LargeRow)

\* A controller that is given the whole number of the page.
ReadWhole ==
  pc = "page" /\ mem.type = "NAND" /\ mem.ctrl = "whole" /\ WholePage((PAGE % Rows))

\* A controller that reads 512 bytes of data and 16 of spare at a time.
ReadCodeword ==
  LET row == PAGE % Rows
      at  == 512 * loop.codeword
      sp  == 16 * loop.codeword
      buf == Put(Put(rawBuf, loop.page_offset + at, 512, row, at),
                 loop.spare_offset + sp, 16, row, mem.page_size + sp)
  IN  /\ pc = "page" /\ mem.type = "NAND" /\ mem.ctrl = "codewords"
      /\ IF 512 * (loop.codeword + 1) = mem.page_size
         THEN Fetched(buf, Spare)
         ELSE /\ rawBuf' = buf
              /\ loop' = [loop EXCEPT !.codeword = @ + 1]
              /\ UNCHANGED <<mem, pc, req, reply>>

\* A SuperAND page is a quarter of a sector of two address bytes; it has no spare, so
\* spare_offset stays the size of the request, the page_offset the driver ends with.
ReadSuperAnd ==
  LET sector == (PAGE \div 4) % 65536
      row == (4 * sector + (PAGE % 4)) % Rows
  IN  /\ pc = "page" /\ mem.type = "SUPERAND"
      /\ Fetched(Put(rawBuf, loop.page_offset, mem.page_size, row, 0), 0)

\* The status a fetch by commands looks at before it takes any data.
StatusFails ==
  /\ pc \in {"page", "half", "oob"} /\ (ByCommands \/ mem.type = "SUPERAND")
  /\ FALSE \in Statuses
  /\ Refuse("!FLA")
  /\ UNCHANGED <<mem, req, rawBuf>>

Next ==
  \/ \E r \in Requests : Receive(r)
  \/ DRL_Packet_FlashRead
  \/ ReadHalf \/ ReadOtherHalf \/ ReadOob
  \/ ReadLarge \/ ReadWhole \/ ReadCodeword \/ ReadSuperAnd
  \/ StatusFails

Spec == Init /\ [][Next]_vars

-----------------------------------------------------------------------------
(* Properties.                                                             *)

TypeOK ==
  /\ mem \in Memories
  /\ pc \in {"idle", "command", "page", "half", "oob"}
  /\ req \in Requests
  /\ loop \in [offset : Nat, page_offset : Nat, spare_offset : Nat, size : Nat,
              codeword : Nat]
  /\ DOMAIN rawBuf \subseteq Nat

\* No fetch writes outside rawBuf, wherever it stands in a request of any size the
\* handler lets through: a page and a spare behind all pages stay inside it.
RawBufHolds == DOMAIN rawBuf = 0 .. (RAW_SIZE \div CELL - 1)

\* What stands in the chip from the page an offset falls into on, for size bytes: the
\* data of all pages, then the spares of all pages.
PageOf(r, k) == (r.offset \div mem.page_size + k) % Rows

Stored(r, spare) ==
  LET pages == r.size \div mem.page_size
      cells == mem.page_size \div CELL
      part  == spare \div CELL
  IN  [n \in 1 .. pages * (cells + part) |->
         IF n <= pages * cells
         THEN Page(PageOf(r, (n - 1) \div cells), ((n - 1) % cells) * CELL)
         ELSE LET m == n - 1 - pages * cells
              IN  Page(PageOf(r, m \div part), mem.page_size + (m % part) * CELL)]

\* The answers a request may truthfully get.
Truthful(r) ==
  CASE r.size > DCC_BUFFER_SIZE -> {Error("!LEN")}
    [] r.size <= DCC_BUFFER_SIZE /\ r.id = 0 -> {FromMemory(r, 0)}
    [] r.size <= DCC_BUFFER_SIZE /\ r.id = 1 /\ mem.type = "NOR" ->
         {FromMemory(r, mem.base_offset)}
    [] r.size <= DCC_BUFFER_SIZE /\ r.id = 1 /\ mem.type \in {"NAND", "SUPERAND"} ->
         {Error("!FLA")} \cup
           IF r.size % mem.page_size # 0 THEN {}
           ELSE IF r.algo = "other" THEN {Error("!INV")}
           ELSE {Data(r.offset, r.algo,
                      Stored(r, IF mem.type = "NAND" THEN Spare ELSE 0))}
    [] OTHER -> {Error("deadbeef")}

Device == INSTANCE FlashDevice WITH truthful <- [r \in Requests |-> Truthful(r)]

\* Whatever the controller and the geometry, and whatever earlier and failed requests
\* left in rawBuf, a reply with data holds the pages that were asked for, all of their
\* data and then all of their spares, each cell from its own row and column; and every
\* request is answered once.
AnswersTruthfully == Device!Spec
=============================================================================
