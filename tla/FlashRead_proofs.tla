--------------------------- MODULE FlashRead_proofs ---------------------------
(***************************************************************************)
(* The page loops of the drivers stay inside rawBuf and answer each        *)
(* request as FlashDevice promises, for every chip and every request that  *)
(* MemoriesAssumption and RequestsAssumption admit.                        *)
(***************************************************************************)
EXTENDS FlashRead, TLAPS

\* The limit of the handler and the alignment test of the drivers leave few places
\* the loop can be in: one or two pages of 512 bytes, or one of 1024.
LoopPlace ==
  \/ /\ mem.page_size = 512 /\ loop.codeword = 0
     /\ loop.page_offset = 0 /\ loop.size \in {512, 1024}
     /\ loop.spare_offset = loop.size
  \/ /\ mem.page_size = 512 /\ loop.codeword = 0
     /\ loop.page_offset = 512 /\ loop.size = 512
     /\ loop.spare_offset \in {1024, 1040}
  \/ /\ mem.page_size = 1024 /\ loop.codeword \in {0, 1}
     /\ loop.page_offset = 0 /\ loop.size = 1024
     /\ loop.spare_offset = 1024

\* Everything a step of the loop relies on.
FlashInv ==
  /\ TypeOK
  /\ RawBufHolds
  /\ pc \in {"page", "half", "oob"} => LoopPlace
  /\ pc \in {"half", "oob"} => mem.page_size = 512

\* Bytes put over cells that are there add no cell: rawBuf does not grow.
LEMMA Absorbs ==
  ASSUME NEW S, NEW T, T \subseteq S
  PROVE  S \cup T = S
OBVIOUS

\* Bytes that end inside the buffer leave its cells the cells they were.
LEMMA PutInside ==
  ASSUME NEW buf, DOMAIN buf = 0 .. (RAW_SIZE \div CELL - 1),
         NEW at \in Nat, NEW n \in Nat, at % 16 = 0, n % 16 = 0, at + n <= 2048,
         NEW row, NEW column
  PROVE  DOMAIN Put(buf, at, n, row, column) = 0 .. (RAW_SIZE \div CELL - 1)
<1> DEFINE here == (at \div 16) .. (at \div 16 + n \div 16 - 1)
<1>1. \A c \in here : c \in Nat /\ c < 128
  <2>0. at \in Nat /\ n \in Nat /\ at + n <= 2048
    OBVIOUS
  <2>1. at \div 16 \in Nat /\ n \div 16 \in Nat
    OBVIOUS
  <2>2. at = 16 * (at \div 16) /\ n = 16 * (n \div 16)
    OBVIOUS
  <2>3. at \div 16 + n \div 16 <= 128
    <3> DEFINE a == at \div 16
               b == n \div 16
    <3>1. a \in Nat /\ b \in Nat /\ at = 16 * a /\ n = 16 * b
      BY <2>1, <2>2
    <3> HIDE DEF a, b
    <3>2. a + b <= 128
      BY <2>0, <3>1
    <3> QED BY <3>2 DEF a, b
  <2> QED BY <2>1, <2>3
<1>2. DOMAIN Put(buf, at, n, row, column) = DOMAIN buf \cup here
  BY DEF Put, CELL
<1> HIDE DEF here
<1>3. here \subseteq DOMAIN buf
  <2>1. RAW_SIZE \div CELL = 128
    BY DEF RAW_SIZE, CELL
  <2> QED BY <1>1, <2>1
<1> QED BY <1>2, <1>3, Absorbs

\* The end of a page keeps the loop in place or ends it.
LEMMA PageEnds ==
  ASSUME FlashInv, pc \in {"page", "oob"},
         NEW buf, DOMAIN buf = 0 .. (RAW_SIZE \div CELL - 1),
         NEW spare, spare = 0 \/ spare = mem.page_size \div 32,
         Fetched(buf, spare)
  PROVE  FlashInv'
<1>1. /\ mem \in Memories /\ req \in Requests /\ LoopPlace
      /\ loop \in [offset : Nat, page_offset : Nat, spare_offset : Nat, size : Nat,
                   codeword : Nat]
  BY DEF FlashInv, TypeOK
<1>2. /\ mem' = mem /\ req' = req /\ rawBuf' = buf
  BY DEF Fetched
<1>3. CASE loop.size - mem.page_size # 0
  <2>1. /\ loop' = [offset |-> loop.offset + mem.page_size,
                    page_offset |-> loop.page_offset + mem.page_size,
                    spare_offset |-> loop.spare_offset + spare,
                    size |-> loop.size - mem.page_size, codeword |-> 0]
        /\ pc' = "page"
    BY <1>3 DEF Fetched
  <2>2. /\ mem.page_size = 512 /\ loop.page_offset = 0
        /\ loop.size = 1024 /\ loop.spare_offset = 1024
    BY <1>1, <1>3 DEF LoopPlace
  <2>3. spare \in {0, 16}
    BY <2>2
  <2>4. /\ loop'.page_offset = 512 /\ loop'.size = 512 /\ loop'.codeword = 0
        /\ loop'.spare_offset \in {1024, 1040} /\ loop'.offset \in Nat
    BY <1>1, <2>1, <2>2, <2>3
  <2>5. loop' \in [offset : Nat, page_offset : Nat, spare_offset : Nat, size : Nat,
                   codeword : Nat]
    BY <2>1, <2>4
  <2>6. LoopPlace'
    BY <1>2, <2>2, <2>4 DEF LoopPlace
  <2> QED BY <1>1, <1>2, <2>1, <2>5, <2>6 DEF FlashInv, TypeOK, RawBufHolds, RAW_SIZE, CELL
<1>4. CASE loop.size - mem.page_size = 0
  <2>1. loop' = Idle /\ pc' = "idle"
    BY <1>4 DEF Fetched
  <2> QED
    BY <1>1, <1>2, <2>1 DEF FlashInv, TypeOK, RawBufHolds, Idle, RAW_SIZE, CELL
<1> QED
  <2>1. loop.size - mem.page_size = 0 \/ loop.size - mem.page_size # 0
    OBVIOUS
  <2> QED BY <1>3, <1>4, <2>1

\* Every step keeps the invariant.
LEMMA FlashStep == FlashInv /\ [Next]_vars => FlashInv'
<1> SUFFICES ASSUME FlashInv, [Next]_vars PROVE FlashInv'
  OBVIOUS
<1> DEFINE Dom == 0 .. (RAW_SIZE \div CELL - 1)
<1>0. /\ mem \in Memories /\ req \in Requests /\ DOMAIN rawBuf = Dom
      /\ loop \in [offset : Nat, page_offset : Nat, spare_offset : Nat, size : Nat,
                   codeword : Nat]
      /\ mem.page_size \in {512, 1024, 2048, 4096, 8192} /\ mem.bit_width \in {8, 16}
      /\ mem.type = "SUPERAND" => mem.page_size = 512
  BY MemoriesAssumption DEF FlashInv, TypeOK, RawBufHolds
<1>1. ASSUME NEW r \in Requests, Receive(r) PROVE FlashInv'
  BY <1>1, <1>0 DEF Receive, FlashInv, TypeOK, RawBufHolds, LoopPlace
<1>2. CASE DRL_Packet_FlashRead
  <2>1. /\ mem' = mem /\ req' = req /\ rawBuf' = rawBuf
    BY <1>2 DEF DRL_Packet_FlashRead
  <2>2. CASE pc' = "idle" /\ loop' \in {Idle, loop}
    BY <1>0, <2>1, <2>2 DEF FlashInv, TypeOK, RawBufHolds, Idle
  <2>3. CASE /\ ~Beyond(req) /\ ~Misaligned(req)
             /\ loop' = Start(req) /\ pc' = "page"
    <3>1. req.size \in Nat /\ 0 < req.size /\ req.size <= 1024 /\ req.offset \in Nat
      BY <1>0, <2>3, RequestsAssumption DEF Beyond, DCC_BUFFER_SIZE
    <3>2. \/ mem.page_size = 512 /\ req.size \in {512, 1024}
          \/ mem.page_size = 1024 /\ req.size = 1024
      <4>0. req.size % mem.page_size = 0
        BY <2>3 DEF Misaligned
      <4> DEFINE n == req.size
      <4>1. n \in Nat /\ 0 < n /\ n <= 1024
        BY <3>1
      <4> HIDE DEF n
      <4>2. n % 512 = 0 => n \in {512, 1024}
        BY <4>1
      <4>3. n % 1024 = 0 => n = 1024
        BY <4>1
      <4>4. n % 2048 # 0 /\ n % 4096 # 0 /\ n % 8192 # 0
        BY <4>1
      <4> QED BY <1>0, <4>0, <4>2, <4>3, <4>4 DEF n
    <3>3. /\ loop'.page_offset = 0 /\ loop'.size = req.size /\ loop'.spare_offset = req.size
          /\ loop'.codeword = 0
      BY <2>3 DEF Start
    <3>4. loop' \in [offset : Nat, page_offset : Nat, spare_offset : Nat, size : Nat,
                     codeword : Nat]
      BY <2>3, <3>1 DEF Start
    <3>5. LoopPlace'
      BY <2>1, <3>2, <3>3 DEF LoopPlace
    <3> QED BY <1>0, <2>1, <2>3, <3>4, <3>5 DEF FlashInv, TypeOK, RawBufHolds
  <2> QED BY <1>2, <2>2, <2>3 DEF DRL_Packet_FlashRead, Refuse, ReadAt
<1>3. CASE ReadHalf
  <2>1. LoopPlace /\ mem.page_size = 512
    BY <1>0, <1>3 DEF ReadHalf, Small, FlashInv
  <2>2. 256 * (mem.bit_width \div 8) \in {256, 512}
    BY <1>0
  <2>3. DOMAIN rawBuf' = Dom
    BY <1>0, <1>3, <2>1, <2>2, PutInside DEF ReadHalf, LoopPlace
  <2> QED BY <1>0, <1>3, <2>1, <2>3 DEF ReadHalf, FlashInv, TypeOK, RawBufHolds, LoopPlace,
            RAW_SIZE, CELL
<1>4. CASE ReadOtherHalf
  <2>1. LoopPlace /\ mem.page_size = 512
    BY <1>4 DEF ReadOtherHalf, FlashInv
  <2>2. DOMAIN rawBuf' = Dom
    BY <1>0, <1>4, <2>1, PutInside DEF ReadOtherHalf, LoopPlace
  <2> QED BY <1>0, <1>4, <2>1, <2>2 DEF ReadOtherHalf, FlashInv, TypeOK, RawBufHolds,
            LoopPlace, RAW_SIZE, CELL
<1>5. CASE ReadOob
  <2>1. LoopPlace /\ mem.page_size = 512
    BY <1>5 DEF ReadOob, FlashInv
  <2>2. DOMAIN Put(rawBuf, loop.spare_offset, 16, SmallRow, 512) = Dom
    BY <1>0, <2>1, PutInside DEF LoopPlace
  <2> QED BY <1>5, <2>2, PageEnds DEF ReadOob, Spare
<1>6. ASSUME NEW row, pc = "page", WholePage(row) PROVE FlashInv'
  <2>1. LoopPlace
    BY <1>6 DEF FlashInv
  <2> DEFINE data == Put(rawBuf, loop.page_offset, mem.page_size, row, 0)
  <2>2. DOMAIN data = Dom
    BY <1>0, <2>1, PutInside DEF LoopPlace
  <2>3. Spare \in {16, 32} /\ loop.spare_offset + Spare <= 2048
    BY <2>1 DEF LoopPlace, Spare
  <2> HIDE DEF data
  <2>4. DOMAIN Put(data, loop.spare_offset, Spare, row, mem.page_size) = Dom
    BY <1>0, <2>1, <2>2, <2>3, PutInside DEF LoopPlace
  <2> USE DEF data
  <2> QED BY <1>6, <2>4, PageEnds DEF WholePage, Spare
<1>7. CASE ReadLarge
  BY <1>6, <1>7 DEF ReadLarge
<1>8. CASE ReadWhole
  BY <1>6, <1>8 DEF ReadWhole
<1>9. CASE ReadCodeword
  <2> DEFINE row == PAGE % Rows
             at == 512 * loop.codeword
             sp == 16 * loop.codeword
             data == Put(rawBuf, loop.page_offset + at, 512, row, at)
             buf == Put(data, loop.spare_offset + sp, 16, row, mem.page_size + sp)
  <2>1. LoopPlace /\ pc = "page"
    BY <1>9 DEF ReadCodeword, FlashInv
  <2>2. DOMAIN data = Dom
    BY <1>0, <2>1, PutInside DEF LoopPlace
  <2>a. sp \in {0, 16} /\ loop.spare_offset \in {512, 1024, 1040}
    BY <2>1 DEF LoopPlace
  <2> HIDE DEF data, sp
  <2>b. /\ loop.spare_offset + sp \in Nat /\ (loop.spare_offset + sp) % 16 = 0
        /\ loop.spare_offset + sp + 16 <= 2048
    BY <2>a
  <2>3. DOMAIN buf = Dom
    BY <2>2, <2>b, PutInside
  <2> USE DEF sp
  <2> USE DEF data
  <2>4. CASE Fetched(buf, Spare)
    BY <2>1, <2>3, <2>4, PageEnds DEF Spare
  <2>5. CASE /\ 512 * (loop.codeword + 1) # mem.page_size
             /\ rawBuf' = buf /\ loop' = [loop EXCEPT !.codeword = @ + 1]
             /\ UNCHANGED <<mem, pc, req, reply>>
    <3>1. mem.page_size = 1024 /\ loop.codeword = 0
      BY <2>1, <2>5 DEF LoopPlace
    <3>2. /\ loop'.codeword = 1 /\ loop'.page_offset = loop.page_offset
          /\ loop'.size = loop.size /\ loop'.spare_offset = loop.spare_offset
          /\ loop' \in [offset : Nat, page_offset : Nat, spare_offset : Nat, size : Nat,
                         codeword : Nat]
      BY <1>0, <2>5, <3>1
    <3>3. LoopPlace'
      BY <2>1, <2>5, <3>1, <3>2 DEF LoopPlace
    <3>4. DOMAIN rawBuf' = Dom
      BY <2>3, <2>5
    <3> HIDE DEF buf
    <3> QED BY <1>0, <2>1, <2>5, <3>2, <3>3, <3>4 DEF FlashInv, TypeOK, RawBufHolds,
              RAW_SIZE, CELL
  <2> QED BY <1>9, <2>4, <2>5 DEF ReadCodeword
<1>10. CASE ReadSuperAnd
  <2> DEFINE sector == (PAGE \div 4) % 65536
             row == (4 * sector + (PAGE % 4)) % Rows
  <2>1. LoopPlace /\ mem.page_size = 512 /\ pc = "page"
    BY <1>0, <1>10 DEF ReadSuperAnd, FlashInv
  <2>2. DOMAIN Put(rawBuf, loop.page_offset, mem.page_size, row, 0) = Dom
    BY <1>0, <2>1, PutInside DEF LoopPlace
  <2> QED BY <1>10, <2>1, <2>2, PageEnds DEF ReadSuperAnd
<1>11. CASE StatusFails
  BY <1>0, <1>11 DEF StatusFails, Refuse, Idle, FlashInv, TypeOK, RawBufHolds
<1>12. CASE UNCHANGED vars
  BY <1>0, <1>12 DEF vars, FlashInv, TypeOK, RawBufHolds, LoopPlace
<1> QED BY <1>1, <1>2, <1>3, <1>4, <1>5, <1>7, <1>8, <1>9, <1>10, <1>11, <1>12 DEF Next

\* The invariant holds in every state.
LEMMA FlashInductive == Spec => []FlashInv
<1>1. Init => FlashInv
  BY DEF Init, FlashInv, TypeOK, RawBufHolds, Idle, RAW_SIZE, CELL
<1> QED BY <1>1, FlashStep, PTL DEF Spec

\* The state of the read command keeps its types; the remaining size of a page loop
\* never runs below zero, which it would do for a size the drivers let through
\* unaligned (NAND_Read, SuperAND_Read).
THEOREM TypeCorrect == Spec => []TypeOK
<1>1. FlashInv => TypeOK
  BY DEF FlashInv
<1> QED BY <1>1, FlashInductive, PTL

\* No fetch of any controller writes outside rawBuf (NAND_Ctrl_Read, SuperAND_Ctrl_Read
\* with the offsets DRL_Packet_FlashRead and the page loops give them).
THEOREM RawBufSafe == Spec => []RawBufHolds
<1>1. FlashInv => RawBufHolds
  BY DEF FlashInv
<1> QED BY <1>1, FlashInductive, PTL

-----------------------------------------------------------------------------
(* What rawBuf holds.                                                      *)

\* The cells of a page, and of its spare where the driver reads one.
Cells == mem.page_size \div CELL
Part == IF mem.type = "NAND" THEN Spare \div CELL ELSE 0

\* The page at hand, of as many as were asked for.
At == loop.page_offset \div mem.page_size
Pages == req.size \div mem.page_size

\* What a cell of the data, and one of the spares, has to hold in the end.
Wanted(n) == Page(PageOf(req, n \div Cells), (n % Cells) * CELL)
WantedSpare(m) == Page(PageOf(req, m \div Part), mem.page_size + (m % Part) * CELL)

\* The cells of the page at hand that were read.
ReadSoFar ==
  IF pc = "half" THEN 16 ELSE IF pc = "oob" THEN 32 ELSE 32 * loop.codeword

UnderWay ==
  /\ req.id = 1 /\ req.size <= DCC_BUFFER_SIZE /\ mem.type \in {"NAND", "SUPERAND"}
  /\ loop.offset = req.offset + loop.page_offset
  /\ loop.page_offset + loop.size = req.size
  /\ loop.spare_offset = req.size + At * (Part * CELL)
  /\ loop.codeword # 0 => mem.type = "NAND" /\ mem.ctrl = "codewords"
  /\ pc \in {"half", "oob"} => ByCommands
  /\ pc = "half" => mem.bit_width = 8

\* The pages before the one at hand are there, and cells of its own; so are the spares.
DataDone(buf, p) == \A n \in 0 .. At * Cells + p - 1 : buf[n] = Wanted(n)
SpareDone(buf, p) ==
  \A m \in 0 .. At * Part + p - 1 : buf[Pages * Cells + m] = WantedSpare(m)

Content == DataDone(rawBuf, ReadSoFar) /\ SpareDone(rawBuf, loop.codeword)

\* l cells of the page at hand put in their place, and l of its spare.
DataPut(buf, p, l) == Put(buf, 16 * (At * Cells + p), 16 * l, PageOf(req, At), 16 * p)
SparePut(buf, p, l) ==
  Put(buf, 16 * (Pages * Cells + At * Part + p), 16 * l, PageOf(req, At),
      mem.page_size + 16 * p)

InLoop == pc \in {"page", "half", "oob"}

AnswerInv ==
  /\ FlashInv
  /\ pc = "idle" <=> reply # NoReply
  /\ InLoop => UnderWay /\ Content

\* The row a chip finds is the number of the page, for every part that is small enough
\* for the address bytes it is sent.
LEMMA LowBytes ==
  ASSUME NEW p \in Nat
  PROVE  /\ (p % 256) + 256 * ((p \div 256) % 256) = p % 65536
         /\ (p % 256) + 256 * ((p \div 256) % 256) + 65536 * ((p \div 65536) % 256)
              = p % 16777216
OBVIOUS

\* So do a sector of two address bytes and the page within it.
LEMMA SectorBytes ==
  ASSUME NEW p \in Nat
  PROVE  4 * ((p \div 4) % 65536) + (p % 4) = p % 262144
<1>1. PICK q \in Nat, r \in Nat : p = 4 * q + r /\ r < 4
  <2>1. p = 4 * (p \div 4) + (p % 4) /\ p \div 4 \in Nat /\ p % 4 \in 0 .. 3
    OBVIOUS
  <2> QED
    BY <2>1
<1>2. p \div 4 = q /\ p % 4 = r
  BY <1>1
<1>3. PICK u \in Nat, v \in Nat : q = 65536 * u + v /\ v < 65536
  <2>1. q = 65536 * (q \div 65536) + (q % 65536)
    OBVIOUS
  <2>2. q \div 65536 \in Nat /\ q % 65536 \in Nat
    OBVIOUS
  <2>3. q % 65536 < 65536
    OBVIOUS
  <2> QED
    BY <2>1, <2>2, <2>3
<1>4. q % 65536 = v
  BY <1>3
<1>5. p = 262144 * u + (4 * v + r) /\ 4 * v + r \in Nat /\ 4 * v + r < 262144
  BY <1>1, <1>3
<1>6. p % 262144 = 4 * v + r
  BY <1>5
<1> QED
  BY <1>2, <1>4, <1>6

\* A number known modulo 2^16, 2^18 or 2^24 is known modulo any smaller power of two.
LEMMA SmallerPower ==
  ASSUME NEW p \in Nat
  PROVE  /\ \A r \in {4096, 8192, 16384, 32768, 65536} : (p % 65536) % r = p % r
         /\ \A r \in {8192, 16384, 32768, 65536, 131072} : (p % 262144) % r = p % r
         /\ \A r \in {131072, 262144, 524288} : (p % 16777216) % r = p % r
OBVIOUS

\* The rows of a part, as its table entry gives them.
LEMMA RowsOfParts ==
  ASSUME mem \in Memories, mem.type \in {"NAND", "SUPERAND"}
  PROVE  /\ mem.page_size = 512 =>
              \/ mem.size <= 33554432 /\ Rows \in {8192, 16384, 32768, 65536}
              \/ mem.size > 33554432 /\ Rows \in {131072, 262144, 524288}
         /\ mem.page_size = 1024 /\ mem.type = "NAND" =>
              mem.size <= 67108864 /\ Rows \in {4096, 8192, 16384, 32768, 65536}
         /\ mem.type = "SUPERAND" =>
              mem.page_size = 512 /\ Rows \in {8192, 16384, 32768, 65536, 131072}
<1> DEFINE s == mem.size
           q == mem.page_size
<1>1. /\ q <= 1024 => s \in Sizes
      /\ mem.type = "NAND" /\ q = 1024 => s <= 67108864
      /\ mem.type = "SUPERAND" => q = 512 /\ s <= 67108864
  BY MemoriesAssumption
<1>2. Rows = s \div q
  BY DEF Rows
<1> HIDE DEF s, q
<1>3. ASSUME s \in Sizes
      PROVE  /\ s <= 33554432 => s \div 512 \in {8192, 16384, 32768, 65536}
             /\ s > 33554432 => s \div 512 \in {131072, 262144, 524288}
             /\ s <= 67108864 => /\ s \div 1024 \in {4096, 8192, 16384, 32768, 65536}
                                 /\ s \div 512 \in {8192, 16384, 32768, 65536, 131072}
             /\ s <= 33554432 \/ s > 33554432
  BY <1>3 DEF Sizes
<1>4. /\ q = 512 =>
           \/ s <= 33554432 /\ s \div q \in {8192, 16384, 32768, 65536}
           \/ s > 33554432 /\ s \div q \in {131072, 262144, 524288}
      /\ q = 1024 /\ mem.type = "NAND" =>
           s <= 67108864 /\ s \div q \in {4096, 8192, 16384, 32768, 65536}
      /\ mem.type = "SUPERAND" =>
           q = 512 /\ s \div q \in {8192, 16384, 32768, 65536, 131072}
  BY <1>1, <1>3
<1> QED
  BY <1>2, <1>4 DEF s, q

\* Each way to name a page to a chip names the page asked for.
LEMMA RowFound ==
  ASSUME FlashInv, InLoop, UnderWay
  PROVE  /\ PAGE \in Nat /\ PAGE % Rows = PageOf(req, At)
         /\ mem.type = "NAND" /\ mem.page_size = 512 => SmallRow = PageOf(req, At)
         /\ mem.type = "NAND" /\ mem.page_size = 1024 => LargeRow = PageOf(req, At)
         /\ mem.type = "SUPERAND" =>
              (4 * ((PAGE \div 4) % 65536) + (PAGE % 4)) % Rows = PageOf(req, At)
<1> DEFINE p == PAGE
<1>1. /\ mem \in Memories /\ req.offset \in Nat /\ LoopPlace
      /\ mem.type \in {"NAND", "SUPERAND"} /\ loop.offset = req.offset + loop.page_offset
  BY RequestsAssumption DEF FlashInv, TypeOK, InLoop, UnderWay
<1>2. p \in Nat /\ p = req.offset \div mem.page_size + At
  <2>1. CASE mem.page_size = 512
    <3>1. loop.page_offset \in {0, 512}
      BY <1>1, <2>1 DEF LoopPlace
    <3>2. At = loop.page_offset \div 512 /\ p = (req.offset + loop.page_offset) \div 512
      BY <1>1, <2>1 DEF At, PAGE
    <3> HIDE DEF p
    <3>3. (req.offset + 512) \div 512 = req.offset \div 512 + 1 /\ req.offset \div 512 \in Nat
      BY <1>1
    <3> QED
      BY <1>1, <2>1, <3>1, <3>2, <3>3
  <2>2. CASE mem.page_size = 1024
    <3>1. loop.page_offset = 0
      BY <1>1, <2>2 DEF LoopPlace
    <3> QED
      BY <1>1, <2>2, <3>1 DEF At, PAGE
  <2> QED
    BY <1>1, <2>1, <2>2 DEF LoopPlace
<1>3. p % Rows = PageOf(req, At)
  BY <1>2 DEF PageOf
<1>4. /\ SmallRow = RowOf(RowBytes(p, SmallLimit)) /\ LargeRow = RowOf(RowBytes(p, LargeLimit))
  BY DEF SmallRow, LargeRow
<1> HIDE DEF p
<1>5. ASSUME NEW limit, ~(mem.size > limit)
      PROVE  RowOf(RowBytes(p, limit)) = (p % 65536) % Rows
  <2>1. RowBytes(p, limit) = <<p % 256, (p \div 256) % 256>>
    BY <1>5 DEF RowBytes
  <2> DEFINE b == <<p % 256, (p \div 256) % 256>>
  <2>2. b[1] = p % 256 /\ b[2] = (p \div 256) % 256 /\ Len(b) # 3
    OBVIOUS
  <2> HIDE DEF b
  <2>3. RowOf(b) = ((p % 256) + 256 * ((p \div 256) % 256) + 65536 * 0) % Rows
    BY <2>2 DEF RowOf
  <2>4. (p % 256) + 256 * ((p \div 256) % 256) + 65536 * 0 = p % 65536
    BY <1>2, LowBytes
  <2> QED
    BY <2>1, <2>3, <2>4 DEF b
<1>6. ASSUME NEW limit, mem.size > limit
      PROVE  RowOf(RowBytes(p, limit)) = (p % 16777216) % Rows
  <2> DEFINE low == <<p % 256, (p \div 256) % 256>>
             third == (p \div 65536) % 256
             b == Append(low, third)
  <2>1. RowBytes(p, limit) = b
    BY <1>6 DEF RowBytes
  <2>2. /\ low \in Seq(Nat) /\ Len(low) = 2 /\ third \in Nat
        /\ low[1] = p % 256 /\ low[2] = (p \div 256) % 256
    BY <1>2
  <2> HIDE DEF low, third
  <2>3. /\ b[1] = p % 256 /\ b[2] = (p \div 256) % 256 /\ b[3] = third /\ Len(b) = 3
    <3>1. ASSUME NEW s \in Seq(Nat), NEW e \in Nat, Len(s) = 2
          PROVE  /\ Append(s, e)[1] = s[1] /\ Append(s, e)[2] = s[2]
                 /\ Append(s, e)[3] = e /\ Len(Append(s, e)) = 3
      <4>1. Len(Append(s, e)) = Len(s) + 1
        OBVIOUS
      <4>2. Append(s, e)[Len(s) + 1] = e
        OBVIOUS
      <4>3. \A k \in 1 .. Len(s) : Append(s, e)[k] = s[k]
        OBVIOUS
      <4> DEFINE n == Len(s)
      <4>4. n = 2
        BY <3>1
      <4> HIDE DEF n
      <4>5. n + 1 = 3 /\ 1 \in 1 .. n /\ 2 \in 1 .. n
        BY <4>4
      <4> QED
        BY <4>1, <4>2, <4>3, <4>5, Zenon DEF n
    <3> QED
      BY <2>2, <3>1
  <2> HIDE DEF b
  <2>4. RowOf(b) = ((p % 256) + 256 * ((p \div 256) % 256) + 65536 * third) % Rows
    BY <2>3 DEF RowOf
  <2>5. (p % 256) + 256 * ((p \div 256) % 256) + 65536 * third = p % 16777216
    BY <1>2, LowBytes DEF third
  <2> QED
    BY <2>1, <2>4, <2>5
<1>7. mem.type = "NAND" /\ mem.page_size = 512 => SmallRow = p % Rows
  <2>1. CASE mem.size <= 33554432 /\ Rows \in {8192, 16384, 32768, 65536}
    <3>1. ~(mem.size > SmallLimit)
      BY <2>1, <1>1, MemoriesAssumption DEF SmallLimit
    <3> QED
      BY <1>2, <1>4, <1>5, <2>1, <3>1, SmallerPower
  <2>2. CASE mem.size > 33554432 /\ Rows \in {131072, 262144, 524288}
    BY <1>2, <1>4, <1>6, <2>2, SmallerPower DEF SmallLimit
  <2> QED
    BY <1>1, <2>1, <2>2, RowsOfParts
<1>8. mem.type = "NAND" /\ mem.page_size = 1024 => LargeRow = p % Rows
  <2>1. CASE mem.size <= 67108864 /\ Rows \in {4096, 8192, 16384, 32768, 65536}
    <3>1. ~(mem.size > LargeLimit)
      BY <2>1, <1>1, MemoriesAssumption DEF LargeLimit
    <3> QED
      BY <1>2, <1>4, <1>5, <2>1, <3>1, SmallerPower
  <2> QED
    BY <1>1, <2>1, RowsOfParts
<1>9. mem.type = "SUPERAND" => (4 * ((p \div 4) % 65536) + (p % 4)) % Rows = p % Rows
  <2>1. 4 * ((p \div 4) % 65536) + (p % 4) = p % 262144
    BY <1>2, SectorBytes
  <2>2. CASE mem.type = "SUPERAND"
    <3>1. Rows \in {8192, 16384, 32768, 65536, 131072}
      BY <1>1, <2>2, RowsOfParts
    <3>2. (p % 262144) % Rows = p % Rows
      BY <1>2, <3>1, SmallerPower
    <3> QED
      BY <2>1, <3>2
  <2> QED
    BY <2>2
<1> QED
  BY <1>2, <1>3, <1>7, <1>8, <1>9 DEF p

\* Where the loop stands, page by page.
LEMMA Places ==
  ASSUME FlashInv, InLoop, UnderWay
  PROVE  /\ Cells \in {32, 64} /\ mem.page_size = 16 * Cells
         /\ Part \in {0, 1, 2} /\ (mem.type = "NAND" => Spare = 16 * Part /\ 32 * Part = Cells)
         /\ (mem.type = "SUPERAND" => Part = 0 /\ Cells = 32)
         /\ At \in {0, 1} /\ Pages \in {1, 2} /\ At < Pages /\ (Pages = 2 => Cells = 32)
         /\ loop.page_offset = 16 * (At * Cells) /\ loop.size = 16 * ((Pages - At) * Cells)
         /\ req.size = 16 * (Pages * Cells)
         /\ loop.spare_offset = 16 * (Pages * Cells + At * Part)
         /\ loop.codeword \in {0, 1} /\ (loop.codeword = 1 => Cells = 64)
         /\ (pc \in {"half", "oob"} => Cells = 32 /\ loop.codeword = 0)
<1> DEFINE o == loop.page_offset
           s == loop.size
           t == loop.spare_offset
           w == loop.codeword
           q == mem.page_size
           z == req.size
<1>1. /\ mem \in Memories /\ req \in Requests /\ mem.type \in {"NAND", "SUPERAND"}
      /\ \/ q = 512 /\ w = 0 /\ o = 0 /\ s \in {512, 1024}
         \/ q = 512 /\ w = 0 /\ o = 512 /\ s = 512
         \/ q = 1024 /\ w \in {0, 1} /\ o = 0 /\ s = 1024
      /\ o + s = z /\ t = z + At * (Part * CELL)
      /\ (mem.type = "SUPERAND" => q = 512)
      /\ (pc \in {"half", "oob"} => q = 512)
  BY MemoriesAssumption DEF FlashInv, TypeOK, InLoop, UnderWay, LoopPlace
<1>2. /\ Cells = q \div 16 /\ At = o \div q /\ Pages = z \div q
      /\ Part = IF mem.type = "NAND" THEN (q \div 32) \div 16 ELSE 0
      /\ Spare = q \div 32
  BY DEF Cells, At, Pages, Part, Spare, CELL
<1> HIDE DEF o, s, t, w, q, z
<1>3. \/ q = 512 /\ w = 0 /\ o = 0 /\ s = 512 /\ z = 512 /\ Cells = 32 /\ At = 0 /\ Pages = 1
      \/ q = 512 /\ w = 0 /\ o = 0 /\ s = 1024 /\ z = 1024 /\ Cells = 32 /\ At = 0 /\ Pages = 2
      \/ q = 512 /\ w = 0 /\ o = 512 /\ s = 512 /\ z = 1024 /\ Cells = 32 /\ At = 1 /\ Pages = 2
      \/ /\ q = 1024 /\ w \in {0, 1} /\ o = 0 /\ s = 1024 /\ z = 1024
         /\ Cells = 64 /\ At = 0 /\ Pages = 1
  BY <1>1, <1>2
<1>4. /\ mem.type = "NAND" => Part = (IF q = 512 THEN 1 ELSE 2) /\ Spare = 16 * Part
      /\ mem.type = "SUPERAND" => Part = 0
  <2>1. CASE q = 512
    <3>1. q \div 32 = 16 /\ (q \div 32) \div 16 = 1
      BY <2>1
    <3> QED
      BY <1>2, <2>1, <3>1
  <2>2. CASE q = 1024
    <3>1. q \div 32 = 32 /\ (q \div 32) \div 16 = 2
      BY <2>2
    <3> QED
      BY <1>2, <2>2, <3>1
  <2> QED
    BY <1>3, <2>1, <2>2
<1>5. t = z + 16 * (At * Part)
  BY <1>1, <1>3, <1>4 DEF CELL
<1>6. q = 16 * Cells /\ o = 16 * (At * Cells) /\ s = 16 * ((Pages - At) * Cells)
      /\ z = 16 * (Pages * Cells)
  BY <1>3
<1>7. t = 16 * (Pages * Cells + At * Part)
  <2>1. Part \in {0, 1, 2}
    BY <1>1, <1>4
  <2> QED
    BY <1>3, <1>5, <2>1
<1>8. /\ Cells \in {32, 64} /\ Part \in {0, 1, 2} /\ At \in {0, 1} /\ Pages \in {1, 2}
      /\ At < Pages /\ (Pages = 2 => Cells = 32) /\ w \in {0, 1} /\ (w = 1 => Cells = 64)
      /\ (pc \in {"half", "oob"} => Cells = 32 /\ w = 0)
      /\ (mem.type = "NAND" => Spare = 16 * Part /\ 32 * Part = Cells)
      /\ (mem.type = "SUPERAND" => Part = 0 /\ Cells = 32)
  BY <1>1, <1>3, <1>4
<1> QED
  BY <1>6, <1>7, <1>8 DEF o, s, t, w, q, z

\* A cell of a page, as it is wanted.
LEMMA WantedAt ==
  ASSUME Cells \in {32, 64}, NEW k \in Nat, NEW j \in Nat, j < Cells
  PROVE  Wanted(k * Cells + j) = Page(PageOf(req, k), j * 16)
<1>1. (k * Cells + j) \div Cells = k /\ (k * Cells + j) % Cells = j
  <2>1. CASE Cells = 32
    BY <2>1
  <2>2. CASE Cells = 64
    BY <2>2
  <2> QED
    BY <2>1, <2>2
<1> QED
  BY <1>1 DEF Wanted, CELL

\* The same of its spare.
LEMMA WantedSpareAt ==
  ASSUME Part \in {1, 2}, NEW k \in Nat, NEW j \in Nat, j < Part
  PROVE  WantedSpare(k * Part + j) = Page(PageOf(req, k), mem.page_size + j * 16)
<1>1. (k * Part + j) \div Part = k /\ (k * Part + j) % Part = j
  <2>1. CASE Part = 1
    BY <2>1
  <2>2. CASE Part = 2
    BY <2>2
  <2> QED
    BY <2>1, <2>2
<1> QED
  BY <1>1 DEF WantedSpare, CELL

\* Cells of a page, put where its data go: they are the ones wanted, the data before
\* them stay, and so does everything behind the data.
LEMMA DataInPlace ==
  ASSUME FlashInv, InLoop, UnderWay,
         NEW buf, DOMAIN buf = 0 .. (RAW_SIZE \div CELL - 1),
         NEW p \in Nat, NEW l \in Nat, p + l <= Cells, DataDone(buf, p)
  PROVE  /\ DOMAIN DataPut(buf, p, l) = 0 .. (RAW_SIZE \div CELL - 1)
         /\ DataDone(DataPut(buf, p, l), p + l)
         /\ \A q : SpareDone(buf, q) /\ q \in 0 .. Part => SpareDone(DataPut(buf, p, l), q)
<1> DEFINE new == DataPut(buf, p, l)
<1>0. /\ \A n \in 0 .. At * Cells + p - 1 : buf[n] = Wanted(n)
      /\ new = Put(buf, 16 * (At * Cells + p), 16 * l, PageOf(req, At), 16 * p)
  BY DEF DataDone, DataPut
<1> HIDE DEF new
<1>1. /\ Cells \in {32, 64} /\ At \in {0, 1} /\ Pages \in {1, 2} /\ At < Pages
      /\ (Pages = 2 => Cells = 32) /\ Part \in {0, 1, 2} /\ 32 * Part <= Cells
  <2>1. mem.type \in {"NAND", "SUPERAND"}
    BY DEF UnderWay
  <2> QED
    BY <2>1, Places
<1> DEFINE base == At * Cells
           end == Pages * Cells
<1>2. base \in Nat /\ end \in Nat /\ base + Cells <= end /\ end <= 64
  BY <1>1
<1>3. /\ DOMAIN buf \subseteq Nat /\ \A c : c \in DOMAIN buf <=> c \in Nat /\ c < 128
  BY DEF RAW_SIZE, CELL
<1>4. DOMAIN new = 0 .. (RAW_SIZE \div CELL - 1)
  <2> DEFINE at == 16 * (base + p)
             n == 16 * l
  <2>1. at \in Nat /\ n \in Nat /\ at % 16 = 0 /\ n % 16 = 0 /\ at + n <= 2048
    BY <1>1, <1>2
  <2>2. new = Put(buf, at, n, PageOf(req, At), 16 * p)
    BY <1>0
  <2> HIDE DEF at, n
  <2> QED
    BY <2>1, <2>2, PutInside
<1>5. ASSUME NEW c \in DOMAIN buf
      PROVE  /\ c < base + p \/ c >= base + p + l => new[c] = buf[c]
             /\ base + p <= c /\ c < base + p + l =>
                  new[c] = Page(PageOf(req, At), 16 * p + (c - (base + p)) * 16)
  <2> DEFINE a == base + p
  <2>1. (16 * a) \div 16 = a /\ (16 * l) \div 16 = l /\ a \in Nat /\ c \in Nat
    <3>1. a \in Nat /\ c \in Nat
      BY <1>2, <1>3
    <3> HIDE DEF a
    <3> QED
      BY <3>1
  <2>2. new = Put(buf, 16 * a, 16 * l, PageOf(req, At), 16 * p)
    BY <1>0
  <2> HIDE DEF a
  <2>3. new[c] = IF c \in a .. (a + l - 1) THEN Page(PageOf(req, At), 16 * p + (c - a) * 16)
                 ELSE buf[c]
    BY <2>1, <2>2 DEF Put, CELL
  <2>4. c \in a .. (a + l - 1) <=> a <= c /\ c < a + l
    BY <2>1
  <2>5. /\ c < a \/ c >= a + l => new[c] = buf[c]
        /\ a <= c /\ c < a + l => new[c] = Page(PageOf(req, At), 16 * p + (c - a) * 16)
    BY <2>1, <2>3, <2>4
  <2> QED
    BY <2>5 DEF a
<1>6. ASSUME NEW n \in 0 .. base + (p + l) - 1 PROVE new[n] = Wanted(n)
  <2>1. n \in Nat /\ n < 128 /\ n < base + p + l
    BY <1>1, <1>2
  <2>2. CASE n < base + p
    <3>1. n \in 0 .. base + p - 1
      BY <1>2, <2>1, <2>2
    <3> QED
      BY <1>0, <1>3, <1>5, <2>1, <2>2, <3>1
  <2>3. CASE base + p <= n
    <3> DEFINE j == n - base
    <3>1. j \in Nat /\ j < Cells /\ n = base + j /\ 16 * p + (n - (base + p)) * 16 = j * 16
      BY <1>1, <1>2, <2>1, <2>3
    <3> HIDE DEF j
    <3>2. Wanted(At * Cells + j) = Page(PageOf(req, At), j * 16)
      BY <1>1, <3>1, WantedAt
    <3>3. new[n] = Page(PageOf(req, At), 16 * p + (n - (base + p)) * 16)
      BY <1>3, <1>5, <2>1, <2>3
    <3> QED
      BY <3>1, <3>2, <3>3
  <2> QED
    BY <1>2, <2>1, <2>2, <2>3
<1>7. ASSUME NEW c \in DOMAIN buf, c >= end PROVE new[c] = buf[c]
  <2>1. c \in Nat /\ c >= base + p + l
    BY <1>1, <1>2, <1>3, <1>7
  <2> QED
    BY <1>5, <2>1
<1>8. DataDone(new, p + l)
  BY <1>6 DEF DataDone
<1>9. ASSUME NEW q, SpareDone(buf, q), q \in 0 .. Part PROVE SpareDone(new, q)
  <2> SUFFICES ASSUME NEW m \in 0 .. At * Part + q - 1
               PROVE  new[end + m] = WantedSpare(m)
    BY DEF SpareDone
  <2>1. buf[end + m] = WantedSpare(m)
    BY <1>9 DEF SpareDone
  <2>2. end + m \in DOMAIN buf /\ end + m >= end
    BY <1>1, <1>2, <1>3, <1>9
  <2> QED
    BY <1>7, <2>1, <2>2
<1> QED
  BY <1>4, <1>8, <1>9 DEF new

\* Cells of its spare, put where the spares go, leave the data alone.
LEMMA SpareInPlace ==
  ASSUME FlashInv, InLoop, UnderWay, mem.type = "NAND",
         NEW buf, DOMAIN buf = 0 .. (RAW_SIZE \div CELL - 1),
         NEW p \in Nat, NEW l \in Nat, p + l <= Part, SpareDone(buf, p)
  PROVE  /\ DOMAIN SparePut(buf, p, l) = 0 .. (RAW_SIZE \div CELL - 1)
         /\ SpareDone(SparePut(buf, p, l), p + l)
         /\ \A q : DataDone(buf, q) /\ q \in 0 .. Cells => DataDone(SparePut(buf, p, l), q)
<1> DEFINE new == SparePut(buf, p, l)
<1>0. /\ \A m \in 0 .. At * Part + p - 1 : buf[Pages * Cells + m] = WantedSpare(m)
      /\ new = Put(buf, 16 * (Pages * Cells + At * Part + p), 16 * l, PageOf(req, At),
                   mem.page_size + 16 * p)
  BY DEF SpareDone, SparePut
<1> HIDE DEF new
<1>1. /\ Cells \in {32, 64} /\ At \in {0, 1} /\ Pages \in {1, 2} /\ At < Pages
      /\ (Pages = 2 => Cells = 32) /\ Part \in {1, 2} /\ 32 * Part = Cells
      /\ mem.page_size = 16 * Cells
  BY Places
<1> DEFINE end == Pages * Cells
           base == At * Part
           column == mem.page_size + 16 * p
<1>2. base \in Nat /\ end \in Nat /\ base + Part <= 4 /\ end <= 64 /\ column \in Nat
  BY <1>1
<1>3. /\ DOMAIN buf \subseteq Nat /\ \A c : c \in DOMAIN buf <=> c \in Nat /\ c < 128
  BY DEF RAW_SIZE, CELL
<1> HIDE DEF column
<1>4. DOMAIN new = 0 .. (RAW_SIZE \div CELL - 1)
  <2> DEFINE at == 16 * (end + base + p)
             n == 16 * l
  <2>1. at \in Nat /\ n \in Nat /\ at % 16 = 0 /\ n % 16 = 0 /\ at + n <= 2048
    BY <1>1, <1>2
  <2>2. new = Put(buf, at, n, PageOf(req, At), column)
    BY <1>0 DEF column
  <2> HIDE DEF at, n
  <2> QED
    BY <2>1, <2>2, PutInside
<1>5. ASSUME NEW c \in DOMAIN buf
      PROVE  /\ c < end + base + p \/ c >= end + base + p + l => new[c] = buf[c]
             /\ end + base + p <= c /\ c < end + base + p + l =>
                  new[c] = Page(PageOf(req, At), column + (c - (end + base + p)) * 16)
  <2> DEFINE a == end + base + p
  <2>1. (16 * a) \div 16 = a /\ (16 * l) \div 16 = l /\ a \in Nat /\ c \in Nat
    <3>1. a \in Nat /\ c \in Nat
      BY <1>2, <1>3
    <3> HIDE DEF a
    <3> QED
      BY <3>1
  <2>2. new = Put(buf, 16 * a, 16 * l, PageOf(req, At), column)
    BY <1>0 DEF column
  <2> HIDE DEF a
  <2>3. new[c] = IF c \in a .. (a + l - 1) THEN Page(PageOf(req, At), column + (c - a) * 16)
                 ELSE buf[c]
    BY <2>1, <2>2 DEF Put, CELL
  <2>4. c \in a .. (a + l - 1) <=> a <= c /\ c < a + l
    BY <2>1
  <2>5. /\ c < a \/ c >= a + l => new[c] = buf[c]
        /\ a <= c /\ c < a + l => new[c] = Page(PageOf(req, At), column + (c - a) * 16)
    BY <2>1, <2>3, <2>4
  <2> QED
    BY <2>5 DEF a
<1> HIDE DEF end, base
<1>6. ASSUME NEW m \in 0 .. base + (p + l) - 1 PROVE new[end + m] = WantedSpare(m)
  <2>1. m \in Nat /\ m < base + p + l /\ end + m \in Nat /\ end + m < 128
    BY <1>1, <1>2
  <2>2. CASE m < base + p
    <3>1. m \in 0 .. base + p - 1 /\ end + m < end + base + p
      BY <1>2, <2>1, <2>2
    <3> QED
      BY <1>0, <1>3, <1>5, <2>1, <3>1 DEF base, end
  <2>3. CASE base + p <= m
    <3> DEFINE j == m - base
    <3>1. j \in Nat /\ j < Part /\ m = base + j
      BY <1>1, <1>2, <2>1, <2>3
    <3> HIDE DEF j
    <3>2. column + ((end + m) - (end + base + p)) * 16 = mem.page_size + j * 16
      BY <1>1, <1>2, <2>1, <3>1 DEF column
    <3>3. WantedSpare(At * Part + j) = Page(PageOf(req, At), mem.page_size + j * 16)
      BY <1>1, <3>1, WantedSpareAt DEF base
    <3>4. new[end + m] = Page(PageOf(req, At), column + ((end + m) - (end + base + p)) * 16)
      <4>1. end + base + p <= end + m /\ end + m < end + base + p + l
        BY <1>2, <2>1, <2>3
      <4> QED
        BY <1>3, <1>5, <2>1, <4>1
    <3> QED
      BY <3>1, <3>2, <3>3, <3>4 DEF base
  <2> QED
    BY <1>2, <2>1, <2>2, <2>3
<1> USE DEF end, base
<1>7. ASSUME NEW c \in DOMAIN buf, c < end PROVE new[c] = buf[c]
  <2>1. c \in Nat /\ c < end + base + p
    BY <1>1, <1>2, <1>3, <1>7
  <2> QED
    BY <1>5, <2>1
<1>8. SpareDone(new, p + l)
  BY <1>6 DEF SpareDone
<1>9. ASSUME NEW q, DataDone(buf, q), q \in 0 .. Cells PROVE DataDone(new, q)
  <2> SUFFICES ASSUME NEW n \in 0 .. At * Cells + q - 1
               PROVE  new[n] = Wanted(n)
    BY DEF DataDone
  <2>1. buf[n] = Wanted(n)
    BY <1>9 DEF DataDone
  <2>2. n \in DOMAIN buf /\ n < end
    BY <1>1, <1>2, <1>3, <1>9
  <2> QED
    BY <1>7, <2>1, <2>2
<1> QED
  BY <1>4, <1>8, <1>9 DEF new

\* The answers to a request that the page loop serves.
LEMMA TruthfulChip ==
  ASSUME req \in Requests, req.id = 1, req.size <= DCC_BUFFER_SIZE, mem.type \in {"NAND", "SUPERAND"}
  PROVE  Truthful(req) =
           {Error("!FLA")} \cup
             IF req.size % mem.page_size # 0 THEN {}
             ELSE IF req.algo = "other" THEN {Error("!INV")}
             ELSE {Data(req.offset, req.algo,
                        Stored(req, IF mem.type = "NAND" THEN Spare ELSE 0))}
<1>1. req.id # 0 /\ mem.type # "NOR"
  OBVIOUS
<1>2. ~(req.size > DCC_BUFFER_SIZE)
  BY RequestsAssumption DEF DCC_BUFFER_SIZE
<1> QED
  BY <1>1, <1>2, Zenon DEF Truthful

\* All pages in place are what the chip has stored.
LEMMA AllStored ==
  ASSUME FlashInv, InLoop, UnderWay,
         NEW buf,
         \A n \in 0 .. Pages * Cells - 1 : buf[n] = Wanted(n),
         \A m \in 0 .. Pages * Part - 1 : buf[Pages * Cells + m] = WantedSpare(m)
  PROVE  [k \in 1 .. (16 * (Pages * Cells + Pages * Part)) \div CELL |-> buf[k - 1]]
           = Stored(req, IF mem.type = "NAND" THEN Spare ELSE 0)
<1>1. /\ Cells \in {32, 64} /\ Part \in {0, 1, 2} /\ Pages \in {1, 2}
      /\ Cells = mem.page_size \div CELL /\ Pages = req.size \div mem.page_size
      /\ Part = (IF mem.type = "NAND" THEN Spare ELSE 0) \div CELL
  <2>1. 0 \div 16 = 0
    OBVIOUS
  <2> QED
    BY Places, <2>1 DEF Cells, Pages, Part, CELL
<1> DEFINE end == Pages * Cells
           all == Pages * (Cells + Part)
<1>2. /\ end \in Nat /\ all \in Nat /\ all = end + Pages * Part
      /\ (16 * (end + Pages * Part)) \div 16 = all
  BY <1>1
<1>3. Stored(req, IF mem.type = "NAND" THEN Spare ELSE 0) =
        [n \in 1 .. all |->
           IF n <= end THEN Page(PageOf(req, (n - 1) \div Cells), ((n - 1) % Cells) * CELL)
           ELSE Page(PageOf(req, (n - 1 - end) \div Part),
                     mem.page_size + ((n - 1 - end) % Part) * CELL)]
  BY <1>1, Zenon DEF Stored
<1>4. ASSUME NEW n \in 1 .. all
      PROVE  buf[n - 1] =
               IF n <= end
               THEN Page(PageOf(req, (n - 1) \div Cells), ((n - 1) % Cells) * CELL)
               ELSE Page(PageOf(req, (n - 1 - end) \div Part),
                         mem.page_size + ((n - 1 - end) % Part) * CELL)
  <2>1. CASE n <= end
    <3>1. n - 1 \in 0 .. end - 1
      BY <1>2, <2>1
    <3>2. buf[n - 1] = Wanted(n - 1)
      BY <3>1
    <3> QED
      BY <2>1, <3>2, Zenon DEF Wanted
  <2>2. CASE ~(n <= end)
    <3> DEFINE m == n - 1 - end
    <3>1. m \in 0 .. Pages * Part - 1 /\ end + m = n - 1
      BY <1>1, <1>2, <2>2
    <3> HIDE DEF m
    <3>2. buf[end + m] = WantedSpare(m)
      BY <3>1
    <3>3. buf[n - 1] = Page(PageOf(req, m \div Part), mem.page_size + (m % Part) * CELL)
      BY <3>1, <3>2 DEF WantedSpare
    <3> QED
      BY <2>2, <3>3, Zenon DEF m
  <2> QED
    BY <2>1, <2>2
<1> QED
  BY <1>2, <1>3, <1>4 DEF CELL

\* What a page that is complete makes of the request: the loop goes on to the next page,
\* or the reply holds all of them, data first.
LEMMA PageComplete ==
  ASSUME FlashInv, InLoop, UnderWay,
         NEW buf,
         DataDone(buf, Cells), SpareDone(buf, Part), Fetched(buf, 16 * Part)
  PROVE  \/ pc' = "page" /\ UNCHANGED <<mem, req, reply>> /\ (UnderWay /\ Content)'
         \/ pc' = "idle" /\ UNCHANGED <<mem, req>> /\ reply' \in Truthful(req)
<1>1. /\ Cells \in {32, 64} /\ Part \in {0, 1, 2} /\ At \in {0, 1} /\ Pages \in {1, 2}
      /\ At < Pages /\ (Pages = 2 => Cells = 32) /\ mem.page_size = 16 * Cells
      /\ loop.page_offset = 16 * (At * Cells) /\ loop.size = 16 * ((Pages - At) * Cells)
      /\ req.size = 16 * (Pages * Cells)
      /\ loop.spare_offset = 16 * (Pages * Cells + At * Part)
  BY Places
<1>2. /\ mem' = mem /\ req' = req /\ rawBuf' = buf
      /\ req \in Requests /\ req.offset \in Nat
  BY RequestsAssumption DEF Fetched, FlashInv, TypeOK
<1>3. /\ req.id = 1 /\ req.size <= DCC_BUFFER_SIZE /\ mem.type \in {"NAND", "SUPERAND"}
      /\ loop.offset = req.offset + loop.page_offset
  BY DEF UnderWay
<1>a. /\ \A n \in 0 .. (At + 1) * Cells - 1 : buf[n] = Wanted(n)
      /\ \A m \in 0 .. (At + 1) * Part - 1 : buf[Pages * Cells + m] = WantedSpare(m)
  <2>1. ASSUME NEW n \in 0 .. (At + 1) * Cells - 1 PROVE buf[n] = Wanted(n)
    <3>1. n \in 0 .. At * Cells + Cells - 1
      BY <1>1
    <3> QED
      BY <3>1 DEF DataDone
  <2>2. ASSUME NEW m \in 0 .. (At + 1) * Part - 1
        PROVE  buf[Pages * Cells + m] = WantedSpare(m)
    <3>1. m \in 0 .. At * Part + Part - 1
      BY <1>1
    <3> QED
      BY <3>1 DEF SpareDone
  <2> QED
    BY <2>1, <2>2
<1>4. CASE At + 1 < Pages
  <2>1. At = 0 /\ Pages = 2 /\ Cells = 32 /\ mem.page_size = 512 /\ req.size = 1024
        /\ loop.size = 1024 /\ loop.page_offset = 0 /\ loop.spare_offset = 1024
    BY <1>1, <1>4
  <2>2. loop' = [offset |-> req.offset + 512, page_offset |-> 512,
                 spare_offset |-> 1024 + 16 * Part, size |-> 512, codeword |-> 0]
        /\ pc' = "page" /\ reply' = reply
    <3>1. loop.size - mem.page_size = 512 /\ loop.page_offset + mem.page_size = 512
          /\ loop.offset + mem.page_size = req.offset + 512
      BY <1>2, <1>3, <2>1
    <3> QED
      BY <2>1, <3>1 DEF Fetched
  <2>3. /\ loop'.offset = req.offset + 512 /\ loop'.page_offset = 512
        /\ loop'.spare_offset = 1024 + 16 * Part /\ loop'.size = 512 /\ loop'.codeword = 0
    BY <2>2
  <2>4. At' = 1 /\ Pages' = 2 /\ Cells' = 32 /\ Part' = Part /\ ReadSoFar' = 0
    <3>1. 512 \div 512 = 1 /\ 1024 \div 512 = 2 /\ 512 \div 16 = 32
      OBVIOUS
    <3> QED
      BY <1>2, <2>1, <2>2, <2>3, <3>1 DEF At, Pages, Cells, Part, Spare, ReadSoFar, CELL
  <2>5. UnderWay'
    <3>1. 512 + 512 = req'.size /\ req.offset + 512 = req'.offset + 512
          /\ 1024 + 16 * Part = req'.size + 1 * (Part * 16)
      BY <1>1, <1>2, <2>1
    <3> QED
      BY <1>2, <1>3, <2>2, <2>3, <2>4, <3>1 DEF UnderWay, CELL
  <2>6. ASSUME NEW n \in 0 .. 31 PROVE rawBuf'[n] = Wanted(n)'
    <3>1. n \in 0 .. (At + 1) * Cells - 1
      BY <2>1
    <3>2. buf[n] = Wanted(n)
      BY <1>a, <3>1
    <3>3. Wanted(n)' = Wanted(n)
      BY <1>2, Zenon DEF Wanted, PageOf, Cells, Rows
    <3> QED
      BY <1>2, <3>2, <3>3
  <2>7. ASSUME NEW m \in 0 .. Part - 1 PROVE rawBuf'[64 + m] = WantedSpare(m)'
    <3>1. m \in 0 .. (At + 1) * Part - 1 /\ Pages * Cells + m = 64 + m
      BY <1>1, <2>1
    <3>2. buf[64 + m] = WantedSpare(m)
      BY <1>a, <3>1
    <3>3. WantedSpare(m)' = WantedSpare(m)
      BY <1>2, Zenon DEF WantedSpare, PageOf, Part, Spare, Rows
    <3> QED
      BY <1>2, <3>2, <3>3
  <2>8. Content'
    <3>1. At' * Cells' + ReadSoFar' - 1 = 31 /\ At' * Part' + loop'.codeword - 1 = Part - 1
          /\ Pages' * Cells' = 64
      BY <1>1, <2>3, <2>4
    <3> QED
      BY <2>6, <2>7, <3>1 DEF Content, DataDone, SpareDone
  <2> QED
    BY <1>2, <2>2, <2>5, <2>8
<1>5. CASE At + 1 = Pages
  <2>1. loop.size - mem.page_size = 0
    BY <1>1, <1>5
  <2>2. loop.spare_offset + 16 * Part = 16 * (Pages * Cells + Pages * Part)
    BY <1>1, <1>5
  <2>3. reply' = Send(buf, 16 * (Pages * Cells + Pages * Part)) /\ pc' = "idle"
    BY <2>1, <2>2 DEF Fetched
  <2>4. req.size % mem.page_size = 0
    BY <1>1
  <2>5. [k \in 1 .. (16 * (Pages * Cells + Pages * Part)) \div CELL |-> buf[k - 1]]
          = Stored(req, IF mem.type = "NAND" THEN Spare ELSE 0)
    BY <1>5, <1>a, AllStored
  <2>6. reply' = IF req.algo = "other" THEN Error("!INV")
                 ELSE Data(req.offset, req.algo,
                           Stored(req, IF mem.type = "NAND" THEN Spare ELSE 0))
    BY <2>3, <2>5, Zenon DEF Send
  <2>7. reply' \in Truthful(req)
    BY <1>2, <1>3, <2>4, <2>6, TruthfulChip
  <2> QED
    BY <1>2, <2>3, <2>7
<1> QED
  BY <1>1, <1>4, <1>5

\* A fetch that comes in parts goes on with what was read so far in place.
LEMMA Onward ==
  ASSUME UnderWay, ByCommands, loop.codeword = 0, UNCHANGED <<mem, req, loop>>,
         pc' \in {"half", "oob"}, pc' = "half" => mem.bit_width = 8,
         DataDone(rawBuf', IF pc' = "half" THEN 16 ELSE 32), SpareDone(rawBuf', 0)
  PROVE  (UnderWay /\ Content)'
<1>1. /\ At' = At /\ Cells' = Cells /\ Part' = Part /\ Pages' = Pages
      /\ ReadSoFar' = IF pc' = "half" THEN 16 ELSE 32
  BY DEF At, Cells, Part, Pages, Spare, ReadSoFar
<1>2. \A n : Wanted(n)' = Wanted(n)
  BY Zenon DEF Wanted, PageOf, Cells, Rows
<1>3. \A m : WantedSpare(m)' = WantedSpare(m)
  BY Zenon DEF WantedSpare, PageOf, Part, Spare, Rows
<1>4. UnderWay'
  BY <1>1 DEF UnderWay, ByCommands
<1>5. Content'
  BY <1>1, <1>2, <1>3, Zenon DEF Content, DataDone, SpareDone
<1> QED
  BY <1>4, <1>5

\* READ0 brings the first half of a page eight bits wide, or all of one sixteen bits wide.
LEMMA HalfRead ==
  ASSUME FlashInv, pc = "page", UnderWay, Content, ReadHalf
  PROVE  UNCHANGED <<mem, req, reply>> /\ pc' \in {"half", "oob"} /\ (UnderWay /\ Content)'
<1>1. /\ InLoop /\ mem.type = "NAND" /\ ByCommands /\ mem.page_size = 512
      /\ UNCHANGED <<mem, req, loop, reply>> /\ mem.bit_width \in {8, 16}
      /\ pc' = IF mem.bit_width = 8 THEN "half" ELSE "oob"
      /\ DOMAIN rawBuf = 0 .. (RAW_SIZE \div CELL - 1)
  BY MemoriesAssumption DEF ReadHalf, InLoop, ByCommands, Small, FlashInv, TypeOK, RawBufHolds
<1>2. /\ Cells = 32 /\ loop.codeword = 0 /\ At \in {0, 1} /\ Part = 1
      /\ loop.page_offset = 16 * (At * Cells)
  <2>1. loop.codeword # 0 => mem.ctrl = "codewords"
    BY DEF UnderWay
  <2> QED
    BY <1>1, <2>1, Places DEF ByCommands
<1>3. DataDone(rawBuf, 0) /\ SpareDone(rawBuf, 0)
  BY <1>2 DEF ReadSoFar, Content
<1> DEFINE l == IF pc' = "half" THEN 16 ELSE 32
<1>4. l \in Nat /\ 0 + l <= Cells /\ 256 * (mem.bit_width \div 8) = 16 * l
  BY <1>1, <1>2
<1>5. rawBuf' = DataPut(rawBuf, 0, l)
  <2>1. SmallRow = PageOf(req, At)
    BY <1>1, RowFound
  <2>2. loop.page_offset = 16 * (At * Cells + 0) /\ 16 * 0 = 0
    BY <1>2
  <2> QED
    BY <1>4, <2>1, <2>2 DEF ReadHalf, DataPut
<1>6. DataDone(rawBuf', l) /\ SpareDone(rawBuf', 0)
  <2> HIDE DEF l
  <2>1. 0 + l = l /\ 0 \in Nat /\ 0 \in 0 .. Part
    BY <1>2, <1>4
  <2> QED
    BY <1>1, <1>3, <1>4, <1>5, <2>1, DataInPlace
<1> QED
  BY <1>1, <1>2, <1>6, Onward

\* READ1 brings the other half.
LEMMA OtherHalfRead ==
  ASSUME FlashInv, UnderWay, Content, ReadOtherHalf
  PROVE  UNCHANGED <<mem, req, reply>> /\ pc' = "oob" /\ (UnderWay /\ Content)'
<1>1. /\ InLoop /\ pc = "half" /\ ByCommands /\ mem.type = "NAND" /\ mem.page_size = 512
      /\ UNCHANGED <<mem, req, loop, reply>> /\ pc' = "oob"
      /\ DOMAIN rawBuf = 0 .. (RAW_SIZE \div CELL - 1)
  BY DEF ReadOtherHalf, InLoop, UnderWay, ByCommands, FlashInv, RawBufHolds
<1>2. /\ Cells = 32 /\ loop.codeword = 0 /\ At \in {0, 1} /\ Part = 1
      /\ loop.page_offset = 16 * (At * Cells)
  BY <1>1, Places
<1>3. DataDone(rawBuf, 16) /\ SpareDone(rawBuf, 0)
  BY <1>1, <1>2 DEF ReadSoFar, Content
<1>5. rawBuf' = DataPut(rawBuf, 16, 16)
  <2>1. SmallRow = PageOf(req, At)
    BY <1>1, RowFound
  <2>2. loop.page_offset + 256 = 16 * (At * Cells + 16) /\ 16 * 16 = 256
    BY <1>2
  <2> QED
    BY <2>1, <2>2 DEF ReadOtherHalf, DataPut
<1>6. DataDone(rawBuf', 32) /\ SpareDone(rawBuf', 0)
  <2>1. 16 + 16 = 32 /\ 16 \in Nat /\ 0 \in 0 .. Part /\ 16 + 16 <= Cells
    BY <1>2
  <2> QED
    BY <1>1, <1>3, <1>5, <2>1, DataInPlace
<1> QED
  BY <1>1, <1>2, <1>6, Onward

\* READOOB ends the page.
LEMMA SpareRead ==
  ASSUME FlashInv, UnderWay, Content, ReadOob
  PROVE  \/ pc' = "page" /\ UNCHANGED <<mem, req, reply>> /\ (UnderWay /\ Content)'
         \/ pc' = "idle" /\ UNCHANGED <<mem, req>> /\ reply' \in Truthful(req)
<1>1. /\ InLoop /\ pc = "oob" /\ mem.type = "NAND" /\ mem.page_size = 512
      /\ DOMAIN rawBuf = 0 .. (RAW_SIZE \div CELL - 1)
  BY DEF ReadOob, InLoop, UnderWay, ByCommands, FlashInv, RawBufHolds
<1>2. /\ Cells = 32 /\ loop.codeword = 0 /\ Part = 1 /\ Spare = 16 * Part
      /\ loop.spare_offset = 16 * (Pages * Cells + At * Part)
      /\ Pages \in {1, 2} /\ At \in {0, 1}
  BY <1>1, Places
<1>3. DataDone(rawBuf, Cells) /\ SpareDone(rawBuf, 0)
  BY <1>1, <1>2 DEF ReadSoFar, Content
<1> DEFINE buf == SparePut(rawBuf, 0, 1)
<1>4. Fetched(buf, 16 * Part)
  <2>1. SmallRow = PageOf(req, At)
    BY <1>1, RowFound
  <2>2. /\ loop.spare_offset = 16 * (Pages * Cells + At * Part + 0) /\ 16 * 1 = 16
        /\ mem.page_size + 16 * 0 = 512
    BY <1>1, <1>2
  <2>3. buf = Put(rawBuf, loop.spare_offset, 16, SmallRow, 512)
    BY <2>1, <2>2 DEF SparePut
  <2> QED
    BY <1>2, <2>3 DEF ReadOob
<1>5. DataDone(buf, Cells) /\ SpareDone(buf, Part)
  <2>1. 0 \in Nat /\ 1 \in Nat /\ 0 + 1 <= Part /\ 0 + 1 = Part /\ Cells \in 0 .. Cells
    BY <1>2
  <2> QED
    BY <1>1, <1>3, <2>1, SpareInPlace
<1> HIDE DEF buf
<1> QED
  BY <1>1, <1>4, <1>5, PageComplete

\* A fetch that brings a page and its spare at once ends the page.
LEMMA WholeRead ==
  ASSUME FlashInv, pc = "page", UnderWay, Content, loop.codeword = 0, mem.type = "NAND",
         WholePage(PageOf(req, At))
  PROVE  \/ pc' = "page" /\ UNCHANGED <<mem, req, reply>> /\ (UnderWay /\ Content)'
         \/ pc' = "idle" /\ UNCHANGED <<mem, req>> /\ reply' \in Truthful(req)
<1>1. InLoop /\ DOMAIN rawBuf = 0 .. (RAW_SIZE \div CELL - 1)
  BY DEF InLoop, FlashInv, RawBufHolds
<1>2. /\ Cells \in {32, 64} /\ Part \in {1, 2} /\ Spare = 16 * Part
      /\ loop.page_offset = 16 * (At * Cells) /\ mem.page_size = 16 * Cells
      /\ loop.spare_offset = 16 * (Pages * Cells + At * Part)
      /\ Pages \in {1, 2} /\ At \in {0, 1}
  BY <1>1, Places
<1>3. DataDone(rawBuf, 0) /\ SpareDone(rawBuf, 0)
  BY DEF ReadSoFar, Content
<1> DEFINE data == DataPut(rawBuf, 0, Cells)
           buf == SparePut(data, 0, Part)
<1>4. Fetched(buf, 16 * Part)
  <2>1. /\ loop.spare_offset = 16 * (Pages * Cells + At * Part + 0)
        /\ mem.page_size + 16 * 0 = mem.page_size /\ 16 * 0 = 0
        /\ loop.page_offset = 16 * (At * Cells + 0)
    BY <1>2
  <2>2. data = Put(rawBuf, loop.page_offset, mem.page_size, PageOf(req, At), 0)
    BY <1>2, <2>1, Zenon DEF DataPut
  <2>3. buf = Put(data, loop.spare_offset, Spare, PageOf(req, At), mem.page_size)
    BY <1>2, <2>1, Zenon DEF SparePut
  <2> QED
    BY <1>2, <2>2, <2>3, Zenon DEF WholePage
<1> HIDE DEF buf
<1>5. /\ DOMAIN data = 0 .. (RAW_SIZE \div CELL - 1)
      /\ DataDone(data, Cells) /\ SpareDone(data, 0)
  <2>1. 0 \in Nat /\ Cells \in Nat /\ 0 + Cells <= Cells /\ 0 + Cells = Cells /\ 0 \in 0 .. Part
    BY <1>2
  <2> QED
    BY <1>1, <1>3, <2>1, DataInPlace
<1> HIDE DEF data
<1>6. DataDone(buf, Cells) /\ SpareDone(buf, Part)
  <2>1. 0 \in Nat /\ Part \in Nat /\ 0 + Part <= Part /\ 0 + Part = Part /\ Cells \in 0 .. Cells
    BY <1>2
  <2> QED
    BY <1>1, <1>5, <2>1, SpareInPlace DEF buf
<1> QED
  BY <1>1, <1>4, <1>6, PageComplete

\* A SuperAND page has no spare.
LEMMA SuperAndRead ==
  ASSUME FlashInv, UnderWay, Content, ReadSuperAnd
  PROVE  \/ pc' = "page" /\ UNCHANGED <<mem, req, reply>> /\ (UnderWay /\ Content)'
         \/ pc' = "idle" /\ UNCHANGED <<mem, req>> /\ reply' \in Truthful(req)
<1>1. /\ InLoop /\ pc = "page" /\ mem.type = "SUPERAND"
      /\ DOMAIN rawBuf = 0 .. (RAW_SIZE \div CELL - 1)
  BY DEF ReadSuperAnd, InLoop, FlashInv, RawBufHolds
<1>2. /\ Cells = 32 /\ loop.codeword = 0 /\ Part = 0
      /\ loop.page_offset = 16 * (At * Cells) /\ mem.page_size = 16 * Cells
      /\ At \in {0, 1}
  <2>1. loop.codeword # 0 => mem.type = "NAND"
    BY DEF UnderWay
  <2> QED
    BY <1>1, <2>1, Places
<1>3. DataDone(rawBuf, 0) /\ SpareDone(rawBuf, 0)
  BY <1>1, <1>2 DEF ReadSoFar, Content
<1> DEFINE buf == DataPut(rawBuf, 0, Cells)
<1>4. Fetched(buf, 16 * Part)
  <2>1. (4 * ((PAGE \div 4) % 65536) + (PAGE % 4)) % Rows = PageOf(req, At)
    BY <1>1, RowFound
  <2>2. loop.page_offset = 16 * (At * Cells + 0) /\ 16 * 0 = 0
    BY <1>2
  <2>3. buf = Put(rawBuf, loop.page_offset, mem.page_size, PageOf(req, At), 0)
    BY <1>2, <2>2, Zenon DEF DataPut
  <2>4. Fetched(Put(rawBuf, loop.page_offset, mem.page_size, PageOf(req, At), 0), 0)
    BY <2>1 DEF ReadSuperAnd
  <2> QED
    BY <1>2, <2>2, <2>3, <2>4, Zenon
<1>5. DataDone(buf, Cells) /\ SpareDone(buf, 0)
  <2>1. 0 \in Nat /\ Cells \in Nat /\ 0 + Cells <= Cells /\ 0 + Cells = Cells /\ 0 \in 0 .. Part
    BY <1>2
  <2> QED
    BY <1>1, <1>3, <2>1, DataInPlace
<1> HIDE DEF buf
<1> QED
  BY <1>1, <1>2, <1>4, <1>5, PageComplete

\* A codeword goes on to the next one, or is the last of its page.
LEMMA CodewordRead ==
  ASSUME FlashInv, UnderWay, Content, ReadCodeword
  PROVE  \/ pc' = "page" /\ UNCHANGED <<mem, req, reply>> /\ (UnderWay /\ Content)'
         \/ pc' = "idle" /\ UNCHANGED <<mem, req>> /\ reply' \in Truthful(req)
<1>1. /\ InLoop /\ pc = "page" /\ mem.type = "NAND" /\ mem.ctrl = "codewords"
      /\ DOMAIN rawBuf = 0 .. (RAW_SIZE \div CELL - 1)
  BY DEF ReadCodeword, InLoop, FlashInv, RawBufHolds
<1>2. /\ Cells \in {32, 64} /\ Part \in {1, 2} /\ Spare = 16 * Part /\ 32 * Part = Cells
      /\ loop.page_offset = 16 * (At * Cells) /\ mem.page_size = 16 * Cells
      /\ loop.spare_offset = 16 * (Pages * Cells + At * Part)
      /\ Pages \in {1, 2} /\ At \in {0, 1}
      /\ loop.codeword \in {0, 1} /\ (loop.codeword = 1 => Cells = 64)
  BY <1>1, Places
<1> DEFINE w == loop.codeword
           done == 32 * w
           data == DataPut(rawBuf, done, 32)
           buf == SparePut(data, w, 1)
<1>3. DataDone(rawBuf, done) /\ SpareDone(rawBuf, w)
  BY <1>1 DEF ReadSoFar, Content
<1>4. /\ buf = Put(Put(rawBuf, loop.page_offset + 512 * w, 512, PageOf(req, At), 512 * w),
                   loop.spare_offset + 16 * w, 16, PageOf(req, At), mem.page_size + 16 * w)
  <2>1. loop.page_offset + 512 * w = 16 * (At * Cells + done)
    BY <1>2
  <2>2. 512 * w = 16 * done /\ 512 = 16 * 32 /\ 16 = 16 * 1
    BY <1>2
  <2>3. loop.spare_offset + 16 * w = 16 * (Pages * Cells + At * Part + w)
    BY <1>2
  <2> QED
    BY <2>1, <2>2, <2>3 DEF DataPut, SparePut
<1>5. PAGE % Rows = PageOf(req, At)
  BY <1>1, RowFound
<1>a. LET all == Put(Put(rawBuf, loop.page_offset + 512 * w, 512, PageOf(req, At), 512 * w),
                     loop.spare_offset + 16 * w, 16, PageOf(req, At), mem.page_size + 16 * w)
      IN  IF 512 * (w + 1) = mem.page_size
          THEN Fetched(all, Spare)
          ELSE /\ rawBuf' = all /\ loop' = [loop EXCEPT !.codeword = @ + 1]
               /\ UNCHANGED <<mem, pc, req, reply>>
  BY <1>5 DEF ReadCodeword
<1>6. IF 512 * (w + 1) = mem.page_size
      THEN Fetched(buf, Spare)
      ELSE /\ rawBuf' = buf /\ loop' = [loop EXCEPT !.codeword = @ + 1]
           /\ UNCHANGED <<mem, pc, req, reply>>
  BY <1>4, <1>a, ZenonT(60)
<1> HIDE DEF buf
<1>7. /\ DOMAIN data = 0 .. (RAW_SIZE \div CELL - 1)
      /\ DataDone(data, done + 32) /\ SpareDone(data, w)
  <2>1. done \in Nat /\ 32 \in Nat /\ done + 32 <= Cells /\ w \in 0 .. Part
    BY <1>2
  <2> HIDE DEF done, w
  <2> QED
    BY <1>1, <1>3, <2>1, DataInPlace
<1> HIDE DEF data
<1>8. DataDone(buf, done + 32) /\ SpareDone(buf, w + 1)
  <2>1. w \in Nat /\ 1 \in Nat /\ w + 1 <= Part /\ done + 32 \in 0 .. Cells
    BY <1>2
  <2> HIDE DEF done, w
  <2> QED
    BY <1>1, <1>7, <2>1, SpareInPlace DEF buf
<1>9. CASE 512 * (w + 1) = mem.page_size
  <2>1. done + 32 = Cells /\ w + 1 = Part
    BY <1>2, <1>9
  <2>2. Fetched(buf, 16 * Part)
    BY <1>2, <1>6, <1>9, Zenon
  <2>3. DataDone(buf, Cells) /\ SpareDone(buf, Part)
    BY <1>8, <2>1
  <2> QED
    BY <1>1, <2>2, <2>3, PageComplete
<1>10. CASE 512 * (w + 1) # mem.page_size
  <2>1. w = 0 /\ done = 0 /\ Cells = 64
    BY <1>2, <1>10
  <2>2. /\ rawBuf' = buf /\ loop' = [loop EXCEPT !.codeword = @ + 1]
        /\ UNCHANGED <<mem, pc, req, reply>>
    BY <1>6, <1>10, Zenon
  <2>3. /\ loop'.codeword = 1 /\ loop'.page_offset = loop.page_offset
        /\ loop'.size = loop.size /\ loop'.spare_offset = loop.spare_offset
        /\ loop'.offset = loop.offset
    BY <2>1, <2>2 DEF FlashInv, TypeOK
  <2>4. /\ At' = At /\ Cells' = Cells /\ Part' = Part /\ Pages' = Pages /\ ReadSoFar' = 32
    BY <1>1, <2>2, <2>3 DEF At, Cells, Part, Pages, Spare, ReadSoFar
  <2>5. UnderWay'
    BY <1>1, <2>2, <2>3, <2>4 DEF UnderWay, ByCommands
  <2>6. \A n : Wanted(n)' = Wanted(n)
    BY <2>2, Zenon DEF Wanted, PageOf, Cells, Rows
  <2>7. \A m : WantedSpare(m)' = WantedSpare(m)
    BY <2>2, Zenon DEF WantedSpare, PageOf, Part, Spare, Rows
  <2>8. DataDone(buf, 32) /\ SpareDone(buf, 1)
    BY <1>8, <2>1
  <2>9. Content'
    BY <2>2, <2>3, <2>4, <2>6, <2>7, <2>8, Zenon DEF Content, DataDone, SpareDone
  <2> QED
    BY <1>1, <2>2, <2>5, <2>9
<1> QED
  BY <1>9, <1>10

-----------------------------------------------------------------------------
(* The read command answers what FlashDevice allows.                       *)

\* No answer is the absence of one.
LEMMA AnswersAreReplies ==
  ASSUME NEW r \in Requests, NEW answer \in Truthful(r)
  PROVE  answer # NoReply
<1>1. /\ \A text : Error(text).kind = text
      /\ \A o, a, d : Data(o, a, d).kind = "data"
      /\ NoReply.kind = "none"
  BY DEF Error, Data, NoReply
<1>2. \A base : FromMemory(r, base).kind \in {"!INV", "data"}
  <2> TAKE base
  <2>1. CASE r.algo = "other"
    BY <1>1, <2>1 DEF FromMemory
  <2>2. CASE r.algo # "other"
    BY <1>1, <2>2 DEF FromMemory
  <2> QED
    BY <2>1, <2>2
<1> DEFINE first == r.size > DCC_BUFFER_SIZE
           second == r.size <= DCC_BUFFER_SIZE /\ r.id = 0
           third == r.size <= DCC_BUFFER_SIZE /\ r.id = 1 /\ mem.type = "NOR"
           fourth == r.size <= DCC_BUFFER_SIZE /\ r.id = 1 /\ mem.type \in {"NAND", "SUPERAND"}
           chip == {Error("!FLA")} \cup
                     IF r.size % mem.page_size # 0 THEN {}
                     ELSE IF r.algo = "other" THEN {Error("!INV")}
                     ELSE {Data(r.offset, r.algo,
                                Stored(r, IF mem.type = "NAND" THEN Spare ELSE 0))}
<1>3. Truthful(r) = CASE first -> {Error("!LEN")}
                      [] second -> {FromMemory(r, 0)}
                      [] third -> {FromMemory(r, mem.base_offset)}
                      [] fourth -> chip
                      [] OTHER -> {Error("deadbeef")}
  BY Zenon DEF Truthful
<1>4. /\ ~(first /\ second) /\ ~(first /\ third) /\ ~(first /\ fourth)
      /\ ~(second /\ third) /\ ~(second /\ fourth) /\ ~(third /\ fourth)
  <2>1. r.size \in Nat /\ ~(r.size > DCC_BUFFER_SIZE /\ r.size <= DCC_BUFFER_SIZE)
    BY RequestsAssumption DEF DCC_BUFFER_SIZE
  <2>2. ~(r.id = 0 /\ r.id = 1) /\ ~(mem.type = "NOR" /\ mem.type \in {"NAND", "SUPERAND"})
    OBVIOUS
  <2> QED
    BY <2>1, <2>2, Zenon
<1>5. answer.kind \in {"!LEN", "!INV", "data", "!FLA", "deadbeef"}
  <2>1. ASSUME NEW x \in chip PROVE x.kind \in {"!FLA", "!INV", "data"}
    <3> DEFINE page == Data(r.offset, r.algo,
                            Stored(r, IF mem.type = "NAND" THEN Spare ELSE 0))
    <3>1. page.kind = "data"
      BY <1>1
    <3> HIDE DEF page
    <3>2. x \in {Error("!FLA")} \cup
                  IF r.size % mem.page_size # 0 THEN {}
                  ELSE IF r.algo = "other" THEN {Error("!INV")} ELSE {page}
      BY Zenon DEF page
    <3>3. x \in {Error("!FLA"), Error("!INV"), page}
      BY <3>2
    <3> QED
      BY <1>1, <3>1, <3>3
  <2> HIDE DEF chip, first, second, third, fourth
  <2>2. \/ answer = Error("!LEN") \/ answer = FromMemory(r, 0)
        \/ answer = FromMemory(r, mem.base_offset) \/ answer \in chip
        \/ answer = Error("deadbeef")
    <3>1. CASE first
      BY <1>3, <1>4, <3>1, Zenon
    <3>2. CASE second
      BY <1>3, <1>4, <3>2, Zenon
    <3>3. CASE third
      BY <1>3, <1>4, <3>3, Zenon
    <3>4. CASE fourth
      BY <1>3, <1>4, <3>4, Zenon
    <3>5. CASE ~first /\ ~second /\ ~third /\ ~fourth
      BY <1>3, <3>5, Zenon
    <3> QED
      BY <3>1, <3>2, <3>3, <3>4, <3>5
  <2> QED
    BY <1>1, <1>2, <2>1, <2>2
<1> QED
  BY <1>1, <1>5

\* What the handler answers by itself, and what it leaves to the page loop.
LEMMA Handled ==
  ASSUME FlashInv, FlashInv', DRL_Packet_FlashRead
  PROVE  /\ UNCHANGED <<mem, req>>
         /\ \/ pc' = "page" /\ UNCHANGED reply /\ (UnderWay /\ Content)'
            \/ pc' = "idle" /\ reply' \in Truthful(req)
<1>1. /\ UNCHANGED <<mem, req>> /\ mem \in Memories /\ req \in Requests
  BY DEF DRL_Packet_FlashRead, FlashInv, TypeOK
<1>2. /\ mem.type \in Types /\ mem.page_size \in {512, 1024, 2048, 4096, 8192}
      /\ req.size \in Nat /\ req.offset \in Nat
  BY <1>1, MemoriesAssumption, RequestsAssumption
<1>3. Beyond(req) <=> ~(req.size <= DCC_BUFFER_SIZE)
  BY <1>2 DEF Beyond, DCC_BUFFER_SIZE
<1>4. CASE Beyond(req) /\ Refuse("!LEN")
  <2>1. Truthful(req) = {Error("!LEN")}
    BY <1>3, <1>4, Zenon DEF Truthful, Beyond
  <2> QED
    BY <1>1, <1>4, <2>1 DEF Refuse
<1>5. CASE ~Beyond(req) /\ req.id = 0 /\ ReadAt(0)
  <2>1. Truthful(req) = {FromMemory(req, 0)}
    <3>1. req.id # 1
      BY <1>5
    <3> QED
      BY <1>3, <1>5, <3>1, Zenon DEF Truthful, Beyond
  <2> QED
    BY <1>1, <1>5, <2>1 DEF ReadAt
<1>6. CASE ~Beyond(req) /\ req.id # 0 /\ ~Known(req) /\ Refuse("deadbeef")
  <2>1. ~(req.id = 1 /\ mem.type = "NOR") /\ ~(req.id = 1 /\ mem.type \in {"NAND", "SUPERAND"})
    BY <1>6 DEF Known
  <2>2. Truthful(req) = {Error("deadbeef")}
    BY <1>3, <1>6, <2>1, Zenon DEF Truthful, Beyond
  <2> QED
    BY <1>1, <1>6, <2>2 DEF Refuse
<1>7. CASE ~Beyond(req) /\ Known(req) /\ mem.type = "NOR" /\ ReadAt(mem.base_offset)
  <2>1. req.id = 1 /\ req.id # 0 /\ mem.type \notin {"NAND", "SUPERAND"}
    BY <1>7 DEF Known
  <2>2. Truthful(req) = {FromMemory(req, mem.base_offset)}
    BY <1>3, <1>7, <2>1, Zenon DEF Truthful, Beyond
  <2> QED
    BY <1>1, <1>7, <2>2 DEF ReadAt
<1>8. CASE /\ ~Beyond(req) /\ Known(req) /\ mem.type # "NOR"
           /\ IF Misaligned(req) THEN Refuse("!FLA")
              ELSE loop' = Start(req) /\ pc' = "page" /\ UNCHANGED reply
  <2>1. req.id = 1 /\ req.size <= DCC_BUFFER_SIZE /\ mem.type \in {"NAND", "SUPERAND"}
    BY <1>2, <1>3, <1>8 DEF Known, Types
  <2>2. CASE Misaligned(req)
    <3>1. Error("!FLA") \in Truthful(req)
      BY <1>1, <2>1, TruthfulChip, Zenon
    <3> QED
      BY <1>1, <1>8, <2>2, <3>1 DEF Refuse
  <2>3. CASE ~Misaligned(req)
    <3>1. loop' = Start(req) /\ pc' = "page" /\ UNCHANGED reply
      BY <1>8, <2>3
    <3>2. /\ loop'.offset = req.offset /\ loop'.page_offset = 0 /\ loop'.size = req.size
          /\ loop'.spare_offset = req.size /\ loop'.codeword = 0
      BY <3>1 DEF Start
    <3>3. At' = 0 /\ ReadSoFar' = 0 /\ Cells' \in Nat /\ Part' \in Nat
      BY <1>1, <1>2, <3>1, <3>2 DEF At, ReadSoFar, Cells, Part, Spare, CELL
    <3>4. UnderWay'
      <4>1. /\ req'.offset + 0 = req.offset /\ 0 + req.size = req'.size
            /\ req'.size + 0 * (Part' * CELL) = req.size
        BY <1>1, <1>2, <3>3 DEF CELL
      <4> QED
        BY <1>1, <2>1, <3>1, <3>2, <3>3, <4>1 DEF UnderWay
    <3>5. Content'
      <4>1. /\ ~\E n : n \in 0 .. At' * Cells' + ReadSoFar' - 1
            /\ ~\E m : m \in 0 .. At' * Part' + loop'.codeword - 1
        BY <3>2, <3>3
      <4> QED
        BY <4>1, Zenon DEF Content, DataDone, SpareDone
    <3> QED
      BY <1>1, <3>1, <3>4, <3>5
  <2> QED
    BY <2>2, <2>3
<1> QED
  BY <1>4, <1>5, <1>6, <1>7, <1>8 DEF DRL_Packet_FlashRead

\* What may truthfully be answered depends on the chip only.
LEMMA TruthfulKept ==
  ASSUME NEW r \in Requests, mem' = mem
  PROVE  Truthful(r)' = Truthful(r)
<1> DEFINE fits == r.size <= DCC_BUFFER_SIZE
<1>1. \A s : Stored(r, s)' = Stored(r, s)
  BY DEF Stored, PageOf, Rows
<1>2. \A b : FromMemory(r, b)' = FromMemory(r, b)
  BY Zenon DEF FromMemory
<1>3. Spare' = Spare
  BY DEF Spare
<1>4. r.size > DCC_BUFFER_SIZE <=> ~fits
  BY RequestsAssumption DEF DCC_BUFFER_SIZE
<1>5. CASE ~fits
  BY <1>4, <1>5, Zenon DEF Truthful
<1>6. CASE fits /\ r.id = 0
  <2>1. r.id # 1
    BY <1>6
  <2>2. Truthful(r) = {FromMemory(r, 0)}
    BY <1>4, <1>6, <2>1, Zenon DEF Truthful
  <2>3. Truthful(r)' = {FromMemory(r, 0)'}
    BY <1>4, <1>6, <2>1, Zenon DEF Truthful
  <2> QED
    BY <1>2, <2>2, <2>3, Zenon
<1>7. CASE fits /\ r.id = 1 /\ mem.type = "NOR"
  <2>1. r.id # 0 /\ mem.type \notin {"NAND", "SUPERAND"}
    BY <1>7
  <2>2. Truthful(r) = {FromMemory(r, mem.base_offset)}
    BY <1>4, <1>7, <2>1, Zenon DEF Truthful
  <2>3. Truthful(r)' = {FromMemory(r, mem.base_offset)'}
    BY <1>4, <1>7, <2>1, Zenon DEF Truthful
  <2>4. FromMemory(r, mem.base_offset)' = FromMemory(r, mem.base_offset)
    BY Zenon DEF FromMemory
  <2> QED
    BY <2>2, <2>3, <2>4, Zenon
<1>8. CASE fits /\ r.id = 1 /\ mem.type \in {"NAND", "SUPERAND"}
  <2> DEFINE stored == Stored(r, IF mem.type = "NAND" THEN Spare ELSE 0)
             chip(data) == {Error("!FLA")} \cup
                             IF r.size % mem.page_size # 0 THEN {}
                             ELSE IF r.algo = "other" THEN {Error("!INV")}
                             ELSE {Data(r.offset, r.algo, data)}
  <2>1. r.id # 0 /\ mem.type # "NOR"
    BY <1>8
  <2>2. Truthful(r) = chip(stored)
    BY <1>4, <1>8, <2>1, Zenon DEF Truthful
  <2>3. Truthful(r)' = chip(stored)'
    BY <1>4, <1>8, <2>1, Zenon DEF Truthful
  <2>4. stored' = stored
    BY DEF Stored, PageOf, Rows, Spare
  <2> HIDE DEF stored
  <2> QED
    BY <2>2, <2>3, <2>4
<1>9. CASE fits /\ r.id # 0 /\ (r.id # 1 \/ mem.type \notin {"NOR", "NAND", "SUPERAND"})
  <2>1. ~(r.id = 1 /\ mem.type = "NOR") /\ ~(r.id = 1 /\ mem.type \in {"NAND", "SUPERAND"})
    BY <1>9
  <2> QED
    BY <1>4, <1>9, <2>1, Zenon DEF Truthful
<1> QED
  BY <1>5, <1>6, <1>7, <1>8, <1>9

\* Every step keeps what the answers rest on, and asks, answers or does neither.
LEMMA AnswerStep ==
  ASSUME AnswerInv, [Next]_vars
  PROVE  AnswerInv' /\ [Device!Next]_(Device!vars)
<1> DEFINE truthful == [r \in Requests |-> Truthful(r)]
           Answered == pc' = "idle" /\ UNCHANGED <<mem, req>> /\ reply' \in Truthful(req)
           Goes == /\ UNCHANGED <<mem, req, reply>> /\ pc' \in {"page", "half", "oob"}
                   /\ (UnderWay /\ Content)'
<1>1. /\ FlashInv /\ req \in Requests /\ (pc = "idle" <=> reply # NoReply)
      /\ InLoop => UnderWay /\ Content
      /\ pc \in {"idle", "command", "page", "half", "oob"}
  BY DEF AnswerInv, FlashInv, TypeOK
<1>2. FlashInv'
  BY <1>1, FlashStep
<1>3. ASSUME mem' = mem PROVE truthful' = truthful
  <2>1. ASSUME NEW r \in Requests PROVE Truthful(r)' = Truthful(r)
    BY <1>3, TruthfulKept
  <2> QED
    BY <2>1, Zenon
<1>4. ASSUME Answered, pc # "idle" PROVE AnswerInv' /\ Device!Answer
  <2>1. reply = NoReply
    BY <1>1, <1>4
  <2>2. reply' # NoReply
    BY <1>1, <1>4, AnswersAreReplies
  <2>3. AnswerInv'
    <3>1. NoReply' = NoReply
      BY DEF NoReply, Error
    <3> QED
      BY <1>2, <1>4, <2>2, <3>1 DEF AnswerInv, InLoop
  <2>4. truthful[req] = Truthful(req)
    BY <1>1
  <2>5. truthful' = truthful /\ req' = req /\ reply' \in truthful[req]
    BY <1>3, <1>4, <2>4
  <2> QED
    BY <2>1, <2>3, <2>5, Zenon DEF Device!Answer
<1>5. ASSUME Goes, pc # "idle" PROVE AnswerInv' /\ UNCHANGED Device!vars
  <2>1. reply' = NoReply
    BY <1>1, <1>5
  <2>2. AnswerInv'
    BY <1>2, <1>5, <2>1 DEF AnswerInv, NoReply, Error
  <2> QED
    BY <1>3, <1>5, <2>2 DEF Device!vars
<1>6. ASSUME NEW r \in Requests, Receive(r) PROVE AnswerInv' /\ Device!Ask
  <2>1. /\ mem' = mem /\ req' = r /\ pc' = "command" /\ reply' = NoReply /\ reply # NoReply
    BY <1>1, <1>6 DEF Receive
  <2>2. AnswerInv'
    BY <1>2, <2>1 DEF AnswerInv, InLoop, NoReply, Error
  <2>3. truthful' = truthful
    BY <1>3, <2>1
  <2> QED
    BY <2>1, <2>2, <2>3, Zenon DEF Device!Ask
<1>7. CASE DRL_Packet_FlashRead
  <2>1. pc = "command"
    BY <1>7 DEF DRL_Packet_FlashRead
  <2>2. Goes \/ Answered
    BY <1>1, <1>2, <1>7, Handled
  <2> QED
    BY <1>4, <1>5, <2>1, <2>2 DEF Device!Next
<1>8. ASSUME pc \in {"page", "half", "oob"}, Goes \/ Answered
      PROVE  AnswerInv' /\ [Device!Next]_(Device!vars)
  BY <1>4, <1>5, <1>8 DEF Device!Next
<1>9. CASE ReadHalf
  <2>1. pc = "page"
    BY <1>9 DEF ReadHalf
  <2> QED
    BY <1>1, <1>8, <1>9, <2>1, HalfRead DEF InLoop
<1>10. CASE ReadOtherHalf
  <2>1. pc = "half"
    BY <1>10 DEF ReadOtherHalf
  <2> QED
    BY <1>1, <1>8, <1>10, <2>1, OtherHalfRead DEF InLoop
<1>11. CASE ReadOob
  <2>1. pc = "oob"
    BY <1>11 DEF ReadOob
  <2> QED
    BY <1>1, <1>8, <1>11, <2>1, SpareRead DEF InLoop
<1>12. CASE ReadLarge
  <2>1. pc = "page" /\ mem.type = "NAND" /\ mem.ctrl = "commands" /\ ~Small
    BY <1>12 DEF ReadLarge, ByCommands
  <2>2. InLoop /\ UnderWay /\ Content
    BY <1>1, <2>1 DEF InLoop
  <2>3. loop.codeword = 0
    BY <2>1, <2>2 DEF UnderWay
  <2>4. LargeRow = PageOf(req, At)
    <3>1. mem.page_size = 1024
      BY <1>1, <2>1 DEF FlashInv, LoopPlace, Small
    <3> QED
      BY <1>1, <2>1, <2>2, <3>1, RowFound
  <2> QED
    BY <1>1, <1>8, <1>12, <2>1, <2>2, <2>3, <2>4, WholeRead DEF ReadLarge
<1>13. CASE ReadWhole
  <2>1. pc = "page" /\ mem.type = "NAND" /\ mem.ctrl = "whole"
    BY <1>13 DEF ReadWhole
  <2>2. InLoop /\ UnderWay /\ Content
    BY <1>1, <2>1 DEF InLoop
  <2>3. loop.codeword = 0
    BY <2>1, <2>2 DEF UnderWay
  <2>4. PAGE % Rows = PageOf(req, At)
    BY <1>1, <2>2, RowFound
  <2> QED
    BY <1>1, <1>8, <1>13, <2>1, <2>2, <2>3, <2>4, WholeRead DEF ReadWhole
<1>14. CASE ReadCodeword
  <2>1. pc = "page"
    BY <1>14 DEF ReadCodeword
  <2> QED
    BY <1>1, <1>8, <1>14, <2>1, CodewordRead DEF InLoop
<1>15. CASE ReadSuperAnd
  <2>1. pc = "page"
    BY <1>15 DEF ReadSuperAnd
  <2> QED
    BY <1>1, <1>8, <1>15, <2>1, SuperAndRead DEF InLoop
<1>16. CASE StatusFails
  <2>1. /\ pc \in {"page", "half", "oob"} /\ pc' = "idle" /\ UNCHANGED <<mem, req>>
        /\ reply' = Error("!FLA")
    BY <1>16 DEF StatusFails, Refuse
  <2>2. UnderWay
    BY <1>1, <2>1 DEF InLoop
  <2>3. Error("!FLA") \in Truthful(req)
    BY <1>1, <2>2, TruthfulChip, Zenon DEF UnderWay
  <2> QED
    BY <1>8, <2>1, <2>3
<1>17. CASE UNCHANGED vars
  <2>1. UNCHANGED <<mem, pc, req, loop, rawBuf, reply>>
    BY <1>17 DEF vars
  <2>2. truthful' = truthful
    BY <1>3, <2>1
  <2>3. AnswerInv'
    BY <1>1, <1>2, <2>1 DEF AnswerInv, InLoop, UnderWay, Content, DataDone, SpareDone, At, Cells,
       Part, Pages, Spare, ReadSoFar, Wanted, WantedSpare, PageOf, Rows, ByCommands, NoReply, Error
  <2> QED
    BY <2>1, <2>2, <2>3 DEF Device!vars
<1> QED
  BY <1>6, <1>7, <1>9, <1>10, <1>11, <1>12, <1>13, <1>14, <1>15, <1>16, <1>17
     DEF Next, Device!Next

\* The first request has come and nothing is read.
LEMMA AnswerInit == Init => AnswerInv /\ Device!Init
<1> SUFFICES ASSUME Init PROVE AnswerInv /\ Device!Init
  OBVIOUS
<1>1. FlashInv
  BY DEF Init, FlashInv, TypeOK, RawBufHolds, Idle, RAW_SIZE, CELL
<1> QED
  BY <1>1 DEF Init, AnswerInv, InLoop, Device!Init

\* Whatever the controller and the geometry, and whatever earlier and failed requests left
\* in rawBuf, DRL_Packet_FlashRead answers each request once, by one of the answers that
\* FlashDevice allows: a reply with data holds all the pages asked for and then all of
\* their spares, each cell from its own row and column of the chip.
THEOREM AnswersHold == Spec => AnswersTruthfully
<1>1. Init => AnswerInv /\ Device!Init
  BY AnswerInit
<1>2. AnswerInv /\ [Next]_vars => AnswerInv' /\ [Device!Next]_(Device!vars)
  BY AnswerStep
<1> QED
  BY <1>1, <1>2, PTL DEF Spec, AnswersTruthfully, Device!Spec
=============================================================================
