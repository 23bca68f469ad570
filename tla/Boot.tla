--------------------------------- MODULE Boot ---------------------------------
(***************************************************************************)
(* dcc_main up to its loop: each device of devices[] is probed and         *)
(* described by a few words of BUF_INIT, the table the handshake and the   *)
(* information command send.  Entries have three shapes, one of them with  *)
(* a name of any length packed behind its length byte, so the host finds   *)
(* an entry only if the words before it were counted exactly.              *)
(*                                                                         *)
(* A word is known by what stands in it and by the device it describes.    *)
(***************************************************************************)
EXTENDS Integers, Sequences

CONSTANTS
  DEVICES,    \* the drivers in devices[] (at most 16)
  MAX_NAME,   \* the longest name a probe leaves
  BUF_WORDS,  \* the words of BUF_INIT
  Probes      \* what a driver's initialize may return and leave in its DCCMemory

MemTypes == {"NONE", "NAND", "NOR", "ONENAND", "SUPERAND", "AND", "AG_AND"}

ASSUME DevicesAssumption == DEVICES \in 0 .. 16 /\ MAX_NAME \in 0 .. 254
ASSUME ProbesAssumption ==
  Probes \subseteq [res : {"ok", "fail"}, type : MemTypes, name : 0 .. MAX_NAME]
\* BUF_INIT holds, for each device, two words of status, the name with its length
\* byte and a word of detail, and two words for the buffer.
ASSUME TableAssumption ==
  BUF_WORDS \in Nat /\ DEVICES * (3 + (MAX_NAME + 4) \div 4) + 2 <= BUF_WORDS

VARIABLES
  i,                   \* the device to be probed next
  mem,                 \* type and length of the name of each device probed
  mem_has_spare,
  BUF_INIT,            \* the words written so far
  dcc_init_offset,
  DRL_Flash_Detected,
  ready                \* the table is complete, the main loop runs

vars ==
  <<i, mem, mem_has_spare, BUF_INIT, dcc_init_offset, DRL_Flash_Detected, ready>>

-----------------------------------------------------------------------------
Unprobed == [type |-> "NONE", name |-> 0]

Init ==
  /\ i = 1
  /\ mem = [d \in 1 .. DEVICES |-> Unprobed]
  /\ mem_has_spare = [d \in 1 .. DEVICES |-> 0]
  /\ BUF_INIT = <<>> /\ dcc_init_offset = 0
  /\ DRL_Flash_Detected = FALSE /\ ready = FALSE

W(what, d) == [what |-> what, spare |-> 0, dev |-> d]

\* The first word of an entry: its kind and whether the pages have a spare.
Status(kind, spare, d) == [what |-> kind, spare |-> spare, dev |-> d]

\* Words ws written from word off on.
Write(buf, off, ws) ==
  LET here == off .. (off + Len(ws) - 1)
  IN  [n \in DOMAIN buf \cup here |-> IF n \in here THEN ws[n - off + 1] ELSE buf[n]]

Align4Name(x) == ((x + 2) \div 4) * 4   \* mutant: the length byte is not counted
Align4(x) == ((x + 3) \div 4) * 4

\* The words a name takes with its length byte.
NameBytes(name) == Align4(1 + name)   \* mutant: bytes counted as words
NameWords(name) == Align4(1 + name) \div 4

\* One byte of length and the name: every word they touch.
NameAt(d, name) == [k \in 1 .. (1 + name + 3) \div 4 |-> W("name", d)]

-----------------------------------------------------------------------------
\* The driver of a memory dump (flash/mmap) reports a nameless NOR whatever is there.
Memdump_Probe == [res |-> "ok", type |-> "NOR", name |-> 0]

\* The probe, and the reset of the type after a failure.
Probed(p) ==
  [type |-> IF p.res = "ok" THEN p.type ELSE "NONE", name |-> p.name]

Step(p, spare) ==
  /\ ~ready /\ i \in 1 .. DEVICES
  /\ mem' = [mem EXCEPT ![i] = Probed(p)]
  /\ mem_has_spare' = [mem_has_spare EXCEPT ![i] = spare]
  /\ i' = i + 1
  /\ UNCHANGED ready

\* WRITE_EXTMEM: status, identity, the name if there is one, detail.
WriteExtmem(p, spare) ==
  LET kind   == IF p.name # 0 THEN "named" ELSE "extended"
      head   == Write(BUF_INIT, dcc_init_offset,
                      <<Status(kind, spare, i), W("id", i)>>)
      after  == dcc_init_offset + 2
      detail == IF p.name # 0 THEN after + NameWords(p.name) ELSE after
      named  == IF p.name # 0 THEN Write(head, after, NameAt(i, p.name)) ELSE head
  IN  /\ BUF_INIT' = Write(named, detail, <<W("detail", i)>>)
      /\ dcc_init_offset' = detail + 1
      /\ DRL_Flash_Detected' = TRUE

NoSpare(type) == type \in {"NOR", "SUPERAND"}

ListExtended ==
  \E p \in Probes :
    LET t == Probed(p).type IN
    /\ t # "NONE" /\ (t = "NAND" => p.name # 0)
    /\ LET spare == IF NoSpare(t) THEN 0 ELSE 1
       IN  Step(p, spare) /\ WriteExtmem(p, spare)

\* A NAND without a name: its page size stands in the status word.
ListNand ==
  \E p \in Probes :
    /\ Probed(p).type = "NAND" /\ p.name = 0
    /\ Step(p, 1)
    /\ BUF_INIT' = Write(BUF_INIT, dcc_init_offset,
                         <<Status("page", 1, i), W("id", i)>>)
    /\ dcc_init_offset' = dcc_init_offset + 2
    /\ DRL_Flash_Detected' = TRUE

ListNone ==
  \E p \in Probes :
    /\ Probed(p).type = "NONE"
    /\ Step(p, 0)
    /\ BUF_INIT' = Write(BUF_INIT, dcc_init_offset,
                         <<Status("none", 0, i), W("zero", i)>>)
    /\ dcc_init_offset' = dcc_init_offset + 2
    /\ UNCHANGED DRL_Flash_Detected

\* The size of the buffer ends the table.
CloseTable ==
  /\ ~ready /\ i = DEVICES + 1
  /\ BUF_INIT' = Write(BUF_INIT, dcc_init_offset,
                       <<Status("buffer", 0, 0), W("size", 0)>>)
  /\ dcc_init_offset' = dcc_init_offset + 2
  /\ ready' = TRUE
  /\ UNCHANGED <<i, mem, mem_has_spare, DRL_Flash_Detected>>

\* The main loop: none of these change any more.
MainLoop == ready /\ UNCHANGED vars

Next == ListExtended \/ ListNand \/ ListNone \/ CloseTable \/ MainLoop

Spec == Init /\ [][Next]_vars

-----------------------------------------------------------------------------
(* The commands that answer from what the probe left.                      *)

\* What the size command says of a flash id (0 .. 255, one byte of the packet).
FlashSizeOfNext(id) ==   \* mutant: mem[id] for mem[id - 1]
  IF id = 0 THEN "zero"
  ELSE IF id < 17 /\ id + 1 <= DEVICES /\ mem[id + 1].type # "NONE" THEN "size"
  ELSE "deadbeef"
FlashSize(id) ==
  IF id = 0 THEN "zero"
  ELSE IF id < 17 /\ id <= DEVICES /\ mem[id].type # "NONE" THEN "size"
  ELSE "deadbeef"

-----------------------------------------------------------------------------
(* Properties.                                                             *)

\* The table of any set of devices, with names of any length, stays inside BUF_INIT,
\* and every word below dcc_init_offset, which is what the replies copy, was written.
TableInBounds ==
  /\ dcc_init_offset <= BUF_WORDS
  /\ DOMAIN BUF_INIT = 0 .. (dcc_init_offset - 1)

\* How a host walks the table: an entry tells by its status word how long it is, a
\* named one by its length byte.
EntryAfter(o) ==
  LET kind == BUF_INIT[o].what IN
  IF kind = "named" THEN o + 3 + ((1 + mem[BUF_INIT[o].dev].name) + 3) \div 4
  ELSE IF kind = "extended" THEN o + 3 ELSE o + 2

Entries[k \in 1 .. (DEVICES + 1)] == IF k = 1 THEN 0 ELSE EntryAfter(Entries[k - 1])

EntryKind(d) ==
  IF mem[d].type = "NONE" THEN "none"
  ELSE IF mem[d].name # 0 THEN "named"
  ELSE IF mem[d].type = "NAND" THEN "page" ELSE "extended"

\* A host that walks the finished table finds one entry for each device, in the order
\* of the flash ids, with its kind and spare flag, whole up to its last word, and then
\* the buffer entry at the very end: no entry overlaps the next.
TableReadsBack ==
  ready =>
    /\ \A d \in 1 .. DEVICES :
         LET o == Entries[d] IN
         /\ BUF_INIT[o] = Status(EntryKind(d), mem_has_spare[d], d)
         /\ BUF_INIT[o + 1].dev = d
         /\ EntryKind(d) = "named" =>
              \A n \in (o + 2) .. (EntryAfter(o) - 2) : BUF_INIT[n] = W("name", d)
         /\ EntryKind(d) \in {"extended", "named"} =>
              BUF_INIT[EntryAfter(o) - 1] = W("detail", d)
    /\ BUF_INIT[Entries[DEVICES + 1]] = Status("buffer", 0, 0)
    /\ Entries[DEVICES + 1] + 2 = dcc_init_offset

\* The gate of the command layer, the table and the size command agree on which
\* devices there are: flash was detected exactly when some entry of the table
\* describes one, and the size command knows exactly those ids.
DetectionAgrees ==
  ready =>
    /\ DRL_Flash_Detected
         <=> \E n \in DOMAIN BUF_INIT :
               BUF_INIT[n].what \in {"page", "extended", "named"}
    /\ \A id \in 1 .. 255 :
         FlashSize(id) = "size"
           <=> id <= DEVICES /\ BUF_INIT[Entries[id]].what # "none"
=============================================================================
