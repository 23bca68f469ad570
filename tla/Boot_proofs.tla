------------------------------ MODULE Boot_proofs ------------------------------
(***************************************************************************)
(* The table of the probe fits its array, reads back entry by entry and    *)
(* agrees with the gate and with the size command, for any number of       *)
(* devices and any names the assumptions of Boot allow; and with any two   *)
(* chips at the NOR addresses, no routine of DRL_NOR_Probe mistakes a chip *)
(* or leaves a known one unreadable.                                       *)
(*                                                                         *)
(* TableInBounds is not inductive: a step may use up the room of one       *)
(* device, so the invariant says how many words the devices probed so far  *)
(* can have used.  Nor is TableReadsBack, which speaks of the finished     *)
(* table: the invariant says where the entries written so far start.  The  *)
(* part NoMistakenPart is about is the end of a list of words written and  *)
(* read: lemmas say what each routine leaves of a chip of each family, and *)
(* NorInv which routines have been passed when the next has its turn.      *)
(***************************************************************************)
EXTENDS Startup, NaturalsInduction, WellFoundedInduction, SequenceTheorems, TLAPS

\* The most words one device can take.
Room == 3 + (MAX_NAME + 4) \div 4

BootInv ==
  /\ i \in 1 .. (DEVICES + 1) /\ ready \in BOOLEAN
  /\ dcc_init_offset \in Nat
  /\ DOMAIN BUF_INIT = 0 .. (dcc_init_offset - 1)
  /\ dcc_init_offset <= (i - 1) * Room + (IF ready THEN 2 ELSE 0)
  /\ ready => i = DEVICES + 1

\* Words written at the end of the table make it longer by as many.
LEMMA WriteDomain ==
  \A buf, off, ws :
    DOMAIN Write(buf, off, ws) = DOMAIN buf \cup (off .. (off + Len(ws) - 1))
<1> QED BY DEF Write

\* Two spans of words next to each other are one.
LEMMA SpansJoin ==
  ASSUME NEW off \in Nat, NEW n \in Nat
  PROVE  (0 .. (off - 1)) \cup (off .. (off + n - 1)) = 0 .. (off + n - 1)
<1> QED OBVIOUS

\* A name and its length byte touch exactly the words the offset skips.
LEMMA NameSpan ==
  ASSUME NEW name \in 0 .. MAX_NAME, NEW d
  PROVE  /\ NameWords(name) \in Nat
         /\ Len(NameAt(d, name)) = NameWords(name)
         /\ NameWords(name) <= (MAX_NAME + 4) \div 4
<1>0. MAX_NAME \in Nat /\ name \in Nat /\ name <= MAX_NAME BY DevicesAssumption
<1>1. NameWords(name) = (1 + name + 3) \div 4 BY <1>0 DEF NameWords, Align4
<1>2. (1 + name + 3) \div 4 \in Nat BY <1>0
<1>3. NameAt(d, name) \in Seq({W("name", d)})
  BY <1>2 DEF NameAt
<1>4. Len(NameAt(d, name)) = (1 + name + 3) \div 4
  <2>1. DOMAIN NameAt(d, name) = 1 .. ((1 + name + 3) \div 4) BY DEF NameAt
  <2>2. DOMAIN NameAt(d, name) = 1 .. Len(NameAt(d, name)) /\ Len(NameAt(d, name)) \in Nat
    BY <1>3
  <2> QED BY <2>1, <2>2, <1>2
<1>5. (1 + name + 3) \div 4 <= (MAX_NAME + 4) \div 4 BY <1>0
<1> QED BY <1>1, <1>2, <1>4, <1>5

\* What a step adds to the table is at most the room of a device.
LEMMA RoomAdds ==
  ASSUME NEW k \in Nat, k <= DEVICES, k >= 1
  PROVE  /\ Room \in Nat /\ Room >= 3
         /\ (k - 1) * Room + Room = k * Room
         /\ (k - 1) * Room \in Nat /\ k * Room \in Nat
<1>1. Room \in Nat /\ Room >= 3 BY DevicesAssumption DEF Room
<1> QED BY <1>1

\* The invariant holds when dcc_main starts.
LEMMA BootInit == Init => BootInv
<1> SUFFICES ASSUME Init PROVE BootInv OBVIOUS
<1>1. DEVICES \in Nat /\ Room \in Nat BY DevicesAssumption DEF Room
<1>2. DOMAIN BUF_INIT = {} BY DEF Init
<1>3. (1 - 1) * Room = 0 BY <1>1
<1>4. i = 1 /\ dcc_init_offset = 0 /\ ready = FALSE BY DEF Init
<1>5. (i - 1) * Room = 0 BY <1>3, <1>4
<1>6. dcc_init_offset <= (i - 1) * Room + (IF ready THEN 2 ELSE 0) BY <1>4, <1>5
<1>7. DOMAIN BUF_INIT = 0 .. (dcc_init_offset - 1) BY <1>2, <1>4
<1>8. i \in 1 .. (DEVICES + 1) /\ dcc_init_offset \in Nat /\ ready = FALSE
  BY <1>1, <1>4
<1> QED BY <1>6, <1>7, <1>8 DEF BootInv

-----------------------------------------------------------------------------
(* What a device adds to the table.                                        *)

KindOf(m) ==
  IF m.type = "NONE" THEN "none"
  ELSE IF m.name # 0 THEN "named"
  ELSE IF m.type = "NAND" THEN "page" ELSE "extended"

Heads == {"page", "extended", "named"}

\* The words of an entry.
WordsOf(m) ==
  IF KindOf(m) = "named" THEN 3 + NameWords(m.name)
  ELSE IF KindOf(m) = "extended" THEN 3 ELSE 2

\* The table got longer by the entry of device i, and nothing else of it changed.
Appended(kind, spare, words, name) ==
  LET off == dcc_init_offset IN
  /\ off' = off + words
  /\ DOMAIN BUF_INIT' = 0 .. (off + words - 1)
  /\ \A n \in 0 .. (off - 1) : BUF_INIT'[n] = BUF_INIT[n]
  /\ BUF_INIT'[off] = Status(kind, spare, i)
  /\ BUF_INIT'[off + 1].dev = i
  /\ \A n \in (off + 1) .. (off + words - 1) : BUF_INIT'[n].what \notin Heads
  /\ kind = "named" =>
       \A n \in (off + 2) .. (off + 1 + NameWords(name)) : BUF_INIT'[n] = W("name", i)
  /\ kind \in {"extended", "named"} => BUF_INIT'[off + words - 1] = W("detail", i)

\* A device is probed and listed.
Listed(p, spare) ==
  /\ Step(p, spare)
  /\ Probed(p) \in [type : MemTypes, name : 0 .. MAX_NAME] /\ spare \in {0, 1}
  /\ Appended(KindOf(Probed(p)), spare, WordsOf(Probed(p)), p.name)
  /\ DRL_Flash_Detected' = (DRL_Flash_Detected \/ Probed(p).type # "NONE")

\* Words written behind the last one leave the others alone.
LEMMA Written ==
  ASSUME NEW buf, NEW off \in Nat, DOMAIN buf = 0 .. (off - 1),
         NEW ws, Len(ws) \in Nat
  PROVE  /\ DOMAIN Write(buf, off, ws) = 0 .. (off + Len(ws) - 1)
         /\ \A n \in 0 .. (off - 1) : Write(buf, off, ws)[n] = buf[n]
         /\ \A k \in 1 .. Len(ws) : Write(buf, off, ws)[off + k - 1] = ws[k]
<1> DEFINE len == Len(ws)
<1>0. len \in Nat
  OBVIOUS
<1>1. DOMAIN Write(buf, off, ws) = 0 .. (off + len - 1)
  <2>1. DOMAIN Write(buf, off, ws) = DOMAIN buf \cup (off .. (off + Len(ws) - 1))
    BY WriteDomain, Zenon
  <2> HIDE DEF Write
  <2> QED
    BY <1>0, <2>1, SpansJoin DEF len
<1>2. ASSUME NEW n \in 0 .. (off + len - 1)
      PROVE  Write(buf, off, ws)[n] =
               IF n \in off .. (off + len - 1) THEN ws[n - off + 1] ELSE buf[n]
  BY <1>0, <1>1, <1>2 DEF Write, len
<1> HIDE DEF len
<1>3. ASSUME NEW n \in 0 .. (off - 1) PROVE Write(buf, off, ws)[n] = buf[n]
  <2>1. n \in 0 .. (off + len - 1) /\ n \notin off .. (off + len - 1)
    BY <1>0
  <2> QED
    BY <1>2, <2>1
<1>4. ASSUME NEW k \in 1 .. len PROVE Write(buf, off, ws)[off + k - 1] = ws[k]
  <2>1. /\ off + k - 1 \in 0 .. (off + len - 1) /\ off + k - 1 \in off .. (off + len - 1)
        /\ (off + k - 1) - off + 1 = k
    BY <1>0
  <2> QED
    BY <1>2, <2>1
<1> QED
  BY <1>1, <1>3, <1>4 DEF len

\* WRITE_EXTMEM adds an entry of three words and the name.
LEMMA ExtmemAppends ==
  ASSUME BootInv, NEW p, p.name \in 0 .. MAX_NAME, NEW spare, WriteExtmem(p, spare),
         NEW kind, kind = IF p.name # 0 THEN "named" ELSE "extended",
         NEW words, words = IF p.name # 0 THEN 3 + NameWords(p.name) ELSE 3
  PROVE  Appended(kind, spare, words, p.name) /\ DRL_Flash_Detected' = TRUE
<1> DEFINE off == dcc_init_offset
           start == <<Status(kind, spare, i), W("id", i)>>
           one == Write(BUF_INIT, off, start)
           last == <<W("detail", i)>>
           detail == IF p.name # 0 THEN off + 2 + NameWords(p.name) ELSE off + 2
           two == IF p.name # 0 THEN Write(one, off + 2, NameAt(i, p.name)) ELSE one
           three == Write(two, detail, last)
<1>0. /\ off \in Nat /\ DOMAIN BUF_INIT = 0 .. (off - 1)
  BY DEF BootInv
<1>1. /\ BUF_INIT' = three /\ off' = detail + 1 /\ DRL_Flash_Detected' = TRUE
  BY DEF WriteExtmem
<1>2. /\ NameWords(p.name) \in Nat /\ Len(NameAt(i, p.name)) = NameWords(p.name)
  BY NameSpan
<1>3. \A k \in 1 .. NameWords(p.name) : NameAt(i, p.name)[k] = W("name", i)
  <2>1. NameWords(p.name) = (1 + p.name + 3) \div 4
    BY DevicesAssumption DEF NameWords, Align4
  <2> QED
    BY <2>1 DEF NameAt
<1>4. /\ Len(start) = 2 /\ start[1] = Status(kind, spare, i) /\ start[2] = W("id", i)
      /\ Len(last) = 1 /\ last[1] = W("detail", i)
  OBVIOUS
<1> HIDE DEF start, last
<1>5. /\ DOMAIN one = 0 .. ((off + 2) - 1)
      /\ \A n \in 0 .. (off - 1) : one[n] = BUF_INIT[n]
      /\ one[off] = Status(kind, spare, i) /\ one[off + 1] = W("id", i)
  <2>1. /\ DOMAIN one = 0 .. (off + 2 - 1)
        /\ \A n \in 0 .. (off - 1) : one[n] = BUF_INIT[n]
        /\ \A k \in 1 .. 2 : one[off + k - 1] = start[k]
    <3>1. Len(start) \in Nat
      BY <1>4
    <3>2. /\ DOMAIN one = 0 .. (off + Len(start) - 1)
          /\ \A n \in 0 .. (off - 1) : one[n] = BUF_INIT[n]
          /\ \A k \in 1 .. Len(start) : one[off + k - 1] = start[k]
      BY <1>0, <3>1, Written
    <3> QED
      BY <1>4, <3>2, Zenon
  <2>2. one[off + 1 - 1] = start[1] /\ one[off + 2 - 1] = start[2]
    BY <2>1
  <2>3. off + 1 - 1 = off /\ off + 2 - 1 = off + 1 /\ (off + 2) - 1 = off + 2 - 1
    BY <1>0
  <2> QED
    BY <1>4, <2>1, <2>2, <2>3
<1> HIDE DEF one
<1>6. /\ detail \in Nat /\ DOMAIN two = 0 .. (detail - 1) /\ detail + 1 = off + words
      /\ \A n \in 0 .. (off + 1) : two[n] = one[n]
      /\ \A n \in (off + 2) .. (detail - 1) : two[n] = W("name", i)
      /\ kind = "named" => detail = off + 2 + NameWords(p.name)
  <2>1. CASE p.name # 0
    <3> DEFINE len == NameWords(p.name)
               at == off + 2
    <3>1. /\ DOMAIN two = 0 .. (at + len - 1)
          /\ \A n \in 0 .. (at - 1) : two[n] = one[n]
          /\ \A k \in 1 .. len : two[at + k - 1] = NameAt(i, p.name)[k]
      <4>1. two = Write(one, at, NameAt(i, p.name)) /\ at \in Nat
        BY <1>0, <2>1
      <4>2. DOMAIN one = 0 .. (at - 1) /\ Len(NameAt(i, p.name)) \in Nat
        BY <1>2, <1>5
      <4> HIDE DEF two, at, len
      <4>3. /\ DOMAIN Write(one, at, NameAt(i, p.name))
                = 0 .. (at + Len(NameAt(i, p.name)) - 1)
            /\ \A n \in 0 .. (at - 1) : Write(one, at, NameAt(i, p.name))[n] = one[n]
            /\ \A k \in 1 .. Len(NameAt(i, p.name)) :
                 Write(one, at, NameAt(i, p.name))[at + k - 1] = NameAt(i, p.name)[k]
        BY <4>1, <4>2, Written
      <4> QED
        BY <1>2, <4>1, <4>3, Zenon DEF len
    <3>2. detail = at + len
      BY <2>1
    <3>3. at = off + 2 /\ len \in Nat
      BY <1>2
    <3> HIDE DEF two, detail, len, at
    <3>4. ASSUME NEW n \in (off + 2) .. (detail - 1) PROVE two[n] = W("name", i)
      <4>1. n - at + 1 \in 1 .. len /\ at + (n - at + 1) - 1 = n
        BY <1>0, <3>2, <3>3
      <4> QED
        BY <1>3, <3>1, <4>1 DEF len
    <3> QED
      BY <1>0, <2>1, <3>1, <3>2, <3>3, <3>4, SMTT(30) DEF len
  <2>2. CASE p.name = 0
    <3>1. detail = off + 2 /\ two = one /\ words = 3 /\ kind = "extended"
      BY <2>2
    <3> HIDE DEF detail, two
    <3> QED
      BY <1>0, <1>5, <3>1
  <2> QED
    BY <2>1, <2>2
<1> HIDE DEF two, detail
<1>7. /\ DOMAIN three = 0 .. detail
      /\ \A n \in 0 .. (detail - 1) : three[n] = two[n]
      /\ three[detail] = W("detail", i)
  <2>1. /\ DOMAIN three = 0 .. (detail + 1 - 1)
        /\ \A n \in 0 .. (detail - 1) : three[n] = two[n]
        /\ \A k \in 1 .. 1 : three[detail + k - 1] = last[k]
    <3>1. Len(last) \in Nat
      BY <1>4
    <3>2. /\ DOMAIN three = 0 .. (detail + Len(last) - 1)
          /\ \A n \in 0 .. (detail - 1) : three[n] = two[n]
          /\ \A k \in 1 .. Len(last) : three[detail + k - 1] = last[k]
      BY <1>6, <3>1, Written
    <3> QED
      BY <1>4, <3>2, Zenon
  <2>2. detail + 1 - 1 = detail
    BY <1>6
  <2> QED
    BY <1>4, <2>1, <2>2
<1> HIDE DEF three
<1>8. detail >= off + 2 /\ detail = off + words - 1 /\ detail \in Nat
  <2>1. detail >= off + 2
    BY <1>0, <1>2 DEF detail
  <2>2. words \in Nat
    BY <1>2
  <2>3. off \in Nat /\ detail \in Nat /\ detail + 1 = off + words
    BY <1>0, <1>6
  <2> QED
    BY <2>1, <2>2, <2>3
<1>9. /\ \A n \in 0 .. (off - 1) : three[n] = BUF_INIT[n]
      /\ three[off] = Status(kind, spare, i) /\ three[off + 1] = W("id", i)
  <2>1. \A n \in 0 .. (off + 1) : three[n] = one[n]
    <3> TAKE n \in 0 .. (off + 1)
    <3>1. n \in 0 .. (detail - 1)
      BY <1>0, <1>8
    <3> QED
      BY <1>6, <1>7, <3>1
  <2> QED
    BY <1>0, <1>5, <2>1
<1>10. \A n \in (off + 2) .. (detail - 1) : three[n] = W("name", i)
  BY <1>0, <1>6, <1>7, <1>8
<1>11. /\ W("name", i).what \notin Heads /\ W("id", i).what \notin Heads
       /\ W("detail", i).what \notin Heads /\ W("id", i).dev = i
  BY DEF W, Heads
<1>12. \A n \in (off + 1) .. (off + words - 1) : three[n].what \notin Heads
  <2> TAKE n \in (off + 1) .. (off + words - 1)
  <2>1. n = off + 1 \/ n \in (off + 2) .. (detail - 1) \/ n = detail
    BY <1>0, <1>8
  <2> QED
    BY <1>7, <1>9, <1>10, <1>11, <2>1
<1>13. kind = "named" =>
         \A n \in (off + 2) .. (off + 1 + NameWords(p.name)) : three[n] = W("name", i)
  <2>1. kind = "named" => detail - 1 = off + 1 + NameWords(p.name)
    BY <1>0, <1>2, <1>6, SMTT(30)
  <2> QED
    BY <1>10, <2>1
<1>14. off' = off + words /\ DOMAIN three = 0 .. (off + words - 1)
  BY <1>1, <1>6, <1>7, <1>8
<1> QED
  BY <1>1, <1>7, <1>8, <1>9, <1>11, <1>12, <1>13, <1>14 DEF Appended

\* Two words written behind the last one.
LEMMA TwoWritten ==
  ASSUME NEW buf, NEW off \in Nat, DOMAIN buf = 0 .. (off - 1), NEW a, NEW b
  PROVE  /\ DOMAIN Write(buf, off, <<a, b>>) = 0 .. (off + 2 - 1)
         /\ \A n \in 0 .. (off - 1) : Write(buf, off, <<a, b>>)[n] = buf[n]
         /\ Write(buf, off, <<a, b>>)[off] = a
         /\ Write(buf, off, <<a, b>>)[off + 1] = b
<1> DEFINE ws == <<a, b>>
           new == Write(buf, off, ws)
<1>1. Len(ws) = 2 /\ ws[1] = a /\ ws[2] = b
  OBVIOUS
<1> HIDE DEF ws, new
<1>2. /\ DOMAIN new = 0 .. (off + 2 - 1)
      /\ \A n \in 0 .. (off - 1) : new[n] = buf[n]
      /\ \A k \in 1 .. 2 : new[off + k - 1] = ws[k]
  <2>1. DOMAIN buf = 0 .. (off - 1) /\ Len(ws) \in Nat
    BY <1>1
  <2>2. /\ DOMAIN Write(buf, off, ws) = 0 .. (off + Len(ws) - 1)
        /\ \A n \in 0 .. (off - 1) : Write(buf, off, ws)[n] = buf[n]
        /\ \A k \in 1 .. Len(ws) : Write(buf, off, ws)[off + k - 1] = ws[k]
    BY <2>1, Written
  <2> QED
    BY <1>1, <2>2, Zenon DEF new
<1>3. new[off] = a /\ new[off + 1] = b
  <2>1. new[off + 1 - 1] = ws[1] /\ new[off + 2 - 1] = ws[2]
    BY <1>2
  <2>2. off + 1 - 1 = off /\ off + 2 - 1 = off + 1
    OBVIOUS
  <2> QED
    BY <1>1, <2>1, <2>2
<1> QED
  BY <1>2, <1>3 DEF new, ws

\* The entries of two words.
LEMMA TwoAppended ==
  ASSUME BootInv, NEW kind, kind \notin {"extended", "named"}, NEW spare,
         NEW what, what \notin Heads, NEW name,
         dcc_init_offset' = dcc_init_offset + 2,
         BUF_INIT' = Write(BUF_INIT, dcc_init_offset, <<Status(kind, spare, i), W(what, i)>>)
  PROVE  Appended(kind, spare, 2, name)
<1> DEFINE off == dcc_init_offset
           first == Status(kind, spare, i)
           second == W(what, i)
<1>0. off \in Nat /\ DOMAIN BUF_INIT = 0 .. (off - 1)
  BY DEF BootInv
<1>1. second.what \notin Heads /\ second.dev = i
  BY DEF W
<1> HIDE DEF first, second
<1>2. /\ DOMAIN BUF_INIT' = 0 .. (off + 2 - 1)
      /\ \A n \in 0 .. (off - 1) : BUF_INIT'[n] = BUF_INIT[n]
      /\ BUF_INIT'[off] = first /\ BUF_INIT'[off + 1] = second
  <2>1. BUF_INIT' = Write(BUF_INIT, off, <<first, second>>)
    BY DEF first, second
  <2>2. /\ DOMAIN Write(BUF_INIT, off, <<first, second>>) = 0 .. (off + 2 - 1)
        /\ \A n \in 0 .. (off - 1) : Write(BUF_INIT, off, <<first, second>>)[n] = BUF_INIT[n]
        /\ Write(BUF_INIT, off, <<first, second>>)[off] = first
        /\ Write(BUF_INIT, off, <<first, second>>)[off + 1] = second
    BY <1>0, TwoWritten
  <2> QED
    BY <2>1, <2>2, Zenon
<1>3. \A n \in (off + 1) .. (off + 2 - 1) : BUF_INIT'[n].what \notin Heads
  <2> TAKE n \in (off + 1) .. (off + 2 - 1)
  <2>1. n = off + 1
    BY <1>0
  <2> QED
    BY <1>1, <1>2, <2>1
<1> QED
  BY <1>1, <1>2, <1>3 DEF Appended, first

-----------------------------------------------------------------------------
(* The invariant.                                                          *)

\* The entry of device d starts at word o.
Entry(o, d) ==
  /\ BUF_INIT[o] = Status(EntryKind(d), mem_has_spare[d], d)
  /\ BUF_INIT[o + 1].dev = d
  /\ EntryKind(d) = "named" =>
       \A n \in (o + 2) .. (o + 1 + NameWords(mem[d].name)) : BUF_INIT[n] = W("name", d)
  /\ EntryKind(d) \in {"extended", "named"} =>
       BUF_INIT[o + WordsOf(mem[d]) - 1] = W("detail", d)

\* The entries written so far start where s says, one behind the other.
Starts(s) ==
  /\ s \in [1 .. i -> Nat] /\ s[1] = 0
  /\ s[i] + (IF ready THEN 2 ELSE 0) = dcc_init_offset
  /\ \A d \in 1 .. (i - 1) :
       s[d + 1] = s[d] + WordsOf(mem[d]) /\ s[d + 1] <= s[i] /\ Entry(s[d], d)
  /\ ready => BUF_INIT[s[i]] = Status("buffer", 0, 0)

\* The devices probed so far are those the table describes.
Described ==
  /\ DRL_Flash_Detected <=> \E d \in 1 .. (i - 1) : mem[d].type # "NONE"
  /\ \A n \in DOMAIN BUF_INIT :
       BUF_INIT[n].what \in Heads =>
         BUF_INIT[n].dev \in 1 .. (i - 1) /\ mem[BUF_INIT[n].dev].type # "NONE"

TableInv ==
  /\ BootInv
  /\ mem \in [1 .. DEVICES -> [type : MemTypes, name : 0 .. MAX_NAME]]
  /\ mem_has_spare \in [1 .. DEVICES -> {0, 1}]
  /\ DRL_Flash_Detected \in BOOLEAN
  /\ \E s : Starts(s)
  /\ Described

\* An entry has room for its status words and what follows them.
LEMMA EntryWords ==
  ASSUME NEW m \in [type : MemTypes, name : 0 .. MAX_NAME]
  PROVE  /\ WordsOf(m) \in Nat /\ WordsOf(m) >= 2 /\ WordsOf(m) <= Room
         /\ KindOf(m) \in {"none", "named", "page", "extended"}
         /\ KindOf(m) = "none" <=> m.type = "NONE"
         /\ KindOf(m) = "named" =>
              WordsOf(m) = 3 + NameWords(m.name) /\ NameWords(m.name) \in Nat
         /\ KindOf(m) = "extended" => WordsOf(m) = 3
         /\ KindOf(m) \in {"none", "page"} => WordsOf(m) = 2
<1>1. /\ NameWords(m.name) \in Nat /\ NameWords(m.name) <= (MAX_NAME + 4) \div 4
  BY NameSpan
<1>2. Room = 3 + (MAX_NAME + 4) \div 4 /\ (MAX_NAME + 4) \div 4 \in Nat
  BY DevicesAssumption DEF Room
<1>3. WordsOf(m) \in Nat /\ WordsOf(m) >= 2 /\ WordsOf(m) <= Room
  BY <1>1, <1>2 DEF WordsOf
<1> QED
  BY <1>1, <1>3 DEF WordsOf, KindOf

\* A device probed and listed uses up no more than its room.
LEMMA ListedFits ==
  ASSUME BootInv, NEW p, NEW spare, Listed(p, spare)
  PROVE  BootInv'
<1> DEFINE off == dcc_init_offset
           n == WordsOf(Probed(p))
<1>0. /\ DEVICES \in Nat /\ off \in Nat /\ i \in Nat /\ i <= DEVICES + 1 /\ i >= 1
      /\ n \in Nat /\ n <= Room /\ Room \in Nat
      /\ i <= DEVICES /\ ~ready /\ i' = i + 1 /\ ready' = ready
      /\ off' = off + n /\ DOMAIN BUF_INIT' = 0 .. (off + n - 1)
  BY DevicesAssumption, EntryWords DEF BootInv, Listed, Step, Appended, Room
<1> HIDE DEF n
<1>1. (i - 1) * Room + Room = i * Room /\ (i - 1) * Room \in Nat
  BY <1>0, RoomAdds
<1>2. off <= (i - 1) * Room
  BY <1>0, <1>1 DEF BootInv
<1>3. off + n <= i * Room
  BY <1>0, <1>1, <1>2
<1>4. i' \in 1 .. (DEVICES + 1) /\ i' - 1 = i
  BY <1>0
<1>5. off' <= (i' - 1) * Room + (IF ready' THEN 2 ELSE 0)
  BY <1>0, <1>1, <1>3, <1>4
<1> QED
  BY <1>0, <1>4, <1>5 DEF BootInv

\* Its entry stands behind the others, which stay as they were.
LEMMA ListedStarts ==
  ASSUME TableInv, NEW p, NEW spare, Listed(p, spare)
  PROVE  /\ mem' \in [1 .. DEVICES -> [type : MemTypes, name : 0 .. MAX_NAME]]
         /\ mem_has_spare' \in [1 .. DEVICES -> {0, 1}]
         /\ \E s : Starts(s)'
<1>0. PICK j, off : j = i /\ off = dcc_init_offset
  OBVIOUS
<1> DEFINE m == Probed(p)
           n == WordsOf(m)
<1>1. /\ i \in 1 .. DEVICES /\ ~ready /\ i' = i + 1 /\ ~ready' /\ off \in Nat
      /\ DOMAIN BUF_INIT = 0 .. (off - 1) /\ DEVICES \in Nat
      /\ mem' = [mem EXCEPT ![i] = m] /\ mem_has_spare' = [mem_has_spare EXCEPT ![i] = spare]
      /\ m \in [type : MemTypes, name : 0 .. MAX_NAME] /\ spare \in {0, 1}
      /\ m.name = p.name /\ Appended(KindOf(m), spare, n, p.name)
  BY <1>0, DevicesAssumption DEF TableInv, BootInv, Listed, Step, Probed
<1> HIDE DEF m
<1>2. /\ n \in Nat /\ n >= 2
      /\ KindOf(m) = "named" => n = 3 + NameWords(m.name)
  BY <1>1, EntryWords
<1> HIDE DEF n
<1>3. /\ mem' \in [1 .. DEVICES -> [type : MemTypes, name : 0 .. MAX_NAME]]
      /\ mem_has_spare' \in [1 .. DEVICES -> {0, 1}]
      /\ mem'[i] = m /\ mem_has_spare'[i] = spare
      /\ \A d \in 1 .. (i - 1) : mem'[d] = mem[d] /\ mem_has_spare'[d] = mem_has_spare[d]
  BY <1>1 DEF TableInv
<1>4. PICK s : Starts(s)
  BY DEF TableInv
<1>5. /\ s \in [1 .. i -> Nat] /\ s[1] = 0 /\ s[i] = off
      /\ \A d \in 1 .. (i - 1) :
           s[d + 1] = s[d] + WordsOf(mem[d]) /\ s[d + 1] <= s[i] /\ Entry(s[d], d)
  BY <1>0, <1>1, <1>4 DEF Starts
<1> DEFINE t == [d \in 1 .. (j + 1) |-> IF d = j + 1 THEN off + n ELSE s[d]]
<1>6. /\ t \in [1 .. (i + 1) -> Nat] /\ t[i + 1] = off + n
      /\ \A d \in 1 .. i : t[d] = s[d]
  BY <1>0, <1>1, <1>2, <1>5
<1> HIDE DEF t
<1>7. t[1] = 0 /\ t[i'] + (IF ready' THEN 2 ELSE 0) = dcc_init_offset' /\ t \in [1 .. i' -> Nat]
  BY <1>0, <1>1, <1>2, <1>5, <1>6, SMTT(30) DEF Appended
<1>8. /\ \A k \in 0 .. (off - 1) : BUF_INIT'[k] = BUF_INIT[k]
      /\ BUF_INIT'[off] = Status(KindOf(m), spare, i) /\ BUF_INIT'[off + 1].dev = i
      /\ KindOf(m) = "named" =>
           \A k \in (off + 2) .. (off + 1 + NameWords(m.name)) : BUF_INIT'[k] = W("name", i)
      /\ KindOf(m) \in {"extended", "named"} => BUF_INIT'[off + n - 1] = W("detail", i)
  BY <1>0, <1>1 DEF Appended
<1>9. Entry(off, j)'
  <2>1. EntryKind(j)' = KindOf(m) /\ mem'[j] = m /\ mem_has_spare'[j] = spare
    BY <1>0, <1>3 DEF EntryKind, KindOf
  <2> QED
    BY <1>0, <1>8, <2>1 DEF Entry, n
<1>10. ASSUME NEW d \in 1 .. (i - 1)
       PROVE  t[d + 1] = t[d] + WordsOf(mem'[d]) /\ t[d + 1] <= t[i'] /\ Entry(t[d], d)'
  <2>1. t[d] = s[d] /\ t[d + 1] = s[d + 1] /\ s[d + 1] <= off /\ s[d] \in Nat
    BY <1>1, <1>5, <1>6
  <2>2. t[d + 1] <= t[i']
    BY <1>1, <1>2, <1>5, <1>6, <2>1
  <2>3. mem'[d] = mem[d]
    BY <1>3
  <2>4. Entry(s[d], d)'
    <3> DEFINE o == s[d]
               w == WordsOf(mem[d])
    <3>1. /\ w \in Nat /\ w >= 2
          /\ EntryKind(d) = KindOf(mem[d])
          /\ EntryKind(d) = "named" => w = 3 + NameWords(mem[d].name)
          /\ EntryKind(d) = "named" => NameWords(mem[d].name) \in Nat
      <4>1. mem[d] \in [type : MemTypes, name : 0 .. MAX_NAME]
        BY <1>1 DEF TableInv
      <4>2. EntryKind(d) = KindOf(mem[d])
        BY DEF EntryKind, KindOf
      <4> QED
        BY <4>1, <4>2, EntryWords
    <3>2. o \in Nat /\ o + w <= off /\ Entry(o, d)
      BY <1>5, <2>1
    <3>3. EntryKind(d)' = EntryKind(d)
      BY <2>3 DEF EntryKind
    <3>4. mem_has_spare'[d] = mem_has_spare[d]
      BY <1>3
    <3> HIDE DEF o, w
    <3>5. /\ o \in 0 .. (off - 1) /\ o + 1 \in 0 .. (off - 1) /\ o + w - 1 \in 0 .. (off - 1)
      BY <1>1, <3>1, <3>2
    <3>6. BUF_INIT'[o] = BUF_INIT[o] /\ BUF_INIT'[o + 1] = BUF_INIT[o + 1]
          /\ BUF_INIT'[o + w - 1] = BUF_INIT[o + w - 1]
      BY <1>8, <3>5
    <3>7. ASSUME EntryKind(d) = "named",
                 NEW k \in (o + 2) .. (o + 1 + NameWords(mem[d].name))
          PROVE  BUF_INIT'[k] = W("name", d)
      <4>1. k \in 0 .. (off - 1)
        BY <1>1, <3>1, <3>2, <3>7
      <4>2. BUF_INIT[k] = W("name", d)
        BY <3>2, <3>7 DEF Entry
      <4> QED
        BY <1>8, <4>1, <4>2
    <3>8. EntryKind(d) \in {"extended", "named"} => BUF_INIT[o + w - 1] = W("detail", d)
      BY <3>2 DEF Entry, w
    <3>9. BUF_INIT[o] = Status(EntryKind(d), mem_has_spare[d], d) /\ BUF_INIT[o + 1].dev = d
      BY <3>2 DEF Entry
    <3>10. Entry(o, d)'
      BY <2>3, <3>3, <3>4, <3>6, <3>7, <3>8, <3>9 DEF Entry, w
    <3> QED
      BY <3>10 DEF o
  <2> QED
    BY <1>5, <2>1, <2>2, <2>3, <2>4
<1>11. ASSUME NEW d \in 1 .. (i' - 1)
       PROVE  t[d + 1] = t[d] + WordsOf(mem'[d]) /\ t[d + 1] <= t[i'] /\ Entry(t[d], d)'
  <2>1. CASE d \in 1 .. (i - 1)
    BY <1>10, <2>1
  <2>2. CASE d = i
    <3>1. t[i] = off /\ t[i + 1] = off + n /\ i' = i + 1 /\ off + n <= off + n
      BY <1>1, <1>2, <1>5, <1>6
    <3>2. d = j /\ t[d] = off /\ t[d + 1] = off + n /\ mem'[d] = m
      BY <1>0, <1>3, <2>2, <3>1
    <3>3. Entry(t[d], d)'
      BY <1>9, <3>2
    <3> QED
      BY <3>1, <3>2, <3>3 DEF n
  <2> QED
    BY <1>1, <2>1, <2>2
<1>12. Starts(t)'
  BY <1>1, <1>7, <1>11 DEF Starts
<1> QED
  BY <1>3, <1>12

\* The table and the gate go on describing the devices probed.
LEMMA ListedDescribed ==
  ASSUME TableInv, NEW p, NEW spare, Listed(p, spare)
  PROVE  Described' /\ DRL_Flash_Detected' \in BOOLEAN
<1> DEFINE off == dcc_init_offset
           m == Probed(p)
           n == WordsOf(m)
<1>1. /\ i \in 1 .. DEVICES /\ i' = i + 1 /\ off \in Nat
      /\ DOMAIN BUF_INIT = 0 .. (off - 1) /\ DEVICES \in Nat
      /\ mem' = [mem EXCEPT ![i] = m] /\ m \in [type : MemTypes, name : 0 .. MAX_NAME]
      /\ DRL_Flash_Detected' = (DRL_Flash_Detected \/ m.type # "NONE")
      /\ Appended(KindOf(m), spare, n, p.name)
  BY DevicesAssumption DEF TableInv, BootInv, Listed, Step
<1> HIDE DEF m
<1>2. n \in Nat /\ n >= 2 /\ (KindOf(m) = "none" <=> m.type = "NONE")
  BY <1>1, EntryWords
<1> HIDE DEF n
<1>3. mem'[i] = m /\ \A d \in 1 .. (i - 1) : mem'[d] = mem[d]
  BY <1>1 DEF TableInv
<1>4. /\ DRL_Flash_Detected <=> \E d \in 1 .. (i - 1) : mem[d].type # "NONE"
      /\ \A k \in DOMAIN BUF_INIT :
           BUF_INIT[k].what \in Heads =>
             BUF_INIT[k].dev \in 1 .. (i - 1) /\ mem[BUF_INIT[k].dev].type # "NONE"
  BY DEF TableInv, Described
<1>5. /\ DOMAIN BUF_INIT' = 0 .. (off + n - 1)
      /\ \A k \in 0 .. (off - 1) : BUF_INIT'[k] = BUF_INIT[k]
      /\ BUF_INIT'[off] = Status(KindOf(m), spare, i)
      /\ \A k \in (off + 1) .. (off + n - 1) : BUF_INIT'[k].what \notin Heads
  BY <1>1 DEF Appended
<1>6. DRL_Flash_Detected' <=> \E d \in 1 .. (i' - 1) : mem'[d].type # "NONE"
  <2>1. 1 .. (i' - 1) = 1 .. (i - 1) \cup {i}
    BY <1>1
  <2>2. (\E d \in 1 .. (i' - 1) : mem'[d].type # "NONE")
          <=> (\E d \in 1 .. (i - 1) : mem'[d].type # "NONE") \/ mem'[i].type # "NONE"
    BY <2>1, Zenon
  <2>3. (\E d \in 1 .. (i - 1) : mem'[d].type # "NONE")
          <=> \E d \in 1 .. (i - 1) : mem[d].type # "NONE"
    BY <1>3
  <2> QED
    BY <1>1, <1>3, <1>4, <2>2, <2>3, Zenon
<1>7. ASSUME NEW k \in DOMAIN BUF_INIT', BUF_INIT'[k].what \in Heads
      PROVE  BUF_INIT'[k].dev \in 1 .. (i' - 1) /\ mem'[BUF_INIT'[k].dev].type # "NONE"
  <2>1. CASE k \in 0 .. (off - 1)
    <3>1. BUF_INIT[k].what \in Heads /\ k \in DOMAIN BUF_INIT /\ BUF_INIT'[k] = BUF_INIT[k]
      BY <1>1, <1>5, <1>7, <2>1
    <3>2. BUF_INIT[k].dev \in 1 .. (i - 1) /\ mem[BUF_INIT[k].dev].type # "NONE"
      BY <1>4, <3>1
    <3> QED
      BY <1>1, <1>3, <3>1, <3>2
  <2>2. CASE k = off
    <3>1. BUF_INIT'[k].what = KindOf(m) /\ BUF_INIT'[k].dev = i
      BY <1>5, <2>2 DEF Status
    <3>2. m.type # "NONE"
      BY <1>2, <1>7, <3>1 DEF Heads
    <3> QED
      BY <1>1, <1>3, <3>1, <3>2
  <2>3. CASE k \in (off + 1) .. (off + n - 1)
    BY <1>5, <1>7, <2>3
  <2> QED
    BY <1>1, <1>2, <1>5, <2>1, <2>2, <2>3
<1> QED
  BY <1>1, <1>6, <1>7 DEF Described, TableInv

\* Each way to list a device does.
LEMMA Lists ==
  ASSUME BootInv, NEW p, p.name \in 0 .. MAX_NAME, Probed(p).type \in MemTypes,
         NEW spare \in {0, 1}, Step(p, spare),
         \/ /\ Probed(p).type # "NONE" /\ (Probed(p).type = "NAND" => p.name # 0)
            /\ WriteExtmem(p, spare)
         \/ /\ Probed(p).type = "NAND" /\ p.name = 0 /\ spare = 1
            /\ BUF_INIT' = Write(BUF_INIT, dcc_init_offset,
                                 <<Status("page", 1, i), W("id", i)>>)
            /\ dcc_init_offset' = dcc_init_offset + 2
            /\ DRL_Flash_Detected' = TRUE
         \/ /\ Probed(p).type = "NONE" /\ spare = 0
            /\ BUF_INIT' = Write(BUF_INIT, dcc_init_offset,
                                 <<Status("none", 0, i), W("zero", i)>>)
            /\ dcc_init_offset' = dcc_init_offset + 2
            /\ UNCHANGED DRL_Flash_Detected,
         DRL_Flash_Detected \in BOOLEAN
  PROVE  Listed(p, spare)
<1>1. /\ Probed(p).name = p.name
      /\ Probed(p) \in [type : MemTypes, name : 0 .. MAX_NAME]
  BY DEF Probed
<1> DEFINE m == Probed(p)
<1> HIDE DEF m
<1>2. CASE /\ m.type # "NONE" /\ (m.type = "NAND" => p.name # 0)
           /\ WriteExtmem(p, spare)
  <2>1. /\ KindOf(m) = (IF p.name # 0 THEN "named" ELSE "extended")
        /\ WordsOf(m) = (IF p.name # 0 THEN 3 + NameWords(p.name) ELSE 3)
    BY <1>1, <1>2 DEF KindOf, WordsOf, m
  <2>2. Appended(KindOf(m), spare, WordsOf(m), p.name) /\ DRL_Flash_Detected' = TRUE
    BY <1>2, <2>1, ExtmemAppends
  <2>3. DRL_Flash_Detected' = (DRL_Flash_Detected \/ m.type # "NONE")
    BY <1>2, <2>2
  <2> QED
    BY <1>1, <2>2, <2>3 DEF Listed, m
<1>3. ASSUME NEW kind \in {"page", "none"}, NEW what \in {"id", "zero"},
             KindOf(m) = kind, WordsOf(m) = 2,
             DRL_Flash_Detected' = (DRL_Flash_Detected \/ m.type # "NONE"),
             dcc_init_offset' = dcc_init_offset + 2,
             BUF_INIT' = Write(BUF_INIT, dcc_init_offset,
                               <<Status(kind, spare, i), W(what, i)>>)
      PROVE  Listed(p, spare)
  <2>1. kind \notin {"extended", "named"} /\ what \notin Heads
    BY DEF Heads
  <2>2. Appended(kind, spare, 2, p.name)
    BY <1>3, <2>1, TwoAppended
  <2> QED
    BY <1>1, <1>3, <2>2 DEF Listed, m
<1>4. CASE /\ m.type = "NAND" /\ p.name = 0 /\ spare = 1
           /\ BUF_INIT' = Write(BUF_INIT, dcc_init_offset,
                                <<Status("page", 1, i), W("id", i)>>)
           /\ dcc_init_offset' = dcc_init_offset + 2
           /\ DRL_Flash_Detected' = TRUE
  <2>1. KindOf(m) = "page" /\ WordsOf(m) = 2
    BY <1>1, <1>4 DEF KindOf, WordsOf, m
  <2>2. DRL_Flash_Detected' = (DRL_Flash_Detected \/ m.type # "NONE")
    BY <1>4
  <2> QED
    BY <1>3, <1>4, <2>1, <2>2
<1>5. CASE /\ m.type = "NONE" /\ spare = 0
           /\ BUF_INIT' = Write(BUF_INIT, dcc_init_offset,
                                <<Status("none", 0, i), W("zero", i)>>)
           /\ dcc_init_offset' = dcc_init_offset + 2
           /\ UNCHANGED DRL_Flash_Detected
  <2>1. KindOf(m) = "none" /\ WordsOf(m) = 2
    BY <1>1, <1>5 DEF KindOf, WordsOf, m
  <2>2. DRL_Flash_Detected' = (DRL_Flash_Detected \/ m.type # "NONE")
    BY <1>5
  <2> QED
    BY <1>3, <1>5, <2>1, <2>2
<1> QED
  BY <1>2, <1>4, <1>5 DEF m

\* The words that end the table leave its entries alone.
LEMMA Closed ==
  ASSUME TableInv, CloseTable
  PROVE  TableInv'
<1>0. PICK j, off : j = i /\ off = dcc_init_offset
  OBVIOUS
<1>1. /\ ~ready /\ ready' = TRUE /\ i = DEVICES + 1 /\ off \in Nat /\ DEVICES \in Nat
      /\ dcc_init_offset' = off + 2
      /\ UNCHANGED <<i, mem, mem_has_spare, DRL_Flash_Detected>>
      /\ DOMAIN BUF_INIT = 0 .. (off - 1)
      /\ BUF_INIT' = Write(BUF_INIT, off, <<Status("buffer", 0, 0), W("size", 0)>>)
  BY <1>0, DevicesAssumption DEF CloseTable, TableInv, BootInv
<1>2. /\ DOMAIN BUF_INIT' = 0 .. (off + 2 - 1)
      /\ \A n \in 0 .. (off - 1) : BUF_INIT'[n] = BUF_INIT[n]
      /\ BUF_INIT'[off] = Status("buffer", 0, 0) /\ BUF_INIT'[off + 1] = W("size", 0)
  <2> DEFINE first == Status("buffer", 0, 0)
             second == W("size", 0)
  <2> HIDE DEF first, second
  <2>1. /\ DOMAIN Write(BUF_INIT, off, <<first, second>>) = 0 .. (off + 2 - 1)
        /\ \A n \in 0 .. (off - 1) : Write(BUF_INIT, off, <<first, second>>)[n] = BUF_INIT[n]
        /\ Write(BUF_INIT, off, <<first, second>>)[off] = first
        /\ Write(BUF_INIT, off, <<first, second>>)[off + 1] = second
    BY <1>1, TwoWritten
  <2> QED
    BY <1>1, <2>1, Zenon DEF first, second
<1>3. BootInv'
  <2>1. (i - 1) * Room \in Nat
    BY <1>1, DevicesAssumption DEF Room
  <2>2. off <= (i - 1) * Room
    BY <1>0, <1>1, <2>1 DEF TableInv, BootInv
  <2> QED
    BY <1>1, <1>2, <2>1, <2>2 DEF TableInv, BootInv
<1>4. PICK s : Starts(s)
  BY DEF TableInv
<1>5. /\ s \in [1 .. i -> Nat] /\ s[1] = 0 /\ s[i] = off
      /\ \A d \in 1 .. (i - 1) :
           s[d + 1] = s[d] + WordsOf(mem[d]) /\ s[d + 1] <= s[i] /\ Entry(s[d], d)
  BY <1>0, <1>1, <1>4 DEF Starts
<1>6. ASSUME NEW d \in 1 .. (i - 1) PROVE Entry(s[d], d)'
  <2> DEFINE o == s[d]
             w == WordsOf(mem[d])
  <2>1. /\ w \in Nat /\ w >= 2
        /\ EntryKind(d) = KindOf(mem[d])
        /\ EntryKind(d) = "named" =>
             w = 3 + NameWords(mem[d].name) /\ NameWords(mem[d].name) \in Nat
    <3>1. mem[d] \in [type : MemTypes, name : 0 .. MAX_NAME]
      BY <1>1 DEF TableInv
    <3>2. EntryKind(d) = KindOf(mem[d])
      BY DEF EntryKind, KindOf
    <3> QED
      BY <3>1, <3>2, EntryWords
  <2>2. o \in Nat /\ o + w <= off /\ Entry(o, d)
    BY <1>1, <1>5
  <2>3. EntryKind(d)' = EntryKind(d)
    BY <1>1 DEF EntryKind
  <2> HIDE DEF o, w
  <2>4. /\ o \in 0 .. (off - 1) /\ o + 1 \in 0 .. (off - 1) /\ o + w - 1 \in 0 .. (off - 1)
    BY <1>1, <2>1, <2>2
  <2>5. /\ BUF_INIT'[o] = BUF_INIT[o] /\ BUF_INIT'[o + 1] = BUF_INIT[o + 1]
        /\ BUF_INIT'[o + w - 1] = BUF_INIT[o + w - 1]
    BY <1>2, <2>4
  <2>6. ASSUME EntryKind(d) = "named",
               NEW k \in (o + 2) .. (o + 1 + NameWords(mem[d].name))
        PROVE  BUF_INIT'[k] = W("name", d)
    <3>1. k \in 0 .. (off - 1)
      BY <1>1, <2>1, <2>2, <2>6
    <3>2. BUF_INIT[k] = W("name", d)
      BY <2>2, <2>6 DEF Entry
    <3> QED
      BY <1>2, <3>1, <3>2
  <2>7. /\ EntryKind(d) \in {"extended", "named"} => BUF_INIT[o + w - 1] = W("detail", d)
        /\ BUF_INIT[o] = Status(EntryKind(d), mem_has_spare[d], d) /\ BUF_INIT[o + 1].dev = d
    BY <2>2 DEF Entry, w
  <2>8. Entry(o, d)'
    BY <1>1, <2>3, <2>5, <2>6, <2>7 DEF Entry, w
  <2> QED
    BY <2>8 DEF o
<1>7. Starts(s)'
  BY <1>0, <1>1, <1>2, <1>5, <1>6 DEF Starts
<1>8. Described'
  <2>1. ASSUME NEW k \in DOMAIN BUF_INIT', BUF_INIT'[k].what \in Heads
        PROVE  k \in DOMAIN BUF_INIT /\ BUF_INIT'[k] = BUF_INIT[k]
    <3>1. W("size", 0).what \notin Heads /\ Status("buffer", 0, 0).what \notin Heads
      BY DEF W, Status, Heads
    <3>2. k # off /\ k # off + 1
      BY <1>2, <2>1, <3>1
    <3> QED
      BY <1>1, <1>2, <2>1, <3>2
  <2>2. /\ DRL_Flash_Detected <=> \E d \in 1 .. (i - 1) : mem[d].type # "NONE"
        /\ \A k \in DOMAIN BUF_INIT :
             BUF_INIT[k].what \in Heads =>
               BUF_INIT[k].dev \in 1 .. (i - 1) /\ mem[BUF_INIT[k].dev].type # "NONE"
    BY DEF TableInv, Described
  <2>3. ASSUME NEW k \in DOMAIN BUF_INIT', BUF_INIT'[k].what \in Heads
        PROVE  BUF_INIT'[k].dev \in 1 .. (i' - 1) /\ mem'[BUF_INIT'[k].dev].type # "NONE"
    BY <1>1, <2>1, <2>2, <2>3
  <2> QED
    BY <1>1, <2>2, <2>3 DEF Described
<1> QED
  BY <1>1, <1>3, <1>7, <1>8 DEF TableInv

\* Nothing is listed when dcc_main starts.
LEMMA TableInit == Init => TableInv
<1> SUFFICES ASSUME Init PROVE TableInv
  OBVIOUS
<1>1. BootInv
  BY BootInit
<1>2. /\ i = 1 /\ mem = [d \in 1 .. DEVICES |-> Unprobed] /\ dcc_init_offset = 0
      /\ mem_has_spare = [d \in 1 .. DEVICES |-> 0] /\ DOMAIN BUF_INIT = {}
      /\ DRL_Flash_Detected = FALSE /\ ready = FALSE
  BY DEF Init
<1>3. Unprobed \in [type : MemTypes, name : 0 .. MAX_NAME]
  BY DevicesAssumption DEF Unprobed, MemTypes
<1>4. 1 .. (i - 1) = {}
  BY <1>2
<1>5. Starts([d \in 1 .. 1 |-> 0])
  BY <1>2, <1>4 DEF Starts
<1>6. Described
  BY <1>2, <1>4 DEF Described
<1> QED
  BY <1>1, <1>2, <1>3, <1>5, <1>6 DEF TableInv

\* Every step of dcc_main keeps the invariant.
LEMMA TableNext == TableInv /\ [Next]_vars => TableInv'
<1> SUFFICES ASSUME TableInv, [Next]_vars PROVE TableInv'
  OBVIOUS
<1>1. ASSUME NEW p, NEW spare, Listed(p, spare) PROVE TableInv'
  BY <1>1, ListedFits, ListedStarts, ListedDescribed DEF TableInv
<1>2. \A p \in Probes : p.name \in 0 .. MAX_NAME /\ Probed(p).type \in MemTypes
  BY ProbesAssumption DEF Probed, MemTypes
<1>3. BootInv /\ DRL_Flash_Detected \in BOOLEAN
  BY DEF TableInv
<1>4. CASE ListExtended
  <2>1. PICK p \in Probes :
          /\ Probed(p).type # "NONE" /\ (Probed(p).type = "NAND" => p.name # 0)
          /\ \E spare \in {0, 1} : Step(p, spare) /\ WriteExtmem(p, spare)
    BY <1>4 DEF ListExtended
  <2>2. PICK spare \in {0, 1} : Step(p, spare) /\ WriteExtmem(p, spare)
    BY <2>1
  <2>3. Listed(p, spare)
    BY <1>2, <1>3, <2>1, <2>2, Lists
  <2> QED
    BY <1>1, <2>3
<1>5. CASE ListNand
  <2>1. PICK p \in Probes :
          /\ Step(p, 1) /\ Probed(p).type = "NAND" /\ p.name = 0
          /\ BUF_INIT' = Write(BUF_INIT, dcc_init_offset,
                               <<Status("page", 1, i), W("id", i)>>)
          /\ dcc_init_offset' = dcc_init_offset + 2
          /\ DRL_Flash_Detected' = TRUE
    BY <1>5 DEF ListNand
  <2>2. Listed(p, 1)
    BY <1>2, <1>3, <2>1, Lists
  <2> QED
    BY <1>1, <2>2
<1>6. CASE ListNone
  <2>1. PICK p \in Probes :
          /\ Step(p, 0) /\ Probed(p).type = "NONE"
          /\ BUF_INIT' = Write(BUF_INIT, dcc_init_offset,
                               <<Status("none", 0, i), W("zero", i)>>)
          /\ dcc_init_offset' = dcc_init_offset + 2
          /\ UNCHANGED DRL_Flash_Detected
    BY <1>6 DEF ListNone
  <2>2. Listed(p, 0)
    BY <1>2, <1>3, <2>1, Lists
  <2> QED
    BY <1>1, <2>2
<1>7. CASE CloseTable
  BY <1>7, Closed
<1>8. CASE MainLoop \/ UNCHANGED vars
  <2>1. UNCHANGED vars
    BY <1>8 DEF MainLoop
  <2>2. PICK s : Starts(s)
    BY DEF TableInv
  <2>3. \A o, d : Entry(o, d)' = Entry(o, d)
    BY <2>1 DEF vars, Entry, EntryKind
  <2>4. Starts(s)'
    BY <2>1, <2>2, <2>3 DEF vars, Starts
  <2>5. Described' /\ BootInv'
    BY <2>1 DEF vars, TableInv, BootInv, Described
  <2> QED
    BY <2>1, <2>4, <2>5 DEF vars, TableInv
<1> QED
  BY <1>4, <1>5, <1>6, <1>7, <1>8 DEF Next

-----------------------------------------------------------------------------
(* What the host reads.                                                    *)

\* The invariant holds at every moment of dcc_main.
LEMMA TableAlways == Spec => []TableInv
<1>1. Init => TableInv
  BY TableInit
<1>2. TableInv /\ [Next]_vars => TableInv'
  BY TableNext
<1> QED
  BY <1>1, <1>2, PTL DEF Spec

\* A set of naturals has a least element.
LEMMA LeastWord ==
  ASSUME NEW S \in SUBSET Nat, S # {}
  PROVE  \E m \in S : \A k \in S : m <= k
<1>1. PICK m \in S : \A k \in S : ~ (<<k, m>> \in OpToRel(<, Nat))
  BY NatLessThanWellFounded, WFMin
<1>2. \A k \in S : ~ (<<k, m>> \in {ss \in Nat \X Nat : ss[1] < ss[2]})
  BY <1>1 DEF OpToRel
<1>3. ASSUME NEW k \in S PROVE m <= k
  <2>1. <<k, m>> \in Nat \X Nat /\ k \in Nat /\ m \in Nat
    OBVIOUS
  <2>2. ~ (<<k, m>>[1] < <<k, m>>[2])
    BY <1>2, <2>1
  <2> QED
    BY <2>1, <2>2
<1> QED
  BY <1>3

\* From an entry the host gets to the word behind it.
LEMMA EntryEnds ==
  ASSUME TableInv, NEW d \in 1 .. DEVICES, NEW o \in Nat, Entry(o, d)
  PROVE  EntryAfter(o) = o + WordsOf(mem[d])
<1>1. BUF_INIT[o].what = EntryKind(d) /\ BUF_INIT[o].dev = d
  BY DEF Entry, Status
<1>2. EntryKind(d) = KindOf(mem[d])
  BY DEF EntryKind, KindOf
<1>3. mem[d] \in [type : MemTypes, name : 0 .. MAX_NAME]
  BY DEF TableInv
<1> DEFINE name == mem[d].name
<1>4. name \in Nat
  BY <1>3, DevicesAssumption
<1> HIDE DEF name
<1>5. NameWords(name) = ((1 + name) + 3) \div 4
  BY <1>4 DEF NameWords, Align4
<1>6. /\ KindOf(mem[d]) \in {"none", "named", "page", "extended"}
      /\ KindOf(mem[d]) = "named" => WordsOf(mem[d]) = 3 + NameWords(name)
      /\ NameWords(name) \in Nat
      /\ KindOf(mem[d]) = "extended" => WordsOf(mem[d]) = 3
      /\ KindOf(mem[d]) \in {"none", "page"} => WordsOf(mem[d]) = 2
  <2>1. NameWords(name) \in Nat
    BY <1>4, <1>5
  <2> QED
    BY <1>3, <2>1, EntryWords DEF name
<1>7. EntryAfter(o) =
        IF KindOf(mem[d]) = "named" THEN o + 3 + NameWords(name)
        ELSE IF KindOf(mem[d]) = "extended" THEN o + 3 ELSE o + 2
  BY <1>1, <1>2, <1>5 DEF EntryAfter, name
<1> HIDE DEF KindOf, WordsOf, NameWords
<1> QED
  BY <1>6, <1>7

\* The host finds the entries where the invariant says they start.
LEMMA EntriesFound ==
  ASSUME TableInv, ready, NEW s, Starts(s)
  PROVE  \A d \in 1 .. (DEVICES + 1) : Entries[d] = s[d]
<1>1. /\ i = DEVICES + 1 /\ DEVICES \in Nat
      /\ s \in [1 .. (DEVICES + 1) -> Nat] /\ s[1] = 0
      /\ \A d \in 1 .. DEVICES : s[d + 1] = s[d] + WordsOf(mem[d]) /\ Entry(s[d], d)
  <2>1. /\ s \in [1 .. i -> Nat] /\ s[1] = 0
        /\ \A d \in 1 .. (i - 1) : s[d + 1] = s[d] + WordsOf(mem[d]) /\ Entry(s[d], d)
    BY DEF Starts
  <2>2. i = DEVICES + 1 /\ DEVICES \in Nat
    BY DevicesAssumption DEF TableInv, BootInv
  <2>3. 1 .. (i - 1) = 1 .. DEVICES
    BY <2>2
  <2> QED
    BY <2>1, <2>2, <2>3, Zenon
<1>2. \A d \in 1 .. DEVICES : s[d + 1] = EntryAfter(s[d])
  <2> TAKE d \in 1 .. DEVICES
  <2>1. s[d] \in Nat
    BY <1>1
  <2> QED
    BY <1>1, <2>1, EntryEnds
<1>3. s = [k \in 1 .. (DEVICES + 1) |-> IF k = 1 THEN 0 ELSE EntryAfter(s[k - 1])]
  <2>1. ASSUME NEW k \in 1 .. (DEVICES + 1)
        PROVE  s[k] = IF k = 1 THEN 0 ELSE EntryAfter(s[k - 1])
    <3>1. CASE k = 1
      BY <1>1, <3>1
    <3>2. CASE k # 1
      <4>1. k - 1 \in 1 .. DEVICES /\ (k - 1) + 1 = k
        BY <1>1, <3>2
      <4> QED
        BY <1>2, <3>2, <4>1
    <3> QED
      BY <3>1, <3>2
  <2> QED
    BY <1>1, <2>1
<1>4. Entries = [k \in 1 .. (DEVICES + 1) |-> IF k = 1 THEN 0 ELSE EntryAfter(Entries[k - 1])]
  <2> DEFINE Walk(f) == f = [k \in 1 .. (DEVICES + 1) |->
                               IF k = 1 THEN 0 ELSE EntryAfter(f[k - 1])]
  <2>1. Entries = CHOOSE f : Walk(f)
    BY DEF Entries
  <2>2. Walk(s)
    BY <1>3
  <2> HIDE DEF Walk
  <2>3. Walk(Entries)
    BY <2>1, <2>2
  <2> QED
    BY <2>3 DEF Walk
<1> DEFINE Astray == {d \in 1 .. (DEVICES + 1) : Entries[d] # s[d]}
<1>5. Astray = {}
  <2> SUFFICES ASSUME Astray # {} PROVE FALSE
    OBVIOUS
  <2>1. PICK d \in Astray : \A k \in Astray : d <= k
    <3>1. Astray \in SUBSET Nat
      BY <1>1
    <3> HIDE DEF Astray
    <3> QED
      BY <3>1, LeastWord
  <2>2. d \in 1 .. (DEVICES + 1) /\ Entries[d] # s[d]
    OBVIOUS
  <2>3. d # 1
    BY <1>1, <1>4, <2>2
  <2>4. d - 1 \in 1 .. DEVICES /\ d - 1 \notin Astray /\ (d - 1) + 1 = d
    BY <1>1, <2>1, <2>2, <2>3
  <2>5. Entries[d - 1] = s[d - 1]
    BY <1>1, <2>4
  <2>6. Entries[d] = EntryAfter(Entries[d - 1])
    BY <1>4, <2>2, <2>3
  <2> QED
    BY <1>2, <2>2, <2>4, <2>5, <2>6
<1> QED
  BY <1>5

\* The invariant keeps the table inside BUF_INIT.
LEMMA BootInvBounds == BootInv => TableInBounds
<1> SUFFICES ASSUME BootInv PROVE TableInBounds
  OBVIOUS
<1>0. DEVICES \in Nat /\ Room \in Nat /\ i \in Nat /\ i <= DEVICES + 1 /\ i >= 1
  BY DevicesAssumption DEF BootInv, Room
<1>1. (i - 1) * Room <= DEVICES * Room
  BY <1>0
<1>2. DEVICES * Room + 2 <= BUF_WORDS
  BY TableAssumption DEF Room
<1>3. DEVICES * Room \in Nat /\ (i - 1) * Room \in Nat /\ BUF_WORDS \in Nat
  BY <1>0, TableAssumption
<1>4. dcc_init_offset <= (i - 1) * Room + 2 /\ dcc_init_offset \in Nat
  BY <1>3 DEF BootInv
<1> QED
  BY <1>1, <1>2, <1>3, <1>4 DEF BootInv, TableInBounds

\* A finished table reads back: the entries found are those written.
LEMMA InvReadsBack == TableInv => TableReadsBack
<1> SUFFICES ASSUME TableInv, ready PROVE TableReadsBack
  BY DEF TableReadsBack
<1>1. PICK s : Starts(s)
  BY DEF TableInv
<1>2. \A d \in 1 .. (DEVICES + 1) : Entries[d] = s[d]
  BY <1>1, EntriesFound
<1>3. /\ i = DEVICES + 1 /\ DEVICES \in Nat /\ s \in [1 .. (DEVICES + 1) -> Nat]
      /\ s[DEVICES + 1] + 2 = dcc_init_offset
      /\ BUF_INIT[s[DEVICES + 1]] = Status("buffer", 0, 0)
  BY <1>1, DevicesAssumption DEF TableInv, BootInv, Starts
<1>4. \A d \in 1 .. DEVICES : Entry(s[d], d)
  <2>1. \A d \in 1 .. (i - 1) : Entry(s[d], d)
    BY <1>1 DEF Starts
  <2>2. 1 .. (i - 1) = 1 .. DEVICES
    BY <1>3
  <2> QED
    BY <2>1, <2>2, Zenon
<1>5. ASSUME NEW d \in 1 .. DEVICES
      PROVE  LET o == Entries[d] IN
             /\ BUF_INIT[o] = Status(EntryKind(d), mem_has_spare[d], d)
             /\ BUF_INIT[o + 1].dev = d
             /\ EntryKind(d) = "named" =>
                  \A n \in (o + 2) .. (EntryAfter(o) - 2) : BUF_INIT[n] = W("name", d)
             /\ EntryKind(d) \in {"extended", "named"} =>
                  BUF_INIT[EntryAfter(o) - 1] = W("detail", d)
  <2> DEFINE o == s[d]
             w == WordsOf(mem[d])
  <2>1. o \in Nat /\ Entry(o, d) /\ Entries[d] = o
    BY <1>2, <1>3, <1>4
  <2>2. EntryKind(d) = KindOf(mem[d]) /\ mem[d] \in [type : MemTypes, name : 0 .. MAX_NAME]
    BY DEF EntryKind, KindOf, TableInv
  <2>3. /\ w \in Nat
        /\ EntryKind(d) = "named" =>
             w = 3 + NameWords(mem[d].name) /\ NameWords(mem[d].name) \in Nat
    BY <2>2, EntryWords
  <2>4. EntryAfter(o) = o + w
    BY <2>1, EntryEnds
  <2>5. /\ BUF_INIT[o] = Status(EntryKind(d), mem_has_spare[d], d)
        /\ BUF_INIT[o + 1].dev = d
        /\ EntryKind(d) = "named" =>
             \A n \in (o + 2) .. (o + 1 + NameWords(mem[d].name)) : BUF_INIT[n] = W("name", d)
        /\ EntryKind(d) \in {"extended", "named"} => BUF_INIT[o + w - 1] = W("detail", d)
    BY <2>1 DEF Entry
  <2> HIDE DEF o, w
  <2>6. EntryKind(d) = "named" => EntryAfter(o) - 2 = o + 1 + NameWords(mem[d].name)
    BY <2>1, <2>3, <2>4
  <2>7. EntryAfter(o) - 1 = o + w - 1
    BY <2>1, <2>3, <2>4
  <2> QED
    BY <2>1, <2>5, <2>6, <2>7, Zenon
<1>6. Entries[DEVICES + 1] = s[DEVICES + 1]
  BY <1>2, <1>3
<1> QED
  BY <1>3, <1>5, <1>6, Zenon DEF TableReadsBack

\* Gate, table and size command agree: the heads in the table are those of devices
\* that are there, and the entry of each device that is there has one.
LEMMA InvAgrees == TableInv => DetectionAgrees
<1> SUFFICES ASSUME TableInv, ready PROVE DetectionAgrees
  BY DEF DetectionAgrees
<1>1. PICK s : Starts(s)
  BY DEF TableInv
<1>2. \A d \in 1 .. (DEVICES + 1) : Entries[d] = s[d]
  BY <1>1, EntriesFound
<1>3. /\ i = DEVICES + 1 /\ DEVICES \in Nat /\ DEVICES <= 16
      /\ s \in [1 .. (DEVICES + 1) -> Nat]
      /\ s[DEVICES + 1] + 2 = dcc_init_offset /\ dcc_init_offset \in Nat
      /\ DOMAIN BUF_INIT = 0 .. (dcc_init_offset - 1)
  BY <1>1, DevicesAssumption DEF TableInv, BootInv, Starts
<1>4. 1 .. (i - 1) = 1 .. DEVICES
  BY <1>3
<1>5. \A d \in 1 .. DEVICES : /\ Entry(s[d], d)
                              /\ s[d + 1] = s[d] + WordsOf(mem[d])
                              /\ s[d + 1] <= s[DEVICES + 1]
  BY <1>1, <1>3, <1>4, Zenon DEF Starts
<1>6. \A d \in 1 .. DEVICES :
        /\ s[d] \in DOMAIN BUF_INIT /\ Entries[d] = s[d]
        /\ BUF_INIT[s[d]].what = EntryKind(d)
        /\ EntryKind(d) \in {"none", "named", "page", "extended"}
        /\ EntryKind(d) = "none" <=> mem[d].type = "NONE"
  <2> TAKE d \in 1 .. DEVICES
  <2>1. EntryKind(d) = KindOf(mem[d]) /\ mem[d] \in [type : MemTypes, name : 0 .. MAX_NAME]
    BY DEF EntryKind, KindOf, TableInv
  <2>2. WordsOf(mem[d]) \in Nat
    BY <2>1, EntryWords
  <2>3. s[d] \in DOMAIN BUF_INIT
    <3>1. s[d] \in Nat /\ s[DEVICES + 1] \in Nat
      BY <1>3
    <3>2. s[d] <= s[DEVICES + 1]
      BY <1>5, <2>2, <3>1
    <3> QED
      BY <1>3, <3>1, <3>2
  <2>4. Entries[d] = s[d]
    BY <1>2, <1>3
  <2>5. BUF_INIT[s[d]].what = EntryKind(d)
    <3>1. BUF_INIT[s[d]] = Status(EntryKind(d), mem_has_spare[d], d)
      BY <1>5 DEF Entry
    <3> QED
      BY <3>1 DEF Status
  <2> QED
    BY <2>1, <2>3, <2>4, <2>5 DEF KindOf
<1>7. /\ DRL_Flash_Detected <=> \E d \in 1 .. DEVICES : mem[d].type # "NONE"
      /\ \A n \in DOMAIN BUF_INIT :
           BUF_INIT[n].what \in Heads =>
             BUF_INIT[n].dev \in 1 .. DEVICES /\ mem[BUF_INIT[n].dev].type # "NONE"
  BY <1>4, Zenon DEF TableInv, Described
<1>8. (\E d \in 1 .. DEVICES : mem[d].type # "NONE")
        <=> \E n \in DOMAIN BUF_INIT : BUF_INIT[n].what \in Heads
  <2>1. ASSUME NEW d \in 1 .. DEVICES, mem[d].type # "NONE"
        PROVE  \E n \in DOMAIN BUF_INIT : BUF_INIT[n].what \in Heads
    <3>1. s[d] \in DOMAIN BUF_INIT /\ BUF_INIT[s[d]].what \in Heads
      BY <1>6, <2>1 DEF Heads
    <3> QED
      BY <3>1
  <2> QED
    BY <1>7, <2>1
<1>9. ASSUME NEW id \in 1 .. 255
      PROVE  FlashSize(id) = "size"
               <=> id <= DEVICES /\ BUF_INIT[Entries[id]].what # "none"
  <2>1. CASE id <= DEVICES
    <3>1. id \in 1 .. DEVICES /\ id < 17 /\ id # 0
      BY <1>3, <2>1
    <3>2. BUF_INIT[Entries[id]].what # "none" <=> mem[id].type # "NONE"
      BY <1>6, <3>1
    <3> QED
      BY <2>1, <3>1, <3>2 DEF FlashSize
  <2>2. CASE ~ (id <= DEVICES)
    BY <2>2 DEF FlashSize
  <2> QED
    BY <2>1, <2>2
<1> QED
  BY <1>7, <1>8, <1>9 DEF DetectionAgrees, Heads

\* Whatever the drivers return, for every number of devices and longest name that fit
\* BUF_INIT together, the probe loop of dcc_main stays inside BUF_INIT and leaves no
\* word below dcc_init_offset unwritten.
THEOREM TableBounded == Spec => []TableInBounds
<1>1. TableInv => TableInBounds
  BY BootInvBounds DEF TableInv
<1> QED
  BY <1>1, TableAlways, PTL

\* A host that walks the finished table by its status words and name lengths finds each
\* device whole and in its place, and the buffer entry at the very end.
THEOREM TableRead == Spec => []TableReadsBack
<1> QED
  BY TableAlways, InvReadsBack, PTL

\* The flag that lets flash commands through, the table the host sees and the answers
\* of the size command speak of the same devices.
THEOREM DetectionSafe == Spec => []DetectionAgrees
<1> QED
  BY TableAlways, InvAgrees, PTL

-----------------------------------------------------------------------------
(* Start-up as a whole, where the NOR driver answers for the first two     *)
(* devices after any number of steps of its own.                           *)

Routines == {Nor!nor_devices_supported[r] : r \in 1 .. Len(Nor!nor_devices_supported)}

NamesOf(routine) == {routine.parts[k].name : k \in 1 .. Len(routine.parts)}

\* The part the probe has found is one of the tables.
StartupInv ==
  /\ TableInv
  /\ chips \in Boards /\ DOMAIN found = 1 .. 2
  /\ part = Nor!NoPart \/ part.name \in Names

\* The look-up in a vendor's table finds a part of that table or none.
LEMMA MatchInTable ==
  ASSUME NEW parts, NEW codes
  PROVE  \/ Nor!Match(parts, codes) = Nor!NoPart
         \/ \E k \in 1 .. Len(parts) : Nor!Match(parts, codes) = parts[k]
<1> DEFINE hits == {k \in 1 .. Len(parts) : Nor!Matches(parts[k], codes)}
           first == CHOOSE k \in hits : \A j \in hits : k <= j
<1>1. Nor!Match(parts, codes) = IF hits = {} THEN Nor!NoPart ELSE parts[first]
  BY DEF Nor!Match
<1>2. ASSUME hits # {} PROVE first \in hits
  <2>1. hits \in SUBSET Nat
    OBVIOUS
  <2> HIDE DEF hits
  <2>2. \E k \in hits : \A j \in hits : k <= j
    BY <1>2, <2>1, LeastWord
  <2> QED
    BY <2>2
<1> HIDE DEF first
<1> QED
  BY <1>1, <1>2

\* One look of the NOR driver changes nothing of the table and finds a part that has
\* a name.
LEMMA AskedInTable ==
  ASSUME StartupInv, AskVendor
  PROVE  StartupInv'
<1>1. UNCHANGED vars /\ Nor!AskVendor
  BY DEF AskVendor
<1>2. PICK routine, codes :
        routine \in Routines /\ part' = Nor!Match(routine.parts, codes)
  BY <1>1 DEF Nor!AskVendor, Nor!Probing, Routines
<1>3. part' = Nor!NoPart \/ part'.name \in Names
  <2>1. ASSUME NEW k \in 1 .. Len(routine.parts), part' = routine.parts[k]
        PROVE  part'.name \in Names
    <3>1. part'.name \in NamesOf(routine)
      BY <2>1 DEF NamesOf
    <3>2. NamesOf(routine) \subseteq Names
      BY <1>2 DEF Names, NamesOf, Routines
    <3> QED
      BY <3>1, <3>2
  <2> QED
    BY <1>2, <2>1, MatchInTable
<1>4. chips' = chips /\ found' = found
  BY <1>1 DEF Nor!AskVendor
<1>5. TableInv'
  BY <1>1, TableNext DEF StartupInv
<1> QED
  BY <1>3, <1>4, <1>5 DEF StartupInv

\* What the NOR driver leaves is listed like any other device.
LEMMA NorListed ==
  ASSUME StartupInv, ListNor
  PROVE  StartupInv'
<1>1. /\ i = dev
      /\ Nor!Unknown \/ Nor!KnownWithoutCfi \/ Nor!KnownWithCfi
  BY DEF ListNor
<1> DEFINE p == [res |-> "ok", type |-> "NOR", name |-> NameLength[found'[i].name]]
<1>2. Step(p, 0) /\ WriteExtmem(p, 0)
  BY DEF ListNor
<1>3. PICK name, sized :
        /\ Nor!Settle(name, sized) /\ dev \in 1 .. Len(chips)
        /\ (name = "UNKNOWN" \/ (part # Nor!NoPart /\ name = part.name))
  <2>1. CASE Nor!Unknown
    BY <2>1 DEF Nor!Unknown, Nor!Addresses
  <2>2. CASE Nor!KnownWithoutCfi
    BY <2>2 DEF Nor!KnownWithoutCfi, Nor!Probing, Nor!Addresses
  <2>3. CASE Nor!KnownWithCfi
    BY <2>3 DEF Nor!KnownWithCfi, Nor!Probing, Nor!Addresses
  <2> QED
    BY <1>1, <2>1, <2>2, <2>3
<1>4. name \in Names
  BY <1>3 DEF StartupInv, Names
<1>5. /\ chips' = chips /\ part' = Nor!NoPart /\ DOMAIN found' = 1 .. 2
      /\ found'[i].name = name
  <2>1. dev \in 1 .. 2
    BY <1>3, NorAssumption DEF StartupInv
  <2>2. /\ found' = [found EXCEPT ![dev] = [name |-> name, sized |-> sized]]
        /\ chips' = chips /\ part' = Nor!NoPart
    BY <1>3 DEF Nor!Settle
  <2> QED
    BY <1>1, <2>1, <2>2 DEF StartupInv
<1>6. p.name \in 0 .. MAX_NAME
  BY <1>4, <1>5, NorAssumption
<1>7. Probed(p).type = "NOR" /\ "NOR" \in MemTypes
  BY DEF Probed, MemTypes
<1> HIDE DEF p
<1>8. Listed(p, 0)
  <2>1. BootInv /\ DRL_Flash_Detected \in BOOLEAN
    BY DEF StartupInv, TableInv
  <2> QED
    BY <1>2, <1>6, <1>7, <2>1, Lists
<1>9. TableInv'
  BY <1>8, ListedFits, ListedStarts, ListedDescribed DEF StartupInv, TableInv
<1> QED
  BY <1>5, <1>9 DEF StartupInv

\* The invariant holds from the start of dcc_main on.
LEMMA StartupAlways == StartupSpec => []StartupInv
<1>1. StartupInit => StartupInv
  BY TableInit DEF StartupInit, StartupInv, Nor!Init
<1>2. StartupInv /\ [StartupNext]_allVars => StartupInv'
  <2> SUFFICES ASSUME StartupInv, [StartupNext]_allVars PROVE StartupInv'
    OBVIOUS
  <2>1. CASE AskVendor
    BY <2>1, AskedInTable
  <2>2. CASE ListNor
    BY <2>2, NorListed
  <2>3. ASSUME Next \/ UNCHANGED vars, UNCHANGED norVars PROVE StartupInv'
    <3>1. TableInv'
      BY <2>3, TableNext DEF StartupInv
    <3> QED
      BY <2>3, <3>1 DEF StartupInv, norVars
  <2>4. CASE \/ Other(ListExtended) \/ Other(ListNand) \/ Other(ListNone)
             \/ Other(CloseTable) \/ Other(MainLoop)
    BY <2>3, <2>4 DEF Other, Next
  <2>5. CASE UNCHANGED allVars
    BY <2>3, <2>5 DEF allVars
  <2> QED
    BY <2>1, <2>2, <2>4, <2>5 DEF StartupNext
<1> QED
  BY <1>1, <1>2, PTL DEF StartupSpec

\* With any two chips at the NOR addresses, any drivers behind them and any names that
\* fit, the table stays inside BUF_INIT, reads back entry by entry and agrees with the
\* gate and with the size command (dcc_main, DRL_NOR_Probe).
THEOREM StartupSafe ==
  StartupSpec => [](TableInBounds /\ TableReadsBack /\ DetectionAgrees)
<1>1. StartupInv => TableInBounds /\ TableReadsBack /\ DetectionAgrees
  BY BootInvBounds, InvReadsBack, InvAgrees DEF StartupInv, TableInv
<1> QED
  BY <1>1, StartupAlways, PTL

-----------------------------------------------------------------------------
(* The NOR driver, whatever codes its chips have.                          *)

NorOps == [op : {"write", "read"}, address : Nat, data : Nat]

\* What one operation of a routine does to the mode of the chip and the codes read.
Did(chip, s, op) ==
  IF op.op = "write" THEN [s EXCEPT !.mode = Nor!ModeAfter(chip, @, op.address, op.data)]
  ELSE [s EXCEPT !.codes[op.data] = Nor!Word(chip, s.mode, op.address)]

Traces(st, chip, m, codes, ops) ==
  st = [k \in 0 .. Len(ops) |->
          IF k = 0 THEN [mode |-> m, codes |-> codes] ELSE Did(chip, st[k - 1], ops[k])]

\* A routine that runs from one mode and codes to others.
Runs(chip, m, codes, ops, m2, codes2) ==
  ops \in Seq(NorOps) /\ Nor!Ran(chip, m, codes, ops) = [mode |-> m2, codes |-> codes2]

\* Every list of operations has its states one after the other.
LEMMA TraceExists ==
  ASSUME NEW chip, NEW m, NEW codes, NEW ops \in Seq(NorOps)
  PROVE  \E st : Traces(st, chip, m, codes, ops)
<1> DEFINE Upto(n, st) ==
             st = [k \in 0 .. n |->
                     IF k = 0 THEN [mode |-> m, codes |-> codes] ELSE Did(chip, st[k - 1], ops[k])]
           Without == {n \in Nat : ~ \E st : Upto(n, st)}
<1>1. Upto(0, [k \in 0 .. 0 |-> [mode |-> m, codes |-> codes]])
  OBVIOUS
<1>2. ASSUME NEW n \in Nat, NEW st, Upto(n, st)
      PROVE  \E t : Upto(n + 1, t)
  <2> DEFINE t == [k \in 0 .. n + 1 |->
                     IF k = n + 1 THEN Did(chip, st[n], ops[n + 1]) ELSE st[k]]
  <2>1. ASSUME NEW k \in 0 .. n + 1
        PROVE  t[k] = IF k = 0 THEN [mode |-> m, codes |-> codes] ELSE Did(chip, t[k - 1], ops[k])
    <3>1. CASE k = n + 1
      <4>1. n \in 0 .. n + 1 /\ n # n + 1 /\ k - 1 = n /\ k # 0
        BY <3>1
      <4>2. t[n] = st[n] /\ t[k] = Did(chip, st[n], ops[n + 1])
        BY <3>1, <4>1
      <4> QED
        BY <3>1, <4>1, <4>2
    <3>2. CASE k # n + 1
      <4>1. k \in 0 .. n /\ t[k] = st[k]
        BY <3>2
      <4>2. st[k] = IF k = 0 THEN [mode |-> m, codes |-> codes] ELSE Did(chip, st[k - 1], ops[k])
        BY <1>2, <4>1
      <4>3. k # 0 => k - 1 \in 0 .. n + 1 /\ k - 1 # n + 1
        BY <4>1
      <4>4. k # 0 => t[k - 1] = st[k - 1]
        BY <4>3
      <4> HIDE DEF t
      <4> QED
        BY <4>1, <4>2, <4>4
    <3> QED
      BY <3>1, <3>2
  <2>2. t = [k \in 0 .. n + 1 |-> t[k]]
    OBVIOUS
  <2> HIDE DEF t
  <2>3. Upto(n + 1, t)
    BY <2>1, <2>2
  <2> QED
    BY <2>3
<1> HIDE DEF Upto
<1>3. Without = {}
  <2> SUFFICES ASSUME Without # {} PROVE FALSE
    OBVIOUS
  <2>1. PICK n \in Without : \A k \in Without : n <= k
    <3>1. Without \in SUBSET Nat
      OBVIOUS
    <3> HIDE DEF Without
    <3> QED
      BY <3>1, LeastWord
  <2>2. n # 0
    BY <1>1
  <2>3. n - 1 \in Nat /\ n - 1 \notin Without /\ (n - 1) + 1 = n
    BY <2>1, <2>2
  <2> QED
    BY <1>2, <2>1, <2>3
<1>4. Len(ops) \in Nat
  OBVIOUS
<1>5. PICK st : Upto(Len(ops), st)
  BY <1>3, <1>4
<1> QED
  BY <1>5 DEF Upto, Traces

\* A routine ends with the last of its states.
LEMMA RanTraced ==
  ASSUME NEW chip, NEW m, NEW codes, NEW ops \in Seq(NorOps)
  PROVE  \E st : Traces(st, chip, m, codes, ops) /\ Nor!Ran(chip, m, codes, ops) = st[Len(ops)]
<1> DEFINE t == CHOOSE st : Traces(st, chip, m, codes, ops)
<1>1. Traces(t, chip, m, codes, ops)
  BY TraceExists
<1>2. Nor!Ran(chip, m, codes, ops) = t[Len(ops)]
  BY DEF Nor!Ran, Traces, Did
<1> QED
  BY <1>1, <1>2

\* Each state follows from the one before.
LEMMA TraceSteps ==
  ASSUME NEW chip, NEW m, NEW codes, NEW ops \in Seq(NorOps), NEW st,
         Traces(st, chip, m, codes, ops)
  PROVE  /\ st[0] = [mode |-> m, codes |-> codes]
         /\ \A k \in 1 .. Len(ops) : st[k] = Did(chip, st[k - 1], ops[k])
<1>1. Len(ops) \in Nat
  OBVIOUS
<1>2. ASSUME NEW k \in 0 .. Len(ops)
      PROVE  st[k] = IF k = 0 THEN [mode |-> m, codes |-> codes] ELSE Did(chip, st[k - 1], ops[k])
  BY Zenon DEF Traces
<1>3. 0 \in 0 .. Len(ops) /\ \A k \in 1 .. Len(ops) : k \in 0 .. Len(ops) /\ k # 0
  BY <1>1
<1> QED
  BY <1>2, <1>3

\* What a list of operations does is what its parts do, one after the other.
LEMMA RunsJoin ==
  ASSUME NEW chip, NEW m, NEW codes, NEW a, NEW m2, NEW codes2, NEW b, NEW m3, NEW codes3,
         Runs(chip, m, codes, a, m2, codes2), Runs(chip, m2, codes2, b, m3, codes3)
  PROVE  Runs(chip, m, codes, a \o b, m3, codes3)
<1> DEFINE ab == a \o b
<1>1. a \in Seq(NorOps) /\ b \in Seq(NorOps) /\ ab \in Seq(NorOps)
  BY DEF Runs
<1> DEFINE p == Len(a)
           q == Len(b)
<1>2. p \in Nat /\ q \in Nat /\ Len(ab) = p + q
  BY <1>1
<1>3. PICK s : Traces(s, chip, m, codes, a) /\ s[p] = [mode |-> m2, codes |-> codes2]
  BY <1>1, RanTraced DEF Runs
<1>4. PICK t : Traces(t, chip, m2, codes2, b) /\ t[q] = [mode |-> m3, codes |-> codes3]
  BY <1>1, RanTraced DEF Runs
<1>5. PICK u : Traces(u, chip, m, codes, ab) /\ Nor!Ran(chip, m, codes, ab) = u[p + q]
  <2> HIDE DEF ab
  <2>1. PICK u : /\ Traces(u, chip, m, codes, ab)
                 /\ Nor!Ran(chip, m, codes, ab) = u[Len(ab)]
    BY <1>1, RanTraced
  <2> QED
    BY <1>2, <2>1
<1>6. /\ \A k \in 1 .. p : ab[k] = a[k]
      /\ \A k \in 1 .. q : ab[p + k] = b[k]
  BY <1>1
<1> HIDE DEF p, q, ab
<1>7. /\ s[0] = [mode |-> m, codes |-> codes] /\ \A k \in 1 .. p : s[k] = Did(chip, s[k - 1], a[k])
      /\ t[0] = [mode |-> m2, codes |-> codes2]
      /\ \A k \in 1 .. q : t[k] = Did(chip, t[k - 1], b[k])
      /\ u[0] = [mode |-> m, codes |-> codes]
      /\ \A k \in 1 .. p + q : u[k] = Did(chip, u[k - 1], ab[k])
  <2>1. /\ s[0] = [mode |-> m, codes |-> codes]
        /\ \A k \in 1 .. p : s[k] = Did(chip, s[k - 1], a[k])
    BY <1>1, <1>3, TraceSteps DEF p
  <2>2. /\ t[0] = [mode |-> m2, codes |-> codes2]
        /\ \A k \in 1 .. q : t[k] = Did(chip, t[k - 1], b[k])
    BY <1>1, <1>4, TraceSteps DEF q
  <2>3. /\ u[0] = [mode |-> m, codes |-> codes]
        /\ \A k \in 1 .. Len(ab) : u[k] = Did(chip, u[k - 1], ab[k])
    BY <1>1, <1>5, TraceSteps
  <2> QED
    BY <1>2, <2>1, <2>2, <2>3
<1> DEFINE Astray == {k \in 0 .. p : u[k] # s[k]}
           Behind == {k \in 0 .. q : u[p + k] # t[k]}
<1>8. Astray = {}
  <2> SUFFICES ASSUME Astray # {} PROVE FALSE
    OBVIOUS
  <2>1. PICK k \in Astray : \A j \in Astray : k <= j
    <3>1. Astray \in SUBSET Nat
      BY <1>2
    <3> HIDE DEF Astray
    <3> QED
      BY <3>1, LeastWord
  <2>2. k # 0
    BY <1>7
  <2>3. k - 1 \in 0 .. p /\ k \in 1 .. p /\ k \in 1 .. p + q /\ k - 1 \notin Astray
    BY <1>2, <2>1, <2>2
  <2> QED
    BY <1>6, <1>7, <2>1, <2>3
<1>9. u[p] = t[0]
  <2>1. p \in 0 .. p
    BY <1>2
  <2> QED
    BY <1>3, <1>7, <1>8, <2>1 DEF p
<1>10. Behind = {}
  <2> SUFFICES ASSUME Behind # {} PROVE FALSE
    OBVIOUS
  <2>1. PICK k \in Behind : \A j \in Behind : k <= j
    <3>1. Behind \in SUBSET Nat
      BY <1>2
    <3> HIDE DEF Behind
    <3> QED
      BY <3>1, LeastWord
  <2>2. k # 0
    BY <1>2, <1>9, <2>1
  <2>3. /\ k - 1 \in 0 .. q /\ k \in 1 .. q /\ p + k \in 1 .. p + q /\ k - 1 \notin Behind
        /\ k \in Nat
    BY <1>2, <2>1, <2>2
  <2>4. u[p + (k - 1)] = t[k - 1]
    BY <2>3
  <2>5. u[p + k] = Did(chip, u[p + (k - 1)], b[k])
    <3>1. u[p + k] = Did(chip, u[p + (k - 1)], ab[p + k])
      <4>1. PICK n : n = p + k
        OBVIOUS
      <4>2. n \in 1 .. p + q
        BY <2>3, <4>1
      <4>3. u[n] = Did(chip, u[n - 1], ab[n])
        BY <1>7, <4>2
      <4>4. n - 1 = p + (k - 1)
        BY <1>2, <2>3, <4>1
      <4> QED
        BY <4>1, <4>3, <4>4
    <3>2. ab[p + k] = b[k]
      BY <1>6, <2>3
    <3> QED
      BY <2>3, <3>1, <3>2
  <2>6. t[k] = Did(chip, t[k - 1], b[k])
    BY <1>7, <2>3
  <2> QED
    BY <2>1, <2>4, <2>5, <2>6
<1>11. u[p + q] = t[q]
  <2>1. q \in 0 .. q
    BY <1>2
  <2> QED
    BY <1>10, <2>1
<1> QED
  BY <1>1, <1>4, <1>5, <1>11 DEF Runs, q, ab

\* A list of one operation.
LEMMA RunsOne ==
  ASSUME NEW chip, NEW m, NEW codes, NEW op \in NorOps
  PROVE  LET s == Did(chip, [mode |-> m, codes |-> codes], op)
         IN  <<op>> \in Seq(NorOps) /\ Nor!Ran(chip, m, codes, <<op>>) = s
<1>1. <<op>> \in Seq(NorOps) /\ Len(<<op>>) = 1 /\ <<op>>[1] = op
  OBVIOUS
<1>2. PICK st : Traces(st, chip, m, codes, <<op>>) /\ Nor!Ran(chip, m, codes, <<op>>) = st[1]
  BY <1>1, RanTraced
<1>3. st[1] = Did(chip, st[0], op) /\ st[0] = [mode |-> m, codes |-> codes]
  <2>1. 1 \in 0 .. 1 /\ 0 \in 0 .. 1 /\ 1 # 0 /\ 1 - 1 = 0
    OBVIOUS
  <2> QED
    BY <1>1, <1>2, <2>1 DEF Traces
<1> QED
  BY <1>1, <1>2, <1>3

\* A word written changes the mode as the chip sees fit.
LEMMA RunsWrite ==
  ASSUME NEW chip, NEW m, NEW codes, NEW address \in Nat, NEW data \in Nat
  PROVE  Runs(chip, m, codes, <<Nor!W(address, data)>>,
              Nor!ModeAfter(chip, m, address, data), codes)
<1> DEFINE op == Nor!W(address, data)
<1>1. op \in NorOps /\ op.op = "write" /\ op.address = address /\ op.data = data
  BY DEF Nor!W, NorOps
<1> DEFINE s == [mode |-> m, codes |-> codes]
           after == Nor!ModeAfter(chip, s.mode, address, data)
<1>2. s.mode = m
  OBVIOUS
<1>3. [s EXCEPT !.mode = after] = [mode |-> after, codes |-> codes]
  <2> HIDE DEF after
  <2> QED
    OBVIOUS
<1>4. Did(chip, s, op) = [s EXCEPT !.mode = after]
  <2> HIDE DEF op
  <2> QED
    BY <1>1, Zenon DEF Did
<1>5. <<op>> \in Seq(NorOps) /\ Nor!Ran(chip, m, codes, <<op>>) = Did(chip, s, op)
  BY <1>1, RunsOne
<1> HIDE DEF s, op
<1> QED
  BY <1>2, <1>3, <1>4, <1>5, Zenon DEF Runs, op

\* A word read goes to one of the codes.
LEMMA RunsRead ==
  ASSUME NEW chip, NEW m, NEW codes, NEW address \in Nat, NEW n \in Nat
  PROVE  Runs(chip, m, codes, <<Nor!R(address, n)>>,
              m, [codes EXCEPT ![n] = Nor!Word(chip, m, address)])
<1> DEFINE op == Nor!R(address, n)
<1>1. op \in NorOps /\ op.op = "read" /\ op.address = address /\ op.data = n
  BY DEF Nor!R, NorOps
<1> DEFINE s == [mode |-> m, codes |-> codes]
           word == Nor!Word(chip, s.mode, address)
<1>2. s.mode = m
  OBVIOUS
<1>3. [s EXCEPT !.codes[n] = word] = [mode |-> m, codes |-> [codes EXCEPT ![n] = word]]
  <2> HIDE DEF word
  <2> QED
    OBVIOUS
<1>4. Did(chip, s, op) = [s EXCEPT !.codes[n] = word]
  <2> HIDE DEF op
  <2>1. "read" # "write"
    OBVIOUS
  <2> QED
    BY <1>1, <2>1 DEF Did
<1>5. <<op>> \in Seq(NorOps) /\ Nor!Ran(chip, m, codes, <<op>>) = Did(chip, s, op)
  BY <1>1, RunsOne
<1> HIDE DEF s, op
<1> QED
  BY <1>2, <1>3, <1>4, <1>5, Zenon DEF Runs, op

-----------------------------------------------------------------------------
(* What the chips make of the words of the routines.                       *)

\* A chip of Intel's family takes each word of a routine as a command, or not at all.
LEMMA IntelWords ==
  ASSUME NEW chip, chip.family = "intel", NEW m, NEW address
  PROVE  /\ \A data \in {80, 85, 170, 240} : Nor!ModeAfter(chip, m, address, data) = m
         /\ Nor!ModeAfter(chip, m, address, 255) = "array"
         /\ Nor!ModeAfter(chip, m, address, 144) = "id"
         /\ Nor!ModeAfter(chip, m, address, 152) = "cfi"
BY DEF Nor!ModeAfter, Nor!IntelMode

\* One of the AMD family wants most of them unlocked, and takes 240 as a reset.
LEMMA AmdWords ==
  ASSUME NEW chip, chip.family = "amd", NEW m
  PROVE  /\ \A data \in {80, 144, 255} : Nor!ModeAfter(chip, "array", 0, data) = "array"
         /\ \A address : Nor!ModeAfter(chip, m, address, 240) = "array"
         /\ Nor!ModeAfter(chip, m, 1365, 170) = "unlock1"
         /\ Nor!ModeAfter(chip, "unlock1", 682, 85) = "unlock2"
         /\ Nor!ModeAfter(chip, "unlock2", 1365, 144) = "id"
         /\ Nor!ModeAfter(chip, "array", 1365, 152) = "cfi"
<1>1. "intel" # "amd" /\ "array" # "unlock1" /\ "array" # "unlock2" /\ "unlock1" # "unlock2"
  OBVIOUS
<1>2. \A k, address, data : Nor!ModeAfter(chip, k, address, data) = Nor!AmdMode(k, address, data)
  BY <1>1 DEF Nor!ModeAfter
<1>3. \A data \in {80, 144, 255} : Nor!AmdMode("array", 0, data) = "array"
  BY DEF Nor!AmdMode
<1>4. \A address : Nor!AmdMode(m, address, 240) = "array"
  BY DEF Nor!AmdMode
<1>5. Nor!AmdMode(m, 1365, 170) = "unlock1"
  BY DEF Nor!AmdMode
<1>6. Nor!AmdMode("unlock1", 682, 85) = "unlock2"
  BY DEF Nor!AmdMode
<1>7. Nor!AmdMode("unlock2", 1365, 144) = "id"
  BY DEF Nor!AmdMode
<1>8. Nor!AmdMode("array", 1365, 152) = "cfi"
  BY DEF Nor!AmdMode
<1> QED
  BY <1>2, <1>3, <1>4, <1>5, <1>6, <1>7, <1>8

\* Where there is no chip, nothing changes.
LEMMA NoWords ==
  ASSUME NEW chip, chip.family = "none", NEW m, NEW address, NEW data
  PROVE  Nor!ModeAfter(chip, m, address, data) = m
BY DEF Nor!ModeAfter

\* What is read in each mode.
LEMMA WordsRead ==
  ASSUME NEW chip
  PROVE  /\ \A address : Nor!Word(chip, "array", address) = 65535
         /\ Nor!Word(chip, "id", 0) = chip.codes[1] /\ Nor!Word(chip, "id", 1) = chip.codes[2]
         /\ Nor!Word(chip, "id", 14) = chip.codes[3] /\ Nor!Word(chip, "id", 15) = chip.codes[4]
         /\ Nor!Word(chip, "cfi", 16) = 81 /\ Nor!Word(chip, "cfi", 17) = 82
         /\ Nor!Word(chip, "cfi", 18) = 89 /\ Nor!Word(chip, "cfi", 19) = chip.set
BY DEF Nor!Word, Nor!IdIndex, Nor!ARRAY_WORD, Nor!CfiWords

\* A list of two is its parts, end to end.
LEMMA Joined ==
  ASSUME NEW S, NEW a \in S, NEW b \in S
  PROVE  <<a, b>> = <<a>> \o <<b>>
<1>1. <<a>> \o <<b>> \in Seq(S) /\ Len(<<a>> \o <<b>>) = 2
      /\ (<<a>> \o <<b>>)[1] = a /\ (<<a>> \o <<b>>)[2] = b
  OBVIOUS
<1>2. <<a, b>> \in Seq(S) /\ Len(<<a, b>>) = 2 /\ <<a, b>>[1] = a /\ <<a, b>>[2] = b
  OBVIOUS
<1> DEFINE u == <<a>> \o <<b>>
           v == <<a, b>>
<1> HIDE DEF u, v
<1>3. \A k \in 1 .. Len(v) : v[k] = u[k]
  BY <1>1, <1>2 DEF u, v
<1>4. v = u
  BY <1>1, <1>2, <1>3, SeqEqual, Zenon DEF u, v
<1> QED
  BY <1>4 DEF u, v

\* A list of three is two and one.
LEMMA JoinedThree ==
  ASSUME NEW a \in NorOps, NEW b \in NorOps, NEW c \in NorOps
  PROVE  <<a, b, c>> = <<a, b>> \o <<c>>
OBVIOUS

\* Six operations are three and three.
SixAre(a, b, c, d, e, f) == <<a, b, c, d, e, f>> = <<a, b, c>> \o <<d, e, f>>

\* Any six are.
LEMMA JoinedSix ==
  ASSUME NEW a \in NorOps, NEW b \in NorOps, NEW c \in NorOps,
         NEW d \in NorOps, NEW e \in NorOps, NEW f \in NorOps
  PROVE  SixAre(a, b, c, d, e, f)
BY DEF SixAre

\* Two operations, the second from where the first ended.
LEMMA RunsTwo ==
  ASSUME NEW chip, NEW m, NEW codes, NEW a \in NorOps, NEW m2, NEW codes2,
         NEW b \in NorOps, NEW m3, NEW codes3,
         Runs(chip, m, codes, <<a>>, m2, codes2), Runs(chip, m2, codes2, <<b>>, m3, codes3)
  PROVE  Runs(chip, m, codes, <<a, b>>, m3, codes3)
<1>1. <<a, b>> = <<a>> \o <<b>>
  BY Joined
<1>2. Runs(chip, m, codes, <<a>> \o <<b>>, m3, codes3)
  BY RunsJoin
<1> QED
  BY <1>1, <1>2

\* Three operations, each from where the one before ended.
LEMMA RunsThree ==
  ASSUME NEW chip, NEW m, NEW codes, NEW a \in NorOps, NEW m2, NEW codes2,
         NEW b \in NorOps, NEW m3, NEW codes3, NEW c \in NorOps, NEW m4, NEW codes4,
         Runs(chip, m, codes, <<a>>, m2, codes2), Runs(chip, m2, codes2, <<b>>, m3, codes3),
         Runs(chip, m3, codes3, <<c>>, m4, codes4)
  PROVE  Runs(chip, m, codes, <<a, b, c>>, m4, codes4)
<1>1. <<a, b, c>> = <<a, b>> \o <<c>>
  OBVIOUS
<1>2. Runs(chip, m, codes, <<a, b>>, m3, codes3)
  BY RunsTwo
<1>3. Runs(chip, m, codes, <<a, b>> \o <<c>>, m4, codes4)
  BY <1>2, RunsJoin
<1> QED
  BY <1>1, <1>3

-----------------------------------------------------------------------------
(* The codes of a chip, and the routines.                                  *)

Codes == [1 .. 4 -> Nat]

\* A code read stands in its place and the others stay.
ReadsInto(chip, m, codes, address, n, codes2) ==
  /\ codes2 \in Codes
  /\ Runs(chip, m, codes, <<Nor!R(address, n)>>, m, codes2)
  /\ codes2[n] = Nor!Word(chip, m, address)
  /\ \A k \in 1 .. 4 : k # n => codes2[k] = codes[k]

\* Every code can be read.
LEMMA ReadsCode ==
  ASSUME NEW chip, NEW m, NEW codes \in Codes, NEW address \in Nat, NEW n \in 1 .. 4,
         Nor!Word(chip, m, address) \in Nat
  PROVE  \E codes2 : ReadsInto(chip, m, codes, address, n, codes2)
<1> PICK w \in Nat : w = Nor!Word(chip, m, address)
  OBVIOUS
<1>1. Runs(chip, m, codes, <<Nor!R(address, n)>>, m, [codes EXCEPT ![n] = w])
  BY RunsRead
<1>2. [codes EXCEPT ![n] = w] \in Codes
  BY DEF Codes
<1>3. [codes EXCEPT ![n] = w][n] = w
      /\ \A k \in 1 .. 4 : k # n => [codes EXCEPT ![n] = w][k] = codes[k]
  BY DEF Codes
<1> QED
  BY <1>1, <1>2, <1>3 DEF ReadsInto

\* The operations of the routines.
LEMMA OpsTyped ==
  \A address, data \in Nat : Nor!W(address, data) \in NorOps /\ Nor!R(address, data) \in NorOps
BY DEF Nor!W, Nor!R, NorOps

\* Two codes read one after the other from where a chip answers.
LEMMA ReadsTwo ==
  ASSUME NEW chip, NEW m, NEW codes \in Codes,
         Nor!Word(chip, m, 0) \in Nat, Nor!Word(chip, m, 1) \in Nat
  PROVE  \E codes2 \in Codes :
           /\ Runs(chip, m, codes, <<Nor!R(0, 1), Nor!R(1, 2)>>, m, codes2)
           /\ codes2[1] = Nor!Word(chip, m, 0) /\ codes2[2] = Nor!Word(chip, m, 1)
           /\ codes2[3] = codes[3] /\ codes2[4] = codes[4]
<1>0. 0 \in Nat /\ 1 \in Nat /\ 1 \in 1 .. 4 /\ 2 \in 1 .. 4
  OBVIOUS
<1>1. PICK c1 : ReadsInto(chip, m, codes, 0, 1, c1)
  BY <1>0, ReadsCode
<1>2. PICK c2 : ReadsInto(chip, m, c1, 1, 2, c2)
  <2>1. c1 \in Codes
    BY <1>1 DEF ReadsInto
  <2> QED
    BY <1>0, <2>1, ReadsCode
<1>3. Runs(chip, m, codes, <<Nor!R(0, 1), Nor!R(1, 2)>>, m, c2)
  <2>1. Nor!R(0, 1) \in NorOps /\ Nor!R(1, 2) \in NorOps
    BY OpsTyped
  <2> QED
    BY <1>1, <1>2, <2>1, RunsTwo DEF ReadsInto
<1>4. c2[1] = Nor!Word(chip, m, 0) /\ c2[3] = codes[3] /\ c2[4] = codes[4]
  BY <1>1, <1>2 DEF ReadsInto
<1> QED
  BY <1>2, <1>3, <1>4 DEF ReadsInto

-----------------------------------------------------------------------------
\* The routine of Intel and that of Renesas, where the two words read before the last
\* write come from mode k.
LEMMA AsksPlainly ==
  ASSUME NEW chip, NEW m, NEW m1, NEW m2, NEW m3, NEW m4, NEW codes \in Codes,
         Nor!ModeAfter(chip, m, 0, 80) = m1, Nor!ModeAfter(chip, m1, 0, 255) = m2,
         Nor!ModeAfter(chip, m2, 0, 144) = m3, Nor!ModeAfter(chip, m3, 0, 255) = m4,
         Nor!Word(chip, m3, 0) \in Nat, Nor!Word(chip, m3, 1) \in Nat
  PROVE  \E codes2 \in Codes :
           /\ Runs(chip, m, codes, Nor!IntelCodes, m4, codes2)
           /\ Runs(chip, m, codes, Nor!RenesasCodes, m4, codes2)
           /\ codes2[1] = Nor!Word(chip, m3, 0) /\ codes2[2] = Nor!Word(chip, m3, 1)
<1> DEFINE a == Nor!W(0, 80)
           b == Nor!W(0, 255)
           c == Nor!W(0, 144)
           d == Nor!R(0, 1)
           e == Nor!R(1, 2)
<1>1. a \in NorOps /\ b \in NorOps /\ c \in NorOps /\ d \in NorOps /\ e \in NorOps
  BY OpsTyped
<1>2. Nor!IntelCodes = <<a, b, c, d, e, b>> /\ Nor!RenesasCodes = <<a, b, c, d, e, b>>
  BY DEF Nor!IntelCodes, Nor!RenesasCodes
<1>3. /\ Runs(chip, m, codes, <<a>>, m1, codes) /\ Runs(chip, m1, codes, <<b>>, m2, codes)
      /\ Runs(chip, m2, codes, <<c>>, m3, codes)
  <2>1. 80 \in Nat /\ 255 \in Nat /\ 144 \in Nat /\ 0 \in Nat
    OBVIOUS
  <2> QED
    BY <2>1, RunsWrite
<1>4. PICK codes2 \in Codes :
        /\ Runs(chip, m3, codes, <<d, e>>, m3, codes2)
        /\ codes2[1] = Nor!Word(chip, m3, 0) /\ codes2[2] = Nor!Word(chip, m3, 1)
  BY ReadsTwo
<1>5. Runs(chip, m3, codes2, <<b>>, m4, codes2)
  <2>1. 255 \in Nat /\ 0 \in Nat
    OBVIOUS
  <2> QED
    BY <2>1, RunsWrite
<1> HIDE DEF a, b, c, d, e
<1>6. Runs(chip, m, codes, <<a, b, c>>, m3, codes)
  BY <1>1, <1>3, RunsThree
<1>7. Runs(chip, m3, codes, <<d, e>> \o <<b>>, m4, codes2)
  BY <1>4, <1>5, RunsJoin
<1>8. Runs(chip, m, codes, <<a, b, c>> \o (<<d, e>> \o <<b>>), m4, codes2)
  BY <1>6, <1>7, RunsJoin
<1>9. <<a, b, c>> \o (<<d, e>> \o <<b>>) = <<a, b, c, d, e, b>>
  <2>1. <<d, e>> \o <<b>> = <<d, e, b>>
    BY <1>1, JoinedThree
  <2>2. <<a, b, c, d, e, b>> = <<a, b, c>> \o <<d, e, b>>
    <3>1. SixAre(a, b, c, d, e, b)
      BY <1>1, JoinedSix
    <3> QED
      BY <3>1 DEF SixAre
  <2> QED
    BY <2>1, <2>2, Zenon
<1> QED
  BY <1>2, <1>4, <1>8, <1>9

\* A list of four is three and one.
LEMMA JoinedFour ==
  ASSUME NEW a \in NorOps, NEW b \in NorOps, NEW c \in NorOps, NEW d \in NorOps
  PROVE  <<a, b, c, d>> = <<a, b, c>> \o <<d>>
OBVIOUS

\* The numbers the routines write to and read from.
LEMMA Numbers ==
  /\ 0 \in Nat /\ 1 \in Nat /\ 14 \in Nat /\ 15 \in Nat /\ 682 \in Nat /\ 1365 \in Nat
  /\ 85 \in Nat /\ 144 \in Nat /\ 170 \in Nat /\ 240 \in Nat /\ 80 \in Nat /\ 255 \in Nat
  /\ 1 \in 1 .. 4 /\ 2 \in 1 .. 4 /\ 3 \in 1 .. 4 /\ 4 \in 1 .. 4
OBVIOUS

\* The unlocking words, and the request of the identity behind them.
LEMMA Unlocks ==
  ASSUME NEW chip, NEW m, NEW a, NEW b, NEW c, NEW codes,
         Nor!ModeAfter(chip, m, 1365, 170) = a, Nor!ModeAfter(chip, a, 682, 85) = b,
         Nor!ModeAfter(chip, b, 1365, 144) = c
  PROVE  /\ Runs(chip, m, codes, Nor!Unlock, b, codes)
         /\ Runs(chip, m, codes, Nor!ReadId, c, codes)
<1>1. /\ Runs(chip, m, codes, <<Nor!W(1365, 170)>>, a, codes)
      /\ Runs(chip, a, codes, <<Nor!W(682, 85)>>, b, codes)
      /\ Runs(chip, b, codes, <<Nor!W(1365, 144)>>, c, codes)
  BY Numbers, RunsWrite
<1>2. Nor!W(1365, 170) \in NorOps /\ Nor!W(682, 85) \in NorOps
  BY Numbers, OpsTyped
<1>3. Runs(chip, m, codes, Nor!Unlock, b, codes)
  BY <1>1, <1>2, RunsTwo DEF Nor!Unlock
<1>4. Runs(chip, m, codes, Nor!ReadId, c, codes)
  BY <1>1, <1>3, RunsJoin DEF Nor!ReadId
<1> QED
  BY <1>3, <1>4

\* An unlocked chip in mode m0 answers in mode m1, with codes there are.
Identifies(chip, m0, m1) == \A c : Runs(chip, m0, c, Nor!ReadId, m1, c)
Unlocked(chip, m1, m2) == \A c : Runs(chip, m1, c, Nor!Unlock, m2, c)
Gives(chip, m1) == \A address \in {0, 1, 14, 15} : Nor!Word(chip, m1, address) \in Nat

\* A routine read the codes a chip in mode m1 gives: the first two, or all.
HeardTwo(chip, m, codes, ops, m1, m2) ==
  \E c \in Codes : /\ Runs(chip, m, codes, ops, m2, c)
                   /\ c[1] = Nor!Word(chip, m1, 0) /\ c[2] = Nor!Word(chip, m1, 1)
HeardFour(chip, m, codes, ops, m1, m2) ==
  \E c \in Codes : /\ Runs(chip, m, codes, ops, m2, c)
                   /\ c[1] = Nor!Word(chip, m1, 0) /\ c[2] = Nor!Word(chip, m1, 1)
                   /\ c[3] = Nor!Word(chip, m1, 14) /\ c[4] = Nor!Word(chip, m1, 15)

\* The routines that unlock a chip, which answers in mode m1 and is in mode m2 after
\* each round, whatever mode it was found in.
LEMMA AsksUnlocked ==
  ASSUME NEW chip, NEW m, NEW m0, NEW m1, NEW m2, NEW codes \in Codes,
         Nor!ModeAfter(chip, m, 0, 240) = m0, Nor!ModeAfter(chip, m1, 0, 240) = m2,
         Identifies(chip, m0, m1), Identifies(chip, m2, m1), Gives(chip, m1)
  PROVE  /\ HeardTwo(chip, m, codes, Nor!SamsungCodes, m1, m2)
         /\ HeardFour(chip, m, codes, Nor!AmdCodes, m1, m2)
<1> DEFINE w == Nor!W(0, 240)
           r1 == Nor!R(0, 1)
           r2 == Nor!R(1, 2)
           r3 == Nor!R(14, 3)
           r4 == Nor!R(15, 4)
<1>1. w \in NorOps /\ r1 \in NorOps /\ r2 \in NorOps /\ r3 \in NorOps /\ r4 \in NorOps
  <2>1. 0 \in Nat /\ 1 \in Nat /\ 14 \in Nat /\ 15 \in Nat /\ 240 \in Nat
        /\ 2 \in Nat /\ 3 \in Nat /\ 4 \in Nat
    OBVIOUS
  <2> QED
    BY <2>1, OpsTyped
<1>2. /\ Runs(chip, m, codes, <<w>>, m0, codes)
      /\ \A c : Runs(chip, m1, c, <<w>>, m2, c)
  BY Numbers, RunsWrite
<1>0. Nor!Word(chip, m1, 0) \in Nat /\ Nor!Word(chip, m1, 1) \in Nat
      /\ Nor!Word(chip, m1, 14) \in Nat /\ Nor!Word(chip, m1, 15) \in Nat
  BY DEF Gives
<1>3. PICK c1 : ReadsInto(chip, m1, codes, 0, 1, c1)
  BY <1>0, Numbers, ReadsCode
<1>4. PICK c2 : ReadsInto(chip, m1, c1, 1, 2, c2)
  <2>1. c1 \in Codes
    BY <1>3 DEF ReadsInto
  <2> QED
    BY <1>0, <2>1, Numbers, ReadsCode
<1>5. PICK c3 : ReadsInto(chip, m1, c2, 14, 3, c3)
  <2>1. c2 \in Codes
    BY <1>4 DEF ReadsInto
  <2> QED
    BY <1>0, <2>1, Numbers, ReadsCode
<1>6. PICK c4 : ReadsInto(chip, m1, c3, 15, 4, c4)
  <2>1. c3 \in Codes
    BY <1>5 DEF ReadsInto
  <2> QED
    BY <1>0, <2>1, Numbers, ReadsCode
<1>7. /\ Runs(chip, m1, codes, <<r1>>, m1, c1) /\ Runs(chip, m1, c1, <<r2>>, m1, c2)
      /\ Runs(chip, m1, c2, <<r3>>, m1, c3) /\ Runs(chip, m1, c3, <<r4>>, m1, c4)
      /\ c2 \in Codes /\ c4 \in Codes
  BY <1>3, <1>4, <1>5, <1>6 DEF ReadsInto
<1> HIDE DEF w, r1, r2, r3, r4
<1> DEFINE head == <<w>> \o Nor!ReadId \o <<r1, w>> \o Nor!ReadId
<1>8. Runs(chip, m, codes, head, m1, c1)
  <2>1. Runs(chip, m, codes, <<w>> \o Nor!ReadId, m1, codes)
    BY <1>2, RunsJoin DEF Identifies
  <2>2. Runs(chip, m1, codes, <<r1, w>>, m2, c1)
    BY <1>1, <1>2, <1>7, RunsTwo
  <2>3. Runs(chip, m, codes, <<w>> \o Nor!ReadId \o <<r1, w>>, m2, c1)
    BY <2>1, <2>2, RunsJoin
  <2> QED
    BY <2>3, RunsJoin DEF Identifies
<1> HIDE DEF head
<1>9. Runs(chip, m, codes, head \o <<r2, w>>, m2, c2)
  <2>1. Runs(chip, m1, c1, <<r2, w>>, m2, c2)
    BY <1>1, <1>2, <1>7, RunsTwo
  <2> QED
    BY <1>8, <2>1, RunsJoin
<1>10. Runs(chip, m, codes, head \o <<r2, r3, r4, w>>, m2, c4)
  <2>1. Runs(chip, m1, c1, <<r2, r3, r4>>, m1, c4)
    BY <1>1, <1>7, RunsThree
  <2>2. Runs(chip, m1, c1, <<r2, r3, r4>> \o <<w>>, m2, c4)
    BY <1>2, <2>1, RunsJoin
  <2>3. <<r2, r3, r4, w>> = <<r2, r3, r4>> \o <<w>>
    BY <1>1, JoinedFour
  <2> QED
    BY <1>8, <2>2, <2>3, RunsJoin
<1>11. Nor!SamsungCodes = head \o <<r2, w>> /\ Nor!AmdCodes = head \o <<r2, r3, r4, w>>
  BY DEF Nor!SamsungCodes, Nor!AmdCodes, head, w, r1, r2, r3, r4
<1>12. c2[1] = Nor!Word(chip, m1, 0) /\ c2[2] = Nor!Word(chip, m1, 1)
  BY <1>3, <1>4 DEF ReadsInto
<1>13. /\ c4[1] = Nor!Word(chip, m1, 0) /\ c4[2] = Nor!Word(chip, m1, 1)
       /\ c4[3] = Nor!Word(chip, m1, 14) /\ c4[4] = Nor!Word(chip, m1, 15)
  <2>1. c4[1] = c3[1] /\ c4[2] = c3[2] /\ c4[3] = c3[3] /\ c4[4] = Nor!Word(chip, m1, 15)
    BY <1>6 DEF ReadsInto
  <2>2. c3[1] = c2[1] /\ c3[2] = c2[2] /\ c3[3] = Nor!Word(chip, m1, 14)
    BY <1>5 DEF ReadsInto
  <2> QED
    BY <1>12, <2>1, <2>2
<1> QED
  BY <1>7, <1>9, <1>10, <1>11, <1>12, <1>13 DEF HeardTwo, HeardFour

\* Toshiba's routine, which reads both codes in one round and unlocks the chip once more.
LEMMA AsksToshiba ==
  ASSUME NEW chip, NEW m, NEW m0, NEW m1, NEW m2, NEW m3, NEW codes \in Codes,
         Nor!ModeAfter(chip, m, 0, 240) = m0,
         Nor!ModeAfter(chip, m2, 1365, 240) = m3,
         Identifies(chip, m0, m1), Unlocked(chip, m1, m2), Gives(chip, m1)
  PROVE  HeardTwo(chip, m, codes, Nor!ToshibaCodes, m1, m3)
<1> DEFINE w == Nor!W(0, 240)
           last == Nor!W(1365, 240)
           rr == <<Nor!R(0, 1), Nor!R(1, 2)>>
<1>1. PICK c \in Codes :
        /\ Runs(chip, m1, codes, rr, m1, c)
        /\ c[1] = Nor!Word(chip, m1, 0) /\ c[2] = Nor!Word(chip, m1, 1)
  <2>1. Nor!Word(chip, m1, 0) \in Nat /\ Nor!Word(chip, m1, 1) \in Nat
    BY DEF Gives
  <2> QED
    BY <2>1, ReadsTwo
<1>2. /\ Runs(chip, m, codes, <<w>>, m0, codes)
      /\ Runs(chip, m2, c, <<last>>, m3, c)
  BY Numbers, RunsWrite
<1>3. Nor!ToshibaCodes = <<w>> \o Nor!ReadId \o rr \o Nor!Unlock \o <<last>>
  BY DEF Nor!ToshibaCodes
<1> HIDE DEF w, last, rr
<1>4. Runs(chip, m, codes, <<w>> \o Nor!ReadId, m1, codes)
  BY <1>2, RunsJoin DEF Identifies
<1>5. Runs(chip, m, codes, <<w>> \o Nor!ReadId \o rr, m1, c)
  BY <1>1, <1>4, RunsJoin
<1>6. Runs(chip, m, codes, <<w>> \o Nor!ReadId \o rr \o Nor!Unlock, m2, c)
  BY <1>5, RunsJoin DEF Unlocked
<1>7. Runs(chip, m, codes, <<w>> \o Nor!ReadId \o rr \o Nor!Unlock \o <<last>>, m3, c)
  BY <1>2, <1>6, RunsJoin
<1> QED
  BY <1>1, <1>3, <1>7 DEF HeardTwo

\* A word read leaves the chip in its mode.
LEMMA ReadsOn ==
  ASSUME NEW chip, NEW m, NEW address \in Nat, NEW n \in Nat
  PROVE  \A codes : \E c : Runs(chip, m, codes, <<Nor!R(address, n)>>, m, c)
<1> TAKE codes
<1>1. Runs(chip, m, codes, <<Nor!R(address, n)>>,
           m, [codes EXCEPT ![n] = Nor!Word(chip, m, address)])
  BY RunsRead
<1> QED
  BY <1>1

\* Six operations.
LEMMA RunsSix ==
  ASSUME NEW chip, NEW m, NEW codes, NEW m2, NEW codes2, NEW m3, NEW codes3,
         NEW a \in NorOps, NEW b \in NorOps, NEW c \in NorOps,
         NEW d \in NorOps, NEW e \in NorOps, NEW f \in NorOps,
         Runs(chip, m, codes, <<a, b, c>>, m2, codes2),
         Runs(chip, m2, codes2, <<d, e, f>>, m3, codes3)
  PROVE  Runs(chip, m, codes, <<a, b, c, d, e, f>>, m3, codes3)
<1>1. <<a, b, c, d, e, f>> = <<a, b, c>> \o <<d, e, f>>
  OBVIOUS
<1>2. Runs(chip, m, codes, <<a, b, c>> \o <<d, e, f>>, m3, codes3)
  BY RunsJoin
<1> QED
  BY <1>1, <1>2

\* The four words of the CFI table.
LEMMA ReadsTable ==
  ASSUME NEW chip, NEW m, NEW codes
  PROVE  \E c1, c2, c3, c4 :
           /\ Runs(chip, m, codes, <<Nor!R(16, 1)>>, m, c1)
           /\ Runs(chip, m, c1, <<Nor!R(17, 2)>>, m, c2)
           /\ Runs(chip, m, c2, <<Nor!R(18, 3)>>, m, c3)
           /\ Runs(chip, m, c3, <<Nor!R(19, 4)>>, m, c4)
<1>1. 16 \in Nat /\ 17 \in Nat /\ 18 \in Nat /\ 19 \in Nat
      /\ 1 \in Nat /\ 2 \in Nat /\ 3 \in Nat /\ 4 \in Nat
  OBVIOUS
<1>2. PICK c1 : Runs(chip, m, codes, <<Nor!R(16, 1)>>, m, c1)
  BY <1>1, ReadsOn
<1>3. PICK c2 : Runs(chip, m, c1, <<Nor!R(17, 2)>>, m, c2)
  BY <1>1, ReadsOn
<1>4. PICK c3 : Runs(chip, m, c2, <<Nor!R(18, 3)>>, m, c3)
  BY <1>1, ReadsOn
<1>5. PICK c4 : Runs(chip, m, c3, <<Nor!R(19, 4)>>, m, c4)
  BY <1>1, ReadsOn
<1> QED
  BY <1>2, <1>3, <1>4, <1>5

\* The modes a chip goes through while its CFI table is read.
CfiTurns(chip, intel_way, m, m1, m2) ==
  /\ Nor!ModeAfter(chip, m, IF intel_way THEN 0 ELSE 1365, 152) = m1
  /\ Nor!ModeAfter(chip, m1, 0, IF intel_way THEN 255 ELSE 240) = m2

\* The six words of the CFI table, of which the mode the chip is left in matters here.
LEMMA ReadsCfi ==
  ASSUME NEW chip, NEW m, NEW m1, NEW m2, NEW intel_way \in BOOLEAN, NEW codes,
         CfiTurns(chip, intel_way, m, m1, m2)
  PROVE  \E c : Runs(chip, m, codes, Nor!CfiOps(intel_way), m2, c)
<1>1. PICK address \in Nat : address = IF intel_way THEN 0 ELSE 1365
  OBVIOUS
<1>2. PICK data \in Nat : data = IF intel_way THEN 255 ELSE 240
  OBVIOUS
<1>0. 16 \in Nat /\ 17 \in Nat /\ 18 \in Nat /\ 19 \in Nat /\ 152 \in Nat
      /\ 0 \in Nat /\ 1 \in Nat /\ 2 \in Nat /\ 3 \in Nat /\ 4 \in Nat
  OBVIOUS
<1>3. PICK a \in NorOps : a = Nor!W(address, 152)
  BY <1>0, OpsTyped
<1>4. PICK r1 \in NorOps : r1 = Nor!R(16, 1)
  BY <1>0, OpsTyped
<1>5. PICK r2 \in NorOps : r2 = Nor!R(17, 2)
  BY <1>0, OpsTyped
<1>6. PICK r3 \in NorOps : r3 = Nor!R(18, 3)
  BY <1>0, OpsTyped
<1>7. PICK r4 \in NorOps : r4 = Nor!R(19, 4)
  BY <1>0, OpsTyped
<1>8. PICK z \in NorOps : z = Nor!W(0, data)
  BY <1>0, OpsTyped
<1>9. Nor!CfiOps(intel_way) = <<a, r1, r2, r3, r4, z>>
  BY <1>1, <1>2, <1>3, <1>4, <1>5, <1>6, <1>7, <1>8 DEF Nor!CfiOps
<1>10. Runs(chip, m, codes, <<a>>, m1, codes) /\ \A c : Runs(chip, m1, c, <<z>>, m2, c)
  <2>1. Nor!ModeAfter(chip, m, address, 152) = m1 /\ Nor!ModeAfter(chip, m1, 0, data) = m2
    BY <1>1, <1>2 DEF CfiTurns
  <2> QED
    BY <1>0, <1>1, <1>2, <1>3, <1>8, <2>1, RunsWrite
<1>11. PICK c1, c2, c3, c4 :
         /\ Runs(chip, m1, codes, <<r1>>, m1, c1) /\ Runs(chip, m1, c1, <<r2>>, m1, c2)
         /\ Runs(chip, m1, c2, <<r3>>, m1, c3) /\ Runs(chip, m1, c3, <<r4>>, m1, c4)
  BY <1>4, <1>5, <1>6, <1>7, ReadsTable
<1>16. Runs(chip, m, codes, <<a, r1, r2>>, m1, c2)
  BY <1>10, <1>11, RunsThree
<1>17. Runs(chip, m1, c2, <<r3, r4, z>>, m2, c4)
  BY <1>10, <1>11, RunsThree
<1>18. Runs(chip, m, codes, <<a, r1, r2, r3, r4, z>>, m2, c4)
  BY <1>3, <1>4, <1>5, <1>6, <1>7, <1>8, <1>16, <1>17, RunsSix
<1> QED
  BY <1>9, <1>18

-----------------------------------------------------------------------------
(* The tables.                                                             *)

\* What the parts of a table begin with, and how many codes they have.
Begins(p, first, lengths) == Len(p.codes) \in lengths /\ p.codes[1] \in first

\* Every part of a table has two codes or four and begins with one of its vendor's.
LEMMA VendorTables ==
  /\ \A p \in Nor!InTable(Nor!IntelParts) : Begins(p, {137, 32}, {2})
  /\ \A p \in Nor!InTable(Nor!RenesasParts) : Begins(p, {28}, {2})
  /\ \A p \in Nor!InTable(Nor!SamsungParts) : Begins(p, {236}, {2, 4})
  /\ \A p \in Nor!InTable(Nor!AmdParts) : Begins(p, {1}, {4})
  /\ \A p \in Nor!InTable(Nor!ToshibaParts) : Begins(p, {152}, {2})
<1>1. \A p \in Nor!InTable(Nor!IntelParts) : Begins(p, {137, 32}, {2})
  BY SMTT(30) DEF Nor!IntelParts, Nor!InTable, Nor!Part, Begins
<1>2. \A p \in Nor!InTable(Nor!RenesasParts) : Begins(p, {28}, {2})
  BY SMTT(30) DEF Nor!RenesasParts, Nor!InTable, Nor!Part, Begins
<1>3. \A p \in Nor!InTable(Nor!SamsungParts) : Begins(p, {236}, {2, 4})
  BY SMTT(30) DEF Nor!SamsungParts, Nor!InTable, Nor!Part, Begins
<1>4. \A p \in Nor!InTable(Nor!AmdParts) : Begins(p, {1}, {4})
  BY SMTT(60)
     DEF Nor!AmdParts, Nor!AmdOwnParts, Nor!S29WSParts, Nor!S71Parts,
         Nor!S71VSAndS29Parts, Nor!InTable, Nor!Part, Begins
<1>5. \A p \in Nor!InTable(Nor!ToshibaParts) : Begins(p, {152}, {2})
  BY SMTT(30) DEF Nor!ToshibaParts, Nor!InTable, Nor!Part, Begins
<1> QED
  BY <1>1, <1>2, <1>3, <1>4, <1>5

\* No two of Renesas' parts have the same codes.
LEMMA RenesasApart ==
  \A p, q \in Nor!InTable(Nor!RenesasParts) : p.codes[2] = q.codes[2] => p = q
<1>1. Len(Nor!RenesasParts) = 5
  BY DEF Nor!RenesasParts
<1>2. \A k, j \in 1 .. 5 :
        Nor!RenesasParts[k].codes[2] = Nor!RenesasParts[j].codes[2] => k = j
  BY DEF Nor!RenesasParts, Nor!Part
<1> QED
  BY <1>1, <1>2 DEF Nor!InTable

\* The routines, with the tables they look at.
LEMMA AskedRoutines ==
  LET nor == Nor!nor_devices_supported IN
  /\ Len(nor) = 5
  /\ /\ nor[1].codes = Nor!IntelCodes /\ nor[1].parts = Nor!IntelParts
     /\ nor[1].cfi = TRUE /\ nor[1].intel_way = TRUE
  /\ /\ nor[2].codes = Nor!RenesasCodes /\ nor[2].parts = Nor!RenesasParts
     /\ nor[2].cfi = FALSE
  /\ /\ nor[3].codes = Nor!SamsungCodes /\ nor[3].parts = Nor!SamsungParts
     /\ nor[3].cfi = TRUE /\ nor[3].intel_way = FALSE
  /\ /\ nor[4].codes = Nor!AmdCodes /\ nor[4].parts = Nor!AmdParts
     /\ nor[4].cfi = TRUE /\ nor[4].intel_way = FALSE
  /\ /\ nor[5].codes = Nor!ToshibaCodes /\ nor[5].parts = Nor!ToshibaParts
     /\ nor[5].cfi = TRUE /\ nor[5].intel_way = FALSE
BY DEF Nor!nor_devices_supported, Nor!Routine, Nor!Asks,
       Nor!DRL_NOR_Probe_Intel_Numonyx, Nor!DRL_NOR_Probe_Mitsubishi_Renesas,
       Nor!DRL_NOR_Probe_Samsung, Nor!DRL_NOR_Probe_AMD_Spansion, Nor!DRL_NOR_Probe_Toshiba

\* The parts of a family are those of its tables.
LEMMA Families ==
  /\ Nor!PartsOf("intel") = Nor!InTable(Nor!IntelParts) \cup Nor!InTable(Nor!RenesasParts)
  /\ Nor!PartsOf("amd") = Nor!InTable(Nor!SamsungParts) \cup Nor!InTable(Nor!AmdParts)
                            \cup Nor!InTable(Nor!ToshibaParts)
  /\ Nor!PartsOf("none") = {}
<1>1. "intel" # "amd" /\ "none" # "amd" /\ "intel" # "none"
  OBVIOUS
<1>2. /\ Nor!Tables("intel") = {Nor!IntelParts, Nor!RenesasParts}
      /\ Nor!Tables("amd") = {Nor!SamsungParts, Nor!AmdParts, Nor!ToshibaParts}
      /\ Nor!Tables("none") = {}
  BY <1>1 DEF Nor!Tables
<1>3. \A family : Nor!PartsOf(family) = UNION {Nor!InTable(t) : t \in Nor!Tables(family)}
  BY DEF Nor!PartsOf, Nor!InTable
<1> QED
  BY <1>2, <1>3

\* The placeholder is in no table, and no part begins with what the array holds.
LEMMA PartsAreParts ==
  ASSUME NEW r \in 1 .. 5, NEW p \in Nor!InTable(Nor!nor_devices_supported[r].parts)
  PROVE  /\ p # Nor!NoPart /\ Len(p.codes) \in {2, 4} /\ p.codes[1] # 65535
         /\ p.codes[1] \in Nat
         /\ r = 1 => /\ p \in Nor!InTable(Nor!IntelParts) /\ Len(p.codes) = 2
                     /\ p.codes[1] \in {137, 32}
         /\ r = 2 => p \in Nor!InTable(Nor!RenesasParts) /\ Len(p.codes) = 2 /\ p.codes[1] = 28
         /\ r = 3 => p \in Nor!InTable(Nor!SamsungParts) /\ p.codes[1] = 236
         /\ r = 4 => p \in Nor!InTable(Nor!AmdParts) /\ Len(p.codes) = 4 /\ p.codes[1] = 1
         /\ r = 5 => p \in Nor!InTable(Nor!ToshibaParts) /\ Len(p.codes) = 2 /\ p.codes[1] = 152
<1>1. CASE r = 1
  <2>1. p \in Nor!InTable(Nor!IntelParts)
    BY <1>1, AskedRoutines
  <2> QED
    BY <1>1, <2>1, VendorTables DEF Begins, Nor!NoPart, Nor!Part
<1>2. CASE r = 2
  <2>1. p \in Nor!InTable(Nor!RenesasParts)
    BY <1>2, AskedRoutines
  <2> QED
    BY <1>2, <2>1, VendorTables DEF Begins, Nor!NoPart, Nor!Part
<1>3. CASE r = 3
  <2>1. p \in Nor!InTable(Nor!SamsungParts)
    BY <1>3, AskedRoutines
  <2> QED
    BY <1>3, <2>1, VendorTables DEF Begins, Nor!NoPart, Nor!Part
<1>4. CASE r = 4
  <2>1. p \in Nor!InTable(Nor!AmdParts)
    BY <1>4, AskedRoutines
  <2> QED
    BY <1>4, <2>1, VendorTables DEF Begins, Nor!NoPart, Nor!Part
<1>5. CASE r = 5
  <2>1. p \in Nor!InTable(Nor!ToshibaParts)
    BY <1>5, AskedRoutines
  <2> QED
    BY <1>5, <2>1, VendorTables DEF Begins, Nor!NoPart, Nor!Part
<1>6. r = 1 \/ r = 2 \/ r = 3 \/ r = 4 \/ r = 5
  OBVIOUS
<1> QED
  BY <1>1, <1>2, <1>3, <1>4, <1>5, <1>6

\* What a look at a table finds: the first part all of whose codes were read, or no
\* part when there is none.
LEMMA Found ==
  ASSUME NEW r \in 1 .. 5, NEW codes, NEW parts, parts = Nor!nor_devices_supported[r].parts
  PROVE  LET hit == Nor!Match(parts, codes) IN
         /\ hit # Nor!NoPart => hit \in Nor!InTable(parts) /\ Nor!Matches(hit, codes)
         /\ hit = Nor!NoPart => \A p \in Nor!InTable(parts) : ~Nor!Matches(p, codes)
<1> DEFINE hits == {k \in 1 .. Len(parts) : Nor!Matches(parts[k], codes)}
           first == CHOOSE k \in hits : \A j \in hits : k <= j
           hit == Nor!Match(parts, codes)
<1>1. hit = IF hits = {} THEN Nor!NoPart ELSE parts[first]
  BY DEF Nor!Match
<1>2. ASSUME hits # {} PROVE first \in hits
  <2>1. hits \in SUBSET Nat
    OBVIOUS
  <2> HIDE DEF hits
  <2>2. \E k \in hits : \A j \in hits : k <= j
    BY <1>2, <2>1, LeastWord
  <2> QED
    BY <2>2
<1> HIDE DEF first
<1>3. ASSUME hits # {} PROVE hit \in Nor!InTable(parts) /\ Nor!Matches(hit, codes)
  BY <1>1, <1>2, <1>3 DEF Nor!InTable
<1>4. ASSUME hits # {} PROVE hit # Nor!NoPart
  BY <1>3, <1>4, PartsAreParts
<1>5. hits = {} => \A p \in Nor!InTable(parts) : ~Nor!Matches(p, codes)
  BY DEF Nor!InTable
<1> QED
  BY <1>1, <1>3, <1>4, <1>5

-----------------------------------------------------------------------------
(* What a routine leaves, of each family of chips.                         *)

\* A chip of the Intel family gives its codes to every routine, and the routines of its
\* family take it back to its array.
LEMMA AsksIntel ==
  ASSUME NEW chip, chip.family = "intel", chip.codes \in Codes,
         NEW m, NEW codes \in Codes, NEW r \in 1 .. 5
  PROVE  \E m2, c :
           /\ Runs(chip, m, codes, Nor!nor_devices_supported[r].codes, m2, c)
           /\ c \in Codes /\ c[1] = chip.codes[1] /\ c[2] = chip.codes[2]
           /\ r <= 2 => m2 = "array"
<1>1. \A address \in {0, 1, 14, 15} : Nor!Word(chip, "id", address) \in Nat
  BY WordsRead DEF Codes
<1>2. Nor!Word(chip, "id", 0) = chip.codes[1] /\ Nor!Word(chip, "id", 1) = chip.codes[2]
  BY WordsRead
<1>3. PICK c \in Codes :
        /\ Runs(chip, m, codes, Nor!IntelCodes, "array", c)
        /\ Runs(chip, m, codes, Nor!RenesasCodes, "array", c)
        /\ c[1] = chip.codes[1] /\ c[2] = chip.codes[2]
  <2>1. /\ Nor!ModeAfter(chip, m, 0, 80) = m /\ Nor!ModeAfter(chip, m, 0, 255) = "array"
        /\ Nor!ModeAfter(chip, "array", 0, 144) = "id"
        /\ Nor!ModeAfter(chip, "id", 0, 255) = "array"
    BY IntelWords
  <2> QED
    BY <1>1, <1>2, <2>1, AsksPlainly
<1>4. /\ \A m0 : Identifies(chip, m0, "id")
      /\ Unlocked(chip, "id", "id") /\ Gives(chip, "id")
  <2> SUFFICES ASSUME NEW m0, NEW c0
               PROVE  /\ Runs(chip, m0, c0, Nor!Unlock, m0, c0)
                      /\ Runs(chip, m0, c0, Nor!ReadId, "id", c0)
    BY <1>1 DEF Identifies, Unlocked, Gives
  <2>1. /\ Nor!ModeAfter(chip, m0, 1365, 170) = m0 /\ Nor!ModeAfter(chip, m0, 682, 85) = m0
        /\ Nor!ModeAfter(chip, m0, 1365, 144) = "id"
    BY IntelWords
  <2> QED
    BY <2>1, Unlocks
<1>5. /\ Nor!ModeAfter(chip, m, 0, 240) = m /\ Nor!ModeAfter(chip, "id", 0, 240) = "id"
      /\ Nor!ModeAfter(chip, "id", 1365, 240) = "id"
  BY IntelWords
<1>6. /\ \E d \in Codes : /\ Runs(chip, m, codes, Nor!SamsungCodes, "id", d)
                          /\ d[1] = chip.codes[1] /\ d[2] = chip.codes[2]
      /\ \E d \in Codes : /\ Runs(chip, m, codes, Nor!AmdCodes, "id", d)
                          /\ d[1] = chip.codes[1] /\ d[2] = chip.codes[2]
  <2>1. /\ HeardTwo(chip, m, codes, Nor!SamsungCodes, "id", "id")
        /\ HeardFour(chip, m, codes, Nor!AmdCodes, "id", "id")
    BY <1>4, <1>5, AsksUnlocked
  <2> QED
    BY <1>2, <2>1 DEF HeardTwo, HeardFour
<1>7. \E d \in Codes : /\ Runs(chip, m, codes, Nor!ToshibaCodes, "id", d)
                       /\ d[1] = chip.codes[1] /\ d[2] = chip.codes[2]
  <2>1. HeardTwo(chip, m, codes, Nor!ToshibaCodes, "id", "id")
    BY <1>4, <1>5, AsksToshiba
  <2> QED
    BY <1>2, <2>1 DEF HeardTwo
<1>8. CASE r = 1
  BY <1>3, <1>8, AskedRoutines
<1>9. CASE r = 2
  BY <1>3, <1>9, AskedRoutines
<1>10. CASE r = 3
  BY <1>6, <1>10, AskedRoutines
<1>11. CASE r = 4
  BY <1>6, <1>11, AskedRoutines
<1>12. CASE r = 5
  BY <1>7, <1>12, AskedRoutines
<1> QED
  BY <1>8, <1>9, <1>10, <1>11, <1>12

\* A chip of the AMD family, or no chip, ends every routine in its array.  The routines
\* of Intel's family read the array; the others read the codes of the chip.
HeardOfAmd(chip, codes, r, c) ==
  /\ c \in Codes
  /\ Runs(chip, "array", codes, Nor!nor_devices_supported[r].codes, "array", c)
  /\ r <= 2 => c[1] = 65535
  /\ r >= 3 => c[1] = chip.codes[1] /\ c[2] = chip.codes[2]
  /\ r = 4 => c[3] = chip.codes[3] /\ c[4] = chip.codes[4]

\* The routines on a chip of the AMD family.
LEMMA AsksAmd ==
  ASSUME NEW chip, chip.family = "amd", chip.codes \in Codes,
         NEW codes \in Codes, NEW r \in 1 .. 5
  PROVE  \E c : HeardOfAmd(chip, codes, r, c)
<1>1. \A address \in {0, 1, 14, 15} : Nor!Word(chip, "id", address) \in Nat
  BY WordsRead DEF Codes
<1>2. /\ Nor!Word(chip, "id", 0) = chip.codes[1] /\ Nor!Word(chip, "id", 1) = chip.codes[2]
      /\ Nor!Word(chip, "id", 14) = chip.codes[3] /\ Nor!Word(chip, "id", 15) = chip.codes[4]
      /\ Nor!Word(chip, "array", 0) = 65535 /\ Nor!Word(chip, "array", 1) = 65535
  BY WordsRead
<1>3. PICK c \in Codes :
        /\ Runs(chip, "array", codes, Nor!IntelCodes, "array", c)
        /\ Runs(chip, "array", codes, Nor!RenesasCodes, "array", c)
        /\ c[1] = 65535
  <2>1. \A data \in {80, 144, 255} : Nor!ModeAfter(chip, "array", 0, data) = "array"
    BY AmdWords
  <2>2. 65535 \in Nat
    OBVIOUS
  <2> QED
    BY <1>2, <2>1, <2>2, AsksPlainly
<1>4. /\ \A m0 : Identifies(chip, m0, "id")
      /\ Unlocked(chip, "id", "unlock2") /\ Gives(chip, "id")
  <2> SUFFICES ASSUME NEW m0, NEW c0
               PROVE  /\ Runs(chip, m0, c0, Nor!Unlock, "unlock2", c0)
                      /\ Runs(chip, m0, c0, Nor!ReadId, "id", c0)
    BY <1>1 DEF Identifies, Unlocked, Gives
  <2>1. /\ Nor!ModeAfter(chip, m0, 1365, 170) = "unlock1"
        /\ Nor!ModeAfter(chip, "unlock1", 682, 85) = "unlock2"
        /\ Nor!ModeAfter(chip, "unlock2", 1365, 144) = "id"
    BY AmdWords
  <2> QED
    BY <2>1, Unlocks
<1>5. \A m, address : Nor!ModeAfter(chip, m, address, 240) = "array"
  BY AmdWords
<1>6. /\ \E d \in Codes : /\ Runs(chip, "array", codes, Nor!SamsungCodes, "array", d)
                          /\ d[1] = chip.codes[1] /\ d[2] = chip.codes[2]
      /\ \E d \in Codes : /\ Runs(chip, "array", codes, Nor!AmdCodes, "array", d)
                          /\ d[1] = chip.codes[1] /\ d[2] = chip.codes[2]
                          /\ d[3] = chip.codes[3] /\ d[4] = chip.codes[4]
  <2>1. /\ HeardTwo(chip, "array", codes, Nor!SamsungCodes, "id", "array")
        /\ HeardFour(chip, "array", codes, Nor!AmdCodes, "id", "array")
    BY <1>4, <1>5, AsksUnlocked
  <2> QED
    BY <1>2, <2>1 DEF HeardTwo, HeardFour
<1>7. \E d \in Codes : /\ Runs(chip, "array", codes, Nor!ToshibaCodes, "array", d)
                       /\ d[1] = chip.codes[1] /\ d[2] = chip.codes[2]
  <2>1. HeardTwo(chip, "array", codes, Nor!ToshibaCodes, "id", "array")
    BY <1>4, <1>5, AsksToshiba
  <2> QED
    BY <1>2, <2>1 DEF HeardTwo
<1>8. CASE r = 1
  BY <1>3, <1>8, AskedRoutines DEF HeardOfAmd
<1>9. CASE r = 2
  BY <1>3, <1>9, AskedRoutines DEF HeardOfAmd
<1>10. CASE r = 3
  BY <1>6, <1>10, AskedRoutines DEF HeardOfAmd
<1>11. CASE r = 4
  BY <1>6, <1>11, AskedRoutines DEF HeardOfAmd
<1>12. CASE r = 5
  BY <1>7, <1>12, AskedRoutines DEF HeardOfAmd
<1> QED
  BY <1>8, <1>9, <1>10, <1>11, <1>12

\* Where there is no chip, every routine reads what the empty bus gives.
HeardOfNone(chip, codes, r, c) ==
  /\ c \in Codes /\ c[1] = 65535
  /\ Runs(chip, "array", codes, Nor!nor_devices_supported[r].codes, "array", c)

\* The routines where there is no chip.
LEMMA AsksNone ==
  ASSUME NEW chip, chip.family = "none", NEW codes \in Codes, NEW r \in 1 .. 5
  PROVE  \E c : HeardOfNone(chip, codes, r, c)
<1>1. \A address \in {0, 1, 14, 15} : /\ Nor!Word(chip, "array", address) = 65535
                                      /\ Nor!Word(chip, "array", address) \in Nat
  <2>1. 65535 \in Nat
    OBVIOUS
  <2> QED
    BY <2>1, WordsRead
<1>2. \A address, data : Nor!ModeAfter(chip, "array", address, data) = "array"
  BY NoWords
<1>3. PICK c \in Codes :
        /\ Runs(chip, "array", codes, Nor!IntelCodes, "array", c)
        /\ Runs(chip, "array", codes, Nor!RenesasCodes, "array", c)
        /\ c[1] = 65535
  BY <1>1, <1>2, AsksPlainly
<1>4. /\ Identifies(chip, "array", "array")
      /\ Unlocked(chip, "array", "array") /\ Gives(chip, "array")
  <2>1. \A c0 : /\ Runs(chip, "array", c0, Nor!Unlock, "array", c0)
                /\ Runs(chip, "array", c0, Nor!ReadId, "array", c0)
    BY <1>2, Unlocks
  <2> QED
    BY <1>1, <2>1 DEF Identifies, Unlocked, Gives
<1>6. /\ \E d \in Codes : /\ Runs(chip, "array", codes, Nor!SamsungCodes, "array", d)
                          /\ d[1] = 65535
      /\ \E d \in Codes : /\ Runs(chip, "array", codes, Nor!AmdCodes, "array", d)
                          /\ d[1] = 65535
  <2>1. /\ HeardTwo(chip, "array", codes, Nor!SamsungCodes, "array", "array")
        /\ HeardFour(chip, "array", codes, Nor!AmdCodes, "array", "array")
    BY <1>2, <1>4, AsksUnlocked
  <2> QED
    BY <1>1, <2>1 DEF HeardTwo, HeardFour
<1>7. \E d \in Codes : /\ Runs(chip, "array", codes, Nor!ToshibaCodes, "array", d)
                       /\ d[1] = 65535
  <2>1. HeardTwo(chip, "array", codes, Nor!ToshibaCodes, "array", "array")
    BY <1>2, <1>4, AsksToshiba
  <2> QED
    BY <1>1, <2>1 DEF HeardTwo
<1>8. CASE r = 1
  BY <1>3, <1>8, AskedRoutines DEF HeardOfNone
<1>9. CASE r = 2
  BY <1>3, <1>9, AskedRoutines DEF HeardOfNone
<1>10. CASE r = 3
  BY <1>6, <1>10, AskedRoutines DEF HeardOfNone
<1>11. CASE r = 4
  BY <1>6, <1>11, AskedRoutines DEF HeardOfNone
<1>12. CASE r = 5
  BY <1>7, <1>12, AskedRoutines DEF HeardOfNone
<1> QED
  BY <1>8, <1>9, <1>10, <1>11, <1>12

\* The table of a recognised part's routine is read and the chip taken back to its array,
\* with the words of its own family.
LEMMA CfiLeaves ==
  ASSUME NEW chip, NEW intel_way \in BOOLEAN, NEW codes,
         intel_way => chip.family = "intel", ~intel_way => chip.family = "amd"
  PROVE  \E c : Runs(chip, "array", codes, Nor!CfiOps(intel_way), "array", c)
<1>1. CASE intel_way
  <2>1. /\ Nor!ModeAfter(chip, "array", 0, 152) = "cfi"
        /\ Nor!ModeAfter(chip, "cfi", 0, 255) = "array"
    BY <1>1, IntelWords
  <2>2. CfiTurns(chip, intel_way, "array", "cfi", "array")
    BY <1>1, <2>1 DEF CfiTurns
  <2> QED
    BY <2>2, ReadsCfi
<1>2. CASE ~intel_way
  <2>1. /\ Nor!ModeAfter(chip, "array", 1365, 152) = "cfi"
        /\ Nor!ModeAfter(chip, "cfi", 0, 240) = "array"
    BY <1>2, AmdWords
  <2>2. CfiTurns(chip, intel_way, "array", "cfi", "array")
    BY <1>2, <2>1 DEF CfiTurns
  <2> QED
    BY <2>2, ReadsCfi
<1> QED
  BY <1>1, <1>2

-----------------------------------------------------------------------------
(* The probe of the two addresses.                                         *)

\* What ChipsAreTold says of a chip.
Told(chip) ==
  /\ chip.family \in {"intel", "amd", "none"} /\ chip.codes \in Codes
  /\ chip.family = "intel" =>
       \A p \in Nor!PartsOf("amd") : p.codes[1] # chip.codes[1] \/ p.codes[2] # chip.codes[2]
  /\ chip.family = "amd" =>
       \A p \in Nor!InTable(Nor!SamsungParts) :
         p.codes[1] = chip.codes[1] /\ p.codes[2] = chip.codes[2] => p \in Nor!Identity(chip)
  /\ chip.set = 0 => Nor!Identity(chip) \subseteq Nor!InTable(Nor!RenesasParts)

\* Every chip of every board is such a chip.
LEMMA BoardsTold ==
  \A board \in Boards : \A d \in 1 .. 2 : Told(board[d])
BY ChipsAssumption DEF Nor!ChipsAreTold, Told, Codes

\* A part is the chip's when it is of the chip's family and has its codes.
LEMMA IdentityOf ==
  ASSUME NEW chip, NEW p
  PROVE  p \in Nor!Identity(chip) <=>
           p \in Nor!PartsOf(chip.family) /\ Nor!Matches(p, chip.codes)
BY DEF Nor!Identity, Nor!Matches

\* Parts that have two codes, or all of four, are matched by those.
LEMMA MatchesBy ==
  ASSUME NEW p, Len(p.codes) \in {2, 4}, NEW a, NEW b, a[1] = b[1], a[2] = b[2],
         Len(p.codes) = 4 => a[3] = b[3] /\ a[4] = b[4]
  PROVE  Nor!Matches(p, a) <=> Nor!Matches(p, b)
<1>1. CASE Len(p.codes) = 2
  <2>1. 1 .. Len(p.codes) = {1, 2}
    BY <1>1
  <2> QED
    BY <2>1 DEF Nor!Matches
<1>2. CASE Len(p.codes) = 4
  <2>1. 1 .. Len(p.codes) = {1, 2, 3, 4}
    BY <1>2
  <2> QED
    BY <1>2, <2>1 DEF Nor!Matches
<1> QED
  BY <1>1, <1>2

\* A part that matches begins with the codes read.
LEMMA MatchesFirst ==
  ASSUME NEW p, Len(p.codes) \in {2, 4}, NEW codes, Nor!Matches(p, codes)
  PROVE  p.codes[1] = codes[1] /\ p.codes[2] = codes[2]
<1>1. 1 \in 1 .. Len(p.codes) /\ 2 \in 1 .. Len(p.codes)
  OBVIOUS
<1> QED
  BY <1>1 DEF Nor!Matches

\* One routine and its look at its table, on a chip of each family.
AskedRight(chip, r, st, hit) ==
  /\ st.codes \in Codes
  /\ hit # Nor!NoPart =>
       /\ hit \in Nor!Identity(chip) /\ hit \in Nor!InTable(Nor!nor_devices_supported[r].parts)
       /\ r <= 2 <=> chip.family = "intel"
       /\ chip.family \in {"intel", "amd"}
  /\ chip.family # "intel" \/ r <= 2 => st.mode = "array"
  /\ hit = Nor!NoPart /\ chip.family = "intel" /\ r <= 2 =>
       \A p \in Nor!InTable(Nor!nor_devices_supported[r].parts) : p \notin Nor!Identity(chip)

\* A routine on a chip of Intel's family.
LEMMA AskedIntel ==
  ASSUME NEW chip, Told(chip), chip.family = "intel", NEW m, NEW codes \in Codes,
         NEW r \in 1 .. 5, NEW st, NEW hit,
         st = Nor!Ran(chip, m, codes, Nor!nor_devices_supported[r].codes),
         hit = Nor!Match(Nor!nor_devices_supported[r].parts, st.codes)
  PROVE  AskedRight(chip, r, st, hit)
<1> DEFINE parts == Nor!nor_devices_supported[r].parts
<1>1. PICK m2, c :
        /\ Runs(chip, m, codes, Nor!nor_devices_supported[r].codes, m2, c)
        /\ c \in Codes /\ c[1] = chip.codes[1] /\ c[2] = chip.codes[2]
        /\ r <= 2 => m2 = "array"
  <2>1. chip.codes \in Codes
    BY DEF Told
  <2> QED
    BY <2>1, AsksIntel
<1>2. st.codes = c /\ st.mode = m2
  BY <1>1 DEF Runs
<1>3. ASSUME NEW p \in Nor!InTable(parts), r <= 2
      PROVE  Nor!Matches(p, c) <=> p \in Nor!Identity(chip)
  <2>1. Len(p.codes) = 2
    BY <1>3, PartsAreParts
  <2>2. Nor!Matches(p, c) <=> Nor!Matches(p, chip.codes)
    BY <1>1, <2>1, MatchesBy
  <2>3. p \in Nor!PartsOf("intel")
    <3>1. r = 1 \/ r = 2
      BY <1>3
    <3> QED
      BY <3>1, PartsAreParts, Families
  <2> QED
    BY <2>2, <2>3, IdentityOf
<1>4. ASSUME NEW p \in Nor!InTable(parts), r > 2 PROVE ~Nor!Matches(p, c)
  <2> SUFFICES ASSUME Nor!Matches(p, c) PROVE FALSE
    OBVIOUS
  <2>1. p.codes[1] = chip.codes[1] /\ p.codes[2] = chip.codes[2]
    BY <1>1, PartsAreParts, MatchesFirst
  <2>2. p \in Nor!PartsOf("amd")
    <3>1. r = 3 \/ r = 4 \/ r = 5
      BY <1>4
    <3> QED
      BY <3>1, PartsAreParts, Families
  <2> QED
    BY <2>1, <2>2 DEF Told
<1>5. /\ hit # Nor!NoPart => hit \in Nor!InTable(parts) /\ Nor!Matches(hit, c)
      /\ hit = Nor!NoPart => \A p \in Nor!InTable(parts) : ~Nor!Matches(p, c)
  BY <1>2, Found
<1> HIDE DEF parts
<1>6. r <= 2 \/ r > 2
  OBVIOUS
<1>7. ASSUME hit # Nor!NoPart PROVE r <= 2 /\ hit \in Nor!Identity(chip)
  BY <1>3, <1>4, <1>5, <1>6, <1>7
<1>8. ASSUME hit = Nor!NoPart, r <= 2
      PROVE  \A p \in Nor!InTable(parts) : p \notin Nor!Identity(chip)
  BY <1>3, <1>5, <1>8
<1> QED
  BY <1>1, <1>2, <1>5, <1>7, <1>8 DEF AskedRight, parts

\* A routine on a chip of the AMD family.
LEMMA AskedAmd ==
  ASSUME NEW chip, Told(chip), chip.family = "amd", NEW codes \in Codes,
         NEW r \in 1 .. 5, NEW st, NEW hit,
         st = Nor!Ran(chip, "array", codes, Nor!nor_devices_supported[r].codes),
         hit = Nor!Match(Nor!nor_devices_supported[r].parts, st.codes)
  PROVE  AskedRight(chip, r, st, hit)
<1> DEFINE parts == Nor!nor_devices_supported[r].parts
<1>1. PICK c : HeardOfAmd(chip, codes, r, c)
  <2>1. chip.codes \in Codes
    BY DEF Told
  <2> QED
    BY <2>1, AsksAmd
<1>2. st.codes = c /\ st.mode = "array" /\ "amd" # "intel"
  BY <1>1 DEF HeardOfAmd, Runs
<1>3. ASSUME NEW p \in Nor!InTable(parts), Nor!Matches(p, c)
      PROVE  r > 2 /\ p \in Nor!Identity(chip)
  <2>1. p.codes[1] = c[1] /\ p.codes[2] = c[2]
    BY <1>3, PartsAreParts, MatchesFirst
  <2>2. r > 2
    <3>1. p.codes[1] # 65535
      BY PartsAreParts
    <3> QED
      BY <1>1, <2>1, <3>1 DEF HeardOfAmd
  <2>3. CASE r = 3
    <3>1. p \in Nor!InTable(Nor!SamsungParts)
      BY <2>3, PartsAreParts
    <3> QED
      BY <1>1, <2>1, <2>3, <3>1 DEF HeardOfAmd, Told
  <2>4. CASE r = 4
    <3>1. p \in Nor!PartsOf("amd") /\ Len(p.codes) = 4
      BY <2>4, PartsAreParts, Families
    <3>2. Nor!Matches(p, chip.codes)
      BY <1>1, <1>3, <2>4, <3>1, MatchesBy DEF HeardOfAmd
    <3> QED
      BY <2>4, <3>1, <3>2, IdentityOf
  <2>5. CASE r = 5
    <3>1. p \in Nor!PartsOf("amd") /\ Len(p.codes) = 2
      BY <2>5, PartsAreParts, Families
    <3>2. Nor!Matches(p, chip.codes)
      BY <1>1, <1>3, <2>5, <3>1, MatchesBy DEF HeardOfAmd
    <3> QED
      BY <2>5, <3>1, <3>2, IdentityOf
  <2> QED
    BY <2>2, <2>3, <2>4, <2>5
<1>4. hit # Nor!NoPart => hit \in Nor!InTable(parts) /\ Nor!Matches(hit, c)
  BY <1>2, Found
<1> HIDE DEF parts
<1>5. hit # Nor!NoPart => r > 2 /\ hit \in Nor!Identity(chip) /\ hit \in Nor!InTable(parts)
  BY <1>3, <1>4
<1> QED
  BY <1>1, <1>2, <1>5 DEF HeardOfAmd, AskedRight, parts

\* A routine where there is no chip.
LEMMA AskedNone ==
  ASSUME NEW chip, chip.family = "none", NEW codes \in Codes,
         NEW r \in 1 .. 5, NEW st, NEW hit,
         st = Nor!Ran(chip, "array", codes, Nor!nor_devices_supported[r].codes),
         hit = Nor!Match(Nor!nor_devices_supported[r].parts, st.codes)
  PROVE  AskedRight(chip, r, st, hit)
<1>1. PICK c : HeardOfNone(chip, codes, r, c)
  BY AsksNone
<1>2. st.codes = c /\ st.mode = "array" /\ "none" # "intel"
  BY <1>1 DEF HeardOfNone, Runs
<1>3. hit = Nor!NoPart
  <2> SUFFICES ASSUME hit # Nor!NoPart PROVE FALSE
    OBVIOUS
  <2>1. /\ hit \in Nor!InTable(Nor!nor_devices_supported[r].parts)
        /\ Nor!Matches(hit, c)
    BY <1>2, Found
  <2>2. hit.codes[1] = c[1] /\ hit.codes[1] # 65535
    BY <2>1, PartsAreParts, MatchesFirst
  <2> QED
    BY <1>1, <2>2 DEF HeardOfNone
<1> QED
  BY <1>1, <1>2, <1>3 DEF HeardOfNone, AskedRight

\* A chip with its codes in a table of its family.
Listable(d) == Nor!Identity(chips[d]) # {}

\* The parts the routines before the one at hand would have known.
Passed(d, p) ==
  \E r \in 1 .. 2 : r < probe /\ p \in Nor!InTable(Nor!nor_devices_supported[r].parts)

NorTyped ==
  /\ chips \in Boards /\ dev \in 1 .. 3 /\ probe \in 1 .. 6
  /\ nor_read_id_codes \in Codes
  /\ mode = [d \in 1 .. 2 |-> mode[d]] /\ found = [d \in 1 .. 2 |-> found[d]]
  /\ i <= 2 => dev = i
  /\ i > 2 => dev = 3

\* Only a chip of the Intel family is ever left in a command mode, and none that a
\* routine knows.
NorModes ==
  \A d \in 1 .. 2 :
    /\ chips[d].family # "intel" => mode[d] = "array"
    /\ d < dev /\ Listable(d) => mode[d] = "array"

\* The part matched is the chip's, from the table of the routine at hand, and a chip
\* none of whose family's routines has known is none of their parts.
NorAsked ==
  /\ part # Nor!NoPart =>
       /\ dev <= 2 /\ probe <= 5 /\ part \in Nor!Identity(chips[dev])
       /\ part \in Nor!InTable(Nor!nor_devices_supported[probe].parts)
       /\ probe <= 2 <=> chips[dev].family = "intel"
       /\ chips[dev].family \in {"intel", "amd"}
       /\ mode[dev] = "array"
  /\ part = Nor!NoPart /\ dev <= 2 /\ chips[dev].family = "intel" =>
       \A p \in Nor!Identity(chips[dev]) : ~Passed(dev, p)

\* What is known of an address done.
NorNamed ==
  \A d \in 1 .. 2 :
    d < dev =>
      /\ found[d].name \in {p.name : p \in Nor!Identity(chips[d])} \cup {"UNKNOWN"}
      /\ chips[d].set = 0 => \A p \in Nor!Identity(chips[d]) : found[d].name = p.name
      /\ mem[d].name = NameLength[found[d].name]

NorInv == NorTyped /\ NorModes /\ NorAsked /\ NorNamed

\* What the proof takes from the table of the devices.
MemTyped == i \in 1 .. (DEVICES + 1) /\ DOMAIN mem = 1 .. DEVICES

\* The two chips are as the probe presumes them.
LEMMA ChipsTold ==
  ASSUME NorTyped
  PROVE  Len(chips) = 2 /\ \A d \in 1 .. 2 : Told(chips[d])
BY BoardsTold, NorAssumption DEF NorTyped

\* The invariant at the start.
LEMMA NorStarts == StartupInit => NorInv
<1> SUFFICES ASSUME StartupInit PROVE NorInv
  OBVIOUS
<1>1. /\ chips \in Boards /\ mode = [d \in 1 .. 2 |-> "array"] /\ dev = 1 /\ probe = 1 /\ i = 1
      /\ nor_read_id_codes = <<0, 0, 0, 0>> /\ part = Nor!NoPart
      /\ found = [d \in 1 .. 2 |-> Nor!Nothing]
  BY DEF StartupInit, Init, Nor!Init
<1>2. nor_read_id_codes \in Codes
  BY <1>1 DEF Codes
<1>3. NorTyped
  BY <1>1, <1>2 DEF NorTyped
<1>4. NorModes /\ NorNamed
  BY <1>1 DEF NorModes, NorNamed
<1>5. NorAsked
  BY <1>1 DEF NorAsked, Passed
<1> QED
  BY <1>3, <1>4, <1>5 DEF NorInv

\* A routine's turn keeps it.
LEMMA NorAsks ==
  ASSUME NorInv, AskVendor
  PROVE  NorInv'
<1>0. NorTyped /\ NorModes /\ NorAsked /\ NorNamed
  BY DEF NorInv
<1>1. Nor!AskVendor /\ UNCHANGED vars
  BY DEF AskVendor
<1>2. dev \in 1 .. 2 /\ probe \in 1 .. 5 /\ part = Nor!NoPart
  BY <1>0, <1>1, ChipsTold, AskedRoutines DEF Nor!AskVendor, Nor!Probing, Nor!Addresses
<1> DEFINE asked == Nor!nor_devices_supported[probe]
<1>3. PICK st : st = Nor!Ran(chips[dev], mode[dev], nor_read_id_codes, asked.codes)
  OBVIOUS
<1>4. PICK hit : hit = Nor!Match(asked.parts, st.codes)
  OBVIOUS
<1>5. /\ mode' = [mode EXCEPT ![dev] = st.mode] /\ nor_read_id_codes' = st.codes
      /\ part' = hit /\ probe' = (IF hit = Nor!NoPart THEN probe + 1 ELSE probe)
      /\ UNCHANGED <<chips, dev, found>>
  BY <1>1, <1>3, <1>4 DEF Nor!AskVendor
<1>6. AskedRight(chips[dev], probe, st, hit)
  <2>1. Told(chips[dev])
    BY <1>0, <1>2, ChipsTold
  <2>2. nor_read_id_codes \in Codes
    BY <1>0 DEF NorTyped
  <2>3. CASE chips[dev].family = "intel"
    BY <1>2, <1>3, <1>4, <2>1, <2>2, <2>3, AskedIntel
  <2>4. ASSUME chips[dev].family # "intel" PROVE mode[dev] = "array"
    BY <1>0, <1>2, <2>4 DEF NorModes
  <2>5. CASE chips[dev].family = "amd"
    <3>1. st = Nor!Ran(chips[dev], "array", nor_read_id_codes, asked.codes)
      BY <1>3, <2>4, <2>5
    <3> QED
      BY <1>2, <1>4, <2>1, <2>2, <2>5, <3>1, AskedAmd
  <2>6. CASE chips[dev].family = "none"
    <3>1. st = Nor!Ran(chips[dev], "array", nor_read_id_codes, asked.codes)
      BY <1>3, <2>4, <2>6
    <3> QED
      BY <1>2, <1>4, <2>2, <2>6, <3>1, AskedNone
  <2> QED
    BY <2>1, <2>3, <2>5, <2>6 DEF Told
<1>7. /\ \A d \in 1 .. 2 : d # dev => mode'[d] = mode[d]
      /\ mode'[dev] = st.mode /\ mode' = [d \in 1 .. 2 |-> mode'[d]]
  BY <1>0, <1>2, <1>5 DEF NorTyped
<1>8. NorTyped'
  <2>1. probe' \in 1 .. 6
    BY <1>2, <1>5
  <2>2. nor_read_id_codes' \in Codes
    BY <1>5, <1>6 DEF AskedRight
  <2>3. i' = i
    BY <1>1 DEF vars
  <2> QED
    BY <1>0, <1>5, <1>7, <2>1, <2>2, <2>3 DEF NorTyped
<1>9. NorModes'
  <2> SUFFICES ASSUME NEW d \in 1 .. 2
               PROVE  /\ chips[d].family # "intel" => mode'[d] = "array"
                      /\ d < dev /\ Listable(d) => mode'[d] = "array"
    BY <1>5 DEF NorModes, Listable
  <2>1. CASE d = dev
    BY <1>2, <1>6, <1>7, <2>1 DEF AskedRight
  <2>2. CASE d # dev
    BY <1>0, <1>7, <2>2 DEF NorModes
  <2> QED
    BY <2>1, <2>2
<1>10. NorAsked'
  <2>1. ASSUME hit # Nor!NoPart
        PROVE  /\ probe' = probe /\ hit \in Nor!Identity(chips[dev])
               /\ hit \in Nor!InTable(asked.parts)
               /\ probe <= 2 <=> chips[dev].family = "intel"
               /\ chips[dev].family \in {"intel", "amd"}
               /\ mode'[dev] = "array"
    BY <1>5, <1>6, <1>7, <2>1 DEF AskedRight
  <2>2. ASSUME hit = Nor!NoPart, chips[dev].family = "intel",
               NEW p \in Nor!Identity(chips[dev])
        PROVE  ~Passed(dev, p)'
    <3>1. ~Passed(dev, p)
      BY <1>0, <1>2, <2>2 DEF NorAsked
    <3>2. probe' = probe + 1 /\ dev' = dev
      BY <1>5, <2>2
    <3>3. probe <= 2 => p \notin Nor!InTable(asked.parts)
      BY <1>6, <2>2 DEF AskedRight
    <3>4. \A r \in 1 .. 2 : r < probe' => p \notin Nor!InTable(Nor!nor_devices_supported[r].parts)
      <4> TAKE r \in 1 .. 2
      <4>1. CASE r < probe
        BY <3>1, <4>1 DEF Passed
      <4>2. CASE r = probe
        BY <3>3, <4>2
      <4> QED
        BY <1>2, <3>2, <4>1, <4>2
    <3> QED
      BY <3>4 DEF Passed
  <2> HIDE DEF asked
  <2> QED
    BY <1>2, <1>5, <2>1, <2>2 DEF NorAsked, asked
<1>11. NorNamed'
  BY <1>0, <1>1, <1>5 DEF NorNamed, vars
<1> QED
  BY <1>8, <1>9, <1>10, <1>11 DEF NorInv

\* What the driver leaves of an address: a name of its chip, and the chip in its array
\* when it is one a routine knows.
Left(name) ==
  /\ name \in {p.name : p \in Nor!Identity(chips[dev])} \cup {"UNKNOWN"}
  /\ chips[dev].set = 0 => \A p \in Nor!Identity(chips[dev]) : name = p.name
  /\ chips[dev].family # "intel" \/ Listable(dev) => mode'[dev] = "array"
  /\ mode' = [mode EXCEPT ![dev] = mode'[dev]]

\* No routine knew the chip.
LEMMA LeftUnknown ==
  ASSUME NorInv, Nor!Unknown
  PROVE  Left("UNKNOWN")
<1>0. NorTyped /\ NorModes /\ NorAsked
  BY DEF NorInv
<1>1. dev \in 1 .. 2 /\ probe = 6 /\ UNCHANGED mode
  BY <1>0, ChipsTold, AskedRoutines DEF Nor!Unknown, Nor!Addresses
<1>2. Told(chips[dev]) /\ part = Nor!NoPart
  BY <1>0, <1>1, ChipsTold DEF NorAsked
<1>3. ASSUME chips[dev].family = "intel" PROVE Nor!Identity(chips[dev]) = {}
  <2> SUFFICES ASSUME NEW p \in Nor!Identity(chips[dev]) PROVE FALSE
    OBVIOUS
  <2>1. ~Passed(dev, p)
    BY <1>0, <1>1, <1>2, <1>3 DEF NorAsked
  <2>2. p \in Nor!InTable(Nor!IntelParts) \/ p \in Nor!InTable(Nor!RenesasParts)
    BY <1>3, IdentityOf, Families
  <2>3. \E r \in 1 .. 2 : p \in Nor!InTable(Nor!nor_devices_supported[r].parts)
    BY <2>2, AskedRoutines
  <2> QED
    BY <1>1, <2>1, <2>3 DEF Passed
<1>4. ASSUME chips[dev].set = 0, chips[dev].family # "intel"
      PROVE  Nor!Identity(chips[dev]) = {}
  <2> SUFFICES ASSUME NEW p \in Nor!Identity(chips[dev]) PROVE FALSE
    OBVIOUS
  <2>1. p \in Nor!InTable(Nor!RenesasParts) /\ chips[dev].family \in {"amd", "none"}
    BY <1>2, <1>4 DEF Told
  <2>2. p \in Nor!PartsOf("amd")
    BY <2>1, IdentityOf, Families
  <2>3. p.codes[1] = 28 /\ p.codes[1] \in {236, 1, 152}
    BY <2>1, <2>2, VendorTables, Families DEF Begins
  <2> QED
    BY <2>3
<1>5. mode = [d \in 1 .. 2 |-> mode[d]]
  BY <1>0 DEF NorTyped
<1>6. mode' = [mode EXCEPT ![dev] = mode'[dev]]
  BY <1>1, <1>5
<1>7. chips[dev].family # "intel" => mode[dev] = "array"
  BY <1>0, <1>1 DEF NorModes
<1> QED
  BY <1>1, <1>3, <1>4, <1>6, <1>7 DEF Left, Listable

\* A part without a CFI table, which only Renesas' are.
LEMMA LeftCoded ==
  ASSUME NorInv, Nor!KnownWithoutCfi
  PROVE  Left(part.name)
<1>0. NorTyped /\ NorModes /\ NorAsked
  BY DEF NorInv
<1>1. /\ dev \in 1 .. 2 /\ probe \in 1 .. 5 /\ UNCHANGED mode /\ part # Nor!NoPart
      /\ ~Nor!nor_devices_supported[probe].cfi
  BY <1>0, ChipsTold, AskedRoutines DEF Nor!KnownWithoutCfi, Nor!Probing, Nor!Addresses
<1>2. Told(chips[dev]) /\ part \in Nor!Identity(chips[dev]) /\ mode[dev] = "array"
  BY <1>0, <1>1, ChipsTold DEF NorAsked
<1>3. ASSUME chips[dev].set = 0, NEW p \in Nor!Identity(chips[dev]) PROVE part.name = p.name
  <2>1. p \in Nor!InTable(Nor!RenesasParts) /\ part \in Nor!InTable(Nor!RenesasParts)
    BY <1>2, <1>3 DEF Told
  <2>2. Len(p.codes) = 2 /\ Len(part.codes) = 2
    BY <2>1, VendorTables DEF Begins
  <2>3. p.codes[2] = chips[dev].codes[2] /\ part.codes[2] = chips[dev].codes[2]
    BY <1>2, <1>3, <2>2, IdentityOf, MatchesFirst
  <2> QED
    BY <2>1, <2>3, RenesasApart
<1>4. mode = [d \in 1 .. 2 |-> mode[d]]
  BY <1>0 DEF NorTyped
<1>5. mode' = [mode EXCEPT ![dev] = mode'[dev]]
  BY <1>1, <1>4
<1> QED
  BY <1>1, <1>2, <1>3, <1>5 DEF Left

\* A part with a CFI table, whatever stands in it.
LEMMA LeftListed ==
  ASSUME NorInv, Nor!KnownWithCfi
  PROVE  \E name, sized : Nor!Settle(name, sized) /\ Left(name)
<1>0. NorTyped /\ NorModes /\ NorAsked
  BY DEF NorInv
<1>1. /\ dev \in 1 .. 2 /\ probe \in 1 .. 5 /\ part # Nor!NoPart
      /\ Nor!nor_devices_supported[probe].cfi
  BY <1>0, ChipsTold, AskedRoutines DEF Nor!KnownWithCfi, Nor!Probing, Nor!Addresses
<1>2. /\ Told(chips[dev]) /\ part \in Nor!Identity(chips[dev]) /\ mode[dev] = "array"
      /\ part \in Nor!InTable(Nor!nor_devices_supported[probe].parts)
      /\ probe <= 2 <=> chips[dev].family = "intel"
      /\ chips[dev].family \in {"intel", "amd"}
  BY <1>0, <1>1, ChipsTold DEF NorAsked
<1>3. probe \in {1, 3, 4, 5}
  BY <1>1, AskedRoutines
<1>4. PICK way \in BOOLEAN : /\ way = Nor!nor_devices_supported[probe].intel_way
                             /\ way <=> chips[dev].family = "intel"
  <2>1. CASE probe = 1
    <3>1. Nor!nor_devices_supported[probe].intel_way = TRUE
      BY <2>1, AskedRoutines
    <3>2. chips[dev].family = "intel"
      BY <1>2, <2>1
    <3> QED
      BY <3>1, <3>2
  <2>2. CASE probe \in {3, 4, 5}
    <3>1. Nor!nor_devices_supported[probe].intel_way = FALSE
      BY <2>2, AskedRoutines
    <3>2. chips[dev].family # "intel"
      BY <1>2, <2>2
    <3> QED
      BY <3>1, <3>2
  <2> QED
    BY <1>3, <2>1, <2>2
<1>5. PICK st : st = Nor!Ran(chips[dev], mode[dev], <<0, 0, 0, 0>>, Nor!CfiOps(way))
  OBVIOUS
<1>6. /\ mode' = [mode EXCEPT ![dev] = st.mode]
      /\ \/ Nor!Settle("UNKNOWN", "placeholder")
         \/ Nor!Settle(part.name, "cfi")
  BY <1>4, <1>5 DEF Nor!KnownWithCfi
<1>7. st.mode = "array"
  <2>1. PICK c : Runs(chips[dev], "array", <<0, 0, 0, 0>>, Nor!CfiOps(way), "array", c)
    BY <1>2, <1>4, CfiLeaves
  <2> QED
    BY <1>2, <1>5, <2>1 DEF Runs
<1>8. chips[dev].set # 0
  <2> SUFFICES ASSUME chips[dev].set = 0 PROVE FALSE
    OBVIOUS
  <2>1. part \in Nor!InTable(Nor!RenesasParts)
    BY <1>2 DEF Told
  <2>2. part.codes[1] = 28
    BY <2>1, VendorTables DEF Begins
  <2> QED
    BY <1>1, <1>2, <1>3, <2>2, PartsAreParts
<1>9. mode = [d \in 1 .. 2 |-> mode[d]]
  BY <1>0 DEF NorTyped
<1>10. mode'[dev] = "array" /\ mode' = [mode EXCEPT ![dev] = mode'[dev]]
  BY <1>1, <1>6, <1>7, <1>9
<1>11. Left("UNKNOWN") /\ Left(part.name)
  BY <1>2, <1>8, <1>10 DEF Left
<1> QED
  BY <1>6, <1>11

\* A device listed by the NOR driver is named for its chip.
LEMMA NorLists ==
  ASSUME MemTyped, NorInv, ListNor
  PROVE  NorInv'
<1>0. NorTyped /\ NorModes /\ NorAsked /\ NorNamed
  BY DEF NorInv
<1>1. /\ i = dev /\ i \in 1 .. DEVICES
      /\ Nor!Unknown \/ Nor!KnownWithoutCfi \/ Nor!KnownWithCfi
  BY DEF ListNor, Step
<1>2. PICK name, sized : Nor!Settle(name, sized) /\ Left(name)
  <2>1. CASE Nor!Unknown
    BY <2>1, LeftUnknown DEF Nor!Unknown
  <2>2. CASE Nor!KnownWithoutCfi
    BY <2>2, LeftCoded DEF Nor!KnownWithoutCfi
  <2>3. CASE Nor!KnownWithCfi
    BY <2>3, LeftListed
  <2> QED
    BY <1>1, <2>1, <2>2, <2>3
<1>3. dev \in 1 .. 2
  BY <1>0, <1>1, ChipsTold
     DEF Nor!Unknown, Nor!KnownWithoutCfi, Nor!KnownWithCfi, Nor!Probing, Nor!Addresses
<1>4. /\ found' = [found EXCEPT ![dev] = [name |-> name, sized |-> sized]]
      /\ dev' = dev + 1 /\ probe' = 1 /\ part' = Nor!NoPart
      /\ UNCHANGED <<chips, nor_read_id_codes>>
  BY <1>2 DEF Nor!Settle
<1>5. /\ \A d \in 1 .. 2 : d # dev => found'[d] = found[d] /\ mode'[d] = mode[d]
      /\ found'[dev].name = name
      /\ found' = [d \in 1 .. 2 |-> found'[d]] /\ mode' = [d \in 1 .. 2 |-> mode'[d]]
  <2>0. [name |-> name, sized |-> sized].name = name
    OBVIOUS
  <2>1. PICK entry : entry = [name |-> name, sized |-> sized] /\ entry.name = name
    BY <2>0, Zenon
  <2>2. PICK m : mode' = [mode EXCEPT ![dev] = m]
    BY <1>2 DEF Left
  <2> QED
    BY <1>0, <1>3, <1>4, <2>1, <2>2 DEF NorTyped
<1>6. /\ i' = i + 1 /\ mem'[dev].name = NameLength[name]
      /\ \A d \in 1 .. DEVICES : d # dev => mem'[d] = mem[d]
  <2> DEFINE p == [res |-> "ok", type |-> "NOR", name |-> NameLength[found'[i].name]]
  <2>1. Step(p, 0)
    BY DEF ListNor
  <2>2. Probed(p).name = NameLength[name]
    BY <1>1, <1>5 DEF Probed
  <2> HIDE DEF p
  <2> QED
    BY <1>1, <2>1, <2>2 DEF Step, MemTyped
<1>7. NorTyped'
  BY <1>0, <1>1, <1>3, <1>4, <1>5, <1>6 DEF NorTyped
<1>8. NorModes'
  <2> SUFFICES ASSUME NEW d \in 1 .. 2
               PROVE  /\ chips[d].family # "intel" => mode'[d] = "array"
                      /\ d < dev + 1 /\ Listable(d) => mode'[d] = "array"
    BY <1>4 DEF NorModes, Listable
  <2>1. CASE d = dev
    BY <1>2, <2>1 DEF Left
  <2>2. CASE d # dev
    BY <1>0, <1>3, <1>5, <2>2 DEF NorModes
  <2> QED
    BY <2>1, <2>2
<1>9. NorAsked'
  BY <1>4 DEF NorAsked, Passed
<1>10. NorNamed'
  <2> SUFFICES ASSUME NEW d \in 1 .. 2, d < dev + 1
               PROVE  /\ found'[d].name \in {p.name : p \in Nor!Identity(chips[d])}
                                              \cup {"UNKNOWN"}
                      /\ chips[d].set = 0 =>
                           \A p \in Nor!Identity(chips[d]) : found'[d].name = p.name
                      /\ mem'[d].name = NameLength[found'[d].name]
    BY <1>4 DEF NorNamed
  <2>1. CASE d = dev
    BY <1>2, <1>5, <1>6, <2>1 DEF Left
  <2>2. CASE d # dev
    <3>1. d < dev /\ d \in 1 .. DEVICES
      BY <1>1, <1>3, <2>2, DevicesAssumption
    <3>2. found'[d] = found[d] /\ mem'[d] = mem[d]
      BY <1>5, <1>6, <2>2, <3>1
    <3> QED
      BY <1>0, <3>1, <3>2 DEF NorNamed
  <2> QED
    BY <2>1, <2>2
<1> QED
  BY <1>7, <1>8, <1>9, <1>10 DEF NorInv

\* What the loop does with the other devices leaves the first two as they are.
LEMMA OthersKeep ==
  ASSUME MemTyped, NorInv, UNCHANGED norVars,
         UNCHANGED <<i, mem>> \/ (i > 2 /\ \E p, spare : Step(p, spare))
  PROVE  NorInv'
<1>0. NorTyped /\ NorModes /\ NorAsked /\ NorNamed
  BY DEF NorInv
<1>1. UNCHANGED <<chips, mode, dev, probe, nor_read_id_codes, part, found>>
  BY DEF norVars
<1>2. /\ i <= 2 => i' = i
      /\ i > 2 => i' > 2
      /\ i' \in Nat
      /\ \A d \in 1 .. 2 : d < dev => mem'[d] = mem[d]
  <2>0. i \in Nat
    BY DevicesAssumption DEF MemTyped
  <2>1. CASE UNCHANGED <<i, mem>>
    BY <2>0, <2>1
  <2>2. CASE i > 2 /\ \E p, spare : Step(p, spare)
    <3>1. PICK p, spare : Step(p, spare)
      BY <2>2
    <3>2. i' = i + 1 /\ mem' = [mem EXCEPT ![i] = Probed(p)]
      BY <3>1 DEF Step
    <3> QED
      BY <2>0, <2>2, <3>2 DEF MemTyped
  <2> QED
    BY <2>1, <2>2
<1>3. NorTyped'
  <2>1. i \in Nat
    BY DevicesAssumption DEF MemTyped
  <2> QED
    BY <1>0, <1>1, <1>2, <2>1 DEF NorTyped
<1>4. NorModes'
  BY <1>0, <1>1 DEF NorModes, Listable
<1>5. NorAsked'
  BY <1>0, <1>1 DEF NorAsked, Passed
<1>6. NorNamed'
  BY <1>0, <1>1, <1>2 DEF NorNamed
<1> QED
  BY <1>3, <1>4, <1>5, <1>6 DEF NorInv

\* The invariant holds from the start of dcc_main on.
LEMMA NorAlways == StartupSpec => []NorInv
<1>1. StartupInv => MemTyped
  BY DEF StartupInv, TableInv, BootInv, MemTyped
<1>2. StartupInv /\ NorInv /\ [StartupNext]_allVars => NorInv'
  <2> SUFFICES ASSUME StartupInv, NorInv, [StartupNext]_allVars PROVE NorInv'
    OBVIOUS
  <2>1. CASE AskVendor
    BY <2>1, NorAsks
  <2>2. CASE ListNor
    BY <1>1, <2>2, NorLists
  <2>3. i \in Nat /\ Len(chips) = 2
    BY <1>1, ChipsTold DEF MemTyped, NorInv
  <2>4. CASE Other(ListExtended) \/ Other(ListNand) \/ Other(ListNone)
    BY <1>1, <2>3, <2>4, OthersKeep DEF Other, ListExtended, ListNand, ListNone
  <2>5. CASE Other(CloseTable) \/ Other(MainLoop) \/ UNCHANGED allVars
    <3>1. UNCHANGED norVars /\ UNCHANGED <<i, mem>>
      BY <2>5 DEF Other, CloseTable, MainLoop, allVars, vars
    <3> QED
      BY <1>1, <3>1, OthersKeep
  <2> QED
    BY <2>1, <2>2, <2>4, <2>5 DEF StartupNext
<1> QED
  BY <1>2, NorStarts, StartupAlways, PTL DEF StartupSpec

\* No routine of DRL_NOR_Probe takes a chip for a part it is not, whatever codes the
\* routines before it, or those at the other address, left in the global array.
THEOREM PartsNotMistaken == StartupSpec => []NoMistakenPart
<1>1. NorInv => NoMistakenPart
  BY DEF NorInv, NorAsked, NoMistakenPart, Nor!NoMistakenPart
<1> QED
  BY <1>1, NorAlways, PTL

\* A chip that is in a table reads as its contents once its device has been listed,
\* whatever the routines, and the reading of its CFI table, did to it.
THEOREM KnownReadable == StartupSpec => []KnownLeftReadable
<1>1. NorInv => KnownLeftReadable
  <2> SUFFICES ASSUME NorInv, NEW d \in Nor!Addresses, dev > d, Nor!Identity(chips[d]) # {}
               PROVE  mode[d] = "array"
    BY DEF KnownLeftReadable, Nor!KnownLeftReadable
  <2>1. d \in 1 .. 2 /\ dev \in 1 .. 3
    BY ChipsTold DEF NorInv, NorTyped, Nor!Addresses
  <2> QED
    BY <2>1 DEF NorInv, NorModes, Listable
<1> QED
  BY <1>1, NorAlways, PTL

\* The entry of a NOR device carries a name of the chip at its own address, and the
\* part's own name where no CFI table has to be believed (DRL_NOR_Probe, WRITE_EXTMEM).
THEOREM NamesFit == StartupSpec => []NamedForItsChip
<1>1. MemTyped /\ NorInv => NamedForItsChip
  <2> SUFFICES ASSUME MemTyped, NorInv, NEW d \in 1 .. Len(chips), d < i
               PROVE  /\ mem[d].name \in {NameLength[n] :
                                            n \in {p.name : p \in Nor!Identity(chips[d])}
                                                    \cup {"UNKNOWN"}}
                      /\ chips[d].set = 0 =>
                           \A p \in Nor!Identity(chips[d]) : mem[d].name = NameLength[p.name]
    BY DEF NamedForItsChip
  <2>1. d \in 1 .. 2 /\ dev \in 1 .. 3 /\ i \in Nat
    <3>1. Len(chips) = 2 /\ dev \in 1 .. 3
      BY ChipsTold DEF NorInv, NorTyped
    <3>2. i \in Nat
      BY DevicesAssumption DEF MemTyped
    <3> QED
      BY <3>1, <3>2
  <2>2. d < dev
    BY <2>1 DEF NorInv, NorTyped
  <2>3. /\ found[d].name \in {p.name : p \in Nor!Identity(chips[d])} \cup {"UNKNOWN"}
        /\ chips[d].set = 0 => \A p \in Nor!Identity(chips[d]) : found[d].name = p.name
        /\ mem[d].name = NameLength[found[d].name]
    BY <2>1, <2>2 DEF NorInv, NorNamed
  <2> QED
    BY <2>3
<1>2. StartupInv => MemTyped
  BY DEF StartupInv, TableInv, BootInv, MemTyped
<1> QED
  BY <1>1, <1>2, NorAlways, StartupAlways, PTL
=============================================================================
