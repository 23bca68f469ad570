--------------------------------- MODULE Lzo ----------------------------------
(***************************************************************************)
(* lzo1x_1_compress as DN_Packet_Compress2 (io/common.c) calls it: one     *)
(* block of at most DCC_BUFFER_SIZE bytes, so one pass of do_compress and  *)
(* no distance beyond M2_MAX_OFFSET, in the build that reads and copies    *)
(* byte by byte.  The index of the dictionary is any of Hashes.            *)
(*                                                                         *)
(* Positions count from 0; ii is the first byte not yet written, dest the  *)
(* output byte by byte, seen one past the highest byte of the block read.  *)
(***************************************************************************)
EXTENDS Integers, Sequences

CONSTANTS
  Blocks,      \* blocks compressed
  Hashes       \* numbers of entries of the dictionary

LOOKAHEAD  == 20       \* no match starts so near the end
M2_MAX_LEN == 8
M3_MAX_LEN == 33
M3_MARKER  == 32
M4_MARKER  == 16
UNROLL     == 8        \* bytes compared between two looks at the end

VARIABLES block, hash, pc, dict, ip, ii, m_pos, dest, seen

vars == <<block, hash, pc, dict, ip, ii, m_pos, dest, seen>>

in_end == Len(block)
ip_end == in_end - LOOKAHEAD

At(p)       == block[p + 1]
Bytes(p, n) == SubSeq(block, p + 1, p + n)
DV(p)       == Bytes(p, 4)
DINDEX(p)   == (At(p) + 2 * At(p + 1) + 4 * At(p + 2) + 8 * At(p + 3)) % hash

Init ==
  /\ block \in Blocks /\ hash \in Hashes
  /\ pc = "start" /\ dict = [k \in 0 .. hash - 1 |-> 0]
  /\ ip = 0 /\ ii = 0 /\ m_pos = 0 /\ dest = <<>> /\ seen = 0

-----------------------------------------------------------------------------
Sees(p) == seen' = IF p > seen THEN p ELSE seen

\* The step over a byte that starts no match grows with the literals that wait.
Beyond(p) == p + 1 + ((p - ii) \div 32)

\* The four bytes a literal run takes at least are passed over, and with them the
\* first try for a match.
Start == 4

Enter ==
  /\ pc = "start"
  /\ IF in_end > LOOKAHEAD THEN pc' = "search" /\ ip' = Beyond(Start) ELSE pc' = "last" /\ ip' = ip
  /\ UNCHANGED <<block, hash, dict, ii, m_pos, dest, seen>>

\* An entry that was never written names the start of the block, and another word may
\* have the same index: the bytes decide.
Probe ==
  LET m == dict[DINDEX(ip)]
  IN  /\ pc = "search" /\ ip < ip_end
      /\ dict' = [dict EXCEPT ![DINDEX(ip)] = ip]
      /\ Sees(ip + 4)
      /\ IF DV(m) = DV(ip) THEN pc' = "match" /\ m_pos' = m /\ ip' = ip
         ELSE ip' = Beyond(ip) /\ UNCHANGED <<pc, m_pos>>
      /\ UNCHANGED <<block, hash, ii, dest>>

SearchEnds ==
  /\ pc = "search" /\ ip >= ip_end
  /\ pc' = "last" /\ UNCHANGED <<block, hash, dict, ip, ii, m_pos, dest, seen>>

-----------------------------------------------------------------------------
\* A count n > 0 after a byte that says it follows: 255 for every zero before the
\* last byte, which is not zero.
Many(n) == [i \in 1 .. (n - 1) \div 255 |-> 0] \o <<1 + ((n - 1) % 255)>>

\* One to three literals have no byte of their own for their number: it goes into the
\* two low bits of the match before them, in its byte before the last.
Mark(out, t) == [out EXCEPT ![Len(out) - 1] = @ + t]

FewTakeFour == 4       \* mutant
Few == 3

AllAtOnce == 238       \* a block that is one literal run

Literals(out, t) ==
  (CASE t <= Few -> Mark(out, t)
     [] t \in Few + 1 .. 18 -> Append(out, t - 3)
     [] OTHER -> out \o <<0>> \o Many(t - 18))
  \o Bytes(ii, t)

\* Equal bytes from the fifth on.  The end is looked at after every UNROLL of them.
MatchLength(p, m) ==
  CHOOSE n \in 4 .. in_end :
    /\ \A j \in 4 .. n - 1 : At(p + j) = At(m + j)
    /\ \A j \in 5 .. n - 1 : ~((j - 4) % UNROLL = 0 /\ p + j >= ip_end)
    /\ \/ n > 4 /\ (n - 4) % UNROLL = 0 /\ p + n >= ip_end
       \/ At(p + n) # At(m + n)

\* The low two bits of the last byte but one are left for Mark.
MatchBytes(len, off) ==
  IF len <= M2_MAX_LEN
  THEN <<(len - 1) * 32 + (off % 8) * 4, off \div 8>>
  ELSE (IF len <= M3_MAX_LEN THEN <<M3_MARKER + len - 2>>
        ELSE <<M3_MARKER>> \o Many(len - M3_MAX_LEN))
       \o <<(off * 4) % 256, off \div 64>>

Match ==
  LET len == MatchLength(ip, m_pos)
      out == IF ip = ii THEN dest ELSE Literals(dest, ip - ii)
  IN  /\ pc = "match"
      /\ dest' = out \o MatchBytes(len, ip - m_pos - 1)
      /\ ip' = ip + len /\ ii' = ip + len
      /\ Sees(ip + len + 1)       \* the byte that ends the match, at most
      /\ pc' = "search" /\ UNCHANGED <<block, hash, dict, m_pos>>

\* The rest, and the end mark.
Rest(t) ==
  IF t = 0 THEN dest
  ELSE IF dest = <<>> /\ t <= AllAtOnce THEN <<17 + t>> \o Bytes(ii, t)
  ELSE Literals(dest, t)

LastRun ==
  /\ pc = "last"
  /\ dest' = Rest(in_end - ii) \o <<M4_MARKER + 1, 0, 0>>
  /\ pc' = "done" /\ UNCHANGED <<block, hash, dict, ip, ii, m_pos, seen>>

Done == pc = "done" /\ UNCHANGED vars

Next == Enter \/ Probe \/ SearchEnds \/ Match \/ LastRun \/ Done

Spec == Init /\ [][Next]_vars

-----------------------------------------------------------------------------
(* lzo1x_decompress, as the reader of what is written above.  r.at is the  *)
(* byte read next; r.state says what the code's jumps make of that byte:   *)
(* literals or a match ("next"), a match after a literal run ("run") or    *)
(* after up to three literals ("few").                                     *)

Byte(k) == IF k \in 1 .. Len(dest) THEN dest[k] ELSE 256

\* The count of a byte whose low bits are `low', and where what follows it is.
Counted(low, base, at) ==
  IF low # 0 THEN [n |-> low, at |-> at]
  ELSE LET stop == CHOOSE k \in at .. Len(dest) + 1 :
                     Byte(k) # 0 /\ \A j \in at .. k - 1 : Byte(j) = 0
       IN  [n |-> base + (stop - at) * 255 + Byte(stop), at |-> stop + 1]

Copied(text, n, off) ==
  [i \in 1 .. Len(text) + n |->
     IF i <= Len(text) THEN text[i]
     ELSE text[Len(text) - off + 1 + ((i - Len(text) - 1) % off)]]

Take(r, at, n, state) ==
  [at |-> at + n, text |-> r.text \o SubSeq(dest, at, at + n - 1), state |-> state]

\* A match of n bytes that lies off behind; its count of literals to come is in the
\* last byte but one of it.
Copy(r, at, n, off) ==
  LET t == Byte(at - 2) % 4
      c == [at |-> at, text |-> Copied(r.text, n, off), state |-> "next"]
  IN  IF off \notin 1 .. Len(r.text) \/ at > Len(dest) THEN [r EXCEPT !.state = "error"]
      ELSE IF t = 0 THEN c ELSE Take(c, at, t, "few")

Instruction(r) ==
  LET t    == Byte(r.at)
      lits == Counted(t, 15, r.at + 1)
      m3   == Counted(t % 32, 31, r.at + 1)
      m4   == Counted(t % 8, 7, r.at + 1)
      near(at) == Byte(at) \div 4 + 64 * Byte(at + 1)
  IN  CASE t = 256 -> [r EXCEPT !.state = "error"]
        [] t >= 64 /\ t < 256 ->
             Copy(r, r.at + 2, t \div 32 + 1, 1 + ((t \div 4) % 8) + 8 * Byte(r.at + 1))
        [] t \in 32 .. 63 -> Copy(r, m3.at + 2, m3.n + 2, 1 + near(m3.at))
        [] t \in 16 .. 31 ->
             IF t < 24 /\ near(m4.at) = 0
             THEN [r EXCEPT !.state = IF m4.at + 1 = Len(dest) THEN "end" ELSE "error"]
             ELSE Copy(r, m4.at + 2, m4.n + 2, (IF t < 24 THEN 16384 ELSE 32768) + near(m4.at))
        [] t < 16 /\ r.state = "next" -> Take(r, lits.at, lits.n + 3, "run")
        [] t < 16 /\ r.state = "few"  -> Copy(r, r.at + 2, 2, 1 + t \div 4 + 4 * Byte(r.at + 1))
        [] OTHER -> Copy(r, r.at + 2, 3, 2049 + t \div 4 + 4 * Byte(r.at + 1))

First ==
  LET none == [at |-> 1, text |-> <<>>, state |-> "next"]
      t    == Byte(1) - 17
  IN  IF t <= 0 \/ t > 238 THEN none ELSE Take(none, 2, t, IF t < 4 THEN "few" ELSE "run")

lzo1x_decompress ==
  LET after[k \in 0 .. Len(dest)] ==
        IF k = 0 THEN First
        ELSE LET r == after[k - 1]
             IN  IF r.state \in {"end", "error"} THEN r ELSE Instruction(r)
  IN  after[Len(dest)]

-----------------------------------------------------------------------------
(* Properties.                                                             *)

\* The decoder gives the block back and stops at the end mark, the last byte: the
\* number of the literals after a match, kept in bits of the match, and the zeros
\* that count 255 each are never taken for something else.
RoundTrip ==
  pc = "done" => lzo1x_decompress.state = "end" /\ lzo1x_decompress.text = block

\* Nothing behind the block is read, although the end is looked at only once in
\* UNROLL bytes, and the output stays within the growth LZO allows itself.
StaysInside == seen <= in_end /\ Len(dest) <= in_end + in_end \div 16 + 64 + 3
=============================================================================
