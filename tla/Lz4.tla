--------------------------------- MODULE Lz4 ----------------------------------
(***************************************************************************)
(* LZ4_compress_default as DN_Packet_Compress3 (io/common.c) calls it: no  *)
(* dictionary, room for the worst case, positions of 16 bits, acceleration *)
(* 1.  The hash is any function of the next MINMATCH bytes.                *)
(*                                                                         *)
(* Positions count from 0; dest is the output byte by byte.  touched and   *)
(* seen are one past the highest byte of the output and of the block that  *)
(* the copies in units of several bytes reach.                             *)
(***************************************************************************)
EXTENDS Integers, Sequences, FiniteSetsExt

CONSTANTS
  MINMATCH,         \* shortest match (4)
  WILDCOPYLENGTH,   \* unit of the copies that overrun their end (8)
  LASTLITERALS,     \* bytes at the end that are always literals (5)
  MASK,             \* RUN_MASK and ML_MASK: a length that goes on after the token (15)
  BYTE,             \* a length byte after which another one follows (255)
  TRIGGER,          \* probes before the search takes longer steps (64)
  MARGIN,           \* bytes of LZ4_COMPRESSBOUND beyond the length bytes (16)
  Blocks,           \* blocks compressed
  Hashes            \* functions from MINMATCH bytes to the entries of the table

MFLIMIT       == WILDCOPYLENGTH + MINMATCH
LZ4_minLength == MFLIMIT + 1

VARIABLES block, hash, pc, table, ip, step, tries, anchor, match, token, dest, touched, seen

search == <<table, ip, step, tries, match>>
output == <<anchor, token, dest, touched, seen>>
vars == <<block, hash, pc, search, output>>

iend           == Len(block)
mflimitPlusOne == iend - MFLIMIT + 1
matchlimit     == iend - LASTLITERALS

LZ4_compressBound == iend + iend \div BYTE + MARGIN

At(p)      == block[p + 1]
Bytes(p, n) == SubSeq(block, p + 1, p + n)
Read(p)    == Bytes(p, MINMATCH)
Hash(p)    == hash[Read(p)]

Highest(a, b) == IF a > b THEN a ELSE b

\* LZ4_compress_default clears the table on its stack first (LZ4_initStream): every
\* entry says position 0.  LZ4_putPosition and LZ4_getPosition.
EmptyTable  == [h \in {hash[w] : w \in DOMAIN hash} |-> 0]
Put(t, p)   == [t EXCEPT ![Hash(p)] = p]
Entry(t, p) == t[Hash(p)]

Init ==
  /\ block \in Blocks /\ hash \in Hashes
  /\ pc = "start" /\ table = EmptyTable
  /\ ip = 0 /\ step = 1 /\ tries = TRIGGER /\ match = 0
  /\ anchor = 0 /\ token = 0 /\ dest = <<>> /\ touched = 0 /\ seen = 0

-----------------------------------------------------------------------------
Sees(p) == seen' = Highest(seen, p)

StartSearch(from) ==
  /\ ip' = from /\ step' = 1 /\ tries' = TRIGGER
  /\ Sees(from + MINMATCH) /\ pc' = "search"

TooSmall ==
  /\ pc = "start" /\ iend < LZ4_minLength
  /\ pc' = "last" /\ UNCHANGED <<block, hash, search, output>>

FirstByte ==
  /\ pc = "start" /\ iend >= LZ4_minLength
  /\ table' = Put(table, 0)
  /\ StartSearch(1)
  /\ UNCHANGED <<block, hash, match, anchor, token, dest, touched>>

\* The step to the position after this one is taken before this one is looked at.
BeforeEnd(p)      == p <= mflimitPlusOne

SearchEnds ==
  /\ pc = "search" /\ ~BeforeEnd(ip + step)
  /\ pc' = "last" /\ UNCHANGED <<block, hash, search, output>>

\* An entry that was never written reads as position 0, and another word may have
\* the same hash: the bytes decide.
SameWord(m)          == Read(m) = Read(ip)

Probe ==
  LET found == Entry(table, ip)
  IN  /\ pc = "search" /\ BeforeEnd(ip + step)
      /\ table' = Put(table, ip)
      /\ Sees(ip + step + MINMATCH)
      /\ IF SameWord(found)
         THEN pc' = "literals" /\ match' = found /\ UNCHANGED <<ip, step, tries>>
         ELSE /\ ip' = ip + step
              /\ step' = tries \div TRIGGER /\ tries' = tries + 1
              /\ UNCHANGED <<pc, match>>
      /\ UNCHANGED <<block, hash, anchor, token, dest, touched>>

-----------------------------------------------------------------------------
\* Bytes that are equal before both positions, none of them written already.
Back ==
  Max({k \in 0 .. match : ip - k >= anchor /\ \A j \in 1 .. k : At(ip - j) = At(match - j)})

\* LZ4_count from MINMATCH on: words while they are equal, and LZ4_NbCommonBytes of the
\* two that are not.
Common(p, m, limit) ==
  Max({n \in 0 .. limit : \A j \in 0 .. n - 1 : At(p + j) = At(m + j)})

Count(p, m) ==
  Common(p + MINMATCH, m + MINMATCH, Highest(0, matchlimit - (p + MINMATCH)))

\* What of a length the token holds, and the bytes that hold the rest.
InToken(n) == IF n >= MASK THEN MASK ELSE n
RestWithoutZero(n) ==            \* mutant: no byte after a rest that is used up
  [i \in 1 .. (n - MASK) \div BYTE |-> BYTE]
    \o (IF (n - MASK) % BYTE = 0 /\ n > MASK THEN <<>> ELSE <<(n - MASK) % BYTE>>)
Rest(n) ==
  IF n < MASK THEN <<>>
  ELSE [i \in 1 .. (n - MASK) \div BYTE |-> BYTE] \o <<(n - MASK) % BYTE>>

Literals(n) == <<InToken(n) * (MASK + 1)>> \o Rest(n) \o Bytes(anchor, n)

\* LZ4_wildCopy8 copies one unit at least.
Wild32(n) ==                     \* mutant: LZ4_wildCopy32 in its place
  LET unit == 4 * WILDCOPYLENGTH IN unit * Highest(1, (n + unit - 1) \div unit)
Wild(n) == WILDCOPYLENGTH * Highest(1, (n + WILDCOPYLENGTH - 1) \div WILDCOPYLENGTH)

EncodeLiterals ==
  LET n     == ip - Back - anchor
      start == Len(dest) + 1 + Len(Rest(n))
  IN  /\ pc = "literals"
      /\ ip' = ip - Back /\ match' = match - Back
      /\ token' = Len(dest) + 1
      /\ dest' = dest \o Literals(n)
      /\ touched' = Highest(touched, start + Wild(n))
      /\ Sees(anchor + Wild(n))
      /\ pc' = "match" /\ UNCHANGED <<block, hash, table, step, tries, anchor>>

Offset(d) == <<d % (BYTE + 1), d \div (BYTE + 1)>>

\* The match, the table filled two bytes before its end, and the next position: a
\* match there follows with no literals, otherwise the search goes on behind it.
Ends(p) == p >= mflimitPlusOne

EncodeMatch ==
  LET n      == Count(ip, match)
      next   == ip + MINMATCH + n
      filled == Put(table, next - 2)
      found  == Entry(filled, next)
      coded  == [dest EXCEPT ![token] = @ + InToken(n)] \o Offset(ip - match) \o Rest(n)
      ahead  == IF n < MASK THEN 0 ELSE 4 * ((n - MASK) \div (4 * BYTE) + 1)
  IN  /\ pc = "match"
      /\ anchor' = next
      /\ touched' = Highest(touched, Highest(Len(coded), Len(dest) + 2 + ahead))
      /\ \/ /\ Ends(next)
            /\ dest' = coded /\ pc' = "last"
            /\ UNCHANGED <<search, token, seen>>
         \/ /\ ~Ends(next) /\ Read(found) = Read(next)
            /\ table' = Put(filled, next)
            /\ ip' = next /\ match' = found
            /\ dest' = Append(coded, 0) /\ token' = Len(coded) + 1
            /\ Sees(next + MINMATCH) /\ UNCHANGED <<pc, step, tries>>
         \/ /\ ~Ends(next) /\ Read(found) # Read(next)
            /\ table' = Put(filled, next)
            /\ dest' = coded /\ StartSearch(next + 1) /\ UNCHANGED <<match, token>>
      /\ UNCHANGED <<block, hash>>

LastLiterals ==
  /\ pc = "last"
  /\ dest' = dest \o Literals(iend - anchor)
  /\ touched' = Highest(touched, Len(dest'))
  /\ pc' = "done" /\ UNCHANGED <<block, hash, search, anchor, token, seen>>

Done == pc = "done" /\ UNCHANGED vars

Next ==
  \/ TooSmall \/ FirstByte \/ Probe \/ SearchEnds
  \/ EncodeLiterals \/ EncodeMatch \/ LastLiterals \/ Done

Spec == Init /\ [][Next]_vars

-----------------------------------------------------------------------------
(* LZ4_decompress_generic, as far as one whole block needs it: the reader  *)
(* of what is written above.                                               *)

\* A length that starts with `n' in the token, and where what follows it is.
ReadLength(n, at) ==
  IF n < MASK THEN [length |-> n, at |-> at]
  ELSE LET stop == CHOOSE k \in at .. Len(dest) + 1 :
                     /\ k > Len(dest) \/ dest[k] # BYTE
                     /\ \A j \in at .. k - 1 : dest[j] = BYTE
       IN  [length |-> n + (stop - at) * BYTE + (IF stop > Len(dest) THEN 0 ELSE dest[stop]),
            at |-> stop + 1]

\* A match may overlap what it produces.
CopyMatch(text, distance, n) ==
  [i \in 1 .. Len(text) + n |->
     IF i <= Len(text) THEN text[i]
     ELSE text[Len(text) - distance + 1 + ((i - Len(text) - 1) % distance)]]

Failed(r) == [r EXCEPT !.state = "error"]

\* A distance of a match, the low byte first.
LZ4_readLE16(at) == dest[at] + (BYTE + 1) * dest[at + 1]

\* One sequence: literals and a match, or the last literals.  Near either end the
\* literals have to be the last ones.
Sequence(r) ==
  LET lits == ReadLength(dest[r.at] \div (MASK + 1), r.at + 1)
      text == r.text \o SubSeq(dest, lits.at, lits.at + lits.length - 1)
      at   == lits.at + lits.length
      dist == LZ4_readLE16(at)
      mat  == ReadLength(dest[r.at] % (MASK + 1), at + 2)
      all  == Len(text) + mat.length + MINMATCH
  IN  IF Len(text) > iend - MFLIMIT \/ at - 1 > Len(dest) - (2 + 1 + LASTLITERALS)
      THEN IF at - 1 = Len(dest) /\ Len(text) <= iend
           THEN [at |-> at, text |-> text, state |-> "end"] ELSE Failed(r)
      ELSE IF dist \notin 1 .. Len(text) \/ all > iend - LASTLITERALS
           THEN Failed(r)
           ELSE [at |-> mat.at, text |-> CopyMatch(text, dist, mat.length + MINMATCH),
                 state |-> "more"]

LZ4_decompress_generic ==
  LET after[k \in 0 .. Len(dest)] ==
        IF k = 0 THEN [at |-> 1, text |-> <<>>, state |-> "more"]
        ELSE LET r == after[k - 1]
             IN  IF r.state = "more" THEN (IF r.at > Len(dest) THEN Failed(r) ELSE Sequence(r))
                 ELSE r
  IN  after[Len(dest)]

-----------------------------------------------------------------------------
(* Properties.                                                             *)

\* The decoder gives the block back, whatever its contents and however the hash
\* makes words collide: every length, distance and last byte is where the decoder's
\* own restrictions on the ends of a block let it be.
RoundTrip ==
  pc = "done" =>
    /\ LZ4_decompress_generic.state = "end"
    /\ LZ4_decompress_generic.text = block

\* The copies in units of several bytes stay inside the room LZ4_compressBound asks
\* for and inside the block that is read.
StaysInside == touched <= LZ4_compressBound /\ seen <= iend
=============================================================================
