-------------------------- MODULE RleCompress_proofs --------------------------
(***************************************************************************)
(* The run-length encoder, for every block, limit and memory: the size of  *)
(* what it writes, what it takes from behind the block, and that what it   *)
(* writes decodes to what it has read.                                     *)
(***************************************************************************)
EXTENDS RleCompress, NaturalsInduction, WellFoundedInduction, SequenceTheorems, TLAPS

\* While the block lasts, the output is at most twice what has been read; the last
\* pass may add a raw run of one byte and a run from behind the block.
BoundInv ==
  /\ size \in Nat /\ inOffset \in Nat /\ outOffset \in Nat
  /\ inOffset < size => outOffset <= HEADER + 2 * inOffset
  /\ OutputBound

\* The encoder writes at most 8 + 2 * size + 4 bytes for a block of `size' bytes
\* (DN_Packet_Compress, DN_RLE_Matching).
THEOREM OutputBounded == Spec => []OutputBound
<1>1. Init => BoundInv
  BY RleAssumption DEF Init, BoundInv, OutputBound, HEADER
<1>2. BoundInv /\ [Next]_vars => BoundInv'
  <2> SUFFICES ASSUME BoundInv, [Next]_vars PROVE BoundInv'
    OBVIOUS
  <2>0. RUN_MAX \in Nat /\ RUN_MAX > 1
    BY RleAssumption
  <2>1. CASE EmitRun
    <3>1. PICK n \in 2 .. RUN_MAX :
            inOffset' = inOffset + n /\ outOffset' = outOffset + RunSize
      BY <2>1 DEF EmitRun
    <3>2. inOffset < size /\ size' = size
      BY <2>1 DEF EmitRun
    <3>3. QED
      BY <2>0, <3>1, <3>2 DEF BoundInv, OutputBound, HEADER, RunSize
  <2>2. CASE EmitRaw
    <3>1. PICK n \in 1 .. RUN_MAX :
            /\ RawRun(n)
            /\ n = RUN_MAX \/ Matches(inOffset + n, 1)
            /\ inOffset' = inOffset + n /\ outOffset' = outOffset + RawSize(n)
      BY <2>2 DEF EmitRaw
    <3>2. inOffset < size /\ size' = size
      BY <2>2 DEF EmitRaw
    <3>3. inOffset + n <= size /\ (n = RUN_MAX \/ inOffset + n = size)
      BY <3>1 DEF RawRun
    <3>4. QED
      BY <2>0, <3>1, <3>2, <3>3 DEF BoundInv, OutputBound, HEADER, RawSize
  <2>3. CASE EmitRawAndRun
    <3>1. PICK n \in 1 .. RUN_MAX - 1, m \in 2 .. RUN_MAX :
            /\ RawRun(n)
            /\ inOffset' = inOffset + n + m
            /\ outOffset' = outOffset + RawSize(n) + RunSize
      BY <2>3 DEF EmitRawAndRun
    <3>2. inOffset < size /\ size' = size
      BY <2>3 DEF EmitRawAndRun
    <3>3. inOffset + n <= size
      BY <3>1 DEF RawRun
    <3>4. QED
      BY <2>0, <3>1, <3>2, <3>3 DEF BoundInv, OutputBound, HEADER, RawSize, RunSize
  <2>4. CASE Finished \/ UNCHANGED vars
    BY <2>4 DEF Finished, vars, BoundInv, OutputBound
  <2>5. QED
    BY <2>1, <2>2, <2>3, <2>4 DEF Next
<1>3. BoundInv => OutputBound
  BY DEF BoundInv
<1>4. QED
  BY <1>1, <1>2, <1>3, PTL DEF Spec

-----------------------------------------------------------------------------
(* The end of the block.                                                   *)

\* Offsets and sizes, and what the last pass may have done.
EndInv ==
  /\ size \in 0 .. MAX_SIZE /\ inOffset \in Nat /\ src \in [Memory -> 0 .. 255]
  /\ out \in Seq([flag : Nat, bytes : Seq(0 .. 255)])
  /\ inOffset <= size + RUN_MAX
  /\ inOffset > size =>
       /\ Len(out) > 1
       /\ out[Len(out)].flag = RUN_FLAG + (inOffset - size)
       /\ out[Len(out) - 1].flag < RUN_FLAG
       /\ src[size] = src[size + 1]

\* A run that starts inside the block ends inside it.
LEMMA RunStaysInside ==
  ASSUME EndInv, NEW from \in Nat, from < size, NEW n \in Nat, n >= 1, Matches(from, n)
  PROVE  from + n <= size
<1>0. size \in Nat
  BY RleAssumption DEF EndInv
<1>1. CASE n = 1
  BY <1>0, <1>1
<1>2. CASE n > 1
  <2>1. Grows(from, size - from, n - 1)
    BY <1>2 DEF Matches
  <2>2. n - 1 < size - from
    BY <1>0, <2>1 DEF Grows
  <2> QED
    BY <1>0, <2>2
<1> QED
  BY <1>1, <1>2

\* The bytes of a stretch of memory.
LEMMA BytesType ==
  ASSUME src \in [Memory -> 0 .. 255], MAX_SIZE \in Nat, RUN_MAX \in Nat,
         NEW from \in Nat, NEW n \in Nat, from + n <= MAX_SIZE + RUN_MAX + 1
  PROVE  Bytes(from, n) \in Seq(0 .. 255) /\ Len(Bytes(from, n)) = n
<1>1. \A k \in 1 .. n : src[from + k - 1] \in 0 .. 255
  BY DEF Memory
<1>2. Bytes(from, n) \in [1 .. n -> 0 .. 255]
  BY <1>1 DEF Bytes
<1> QED
  BY <1>2

\* The encoder's tokens.
Token == [flag : Nat, bytes : Seq(0 .. 255)]

\* A token behind the others.
LEMMA OneMore ==
  ASSUME NEW o \in Seq(Token), NEW a \in Token
  PROVE  /\ Append(o, a) \in Seq(Token) /\ Len(Append(o, a)) = Len(o) + 1
         /\ \A k \in 1 .. Len(o) : Append(o, a)[k] = o[k]
         /\ Append(o, a)[Len(o) + 1] = a
<1> QED
  BY AppendProperties

\* Two tokens written in one pass.
LEMMA TwoMore ==
  ASSUME NEW o \in Seq(Token), NEW a \in Token, NEW b \in Token
  PROVE  o \o <<a, b>> = Append(Append(o, a), b)
<1> DEFINE s == o \o <<a, b>>
           t == Append(Append(o, a), b)
<1>1. /\ <<a, b>> \in Seq(Token) /\ Len(<<a, b>>) = 2
      /\ <<a, b>>[1] = a /\ <<a, b>>[2] = b
  OBVIOUS
<1> DEFINE two == <<a, b>>
<1>2. /\ s \in Seq(Token) /\ Len(s) = Len(o) + 2 /\ Len(o) \in Nat
      /\ \A k \in 1 .. Len(o) + 2 : s[k] = IF k <= Len(o) THEN o[k] ELSE two[k - Len(o)]
  <2> HIDE DEF two
  <2>1. two \in Seq(Token) /\ Len(two) = 2
    BY <1>1 DEF two
  <2>2. /\ o \o two \in Seq(Token) /\ Len(o \o two) = Len(o) + 2
        /\ \A k \in 1 .. Len(o) + 2 :
             (o \o two)[k] = IF k <= Len(o) THEN o[k] ELSE two[k - Len(o)]
    <3>1. /\ o \o two \in Seq(Token) /\ Len(o \o two) = Len(o) + Len(two)
          /\ \A k \in 1 .. Len(o) + Len(two) :
               (o \o two)[k] = IF k <= Len(o) THEN o[k] ELSE two[k - Len(o)]
      BY <2>1, ConcatProperties
    <3> QED
      BY <2>1, <3>1, Zenon
  <2>3. Len(o) \in Nat
    BY LenProperties
  <2> QED
    BY <2>2, <2>3 DEF two
<1>3. /\ t \in Seq(Token) /\ Len(t) = Len(o) + 2
      /\ \A k \in 1 .. Len(o) : t[k] = o[k]
      /\ t[Len(o) + 1] = a /\ t[Len(o) + 2] = b
  <2> DEFINE u == Append(o, a)
  <2>1. /\ u \in Seq(Token) /\ Len(u) = Len(o) + 1
        /\ \A k \in 1 .. Len(o) : u[k] = o[k]
        /\ u[Len(o) + 1] = a
    BY OneMore
  <2> HIDE DEF u
  <2>2. /\ Append(u, b) \in Seq(Token) /\ Len(Append(u, b)) = Len(u) + 1
        /\ \A k \in 1 .. Len(u) : Append(u, b)[k] = u[k]
        /\ Append(u, b)[Len(u) + 1] = b
    BY <2>1, OneMore
  <2> QED
    BY <1>2, <2>1, <2>2 DEF u
<1> HIDE DEF s, t
<1>4. ASSUME NEW k \in 1 .. Len(s) PROVE s[k] = t[k]
  <2>1. k \in 1 .. Len(o) \/ k = Len(o) + 1 \/ k = Len(o) + 2
    BY <1>2
  <2>2. k = Len(o) + 1 => k - Len(o) = 1 /\ ~ (k <= Len(o)) /\ k \in 1 .. Len(o) + 2
    BY <1>2
  <2>3. k = Len(o) + 2 => k - Len(o) = 2 /\ ~ (k <= Len(o)) /\ k \in 1 .. Len(o) + 2
    BY <1>2
  <2>4. k \in 1 .. Len(o) => k <= Len(o) /\ k \in 1 .. Len(o) + 2
    BY <1>2
  <2> QED
    BY <1>1, <1>2, <1>3, <2>1, <2>2, <2>3, <2>4, Zenon DEF two
<1>5. s = t
  BY <1>2, <1>3, <1>4, SeqEqual
<1> QED
  BY <1>5 DEF s, t

\* A set of naturals has a least element.
LEMMA LeastOffset ==
  ASSUME NEW S \in SUBSET Nat, S # {}
  PROVE  \E m \in S : \A k \in S : m <= k
<1>1. PICK m \in S : \A k \in S : ~ (<<k, m>> \in OpToRel(<, Nat))
  BY NatLessThanWellFounded, WFMin
<1>2. \A k \in S : ~ (<<k, m>> \in {ss \in Nat \X Nat : ss[1] < ss[2]})
  BY <1>1 DEF OpToRel
<1>3. ASSUME NEW k \in S PROVE m <= k
  <2>1. <<k, m>> \in Nat \X Nat /\ k \in Nat /\ m \in Nat
    OBVIOUS
  <2>2. ~ (<<k, m>>[1] < <<k, m>>[2])
    BY <1>2, <2>1
  <2> QED
    BY <2>1, <2>2
<1> QED
  BY <1>3

\* The bytes of a run are all the same.
LEMMA RunOfEqualBytes ==
  ASSUME NEW from \in Nat, NEW n \in Nat, Matches(from, n)
  PROVE  \A k \in 1 .. n : src[from + k - 1] = src[from]
<1> DEFINE Other == {k \in 1 .. n : src[from + k - 1] # src[from]}
<1> SUFFICES ASSUME Other # {} PROVE FALSE
  OBVIOUS
<1>1. PICK k \in Other : \A j \in Other : k <= j
  <2>1. Other \in SUBSET Nat
    OBVIOUS
  <2> HIDE DEF Other
  <2> QED
    BY <2>1, LeastOffset
<1>2. k \in 1 .. n /\ src[from + k - 1] # src[from]
  OBVIOUS
<1>3. k # 1
  <2>1. from + 1 - 1 = from
    OBVIOUS
  <2> QED
    BY <1>2, <2>1
<1>4. k - 1 \in 1 .. n - 1 /\ k - 1 \in 1 .. n /\ k - 1 \notin Other
  BY <1>1, <1>2, <1>3
<1>5. Grows(from, size - from, k - 1)
  BY <1>4 DEF Matches
<1>6. src[from + (k - 1) - 1] = src[from + (k - 1)]
  BY <1>5 DEF Grows
<1>7. from + (k - 1) = from + k - 1
  BY <1>2
<1>8. src[from + (k - 1) - 1] = src[from]
  BY <1>4
<1> QED
  BY <1>2, <1>6, <1>7, <1>8

-----------------------------------------------------------------------------
(* What the decoder makes of the tokens.  It unfolds them one by one; the  *)
(* invariant carries the list of what it has after each.                   *)

Unfolds(d, o) ==
  d = [k \in 0 .. Len(o) |-> IF k = 0 THEN <<>> ELSE d[k - 1] \o Expand(o[k])]

\* There is one way to unfold a list of tokens.
LEMMA UnfoldsOneWay ==
  ASSUME NEW o \in Seq(Token), NEW d, NEW e, Unfolds(d, o), Unfolds(e, o)
  PROVE  d[Len(o)] = e[Len(o)]
<1>1. Len(o) \in Nat
  BY LenProperties
<1>2. /\ \A k \in 0 .. Len(o) : d[k] = IF k = 0 THEN <<>> ELSE d[k - 1] \o Expand(o[k])
      /\ \A k \in 0 .. Len(o) : e[k] = IF k = 0 THEN <<>> ELSE e[k - 1] \o Expand(o[k])
  BY Zenon DEF Unfolds
<1> DEFINE Differ == {k \in 0 .. Len(o) : d[k] # e[k]}
<1>3. Differ = {}
  <2> SUFFICES ASSUME Differ # {} PROVE FALSE
    OBVIOUS
  <2>1. PICK k \in Differ : \A j \in Differ : k <= j
    <3>1. Differ \in SUBSET Nat
      BY <1>1
    <3> HIDE DEF Differ
    <3> QED
      BY <3>1, LeastOffset
  <2>2. k \in 0 .. Len(o) /\ d[k] # e[k]
    OBVIOUS
  <2>3. k # 0
    BY <1>2, <2>2
  <2>4. k - 1 \in 0 .. Len(o) /\ k - 1 \notin Differ
    BY <1>1, <2>1, <2>2, <2>3
  <2>5. d[k - 1] = e[k - 1]
    BY <2>4
  <2> QED
    BY <1>2, <2>2, <2>3, <2>5
<1>4. Len(o) \in 0 .. Len(o)
  BY <1>1
<1> QED
  BY <1>3, <1>4

\* A token more adds what it stands for.
LEMMA UnfoldsMore ==
  ASSUME NEW o \in Seq(Token), NEW a \in Token, NEW d, Unfolds(d, o)
  PROVE  \E e : /\ Unfolds(e, Append(o, a))
                /\ e[Len(Append(o, a))] = d[Len(o)] \o Expand(a)
<1>1. Len(o) \in Nat
  BY LenProperties
<1> DEFINE n == Len(o)
           more == Append(o, a)
           e == [k \in 0 .. n + 1 |-> IF k = n + 1 THEN d[n] \o Expand(a) ELSE d[k]]
<1>2. /\ Len(more) = n + 1 /\ more[n + 1] = a
      /\ \A k \in 1 .. n : more[k] = o[k]
  BY OneMore
<1>3. \A k \in 0 .. n : d[k] = IF k = 0 THEN <<>> ELSE d[k - 1] \o Expand(o[k])
  BY Zenon DEF Unfolds
<1> HIDE DEF n, more
<1>4. n \in Nat
  BY <1>1 DEF n
<1>5. /\ e[n + 1] = d[n] \o Expand(a)
      /\ \A k \in 0 .. n : e[k] = d[k]
  BY <1>4
<1>6. ASSUME NEW k \in 0 .. n + 1
      PROVE  e[k] = IF k = 0 THEN <<>> ELSE e[k - 1] \o Expand(more[k])
  <2>1. CASE k = n + 1
    <3>1. k - 1 = n /\ k # 0 /\ n \in 0 .. n
      BY <1>4, <2>1
    <3> HIDE DEF e
    <3> QED
      BY <1>2, <1>5, <2>1, <3>1
  <2>2. CASE k # n + 1
    <3>1. k \in 0 .. n /\ (k # 0 => k \in 1 .. n /\ k - 1 \in 0 .. n)
      BY <1>4, <2>2
    <3> HIDE DEF e
    <3> QED
      BY <1>2, <1>3, <1>5, <3>1
  <2> QED
    BY <2>1, <2>2
<1>7. e = [k \in 0 .. n + 1 |-> IF k = 0 THEN <<>> ELSE e[k - 1] \o Expand(more[k])]
  <2> DEFINE f == [k \in 0 .. n + 1 |-> IF k = 0 THEN <<>> ELSE e[k - 1] \o Expand(more[k])]
  <2>1. \A k \in 0 .. n + 1 : e[k] = f[k]
    BY <1>6
  <2>2. e = [k \in 0 .. n + 1 |-> e[k]] /\ f = [k \in 0 .. n + 1 |-> f[k]]
    OBVIOUS
  <2> HIDE DEF e, f
  <2>3. e = f
    BY <2>1, <2>2
  <2> QED
    BY <2>3 DEF f
<1> HIDE DEF e
<1>8. Unfolds(e, more)
  BY <1>2, <1>7, Zenon DEF Unfolds
<1>9. e[Len(more)] = d[n] \o Expand(a)
  BY <1>2, <1>5
<1> QED
  BY <1>8, <1>9 DEF more, n

\* The decoder's result is where the unfolding ends.
LEMMA DecodedEnds ==
  ASSUME out \in Seq(Token), NEW d, Unfolds(d, out)
  PROVE  Decoded = d[Len(out)]
<1> DEFINE Walk(f) == f = [k \in 0 .. Len(out) |->
                             IF k = 0 THEN <<>> ELSE f[k - 1] \o Expand(out[k])]
           e == CHOOSE f : Walk(f)
<1>1. Decoded = e[Len(out)]
  BY DEF Decoded
<1>2. Walk(d)
  BY DEF Unfolds
<1> HIDE DEF Walk
<1>3. Walk(e)
  BY <1>2
<1>4. Unfolds(e, out)
  BY <1>3 DEF Unfolds, Walk
<1> HIDE DEF e
<1> QED
  BY <1>1, <1>4, UnfoldsOneWay

\* The decoder has made of the tokens o the bytes before `upto'.
Decodes(o, upto) == \E d : Unfolds(d, o) /\ d[Len(o)] = Bytes(0, upto)

\* Where memory and the constants are.
MemoryOK == src \in [Memory -> 0 .. 255] /\ MAX_SIZE \in Nat /\ RUN_MAX \in Nat

\* Two stretches of memory next to each other are one.
LEMMA BytesJoin ==
  ASSUME MemoryOK, NEW a \in Nat, NEW n \in Nat, a + n <= MAX_SIZE + RUN_MAX + 1
  PROVE  Bytes(0, a) \o Bytes(a, n) = Bytes(0, a + n)
<1> DEFINE s == Bytes(0, a)
           t == Bytes(a, n)
           u == Bytes(0, a + n)
<1>1. /\ s \in Seq(0 .. 255) /\ Len(s) = a
      /\ t \in Seq(0 .. 255) /\ Len(t) = n
      /\ u \in Seq(0 .. 255) /\ Len(u) = a + n
  <2>0. /\ src \in [Memory -> 0 .. 255] /\ MAX_SIZE \in Nat /\ RUN_MAX \in Nat
        /\ 0 \in Nat /\ a + n \in Nat
        /\ 0 + a <= MAX_SIZE + RUN_MAX + 1 /\ 0 + (a + n) <= MAX_SIZE + RUN_MAX + 1
    BY DEF MemoryOK
  <2>1. s \in Seq(0 .. 255) /\ Len(s) = a
    BY <2>0, BytesType
  <2>2. t \in Seq(0 .. 255) /\ Len(t) = n
    BY <2>0, BytesType
  <2>3. u \in Seq(0 .. 255) /\ Len(u) = a + n
    BY <2>0, BytesType
  <2> QED
    BY <2>1, <2>2, <2>3
<1>2. /\ \A k \in 1 .. a : s[k] = src[0 + k - 1]
      /\ \A k \in 1 .. n : t[k] = src[a + k - 1]
      /\ \A k \in 1 .. a + n : u[k] = src[0 + k - 1]
  BY DEF Bytes
<1> HIDE DEF s, t, u
<1>3. /\ s \o t \in Seq(0 .. 255) /\ Len(s \o t) = a + n
      /\ \A k \in 1 .. a + n : (s \o t)[k] = IF k <= a THEN s[k] ELSE t[k - a]
  <2>0. s \in Seq(0 .. 255) /\ t \in Seq(0 .. 255)
    BY <1>1
  <2>1. Len(s) = a /\ Len(t) = n
    BY <1>1
  <2>2. /\ s \o t \in Seq(0 .. 255) /\ Len(s \o t) = Len(s) + Len(t)
        /\ \A k \in 1 .. Len(s) + Len(t) :
             (s \o t)[k] = IF k <= Len(s) THEN s[k] ELSE t[k - Len(s)]
    BY <2>0, ConcatProperties
  <2> QED
    BY <2>1, <2>2, Zenon
<1>4. ASSUME NEW k \in 1 .. a + n PROVE (s \o t)[k] = u[k]
  <2>1. CASE k <= a
    <3>1. k \in 1 .. a
      BY <2>1
    <3> QED
      BY <1>2, <1>3, <2>1, <3>1
  <2>2. CASE ~ (k <= a)
    <3>1. k - a \in 1 .. n /\ a + (k - a) - 1 = 0 + k - 1
      BY <2>2
    <3> QED
      BY <1>2, <1>3, <2>2, <3>1
  <2> QED
    BY <2>1, <2>2
<1>5. s \o t = u
  BY <1>1, <1>3, <1>4, SeqEqual
<1> QED
  BY <1>5 DEF s, t, u

\* A token that stands for the bytes that follow makes the decoder go on by them.
LEMMA DecodesMore ==
  ASSUME MemoryOK, NEW o \in Seq(Token), NEW a \in Token, NEW from \in Nat, NEW n \in Nat,
         from + n <= MAX_SIZE + RUN_MAX + 1, Decodes(o, from), Expand(a) = Bytes(from, n)
  PROVE  Decodes(Append(o, a), from + n)
<1>1. PICK d : Unfolds(d, o) /\ d[Len(o)] = Bytes(0, from)
  BY DEF Decodes
<1>2. PICK e : /\ Unfolds(e, Append(o, a))
               /\ e[Len(Append(o, a))] = d[Len(o)] \o Expand(a)
  BY <1>1, UnfoldsMore
<1>3. d[Len(o)] \o Expand(a) = Bytes(0, from + n)
  BY <1>1, BytesJoin
<1> QED
  BY <1>2, <1>3 DEF Decodes

\* A raw token stands for its bytes.
LEMMA RawStands ==
  ASSUME MemoryOK, NEW from \in Nat, NEW n \in Nat, n <= RUN_MAX,
         from + n <= MAX_SIZE + RUN_MAX + 1
  PROVE  Raw(from, n) \in Token /\ Expand(Raw(from, n)) = Bytes(from, n)
<1>1. Bytes(from, n) \in Seq(0 .. 255) /\ Len(Bytes(from, n)) = n
  BY BytesType DEF MemoryOK
<1>2. Raw(from, n).flag = n /\ Raw(from, n).bytes = Bytes(from, n) /\ Raw(from, n) \in Token
  BY <1>1 DEF Raw, Token
<1>3. ~ (n >= RUN_FLAG)
  BY DEF RUN_FLAG, MemoryOK
<1>4. SubSeq(Bytes(from, n), 1, Len(Bytes(from, n))) = Bytes(from, n)
  BY <1>1, SubSeqFull
<1> HIDE DEF Raw, Bytes
<1> QED
  BY <1>1, <1>2, <1>3, <1>4, Zenon DEF Expand

\* A run token stands for its bytes, which are all equal.
LEMMA RunStands ==
  ASSUME MemoryOK, NEW from \in Nat, NEW n \in 2 .. RUN_MAX, Matches(from, n),
         from + n <= MAX_SIZE + RUN_MAX + 1
  PROVE  Run(from, n) \in Token /\ Expand(Run(from, n)) = Bytes(from, n)
<1>1. Bytes(from, 1) \in Seq(0 .. 255) /\ RUN_FLAG \in Nat /\ n \in Nat
  <2>1. from + 1 <= MAX_SIZE + RUN_MAX + 1 /\ RUN_FLAG \in Nat /\ n \in Nat
    BY DEF MemoryOK, RUN_FLAG
  <2>2. Bytes(from, 1) \in Seq(0 .. 255)
    BY <2>1, BytesType DEF MemoryOK
  <2> QED
    BY <2>1, <2>2
<1>2. Bytes(from, 1)[1] = src[from]
  BY DEF Bytes
<1>3. \A k \in 1 .. n : src[from + k - 1] = src[from]
  BY <1>1, RunOfEqualBytes
<1>4. Run(from, n).flag = n + RUN_FLAG /\ Run(from, n).bytes = Bytes(from, 1)
  BY DEF Run
<1>5. Run(from, n) \in Token
  BY <1>1 DEF Run, Token
<1>6. n + RUN_FLAG >= RUN_FLAG /\ n + RUN_FLAG - RUN_FLAG = n
  BY <1>1
<1>7. Expand(Run(from, n)) = [k \in 1 .. n |-> src[from]]
  <2> DEFINE token == Run(from, n)
             count == n + RUN_FLAG
  <2>1. token.flag = count /\ token.bytes[1] = src[from]
    BY <1>2, <1>4
  <2> HIDE DEF token
  <2>2. Expand(token) = [k \in 1 .. count - RUN_FLAG |-> src[from]]
    BY <1>6, <2>1, Zenon DEF Expand
  <2>3. count - RUN_FLAG = n
    BY <1>1
  <2> HIDE DEF count
  <2>4. Expand(token) = [k \in 1 .. n |-> src[from]]
    BY <2>2, <2>3
  <2> QED
    BY <2>4 DEF token
<1>8. Bytes(from, n) = [k \in 1 .. n |-> src[from]]
  BY <1>3 DEF Bytes
<1> QED
  BY <1>5, <1>7, <1>8

-----------------------------------------------------------------------------
(* The invariant of the encoder.                                           *)

EncoderInv == EndInv /\ Decodes(out, inOffset)

\* Nothing is written at first, and the decoder makes nothing of it.
LEMMA EncoderInit == Init => EncoderInv
<1> SUFFICES ASSUME Init PROVE EncoderInv
  OBVIOUS
<1>1. /\ src \in [Memory -> 0 .. 255] /\ size \in 0 .. MAX_SIZE
      /\ inOffset = 0 /\ out = <<>> /\ MAX_SIZE \in Nat /\ RUN_MAX \in Nat
  BY RleAssumption DEF Init
<1>2. EndInv
  BY <1>1 DEF EndInv
<1>3. Unfolds([k \in 0 .. 0 |-> <<>>], <<>>)
  BY DEF Unfolds
<1>4. Bytes(0, 0) = <<>>
  BY DEF Bytes
<1>5. [k \in 0 .. 0 |-> <<>>][Len(<<>>)] = Bytes(0, 0)
  BY <1>4
<1>6. Decodes(<<>>, 0)
  BY <1>3, <1>5, Zenon DEF Decodes
<1> QED
  BY <1>1, <1>2, <1>6 DEF EncoderInv

\* What each pass of the loop does, whichever token it ends with.
LEMMA PassKeeps ==
  ASSUME EncoderInv, inOffset < size, src' = src, size' = size,
         out' \in Seq(Token), Decodes(out', inOffset'),
         inOffset' \in Nat, inOffset' <= size + RUN_MAX,
         inOffset' > size =>
           /\ Len(out') > 1
           /\ out'[Len(out')].flag = RUN_FLAG + (inOffset' - size)
           /\ out'[Len(out') - 1].flag < RUN_FLAG
           /\ src[size] = src[size + 1]
  PROVE  EncoderInv'
<1>1. EndInv'
  BY DEF EncoderInv, EndInv, Token
<1>2. \A n : Bytes(0, n)' = Bytes(0, n)
  BY DEF Bytes
<1>3. Decodes(out, inOffset)'
  BY <1>2 DEF Decodes, Unfolds, Expand
<1> QED
  BY <1>1, <1>3 DEF EncoderInv

\* Every pass keeps the invariant.
LEMMA EncoderNext == EncoderInv /\ [Next]_vars => EncoderInv'
<1> SUFFICES ASSUME EncoderInv, [Next]_vars PROVE EncoderInv'
  OBVIOUS
<1>0. /\ MemoryOK /\ RUN_MAX > 1 /\ size \in Nat /\ size <= MAX_SIZE
      /\ MAX_SIZE \in Nat /\ RUN_MAX \in Nat /\ RUN_FLAG = RUN_MAX + 1
      /\ inOffset \in Nat /\ out \in Seq(Token) /\ Decodes(out, inOffset) /\ EndInv
  <2>1. MAX_SIZE \in Nat /\ RUN_MAX \in Nat /\ RUN_MAX > 1 /\ RUN_FLAG = RUN_MAX + 1
    BY RleAssumption DEF RUN_FLAG
  <2>2. EndInv /\ Decodes(out, inOffset)
    BY DEF EncoderInv
  <2>3. /\ src \in [Memory -> 0 .. 255] /\ size \in 0 .. MAX_SIZE /\ inOffset \in Nat
        /\ out \in Seq(Token)
    BY <2>2 DEF EndInv, Token
  <2>4. size \in Nat /\ size <= MAX_SIZE
    BY <2>1, <2>3
  <2> QED
    BY <2>1, <2>2, <2>3, <2>4 DEF MemoryOK
<1>1. CASE EmitRun
  <2>1. PICK n \in 2 .. RUN_MAX :
          /\ Matches(inOffset, n) /\ out' = Append(out, Run(inOffset, n))
          /\ inOffset' = inOffset + n
    BY <1>1 DEF EmitRun
  <2>2. inOffset < size /\ src' = src /\ size' = size /\ n \in Nat /\ n >= 1
    BY <1>0, <1>1 DEF EmitRun
  <2>3. inOffset + n <= size
    BY <1>0, <2>1, <2>2, RunStaysInside
  <2>4. inOffset + n <= MAX_SIZE + RUN_MAX + 1
    BY <1>0, <2>2, <2>3
  <2>5. Run(inOffset, n) \in Token /\ Expand(Run(inOffset, n)) = Bytes(inOffset, n)
    BY <1>0, <2>1, <2>4, RunStands
  <2>6. Decodes(Append(out, Run(inOffset, n)), inOffset + n)
    BY <1>0, <2>2, <2>4, <2>5, DecodesMore
  <2>7. out' \in Seq(Token)
    BY <1>0, <2>1, <2>5, OneMore
  <2>8. /\ inOffset' \in Nat /\ inOffset' <= size + RUN_MAX /\ ~ (inOffset' > size)
        /\ Decodes(out', inOffset')
    BY <1>0, <2>1, <2>2, <2>3, <2>6
  <2> QED
    BY <2>2, <2>7, <2>8, PassKeeps
<1>2. CASE EmitRaw
  <2>1. PICK n \in 1 .. RUN_MAX :
          /\ RawRun(n) /\ out' = Append(out, Raw(inOffset, n))
          /\ inOffset' = inOffset + n
    BY <1>2 DEF EmitRaw
  <2>2. inOffset < size /\ src' = src /\ size' = size /\ n \in Nat /\ n <= RUN_MAX
    BY <1>0, <1>2 DEF EmitRaw
  <2>3. inOffset + n <= size
    BY <2>1 DEF RawRun
  <2>4. inOffset + n <= MAX_SIZE + RUN_MAX + 1
    BY <1>0, <2>2, <2>3
  <2>5. Raw(inOffset, n) \in Token /\ Expand(Raw(inOffset, n)) = Bytes(inOffset, n)
    BY <1>0, <2>2, <2>4, RawStands
  <2>6. Decodes(Append(out, Raw(inOffset, n)), inOffset + n)
    BY <1>0, <2>2, <2>4, <2>5, DecodesMore
  <2>7. out' \in Seq(Token)
    BY <1>0, <2>1, <2>5, OneMore
  <2>8. /\ inOffset' \in Nat /\ inOffset' <= size + RUN_MAX /\ ~ (inOffset' > size)
        /\ Decodes(out', inOffset')
    BY <1>0, <2>1, <2>2, <2>3, <2>6
  <2> QED
    BY <2>2, <2>7, <2>8, PassKeeps
<1>3. CASE EmitRawAndRun
  <2>1. PICK n \in 1 .. RUN_MAX - 1, m \in 2 .. RUN_MAX :
          /\ RawRun(n) /\ Matches(inOffset + n, m)
          /\ out' = out \o <<Raw(inOffset, n), Run(inOffset + n, m)>>
          /\ inOffset' = inOffset + n + m
    BY <1>3 DEF EmitRawAndRun
  <2> DEFINE at == inOffset + n
             a == Raw(inOffset, n)
             b == Run(at, m)
             one == Append(out, a)
             two == Append(one, b)
  <2>2. /\ inOffset < size /\ src' = src /\ size' = size /\ n \in Nat /\ n <= RUN_MAX
        /\ m \in Nat /\ m >= 1 /\ m <= RUN_MAX
    BY <1>0, <1>3 DEF EmitRawAndRun
  <2>3. at <= size /\ at \in Nat
    BY <1>0, <2>1, <2>2 DEF RawRun
  <2>4. at <= MAX_SIZE + RUN_MAX + 1 /\ at + m <= MAX_SIZE + RUN_MAX + 1
    BY <1>0, <2>2, <2>3
  <2>5. a \in Token /\ Expand(a) = Bytes(inOffset, n)
    BY <1>0, <2>2, <2>4, RawStands
  <2> HIDE DEF a
  <2>6. Decodes(one, at)
    BY <1>0, <2>2, <2>4, <2>5, DecodesMore
  <2>7. /\ one \in Seq(Token) /\ Len(one) = Len(out) + 1 /\ one[Len(out) + 1] = a
        /\ Len(out) \in Nat
    BY <1>0, <2>5, OneMore, LenProperties
  <2>8. b \in Token /\ Expand(b) = Bytes(at, m)
    <3> HIDE DEF at
    <3> QED
      BY <1>0, <2>1, <2>3, <2>4, RunStands DEF at
  <2> HIDE DEF b, one, at
  <2>9. Decodes(two, at + m)
    BY <1>0, <2>2, <2>3, <2>4, <2>6, <2>7, <2>8, DecodesMore
  <2>10. /\ two \in Seq(Token) /\ Len(two) = Len(one) + 1 /\ two[Len(one) + 1] = b
         /\ \A k \in 1 .. Len(one) : two[k] = one[k]
    BY <2>7, <2>8, OneMore
  <2>11. out' = two
    BY <1>0, <2>1, <2>5, <2>8, TwoMore DEF a, b, one, at
  <2> HIDE DEF two
  <2>12. inOffset' = at + m
    BY <2>1 DEF at
  <2>13. /\ a.flag = n /\ b.flag = m + RUN_FLAG
    BY DEF a, b, Raw, Run
  <2>14. ASSUME at + m > size
         PROVE  at = size /\ src[size] = src[size + 1]
    <3>1. at = size
      BY <1>0, <2>1, <2>2, <2>3, <2>14, RunStaysInside DEF at
    <3>2. Grows(at, size - at, 1)
      BY <2>1 DEF Matches, at
    <3>3. src[at + 1 - 1] = src[at + 1] /\ at + 1 - 1 = at
      BY <2>3, <3>2 DEF Grows
    <3> QED
      BY <3>1, <3>3
  <2>15. /\ Len(out') = Len(out) + 2 /\ Len(out') - 1 = Len(out) + 1
         /\ out'[Len(out')] = b /\ out'[Len(out') - 1] = a
    <3>1. Len(out') = Len(out) + 2 /\ Len(one) + 1 = Len(out) + 2
      BY <2>7, <2>10, <2>11
    <3>2. Len(out') - 1 = Len(out) + 1 /\ Len(out) + 1 \in 1 .. Len(one)
      BY <2>7, <3>1
    <3> QED
      BY <2>7, <2>10, <2>11, <3>1, <3>2
  <2>16. inOffset' > size =>
           /\ Len(out') > 1
           /\ out'[Len(out')].flag = RUN_FLAG + (inOffset' - size)
           /\ out'[Len(out') - 1].flag < RUN_FLAG
           /\ src[size] = src[size + 1]
    <3> SUFFICES ASSUME at + m > size
                 PROVE  /\ Len(out') > 1
                        /\ out'[Len(out')].flag = RUN_FLAG + (inOffset' - size)
                        /\ out'[Len(out') - 1].flag < RUN_FLAG
                        /\ src[size] = src[size + 1]
      BY <2>12
    <3>1. m + RUN_FLAG = RUN_FLAG + (inOffset' - size) /\ n < RUN_FLAG
      BY <1>0, <2>2, <2>12, <2>14
    <3>2. Len(out') > 1
      BY <2>7, <2>15
    <3> QED
      BY <2>13, <2>14, <2>15, <3>1, <3>2
  <2>17. inOffset' \in Nat /\ inOffset' <= size + RUN_MAX
    BY <1>0, <2>2, <2>3, <2>12
  <2> QED
    BY <2>2, <2>9, <2>10, <2>11, <2>12, <2>16, <2>17, PassKeeps
<1>4. CASE Finished \/ UNCHANGED vars
  <2>1. UNCHANGED vars
    BY <1>4 DEF Finished
  <2>2. \A n : Bytes(0, n)' = Bytes(0, n)
    BY <2>1 DEF Bytes, vars
  <2>3. Decodes(out, inOffset)'
    BY <1>0, <2>1, <2>2 DEF Decodes, Unfolds, Expand, vars
  <2> QED
    BY <1>0, <2>1, <2>3 DEF EncoderInv, EndInv, vars
<1> QED
  BY <1>1, <1>2, <1>3, <1>4 DEF Next

\* Every state of the encoder has it.
LEMMA EncoderAlways == Spec => []EncoderInv
<1> QED
  BY EncoderInit, EncoderNext, PTL DEF Spec

\* Whatever the block, the memory behind it and the limit of a run, what has been
\* written decodes to what has been read (DN_Packet_Compress, riffUnpackRLE.py).
THEOREM DecodesBack == Spec => []RoundTrip
<1>1. EncoderInv => RoundTrip
  <2> SUFFICES ASSUME EncoderInv PROVE RoundTrip
    OBVIOUS
  <2>1. out \in Seq(Token) /\ Decodes(out, inOffset)
    BY DEF EncoderInv, EndInv, Token
  <2>2. PICK d : Unfolds(d, out) /\ d[Len(out)] = Bytes(0, inOffset)
    BY <2>1 DEF Decodes
  <2>3. Decoded = d[Len(out)]
    BY <2>1, <2>2, DecodedEnds
  <2> QED
    BY <2>2, <2>3 DEF RoundTrip
<1> QED
  BY <1>1, EncoderAlways, PTL

\* What the encoder takes from behind a block is one run, after a raw token that ends
\* the block: no token straddles its end (DN_RLE_Matching).
THEOREM OneRunBehind == Spec => []OnlyARunBehind
<1>1. EncoderInv => OnlyARunBehind
  <2> SUFFICES ASSUME EncoderInv, Done, inOffset # size
               PROVE  /\ Len(out) > 1
                      /\ out[Len(out)].flag = RUN_FLAG + (inOffset - size)
                      /\ out[Len(out) - 1].flag < RUN_FLAG
                      /\ src[size] = src[size + 1]
    BY DEF OnlyARunBehind
  <2>1. size \in Nat /\ inOffset \in Nat
    BY RleAssumption DEF EncoderInv, EndInv
  <2>2. inOffset > size
    BY <2>1 DEF Done
  <2> QED
    BY <2>2 DEF EncoderInv, EndInv
<1> QED
  BY <1>1, EncoderAlways, PTL
=============================================================================
