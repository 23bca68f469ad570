------------------------------ MODULE MCLibraries ------------------------------
(***************************************************************************)
(* Libraries for TLC.                                                      *)
(***************************************************************************)
EXTENDS Libraries, TLC

\* Every memory over two byte values.
MCSources == [Memory -> {0, 1}]

MCSizes == 0 .. MAX_SIZE

-----------------------------------------------------------------------------
\* Every block over two byte values of up to 13 bytes (LZ4 leaves 7 alone), under
\* an injective hash, one with collisions and one that tells nothing apart.
MCLz4Blocks == UNION {[1 .. n -> {0, 1}] : n \in 0 .. 13}

Words == [1 .. 3 -> {0, 1}]

MCLz4Hashes ==
  {[w \in Words |-> w[1] + 2 * w[2] + 4 * w[3]], [w \in Words |-> (w[1] + w[2] + w[3]) % 2],
   [w \in Words |-> 0]}

-----------------------------------------------------------------------------
\* LZO looks for no match in the last 20 bytes: short blocks, and every start of up to
\* 9 bytes over two values before tails that do and do not go on matching.
Starts == UNION {[1 .. n -> {0, 1}] : n \in 0 .. 9}

Tails ==
  {[i \in 1 .. 21 |-> 0], [i \in 1 .. 22 |-> i % 2],
   [i \in 1 .. 23 |-> IF i = 17 THEN 1 ELSE 0], [i \in 1 .. 21 |-> IF i % 3 = 0 THEN 1 ELSE 0]}

\* Zeros, bytes that all differ, zeros, and bytes that differ: lengths on both sides
\* of every change of the encoding.
Zeros(n) == [i \in 1 .. n |-> 0]
Rising(n) == [i \in 1 .. n |-> 1 + (i % 250)]
Falling(n) == [i \in 1 .. n |-> 255 - (i % 250)]

MCLzoBlocks ==
  Starts \cup {s \o t : s \in Starts, t \in Tails}
  \cup {Zeros(a) \o Rising(k) \o Zeros(b) \o Falling(c) :
          a \in {0, 6, 10}, k \in (0 .. 5) \cup {18, 19, 252},
          b \in {0, 4, 8, 9, 33, 34, 288}, c \in {3, 21}}

MCLzoHashes == {1, 3, 16}

-----------------------------------------------------------------------------
\* Every single byte, so that every entry of the table is looked up, and packets
\* that take one chunk, two and three.
MCPayloads ==
  {<<b>> : b \in 0 .. 255}
    \cup {<<1, 126, 125>>, <<255, 255, 255, 255>>, <<2, 0, 0, 0, 0, 0, 7, 9, 11>>}

\* One bit, two neighbours, the two ends of 16 bits, all 16, and two in between.
MCPatterns == {0, 1, 3, 32769, 65535, 4097, 1229}

-----------------------------------------------------------------------------
\* The heap: three blocks in two regions, the first of which starts off a boundary and
\* is followed by one too small to use; a list that ends early and one in the wrong order,
\* which leaves the heap to the list of dcc_main.
CONSTANTS h1, h2, h3

Region(start, length) == [start |-> start, size |-> length]

MCRegionLists ==
    { << Region(1, 71), Region(76, 12), Region(88, 43) >>,
      << Region(4, 68), Region(80, 0), Region(88, 40) >>,
      << Region(84, 40), Region(8, 68) >> }
MCMainList == << Region(88, 40) >>
MCHeapSizes == {0, 3, 13, 20, 29}
MCItems == {<<2, 6>>}
MCHandles == {h1, h2, h3}

HandleSymmetry == Permutations(Handles)

-----------------------------------------------------------------------------
\* The formatter: one directive of every kind with every set of flags, and formats of
\* several items for every size of buffer around their length.
Dir(type, flags, width, arg) ==
  [type |-> type, flags |-> flags, width |-> width, precise |-> FALSE, precision |-> 0, arg |-> arg]
Upto(d, p) == [d EXCEPT !.precise = TRUE, !.precision = p]
Lit(c) == [type |-> "literal", arg |-> c]

\* NUL of Lwprintf; alone in a sequence it is the null pointer.
NulOfFormat == "NUL"

AllFlags == SUBSET {"-", "+", " ", "0", "#"}
Widths == {-6, 0, 1, 2, 6}
Strings == {<<>>, <<"a">>, <<"a", "b", "c">>, <<NulOfFormat>>}

Directives ==
  {Dir("d", f, w, n) : f \in AllFlags, w \in Widths, n \in {0, 7, -42}}
  \cup {Dir(t, f, w, n) : t \in {"u", "x", "X", "o", "b"}, f \in AllFlags, w \in Widths, n \in {0, 10}}
  \cup {Dir("s", f, w, s) : f \in AllFlags, w \in Widths, s \in Strings}
  \cup {Upto(Dir("s", {}, w, s), p) : w \in Widths, p \in {-1, 0, 2}, s \in Strings}
  \cup {Dir("k", f, w, <<0, 171>>) : f \in AllFlags, w \in 0 .. 2}
  \cup {Dir("p", f, 3, n) : f \in AllFlags, n \in {0, 1000}}
  \cup {Dir("c", {}, 0, "z"), Dir("c", {}, 4, NulOfFormat), Dir("n", {}, 0, 0), Dir("a", {}, 0, 0),
        Dir("%", {}, 0, 0), Upto(Dir("u", {}, 0, 7), 3)}

\* The name nor.c writes, with one digit for four, and one with characters of every kind.
Name == <<Lit("U"), Lit("("), Dir("x", {"0"}, 4, 28), Lit(","), Dir("x", {"0"}, 4, 200), Lit(")")>>
Mixed == <<Lit("a"), Dir("c", {}, 0, NulOfFormat), Dir("s", {"-"}, 3, <<"b">>), Dir("n", {}, 0, 0),
           Dir("d", {"+"}, 3, 5), Lit("z")>>

MCCalls ==
  [to : {"buffer"}, size : {20}, null : {FALSE}, limit : {0}, format : {<<d>> : d \in Directives}]
  \cup [to : {"buffer"}, size : 0 .. 15, null : BOOLEAN, limit : {0}, format : {Name, Mixed, <<>>}]
  \cup [to : {"print"}, size : {0}, null : {TRUE}, limit : 0 .. 15, format : {Name, Mixed, <<>>}]
=============================================================================
