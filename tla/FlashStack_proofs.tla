------------------------- MODULE FlashStack_proofs -------------------------
(***************************************************************************)
(* What the flash drivers promise, proved for every board and page: a      *)
(* OneNAND read returns its own page; the probe of a NAND or SuperAND      *)
(* chip describes the chip that is there; a read of one returns the page   *)
(* it was asked for; a call that succeeds has given back what it took for  *)
(* its length.                                                             *)
(***************************************************************************)
EXTENDS FlashStack, FiniteSetTheorems, SequenceTheorems, TLAPS

-----------------------------------------------------------------------------
(* Lists of operations.                                                    *)

\* What is left of a list after k of its operations.
Rest(s, k) == [i \in 1 .. Len(s) - k |-> s[i + k]]

\* A function over 1 .. m is a sequence of length m.
LEMMA FunctionIsSeq ==
  ASSUME NEW S, NEW m \in Nat, NEW r \in [1 .. m -> S]
  PROVE  r \in Seq(S) /\ Len(r) = m
<1>1. r \in Seq(S)
  BY SeqDef
<1>2. DOMAIN r = 1 .. m /\ DOMAIN r = 1 .. Len(r) /\ Len(r) \in Nat
  BY <1>1, LenProperties
<1> QED
  BY <1>2

\* The rest of a list: its first operation, and the rest behind that one.
LEMMA RestIs ==
  ASSUME NEW S, NEW s \in Seq(S), NEW k \in Nat, k < Len(s)
  PROVE  /\ Rest(s, k) # <<>> /\ Head(Rest(s, k)) = s[k + 1]
         /\ Tail(Rest(s, k)) = Rest(s, k + 1)
<1> DEFINE n == Len(s)
           r == [i \in 1 .. n - k |-> s[i + k]]
           q == [i \in 1 .. n - (k + 1) |-> s[i + (k + 1)]]
<1>1. n \in Nat /\ k < n /\ s \in [1 .. n -> S]
  BY LenProperties
<1> HIDE DEF n
<1>2. r \in Seq(S) /\ Len(r) = n - k
  <2>1. PICK m \in Nat : m = n - k
    BY <1>1
  <2>2. r \in [1 .. m -> S]
    BY <1>1, <2>1
  <2> HIDE DEF r
  <2> QED
    BY <2>1, <2>2, FunctionIsSeq
<1>3. q \in Seq(S) /\ Len(q) = n - (k + 1)
  <2>1. PICK m \in Nat : m = n - (k + 1)
    BY <1>1
  <2>2. q \in [1 .. m -> S]
    BY <1>1, <2>1
  <2> HIDE DEF q
  <2> QED
    BY <2>1, <2>2, FunctionIsSeq
<1>4. r[1] = s[k + 1] /\ \A i \in 1 .. n - (k + 1) : r[i + 1] = q[i]
  BY <1>1
<1> HIDE DEF r, q
<1>5. r # <<>>
  BY <1>1, <1>2, EmptySeq
<1>6. /\ Head(r) = r[1] /\ Tail(r) \in Seq(S) /\ Len(Tail(r)) = Len(r) - 1
      /\ \A i \in 1 .. Len(Tail(r)) : Tail(r)[i] = r[i + 1]
  BY <1>2, <1>5, HeadTailProperties
<1>7. Tail(r) = q
  BY <1>1, <1>2, <1>3, <1>4, <1>6, SeqEqual
<1> QED
  BY <1>4, <1>5, <1>6, <1>7 DEF Rest, n, r, q

\* An operation before a list.
LEMMA FirstOf ==
  ASSUME NEW S, NEW a \in S, NEW r \in Seq(S)
  PROVE  /\ <<a>> \o r \in Seq(S) /\ <<a>> \o r # <<>>
         /\ Head(<<a>> \o r) = a /\ Tail(<<a>> \o r) = r
<1> DEFINE u == <<a>>
           t == u \o r
<1>1. u \in Seq(S) /\ Len(u) = 1 /\ u[1] = a
  OBVIOUS
<1>2. PICK m \in Nat : m = Len(r)
  BY LenProperties
<1> HIDE DEF u
<1>3. /\ t \in Seq(S) /\ Len(t) = Len(u) + Len(r)
      /\ \A i \in 1 .. Len(u) + Len(r) : t[i] = IF i <= Len(u) THEN u[i] ELSE r[i - Len(u)]
  BY <1>1, ConcatProperties
<1> HIDE DEF t
<1>4. t \in Seq(S) /\ Len(t) = 1 + m /\ \A i \in 1 .. 1 + m : t[i] = IF i <= 1 THEN u[i] ELSE r[i - 1]
  BY <1>1, <1>2, <1>3, Zenon
<1>5. t[1] = a /\ \A i \in 1 .. m : t[i + 1] = r[i]
  BY <1>1, <1>4
<1>6. t # <<>>
  BY <1>4, EmptySeq
<1>7. /\ Head(t) = t[1] /\ Tail(t) \in Seq(S) /\ Len(Tail(t)) = Len(t) - 1
      /\ \A i \in 1 .. Len(Tail(t)) : Tail(t)[i] = t[i + 1]
  BY <1>4, <1>6, HeadTailProperties
<1>8. PICK z : z = Tail(t)
  OBVIOUS
<1>9. z \in Seq(S) /\ Len(z) = m /\ \A i \in 1 .. m : z[i] = r[i]
  <2>1. (1 + m) - 1 = m
    OBVIOUS
  <2>2. z \in Seq(S) /\ Len(z) = (1 + m) - 1 /\ \A i \in 1 .. Len(z) : z[i] = t[i + 1]
    BY <1>4, <1>7, <1>8, Zenon
  <2> QED
    BY <1>5, <2>1, <2>2, Zenon
<1>10. z = r
  BY <1>2, <1>9, SeqEqual
<1> QED
  BY <1>4, <1>5, <1>6, <1>7, <1>8, <1>10, Zenon DEF t, u

InARow(S, x, y, z) == x \in Seq(S) /\ y \in Seq(S) /\ z \in Seq(S)
Moves(x, y, z) == (x \o y) \o z = x \o (y \o z)

\* Three lists in a row.
LEMMA Reassociated ==
  ASSUME NEW S, NEW x, NEW y, NEW z, InARow(S, x, y, z)
  PROVE  Moves(x, y, z)
BY ConcatAssociative DEF InARow, Moves

SevenInARow(S, a, b, c, d, e, f, s) ==
  /\ a \in Seq(S) /\ b \in Seq(S) /\ c \in Seq(S) /\ d \in Seq(S)
  /\ e \in Seq(S) /\ f \in Seq(S) /\ s \in Seq(S)
SevenMove(a, b, c, d, e, f, s) ==
  a \o b \o c \o d \o e \o f \o s = a \o (b \o (c \o (d \o (e \o (f \o s)))))

\* Seven lists in a row, taken from the front.
LEMMA Regrouped ==
  ASSUME NEW S, NEW a, NEW b, NEW c, NEW d, NEW e, NEW f, NEW s, SevenInARow(S, a, b, c, d, e, f, s)
  PROVE  SevenMove(a, b, c, d, e, f, s)
<1> a \in Seq(S) /\ b \in Seq(S) /\ c \in Seq(S) /\ d \in Seq(S) /\ e \in Seq(S) /\ f \in Seq(S) /\ s \in Seq(S)
  BY DEF SevenInARow
<1>1. PICK p2 \in Seq(S) : p2 = a \o b
  BY ConcatProperties
<1>2. PICK p3 \in Seq(S) : p3 = p2 \o c
  BY ConcatProperties
<1>3. PICK p4 \in Seq(S) : p4 = p3 \o d
  BY ConcatProperties
<1>4. PICK p5 \in Seq(S) : p5 = p4 \o e
  BY ConcatProperties
<1>5. PICK q5 \in Seq(S) : q5 = f \o s
  BY ConcatProperties
<1>6. PICK q4 \in Seq(S) : q4 = e \o q5
  BY ConcatProperties
<1>7. PICK q3 \in Seq(S) : q3 = d \o q4
  BY ConcatProperties
<1>8. PICK q2 \in Seq(S) : q2 = c \o q3
  BY ConcatProperties
<1>9. (p5 \o f) \o s = p5 \o (f \o s)
  <2>1. InARow(S, p5, f, s)
    BY DEF InARow
  <2>2. Moves(p5, f, s)
    BY <2>1, Reassociated, Zenon
  <2> QED
    BY <2>2, Zenon DEF Moves
<1>10. (p4 \o e) \o q5 = p4 \o (e \o q5)
  <2>1. InARow(S, p4, e, q5)
    BY DEF InARow
  <2>2. Moves(p4, e, q5)
    BY <2>1, Reassociated, Zenon
  <2> QED
    BY <2>2, Zenon DEF Moves
<1>11. (p3 \o d) \o q4 = p3 \o (d \o q4)
  <2>1. InARow(S, p3, d, q4)
    BY DEF InARow
  <2>2. Moves(p3, d, q4)
    BY <2>1, Reassociated, Zenon
  <2> QED
    BY <2>2, Zenon DEF Moves
<1>12. (p2 \o c) \o q3 = p2 \o (c \o q3)
  <2>1. InARow(S, p2, c, q3)
    BY DEF InARow
  <2>2. Moves(p2, c, q3)
    BY <2>1, Reassociated, Zenon
  <2> QED
    BY <2>2, Zenon DEF Moves
<1>13. (a \o b) \o q2 = a \o (b \o q2)
  <2>1. InARow(S, a, b, q2)
    BY DEF InARow
  <2>2. Moves(a, b, q2)
    BY <2>1, Reassociated, Zenon
  <2> QED
    BY <2>2, Zenon DEF Moves
<1>14. a \o b \o c \o d \o e \o f \o s = (p5 \o f) \o s
  BY <1>1, <1>2, <1>3, <1>4, Zenon
<1>15. a \o (b \o (c \o (d \o (e \o (f \o s))))) = a \o (b \o q2)
  BY <1>5, <1>6, <1>7, <1>8, Zenon
<1>16. (p5 \o f) \o s = (p3 \o d) \o q4
  BY <1>3, <1>4, <1>5, <1>6, <1>9, <1>10, Zenon
<1>17. (p3 \o d) \o q4 = (a \o b) \o q2
  BY <1>1, <1>2, <1>7, <1>8, <1>11, <1>12, Zenon
<1> QED
  BY <1>13, <1>14, <1>15, <1>16, <1>17, Zenon DEF SevenMove

-----------------------------------------------------------------------------
(* A page's place in a OneNAND.                                            *)

\* A number below the modulus is its own remainder; one below twice the modulus is once over.
LEMMA Remainders ==
  ASSUME NEW a \in Nat, NEW b \in Nat \ {0}
  PROVE  /\ a < b => a % b = a
         /\ b <= a /\ a < 2 * b => a % b = a - b
<1>1. CASE a < b
  <2>1. a \div b = 0
    BY <1>1
  <2>2. a = b * (a \div b) + (a % b)
    OBVIOUS
  <2> QED
    BY <1>1, <2>1, <2>2
<1>2. CASE b <= a /\ a < 2 * b
  <2>1. a \div b = 1
    BY <1>2
  <2>2. a = b * (a \div b) + (a % b)
    OBVIOUS
  <2> QED
    BY <1>2, <2>1, <2>2
<1> QED
  BY <1>1, <1>2

OneChip == board \in OneNandBoards
MB_ == board.chip.size
TwoDies == board.chip.device_id.ddp

DieOf(page) == IF TwoDies /\ page \div 64 >= MB_ * 4 THEN 1 ELSE 0
BlockOf(page) == (page \div 64) % (IF TwoDies THEN MB_ * 4 ELSE MB_ * 8)
OneRow(page) == BlockOf(page) * 64 + (page % 64)

\* What the data sheets say of the chip.
LEMMA ChipNamed ==
  ASSUME OneChip
  PROVE  TwoDies \in BOOLEAN /\ MB_ \in Nat \ {0} /\ MB_ = OneNand!Density(board.chip.device_id)
BY OneNandAssumption DEF OneNand!ChipsAreNamed, OneChip, MB_, TwoDies

\* The pages of a die.
LEMMA PerDieIs ==
  ASSUME OneChip
  PROVE  /\ OneNand!PerDie = IF TwoDies THEN MB_ * 256 ELSE MB_ * 512
         /\ OneNand!Dies = IF TwoDies THEN {0, 1} ELSE {0}
<1>1. OneNand!Dies = IF TwoDies THEN {0, 1} ELSE {0}
  BY DEF OneNand!Dies, OneNand!chip, TwoDies
<1>2. OneNand!PerDie = MB_ * IF TwoDies THEN 256 ELSE 512
  BY DEF OneNand!PerDie, OneNand!chip, MB_, TwoDies
<1> QED
  BY <1>1, <1>2

\* Die, block and page of the block name each page of the chip once.
LEMMA PagePlace ==
  ASSUME OneChip, NEW page \in Nat, page < MB_ * 512
  PROVE  /\ DieOf(page) \in OneNand!Dies /\ OneRow(page) \in Nat
         /\ BlockOf(page) * 64 < OneNand!PerDie
         /\ DieOf(page) * OneNand!PerDie + OneRow(page) = page
<1>1. TwoDies \in BOOLEAN /\ MB_ \in Nat \ {0}
  BY ChipNamed
<1>2. PICK q \in Nat, r \in 0 .. 63 : q = page \div 64 /\ r = page % 64 /\ page = 64 * q + r
  OBVIOUS
<1>3. q < MB_ * 8
  BY <1>1, <1>2
<1>6. page % 64 = r
  BY <1>2
<1>4. CASE TwoDies
  <2>1. PICK b \in Nat \ {0} : b = MB_ * 4
    BY <1>1
  <2>2. PICK d \in Nat : d = OneNand!PerDie /\ d = 64 * b
    BY <1>1, <1>4, <2>1, PerDieIs
  <2>3. OneNand!Dies = {0, 1}
    BY <1>4, PerDieIs
  <2>4. CASE q < b
    <3>1. BlockOf(page) = q /\ DieOf(page) = 0
      <4>1. BlockOf(page) = q % b /\ DieOf(page) = IF q >= b THEN 1 ELSE 0
        BY <1>2, <1>4, <2>1, Zenon DEF BlockOf, DieOf
      <4> QED
        BY <2>4, <4>1, Remainders
    <3>2. OneRow(page) = page
      <4>1. OneRow(page) = q * 64 + r
        BY <1>6, <3>1 DEF OneRow
      <4> QED
        BY <1>2, <4>1
    <3>3. 0 * d + page = page /\ q * 64 < d
      BY <2>2, <2>4
    <3> QED
      BY <2>2, <2>3, <3>1, <3>2, <3>3
  <2>5. CASE q >= b
    <3>1. b <= q /\ q < 2 * b
      BY <1>1, <1>3, <2>1, <2>5
    <3>2. BlockOf(page) = q - b /\ DieOf(page) = 1
      <4>1. BlockOf(page) = q % b /\ DieOf(page) = IF q >= b THEN 1 ELSE 0
        BY <1>2, <1>4, <2>1, Zenon DEF BlockOf, DieOf
      <4> QED
        BY <2>5, <3>1, <4>1, Remainders
    <3>3. OneRow(page) = page - d /\ OneRow(page) \in Nat
      <4>1. OneRow(page) = (q - b) * 64 + r
        BY <1>6, <3>2 DEF OneRow
      <4> QED
        BY <1>2, <2>2, <3>1, <4>1
    <3>4. 1 * d + (page - d) = page /\ (q - b) * 64 < d
      BY <2>2, <3>1
    <3> QED
      BY <2>2, <2>3, <3>2, <3>3, <3>4
  <2> QED
    BY <2>1, <2>4, <2>5
<1>5. CASE ~TwoDies
  <2>1. PICK b \in Nat \ {0} : b = MB_ * 8
    BY <1>1
  <2>2. PICK d \in Nat : d = OneNand!PerDie /\ d = 64 * b
    BY <1>1, <1>5, <2>1, PerDieIs
  <2>3. BlockOf(page) = q /\ DieOf(page) = 0
    <3>1. BlockOf(page) = q % b /\ DieOf(page) = 0
      BY <1>2, <1>5, <2>1, Zenon DEF BlockOf, DieOf
    <3>2. q < b
      BY <1>1, <1>3, <2>1
    <3> QED
      BY <3>1, <3>2, Remainders
  <2>4. OneRow(page) = page
    <3>1. OneRow(page) = q * 64 + r
      BY <1>6, <2>3 DEF OneRow
    <3> QED
      BY <1>2, <3>1
  <2>5. 0 * d + page = page /\ q * 64 < d /\ OneNand!Dies = {0}
    BY <1>3, <1>5, <2>1, <2>2, PerDieIs
  <2> QED
    BY <2>2, <2>3, <2>4, <2>5
<1> QED
  BY <1>1, <1>4, <1>5

-----------------------------------------------------------------------------
(* The list of a OneNAND read.                                             *)

Sflash == board.port = "msm7200"
CopyCount == IF Sflash THEN 5 ELSE 2

\* The i-th copy of a read.
Piece(i) ==
  IF Sflash /\ i <= 4 THEN <<"copy", "page", 512 * (i - 1), 512, OneNand!O1N_DATARAM + 256 * (i - 1)>>
  ELSE IF ~Sflash /\ i = 1 THEN <<"copy", "page", 0, 2048, OneNand!O1N_DATARAM>>
  ELSE <<"copy", "spare", 0, 64, OneNand!O1N_SPARERAM>>

Copies == OneNand!OneNAND_Ctrl_Get_Data(2048)

ClearOp == <<"write", "INTERRUPT", {}>>
DieOp(page) == <<"write", "START_ADDRESS1", [die |-> DieOf(page), block |-> BlockOf(page)]>>
BufferOp(page) == <<"write", "START_ADDRESS2", DieOf(page)>>
PageOp(page) == <<"write", "START_ADDRESS8", page % 64>>
ReadOp == <<"write", "COMMAND", "READ">>
WaitOp == <<"wait", {OneNand!INT, OneNand!RI}>>

OneOps(page) ==
  {ClearOp, DieOp(page), BufferOp(page), PageOp(page), ReadOp, WaitOp} \cup {Piece(i) : i \in 1 .. 5}

FromWait == <<WaitOp>> \o Copies
FromRead == <<ReadOp>> \o FromWait
FromPage(page) == <<PageOp(page)>> \o FromRead
FromBuffer(page) == <<BufferOp(page)>> \o FromPage(page)
FromDie(page) == <<DieOp(page)>> \o FromBuffer(page)
FromClear(page) == <<ClearOp>> \o FromDie(page)

\* The registers and buffers a OneNAND read copies from, in one piece or in five.
LEMMA CopiesAre ==
  ASSUME NEW page
  PROVE  /\ Copies \in Seq(OneOps(page)) /\ Len(Copies) = CopyCount
         /\ \A i \in 1 .. CopyCount : Copies[i] = Piece(i)
<1> DEFINE S == OneOps(page)
<1>1. \A i \in 1 .. 5 : Piece(i) \in S
  BY DEF OneOps
<1>2. CASE ~Sflash
  <2>1. PICK a, b : a = <<Piece(1)>> /\ b = <<Piece(2)>> /\ Copies = a \o b
    <3>1. 2048 \div 32 = 64
      OBVIOUS
    <3>2. /\ Piece(1) = <<"copy", "page", 0, 2048, OneNand!O1N_DATARAM>>
          /\ Piece(2) = <<"copy", "spare", 0, 64, OneNand!O1N_SPARERAM>>
      BY <1>2 DEF Piece
    <3>3. Copies = OneNand!GetData(2048)
      BY <1>2 DEF Copies, OneNand!OneNAND_Ctrl_Get_Data, Sflash
    <3>4. PICK x, y : /\ x = OneNand!Copy("page", 0, 2048, OneNand!O1N_DATARAM)
                      /\ y = OneNand!Copy("spare", 0, 2048 \div 32, OneNand!O1N_SPARERAM)
      OBVIOUS
    <3>5. OneNand!GetData(2048) = x \o y
      BY <3>4 DEF OneNand!GetData
    <3>6. x = <<Piece(1)>>
      BY <3>2, <3>4 DEF OneNand!Copy
    <3>7. y = <<Piece(2)>>
      BY <3>1, <3>2, <3>4 DEF OneNand!Copy
    <3>8. Copies = x \o y
      BY <3>3, <3>5
    <3> QED
      BY <3>6, <3>7, <3>8, Zenon
  <2>2. a \in Seq(S) /\ b \in Seq(S) /\ Len(a) = 1 /\ Len(b) = 1 /\ a[1] = Piece(1) /\ b[1] = Piece(2)
    BY <1>1, <2>1
  <2> HIDE DEF S
  <2>3. /\ a \o b \in Seq(S) /\ Len(a \o b) = Len(a) + Len(b)
        /\ \A i \in 1 .. Len(a) + Len(b) : (a \o b)[i] = IF i <= Len(a) THEN a[i] ELSE b[i - Len(a)]
    BY <2>2, ConcatProperties
  <2>4. PICK t : t = a \o b
    OBVIOUS
  <2>5. t \in Seq(S) /\ Len(t) = 1 + 1 /\ \A i \in 1 .. 1 + 1 : t[i] = IF i <= 1 THEN a[i] ELSE b[i - 1]
    BY <2>2, <2>3, <2>4, Zenon
  <2>6. t[1] = Piece(1) /\ t[2] = Piece(2)
    BY <2>2, <2>5
  <2>7. Copies = t /\ CopyCount = 2
    BY <1>2, <2>1, <2>4 DEF CopyCount
  <2>8. \A i \in 1 .. 2 : i = 1 \/ i = 2
    OBVIOUS
  <2>9. Len(t) = 2
    BY <2>5
  <2> QED
    BY <2>5, <2>6, <2>7, <2>8, <2>9, Zenon DEF S
<1>3. CASE Sflash
  <2> DEFINE a == [k \in 1 .. 4 |-> Piece(k)]
             b == [k \in 1 .. 1 |-> Piece(5)]
  <2>1. Copies = OneNand!Nand2Buf("page", OneNand!O1N_DATARAM, 2048)
                 \o OneNand!Nand2Buf("spare", OneNand!O1N_SPARERAM, 64)
    <3>1. 2048 \div 32 = 64
      OBVIOUS
    <3>2. Copies = OneNand!GetDataSflash(2048)
      BY <1>3 DEF Copies, OneNand!OneNAND_Ctrl_Get_Data, Sflash
    <3> QED
      BY <3>1, <3>2 DEF OneNand!GetDataSflash
  <2>2. OneNand!Nand2Buf("page", OneNand!O1N_DATARAM, 2048) = a
    <3>1. (2048 + 511) \div 512 = 4
      OBVIOUS
    <3>2. \A k \in 1 .. 4 : ~(512 * k > 2048)
      OBVIOUS
    <3>3. \A k \in 1 .. 4 :
            Piece(k) = <<"copy", "page", 512 * (k - 1), 512, OneNand!O1N_DATARAM + 256 * (k - 1)>>
      BY <1>3 DEF Piece
    <3> QED
      BY <3>1, <3>2, <3>3 DEF OneNand!Nand2Buf
  <2>3. OneNand!Nand2Buf("spare", OneNand!O1N_SPARERAM, 64) = b
    <3>1. (64 + 511) \div 512 = 1
      OBVIOUS
    <3>2. \A k \in 1 .. 1 : /\ 512 * k > 64 /\ 512 * (k - 1) = 0 /\ 64 - 512 * (k - 1) = 64
                            /\ OneNand!O1N_SPARERAM + 256 * (k - 1) = OneNand!O1N_SPARERAM
      BY DEF OneNand!O1N_SPARERAM
    <3>3. Piece(5) = <<"copy", "spare", 0, 64, OneNand!O1N_SPARERAM>>
      BY <1>3 DEF Piece
    <3> QED
      BY <3>1, <3>2, <3>3 DEF OneNand!Nand2Buf
  <2>4. a \in [1 .. 4 -> S] /\ b \in [1 .. 1 -> S] /\ 4 \in Nat /\ 1 \in Nat
    BY <1>1
  <2>5. b[1] = Piece(5) /\ \A k \in 1 .. 4 : a[k] = Piece(k)
    OBVIOUS
  <2> HIDE DEF a, b, S
  <2>6. a \in Seq(S) /\ b \in Seq(S) /\ Len(a) = 4 /\ Len(b) = 1
    <3>1. PICK n \in Nat, m \in Nat : n = 4 /\ m = 1
      OBVIOUS
    <3>2. a \in [1 .. n -> S] /\ b \in [1 .. m -> S]
      BY <2>4, <3>1
    <3>3. a \in Seq(S) /\ b \in Seq(S) /\ Len(a) = n /\ Len(b) = m
      BY <3>2, FunctionIsSeq
    <3> QED
      BY <3>1, <3>3, Zenon
  <2>7. /\ a \o b \in Seq(S) /\ Len(a \o b) = Len(a) + Len(b)
        /\ \A i \in 1 .. Len(a) + Len(b) : (a \o b)[i] = IF i <= Len(a) THEN a[i] ELSE b[i - Len(a)]
    BY <2>6, ConcatProperties
  <2>8. PICK t : t = a \o b
    OBVIOUS
  <2>9. t \in Seq(S) /\ Len(t) = 4 + 1 /\ \A i \in 1 .. 4 + 1 : t[i] = IF i <= 4 THEN a[i] ELSE b[i - 4]
    BY <2>6, <2>7, <2>8, Zenon
  <2>10. \A i \in 1 .. 4 : t[i] = Piece(i)
    BY <2>5, <2>9
  <2>11. t[5] = Piece(5)
    BY <2>5, <2>9
  <2>12. Copies = t /\ CopyCount = 5
    BY <1>3, <2>1, <2>2, <2>3, <2>8 DEF CopyCount
  <2>13. \A i \in 1 .. 5 : i \in 1 .. 4 \/ i = 5
    OBVIOUS
  <2>14. Len(t) = 5
    BY <2>9
  <2> QED
    BY <2>9, <2>10, <2>11, <2>12, <2>13, <2>14, Zenon DEF S
<1> QED
  BY <1>2, <1>3

\* From each operation of a read on, the next one and what follows it.
LEMMA ReadParts ==
  ASSUME NEW page
  PROVE  /\ Copies # <<>>
         /\ FromWait # <<>> /\ Head(FromWait) = WaitOp /\ Tail(FromWait) = Copies
         /\ FromRead # <<>> /\ Head(FromRead) = ReadOp /\ Tail(FromRead) = FromWait
         /\ FromPage(page) # <<>> /\ Head(FromPage(page)) = PageOp(page) /\ Tail(FromPage(page)) = FromRead
         /\ FromBuffer(page) # <<>> /\ Head(FromBuffer(page)) = BufferOp(page)
         /\ Tail(FromBuffer(page)) = FromPage(page)
         /\ FromDie(page) # <<>> /\ Head(FromDie(page)) = DieOp(page) /\ Tail(FromDie(page)) = FromBuffer(page)
         /\ FromClear(page) # <<>> /\ Head(FromClear(page)) = ClearOp /\ Tail(FromClear(page)) = FromDie(page)
         /\ FromClear(page) \in Seq(OneOps(page))
<1> DEFINE S == OneOps(page)
<1>1. WaitOp \in S /\ ReadOp \in S /\ PageOp(page) \in S /\ BufferOp(page) \in S /\ DieOp(page) \in S /\ ClearOp \in S
  BY DEF OneOps
<1> HIDE DEF S
<1>2. Copies \in Seq(S) /\ Len(Copies) = CopyCount
  BY CopiesAre DEF S
<1>3. Copies # <<>>
  <2>1. PICK c \in Nat : c = CopyCount /\ c > 0
    BY DEF CopyCount
  <2> QED
    BY <1>2, <2>1, EmptySeq
<1>4. FromWait \in Seq(S) /\ FromWait # <<>> /\ Head(FromWait) = WaitOp /\ Tail(FromWait) = Copies
  BY <1>1, <1>2, FirstOf, Zenon DEF FromWait
<1>5. FromRead \in Seq(S) /\ FromRead # <<>> /\ Head(FromRead) = ReadOp /\ Tail(FromRead) = FromWait
  BY <1>1, <1>4, FirstOf, Zenon DEF FromRead
<1>6. /\ FromPage(page) \in Seq(S) /\ FromPage(page) # <<>>
      /\ Head(FromPage(page)) = PageOp(page) /\ Tail(FromPage(page)) = FromRead
  BY <1>1, <1>5, FirstOf, Zenon DEF FromPage
<1>7. /\ FromBuffer(page) \in Seq(S) /\ FromBuffer(page) # <<>>
      /\ Head(FromBuffer(page)) = BufferOp(page) /\ Tail(FromBuffer(page)) = FromPage(page)
  BY <1>1, <1>6, FirstOf, Zenon DEF FromBuffer
<1>8. /\ FromDie(page) \in Seq(S) /\ FromDie(page) # <<>>
      /\ Head(FromDie(page)) = DieOp(page) /\ Tail(FromDie(page)) = FromBuffer(page)
  BY <1>1, <1>7, FirstOf, Zenon DEF FromDie
<1>9. /\ FromClear(page) \in Seq(S) /\ FromClear(page) # <<>>
      /\ Head(FromClear(page)) = ClearOp /\ Tail(FromClear(page)) = FromDie(page)
  BY <1>1, <1>8, FirstOf, Zenon DEF FromClear
<1> QED
  BY <1>3, <1>4, <1>5, <1>6, <1>7, <1>8, <1>9, Zenon DEF S

\* The entry of a chip that has been identified.
Identified == entry.device_id = board.chip.device_id /\ entry.page_size = 2048

\* A read of a chip that has been identified is that list.
LEMMA ReadIs ==
  ASSUME OneChip, Identified, NEW page \in Nat
  PROVE  OneNand!ReadOps(page) = FromClear(page)
<1> DEFINE S == OneOps(page)
           size == OneNand!Density(entry.device_id)
           mask == IF entry.device_id.ddp THEN size * 4 ELSE size * 8
           access == entry.device_id.ddp /\ page \div 64 >= size * 4
           die == IF access THEN 1 ELSE 0
<1>1. entry.device_id = board.chip.device_id /\ entry.page_size = 2048
  BY DEF Identified
<1>2. size = MB_
  BY <1>1, ChipNamed
<1> HIDE DEF size
<1>3. die = DieOf(page) /\ (page \div 64) % mask = BlockOf(page)
  BY <1>1, <1>2 DEF DieOf, BlockOf, TwoDies
<1>4. PICK a, b, c, d, e, f, s :
        /\ a = <<ClearOp>> /\ b = <<DieOp(page)>> /\ c = <<BufferOp(page)>> /\ d = <<PageOp(page)>>
        /\ e = <<ReadOp>> /\ f = <<WaitOp>> /\ s = Copies
  OBVIOUS
<1>5. /\ a \in Seq(S) /\ b \in Seq(S) /\ c \in Seq(S) /\ d \in Seq(S) /\ e \in Seq(S) /\ f \in Seq(S)
      /\ s \in Seq(S)
  <2>1. /\ WaitOp \in S /\ ReadOp \in S /\ PageOp(page) \in S /\ BufferOp(page) \in S /\ DieOp(page) \in S
        /\ ClearOp \in S
    BY DEF OneOps
  <2> HIDE DEF S
  <2>2. Copies \in Seq(S)
    BY CopiesAre DEF S
  <2> QED
    BY <1>4, <2>1, <2>2
<1>6. OneNand!ReadOps(page) = a \o b \o c \o d \o e \o f \o s
  <2>1. a = OneNand!ClearInterrupt
    BY <1>4 DEF OneNand!ClearInterrupt, OneNand!Write, ClearOp
  <2>2. b = OneNand!Write("START_ADDRESS1", [die |-> die, block |-> (page \div 64) % mask])
    BY <1>3, <1>4, Zenon DEF OneNand!Write, DieOp
  <2>3. c = OneNand!Write("START_ADDRESS2", die)
    BY <1>3, <1>4, Zenon DEF OneNand!Write, BufferOp
  <2>4. d = OneNand!Write("START_ADDRESS8", page % 64)
    BY <1>4, Zenon DEF OneNand!Write, PageOp
  <2>5. e = OneNand!Write("COMMAND", "READ")
    BY <1>4, Zenon DEF OneNand!Write, ReadOp
  <2>6. f = OneNand!Wait({OneNand!INT, OneNand!RI})
    BY <1>4, Zenon DEF OneNand!Wait, WaitOp
  <2>7. s = OneNand!OneNAND_Ctrl_Get_Data(entry.page_size)
    BY <1>1, <1>4 DEF Copies
  <2>8. OneNand!ReadOps(page) =
          OneNand!ClearInterrupt
          \o OneNand!Write("START_ADDRESS1", [die |-> die, block |-> (page \div 64) % mask])
          \o OneNand!Write("START_ADDRESS2", die) \o OneNand!Write("START_ADDRESS8", page % 64)
          \o OneNand!Write("COMMAND", "READ") \o OneNand!Wait({OneNand!INT, OneNand!RI})
          \o OneNand!OneNAND_Ctrl_Get_Data(entry.page_size)
    BY DEF OneNand!ReadOps, OneNand!FirstDie, size
  <2> HIDE DEF die, mask
  <2> QED
    BY <2>1, <2>2, <2>3, <2>4, <2>5, <2>6, <2>7, <2>8, Zenon
<1>7. FromClear(page) = a \o (b \o (c \o (d \o (e \o (f \o s)))))
  BY <1>4, Zenon DEF FromClear, FromDie, FromBuffer, FromPage, FromRead, FromWait
<1> HIDE DEF S
<1>8. SevenInARow(S, a, b, c, d, e, f, s)
  BY <1>5, Zenon DEF SevenInARow
<1>9. SevenMove(a, b, c, d, e, f, s)
  BY <1>8, Regrouped, Zenon
<1> QED
  BY <1>6, <1>7, <1>9, Zenon DEF SevenMove

-----------------------------------------------------------------------------
(* A OneNAND read and the chip.                                            *)

OneRegs == {"START_ADDRESS1", "START_ADDRESS2", "START_ADDRESS8", "INTERRUPT"}

EntryFields == {"type", "manufacturer", "device_id", "bit_width", "page_size", "size", "block_size"}

\* The chip, what is known of it, and what the registers and buffers are.
OneTypes ==
  /\ OneChip
  /\ entry = [x \in EntryFields |-> entry[x]] /\ entry.page_size = 2048
  /\ entry.type = "ONENAND" => entry.device_id = board.chip.device_id
  /\ regs = [x \in OneRegs |-> regs[x]]
  /\ ram = [d \in OneNand!Dies |-> ram[d]]
  /\ call.kind = "read" => call.page \in Nat /\ call.page < MB_ * 512
  /\ result # "none" => ops = <<>>

Reading(page) == [op |-> "READ", die |-> DieOf(page), row |-> OneRow(page)]

\* The segment the i-th copy of a read gives.
Segment(page, i) ==
  LET op == Piece(i)
  IN  [to |-> op[2], at |-> op[3], n |-> op[4], die |-> DieOf(page), row |-> OneRow(page),
       col |-> IF op[2] = "page" THEN 2 * (op[5] - OneNand!O1N_DATARAM)
               ELSE 2048 + 2 * (op[5] - OneNand!O1N_SPARERAM)]
AllSegments(page) == [i \in 1 .. 5 |-> Segment(page, i)]
Segments(page, n) == [i \in 1 .. n |-> AllSegments(page)[i]]

\* Before the command: the chip stands, the interrupt of the last read is gone, and the
\* address is there as far as it has been written.
Clear == running = OneNand!Idle /\ regs.INTERRUPT = {} /\ got = <<>>
DieSet(page) == regs.START_ADDRESS1 = [die |-> DieOf(page), block |-> BlockOf(page)]
BufferSet(page) == regs.START_ADDRESS2 = DieOf(page)
PageSet(page) == regs.START_ADDRESS8 = page % 64

\* The page is in the buffer of its die.
InBuffer(page) == running = OneNand!Idle /\ ram[DieOf(page)] = OneRow(page)

AtClear(page)  == ops = FromClear(page) /\ running = OneNand!Idle /\ got = <<>>
AtDie(page)    == ops = FromDie(page) /\ Clear
AtBuffer(page) == ops = FromBuffer(page) /\ Clear /\ DieSet(page)
AtPage(page)   == ops = FromPage(page) /\ Clear /\ DieSet(page) /\ BufferSet(page)
AtRead(page)   == ops = FromRead /\ Clear /\ DieSet(page) /\ BufferSet(page) /\ PageSet(page)
\* The interrupt is there only once the page is.
AtWait(page)   ==
  /\ ops = FromWait /\ BufferSet(page) /\ got = <<>>
  /\ (running = Reading(page) /\ regs.INTERRUPT = {}) \/ InBuffer(page)
AtCopy(page)   ==
  /\ BufferSet(page) /\ InBuffer(page)
  /\ \E j \in 0 .. CopyCount : ops = Rest(Copies, j) /\ got = Segments(page, j)

OneAt(page) ==
  \/ AtClear(page) \/ AtDie(page) \/ AtBuffer(page) \/ AtPage(page) \/ AtRead(page)
  \/ AtWait(page) \/ AtCopy(page)

\* A read that found the chip standing.
Undisturbed ==
  \A page : call.kind = "read" /\ ~late /\ call.page = page =>
    /\ result = "none" => OneAt(page)
    /\ result = "OK" => got = Segments(page, CopyCount)

OneInv == OneTypes /\ Undisturbed

USE DEF OneNand!Doing, OneNand!Arg

IsOn(F, f) == f = [x \in F |-> f[x]]

\* A function with another value at one place is a function on the same set.
LEMMA ExceptIsOn ==
  ASSUME NEW F, NEW f, IsOn(F, f), NEW k, NEW v, NEW g, g = [f EXCEPT ![k] = v]
  PROVE  IsOn(F, g)
BY DEF IsOn

\* The facts about the chip and the registers are kept by every step.
LEMMA OneTypesKept ==
  ASSUME OneTypes, OneNand!Next
  PROVE  OneTypes'
<1>1. board' = board
  BY DEF OneNand!Next, OneNand!OneNAND_Read_Upper, OneNand!Return, OneNand!OneNAND_Ctrl_Reg_Write,
         OneNand!Command, OneNand!Finish, OneNand!OneNAND_Ctrl_Wait_Ready, OneNand!GiveUp,
         OneNand!Identify, OneNand!CopyData, OneNand!Continue
<1>2. /\ OneChip' /\ OneNand!Dies' = OneNand!Dies /\ MB_' = MB_
  BY <1>1 DEF OneTypes, OneChip, OneNand!Dies, OneNand!chip, MB_
<1>3. /\ entry' = [x \in EntryFields |-> entry'[x]] /\ entry'.page_size = 2048
      /\ entry'.type = "ONENAND" => entry'.device_id = board.chip.device_id
  <2>1. CASE OneNand!Identify
    <3>1. PICK u, v, y, z :
            entry' = [entry EXCEPT !.type = "ONENAND", !.manufacturer = u, !.device_id = v, !.bit_width = 16,
                          !.size = z, !.block_size = y]
            /\ v = board.chip.device_id
      BY <2>1 DEF OneNand!Identify, OneNand!chip
    <3>2. "type" \in EntryFields /\ "device_id" \in EntryFields /\ "page_size" \in EntryFields
      BY DEF EntryFields
    <3>3. DOMAIN entry = EntryFields /\ entry.page_size = 2048
      BY DEF OneTypes
    <3>4. entry' = [x \in EntryFields |-> entry'[x]]
      <4>1. PICK a : a = [entry EXCEPT !.type = "ONENAND"]
        OBVIOUS
      <4>2. PICK b : b = [a EXCEPT !.manufacturer = u]
        OBVIOUS
      <4>3. PICK c : c = [b EXCEPT !.device_id = v]
        OBVIOUS
      <4>4. PICK d : d = [c EXCEPT !.bit_width = 16]
        OBVIOUS
      <4>5. PICK e : e = [d EXCEPT !.size = z]
        OBVIOUS
      <4>6. entry' = [e EXCEPT !.block_size = y]
        BY <3>1, <4>1, <4>2, <4>3, <4>4, <4>5
      <4>7. IsOn(EntryFields, entry)
        BY DEF OneTypes, IsOn
      <4>8. IsOn(EntryFields, a)
        BY <4>1, <4>7, ExceptIsOn
      <4>9. IsOn(EntryFields, b)
        BY <4>2, <4>8, ExceptIsOn
      <4>10. IsOn(EntryFields, c)
        BY <4>3, <4>9, ExceptIsOn
      <4>11. IsOn(EntryFields, d)
        BY <4>4, <4>10, ExceptIsOn
      <4>12. IsOn(EntryFields, e)
        BY <4>5, <4>11, ExceptIsOn
      <4> QED
        BY <4>6, <4>12, ExceptIsOn DEF IsOn
    <3>5. entry'.page_size = 2048
      BY <3>1, <3>2, <3>3
    <3>6. entry'.device_id = v
      BY <3>1, <3>2, <3>3
    <3> QED
      BY <3>1, <3>4, <3>5, <3>6
  <2>2. CASE entry' = entry
    BY <2>2 DEF OneTypes
  <2> QED
    BY <2>1, <2>2
      DEF OneNand!Next, OneNand!OneNAND_Read_Upper, OneNand!Return, OneNand!OneNAND_Ctrl_Reg_Write,
         OneNand!Command, OneNand!Finish, OneNand!OneNAND_Ctrl_Wait_Ready, OneNand!GiveUp, OneNand!CopyData
<1>4. regs' = [x \in OneRegs |-> regs'[x]]
  <2>1. CASE OneNand!OneNAND_Ctrl_Reg_Write
    <3>1. PICK k, v : regs' = [regs EXCEPT ![k] = v]
      BY <2>1 DEF OneNand!OneNAND_Ctrl_Reg_Write
    <3>2. IsOn(OneRegs, regs)
      BY DEF OneTypes, IsOn
    <3> QED
      BY <3>1, <3>2, ExceptIsOn DEF IsOn
  <2>2. CASE OneNand!Finish
    <3>1. PICK v : regs' = [regs EXCEPT !["INTERRUPT"] = v]
      BY <2>2 DEF OneNand!Finish
    <3>2. IsOn(OneRegs, regs)
      BY DEF OneTypes, IsOn
    <3> QED
      BY <3>1, <3>2, ExceptIsOn DEF IsOn
  <2>3. CASE regs' = regs
    BY <2>3 DEF OneTypes
  <2> QED
    BY <2>1, <2>2, <2>3
      DEF OneNand!Next, OneNand!OneNAND_Read_Upper, OneNand!Return,
         OneNand!Command, OneNand!OneNAND_Ctrl_Wait_Ready, OneNand!GiveUp, OneNand!Identify, OneNand!CopyData
<1>5. ram' = [d \in OneNand!Dies |-> ram'[d]]
  <2>1. CASE OneNand!Finish
    BY <2>1 DEF OneTypes, OneNand!Finish
  <2>2. CASE ram' = ram
    BY <2>2 DEF OneTypes
  <2> QED
    BY <2>1, <2>2
      DEF OneNand!Next, OneNand!OneNAND_Read_Upper, OneNand!Return, OneNand!OneNAND_Ctrl_Reg_Write,
         OneNand!Command, OneNand!OneNAND_Ctrl_Wait_Ready, OneNand!GiveUp, OneNand!Identify, OneNand!CopyData
<1>6. call'.kind = "read" => call'.page \in Nat /\ call'.page < MB_ * 512
  <2>1. ASSUME NEW page \in OneNandAsked, OneNand!OneNAND_Read_Upper(page)
        PROVE  call'.page \in Nat /\ call'.page < MB_ * 512
    BY <2>1, OneNandAssumption DEF OneNand!OneNAND_Read_Upper, OneNand!ChipsAreNamed, OneNand!chip, MB_
  <2>2. CASE call' = call
    BY <2>2 DEF OneTypes
  <2> QED
    BY <2>1, <2>2
      DEF OneNand!Next, OneNand!Return, OneNand!OneNAND_Ctrl_Reg_Write, OneNand!Continue,
         OneNand!Command, OneNand!Finish, OneNand!OneNAND_Ctrl_Wait_Ready, OneNand!GiveUp, OneNand!Identify,
         OneNand!CopyData
<1>7. result' # "none" => ops' = <<>>
  BY DEF OneTypes, OneNand!Next, OneNand!OneNAND_Read_Upper, OneNand!Return, OneNand!OneNAND_Ctrl_Reg_Write,
         OneNand!Command, OneNand!Finish, OneNand!OneNAND_Ctrl_Wait_Ready, OneNand!GiveUp,
         OneNand!Identify, OneNand!CopyData, OneNand!Continue
<1> QED
  BY <1>1, <1>2, <1>3, <1>4, <1>5, <1>6, <1>7 DEF OneTypes

\* The first elements of a function, and one more.
LEMMA OneMoreElement ==
  ASSUME NEW S, NEW f, NEW n \in Nat, \A i \in 1 .. n + 1 : f[i] \in S
  PROVE  Append([i \in 1 .. n |-> f[i]], f[n + 1]) = [i \in 1 .. n + 1 |-> f[i]]
<1> DEFINE s == [i \in 1 .. n |-> f[i]]
           t == [i \in 1 .. n + 1 |-> f[i]]
<1>1. PICK m \in Nat : m = n + 1
  OBVIOUS
<1>2. s \in [1 .. n -> S] /\ t \in [1 .. m -> S] /\ f[n + 1] \in S
  BY <1>1
<1>3. /\ \A i \in 1 .. n : s[i] = f[i] /\ t[i] = f[i]
      /\ t[n + 1] = f[n + 1]
  OBVIOUS
<1> HIDE DEF s, t
<1>4. s \in Seq(S) /\ Len(s) = n /\ t \in Seq(S) /\ Len(t) = m
  BY <1>2, FunctionIsSeq
<1>5. PICK a, e : a = Append(s, e) /\ e = f[n + 1]
  OBVIOUS
<1>6. /\ a \in Seq(S) /\ Len(a) = Len(s) + 1 /\ a[Len(s) + 1] = e
      /\ \A i \in 1 .. Len(s) : a[i] = s[i]
  BY <1>2, <1>4, <1>5, AppendProperties
<1>7. /\ Len(a) = n + 1 /\ a[n + 1] = e /\ \A i \in 1 .. n : a[i] = s[i]
  BY <1>4, <1>6, Zenon
<1>8. \A i \in 1 .. m : a[i] = t[i]
  BY <1>1, <1>3, <1>5, <1>7
<1>9. a = t
  BY <1>1, <1>4, <1>6, <1>7, <1>8, SeqEqual, Zenon
<1> QED
  BY <1>5, <1>9, Zenon DEF s, t

\* While the board stays, so do places and lists.
LEMMA ListsStay ==
  ASSUME board' = board, NEW page
  PROVE  /\ DieOf(page)' = DieOf(page) /\ OneRow(page)' = OneRow(page) /\ BlockOf(page)' = BlockOf(page)
         /\ Copies' = Copies /\ CopyCount' = CopyCount
         /\ FromClear(page)' = FromClear(page) /\ FromDie(page)' = FromDie(page)
         /\ FromBuffer(page)' = FromBuffer(page) /\ FromPage(page)' = FromPage(page)
         /\ FromRead' = FromRead /\ FromWait' = FromWait
         /\ AllSegments(page)' = AllSegments(page)
<1>1. TwoDies' = TwoDies /\ MB_' = MB_ /\ Sflash' = Sflash
  BY DEF TwoDies, MB_, Sflash
<1>2. DieOf(page)' = DieOf(page) /\ BlockOf(page)' = BlockOf(page)
  BY <1>1 DEF DieOf, BlockOf
<1>3. OneRow(page)' = OneRow(page)
  BY <1>2 DEF OneRow
<1>4. Copies' = Copies /\ CopyCount' = CopyCount
  BY <1>1 DEF Copies, OneNand!OneNAND_Ctrl_Get_Data, CopyCount
<1>5. DieOp(page)' = DieOp(page) /\ BufferOp(page)' = BufferOp(page)
  BY <1>2 DEF DieOp, BufferOp
<1>6. FromWait' = FromWait
  BY <1>4 DEF FromWait
<1>7. FromRead' = FromRead
  BY <1>6 DEF FromRead
<1>8. FromPage(page)' = FromPage(page)
  BY <1>7 DEF FromPage
<1>9. FromBuffer(page)' = FromBuffer(page)
  BY <1>5, <1>8 DEF FromBuffer
<1>10. FromDie(page)' = FromDie(page)
  BY <1>5, <1>9 DEF FromDie
<1>11. FromClear(page)' = FromClear(page)
  BY <1>10 DEF FromClear
<1>12. \A i \in 1 .. 5 : Piece(i)' = Piece(i)
  BY <1>1 DEF Piece
<1>13. AllSegments(page)' = AllSegments(page)
  BY <1>2, <1>3, <1>12 DEF AllSegments, Segment
<1> QED
  BY <1>2, <1>3, <1>4, <1>6, <1>7, <1>8, <1>9, <1>10, <1>11, <1>13

\* A read that starts while the chip stands starts at its first operation.
LEMMA ReadStarts ==
  ASSUME OneTypes, NEW page \in OneNandAsked, OneNand!OneNAND_Read_Upper(page), ~late'
  PROVE  AtClear(page)'
<1>1. /\ board' = board /\ entry' = entry /\ running' = running /\ got' = <<>>
      /\ ops' = OneNand!ReadOps(page) /\ running = OneNand!Idle /\ entry.type = "ONENAND"
  BY DEF OneNand!OneNAND_Read_Upper
<1>2. page \in Nat
  BY OneNandAssumption DEF OneNand!ChipsAreNamed
<1>3. Identified
  BY <1>1 DEF OneTypes, Identified
<1>4. OneNand!ReadOps(page) = FromClear(page)
  BY <1>2, <1>3, ReadIs DEF OneTypes
<1>5. FromClear(page)' = FromClear(page)
  BY <1>1, ListsStay
<1> QED
  BY <1>1, <1>4, <1>5 DEF AtClear, OneNand!Idle

\* What the steps before the copies do.
OneDriver ==
  \/ OneNand!OneNAND_Ctrl_Reg_Write \/ OneNand!Command \/ OneNand!OneNAND_Ctrl_Wait_Ready
  \/ OneNand!GiveUp \/ OneNand!Identify \/ OneNand!CopyData

\* While a call runs, a step is the driver's, the chip's or the return.
LEMMA OneSteps ==
  ASSUME OneNand!Next, result = "none"
  PROVE  /\ OneDriver \/ OneNand!Finish \/ OneNand!Return
         /\ board' = board /\ call' = call
BY DEF OneNand!Next, OneDriver, OneNand!OneNAND_Read_Upper, OneNand!Return, OneNand!OneNAND_Ctrl_Reg_Write,
       OneNand!Command, OneNand!Finish, OneNand!OneNAND_Ctrl_Wait_Ready, OneNand!GiveUp,
       OneNand!Identify, OneNand!CopyData, OneNand!Continue

\* The next operation says which step the driver takes.
LEMMA OneByOne ==
  ASSUME OneDriver, ops # <<>>
  PROVE  /\ Head(ops)[1] = "write" /\ Head(ops)[2] # "COMMAND" => OneNand!OneNAND_Ctrl_Reg_Write
         /\ Head(ops)[1] = "write" /\ Head(ops)[2] = "COMMAND" => OneNand!Command
         /\ Head(ops)[1] = "wait" => OneNand!OneNAND_Ctrl_Wait_Ready \/ OneNand!GiveUp
         /\ Head(ops)[1] = "copy" => OneNand!CopyData
BY DEF OneDriver, OneNand!OneNAND_Ctrl_Reg_Write, OneNand!Command, OneNand!OneNAND_Ctrl_Wait_Ready,
       OneNand!GiveUp, OneNand!Identify, OneNand!CopyData

\* The registers before the command are written one after the other.
LEMMA WritesKept ==
  ASSUME OneTypes, OneNand!Next, result = "none", NEW page,
         AtClear(page) \/ AtDie(page) \/ AtBuffer(page) \/ AtPage(page)
  PROVE  /\ result' = "none"
         /\ AtDie(page)' \/ AtBuffer(page)' \/ AtPage(page)' \/ AtRead(page)'
<1>1. running = OneNand!Idle /\ got = <<>>
  BY DEF AtClear, AtDie, AtBuffer, AtPage, Clear
<1>2. ops # <<>> /\ Head(ops)[1] = "write" /\ Head(ops)[2] # "COMMAND"
  <2>1. ops # <<>> /\ Head(ops) \in {ClearOp, DieOp(page), BufferOp(page), PageOp(page)}
    BY ReadParts DEF AtClear, AtDie, AtBuffer, AtPage
  <2> QED
    BY <2>1 DEF ClearOp, DieOp, BufferOp, PageOp
<1>3. OneNand!OneNAND_Ctrl_Reg_Write
  <2>1. ~OneNand!Finish /\ ~OneNand!Return
    BY <1>1, <1>2 DEF OneNand!Finish, OneNand!Return
  <2> QED
    BY <1>2, <2>1, OneSteps, OneByOne
<1>4. /\ ops' = Tail(ops) /\ result' = result /\ board' = board
      /\ regs' = [regs EXCEPT ![Head(ops)[2]] = Head(ops)[3]]
      /\ running' = running /\ got' = got
  BY <1>3 DEF OneNand!OneNAND_Ctrl_Reg_Write, OneNand!Continue
<1>5. /\ FromDie(page)' = FromDie(page) /\ FromBuffer(page)' = FromBuffer(page)
      /\ FromPage(page)' = FromPage(page) /\ FromRead' = FromRead
      /\ DieOf(page)' = DieOf(page) /\ BlockOf(page)' = BlockOf(page)
  BY <1>4, ListsStay
<1>6. DOMAIN regs = OneRegs
  BY DEF OneTypes
<1> USE DEF OneRegs, OneNand!Idle
<1>7. CASE AtClear(page)
  <2>1. Head(ops) = ClearOp /\ Tail(ops) = FromDie(page)
    BY <1>7, ReadParts DEF AtClear
  <2>2. regs'.INTERRUPT = {}
    BY <1>4, <1>6, <2>1 DEF ClearOp
  <2> QED
    BY <1>1, <1>4, <1>5, <2>1, <2>2 DEF AtDie, Clear
<1>8. CASE AtDie(page)
  <2>1. Head(ops) = DieOp(page) /\ Tail(ops) = FromBuffer(page)
    BY <1>8, ReadParts DEF AtDie
  <2>2. /\ regs'.START_ADDRESS1 = [die |-> DieOf(page), block |-> BlockOf(page)]
        /\ regs'.INTERRUPT = regs.INTERRUPT
    BY <1>4, <1>6, <2>1 DEF DieOp
  <2> QED
    BY <1>1, <1>4, <1>5, <1>8, <2>1, <2>2 DEF AtDie, AtBuffer, Clear, DieSet
<1>9. CASE AtBuffer(page)
  <2>1. Head(ops) = BufferOp(page) /\ Tail(ops) = FromPage(page)
    BY <1>9, ReadParts DEF AtBuffer
  <2>2. /\ regs'.START_ADDRESS2 = DieOf(page)
        /\ regs'.INTERRUPT = regs.INTERRUPT /\ regs'.START_ADDRESS1 = regs.START_ADDRESS1
    BY <1>4, <1>6, <2>1 DEF BufferOp
  <2> QED
    BY <1>1, <1>4, <1>5, <1>9, <2>1, <2>2 DEF AtBuffer, AtPage, Clear, DieSet, BufferSet
<1>10. CASE AtPage(page)
  <2>1. Head(ops) = PageOp(page) /\ Tail(ops) = FromRead
    BY <1>10, ReadParts DEF AtPage
  <2>2. /\ regs'.START_ADDRESS8 = page % 64 /\ regs'.START_ADDRESS2 = regs.START_ADDRESS2
        /\ regs'.INTERRUPT = regs.INTERRUPT /\ regs'.START_ADDRESS1 = regs.START_ADDRESS1
    BY <1>4, <1>6, <2>1 DEF PageOp
  <2> QED
    BY <1>1, <1>4, <1>5, <1>10, <2>1, <2>2 DEF AtPage, AtRead, Clear, DieSet, BufferSet, PageSet
<1> QED
  BY <1>4, <1>7, <1>8, <1>9, <1>10

\* The command gives the chip the page.
LEMMA CommandKept ==
  ASSUME OneTypes, OneNand!Next, result = "none", NEW page \in Nat, page < MB_ * 512, AtRead(page)
  PROVE  result' = "none" /\ AtWait(page)'
<1>1. ops # <<>> /\ Head(ops) = ReadOp /\ Tail(ops) = FromWait
  BY ReadParts DEF AtRead
<1>2. running = OneNand!Idle /\ regs.INTERRUPT = {} /\ got = <<>>
  BY DEF AtRead, Clear
<1>3. OneNand!Command
  <2>1. ~OneNand!Finish /\ ~OneNand!Return
    BY <1>1, <1>2 DEF OneNand!Finish, OneNand!Return
  <2>2. Head(ops)[1] = "write" /\ Head(ops)[2] = "COMMAND"
    BY <1>1 DEF ReadOp
  <2> QED
    BY <1>1, <2>1, <2>2, OneSteps, OneByOne
<1>4. /\ ops' = Tail(ops) /\ result' = result /\ board' = board
      /\ regs' = regs /\ got' = got
  BY <1>3 DEF OneNand!Command, OneNand!Continue
<1>5. running' = Reading(page)
  <2>1. /\ regs.START_ADDRESS1.die = DieOf(page) /\ regs.START_ADDRESS1.block = BlockOf(page)
        /\ regs.START_ADDRESS8 = page % 64
    BY DEF AtRead, DieSet, PageSet
  <2>2. BlockOf(page) * 64 < OneNand!PerDie
    BY PagePlace DEF OneTypes
  <2>3. Head(ops)[3] = "READ"
    BY <1>1 DEF ReadOp
  <2>4. running' = [op |-> Head(ops)[2 + 1], die |-> DieOf(page),
                    row |-> BlockOf(page) * 64 + (page % 64)]
    BY <1>2, <1>3, <2>1, <2>2 DEF OneNand!Command
  <2> QED
    BY <2>3, <2>4 DEF Reading, OneRow
<1>6. /\ FromWait' = FromWait /\ Reading(page)' = Reading(page) /\ BufferSet(page)' = BufferSet(page)
  <2>1. FromWait' = FromWait /\ DieOf(page)' = DieOf(page) /\ OneRow(page)' = OneRow(page)
    BY <1>4, ListsStay
  <2> QED
    BY <1>4, <2>1 DEF Reading, BufferSet
<1>7. (regs.INTERRUPT)' = {} /\ BufferSet(page)
  BY <1>2, <1>4 DEF AtRead
<1> QED
  BY <1>1, <1>2, <1>4, <1>5, <1>6, <1>7 DEF AtWait

\* The end of the operation puts the page in its buffer; the driver waits for it.
LEMMA WaitKept ==
  ASSUME OneTypes, OneNand!Next, result = "none", NEW page \in Nat, page < MB_ * 512, AtWait(page)
  PROVE  \/ result' = "none" /\ (AtWait(page)' \/ AtCopy(page)')
         \/ result' \in {"R_ASSERT_ERROR", "PROBE_ERROR"}
<1>1. ops # <<>> /\ Head(ops) = WaitOp /\ Tail(ops) = Copies
  BY ReadParts DEF AtWait
<1>2. /\ board' = board /\ FromWait' = FromWait /\ Copies' = Copies /\ CopyCount' = CopyCount
      /\ DieOf(page)' = DieOf(page) /\ OneRow(page)' = OneRow(page)
  BY OneSteps, ListsStay
<1>3. ~OneNand!Return
  BY <1>1 DEF OneNand!Return
<1>4. CASE OneNand!Finish
  <2>1. /\ ops' = ops /\ result' = result /\ got' = got /\ running' = OneNand!Idle
    BY <1>4 DEF OneNand!Finish
  <2>2. running = Reading(page) /\ running # OneNand!Idle
    BY <1>4 DEF OneNand!Finish, AtWait, InBuffer
  <2>3. /\ ram' = [ram EXCEPT ![DieOf(page)] = OneRow(page)]
        /\ regs' = [regs EXCEPT !.INTERRUPT = @ \cup {OneNand!INT, OneNand!RI}]
    BY <1>4, <2>2 DEF OneNand!Finish, Reading
  <2>4. DieOf(page) \in OneNand!Dies
    BY PagePlace DEF OneTypes
  <2>5. ram'[DieOf(page)] = OneRow(page)
    BY <2>3, <2>4 DEF OneTypes
  <2>6. regs'.START_ADDRESS2 = regs.START_ADDRESS2
    BY <2>3 DEF OneTypes, OneRegs
  <2>7. InBuffer(page)'
    BY <1>2, <2>1, <2>5 DEF InBuffer, OneNand!Idle
  <2>8. BufferSet(page)'
    BY <1>2, <2>6 DEF AtWait, BufferSet
  <2> QED
    BY <1>2, <2>1, <2>7, <2>8 DEF AtWait
<1>5. CASE OneNand!GiveUp
  BY <1>5 DEF OneNand!GiveUp
<1>6. CASE OneNand!OneNAND_Ctrl_Wait_Ready
  <2>1. /\ ops' = Tail(ops) /\ result' = result /\ regs' = regs /\ running' = running /\ ram' = ram
        /\ got' = got
        /\ Head(ops)[2] \subseteq regs.INTERRUPT
    BY <1>6 DEF OneNand!OneNAND_Ctrl_Wait_Ready, OneNand!Continue, OneNand!OneNAND_Ctrl_Reg_Read
  <2>2. regs.INTERRUPT # {}
    <3>1. Head(ops)[2] = {OneNand!INT, OneNand!RI}
      BY <1>1 DEF WaitOp
    <3> QED
      BY <2>1, <3>1, Zenon
  <2>3. InBuffer(page) /\ BufferSet(page) /\ got = <<>>
    BY <2>2 DEF AtWait
  <2>4. InBuffer(page)' /\ BufferSet(page)'
    BY <1>2, <2>1, <2>3 DEF InBuffer, BufferSet, OneNand!Idle
  <2>5. Copies = Rest(Copies, 0)
    <3>1. Copies \in Seq(OneOps(page))
      BY CopiesAre
    <3>2. PICK n \in Nat : n = Len(Copies) /\ n - 0 = n
      BY <3>1, LenProperties
    <3>3. Copies = [i \in 1 .. n |-> Copies[i]]
      BY <3>1, <3>2, LenProperties
    <3>4. \A i \in 1 .. n : i + 0 = i
      BY <3>2
    <3> QED
      BY <3>2, <3>3, <3>4 DEF Rest
  <2>6. Segments(page, 0) = <<>>
    BY DEF Segments
  <2>7. \E j \in 0 .. CopyCount : ops' = Rest(Copies, j) /\ got' = Segments(page, j)
    BY <1>1, <2>1, <2>3, <2>5, <2>6 DEF CopyCount
  <2>8. \A j : Segments(page, j)' = Segments(page, j) /\ Rest(Copies, j)' = Rest(Copies, j)
    BY <1>2, ListsStay DEF Segments, Rest
  <2>9. (\E j \in 0 .. CopyCount : ops = Rest(Copies, j) /\ got = Segments(page, j))'
    BY <1>2, <2>7, <2>8
  <2> QED
    BY <2>1, <2>4, <2>9 DEF AtCopy
<1> QED
  <2>1. Head(ops)[1] = "wait"
    BY <1>1 DEF WaitOp
  <2> QED
    BY <1>1, <1>3, <1>4, <1>5, <1>6, <2>1, OneSteps, OneByOne

\* Each copy adds the next segment of the page.
LEMMA CopyKept ==
  ASSUME OneTypes, OneNand!Next, result = "none", NEW page \in Nat, AtCopy(page)
  PROVE  \/ result' = "none" /\ AtCopy(page)'
         \/ result' = "OK" /\ got' = Segments(page, CopyCount)
<1>1. PICK j \in 0 .. CopyCount : ops = Rest(Copies, j) /\ got = Segments(page, j)
  BY DEF AtCopy
<1>2. Copies \in Seq(OneOps(page)) /\ Len(Copies) = CopyCount /\ \A i \in 1 .. CopyCount : Copies[i] = Piece(i)
  BY CopiesAre
<1>3. PICK c \in Nat : c = CopyCount /\ c <= 5
  BY DEF CopyCount
<1>4. ~OneNand!Finish
  BY DEF OneNand!Finish, AtCopy, InBuffer
<1>5. CASE j = c
  <2>1. ops = <<>>
    <3>1. [i \in 1 .. 0 |-> Copies[i + c]] = <<>> /\ c - c = 0
      BY <1>3
    <3> QED
      BY <1>1, <1>2, <1>3, <1>5, <3>1 DEF Rest
  <2>2. ~OneDriver
    BY <2>1 DEF OneDriver, OneNand!OneNAND_Ctrl_Reg_Write, OneNand!Command, OneNand!OneNAND_Ctrl_Wait_Ready,
                OneNand!GiveUp, OneNand!Identify, OneNand!CopyData
  <2>3. OneNand!Return
    BY <1>4, <2>2, OneSteps
  <2> QED
    BY <1>1, <1>3, <1>5, <2>3 DEF OneNand!Return
<1>6. CASE j < c
  <2>1. j \in Nat /\ j + 1 \in 1 .. c /\ j + 1 \in 0 .. c
    BY <1>3, <1>6
  <2>2. ops # <<>> /\ Head(ops) = Piece(j + 1) /\ Tail(ops) = Rest(Copies, j + 1)
    <3>1. j < Len(Copies)
      BY <1>2, <1>3, <1>6
    <3>2. /\ Rest(Copies, j) # <<>> /\ Head(Rest(Copies, j)) = Copies[j + 1]
          /\ Tail(Rest(Copies, j)) = Rest(Copies, j + 1)
      BY <1>2, <2>1, <3>1, RestIs
    <3> QED
      BY <1>1, <1>2, <1>3, <2>1, <3>2, Zenon
  <2>3. PICK p : p = Piece(j + 1)
    OBVIOUS
  <2>4. p[1] = "copy" /\ p[2] \in {"page", "spare"}
    BY <2>3 DEF Piece
  <2>5. OneNand!CopyData
    <3>1. ~OneNand!Return
      BY <2>2 DEF OneNand!Return
    <3> QED
      BY <1>4, <2>2, <2>3, <2>4, <3>1, OneSteps, OneByOne
  <2>6. /\ ops' = Tail(ops) /\ result' = result /\ board' = board /\ regs' = regs /\ running' = running
        /\ ram' = ram
    BY <2>5 DEF OneNand!CopyData, OneNand!Continue
  <2>7. got' = Append(got, Segment(page, j + 1))
    <3>1. regs.START_ADDRESS2 = DieOf(page) /\ ram[DieOf(page)] = OneRow(page) /\ entry.page_size = 2048
      BY DEF AtCopy, BufferSet, InBuffer, OneTypes
    <3>2. Head(ops) = p
      BY <2>2, <2>3
    <3> HIDE DEF OneTypes
    <3> QED
      BY <2>3, <2>5, <3>1, <3>2 DEF OneNand!CopyData, Segment
  <2>8. got' = Segments(page, j + 1)
    <3> DEFINE f == AllSegments(page)
               S == {Segment(page, i) : i \in 1 .. 5}
    <3>1. f[j + 1] = Segment(page, j + 1) /\ \A i \in 1 .. j + 1 : f[i] \in S
      BY <1>3, <2>1 DEF AllSegments
    <3> HIDE DEF f, S
    <3>2. Append([i \in 1 .. j |-> f[i]], f[j + 1]) = [i \in 1 .. j + 1 |-> f[i]]
      BY <2>1, <3>1, OneMoreElement
    <3> QED
      BY <1>1, <2>7, <3>1, <3>2, Zenon DEF Segments, f
  <2>9. /\ Copies' = Copies /\ CopyCount' = CopyCount /\ DieOf(page)' = DieOf(page) /\ OneRow(page)' = OneRow(page)
        /\ AllSegments(page)' = AllSegments(page)
    BY <2>6, ListsStay
  <2>10. \A k : Segments(page, k)' = Segments(page, k) /\ Rest(Copies, k)' = Rest(Copies, k)
    BY <2>9 DEF Segments, Rest
  <2>11. (\E k \in 0 .. CopyCount : ops = Rest(Copies, k) /\ got = Segments(page, k))'
    BY <1>3, <2>1, <2>2, <2>6, <2>8, <2>9, <2>10
  <2>12. BufferSet(page)' /\ InBuffer(page)'
    BY <2>6, <2>9 DEF AtCopy, BufferSet, InBuffer, OneNand!Idle
  <2> QED
    BY <2>6, <2>11, <2>12 DEF AtCopy
<1> QED
  BY <1>3, <1>5, <1>6

\* A page that is read undisturbed stays so.
LEMMA UndisturbedKept ==
  ASSUME OneInv, OneNand!Next
  PROVE  Undisturbed'
<1>1. OneTypes /\ Undisturbed
  BY DEF OneInv
<1> SUFFICES ASSUME NEW page, call'.kind = "read", ~late', call'.page = page
             PROVE  /\ result' = "none" => OneAt(page)'
                    /\ result' = "OK" => got' = Segments(page, CopyCount)'
  BY DEF Undisturbed
<1>2. ASSUME NEW p \in OneNandAsked, OneNand!OneNAND_Read_Upper(p)
      PROVE  /\ result' = "none" => OneAt(page)'
             /\ result' = "OK" => got' = Segments(page, CopyCount)'
  <2>1. p = page /\ result' = "none"
    BY <1>2 DEF OneNand!OneNAND_Read_Upper
  <2>2. AtClear(page)'
    BY <1>1, <1>2, <2>1, ReadStarts
  <2> QED
    BY <2>1, <2>2 DEF OneAt
<1>3. ASSUME \A p \in OneNandAsked : ~OneNand!OneNAND_Read_Upper(p)
      PROVE  /\ result' = "none" => OneAt(page)'
             /\ result' = "OK" => got' = Segments(page, CopyCount)'
  <2>1. board' = board /\ call' = call /\ late' = late
    BY <1>3 DEF OneNand!Next, OneNand!Return, OneNand!OneNAND_Ctrl_Reg_Write, OneNand!Command, OneNand!Finish,
                OneNand!OneNAND_Ctrl_Wait_Ready, OneNand!GiveUp, OneNand!Identify, OneNand!CopyData, OneNand!Continue
  <2>2. call.kind = "read" /\ ~late /\ call.page = page /\ page \in Nat /\ page < MB_ * 512
    BY <1>1, <2>1 DEF OneTypes
  <2>3. CopyCount' = CopyCount /\ Segments(page, CopyCount)' = Segments(page, CopyCount)
    BY <2>1, ListsStay DEF Segments
  <2>4. CASE result = "none"
    <3>1. OneAt(page)
      BY <1>1, <2>2, <2>4 DEF Undisturbed
    <3>2. CASE AtClear(page) \/ AtDie(page) \/ AtBuffer(page) \/ AtPage(page)
      BY <1>1, <2>4, <3>2, WritesKept DEF OneAt
    <3>3. CASE AtRead(page)
      BY <1>1, <2>2, <2>4, <3>3, CommandKept DEF OneAt
    <3>4. CASE AtWait(page)
      BY <1>1, <2>2, <2>4, <3>4, WaitKept DEF OneAt
    <3>5. CASE AtCopy(page)
      BY <1>1, <2>2, <2>3, <2>4, <3>5, CopyKept DEF OneAt
    <3> QED
      BY <3>1, <3>2, <3>3, <3>4, <3>5 DEF OneAt
  <2>5. CASE result # "none"
    <3>1. result' = result /\ got' = got
      <4>1. ops = <<>>
        BY <1>1, <2>5 DEF OneTypes
      <4> QED
        BY <1>3, <2>5, <4>1
          DEF OneNand!Next, OneNand!Return, OneNand!OneNAND_Ctrl_Reg_Write, OneNand!Command, OneNand!Finish,
              OneNand!OneNAND_Ctrl_Wait_Ready, OneNand!GiveUp, OneNand!Identify, OneNand!CopyData, OneNand!Continue
    <3> QED
      BY <1>1, <2>2, <2>3, <2>5, <3>1 DEF Undisturbed
  <2> QED
    BY <2>4, <2>5
<1> QED
  BY <1>2, <1>3

\* Every step keeps what is known of a OneNAND.
LEMMA OneInvKept ==
  ASSUME OneInv, OneNand!Next
  PROVE  OneInv'
BY OneTypesKept, UndisturbedKept DEF OneInv

\* At the start nothing is known of the chip and nothing has been read.
LEMMA OneInvStarts ==
  ASSUME OneNand!Init
  PROVE  OneInv
<1>1. entry = OneNand!OneNAND_Pre_Initialize(OneNand!NoMem)
  BY DEF OneNand!Init
<1>2. entry = [x \in EntryFields |-> entry[x]] /\ entry.page_size = 2048 /\ entry.type = "NONE"
  BY <1>1 DEF OneNand!OneNAND_Pre_Initialize, OneNand!NoMem, EntryFields
<1>3. OneChip /\ ram = [d \in OneNand!Dies |-> ram[d]]
  <2>1. PICK z : ram = [d \in OneNand!Dies |-> z]
    BY DEF OneNand!Init
  <2> QED
    BY <2>1 DEF OneChip, OneNand!Init
<1>4. regs = [x \in OneRegs |-> regs[x]]
  BY DEF OneNand!Init, OneRegs
<1>5. call.kind = "probe" /\ result = "none"
  BY DEF OneNand!Init
<1> QED
  BY <1>2, <1>3, <1>4, <1>5 DEF OneInv, OneTypes, Undisturbed

\* A segment gives a place of a buffer the byte of a column.
Covers(s, to, at, column) ==
  s.to = to /\ s.at <= at /\ at < s.at + s.n /\ s.col + (at - s.at) = column

PageCovered(page) ==
  \A k \in 0 .. 127 : \E i \in 1 .. CopyCount : Covers(Segment(page, i), "page", 16 * k, 16 * k)
SpareCovered(page) ==
  \A k \in 0 .. 3 : \E i \in 1 .. CopyCount : Covers(Segment(page, i), "spare", 16 * k, 2048 + 16 * k)

\* The copies of a read cover the page and its spare, each byte at its column.
LEMMA CopiesCover ==
  ASSUME NEW page
  PROVE  PageCovered(page) /\ SpareCovered(page)
<1> USE DEF OneNand!O1N_DATARAM, OneNand!O1N_SPARERAM
<1>1. CASE Sflash
  <2>1. \A i \in 1 .. 4 : /\ Segment(page, i).to = "page" /\ Segment(page, i).at = 512 * (i - 1)
                          /\ Segment(page, i).n = 512 /\ Segment(page, i).col = 512 * (i - 1)
    BY <1>1 DEF Segment, Piece
  <2>2. /\ Segment(page, 5).to = "spare" /\ Segment(page, 5).at = 0
        /\ Segment(page, 5).n = 64 /\ Segment(page, 5).col = 2048
    BY <1>1 DEF Segment, Piece
  <2>3. CopyCount = 5
    BY <1>1 DEF CopyCount
  <2>4. ASSUME NEW k \in 0 .. 127
        PROVE  \E i \in 1 .. CopyCount : Covers(Segment(page, i), "page", 16 * k, 16 * k)
    <3>1. PICK i \in 1 .. 4 : 512 * (i - 1) <= 16 * k /\ 16 * k < 512 * (i - 1) + 512
      OBVIOUS
    <3>2. Covers(Segment(page, i), "page", 16 * k, 16 * k)
      BY <2>1, <3>1 DEF Covers
    <3> QED
      BY <2>3, <3>2
  <2>5. ASSUME NEW k \in 0 .. 3
        PROVE  \E i \in 1 .. CopyCount : Covers(Segment(page, i), "spare", 16 * k, 2048 + 16 * k)
    <3>1. Covers(Segment(page, 5), "spare", 16 * k, 2048 + 16 * k)
      BY <2>2 DEF Covers
    <3> QED
      BY <2>3, <3>1
  <2> QED
    BY <2>4, <2>5 DEF PageCovered, SpareCovered
<1>2. CASE ~Sflash
  <2>1. /\ Segment(page, 1).to = "page" /\ Segment(page, 1).at = 0
        /\ Segment(page, 1).n = 2048 /\ Segment(page, 1).col = 0
    BY <1>2 DEF Segment, Piece
  <2>2. /\ Segment(page, 2).to = "spare" /\ Segment(page, 2).at = 0
        /\ Segment(page, 2).n = 64 /\ Segment(page, 2).col = 2048
    BY <1>2 DEF Segment, Piece
  <2>3. CopyCount = 2
    BY <1>2 DEF CopyCount
  <2>4. ASSUME NEW k \in 0 .. 127
        PROVE  \E i \in 1 .. CopyCount : Covers(Segment(page, i), "page", 16 * k, 16 * k)
    <3>1. Covers(Segment(page, 1), "page", 16 * k, 16 * k)
      BY <2>1 DEF Covers
    <3> QED
      BY <2>3, <3>1
  <2>5. ASSUME NEW k \in 0 .. 3
        PROVE  \E i \in 1 .. CopyCount : Covers(Segment(page, i), "spare", 16 * k, 2048 + 16 * k)
    <3>1. Covers(Segment(page, 2), "spare", 16 * k, 2048 + 16 * k)
      BY <2>2 DEF Covers
    <3> QED
      BY <2>3, <3>1
  <2> QED
    BY <2>4, <2>5 DEF PageCovered, SpareCovered
<1> QED
  BY <1>1, <1>2

\* So an undisturbed read that succeeds returns its own page.
LEMMA OneInvMeans ==
  ASSUME OneInv
  PROVE  OneNand!OwnPage
<1>1. OneTypes /\ Undisturbed
  BY DEF OneInv
<1> SUFFICES ASSUME call.kind = "read", result = "OK", ~late
             PROVE  /\ \A k \in 0 .. 127 : OneNand!Right("page", 16 * k, 16 * k)
                    /\ \A k \in 0 .. 3 : OneNand!Right("spare", 16 * k, entry.page_size + 16 * k)
  BY DEF OneNand!OwnPage
<1>2. PICK page \in Nat : page = call.page /\ page < MB_ * 512
  BY <1>1 DEF OneTypes
<1>3. got = Segments(page, CopyCount)
  BY <1>1, <1>2 DEF Undisturbed
<1>4. CopyCount \in 1 .. 5 /\ \A i \in 1 .. CopyCount : i \in 1 .. 5
  BY DEF CopyCount
<1>5. DOMAIN got = 1 .. CopyCount /\ \A i \in 1 .. CopyCount : got[i] = Segment(page, i)
  BY <1>3, <1>4 DEF Segments, AllSegments
<1>6. \A i : /\ Segment(page, i).die * OneNand!PerDie + Segment(page, i).row = page
  BY <1>1, <1>2, PagePlace DEF OneTypes, Segment
<1>7. entry.page_size = 2048
  BY <1>1 DEF OneTypes
<1>8. ASSUME NEW to, NEW at, NEW column, NEW i \in 1 .. CopyCount, Covers(Segment(page, i), to, at, column)
      PROVE  OneNand!Right(to, at, column)
  BY <1>2, <1>5, <1>6, <1>8, Zenon DEF OneNand!Right, Covers
<1>9. PageCovered(page) /\ SpareCovered(page)
  BY CopiesCover, Zenon
<1>10. ASSUME NEW k \in 0 .. 127 PROVE OneNand!Right("page", 16 * k, 16 * k)
  <2>1. PICK i \in 1 .. CopyCount : Covers(Segment(page, i), "page", 16 * k, 16 * k)
    BY <1>9, Zenon DEF PageCovered
  <2> QED
    BY <1>8, <2>1, Zenon
<1>11. ASSUME NEW k \in 0 .. 3 PROVE OneNand!Right("spare", 16 * k, entry.page_size + 16 * k)
  <2>1. PICK i \in 1 .. CopyCount : Covers(Segment(page, i), "spare", 16 * k, 2048 + 16 * k)
    BY <1>9 DEF SpareCovered
  <2>2. PICK column : column = 2048 + 16 * k /\ column = entry.page_size + 16 * k
    BY <1>7
  <2>3. Covers(Segment(page, i), "spare", 16 * k, column)
    BY <2>1, <2>2
  <2>4. OneNand!Right("spare", 16 * k, column)
    BY <1>8, <2>3, Zenon
  <2> QED
    BY <2>2, <2>4
<1> QED
  BY <1>10, <1>11

\* OwnPage (FlashStack): a read of a OneNAND that succeeds returns the page it was asked for, from
\* its own die and with its own spare, whenever the chip ends its operations.
THEOREM OwnPageRead == StackSpec => []OwnPage
<1> DEFINE Kept == part = "onenand" => OneInv
<1>1. StackInit => Kept
  BY OneInvStarts DEF StackInit
<1>2. Kept /\ [StackNext]_<<part, command, driver, nandOnly, oneNandOnly>> => Kept'
  <2> SUFFICES ASSUME Kept, [StackNext]_<<part, command, driver, nandOnly, oneNandOnly>>
               PROVE  Kept'
    OBVIOUS
  <2>1. CASE part = "onenand" /\ OneNand!Next /\ UNCHANGED part
    BY <2>1, OneInvKept
  <2>2. CASE part # "onenand" /\ UNCHANGED part
    BY <2>2
  <2>3. CASE UNCHANGED <<part, driver, oneNandOnly>>
    <3>1. /\ part' = part /\ board' = board /\ entry' = entry /\ call' = call /\ ops' = ops /\ result' = result
          /\ got' = got /\ regs' = regs /\ running' = running /\ ram' = ram /\ late' = late
      BY <2>3 DEF driver, oneNandOnly
    <3>2. OneTypes' = OneTypes
      BY <3>1 DEF OneTypes, OneChip, MB_, OneNand!Dies, OneNand!chip
    <3>3. ASSUME NEW page
          PROVE  OneAt(page)' = OneAt(page) /\ Segments(page, CopyCount)' = Segments(page, CopyCount)
      <4>1. /\ DieOf(page)' = DieOf(page) /\ OneRow(page)' = OneRow(page) /\ BlockOf(page)' = BlockOf(page)
            /\ Copies' = Copies /\ CopyCount' = CopyCount /\ AllSegments(page)' = AllSegments(page)
            /\ FromClear(page)' = FromClear(page) /\ FromDie(page)' = FromDie(page)
            /\ FromBuffer(page)' = FromBuffer(page) /\ FromPage(page)' = FromPage(page)
            /\ FromRead' = FromRead /\ FromWait' = FromWait
        BY <3>1, ListsStay
      <4>2. \A k : Segments(page, k)' = Segments(page, k) /\ Rest(Copies, k)' = Rest(Copies, k)
        BY <4>1 DEF Segments, Rest
      <4>3. /\ BufferSet(page)' = BufferSet(page) /\ DieSet(page)' = DieSet(page) /\ PageSet(page)' = PageSet(page)
            /\ InBuffer(page)' = InBuffer(page) /\ Clear' = Clear /\ Reading(page)' = Reading(page)
        BY <3>1, <4>1 DEF BufferSet, DieSet, PageSet, InBuffer, Clear, Reading, OneNand!Idle
      <4>4. AtClear(page)' = AtClear(page) /\ AtDie(page)' = AtDie(page) /\ AtBuffer(page)' = AtBuffer(page)
        BY <3>1, <4>1, <4>3 DEF AtClear, AtDie, AtBuffer, OneNand!Idle
      <4>5. AtPage(page)' = AtPage(page) /\ AtRead(page)' = AtRead(page) /\ AtWait(page)' = AtWait(page)
        BY <3>1, <4>1, <4>3 DEF AtPage, AtRead, AtWait
      <4>6. AtCopy(page)' = AtCopy(page)
        BY <3>1, <4>1, <4>2, <4>3 DEF AtCopy
      <4> QED
        BY <4>1, <4>2, <4>4, <4>5, <4>6 DEF OneAt
    <3>4. Undisturbed' = Undisturbed
      BY <3>1, <3>3 DEF Undisturbed
    <3> QED
      BY <3>1, <3>2, <3>4 DEF OneInv
  <2> QED
    BY <2>1, <2>2, <2>3 DEF StackNext
<1>3. Kept => OwnPage
  BY OneInvMeans DEF OwnPage
<1> QED
  BY <1>1, <1>2, <1>3, PTL DEF StackSpec

-----------------------------------------------------------------------------
(* Lists of bus operations, put together from parts.                       *)

IsList(s) == \E S : s \in Seq(S)

Joins(s, t, u) ==
  /\ Len(s) \in Nat /\ Len(t) \in Nat /\ Len(u) = Len(s) + Len(t)
  /\ \A i \in 1 .. Len(s) : u[i] = s[i]
  /\ \A i \in 1 .. Len(t) : u[Len(s) + i] = t[i]

\* The elements of two lists put together are theirs, in their order.
LEMMA ListsJoin ==
  ASSUME NEW s, NEW t, IsList(s), IsList(t)
  PROVE  IsList(s \o t) /\ Joins(s, t, s \o t)
<1>1. PICK S, T : s \in Seq(S) /\ t \in Seq(T)
  BY DEF IsList
<1>2. PICK U : U = S \cup T
  OBVIOUS
<1>3. s \in Seq(U) /\ t \in Seq(U)
  <2>1. \A i \in 1 .. Len(s) : s[i] \in U
    BY <1>1, <1>2, ElementOfSeq
  <2>2. \A i \in 1 .. Len(t) : t[i] \in U
    BY <1>1, <1>2, ElementOfSeq
  <2>3. s = [i \in 1 .. Len(s) |-> s[i]] /\ Len(s) \in Nat /\ t = [i \in 1 .. Len(t) |-> t[i]] /\ Len(t) \in Nat
    BY <1>1, LenProperties
  <2>4. PICK m \in Nat, n \in Nat : m = Len(s) /\ n = Len(t)
    BY <2>3
  <2>5. s \in [1 .. m -> U] /\ t \in [1 .. n -> U]
    BY <2>1, <2>2, <2>3, <2>4
  <2> QED
    BY <2>5, FunctionIsSeq
<1>4. PICK u : u = s \o t
  OBVIOUS
<1>5. /\ u \in Seq(U) /\ Len(u) = Len(s) + Len(t)
      /\ \A i \in 1 .. Len(s) + Len(t) : u[i] = IF i <= Len(s) THEN s[i] ELSE t[i - Len(s)]
  BY <1>3, <1>4, ConcatProperties
<1>6. PICK m \in Nat, n \in Nat : m = Len(s) /\ n = Len(t)
  BY <1>3, LenProperties
<1>7. \A i \in 1 .. m + n : u[i] = IF i <= m THEN s[i] ELSE t[i - m]
  BY <1>5, <1>6, Zenon
<1>8. (\A i \in 1 .. m : u[i] = s[i]) /\ (\A i \in 1 .. n : u[m + i] = t[i])
  BY <1>7
<1>9. IsList(u)
  BY <1>5 DEF IsList
<1>10. Joins(s, t, u)
  BY <1>5, <1>6, <1>8, Zenon DEF Joins
<1> QED
  BY <1>4, <1>9, <1>10

\* An element of two lists put together is of the first or of the second.
LEMMA OfEither ==
  ASSUME NEW s, NEW t, NEW u, Joins(s, t, u), NEW i \in 1 .. Len(u)
  PROVE  i \in 1 .. Len(s) \/ \E j \in 1 .. Len(t) : i = Len(s) + j
<1>1. PICK m \in Nat, n \in Nat : m = Len(s) /\ n = Len(t) /\ Len(u) = m + n
  BY DEF Joins
<1>2. i \in 1 .. m + n
  BY <1>1
<1>3. CASE i <= m
  BY <1>1, <1>2, <1>3
<1>4. CASE i > m
  <2>1. i - m \in 1 .. n /\ i = m + (i - m)
    BY <1>2, <1>4
  <2> QED
    BY <1>1, <2>1
<1> QED
  BY <1>2, <1>3, <1>4

\* The list without its first element.
LEMMA TailIs ==
  ASSUME NEW s, IsList(s), s # <<>>
  PROVE  /\ IsList(Tail(s)) /\ Len(s) \in Nat \ {0} /\ Len(Tail(s)) = Len(s) - 1 /\ Head(s) = s[1]
         /\ \A i \in 1 .. Len(s) - 1 : Tail(s)[i] = s[i + 1]
<1>1. PICK S : s \in Seq(S)
  BY DEF IsList
<1>2. /\ Head(s) = s[1] /\ Tail(s) \in Seq(S) /\ Len(Tail(s)) = Len(s) - 1
      /\ \A i \in 1 .. Len(Tail(s)) : Tail(s)[i] = s[i + 1]
  BY <1>1, HeadTailProperties
<1>3. Len(s) \in Nat /\ Len(s) # 0
  BY <1>1, LenProperties, EmptySeq
<1> QED
  BY <1>2, <1>3 DEF IsList

\* A list of one element, and the empty one.
LEMMA OneElement ==
  ASSUME NEW op
  PROVE  /\ IsList(<<op>>) /\ Len(<<op>>) = 1 /\ <<op>>[1] = op
         /\ IsList(<<>>) /\ Len(<<>>) = 0
<1>1. <<op>> \in Seq({op}) /\ Len(<<op>>) = 1 /\ <<op>>[1] = op
  OBVIOUS
<1>2. <<>> \in Seq({op}) /\ Len(<<>>) = 0
  OBVIOUS
<1> QED
  BY <1>1, <1>2 DEF IsList

-----------------------------------------------------------------------------
(* What a NAND or SuperAND call takes for its length, it gives back.       *)

Super == board.port = "superand"
Keeper == Super \/ board.port = "pxa312" \/ (board.port = "bcm2133" /\ ~Nand!Axi)

\* The operations that take the lock or begin the read sequence, and those that end it.
Takes(op) == IF Super THEN op[1] = "send" /\ op[2] = "READ" ELSE op[1] = "hold" /\ op[2] = TRUE
Gives(op) == IF Super THEN op[1] = "send" /\ op[2] = "READ_EXIT" ELSE op[1] = "hold" /\ op[2] = FALSE

\* The operations of a call of a kind: the others change neither, and only a probe identifies.
Fine(k, op) ==
  /\ IF Super THEN op[1] # "hold" ELSE ~(op[1] = "send" /\ op[2] = "READ")
  /\ op[1] = "hold" => op[2] \in BOOLEAN
  /\ op[1] = "set" => op[2] \in {"addr1", "addr2", "page"}
  /\ op[1] = "identify" => op[2] \in {"all", "small", "superand"}
  /\ k = "read" => op[1] \notin {"identify", "extend", "small_only"}
Plain(k, op) == Fine(k, op) /\ ~Takes(op)

AllFine(k, s) == IsList(s) /\ \A i \in 1 .. Len(s) : Fine(k, s[i])
AllPlain(k, s) == IsList(s) /\ \A i \in 1 .. Len(s) : Plain(k, s[i])
HasGive(s) == \E j \in 1 .. Len(s) : Gives(s[j])
Followed(s) == \A i \in 1 .. Len(s) : Takes(s[i]) => \E j \in 1 .. Len(s) : i < j /\ Gives(s[j])

\* Whatever a list takes it gives back, and a list that takes nothing is all plain.
Quiet(k, s) == AllFine(k, s) /\ Followed(s) /\ (Keeper \/ AllPlain(k, s))

\* Two plain lists are one.
LEMMA PlainJoins ==
  ASSUME NEW k, NEW s, NEW t, AllPlain(k, s), AllPlain(k, t)
  PROVE  AllPlain(k, s \o t)
<1>1. PICK u : u = s \o t /\ IsList(u) /\ Joins(s, t, u)
  BY ListsJoin DEF AllPlain
<1>2. ASSUME NEW i \in 1 .. Len(u) PROVE Plain(k, u[i])
  <2>1. CASE i \in 1 .. Len(s)
    BY <1>1, <2>1 DEF Joins, AllPlain
  <2>2. CASE \E j \in 1 .. Len(t) : i = Len(s) + j
    BY <1>1, <2>2 DEF Joins, AllPlain
  <2> QED
    BY <1>1, <2>1, <2>2, OfEither
<1> QED
  BY <1>1, <1>2 DEF AllPlain

\* So are two lists of the operations there are.
LEMMA FineJoins ==
  ASSUME NEW k, NEW s, NEW t, AllFine(k, s), AllFine(k, t)
  PROVE  AllFine(k, s \o t)
<1>1. PICK u : u = s \o t /\ IsList(u) /\ Joins(s, t, u)
  BY ListsJoin DEF AllFine
<1>2. ASSUME NEW i \in 1 .. Len(u) PROVE Fine(k, u[i])
  <2>1. CASE i \in 1 .. Len(s)
    BY <1>1, <2>1 DEF Joins, AllFine
  <2>2. CASE \E j \in 1 .. Len(t) : i = Len(s) + j
    BY <1>1, <2>2 DEF Joins, AllFine
  <2> QED
    BY <1>1, <2>1, <2>2, OfEither
<1> QED
  BY <1>1, <1>2 DEF AllFine

\* A list that takes nothing owes nothing.
LEMMA PlainOwesNothing ==
  ASSUME NEW k, NEW s, AllPlain(k, s)
  PROVE  AllFine(k, s) /\ Followed(s) /\ Quiet(k, s)
BY DEF AllPlain, AllFine, Followed, Quiet, Plain

\* A place in two lists put together, from a place in either.
LEMMA PlacesJoin ==
  ASSUME NEW s, NEW t, NEW u, Joins(s, t, u)
  PROVE  /\ \A i \in 1 .. Len(s) : i \in 1 .. Len(u)
         /\ \A j \in 1 .. Len(t) : Len(s) + j \in 1 .. Len(u)
         /\ \A i \in 1 .. Len(s), j \in 1 .. Len(t) : i < Len(s) + j
         /\ \A i, j \in 1 .. Len(t) : i < j => Len(s) + i < Len(s) + j
<1>1. PICK m \in Nat, n \in Nat : m = Len(s) /\ n = Len(t) /\ Len(u) = m + n
  BY DEF Joins
<1>2. /\ \A i \in 1 .. m : i \in 1 .. m + n
      /\ \A j \in 1 .. n : m + j \in 1 .. m + n
      /\ \A i \in 1 .. m, j \in 1 .. n : i < m + j
      /\ \A i, j \in 1 .. n : i < j => m + i < m + j
  OBVIOUS
<1> QED
  BY <1>1, <1>2

\* What a second list gives is given for the first one as well.
LEMMA GivenBehind ==
  ASSUME NEW k, NEW s, NEW t, AllFine(k, s), AllFine(k, t), HasGive(t), Followed(t)
  PROVE  AllFine(k, s \o t) /\ HasGive(s \o t) /\ Followed(s \o t)
<1>1. PICK u : u = s \o t /\ IsList(u) /\ Joins(s, t, u)
  BY ListsJoin DEF AllFine
<1>2. PICK g \in 1 .. Len(t) : Gives(t[g])
  BY DEF HasGive
<1>3. Len(s) + g \in 1 .. Len(u) /\ Gives(u[Len(s) + g])
  BY <1>1, <1>2, PlacesJoin DEF Joins
<1>4. ASSUME NEW i \in 1 .. Len(u), Takes(u[i]) PROVE \E j \in 1 .. Len(u) : i < j /\ Gives(u[j])
  <2>1. CASE i \in 1 .. Len(s)
    BY <1>1, <1>3, <2>1, PlacesJoin
  <2>2. CASE \E j \in 1 .. Len(t) : i = Len(s) + j
    <3>1. PICK j \in 1 .. Len(t) : i = Len(s) + j
      BY <2>2
    <3>2. Takes(t[j])
      BY <1>1, <1>4, <3>1 DEF Joins
    <3>3. PICK h \in 1 .. Len(t) : j < h /\ Gives(t[h])
      BY <3>2 DEF Followed
    <3>4. Len(s) + h \in 1 .. Len(u) /\ Gives(u[Len(s) + h]) /\ i < Len(s) + h
      BY <1>1, <3>1, <3>3, PlacesJoin DEF Joins
    <3> QED
      BY <3>4
  <2>3. i \in 1 .. Len(s) \/ \E j \in 1 .. Len(t) : i = Len(s) + j
    BY <1>1, OfEither
  <2> QED
    BY <2>1, <2>2, <2>3
<1> QED
  BY <1>1, <1>3, <1>4, FineJoins DEF HasGive, Followed

\* A plain list behind one that gives back what it takes takes nothing away.
LEMMA PlainBehind ==
  ASSUME NEW k, NEW s, NEW t, AllFine(k, s), HasGive(s), Followed(s), AllPlain(k, t)
  PROVE  AllFine(k, s \o t) /\ HasGive(s \o t) /\ Followed(s \o t)
<1>1. PICK u : u = s \o t /\ IsList(u) /\ Joins(s, t, u)
  BY ListsJoin DEF AllFine, AllPlain
<1>2. PICK g \in 1 .. Len(s) : Gives(s[g])
  BY DEF HasGive
<1>3. g \in 1 .. Len(u) /\ Gives(u[g])
  BY <1>1, <1>2, PlacesJoin DEF Joins
<1>4. ASSUME NEW i \in 1 .. Len(u), Takes(u[i]) PROVE \E j \in 1 .. Len(u) : i < j /\ Gives(u[j])
  <2>1. CASE i \in 1 .. Len(s)
    <3>1. PICK j \in 1 .. Len(s) : i < j /\ Gives(s[j])
      BY <1>1, <1>4, <2>1 DEF Followed, Joins
    <3> QED
      BY <1>1, <3>1, PlacesJoin DEF Joins
  <2>2. CASE \E j \in 1 .. Len(t) : i = Len(s) + j
    <3>1. PICK j \in 1 .. Len(t) : i = Len(s) + j
      BY <2>2
    <3>2. Takes(t[j])
      BY <1>1, <1>4, <3>1 DEF Joins
    <3> QED
      BY <3>2 DEF AllPlain, Plain
  <2>3. i \in 1 .. Len(s) \/ \E j \in 1 .. Len(t) : i = Len(s) + j
    BY <1>1, OfEither
  <2> QED
    BY <2>1, <2>2, <2>3
<1> QED
  BY <1>1, <1>3, <1>4, FineJoins, PlainOwesNothing DEF HasGive, Followed

\* The operations that take and give nothing.
LEMMA PlainOps ==
  ASSUME NEW k, board.port \in Nand!Controllers
  PROVE  /\ AllPlain(k, <<>>) /\ AllPlain(k, Nand!Reset) /\ AllPlain(k, Nand!ReadId) /\ AllPlain(k, Nand!Wait) /\ AllPlain(k, Nand!Status)
         /\ AllPlain(k, <<<<"width">>>>) /\ AllPlain(k, <<<<"large">>>>)
         /\ AllPlain(k, <<<<"autoprobe">>>>) /\ AllPlain(k, <<<<"codewords">>>>)
         /\ AllPlain(k, <<<<"codewords">>, <<"width">>>>) /\ AllPlain(k, <<<<"large">>, <<"width">>>>)
         /\ \A x, y, z : AllPlain(k, Nand!Take(x, y, z))
         /\ \A y : \A x \in {"addr1", "addr2", "page"} : AllPlain(k, Nand!Set(x, y))
         /\ \A x, y : x # "READ" => AllPlain(k, Nand!Send(x, y))
         /\ \A op : Plain(k, op) => AllPlain(k, <<op>>)
<1>1. ASSUME NEW op, Plain(k, op) PROVE AllPlain(k, <<op>>)
  <2>1. PICK s : s = <<op>> /\ IsList(s) /\ Len(s) = 1 /\ s[1] = op
    BY OneElement
  <2>2. \A i \in 1 .. 1 : i = 1
    OBVIOUS
  <2>3. \A i \in 1 .. Len(s) : Plain(k, s[i])
    BY <1>1, <2>1, <2>2, Zenon
  <2> QED
    BY <2>1, <2>3 DEF AllPlain
<1>2. AllPlain(k, <<>>)
  <2>1. PICK s : s = <<>> /\ IsList(s) /\ Len(s) = 0
    BY OneElement
  <2>2. 1 .. 0 = {}
    OBVIOUS
  <2> QED
    BY <2>1, <2>2 DEF AllPlain
<1>3. /\ Plain(k, <<"wait">>) /\ Plain(k, <<"status">>) /\ Plain(k, <<"width">>) /\ Plain(k, <<"large">>)
      /\ Plain(k, <<"autoprobe">>) /\ Plain(k, <<"codewords">>)
  BY DEF Plain, Fine, Takes
<1>5. \A x, y, z : Plain(k, <<"take", x, y, z>>)
  BY DEF Plain, Fine, Takes
<1>6. \A y : \A x \in {"addr1", "addr2", "page"} : Plain(k, <<"set", x, y>>)
  BY DEF Plain, Fine, Takes
<1>7. \A x, y : x # "READ" => Plain(k, <<"send", x, y>>)
  BY DEF Plain, Fine, Takes
<1>8. AllPlain(k, <<<<"codewords">>, <<"width">>>>) /\ AllPlain(k, <<<<"large">>, <<"width">>>>)
  <2>1. ASSUME NEW a, NEW b, Plain(k, a), Plain(k, b) PROVE AllPlain(k, <<a, b>>)
    <3>1. PICK s : s = <<a, b>> /\ s \in Seq({a, b}) /\ Len(s) = 2 /\ s[1] = a /\ s[2] = b
      <4>1. <<a, b>> \in Seq({a, b})
        OBVIOUS
      <4>2. Len(<<a, b>>) = 2 /\ <<a, b>>[1] = a /\ <<a, b>>[2] = b
        OBVIOUS
      <4> QED
        BY <4>1, <4>2, Zenon
    <3>2. \A i \in 1 .. 2 : i = 1 \/ i = 2
      OBVIOUS
    <3>3. \A i \in 1 .. Len(s) : Plain(k, s[i])
      BY <2>1, <3>1, <3>2, Zenon
    <3> QED
      BY <3>1, <3>3 DEF AllPlain, IsList
  <2> QED
    BY <1>3, <2>1
<1>9. \A x, y : x # "READ" => AllPlain(k, Nand!Send(x, y))
  BY <1>1, <1>7 DEF Nand!Send
<1>10. AllPlain(k, Nand!Reset) /\ AllPlain(k, Nand!ReadId)
  BY <1>9 DEF Nand!Reset, Nand!ReadId
<1>11. \A x, y, z : AllPlain(k, Nand!Take(x, y, z))
  BY <1>1, <1>5 DEF Nand!Take
<1>12. \A y : \A x \in {"addr1", "addr2", "page"} : AllPlain(k, Nand!Set(x, y))
  BY <1>1, <1>6 DEF Nand!Set
<1>14. AllPlain(k, Nand!Wait) /\ AllPlain(k, Nand!Status)
  BY <1>1, <1>3 DEF Nand!Wait, Nand!Status
<1> QED
  BY <1>1, <1>2, <1>3, <1>8, <1>9, <1>10, <1>11, <1>12, <1>14, Zenon

\* The operations that identify a chip are a probe's.
LEMMA IdentifyPlain ==
  ASSUME board.port \in Nand!Controllers
  PROVE  /\ AllPlain("probe", <<<<"small_only">>>>) /\ AllPlain("probe", Nand!Extend(1))
         /\ \A x \in {"all", "small", "superand"} : AllPlain("probe", Nand!Identify(x))
<1>1. Plain("probe", <<"small_only">>) /\ Plain("probe", <<"extend", 1>>)
  BY DEF Plain, Fine, Takes
<1>2. \A x \in {"all", "small", "superand"} : Plain("probe", <<"identify", x>>)
  BY DEF Plain, Fine, Takes
<1> QED
  BY <1>1, <1>2, PlainOps DEF Nand!Identify, Nand!Extend

\* The codewords of a page.
LEMMA CodewordsPlain ==
  ASSUME NEW k, NEW n \in Nat
  PROVE  AllPlain(k, Nand!Codewords(n))
<1>1. PICK m \in Nat : m = 2 * n
  OBVIOUS
<1>2. PICK f : /\ f = [i \in 1 .. m |-> IF i % 2 = 1 THEN <<"exec">> ELSE <<"copy", (i \div 2) - 1>>]
               /\ f = Nand!Codewords(n)
  BY <1>1 DEF Nand!Codewords
<1>3. PICK S : S = {f[i] : i \in 1 .. m}
  OBVIOUS
<1>4. f \in [1 .. m -> S]
  BY <1>2, <1>3
<1>5. f \in Seq(S) /\ Len(f) = m
  BY <1>4, FunctionIsSeq
<1>6. Plain(k, <<"exec">>) /\ \A i : Plain(k, <<"copy", i>>)
  BY DEF Plain, Fine, Takes
<1>7. ASSUME NEW i \in 1 .. m PROVE Plain(k, f[i])
  <2>1. f[i] = <<"exec">> \/ f[i] = <<"copy", (i \div 2) - 1>>
    BY <1>2
  <2> QED
    BY <1>6, <2>1
<1> QED
  BY <1>2, <1>5, <1>7 DEF AllPlain, IsList

\* A page read by commands.
LEMMA DefaultReadPlain ==
  ASSUME NEW k, board.port \in Nand!Controllers, NEW page
  PROVE  AllPlain(k, Nand!DefaultRead(page))
<1>1. /\ AllPlain(k, <<>>) /\ AllPlain(k, Nand!Wait) /\ AllPlain(k, Nand!Status)
      /\ \A x, y, z : AllPlain(k, Nand!Take(x, y, z))
      /\ \A y : AllPlain(k, Nand!Send("READ0", y)) /\ AllPlain(k, Nand!Send("READ1", y))
                /\ AllPlain(k, Nand!Send("READOOB", y)) /\ AllPlain(k, Nand!Send("READSTART", y))
  <2>1. "READ0" # "READ" /\ "READ1" # "READ" /\ "READOOB" # "READ" /\ "READSTART" # "READ"
    OBVIOUS
  <2> QED
    BY <2>1, PlainOps, Zenon
<1>2. AllPlain(k, Nand!Fetch("READ0", page)) /\ AllPlain(k, Nand!Fetch("READ1", page)) /\ AllPlain(k, Nand!Fetch("READOOB", page))
  BY <1>1, PlainJoins, Zenon DEF Nand!Fetch
<1>3. AllPlain(k, Nand!SmallRead(page))
  <2>1. PICK f : /\ f = (IF entry.bit_width = 8 THEN Nand!Fetch("READ1", page) \o Nand!Take("page", 256, 256) ELSE <<>>)
                 /\ AllPlain(k, f)
    <3>1. AllPlain(k, Nand!Fetch("READ1", page) \o Nand!Take("page", 256, 256))
      BY <1>1, <1>2, PlainJoins, ZenonT(60)
    <3> QED
      BY <1>1, <3>1, ZenonT(60)
  <2>2. PICK h : /\ h = Nand!Fetch("READ0", page) \o Nand!Take("page", 0, 256 * (entry.bit_width \div 8))
                 /\ AllPlain(k, h)
    BY <1>1, <1>2, PlainJoins, ZenonT(60)
  <2>3. PICK z : z = Nand!Take("spare", 0, 16) /\ AllPlain(k, z)
    BY <1>1, Zenon
  <2>4. AllPlain(k, f) /\ AllPlain(k, h) /\ AllPlain(k, z)
    BY <2>1, <2>2, <2>3
  <2>5. PICK g : g = Nand!Fetch("READOOB", page) /\ AllPlain(k, g)
    BY <1>2
  <2>6. AllPlain(k, g)
    BY <2>5
  <2>7. AllPlain(k, h \o f \o g \o z)
    BY <2>4, <2>6, PlainJoins, Zenon
  <2> QED
    BY <2>1, <2>2, <2>3, <2>5, <2>7, ZenonT(60) DEF Nand!SmallRead
<1>4. AllPlain(k, Nand!LargeRead(page))
  BY <1>1, PlainJoins, Zenon DEF Nand!LargeRead
<1> QED
  BY <1>3, <1>4, Zenon DEF Nand!DefaultRead

\* The lock itself is nothing but fine.
LEMMA LockFine ==
  ASSUME NEW k, board.port \in Nand!Controllers, ~Super
  PROVE  /\ AllFine(k, Nand!Lock(TRUE)) /\ AllFine(k, Nand!Lock(FALSE))
         /\ HasGive(Nand!Lock(FALSE)) /\ Followed(Nand!Lock(FALSE)) /\ AllPlain(k, Nand!Lock(FALSE))
<1>1. ASSUME NEW on \in BOOLEAN PROVE Fine(k, <<"hold", on>>) /\ (on = FALSE => ~Takes(<<"hold", on>>) /\ Gives(<<"hold", on>>))
  BY DEF Fine, Takes, Gives
<1>2. ASSUME NEW on \in BOOLEAN
      PROVE  \E s : s = Nand!Lock(on) /\ IsList(s) /\ Len(s) = 1 /\ s[1] = <<"hold", on>>
  BY OneElement DEF Nand!Lock
<1>3. 1 \in 1 .. 1 /\ \A i \in 1 .. 1 : i = 1
  OBVIOUS
<1>4. ASSUME NEW on \in BOOLEAN PROVE AllFine(k, Nand!Lock(on))
  BY <1>1, <1>2, <1>3 DEF AllFine
<1>5. HasGive(Nand!Lock(FALSE)) /\ AllPlain(k, Nand!Lock(FALSE))
  BY <1>1, <1>2, <1>3 DEF HasGive, AllPlain, Plain
<1> QED
  BY <1>4, <1>5, PlainOwesNothing

\* A call that takes the lock, does what it does and gives it back.
LEMMA LockedQuiet ==
  ASSUME NEW k, Keeper, NEW s, NEW t, AllFine(k, s), HasGive(t), AllFine(k, t), Followed(t)
  PROVE  Quiet(k, s \o t) /\ HasGive(s \o t)
BY GivenBehind DEF Quiet

\* The page reads of the BCM2133.
LEMMA BcmReadQuiet ==
  ASSUME NEW k, board.port = "bcm2133", NEW page
  PROVE  Quiet(k, Nand!BcmRead(page)) /\ (Keeper => HasGive(Nand!BcmRead(page)))
<1>1. board.port \in Nand!Controllers /\ ~Super
  BY DEF Nand!Controllers, Super
<1>2. CASE Nand!Axi
  <2>1. /\ AllPlain(k, Nand!Wait) /\ \A x, y, z : AllPlain(k, Nand!Take(x, y, z))
        /\ \A y : AllPlain(k, Nand!Set("addr1", y)) /\ AllPlain(k, Nand!Set("addr2", y))
    BY <1>1, PlainOps
  <2>2. PICK f : /\ f = (IF entry.page_size > 512
                         THEN Nand!Set("addr2", Nand!Left(page, 2)) \o Nand!Set("addr2", Nand!Right(page, 2))
                         ELSE Nand!Set("addr1", Nand!Left(page, 1)) \o Nand!Set("addr2", Nand!Right(page, 3)))
                 /\ AllPlain(k, f)
    <3>1. /\ AllPlain(k, Nand!Set("addr2", Nand!Left(page, 2)) \o Nand!Set("addr2", Nand!Right(page, 2)))
          /\ AllPlain(k, Nand!Set("addr1", Nand!Left(page, 1)) \o Nand!Set("addr2", Nand!Right(page, 3)))
      BY <2>1, PlainJoins, Zenon
    <3> QED
      BY <3>1, Zenon
  <2>3. AllPlain(k, f \o Nand!Wait \o Nand!Take("page", 0, entry.page_size) \o Nand!Take("spare", 0, Nand!Spare))
    BY <2>1, <2>2, PlainJoins, Zenon
  <2>4. AllPlain(k, Nand!BcmRead(page))
    BY <1>2, <2>2, <2>3, Zenon DEF Nand!BcmRead
  <2>5. ~Keeper
    BY <1>1, <1>2 DEF Keeper
  <2> QED
    BY <2>4, <2>5, PlainOwesNothing
<1>3. CASE ~Nand!Axi
  <2>1. AllFine(k, Nand!Lock(TRUE) \o Nand!DefaultRead(page))
    BY <1>1, LockFine, DefaultReadPlain, PlainOwesNothing, FineJoins
  <2>2. Keeper
    BY <1>3 DEF Keeper
  <2>3. Nand!BcmRead(page) = (Nand!Lock(TRUE) \o Nand!DefaultRead(page)) \o Nand!Lock(FALSE)
    BY <1>3 DEF Nand!BcmRead
  <2> QED
    BY <1>1, <2>1, <2>2, <2>3, LockFine, LockedQuiet
<1> QED
  BY <1>2, <1>3

\* Its probe takes the lock only where it has one, and gives it back before the last reset.
LEMMA BcmProbeQuiet ==
  ASSUME board.port = "bcm2133"
  PROVE  Quiet("probe", Nand!BcmProbe)
<1>1. board.port \in Nand!Controllers /\ ~Super
  BY DEF Nand!Controllers, Super
<1>2. PICK a : a = (IF Nand!Axi THEN <<>> ELSE Nand!Lock(TRUE))
  OBVIOUS
<1>3. PICK b : b = (IF Nand!Axi THEN <<<<"large">>>> ELSE <<>>) /\ AllPlain("probe", b)
  BY <1>1, PlainOps, Zenon
<1>4. Nand!BcmProbe =
        a \o Nand!Reset \o Nand!ReadId \o Nand!Identify("all") \o Nand!Extend(1) \o b \o Nand!Lock(FALSE) \o Nand!Reset
  BY <1>2, <1>3, Zenon DEF Nand!BcmProbe
<1>5. AllPlain("probe", Nand!Reset) /\ AllPlain("probe", Nand!ReadId) /\ AllPlain("probe", Nand!Identify("all")) /\ AllPlain("probe", Nand!Extend(1))
  BY <1>1, PlainOps, IdentifyPlain
<1>6. CASE Nand!Axi
  <2>1. AllPlain("probe", a)
    BY <1>1, <1>2, <1>6, PlainOps, Zenon
  <2>2. AllPlain("probe", Nand!BcmProbe)
    BY <1>1, <1>3, <1>4, <1>5, <2>1, LockFine, PlainJoins, Zenon
  <2> QED
    BY <2>2, PlainOwesNothing
<1>7. CASE ~Nand!Axi
  <2>1. AllFine("probe", a)
    BY <1>1, <1>2, <1>7, LockFine, Zenon
  <2>2. AllFine("probe", Nand!Reset) /\ AllFine("probe", Nand!ReadId) /\ AllFine("probe", Nand!Identify("all")) /\ AllFine("probe", Nand!Extend(1)) /\ AllFine("probe", b)
    BY <1>3, <1>5, PlainOwesNothing, Zenon
  <2>3. PICK s : s = a \o Nand!Reset \o Nand!ReadId \o Nand!Identify("all") \o Nand!Extend(1) \o b
    OBVIOUS
  <2>4. AllFine("probe", s)
    BY <2>1, <2>2, <2>3, FineJoins, Zenon
  <2>5. AllFine("probe", s \o Nand!Lock(FALSE)) /\ HasGive(s \o Nand!Lock(FALSE)) /\ Followed(s \o Nand!Lock(FALSE))
    BY <1>1, <2>4, LockFine, GivenBehind, Zenon
  <2>6. AllFine("probe", (s \o Nand!Lock(FALSE)) \o Nand!Reset) /\ Followed((s \o Nand!Lock(FALSE)) \o Nand!Reset)
    BY <1>5, <2>5, PlainBehind, Zenon
  <2>7. Keeper
    BY <1>7 DEF Keeper
  <2> QED
    BY <1>4, <2>3, <2>6, <2>7, Zenon DEF Quiet
<1> QED
  BY <1>6, <1>7

\* The PXA312 sets its run bit and clears it, twice for a probe.
LEMMA PxaProbeQuiet ==
  ASSUME board.port = "pxa312"
  PROVE  Quiet("probe", Nand!PxaProbe)
<1>1. board.port \in Nand!Controllers /\ ~Super /\ Keeper
  BY DEF Nand!Controllers, Super, Keeper
<1>2. AllFine("probe", Nand!Start) /\ AllFine("probe", Nand!Stop) /\ HasGive(Nand!Stop) /\ Followed(Nand!Stop)
  BY <1>1, LockFine DEF Nand!Start, Nand!Stop
<1>3. /\ AllFine("probe", Nand!Reset) /\ AllFine("probe", Nand!ReadId) /\ AllFine("probe", Nand!Identify("all"))
      /\ AllFine("probe", Nand!Extend(1)) /\ AllFine("probe", <<<<"large">>, <<"width">>>>)
  BY <1>1, PlainOps, IdentifyPlain, PlainOwesNothing
<1>4. Quiet("probe", Nand!PxaProbe)
  <2>1. PICK w : w = <<<<"large">>, <<"width">>>> /\ AllFine("probe", w)
    BY <1>3
  <2>2. PICK s : s = Nand!Start \o Nand!Reset \o Nand!ReadId \o Nand!Identify("all") \o Nand!Extend(1)
                     \o Nand!Stop \o w \o Nand!Start \o Nand!Reset
    OBVIOUS
  <2>3. AllFine("probe", w)
    BY <2>1
  <2>4. AllFine("probe", s)
    BY <1>2, <1>3, <2>2, <2>3, FineJoins, Zenon
  <2>5. Nand!PxaProbe = s \o Nand!Stop
    BY <2>1, <2>2, Zenon DEF Nand!PxaProbe
  <2> QED
    BY <1>1, <1>2, <2>4, <2>5, LockedQuiet
<1> QED
  BY <1>4

\* And once for a read.
LEMMA PxaReadQuiet ==
  ASSUME NEW k, board.port = "pxa312", NEW page
  PROVE  Quiet(k, Nand!PxaRead(page)) /\ HasGive(Nand!PxaRead(page))
<1>1. board.port \in Nand!Controllers /\ ~Super /\ Keeper
  BY DEF Nand!Controllers, Super, Keeper
<1>2. AllFine(k, Nand!Start) /\ AllFine(k, Nand!Stop) /\ HasGive(Nand!Stop) /\ Followed(Nand!Stop)
  BY <1>1, LockFine DEF Nand!Start, Nand!Stop
<1>3. /\ AllFine(k, Nand!Wait) /\ \A x, y, z : AllFine(k, Nand!Take(x, y, z))
      /\ \A y : AllFine(k, Nand!Send("READ0", y)) /\ AllFine(k, Nand!Send("READSTART", y))
  <2>1. "READ0" # "READ" /\ "READSTART" # "READ"
    OBVIOUS
  <2> QED
    BY <1>1, <2>1, PlainOps, PlainOwesNothing, Zenon
<1>4. Quiet(k, Nand!PxaRead(page)) /\ HasGive(Nand!PxaRead(page))
  <2>1. PICK a, b : /\ a = SubSeq(Nand!Left(page, 1) \o Nand!Right(page, 3), 1, 4)
                    /\ b = SubSeq(Nand!Left(page, 2) \o Nand!Right(page, 2), 1, 5)
    OBVIOUS
  <2>2. PICK f : f = (IF entry.page_size <= 512 THEN Nand!Send("READ0", a)
                      ELSE Nand!Send("READ0", b) \o Nand!Send("READSTART", <<>>))
    OBVIOUS
  <2>3. AllFine(k, f)
    <3>1. AllFine(k, Nand!Send("READ0", a)) /\ AllFine(k, Nand!Send("READ0", b) \o Nand!Send("READSTART", <<>>))
      BY <1>3, FineJoins, Zenon
    <3> QED
      BY <2>2, <3>1, Zenon
  <2>4. PICK x, y : /\ x = Nand!Take("page", 0, entry.page_size) /\ y = Nand!Take("spare", 0, Nand!Spare)
    OBVIOUS
  <2>5. AllFine(k, x) /\ AllFine(k, y)
    BY <1>3, <2>4, Zenon
  <2>6. AllFine(k, Nand!Start \o f \o Nand!Wait \o x \o y)
    BY <1>2, <1>3, <2>3, <2>5, FineJoins, Zenon
  <2>7. Nand!PxaRead(page) = (Nand!Start \o f \o Nand!Wait \o x \o y) \o Nand!Stop
    BY <2>1, <2>2, <2>4, Zenon DEF Nand!PxaRead
  <2> QED
    BY <1>1, <1>2, <2>6, <2>7, LockedQuiet
<1> QED
  BY <1>4

\* A SuperAND read ends the read sequence it begins.
LEMMA SuperAndReadQuiet ==
  ASSUME NEW k, board.port = "superand", NEW page
  PROVE  Quiet(k, Nand!SuperAndRead(page)) /\ HasGive(Nand!SuperAndRead(page))
<1>1. board.port \in Nand!Controllers /\ Super /\ Keeper
  BY DEF Nand!Controllers, Super, Keeper
<1>2. AllFine(k, Nand!Wait) /\ AllFine(k, Nand!Status) /\ \A x, y, z : AllFine(k, Nand!Take(x, y, z))
  BY <1>1, PlainOps, PlainOwesNothing, Zenon
<1>3. 1 \in 1 .. 1 /\ \A i \in 1 .. 1 : i = 1
  OBVIOUS
<1>4. ASSUME NEW bytes PROVE AllFine(k, Nand!Send("READ", bytes))
  <2>1. Fine(k, <<"send", "READ", bytes>>)
    BY <1>1 DEF Fine
  <2>2. PICK s : s = Nand!Send("READ", bytes) /\ IsList(s) /\ Len(s) = 1 /\ s[1] = <<"send", "READ", bytes>>
    BY OneElement DEF Nand!Send
  <2> QED
    BY <1>3, <2>1, <2>2 DEF AllFine
<1>5. AllPlain(k, Nand!Send("READ_EXIT", <<>>)) /\ HasGive(Nand!Send("READ_EXIT", <<>>))
  <2>1. PICK s : /\ s = Nand!Send("READ_EXIT", <<>>) /\ IsList(s) /\ Len(s) = 1
                 /\ s[1] = <<"send", "READ_EXIT", <<>>>>
    BY OneElement DEF Nand!Send
  <2>2. Gives(<<"send", "READ_EXIT", <<>>>>) /\ Plain(k, <<"send", "READ_EXIT", <<>>>>)
    BY <1>1 DEF Gives, Plain, Fine, Takes
  <2> QED
    BY <1>3, <2>1, <2>2 DEF AllPlain, HasGive
<1>6. PICK bytes :
        Nand!SuperAndRead(page) = (Nand!Send("READ", bytes) \o Nand!Wait \o Nand!Status
                                   \o Nand!Take("page", 0, entry.page_size)) \o Nand!Send("READ_EXIT", <<>>)
  BY DEF Nand!SuperAndRead
<1>7. PICK s : s = Nand!Send("READ", bytes) \o Nand!Wait \o Nand!Status \o Nand!Take("page", 0, entry.page_size)
  OBVIOUS
<1>8. AllFine(k, s)
  BY <1>2, <1>4, <1>7, FineJoins, Zenon
<1> QED
  BY <1>1, <1>5, <1>6, <1>7, <1>8, LockedQuiet, PlainOwesNothing

\* The probes of the other ports are plain.
LEMMA OtherProbesPlain ==
  ASSUME board.port \in Nand!Controllers
  PROVE  /\ AllPlain("probe", Nand!DefaultProbe) /\ AllPlain("probe", Nand!DummyProbe) /\ AllPlain("probe", Nand!S3cProbe)
         /\ AllPlain("probe", Nand!Msm6250Probe) /\ AllPlain("probe", Nand!Msm6800Probe)
         /\ AllPlain("probe", Nand!Msm7200Probe) /\ AllPlain("probe", Nand!SuperAndProbe)
<1>1. /\ AllPlain("probe", <<>>) /\ AllPlain("probe", Nand!Reset) /\ AllPlain("probe", Nand!ReadId) /\ AllPlain("probe", Nand!Wait) /\ AllPlain("probe", Nand!Status)
      /\ AllPlain("probe", Nand!Identify("all")) /\ AllPlain("probe", Nand!Identify("small"))
      /\ AllPlain("probe", Nand!Identify("superand")) /\ AllPlain("probe", Nand!Extend(1))
  BY PlainOps, IdentifyPlain
<1>2. PICK small, width, auto, both :
        /\ small = <<<<"small_only">>>> /\ width = <<<<"width">>>> /\ auto = <<<<"autoprobe">>>>
        /\ both = <<<<"codewords">>, <<"width">>>>
  OBVIOUS
<1>3. AllPlain("probe", small) /\ AllPlain("probe", width) /\ AllPlain("probe", auto) /\ AllPlain("probe", both)
  BY <1>2, PlainOps, IdentifyPlain, Zenon
<1>4. PICK e : e = Nand!Extend(1) /\ AllPlain("probe", e)
  BY <1>1
<1>5. AllPlain("probe", e)
  BY <1>4
<1>6. AllPlain("probe", Nand!Template(e))
  BY <1>1, <1>5, PlainJoins, Zenon DEF Nand!Template
<1>7. AllPlain("probe", Nand!DefaultProbe) /\ AllPlain("probe", Nand!DummyProbe)
  BY <1>4, <1>6 DEF Nand!DefaultProbe, Nand!DummyProbe
<1>8. AllPlain("probe", Nand!S3cProbe)
  <2>1. PICK f : f = (IF board.port = "s3c2410" THEN small ELSE e)
    OBVIOUS
  <2>2. PICK g : g = (IF board.port = "s3c2410" THEN <<>> ELSE width)
    OBVIOUS
  <2>3. AllPlain("probe", f) /\ AllPlain("probe", g)
    BY <1>1, <1>3, <1>5, <2>1, <2>2
  <2>4. AllPlain("probe", Nand!Reset \o Nand!ReadId \o Nand!Identify("all") \o f \o g \o Nand!Reset)
    BY <1>1, <2>3, PlainJoins, Zenon
  <2> QED
    BY <1>2, <1>4, <2>1, <2>2, <2>4, Zenon DEF Nand!S3cProbe, Nand!port
<1>9. AllPlain("probe", Nand!Msm6250Probe)
  <2>1. PICK f : f = (IF board.port = "msm6550" THEN width ELSE <<>>)
    OBVIOUS
  <2>2. AllPlain("probe", f)
    BY <1>1, <1>3, <2>1
  <2>3. AllPlain("probe", Nand!Reset \o Nand!ReadId \o Nand!Identify("small") \o f \o Nand!Reset)
    BY <1>1, <2>2, PlainJoins, Zenon
  <2> QED
    BY <1>2, <2>1, <2>3, Zenon DEF Nand!Msm6250Probe, Nand!port
<1>10. AllPlain("probe", Nand!Msm6800Probe)
  <2>1. AllPlain("probe", Nand!Reset \o auto \o Nand!ReadId \o Nand!Identify("all") \o e \o Nand!Reset)
    BY <1>1, <1>3, <1>5, PlainJoins, Zenon
  <2> QED
    BY <1>2, <1>4, <2>1, Zenon DEF Nand!Msm6800Probe
<1>11. AllPlain("probe", Nand!Msm7200Probe)
  <2>1. AllPlain("probe", Nand!Reset \o auto \o Nand!Status \o Nand!ReadId \o Nand!Identify("all") \o e \o both \o Nand!Reset)
    BY <1>1, <1>3, <1>5, PlainJoins, Zenon
  <2> QED
    BY <1>2, <1>4, <2>1, Zenon DEF Nand!Msm7200Probe
<1>12. AllPlain("probe", Nand!SuperAndProbe)
  BY <1>1, PlainJoins, Zenon DEF Nand!SuperAndProbe
<1> QED
  BY <1>7, <1>8, <1>9, <1>10, <1>11, <1>12, Zenon

\* So are their reads.
LEMMA OtherReadsPlain ==
  ASSUME NEW k, board.port \in Nand!Controllers, NEW page, entry.page_size \in Nat
  PROVE  AllPlain(k, Nand!Msm6250Read(page)) /\ AllPlain(k, Nand!Msm6800Read(page)) /\ AllPlain(k, Nand!Msm7200Read(page))
<1>1. PICK one, all : /\ one = Nand!Codewords(1) /\ AllPlain(k, one)
                       /\ all = Nand!Codewords(entry.page_size \div 512) /\ AllPlain(k, all)
  <2>1. entry.page_size \div 512 \in Nat /\ 1 \in Nat
    OBVIOUS
  <2> QED
    BY <2>1, CodewordsPlain
<1>2. AllPlain(k, one) /\ AllPlain(k, all)
  BY <1>1
<1>3. \A y : AllPlain(k, Nand!Set("page", y)) /\ AllPlain(k, Nand!Set("addr1", y)) /\ AllPlain(k, Nand!Set("addr2", y))
  BY PlainOps
<1>4. PICK a, b, c, d, p : /\ a = Nand!Set("addr1", Nand!Left(page, 2)) /\ b = Nand!Set("addr2", Nand!Right(page, 2))
                            /\ c = Nand!Set("addr1", Nand!Left(page, 1)) /\ d = Nand!Set("addr2", Nand!Right(page, 3))
                            /\ p = Nand!Set("page", Nand!Left(page, 0))
  OBVIOUS
<1>5. AllPlain(k, a) /\ AllPlain(k, b) /\ AllPlain(k, c) /\ AllPlain(k, d) /\ AllPlain(k, p)
  BY <1>3, <1>4, Zenon
<1>6. AllPlain(k, Nand!Msm6250Read(page)) /\ AllPlain(k, Nand!Msm6800Read(page))
  <2>1. AllPlain(k, p \o one) /\ AllPlain(k, p \o all)
    BY <1>2, <1>5, PlainJoins, Zenon
  <2> QED
    BY <1>1, <1>4, <2>1, Zenon DEF Nand!Msm6250Read, Nand!Msm6800Read
<1>7. AllPlain(k, Nand!Msm7200Read(page))
  <2>1. PICK f : f = (IF entry.page_size > 512 THEN a \o b ELSE c \o d)
    OBVIOUS
  <2>2. AllPlain(k, f)
    <3>1. AllPlain(k, a \o b) /\ AllPlain(k, c \o d)
      BY <1>5, PlainJoins, Zenon
    <3> QED
      BY <2>1, <3>1, Zenon
  <2>3. AllPlain(k, f \o all)
    BY <1>2, <2>2, PlainJoins, Zenon
  <2> QED
    BY <1>1, <1>4, <2>1, <2>3, ZenonT(60) DEF Nand!Msm7200Read
<1> QED
  BY <1>6, <1>7, Zenon

-----------------------------------------------------------------------------
(* Where a probe reads the id, and what it makes of it.                    *)

TableName == IF Super THEN "superand" ELSE IF board.port \in {"msm6250", "msm6550"} THEN "small" ELSE "all"
WithExtra == TableName = "all"
ExtraOp == IF board.port = "s3c2410" THEN <<"small_only">> ELSE <<"extend", 1>>
IdentifyOp == <<"identify", TableName>>
ReadIdOp == <<"send", "READID", <<0>>>>

\* A list that has just asked for the id, and one that has just looked it up.
EndsWithId(s) == AllFine("read", s) /\ Len(s) \in Nat \ {0} /\ s[Len(s)] = ReadIdOp
EndsIdentified(s) ==
  \E p \in Nat : /\ IsList(s) /\ 1 < p /\ Len(s) = p /\ s[p] = IdentifyOp /\ s[p - 1] = ReadIdOp
                 /\ \A i \in 1 .. p - 1 : Fine("read", s[i])

\* The p-th operation looks the chip up, right behind the command for its id, and what asks for more
\* is right behind it.
IdentifyAt(s, p) ==
  /\ IsList(s) /\ p \in 1 .. Len(s) /\ s[p] = IdentifyOp /\ (p > 1 => s[p - 1] = ReadIdOp)
  /\ \A i \in 1 .. p - 1 : Fine("read", s[i])
  /\ WithExtra => p + 1 <= Len(s) /\ s[p + 1] = ExtraOp
  /\ \A i \in p + 1 .. Len(s) : (i = p + 1 /\ WithExtra) \/ Fine("read", s[i])
Shaped(s) == \E p \in Nat : 1 < p /\ IdentifyAt(s, p)

\* The command for the id behind operations that identify nothing.
LEMMA AskedForId ==
  ASSUME board.port \in Nand!Controllers, NEW s, AllFine("read", s)
  PROVE  EndsWithId(Nand!ReadId) /\ EndsWithId(s \o Nand!ReadId)
<1>1. AllFine("read", Nand!ReadId)
  BY PlainOps, PlainOwesNothing
<1>2. PICK t : t = Nand!ReadId /\ IsList(t) /\ Len(t) = 1 /\ t[1] = ReadIdOp
  BY OneElement DEF Nand!ReadId, Nand!Send, ReadIdOp
<1>3. PICK u : u = s \o t /\ IsList(u) /\ Joins(s, t, u)
  BY <1>2, ListsJoin DEF AllFine
<1>4. PICK m \in Nat : m = Len(s) /\ Len(u) = m + 1 /\ u[m + 1] = t[1]
  <2>1. Len(s) \in Nat /\ Len(u) = Len(s) + Len(t) /\ \A i \in 1 .. Len(t) : u[Len(s) + i] = t[i]
    BY <1>3 DEF Joins
  <2>2. 1 \in 1 .. 1
    OBVIOUS
  <2>3. 1 \in 1 .. Len(t)
    BY <1>2, <2>2, Zenon
  <2>4. Len(u) = Len(s) + 1 /\ u[Len(s) + 1] = t[1]
    BY <1>2, <2>1, <2>3, Zenon
  <2> QED
    BY <2>1, <2>4
<1>5. AllFine("read", u)
  BY <1>1, <1>2, <1>3, FineJoins
<1> QED
  BY <1>1, <1>2, <1>3, <1>4, <1>5 DEF EndsWithId

\* The look-up behind it.
LEMMA LookedUpNext ==
  ASSUME NEW s, EndsWithId(s)
  PROVE  EndsIdentified(s \o Nand!Identify(TableName))
<1>1. PICK t : t = Nand!Identify(TableName) /\ IsList(t) /\ Len(t) = 1 /\ t[1] = IdentifyOp
  BY OneElement DEF Nand!Identify, IdentifyOp
<1>2. PICK u : u = s \o t /\ IsList(u) /\ Joins(s, t, u)
  BY <1>1, ListsJoin DEF AllFine, EndsWithId
<1>3. PICK m \in Nat \ {0} : m = Len(s) /\ s[m] = ReadIdOp /\ \A i \in 1 .. m : Fine("read", s[i])
  BY DEF EndsWithId, AllFine
<1>4. Len(u) = m + 1 /\ u[m + 1] = IdentifyOp /\ \A i \in 1 .. m : u[i] = s[i]
  <2>1. Len(u) = m + Len(t) /\ (\A i \in 1 .. Len(t) : u[m + i] = t[i]) /\ \A i \in 1 .. m : u[i] = s[i]
    BY <1>2, <1>3 DEF Joins
  <2>2. 1 \in 1 .. 1
    OBVIOUS
  <2>3. 1 \in 1 .. Len(t)
    BY <1>1, <2>2, Zenon
  <2> QED
    BY <1>1, <2>1, <2>3, Zenon
<1>5. PICK p \in Nat : p = m + 1 /\ 1 < p /\ p - 1 = m
  OBVIOUS
<1>6. Len(u) = p /\ u[p] = IdentifyOp /\ u[p - 1] = ReadIdOp /\ \A i \in 1 .. p - 1 : Fine("read", u[i])
  BY <1>3, <1>4, <1>5
<1> QED
  BY <1>1, <1>2, <1>5, <1>6 DEF EndsIdentified

\* What asks for more behind the look-up; some probes ask for nothing more.
LEMMA ExtraNext ==
  ASSUME NEW s, EndsIdentified(s)
  PROVE  /\ WithExtra => Shaped(s \o <<ExtraOp>>)
         /\ ~WithExtra => Shaped(s)
<1>1. PICK p \in Nat : /\ IsList(s) /\ 1 < p /\ Len(s) = p /\ s[p] = IdentifyOp /\ s[p - 1] = ReadIdOp
                       /\ \A i \in 1 .. p - 1 : Fine("read", s[i])
  BY DEF EndsIdentified
<1>2. CASE WithExtra
  <2>1. PICK t : t = <<ExtraOp>> /\ IsList(t) /\ Len(t) = 1 /\ t[1] = ExtraOp
    BY OneElement
  <2>2. PICK u : u = s \o t /\ IsList(u) /\ Joins(s, t, u)
    BY <1>1, <2>1, ListsJoin
  <2>3. Len(u) = p + 1 /\ u[p + 1] = ExtraOp /\ \A i \in 1 .. p : u[i] = s[i]
    <3>1. Len(u) = p + Len(t) /\ (\A i \in 1 .. Len(t) : u[p + i] = t[i]) /\ \A i \in 1 .. p : u[i] = s[i]
      BY <1>1, <2>2 DEF Joins
    <3>2. 1 \in 1 .. 1
      OBVIOUS
    <3>3. 1 \in 1 .. Len(t)
      BY <2>1, <3>2, Zenon
    <3> QED
      BY <2>1, <3>1, <3>3, Zenon
  <2>4. IdentifyAt(u, p)
    BY <1>1, <1>2, <2>2, <2>3 DEF IdentifyAt
  <2> QED
    BY <1>1, <1>2, <2>1, <2>2, <2>4 DEF Shaped
<1>3. CASE ~WithExtra
  <2>1. IdentifyAt(s, p)
    BY <1>1, <1>3 DEF IdentifyAt
  <2> QED
    BY <1>1, <1>3, <2>1 DEF Shaped
<1> QED
  BY <1>2, <1>3

\* What comes behind identifies nothing.
LEMMA ShapedBefore ==
  ASSUME NEW s, NEW t, Shaped(s), AllFine("read", t)
  PROVE  Shaped(s \o t)
<1>1. PICK p \in Nat : 1 < p /\ IdentifyAt(s, p)
  BY DEF Shaped
<1>2. IsList(s) /\ IsList(t)
  BY <1>1 DEF IdentifyAt, AllFine
<1>3. PICK u : u = s \o t /\ IsList(u) /\ Joins(s, t, u)
  BY <1>2, ListsJoin
<1>4. PICK m \in Nat, n \in Nat : m = Len(s) /\ n = Len(t) /\ Len(u) = m + n
  BY <1>3 DEF Joins
<1>5. (\A i \in 1 .. m : u[i] = s[i]) /\ \A i \in 1 .. n : u[m + i] = t[i]
  BY <1>3, <1>4 DEF Joins
<1>6. /\ p \in 1 .. m /\ s[p] = IdentifyOp /\ s[p - 1] = ReadIdOp
      /\ \A i \in 1 .. p - 1 : Fine("read", s[i])
      /\ WithExtra => p + 1 <= m /\ s[p + 1] = ExtraOp
      /\ \A i \in p + 1 .. m : (i = p + 1 /\ WithExtra) \/ Fine("read", s[i])
  BY <1>1, <1>4 DEF IdentifyAt
<1>7. \A i \in 1 .. n : Fine("read", t[i])
  BY <1>4 DEF AllFine
<1>8. ASSUME NEW i \in p + 1 .. m + n PROVE (i = p + 1 /\ WithExtra) \/ Fine("read", u[i])
  <2>1. CASE i <= m
    <3>1. i \in p + 1 .. m /\ i \in 1 .. m
      BY <1>6, <2>1
    <3> QED
      BY <1>5, <1>6, <3>1
  <2>2. CASE i > m
    <3>1. i - m \in 1 .. n /\ m + (i - m) = i
      BY <1>6, <2>2
    <3> QED
      BY <1>5, <1>7, <3>1
  <2> QED
    BY <1>6, <2>1, <2>2
<1>9. /\ p \in 1 .. m + n /\ u[p] = IdentifyOp /\ u[p - 1] = ReadIdOp
      /\ \A i \in 1 .. p - 1 : Fine("read", u[i])
      /\ WithExtra => p + 1 <= m + n /\ u[p + 1] = ExtraOp
  <2>1. p \in 1 .. m /\ p - 1 \in 1 .. m /\ p \in 1 .. m + n /\ \A i \in 1 .. p - 1 : i \in 1 .. m
    BY <1>1, <1>6
  <2>2. WithExtra => p + 1 \in 1 .. m /\ p + 1 <= m + n
    BY <1>6
  <2> QED
    BY <1>5, <1>6, <2>1, <2>2
<1>10. IdentifyAt(u, p)
  BY <1>3, <1>4, <1>8, <1>9 DEF IdentifyAt
<1> QED
  BY <1>1, <1>3, <1>10 DEF Shaped

\* The middle of every probe.
LEMMA MiddleOfProbe ==
  ASSUME board.port \in Nand!Controllers, NEW a, AllFine("read", a)
  PROVE  /\ WithExtra => Shaped(a \o Nand!ReadId \o Nand!Identify("all") \o <<ExtraOp>>)
         /\ ~WithExtra => Shaped(a \o Nand!ReadId \o Nand!Identify(TableName))
         /\ ~WithExtra => Shaped(Nand!ReadId \o Nand!Identify(TableName))
<1>1. /\ EndsIdentified((a \o Nand!ReadId) \o Nand!Identify(TableName))
      /\ EndsIdentified(Nand!ReadId \o Nand!Identify(TableName))
  BY AskedForId, LookedUpNext
<1>2. WithExtra => Shaped((a \o Nand!ReadId \o Nand!Identify(TableName)) \o <<ExtraOp>>)
  BY <1>1, ExtraNext
<1>3. ~WithExtra => Shaped(a \o Nand!ReadId \o Nand!Identify(TableName)) /\ Shaped(Nand!ReadId \o Nand!Identify(TableName))
  BY <1>1, ExtraNext
<1> QED
  BY <1>2, <1>3 DEF WithExtra

\* Every probe looks its chip up once, right behind the command for the id.
LEMMA ProbeShaped ==
  ASSUME board.port \in Nand!Controllers
  PROVE  Shaped(Nand!ProbeOps)
<1> DEFINE Tiny == <<<<"width">>>>
           Probing == <<<<"autoprobe">>>>
           Both == <<<<"codewords">>, <<"width">>>>
           Large == <<<<"large">>, <<"width">>>>
<1>1. /\ AllFine("read", <<>>) /\ AllFine("read", Nand!Reset) /\ AllFine("read", Nand!Status)
      /\ AllFine("read", Tiny) /\ AllFine("read", Probing) /\ AllFine("read", Both) /\ AllFine("read", Large)
      /\ AllFine("read", <<<<"large">>>>)
  BY PlainOps, PlainOwesNothing
<1> HIDE DEF Tiny, Probing, Both, Large
<1>2. CASE board.port \in {"default", "dummy"}
  <2>1. WithExtra /\ Nand!Extend(1) = <<ExtraOp>>
    BY <1>2 DEF WithExtra, TableName, Super, Nand!Extend, ExtraOp
  <2>2. Shaped(Nand!Reset \o Nand!ReadId \o Nand!Identify("all") \o Nand!Extend(1))
    BY <1>1, <2>1, MiddleOfProbe
  <2>3. Shaped(Nand!Template(Nand!Extend(1)))
    BY <1>1, <2>2, ShapedBefore DEF Nand!Template
  <2>4. Nand!ProbeOps = Nand!Template(Nand!Extend(1))
    BY <1>2 DEF Nand!ProbeOps, Nand!port, Nand!DefaultProbe, Nand!DummyProbe
  <2> QED
    BY <2>3, <2>4
<1>3. CASE board.port \in {"s3c2410", "s3c2440"}
  <2>1. WithExtra /\ <<ExtraOp>> = IF board.port = "s3c2410" THEN <<<<"small_only">>>> ELSE Nand!Extend(1)
    BY <1>3 DEF WithExtra, TableName, Super, Nand!Extend, ExtraOp
  <2>2. Shaped(Nand!Reset \o Nand!ReadId \o Nand!Identify("all") \o <<ExtraOp>>)
    BY <1>1, <2>1, MiddleOfProbe
  <2>3. PICK f : f = (IF board.port = "s3c2410" THEN <<>> ELSE Tiny) /\ AllFine("read", f)
    BY <1>1
  <2>4. Shaped((Nand!Reset \o Nand!ReadId \o Nand!Identify("all") \o <<ExtraOp>>) \o f \o Nand!Reset)
    BY <1>1, <2>2, <2>3, ShapedBefore, Zenon
  <2>5. Nand!ProbeOps = Nand!S3cProbe
    BY <1>3 DEF Nand!ProbeOps, Nand!port
  <2>6. Nand!S3cProbe = Nand!Reset \o Nand!ReadId \o Nand!Identify("all") \o <<ExtraOp>> \o f \o Nand!Reset
    BY <2>1, <2>3, Zenon DEF Nand!S3cProbe, Nand!port, Tiny
  <2> QED
    BY <2>4, <2>5, <2>6, Zenon
<1>4. CASE board.port = "bcm2133"
  <2>1. WithExtra /\ Nand!Extend(1) = <<ExtraOp>> /\ ~Super
    BY <1>4 DEF WithExtra, TableName, Super, Nand!Extend, ExtraOp
  <2>2. AllFine("read", Nand!Lock(TRUE)) /\ AllFine("read", Nand!Lock(FALSE))
    BY <2>1, LockFine
  <2>3. PICK a : a = (IF Nand!Axi THEN <<>> ELSE Nand!Lock(TRUE)) /\ AllFine("read", a)
    BY <1>1, <2>2, Zenon
  <2>4. PICK b : b = (IF Nand!Axi THEN <<<<"large">>>> ELSE <<>>) /\ AllFine("read", b)
    BY <1>1, Zenon
  <2>5. Shaped((a \o Nand!Reset) \o Nand!ReadId \o Nand!Identify("all") \o Nand!Extend(1))
    <3>1. AllFine("read", a \o Nand!Reset)
      BY <1>1, <2>3, FineJoins
    <3> QED
      BY <2>1, <3>1, MiddleOfProbe
  <2>6. Shaped(((a \o Nand!Reset) \o Nand!ReadId \o Nand!Identify("all") \o Nand!Extend(1)) \o b
               \o Nand!Lock(FALSE) \o Nand!Reset)
    <3>1. AllFine("read", b)
      BY <2>4
    <3> QED
      BY <1>1, <2>2, <2>5, <3>1, ShapedBefore, Zenon
  <2>7. Nand!ProbeOps = Nand!BcmProbe
    BY <1>4 DEF Nand!ProbeOps, Nand!port
  <2> QED
    BY <2>3, <2>4, <2>6, <2>7, Zenon DEF Nand!BcmProbe
<1>5. CASE board.port = "pxa312"
  <2>1. WithExtra /\ Nand!Extend(1) = <<ExtraOp>> /\ ~Super
    BY <1>5 DEF WithExtra, TableName, Super, Nand!Extend, ExtraOp
  <2>2. AllFine("read", Nand!Start) /\ AllFine("read", Nand!Stop)
    BY <2>1, LockFine DEF Nand!Start, Nand!Stop
  <2>3. Shaped((Nand!Start \o Nand!Reset) \o Nand!ReadId \o Nand!Identify("all") \o Nand!Extend(1))
    <3>1. AllFine("read", Nand!Start \o Nand!Reset)
      BY <1>1, <2>2, FineJoins
    <3> QED
      BY <2>1, <3>1, MiddleOfProbe
  <2>4. Shaped(((Nand!Start \o Nand!Reset) \o Nand!ReadId \o Nand!Identify("all") \o Nand!Extend(1))
               \o Nand!Stop \o Large \o Nand!Start \o Nand!Reset \o Nand!Stop)
    BY <1>1, <2>2, <2>3, ShapedBefore, Zenon
  <2>5. Nand!ProbeOps = Nand!PxaProbe
    BY <1>5 DEF Nand!ProbeOps, Nand!port
  <2> QED
    BY <2>4, <2>5, Zenon DEF Nand!PxaProbe, Large
<1>6. CASE board.port \in {"msm6250", "msm6550"}
  <2>1. ~WithExtra /\ TableName = "small"
    BY <1>6 DEF WithExtra, TableName, Super
  <2>2. PICK f : f = (IF board.port = "msm6550" THEN Tiny ELSE <<>>) /\ AllFine("read", f)
    BY <1>1, Zenon
  <2>3. Shaped(Nand!Reset \o Nand!ReadId \o Nand!Identify("small"))
    BY <1>1, <2>1, MiddleOfProbe
  <2>4. Shaped((Nand!Reset \o Nand!ReadId \o Nand!Identify("small")) \o f \o Nand!Reset)
    <3>1. AllFine("read", f)
      BY <2>2
    <3> QED
      BY <1>1, <2>3, <3>1, ShapedBefore, Zenon
  <2>5. Nand!ProbeOps = Nand!Msm6250Probe
    BY <1>6 DEF Nand!ProbeOps, Nand!port
  <2> QED
    BY <2>2, <2>4, <2>5, Zenon DEF Nand!Msm6250Probe, Nand!port, Tiny
<1>7. CASE board.port \in {"msm6800", "msm7200"}
  <2>1. WithExtra /\ Nand!Extend(1) = <<ExtraOp>>
    BY <1>7 DEF WithExtra, TableName, Super, Nand!Extend, ExtraOp
  <2>2. AllFine("read", Nand!Reset \o Probing) /\ AllFine("read", Nand!Reset \o Probing \o Nand!Status)
    BY <1>1, FineJoins
  <2>3. /\ Shaped((Nand!Reset \o Probing) \o Nand!ReadId \o Nand!Identify("all") \o Nand!Extend(1))
        /\ Shaped((Nand!Reset \o Probing \o Nand!Status) \o Nand!ReadId \o Nand!Identify("all") \o Nand!Extend(1))
    BY <2>1, <2>2, MiddleOfProbe
  <2>4. Shaped(((Nand!Reset \o Probing) \o Nand!ReadId \o Nand!Identify("all") \o Nand!Extend(1)) \o Nand!Reset)
    BY <1>1, <2>3, ShapedBefore, Zenon
  <2>5. Shaped(((Nand!Reset \o Probing \o Nand!Status) \o Nand!ReadId \o Nand!Identify("all") \o Nand!Extend(1))
               \o Both \o Nand!Reset)
    BY <1>1, <2>3, ShapedBefore, Zenon
  <2>6. Nand!ProbeOps = IF board.port = "msm6800" THEN Nand!Msm6800Probe ELSE Nand!Msm7200Probe
    BY <1>7 DEF Nand!ProbeOps, Nand!port
  <2> QED
    BY <2>4, <2>5, <2>6, Zenon DEF Nand!Msm6800Probe, Nand!Msm7200Probe, Probing, Both
<1>8. CASE board.port = "superand"
  <2>1. ~WithExtra /\ TableName = "superand"
    BY <1>8 DEF WithExtra, TableName, Super
  <2>2. Shaped(Nand!ReadId \o Nand!Identify("superand"))
    BY <1>1, <2>1, MiddleOfProbe
  <2>3. Nand!ProbeOps = Nand!SuperAndProbe
    BY <1>8 DEF Nand!ProbeOps, Nand!port
  <2> QED
    BY <2>2, <2>3 DEF Nand!SuperAndProbe
<1> QED
  BY <1>2, <1>3, <1>4, <1>5, <1>6, <1>7, <1>8 DEF Nand!Controllers

\* A probe takes nothing it does not give back either.
LEMMA ProbeQuiet ==
  ASSUME board.port \in Nand!Controllers
  PROVE  Quiet("probe", Nand!ProbeOps)
<1>1. CASE board.port = "bcm2133"
  BY <1>1, BcmProbeQuiet DEF Nand!ProbeOps, Nand!port
<1>2. CASE board.port = "pxa312"
  BY <1>2, PxaProbeQuiet DEF Nand!ProbeOps, Nand!port
<1>3. CASE board.port \notin {"bcm2133", "pxa312"}
  <2>1. Nand!ProbeOps \in {Nand!DefaultProbe, Nand!DummyProbe, Nand!S3cProbe, Nand!Msm6250Probe, Nand!Msm6800Probe,
                           Nand!Msm7200Probe, Nand!SuperAndProbe}
    BY <1>3 DEF Nand!Controllers, Nand!ProbeOps, Nand!port
  <2> QED
    BY <2>1, OtherProbesPlain, PlainOwesNothing
<1> QED
  BY <1>1, <1>2, <1>3

\* Nor does a read, which gives back what an earlier call that failed may have kept.
LEMMA ReadQuiet ==
  ASSUME board.port \in Nand!Controllers, NEW page, entry.page_size \in Nat
  PROVE  Quiet("read", Nand!ReadOps(page)) /\ (Keeper => HasGive(Nand!ReadOps(page)))
<1>1. CASE board.port = "bcm2133"
  BY <1>1, BcmReadQuiet DEF Nand!ReadOps, Nand!port
<1>2. CASE board.port = "pxa312"
  BY <1>2, PxaReadQuiet DEF Nand!ReadOps, Nand!port
<1>3. CASE board.port = "superand"
  BY <1>3, SuperAndReadQuiet DEF Nand!ReadOps, Nand!port
<1>4. CASE board.port \notin {"bcm2133", "pxa312", "superand"}
  <2>1. Nand!ReadOps(page) \in {Nand!DefaultRead(page), Nand!Msm6250Read(page), Nand!Msm6800Read(page),
                                Nand!Msm7200Read(page)}
    BY <1>4 DEF Nand!Controllers, Nand!ReadOps, Nand!port, Nand!DummyRead, Nand!S3cRead
  <2>2. ~Keeper
    BY <1>4 DEF Keeper, Super
  <2> QED
    BY <2>1, <2>2, OtherReadsPlain, DefaultReadPlain, PlainOwesNothing
<1> QED
  BY <1>1, <1>2, <1>3, <1>4

-----------------------------------------------------------------------------
(* A NAND or SuperAND call and the chip.                                   *)

BusFields == {"cmd", "addr", "taken", "ready", "open"}
HwFields == {"width", "held", "large", "addr1", "addr2", "page", "per_page", "next", "buffer"}

NandTypes ==
  /\ board \in NandBoards
  /\ IsOn(BusFields, bus) /\ bus.open \in BOOLEAN
  /\ IsOn(HwFields, hw) /\ hw.held \in BOOLEAN
  /\ call.kind \in {"probe", "read"} /\ AllFine(call.kind, ops)
  /\ result # "none" => ops = <<>>

\* What the table says of the chip, and the chip itself.
ChipTable == Nand!Table(TableName)
TypeName == IF Super THEN "SUPERAND" ELSE "NAND"
InTable ==
  LET info == ChipTable[board.chip.dev]
  IN  [type |-> TypeName, manufacturer |-> board.chip.mfr, device_id |-> board.chip.dev,
       bit_width |-> info.bits, page_size |-> info.page_size, size |-> info.size, block_size |-> info.block_size]
OfChip ==
  [type |-> TypeName, manufacturer |-> board.chip.mfr,
   device_id |-> board.chip.dev + IF board.chip.page_size > 512 THEN 256 * board.chip.ext ELSE 0,
   bit_width |-> board.chip.bits, page_size |-> board.chip.page_size, size |-> board.chip.size,
   block_size |-> board.chip.block_size]

\* A probe before, between and after its two looks at the id.
Unidentified ==
  /\ entry = Nand!NoMem
  /\ \E p \in Nat : IdentifyAt(ops, p) /\ (p = 1 => bus.cmd = "READID" /\ bus.taken = 0)
HalfIdentified ==
  /\ WithExtra /\ board.chip.dev \in DOMAIN ChipTable /\ entry = InTable /\ bus.taken = 2
  /\ ops # <<>> /\ Head(ops) = ExtraOp /\ AllFine("read", Tail(ops))
AllIdentified == entry = OfChip /\ AllFine("read", ops)

ProbeInv ==
  /\ call.kind = "probe" /\ result = "none" => Unidentified \/ HalfIdentified \/ AllIdentified
  /\ call.kind = "read" => AllIdentified
  /\ result = "OK" => entry = OfChip
  /\ result # "none" /\ entry.type # "NONE" => entry = OfChip

\* Who is in the middle of what it takes will give it back.
Owing == IF Super THEN bus.open ELSE hw.held
QuietInv ==
  /\ IF Super THEN ~hw.held ELSE ~bus.open
  /\ Quiet(call.kind, ops)
  /\ Owing => Keeper /\ result # "OK" /\ (result = "none" => HasGive(ops))

NandInv == NandTypes /\ ProbeInv /\ QuietInv

USE DEF Nand!Doing, Nand!Arg

\* The tables, and the chip in its table.
LEMMA ChipInTable ==
  ASSUME board \in NandBoards
  PROVE  /\ board.port \in Nand!Controllers /\ board.chip.ext \in 0 .. 255 /\ board.chip.dev \in Nat /\ board.chip.page_size \in Nat
         /\ board.chip.dev \in DOMAIN ChipTable =>
              Nand!Matches(board.chip, ChipTable[board.chip.dev])
              /\ (~WithExtra => ChipTable[board.chip.dev].page_size # 0)
<1>1. PICK table : table = (IF Super THEN Nand!superand_ids ELSE Nand!flash_ids)
  OBVIOUS
<1>2. /\ board.port \in Nand!Controllers /\ board.chip.ext \in 0 .. 255 /\ board.chip.dev \in Nat /\ board.chip.page_size \in Nat
      /\ board.chip.dev \in DOMAIN table => Nand!Matches(board.chip, table[board.chip.dev])
  BY <1>1, NandAssumption DEF Nand!ChipsAreListed, Super
<1>3. CASE Super
  <2>1. ChipTable = Nand!superand_ids
    BY <1>3 DEF ChipTable, TableName, Nand!Table
  <2>2. \A d \in DOMAIN Nand!superand_ids : Nand!superand_ids[d].page_size # 0
    <3>1. \A p \in {Nand!Part({\h51, \h52}, 512, 16 * Nand!MB, 16, 8), Nand!Part({\h53, \h54}, 512, 16 * Nand!MB, 16, 16),
                    Nand!Part({\h49}, 512, 32 * Nand!MB, 16, 8), Nand!Part({\h4a}, 512, 32 * Nand!MB, 16, 16),
                    Nand!Part({\h58}, 512, 64 * Nand!MB, 16, 8), Nand!Part({\h5b}, 512, 64 * Nand!MB, 16, 16)} :
            p.info.page_size # 0
      BY DEF Nand!Part
    <3> QED
      BY <3>1 DEF Nand!superand_ids, Nand!ByDevice
  <2> QED
    BY <1>1, <1>2, <1>3, <2>1, <2>2
<1>4. CASE ~Super /\ WithExtra
  <2>1. ChipTable = Nand!flash_ids
    BY <1>4 DEF ChipTable, WithExtra, Nand!Table
  <2> QED
    BY <1>1, <1>2, <1>4, <2>1
<1>5. CASE ~Super /\ ~WithExtra
  <2>1. TableName = "small"
    BY <1>5 DEF WithExtra, TableName
  <2>2. ChipTable = [d \in {e \in DOMAIN Nand!flash_ids : Nand!flash_ids[e].page_size # 0} |-> Nand!flash_ids[d]]
    BY <2>1 DEF ChipTable, Nand!Table
  <2> QED
    BY <1>1, <1>2, <1>5, <2>2
<1> QED
  BY <1>3, <1>4, <1>5

\* A chip whose page the table tells needs no second look.
LEMMA OneLookIsEnough ==
  ASSUME board \in NandBoards, board.chip.dev \in DOMAIN ChipTable
  PROVE  /\ ChipTable[board.chip.dev].page_size # 0 => InTable = OfChip
         /\ ChipTable[board.chip.dev].page_size = 0 =>
              OfChip = [InTable EXCEPT !.page_size = Nand!PageSize(board.chip.ext),
                                       !.block_size = Nand!BlockSize(board.chip.ext),
                                       !.device_id = @ + 256 * board.chip.ext]
<1>1. PICK info, c : info = ChipTable[board.chip.dev] /\ c = board.chip
  OBVIOUS
<1>2. Nand!Matches(c, info) /\ c.dev \in Nat /\ c.page_size \in Nat
  BY <1>1, ChipInTable
<1>3. c.bits = info.bits /\ c.size = info.size
  BY <1>2 DEF Nand!Matches
<1>4. CASE info.page_size # 0
  <2>1. c.page_size = info.page_size /\ c.page_size <= 512 /\ c.block_size = info.block_size
    BY <1>2, <1>4 DEF Nand!Matches
  <2>2. c.dev + (IF c.page_size > 512 THEN 256 * c.ext ELSE 0) = c.dev
    BY <1>2, <2>1
  <2>3. InTable = OfChip
    BY <1>1, <1>3, <2>1, <2>2 DEF InTable, OfChip
  <2> QED
    BY <1>1, <1>4, <2>3
<1>5. CASE info.page_size = 0
  <2>1. c.page_size = Nand!PageSize(c.ext) /\ c.page_size > 512 /\ c.block_size = Nand!BlockSize(c.ext)
    BY <1>2, <1>5 DEF Nand!Matches
  <2>2. c.dev + (IF c.page_size > 512 THEN 256 * c.ext ELSE 0) = c.dev + 256 * c.ext
    BY <1>2, <2>1
  <2>3. PICK extra : extra = 256 * c.ext
    OBVIOUS
  <2>4. PICK r : r = InTable
    OBVIOUS
  <2>5. /\ r.type = TypeName /\ r.manufacturer = c.mfr /\ r.device_id = c.dev /\ r.bit_width = c.bits /\ r.size = c.size
        /\ r = [x \in EntryFields |-> r[x]]
    BY <1>1, <1>3, <2>4 DEF InTable, EntryFields
  <2>6. OfChip = [type |-> TypeName, manufacturer |-> c.mfr, device_id |-> c.dev + extra, bit_width |-> c.bits,
                  page_size |-> Nand!PageSize(c.ext), size |-> c.size, block_size |-> Nand!BlockSize(c.ext)]
    BY <1>1, <2>1, <2>2, <2>3, Zenon DEF OfChip
  <2>7. [r EXCEPT !.page_size = Nand!PageSize(c.ext), !.block_size = Nand!BlockSize(c.ext), !.device_id = @ + extra]
        = [type |-> TypeName, manufacturer |-> c.mfr, device_id |-> c.dev + extra, bit_width |-> c.bits,
           page_size |-> Nand!PageSize(c.ext), size |-> c.size, block_size |-> Nand!BlockSize(c.ext)]
    <3>1. PICK u, v : u = Nand!PageSize(c.ext) /\ v = Nand!BlockSize(c.ext)
      OBVIOUS
    <3>2. PICK a : a = [r EXCEPT !.page_size = u]
      OBVIOUS
    <3>3. PICK b : b = [a EXCEPT !.block_size = v]
      OBVIOUS
    <3>4. PICK d : d = [b EXCEPT !.device_id = @ + extra]
      OBVIOUS
    <3>5. IsOn(EntryFields, r) /\ IsOn(EntryFields, a) /\ IsOn(EntryFields, b) /\ IsOn(EntryFields, d)
      <4>1. IsOn(EntryFields, r)
        BY <2>5 DEF IsOn
      <4>2. IsOn(EntryFields, a)
        BY <3>2, <4>1, ExceptIsOn
      <4>3. IsOn(EntryFields, b)
        BY <3>3, <4>2, ExceptIsOn
      <4> QED
        BY <3>4, <4>1, <4>2, <4>3, ExceptIsOn
    <3>6. /\ a.page_size = u /\ a.type = TypeName /\ a.manufacturer = c.mfr /\ a.device_id = c.dev
          /\ a.bit_width = c.bits /\ a.size = c.size
      BY <2>5, <3>2, <3>5 DEF IsOn, EntryFields
    <3>7. /\ b.block_size = v /\ b.page_size = u /\ b.type = TypeName /\ b.manufacturer = c.mfr /\ b.device_id = c.dev
          /\ b.bit_width = c.bits /\ b.size = c.size
      BY <3>3, <3>5, <3>6 DEF IsOn, EntryFields
    <3>8. /\ d.block_size = v /\ d.page_size = u /\ d.type = TypeName /\ d.manufacturer = c.mfr /\ d.device_id = c.dev + extra
          /\ d.bit_width = c.bits /\ d.size = c.size
      BY <3>4, <3>5, <3>7 DEF IsOn, EntryFields
    <3>9. PICK g : g = [type |-> TypeName, manufacturer |-> c.mfr, device_id |-> c.dev + extra, bit_width |-> c.bits,
                        page_size |-> u, size |-> c.size, block_size |-> v]
      OBVIOUS
    <3>10. /\ g.block_size = v /\ g.page_size = u /\ g.type = TypeName /\ g.manufacturer = c.mfr
           /\ g.device_id = c.dev + extra /\ g.bit_width = c.bits /\ g.size = c.size /\ IsOn(EntryFields, g)
      BY <3>9 DEF IsOn, EntryFields
    <3>11. \A x \in EntryFields : d[x] = g[x]
      BY <3>8, <3>10 DEF EntryFields
    <3>12. d = g
      BY <3>5, <3>10, <3>11 DEF IsOn
    <3>13. d = [r EXCEPT !.page_size = u, !.block_size = v, !.device_id = @ + extra]
      BY <3>2, <3>3, <3>4, Zenon
    <3> QED
      BY <3>1, <3>9, <3>12, <3>13, Zenon
  <2> QED
    BY <1>1, <1>5, <2>3, <2>4, <2>6, <2>7, ZenonT(60)
<1> QED
  BY <1>1, <1>4, <1>5, Zenon

\* The actions of a call, but for the return and the two looks at the id.
LEMMA NandMoves ==
  ASSUME Nand!Next, result = "none"
  PROVE  /\ board' = board /\ call' = call
         /\ ops = <<>> => UNCHANGED <<entry, ops, bus, hw>> /\ result' = "OK"
         /\ ops # <<>> => \/ ops' = Tail(ops) /\ result' = result
                          \/ ops' = <<>> /\ result' \in {"PROBE_ERROR", "READ_ERROR"} /\ bus' = bus /\ hw' = hw
         /\ ops # <<>> /\ Head(ops)[1] \notin {"identify", "extend", "small_only"} => entry' = entry
<1>1. \A page \in NandAsked : ~Nand!Read(page)
  BY DEF Nand!Read
<1>2. ops # <<>> => ~Nand!Return
  BY DEF Nand!Return
<1>3. ops = <<>> => Nand!Return
  BY <1>1 DEF Nand!Next, Nand!NAND_Ctrl_Command_Write, Nand!NAND_Ctrl_Wait_Ready, Nand!NAND_Ctrl_Check_Status,
              Nand!NAND_Ctrl_Data_Read, Nand!Lookup, Nand!ReadExtraId, Nand!RefuseLarge, Nand!Configure, Nand!Hold,
              Nand!SetAddress, Nand!Execute, Nand!CopyCodeword
<1>4. CASE ops = <<>>
  BY <1>3, <1>4 DEF Nand!Return
<1>5. CASE ops # <<>>
  <2>1. CASE Nand!Lookup \/ Nand!ReadExtraId \/ Nand!RefuseLarge
    BY <1>5, <2>1 DEF Nand!Lookup, Nand!ReadExtraId, Nand!RefuseLarge, Nand!Continue, Nand!Fail
  <2>2. CASE Nand!NAND_Ctrl_Command_Write \/ Nand!NAND_Ctrl_Wait_Ready \/ Nand!NAND_Ctrl_Data_Read \/ Nand!Configure
             \/ Nand!Hold \/ Nand!SetAddress \/ Nand!Execute \/ Nand!CopyCodeword
    BY <1>5, <2>2 DEF Nand!Continue, Nand!NAND_Ctrl_Command_Write, Nand!NAND_Ctrl_Wait_Ready,
       Nand!NAND_Ctrl_Data_Read, Nand!Configure, Nand!Hold, Nand!SetAddress, Nand!Execute, Nand!CopyCodeword
  <2>3. CASE Nand!NAND_Ctrl_Check_Status
    BY <1>5, <2>3 DEF Nand!Continue, Nand!Fail, Nand!NAND_Ctrl_Check_Status
  <2> QED
    BY <1>1, <1>2, <1>5, <2>1, <2>2, <2>3 DEF Nand!Next
<1> QED
  BY <1>4, <1>5

\* What a step does to the registers of the controller.
LEMMA RegistersMove ==
  ASSUME Nand!Next, NandTypes
  PROVE  /\ IsOn(HwFields, hw')
         /\ hw'.held = IF ops # <<>> /\ Head(ops)[1] = "hold" THEN Head(ops)[2] ELSE hw.held
<1>1. IsOn(HwFields, hw)
  BY DEF NandTypes
<1>2. CASE hw' = hw /\ (ops = <<>> \/ Head(ops)[1] # "hold")
  BY <1>2, <1>1
<1>3. CASE Nand!Configure
  <2>1. PICK z : \/ hw' = [hw EXCEPT !.width = z] \/ hw' = [hw EXCEPT !.large = z] \/ hw' = [hw EXCEPT !.per_page = z]
                 \/ \E y : hw' = [hw EXCEPT !.large = y, !.width = z]
    <3>1. CASE hw' = [hw EXCEPT !.width = entry.bit_width]
      BY <3>1, ZenonT(60)
    <3>2. CASE hw' = [hw EXCEPT !.large = entry.page_size > 512]
      BY <3>2, ZenonT(60)
    <3>3. CASE hw' = [hw EXCEPT !.per_page = 1 + (((entry.page_size \div 512) - 1) % 8)]
      <4>1. PICK q : q = 1 + (((entry.page_size \div 512) - 1) % 8)
        OBVIOUS
      <4>2. hw' = [hw EXCEPT !.per_page = q]
        BY <3>3, <4>1
      <4> QED
        BY <4>2, Zenon
    <3>4. CASE hw' = [hw EXCEPT !.large = Nand!chip.page_size > 512, !.width = Nand!chip.bits]
      <4>1. PICK l, w : l = (Nand!chip.page_size > 512) /\ w = Nand!chip.bits
        OBVIOUS
      <4>2. hw' = [hw EXCEPT !.large = l, !.width = w]
        BY <3>4, <4>1
      <4> QED
        BY <4>2, Zenon
    <3> QED
      BY <1>3, <3>1, <3>2, <3>3, <3>4, ZenonT(60) DEF Nand!Configure
  <2>2. Head(ops)[1] # "hold"
    BY <1>3 DEF Nand!Configure
  <2>3. CASE \E y : hw' = [hw EXCEPT !.large = y, !.width = z]
    <3>1. PICK y : hw' = [hw EXCEPT !.large = y, !.width = z]
      BY <2>3
    <3>2. PICK a : a = [hw EXCEPT !.large = y]
      OBVIOUS
    <3>3. hw' = [a EXCEPT !.width = z]
      BY <3>1, <3>2
    <3>4. IsOn(HwFields, a) /\ IsOn(HwFields, hw')
      BY <1>1, <3>2, <3>3, ExceptIsOn
    <3>5. hw'.held = hw.held
      BY <1>1, <3>1 DEF IsOn, HwFields
    <3> QED
      BY <2>2, <3>4, <3>5
  <2>4. CASE hw' = [hw EXCEPT !.width = z] \/ hw' = [hw EXCEPT !.large = z] \/ hw' = [hw EXCEPT !.per_page = z]
    <3>1. IsOn(HwFields, hw')
      BY <1>1, <2>4, ExceptIsOn
    <3>2. hw'.held = hw.held
      BY <1>1, <2>4 DEF IsOn, HwFields
    <3> QED
      BY <2>2, <3>1, <3>2
  <2> QED
    BY <2>1, <2>3, <2>4
<1>4. CASE Nand!Hold
  <2>1. hw' = [hw EXCEPT !.held = Head(ops)[2]] /\ ops # <<>> /\ Head(ops)[1] = "hold"
    BY <1>4 DEF Nand!Hold, Nand!Held
  <2>2. IsOn(HwFields, hw')
    BY <1>1, <2>1, ExceptIsOn
  <2>3. hw'.held = Head(ops)[2]
    BY <1>1, <2>1 DEF IsOn, HwFields
  <2> QED
    BY <2>1, <2>2, <2>3
<1>5. CASE Nand!SetAddress
  <2>1. PICK k, v : k = Head(ops)[2] /\ hw' = [hw EXCEPT ![k] = v, !.next = 0] /\ Head(ops)[1] = "set" /\ ops # <<>>
    <3>1. PICK v : hw' = [hw EXCEPT ![Head(ops)[1 + 1]] = v, !.next = 0]
      BY <1>5, Zenon DEF Nand!SetAddress
    <3>2. Head(ops)[1] = "set" /\ ops # <<>>
      BY <1>5 DEF Nand!SetAddress
    <3>3. Head(ops)[1 + 1] = Head(ops)[2]
      OBVIOUS
    <3> QED
      BY <3>1, <3>2, <3>3, Zenon
  <2>2. k \in {"addr1", "addr2", "page"}
    <3>1. IsList(ops) /\ Fine(call.kind, ops[1])
      <4>1. IsList(ops) /\ \A i \in 1 .. Len(ops) : Fine(call.kind, ops[i])
        BY DEF NandTypes, AllFine
      <4>2. Len(ops) \in Nat \ {0}
        BY <2>1, <4>1, TailIs
      <4>3. 1 \in 1 .. Len(ops)
        BY <4>2
      <4> QED
        BY <4>1, <4>3
    <3>2. Head(ops) = ops[1]
      BY <2>1, <3>1, TailIs
    <3> QED
      BY <2>1, <3>1, <3>2 DEF Fine
  <2>3. PICK a : a = [hw EXCEPT ![k] = v]
    OBVIOUS
  <2>4. hw' = [a EXCEPT !.next = 0]
    BY <2>1, <2>3
  <2>5. IsOn(HwFields, a) /\ IsOn(HwFields, hw')
    BY <1>1, <2>3, <2>4, ExceptIsOn
  <2>6. a.held = hw.held
    BY <1>1, <2>2, <2>3 DEF IsOn, HwFields
  <2>7. hw'.held = a.held
    BY <2>4, <2>5 DEF IsOn, HwFields
  <2> QED
    BY <2>1, <2>5, <2>6, <2>7
<1>6. CASE Nand!Execute
  <2>1. PICK y, z : hw' = [hw EXCEPT !.buffer = y, !.next = z] /\ Head(ops)[1] = "exec"
    BY <1>6 DEF Nand!Execute
  <2>2. PICK a : a = [hw EXCEPT !.buffer = y]
    OBVIOUS
  <2>3. hw' = [a EXCEPT !.next = z]
    BY <2>1, <2>2
  <2>4. IsOn(HwFields, a) /\ IsOn(HwFields, hw')
    BY <1>1, <2>2, <2>3, ExceptIsOn
  <2>5. hw'.held = hw.held
    BY <1>1, <2>1 DEF IsOn, HwFields
  <2> QED
    BY <2>1, <2>4, <2>5
<1> QED
  <2>1. result # "none" => ops = <<>>
    BY DEF NandTypes
  <2>2. \/ hw' = hw /\ (ops = <<>> \/ Head(ops)[1] # "hold")
        \/ Nand!Configure \/ Nand!Hold \/ Nand!SetAddress \/ Nand!Execute
    BY <2>1 DEF Nand!Next, Nand!Read, Nand!Return, Nand!NAND_Ctrl_Command_Write, Nand!NAND_Ctrl_Wait_Ready,
           Nand!NAND_Ctrl_Check_Status, Nand!NAND_Ctrl_Data_Read, Nand!Lookup, Nand!ReadExtraId, Nand!RefuseLarge,
           Nand!CopyCodeword, Nand!Fail
  <2> QED
    BY <1>2, <1>3, <1>4, <1>5, <1>6, <2>2

\* What a step does to the state of the chip.
LEMMA ChipMoves ==
  ASSUME Nand!Next, NandTypes
  PROVE  /\ IsOn(BusFields, bus')
         /\ bus'.open = IF ops # <<>> /\ Head(ops)[1] = "send"
                        THEN Head(ops)[2] = "READ" \/ (bus.open /\ Head(ops)[2] # "READ_EXIT") ELSE bus.open
<1>1. IsOn(BusFields, bus) /\ bus.open \in BOOLEAN
  BY DEF NandTypes
<1>2. CASE bus' = bus /\ (ops = <<>> \/ Head(ops)[1] # "send")
  BY <1>1, <1>2
<1>3. CASE Nand!NAND_Ctrl_Command_Write
  <2>1. PICK cmd, bytes : cmd = Head(ops)[2] /\ bytes = Head(ops)[3]
    OBVIOUS
  <2>2. bus' = Nand!Latched(cmd, bytes) /\ ops # <<>> /\ Head(ops)[1] = "send"
    BY <1>3, <2>1 DEF Nand!NAND_Ctrl_Command_Write
  <2>3. CASE cmd = "READSTART"
    <3>1. PICK z : bus' = [bus EXCEPT !.cmd = z, !.taken = 0, !.ready = FALSE]
      BY <2>2, <2>3 DEF Nand!Latched
    <3>2. PICK a : a = [bus EXCEPT !.cmd = z]
      OBVIOUS
    <3>3. PICK b : b = [a EXCEPT !.taken = 0]
      OBVIOUS
    <3>4. bus' = [b EXCEPT !.ready = FALSE]
      BY <3>1, <3>2, <3>3
    <3>5. IsOn(BusFields, a) /\ IsOn(BusFields, b) /\ IsOn(BusFields, bus')
      BY <1>1, <3>2, <3>3, <3>4, ExceptIsOn
    <3>6. bus'.open = bus.open
      BY <1>1, <3>1 DEF IsOn, BusFields
    <3> QED
      BY <1>1, <2>1, <2>2, <2>3, <3>5, <3>6
  <2>4. CASE cmd = "READ_EXIT"
    <3>1. bus' = [bus EXCEPT !.cmd = "none", !.open = FALSE]
      BY <2>2, <2>4 DEF Nand!Latched
    <3>2. PICK a : a = [bus EXCEPT !.cmd = "none"]
      OBVIOUS
    <3>3. bus' = [a EXCEPT !.open = FALSE]
      BY <3>1, <3>2
    <3>4. IsOn(BusFields, a) /\ IsOn(BusFields, bus')
      BY <1>1, <3>2, <3>3, ExceptIsOn
    <3>5. bus'.open = FALSE
      BY <1>1, <3>1 DEF IsOn, BusFields
    <3> QED
      BY <2>1, <2>2, <2>4, <3>4, <3>5
  <2>5. CASE cmd # "READSTART" /\ cmd # "READ_EXIT"
    <3>1. bus' = [cmd |-> cmd, addr |-> bytes, taken |-> 0, ready |-> cmd = "READID",
                  open |-> bus.open \/ cmd = "READ"]
      BY <2>2, <2>5 DEF Nand!Latched
    <3>2. IsOn(BusFields, bus')
      BY <3>1 DEF IsOn, BusFields
    <3>3. bus'.open = (bus.open \/ cmd = "READ")
      BY <3>1
    <3>4. bus'.open = (cmd = "READ" \/ (bus.open /\ cmd # "READ_EXIT"))
      BY <2>5, <3>3
    <3> QED
      BY <2>1, <2>2, <3>2, <3>4
  <2> QED
    BY <2>3, <2>4, <2>5
<1>4. CASE /\ ops # <<>> /\ Head(ops)[1] # "send"
           /\ \E z : bus' = [bus EXCEPT !.ready = TRUE] \/ bus' = [bus EXCEPT !.taken = z]
  <2>1. PICK z : bus' = [bus EXCEPT !.ready = TRUE] \/ bus' = [bus EXCEPT !.taken = z]
    BY <1>4
  <2>2. IsOn(BusFields, bus')
    BY <1>1, <2>1, ExceptIsOn
  <2>3. bus'.open = bus.open
    BY <1>1, <2>1 DEF IsOn, BusFields
  <2> QED
    BY <1>4, <2>2, <2>3
<1>5. CASE Nand!SetAddress
  <2>1. PICK x, y : bus' = [bus EXCEPT !.cmd = x, !.addr = y, !.taken = 0, !.ready = FALSE]
    BY <1>5 DEF Nand!SetAddress
  <2>2. PICK a : a = [bus EXCEPT !.cmd = x]
    OBVIOUS
  <2>3. PICK b : b = [a EXCEPT !.addr = y]
    OBVIOUS
  <2>4. PICK c : c = [b EXCEPT !.taken = 0]
    OBVIOUS
  <2>5. bus' = [c EXCEPT !.ready = FALSE]
    BY <2>1, <2>2, <2>3, <2>4
  <2>6. IsOn(BusFields, a) /\ IsOn(BusFields, b) /\ IsOn(BusFields, c) /\ IsOn(BusFields, bus')
    BY <1>1, <2>2, <2>3, <2>4, <2>5, ExceptIsOn
  <2>7. bus'.open = bus.open
    BY <1>1, <2>1 DEF IsOn, BusFields
  <2>8. Head(ops)[1] # "send"
    BY <1>5 DEF Nand!SetAddress
  <2> QED
    BY <2>6, <2>7, <2>8
<1>6. CASE Nand!Lookup \/ Nand!ReadExtraId
  <2>1. bus' = bus \/ \E z : bus' = [bus EXCEPT !.taken = z]
    BY <1>6 DEF Nand!Lookup, Nand!ReadExtraId, Nand!Fail
  <2>2. ops # <<>> /\ Head(ops)[1] # "send"
    BY <1>6 DEF Nand!Lookup, Nand!ReadExtraId
  <2> QED
    BY <1>2, <1>4, <2>1, <2>2
<1>7. CASE Nand!NAND_Ctrl_Wait_Ready \/ Nand!NAND_Ctrl_Data_Read \/ Nand!Execute
  BY <1>4, <1>7 DEF Nand!NAND_Ctrl_Wait_Ready, Nand!NAND_Ctrl_Data_Read, Nand!Execute
<1>8. CASE \/ \E page \in NandAsked : Nand!Read(page)
           \/ Nand!Return \/ Nand!NAND_Ctrl_Check_Status \/ Nand!RefuseLarge \/ Nand!Configure \/ Nand!Hold
           \/ Nand!CopyCodeword
  <2>1. result # "none" => ops = <<>>
    BY DEF NandTypes
  <2>2. bus' = bus /\ (ops = <<>> \/ Head(ops)[1] # "send")
    BY <1>8, <2>1 DEF Nand!Read, Nand!Return, Nand!NAND_Ctrl_Check_Status, Nand!RefuseLarge, Nand!Configure, Nand!Hold,
       Nand!CopyCodeword, Nand!Fail
  <2> QED
    BY <1>2, <2>2
<1> QED
  BY <1>3, <1>5, <1>6, <1>7, <1>8 DEF Nand!Next

\* What is left of a list of a kind is of that kind.
LEMMA TailFine ==
  ASSUME NEW k, NEW s, AllFine(k, s), s # <<>>
  PROVE  Fine(k, Head(s)) /\ AllFine(k, Tail(s))
<1>1. PICK n \in Nat \ {0} : n = Len(s) /\ n - 1 = Len(Tail(s))
  BY TailIs DEF AllFine
<1>2. IsList(Tail(s)) /\ Head(s) = s[1] /\ \A i \in 1 .. n - 1 : Tail(s)[i] = s[i + 1]
  BY <1>1, TailIs DEF AllFine
<1>3. \A i \in 1 .. n : Fine(k, s[i])
  BY <1>1 DEF AllFine
<1>4. Fine(k, s[1]) /\ \A i \in 1 .. n - 1 : Fine(k, s[i + 1])
  <2>1. 1 \in 1 .. n /\ \A i \in 1 .. n - 1 : i + 1 \in 1 .. n
    OBVIOUS
  <2> QED
    BY <1>3, <2>1
<1> QED
  BY <1>1, <1>2, <1>4 DEF AllFine

\* The empty list takes nothing and gives nothing.
LEMMA EmptyQuiet ==
  ASSUME NEW k
  PROVE  AllFine(k, <<>>) /\ AllPlain(k, <<>>) /\ Quiet(k, <<>>)
<1>1. AllPlain(k, <<>>)
  <2>1. IsList(<<>>) /\ Len(<<>>) = 0
    BY OneElement
  <2>2. \A i \in 1 .. 0 : Plain(k, <<>>[i])
    OBVIOUS
  <2> QED
    BY <2>1, <2>2 DEF AllPlain
<1> QED
  BY <1>1, PlainOwesNothing

\* What is left of a list gives back what it takes, and what the operation before it took.
LEMMA TailQuiet ==
  ASSUME NEW k, NEW s, Quiet(k, s), s # <<>>
  PROVE  /\ Quiet(k, Tail(s))
         /\ HasGive(s) => Gives(Head(s)) \/ HasGive(Tail(s))
         /\ Takes(Head(s)) => Keeper /\ HasGive(Tail(s))
<1>1. AllFine(k, s) /\ Followed(s) /\ AllFine(k, Tail(s))
  BY TailFine DEF Quiet
<1>2. PICK n \in Nat \ {0} : n = Len(s) /\ n - 1 = Len(Tail(s))
  BY <1>1, TailIs DEF AllFine
<1>3. IsList(s) /\ IsList(Tail(s)) /\ Head(s) = s[1] /\ \A i \in 1 .. n - 1 : Tail(s)[i] = s[i + 1]
  BY <1>1, <1>2, TailIs DEF AllFine
<1>4. /\ 1 \in 1 .. n /\ \A i \in 1 .. n - 1 : i + 1 \in 1 .. n
      /\ \A i \in 1 .. n : i = 1 \/ (i - 1 \in 1 .. n - 1 /\ (i - 1) + 1 = i)
      /\ \A i \in 1 .. n - 1, j \in 1 .. n : i + 1 < j => i < j - 1 /\ j # 1
      /\ \A j \in 1 .. n : 1 < j => j # 1
  OBVIOUS
<1>5. \A i \in 1 .. n : Takes(s[i]) => \E j \in 1 .. n : i < j /\ Gives(s[j])
  BY <1>1, <1>2 DEF Followed
<1>6. ASSUME NEW j \in 1 .. n, Gives(s[j]) PROVE Gives(Head(s)) \/ HasGive(Tail(s))
  BY <1>2, <1>3, <1>4, <1>6 DEF HasGive
<1>7. HasGive(s) => Gives(Head(s)) \/ HasGive(Tail(s))
  BY <1>2, <1>6 DEF HasGive
<1>8. ASSUME Takes(Head(s)) PROVE Keeper /\ HasGive(Tail(s))
  <2>1. PICK j \in 1 .. n : 1 < j /\ Gives(s[j])
    BY <1>3, <1>4, <1>5, <1>8
  <2>2. j - 1 \in 1 .. n - 1 /\ Tail(s)[j - 1] = s[j]
    BY <1>3, <1>4, <2>1
  <2>3. HasGive(Tail(s))
    BY <1>2, <2>1, <2>2 DEF HasGive
  <2>4. AllPlain(k, s) => ~Takes(s[1])
    BY <1>2, <1>4 DEF AllPlain, Plain
  <2> QED
    BY <1>3, <1>8, <2>3, <2>4 DEF Quiet
<1>9. Followed(Tail(s))
  <2> SUFFICES ASSUME NEW i \in 1 .. n - 1, Takes(Tail(s)[i])
               PROVE  \E j \in 1 .. n - 1 : i < j /\ Gives(Tail(s)[j])
    BY <1>2 DEF Followed
  <2>1. Takes(s[i + 1])
    BY <1>3
  <2>2. PICK j \in 1 .. n : i + 1 < j /\ Gives(s[j])
    BY <1>4, <1>5, <2>1
  <2>3. j - 1 \in 1 .. n - 1 /\ i < j - 1 /\ Tail(s)[j - 1] = s[j]
    BY <1>3, <1>4, <2>2
  <2> QED
    BY <2>2, <2>3
<1>10. AllPlain(k, s) => AllPlain(k, Tail(s))
  <2> SUFFICES ASSUME AllPlain(k, s) PROVE AllPlain(k, Tail(s))
    OBVIOUS
  <2>1. \A i \in 1 .. n : Plain(k, s[i])
    BY <1>2 DEF AllPlain
  <2>2. \A i \in 1 .. n - 1 : Plain(k, Tail(s)[i])
    BY <1>3, <1>4, <2>1
  <2> QED
    BY <1>2, <1>3, <2>2 DEF AllPlain
<1> QED
  BY <1>1, <1>7, <1>8, <1>9, <1>10 DEF Quiet

\* Until the chip is looked up, what is left of a probe looks it up.
LEMMA TailIdentifies ==
  ASSUME NEW s, NEW p \in Nat, IdentifyAt(s, p), p # 1
  PROVE  /\ s # <<>> /\ Fine("read", Head(s)) /\ p - 1 \in Nat /\ IdentifyAt(Tail(s), p - 1)
         /\ p - 1 = 1 => Head(s) = ReadIdOp
<1>1. /\ IsList(s) /\ p \in 1 .. Len(s) /\ s[p] = IdentifyOp /\ s[p - 1] = ReadIdOp
      /\ \A i \in 1 .. p - 1 : Fine("read", s[i])
      /\ WithExtra => p + 1 <= Len(s) /\ s[p + 1] = ExtraOp
      /\ \A i \in p + 1 .. Len(s) : (i = p + 1 /\ WithExtra) \/ Fine("read", s[i])
  <2>1. p > 1
    <3>1. p \in 1 .. Len(s)
      BY DEF IdentifyAt
    <3> QED
      BY <3>1
  <2> QED
    BY <2>1 DEF IdentifyAt
<1>2. s # <<>>
  <2>1. Len(<<>>) = 0
    BY OneElement
  <2> QED
    BY <1>1, <2>1
<1>3. PICK n \in Nat \ {0} : n = Len(s) /\ n - 1 = Len(Tail(s))
  BY <1>1, <1>2, TailIs
<1>4. PICK t : t = Tail(s) /\ IsList(t) /\ Len(t) = n - 1 /\ Head(s) = s[1] /\ \A i \in 1 .. n - 1 : t[i] = s[i + 1]
  BY <1>1, <1>2, <1>3, TailIs
<1>5. /\ p \in 2 .. n /\ p - 1 \in 1 .. n - 1 /\ (p - 1) + 1 = p /\ 1 \in 1 .. p - 1 /\ p + 1 \in 1 .. n + 1
  BY <1>1, <1>3
<1>6. t[p - 1] = IdentifyOp
  BY <1>1, <1>4, <1>5
<1>7. p - 1 > 1 => t[(p - 1) - 1] = ReadIdOp
  <2> SUFFICES ASSUME p - 1 > 1 PROVE t[(p - 1) - 1] = ReadIdOp
    OBVIOUS
  <2>1. (p - 1) - 1 \in 1 .. n - 1 /\ ((p - 1) - 1) + 1 = p - 1
    BY <1>5
  <2> QED
    BY <1>1, <1>4, <2>1
<1>8. \A i \in 1 .. (p - 1) - 1 : Fine("read", t[i])
  <2>1. \A i \in 1 .. (p - 1) - 1 : i + 1 \in 1 .. p - 1 /\ i \in 1 .. n - 1
    BY <1>5
  <2> QED
    BY <1>1, <1>4, <2>1
<1>9. WithExtra => (p - 1) + 1 <= n - 1 /\ t[(p - 1) + 1] = ExtraOp
  <2> SUFFICES ASSUME WithExtra PROVE (p - 1) + 1 <= n - 1 /\ t[(p - 1) + 1] = ExtraOp
    OBVIOUS
  <2>1. p + 1 <= n /\ p \in 1 .. n - 1
    BY <1>1, <1>3, <1>5
  <2>2. t[p] = ExtraOp
    BY <1>1, <1>4, <2>1
  <2> QED
    BY <1>5, <2>1, <2>2
<1>10. \A i \in (p - 1) + 1 .. n - 1 : (i = (p - 1) + 1 /\ WithExtra) \/ Fine("read", t[i])
  <2>1. \A i \in (p - 1) + 1 .. n - 1 : i + 1 \in p + 1 .. n /\ i \in 1 .. n - 1 /\ (i + 1 = p + 1 => i = (p - 1) + 1)
    BY <1>5
  <2>2. \A i \in p + 1 .. n : (i = p + 1 /\ WithExtra) \/ Fine("read", s[i])
    BY <1>1, <1>3
  <2> QED
    BY <1>4, <2>1, <2>2
<1>11. IdentifyAt(t, p - 1)
  <2>1. p - 1 \in 1 .. Len(t) /\ \A i \in (p - 1) + 1 .. Len(t) : (i = (p - 1) + 1 /\ WithExtra) \/ Fine("read", t[i])
    BY <1>4, <1>5, <1>10
  <2>2. WithExtra => (p - 1) + 1 <= Len(t) /\ t[(p - 1) + 1] = ExtraOp
    BY <1>4, <1>9
  <2> QED
    BY <1>4, <1>6, <1>7, <1>8, <2>1, <2>2 DEF IdentifyAt
<1>12. p - 1 = 1 => Head(s) = ReadIdOp
  BY <1>1, <1>4
<1>13. Fine("read", Head(s))
  BY <1>1, <1>4, <1>5
<1> QED
  BY <1>2, <1>4, <1>5, <1>11, <1>12, <1>13

\* Behind the look-up nothing is looked up, but what its entry leaves open.
LEMMA BehindLookup ==
  ASSUME NEW s, IdentifyAt(s, 1)
  PROVE  /\ s # <<>> /\ Head(s) = IdentifyOp
         /\ WithExtra => Tail(s) # <<>> /\ Head(Tail(s)) = ExtraOp /\ AllFine("read", Tail(Tail(s)))
         /\ ~WithExtra => AllFine("read", Tail(s))
<1>1. /\ IsList(s) /\ 1 \in 1 .. Len(s) /\ s[1] = IdentifyOp
      /\ WithExtra => 2 <= Len(s) /\ s[2] = ExtraOp
      /\ \A i \in 2 .. Len(s) : (i = 2 /\ WithExtra) \/ Fine("read", s[i])
  <2>1. 1 + 1 = 2
    OBVIOUS
  <2> QED
    BY <2>1 DEF IdentifyAt
<1>2. s # <<>>
  <2>1. Len(<<>>) = 0
    BY OneElement
  <2> QED
    BY <1>1, <2>1
<1>3. PICK n \in Nat \ {0} : n = Len(s) /\ n - 1 = Len(Tail(s))
  BY <1>1, <1>2, TailIs
<1>4. PICK t : t = Tail(s) /\ IsList(t) /\ Len(t) = n - 1 /\ Head(s) = s[1] /\ \A i \in 1 .. n - 1 : t[i] = s[i + 1]
  BY <1>1, <1>2, <1>3, TailIs
<1>5. \A i \in 2 .. n : (i = 2 /\ WithExtra) \/ Fine("read", s[i])
  BY <1>1, <1>3
<1>6. CASE WithExtra
  <2>1. n >= 2 /\ 1 \in 1 .. n - 1 /\ s[2] = ExtraOp
    BY <1>1, <1>3, <1>6
  <2>2. t # <<>>
    <3>1. Len(<<>>) = 0
      BY OneElement
    <3>2. n - 1 # 0
      BY <2>1
    <3>3. Len(t) # 0
      BY <1>4, <3>2
    <3> QED
      BY <3>1, <3>3, Zenon
  <2>3. PICK u : u = Tail(t) /\ IsList(u) /\ Len(u) = Len(t) - 1 /\ Head(t) = t[1] /\ \A i \in 1 .. Len(t) - 1 : u[i] = t[i + 1]
    BY <1>4, <2>2, TailIs, ZenonT(60)
  <2>4. Len(u) = n - 2 /\ \A i \in 1 .. n - 2 : u[i] = t[i + 1]
    BY <1>4, <2>3
  <2>5. Head(t) = ExtraOp
    <3>1. t[1] = s[1 + 1] /\ 1 + 1 = 2
      BY <1>4, <2>1
    <3> QED
      BY <2>1, <2>3, <3>1
  <2>6. ASSUME NEW i \in 1 .. n - 2 PROVE Fine("read", u[i])
    <3>1. i + 1 \in 1 .. n - 1 /\ (i + 1) + 1 \in 2 .. n /\ (i + 1) + 1 # 2
      BY <2>1
    <3> QED
      BY <1>4, <1>5, <2>4, <3>1
  <2>7. AllFine("read", u)
    BY <2>3, <2>4, <2>6 DEF AllFine
  <2> QED
    BY <1>1, <1>2, <1>4, <1>6, <2>2, <2>3, <2>5, <2>7
<1>7. CASE ~WithExtra
  <2>1. ASSUME NEW i \in 1 .. n - 1 PROVE Fine("read", t[i])
    <3>1. i + 1 \in 2 .. n
      OBVIOUS
    <3> QED
      BY <1>4, <1>5, <1>7, <3>1
  <2>2. AllFine("read", t)
    BY <1>4, <2>1 DEF AllFine
  <2> QED
    BY <1>1, <1>2, <1>4, <1>7, <2>2
<1> QED
  BY <1>6, <1>7

\* The board is what it was, and what is said of it.
LEMMA BoardStays ==
  ASSUME board' = board
  PROVE  /\ Super' = Super /\ Keeper' = Keeper /\ WithExtra' = WithExtra /\ TableName' = TableName
         /\ ExtraOp' = ExtraOp /\ IdentifyOp' = IdentifyOp
         /\ ChipTable' = ChipTable /\ InTable' = InTable /\ OfChip' = OfChip
<1>1. /\ Super' = Super /\ Keeper' = Keeper /\ WithExtra' = WithExtra /\ TableName' = TableName
      /\ ExtraOp' = ExtraOp /\ IdentifyOp' = IdentifyOp
  BY DEF Super, Keeper, WithExtra, TableName, ExtraOp, IdentifyOp, Nand!Axi
<1>2. ChipTable' = ChipTable
  BY <1>1 DEF ChipTable, Nand!Table
<1>3. InTable' = InTable /\ OfChip' = OfChip
  BY <1>1, <1>2 DEF InTable, OfChip, TypeName
<1> QED
  BY <1>1, <1>2, <1>3

\* So a list after a step is judged as before it.
LEMMA ListsJudged ==
  ASSUME board' = board
  PROVE  /\ AllFine(call'.kind, ops') => AllFine(call.kind, ops)'
         /\ AllFine("read", ops') => AllFine("read", ops)'
         /\ Quiet(call'.kind, ops') => Quiet(call.kind, ops)'
         /\ HasGive(ops') => HasGive(ops)'
         /\ \A p : IdentifyAt(ops', p) => IdentifyAt(ops, p)'
<1>1. Super' = Super /\ Keeper' = Keeper /\ WithExtra' = WithExtra /\ ExtraOp' = ExtraOp /\ IdentifyOp' = IdentifyOp
  BY BoardStays
<1>2. AllFine(call'.kind, ops') => AllFine(call.kind, ops)'
  BY <1>1 DEF AllFine, Fine, IsList
<1>3. AllFine("read", ops') => AllFine("read", ops)'
  BY <1>1 DEF AllFine, Fine, IsList
<1>4. HasGive(ops') => HasGive(ops)'
  BY <1>1 DEF HasGive, Gives
<1>5. Followed(ops') => Followed(ops)'
  BY <1>1 DEF Followed, Takes, Gives
<1>6. AllPlain(call'.kind, ops') => AllPlain(call.kind, ops)'
  BY <1>1 DEF AllPlain, Plain, Fine, Takes, IsList
<1>7. Quiet(call'.kind, ops') => Quiet(call.kind, ops)'
  BY <1>1, <1>2, <1>5, <1>6 DEF Quiet
<1>8. \A p : IdentifyAt(ops', p) => IdentifyAt(ops, p)'
  BY <1>1 DEF IdentifyAt, Fine, IsList, ReadIdOp
<1> QED
  BY <1>2, <1>3, <1>4, <1>7, <1>8

\* The driver reads only what a probe has found.
LEMMA ReadBegins ==
  ASSUME NandInv, NEW page, Nand!Read(page)
  PROVE  /\ board' = board /\ entry' = entry /\ bus' = bus /\ hw' = hw /\ result' = "none" /\ call'.kind = "read"
         /\ entry = OfChip /\ result # "none"
         /\ Quiet("read", ops') /\ (Keeper => HasGive(ops'))
<1>1. entry = OfChip /\ board \in NandBoards
  BY DEF NandInv, ProbeInv, NandTypes, Nand!Read
<1>2. entry.page_size \in Nat
  BY <1>1, ChipInTable DEF OfChip
<1>3. Quiet("read", Nand!ReadOps(page)) /\ (Keeper => HasGive(Nand!ReadOps(page)))
  BY <1>1, <1>2, ChipInTable, ReadQuiet
<1> QED
  BY <1>1, <1>3 DEF Nand!Read

\* Every step keeps what the chip and the controller are made of.
LEMMA NandTypesKept ==
  ASSUME NandInv, Nand!Next
  PROVE  NandTypes' /\ board' = board
<1>1. NandTypes
  BY DEF NandInv
<1>2. IsOn(BusFields, bus)' /\ IsOn(HwFields, hw)'
  BY <1>1, RegistersMove, ChipMoves DEF IsOn
<1>3. AllFine(call.kind, ops) /\ (result # "none" => ops = <<>>)
  BY <1>1 DEF NandTypes
<1>4. (bus.open \in BOOLEAN)' /\ (hw.held \in BOOLEAN)'
  <2>1. hw'.held \in BOOLEAN
    <3>1. CASE ops # <<>> /\ Head(ops)[1] = "hold"
      <4>1. hw'.held = Head(ops)[2] /\ Fine(call.kind, Head(ops))
        BY <1>1, <1>3, <3>1, RegistersMove, TailFine
      <4> QED
        BY <3>1, <4>1 DEF Fine
    <3>2. CASE ~(ops # <<>> /\ Head(ops)[1] = "hold")
      BY <1>1, <3>2, RegistersMove DEF NandTypes
    <3> QED
      BY <3>1, <3>2
  <2>2. bus'.open \in BOOLEAN
    <3>1. CASE ops # <<>> /\ Head(ops)[1] = "send"
      <4>1. bus'.open = (Head(ops)[2] = "READ" \/ (bus.open /\ Head(ops)[2] # "READ_EXIT"))
        BY <1>1, <3>1, ChipMoves
      <4> QED
        BY <4>1, Zenon
    <3>2. CASE ~(ops # <<>> /\ Head(ops)[1] = "send")
      BY <1>1, <3>2, ChipMoves DEF NandTypes
    <3> QED
      BY <3>1, <3>2
  <2> QED
    BY <2>1, <2>2
<1>5. CASE \E page \in NandAsked : Nand!Read(page)
  <2>1. PICK page \in NandAsked : Nand!Read(page)
    BY <1>5
  <2>2. board' = board /\ call'.kind = "read" /\ result' = "none" /\ AllFine("read", ops')
    BY <2>1, ReadBegins DEF Quiet
  <2>3. AllFine(call.kind, ops)'
    BY <2>2, ListsJudged
  <2> QED
    BY <1>1, <1>2, <1>4, <2>2, <2>3 DEF NandTypes
<1>6. CASE \A page \in NandAsked : ~Nand!Read(page)
  <2>1. result = "none"
    BY <1>3, <1>6 DEF Nand!Next, Nand!Return, Nand!NAND_Ctrl_Command_Write, Nand!NAND_Ctrl_Wait_Ready,
              Nand!NAND_Ctrl_Check_Status,
              Nand!NAND_Ctrl_Data_Read, Nand!Lookup, Nand!ReadExtraId, Nand!RefuseLarge, Nand!Configure, Nand!Hold,
              Nand!SetAddress, Nand!Execute, Nand!CopyCodeword
  <2>2. board' = board /\ call' = call
    BY <2>1, NandMoves
  <2>3. AllFine(call'.kind, ops') /\ (result' # "none" => ops' = <<>>)
    <3>1. AllFine(call.kind, <<>>)
      BY EmptyQuiet
    <3>2. ops # <<>> => AllFine(call.kind, Tail(ops))
      BY <1>3, TailFine
    <3> QED
      BY <2>1, <2>2, <3>1, <3>2, NandMoves
  <2>4. AllFine(call.kind, ops)'
    BY <2>2, <2>3, ListsJudged
  <2> QED
    BY <1>1, <1>2, <1>4, <2>2, <2>3, <2>4 DEF NandTypes
<1> QED
  BY <1>5, <1>6

\* While a call runs, the next operation says which step is taken.
LEMMA NandByOne ==
  ASSUME Nand!Next, result = "none", ops # <<>>
  PROVE  /\ Head(ops)[1] = "send" => Nand!NAND_Ctrl_Command_Write
         /\ Head(ops)[1] = "identify" => Nand!Lookup
         /\ Head(ops)[1] = "extend" => Nand!ReadExtraId
         /\ Head(ops)[1] = "small_only" => Nand!RefuseLarge
<1>1. Head(ops)[1] = "send" => Nand!NAND_Ctrl_Command_Write
  BY DEF Nand!Next, Nand!Read, Nand!Return, Nand!NAND_Ctrl_Command_Write, Nand!NAND_Ctrl_Wait_Ready,
         Nand!NAND_Ctrl_Check_Status, Nand!NAND_Ctrl_Data_Read, Nand!Lookup, Nand!ReadExtraId, Nand!RefuseLarge,
         Nand!Configure, Nand!Hold, Nand!SetAddress, Nand!Execute, Nand!CopyCodeword
<1>2. Head(ops)[1] = "identify" => Nand!Lookup
  BY DEF Nand!Next, Nand!Read, Nand!Return, Nand!NAND_Ctrl_Command_Write, Nand!NAND_Ctrl_Wait_Ready,
         Nand!NAND_Ctrl_Check_Status, Nand!NAND_Ctrl_Data_Read, Nand!Lookup, Nand!ReadExtraId, Nand!RefuseLarge,
         Nand!Configure, Nand!Hold, Nand!SetAddress, Nand!Execute, Nand!CopyCodeword
<1>3. Head(ops)[1] = "extend" => Nand!ReadExtraId
  BY DEF Nand!Next, Nand!Read, Nand!Return, Nand!NAND_Ctrl_Command_Write, Nand!NAND_Ctrl_Wait_Ready,
         Nand!NAND_Ctrl_Check_Status, Nand!NAND_Ctrl_Data_Read, Nand!Lookup, Nand!ReadExtraId, Nand!RefuseLarge,
         Nand!Configure, Nand!Hold, Nand!SetAddress, Nand!Execute, Nand!CopyCodeword
<1>4. Head(ops)[1] = "small_only" => Nand!RefuseLarge
  BY DEF Nand!Next, Nand!Read, Nand!Return, Nand!NAND_Ctrl_Command_Write, Nand!NAND_Ctrl_Wait_Ready,
         Nand!NAND_Ctrl_Check_Status, Nand!NAND_Ctrl_Data_Read, Nand!Lookup, Nand!ReadExtraId, Nand!RefuseLarge,
         Nand!Configure, Nand!Hold, Nand!SetAddress, Nand!Execute, Nand!CopyCodeword
<1> QED
  BY <1>1, <1>2, <1>3, <1>4

\* Every step keeps who owes what.
LEMMA QuietInvKept ==
  ASSUME NandInv, Nand!Next
  PROVE  QuietInv'
<1>1. NandTypes /\ QuietInv
  BY DEF NandInv
<1>2. board' = board /\ Super' = Super /\ Keeper' = Keeper
  BY NandTypesKept, BoardStays
<1>3. CASE \E page \in NandAsked : Nand!Read(page)
  <2>1. PICK page \in NandAsked : Nand!Read(page)
    BY <1>3
  <2>2. /\ bus' = bus /\ hw' = hw /\ result' = "none" /\ call'.kind = "read"
        /\ Quiet("read", ops') /\ (Keeper => HasGive(ops'))
    BY <2>1, ReadBegins
  <2>3. Quiet(call.kind, ops)' /\ (Keeper => HasGive(ops)')
    BY <1>2, <2>2, ListsJudged
  <2>4. Owing' = Owing
    BY <1>2, <2>2 DEF Owing
  <2> QED
    BY <1>1, <1>2, <2>2, <2>3, <2>4 DEF QuietInv
<1>4. CASE \A page \in NandAsked : ~Nand!Read(page)
  <2>1. result = "none"
    BY <1>1, <1>4 DEF NandTypes, Nand!Next, Nand!Return, Nand!NAND_Ctrl_Command_Write, Nand!NAND_Ctrl_Wait_Ready,
              Nand!NAND_Ctrl_Check_Status,
              Nand!NAND_Ctrl_Data_Read, Nand!Lookup, Nand!ReadExtraId, Nand!RefuseLarge, Nand!Configure, Nand!Hold,
              Nand!SetAddress, Nand!Execute, Nand!CopyCodeword
  <2>2. call' = call /\ Quiet(call.kind, ops)
    BY <1>1, <2>1, NandMoves DEF QuietInv
  <2>3. Quiet(call.kind, <<>>) /\ ~HasGive(<<>>)
    <3>1. Len(<<>>) = 0
      BY OneElement
    <3> QED
      BY <3>1, EmptyQuiet DEF HasGive
  <2>4. CASE ops = <<>>
    <3>1. ops' = <<>> /\ bus' = bus /\ hw' = hw
      BY <2>1, <2>4, NandMoves
    <3>2. Quiet(call.kind, ops)'
      BY <1>2, <2>2, <2>3, <3>1, ListsJudged
    <3>3. ~Owing
      BY <1>1, <2>1, <2>3, <2>4 DEF QuietInv
    <3>4. Owing' = Owing
      BY <1>2, <3>1 DEF Owing
    <3> QED
      BY <1>1, <1>2, <3>1, <3>2, <3>3, <3>4 DEF QuietInv
  <2>5. CASE ops # <<>> /\ ops' = <<>> /\ result' \in {"PROBE_ERROR", "READ_ERROR"} /\ bus' = bus /\ hw' = hw
    <3>1. Quiet(call.kind, ops)'
      BY <1>2, <2>2, <2>3, <2>5, ListsJudged
    <3>2. Owing' = Owing
      BY <1>2, <2>5 DEF Owing
    <3>3. result' # "OK" /\ result' # "none"
      BY <2>5
    <3> QED
      BY <1>1, <1>2, <2>5, <3>1, <3>2, <3>3 DEF QuietInv
  <2>6. CASE ops # <<>> /\ ops' = Tail(ops) /\ result' = result
    <3>1. PICK h : h = Head(ops) /\ Fine(call.kind, h)
      BY <2>2, <2>6, TailFine DEF Quiet
    <3>2. /\ Quiet(call.kind, Tail(ops))
          /\ HasGive(ops) => Gives(h) \/ HasGive(Tail(ops))
          /\ Takes(h) => Keeper /\ HasGive(Tail(ops))
      BY <2>2, <2>6, <3>1, TailQuiet
    <3>3. Quiet(call.kind, ops)' /\ (HasGive(Tail(ops)) => HasGive(ops)')
      BY <1>2, <2>2, <2>6, <3>2, ListsJudged
    <3>4. hw'.held = IF h[1] = "hold" THEN h[2] ELSE hw.held
      BY <1>1, <2>6, <3>1, RegistersMove
    <3>5. bus'.open = IF h[1] = "send" THEN h[2] = "READ" \/ (bus.open /\ h[2] # "READ_EXIT") ELSE bus.open
      BY <1>1, <2>6, <3>1, ChipMoves
    <3>6. Owing => Keeper /\ HasGive(ops)
      BY <1>1, <2>1 DEF QuietInv
    <3>7. CASE Super
      <4>1. h[1] # "hold"
        BY <3>1, <3>7 DEF Fine
      <4>2. ~hw'.held
        BY <1>1, <3>4, <3>7, <4>1 DEF QuietInv
      <4>3. bus'.open => Takes(h) \/ (bus.open /\ ~Gives(h))
        <5>1. CASE h[1] = "send" /\ h[2] = "READ"
          BY <3>7, <5>1 DEF Takes
        <5>2. CASE h[1] = "send" /\ h[2] # "READ"
          BY <3>5, <5>2 DEF Gives
        <5>3. CASE h[1] # "send"
          BY <3>5, <3>7, <5>3 DEF Gives
        <5> QED
          BY <5>1, <5>2, <5>3
      <4>4. Owing' => Keeper /\ HasGive(Tail(ops))
        <5>1. Owing' = bus'.open /\ Owing = bus.open
          BY <1>2, <3>7 DEF Owing
        <5> QED
          BY <3>2, <3>6, <4>3, <5>1
      <4> QED
        BY <1>2, <2>1, <2>6, <3>3, <3>7, <4>2, <4>4 DEF QuietInv
    <3>8. CASE ~Super
      <4>1. ~(h[1] = "send" /\ h[2] = "READ")
        BY <3>1, <3>8 DEF Fine
      <4>2. ~bus.open
        BY <1>1, <3>8 DEF QuietInv
      <4>3. ~bus'.open
        <5>1. CASE h[1] = "send"
          BY <3>5, <4>1, <4>2, <5>1
        <5>2. CASE h[1] # "send"
          BY <3>5, <4>2, <5>2
        <5> QED
          BY <5>1, <5>2
      <4>4. hw'.held => Takes(h) \/ (hw.held /\ ~Gives(h))
        <5>1. CASE h[1] = "hold"
          <6>1. h[2] \in BOOLEAN /\ hw'.held = h[2]
            BY <3>1, <3>4, <5>1 DEF Fine
          <6> QED
            BY <3>8, <5>1, <6>1 DEF Takes
        <5>2. CASE h[1] # "hold"
          BY <3>4, <3>8, <5>2 DEF Gives
        <5> QED
          BY <5>1, <5>2
      <4>5. Owing' => Keeper /\ HasGive(Tail(ops))
        <5>1. Owing' = hw'.held /\ Owing = hw.held
          BY <1>2, <3>8 DEF Owing
        <5> QED
          BY <3>2, <3>6, <4>4, <5>1
      <4> QED
        BY <1>2, <2>1, <2>6, <3>3, <3>8, <4>3, <4>5 DEF QuietInv
    <3> QED
      BY <3>7, <3>8
  <2> QED
    BY <2>1, <2>4, <2>5, <2>6, NandMoves
<1> QED
  BY <1>3, <1>4

\* The first look at the id finds the chip in its table, or ends the probe.
LEMMA LookedUp ==
  ASSUME NandTypes, Nand!Next, call.kind = "probe", result = "none", entry = Nand!NoMem, IdentifyAt(ops, 1),
         bus.cmd = "READID", bus.taken = 0
  PROVE  \/ result' = "none" /\ (HalfIdentified \/ AllIdentified)'
         \/ result' # "none" /\ result' # "OK" /\ entry'.type = "NONE"
<1>1. /\ ops # <<>> /\ Head(ops) = IdentifyOp
      /\ WithExtra => Tail(ops) # <<>> /\ Head(Tail(ops)) = ExtraOp /\ AllFine("read", Tail(Tail(ops)))
      /\ ~WithExtra => AllFine("read", Tail(ops))
  BY BehindLookup
<1>2. Head(ops)[1] = "identify" /\ Head(ops)[2] = TableName
  BY <1>1 DEF IdentifyOp
<1>3. Nand!Lookup
  BY <1>1, <1>2, NandByOne
<1>4. Nand!IdByte(bus.taken + 2) = board.chip.dev /\ Nand!IdByte(bus.taken + 1) = board.chip.mfr
  <2>1. bus.taken + 2 = 2 /\ bus.taken + 1 = 1
    OBVIOUS
  <2> QED
    BY <2>1 DEF Nand!IdByte, Nand!chip
<1>5. board' = board
  BY NandMoves
<1>6. /\ WithExtra' = WithExtra /\ ExtraOp' = ExtraOp /\ InTable' = InTable /\ OfChip' = OfChip
      /\ ChipTable' = ChipTable
  BY <1>5, BoardStays
<1>7. CASE board.chip.dev \in DOMAIN ChipTable
  <2>1. /\ ops' = Tail(ops) /\ result' = result
        /\ entry' = [type |-> TypeName, manufacturer |-> board.chip.mfr, device_id |-> board.chip.dev,
                     bit_width |-> ChipTable[board.chip.dev].bits,
                     page_size |-> ChipTable[board.chip.dev].page_size, size |-> ChipTable[board.chip.dev].size,
                     block_size |-> ChipTable[board.chip.dev].block_size]
        /\ bus' = [bus EXCEPT !.taken = bus.taken + 2]
    BY <1>2, <1>3, <1>4, <1>7 DEF Nand!Lookup, Nand!Continue, ChipTable, TypeName, Super, Nand!port
  <2>2. entry' = InTable
    BY <2>1 DEF InTable
  <2>3. CASE WithExtra
    <3>1. bus'.taken = 2
      <4>1. IsOn(BusFields, bus)
        BY DEF NandTypes
      <4>2. bus'.taken = bus.taken + 2
        BY <2>1, <4>1 DEF IsOn, BusFields
      <4> QED
        BY <4>2
    <3>2. AllFine("read", Tail(ops'))
      BY <1>1, <2>1, <2>3
    <3>3. AllFine("read", Tail(ops))'
      BY <1>5, <3>2 DEF AllFine, Fine, IsList, Super
    <3> QED
      BY <1>1, <1>5, <1>6, <1>7, <2>1, <2>2, <2>3, <3>1, <3>3 DEF HalfIdentified
  <2>4. CASE ~WithExtra
    <3>1. ChipTable[board.chip.dev].page_size # 0
      BY <1>7, <2>4, ChipInTable DEF NandTypes
    <3>2. entry' = OfChip
      BY <1>7, <2>2, <3>1, OneLookIsEnough DEF NandTypes
    <3>3. AllFine("read", ops)'
      BY <1>1, <1>5, <2>1, <2>4, ListsJudged
    <3> QED
      BY <1>6, <2>1, <3>2, <3>3 DEF AllIdentified
  <2> QED
    BY <2>3, <2>4
<1>8. CASE board.chip.dev \notin DOMAIN ChipTable
  <2>1. result' = "PROBE_ERROR" /\ entry' = entry
    BY <1>2, <1>3, <1>4, <1>8 DEF Nand!Lookup, Nand!Fail, ChipTable
  <2> QED
    BY <2>1 DEF Nand!NoMem
<1> QED
  BY <1>7, <1>8

\* The second look tells what the table left open, or the port refuses the chip.
LEMMA ExtraRead ==
  ASSUME NandTypes, Nand!Next, call.kind = "probe", result = "none", HalfIdentified
  PROVE  \/ result' = "none" /\ AllIdentified'
         \/ result' # "none" /\ result' # "OK" /\ entry'.type = "NONE"
<1>1. /\ board.chip.dev \in DOMAIN ChipTable /\ entry = InTable /\ bus.taken = 2
      /\ ops # <<>> /\ Head(ops) = ExtraOp /\ AllFine("read", Tail(ops))
  BY DEF HalfIdentified
<1>2. board' = board /\ OfChip' = OfChip
  BY NandMoves, BoardStays
<1>3. PICK info : info = ChipTable[board.chip.dev] /\ entry.page_size = info.page_size
  BY <1>1 DEF InTable
<1>4. info.page_size # 0 => entry = OfChip
  BY <1>1, <1>3, OneLookIsEnough DEF NandTypes
<1>5. ops' = Tail(ops) => AllFine("read", ops)'
  BY <1>1, <1>2, ListsJudged
<1>6. CASE board.port = "s3c2410"
  <2>1. Nand!RefuseLarge
    BY <1>1, <1>6, NandByOne DEF ExtraOp
  <2>2. CASE entry.page_size # 0
    <3>1. ops' = Tail(ops) /\ result' = result /\ entry' = entry
      BY <2>1, <2>2 DEF Nand!RefuseLarge, Nand!Continue
    <3> QED
      BY <1>2, <1>3, <1>4, <1>5, <2>2, <3>1 DEF AllIdentified
  <2>3. CASE entry.page_size = 0
    <3>1. result' = "PROBE_ERROR" /\ entry' = [entry EXCEPT !.type = "NONE"]
      BY <2>1, <2>3 DEF Nand!RefuseLarge, Nand!Fail
    <3>2. "type" \in DOMAIN entry
      BY <1>1 DEF InTable
    <3> QED
      BY <3>1, <3>2
  <2> QED
    BY <2>2, <2>3
<1>7. CASE board.port # "s3c2410"
  <2>1. Head(ops)[1] = "extend" /\ Head(ops)[2] = 1
    BY <1>1, <1>7 DEF ExtraOp
  <2>2. Nand!ReadExtraId
    BY <1>1, <2>1, NandByOne
  <2>3. ops' = Tail(ops) /\ result' = result
    BY <2>2 DEF Nand!ReadExtraId, Nand!Continue
  <2>4. CASE entry.page_size # 0
    <3>1. entry' = entry
      BY <2>2, <2>4 DEF Nand!ReadExtraId
    <3> QED
      BY <1>2, <1>3, <1>4, <1>5, <2>3, <2>4, <3>1 DEF AllIdentified
  <2>5. CASE entry.page_size = 0
    <3>1. Nand!IdByte(bus.taken + Nand!Skip(Head(ops)[2]) + 1) = board.chip.ext
      <4>1. bus.taken + Head(ops)[2] + 1 = 4
        BY <1>1, <2>1
      <4> QED
        BY <4>1 DEF Nand!Skip, Nand!IdByte, Nand!chip
    <3>2. entry' = [entry EXCEPT !.page_size = Nand!PageSize(board.chip.ext),
                                 !.block_size = Nand!BlockSize(board.chip.ext),
                                 !.device_id = @ + 256 * board.chip.ext]
      <4>1. PICK e : /\ e = Nand!IdByte(bus.taken + Nand!Skip(Head(ops)[1 + 1]) + 1)
                     /\ entry' = [entry EXCEPT !.page_size = Nand!PageSize(e), !.block_size = Nand!BlockSize(e),
                                               !.device_id = @ + 256 * e]
        <5>1. ~(entry.page_size # 0)
          BY <2>5
        <5>2. PICK e : e = Nand!IdByte(bus.taken + Nand!Skip(Head(ops)[1 + 1]) + 1)
          OBVIOUS
        <5>3. entry' = [entry EXCEPT !.page_size = Nand!PageSize(e), !.block_size = Nand!BlockSize(e),
                                     !.device_id = @ + 256 * e]
          BY <2>2, <5>1, <5>2 DEF Nand!ReadExtraId
        <5> QED
          BY <5>2, <5>3
      <4>2. e = board.chip.ext
        <5>1. Head(ops)[1 + 1] = Head(ops)[2]
          OBVIOUS
        <5> QED
          BY <3>1, <4>1, <5>1
      <4> QED
        BY <4>1, <4>2, Zenon
    <3>3. entry' = OfChip
      BY <1>1, <1>3, <2>5, <3>2, OneLookIsEnough DEF NandTypes
    <3> QED
      BY <1>2, <1>5, <2>3, <3>3 DEF AllIdentified
  <2> QED
    BY <2>4, <2>5
<1> QED
  BY <1>6, <1>7

\* Every step keeps what a probe knows of its chip.
LEMMA ProbeInvKept ==
  ASSUME NandInv, Nand!Next
  PROVE  ProbeInv'
<1>1. NandTypes /\ ProbeInv
  BY DEF NandInv
<1>2. board' = board /\ OfChip' = OfChip
  BY NandTypesKept, BoardStays
<1>3. CASE \E page \in NandAsked : Nand!Read(page)
  <2>1. PICK page \in NandAsked : Nand!Read(page)
    BY <1>3
  <2>2. /\ entry' = OfChip /\ result' = "none" /\ call'.kind = "read" /\ AllFine("read", ops')
    BY <2>1, ReadBegins DEF Quiet
  <2>3. AllIdentified'
    BY <1>2, <2>2, ListsJudged DEF AllIdentified
  <2> QED
    BY <2>2, <2>3 DEF ProbeInv
<1>4. CASE \A page \in NandAsked : ~Nand!Read(page)
  <2>1. result = "none"
    BY <1>1, <1>4 DEF NandTypes, Nand!Next, Nand!Return, Nand!NAND_Ctrl_Command_Write, Nand!NAND_Ctrl_Wait_Ready,
              Nand!NAND_Ctrl_Check_Status,
              Nand!NAND_Ctrl_Data_Read, Nand!Lookup, Nand!ReadExtraId, Nand!RefuseLarge, Nand!Configure, Nand!Hold,
              Nand!SetAddress, Nand!Execute, Nand!CopyCodeword
  <2>2. call' = call /\ call.kind \in {"probe", "read"}
    BY <1>1, <2>1, NandMoves DEF NandTypes
  <2>3. CASE AllIdentified
    <3>1. entry = OfChip /\ AllFine("read", ops)
      BY <2>3 DEF AllIdentified
    <3>2. entry' = entry
      <4>1. ops # <<>> => Head(ops)[1] \notin {"identify", "extend", "small_only"}
        BY <3>1, TailFine DEF Fine
      <4> QED
        BY <2>1, <4>1, NandMoves
    <3>3. AllFine("read", ops')
      <4>1. ops # <<>> => AllFine("read", Tail(ops))
        BY <3>1, TailFine
      <4>2. AllFine("read", <<>>)
        BY EmptyQuiet
      <4> QED
        BY <2>1, <3>1, <4>1, <4>2, NandMoves
    <3>4. AllIdentified'
      BY <1>2, <3>1, <3>2, <3>3, ListsJudged DEF AllIdentified
    <3>5. (entry = OfChip)'
      BY <3>4 DEF AllIdentified
    <3> QED
      BY <3>4, <3>5 DEF ProbeInv
  <2>4. CASE call.kind = "probe" /\ HalfIdentified
    <3>1. \/ result' = "none" /\ AllIdentified'
          \/ result' # "none" /\ result' # "OK" /\ entry'.type = "NONE"
      BY <1>1, <2>1, <2>4, ExtraRead
    <3> QED
      BY <2>2, <2>4, <3>1 DEF ProbeInv
  <2>5. CASE call.kind = "probe" /\ Unidentified
    <3>1. PICK p \in Nat : IdentifyAt(ops, p) /\ (p = 1 => bus.cmd = "READID" /\ bus.taken = 0)
      BY <2>5 DEF Unidentified
    <3>2. entry = Nand!NoMem
      BY <2>5 DEF Unidentified
    <3>3. CASE p = 1
      <4>1. \/ result' = "none" /\ (HalfIdentified \/ AllIdentified)'
            \/ result' # "none" /\ result' # "OK" /\ entry'.type = "NONE"
        BY <1>1, <2>1, <2>5, <3>1, <3>2, <3>3, LookedUp
      <4> QED
        BY <2>2, <2>5, <4>1 DEF ProbeInv
    <3>4. CASE p # 1
      <4>1. /\ ops # <<>> /\ Fine("read", Head(ops)) /\ p - 1 \in Nat /\ IdentifyAt(Tail(ops), p - 1)
            /\ p - 1 = 1 => Head(ops) = ReadIdOp
        BY <3>1, <3>4, TailIdentifies
      <4>2. entry' = Nand!NoMem
        BY <2>1, <3>2, <4>1, NandMoves DEF Fine
      <4>3. CASE ops' = Tail(ops) /\ result' = result
        <5>1. p - 1 = 1 => bus'.cmd = "READID" /\ bus'.taken = 0
          <6> SUFFICES ASSUME p - 1 = 1 PROVE bus'.cmd = "READID" /\ bus'.taken = 0
            OBVIOUS
          <6>1. Head(ops)[1] = "send" /\ Head(ops)[2] = "READID"
            BY <4>1 DEF ReadIdOp
          <6>2. Nand!NAND_Ctrl_Command_Write
            BY <2>1, <4>1, <6>1, NandByOne
          <6> QED
            BY <6>1, <6>2 DEF Nand!NAND_Ctrl_Command_Write, Nand!Latched
        <5>2. PICK q \in Nat : q = p - 1
          BY <4>1
        <5>3. IdentifyAt(ops, q)'
          BY <1>2, <4>1, <4>3, <5>2, ListsJudged
        <5>4. Unidentified'
          BY <4>2, <5>1, <5>2, <5>3 DEF Unidentified, Nand!NoMem
        <5> QED
          BY <2>1, <2>2, <2>5, <4>3, <5>4 DEF ProbeInv
      <4>4. CASE ops' = <<>> /\ result' \in {"PROBE_ERROR", "READ_ERROR"}
        <5>1. entry'.type = "NONE"
          BY <4>2 DEF Nand!NoMem
        <5> QED
          BY <2>2, <2>5, <4>4, <5>1 DEF ProbeInv
      <4> QED
        BY <2>1, <4>1, <4>3, <4>4, NandMoves
    <3> QED
      BY <3>3, <3>4
  <2> QED
    BY <1>1, <2>1, <2>2, <2>3, <2>4, <2>5 DEF ProbeInv
<1> QED
  BY <1>3, <1>4

\* At the start nothing is held and nothing known.
LEMMA NandInvStarts ==
  ASSUME Nand!Init
  PROVE  NandInv
<1>1. board \in NandBoards /\ board.port \in Nand!Controllers
  BY ChipInTable DEF Nand!Init
<1>2. /\ entry = Nand!NoMem /\ call.kind = "probe" /\ ops = Nand!ProbeOps /\ result = "none"
      /\ ~bus.open /\ ~hw.held /\ bus.open \in BOOLEAN /\ hw.held \in BOOLEAN
      /\ IsOn(BusFields, bus) /\ IsOn(HwFields, hw)
  BY DEF Nand!Init, IsOn, BusFields, HwFields
<1>3. Quiet("probe", ops)
  BY <1>1, <1>2, ProbeQuiet
<1>4. Unidentified
  <2>1. PICK p \in Nat : 1 < p /\ IdentifyAt(ops, p)
    BY <1>1, <1>2, ProbeShaped DEF Shaped
  <2> QED
    BY <1>2, <2>1 DEF Unidentified
<1>5. NandTypes
  BY <1>1, <1>2, <1>3 DEF NandTypes, Quiet
<1>6. ProbeInv
  BY <1>2, <1>4 DEF ProbeInv
<1>7. QuietInv
  BY <1>2, <1>3 DEF QuietInv, Owing
<1> QED
  BY <1>5, <1>6, <1>7 DEF NandInv

\* A step of a NAND or SuperAND driver, or of another part.
LEMMA NandInvKept ==
  ASSUME part = "nand" => NandInv, [StackNext]_<<part, command, driver, nandOnly, oneNandOnly>>
  PROVE  (part = "nand" => NandInv)'
<1>1. CASE part = "nand" /\ Nand!Next /\ UNCHANGED part
  BY <1>1, NandTypesKept, ProbeInvKept, QuietInvKept DEF NandInv
<1>2. CASE part # "nand" /\ UNCHANGED part
  BY <1>2
<1>3. CASE UNCHANGED <<part, driver, nandOnly>>
  <2>1. /\ part' = part /\ board' = board /\ entry' = entry /\ call' = call /\ ops' = ops /\ result' = result
        /\ bus' = bus /\ hw' = hw
    BY <1>3 DEF driver, nandOnly
  <2>2. /\ Super' = Super /\ Keeper' = Keeper /\ WithExtra' = WithExtra /\ ExtraOp' = ExtraOp
        /\ ChipTable' = ChipTable /\ InTable' = InTable /\ OfChip' = OfChip
    BY <2>1, BoardStays
  <2>3. NandTypes => NandTypes'
    <3>1. AllFine(call.kind, ops) => AllFine(call.kind, ops)'
      BY <2>1, ListsJudged
    <3> QED
      BY <2>1, <3>1 DEF NandTypes, IsOn
  <2>4. ProbeInv => ProbeInv'
    <3>1. AllIdentified => AllIdentified'
      BY <2>1, <2>2, ListsJudged DEF AllIdentified
    <3>2. HalfIdentified => HalfIdentified'
      <4>1. AllFine("read", Tail(ops)) => AllFine("read", Tail(ops))'
        BY <2>1, <2>2 DEF AllFine, Fine, IsList
      <4> QED
        BY <2>1, <2>2, <4>1 DEF HalfIdentified
    <3>3. Unidentified => Unidentified'
      <4>1. \A p : IdentifyAt(ops, p) => IdentifyAt(ops, p)'
        BY <2>1, ListsJudged
      <4> QED
        BY <2>1, <4>1 DEF Unidentified, Nand!NoMem
    <3> QED
      BY <2>1, <2>2, <3>1, <3>2, <3>3 DEF ProbeInv
  <2>5. QuietInv => QuietInv'
    <3>1. Quiet(call.kind, ops) => Quiet(call.kind, ops)'
      BY <2>1, ListsJudged
    <3>2. HasGive(ops) => HasGive(ops)'
      BY <2>1, ListsJudged
    <3> QED
      BY <2>1, <2>2, <3>1, <3>2 DEF QuietInv, Owing
  <2> QED
    BY <2>1, <2>3, <2>4, <2>5 DEF NandInv
<1> QED
  BY <1>1, <1>2, <1>3 DEF StackNext

\* ProbeDescribes (FlashStack): a NAND or SuperAND probe that succeeds describes the chip that is
\* there, whichever port it runs on and whichever of its id bytes tells its geometry.
THEOREM ProbeTruthful == StackSpec => []ProbeDescribes
<1>1. StackInit => (part = "nand" => NandInv)
  BY NandInvStarts DEF StackInit
<1>2. (part = "nand" => NandInv) /\ [StackNext]_<<part, command, driver, nandOnly, oneNandOnly>> => (part = "nand" => NandInv)'
  BY NandInvKept
<1>3. (part = "nand" => NandInv) => ProbeDescribes
  <2> SUFFICES ASSUME NandInv PROVE Nand!ProbeDescribes
    BY DEF ProbeDescribes
  <2>1. result = "OK" => entry = OfChip
    BY DEF NandInv, ProbeInv
  <2> QED
    BY <2>1 DEF OfChip, TypeName, Super, Nand!ProbeDescribes, Nand!port, Nand!chip
<1> QED
  BY <1>1, <1>2, <1>3, PTL DEF StackSpec

\* LeftQuiet (FlashStack): a call that succeeds has given back the lock of the BCM2133, the run bit of
\* the PXA312 and the read sequence of a SuperAND, those an earlier call that failed kept included.
THEOREM LockGivenBack == StackSpec => []LeftQuiet
<1>1. StackInit => (part = "nand" => NandInv)
  BY NandInvStarts DEF StackInit
<1>2. (part = "nand" => NandInv) /\ [StackNext]_<<part, command, driver, nandOnly, oneNandOnly>> => (part = "nand" => NandInv)'
  BY NandInvKept
<1>3. (part = "nand" => NandInv) => LeftQuiet
  <2> SUFFICES ASSUME NandInv, result = "OK" PROVE ~hw.held /\ ~bus.open
    BY DEF LeftQuiet, Nand!LeftQuiet
  <2>1. ~Owing /\ IF Super THEN ~hw.held ELSE ~bus.open
    BY DEF NandInv, QuietInv
  <2> QED
    BY <2>1 DEF Owing
<1> QED
  BY <1>1, <1>2, <1>3, PTL DEF StackSpec

-----------------------------------------------------------------------------
(* What a list of operations makes of the chip, the controller and what    *)
(* has been stored.                                                        *)

Seen(b, w, g) == [bus |-> b, hw |-> w, got |-> g]

\* NandCtrl's Selected, Given and Latched, of a chip and registers given.
RowsOf(c) == (2 * c.size) \div (c.page_size \div 512)
TwoBytes == 65536
RowBytesOf(c) == IF RowsOf(c) <= TwoBytes THEN 2 ELSE 3
AddressedAt(c, a, columns, col) ==
  IF Len(a) >= columns + RowBytesOf(c)
  THEN [row |-> Nand!Value(a, columns + 1, RowBytesOf(c)) % RowsOf(c), col |-> col]
  ELSE Nand!Nowhere

SelectedBy(brd, b) ==
  CASE brd.port = "dummy" /\ b.cmd \in DOMAIN Nand!ColumnBase -> [row |-> 0, col |-> Nand!ColumnBase[b.cmd]]
    [] brd.port = "superand" /\ b.cmd = "READ" /\ Len(b.addr) = 4 ->
         [row |-> 4 * (b.addr[3] + 256 * b.addr[4]), col |-> (b.addr[1] + 256 * b.addr[2]) * (brd.chip.bits \div 8)]
    [] brd.port \notin {"dummy", "superand"} /\ brd.chip.page_size <= 512 /\ Len(b.addr) > 0
         /\ b.cmd \in DOMAIN Nand!ColumnBase -> AddressedAt(brd.chip, b.addr, 1, Nand!ColumnBase[b.cmd] + b.addr[1])
    [] brd.port \notin {"dummy", "superand"} /\ brd.chip.page_size > 512 /\ Len(b.addr) > 1
         /\ b.cmd = "READSTART" -> AddressedAt(brd.chip, b.addr, 2, b.addr[1] + 256 * b.addr[2])
    [] OTHER -> Nand!Nowhere

AnnouncedBy(brd, w) == brd.port \in {"pxa312", "msm6800"} => brd.chip.page_size = Nand!OneBit(w.large)
GivenBy(brd, b, w, ahead) ==
  LET sel == SelectedBy(brd, b)
      col == sel.col + ahead
  IN  IF sel = Nand!Nowhere \/ ~b.ready \/ w.width # brd.chip.bits \/ ~AnnouncedBy(brd, w) THEN Nand!Nowhere
      ELSE IF brd.port = "superand" THEN [row |-> sel.row + col \div 512, col |-> col % 512]
      ELSE [row |-> sel.row, col |-> col]

LatchedBy(b, cmd, bytes) ==
  CASE cmd = "READSTART" ->
         [b EXCEPT !.cmd = IF @ = "READ0" THEN cmd ELSE "none", !.taken = 0, !.ready = FALSE]
    [] cmd = "READ_EXIT" -> [b EXCEPT !.cmd = "none", !.open = FALSE]
    [] OTHER ->
         [cmd |-> cmd, addr |-> bytes, taken |-> 0, ready |-> cmd = "READID",
          open |-> b.open \/ cmd = "READ"]

\* They are those of the chip and registers there are.
LEMMA OnTheBus ==
  /\ \A ahead : Nand!Given(ahead) = GivenBy(board, bus, hw, ahead)
  /\ \A cmd, bytes : Nand!Latched(cmd, bytes) = LatchedBy(bus, cmd, bytes)
<1>1. Nand!Selected = SelectedBy(board, bus)
  BY SMTT(30) DEF Nand!Selected, SelectedBy, AddressedAt, RowsOf, RowBytesOf, TwoBytes, Nand!RowBytes, Nand!Rows, Nand!chip, Nand!port, Nand!DummySelected
<1>2. \A ahead : Nand!Given(ahead) = GivenBy(board, bus, hw, ahead)
  BY <1>1 DEF Nand!Given, GivenBy, Nand!chip, Nand!port, Nand!Announced, AnnouncedBy
<1>3. \A cmd, bytes : Nand!Latched(cmd, bytes) = LatchedBy(bus, cmd, bytes)
  BY DEF Nand!Latched, LatchedBy
<1> QED
  BY <1>2, <1>3

\* An address register starts a page.
BytesOf(large, k, w) ==
  IF k = "page" THEN (IF large THEN <<0, 0>> ELSE <<0>>) \o w.page ELSE w.addr1 \o w.addr2
Started(b, large, bytes) ==
  [b EXCEPT !.cmd = IF large THEN "READSTART" ELSE "READ0", !.addr = bytes, !.taken = 0, !.ready = FALSE]
SetTo(w, k, v) == [w EXCEPT ![k] = v, !.next = 0]
AddressedBy(s, k, v) ==
  Seen(Started(s.bus, s.hw.large, BytesOf(s.hw.large, k, SetTo(s.hw, k, v))), SetTo(s.hw, k, v), s.got)

\* A codeword is copied.
Codeword(i, data, spare) ==
  <<[to |-> "page", at |-> 512 * i, n |-> 512, from |-> data],
    [to |-> "spare", at |-> 16 * i, n |-> 16, from |-> spare]>>
CodewordFrom(brd, b, w, column) == IF w.buffer < w.per_page THEN GivenBy(brd, b, w, column) ELSE Nand!Nowhere
CopiedBy(brd, s, i) ==
  Seen(s.bus, s.hw,
       s.got \o Codeword(i, CodewordFrom(brd, s.bus, s.hw, 512 * s.hw.buffer),
                         CodewordFrom(brd, s.bus, s.hw, brd.chip.page_size + 16 * s.hw.buffer)))

ReadKinds == {"send", "wait", "status", "take", "hold", "set", "exec", "copy"}

\* What an operation of a read makes of a state.
After(brd, op, s) ==
  CASE op[1] = "send" -> Seen(LatchedBy(s.bus, op[2], op[3]), s.hw, s.got)
    [] op[1] = "wait" -> Seen([s.bus EXCEPT !.ready = TRUE], s.hw, s.got)
    [] op[1] = "status" -> s
    [] op[1] = "take" ->
         Seen([s.bus EXCEPT !.taken = @ + op[4]], s.hw,
              Append(s.got, [to |-> op[2], at |-> op[3], n |-> op[4], from |-> GivenBy(brd, s.bus, s.hw, s.bus.taken)]))
    [] op[1] = "hold" -> Seen(s.bus, [s.hw EXCEPT !.held = op[2]], s.got)
    [] op[1] = "set" -> AddressedBy(s, op[2], op[3])
    [] op[1] = "exec" -> Seen([s.bus EXCEPT !.ready = TRUE], [s.hw EXCEPT !.buffer = s.hw.next, !.next = @ + 1], s.got)
    [] op[1] = "copy" -> CopiedBy(brd, s, op[2])

\* A list takes one state to another.
Runs(brd, s, list, t) ==
  \E q : /\ q[0] = s /\ q[Len(list)] = t
         /\ \A k \in 1 .. Len(list) : list[k][1] \in ReadKinds /\ q[k] = After(brd, list[k], q[k - 1])

\* An operation alone.
LEMMA RunsOne ==
  ASSUME NEW brd, NEW s, NEW op, op[1] \in ReadKinds
  PROVE  Runs(brd, s, <<op>>, After(brd, op, s))
<1>1. PICK list, t : list = <<op>> /\ t = After(brd, op, s) /\ Len(list) = 1 /\ list[1] = op
  BY OneElement
<1> DEFINE q == [k \in 0 .. 1 |-> IF k = 0 THEN s ELSE t]
<1>2. q[0] = s /\ q[1] = t
  OBVIOUS
<1> HIDE DEF q
<1>3. q[Len(list)] = t
  BY <1>1, <1>2, Zenon
<1>4. ASSUME NEW k \in 1 .. Len(list) PROVE list[k][1] \in ReadKinds /\ q[k] = After(brd, list[k], q[k - 1])
  <2>1. k = 1 /\ k - 1 = 0
    BY <1>1
  <2>2. list[k] = op
    BY <1>1, <2>1, Zenon
  <2>3. q[k - 1] = s /\ q[k] = t
    BY <1>2, <2>1
  <2> QED
    BY <1>1, <2>2, <2>3, Zenon
<1>5. Runs(brd, s, list, t)
  BY <1>2, <1>3, <1>4 DEF Runs
<1> QED
  BY <1>1, <1>5

\* A list behind another goes on where that one ended.
LEMMA RunsJoin ==
  ASSUME NEW brd, NEW s, NEW a, NEW t, NEW b, NEW u, IsList(a), IsList(b),
         Runs(brd, s, a, t), Runs(brd, t, b, u)
  PROVE  Runs(brd, s, a \o b, u) /\ IsList(a \o b)
<1>1. PICK c : c = a \o b /\ IsList(c) /\ Joins(a, b, c)
  BY ListsJoin
<1>2. PICK m \in Nat, n \in Nat : m = Len(a) /\ n = Len(b) /\ Len(c) = m + n
  BY <1>1 DEF Joins
<1>3. PICK p : /\ p[0] = s /\ p[m] = t
               /\ \A k \in 1 .. m : a[k][1] \in ReadKinds /\ p[k] = After(brd, a[k], p[k - 1])
  BY <1>2 DEF Runs
<1>4. PICK r : /\ r[0] = t /\ r[n] = u
               /\ \A k \in 1 .. n : b[k][1] \in ReadKinds /\ r[k] = After(brd, b[k], r[k - 1])
  BY <1>2 DEF Runs
<1> DEFINE q == [k \in 0 .. m + n |-> IF k <= m THEN p[k] ELSE r[k - m]]
<1>5. (\A k \in 0 .. m : q[k] = p[k]) /\ \A k \in 0 .. n : q[m + k] = r[k]
  <2>1. \A k \in 0 .. m : q[k] = p[k]
    OBVIOUS
  <2>2. ASSUME NEW k \in 0 .. n PROVE q[m + k] = r[k]
    <3>1. CASE k = 0
      <4>1. m + k = m /\ q[m] = p[m]
        BY <3>1
      <4> QED
        BY <1>3, <1>4, <3>1, <4>1
    <3>2. CASE k # 0
      <4>1. m + k \in 0 .. m + n /\ ~(m + k <= m) /\ (m + k) - m = k
        BY <3>2
      <4> QED
        BY <4>1
    <3> QED
      BY <3>1, <3>2
  <2> QED
    BY <2>1, <2>2
<1> HIDE DEF q
<1>6. q[0] = s /\ q[m + n] = u
  <2>1. 0 \in 0 .. m /\ n \in 0 .. n
    OBVIOUS
  <2> QED
    BY <1>3, <1>4, <1>5, <2>1
<1>7. ASSUME NEW k \in 1 .. m + n PROVE c[k][1] \in ReadKinds /\ q[k] = After(brd, c[k], q[k - 1])
  <2>1. CASE k <= m
    <3>1. k \in 1 .. m /\ k \in 0 .. m /\ k - 1 \in 0 .. m
      BY <2>1
    <3>2. c[k] = a[k]
      BY <1>1, <1>2, <3>1 DEF Joins
    <3>3. q[k] = p[k] /\ q[k - 1] = p[k - 1]
      BY <1>5, <3>1
    <3>4. a[k][1] \in ReadKinds /\ p[k] = After(brd, a[k], p[k - 1])
      BY <1>3, <3>1
    <3> QED
      BY <3>2, <3>3, <3>4, Zenon
  <2>2. CASE k > m
    <3>1. PICK j \in 1 .. n : k = m + j /\ j \in 0 .. n /\ j - 1 \in 0 .. n /\ k - 1 = m + (j - 1)
      <4>1. k - m \in 1 .. n /\ k = m + (k - m) /\ k - m \in 0 .. n /\ (k - m) - 1 \in 0 .. n /\ k - 1 = m + ((k - m) - 1)
        BY <2>2
      <4> QED
        BY <4>1
    <3>2. c[k] = b[j]
      BY <1>1, <1>2, <3>1 DEF Joins
    <3>3. q[k] = r[j] /\ q[k - 1] = r[j - 1]
      BY <1>5, <3>1
    <3>4. b[j][1] \in ReadKinds /\ r[j] = After(brd, b[j], r[j - 1])
      BY <1>4, <3>1
    <3> QED
      BY <3>2, <3>3, <3>4, Zenon
  <2> QED
    BY <2>1, <2>2
<1>8. Runs(brd, s, c, u)
  BY <1>2, <1>6, <1>7 DEF Runs
<1> QED
  BY <1>1, <1>8

\* The first operation, and then the rest.
LEMMA RunsFirst ==
  ASSUME NEW brd, NEW s, NEW list, NEW u, IsList(list), list # <<>>, Runs(brd, s, list, u)
  PROVE  /\ Head(list)[1] \in ReadKinds
         /\ IsList(Tail(list)) /\ Runs(brd, After(brd, Head(list), s), Tail(list), u)
<1>1. PICK n \in Nat \ {0} : n = Len(list) /\ Len(Tail(list)) = n - 1
  BY TailIs
<1>2. IsList(Tail(list)) /\ Head(list) = list[1] /\ \A k \in 1 .. n - 1 : Tail(list)[k] = list[k + 1]
  BY <1>1, TailIs
<1>3. PICK q : /\ q[0] = s /\ q[n] = u
               /\ \A k \in 1 .. n : list[k][1] \in ReadKinds /\ q[k] = After(brd, list[k], q[k - 1])
  BY <1>1 DEF Runs
<1>4. list[1][1] \in ReadKinds /\ q[1] = After(brd, list[1], s)
  <2>1. 1 \in 1 .. n /\ 1 - 1 = 0
    OBVIOUS
  <2> QED
    BY <1>3, <2>1
<1> DEFINE r == [k \in 0 .. n - 1 |-> q[k + 1]]
<1>5. \A k \in 0 .. n - 1 : r[k] = q[k + 1]
  OBVIOUS
<1> HIDE DEF r
<1>6. r[0] = After(brd, Head(list), s) /\ r[n - 1] = u
  <2>1. 0 \in 0 .. n - 1 /\ n - 1 \in 0 .. n - 1 /\ 0 + 1 = 1 /\ (n - 1) + 1 = n
    OBVIOUS
  <2>2. r[0] = q[1] /\ r[n - 1] = q[n]
    BY <1>5, <2>1
  <2> QED
    BY <1>2, <1>3, <1>4, <2>2
<1>7. ASSUME NEW k \in 1 .. n - 1
      PROVE  Tail(list)[k][1] \in ReadKinds /\ r[k] = After(brd, Tail(list)[k], r[k - 1])
  <2>1. k \in 0 .. n - 1 /\ k - 1 \in 0 .. n - 1 /\ (k - 1) + 1 = k /\ k + 1 \in 1 .. n /\ (k + 1) - 1 = k
    OBVIOUS
  <2>2. r[k] = q[k + 1] /\ r[k - 1] = q[k] /\ Tail(list)[k] = list[k + 1]
    BY <1>2, <1>5, <2>1
  <2>3. list[k + 1][1] \in ReadKinds /\ q[k + 1] = After(brd, list[k + 1], q[k])
    BY <1>3, <2>1
  <2> QED
    BY <2>2, <2>3, Zenon
<1>8. Runs(brd, After(brd, Head(list), s), Tail(list), u)
  BY <1>1, <1>6, <1>7 DEF Runs
<1> QED
  BY <1>2, <1>4, <1>8

\* Nothing left to do: the state is the last.
LEMMA RunsNone ==
  ASSUME NEW brd, NEW s, NEW u, Runs(brd, s, <<>>, u)
  PROVE  u = s
BY OneElement DEF Runs

\* Each action of a read is what After says of its operation.
LEMMA NandRuns ==
  ASSUME Nand!Next, result = "none", ops # <<>>, Head(ops)[1] \in ReadKinds
  PROVE  \/ ops' = Tail(ops) /\ result' = result
            /\ Seen(bus', hw', got') = After(board, Head(ops), Seen(bus, hw, got))
         \/ ops' = <<>> /\ result' \in {"PROBE_ERROR", "READ_ERROR"}
<1> DEFINE op == Head(ops)
<1>1. PICK s : s = Seen(bus, hw, got) /\ s.bus = bus /\ s.hw = hw /\ s.got = got
  <2>1. PICK s : s = Seen(bus, hw, got)
    OBVIOUS
  <2>2. s.bus = bus /\ s.hw = hw /\ s.got = got
    BY <2>1 DEF Seen
  <2> QED
    BY <2>1, <2>2
<1>0. 1 + 1 = 2 /\ 2 + 1 = 3
  OBVIOUS
<1>2. CASE op[1] = "send"
  <2>1. Nand!NAND_Ctrl_Command_Write
    BY <1>2, NandByOne
  <2>2. ops' = Tail(ops) /\ result' = result /\ bus' = LatchedBy(bus, op[2], op[3]) /\ hw' = hw /\ got' = got
    BY <2>1, OnTheBus DEF Nand!NAND_Ctrl_Command_Write, Nand!Continue
  <2>3. After(board, op, s) = Seen(LatchedBy(s.bus, op[2], op[3]), s.hw, s.got)
    BY <1>2 DEF After
  <2> QED
    BY <1>1, <2>2, <2>3
<1>3. CASE op[1] = "wait"
  <2>1. ops' = Tail(ops) /\ result' = result /\ bus' = [bus EXCEPT !.ready = TRUE] /\ hw' = hw /\ got' = got
    BY <1>3 DEF Nand!Next, Nand!Read, Nand!Return, Nand!NAND_Ctrl_Command_Write, Nand!NAND_Ctrl_Wait_Ready,
         Nand!NAND_Ctrl_Check_Status, Nand!NAND_Ctrl_Data_Read, Nand!Lookup, Nand!ReadExtraId, Nand!RefuseLarge,
         Nand!Configure, Nand!Hold, Nand!SetAddress, Nand!Execute, Nand!CopyCodeword, Nand!Continue
  <2>2. After(board, op, s) = Seen([s.bus EXCEPT !.ready = TRUE], s.hw, s.got)
    BY <1>3 DEF After
  <2> QED
    BY <1>1, <2>1, <2>2
<1>4. CASE op[1] = "status"
  <2>1. Nand!NAND_Ctrl_Check_Status
    BY <1>4 DEF Nand!Next, Nand!Read, Nand!Return, Nand!NAND_Ctrl_Command_Write, Nand!NAND_Ctrl_Wait_Ready,
         Nand!NAND_Ctrl_Data_Read, Nand!Lookup, Nand!ReadExtraId, Nand!RefuseLarge,
         Nand!Configure, Nand!Hold, Nand!SetAddress, Nand!Execute, Nand!CopyCodeword
  <2>2. CASE ops' = Tail(ops) /\ result' = result /\ UNCHANGED <<bus, hw, got>>
    <3>1. After(board, op, s) = s
      BY <1>4 DEF After
    <3> QED
      BY <1>1, <2>2, <3>1
  <2>3. CASE ops' = <<>> /\ result' \in {"PROBE_ERROR", "READ_ERROR"}
    BY <2>3
  <2> QED
    BY <2>1, <2>2, <2>3 DEF Nand!NAND_Ctrl_Check_Status, Nand!Continue, Nand!Fail
<1>5. CASE op[1] = "take"
  <2>1. Nand!NAND_Ctrl_Data_Read
    BY <1>5 DEF Nand!Next, Nand!Read, Nand!Return, Nand!NAND_Ctrl_Command_Write, Nand!NAND_Ctrl_Wait_Ready,
         Nand!NAND_Ctrl_Check_Status, Nand!Lookup, Nand!ReadExtraId, Nand!RefuseLarge,
         Nand!Configure, Nand!Hold, Nand!SetAddress, Nand!Execute, Nand!CopyCodeword
  <2>2. PICK g : g = GivenBy(board, bus, hw, bus.taken) /\ g = Nand!Given(bus.taken)
    BY OnTheBus
  <2>3. /\ ops' = Tail(ops) /\ result' = result /\ hw' = hw /\ bus' = [bus EXCEPT !.taken = @ + op[4]]
        /\ got' = Append(got, [to |-> op[2], at |-> op[3], n |-> op[4], from |-> g])
    BY <2>1, <2>2 DEF Nand!NAND_Ctrl_Data_Read, Nand!Continue
  <2>4. After(board, op, s) =
         Seen([s.bus EXCEPT !.taken = @ + op[4]], s.hw,
              Append(s.got, [to |-> op[2], at |-> op[3], n |-> op[4], from |-> GivenBy(board, s.bus, s.hw, s.bus.taken)]))
    BY <1>5, Zenon DEF After
  <2> QED
    BY <1>1, <2>2, <2>3, <2>4, Zenon
<1>6. CASE op[1] = "hold"
  <2>0. Nand!Hold
    BY <1>6 DEF Nand!Next, Nand!Read, Nand!Return, Nand!NAND_Ctrl_Command_Write, Nand!NAND_Ctrl_Wait_Ready,
         Nand!NAND_Ctrl_Check_Status, Nand!NAND_Ctrl_Data_Read, Nand!Lookup, Nand!ReadExtraId, Nand!RefuseLarge,
         Nand!Configure, Nand!SetAddress, Nand!Execute, Nand!CopyCodeword
  <2>1. ops' = Tail(ops) /\ result' = result /\ bus' = bus /\ hw' = [hw EXCEPT !.held = op[2]] /\ got' = got
    BY <2>0, <1>0, Zenon DEF Nand!Hold, Nand!Continue, Nand!Held
  <2>2. After(board, op, s) = Seen(s.bus, [s.hw EXCEPT !.held = op[2]], s.got)
    BY <1>6 DEF After
  <2> QED
    BY <1>1, <2>1, <2>2
<1>7. CASE op[1] = "set"
  <2>1. Nand!SetAddress
    BY <1>7 DEF Nand!Next, Nand!Read, Nand!Return, Nand!NAND_Ctrl_Command_Write, Nand!NAND_Ctrl_Wait_Ready,
         Nand!NAND_Ctrl_Check_Status, Nand!NAND_Ctrl_Data_Read, Nand!Lookup, Nand!ReadExtraId, Nand!RefuseLarge,
         Nand!Configure, Nand!Hold, Nand!Execute, Nand!CopyCodeword
  <2> HIDE DEF Nand!Arg
  <2>2. PICK k, v : k = Nand!Arg(1) /\ v = Nand!Arg(2)
    OBVIOUS
  <2>3. k = op[2] /\ v = op[3]
    BY <1>0, <2>2 DEF Nand!Arg
  <2>4. ops' = Tail(ops) /\ result' = result /\ got' = got /\ hw' = SetTo(hw, k, v)
    <3>1. hw' = SetTo(hw, Nand!Arg(1), Nand!Arg(2))
      BY <2>1 DEF Nand!SetAddress, SetTo
    <3>2. ops' = Tail(ops) /\ result' = result /\ got' = got
      BY <2>1 DEF Nand!SetAddress, Nand!Continue
    <3> QED
      BY <2>2, <3>1, <3>2, Zenon
  <2>5. bus' = Started(bus, hw.large, BytesOf(hw.large, k, SetTo(hw, k, v)))
    <3>1. bus' = Started(bus, hw.large, BytesOf(hw.large, Nand!Arg(1), SetTo(hw, Nand!Arg(1), Nand!Arg(2))))
      BY <2>1 DEF Nand!SetAddress, SetTo, Started, BytesOf
    <3> QED
      BY <2>2, <3>1, Zenon
  <2>6. After(board, op, s) = AddressedBy(s, op[2], op[3])
    BY <1>7 DEF After
  <2>7. AddressedBy(s, k, v) = Seen(bus', hw', got')
    <3>1. AddressedBy(s, k, v) =
            Seen(Started(bus, hw.large, BytesOf(hw.large, k, SetTo(hw, k, v))), SetTo(hw, k, v), got)
      BY <1>1 DEF AddressedBy
    <3> QED
      BY <2>4, <2>5, <3>1, Zenon
  <2> QED
    BY <1>1, <2>3, <2>4, <2>6, <2>7, Zenon
<1>8. CASE op[1] = "exec"
  <2>1. /\ ops' = Tail(ops) /\ result' = result /\ bus' = [bus EXCEPT !.ready = TRUE] /\ got' = got
        /\ hw' = [hw EXCEPT !.buffer = hw.next, !.next = @ + 1]
    BY <1>8 DEF Nand!Next, Nand!Read, Nand!Return, Nand!NAND_Ctrl_Command_Write, Nand!NAND_Ctrl_Wait_Ready,
         Nand!NAND_Ctrl_Check_Status, Nand!NAND_Ctrl_Data_Read, Nand!Lookup, Nand!ReadExtraId, Nand!RefuseLarge,
         Nand!Configure, Nand!Hold, Nand!SetAddress, Nand!Execute, Nand!CopyCodeword, Nand!Continue
  <2>2. After(board, op, s) =
          Seen([s.bus EXCEPT !.ready = TRUE], [s.hw EXCEPT !.buffer = s.hw.next, !.next = @ + 1], s.got)
    BY <1>8 DEF After
  <2> QED
    BY <1>1, <2>1, <2>2, Zenon
<1>9. CASE op[1] = "copy"
  <2>1. Nand!CopyCodeword
    BY <1>9 DEF Nand!Next, Nand!Read, Nand!Return, Nand!NAND_Ctrl_Command_Write, Nand!NAND_Ctrl_Wait_Ready,
         Nand!NAND_Ctrl_Check_Status, Nand!NAND_Ctrl_Data_Read, Nand!Lookup, Nand!ReadExtraId, Nand!RefuseLarge,
         Nand!Configure, Nand!Hold, Nand!SetAddress, Nand!Execute
  <2> HIDE DEF Nand!Arg
  <2>2. PICK i : i = Nand!Arg(1)
    OBVIOUS
  <2>3. i = op[2]
    BY <1>0, <2>2 DEF Nand!Arg
  <2>4. ops' = Tail(ops) /\ result' = result /\ bus' = bus /\ hw' = hw
    BY <2>1, Zenon DEF Nand!CopyCodeword, Nand!Continue
  <2>5. \A column : CodewordFrom(board, bus, hw, column) = IF hw.buffer < hw.per_page THEN Nand!Given(column) ELSE Nand!Nowhere
    BY OnTheBus, Zenon DEF CodewordFrom
  <2>6. got' = got \o Codeword(i, IF hw.buffer < hw.per_page THEN Nand!Given(512 * hw.buffer) ELSE Nand!Nowhere,
                 IF hw.buffer < hw.per_page THEN Nand!Given(Nand!chip.page_size + 16 * hw.buffer) ELSE Nand!Nowhere)
    <3>1. got' = got \o Codeword(Nand!Arg(1), IF hw.buffer < hw.per_page THEN Nand!Given(512 * hw.buffer) ELSE Nand!Nowhere,
                 IF hw.buffer < hw.per_page THEN Nand!Given(Nand!chip.page_size + 16 * hw.buffer) ELSE Nand!Nowhere)
      BY <2>1 DEF Nand!CopyCodeword, Codeword
    <3> QED
      BY <2>2, <3>1, Zenon
  <2>7. got' = got \o Codeword(i, CodewordFrom(board, bus, hw, 512 * hw.buffer),
                               CodewordFrom(board, bus, hw, board.chip.page_size + 16 * hw.buffer))
    <3>1. \A column : (IF hw.buffer < hw.per_page THEN Nand!Given(column) ELSE Nand!Nowhere) = CodewordFrom(board, bus, hw, column)
      BY <2>5, Zenon
    <3>2. Nand!chip = board.chip
      BY DEF Nand!chip
    <3> QED
      BY <2>6, <3>1, <3>2
  <2>8. After(board, op, s) = CopiedBy(board, s, op[2])
    BY <1>9 DEF After
  <2>9. CopiedBy(board, s, i) = Seen(bus', hw', got')
    <3>1. s.bus = bus /\ s.hw = hw /\ s.got = got
      BY <1>1
    <3>2. CopiedBy(board, s, i) =
            Seen(bus, hw, got \o Codeword(i, CodewordFrom(board, bus, hw, 512 * hw.buffer),
                                          CodewordFrom(board, bus, hw, board.chip.page_size + 16 * hw.buffer)))
      BY <3>1 DEF CopiedBy
    <3> QED
      BY <2>4, <2>7, <3>2
  <2> QED
    BY <1>1, <2>3, <2>4, <2>8, <2>9, Zenon
<1> QED
  BY <1>2, <1>3, <1>4, <1>5, <1>6, <1>7, <1>8, <1>9 DEF ReadKinds

-----------------------------------------------------------------------------
(* The pieces of a read.                                                   *)

\* The chip was given a command and bytes, and so many bytes were taken.
BusIs(b, cmd, addr, taken, ready) ==
  /\ IsOn(BusFields, b) /\ b.cmd = cmd /\ b.addr = addr /\ b.taken = taken /\ b.ready = ready
StateIs(t, cmd, addr, taken, ready, w, g) == BusIs(t.bus, cmd, addr, taken, ready) /\ t.hw = w /\ t.got = g

\* A list leads there.
Reaches(brd, s, list, cmd, addr, taken, ready, w, g) ==
  IsList(list) /\ \E t : Runs(brd, s, list, t) /\ StateIs(t, cmd, addr, taken, ready, w, g)

\* A list leads to a state in which it has stored segments and left registers.
Ends(brd, s, list, w, g) == IsList(list) /\ \E t : Runs(brd, s, list, t) /\ t.hw = w /\ t.got = g

\* The fields of a state.
LEMMA SeenFields ==
  ASSUME NEW b, NEW w, NEW g
  PROVE  Seen(b, w, g).bus = b /\ Seen(b, w, g).hw = w /\ Seen(b, w, g).got = g
BY DEF Seen

\* So a state whose chip is known.
LEMMA SeenState ==
  ASSUME NEW b, NEW cmd, NEW addr, NEW taken, NEW ready, NEW w, NEW g, BusIs(b, cmd, addr, taken, ready)
  PROVE  StateIs(Seen(b, w, g), cmd, addr, taken, ready, w, g)
<1>1. PICK t : t = Seen(b, w, g)
  OBVIOUS
<1>2. t.bus = b /\ t.hw = w /\ t.got = g
  BY <1>1, SeenFields
<1> QED
  BY <1>1, <1>2 DEF StateIs

\* An operation alone, seen as a list.
LEMMA OneReaches ==
  ASSUME NEW brd, NEW s, NEW op, op[1] \in ReadKinds, NEW cmd, NEW addr, NEW taken, NEW ready, NEW w, NEW g,
         StateIs(After(brd, op, s), cmd, addr, taken, ready, w, g)
  PROVE  Reaches(brd, s, <<op>>, cmd, addr, taken, ready, w, g)
BY RunsOne, OneElement, Zenon DEF Reaches

\* A command with address bytes.
LEMMA SendReaches ==
  ASSUME NEW brd, NEW s, NEW cmd \in {"READ0", "READ1", "READOOB", "READ"}, NEW addr
  PROVE  Reaches(brd, s, Nand!Send(cmd, addr), cmd, addr, 0, FALSE, s.hw, s.got)
<1>1. PICK op : op = <<"send", cmd, addr>>
  OBVIOUS
<1>0. op[1] = "send" /\ op[2] = cmd /\ op[3] = addr
  BY <1>1
<1>2. PICK b : b = LatchedBy(s.bus, cmd, addr)
  OBVIOUS
<1>3. After(brd, op, s) = Seen(b, s.hw, s.got)
  BY <1>0, <1>2 DEF After
<1>4. BusIs(b, cmd, addr, 0, FALSE)
  BY <1>2 DEF LatchedBy, BusIs, IsOn, BusFields
<1>5. StateIs(After(brd, op, s), cmd, addr, 0, FALSE, s.hw, s.got)
  BY <1>3, <1>4, SeenState
<1>6. op[1] \in ReadKinds
  BY <1>0 DEF ReadKinds
<1> QED
  BY <1>1, <1>5, <1>6, OneReaches DEF Nand!Send

\* What begins a large page keeps its address.
LEMMA StartReaches ==
  ASSUME NEW brd, NEW s, NEW addr, NEW w, NEW g, StateIs(s, "READ0", addr, 0, FALSE, w, g)
  PROVE  Reaches(brd, s, Nand!Send("READSTART", <<>>), "READSTART", addr, 0, FALSE, w, g)
<1>1. PICK op : op = <<"send", "READSTART", <<>>>>
  OBVIOUS
<1>0. op[1] = "send" /\ op[2] = "READSTART" /\ op[3] = <<>>
  BY <1>1
<1>2. PICK b, c : b = s.bus /\ c = LatchedBy(b, "READSTART", <<>>)
  OBVIOUS
<1>3. After(brd, op, s) = Seen(c, w, g)
  BY <1>0, <1>2 DEF After, StateIs
<1>4. IsOn(BusFields, b) /\ b.cmd = "READ0" /\ b.addr = addr
  BY <1>2 DEF StateIs, BusIs
<1>5. c = [b EXCEPT !.cmd = "READSTART", !.taken = 0, !.ready = FALSE]
  BY <1>2, <1>4 DEF LatchedBy
<1>6. BusIs(c, "READSTART", addr, 0, FALSE)
  BY <1>4, <1>5 DEF BusIs, IsOn, BusFields
<1>7. StateIs(After(brd, op, s), "READSTART", addr, 0, FALSE, w, g)
  BY <1>3, <1>6, SeenState
<1>8. op[1] \in ReadKinds
  BY <1>0 DEF ReadKinds
<1> QED
  BY <1>1, <1>7, <1>8, OneReaches DEF Nand!Send

\* The wait for the chip.
LEMMA WaitReaches ==
  ASSUME NEW brd, NEW s, NEW cmd, NEW addr, NEW taken, NEW ready, NEW w, NEW g,
         StateIs(s, cmd, addr, taken, ready, w, g)
  PROVE  Reaches(brd, s, Nand!Wait, cmd, addr, taken, TRUE, w, g)
<1>1. PICK op : op = <<"wait">>
  OBVIOUS
<1>0. op[1] = "wait"
  BY <1>1
<1>2. PICK b, c : b = s.bus /\ c = [b EXCEPT !.ready = TRUE]
  OBVIOUS
<1>3. After(brd, op, s) = Seen(c, w, g)
  BY <1>0, <1>2 DEF After, StateIs
<1>4. BusIs(c, cmd, addr, taken, TRUE)
  BY <1>2 DEF BusIs, IsOn, BusFields, StateIs
<1>5. StateIs(After(brd, op, s), cmd, addr, taken, TRUE, w, g)
  BY <1>3, <1>4, SeenState
<1>6. op[1] \in ReadKinds
  BY <1>0 DEF ReadKinds
<1> QED
  BY <1>1, <1>5, <1>6, OneReaches DEF Nand!Wait

\* A look at the status.
LEMMA StatusReaches ==
  ASSUME NEW brd, NEW s, NEW cmd, NEW addr, NEW taken, NEW ready, NEW w, NEW g,
         StateIs(s, cmd, addr, taken, ready, w, g)
  PROVE  Reaches(brd, s, Nand!Status, cmd, addr, taken, ready, w, g)
<1>1. PICK op : op = <<"status">>
  OBVIOUS
<1>0. op[1] = "status"
  BY <1>1
<1>2. After(brd, op, s) = s
  BY <1>0 DEF After
<1>3. op[1] \in ReadKinds
  BY <1>0 DEF ReadKinds
<1> QED
  BY <1>1, <1>2, <1>3, OneReaches DEF Nand!Status

\* Bytes taken from the chip.
Segment_(to, at, n, from) == [to |-> to, at |-> at, n |-> n, from |-> from]

\* Bytes are taken: the chip stands so many further on, and a segment more is stored.
LEMMA TakeReaches ==
  ASSUME NEW brd, NEW s, NEW cmd, NEW addr, NEW taken, NEW ready, NEW w, NEW g,
         StateIs(s, cmd, addr, taken, ready, w, g), NEW to, NEW at, NEW n, NEW from, GivenBy(brd, s.bus, s.hw, taken) = from
  PROVE  Reaches(brd, s, Nand!Take(to, at, n), cmd, addr, taken + n, ready, w, Append(g, Segment_(to, at, n, from)))
<1>1. PICK op : op = <<"take", to, at, n>>
  OBVIOUS
<1>0. op[1] = "take" /\ op[2] = to /\ op[3] = at /\ op[4] = n
  BY <1>1
<1>2. PICK b, c : b = s.bus /\ c = [b EXCEPT !.taken = @ + n]
  OBVIOUS
<1>3. IsOn(BusFields, b) /\ b.cmd = cmd /\ b.addr = addr /\ b.taken = taken /\ b.ready = ready /\ s.hw = w /\ s.got = g
  BY <1>2 DEF StateIs, BusIs
<1>4. After(brd, op, s) = Seen(c, w, Append(g, Segment_(to, at, n, from)))
  <2>1. After(brd, op, s) =
          Seen([s.bus EXCEPT !.taken = @ + op[4]], s.hw,
               Append(s.got, [to |-> op[2], at |-> op[3], n |-> op[4], from |-> GivenBy(brd, s.bus, s.hw, s.bus.taken)]))
    BY <1>0, Zenon DEF After
  <2>2. GivenBy(brd, s.bus, s.hw, s.bus.taken) = from
    BY <1>2, <1>3
  <2>3. [to |-> op[2], at |-> op[3], n |-> op[4], from |-> GivenBy(brd, s.bus, s.hw, s.bus.taken)] = Segment_(to, at, n, from)
    BY <1>0, <2>2 DEF Segment_
  <2>4. [s.bus EXCEPT !.taken = @ + op[4]] = c
    BY <1>0, <1>2
  <2> QED
    BY <1>3, <2>1, <2>3, <2>4
<1>5. BusIs(c, cmd, addr, taken + n, ready)
  BY <1>2, <1>3 DEF BusIs, IsOn, BusFields
<1>6. StateIs(After(brd, op, s), cmd, addr, taken + n, ready, w, Append(g, Segment_(to, at, n, from)))
  BY <1>4, <1>5, SeenState
<1>7. op[1] \in ReadKinds
  BY <1>0 DEF ReadKinds
<1> QED
  BY <1>1, <1>6, <1>7, OneReaches DEF Nand!Take

\* The command that ends a SuperAND read sequence.
LEMMA ExitEnds ==
  ASSUME NEW brd, NEW s
  PROVE  Ends(brd, s, Nand!Send("READ_EXIT", <<>>), s.hw, s.got)
<1>1. PICK op : op = <<"send", "READ_EXIT", <<>>>>
  OBVIOUS
<1>0. op[1] = "send" /\ op[2] = "READ_EXIT" /\ op[3] = <<>>
  BY <1>1
<1>2. After(brd, op, s) = Seen(LatchedBy(s.bus, op[2], op[3]), s.hw, s.got)
  BY <1>0 DEF After
<1>3. op[1] \in ReadKinds
  BY <1>0 DEF ReadKinds
<1>4. PICK t : t = After(brd, op, s)
  OBVIOUS
<1>5. t.hw = s.hw /\ t.got = s.got
  BY <1>2, <1>4, SeenFields
<1>6. Runs(brd, s, <<op>>, t) /\ IsList(<<op>>)
  BY <1>3, <1>4, RunsOne, OneElement
<1>7. Ends(brd, s, <<op>>, s.hw, s.got)
  BY <1>5, <1>6, Zenon DEF Ends
<1> QED
  BY <1>1, <1>7 DEF Nand!Send

\* The lock of the bus, or the run bit, is taken or given back, and nothing else is done.
Locks(s, t, on) == t.bus = s.bus /\ t.hw = [s.hw EXCEPT !.held = on] /\ t.got = s.got

\* The lock is one operation.
LEMMA LockRuns ==
  ASSUME NEW brd, NEW s, NEW on
  PROVE  IsList(Nand!Lock(on)) /\ \E t : Runs(brd, s, Nand!Lock(on), t) /\ Locks(s, t, on)
<1>1. PICK op : op = <<"hold", on>>
  OBVIOUS
<1>0. op[1] = "hold" /\ op[2] = on
  BY <1>1
<1>2. After(brd, op, s) = Seen(s.bus, [s.hw EXCEPT !.held = on], s.got)
  BY <1>0 DEF After
<1>3. op[1] \in ReadKinds
  BY <1>0 DEF ReadKinds
<1>4. PICK t : t = After(brd, op, s)
  OBVIOUS
<1>5. Locks(s, t, on)
  BY <1>2, <1>4, SeenFields DEF Locks
<1>6. Runs(brd, s, <<op>>, t) /\ IsList(<<op>>)
  BY <1>3, <1>4, RunsOne, OneElement
<1>7. Nand!Lock(on) = <<op>>
  BY <1>1 DEF Nand!Lock
<1> QED
  BY <1>5, <1>6, <1>7, Zenon

\* An address register.
LEMMA SetReaches ==
  ASSUME NEW brd, NEW s, NEW k, NEW v, IsOn(BusFields, s.bus)
  PROVE  Reaches(brd, s, Nand!Set(k, v), IF s.hw.large THEN "READSTART" ELSE "READ0",
                 BytesOf(s.hw.large, k, SetTo(s.hw, k, v)), 0, FALSE, SetTo(s.hw, k, v), s.got)
<1>1. PICK op : op = <<"set", k, v>>
  OBVIOUS
<1>0. op[1] = "set" /\ op[2] = k /\ op[3] = v
  BY <1>1
<1>2. PICK cmd, bytes, w : /\ cmd = (IF s.hw.large THEN "READSTART" ELSE "READ0")
                           /\ bytes = BytesOf(s.hw.large, k, SetTo(s.hw, k, v)) /\ w = SetTo(s.hw, k, v)
  OBVIOUS
<1>3. PICK b, c : b = s.bus /\ c = Started(s.bus, s.hw.large, bytes)
  OBVIOUS
<1>4. After(brd, op, s) = Seen(c, w, s.got)
  <2>1. After(brd, op, s) = AddressedBy(s, k, v)
    BY <1>0 DEF After
  <2> QED
    BY <1>2, <1>3, <2>1, Zenon DEF AddressedBy
<1>5. c = [b EXCEPT !.cmd = cmd, !.addr = bytes, !.taken = 0, !.ready = FALSE]
  BY <1>2, <1>3, Zenon DEF Started
<1>6. BusIs(c, cmd, bytes, 0, FALSE)
  BY <1>3, <1>5 DEF BusIs, IsOn, BusFields
<1>7. StateIs(After(brd, op, s), cmd, bytes, 0, FALSE, w, s.got)
  BY <1>4, <1>6, SeenState
<1>8. op[1] \in ReadKinds
  BY <1>0 DEF ReadKinds
<1>9. Reaches(brd, s, <<op>>, cmd, bytes, 0, FALSE, w, s.got)
  BY <1>7, <1>8, OneReaches
<1> QED
  BY <1>1, <1>2, <1>9, Zenon DEF Nand!Set

\* One list behind another.
LEMMA ReachesJoin ==
  ASSUME NEW brd, NEW s, NEW a, NEW t, IsList(a), Runs(brd, s, a, t), NEW b,
         NEW cmd, NEW addr, NEW taken, NEW ready, NEW w, NEW g, Reaches(brd, t, b, cmd, addr, taken, ready, w, g)
  PROVE  Reaches(brd, s, a \o b, cmd, addr, taken, ready, w, g)
<1>1. PICK u : IsList(b) /\ Runs(brd, t, b, u) /\ StateIs(u, cmd, addr, taken, ready, w, g)
  BY Zenon DEF Reaches
<1>2. Runs(brd, s, a \o b, u) /\ IsList(a \o b)
  BY <1>1, RunsJoin
<1> QED
  BY <1>1, <1>2, Zenon DEF Reaches

-----------------------------------------------------------------------------
(* The rows of a chip, and the bytes that name one.                        *)

\* Bounds: the KB of a chip and of one with small pages, its rows, and what two and three bytes name.
Most == 2097152
SmallMost == 262144
RowMost == 4194304
ThreeBytes == 16777216

\* What every entry of a table keeps to.
Sane(info) ==
  /\ info.bits \in {8, 16} /\ info.size \in Nat /\ info.size # 0 /\ info.size <= Most
  /\ info.page_size \in {0, 256, 512} /\ (info.page_size = 512 => info.size <= SmallMost)

\* A table made of sane parts.
LEMMA TableSane ==
  ASSUME NEW parts, \A p \in parts : Sane(p.info)
  PROVE  \A d \in DOMAIN Nand!ByDevice(parts) : Sane(Nand!ByDevice(parts)[d])
<1> DEFINE f == Nand!ByDevice(parts)
<1>1. ASSUME NEW d \in DOMAIN f PROVE Sane(f[d])
  <2>1. d \in UNION {p.ids : p \in parts} /\ f[d] = (CHOOSE p \in parts : d \in p.ids).info
    BY DEF Nand!ByDevice
  <2>2. \E p \in parts : d \in p.ids
    BY <2>1
  <2>3. PICK q \in parts : q = CHOOSE p \in parts : d \in p.ids
    BY <2>2
  <2> QED
    BY <2>1, <2>3
<1> QED
  BY <1>1

\* A part is what it is made of.
Sized(ps, size) ==
  size \in Nat /\ size # 0 /\ size <= Most /\ ps \in {0, 256, 512} /\ (ps = 512 => size <= SmallMost)

\* A part of a sane size and page is sane.
LEMMA PartSane ==
  ASSUME NEW ids, NEW ps, NEW size, NEW bl, NEW bits, bits = 8 \/ bits = 16, Sized(ps, size)
  PROVE  Sane(Nand!Part(ids, ps, size, bl, bits).info)
BY DEF Sane, Nand!Part, Sized

\* Both tables are sane.
LEMMA TablesSane ==
  /\ \A d \in DOMAIN Nand!flash_ids : Sane(Nand!flash_ids[d])
  /\ \A d \in DOMAIN Nand!superand_ids : Sane(Nand!superand_ids[d])
<1>1. /\ Sized(256, Nand!MB) /\ Sized(256, 2 * Nand!MB) /\ Sized(512, 4 * Nand!MB) /\ Sized(512, 8 * Nand!MB)
      /\ Sized(512, 16 * Nand!MB) /\ Sized(512, 32 * Nand!MB) /\ Sized(512, 64 * Nand!MB)
      /\ Sized(512, 128 * Nand!MB) /\ Sized(512, 256 * Nand!MB)
  BY SMTT(30) DEF Nand!MB, Most, SmallMost, Sized
<1>2. /\ Sized(0, 64 * Nand!MB) /\ Sized(0, 128 * Nand!MB) /\ Sized(0, 256 * Nand!MB) /\ Sized(0, 512 * Nand!MB)
      /\ Sized(0, 1024 * Nand!MB) /\ Sized(0, 2048 * Nand!MB)
  BY SMTT(30) DEF Nand!MB, Most, SmallMost, Sized
<1>3. \A ids, ps, size, bl, bits : Sized(ps, size) /\ (bits = 8 \/ bits = 16) => Sane(Nand!Part(ids, ps, size, bl, bits).info)
  BY PartSane
<1>4. \A d \in DOMAIN Nand!superand_ids : Sane(Nand!superand_ids[d])
  BY <1>1, <1>3, TableSane, SMTT(30) DEF Nand!superand_ids
<1>5. \A d \in DOMAIN Nand!flash_ids : Sane(Nand!flash_ids[d])
  BY <1>1, <1>2, <1>3, TableSane, SMTT(60) DEF Nand!flash_ids
<1> QED
  BY <1>4, <1>5

\* The chip on the board, if its port's table names it.
Listed == board \in NandBoards /\ board.chip.dev \in DOMAIN ChipTable

\* What every port can read.
LEMMA ChipReadable ==
  ASSUME board \in NandBoards
  PROVE  Nand!Readable(board)
BY ReadableAssumption DEF Nand!ChipsAreReadable

\* Its width, size and page.
LEMMA ChipSane ==
  ASSUME Listed
  PROVE  /\ board.chip.bits \in {8, 16} /\ board.chip.size \in Nat \ {0} /\ board.chip.size <= Most
         /\ board.chip.page_size \in {512, 1024, 2048, 4096, 8192}
         /\ board.chip.page_size = 512 => board.chip.size <= SmallMost
<1>1. PICK c, info : c = board.chip /\ info = ChipTable[c.dev]
  OBVIOUS
<1>2. Nand!Matches(c, info) /\ c.page_size \in Nat /\ c.ext \in 0 .. 255
  BY <1>1, ChipInTable DEF Listed
<1>3. Sane(info)
  <2>1. CASE TableName = "superand"
    <3>1. ChipTable = Nand!superand_ids
      BY <2>1 DEF ChipTable, Nand!Table
    <3> QED
      BY <1>1, <3>1, TablesSane DEF Listed
  <2>2. CASE TableName = "all"
    <3>1. ChipTable = Nand!flash_ids
      BY <2>2 DEF ChipTable, Nand!Table
    <3> QED
      BY <1>1, <3>1, TablesSane DEF Listed
  <2>3. CASE TableName = "small"
    <3>1. ChipTable = [d \in {e \in DOMAIN Nand!flash_ids : Nand!flash_ids[e].page_size # 0} |-> Nand!flash_ids[d]]
      BY <2>3 DEF ChipTable, Nand!Table
    <3>2. c.dev \in DOMAIN Nand!flash_ids /\ info = Nand!flash_ids[c.dev]
      BY <1>1, <3>1 DEF Listed
    <3> QED
      BY <3>2, TablesSane
  <2> QED
    BY <2>1, <2>2, <2>3 DEF TableName
<1>4. c.bits \in {8, 16} /\ c.size \in Nat \ {0} /\ c.size <= Most
  BY <1>2, <1>3 DEF Nand!Matches, Sane
<1>5. c.page_size >= 512
  BY <1>1, ChipReadable DEF Nand!Readable, Listed
<1>6. CASE info.page_size = 0
  <2>1. c.page_size = Nand!PageSize(c.ext) /\ c.page_size > 512
    BY <1>2, <1>6 DEF Nand!Matches
  <2>2. 1 + (c.ext % 4) \in {1, 2, 3, 4}
    BY <1>2
  <2>3. c.page_size \in {1024, 2048, 4096, 8192}
    BY <2>1, <2>2 DEF Nand!PageSize
  <2> QED
    BY <1>1, <1>4, <2>3
<1>7. CASE info.page_size # 0
  <2>1. c.page_size = info.page_size /\ c.page_size <= 512 /\ c.size = info.size
    BY <1>2, <1>7 DEF Nand!Matches
  <2>2. c.page_size = 512 /\ c.size <= SmallMost
    BY <1>2, <1>3, <1>5, <2>1 DEF Sane
  <2> QED
    BY <1>1, <1>4, <2>2
<1> QED
  BY <1>6, <1>7

\* How many rows that makes, and which chips have more than two bytes name.
ManyRows == RowsOf(board.chip) > TwoBytes

\* A chip has no more rows than its address bytes name, and the limits of its port tell which need three.
LEMMA RowsBounded ==
  ASSUME Listed
  PROVE  /\ RowsOf(board.chip) \in Nat /\ RowsOf(board.chip) <= RowMost
         /\ board.chip.page_size = 512 => (RowsOf(board.chip) = 2 * board.chip.size) /\ (ManyRows <=> board.chip.size > Nand!SmallLimit)
         /\ board.chip.page_size # 512 /\ ManyRows => board.chip.size > Nand!LargeLimit
<1>1. PICK z \in Nat \ {0}, p \in {512, 1024, 2048, 4096, 8192} : z <= Most /\ z = board.chip.size /\ p = board.chip.page_size
  BY ChipSane
<1>2. p = 1024 => z <= TwoBytes \/ z > Nand!LargeLimit
  <2>1. p = 1024 => z <= 64 * Nand!MB \/ z > Nand!LargeLimit
    <3>1. board.chip.page_size = 1024 => board.chip.size <= 64 * Nand!MB \/ board.chip.size > Nand!LargeLimit
      BY ChipReadable DEF Nand!Readable, Listed
    <3> QED
      BY <1>1, <3>1, Zenon
  <2>2. 64 * Nand!MB = TwoBytes
    BY SMTT(30) DEF Nand!MB, TwoBytes
  <2> QED
    BY <2>1, <2>2
<1>3. 2 * Nand!SmallLimit = TwoBytes /\ Nand!LargeLimit = 2 * TwoBytes /\ Nand!SmallLimit \in Nat
  BY SMTT(30) DEF Nand!SmallLimit, Nand!LargeLimit, Nand!MB, TwoBytes
<1>4. RowsOf(board.chip) = (2 * z) \div (p \div 512)
  BY <1>1 DEF RowsOf
<1>5. CASE p = 512
  <2>1. p \div 512 = 1 /\ (2 * z) \div 1 = 2 * z
    BY <1>5, SMTT(30)
  <2> QED
    BY <1>1, <1>3, <1>4, <1>5, <2>1, SMTT(30) DEF ManyRows, Most, RowMost, TwoBytes
<1>6. CASE p = 1024
  <2>1. p \div 512 = 2 /\ (2 * z) \div 2 = z
    BY <1>6, SMTT(30)
  <2> QED
    BY <1>1, <1>2, <1>3, <1>4, <1>6, <2>1, SMTT(30) DEF ManyRows, Most, RowMost, TwoBytes
<1>7. CASE p = 2048
  <2>1. p \div 512 = 4 /\ (2 * z) \div 4 <= z \div 2 /\ (2 * z) \div 4 \in Nat
    BY <1>7, SMTT(30)
  <2> QED
    BY <1>1, <1>3, <1>4, <1>7, <2>1, SMTT(30) DEF ManyRows, Most, RowMost, TwoBytes
<1>8. CASE p = 4096
  <2>1. p \div 512 = 8 /\ (2 * z) \div 8 <= z \div 4 /\ (2 * z) \div 8 \in Nat
    BY <1>8, SMTT(30)
  <2> QED
    BY <1>1, <1>3, <1>4, <1>8, <2>1, SMTT(30) DEF ManyRows, Most, RowMost, TwoBytes
<1>9. CASE p = 8192
  <2>1. p \div 512 = 16 /\ (2 * z) \div 16 <= z \div 8 /\ (2 * z) \div 16 \in Nat
    BY <1>9, SMTT(30)
  <2> QED
    BY <1>1, <1>3, <1>4, <1>9, <2>1, SMTT(30) DEF ManyRows, Most, RowMost, TwoBytes
<1> QED
  BY <1>1, <1>5, <1>6, <1>7, <1>8, <1>9

\* The bytes behind the columns name a row: two of them, or three if the chip has that many.
NamesRow(a, columns, page) ==
  /\ Len(a) \in Nat /\ Len(a) >= columns + 2
  /\ a[columns + 1] = Nand!Byte(page, 0) /\ a[columns + 2] = Nand!Byte(page, 1)
  /\ ManyRows => Len(a) >= columns + 3 /\ a[columns + 3] = Nand!Byte(page, 2)

\* The bytes of a page that is there.
LEMMA BytesOfPage ==
  ASSUME NEW page \in Nat, page < ThreeBytes
  PROVE  /\ Nand!Byte(page, 0) + 256 * Nand!Byte(page, 1) + TwoBytes * Nand!Byte(page, 2) = page
         /\ page < TwoBytes => Nand!Byte(page, 0) + 256 * Nand!Byte(page, 1) = page
         /\ Nand!Byte(page, 0) \in 0 .. 255 /\ Nand!Byte(page, 1) \in 0 .. 255
<1>1. /\ Nand!Byte(page, 0) = (page \div 1) % 256 /\ Nand!Byte(page, 1) = (page \div 256) % 256
      /\ Nand!Byte(page, 2) = (page \div TwoBytes) % 256
  BY SMTT(30) DEF Nand!Byte, TwoBytes
<1> QED
  BY <1>1, SMTT(30) DEF TwoBytes, ThreeBytes

\* The chip finds the row it is given.
LEMMA RowFound ==
  ASSUME Listed, NEW page \in Nat, page < RowsOf(board.chip), NEW a, NEW columns \in {1, 2}, NEW col, NamesRow(a, columns, page)
  PROVE  AddressedAt(board.chip, a, columns, col) = [row |-> page, col |-> col]
<1>1. PICK rows \in Nat : rows = RowsOf(board.chip) /\ rows <= RowMost
  BY RowsBounded
<1>0. PICK b2 : b2 = Nand!Byte(page, 2)
  OBVIOUS
<1>2. PICK b0 \in 0 .. 255, b1 \in 0 .. 255 : b0 = Nand!Byte(page, 0) /\ b1 = Nand!Byte(page, 1)
  <2>1. page < ThreeBytes
    BY <1>1, SMTT(30) DEF RowMost, ThreeBytes
  <2> QED
    BY <2>1, BytesOfPage
<1>3. b0 + 256 * b1 + TwoBytes * b2 = page /\ (page < TwoBytes => b0 + 256 * b1 = page)
  <2>1. page < ThreeBytes
    BY <1>1, SMTT(30) DEF RowMost, ThreeBytes
  <2> QED
    BY <1>0, <1>2, <2>1, BytesOfPage
<1>4. page % rows = page
  <2>1. rows \in Nat \ {0} /\ page < rows
    BY <1>1
  <2> QED
    BY <2>1, Remainders
<1>5. CASE ManyRows
  <2>1. RowBytesOf(board.chip) = 3
    BY <1>1, <1>5, SMTT(30) DEF RowBytesOf, ManyRows, TwoBytes
  <2>2. Nand!Value(a, columns + 1, 3) = page
    <3>1. Nand!Value(a, columns + 1, 3) = a[columns + 1] + 256 * a[columns + 1 + 1] + TwoBytes * a[columns + 1 + 2]
      BY SMTT(30) DEF Nand!Value, TwoBytes
    <3>2. columns + 1 + 1 = columns + 2 /\ columns + 1 + 2 = columns + 3
      OBVIOUS
    <3>3. a[columns + 1] = b0 /\ a[columns + 2] = b1 /\ a[columns + 3] = b2
      BY <1>0, <1>2, <1>5 DEF NamesRow
    <3> QED
      BY <1>3, <3>1, <3>2, <3>3, SMTT(30)
  <2>3. Len(a) >= columns + 3
    BY <1>5 DEF NamesRow
  <2> QED
    BY <1>1, <1>4, <2>1, <2>2, <2>3 DEF AddressedAt
<1>6. CASE ~ManyRows
  <2>1. RowBytesOf(board.chip) = 2 /\ page < TwoBytes
    BY <1>1, <1>6, SMTT(30) DEF RowBytesOf, ManyRows, TwoBytes
  <2>2. Nand!Value(a, columns + 1, 2) = page
    <3>1. Nand!Value(a, columns + 1, 2) = a[columns + 1] + 256 * a[columns + 1 + 1] + 0
      BY SMTT(30) DEF Nand!Value, TwoBytes
    <3>2. columns + 1 + 1 = columns + 2
      OBVIOUS
    <3>3. a[columns + 1] = b0 /\ a[columns + 2] = b1
      BY <1>2 DEF NamesRow
    <3> QED
      BY <1>3, <2>1, <3>1, <3>2, <3>3, SMTT(30)
  <2>3. Len(a) >= columns + 2
    BY DEF NamesRow
  <2> QED
    BY <1>1, <1>4, <2>1, <2>2, <2>3 DEF AddressedAt
<1> QED
  BY <1>5, <1>6

-----------------------------------------------------------------------------
(* What has been stored where.                                             *)

Over(x, to, at) == x.to = to /\ x.at <= at /\ at < x.at + x.n

\* Nothing is stored at a place; one segment is, from that row and column.
BareAt(g, to, at) == \A k \in 1 .. Len(g) : ~Over(g[k], to, at)
HoldsAt(g, to, at, row, col) ==
  \E k \in 1 .. Len(g) :
    /\ Over(g[k], to, at) /\ \A j \in 1 .. Len(g) : Over(g[j], to, at) => j = k
    /\ g[k].from.row = row /\ g[k].from.col + (at - g[k].at) = col

\* The emulated chip knows one row.
RowSeen(page) == IF board.port = "dummy" THEN 0 ELSE page
Spot(page, col) == [row |-> RowSeen(page), col |-> col]

\* A page is in the buffer, and its spare.
FetchedIn(page, g) ==
  /\ IsList(g)
  /\ \A at \in 0 .. board.chip.page_size - 1 : HoldsAt(g, "page", at, RowSeen(page), at)
  /\ ~Super => \A at \in 0 .. (board.chip.page_size \div 32) - 1 :
                 HoldsAt(g, "spare", at, RowSeen(page), board.chip.page_size + at)

\* A list with one more element.
LEMMA OneMore ==
  ASSUME NEW g, IsList(g), NEW x
  PROVE  /\ IsList(Append(g, x)) /\ Len(g) \in Nat /\ Len(Append(g, x)) = Len(g) + 1
         /\ Append(g, x)[Len(g) + 1] = x /\ \A k \in 1 .. Len(g) : Append(g, x)[k] = g[k]
<1>1. PICK S : g \in Seq(S)
  BY DEF IsList
<1>2. PICK T : T = S \cup {x}
  OBVIOUS
<1>3. PICK n \in Nat : n = Len(g)
  BY <1>1, LenProperties
<1>4. g \in Seq(T) /\ x \in T
  <2>1. \A i \in 1 .. n : g[i] \in T
    BY <1>1, <1>2, <1>3, ElementOfSeq
  <2>2. g \in [1 .. n -> T]
    <3>1. g = [i \in 1 .. n |-> g[i]]
      BY <1>1, <1>3, LenProperties
    <3> QED
      BY <2>1, <3>1
  <2> QED
    BY <1>2, <2>2, FunctionIsSeq
<1>5. /\ Append(g, x) \in Seq(T) /\ Len(Append(g, x)) = Len(g) + 1
      /\ \A i \in 1 .. Len(g) : Append(g, x)[i] = g[i] /\ Append(g, x)[Len(g) + 1] = x
  BY <1>4, AppendProperties
<1>6. Append(g, x)[n + 1] = x
  BY <1>4, <1>3, AppendProperties
<1> QED
  BY <1>3, <1>5, <1>6 DEF IsList

Grown(g, x, h) ==
  /\ IsList(h) /\ Len(g) \in Nat /\ Len(h) = Len(g) + 1
  /\ h[Len(g) + 1] = x /\ \A k \in 1 .. Len(g) : h[k] = g[k]

\* The same, with a name.
LEMMA OneMoreGrown ==
  ASSUME NEW g, IsList(g), NEW x
  PROVE  Grown(g, x, Append(g, x))
BY OneMore, Zenon DEF Grown

\* A segment behind others: where they stored nothing, and where it stores nothing.
LEMMA SegmentAdded ==
  ASSUME NEW g, IsList(g), NEW x, NEW to, NEW at
  PROVE  /\ BareAt(g, to, at) /\ Over(x, to, at) =>
              HoldsAt(Append(g, x), to, at, x.from.row, x.from.col + (at - x.at))
         /\ \A row, col : HoldsAt(g, to, at, row, col) /\ ~Over(x, to, at) => HoldsAt(Append(g, x), to, at, row, col)
         /\ BareAt(g, to, at) /\ ~Over(x, to, at) => BareAt(Append(g, x), to, at)
<1>0. PICK h : h = Append(g, x)
  OBVIOUS
<1>1. PICK n \in Nat : n = Len(g) /\ Len(h) = n + 1 /\ h[n + 1] = x /\ \A k \in 1 .. n : h[k] = g[k]
  BY <1>0, OneMore
<1>2. \A k \in 1 .. n + 1 : k \in 1 .. n \/ k = n + 1
  OBVIOUS
<1>3. ASSUME BareAt(g, to, at), Over(x, to, at) PROVE HoldsAt(h, to, at, x.from.row, x.from.col + (at - x.at))
  <2>1. \A k \in 1 .. n : ~Over(h[k], to, at)
    BY <1>1, <1>3 DEF BareAt
  <2>2. \A k \in 1 .. n + 1 : Over(h[k], to, at) => k = n + 1
    BY <1>2, <2>1
  <2>3. n + 1 \in 1 .. n + 1
    OBVIOUS
  <2> QED
    BY <1>1, <1>3, <2>2, <2>3 DEF HoldsAt
<1>4. ASSUME NEW row, NEW col, HoldsAt(g, to, at, row, col), ~Over(x, to, at) PROVE HoldsAt(h, to, at, row, col)
  <2>1. PICK k \in 1 .. n : /\ Over(g[k], to, at) /\ \A j \in 1 .. n : Over(g[j], to, at) => j = k
                            /\ g[k].from.row = row /\ g[k].from.col + (at - g[k].at) = col
    BY <1>1, <1>4 DEF HoldsAt
  <2>2. \A j \in 1 .. n + 1 : Over(h[j], to, at) => j = k
    BY <1>1, <1>2, <1>4, <2>1
  <2>3. k \in 1 .. n + 1 /\ h[k] = g[k]
    BY <1>1
  <2> QED
    BY <1>1, <2>1, <2>2, <2>3 DEF HoldsAt
<1>5. ASSUME BareAt(g, to, at), ~Over(x, to, at) PROVE BareAt(h, to, at)
  BY <1>1, <1>2, <1>5 DEF BareAt
<1> QED
  BY <1>0, <1>3, <1>4, <1>5

\* Where nothing was stored, a segment gives what it was taken from.
LEMMA StoredNow ==
  ASSUME NEW g, IsList(g), NEW x, NEW to, NEW at, NEW row, NEW col, BareAt(g, to, at), Over(x, to, at),
         x.from.row = row, x.from.col + (at - x.at) = col
  PROVE  HoldsAt(Append(g, x), to, at, row, col)
BY SegmentAdded, Zenon

\* Nothing is stored yet.
LEMMA NothingStored ==
  ASSUME NEW to, NEW at
  PROVE  IsList(<<>>) /\ BareAt(<<>>, to, at)
<1>1. IsList(<<>>) /\ Len(<<>>) = 0
  BY OneElement
<1> QED
  BY <1>1 DEF BareAt

\* The fields of a segment.
LEMMA SegmentFields ==
  ASSUME NEW page, NEW to, NEW at, NEW n, NEW col
  PROVE  \A x : x = Segment_(to, at, n, Spot(page, col)) =>
           x.to = to /\ x.at = at /\ x.n = n /\ x.from.row = RowSeen(page) /\ x.from.col = col
BY DEF Segment_, Spot

\* A page in one piece and its spare in another.
LEMMA TwoSegments ==
  ASSUME NEW page, NEW ps \in Nat, ps = board.chip.page_size, NEW sp \in Nat, sp = ps \div 32
  PROVE  FetchedIn(page, Append(Append(<<>>, Segment_("page", 0, ps, Spot(page, 0))),
                                Segment_("spare", 0, sp, Spot(page, ps))))
<1> DEFINE row == RowSeen(page)
<1>1. PICK x : x = Segment_("page", 0, ps, Spot(page, 0))
  OBVIOUS
<1>2. PICK y : y = Segment_("spare", 0, sp, Spot(page, ps))
  OBVIOUS
<1>3. PICK g, h : g = Append(<<>>, x) /\ h = Append(g, y)
  OBVIOUS
<1> HIDE DEF row
<1>4. x.to = "page" /\ x.at = 0 /\ x.n = ps /\ x.from.row = row /\ x.from.col = 0
  BY <1>1, SegmentFields DEF row
<1>5. y.to = "spare" /\ y.at = 0 /\ y.n = sp /\ y.from.row = row /\ y.from.col = ps
  BY <1>2, SegmentFields DEF row
<1>6. IsList(<<>>) /\ IsList(g) /\ IsList(h)
  BY <1>3, NothingStored, OneMore
<1>7. ASSUME NEW at \in 0 .. ps - 1 PROVE HoldsAt(h, "page", at, row, at)
  <2>1. Over(x, "page", at) /\ ~Over(y, "page", at) /\ x.from.col + (at - x.at) = at
    BY <1>4, <1>5 DEF Over
  <2>2. HoldsAt(g, "page", at, row, at)
    <3>1. HoldsAt(Append(<<>>, x), "page", at, x.from.row, x.from.col + (at - x.at))
      BY <1>6, <2>1, NothingStored, SegmentAdded
    <3> QED
      BY <1>3, <1>4, <2>1, <3>1
  <2> QED
    BY <1>3, <1>6, <2>1, <2>2, SegmentAdded
<1>8. ASSUME NEW at \in 0 .. sp - 1 PROVE HoldsAt(h, "spare", at, row, ps + at)
  <2>1. ~Over(x, "spare", at) /\ Over(y, "spare", at) /\ y.from.col + (at - y.at) = ps + at
    BY <1>4, <1>5 DEF Over
  <2>2. BareAt(g, "spare", at)
    BY <1>3, <1>6, <2>1, NothingStored, SegmentAdded
  <2>3. HoldsAt(Append(g, y), "spare", at, y.from.row, y.from.col + (at - y.at))
    BY <1>6, <2>1, <2>2, SegmentAdded
  <2> QED
    BY <1>3, <1>5, <2>1, <2>3
<1>9. FetchedIn(page, h)
  BY <1>6, <1>7, <1>8 DEF FetchedIn, row
<1> QED
  BY <1>1, <1>2, <1>3, <1>9 DEF row

\* A small page in two halves, and its spare.
LEMMA ThreeSegments ==
  ASSUME NEW page, board.chip.page_size = 512
  PROVE  FetchedIn(page, Append(Append(Append(<<>>, Segment_("page", 0, 256, Spot(page, 0))),
                                       Segment_("page", 256, 256, Spot(page, 256))),
                                Segment_("spare", 0, 16, Spot(page, 512))))
<1> DEFINE row == RowSeen(page)
<1>1. PICK x : x = Segment_("page", 0, 256, Spot(page, 0))
  OBVIOUS
<1>2. PICK y : y = Segment_("page", 256, 256, Spot(page, 256))
  OBVIOUS
<1>3. PICK z : z = Segment_("spare", 0, 16, Spot(page, 512))
  OBVIOUS
<1>4. PICK f, g, h : f = Append(<<>>, x) /\ g = Append(f, y) /\ h = Append(g, z)
  OBVIOUS
<1> HIDE DEF row
<1>5. x.to = "page" /\ x.at = 0 /\ x.n = 256 /\ x.from.row = row /\ x.from.col = 0
  BY <1>1, SegmentFields DEF row
<1>6. y.to = "page" /\ y.at = 256 /\ y.n = 256 /\ y.from.row = row /\ y.from.col = 256
  BY <1>2, SegmentFields DEF row
<1>7. z.to = "spare" /\ z.at = 0 /\ z.n = 16 /\ z.from.row = row /\ z.from.col = 512
  BY <1>3, SegmentFields DEF row
<1>8. IsList(<<>>) /\ IsList(f) /\ IsList(g) /\ IsList(h)
  <2>1. IsList(<<>>)
    BY NothingStored
  <2>2. IsList(f)
    BY <1>4, <2>1, OneMore
  <2>3. IsList(g)
    BY <1>4, <2>2, OneMore
  <2> QED
    BY <1>4, <2>1, <2>2, <2>3, OneMore
<1>9. ASSUME NEW at \in 0 .. 511 PROVE HoldsAt(h, "page", at, row, at)
  <2>1. ~Over(z, "page", at)
    BY <1>7 DEF Over
  <2>2. HoldsAt(g, "page", at, row, at)
    <3>1. CASE at < 256
      <4>1. Over(x, "page", at) /\ ~Over(y, "page", at) /\ x.from.col + (at - x.at) = at
        BY <1>5, <1>6, <3>1 DEF Over
      <4>2. PICK e : e = <<>>
        OBVIOUS
      <4>3. IsList(e) /\ BareAt(e, "page", at) /\ f = Append(e, x)
        BY <1>4, <1>8, <4>2, NothingStored
      <4>4. HoldsAt(Append(e, x), "page", at, row, at)
        BY <1>5, <4>1, <4>3, StoredNow
      <4>5. HoldsAt(f, "page", at, row, at)
        BY <4>3, <4>4
      <4> QED
        BY <1>4, <1>8, <4>1, <4>5, SegmentAdded
    <3>2. CASE at >= 256
      <4>1. ~Over(x, "page", at) /\ Over(y, "page", at) /\ y.from.col + (at - y.at) = at
        BY <1>5, <1>6, <3>2 DEF Over
      <4>2. BareAt(f, "page", at)
        BY <1>4, <1>8, <4>1, NothingStored, SegmentAdded
      <4>3. HoldsAt(Append(f, y), "page", at, y.from.row, y.from.col + (at - y.at))
        BY <1>8, <4>1, <4>2, SegmentAdded
      <4> QED
        BY <1>4, <1>6, <4>1, <4>3
    <3> QED
      BY <3>1, <3>2
  <2> QED
    BY <1>4, <1>8, <2>1, <2>2, SegmentAdded
<1>10. ASSUME NEW at \in 0 .. 15 PROVE HoldsAt(h, "spare", at, row, 512 + at)
  <2>1. ~Over(x, "spare", at) /\ ~Over(y, "spare", at) /\ Over(z, "spare", at) /\ z.from.col + (at - z.at) = 512 + at
    BY <1>5, <1>6, <1>7 DEF Over
  <2>2. BareAt(f, "spare", at)
    BY <1>4, <1>8, <2>1, NothingStored, SegmentAdded
  <2>3. BareAt(g, "spare", at)
    BY <1>4, <1>8, <2>1, <2>2, SegmentAdded
  <2>4. HoldsAt(Append(g, z), "spare", at, z.from.row, z.from.col + (at - z.at))
    BY <1>8, <2>1, <2>3, SegmentAdded
  <2> QED
    BY <1>4, <1>7, <2>1, <2>4
<1>11. PICK ps : ps = board.chip.page_size /\ ps = 512
  OBVIOUS
<1>12. FetchedIn(page, h)
  <2>1. ps - 1 = 511 /\ (ps \div 32) - 1 = 15
    BY <1>11
  <2>2. \A at \in 0 .. ps - 1 : HoldsAt(h, "page", at, row, at)
    BY <1>9, <2>1
  <2>3. \A at \in 0 .. (ps \div 32) - 1 : HoldsAt(h, "spare", at, row, ps + at)
    BY <1>10, <1>11, <2>1
  <2> QED
    BY <1>8, <1>11, <2>2, <2>3 DEF FetchedIn, row
<1> QED
  BY <1>1, <1>2, <1>3, <1>4, <1>12 DEF row

\* The page of a SuperAND has no spare.
LEMMA OneSegment ==
  ASSUME NEW page, NEW ps \in Nat, ps = board.chip.page_size, Super
  PROVE  FetchedIn(page, Append(<<>>, Segment_("page", 0, ps, Spot(page, 0))))
<1> DEFINE row == RowSeen(page)
<1>1. PICK x, g : x = Segment_("page", 0, ps, Spot(page, 0)) /\ g = Append(<<>>, x)
  OBVIOUS
<1> HIDE DEF row
<1>2. x.to = "page" /\ x.at = 0 /\ x.n = ps /\ x.from.row = row /\ x.from.col = 0
  BY <1>1, SegmentFields DEF row
<1>3. IsList(<<>>) /\ IsList(g)
  BY <1>1, NothingStored, OneMore
<1>4. ASSUME NEW at \in 0 .. ps - 1 PROVE HoldsAt(g, "page", at, row, at)
  <2>1. Over(x, "page", at) /\ x.from.col + (at - x.at) = at
    BY <1>2 DEF Over
  <2>2. HoldsAt(Append(<<>>, x), "page", at, x.from.row, x.from.col + (at - x.at))
    BY <1>3, <2>1, NothingStored, SegmentAdded
  <2> QED
    BY <1>1, <1>2, <2>1, <2>2
<1>5. FetchedIn(page, g)
  BY <1>3, <1>4 DEF FetchedIn, row
<1> QED
  BY <1>1, <1>5 DEF row

-----------------------------------------------------------------------------
(* Pages read over the bus.                                                *)

\* The row bytes a port sends.
LEMMA RowSent ==
  ASSUME Listed, entry = OfChip, NEW page, NEW limit
  PROVE  \E r : /\ r = Nand!RowOf(page, limit) /\ IsList(r) /\ Len(r) \in Nat /\ Len(r) >= 2
                /\ r[1] = Nand!Byte(page, 0) /\ r[2] = Nand!Byte(page, 1)
                /\ board.chip.size > limit => Len(r) >= 3 /\ r[3] = Nand!Byte(page, 2)
<1>1. PICK r, low, b0, b1, b2 : /\ r = Nand!RowOf(page, limit) /\ low = <<b0, b1>>
                                /\ b0 = Nand!Byte(page, 0) /\ b1 = Nand!Byte(page, 1) /\ b2 = Nand!Byte(page, 2)
  OBVIOUS
<1>2. IsList(low) /\ Len(low) = 2 /\ low[1] = b0 /\ low[2] = b1
  <2>1. low \in Seq({b0, b1}) /\ Len(low) = 2 /\ low[1] = b0 /\ low[2] = b1
    BY <1>1
  <2> QED
    BY <2>1 DEF IsList
<1>3. entry.size = board.chip.size
  BY DEF OfChip
<1>4. r = IF board.chip.size > limit THEN Append(low, b2) ELSE low
  BY <1>1, <1>3 DEF Nand!RowOf
<1>5. CASE board.chip.size > limit
  <2>1. PICK n : n = Len(low) /\ n = 2
    BY <1>2
  <2>2. IsList(r) /\ Len(r) = n + 1 /\ r[n + 1] = b2 /\ \A k \in 1 .. n : r[k] = low[k]
    <3>1. r = Append(low, b2)
      BY <1>4, <1>5
    <3>2. Grown(low, b2, r)
      BY <1>2, <3>1, OneMoreGrown, Zenon
    <3> QED
      BY <2>1, <3>2 DEF Grown
  <2>3. Len(r) = 3 /\ r[3] = b2 /\ r[1] = b0 /\ r[2] = b1
    BY <1>2, <2>1, <2>2
  <2> QED
    BY <1>1, <2>2, <2>3
<1>6. CASE ~(board.chip.size > limit)
  BY <1>1, <1>2, <1>4, <1>6
<1> QED
  BY <1>5, <1>6

\* The address of a small page.
LEMMA SmallAddress ==
  ASSUME Listed, entry = OfChip, board.chip.page_size = 512, NEW page
  PROVE  \E a : a = <<0>> \o Nand!RowOf(page, Nand!SmallLimit) /\ a[1] = 0 /\ NamesRow(a, 1, page)
<1>1. PICK r : /\ r = Nand!RowOf(page, Nand!SmallLimit) /\ IsList(r) /\ Len(r) \in Nat /\ Len(r) >= 2
               /\ r[1] = Nand!Byte(page, 0) /\ r[2] = Nand!Byte(page, 1)
               /\ board.chip.size > Nand!SmallLimit => Len(r) >= 3 /\ r[3] = Nand!Byte(page, 2)
  BY RowSent
<1>2. PICK z, a : z = <<0>> /\ a = z \o r /\ IsList(z) /\ Len(z) = 1 /\ z[1] = 0
  <2>1. PICK z, a : z = <<0>> /\ a = z \o r
    OBVIOUS
  <2>2. IsList(z) /\ Len(z) = 1 /\ z[1] = 0
    BY <2>1, OneElement
  <2> QED
    BY <2>1, <2>2
<1>3. Joins(z, r, a)
  BY <1>1, <1>2, ListsJoin
<1>4. /\ Len(a) = 1 + Len(r) /\ a[1] = 0 /\ a[2] = r[1] /\ a[3] = r[2]
      /\ Len(r) >= 3 => a[4] = r[3]
  <2>1. \A i \in 1 .. 1 : a[i] = z[i]
    BY <1>2, <1>3 DEF Joins
  <2>2. \A i \in 1 .. Len(r) : a[1 + i] = r[i]
    BY <1>2, <1>3 DEF Joins
  <2>3. Len(a) = 1 + Len(r)
    BY <1>2, <1>3 DEF Joins
  <2> QED
    BY <1>1, <1>2, <2>1, <2>2, <2>3
<1>5. ManyRows => board.chip.size > Nand!SmallLimit
  BY RowsBounded
<1>6. NamesRow(a, 1, page)
  <2>1. 1 + 1 = 2 /\ 1 + 2 = 3 /\ 1 + 3 = 4
    OBVIOUS
  <2>2. Len(a) \in Nat /\ Len(a) >= 3 /\ (Len(r) >= 3 => Len(a) >= 4)
    BY <1>1, <1>4
  <2> QED
    BY <1>1, <1>4, <1>5, <2>1, <2>2 DEF NamesRow
<1> QED
  BY <1>1, <1>2, <1>4, <1>6, Zenon

\* The address of a large page.
LEMMA LargeAddress ==
  ASSUME Listed, entry = OfChip, board.chip.page_size # 512, NEW page
  PROVE  \E a : a = <<0, 0>> \o Nand!RowOf(page, Nand!LargeLimit) /\ a[1] = 0 /\ a[2] = 0 /\ NamesRow(a, 2, page)
<1>1. PICK r : /\ r = Nand!RowOf(page, Nand!LargeLimit) /\ IsList(r) /\ Len(r) \in Nat /\ Len(r) >= 2
               /\ r[1] = Nand!Byte(page, 0) /\ r[2] = Nand!Byte(page, 1)
               /\ board.chip.size > Nand!LargeLimit => Len(r) >= 3 /\ r[3] = Nand!Byte(page, 2)
  BY RowSent
<1>2. PICK z, a : z = <<0, 0>> /\ a = z \o r /\ IsList(z) /\ Len(z) = 2 /\ z[1] = 0 /\ z[2] = 0
  <2>1. PICK z : z = <<0, 0>>
    OBVIOUS
  <2>2. z \in Seq({0}) /\ Len(z) = 2 /\ z[1] = 0 /\ z[2] = 0
    BY <2>1
  <2>3. IsList(z)
    BY <2>2 DEF IsList
  <2> QED
    BY <2>1, <2>2, <2>3
<1>3. Joins(z, r, a)
  BY <1>1, <1>2, ListsJoin
<1>4. /\ Len(a) = 2 + Len(r) /\ a[1] = 0 /\ a[2] = 0 /\ a[3] = r[1] /\ a[4] = r[2]
      /\ Len(r) >= 3 => a[5] = r[3]
  <2>1. \A i \in 1 .. 2 : a[i] = z[i]
    BY <1>2, <1>3 DEF Joins
  <2>2. \A i \in 1 .. Len(r) : a[2 + i] = r[i]
    BY <1>2, <1>3 DEF Joins
  <2>3. Len(a) = 2 + Len(r)
    BY <1>2, <1>3 DEF Joins
  <2> QED
    BY <1>1, <1>2, <2>1, <2>2, <2>3
<1>5. ManyRows => board.chip.size > Nand!LargeLimit
  BY RowsBounded
<1>6. NamesRow(a, 2, page)
  <2>1. 2 + 1 = 3 /\ 2 + 2 = 4 /\ 2 + 3 = 5
    OBVIOUS
  <2>2. Len(a) \in Nat /\ Len(a) >= 4 /\ (Len(r) >= 3 => Len(a) >= 5)
    BY <1>1, <1>4
  <2> QED
    BY <1>1, <1>4, <1>5, <2>1, <2>2 DEF NamesRow
<1> QED
  BY <1>1, <1>2, <1>4, <1>6, Zenon

\* A page of a chip that was identified; the bus is as wide as the chip, and what one bit says
\* of its pages is so.
Asks(page) == Listed /\ entry = OfChip /\ page \in Nat /\ page < RowsOf(board.chip)
SmallChip == board.port # "superand" /\ board.chip.page_size = 512
LargeChip == board.port \notin {"superand", "dummy"} /\ board.chip.page_size # 512
Wide(w) == IsOn(HwFields, w) /\ w.width = board.chip.bits /\ AnnouncedBy(board, w)

\* The address bytes a chip with small pages finds a page by, and one with large ones.
NamesSmall(a, page) == board.port # "dummy" => a[1] = 0 /\ NamesRow(a, 1, page)
NamesLarge(a, page) == a[1] = 0 /\ a[2] = 0 /\ NamesRow(a, 2, page)

\* The commands for a small page; a chip that is ready behind a command.
SmallCommands == {"READ0", "READ1", "READOOB"}
Ready(b, cmd, a, k) == BusIs(b, cmd, a, k, TRUE)

\* What a small chip gives, the emulated one included.
LEMMA SmallGiven ==
  ASSUME NEW page, Asks(page), SmallChip, NEW a, NamesSmall(a, page), NEW w, Wide(w),
         NEW b, NEW cmd \in SmallCommands, NEW k, Ready(b, cmd, a, k), NEW ahead
  PROVE  GivenBy(board, b, w, ahead) = Spot(page, Nand!ColumnBase[cmd] + ahead)
<1>0. /\ Listed /\ board.port # "superand" /\ board.chip.page_size = 512 /\ page \in Nat /\ page < RowsOf(board.chip)
      /\ (board.port # "dummy" => a[1] = 0 /\ NamesRow(a, 1, page)) /\ w.width = board.chip.bits
      /\ AnnouncedBy(board, w)
  BY DEF Asks, SmallChip, NamesSmall, Wide
<1>1. b.cmd = cmd /\ b.addr = a /\ b.ready = TRUE
  BY DEF BusIs, Ready
<1>2. cmd \in DOMAIN Nand!ColumnBase /\ Nand!ColumnBase[cmd] \in Nat
  BY DEF Nand!ColumnBase, SmallCommands
<1>3. SelectedBy(board, b) = [row |-> RowSeen(page), col |-> Nand!ColumnBase[cmd]]
  <2>1. CASE board.port = "dummy"
    BY <1>0, <1>1, <1>2, <2>1 DEF SelectedBy, RowSeen
  <2>2. CASE board.port # "dummy"
    <3>1. AddressedAt(board.chip, a, 1, Nand!ColumnBase[cmd] + a[1]) = [row |-> page, col |-> Nand!ColumnBase[cmd] + a[1]]
      BY <1>0, <2>2, RowFound
    <3>2. Nand!ColumnBase[cmd] + a[1] = Nand!ColumnBase[cmd]
      BY <1>0, <1>2, <2>2
    <3>3. Len(a) > 0
      BY <1>0, <2>2 DEF NamesRow
    <3>4. SelectedBy(board, b) = AddressedAt(board.chip, b.addr, 1, Nand!ColumnBase[b.cmd] + b.addr[1])
      BY <1>0, <1>1, <1>2, <2>2, <3>3 DEF SelectedBy
    <3> QED
      BY <1>1, <2>2, <3>1, <3>2, <3>4 DEF RowSeen
  <2> QED
    BY <2>1, <2>2
<1>4. RowSeen(page) # -1
  BY <1>0 DEF RowSeen
<1>5. SelectedBy(board, b) # Nand!Nowhere
  BY <1>3, <1>4 DEF Nand!Nowhere
<1> QED
  BY <1>0, <1>1, <1>3, <1>5 DEF GivenBy, Spot

\* What a large chip gives.
LEMMA LargeGiven ==
  ASSUME NEW page, Asks(page), LargeChip, NEW a, NamesLarge(a, page), NEW w, Wide(w),
         NEW b, NEW k, Ready(b, "READSTART", a, k), NEW ahead \in Nat
  PROVE  GivenBy(board, b, w, ahead) = Spot(page, ahead)
<1>0. /\ Listed /\ board.port \notin {"superand", "dummy"} /\ board.chip.page_size # 512 /\ page \in Nat
      /\ page < RowsOf(board.chip) /\ a[1] = 0 /\ a[2] = 0 /\ NamesRow(a, 2, page) /\ w.width = board.chip.bits
      /\ AnnouncedBy(board, w)
  BY DEF Asks, LargeChip, NamesLarge, Wide
<1>1. b.cmd = "READSTART" /\ b.addr = a /\ b.ready = TRUE
  BY DEF BusIs, Ready
<1>2. SelectedBy(board, b) = [row |-> page, col |-> 0]
  <2>1. AddressedAt(board.chip, a, 2, a[1] + 256 * a[2]) = [row |-> page, col |-> a[1] + 256 * a[2]]
    BY <1>0, RowFound
  <2>2. a[1] + 256 * a[2] = 0
    BY <1>0
  <2>3. Len(a) > 1 /\ board.chip.page_size > 512
    BY <1>0, ChipSane DEF NamesRow
  <2>4. SelectedBy(board, b) = AddressedAt(board.chip, b.addr, 2, b.addr[1] + 256 * b.addr[2])
    BY <1>0, <1>1, <2>3 DEF SelectedBy
  <2> QED
    BY <1>1, <2>1, <2>2, <2>4
<1>3. SelectedBy(board, b) # Nand!Nowhere
  BY <1>0, <1>2 DEF Nand!Nowhere
<1>4. RowSeen(page) = page
  BY <1>0 DEF RowSeen
<1> QED
  BY <1>0, <1>1, <1>2, <1>3, <1>4 DEF GivenBy, Spot

\* A list stores one more segment; a list stores a page.
Adds(w, list, x) == IsList(list) /\ \A s : s.hw = w => Ends(board, s, list, w, Append(s.got, x))
Fetches(s, list, page) == IsList(list) /\ \E t : Runs(board, s, list, t) /\ FetchedIn(page, t.got)

\* Lists put together, either way.
LEMMA ListsMove ==
  ASSUME NEW a, NEW b, NEW c, IsList(a), IsList(b), IsList(c)
  PROVE  a \o b \o c = a \o (b \o c)
<1>1. PICK x : x = a \o b /\ IsList(x) /\ Joins(a, b, x)
  BY ListsJoin
<1>2. PICK y : y = b \o c /\ IsList(y) /\ Joins(b, c, y)
  BY ListsJoin
<1>3. PICK u : u = x \o c /\ IsList(u) /\ Joins(x, c, u)
  BY <1>1, ListsJoin
<1>4. PICK v : v = a \o y /\ IsList(v) /\ Joins(a, y, v)
  BY <1>2, ListsJoin
<1>5. PICK k \in Nat : k = Len(a)
  BY <1>1 DEF Joins
<1>6. PICK m \in Nat : m = Len(b)
  BY <1>1 DEF Joins
<1>7. PICK n \in Nat : n = Len(c)
  BY <1>2 DEF Joins
<1>8. /\ Len(x) = k + m /\ Len(y) = m + n /\ Len(u) = k + m + n /\ Len(v) = k + m + n
  BY <1>1, <1>2, <1>3, <1>4, <1>5, <1>6, <1>7 DEF Joins
<1>9. ASSUME NEW i \in 1 .. k + m + n PROVE u[i] = v[i]
  <2>1. CASE i <= k
    <3>1. i \in 1 .. k /\ i \in 1 .. k + m
      BY <2>1
    <3>2. u[i] = x[i] /\ x[i] = a[i] /\ v[i] = a[i]
      BY <1>1, <1>3, <1>4, <1>5, <1>8, <3>1 DEF Joins
    <3> QED
      BY <3>2
  <2>2. CASE i > k /\ i <= k + m
    <3>1. PICK j \in 1 .. m : i = k + j /\ i \in 1 .. k + m /\ j \in 1 .. m + n
      <4>1. i - k \in 1 .. m /\ i = k + (i - k) /\ i \in 1 .. k + m /\ i - k \in 1 .. m + n
        BY <2>2
      <4> QED
        BY <4>1
    <3>2. u[i] = x[i] /\ x[i] = b[j]
      BY <1>1, <1>3, <1>5, <1>6, <1>8, <3>1 DEF Joins
    <3>3. v[i] = y[j] /\ y[j] = b[j]
      BY <1>2, <1>4, <1>5, <1>6, <1>8, <3>1 DEF Joins
    <3> QED
      BY <3>2, <3>3
  <2>3. CASE i > k + m
    <3>1. PICK j \in 1 .. n : i = (k + m) + j /\ i = k + (m + j) /\ m + j \in 1 .. m + n
      <4>1. i - (k + m) \in 1 .. n /\ i = (k + m) + (i - (k + m)) /\ i = k + (m + (i - (k + m))) /\ m + (i - (k + m)) \in 1 .. m + n
        BY <2>3
      <4> QED
        BY <4>1
    <3>2. u[i] = c[j]
      BY <1>3, <1>7, <1>8, <3>1 DEF Joins
    <3>3. v[i] = y[m + j]
      BY <1>4, <1>5, <1>8, <3>1 DEF Joins
    <3>4. y[m + j] = c[j]
      BY <1>2, <1>6, <1>7, <3>1 DEF Joins
    <3> QED
      BY <3>2, <3>3, <3>4
  <2> QED
    BY <2>1, <2>2, <2>3
<1>10. u = v
  <2>1. \A s : IsList(s) => s = [i \in 1 .. Len(s) |-> s[i]]
    BY LenProperties DEF IsList
  <2>2. u = [i \in 1 .. k + m + n |-> u[i]] /\ v = [i \in 1 .. k + m + n |-> v[i]]
    BY <1>3, <1>4, <1>8, <2>1
  <2> QED
    BY <1>9, <2>2
<1> QED
  BY <1>1, <1>2, <1>3, <1>4, <1>10

\* A segment stored behind what a list did, in two steps.
LEMMA AddsBehind ==
  ASSUME NEW s, NEW p, NEW w, NEW g, Ends(board, s, p, w, g), NEW f, NEW k, IsList(f), IsList(k),
         NEW x, Adds(w, f \o k, x)
  PROVE  Ends(board, s, p \o f \o k, w, Append(g, x))
<1>1. PICK t : IsList(p) /\ Runs(board, s, p, t) /\ t.hw = w /\ t.got = g
  BY DEF Ends
<1>2. PICK c : c = f \o k
  OBVIOUS
<1>3. Ends(board, t, c, w, Append(g, x))
  BY <1>1, <1>2 DEF Adds
<1>4. PICK u : IsList(c) /\ Runs(board, t, c, u) /\ u.hw = w /\ u.got = Append(g, x)
  BY <1>3 DEF Ends
<1>5. Runs(board, s, p \o c, u) /\ IsList(p \o c)
  BY <1>1, <1>4, RunsJoin
<1>6. p \o f \o k = p \o c
  BY <1>1, <1>2, ListsMove
<1>7. Ends(board, s, p \o c, w, Append(g, x))
  BY <1>4, <1>5 DEF Ends
<1> QED
  BY <1>6, <1>7

\* A list that does nothing, alone and behind another.
LEMMA RunsNothing ==
  ASSUME NEW brd, NEW s
  PROVE  Runs(brd, s, <<>>, s) /\ IsList(<<>>)
<1>1. PICK e : e = <<>> /\ IsList(e) /\ Len(e) = 0
  BY OneElement
<1> DEFINE q == [k \in 0 .. 0 |-> s]
<1>2. q[0] = s
  OBVIOUS
<1> HIDE DEF q
<1>3. Runs(brd, s, e, s)
  BY <1>1, <1>2 DEF Runs
<1> QED
  BY <1>1, <1>3

\* Which changes nothing.
LEMMA NothingBehind ==
  ASSUME NEW brd, NEW s, NEW p, NEW w, NEW g, Ends(brd, s, p, w, g)
  PROVE  Ends(brd, s, p \o <<>>, w, g)
<1>1. PICK t : IsList(p) /\ Runs(brd, s, p, t) /\ t.hw = w /\ t.got = g
  BY DEF Ends
<1>2. PICK e : e = <<>> /\ IsList(e) /\ Runs(brd, t, e, t)
  BY RunsNothing
<1>3. Runs(brd, s, p \o e, t) /\ IsList(p \o e)
  BY <1>1, <1>2, RunsJoin
<1>4. Ends(brd, s, p \o e, w, g)
  BY <1>1, <1>3 DEF Ends
<1> QED
  BY <1>2, <1>4

\* A small page is selected, and the chip has become ready.
LEMMA FetchReaches ==
  ASSUME NEW s, NEW cmd \in SmallCommands, NEW page
  PROVE  Reaches(board, s, Nand!Fetch(cmd, page), cmd, <<0>> \o Nand!RowOf(page, Nand!SmallLimit), 0, TRUE, s.hw, s.got)
<1>1. PICK a, w, g : a = <<0>> \o Nand!RowOf(page, Nand!SmallLimit) /\ w = s.hw /\ g = s.got
  OBVIOUS
<1>2. PICK x : x = Nand!Send(cmd, a)
  OBVIOUS
<1>20. PICK y : y = x \o Nand!Wait
  OBVIOUS
<1>3. PICK t1 : IsList(x) /\ Runs(board, s, x, t1) /\ StateIs(t1, cmd, a, 0, FALSE, w, g)
  <2>1. Reaches(board, s, x, cmd, a, 0, FALSE, w, g)
    BY <1>1, <1>2, SendReaches DEF SmallCommands
  <2> QED
    BY <2>1 DEF Reaches
<1>4. PICK t2 : IsList(y) /\ Runs(board, s, y, t2) /\ StateIs(t2, cmd, a, 0, TRUE, w, g)
  <2>1. Reaches(board, t1, Nand!Wait, cmd, a, 0, TRUE, w, g)
    BY <1>3, WaitReaches
  <2>2. Reaches(board, s, y, cmd, a, 0, TRUE, w, g)
    BY <1>20, <1>3, <2>1, ReachesJoin, Zenon
  <2> QED
    BY <2>2 DEF Reaches
<1>5. Reaches(board, t2, Nand!Status, cmd, a, 0, TRUE, w, g)
  BY <1>4, StatusReaches
<1>6. Reaches(board, s, y \o Nand!Status, cmd, a, 0, TRUE, w, g)
  BY <1>4, <1>5, ReachesJoin, Zenon
<1>7. Nand!Fetch(cmd, page) = y \o Nand!Status
  BY <1>1, <1>2, <1>20, Zenon DEF Nand!Fetch
<1> QED
  BY <1>1, <1>6, <1>7, Zenon

\* A part of the bytes taken behind what made the chip ready.
LEMMA TakeAdds ==
  ASSUME NEW s, NEW f, NEW cmd, NEW a, NEW taken, NEW w, NEW g, Reaches(board, s, f, cmd, a, taken, TRUE, w, g),
         NEW from, \A b : Ready(b, cmd, a, taken) => GivenBy(board, b, w, taken) = from,
         NEW to, NEW at, NEW n
  PROVE  Reaches(board, s, f \o Nand!Take(to, at, n), cmd, a, taken + n, TRUE, w, Append(g, Segment_(to, at, n, from)))
<1>1. PICK t : IsList(f) /\ Runs(board, s, f, t) /\ StateIs(t, cmd, a, taken, TRUE, w, g)
  BY DEF Reaches
<1>2. GivenBy(board, t.bus, t.hw, taken) = from
  <2>1. Ready(t.bus, cmd, a, taken) /\ t.hw = w
    BY <1>1 DEF StateIs, Ready
  <2>2. GivenBy(board, t.bus, w, taken) = from
    BY <2>1
  <2> QED
    BY <2>1, <2>2
<1>3. Reaches(board, t, Nand!Take(to, at, n), cmd, a, taken + n, TRUE, w, Append(g, Segment_(to, at, n, from)))
  BY <1>1, <1>2, TakeReaches
<1> QED
  BY <1>1, <1>3, ReachesJoin

\* Where a list leads it ends.
LEMMA ReachesEnds ==
  ASSUME NEW brd, NEW s, NEW f, NEW cmd, NEW a, NEW taken, NEW ready, NEW w, NEW g,
         Reaches(brd, s, f, cmd, a, taken, ready, w, g)
  PROVE  Ends(brd, s, f, w, g)
<1>1. PICK t : IsList(f) /\ Runs(brd, s, f, t) /\ StateIs(t, cmd, a, taken, ready, w, g)
  BY DEF Reaches
<1>2. t.hw = w /\ t.got = g
  BY <1>1 DEF StateIs
<1> QED
  BY <1>1, <1>2 DEF Ends

\* A small page, selected and taken.
LEMMA FetchAdds ==
  ASSUME NEW page, Asks(page), SmallChip, NEW w, Wide(w),
         NEW cmd \in SmallCommands, NEW to, NEW at, NEW n
  PROVE  Adds(w, Nand!Fetch(cmd, page) \o Nand!Take(to, at, n),
              Segment_(to, at, n, Spot(page, Nand!ColumnBase[cmd])))
<1>1. PICK a : a = <<0>> \o Nand!RowOf(page, Nand!SmallLimit) /\ NamesSmall(a, page)
  BY SmallAddress DEF Asks, SmallChip, NamesSmall
<1>2. PICK from : from = Spot(page, Nand!ColumnBase[cmd])
  OBVIOUS
<1>3. ASSUME NEW b, Ready(b, cmd, a, 0) PROVE GivenBy(board, b, w, 0) = from
  <2>1. GivenBy(board, b, w, 0) = Spot(page, Nand!ColumnBase[cmd] + 0)
    BY <1>1, <1>3, SmallGiven
  <2>2. Nand!ColumnBase[cmd] + 0 = Nand!ColumnBase[cmd]
    BY DEF Nand!ColumnBase, SmallCommands
  <2> QED
    BY <1>2, <2>1, <2>2
<1>4. PICK f, k, x : f = Nand!Fetch(cmd, page) /\ k = Nand!Take(to, at, n) /\ x = Segment_(to, at, n, from)
  OBVIOUS
<1>5. ASSUME NEW s, s.hw = w PROVE Reaches(board, s, f \o k, cmd, a, 0 + n, TRUE, w, Append(s.got, x))
  <2>1. Reaches(board, s, f, cmd, a, 0, TRUE, w, s.got)
    <3>1. Reaches(board, s, f, cmd, a, 0, TRUE, s.hw, s.got)
      <4>1. Reaches(board, s, Nand!Fetch(cmd, page), cmd, <<0>> \o Nand!RowOf(page, Nand!SmallLimit), 0, TRUE, s.hw, s.got)
        BY FetchReaches, Zenon
      <4> QED
        BY <1>1, <1>4, <4>1, Zenon
    <3> QED
      BY <1>5, <3>1
  <2> QED
    BY <1>3, <1>4, <2>1, TakeAdds, Zenon
<1>6. ASSUME NEW s, s.hw = w PROVE Ends(board, s, f \o k, w, Append(s.got, x))
  BY <1>5, <1>6, ReachesEnds, Zenon
<1>7. IsList(f \o k)
  <2>1. PICK s : s = Seen(bus, w, got)
    OBVIOUS
  <2>2. s.hw = w
    BY <2>1, SeenFields
  <2> QED
    BY <1>6, <2>2 DEF Ends
<1>8. Adds(w, f \o k, x)
  BY <1>6, <1>7 DEF Adds
<1> QED
  BY <1>2, <1>4, <1>8, Zenon

\* The operations of a fetch are a list.
LEMMA FetchIsList ==
  ASSUME NEW cmd \in SmallCommands, NEW page
  PROVE  IsList(Nand!Fetch(cmd, page)) /\ \A to, at, n : IsList(Nand!Take(to, at, n))
<1>1. IsList(Nand!Fetch(cmd, page))
  BY FetchReaches DEF Reaches
<1>2. \A to, at, n : IsList(Nand!Take(to, at, n))
  BY OneElement DEF Nand!Take
<1> QED
  BY <1>1, <1>2

\* What was known of the chip's width.
LEMMA Widths ==
  ASSUME Listed, entry = OfChip
  PROVE  /\ entry.bit_width = board.chip.bits /\ entry.page_size = board.chip.page_size /\ entry.size = board.chip.size
         /\ entry.bit_width = 8 \/ entry.bit_width = 16
BY ChipSane DEF OfChip

\* Small pages, in halves where the bus has eight bits.
LEMMA SmallReads ==
  ASSUME NEW page, Asks(page), SmallChip, NEW s, Wide(s.hw), s.got = <<>>
  PROVE  \E g : Ends(board, s, Nand!SmallRead(page), s.hw, g) /\ FetchedIn(page, g)
<1>1. entry.bit_width = board.chip.bits /\ (entry.bit_width = 8 \/ entry.bit_width = 16)
  BY Widths DEF Asks
<1>2. PICK w : w = s.hw /\ Wide(w)
  OBVIOUS
<1>3. PICK f0 : f0 = Nand!Fetch("READ0", page)
  OBVIOUS
<1>4. PICK f1 : f1 = Nand!Fetch("READ1", page)
  OBVIOUS
<1>5. PICK f2 : f2 = Nand!Fetch("READOOB", page)
  OBVIOUS
<1>6. PICK many : many = 256 * (entry.bit_width \div 8)
  OBVIOUS
<1>7. PICK k0 : k0 = Nand!Take("page", 0, many)
  OBVIOUS
<1>8. PICK k1 : k1 = Nand!Take("page", 256, 256)
  OBVIOUS
<1>9. PICK k2 : k2 = Nand!Take("spare", 0, 16)
  OBVIOUS
<1>10. PICK x0 : x0 = Segment_("page", 0, many, Spot(page, 0))
  OBVIOUS
<1>11. PICK x1 : x1 = Segment_("page", 256, 256, Spot(page, 256))
  OBVIOUS
<1>12. PICK x2 : x2 = Segment_("spare", 0, 16, Spot(page, 512))
  OBVIOUS
<1>13. "READ0" \in SmallCommands /\ "READ1" \in SmallCommands /\ "READOOB" \in SmallCommands
  BY DEF SmallCommands
<1>14. IsList(f0) /\ IsList(f1) /\ IsList(f2) /\ IsList(k0) /\ IsList(k1) /\ IsList(k2)
  BY <1>3, <1>4, <1>5, <1>7, <1>8, <1>9, <1>13, FetchIsList
<1>15. Adds(w, f0 \o k0, x0) /\ Adds(w, f1 \o k1, x1) /\ Adds(w, f2 \o k2, x2)
  <2>1. Spot(page, Nand!ColumnBase["READ0"]) = Spot(page, 0) /\ Spot(page, Nand!ColumnBase["READ1"]) = Spot(page, 256)
        /\ Spot(page, Nand!ColumnBase["READOOB"]) = Spot(page, 512)
    BY DEF Nand!ColumnBase
  <2>2. Adds(w, f0 \o k0, x0)
    <3>1. Adds(w, f0 \o k0, Segment_("page", 0, many, Spot(page, Nand!ColumnBase["READ0"])))
      BY <1>2, <1>3, <1>7, <1>13, FetchAdds
    <3> QED
      BY <1>10, <2>1, <3>1
  <2>3. Adds(w, f1 \o k1, x1)
    <3>1. Adds(w, f1 \o k1, Segment_("page", 256, 256, Spot(page, Nand!ColumnBase["READ1"])))
      BY <1>2, <1>4, <1>8, <1>13, FetchAdds
    <3> QED
      BY <1>11, <2>1, <3>1
  <2>4. Adds(w, f2 \o k2, x2)
    <3>1. Adds(w, f2 \o k2, Segment_("spare", 0, 16, Spot(page, Nand!ColumnBase["READOOB"])))
      BY <1>2, <1>5, <1>9, <1>13, FetchAdds
    <3> QED
      BY <1>12, <2>1, <3>1
  <2> QED
    BY <2>2, <2>3, <2>4
<1>16. Ends(board, s, f0 \o k0, w, Append(<<>>, x0))
  <2>1. Ends(board, s, f0 \o k0, w, Append(s.got, x0))
    BY <1>2, <1>15 DEF Adds
  <2> QED
    BY <2>1
<1>17. PICK h : h = IF entry.bit_width = 8 THEN f1 \o k1 ELSE <<>>
  OBVIOUS
<1>18. Nand!SmallRead(page) = f0 \o k0 \o h \o f2 \o k2
  BY <1>3, <1>4, <1>5, <1>6, <1>7, <1>8, <1>9, <1>17, Zenon DEF Nand!SmallRead
<1>19. CASE entry.bit_width = 8
  <2>1. many = 256
    BY <1>6, <1>19
  <2>2. Ends(board, s, f0 \o k0 \o (f1 \o k1), w, Append(Append(<<>>, x0), x1))
    <3>1. f0 \o k0 \o f1 \o k1 = f0 \o k0 \o (f1 \o k1)
      <4>1. PICK p : p = f0 \o k0 /\ IsList(p)
        BY <1>14, ListsJoin
      <4>2. p \o f1 \o k1 = p \o (f1 \o k1)
        BY <1>14, <4>1, ListsMove
      <4> QED
        BY <4>1, <4>2, Zenon
    <3>2. Ends(board, s, f0 \o k0 \o f1 \o k1, w, Append(Append(<<>>, x0), x1))
      BY <1>14, <1>15, <1>16, AddsBehind
    <3> QED
      BY <3>1, <3>2
  <2>3. Ends(board, s, f0 \o k0 \o (f1 \o k1) \o f2 \o k2, w, Append(Append(Append(<<>>, x0), x1), x2))
    BY <1>14, <1>15, <2>2, AddsBehind
  <2>4. FetchedIn(page, Append(Append(Append(<<>>, x0), x1), x2))
    <3>1. x0 = Segment_("page", 0, 256, Spot(page, 0))
      BY <1>10, <2>1
    <3> QED
      BY <1>11, <1>12, <3>1, ThreeSegments DEF SmallChip
  <2>5. h = f1 \o k1
    BY <1>17, <1>19
  <2> QED
    BY <1>2, <1>18, <2>3, <2>4, <2>5
<1>20. CASE entry.bit_width = 16
  <2>1. many = 512
    BY <1>6, <1>20
  <2>2. Ends(board, s, f0 \o k0 \o <<>>, w, Append(<<>>, x0))
    BY <1>16, NothingBehind
  <2>3. Ends(board, s, f0 \o k0 \o <<>> \o f2 \o k2, w, Append(Append(<<>>, x0), x2))
    BY <1>14, <1>15, <2>2, AddsBehind, Zenon
  <2>4. FetchedIn(page, Append(Append(<<>>, x0), x2))
    <3>1. x0 = Segment_("page", 0, 512, Spot(page, 0)) /\ 512 \div 32 = 16
      BY <1>10, <2>1
    <3>2. 512 \in Nat /\ 16 \in Nat /\ board.chip.page_size = 512
      BY DEF SmallChip
    <3> QED
      BY <1>12, <3>1, <3>2, TwoSegments
  <2>5. h = <<>>
    BY <1>17, <1>20
  <2> QED
    BY <1>2, <1>18, <2>3, <2>4, <2>5, Zenon
<1> QED
  BY <1>1, <1>19, <1>20

\* What begins a large page, the wait and the look at the status, behind what selected it.
LEMMA StartBehind ==
  ASSUME NEW s, NEW p, NEW a, NEW w, NEW g, Reaches(board, s, p, "READ0", a, 0, FALSE, w, g)
  PROVE  Reaches(board, s, p \o Nand!Send("READSTART", <<>>), "READSTART", a, 0, FALSE, w, g)
<1>1. PICK t : IsList(p) /\ Runs(board, s, p, t) /\ StateIs(t, "READ0", a, 0, FALSE, w, g)
  BY DEF Reaches
<1>2. Reaches(board, t, Nand!Send("READSTART", <<>>), "READSTART", a, 0, FALSE, w, g)
  BY <1>1, StartReaches
<1> QED
  BY <1>1, <1>2, ReachesJoin, Zenon

\* The wait.
LEMMA WaitBehind ==
  ASSUME NEW s, NEW p, NEW cmd, NEW a, NEW k, NEW ready, NEW w, NEW g, Reaches(board, s, p, cmd, a, k, ready, w, g)
  PROVE  Reaches(board, s, p \o Nand!Wait, cmd, a, k, TRUE, w, g)
<1>1. PICK t : IsList(p) /\ Runs(board, s, p, t) /\ StateIs(t, cmd, a, k, ready, w, g)
  BY DEF Reaches
<1>2. Reaches(board, t, Nand!Wait, cmd, a, k, TRUE, w, g)
  BY <1>1, WaitReaches
<1> QED
  BY <1>1, <1>2, ReachesJoin, Zenon

\* The look at the status.
LEMMA StatusBehind ==
  ASSUME NEW s, NEW p, NEW cmd, NEW a, NEW k, NEW ready, NEW w, NEW g, Reaches(board, s, p, cmd, a, k, ready, w, g)
  PROVE  Reaches(board, s, p \o Nand!Status, cmd, a, k, ready, w, g)
<1>1. PICK t : IsList(p) /\ Runs(board, s, p, t) /\ StateIs(t, cmd, a, k, ready, w, g)
  BY DEF Reaches
<1>2. Reaches(board, t, Nand!Status, cmd, a, k, ready, w, g)
  BY <1>1, StatusReaches
<1> QED
  BY <1>1, <1>2, ReachesJoin, Zenon

\* A whole page and its spare, taken behind what made a chip ready that gives them.
GivesPage(cmd, a, w, page) ==
  /\ \A b : Ready(b, cmd, a, 0) => GivenBy(board, b, w, 0) = Spot(page, 0)
  /\ \A b : Ready(b, cmd, a, 0 + board.chip.page_size) =>
       GivenBy(board, b, w, 0 + board.chip.page_size) = Spot(page, board.chip.page_size)

\* A chip that gives a page has it taken, with its spare.
LEMMA PageTaken ==
  ASSUME NEW page, Asks(page), NEW s, s.got = <<>>, NEW p, NEW cmd, NEW a, NEW w, GivesPage(cmd, a, w, page),
         Reaches(board, s, p, cmd, a, 0, TRUE, w, s.got)
  PROVE  \E g : /\ Ends(board, s, p \o Nand!Take("page", 0, entry.page_size) \o Nand!Take("spare", 0, Nand!Spare), w, g)
                /\ FetchedIn(page, g)
<1>1. PICK ps : ps = board.chip.page_size
  OBVIOUS
<1>2. PICK sp : sp = ps \div 32
  OBVIOUS
<1>3. ps \in Nat /\ sp \in Nat /\ entry.page_size = ps /\ Nand!Spare = sp
  <2>1. ps \in {512, 1024, 2048, 4096, 8192}
    BY <1>1, ChipSane DEF Asks
  <2>2. entry.page_size = ps
    BY <1>1, Widths DEF Asks
  <2>3. ps \in Nat /\ sp \in Nat
    BY <1>2, <2>1
  <2> QED
    BY <1>2, <2>2, <2>3 DEF Nand!Spare
<1>4. PICK x : x = Segment_("page", 0, ps, Spot(page, 0))
  OBVIOUS
<1>5. PICK y : y = Segment_("spare", 0, sp, Spot(page, ps))
  OBVIOUS
<1>6. PICK e : e = <<>>
  OBVIOUS
<1>7. PICK g1 : g1 = Append(e, x)
  OBVIOUS
<1>8. PICK g2 : g2 = Append(g1, y)
  OBVIOUS
<1>9. PICK f : f = p \o Nand!Take("page", 0, ps)
  OBVIOUS
<1>10. Reaches(board, s, f, cmd, a, 0 + ps, TRUE, w, g1)
  <2>1. Reaches(board, s, p, cmd, a, 0, TRUE, w, e)
    BY <1>6
  <2>2. PICK from : from = Spot(page, 0)
    OBVIOUS
  <2>3. \A b : Ready(b, cmd, a, 0) => GivenBy(board, b, w, 0) = from
    BY <2>2 DEF GivesPage
  <2>4. Reaches(board, s, p \o Nand!Take("page", 0, ps), cmd, a, 0 + ps, TRUE, w, Append(e, Segment_("page", 0, ps, from)))
    BY <2>1, <2>3, TakeAdds
  <2> QED
    BY <1>4, <1>7, <1>9, <2>2, <2>4
<1>11. Reaches(board, s, f \o Nand!Take("spare", 0, sp), cmd, a, 0 + ps + sp, TRUE, w, g2)
  <2>1. PICK from : from = Spot(page, ps)
    OBVIOUS
  <2>2. PICK k : k = 0 + ps
    OBVIOUS
  <2>3. \A b : Ready(b, cmd, a, k) => GivenBy(board, b, w, k) = from
    BY <1>1, <2>1, <2>2 DEF GivesPage
  <2>4. Reaches(board, s, f, cmd, a, k, TRUE, w, g1)
    BY <1>10, <2>2
  <2>5. Reaches(board, s, f \o Nand!Take("spare", 0, sp), cmd, a, k + sp, TRUE, w, Append(g1, Segment_("spare", 0, sp, from)))
    BY <2>3, <2>4, TakeAdds
  <2> QED
    BY <1>5, <1>8, <2>1, <2>2, <2>5
<1>12. Ends(board, s, f \o Nand!Take("spare", 0, sp), w, g2)
  BY <1>11, ReachesEnds
<1>13. FetchedIn(page, g2)
  <2>1. FetchedIn(page, Append(Append(<<>>, Segment_("page", 0, ps, Spot(page, 0))), Segment_("spare", 0, sp, Spot(page, ps))))
    BY <1>1, <1>2, <1>3, TwoSegments
  <2> QED
    BY <1>4, <1>5, <1>6, <1>7, <1>8, <2>1, Zenon
<1> QED
  BY <1>3, <1>9, <1>12, <1>13, Zenon

\* Large pages.
LEMMA LargeReads ==
  ASSUME NEW page, Asks(page), LargeChip, NEW s, Wide(s.hw), s.got = <<>>
  PROVE  \E g : Ends(board, s, Nand!LargeRead(page), s.hw, g) /\ FetchedIn(page, g)
<1>1. PICK w, e : w = s.hw /\ e = s.got
  OBVIOUS
<1>2. PICK a : a = <<0, 0>> \o Nand!RowOf(page, Nand!LargeLimit) /\ NamesLarge(a, page)
  BY LargeAddress DEF Asks, LargeChip, NamesLarge
<1>3. PICK p1 : p1 = Nand!Send("READ0", a)
  OBVIOUS
<1>4. Reaches(board, s, p1, "READ0", a, 0, FALSE, w, e)
  BY <1>1, <1>3, SendReaches
<1>5. PICK p2 : p2 = p1 \o Nand!Send("READSTART", <<>>)
  OBVIOUS
<1>6. Reaches(board, s, p2, "READSTART", a, 0, FALSE, w, e)
  BY <1>4, <1>5, StartBehind
<1>7. PICK p3 : p3 = p2 \o Nand!Wait
  OBVIOUS
<1>8. Reaches(board, s, p3, "READSTART", a, 0, TRUE, w, e)
  BY <1>6, <1>7, WaitBehind
<1>9. PICK p4 : p4 = p3 \o Nand!Status
  OBVIOUS
<1>10. Reaches(board, s, p4, "READSTART", a, 0, TRUE, w, e)
  BY <1>8, <1>9, StatusBehind
<1>11. GivesPage("READSTART", a, w, page)
  <2>1. \A b, k, ahead : Ready(b, "READSTART", a, k) /\ ahead \in Nat => GivenBy(board, b, w, ahead) = Spot(page, ahead)
    BY <1>1, <1>2, LargeGiven
  <2>2. 0 \in Nat /\ 0 + board.chip.page_size = board.chip.page_size /\ board.chip.page_size \in Nat
    BY ChipSane DEF Asks
  <2> QED
    BY <2>1, <2>2 DEF GivesPage
<1>12. \E g : /\ Ends(board, s, p4 \o Nand!Take("page", 0, entry.page_size) \o Nand!Take("spare", 0, Nand!Spare), w, g)
              /\ FetchedIn(page, g)
  BY <1>1, <1>10, <1>11, PageTaken, Zenon
<1>13. Nand!LargeRead(page) = p4 \o Nand!Take("page", 0, entry.page_size) \o Nand!Take("spare", 0, Nand!Spare)
  BY <1>2, <1>3, <1>5, <1>7, <1>9, Zenon DEF Nand!LargeRead
<1> QED
  BY <1>1, <1>12, <1>13, Zenon

\* Pages read by commands.
LEMMA DefaultReads ==
  ASSUME NEW page, Asks(page), SmallChip \/ LargeChip, NEW s, Wide(s.hw), s.got = <<>>
  PROVE  \E g : Ends(board, s, Nand!DefaultRead(page), s.hw, g) /\ FetchedIn(page, g)
<1>1. board.chip.page_size \in {512, 1024, 2048, 4096, 8192} /\ entry.page_size = board.chip.page_size
  BY ChipSane, Widths DEF Asks
<1>2. CASE SmallChip
  <2>1. entry.page_size <= 512
    BY <1>1, <1>2 DEF SmallChip
  <2>2. Nand!DefaultRead(page) = Nand!SmallRead(page)
    BY <2>1 DEF Nand!DefaultRead
  <2> QED
    BY <1>2, <2>2, SmallReads
<1>3. CASE LargeChip
  <2>1. ~(entry.page_size <= 512)
    BY <1>1, <1>3 DEF LargeChip
  <2>2. Nand!DefaultRead(page) = Nand!LargeRead(page)
    BY <2>1 DEF Nand!DefaultRead
  <2> QED
    BY <1>3, <2>2, LargeReads
<1> QED
  BY <1>2, <1>3

-----------------------------------------------------------------------------
(* Pages read through address registers.                                   *)

\* The bytes a register holds.
FourOf(r, b1, b2, b3, b4) == IsList(r) /\ Len(r) = 4 /\ r[1] = b1 /\ r[2] = b2 /\ r[3] = b3 /\ r[4] = b4

\* A register of four bytes is a list of them.
LEMMA FourBytes ==
  ASSUME NEW r, NEW b1, NEW b2, NEW b3, NEW b4,
         r = [i \in 1 .. 4 |-> IF i = 1 THEN b1 ELSE IF i = 2 THEN b2 ELSE IF i = 3 THEN b3 ELSE b4]
  PROVE  FourOf(r, b1, b2, b3, b4)
<1>1. PICK S : S = {b1, b2, b3, b4}
  OBVIOUS
<1>2. r[1] = b1 /\ r[2] = b2 /\ r[3] = b3 /\ r[4] = b4
  <2>1. 1 \in 1 .. 4 /\ 2 \in 1 .. 4 /\ 3 \in 1 .. 4 /\ 4 \in 1 .. 4
    OBVIOUS
  <2> QED
    BY <2>1
<1>3. r \in [1 .. 4 -> S]
  BY <1>1
<1>4. r \in Seq(S) /\ Len(r) = 4
  <2>1. PICK m \in Nat : m = 4
    OBVIOUS
  <2>2. r \in [1 .. m -> S]
    BY <1>3, <2>1
  <2>3. r \in Seq(S) /\ Len(r) = m
    BY <2>2, FunctionIsSeq
  <2> QED
    BY <2>1, <2>3
<1> QED
  BY <1>2, <1>4 DEF FourOf, IsList

\* Those of a page that was moved left or right.
LEMMA RegisterBytes ==
  ASSUME NEW page
  PROVE  /\ FourOf(Nand!Left(page, 0), Nand!Byte(page, 0), Nand!Byte(page, 1), Nand!Byte(page, 2), Nand!Byte(page, 3))
         /\ FourOf(Nand!Left(page, 1), 0, Nand!Byte(page, 0), Nand!Byte(page, 1), Nand!Byte(page, 2))
         /\ FourOf(Nand!Left(page, 2), 0, 0, Nand!Byte(page, 0), Nand!Byte(page, 1))
         /\ FourOf(Nand!Right(page, 2), Nand!Byte(page, 2), Nand!Byte(page, 3), 0, 0)
         /\ FourOf(Nand!Right(page, 3), Nand!Byte(page, 3), 0, 0, 0)
<1>1. PICK b : b = [i \in 0 .. 3 |-> Nand!Byte(page, i)]
  OBVIOUS
<1>2. \A i \in 0 .. 3 : Nand!Byte(page, i) = b[i]
  BY <1>1
<1>3. \A i \in 1 .. 4 : i = 1 \/ i = 2 \/ i = 3 \/ i = 4
  OBVIOUS
<1>4. Nand!Left(page, 0) = [i \in 1 .. 4 |-> IF i = 1 THEN b[0] ELSE IF i = 2 THEN b[1] ELSE IF i = 3 THEN b[2] ELSE b[3]]
  BY <1>2, <1>3 DEF Nand!Left
<1>5. Nand!Left(page, 1) = [i \in 1 .. 4 |-> IF i = 1 THEN 0 ELSE IF i = 2 THEN b[0] ELSE IF i = 3 THEN b[1] ELSE b[2]]
  BY <1>2, <1>3 DEF Nand!Left
<1>6. Nand!Left(page, 2) = [i \in 1 .. 4 |-> IF i = 1 THEN 0 ELSE IF i = 2 THEN 0 ELSE IF i = 3 THEN b[0] ELSE b[1]]
  BY <1>2, <1>3 DEF Nand!Left
<1>7. Nand!Right(page, 2) = [i \in 1 .. 4 |-> IF i = 1 THEN b[2] ELSE IF i = 2 THEN b[3] ELSE IF i = 3 THEN 0 ELSE 0]
  BY <1>2, <1>3 DEF Nand!Right
<1>8. Nand!Right(page, 3) = [i \in 1 .. 4 |-> IF i = 1 THEN b[3] ELSE IF i = 2 THEN 0 ELSE IF i = 3 THEN 0 ELSE 0]
  BY <1>2, <1>3 DEF Nand!Right
<1>9. b[0] = Nand!Byte(page, 0) /\ b[1] = Nand!Byte(page, 1) /\ b[2] = Nand!Byte(page, 2) /\ b[3] = Nand!Byte(page, 3)
  BY <1>1
<1>10. FourOf(Nand!Left(page, 0), b[0], b[1], b[2], b[3])
  BY <1>4, FourBytes, Zenon
<1>11. FourOf(Nand!Left(page, 1), 0, b[0], b[1], b[2])
  BY <1>5, FourBytes, Zenon
<1>12. FourOf(Nand!Left(page, 2), 0, 0, b[0], b[1])
  BY <1>6, FourBytes, Zenon
<1>13. FourOf(Nand!Right(page, 2), b[2], b[3], 0, 0)
  BY <1>7, FourBytes, Zenon
<1>14. FourOf(Nand!Right(page, 3), b[3], 0, 0, 0)
  BY <1>8, FourBytes, Zenon
<1> QED
  BY <1>9, <1>10, <1>11, <1>12, <1>13, <1>14, Zenon

EightOf(a, l1, l2, l3, l4, r1, r2) ==
  IsList(a) /\ Len(a) = 8 /\ a[1] = l1 /\ a[2] = l2 /\ a[3] = l3 /\ a[4] = l4 /\ a[5] = r1 /\ a[6] = r2

\* Two registers side by side.
LEMMA EightBytes ==
  ASSUME NEW l, NEW r, NEW l1, NEW l2, NEW l3, NEW l4, NEW r1, NEW r2, NEW r3, NEW r4,
         FourOf(l, l1, l2, l3, l4), FourOf(r, r1, r2, r3, r4)
  PROVE  EightOf(l \o r, l1, l2, l3, l4, r1, r2)
<1>1. /\ IsList(l) /\ Len(l) = 4 /\ l[1] = l1 /\ l[2] = l2 /\ l[3] = l3 /\ l[4] = l4
      /\ IsList(r) /\ Len(r) = 4 /\ r[1] = r1 /\ r[2] = r2
  BY DEF FourOf
<1>2. PICK a : a = l \o r /\ IsList(a) /\ Joins(l, r, a)
  BY <1>1, ListsJoin
<1>3. Len(a) = 4 + 4 /\ (\A i \in 1 .. 4 : a[i] = l[i]) /\ \A i \in 1 .. 4 : a[4 + i] = r[i]
  BY <1>1, <1>2 DEF Joins
<1>4. a[4 + 1] = r[1] /\ a[4 + 2] = r[2] /\ a[1] = l[1] /\ a[2] = l[2] /\ a[3] = l[3] /\ a[4] = l[4]
  BY <1>3
<1>5. 4 + 1 = 5 /\ 4 + 2 = 6 /\ 4 + 4 = 8
  OBVIOUS
<1> QED
  BY <1>1, <1>2, <1>3, <1>4, <1>5 DEF EightOf

\* The address of a small page in two registers, and of a large one.
LEMMA TwoRegisters ==
  ASSUME NEW page
  PROVE  /\ NamesSmall(Nand!Left(page, 1) \o Nand!Right(page, 3), page)
         /\ NamesLarge(Nand!Left(page, 2) \o Nand!Right(page, 2), page)
         /\ NamesSmall(SubSeq(Nand!Left(page, 1) \o Nand!Right(page, 3), 1, 4), page)
         /\ NamesLarge(SubSeq(Nand!Left(page, 2) \o Nand!Right(page, 2), 1, 5), page)
<1>1. PICK b0, b1, b2, b3 : b0 = Nand!Byte(page, 0) /\ b1 = Nand!Byte(page, 1) /\ b2 = Nand!Byte(page, 2) /\ b3 = Nand!Byte(page, 3)
  OBVIOUS
<1>2. PICK a : /\ a = Nand!Left(page, 1) \o Nand!Right(page, 3) /\ IsList(a) /\ Len(a) = 8
               /\ a[1] = 0 /\ a[2] = b0 /\ a[3] = b1 /\ a[4] = b2
  <2>1. FourOf(Nand!Left(page, 1), 0, b0, b1, b2) /\ FourOf(Nand!Right(page, 3), b3, 0, 0, 0)
    BY <1>1, RegisterBytes, Zenon
  <2> QED
    <3>1. PICK l : l = Nand!Left(page, 1)
      OBVIOUS
    <3>2. PICK r : r = Nand!Right(page, 3)
      OBVIOUS
    <3>3. FourOf(l, 0, b0, b1, b2) /\ FourOf(r, b3, 0, 0, 0)
      BY <2>1, <3>1, <3>2
    <3>4. EightOf(l \o r, 0, b0, b1, b2, b3, 0)
      BY <3>3, EightBytes, Zenon
    <3> QED
      BY <3>1, <3>2, <3>4, Zenon DEF EightOf
<1>3. PICK c : /\ c = Nand!Left(page, 2) \o Nand!Right(page, 2) /\ IsList(c) /\ Len(c) = 8
               /\ c[1] = 0 /\ c[2] = 0 /\ c[3] = b0 /\ c[4] = b1 /\ c[5] = b2
  <2>1. FourOf(Nand!Left(page, 2), 0, 0, b0, b1) /\ FourOf(Nand!Right(page, 2), b2, b3, 0, 0)
    BY <1>1, RegisterBytes, Zenon
  <2> QED
    <3>1. PICK l : l = Nand!Left(page, 2)
      OBVIOUS
    <3>2. PICK r : r = Nand!Right(page, 2)
      OBVIOUS
    <3>3. FourOf(l, 0, 0, b0, b1) /\ FourOf(r, b2, b3, 0, 0)
      BY <2>1, <3>1, <3>2
    <3>4. EightOf(l \o r, 0, 0, b0, b1, b2, b3)
      BY <3>3, EightBytes, Zenon
    <3> QED
      BY <3>1, <3>2, <3>4, Zenon DEF EightOf
<1>4. 1 + 1 = 2 /\ 1 + 2 = 3 /\ 1 + 3 = 4 /\ 2 + 1 = 3 /\ 2 + 2 = 4 /\ 2 + 3 = 5
  OBVIOUS
<1>5. NamesSmall(a, page)
  BY <1>1, <1>2, <1>4 DEF NamesSmall, NamesRow
<1>6. NamesLarge(c, page)
  BY <1>1, <1>3, <1>4 DEF NamesLarge, NamesRow
<1>7. ASSUME NEW s, IsList(s), Len(s) = 8, NEW n \in 4 .. 5
      PROVE  Len(SubSeq(s, 1, n)) = n /\ \A i \in 1 .. n : SubSeq(s, 1, n)[i] = s[i]
  <2>1. PICK S : s \in Seq(S)
    BY <1>7 DEF IsList
  <2>2. \A i \in 1 .. n : s[i] \in S
    <3>1. \A i \in 1 .. n : i \in 1 .. 8
      OBVIOUS
    <3> QED
      BY <1>7, <2>1, <3>1, ElementOfSeq
  <2>3. PICK t : t = SubSeq(s, 1, n)
    OBVIOUS
  <2>4. Len(t) = (IF 1 <= n THEN n - 1 + 1 ELSE 0) /\ \A i \in 1 .. n - 1 + 1 : t[i] = s[1 + i - 1]
    <3>1. 1 \in Int /\ n \in Int
      OBVIOUS
    <3> QED
      BY <2>2, <2>3, <3>1, SubSeqProperties
  <2>5. n - 1 + 1 = n /\ 1 <= n /\ \A i \in 1 .. n : 1 + i - 1 = i
    OBVIOUS
  <2> QED
    BY <2>3, <2>4, <2>5
<1>8. PICK d : /\ d = SubSeq(a, 1, 4) /\ Len(d) = 4 /\ d[1] = 0 /\ d[2] = b0 /\ d[3] = b1 /\ d[4] = b2
  <2>1. 4 \in 4 .. 5 /\ 1 \in 1 .. 4 /\ 2 \in 1 .. 4 /\ 3 \in 1 .. 4 /\ 4 \in 1 .. 4
    OBVIOUS
  <2>2. Len(SubSeq(a, 1, 4)) = 4 /\ \A i \in 1 .. 4 : SubSeq(a, 1, 4)[i] = a[i]
    BY <1>2, <1>7, <2>1
  <2> QED
    BY <1>2, <2>1, <2>2, Zenon
<1>9. PICK e : /\ e = SubSeq(c, 1, 5) /\ Len(e) = 5 /\ e[1] = 0 /\ e[2] = 0 /\ e[3] = b0 /\ e[4] = b1 /\ e[5] = b2
  <2>1. 5 \in 4 .. 5 /\ 1 \in 1 .. 5 /\ 2 \in 1 .. 5 /\ 3 \in 1 .. 5 /\ 4 \in 1 .. 5 /\ 5 \in 1 .. 5
    OBVIOUS
  <2>2. Len(SubSeq(c, 1, 5)) = 5 /\ \A i \in 1 .. 5 : SubSeq(c, 1, 5)[i] = c[i]
    BY <1>3, <1>7, <2>1
  <2> QED
    BY <1>3, <2>1, <2>2, Zenon
<1>10. NamesSmall(d, page)
  BY <1>1, <1>4, <1>8 DEF NamesSmall, NamesRow
<1>11. NamesLarge(e, page)
  BY <1>1, <1>4, <1>9 DEF NamesLarge, NamesRow
<1> QED
  BY <1>2, <1>3, <1>5, <1>6, <1>8, <1>9, <1>10, <1>11, Zenon

\* And in one, behind the columns the controller sends.
LEMMA OneRegister ==
  ASSUME NEW page
  PROVE  /\ NamesSmall(<<0>> \o Nand!Left(page, 0), page)
         /\ NamesLarge(<<0, 0>> \o Nand!Left(page, 0), page)
<1>1. PICK r, b0, b1, b2, b3 : r = Nand!Left(page, 0) /\ b0 = Nand!Byte(page, 0) /\ b1 = Nand!Byte(page, 1) /\ b2 = Nand!Byte(page, 2) /\ b3 = Nand!Byte(page, 3)
  OBVIOUS
<1>2. IsList(r) /\ Len(r) = 4 /\ r[1] = b0 /\ r[2] = b1 /\ r[3] = b2
  <2>1. FourOf(r, b0, b1, b2, b3)
    BY <1>1, RegisterBytes, Zenon
  <2> QED
    BY <2>1 DEF FourOf
<1>3. PICK z : z = <<0>> /\ IsList(z) /\ Len(z) = 1 /\ z[1] = 0
  BY OneElement
<1>4. PICK y : y = <<0, 0>> /\ IsList(y) /\ Len(y) = 2 /\ y[1] = 0 /\ y[2] = 0
  <2>1. PICK y : y = <<0, 0>>
    OBVIOUS
  <2>2. y \in Seq({0}) /\ Len(y) = 2 /\ y[1] = 0 /\ y[2] = 0
    BY <2>1
  <2> QED
    BY <2>1, <2>2 DEF IsList
<1>5. PICK a : a = z \o r /\ Joins(z, r, a)
  BY <1>2, <1>3, ListsJoin
<1>6. PICK c : c = y \o r /\ Joins(y, r, c)
  BY <1>2, <1>4, ListsJoin
<1>7. Len(a) = 5 /\ a[1] = 0 /\ a[2] = b0 /\ a[3] = b1 /\ a[4] = b2
  <2>1. Len(a) = 1 + 4 /\ (\A i \in 1 .. 1 : a[i] = z[i]) /\ \A i \in 1 .. 4 : a[1 + i] = r[i]
    BY <1>2, <1>3, <1>5 DEF Joins
  <2>2. a[1] = z[1] /\ a[1 + 1] = r[1] /\ a[1 + 2] = r[2] /\ a[1 + 3] = r[3]
    BY <2>1
  <2>3. 1 + 1 = 2 /\ 1 + 2 = 3 /\ 1 + 3 = 4 /\ 1 + 4 = 5
    OBVIOUS
  <2> QED
    BY <1>2, <1>3, <2>1, <2>2, <2>3
<1>8. Len(c) = 6 /\ c[1] = 0 /\ c[2] = 0 /\ c[3] = b0 /\ c[4] = b1 /\ c[5] = b2
  <2>1. Len(c) = 2 + 4 /\ (\A i \in 1 .. 2 : c[i] = y[i]) /\ \A i \in 1 .. 4 : c[2 + i] = r[i]
    BY <1>2, <1>4, <1>6 DEF Joins
  <2>2. c[1] = y[1] /\ c[2] = y[2] /\ c[2 + 1] = r[1] /\ c[2 + 2] = r[2] /\ c[2 + 3] = r[3]
    BY <2>1
  <2>3. 2 + 1 = 3 /\ 2 + 2 = 4 /\ 2 + 3 = 5 /\ 2 + 4 = 6
    OBVIOUS
  <2> QED
    BY <1>2, <1>4, <2>1, <2>2, <2>3
<1>9. 1 + 1 = 2 /\ 1 + 2 = 3 /\ 1 + 3 = 4 /\ 2 + 1 = 3 /\ 2 + 2 = 4 /\ 2 + 3 = 5
  OBVIOUS
<1>10. NamesSmall(a, page)
  BY <1>1, <1>7, <1>9 DEF NamesSmall, NamesRow
<1>11. NamesLarge(c, page)
  BY <1>1, <1>8, <1>9 DEF NamesLarge, NamesRow
<1> QED
  BY <1>1, <1>3, <1>4, <1>5, <1>6, <1>10, <1>11, Zenon

\* The ports that drive the chip by registers, the command and the address that select a page there.
Driven == board.port \notin {"superand", "dummy"}
Narrow == board.chip.page_size = 512
CmdOf == IF Narrow THEN "READ0" ELSE "READSTART"
NamesIt(a, page) == IF Narrow THEN NamesSmall(a, page) ELSE NamesLarge(a, page)

\* What such a chip gives.
LEMMA AnyGiven ==
  ASSUME NEW page, Asks(page), Driven, NEW a, NamesIt(a, page), NEW w, Wide(w),
         NEW b, NEW k, Ready(b, CmdOf, a, k), NEW ahead \in Nat
  PROVE  GivenBy(board, b, w, ahead) = Spot(page, ahead)
<1>1. CASE Narrow
  <2>1. CmdOf = "READ0" /\ NamesSmall(a, page)
    BY <1>1 DEF CmdOf, NamesIt
  <2>2. SmallChip
    BY <1>1 DEF SmallChip, Driven, Narrow
  <2>3. "READ0" \in SmallCommands /\ Nand!ColumnBase["READ0"] + ahead = ahead
    BY DEF SmallCommands, Nand!ColumnBase
  <2>4. Ready(b, "READ0", a, k)
    BY <2>1
  <2>5. GivenBy(board, b, w, ahead) = Spot(page, Nand!ColumnBase["READ0"] + ahead)
    BY <2>1, <2>2, <2>3, <2>4, SmallGiven
  <2> QED
    BY <2>3, <2>5
<1>2. CASE ~Narrow
  <2>1. CmdOf = "READSTART" /\ NamesLarge(a, page)
    BY <1>2 DEF CmdOf, NamesIt
  <2>2. LargeChip
    BY <1>2 DEF LargeChip, Driven, Narrow
  <2>3. Ready(b, "READSTART", a, k)
    BY <2>1
  <2> QED
    BY <2>1, <2>2, <2>3, LargeGiven
<1> QED
  BY <1>1, <1>2

\* So a page can be taken from it.
LEMMA GivesIt ==
  ASSUME NEW page, Asks(page), Driven, NEW a, NamesIt(a, page), NEW w, Wide(w)
  PROVE  GivesPage(CmdOf, a, w, page)
<1>1. \A b, k, ahead : Ready(b, CmdOf, a, k) /\ ahead \in Nat => GivenBy(board, b, w, ahead) = Spot(page, ahead)
  BY AnyGiven
<1>2. 0 \in Nat /\ 0 + board.chip.page_size = board.chip.page_size /\ board.chip.page_size \in Nat
  BY ChipSane DEF Asks
<1> QED
  BY <1>1, <1>2 DEF GivesPage

\* The address registers; registers that are as they were but for one of these.
Registers == {"addr1", "addr2", "page"}
Kept(w, r) == IsOn(HwFields, r) /\ r.width = w.width /\ r.large = w.large /\ r.per_page = w.per_page
SetsOne(w, r, k, v) ==
  Kept(w, r) /\ r[k] = v /\ r.next = 0 /\ \A x \in Registers : x # k => r[x] = w[x]

\* An address register is set, and nothing else but the codeword that is next.
LEMMA RegisterSet ==
  ASSUME NEW w, IsOn(HwFields, w), NEW k \in Registers, NEW v
  PROVE  SetsOne(w, SetTo(w, k, v), k, v)
<1>1. PICK a : a = [w EXCEPT ![k] = v]
  OBVIOUS
<1>2. PICK r : r = [a EXCEPT !.next = 0]
  OBVIOUS
<1>3. SetTo(w, k, v) = r
  BY <1>1, <1>2 DEF SetTo
<1>4. IsOn(HwFields, a) /\ IsOn(HwFields, r)
  BY <1>1, <1>2, ExceptIsOn
<1>5. /\ a.width = w.width /\ a.large = w.large /\ a.per_page = w.per_page /\ a[k] = v
      /\ \A x \in Registers : x # k => a[x] = w[x]
  BY <1>1 DEF IsOn, HwFields, Registers
<1>6. /\ r.width = a.width /\ r.large = a.large /\ r.per_page = a.per_page /\ r.next = 0
      /\ \A x \in Registers : r[x] = a[x]
  BY <1>2, <1>4 DEF IsOn, HwFields, Registers
<1> QED
  BY <1>3, <1>4, <1>5, <1>6 DEF SetsOne, Kept

\* What was set keeps the width and the kind of page.
LEMMA KeptWide ==
  ASSUME NEW w, Wide(w), NEW r, Kept(w, r)
  PROVE  Wide(r)
BY DEF Wide, Kept, AnnouncedBy

\* The controller knows what kind of page its chip has.
Typed(w) == w.large = ~Narrow

\* One register starts the page of its address, in one piece.
LEMMA PageStarts ==
  ASSUME NEW s, IsOn(BusFields, s.bus), IsOn(HwFields, s.hw), Typed(s.hw), NEW page
  PROVE  \E a, w : /\ Reaches(board, s, Nand!Set("page", Nand!Left(page, 0)), CmdOf, a, 0, FALSE, w, s.got)
                   /\ NamesIt(a, page) /\ Kept(s.hw, w) /\ w.next = 0
<1>1. PICK v, k : v = Nand!Left(page, 0) /\ k = "page"
  OBVIOUS
<1>2. PICK w : w = SetTo(s.hw, k, v)
  OBVIOUS
<1>3. PICK a : a = BytesOf(s.hw.large, k, w)
  OBVIOUS
<1>4. k \in Registers
  BY <1>1 DEF Registers
<1>5. SetsOne(s.hw, w, k, v)
  BY <1>2, <1>4, RegisterSet
<1>6. (IF s.hw.large THEN "READSTART" ELSE "READ0") = CmdOf
  BY DEF CmdOf, Typed
<1>7. Reaches(board, s, Nand!Set(k, v), CmdOf, a, 0, FALSE, w, s.got)
  BY <1>2, <1>3, <1>6, SetReaches
<1>8. NamesIt(a, page)
  <2>1. w.page = v
    BY <1>1, <1>5 DEF SetsOne
  <2>2. CASE Narrow
    <3>1. a = <<0>> \o v
      BY <1>1, <1>3, <2>1, <2>2 DEF BytesOf, Typed
    <3> QED
      BY <1>1, <2>2, <3>1, OneRegister DEF NamesIt
  <2>3. CASE ~Narrow
    <3>1. a = <<0, 0>> \o v
      BY <1>1, <1>3, <2>1, <2>3 DEF BytesOf, Typed
    <3> QED
      BY <1>1, <2>3, <3>1, OneRegister DEF NamesIt
  <2> QED
    BY <2>2, <2>3
<1> QED
  BY <1>1, <1>5, <1>7, <1>8, Zenon DEF SetsOne

\* Two registers start it, the second with what both hold.
PairSet(l, r) == Nand!Set("addr1", l) \o Nand!Set("addr2", r)

\* A pair of registers leads to the page of both.
LEMMA PairReaches ==
  ASSUME NEW s, IsOn(BusFields, s.bus), IsOn(HwFields, s.hw), Typed(s.hw), NEW l, NEW r
  PROVE  \E w : /\ Reaches(board, s, PairSet(l, r), CmdOf, l \o r, 0, FALSE, w, s.got)
                /\ Kept(s.hw, w) /\ w.next = 0
<1>1. PICK k1, k2 : k1 = "addr1" /\ k2 = "addr2"
  OBVIOUS
<1>2. PICK w1 : w1 = SetTo(s.hw, k1, l)
  OBVIOUS
<1>3. k1 \in Registers /\ k2 \in Registers
  BY <1>1 DEF Registers
<1>4. SetsOne(s.hw, w1, k1, l)
  BY <1>2, <1>3, RegisterSet
<1>5. PICK cmd, a1 : Reaches(board, s, Nand!Set(k1, l), cmd, a1, 0, FALSE, w1, s.got)
  BY <1>2, SetReaches
<1>6. PICK t : IsList(Nand!Set(k1, l)) /\ Runs(board, s, Nand!Set(k1, l), t) /\ StateIs(t, cmd, a1, 0, FALSE, w1, s.got)
  BY <1>5, Zenon DEF Reaches
<1>7. IsOn(BusFields, t.bus) /\ t.hw = w1 /\ t.got = s.got
  BY <1>6 DEF StateIs, BusIs
<1>8. IsOn(HwFields, w1) /\ w1.large = s.hw.large
  BY <1>4 DEF SetsOne, Kept
<1>9. PICK w : w = SetTo(w1, k2, r)
  OBVIOUS
<1>10. SetsOne(w1, w, k2, r)
  BY <1>3, <1>8, <1>9, RegisterSet
<1>11. PICK a : a = BytesOf(w1.large, k2, w)
  OBVIOUS
<1>12. (IF w1.large THEN "READSTART" ELSE "READ0") = CmdOf
  BY <1>8 DEF CmdOf, Typed
<1>13. Reaches(board, t, Nand!Set(k2, r), CmdOf, a, 0, FALSE, w, s.got)
  BY <1>7, <1>9, <1>11, <1>12, SetReaches
<1>14. Reaches(board, s, Nand!Set(k1, l) \o Nand!Set(k2, r), CmdOf, a, 0, FALSE, w, s.got)
  BY <1>6, <1>13, ReachesJoin, Zenon
<1>15. a = l \o r
  <2>1. w.addr2 = r /\ w.addr1 = w1.addr1 /\ w1.addr1 = l
    BY <1>1, <1>4, <1>10 DEF SetsOne, Registers
  <2> QED
    BY <1>1, <1>11, <2>1 DEF BytesOf
<1>16. Kept(s.hw, w) /\ w.next = 0
  BY <1>4, <1>10 DEF SetsOne, Kept
<1> QED
  BY <1>1, <1>14, <1>15, <1>16, Zenon DEF PairSet

-----------------------------------------------------------------------------
(* Pages read codeword by codeword.                                        *)

\* What is stored of a codeword, and of the first so many.
DataPiece(page, i) == Segment_("page", 512 * i, 512, Spot(page, 512 * i))
SparePiece(page, i) == Segment_("spare", 16 * i, 16, Spot(page, board.chip.page_size + 16 * i))
Pieces(page, n) ==
  [j \in 1 .. 2 * n |-> IF j % 2 = 1 THEN DataPiece(page, j \div 2) ELSE SparePiece(page, (j \div 2) - 1)]

\* Two pieces for each.
LEMMA PiecesAre ==
  ASSUME NEW page, NEW n \in Nat
  PROVE  /\ IsList(Pieces(page, n)) /\ Len(Pieces(page, n)) = 2 * n
         /\ \A i \in 0 .. n - 1 : /\ Pieces(page, n)[2 * i + 1] = DataPiece(page, i)
                                  /\ Pieces(page, n)[2 * i + 2] = SparePiece(page, i)
<1>1. PICK m \in Nat : m = 2 * n
  OBVIOUS
<1>2. PICK f : /\ f = [j \in 1 .. m |-> IF j % 2 = 1 THEN DataPiece(page, j \div 2) ELSE SparePiece(page, (j \div 2) - 1)]
               /\ f = Pieces(page, n)
  BY <1>1 DEF Pieces
<1>3. PICK S : S = {f[i] : i \in 1 .. m}
  OBVIOUS
<1>4. f \in [1 .. m -> S]
  BY <1>2, <1>3
<1>5. f \in Seq(S) /\ Len(f) = m
  BY <1>4, FunctionIsSeq
<1>6. ASSUME NEW i \in 0 .. n - 1 PROVE f[2 * i + 1] = DataPiece(page, i) /\ f[2 * i + 2] = SparePiece(page, i)
  <2>1. PICK j : j = 2 * i + 1
    OBVIOUS
  <2>2. PICK k : k = 2 * i + 2
    OBVIOUS
  <2>3. j \in 1 .. m /\ j % 2 = 1 /\ j \div 2 = i
    BY <1>1, <2>1
  <2>4. k \in 1 .. m /\ k % 2 # 1 /\ (k \div 2) - 1 = i
    BY <1>1, <2>2
  <2>5. f[j] = DataPiece(page, i)
    BY <1>2, <2>3
  <2>6. f[k] = SparePiece(page, i)
    BY <1>2, <2>4
  <2> QED
    BY <2>1, <2>2, <2>5, <2>6
<1> QED
  BY <1>1, <1>2, <1>5, <1>6 DEF IsList

\* Every piece is of a codeword.
LEMMA PieceOf ==
  ASSUME NEW n \in Nat, NEW j \in 1 .. 2 * n
  PROVE  \E i \in 0 .. n - 1 : j = 2 * i + 1 \/ j = 2 * i + 2
<1>1. CASE j % 2 = 1
  <2>1. j \div 2 \in 0 .. n - 1 /\ j = 2 * (j \div 2) + 1
    BY <1>1
  <2> QED
    BY <2>1
<1>2. CASE j % 2 # 1
  <2>1. (j \div 2) - 1 \in 0 .. n - 1 /\ j = 2 * ((j \div 2) - 1) + 2
    BY <1>2
  <2> QED
    BY <2>1
<1> QED
  BY <1>1, <1>2

\* One codeword more.
LEMMA PiecesGrow ==
  ASSUME NEW page, NEW n \in Nat, NEW x, x = DataPiece(page, n), NEW y, y = SparePiece(page, n)
  PROVE  Pieces(page, n) \o <<x, y>> = Pieces(page, n + 1)
<1>1. PICK f : f = Pieces(page, n)
  OBVIOUS
<1>2. PICK h : h = Pieces(page, n + 1)
  OBVIOUS
<1>3. IsList(f) /\ Len(f) = 2 * n /\ \A i \in 0 .. n - 1 : f[2 * i + 1] = DataPiece(page, i) /\ f[2 * i + 2] = SparePiece(page, i)
  BY <1>1, PiecesAre
<1>4. PICK m \in Nat : m = n + 1
  OBVIOUS
<1>5. IsList(h) /\ Len(h) = 2 * m /\ \A i \in 0 .. m - 1 : h[2 * i + 1] = DataPiece(page, i) /\ h[2 * i + 2] = SparePiece(page, i)
  BY <1>2, <1>4, PiecesAre
<1>6. PICK z : z = <<x, y>>
  OBVIOUS
<1>7. IsList(z) /\ Len(z) = 2 /\ z[1] = x /\ z[2] = y
  <2>1. z \in Seq({x, y})
    BY <1>6
  <2> QED
    BY <1>6, <2>1 DEF IsList
<1>8. PICK u : u = f \o z
  OBVIOUS
<1>9. IsList(u) /\ Joins(f, z, u)
  BY <1>3, <1>7, <1>8, ListsJoin
<1>10. Len(u) = 2 * m /\ (\A j \in 1 .. 2 * n : u[j] = f[j]) /\ u[2 * n + 1] = x /\ u[2 * n + 2] = y
  <2>1. \A j \in 1 .. 2 * n : u[j] = f[j]
    BY <1>3, <1>9 DEF Joins
  <2>2. \A j \in 1 .. 2 : u[2 * n + j] = z[j]
    BY <1>3, <1>7, <1>9 DEF Joins
  <2>3. Len(u) = 2 * n + 2
    BY <1>3, <1>7, <1>9 DEF Joins
  <2> QED
    BY <1>4, <1>7, <2>1, <2>2, <2>3
<1>11. ASSUME NEW j \in 1 .. 2 * m PROVE u[j] = h[j]
  <2>1. PICK i \in 0 .. m - 1 : j = 2 * i + 1 \/ j = 2 * i + 2
    BY PieceOf
  <2>2. CASE i = n
    <3>1. h[2 * n + 1] = x /\ h[2 * n + 2] = y
      BY <1>4, <1>5
    <3> QED
      BY <1>10, <2>1, <2>2, <3>1
  <2>3. CASE i # n
    <3>1. i \in 0 .. n - 1 /\ j \in 1 .. 2 * n
      BY <1>4, <2>1, <2>3
    <3>2. f[2 * i + 1] = h[2 * i + 1] /\ f[2 * i + 2] = h[2 * i + 2]
      BY <1>3, <1>5, <3>1
    <3>3. f[j] = h[j]
      BY <2>1, <3>2
    <3> QED
      BY <1>10, <3>1, <3>3
  <2> QED
    BY <2>2, <2>3
<1>12. u = h
  <2>1. PICK U, V : u \in Seq(U) /\ h \in Seq(V)
    BY <1>5, <1>9 DEF IsList
  <2>2. u = [j \in 1 .. Len(u) |-> u[j]] /\ h = [j \in 1 .. Len(h) |-> h[j]]
    BY <2>1, LenProperties
  <2>3. PICK k : k = 2 * m
    OBVIOUS
  <2>4. u = [j \in 1 .. k |-> u[j]] /\ h = [j \in 1 .. k |-> h[j]] /\ \A j \in 1 .. k : u[j] = h[j]
    BY <1>5, <1>10, <1>11, <2>2, <2>3
  <2> QED
    BY <2>4
<1> QED
  BY <1>1, <1>2, <1>6, <1>8, <1>12

\* All of them are the page and its spare.
LEMMA PiecesFetch ==
  ASSUME NEW page, NEW n \in Nat, board.chip.page_size = 512 * n
  PROVE  FetchedIn(page, Pieces(page, n))
<1>1. PICK g : g = Pieces(page, n)
  OBVIOUS
<1>2. IsList(g) /\ Len(g) = 2 * n /\ \A i \in 0 .. n - 1 : g[2 * i + 1] = DataPiece(page, i) /\ g[2 * i + 2] = SparePiece(page, i)
  BY <1>1, PiecesAre
<1>3. \A i \in 0 .. n - 1 : \A x : x = DataPiece(page, i) =>
        x.to = "page" /\ x.at = 512 * i /\ x.n = 512 /\ x.from.row = RowSeen(page) /\ x.from.col = 512 * i
  BY SegmentFields DEF DataPiece
<1>4. \A i \in 0 .. n - 1 : \A x : x = SparePiece(page, i) =>
        x.to = "spare" /\ x.at = 16 * i /\ x.n = 16 /\ x.from.row = RowSeen(page) /\ x.from.col = 512 * n + 16 * i
  BY SegmentFields DEF SparePiece
<1>5. ASSUME NEW at \in 0 .. 512 * n - 1 PROVE HoldsAt(g, "page", at, RowSeen(page), at)
  <2>1. PICK i \in 0 .. n - 1 : 512 * i <= at /\ at < 512 * i + 512
    <3>1. at \div 512 \in 0 .. n - 1 /\ 512 * (at \div 512) <= at /\ at < 512 * (at \div 512) + 512
      OBVIOUS
    <3> QED
      BY <3>1
  <2>2. PICK k : k = 2 * i + 1
    OBVIOUS
  <2>3. k \in 1 .. 2 * n /\ g[k] = DataPiece(page, i)
    BY <1>2, <2>2
  <2>4. g[k].to = "page" /\ g[k].at = 512 * i /\ g[k].n = 512 /\ g[k].from.row = RowSeen(page) /\ g[k].from.col = 512 * i
    BY <1>3, <2>3
  <2>5. ASSUME NEW j \in 1 .. 2 * n, Over(g[j], "page", at) PROVE j = k
    <3>1. PICK h \in 0 .. n - 1 : j = 2 * h + 1 \/ j = 2 * h + 2
      BY PieceOf
    <3>2. CASE j = 2 * h + 1
      <4>0. g[j] = DataPiece(page, h)
        BY <1>2, <3>2
      <4>1. g[j].at = 512 * h /\ g[j].n = 512
        BY <1>3, <4>0
      <4>2. 512 * h <= at /\ at < 512 * h + 512
        BY <2>5, <4>1 DEF Over
      <4> QED
        BY <2>1, <2>2, <3>2, <4>2
    <3>3. CASE j = 2 * h + 2
      <4>0. g[j] = SparePiece(page, h)
        BY <1>2, <3>3
      <4>1. g[j].to = "spare"
        BY <1>4, <4>0
      <4> QED
        BY <2>5, <4>1 DEF Over
    <3> QED
      BY <3>1, <3>2, <3>3
  <2>6. Over(g[k], "page", at) /\ g[k].from.col + (at - g[k].at) = at
    BY <2>1, <2>4 DEF Over
  <2> QED
    BY <1>2, <2>3, <2>4, <2>5, <2>6 DEF HoldsAt
<1>6. ASSUME NEW at \in 0 .. 16 * n - 1 PROVE HoldsAt(g, "spare", at, RowSeen(page), 512 * n + at)
  <2>1. PICK i \in 0 .. n - 1 : 16 * i <= at /\ at < 16 * i + 16
    <3>1. at \div 16 \in 0 .. n - 1 /\ 16 * (at \div 16) <= at /\ at < 16 * (at \div 16) + 16
      OBVIOUS
    <3> QED
      BY <3>1
  <2>2. PICK k : k = 2 * i + 2
    OBVIOUS
  <2>3. k \in 1 .. 2 * n /\ g[k] = SparePiece(page, i)
    BY <1>2, <2>2
  <2>4. g[k].to = "spare" /\ g[k].at = 16 * i /\ g[k].n = 16 /\ g[k].from.row = RowSeen(page) /\ g[k].from.col = 512 * n + 16 * i
    BY <1>4, <2>3
  <2>5. ASSUME NEW j \in 1 .. 2 * n, Over(g[j], "spare", at) PROVE j = k
    <3>1. PICK h \in 0 .. n - 1 : j = 2 * h + 1 \/ j = 2 * h + 2
      BY PieceOf
    <3>2. CASE j = 2 * h + 2
      <4>0. g[j] = SparePiece(page, h)
        BY <1>2, <3>2
      <4>1. g[j].at = 16 * h /\ g[j].n = 16
        BY <1>4, <4>0
      <4>2. 16 * h <= at /\ at < 16 * h + 16
        BY <2>5, <4>1 DEF Over
      <4> QED
        BY <2>1, <2>2, <3>2, <4>2
    <3>3. CASE j = 2 * h + 1
      <4>0. g[j] = DataPiece(page, h)
        BY <1>2, <3>3
      <4>1. g[j].to = "page"
        BY <1>3, <4>0
      <4> QED
        BY <2>5, <4>1 DEF Over
    <3> QED
      BY <3>1, <3>2, <3>3
  <2>6. Over(g[k], "spare", at) /\ g[k].from.col + (at - g[k].at) = 512 * n + at
    BY <2>1, <2>4 DEF Over
  <2> QED
    BY <1>2, <2>3, <2>4, <2>5, <2>6 DEF HoldsAt
<1>7. (512 * n) \div 32 = 16 * n
  OBVIOUS
<1> QED
  BY <1>1, <1>2, <1>5, <1>6, <1>7 DEF FetchedIn

\* The registers when so many codewords were fetched.
WordsDone(w, i) == IF i = 0 THEN w ELSE [w EXCEPT !.buffer = i - 1, !.next = i]
Executed(x) == [x EXCEPT !.buffer = x.next, !.next = @ + 1]

\* Each codeword fetched is the next, and the one the buffer then holds.
LEMMA WordsFollow ==
  ASSUME NEW w, IsOn(HwFields, w), w.next = 0, NEW i \in Nat, NEW x, x = WordsDone(w, i)
  PROVE  Executed(x) = WordsDone(w, i + 1) /\ Kept(w, x) /\ (i # 0 => x.buffer = i - 1)
<1>1. PICK y : y = Executed(x)
  OBVIOUS
<1>2. PICK z : z = WordsDone(w, i + 1)
  OBVIOUS
<1>3. z = [w EXCEPT !.buffer = i, !.next = i + 1]
  <2>1. PICK m \in Nat : m = i + 1 /\ m # 0 /\ m - 1 = i
    OBVIOUS
  <2>2. z = [w EXCEPT !.buffer = m - 1, !.next = m]
    BY <1>2, <2>1 DEF WordsDone
  <2> QED
    BY <2>1, <2>2
<1>4. IsOn(HwFields, x) /\ x.next = i /\ (i # 0 => x.buffer = i - 1)
  <2>1. CASE i = 0
    BY <2>1 DEF WordsDone
  <2>2. CASE i # 0
    <3>1. x = [w EXCEPT !.buffer = i - 1, !.next = i]
      BY <2>2 DEF WordsDone
    <3> QED
      BY <3>1 DEF IsOn, HwFields
  <2> QED
    BY <2>1, <2>2
<1>5. /\ x.width = w.width /\ x.held = w.held /\ x.large = w.large /\ x.addr1 = w.addr1 /\ x.addr2 = w.addr2
      /\ x.page = w.page /\ x.per_page = w.per_page
  <2>1. CASE i = 0
    BY <2>1 DEF WordsDone
  <2>2. CASE i # 0
    <3>1. x = [w EXCEPT !.buffer = i - 1, !.next = i]
      BY <2>2 DEF WordsDone
    <3> QED
      BY <3>1 DEF IsOn, HwFields
  <2> QED
    BY <2>1, <2>2
<1>6. y = [x EXCEPT !.buffer = i, !.next = i + 1]
  BY <1>1, <1>4 DEF Executed
<1>7. IsOn(HwFields, y) /\ IsOn(HwFields, z)
  BY <1>3, <1>4, <1>6 DEF IsOn, HwFields
<1>8. \A f \in HwFields : y[f] = z[f]
  BY <1>3, <1>4, <1>5, <1>6 DEF IsOn, HwFields
<1>9. y = z
  BY <1>7, <1>8 DEF IsOn
<1>10. Kept(w, x)
  BY <1>4, <1>5 DEF Kept
<1> QED
  BY <1>1, <1>2, <1>4, <1>9, <1>10

\* The chip once the controller has told that it is ready.
Told(b) == [b EXCEPT !.ready = TRUE]

\* To tell it twice is to tell it once.
LEMMA ToldAgain ==
  ASSUME NEW b, NEW cmd, NEW a, NEW k, BusIs(b, cmd, a, k, FALSE), NEW c, c = Told(b)
  PROVE  Told(c) = c /\ Ready(c, cmd, a, k)
<1>1. IsOn(BusFields, b) /\ b.cmd = cmd /\ b.addr = a /\ b.taken = k
  BY DEF BusIs
<1>2. IsOn(BusFields, c) /\ c.cmd = cmd /\ c.addr = a /\ c.taken = k /\ c.ready = TRUE
  BY <1>1 DEF Told, IsOn, BusFields
<1>3. PICK d : d = Told(c)
  OBVIOUS
<1>4. IsOn(BusFields, d) /\ \A f \in BusFields : d[f] = c[f]
  BY <1>2, <1>3 DEF Told, IsOn, BusFields
<1>5. d = c
  BY <1>2, <1>4 DEF IsOn
<1> QED
  BY <1>2, <1>3, <1>5 DEF Ready, BusIs

\* The buffer of the controller holds so many codewords.
Roomy(w, n) == w.per_page \in Nat /\ n <= w.per_page

\* The next codeword is fetched.
LEMMA WordFetched ==
  ASSUME NEW s, NEW w, IsOn(HwFields, w), w.next = 0, NEW i \in Nat, s.hw = WordsDone(w, i), NEW b, Told(s.bus) = b
  PROVE  After(board, <<"exec">>, s) = Seen(b, WordsDone(w, i + 1), s.got)
<1>1. PICK op : op = <<"exec">>
  OBVIOUS
<1>2. op[1] = "exec"
  BY <1>1
<1>3. PICK x : x = s.hw
  OBVIOUS
<1>4. Executed(x) = WordsDone(w, i + 1)
  BY <1>3, WordsFollow
<1>5. After(board, op, s) = Seen([s.bus EXCEPT !.ready = TRUE], [s.hw EXCEPT !.buffer = s.hw.next, !.next = @ + 1], s.got)
  BY <1>2 DEF After
<1>6. [s.bus EXCEPT !.ready = TRUE] = b
  BY Zenon DEF Told
<1>7. [s.hw EXCEPT !.buffer = s.hw.next, !.next = @ + 1] = Executed(x)
  BY <1>3, Zenon DEF Executed
<1> QED
  BY <1>1, <1>4, <1>5, <1>6, <1>7, Zenon

\* It is copied to its place in the page, and its spare to its place.
LEMMA WordCopied ==
  ASSUME NEW page, Asks(page), Driven, NEW a, NamesIt(a, page), NEW w, Wide(w), w.next = 0,
         NEW n \in Nat, Roomy(w, n), NEW i \in 0 .. n - 1,
         NEW s, Ready(s.bus, CmdOf, a, 0), s.hw = WordsDone(w, i + 1), s.got = Pieces(page, i)
  PROVE  After(board, <<"copy", i>>, s) = Seen(s.bus, s.hw, Pieces(page, i + 1))
<1>1. PICK op : op = <<"copy", i>>
  OBVIOUS
<1>2. op[1] = "copy" /\ op[2] = i
  BY <1>1
<1>3. After(board, op, s) = CopiedBy(board, s, i)
  BY <1>2 DEF After
<1>4. PICK x, b : x = s.hw /\ b = s.bus
  OBVIOUS
<1>5. Kept(w, x) /\ x.buffer = i
  <2>1. PICK m \in Nat : m = i + 1 /\ m # 0 /\ m - 1 = i
    OBVIOUS
  <2>2. Kept(w, x) /\ (m # 0 => x.buffer = m - 1)
    BY <1>4, <2>1, WordsFollow DEF Wide
  <2> QED
    BY <2>1, <2>2
<1>6. Wide(x)
  BY <1>5, KeptWide
<1>7. x.buffer < x.per_page
  BY <1>5 DEF Kept, Roomy
<1>8. PICK ps \in Nat : ps = board.chip.page_size
  BY ChipSane DEF Asks
<1>9. PICK c \in Nat : c = 512 * i
  OBVIOUS
<1>10. PICK d \in Nat : d = ps + 16 * i
  OBVIOUS
<1>11. GivenBy(board, b, x, c) = Spot(page, c) /\ GivenBy(board, b, x, d) = Spot(page, d)
  BY <1>4, <1>6, <1>9, <1>10, AnyGiven
<1>12. CodewordFrom(board, b, x, c) = Spot(page, c) /\ CodewordFrom(board, b, x, d) = Spot(page, d)
  BY <1>7, <1>11 DEF CodewordFrom
<1>13. 512 * s.hw.buffer = c /\ board.chip.page_size + 16 * s.hw.buffer = d
  BY <1>4, <1>5, <1>8, <1>9, <1>10
<1>14. CopiedBy(board, s, i) = Seen(b, x, s.got \o Codeword(i, Spot(page, c), Spot(page, d)))
  BY <1>4, <1>12, <1>13 DEF CopiedBy
<1>15. PICK y, z : y = DataPiece(page, i) /\ z = SparePiece(page, i)
  OBVIOUS
<1>16. Codeword(i, Spot(page, c), Spot(page, d)) = <<y, z>>
  <2>1. y = Segment_("page", 512 * i, 512, Spot(page, c))
    BY <1>9, <1>15 DEF DataPiece
  <2>2. z = Segment_("spare", 16 * i, 16, Spot(page, d))
    BY <1>8, <1>10, <1>15 DEF SparePiece
  <2> QED
    BY <2>1, <2>2 DEF Codeword, Segment_
<1>17. Pieces(page, i) \o <<y, z>> = Pieces(page, i + 1)
  BY <1>15, PiecesGrow
<1> QED
  BY <1>1, <1>3, <1>4, <1>14, <1>16, <1>17, Zenon

\* The operations of the codewords of a page.
LEMMA CodewordsAre ==
  ASSUME NEW n \in Nat
  PROVE  /\ IsList(Nand!Codewords(n)) /\ Len(Nand!Codewords(n)) = 2 * n
         /\ \A i \in 0 .. n - 1 : /\ Nand!Codewords(n)[2 * i + 1] = <<"exec">>
                                  /\ Nand!Codewords(n)[2 * i + 2] = <<"copy", i>>
<1>1. PICK m \in Nat : m = 2 * n
  OBVIOUS
<1>2. PICK f : /\ f = [j \in 1 .. m |-> IF j % 2 = 1 THEN <<"exec">> ELSE <<"copy", (j \div 2) - 1>>]
               /\ f = Nand!Codewords(n)
  BY <1>1 DEF Nand!Codewords
<1>3. PICK S : S = {f[i] : i \in 1 .. m}
  OBVIOUS
<1>4. f \in [1 .. m -> S]
  BY <1>2, <1>3
<1>5. f \in Seq(S) /\ Len(f) = m
  BY <1>4, FunctionIsSeq
<1>6. ASSUME NEW i \in 0 .. n - 1 PROVE f[2 * i + 1] = <<"exec">> /\ f[2 * i + 2] = <<"copy", i>>
  <2>1. PICK j : j = 2 * i + 1
    OBVIOUS
  <2>2. PICK k : k = 2 * i + 2
    OBVIOUS
  <2>3. j \in 1 .. m /\ j % 2 = 1
    BY <1>1, <2>1
  <2>4. k \in 1 .. m /\ k % 2 # 1 /\ (k \div 2) - 1 = i
    BY <1>1, <2>2
  <2>5. f[j] = <<"exec">>
    BY <1>2, <2>3
  <2>6. f[k] = <<"copy", i>>
    BY <1>2, <2>4
  <2> QED
    BY <2>1, <2>2, <2>5, <2>6
<1> QED
  BY <1>1, <1>2, <1>5, <1>6 DEF IsList

\* Nothing is stored of no codeword.
LEMMA NoPieces ==
  ASSUME NEW page
  PROVE  Pieces(page, 0) = <<>>
<1>1. IsList(Pieces(page, 0)) /\ Len(Pieces(page, 0)) = 0
  BY PiecesAre
<1>2. PICK S : Pieces(page, 0) \in Seq(S)
  BY <1>1 DEF IsList
<1> QED
  BY <1>1, <1>2, EmptySeq

\* Every codeword of the page is fetched and copied.
LEMMA CodewordsFetch ==
  ASSUME NEW page, Asks(page), Driven, NEW a, NamesIt(a, page), NEW w, Wide(w), w.next = 0,
         NEW n \in Nat, Roomy(w, n), NEW s, StateIs(s, CmdOf, a, 0, FALSE, w, <<>>)
  PROVE  \E t : Runs(board, s, Nand!Codewords(n), t) /\ t.got = Pieces(page, n)
<1>1. PICK list : list = Nand!Codewords(n)
  OBVIOUS
<1>2. /\ IsList(list) /\ Len(list) = 2 * n
      /\ \A i \in 0 .. n - 1 : list[2 * i + 1] = <<"exec">> /\ list[2 * i + 2] = <<"copy", i>>
  BY <1>1, CodewordsAre
<1>3. BusIs(s.bus, CmdOf, a, 0, FALSE) /\ s.hw = w /\ s.got = <<>> /\ IsOn(HwFields, w)
  BY DEF StateIs, Wide
<1>4. PICK b : b = Told(s.bus)
  OBVIOUS
<1>5. Told(b) = b /\ Ready(b, CmdOf, a, 0)
  BY <1>3, <1>4, ToldAgain
<1>6. PICK q : q = [k \in 0 .. 2 * n |-> IF k = 0 THEN s ELSE Seen(b, WordsDone(w, (k + 1) \div 2), Pieces(page, k \div 2))]
  OBVIOUS
<1>7. q[0] = s
  BY <1>6
<1>8. \A k \in 0 .. 2 * n : /\ Told(q[k].bus) = b /\ q[k].hw = WordsDone(w, (k + 1) \div 2) /\ q[k].got = Pieces(page, k \div 2)
                            /\ k # 0 => q[k].bus = b
  <2> SUFFICES ASSUME NEW k \in 0 .. 2 * n
               PROVE  /\ Told(q[k].bus) = b /\ q[k].hw = WordsDone(w, (k + 1) \div 2) /\ q[k].got = Pieces(page, k \div 2)
                      /\ k # 0 => q[k].bus = b
    OBVIOUS
  <2>1. CASE k = 0
    <3>1. (k + 1) \div 2 = 0 /\ k \div 2 = 0
      BY <2>1
    <3>2. WordsDone(w, 0) = w
      BY DEF WordsDone
    <3> QED
      BY <1>3, <1>4, <1>7, <2>1, <3>1, <3>2, NoPieces
  <2>2. CASE k # 0
    <3>1. q[k] = Seen(b, WordsDone(w, (k + 1) \div 2), Pieces(page, k \div 2))
      BY <1>6, <2>2
    <3> QED
      BY <1>5, <3>1, SeenFields
  <2> QED
    BY <2>1, <2>2
<1>9. ASSUME NEW k \in 1 .. 2 * n PROVE list[k][1] \in ReadKinds /\ q[k] = After(board, list[k], q[k - 1])
  <2>1. PICK i \in 0 .. n - 1 : k = 2 * i + 1 \/ k = 2 * i + 2
    BY PieceOf
  <2>2. CASE k = 2 * i + 1
    <3>1. PICK j : j = k - 1
      OBVIOUS
    <3>2. j \in 0 .. 2 * n /\ (j + 1) \div 2 = i /\ j \div 2 = i
      BY <2>2, <3>1
    <3>3. Told(q[j].bus) = b /\ q[j].hw = WordsDone(w, i) /\ q[j].got = Pieces(page, i)
      BY <1>8, <3>2
    <3>4. After(board, <<"exec">>, q[j]) = Seen(b, WordsDone(w, i + 1), Pieces(page, i))
      <4>1. PICK r : r = q[j]
        OBVIOUS
      <4>2. After(board, <<"exec">>, r) = Seen(b, WordsDone(w, i + 1), r.got)
        BY <1>3, <3>3, <4>1, WordFetched
      <4> QED
        BY <3>3, <4>1, <4>2
    <3>5. (k + 1) \div 2 = i + 1 /\ k \div 2 = i /\ k # 0 /\ k \in 0 .. 2 * n
      BY <2>2
    <3>6. q[k] = Seen(b, WordsDone(w, i + 1), Pieces(page, i))
      BY <1>6, <3>5
    <3>7. list[k] = <<"exec">>
      BY <1>2, <2>2
    <3>8. list[k][1] \in ReadKinds
      BY <3>7 DEF ReadKinds
    <3> QED
      BY <3>1, <3>4, <3>6, <3>7, <3>8
  <2>3. CASE k = 2 * i + 2
    <3>1. PICK j : j = k - 1
      OBVIOUS
    <3>2. j \in 0 .. 2 * n /\ (j + 1) \div 2 = i + 1 /\ j \div 2 = i /\ j # 0
      BY <2>3, <3>1
    <3>3. q[j].bus = b /\ q[j].hw = WordsDone(w, i + 1) /\ q[j].got = Pieces(page, i)
      BY <1>8, <3>2
    <3>4. After(board, <<"copy", i>>, q[j]) = Seen(b, WordsDone(w, i + 1), Pieces(page, i + 1))
      <4>1. PICK r : r = q[j]
        OBVIOUS
      <4>2. Ready(r.bus, CmdOf, a, 0)
        BY <1>5, <3>3, <4>1
      <4>3. After(board, <<"copy", i>>, r) = Seen(r.bus, r.hw, Pieces(page, i + 1))
        BY <3>3, <4>1, <4>2, WordCopied
      <4> QED
        BY <3>3, <4>1, <4>3
    <3>5. (k + 1) \div 2 = i + 1 /\ k \div 2 = i + 1 /\ k # 0 /\ k \in 0 .. 2 * n
      BY <2>3
    <3>6. q[k] = Seen(b, WordsDone(w, i + 1), Pieces(page, i + 1))
      BY <1>6, <3>5
    <3>7. list[k] = <<"copy", i>>
      BY <1>2, <2>3
    <3>8. list[k][1] \in ReadKinds
      BY <3>7 DEF ReadKinds
    <3> QED
      BY <3>1, <3>4, <3>6, <3>7, <3>8
  <2> QED
    BY <2>1, <2>2, <2>3
<1>10. PICK m : m = 2 * n
  OBVIOUS
<1>11. q[m].got = Pieces(page, n)
  <2>1. m \in 0 .. 2 * n /\ m \div 2 = n
    BY <1>10
  <2> QED
    BY <1>8, <2>1
<1>12. Runs(board, s, list, q[m])
  BY <1>2, <1>7, <1>9, <1>10, Zenon DEF Runs
<1> QED
  BY <1>1, <1>11, <1>12, Zenon

\* The codewords of a page, and their operations.
Words == board.chip.page_size \div 512
AllWords == Nand!Codewords(entry.page_size \div 512)

\* Behind what started the page.
LEMMA CodewordsBehind ==
  ASSUME NEW page, Asks(page), Driven, NEW a, NamesIt(a, page), NEW w, Wide(w), w.next = 0,
         Roomy(w, Words), NEW s, NEW p, Reaches(board, s, p, CmdOf, a, 0, FALSE, w, <<>>)
  PROVE  Fetches(s, p \o AllWords, page)
<1>1. PICK n \in Nat : n = board.chip.page_size \div 512 /\ board.chip.page_size = 512 * n
  <2>1. board.chip.page_size \in {512, 1024, 2048, 4096, 8192}
    BY ChipSane DEF Asks
  <2>2. board.chip.page_size \div 512 \in Nat /\ board.chip.page_size = 512 * (board.chip.page_size \div 512)
    BY <2>1
  <2> QED
    BY <2>2
<1>2. entry.page_size \div 512 = n
  BY <1>1, Widths DEF Asks
<1>3. PICK t : IsList(p) /\ Runs(board, s, p, t) /\ StateIs(t, CmdOf, a, 0, FALSE, w, <<>>)
  BY Zenon DEF Reaches
<1>4. Roomy(w, n)
  BY <1>1 DEF Words
<1>5. PICK u : Runs(board, t, Nand!Codewords(n), u) /\ u.got = Pieces(page, n)
  BY <1>3, <1>4, CodewordsFetch
<1>6. IsList(Nand!Codewords(n))
  BY CodewordsAre
<1>7. Runs(board, s, p \o Nand!Codewords(n), u) /\ IsList(p \o Nand!Codewords(n))
  BY <1>3, <1>5, <1>6, RunsJoin
<1>8. FetchedIn(page, u.got)
  <2>1. FetchedIn(page, Pieces(page, n))
    BY <1>1, PiecesFetch
  <2> QED
    BY <1>5, <2>1, Zenon
<1>9. AllWords = Nand!Codewords(n)
  BY <1>2 DEF AllWords
<1> QED
  BY <1>7, <1>8, <1>9, Zenon DEF Fetches

-----------------------------------------------------------------------------
(* Every port's read.                                                      *)

\* What ends with the page fetches it.
LEMMA EndsFetch ==
  ASSUME NEW s, NEW list, NEW page, NEW w, \E g : Ends(board, s, list, w, g) /\ FetchedIn(page, g)
  PROVE  Fetches(s, list, page)
<1>1. PICK g : Ends(board, s, list, w, g) /\ FetchedIn(page, g)
  OBVIOUS
<1>2. PICK t : IsList(list) /\ Runs(board, s, list, t) /\ t.got = g
  BY <1>1, Zenon DEF Ends
<1> QED
  BY <1>1, <1>2, Zenon DEF Fetches

\* So does what comes behind the lock taken, or before it is given back.
LEMMA FetchBehind ==
  ASSUME NEW s, NEW a, NEW t, IsList(a), Runs(board, s, a, t), NEW list, NEW page, Fetches(t, list, page)
  PROVE  Fetches(s, a \o list, page)
<1>1. PICK u : IsList(list) /\ Runs(board, t, list, u) /\ FetchedIn(page, u.got)
  BY Zenon DEF Fetches
<1>2. Runs(board, s, a \o list, u) /\ IsList(a \o list)
  BY <1>1, RunsJoin
<1> QED
  BY <1>1, <1>2, Zenon DEF Fetches

\* The lock given back stores nothing.
LEMMA LockBehind ==
  ASSUME NEW s, NEW list, NEW page, Fetches(s, list, page), NEW on
  PROVE  Fetches(s, list \o Nand!Lock(on), page)
<1>1. PICK t : IsList(list) /\ Runs(board, s, list, t) /\ FetchedIn(page, t.got)
  BY Zenon DEF Fetches
<1>2. IsList(Nand!Lock(on)) /\ \E u : Runs(board, t, Nand!Lock(on), u) /\ Locks(t, u, on)
  BY LockRuns
<1>3. PICK u : Runs(board, t, Nand!Lock(on), u) /\ Locks(t, u, on)
  BY <1>2, Zenon
<1>4. Runs(board, s, list \o Nand!Lock(on), u) /\ IsList(list \o Nand!Lock(on))
  BY <1>1, <1>2, <1>3, RunsJoin
<1>5. FetchedIn(page, u.got)
  BY <1>1, <1>3, Zenon DEF Locks
<1> QED
  BY <1>4, <1>5, Zenon DEF Fetches

\* The lock keeps the width of the bus and the kind of page.
LEMMA LockedWide ==
  ASSUME NEW w, Wide(w), NEW on, NEW r, r = [w EXCEPT !.held = on]
  PROVE  Wide(r)
<1>1. IsOn(HwFields, w) /\ w.width = board.chip.bits /\ AnnouncedBy(board, w)
  BY DEF Wide
<1>2. IsOn(HwFields, r)
  BY <1>1, ExceptIsOn
<1>3. r.width = w.width /\ r.large = w.large
  BY <1>1 DEF IsOn, HwFields
<1> QED
  BY <1>1, <1>2, <1>3 DEF Wide, AnnouncedBy

\* What the controller must know of its chip, where it fetches pages by itself.
Msm == board.port \in {"msm6250", "msm6550", "msm6800", "msm7200"}
AxiBus == board.port = "bcm2133" /\ Nand!Axi
OneFlag == board.port \in {"pxa312", "msm6800"}
Fitted(w) ==
  /\ Wide(w)
  /\ Msm \/ AxiBus \/ OneFlag => Typed(w)
  /\ Msm => Roomy(w, Words)

\* What fetches a page over the bus, behind the lock or not.
LEMMA LockedRead ==
  ASSUME NEW page, Asks(page), SmallChip \/ LargeChip, NEW s, Wide(s.hw), s.got = <<>>
  PROVE  Fetches(s, Nand!Lock(TRUE) \o Nand!DefaultRead(page) \o Nand!Lock(FALSE), page)
<1>1. PICK on : on = TRUE
  OBVIOUS
<1>2. PICK list : list = Nand!DefaultRead(page)
  OBVIOUS
<1>3. IsList(Nand!Lock(on)) /\ \E t : Runs(board, s, Nand!Lock(on), t) /\ Locks(s, t, on)
  BY LockRuns
<1>4. PICK t : Runs(board, s, Nand!Lock(on), t) /\ Locks(s, t, on)
  BY <1>3, Zenon
<1>5. Wide(t.hw) /\ t.got = <<>>
  BY <1>4, LockedWide DEF Locks
<1>6. \E g : Ends(board, t, list, t.hw, g) /\ FetchedIn(page, g)
  BY <1>2, <1>5, DefaultReads
<1>7. Fetches(t, list, page)
  BY <1>6, EndsFetch, Zenon
<1>8. Fetches(s, Nand!Lock(on) \o list, page)
  BY <1>3, <1>4, <1>7, FetchBehind, Zenon
<1>9. Fetches(s, Nand!Lock(on) \o list \o Nand!Lock(FALSE), page)
  BY <1>8, LockBehind, Zenon
<1> QED
  BY <1>1, <1>2, <1>9, Zenon

\* The page and the spare, taken behind what started the page.
LEMMA TakenBehind ==
  ASSUME NEW page, Asks(page), Driven, NEW a, NamesIt(a, page), NEW w, Wide(w),
         NEW s, s.got = <<>>, NEW p, NEW ready, Reaches(board, s, p, CmdOf, a, 0, ready, w, s.got)
  PROVE  Fetches(s, p \o Nand!Wait \o Nand!Take("page", 0, entry.page_size) \o Nand!Take("spare", 0, Nand!Spare), page)
<1>1. PICK f : f = p \o Nand!Wait
  OBVIOUS
<1>2. PICK cmd : cmd = CmdOf
  OBVIOUS
<1>3. Reaches(board, s, f, cmd, a, 0, TRUE, w, s.got)
  BY <1>1, <1>2, WaitBehind
<1>4. GivesPage(cmd, a, w, page)
  BY <1>2, GivesIt
<1>5. \E g : /\ Ends(board, s, f \o Nand!Take("page", 0, entry.page_size) \o Nand!Take("spare", 0, Nand!Spare), w, g)
             /\ FetchedIn(page, g)
  BY <1>3, <1>4, PageTaken, Zenon
<1>6. Fetches(s, f \o Nand!Take("page", 0, entry.page_size) \o Nand!Take("spare", 0, Nand!Spare), page)
  BY <1>5, EndsFetch, Zenon
<1> QED
  BY <1>1, <1>6, Zenon

\* The address two registers hold.
LEMMA PairNames ==
  ASSUME NEW page, Asks(page)
  PROVE  /\ ~(entry.page_size > 512) <=> Narrow
         /\ Narrow => NamesIt(Nand!Left(page, 1) \o Nand!Right(page, 3), page)
                      /\ NamesIt(SubSeq(Nand!Left(page, 1) \o Nand!Right(page, 3), 1, 4), page)
         /\ ~Narrow => NamesIt(Nand!Left(page, 2) \o Nand!Right(page, 2), page)
                       /\ NamesIt(SubSeq(Nand!Left(page, 2) \o Nand!Right(page, 2), 1, 5), page)
<1>1. board.chip.page_size \in {512, 1024, 2048, 4096, 8192} /\ entry.page_size = board.chip.page_size
  BY ChipSane, Widths DEF Asks
<1>2. ~(entry.page_size > 512) <=> Narrow
  BY <1>1 DEF Narrow
<1>3. Narrow => NamesIt(Nand!Left(page, 1) \o Nand!Right(page, 3), page)
                /\ NamesIt(SubSeq(Nand!Left(page, 1) \o Nand!Right(page, 3), 1, 4), page)
  BY TwoRegisters, Zenon DEF NamesIt
<1>4. ~Narrow => NamesIt(Nand!Left(page, 2) \o Nand!Right(page, 2), page)
                 /\ NamesIt(SubSeq(Nand!Left(page, 2) \o Nand!Right(page, 2), 1, 5), page)
  BY TwoRegisters, Zenon DEF NamesIt
<1> QED
  BY <1>2, <1>3, <1>4

\* A state a read may begin in.
Begins(s, page) == Asks(page) /\ IsOn(BusFields, s.bus) /\ Fitted(s.hw) /\ s.got = <<>>

\* The ports that read over the bus.
LEMMA BusReads ==
  ASSUME NEW page, NEW s, Begins(s, page), board.port \in {"default", "dummy", "s3c2410", "s3c2440"}
  PROVE  Fetches(s, Nand!DefaultRead(page), page)
<1>1. SmallChip \/ LargeChip
  <2>1. board.port = "dummy" => board.chip.page_size = 512
    BY ChipReadable DEF Begins, Asks, Listed, Nand!Readable
  <2> QED
    BY <2>1 DEF SmallChip, LargeChip
<1>2. PICK list : list = Nand!DefaultRead(page)
  OBVIOUS
<1>3. Asks(page) /\ Wide(s.hw) /\ s.got = <<>>
  BY DEF Begins, Fitted
<1>4. \E g : Ends(board, s, list, s.hw, g) /\ FetchedIn(page, g)
  BY <1>1, <1>2, <1>3, DefaultReads
<1> QED
  BY <1>2, <1>4, EndsFetch, Zenon

\* The BCM2133, behind the lock, or behind AXI by its registers.
LEMMA BcmReads ==
  ASSUME NEW page, NEW s, Begins(s, page), board.port = "bcm2133"
  PROVE  Fetches(s, Nand!BcmRead(page), page)
<1>1. Asks(page) /\ Wide(s.hw) /\ s.got = <<>> /\ IsOn(BusFields, s.bus) /\ IsOn(HwFields, s.hw)
  BY DEF Begins, Fitted, Wide
<1>2. Driven
  BY DEF Driven
<1>3. CASE Nand!Axi
  <2>1. Narrow
    BY <1>1, <1>3, ChipReadable DEF Asks, Listed, Nand!Readable, Nand!Axi, Narrow
  <2>2. Typed(s.hw)
    BY <1>3 DEF Begins, Fitted, AxiBus
  <2>3. PICK l, r : l = Nand!Left(page, 1) /\ r = Nand!Right(page, 3)
    OBVIOUS
  <2>4. NamesIt(l \o r, page) /\ ~(entry.page_size > 512)
    BY <1>1, <2>1, <2>3, PairNames, Zenon
  <2>5. PICK p, a : p = PairSet(l, r) /\ a = l \o r
    OBVIOUS
  <2>6. PICK w : Reaches(board, s, p, CmdOf, a, 0, FALSE, w, s.got) /\ Kept(s.hw, w)
    BY <1>1, <2>2, <2>5, PairReaches
  <2>7. Wide(w)
    BY <1>1, <2>6, KeptWide
  <2>8. Fetches(s, p \o Nand!Wait \o Nand!Take("page", 0, entry.page_size) \o Nand!Take("spare", 0, Nand!Spare), page)
    BY <1>1, <1>2, <2>4, <2>5, <2>6, <2>7, TakenBehind, Zenon
  <2>9. Nand!BcmRead(page) = p \o Nand!Wait \o Nand!Take("page", 0, entry.page_size) \o Nand!Take("spare", 0, Nand!Spare)
    BY <1>3, <2>3, <2>4, <2>5, Zenon DEF Nand!BcmRead, PairSet
  <2> QED
    BY <2>8, <2>9, Zenon
<1>4. CASE ~Nand!Axi
  <2>1. SmallChip \/ LargeChip
    BY DEF SmallChip, LargeChip
  <2>2. Fetches(s, Nand!Lock(TRUE) \o Nand!DefaultRead(page) \o Nand!Lock(FALSE), page)
    BY <1>1, <2>1, LockedRead, Zenon
  <2> QED
    BY <1>4, <2>2, Zenon DEF Nand!BcmRead
<1> QED
  BY <1>3, <1>4

\* The MSM6250 and MSM6550, whose pages are one codeword, and the MSM6800.
LEMMA MsmReads ==
  ASSUME NEW page, NEW s, Begins(s, page), board.port \in {"msm6250", "msm6550", "msm6800"}
  PROVE  Fetches(s, Nand!ReadOps(page), page)
<1>1. Asks(page) /\ Wide(s.hw) /\ s.got = <<>> /\ IsOn(BusFields, s.bus) /\ IsOn(HwFields, s.hw)
  BY DEF Begins, Fitted, Wide
<1>2. Driven /\ Typed(s.hw) /\ Roomy(s.hw, Words)
  BY DEF Driven, Begins, Fitted, Msm
<1>3. PICK p : p = Nand!Set("page", Nand!Left(page, 0))
  OBVIOUS
<1>4. PICK a, w : /\ Reaches(board, s, p, CmdOf, a, 0, FALSE, w, s.got)
                  /\ NamesIt(a, page) /\ Kept(s.hw, w) /\ w.next = 0
  BY <1>1, <1>2, <1>3, PageStarts
<1>5. Wide(w) /\ Roomy(w, Words)
  <2>1. Wide(w)
    BY <1>1, <1>4, KeptWide
  <2>2. w.per_page = s.hw.per_page
    BY <1>4 DEF Kept
  <2> QED
    BY <1>2, <2>1, <2>2 DEF Roomy
<1>6. Fetches(s, p \o AllWords, page)
  <2>1. Reaches(board, s, p, CmdOf, a, 0, FALSE, w, <<>>)
    BY <1>1, <1>4, Zenon
  <2> QED
    BY <1>1, <1>2, <1>4, <1>5, <2>1, CodewordsBehind, Zenon
<1>7. CASE board.port = "msm6800"
  <2>1. Nand!ReadOps(page) = p \o AllWords
    BY <1>3, <1>7 DEF Nand!ReadOps, Nand!port, Nand!Msm6800Read, AllWords
  <2> QED
    BY <1>6, <2>1, Zenon
<1>8. CASE board.port \in {"msm6250", "msm6550"}
  <2>1. ~WithExtra
    BY <1>8 DEF WithExtra, TableName, Super
  <2>2. ChipTable[board.chip.dev].page_size # 0 /\ Nand!Matches(board.chip, ChipTable[board.chip.dev])
    BY <1>1, <2>1, ChipInTable DEF Asks, Listed
  <2>3. board.chip.page_size <= 512
    BY <2>2 DEF Nand!Matches
  <2>4. board.chip.page_size = 512
    BY <1>1, <2>3, ChipSane DEF Asks
  <2>5. entry.page_size \div 512 = 1
    <3>1. entry.page_size = 512
      BY <1>1, <2>4, Widths DEF Asks
    <3> QED
      BY <3>1
  <2>6. Nand!ReadOps(page) = p \o Nand!Codewords(1)
    BY <1>3, <1>8 DEF Nand!ReadOps, Nand!port, Nand!Msm6250Read
  <2>7. AllWords = Nand!Codewords(1)
    BY <2>5 DEF AllWords
  <2> QED
    BY <1>6, <2>6, <2>7, Zenon
<1> QED
  BY <1>7, <1>8

\* The MSM7200.
LEMMA Msm7200Reads ==
  ASSUME NEW page, NEW s, Begins(s, page), board.port = "msm7200"
  PROVE  Fetches(s, Nand!Msm7200Read(page), page)
<1>1. Asks(page) /\ Wide(s.hw) /\ s.got = <<>> /\ IsOn(BusFields, s.bus) /\ IsOn(HwFields, s.hw)
  BY DEF Begins, Fitted, Wide
<1>2. Driven /\ Typed(s.hw) /\ Roomy(s.hw, Words)
  BY DEF Driven, Begins, Fitted, Msm
<1>3. \E l, r : /\ NamesIt(l \o r, page)
                /\ Nand!Msm7200Read(page) = PairSet(l, r) \o AllWords
  <2>1. CASE Narrow
    <3>1. ~(entry.page_size > 512) /\ NamesIt(Nand!Left(page, 1) \o Nand!Right(page, 3), page)
      BY <1>1, <2>1, PairNames, Zenon
    <3>2. Nand!Msm7200Read(page) = PairSet(Nand!Left(page, 1), Nand!Right(page, 3)) \o AllWords
      BY <3>1, Zenon DEF Nand!Msm7200Read, PairSet, AllWords
    <3> QED
      BY <3>1, <3>2, Zenon
  <2>2. CASE ~Narrow
    <3>1. entry.page_size > 512 /\ NamesIt(Nand!Left(page, 2) \o Nand!Right(page, 2), page)
      BY <1>1, <2>2, PairNames, Zenon
    <3>2. Nand!Msm7200Read(page) = PairSet(Nand!Left(page, 2), Nand!Right(page, 2)) \o AllWords
      BY <3>1, Zenon DEF Nand!Msm7200Read, PairSet, AllWords
    <3> QED
      BY <3>1, <3>2, Zenon
  <2> QED
    BY <2>1, <2>2
<1>4. PICK l, r : /\ NamesIt(l \o r, page)
                  /\ Nand!Msm7200Read(page) = PairSet(l, r) \o AllWords
  BY <1>3, Zenon
<1>5. PICK p, a : p = PairSet(l, r) /\ a = l \o r
  OBVIOUS
<1>6. PICK w : Reaches(board, s, p, CmdOf, a, 0, FALSE, w, s.got) /\ Kept(s.hw, w) /\ w.next = 0
  BY <1>1, <1>2, <1>5, PairReaches
<1>7. Wide(w) /\ Roomy(w, Words)
  <2>1. Wide(w)
    BY <1>1, <1>6, KeptWide
  <2>2. w.per_page = s.hw.per_page
    BY <1>6 DEF Kept
  <2> QED
    BY <1>2, <2>1, <2>2 DEF Roomy
<1>8. Fetches(s, p \o AllWords, page)
  <2>1. Reaches(board, s, p, CmdOf, a, 0, FALSE, w, <<>>)
    BY <1>1, <1>6, Zenon
  <2>2. NamesIt(a, page)
    BY <1>4, <1>5, Zenon
  <2> QED
    BY <1>1, <1>2, <1>6, <1>7, <2>1, <2>2, CodewordsBehind, Zenon
<1> QED
  BY <1>4, <1>5, <1>8, Zenon

\* The PXA312 between its run bit set and cleared.
LEMMA PxaReads ==
  ASSUME NEW page, NEW s, Begins(s, page), board.port = "pxa312"
  PROVE  Fetches(s, Nand!PxaRead(page), page)
<1>1. Asks(page) /\ Wide(s.hw) /\ s.got = <<>>
  BY DEF Begins, Fitted
<1>2. Driven
  BY DEF Driven
<1>3. PICK on : on = TRUE
  OBVIOUS
<1>4. IsList(Nand!Lock(on)) /\ \E t : Runs(board, s, Nand!Lock(on), t) /\ Locks(s, t, on)
  BY LockRuns
<1>5. PICK t : Runs(board, s, Nand!Lock(on), t) /\ Locks(s, t, on)
  BY <1>4, Zenon
<1>6. Wide(t.hw) /\ t.got = s.got
  BY <1>1, <1>5, LockedWide DEF Locks
<1>7. PICK x, y : /\ x = SubSeq(Nand!Left(page, 1) \o Nand!Right(page, 3), 1, 4)
                  /\ y = SubSeq(Nand!Left(page, 2) \o Nand!Right(page, 2), 1, 5)
  OBVIOUS
<1>8. PICK f : f = (IF entry.page_size <= 512 THEN Nand!Send("READ0", x) ELSE Nand!Send("READ0", y) \o Nand!Send("READSTART", <<>>))
  OBVIOUS
<1>9. Narrow <=> entry.page_size <= 512
  <2>1. entry.page_size \in {512, 1024, 2048, 4096, 8192} /\ entry.page_size = board.chip.page_size
    BY <1>1, ChipSane, Widths DEF Asks
  <2> QED
    BY <2>1 DEF Narrow
<1>10. \E a : NamesIt(a, page) /\ Reaches(board, t, f, CmdOf, a, 0, FALSE, t.hw, t.got)
  <2>1. CASE Narrow
    <3>1. NamesIt(x, page)
      BY <1>1, <1>7, <2>1, PairNames, Zenon
    <3>2. f = Nand!Send("READ0", x) /\ CmdOf = "READ0"
      BY <1>8, <1>9, <2>1 DEF CmdOf
    <3>3. Reaches(board, t, f, "READ0", x, 0, FALSE, t.hw, t.got)
      BY <3>2, SendReaches
    <3> QED
      BY <3>1, <3>2, <3>3, Zenon
  <2>2. CASE ~Narrow
    <3>1. NamesIt(y, page)
      BY <1>1, <1>7, <2>2, PairNames, Zenon
    <3>2. f = Nand!Send("READ0", y) \o Nand!Send("READSTART", <<>>) /\ CmdOf = "READSTART"
      BY <1>8, <1>9, <2>2 DEF CmdOf
    <3>3. Reaches(board, t, Nand!Send("READ0", y), "READ0", y, 0, FALSE, t.hw, t.got)
      BY SendReaches
    <3>4. Reaches(board, t, Nand!Send("READ0", y) \o Nand!Send("READSTART", <<>>), "READSTART", y, 0, FALSE, t.hw, t.got)
      BY <3>3, StartBehind
    <3> QED
      BY <3>1, <3>2, <3>4, Zenon
  <2> QED
    BY <2>1, <2>2
<1>11. PICK a : NamesIt(a, page) /\ Reaches(board, t, f, CmdOf, a, 0, FALSE, t.hw, t.got)
  BY <1>10
<1>12. PICK p : p = Nand!Lock(on) \o f
  OBVIOUS
<1>13. Reaches(board, s, p, CmdOf, a, 0, FALSE, t.hw, s.got)
  BY <1>4, <1>5, <1>6, <1>11, <1>12, ReachesJoin, Zenon
<1>14. PICK list : list = p \o Nand!Wait \o Nand!Take("page", 0, entry.page_size) \o Nand!Take("spare", 0, Nand!Spare)
  OBVIOUS
<1>15. Fetches(s, list, page)
  BY <1>1, <1>2, <1>6, <1>11, <1>13, <1>14, TakenBehind, Zenon
<1>16. Fetches(s, list \o Nand!Lock(FALSE), page)
  BY <1>15, LockBehind, Zenon
<1>17. Nand!PxaRead(page) = list \o Nand!Lock(FALSE)
  BY <1>3, <1>7, <1>8, <1>12, <1>14, Zenon DEF Nand!PxaRead, Nand!Start, Nand!Stop
<1> QED
  BY <1>16, <1>17, Zenon

\* The sectors of a SuperAND that is there are as many as two bytes name.
LEMMA SectorsNamed ==
  ASSUME Listed, Super
  PROVE  board.chip.page_size = 512 /\ board.chip.size <= TwoBytes
<1>1. \A d \in DOMAIN Nand!superand_ids : Nand!superand_ids[d].page_size = 512 /\ Nand!superand_ids[d].size <= 65536
  <2>1. \A p \in {Nand!Part({\h51, \h52}, 512, 16 * Nand!MB, 16, 8), Nand!Part({\h53, \h54}, 512, 16 * Nand!MB, 16, 16),
                  Nand!Part({\h49}, 512, 32 * Nand!MB, 16, 8), Nand!Part({\h4a}, 512, 32 * Nand!MB, 16, 16),
                  Nand!Part({\h58}, 512, 64 * Nand!MB, 16, 8), Nand!Part({\h5b}, 512, 64 * Nand!MB, 16, 16)} :
          p.info.page_size = 512 /\ p.info.size <= 65536
    BY DEF Nand!Part, Nand!MB
  <2> QED
    BY <2>1 DEF Nand!superand_ids, Nand!ByDevice
<1>2. ChipTable = Nand!superand_ids
  BY DEF ChipTable, TableName, Nand!Table
<1>3. Nand!Matches(board.chip, ChipTable[board.chip.dev]) /\ board.chip.dev \in DOMAIN ChipTable
  BY ChipInTable DEF Listed
<1>4. PICK info : info = ChipTable[board.chip.dev]
  OBVIOUS
<1>5. info.page_size = 512 /\ info.size <= 65536
  BY <1>1, <1>2, <1>3, <1>4
<1>6. board.chip.page_size = 512 /\ board.chip.size = info.size
  BY <1>3, <1>4, <1>5 DEF Nand!Matches
<1> QED
  BY <1>5, <1>6 DEF TwoBytes

\* What a SuperAND gives: a sector is four pages, and the column is in them.
SandAddress(page) ==
  <<0, IF entry.bit_width = 8 THEN 2 * (page % 4) ELSE page % 4, Nand!Byte(page \div 4, 0), Nand!Byte(page \div 4, 1)>>

\* The page asked for is in the sector, at its column.
LEMMA SandGiven ==
  ASSUME NEW page, Asks(page), Super, NEW w, Wide(w), NEW a, a = SandAddress(page), NEW b, NEW k, Ready(b, "READ", a, k)
  PROVE  GivenBy(board, b, w, 0) = Spot(page, 0)
<1>1. b.cmd = "READ" /\ b.addr = a /\ b.ready = TRUE /\ w.width = board.chip.bits /\ board.port = "superand"
  BY DEF Ready, BusIs, Wide, Super
<1>2. PICK sector \in Nat, sp \in 0 .. 3 : page = 4 * sector + sp /\ sector = page \div 4 /\ sp = page % 4
  <2>1. page \div 4 \in Nat /\ page % 4 \in 0 .. 3 /\ page = 4 * (page \div 4) + (page % 4)
    BY DEF Asks
  <2> QED
    BY <2>1
<1>3. sector < TwoBytes
  <2>1. page < 2 * board.chip.size /\ board.chip.size \in Nat /\ board.chip.size <= TwoBytes
    BY SectorsNamed, RowsBounded, ChipSane DEF Asks
  <2> QED
    BY <1>2, <2>1 DEF TwoBytes
<1>4. sector < ThreeBytes
  BY <1>3 DEF TwoBytes, ThreeBytes
<1>5. PICK b0, b1 : b0 = Nand!Byte(sector, 0) /\ b1 = Nand!Byte(sector, 1)
  OBVIOUS
<1>6. b0 + 256 * b1 = sector /\ b0 \in 0 .. 255 /\ b1 \in 0 .. 255
  BY <1>3, <1>4, <1>5, BytesOfPage
<1>7. PICK c : c = (IF entry.bit_width = 8 THEN 2 * sp ELSE sp)
  OBVIOUS
<1>8. a = <<0, c, b0, b1>>
  BY <1>2, <1>5, <1>7, Zenon DEF SandAddress
<1>9. Len(a) = 4 /\ a[1] = 0 /\ a[2] = c /\ a[3] = b0 /\ a[4] = b1
  BY <1>8
<1>10. PICK col : col = (a[1] + 256 * a[2]) * (board.chip.bits \div 8)
  OBVIOUS
<1>11. PICK row : row = 4 * (a[3] + 256 * a[4])
  OBVIOUS
<1>12. SelectedBy(board, b) = [row |-> row, col |-> col]
  BY <1>1, <1>9, <1>10, <1>11 DEF SelectedBy
<1>13. row = 4 * sector
  BY <1>6, <1>9, <1>11
<1>14. col = 512 * sp
  <2>1. entry.bit_width = board.chip.bits /\ (entry.bit_width = 8 \/ entry.bit_width = 16)
    BY Widths DEF Asks
  <2>2. CASE entry.bit_width = 8
    <3>1. board.chip.bits \div 8 = 1 /\ c = 2 * sp
      BY <1>7, <2>1, <2>2
    <3> QED
      BY <1>9, <1>10, <3>1
  <2>3. CASE entry.bit_width = 16
    <3>1. board.chip.bits \div 8 = 2 /\ c = sp
      BY <1>7, <2>1, <2>3
    <3> QED
      BY <1>9, <1>10, <3>1
  <2> QED
    BY <2>1, <2>2, <2>3
<1>15. SelectedBy(board, b) # Nand!Nowhere
  BY <1>12, <1>13 DEF Nand!Nowhere
<1>16. (col + 0) \div 512 = sp /\ (col + 0) % 512 = 0
  BY <1>14
<1>17. GivenBy(board, b, w, 0) = [row |-> row + (col + 0) \div 512, col |-> (col + 0) % 512]
  <2>1. AnnouncedBy(board, w)
    BY DEF Wide
  <2> QED
    BY <1>1, <1>12, <1>15, <2>1 DEF GivenBy
<1>18. RowSeen(page) = row + (col + 0) \div 512
  BY <1>1, <1>2, <1>13, <1>16 DEF RowSeen
<1> QED
  BY <1>16, <1>17, <1>18 DEF Spot

\* What ends the read sequence stores nothing.
LEMMA ExitBehind ==
  ASSUME NEW s, NEW list, NEW page, Fetches(s, list, page)
  PROVE  Fetches(s, list \o Nand!Send("READ_EXIT", <<>>), page)
<1>1. PICK t : IsList(list) /\ Runs(board, s, list, t) /\ FetchedIn(page, t.got)
  BY Zenon DEF Fetches
<1>2. Ends(board, t, Nand!Send("READ_EXIT", <<>>), t.hw, t.got)
  BY ExitEnds
<1>3. PICK u : IsList(Nand!Send("READ_EXIT", <<>>)) /\ Runs(board, t, Nand!Send("READ_EXIT", <<>>), u) /\ u.got = t.got
  BY <1>2, Zenon DEF Ends
<1>4. /\ Runs(board, s, list \o Nand!Send("READ_EXIT", <<>>), u)
      /\ IsList(list \o Nand!Send("READ_EXIT", <<>>))
  BY <1>1, <1>3, RunsJoin
<1>5. FetchedIn(page, u.got)
  BY <1>1, <1>3, Zenon
<1> QED
  BY <1>4, <1>5, Zenon DEF Fetches

\* A SuperAND.
LEMMA SuperAndReads ==
  ASSUME NEW page, NEW s, Begins(s, page), Super
  PROVE  Fetches(s, Nand!SuperAndRead(page), page)
<1>1. Asks(page) /\ Wide(s.hw) /\ s.got = <<>>
  BY DEF Begins, Fitted
<1>2. PICK a : a = SandAddress(page)
  OBVIOUS
<1>3. PICK cmd : cmd = "READ"
  OBVIOUS
<1>4. PICK p1 : p1 = Nand!Send(cmd, a)
  OBVIOUS
<1>5. Reaches(board, s, p1, cmd, a, 0, FALSE, s.hw, s.got)
  BY <1>3, <1>4, SendReaches
<1>6. PICK p2 : p2 = p1 \o Nand!Wait
  OBVIOUS
<1>7. Reaches(board, s, p2, cmd, a, 0, TRUE, s.hw, s.got)
  BY <1>5, <1>6, WaitBehind
<1>8. PICK p3 : p3 = p2 \o Nand!Status
  OBVIOUS
<1>9. Reaches(board, s, p3, cmd, a, 0, TRUE, s.hw, s.got)
  BY <1>7, <1>8, StatusBehind
<1>10. PICK from : from = Spot(page, 0)
  OBVIOUS
<1>11. \A b : Ready(b, cmd, a, 0) => GivenBy(board, b, s.hw, 0) = from
  BY <1>1, <1>2, <1>3, <1>10, SandGiven
<1>12. PICK ps \in Nat : ps = board.chip.page_size /\ entry.page_size = ps
  BY <1>1, ChipSane, Widths DEF Asks
<1>13. PICK p4 : p4 = p3 \o Nand!Take("page", 0, ps)
  OBVIOUS
<1>14. PICK g : g = Append(s.got, Segment_("page", 0, ps, from))
  OBVIOUS
<1>15. Reaches(board, s, p4, cmd, a, 0 + ps, TRUE, s.hw, g)
  BY <1>9, <1>11, <1>13, <1>14, TakeAdds
<1>16. Ends(board, s, p4, s.hw, g)
  BY <1>15, ReachesEnds
<1>17. FetchedIn(page, g)
  <2>1. FetchedIn(page, Append(<<>>, Segment_("page", 0, ps, Spot(page, 0))))
    BY <1>12, OneSegment
  <2> QED
    BY <1>1, <1>10, <1>14, <2>1, Zenon
<1>18. Fetches(s, p4, page)
  BY <1>16, <1>17, EndsFetch, Zenon
<1>19. Fetches(s, p4 \o Nand!Send("READ_EXIT", <<>>), page)
  BY <1>18, ExitBehind, Zenon
<1>20. Nand!SuperAndRead(page) = p4 \o Nand!Send("READ_EXIT", <<>>)
  BY <1>2, <1>3, <1>4, <1>6, <1>8, <1>12, <1>13, Zenon DEF Nand!SuperAndRead, SandAddress
<1> QED
  BY <1>19, <1>20, Zenon

\* Whatever the port, its read fetches the page it is asked for.
LEMMA EveryRead ==
  ASSUME NEW page, NEW s, Begins(s, page)
  PROVE  Fetches(s, Nand!ReadOps(page), page)
<1>1. board.port \in Nand!Controllers
  BY ChipInTable DEF Begins, Asks, Listed
<1>2. CASE board.port \in {"default", "dummy", "s3c2410", "s3c2440"}
  <2>1. Nand!ReadOps(page) = Nand!DefaultRead(page)
    BY <1>2 DEF Nand!ReadOps, Nand!port, Nand!DummyRead, Nand!S3cRead
  <2> QED
    BY <1>2, <2>1, BusReads
<1>3. CASE board.port = "bcm2133"
  <2>1. Nand!ReadOps(page) = Nand!BcmRead(page)
    BY <1>3 DEF Nand!ReadOps, Nand!port
  <2> QED
    BY <1>3, <2>1, BcmReads
<1>4. CASE board.port = "pxa312"
  <2>1. Nand!ReadOps(page) = Nand!PxaRead(page)
    BY <1>4 DEF Nand!ReadOps, Nand!port
  <2> QED
    BY <1>4, <2>1, PxaReads
<1>5. CASE board.port \in {"msm6250", "msm6550", "msm6800"}
  BY <1>5, MsmReads
<1>6. CASE board.port = "msm7200"
  <2>1. Nand!ReadOps(page) = Nand!Msm7200Read(page)
    BY <1>6 DEF Nand!ReadOps, Nand!port
  <2> QED
    BY <1>6, <2>1, Msm7200Reads
<1>7. CASE board.port = "superand"
  <2>1. Nand!ReadOps(page) = Nand!SuperAndRead(page)
    BY <1>7 DEF Nand!ReadOps, Nand!port
  <2> QED
    BY <1>7, <2>1, SuperAndReads DEF Super
<1> QED
  BY <1>1, <1>2, <1>3, <1>4, <1>5, <1>6, <1>7 DEF Nand!Controllers

-----------------------------------------------------------------------------
(* What a probe tells its controller, and when.                            *)

\* The operations that look at the chip's id, and those that use what was found.
Look(op) == op[1] \in {"identify", "extend", "small_only"}
Tune(op) == op[1] \in {"width", "large", "codewords"}

\* The last look is the m-th operation: nothing is told before it, and only before it the status
\* may end the probe.
Split(s, m) ==
  /\ m \in 0 .. Len(s)
  /\ \A i \in 1 .. m : ~Tune(s[i])
  /\ \A i \in m + 1 .. Len(s) : ~Look(s[i]) /\ s[i][1] # "status"
  /\ m # 0 => Look(s[m])
Probes(s) == IsList(s) /\ \E m \in Nat : Split(s, m)

\* Lists that tell nothing, and lists behind the last look.
Untold(s) == IsList(s) /\ \A i \in 1 .. Len(s) : ~Tune(s[i])
Unlooked(s) == IsList(s) /\ \A i \in 1 .. Len(s) : ~Look(s[i]) /\ s[i][1] # "status"
Has(s, kind) == \E i \in 1 .. Len(s) : s[i][1] = kind

\* Two lists that tell nothing are one.
LEMMA UntoldJoins ==
  ASSUME NEW s, NEW t, Untold(s), Untold(t)
  PROVE  Untold(s \o t)
<1>1. PICK u : u = s \o t /\ IsList(u) /\ Joins(s, t, u)
  BY ListsJoin DEF Untold
<1>2. ASSUME NEW i \in 1 .. Len(u) PROVE ~Tune(u[i])
  <2>1. CASE i \in 1 .. Len(s)
    BY <1>1, <2>1 DEF Joins, Untold
  <2>2. CASE \E j \in 1 .. Len(t) : i = Len(s) + j
    BY <1>1, <2>2 DEF Joins, Untold
  <2> QED
    BY <1>1, <2>1, <2>2, OfEither
<1> QED
  BY <1>1, <1>2 DEF Untold

\* The last look behind what tells nothing.
LEMMA LastLook ==
  ASSUME NEW s, Untold(s), NEW op, Look(op)
  PROVE  Probes(s \o <<op>>)
<1>1. PICK t : t = <<op>> /\ IsList(t) /\ Len(t) = 1 /\ t[1] = op
  BY OneElement
<1>2. PICK u : u = s \o t /\ IsList(u) /\ Joins(s, t, u)
  BY <1>1, ListsJoin DEF Untold
<1>3. PICK n \in Nat : n = Len(s) /\ Len(u) = n + 1 /\ u[n + 1] = op /\ \A i \in 1 .. n : u[i] = s[i]
  <2>1. Len(s) \in Nat /\ Len(u) = Len(s) + Len(t) /\ (\A i \in 1 .. Len(t) : u[Len(s) + i] = t[i])
        /\ \A i \in 1 .. Len(s) : u[i] = s[i]
    BY <1>2 DEF Joins
  <2>2. 1 \in 1 .. 1
    OBVIOUS
  <2>3. 1 \in 1 .. Len(t)
    BY <1>1, <2>2, Zenon
  <2>4. Len(u) = Len(s) + 1 /\ u[Len(s) + 1] = op
    BY <1>1, <2>1, <2>3, Zenon
  <2> QED
    BY <2>1, <2>4
<1>4. PICK m \in Nat : m = n + 1
  OBVIOUS
<1>5. ~Tune(op)
  BY DEF Look, Tune
<1>6. ASSUME NEW i \in 1 .. m PROVE ~Tune(u[i])
  <2>1. CASE i = m
    BY <1>3, <1>4, <1>5, <2>1
  <2>2. CASE i # m
    <3>1. i \in 1 .. n
      BY <1>4, <2>2
    <3> QED
      BY <1>3, <3>1 DEF Untold
  <2> QED
    BY <2>1, <2>2
<1>7. m \in 0 .. Len(u) /\ (\A i \in m + 1 .. Len(u) : ~Look(u[i]) /\ u[i][1] # "status") /\ Look(u[m])
  <2>1. m \in 0 .. m /\ \A i \in m + 1 .. m : FALSE
    OBVIOUS
  <2>2. Len(u) = m /\ u[m] = op
    BY <1>3, <1>4
  <2> QED
    BY <2>1, <2>2
<1>8. Split(u, m)
  BY <1>6, <1>7 DEF Split
<1> QED
  BY <1>1, <1>2, <1>8 DEF Probes

\* What comes behind the last look.
LEMMA BehindLooks ==
  ASSUME NEW s, Probes(s), NEW t, Unlooked(t)
  PROVE  Probes(s \o t)
<1>1. PICK m \in Nat : IsList(s) /\ Split(s, m)
  BY DEF Probes
<1>2. PICK u : u = s \o t /\ IsList(u) /\ Joins(s, t, u)
  BY <1>1, ListsJoin DEF Unlooked
<1>3. PICK n \in Nat, k \in Nat : n = Len(s) /\ k = Len(t) /\ Len(u) = n + k
  BY <1>2 DEF Joins
<1>4. (\A i \in 1 .. n : u[i] = s[i]) /\ \A i \in 1 .. k : u[n + i] = t[i]
  BY <1>2, <1>3 DEF Joins
<1>5. /\ m \in 0 .. n /\ (\A i \in 1 .. m : ~Tune(s[i])) /\ (m # 0 => Look(s[m]))
      /\ \A i \in m + 1 .. n : ~Look(s[i]) /\ s[i][1] # "status"
  BY <1>1, <1>3 DEF Split
<1>6. \A i \in 1 .. k : ~Look(t[i]) /\ t[i][1] # "status"
  BY <1>3 DEF Unlooked
<1>7. ASSUME NEW i \in m + 1 .. n + k PROVE ~Look(u[i]) /\ u[i][1] # "status"
  <2>1. CASE i <= n
    <3>1. i \in m + 1 .. n /\ i \in 1 .. n
      BY <2>1
    <3> QED
      BY <1>4, <1>5, <3>1
  <2>2. CASE i > n
    <3>1. i - n \in 1 .. k /\ n + (i - n) = i
      BY <2>2
    <3> QED
      BY <1>4, <1>6, <3>1
  <2> QED
    BY <2>1, <2>2
<1>8. /\ m \in 0 .. n + k /\ (\A i \in 1 .. m : ~Tune(u[i])) /\ (m # 0 => Look(u[m]))
  <2>1. \A i \in 1 .. m : i \in 1 .. n
    BY <1>5
  <2>2. m # 0 => m \in 1 .. m
    OBVIOUS
  <2>3. m \in 0 .. n + k
    BY <1>5
  <2> QED
    BY <1>4, <1>5, <2>1, <2>2, <2>3
<1>9. Split(u, m)
  BY <1>3, <1>7, <1>8 DEF Split
<1> QED
  BY <1>2, <1>9 DEF Probes

\* What one list has, both have together.
LEMMA HasJoins ==
  ASSUME NEW s, IsList(s), NEW t, IsList(t), NEW kind, Has(s, kind) \/ Has(t, kind)
  PROVE  Has(s \o t, kind)
<1>1. PICK u : u = s \o t /\ Joins(s, t, u)
  BY ListsJoin
<1>2. PICK n \in Nat, k \in Nat : n = Len(s) /\ k = Len(t) /\ Len(u) = n + k
  BY <1>1 DEF Joins
<1>3. (\A i \in 1 .. n : u[i] = s[i]) /\ \A i \in 1 .. k : u[n + i] = t[i]
  BY <1>1, <1>2 DEF Joins
<1>4. CASE Has(s, kind)
  <2>1. PICK i \in 1 .. n : s[i][1] = kind
    BY <1>2, <1>4 DEF Has
  <2>2. i \in 1 .. n + k
    OBVIOUS
  <2> QED
    BY <1>1, <1>2, <1>3, <2>1, <2>2 DEF Has
<1>5. CASE Has(t, kind)
  <2>1. PICK i \in 1 .. k : t[i][1] = kind
    BY <1>2, <1>5 DEF Has
  <2>2. n + i \in 1 .. n + k
    OBVIOUS
  <2> QED
    BY <1>1, <1>2, <1>3, <2>1, <2>2 DEF Has
<1> QED
  BY <1>4, <1>5

\* A list without its first operation.
LEMMA TailSplit ==
  ASSUME NEW s, IsList(s), s # <<>>, NEW m \in Nat, Split(s, m)
  PROVE  /\ m = 0 => Split(Tail(s), 0) /\ ~Look(Head(s)) /\ Head(s)[1] # "status"
         /\ m # 0 => Split(Tail(s), m - 1) /\ ~Tune(Head(s)) /\ (m = 1 => Look(Head(s)))
<1>1. PICK n \in Nat \ {0} : n = Len(s) /\ n - 1 = Len(Tail(s))
  BY TailIs
<1>2. PICK t : t = Tail(s) /\ Len(t) = n - 1 /\ Head(s) = s[1] /\ \A i \in 1 .. n - 1 : t[i] = s[i + 1]
  BY <1>1, TailIs
<1>3. /\ m \in 0 .. n /\ (\A i \in 1 .. m : ~Tune(s[i])) /\ (m # 0 => Look(s[m]))
      /\ \A i \in m + 1 .. n : ~Look(s[i]) /\ s[i][1] # "status"
  BY <1>1 DEF Split
<1>4. CASE m = 0
  <2>1. 0 \in 0 .. n - 1 /\ (\A i \in 1 .. 0 : ~Tune(t[i])) /\ \A i \in 0 + 1 .. n - 1 : ~Look(t[i]) /\ t[i][1] # "status"
    <3>1. \A i \in 0 + 1 .. n - 1 : i + 1 \in m + 1 .. n /\ i \in 1 .. n - 1
      BY <1>4
    <3>2. 0 \in 0 .. n - 1 /\ \A i \in 1 .. 0 : FALSE
      OBVIOUS
    <3> QED
      BY <1>2, <1>3, <3>1, <3>2
  <2>2. Split(t, 0)
    BY <1>2, <2>1 DEF Split
  <2>3. 1 \in m + 1 .. n
    BY <1>4
  <2> QED
    BY <1>2, <1>3, <1>4, <2>2, <2>3
<1>5. CASE m # 0
  <2>1. PICK k \in Nat : k = m - 1
    BY <1>5
  <2>2. k \in 0 .. n - 1 /\ (\A i \in 1 .. k : i + 1 \in 1 .. m /\ i \in 1 .. n - 1)
        /\ (\A i \in k + 1 .. n - 1 : i + 1 \in m + 1 .. n /\ i \in 1 .. n - 1) /\ (k # 0 => k \in 1 .. n - 1 /\ k + 1 = m)
    BY <1>3, <2>1
  <2>3. (\A i \in 1 .. k : ~Tune(t[i])) /\ (\A i \in k + 1 .. n - 1 : ~Look(t[i]) /\ t[i][1] # "status")
        /\ (k # 0 => Look(t[k]))
    BY <1>2, <1>3, <1>5, <2>2
  <2>4. Split(t, k)
    BY <1>2, <2>2, <2>3 DEF Split
  <2>5. 1 \in 1 .. m
    BY <1>5
  <2> QED
    BY <1>2, <1>3, <1>5, <2>1, <2>4, <2>5
<1> QED
  BY <1>4, <1>5

\* What a list has is its first operation, or in the others.
LEMMA TailHas ==
  ASSUME NEW s, IsList(s), s # <<>>, NEW kind, Has(s, kind)
  PROVE  Head(s)[1] = kind \/ Has(Tail(s), kind)
<1>1. PICK n \in Nat \ {0} : n = Len(s) /\ n - 1 = Len(Tail(s))
  BY TailIs
<1>2. PICK t : t = Tail(s) /\ Len(t) = n - 1 /\ Head(s) = s[1] /\ \A i \in 1 .. n - 1 : t[i] = s[i + 1]
  BY <1>1, TailIs
<1>3. PICK i \in 1 .. n : s[i][1] = kind
  BY <1>1 DEF Has
<1>4. CASE i # 1
  <2>1. i - 1 \in 1 .. n - 1 /\ (i - 1) + 1 = i
    BY <1>4
  <2>2. t[i - 1] = s[i]
    BY <1>2, <2>1
  <2> QED
    BY <1>2, <1>3, <2>1, <2>2 DEF Has
<1> QED
  BY <1>2, <1>3, <1>4

\* A list of one operation.
LEMMA OneToldOf ==
  ASSUME NEW op
  PROVE  /\ IsList(<<op>>) /\ Has(<<op>>, op[1])
         /\ ~Tune(op) => Untold(<<op>>)
         /\ ~Look(op) /\ op[1] # "status" => Unlooked(<<op>>)
<1>1. PICK t : t = <<op>> /\ IsList(t) /\ Len(t) = 1 /\ t[1] = op
  BY OneElement
<1>2. 1 \in 1 .. Len(t) /\ \A i \in 1 .. Len(t) : t[i] = op
  <2>1. 1 \in 1 .. 1 /\ \A i \in 1 .. 1 : i = 1
    OBVIOUS
  <2> QED
    BY <1>1, <2>1, Zenon
<1>3. Has(t, op[1]) /\ (~Tune(op) => Untold(t)) /\ (~Look(op) /\ op[1] # "status" => Unlooked(t))
  BY <1>1, <1>2 DEF Has, Untold, Unlooked
<1> QED
  BY <1>1, <1>3

\* The pieces probes are made of.
Width == <<<<"width">>>>
Larger == <<<<"large">>>>
Probing == <<<<"autoprobe">>>>

\* What each of them tells, and whether it looks.
LEMMA PiecesTold ==
  /\ Untold(Nand!Reset) /\ Untold(Nand!ReadId) /\ Untold(Nand!Status) /\ Untold(Probing)
  /\ \A table : Untold(Nand!Identify(table))
  /\ \A on : Untold(Nand!Lock(on)) /\ Unlooked(Nand!Lock(on))
  /\ Unlooked(Nand!Reset) /\ Unlooked(Width) /\ Unlooked(Larger)
  /\ Has(Width, "width") /\ Has(Probing, "autoprobe")
  /\ Untold(<<>>) /\ Unlooked(<<>>)
<1>1. Untold(Nand!Reset) /\ Unlooked(Nand!Reset)
  <2>0. PICK op : op = <<"send", "RESET", <<>>>>
    OBVIOUS
  <2>1. op[1] = "send"
    BY <2>0
  <2> QED
    BY <2>0, <2>1, OneToldOf DEF Nand!Reset, Nand!Send, Tune, Look
<1>2. Untold(Nand!ReadId)
  <2>0. PICK op : op = <<"send", "READID", <<0>>>>
    OBVIOUS
  <2>1. op[1] = "send"
    BY <2>0
  <2> QED
    BY <2>0, <2>1, OneToldOf DEF Nand!ReadId, Nand!Send, Tune
<1>3. Untold(Nand!Status)
  <2>0. PICK op : op = <<"status">>
    OBVIOUS
  <2>1. op[1] = "status"
    BY <2>0
  <2> QED
    BY <2>0, <2>1, OneToldOf DEF Nand!Status, Tune
<1>4. Untold(Probing) /\ Has(Probing, "autoprobe")
  <2>0. PICK op : op = <<"autoprobe">>
    OBVIOUS
  <2>1. op[1] = "autoprobe"
    BY <2>0
  <2> QED
    BY <2>0, <2>1, OneToldOf DEF Probing, Tune
<1>5. ASSUME NEW table PROVE Untold(Nand!Identify(table))
  <2>0. PICK op : op = <<"identify", table>>
    OBVIOUS
  <2>1. op[1] = "identify"
    BY <2>0
  <2> QED
    BY <2>0, <2>1, OneToldOf DEF Nand!Identify, Tune
<1>6. ASSUME NEW on PROVE Untold(Nand!Lock(on)) /\ Unlooked(Nand!Lock(on))
  <2>0. PICK op : op = <<"hold", on>>
    OBVIOUS
  <2>1. op[1] = "hold"
    BY <2>0
  <2> QED
    BY <2>0, <2>1, OneToldOf DEF Nand!Lock, Tune, Look
<1>7. Unlooked(Width) /\ Has(Width, "width")
  <2>0. PICK op : op = <<"width">>
    OBVIOUS
  <2>1. op[1] = "width"
    BY <2>0
  <2> QED
    BY <2>0, <2>1, OneToldOf DEF Width, Look
<1>8. Unlooked(Larger)
  <2>0. PICK op : op = <<"large">>
    OBVIOUS
  <2>1. op[1] = "large"
    BY <2>0
  <2> QED
    BY <2>0, <2>1, OneToldOf DEF Larger, Look
<1>9. Untold(<<>>) /\ Unlooked(<<>>)
  <2>0. \A i \in 1 .. 0 : FALSE
    OBVIOUS
  <2>1. IsList(<<>>) /\ Len(<<>>) = 0
    BY OneElement
  <2> QED
    BY <2>0, <2>1 DEF Untold, Unlooked
<1> QED
  BY <1>1, <1>2, <1>3, <1>4, <1>5, <1>6, <1>7, <1>8, <1>9

\* What two operations of a probe tell.
LEMMA PairTold ==
  ASSUME NEW a, NEW b, NEW s, s = <<a, b>>, ~Look(a), ~Look(b), a[1] # "status", b[1] # "status"
  PROVE  Unlooked(s) /\ Has(s, a[1]) /\ Has(s, b[1])
<1>1. s \in Seq({a, b}) /\ Len(s) = 2 /\ s[1] = a /\ s[2] = b
  OBVIOUS
<1>2. 1 \in 1 .. Len(s) /\ 2 \in 1 .. Len(s) /\ \A i \in 1 .. Len(s) : s[i] = a \/ s[i] = b
  <2>1. 1 \in 1 .. 2 /\ 2 \in 1 .. 2 /\ \A i \in 1 .. 2 : i = 1 \/ i = 2
    OBVIOUS
  <2> QED
    BY <1>1, <2>1
<1> QED
  BY <1>1, <1>2 DEF Unlooked, Has, IsList

\* The beginning of a probe, down to its last look.
LEMMA LooksTwice ==
  ASSUME NEW a, Untold(a), NEW op, Look(op)
  PROVE  Probes(a \o Nand!ReadId \o Nand!Identify("all") \o <<op>>)
<1>1. Untold(a \o Nand!ReadId \o Nand!Identify("all"))
  BY PiecesTold, UntoldJoins, Zenon
<1> QED
  BY <1>1, LastLook, Zenon

\* What asks for more is a look.
LEMMA ExtraLooks ==
  /\ \A s : Untold(s) => Probes(s \o Nand!ReadId \o Nand!Identify("all") \o Nand!Extend(1))
  /\ \A s : Untold(s) => Probes(s \o Nand!ReadId \o Nand!Identify("all") \o <<<<"small_only">>>>)
  /\ \A s, table : Untold(s) => Probes(s \o Nand!Identify(table))
<1>1. ASSUME NEW s, Untold(s) PROVE Probes(s \o Nand!ReadId \o Nand!Identify("all") \o Nand!Extend(1))
  <2>0. PICK op : op = <<"extend", 1>>
    OBVIOUS
  <2>1. op[1] = "extend"
    BY <2>0
  <2>2. Look(op) /\ Nand!Extend(1) = <<op>>
    BY <2>0, <2>1 DEF Look, Nand!Extend
  <2> QED
    BY <1>1, <2>2, LooksTwice
<1>2. ASSUME NEW s, Untold(s) PROVE Probes(s \o Nand!ReadId \o Nand!Identify("all") \o <<<<"small_only">>>>)
  <2>0. PICK op : op = <<"small_only">>
    OBVIOUS
  <2>1. op[1] = "small_only"
    BY <2>0
  <2>2. Look(op)
    BY <2>1 DEF Look
  <2> QED
    BY <1>2, <2>0, <2>2, LooksTwice
<1>3. ASSUME NEW s, NEW table, Untold(s) PROVE Probes(s \o Nand!Identify(table))
  <2>0. PICK op : op = <<"identify", table>>
    OBVIOUS
  <2>1. op[1] = "identify"
    BY <2>0
  <2>2. Look(op) /\ Nand!Identify(table) = <<op>>
    BY <2>0, <2>1 DEF Look, Nand!Identify
  <2> QED
    BY <1>3, <2>2, LastLook
<1> QED
  BY <1>1, <1>2, <1>3

\* What has to come stays in the list, whatever looks or comes behind the looks.
LEMMA BehindKept ==
  ASSUME NEW s, Probes(s), NEW kind, Has(s, kind), NEW t, Unlooked(t)
  PROVE  Probes(s \o t) /\ Has(s \o t, kind)
<1>1. IsList(s) /\ IsList(t)
  BY DEF Probes, Unlooked
<1>2. Has(s \o t, kind)
  BY <1>1, HasJoins
<1> QED
  BY <1>2, BehindLooks

\* What comes before the look at the id stays behind it.
LEMMA AskedFor ==
  ASSUME NEW a, Untold(a), NEW kind, Has(a, kind), NEW s,
         s = a \o Nand!ReadId \o Nand!Identify("all") \o Nand!Extend(1)
  PROVE  Probes(s) /\ Has(s, kind)
<1>1. Probes(s)
  BY ExtraLooks
<1>2. IsList(a) /\ IsList(Nand!ReadId) /\ IsList(Nand!Identify("all")) /\ IsList(Nand!Extend(1))
  <2>1. IsList(Nand!ReadId) /\ IsList(Nand!Identify("all"))
    BY PiecesTold, Zenon DEF Untold
  <2>2. IsList(Nand!Extend(1))
    BY OneElement DEF Nand!Extend
  <2> QED
    BY <2>1, <2>2 DEF Untold
<1>3. Has(a \o Nand!ReadId, kind) /\ IsList(a \o Nand!ReadId)
  BY <1>2, HasJoins, ListsJoin, Zenon
<1>4. Has(a \o Nand!ReadId \o Nand!Identify("all"), kind) /\ IsList(a \o Nand!ReadId \o Nand!Identify("all"))
  BY <1>2, <1>3, HasJoins, ListsJoin, Zenon
<1>5. Has(s, kind)
  BY <1>2, <1>4, HasJoins, Zenon
<1> QED
  BY <1>1, <1>5

\* Every probe looks first and tells then, and tells what its controller does not know.
LEMMA ProbeTells ==
  ASSUME board \in NandBoards
  PROVE  /\ Probes(Nand!ProbeOps)
         /\ board.port \in {"s3c2440", "pxa312", "msm6550"} => Has(Nand!ProbeOps, "width")
         /\ board.port = "pxa312" => Has(Nand!ProbeOps, "large")
         /\ board.port \in {"msm6800", "msm7200"} => Has(Nand!ProbeOps, "autoprobe")
<1>1. board.port \in Nand!Controllers
  BY ChipInTable
<1>2. CASE board.port \in {"default", "dummy"}
  <2>1. PICK s : s = Nand!Reset \o Nand!ReadId \o Nand!Identify("all") \o Nand!Extend(1)
    OBVIOUS
  <2>2. Probes(s)
    BY <2>1, PiecesTold, ExtraLooks, Zenon
  <2>3. Probes(s \o Nand!Reset)
    BY <2>2, PiecesTold, BehindLooks, Zenon
  <2>4. Nand!ProbeOps = s \o Nand!Reset
    BY <1>2, <2>1 DEF Nand!ProbeOps, Nand!port, Nand!DefaultProbe, Nand!DummyProbe, Nand!Template
  <2> QED
    BY <1>2, <2>3, <2>4
<1>3. CASE board.port \in {"s3c2410", "s3c2440"}
  <2>1. PICK x : x = (IF board.port = "s3c2410" THEN <<<<"small_only">>>> ELSE Nand!Extend(1))
    OBVIOUS
  <2>2. PICK s : s = Nand!Reset \o Nand!ReadId \o Nand!Identify("all") \o x
    OBVIOUS
  <2>3. Probes(s)
    <3>1. Probes(Nand!Reset \o Nand!ReadId \o Nand!Identify("all") \o <<<<"small_only">>>>)
          /\ Probes(Nand!Reset \o Nand!ReadId \o Nand!Identify("all") \o Nand!Extend(1))
      BY PiecesTold, ExtraLooks, Zenon
    <3> QED
      BY <2>1, <2>2, <3>1, Zenon
  <2>4. PICK y : y = (IF board.port = "s3c2410" THEN <<>> ELSE Width)
    OBVIOUS
  <2>5. Unlooked(y) /\ (board.port = "s3c2440" => Has(y, "width"))
    BY <2>4, PiecesTold
  <2>6. Probes(s \o y \o Nand!Reset)
    BY <2>3, <2>5, PiecesTold, BehindLooks, Zenon
  <2>7. board.port = "s3c2440" => Has(s \o y \o Nand!Reset, "width")
    <3>1. IsList(s) /\ IsList(y) /\ IsList(Nand!Reset)
      BY <2>3, <2>5, PiecesTold, Zenon DEF Probes, Unlooked
    <3>2. board.port = "s3c2440" => Has(s \o y, "width")
      BY <2>5, <3>1, HasJoins, Zenon
    <3>3. IsList(s \o y)
      BY <3>1, ListsJoin, Zenon
    <3> QED
      BY <3>1, <3>2, <3>3, HasJoins, Zenon
  <2>8. Nand!ProbeOps = s \o y \o Nand!Reset
    BY <1>3, <2>1, <2>2, <2>4 DEF Nand!ProbeOps, Nand!port, Nand!S3cProbe, Width
  <2> QED
    BY <1>3, <2>6, <2>7, <2>8
<1>4. CASE board.port = "bcm2133"
  <2>1. PICK x, y : x = (IF Nand!Axi THEN <<>> ELSE Nand!Lock(TRUE)) /\ y = (IF Nand!Axi THEN Larger ELSE <<>>)
    OBVIOUS
  <2>2. Untold(x) /\ Unlooked(y)
    <3>1. Untold(<<>>) /\ Untold(Nand!Lock(TRUE)) /\ Unlooked(Larger) /\ Unlooked(<<>>)
      BY PiecesTold, Zenon
    <3> QED
      BY <2>1, <3>1, Zenon
  <2>3. PICK s : s = x \o Nand!Reset \o Nand!ReadId \o Nand!Identify("all") \o Nand!Extend(1)
    OBVIOUS
  <2>4. Probes(s)
    <3>1. Untold(x \o Nand!Reset)
      BY <2>2, PiecesTold, UntoldJoins, Zenon
    <3> QED
      BY <2>3, <3>1, ExtraLooks, Zenon
  <2>5. Probes(s \o y \o Nand!Lock(FALSE) \o Nand!Reset)
    BY <2>2, <2>4, PiecesTold, BehindLooks, Zenon
  <2>6. Nand!ProbeOps = s \o y \o Nand!Lock(FALSE) \o Nand!Reset
    BY <1>4, <2>1, <2>3 DEF Nand!ProbeOps, Nand!port, Nand!BcmProbe, Larger
  <2> QED
    BY <1>4, <2>5, <2>6
<1>5. CASE board.port = "pxa312"
  <2>1. PICK y : y = <<<<"large">>, <<"width">>>>
    OBVIOUS
  <2>2. Unlooked(y) /\ Has(y, "width") /\ Has(y, "large")
    <3>1. PICK a, b : a = <<"large">> /\ b = <<"width">>
      OBVIOUS
    <3>2. a[1] = "large" /\ b[1] = "width"
      BY <3>1
    <3>3. ~Look(a) /\ ~Look(b)
      BY <3>2 DEF Look
    <3> QED
      BY <2>1, <3>1, <3>2, <3>3, PairTold
  <2>3. PICK s : s = Nand!Start \o Nand!Reset \o Nand!ReadId \o Nand!Identify("all") \o Nand!Extend(1)
    OBVIOUS
  <2>4. Untold(Nand!Start) /\ Unlooked(Nand!Start) /\ Unlooked(Nand!Stop)
    BY PiecesTold, Zenon DEF Nand!Start, Nand!Stop
  <2>5. Probes(s)
    <3>1. Untold(Nand!Start \o Nand!Reset)
      BY <2>4, PiecesTold, UntoldJoins, Zenon
    <3> QED
      BY <2>3, <3>1, ExtraLooks, Zenon
  <2>6. Probes(s \o Nand!Stop \o y)
    BY <2>2, <2>4, <2>5, BehindLooks, Zenon
  <2>7. Probes(s \o Nand!Stop \o y \o Nand!Start \o Nand!Reset \o Nand!Stop)
    BY <2>4, <2>6, PiecesTold, BehindLooks, Zenon
  <2>8. ASSUME NEW kind, Has(y, kind) PROVE Has(s \o Nand!Stop \o y \o Nand!Start \o Nand!Reset \o Nand!Stop, kind)
    <3>1. IsList(s \o Nand!Stop) /\ IsList(y) /\ IsList(Nand!Start) /\ IsList(Nand!Reset) /\ IsList(Nand!Stop)
      BY <2>2, <2>4, <2>5, PiecesTold, ListsJoin, Zenon DEF Probes, Unlooked
    <3>2. Has(s \o Nand!Stop \o y, kind) /\ IsList(s \o Nand!Stop \o y)
      BY <2>8, <3>1, HasJoins, ListsJoin, Zenon
    <3>3. Has(s \o Nand!Stop \o y \o Nand!Start, kind) /\ IsList(s \o Nand!Stop \o y \o Nand!Start)
      BY <3>1, <3>2, HasJoins, ListsJoin, Zenon
    <3>4. Has(s \o Nand!Stop \o y \o Nand!Start \o Nand!Reset, kind) /\ IsList(s \o Nand!Stop \o y \o Nand!Start \o Nand!Reset)
      BY <3>1, <3>3, HasJoins, ListsJoin, Zenon
    <3> QED
      BY <3>1, <3>4, HasJoins, Zenon
  <2>9. Nand!ProbeOps = s \o Nand!Stop \o y \o Nand!Start \o Nand!Reset \o Nand!Stop
    BY <1>5, <2>1, <2>3 DEF Nand!ProbeOps, Nand!port, Nand!PxaProbe
  <2>10. Has(Nand!ProbeOps, "width") /\ Has(Nand!ProbeOps, "large")
    BY <2>2, <2>8, <2>9, Zenon
  <2> QED
    BY <1>5, <2>7, <2>9, <2>10
<1>6. CASE board.port \in {"msm6250", "msm6550"}
  <2>1. PICK y : y = (IF board.port = "msm6550" THEN Width ELSE <<>>)
    OBVIOUS
  <2>2. Unlooked(y) /\ (board.port = "msm6550" => Has(y, "width"))
    BY <2>1, PiecesTold
  <2>3. PICK s : s = Nand!Reset \o Nand!ReadId \o Nand!Identify("small")
    OBVIOUS
  <2>4. Probes(s)
    <3>1. Untold(Nand!Reset \o Nand!ReadId)
      BY PiecesTold, UntoldJoins, Zenon
    <3> QED
      BY <2>3, <3>1, ExtraLooks, Zenon
  <2>5. Probes(s \o y \o Nand!Reset)
    BY <2>2, <2>4, PiecesTold, BehindLooks, Zenon
  <2>6. board.port = "msm6550" => Has(s \o y \o Nand!Reset, "width")
    <3>1. IsList(s) /\ IsList(y) /\ IsList(Nand!Reset)
      BY <2>2, <2>4, PiecesTold, Zenon DEF Probes, Unlooked
    <3>2. board.port = "msm6550" => Has(s \o y, "width")
      BY <2>2, <3>1, HasJoins, Zenon
    <3>3. IsList(s \o y)
      BY <3>1, ListsJoin, Zenon
    <3> QED
      BY <3>1, <3>2, <3>3, HasJoins, Zenon
  <2>7. Nand!ProbeOps = s \o y \o Nand!Reset
    BY <1>6, <2>1, <2>3 DEF Nand!ProbeOps, Nand!port, Nand!Msm6250Probe, Width
  <2> QED
    BY <1>6, <2>5, <2>6, <2>7
<1>7. CASE board.port = "msm6800"
  <2>1. PICK a : a = Nand!Reset \o Probing
    OBVIOUS
  <2>2. Untold(a) /\ Has(a, "autoprobe")
    <3>1. IsList(Nand!Reset) /\ IsList(Probing) /\ Has(Probing, "autoprobe")
      BY PiecesTold, Zenon DEF Untold
    <3>2. Has(a, "autoprobe")
      BY <2>1, <3>1, HasJoins, Zenon
    <3>3. Untold(a)
      BY <2>1, PiecesTold, UntoldJoins, Zenon
    <3> QED
      BY <3>2, <3>3
  <2>3. PICK s : s = a \o Nand!ReadId \o Nand!Identify("all") \o Nand!Extend(1)
    OBVIOUS
  <2>4. Probes(s) /\ Has(s, "autoprobe")
    BY <2>2, <2>3, AskedFor
  <2>5. Probes(s \o Nand!Reset) /\ Has(s \o Nand!Reset, "autoprobe")
    BY <2>4, PiecesTold, BehindKept, Zenon
  <2>6. Nand!ProbeOps = s \o Nand!Reset
    BY <1>7, <2>1, <2>3 DEF Nand!ProbeOps, Nand!port, Nand!Msm6800Probe, Probing
  <2> QED
    BY <1>7, <2>5, <2>6
<1>8. CASE board.port = "msm7200"
  <2>1. PICK b : b = Nand!Reset \o Probing
    OBVIOUS
  <2>2. PICK a : a = b \o Nand!Status
    OBVIOUS
  <2>3. Untold(a) /\ Has(a, "autoprobe")
    <3>1. IsList(Nand!Reset) /\ IsList(Probing) /\ Has(Probing, "autoprobe") /\ IsList(Nand!Status)
      BY PiecesTold, Zenon DEF Untold
    <3>2. Has(b, "autoprobe") /\ IsList(b)
      BY <2>1, <3>1, HasJoins, ListsJoin, Zenon
    <3>3. Has(a, "autoprobe")
      BY <2>2, <3>1, <3>2, HasJoins, Zenon
    <3>4. Untold(a)
      BY <2>1, <2>2, PiecesTold, UntoldJoins, Zenon
    <3> QED
      BY <3>3, <3>4
  <2>4. PICK s : s = a \o Nand!ReadId \o Nand!Identify("all") \o Nand!Extend(1)
    OBVIOUS
  <2>5. Probes(s) /\ Has(s, "autoprobe")
    BY <2>3, <2>4, AskedFor
  <2>6. PICK y : y = <<<<"codewords">>, <<"width">>>>
    OBVIOUS
  <2>7. Unlooked(y)
    <3>1. PICK c, d : c = <<"codewords">> /\ d = <<"width">>
      OBVIOUS
    <3>2. c[1] = "codewords" /\ d[1] = "width"
      BY <3>1
    <3>3. ~Look(c) /\ ~Look(d)
      BY <3>2 DEF Look
    <3> QED
      BY <2>6, <3>1, <3>2, <3>3, PairTold
  <2>8. Probes(s \o y) /\ Has(s \o y, "autoprobe")
    BY <2>5, <2>7, BehindKept, Zenon
  <2>9. Probes(s \o y \o Nand!Reset) /\ Has(s \o y \o Nand!Reset, "autoprobe")
    BY <2>8, PiecesTold, BehindKept, Zenon
  <2>10. Nand!ProbeOps = s \o y \o Nand!Reset
    BY <1>8, <2>1, <2>2, <2>4, <2>6 DEF Nand!ProbeOps, Nand!port, Nand!Msm7200Probe, Probing
  <2> QED
    BY <1>8, <2>9, <2>10
<1>9. CASE board.port = "superand"
  <2>1. Probes(Nand!ReadId \o Nand!Identify("superand"))
    BY PiecesTold, ExtraLooks, Zenon
  <2>2. Nand!ProbeOps = Nand!ReadId \o Nand!Identify("superand")
    BY <1>9 DEF Nand!ProbeOps, Nand!port, Nand!SuperAndProbe
  <2> QED
    BY <1>9, <2>1, <2>2
<1> QED
  BY <1>1, <1>2, <1>3, <1>4, <1>5, <1>6, <1>7, <1>8, <1>9 DEF Nand!Controllers

\* What a step does to the width, the kind and the room of the registers.
BigPage(ps) == ps > 512
PerPage(ps) == 1 + (((ps \div 512) - 1) % 8)
Tuned(op, w, r) ==
  /\ IsOn(HwFields, r)
  /\ r.width = IF op[1] = "width" THEN entry.bit_width ELSE IF op[1] = "autoprobe" THEN board.chip.bits ELSE w.width
  /\ r.large = IF op[1] = "large" THEN BigPage(entry.page_size)
               ELSE IF op[1] = "autoprobe" THEN BigPage(board.chip.page_size) ELSE w.large
  /\ r.per_page = IF op[1] = "codewords" THEN PerPage(entry.page_size) ELSE w.per_page

\* One register of three is set.
LEMMA OneTuned ==
  ASSUME NEW w, IsOn(HwFields, w), NEW k \in {"width", "large", "per_page"}, NEW v, NEW r, r = [w EXCEPT ![k] = v]
  PROVE  /\ IsOn(HwFields, r) /\ r[k] = v
         /\ k # "width" => r.width = w.width
         /\ k # "large" => r.large = w.large
         /\ k # "per_page" => r.per_page = w.per_page
<1>1. IsOn(HwFields, r)
  BY ExceptIsOn
<1> QED
  BY <1>1 DEF IsOn, HwFields

\* Registers a step does not tell of the chip.
LEMMA UntunedKept ==
  ASSUME NEW op, op[1] \notin {"width", "large", "codewords", "autoprobe"}, NEW w, NEW r, Kept(w, r)
  PROVE  Tuned(op, w, r)
BY DEF Tuned, Kept

\* Only what is told changes them.
LEMMA TunedBy ==
  ASSUME Nand!Next, NandTypes, result = "none", ops # <<>>
  PROVE  Tuned(Head(ops), hw, hw')
<1>1. IsOn(HwFields, hw)
  BY DEF NandTypes
<1>2. CASE hw' = hw /\ Head(ops)[1] \notin {"width", "large", "codewords", "autoprobe"}
  <2>1. Kept(hw, hw')
    BY <1>1, <1>2 DEF Kept
  <2> QED
    BY <1>2, <2>1, UntunedKept
<1>3. CASE Nand!Configure
  <2>1. CASE Head(ops)[1] = "width"
    <3>1. hw' = [hw EXCEPT !.width = entry.bit_width]
      BY <1>3, <2>1 DEF Nand!Configure
    <3>2. /\ IsOn(HwFields, hw') /\ hw'.width = entry.bit_width /\ hw'.large = hw.large /\ hw'.per_page = hw.per_page
      BY <1>1, <3>1, OneTuned
    <3> QED
      BY <2>1, <3>2 DEF Tuned
  <2>2. CASE Head(ops)[1] = "large"
    <3>1. PICK v : v = BigPage(entry.page_size)
      OBVIOUS
    <3>2. hw' = [hw EXCEPT !.large = v]
      BY <1>3, <2>2, <3>1 DEF Nand!Configure, BigPage
    <3>3. /\ IsOn(HwFields, hw') /\ hw'.large = v /\ hw'.width = hw.width /\ hw'.per_page = hw.per_page
      BY <1>1, <3>2, OneTuned
    <3> QED
      BY <2>2, <3>1, <3>3 DEF Tuned
  <2>3. CASE Head(ops)[1] = "codewords"
    <3>1. PICK v : v = PerPage(entry.page_size)
      OBVIOUS
    <3>2. hw' = [hw EXCEPT !.per_page = v]
      BY <1>3, <2>3, <3>1 DEF Nand!Configure, PerPage
    <3>3. /\ IsOn(HwFields, hw') /\ hw'.per_page = v /\ hw'.width = hw.width /\ hw'.large = hw.large
      BY <1>1, <3>2, OneTuned
    <3> QED
      BY <2>3, <3>1, <3>3 DEF Tuned
  <2>4. CASE Head(ops)[1] = "autoprobe"
    <3>1. PICK v, c : v = BigPage(board.chip.page_size) /\ c = board.chip.bits
      OBVIOUS
    <3>2. hw' = [hw EXCEPT !.large = v, !.width = c]
      BY <1>3, <2>4, <3>1 DEF Nand!Configure, Nand!chip, BigPage
    <3>3. PICK a : a = [hw EXCEPT !.large = v]
      OBVIOUS
    <3>4. hw' = [a EXCEPT !.width = c]
      BY <3>2, <3>3
    <3>5. /\ IsOn(HwFields, a) /\ a.large = v /\ a.per_page = hw.per_page
      BY <1>1, <3>3, OneTuned
    <3>6. /\ IsOn(HwFields, hw') /\ hw'.width = c /\ hw'.large = a.large /\ hw'.per_page = a.per_page
      BY <3>4, <3>5, OneTuned
    <3> QED
      BY <2>4, <3>1, <3>5, <3>6 DEF Tuned
  <2> QED
    BY <1>3, <2>1, <2>2, <2>3, <2>4 DEF Nand!Configure
<1>4. CASE Nand!Hold
  <2>1. hw' = [hw EXCEPT !.held = Head(ops)[2]] /\ Head(ops)[1] = "hold"
    BY <1>4 DEF Nand!Hold, Nand!Held
  <2>2. IsOn(HwFields, hw')
    BY <1>1, <2>1, ExceptIsOn
  <2>3. hw'.width = hw.width /\ hw'.large = hw.large /\ hw'.per_page = hw.per_page
    BY <1>1, <2>1 DEF IsOn, HwFields
  <2>4. Kept(hw, hw')
    BY <2>2, <2>3 DEF Kept
  <2> QED
    BY <2>1, <2>4, UntunedKept
<1>5. CASE Nand!SetAddress
  <2>1. PICK k, v : k = Head(ops)[2] /\ hw' = [hw EXCEPT ![k] = v, !.next = 0] /\ Head(ops)[1] = "set"
    <3>1. PICK v : hw' = [hw EXCEPT ![Head(ops)[1 + 1]] = v, !.next = 0]
      BY <1>5, Zenon DEF Nand!SetAddress
    <3>2. Head(ops)[1] = "set"
      BY <1>5 DEF Nand!SetAddress
    <3>3. Head(ops)[1 + 1] = Head(ops)[2]
      OBVIOUS
    <3> QED
      BY <3>1, <3>2, <3>3, Zenon
  <2>2. k \in Registers
    <3>1. AllFine(call.kind, ops)
      BY DEF NandTypes
    <3>2. Fine(call.kind, Head(ops))
      BY <3>1, TailFine
    <3> QED
      BY <2>1, <3>2 DEF Fine, Registers
  <2>3. SetsOne(hw, SetTo(hw, k, v), k, v)
    BY <1>1, <2>2, RegisterSet
  <2>4. Kept(hw, hw')
    <3>1. hw' = SetTo(hw, k, v)
      BY <2>1 DEF SetTo
    <3> QED
      BY <2>3, <3>1 DEF SetsOne
  <2> QED
    BY <2>1, <2>4, UntunedKept
<1>6. CASE Nand!Execute
  <2>1. PICK y, z : hw' = [hw EXCEPT !.buffer = y, !.next = z] /\ Head(ops)[1] = "exec"
    BY <1>6 DEF Nand!Execute
  <2>2. PICK a : a = [hw EXCEPT !.buffer = y]
    OBVIOUS
  <2>3. hw' = [a EXCEPT !.next = z]
    BY <2>1, <2>2
  <2>4. IsOn(HwFields, a) /\ IsOn(HwFields, hw')
    BY <1>1, <2>2, <2>3, ExceptIsOn
  <2>5. hw'.width = hw.width /\ hw'.large = hw.large /\ hw'.per_page = hw.per_page
    BY <1>1, <2>1 DEF IsOn, HwFields
  <2>6. Kept(hw, hw')
    BY <2>4, <2>5 DEF Kept
  <2> QED
    BY <2>1, <2>6, UntunedKept
<1> QED
  <2>1. \/ hw' = hw /\ Head(ops)[1] \notin {"width", "large", "codewords", "autoprobe"}
        \/ Nand!Configure \/ Nand!Hold \/ Nand!SetAddress \/ Nand!Execute
    BY DEF Nand!Next, Nand!Read, Nand!Return, Nand!NAND_Ctrl_Command_Write, Nand!NAND_Ctrl_Wait_Ready,
           Nand!NAND_Ctrl_Check_Status, Nand!NAND_Ctrl_Data_Read, Nand!Lookup, Nand!ReadExtraId, Nand!RefuseLarge,
           Nand!CopyCodeword, Nand!Fail
  <2> QED
    BY <1>2, <1>3, <1>4, <1>5, <1>6, <2>1

\* The registers suit the chip, or what makes them suit it has yet to come.
Fitting(w, s) ==
  /\ w.width = board.chip.bits \/ Has(s, "width") \/ Has(s, "autoprobe")
  /\ Msm \/ AxiBus \/ OneFlag => Typed(w) \/ Has(s, "autoprobe") \/ Has(s, "large")
  /\ Msm => Roomy(w, Words)

\* A probe that found its chip has told its controller; one that did not has named none.
TuneInv ==
  /\ entry.type # "NONE" => board.chip.dev \in DOMAIN ChipTable
  /\ call.kind = "probe" /\ result = "none" => Probes(ops) /\ (Listed => Fitting(hw, ops))
  /\ call.kind = "probe" /\ result \notin {"none", "OK"} => entry.type = "NONE"
  /\ call.kind = "read" \/ result = "OK" => (Listed => Fitted(hw))

\* Chips behind controllers that fetch by codewords have pages of eight codewords at most.
LEMMA FewWords ==
  ASSUME Listed, Msm
  PROVE  board.chip.page_size \in {512, 1024, 2048, 4096}
<1>1. board.chip.page_size \in {512, 1024, 2048, 4096, 8192}
  BY ChipSane
<1>2. Nand!Readable(board) /\ board \in NandBoards
  BY ChipReadable DEF Listed
<1>3. CASE board.port = "msm7200"
  <2>1. board.chip.page_size <= 4096
    BY <1>2, <1>3 DEF Nand!Readable
  <2> QED
    BY <1>1, <2>1
<1>4. CASE board.port = "msm6800"
  <2>1. board.chip.page_size \in {512, 2048}
    BY <1>2, <1>4 DEF Nand!Readable
  <2> QED
    BY <1>1, <2>1
<1>5. CASE board.port \in {"msm6250", "msm6550"}
  <2>1. ~WithExtra
    BY <1>5 DEF WithExtra, TableName, Super
  <2>2. Nand!Matches(board.chip, ChipTable[board.chip.dev]) /\ ChipTable[board.chip.dev].page_size # 0
    BY <2>1, ChipInTable DEF Listed
  <2>3. board.chip.page_size <= 512
    BY <2>2 DEF Nand!Matches
  <2> QED
    BY <1>1, <2>3
<1> QED
  BY <1>3, <1>4, <1>5 DEF Msm

\* Those with the table of small pages have small pages.
LEMMA SmallTable ==
  ASSUME Listed, board.port \in {"msm6250", "msm6550"}
  PROVE  Narrow
<1>1. ~WithExtra
  BY DEF WithExtra, TableName, Super
<1>2. Nand!Matches(board.chip, ChipTable[board.chip.dev]) /\ ChipTable[board.chip.dev].page_size # 0
  BY <1>1, ChipInTable DEF Listed
<1>3. board.chip.page_size <= 512
  BY <1>2 DEF Nand!Matches
<1> QED
  BY <1>3, ChipSane DEF Narrow

\* What a controller is told of a page is so.
LEMMA ToldRight ==
  ASSUME Listed
  PROVE  /\ BigPage(board.chip.page_size) = ~Narrow
         /\ Msm => PerPage(board.chip.page_size) = Words /\ Words \in 1 .. 8
<1>1. BigPage(board.chip.page_size) = ~Narrow
  BY ChipSane DEF BigPage, Narrow
<1>2. ASSUME Msm PROVE PerPage(board.chip.page_size) = Words /\ Words \in 1 .. 8
  <2>1. PICK ps : ps = board.chip.page_size
    OBVIOUS
  <2>2. ps \in {512, 1024, 2048, 4096}
    BY <1>2, <2>1, FewWords
  <2>3. 1 + (((ps \div 512) - 1) % 8) = ps \div 512 /\ ps \div 512 \in 1 .. 8
    <3>1. 512 \div 512 = 1 /\ 1024 \div 512 = 2 /\ 2048 \div 512 = 4 /\ 4096 \div 512 = 8
      OBVIOUS
    <3>2. (1 - 1) % 8 = 0 /\ (2 - 1) % 8 = 1 /\ (4 - 1) % 8 = 3 /\ (8 - 1) % 8 = 7
      OBVIOUS
    <3> QED
      BY <2>2, <3>1, <3>2
  <2> QED
    BY <2>1, <2>3 DEF PerPage, Words
<1> QED
  BY <1>1, <1>2

\* A controller that is told by one bit has a chip this bit can tell of.
LEMMA TypedAnnounced ==
  ASSUME Listed, NEW w, OneFlag => Typed(w)
  PROVE  AnnouncedBy(board, w)
<1> SUFFICES ASSUME OneFlag PROVE board.chip.page_size = Nand!OneBit(w.large)
  BY DEF AnnouncedBy, OneFlag
<1>1. board.chip.page_size \in {512, 2048}
  BY ChipReadable DEF Listed, Nand!Readable, OneFlag
<1>2. CASE Narrow
  <2>1. w.large = FALSE /\ board.chip.page_size = 512
    BY <1>2 DEF Typed, Narrow
  <2> QED
    BY <2>1 DEF Nand!OneBit
<1>3. CASE ~Narrow
  <2>1. w.large = TRUE
    BY <1>3 DEF Typed
  <2>2. board.chip.page_size = 2048
    BY <1>1, <1>3 DEF Narrow
  <2> QED
    BY <2>1, <2>2 DEF Nand!OneBit
<1> QED
  BY <1>2, <1>3

\* A step that tells nothing, or tells of the chip that is there, leaves what was right as it was and
\* makes right what it is for.
LEMMA FittedKept ==
  ASSUME Listed, NEW op, ~Tune(op) \/ entry = OfChip, NEW w, NEW r, Tuned(op, w, r)
  PROVE  /\ IsOn(HwFields, r)
         /\ w.width = board.chip.bits \/ op[1] \in {"width", "autoprobe"} => r.width = board.chip.bits
         /\ Typed(w) \/ op[1] \in {"autoprobe", "large"} => Typed(r)
         /\ Msm /\ Roomy(w, Words) => Roomy(r, Words)
<1>1. entry = OfChip => entry.bit_width = board.chip.bits /\ entry.page_size = board.chip.page_size
  BY Widths
<1>2. w.width = board.chip.bits \/ op[1] \in {"width", "autoprobe"} => r.width = board.chip.bits
  BY <1>1 DEF Tuned, Tune
<1>3. Typed(w) \/ op[1] \in {"autoprobe", "large"} => Typed(r)
  BY <1>1, ToldRight DEF Tuned, Tune, Typed
<1>4. Msm /\ Roomy(w, Words) => Roomy(r, Words)
  <2>1. CASE op[1] = "codewords"
    BY <1>1, <2>1, ToldRight DEF Tuned, Tune, Roomy
  <2>2. CASE op[1] # "codewords"
    BY <2>2 DEF Tuned, Roomy
  <2> QED
    BY <2>1, <2>2
<1> QED
  BY <1>2, <1>3, <1>4 DEF Tuned

\* Behind the last look the chip is known, and only before it the status may end a probe.
LEMMA LooksLeft ==
  ASSUME ProbeInv, call.kind = "probe", result = "none", IsList(ops), ops # <<>>, NEW m \in Nat, Split(ops, m)
  PROVE  /\ m = 0 => entry = OfChip
         /\ Head(ops)[1] = "status" => entry = Nand!NoMem
<1>1. Unidentified \/ HalfIdentified \/ AllIdentified
  BY DEF ProbeInv
<1>2. Len(ops) \in Nat \ {0} /\ Head(ops) = ops[1]
  BY TailIs
<1>3. 1 \in 1 .. Len(ops)
  BY <1>2
<1>4. Look(ExtraOp) /\ Look(IdentifyOp) /\ ExtraOp[1] # "status"
  BY DEF Look, ExtraOp, IdentifyOp
<1>5. ASSUME m = 0 PROVE AllIdentified
  <2>1. \A i \in 1 .. Len(ops) : ~Look(ops[i])
    <3>1. \A i \in 0 + 1 .. Len(ops) : ~Look(ops[i])
      BY <1>5 DEF Split
    <3> QED
      BY <3>1
  <2>2. ~Unidentified
    <3> SUFFICES ASSUME NEW p \in Nat, IdentifyAt(ops, p) PROVE FALSE
      BY DEF Unidentified
    <3>1. p \in 1 .. Len(ops) /\ ops[p] = IdentifyOp
      BY DEF IdentifyAt
    <3> QED
      BY <1>4, <2>1, <3>1
  <2>3. ~HalfIdentified
    <3>1. ~Look(Head(ops))
      BY <1>2, <1>3, <2>1
    <3> QED
      BY <1>4, <3>1 DEF HalfIdentified
  <2> QED
    BY <1>1, <2>2, <2>3
<1>6. ASSUME Head(ops)[1] = "status" PROVE Unidentified
  <2>1. m # 0
    BY <1>6, TailSplit
  <2>2. Look(ops[m]) /\ m \in 1 .. Len(ops)
    BY <2>1 DEF Split
  <2>3. ~AllIdentified
    <3> SUFFICES ASSUME AllFine("read", ops) PROVE FALSE
      BY DEF AllIdentified
    <3>1. Fine("read", ops[m])
      BY <2>2 DEF AllFine
    <3> QED
      BY <2>2, <3>1 DEF Fine, Look
  <2>4. ~HalfIdentified
    BY <1>4, <1>6 DEF HalfIdentified
  <2> QED
    BY <1>1, <2>3, <2>4
<1> QED
  BY <1>5, <1>6 DEF AllIdentified, Unidentified

\* Who looks does so before the chip is known.
LEMMA WhoLooks ==
  ASSUME ProbeInv, call.kind = "probe", result = "none", ops # <<>>, Look(Head(ops))
  PROVE  \/ HalfIdentified
         \/ entry = Nand!NoMem /\ IdentifyAt(ops, 1) /\ bus.cmd = "READID" /\ bus.taken = 0
<1>1. ~AllIdentified
  <2> SUFFICES ASSUME AllFine("read", ops) PROVE FALSE
    BY DEF AllIdentified
  <2>1. Fine("read", Head(ops))
    BY TailFine
  <2> QED
    BY <2>1 DEF Fine, Look
<1>2. CASE Unidentified
  <2>1. PICK p \in Nat : IdentifyAt(ops, p) /\ (p = 1 => bus.cmd = "READID" /\ bus.taken = 0)
    BY <1>2 DEF Unidentified
  <2>2. p = 1
    <3> SUFFICES ASSUME p # 1 PROVE FALSE
      OBVIOUS
    <3>1. Fine("read", Head(ops))
      BY <2>1, TailIdentifies
    <3> QED
      BY <3>1 DEF Fine, Look
  <2> QED
    BY <1>2, <2>1, <2>2 DEF Unidentified
<1> QED
  BY <1>1, <1>2 DEF ProbeInv

\* A look that ends the probe leaves no chip named, and one that does not found it in its table.
LEMMA LookSays ==
  ASSUME NandTypes, ProbeInv, Nand!Next, call.kind = "probe", result = "none", ops # <<>>, Look(Head(ops))
  PROVE  /\ result' # "none" => entry'.type = "NONE"
         /\ result' = "none" => board.chip.dev \in DOMAIN ChipTable
<1>1. CASE HalfIdentified
  <2>1. \/ result' = "none" /\ AllIdentified'
        \/ result' # "none" /\ result' # "OK" /\ entry'.type = "NONE"
    BY <1>1, ExtraRead
  <2> QED
    BY <1>1, <2>1 DEF HalfIdentified
<1>2. CASE entry = Nand!NoMem /\ IdentifyAt(ops, 1) /\ bus.cmd = "READID" /\ bus.taken = 0
  <2>1. \/ result' = "none" /\ (HalfIdentified \/ AllIdentified)'
        \/ result' # "none" /\ result' # "OK" /\ entry'.type = "NONE"
    BY <1>2, LookedUp
  <2>2. ops # <<>> /\ Head(ops) = IdentifyOp
    BY <1>2, BehindLookup
  <2>3. Head(ops)[1] = "identify" /\ Head(ops)[2] = TableName
    BY <2>2 DEF IdentifyOp
  <2>4. Nand!Lookup
    BY <2>2, <2>3, NandByOne
  <2>5. Nand!IdByte(bus.taken + 2) = board.chip.dev
    <3>1. bus.taken + 2 = 2
      BY <1>2
    <3> QED
      BY <3>1 DEF Nand!IdByte, Nand!chip
  <2>6. board.chip.dev \notin DOMAIN ChipTable => result' = "PROBE_ERROR"
    BY <2>3, <2>4, <2>5 DEF Nand!Lookup, Nand!Fail, ChipTable
  <2> QED
    BY <2>1, <2>6
<1> QED
  BY <1>1, <1>2, WhoLooks

\* Only the status and a look end a call before its end.
LEMMA WhoFails ==
  ASSUME Nand!Next, result = "none", result' \in {"PROBE_ERROR", "READ_ERROR"}
  PROVE  Head(ops)[1] = "status" \/ Look(Head(ops))
BY DEF Nand!Next, Nand!Read, Nand!Return, Nand!NAND_Ctrl_Command_Write, Nand!NAND_Ctrl_Wait_Ready,
       Nand!NAND_Ctrl_Check_Status, Nand!NAND_Ctrl_Data_Read, Nand!Lookup, Nand!ReadExtraId, Nand!RefuseLarge,
       Nand!Configure, Nand!Hold, Nand!SetAddress, Nand!Execute, Nand!CopyCodeword, Nand!Continue, Look

\* Registers and lists after a step are judged as before it.
LEMMA FitJudged ==
  ASSUME board' = board
  PROVE  /\ Listed' = Listed /\ ChipTable' = ChipTable
         /\ Fitted(hw') => Fitted(hw)'
         /\ Fitting(hw', ops') => Fitting(hw, ops)'
         /\ Probes(ops') => Probes(ops)'
<1>1. ChipTable' = ChipTable
  BY BoardStays
<1>2. Listed' = Listed
  BY <1>1 DEF Listed
<1>3. Msm' = Msm /\ AxiBus' = AxiBus /\ OneFlag' = OneFlag /\ Narrow' = Narrow /\ Words' = Words
  BY DEF Msm, AxiBus, OneFlag, Narrow, Words, Nand!Axi
<1>4. Fitted(hw') => Fitted(hw)'
  BY <1>3 DEF Fitted, Wide, AnnouncedBy, Typed, Roomy, IsOn
<1>5. Fitting(hw', ops') => Fitting(hw, ops)'
  BY <1>3 DEF Fitting, Typed, Roomy, Has
<1>6. Probes(ops') => Probes(ops)'
  BY DEF Probes, Split, Tune, Look, IsList
<1> QED
  BY <1>1, <1>2, <1>4, <1>5, <1>6

\* A probe at its end has nothing left to tell.
LEMMA FittingEnds ==
  ASSUME Listed, NEW w, IsOn(HwFields, w), Fitting(w, <<>>)
  PROVE  Fitted(w)
<1>1. \A kind : ~Has(<<>>, kind)
  <2>1. Len(<<>>) = 0
    BY OneElement
  <2>2. \A i \in 1 .. 0 : FALSE
    OBVIOUS
  <2> QED
    BY <2>1, <2>2 DEF Has
<1>2. w.width = board.chip.bits /\ (Msm \/ AxiBus \/ OneFlag => Typed(w)) /\ (Msm => Roomy(w, Words))
  BY <1>1 DEF Fitting
<1>3. AnnouncedBy(board, w)
  BY <1>2, TypedAnnounced
<1> QED
  BY <1>2, <1>3 DEF Fitted, Wide

\* A probe goes on telling.
LEMMA FittingGoes ==
  ASSUME Listed, IsList(ops), ops # <<>>, ~Tune(Head(ops)) \/ entry = OfChip, NEW w, NEW r,
         Tuned(Head(ops), w, r), Fitting(w, ops)
  PROVE  Fitting(r, Tail(ops))
<1>1. /\ w.width = board.chip.bits \/ Head(ops)[1] \in {"width", "autoprobe"} => r.width = board.chip.bits
      /\ Typed(w) \/ Head(ops)[1] \in {"autoprobe", "large"} => Typed(r)
      /\ Msm /\ Roomy(w, Words) => Roomy(r, Words)
  BY FittedKept
<1>2. \A kind : Has(ops, kind) => Head(ops)[1] = kind \/ Has(Tail(ops), kind)
  BY TailHas
<1> QED
  BY <1>1, <1>2 DEF Fitting

\* A call that goes on keeps what suits the chip.
LEMMA FittedGoes ==
  ASSUME Listed, NEW op, entry = OfChip, NEW w, NEW r, Tuned(op, w, r), Fitted(w)
  PROVE  Fitted(r)
<1>1. /\ IsOn(HwFields, r)
      /\ w.width = board.chip.bits => r.width = board.chip.bits
      /\ Typed(w) => Typed(r)
      /\ Msm /\ Roomy(w, Words) => Roomy(r, Words)
  BY FittedKept
<1>2. Msm \/ AxiBus \/ OneFlag => Typed(r)
  BY <1>1 DEF Fitted
<1>3. AnnouncedBy(board, r)
  BY <1>2, TypedAnnounced
<1> QED
  BY <1>1, <1>2, <1>3 DEF Fitted, Wide

\* Every step keeps what a controller was told.
LEMMA TuneInvKept ==
  ASSUME NandInv, TuneInv, Nand!Next
  PROVE  TuneInv'
<1>1. NandTypes /\ ProbeInv
  BY DEF NandInv
<1>2. board' = board
  BY NandTypesKept
<1>3. CASE \E page \in NandAsked : Nand!Read(page)
  <2>1. PICK page \in NandAsked : Nand!Read(page)
    BY <1>3
  <2>2. entry' = entry /\ hw' = hw /\ result' = "none" /\ call'.kind = "read" /\ result # "none"
    BY <2>1, ReadBegins
  <2>3. entry.type # "NONE"
    BY <2>1 DEF Nand!Read
  <2>4. board.chip.dev \in DOMAIN ChipTable /\ (Listed => Fitted(hw))
    BY <1>1, <2>2, <2>3 DEF TuneInv, NandTypes
  <2>5. (Listed => Fitted(hw))'
    BY <1>2, <2>2, <2>4, FitJudged
  <2> QED
    BY <1>2, <2>2, <2>4, <2>5, FitJudged DEF TuneInv
<1>4. CASE \A page \in NandAsked : ~Nand!Read(page)
  <2>1. result = "none"
    BY <1>1, <1>4 DEF NandTypes, Nand!Next, Nand!Return, Nand!NAND_Ctrl_Command_Write, Nand!NAND_Ctrl_Wait_Ready,
              Nand!NAND_Ctrl_Check_Status,
              Nand!NAND_Ctrl_Data_Read, Nand!Lookup, Nand!ReadExtraId, Nand!RefuseLarge, Nand!Configure, Nand!Hold,
              Nand!SetAddress, Nand!Execute, Nand!CopyCodeword
  <2>2. call' = call /\ call.kind \in {"probe", "read"} /\ IsOn(HwFields, hw) /\ IsList(ops)
    BY <1>1, <2>1, NandMoves DEF NandTypes, AllFine
  <2>3. CASE call.kind = "read"
    <3>1. entry = OfChip /\ AllFine("read", ops)
      BY <1>1, <2>3 DEF ProbeInv, AllIdentified
    <3>2. entry' = entry
      <4>1. ops # <<>> => Head(ops)[1] \notin {"identify", "extend", "small_only"}
        BY <3>1, TailFine DEF Fine
      <4> QED
        BY <2>1, <4>1, NandMoves
    <3>3. Listed => Fitted(hw')
      <4>1. CASE ops = <<>>
        BY <2>1, <2>3, <4>1, NandMoves DEF TuneInv
      <4>2. CASE ops # <<>>
        <5>1. Tuned(Head(ops), hw, hw')
          BY <1>1, <2>1, <4>2, TunedBy
        <5> QED
          BY <2>3, <3>1, <5>1, FittedGoes DEF TuneInv
      <4> QED
        BY <4>1, <4>2
    <3> QED
      BY <1>2, <2>2, <2>3, <3>2, <3>3, FitJudged DEF TuneInv
  <2>4. CASE call.kind = "probe" /\ ops = <<>>
    <3>1. entry' = entry /\ hw' = hw /\ result' = "OK"
      BY <2>1, <2>4, NandMoves
    <3>2. Listed => Fitted(hw')
      BY <2>1, <2>2, <2>4, <3>1, FittingEnds DEF TuneInv
    <3> QED
      BY <1>2, <2>2, <2>4, <3>1, <3>2, FitJudged DEF TuneInv
  <2>5. CASE call.kind = "probe" /\ ops # <<>>
    <3>1. Probes(ops) /\ (Listed => Fitting(hw, ops))
      BY <2>1, <2>5 DEF TuneInv
    <3>2. PICK m \in Nat : Split(ops, m)
      BY <3>1 DEF Probes
    <3>3. /\ m = 0 => entry = OfChip /\ ~Look(Head(ops))
          /\ m # 0 => ~Tune(Head(ops))
          /\ Head(ops)[1] = "status" => entry = Nand!NoMem
      BY <1>1, <2>1, <2>2, <2>5, <3>2, LooksLeft, TailSplit
    <3>4. ~Look(Head(ops)) => entry' = entry
      BY <2>1, <2>5, NandMoves DEF Look
    <3>5. entry'.type # "NONE" => board.chip.dev \in DOMAIN ChipTable
      <4>1. CASE ~Look(Head(ops))
        BY <3>4, <4>1 DEF TuneInv
      <4>2. CASE Look(Head(ops))
        BY <1>1, <2>1, <2>5, <4>2, LookSays
      <4> QED
        BY <4>1, <4>2
    <3>6. CASE ops' = Tail(ops) /\ result' = result
      <4>1. Probes(ops')
        <5>1. IsList(Tail(ops))
          BY <2>2, <2>5, TailIs
        <5>2. m = 0 => Split(Tail(ops), 0)
          BY <2>2, <2>5, <3>2, TailSplit
        <5>3. m # 0 => Split(Tail(ops), m - 1)
          BY <2>2, <2>5, <3>2, TailSplit
        <5>4. m # 0 => m - 1 \in Nat
          OBVIOUS
        <5>5. 0 \in Nat
          OBVIOUS
        <5> QED
          BY <3>6, <5>1, <5>2, <5>3, <5>4, <5>5, Zenon DEF Probes
      <4>2. Listed => Fitting(hw', ops')
        <5>1. Tuned(Head(ops), hw, hw')
          BY <1>1, <2>1, <2>5, TunedBy
        <5>2. ~Tune(Head(ops)) \/ entry = OfChip
          BY <3>3
        <5> QED
          BY <2>2, <2>5, <3>1, <3>6, <5>1, <5>2, FittingGoes
      <4> QED
        BY <1>2, <2>1, <2>2, <2>5, <3>5, <3>6, <4>1, <4>2, FitJudged DEF TuneInv
    <3>7. CASE ops' = <<>> /\ result' \in {"PROBE_ERROR", "READ_ERROR"}
      <4>1. entry'.type = "NONE"
        <5>1. CASE Look(Head(ops))
          BY <1>1, <2>1, <2>5, <3>7, <5>1, LookSays
        <5>2. CASE ~Look(Head(ops))
          <6>1. Head(ops)[1] = "status"
            BY <2>1, <3>7, <5>2, WhoFails
          <6> QED
            BY <3>3, <3>4, <5>2, <6>1 DEF Nand!NoMem
        <5> QED
          BY <5>1, <5>2
      <4> QED
        BY <2>2, <2>5, <3>7, <4>1 DEF TuneInv
    <3> QED
      BY <2>1, <2>5, <3>6, <3>7, NandMoves
  <2> QED
    BY <2>2, <2>3, <2>4, <2>5
<1> QED
  BY <1>3, <1>4

\* At the start the width is the board's, or the probe will tell it.
LEMMA TuneInvStarts ==
  ASSUME Nand!Init
  PROVE  TuneInv
<1>1. /\ board \in NandBoards /\ entry.type = "NONE" /\ call.kind = "probe" /\ ops = Nand!ProbeOps /\ result = "none"
      /\ hw.width = Nand!InitialWidth /\ hw.large = FALSE /\ hw.per_page = 8
  BY DEF Nand!Init, Nand!NoMem
<1>2. Probes(ops)
  BY <1>1, ProbeTells
<1>3. ASSUME Listed PROVE Fitting(hw, ops)
  <2>1. board.port \in Nand!Controllers /\ board.chip.bits \in {8, 16} /\ Nand!Readable(board)
    BY <1>1, <1>3, ChipInTable, ChipSane, ChipReadable
  <2>2. hw.width = board.chip.bits \/ Has(ops, "width") \/ Has(ops, "autoprobe")
    <3>1. CASE board.port \in {"default", "dummy", "superand"}
      BY <1>1, <3>1 DEF Nand!InitialWidth, Nand!port, Nand!chip
    <3>2. CASE board.port = "bcm2133"
      <4>1. board.chip.bits = 8 => board.flags \in {\h90, \hb0}
        BY <2>1, <3>2 DEF Nand!Readable
      <4>2. hw.width = IF Nand!Is16Bit THEN 16 ELSE 8
        BY <1>1, <3>2 DEF Nand!InitialWidth, Nand!port
      <4> QED
        BY <2>1, <4>1, <4>2 DEF Nand!Is16Bit, Nand!chip
    <3>3. CASE board.port \in {"msm6250", "s3c2410"}
      <4>1. board.chip.bits = 8
        BY <2>1, <3>3 DEF Nand!Readable
      <4> QED
        BY <1>1, <3>3, <4>1 DEF Nand!InitialWidth, Nand!port
    <3>4. CASE board.port \in {"s3c2440", "pxa312", "msm6550", "msm6800", "msm7200"}
      BY <1>1, <3>4, ProbeTells
    <3> QED
      BY <2>1, <3>1, <3>2, <3>3, <3>4 DEF Nand!Controllers
  <2>3. ASSUME Msm \/ AxiBus \/ OneFlag PROVE Typed(hw) \/ Has(ops, "autoprobe") \/ Has(ops, "large")
    <3>1. CASE board.port \in {"msm6800", "msm7200"}
      BY <1>1, <3>1, ProbeTells
    <3>2. CASE board.port \in {"msm6250", "msm6550"}
      BY <1>1, <1>3, <3>2, SmallTable DEF Typed
    <3>3. CASE AxiBus
      <4>1. board.chip.page_size = 512
        BY <2>1, <3>3 DEF Nand!Readable, AxiBus, Nand!Axi
      <4> QED
        BY <1>1, <4>1 DEF Typed, Narrow
    <3>4. CASE board.port = "pxa312"
      BY <1>1, <3>4, ProbeTells
    <3> QED
      BY <2>3, <3>1, <3>2, <3>3, <3>4 DEF Msm, OneFlag
  <2>4. Msm => Roomy(hw, Words)
    BY <1>1, <1>3, ToldRight DEF Roomy
  <2> QED
    BY <2>2, <2>3, <2>4 DEF Fitting
<1> QED
  BY <1>1, <1>2, <1>3 DEF TuneInv

-----------------------------------------------------------------------------
(* A NAND or SuperAND read returns the page it was asked for.              *)

\* What is still to come fetches the page, or the page is there.
FetchInv ==
  /\ call.kind = "read" /\ result = "none" => Fetches(Seen(bus, hw, got), ops, call.page)
  /\ call.kind = "read" /\ result = "OK" => FetchedIn(call.page, got)

\* A state and a list after a step are judged as before it.
LEMMA FetchJudged ==
  ASSUME board' = board
  PROVE  /\ Fetches(Seen(bus', hw', got'), ops', call'.page) => Fetches(Seen(bus, hw, got), ops, call.page)'
         /\ FetchedIn(call'.page, got') => FetchedIn(call.page, got)'
<1>1. Super' = Super
  BY BoardStays
<1>2. \A page : RowSeen(page)' = RowSeen(page)
  BY DEF RowSeen
<1>3. \A page, g : FetchedIn(page, g) => FetchedIn(page, g)'
  BY <1>1 DEF FetchedIn, RowSeen
<1>4. FetchedIn(call'.page, got') => FetchedIn(call.page, got)'
  BY <1>1 DEF FetchedIn, RowSeen
<1>5. \A t : Runs(board, Seen(bus', hw', got'), ops', t) => Runs(board, Seen(bus, hw, got), ops, t)'
  OBVIOUS
<1>6. Fetches(Seen(bus', hw', got'), ops', call'.page) => Fetches(Seen(bus, hw, got), ops, call.page)'
  BY <1>1, <1>5 DEF Fetches, FetchedIn, RowSeen
<1> QED
  BY <1>4, <1>6

\* A read begins with nothing stored, and asks for a page of the chip.
LEMMA FetchBegins ==
  ASSUME NandInv, TuneInv, NEW page \in NandAsked, Nand!Read(page)
  PROVE  Fetches(Seen(bus', hw', got'), ops', call'.page) /\ call'.kind = "read" /\ result' = "none"
<1>1. /\ bus' = bus /\ hw' = hw /\ got' = <<>> /\ ops' = Nand!ReadOps(page) /\ call' = [kind |-> "read", page |-> page]
      /\ result # "none" /\ entry.type # "NONE" /\ page < Nand!Rows /\ result' = "none"
  BY DEF Nand!Read
<1>2. entry = OfChip
  BY ReadBegins
<1>3. NandTypes
  BY DEF NandInv
<1>4. Listed
  BY <1>1, <1>3 DEF TuneInv, Listed, NandTypes
<1>5. Fitted(hw)
  BY <1>1, <1>3, <1>4 DEF TuneInv, NandTypes
<1>6. page \in Nat
  BY ReadableAssumption
<1>7. Nand!Rows = RowsOf(board.chip)
  BY DEF Nand!Rows, RowsOf, Nand!chip
<1>8. PICK s : s = Seen(bus, hw, <<>>)
  OBVIOUS
<1>9. s.bus = bus /\ s.hw = hw /\ s.got = <<>>
  BY <1>8, SeenFields
<1>10. Begins(s, page)
  BY <1>1, <1>2, <1>3, <1>4, <1>5, <1>6, <1>7, <1>9 DEF Begins, Asks, NandTypes
<1>11. Fetches(s, Nand!ReadOps(page), page)
  BY <1>10, EveryRead
<1>12. call'.page = page /\ call'.kind = "read"
  BY <1>1
<1> QED
  BY <1>1, <1>8, <1>11, <1>12

\* Every step of a read brings the page nearer.
LEMMA FetchGoes ==
  ASSUME NandTypes, Nand!Next, call.kind = "read", result = "none", Fetches(Seen(bus, hw, got), ops, call.page)
  PROVE  /\ result' = "none" => Fetches(Seen(bus', hw', got'), ops', call.page)
         /\ result' = "OK" => FetchedIn(call.page, got')
<1>1. PICK u : Runs(board, Seen(bus, hw, got), ops, u) /\ FetchedIn(call.page, u.got)
  BY DEF Fetches
<1>2. IsList(ops)
  BY DEF NandTypes, AllFine
<1>3. CASE ops = <<>>
  <2>1. u = Seen(bus, hw, got)
    BY <1>1, <1>3, RunsNone
  <2>2. u.got = got
    BY <2>1, SeenFields
  <2>3. result' = "OK" /\ got' = got
    <3>1. Nand!Return
      BY <1>3 DEF Nand!Next, Nand!Read, Nand!NAND_Ctrl_Command_Write, Nand!NAND_Ctrl_Wait_Ready,
         Nand!NAND_Ctrl_Check_Status, Nand!NAND_Ctrl_Data_Read, Nand!Lookup, Nand!ReadExtraId, Nand!RefuseLarge,
         Nand!Configure, Nand!Hold, Nand!SetAddress, Nand!Execute, Nand!CopyCodeword
    <3> QED
      BY <3>1 DEF Nand!Return
  <2> QED
    BY <1>1, <2>2, <2>3
<1>4. CASE ops # <<>>
  <2>1. /\ Head(ops)[1] \in ReadKinds
        /\ IsList(Tail(ops)) /\ Runs(board, After(board, Head(ops), Seen(bus, hw, got)), Tail(ops), u)
    BY <1>1, <1>2, <1>4, RunsFirst
  <2>2. \/ ops' = Tail(ops) /\ result' = result
           /\ Seen(bus', hw', got') = After(board, Head(ops), Seen(bus, hw, got))
        \/ ops' = <<>> /\ result' \in {"PROBE_ERROR", "READ_ERROR"}
    BY <1>4, <2>1, NandRuns
  <2>3. CASE /\ ops' = Tail(ops) /\ result' = result
             /\ Seen(bus', hw', got') = After(board, Head(ops), Seen(bus, hw, got))
    BY <1>1, <2>1, <2>3 DEF Fetches
  <2>4. CASE ops' = <<>> /\ result' \in {"PROBE_ERROR", "READ_ERROR"}
    BY <2>4
  <2> QED
    BY <2>2, <2>3, <2>4
<1> QED
  BY <1>3, <1>4

\* So every step keeps what a read is about to store.
LEMMA FetchInvKept ==
  ASSUME NandInv, TuneInv, FetchInv, Nand!Next
  PROVE  FetchInv'
<1>1. NandTypes /\ board' = board
  BY NandTypesKept DEF NandInv
<1>2. CASE \E page \in NandAsked : Nand!Read(page)
  <2>1. PICK page \in NandAsked : Nand!Read(page)
    BY <1>2
  <2>2. Fetches(Seen(bus', hw', got'), ops', call'.page) /\ call'.kind = "read" /\ result' = "none"
    BY <2>1, FetchBegins
  <2>3. Fetches(Seen(bus, hw, got), ops, call.page)'
    BY <1>1, <2>2, FetchJudged
  <2> QED
    BY <2>2, <2>3 DEF FetchInv
<1>3. CASE \A page \in NandAsked : ~Nand!Read(page)
  <2>1. result = "none"
    BY <1>1, <1>3 DEF NandTypes, Nand!Next, Nand!Return, Nand!NAND_Ctrl_Command_Write, Nand!NAND_Ctrl_Wait_Ready,
              Nand!NAND_Ctrl_Check_Status,
              Nand!NAND_Ctrl_Data_Read, Nand!Lookup, Nand!ReadExtraId, Nand!RefuseLarge, Nand!Configure, Nand!Hold,
              Nand!SetAddress, Nand!Execute, Nand!CopyCodeword
  <2>2. call' = call
    BY <2>1, NandMoves
  <2>3. CASE call.kind # "read"
    BY <2>2, <2>3 DEF FetchInv
  <2>4. CASE call.kind = "read"
    <3>1. Fetches(Seen(bus, hw, got), ops, call.page)
      BY <2>1, <2>4 DEF FetchInv
    <3>2. /\ result' = "none" => Fetches(Seen(bus', hw', got'), ops', call'.page)
          /\ result' = "OK" => FetchedIn(call'.page, got')
      BY <1>1, <2>1, <2>2, <2>4, <3>1, FetchGoes
    <3>3. /\ result' = "none" => Fetches(Seen(bus, hw, got), ops, call.page)'
          /\ result' = "OK" => FetchedIn(call.page, got)'
      BY <1>1, <3>2, FetchJudged
    <3> QED
      BY <3>3 DEF FetchInv
  <2> QED
    BY <2>3, <2>4
<1> QED
  BY <1>2, <1>3

\* One segment holds a place: that is what is stored there.
LEMMA StoredIs ==
  ASSUME IsList(got), NEW to, NEW at, NEW row, NEW col, HoldsAt(got, to, at, row, col)
  PROVE  Nand!Stored(to, at) = [row |-> row, col |-> col]
<1>1. PICK k \in 1 .. Len(got) : /\ Over(got[k], to, at) /\ \A j \in 1 .. Len(got) : Over(got[j], to, at) => j = k
                                 /\ got[k].from.row = row /\ got[k].from.col + (at - got[k].at) = col
  BY DEF HoldsAt
<1>2. DOMAIN got = 1 .. Len(got)
  <2>1. PICK S : got \in Seq(S)
    BY DEF IsList
  <2> QED
    BY <2>1, LenProperties
<1>3. PICK over : over = {i \in DOMAIN got : got[i].to = to /\ got[i].at <= at /\ at < got[i].at + got[i].n}
  OBVIOUS
<1>4. over = {k}
  <2>1. \A i : i \in over <=> i \in 1 .. Len(got) /\ Over(got[i], to, at)
    BY <1>2, <1>3 DEF Over
  <2> QED
    BY <1>1, <2>1
<1>5. k \in Nat
  BY <1>1
<1>6. (CHOOSE i \in over : \A j \in over : j <= i) = k
  BY <1>4, <1>5
<1>7. Nand!Stored(to, at) =
        (LET last == CHOOSE i \in over : \A j \in over : j <= i
         IN  IF over = {} THEN Nand!Nowhere
             ELSE [row |-> got[last].from.row, col |-> got[last].from.col + (at - got[last].at)])
  BY <1>3 DEF Nand!Stored
<1>8. Nand!Stored(to, at) = [row |-> got[k].from.row, col |-> got[k].from.col + (at - got[k].at)]
  BY <1>4, <1>6, <1>7
<1> QED
  BY <1>1, <1>8

\* The emulated chip gives the same of every row.
LEMMA SameContent ==
  ASSUME NEW page, NEW col
  PROVE  Nand!Content([row |-> RowSeen(page), col |-> col]) = Nand!Content([row |-> page, col |-> col])
BY DEF Nand!Content, Nand!port, RowSeen

\* The places looked at are places of the page and of its spare.
LEMMA GrainsInside ==
  ASSUME Listed, entry = OfChip
  PROVE  /\ Nand!Grain \subseteq 0 .. board.chip.page_size - 1
         /\ Nand!SpareGrain \subseteq 0 .. (board.chip.page_size \div 32) - 1
<1>1. PICK ps : ps = board.chip.page_size
  OBVIOUS
<1>2. ps \in Nat
  BY <1>1, ChipSane
<1>3. entry.page_size = ps
  BY <1>1, Widths
<1>4. Nand!Grain = {16 * k : k \in 0 .. (ps \div 16) - 1}
  BY <1>3 DEF Nand!Grain
<1>5. PICK sp \in Nat : sp = ps \div 32
  BY <1>2
<1>6. Nand!SpareGrain = {16 * k : k \in 0 .. (sp \div 16) - 1}
  BY <1>3, <1>5 DEF Nand!SpareGrain, Nand!Spare
<1>7. \A n \in Nat : \A k \in 0 .. (n \div 16) - 1 : 16 * k \in 0 .. n - 1
  OBVIOUS
<1> QED
  BY <1>1, <1>2, <1>4, <1>5, <1>6, <1>7

\* What a read that succeeded has stored is the page it was asked for.
LEMMA FetchedMeans ==
  ASSUME NandInv, TuneInv, FetchInv, call.kind = "read", result = "OK"
  PROVE  Nand!PageFetched
<1>1. FetchedIn(call.page, got)
  BY DEF FetchInv
<1>2. entry = OfChip
  BY DEF NandInv, ProbeInv
<1>3. Listed
  <2>1. entry.type # "NONE"
    BY <1>2 DEF OfChip, TypeName
  <2> QED
    BY <2>1 DEF TuneInv, Listed, NandInv, NandTypes
<1>4. entry.page_size = board.chip.page_size
  BY <1>2, <1>3, Widths
<1>5. ASSUME NEW at \in Nand!Grain
      PROVE  Nand!Content(Nand!Stored("page", at)) = Nand!Content([row |-> call.page, col |-> at])
  <2>1. at \in 0 .. board.chip.page_size - 1
    BY <1>2, <1>3, GrainsInside
  <2>2. HoldsAt(got, "page", at, RowSeen(call.page), at) /\ IsList(got)
    BY <1>1, <2>1 DEF FetchedIn
  <2>3. Nand!Stored("page", at) = [row |-> RowSeen(call.page), col |-> at]
    BY <2>2, StoredIs
  <2> QED
    BY <2>3, SameContent
<1>6. ASSUME board.port # "superand", NEW at \in Nand!SpareGrain
      PROVE  Nand!Content(Nand!Stored("spare", at)) = Nand!Content([row |-> call.page, col |-> entry.page_size + at])
  <2>1. at \in 0 .. (board.chip.page_size \div 32) - 1
    BY <1>2, <1>3, GrainsInside
  <2>2. HoldsAt(got, "spare", at, RowSeen(call.page), board.chip.page_size + at) /\ IsList(got)
    BY <1>1, <1>6, <2>1 DEF FetchedIn, Super
  <2>3. PICK col : col = board.chip.page_size + at
    OBVIOUS
  <2>4. Nand!Stored("spare", at) = [row |-> RowSeen(call.page), col |-> col]
    BY <2>2, <2>3, StoredIs
  <2> QED
    BY <1>4, <2>3, <2>4, SameContent
<1> QED
  BY <1>5, <1>6 DEF Nand!PageFetched, Nand!port

\* A step of a NAND or SuperAND driver, or of another part, and what a read stores.
LEMMA FetchStepKept ==
  ASSUME part = "nand" => NandInv /\ TuneInv /\ FetchInv,
         [StackNext]_<<part, command, driver, nandOnly, oneNandOnly>>
  PROVE  (part = "nand" => NandInv /\ TuneInv /\ FetchInv)'
<1>1. (part = "nand" => NandInv)'
  BY NandInvKept
<1>2. CASE part = "nand" /\ Nand!Next /\ UNCHANGED part
  BY <1>1, <1>2, TuneInvKept, FetchInvKept
<1>3. CASE part # "nand" /\ UNCHANGED part
  BY <1>3
<1>4. CASE UNCHANGED <<part, driver, nandOnly>>
  <2>1. /\ part' = part /\ board' = board /\ entry' = entry /\ call' = call /\ ops' = ops /\ result' = result
        /\ bus' = bus /\ hw' = hw /\ got' = got
    BY <1>4 DEF driver, nandOnly
  <2>2. TuneInv => TuneInv'
    <3>1. /\ Listed' = Listed /\ ChipTable' = ChipTable
          /\ Fitted(hw) => Fitted(hw)'
          /\ Fitting(hw, ops) => Fitting(hw, ops)'
          /\ Probes(ops) => Probes(ops)'
      BY <2>1, FitJudged
    <3> QED
      BY <2>1, <3>1 DEF TuneInv
  <2>3. FetchInv => FetchInv'
    <3>1. /\ Fetches(Seen(bus, hw, got), ops, call.page) => Fetches(Seen(bus, hw, got), ops, call.page)'
          /\ FetchedIn(call.page, got) => FetchedIn(call.page, got)'
      BY <2>1, FetchJudged
    <3> QED
      BY <2>1, <3>1 DEF FetchInv
  <2> QED
    BY <1>1, <2>1, <2>2, <2>3
<1> QED
  BY <1>2, <1>3, <1>4 DEF StackNext

\* PageFetched (FlashStack): a read that succeeds has stored the page it was asked for and that page's
\* spare, every part from its own row and column, on every port, chip and page the ports can read,
\* whatever earlier calls, finished or not, left in the chip, the lock and the registers.
THEOREM PageRead == StackSpec => []PageFetched
<1>1. StackInit => (part = "nand" => NandInv /\ TuneInv /\ FetchInv)
  <2>1. Nand!Init => FetchInv
    BY DEF Nand!Init, FetchInv
  <2> QED
    BY <2>1, NandInvStarts, TuneInvStarts DEF StackInit
<1>2. (part = "nand" => NandInv /\ TuneInv /\ FetchInv)
      /\ [StackNext]_<<part, command, driver, nandOnly, oneNandOnly>>
      => (part = "nand" => NandInv /\ TuneInv /\ FetchInv)'
  BY FetchStepKept
<1>3. (part = "nand" => NandInv /\ TuneInv /\ FetchInv) => PageFetched
  <2> SUFFICES ASSUME NandInv, TuneInv, FetchInv PROVE Nand!PageFetched
    BY DEF PageFetched
  <2>1. CASE call.kind = "read" /\ result = "OK"
    BY <2>1, FetchedMeans
  <2>2. CASE ~(call.kind = "read" /\ result = "OK")
    BY <2>2 DEF Nand!PageFetched
  <2> QED
    BY <2>1, <2>2
<1> QED
  BY <1>1, <1>2, <1>3, PTL DEF StackSpec
=============================================================================
