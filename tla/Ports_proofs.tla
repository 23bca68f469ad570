------------------------------ MODULE Ports_proofs ------------------------------
(***************************************************************************)
(* What the ports promise, proved: the invariants of Ports, for every size *)
(* of the buffers and the FIFOs, every order of host, line and driver, and *)
(* either board.                                                           *)
(*                                                                         *)
(* The ports share no state but the choice between them, so each has an    *)
(* inductive invariant of its own, kept by the steps of that port; a step  *)
(* of Ports is a step of each port or leaves it alone.                     *)
(***************************************************************************)
EXTENDS Ports, SequenceTheorems, TLAPS

-----------------------------------------------------------------------------
(* The serial port.                                                        *)

UartPlaces == {"off", "drain", "look", "discard", "idle", "more", "status", "take",
               "reset", "write"}

UartTypes ==
  /\ chip \in [rx : Seq(Nat), errors : BOOLEAN, tx : Seq(Nat)]
  /\ drv \in [pc : UartPlaces, len : Nat, step : Nat]
  /\ line \in [sent : Nat, handed : Seq(Nat), written : Nat, taken : Seq(Nat)]

\* The bytes that were not spoilt are in their order: the ones handed on, then the ones
\* in the FIFO.
InOrder(s) == \A j, k \in 1 .. Len(s) : j < k /\ s[j] # 0 /\ s[k] # 0 => s[j] < s[k]
Before(s, t) == \A j \in 1 .. Len(s), k \in 1 .. Len(t) : t[k] # 0 => s[j] < t[k]

\* Of what comes in: a spoilt byte lies in the FIFO only while an error bit is set, or
\* between the reset of the bits and the one of the receiver.
UartRxInv ==
  /\ InOrder(chip.rx) /\ InOrder(line.handed) /\ Before(line.handed, chip.rx)
  /\ \A k \in 1 .. Len(chip.rx) : chip.rx[k] <= line.sent
  /\ \A k \in 1 .. Len(line.handed) : line.handed[k] \in 1 .. line.sent
  /\ ~chip.errors /\ ~(drv.pc = "reset" /\ drv.step = 2) =>
       \A k \in 1 .. Len(chip.rx) : chip.rx[k] # 0
  /\ drv.pc = "reset" => drv.step \in 1 .. 3
  /\ drv.pc = "status" => chip.rx # <<>>
  /\ drv.pc = "take" => chip.rx # <<>> /\ chip.rx[1] # 0

\* Of what goes out: the bytes taken, and then the ones in the FIFO.
UartTxInv ==
  /\ \A k \in 1 .. Len(line.taken) : line.taken[k] = k
  /\ \A k \in 1 .. Len(chip.tx) : chip.tx[k] = Len(line.taken) + k
  /\ Len(line.taken) + Len(chip.tx) = line.written

UartInv == UartTypes /\ UartRxInv /\ UartTxInv

UartStep == UART!StartInit \/ UART!Line \/ UART!UartDriver \/ UNCHANGED uartVars

\* What a sequence without its first element is, and one with one more.
LEMMA TailOf ==
  ASSUME NEW S, NEW s \in Seq(S), s # <<>>
  PROVE  /\ Tail(s) \in Seq(S) /\ Len(Tail(s)) = Len(s) - 1 /\ Len(s) \in Nat \ {0}
         /\ Head(s) = s[1] /\ Head(s) \in S
         /\ \A k \in 1 .. Len(Tail(s)) : k + 1 \in 1 .. Len(s) /\ Tail(s)[k] = s[k + 1]
OBVIOUS

\* An appended element comes last and moves no other.
LEMMA AppendOf ==
  ASSUME NEW S, NEW s \in Seq(S), NEW e \in S
  PROVE  /\ Append(s, e) \in Seq(S) /\ Len(Append(s, e)) = Len(s) + 1 /\ Len(s) \in Nat
         /\ Append(s, e)[Len(s) + 1] = e
         /\ \A k \in 1 .. Len(s) : Append(s, e)[k] = s[k]
OBVIOUS

\* Every step of the serial port keeps its types.
LEMMA UartTypesKept == ASSUME UartTypes, UartRxInv, UartStep PROVE UartTypes'
<1> USE DEF UartTypes, UartPlaces, UART!Goto
<1> DEFINE rest == Tail(chip.rx)
           left == Tail(chip.tx)
           more == Append(chip.tx, line.written + 1)
<1>1. CASE UART!StartInit
  BY <1>1 DEF UART!StartInit
<1>2. CASE UART!LineTakes
  <2> DEFINE took == Append(line.taken, Head(chip.tx))
  <2>1. left \in Seq(Nat) /\ took \in Seq(Nat)
    BY <1>2, TailOf, AppendOf DEF UART!LineTakes, UART!TXEMT
  <2>2. /\ chip' = [chip EXCEPT !.tx = left]
        /\ line' = [line EXCEPT !.taken = took]
        /\ drv' = drv
    BY <1>2 DEF UART!LineTakes
  <2> HIDE DEF left, took
  <2> QED
    BY <2>1, <2>2
<1>3. ASSUME NEW damaged \in BOOLEAN, UART!LineBrings(damaged) PROVE UartTypes'
  <2> DEFINE full == Len(chip.rx) = RX_FIFO
             faults == chip.errors \/ full \/ damaged
             brought == IF full THEN chip.rx
                        ELSE Append(chip.rx, IF damaged THEN 0 ELSE line.sent + 1)
  <2>1. brought \in Seq(Nat) /\ faults \in BOOLEAN
    BY AppendOf
  <2> DEFINE count == line.sent + 1
  <2>2. /\ chip' = [chip EXCEPT !.rx = brought, !.errors = faults]
        /\ line' = [line EXCEPT !.sent = count]
        /\ drv' = drv
    BY <1>3 DEF UART!LineBrings, UART!DAMAGED
  <2>3. count \in Nat
    OBVIOUS
  <2> HIDE DEF brought, full, faults, count
  <2>4. PICK e \in BOOLEAN : e = faults
    BY <2>1
  <2> QED
    BY <2>1, <2>2, <2>3, <2>4
<1>4. CASE UART!init
  <2>1. chip' = chip \/ (rest \in Seq(Nat) /\ chip' = [chip EXCEPT !.rx = rest])
    BY <1>4, TailOf DEF UART!init, UART!drain, UART!InitLook, UART!InitDiscard, UART!RXRDY
  <2>2. line' = line /\ \E pc \in UartPlaces : drv' = [drv EXCEPT !.pc = pc]
    BY <1>4 DEF UART!init, UART!drain, UART!InitLook, UART!InitDiscard, UART!RXRDY
  <2> HIDE DEF rest
  <2>3. chip' \in [rx : Seq(Nat), errors : BOOLEAN, tx : Seq(Nat)]
    BY <2>1
  <2>4. PICK pc \in UartPlaces : drv' = [drv EXCEPT !.pc = pc]
    BY <2>2
  <2>5. drv' \in [pc : UartPlaces, len : Nat, step : Nat]
    BY <2>4
  <2> QED
    BY <2>2, <2>3, <2>5
<1>5. CASE UART!StartRead \/ UART!More \/ UART!Status \/ UART!StartWrite
  <2>1. CASE UART!StartRead
    BY <2>1 DEF UART!StartRead
  <2>4. CASE UART!StartWrite
    BY <2>4 DEF UART!StartWrite
  <2>2. CASE UART!Status
    <3> DEFINE place == IF UART!Refused THEN "reset" ELSE "take"
    <3>1. /\ place \in UartPlaces /\ drv' = [drv EXCEPT !.pc = place, !.step = 1]
          /\ chip' = chip /\ line' = line
      BY <2>2 DEF UART!Status
    <3> HIDE DEF place
    <3> QED
      BY <3>1
  <2>3. CASE UART!More
    <3> DEFINE count == drv.len + 1
    <3>1. count \in Nat
      OBVIOUS
    <3>2. \/ drv' = [drv EXCEPT !.pc = "idle"]
          \/ drv' = [drv EXCEPT !.pc = "status", !.len = count]
      BY <2>3 DEF UART!More
    <3> HIDE DEF count
    <3>3. CASE drv' = [drv EXCEPT !.pc = "idle"]
      BY <2>3, <3>3 DEF UART!More
    <3>4. CASE drv' = [drv EXCEPT !.pc = "status", !.len = count]
      BY <2>3, <3>1, <3>4 DEF UART!More
    <3> QED
      BY <3>2, <3>3, <3>4
  <2> QED
    BY <1>5, <2>1, <2>2, <2>3, <2>4
<1>6. CASE UART!Reset
  <2> DEFINE place == IF drv.step = Len(UART!Resets) THEN "more" ELSE drv.pc
             count == drv.step + 1
  <2>1. /\ place \in UartPlaces /\ count \in Nat
        /\ drv' = [drv EXCEPT !.pc = place, !.step = count]
    BY <1>6 DEF UART!Reset
  <2> HIDE DEF place, count
  <2>2. chip' = [chip EXCEPT !.errors = FALSE] \/ chip' = [chip EXCEPT !.rx = <<>>]
    BY <1>6 DEF UART!Reset
  <2> DEFINE none == <<>>
  <2>3. none \in Seq(Nat)
    OBVIOUS
  <2> HIDE DEF none
  <2>4. chip' \in [rx : Seq(Nat), errors : BOOLEAN, tx : Seq(Nat)]
    BY <2>2, <2>3 DEF none
  <2> QED
    BY <1>6, <2>1, <2>4 DEF UART!Reset
<1>7. CASE UART!Take
  <2> DEFINE got == Append(line.handed, Head(chip.rx))
  <2>1. rest \in Seq(Nat) /\ got \in Seq(Nat)
    BY <1>7, TailOf, AppendOf DEF UART!Take, UartRxInv
  <2>2. /\ chip' = [chip EXCEPT !.rx = rest]
        /\ line' = [line EXCEPT !.handed = got]
        /\ drv' = [drv EXCEPT !.pc = "more"]
    BY <1>7 DEF UART!Take
  <2> HIDE DEF rest, got
  <2> QED
    BY <2>1, <2>2
<1>8. CASE UART!WriteByte
  <2>1. more \in Seq(Nat)
    BY AppendOf
  <2> DEFINE held == IF Len(chip.tx) = TX_FIFO THEN chip.tx ELSE more
             count == line.written + 1
  <2>3. held \in Seq(Nat) /\ count \in Nat
    BY <2>1
  <2>2. /\ chip' = [chip EXCEPT !.tx = held]
        /\ line' = [line EXCEPT !.written = count]
        /\ drv' = [drv EXCEPT !.pc = "idle"]
    BY <1>8 DEF UART!WriteByte
  <2> HIDE DEF held, count
  <2> QED
    BY <2>2, <2>3
<1>9. CASE UNCHANGED uartVars
  BY <1>9 DEF uartVars
<1> QED
  BY <1>1, <1>2, <1>3, <1>4, <1>5, <1>6, <1>7, <1>8, <1>9
     DEF UartStep, UART!Line, UART!UartDriver, UART!Proceeds

\* Every step of the serial port keeps what comes in whole and in its order.
LEMMA UartRxKept == ASSUME UartTypes, UartRxInv, UartStep PROVE UartRxInv'
<1> DEFINE rx == chip.rx
           rest == Tail(chip.rx)
<1> USE DEF UART!Goto
<1>0. UartTypes'
  BY UartTypesKept
<1>1. CASE UART!StartInit \/ UART!drain \/ UART!InitLook \/ UART!StartRead \/ UART!StartWrite
  <2>1. /\ chip' = chip /\ line' = line
        /\ drv'.pc \notin {"reset", "status", "take"} /\ drv.pc \notin {"reset", "status", "take"}
    BY <1>1 DEF UartTypes, UART!StartInit, UART!drain, UART!InitLook, UART!StartRead, UART!StartWrite
  <2> QED
    BY <2>1 DEF UartRxInv, InOrder, Before
<1>2. CASE UART!LineTakes
  <2>1. /\ chip'.rx = chip.rx /\ chip'.errors = chip.errors /\ drv' = drv
        /\ line'.handed = line.handed /\ line'.sent = line.sent
    BY <1>2 DEF UartTypes, UART!LineTakes
  <2> QED
    BY <2>1 DEF UartRxInv, InOrder, Before
<1>3. ASSUME NEW damaged \in BOOLEAN, UART!LineBrings(damaged) PROVE UartRxInv'
  <2> DEFINE byte == IF damaged THEN 0 ELSE line.sent + 1
             brought == Append(chip.rx, byte)
             full == Len(chip.rx) = RX_FIFO
             faults == chip.errors \/ full \/ damaged
  <2>1. /\ chip'.rx = (IF full THEN chip.rx ELSE brought)
        /\ drv' = drv /\ line'.handed = line.handed /\ line'.sent = line.sent + 1
    BY <1>3 DEF UartTypes, UART!LineBrings, UART!DAMAGED
  <2>2. chip'.errors <=> faults
    BY <1>3 DEF UartTypes, UART!LineBrings, UART!DAMAGED
  <2>3. /\ brought \in Seq(Nat) /\ Len(brought) = Len(rx) + 1 /\ Len(rx) \in Nat
        /\ brought[Len(rx) + 1] = byte
        /\ \A k \in 1 .. Len(rx) : brought[k] = rx[k]
    BY AppendOf DEF UartTypes
  <2>4. /\ \A k \in 1 .. Len(rx) : rx[k] \in Nat
        /\ line.sent \in Nat /\ Len(line.handed) \in Nat
        /\ \A k \in 1 .. Len(line.handed) : line.handed[k] \in Nat
    <3>1. rx \in Seq(Nat) /\ line.handed \in Seq(Nat) /\ line.sent \in Nat
      BY DEF UartTypes
    <3>2. \A k \in 1 .. Len(rx) : rx[k] \in Nat
      BY <3>1
    <3>3. \A k \in 1 .. Len(line.handed) : line.handed[k] \in Nat
      BY <3>1
    <3> QED
      BY <3>1, <3>2, <3>3
  <2>5. byte # 0 => byte = line.sent + 1
    OBVIOUS
  <2>6. /\ byte \in Nat /\ byte <= line.sent + 1
        /\ ~faults => byte # 0
    BY <2>4
  <2>7. CASE full
    BY <2>1, <2>2, <2>4, <2>7 DEF UartRxInv, InOrder, Before
  <2>8. CASE ~full
    <3> DEFINE after == chip'.rx
    <3>1. /\ after = brought /\ Len(after) = Len(rx) + 1
          /\ after[Len(rx) + 1] = byte
          /\ \A k \in 1 .. Len(rx) : after[k] = rx[k]
          /\ \A k \in 1 .. Len(after) : k \in 1 .. Len(rx) \/ k = Len(rx) + 1
      BY <2>1, <2>3, <2>8
    <3> HIDE DEF byte, brought, faults
    <3>2. InOrder(after)
      <4> SUFFICES ASSUME NEW j \in 1 .. Len(after), NEW k \in 1 .. Len(after),
                          j < k, after[j] # 0, after[k] # 0
                   PROVE  after[j] < after[k]
        BY DEF InOrder
      <4>1. j \in 1 .. Len(rx)
        BY <2>3, <3>1
      <4>2. CASE k \in 1 .. Len(rx)
        <5>1. after[j] = rx[j] /\ after[k] = rx[k]
          BY <3>1, <4>1, <4>2
        <5> QED
          BY <4>1, <4>2, <5>1 DEF UartRxInv, InOrder
      <4>3. CASE k = Len(rx) + 1
        <5>1. after[j] = rx[j] /\ after[k] = byte
          BY <3>1, <4>1, <4>3
        <5>2. rx[j] \in Nat /\ rx[j] <= line.sent /\ byte = line.sent + 1
          BY <2>4, <2>5, <4>1, <5>1 DEF UartRxInv
        <5> QED
          BY <2>4, <5>1, <5>2
      <4>4. k \in 1 .. Len(rx) \/ k = Len(rx) + 1
        BY <3>1, Zenon
      <4> QED
        BY <4>2, <4>3, <4>4, Zenon
    <3>3. Before(line.handed, after)
      <4> SUFFICES ASSUME NEW j \in 1 .. Len(line.handed), NEW k \in 1 .. Len(after),
                          after[k] # 0
                   PROVE  line.handed[j] < after[k]
        BY DEF Before
      <4>1. CASE k \in 1 .. Len(rx)
        <5>1. after[k] = rx[k]
          BY <3>1, <4>1
        <5> QED
          BY <4>1, <5>1 DEF UartRxInv, Before
      <4>2. CASE k = Len(rx) + 1
        <5>1. after[k] = byte
          BY <3>1, <4>2
        <5>2. line.handed[j] \in Nat /\ line.handed[j] <= line.sent /\ byte = line.sent + 1
          BY <2>4, <2>5, <5>1 DEF UartRxInv
        <5> QED
          BY <2>4, <5>1, <5>2
      <4>3. k \in 1 .. Len(rx) \/ k = Len(rx) + 1
        BY <3>1, Zenon
      <4> QED
        BY <4>1, <4>2, <4>3
    <3>4. \A k \in 1 .. Len(after) : after[k] <= line'.sent
      BY <2>1, <2>4, <2>6, <3>1 DEF UartRxInv
    <3>5. \A k \in 1 .. Len(line.handed) : line.handed[k] \in 1 .. line'.sent
      BY <2>1, <2>4 DEF UartRxInv
    <3>6. ~chip'.errors /\ ~(drv.pc = "reset" /\ drv.step = 2) =>
            \A k \in 1 .. Len(after) : after[k] # 0
      BY <2>2, <2>6, <3>1 DEF UartRxInv, faults
    <3>7. (drv.pc = "status" => after # <<>>) /\ (drv.pc = "take" => after # <<>> /\ after[1] # 0)
      <4>1. rx # <<>> => 1 \in 1 .. Len(rx)
        BY DEF UartTypes
      <4>2. after # <<>>
        BY <2>3, <3>1
      <4> QED
        BY <3>1, <4>1, <4>2 DEF UartRxInv
    <3> QED
      BY <2>1, <3>2, <3>3, <3>4, <3>5, <3>6, <3>7 DEF UartRxInv
  <2> QED
    BY <2>7, <2>8
<1>4. ASSUME rx # <<>>
      PROVE  /\ Len(rest) = Len(rx) - 1 /\ Len(rx) \in Nat \ {0} /\ Head(rx) = rx[1]
             /\ \A k \in 1 .. Len(rest) : k + 1 \in 1 .. Len(rx) /\ rest[k] = rx[k + 1]
  BY <1>4, TailOf DEF UartTypes
<1>12. ASSUME rx # <<>>
       PROVE  /\ InOrder(rest) /\ Before(line.handed, rest)
              /\ \A k \in 1 .. Len(rest) : rest[k] <= line.sent
              /\ (\A k \in 1 .. Len(rx) : rx[k] # 0) => \A k \in 1 .. Len(rest) : rest[k] # 0
  <2> HIDE DEF rest
  <2>1. /\ Len(rest) = Len(rx) - 1 /\ Len(rx) \in Nat \ {0}
        /\ \A k \in 1 .. Len(rest) : k + 1 \in 1 .. Len(rx) /\ rest[k] = rx[k + 1]
    BY <1>4, <1>12
  <2>2. InOrder(rest)
    <3> SUFFICES ASSUME NEW j \in 1 .. Len(rest), NEW k \in 1 .. Len(rest),
                        j < k, rest[j] # 0, rest[k] # 0
                 PROVE  rest[j] < rest[k]
      BY DEF InOrder
    <3>1. /\ j + 1 \in 1 .. Len(rx) /\ rest[j] = rx[j + 1]
          /\ k + 1 \in 1 .. Len(rx) /\ rest[k] = rx[k + 1]
          /\ j + 1 < k + 1
      BY <2>1
    <3> QED
      BY <3>1 DEF UartRxInv, InOrder
  <2>3. Before(line.handed, rest)
    BY <2>1 DEF UartRxInv, Before
  <2> QED
    BY <2>1, <2>2, <2>3 DEF UartRxInv
<1>5. CASE UART!InitDiscard
  <2>1. /\ chip'.rx = rx \/ (rx # <<>> /\ chip'.rx = rest)
        /\ chip'.errors = chip.errors /\ line' = line
        /\ drv'.pc = "look" /\ drv.pc = "discard"
    BY <1>5 DEF UartTypes, UART!InitDiscard, UART!RXRDY
  <2>2. CASE chip'.rx = rx
    BY <2>1, <2>2 DEF UartRxInv, InOrder, Before
  <2>3. CASE rx # <<>> /\ chip'.rx = rest
    <3> HIDE DEF rest
    <3>1. ~chip.errors => \A k \in 1 .. Len(rest) : rest[k] # 0
      BY <1>12, <2>1, <2>3 DEF UartRxInv
    <3> QED
      BY <1>12, <2>1, <2>3, <3>1 DEF UartRxInv
  <2> QED
    BY <2>1, <2>2, <2>3
<1>6. CASE UART!More
  <2>1. /\ chip' = chip /\ line' = line /\ drv.pc = "more"
        /\ drv'.pc = "idle" \/ (drv'.pc = "status" /\ rx # <<>>)
    BY <1>6 DEF UartTypes, UART!More, UART!RXRDY
  <2> QED
    BY <2>1 DEF UartRxInv, InOrder, Before
<1>7. CASE UART!Status
  <2>1. /\ chip' = chip /\ line' = line /\ drv.pc = "status" /\ drv'.step = 1
        /\ drv'.pc = "reset" \/ (drv'.pc = "take" /\ ~chip.errors)
    BY <1>7 DEF UartTypes, UART!Status, UART!Refused
  <2>2. rx # <<>> /\ 1 \in 1 .. Len(rx)
    BY <2>1 DEF UartRxInv, UartTypes
  <2> QED
    BY <2>1, <2>2 DEF UartRxInv, InOrder, Before
<1>8. CASE UART!Reset
  <2>1. drv.pc = "reset" /\ drv.step \in 1 .. 3 /\ drv.step \in Nat
    BY <1>8 DEF UART!Reset, UartRxInv, UartTypes
  <2>2. drv'.step = drv.step + 1 /\ drv'.pc = (IF drv.step = 3 THEN "more" ELSE "reset")
    BY <1>8, <2>1 DEF UART!Reset, UART!Resets, UartTypes
  <2>3. UART!Resets[1] = "errors" /\ UART!Resets[2] = "rx" /\ UART!Resets[3] = "rx"
    BY DEF UART!Resets
  <2>4. line' = line
    BY <1>8 DEF UART!Reset
  <2>5. CASE drv.step = 1
    <3>1. chip'.rx = rx /\ chip'.errors = FALSE /\ drv'.pc = "reset" /\ drv'.step = 2
      BY <1>8, <2>2, <2>3, <2>5 DEF UART!Reset, UartTypes
    <3> QED
      BY <2>4, <3>1 DEF UartRxInv, InOrder, Before
  <2>6. CASE drv.step # 1
    <3>1. chip'.rx = <<>>
      BY <1>8, <2>1, <2>3, <2>6 DEF UART!Reset, UartTypes
    <3>2. drv'.pc \in {"more", "reset"} /\ (drv'.pc = "reset" => drv'.step \in 1 .. 3)
      BY <2>1, <2>2
    <3>3. Len(<<>>) = 0 /\ 1 .. 0 = {}
      OBVIOUS
    <3> QED
      BY <2>4, <3>1, <3>2, <3>3 DEF UartRxInv, InOrder, Before
  <2> QED
    BY <2>5, <2>6
<1>9. CASE UART!Take
  <2> DEFINE byte == Head(rx)
             got == Append(line.handed, byte)
  <2>1. /\ chip'.rx = rest /\ chip'.errors = chip.errors /\ line'.handed = got
        /\ line'.sent = line.sent /\ drv.pc = "take" /\ drv'.pc = "more"
    BY <1>9 DEF UART!Take, UartTypes
  <2>2. rx # <<>> /\ rx[1] # 0
    BY <2>1 DEF UartRxInv
  <2>3. /\ byte = rx[1] /\ byte \in Nat /\ line.handed \in Seq(Nat) /\ 1 \in 1 .. Len(rx)
        /\ \A k \in 1 .. Len(rx) : rx[k] \in Nat
        /\ \A k \in 1 .. Len(line.handed) : line.handed[k] \in Nat
    <3>1. rx \in Seq(Nat) /\ line.handed \in Seq(Nat)
      BY DEF UartTypes
    <3>2. byte = rx[1] /\ 1 \in 1 .. Len(rx) /\ byte \in Nat
      BY <2>2, <3>1, TailOf
    <3> HIDE DEF byte
    <3>3. \A k \in 1 .. Len(rx) : rx[k] \in Nat
      BY <3>1
    <3>4. \A k \in 1 .. Len(line.handed) : line.handed[k] \in Nat
      BY <3>1
    <3> QED
      BY <3>1, <3>2, <3>3, <3>4
  <2>4. /\ Len(got) = Len(line.handed) + 1 /\ Len(line.handed) \in Nat
        /\ got[Len(line.handed) + 1] = byte
        /\ \A k \in 1 .. Len(line.handed) : got[k] = line.handed[k]
    BY <2>3, AppendOf
  <2>5. \A k \in 1 .. Len(got) : k \in 1 .. Len(line.handed) \/ k = Len(line.handed) + 1
    BY <2>4
  <2> HIDE DEF byte, got, rest
  <2>6. line.sent \in Nat /\ byte \in 1 .. line.sent
    BY <2>2, <2>3 DEF UartRxInv, UartTypes
  <2>7. InOrder(rest) /\ \A k \in 1 .. Len(rest) : rest[k] <= line.sent
    BY <1>12, <2>2
  <2>8. InOrder(got)
    <3> SUFFICES ASSUME NEW j \in 1 .. Len(got), NEW k \in 1 .. Len(got),
                        j < k, got[j] # 0, got[k] # 0
                 PROVE  got[j] < got[k]
      BY DEF InOrder
    <3>1. j \in 1 .. Len(line.handed) /\ got[j] = line.handed[j]
      BY <2>4, <2>5
    <3>2. CASE k \in 1 .. Len(line.handed)
      BY <2>4, <3>1, <3>2 DEF UartRxInv, InOrder
    <3>3. CASE k = Len(line.handed) + 1
      BY <2>2, <2>3, <2>4, <3>1, <3>3 DEF UartRxInv, Before
    <3> QED
      BY <2>5, <3>2, <3>3
  <2>11. \A k \in 1 .. Len(got) : got[k] \in 1 .. line.sent
    BY <2>4, <2>5, <2>6 DEF UartRxInv
  <2>9. Before(got, rest)
    <3> SUFFICES ASSUME NEW j \in 1 .. Len(got), NEW k \in 1 .. Len(rest), rest[k] # 0
                 PROVE  got[j] < rest[k]
      BY DEF Before
    <3>1. CASE j \in 1 .. Len(line.handed)
      BY <1>12, <2>2, <2>4, <3>1 DEF Before
    <3>2. CASE j = Len(line.handed) + 1
      <4>1. k + 1 \in 1 .. Len(rx) /\ rest[k] = rx[k + 1] /\ 1 < k + 1
        BY <1>4, <2>2
      <4> QED
        BY <2>2, <2>3, <2>4, <3>2, <4>1 DEF UartRxInv, InOrder
    <3> QED
      BY <2>5, <3>1, <3>2
  <2>10. ~chip.errors => \A k \in 1 .. Len(rest) : rest[k] # 0
    BY <1>4, <2>1, <2>2 DEF UartRxInv
  <2> QED
    BY <2>1, <2>7, <2>8, <2>9, <2>10, <2>11 DEF UartRxInv
<1>10. CASE UART!WriteByte
  <2>1. /\ chip'.rx = rx /\ chip'.errors = chip.errors /\ drv.pc = "write" /\ drv'.pc = "idle"
        /\ line'.handed = line.handed /\ line'.sent = line.sent
    BY <1>10 DEF UartTypes, UART!WriteByte
  <2> QED
    BY <2>1 DEF UartRxInv, InOrder, Before
<1>11. CASE UNCHANGED uartVars
  BY <1>11 DEF uartVars, UartRxInv, InOrder, Before
<1> QED
  BY <1>1, <1>2, <1>3, <1>5, <1>6, <1>7, <1>8, <1>9, <1>10, <1>11
     DEF UartStep, UART!Line, UART!UartDriver, UART!Proceeds, UART!init

\* Every step of the serial port keeps what goes out whole and in its order.
LEMMA UartTxKept ==
  ASSUME UART!UartAssumption, UartTypes, UartTxInv, UartStep PROVE UartTxInv'
<1> DEFINE tx0 == chip.tx
           taken0 == line.taken
           written0 == line.written
<1>0. /\ tx0 \in Seq(Nat) /\ taken0 \in Seq(Nat) /\ written0 \in Nat
      /\ Len(tx0) \in Nat /\ Len(taken0) \in Nat
  BY DEF UartTypes
<1>9. /\ \A k \in 1 .. Len(taken0) : taken0[k] = k
      /\ \A k \in 1 .. Len(tx0) : tx0[k] = Len(taken0) + k
  BY DEF UartTxInv
<1>8. Len(taken0) + Len(tx0) = written0
  BY DEF UartTxInv
<1>1. CASE UART!LineTakes
  <2> DEFINE byte == Head(tx0)
             took == Append(taken0, byte)
             left == Tail(tx0)
  <2>1. /\ chip'.tx = left /\ line'.taken = took /\ line'.written = written0
        /\ tx0 # <<>>
    BY <1>1 DEF UART!LineTakes, UART!TXEMT, UartTypes
  <2> HIDE DEF tx0, taken0, written0
  <2>2. /\ byte = tx0[1] /\ byte \in Nat /\ 1 \in 1 .. Len(tx0)
        /\ Len(left) = Len(tx0) - 1
        /\ \A k \in 1 .. Len(left) : k + 1 \in 1 .. Len(tx0) /\ left[k] = tx0[k + 1]
    BY <1>0, <2>1, TailOf
  <2>3. /\ Len(took) = Len(taken0) + 1
        /\ took[Len(taken0) + 1] = byte
        /\ \A k \in 1 .. Len(taken0) : took[k] = taken0[k]
    BY <1>0, <2>2, AppendOf
  <2> HIDE DEF byte, took, left
  <2>4. ASSUME NEW k \in 1 .. Len(took) PROVE took[k] = k
    <3>1. CASE k \in 1 .. Len(taken0)
      BY <1>9, <2>3, <3>1
    <3>2. CASE k \notin 1 .. Len(taken0)
      <4>1. k = Len(taken0) + 1
        BY <1>0, <2>3, <3>2
      <4>2. byte = Len(taken0) + 1
        BY <1>9, <2>2
      <4> QED
        BY <2>3, <4>1, <4>2
    <3> QED
      BY <3>1, <3>2
  <2>5. ASSUME NEW k \in 1 .. Len(left) PROVE left[k] = Len(took) + k
    BY <1>0, <1>9, <2>2, <2>3
  <2>6. Len(took) + Len(left) = written0
    <3> DEFINE a == Len(taken0)
               b == Len(tx0)
    <3>1. Len(took) = a + 1 /\ Len(left) = b - 1
      BY <2>2, <2>3
    <3>2. a \in Nat /\ b \in Nat /\ a + b = written0
      BY <1>0, <1>8
    <3> HIDE DEF a, b
    <3>3. (a + 1) + (b - 1) = written0
      BY <3>2
    <3> QED
      BY <3>1, <3>3
  <2> QED
    BY <2>1, <2>4, <2>5, <2>6 DEF UartTxInv
<1>2. CASE UART!WriteByte
  <2> DEFINE byte == written0 + 1
             more == Append(tx0, byte)
  <2>1. TX_FIFO \in Nat /\ TX_LEVEL \in 1 .. TX_FIFO
    BY DEF UART!UartAssumption
  <2>2. Len(tx0) < TX_LEVEL
    BY <1>2 DEF UART!WriteByte, UART!LevelSeen, UART!TXLEV
  <2>3. Len(tx0) # TX_FIFO
    BY <1>0, <2>1, <2>2
  <2>4. /\ chip'.tx = more /\ line'.taken = taken0 /\ line'.written = byte
    BY <1>2, <2>3 DEF UART!WriteByte, UartTypes
  <2> HIDE DEF tx0, taken0, written0
  <2>5. byte \in Nat
    BY <1>0
  <2>6. /\ Len(more) = Len(tx0) + 1 /\ more[Len(tx0) + 1] = byte
        /\ \A k \in 1 .. Len(tx0) : more[k] = tx0[k]
    BY <1>0, <2>5, AppendOf
  <2> HIDE DEF more
  <2>7. ASSUME NEW k \in 1 .. Len(more) PROVE more[k] = Len(taken0) + k
    <3>1. CASE k \in 1 .. Len(tx0)
      BY <1>9, <2>6, <3>1
    <3>2. CASE k \notin 1 .. Len(tx0)
      <4>1. k = Len(tx0) + 1
        BY <1>0, <2>6, <3>2
      <4>2. more[k] = byte
        BY <2>6, <4>1
      <4> QED
        BY SMTT(30), <1>0, <1>8, <4>1, <4>2
    <3> QED
      BY <3>1, <3>2
  <2>8. Len(taken0) + Len(more) = byte
    <3>1. Len(more) = Len(tx0) + 1
      BY <2>6
    <3> QED
      BY SMTT(30), <1>0, <1>8, <3>1
  <2> HIDE DEF byte
  <2> QED
    BY <1>9, <2>4, <2>7, <2>8 DEF UartTxInv
<1>3. CASE UART!StartInit \/ UART!init \/ UART!StartRead \/ UART!StartWrite \/ UART!More
           \/ UART!Status \/ UART!Reset \/ UNCHANGED uartVars
  <2>1. chip'.tx = chip.tx /\ line' = line
    BY <1>3 DEF UART!StartInit, UART!init, UART!drain, UART!InitLook, UART!InitDiscard,
         UART!StartRead, UART!StartWrite, UART!More, UART!Status, UART!Reset, uartVars, UartTypes
  <2> QED
    BY <2>1 DEF UartTxInv
<1>4. CASE UART!Take
  <2>1. chip'.tx = chip.tx /\ line'.taken = line.taken /\ line'.written = line.written
    BY <1>4 DEF UART!Take, UartTypes
  <2> QED
    BY <2>1 DEF UartTxInv
<1>5. ASSUME NEW damaged \in BOOLEAN, UART!LineBrings(damaged) PROVE UartTxInv'
  <2>1. chip'.tx = chip.tx /\ line'.taken = line.taken /\ line'.written = line.written
    BY <1>5 DEF UART!LineBrings, UartTypes
  <2> QED
    BY <2>1 DEF UartTxInv
<1> QED
  BY <1>1, <1>2, <1>3, <1>4, <1>5 DEF UartStep, UART!Line, UART!UartDriver, UART!Proceeds

\* The invariant of the serial port holds at the start, and every step keeps it.
LEMMA UartInvariant ==
  ASSUME UART!UartAssumption
  PROVE  /\ UART!UartOff => UartInv
         /\ UartInv /\ UartStep => UartInv'
<1>1. ASSUME UART!UartOff PROVE UartInv
  <2>1. Len(<<>>) = 0 /\ 1 .. 0 = {} /\ <<>> \in Seq(Nat)
    OBVIOUS
  <2>2. UartTypes
    BY <1>1, <2>1 DEF UART!UartOff, UartTypes, UartPlaces
  <2>3. /\ chip.rx = <<>> /\ chip.tx = <<>> /\ line.taken = <<>> /\ line.handed = <<>>
        /\ drv.pc = "off" /\ line.written = 0
    BY <1>1 DEF UART!UartOff
  <2> QED
    BY <2>1, <2>2, <2>3 DEF UartInv, UartRxInv, UartTxInv, InOrder, Before
<1> QED
  BY <1>1, UartTypesKept, UartRxKept, UartTxKept DEF UartInv

\* The invariant of the serial port says what is promised of either direction.
LEMMA UartSafe == ASSUME UartInv PROVE UartReceives /\ UartSends
<1>1. UartReceives
  <2> DEFINE got == line.handed
  <2>1. /\ got \in Seq(Nat) /\ InOrder(got)
        /\ \A k \in 1 .. Len(got) : got[k] \in 1 .. line.sent
        /\ line.sent \in Nat
    BY DEF UartInv, UartTypes, UartRxInv
  <2> HIDE DEF got
  <2>2. ASSUME NEW k \in 1 .. Len(got) PROVE got[k] > IF k = 1 THEN 0 ELSE got[k - 1]
    <3>1. got[k] \in Nat /\ got[k] # 0
      BY <2>1
    <3>2. CASE k = 1
      BY <3>1, <3>2
    <3>3. CASE k # 1
      <4>1. k - 1 \in 1 .. Len(got) /\ k - 1 < k
        BY <2>1, <3>3
      <4>2. got[k - 1] \in Nat /\ got[k - 1] # 0
        BY <2>1, <4>1
      <4>3. got[k - 1] < got[k]
        BY <2>1, <3>1, <4>1, <4>2 DEF InOrder
      <4> QED
        BY <3>1, <3>3, <4>2, <4>3
    <3> QED
      BY <3>2, <3>3
  <2> QED
    BY <2>2 DEF UartReceives, UART!UartReceives, UART!DAMAGED, got
<1>2. UartSends
  <2> DEFINE tx0 == chip.tx
             taken0 == line.taken
             all == taken0 \o tx0
  <2>1. /\ taken0 \in Seq(Nat) /\ tx0 \in Seq(Nat)
        /\ \A k \in 1 .. Len(taken0) : taken0[k] = k
        /\ \A k \in 1 .. Len(tx0) : tx0[k] = Len(taken0) + k
        /\ Len(taken0) + Len(tx0) = line.written
    BY DEF UartInv, UartTypes, UartTxInv
  <2> HIDE DEF tx0, taken0
  <2>2. /\ Len(taken0) \in Nat /\ Len(tx0) \in Nat
        /\ Len(all) = Len(taken0) + Len(tx0)
        /\ DOMAIN all = 1 .. Len(all)
    BY <2>1
  <2>3. \A k \in 1 .. Len(all) : all[k] = IF k <= Len(taken0) THEN taken0[k]
                                          ELSE tx0[k - Len(taken0)]
    BY <2>1, <2>2
  <2> HIDE DEF all
  <2>4. ASSUME NEW k \in DOMAIN all PROVE all[k] = k
    <3>1. k \in 1 .. Len(all)
      BY <2>2
    <3>2. CASE k <= Len(taken0)
      <4>1. k \in 1 .. Len(taken0) /\ all[k] = taken0[k]
        BY <2>2, <2>3, <3>1, <3>2
      <4> QED
        BY <2>1, <4>1
    <3>3. CASE ~(k <= Len(taken0))
      <4>1. k - Len(taken0) \in 1 .. Len(tx0) /\ all[k] = tx0[k - Len(taken0)]
        BY <2>2, <2>3, <3>1, <3>3
      <4> QED
        BY <2>1, <2>2, <3>1, <4>1
    <3> QED
      BY <3>2, <3>3
  <2>5. Len(all) = line.written
    BY <2>1, <2>2
  <2> QED
    BY <2>4, <2>5 DEF UartSends, UART!UartSends, all, taken0, tx0
<1> QED
  BY <1>1, <1>2

-----------------------------------------------------------------------------
(* The USB port of the QSC60x0.                                            *)

X0Shapes ==
  /\ work = [pc |-> work.pc, then |-> work.then, frame |-> work.frame, loop |-> work.loop]
  /\ fifos = [in |-> fifos.in, out |-> fifos.out, setup |-> fifos.setup,
              data |-> fifos.data, reply |-> fifos.reply]
  /\ peer = [uses |-> peer.uses, sent |-> peer.sent, setups |-> peer.setups,
             gives |-> peer.gives, written |-> peer.written, handed |-> peer.handed,
             taken |-> peer.taken, closed |-> peer.closed]

X0Types ==
  /\ work.pc \in {"active", "waits", "idle", "receive", "hand"}
  /\ work.then \in {"active", "idle", "receive"}
  /\ work.loop \in Seq(Nat) /\ fifos.out \in Seq(Seq(Nat))
  /\ peer.sent \in Nat /\ peer.handed \in Seq(Nat)

\* The packet p holds the bytes after the b-th; the packets s, two at most, hold the
\* ones after the b-th up to the e-th.
From(b, p) == \A k \in 1 .. Len(p) : p[k] = b + k
Chain(b, s, e) ==
  \/ s = <<>> /\ e = b
  \/ Len(s) = 1 /\ From(b, s[1]) /\ e = b + Len(s[1])
  \/ /\ Len(s) = 2 /\ From(b, s[1]) /\ From(b + Len(s[1]), s[2])
     /\ e = b + Len(s[1]) + Len(s[2])

\* The packets that the driver has not begun to hand on: a bank at hand is still there,
\* bytes behind the buffer register are not.
Untouched == IF work.pc = "hand" /\ peer.uses # "buffer" THEN Tail(fifos.out) ELSE fifos.out

\* The bytes handed on, the ones at hand and the ones untouched follow one another, and
\* they are all that the host sent.  The port keeps to the FIFOs the host uses.
X0Order ==
  /\ \A k \in 1 .. Len(peer.handed) : peer.handed[k] = k
  /\ From(Len(peer.handed), work.loop)
  /\ Chain(Len(peer.handed) + Len(work.loop), Untouched, peer.sent)
  /\ peer.uses = "buffer" => Len(fifos.out) <= 1
  /\ work.pc = "hand" => work.loop # <<>> /\ (peer.uses # "buffer" => fifos.out # <<>>)
  /\ work.pc # "hand" => work.loop = <<>>
  /\ work.pc \in {"idle", "receive", "hand"} \/ (work.pc = "waits" /\ work.then # "active")
       => pair = peer.uses

X0Inv == X0Shapes /\ X0Types /\ X0Order

\* One packet more at the end of a chain, and one fewer at its front.
LEMMA ChainAppend ==
  ASSUME NEW b \in Nat, NEW e \in Nat, NEW s \in Seq(Seq(Nat)), Chain(b, s, e), Len(s) < 2,
         NEW p \in Seq(Nat), From(e, p)
  PROVE  Chain(b, Append(s, p), e + Len(p))
<1> DEFINE t == Append(s, p)
<1>1. /\ Len(t) = Len(s) + 1 /\ t[Len(s) + 1] = p /\ Len(s) \in Nat /\ Len(p) \in Nat
      /\ \A k \in 1 .. Len(s) : t[k] = s[k] /\ s[k] \in Seq(Nat)
  BY AppendOf
<1> HIDE DEF t
<1>2. CASE s = <<>>
  <2>1. Len(s) = 0 /\ e = b
    BY <1>2 DEF Chain
  <2>2. Len(t) = 1 /\ t[1] = p
    BY <1>1, <2>1
  <2> QED
    BY <2>1, <2>2 DEF Chain, t
<1>3. CASE Len(s) = 1
  <2>3. 1 \in 1 .. Len(s)
    BY <1>3
  <2>5. s # <<>>
    <3>1. Len(<<>>) = 0 /\ 0 # 1
      BY EmptySeq
    <3> QED
      BY <1>3, <3>1, Zenon
  <2>1. t[1] = s[1] /\ t[2] = p /\ Len(t) = 2 /\ s # <<>> /\ Len(s[1]) \in Nat
    BY <1>1, <1>3, <2>3, <2>5
  <2>2. From(b, s[1]) /\ e = b + Len(s[1])
    BY <1>3, <2>1 DEF Chain
  <2> QED
    BY <2>1, <2>2 DEF Chain, t
<1>4. s = <<>> \/ Len(s) = 1
  <2>1. s = <<>> \/ Len(s) = 1 \/ Len(s) = 2
    BY DEF Chain
  <2>2. Len(s) # 2
    <3> DEFINE n == Len(s)
    <3>1. n < 2 /\ n \in Nat
      OBVIOUS
    <3> HIDE DEF n
    <3>2. n # 2
      BY <3>1
    <3> QED
      BY <3>2, Zenon DEF n
  <2> QED
    BY <2>1, <2>2
<1> QED
  BY <1>2, <1>3, <1>4 DEF t

\* A chain without its head is a chain.
LEMMA ChainTail ==
  ASSUME NEW b \in Nat, NEW e \in Nat, NEW s \in Seq(Seq(Nat)), Chain(b, s, e), s # <<>>
  PROVE  From(b, Head(s)) /\ Chain(b + Len(Head(s)), Tail(s), e)
<1> DEFINE p == Head(s)
           t == Tail(s)
<1>1. /\ Len(t) = Len(s) - 1 /\ Len(s) \in Nat \ {0} /\ p = s[1] /\ p \in Seq(Nat)
      /\ \A k \in 1 .. Len(t) : k + 1 \in 1 .. Len(s) /\ t[k] = s[k + 1]
      /\ t = <<>> <=> Len(t) = 0
      /\ t \in Seq(Seq(Nat))
  <2>1. t \in Seq(Seq(Nat))
    BY TailOf
  <2> QED
    BY <2>1, TailOf, EmptySeq
<1> HIDE DEF p, t
<1>2. Len(p) \in Nat
  BY <1>1
<1>3. CASE Len(s) = 1
  <2>1. t = <<>> /\ s # <<>>
    BY <1>1, <1>3
  <2>2. From(b, p) /\ e = b + Len(p)
    BY <1>1, <1>3, <2>1 DEF Chain
  <2> QED
    BY <2>1, <2>2 DEF Chain, p, t
<1>4. CASE Len(s) = 2
  <2>1. Len(t) = 1 /\ t[1] = s[2] /\ s # <<>>
    BY <1>1, <1>4
  <2>2. From(b, p) /\ From(b + Len(p), t[1]) /\ e = b + Len(p) + Len(t[1])
    BY <1>1, <1>4, <2>1 DEF Chain
  <2> QED
    BY <2>1, <2>2 DEF Chain, p, t
<1> QED
  BY <1>1, <1>3, <1>4 DEF Chain

X0Step == X0!Next \/ UNCHANGED x0Vars

\* Every step of that port keeps its invariant.
LEMMA X0Kept == ASSUME UsbAssumption, X0Inv, X0Step PROVE X0Inv'
<1> USE DEF X0Shapes
<1> DEFINE stream == peer.handed
           packets == fifos.out
           hand == work.loop
           n == Len(stream) + Len(hand)
           count == peer.sent
<1>0. /\ stream \in Seq(Nat) /\ hand \in Seq(Nat) /\ packets \in Seq(Seq(Nat)) /\ count \in Nat
      /\ Len(stream) \in Nat /\ Len(hand) \in Nat /\ n \in Nat
      /\ Len(packets) \in Nat /\ Untouched \in Seq(Seq(Nat))
  <2>1. /\ stream \in Seq(Nat) /\ hand \in Seq(Nat) /\ packets \in Seq(Seq(Nat))
        /\ count \in Nat
    BY DEF X0Inv, X0Types
  <2>2. Untouched = packets \/ (packets # <<>> /\ Untouched = Tail(packets))
    BY DEF X0Inv, X0Order, Untouched
  <2> HIDE DEF packets, stream, hand, count
  <2>3. Untouched \in Seq(Seq(Nat))
    <3>1. packets # <<>> => Tail(packets) \in Seq(Seq(Nat))
      BY <2>1, TailOf
    <3> QED
      BY <2>1, <2>2, <3>1
  <2>4. Len(stream) \in Nat /\ Len(hand) \in Nat /\ Len(packets) \in Nat
    BY <2>1
  <2> QED
    BY <2>1, <2>3, <2>4
\* What a step does that only moves the program between its other places.
<1>1. ASSUME X0Shapes', UNCHANGED <<fifos.out, peer.uses, peer.sent, peer.handed>>,
             work'.loop = work.loop, work.pc # "hand",
             work'.pc \in {"active", "waits", "idle", "receive"},
             work'.then \in {"active", "idle", "receive"},
             work'.pc \in {"idle", "receive"} \/ (work'.pc = "waits" /\ work'.then # "active")
               => pair' = peer.uses
      PROVE  X0Inv'
  BY <1>1 DEF X0Inv, X0Types, X0Order, Untouched
\* What a step does that leaves the program and the packets received alone.
<1>2. ASSUME X0Shapes', UNCHANGED <<fifos.out, peer.uses, peer.sent, peer.handed, pair,
                                    work.loop, work.pc, work.then>>
      PROVE  X0Inv'
  BY <1>2 DEF X0Inv, X0Types, X0Order, Untouched
<1>3. ASSUME NEW then \in {"active", "idle", "receive"}, X0!SetupUpdate(then)
      PROVE  /\ work' = [pc |-> work'.pc, then |-> then, frame |-> work.frame, loop |-> hand]
             /\ work'.pc \in {"waits", then}
             /\ fifos' = [in |-> fifos.in, out |-> packets, setup |-> fifos'.setup,
                          data |-> fifos'.data, reply |-> fifos'.reply]
  <2> DEFINE place == IF fifos.setup = "CLEAR_FEATURE_E" THEN "waits" ELSE then
             s0 == IF fifos.setup = "CLEAR_FEATURE_E" THEN fifos.setup ELSE "none"
             d0 == IF fifos.setup \in {"SET_LINE_CODING", "other"} THEN <<>> ELSE fifos.data
             r0 == IF fifos.setup = "CLEAR_FEATURE_E" THEN <<USB_Serial>> ELSE fifos.reply
  <2>1. /\ work' = [work EXCEPT !.pc = place, !.then = then]
        /\ fifos' = [fifos EXCEPT !.setup = s0, !.data = d0, !.reply = r0]
        /\ place \in {"waits", then}
    BY <1>3 DEF X0!SetupUpdate
  <2> HIDE DEF place, s0, d0, r0
  <2> QED
    BY <2>1 DEF X0Inv
<1>4. ASSUME NEW k \in 1 .. PACKET, X0!HostSends(k) PROVE X0Inv'
  <2> DEFINE packet == [j \in 1 .. k |-> count + j]
             added == X0!Stored(packets, packet)
             total == count + k
  <2>1. /\ fifos' = [fifos EXCEPT !.out = added] /\ peer' = [peer EXCEPT !.sent = total]
        /\ pair' = pair /\ work' = work
        /\ peer.uses = "buffer" \/ Len(packets) < 2
    BY <1>4 DEF X0!HostSends, X0!BANKS
  <2>2. /\ packet \in Seq(Nat) /\ Len(packet) = k /\ total \in Nat
        /\ From(count, packet)
    <3>1. PACKET \in Nat /\ k \in Nat
      BY DEF UsbAssumption
    <3> QED
      BY <1>0, <3>1 DEF From
  <2> HIDE DEF packet, total
  <2>3. SUFFICES /\ added \in Seq(Seq(Nat)) /\ Chain(n, Untouched', total)
                 /\ peer.uses = "buffer" => Len(added) <= 1
                 /\ packets # <<>> => added # <<>>
    <3>1. /\ fifos'.out = added /\ peer'.sent = total /\ X0Shapes'
          /\ UNCHANGED <<peer.uses, peer.handed, work, pair>>
      <4> HIDE DEF added
      <4> QED
        BY <2>1 DEF X0Inv
    <3> HIDE DEF added
    <3> QED
      BY <2>2, <2>3, <3>1 DEF X0Inv, X0Types, X0Order
  <2>4. Chain(n, Untouched, count)
    BY DEF X0Inv, X0Order
  <2>5. ASSUME added = Append(packets, packet), NEW s \in Seq(Seq(Nat)), Chain(n, s, count),
               Len(s) < 2
        PROVE  Chain(n, Append(s, packet), total) /\ added \in Seq(Seq(Nat)) /\ added # <<>>
    <3> HIDE DEF n, count, packets
    <3>1. Chain(n, Append(s, packet), total)
      BY <1>0, <2>2, <2>5, ChainAppend DEF total
    <3>2. added \in Seq(Seq(Nat)) /\ added # <<>>
      BY <1>0, <2>2, <2>5, AppendProperties
    <3> QED
      BY <3>1, <3>2
  <2>6. CASE peer.uses = "buffer" /\ packets = <<>>
    <3>1. Untouched = packets /\ Untouched' = fifos'.out /\ fifos'.out = added
      BY <2>1, <2>6 DEF Untouched, X0Inv
    <3>2. added = Append(packets, packet) /\ Len(packets) <= 0
      BY <2>6, EmptySeq DEF X0!Stored
    <3> HIDE DEF packets, added, n, count
    <3>3. Chain(n, packets, count) /\ packets \in Seq(Seq(Nat)) /\ Len(packets) < 2
      BY <1>0, <2>4, <3>1, <3>2
    <3>4. Chain(n, Append(packets, packet), total) /\ added \in Seq(Seq(Nat)) /\ added # <<>>
      BY <2>5, <3>2, <3>3
    <3>5. Len(added) <= 1
      <4>1. Len(added) = Len(packets) + 1
        BY <1>0, <2>2, <3>2, AppendProperties
      <4> QED
        BY <1>0, <3>2, <4>1
    <3> QED
      BY <3>1, <3>2, <3>4, <3>5
  <2>7. CASE peer.uses = "buffer" /\ packets # <<>>
    <3> DEFINE first == packets[1]
               longer == first \o packet
    <3>1. Untouched = packets /\ Untouched' = fifos'.out /\ fifos'.out = added
      BY <2>1, <2>7 DEF Untouched, X0Inv
    <3>2. added = <<Head(packets) \o packet>> /\ Len(packets) <= 1
      BY <2>7 DEF X0!Stored, X0Inv, X0Order
    <3> HIDE DEF packets, added, n, count
    <3>3. first = Head(packets) /\ first \in Seq(Nat)
      BY <1>0, <2>7, TailOf
    <3>4. From(n, first) /\ count = n + Len(first)
      <4>1. Len(packets) # 2
        <5> DEFINE m == Len(packets)
        <5>1. m \in Nat /\ m <= 1
          BY <1>0, <3>2
        <5> HIDE DEF m
        <5>2. m # 2
          BY <5>1
        <5> QED
          BY <5>2, Zenon DEF m
      <4> QED
        BY <2>4, <2>7, <3>1, <4>1, Zenon DEF Chain
    <3>5. added = <<longer>>
      BY <3>2, <3>3
    <3> HIDE DEF first
    <3>6. /\ longer \in Seq(Nat) /\ Len(longer) = Len(first) + Len(packet)
          /\ Len(first) \in Nat /\ Len(packet) \in Nat
      <4>1. first \in Seq(Nat) /\ packet \in Seq(Nat)
        BY <2>2, <3>3
      <4> QED
        BY <4>1, ConcatProperties
    <3>7. From(n, longer)
      <4> SUFFICES ASSUME NEW j \in 1 .. Len(longer) PROVE longer[j] = n + j
        BY DEF From
      <4>1. longer[j] = IF j <= Len(first) THEN first[j] ELSE packet[j - Len(first)]
        BY <2>2, <3>3, <3>6, ConcatProperties
      <4> HIDE DEF longer
      <4>2. CASE j <= Len(first)
        <5>1. j \in 1 .. Len(first)
          BY <3>6, <4>2
        <5> QED
          BY <3>4, <4>1, <4>2, <5>1 DEF From
      <4>3. CASE ~(j <= Len(first))
        <5>1. j - Len(first) \in 1 .. Len(packet)
          BY <3>6, <4>3
        <5>2. packet[j - Len(first)] = count + (j - Len(first))
          BY <2>2, <5>1 DEF From
        <5> QED
          BY <1>0, <3>4, <3>6, <4>1, <4>3, <5>2
      <4> QED
        BY <4>2, <4>3
    <3>8. total = n + Len(longer)
      BY <1>0, <2>2, <3>4, <3>6 DEF total
    <3> HIDE DEF longer, total
    <3>9. /\ <<longer>> \in Seq(Seq(Nat)) /\ Len(<<longer>>) = 1 /\ <<longer>>[1] = longer
          /\ <<longer>> # <<>>
      BY <3>6
    <3>10. Chain(n, added, total)
      BY <3>5, <3>7, <3>8, <3>9 DEF Chain
    <3> QED
      BY <3>1, <3>5, <3>9, <3>10
  <2>8. CASE peer.uses # "buffer"
    <3> DEFINE halfway == work.pc = "hand"
    <3>1. /\ added = Append(packets, packet) /\ Len(packets) < 2
          /\ halfway => packets # <<>>
          /\ Untouched = (IF halfway THEN Tail(packets) ELSE packets)
          /\ Untouched' = (IF halfway THEN Tail(added) ELSE added)
      <4> HIDE DEF added
      <4>1. fifos'.out = added /\ work' = work /\ peer'.uses = peer.uses
        BY <2>1 DEF X0Inv
      <4>2. added = Append(packets, packet) /\ Len(packets) < 2
        BY <2>1, <2>8 DEF added, X0!Stored
      <4> QED
        BY <2>8, <4>1, <4>2 DEF X0Inv, X0Order, Untouched
    <3> HIDE DEF packets, added, n, count, halfway
    <3>2. Untouched' = Append(Untouched, packet)
      BY <1>0, <2>2, <3>1, HeadTailAppend
    <3>3. Len(Untouched) < 2
      <4>1. packets # <<>> => Len(Tail(packets)) = Len(packets) - 1
        BY <1>0, TailOf
      <4> QED
        BY <1>0, <3>1, <4>1
    <3> QED
      BY <1>0, <2>4, <2>5, <2>8, <3>1, <3>2, <3>3
  <2> QED
    BY <2>6, <2>7, <2>8
<1>5. CASE X0!Takes \/ UNCHANGED x0Vars
  BY <1>2, <1>5 DEF X0!Takes, X0!HostTakes, X0!HostTakesReply, x0Vars, X0Inv
<1>6. CASE \E request \in X0!Requests : X0!HostSetup(request)
  BY <1>2, <1>6 DEF X0!HostSetup, X0Inv
<1>7. CASE \E coding \in {X0Coding} : X0!HostData(coding)
  BY <1>2, <1>7 DEF X0!HostData, X0Inv
<1>8. CASE X0!Active
  <2> DEFINE then == IF packets = <<>> THEN "active" ELSE "idle"
  <2>1. /\ then \in {"active", "idle", "receive"} /\ X0!SetupUpdate(then)
        /\ then = "idle" => pair' = peer.uses
        /\ peer' = peer /\ work.pc = "active"
    BY <1>8 DEF X0!Active
  <2> HIDE DEF then
  <2>2. /\ work'.pc \in {"waits", then} /\ work'.then = then /\ work'.loop = work.loop
        /\ fifos'.out = fifos.out /\ X0Shapes'
    <3>1. /\ work' = [pc |-> work'.pc, then |-> then, frame |-> work.frame, loop |-> hand]
          /\ work'.pc \in {"waits", then}
          /\ fifos' = [in |-> fifos.in, out |-> packets, setup |-> fifos'.setup,
                       data |-> fifos'.data, reply |-> fifos'.reply]
      BY <1>3, <2>1
    <3> QED
      BY <2>1, <3>1 DEF X0Inv
  <2>3. then \in {"active", "idle"}
    BY DEF then
  <2> QED
    BY <1>1, <2>1, <2>2, <2>3
<1>9. CASE X0!Answered
  BY <1>1, <1>9 DEF X0!Answered, X0Inv, X0Types, X0Order
<1>10. CASE X0!Poll
  <2>1. X0!SetupUpdate("receive") /\ pair' = pair /\ peer' = peer /\ work.pc = "idle"
    BY <1>10 DEF X0!Poll
  <2> QED
    BY <1>1, <1>3, <2>1 DEF X0Inv, X0Order
<1>11. CASE X0!Receive
  <2> DEFINE found == X0!Found
             behind == X0!LeftBehind
             after == X0!AfterRead
  <2>1. /\ work.pc = "receive" /\ peer' = peer /\ pair' = pair
        /\ fifos' = [fifos EXCEPT !.out = behind]
        /\ work' = IF found = <<>> THEN [work EXCEPT !.pc = "idle", !.frame = after]
                   ELSE [work EXCEPT !.pc = "hand", !.loop = found]
    BY <1>11 DEF X0!Receive
  <2>2. /\ pair = peer.uses /\ hand = <<>> /\ Untouched = packets /\ n = Len(stream)
        /\ Chain(n, packets, count)
    <3>1. /\ pair = peer.uses /\ hand = <<>> /\ Untouched = packets
          /\ Chain(n, Untouched, count)
      BY <2>1 DEF X0Inv, X0Order, Untouched
    <3>2. n = Len(stream)
      <4> HIDE DEF stream
      <4>1. Len(hand) = 0
        BY <3>1, EmptySeq, Zenon
      <4> HIDE DEF hand
      <4> QED
        BY <1>0, <4>1
    <3> QED
      BY <3>1, <3>2
  <2>3. /\ work'.loop = found /\ fifos'.out = behind /\ X0Shapes'
        /\ work'.then = work.then
        /\ work'.pc = IF found = <<>> THEN "idle" ELSE "hand"
    <3> HIDE DEF found, behind, after
    <3> QED
      BY <2>1, <2>2 DEF X0Inv
  <2>4. SUFFICES /\ found \in Seq(Nat) /\ behind \in Seq(Seq(Nat)) /\ From(n, found)
                 /\ Chain(n + Len(found), Untouched', count)
                 /\ pair = "buffer" => Len(behind) <= 1
                 /\ pair # "buffer" /\ found # <<>> => behind # <<>>
    <3> HIDE DEF found, behind, n, stream, hand, packets
    <3>1. X0Types'
      BY <1>0, <2>1, <2>3, <2>4 DEF X0Inv, X0Types
    <3>2. peer'.handed = stream /\ peer'.sent = count /\ peer'.uses = peer.uses
      BY <2>1 DEF stream
    <3>3. From(Len(peer'.handed), work'.loop)
      BY <2>2, <2>3, <2>4, <3>2
    <3>4. Chain(Len(peer'.handed) + Len(work'.loop), Untouched', peer'.sent)
      BY <2>2, <2>3, <2>4, <3>2
    <3>5. \A k \in 1 .. Len(stream) : stream[k] = k
      BY DEF X0Inv, X0Order, stream
    <3> QED
      BY <2>1, <2>2, <2>3, <2>4, <3>1, <3>2, <3>3, <3>4, <3>5 DEF X0Inv, X0Order
  <2>5. CASE packets = <<>>
    <3>1. found = <<>>
      BY <2>5 DEF X0!Found
    <3>2. behind = <<>>
      <4>1. pair = "buffer" => X0!Fill = Len(found)
        BY <2>5, <3>1, EmptySeq, Zenon DEF X0!Fill
      <4> QED
        BY <2>5, <4>1 DEF X0!LeftBehind
    <3>3. Untouched' = behind
      BY <2>3, <3>1 DEF Untouched
    <3>4. n + Len(found) = n /\ From(n, found) /\ found \in Seq(Nat) /\ Len(behind) <= 1
      <4>1. Len(<<>>) = 0 /\ <<>> \in Seq(Nat)
        OBVIOUS
      <4> HIDE DEF found, behind, n
      <4> QED
        BY <1>0, <3>1, <3>2, <4>1 DEF From
    <3>5. behind \in Seq(Seq(Nat)) /\ Chain(n, behind, count)
      BY <1>0, <2>2, <2>5, <3>2
    <3> HIDE DEF found, behind, n
    <3> QED
      BY <3>1, <3>3, <3>4, <3>5
  <2>6. CASE packets # <<>> /\ pair # "buffer"
    <3>1. found = Head(packets) /\ behind = packets
      BY <2>6 DEF X0!Found, X0!LeftBehind
    <3>2. /\ From(n, Head(packets)) /\ Chain(n + Len(Head(packets)), Tail(packets), count)
          /\ Head(packets) \in Seq(Nat)
      <4> HIDE DEF n, packets, count
      <4> QED
        BY <1>0, <2>2, <2>6, ChainTail, TailOf
    <3>3. CASE found # <<>>
      <4>1. Untouched' = Tail(packets)
        BY <2>1, <2>2, <2>3, <2>6, <3>1, <3>3 DEF Untouched
      <4> QED
        BY <1>0, <2>6, <3>1, <3>2, <4>1
    <3>4. CASE found = <<>>
      <4>1. Untouched' = packets
        BY <2>3, <3>1, <3>4 DEF Untouched
      <4>2. n + Len(found) = n
        <5>1. Len(found) = 0
          BY <3>4, EmptySeq, Zenon
        <5> HIDE DEF found, n
        <5> QED
          BY <1>0, <5>1
      <4> HIDE DEF n
      <4> QED
        BY <1>0, <2>2, <2>6, <3>1, <3>2, <3>4, <4>1, <4>2
    <3> QED
      BY <3>3, <3>4
  <2>7. CASE packets # <<>> /\ pair = "buffer"
    <3> DEFINE first == packets[1]
               fill == Len(first)
               m == IF fill < PACKET THEN fill ELSE PACKET
               over == SubSeq(first, m + 1, fill)
    <3>1. first = Head(packets) /\ first \in Seq(Nat) /\ fill \in Nat
      <4> HIDE DEF packets
      <4> QED
        BY <1>0, <2>7, TailOf
    <3>2. From(n, first) /\ count = n + fill
      <4>1. Len(packets) <= 1
        BY <2>2, <2>7 DEF X0Inv, X0Order
      <4>2. Len(packets) # 2
        <5> DEFINE l == Len(packets)
        <5>1. l \in Nat /\ l <= 1
          BY <1>0, <4>1
        <5> HIDE DEF l
        <5>2. l # 2
          BY <5>1
        <5> QED
          BY <5>2, Zenon DEF l
      <4> QED
        BY <2>2, <2>7, <4>2, Zenon DEF Chain
    <3>3. /\ found = SubSeq(first, 1, m)
          /\ behind = IF fill = Len(found) THEN <<>> ELSE <<SubSeq(first, Len(found) + 1, fill)>>
      BY <2>7, <3>1 DEF X0!Found, X0!Fill, X0!LeftBehind
    <3>4. m \in Nat /\ m <= fill
      BY <3>1 DEF UsbAssumption
    <3> HIDE DEF first, found, behind, packets, n, count
    <3>5. /\ found \in Seq(Nat) /\ Len(found) = m
          /\ \A k \in 1 .. m : found[k] = first[k]
      <4> HIDE DEF m
      <4>1. \A k \in 1 .. m : first[k] \in Nat
        BY <3>1, <3>4
      <4>2. 1 \in Int /\ m \in Int
        BY <3>4
      <4>3. /\ found \in Seq(Nat) /\ Len(found) = (IF 1 <= m THEN m - 1 + 1 ELSE 0)
            /\ \A k \in 1 .. m - 1 + 1 : found[k] = first[1 + k - 1]
        <5>1. /\ SubSeq(first, 1, m) \in Seq(Nat)
              /\ Len(SubSeq(first, 1, m)) = (IF 1 <= m THEN m - 1 + 1 ELSE 0)
              /\ \A k \in 1 .. m - 1 + 1 : SubSeq(first, 1, m)[k] = first[1 + k - 1]
          BY <4>1, <4>2, SubSeqProperties
        <5> QED
          BY <3>3, <5>1, Zenon
      <4>4. Len(found) = m
        <5> DEFINE l == Len(found)
        <5>1. l = IF 1 <= m THEN m - 1 + 1 ELSE 0
          BY <4>3
        <5> HIDE DEF l
        <5>2. l = m
          BY <3>4, <5>1
        <5> QED
          BY <5>2 DEF l
      <4>5. ASSUME NEW k \in 1 .. m PROVE found[k] = first[k]
        <5>1. 1 + k - 1 = k /\ k \in 1 .. m - 1 + 1
          BY <3>4
        <5> QED
          BY <4>3, <5>1
      <4> QED
        BY <4>3, <4>4, <4>5
    <3>6. From(n, found)
      BY <3>1, <3>2, <3>4, <3>5 DEF From
    <3>7. Untouched' = behind
      BY <2>1, <2>2, <2>3, <2>7 DEF Untouched
    <3>8. CASE fill = m
      <4>1. behind = <<>> /\ count = n + Len(found)
        BY <3>2, <3>3, <3>5, <3>8
      <4>2. Len(behind) <= 1 /\ behind \in Seq(Seq(Nat))
        BY <4>1
      <4> QED
        BY <2>7, <3>5, <3>6, <3>7, <4>1, <4>2 DEF Chain
    <3>9. CASE fill # m
      <4>1. behind = <<over>>
        BY <3>3, <3>5, <3>9
      <4>2. /\ over \in Seq(Nat) /\ Len(over) = fill - m
            /\ \A k \in 1 .. fill - m : over[k] = first[m + k]
        <5> HIDE DEF m
        <5>1. m + 1 \in 1 .. fill + 1 /\ fill \in m .. fill
          BY <3>1, <3>4
        <5> QED
          BY <3>1, <3>4, <5>1, SubSeqProperties
      <4>3. From(n + m, over) /\ count = n + m + Len(over)
        <5> HIDE DEF over, m
        <5>1. ASSUME NEW k \in 1 .. Len(over) PROVE over[k] = n + m + k
          <6>1. k \in 1 .. fill - m /\ m + k \in 1 .. fill
            BY <3>1, <3>4, <4>2
          <6>2. first[m + k] = n + (m + k)
            BY <3>2, <6>1 DEF From
          <6> QED
            BY <1>0, <3>4, <4>2, <6>1, <6>2
        <5>2. count = n + m + Len(over)
          <6>1. Len(over) = fill - m
            BY <4>2
          <6> HIDE DEF fill
          <6> QED
            BY <1>0, <3>1, <3>2, <3>4, <6>1
        <5> QED
          BY <5>1, <5>2 DEF From
      <4> HIDE DEF over, m
      <4>4. /\ behind \in Seq(Seq(Nat)) /\ Len(behind) = 1 /\ Len(behind) <= 1
            /\ behind[1] = over
        BY <4>1, <4>2
      <4> QED
        BY <2>7, <3>5, <3>6, <3>7, <4>3, <4>4 DEF Chain
    <3> QED
      BY <3>8, <3>9
  <2> QED
    BY <2>5, <2>6, <2>7
<1>12. CASE X0!Hand
  <2> DEFINE last == Len(hand) = 1
             byte == Head(hand)
             more == Append(stream, byte)
             rest == Tail(hand)
             after == X0!AfterRead
  <2>1. /\ work.pc = "hand" /\ peer' = [peer EXCEPT !.handed = more] /\ pair' = pair
        /\ work' = IF last THEN [work EXCEPT !.pc = "idle", !.loop = <<>>, !.frame = after]
                   ELSE [work EXCEPT !.loop = rest]
        /\ fifos' = IF last /\ pair # "buffer" THEN [fifos EXCEPT !.out = Tail(packets)] ELSE fifos
    BY <1>12 DEF X0!Hand
  <2>2. /\ hand # <<>> /\ pair = peer.uses /\ (peer.uses # "buffer" => packets # <<>>)
        /\ From(Len(stream), hand)
        /\ \A k \in 1 .. Len(stream) : stream[k] = k
        /\ Chain(n, Untouched, count)
    BY <2>1 DEF X0Inv, X0Order
  <2>3. /\ rest \in Seq(Nat) /\ Len(rest) = Len(hand) - 1 /\ Len(hand) \in Nat \ {0}
        /\ byte = hand[1] /\ byte \in Nat
        /\ \A k \in 1 .. Len(rest) : k + 1 \in 1 .. Len(hand) /\ rest[k] = hand[k + 1]
    <3>1. hand \in Seq(Nat) /\ hand # <<>>
      BY <1>0, <2>2
    <3> HIDE DEF hand
    <3> QED
      BY <3>1, TailOf
  <2>4. /\ more \in Seq(Nat) /\ Len(more) = Len(stream) + 1 /\ more[Len(stream) + 1] = byte
        /\ \A k \in 1 .. Len(stream) : more[k] = stream[k]
    <3> HIDE DEF stream, byte
    <3> QED
      BY <1>0, <2>3, AppendOf
  <2>5. \A k \in 1 .. Len(more) : more[k] = k
    <3> HIDE DEF stream, hand, more, byte
    <3>1. byte = Len(stream) + 1
      <4>1. 1 \in 1 .. Len(hand)
        BY <2>3
      <4> QED
        BY <1>0, <2>2, <2>3, <4>1 DEF From
    <3>2. ASSUME NEW k \in 1 .. Len(more) PROVE more[k] = k
      <4>1. CASE k \in 1 .. Len(stream)
        BY <2>2, <2>4, <4>1
      <4>2. CASE k \notin 1 .. Len(stream)
        <5>1. k = Len(stream) + 1
          BY <1>0, <2>4, <4>2
        <5> QED
          BY <2>4, <3>1, <5>1
      <4> QED
        BY <4>1, <4>2
    <3> QED
      BY <3>2
  <2>6. From(Len(more), rest) /\ n = Len(more) + Len(rest)
    <3> HIDE DEF stream, hand, more, byte, rest
    <3>1. ASSUME NEW k \in 1 .. Len(rest) PROVE rest[k] = Len(more) + k
      <4>1. k + 1 \in 1 .. Len(hand) /\ rest[k] = hand[k + 1] /\ k \in Nat
        BY <2>3
      <4>2. hand[k + 1] = Len(stream) + (k + 1)
        BY <2>2, <4>1 DEF From
      <4>3. Len(more) = Len(stream) + 1
        BY <2>4
      <4> QED
        BY <1>0, <4>1, <4>2, <4>3
    <3>2. n = Len(more) + Len(rest)
      <4>1. Len(more) = Len(stream) + 1 /\ Len(rest) = Len(hand) - 1
        BY <2>3, <2>4
      <4> QED
        BY <1>0, <4>1
    <3> QED
      BY <3>1, <3>2 DEF From
  <2>7. /\ peer'.handed = more /\ peer'.uses = peer.uses /\ peer'.sent = count
        /\ X0Shapes' /\ pair' = pair
    <3> HIDE DEF more, rest, after, last
    <3> QED
      BY <2>1 DEF X0Inv
  <2>8. CASE last
    <3>1. rest = <<>>
      BY <2>3, <2>8, EmptySeq
    <3>2. /\ work'.pc = "idle" /\ work'.loop = rest /\ work'.then = work.then
          /\ fifos'.out = IF pair # "buffer" THEN Tail(packets) ELSE packets
      <4> HIDE DEF more, after, rest
      <4> QED
        BY <2>1, <2>8, <3>1 DEF X0Inv
    <3>3. Untouched' = Untouched /\ fifos'.out = Untouched
      BY <2>1, <2>2, <2>7, <3>2 DEF Untouched
    <3>4. peer.uses = "buffer" => Len(fifos'.out) <= 1
      BY <2>2, <3>2 DEF X0Inv, X0Order
    <3> HIDE DEF more, rest, n, stream, hand
    <3>5. Chain(Len(peer'.handed) + Len(work'.loop), Untouched', peer'.sent)
      BY <2>2, <2>6, <2>7, <3>2, <3>3
    <3>6. From(Len(peer'.handed), work'.loop)
      BY <2>6, <2>7, <3>2
    <3>7. X0Types'
      BY <1>0, <2>3, <2>4, <2>7, <3>2, <3>3 DEF X0Inv, X0Types
    <3> QED
      BY <2>2, <2>5, <2>7, <3>1, <3>2, <3>4, <3>5, <3>6, <3>7 DEF X0Inv, X0Order
  <2>9. CASE ~last
    <3>1. rest # <<>>
      <4> DEFINE m == Len(hand)
      <4>1. m \in Nat \ {0} /\ Len(rest) = m - 1
        BY <2>3
      <4>2. m # 1
        BY <2>9
      <4> HIDE DEF m, rest
      <4>3. Len(rest) # 0
        BY <4>1, <4>2
      <4> QED
        BY <4>3, EmptySeq, Zenon
    <3>2. /\ work'.pc = "hand" /\ work'.loop = rest /\ work'.then = work.then
          /\ fifos'.out = packets
      <4> HIDE DEF more, after, rest
      <4> QED
        BY <2>1, <2>9 DEF X0Inv
    <3>3. Untouched' = Untouched
      BY <2>1, <2>7, <3>2 DEF Untouched
    <3> HIDE DEF more, rest, n, stream, hand
    <3> QED
      BY <1>0, <2>1, <2>2, <2>3, <2>4, <2>5, <2>6, <2>7, <3>1, <3>2, <3>3 DEF X0Inv, X0Types, X0Order
  <2> QED
    BY <2>8, <2>9
<1>13. CASE X0!Write
  <2>1. work.pc = "idle" /\ pair' = pair
    BY <1>13 DEF X0!Write
  <2>2. fifos' = fifos \/ \E q : fifos' = [fifos EXCEPT !.in = q]
    BY <1>13, Zenon DEF X0!Write
  <2>3. \E f : work' = [work EXCEPT !.frame = f]
    BY <1>13, Zenon DEF X0!Write
  <2>4. \E w, c : peer' = [peer EXCEPT !.written = w, !.closed = c]
    BY <1>13, Zenon DEF X0!Write
  <2> QED
    BY <1>2, <2>1, <2>2, <2>3, <2>4 DEF X0Inv
<1>14. CASE \E len \in FrameLengths : X0!StartFrame(len)
  BY <1>2, <1>14 DEF X0!StartFrame, X0Inv
<1> QED
  BY <1>4, <1>5, <1>6, <1>7, <1>8, <1>9, <1>10, <1>11, <1>12, <1>13, <1>14
     DEF X0Step, X0!Next, X0!Host, X0!Driver, X0!Proceeds

\* That invariant holds when the program starts.
LEMMA X0FromStart == ASSUME X0!Init PROVE X0Inv
<1>1. /\ work = [pc |-> "active", then |-> "active", frame |-> X0!NoFrame, loop |-> <<>>]
      /\ fifos = [in |-> <<>>, out |-> <<>>, setup |-> "none", data |-> <<>>, reply |-> <<>>]
      /\ peer.sent = 0 /\ peer.handed = <<>>
      /\ peer = [uses |-> peer.uses, sent |-> peer.sent, setups |-> peer.setups,
                 gives |-> peer.gives, written |-> peer.written, handed |-> peer.handed,
                 taken |-> peer.taken, closed |-> peer.closed]
  BY DEF X0!Init
<1>2. /\ X0Shapes /\ work.pc = "active" /\ work.then = "active" /\ work.loop = <<>>
      /\ fifos.out = <<>>
  BY <1>1 DEF X0Shapes
<1>3. /\ Len(<<>>) = 0 /\ 1 .. 0 = {} /\ <<>> \in Seq(Nat) /\ <<>> \in Seq(Seq(Nat))
      /\ 0 \in Nat /\ 0 + 0 = 0
  OBVIOUS
<1>4. X0Types
  BY <1>1, <1>2, <1>3 DEF X0Types
<1>5. /\ From(Len(peer.handed), work.loop) /\ Untouched = <<>>
      /\ Chain(Len(peer.handed) + Len(work.loop), Untouched, peer.sent)
      /\ \A k \in 1 .. Len(peer.handed) : peer.handed[k] = k
      /\ Len(fifos.out) <= 1
  BY <1>1, <1>2, <1>3 DEF From, Chain, Untouched
<1> QED
  BY <1>2, <1>4, <1>5 DEF X0Inv, X0Order

-----------------------------------------------------------------------------
(* The USB port of the QSC60x5.                                            *)

X5Shapes ==
  /\ ep0 = [setup |-> ep0.setup, coding |-> ep0.coding, reply |-> ep0.reply]
  /\ ctl = [stage |-> ctl.stage, set |-> ctl.set, count |-> ctl.count]
  /\ out = [buf |-> out.buf, got |-> out.got, ready |-> out.ready]
  /\ in = [len |-> in.len, left |-> in.left]
  /\ frame = [len |-> frame.len, at |-> frame.at]
  /\ loop = [i |-> loop.i, num_bytes_read |-> loop.num_bytes_read]

\* The requests that no data of the host follows.
WithoutData == {"GET_LINE_CODING", "CLEAR_FEATURE", "other"}

\* How far a control transfer is, at each stage the host knows: its setup packet or its
\* data waits in the endpoint, or has been dealt with; and the coding in force is the one
\* set last, but for the time a new one is on its way.
SetupInv ==
  /\ "setup" \in done <=> ep0.setup # "none"
  /\ ctl.stage = "idle" =>
       /\ ep0.setup = "none" /\ ep0.reply = "none" /\ ~setup_data_stage_flag
       /\ line_coding = ctl.set
  /\ ctl.stage = "SET_LINE_CODING" =>
       /\ ep0.reply = "none"
       /\ \/ ep0.setup = "SET_LINE_CODING" /\ ~setup_data_stage_flag
          \/ ep0.setup = "none" /\ setup_data_stage_flag
  /\ ctl.stage = "status" =>
       \/ /\ ep0.setup = "data" /\ ep0.coding = ctl.set /\ ep0.reply = "none"
          /\ setup_data_stage_flag
       \/ /\ ep0.setup = "none" /\ ep0.reply = "empty"
          /\ ~setup_data_stage_flag /\ line_coding = ctl.set
  /\ ctl.stage \in WithoutData =>
       /\ ~setup_data_stage_flag /\ line_coding = ctl.set
       /\ \/ ep0.setup \in WithoutData /\ ep0.reply = "none"
          \/ ep0.setup = "none" /\ ep0.reply = "empty"
  /\ ctl.stage \in Requests \cup {"idle", "status"}
  /\ setup_data_stage_flag \in BOOLEAN

X5Step == Next \/ UNCHANGED vars

\* Every step of that port keeps the shape of its records.
LEMMA X5ShapesKept == ASSUME X5Shapes, X5Step PROVE X5Shapes'
<1> USE DEF X5Shapes
<1>1. ASSUME NEW n \in 1 .. PACKET, HostSends(n) PROVE X5Shapes'
  BY <1>1 DEF HostSends, progVars
<1>2. CASE HostTakes
  BY <1>2 DEF HostTakes, progVars
<1>3. ASSUME NEW request, HostSetup(request) PROVE X5Shapes'
  BY <1>3 DEF HostSetup, progVars
<1>4. ASSUME NEW coding, HostData(coding) PROVE X5Shapes'
  BY <1>4 DEF HostData, progVars
<1>5. CASE HostTakesReply
  BY <1>5 DEF HostTakesReply, progVars
<1>6. CASE Read
  <2>1. ep0' = ep0 \/ \E reply : ep0' = [ep0 EXCEPT !.setup = "none", !.reply = reply]
    BY <1>6, Zenon DEF Read, HandleSetup
  <2>2. (out' = out /\ loop' = loop) \/
        (out' = [buf |-> OtherBuffer, got |-> 0, ready |-> TRUE]
           /\ loop' = [i |-> 0, num_bytes_read |-> out.got])
    BY <1>6 DEF Read, SetupRxDMA, ep_enable_ready
  <2>3. UNCHANGED <<frame, in, ctl>>
    BY <1>6 DEF Read, hostVars
  <2> QED
    BY <2>1, <2>2, <2>3
<1>7. CASE Hand
  BY <1>7 DEF Hand, coreVars, hostVars, NoLoop
<1>8. CASE WriteByte
  <2>1. frame' = NoFrame \/ frame' = [frame EXCEPT !.at = frame.at + 1]
    BY <1>8 DEF WriteByte
  <2>2. in' = in \/ in' = [len |-> tx_buf_index + 1, left |-> tx_buf_index + 1]
    BY <1>8 DEF WriteByte, SetupTxDMA
  <2>3. UNCHANGED <<loop, out, ep0, ctl>>
    BY <1>8 DEF WriteByte, hostVars
  <2> QED
    BY <2>1, <2>2, <2>3 DEF NoFrame
<1>9. ASSUME NEW len, StartFrame(len) PROVE X5Shapes'
  BY <1>9 DEF StartFrame, coreVars, hostVars
<1>10. CASE UNCHANGED vars
  BY <1>10 DEF vars, coreVars, hostVars, progVars
<1> QED
  BY <1>1, <1>2, <1>3, <1>4, <1>5, <1>6, <1>7, <1>8, <1>9, <1>10
     DEF X5Step, Next, Host, Driver, ReadNothing

\* Every step of that port keeps the control transfer and the driver together.
LEMMA SetupKept == ASSUME X5Shapes, SetupInv, X5Step PROVE SetupInv'
<1>0. X5Shapes'
  BY X5ShapesKept
<1>1. ASSUME UNCHANGED <<ep0, ctl, setup_data_stage_flag, line_coding>>,
             "setup" \in done <=> "setup" \in done'
      PROVE  SetupInv'
  BY <1>1 DEF SetupInv
<1>2. ASSUME NEW n \in 1 .. PACKET, HostSends(n) PROVE SetupInv'
  BY <1>1, <1>2 DEF HostSends
<1>3. CASE HostTakes
  BY <1>1, <1>3 DEF HostTakes, usbVars
<1>4. ASSUME NEW request \in Requests, HostSetup(request) PROVE SetupInv'
  BY <1>4 DEF HostSetup, usbVars, SetupInv, X5Shapes, Requests, WithoutData
<1>5. ASSUME NEW coding, HostData(coding) PROVE SetupInv'
  BY <1>5 DEF HostData, usbVars, SetupInv, X5Shapes, Requests, WithoutData
<1>6. CASE HostTakesReply
  <2>1. /\ ctl'.stage = "idle" /\ ctl'.set = ctl.set
        /\ ep0'.reply = "none" /\ ep0'.setup = ep0.setup
        /\ "setup" \in done <=> "setup" \in done'
        /\ UNCHANGED <<setup_data_stage_flag, line_coding>>
        /\ ep0.reply # "none" /\ ctl.stage \notin {"idle", "SET_LINE_CODING"}
    BY <1>6 DEF HostTakesReply, usbVars, X5Shapes
  <2> QED
    BY <2>1 DEF SetupInv, Requests, WithoutData
<1>7. CASE Read
  <2>1. /\ ctl' = ctl /\ done' = done \ (Which \cup Rearmed \cup Flushed)
        /\ IF "setup" \in Which THEN HandleSetup
           ELSE UNCHANGED <<setup_data_stage_flag, line_coding, ep0>>
    BY <1>7 DEF Read, hostVars, DoneLeft, ep_clear_done_status
  <2>2. "setup" \in done' <=> "setup" \in done /\ "setup" \notin Which
    BY <2>1 DEF Rearmed, Flushed
  <2>3. CASE "setup" \notin Which
    BY <1>1, <2>1, <2>2, <2>3
  <2>4. CASE "setup" \in Which
    <3>1. /\ ep0.setup # "none" /\ "setup" \notin done'
      BY <2>2, <2>4 DEF Which, SetupInv
    <3>2. /\ setup_data_stage_flag' = (~setup_data_stage_flag /\ ep0.setup = "SET_LINE_CODING")
          /\ line_coding' = IF setup_data_stage_flag THEN ep0.coding ELSE line_coding
          /\ ep0'.setup = "none" /\ ep0'.coding = ep0.coding
          /\ ep0'.reply = IF ~setup_data_stage_flag /\ ep0.setup = "SET_LINE_CODING" THEN "none"
                          ELSE "empty"
      BY <2>1, <2>4 DEF HandleSetup, AwaitsData, X5Shapes
    <3> QED
      BY <2>1, <3>1, <3>2 DEF SetupInv, Requests, WithoutData
  <2> QED
    BY <2>3, <2>4
<1>8. CASE Hand
  BY <1>1, <1>8 DEF Hand, coreVars, hostVars
<1>9. CASE WriteByte
  BY <1>1, <1>9 DEF WriteByte, hostVars, SetupTxDMA, ep_clear_done_status
<1>10. ASSUME NEW len, StartFrame(len) PROVE SetupInv'
  BY <1>1, <1>10 DEF StartFrame, coreVars, hostVars, usbVars
<1>11. CASE UNCHANGED vars
  BY <1>1, <1>11 DEF vars, coreVars, hostVars, usbVars
<1> QED
  BY <1>2, <1>3, <1>4, <1>5, <1>6, <1>7, <1>8, <1>9, <1>10, <1>11
     DEF X5Step, Next, Host, Driver, ReadNothing

\* How long the three buffers are together.
RamSize == TX_SIZE + RX_SIZE + RX_SIZE

\* What a cell that is to be handed on holds: the byte of the host, or one that was
\* spilt over it.
RxByte(v, k, spill) == v = <<"rx", k>> \/ \E j \in spill : v = <<"tx", j>>

\* What a byte the host took is, and where one that it is to take lies: a byte that is
\* not spilt lies in the transmit buffer, where nothing is received.
TxByte(v, k, spill) == v = <<"tx", k>> \/ k \in spill
TxCell(p, k, mem, spill) == (p < TX_SIZE /\ mem[p] = <<"tx", k>>) \/ k \in spill

Bytes == {"old", "rx", "tx"} \X Nat

DataTypes ==
  /\ ram \in [Ram -> Bytes]
  /\ USB_rx_buffer \in {rx_buffer1, rx_buffer2} /\ out.buf = USB_rx_buffer
  /\ out.got \in 0 .. RX_SIZE /\ out.ready \in BOOLEAN
  /\ in.len \in 0 .. RamSize /\ in.left \in 0 .. in.len
  /\ wait_for_tx_done \in BOOLEAN
  /\ sent \in Nat /\ written \in Nat /\ taken \in Seq(Bytes) /\ handed \in Seq(Bytes)

\* The frame being written, and the transfer the write waits for: there is none unless a
\* write waits, and while it waits the done bit says whether it has ended.
FrameInv ==
  /\ frame.len \in Nat /\ frame.at \in Nat
  /\ frame # NoFrame => frame.len \in 2 .. RamSize /\ frame.at < frame.len
  /\ tx_buf_index = frame.at
  /\ IF wait_for_tx_done THEN ("tx" \in done <=> in.left = 0) /\ frame.at = 0
                         ELSE "tx" \notin done /\ in.left = 0

\* Bytes that were written follow the ones taken: the part of the transfer not yet
\* taken, or the frame in the buffer.
TxInv ==
  /\ \A k \in 1 .. Len(taken) : TxByte(taken[k], k, spilt)
  /\ \A k \in 1 .. in.left :
       TxCell(in.len - in.left + k - 1, Len(taken) + k, ram, spilt)
  /\ \A k \in 1 .. tx_buf_index : TxCell(k - 1, Len(taken) + in.left + k, ram, spilt)
  /\ written = Len(taken) + in.left + tx_buf_index

\* The receive buffer at hand, if there is one, is the other one.  A buffer is noted, or
\* its endpoint done, only while it holds something and the controller keeps off.
LoopInv ==
  /\ loop.i \in Nat /\ loop.num_bytes_read \in Nat /\ rx_index = loop.i
  /\ IF loop = NoLoop THEN process_rx_buffer \in {NULL, USB_rx_buffer}
     ELSE /\ loop.num_bytes_read \in 1 .. RX_SIZE /\ loop.i < loop.num_bytes_read
          /\ process_rx_buffer = OtherBuffer /\ ~wait_for_tx_done
  /\ "rx" \in done \/ (loop = NoLoop /\ process_rx_buffer # NULL) => ~out.ready
  /\ ~out.ready => out.got >= 1

\* Bytes that were sent follow the ones handed on: the rest of the buffer at hand, then
\* the other one.
AtHand == loop.num_bytes_read - loop.i
RxInv ==
  /\ \A k \in 1 .. Len(handed) : RxByte(handed[k], k, spilt)
  /\ \A k \in 1 .. AtHand :
       RxByte(ram[OtherBuffer + loop.i + k - 1], Len(handed) + k, spilt)
  /\ \A k \in 1 .. out.got :
       RxByte(ram[USB_rx_buffer + k - 1], Len(handed) + AtHand + k, spilt)
  /\ sent = Len(handed) + AtHand + out.got

DataInv == DataTypes /\ FrameInv /\ TxInv /\ LoopInv /\ RxInv
X5Inv == X5Shapes /\ DataInv

\* Where the buffers lie.
LEMMA Places ==
  ASSUME UsbAssumption, USB_rx_buffer \in {rx_buffer1, rx_buffer2}
  PROVE  /\ TX_SIZE \in Nat /\ RX_SIZE \in Nat /\ PACKET \in Nat \ {0}
         /\ USB_rx_buffer \in Nat /\ OtherBuffer \in {rx_buffer1, rx_buffer2}
         /\ OtherBuffer \in Nat /\ USB_rx_buffer # NULL /\ OtherBuffer # NULL
         /\ \/ USB_rx_buffer = TX_SIZE /\ OtherBuffer = TX_SIZE + RX_SIZE
            \/ USB_rx_buffer = TX_SIZE + RX_SIZE /\ OtherBuffer = TX_SIZE
         /\ Ram = 0 .. (RamSize - 1) /\ RamSize = TX_SIZE + RX_SIZE + RX_SIZE
BY DEF RamSize, UsbAssumption, OtherBuffer, rx_buffer1, rx_buffer2, NULL, Ram

\* How far the buffers are used.
LEMMA Extents ==
  ASSUME UsbAssumption, X5Inv
  PROVE  /\ tx_buf_index \in 0 .. RamSize /\ AtHand \in Nat /\ loop.i \in Nat
         /\ loop.i + AtHand <= RX_SIZE
         /\ frame # NoFrame => tx_buf_index + 1 <= frame.len /\ frame.len <= RamSize
         /\ loop = NoLoop <=> AtHand = 0
<1>1. RamSize \in Nat /\ RX_SIZE \in Nat
  BY DEF UsbAssumption, RamSize
<1>2. /\ tx_buf_index \in 0 .. RamSize
      /\ frame # NoFrame => tx_buf_index + 1 <= frame.len /\ frame.len <= RamSize
  <2>1. frame = NoFrame => frame.at = 0
    BY DEF NoFrame
  <2> QED
    BY <1>1, <2>1 DEF X5Inv, DataInv, FrameInv
<1>3. CASE loop = NoLoop
  <2>1. loop.i = 0 /\ loop.num_bytes_read = 0
    BY <1>3 DEF NoLoop
  <2> QED
    BY <1>1, <1>2, <1>3, <2>1 DEF AtHand
<1>4. CASE loop # NoLoop
  BY <1>1, <1>2, <1>4 DEF X5Inv, DataInv, LoopInv, AtHand
<1> QED
  BY <1>3, <1>4

\* What is received keeps the data in its place: a packet goes behind the bytes of the
\* buffer it is for.
LEMMA HostSendsKeeps ==
  ASSUME UsbAssumption, X5Inv, NEW n \in 1 .. PACKET, HostSends(n)
  PROVE  DataInv'
<1> DEFINE got == out.got
           to == USB_rx_buffer + got
           ends == n < PACKET \/ got + n = RX_SIZE
<1>1. /\ TX_SIZE \in Nat /\ RX_SIZE \in Nat /\ PACKET \in Nat \ {0} /\ n \in Nat /\ n >= 1
      /\ USB_rx_buffer \in Nat /\ OtherBuffer \in Nat /\ got \in Nat /\ sent \in Nat
      /\ \/ USB_rx_buffer = TX_SIZE /\ OtherBuffer = TX_SIZE + RX_SIZE
         \/ USB_rx_buffer = TX_SIZE + RX_SIZE /\ OtherBuffer = TX_SIZE
      /\ Ram = 0 .. (TX_SIZE + RX_SIZE + RX_SIZE - 1)
      /\ got <= RX_SIZE
  BY Places DEF X5Inv, DataInv, DataTypes
<1>2. /\ out.ready /\ got + n <= RX_SIZE
      /\ ram' = [k \in Ram |-> IF k \in to .. (to + n - 1)
                               THEN <<"rx", sent + k - to + 1>> ELSE ram[k]]
      /\ out' = [buf |-> USB_rx_buffer, got |-> got + n, ready |-> ~ends]
      /\ done' = IF ends THEN done \cup {"rx"} ELSE done
      /\ sent' = sent + n
      /\ UNCHANGED <<tx_buf_index, rx_index, USB_rx_buffer, process_rx_buffer,
                     wait_for_tx_done, progVars, in, taken>>
  BY DEF HostSends, X5Inv, X5Shapes, DataInv, DataTypes
<1>3. /\ out'.buf = USB_rx_buffer /\ out'.got = got + n /\ out'.ready = ~ends
      /\ ("rx" \in done' <=> "rx" \in done \/ ends) /\ ("tx" \in done' <=> "tx" \in done)
  BY <1>2
<1>4. DataTypes'
  <2>1. ram' \in [Ram -> Bytes]
    <3>1. ASSUME NEW k \in Ram
          PROVE  (IF k \in to .. (to + n - 1) THEN <<"rx", sent + k - to + 1>> ELSE ram[k]) \in Bytes
      <4>1. CASE k \in to .. (to + n - 1)
        <5>1. sent + k - to + 1 \in Nat
          BY SMTT(30), <1>1, <4>1
        <5> QED
          BY <4>1, <5>1 DEF Bytes
      <4>2. CASE k \notin to .. (to + n - 1)
        BY <4>2 DEF X5Inv, DataInv, DataTypes
      <4> QED
        BY <4>1, <4>2
    <3> QED
      BY <1>2, <3>1
  <2>2. out'.got \in 0 .. RX_SIZE /\ sent' \in Nat /\ out'.ready \in BOOLEAN
    BY <1>1, <1>2, <1>3
  <2> QED
    BY <1>2, <1>3, <2>1, <2>2 DEF X5Inv, DataInv, DataTypes, progVars
<1>5. FrameInv'
  BY <1>2, <1>3 DEF X5Inv, DataInv, FrameInv, progVars
<1>6. LoopInv'
  <2>1. out'.got >= 1
    BY <1>1, <1>3
  <2> QED
    BY <1>2, <1>3, <2>1 DEF X5Inv, DataInv, LoopInv, progVars, OtherBuffer
<1>7. ASSUME NEW k \in Ram, k \notin to .. (to + n - 1) PROVE ram'[k] = ram[k]
  BY <1>2, <1>7
<1>8. TxInv'
  <2>1. ASSUME NEW p \in Nat, NEW k, TxCell(p, k, ram, spilt) PROVE TxCell(p, k, ram', spilt)
    <3>1. CASE k \in spilt
      BY <3>1 DEF TxCell
    <3>2. CASE k \notin spilt
      <4>1. p < TX_SIZE /\ ram[p] = <<"tx", k>>
        BY <2>1, <3>2 DEF TxCell
      <4>2. p \in Ram /\ p \notin to .. (to + n - 1)
        BY <1>1, <4>1
      <4> QED
        BY <1>7, <4>1, <4>2 DEF TxCell
    <3> QED
      BY <3>1, <3>2
  <2>2. \A k \in 1 .. in.left : in.len - in.left + k - 1 \in Nat
    <3> DEFINE len == in.len
               left == in.left
    <3>1. len \in Nat /\ left \in 0 .. len
      BY <1>1 DEF X5Inv, DataInv, DataTypes, RamSize
    <3> HIDE DEF len, left
    <3>2. \A k \in 1 .. left : len - left + k - 1 \in Nat
      BY <3>1
    <3> QED
      BY <3>2 DEF len, left
  <2>3. \A k \in 1 .. tx_buf_index : k - 1 \in Nat
    BY Extents
  <2>4. \A k \in 1 .. in.left :
          TxCell(in.len - in.left + k - 1, Len(taken) + k, ram', spilt)
    BY <2>1, <2>2, Zenon DEF X5Inv, DataInv, TxInv
  <2>5. \A k \in 1 .. tx_buf_index : TxCell(k - 1, Len(taken) + in.left + k, ram', spilt)
    BY <2>1, <2>3, Zenon DEF X5Inv, DataInv, TxInv
  <2> QED
    BY Zenon, <1>2, <2>4, <2>5 DEF X5Inv, DataInv, TxInv, progVars
<1>9. RxInv'
  <2>1. /\ AtHand \in Nat /\ loop.i \in Nat /\ loop.i + AtHand <= RX_SIZE
        /\ Len(handed) \in Nat
    BY Extents DEF X5Inv, DataInv, DataTypes
  <2>2. UNCHANGED <<AtHand, OtherBuffer, USB_rx_buffer, handed, loop>>
    BY <1>2 DEF AtHand, OtherBuffer, progVars
  <2>3. /\ \A k \in 1 .. AtHand :
              RxByte(ram[OtherBuffer + loop.i + k - 1], Len(handed) + k, spilt)
        /\ \A k \in 1 .. got :
              RxByte(ram[USB_rx_buffer + k - 1], Len(handed) + AtHand + k, spilt)
        /\ \A k \in 1 .. Len(handed) : RxByte(handed[k], k, spilt)
    BY DEF X5Inv, DataInv, RxInv
  <2>4. sent = Len(handed) + AtHand + got
    BY DEF X5Inv, DataInv, RxInv
  <2> DEFINE i == loop.i
             left == AtHand
             h == Len(handed)
  <2> HIDE DEF i, left, h, got
  <2>5. ASSUME NEW k \in 1 .. left PROVE RxByte(ram'[OtherBuffer + i + k - 1], h + k, spilt)
    <3>1. left \in Nat /\ i \in Nat /\ i + left <= RX_SIZE
      BY <2>1 DEF left, i
    <3> DEFINE p == OtherBuffer + i + k - 1
    <3>2. p \in Ram /\ p \notin to .. (to + n - 1)
      <4>1. got + n <= RX_SIZE /\ k \in Nat /\ k >= 1 /\ k <= left
        BY <1>2, <3>1
      <4>2. p \in OtherBuffer .. OtherBuffer + RX_SIZE - 1
        BY <1>1, <3>1, <4>1
      <4> HIDE DEF p
      <4> QED
        BY <1>1, <4>1, <4>2
    <3>3. RxByte(ram[p], h + k, spilt)
      BY <2>3 DEF left, i, h
    <3> HIDE DEF p
    <3>4. RxByte(ram'[p], h + k, spilt)
      BY <1>7, <3>2, <3>3
    <3> QED
      BY <3>4 DEF p
  <2>6. ASSUME NEW k \in 1 .. (got + n)
        PROVE  RxByte(ram'[USB_rx_buffer + k - 1], h + left + k, spilt)
    <3> DEFINE p == USB_rx_buffer + k - 1
    <3>1. p \in Ram /\ k \in Nat /\ h \in Nat /\ left \in Nat
      BY <1>1, <1>2, <2>1 DEF h, left
    <3>2. CASE k \in 1 .. got
      <4>1. p \notin to .. (to + n - 1)
        BY <1>1, <3>2
      <4>2. RxByte(ram[p], h + left + k, spilt)
        BY <2>3, <3>2 DEF h, left
      <4> HIDE DEF p
      <4>3. RxByte(ram'[p], h + left + k, spilt)
        BY <1>7, <3>1, <4>1, <4>2
      <4> QED
        BY <4>3 DEF p
    <3>3. CASE k \notin 1 .. got
      <4>1. p \in to .. (to + n - 1) /\ sent + p - to + 1 = h + left + k
        <5>1. sent = h + left + got
          BY <2>4 DEF h, left
        <5> QED
          BY <1>1, <3>1, <3>3, <5>1
      <4> HIDE DEF p, to
      <4>2. ram'[p] = <<"rx", sent + p - to + 1>>
        BY <1>2, <3>1, <4>1
      <4>3. RxByte(ram'[p], h + left + k, spilt)
        BY <4>1, <4>2 DEF RxByte
      <4> QED
        BY <4>3 DEF p
    <3> QED
      BY <3>2, <3>3
  <2>7. sent + n = h + left + (got + n)
    <3>1. h \in Nat /\ left \in Nat /\ sent = h + left + got
      BY <2>1, <2>4 DEF h, left
    <3> QED
      BY <1>1, <3>1
  <2>8. /\ \A k \in 1 .. AtHand :
              RxByte(ram'[OtherBuffer + loop.i + k - 1], Len(handed) + k, spilt)
        /\ \A k \in 1 .. (got + n) :
              RxByte(ram'[USB_rx_buffer + k - 1], Len(handed) + AtHand + k, spilt)
        /\ sent + n = Len(handed) + AtHand + (got + n)
    BY <2>5, <2>6, <2>7 DEF i, left, h
  <2>9. spilt' = spilt
    BY <1>2 DEF progVars
  <2> QED
    BY <1>2, <1>3, <2>2, <2>3, <2>8, <2>9 DEF RxInv
<1> QED
  BY <1>4, <1>5, <1>6, <1>8, <1>9 DEF DataInv

\* What the host takes is the front of the transfer, in its order.
LEMMA HostTakesKeeps == ASSUME UsbAssumption, X5Inv, HostTakes PROVE DataInv'
<1> DEFINE left == in.left
           len == in.len
           n == IF left < PACKET THEN left ELSE PACKET
           got == [k \in 1 .. n |-> ram[(len - left) + k - 1]]
           t == Len(taken)
           after == taken \o got
<1>1. /\ TX_SIZE \in Nat /\ PACKET \in Nat \ {0} /\ left \in Nat /\ len \in Nat
      /\ left <= len /\ len <= RamSize /\ t \in Nat /\ taken \in Seq(Bytes)
      /\ Ram = 0 .. (RamSize - 1) /\ RX_SIZE \in Nat /\ RamSize \in Nat
  BY Places DEF X5Inv, DataInv, DataTypes
<1>2. /\ left > 0 /\ taken' = after
      /\ in' = [len |-> len, left |-> left - n]
      /\ done' = (IF left = n THEN done \cup {"tx"} ELSE done)
      /\ UNCHANGED <<usbVars, progVars, out, sent>>
  BY DEF HostTakes, X5Inv, X5Shapes
<1>3. in'.len = len /\ in'.left = left - n
  BY <1>2
<1>4. n \in Nat /\ n >= 1 /\ n <= left
  BY <1>1, <1>2
<1>5. wait_for_tx_done /\ frame.at = 0 /\ tx_buf_index = 0 /\ ("tx" \in done <=> left = 0)
  BY <1>1, <1>2 DEF X5Inv, DataInv, DataTypes, FrameInv
<1>6. ("rx" \in done' <=> "rx" \in done) /\ ("tx" \in done' <=> left = n)
  BY <1>1, <1>2, <1>5
<1>7. \A k \in 1 .. left : TxCell((len - left) + k - 1, t + k, ram, spilt)
  BY DEF X5Inv, DataInv, TxInv
<1>8. /\ got \in Seq(Bytes) /\ Len(got) = n
      /\ \A k \in 1 .. n : TxByte(got[k], t + k, spilt)
  <2> HIDE DEF n, left, len, t
  <2>1. ASSUME NEW k \in 1 .. n
        PROVE  /\ TxByte(ram[(len - left) + k - 1], t + k, spilt)
               /\ ram[(len - left) + k - 1] \in Bytes
    <3>1. k \in 1 .. left /\ k \in Nat
      BY <1>1, <1>4
    <3> DEFINE p == (len - left) + k - 1
    <3>2. p \in Ram
      BY <1>1, <1>4, <3>1
    <3>3. ram[p] \in Bytes
      BY <3>2 DEF X5Inv, DataInv, DataTypes
    <3> QED
      BY <1>7, <3>1, <3>3 DEF TxCell, TxByte
  <2>2. \A k \in 1 .. n : got[k] = ram[(len - left) + k - 1]
    OBVIOUS
  <2>3. Len(got) = n /\ got \in Seq(Bytes)
    <3>1. got \in [1 .. n -> Bytes]
      BY <2>1
    <3> HIDE DEF got
    <3>2. got \in Seq(Bytes)
      BY <1>4, <3>1
    <3> QED
      BY <1>4, <3>1, <3>2, LenProperties
  <2> QED
    BY <2>1, <2>2, <2>3
<1> HIDE DEF got
<1>9. /\ after \in Seq(Bytes) /\ Len(after) = t + n
      /\ \A k \in 1 .. t + n : after[k] = IF k <= t THEN taken[k] ELSE got[k - t]
  <2>1. got \in Seq(Bytes) /\ taken \in Seq(Bytes)
    BY <1>1, <1>8
  <2>2. /\ after \in Seq(Bytes) /\ Len(after) = t + Len(got)
        /\ \A k \in 1 .. t + Len(got) : after[k] = IF k <= t THEN taken[k] ELSE got[k - t]
    BY <2>1, ConcatProperties
  <2> QED
    BY <1>8, <2>2
<1> HIDE DEF after, n, left, len, t
<1>10. \A k \in 1 .. Len(after) : TxByte(after[k], k, spilt)
  <2> SUFFICES ASSUME NEW k \in 1 .. t + n PROVE TxByte(after[k], k, spilt)
    BY <1>9
  <2>1. CASE k <= t
    <3>1. k \in 1 .. t /\ after[k] = taken[k]
      BY <1>1, <1>4, <1>9, <2>1
    <3> QED
      BY <3>1 DEF X5Inv, DataInv, TxInv, t
  <2>2. CASE ~(k <= t)
    <3>1. k - t \in 1 .. n /\ after[k] = got[k - t] /\ t + (k - t) = k
      BY <1>1, <1>4, <1>9, <2>2
    <3>2. TxByte(got[k - t], t + (k - t), spilt)
      BY <1>8, <3>1
    <3> QED
      BY <3>1, <3>2
  <2> QED
    BY <2>1, <2>2
<1>11. DataTypes'
  BY <1>1, <1>2, <1>3, <1>4, <1>9, SMTT(30)
     DEF X5Inv, DataInv, DataTypes, usbVars, progVars, len, left
<1>12. FrameInv'
  <2>1. left - n = 0 <=> left = n
    BY <1>1, <1>4
  <2> QED
    BY <1>2, <1>3, <1>5, <1>6, <2>1 DEF X5Inv, DataInv, FrameInv, usbVars, progVars
<1>13. LoopInv'
  BY <1>2, <1>6 DEF X5Inv, DataInv, LoopInv, usbVars, progVars, OtherBuffer
<1>14. RxInv'
  BY <1>2 DEF X5Inv, DataInv, RxInv, usbVars, progVars, OtherBuffer, AtHand
<1>15. TxInv'
  <2>1. ASSUME NEW k \in 1 .. (left - n)
        PROVE  TxCell(len - (left - n) + k - 1, (t + n) + k, ram, spilt)
    <3>1. n + k \in 1 .. left /\ k \in Nat
      BY <1>1, <1>4
    <3>2. len - (left - n) + k - 1 = (len - left) + (n + k) - 1 /\ t + (n + k) = (t + n) + k
      BY <1>1, <1>4, <3>1
    <3> QED
      BY <1>7, <3>1, <3>2
  <2>2. written = (t + n) + (left - n) + tx_buf_index
    <3>1. written = t + left + tx_buf_index
      BY DEF X5Inv, DataInv, TxInv, t, left
    <3> QED
      BY <1>1, <1>4, <1>5, <3>1
  <2>3. 1 .. tx_buf_index = {}
    BY <1>5
  <2> QED
    BY <1>2, <1>3, <1>9, <1>10, <2>1, <2>2, <2>3 DEF TxInv, usbVars, progVars
<1> QED
  BY <1>11, <1>12, <1>13, <1>14, <1>15 DEF DataInv

\* A read notes a receive buffer or takes it up, and never lets the controller at one
\* that still has to be handed on.
LEMMA ReadKeeps == ASSUME UsbAssumption, X5Inv, Read PROVE DataInv'
<1>1. /\ USB_rx_buffer \in {rx_buffer1, rx_buffer2}
      /\ OtherBuffer \in {rx_buffer1, rx_buffer2} /\ USB_rx_buffer # NULL
      /\ USB_rx_buffer # OtherBuffer /\ RX_SIZE \in Nat \ {0}
      /\ \A b \in {rx_buffer1, rx_buffer2} :
           b = OtherBuffer => (IF b = rx_buffer1 THEN rx_buffer2 ELSE rx_buffer1) = USB_rx_buffer
  BY Places DEF X5Inv, DataInv, DataTypes, OtherBuffer, rx_buffer1, rx_buffer2, UsbAssumption
<1>2. /\ loop = NoLoop
      /\ wait_for_tx_done' = StillWaits /\ process_rx_buffer' = Noted
      /\ done' = done \ (Which \cup Rearmed \cup Flushed)
      /\ UNCHANGED <<ram, tx_buf_index, rx_index, frame, written, handed, spilt, in, sent, taken>>
  BY DEF Read, hostVars, DoneLeft, ep_clear_done_status
<1>3. /\ "tx" \in done' <=> "tx" \in done /\ "tx" \notin Which
      /\ "rx" \in done' <=> "rx" \in done /\ "rx" \notin Which /\ ~Processes
  BY <1>2 DEF Rearmed, Flushed
<1>4. FrameInv'
  <2>1. CASE wait_for_tx_done
    BY <1>2, <1>3, <2>1 DEF X5Inv, DataInv, FrameInv, StillWaits, Which
  <2>2. CASE ~wait_for_tx_done
    BY <1>2, <1>3, <2>2 DEF X5Inv, DataInv, FrameInv, StillWaits, Which
  <2> QED
    BY <2>1, <2>2
<1>5. TxInv'
  BY <1>2 DEF X5Inv, DataInv, TxInv
<1>6. Noted \in {NULL, USB_rx_buffer} /\ StillWaits \in BOOLEAN
  BY <1>2 DEF X5Inv, DataInv, LoopInv, Noted, StillWaits, DataTypes
<1>7. Noted # NULL => ~out.ready /\ out.got >= 1
  BY <1>1, <1>2 DEF X5Inv, DataInv, LoopInv, Noted, Which
<1>8. CASE ~Processes
  <2>1. UNCHANGED <<USB_rx_buffer, out, loop>>
    BY <1>8 DEF Read
  <2>2. DataTypes'
    BY <1>2, <1>6, <2>1 DEF X5Inv, DataInv, DataTypes
  <2>3. RxInv'
    BY <1>2, <2>1 DEF X5Inv, DataInv, RxInv, AtHand, OtherBuffer
  <2>4. LoopInv'
    BY <1>2, <1>3, <1>6, <1>7, <1>8, <2>1 DEF X5Inv, DataInv, LoopInv, OtherBuffer
  <2> QED
    BY <1>4, <1>5, <2>2, <2>3, <2>4 DEF DataInv
<1>9. CASE Processes
  <2>1. /\ Noted = USB_rx_buffer /\ ~StillWaits /\ ~out.ready /\ out.got >= 1
    BY <1>6, <1>7, <1>9 DEF Processes
  <2>2. /\ USB_rx_buffer' = OtherBuffer
        /\ out' = [buf |-> OtherBuffer, got |-> 0, ready |-> TRUE]
        /\ loop' = [i |-> 0, num_bytes_read |-> out.got]
    BY <1>9 DEF Read, SetupRxDMA, ep_enable_ready
  <2>3. /\ out'.buf = OtherBuffer /\ out'.got = 0 /\ out'.ready = TRUE
        /\ loop'.i = 0 /\ loop'.num_bytes_read = out.got /\ OtherBuffer' = USB_rx_buffer
    BY <1>1, <2>2 DEF OtherBuffer
  <2>4. RX_SIZE \in Nat /\ out.got \in 1 .. RX_SIZE /\ loop' # NoLoop
    <3>1. RX_SIZE \in Nat /\ out.got \in 1 .. RX_SIZE
      BY <2>1 DEF X5Inv, DataInv, DataTypes, UsbAssumption
    <3>2. NoLoop.num_bytes_read = 0
      BY DEF NoLoop
    <3> QED
      BY <2>3, <3>1, <3>2
  <2>5. DataTypes'
    BY <1>1, <1>2, <1>6, <2>2, <2>3, <2>4 DEF X5Inv, DataInv, DataTypes
  <2>6. LoopInv'
    <3>1. rx_index' = 0
      BY <1>2 DEF X5Inv, DataInv, LoopInv, NoLoop
    <3> QED
      BY <1>2, <1>3, <1>9, <2>1, <2>2, <2>3, <2>4, <3>1 DEF LoopInv
  <2>7. RxInv'
    <3>1. AtHand = 0 /\ AtHand' = out.got
      BY <1>2, <2>3, <2>4 DEF AtHand, NoLoop
    <3>2. /\ \A k \in 1 .. Len(handed) : RxByte(handed[k], k, spilt)
          /\ \A k \in 1 .. out.got :
                RxByte(ram[USB_rx_buffer + k - 1], Len(handed) + AtHand + k, spilt)
          /\ sent = Len(handed) + AtHand + out.got /\ Len(handed) \in Nat
      BY DEF X5Inv, DataInv, RxInv, DataTypes
    <3>3. /\ \A k \in 1 .. out.got :
                RxByte(ram[USB_rx_buffer + 0 + k - 1], Len(handed) + k, spilt)
          /\ sent = Len(handed) + out.got + 0
      <4> DEFINE h == Len(handed)
      <4>1. h \in Nat /\ h + AtHand = h /\ USB_rx_buffer \in Nat /\ USB_rx_buffer + 0 = USB_rx_buffer
        BY <1>1, <3>1, <3>2, Places
      <4> QED
        BY SMTT(30), <2>4, <3>1, <3>2, <4>1
    <3> QED
      BY <1>2, <2>3, <3>1, <3>2, <3>3 DEF RxInv
  <2> QED
    BY <1>4, <1>5, <2>5, <2>6, <2>7 DEF DataInv
<1> QED
  BY <1>8, <1>9

\* A byte handed on is the next one of the host.
LEMMA HandKeeps == ASSUME UsbAssumption, X5Inv, Hand PROVE DataInv'
<1> DEFINE i == loop.i
           num == loop.num_bytes_read
           last == i + 1 = num
           byte == ram[process_rx_buffer + rx_index]
           more == Append(handed, byte)
           h == Len(handed)
           got == out.got
<1>1. /\ loop # NoLoop /\ handed' = more
      /\ rx_index' = (IF last THEN 0 ELSE rx_index + 1)
      /\ process_rx_buffer' = (IF last THEN NULL ELSE process_rx_buffer)
      /\ loop' = (IF last THEN [i |-> 0, num_bytes_read |-> 0]
                          ELSE [i |-> i + 1, num_bytes_read |-> num])
      /\ UNCHANGED <<ram, tx_buf_index, USB_rx_buffer, wait_for_tx_done, frame, written,
                     spilt, out, in, done, sent, taken>>
  BY DEF Hand, NoLoop, coreVars, hostVars, X5Inv, X5Shapes
<1>2. /\ num \in 1 .. RX_SIZE /\ i \in Nat /\ i < num /\ rx_index = i
      /\ process_rx_buffer = OtherBuffer /\ ~wait_for_tx_done
      /\ "rx" \in done => ~out.ready
      /\ ~out.ready => out.got >= 1
  BY <1>1 DEF X5Inv, DataInv, LoopInv
<1>3. /\ TX_SIZE \in Nat /\ RX_SIZE \in Nat /\ OtherBuffer \in Nat /\ USB_rx_buffer \in Nat
      /\ OtherBuffer + RX_SIZE - 1 <= TX_SIZE + RX_SIZE + RX_SIZE - 1
      /\ Ram = 0 .. (TX_SIZE + RX_SIZE + RX_SIZE - 1)
      /\ h \in Nat /\ got \in Nat /\ OtherBuffer # NULL
  BY Places DEF X5Inv, DataInv, DataTypes
<1>4. /\ AtHand = num - i
      /\ \A k \in 1 .. AtHand : RxByte(ram[OtherBuffer + i + k - 1], h + k, spilt)
      /\ \A k \in 1 .. got : RxByte(ram[USB_rx_buffer + k - 1], h + AtHand + k, spilt)
      /\ \A k \in 1 .. h : RxByte(handed[k], k, spilt)
  BY DEF X5Inv, DataInv, RxInv, AtHand
<1>5. sent = h + AtHand + got
  BY DEF X5Inv, DataInv, RxInv
<1>6. loop'.i = (IF last THEN 0 ELSE i + 1) /\ loop'.num_bytes_read = (IF last THEN 0 ELSE num)
  BY <1>1
<1>7. OtherBuffer' = OtherBuffer /\ AtHand' = (num - i) - 1
  <2>1. AtHand' = loop'.num_bytes_read - loop'.i
    BY DEF AtHand
  <2> HIDE DEF i, num
  <2>2. CASE last
    BY <1>1, <1>2, <1>3, <1>6, <2>1, <2>2 DEF OtherBuffer
  <2>3. CASE ~last
    BY <1>1, <1>2, <1>3, <1>6, <2>1, <2>3 DEF OtherBuffer
  <2> QED
    BY <2>2, <2>3
<1> HIDE DEF i, num
<1>8. RxByte(byte, h + 1, spilt) /\ byte \in Bytes
  <2>1. 1 \in 1 .. AtHand /\ OtherBuffer + i + 1 - 1 = OtherBuffer + i
    BY <1>2, <1>3, <1>4
  <2>2. RxByte(byte, h + 1, spilt)
    BY <1>2, <1>4, <2>1
  <2>3. OtherBuffer + i \in Ram
    <3>1. i + 1 <= RX_SIZE
      BY <1>2, <1>3
    <3> QED
      BY <1>2, <1>3, <3>1
  <2>4. byte \in Bytes
    BY <1>2, <2>3 DEF X5Inv, DataInv, DataTypes
  <2> QED
    BY <2>2, <2>4
<1> HIDE DEF byte
<1>9. /\ more \in Seq(Bytes) /\ Len(more) = h + 1 /\ more[h + 1] = byte
      /\ \A k \in 1 .. h : more[k] = handed[k]
  <2>1. handed \in Seq(Bytes)
    BY DEF X5Inv, DataInv, DataTypes
  <2> QED
    BY <1>8, <2>1, AppendOf
<1> HIDE DEF more
<1>10. DataTypes'
  BY <1>1, <1>9 DEF X5Inv, DataInv, DataTypes
<1>11. FrameInv'
  BY <1>1 DEF X5Inv, DataInv, FrameInv
<1>12. TxInv'
  BY <1>1 DEF X5Inv, DataInv, TxInv
<1>13. LoopInv'
  <2>1. CASE last
    <3>1. loop' = NoLoop /\ process_rx_buffer' = NULL /\ rx_index' = 0 /\ loop'.i = 0
          /\ loop'.num_bytes_read = 0
      BY <1>1, <1>6, <2>1 DEF NoLoop
    <3> QED
      BY <1>1, <1>2, <3>1 DEF LoopInv
  <2>2. CASE ~last
    <3>1. /\ loop'.i = i + 1 /\ loop'.num_bytes_read = num /\ rx_index' = i + 1
          /\ process_rx_buffer' = OtherBuffer
      BY <1>1, <1>2, <1>6, <2>2
    <3>2. i + 1 \in Nat /\ num \in Nat /\ i + 1 < num /\ num # 0
      BY <1>2, <1>3, <2>2
    <3>3. loop' # NoLoop
      <4>1. NoLoop.num_bytes_read = 0
        BY DEF NoLoop
      <4> QED
        BY <3>1, <3>2, <4>1
    <3> QED
      BY <1>1, <1>2, <1>7, <3>1, <3>2, <3>3 DEF LoopInv
  <2> QED
    BY <2>1, <2>2
<1>14. RxInv'
  <2> DEFINE left == (num - i) - 1
  <2>1. left \in Nat /\ AtHand = left + 1
    BY <1>2, <1>3, <1>4
  <2>2. ASSUME NEW k \in 1 .. Len(more) PROVE RxByte(more[k], k, spilt)
    <3>1. CASE k \in 1 .. h
      BY <1>4, <1>9, <3>1
    <3>2. CASE k \notin 1 .. h
      <4>1. k = h + 1
        BY <1>3, <1>9, <3>2
      <4> QED
        BY <1>8, <1>9, <4>1
    <3> QED
      BY <3>1, <3>2
  <2>3. ASSUME NEW k \in 1 .. left
        PROVE  RxByte(ram[OtherBuffer + loop'.i + k - 1], (h + 1) + k, spilt)
    <3>1. ~last /\ loop'.i = i + 1
      <4>1. left >= 1
        BY <2>1
      <4>2. ~last
        BY <1>2, <1>3, <4>1
      <4> QED
        BY <1>6, <4>2
    <3>2. k + 1 \in 1 .. AtHand /\ k \in Nat
      BY <2>1
    <3>3. RxByte(ram[OtherBuffer + i + (k + 1) - 1], h + (k + 1), spilt)
      BY <1>4, <3>2
    <3>4. /\ OtherBuffer + i + (k + 1) - 1 = OtherBuffer + (i + 1) + k - 1
          /\ h + (k + 1) = (h + 1) + k
      BY <1>2, <1>3, <3>2
    <3> QED
      BY <3>1, <3>3, <3>4
  <2>4. ASSUME NEW k \in 1 .. got
        PROVE  RxByte(ram[USB_rx_buffer + k - 1], (h + 1) + left + k, spilt)
    <3>1. h + AtHand + k = (h + 1) + left + k
      BY <1>3, <2>1
    <3> QED
      BY <1>4, <3>1
  <2>5. sent = (h + 1) + left + got
    BY <1>3, <1>5, <2>1
  <2>6. AtHand' = left /\ out'.got = got
    BY <1>1, <1>7
  <2> HIDE DEF left
  <2> QED
    BY ZenonT(60), <1>1, <1>7, <1>9, <2>2, <2>3, <2>4, <2>5, <2>6 DEF RxInv
<1> QED
  BY <1>10, <1>11, <1>12, <1>13, <1>14 DEF DataInv

\* A byte written goes behind the others of its frame, into the transmit buffer or, spilt,
\* over what has been received, and the flag that ends a frame starts its transfer.
LEMMA WriteByteKeeps == ASSUME UsbAssumption, X5Inv, WriteByte PROVE DataInv'
<1> DEFINE x == tx_buf_index
           t == Len(taken)
           byte == <<"tx", written + 1>>
<1>1. /\ ~wait_for_tx_done /\ loop = NoLoop /\ frame # NoFrame
      /\ ram' = [ram EXCEPT ![x] = byte] /\ written' = written + 1
      /\ spilt' = (IF x >= TX_SIZE THEN spilt \cup {written + 1} ELSE spilt)
      /\ frame' = (IF frame.at + 1 = frame.len THEN NoFrame ELSE [frame EXCEPT !.at = frame.at + 1])
      /\ wait_for_tx_done' = Sends
      /\ UNCHANGED <<rx_index, USB_rx_buffer, process_rx_buffer, loop, handed, out, sent, taken>>
  BY DEF WriteByte, Free, Waits, hostVars
<1>2. IF Sends
      THEN x' = 0 /\ in' = [len |-> x + 1, left |-> x + 1]
           /\ done' = (IF in.left # 0 THEN done \ {"tx"} ELSE done)
      ELSE x' = x + 1 /\ UNCHANGED <<in, done>>
  BY DEF WriteByte, SetupTxDMA, ep_clear_done_status
<1>3. /\ frame.len \in 2 .. RamSize /\ frame.at \in Nat /\ frame.at < frame.len
      /\ x = frame.at /\ "tx" \notin done /\ in.left = 0
      /\ TX_SIZE \in Nat /\ RX_SIZE \in Nat /\ RamSize \in Nat
      /\ Ram = 0 .. (RamSize - 1)
      /\ t \in Nat /\ written \in Nat /\ written + 1 \in Nat
  <2>1. /\ frame.len \in 2 .. RamSize /\ frame.at \in Nat /\ frame.at < frame.len
        /\ x = frame.at /\ "tx" \notin done /\ in.left = 0
    BY <1>1 DEF X5Inv, DataInv, FrameInv
  <2>2. /\ TX_SIZE \in Nat /\ RX_SIZE \in Nat /\ RamSize \in Nat
        /\ Ram = 0 .. (RamSize - 1)
    BY Places DEF X5Inv, DataInv, DataTypes
  <2>3. taken \in Seq(Bytes) /\ written \in Nat
    BY DEF X5Inv, DataInv, DataTypes
  <2>4. t \in Nat /\ written + 1 \in Nat
    BY <2>3, LenProperties
  <2> QED
    BY <2>1, <2>2, <2>3, <2>4
<1>4. Sends <=> frame.at + 1 = frame.len
  BY <1>3 DEF Sends, IsFlag
<1>5. done' = done /\ x \in 0 .. RamSize - 1 /\ x \in Ram /\ byte \in Bytes
  BY <1>2, <1>3 DEF Bytes
<1> HIDE DEF byte
<1>6. /\ ram' \in [Ram -> Bytes] /\ ram'[x] = byte
      /\ \A k \in Ram : k # x => ram'[k] = ram[k]
  BY <1>1, <1>5 DEF X5Inv, DataInv, DataTypes
<1>7. /\ \A k \in 1 .. x : TxCell(k - 1, t + 0 + k, ram, spilt)
      /\ \A k \in 1 .. t : TxByte(taken[k], k, spilt)
  BY <1>3 DEF X5Inv, DataInv, TxInv
<1>8. written = t + x
  <2>1. written = t + in.left + x
    BY DEF X5Inv, DataInv, TxInv
  <2> QED
    BY <1>3, <2>1
<1>9. ASSUME NEW k \in 1 .. x + 1 PROVE TxCell(k - 1, t + k, ram', spilt')
  <2>1. CASE k \in 1 .. x
    <3>1. k - 1 \in Ram /\ k - 1 # x /\ t + 0 + k = t + k
      BY <1>3, <2>1
    <3>2. TxCell(k - 1, t + k, ram, spilt)
      BY <1>7, <2>1, <3>1
    <3> QED
      BY <1>1, <1>6, <3>1, <3>2 DEF TxCell
  <2>2. CASE k \notin 1 .. x
    <3>1. k - 1 = x /\ written + 1 = t + k
      BY <1>3, <1>8, <2>2
    <3>2. x >= TX_SIZE => t + k \in spilt'
      BY <1>1, <3>1
    <3>3. x < TX_SIZE \/ x >= TX_SIZE
      BY <1>3
    <3> QED
      BY <1>6, <3>1, <3>2, <3>3 DEF byte, TxCell
  <2> QED
    BY <2>1, <2>2
<1>9a. /\ \A k \in 1 .. t : TxByte(taken[k], k, spilt')
       /\ \A v, k : RxByte(v, k, spilt) => RxByte(v, k, spilt')
  BY <1>1, <1>7 DEF TxByte, RxByte
<1>10. /\ in'.len \in 0 .. RamSize /\ in'.left \in 0 .. in'.len
       /\ Sends => in'.len = x + 1 /\ in'.left = x + 1 /\ x' = 0
       /\ ~Sends => in'.left = 0 /\ x' = x + 1
  <2>1. CASE Sends
    BY <1>2, <1>3, <1>5, <2>1
  <2>2. CASE ~Sends
    BY <1>2, <1>3, <2>2 DEF X5Inv, DataInv, DataTypes
  <2> QED
    BY <2>1, <2>2
<1>11. DataTypes'
  <2>1. Sends \in BOOLEAN
    BY DEF Sends, IsFlag
  <2> QED
    BY <1>1, <1>3, <1>6, <1>10, <2>1 DEF X5Inv, DataInv, DataTypes
<1>12. FrameInv'
  <2>1. CASE Sends
    <3>1. frame' = NoFrame /\ frame'.at = 0 /\ frame'.len = 0
      BY <1>1, <1>4, <2>1 DEF NoFrame
    <3>2. in'.left # 0
      BY <1>3, <1>10, <2>1
    <3>3. x' = 0 /\ wait_for_tx_done' = TRUE /\ "tx" \notin done'
      BY <1>1, <1>3, <1>5, <1>10, <2>1
    <3> QED
      BY <3>1, <3>2, <3>3 DEF FrameInv
  <2>2. CASE ~Sends
    <3>1. frame'.at = frame.at + 1 /\ frame'.len = frame.len
      BY <1>1, <1>4, <2>2 DEF X5Inv, X5Shapes
    <3>2. frame'.at \in Nat /\ frame'.at < frame'.len /\ frame'.len \in Nat
      BY <1>3, <1>4, <2>2, <3>1
    <3> QED
      BY <1>1, <1>3, <1>5, <1>10, <2>2, <3>1, <3>2 DEF FrameInv
  <2> QED
    BY <2>1, <2>2
<1>13. TxInv'
  <2>1. CASE Sends
    <3>1. 1 .. x' = {} /\ written + 1 = t + (x + 1) + 0
      BY <1>3, <1>8, <1>10, <2>1
    <3>2. ASSUME NEW k \in 1 .. x + 1 PROVE TxCell((x + 1) - (x + 1) + k - 1, t + k, ram', spilt')
      <4>1. (x + 1) - (x + 1) + k - 1 = k - 1
        BY <1>3
      <4> QED
        BY <1>9, <4>1
    <3> QED
      BY <1>1, <1>9a, <1>10, <2>1, <3>1, <3>2 DEF TxInv
  <2>2. CASE ~Sends
    <3>1. /\ written + 1 = t + 0 + (x + 1) /\ 1 .. 0 = {}
          /\ \A k \in 1 .. x + 1 : t + 0 + k = t + k
      BY <1>3, <1>8
    <3> QED
      BY <1>1, <1>9a, <1>9, <1>10, <2>2, <3>1 DEF TxInv
  <2> QED
    BY <2>1, <2>2
<1>14. LoopInv'
  BY <1>1, <1>5 DEF X5Inv, DataInv, LoopInv, OtherBuffer
<1>15. RxInv'
  <2>1. UNCHANGED <<AtHand, OtherBuffer>>
    BY <1>1 DEF AtHand, OtherBuffer
  <2>2. AtHand = 0 /\ 1 .. 0 = {}
    BY <1>1 DEF AtHand, NoLoop
  <2> DEFINE h == Len(handed)
  <2>3. ASSUME NEW k \in 1 .. out.got
        PROVE  RxByte(ram'[USB_rx_buffer + k - 1], h + AtHand + k, spilt')
    <3> DEFINE p == USB_rx_buffer + k - 1
    <3>1. p \in Ram /\ p >= TX_SIZE
      <4>1. USB_rx_buffer \in {TX_SIZE, TX_SIZE + RX_SIZE} /\ out.got \in 0 .. RX_SIZE
        BY DEF X5Inv, DataInv, DataTypes, rx_buffer1, rx_buffer2
      <4> QED
        BY <1>3, <4>1 DEF RamSize
    <3>2. RxByte(ram[p], h + AtHand + k, spilt)
      BY DEF X5Inv, DataInv, RxInv
    <3> HIDE DEF p
    <3>3. CASE p # x
      <4>1. ram'[p] = ram[p]
        BY <1>6, <3>1, <3>3
      <4> QED
        BY <1>9a, <3>2, <4>1 DEF p
    <3>4. CASE p = x
      <4>1. ram'[p] = <<"tx", written + 1>> /\ written + 1 \in spilt'
        BY <1>1, <1>6, <3>1, <3>4 DEF byte
      <4> QED
        BY <4>1 DEF RxByte, p
    <3> QED
      BY <3>3, <3>4
  <2>4. /\ \A k \in 1 .. h : RxByte(handed[k], k, spilt')
        /\ sent = h + AtHand + out.got
    BY <1>9a DEF X5Inv, DataInv, RxInv
  <2> QED
    BY <1>1, <2>1, <2>2, <2>3, <2>4 DEF RxInv
<1> QED
  BY <1>11, <1>12, <1>13, <1>14, <1>15 DEF DataInv

\* A frame is begun while no write waits and the transmit buffer is empty.
LEMMA StartFrameKeeps ==
  ASSUME UsbAssumption, X5Inv, NEW len \in FrameLengths, StartFrame(len)
  PROVE  DataInv'
<1>1. /\ frame = NoFrame /\ frame' = [len |-> len, at |-> 0] /\ ~wait_for_tx_done
      /\ UNCHANGED <<usbVars, loop, written, handed, spilt, out, in, done, sent, taken>>
  BY DEF StartFrame, Free, coreVars, hostVars
<1>2. /\ len \in 2 .. RamSize /\ len \in Nat /\ frame'.len = len /\ frame'.at = 0
      /\ frame.at = 0
  <2>1. len \in 2 .. (TX_SIZE + 2 * RX_SIZE) /\ RamSize = TX_SIZE + 2 * RX_SIZE
    BY DEF UsbAssumption, RamSize
  <2> QED
    BY <1>1, <2>1 DEF NoFrame
<1>3. FrameInv'
  BY <1>1, <1>2 DEF X5Inv, DataInv, FrameInv, usbVars
<1> QED
  BY <1>1, <1>3 DEF X5Inv, DataInv, DataTypes, TxInv, LoopInv, RxInv, AtHand, OtherBuffer, usbVars

\* The invariant of the data holds at the start, and every step of that port keeps it.
LEMMA DataFromStart == ASSUME UsbAssumption, Init PROVE X5Shapes /\ SetupInv /\ DataInv
<1>1. X5Shapes
  BY DEF Init, X5Shapes, NoFrame, NoLoop
<1>2. SetupInv
  BY DEF Init, SetupInv, WithoutData, Requests
<1>3. /\ TX_SIZE \in Nat /\ RX_SIZE \in Nat \ {0} /\ 1 .. 0 = {} /\ Len(<<>>) = 0
      /\ <<>> \in Seq(Bytes) /\ <<"old", 0>> \in Bytes
  BY DEF UsbAssumption, Bytes
<1>4. DataTypes
  <2>1. ram \in [Ram -> Bytes]
    BY <1>3 DEF Init
  <2>2. done = {} /\ out = [buf |-> rx_buffer1, got |-> 0, ready |-> TRUE] /\ taken = <<>>
        /\ handed = <<>> /\ sent = 0 /\ written = 0 /\ tx_buf_index = 0 /\ rx_index = 0
        /\ USB_rx_buffer = rx_buffer1 /\ process_rx_buffer = NULL
        /\ wait_for_tx_done = FALSE /\ in = [len |-> 0, left |-> 0]
        /\ frame = NoFrame /\ loop = NoLoop
    BY DEF Init
  <2>3. out.buf = rx_buffer1 /\ out.got = 0 /\ out.ready = TRUE /\ in.len = 0 /\ in.left = 0
    BY <2>2
  <2>4. taken \in Seq(Bytes) /\ handed \in Seq(Bytes) /\ sent \in Nat /\ written \in Nat
    BY <1>3, <2>2
  <2>5. out.got \in 0 .. RX_SIZE /\ in.len \in 0 .. RamSize /\ in.left \in 0 .. in.len
    BY <1>3, <2>3 DEF RamSize
  <2> QED
    BY <2>1, <2>2, <2>3, <2>4, <2>5, Zenon DEF DataTypes
<1>5. FrameInv
  BY DEF Init, FrameInv, NoFrame
<1>6. TxInv
  BY <1>3 DEF Init, TxInv
<1>7. LoopInv
  BY DEF Init, LoopInv, NoLoop
<1>8. RxInv
  BY <1>3 DEF Init, RxInv, AtHand, NoLoop
<1> QED
  BY <1>1, <1>2, <1>4, <1>5, <1>6, <1>7, <1>8 DEF DataInv

\* Every step of that port keeps the invariant of the data.
LEMMA DataKept ==
  ASSUME UsbAssumption, X5Inv, X5Step PROVE X5Inv'
<1>1. X5Shapes'
  BY X5ShapesKept DEF X5Inv
<1>2. ASSUME UNCHANGED <<ram, tx_buf_index, rx_index, USB_rx_buffer, process_rx_buffer,
                         wait_for_tx_done, frame, loop, written, handed, spilt, out, in,
                         sent, taken>>,
             "rx" \in done <=> "rx" \in done', "tx" \in done <=> "tx" \in done'
      PROVE  DataInv'
  <2>1. DataTypes'
    BY <1>2 DEF X5Inv, DataInv, DataTypes
  <2>2. FrameInv'
    BY <1>2 DEF X5Inv, DataInv, FrameInv
  <2>3. TxInv'
    BY <1>2 DEF X5Inv, DataInv, TxInv
  <2>4. LoopInv' /\ RxInv'
    <3>1. UNCHANGED <<AtHand, OtherBuffer>>
      BY <1>2 DEF AtHand, OtherBuffer
    <3> QED
      BY <1>2, <3>1 DEF X5Inv, DataInv, LoopInv, RxInv
  <2> QED
    BY <2>1, <2>2, <2>3, <2>4 DEF DataInv
<1>3. ASSUME \E request \in Requests : HostSetup(request) PROVE DataInv'
  <2>1. UNCHANGED <<usbVars, progVars, out, in, sent, taken>> /\ done' = done \cup {"setup"}
    BY <1>3 DEF HostSetup
  <2> QED
    BY <1>2, <2>1 DEF usbVars, progVars
<1>4. ASSUME \E coding \in Codings : HostData(coding) PROVE DataInv'
  <2>1. UNCHANGED <<usbVars, progVars, out, in, sent, taken>> /\ done' = done \cup {"setup"}
    BY <1>4 DEF HostData
  <2> QED
    BY <1>2, <2>1 DEF usbVars, progVars
<1>5. ASSUME HostTakesReply PROVE DataInv'
  <2>1. UNCHANGED <<usbVars, progVars, out, in, sent, taken>> /\ done' = done \cup {"ctrl"}
    BY <1>5 DEF HostTakesReply
  <2> QED
    BY <1>2, <2>1 DEF usbVars, progVars
<1>6. ASSUME UNCHANGED vars PROVE DataInv'
  BY <1>2, <1>6 DEF vars, usbVars, progVars, coreVars, hostVars
<1>7. DataInv'
  BY <1>3, <1>4, <1>5, <1>6, HostSendsKeeps, HostTakesKeeps, ReadKeeps, HandKeeps,
     WriteByteKeeps, StartFrameKeeps
     DEF X5Step, Next, Host, Driver, ReadNothing
<1> QED
  BY <1>1, <1>7 DEF X5Inv

-----------------------------------------------------------------------------
(* The ports together.                                                     *)

PortsInv ==
  /\ UartInv /\ X0Inv
  /\ X5Shapes /\ SetupInv /\ DataInv

\* A step of Ports is a step of each port, or leaves that port alone.
LEMMA StepOfEach == ASSUME [PortsNext]_allVars PROVE UartStep /\ X0Step /\ X5Step
<1>1. CASE DRL_IO_Setup
  BY <1>1 DEF DRL_IO_Setup, UartStep, X0Step, X5Step, uartVars
<1>2. CASE FirstTransferEnds
  BY <1>2 DEF FirstTransferEnds, UartStep, X0Step, X5Step
<1>3. CASE LineEarly
  BY <1>3 DEF LineEarly, UartStep, X0Step, X5Step
<1>4. CASE OnUsb(Next)
  BY <1>4 DEF OnUsb, UartStep, X0Step, X5Step
<1>5. CASE OnX0(X0!Host) \/ X0Starts \/ X0Driver
  BY <1>5 DEF OnX0, X0Starts, X0Driver, X0!Starts, X0!Driver, X0!Proceeds, X0!Next,
              UartStep, X0Step, X5Step
<1>6. CASE OnUart(UART!Line \/ UART!UartDriver)
  BY <1>6 DEF OnUart, UartStep, X0Step, X5Step
<1>7. CASE UNCHANGED allVars
  BY <1>7 DEF allVars, UartStep, X0Step, X5Step
<1> QED
  BY <1>1, <1>2, <1>3, <1>4, <1>5, <1>6, <1>7 DEF PortsNext

\* The invariants of the three ports hold in every state of the system.
LEMMA PortsInvariant == PortsSpec => []PortsInv
<1>1. PortsInit => PortsInv
  BY PortsAssumption, UsbAssumption, UartInvariant, X0FromStart, DataFromStart
     DEF PortsInit, PortsInv
<1>2. PortsInv /\ [PortsNext]_allVars => PortsInv'
  <2> SUFFICES ASSUME PortsInv, [PortsNext]_allVars PROVE PortsInv'
    OBVIOUS
  <2>1. UartInv'
    BY PortsAssumption, StepOfEach, UartInvariant DEF PortsInv
  <2>2. X0Inv'
    BY UsbAssumption, StepOfEach, X0Kept DEF PortsInv
  <2>3. X5Shapes' /\ SetupInv'
    BY StepOfEach, X5ShapesKept, SetupKept DEF PortsInv
  <2>4. DataInv'
    BY UsbAssumption, StepOfEach, DataKept DEF PortsInv, X5Inv
  <2> QED
    BY <2>1, <2>2, <2>3, <2>4 DEF PortsInv
<1> QED
  BY <1>1, <1>2, PTL DEF PortsSpec

\* The serial port hands on bytes that the host sent, undamaged and in their order,
\* whatever the line spoils and whenever the receiver is reset (qsc60x5_uart.c:55).
THEOREM SerialInputSafe == PortsSpec => []UartReceives
<1>1. PortsInv => UartReceives
  BY UartSafe DEF PortsInv
<1> QED
  BY <1>1, PortsInvariant, PTL

\* The serial port gives the line every byte written, once and in its order
\* (qsc60x5_uart.c:83).
THEOREM SerialOutputSafe == PortsSpec => []UartSends
<1>1. PortsInv => UartSends
  BY UartSafe DEF PortsInv
<1> QED
  BY <1>1, PortsInvariant, PTL

\* Once a control transfer is over, the port has the line coding that the host set last,
\* in whatever order its control messages and the reads of the program, the ones inside a
\* write among them, fall together (qsc60x5_usb.c, qsc60x5_usb_do_handle_setup_msgs).
THEOREM CodingSafe == PortsSpec => []CodingKept
<1>1. PortsInv => CodingKept
  BY DEF PortsInv, SetupInv, CodingKept
<1> QED
  BY <1>1, PortsInvariant, PTL

\* Each byte of the host is handed on once and in its order over either USB port, two
\* buffers in turn on the one, FIFOs of whichever pair the host uses on the other; only a
\* byte that a frame longer than the transmit buffer spilt may stand in the place of one
\* (qsc60x5_usb.c:827, qsc60x0_usb.c:179).
THEOREM UsbInputSafe == PortsSpec => []UsbReceives
<1>1. PortsInv => UsbReceives
  BY DEF PortsInv, DataInv, RxInv, RxByte, X0Inv, X0Order, UsbReceives, HandedInOrder,
         X0!HandedInOrder
<1> QED
  BY <1>1, PortsInvariant, PTL

\* The host takes each byte written once and in its order, the ones that were spilt
\* excepted: no frame is put into the transmit buffer before the transfer of the one before
\* has ended, and nothing is received over it (qsc60x5_usb_write).
THEOREM UsbOutputSafe == PortsSpec => []TakenInOrder
<1>1. PortsInv => TakenInOrder
  BY DEF PortsInv, DataInv, TxInv, TxByte, TakenInOrder
<1> QED
  BY <1>1, PortsInvariant, PTL
=============================================================================
