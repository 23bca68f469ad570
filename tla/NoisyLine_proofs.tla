-------------------------- MODULE NoisyLine_proofs --------------------------
(***************************************************************************)
(* Proofs about NoisyLine: the receiver finds its way back to the frames   *)
(* after any noise, for every pool, every slot capacity, every set of      *)
(* packets shorter than the span of the count of bytes, and any number of  *)
(* frames and of bytes of noise.                                           *)
(***************************************************************************)
EXTENDS NoisyLine, PacketLayer_proofs

\* The line is what is left of the frame of the packet p after its first k bytes, and
\* unless one of them met an overrun the receiver has taken them all.
Coming(p, k) ==
  /\ p \in Request /\ k \in 0 .. Len(Frame(p)) - 1
  /\ line \in Seq(Octet) /\ Len(line) = Len(Frame(p)) - k
  /\ \A i \in 1 .. Len(line) : line[i] = Frame(p)[k + i]
  /\ ~dropped /\ k # 0 => Received(p, k)

LineInv ==
  /\ TypeOK /\ PoolInv
  /\ line # <<>> => \E p, k : p = packet /\ Coming(p, k)

\* A packet the host sends is a sequence of bytes, its frame has a first byte, a flag,
\* and a last one.
LEMMA RequestFramed ==
  ASSUME NEW p \in Request
  PROVE  /\ p \in Seq(Octet) /\ Len(p) \in Nat /\ Len(p) < LENGTH_SPAN
         /\ Frame(p) \in Seq(Octet) /\ Len(Frame(p)) \in Nat /\ Len(Frame(p)) >= 2
         /\ Frame(p)[1] = FLAG
<1>1. p \in Seq(Octet) /\ Len(p) < LENGTH_SPAN
  BY LineAssumption DEF Octet
<1>2. QED
  BY <1>1, FrameStart, LenProperties

\* Between two bytes the receiver keeps what it has, whatever the processor does.
LEMMA ComputeKeepsFill ==
  ASSUME TypeOK, PoolInv, Compute
  PROVE  /\ UNCHANGED <<current, buffer, escape_state>>
         /\ current # NULL => length'[current] = length[current]
<1>1. CASE Dispatch
  <2>1. current # NULL => current \in Packets /\ current # this
    BY DEF PoolInv, PoolShape, TypeOK
  <2>2. QED
    BY <1>1, <2>1 DEF Dispatch, TypeOK
<1>2. CASE \/ TXInterrupt \/ TXOpen \/ TXBody \/ TXClose \/ TXReturn
           \/ Dequeue \/ CrcChunk \/ Release \/ EndProc
  BY <1>2 DEF TXInterrupt, TXOpen, TXBody, TXClose, TXReturn, Dequeue, CrcChunk, Release,
              EndProc, fillVars
<1>3. QED
  BY <1>1, <1>2 DEF Compute

\* The next byte of the frame, unless it meets an overrun: behind the last one the
\* packet is complete in the slot, behind every other the receiver has one byte more.
LEMMA NextDelivered ==
  ASSUME TypeOK, PoolInv, NEW p, NEW k, Coming(p, k), line # <<>>, Deliver
  PROVE  /\ k + 1 < Len(Frame(p)) => Coming(p, k + 1)'
         /\ line' = <<>> <=> k + 1 = Len(Frame(p))
         /\ k + 1 = Len(Frame(p)) /\ ~dropped' =>
              /\ RXFlag /\ Filled = Len(p)
              /\ \A q \in 1 .. Len(p) :
                   q <= MAX_PACKET_SIZE => buffer[current][q - 1] = p[q]
<1>1. /\ p \in Request /\ k \in 0 .. Len(Frame(p)) - 1
      /\ line \in Seq(Octet) /\ Len(line) = Len(Frame(p)) - k
      /\ \A i \in 1 .. Len(line) : line[i] = Frame(p)[k + i]
      /\ ~dropped /\ k # 0 => Received(p, k)
  BY DEF Coming
<1>2. /\ p \in Seq(Octet) /\ Len(p) \in Nat /\ Len(p) < LENGTH_SPAN
      /\ Len(Frame(p)) \in Nat /\ Len(Frame(p)) >= 2 /\ Frame(p)[1] = FLAG
  BY <1>1, RequestFramed
<1>f. PICK f \in Nat : f = Len(Frame(p)) /\ f >= 2
  BY <1>2
<1>n. PICK n \in Nat : n = Len(line) /\ n = f - k /\ n >= 1 /\ k \in 0 .. f - 1
  BY <1>1, <1>f
<1>h. PICK ch : ch = Head(line)
  OBVIOUS
<1>3. /\ DRL_Packet_RX(ch) /\ line' = Tail(line) /\ dropped' = (dropped \/ ~CanFill)
      /\ packet' = packet
  BY <1>h DEF Deliver
<1>4. ch = Frame(p)[k + 1]
  <2>1. ch = line[1]
    BY <1>1, <1>h
  <2>2. 1 \in 1 .. n
    BY <1>n
  <2>3. QED
    BY <1>1, <1>n, <2>1, <2>2
<1>5. /\ Tail(line) \in Seq(Octet) /\ Len(Tail(line)) = n - 1
      /\ \A i \in 1 .. n - 1 : Tail(line)[i] = line[i + 1]
  BY <1>1, <1>n, HeadTailProperties
<1>6. line' = <<>> <=> k + 1 = f
  <2>1. Tail(line) = <<>> <=> Len(Tail(line)) = 0
    BY <1>5, EmptySeq
  <2>2. n - 1 = 0 <=> k + 1 = f
    BY <1>n
  <2>3. QED
    BY <1>3, <1>5, <2>1, <2>2
<1>7. ASSUME ~dropped'
      PROVE  \/ /\ k + 1 = f
                /\ RXFlag /\ Filled = Len(p)
                /\ \A q \in 1 .. Len(p) :
                     q <= MAX_PACKET_SIZE => buffer[current][q - 1] = p[q]
             \/ k + 1 < f /\ Received(p, k + 1)'
  <2>1. ~dropped /\ CanFill
    BY <1>3, <1>7
  <2>2. CASE k = 0
    <3>1. ch = FLAG
      BY <1>2, <1>4, <2>2
    <3>2. ~RXOverrun
      BY <2>1, PacketAssumption DEF RXOverrun, CanFill
    <3>3. RXFlag
      BY <1>3, <3>1, <3>2 DEF DRL_Packet_RX, FLAG, ESCAPE
    <3>4. Received(p, 1)'
      BY <1>2, <3>3, ReceiveStart
    <3>5. k + 1 = 1 /\ k + 1 < f
      BY <1>f, <2>2
    <3>6. QED
      BY <3>4, <3>5
  <2>3. CASE k # 0
    <3>1. Received(p, k)
      BY <1>1, <2>1, <2>3
    <3>2. \/ /\ k + 1 = Len(Frame(p))
             /\ RXFlag /\ Filled = Len(p)
             /\ \A q \in 1 .. Len(p) :
                  q <= MAX_PACKET_SIZE => buffer[current][q - 1] = p[q]
          \/ /\ k + 1 < Len(Frame(p))
             /\ RXEscape \/ RXData(ch)
             /\ Received(p, k + 1)'
      BY <1>2, <1>3, <1>4, <2>1, <3>1, ReceiveNext
    <3>3. QED
      BY <1>f, <3>2
  <2>4. QED
    BY <2>2, <2>3
<1>8. ASSUME k + 1 < f PROVE Coming(p, k + 1)'
  <2>m. PICK m \in Nat : m = k + 1 /\ m \in 0 .. f - 1 /\ m # 0 /\ n - 1 = f - m
    BY <1>n, <1>8
  <2>1. \A i \in 1 .. n - 1 : line'[i] = Frame(p)[m + i]
    <3> TAKE i \in 1 .. n - 1
    <3>1. i + 1 \in 1 .. n /\ k + (i + 1) = m + i
      BY <1>n, <2>m
    <3>2. line[i + 1] = Frame(p)[k + (i + 1)]
      BY <1>1, <1>n, <3>1
    <3>3. QED
      BY <1>3, <1>5, <3>1, <3>2
  <2>2. ~dropped' => Received(p, m)'
    BY <1>7, <1>8, <1>n, <2>m
  <2>3. line' \in Seq(Octet) /\ Len(line') = n - 1
    BY <1>3, <1>5
  <2>4. Coming(p, m)'
    BY <1>1, <1>f, <2>m, <2>1, <2>2, <2>3 DEF Coming
  <2>5. QED
    BY <2>m, <2>4
<1>9. QED
  BY <1>6, <1>7, <1>8, <1>f, <1>n

\* The invariant is inductive.
LEMMA LineStep ==
  ASSUME LineInv, [LineNext]_lineVars
  PROVE  LineInv'
<1>1. ASSUME NEW s \in Request, HostSend(s) PROVE LineInv'
  <2>1. UNCHANGED vars /\ line' = Frame(s) /\ packet' = s /\ dropped' = FALSE
    BY <1>1 DEF HostSend
  <2>2. TypeOK' /\ PoolInv'
    BY <2>1, TypeStep, PoolStep DEF LineInv
  <2>3. Coming(s, 0)'
    <3>1. /\ Frame(s) \in Seq(Octet) /\ Len(Frame(s)) \in Nat /\ Len(Frame(s)) >= 2
      BY RequestFramed
    <3>f. PICK f \in Nat : f = Len(Frame(s)) /\ f >= 2
      BY <3>1
    <3>2. 0 \in 0 .. f - 1 /\ f = f - 0 /\ \A i \in 1 .. f : 0 + i = i
      BY <3>f
    <3>3. QED
      BY <2>1, <3>1, <3>f, <3>2 DEF Coming
  <2>4. QED
    BY <2>1, <2>2, <2>3 DEF LineInv
<1>2. CASE Deliver
  <2>1. PICK p, k : p = packet /\ Coming(p, k)
    BY <1>2 DEF LineInv, Deliver
  <2>2. line # <<>> /\ DRL_Packet_RX(Head(line)) /\ packet' = packet
    BY <1>2 DEF Deliver
  <2>3. Head(line) \in 0 .. 255
    BY <2>1, <2>2, HeadTailProperties DEF Coming, Octet
  <2>4. TypeOK' /\ PoolInv'
    <3>1. [AnyStep]_vars
      BY <2>2, <2>3 DEF AnyStep
    <3>2. QED
      BY <3>1, TypeStep, PoolStep DEF LineInv
  <2>5. /\ k + 1 < Len(Frame(p)) => Coming(p, k + 1)'
        /\ line' = <<>> <=> k + 1 = Len(Frame(p))
    BY <1>2, <2>1, <2>2, NextDelivered DEF LineInv
  <2>6. line' # <<>> => k + 1 < Len(Frame(p))
    <3>1. p \in Request /\ k \in 0 .. Len(Frame(p)) - 1
      BY <2>1 DEF Coming
    <3>2. PICK f \in Nat : f = Len(Frame(p))
      BY <3>1, RequestFramed
    <3>3. QED
      BY <2>5, <3>1, <3>2
  <2>7. QED
    BY <2>1, <2>2, <2>4, <2>5, <2>6 DEF LineInv
<1>3. ASSUME NEW ch \in Noise, NoiseByte(ch) PROVE LineInv'
  <2>1. line' = <<>> /\ DRL_Packet_RX(ch) /\ ch \in 0 .. 255
    BY <1>3, LineAssumption DEF NoiseByte
  <2>2. [AnyStep]_vars
    BY <2>1 DEF AnyStep
  <2>3. QED
    BY <2>1, <2>2, TypeStep, PoolStep DEF LineInv
<1>4. ASSUME Compute \/ UNCHANGED vars, UNCHANGED <<line, packet, dropped>> PROVE LineInv'
  <2>1. TypeOK' /\ PoolInv'
    BY <1>4, TypeStep, PoolStep DEF LineInv, AnyStep
  <2>2. /\ UNCHANGED <<current, buffer, escape_state>>
        /\ current # NULL => length'[current] = length[current]
    <3>1. CASE Compute
      BY <3>1, ComputeKeepsFill DEF LineInv
    <3>2. CASE UNCHANGED vars
      BY <3>2 DEF vars, fillVars
    <3>3. QED
      BY <1>4, <3>1, <3>2
  <2>3. ASSUME line' # <<>> PROVE \E p, k : p = packet' /\ Coming(p, k)'
    <3>1. PICK p, k : p = packet /\ Coming(p, k)
      BY <1>4, <2>3 DEF LineInv
    <3>2. Received(p, k) => Received(p, k)'
      BY <2>2, ReceiveKept
    <3>3. Coming(p, k)'
      BY <1>4, <3>1, <3>2 DEF Coming
    <3>4. QED
      BY <1>4, <3>1, <3>3
  <2>4. QED
    BY <2>1, <2>3 DEF LineInv
<1>5. QED
  BY <1>1, <1>2, <1>3, <1>4 DEF LineNext, lineVars

\* In every state of the line and the loader.
LEMMA LineInvariant == LineSpec => []LineInv
<1>1. LineInit => LineInv
  BY TypeInit, PoolInit DEF LineInit, LineInv
<1>2. QED
  BY <1>1, LineStep, PTL DEF LineSpec

-----------------------------------------------------------------------------
(* What becomes of a frame.                                                *)

\* A frame ends with the delivery of its last byte, a flag, and finds the packet whole.
LEMMA FrameEndsWhole ==
  ASSUME LineInv, [LineNext]_lineVars, FrameEnds
  PROVE  \E p \in Request :
           /\ p = packet /\ p \in Seq(Octet) /\ Len(p) \in Nat
           /\ RXFlag /\ Filled = Len(p)
           /\ \A q \in 1 .. Len(p) :
                q <= MAX_PACKET_SIZE => buffer[current][q - 1] = p[q]
<1>1. line # <<>> /\ line' = <<>> /\ ~dropped'
  BY DEF FrameEnds
<1>2. Deliver
  BY <1>1 DEF LineNext, HostSend, NoiseByte, lineVars
<1>3. PICK p, k : p = packet /\ Coming(p, k)
  BY <1>1 DEF LineInv
<1>4. /\ RXFlag /\ Filled = Len(p)
      /\ \A q \in 1 .. Len(p) :
           q <= MAX_PACKET_SIZE => buffer[current][q - 1] = p[q]
  BY <1>1, <1>2, <1>3, NextDelivered DEF LineInv
<1>5. p \in Request
  BY <1>3 DEF Coming
<1>6. p \in Seq(Octet) /\ Len(p) \in Nat
  BY <1>5, RequestFramed
<1>7. QED
  BY <1>3, <1>4, <1>5, <1>6

\* Whatever the noise left behind, half a packet, an escape without its byte or a packet
\* past the capacity, a frame of legal length that follows it is queued with exactly the
\* contents the host sent (the flag in DRL_Packet_RX).
THEOREM NoiseSurvived == LineSpec => FrameSurvivesNoise
<1>1. ASSUME LineInv, [LineNext]_lineVars, FrameEnds, Len(packet) \in 3 .. MAX_PACKET_SIZE
      PROVE  waiting_last' # NULL /\ Content(waiting_last)' = packet
  <2>1. PICK p \in Request :
          /\ p = packet /\ p \in Seq(Octet) /\ Len(p) \in Nat
          /\ RXFlag /\ Filled = Len(p)
          /\ \A q \in 1 .. Len(p) :
               q <= MAX_PACKET_SIZE => buffer[current][q - 1] = p[q]
    BY <1>1, FrameEndsWhole
  <2>2. PICK slot : slot = Slot
    OBVIOUS
  <2>3. Enqueue /\ Content(slot)' = p
    BY <1>1, <2>1, <2>2, ReceiveEnd DEF LineInv
  <2>4. waiting_last' = slot /\ slot \in Packets
    BY <1>1, <2>1, <2>2, <2>3, SlotTyped DEF Enqueue, LineInv, RXFlag
  <2>5. Content(waiting_last)' = Content(slot)'
    BY <2>4 DEF Content
  <2>6. QED
    BY <2>1, <2>3, <2>4, <2>5, PacketAssumption
<1>2. QED
  BY <1>1, LineInvariant, PTL DEF FrameSurvivesNoise, LineSpec

\* "We will automatically discard packets that are too long": a frame longer than a slot
\* leaves the waiting list as it was (DRL_Packet_ProcCurrent).
THEOREM TooLongLeavesQueue == LineSpec => TooLongDiscarded
<1>1. ASSUME LineInv, [LineNext]_lineVars, FrameEnds, Len(packet) > MAX_PACKET_SIZE
      PROVE  <<waiting, waiting_last>>' = <<waiting, waiting_last>>
  <2>1. PICK p \in Request : p = packet /\ RXFlag /\ Filled = Len(p)
    BY <1>1, FrameEndsWhole
  <2>2. BadLength
    BY <1>1, <2>1 DEF BadLength
  <2>3. QED
    BY <2>1, <2>2 DEF RXFlag, Reject
<1>2. QED
  BY <1>1, LineInvariant, PTL DEF TooLongDiscarded, LineSpec
=============================================================================
