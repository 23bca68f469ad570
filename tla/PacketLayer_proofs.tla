------------------------ MODULE PacketLayer_proofs --------------------------
(***************************************************************************)
(* Proofs about PacketLayer: type correctness, the shape of the packet     *)
(* pool, the way of a frame through the receiver, and the packet queue the *)
(* layer implements, for every number of slots, every slot capacity, every *)
(* line and every depth of nested transmission.                            *)
(***************************************************************************)
EXTENDS PacketRefinement, TLAPS, FiniteSetTheorems, SequenceTheorems, WellFoundedInduction

-----------------------------------------------------------------------------
(* Bytes and answers.                                                      *)

\* Inverting bit 5 keeps a byte a byte.
LEMMA Xor20Byte ==
  ASSUME NEW ch \in 0 .. 255
  PROVE  Xor20(ch) \in 0 .. 255
<1>1. CASE ch >= 224
  <2>1. ch \div 32 = 7
    BY <1>1
  <2>2. QED
    BY <1>1, <2>1 DEF Xor20
<1>2. CASE ch < 32
  <2>1. ch \div 32 = 0
    BY <1>2
  <2>2. QED
    BY <1>2, <2>1 DEF Xor20
<1>3. CASE ch >= 32 /\ ch < 224
  BY <1>3 DEF Xor20
<1>4. QED
  BY <1>1, <1>2, <1>3

\* Every answer is of a known kind, and the gate stays a Boolean.
LEMMA RespondTyped ==
  ASSUME NEW packet, NEW need \in BOOLEAN, NEW a \in Respond(packet, need)
  PROVE  a.kind \in Kind /\ a.need_hello \in BOOLEAN
<1>1. \A kind \in Kind, gate \in BOOLEAN :
        /\ Answer(kind, gate).kind \in Kind
        /\ Answer(kind, gate).need_hello \in BOOLEAN
  BY DEF Answer
<1>2. \A x \in Handshake(packet[2], need) : \E kind \in Kind, gate \in BOOLEAN :
        x = Answer(kind, gate)
  BY DEF Handshake, Kind, ErrorKind
<1>3. \A x \in Handle(packet[1], packet[2], need) : \E kind \in Kind, gate \in BOOLEAN :
        x = Answer(kind, gate)
  BY <1>2 DEF Handle, DRL_Cmd_Info, DRL_Cmd_FlashSize, DRL_Packet_FlashRead,
              DRL_Packet_SendInvalid, Kind, ErrorKind
<1>4. \E kind \in Kind, gate \in BOOLEAN : a = Answer(kind, gate)
  BY <1>3 DEF Respond, Kind, ErrorKind
<1>5. QED
  BY <1>1, <1>4

-----------------------------------------------------------------------------
(* Steps.                                                                  *)

\* A step of the packet layer on a line that may deliver any byte: those of Next
\* and those of the specifications that put a host on the line.
AnyStep == Compute \/ \E ch \in 0 .. 255 : DRL_Packet_RX(ch)

\* The line of Spec delivers bytes.
LEMMA NextIsStep == Next => AnyStep
BY PacketAssumption DEF Next, AnyStep

\* Every non-empty set of natural numbers has a least element: induction, in a
\* form that does not quantify over operators.
LEMMA LeastNatural ==
  ASSUME NEW S \in SUBSET Nat, S # {}
  PROVE  \E m \in S : \A k \in S : m <= k
<1>1. PICK m \in S : \A k \in S : ~ (<<k, m>> \in OpToRel(<, Nat))
  BY NatLessThanWellFounded, WFMin
<1>2. \A k \in S : ~ (<<k, m>> \in {ss \in Nat \X Nat : ss[1] < ss[2]})
  BY <1>1 DEF OpToRel
<1>3. ASSUME NEW k \in S PROVE m <= k
  <2>1. <<k, m>> \in Nat \X Nat /\ k \in Nat /\ m \in Nat
    OBVIOUS
  <2>2. ~ (<<k, m>>[1] < <<k, m>>[2])
    BY <1>2, <2>1
  <2>3. QED
    BY <2>1, <2>2
<1>4. QED
  BY <1>3

-----------------------------------------------------------------------------
(* Type correctness.                                                       *)

\* Putting a new activation on the stack, replacing the top one and removing it
\* leaves a stack of activations.
LEMMA StackTyped ==
  ASSUME NEW S, NEW stack \in Seq(S), NEW t \in S
  PROVE  /\ Append(stack, t) \in Seq(S)
         /\ stack # <<>> => /\ [stack EXCEPT ![Len(stack)] = t] \in Seq(S)
                            /\ SubSeq(stack, 1, Len(stack) - 1) \in Seq(S)
                            /\ stack[Len(stack)] \in S
<1>1. Append(stack, t) \in Seq(S)
  OBVIOUS
<1>2. ASSUME stack # <<>>
      PROVE  /\ [stack EXCEPT ![Len(stack)] = t] \in Seq(S)
             /\ SubSeq(stack, 1, Len(stack) - 1) \in Seq(S)
             /\ stack[Len(stack)] \in S
  BY <1>2
<1>3. QED
  BY <1>1, <1>2

\* A step of the transmission loop keeps the stack and the line typed.
LEMMA SendFromTyped ==
  ASSUME TypeOK, calls # <<>>, NEW from \in Nat, NEW poll \in Nat,
         SendFrom(from, poll)
  PROVE  calls' \in Seq(Activation) /\ sent' \in Seq((Kind \cup {"old"}) \X Nat)
<1> DEFINE Symbol == (Kind \cup {"old"}) \X Nat
           end  == IF poll < reply.len THEN poll ELSE reply.len
           next == IF end > from THEN end ELSE from + 1
           out  == [k \in 1 .. next - from |-> ReplyByte(from + k - 1)]
<1>1. \A i \in Nat : ReplyByte(i) \in Symbol
  BY DEF TypeOK, ReplyByte
<1>2. next - from \in Nat
  BY DEF TypeOK
<1>3. out \in Seq(Symbol)
  <2> HIDE DEF Symbol
  <2>1. \A k \in 1 .. next - from : ReplyByte(from + k - 1) \in Symbol
    BY <1>1, <1>2
  <2>2. QED
    BY <1>2, <2>1
<1>4. sent' \in Seq(Symbol)
  <2> HIDE DEF Symbol, out
  <2>1. sent' = out \/ sent' = sent \o out
    BY DEF SendFrom, out
  <2>2. sent \in Seq(Symbol)
    BY DEF TypeOK, Symbol
  <2>3. QED
    BY <1>3, <2>1, <2>2, ConcatProperties
<1>5. calls' \in Seq(Activation)
  <2> DEFINE t == IF poll < reply.len THEN [at |-> "body", i |-> poll]
                                      ELSE [at |-> "close", i |-> 0]
  <2>1. t \in Activation
    BY DEF Activation
  <2>2. calls' = Goto(t)
    BY DEF SendFrom
  <2>3. calls \in Seq(Activation)
    BY DEF TypeOK
  <2>4. QED
    <3> HIDE DEF t
    <3> QED
      BY <2>1, <2>2, <2>3, StackTyped DEF Goto
<1>6. QED
  BY <1>4, <1>5

\* An activation that moves to another stage, or returns, leaves the stack typed.
LEMMA MarkTyped ==
  ASSUME TypeOK, calls # <<>>
  PROVE  /\ Pop \in Seq(Activation)
         /\ Goto([at |-> "opened", i |-> 0]) \in Seq(Activation)
         /\ Goto([at |-> "closed", i |-> 0]) \in Seq(Activation)
<1>1. calls \in Seq(Activation)
  BY DEF TypeOK
<1>2. Pop \in Seq(Activation)
  BY <1>1, StackTyped DEF Pop
<1>3. \A t \in Activation : Goto(t) \in Seq(Activation)
  BY <1>1, StackTyped DEF Goto
<1>4. [at |-> "opened", i |-> 0] \in Activation /\ [at |-> "closed", i |-> 0] \in Activation
  BY DEF Activation
<1>5. QED
  BY <1>2, <1>3, <1>4

\* Filling the reply buffer keeps it typed.
LEMMA StartTXTyped ==
  ASSUME TypeOK, NEW kind \in Kind, StartTX(kind)
  PROVE  reply' \in [kind : Kind, len : Nat] /\ calls' \in Seq(Activation)
<1>1. [at |-> "open", i |-> 0] \in Activation
  BY DEF Activation
<1>2. calls' \in Seq(Activation)
  BY <1>1, StackTyped DEF StartTX, TypeOK
<1>3. REPLY_LENGTH[kind] \in Nat
  BY PacketAssumption
<1>4. QED
  BY <1>2, <1>3 DEF StartTX

\* The slot that takes the next byte, its length and the links around it.
LEMMA SlotTyped ==
  ASSUME TypeOK, CanFill
  PROVE  /\ Slot \in Packets
         /\ Filled \in 0 .. LENGTH_SPAN - 1
         /\ SlotNxt \in [Packets -> Packets \cup {NULL}]
         /\ current = NULL => free_list \in Packets
BY PacketAssumption DEF TypeOK, CanFill, Slot, Filled, SlotNxt

\* A function written at one place stays one.
LEMMA EntryStays ==
  ASSUME NEW S, NEW T, NEW f \in [S -> T], NEW i, NEW v \in T
  PROVE  [f EXCEPT ![i] = v] \in [S -> T]
OBVIOUS

\* Every step keeps every variable typed, whatever byte the line delivers.
LEMMA TypeStep ==
  ASSUME TypeOK, [AnyStep]_vars
  PROVE  TypeOK'
<1> USE PacketAssumption DEF TypeOK
<1>1. CASE TXOpen
  <2>1. calls' \in Seq(Activation) /\ sent' \in Seq((Kind \cup {"old"}) \X Nat)
    BY <1>1, SendFromTyped DEF TXOpen
  <2>2. QED
    BY <1>1, <2>1 DEF TXOpen, poolVars, fillVars, procVars
<1>2. CASE TXBody
  <2>1. Top \in Activation
    BY <1>2, StackTyped DEF TXBody, Top
  <2>2. Top.i \in Nat /\ Top.i + TX_POLL \in Nat
    BY <2>1 DEF Activation
  <2>3. calls' \in Seq(Activation) /\ sent' \in Seq((Kind \cup {"old"}) \X Nat)
    BY <1>2, <2>2, SendFromTyped DEF TXBody
  <2>4. QED
    BY <1>2, <2>3 DEF TXBody, poolVars, fillVars, procVars
<1>3. CASE TXInterrupt \/ TXClose \/ TXReturn
  <2>1. calls' \in Seq(Activation)
    BY <1>3, MarkTyped DEF TXInterrupt, TXClose, TXReturn
  <2>2. sent' \in Seq((Kind \cup {"old"}) \X Nat)
    <3> DEFINE Symbols == Seq((Kind \cup {"old"}) \X Nat)
    <3>1. sent' = sent \/ sent' = <<>>
      BY <1>3 DEF TXInterrupt, TXClose, TXReturn
    <3>2. sent \in Symbols /\ <<>> \in Symbols
      OBVIOUS
    <3>3. sent' \in Symbols
      <4> HIDE DEF Symbols, TypeOK
      <4> QED
        BY <3>1, <3>2
    <3>4. QED
      BY <3>3
  <2>3. UNCHANGED <<poolVars, fillVars, procVars, reply, need_hello>>
    BY <1>3 DEF TXInterrupt, TXClose, TXReturn
  <2>4. QED
    BY <2>1, <2>2, <2>3 DEF poolVars, fillVars, procVars
<1>4. CASE Dequeue
  BY <1>4 DEF Dequeue, fillVars, txVars
<1>5. CASE CrcChunk
  BY SMTT(30), <1>5 DEF CrcChunk, poolVars, fillVars, txVars
<1>6. CASE Dispatch
  <2>1. PICK a \in Respond(Content(this), need_hello) :
          StartTX(a.kind) /\ need_hello' = a.need_hello
    BY <1>6 DEF Dispatch
  <2>2. a.kind \in Kind /\ a.need_hello \in BOOLEAN
    BY RespondTyped
  <2>3. reply' \in [kind : Kind, len : Nat] /\ calls' \in Seq(Activation)
    BY <2>1, <2>2, StartTXTyped
  <2>4. length' \in [Packets -> 0 .. LENGTH_SPAN - 1]
    <3>1. this \in Packets /\ length[this] \in Int
      BY <1>6 DEF Dispatch
    <3>2. (length[this] - 2) % LENGTH_SPAN \in 0 .. LENGTH_SPAN - 1
      BY SMTT(30), <3>1
    <3>3. QED
      BY <1>6, <3>2 DEF Dispatch
  <2>5. QED
    BY <1>6, <2>1, <2>2, <2>3, <2>4 DEF Dispatch, poolVars
<1>7. CASE Release
  BY <1>7 DEF Release, fillVars, txVars
<1>8. CASE EndProc
  BY <1>8 DEF EndProc, poolVars, fillVars, txVars
<1>9. CASE RXOverrun
  <2>1. reply' \in [kind : Kind, len : Nat] /\ calls' \in Seq(Activation)
    BY <1>9, StartTXTyped DEF RXOverrun, Kind, ErrorKind
  <2>2. QED
    BY <1>9, <2>1 DEF RXOverrun, poolVars, fillVars, procVars
<1>10. CASE RXFlag
  <2>1. /\ Slot \in Packets /\ SlotNxt \in [Packets -> Packets \cup {NULL}]
        /\ Filled \in 0 .. LENGTH_SPAN - 1
        /\ free_list' \in Packets \cup {NULL}
    BY <1>10, SlotTyped DEF RXFlag, Claim
  <2>2. CASE Reject
    <3>1. length' \in [Packets -> 0 .. LENGTH_SPAN - 1]
      BY <2>1, <2>2 DEF Reject
    <3>2. QED
      BY <1>10, <2>1, <2>2, <3>1 DEF RXFlag, Reject, procVars, txVars
  <2>3. CASE Enqueue
    BY <1>10, <2>1, <2>3 DEF RXFlag, Enqueue, procVars, txVars
  <2>4. QED
    BY <1>10, <2>2, <2>3 DEF RXFlag
<1>11. CASE RXEscape
  BY <1>11, SlotTyped DEF RXEscape, Claim, procVars, txVars
<1>12. ASSUME NEW ch \in 0 .. 255, RXData(ch) PROVE TypeOK'
  <2>1. /\ Slot \in Packets /\ SlotNxt \in [Packets -> Packets \cup {NULL}]
        /\ Filled \in 0 .. LENGTH_SPAN - 1
        /\ free_list' \in Packets \cup {NULL}
    BY <1>12, SlotTyped DEF RXData, Claim
  <2>2. Counted(Filled) \in 0 .. LENGTH_SPAN - 1
    BY <2>1, PacketAssumption DEF Counted
  <2>3. ch \in 0 .. 255 /\ Xor20(ch) \in 0 .. 255
    BY Xor20Byte
  <2>4. /\ buffer' \in [Packets -> [0 .. MAX_PACKET_SIZE - 1 -> 0 .. 255]]
        /\ escape_state' \in BOOLEAN
    <3> DEFINE byte == IF escape_state THEN Xor20(ch) ELSE ch
               row  == [buffer[Slot] EXCEPT ![Filled] = byte]
    <3>1. row \in [0 .. MAX_PACKET_SIZE - 1 -> 0 .. 255]
      <4>1. buffer[Slot] \in [0 .. MAX_PACKET_SIZE - 1 -> 0 .. 255]
        BY <2>1 DEF TypeOK
      <4>2. byte \in 0 .. 255
        BY <2>3
      <4> HIDE DEF byte
      <4> QED
        BY <4>1, <4>2, EntryStays, Zenon
    <3>2. [buffer EXCEPT ![Slot] = row] \in
            [Packets -> [0 .. MAX_PACKET_SIZE - 1 -> 0 .. 255]]
      BY <2>1, <3>1
    <3>3. QED
      BY ZenonT(60), <1>12, <3>2 DEF RXData
  <2>5. QED
    BY <1>12, <2>1, <2>2, <2>4 DEF RXData, procVars, txVars
<1>13. CASE UNCHANGED vars
  BY <1>13 DEF vars, poolVars, fillVars, procVars, txVars
<1>14. QED
  BY <1>1, <1>2, <1>3, <1>4, <1>5, <1>6, <1>7, <1>8, <1>9, <1>10, <1>11,
     <1>12, <1>13 DEF AnyStep, Compute, DRL_Packet_RX

\* DRL_Packet_Setup leaves every variable typed.
LEMMA TypeInit == Init => TypeOK
<1> SUFFICES ASSUME Init PROVE TypeOK
  OBVIOUS
<1>1. nxt \in [Packets -> Packets \cup {NULL}] /\ free_list \in Packets
  BY PacketAssumption DEF Init, Packets
<1>2. /\ length \in [Packets -> 0 .. LENGTH_SPAN - 1]
      /\ buffer \in [Packets -> [0 .. MAX_PACKET_SIZE - 1 -> 0 .. 255]]
  BY PacketAssumption DEF Init
<1>3. reply \in [kind : Kind, len : Nat]
  BY DEF Init, Kind, ErrorKind
<1>4. /\ calls \in Seq(Activation)
      /\ sent \in Seq((Kind \cup {"old"}) \X Nat)
  BY DEF Init
<1>5. QED
  BY <1>1, <1>2, <1>3, <1>4 DEF Init, TypeOK

\* Every variable of the packet layer keeps its type, the links of the slots among them
\* (packet_io.c:20).
THEOREM TypeCorrect == Spec => []TypeOK
<1>1. Init => TypeOK
  BY TypeInit
<1>2. TypeOK /\ [Next]_vars => TypeOK'
  BY NextIsStep, TypeStep
<1>3. QED
  BY <1>1, <1>2, PTL DEF Spec

-----------------------------------------------------------------------------
(* Linked lists: what the four list operations of the packet layer do to   *)
(* the sequence of slots a list stands for.                                *)

\* Links outside a list do not matter to it.
LEMMA ListFrame ==
  ASSUME NEW link, NEW link2, NEW head, NEW s \in Seq(Packets),
         ListUnder(link, head, s),
         \A p \in Packets : On(s, p) => link2[p] = link[p]
  PROVE  ListUnder(link2, head, s)
<1>1. \A i \in 1 .. Len(s) : s[i] \in Packets /\ On(s, s[i])
  BY DEF On
<1>2. QED
  BY <1>1 DEF ListUnder

\* Taking the head of a list.
LEMMA ListTake ==
  ASSUME NEW link \in [Packets -> Packets \cup {NULL}], NEW head \in Packets,
         NEW s \in Seq(Packets), ListUnder(link, head, s)
  PROVE  /\ s # <<>> /\ head = s[1] /\ Tail(s) \in Seq(Packets)
         /\ ListUnder([link EXCEPT ![head] = NULL], link[head], Tail(s))
         /\ link[head] = NULL <=> Tail(s) = <<>>
         /\ Tail(s) # <<>> => Tail(s)[Len(Tail(s))] = s[Len(s)]
         /\ \A p \in Packets : On(Tail(s), p) <=> On(s, p) /\ p # head
<1> DEFINE t == Tail(s)
<1>1. s # <<>> /\ head = s[1]
  BY PacketAssumption DEF ListUnder
<1>2. /\ t \in Seq(Packets) /\ Len(t) = Len(s) - 1 /\ Len(s) \in Nat \ {0}
      /\ \A i \in 1 .. Len(t) : t[i] = s[i + 1]
  BY <1>1
<1>3. t # <<>> => t[Len(t)] = s[Len(s)]
  BY <1>2
<1>3a. \A i \in 1 .. Len(t) : i + 1 \in 1 .. Len(s) /\ i + 1 # 1 /\ s[i + 1] \in Packets
  BY <1>2
<1> HIDE DEF t
<1>3b. /\ \A i \in 1 .. Len(s) : link[s[i]] = IF i = Len(s) THEN NULL ELSE s[i + 1]
       /\ \A i, j \in 1 .. Len(s) : s[i] = s[j] => i = j
  BY DEF ListUnder
<1>3c. 1 \in 1 .. Len(s)
  BY <1>2
<1>4. \A i \in 1 .. Len(t) : t[i] \in Packets /\ t[i] # head
  <2> TAKE i \in 1 .. Len(t)
  <2>1. t[i] = s[i + 1] /\ i + 1 \in 1 .. Len(s) /\ i + 1 # 1 /\ s[i + 1] \in Packets
    BY <1>2, <1>3a
  <2>2. s[i + 1] # s[1]
    BY <2>1, <1>3b, <1>3c
  <2>3. QED
    BY <2>1, <2>2, <1>1
<1>5. link[head] = IF t = <<>> THEN NULL ELSE t[1]
  <2>1. link[s[1]] = IF 1 = Len(s) THEN NULL ELSE s[1 + 1]
    BY <1>3b, <1>3c
  <2>2. t = <<>> <=> Len(s) = 1
    BY <1>2
  <2>3. t # <<>> => t[1] = s[1 + 1]
    BY <1>2
  <2>4. QED
    BY <1>1, <2>1, <2>2, <2>3
<1>6. link[head] = NULL <=> t = <<>>
  BY <1>2, <1>4, <1>5, PacketAssumption
<1>7. \A i \in 1 .. Len(t) : link[t[i]] = IF i = Len(t) THEN NULL ELSE t[i + 1]
  <2> TAKE i \in 1 .. Len(t)
  <2>1. t[i] = s[i + 1] /\ i + 1 \in 1 .. Len(s)
    BY <1>2, <1>3a
  <2>2. link[s[i + 1]] = IF i + 1 = Len(s) THEN NULL ELSE s[i + 1 + 1]
    BY <2>1, <1>3b
  <2>3. i + 1 = Len(s) <=> i = Len(t)
    BY <1>2
  <2>4. i # Len(t) => i + 1 \in 1 .. Len(t)
    BY <1>2
  <2>5. i # Len(t) => t[i + 1] = s[i + 1 + 1]
    BY <2>4, <1>2
  <2>6. QED
    BY <2>1, <2>2, <2>3, <2>5
<1>8. \A i, j \in 1 .. Len(t) : t[i] = t[j] => i = j
  <2> TAKE i, j \in 1 .. Len(t)
  <2>1. t[i] = s[i + 1] /\ t[j] = s[j + 1] /\ i + 1 \in 1 .. Len(s) /\ j + 1 \in 1 .. Len(s)
    BY <1>2, <1>3a
  <2>2. s[i + 1] = s[j + 1] => i + 1 = j + 1
    BY <2>1, <1>3b
  <2>3. QED
    BY <2>1, <2>2
<1>9. ListUnder([link EXCEPT ![head] = NULL], link[head], t)
  BY <1>2, <1>4, <1>5, <1>7, <1>8 DEF ListUnder
<1>10. \A p \in Packets : On(t, p) <=> On(s, p) /\ p # head
  <2> TAKE p \in Packets
  <2>1. ASSUME On(t, p) PROVE On(s, p) /\ p # head
    <3>1. PICK i \in 1 .. Len(t) : t[i] = p
      BY <2>1 DEF On
    <3>2. i + 1 \in 1 .. Len(s) /\ s[i + 1] = p
      BY <3>1, <1>2
    <3>3. QED
      BY <3>1, <3>2, <1>4 DEF On
  <2>2. ASSUME On(s, p), p # head PROVE On(t, p)
    <3>1. PICK i \in 1 .. Len(s) : s[i] = p
      BY <2>2 DEF On
    <3>2. i - 1 \in 1 .. Len(t) /\ t[i - 1] = p
      BY <3>1, <2>2, <1>1, <1>2
    <3>3. QED
      BY <3>2 DEF On
  <2>3. QED
    BY <2>1, <2>2
<1>11. QED
  BY <1>1, <1>2, <1>3, <1>6, <1>9, <1>10 DEF t

\* Putting a slot that is not on a list at its end.
LEMMA ListAppend ==
  ASSUME NEW link \in [Packets -> Packets \cup {NULL}], NEW head,
         NEW s \in Seq(Packets), NEW x \in Packets,
         ListUnder(link, head, s), ~On(s, x), link[x] = NULL
  PROVE  /\ Append(s, x) \in Seq(Packets)
         /\ s = <<>> => ListUnder(link, x, Append(s, x))
         /\ s # <<>> => ListUnder([link EXCEPT ![s[Len(s)]] = x], head, Append(s, x))
         /\ Append(s, x)[Len(Append(s, x))] = x /\ Append(s, x) # <<>>
         /\ \A p \in Packets : On(Append(s, x), p) <=> On(s, p) \/ p = x
<1> DEFINE t == Append(s, x)
<1>1. /\ t \in Seq(Packets) /\ Len(t) = Len(s) + 1 /\ t[Len(t)] = x
      /\ \A i \in 1 .. Len(s) : t[i] = s[i]
      /\ Len(s) \in Nat /\ t # <<>>
  OBVIOUS
<1>2. \A i \in 1 .. Len(s) : s[i] \in Packets /\ s[i] # x
  BY DEF On
<1> HIDE DEF t
<1>3. s = <<>> => ListUnder(link, x, t)
  BY <1>1 DEF ListUnder
<1>4. ASSUME s # <<>>
      PROVE  ListUnder([link EXCEPT ![s[Len(s)]] = x], head, t)
  <2> DEFINE last  == s[Len(s)]
             link2 == [link EXCEPT ![last] = x]
  <2>1. last \in Packets /\ last # x /\ Len(s) \in 1 .. Len(s)
    BY <1>1, <1>2, <1>4
  <2>2. \A i \in 1 .. Len(s) : s[i] = last => i = Len(s)
    BY <2>1 DEF ListUnder
  <2>3. /\ link2[last] = x /\ link2[x] = NULL
        /\ \A i \in 1 .. Len(s) : i # Len(s) => link2[s[i]] = s[i + 1]
    BY <1>1, <1>2, <2>1, <2>2 DEF ListUnder
  <2>4. head = t[1]
    BY <1>1, <1>4 DEF ListUnder
  <2>5. ASSUME NEW i \in 1 .. Len(t)
        PROVE  link2[t[i]] = IF i = Len(t) THEN NULL ELSE t[i + 1]
    <3> HIDE DEF link2, last
    <3>1. CASE i = Len(t)
      BY <3>1, <1>1, <2>3
    <3>2. CASE i = Len(s)
      BY <3>2, <1>1, <2>1, <2>3 DEF last
    <3>3. CASE i < Len(s)
      <4>1. i \in 1 .. Len(s) /\ i + 1 \in 1 .. Len(s)
        BY <3>3, <1>1
      <4>2. QED
        BY <3>3, <4>1, <1>1, <2>3
    <3>4. QED
      BY <3>1, <3>2, <3>3, <1>1
  <2>6. \A i, j \in 1 .. Len(t) : t[i] = t[j] => i = j
    BY <1>1, <1>2 DEF ListUnder
  <2>7. QED
    BY <2>4, <2>5, <2>6, <1>1 DEF ListUnder
<1>5. \A p \in Packets : On(t, p) <=> On(s, p) \/ p = x
  <2> TAKE p \in Packets
  <2>1. ASSUME On(t, p) PROVE On(s, p) \/ p = x
    <3>1. PICK i \in 1 .. Len(t) : t[i] = p
      BY <2>1 DEF On
    <3>2. CASE i = Len(t)
      BY <3>1, <3>2, <1>1
    <3>3. CASE i # Len(t)
      <4>1. i \in 1 .. Len(s) /\ s[i] = p
        BY <3>1, <3>3, <1>1
      <4>2. QED
        BY <4>1 DEF On
    <3>4. QED
      BY <3>2, <3>3
  <2>2. ASSUME On(s, p) PROVE On(t, p)
    <3>1. PICK i \in 1 .. Len(s) : s[i] = p
      BY <2>2 DEF On
    <3>2. i \in 1 .. Len(t) /\ t[i] = p
      BY <3>1, <1>1
    <3>3. QED
      BY <3>2 DEF On
  <2>3. ASSUME p = x PROVE On(t, p)
    <3>1. Len(t) \in 1 .. Len(t) /\ t[Len(t)] = p
      BY <2>3, <1>1
    <3>2. QED
      BY <3>1 DEF On
  <2>4. QED
    BY <2>1, <2>2, <2>3
<1>6. QED
  BY <1>1, <1>3, <1>4, <1>5 DEF t

\* Putting a slot that is not on a list at its head.
LEMMA ListPush ==
  ASSUME NEW link \in [Packets -> Packets \cup {NULL}], NEW head,
         NEW s \in Seq(Packets), NEW x \in Packets,
         ListUnder(link, head, s), ~On(s, x)
  PROVE  /\ <<x>> \o s \in Seq(Packets)
         /\ ListUnder([link EXCEPT ![x] = head], x, <<x>> \o s)
         /\ \A p \in Packets : On(<<x>> \o s, p) <=> On(s, p) \/ p = x
<1> DEFINE t     == <<x>> \o s
           link2 == [link EXCEPT ![x] = head]
<1>1. /\ t \in Seq(Packets) /\ Len(t) = Len(s) + 1 /\ t[1] = x
      /\ \A i \in 1 .. Len(s) : t[i + 1] = s[i]
      /\ Len(s) \in Nat /\ t # <<>>
  OBVIOUS
<1>2. \A i \in 1 .. Len(s) : s[i] \in Packets /\ s[i] # x
  BY DEF On
<1> HIDE DEF t
<1>3. \A i \in 2 .. Len(t) : i - 1 \in 1 .. Len(s) /\ t[i] = s[i - 1]
  BY <1>1
<1>4. /\ link2[x] = head
      /\ \A i \in 1 .. Len(s) : link2[s[i]] = link[s[i]]
  BY <1>2
<1>5. ASSUME NEW i \in 1 .. Len(t)
      PROVE  link2[t[i]] = IF i = Len(t) THEN NULL ELSE t[i + 1]
  <2> HIDE DEF link2
  <2>1. CASE i = 1
    <3>1. CASE s = <<>>
      BY <2>1, <3>1, <1>1, <1>4 DEF ListUnder
    <3>2. CASE s # <<>>
      <4>1. Len(s) >= 1 /\ t[2] = s[1]
        BY <3>2, <1>1, <1>3
      <4>2. QED
        BY <2>1, <3>2, <4>1, <1>1, <1>4 DEF ListUnder
    <3>3. QED
      BY <3>1, <3>2
  <2>2. CASE i # 1
    <3>1. i - 1 \in 1 .. Len(s) /\ t[i] = s[i - 1]
      BY <2>2, <1>1, <1>3
    <3>2. link2[t[i]] = IF i - 1 = Len(s) THEN NULL ELSE s[i - 1 + 1]
      BY <3>1, <1>4 DEF ListUnder
    <3>3. i # Len(t) => t[i + 1] = s[i]
      BY <3>1, <1>1
    <3>4. QED
      BY <3>1, <3>2, <3>3, <1>1
  <2>3. QED
    BY <2>1, <2>2
<1>6. ASSUME NEW i \in 1 .. Len(t), NEW j \in 1 .. Len(t), t[i] = t[j]
      PROVE  i = j
  <2>1. ASSUME i # 1, j # 1 PROVE i = j
    <3>1. i - 1 \in 1 .. Len(s) /\ j - 1 \in 1 .. Len(s) /\ s[i - 1] = s[j - 1]
      BY <2>1, <1>1, <1>3, <1>6
    <3>2. i - 1 = j - 1
      BY <3>1 DEF ListUnder
    <3>3. QED
      BY <3>1, <3>2
  <2>2. ASSUME i = 1, j # 1 PROVE FALSE
    <3>1. j - 1 \in 1 .. Len(s) /\ t[j] = s[j - 1]
      BY <2>2, <1>1, <1>3
    <3>2. QED
      BY <3>1, <2>2, <1>1, <1>2, <1>6
  <2>3. ASSUME i # 1, j = 1 PROVE FALSE
    <3>1. i - 1 \in 1 .. Len(s) /\ t[i] = s[i - 1]
      BY <2>3, <1>1, <1>3
    <3>2. QED
      BY <3>1, <2>3, <1>1, <1>2, <1>6
  <2>4. QED
    BY <2>1, <2>2, <2>3
<1>7. ListUnder(link2, x, t)
  BY <1>1, <1>5, <1>6 DEF ListUnder
<1>8. \A p \in Packets : On(t, p) <=> On(s, p) \/ p = x
  <2> TAKE p \in Packets
  <2>1. ASSUME On(t, p) PROVE On(s, p) \/ p = x
    BY SMTT(30), <2>1, <1>1, <1>3 DEF On
  <2>2. ASSUME On(s, p) PROVE On(t, p)
    <3>1. PICK i \in 1 .. Len(s) : s[i] = p
      BY <2>2 DEF On
    <3>2. i + 1 \in 1 .. Len(t) /\ t[i + 1] = p
      BY <3>1, <1>1
    <3>3. QED
      BY <3>2 DEF On
  <2>3. ASSUME p = x PROVE On(t, p)
    BY <2>3, <1>1 DEF On
  <2>4. QED
    BY <2>1, <2>2, <2>3
<1>9. QED
  BY <1>1, <1>7, <1>8 DEF t
-----------------------------------------------------------------------------
(* The pool.                                                               *)

\* The inductive invariant: PoolIntact with sequences of any length.
PoolInv == \E w, f \in Seq(Packets) : PoolShape(w, f) /\ InBounds(w)

\* Steps that touch no list, no length and no owner of a slot.
LEMMA StableStep ==
  ASSUME PoolInv, UNCHANGED <<poolVars, current, length, this>>,
         at' = "crc" => at = "crc"
  PROVE  PoolInv'
<1>1. PICK w \in Seq(Packets), f \in Seq(Packets) : PoolShape(w, f) /\ InBounds(w)
  BY DEF PoolInv
<1>2. PoolShape(w, f)' /\ InBounds(w)'
  BY <1>1 DEF PoolShape, IsList, ListUnder, On, InBounds, poolVars
<1>3. QED
  BY <1>1, <1>2 DEF PoolInv

\* Where a received byte finds the pool: the slot it goes to belongs to no list
\* and ends its own, and the rest of the pool is whole.
LEMMA ClaimShape ==
  ASSUME TypeOK, CanFill, NEW w \in Seq(Packets), NEW f \in Seq(Packets),
         PoolShape(w, f)
  PROVE  \E g \in Seq(Packets) :
           /\ ListUnder(SlotNxt, waiting, w)
           /\ ListUnder(SlotNxt, IF current = NULL THEN nxt[free_list]
                                                   ELSE free_list, g)
           /\ SlotNxt[Slot] = NULL
           /\ Slot # this
           /\ \A p \in Packets :
                /\ On(w, p) => ~On(g, p) /\ p # Slot /\ p # this
                /\ On(g, p) => p # Slot /\ p # this
                /\ On(w, p) \/ On(g, p) \/ p = Slot \/ p = this
<1>1. CASE current # NULL
  <2>1. Slot = current /\ SlotNxt = nxt /\ Slot \in Packets
    BY <1>1 DEF Slot, SlotNxt, TypeOK
  <2>2. QED
    BY <1>1, <2>1 DEF PoolShape, IsList
<1>2. CASE current = NULL
  <2>1. /\ Slot = free_list /\ SlotNxt = [nxt EXCEPT ![free_list] = NULL]
        /\ free_list \in Packets /\ nxt \in [Packets -> Packets \cup {NULL}]
    BY <1>2 DEF Slot, SlotNxt, CanFill, TypeOK
  <2>2. ListUnder(nxt, free_list, f) /\ ListUnder(nxt, waiting, w)
    BY DEF PoolShape, IsList
  <2>3. /\ f # <<>> /\ free_list = f[1] /\ Tail(f) \in Seq(Packets)
        /\ ListUnder(SlotNxt, nxt[free_list], Tail(f))
        /\ \A p \in Packets : On(Tail(f), p) <=> On(f, p) /\ p # free_list
    BY <2>1, <2>2, ListTake
  <2>4. On(f, free_list)
    <3>1. 1 \in 1 .. Len(f)
      BY <2>3
    <3>2. QED
      BY <3>1, <2>3 DEF On
  <2>5. \A p \in Packets : On(w, p) => p # free_list
    BY <2>1, <2>4 DEF PoolShape
  <2>6. ListUnder(SlotNxt, waiting, w)
    <3>1. \A p \in Packets : On(w, p) => SlotNxt[p] = nxt[p]
      BY <2>1, <2>5
    <3>2. QED
      BY <3>1, <2>2, ListFrame
  <2>7. SlotNxt[Slot] = NULL
    BY <2>1
  <2>8. Slot # this
    BY <2>1, <2>4 DEF PoolShape
  <2>9. \A p \in Packets :
          /\ On(w, p) => ~On(Tail(f), p) /\ p # Slot /\ p # this
          /\ On(Tail(f), p) => p # Slot /\ p # this
          /\ On(w, p) \/ On(Tail(f), p) \/ p = Slot \/ p = this
    BY <1>2, <2>1, <2>3, <2>5, PacketAssumption DEF PoolShape
  <2>10. QED
    BY <1>2, <2>3, <2>6, <2>7, <2>8, <2>9
<1>3. QED
  BY <1>1, <1>2

\* A byte that does not end a packet, or a flag that ends one of a wrong length.
LEMMA FillStep ==
  ASSUME TypeOK, PoolInv, CanFill, Claim,
         current' = Slot, nxt' = SlotNxt,
         UNCHANGED <<waiting, waiting_last, at, this>>,
         \A p \in Packets : p # Slot => length'[p] = length[p]
  PROVE  PoolInv'
<1>1. PICK w \in Seq(Packets), f \in Seq(Packets) : PoolShape(w, f) /\ InBounds(w)
  BY DEF PoolInv
<1>2. PICK g \in Seq(Packets) :
        /\ ListUnder(SlotNxt, waiting, w)
        /\ ListUnder(SlotNxt, free_list', g)
        /\ SlotNxt[Slot] = NULL
        /\ Slot # this
        /\ \A p \in Packets :
             /\ On(w, p) => ~On(g, p) /\ p # Slot /\ p # this
             /\ On(g, p) => p # Slot /\ p # this
             /\ On(w, p) \/ On(g, p) \/ p = Slot \/ p = this
  BY <1>1, ClaimShape DEF Claim
<1>3. PoolShape(w, g)'
  <2>1. waiting_last = IF w = <<>> THEN NULL ELSE w[Len(w)]
    BY <1>1 DEF PoolShape
  <2>2. (/\ IsList(waiting, w)
         /\ IsList(free_list, g))'
    BY <1>2 DEF IsList, ListUnder
  <2>3. QED
    BY <1>2, <2>1, <2>2 DEF PoolShape, On
<1>4. InBounds(w)'
  <2>1. \A i \in 1 .. Len(w) : w[i] \in Packets /\ On(w, w[i])
    BY DEF On
  <2>2. \A i \in 1 .. Len(w) : length'[w[i]] = length[w[i]]
    BY <1>2, <2>1
  <2>3. at = "crc" => this \in Packets /\ this # Slot
    BY <1>2 DEF TypeOK
  <2>4. QED
    BY <1>1, <2>2, <2>3 DEF InBounds
<1>5. QED
  BY <1>3, <1>4 DEF PoolInv

\* Ending a packet puts its slot at the end of the waiting list.
LEMMA EnqueueList ==
  ASSUME TypeOK, CanFill, Enqueue, NEW w \in Seq(Packets), NEW f \in Seq(Packets),
         PoolShape(w, f)
  PROVE  /\ Slot \in Packets /\ ~On(w, Slot)
         /\ Append(w, Slot) \in Seq(Packets)
         /\ ListUnder(nxt', waiting', Append(w, Slot))
         /\ waiting_last' = Append(w, Slot)[Len(Append(w, Slot))]
         /\ \A p \in Packets : On(Append(w, Slot), p) <=> On(w, p) \/ p = Slot
         /\ \A p \in Packets : ~On(w, p) => nxt'[p] = SlotNxt[p]
<1>1. PICK v : v = Append(w, Slot)
  OBVIOUS
<1>2. Slot \in Packets /\ SlotNxt \in [Packets -> Packets \cup {NULL}]
  BY SlotTyped
<1>3. /\ ListUnder(SlotNxt, waiting, w) /\ SlotNxt[Slot] = NULL
      /\ \A p \in Packets : On(w, p) => p # Slot
  BY ClaimShape
<1>4. waiting_last = IF w = <<>> THEN NULL ELSE w[Len(w)]
  BY DEF PoolShape
<1>5. w # <<>> => w[Len(w)] \in Packets /\ On(w, w[Len(w)]) /\ waiting_last # NULL
  <2>1. ASSUME w # <<>> PROVE Len(w) \in 1 .. Len(w) /\ w[Len(w)] \in Packets
    BY <2>1
  <2>2. QED
    BY <2>1, <1>4, PacketAssumption DEF On
<1>6. ~On(w, Slot)
  BY <1>2, <1>3
<1>7. /\ v \in Seq(Packets)
      /\ w = <<>> => ListUnder(SlotNxt, Slot, v)
      /\ w # <<>> => ListUnder([SlotNxt EXCEPT ![w[Len(w)]] = Slot], waiting, v)
      /\ v[Len(v)] = Slot /\ v # <<>>
      /\ \A p \in Packets : On(v, p) <=> On(w, p) \/ p = Slot
  <2> DEFINE a == Append(w, Slot)
  <2>1. /\ a \in Seq(Packets)
        /\ w = <<>> => ListUnder(SlotNxt, Slot, a)
        /\ w # <<>> => ListUnder([SlotNxt EXCEPT ![w[Len(w)]] = Slot], waiting, a)
        /\ a[Len(a)] = Slot /\ a # <<>>
        /\ \A p \in Packets : On(a, p) <=> On(w, p) \/ p = Slot
    BY <1>2, <1>3, <1>6, ListAppend
  <2>2. v = a
    BY <1>1
  <2> HIDE DEF a
  <2>3. QED
    BY <2>1, <2>2
<1>8. ListUnder(nxt', waiting', v)
  BY <1>4, <1>5, <1>7 DEF Enqueue
<1>9. \A p \in Packets : ~On(w, p) => nxt'[p] = SlotNxt[p]
  BY <1>2, <1>4, <1>5 DEF Enqueue
<1>10. waiting_last' = v[Len(v)]
  BY <1>7 DEF Enqueue
<1>11. QED
  BY <1>1, <1>2, <1>6, <1>7, <1>8, <1>9, <1>10

\* A flag that ends a packet of legal length.
LEMMA EnqueueStep ==
  ASSUME TypeOK, PoolInv, CanFill, Claim, Enqueue,
         Filled \in 3 .. MAX_PACKET_SIZE,
         UNCHANGED <<at, this>>
  PROVE  PoolInv'
<1>1. PICK w \in Seq(Packets), f \in Seq(Packets) : PoolShape(w, f) /\ InBounds(w)
  BY DEF PoolInv
<1>2. PICK g \in Seq(Packets) :
        /\ ListUnder(SlotNxt, free_list', g)
        /\ Slot # this
        /\ \A p \in Packets :
             /\ On(w, p) => ~On(g, p) /\ p # Slot /\ p # this
             /\ On(g, p) => p # Slot /\ p # this
             /\ On(w, p) \/ On(g, p) \/ p = Slot \/ p = this
  BY <1>1, ClaimShape DEF Claim
<1>3. PICK v \in Seq(Packets) :
        /\ Slot \in Packets
        /\ ListUnder(nxt', waiting', v)
        /\ waiting_last' = v[Len(v)] /\ v # <<>>
        /\ \A p \in Packets : On(v, p) <=> On(w, p) \/ p = Slot
        /\ \A p \in Packets : ~On(w, p) => nxt'[p] = SlotNxt[p]
  <2> DEFINE a == Append(w, Slot)
  <2>1. /\ a \in Seq(Packets) /\ Slot \in Packets
        /\ ListUnder(nxt', waiting', a)
        /\ waiting_last' = a[Len(a)]
        /\ \A p \in Packets : On(a, p) <=> On(w, p) \/ p = Slot
        /\ \A p \in Packets : ~On(w, p) => nxt'[p] = SlotNxt[p]
    BY <1>1, EnqueueList
  <2>2. a # <<>>
    <3>1. Slot \in Packets
      BY SlotTyped
    <3>2. QED
      BY SMTT(30), <3>1
  <2> HIDE DEF a
  <2>3. QED
    BY <2>1, <2>2
<1>4. ListUnder(nxt', free_list', g)
  <2>1. \A p \in Packets : On(g, p) => nxt'[p] = SlotNxt[p]
    BY <1>2, <1>3
  <2>2. QED
    BY <2>1, <1>2, ListFrame
<1>5. PoolShape(v, g)'
  <2>1. IsList(waiting, v)' /\ IsList(free_list, g)'
    BY <1>3, <1>4 DEF IsList, ListUnder
  <2>2. waiting_last' = IF v = <<>> THEN NULL ELSE v[Len(v)]
    BY <1>3
  <2>3. current' = NULL /\ this' = this
    BY DEF Enqueue
  <2>4. \A p \in Packets :
          /\ On(v, p) => ~On(g, p) /\ p # this
          /\ On(g, p) => p # this
          /\ On(v, p) \/ On(g, p) \/ p = this
    BY <1>2, <1>3
  <2>5. QED
    BY <2>1, <2>2, <2>3, <2>4, PacketAssumption DEF PoolShape, On
<1>6. InBounds(v)'
  <2>1. /\ \A p \in Packets : p # Slot => length'[p] = length[p]
        /\ length'[Slot] = Filled
    BY <1>3 DEF Enqueue, TypeOK
  <2>2. ASSUME NEW i \in 1 .. Len(v) PROVE length'[v[i]] \in 3 .. MAX_PACKET_SIZE
    <3>1. v[i] \in Packets /\ On(v, v[i])
      BY <1>3 DEF On
    <3>2. CASE v[i] = Slot
      BY <3>2, <2>1
    <3>3. CASE v[i] # Slot
      <4>1. On(w, v[i])
        BY <3>1, <3>3, <1>3
      <4>2. PICK k \in 1 .. Len(w) : w[k] = v[i]
        BY <4>1 DEF On
      <4>3. QED
        BY <4>2, <3>1, <3>3, <2>1, <1>1 DEF InBounds
    <3>4. QED
      BY <3>2, <3>3
  <2>3. at' = "crc" => length'[this'] \in 3 .. MAX_PACKET_SIZE
    BY <1>1, <1>2, <2>1 DEF InBounds, TypeOK
  <2>4. QED
    BY <2>2, <2>3 DEF InBounds
<1>7. QED
  BY <1>5, <1>6 DEF PoolInv

\* The head of the waiting list becomes the packet in work.
LEMMA DequeueStep ==
  ASSUME TypeOK, PoolInv, Dequeue
  PROVE  PoolInv'
<1>1. PICK w \in Seq(Packets), f \in Seq(Packets) : PoolShape(w, f) /\ InBounds(w)
  BY DEF PoolInv
<1> DEFINE v == Tail(w)
<1>2. /\ waiting \in Packets /\ nxt \in [Packets -> Packets \cup {NULL}]
      /\ this = NULL /\ NULL \notin Packets
  BY PacketAssumption DEF Dequeue, TypeOK
<1>3. /\ w # <<>> /\ waiting = w[1] /\ v \in Seq(Packets)
      /\ ListUnder([nxt EXCEPT ![waiting] = NULL], nxt[waiting], v)
      /\ nxt[waiting] = NULL <=> v = <<>>
      /\ v # <<>> => v[Len(v)] = w[Len(w)]
      /\ \A p \in Packets : On(v, p) <=> On(w, p) /\ p # waiting
  BY <1>1, <1>2, ListTake DEF PoolShape, IsList
<1>4. On(w, waiting) /\ 1 \in 1 .. Len(w)
  <2>1. 1 \in 1 .. Len(w)
    BY <1>3
  <2>2. QED
    BY <2>1, <1>3 DEF On
<1> HIDE DEF v
<1>5. ListUnder(nxt', free_list', f)
  <2>1. \A p \in Packets : On(f, p) => nxt'[p] = nxt[p]
    BY <1>1, <1>2, <1>4 DEF Dequeue, PoolShape
  <2>2. ListUnder(nxt, free_list, f)
    BY <1>1 DEF PoolShape, IsList
  <2>3. QED
    BY <2>1, <2>2, ListFrame DEF Dequeue
<1>6. PoolShape(v, f)'
  <2>1. IsList(waiting, v)' /\ IsList(free_list, f)'
    BY <1>3, <1>5 DEF IsList, ListUnder, Dequeue
  <2>2. waiting_last' = IF v = <<>> THEN NULL ELSE v[Len(v)]
    BY <1>1, <1>3 DEF Dequeue, PoolShape
  <2>3. current' # NULL => nxt'[current'] = NULL
    BY <1>1, <1>2 DEF Dequeue, PoolShape, fillVars, TypeOK
  <2>4. \A p \in Packets :
          /\ On(v, p) => ~On(f, p) /\ p # current /\ p # waiting
          /\ On(f, p) => p # current /\ p # waiting
          /\ p = current => p # waiting
          /\ On(v, p) \/ On(f, p) \/ p = current \/ p = waiting
    BY <1>1, <1>2, <1>3, <1>4 DEF PoolShape
  <2>5. current' = current /\ this' = waiting
    BY DEF Dequeue, fillVars
  <2>6. QED
    BY <2>1, <2>2, <2>3, <2>4, <2>5 DEF PoolShape, On
<1>7. InBounds(v)'
  <2>1. length' = length /\ this' = waiting
    BY DEF Dequeue, fillVars
  <2>2. ASSUME NEW i \in 1 .. Len(v) PROVE length[v[i]] \in 3 .. MAX_PACKET_SIZE
    <3>1. v[i] \in Packets /\ On(v, v[i])
      BY <1>3 DEF On
    <3>2. PICK k \in 1 .. Len(w) : w[k] = v[i]
      BY <3>1, <1>3 DEF On
    <3>3. QED
      BY <3>2, <1>1 DEF InBounds
  <2>3. length[waiting] \in 3 .. MAX_PACKET_SIZE
    BY <1>1, <1>3, <1>4 DEF InBounds
  <2>4. QED
    BY <2>1, <2>2, <2>3 DEF InBounds
<1>8. QED
  BY <1>3, <1>6, <1>7 DEF PoolInv

\* The packet in work goes back to the head of the free list.
LEMMA ReleaseStep ==
  ASSUME TypeOK, PoolInv, Release
  PROVE  PoolInv'
<1>1. PICK w \in Seq(Packets), f \in Seq(Packets) : PoolShape(w, f) /\ InBounds(w)
  BY DEF PoolInv
<1>g. PICK g : g = <<this>> \o f
  OBVIOUS
<1>2. /\ this \in Packets /\ nxt \in [Packets -> Packets \cup {NULL}]
      /\ NULL \notin Packets /\ ~On(f, this) /\ ~On(w, this) /\ current # this
  BY <1>1, PacketAssumption DEF Release, TypeOK, PoolShape
<1>3. /\ g \in Seq(Packets)
      /\ ListUnder([nxt EXCEPT ![this] = free_list], this, g)
      /\ \A p \in Packets : On(g, p) <=> On(f, p) \/ p = this
  BY ZenonT(60), <1>g, <1>1, <1>2, ListPush DEF PoolShape, IsList
<1>4. ListUnder(nxt', waiting', w)
  <2>1. \A p \in Packets : On(w, p) => nxt'[p] = nxt[p]
    BY <1>2 DEF Release
  <2>2. ListUnder(nxt, waiting, w)
    BY <1>1 DEF PoolShape, IsList
  <2>3. QED
    BY <2>1, <2>2, ListFrame DEF Release
<1>5. PoolShape(w, g)'
  <2>1. IsList(waiting, w)' /\ IsList(free_list, g)'
    BY <1>3, <1>4 DEF IsList, ListUnder, Release
  <2>2. waiting_last' = IF w = <<>> THEN NULL ELSE w[Len(w)]
    BY <1>1 DEF Release, PoolShape
  <2>3. current' # NULL => nxt'[current'] = NULL
    BY <1>1, <1>2 DEF Release, PoolShape, fillVars, TypeOK
  <2>4. \A p \in Packets :
          /\ On(w, p) => ~On(g, p) /\ p # current
          /\ On(g, p) => p # current
          /\ On(w, p) \/ On(g, p) \/ p = current
    BY <1>1, <1>2, <1>3 DEF PoolShape
  <2>5. current' = current /\ this' = NULL
    BY DEF Release, fillVars
  <2>6. QED
    BY <1>2, <2>1, <2>2, <2>3, <2>4, <2>5 DEF PoolShape, On
<1>6. InBounds(w)'
  BY <1>1 DEF InBounds, Release, fillVars
<1>7. QED
  BY <1>3, <1>5, <1>6 DEF PoolInv

\* The verdict on the packet in work changes its length at most.
LEMMA DispatchStep ==
  ASSUME TypeOK, PoolInv, Dispatch
  PROVE  PoolInv'
<1>1. PICK w \in Seq(Packets), f \in Seq(Packets) : PoolShape(w, f) /\ InBounds(w)
  BY DEF PoolInv
<1>2. PoolShape(w, f)'
  BY <1>1 DEF PoolShape, IsList, ListUnder, On, Dispatch, poolVars
<1>3. \A p \in Packets : p # this => length'[p] = length[p]
  BY DEF Dispatch, TypeOK
<1>4. ASSUME NEW i \in 1 .. Len(w) PROVE length'[w[i]] \in 3 .. MAX_PACKET_SIZE
  <2>1. w[i] \in Packets /\ On(w, w[i])
    BY DEF On
  <2>2. QED
    BY <2>1, <1>1, <1>3 DEF PoolShape, InBounds
<1>5. InBounds(w)'
  BY <1>4 DEF InBounds, Dispatch
<1>6. QED
  BY <1>2, <1>5 DEF PoolInv

\* DRL_Packet_Setup builds a whole pool.
LEMMA PoolInit == Init => PoolInv
<1> SUFFICES ASSUME Init PROVE PoolInv
  OBVIOUS
<1> DEFINE f == [i \in 1 .. NUMBER_OF_PACKETS |-> NUMBER_OF_PACKETS - i]
<1>1. /\ f \in Seq(Packets) /\ Len(f) = NUMBER_OF_PACKETS /\ NUMBER_OF_PACKETS \in Nat \ {0}
      /\ \A i \in 1 .. NUMBER_OF_PACKETS : f[i] = NUMBER_OF_PACKETS - i
  BY PacketAssumption DEF Packets
<1> HIDE DEF f
<1>2. ListUnder(nxt, free_list, f)
  <2>1. free_list = f[1] /\ f # <<>>
    BY <1>1 DEF Init
  <2>2. ASSUME NEW i \in 1 .. Len(f)
        PROVE  nxt[f[i]] = IF i = Len(f) THEN NULL ELSE f[i + 1]
    <3>1. NUMBER_OF_PACKETS - i \in Packets /\ f[i] = NUMBER_OF_PACKETS - i
      BY <1>1 DEF Packets
    <3>2. nxt[f[i]] = IF i = NUMBER_OF_PACKETS THEN NULL ELSE NUMBER_OF_PACKETS - i - 1
      BY <3>1, <1>1 DEF Init
    <3>3. i # NUMBER_OF_PACKETS => f[i + 1] = NUMBER_OF_PACKETS - i - 1
      BY <1>1
    <3>4. QED
      BY <3>2, <3>3, <1>1
  <2>3. \A i, j \in 1 .. Len(f) : f[i] = f[j] => i = j
    BY <1>1
  <2>4. QED
    BY <2>1, <2>2, <2>3 DEF ListUnder
<1>3. \A p \in Packets : On(f, p)
  <2> TAKE p \in Packets
  <2>1. NUMBER_OF_PACKETS - p \in 1 .. Len(f) /\ f[NUMBER_OF_PACKETS - p] = p
    BY <1>1 DEF Packets
  <2>2. QED
    BY <2>1 DEF On
<1> DEFINE w == <<>>
<1>4. w \in Seq(Packets) /\ Len(w) = 0 /\ \A p : ~On(w, p)
  BY DEF On
<1>5. ListUnder(nxt, waiting, w)
  BY <1>4 DEF ListUnder, Init
<1>6. PoolShape(w, f)
  BY <1>2, <1>3, <1>4, <1>5, PacketAssumption DEF PoolShape, IsList, Init
<1>7. InBounds(w)
  BY <1>4 DEF InBounds, Init
<1>8. QED
  BY <1>1, <1>4, <1>6, <1>7 DEF PoolInv

\* A sequence of distinct slots is no longer than the pool.
LEMMA DistinctInChain ==
  ASSUME NEW s \in Seq(Packets), \A i, j \in 1 .. Len(s) : s[i] = s[j] => i = j
  PROVE  s \in Chain
<1>1. s \in [1 .. Len(s) -> Packets] /\ Len(s) \in Nat
  OBVIOUS
<1>2. IsFiniteSet(Packets) /\ Cardinality(Packets) = NUMBER_OF_PACKETS
  BY FS_Interval, PacketAssumption DEF Packets
<1>3. IsFiniteSet(1 .. Len(s)) /\ Cardinality(1 .. Len(s)) = Len(s)
  <2>1. Len(s) \in Int /\ 1 \in Int
    BY <1>1
  <2>2. Cardinality(1 .. Len(s)) = IF 1 > Len(s) THEN 0 ELSE Len(s) - 1 + 1
    BY <2>1, FS_Interval
  <2>3. IsFiniteSet(1 .. Len(s))
    BY <2>1, FS_Interval
  <2>4. QED
    BY <1>1, <2>2, <2>3
<1>4. s \in Injection(1 .. Len(s), Packets)
  BY <1>1 DEF Injection, IsInjective
<1>5. Len(s) <= NUMBER_OF_PACKETS
  BY <1>2, <1>3, <1>4, FS_Injection
<1>6. Len(s) \in 0 .. NUMBER_OF_PACKETS
  BY <1>1, <1>5, PacketAssumption
<1>7. [1 .. Len(s) -> Packets] \in {[1 .. n -> Packets] : n \in 0 .. NUMBER_OF_PACKETS}
  BY <1>6
<1>8. QED
  BY <1>1, <1>7 DEF Chain

\* The inductive invariant implies the one the runs check.
LEMMA PoolInvIntact == PoolInv => PoolIntact
<1> SUFFICES ASSUME PoolInv PROVE PoolIntact
  OBVIOUS
<1>1. PICK w \in Seq(Packets), f \in Seq(Packets) : PoolShape(w, f) /\ InBounds(w)
  BY DEF PoolInv
<1>2. w \in Chain /\ f \in Chain
  BY <1>1, DistinctInChain DEF PoolShape, IsList, ListUnder
<1>3. QED
  BY <1>1, <1>2 DEF PoolIntact

\* Every step keeps the pool whole, whatever byte the line delivers.
LEMMA PoolStep ==
  ASSUME TypeOK, PoolInv, [AnyStep]_vars
  PROVE  PoolInv'
<1>1. CASE TXInterrupt \/ TXOpen \/ TXBody \/ TXClose \/ TXReturn
  <2>1. UNCHANGED <<poolVars, fillVars, procVars>>
    BY <1>1 DEF TXInterrupt, TXOpen, TXBody, TXClose, TXReturn
  <2>2. QED
    BY <2>1, StableStep DEF poolVars, fillVars, procVars
<1>2. CASE CrcChunk \/ EndProc
  BY <1>2, StableStep DEF CrcChunk, EndProc, poolVars, fillVars
<1>3. CASE Dequeue
  BY <1>3, DequeueStep
<1>4. CASE Dispatch
  BY <1>4, DispatchStep
<1>5. CASE Release
  BY <1>5, ReleaseStep
<1>6. CASE RXOverrun
  BY <1>6, StableStep DEF RXOverrun, poolVars, fillVars, procVars
<1>7. CASE RXFlag
  <2>1. CASE BadLength
    <3>1. Reject /\ CanFill /\ Claim /\ UNCHANGED <<at, this>>
      BY <1>7, <2>1 DEF RXFlag, procVars
    <3>2. \A p \in Packets : p # Slot => length'[p] = length[p]
      BY <3>1, SlotTyped DEF Reject, TypeOK
    <3>3. QED
      BY <3>1, <3>2, FillStep DEF Reject
  <2>2. CASE ~BadLength
    <3>1. Enqueue /\ CanFill /\ Claim /\ UNCHANGED <<at, this>>
      BY <1>7, <2>2 DEF RXFlag, procVars
    <3>2. Filled \in 3 .. MAX_PACKET_SIZE
      BY <2>2, <3>1, SlotTyped, PacketAssumption DEF BadLength
    <3>3. QED
      BY <3>1, <3>2, EnqueueStep
  <2>3. QED
    BY <2>1, <2>2
<1>8. CASE RXEscape
  <2>1. \A p \in Packets : p # Slot => length'[p] = length[p]
    BY <1>8, SlotTyped DEF RXEscape, TypeOK
  <2>2. QED
    BY <1>8, <2>1, FillStep DEF RXEscape, procVars
<1>9. ASSUME NEW ch \in 0 .. 255, RXData(ch) PROVE PoolInv'
  <2>1. \A p \in Packets : p # Slot => length'[p] = length[p]
    BY <1>9, SlotTyped DEF RXData, TypeOK
  <2>2. QED
    BY <1>9, <2>1, FillStep DEF RXData, procVars
<1>10. CASE UNCHANGED vars
  BY <1>10, StableStep DEF vars, poolVars, fillVars, procVars
<1>11. QED
  BY <1>1, <1>2, <1>3, <1>4, <1>5, <1>6, <1>7, <1>8, <1>9, <1>10
     DEF AnyStep, Compute, DRL_Packet_RX

\* The inductive invariant holds in every reachable state (every handler of
\* io/packet_io.c keeps it).
LEMMA PoolInvariant == Spec => []PoolInv
<1>1. Init => PoolInv
  BY PoolInit
<1>2. TypeOK /\ PoolInv /\ [Next]_vars => PoolInv'
  BY NextIsStep, PoolStep
<1>3. QED
  BY <1>1, <1>2, TypeCorrect, PTL DEF Spec

\* In every reachable state every slot of the pool is in exactly one place, both
\* lists are whole and what is queued has a legal length: for every pool size,
\* packet size and line (DRL_Packet_Setup, DRL_Packet_RX, DRL_Packet_ProcCurrent,
\* DRL_Packet_Proc, DRL_Packet_TX).
THEOREM PoolSafe == Spec => []PoolIntact
BY PoolInvariant, PoolInvIntact, PTL

-----------------------------------------------------------------------------
(* Frames.                                                                 *)

\* The bytes of a packet and of its frame.
Octet == 0 .. 255

\* What the recursive function in Frame computes for a packet: the bytes of the frame
\* up to and including byte i of the packet.
IsBody(packet, n, body) ==
  /\ body \in [0 .. n -> Seq(Octet)]
  /\ body[0] = <<FLAG>>
  /\ \A i \in 1 .. n : body[i] = body[i - 1] \o Escaped(packet[i])

\* Escaping a byte gives one byte or two.
LEMMA EscapedIs ==
  ASSUME NEW ch \in Octet
  PROVE  /\ Escaped(ch) \in Seq(Octet)
         /\ ch \in {FLAG, ESCAPE} => /\ Len(Escaped(ch)) = 2
                                     /\ Escaped(ch)[1] = ESCAPE
                                     /\ Escaped(ch)[2] = Xor20(ch)
         /\ ch \notin {FLAG, ESCAPE} => Len(Escaped(ch)) = 1 /\ Escaped(ch)[1] = ch
<1>1. Xor20(ch) \in Octet /\ ESCAPE \in Octet
  <2>1. Xor20(ch) \in Octet
    BY Xor20Byte DEF Octet
  <2>2. QED
    BY <2>1 DEF ESCAPE, Octet
<1>2. CASE ch \in {FLAG, ESCAPE}
  <2> DEFINE x == Xor20(ch)
  <2>1. Escaped(ch) = <<ESCAPE, x>>
    BY <1>2 DEF Escaped
  <2>2. x \in Octet
    BY <1>1
  <2> HIDE DEF x
  <2>3. QED
    BY <1>1, <1>2, <2>1, <2>2 DEF x
<1>3. CASE ch \notin {FLAG, ESCAPE}
  BY <1>3 DEF Escaped
<1>4. QED
  BY <1>2, <1>3

\* The two special bytes survive the inversion of bit 5 twice, and once inverted they are
\* not special.
LEMMA SpecialByte ==
  ASSUME NEW ch \in {FLAG, ESCAPE}
  PROVE  Xor20(ch) \notin {FLAG, ESCAPE} /\ Xor20(Xor20(ch)) = ch
BY DEF Xor20, FLAG, ESCAPE

\* The recursion of Frame has a solution for every packet.
LEMMA BodyExists ==
  ASSUME NEW packet \in Seq(Octet), NEW n \in 0 .. Len(packet)
  PROVE  \E body : IsBody(packet, n, body)
<1> DEFINE Missing == {m \in 0 .. Len(packet) : ~ \E body : IsBody(packet, m, body)}
<1>1. SUFFICES Missing = {}
  OBVIOUS
<1>2. SUFFICES ASSUME Missing # {} PROVE FALSE
  OBVIOUS
<1>3. PICK m \in Missing : \A k \in Missing : m <= k
  <2>1. Missing \in SUBSET Nat
    OBVIOUS
  <2> HIDE DEF Missing
  <2>2. QED
    BY <1>2, <2>1, LeastNatural
<1>4. /\ m \in 0 .. Len(packet) /\ ~ \E body : IsBody(packet, m, body)
      /\ Len(packet) \in Nat /\ m \in Nat
      /\ \A k \in 0 .. Len(packet) : k \notin Missing => \E body : IsBody(packet, k, body)
  OBVIOUS
<1> HIDE DEF Missing
<1>5. CASE m = 0
  <2> DEFINE b == [i \in 0 .. 0 |-> <<FLAG>>]
  <2>1. <<FLAG>> \in Seq(Octet)
    BY DEF FLAG, Octet
  <2>2. b \in [0 .. 0 -> Seq(Octet)] /\ b[0] = <<FLAG>>
    BY <2>1
  <2>3. IsBody(packet, 0, b)
    BY <2>2 DEF IsBody
  <2>4. QED
    BY <1>4, <1>5, <2>3
<1>6. CASE m # 0
  <2>1. m - 1 \in 0 .. Len(packet) /\ m \in 1 .. Len(packet) /\ m - 1 \in 0 .. m - 1
    BY <1>4, <1>6
  <2>a. packet[m] \in Octet
    BY <2>1, ElementOfSeq
  <2>2. m - 1 \notin Missing
    <3>1. m - 1 \in Missing => m <= m - 1
      BY <1>3
    <3>2. QED
      BY <1>4, <3>1
  <2>3. PICK c : IsBody(packet, m - 1, c)
    BY <1>4, <2>1, <2>2
  <2> DEFINE last == c[m - 1] \o Escaped(packet[m])
             b    == [i \in 0 .. m |-> IF i = m THEN last ELSE c[i]]
  <2>4. /\ c \in [0 .. m - 1 -> Seq(Octet)] /\ c[0] = <<FLAG>>
        /\ \A i \in 1 .. m - 1 : c[i] = c[i - 1] \o Escaped(packet[i])
    BY <2>3 DEF IsBody
  <2>5. last \in Seq(Octet)
    <3>1. c[m - 1] \in Seq(Octet)
      BY <2>1, <2>4
    <3>2. Escaped(packet[m]) \in Seq(Octet)
      BY <2>a, EscapedIs
    <3>3. QED
      BY <3>1, <3>2, ConcatProperties
  <2> HIDE DEF last
  <2>6. b \in [0 .. m -> Seq(Octet)] /\ b[0] = <<FLAG>>
    BY <1>4, <1>6, <2>4, <2>5
  <2>7. ASSUME NEW i \in 1 .. m PROVE b[i] = b[i - 1] \o Escaped(packet[i])
    <3>1. b[i - 1] = c[i - 1]
      BY <1>4
    <3>2. CASE i = m
      BY <3>1, <3>2 DEF last
    <3>3. CASE i # m
      <4>1. i \in 1 .. m - 1 /\ i \in 0 .. m
        BY <1>4, <3>3
      <4>2. b[i] = c[i]
        BY <3>3, <4>1
      <4>3. QED
        BY <2>4, <3>1, <4>1, <4>2
    <3>4. QED
      BY <3>2, <3>3
  <2>8. IsBody(packet, m, b)
    <3> HIDE DEF b
    <3>1. QED
      BY <2>6, <2>7 DEF IsBody
  <2>9. QED
    BY <1>4, <2>8
<1>7. QED
  BY <1>5, <1>6

\* Frame is that solution and a closing flag.
LEMMA FrameIs ==
  ASSUME NEW packet \in Seq(Octet)
  PROVE  \E body : /\ IsBody(packet, Len(packet), body)
                   /\ Frame(packet) = Append(body[Len(packet)], FLAG)
<1> DEFINE n       == Len(packet)
           Rec(f)  == f = [i \in 0 .. n |-> IF i = 0 THEN <<FLAG>>
                                            ELSE f[i - 1] \o Escaped(packet[i])]
           body    == CHOOSE f : Rec(f)
<1>1. n \in Nat
  OBVIOUS
<1>2. PICK b : IsBody(packet, n, b)
  BY <1>1, BodyExists
<1>3. Rec(b)
  <2>1. /\ b = [i \in 0 .. n |-> b[i]] /\ b[0] = <<FLAG>>
        /\ \A i \in 1 .. n : b[i] = b[i - 1] \o Escaped(packet[i])
    BY <1>2 DEF IsBody
  <2>2. ASSUME NEW i \in 0 .. n
        PROVE  b[i] = IF i = 0 THEN <<FLAG>> ELSE b[i - 1] \o Escaped(packet[i])
    <3>1. i = 0 \/ i \in 1 .. n
      BY <1>1
    <3>2. QED
      BY <2>1, <3>1
  <2>3. QED
    BY <2>1, <2>2
<1>4. Rec(body)
  BY <1>3
<1>5. Frame(packet) = Append(body[n], FLAG)
  BY DEF Frame
<1> DEFINE Apart == {i \in 0 .. n : body[i] # b[i]}
<1>6. /\ body[0] = <<FLAG>> /\ b[0] = <<FLAG>>
      /\ \A i \in 1 .. n : /\ body[i] = body[i - 1] \o Escaped(packet[i])
                           /\ b[i] = b[i - 1] \o Escaped(packet[i])
  <2> HIDE DEF body
  <2>1. \A i \in 0 .. n : body[i] = IF i = 0 THEN <<FLAG>>
                                    ELSE body[i - 1] \o Escaped(packet[i])
    BY <1>4
  <2>2. /\ 0 \in 0 .. n
        /\ \A i \in 1 .. n : i \in 0 .. n /\ i # 0
    BY <1>1
  <2>3. QED
    BY <1>2, <2>1, <2>2 DEF IsBody
<1>7. Apart = {}
  <2> HIDE DEF body
  <2>1. SUFFICES ASSUME Apart # {} PROVE FALSE
    OBVIOUS
  <2>2. PICK m \in Apart : \A k \in Apart : m <= k
    <3>1. Apart \in SUBSET Nat
      BY <1>1
    <3> HIDE DEF Apart
    <3>2. QED
      BY <2>1, <3>1, LeastNatural
  <2>3. m \in 0 .. n /\ body[m] # b[m]
    BY <2>2
  <2> HIDE DEF Apart, n
  <2>4. m # 0
    BY <1>6, <2>3
  <2>5. m \in 1 .. n /\ m - 1 \in 0 .. n /\ m \in Nat
    BY <1>1, <2>3, <2>4
  <2>6. m - 1 \notin Apart
    <3>1. m - 1 \in Apart => m <= m - 1
      BY <2>2
    <3>2. QED
      BY <2>5, <3>1
  <2>7. body[m - 1] = b[m - 1]
    BY <2>5, <2>6 DEF Apart
  <2>8. QED
    BY <1>6, <2>3, <2>5, <2>7
<1>8. body[n] = b[n]
  <2> HIDE DEF body, n
  <2>1. n \in 0 .. n
    BY <1>1
  <2>2. QED
    BY <1>7, <2>1
<1>9. QED
  BY <1>2, <1>5, <1>8

\* A sequence of numbers none of which is below the one before it never goes down.
LEMMA Monotone ==
  ASSUME NEW n \in Nat, NEW f \in [0 .. n -> Nat],
         \A i \in 1 .. n : f[i - 1] <= f[i],
         NEW i \in 0 .. n, NEW j \in i .. n
  PROVE  f[i] <= f[j]
<1> DEFINE Low == {k \in i .. n : f[k] < f[i]}
<1>a. f[i] \in Nat /\ f[j] \in Nat
  OBVIOUS
<1>1. SUFFICES ASSUME f[j] < f[i] PROVE FALSE
  BY <1>a
<1>2. PICK m \in Low : \A k \in Low : m <= k
  <2>1. Low \in SUBSET Nat /\ j \in Low
    BY <1>1
  <2> HIDE DEF Low
  <2>2. QED
    BY <1>1, <2>1, LeastNatural
<1>3. m \in i .. n /\ f[m] < f[i] /\ f[i] \in Nat
  OBVIOUS
<1>4. m # i /\ m - 1 \in i .. n /\ m \in 1 .. n /\ m - 1 < m
  BY <1>3
<1>5. m - 1 \notin Low
  <2> HIDE DEF Low
  <2>1. m - 1 \in Low => m <= m - 1
    BY <1>2
  <2>2. QED
    BY <1>4, <2>1
<1>6. ~ (f[m - 1] < f[i])
  BY <1>4, <1>5
<1>7. f[m - 1] <= f[m] /\ f[m - 1] \in Nat /\ f[m] \in Nat
  BY <1>4
<1>8. QED
  BY <1>3, <1>6, <1>7

\* Where the bytes of a packet end in its frame: cut[i] bytes of the frame are those of
\* the opening flag and of the first i bytes of the packet.
Cut(packet, cut) ==
  /\ cut \in [0 .. Len(packet) -> Nat]
  /\ cut[0] = 1 /\ Frame(packet)[1] = FLAG
  /\ \A i \in 1 .. Len(packet) :
       IF packet[i] \in {FLAG, ESCAPE}
       THEN /\ cut[i] = cut[i - 1] + 2
            /\ Frame(packet)[cut[i - 1] + 1] = ESCAPE
            /\ Frame(packet)[cut[i - 1] + 2] = Xor20(packet[i])
       ELSE /\ cut[i] = cut[i - 1] + 1
            /\ Frame(packet)[cut[i - 1] + 1] = packet[i]
  /\ \A i \in 0 .. Len(packet) : cut[i] <= cut[Len(packet)] /\ cut[i] >= 1
  /\ Len(Frame(packet)) = cut[Len(packet)] + 1
  /\ Frame(packet)[cut[Len(packet)] + 1] = FLAG

\* Every frame is laid out like that.
LEMMA FrameCut ==
  ASSUME NEW packet \in Seq(Octet)
  PROVE  Frame(packet) \in Seq(Octet) /\ \E cut : Cut(packet, cut)
<1> DEFINE n == Len(packet)
<1>1. n \in Nat /\ \A i \in 1 .. n : packet[i] \in Octet
  BY ElementOfSeq
<1>2. PICK body : /\ IsBody(packet, n, body)
                  /\ Frame(packet) = Append(body[n], FLAG)
  BY FrameIs
<1> HIDE DEF n
<1>3. /\ \A i \in 0 .. n : body[i] \in Seq(Octet) /\ Len(body[i]) \in Nat
      /\ body[0] = <<FLAG>>
      /\ \A i \in 1 .. n : body[i] = body[i - 1] \o Escaped(packet[i])
  <2>1. /\ body \in [0 .. n -> Seq(Octet)]
        /\ body[0] = <<FLAG>>
        /\ \A i \in 1 .. n : body[i] = body[i - 1] \o Escaped(packet[i])
    BY <1>2 DEF IsBody
  <2>2. ASSUME NEW i \in 0 .. n PROVE body[i] \in Seq(Octet) /\ Len(body[i]) \in Nat
    <3>1. body[i] \in Seq(Octet)
      BY <2>1
    <3>2. QED
      BY <3>1, LenProperties
  <2>3. QED
    BY <2>1, <2>2
<1> DEFINE cut == [i \in 0 .. n |-> Len(body[i])]
           fr  == Frame(packet)
<1>4. /\ \A i \in 0 .. n : cut[i] \in Nat /\ cut[i] = Len(body[i])
      /\ cut \in [0 .. n -> Nat]
  BY <1>3
<1>5. cut[0] = 1 /\ body[0][1] = FLAG
  <2> HIDE DEF cut
  <2>1. 0 \in 0 .. n
    BY <1>1
  <2>2. Len(<<FLAG>>) = 1 /\ <<FLAG>>[1] = FLAG
    OBVIOUS
  <2>3. QED
    BY <1>3, <1>4, <2>1, <2>2
<1>6. 0 \in 0 .. n /\ n \in 0 .. n
  BY <1>1
<1> HIDE DEF cut
<1>7. /\ fr \in Seq(Octet) /\ Len(fr) = cut[n] + 1 /\ fr[cut[n] + 1] = FLAG
      /\ \A q \in 1 .. cut[n] : fr[q] = body[n][q]
  <2> DEFINE b == body[n]
  <2>1. b \in Seq(Octet) /\ Len(b) = cut[n] /\ FLAG \in Octet
    BY <1>3, <1>4, <1>6 DEF FLAG, Octet
  <2>2. fr = Append(b, FLAG)
    BY <1>2
  <2> HIDE DEF b
  <2>3. /\ Append(b, FLAG) \in Seq(Octet)
        /\ Len(Append(b, FLAG)) = Len(b) + 1
        /\ Append(b, FLAG)[Len(b) + 1] = FLAG
        /\ \A q \in 1 .. Len(b) : Append(b, FLAG)[q] = b[q]
    BY <2>1
  <2>4. QED
    BY <2>1, <2>2, <2>3 DEF b
<1> HIDE DEF fr
<1>8. ASSUME NEW i \in 1 .. n
      PROVE  /\ i \in 0 .. n /\ i - 1 \in 0 .. n
             /\ cut[i] = cut[i - 1] + Len(Escaped(packet[i]))
             /\ \A q \in 1 .. cut[i - 1] : body[i][q] = body[i - 1][q]
             /\ \A q \in 1 .. Len(Escaped(packet[i])) :
                  body[i][cut[i - 1] + q] = Escaped(packet[i])[q]
  <2>1. i \in 0 .. n /\ i - 1 \in 0 .. n
    BY <1>1
  <2>2. PICK b : b = body[i - 1]
    OBVIOUS
  <2>3. PICK e : e = Escaped(packet[i])
    OBVIOUS
  <2>4. b \in Seq(Octet) /\ e \in Seq(Octet)
    BY <1>1, <1>3, <2>1, <2>2, <2>3, EscapedIs
  <2>5. body[i] = b \o e /\ cut[i - 1] = Len(b) /\ cut[i] = Len(body[i])
    BY <1>3, <1>4, <2>1, <2>2, <2>3
  <2>6. /\ Len(b \o e) = Len(b) + Len(e)
        /\ \A q \in 1 .. Len(b) : (b \o e)[q] = b[q]
        /\ \A q \in 1 .. Len(e) : (b \o e)[Len(b) + q] = e[q]
    BY <2>4
  <2>7. QED
    BY <2>1, <2>2, <2>3, <2>5, <2>6
<1>9. ASSUME NEW i \in 0 .. n
      PROVE  cut[i] <= cut[n] /\ cut[i] >= 1
  <2>1. \A j \in 1 .. n : cut[j - 1] <= cut[j]
    <3> TAKE j \in 1 .. n
    <3>1. Len(Escaped(packet[j])) \in Nat /\ j \in 0 .. n /\ j - 1 \in 0 .. n
      BY <1>1, <1>8, EscapedIs, LenProperties
    <3>2. cut[j - 1] \in Nat
      BY <1>4, <3>1
    <3>3. QED
      BY <1>8, <3>1, <3>2
  <2>2. n \in i .. n /\ i \in 0 .. i /\ 0 \in 0 .. n /\ i \in 0 .. n
    BY <1>1
  <2>3. cut[i] <= cut[n]
    BY <1>1, <1>4, <2>1, <2>2, Monotone
  <2>4. cut[0] <= cut[i]
    BY <1>1, <1>4, <2>1, <2>2, Monotone
  <2>5. QED
    BY <1>4, <1>5, <2>2, <2>3, <2>4
<1> DEFINE Same(i) == \A q \in 1 .. cut[i] : fr[q] = body[i][q]
           Bad     == {d \in 0 .. n : ~ Same(n - d)}
<1>10. Bad = {}
  <2>1. SUFFICES ASSUME Bad # {} PROVE FALSE
    OBVIOUS
  <2>2. PICK m \in Bad : \A k \in Bad : m <= k
    <3>1. Bad \in SUBSET Nat
      BY <1>1
    <3> HIDE DEF Bad
    <3>2. QED
      BY <2>1, <3>1, LeastNatural
  <2>3. m \in 0 .. n /\ ~ Same(n - m)
    BY <2>2
  <2> HIDE DEF Bad
  <2>4. m # 0
    <3>1. Same(n)
      BY <1>7
    <3>2. n - 0 = n
      BY <1>1
    <3> HIDE DEF Same
    <3>3. QED
      BY <2>3, <3>1, <3>2
  <2>5. m \in Nat /\ m - 1 \in 0 .. n /\ n - m + 1 \in 1 .. n /\ n - (m - 1) = n - m + 1
    BY <1>1, <2>3, <2>4
  <2>6. m - 1 \notin Bad
    <3>1. m - 1 \in Bad => m <= m - 1
      BY <2>2
    <3>2. QED
      BY <2>5, <3>1
  <2>7. Same(n - m + 1)
    <3> HIDE DEF Same
    <3>1. QED
      BY <2>5, <2>6 DEF Bad
  <2>8. PICK j \in 1 .. n : j = n - m + 1
    BY <2>5
  <2>9. /\ j \in 0 .. n /\ j - 1 \in 0 .. n /\ j - 1 = n - m
        /\ cut[j] = cut[j - 1] + Len(Escaped(packet[j]))
        /\ \A q \in 1 .. cut[j - 1] : body[j][q] = body[j - 1][q]
        /\ Len(Escaped(packet[j])) \in Nat
    <3>1. j - 1 = n - m
      BY <1>1, <2>3, <2>8
    <3>2. Len(Escaped(packet[j])) \in Nat
      BY <1>1, EscapedIs, LenProperties
    <3>3. QED
      BY <1>8, <3>1, <3>2
  <2>10. ASSUME NEW q \in 1 .. cut[j - 1] PROVE fr[q] = body[j - 1][q]
    <3>1. q \in 1 .. cut[j]
      BY <1>4, <2>9
    <3>2. fr[q] = body[j][q]
      BY <2>7, <2>8, <3>1
    <3>3. QED
      BY <2>9, <3>2
  <2>11. Same(n - m)
    BY <2>9, <2>10
  <2>12. QED
    BY <2>3, <2>11
<1>11. ASSUME NEW i \in 0 .. n
       PROVE  Same(i)
  <2>1. n - i \in 0 .. n /\ n - (n - i) = i
    BY <1>1
  <2> HIDE DEF Same
  <2>2. QED
    BY <1>10, <2>1
<1>12. ASSUME NEW i \in 1 .. n, NEW q \in 1 .. Len(Escaped(packet[i]))
       PROVE  fr[cut[i - 1] + q] = Escaped(packet[i])[q]
  <2>1. /\ i \in 0 .. n /\ i - 1 \in 0 .. n
        /\ cut[i] = cut[i - 1] + Len(Escaped(packet[i]))
        /\ body[i][cut[i - 1] + q] = Escaped(packet[i])[q]
    BY <1>8
  <2>2. Len(Escaped(packet[i])) \in Nat /\ cut[i - 1] \in Nat
    BY <1>1, <1>4, <2>1, EscapedIs, LenProperties
  <2>3. cut[i - 1] + q \in 1 .. cut[i]
    BY <2>1, <2>2
  <2>4. Same(i)
    BY <2>1, <1>11
  <2>5. QED
    BY <2>1, <2>3, <2>4
<1>13. fr[1] = FLAG
  <2>1. 1 \in 1 .. cut[0] /\ Same(0)
    BY <1>5, <1>6, <1>11
  <2>2. QED
    BY <1>5, <2>1
<1>14. ASSUME NEW i \in 1 .. n
       PROVE  IF packet[i] \in {FLAG, ESCAPE}
              THEN /\ cut[i] = cut[i - 1] + 2
                   /\ fr[cut[i - 1] + 1] = ESCAPE
                   /\ fr[cut[i - 1] + 2] = Xor20(packet[i])
              ELSE /\ cut[i] = cut[i - 1] + 1
                   /\ fr[cut[i - 1] + 1] = packet[i]
  <2>1. packet[i] \in Octet /\ cut[i] = cut[i - 1] + Len(Escaped(packet[i]))
    BY <1>1, <1>8
  <2>2. CASE packet[i] \in {FLAG, ESCAPE}
    <3>1. /\ Len(Escaped(packet[i])) = 2
          /\ Escaped(packet[i])[1] = ESCAPE
          /\ Escaped(packet[i])[2] = Xor20(packet[i])
      BY <2>1, <2>2, EscapedIs
    <3>2. 1 \in 1 .. Len(Escaped(packet[i])) /\ 2 \in 1 .. Len(Escaped(packet[i]))
      BY <3>1
    <3>3. QED
      BY <1>12, <2>1, <2>2, <3>1, <3>2
  <2>3. CASE packet[i] \notin {FLAG, ESCAPE}
    <3>1. Len(Escaped(packet[i])) = 1 /\ Escaped(packet[i])[1] = packet[i]
      BY <2>1, <2>3, EscapedIs
    <3>2. 1 \in 1 .. Len(Escaped(packet[i]))
      BY <3>1
    <3>3. QED
      BY <1>12, <2>1, <2>3, <3>1, <3>2
  <2>4. QED
    BY <2>2, <2>3
<1>15. Cut(packet, cut)
  BY <1>4, <1>5, <1>7, <1>9, <1>13, <1>14 DEF Cut, fr, n
<1>16. QED
  BY <1>7, <1>15 DEF fr

\* The byte meant by a byte of the line, after an escape or not.
Decoded(ch, escaped) == IF escaped THEN Xor20(ch) ELSE ch

\* A receiver that has taken the first k bytes of the frame has the first i bytes of
\* the packet, and e says whether the escape of the next one has come.
OnFrame(packet, k, i, e) ==
  /\ i \in 0 .. Len(packet) /\ e \in BOOLEAN
  /\ e => i < Len(packet) /\ packet[i + 1] \in {FLAG, ESCAPE}
  /\ \E cut : Cut(packet, cut) /\ k = cut[i] + IF e THEN 1 ELSE 0

\* A frame begins with a flag, and behind it stands the first byte of the packet.
LEMMA FrameStart ==
  ASSUME NEW packet \in Seq(Octet)
  PROVE  /\ Frame(packet) \in Seq(Octet) /\ Len(Frame(packet)) \in Nat
         /\ Len(Frame(packet)) >= 2 /\ Frame(packet)[1] = FLAG
         /\ OnFrame(packet, 1, 0, FALSE)
<1>1. Len(packet) \in Nat /\ 0 \in 0 .. Len(packet)
  OBVIOUS
<1>2. PICK cut : Cut(packet, cut)
  BY FrameCut
<1>3. /\ cut[0] = 1 /\ Frame(packet)[1] = FLAG
      /\ cut[Len(packet)] \in Nat /\ cut[Len(packet)] >= 1
      /\ Len(Frame(packet)) = cut[Len(packet)] + 1
  BY <1>1, <1>2 DEF Cut
<1>4. OnFrame(packet, 1, 0, FALSE)
  BY <1>1, <1>2, <1>3 DEF OnFrame
<1>5. Len(Frame(packet)) \in Nat /\ Len(Frame(packet)) >= 2
  BY <1>3
<1>6. QED
  BY <1>3, <1>4, <1>5, FrameCut

\* The next byte is the closing flag when the packet is complete, else an escape or the
\* next byte of the packet, inverted when its escape has come.
NextByte(packet, k, i, e, b) ==
  \/ b = FLAG /\ i = Len(packet) /\ k + 1 = Len(Frame(packet))
  \/ /\ b = ESCAPE /\ k + 1 < Len(Frame(packet))
     /\ OnFrame(packet, k + 1, i, TRUE)
  \/ /\ b \notin {FLAG, ESCAPE} /\ k + 1 < Len(Frame(packet))
     /\ i < Len(packet) /\ packet[i + 1] = Decoded(b, e)
     /\ OnFrame(packet, k + 1, i + 1, FALSE)

\* So it is, in every frame and after every byte of it but the last.
LEMMA FrameNext ==
  ASSUME NEW packet \in Seq(Octet), NEW k, NEW i, NEW e,
         OnFrame(packet, k, i, e),
         NEW b, b = Frame(packet)[k + 1]
  PROVE  /\ k \in Nat /\ k >= 1 /\ k < Len(Frame(packet))
         /\ b \in Octet /\ NextByte(packet, k, i, e, b)
<1> DEFINE n  == Len(packet)
           fr == Frame(packet)
<1>0. b = fr[k + 1]
  OBVIOUS
<1>1. n \in Nat /\ fr \in Seq(Octet) /\ Len(fr) \in Nat
  BY FrameStart, LenProperties
<1>2. /\ i \in 0 .. n /\ e \in BOOLEAN
      /\ e => i < n /\ packet[i + 1] \in {FLAG, ESCAPE}
  BY DEF OnFrame
<1>3. PICK cut : Cut(packet, cut) /\ k = cut[i] + IF e THEN 1 ELSE 0
  BY DEF OnFrame
<1> HIDE DEF n, fr
<1>4. /\ \A j \in 0 .. n : cut[j] \in Nat /\ cut[j] <= cut[n] /\ cut[j] >= 1
      /\ \A j \in 1 .. n : IF packet[j] \in {FLAG, ESCAPE}
                          THEN /\ cut[j] = cut[j - 1] + 2
                               /\ fr[cut[j - 1] + 1] = ESCAPE
                               /\ fr[cut[j - 1] + 2] = Xor20(packet[j])
                          ELSE /\ cut[j] = cut[j - 1] + 1
                               /\ fr[cut[j - 1] + 1] = packet[j]
      /\ Len(fr) = cut[n] + 1 /\ fr[cut[n] + 1] = FLAG
  BY <1>3 DEF Cut, n, fr
<1>5. cut[i] \in Nat /\ cut[i] >= 1 /\ cut[n] \in Nat /\ cut[i] <= cut[n]
  BY <1>1, <1>2, <1>4
<1>6. CASE i = n
  <2>1. ~e
    BY <1>1, <1>2, <1>6
  <2>2. k = cut[n]
    BY <1>3, <1>5, <1>6, <2>1
  <2>3. b = FLAG /\ k + 1 = Len(fr) /\ k \in Nat /\ k >= 1 /\ k < Len(fr)
    BY <1>0, <1>4, <1>5, <1>6, <2>2
  <2>4. b \in Octet
    BY <2>3 DEF FLAG, Octet
  <2>5. QED
    BY <1>6, <2>3, <2>4 DEF fr, n, NextByte
<1>7. CASE i # n
  <2> DEFINE j == i + 1
  <2>1. j \in 1 .. n /\ j \in 0 .. n /\ j - 1 = i /\ i < n /\ i \in Nat
    BY <1>1, <1>2, <1>7
  <2>2. /\ packet[j] \in {FLAG, ESCAPE} => /\ cut[j] = cut[i] + 2
                                          /\ fr[cut[i] + 1] = ESCAPE
                                          /\ fr[cut[i] + 2] = Xor20(packet[j])
        /\ packet[j] \notin {FLAG, ESCAPE} => /\ cut[j] = cut[i] + 1
                                             /\ fr[cut[i] + 1] = packet[j]
        /\ cut[j] \in Nat /\ cut[j] <= cut[n]
    BY <1>4, <2>1
  <2>3. packet[j] \in Octet
    BY <2>1, ElementOfSeq DEF n
  <2> HIDE DEF j
  <2>4. CASE e
    <3>1. packet[j] \in {FLAG, ESCAPE} /\ k = cut[i] + 1
      BY <1>2, <1>3, <1>5, <2>4 DEF j
    <3>2. b = Xor20(packet[j]) /\ k + 1 = cut[j] /\ k \in Nat /\ k >= 1
      BY <1>0, <1>5, <2>2, <3>1
    <3>3. k < Len(fr) /\ k + 1 < Len(fr)
      BY <1>4, <1>5, <2>2, <3>2
    <3>4. b \notin {FLAG, ESCAPE} /\ Xor20(b) = packet[j] /\ b \in Octet
      BY <2>3, <3>1, <3>2, SpecialByte, Xor20Byte DEF Octet
    <3>5. OnFrame(packet, k + 1, j, FALSE)
      BY <1>3, <2>1, <2>2, <3>2 DEF OnFrame, n
    <3>6. QED
      BY <2>1, <2>4, <3>2, <3>3, <3>4, <3>5 DEF fr, n, j, Decoded, NextByte
  <2>5. CASE ~e /\ packet[j] \in {FLAG, ESCAPE}
    <3>1. k = cut[i] /\ b = ESCAPE /\ k \in Nat /\ k >= 1
      BY <1>0, <1>3, <1>5, <2>2, <2>5
    <3>2. k + 1 < Len(fr) /\ k < Len(fr) /\ k + 1 = cut[i] + 1
      BY <1>4, <1>5, <2>2, <2>5, <3>1
    <3>3. OnFrame(packet, k + 1, i, TRUE)
      BY <1>2, <1>3, <2>1, <2>5, <3>2 DEF OnFrame, n, j
    <3>4. b \in Octet
      BY <3>1 DEF ESCAPE, Octet
    <3>5. QED
      BY <3>1, <3>2, <3>3, <3>4 DEF fr, NextByte
  <2>6. CASE ~e /\ packet[j] \notin {FLAG, ESCAPE}
    <3>1. k = cut[i] /\ b = packet[j] /\ k + 1 = cut[j] /\ k \in Nat /\ k >= 1
      BY <1>0, <1>3, <1>5, <2>2, <2>6
    <3>2. k < Len(fr) /\ k + 1 < Len(fr)
      BY <1>4, <1>5, <2>2, <3>1
    <3>3. OnFrame(packet, k + 1, j, FALSE)
      BY <1>3, <2>1, <2>2, <3>1 DEF OnFrame, n
    <3>4. QED
      BY <2>1, <2>3, <2>6, <3>1, <3>2, <3>3 DEF fr, n, j, Decoded, NextByte
  <2>7. QED
    BY <1>2, <2>4, <2>5, <2>6
<1>8. QED
  BY <1>6, <1>7

-----------------------------------------------------------------------------
(* Receiving a frame.                                                      *)

\* The receiver has taken the first k bytes of the frame of a packet: the slot being
\* filled holds what they say, as far as it reaches.
Received(packet, k) ==
  \E i, e :
    /\ OnFrame(packet, k, i, e)
    /\ Filled = i
    /\ i < MAX_PACKET_SIZE => escape_state = e
    /\ \A q \in 1 .. i : q <= MAX_PACKET_SIZE => buffer[current][q - 1] = packet[q]

\* Whatever came before, a flag leaves the receiver at the start of a packet.
LEMMA ReceiveStart ==
  ASSUME TypeOK, NEW packet \in Seq(Octet), RXFlag
  PROVE  Received(packet, 1)'
<1>1. Slot \in Packets
  BY SlotTyped DEF RXFlag
<1>2. Filled' = 0
  <2>1. CASE Reject
    <3>1. current' = Slot /\ length'[Slot] = 0
      BY <1>1, <2>1 DEF Reject, TypeOK
    <3>2. QED
      BY <3>1 DEF Filled
  <2>2. CASE Enqueue
    BY <2>2 DEF Enqueue, Filled
  <2>3. QED
    BY <2>1, <2>2 DEF RXFlag
<1>3. escape_state' = FALSE
  BY DEF RXFlag
<1>4. OnFrame(packet, 1, 0, FALSE)
  BY FrameStart
<1>5. \A q \in 1 .. 0 : q <= MAX_PACKET_SIZE => buffer'[current'][q - 1] = packet[q]
  OBVIOUS
<1>6. QED
  BY Zenon, <1>2, <1>3, <1>4, <1>5 DEF Received

\* Steps between two bytes keep what the receiver has.
LEMMA ReceiveKept ==
  ASSUME NEW packet, NEW k, Received(packet, k),
         UNCHANGED <<current, buffer, escape_state>>,
         current # NULL => length'[current] = length[current]
  PROVE  Received(packet, k)'
<1>1. Filled' = Filled
  BY DEF Filled
<1>2. PICK i, e :
        /\ OnFrame(packet, k, i, e)
        /\ Filled = i
        /\ i < MAX_PACKET_SIZE => escape_state = e
        /\ \A q \in 1 .. i : q <= MAX_PACKET_SIZE => buffer[current][q - 1] = packet[q]
  BY DEF Received
<1>3. QED
  BY <1>1, <1>2 DEF Received

\* A number below the modulus is its own remainder.
LEMMA SmallRemainder ==
  ASSUME NEW a \in Nat, NEW b \in Nat, a < b
  PROVE  a % b = a
<1>1. a \div b = 0
  OBVIOUS
<1>2. a = b * (a \div b) + (a % b)
  OBVIOUS
<1>3. QED
  BY <1>1, <1>2

\* The next byte of the frame either is taken into the slot, or is the closing flag and
\* finds the slot with as many bytes as the packet has.
LEMMA ReceiveNext ==
  ASSUME TypeOK, NEW packet \in Seq(Octet), Len(packet) < LENGTH_SPAN,
         NEW k, Received(packet, k),
         NEW ch, ch = Frame(packet)[k + 1],
         CanFill, DRL_Packet_RX(ch)
  PROVE  /\ k \in Nat /\ k >= 1 /\ k < Len(Frame(packet))
         /\ \/ /\ k + 1 = Len(Frame(packet))
               /\ RXFlag /\ Filled = Len(packet)
               /\ \A q \in 1 .. Len(packet) :
                    q <= MAX_PACKET_SIZE => buffer[current][q - 1] = packet[q]
            \/ /\ k + 1 < Len(Frame(packet))
               /\ RXEscape \/ RXData(ch)
               /\ Received(packet, k + 1)'
<1> DEFINE n == Len(packet)
<1>1. PICK i, e :
        /\ OnFrame(packet, k, i, e)
        /\ Filled = i
        /\ i < MAX_PACKET_SIZE => escape_state = e
        /\ \A q \in 1 .. i : q <= MAX_PACKET_SIZE => buffer[current][q - 1] = packet[q]
  BY DEF Received
<1>2. /\ k \in Nat /\ k >= 1 /\ k < Len(Frame(packet))
      /\ \/ ch = FLAG /\ i = n /\ k + 1 = Len(Frame(packet))
         \/ /\ ch = ESCAPE /\ k + 1 < Len(Frame(packet))
            /\ OnFrame(packet, k + 1, i, TRUE)
         \/ /\ ch \notin {FLAG, ESCAPE} /\ k + 1 < Len(Frame(packet))
            /\ i < n
            /\ packet[i + 1] = Decoded(ch, e)
            /\ OnFrame(packet, k + 1, i + 1, FALSE)
  <2>1. OnFrame(packet, k, i, e)
    BY <1>1
  <2>2. k \in Nat /\ k >= 1 /\ k < Len(Frame(packet)) /\ NextByte(packet, k, i, e, ch)
    BY <2>1, FrameNext
  <2>3. QED
    BY <2>2 DEF NextByte
<1>3. /\ Slot \in Packets /\ NULL \notin Packets
      /\ Slot = IF current = NULL THEN free_list ELSE current
      /\ current = NULL => i = 0
      /\ DOMAIN length = Packets /\ DOMAIN buffer = Packets
      /\ buffer[Slot] \in [0 .. MAX_PACKET_SIZE - 1 -> 0 .. 255]
  BY <1>1, SlotTyped, PacketAssumption DEF TypeOK, Slot, Filled
<1>4. /\ n \in Nat /\ i \in 0 .. n /\ MAX_PACKET_SIZE \in Nat /\ LENGTH_SPAN \in Nat
      /\ n < LENGTH_SPAN
  <2>1. n \in Nat
    BY LenProperties
  <2>2. QED
    BY <1>1, <2>1, PacketAssumption DEF OnFrame
<1>5. ~RXOverrun
  BY PacketAssumption DEF CanFill, RXOverrun
<1>6. FLAG # ESCAPE
  BY DEF FLAG, ESCAPE
<1>7. CASE ch = FLAG
  <2>1. RXFlag
    BY <1>5, <1>6, <1>7 DEF DRL_Packet_RX
  <2>2. i = n /\ k + 1 = Len(Frame(packet))
    BY <1>2, <1>6, <1>7
  <2>3. QED
    BY <1>1, <1>2, <2>1, <2>2
<1>8. CASE ch = ESCAPE
  <2>1. RXEscape
    BY <1>5, <1>6, <1>8 DEF DRL_Packet_RX
  <2>2. k + 1 < Len(Frame(packet)) /\ OnFrame(packet, k + 1, i, TRUE)
    BY <1>2, <1>6, <1>8
  <2>3. Filled' = i /\ escape_state' = TRUE /\ current' = Slot /\ buffer' = buffer
    BY <1>1, <1>3, <2>1 DEF RXEscape, Filled
  <2>4. \A q \in 1 .. i : q <= MAX_PACKET_SIZE => buffer'[current'][q - 1] = packet[q]
    <3>1. CASE current = NULL
      BY <1>3, <3>1
    <3>2. CASE current # NULL
      BY <1>1, <1>3, <2>3, <3>2
    <3>3. QED
      BY <3>1, <3>2
  <2>5. Received(packet, k + 1)'
    BY Zenon, <2>2, <2>3, <2>4 DEF Received
  <2>6. QED
    BY <1>2, <2>1, <2>2, <2>5
<1>9. CASE ch \notin {FLAG, ESCAPE}
  <2>1. RXData(ch)
    BY <1>5, <1>9 DEF DRL_Packet_RX
  <2>2. /\ k + 1 < Len(Frame(packet)) /\ OnFrame(packet, k + 1, i + 1, FALSE)
        /\ i < n /\ packet[i + 1] = Decoded(ch, e)
    BY <1>2, <1>9
  <2>3. Counted(i) = i + 1
    <3> HIDE DEF n
    <3>1. i \in Nat /\ i + 1 < LENGTH_SPAN
      BY <1>4, <2>2
    <3>2. QED
      BY <1>4, <3>1, SmallRemainder DEF Counted
  <2>4. current' = Slot /\ length'[Slot] = i + 1
    BY <1>1, <1>3, <2>1, <2>3 DEF RXData
  <2>5. Filled' = i + 1
    BY <1>3, <2>4 DEF Filled
  <2>6. i + 1 < MAX_PACKET_SIZE => escape_state' = FALSE
    BY <1>1, <1>4, <2>1 DEF RXData
  <2>7. ASSUME NEW q \in 1 .. i + 1, q <= MAX_PACKET_SIZE
        PROVE  buffer'[current'][q - 1] = packet[q]
    <3>1. CASE q = i + 1
      <4>1. i < MAX_PACKET_SIZE /\ q - 1 = i
        BY <1>4, <2>7, <3>1
      <4>2. escape_state = e
        BY <1>1, <4>1
      <4>3. buffer' = [buffer EXCEPT ![Slot][i] = Decoded(ch, e)]
        BY <1>1, <2>1, <4>1, <4>2 DEF RXData, Decoded
      <4>4. i \in 0 .. MAX_PACKET_SIZE - 1
        BY <1>4, <4>1
      <4>5. buffer'[Slot][i] = Decoded(ch, e)
        BY <1>3, <4>3, <4>4
      <4>6. QED
        BY <2>2, <2>4, <3>1, <4>1, <4>5
    <3>2. CASE q # i + 1
      <4>1. q \in 1 .. i /\ q - 1 \in 0 .. MAX_PACKET_SIZE - 1 /\ q - 1 # i /\ i # 0
        BY <1>4, <2>7, <3>2
      <4>2. Slot = current /\ buffer[current][q - 1] = packet[q]
        BY <1>1, <1>3, <2>7, <4>1
      <4>3. CASE i < MAX_PACKET_SIZE
        <5>1. buffer' = [buffer EXCEPT ![Slot][i] = IF escape_state THEN Xor20(ch) ELSE ch]
          BY <1>1, <2>1, <4>3 DEF RXData
        <5>2. buffer'[Slot][q - 1] = buffer[Slot][q - 1]
          BY <1>3, <4>1, <5>1
        <5>3. QED
          BY <2>4, <4>2, <5>2
      <4>4. CASE ~ (i < MAX_PACKET_SIZE)
        <5>1. buffer' = buffer
          BY <1>1, <2>1, <4>4 DEF RXData
        <5>2. QED
          BY <2>4, <4>2, <5>1
      <4>5. QED
        BY <4>3, <4>4
    <3>3. QED
      BY <3>1, <3>2
  <2>8. Received(packet, k + 1)'
    BY Zenon, <2>2, <2>5, <2>6, <2>7 DEF Received
  <2>9. QED
    BY <1>2, <2>1, <2>2, <2>8
<1>10. QED
  BY <1>7, <1>8, <1>9

\* A closing flag that finds a whole packet of legal length puts it on the waiting list
\* as the host sent it.
LEMMA ReceiveEnd ==
  ASSUME TypeOK, NEW packet \in Seq(Octet),
         RXFlag, Filled = Len(packet), Len(packet) \in 3 .. MAX_PACKET_SIZE,
         \A q \in 1 .. Len(packet) :
           q <= MAX_PACKET_SIZE => buffer[current][q - 1] = packet[q],
         NEW slot, slot = Slot
  PROVE  Enqueue /\ Content(slot)' = packet
<1>1. Enqueue
  BY PacketAssumption DEF RXFlag, BadLength
<1>2. slot = current /\ slot \in Packets
  <2>1. current # NULL
    BY DEF Filled
  <2>2. QED
    BY <2>1, SlotTyped DEF Slot, RXFlag
<1>3. length'[slot] = Len(packet) /\ buffer' = buffer
  BY <1>1, <1>2 DEF Enqueue, RXFlag, TypeOK
<1>4. Content(slot)' = [q \in 1 .. Len(packet) |-> buffer[slot][q - 1]]
  BY <1>3 DEF Content
<1>5. \A q \in 1 .. Len(packet) : buffer[slot][q - 1] = packet[q]
  <2>1. \A q \in 1 .. Len(packet) : q <= MAX_PACKET_SIZE
    BY PacketAssumption
  <2>2. QED
    BY <1>2, <2>1
<1>6. packet = [q \in 1 .. Len(packet) |-> packet[q]]
  BY LenProperties
<1>7. QED
  BY <1>1, <1>4, <1>5, <1>6

-----------------------------------------------------------------------------
(* A list stands for one sequence only.                                    *)

\* Two sequences that are lists from the same head under the same links agree.
LEMMA ListUnique ==
  ASSUME NEW link, NEW head, NEW s \in Seq(Packets), NEW t \in Seq(Packets),
         ListUnder(link, head, s), ListUnder(link, head, t)
  PROVE  s = t
<1>1. /\ Len(s) \in Nat /\ Len(t) \in Nat
      /\ \A i \in 1 .. Len(s) : s[i] \in Packets /\ s[i] # NULL
      /\ \A i \in 1 .. Len(t) : t[i] \in Packets /\ t[i] # NULL
  BY PacketAssumption
<1>2. /\ \A i \in 1 .. Len(s) : link[s[i]] = IF i = Len(s) THEN NULL ELSE s[i + 1]
      /\ \A i \in 1 .. Len(t) : link[t[i]] = IF i = Len(t) THEN NULL ELSE t[i + 1]
      /\ head = (IF s = <<>> THEN NULL ELSE s[1])
      /\ head = (IF t = <<>> THEN NULL ELSE t[1])
  BY DEF ListUnder
<1> DEFINE Differ == {i \in Nat : /\ i >= 1
                                  /\ \/ i \in 1 .. Len(s) /\ i \notin 1 .. Len(t)
                                     \/ i \in 1 .. Len(t) /\ i \notin 1 .. Len(s)
                                     \/ /\ i \in 1 .. Len(s) /\ i \in 1 .. Len(t)
                                        /\ s[i] # t[i]}
<1>3. Differ = {}
  <2> SUFFICES ASSUME Differ # {} PROVE FALSE
    OBVIOUS
  <2>1. PICK m \in Differ : \A k \in Differ : m <= k
    <3>1. Differ \in SUBSET Nat
      OBVIOUS
    <3> HIDE DEF Differ
    <3>2. QED
      BY <3>1, LeastNatural
  <2>2. CASE m = 1
    <3>1. (s = <<>> <=> Len(s) = 0) /\ (t = <<>> <=> Len(t) = 0)
      OBVIOUS
    <3>2. s = <<>> <=> t = <<>>
      BY <1>1, <1>2, <3>1
    <3>3. QED
      BY <1>1, <1>2, <2>2, <3>1, <3>2
  <2>3. CASE m # 1
    <3>1. m - 1 \in Nat /\ m - 1 >= 1 /\ m - 1 \notin Differ
      BY <2>1, <2>3
    <3>2. /\ m - 1 \in 1 .. Len(s) /\ m - 1 \in 1 .. Len(t)
          /\ s[m - 1] = t[m - 1]
      BY <1>1, <2>1, <2>3, <3>1
    <3>3. (m - 1 = Len(s)) <=> (m - 1 = Len(t))
      <4>1. m \in Nat /\ m - 1 + 1 = m
        BY <2>1
      <4>2. link[s[m - 1]] = IF m - 1 = Len(s) THEN NULL ELSE s[m]
        BY <1>2, <3>2, <4>1
      <4>3. link[t[m - 1]] = IF m - 1 = Len(t) THEN NULL ELSE t[m]
        BY <1>2, <3>2, <4>1
      <4>4. /\ m - 1 # Len(s) => s[m] # NULL
            /\ m - 1 # Len(t) => t[m] # NULL
        BY <1>1, <3>2, <4>1
      <4>5. QED
        BY <3>2, <4>2, <4>3, <4>4
    <3>4. QED
      BY <1>1, <1>2, <2>1, <3>2, <3>3
  <2>4. QED
    BY <2>2, <2>3
<1>4. Len(s) = Len(t) /\ \A i \in 1 .. Len(s) : s[i] = t[i]
  <2>1. \A i \in Nat : i >= 1 =>
          /\ i \in 1 .. Len(s) <=> i \in 1 .. Len(t)
          /\ i \in 1 .. Len(s) => s[i] = t[i]
    BY <1>3
  <2>2. Len(s) = Len(t)
    <3>1. Len(s) >= 1 => Len(s) <= Len(t)
      BY <1>1, <2>1
    <3>2. Len(t) >= 1 => Len(t) <= Len(s)
      BY <1>1, <2>1
    <3>3. QED
      BY <1>1, <3>1, <3>2
  <2>3. QED
    BY <1>1, <2>1, <2>2
<1>5. QED
  BY <1>4, SeqEqual

\* So the sequence that the mapping chooses for the waiting list is the one the
\* invariant speaks of.
LEMMA ListChosen ==
  ASSUME NEW link, NEW head, NEW w \in Seq(Packets), ListUnder(link, head, w)
  PROVE  (CHOOSE v \in Chain : ListUnder(link, head, v)) = w
<1>1. w \in Chain
  BY DistinctInChain DEF ListUnder
<1>2. ASSUME NEW v \in Chain, ListUnder(link, head, v) PROVE v = w
  <2>1. v \in Seq(Packets)
    BY DEF Chain
  <2>2. QED
    BY <1>2, <2>1, ListUnique
<1>3. QED
  BY <1>1, <1>2

-----------------------------------------------------------------------------
(* The abstract queue, read off a given waiting list.                      *)

Queue(w)     == [i \in 1 .. Len(w) |-> Content(w[i])]
PendingOf(w) == IF at = "crc" THEN <<Content(this)>> \o Queue(w) ELSE Queue(w)

\* In a state, and in the state after a step, the mapping reads the sequence that
\* the links stand for.
LEMMA PendingIs ==
  ASSUME NEW w \in Seq(Packets), ListUnder(nxt, waiting, w)
  PROVE  Pending = PendingOf(w)
<1>1. WaitingList = w
  BY ListChosen DEF WaitingList, IsList
<1>2. QED
  BY <1>1 DEF Pending, PendingOf, Queue

\* After a step as before it, Pending is what the slots of the waiting list hold.
LEMMA PendingIsNext ==
  ASSUME NEW w \in Seq(Packets), ListUnder(nxt', waiting', w)
  PROVE  Pending' = PendingOf(w)'
<1>1. WaitingList' = w
  BY ListChosen DEF WaitingList, IsList
<1>2. QED
  BY <1>1 DEF Pending, PendingOf, Queue, Content

\* The queue of a waiting list is as long as the list.
LEMMA QueueLength ==
  ASSUME NEW w \in Seq(Packets)
  PROVE  /\ Queue(w) \in Seq({Content(w[i]) : i \in 1 .. Len(w)})
         /\ Len(Queue(w)) = Len(w)
         /\ Len(PendingOf(w)) = Len(w) + IF at = "crc" THEN 1 ELSE 0
BY DEF Queue, PendingOf

\* So Pending is a sequence.
LEMMA PendingTyped ==
  ASSUME PoolInv
  PROVE  \E contents : Pending \in Seq(contents)
<1>1. PICK w \in Seq(Packets), f \in Seq(Packets) : PoolShape(w, f) /\ InBounds(w)
  BY DEF PoolInv
<1>2. Pending = PendingOf(w)
  BY <1>1, PendingIs DEF PoolShape, IsList
<1> DEFINE contents == {Content(this)} \cup {Content(w[i]) : i \in 1 .. Len(w)}
<1>3. Queue(w) \in Seq(contents) /\ <<Content(this)>> \in Seq(contents)
  BY DEF Queue
<1>4. PendingOf(w) \in Seq(contents)
  <2> HIDE DEF contents
  <2>1. <<Content(this)>> \o Queue(w) \in Seq(contents)
    BY <1>3, ConcatProperties
  <2>2. QED
    BY <1>3, <2>1 DEF PendingOf
<1>5. QED
  BY <1>2, <1>4

\* A step that keeps the waiting list, the contents of what it holds and the
\* packet in work keeps the queue.
LEMMA SamePending ==
  ASSUME NEW w \in Seq(Packets),
         ListUnder(nxt, waiting, w), ListUnder(nxt', waiting', w),
         \A p \in Packets : On(w, p) => length'[p] = length[p] /\ buffer'[p] = buffer[p],
         at' = "crc" <=> at = "crc",
         at = "crc" => /\ this' = this
                       /\ length'[this] = length[this]
                       /\ buffer'[this] = buffer[this]
  PROVE  Pending' = Pending
<1>1. ASSUME NEW i \in 1 .. Len(w) PROVE Content(w[i])' = Content(w[i])
  <2>1. w[i] \in Packets /\ On(w, w[i])
    BY DEF On
  <2>2. QED
    BY <2>1 DEF Content
<1>2. Queue(w)' = Queue(w)
  BY <1>1 DEF Queue
<1>3. at = "crc" => Content(this)' = Content(this)
  BY DEF Content
<1>4. PendingOf(w)' = PendingOf(w)
  BY <1>2, <1>3 DEF PendingOf
<1>5. QED
  BY <1>4, PendingIs, PendingIsNext

\* Distinct slots, none of them the one in work, are fewer than all by one when
\* there is one in work; and when nothing else is left they are all the others.
LEMMA SlotsLeft ==
  ASSUME TypeOK, NEW w \in Seq(Packets),
         \A i, j \in 1 .. Len(w) : w[i] = w[j] => i = j,
         ~On(w, this)
  PROVE  LET busy == IF this = NULL THEN 0 ELSE 1
         IN  /\ Len(w) + busy <= NUMBER_OF_PACKETS
             /\ (\A p \in Packets : On(w, p) \/ p = this)
                  => Len(w) + busy = NUMBER_OF_PACKETS
<1> DEFINE rest == Packets \ {this}
           busy == IF this = NULL THEN 0 ELSE 1
<1>1. IsFiniteSet(Packets) /\ Cardinality(Packets) = NUMBER_OF_PACKETS
  BY FS_Interval, PacketAssumption DEF Packets
<1>2. IsFiniteSet(rest) /\ Cardinality(rest) = NUMBER_OF_PACKETS - busy
  <2>1. CASE this = NULL
    <3>1. this \notin Packets /\ NUMBER_OF_PACKETS \in Nat
      BY <2>1, PacketAssumption
    <3>2. IsFiniteSet(rest) /\ Cardinality(rest) = Cardinality(Packets)
      BY <1>1, <3>1, FS_RemoveElement
    <3>3. QED
      BY <1>1, <2>1, <3>1, <3>2
  <2>2. CASE this # NULL
    <3>1. this \in Packets
      BY <2>2 DEF TypeOK
    <3>2. IsFiniteSet(rest) /\ Cardinality(rest) = Cardinality(Packets) - 1
      BY <1>1, <3>1, FS_RemoveElement
    <3>3. QED
      BY <1>1, <2>2, <3>2
  <2>3. QED
    BY <2>1, <2>2
<1>3. IsFiniteSet(1 .. Len(w)) /\ Cardinality(1 .. Len(w)) = Len(w) /\ Len(w) \in Nat
  <2>1. Len(w) \in Int /\ 1 \in Int /\ Len(w) >= 0 /\ Len(w) \in Nat
    OBVIOUS
  <2>2. Cardinality(1 .. Len(w)) = IF 1 > Len(w) THEN 0 ELSE Len(w) - 1 + 1
    BY <2>1, FS_Interval
  <2>3. IsFiniteSet(1 .. Len(w))
    BY <2>1, FS_Interval
  <2>4. QED
    BY <2>1, <2>2, <2>3
<1>4. w \in [1 .. Len(w) -> rest]
  <2>1. \A i \in 1 .. Len(w) : w[i] \in Packets /\ w[i] # this
    BY DEF On
  <2>2. QED
    BY <2>1
<1>5. w \in Injection(1 .. Len(w), rest)
  BY <1>4 DEF Injection, IsInjective
<1>6. Len(w) <= NUMBER_OF_PACKETS - busy
  BY <1>2, <1>3, <1>5, FS_Injection
<1>7. ASSUME \A p \in Packets : On(w, p) \/ p = this
      PROVE  Len(w) = NUMBER_OF_PACKETS - busy
  <2>1. w \in Surjection(1 .. Len(w), rest)
    BY <1>4, <1>7 DEF Surjection, On
  <2>2. Cardinality(1 .. Len(w)) = Cardinality(rest)
    BY <1>2, <1>5, <2>1, FS_Injection
  <2>3. QED
    BY <1>2, <1>3, <2>2
<1>8. NUMBER_OF_PACKETS \in Nat /\ busy \in Nat
  BY PacketAssumption
<1>9. QED
  BY <1>3, <1>6, <1>7, <1>8

-----------------------------------------------------------------------------
(* Every step of the packet layer is a step of the queue, or none.         *)

\* Sending, and working on the CRC, are invisible.
LEMMA QuietSimulates ==
  ASSUME UNCHANGED <<poolVars, fillVars, this, reply, need_hello>>,
         at' = "crc" <=> at = "crc", at' = "reply" <=> at = "reply"
  PROVE  UNCHANGED Abstract!vars
<1>1. WaitingList' = WaitingList
  BY DEF WaitingList, IsList, ListUnder, poolVars
<1>2. Pending' = Pending
  BY <1>1 DEF Pending, Content, fillVars
<1>3. (at = "reply")' = (at = "reply")
  OBVIOUS
<1>4. QED
  BY <1>2, <1>3 DEF Abstract!vars

\* Taking the head off the waiting list leaves it the oldest unanswered packet.
LEMMA DequeueSimulates ==
  ASSUME TypeOK, PoolInv, Dequeue
  PROVE  UNCHANGED Abstract!vars
<1>1. PICK w \in Seq(Packets), f \in Seq(Packets) : PoolShape(w, f) /\ InBounds(w)
  BY DEF PoolInv
<1>2. waiting \in Packets /\ nxt \in [Packets -> Packets \cup {NULL}]
  BY PacketAssumption DEF Dequeue, TypeOK
<1>3. ListUnder(nxt, waiting, w)
  BY <1>1 DEF PoolShape, IsList
<1>4. PICK v \in Seq(Packets) :
        /\ v = Tail(w) /\ w # <<>> /\ waiting = w[1]
        /\ ListUnder(nxt', waiting', v)
  <2> DEFINE a == Tail(w)
  <2>1. /\ a \in Seq(Packets) /\ w # <<>> /\ waiting = w[1]
        /\ ListUnder([nxt EXCEPT ![waiting] = NULL], nxt[waiting], a)
    BY <1>2, <1>3, ListTake
  <2> HIDE DEF a
  <2>2. ListUnder(nxt', waiting', a)
    BY <2>1 DEF Dequeue
  <2>3. QED
    BY <2>1, <2>2 DEF a
<1>5. Pending = Queue(w)
  BY <1>3, PendingIs DEF PendingOf, Dequeue
<1>6. Pending' = <<Content(waiting)>> \o Queue(v)
  <2>1. /\ at' = "crc" /\ this' = waiting
        /\ length' = length /\ buffer' = buffer
    BY DEF Dequeue, fillVars
  <2>2. Content(this)' = Content(waiting) /\ Queue(v)' = Queue(v)
    BY <2>1 DEF Content, Queue
  <2>3. QED
    BY <1>4, <2>1, <2>2, PendingIsNext DEF PendingOf
<1>7. Queue(w) = <<Content(waiting)>> \o Queue(v)
  <2>1. Len(w) \in Nat \ {0} /\ Len(v) = Len(w) - 1
        /\ \A i \in 1 .. Len(v) : v[i] = w[i + 1]
    BY <1>4
  <2> DEFINE c == Content(waiting)
             q == Queue(w)
             r == Queue(v)
  <2>2. /\ Len(q) = Len(w) /\ q \in Seq({c} \cup {Content(w[i]) : i \in 1 .. Len(w)})
        /\ q[1] = c
        /\ \A i \in 1 .. Len(w) : q[i] = Content(w[i])
    BY SMTT(30), <1>4, <2>1 DEF Queue
  <2>3. /\ Len(r) = Len(v) /\ r \in Seq({c} \cup {Content(w[i]) : i \in 1 .. Len(w)})
        /\ \A i \in 1 .. Len(v) : r[i] = Content(w[i + 1])
    BY SMTT(30), <2>1 DEF Queue
  <2> HIDE DEF c, q, r
  <2>4. <<c>> \o r \in Seq({c} \cup {Content(w[i]) : i \in 1 .. Len(w)})
    BY <2>3
  <2>5. Len(<<c>> \o r) = Len(q)
    BY <2>1, <2>2, <2>3
  <2>6. ASSUME NEW i \in 1 .. Len(q) PROVE (<<c>> \o r)[i] = q[i]
    <3>1. CASE i = 1
      BY <3>1, <2>2, <2>3
    <3>2. CASE i # 1
      <4>1. i - 1 \in 1 .. Len(v) /\ i \in 1 .. Len(w) /\ i - 1 + 1 = i
        BY <3>2, <2>1, <2>2
      <4>2. (<<c>> \o r)[i] = r[i - 1]
        BY <3>2, <2>3, <4>1
      <4>3. r[i - 1] = Content(w[i])
        BY <2>3, <4>1
      <4>4. QED
        BY <2>2, <4>1, <4>2, <4>3
    <3>3. QED
      BY <3>1, <3>2
  <2>7. <<c>> \o r = q
    BY <2>2, <2>4, <2>5, <2>6, SeqEqual
  <2>8. QED
    BY <2>7 DEF c, q, r
<1>8. /\ (at = "reply")' = (at = "reply")
      /\ UNCHANGED <<reply.kind, need_hello>>
  BY DEF Dequeue, txVars
<1>9. QED
  BY <1>5, <1>6, <1>7, <1>8 DEF Abstract!vars

\* The packet the verdict and the handler work on is the oldest unanswered one.
LEMMA DispatchTakes ==
  ASSUME TypeOK, PoolInv, Dispatch
  PROVE  /\ Pending # <<>> /\ Head(Pending) = Content(this)
         /\ Tail(Pending) = Pending'
<1>1. PICK w \in Seq(Packets), f \in Seq(Packets) : PoolShape(w, f) /\ InBounds(w)
  BY DEF PoolInv
<1>2. ListUnder(nxt, waiting, w) /\ ListUnder(nxt', waiting', w)
  BY <1>1 DEF PoolShape, IsList, Dispatch, poolVars
<1>3. Queue(w)' = Queue(w)
  <2>1. /\ \A p \in Packets : p # this => length'[p] = length[p]
        /\ buffer' = buffer
    BY DEF Dispatch, TypeOK
  <2>2. ASSUME NEW i \in 1 .. Len(w) PROVE Content(w[i])' = Content(w[i])
    <3>1. w[i] \in Packets /\ On(w, w[i])
      BY DEF On
    <3>2. w[i] # this
      BY <1>1, <3>1 DEF PoolShape
    <3>3. QED
      BY <2>1, <3>1, <3>2 DEF Content
  <2>3. QED
    BY <2>2 DEF Queue
<1>4. Pending = <<Content(this)>> \o Queue(w)
  BY <1>2, PendingIs DEF PendingOf, Dispatch
<1>5. Pending' = Queue(w)
  BY <1>2, <1>3, PendingIsNext DEF PendingOf, Dispatch
<1>6. /\ Pending # <<>> /\ Head(Pending) = Content(this)
      /\ Tail(Pending) = Pending'
  <2> DEFINE c == Content(this)
             q == Queue(w)
  <2>1. q \in Seq({c} \cup {Content(w[i]) : i \in 1 .. Len(w)})
    BY DEF Queue
  <2>2. Pending = <<c>> \o q /\ Pending' = q
    BY <1>4, <1>5
  <2> HIDE DEF c, q
  <2>3. <<c>> \o q # <<>> /\ Head(<<c>> \o q) = c /\ Tail(<<c>> \o q) = q
    <3>1. <<c>> \in Seq({c} \cup {Content(w[i]) : i \in 1 .. Len(w)})
      OBVIOUS
    <3>2. QED
      BY <2>1, <3>1
  <2>4. QED
    BY <2>2, <2>3 DEF c
<1>7. QED
  BY <1>6

\* So they begin the answer to it.
LEMMA DispatchSimulates ==
  ASSUME TypeOK, PoolInv, Dispatch
  PROVE  Abstract!BeginAnswer
<1>1. /\ Pending # <<>> /\ Head(Pending) = Content(this)
      /\ Tail(Pending) = Pending'
  BY DispatchTakes
<1>2. PICK a \in Respond(Content(this), need_hello) :
        StartTX(a.kind) /\ need_hello' = a.need_hello
  BY DEF Dispatch
<1>3. a \in Abstract!Respond(Head(Pending), need_hello)
  <2>1. \A packet, need : Abstract!Respond(packet, need) = Respond(packet, need)
    BY DEF Respond, Answer, Gated, Handle, Handshake, DRL_Cmd_Info, DRL_Cmd_FlashSize,
           DRL_Packet_FlashRead, DRL_Packet_SendInvalid, DRL_CMD_STARTING_CMD,
           DRL_CMD_HANDSHAKE, DRL_CMD_INFO, DRL_CMD_FLASH_SIZE, DRL_CMD_FLASH_READ,
           DRL_CMD_ENDING_CMD,
           Abstract!Respond, Abstract!Answer, Abstract!Gated, Abstract!Handle,
           Abstract!Handshake, Abstract!DRL_Cmd_Info, Abstract!DRL_Cmd_FlashSize,
           Abstract!DRL_Packet_FlashRead, Abstract!DRL_Packet_SendInvalid,
           Abstract!DRL_CMD_STARTING_CMD, Abstract!DRL_CMD_HANDSHAKE,
           Abstract!DRL_CMD_INFO, Abstract!DRL_CMD_FLASH_SIZE,
           Abstract!DRL_CMD_FLASH_READ, Abstract!DRL_CMD_ENDING_CMD
  <2>2. QED
    BY <1>1, <1>2, <2>1
<1>4. reply'.kind = a.kind
  BY <1>2 DEF StartTX
<1>5. at # "reply" /\ at' = "reply"
  BY DEF Dispatch
<1>6. QED
  BY <1>1, <1>2, <1>3, <1>4, <1>5 DEF Abstract!BeginAnswer

\* Giving the slot back ends the answer.
LEMMA ReleaseSimulates ==
  ASSUME TypeOK, PoolInv, Release
  PROVE  Abstract!EndAnswer
<1>1. PICK w \in Seq(Packets), f \in Seq(Packets) : PoolShape(w, f) /\ InBounds(w)
  BY DEF PoolInv
<1>2. ListUnder(nxt, waiting, w)
  BY <1>1 DEF PoolShape, IsList
<1>3. ListUnder(nxt', waiting', w)
  <2>1. this \in Packets /\ ~On(w, this)
    BY <1>1, PacketAssumption DEF PoolShape, Release, TypeOK
  <2>2. \A p \in Packets : On(w, p) => nxt'[p] = nxt[p]
    BY <2>1 DEF Release, TypeOK
  <2>3. QED
    BY <1>2, <2>2, ListFrame DEF Release
<1>4. Pending' = Pending
  BY <1>2, <1>3, SamePending DEF Release, fillVars
<1>5. at = "reply" /\ at' # "reply" /\ UNCHANGED <<reply.kind, need_hello>>
  BY DEF Release, txVars
<1>6. QED
  BY <1>4, <1>5 DEF Abstract!EndAnswer

\* A byte that completes no packet is invisible.
LEMMA FillSimulates ==
  ASSUME TypeOK, PoolInv, CanFill, nxt' = SlotNxt,
         \A p \in Packets : p # Slot => length'[p] = length[p] /\ buffer'[p] = buffer[p],
         UNCHANGED <<waiting, at, this, reply, need_hello>>
  PROVE  UNCHANGED Abstract!vars
<1>1. PICK w \in Seq(Packets), f \in Seq(Packets) : PoolShape(w, f) /\ InBounds(w)
  BY DEF PoolInv
<1>2. /\ ListUnder(nxt, waiting, w) /\ ListUnder(nxt', waiting', w)
      /\ Slot # this
      /\ \A p \in Packets : On(w, p) => p # Slot
  BY <1>1, ClaimShape DEF PoolShape, IsList
<1>3. at = "crc" => this \in Packets
  BY DEF TypeOK
<1>4. Pending' = Pending
  BY <1>2, <1>3, SamePending
<1>5. QED
  BY <1>4 DEF Abstract!vars

\* Neither an escape, nor a data byte, nor a flag after a packet of a wrong length
\* completes a packet.
LEMMA ByteSimulates ==
  ASSUME TypeOK, PoolInv, NEW ch,
         (RXFlag /\ BadLength) \/ RXEscape \/ RXData(ch)
  PROVE  UNCHANGED Abstract!vars
<1>1. CASE RXFlag /\ BadLength
  <2>1. \A p \in Packets : p # Slot => length'[p] = length[p] /\ buffer'[p] = buffer[p]
    BY <1>1, SlotTyped DEF RXFlag, Reject, TypeOK
  <2>2. QED
    BY <1>1, <2>1, FillSimulates DEF RXFlag, Reject, procVars, txVars
<1>2. CASE RXEscape
  <2>1. \A p \in Packets : p # Slot => length'[p] = length[p] /\ buffer'[p] = buffer[p]
    BY <1>2, SlotTyped DEF RXEscape, TypeOK
  <2>2. QED
    BY <1>2, <2>1, FillSimulates DEF RXEscape, procVars, txVars
<1>3. CASE RXData(ch)
  <2>1. \A p \in Packets : p # Slot => length'[p] = length[p] /\ buffer'[p] = buffer[p]
    <3>1. length \in [Packets -> 0 .. LENGTH_SPAN - 1] /\ DOMAIN buffer = Packets
      BY DEF TypeOK
    <3>2. \A p \in Packets : p # Slot => length'[p] = length[p]
      BY <1>3, <3>1 DEF RXData
    <3>3. \A p \in Packets : p # Slot => buffer'[p] = buffer[p]
      BY <1>3, <3>1 DEF RXData
    <3>4. QED
      BY <3>2, <3>3
  <2>2. QED
    BY <1>3, <2>1, FillSimulates DEF RXData, procVars, txVars
<1>4. QED
  BY <1>1, <1>2, <1>3

\* A flag after a packet of legal length completes it: one more packet is pending,
\* behind all the others, with the contents of its slot, and there was room for it.
LEMMA EnqueueAppends ==
  ASSUME TypeOK, PoolInv, CanFill, Enqueue,
         Filled \in 3 .. MAX_PACKET_SIZE,
         UNCHANGED <<buffer, at, this>>
  PROVE  \E slot \in Packets :
           /\ slot = Slot
           /\ Len(Pending) + (IF at = "reply" THEN 1 ELSE 0) < NUMBER_OF_PACKETS
           /\ Len(Pending') = Len(Pending) + 1
           /\ SubSeq(Pending', 1, Len(Pending)) = Pending
           /\ \A i \in 1 .. Len(Pending) : Pending'[i] = Pending[i]
           /\ Pending'[Len(Pending')] = Content(slot)'
           /\ Len(Content(slot)') \in 3 .. MAX_PACKET_SIZE
<1>1. PICK w \in Seq(Packets), f \in Seq(Packets) : PoolShape(w, f) /\ InBounds(w)
  BY DEF PoolInv
<1>2. ListUnder(nxt, waiting, w)
  BY <1>1 DEF PoolShape, IsList
<1>v. PICK v : v = Append(w, Slot)
  OBVIOUS
<1>3. /\ Slot \in Packets /\ ~On(w, Slot) /\ Slot # this
      /\ v \in Seq(Packets) /\ ListUnder(nxt', waiting', v)
      /\ \A p \in Packets : On(v, p) <=> On(w, p) \/ p = Slot
      /\ Len(v) = Len(w) + 1 /\ Len(w) \in Nat
      /\ v[Len(v)] = Slot
      /\ \A i \in 1 .. Len(w) : v[i] = w[i]
  <2> DEFINE a == Append(w, Slot)
  <2>1. /\ Slot \in Packets /\ ~On(w, Slot)
        /\ a \in Seq(Packets) /\ ListUnder(nxt', waiting', a)
        /\ \A p \in Packets : On(a, p) <=> On(w, p) \/ p = Slot
    BY <1>1, EnqueueList
  <2>2. Slot # this
    BY <1>1, ClaimShape
  <2>3. /\ Len(a) = Len(w) + 1 /\ Len(w) \in Nat /\ a[Len(a)] = Slot
        /\ \A i \in 1 .. Len(w) : a[i] = w[i]
    <3>1. Slot \in Packets
      BY SlotTyped
    <3>2. QED
      BY <3>1
  <2>4. v = a
    BY <1>v
  <2> HIDE DEF a
  <2>5. QED
    BY <2>1, <2>2, <2>3, <2>4
<1>4. ~On(v, this)
  <2>1. ~On(w, this)
    <3>1. CASE this \in Packets
      BY <3>1, <1>1 DEF PoolShape
    <3>2. CASE this \notin Packets
      BY <3>2 DEF On
    <3>3. QED
      BY <3>1, <3>2
  <2>2. \A i \in 1 .. Len(v) : v[i] \in Packets
    BY <1>3
  <2>3. QED
    BY <1>3, <2>1, <2>2 DEF On
<1>5. Len(v) + (IF this = NULL THEN 0 ELSE 1) <= NUMBER_OF_PACKETS
  BY <1>3, <1>4, SlotsLeft DEF ListUnder
<1>6. this # NULL <=> at \in {"crc", "reply"}
  BY DEF TypeOK
<1>7. /\ Pending = PendingOf(w) /\ Pending' = PendingOf(v)'
      /\ Len(Pending) = Len(w) + IF at = "crc" THEN 1 ELSE 0
  BY <1>2, <1>3, PendingIs, PendingIsNext, QueueLength
<1>8. Len(Pending) + (IF at = "reply" THEN 1 ELSE 0) < NUMBER_OF_PACKETS
  <2>1. NUMBER_OF_PACKETS \in Nat /\ Len(w) \in Nat /\ Len(v) = Len(w) + 1
    BY <1>3, PacketAssumption
  <2>2. CASE this = NULL
    <3>1. at # "crc" /\ at # "reply"
      BY <2>2, <1>6
    <3>2. Len(Pending) = Len(w)
      BY <2>1, <3>1, <1>7
    <3>3. Len(v) <= NUMBER_OF_PACKETS
      BY <2>1, <2>2, <1>5
    <3>4. Len(Pending) + 0 < NUMBER_OF_PACKETS
      BY <2>1, <3>2, <3>3
    <3>5. QED
      BY <3>1, <3>4
  <2>3. CASE this # NULL
    <3>1. Len(v) + 1 <= NUMBER_OF_PACKETS
      BY <2>1, <2>3, <1>5
    <3>2. CASE at = "crc"
      <4>1. Len(Pending) = Len(w) + 1
        BY <2>1, <3>2, <1>7
      <4>2. Len(Pending) + 0 < NUMBER_OF_PACKETS
        BY <2>1, <3>1, <4>1
      <4>3. QED
        BY <3>2, <4>2
    <3>3. CASE at = "reply"
      <4>1. Len(Pending) = Len(w)
        BY <2>1, <3>3, <1>7
      <4>2. Len(Pending) + 1 < NUMBER_OF_PACKETS
        BY <2>1, <3>1, <4>1
      <4>3. QED
        BY <3>3, <4>2
    <3>4. QED
      BY <2>3, <3>2, <3>3, <1>6
  <2>4. QED
    BY <2>2, <2>3
<1>s. PICK slot \in Packets : slot = Slot
  BY <1>3
<1>9. /\ \A p \in Packets : p # slot => Content(p)' = Content(p)
      /\ Len(Content(slot)') = Filled
  <2>1. /\ \A p \in Packets : p # slot => length'[p] = length[p]
        /\ length'[slot] = Filled
        /\ Filled \in Nat
    BY <1>s DEF Enqueue, TypeOK
  <2>2. \A p \in Packets : p # slot => Content(p)' = Content(p)
    BY <2>1 DEF Content
  <2>3. Content(slot)' = [i \in 1 .. Filled |-> buffer'[slot][i - 1]]
    BY <2>1 DEF Content
  <2>4. QED
    BY <2>1, <2>2, <2>3
<1>10. at' = at /\ (at = "crc" => Content(this)' = Content(this))
  <2>1. at = "crc" => this \in Packets
    BY DEF TypeOK
  <2>2. Content(this)' = [i \in 1 .. length'[this] |-> buffer'[this][i - 1]]
    BY DEF Content
  <2>3. at = "crc" => length'[this] = length[this]
    BY <1>3, <2>1 DEF Enqueue, TypeOK
  <2>4. QED
    BY <2>2, <2>3 DEF Content
<1>p. PICK c : c = Content(slot)'
  OBVIOUS
<1>q. PICK q : q = Queue(w)
  OBVIOUS
<1>t. PICK t : t = Content(this)
  OBVIOUS
<1> DEFINE Z == {c, t} \cup {q[i] : i \in 1 .. Len(w)}
<1>11. q \in Seq(Z) /\ Len(q) = Len(w)
  <2>1. q = [i \in 1 .. Len(w) |-> q[i]]
    BY <1>q DEF Queue
  <2>2. [i \in 1 .. Len(w) |-> q[i]] \in [1 .. Len(w) -> Z]
    OBVIOUS
  <2>3. QED
    BY <2>1, <2>2, <1>3
<1> HIDE DEF Z
<1>12. Queue(v)' = Append(q, c)
  <2>1. Queue(v)' = [i \in 1 .. Len(w) + 1 |-> IF i = Len(w) + 1 THEN c ELSE q[i]]
    <3>1. ASSUME NEW i \in 1 .. Len(w) PROVE Content(v[i])' = q[i]
      <4>1. v[i] = w[i] /\ v[i] \in Packets /\ v[i] # slot
        <5>1. v[i] = w[i] /\ w[i] \in Packets /\ On(w, w[i])
          BY <1>3 DEF On
        <5>2. QED
          BY <5>1, <1>3, <1>s
      <4>2. q[i] = Content(w[i])
        BY <1>q DEF Queue
      <4>3. QED
        BY <4>1, <4>2, <1>9
    <3>2. Content(v[Len(w) + 1])' = c
      BY <1>3, <1>p, <1>s
    <3>3. \A i \in 1 .. Len(w) + 1 : i # Len(w) + 1 => i \in 1 .. Len(w)
      BY <1>3
    <3>4. \A i \in 1 .. Len(w) + 1 : Content(v[i])' = IF i = Len(w) + 1 THEN c ELSE q[i]
      BY <3>1, <3>2, <3>3
    <3>5. Queue(v)' = [i \in 1 .. Len(w) + 1 |-> Content(v[i])']
      BY <1>3 DEF Queue
    <3>6. QED
      BY <3>4, <3>5
  <2> DEFINE a == [i \in 1 .. Len(w) + 1 |-> IF i = Len(w) + 1 THEN c ELSE q[i]]
  <2>2. c \in Z /\ Len(w) \in Nat
    BY <1>3 DEF Z
  <2>3. \A i \in 1 .. Len(w) : q[i] \in Z
    BY <1>11
  <2>4. a \in Seq(Z) /\ Len(a) = Len(w) + 1
    BY <2>2, <2>3
  <2>5. /\ Append(q, c) \in Seq(Z) /\ Len(Append(q, c)) = Len(w) + 1
        /\ \A i \in 1 .. Len(w) + 1 : Append(q, c)[i] = a[i]
    BY <2>2, <1>11
  <2>6. a = Append(q, c)
    BY <2>4, <2>5, SeqEqual
  <2>7. QED
    BY <2>1, <2>6
<1>13. /\ Len(Pending') = Len(Pending) + 1
       /\ SubSeq(Pending', 1, Len(Pending)) = Pending
       /\ \A i \in 1 .. Len(Pending) : Pending'[i] = Pending[i]
       /\ Pending'[Len(Pending')] = c
  <2>1. c \in Z /\ t \in Z
    BY DEF Z
  <2>2. CASE at = "crc"
    <3>1. Pending = <<t>> \o q /\ Pending' = <<t>> \o Append(q, c)
      BY <2>2, <1>7, <1>10, <1>12, <1>q, <1>t DEF PendingOf
    <3>2. /\ Len(<<t>> \o Append(q, c)) = Len(<<t>> \o q) + 1
          /\ SubSeq(<<t>> \o Append(q, c), 1, Len(<<t>> \o q)) = <<t>> \o q
          /\ \A i \in 1 .. Len(<<t>> \o q) : (<<t>> \o Append(q, c))[i] = (<<t>> \o q)[i]
          /\ (<<t>> \o Append(q, c))[Len(<<t>> \o Append(q, c))] = c
      BY <2>1, <1>11
    <3>3. QED
      BY <3>1, <3>2
  <2>3. CASE at # "crc"
    <3>1. Pending = q /\ Pending' = Append(q, c)
      BY <2>3, <1>7, <1>10, <1>12, <1>q DEF PendingOf
    <3>2. /\ Len(Append(q, c)) = Len(q) + 1
          /\ SubSeq(Append(q, c), 1, Len(q)) = q
          /\ \A i \in 1 .. Len(q) : Append(q, c)[i] = q[i]
          /\ Append(q, c)[Len(Append(q, c))] = c
      BY <2>1, <1>11
    <3>3. QED
      BY <3>1, <3>2
  <2>4. QED
    BY <2>2, <2>3
<1>14. Len(c) \in 3 .. MAX_PACKET_SIZE
  BY <1>9, <1>p
<1>15. QED
  BY <1>8, <1>13, <1>14, <1>p, <1>s

\* So a flag after a packet of legal length is an acceptance.
LEMMA EnqueueSimulates ==
  ASSUME TypeOK, PoolInv, CanFill, Enqueue,
         Filled \in 3 .. MAX_PACKET_SIZE,
         UNCHANGED <<buffer, at, this, reply, need_hello>>
  PROVE  Abstract!Accept
<1>1. /\ Len(Pending) + (IF at = "reply" THEN 1 ELSE 0) < NUMBER_OF_PACKETS
      /\ Len(Pending') = Len(Pending) + 1
      /\ SubSeq(Pending', 1, Len(Pending)) = Pending
      /\ Len(Pending'[Len(Pending')]) \in 3 .. MAX_PACKET_SIZE
  BY EnqueueAppends
<1>2. (at = "reply")' = (at = "reply")
  OBVIOUS
<1>3. QED
  BY <1>1, <1>2 DEF Abstract!Accept, Abstract!Held

\* The host is told of an overrun only when every slot holds an unanswered packet.
LEMMA OverrunSimulates ==
  ASSUME TypeOK, PoolInv, RXOverrun
  PROVE  Abstract!ReportOverrun
<1>1. PICK w \in Seq(Packets), f \in Seq(Packets) : PoolShape(w, f) /\ InBounds(w)
  BY DEF PoolInv
<1>2. ListUnder(nxt, waiting, w)
  BY <1>1 DEF PoolShape, IsList
<1>3. \A p \in Packets : ~On(f, p) /\ p # current
  <2>1. free_list = NULL /\ current = NULL
    BY DEF RXOverrun
  <2>2. free_list = IF f = <<>> THEN NULL ELSE f[1]
    BY <1>1 DEF PoolShape, IsList, ListUnder
  <2>3. f = <<>>
    <3>1. f # <<>> => f[1] \in Packets
      OBVIOUS
    <3>2. QED
      BY <2>1, <2>2, <3>1, PacketAssumption
  <2>4. QED
    BY <2>1, <2>3, PacketAssumption DEF On
<1>4. /\ \A p \in Packets : On(w, p) \/ p = this
      /\ ~On(w, this)
  <2>1. \A p \in Packets : On(w, p) \/ p = this
    BY <1>1, <1>3 DEF PoolShape
  <2>2. this \in Packets => ~On(w, this)
    BY <1>1 DEF PoolShape
  <2>3. this \notin Packets => ~On(w, this)
    BY DEF On
  <2>4. QED
    BY <2>1, <2>2, <2>3
<1>5. Len(w) + (IF this = NULL THEN 0 ELSE 1) = NUMBER_OF_PACKETS
  BY <1>2, <1>4, SlotsLeft DEF ListUnder
<1>6. this # NULL <=> at \in {"crc", "reply"}
  BY DEF TypeOK
<1>7. Len(Pending) = Len(w) + IF at = "crc" THEN 1 ELSE 0
  BY <1>2, PendingIs, QueueLength
<1>8. Len(Pending) + (IF at = "reply" THEN 1 ELSE 0) = NUMBER_OF_PACKETS
  <2>1. NUMBER_OF_PACKETS \in Nat /\ Len(w) \in Nat
    BY PacketAssumption
  <2>2. CASE this = NULL
    <3>1. at # "crc" /\ at # "reply"
      BY <2>2, <1>6
    <3>2. Len(Pending) = Len(w)
      BY <2>1, <3>1, <1>7
    <3>3. Len(Pending) + 0 = NUMBER_OF_PACKETS
      BY <2>1, <2>2, <3>2, <1>5
    <3>4. QED
      BY <3>1, <3>3
  <2>3. CASE at = "crc"
    BY <2>1, <2>3, <1>5, <1>6, <1>7
  <2>4. CASE at = "reply"
    <3>1. Len(Pending) = Len(w)
      BY <2>1, <2>4, <1>7
    <3>2. Len(Pending) + 1 = NUMBER_OF_PACKETS
      BY <2>1, <2>4, <3>1, <1>5, <1>6
    <3>3. QED
      BY <2>4, <3>2
  <2>5. QED
    BY <2>2, <2>3, <2>4, <1>6
<1>9. Pending' = Pending
  BY <1>2, SamePending DEF RXOverrun, poolVars, fillVars, procVars
<1>10. /\ reply'.kind = "!WOV" /\ need_hello' = need_hello
       /\ (at = "reply")' = (at = "reply")
  BY DEF RXOverrun, StartTX, procVars
<1>11. QED
  BY <1>8, <1>9, <1>10 DEF Abstract!ReportOverrun, Abstract!Held

\* The mapping takes a step of the packet layer to a step of the queue.
LEMMA StepSimulates ==
  ASSUME TypeOK, PoolInv, [AnyStep]_vars
  PROVE  [Abstract!Next]_(Abstract!vars)
<1>1. CASE TXInterrupt \/ TXOpen \/ TXBody \/ TXClose \/ TXReturn
  <2>1. UNCHANGED <<poolVars, fillVars, procVars, reply, need_hello>>
    BY <1>1 DEF TXInterrupt, TXOpen, TXBody, TXClose, TXReturn
  <2>2. QED
    BY <2>1, QuietSimulates DEF procVars
<1>2. CASE CrcChunk \/ EndProc
  BY <1>2, QuietSimulates DEF CrcChunk, EndProc, txVars
<1>3. CASE Dequeue
  BY <1>3, DequeueSimulates
<1>4. CASE Dispatch
  BY <1>4, DispatchSimulates DEF Abstract!Next
<1>5. CASE Release
  BY <1>5, ReleaseSimulates DEF Abstract!Next
<1>6. CASE RXOverrun
  BY <1>6, OverrunSimulates DEF Abstract!Next
<1>7. CASE RXFlag
  <2>1. CASE BadLength
    BY <1>7, <2>1, ByteSimulates
  <2>2. CASE ~BadLength
    <3>1. Filled \in 3 .. MAX_PACKET_SIZE
      BY <1>7, <2>2, SlotTyped, PacketAssumption DEF BadLength, RXFlag
    <3>2. QED
      BY <1>7, <2>2, <3>1, EnqueueSimulates DEF RXFlag, procVars, txVars, Abstract!Next
  <2>3. QED
    BY <2>1, <2>2
<1>8. CASE RXEscape
  BY <1>8, ByteSimulates
<1>9. ASSUME NEW ch \in 0 .. 255, RXData(ch) PROVE UNCHANGED Abstract!vars
  BY <1>9, ByteSimulates
<1>10. CASE UNCHANGED vars
  BY <1>10, QuietSimulates DEF vars, procVars, txVars
<1>11. QED
  BY <1>1, <1>2, <1>3, <1>4, <1>5, <1>6, <1>7, <1>8, <1>9, <1>10
     DEF AnyStep, Compute, DRL_Packet_RX

\* At first the queue is empty.
LEMMA QueueInit == Init => Abstract!Init /\ Pending = <<>>
<1> SUFFICES ASSUME Init PROVE Abstract!Init /\ Pending = <<>>
  OBVIOUS
<1> DEFINE w == <<>>
<1>1. w \in Seq(Packets) /\ Len(w) = 0
  OBVIOUS
<1>2. ListUnder(nxt, waiting, w)
  BY <1>1 DEF Init, ListUnder
<1>3. Pending = PendingOf(w) /\ PendingOf(w) = <<>>
  <2>1. Pending = PendingOf(w)
    BY <1>1, <1>2, PendingIs
  <2>2. PendingOf(w) = <<>>
    BY DEF PendingOf, Queue, Init
  <2>3. QED
    BY <2>1, <2>2
<1>4. QED
  BY <1>3 DEF Init, Abstract!Init

\* Packets are answered in order of completion, each with the contents it was
\* completed with and each exactly once, and an overrun is reported only when every
\* slot holds an unanswered packet: the receiver, the pool and the processing loop of
\* io/packet_io.c implement PacketQueue, whatever the pool size, the packet size, the
\* line and the depth of nested replies.
THEOREM QueueImplemented == Spec => ImplementsQueue
<1>1. Init => Abstract!Init
  BY QueueInit
<1>2. TypeOK /\ PoolInv /\ [Next]_vars => [Abstract!Next]_(Abstract!vars)
  BY NextIsStep, StepSimulates
<1>3. QED
  BY <1>1, <1>2, TypeCorrect, PoolInvariant, PTL DEF Spec, ImplementsQueue, Abstract!Spec
=============================================================================
