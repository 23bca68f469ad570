---------------------------- MODULE PacketLayer -----------------------------
(***************************************************************************)
(* io/packet_io.c: the packet pool, the receiver, the processing loop and  *)
(* the transmitter.                                                        *)
(*                                                                         *)
(* The program is one thread.  Bytes reach it only while it polls          *)
(* (CHECK_FOR_DATA): each poll calls DRL_Packet_RX for the bytes that have *)
(* arrived.  DRL_Packet_TX polls too, so DRL_Packet_RX runs inside         *)
(* DRL_Packet_TX, and when the pool is empty it calls DRL_Packet_TX again. *)
(* Whether a write polls too depends on the port: on the USB port of the   *)
(* QSC60x5 (qsc60x5_usb_write) the flag that ends what the port has in its *)
(* buffer sends it and polls until it is out; the UARTs and the USB port   *)
(* of the QSC60x0 do not poll when they write.                             *)
(* `calls' is the stack of the activations of DRL_Packet_TX; an action is  *)
(* one byte received at a poll, or the code from one poll to the next.     *)
(***************************************************************************)
EXTENDS Commands, Framing

CONSTANTS
  NUMBER_OF_PACKETS,  \* slots of packet_data (100)
  MAX_PACKET_SIZE,    \* capacity of a slot (1031)
  LENGTH_SPAN,        \* values of the uint16_t length (65536)
  CRC_CHUNK,          \* bytes of CRC computed between two polls (128)
  TX_POLL,            \* reply bytes between two polls (32)
  WRITE_POLLS,        \* the port polls while it sends what a flag ended
  REPLY_LENGTH,       \* reply_length of each kind of reply, CRC included
  Byte,               \* the bytes the line may deliver
  NULL,
  MAX_CALLS           \* bound: nested activations of DRL_Packet_TX explored

Packets == 0 .. NUMBER_OF_PACKETS - 1

ASSUME PacketAssumption ==
  /\ NUMBER_OF_PACKETS \in Nat \ {0}
  /\ MAX_PACKET_SIZE \in Nat /\ MAX_PACKET_SIZE >= 3
  /\ LENGTH_SPAN \in Nat /\ LENGTH_SPAN > MAX_PACKET_SIZE
  /\ CRC_CHUNK \in Nat \ {0}
  /\ TX_POLL \in Nat /\ TX_POLL >= 2
  /\ WRITE_POLLS \in BOOLEAN
  /\ REPLY_LENGTH \in [Kind -> Nat \ {0}]
  /\ Byte \subseteq 0 .. 255
  /\ NULL \notin Packets
  /\ MAX_CALLS \in Nat \ {0}

VARIABLES
  \* the pool: an intrusive list of free slots, one of waiting slots
  free_list, waiting, waiting_last, nxt,
  \* the slot being filled
  current, length, buffer, escape_state,
  \* DRL_Packet_Proc: where it is, and its locals
  at, this, pos,
  \* replies: the global buffer, the activations sending from it, and what
  \* has gone out since the last flag
  reply, calls, sent,
  need_hello

poolVars == <<free_list, waiting, waiting_last, nxt>>
fillVars == <<current, length, buffer, escape_state>>
procVars == <<at, this, pos>>
txVars   == <<reply, calls, sent>>
vars     == <<poolVars, fillVars, procVars, txVars, need_hello>>

-----------------------------------------------------------------------------
\* DRL_Packet_Setup: slot 0 ends the free list, the last slot heads it.
Init ==
  /\ nxt = [p \in Packets |-> IF p = 0 THEN NULL ELSE p - 1]
  /\ free_list = NUMBER_OF_PACKETS - 1
  /\ waiting = NULL /\ waiting_last = NULL
  /\ current = NULL
  /\ length = [p \in Packets |-> 0]
  /\ buffer = [p \in Packets |-> [i \in 0 .. MAX_PACKET_SIZE - 1 |-> 0]]
  /\ escape_state = FALSE
  /\ at = "idle" /\ this = NULL /\ pos = 0
  /\ reply = [kind |-> "!INV", len |-> 0]
  /\ calls = <<>> /\ sent = <<>>
  /\ need_hello = TRUE

-----------------------------------------------------------------------------
(* Sending.                                                                *)

\* The reply buffer is filled and DRL_Packet_TX is entered: it polls first.
StartTX(kind) ==
  /\ reply' = [kind |-> kind, len |-> REPLY_LENGTH[kind]]
  /\ calls' = Append(calls, [at |-> "open", i |-> 0])

Top    == calls[Len(calls)]
Pop    == SubSeq(calls, 1, Len(calls) - 1)
Goto(t) == [calls EXCEPT ![Len(calls)] = t]

\* Byte i of the reply buffer.  Past the current reply it is a byte some
\* earlier reply left there.
ReplyByte(i) == IF i < reply.len THEN <<reply.kind, i>> ELSE <<"old", i>>

\* The loop of DRL_Packet_TX from index `from' to its next poll, at index `poll',
\* or to the end of the reply.  The loop test for `from' itself came before the
\* poll, so that byte goes out whatever reply_length has become.
SendFromSkips(from, poll) ==   \* mutant: the byte at the poll is skipped
  LET end == IF poll < reply.len THEN poll ELSE reply.len
      out == [k \in 1 .. end - from |-> ReplyByte(from + k - 1)]
  IN  /\ sent' = IF Top.at = "body" THEN sent \o out ELSE out
      /\ calls' = Goto(IF poll < reply.len THEN [at |-> "body", i |-> poll + 1]
                                           ELSE [at |-> "close", i |-> 0])

SendFrom(from, poll) ==
  LET end  == IF poll < reply.len THEN poll ELSE reply.len
      next == IF end > from THEN end ELSE from + 1
      out  == [k \in 1 .. next - from |-> ReplyByte(from + k - 1)]
  IN  /\ sent' = IF Top.at = "body" THEN sent \o out ELSE out
      /\ calls' = Goto(IF poll < reply.len THEN [at |-> "body", i |-> poll]
                                           ELSE [at |-> "close", i |-> 0])

\* The opening flag of a reply sent from inside another ends what is out of that one,
\* so a port that polls while it sends polls here.
Interrupts == Top.at = "open" /\ WRITE_POLLS /\ sent # <<>>

TXInterrupt ==
  /\ calls # <<>> /\ Interrupts
  /\ sent' = <<>>
  /\ calls' = Goto([at |-> "opened", i |-> 0])
  /\ UNCHANGED <<poolVars, fillVars, procVars, reply, need_hello>>

\* The opening flag ends whatever frame was on the line.
TXOpen ==
  /\ calls # <<>> /\ Top.at \in {"open", "opened"} /\ ~Interrupts
  /\ SendFrom(0, TX_POLL - 1)
  /\ UNCHANGED <<poolVars, fillVars, procVars, reply, need_hello>>

TXBody ==
  /\ calls # <<>> /\ Top.at = "body"
  /\ SendFrom(Top.i, Top.i + TX_POLL)
  /\ UNCHANGED <<poolVars, fillVars, procVars, reply, need_hello>>

\* The closing flag: the host has the reply.  A port that polls while it sends polls
\* now, and again at the two flags that may follow to flush the frame.
TXClose ==
  /\ calls # <<>> /\ Top.at = "close"
  /\ sent' = <<>>
  /\ calls' = IF WRITE_POLLS THEN Goto([at |-> "closed", i |-> 0]) ELSE Pop
  /\ UNCHANGED <<poolVars, fillVars, procVars, reply, need_hello>>

TXReturn ==
  /\ calls # <<>> /\ Top.at = "closed"
  /\ calls' = Pop
  /\ UNCHANGED <<poolVars, fillVars, procVars, reply, sent, need_hello>>

-----------------------------------------------------------------------------
(* Receiving: DRL_Packet_RX and DRL_Packet_ProcCurrent.                    *)

Polling == calls # <<>> \/ at \in {"idle", "crc"}

\* No slot is being filled and none is free: an error reply is sent from
\* inside the poll, and the byte is dropped.
RXOverrun ==
  /\ Polling
  /\ current = NULL /\ free_list = NULL
  /\ Len(calls) < MAX_CALLS
  /\ StartTX("!WOV")
  /\ UNCHANGED <<poolVars, fillVars, procVars, sent, need_hello>>

\* The slot a byte goes to, claimed from the free list when there is none:
\* its length so far, and the links and the free list after the claim.
CanFill  == current # NULL \/ free_list # NULL
Slot     == IF current = NULL THEN free_list ELSE current
Filled   == IF current = NULL THEN 0 ELSE length[current]
SlotNxt  == IF current = NULL THEN [nxt EXCEPT ![free_list] = NULL] ELSE nxt
Claim    == free_list' = IF current = NULL THEN nxt[free_list] ELSE free_list

\* A flag ends the packet.  One that is too short or too long is thrown away
\* and its slot is filled again; any other joins the waiting list.
BadLengthShortOnly == Filled < 3
BadLength == Filled > MAX_PACKET_SIZE \/ Filled < 3

Reject ==
  /\ current' = Slot
  /\ length' = [length EXCEPT ![Slot] = 0]
  /\ nxt' = SlotNxt
  /\ UNCHANGED <<waiting, waiting_last>>

\* Mutants: the link from the old end forgotten; the packet put at the head.
EnqueueUnlinked ==
  /\ waiting' = IF waiting_last = NULL THEN Slot ELSE waiting
  /\ nxt' = SlotNxt
  /\ waiting_last' = Slot
  /\ current' = NULL
  /\ length' = [length EXCEPT ![Slot] = Filled]

EnqueueAtHead ==
  /\ waiting' = Slot
  /\ nxt' = [SlotNxt EXCEPT ![Slot] = waiting]
  /\ waiting_last' = IF waiting_last = NULL THEN Slot ELSE waiting_last
  /\ current' = NULL
  /\ length' = [length EXCEPT ![Slot] = Filled]

Enqueue ==
  /\ waiting' = IF waiting_last = NULL THEN Slot ELSE waiting
  /\ nxt' = IF waiting_last = NULL THEN SlotNxt
            ELSE [SlotNxt EXCEPT ![waiting_last] = Slot]
  /\ waiting_last' = Slot
  /\ current' = NULL
  /\ length' = [length EXCEPT ![Slot] = Filled]

\* Mutant: the escape is not forgotten at a flag.
RXFlagKeepsEscape ==
  /\ Polling /\ CanFill
  /\ IF BadLength THEN Reject ELSE Enqueue
  /\ Claim
  /\ UNCHANGED <<buffer, escape_state, procVars, txVars, need_hello>>

RXFlag ==
  /\ Polling /\ CanFill
  /\ IF BadLength THEN Reject ELSE Enqueue
  /\ Claim
  /\ escape_state' = FALSE
  /\ UNCHANGED <<buffer, procVars, txVars, need_hello>>

RXEscape ==
  /\ Polling /\ CanFill
  /\ current' = Slot
  /\ length' = [length EXCEPT ![Slot] = Filled]
  /\ nxt' = SlotNxt
  /\ Claim
  /\ escape_state' = TRUE
  /\ UNCHANGED <<waiting, waiting_last, buffer, procVars, txVars, need_hello>>

\* The count of bytes wraps like its uint16_t.
CountedWide(n) == n + 1
Counted(n) == (n + 1) % LENGTH_SPAN

\* The count goes up even when the slot is full.
RXData(ch) ==
  /\ Polling /\ CanFill
  /\ current' = Slot
  /\ length' = [length EXCEPT ![Slot] = Counted(Filled)]
  /\ IF Filled < MAX_PACKET_SIZE
     THEN /\ buffer' = [buffer EXCEPT ![Slot][Filled] =
                          IF escape_state THEN Xor20(ch) ELSE ch]
          /\ escape_state' = FALSE
     ELSE UNCHANGED <<buffer, escape_state>>
  /\ nxt' = SlotNxt
  /\ Claim
  /\ UNCHANGED <<waiting, waiting_last, procVars, txVars, need_hello>>

DRL_Packet_RX(ch) ==
  \/ RXOverrun
  \/ ch = FLAG /\ RXFlag
  \/ ch = ESCAPE /\ RXEscape
  \/ ch \notin {FLAG, ESCAPE} /\ RXData(ch)

-----------------------------------------------------------------------------
(* Processing: the loop of DRL_Packet_Proc.                                *)

\* Take the head of the waiting list.  Between two packets of one call there
\* is no poll ("loop"); before the first there is ("idle").
DequeueKeepsLast ==   \* mutant: the end of an empty list is not forgotten
  /\ calls = <<>> /\ at \in {"idle", "loop"}
  /\ waiting # NULL
  /\ this' = waiting
  /\ waiting' = nxt[waiting]
  /\ nxt' = [nxt EXCEPT ![waiting] = NULL]
  /\ at' = "crc" /\ pos' = 0
  /\ UNCHANGED <<free_list, waiting_last, fillVars, txVars, need_hello>>

Dequeue ==
  /\ calls = <<>> /\ at \in {"idle", "loop"}
  /\ waiting # NULL
  /\ this' = waiting
  /\ waiting' = nxt[waiting]
  /\ waiting_last' = IF nxt[waiting] = NULL THEN NULL ELSE waiting_last
  /\ nxt' = [nxt EXCEPT ![waiting] = NULL]
  /\ at' = "crc" /\ pos' = 0
  /\ UNCHANGED <<free_list, fillVars, txVars, need_hello>>

\* One chunk of the CRC, when it is not the last one.
CrcChunk ==
  /\ calls = <<>> /\ at = "crc"
  /\ pos + CRC_CHUNK < length[this]
  /\ pos' = pos + CRC_CHUNK
  /\ UNCHANGED <<poolVars, fillVars, at, this, txVars, need_hello>>

Content(p) == [i \in 1 .. length[p] |-> buffer[p][i - 1]]

\* The last chunk, the verdict and the handler, up to the poll that opens the
\* reply.  Every path sends one reply.
Dispatch ==
  /\ calls = <<>> /\ at = "crc"
  /\ pos + CRC_CHUNK >= length[this]
  /\ \E a \in Respond(Content(this), need_hello) :
       /\ StartTX(a.kind)
       /\ need_hello' = a.need_hello
  /\ length' = IF CrcOK(Content(this))
               THEN [length EXCEPT ![this] = (@ - 2) % LENGTH_SPAN] ELSE length
  /\ at' = "reply"
  /\ UNCHANGED <<poolVars, current, buffer, escape_state, this, pos, sent>>

\* The reply is out: the slot goes back to the head of the free list.
ReleaseLeaks ==   \* mutant: linked, but the free list still starts where it did
  /\ calls = <<>> /\ at = "reply"
  /\ nxt' = [nxt EXCEPT ![this] = free_list]
  /\ this' = NULL
  /\ at' = "loop"
  /\ pos' = 0
  /\ UNCHANGED <<free_list, waiting, waiting_last, fillVars, txVars, need_hello>>

Release ==
  /\ calls = <<>> /\ at = "reply"
  /\ nxt' = [nxt EXCEPT ![this] = free_list]
  /\ free_list' = this
  /\ this' = NULL
  /\ at' = "loop"
  /\ pos' = 0
  /\ UNCHANGED <<waiting, waiting_last, fillVars, txVars, need_hello>>

\* The waiting list is empty: back to the main loop, which polls.
EndProc ==
  /\ calls = <<>> /\ at = "loop"
  /\ waiting = NULL
  /\ at' = "idle"
  /\ UNCHANGED <<poolVars, fillVars, this, pos, txVars, need_hello>>

-----------------------------------------------------------------------------
\* What the processor does between polls.
Compute ==
  \/ TXInterrupt \/ TXOpen \/ TXBody \/ TXClose \/ TXReturn
  \/ Dequeue \/ CrcChunk \/ Dispatch \/ Release \/ EndProc

Next == Compute \/ \E ch \in Byte : DRL_Packet_RX(ch)

Spec == Init /\ [][Next]_vars

-----------------------------------------------------------------------------
(* Properties.                                                             *)

Activation == [at : {"open", "opened", "body", "close", "closed"}, i : Nat]

\* Every variable keeps its type: list links lead to slots, lengths fit the
\* uint16_t, DRL_Packet_Proc has a packet exactly while it works on one.
TypeOK ==
  /\ free_list \in Packets \cup {NULL}
  /\ waiting \in Packets \cup {NULL}
  /\ waiting_last \in Packets \cup {NULL}
  /\ nxt \in [Packets -> Packets \cup {NULL}]
  /\ current \in Packets \cup {NULL}
  /\ length \in [Packets -> 0 .. LENGTH_SPAN - 1]
  /\ buffer \in [Packets -> [0 .. MAX_PACKET_SIZE - 1 -> 0 .. 255]]
  /\ escape_state \in BOOLEAN
  /\ at \in {"idle", "crc", "reply", "loop"}
  /\ this \in Packets \cup {NULL}
  /\ this # NULL <=> at \in {"crc", "reply"}
  /\ pos \in Nat
  /\ reply \in [kind : Kind, len : Nat]
  /\ calls \in Seq(Activation)
  /\ sent \in Seq((Kind \cup {"old"}) \X Nat)
  /\ need_hello \in BOOLEAN

\* Under the links `link', s is the list that starts at `head': its slots are
\* distinct, each links to the next one and the last links to nothing.
ListUnder(link, head, s) ==
  /\ head = IF s = <<>> THEN NULL ELSE s[1]
  /\ \A i \in 1 .. Len(s) : link[s[i]] = IF i = Len(s) THEN NULL ELSE s[i + 1]
  /\ \A i, j \in 1 .. Len(s) : s[i] = s[j] => i = j

IsList(head, s) == ListUnder(nxt, head, s)

On(s, p) == \E i \in 1 .. Len(s) : s[i] = p

\* w and f are the waiting and the free list, waiting_last is the end of w, and
\* every slot is in exactly one place.
PoolShape(w, f) ==
  /\ IsList(waiting, w)
  /\ IsList(free_list, f)
  /\ waiting_last = IF w = <<>> THEN NULL ELSE w[Len(w)]
  /\ current # NULL => nxt[current] = NULL
  /\ \A p \in Packets :
       /\ On(w, p) => ~On(f, p) /\ p # current /\ p # this
       /\ On(f, p) => p # current /\ p # this
       /\ p = current => p # this
       /\ On(w, p) \/ On(f, p) \/ p = current \/ p = this

\* The packets DRL_Packet_Proc will read the length of: a length that wrapped or
\* was left over from a rejected packet is never among them.
InBounds(w) ==
  /\ \A i \in 1 .. Len(w) : length[w[i]] \in 3 .. MAX_PACKET_SIZE
  /\ at = "crc" => length[this] \in 3 .. MAX_PACKET_SIZE

\* Sequences of at most as many slots as there are.
Chain == UNION {[1 .. n -> Packets] : n \in 0 .. NUMBER_OF_PACKETS}

\* The pool never leaks a slot, never has one in two places and never closes a
\* list into a ring, and what it queues is of legal length, however the bytes of
\* DRL_Packet_RX fall between the list operations of DRL_Packet_Proc and of
\* nested activations of DRL_Packet_TX.
PoolIntact == \E w \in Chain : \E f \in Chain : PoolShape(w, f) /\ InBounds(w)
=============================================================================
