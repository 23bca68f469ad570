----------------------------- MODULE PacketQueue ----------------------------
(***************************************************************************)
(* What the packet layer promises its host, without lists, polls or nested *)
(* calls: packets are answered one at a time, in the order in which they   *)
(* were completed, each with the contents it was completed with and each   *)
(* exactly once; and the host is told of an overrun only when every slot   *)
(* holds a packet that is waiting for its answer or being answered.        *)
(***************************************************************************)
EXTENDS Commands

CONSTANTS
  SLOTS,        \* packets the layer can hold
  MAX_CONTENT   \* longest packet

VARIABLES
  pending,      \* contents of the completed packets not yet answered
  serving,      \* the answer of a packet is going out
  last,         \* kind of the last reply started
  need_hello

vars == <<pending, serving, last, need_hello>>

Held == Len(pending) + IF serving THEN 1 ELSE 0

Init ==
  /\ pending = <<>> /\ serving = FALSE
  /\ last = "!INV" /\ need_hello = TRUE

Accept ==
  /\ Held < SLOTS
  /\ Len(pending') = Len(pending) + 1
  /\ SubSeq(pending', 1, Len(pending)) = pending
  /\ Len(pending'[Len(pending')]) \in 3 .. MAX_CONTENT
  /\ UNCHANGED <<serving, last, need_hello>>

BeginAnswer ==
  /\ ~serving /\ pending # <<>>
  /\ \E a \in Respond(Head(pending), need_hello) :
       last' = a.kind /\ need_hello' = a.need_hello
  /\ pending' = Tail(pending)
  /\ serving' = TRUE

EndAnswer ==
  /\ serving
  /\ serving' = FALSE
  /\ UNCHANGED <<pending, last, need_hello>>

ReportOverrun ==
  /\ Held = SLOTS
  /\ last' = "!WOV"
  /\ UNCHANGED <<pending, serving, need_hello>>

Next == Accept \/ BeginAnswer \/ EndAnswer \/ ReportOverrun

Spec == Init /\ [][Next]_vars
=============================================================================
