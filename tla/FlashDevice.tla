----------------------------- MODULE FlashDevice -----------------------------
(***************************************************************************)
(* What a host is promised of the read command: each request is answered   *)
(* once, by one of the answers it may truthfully get, and what is sent     *)
(* does not change until the next request.                                 *)
(***************************************************************************)
CONSTANTS Requests, NoReply

VARIABLES
  truthful,   \* the answers each request may get
  req, reply

vars == <<truthful, req, reply>>

Init == req \in Requests /\ reply = NoReply

Ask ==
  /\ reply # NoReply
  /\ req' \in Requests /\ reply' = NoReply
  /\ UNCHANGED truthful

Answer ==
  /\ reply = NoReply
  /\ reply' \in truthful[req]
  /\ UNCHANGED <<truthful, req>>

Next == Ask \/ Answer

Spec == Init /\ [][Next]_vars
=============================================================================
