-------------------------------- MODULE MCRle ---------------------------------
(***************************************************************************)
(* RleCompress for TLC: one block of full size.                            *)
(***************************************************************************)
EXTENDS RleCompress

\* A full block: a single byte and a pair of equal ones, over and over.
MCFull == {MAX_SIZE}
MCSinglesAndPairs == {[a \in Memory |-> IF a % 3 = 0 THEN 0 ELSE 1]}
=============================================================================
