------------------------------- MODULE MCUsb60x0 -------------------------------
(***************************************************************************)
(* Usb60x0 for TLC: packets of four bytes, frames around that length.      *)
(***************************************************************************)
EXTENDS Usb60x0

MCFrameLengths == {3, 4}

\* A coding as init leaves it and another one, of two halfwords each.
MCCoding0 == <<8, 1>>
MCCodings == {MCCoding0, <<9, 2>>}
=============================================================================
