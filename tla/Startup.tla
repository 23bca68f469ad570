-------------------------------- MODULE Startup --------------------------------
(***************************************************************************)
(* Start-up as a whole: the loop of dcc_main (Boot) over the devices of    *)
(* devices.h, whose first two are the NOR driver at two addresses          *)
(* (NorProbe) and whose others are drivers known by their outcomes.        *)
(* DRL_NOR_Probe runs inside the loop, so the routines of the two          *)
(* addresses and the entries of the table come in one order, and the codes *)
(* read at the first address are still there at the second.                *)
(***************************************************************************)
EXTENDS Boot

CONSTANTS
  Boards,      \* the pairs of chips that may be found at the first two addresses
  NameLength   \* the length of each name DRL_NOR_Probe may leave

VARIABLES chips, mode, dev, probe, nor_read_id_codes, part, found

norVars  == <<chips, mode, dev, probe, nor_read_id_codes, part, found>>
allVars  == <<vars, norVars>>

Nor == INSTANCE NorProbe WITH mem <- found

\* The names DRL_NOR_Probe may leave: those of the tables and the placeholder.
Names ==
  {"UNKNOWN"} \cup
    UNION {{routine.parts[k].name : k \in 1 .. Len(routine.parts)}
           : routine \in {Nor!nor_devices_supported[r]
                          : r \in 1 .. Len(Nor!nor_devices_supported)}}

ASSUME NorAssumption ==
  /\ \A board \in Boards : Len(board) = 2
  /\ \A n \in Names : NameLength[n] \in 0 .. MAX_NAME

ASSUME ChipsAssumption == Nor!ChipsAreTold

-----------------------------------------------------------------------------
StartupInit == Init /\ Nor!Init

\* The NOR driver has the device at hand, and not yet its answer.
AskVendor == ~ready /\ i = dev /\ Nor!AskVendor /\ UNCHANGED vars

\* The NOR driver returns DCC_OK whatever it found, and the device is listed.
ListNor ==
  /\ ~ready /\ i = dev
  /\ Nor!Unknown \/ Nor!KnownWithoutCfi \/ Nor!KnownWithCfi
  /\ LET p == [res |-> "ok", type |-> "NOR", name |-> NameLength[found'[i].name]]
     IN  Step(p, 0) /\ WriteExtmem(p, 0)

\* The drivers that follow, and the rest of dcc_main.
Other(A) == i > Len(chips) /\ A /\ UNCHANGED norVars

StartupNext ==
  \/ AskVendor \/ ListNor
  \/ Other(ListExtended) \/ Other(ListNand) \/ Other(ListNone)
  \/ Other(CloseTable) \/ Other(MainLoop)

StartupSpec == StartupInit /\ [][StartupNext]_allVars

-----------------------------------------------------------------------------
(* Properties.                                                             *)

\* No chip of a table is left in a command mode when its device has been listed.
KnownLeftReadable == Nor!KnownLeftReadable

\* No routine takes a chip for a part it is not.
NoMistakenPart == Nor!NoMistakenPart

\* A recognised part whose CFI table is as test_dcc_platform.c:18-19 lays it out gets its
\* size from it.
CfiTableAccepted == Nor!CfiTableAccepted

\* The entry of a NOR device carries a name of the chip at that very address: that
\* of its part or the placeholder, and the part's own where no CFI table has to be
\* believed.
NamedForItsChip ==
  \A d \in 1 .. Len(chips) :
    d < i =>
      /\ mem[d].name \in {NameLength[n] : n \in {p.name : p \in Nor!Identity(chips[d])}
                                                  \cup {"UNKNOWN"}}
      /\ chips[d].set = 0 =>
           \A p \in Nor!Identity(chips[d]) : mem[d].name = NameLength[p.name]
=============================================================================
