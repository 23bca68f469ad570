------------------------------- MODULE MCStartup -------------------------------
(***************************************************************************)
(* Startup for TLC: two NOR addresses with chips of every shape, one more  *)
(* driver with any outcome, BUF_INIT with its real size.                   *)
(***************************************************************************)
EXTENDS Startup

Table == INSTANCE NorParts

Chip(family, codes, set) ==
  [family |-> family, codes |-> codes, cfi |-> set # 0, set |-> set]

NoChip == Chip("none", <<65535, 65535, 65535, 65535>>, 0)

\* A chip of every shape of part, chips that are in no table (one shares the codes
\* another vendor's part starts with), and an address with no chip.  The K5L6331CA is
\* left out: its table entry asks for four codes of which the Samsung routine reads
\* two, so what it matches depends on what was read before.
MCChips ==
  {Chip("intel", <<137, 35075, 0, 0>>, 1), Chip("intel", <<32, 35008, 0, 0>>, 3),
   Chip("intel", <<28, 200, 0, 0>>, 0), Chip("amd", <<236, 9729, 1, 1>>, 2),
   Chip("amd", <<1, 8830, 8730, 8705>>, 2), Chip("amd", <<1, 8830, 8730, 8704>>, 2),
   Chip("amd", <<152, 158, 7, 7>>, 2),
   Chip("intel", <<137, 5, 0, 0>>, 0), Chip("amd", <<1, 8830, 5, 5>>, 0),
   Chip("amd", <<32, 35008, 0, 1>>, 0), NoChip}

MCWithCfi == [1 .. 2 -> {c \in MCChips : c.cfi}]

\* A chip of every part there is, with a CFI table where its routine looks for one.
TableChips ==
  UNION {{LET codes == Table!nor_devices_supported[r].parts[k].codes
          IN  Chip(IF r \in {1, 2} THEN "intel" ELSE "amd",
                   [c \in 1 .. 4 |-> IF c \in DOMAIN codes THEN codes[c] ELSE 0],
                   IF Table!nor_devices_supported[r].cfi THEN 2 ELSE 0)
          : k \in 1 .. Len(Table!nor_devices_supported[r].parts)}
         : r \in 1 .. Len(Table!nor_devices_supported)}

\* Any two of the shapes, and every part next to an empty address, on either side.
MCBoards ==
  [1 .. 2 -> MCChips] \cup {<<c, NoChip>> : c \in TableChips}
    \cup {<<NoChip, c>> : c \in TableChips}

\* "UNKNOWN!!! (%04x, %04x)" is 23 characters long.
MCNameLength ==
  LET names == {p.name : p \in Table!PartsOf("intel") \cup Table!PartsOf("amd")}
  IN  [n \in names \cup {"UNKNOWN"} |-> IF n = "UNKNOWN" THEN 23 ELSE Len(n)]

\* The driver after the NOR ones: a failed probe leaves whatever type it had set, a
\* working one a type and a name; names of every alignment and the longest one.
MCProbes ==
  {Memdump_Probe}
    \cup [res : {"ok"}, type : {"NOR", "SUPERAND", "NAND", "ONENAND"},
   name : {0, 2, 3, 4, 23, 254}]
    \cup [res : {"fail"}, type : {"NONE", "NAND"}, name : {0}]
=============================================================================
