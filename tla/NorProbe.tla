------------------------------- MODULE NorProbe -------------------------------
(***************************************************************************)
(* flash/nor: DRL_NOR_Probe asks the routine of each vendor in turn which  *)
(* part answers at an address, then reads the part's CFI table.  The       *)
(* routines write commands to the chip and the chip changes its mode, so   *)
(* what one routine leaves behind is what the next one meets: the mode of  *)
(* the chip, and the global array of identification codes, which the       *)
(* routines fill to different lengths.                                     *)
(***************************************************************************)
EXTENDS NorParts

CONSTANTS
  Boards     \* the pairs of chips that may be found at two addresses

VARIABLES
  chips,     \* the chip at each address probed (devices[])
  mode,      \* the mode each chip is in
  dev,       \* the address being probed
  probe,     \* the routine of nor_devices_supported whose turn it is
  nor_read_id_codes,
  part,      \* the part the routine at hand matched, NoPart until one does
  mem        \* what is known of the memory at each address

vars == <<chips, mode, dev, probe, nor_read_id_codes, part, mem>>

-----------------------------------------------------------------------------
(* The chips, from how the routines address them: a chip of the Intel      *)
(* family takes one-word commands, one of the AMD family wants most of     *)
(* its commands unlocked by two words first.                               *)

\* Words 0x10 to 0x13 of a CFI table: "QRY" and the vendor's command set.
CfiWords(set) == <<81, 82, 89, set>>

\* Commands a chip does not know leave its mode alone.
IntelMode(m, data) ==
  CASE data = 255 -> "array"
    [] data = 144 -> "id"
    [] data = 152 -> "cfi"
    [] OTHER      -> m

AmdMode(m, address, data) ==
  LET unlocking == address = 1365 /\ data = 170
      unlocked  == m = "unlock1" /\ address = 682 /\ data = 85
      asked     == m = "unlock2" /\ address = 1365 /\ data = 144
      looked    == m = "array" /\ address = 1365 /\ data = 152
      locked    == m \in {"unlock1", "unlock2"} /\ ~(unlocking \/ unlocked \/ asked)
  IN  CASE data = 240 -> "array"
        [] unlocking  -> "unlock1"
        [] unlocked   -> "unlock2"
        [] asked      -> "id"
        [] looked     -> "cfi"
        [] locked /\ data # 240 -> "array"      \* another word than the one awaited
        [] OTHER      -> m

ModeAfter(chip, m, address, data) ==
  IF chip.family = "intel" THEN IntelMode(m, data)
  ELSE IF chip.family = "amd" THEN AmdMode(m, address, data) ELSE m

\* Of the array it matters only that it holds no identification code.
ARRAY_WORD == 65535

IdIndex(address) ==
  CASE address = 0 -> 1 [] address = 1 -> 2 [] address = 14 -> 3 [] OTHER -> 4

Word(chip, m, address) ==
  CASE m = "id"  -> chip.codes[IdIndex(address)]
    [] m = "cfi" -> CfiWords(chip.set)[address - 15]
    [] OTHER     -> ARRAY_WORD

-----------------------------------------------------------------------------
\* Run a routine on a chip in mode m: the mode and the codes it ends with.
Ran(chip, m, codes, ops) ==
  LET st[k \in 0 .. Len(ops)] ==
        IF k = 0 THEN [mode |-> m, codes |-> codes]
        ELSE LET op == ops[k] IN
             IF op.op = "write"
             THEN [st[k - 1] EXCEPT
                     !.mode = ModeAfter(chip, @, op.address, op.data)]
             ELSE [st[k - 1] EXCEPT
                     !.codes[op.data] = Word(chip, st[k - 1].mode, op.address)]
  IN  st[Len(ops)]

\* The first part of a table all of whose codes were read.
MatchesAny(p, codes) ==   \* mutant: one code is enough
  \E k \in 1 .. Len(p.codes) : p.codes[k] = codes[k]
Matches(p, codes) == \A k \in 1 .. Len(p.codes) : p.codes[k] = codes[k]

Match(parts, codes) ==
  LET hits == {k \in 1 .. Len(parts) : Matches(parts[k], codes)}
  IN  IF hits = {} THEN NoPart
      ELSE parts[CHOOSE k \in hits : \A j \in hits : k <= j]

-----------------------------------------------------------------------------
Addresses == 1 .. Len(chips)

Nothing == [name |-> "", sized |-> ""]

Init ==
  /\ chips \in Boards
  /\ mode = [d \in 1 .. 2 |-> "array"]
  /\ dev = 1 /\ probe = 1
  /\ nor_read_id_codes = <<0, 0, 0, 0>>
  /\ part = NoPart
  /\ mem = [d \in 1 .. 2 |-> Nothing]

Probing == dev \in Addresses /\ probe \in 1 .. Len(nor_devices_supported)

\* One routine: its codes and its look at its table.
AskVendor ==
  /\ Probing /\ part = NoPart
  /\ LET routine == nor_devices_supported[probe]
         st == Ran(chips[dev], mode[dev], nor_read_id_codes, routine.codes)
         hit == Match(routine.parts, st.codes)
     IN  /\ mode' = [mode EXCEPT ![dev] = st.mode]
         /\ nor_read_id_codes' = st.codes
         /\ part' = hit
         /\ probe' = IF hit = NoPart THEN probe + 1 ELSE probe
  /\ UNCHANGED <<chips, dev, mem>>

SettleKeepsPart(name, sized) ==   \* mutant: the match at one address outlives it
  /\ mem' = [mem EXCEPT ![dev] = [name |-> name, sized |-> sized]]
  /\ dev' = dev + 1 /\ probe' = 1
  /\ UNCHANGED <<chips, nor_read_id_codes, part>>
Settle(name, sized) ==
  /\ mem' = [mem EXCEPT ![dev] = [name |-> name, sized |-> sized]]
  /\ dev' = dev + 1 /\ probe' = 1 /\ part' = NoPart
  /\ UNCHANGED <<chips, nor_read_id_codes>>

\* No routine knows the chip: a placeholder of 32 MB.
Unknown ==
  /\ dev \in Addresses /\ probe = Len(nor_devices_supported) + 1
  /\ Settle("UNKNOWN", "placeholder")
  /\ UNCHANGED mode

\* A part without CFI has the size that goes with its code.
KnownWithoutCfi ==
  /\ Probing /\ part # NoPart /\ ~nor_devices_supported[probe].cfi
  /\ Settle(part.name, "code")
  /\ UNCHANGED mode

\* DRL_NOR_CFI_Read, then the look at the table: words 0, 1 and 3 are compared with
\* "Q", "R" and "Y", and a table that fails becomes the placeholder.
CfiOps(intel_way) ==
  <<W(IF intel_way THEN 0 ELSE 1365, 152), R(16, 1), R(17, 2), R(18, 3), R(19, 4),
    W(0, IF intel_way THEN 255 ELSE 240)>>

KnownWithCfi ==
  /\ Probing /\ part # NoPart /\ nor_devices_supported[probe].cfi
  /\ LET ops == CfiOps(nor_devices_supported[probe].intel_way)
         st  == Ran(chips[dev], mode[dev], <<0, 0, 0, 0>>, ops)
         cfi == st.codes
     IN  /\ mode' = [mode EXCEPT ![dev] = st.mode]
         /\ IF cfi[1] # 81 \/ cfi[2] # 82 \/ cfi[4] # 89
            THEN Settle("UNKNOWN", "placeholder")
            ELSE Settle(part.name, "cfi")

Next == AskVendor \/ Unknown \/ KnownWithoutCfi \/ KnownWithCfi

Spec == Init /\ [][Next]_vars

-----------------------------------------------------------------------------
(* Properties.                                                             *)

\* The parts a chip is: those with its codes in a table of its family.
Identity(chip) ==
  {p \in PartsOf(chip.family) :
     \A k \in 1 .. Len(p.codes) : p.codes[k] = chip.codes[k]}

InTable(parts) == {parts[k] : k \in 1 .. Len(parts)}

\* What the probe presumes of the chips it may meet.  A chip of the Intel family does
\* not begin like a part of the other one, since the unlocking routines read its codes
\* too; one that begins like a Samsung part is that part, of whose four codes (those of
\* the K5L6331CA) the routine reads two; and parts whose size the driver looks for in a
\* CFI table have one.
ChipsAreTold ==
  \A board \in Boards : \A d \in 1 .. 2 :
    LET chip == board[d]
        BeginsLike(p) == p.codes[1] = chip.codes[1] /\ p.codes[2] = chip.codes[2]
    IN  /\ chip.family \in {"intel", "amd", "none"} /\ chip.codes \in [1 .. 4 -> Nat]
        /\ chip.family = "intel" => ~ \E p \in PartsOf("amd") : BeginsLike(p)
        /\ chip.family = "amd" =>
             \A p \in InTable(SamsungParts) : BeginsLike(p) => p \in Identity(chip)
        /\ chip.set = 0 => Identity(chip) \subseteq InTable(RenesasParts)

\* A chip that is in a table is never left in a command mode once its address is
\* done, so the reads that follow return its contents: the order of the table keeps
\* the unlocking routines, which an Intel chip takes for a request of its identity,
\* away from the Intel parts, and the routine that ends the probe takes its chip back
\* to array mode.
KnownLeftReadable ==
  \A d \in Addresses :
    dev > d /\ Identity(chips[d]) # {} => mode[d] = "array"

\* A routine never takes a chip for a part it is not, whatever codes an earlier
\* routine or an earlier address left in the global array.
NoMistakenPart == part # NoPart => part \in Identity(chips[dev])

\* A CFI table as test_dcc_platform.c:18-19 lays it out for the loader (the letter Y in a
\* word of its own, the command set in the next) is accepted:
\* a recognised part with such a table keeps its name and gets the size in the table.
CfiTableAccepted ==
  \A d \in Addresses : dev > d /\ chips[d].cfi => mem[d].sized # "placeholder"
=============================================================================
