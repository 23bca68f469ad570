------------------------------- MODULE Encoders -------------------------------
(***************************************************************************)
(* What a flash read reply is made with: the encoders of io/common.c, of   *)
(* which the request chooses one (RleCompress, Lz4, Lzo), and the checksum *)
(* the reply is sealed with (Crc16); with them, the checksum that nothing calls (Crc32).  They share no state but the reply:   *)
(* one of them works in a behaviour, and the others stand still.           *)
(***************************************************************************)
EXTENDS RleCompress

CONSTANTS
  MINMATCH, WILDCOPYLENGTH, LASTLITERALS, MASK, BYTE, TRIGGER, MARGIN,   \* of Lz4
  Lz4Blocks, Lz4Hashes, LzoBlocks, LzoHashes,
  CHUNK, Payloads, Patterns                                             \* of Crc16

VARIABLES
  part,                                                  \* the one at work
  block, hash, pc, ip, dest, seen,                       \* of Lz4 and Lzo
  table, step, tries, anchor, match, token, touched,     \* of Lz4
  dict, ii, m_pos,                                       \* of Lzo
  packet, damaged, pos, crc                              \* of Crc16

rleVars == <<src, size, inOffset, outOffset, out>>
lzVars  == <<block, hash, pc, ip, dest, seen>>
lz4Vars == <<table, step, tries, anchor, match, token, touched>>
lzoVars == <<dict, ii, m_pos>>
crcVars == <<packet, damaged, pos, crc>>

LZ4 == INSTANCE Lz4 WITH Blocks <- Lz4Blocks, Hashes <- Lz4Hashes
LZO == INSTANCE Lzo WITH Blocks <- LzoBlocks, Hashes <- LzoHashes
CRC == INSTANCE Crc16
CRC32 == INSTANCE Crc32

\* DN_Packet_Compress2 and DN_Packet_Compress3 put a magic word before the data, and the
\* size of what follows that word, itself included; the reply is padded to whole words
\* with what the buffer held.  A host takes as much as the size says.
SIZE   == 4 + Len(dest)
Reply  == dest \o [k \in 1 .. ((4 - (Len(dest) % 4)) % 4) |-> 0]
Unpacked == SubSeq(Reply, 1, SIZE - 4)

HostLZ4 == INSTANCE Lz4 WITH Blocks <- Lz4Blocks, Hashes <- Lz4Hashes, dest <- Unpacked
HostLZO == INSTANCE Lzo WITH Blocks <- LzoBlocks, Hashes <- LzoHashes, dest <- Unpacked

\* The scaled constants of LZ4 stand to each other as its own do: what the decoder
\* accepts rests on that.
ASSUME EncodersAssumption ==
  /\ MINMATCH \in Nat \ {0} /\ MINMATCH < LASTLITERALS /\ LASTLITERALS <= WILDCOPYLENGTH
  /\ MASK \in Nat \ {0} /\ BYTE \in Nat /\ MASK <= BYTE /\ TRIGGER \in Nat \ {0} /\ MARGIN \in Nat
  /\ CRC!CrcAdmissible

AbsentRle == src = "absent" /\ size = 0 /\ inOffset = 0 /\ outOffset = 0 /\ out = <<>>
AbsentLz ==
  block = <<>> /\ hash = "absent" /\ pc = "absent" /\ ip = 0 /\ dest = <<>> /\ seen = 0
AbsentLz4 ==
  /\ table = "absent" /\ step = 0 /\ tries = 0 /\ anchor = 0 /\ match = 0 /\ token = 0
  /\ touched = 0
AbsentLzo == dict = "absent" /\ ii = 0 /\ m_pos = 0
AbsentCrc == packet = <<>> /\ damaged = FALSE /\ pos = 0 /\ crc = 0

EncodersInit ==
  \/ part = "rle" /\ Init /\ AbsentLz /\ AbsentLz4 /\ AbsentLzo /\ AbsentCrc
  \/ part = "lz4" /\ LZ4!Init /\ AbsentRle /\ AbsentLzo /\ AbsentCrc
  \/ part = "lzo" /\ LZO!Init /\ AbsentRle /\ AbsentLz4 /\ AbsentCrc
  \/ part = "crc" /\ CRC!Init /\ AbsentRle /\ AbsentLz /\ AbsentLz4 /\ AbsentLzo

EncodersNext ==
  \/ part = "rle" /\ Next /\ UNCHANGED <<part, lzVars, lz4Vars, lzoVars, crcVars>>
  \/ part = "lz4" /\ LZ4!Next /\ UNCHANGED <<part, rleVars, lzoVars, crcVars>>
  \/ part = "lzo" /\ LZO!Next /\ UNCHANGED <<part, rleVars, lz4Vars, crcVars>>
  \/ part = "crc" /\ CRC!Next /\ UNCHANGED <<part, rleVars, lzVars, lz4Vars, lzoVars>>

EncodersSpec ==
  EncodersInit /\ [][EncodersNext]_<<part, rleVars, lzVars, lz4Vars, lzoVars, crcVars>>

-----------------------------------------------------------------------------
(* The properties of the parts, where they are at work; those of           *)
(* RleCompress hold of the values its variables have elsewhere.            *)

\* The LZ4 decoder gives the block back from the reply (Lz4, RoundTrip; common.c:174).
Lz4RoundTrip == part = "lz4" => HostLZ4!RoundTrip

\* The unit copies of LZ4 stay inside block and output (Lz4, StaysInside).
Lz4StaysInside == part = "lz4" => LZ4!StaysInside

\* The LZO decoder gives the block back from the reply (Lzo, RoundTrip; common.c:151).
LzoRoundTrip == part = "lzo" => HostLZO!RoundTrip

\* LZO reads nothing behind the block (Lzo, StaysInside).
LzoStaysInside == part = "lzo" => LZO!StaysInside

\* The checksums are remainders of divisions by their polynomials, over every packet that
\* is sent (Crc16, IsRemainder; Crc32, IsRemainder32; common.c:18).
IsRemainder ==
  part = "crc" => CRC!IsRemainder /\ (pos = 0 /\ ~damaged => CRC32!IsRemainder32(packet))

\* A packet is accepted exactly when it is undamaged (Crc16, AcceptsOnlyIntact).
AcceptsOnlyIntact == part = "crc" => CRC!AcceptsOnlyIntact
=============================================================================
