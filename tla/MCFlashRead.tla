----------------------------- MODULE MCFlashRead -----------------------------
(***************************************************************************)
(* FlashStack for TLC: chips on both sides of every case of the code, rows *)
(* that need one, two and three bytes, one and two pages at a time.        *)
(***************************************************************************)
EXTENDS FlashStack

MB == 1048576

Memory(type, ctrl, page_size, bit_width, size) ==
  [type |-> type, ctrl |-> ctrl, page_size |-> page_size, bit_width |-> bit_width,
   size |-> size, base_offset |-> IF type = "NOR" THEN 301989888 ELSE 0]

MCMemories ==
  {Memory("NAND", "commands", 512, 16, 32 * MB),
   Memory("NAND", "commands", 512, 8, 64 * MB),  Memory("NAND", "commands", 512, 16, 128 * MB),
   Memory("NAND", "commands", 1024, 8, 64 * MB), Memory("NAND", "commands", 2048, 16, 256 * MB),
   Memory("NAND", "codewords", 512, 8, 64 * MB),
   Memory("NAND", "codewords", 1024, 16, 64 * MB),
   Memory("NAND", "whole", 512, 16, 128 * MB),   Memory("NAND", "whole", 1024, 8, 64 * MB),
   Memory("SUPERAND", "commands", 512, 8, 16 * MB), Memory("SUPERAND", "commands", 512, 16, 64 * MB),
   Memory("NOR", "commands", 512, 16, 32 * MB),  Memory("NONE", "commands", 512, 8, 16 * MB)}

Request(id, algo, offset, size) ==
  [id |-> id, algo |-> algo, offset |-> offset, size |-> size]

\* The page at 33553920 is the last of 512 bytes that two row bytes can name.
MCRequests ==
  {Request(1, "rle", 33553920, 1024), Request(1, "lz4", 33555432, 512),
   Request(1, "none", 131584, 1024),
   Request(1, "none", 0, 700), Request(1, "other", 512, 512),
   Request(1, "none", 0, 2048), Request(0, "none", 4096, 700),
   Request(0, "other", 4096, 16), Request(2, "rle", 0, 512)}

-----------------------------------------------------------------------------
\* The chips below, with what their data sheets say of them; sizes in KB.
Chip(mfr, dev, third, ext, page_size, block_size, size, bits) ==
  [mfr |-> mfr, dev |-> dev, third |-> third, ext |-> ext, page_size |-> page_size,
   block_size |-> block_size, size |-> size, bits |-> bits]

Board(p, c, flags) == [port |-> p, chip |-> c, flags |-> flags]

\* From the data sheets.
K9F5608 == Chip(\hec, \h75, \ha5, \hc0, 512, 16, 32 * 1024, 8)
K9F1216 == Chip(\hec, \h46, \ha5, \hc0, 512, 16, 64 * 1024, 16)
K9F1208 == Chip(\hec, \h76, \ha5, \hc0, 512, 16, 64 * 1024, 8)
K9F1G08 == Chip(\hec, \hf1, \h80, \h15, 2048, 128, 128 * 1024, 8)
K9F2G16 == Chip(\hec, \hca, \h10, \h55, 2048, 128, 256 * 1024, 16)
MT29F8G == Chip(\h2c, \hd3, \h90, \h2e, 4096, 256, 1024 * 1024, 8)
Unknown == Chip(\hec, \h01, 0, 0, 512, 16, 16 * 1024, 8)
SuperAnd(dev, size, bits) == Chip(\h07, dev, 0, 0, 512, 16, size * 1024, bits)

MCNandBoards ==
  {Board(q, c, 0) : q \in {"default", "s3c2440", "pxa312"},
                    c \in {K9F5608, K9F1216, K9F1208, K9F1G08, K9F2G16, Unknown}}
  \cup {Board(q, MT29F8G, 0) : q \in {"default", "s3c2440"}}
  \cup {Board("s3c2410", c, 0) : c \in {K9F5608, K9F1208, K9F1G08}}
  \cup {Board("dummy", K9F1208, 0)}
  \cup {Board("bcm2133", c, \h90) : c \in {K9F1208, K9F1216, K9F1G08, K9F2G16, Unknown}}
  \cup {Board("bcm2133", K9F1216, \hf0)}
  \cup {Board("msm6250", c, 0) : c \in {K9F5608, K9F1208, K9F1G08}}
  \cup {Board("msm6550", K9F1216, 0)}
  \cup {Board("msm6800", c, 0) : c \in {K9F1208, K9F1216, K9F2G16}}
  \cup {Board("msm7200", c, 0) : c \in {K9F1208, K9F1216, K9F2G16, MT29F8G, Unknown}}
  \cup {Board("superand", SuperAnd(\h51, 16, 8), 0), Board("superand", SuperAnd(\h5b, 64, 16), 0)}

MCNandAsked == {0, 515, 65538, 131071}

-----------------------------------------------------------------------------
\* OneNANDs of one and two dies; sizes in MB.
OneNandChip(density, ddp, size) == [mfr |-> \hec, device_id |-> [density |-> density, ddp |-> ddp], size |-> size]
MCOneNandBoards == [port : {"default", "msm7200"}, chip : {OneNandChip(2, FALSE, 64), OneNandChip(5, TRUE, 512)}]
MCOneNandAsked == {0, 67, 131071, 131072, 262143}
=============================================================================
