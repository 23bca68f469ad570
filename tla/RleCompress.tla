----------------------------- MODULE RleCompress ------------------------------
(***************************************************************************)
(* DN_Packet_Compress (io/common.c): the run-length encoder of flash read  *)
(* replies, as a loop over the block.                                      *)
(*                                                                         *)
(* The block is the first `size' bytes of `src'; `src' goes on after it,   *)
(* because the buffers it is read from do and the encoder looks there.  A  *)
(* token is the 16-bit word written first and the bytes written after it.  *)
(***************************************************************************)
EXTENDS Integers, Sequences

CONSTANTS
  RUN_MAX,     \* longest run of one token (0x7fff); the next bit is the run flag
  MAX_SIZE,    \* largest block (DCC_BUFFER_SIZE, 1024)
  Sizes,       \* sizes of the blocks explored
  Sources,     \* contents of memory from the start of the block on
  REPLY_BUFFER_SIZE

RUN_FLAG == RUN_MAX + 1
HEADER   == 8           \* magic and size, before the first token

Memory == 0 .. MAX_SIZE + RUN_MAX

ASSUME RleAssumption ==
  /\ RUN_MAX \in Nat /\ RUN_MAX > 1
  /\ MAX_SIZE \in Nat /\ Sizes \subseteq 0 .. MAX_SIZE
  /\ REPLY_BUFFER_SIZE \in Nat
  /\ Sources \subseteq [Memory -> 0 .. 255]

VARIABLES src, size, inOffset, outOffset, out

vars == <<src, size, inOffset, outOffset, out>>

Init ==
  /\ src \in Sources /\ size \in Sizes
  /\ inOffset = 0 /\ outOffset = HEADER /\ out = <<>>

-----------------------------------------------------------------------------
\* DN_RLE_Matching: the loop that has counted c equal bytes from offset `from' on
\* counts one more.  With no byte left, size - 1 has wrapped and is no limit.
GrowsOneMore(from, left, c) ==   \* mutant: size for size - 1
  c <= left /\ c < RUN_MAX /\ src[from + c - 1] = src[from + c]
Grows(from, left, c) ==
  (left = 0 \/ c < left) /\ c < RUN_MAX /\ src[from + c - 1] = src[from + c]

Matches(from, c) ==
  LET left == size - from
  IN  (\A k \in 1 .. c - 1 : Grows(from, left, k)) /\ ~Grows(from, left, c)

\* The raw run from inOffset on takes n bytes: it goes on over bytes that start no
\* run of equal ones, and stops at the end of the block or at the limit.
RawRun(n) ==
  /\ inOffset + n <= size
  /\ \A k \in 0 .. n - 1 : Matches(inOffset + k, 1)
  /\ n = RUN_MAX \/ inOffset + n = size \/ ~Matches(inOffset + n, 1)

Bytes(from, n) == [i \in 1 .. n |-> src[from + i - 1]]

Raw(from, n)  == [flag |-> n, bytes |-> Bytes(from, n)]
RunByteAfter(from, n) ==     \* mutant: the byte is taken after inOffset has moved
  [flag |-> n + RUN_FLAG, bytes |-> Bytes(from + n, 1)]
Run(from, n)  == [flag |-> n + RUN_FLAG, bytes |-> Bytes(from, 1)]
RawSize(n)    == 2 + n
RunSizePadded == 4      \* mutant: tokens kept on even addresses
RunSize       == 3

EmitRun ==
  /\ inOffset < size
  /\ \E n \in 2 .. RUN_MAX :
       /\ Matches(inOffset, n)
       /\ out' = Append(out, Run(inOffset, n))
       /\ inOffset' = inOffset + n
       /\ outOffset' = outOffset + RunSize
  /\ UNCHANGED <<src, size>>

\* A raw run that was cut at the limit is followed by no test for a run.
EmitRaw ==
  /\ inOffset < size
  /\ \E n \in 1 .. RUN_MAX :
       /\ RawRun(n)
       /\ n = RUN_MAX \/ Matches(inOffset + n, 1)
       /\ out' = Append(out, Raw(inOffset, n))
       /\ inOffset' = inOffset + n
       /\ outOffset' = outOffset + RawSize(n)
  /\ UNCHANGED <<src, size>>

\* The run that stopped the raw run is emitted in the same pass of the loop: after
\* the end of the block too, where the bytes it is made of are not the block's.
EmitRawAndRun ==
  /\ inOffset < size
  /\ \E n \in 1 .. RUN_MAX - 1 : \E m \in 2 .. RUN_MAX :
       /\ RawRun(n)
       /\ Matches(inOffset + n, m)
       /\ out' = out \o <<Raw(inOffset, n), Run(inOffset + n, m)>>
       /\ inOffset' = inOffset + n + m
       /\ outOffset' = outOffset + RawSize(n) + RunSize
  /\ UNCHANGED <<src, size>>

Done == inOffset >= size

Finished == Done /\ UNCHANGED vars

Next == EmitRun \/ EmitRaw \/ EmitRawAndRun \/ Finished

Spec == Init /\ [][Next]_vars

-----------------------------------------------------------------------------
(* The decoder (tools/riffUnpackRLE.py), as a reference.                   *)

Expand(token) ==
  IF token.flag >= RUN_FLAG
  THEN [i \in 1 .. token.flag - RUN_FLAG |-> token.bytes[1]]
  ELSE SubSeq(token.bytes, 1, token.flag)

Decoded ==
  LET d[k \in 0 .. Len(out)] == IF k = 0 THEN <<>> ELSE d[k - 1] \o Expand(out[k])
  IN  d[Len(out)]

-----------------------------------------------------------------------------
(* Properties.                                                             *)

\* What has been written decodes to what has been read, whatever the mixture of
\* runs and raw bytes and wherever the limit cuts them: no byte is lost, repeated
\* or attributed to the wrong run, and no count spills into the run flag.
RoundTrip == Decoded = Bytes(0, inOffset)

\* However the block mixes runs and single bytes, what is written is bounded by
\* twice the block and a few bytes: the least a caller's buffer has to hold.
OutputBound == outOffset <= HEADER + 2 * size + 4

\* What the encoder takes from behind the block is one run at most, all of it from
\* behind, and only after a raw run that ends the block: no run of the block goes on
\* past its end, and a decoder that stops after `size' bytes has exactly the block.
OnlyARunBehind ==
  Done /\ inOffset # size =>
    /\ Len(out) > 1
    /\ out[Len(out)].flag = RUN_FLAG + (inOffset - size)
    /\ out[Len(out) - 1].flag < RUN_FLAG
    /\ src[size] = src[size + 1]

\* The reply of a flash read fits the reply buffer: command, address, length and
\* CRC around the padded output (DRL_Packet_FlashRead, DRL_Packet_CalcCRC16).
ReplyLength == 7 + 4 * ((outOffset + 3) \div 4) + 2
ReplyFits   == Done => ReplyLength <= REPLY_BUFFER_SIZE
=============================================================================
