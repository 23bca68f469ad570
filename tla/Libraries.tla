------------------------------ MODULE Libraries ------------------------------
(***************************************************************************)
(* The library code compiled into the loader: the encoders and the         *)
(* checksum (Encoders), the allocator (Lwmem) and the formatter            *)
(* (Lwprintf).  They share no state: one of them works in a behaviour, and *)
(* the others stand still.                                                 *)
(***************************************************************************)
EXTENDS Encoders

CONSTANTS
  ALIGN, META, TOP, LOAD, RegionLists, MainList, Handles, HeapSizes,
  Items,      \* of Lwmem
  Calls       \* of Lwprintf

VARIABLES
  boot, heap, regions, client,     \* of Lwmem
  call, fmt, lwi, stored, text     \* of Lwprintf

encoderVars == <<rleVars, lzVars, lz4Vars, lzoVars, crcVars>>
heapVars    == <<boot, heap, regions, client>>
formatVars  == <<call, fmt, lwi, stored, text>>

HEAP   == INSTANCE Lwmem WITH Sizes <- HeapSizes
FORMAT == INSTANCE Lwprintf

ASSUME LibrariesAssumption == HEAP!LwmemAssumption

AbsentEncoders == AbsentRle /\ AbsentLz /\ AbsentLz4 /\ AbsentLzo /\ AbsentCrc
AbsentHeap == boot = "" /\ heap = <<>> /\ regions = <<>> /\ client = <<>>
AbsentFormat == call = <<>> /\ fmt = <<>> /\ lwi = <<>> /\ stored = 0 /\ text = <<>>

LibrariesInit ==
  \/ EncodersInit /\ AbsentHeap /\ AbsentFormat
  \/ part = "heap" /\ HEAP!Init /\ AbsentEncoders /\ AbsentFormat
  \/ part = "format" /\ FORMAT!Init /\ AbsentEncoders /\ AbsentHeap

LibrariesNext ==
  \/ EncodersNext /\ UNCHANGED <<heapVars, formatVars>>
  \/ part = "heap" /\ HEAP!Next /\ UNCHANGED <<part, encoderVars, formatVars>>
  \/ part = "format" /\ FORMAT!Next /\ UNCHANGED <<part, encoderVars, heapVars>>

LibrariesSpec ==
  LibrariesInit /\ [][LibrariesNext]_<<part, encoderVars, heapVars, formatVars>>

-----------------------------------------------------------------------------
(* The properties of the parts, where they are at work.                    *)

\* Neither compressor reads or writes outside its block and its output, although LZ4
\* copies in units (Lz4, Lzo: StaysInside; lz4.c:466, minilzo.c:5145).
LzStaysInside == Lz4StaysInside /\ LzoStaysInside

\* The start leaves a heap; its blocks share out the regions, and its count of free bytes
\* is that of the list (Lwmem, HeapGiven, HeapSound and Accounted; lwmem.c:229).
HeapSound == part = "heap" => HEAP!HeapGiven /\ HEAP!HeapSound /\ HEAP!Accounted

\* What a client wrote into a block stays there when other blocks come and go and when
\* its own is moved (Lwmem, ContentsKept; lwmem.c:576).
ContentsKept == part = "heap" => HEAP!ContentsKept

\* The formatter writes as much of its text as the buffer takes, terminated, and nothing
\* else (Lwprintf, StaysInBuffer and StopsWhenRefused; lwprintf.c:199).
FormatBounded == part = "format" => FORMAT!StaysInBuffer /\ FORMAT!StopsWhenRefused

\* Outside its listed ways of its own the formatter follows printf (Lwprintf,
\* FollowsPrintf; lwprintf.c:236).
FollowsPrintf == part = "format" => FORMAT!FollowsPrintf
=============================================================================
