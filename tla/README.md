# darkreunionloader in TLA+

This directory is a verification development of darkreunionloader, a flash
reading program that is loaded into the memory of a phone (or run in an
emulator), probes the flash memories of the board and answers the requests of a
host over USB or a UART. The program is one thread on a bare processor, in C, with
no interrupts: everything that happens at the same time as it does happens in
the peripherals and in the host, and reaches it at the places where it *polls*.

The modules are translated from the source; the path and the lines each
definition stands for are in `PROJECT.json` under `map`. Line numbers below are
of the files in the repository.

## 1. The system

### Parts, state and operations

| part | source | state | operations |
|---|---|---|---|
| start-up | `main.c`, `devices.h` | `devices[]`, `mem[]`, `mem_has_spare`, `BUF_INIT`, `dcc_init_offset`, `DRL_Flash_Detected` | probe every device, describe it in `BUF_INIT`, enter the main loop |
| packet layer | `io/packet_io.c`, `io/io_type.h` | the slots `packet_data[]`, `free_list`, `waiting`, `waiting_last`, `current`, `escape_state`, `need_hello`, `reply_buffer`, `reply_length` | `DRL_Packet_RX` (one byte), `DRL_Packet_ProcCurrent` (a frame ended), `DRL_Packet_Proc` (answer what waits), `DRL_Packet_TX` (send the reply) |
| checksum | `io/packet_io.c` | none | table-driven CRC-16 over a reply or, in chunks, over a packet |
| commands | `cmds.c` | `rawBuf`, `compBuf`, the gate `need_hello` | handshake, information, flash size, flash read |
| encoders | `io/common.c` | none | run lengths, LZO, LZ4, plain |
| NOR driver | `flash/nor/` | `nor_read_id_codes`, the mode of the chip | one probe routine per vendor, the CFI table; reads are plain memory reads |
| NAND, SuperAND, OneNAND drivers | `flash/nand/`, `flash/superand/`, `flash/onenand/` | registers of the controllers, the state of the chip, the OneNAND's data buffers | probe, page loop, page fetch |
| QSC60x5 USB | `io/qsc60x5_usb.c` | `USB_State` (three buffers), `USB_rx_buffer`, `process_rx_buffer`, `wait_for_tx_done` | read (interrupt status, control requests, bulk data), write (a byte into `tx_buffer`, a transfer per frame) |
| QSC60x0 USB | `io/qsc60x0_usb.c` | `USB_State`, `USB_Serial`, `USB_tx_buffer`, `USB_packet_started` | active (which pair of FIFOs), read (control requests, a packet from a FIFO), write |
| UARTs | `io/qsc60x0_uart.c`, `io/qsc60x5_uart.c` | the FIFOs and errors of the UART | init, read up to 128 bytes, write one |
| port set-up | `io/packet_io.c:22-45` | `DRL_Current_IO` | USB if its controller runs, else the UART |
| allocator | `lwmem/lwmem.c`, `dcc/memory.c`, `crt.s` | the free list, `end_block`, `mem_available_bytes`, the regions | assign regions (start-up code, `dcc_main`), allocate, resize, free |
| formatter | `dcc/lwprintf.c` | `lwprintf_int_t` | format into a buffer or to an output function |
| support | `dcc/`, `plat/`, `crt.s` | none | library routines, watchdog, reset |
| host side | `tools/`, `dcc_emu.py`, `has/` | | decode replies, emulate the board |

### How they interact

    host ==bytes==> port read --DRL_Packet_RX--> slots --DRL_Packet_Proc--> handler
                                                                     |        |
    host <==bytes== port write <------DRL_Packet_TX---- reply_buffer <--------+--> flash driver

- `main.c:124-129` calls the poll and `DRL_Packet_Proc` for ever.
- A poll (`CHECK_FOR_DATA`, `io_type.h:38`) calls the read routine of the port,
  which calls `DRL_Packet_RX` for each byte there is.
- Polls also stand *inside* `DRL_Packet_TX` (at its start and every 32 bytes), inside
  the CRC loop of `DRL_Packet_Proc` (every 128 bytes), and inside the USB write
  that waits for its transfer. So the receiver runs inside the transmitter; and
  when it finds no free slot it calls the transmitter from there.
- The handlers share `reply_buffer` with the error replies, and read what the probe left
  in `mem[]`.
- The probe routines of the NOR vendors run one after the other on the same chip and
  share the global array of codes.

### What is hard

Nested activations over shared lists and a shared reply buffer; buffers handed
between the processor and a DMA controller; control requests that come in two messages,
handled from inside a write; probe routines that change the mode of the chip
the next routine asks; tables and buffers filled with entries of computed sizes;
partial failures that leave old data in a static buffer. `PROJECT.json` lists them
one by one under `hazards`, with the properties that would catch each.

### What makes each part correct

- packet layer: no slot is lost or in two lists; what is queued is of legal length; packets are
  answered in order, once, as they were received; a host that keeps to the window (one request less than there
  are slots, where the port polls while it writes) sees whole replies in the order of its requests and never
  an overrun; every request is answered; noise does not damage the next frame.
- checksums: equal polynomial division; accepted exactly when intact.
- read command: a reply with data holds the pages asked for; nothing is written
  outside `rawBuf`; the encoded reply fits its buffer.
- flash drivers: a probe describes the chip that is there; a read returns its own page, whatever
  earlier calls left behind; a call gives back the lock, the run bit or the sequence it took.
- encoders: what they write decodes to the block; none reads or writes outside.
- start-up: the table stays in `BUF_INIT`, a host can walk it, and it agrees with the gate and the
  size command; every NOR chip is listed under a name of its own and left readable.
- ports: the byte streams arrive in order, whole on USB and undamaged on the serial line; the
  line coding set last is kept; no call waits for ever.
- allocator: the blocks share out the regions, the free list and the count of free bytes agree with them, and
  what a client wrote stays. Formatter: never past its buffer; the text is that of `printf`.

## 2. Modules

Read them in this order; it is also the order they were planned and written in.

| module | models | builds on |
|---|---|---|
| `Commands` | `DRL_Packet_Cmds`, the gates and the handlers of `cmds.c`, as the set of replies a packet may get (`Respond`) | |
| `Framing` | flags, escapes | |
| `PacketLayer` | `packet_io.c`: pool, receiver, processing loop, transmitter | `Commands`, `Framing` |
| `PacketQueue` | abstract: a FIFO queue of packets | `Commands` |
| `PacketRefinement` | `PacketLayer` implements `PacketQueue` | `PacketLayer` |
| `HostLink` | the packet layer and a host that keeps to a window | `PacketLayer` |
| `NoisyLine` | the packet layer behind a line with noise, frames of any length | `PacketLayer` |
| `Boot` | the probe loop of `dcc_main`, `BUF_INIT`, the size command, the memory dump probe | |
| `NorParts` | the vendors of the NOR driver: what their routines write and read, and their tables of parts | |
| `NorProbe` | `DRL_NOR_Probe`, CFI, and the chips they talk to | `NorParts` |
| `Startup` | `Boot` with its NOR devices probed by `NorProbe` | `Boot`, `NorProbe` |
| `FlashDevice` | abstract: a truthful answer per request | |
| `FlashRead` | `DRL_Packet_FlashRead`, `NAND_Read`, `SuperAND_Read`, page fetches | `FlashDevice` |
| `NandCtrl` | probe and read of every NAND port and of the SuperAND driver, as bus operations on a chip | |
| `OneNand` | the OneNAND driver, as register accesses to a chip with a pace of its own | |
| `FlashStack` | the read command and the drivers below it | `FlashRead`, `NandCtrl`, `OneNand` |
| `Usb60x5` | the DMA driver, its controller and its host | |
| `Usb60x0` | the FIFO driver, its controller and its host | |
| `Uart` | the serial ports and their line | |
| `Ports` | `DRL_IO_Setup` and the ports it chooses between, on both boards | `Usb60x5`, `Usb60x0`, `Uart` |
| `RleCompress` | `DN_Packet_Compress`, `DN_RLE_Matching` | |
| `Lz4` | `DN_Packet_Compress3` down to `LZ4_compress_default` | |
| `Lzo` | `DN_Packet_Compress2` down to `lzo1x_1_compress` | |
| `Crc16` | the checksum, with the real table | |
| `Crc32` | the other checksum, with its table, which nothing in `src/` calls | |
| `Encoders` | what a read reply is made with, and the decoders of the host | `RleCompress`, `Lz4`, `Lzo`, `Crc16`, `Crc32` |
| `Lwmem` | the allocator, and how the start-up code and `dcc_main` give it regions | |
| `Lwprintf` | the formatter | |
| `Libraries` | the library code of the loader | `Encoders`, `Lwmem`, `Lwprintf` |
| `*_proofs` | theorems of the module they are named after | TLAPS |
| `MC*` | constants for TLC | |

`FlashStack`, `Encoders` and `Libraries` put parts side by side that share nothing but their caller: a variable `part` says which
one is at work, and the others stand still. `Startup` and `Ports` are compositions in the full sense: their parts read
each other's state (the codes and modes the probes of two addresses leave; which port was set up, on what board).

Operators whose name says how they differ from a neighbour (`EnqueueAtHead`,
`WaitsNever`) and whose comment says "mutant" are deliberately wrong variants. They are not
used by any specification; each shows that some property notices that bug.

### PacketLayer

`free_list`, `waiting`, `waiting_last`, `current` and `nxt` (the `next` fields) are the C pointers,
`length`/`buffer` the fields of the slots. `at`, `this` and `pos` are the place of
`DRL_Packet_Proc` and its locals. `calls` is the stack of the activations of
`DRL_Packet_TX`: each is before its first poll (`open`), at a poll in its loop (`body`) or past it
(`close`). An action is either one byte received at a poll (`RXFlag`, `RXEscape`,
`RXData`, `RXOverrun`) or the code from one poll to the next (`TXOpen`, `TXBody`, `TXClose`,
`Dequeue`, `CrcChunk`, `Dispatch`, `Release`, `EndProc`). That is the grain of the program:
nothing can happen between two statements without a poll between them.
`RXOverrun` pushes another activation that overwrites `reply`; the outer ones go on with what they
find, including bytes of older replies (`ReplyByte`). `sent` is what has gone out
since the last flag, so a nested opening flag cuts the outer frame as it does on the wire.
A reply is known by its kind and its length; its byte `i` is `<<kind, i>>`, which tells
apart all that the order of bytes can get wrong.

Whether a *write* polls depends on the port, and the constant `WRITE_POLLS` says which: on the USB port of the QSC60x5 the flag that
ends what is in the port's buffer starts the transfer and then loops on the read routine (`qsc60x5_usb.c:852-864`); the other ports do not read when
they write. Where it does, two more places can receive. One is behind the closing flag (`closed`; `TXReturn` leaves it): the host has
the reply by then, and the slot of its request is given back only later (`packet_io.c:439-443`). The two flags that may follow to flush the frame
(`packet_io.c:320-326`) poll again with nothing changed in between, so one stage stands for all three. The other is the opening flag of a reply sent from inside another
(`TXInterrupt`, stage `opened`), which ends what is out of the outer one.

The specification starts after `DRL_Packet_Setup`, as all of `packet_io.c` presumes. In the
repository nothing calls `DRL_Packet_Setup` or `DRL_IO_Setup` (`main.c` goes from the table
straight to the loop); the model does not cover a program that never set up its lists.

`Commands` abstracts the 32-byte header of a handshake to one byte. The comparison
is as in the code: both `memcmp` results are tested for "differs".

### FlashRead

`mem` is one memory, as a probe left it; `loop` is `src_offset`, `page_offset`, `spare_offset` and
`size` of `NAND_Read` (or `SuperAND_Read`) and the codeword of the page at hand. Contents are followed in cells of 16
bytes, each known by the row and column of the chip it came from, so a page in the wrong place,
a half page of another row or a spare that overtook its data are all different values.
Three kinds of controller: `commands` (default.c, s3c2410.c, bcm2133.c, dummy.c: the
row goes out in two or three bytes, a small page in halves), `codewords` (msm6800.c, msm7200.c,
msm6250.c) and `whole` (pxa312.c, the AXI variant of bcm2133.c). `Statuses` are the
outcomes a port may give `NAND_Ctrl_Check_Status`; the ports in the tree say yes.
Requests start anywhere: an offset inside a page is taken down to the page, as the shift does.

Two assumptions leave inputs out. `MemoriesAssumption`: pages of 256 bytes (the code
treats them as 512) and pages of 1 KB on chips above 64 MB (the third row byte is not sent); chips have one of the sizes of the tables. `RequestsAssumption`: a request for 0
bytes (the loop runs before the size is looked at).

`FlashDevice` is the abstract specification, two actions: a request is asked, a truthful answer is
given. `Truthful` says what is truthful, from the geometry alone, without loops.

### NandCtrl, OneNand, FlashStack

`NandCtrl` is the driver below the page loop. A call of `NAND_Ctrl_Probe` or `NAND_Ctrl_Read` is the list of the bus
operations it makes (`ops`), one step each; the chip (`bus`) takes a command, address bytes, and delivers data from the
row those bytes name. Each port has its own list: command by command (default.c, the Samsung ones, dummy.c), by
codewords and registers (the Qualcomm ones), by a data controller (pxa312.c), with and without AXI (bcm2133.c), and the two
sequences of the SuperAND. What outlives a call is kept: the lock, the run bit, the configuration registers, a read
sequence that was not ended. Pages are asked for in any order, and any call may fail where the code can, so a
read meets what a failed one left. Data are segments known by the row and column they came from.

The header of the module names what it leaves out, because the code does not read it rightly: pages of 256 bytes; pages
of 1 KB in more than 64 and up to 128 MB; large pages behind the BCM2133's AXI (`ADDR2` is written twice, `ADDR1` never) and 8-bit chips there
unless the flags are 0x90 or 0xb0; 16-bit chips on the MSM6250 and the S3C2410 (their configuration stays narrow); pages of any size but 512 bytes and 2 KB on the
PXA312 and the MSM6800 (`OneBit`: the flag of `pxa312.h:25` has one bit, so chips of 4 KB and 8 KB are announced as 2 KB, and the page fetched is not theirs, `Announced`) and of more than 4 KB on the MSM7200; SuperAND ids that are not in the table (it has no end mark). The first three are hazards in `PROJECT.json`. `Readable` states
the chips that remain, and `ReadableAssumption` of `FlashStack` that every board has one of them; TLC evaluates it in `flash_read`.

`OneNand` has the chip as an actor: a command starts an operation, and the chip ends it when it likes and sets its
interrupt. The driver's wait looks a bounded number of times and then gives up, so the operation of one call may end in the
middle of the next. `late` is a history variable: this call began while an operation given up was going on. `OwnPage` excepts these calls,
because the driver does not look for them; without the exception TLC shows the page of the call before returned as this one's.
Pages of 4 KB are dead code: `Pre_Initialize` always announces 2 KB.

### RleCompress

The state is the loop of `DN_Packet_Compress`. `src` goes on behind the block, because the
encoder looks there: it may end with one run made of what lies behind (`OnlyARunBehind`
says that this is the worst of it, and a decoder that stops at the block's size is right).

### Lz4, Lzo

`Lz4` keeps the search and the output of `LZ4_compress_generic` as built: no dictionary, no output limit, positions of 16 bits
(a block has at most 1024 bytes). The hash is *any* function from the bytes hashed to table entries (a constant of the model), so
that collisions and stale entries occur in small blocks; the lengths are scaled down, keeping the relations the code relies on
(`MINMATCH < LASTLITERALS <= WILDCOPYLENGTH`, the step that grows with misses, the byte after which a length goes on).
`touched` and `seen` are history: how far the copies in units reach in output and block.

`Lzo` has the real constants. A block has at most 1024 bytes, so there is one pass of `do_compress`, no M4 match and no M1 distance; those branches
are left out. The dictionary's index is a function of the next four bytes modulo any of a few sizes.

Both are checked against decoders written from the formats (in `Encoders`), as the host has them.

### Lwmem, Lwprintf

`Lwmem` counts addresses in words of the alignment, lays out blocks and their headers as the code does, and has a client that
writes every word it is given, so that a header written into a block or a block moved over another one shows in `word`.
The start is part of it: `boot` goes from the clearing of `.bss` through the list of the start-up code (relocated in
place by `crt.s`, once) to the list of `dcc_main`, which is refused when the first one was taken. Left out: sizes near 2^32, where the addition
of the header wraps; regions shorter than their misalignment; statistics, locking and the simple allocator, which are compiled out.
In `src/` only `lwmem_assignmem` is called; the rest is compiled in and modelled with a client that may call anything.

`Lwprintf` takes formats as sequences of items. `Standard` is what `printf` puts out; `OwnWay` lists the directives for which the
code goes its own way (a prefix in front of blanks, a sign for an unsigned number, a precision for a number, its own letters). Left
out: a `%` at the end of a format (the code reads past the terminator), floats (compiled out), length modifiers and 64-bit values. `src/` calls only
the bounded version (`nor.c:75`).

### Boot, NorProbe, Startup

A word of `BUF_INIT` is known by what stands in it and whom it describes. A probe is an outcome:
result, type, length of the name; the probe of the memory dump driver is one of them (`Memdump_Probe`).
`NorProbe` models the chips too, as far as the routines address
them: a chip of the Intel family takes any one-word command, one of the AMD family wants most
unlocked by two words; the routines are the sequences of writes and reads in the source, with all parts of their tables, and
running one on a chip gives its new mode and the codes read. Names of parts are written with `_` where the source has a blank or
a bracket, which the prover's solver cannot read. The probe tells chips apart by two to four words and by what a command does to them, and
presumes something of the chips it may meet; `ChipsAreTold` says what: a chip of the Intel family does not begin with the two codes of
a part of the other family, a chip of the AMD family that begins like a part of the Samsung table is that part, and a part with no command set in its CFI
table is one of the Renesas table, the only one whose parts are sized by their code. Chips outside it are taken for one another by the code too. The composition
(`Startup`) puts the two NOR addresses of `devices.h` first and a driver with any outcome behind, so
the state the first address leaves (codes, modes) is met by the second.

Some parts of the tables cannot be told apart and are left as the code has them: S71NS256PC0 and S29NS256P share their codes;
M36C0W6050T0 is shadowed by M28W640ECT; three entries carry another part's name (`nor_mitsubishi_renesas.c:40-42`, S29NS128P at
`nor_amd_spansion.c:142-144`, M28W320CB); two entries of `nor_amd_spansion.c` (lines 51-63) are in no table.

### Usb60x5, Usb60x0, Uart, Ports

In `Usb60x5` `ram` is `tx_buffer`, `rx_buffer1`, `rx_buffer2` one behind the other, as in `USB_State`. Bytes
are known by their place in their stream. The controller and the host are actions of their own:
packets arrive in the buffer set up last, packets of the transfer under way are taken from memory
*as it is by then*, done bits are latched and looked at only by `Read`. While
`wait_for_tx_done` holds only reads run. Assumed of the controller, external in the map: a
done bit comes when the transfer is complete; the summary of the done bits is
level-sensitive; no transfer ends with an empty packet; control transfers are not
aborted; the endpoint is the one `USBDC_DIAG` names. Assumed of the program: `DRL_Packet_RX` does not write, which
is `WindowSuffices` of `HostLink`.

A write does not ask whether `tx_buffer` is full, and the buffer has 1040 bytes where an escaped reply has 2048 and more, so frames
here may be longer than the buffer: what goes beyond it lands in the receive buffers and is remembered by its place in the stream (`spilt`, a history variable). `UsbReceives`
and `TakenInOrder` say that this is all that ever goes wrong: a byte handed on that is not the next one received is a spilt one, and a byte the
host takes that is not the next one written stood where a spilt one did. Frames longer than the three buffers together (3344 bytes), which would go over the indices behind them, are left out by
`UsbAssumption`: a reply of 2048 bytes gets that long only when more than three in five of its bytes are escaped.

Requests have their standard names. `io_type.h:7` and `:10` have two of them swapped: 0x21A1, which asks for the line coding, is there called
`CLEAR_FEATURE_E` and answered by an empty packet, and 0x0102, which clears an endpoint's halt and has no data, `GET_LINE_CODING`. So the host never reads a coding back on
this port (section 5), and `CodingKept` speaks of what the port has: the coding set last, although its data is a message of its own.

`Usb60x0` is the whole FIFO driver. `active` finds the pair of FIFOs (one of the two pairs, or the buffer register) the host uses; every
read begins with the control transfer there may be (`SetupUpdate`): the coding set is what FIFO 8 holds *at that moment*, although
the host may send it later, and the request the source calls `CLEAR_FEATURE_E` (0x21A1, which asks for the coding) makes the look wait until
the answer is taken. That the setup bit goes away with the end of the control transfer is assumed of the controller. A frame is written with at most
one read before each byte. `USB_Serial` is packed, so the linker may put it at an address of the form 4k + 2: `qsc60x0_read_usb_fifo` then writes every
halfword of the coding to the same place (lines 129-130). The run `usb_fifo` has it there; no property is about the coding of this port, which
changes nothing else.

`Uart` has the line as an actor between any two register accesses: bytes arrive, whole or damaged, overrun the
FIFO, and are taken from the transmitter.

`Ports` starts before `DRL_IO_Setup`: the board, whether the USB controller runs, and (on a QSC60x5) the transfer the
loader's loader left set up, whose end `active` waits for. Reads and writes of the chosen port follow.

## 3. What is checked

Each run is a question. "Violation" runs check one statement of a comment or a tool of the
repository that the code does not keep.

| run | question | bounds | states |
|---|---|---|---|
| `pool` | Do the lists stay whole and implement a queue, whatever bytes come at whatever poll? | 2 slots, packets of 3 bytes, lengths modulo 5, bytes {flag, escape, 0x5E}, 2 nested transmissions | 40 275 |
| `window` | Does a host within the window get whole replies, in order, always? | 3 slots, window 2, a port that polls while it writes, three kinds of request, one with a bad CRC | 122 757 |
| `noise` | Does a frame survive what noise left behind? Is a long one dropped? | 3 slots, packets of 4, 6 bytes of noise, 2 frames | 293 598 |
| `handshake` | violation: "If DRL header found -> TX confirmation and open the gates" (`cmds.c:34-35`) | window 1 | |
| `rle_reply` | violation: exceeding the reply buffer is caught at run time (`io_type.h:52-53`) | one full block of 1024 bytes | |
| `startup` | Is the table whole and walkable, is each chip listed as itself and left readable? | eleven chips at each of two addresses, a third driver with any outcome, `BUF_INIT` of its real size | 13 645 |
| `nor_cfi` | violation: a CFI table laid out as in the test platform (`test/test_dcc_platform.c:18-19`) is accepted | seven chips with CFI | |
| `flash_read` | Are replies truthful for each controller and geometry? Does each driver describe its chip, fetch the page asked for, and leave chip and controller so that the next call does? | 13 memories, 9 requests; 40 boards with NAND or SuperAND chips, 4 pages; 4 boards with OneNANDs of one and two dies, 5 pages; any number of calls, any failures | 68 037 |
| `ports` | Do the byte streams stay whole, over each port, and is everything served? | packets of 2 bytes, receive buffers of 4, `tx_buffer` of 3, frames of 2 to 4, 5 bytes each way, 2 control transfers; FIFO port: 3 bytes, one frame of each kind, 1 control transfer; serial: FIFOs of 2, 3 bytes each way | 176 534 |
| `uart_idle` | violation: the receiver is reset after an error (`qsc60x5_uart.c:38`, `:70`) | as `ports` | |
| `usb_fifo` | violation: two flags flush a full packet (`packet_io.c:315-316`) | one frame of one packet | |
| `libraries` | Do the encoders' replies decode to the block, from inside their buffers? Is the CRC the remainder, and accepted when intact only? Is the heap whole? Does the formatter keep to its buffer, and to `printf`? | below | 600 849 |

Why the bounds are enough:

- `pool`: two slots are the fewest with which a list has a head and another tail, one slot is
  filled while one is processed, and the pool is empty while a reply goes out. `LENGTH_SPAN` is small, so the wrap of
  `length` happens (the real one needs 65536 bytes in one frame). Replies of 1, 2 and 3 bytes with a poll every 2 give
  transmissions with and without an inner poll; two activations are the first nesting, and a third adds nothing the second
  does not do to the first. `MAX_CALLS` is a bound: the code has none. The proofs of `TypeOK` and `PoolIntact` are for any value.
- `window`: three slots allow one being answered, one waiting, one arriving. The window is two because the port polls while it writes: the request sent on the
  strength of a reply may be there before the slot of that reply is free. With a window of three TLC finds `WindowSuffices` violated (section 5).
- `handshake` has a port that does not poll while it writes; `pool`, `window` and `noise` one that does, which has all behaviours of the other and more.
- `noise`: six bytes are more than a slot and the byte that overflows it, with an escape before or after.
- `startup`: one chip of each shape of part (two and four codes, with and without CFI, Intel and AMD), the unknown of each family, a chip
  that shares another vendor's codes, no chip. Two addresses are what `devices.h` has.
- `flash_read`: both page size classes, both widths, sizes on either side of 32, 64 and 128 MB, offsets at the first page that
  needs a third row byte, one and two pages, every error. Below the page loop: every port with chips of small and large pages, from a table and from the
  id byte, one it does not know, and pages whose numbers take one, two and three bytes; OneNAND pages in both dies and at the seam.
- `ports`: two packets per buffer give full buffers, short packets and transfers of several packets; five bytes take the
  receiver through both buffers and back to the first; frames are shorter than `tx_buffer`, fill it, and run
  on into `rx_buffer1` by a byte, while that buffer is empty, being filled or being handed on. On the FIFO port two banks of up to two bytes fill while one is
  read. Three bytes overrun the serial FIFOs of two; reads of at most two bytes end at their limit and at an empty FIFO. `BANKS` is 2, as FIFOs 3 and 6 have
  (FIFOs 2 and 5 have four).
- `libraries`: RLE: all memories over two values, blocks of 0 to 7 bytes, runs of up to 3, so both limits are met several times. (In
  `rle_reply` no run is longer than two, so its limit of 15 does not come into play.) LZ4: every
  block over two values of up to 13 bytes, of which seven are compressed at all, under three hashes. LZO: every start of up to nine bytes before
  four tails, and blocks with literals and matches of lengths on both sides of every change of the encoding. CRC: every byte value (linearity makes them exercise every
  table entry), packets of one to three chunks of 4, six bursts of up to 16 bits at every position. Heap: three lists of
  regions (off a boundary, too small, ended by a 0, in the wrong order), three blocks, five sizes. Formatter: every set of flags with five
  widths for each directive, and two formats against every buffer size around their length.

`CHECK_DEADLOCK FALSE` is given in `noise` and `usb_fifo`, where host and noise stop
at their bounds and the program has nothing left to do, and in `flash_read`, where a memory whose probe failed is not read. All other runs check that the
system never stops.

Mutants: each property has one definition whose wrong variant it was seen to notice; they are listed in `PROJECT.json`.

### Fairness

- `HostLink`: weak fairness of `LoaderStep` (the processor runs; a poll returns after
  a bounded number of bytes, 128 in the UART read) and of `Deliver` (the loader polls again and again, so bytes on
  the line are read). The host need not send. `RequestsAnswered` is false without either.
- `Ports`: weak fairness of `DRL_IO_Setup` and of `Read`, `Hand` and `WriteByte` of `Usb60x5`, of the calls of `active` (`X0Starts`) and then of what
  goes on by itself in `Usb60x0` and `Uart` (the main loop and the waits poll without end, a frame
  begun is written to its end); and of the host and the line going on with what they began (taking data of a transfer or a FIFO, taking an answer, sending the data
  of SET_LINE_CODING, clocking out what the serial port holds). Without the last a transmission may wait for ever, in the model as in the code, which has no limit
  for it. Nothing is assumed of bytes arriving, and the transfer the set-up waits for need not end.

All other specifications are safety only.

## 4. What is proved

For every value of the constants that meets the named assumptions:

| theorem | statement | assumptions |
|---|---|---|
| `PacketLayer_proofs!TypeCorrect` | `Spec => []TypeOK` | `PacketAssumption`, `HeadersAssumption` |
| `PacketLayer_proofs!PoolSafe` | `Spec => []PoolIntact` | the same |
| `PacketLayer_proofs!QueueImplemented` | `Spec => ImplementsQueue` | the same |
| `HostLink_proofs!WindowKept` | `LinkSpec => []WindowSuffices` | the same and `HostAssumption` |
| `HostLink_proofs!OrderKeptForHost` | `LinkSpec => AnswersInOrder` | the same |
| `NoisyLine_proofs!NoiseSurvived` | `LineSpec => FrameSurvivesNoise` | those of the packet layer and `LineAssumption` |
| `NoisyLine_proofs!TooLongLeavesQueue` | `LineSpec => TooLongDiscarded` | the same |
| `Ports_proofs!SerialInputSafe` | `PortsSpec => []UartReceives` | `PortsAssumption`, `UsbAssumption` |
| `Ports_proofs!SerialOutputSafe` | `PortsSpec => []UartSends` | the same |
| `Ports_proofs!CodingSafe` | `PortsSpec => []CodingKept` | the same |
| `Ports_proofs!UsbInputSafe` | `PortsSpec => []UsbReceives` | the same |
| `Ports_proofs!UsbOutputSafe` | `PortsSpec => []TakenInOrder` | the same |
| `Boot_proofs!TableBounded` | `Spec => []TableInBounds` | `DevicesAssumption`, `ProbesAssumption`, `TableAssumption` |
| `Boot_proofs!TableRead` | `Spec => []TableReadsBack` | the same |
| `Boot_proofs!DetectionSafe` | `Spec => []DetectionAgrees` | the same |
| `Boot_proofs!StartupSafe` | `StartupSpec =>` the three together | the same and `NorAssumption` |
| `Boot_proofs!PartsNotMistaken` | `StartupSpec => []NoMistakenPart` | the same and `ChipsAssumption` |
| `Boot_proofs!KnownReadable` | `StartupSpec => []KnownLeftReadable` | the same |
| `Boot_proofs!NamesFit` | `StartupSpec => []NamedForItsChip` | the same |
| `FlashRead_proofs!TypeCorrect` | `Spec => []TypeOK` | `MemoriesAssumption`, `RequestsAssumption`, `StatusesAssumption` |
| `FlashRead_proofs!RawBufSafe` | `Spec => []RawBufHolds` | the same |
| `FlashRead_proofs!AnswersHold` | `Spec => AnswersTruthfully` | the same |
| `FlashStack_proofs!OwnPageRead` | `StackSpec => []OwnPage` | `OneNandAssumption` |
| `FlashStack_proofs!ProbeTruthful` | `StackSpec => []ProbeDescribes` | `NandAssumption` |
| `FlashStack_proofs!LockGivenBack` | `StackSpec => []LeftQuiet` | `NandAssumption` |
| `FlashStack_proofs!PageRead` | `StackSpec => []PageFetched` | `NandAssumption`, `ReadableAssumption` |
| `RleCompress_proofs!OutputBounded` | `Spec => []OutputBound` | `RleAssumption` |
| `RleCompress_proofs!DecodesBack` | `Spec => []RoundTrip` | the same |
| `RleCompress_proofs!OneRunBehind` | `Spec => []OnlyARunBehind` | the same |

### The packet layer, its queue, its host and its line

**PoolSafe.** `PoolIntact` says that there are a sequence of waiting slots and one of free slots that the links spell out,
disjoint from each other, from the slot being filled and from the one being processed, and together all slots; and that queued
lengths are legal. It quantifies over sequences no longer than the pool, for TLC. The invariant of the proof is
`PoolInv`, the same over all sequences (a list of distinct slots is never longer than the pool; `PoolInvIntact` goes back by
a counting argument with `FiniteSetTheorems`). Existence has to be carried from a state to
the next, so each list operation has a lemma that gives the new sequence: `ListFrame` (links outside the list change),
`ListTake` (the head leaves), `ListAppend`, `ListPush`. On them rest `ClaimShape`, `FillStep`, `EnqueueStep`, `DequeueStep`, `ReleaseStep`
and `DispatchStep`, one for each action that touches the lists; `StableStep` covers the others.
The bounds on queued lengths need no more than the test in `DRL_Packet_ProcCurrent`: it reads the
length after any wrap, so that a wrapped count is admitted only when it is legal.

**QueueImplemented.** The abstract queue is read off the links by choosing a waiting list. The proof shows that the links
stand for one list only, so that what is chosen is the list `PoolInv` carries (`PendingOf`), and then that each step of the
packet layer is one of `PacketQueue` or leaves the queue alone: an enqueued frame is a packet at the tail, the packet whose
checksum is being computed is still at the head, and what is dispatched is the head answered as `Respond` allows.

**WindowKept, OrderKeptForHost.** `LinkInv` joins the two sides of the line. What the loader holds (the packet being processed, the waiting list, the
frame under way) is what the host has asked and has no answer for, in that order; with at most `WINDOW` of them there is always a free
slot for the next. `TxInv` says that then one activation of `DRL_Packet_TX` sends at a time, from a buffer that still holds its reply, and that
what has gone out is that reply up to where it stands; `GateInv` that the reply on its way answers the oldest request under the
gate the host knows. `HostAssumption`: requests have legal lengths; the window is at most the number of slots, and less where the port polls while it writes. That one slot is needed
in the stage `closed` only: the host has the reply and may have sent the next request, so the loader holds one request more than the host counts as unanswered. Nothing is assumed of their bytes: flags and escapes
inside are escaped, and `Received` follows the receiver through the frame byte by byte.

**NoiseSurvived, TooLongLeavesQueue.** `LineInv` says that unless the frame has met an overrun the receiver has taken
it up to where the line stands (`Received`, from whichever state the noise left the receiver in). The frame's opening flag is what makes that true: before it
nothing is known of the slot. `LineAssumption` keeps frames shorter than `LENGTH_SPAN`, as a longer one wraps
the count of 16 bits (section 5).

### The ports

The ports share nothing but the choice between them, so each has an inductive invariant of its own and a step of `Ports` is a step of one of
them or leaves it alone. *Serial* (`UartInv`): a spoilt byte lies in the FIFO only while an error bit is set or between the reset of the bits and that of
the receiver, so none is read as good; the bytes taken by the line, and then those in the FIFO, are the ones written. *QSC60x0* (`X0Inv`): of the two
banks each holds consecutive bytes, and which one comes first is known at every point of a read. *QSC60x5* (`X5Inv`): `LoopInv` says whose the two receive
buffers are (the one being handed on, the one the controller writes; a buffer is noted, or its endpoint done, only while it holds something and the
controller keeps off), `RxInv` what is in them, `TxInv` and `FrameInv` that the transfer under way is the frame written last and stays as it is until it is taken.
`SetupInv` places every control transfer at one of the stages the host knows.

Nothing is assumed of frames but that they stay inside the three buffers (`UsbAssumption`): a frame longer than `tx_buffer` is admitted and goes over the receive
buffers. The theorems about the USB port therefore carry the places of the bytes spilt (`spilt`): a place of a receive buffer in use holds the byte received there or a spilt one, and a place of
the frame on its way behind `tx_buffer` is spilt. With frames that fit, `spilt` is empty and they are the plain statements.

### Start-up

**TableBounded.** `BootInv` bounds `dcc_init_offset` by the devices listed so far times
`Room`, what one device may take, and keeps the domain of `BUF_INIT` an interval. `TableAssumption` says that the
buffer has `Room` for each device; `dcc_main` itself looks at no bound.

**TableRead, DetectionSafe.** `TableReadsBack` and `DetectionAgrees` speak of the finished table. `TableInv` adds where the entries written
so far start (`Starts`: one behind the other, each as long as its name makes it) and that the devices probed so far are those the
table describes (`Described`). **StartupSafe** is the same for two NOR chips with the probe routines of `NorProbe`: a step that ends a
probe is a step of `Boot` because the part found is one of the tables, whose names `NorAssumption` bounds (`StartupInv`).

**PartsNotMistaken, KnownReadable, NamesFit.** For every pair of chips `ChipsAreTold` admits, not only those of the run. First, what each of the five
routines leaves of a chip of each family, from any codes before it: a routine is a list of words written and read, `Runs` says where such a list takes
chip and codes, and `RunsJoin` that lists behind one another do so one after the other; so each routine is taken apart into unlocking, asking and reading, once per family
(`AsksIntel`, `AsksAmd`, `AsksNone`, `CfiLeaves`). Then which parts the words read can match (`AskedIntel`, `AskedAmd`, `AskedNone`): here the
codes left by an earlier routine or address matter, since a routine that reads two words leaves the other two standing. `NorInv` adds to the three
properties what makes them inductive: a chip whose turn has not come is in array mode and so is every chip of the AMD family between routines (`NorModes`); the parts of the
tables already passed are not the chip's (`NorAsked`), which is what makes "unknown" mean that the chip is in no table; and that the name in the table of start-up is the
one `DRL_NOR_Probe` settled on (`NorNamed`). An Intel chip may be left in another mode by an unlocking routine, and is, but only after its own two tables have
passed it: so it is none of theirs, and `KnownLeftReadable` does not speak of it.

### The flash drivers

**RawBufSafe.** `FlashInv` = `TypeOK`, `RawBufHolds` and `LoopPlace`. `LoopPlace` lists where the page loop can be: since the handler
admits at most 1024 bytes and the drivers only whole pages, it is on the first or second page of 512 bytes or on the only one of 1024, and the
offsets of data and spares are known in each case. Then the last byte of a spare is at most 1024 + 32. `TypeCorrect` needs `LoopPlace` as well:
only that keeps the size left from going below zero.

**AnswersHold.** The refinement mapping sends a request under way to the pending one and its reply to the answer. `AnswerInv` adds to `FlashInv` that the loop is
under way in the request at hand (`UnderWay`) and what `rawBuf` holds by now (`Content`): the data of the pages read, the part of the page at
hand that its controller has fetched, and their spares, each cell from its own row and column. The row a chip finds from two or
three address bytes is the one meant because the sizes of chips are powers of two (`Sizes` in `MemoriesAssumption`), and so are the moduli.

**OwnPageRead.** A read of a OneNAND that found the chip standing goes through the stages of its list of operations (`OneAt`): interrupt cleared, die, buffer, page, command,
wait, copies. The fact that carries the proof is the one of the wait: the interrupt is there only once the page is in the buffer of its die (`AtWait`). Block
and row of a page in the second die come out right for every chip whose id tells its size (`OneNandAssumption`).

**ProbeTruthful, LockGivenBack.** Both are about the lists of operations a call makes, eleven ports with lists of their own. What a list promises is stated without the state of the
chip and proved along its concatenations: `Shaped` (the chip is looked up once, right behind the command for its id, and what asks
for more is right behind that) and `Quiet` (whatever the list takes is followed by what gives it back). `NandInv` then carries
both promises for the tail that is left. `ProbeInv` has three stages: nothing known, looked up with the geometry still to be asked for, identified. `QuietInv`:
who holds the lock, the run bit or the read sequence still has an operation before it that gives it back, or its call has failed;
and every read of these ports gives back at its end what a failed call before it kept. `NandAssumption`: a chip the table names is what the table says, and a large-page chip
what its fourth id byte says; unknown chips are admitted and are refused by the probe.

**PageRead.** A read is a straight list of operations, so what it will have stored is settled by the list and by the state it starts from:
`After` is what one operation makes of bus, registers and segments, `Runs` what a list makes of them. Four parts. (1) *What lists do.* A port's list
leads to a state whose segments are the page (`Fetches`), piece by piece: the command with its address bytes, the wait, the transfer. That the row
meant is the one found is arithmetic on bytes: a row named in two or three bytes is found by a chip that waits for two or three
(`BytesOfPage`, and the reason for `ReadableAssumption`). `HoldsAt` says of a byte of the buffer that exactly one segment lies over it, and where that came from; more
than `Stored` asks, which takes the last. (2) *What the controller was told.* Ports with a controller read rightly only if its registers suit the
chip, and those are set by the probe. `TuneInv` carries `Fitting` through a probe (the registers suit the chip, or the operation that makes them suit it is still to come) and `Fitted` from
its end on: no read changes width, kind or page size, and one that fails does not either. (3) *Whatever is left behind.* `Fetches` is proved from any
state of chip, lock and codeword counter, so nothing is assumed of how the call before ended. (4) `FetchInv`: while a read runs, what is still
to come fetches the page; once it returns `OK` the page is there. A step of the read is the first operation of its list, or the read fails.
The PXA312 and the MSM6800 are told the size of a page by one flag, so its agreement with the chip (`Announced`) is part of what a transfer needs, and it is there
because `Readable` admits their chips of 512 bytes and 2 KB only (`OneFlag`, `AnnouncedBy`). With a chip of 4 KB on a PXA312 TLC finds `PageFetched` violated.
`ReadableAssumption` is `Readable` of every board: the chip is none of those `NandCtrl` leaves out because the code does not read them rightly (section 2); and pages are natural numbers.

### The run-length encoder

**OutputBounded.** `OutputBound` alone is not inductive: it says nothing of how much has been read. `BoundInv` adds that, while
the block lasts, the output is at most `HEADER + 2 * inOffset`. A raw run of `n` bytes costs `n + 2` and, unless it ends the block or meets the
limit, is followed in the same pass by a run of at least two bytes for three more; what a raw run of one byte at the end and a
run from behind the block cost on top is the 4 of the bound.

**DecodesBack, OneRunBehind.** The decoder is a recursive function over the tokens; the prover unfolds it one token at a time (`Unfolds` is the table of its
values), which is enough because the encoder appends. `EncoderInv`: what has been written decodes to the bytes before `inOffset` (`Decodes`), and `EndInv`
what the last pass may have done, so that the only token past the end of the block is one run.

### Only model-checked, and why

- Liveness (`RequestsAnswered`, `AllHanded`, `PortServed`): fairness and ENABLED are outside the prover.
- `Encoders` and `Libraries` (`Lz4RoundTrip`, `LzoRoundTrip`, `LzStaysInside`, `IsRemainder`, `AcceptsOnlyIntact`, `HeapSound`, `ContentsKept`, `FormatBounded`,
  `FollowsPrintf`): they reach the checksums, which use bitwise operators the prover does not know, and recursive operators, in whose presence it has no SMT solver. What the compressors
  decode to, what a walk along the free list finds (`Along`) and what the formatter has printed are also recursive over data of any length, so that a proof would need induction.

## 5. Disagreements found

1. `handshake`: both header comparisons are inverted; the header that opens the gate is the Qualcomm one, and the loader's own is turned away
   (`cmds.c:44`, `:54` against the comment in lines 34-35).
2. `rle_reply`: no code compares the size of a reply with `REPLY_BUFFER_SIZE`, though `io_type.h:52-53` says that exceeding it is a
   fatal error at run time; a block of alternating single bytes and pairs encodes to twice its size.
3. `nor_cfi`: `nor.c:93` compares the command set with 'Y'; every part with CFI is listed as the placeholder, also one whose table is as the test platform lays it out
   (`test/test_dcc_platform.c:18-19`: 'Y' in its own word, the command set in the next).
4. `usb_fifo`: `qsc60x0_usb.c:463` clears the length before passing it on; nothing is ever transmitted.

5. `uart_idle`: `qsc60x5_uart.c:68` (and `qsc60x0_uart.c:67`) tests the status shifted by 3, which keeps the bit "transmitter empty"; the
   comments at lines 38 and 70 say that the receiver is reset because of errors. While nothing is being sent every byte that arrives is thrown away.

Three more were met while modelling and have no run of their own:

- `io_type.h:44-46` calls the size of the pool the maximum window. On the USB port of the QSC60x5 that is one too many: with `WINDOW` equal to the number of slots
  TLC finds `WindowSuffices` violated, as the request that follows a reply may be received inside the write of that reply's closing flag, when its slot is still held.
- `io_type.h:7` and `:10` have the names of two USB requests swapped, so the question for the line coding is answered by an empty packet on the QSC60x5 (`qsc60x5_usb.c:579-596`, `:622-627`).
- `pxa312.h:25` gives the page size one bit, and `pxa312.c:110-112` sets it for any page above 512 bytes, so a chip with pages of 4 KB or 8 KB is read as one of 2 KB.

A frame of more than 65536 bytes wraps the length and is queued as a short packet, against the comment in `packet_io.c:255-256`; the run
`noise` shows that frames up to the wrap are dropped, and `PoolIntact` that a wrapped one stays inside its slot.

## 6. Plan

Done: first the packet layer, the read command, the start-up and the USB drivers with their first proofs; then the controllers below the
page loops, OneNAND, the whole FIFO port, the serial ports, the set-up of ports, the compressors, the allocator and the formatter.

Then the proofs of section 4: the packet layer with its queue, its host and its line; the three ports; the table of the start-up and the NOR probe; the page loops, the OneNAND
driver and the probes, locks and reads below the NAND driver; the run-length encoder.

More of the system, where it is worth a model: the contents of requests in the slots (`PacketLayer` with `FlashRead`), so that a short packet is answered
from what the slot held; the nested overrun inside the read routine of both USB drivers; empty OUT transfers.

## 7. Not modelled

- Short requests, the text of replies and of error replies (hazards in `PROJECT.json`).
- `nor_sharp.c`, which is in no table and not built.
- The rest of the vendored code: streaming, dictionaries and limited output of LZ4, other LZO variants, both decompressors, the parts of lwmem and lwprintf
  that are compiled out, the portability headers. Nothing in `src/` calls them.
- Geometries the NAND ports do not read rightly (section 2).
- The memory layout: stacks of 256 bytes (`build/ram.ld`), on one of which LZ4 keeps 16 KB. The rest of `crt.s`, `plat/`: caches, vectors,
  watchdog kicks.
- Timings and register programming without an effect on what is modelled.
- USB enumeration, suspend, and the `drain` and `active` routines nothing calls.
- The host tools: they run on the host; the decoder and the emulator served as references.

## Running

    tlc -config MCHostLink.cfg MCHostLink
    tlapm PacketLayer_proofs.tla
