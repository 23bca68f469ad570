------------------------------- MODULE Lwmem -------------------------------
(***************************************************************************)
(* The allocator compiled into the loader (src/lwmem/lwmem.c, built with   *)
(* LWMEM_CFG_FULL and without an OS, statistics or clearing).  Its blocks  *)
(* lie side by side in the regions it was given: a free block is on one    *)
(* address-ordered list, which also holds a dummy first node and a node of *)
(* size 0 at the end of every region; a block in use is on no list.        *)
(*                                                                         *)
(* Addresses and sizes of blocks are counted in words of ALIGN bytes: each *)
(* is a multiple of LWMEM_CFG_ALIGN_NUM in the code.  Requests and regions *)
(* are in bytes, as callers give them.  Requests stay below 2^31 - META,   *)
(* where LWMEM_ALIGN(size) + LWMEM_BLOCK_META_SIZE cannot wrap.            *)
(*                                                                         *)
(* The loader gives it regions twice: crt.s those of a list in front of    *)
(* the program, and dcc_main a list of its own.                            *)
(*                                                                         *)
(* `client' is the code that calls the allocator: it holds a few blocks    *)
(* and writes every word of each as soon as it gets it.                    *)
(***************************************************************************)
EXTENDS Integers, FiniteSets, Sequences, TLC, Functions, FiniteSetsExt, SequencesExt

CONSTANTS
    ALIGN,         \* LWMEM_CFG_ALIGN_NUM: bytes of a word
    META,          \* words of a lwmem_block_t
    TOP,           \* highest word address there is
    LOAD,          \* where the program is loaded: _vectors
    RegionLists,   \* lwmem_init of crt.s: <<[start, size], ...>>, start of the first
                   \* one counted from LOAD
    MainList,      \* lwmem_regions of main.c
    Handles,       \* the blocks the client holds at once
    Sizes,         \* bytes it asks for
    Items          \* pairs <<items, bytes>> it passes to lwmem_calloc

NULL  == -1
AnyRegion == [start |-> 0, size |-> 0]   \* a call that names no region
START == 0         \* &lwobj->start_block: below every region
Nobody == << >>    \* what a word holds that is in no block of the client

\* crt.s adds the address of _vectors to the first start address of its list.
Relocated(list) ==
    IF list = << >> THEN list ELSE [list EXCEPT ![1].start = @ + LOAD]

Lists == {Relocated(list) : list \in RegionLists} \cup {MainList}

\* Every region starts above START and ends at TOP or below it, and none is
\* shorter than the bytes its start address is away from a word's boundary:
\* there the code's unsigned subtraction would wrap.
LwmemAssumption ==
    /\ ALIGN \in Nat \ {0} /\ META \in Nat \ {0} /\ TOP \in Nat
    /\ Sizes \subseteq Nat
    /\ LOAD \in Nat
    /\ \A list \in Lists : \A i \in DOMAIN list :
          /\ list[i].start >= ALIGN
          /\ list[i].start + list[i].size <= ALIGN * (TOP + 1)
          /\ list[i].size = 0 \/ list[i].size >= ALIGN - 1

VARIABLES
    boot,     \* how far the start has come: "bss", "crt", "main", then "up"
    heap,     \* the lwmem_t, the headers in memory and the words behind them
    regions,  \* the region list in use, << >> before lwmem_assignmem
    client    \* per handle: the block it holds and the words it asked for
vars == <<boot, heap, regions, client>>

Words(bytes) == (bytes + ALIGN - 1) \div ALIGN             \* LWMEM_ALIGN

-----------------------------------------------------------------------------
(* Regions.                                                                 *)

\* prv_get_region_addr_size: the words of a region, from its first aligned one.
Low(r)    == Words(r.start)
Length(r) == (r.size - (ALIGN * Low(r) - r.start)) \div ALIGN
Usable(r) == Length(r) >= 2 * META

\* lwmem_assignmem_ex looks at every entry, prv_assignmem stops at the first
\* of size 0 and leaves out the ones that are too short.
InOrder(list) == \A i \in 2 .. Len(list) :
                    list[i - 1].start + list[i - 1].size <= list[i].start
Assigned(list) ==
    LET zero == {i \in DOMAIN list : list[i].size = 0}
    IN SelectSeq(IF zero = {} THEN list ELSE SubSeq(list, 1, Min(zero) - 1), Usable)

EndOf(r) == Low(r) + Length(r) - META

\* The heap before lwmem_assignmem: end_block is NULL and the list is empty.
NoHeap == [ list  |-> START :> [next |-> NULL, size |-> 0],   \* free blocks
            used  |-> << >>,                                  \* block in use -> its size
            avail |-> 0,                                      \* mem_available_bytes
            end   |-> NULL,                                   \* end_block
            word  |-> [w \in 0 .. TOP |-> Nobody] ]

\* One round of prv_assignmem: a first block over the region and an end block
\* behind it, linked behind the end block of the region before.
AddRegion(h, r) ==
    LET last  == IF h.end = NULL THEN START ELSE h.end
        whole == Length(r) - META
    IN [h EXCEPT !.list = [@ EXCEPT ![last].next = Low(r)]
                            @@ (Low(r) :> [next |-> EndOf(r), size |-> whole])
                            @@ (EndOf(r) :> [next |-> NULL, size |-> 0]),
                 !.end = EndOf(r),
                 !.avail = @ + whole]

-----------------------------------------------------------------------------
(* The free list.                                                           *)

\* The first of `stops' along the list, NULL when none is on it.
Along(list, stops) ==
    LET walk[p \in DOMAIN list] ==
          CASE p \in stops -> p
            [] p \notin stops /\ list[p].next = NULL -> NULL
            [] OTHER -> walk[list[p].next]
    IN walk[START]

\* prv_get_prev_curr_of_block: the last node before block b, and the one that
\* leads to it.
Prev(list, b) == Along(list, {p \in DOMAIN list : list[p].next >= b})
Before(list, p) == Along(list, {q \in DOMAIN list : list[q].next = p})

\* prv_insert_free_block: block b of n words joins the free block that ends
\* where it starts and the one that starts where it ends.
InsertFree(h, b, n) ==
    LET prev  == Prev(h.list, b)
        next  == h.list[prev].next
        front == prev + h.list[prev].size = b
        at    == IF front THEN prev ELSE b
        size  == IF front THEN h.list[prev].size + n ELSE n
        back  == h.list[next].size > 0 /\ at + size = next
        node  == IF back /\ next # h.end
                 THEN [next |-> h.list[next].next, size |-> size + h.list[next].size]
                 ELSE [next |-> next, size |-> size]
        gone  == IF back /\ next # h.end THEN {next} ELSE {}
        links == IF front THEN h.list ELSE [h.list EXCEPT ![prev].next = at]
    IN IF prev = NULL THEN h
       ELSE [h EXCEPT !.list = (at :> node) @@ Restrict(links, DOMAIN links \ gone)]

\* A mutation: a block is split for less than a header.
SplitForLess(h, b, n) ==
    LET rest == h.used[b] - n
    IN IF rest > 0
       THEN InsertFree([h EXCEPT !.used[b] = n, !.avail = @ + rest], b + n, rest)
       ELSE h

\* prv_split_too_big_block: what block b, in use, does not need of its size
\* goes back to the list when it can hold a header.
Split(h, b, n) ==
    LET rest == h.used[b] - n
    IN IF rest >= META
       THEN InsertFree([h EXCEPT !.used[b] = n, !.avail = @ + rest], b + n, rest)
       ELSE h

\* The blocks `gone', which follow node p on the list, taken off it.
Unlink(h, p, gone) ==
    LET last == CHOOSE b \in gone : h.list[b].next \notin gone
    IN [h EXCEPT !.list = [b \in DOMAIN @ \ gone |->
                              IF b = p THEN [@[b] EXCEPT !.next = h.list[last].next]
                                       ELSE @[b]],
                 !.avail = @ - MapThenSumSet(LAMBDA b : h.list[b].size, gone)]

\* Block b, off the list, in use with n words of the `size' it has.
Use(h, b, size, n) == Split([h EXCEPT !.used = (b :> size) @@ @], b, n)

-----------------------------------------------------------------------------
(* Allocating, freeing and resizing.  Each gives the heap after it and the  *)
(* block the caller now has, NULL for none.                                 *)

Total(bytes) == Words(bytes) + META                        \* final_size

\* prv_alloc: the first block of the list that is large enough, within region
\* `rg' when the caller names one.
Alloc(h, rg, bytes) ==
    LET n     == Total(bytes)
        In(b) == rg = AnyRegion \/ b \in Low(rg) .. Low(rg) + Length(rg) - 1
        b     == Along(h.list, {c \in DOMAIN h.list : c # START /\ In(c) /\ h.list[c].size >= n})
    IN IF h.end = NULL \/ n = META \/ (rg # AnyRegion /\ ~Usable(rg)) \/ b = NULL
       THEN [heap |-> h, block |-> NULL]
       ELSE [heap |-> Use(Unlink(h, Before(h.list, b), {b}), b, h.list[b].size, n),
             block |-> b]

\* prv_free: a block that is not in use is left alone.
Free(h, b) ==
    IF b \notin DOMAIN h.used THEN h
    ELSE LET n == h.used[b]
         IN InsertFree([h EXCEPT !.used = Restrict(@, DOMAIN @ \ {b}),
                                 !.avail = @ + n], b, n)

\* memcpy and memmove of dcc/memory.c, a word at a time: from the first on, and from
\* the last on when the destination starts inside the source.
Moved(word, dst, src, order) ==
    FoldLeft(LAMBDA w, k : [w EXCEPT ![dst + k] = w[src + k]], word, order)
memcpy(word, dst, src, n)  == Moved(word, dst, src, [k \in 1 .. n |-> k - 1])
Backwards(word, dst, src, n) == Moved(word, dst, src, [k \in 1 .. n |-> n - k])

\* A mutation: the other order.
memmoveOther(word, dst, src, n) ==
    IF dst - src \in 0 .. n - 1 THEN memcpy(word, dst, src, n) ELSE Backwards(word, dst, src, n)
memmove(word, dst, src, n) ==
    IF dst - src \in 0 .. n - 1 THEN Backwards(word, dst, src, n) ELSE memcpy(word, dst, src, n)

\* The n words behind header `from' go behind header `to'.
Copied(h, to, from, n) ==
    [h EXCEPT !.word = memmove(@, to + META, from + META, n)]

\* A block that shrinks by less than a header gives what is over to the free
\* block behind it, whose header moves down; without one it keeps it.
ShiftDown(h, b, n) ==
    LET prev == Prev(h.list, b)
        next == h.list[prev].next
        over == h.used[b] - n
        to   == next - over
    IN IF b + h.used[b] = next /\ h.list[next].size > 0
       THEN [h EXCEPT !.list = [c \in (DOMAIN @ \ {next}) \cup {to} |->
                                  CASE c = to   -> [@[next] EXCEPT !.size = @ + over]
                                    [] c = prev -> [@[prev] EXCEPT !.next = to]
                                    [] OTHER    -> @[c]],
                      !.avail = @ + over,
                      !.used[b] = n]
       ELSE h

Shrink(h, b, n) ==
    IF h.used[b] - n >= META THEN Split(h, b, n) ELSE ShiftDown(h, b, n)

\* Growing tries the free block behind, then the one before, then both, and
\* then a block elsewhere.
Grow(h, rg, b, bytes) ==
    LET n       == Total(bytes)
        size    == h.used[b]
        prev    == Prev(h.list, b)
        next    == h.list[prev].next
        ahead   == h.list[prev].size
        behind  == h.list[next].size
        follows == prev + ahead = b
        leads   == b + size = next
        without == [h EXCEPT !.used = Restrict(@, DOMAIN @ \ {b})]
        new     == Alloc(h, rg, bytes)
        old     == size - META
    IN CASE prev = NULL -> [heap |-> h, block |-> NULL]
         [] prev # NULL /\ leads /\ size + behind >= n ->
              [heap |-> Use(Unlink(h, prev, {next}), b, size + behind, n), block |-> b]
         [] prev # NULL /\ ~(leads /\ size + behind >= n)
              /\ follows /\ ahead + size >= n ->
              [heap |-> Use(Unlink(Copied(without, prev, b, size),
                                   Before(h.list, prev), {prev}),
                            prev, ahead + size, n),
               block |-> prev]
         [] prev # NULL /\ follows /\ leads
              /\ size + behind < n /\ ahead + size < n /\ ahead + size + behind >= n ->
              [heap |-> Use(Unlink(Copied(without, prev, b, size),
                                   Before(h.list, prev), {prev, next}),
                            prev, ahead + size + behind, n),
               block |-> prev]
         [] OTHER ->
              IF new.block = NULL THEN new
              ELSE [new EXCEPT !.heap =
                      Free(Copied(@, new.block, b, Min({Words(bytes), old})), b)]

\* prv_realloc.
Realloc(h, rg, b, bytes) ==
    LET n == Total(bytes)
    IN CASE bytes = 0 -> [heap |-> Free(h, b), block |-> NULL]
         [] bytes > 0 /\ b = NULL -> Alloc(h, rg, bytes)
         [] bytes > 0 /\ b # NULL /\ b \notin DOMAIN h.used -> [heap |-> h, block |-> NULL]
         [] OTHER -> CASE h.used[b] = n -> [heap |-> h, block |-> b]
                       [] h.used[b] > n -> [heap |-> Shrink(h, b, n), block |-> b]
                       [] h.used[b] < n -> Grow(h, rg, b, bytes)

-----------------------------------------------------------------------------
(* The client and its calls.                                                *)

Nothing == [block |-> NULL, words |-> 0]

\* What the RAM held before: an end_block that is not NULL, and no heap behind it.
Stale == [NoHeap EXCEPT !.end = START]

Init ==
    /\ boot = "bss"
    /\ heap = Stale
    /\ regions = << >>
    /\ client = [c \in Handles |-> Nothing]

ClearBss ==
    boot = "bss" /\ boot' = "crt" /\ heap' = NoHeap /\ UNCHANGED <<regions, client>>

\* lwmem_assignmem_ex: once only, regions in ascending order.
Assign(list) ==
    LET taken == IF heap.end = NULL /\ list # << >> /\ InOrder(list) THEN Assigned(list)
                 ELSE << >>
    IN /\ regions' = regions \o taken
       /\ heap' = FoldLeft(AddRegion, heap, taken)
       /\ UNCHANGED client

AssignAtReset ==
    /\ boot = "crt" /\ boot' = "main"
    /\ \E list \in RegionLists : Assign(Relocated(list))

\* dcc_main: refused when the start had regions that could be used.
AssignInMain == boot = "main" /\ boot' = "up" /\ Assign(MainList)

\* The words a client holds, in the order it wrote them.
Held(cl, c) == cl[c].block + META .. cl[c].block + META + cl[c].words - 1

\* A call left heap `h'.  Client c now holds `got' and writes its words from
\* the one numbered `kept' on; what nobody holds any longer is forgotten.
Returned(h, c, got, kept) ==
    LET now   == [client EXCEPT ![c] = got]
        Of(w) == {x \in Handles : w \in Held(now, x)}
    IN /\ client' = now
       /\ heap' = [h EXCEPT !.word = [w \in DOMAIN @ |->
              IF Of(w) = {} THEN Nobody
              ELSE IF c \in Of(w) /\ w - got.block - META >= kept
                   THEN <<c, w - got.block - META>>
                   ELSE @[w]]]
       /\ UNCHANGED <<boot, regions>>

Where == {AnyRegion} \cup ToSet(regions)                        \* the region asked for

\* lwmem_malloc_ex and, with the size multiplied, lwmem_calloc_ex, which clears
\* the words before the client writes them.
Take(c, bytes) ==
    \E rg \in Where :
        LET new == Alloc(heap, rg, bytes)
        IN /\ client[c].block = NULL
           /\ new.block # NULL
           /\ Returned(new.heap, c, [block |-> new.block, words |-> Words(bytes)], 0)

Malloc(c) == \E bytes \in Sizes : Take(c, bytes)
Calloc(c) == \E i \in Items : Take(c, i[1] * i[2])

\* lwmem_realloc_s_ex: when it fails the client keeps what it has.
Resize(c) ==
    \E bytes \in Sizes, rg \in Where :
        LET had == client[c]
            new == Realloc(heap, rg, had.block, bytes)
            kept == IF had.block = NULL THEN 0 ELSE had.words
        IN CASE new.block # NULL ->
                  Returned(new.heap, c, [block |-> new.block, words |-> Words(bytes)], kept)
             [] new.block = NULL /\ bytes = 0 -> Returned(new.heap, c, Nothing, 0)
             [] new.block = NULL /\ bytes > 0 -> Returned(new.heap, c, had, had.words)

\* lwmem_free_s_ex.
Release(c) ==
    /\ client[c].block # NULL
    /\ Returned(Free(heap, client[c].block), c, Nothing, 0)

Client == \E c \in Handles : Malloc(c) \/ Calloc(c) \/ Resize(c) \/ Release(c)

Next == ClearBss \/ AssignAtReset \/ AssignInMain \/ (boot = "up" /\ Client)

Spec == Init /\ [][Next]_vars

-----------------------------------------------------------------------------
(* Properties.                                                              *)

FreeBlocks == DOMAIN heap.list \ {START}
SizeOf(b)  == IF b \in DOMAIN heap.used THEN heap.used[b] ELSE heap.list[b].size
Covers(b)  == b .. b + Max({SizeOf(b), META}) - 1

\* Free blocks, blocks in use and the end block of a region share out its
\* words: none is lost and none belongs to two of them.
Tiled ==
    \A r \in ToSet(regions) : \A w \in Low(r) .. Low(r) + Length(r) - 1 :
        Cardinality({b \in FreeBlocks \cup DOMAIN heap.used : w \in Covers(b)}) = 1

\* The list goes up through all the free blocks to end_block, and two free
\* blocks of a region never touch: there is always room for what fits.
Listed ==
    /\ heap.end # NULL => heap.list[heap.end].next = NULL
    /\ \A b \in DOMAIN heap.list \ {heap.end} : heap.end # NULL =>
          LET next == heap.list[b].next
          IN /\ next \in FreeBlocks /\ next > b
             /\ ~\E c \in FreeBlocks : c > b /\ c < next
             /\ b + heap.list[b].size = next => heap.list[next].size = 0 \/ heap.list[b].size = 0

\* After any calls the blocks tile the regions and the list orders the free
\* ones, whatever was split, merged, moved or resized (prv_insert_free_block, lwmem.c:229).
HeapSound == Tiled /\ Listed

\* The client finds a heap, that of the start or that of dcc_main, when either names
\* a region that can be used: the .bss the lists are judged by is cleared before
\* (crt.s:124).
HeapGiven ==
    boot = "up" /\ InOrder(MainList) /\ Assigned(MainList) # << >> => regions # << >>

\* lwmem.c keeps mem_available_bytes by hand at every split, merge and resize:
\* it is the sum of what is on the list.
Accounted == heap.avail = MapThenSumSet(LAMBDA b : heap.list[b].size, FreeBlocks)

\* lwmem_get_size_ex: the words of block b behind its header, none for a free one.
GetSize(h, b) == IF b \in DOMAIN h.used THEN h.used[b] - META ELSE 0

\* What a client wrote stays, also where prv_realloc moves its block down into
\* the free one before it or copies it elsewhere (lwmem.c:576), and no
\* header is ever written over it.
ContentsKept ==
    \A c \in Handles : client[c].block # NULL =>
        /\ client[c].block \in DOMAIN heap.used
        /\ GetSize(heap, client[c].block) >= client[c].words
        /\ \A w \in Held(client, c) : heap.word[w] = <<c, w - client[c].block - META>>
=============================================================================
