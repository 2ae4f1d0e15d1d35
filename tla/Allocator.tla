----------------------------- MODULE Allocator -----------------------------
(***************************************************************************)
(* proto's memory-allocation entry points (src/src/libproto.cpp:           *)
(* proto_malloc, proto_calloc, proto_free, proto_realloc) and the path     *)
(* they take: before libproto's initializer has run, and again after its   *)
(* finalizer, a bump allocator over a static buffer (mytempmalloc); in     *)
(* between xrun::malloc / free / realloc (src/xrun.h) on the heap of the   *)
(* calling worker (heapid = core id), through xmemory (src/include/        *)
(* xmemory.h) and xpheap's PerProcessHeap, whose per-core heaps prefix     *)
(* every object with an objectHeader (NewSourceHeap, src/include/xpheap.h; *)
(* src/objectheader.h) and carve fresh objects from the shared heap xheap. *)
(*                                                                         *)
(* The per-core heaps are Heap Layers' Kingsley segregated-fits heap,      *)
(* which is not part of the repository: a size class is the next power of  *)
(* two, a freed object goes on its class's singly linked free list (its    *)
(* first word becomes the link) and a malloc takes the list's head or       *)
(* carves class + header words from the shared heap.                       *)
(*                                                                         *)
(* Memory is a function from word addresses to what a word holds: zeroes, *)
(* a block's data (tagged with the block), an object header or a free-list *)
(* link.  Each call is one step of the calling core: the per-core heaps    *)
(* are only touched by their own worker, which runs one thread at a time,  *)
(* and the shared heap's bump is made under its lock.                       *)
(***************************************************************************)
EXTENDS Integers, Sequences, FiniteSets

CONSTANTS
    Cores,       \* worker processes; heapid = coreid
    TempWords,   \* INITIAL_MALLOC_SIZE, the static buffer, in words
    HeapWords,   \* the part of the shared heap the run can carve
    Sizes,       \* request sizes the program passes, in words
    MaxCalls     \* bound on the allocation calls the program makes

ASSUME Sizes \subseteq 1 .. 4 /\ TempWords \in Nat /\ HeapWords \in Nat

HeapBase == TempWords
Addrs == 0 .. (TempWords + HeapWords - 1)

(* What a word holds.                                                      *)
Zero == [t |-> "data", v |-> 0]
Data(tag) == [t |-> "data", v |-> tag]
Hdr(k) == [t |-> "hdr", v |-> k]
Link == [t |-> "link", v |-> 0]

(* Kingsley size2Class / class2Size: the next power of two.                *)
Classes == {1, 2, 4}
Class(sz) == CHOOSE k \in Classes : k >= sz /\ \A j \in Classes : j >= sz => k <= j

VARIABLES
    phase,       \* "pre" before libproto's initializer, "boot" inside it, "init" while
                 \* initialized, "fin" after the finalizer
    tempnext,    \* libproto's tempmalloc, as an offset into tempbuf
    remainning,  \* libproto's remainning
    mem,         \* mem[a]: the word at address a
    bump,        \* the shared heap's _position
    freel,       \* freel[c][k]: the free list of class k of core c's heap, head first
    live,        \* blocks the program holds: [p, sz, tag, keep, kind]
    calls,       \* allocation calls made so far; also the next block's tag
    exited       \* mytempmalloc ran out of tempbuf and called exit(-1)

allocVars == <<phase, tempnext, remainning, mem, bump, freel, live, calls, exited>>

initialized == phase = "init"

(* xpheap's constructor places an empty PerProcessHeap (every class's free *)
(* list empty) in shared memory; xheap's bump starts at the heap's base.  *)
HeapsEmpty ==
    /\ bump = HeapBase
    /\ freel = [c \in Cores |-> [k \in Classes |-> <<>>]]

AllocInit ==
    /\ phase = "pre"
    /\ tempnext = 0
    /\ remainning = 0
    /\ mem = [a \in Addrs |-> Zero]
    /\ HeapsEmpty
    /\ live = {}
    /\ calls = 0
    /\ exited = FALSE

(* The program fills the first n words of the block at p with its tag.     *)
Fill(m, p, n, tag) == [a \in DOMAIN m |-> IF p <= a /\ a < p + n THEN Data(tag) ELSE m[a]]

(* memcpy(newptr, ptr, n).                                                 *)
Copy(m, dst, src, n) == [a \in DOMAIN m |-> IF dst <= a /\ a < dst + n THEN m[src + (a - dst)] ELSE m[a]]

(* NewSourceHeap::getSize: the objectHeader before the pointer; a word     *)
(* that is no header fails the MAGIC check.  -1 stands for the abort.      *)
GetSize(m, p) == IF m[p - 1].t = "hdr" THEN m[p - 1].v ELSE -1

(* xmemory::malloc(heapid, sz) -> xpheap -> PerProcessHeap::malloc(ind):   *)
(* the head of the class's free list, or a fresh object carved from the    *)
(* shared heap with its objectHeader(class size) in front.  Returns the    *)
(* pointer with the new memory, free lists and bump.                       *)
HeapMalloc(c, sz) ==
    LET k == Class(sz) IN
    IF freel[c][k] # <<>>
    THEN [p |-> Head(freel[c][k]), mem |-> mem, bump |-> bump,
          freel |-> [freel EXCEPT ![c][k] = Tail(@)]]
    ELSE [p |-> bump + 1, mem |-> [mem EXCEPT ![bump] = Hdr(k)], bump |-> bump + k + 1,
          freel |-> freel]

(* xmemory::free(heapid, ptr) -> PerProcessHeap::free(ind): the object     *)
(* goes on the free list of the class its header names, of the heap of the *)
(* core that frees it; its first word becomes the link.                    *)
HeapFree(c, p, m, fl) ==
    LET k == GetSize(m, p) IN
    [mem |-> [m EXCEPT ![p] = Link], freel |-> [fl EXCEPT ![c][k] = <<p>> \o @]]

(* xmemory::free(heapid, ptr): if (ptr) pass it to the heap; free(NULL)   *)
(* changes nothing.  NULL is no address of the model.                      *)
NULL == -1
XmemoryFree(c, p, m, fl) ==
    IF p = NULL THEN [mem |-> m, freel |-> fl] ELSE HeapFree(c, p, m, fl)

(* The class's free list has an object, or the shared heap room for one.  *)
Room(c, sz) == freel[c][Class(sz)] # <<>> \/ bump + Class(sz) + 1 <= TempWords + HeapWords

NewBlock(p, sz, tag, keep, kind) == [p |-> p, sz |-> sz, tag |-> tag, keep |-> keep, kind |-> kind]

(* The NULL pointer a program may pass to free.                            *)
NullBlock == NewBlock(NULL, 0, 0, 0, "null")

Call == /\ ~exited /\ calls < MaxCalls /\ calls' = calls + 1

(* A mytempmalloc that hands out tempbuf without checking what remains.    *)
TempMallocNoCheck(sz, tag, zeroed) ==
    /\ tempnext' = tempnext + sz
    /\ remainning' = remainning - sz
    /\ mem' = IF zeroed THEN mem ELSE Fill(mem, tempnext, sz, tag)
    /\ live' = live \cup {NewBlock(tempnext, sz, IF zeroed THEN 0 ELSE tag, sz, "temp")}
    /\ UNCHANGED exited

(* mytempmalloc: exit(-1) when the buffer cannot hold the request, else    *)
(* bump tempmalloc.  Blocks from tempbuf carry no objectHeader.            *)
TempMalloc(sz, tag, zeroed) ==
    IF remainning < sz
    THEN exited' = TRUE /\ UNCHANGED <<tempnext, remainning, mem, live>>
    ELSE /\ tempnext' = tempnext + sz
         /\ remainning' = remainning - sz
         /\ mem' = IF zeroed THEN mem ELSE Fill(mem, tempnext, sz, tag)
         /\ live' = live \cup {NewBlock(tempnext, sz, IF zeroed THEN 0 ELSE tag, sz, "temp")}
         /\ UNCHANGED exited

(* proto_malloc (the program then writes the block): mytempmalloc while    *)
(* not initialized, else xrun::malloc on the caller's heap.  NULL aborts.  *)
ProtoMalloc(c, sz) ==
    /\ Call
    /\ IF ~initialized
       THEN TempMalloc(sz, calls', FALSE) /\ UNCHANGED <<bump, freel>>
       ELSE /\ Room(c, sz)
            /\ LET r == HeapMalloc(c, sz) IN
                 /\ mem' = Fill(r.mem, r.p, sz, calls')
                 /\ bump' = r.bump /\ freel' = r.freel
                 /\ live' = live \cup {NewBlock(r.p, sz, calls', sz, "heap")}
            /\ UNCHANGED <<tempnext, remainning, exited>>
    /\ UNCHANGED phase

(* A proto_calloc that leaves the memset out.                            *)
ProtoCallocNoMemset(c, sz) ==
    /\ Call
    /\ IF ~initialized
       THEN TempMalloc(sz, calls', TRUE) /\ UNCHANGED <<bump, freel>>
       ELSE /\ Room(c, sz)
            /\ LET r == HeapMalloc(c, sz) IN
                 /\ mem' = r.mem
                 /\ bump' = r.bump /\ freel' = r.freel
                 /\ live' = live \cup {NewBlock(r.p, sz, 0, sz, "heap")}
            /\ UNCHANGED <<tempnext, remainning, exited>>
    /\ UNCHANGED phase

(* proto_calloc(1, sz): proto_malloc, then memset to zero when            *)
(* initialized; tempbuf is static, zero and never reused, so it is left.   *)
ProtoCalloc(c, sz) ==
    /\ Call
    /\ IF ~initialized
       THEN TempMalloc(sz, calls', TRUE) /\ UNCHANGED <<bump, freel>>
       ELSE /\ Room(c, sz)
            /\ LET r == HeapMalloc(c, sz) IN
                 /\ mem' = Fill(r.mem, r.p, sz, 0)
                 /\ bump' = r.bump /\ freel' = r.freel
                 /\ live' = live \cup {NewBlock(r.p, sz, 0, sz, "heap")}
            /\ UNCHANGED <<tempnext, remainning, exited>>
    /\ UNCHANGED phase

(* proto_free: xrun::free on the caller's heap when initialized; before    *)
(* the initializer and after the finalizer the block is dropped.  The      *)
(* program frees only heap blocks, or NULL, while initialized.             *)
ProtoFree(c, b) ==
    /\ Call
    /\ initialized => b.kind \in {"heap", "null"}
    /\ live' = live \ {b}
    /\ IF initialized
       THEN LET r == XmemoryFree(c, b.p, mem, freel) IN mem' = r.mem /\ freel' = r.freel
       ELSE UNCHANGED <<mem, freel>>
    /\ UNCHANGED <<phase, tempnext, remainning, bump, exited>>

(* An xrun::realloc that copies the whole old object, not min(s, sz).     *)
XreallocCopyAll(c, b, sz) ==
    LET s == GetSize(mem, b.p)
        r == HeapMalloc(c, sz)
        f == HeapFree(c, b.p, Copy(r.mem, r.p, b.p, s), r.freel)
    IN /\ s > 0 /\ Room(c, sz)
       /\ mem' = f.mem /\ freel' = f.freel /\ bump' = r.bump
       /\ live' = (live \ {b}) \cup
                  {NewBlock(r.p, sz, b.tag, IF b.keep < sz THEN b.keep ELSE sz, "heap")}

(* xrun::realloc(ptr, sz) for a live block and sz > 0: s = getSize(ptr)    *)
(* (PRFATAL on 0), newptr = malloc(sz), memcpy min(s, sz) bytes, free(ptr). *)
Xrealloc(c, b, sz) ==
    LET s == GetSize(mem, b.p)
        r == HeapMalloc(c, sz)
        n == IF s < sz THEN s ELSE sz
        f == HeapFree(c, b.p, Copy(r.mem, r.p, b.p, n), r.freel)
    IN /\ s > 0 /\ Room(c, sz)
       /\ mem' = f.mem /\ freel' = f.freel /\ bump' = r.bump
       /\ live' = (live \ {b}) \cup
                  {NewBlock(r.p, sz, b.tag, IF b.keep < sz THEN b.keep ELSE sz, "heap")}

(* proto_realloc -> xrun::realloc, called while initialized on a heap      *)
(* block: sz == 0 frees it and returns NULL; otherwise move it.  A NULL    *)
(* ptr is a malloc (ProtoMalloc's heap branch).                            *)
ProtoRealloc(c, b, sz) ==
    /\ Call
    /\ initialized /\ b.kind = "heap"
    /\ IF sz = 0
       THEN /\ live' = live \ {b}
            /\ LET r == XmemoryFree(c, b.p, mem, freel) IN mem' = r.mem /\ freel' = r.freel
            /\ UNCHANGED bump
       ELSE Xrealloc(c, b, sz)
    /\ UNCHANGED <<phase, tempnext, remainning, exited>>

(* proto_malloc_usable_size: 0 while not initialized, else xrun::getSize  *)
(* -> xmemory -> xpheap -> NewSourceHeap::getSize, which aborts on a size  *)
(* of 0 or a word that is no objectHeader.  Asked while initialized of     *)
(* heap blocks only; nothing changes unless it aborts.                     *)
ProtoMallocUsableSize(c, b) ==
    /\ Call
    /\ initialized => b.kind = "heap"
    /\ IF initialized /\ GetSize(mem, b.p) <= 0
       THEN exited' = TRUE
       ELSE UNCHANGED exited
    /\ UNCHANGED <<phase, tempnext, remainning, mem, bump, freel, live>>

(* libproto's initializer, first half: tempmalloc = tempbuf and           *)
(* remainning = INITIAL_MALLOC_SIZE.  Until then remainning is 0 and every *)
(* mytempmalloc exits.  init_real_functions and xrun::initialize, which     *)
(* run next, still allocate from tempbuf.                                  *)
InitTempBuf ==
    /\ phase = "pre" /\ ~exited
    /\ phase' = "boot" /\ tempnext' = 0 /\ remainning' = TempWords
    /\ UNCHANGED <<mem, bump, freel, live, calls, exited>>

(* The initializer's last step: initialized = true.                        *)
InitDone ==
    /\ phase = "boot" /\ ~exited
    /\ phase' = "init"
    /\ UNCHANGED <<tempnext, remainning, mem, bump, freel, live, calls, exited>>

(* libproto's finalizer: initialized = false, then xrun::finalize.  Later  *)
(* calls of the other destructors take the tempbuf path again.             *)
Finalizer ==
    /\ initialized
    /\ phase' = "fin"
    /\ UNCHANGED <<tempnext, remainning, mem, bump, freel, live, calls, exited>>

(* The process has exited, or the program made all the calls of the run.   *)
Stopped == exited \/ calls = MaxCalls

AllocNext ==
    \/ Stopped /\ UNCHANGED allocVars
    \/ InitTempBuf \/ InitDone \/ Finalizer
    \/ \E c \in Cores, sz \in Sizes : ProtoMalloc(c, sz) \/ ProtoCalloc(c, sz)
    \/ \E c \in Cores, b \in live \cup {NullBlock} : ProtoFree(c, b)
    \/ \E c \in Cores, b \in live : ProtoMallocUsableSize(c, b)
    \/ \E c \in Cores, b \in live, sz \in Sizes \cup {0} : ProtoRealloc(c, b, sz)

AllocSpec == AllocInit /\ [][AllocNext]_allocVars

----------------------------------------------------------------------------
(* The type invariant.                                                     *)
AllocTypeOK ==
    /\ phase \in {"pre", "boot", "init", "fin"}
    /\ tempnext \in 0 .. TempWords /\ remainning \in 0 .. TempWords
    /\ mem \in [Addrs -> {Zero, Link} \cup {Data(i) : i \in 1 .. MaxCalls}
                         \cup {Hdr(k) : k \in Classes}]
    /\ bump \in HeapBase .. (TempWords + HeapWords)
    /\ freel \in [Cores -> [Classes -> Seq(Addrs)]]
    /\ calls \in 0 .. MaxCalls /\ exited \in BOOLEAN

(* Every block the program holds still has what was put in it: the data   *)
(* it wrote, zeroes from calloc, or, after realloc, the first min(old, new) *)
(* words of the block it came from.  Breaking it takes two blocks sharing  *)
(* memory (a heap object handed out twice, a free list fed the wrong       *)
(* class, a tempbuf block reused), or a realloc or calloc that copies or   *)
(* clears the wrong words, a free on another core's heap included.         *)
BlocksIntact ==
    \A b \in live : \A i \in 0 .. (b.keep - 1) : mem[b.p + i] = Data(b.tag)

(* malloc_usable_size and realloc read a live heap block's objectHeader:   *)
(* it is still there and covers the request (the assert of                 *)
(* NewSourceHeap::malloc, getSize's MAGIC check and its PRFATAL on 0).     *)
HeadersIntact ==
    \A b \in live : b.kind = "heap" => GetSize(mem, b.p) >= b.sz
=============================================================================
