----------------------------- MODULE BumpHeap -----------------------------
(***************************************************************************)
(* The shared heap source of proto (src/include/xheap.h): a bump pointer  *)
(* `_position` and a byte count `_remaining` in a shared page, guarded by  *)
(* a cross-process lock.  Every worker's sub-allocator takes its chunks    *)
(* from it (xmemory's xpheap<xoneheap<xheap>>).  After the bump, outside   *)
(* the lock, malloc records the pages of the block in the owner table      *)
(* (xprotect::setPagesOwner, src/src/xprotect.cpp; pageowner.h).          *)
(*                                                                         *)
(* Addresses and sizes are W-bit words (size_t and char * of the 32-bit    *)
(* build), scaled down: the heap is HeapSize bytes from HeapStart with    *)
(* pages of PageSize bytes.                                                *)
(***************************************************************************)
EXTENDS Integers, FiniteSets

CONSTANTS
    Cores,       \* worker processes
    W,           \* bits of a word
    PageSize,    \* xdefines::PageSize
    HeapStart,   \* xdefines::PHEAP_START_ADDR
    HeapSize,    \* xdefines::PHEAP_SIZE, a multiple of PageSize
    Requests,    \* sizes the sub-allocators ask the heap for
    MaxMallocs,  \* bound on the calls of malloc
    NoCore       \* the lock is free / OWNER_NONE

Word == 2^W

ASSUME /\ HeapSize % PageSize = 0 /\ HeapStart + HeapSize < Word
       /\ Requests \subseteq 1 .. (Word - 1)

TotalPages == HeapSize \div PageSize
Pages == 0 .. (TotalPages - 1)

VARIABLES
    position,    \* *_position
    remaining,   \* *_remaining
    hlock,       \* holder of *_lock
    isProtected, \* xprotect::_isProtected of the heap
    owner,       \* the owner table: pageowner entries of the heap's pages
    hpc,         \* where each core's malloc is
    req,         \* req[c]: the page-rounded size core c asked for
    got,         \* got[c]: the block core c's malloc returns
    blocks,      \* the blocks malloc has returned
    mallocs,     \* calls of malloc so far
    hfatal       \* PRFATAL in malloc

heapVars == <<position, remaining, hlock, isProtected, owner, hpc, req, got,
              blocks, mallocs, hfatal>>

(* xheap::xheap and xprotect::xprotect: position at the start, the whole   *)
(* heap remaining, protection off; the owner table is a fresh MAP_SHARED   *)
(* mapping, so each entry is 0, i.e. owned by core 0.                      *)
HeapInit ==
    /\ position = HeapStart
    /\ remaining = HeapSize
    /\ hlock = NoCore
    /\ isProtected = FALSE
    /\ owner = [p \in Pages |-> 0]
    /\ hpc = [c \in Cores |-> "idle"]
    /\ req = [c \in Cores |-> 0]
    /\ got = [c \in Cores |-> HeapStart]
    /\ blocks = {}
    /\ mallocs = 0
    /\ hfatal = FALSE

(* sz = PageSize * ((sz + PageSize - 1) / PageSize), in size_t.            *)
RoundUp(sz) == (PageSize * (((sz + PageSize - 1) % Word) \div PageSize)) % Word

(* xheap::malloc up to the lock: round the size up to whole pages and      *)
(* take _lock.                                                              *)
MallocLock(c) ==
    /\ hpc[c] = "idle" /\ mallocs < MaxMallocs
    /\ hlock = NoCore
    /\ \E sz \in Requests : req' = [req EXCEPT ![c] = RoundUp(sz)]
    /\ hlock' = c
    /\ hpc' = [hpc EXCEPT ![c] = "bump"]
    /\ mallocs' = mallocs + 1
    /\ UNCHANGED <<position, remaining, isProtected, owner, got, blocks, hfatal>>

(* The exhaustion test of xheap::malloc as written:                         *)
(* `*_remaining == 0 && *_remaining < sz`.                                  *)
Exhausted(sz) == remaining = 0 /\ remaining < sz

(* xheap::malloc under the lock: PRFATAL when exhausted, else p = position, *)
(* remaining -= sz, position += sz (size_t and pointer arithmetic), unlock. *)
MallocBump(c) ==
    /\ hpc[c] = "bump"
    /\ IF Exhausted(req[c])
       THEN /\ hfatal' = TRUE
            /\ UNCHANGED <<position, remaining, hlock, hpc, got>>
       ELSE /\ got' = [got EXCEPT ![c] = position]
            /\ remaining' = (remaining - req[c]) % Word
            /\ position' = (position + req[c]) % Word
            /\ hlock' = NoCore
            /\ hpc' = [hpc EXCEPT ![c] = "owner"]
            /\ UNCHANGED hfatal
    /\ UNCHANGED <<isProtected, owner, req, blocks, mallocs>>

(* The heap pages the block [addr, addr + size) touches: computePage and    *)
(* calcPages of xprotect.  Entries past the table are not modelled.         *)
BlockPages(addr, size) ==
    {p \in Pages : HeapStart + p * PageSize < addr + size
                   /\ addr < HeapStart + (p + 1) * PageSize}

(* pageowner::setPagesOwner / setPagesUnowned: write the entries of ps.    *)
SetPagesOwner(ps, coreid) ==
    owner' = [p \in Pages |-> IF p \in ps THEN coreid ELSE owner[p]]

(* xprotect::setPagesOwner, called by malloc after the unlock: with         *)
(* protection on, the pages become the caller's (and are made RW); without, *)
(* they are set unowned (pageowner::setPagesUnowned).  malloc returns p.    *)
MallocSetOwner(c) ==
    /\ hpc[c] = "owner"
    /\ SetPagesOwner(BlockPages(got[c], req[c]), IF isProtected THEN c ELSE NoCore)
    /\ blocks' = blocks \cup {[addr |-> got[c], size |-> req[c]]}
    /\ hpc' = [hpc EXCEPT ![c] = "idle"]
    /\ UNCHANGED <<position, remaining, hlock, isProtected, req, got, mallocs, hfatal>>

HeapNext ==
    /\ ~hfatal
    /\ \E c \in Cores : MallocLock(c) \/ MallocBump(c) \/ MallocSetOwner(c)

HeapSpec == HeapInit /\ [][HeapNext]_heapVars

----------------------------------------------------------------------------
(* Every block xheap::malloc returns lies inside the heap: the PRFATAL test *)
(* before the bump is there to stop a request the remaining bytes cannot   *)
(* hold (spec.md lists allocation failure among the conditions that        *)
(* abort), so no block reaches past _end.                                  *)
HeapInBounds ==
    \A b \in blocks : b.addr + b.size <= HeapStart + HeapSize
=============================================================================
