--------------------------- MODULE BumpAllocator ---------------------------
(***************************************************************************)
(* The bump allocator of ftllib (src/libraries/ftllib/src/malloc.cpp): the *)
(* global object ftl::_dsmalloc and the C entry points malloc, calloc,     *)
(* realloc and free built on it.  One contract call runs in one fresh WASM *)
(* instance: the FtlFixup pass inserts __wasm_call_ctors at the entry of   *)
(* apply, so the constructor dsmalloc() runs once per call, and the        *)
(* instance (its linear memory included) is discarded when the call ends   *)
(* or aborts.                                                              *)
(*                                                                         *)
(* size_t and pointers are 32 bits wide in wasm32; here they are Width     *)
(* bits and every size_t operation is taken modulo 2^Width.  A WASM page   *)
(* (64 KiB, the code's "<< 16" and ">> 16") is PageSize bytes.             *)
(***************************************************************************)
EXTENDS Integers, Sequences, FiniteSets

CONSTANTS
    Width,      \* bits of size_t and of a pointer (32 in wasm32)
    PageSize,   \* bytes per WASM page (2^16 in the code)
    MaxPages,   \* pages the host lets the linear memory grow to
    InitPages,  \* __builtin_wasm_current_memory() when the constructor runs
    HeapBases,  \* values the linker may store at address 0 (__heap_base)
    Sizes,      \* byte counts passed to malloc / realloc / calloc
    Counts,     \* element counts passed to calloc
    Aligns,     \* align_amt passed to dsmalloc::operator() (malloc uses 8)
    MaxAllocs   \* bound on allocations per call

Mod == 2^Width
NULL == 0

ASSUME /\ Width \in Nat \ {0}
       /\ PageSize \in Nat \ {0} /\ Mod % PageSize = 0
       /\ MaxPages \in 1..(Mod \div PageSize)
       /\ InitPages \in 1..MaxPages
       /\ HeapBases \subseteq 1..(InitPages * PageSize - 1)
       /\ Sizes \subseteq 0..(Mod - 1) /\ Counts \subseteq 0..(Mod - 1)
       /\ \A a \in Aligns : \E k \in 0..Width : a = 2^k
       /\ MaxAllocs \in Nat

VARIABLES
    heap,       \* dsmalloc::heap
    last_ptr,   \* dsmalloc::last_ptr, the next address handed out
    next_page,  \* dsmalloc::next_page, pages the allocator believes exist
    memory,     \* pages of linear memory the host has granted
    status,     \* "running", or "aborted" once ftl::check has failed
    blocks      \* every non-NULL block returned in this call, in order

vars == <<heap, last_ptr, next_page, memory, status, blocks>>

(* A returned block: its address, the size_t byte count the allocator was *)
(* given, the byte count the caller asked for (they differ only when       *)
(* calloc's count * size wraps), the alignment asked for, what the caller  *)
(* stored in it, the block it was realloc'ed from (0: none), and whether   *)
(* the caller still uses it.                                               *)
Block == [start : 0..(Mod - 1), size : 1..(Mod - 1), req : Nat,
          align : Aligns, data : {"zero", "data"}, src : 0..MaxAllocs,
          live : BOOLEAN]

(***************************************************************************)
(* Mutant forms of the definitions below, each a plausible slip in the     *)
(* code.                                                                   *)
(***************************************************************************)
AlignUpNoMask(x, a) == (x + a - 1) % Mod
AlignUpWide(x, a) == LET y == x + a - 1 IN y - (y % a)
AlignUpNoRound(x, a) == x - (x % a)
PageAddrWide(n) == n * PageSize

(* dsmalloc::align: (ptr + align_amt - 1) & ~(align_amt - 1) on size_t;   *)
(* for a power-of-two align_amt the mask clears the low bits, y - y % a.   *)
AlignUp(x, a) == LET y == (x + a - 1) % Mod IN y - (y % a)

(* next_page << 16, a size_t shift: it wraps to 0 at 2^Width.             *)
PageAddr(n) == (n * PageSize) % Mod

(* The arithmetic of dsmalloc::operator() for sz > 0: the block starts at  *)
(* last_ptr, last_ptr moves to align(last_ptr + sz), sz >> 16 pages are    *)
(* added, and one more when the page end does not lie past last_ptr.       *)
Bump(sz, a) ==
    LET lp    == AlignUp((last_ptr + sz) % Mod, a)
        np    == (next_page + sz \div PageSize) % Mod
        extra == IF PageAddr(np) <= lp THEN 1 ELSE 0
    IN [ret |-> last_ptr, last_ptr |-> lp,
        next_page |-> (np + extra) % Mod, pages |-> sz \div PageSize + extra]

(* dsmalloc::dsmalloc(), run by __wasm_call_ctors at the entry of apply,   *)
(* in a fresh instance whose memory has InitPages pages.                   *)
Init ==
    /\ \E hb \in HeapBases : heap = AlignUp(hb, 8)
    /\ last_ptr = heap
    /\ next_page = InitPages
    /\ memory = InitPages
    /\ status = "running"
    /\ blocks = <<>>

(* dsmalloc::operator()(sz, a) with sz > 0, recording the block for a      *)
(* caller that asked for req bytes; realloc passes the block it replaces   *)
(* as src.  GROW_MEMORY fails when the host refuses to go past MaxPages,   *)
(* and ftl::check then aborts the call.                                    *)
Allocate(sz, a, req, src) ==
    LET b == Bump(sz, a) IN
    /\ last_ptr' = b.last_ptr
    /\ next_page' = b.next_page
    /\ IF memory + b.pages <= MaxPages
          THEN /\ memory' = memory + b.pages
               /\ blocks' = Append(blocks,
                     [start |-> b.ret, size |-> sz, req |-> req, align |-> a,
                      data |-> "zero", src |-> src, live |-> TRUE])
               /\ UNCHANGED status
          ELSE /\ status' = "aborted"
               /\ UNCHANGED <<memory, blocks>>
    /\ UNCHANGED heap

CanCall == status = "running" /\ Len(blocks) < MaxAllocs

(* malloc(size) and dsmalloc::operator()(sz, a): sz = 0 returns NULL and   *)
(* changes nothing, so only sz > 0 is a step.                              *)
Malloc(sz, a) ==
    /\ CanCall /\ sz > 0
    /\ Allocate(sz, a, sz, 0)

(* calloc(count, size): _dsmalloc(count * size) with a size_t product,    *)
(* then memset of the block (fresh memory is already zero).               *)
Calloc(count, size) ==
    /\ CanCall /\ (count * size) % Mod > 0
    /\ Allocate((count * size) % Mod, 8, count * size, 0)

(* realloc(ptr, size): returns _dsmalloc(size) and copies nothing.         *)
Realloc(i, size) ==
    /\ CanCall /\ size > 0 /\ blocks[i].live
    /\ Allocate(size, 8, size, i)

(* free(ptr) is empty: the caller stops using the block, nothing else.     *)
Free(i) ==
    /\ status = "running" /\ blocks[i].live
    /\ blocks' = [blocks EXCEPT ![i].live = FALSE]
    /\ UNCHANGED <<heap, last_ptr, next_page, memory, status>>

(* The caller writes into a block it holds.                                *)
Write(i) ==
    /\ status = "running" /\ blocks[i].live /\ blocks[i].data = "zero"
    /\ blocks' = [blocks EXCEPT ![i].data = "data"]
    /\ UNCHANGED <<heap, last_ptr, next_page, memory, status>>

(* The call returns or aborts; the next call gets a fresh instance.        *)
NextCall ==
    /\ \E hb \in HeapBases : heap' = AlignUp(hb, 8)
    /\ last_ptr' = heap'
    /\ next_page' = InitPages
    /\ memory' = InitPages
    /\ status' = "running"
    /\ blocks' = <<>>

Next ==
    \/ \E sz \in Sizes, a \in Aligns : Malloc(sz, a)
    \/ \E c \in Counts, s \in Sizes : Calloc(c, s)
    \/ \E i \in DOMAIN blocks, s \in Sizes :
          Realloc(i, s) \/ Free(i) \/ Write(i)
    \/ NextCall

Spec == Init /\ [][Next]_vars

(***************************************************************************)
(* Properties                                                              *)
(***************************************************************************)

TypeOK ==
    /\ heap \in 0..(Mod - 1) /\ last_ptr \in 0..(Mod - 1)
    /\ next_page \in 0..(Mod - 1) /\ memory \in 1..MaxPages
    /\ status \in {"running", "aborted"}
    /\ blocks \in Seq(Block)

(* No two blocks handed out in one call overlap (operator() never reuses   *)
(* memory).  Breaking it needs last_ptr + sz to wrap past 2^Width without  *)
(* GROW_MEMORY failing.                                                    *)
BlocksDisjoint ==
    \A i, j \in DOMAIN blocks :
        i < j => blocks[i].start + blocks[i].size <= blocks[j].start

(* While the call runs, every block lies in linear memory the host has     *)
(* granted and above the heap base: the page arithmetic of operator()      *)
(* (sz >> 16 pages plus one when next_page << 16 <= last_ptr) grows        *)
(* memory far enough for every request it does not abort.                  *)
BlocksInMemory ==
    status = "running" =>
        \A i \in DOMAIN blocks :
            /\ heap <= blocks[i].start
            /\ blocks[i].start + blocks[i].size <= memory * PageSize

(* Every returned pointer satisfies the alignment its caller asked for     *)
(* (spec section 8: "each returned pointer satisfies its requested         *)
(* alignment").                                                            *)
RequestedAlignment ==
    \A i \in DOMAIN blocks : blocks[i].start % blocks[i].align = 0
=============================================================================
