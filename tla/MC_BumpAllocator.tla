------------------------- MODULE MC_BumpAllocator -------------------------
(* wasm32 scaled down: 8-bit size_t, 32-byte pages, a host that lets      *)
(* memory grow over the whole address space (8 pages), so that            *)
(* last_ptr + sz can wrap and next_page << 16 can reach 2^Width.           *)
EXTENDS BumpAllocator

MCHeapBases == {13, 60}
MCSizes == {1, 9, 40, 200}
MCCounts == {2}
=============================================================================
