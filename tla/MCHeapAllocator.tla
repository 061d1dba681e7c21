-------------------------- MODULE MCHeapAllocator --------------------------
(***************************************************************************)
(* HeapAllocator on small heaps.  The payloads of MCRequests fall below,   *)
(* on and above the limits the code compares with: the 8-byte minimum, a   *)
(* class bound, the 64-byte bin limit and, for differences of two of them, *)
(* the 24-byte split limit.                                                *)
(***************************************************************************)
EXTENDS HeapAllocator

MCRequests == {3, 40, 60, 72}
============================================================================
