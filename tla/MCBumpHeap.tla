---------------------------- MODULE MCBumpHeap ----------------------------
(* A heap of five 2-byte pages at address 16 in 5-bit words; two workers  *)
(* ask for 3 or 4 bytes, i.e. two pages, so the heap runs out with one     *)
(* page left over.                                                         *)
EXTENDS BumpHeap

MCCores == {0, 1}
MCRequests == {3, 4}
=============================================================================
