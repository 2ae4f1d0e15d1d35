---------------------------- MODULE MCAllocator ----------------------------
(* Two workers, a four-word tempbuf and sixteen words of shared heap: room  *)
(* for the tempbuf to run out and for objects of every class to be carved,  *)
(* freed on either core's heap and handed out again.                       *)
EXTENDS Allocator

MCCores == {0, 1}
============================================================================
