----------------------------- MODULE MCTidMap -----------------------------
(* The tid map with two workers and a table of five or six entries: two   *)
(* or three user threads end the first sweep, so the later spawns scan.   *)
EXTENDS TidMap

MCCores == {0, 1}
=============================================================================
