-------------------------- MODULE MCIntrusiveList --------------------------
(* Three TCBs, the three kinds of list head and a broadcaster's local head. *)
EXTENDS IntrusiveList

CONSTANTS n1, n2, n3

MCNodes == {n1, n2, n3}
=============================================================================
