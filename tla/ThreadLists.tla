---------------------------- MODULE ThreadLists ----------------------------
(***************************************************************************)
(* What proto's thread lists promise (the run queues of xqueue, the wait  *)
(* lists of xmutex, xcondvar and xbarr, a TCB's joinqueue): each list is a *)
(* sequence of threads, and a thread is in at most one list, since every   *)
(* list links a TCB through its one `toqueue` node.  Stack is the local    *)
(* list head a broadcast or a barrier release moves the waiters onto       *)
(* before it appends them to a run queue.                                  *)
(***************************************************************************)
EXTENDS Sequences

CONSTANTS Nodes, Heads, Stack

VARIABLE lists

AllHeads == Heads \cup {Stack}

(* n is in one of the lists.                                               *)
InSomeList(n) == \E h \in AllHeads : \E i \in DOMAIN lists[h] : lists[h][i] = n

ListsInit == lists = [h \in AllHeads |-> <<>>]

(* Append an unlinked thread, or put it in front.                          *)
AddTail(n, h) ==
    /\ ~InSomeList(n)
    /\ lists' = [lists EXCEPT ![h] = Append(@, n)]
AddHead(n, h) ==
    /\ ~InSomeList(n)
    /\ lists' = [lists EXCEPT ![h] = <<n>> \o @]

(* Take the first thread off a non-empty list.                             *)
TakeFirst(h) ==
    /\ lists[h] # <<>>
    /\ lists' = [lists EXCEPT ![h] = Tail(@)]

(* Move a whole non-empty list onto the free local head ...                *)
MoveOut(h) ==
    /\ lists[h] # <<>> /\ lists[Stack] = <<>>
    /\ lists' = [lists EXCEPT ![Stack] = lists[h], ![h] = <<>>]

(* ... and append it to a list.                                            *)
MoveIn(h) ==
    /\ lists[Stack] # <<>>
    /\ lists' = [lists EXCEPT ![h] = @ \o lists[Stack], ![Stack] = <<>>]

ListsNext ==
    \/ \E n \in Nodes, h \in Heads : AddTail(n, h) \/ AddHead(n, h)
    \/ \E h \in Heads : TakeFirst(h) \/ MoveOut(h) \/ MoveIn(h)

ListsSpec == ListsInit /\ [][ListsNext]_lists
=============================================================================
