--------------------------- MODULE IntrusiveList ---------------------------
(***************************************************************************)
(* The circular doubly-linked lists of src/include/list.h at the level of *)
(* their pointers, as proto uses them: a run queue (xqueue, src/xqueue.h), *)
(* a wait list (condvar, mutex or barrier) and a joinqueue, whose entries  *)
(* are the `toqueue` nodes of the TCBs, plus the local `struct lnode head` *)
(* that condBroadcast (src/include/xcondvar.h) and barrWait (src/xbarr.h)  *)
(* move the waiters onto before enqueueAllList appends them to the run     *)
(* queue.  Every call below runs under the lock of the list it touches, so *)
(* it is one atomic step; a broadcast or release is two, with the wait     *)
(* list's lock dropped in between.                                         *)
(*                                                                         *)
(* The pointers are a function mem from the nodes to their next and prev  *)
(* fields.  Each list.h routine is a function from mem to mem that applies *)
(* its assignments in the code's order, so aliasing (an empty list, a head *)
(* that is its own neighbour) is handled as the code handles it.           *)
(***************************************************************************)
EXTENDS Integers, Sequences, FiniteSets

CONSTANTS
    Nodes,      \* the `toqueue` nodes of the TCBs
    RunQ,       \* an xqueue's `queue` head
    WaitQ,      \* a condvar's, mutex's or barrier's `waitlist` head
    JoinQ,      \* a TCB's `joinqueue` head
    Stack       \* the local `head` of condBroadcast / barrWait

Heads == {RunQ, WaitQ, JoinQ}
Cells == Nodes \cup Heads \cup {Stack}

VARIABLES
    mem,        \* mem[x]: the next and prev fields of node x
    detached    \* Stack holds waiters not yet handed to enqueueAllList

listVars == <<mem, detached>>

(* nodeInit: node->next = node->prev = node.                               *)
NodeInit(m, x) == [m EXCEPT ![x] = [next |-> x, prev |-> x]]

(* isListEmpty: head->next == head.                                        *)
IsListEmpty(m, h) == m[h].next = h

(* __list_link: p->next = n; n->prev = p.                                  *)
ListLink(m, p, n) == [[m EXCEPT ![p].next = n] EXCEPT ![n].prev = p]

(* An __insert_between that never sets next->prev.                         *)
InsertBetweenNoBack(m, node, p, n) ==
    [[m EXCEPT ![node] = [next |-> n, prev |-> p]] EXCEPT ![p].next = node]

(* __insert_between: node->next = next; node->prev = prev;                *)
(* prev->next = node; next->prev = node.                                   *)
InsertBetween(m, node, p, n) ==
    [[[m EXCEPT ![node] = [next |-> n, prev |-> p]]
         EXCEPT ![p].next = node]
         EXCEPT ![n].prev = node]

(* listInsertTail / listInsertHead.                                        *)
InsertTail(m, node, h) == InsertBetween(m, node, m[h].prev, h)
InsertHead(m, node, h) == InsertBetween(m, node, h, m[h].next)

(* listInsertListTail with its two links in the other order.               *)
InsertListTailSwapped(m, l, w) ==
    LET m1 == ListLink(m, m[l].prev, w) IN ListLink(m1, m1[w].prev, m1[l].next)

(* listInsertListTail: link where->prev to list->next, then list->prev to  *)
(* where; the node `list` itself is left out and left as it is.            *)
InsertListTail(m, l, w) ==
    LET m1 == ListLink(m, m[w].prev, m[l].next) IN ListLink(m1, m1[l].prev, w)

(* listRemoveNode: unlink the node and re-initialise it.                   *)
RemoveNode(m, x) == NodeInit(ListLink(m, m[x].prev, m[x].next), x)

(* listRetrieveAllItems: the first and last nodes of src now point to dest,*)
(* dest to them, and src is re-initialised.                                *)
RetrieveAllItems(m, dest, src) ==
    LET first == m[src].next
        last  == m[src].prev
        m1 == [[m EXCEPT ![first].prev = dest] EXCEPT ![last].next = dest]
    IN NodeInit([m1 EXCEPT ![dest] = [next |-> first, prev |-> last]], src)

(* The nodes reached from x by next pointers before `stop`, at most k.     *)
RECURSIVE Walk(_, _, _)
Walk(x, stop, k) ==
    IF x = stop \/ k = 0 THEN <<>> ELSE <<x>> \o Walk(mem[x].next, stop, k - 1)

(* The list a head stands for: its ring.  For the local head, what         *)
(* enqueueAllList will splice in: head.next through head.prev.             *)
Ring(h) == Walk(mem[h].next, h, Cardinality(Cells))
Chain == IF ~detached THEN <<>>
         ELSE Walk(mem[Stack].next, mem[mem[Stack].prev].next, Cardinality(Cells))

absLists == [h \in Heads \cup {Stack} |-> IF h = Stack THEN Chain ELSE Ring(h)]

Abs == INSTANCE ThreadLists WITH lists <- absLists

(* The xthread, xqueue and lock constructors initialise every node and    *)
(* head (nodeInit, listInit).  The local head is uninitialised stack.      *)
ListInit ==
    /\ \E sn, sp \in Cells :
         mem = [x \in Cells |-> IF x = Stack THEN [next |-> sn, prev |-> sp]
                                ELSE [next |-> x, prev |-> x]]
    /\ detached = FALSE

(* xqueue::enqueue, and enqueueWaitlist of xmutex, xcondvar and xbarr:     *)
(* listInsertTail of a thread that is in no list.                          *)
Enqueue(n, h) ==
    /\ ~Abs!InSomeList(n)
    /\ mem' = InsertTail(mem, n, h)
    /\ UNCHANGED detached

(* xthread::putJoineeQueue: listInsertHead into the joinee's joinqueue.   *)
PutJoineeQueue(n) ==
    /\ ~Abs!InSomeList(n)
    /\ mem' = InsertHead(mem, n, JoinQ)
    /\ UNCHANGED detached

(* xqueue::dequeue (and listRetrieveItem): when the list has work, remove *)
(* queue.next; dequeueWaitlist and getJoiner, called when a waiter or a   *)
(* joiner is known to be there, remove head.next the same way.            *)
Dequeue(h) ==
    /\ ~IsListEmpty(mem, h)
    /\ mem' = RemoveNode(mem, mem[h].next)
    /\ UNCHANGED detached

(* A condBroadcast that leaves the wait list as it was.                    *)
CondBroadcastNoInit(h) ==
    /\ ~IsListEmpty(mem, h) /\ ~detached
    /\ mem' = [mem EXCEPT ![Stack] = [next |-> mem[h].next, prev |-> mem[h].prev]]
    /\ detached' = TRUE

(* xcondvar::condBroadcast under the lock, when hasWaiters: head.prev =   *)
(* waitlist.prev, head.next = waitlist.next, listInit(&waitlist).  The    *)
(* first and last waiters keep pointing to the wait list.                 *)
CondBroadcast(h) ==
    /\ ~IsListEmpty(mem, h) /\ ~detached
    /\ mem' = NodeInit([mem EXCEPT ![Stack] = [next |-> mem[h].next, prev |-> mem[h].prev]], h)
    /\ detached' = TRUE

(* xbarr::barrWait of the last arriver (maxthreads > 1, so the others are  *)
(* in the wait list): listRetrieveAllItems(&head, &waitlist).             *)
BarrierRelease(h) ==
    /\ ~IsListEmpty(mem, h) /\ ~detached
    /\ mem' = RetrieveAllItems(mem, Stack, h)
    /\ detached' = TRUE

(* xqueue::enqueueAllList(&head) after the wait list's lock is dropped.    *)
EnqueueAllList(h) ==
    /\ detached
    /\ mem' = InsertListTail(mem, Stack, h)
    /\ detached' = FALSE

ListNext ==
    \/ \E n \in Nodes : \/ \E h \in {RunQ, WaitQ} : Enqueue(n, h)
                        \/ PutJoineeQueue(n)
    \/ \E h \in Heads : Dequeue(h)
    \/ CondBroadcast(WaitQ) \/ BarrierRelease(WaitQ)
    \/ EnqueueAllList(RunQ)

ListSpec == ListInit /\ [][ListNext]_listVars

----------------------------------------------------------------------------
(* The type invariant.                                                     *)
ListTypeOK ==
    /\ mem \in [Cells -> [next : Cells, prev : Cells]]
    /\ detached \in BOOLEAN
    /\ absLists \in [Heads \cup {Stack} -> Seq(Nodes)]

(* Every list head's ring is a consistent doubly-linked ring: following   *)
(* next from the head comes back to it, and each node's successor points  *)
(* back to it.  listInsertTail reads head->prev and listRemoveNode reads  *)
(* node->prev, so a stale back pointer, such as the ones condBroadcast    *)
(* leaves in the waiters it moves, would corrupt a later call.            *)
DoublyLinked ==
    \A h \in Heads :
        LET r == Ring(h)
            ring == {h} \cup {r[i] : i \in DOMAIN r}
        IN /\ mem[IF r = <<>> THEN h ELSE r[Len(r)]].next = h
           /\ \A x \in ring : mem[mem[x].next].prev = x

(* The pointer operations implement the lists of ThreadLists: read through *)
(* the refinement mapping, every step of the run queue, wait list and      *)
(* joinqueue code (including a broadcast's half-linked local head) is a    *)
(* step of the sequence specification, and no thread ends up in two lists. *)
Refinement == Abs!ListsSpec
=============================================================================
