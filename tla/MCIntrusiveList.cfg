CONSTANTS
    n1 = n1
    n2 = n2
    n3 = n3
    Nodes <- MCNodes
    RunQ = RunQ
    WaitQ = WaitQ
    JoinQ = JoinQ
    Stack = Stack
INIT ListInit
NEXT ListNext
INVARIANT ListTypeOK
INVARIANT DoublyLinked
PROPERTY Refinement
