------------------------------ MODULE LinkedList ------------------------------
(***************************************************************************)
(* The circular doubly linked lists of list.h, pointer write by pointer    *)
(* write.  A node that is on no list points at itself, so that taking it   *)
(* off "its list" once more is harmless; the timers rely on that, they     *)
(* disable timers that are not armed and arm timers that are.              *)
(***************************************************************************)
EXTENDS Naturals, FiniteSets

CONSTANTS
  Anchor,  \* list heads: the tlist of a CTimerList
  Node     \* CTimerObjects, none of them an anchor

VARIABLES next, prev  \* the pointers of heads and nodes

pointerVars == <<next, prev>>
Cell == Anchor \cup Node

\* A pair of pointer tables in the middle of an operation.
Links == [next |-> next, prev |-> prev]

PointersInit ==
  /\ next = [c \in Cell |-> c]
  /\ prev = [c \in Cell |-> c]

-----------------------------------------------------------------------------
(* The inline functions, each from pointer tables to pointer tables. *)

\* __list_del(p, n)
ListDel(T, p, n) ==
  [next |-> [T.next EXCEPT ![p] = n], prev |-> [T.prev EXCEPT ![n] = p]]

\* INIT_LIST_HEAD(e)
InitListHead(T, e) ==
  [next |-> [T.next EXCEPT ![e] = e], prev |-> [T.prev EXCEPT ![e] = e]]

\* __list_add(e, p, n)
ListAdd(T, e, p, n) ==
  [next |-> [T.next EXCEPT ![e] = n, ![p] = e],
   prev |-> [T.prev EXCEPT ![n] = e, ![e] = p]]


\* list_del_init(e); list_del would leave e pointing at its old neighbours.
ListDelInit(e) == InitListHead(ListDel(Links, prev[e], next[e]), e)

\* list_move_tail(e, h): the tail of h is read after e has been taken off.
ListMoveTailEarly(e, h) ==
  ListAdd(ListDel(Links, prev[e], next[e]), e, prev[h], h)
ListMoveTail(e, h) ==
  LET T == ListDel(Links, prev[e], next[e]) IN ListAdd(T, e, T.prev[h], h)

\* FreeList: ResetList on the first node until there is none.
Freed(h) ==
  LET N == Cardinality(Node)
      F[i \in 0..N] ==
        IF i = 0 THEN Links
        ELSE LET T == F[i-1]
                 e == T.next[h]
             IN IF e = h THEN T
                ELSE InitListHead(ListDel(T, T.prev[e], T.next[e]), e)
  IN F[N]

-----------------------------------------------------------------------------
\* The tables are T from now on.
Written(T) == next' = T.next /\ prev' = T.prev

Reset(e) == Written(ListDelInit(e))
MoveTail(e, h) == Written(ListMoveTail(e, h))
FreeList(h) == Written(Freed(h))

PointersNext ==
  \/ \E e \in Node : Reset(e)
  \/ \E e \in Node, h \in Anchor : MoveTail(e, h)
  \/ \E h \in Anchor : FreeList(h)

PointersSpec == PointersInit /\ [][PointersNext]_pointerVars

-----------------------------------------------------------------------------
(* Properties. *)

\* The two directions agree everywhere, on lists and off them: the next
\* operation on any node finds the neighbours it must relink.
LinksMutual == \A c \in Cell : prev[next[c]] = c /\ next[prev[c]] = c

\* The cell i steps behind h, in the table nxt of next pointers.
Behind(nxt, h) ==
  LET B[i \in 0..Cardinality(Node)+1] == IF i = 0 THEN h ELSE nxt[B[i-1]] IN B

\* The nodes on the list of h, in order; none if the list does not close.
Walk(nxt, h) ==
  LET B == Behind(nxt, h)
      Round == {i \in 1..Cardinality(Node)+1 : B[i] = h}
  IN IF Round = {} THEN <<>>
     ELSE LET n == CHOOSE i \in Round : \A j \in Round : i <= j
          IN [i \in 1..n-1 |-> B[i]]

Walks == [h \in Anchor |-> Walk(next, h)]

Abstract == INSTANCE Lists WITH list <- Walks

\* The pointers implement the sequences: every operation does to the walked
\* lists what Lists says, in whatever state nodes and lists are, and leaves the
\* pointers in order (list.h:79-127).  (A step that writes no next pointer leaves
\* the walked lists alone.)
ImplementsLists ==
  Abstract!Init /\ [][LinksMutual' /\ (UNCHANGED next \/ Abstract!Next)]_pointerVars
=============================================================================
