-------------------------------- MODULE Lists --------------------------------
(***************************************************************************)
(* What the intrusive lists of list.h promise: every node is on at most    *)
(* one list, at one place, and the operations the timers use move a node   *)
(* to the end of a list or take it off whichever list it is on.            *)
(***************************************************************************)
EXTENDS Naturals, Sequences, SequencesExt

CONSTANTS
  Anchor,  \* list heads
  Node   \* what is on the lists

VARIABLE list  \* the nodes of each list, in order

\* The sequence s without n, which is in it at one place or not at all.
Without(s, n) ==
  IF \E i \in 1..Len(s) : s[i] = n THEN RemoveAt(s, CHOOSE i \in 1..Len(s) : s[i] = n)
  ELSE s

Init == list = [h \in Anchor |-> <<>>]

\* ListMoveTail: off its list, if it is on one, and to the end of h's.
MoveTail(n, h) ==
  list' = [k \in Anchor |-> IF k = h THEN Append(Without(list[k], n), n)
                          ELSE Without(list[k], n)]

\* ResetList, ListDel and the destructor of a node.
Reset(n) == list' = [k \in Anchor |-> Without(list[k], n)]

\* FreeList: the destructor of a list.
FreeList(h) == list' = [list EXCEPT ![h] = <<>>]

Next ==
  \/ \E n \in Node, h \in Anchor : MoveTail(n, h)
  \/ \E n \in Node : Reset(n)
  \/ \E h \in Anchor : FreeList(h)

Spec == Init /\ [][Next]_list
=============================================================================
