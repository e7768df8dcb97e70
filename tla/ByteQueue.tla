------------------------------ MODULE ByteQueue ------------------------------
(***************************************************************************)
(* What a send or receive buffer promises: bytes come out in the order     *)
(* they went in, none lost, none added.                                    *)
(***************************************************************************)
EXTENDS Naturals, Sequences

CONSTANT Byte

VARIABLE queue

Init == queue = <<>>

\* data is put behind what is queued.
Put(data) == queue' = queue \o data

\* The first n bytes, or all there are, have been used.
Skip(n) == queue' = IF n >= Len(queue) THEN <<>> ELSE SubSeq(queue, n + 1, Len(queue))

Next == \E data \in Seq(Byte) : Put(data)
     \/ \E n \in Nat : Skip(n)

Spec == Init /\ [][Next]_queue
=============================================================================
