------------------------------- MODULE RawCache -------------------------------
(***************************************************************************)
(* CRawCache: the buffer of every socket of the proxy, one block from the  *)
(* memory pool with the queued bytes somewhere inside it.  append() writes *)
(* behind them, moves them to the front of the block, or moves them to a   *)
(* larger block; skip() moves the front or gives the block back.           *)
(*                                                                         *)
(* A block is a function from offsets; what was not written yet is Garbage.*)
(* The pool is taken to have memory: when it has none append() throws and  *)
(* the process ends.                                                       *)
(***************************************************************************)
EXTENDS Integers, Sequences

CONSTANTS
  Byte,
  Garbage,  \* the content of a byte never written
  Null,     \* no block
  Fit(_),   \* the size of the block the pool gives for a request
  MaxData,  \* bound: bytes queued
  MaxPut    \* bound: bytes of one append

ASSUME BoundAssumption == MaxData \in Nat /\ MaxPut \in Nat
ASSUME FitAssumption ==
  \A n \in 0..MaxData : Fit(n) \in Nat \ {0} /\ Fit(n) >= n
ASSUME GarbageAssumption == Garbage \notin Byte
ASSUME NullAssumption ==
  \A n \in 0..MaxData : Null \notin [0..Fit(n)-1 -> Byte \cup {Garbage}]

VARIABLES
  mem,         \* _mem: a block or Null
  block_size,  \* _block_size
  data_head,   \* _data_head
  data_len     \* _data_len

vars == <<mem, block_size, data_head, data_len>>

Init ==
  /\ mem = Null
  /\ block_size = 0
  /\ data_head = 0
  /\ data_len = 0

-----------------------------------------------------------------------------
Block(size) == [0..size-1 -> Byte \cup {Garbage}]

\* A block just allocated.
Fresh(size) == [i \in 0..size-1 |-> Garbage]

\* memcpy of data to offset at of block m.
Copied(m, at, data) ==
  [i \in DOMAIN m |-> IF i >= at /\ i < at + Len(data) THEN data[i - at + 1] ELSE m[i]]

\* The queued bytes.
Data == [i \in 1..data_len |-> mem[data_head + i - 1]]

\* append into no block.
AppendFirst(data) ==
  /\ mem = Null
  /\ block_size' = Fit(Len(data))
  /\ mem' = Copied(Fresh(block_size'), 0, data)
  /\ data_head' = 0
  /\ data_len' = Len(data)

FitsBehindLen(n) == n + data_len <= block_size
FitsBehind(n) == n + data_head + data_len <= block_size

\* append behind the queued bytes.
AppendDirect(data) ==
  /\ mem # Null
  /\ FitsBehind(Len(data))
  /\ mem' = Copied(mem, data_head + data_len, data)
  /\ data_len' = data_len + Len(data)
  /\ UNCHANGED <<block_size, data_head>>

\* append by way of a larger block.
AppendGrow(data) ==
  /\ mem # Null
  /\ ~ FitsBehind(Len(data))
  /\ Len(data) + data_len > block_size
  /\ block_size' = Fit(Len(data) + data_len)
  /\ mem' = Copied(Copied(Fresh(block_size'), 0, Data), data_len, data)
  /\ data_head' = 0
  /\ data_len' = data_len + Len(data)

\* append after moving the queued bytes to the front of the block.
AppendMoveInPlace(data) ==
  /\ mem # Null
  /\ ~ FitsBehind(Len(data))
  /\ Len(data) + data_len <= block_size
  /\ mem' = Copied(mem, data_len, data)
  /\ data_head' = 0
  /\ data_len' = data_len + Len(data)
  /\ UNCHANGED block_size

AppendMove(data) ==
  /\ mem # Null
  /\ ~ FitsBehind(Len(data))
  /\ Len(data) + data_len <= block_size
  /\ mem' = Copied(Copied(mem, 0, Data), data_len, data)
  /\ data_head' = 0
  /\ data_len' = data_len + Len(data)
  /\ UNCHANGED block_size

append(data) ==
  /\ data_len + Len(data) <= MaxData
  /\ \/ AppendFirst(data)
     \/ AppendDirect(data)
     \/ AppendGrow(data)
     \/ AppendMove(data)

\* skip of all the bytes gives the block back.
SkipAll(n) ==
  /\ mem # Null
  /\ n >= data_len
  /\ mem' = Null
  /\ block_size' = 0
  /\ data_head' = 0
  /\ data_len' = 0

SkipPart(n) ==
  /\ mem # Null
  /\ n < data_len
  /\ data_head' = data_head + n
  /\ data_len' = data_len - n
  /\ UNCHANGED <<mem, block_size>>

skip(n) == SkipAll(n) \/ SkipPart(n)

Next ==
  \/ \E k \in 0..MaxPut : \E data \in [1..k -> Byte] : append(data)
  \/ \E n \in 0..MaxData : skip(n)

Spec == Init /\ [][Next]_vars

-----------------------------------------------------------------------------
(* Properties. *)

\* The queued bytes lie inside the block, which is as long as _block_size says, and
\* data() never meets its assertion (cache.cpp:22), in whatever order data is added
\* and used.
InBounds ==
  /\ mem # Null => DOMAIN mem = 0..block_size-1
  /\ data_head + data_len <= block_size
  /\ data_len > 0 => mem # Null /\ data_head < block_size

\* The buffer is a byte queue: whichever of its branches append() takes, and
\* wherever the data lies, no byte is lost, repeated, reordered or read before
\* it was written.
Queue == INSTANCE ByteQueue WITH queue <- Data

IsByteQueue == Queue!Init /\ [][\/ \E k \in 0..MaxPut : \E data \in [1..k -> Byte] : Queue!Put(data)
                               \/ \E n \in 0..MaxData : Queue!Skip(n)]_Data
=============================================================================
