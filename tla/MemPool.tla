------------------------------- MODULE MemPool -------------------------------
(***************************************************************************)
(* CMemPool: the pool the socket buffers take their blocks from.  Blocks of*)
(* a size are made many at a time; those not in use are on the free list of*)
(* their size.  Every recycle may give free blocks of the size back to the *)
(* system; making blocks near the pool's limit first gives back free blocks*)
(* of the large sizes, and fails if that is not enough.                    *)
(*                                                                         *)
(* Sizes are in units of 1024 bytes, the smallest block, and powers of two.*)
(* The constants are those of the code, so that a run can scale them down. *)
(* The holders are the buffers of module RawCache: each block is recycled  *)
(* once, with the size it was handed out with.                             *)
(***************************************************************************)
EXTENDS Integers, Sequences, FiniteSets, Functions

CONSTANTS
  Top,               \* the largest block is 2^Top
  C_EXTEND_SET,      \* blocks made at a time, of a small size
  C_SLOT_1,          \* sizes from here on are not small; also the free memory of
                     \* a size that is never given back (1 << 20 in release_size)
  C_SLOT_2,          \* from here on one block is made at a time
  C_MAX_POOL_SIZE,
  C_MAX_WATER_MARK,
  MaxHeld            \* bound: blocks in use

ASSUME PoolAssumption ==
  /\ {Top, C_MAX_POOL_SIZE, C_MAX_WATER_MARK, MaxHeld} \subseteq Nat
  /\ {C_EXTEND_SET, C_SLOT_1, C_SLOT_2} \subseteq Nat \ {0}

C_ALLOC_CAPCITY == 2 * C_SLOT_2

VARIABLES
  freeBlocks, \* _free: the free list of each size
  stub,       \* _stub: the blocks of each size, free or in use
  allocated,  \* _allocated_size
  held        \* the blocks in use, each with the size its holder was told

poolVars == <<freeBlocks, stub, allocated, held>>

\* 1 << k
BlockSize[k \in 0..Top] == IF k = 0 THEN 1 ELSE 2 * BlockSize[k-1]

Size == {BlockSize[k] : k \in 0..Top}

PoolInit ==
  /\ freeBlocks = [z \in Size |-> <<>>]
  /\ stub = [z \in Size |-> {}]
  /\ allocated = 0
  /\ held = {}

-----------------------------------------------------------------------------
(* A pool is a record of the three variables; the functions below say what  *)
(* the member functions do to it.                                           *)

Pool == [free |-> freeBlocks, stub |-> stub, allocated |-> allocated]

\* fit_block_size: the power of two beyond n.
fit_block_size(n) == CHOOSE z \in Size : z > n /\ z <= IF n = 0 THEN 1 ELSE 2 * n

fit_extend_set(z) ==
  IF z < C_SLOT_1 THEN C_EXTEND_SET
  ELSE IF z < C_SLOT_2 THEN C_ALLOC_CAPCITY \div z ELSE 1

\* release_size of a free list of n out of s blocks: how many to give back.
todo_count(z, n, s, mark) ==
  IF n * z < C_SLOT_1 THEN 0
  ELSE IF z > C_SLOT_2 THEN (IF n > 1 THEN n \div 2 ELSE n)
  ELSE IF n >= s \div 2 \/ n * z >= mark THEN n \div 2 ELSE 0

\* A bug: the blocks given back stay on the list.
ReleaseKeepsListed(p, z, mark) ==
  LET n == todo_count(z, Len(p.free[z]), Cardinality(p.stub[z]), mark)
  IN [p EXCEPT !.stub[z] = @ \ Range(SubSeq(p.free[z], 1, n)),
               !.allocated = @ - z * n]

\* release: from the front of the list of size z.
Release(p, z, mark) ==
  LET n == todo_count(z, Len(p.free[z]), Cardinality(p.stub[z]), mark)
  IN [free |-> [p.free EXCEPT ![z] = SubSeq(@, n + 1, Len(@))],
      stub |-> [p.stub EXCEPT ![z] = @ \ Range(SubSeq(p.free[z], 1, n))],
      allocated |-> p.allocated - z * n]

\* A round of release_size(need) over pool p, with q left: size z is released unless
\* enough has been given back or the size before was less than C_SLOT_1.
PurgeSize(p, q, z, need) ==
  IF p.allocated - q.allocated >= need \/ 2 * z < C_SLOT_1 THEN q
  ELSE Release(q, z, C_ALLOC_CAPCITY)

\* release_size(need): from the largest size down.  (The largest size is 1G in the
\* code.)
Purge(p, need) ==
  LET After[i \in 0..Top+1] ==  \* the i largest sizes are done
        IF i = 0 THEN p ELSE PurgeSize(p, After[i-1], BlockSize[(Top + 1) - i], need)
  IN After[Top+1]

\* By how much a set of blocks of size z goes beyond the limit.
Beyond(p, z) == p.allocated + z * fit_extend_set(z) - C_MAX_POOL_SIZE

\* The first half of extend.
MakeRoom(p, z) == IF Beyond(p, z) >= 0 THEN Purge(p, Beyond(p, z)) ELSE p

Enough(p, q, z) == p.allocated - q.allocated >= Beyond(p, z)

\* The second half: the blocks new are made.
Extended(q, z, new) ==
  [free |-> [q.free EXCEPT ![z] = new \o @],
   stub |-> [q.stub EXCEPT ![z] = @ \cup Range(new)],
   allocated |-> q.allocated + z * Len(new)]

\* Addresses: operator new returns any that no block has.
Unused(q, n) ==
  LET used == UNION {q.stub[z] : z \in Size}
  IN CHOOSE s \in [1..n -> (1..Cardinality(used) + n) \ used] : IsInjective(s)

Becomes(p) == freeBlocks' = p.free /\ stub' = p.stub /\ allocated' = p.allocated

-----------------------------------------------------------------------------
\* A block of size z is taken from the front of its list in pool p.
Take(p, z) ==
  /\ Becomes([p EXCEPT !.free[z] = Tail(@)])
  /\ held' = held \cup {[block |-> Head(p.free[z]), size |-> z]}

\* allocate from the free list.
AllocateFree(n) ==
  LET z == fit_block_size(n) IN
    /\ freeBlocks[z] # <<>>
    /\ Cardinality(held) < MaxHeld
    /\ Take(Pool, z)

\* allocate from blocks made for it, for which others may have to go.
AllocateExtend(n) ==
  LET z == fit_block_size(n)
      q == MakeRoom(Pool, z)
  IN /\ freeBlocks[z] = <<>>
     /\ Cardinality(held) < MaxHeld
     /\ Enough(Pool, q, z)
     /\ Take(Extended(q, z, Unused(q, fit_extend_set(z))), z)

\* allocate fails; what was given back to make room is gone.
AllocateFails(n) ==
  LET z == fit_block_size(n)
      q == MakeRoom(Pool, z)
  IN /\ freeBlocks[z] = <<>>
     /\ ~ Enough(Pool, q, z)
     /\ Becomes(q)
     /\ UNCHANGED held

\* recycle of a block in use.  (Of any other block, or with another size, it would
\* return -1 and change nothing: HeldIsOwned says that this does not happen.)
Recycle(h) ==
  /\ h.block \in stub[h.size]
  /\ Becomes(Release([Pool EXCEPT !.free[h.size] = <<h.block>> \o @],
                     h.size, C_MAX_WATER_MARK))
  /\ held' = held \ {h}

\* What buffers ask for, each size once.
Request == {0} \cup {BlockSize[k] : k \in 0..Top-1}

PoolNext ==
  \/ \E n \in Request : AllocateFree(n) \/ AllocateExtend(n) \/ AllocateFails(n)
  \/ \E h \in held : Recycle(h)

PoolSpec == PoolInit /\ [][PoolNext]_poolVars

-----------------------------------------------------------------------------
(* Properties. *)

\* The blocks of pool p that H does not hold are on the free lists.
Owned(p, H) ==
  /\ \A h \in H : h.block \in p.stub[h.size]
  /\ \A g, h \in H : g.block = h.block => g = h
  /\ \A z \in Size :
       /\ IsInjective(p.free[z])
       /\ Range(p.free[z]) = p.stub[z] \ {h.block : h \in H}
  /\ \A y, z \in Size : y # z => p.stub[y] \cap p.stub[z] = {}

\* The memory of the blocks of pool p, in units.
Memory(p) == UNION {p.stub[z] \X (1..z) : z \in Size}

\* Every block that exists is in use or on the free list of its size, once: what
\* a buffer holds is not given back, handed out again or found under another
\* size, whatever is released to make room for others (mempool.cpp:89, :225).
HeldIsOwned == Owned(Pool, held)

\* _allocated_size is the memory of the blocks that exist, so that the assertion
\* of mempool.cpp:222 holds and the limit is the real one.
AllocatedExact == allocated = Cardinality(Memory(Pool))

\* The pool keeps to its limit.
PoolBounded == allocated <= C_MAX_POOL_SIZE

\* Blocks have one owner and are counted exactly, whatever is made, handed out,
\* recycled and given back (mempool.cpp:89, :222, :225).
PoolSound == HeldIsOwned /\ AllocatedExact /\ PoolBounded
=============================================================================
