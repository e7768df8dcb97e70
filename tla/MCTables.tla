------------------------------- MODULE MCTables -------------------------------
(***************************************************************************)
(* The instances TLC checks of what the event loop stands on: the poller's  *)
(* slots, the pool of blocks and the byte buffers.  They share nothing, so    *)
(* each behaviour moves one of them; the others stay as they begin.          *)
(***************************************************************************)
EXTENDS RawCache, Poller, MemPool, TLC

VARIABLE part  \* what moves

allVars == <<part, vars, pollerVars, poolVars>>

\* fit_block_size with a least block of 2 bytes, where the code's is 1024: the next
\* power of two above a request that fills such a block.
FitBlockSize(n) ==
  CHOOSE b \in {2, 4, 8} : b > n /\ \A c \in {2, 4, 8} : c > n => b <= c

AllInit == part \in {"cache", "poller", "pool"} /\ Init /\ PollerInit /\ PoolInit
AllNext ==
  \/ part = "cache" /\ Next /\ UNCHANGED <<part, pollerVars, poolVars>>
  \/ part = "poller" /\ PollerNext /\ UNCHANGED <<part, vars, poolVars>>
  \/ part = "pool" /\ PoolNext /\ UNCHANGED <<part, vars, pollerVars>>
AllSpec == AllInit /\ [][AllNext]_allVars

Symmetry == Permutations(Obj) \cup Permutations(Slot)
=============================================================================
