------------------------------ MODULE LoopProofs ------------------------------
(***************************************************************************)
(* Proofs about what the event loop serves beside its reports: the timers,  *)
(* the lists they are on, and the listener.                                 *)
(*                                                                         *)
(* Timer, for any timers, finitely many timeouts and any clock: every list  *)
(* is sorted by expiry, so that the heads say how long to sleep, whatever   *)
(* the handlers do.  A timer armed goes to the end of a list on which none  *)
(* expires later than it: that bound is the invariant.                      *)
(*                                                                         *)
(* LinkedList, for any list heads and finitely many nodes: the pointers     *)
(* implement the sequences of Lists, which Timer is written with.  The      *)
(* invariant is that some sequences are represented: the pointers go round  *)
(* each of them, and nodes on none point at themselves.                     *)
(*                                                                         *)
(* Accepting, for any descriptors and sizes of the array: a descriptor is   *)
(* lost only to an interruption of accept(), one to each.  What is lost is  *)
(* settled only when a round ends.  Until then the invariant reserves for   *)
(* it: one for each slot that was passed over, and once the connections are *)
(* made, the descriptors behind those counted.                              *)
(***************************************************************************)
EXTENDS Timer, LinkedList, Accepting,
        SequencesExt, SequenceTheorems, FiniteSetTheorems, WellFoundedInduction, TLAPS

-----------------------------------------------------------------------------
(* Timer. *)

\* What is asked of the constants: there are finitely many lists, one of them CTimerUnit's
\* own, and a millisecond has ticks.
Bounds ==
  /\ IsFiniteSet(Timeout) /\ Order \in Seq(Timeout)
  /\ PerMs \in Nat \ {0} /\ EpWait \in Nat

Phase == {"idle", "wait", "events", "timers"}

TypeOK ==
  /\ list \in [Timeout -> Seq(Tmr)]
  /\ left \in [Tmr -> Int]
  /\ late \in Nat /\ wake \in Int
  /\ phase \in Phase
  /\ todo \in Seq(Timeout)
  /\ call \in Tmr \cup {None}

\* A timer is on a list once, and on one list.
ListedOnce ==
  /\ \A t \in Timeout : \A i, j \in 1..Len(list[t]) : list[t][i] = list[t][j] => i = j
  /\ \A t, u \in Timeout : t # u => On(t) \cap On(u) = {}

\* The list of a timeout holds no timer that expires later than one armed now would.
NoneLater == \A t \in Timeout : \A o \in On(t) : left[o] <= t

IInv ==
  /\ TypeOK
  /\ ListedOnce /\ NoneLater /\ ListSorted
  /\ call # None => phase = "timers"
  /\ NeverOversleeps

-----------------------------------------------------------------------------
(* Sequences and numbers. *)

\* A sequence without what is at its place k.
LEMMA CutOut ==
  ASSUME NEW S, NEW s \in Seq(S), NEW k \in 1..Len(s)
  PROVE  /\ RemoveAt(s, k) \in Seq(S) /\ Len(RemoveAt(s, k)) = Len(s) - 1
         /\ \A i \in 1..Len(s)-1 : RemoveAt(s, k)[i] = IF i < k THEN s[i] ELSE s[i + 1]
<1> DEFINE a == SubSeq(s, 1, k - 1)
           b == SubSeq(s, k + 1, Len(s))
           r == RemoveAt(s, k)
<1>0. k \in Int /\ Len(s) \in Nat /\ 1 <= k /\ k <= Len(s) /\ \A i \in 1..Len(s) : s[i] \in S
  OBVIOUS
<1>1. a \in Seq(S) /\ Len(a) = k - 1 /\ \A i \in 1..k-1 : a[i] = s[i]
  <2>1. \A i \in 1..k-1 : s[i] \in S
    BY <1>0
  <2>2. /\ a \in Seq(S) /\ Len(a) = IF 1 <= k - 1 THEN k - 1 - 1 + 1 ELSE 0
        /\ \A i \in 1..(k-1)-1+1 : a[i] = s[1+i-1]
    BY <1>0, <2>1, SubSeqProperties, k - 1 \in Int, 1 \in Int
  <2> HIDE DEF a
  <2> QED
    BY <1>0, <2>2
<1>2. b \in Seq(S) /\ Len(b) = Len(s) - k /\ \A i \in 1..Len(s)-k : b[i] = s[k + i]
  <2>1. \A i \in k+1..Len(s) : s[i] \in S
    BY <1>0
  <2>2. /\ b \in Seq(S) /\ Len(b) = IF k + 1 <= Len(s) THEN Len(s) - (k + 1) + 1 ELSE 0
        /\ \A i \in 1..Len(s)-(k+1)+1 : b[i] = s[(k+1)+i-1]
    BY <1>0, <2>1, SubSeqProperties, k + 1 \in Int, Len(s) \in Int
  <2> HIDE DEF b
  <2> QED
    BY <1>0, <2>2
<1>3. r = a \o b
  BY DEF RemoveAt
<1> HIDE DEF a, b, r
<1>4. /\ r \in Seq(S) /\ Len(r) = Len(a) + Len(b)
      /\ \A i \in 1..Len(a)+Len(b) : r[i] = IF i <= Len(a) THEN a[i] ELSE b[i - Len(a)]
  BY <1>1, <1>2, <1>3, ConcatProperties
<1>5. Len(a) + Len(b) = Len(s) - 1 /\ Len(r) = Len(s) - 1
  <2>1. Len(a) + Len(b) = (k - 1) + (Len(s) - k)
    BY <1>1, <1>2
  <2> QED
    BY <1>0, <1>4, <2>1
<1>6. ASSUME NEW i \in 1..Len(s)-1 PROVE r[i] = IF i < k THEN s[i] ELSE s[i + 1]
  <2>0. i \in Int /\ 1 <= i /\ i <= Len(s) - 1
    BY <1>0
  <2>1. CASE i < k
    <3>1. i <= Len(a) /\ i \in 1..k-1
      BY <1>0, <1>1, <2>0, <2>1
    <3>2. r[i] = a[i] /\ a[i] = s[i]
      BY <1>1, <1>4, <1>5, <3>1
    <3> QED
      BY <2>1, <3>2
  <2>2. CASE ~ (i < k)
    <3>1. i - (k - 1) \in 1..Len(s)-k /\ k + (i - (k - 1)) = i + 1 /\ ~ (i <= Len(a))
      BY <1>0, <1>1, <2>0, <2>2
    <3>2. r[i] = b[i - (k - 1)]
      BY <1>1, <1>4, <1>5, <3>1
    <3>3. b[i - (k - 1)] = s[k + (i - (k - 1))]
      BY <1>2, <3>1
    <3> QED
      BY <2>2, <3>1, <3>2, <3>3
  <2> QED
    BY <2>1, <2>2
<1> QED
  BY <1>4, <1>5, <1>6 DEF r

\* Nothing is twice in s.
Distinct(s) == \A i, j \in 1..Len(s) : s[i] = s[j] => i = j

\* The sequence r is s without n: the others, in their order.
Thinned(r, s, n) ==
  /\ {r[i] : i \in 1..Len(r)} = {s[i] : i \in 1..Len(s)} \ {n}
  /\ \A i, j \in 1..Len(r) : i < j =>
       \E k, m \in 1..Len(s) : k < m /\ r[i] = s[k] /\ r[j] = s[m]
  /\ Distinct(r)

\* A sequence without one of its elements.
LEMMA WithoutOne ==
  ASSUME NEW S, NEW s \in Seq(S), NEW n, Distinct(s)
  PROVE  L!Without(s, n) \in Seq(S) /\ Thinned(L!Without(s, n), s, n)
<1> SUFFICES ASSUME NEW r, r = L!Without(s, n) PROVE r \in Seq(S) /\ Thinned(r, s, n)
  OBVIOUS
<1>1. CASE ~ \E i \in 1..Len(s) : s[i] = n
  <2>1. r = s
    BY <1>1 DEF L!Without
  <2> QED
    BY <1>1, <2>1 DEF Thinned, Distinct
<1>2. CASE \E i \in 1..Len(s) : s[i] = n
  <2>1. PICK k \in 1..Len(s) : s[k] = n /\ r = RemoveAt(s, k)
    BY <1>2 DEF L!Without, L!RemoveAt, RemoveAt
  <2>2. /\ RemoveAt(s, k) \in Seq(S) /\ Len(RemoveAt(s, k)) = Len(s) - 1
        /\ \A i \in 1..Len(s)-1 : RemoveAt(s, k)[i] = IF i < k THEN s[i] ELSE s[i + 1]
    BY CutOut
  <2>3. /\ r \in Seq(S) /\ Len(r) = Len(s) - 1
        /\ \A i \in 1..Len(r) : r[i] = IF i < k THEN s[i] ELSE s[i + 1]
    BY <2>1, <2>2
  <2>4. \A i \in 1..Len(r) : r[i] # n
    BY <2>1, <2>3 DEF Distinct
  <2>5. {r[i] : i \in 1..Len(r)} = {s[i] : i \in 1..Len(s)} \ {n}
    <3>1. ASSUME NEW j \in 1..Len(s), s[j] # n PROVE \E i \in 1..Len(r) : r[i] = s[j]
      <4>1. CASE j < k
        <5>1. j \in 1..Len(r) /\ r[j] = s[j]
          BY <2>1, <2>3, <4>1
        <5> QED
          BY <5>1
      <4>2. CASE j > k
        <5>1. j - 1 \in 1..Len(r) /\ r[j - 1] = s[j]
          BY <2>1, <2>3, <4>2
        <5> QED
          BY <5>1
      <4> QED
        BY <2>1, <3>1, <4>1, <4>2
    <3>2. ASSUME NEW i \in 1..Len(r) PROVE \E j \in 1..Len(s) : r[i] = s[j]
      BY <2>1, <2>3
    <3>3. {r[i] : i \in 1..Len(r)} \subseteq {s[i] : i \in 1..Len(s)} \ {n}
      BY <2>4, <3>2
    <3>4. {s[i] : i \in 1..Len(s)} \ {n} \subseteq {r[i] : i \in 1..Len(r)}
      BY <3>1
    <3> QED
      BY <3>3, <3>4
  <2>6. ASSUME NEW i \in 1..Len(r), NEW j \in 1..Len(r), i < j
        PROVE  \E a, b \in 1..Len(s) : a < b /\ r[i] = s[a] /\ r[j] = s[b]
    <3>1. CASE j < k
      <4>1. i \in 1..Len(s) /\ j \in 1..Len(s) /\ i < k
        BY <2>3, <2>6, <3>1
      <4>2. r[i] = s[i] /\ r[j] = s[j]
        BY <2>3, <3>1, <4>1
      <4> QED
        BY <2>6, <4>1, <4>2
    <3>2. CASE j >= k
      <4>1. j + 1 \in 1..Len(s) /\ r[j] = s[j + 1]
        BY <2>1, <2>3, <3>2
      <4>2. \E a \in 1..Len(s) : a < j + 1 /\ r[i] = s[a]
        <5>1. CASE i < k
          BY <2>1, <2>3, <2>6, <5>1
        <5>2. CASE i >= k
          <6>1. i + 1 \in 1..Len(s) /\ r[i] = s[i + 1] /\ i + 1 < j + 1
            BY <2>1, <2>3, <2>6, <5>2
          <6> QED
            BY <6>1
        <5> QED
          BY <2>1, <5>1, <5>2
      <4> QED
        BY <4>1, <4>2
    <3> QED
      BY <2>1, <3>1, <3>2
  <2>7. ASSUME NEW i \in 1..Len(r), NEW j \in 1..Len(r), r[i] = r[j] PROVE i = j
    <3>0. ASSUME NEW a \in 1..Len(r), NEW b \in 1..Len(r), a < b PROVE r[a] # r[b]
      <4>1. PICK c \in 1..Len(s), d \in 1..Len(s) : c < d /\ r[a] = s[c] /\ r[b] = s[d]
        BY <2>6, <3>0
      <4>2. c # d
        BY <4>1
      <4> QED
        BY <4>1, <4>2 DEF Distinct
    <3>1. ~ (i < j)
      BY <2>7, <3>0
    <3>2. ~ (j < i)
      BY <2>7, <3>0
    <3> QED
      BY <2>3, <3>1, <3>2
  <2> QED
    BY <2>3, <2>5, <2>6, <2>7 DEF Thinned, Distinct
<1> QED
  BY <1>1, <1>2

\* Finitely many integers have a least one.
LEMMA LeastOfFinite ==
  ASSUME NEW S, IsFiniteSet(S), S \subseteq Int, S # {}
  PROVE  Least(S) \in S /\ \A x \in S : Least(S) <= x
<1> DEFINE Bad == {T \in FiniteSubsetsOf(Int) : T # {} /\ ~ \E x \in T : \A y \in T : x <= y}
<1>1. Bad = {}
  <2> SUFFICES ASSUME Bad # {} PROVE FALSE
    OBVIOUS
  <2>1. IsWellFoundedOn(StrictSubsetOrdering(Int), FiniteSubsetsOf(Int))
    BY FS_StrictSubsetOrderingWellFounded
  <2>2. PICK T \in Bad : \A U \in Bad : ~ (<<U, T>> \in StrictSubsetOrdering(Int))
    BY <2>1, WFMin
  <2>3. T \subseteq Int /\ IsFiniteSet(T)
    BY DEF FiniteSubsetsOf
  <2>4. PICK x \in T : TRUE
    OBVIOUS
  <2>5. T \ {x} \in FiniteSubsetsOf(Int)
    BY <2>3, FS_RemoveElement DEF FiniteSubsetsOf
  <2>6. <<T \ {x}, T>> \in StrictSubsetOrdering(Int)
    BY <2>3, <2>4 DEF StrictSubsetOrdering
  <2>7. T \ {x} \notin Bad
    BY <2>2, <2>6
  <2>8. CASE T \ {x} = {}
    BY <2>3, <2>4, <2>8
  <2>9. CASE \E m \in T \ {x} : \A y \in T \ {x} : m <= y
    <3>1. PICK m \in T \ {x} : \A y \in T \ {x} : m <= y
      BY <2>9
    <3>2. CASE m <= x
      BY <2>3, <3>1, <3>2
    <3>3. CASE x <= m
      BY <2>3, <3>1, <3>3
    <3> QED
      BY <2>3, <2>4, <3>1, <3>2, <3>3
  <2> QED
    BY <2>5, <2>7, <2>8, <2>9
<1>2. S \in FiniteSubsetsOf(Int)
  BY DEF FiniteSubsetsOf
<1>3. \E x \in S : \A y \in S : x <= y
  BY <1>1, <1>2
<1> QED
  BY <1>3 DEF Least

-----------------------------------------------------------------------------
(* What the two operations on lists keep of the invariant. *)

\* The lists and what timers have left, without the loop.
ListsSound ==
  /\ list \in [Timeout -> Seq(Tmr)] /\ left \in [Tmr -> Int]
  /\ ListedOnce /\ NoneLater /\ ListSorted

\* The list of a timeout without one timer.
LEMMA OneLess ==
  ASSUME ListsSound, NEW o \in Tmr, NEW t \in Timeout
  PROVE  L!Without(list[t], o) \in Seq(Tmr) /\ Thinned(L!Without(list[t], o), list[t], o)
BY WithoutOne DEF ListsSound, ListedOnce, Distinct

\* A timer taken off: the others stay in order.
LEMMA ResetKeeps ==
  ASSUME ListsSound, NEW o \in Tmr, L!Reset(o), left' = [left EXCEPT ![o] = 0]
  PROVE  ListsSound' /\ \A t \in Timeout : On(t)' = On(t) \ {o}
<1>1. \A t \in Timeout : list'[t] = L!Without(list[t], o)
  BY DEF L!Reset
<1>0. ASSUME NEW t \in Timeout PROVE Thinned(list'[t], list[t], o)
  BY <1>1, OneLess
<1>2. list' \in [Timeout -> Seq(Tmr)]
  <2>1. \A t \in Timeout : L!Without(list[t], o) \in Seq(Tmr)
    BY OneLess
  <2> QED
    BY <2>1 DEF L!Reset
<1>3. \A t \in Timeout : On(t)' = On(t) \ {o}
  BY <1>0 DEF On, Thinned
<1>4. left' \in [Tmr -> Int] /\ \A p \in Tmr : p # o => left'[p] = left[p]
  BY DEF ListsSound
<1>5. \A t \in Timeout : On(t) \subseteq Tmr
  BY ElementOfSeq DEF On, ListsSound
<1>6. ListedOnce'
  <2>1. \A t \in Timeout : \A i, j \in 1..Len(list'[t]) : list'[t][i] = list'[t][j] => i = j
    BY <1>0 DEF Thinned, Distinct
  <2>2. \A t, u \in Timeout : t # u => On(t)' \cap On(u)' = {}
    BY <1>3 DEF ListsSound, ListedOnce
  <2> QED
    BY <2>1, <2>2 DEF ListedOnce
<1>7. NoneLater'
  BY <1>3, <1>4, <1>5 DEF NoneLater, ListsSound
<1>8. ListSorted'
  <2> SUFFICES ASSUME NEW t \in Timeout, NEW i \in 1..Len(list'[t]), NEW j \in 1..Len(list'[t]), i < j
               PROVE  left'[list'[t][i]] <= left'[list'[t][j]]
    BY DEF ListSorted
  <2>1. PICK k \in 1..Len(list[t]), m \in 1..Len(list[t]) :
          k < m /\ list'[t][i] = list[t][k] /\ list'[t][j] = list[t][m]
    BY <1>0 DEF Thinned
  <2>2. list'[t][i] \in On(t) \ {o} /\ list'[t][j] \in On(t) \ {o}
    BY <1>3 DEF On
  <2>3. left[list[t][k]] <= left[list[t][m]]
    BY <2>1 DEF ListsSound, ListSorted
  <2> QED
    BY <1>4, <1>5, <2>1, <2>2, <2>3
<1> QED
  BY <1>2, <1>3, <1>4, <1>6, <1>7, <1>8 DEF ListsSound

\* A timer armed: it goes behind timers none of which expires later.
LEMMA AttachKeeps ==
  ASSUME ListsSound, NEW o \in Tmr, NEW t \in Timeout, AttachTimer(o, t)
  PROVE  ListsSound'
<1>1. \A u \in Timeout : list'[u] = IF u = t THEN Append(L!Without(list[u], o), o)
                                    ELSE L!Without(list[u], o)
  BY DEF AttachTimer, L!MoveTail
<1>2. list' \in [Timeout -> Seq(Tmr)]
  <2>1. \A u \in Timeout : L!Without(list[u], o) \in Seq(Tmr)
    BY OneLess
  <2> QED
    BY <2>1 DEF AttachTimer, L!MoveTail
<1>3. left' \in [Tmr -> Int] /\ left'[o] = t /\ \A p \in Tmr : p # o => left'[p] = left[p]
  <2>1. t \in Int
    BY TimeoutAssumption
  <2> QED
    BY <2>1 DEF ListsSound, AttachTimer
<1>4. \A u \in Timeout : On(u) \subseteq Tmr
  BY ElementOfSeq DEF On, ListsSound
<1>5. ASSUME NEW u \in Timeout
      PROVE  /\ On(u)' = IF u = t THEN (On(u) \ {o}) \cup {o} ELSE On(u) \ {o}
             /\ \A i, j \in 1..Len(list'[u]) : list'[u][i] = list'[u][j] => i = j
             /\ \A i, j \in 1..Len(list'[u]) : i < j => left'[list'[u][i]] <= left'[list'[u][j]]
  <2>1. PICK r : r = L!Without(list[u], o)
    OBVIOUS
  <2>0. r \in Seq(Tmr) /\ Thinned(r, list[u], o)
    BY <2>1, OneLess
  <2>2. /\ r \in Seq(Tmr)
        /\ {r[i] : i \in 1..Len(r)} = On(u) \ {o}
        /\ \A i, j \in 1..Len(r) : r[i] = r[j] => i = j
    BY <2>0 DEF Thinned, Distinct, On
  <2>3. \A i \in 1..Len(r) : r[i] \in On(u) \ {o}
    BY <2>2
  <2>4. ASSUME NEW i \in 1..Len(r), NEW j \in 1..Len(r), i < j PROVE left'[r[i]] <= left'[r[j]]
    <3>1. PICK k \in 1..Len(list[u]), m \in 1..Len(list[u]) :
            k < m /\ r[i] = list[u][k] /\ r[j] = list[u][m]
      BY <2>0, <2>4 DEF Thinned
    <3>2. left[list[u][k]] <= left[list[u][m]]
      BY <3>1 DEF ListsSound, ListSorted
    <3>3. left'[r[i]] = left[r[i]] /\ left'[r[j]] = left[r[j]]
      BY <1>3, <1>4, <2>3
    <3> QED
      BY <3>1, <3>2, <3>3
  <2>5. CASE u # t
    <3>1. list'[u] = r
      BY <1>1, <2>1, <2>5
    <3>2. On(u)' = On(u) \ {o}
      <4>1. On(u)' = {list'[u][i] : i \in 1..Len(list'[u])}
        BY DEF On
      <4> QED
        BY <2>2, <3>1, <4>1
    <3> QED
      BY <2>2, <2>4, <2>5, <3>1, <3>2
  <2>6. CASE u = t
    <3>1. list'[u] = Append(r, o)
      BY <1>1, <2>1, <2>6
    <3>2. /\ Len(list'[u]) = Len(r) + 1 /\ list'[u][Len(r) + 1] = o
          /\ \A i \in 1..Len(r) : list'[u][i] = r[i]
      BY <2>2, <3>1
    <3>3. On(u)' = (On(u) \ {o}) \cup {o}
      <4>1. On(u)' = {list'[u][i] : i \in 1..Len(list'[u])}
        BY DEF On
      <4>2. \A i \in 1..Len(list'[u]) : i \in 1..Len(r) \/ i = Len(r) + 1
        BY <2>2, <3>2
      <4>3. On(u)' \subseteq (On(u) \ {o}) \cup {o}
        BY <2>3, <3>2, <4>1, <4>2
      <4>4. Len(r) + 1 \in 1..Len(list'[u]) /\ \A i \in 1..Len(r) : i \in 1..Len(list'[u])
        BY <2>2, <3>2
      <4>5. o \in On(u)'
        BY <3>2, <4>1, <4>4
      <4>6. \A i \in 1..Len(r) : r[i] \in On(u)'
        BY <3>2, <4>1, <4>4
      <4> QED
        BY <2>2, <4>3, <4>5, <4>6
    <3>4. ASSUME NEW i \in 1..Len(list'[u]), NEW j \in 1..Len(list'[u]), list'[u][i] = list'[u][j]
          PROVE  i = j
      <4>1. CASE i \in 1..Len(r) /\ j \in 1..Len(r)
        BY <2>2, <3>2, <3>4, <4>1
      <4>2. CASE i = Len(r) + 1 /\ j \in 1..Len(r)
        BY <2>3, <3>2, <3>4, <4>2
      <4>3. CASE i \in 1..Len(r) /\ j = Len(r) + 1
        BY <2>3, <3>2, <3>4, <4>3
      <4>4. CASE i = Len(r) + 1 /\ j = Len(r) + 1
        BY <4>4
      <4> QED
        BY <2>2, <3>2, <4>1, <4>2, <4>3, <4>4
    <3>5. ASSUME NEW i \in 1..Len(list'[u]), NEW j \in 1..Len(list'[u]), i < j
          PROVE  left'[list'[u][i]] <= left'[list'[u][j]]
      <4>0. i \in 1..Len(r)
        BY <2>2, <3>2, <3>5
      <4>1. CASE j \in 1..Len(r)
        BY <2>4, <3>2, <3>5, <4>0, <4>1
      <4>2. CASE j = Len(r) + 1
        <5>1. left[r[i]] <= t /\ left'[r[i]] = left[r[i]]
          BY <1>3, <1>4, <2>3, <2>6, <4>0 DEF ListsSound, NoneLater
        <5> QED
          BY <1>3, <3>2, <4>0, <4>2, <5>1
      <4> QED
        BY <2>2, <3>2, <4>1, <4>2
    <3> QED
      BY <2>6, <3>3, <3>4, <3>5
  <2> QED
    BY <2>5, <2>6
<1>6. ListedOnce'
  <2>1. ASSUME NEW u \in Timeout, NEW v \in Timeout, u # v PROVE On(u)' \cap On(v)' = {}
    <3>1. On(u) \cap On(v) = {}
      BY <2>1 DEF ListsSound, ListedOnce
    <3> QED
      BY <1>5, <2>1, <3>1
  <2> QED
    BY <1>5, <2>1 DEF ListedOnce
<1>7. NoneLater'
  <2> SUFFICES ASSUME NEW u \in Timeout, NEW p \in On(u)' PROVE left'[p] <= u
    BY DEF NoneLater
  <2>1. CASE p = o
    <3>1. u = t /\ t \in Int
      BY <1>5, <2>1, TimeoutAssumption
    <3> QED
      BY <1>3, <2>1, <3>1
  <2>2. CASE p # o
    <3>1. p \in On(u)
      BY <1>5, <2>2
    <3> QED
      BY <1>3, <1>4, <2>2, <3>1 DEF ListsSound, NoneLater
  <2> QED
    BY <2>1, <2>2
<1>8. ListSorted'
  BY <1>5 DEF ListSorted
<1> QED
  BY <1>2, <1>3, <1>6, <1>7, <1>8 DEF ListsSound

-----------------------------------------------------------------------------
(* The invariant. *)

\* The head of a list expires first.
LEMMA HeadFirst ==
  ASSUME ListsSound, NEW t \in Timeout, NEW o \in On(t)
  PROVE  list[t] # <<>> /\ left[list[t][1]] <= left[o] /\ left[list[t][1]] \in Int /\ left[o] \in Int
<1>1. PICK i \in 1..Len(list[t]) : o = list[t][i]
  BY DEF On
<1>2. list[t] \in Seq(Tmr) /\ 1 \in 1..Len(list[t]) /\ list[t] # <<>>
  BY <1>1 DEF ListsSound
<1>3. list[t][1] \in Tmr /\ o \in Tmr
  BY <1>1, <1>2, ElementOfSeq
<1>4. left[list[t][1]] \in Int /\ left[o] \in Int
  BY <1>3 DEF ListsSound
<1>5. CASE i = 1
  BY <1>1, <1>2, <1>4, <1>5
<1>6. CASE i # 1
  <2>1. 1 < i
    BY <1>6
  <2> QED
    BY <1>1, <1>2, <1>4, <2>1 DEF ListsSound, ListSorted
<1> QED
  BY <1>5, <1>6

\* epoll_wait is told to return before any timer that is armed expires.
LEMMA WakesInTime ==
  ASSUME Bounds, ListsSound
  PROVE  /\ ExpireMicroSeconds(EpWait) * PerMs \in Int
         /\ ExpireMicroSeconds(EpWait) * PerMs > 0 =>
              \A t \in Timeout : \A o \in On(t) : left[o] >= ExpireMicroSeconds(EpWait) * PerMs
<1> DEFINE Busy == {t \in Timeout : list[t] # <<>>}
           Heads == {left[list[t][1]] : t \in Busy}
           S == {EpWait * PerMs} \cup Heads
           exp == Least(S)
           ms == exp \div PerMs
<1>1. \A t \in Busy : left[list[t][1]] \in Int
  <2> SUFFICES ASSUME NEW t \in Busy PROVE left[list[t][1]] \in Int
    OBVIOUS
  <2>1. list[t] \in Seq(Tmr) /\ list[t] # <<>>
    BY DEF ListsSound
  <2>2. list[t][1] \in Tmr
    BY <2>1
  <2> QED
    BY <2>2 DEF ListsSound
<1>2. IsFiniteSet(Busy)
  BY FS_Subset DEF Bounds
<1>3. IsFiniteSet(Heads)
  <2> DEFINE g == [t \in Busy |-> left[list[t][1]]]
  <2>1. g \in Surjection(Busy, Heads)
    BY DEF Surjection
  <2> QED
    BY <1>2, <2>1, FS_Surjection
<1>4. EpWait * PerMs \in Int
  BY DEF Bounds
<1>5. S \subseteq Int /\ S # {} /\ IsFiniteSet(S)
  BY <1>1, <1>3, <1>4, FS_Union, FS_Singleton
<1>6. exp \in S /\ \A x \in S : exp <= x
  BY <1>5, LeastOfFinite
<1> HIDE DEF exp
<1>7. exp \in Int
  BY <1>5, <1>6
<1>8. ExpireMicroSeconds(EpWait) = IF exp <= 0 THEN 0 ELSE ms
  BY DEF ExpireMicroSeconds, exp
<1>9. ms \in Int /\ ms * PerMs <= exp /\ PerMs \in Nat
  BY <1>7 DEF Bounds
<1> HIDE DEF ms
<1>10. CASE exp <= 0
  <2>1. ExpireMicroSeconds(EpWait) * PerMs = 0
    BY <1>8, <1>9, <1>10
  <2> QED
    BY <2>1
<1>11. CASE ~ (exp <= 0)
  <2>1. ExpireMicroSeconds(EpWait) * PerMs = ms * PerMs /\ ms * PerMs \in Int
    BY <1>8, <1>9, <1>11
  <2> SUFFICES ASSUME NEW t \in Timeout, NEW o \in On(t) PROVE left[o] >= ms * PerMs
    BY <2>1
  <2>2. /\ list[t] # <<>> /\ left[list[t][1]] <= left[o]
        /\ left[list[t][1]] \in Int /\ left[o] \in Int
    BY HeadFirst
  <2>3. exp <= left[list[t][1]]
    BY <1>6, <2>2
  <2> QED
    BY <1>7, <1>9, <2>1, <2>2, <2>3
<1> QED
  BY <1>10, <1>11

\* The invariant holds of the timers the program starts with.
LEMMA IInvInit ==
  ASSUME Bounds, Init
  PROVE  IInv
<1>1. list[PeriodicList] \in UNION {[1..n -> Periodic] : n \in 0..1}
  BY PeriodicAssumption DEF Init
<1>2. PICK n \in 0..1 : list[PeriodicList] \in [1..n -> Periodic]
  BY <1>1
<1>3. list[PeriodicList] \in Seq(Tmr) /\ Len(list[PeriodicList]) = n
  <2>1. list[PeriodicList] \in [1..n -> Tmr]
    BY <1>2, PeriodicAssumption
  <2> QED
    BY <1>2, <2>1
<1>4. \A t \in Timeout : t # PeriodicList => list[t] = <<>> /\ On(t) = {}
  BY DEF Init, On
<1>5. list \in [Timeout -> Seq(Tmr)]
  <2>0. <<>> \in Seq(Tmr)
    OBVIOUS
  <2>1. ASSUME NEW t \in Timeout PROVE list[t] \in Seq(Tmr)
    <3>1. CASE t = PeriodicList
      BY <1>3, <3>1
    <3>2. CASE t # PeriodicList
      BY <1>4, <2>0, <3>2
    <3> QED
      BY <3>1, <3>2
  <2>2. DOMAIN list = Timeout /\ list = [t \in DOMAIN list |-> list[t]]
    BY DEF Init
  <2> QED
    BY <2>1, <2>2
<1>6. left \in [Tmr -> Int] /\ \A o \in Periodic : left[o] = PeriodicList
  <2>1. PeriodicList \in Int
    BY PeriodicAssumption, TimeoutAssumption
  <2>2. left = [o \in Tmr |-> IF o \in Periodic THEN PeriodicList ELSE 0]
    BY DEF Init
  <2>3. \A o \in Tmr : (IF o \in Periodic THEN PeriodicList ELSE 0) \in Int
    BY <2>1
  <2>4. left \in [Tmr -> Int]
    BY <2>2, <2>3
  <2>5. \A o \in Periodic : left[o] = PeriodicList
    BY <2>2, PeriodicAssumption
  <2> QED
    BY <2>4, <2>5
<1>7. On(PeriodicList) \subseteq Periodic
  BY <1>2, <1>3 DEF On
<1>8. TypeOK
  <2>1. todo \in Seq(Timeout)
    BY DEF Init
  <2>2. late \in Nat /\ wake \in Int /\ phase \in Phase /\ call \in Tmr \cup {None}
    BY DEF Init, Phase
  <2> QED
    BY <1>5, <1>6, <2>1, <2>2 DEF TypeOK
<1>9. ListedOnce
  <2>1. \A t \in Timeout : \A i, j \in 1..Len(list[t]) : i = j
    BY <1>2, <1>3, <1>4
  <2> QED
    BY <1>4, <2>1 DEF ListedOnce
<1>10. NoneLater
  BY <1>4, <1>6, <1>7, PeriodicAssumption, TimeoutAssumption DEF NoneLater
<1>11. ListSorted
  BY <1>2, <1>3, <1>4 DEF ListSorted
<1> QED
  BY <1>8, <1>9, <1>10, <1>11 DEF IInv, Init, NeverOversleeps

\* Every step keeps it: what handlers do, the loop, and time.
LEMMA IInvStep ==
  ASSUME Bounds, IInv, [Next]_vars
  PROVE  IInv'
<1>0. ListsSound
  BY DEF IInv, TypeOK, ListsSound
<1>1. ASSUME NEW o \in Tmr, DisableTimer(o) PROVE IInv'
  <2>1. ListsSound'
    BY <1>0, <1>1, ResetKeeps DEF DisableTimer
  <2>2. phase # "wait"
    BY <1>1 DEF DisableTimer, Running, IInv
  <2> QED
    BY <1>1, <2>1, <2>2 DEF DisableTimer, IInv, TypeOK, ListsSound, NeverOversleeps
<1>2. ASSUME NEW o \in Tmr, NEW t \in Timeout, Attach(o, t) PROVE IInv'
  <2>1. ListsSound'
    BY <1>0, <1>2, AttachKeeps DEF Attach
  <2>2. phase # "wait"
    BY <1>2 DEF Attach, Running, IInv
  <2> QED
    BY <1>2, <2>1, <2>2 DEF Attach, IInv, TypeOK, ListsSound, NeverOversleeps
<1>3. CASE WaitPollerEvents
  <2>1. wake' \in Int /\ (wake' > 0 => \A t \in Timeout : \A o \in On(t) : left[o] >= wake')
    BY <1>0, <1>3, WakesInTime DEF WaitPollerEvents
  <2>2. \A t \in Timeout : On(t)' = On(t)
    BY <1>3 DEF WaitPollerEvents, On
  <2>3. NeverOversleeps'
    BY <1>3, <2>1, <2>2 DEF WaitPollerEvents, NeverOversleeps
  <2>4. ListedOnce' /\ NoneLater' /\ ListSorted'
    BY <1>3, <2>2 DEF WaitPollerEvents, IInv, ListedOnce, NoneLater, ListSorted
  <2>5. TypeOK'
    BY <1>3, <2>1 DEF WaitPollerEvents, IInv, TypeOK, Phase
  <2>6. call' = None
    BY <1>3 DEF WaitPollerEvents, IInv
  <2> QED
    BY <2>3, <2>4, <2>5, <2>6 DEF IInv
<1>4. CASE Return \/ CheckExpired \/ NextList \/ CheckedExpired
  <2>1. \A t \in Timeout : On(t)' = On(t)
    BY <1>4 DEF Return, CheckExpired, NextList, CheckedExpired, On
  <2>2. UNCHANGED <<list, left, call>> /\ phase' # "wait"
    BY <1>4 DEF Return, CheckExpired, NextList, CheckedExpired
  <2>3. ListedOnce' /\ NoneLater' /\ ListSorted'
    BY <2>1, <2>2 DEF IInv, ListedOnce, NoneLater, ListSorted
  <2>4. TypeOK'
    <3>1. todo' \in Seq(Timeout)
      BY <1>4, HeadTailProperties DEF Return, CheckExpired, NextList, CheckedExpired, IInv, TypeOK, Bounds
    <3>2. late' \in Nat /\ wake' \in Int /\ phase' \in Phase
      BY <1>4 DEF Return, CheckExpired, NextList, CheckedExpired, IInv, TypeOK, Phase
    <3> QED
      BY <2>2, <3>1, <3>2 DEF IInv, TypeOK
  <2>5. call' # None => phase' = "timers"
    BY <1>4 DEF Return, CheckExpired, NextList, CheckedExpired, IInv
  <2> QED
    BY <2>2, <2>3, <2>4, <2>5 DEF IInv, NeverOversleeps
<1>5. CASE Expire
  <2>1. todo \in Seq(Timeout) /\ todo # <<>> /\ list[todo[1]] # <<>>
    BY <1>5 DEF Expire, Expired, IInv, TypeOK
  <2>2. todo[1] \in Timeout
    BY <2>1
  <2>3. list[todo[1]] \in Seq(Tmr)
    BY <2>2 DEF IInv, TypeOK
  <2>4. call' \in Tmr
    BY <1>5, <2>1, <2>3 DEF Expire
  <2>5. PICK o \in Tmr : o = call'
    BY <2>4
  <2>6. L!Reset(o) /\ left' = [left EXCEPT ![o] = 0]
    BY <1>5, <2>5 DEF Expire
  <2>7. ListsSound'
    BY <1>0, <2>6, ResetKeeps
  <2> QED
    BY <1>5, <2>4, <2>7 DEF Expire, IInv, TypeOK, ListsSound, NeverOversleeps
<1>6. CASE Notified
  <2>1. phase = "timers" /\ call \in Tmr
    BY <1>6 DEF Notified, IInv, TypeOK
  <2>2. ListsSound'
    <3>1. CASE call \in Periodic
      <4>1. AttachTimer(call, PeriodicList)
        BY <1>6, <3>1 DEF Notified
      <4> QED
        BY <1>0, <2>1, <4>1, PeriodicAssumption, AttachKeeps
    <3>2. CASE call \notin Periodic
      <4>1. UNCHANGED <<list, left>>
        BY <1>6, <3>2 DEF Notified
      <4>2. \A t \in Timeout : On(t)' = On(t)
        BY <4>1 DEF On
      <4> QED
        BY <1>0, <4>1, <4>2 DEF ListsSound, ListedOnce, NoneLater, ListSorted
    <3> QED
      BY <3>1, <3>2
  <2> QED
    BY <1>6, <2>1, <2>2 DEF Notified, IInv, TypeOK, ListsSound, NeverOversleeps
<1>7. CASE Tick
  <2>1. UNCHANGED <<list, phase, todo, call>> /\ \A t \in Timeout : On(t)' = On(t)
    BY <1>7 DEF Tick, On
  <2>2. \A t \in Timeout : On(t) \subseteq Tmr
    BY ElementOfSeq DEF On, IInv, TypeOK
  <2>3. left' \in [Tmr -> Int]
    BY <1>7 DEF Tick, IInv, TypeOK
  <2>4. \A t \in Timeout : \A o \in On(t) : left'[o] = left[o] - 1
    BY <1>7, <2>2 DEF Tick, Armed
  <2>5. wake' \in Int /\ late' \in Nat
    BY <1>7 DEF Tick, IInv, TypeOK
  <2>6. TypeOK'
    BY <2>1, <2>3, <2>5 DEF IInv, TypeOK
  <2>7. NoneLater'
    <3> SUFFICES ASSUME NEW t \in Timeout, NEW o \in On(t) PROVE left'[o] <= t
      BY <2>1 DEF NoneLater
    <3>1. left[o] <= t /\ left[o] \in Int /\ t \in Int
      BY <2>2, TimeoutAssumption DEF IInv, TypeOK, NoneLater
    <3> QED
      BY <2>4, <3>1
  <2>8. ListSorted'
    <3> SUFFICES ASSUME NEW t \in Timeout, NEW i \in 1..Len(list[t]), NEW j \in 1..Len(list[t]), i < j
                 PROVE  left'[list[t][i]] <= left'[list[t][j]]
      BY <2>1 DEF ListSorted
    <3>1. list[t][i] \in On(t) /\ list[t][j] \in On(t)
      BY DEF On
    <3>2. left[list[t][i]] <= left[list[t][j]]
      BY DEF IInv, ListSorted
    <3>3. left[list[t][i]] \in Int /\ left[list[t][j]] \in Int
      BY <2>2, <3>1 DEF IInv, TypeOK
    <3>4. left'[list[t][i]] = left[list[t][i]] - 1 /\ left'[list[t][j]] = left[list[t][j]] - 1
      BY <2>4, <3>1
    <3> QED
      BY <3>2, <3>3, <3>4
  <2>9. ListedOnce'
    BY <2>1 DEF IInv, ListedOnce
  <2>10. NeverOversleeps'
    <3> SUFFICES ASSUME phase = "wait", wake' > 0, NEW t \in Timeout, NEW o \in On(t)
                 PROVE  left'[o] >= wake'
      BY <2>1 DEF NeverOversleeps
    <3>1. wake > 0 /\ wake' = wake - 1 /\ wake \in Int
      BY <1>7 DEF Tick, IInv, TypeOK
    <3>2. left[o] >= wake /\ left[o] \in Int
      BY <2>2, <3>1 DEF IInv, TypeOK, NeverOversleeps
    <3> QED
      BY <2>4, <3>1, <3>2
  <2> QED
    BY <2>1, <2>6, <2>7, <2>8, <2>9, <2>10 DEF IInv
<1>8. CASE UNCHANGED vars
  <2>1. UNCHANGED vars /\ \A t \in Timeout : On(t)' = On(t)
    BY <1>8 DEF vars, On
  <2> QED
    BY <2>1 DEF vars, IInv, TypeOK, ListedOnce, NoneLater, ListSorted, NeverOversleeps
<1> QED
  BY <1>1, <1>2, <1>3, <1>4, <1>5, <1>6, <1>7, <1>8 DEF Next, LoopStep

\* However handlers arm, renew and disable timers, each list is sorted by expiry, and
\* epoll_wait never sleeps past the first of them (timerlist.cpp:35, :90).
THEOREM SleepsRightTheorem ==
  ASSUME Bounds
  PROVE  Spec => []SleepsRight
<1>1. IInv => SleepsRight
  BY DEF IInv, SleepsRight
<1>2. Init => IInv
  BY IInvInit
<1>3. IInv /\ [Next]_vars => IInv'
  BY IInvStep
<1> QED
  BY <1>1, <1>2, <1>3, PTL DEF Spec

-----------------------------------------------------------------------------
(* Induction and iteration. *)

\* A set of numbers with 0 and with the successor of each of its numbers is all of them.
LEMMA AllNumbers ==
  ASSUME NEW G, 0 \in G, \A n \in Nat : n \in G => n + 1 \in G
  PROVE  \A n \in Nat : n \in G
<1> SUFFICES ASSUME Nat \ G # {} PROVE FALSE
  OBVIOUS
<1>1. PICK n \in Nat \ G : \A m \in Nat \ G : ~ (<<m, n>> \in OpToRel(<, Nat))
  BY NatLessThanWellFounded, WFMin
<1>2. n \in Nat /\ n \notin G /\ \A m \in Nat \ G : ~ (m < n)
  <2> SUFFICES ASSUME NEW m \in Nat \ G PROVE ~ (m < n)
    OBVIOUS
  <2>1. m \in Nat /\ n \in Nat
    OBVIOUS
  <2> QED
    BY <1>1, <2>1 DEF OpToRel
<1>3. n # 0
  BY <1>2
<1>4. n - 1 \in Nat /\ (n - 1) + 1 = n /\ n - 1 < n
  BY <1>2, <1>3
<1>5. n - 1 \in G
  BY <1>2, <1>4
<1> QED
  BY <1>2, <1>4, <1>5

\* The values of a step on S repeated N times from x.
Repeated(f, S, step, x, N) == f \in [0..N -> S] /\ f[0] = x /\ \A i \in 1..N : f[i] = step[f[i-1]]

\* A step on a set can be repeated any number of times.
LEMMA Iterates ==
  ASSUME NEW S, NEW step \in [S -> S], NEW x \in S, NEW N \in Nat
  PROVE  \E f : Repeated(f, S, step, x, N)
<1> DEFINE G == {n \in Nat : \E f : Repeated(f, S, step, x, n)}
<1>1. 0 \in G
  <2> DEFINE f == [i \in 0..0 |-> x]
  <2>1. f \in [0..0 -> S] /\ f[0] = x /\ \A i \in 1..0 : f[i] = step[f[i-1]]
    OBVIOUS
  <2> QED
    BY <2>1 DEF Repeated
<1>2. ASSUME NEW n \in Nat, n \in G PROVE n + 1 \in G
  <2>1. PICK f \in [0..n -> S] : f[0] = x /\ \A i \in 1..n : f[i] = step[f[i-1]]
    BY <1>2 DEF Repeated
  <2> DEFINE g == [i \in 0..n+1 |-> IF i = n + 1 THEN step[f[n]] ELSE f[i]]
  <2>2. f[n] \in S /\ step[f[n]] \in S
    BY <2>1
  <2>3. g \in [0..n+1 -> S] /\ g[0] = x
    BY <2>1, <2>2
  <2>4. ASSUME NEW i \in 1..n+1 PROVE g[i] = step[g[i-1]]
    BY <2>1
  <2>5. Repeated(g, S, step, x, n + 1)
    BY <2>3, <2>4 DEF Repeated
  <2> QED
    BY <2>5
<1> HIDE DEF G
<1>3. N \in G
  BY <1>1, <1>2, AllNumbers
<1> QED
  BY <1>3 DEF G

-----------------------------------------------------------------------------
(* Pointers that represent lists. *)

\* What is asked of the constants.
NodesOnly == IsFiniteSet(Node) /\ Anchor \cap Node = {}

Tables == [next : [Cell -> Cell], prev : [Cell -> Cell]]

OnList(s, h) == {s[h][i] : i \in 1..Len(s[h])}

\* Lists of nodes, each node at most once on at most one.
Placed(s) ==
  /\ s \in [Anchor -> Seq(Node)]
  /\ \A h \in Anchor : Distinct(s[h])
  /\ \A g, h \in Anchor : g # h => OnList(s, g) \cap OnList(s, h) = {}

\* The cells of a list in a round: the head, the nodes, the head again.
At(s, h, i) == IF i \in 1..Len(s[h]) THEN s[h][i] ELSE h

\* The pointers T go around the lists s; nodes on no list, but for those of X, point
\* at themselves.
Represents(T, s, X) ==
  /\ T \in Tables /\ Placed(s)
  /\ \A h \in Anchor : \A i \in 0..Len(s[h]) :
       /\ T.next[At(s, h, i)] = At(s, h, i + 1)
       /\ T.prev[At(s, h, i + 1)] = At(s, h, i)
  /\ \A n \in Node \ X :
       (\A h \in Anchor : n \notin OnList(s, h)) => T.next[n] = n /\ T.prev[n] = n

\* A cell is met once in the rounds of all lists.
LEMMA MetOnce ==
  ASSUME NodesOnly, NEW s, Placed(s), NEW g \in Anchor, NEW h \in Anchor
  PROVE  /\ Len(s[h]) \in Nat
         /\ \A i \in Int : At(s, h, i) \in Cell
         /\ \A i \in 1..Len(s[h]) : At(s, h, i) \in OnList(s, h) /\ At(s, h, i) \in Node
         /\ \A i \in 0..Len(s[g]), j \in 0..Len(s[h]) : At(s, g, i) = At(s, h, j) => g = h /\ i = j
         /\ \A i \in 1..Len(s[g])+1, j \in 1..Len(s[h])+1 :
              At(s, g, i) = At(s, h, j) => g = h /\ i = j
<1>1. s[g] \in Seq(Node) /\ s[h] \in Seq(Node) /\ Len(s[g]) \in Nat /\ Len(s[h]) \in Nat
  BY DEF Placed
<1>2. \A i \in 1..Len(s[h]) : s[h][i] \in Node /\ s[h][i] \in OnList(s, h)
  BY <1>1, ElementOfSeq DEF OnList
<1>3. \A i \in 1..Len(s[g]) : s[g][i] \in Node /\ s[g][i] \in OnList(s, g)
  BY <1>1, ElementOfSeq DEF OnList
<1>4. \A i \in 1..Len(s[h]) : At(s, h, i) \in OnList(s, h) /\ At(s, h, i) \in Node
  BY <1>2 DEF At
<1>5. \A i \in Int : At(s, h, i) \in Cell
  BY <1>2 DEF At, Cell
<1>6. \A i \in 1..Len(s[g]), j \in 1..Len(s[h]) : s[g][i] = s[h][j] => g = h /\ i = j
  BY <1>2, <1>3 DEF Placed, Distinct
<1>7. \A i, j \in Int : (At(s, g, i) = At(s, h, j)) =>
        \/ i \in 1..Len(s[g]) /\ j \in 1..Len(s[h]) /\ s[g][i] = s[h][j]
        \/ i \notin 1..Len(s[g]) /\ j \notin 1..Len(s[h]) /\ g = h
  BY <1>2, <1>3 DEF At, NodesOnly
<1>8. ASSUME NEW i \in 0..Len(s[g]), NEW j \in 0..Len(s[h]), At(s, g, i) = At(s, h, j)
      PROVE  g = h /\ i = j
  <2>1. \/ i \in 1..Len(s[g]) /\ j \in 1..Len(s[h]) /\ s[g][i] = s[h][j]
        \/ i \notin 1..Len(s[g]) /\ j \notin 1..Len(s[h]) /\ g = h
    BY <1>7, <1>8
  <2>2. CASE i \notin 1..Len(s[g]) /\ j \notin 1..Len(s[h]) /\ g = h
    <3>1. i = 0 /\ j = 0
      BY <1>1, <2>2
    <3> QED
      BY <2>2, <3>1
  <2> QED
    BY <1>6, <2>1, <2>2
<1>9. ASSUME NEW i \in 1..Len(s[g])+1, NEW j \in 1..Len(s[h])+1, At(s, g, i) = At(s, h, j)
      PROVE  g = h /\ i = j
  <2>1. \/ i \in 1..Len(s[g]) /\ j \in 1..Len(s[h]) /\ s[g][i] = s[h][j]
        \/ i \notin 1..Len(s[g]) /\ j \notin 1..Len(s[h]) /\ g = h
    BY <1>7, <1>9
  <2>2. CASE i \notin 1..Len(s[g]) /\ j \notin 1..Len(s[h]) /\ g = h
    <3>1. i = Len(s[g]) + 1 /\ j = Len(s[h]) + 1
      BY <1>1, <2>2
    <3> QED
      BY <2>2, <3>1
  <2> QED
    BY <1>6, <2>1, <2>2
<1> QED
  BY <1>1, <1>4, <1>5, <1>8, <1>9

\* Abstract!Without on a list whose nodes are distinct.
LEMMA Shortened ==
  ASSUME NEW s \in Seq(Node), Distinct(s), NEW n, NEW k \in 1..Len(s), s[k] = n
  PROVE  /\ Abstract!Without(s, n) \in Seq(Node) /\ Len(Abstract!Without(s, n)) = Len(s) - 1
         /\ \A i \in 1..Len(s)-1 : Abstract!Without(s, n)[i] = IF i < k THEN s[i] ELSE s[i + 1]
<1>1. (CHOOSE i \in 1..Len(s) : s[i] = n) = k
  BY DEF Distinct
<1>2. Abstract!Without(s, n) = RemoveAt(s, k)
  BY <1>1 DEF Abstract!Without, Abstract!RemoveAt, RemoveAt
<1> QED
  BY <1>2, CutOut

\* The lists without n.
WithoutNode(s, n) == [h \in Anchor |-> Abstract!Without(s[h], n)]

\* The place of n on its list.
LEMMA OneShorter ==
  ASSUME NodesOnly, NEW s, Placed(s), NEW g \in Anchor, NEW k \in 1..Len(s[g]), NEW n, n = s[g][k]
  PROVE  /\ Placed(WithoutNode(s, n))
         /\ \A h \in Anchor : n \notin OnList(WithoutNode(s, n), h)
         /\ Len(WithoutNode(s, n)[g]) = Len(s[g]) - 1
         /\ \A i \in 0..Len(s[g]) : At(WithoutNode(s, n), g, i) = IF i < k THEN At(s, g, i)
                                                                  ELSE At(s, g, i + 1)
         /\ \A h \in Anchor \ {g} : WithoutNode(s, n)[h] = s[h]
         /\ \A m \in Node, h \in Anchor : m \in OnList(s, h) /\ m # n => m \in OnList(WithoutNode(s, n), h)
<1> DEFINE r == WithoutNode(s, n)
<1>1. /\ \A h \in Anchor : s[h] \in Seq(Node) /\ Len(s[h]) \in Nat /\ Distinct(s[h])
      /\ n \in OnList(s, g)
  BY DEF Placed, OnList
<1>2. /\ r[g] \in Seq(Node) /\ Len(r[g]) = Len(s[g]) - 1
      /\ \A i \in 1..Len(s[g])-1 : r[g][i] = IF i < k THEN s[g][i] ELSE s[g][i + 1]
  <2>1. r[g] = Abstract!Without(s[g], n)
    BY DEF WithoutNode
  <2> QED
    <3> HIDE DEF r
    <3>1. PICK q : q = s[g]
      OBVIOUS
    <3>2. q \in Seq(Node) /\ Distinct(q) /\ q[k] = n /\ k \in 1..Len(q)
      BY <1>1, <3>1
    <3>3. /\ Abstract!Without(q, n) \in Seq(Node) /\ Len(Abstract!Without(q, n)) = Len(q) - 1
          /\ \A i \in 1..Len(q)-1 : Abstract!Without(q, n)[i] = IF i < k THEN q[i] ELSE q[i + 1]
      BY <3>2, Shortened
    <3> QED
      BY <2>1, <3>1, <3>3
<1>3. ASSUME NEW h \in Anchor \ {g} PROVE r[h] = s[h]
  <2>1. n \notin OnList(s, h)
    BY <1>1 DEF Placed
  <2>2. ~ \E i \in 1..Len(s[h]) : s[h][i] = n
    BY <2>1 DEF OnList
  <2> QED
    BY <2>2 DEF WithoutNode, Abstract!Without
<1> HIDE DEF r
<1>4. r \in [Anchor -> Seq(Node)]
  <2>1. \A h \in Anchor : r[h] \in Seq(Node)
    BY <1>1, <1>2, <1>3
  <2>2. r = [h \in Anchor |-> r[h]]
    BY DEF r, WithoutNode
  <2> QED
    BY <2>1, <2>2
<1>5. \A i \in 1..Len(r[g]) : \E j \in 1..Len(s[g]) : j # k /\ r[g][i] = s[g][j] /\ j = IF i < k THEN i ELSE i + 1
  BY <1>1, <1>2
<1>6. Distinct(r[g])
  <2> SUFFICES ASSUME NEW i \in 1..Len(r[g]), NEW j \in 1..Len(r[g]), r[g][i] = r[g][j] PROVE i = j
    BY DEF Distinct
  <2>1. PICK a \in 1..Len(s[g]) : r[g][i] = s[g][a] /\ a = IF i < k THEN i ELSE i + 1
    BY <1>5
  <2>2. PICK b \in 1..Len(s[g]) : r[g][j] = s[g][b] /\ b = IF j < k THEN j ELSE j + 1
    BY <1>5
  <2>3. a = b
    BY <1>1, <2>1, <2>2 DEF Distinct
  <2> QED
    BY <1>1, <1>2, <2>1, <2>2, <2>3
<1>7. OnList(r, g) \subseteq OnList(s, g) /\ n \notin OnList(r, g)
  <2> SUFFICES ASSUME NEW i \in 1..Len(r[g]) PROVE r[g][i] \in OnList(s, g) /\ r[g][i] # n
    BY DEF OnList
  <2>1. PICK j \in 1..Len(s[g]) : j # k /\ r[g][i] = s[g][j]
    BY <1>5
  <2>2. s[g][j] # s[g][k]
    BY <1>1, <2>1 DEF Distinct
  <2> QED
    BY <2>1, <2>2 DEF OnList
<1>8. ASSUME NEW h \in Anchor \ {g} PROVE OnList(r, h) = OnList(s, h) /\ n \notin OnList(r, h)
  <2>1. OnList(r, h) = OnList(s, h)
    BY <1>3 DEF OnList
  <2> QED
    BY <1>1, <2>1 DEF Placed
<1>9. Placed(r)
  <2>1. \A h \in Anchor : Distinct(r[h])
    BY <1>1, <1>3, <1>6
  <2>2. ASSUME NEW f \in Anchor, NEW h \in Anchor, f # h PROVE OnList(r, f) \cap OnList(r, h) = {}
    <3>1. OnList(r, f) \subseteq OnList(s, f) /\ OnList(r, h) \subseteq OnList(s, h)
      BY <1>7, <1>8
    <3> QED
      BY <2>2, <3>1 DEF Placed
  <2> QED
    BY <1>4, <2>1, <2>2 DEF Placed
<1>10. ASSUME NEW i \in 0..Len(s[g])
       PROVE  At(r, g, i) = IF i < k THEN At(s, g, i) ELSE At(s, g, i + 1)
  <2>1. CASE i = 0
    <3>1. i \notin 1..Len(r[g]) /\ i \notin 1..Len(s[g]) /\ i < k
      BY <2>1
    <3> QED
      BY <3>1 DEF At
  <2>2. CASE i \in 1..Len(s[g])-1
    <3>1. i \in 1..Len(r[g]) /\ i \in 1..Len(s[g]) /\ i + 1 \in 1..Len(s[g])
      BY <1>1, <1>2, <2>2
    <3> QED
      BY <1>2, <2>2, <3>1 DEF At
  <2>3. CASE i = Len(s[g])
    <3>1. i \notin 1..Len(r[g]) /\ i + 1 \notin 1..Len(s[g]) /\ ~ (i < k)
      BY <1>1, <1>2, <2>3
    <3> QED
      BY <3>1 DEF At
  <2> QED
    BY <1>1, <2>1, <2>2, <2>3
<1>11. ASSUME NEW m \in Node, NEW h \in Anchor, m \in OnList(s, h), m # n PROVE m \in OnList(r, h)
  <2>1. CASE h # g
    BY <1>8, <1>11, <2>1
  <2>2. CASE h = g
    <3>1. PICK j \in 1..Len(s[g]) : m = s[g][j]
      BY <1>11, <2>2 DEF OnList
    <3>2. j # k
      BY <1>11, <3>1
    <3>3. CASE j < k
      <4>1. j \in 1..Len(s[g])-1 /\ j \in 1..Len(r[g])
        BY <1>1, <1>2, <3>3
      <4> QED
        BY <1>2, <2>2, <3>1, <3>3, <4>1 DEF OnList
    <3>4. CASE j > k
      <4>1. j - 1 \in 1..Len(s[g])-1 /\ j - 1 \in 1..Len(r[g]) /\ ~ (j - 1 < k) /\ (j - 1) + 1 = j
        BY <1>1, <1>2, <3>4
      <4>2. r[g][j - 1] = m
        BY <1>2, <3>1, <4>1
      <4> QED
        BY <2>2, <4>1, <4>2 DEF OnList
    <3> QED
      BY <1>1, <3>2, <3>3, <3>4
  <2> QED
    BY <2>1, <2>2
<1> QED
  BY <1>2, <1>3, <1>7, <1>8, <1>9, <1>10, <1>11 DEF r

-----------------------------------------------------------------------------
(* What the inline functions do to pointers that represent lists. *)

\* __list_del: the neighbours of e, itself if it is on no list, are linked past it.
LEMMA Unlinked ==
  ASSUME NodesOnly, NEW T, NEW s, Represents(T, s, {}), NEW e \in Node
  PROVE  /\ Represents(ListDel(T, T.prev[e], T.next[e]), WithoutNode(s, e), {e})
         /\ \A h \in Anchor : e \notin OnList(WithoutNode(s, e), h)
<1> DEFINE r == WithoutNode(s, e)
           U == ListDel(T, T.prev[e], T.next[e])
<1>1. /\ T \in Tables /\ Placed(s) /\ e \in Cell
      /\ \A h \in Anchor : s[h] \in Seq(Node) /\ Len(s[h]) \in Nat
  BY DEF Represents, Placed, Cell
<1>2. T.next \in [Cell -> Cell] /\ T.prev \in [Cell -> Cell]
  BY <1>1 DEF Tables
<1>3. U \in Tables
  BY <1>1, <1>2 DEF ListDel, Tables
<1>4. CASE \A h \in Anchor : e \notin OnList(s, h)
  <2>1. T.next[e] = e /\ T.prev[e] = e
    BY <1>4 DEF Represents
  <2>2. U.next = T.next /\ U.prev = T.prev
    BY <1>2, <2>1 DEF ListDel
  <2>3. r = s
    <3>1. \A h \in Anchor : Abstract!Without(s[h], e) = s[h]
      BY <1>4 DEF OnList, Abstract!Without
    <3>2. s = [h \in Anchor |-> s[h]]
      BY <1>1 DEF Placed
    <3> QED
      BY <3>1, <3>2 DEF WithoutNode
  <2> QED
    BY <1>3, <1>4, <2>2, <2>3 DEF Represents
<1>5. CASE \E h \in Anchor : e \in OnList(s, h)
  <2>0. PICK g \in Anchor : e \in OnList(s, g)
    BY <1>5
  <2>1. PICK k \in 1..Len(s[g]) : e = s[g][k]
    BY <2>0 DEF OnList
  <2>2. /\ Placed(r)
        /\ \A h \in Anchor : e \notin OnList(r, h)
        /\ Len(r[g]) = Len(s[g]) - 1
        /\ \A i \in 0..Len(s[g]) : At(r, g, i) = IF i < k THEN At(s, g, i) ELSE At(s, g, i + 1)
        /\ \A h \in Anchor \ {g} : r[h] = s[h]
        /\ \A m \in Node, h \in Anchor : m \in OnList(s, h) /\ m # e => m \in OnList(r, h)
    BY <1>1, <2>1, OneShorter
  <2> HIDE DEF r
  <2>3. Len(s[g]) \in Nat /\ k - 1 \in 0..Len(s[g]) /\ k \in 0..Len(s[g]) /\ (k - 1) + 1 = k /\ k \in Int
    BY <1>1
  <2>4. At(s, g, k) = e
    BY <2>1 DEF At
  <2>5. T.prev[e] = At(s, g, k - 1) /\ T.next[e] = At(s, g, k + 1)
    BY <2>3, <2>4 DEF Represents
  <2>6. /\ At(s, g, k - 1) \in Cell /\ At(s, g, k + 1) \in Cell
        /\ U.next = [T.next EXCEPT ![At(s, g, k - 1)] = At(s, g, k + 1)]
        /\ U.prev = [T.prev EXCEPT ![At(s, g, k + 1)] = At(s, g, k - 1)]
    BY <1>1, <2>3, <2>5, MetOnce DEF ListDel
  <2> HIDE DEF U
  <2>7. ASSUME NEW h \in Anchor, NEW i \in 0..Len(r[h])
        PROVE  U.next[At(r, h, i)] = At(r, h, i + 1) /\ U.prev[At(r, h, i + 1)] = At(r, h, i)
    <3>1. CASE h # g
      <4>1. /\ r[h] = s[h] /\ Len(s[h]) \in Nat /\ i \in 0..Len(s[h]) /\ i + 1 \in 1..Len(s[h])+1
            /\ i + 1 \in Int /\ i \in Int
        BY <1>1, <2>2, <3>1
      <4>2. At(r, h, i) = At(s, h, i) /\ At(r, h, i + 1) = At(s, h, i + 1)
        BY <4>1 DEF At
      <4>3. T.next[At(s, h, i)] = At(s, h, i + 1) /\ T.prev[At(s, h, i + 1)] = At(s, h, i)
        BY <4>1 DEF Represents
      <4>4. At(s, h, i) # At(s, g, k - 1)
        BY <1>1, <2>3, <3>1, <4>1, MetOnce
      <4>5. k + 1 \in 1..Len(s[g])+1
        BY <2>3
      <4>6. At(s, h, i + 1) # At(s, g, k + 1)
        BY <1>1, <3>1, <4>1, <4>5, MetOnce
      <4>7. At(s, h, i) \in Cell /\ At(s, h, i + 1) \in Cell
        BY <1>1, <4>1, MetOnce
      <4> QED
        BY <1>2, <2>6, <4>2, <4>3, <4>4, <4>6, <4>7
    <3>2. CASE h = g
      <4>0. i \in 0..Len(s[g])-1 /\ i \in Int /\ i + 1 \in 0..Len(s[g]) /\ i \in 0..Len(s[g])
        BY <1>1, <2>2, <3>2
      <4>1. /\ At(r, g, i) = IF i < k THEN At(s, g, i) ELSE At(s, g, i + 1)
            /\ At(r, g, i + 1) = IF i + 1 < k THEN At(s, g, i + 1) ELSE At(s, g, (i + 1) + 1)
        BY <2>2, <4>0
      <4>2. CASE i < k - 1
        <5>1. At(r, g, i) = At(s, g, i) /\ At(r, g, i + 1) = At(s, g, i + 1)
          BY <2>3, <4>0, <4>1, <4>2
        <5>2. T.next[At(s, g, i)] = At(s, g, i + 1) /\ T.prev[At(s, g, i + 1)] = At(s, g, i)
          BY <4>0 DEF Represents
        <5>3. At(s, g, i) # At(s, g, k - 1)
          BY <1>1, <2>3, <4>0, <4>2, MetOnce
        <5>4. k + 1 \in 1..Len(s[g])+1 /\ i + 1 \in 1..Len(s[g])+1 /\ i + 1 # k + 1
          BY <2>3, <4>0, <4>2
        <5>5. At(s, g, i + 1) # At(s, g, k + 1)
          BY <1>1, <5>4, MetOnce
        <5>6. At(s, g, i) \in Cell /\ At(s, g, i + 1) \in Cell
          BY <1>1, <4>0, MetOnce
        <5> QED
          BY <1>2, <2>6, <3>2, <5>1, <5>2, <5>3, <5>5, <5>6
      <4>3. CASE i = k - 1
        <5>1. At(r, g, i) = At(s, g, k - 1) /\ At(r, g, i + 1) = At(s, g, k + 1)
          BY <2>3, <4>0, <4>1, <4>3
        <5> QED
          BY <1>2, <2>6, <3>2, <5>1
      <4>4. CASE i > k - 1
        <5>1. At(r, g, i) = At(s, g, i + 1) /\ At(r, g, i + 1) = At(s, g, (i + 1) + 1)
          BY <2>3, <4>0, <4>1, <4>4
        <5>2. T.next[At(s, g, i + 1)] = At(s, g, (i + 1) + 1) /\ T.prev[At(s, g, (i + 1) + 1)] = At(s, g, i + 1)
          BY <4>0 DEF Represents
        <5>3. i + 1 # k - 1
          BY <2>3, <4>0, <4>4
        <5>4. At(s, g, i + 1) # At(s, g, k - 1)
          BY <1>1, <2>3, <4>0, <5>3, MetOnce
        <5>5. k + 1 \in 1..Len(s[g])+1 /\ (i + 1) + 1 \in 1..Len(s[g])+1 /\ (i + 1) + 1 # k + 1 /\ (i + 1) + 1 \in Int
          BY <2>3, <4>0, <4>4
        <5>6. At(s, g, (i + 1) + 1) # At(s, g, k + 1)
          BY <1>1, <5>5, MetOnce
        <5>7. At(s, g, i + 1) \in Cell /\ At(s, g, (i + 1) + 1) \in Cell
          BY <1>1, <4>0, <5>5, MetOnce
        <5> QED
          BY <1>2, <2>6, <3>2, <5>1, <5>2, <5>4, <5>6, <5>7
      <4> QED
        BY <2>3, <4>0, <4>2, <4>3, <4>4
    <3> QED
      BY <3>1, <3>2
  <2>8. ASSUME NEW n \in Node \ {e}, \A h \in Anchor : n \notin OnList(r, h)
        PROVE  U.next[n] = n /\ U.prev[n] = n
    <3>1. \A h \in Anchor : n \notin OnList(s, h)
      BY <2>2, <2>8
    <3>2. T.next[n] = n /\ T.prev[n] = n
      BY <3>1 DEF Represents
    <3>3. n # At(s, g, k - 1) /\ n # At(s, g, k + 1)
      <4>1. ASSUME NEW j \in Int PROVE n # At(s, g, j)
        <5>1. CASE j \in 1..Len(s[g])
          BY <1>1, <3>1, <5>1, MetOnce
        <5>2. CASE j \notin 1..Len(s[g])
          BY <5>2 DEF At, NodesOnly
        <5> QED
          BY <5>1, <5>2
      <4> QED
        BY <2>3, <4>1
    <3> QED
      BY <1>2, <2>6, <3>2, <3>3 DEF Cell
  <2> QED
    BY <1>3, <2>2, <2>7, <2>8 DEF Represents, r, U
<1> QED
  BY <1>4, <1>5

\* INIT_LIST_HEAD: a node on no list points at itself again.
LEMMA Isolated ==
  ASSUME NodesOnly, NEW T, NEW s, NEW e \in Node, Represents(T, s, {e}),
         \A h \in Anchor : e \notin OnList(s, h)
  PROVE  Represents(InitListHead(T, e), s, {})
<1> DEFINE U == InitListHead(T, e)
<1>1. /\ T \in Tables /\ Placed(s) /\ e \in Cell
      /\ \A h \in Anchor : s[h] \in Seq(Node) /\ Len(s[h]) \in Nat
  BY DEF Represents, Placed, Cell
<1>2. T.next \in [Cell -> Cell] /\ T.prev \in [Cell -> Cell]
  BY <1>1 DEF Tables
<1>3. /\ U \in Tables
      /\ U.next = [T.next EXCEPT ![e] = e] /\ U.prev = [T.prev EXCEPT ![e] = e]
  BY <1>1, <1>2 DEF InitListHead, Tables
<1> HIDE DEF U
<1>4. ASSUME NEW h \in Anchor, NEW i \in Int PROVE At(s, h, i) # e /\ At(s, h, i) \in Cell
  <2>1. CASE i \in 1..Len(s[h])
    BY <1>1, <2>1, MetOnce
  <2>2. CASE i \notin 1..Len(s[h])
    BY <2>2 DEF At, NodesOnly, Cell
  <2> QED
    BY <2>1, <2>2
<1>5. ASSUME NEW h \in Anchor, NEW i \in 0..Len(s[h])
      PROVE  U.next[At(s, h, i)] = At(s, h, i + 1) /\ U.prev[At(s, h, i + 1)] = At(s, h, i)
  <2>1. i \in Int /\ i + 1 \in Int
    BY <1>1
  <2>2. T.next[At(s, h, i)] = At(s, h, i + 1) /\ T.prev[At(s, h, i + 1)] = At(s, h, i)
    BY DEF Represents
  <2> QED
    BY <1>2, <1>3, <1>4, <2>1, <2>2
<1>6. ASSUME NEW n \in Node, \A h \in Anchor : n \notin OnList(s, h)
      PROVE  U.next[n] = n /\ U.prev[n] = n
  <2>1. n \in Cell
    BY DEF Cell
  <2>2. n # e => T.next[n] = n /\ T.prev[n] = n
    BY <1>6 DEF Represents
  <2> QED
    BY <1>2, <1>3, <2>1, <2>2
<1> QED
  BY <1>1, <1>3, <1>5, <1>6 DEF Represents, U

\* __list_add before the head: a node on no list goes to the end of one.
LEMMA LinkedLast ==
  ASSUME NodesOnly, NEW T, NEW s, NEW e \in Node, Represents(T, s, {e}),
         \A h \in Anchor : e \notin OnList(s, h), NEW g \in Anchor
  PROVE  Represents(ListAdd(T, e, T.prev[g], g), [s EXCEPT ![g] = Append(s[g], e)], {})
<1> DEFINE U == ListAdd(T, e, T.prev[g], g)
           r == [s EXCEPT ![g] = Append(s[g], e)]
<1>1. /\ T \in Tables /\ Placed(s) /\ e \in Cell /\ g \in Cell /\ e # g
      /\ \A h \in Anchor : s[h] \in Seq(Node) /\ Len(s[h]) \in Nat
  BY DEF Represents, Placed, Cell, NodesOnly
<1>2. T.next \in [Cell -> Cell] /\ T.prev \in [Cell -> Cell]
  BY <1>1 DEF Tables
<1>3. /\ r[g] = Append(s[g], e) /\ r[g] \in Seq(Node) /\ Len(r[g]) = Len(s[g]) + 1
      /\ \A i \in 1..Len(s[g]) : r[g][i] = s[g][i]
      /\ r[g][Len(s[g]) + 1] = e
  BY <1>1 DEF Placed
<1>4. \A h \in Anchor \ {g} : r[h] = s[h]
  BY <1>1 DEF Placed
<1>5. r \in [Anchor -> Seq(Node)]
  BY <1>1, <1>3 DEF Placed
<1> HIDE DEF r
<1>6. OnList(r, g) = OnList(s, g) \cup {e}
  <2>1. \A i \in 1..Len(r[g]) : i \in 1..Len(s[g]) \/ i = Len(s[g]) + 1
    BY <1>1, <1>3
  <2>2. OnList(r, g) \subseteq OnList(s, g) \cup {e}
    BY <1>3, <2>1 DEF OnList
  <2>3. Len(s[g]) + 1 \in 1..Len(r[g]) /\ \A i \in 1..Len(s[g]) : i \in 1..Len(r[g])
    BY <1>1, <1>3
  <2>4. e \in OnList(r, g) /\ \A i \in 1..Len(s[g]) : s[g][i] \in OnList(r, g)
    BY <1>3, <2>3 DEF OnList
  <2>5. OnList(s, g) \subseteq OnList(r, g)
    BY <2>4 DEF OnList
  <2> QED
    BY <2>2, <2>4, <2>5
<1>7. \A h \in Anchor \ {g} : OnList(r, h) = OnList(s, h)
  BY <1>4 DEF OnList
<1>8. Placed(r)
  <2>1. Distinct(r[g])
    <3> SUFFICES ASSUME NEW i \in 1..Len(r[g]), NEW j \in 1..Len(r[g]), r[g][i] = r[g][j] PROVE i = j
      BY DEF Distinct
    <3>1. /\ i \in 1..Len(s[g]) \/ i = Len(s[g]) + 1
          /\ j \in 1..Len(s[g]) \/ j = Len(s[g]) + 1
      BY <1>1, <1>3
    <3>2. \A a \in 1..Len(s[g]) : r[g][a] # e
      BY <1>3 DEF OnList
    <3>3. CASE i \in 1..Len(s[g]) /\ j \in 1..Len(s[g])
      BY <1>1, <1>3, <3>3 DEF Placed, Distinct
    <3> QED
      BY <1>3, <3>1, <3>2, <3>3
  <2>2. \A h \in Anchor : Distinct(r[h])
    BY <1>1, <1>4, <2>1 DEF Placed
  <2>3. ASSUME NEW f \in Anchor, NEW h \in Anchor, f # h PROVE OnList(r, f) \cap OnList(r, h) = {}
    <3>1. OnList(s, f) \cap OnList(s, h) = {} /\ e \notin OnList(s, f) /\ e \notin OnList(s, h)
      BY <1>1, <2>3 DEF Placed
    <3> QED
      BY <1>6, <1>7, <2>3, <3>1
  <2> QED
    BY <1>5, <2>2, <2>3 DEF Placed
<1>9. T.prev[g] = At(s, g, Len(s[g])) /\ At(s, g, Len(s[g])) \in Cell
  <2>1. Len(s[g]) \in 0..Len(s[g]) /\ Len(s[g]) + 1 \notin 1..Len(s[g]) /\ Len(s[g]) \in Int
    BY <1>1
  <2>2. At(s, g, Len(s[g]) + 1) = g
    BY <2>1 DEF At
  <2> QED
    BY <1>1, <2>1, <2>2, MetOnce DEF Represents
<1>10. ASSUME NEW h \in Anchor, NEW i \in Int PROVE At(s, h, i) # e /\ At(s, h, i) \in Cell
  <2>1. CASE i \in 1..Len(s[h])
    BY <1>1, <2>1, MetOnce
  <2>2. CASE i \notin 1..Len(s[h])
    BY <2>2 DEF At, NodesOnly, Cell
  <2> QED
    BY <2>1, <2>2
<1> DEFINE p == T.prev[g]
<1>11. /\ U \in Tables
       /\ U.next = [[T.next EXCEPT ![e] = g] EXCEPT ![p] = e]
       /\ U.prev = [[T.prev EXCEPT ![g] = e] EXCEPT ![e] = p]
       /\ p \in Cell /\ p # e
  <2>1. p \in Cell
    BY <1>9
  <2>2. p # e
    BY <1>1, <1>9, <1>10
  <2> QED
    BY <1>1, <1>2, <2>1, <2>2 DEF ListAdd, Tables
<1> HIDE DEF U, p
<1>12. /\ U.next[e] = g /\ U.next[p] = e /\ U.prev[g] = e /\ U.prev[e] = p
       /\ \A c \in Cell : c # e /\ c # p => U.next[c] = T.next[c]
       /\ \A c \in Cell : c # e /\ c # g => U.prev[c] = T.prev[c]
  BY <1>1, <1>2, <1>11
<1>13. ASSUME NEW h \in Anchor, NEW i \in 0..Len(r[h])
       PROVE  U.next[At(r, h, i)] = At(r, h, i + 1) /\ U.prev[At(r, h, i + 1)] = At(r, h, i)
  <2>1. CASE h # g
    <3>1. r[h] = s[h] /\ Len(s[h]) \in Nat /\ i \in 0..Len(s[h]) /\ i + 1 \in Int /\ i \in Int
      BY <1>1, <1>4, <2>1
    <3>2. At(r, h, i) = At(s, h, i) /\ At(r, h, i + 1) = At(s, h, i + 1)
      BY <3>1 DEF At
    <3>3. T.next[At(s, h, i)] = At(s, h, i + 1) /\ T.prev[At(s, h, i + 1)] = At(s, h, i)
      BY <3>1 DEF Represents
    <3>4. Len(s[g]) \in 0..Len(s[g])
      BY <1>1
    <3>5. At(s, h, i) # p
      BY <1>1, <1>9, <2>1, <3>1, <3>4, MetOnce DEF p
    <3>6. At(s, h, i + 1) # g
      <4>1. i + 1 \in 1..Len(s[h])+1 /\ Len(s[g]) + 1 \in 1..Len(s[g])+1 /\ Len(s[g]) + 1 \notin 1..Len(s[g])
        BY <1>1, <3>1
      <4>2. At(s, g, Len(s[g]) + 1) = g
        BY <4>1 DEF At
      <4> QED
        BY <1>1, <2>1, <4>1, <4>2, MetOnce
    <3> QED
      BY <1>10, <1>12, <3>1, <3>2, <3>3, <3>5, <3>6
  <2>2. CASE h = g /\ i \in 0..Len(s[g])-1
    <3>1. /\ i \in 0..Len(s[g]) /\ i + 1 \in 1..Len(s[g]) /\ i + 1 \in Int /\ i \in Int
          /\ Len(s[g]) \in 0..Len(s[g]) /\ i # Len(s[g])
      BY <1>1, <2>2
    <3>2. /\ i \in 1..Len(r[g]) <=> i \in 1..Len(s[g])
          /\ i + 1 \in 1..Len(r[g])
      BY <1>1, <1>3, <3>1, <2>2
    <3>3. At(r, g, i) = At(s, g, i) /\ At(r, g, i + 1) = At(s, g, i + 1)
      BY <1>3, <3>1, <3>2 DEF At
    <3>4. T.next[At(s, g, i)] = At(s, g, i + 1) /\ T.prev[At(s, g, i + 1)] = At(s, g, i)
      BY <3>1 DEF Represents
    <3>5. At(s, g, i) # p
      BY <1>1, <1>9, <3>1, MetOnce DEF p
    <3>6. At(s, g, i + 1) # g
      BY <1>1, <3>1, MetOnce DEF NodesOnly
    <3> QED
      BY <1>10, <1>12, <2>2, <3>1, <3>3, <3>4, <3>5, <3>6
  <2>3. CASE h = g /\ i = Len(s[g])
    <3>1. /\ i \in 1..Len(r[g]) <=> i \in 1..Len(s[g])
          /\ i + 1 \in 1..Len(r[g])
      BY <1>1, <1>3, <2>3
    <3>2. At(r, g, i) = p
      BY <1>3, <1>9, <2>3, <3>1 DEF At, p
    <3>3. At(r, g, i + 1) = e
      BY <1>3, <2>3, <3>1 DEF At
    <3> QED
      BY <1>12, <2>3, <3>2, <3>3
  <2>4. CASE h = g /\ i = Len(s[g]) + 1
    <3>1. i \in 1..Len(r[g]) /\ i + 1 \notin 1..Len(r[g])
      BY <1>1, <1>3, <2>4
    <3>2. At(r, g, i) = e /\ At(r, g, i + 1) = g
      BY <1>3, <2>4, <3>1 DEF At
    <3> QED
      BY <1>12, <2>4, <3>2
  <2> QED
    BY <1>1, <1>3, <2>1, <2>2, <2>3, <2>4
<1>14. ASSUME NEW n \in Node, \A h \in Anchor : n \notin OnList(r, h)
       PROVE  U.next[n] = n /\ U.prev[n] = n
  <2>1. n # e /\ \A h \in Anchor : n \notin OnList(s, h)
    BY <1>6, <1>7, <1>14
  <2>2. T.next[n] = n /\ T.prev[n] = n /\ n \in Cell
    BY <2>1 DEF Represents, Cell
  <2>3. n # g
    BY DEF NodesOnly
  <2>4. n # p
    <3>1. CASE Len(s[g]) \in 1..Len(s[g])
      BY <1>1, <1>9, <2>1, <3>1, MetOnce DEF p
    <3>2. CASE Len(s[g]) \notin 1..Len(s[g])
      BY <1>9, <2>3, <3>2 DEF At, p
    <3> QED
      BY <3>1, <3>2
  <2> QED
    BY <1>12, <2>1, <2>2, <2>3, <2>4
<1> QED
  BY <1>8, <1>11, <1>13, <1>14 DEF Represents, U, r

\* A list has no more nodes than there are.
LEMMA NoLonger ==
  ASSUME NodesOnly, NEW s, Placed(s), NEW h \in Anchor
  PROVE  Len(s[h]) \in Nat /\ Cardinality(Node) \in Nat /\ Len(s[h]) <= Cardinality(Node)
<1>1. s[h] \in Seq(Node) /\ Len(s[h]) \in Nat /\ Distinct(s[h])
  BY DEF Placed
<1>2. s[h] \in Injection(1..Len(s[h]), Node)
  BY <1>1 DEF Injection, IsInjective, Distinct
<1>3. Cardinality(1..Len(s[h])) <= Cardinality(Node)
  BY <1>2, FS_Injection DEF NodesOnly
<1>4. Cardinality(1..Len(s[h])) = Len(s[h])
  <2>1. 1 \in Int /\ Len(s[h]) \in Int
    BY <1>1
  <2>2. Cardinality(1..Len(s[h])) = IF 1 > Len(s[h]) THEN 0 ELSE Len(s[h]) - 1 + 1
    BY <2>1, FS_Interval
  <2> QED
    BY <1>1, <2>2
<1> QED
  BY <1>1, <1>3, <1>4, FS_CardinalityType DEF NodesOnly

\* A round of FreeList, and what is left after n of them.
FreeFirst(T, h) ==
  LET e == T.next[h]
  IN IF e = h THEN T ELSE InitListHead(ListDel(T, T.prev[e], T.next[e]), e)
Freeing(r, s, h, n) ==
  /\ \A k \in Anchor \ {h} : r[k] = s[k]
  /\ Len(r[h]) = IF Len(s[h]) < n THEN 0 ELSE Len(s[h]) - n

\* A round takes the first node off, if there is one.
LEMMA FirstFreed ==
  ASSUME NodesOnly, NEW T, NEW s, Represents(T, s, {}), NEW h \in Anchor
  PROVE  \E r : Represents(FreeFirst(T, h), r, {}) /\ Freeing(r, s, h, 1)
<1>1. Placed(s) /\ s[h] \in Seq(Node) /\ Len(s[h]) \in Nat /\ 0 \in 0..Len(s[h])
  BY DEF Represents, Placed
<1>2. T.next[h] = At(s, h, 1)
  <2>1. At(s, h, 0) = h
    BY DEF At
  <2>2. T.next[At(s, h, 0)] = At(s, h, 0 + 1)
    BY <1>1 DEF Represents
  <2> QED
    BY <2>1, <2>2
<1>3. CASE Len(s[h]) = 0
  <2>1. T.next[h] = h
    BY <1>2, <1>3 DEF At
  <2> QED
    BY <1>3, <2>1 DEF FreeFirst, Freeing
<1>4. CASE Len(s[h]) # 0
  <2>1. 1 \in 1..Len(s[h])
    BY <1>1, <1>4
  <2>2. PICK e \in Node : e = s[h][1] /\ T.next[h] = e /\ e # h
    BY <1>1, <1>2, <2>1, ElementOfSeq DEF At, NodesOnly
  <2>3. /\ Represents(ListDel(T, T.prev[e], T.next[e]), WithoutNode(s, e), {e})
        /\ \A k \in Anchor : e \notin OnList(WithoutNode(s, e), k)
    BY Unlinked
  <2>4. Represents(InitListHead(ListDel(T, T.prev[e], T.next[e]), e), WithoutNode(s, e), {})
    BY <2>3, Isolated
  <2>5. /\ Len(WithoutNode(s, e)[h]) = Len(s[h]) - 1
        /\ \A k \in Anchor \ {h} : WithoutNode(s, e)[k] = s[k]
    BY <1>1, <2>1, <2>2, OneShorter
  <2> QED
    BY <1>1, <1>4, <2>2, <2>4, <2>5 DEF FreeFirst, Freeing
<1> QED
  BY <1>3, <1>4

\* FreeList: as many rounds as there are nodes empty the list.
LEMMA AllFreed ==
  ASSUME NodesOnly, NEW s, Represents(Links, s, {}), NEW h \in Anchor
  PROVE  Represents(Freed(h), [s EXCEPT ![h] = <<>>], {})
<1> DEFINE N == Cardinality(Node)
           Rounds(g) == [i \in 0..N |-> IF i = 0 THEN Links ELSE FreeFirst(g[i-1], h)]
           F == CHOOSE g : g = Rounds(g)
           step == [T \in Tables |-> FreeFirst(T, h)]
<1>1. Links \in Tables /\ Placed(s) /\ N \in Nat /\ Len(s[h]) \in Nat /\ Len(s[h]) <= N
  BY NoLonger DEF Represents
<1>2. Freed(h) = F[N]
  BY DEF Freed, FreeFirst
<1>3. step \in [Tables -> Tables]
  <2>1. ASSUME NEW T \in Tables PROVE FreeFirst(T, h) \in Tables
    <3>1. T.next \in [Cell -> Cell] /\ T.prev \in [Cell -> Cell] /\ h \in Cell
      BY DEF Tables, Cell
    <3>2. \A e \in Cell : InitListHead(ListDel(T, T.prev[e], T.next[e]), e) \in Tables
      BY <3>1 DEF InitListHead, ListDel, Tables
    <3> QED
      BY <3>1, <3>2 DEF FreeFirst
  <2> QED
    BY <2>1
<1>4. \E g : g = Rounds(g)
  <2> HIDE DEF N, step
  <2>0. PICK f : Repeated(f, Tables, step, Links, N)
    BY <1>1, <1>3, Iterates
  <2>1. f \in [0..N -> Tables] /\ f[0] = Links /\ \A i \in 1..N : f[i] = step[f[i-1]]
    BY <2>0 DEF Repeated
  <2>2. ASSUME NEW i \in 0..N, i # 0 PROVE f[i] = FreeFirst(f[i-1], h)
    <3>1. i \in 1..N /\ i - 1 \in 0..N
      BY <1>1, <2>2
    <3>2. f[i-1] \in Tables
      BY <2>1, <3>1
    <3> QED
      BY <2>1, <3>1, <3>2 DEF step
  <2>3. f = [i \in 0..N |-> f[i]]
    BY <2>1
  <2>4. f = Rounds(f)
    BY <2>1, <2>2, <2>3
  <2> QED
    BY <2>4
<1>5. F = Rounds(F)
  BY <1>4
<1> HIDE DEF F, N
<1> DEFINE G == {i \in Nat : i <= N => \E r : Represents(F[i], r, {}) /\ Freeing(r, s, h, i)}
<1>6. 0 \in G
  <2>1. F[0] = Links
    BY <1>1, <1>5
  <2>2. Freeing(s, s, h, 0)
    BY <1>1 DEF Freeing
  <2> QED
    BY <2>1, <2>2
<1>7. ASSUME NEW i \in Nat, i \in G PROVE i + 1 \in G
  <2> SUFFICES ASSUME i + 1 <= N PROVE \E r : Represents(F[i + 1], r, {}) /\ Freeing(r, s, h, i + 1)
    OBVIOUS
  <2>1. i <= N /\ i + 1 \in 0..N /\ i + 1 # 0 /\ (i + 1) - 1 = i
    BY <1>1
  <2>2. F[i + 1] = FreeFirst(F[i], h)
    BY <1>5, <2>1
  <2>3. PICK r : Represents(F[i], r, {}) /\ Freeing(r, s, h, i)
    BY <1>7, <2>1
  <2>4. PICK q : Represents(FreeFirst(F[i], h), q, {}) /\ Freeing(q, r, h, 1)
    BY <2>3, FirstFreed
  <2>5. Freeing(q, s, h, i + 1)
    BY <1>1, <2>3, <2>4 DEF Freeing
  <2> QED
    BY <2>2, <2>4, <2>5
<1> HIDE DEF G
<1>8. N \in G
  BY <1>1, <1>6, <1>7, AllNumbers
<1>9. PICK r : Represents(F[N], r, {}) /\ Freeing(r, s, h, N)
  BY <1>1, <1>8 DEF G
<1>10. r[h] = <<>>
  <2>1. Len(r[h]) = 0
    BY <1>1, <1>9 DEF Freeing
  <2>2. r[h] \in Seq(Node)
    BY <1>9 DEF Represents, Placed
  <2> QED
    BY <2>1, <2>2
<1>11. r = [s EXCEPT ![h] = <<>>]
  BY <1>1, <1>9, <1>10 DEF Represents, Placed, Freeing
<1> QED
  BY <1>2, <1>9, <1>11

\* Walking along the next pointers meets the nodes of a list in order.
LEMMA Walked ==
  ASSUME NodesOnly, NEW T, NEW s, Represents(T, s, {}), NEW h \in Anchor
  PROVE  Walk(T.next, h) = s[h]
<1> DEFINE N == Cardinality(Node)
           n == Len(s[h])
           nxt == T.next
           Steps(g) == [i \in 0..N+1 |-> IF i = 0 THEN h ELSE nxt[g[i-1]]]
           B == CHOOSE g : g = Steps(g)
<1>1. T \in Tables /\ Placed(s) /\ N \in Nat /\ n \in Nat /\ n <= N /\ N + 1 \in Nat /\ s[h] \in Seq(Node)
  BY NoLonger DEF Represents, Placed
<1>2. nxt \in [Cell -> Cell] /\ h \in Cell
  BY <1>1 DEF Tables, Cell
<1>3. Behind(nxt, h) = B
  BY DEF Behind
<1>4. \E g : g = Steps(g)
  <2> HIDE DEF N, nxt
  <2>0. PICK f : Repeated(f, Cell, nxt, h, N + 1)
    BY <1>1, <1>2, Iterates
  <2>1. f \in [0..N+1 -> Cell] /\ f[0] = h /\ \A i \in 1..N+1 : f[i] = nxt[f[i-1]]
    BY <2>0 DEF Repeated
  <2>2. \A i \in 0..N+1 : i # 0 => i \in 1..N+1
    BY <1>1
  <2>3. f = [i \in 0..N+1 |-> f[i]]
    BY <2>1
  <2>4. f = Steps(f)
    BY <2>1, <2>2, <2>3
  <2> QED
    BY <2>4
<1>5. B = Steps(B)
  BY <1>4
<1> HIDE DEF B, N, nxt
<1> DEFINE G == {i \in Nat : i <= n + 1 => B[i] = At(s, h, i)}
<1>6. 0 \in G
  <2>1. At(s, h, 0) = h /\ B[0] = h
    BY <1>1, <1>5 DEF At
  <2> QED
    BY <2>1
<1>7. ASSUME NEW i \in Nat, i \in G PROVE i + 1 \in G
  <2> SUFFICES ASSUME i + 1 <= n + 1 PROVE B[i + 1] = At(s, h, i + 1)
    OBVIOUS
  <2>1. i \in 0..n /\ i <= n + 1 /\ i + 1 \in 0..N+1 /\ i + 1 # 0 /\ (i + 1) - 1 = i
    BY <1>1
  <2>2. B[i + 1] = nxt[B[i]]
    BY <1>5, <2>1
  <2>3. B[i] = At(s, h, i)
    BY <1>7, <2>1
  <2>4. nxt[At(s, h, i)] = At(s, h, i + 1)
    BY <2>1 DEF Represents, nxt
  <2> QED
    BY <2>2, <2>3, <2>4
<1> HIDE DEF G
<1>8. \A i \in Nat : i \in G
  BY <1>6, <1>7, AllNumbers
<1>9. \A i \in 0..n+1 : B[i] = At(s, h, i)
  BY <1>1, <1>8 DEF G
<1>10. \A i \in 1..n : B[i] = s[h][i] /\ B[i] # h
  BY <1>1, <1>9, ElementOfSeq DEF At, NodesOnly
<1>11. B[n + 1] = h
  <2>1. n + 1 \in 0..n+1 /\ n + 1 \notin 1..n
    BY <1>1
  <2> QED
    BY <1>9, <2>1 DEF At
<1> DEFINE Round == {i \in 1..N+1 : B[i] = h}
<1>12. n + 1 \in Round /\ \A j \in Round : n + 1 <= j
  BY <1>1, <1>10, <1>11
<1> DEFINE m == CHOOSE i \in Round : \A j \in Round : i <= j
<1>13. m = n + 1
  <2>1. m \in Round /\ \A j \in Round : m <= j
    BY <1>12
  <2>2. m \in Int
    BY <1>1, <2>1
  <2> HIDE DEF m, Round
  <2>3. m <= n + 1 /\ n + 1 <= m
    BY <1>12, <2>1
  <2> QED
    BY <1>1, <2>2, <2>3
<1>14. Round # {}
  BY <1>12
<1>15. Walk(nxt, h) = [i \in 1..m-1 |-> B[i]]
  BY <1>3, <1>14 DEF Walk, N
<1> HIDE DEF m
<1>16. Walk(nxt, h) = [i \in 1..n |-> s[h][i]]
  <2>1. m - 1 = n
    BY <1>1, <1>13
  <2> QED
    BY <1>10, <1>15, <2>1
<1>17. s[h] = [i \in 1..n |-> s[h][i]]
  BY <1>1
<1> QED
  BY <1>16, <1>17 DEF nxt

-----------------------------------------------------------------------------
(* The pointers of the program always represent some lists. *)

Represented == \E s : Represents(Links, s, {})

LEMMA WalksAre ==
  ASSUME NodesOnly, NEW s, Represents(Links, s, {})
  PROVE  Walks = s
<1>1. Links.next = next /\ s \in [Anchor -> Seq(Node)]
  BY DEF Links, Represents, Placed
<1>2. \A h \in Anchor : Walk(next, h) = s[h]
  BY <1>1, Walked
<1> QED
  BY <1>1, <1>2 DEF Walks

\* The same of the pointers after a step.
LEMMA WalksBecome ==
  ASSUME NodesOnly, NEW T, NEW s, Represents(T, s, {}), Written(T)
  PROVE  Represented' /\ Walks' = s
<1>1. T.next = next' /\ s \in [Anchor -> Seq(Node)]
  BY DEF Written, Represents, Placed
<1>2. \A h \in Anchor : Walk(next', h) = s[h]
  BY <1>1, Walked
<1>3. Walks' = s
  BY <1>1, <1>2 DEF Walks
<1>4. Links' = T
  BY DEF Links, Written, Represents, Tables
<1>5. Represents(Links', s, {})
  BY <1>4
<1> QED
  BY <1>3, <1>5 DEF Represented

\* Pointers that represent lists agree in both directions.
LEMMA MutualThen ==
  ASSUME NodesOnly, NEW s, Represents(Links, s, {})
  PROVE  LinksMutual
<1> SUFFICES ASSUME NEW c \in Cell PROVE prev[next[c]] = c /\ next[prev[c]] = c
  BY DEF LinksMutual
<1>1. /\ Links.next = next /\ Links.prev = prev
      /\ \A h \in Anchor : Len(s[h]) \in Nat
  BY DEF Links, Represents, Placed
<1>2. ASSUME NEW h \in Anchor, NEW i \in 0..Len(s[h]), c = At(s, h, i) PROVE prev[next[c]] = c
  BY <1>1, <1>2 DEF Represents
<1>3. ASSUME NEW h \in Anchor, NEW i \in 0..Len(s[h]), c = At(s, h, i + 1) PROVE next[prev[c]] = c
  BY <1>1, <1>3 DEF Represents
<1>4. CASE c \in Anchor
  <2>1. 0 \in 0..Len(s[c]) /\ Len(s[c]) \in 0..Len(s[c]) /\ Len(s[c]) + 1 \notin 1..Len(s[c])
    BY <1>1, <1>4
  <2>2. c = At(s, c, 0) /\ c = At(s, c, Len(s[c]) + 1)
    BY <2>1 DEF At
  <2> QED
    BY <1>2, <1>3, <1>4, <2>1, <2>2
<1>5. CASE c \in Node /\ \E h \in Anchor : c \in OnList(s, h)
  <2>1. PICK h \in Anchor : c \in OnList(s, h)
    BY <1>5
  <2>2. PICK k \in 1..Len(s[h]) : c = s[h][k]
    BY <2>1 DEF OnList
  <2>3. k \in 0..Len(s[h]) /\ k - 1 \in 0..Len(s[h]) /\ (k - 1) + 1 = k
    BY <1>1
  <2>4. c = At(s, h, k) /\ c = At(s, h, (k - 1) + 1)
    BY <2>2, <2>3 DEF At
  <2> QED
    BY <1>2, <1>3, <2>3, <2>4
<1>6. CASE c \in Node /\ \A h \in Anchor : c \notin OnList(s, h)
  BY <1>1, <1>6 DEF Represents
<1> QED
  BY <1>4, <1>5, <1>6 DEF Cell

\* At first every list is empty.
LEMMA EmptyRepresented ==
  ASSUME NodesOnly, PointersInit
  PROVE  Represents(Links, [h \in Anchor |-> <<>>], {})
<1> DEFINE s == [h \in Anchor |-> <<>>]
<1>1. Links \in Tables
  BY DEF PointersInit, Links, Tables
<1>2. \A h \in Anchor : s[h] = <<>> /\ Len(s[h]) = 0 /\ OnList(s, h) = {} /\ Distinct(s[h])
  BY DEF OnList, Distinct
<1>3. s \in [Anchor -> Seq(Node)]
  OBVIOUS
<1>4. Placed(s)
  BY <1>2, <1>3 DEF Placed
<1>5. \A h \in Anchor : \A i \in 0..Len(s[h]) : At(s, h, i) = h /\ At(s, h, i + 1) = h
  BY <1>2 DEF At
<1>6. \A c \in Cell : Links.next[c] = c /\ Links.prev[c] = c
  BY DEF PointersInit, Links
<1> HIDE DEF s
<1>7. Represents(Links, s, {})
  BY <1>1, <1>4, <1>5, <1>6 DEF Represents, Cell
<1> QED
  BY <1>7 DEF s

\* A step keeps that, and does to the walked lists what Lists allows.
LEMMA PointersStep ==
  ASSUME NodesOnly, Represented, [PointersNext]_pointerVars
  PROVE  Represented' /\ [Abstract!Next]_Walks /\ (PointersNext => Abstract!Next)
<1>1. PICK s : Represents(Links, s, {})
  BY DEF Represented
<1>2. /\ Walks = s /\ Placed(s) /\ Links.prev = prev /\ Links.next = next
      /\ s \in [Anchor -> Seq(Node)]
  BY <1>1, WalksAre DEF Represents, Placed, Links
<1>3. ASSUME NEW e \in Node
      PROVE  /\ Represents(ListDel(Links, prev[e], next[e]), WithoutNode(s, e), {e})
             /\ \A h \in Anchor : e \notin OnList(WithoutNode(s, e), h)
  BY <1>1, <1>2, Unlinked
<1>4. ASSUME NEW e \in Node, Reset(e) PROVE Represented' /\ Abstract!Next
  <2>1. Represents(ListDelInit(e), WithoutNode(s, e), {})
    BY <1>3, Isolated DEF ListDelInit
  <2>2. Represented' /\ Walks' = WithoutNode(s, e)
    BY <1>4, <2>1, WalksBecome DEF Reset
  <2>3. Abstract!Reset(e)
    BY <1>2, <2>2 DEF Abstract!Reset, WithoutNode
  <2> QED
    BY <2>2, <2>3 DEF Abstract!Next
<1>5. ASSUME NEW e \in Node, NEW h \in Anchor, MoveTail(e, h) PROVE Represented' /\ Abstract!Next
  <2> DEFINE r == WithoutNode(s, e)
             q == [r EXCEPT ![h] = Append(r[h], e)]
  <2>1. Represents(ListMoveTail(e, h), q, {})
    BY <1>3, LinkedLast DEF ListMoveTail
  <2>2. Represented' /\ Walks' = q
    BY <1>5, <2>1, WalksBecome DEF MoveTail
  <2>3. q = [k \in Anchor |-> IF k = h THEN Append(Abstract!Without(s[k], e), e)
                                       ELSE Abstract!Without(s[k], e)]
    BY DEF WithoutNode
  <2>4. Abstract!MoveTail(e, h)
    BY <1>2, <2>2, <2>3 DEF Abstract!MoveTail
  <2> QED
    BY <2>2, <2>4 DEF Abstract!Next
<1>6. ASSUME NEW h \in Anchor, FreeList(h) PROVE Represented' /\ Abstract!Next
  <2>1. Represents(Freed(h), [s EXCEPT ![h] = <<>>], {})
    BY <1>1, AllFreed
  <2>2. Represented' /\ Walks' = [s EXCEPT ![h] = <<>>]
    BY <1>6, <2>1, WalksBecome DEF FreeList
  <2>3. Abstract!FreeList(h)
    BY <1>2, <2>2 DEF Abstract!FreeList
  <2> QED
    BY <2>2, <2>3 DEF Abstract!Next
<1>7. ASSUME UNCHANGED pointerVars PROVE Represented' /\ Walks' = Walks
  <2>1. Written(Links)
    BY <1>7 DEF pointerVars, Written, Links
  <2>2. Represented' /\ Walks' = s
    BY <1>1, <2>1, WalksBecome
  <2> QED
    BY <1>2, <2>2
<1> QED
  BY <1>4, <1>5, <1>6, <1>7 DEF PointersNext

\* The pointers of list.h implement the lists the timers are kept on: whatever nodes are
\* moved, taken off or freed, on a list or not, what a walk meets changes as Lists says,
\* and next and prev agree everywhere (list.h:79-127).
THEOREM ImplementsListsTheorem ==
  ASSUME NodesOnly
  PROVE  PointersSpec => ImplementsLists /\ Abstract!Spec
<1>1. PointersInit => Represented /\ Abstract!Init
  <2> SUFFICES ASSUME PointersInit PROVE Represented /\ Abstract!Init
    OBVIOUS
  <2>1. Represents(Links, [h \in Anchor |-> <<>>], {})
    BY EmptyRepresented
  <2>2. Walks = [h \in Anchor |-> <<>>]
    BY <2>1, WalksAre
  <2> QED
    BY <2>1, <2>2 DEF Represented, Abstract!Init
<1>2. Represented => LinksMutual
  BY MutualThen DEF Represented
<1>3. Represented' => LinksMutual'
  BY <1>2, PTL
<1>4. Represented /\ [PointersNext]_pointerVars =>
        Represented' /\ [Abstract!Next]_Walks /\ [LinksMutual' /\ (UNCHANGED next \/ Abstract!Next)]_pointerVars
  <2> SUFFICES ASSUME Represented, [PointersNext]_pointerVars
               PROVE  /\ Represented' /\ [Abstract!Next]_Walks
                      /\ [LinksMutual' /\ (UNCHANGED next \/ Abstract!Next)]_pointerVars
    OBVIOUS
  <2> QED
    BY <1>3, PointersStep
<1> QED
  BY <1>1, <1>4, PTL DEF PointersSpec, ImplementsLists, Abstract!Spec

-----------------------------------------------------------------------------
(* Accepting. *)

\* What is asked of the constants.
FdBounds == Fd \subseteq Nat /\ IsFiniteSet(Fd) /\ AcceptCnt \in Nat

\* The descriptors in the array from slot a on.
Filled(a) == {fdArray[s] : s \in {t \in Slots : a <= t}} \ {NoFd}

ListenerTypeOK ==
  /\ open \in SUBSET Fd /\ conns \in SUBSET open
  /\ fdArray \in [Slots -> Fd \cup {NoFd}]
  /\ newfdCnt \in 0..AcceptCnt /\ slot \in 0..AcceptCnt
  /\ gaps \in Nat /\ stage \in {"idle", "accept", "request", "down"}

FdsDistinct == \A s, t \in Slots : fdArray[s] = fdArray[t] /\ fdArray[s] # NoFd => s = t

InRound ==
  /\ newfdCnt <= slot /\ FdsDistinct
  /\ \A s \in Slots : slot <= s => fdArray[s] = NoFd
  /\ Filled(0) \subseteq open /\ Filled(0) \cap conns = {}
  /\ newfdCnt = 0 => Filled(0) = {}
  /\ Cardinality(open \ (conns \cup Filled(0))) + (slot - newfdCnt) <= gaps

InTurn ==
  /\ slot <= newfdCnt /\ FdsDistinct
  /\ Filled(0) \subseteq open /\ Filled(slot) \cap conns = {}
  /\ Cardinality(open \ (conns \cup Filled(slot))) + Cardinality(Filled(newfdCnt)) <= gaps

ListenerIInv ==
  /\ ListenerTypeOK
  /\ stage = "accept" => InRound
  /\ stage = "request" => InTurn
  /\ stage = "idle" => Cardinality(open \ conns) <= gaps
  /\ stage = "down" => Cardinality(conns) = Room

-----------------------------------------------------------------------------
(* Sets and numbers. *)

\* A set of numbers that is not empty has a least one.
LEMMA LowestIn ==
  ASSUME NEW S, S \subseteq Nat, S # {}
  PROVE  Lowest(S) \in S
<1>1. PICK x \in S : \A y \in S : ~ (<<y, x>> \in OpToRel(<, Nat))
  BY NatLessThanWellFounded, WFMin
<1>2. \A y \in S : x <= y
  <2> SUFFICES ASSUME NEW y \in S PROVE x <= y
    OBVIOUS
  <2>1. x \in Nat /\ y \in Nat
    OBVIOUS
  <2>2. ~ (y < x)
    BY <1>1, <2>1 DEF OpToRel
  <2> QED
    BY <2>1, <2>2
<1> QED
  BY <1>2 DEF Lowest

\* Between a and b there are at most b - a slots.
LEMMA FewFilled ==
  ASSUME NEW f, NEW a \in Nat, NEW b \in Nat, a <= b
  PROVE  LET T == {f[s] : s \in a..b-1}
         IN  IsFiniteSet(T) /\ Cardinality(T) \in Nat /\ Cardinality(T) <= b - a
<1> DEFINE S == a..b-1
           T == {f[s] : s \in S}
           g == [s \in S |-> f[s]]
<1>1. IsFiniteSet(S) /\ Cardinality(S) = b - a
  <2>1. a \in Int /\ b - 1 \in Int
    OBVIOUS
  <2>2. /\ IsFiniteSet(a..b-1)
        /\ Cardinality(a..b-1) = IF a > b - 1 THEN 0 ELSE (b - 1) - a + 1
    BY <2>1, FS_Interval
  <2>3. (IF a > b - 1 THEN 0 ELSE (b - 1) - a + 1) = b - a
    OBVIOUS
  <2> QED
    BY <2>2, <2>3
<1>2. g \in Surjection(S, T)
  BY DEF Surjection
<1>3. IsFiniteSet(T) /\ Cardinality(T) <= Cardinality(S)
  BY <1>1, <1>2, FS_Surjection
<1> QED
  BY <1>1, <1>3, FS_CardinalityType

\* Sets of descriptors are finite.
LEMMA Finite ==
  ASSUME FdBounds, NEW S \in SUBSET Fd
  PROVE  IsFiniteSet(S) /\ Cardinality(S) \in Nat
BY FS_Subset, FS_CardinalityType DEF FdBounds

\* A larger set has no fewer elements, and two sets no more than each.
LEMMA Counted ==
  ASSUME FdBounds, NEW S \in SUBSET Fd, NEW T \in SUBSET Fd
  PROVE  /\ Cardinality(S) \in Nat /\ Cardinality(T) \in Nat
         /\ S \subseteq T => Cardinality(S) <= Cardinality(T)
         /\ Cardinality(S \cup T) <= Cardinality(S) + Cardinality(T)
<1>1. /\ IsFiniteSet(S) /\ Cardinality(S) \in Nat
      /\ IsFiniteSet(T) /\ Cardinality(T) \in Nat
      /\ Cardinality(S \cap T) \in Nat
  BY Finite
<1>2. S \subseteq T => Cardinality(S) <= Cardinality(T)
  BY <1>1, FS_Subset
<1>3. Cardinality(S \cup T) = Cardinality(S) + Cardinality(T) - Cardinality(S \cap T)
  BY <1>1, FS_Union
<1> QED
  BY <1>1, <1>2, <1>3

\* The array holds descriptors.
LEMMA FilledTyped ==
  ASSUME FdBounds, ListenerTypeOK, NEW a \in Nat
  PROVE  Filled(a) \in SUBSET Fd /\ Filled(a) \subseteq Filled(0)
<1>1. \A t \in Slots : 0 <= t
  BY DEF Slots, FdBounds
<1> QED
  BY <1>1 DEF ListenerTypeOK, Filled

\* A slot that holds none does not count.
LEMMA FilledNext ==
  ASSUME FdBounds, ListenerTypeOK, NEW a \in Slots
  PROVE  Filled(a) = Filled(a + 1) \cup ({fdArray[a]} \ {NoFd})
<1>1. a + 1 \in Nat /\ \A t \in Slots : a <= t <=> t = a \/ a + 1 <= t
  BY DEF Slots, FdBounds
<1> QED
  BY <1>1 DEF Filled

-----------------------------------------------------------------------------
(* The steps. *)

\* Nothing is open at first.
LEMMA ListenerIInvInit ==
  ASSUME FdBounds, ListenerInit
  PROVE  ListenerIInv
<1>1. ListenerTypeOK
  BY DEF ListenerInit, ListenerTypeOK, Empty, FdBounds
<1>2. Cardinality({}) = 0 /\ open \ conns = {} /\ gaps = 0 /\ stage = "idle"
  BY FS_EmptySet DEF ListenerInit
<1> QED
  BY <1>1, <1>2 DEF ListenerIInv

\* A connection ends between two rounds.
LEMMA CompleteStep ==
  ASSUME FdBounds, ListenerIInv, NEW c \in Fd, Complete(c)
  PROVE  ListenerIInv'
<1>1. /\ stage = "idle" /\ stage' = "idle" /\ gaps' = gaps
      /\ open' \ conns' = open \ conns
  BY DEF Complete, ListenerIInv, ListenerTypeOK
<1>2. ListenerTypeOK'
  BY DEF Complete, ListenerIInv, ListenerTypeOK
<1> QED
  BY <1>1, <1>2 DEF ListenerIInv

\* A round begins with an empty array.
LEMMA BeginStep ==
  ASSUME FdBounds, ListenerIInv, Begin, UNCHANGED <<open, conns, gaps>>,
         Cardinality(open \ conns) <= gaps
  PROVE  ListenerIInv'
<1>1. fdArray' = Empty /\ newfdCnt' = 0 /\ slot' = 0 /\ stage' = "accept"
  BY DEF Begin
<1>2. ListenerTypeOK'
  BY <1>1 DEF ListenerIInv, ListenerTypeOK, Empty, FdBounds
<1>3. \A s \in Slots : fdArray'[s] = NoFd
  BY <1>1 DEF Empty
<1>4. Filled(0)' = {}
  BY <1>3 DEF Filled
<1>5. open' \ (conns' \cup {}) = open \ conns
  OBVIOUS
<1>6. Cardinality(open' \ (conns' \cup Filled(0)')) + (slot' - newfdCnt') <= gaps'
  <2>1. Cardinality(open \ conns) \in Nat
    BY Finite DEF ListenerIInv, ListenerTypeOK
  <2> QED
    BY <1>1, <1>4, <1>5, <2>1
<1>7. InRound'
  BY <1>1, <1>3, <1>4, <1>6 DEF InRound, FdsDistinct, Slots, FdBounds
<1> QED
  BY <1>1, <1>2, <1>7 DEF ListenerIInv

\* accept() gives a descriptor, or none.
LEMMA AcceptStep ==
  ASSUME FdBounds, ListenerIInv, Accept
  PROVE  ListenerIInv'
<1> DEFINE fd == Lowest(Fd \ open)
<1>1. /\ stage = "accept" /\ stage' = "accept" /\ slot < AcceptCnt /\ open # Fd
      /\ open' = open \cup {fd} /\ fdArray' = [fdArray EXCEPT ![slot] = fd]
      /\ newfdCnt' = newfdCnt + 1 /\ slot' = slot + 1 /\ UNCHANGED <<conns, gaps>>
  BY DEF Accept, InAccept
<1>2. ListenerTypeOK /\ InRound
  BY <1>1 DEF ListenerIInv
<1>3. fd \in Fd /\ fd \notin open
  <2>1. Fd \ open # {} /\ Fd \ open \subseteq Nat
    BY <1>1, <1>2 DEF ListenerTypeOK, FdBounds
  <2>2. fd \in Fd \ open
    BY <2>1, LowestIn
  <2> QED
    BY <2>2
<1>4. fd # NoFd
  BY <1>3 DEF NoFd, FdBounds
<1> HIDE DEF fd
<1>5. slot \in Slots /\ slot \in Nat /\ newfdCnt \in Nat
  BY <1>1, <1>2 DEF ListenerTypeOK, Slots, FdBounds
<1>6. ListenerTypeOK'
  BY <1>1, <1>2, <1>3, <1>5 DEF ListenerTypeOK, InRound, FdBounds
<1>7. \A s \in Slots : fdArray'[s] = IF s = slot THEN fd ELSE fdArray[s]
  BY <1>1, <1>2 DEF ListenerTypeOK
<1>8. \A s \in Slots : 0 <= s
  BY DEF Slots, FdBounds
<1>9. \A s \in Slots : fdArray[s] \in Filled(0) \cup {NoFd}
  BY <1>8 DEF Filled
<1>10. Filled(0)' = Filled(0) \cup {fd}
  <2>1. fdArray[slot] = NoFd
    BY <1>2, <1>5 DEF InRound
  <2> QED
    BY <1>4, <1>5, <1>7, <1>8, <2>1 DEF Filled
<1>11. FdsDistinct'
  <2>1. \A s \in Slots : fdArray[s] # fd
    BY <1>2, <1>3, <1>4, <1>9 DEF InRound
  <2> QED
    BY <1>2, <1>7, <2>1 DEF InRound, FdsDistinct
<1>12. open' \ (conns' \cup Filled(0)') = open \ (conns \cup Filled(0))
  BY <1>1, <1>3, <1>10
<1>13. InRound'
  <2>1. \A s \in Slots : slot' <= s => fdArray'[s] = NoFd
    <3> SUFFICES ASSUME NEW s \in Slots, slot + 1 <= s PROVE fdArray'[s] = NoFd
      BY <1>1
    <3>1. s # slot /\ slot <= s
      BY <1>5 DEF Slots, FdBounds
    <3> QED
      BY <1>2, <1>7, <3>1 DEF InRound
  <2>2. newfdCnt' <= slot' /\ newfdCnt' # 0 /\ slot' - newfdCnt' = slot - newfdCnt
    BY <1>1, <1>2, <1>5 DEF InRound
  <2>3. Filled(0)' \subseteq open' /\ Filled(0)' \cap conns' = {}
    BY <1>1, <1>2, <1>3, <1>10 DEF InRound, ListenerTypeOK
  <2>4. Cardinality(open' \ (conns' \cup Filled(0)')) + (slot' - newfdCnt') <= gaps'
    BY <1>1, <1>2, <1>12, <2>2 DEF InRound
  <2> QED
    BY <1>11, <2>1, <2>2, <2>3, <2>4 DEF InRound
<1> QED
  BY <1>1, <1>6, <1>13 DEF ListenerIInv

\* accept() fails or is interrupted: a slot stays empty, counted or not.
LEMMA NoneStep ==
  ASSUME FdBounds, ListenerIInv, AcceptFails \/ Interrupted
  PROVE  ListenerIInv'
<1>1. /\ stage = "accept" /\ stage' = "accept" /\ slot < AcceptCnt /\ slot' = slot + 1
      /\ UNCHANGED <<open, conns>>
      /\ \/ newfdCnt' = newfdCnt + 1 /\ gaps' = gaps
         \/ newfdCnt' = newfdCnt /\ gaps' = gaps + 1
  BY DEF AcceptFails, Interrupted, InAccept, FailureCounted
<1>2. ListenerTypeOK /\ InRound
  BY <1>1 DEF ListenerIInv
<1>3. slot \in Slots /\ slot \in Nat /\ newfdCnt \in Nat /\ gaps \in Nat
  BY <1>1, <1>2 DEF ListenerTypeOK, Slots, FdBounds
<1>4. fdArray' = fdArray
  <2>1. fdArray[slot] = NoFd /\ DOMAIN fdArray = Slots
    BY <1>2, <1>3 DEF InRound, ListenerTypeOK
  <2>2. fdArray = [s \in Slots |-> fdArray[s]]
    BY <1>2 DEF ListenerTypeOK
  <2>3. fdArray' = fdArray \/ fdArray' = [fdArray EXCEPT ![slot] = NoFd]
    BY DEF AcceptFails, Interrupted
  <2> QED
    BY <2>1, <2>2, <2>3
<1>5. ListenerTypeOK'
  BY <1>1, <1>2, <1>3, <1>4 DEF ListenerTypeOK, InRound, FdBounds
<1>6. Filled(0)' = Filled(0) /\ open' \ (conns' \cup Filled(0)') = open \ (conns \cup Filled(0))
  BY <1>1, <1>4 DEF Filled
<1>7. \A s \in Slots : slot' <= s => fdArray'[s] = NoFd
  <2> SUFFICES ASSUME NEW s \in Slots, slot + 1 <= s PROVE fdArray[s] = NoFd
    BY <1>1, <1>4
  <2>1. slot <= s
    BY <1>3 DEF Slots, FdBounds
  <2> QED
    BY <1>2, <2>1 DEF InRound
<1>8. /\ newfdCnt' <= slot' /\ (newfdCnt' = 0 => newfdCnt = 0)
      /\ (slot' - newfdCnt') - gaps' = (slot - newfdCnt) - gaps
  BY <1>1, <1>2, <1>3 DEF InRound
<1>9. Cardinality(open' \ (conns' \cup Filled(0)')) + (slot' - newfdCnt') <= gaps'
  <2>1. Cardinality(open \ (conns \cup Filled(0))) \in Nat
    BY <1>2, Finite DEF ListenerTypeOK
  <2>2. Cardinality(open \ (conns \cup Filled(0))) + (slot - newfdCnt) <= gaps
    BY <1>2 DEF InRound
  <2>3. PICK n \in Nat : n = Cardinality(open \ (conns \cup Filled(0)))
    BY <2>1
  <2>4. n + (slot' - newfdCnt') <= gaps'
    BY <1>1, <1>3, <2>2, <2>3
  <2> QED
    BY <1>6, <2>3, <2>4
<1>10. InRound'
  BY <1>1, <1>2, <1>4, <1>6, <1>7, <1>8, <1>9 DEF InRound, FdsDistinct
<1> QED
  BY <1>1, <1>5, <1>10 DEF ListenerIInv

\* The round is over.
LEMMA AcceptedStep ==
  ASSUME FdBounds, ListenerIInv, Accepted
  PROVE  ListenerIInv'
<1>1. /\ stage = "accept" /\ stage' = IF newfdCnt <= 0 THEN "idle" ELSE "request"
      /\ slot' = 0 /\ UNCHANGED <<open, conns, fdArray, newfdCnt, gaps>>
  BY DEF Accepted
<1>2. ListenerTypeOK /\ InRound
  BY <1>1 DEF ListenerIInv
<1>3. slot \in Nat /\ newfdCnt \in Nat /\ gaps \in Nat /\ newfdCnt <= slot /\ 0 \in 0..AcceptCnt
  BY <1>2 DEF ListenerTypeOK, InRound, FdBounds
<1>4. ListenerTypeOK'
  BY <1>1, <1>2, <1>3 DEF ListenerTypeOK
<1>5. Cardinality(open \ (conns \cup Filled(0))) \in Nat
  BY <1>2, Finite DEF ListenerTypeOK
<1>6. CASE newfdCnt = 0
  <2>1. open \ (conns \cup Filled(0)) = open \ conns
    BY <1>2, <1>6 DEF InRound
  <2>2. PICK n \in Nat : n = Cardinality(open \ (conns \cup Filled(0)))
    BY <1>5
  <2>3. n <= gaps
    BY <1>2, <1>3, <1>6, <2>2 DEF InRound
  <2> QED
    BY <1>1, <1>3, <1>4, <1>6, <2>1, <2>2, <2>3 DEF ListenerIInv
<1>7. CASE newfdCnt # 0
  <2>1. stage' = "request"
    BY <1>1, <1>3, <1>7
  <2>2. Filled(newfdCnt) \subseteq {fdArray[s] : s \in newfdCnt..slot-1}
    <3> SUFFICES ASSUME NEW s \in Slots, newfdCnt <= s, fdArray[s] # NoFd
                 PROVE  s \in newfdCnt..slot-1
      BY DEF Filled
    <3>1. ~ slot <= s
      BY <1>2 DEF InRound
    <3> QED
      BY <1>3, <3>1 DEF Slots, FdBounds
  <2>3. Cardinality(Filled(newfdCnt)) \in Nat /\ Cardinality(Filled(newfdCnt)) <= slot - newfdCnt
    <3> DEFINE T == {fdArray[s] : s \in newfdCnt..slot-1}
    <3>1. IsFiniteSet(T) /\ Cardinality(T) \in Nat /\ Cardinality(T) <= slot - newfdCnt
      BY <1>3, FewFilled
    <3> HIDE DEF T
    <3>2. Filled(newfdCnt) \in SUBSET T
      BY <2>2 DEF T
    <3>3. IsFiniteSet(Filled(newfdCnt)) /\ Cardinality(Filled(newfdCnt)) <= Cardinality(T)
      BY <3>1, <3>2, FS_Subset
    <3>4. Cardinality(Filled(newfdCnt)) \in Nat
      BY <3>3, FS_CardinalityType
    <3> QED
      BY <1>3, <3>1, <3>3, <3>4
  <2>4. Cardinality(open \ (conns \cup Filled(0))) + Cardinality(Filled(newfdCnt)) <= gaps
    BY <1>2, <1>3, <1>5, <2>3 DEF InRound
  <2>5. Filled(slot)' = Filled(0) /\ Filled(0)' = Filled(0) /\ Filled(newfdCnt)' = Filled(newfdCnt)
    BY <1>1 DEF Filled
  <2>6. FdsDistinct' /\ slot' <= newfdCnt'
    BY <1>1, <1>2, <1>3 DEF InRound, FdsDistinct
  <2>7. Filled(0)' \subseteq open' /\ Filled(slot)' \cap conns' = {}
    BY <1>1, <1>2, <2>5 DEF InRound
  <2>8. Cardinality(open' \ (conns' \cup Filled(slot)')) + Cardinality(Filled(newfdCnt)') <= gaps'
    BY <1>1, <2>4, <2>5
  <2>9. InTurn'
    BY <2>6, <2>7, <2>8 DEF InTurn
  <2> QED
    BY <2>1, <1>4, <2>9 DEF ListenerIInv
<1> QED
  BY <1>6, <1>7

\* A slot without a descriptor is passed over.
LEMMA NoConnectionStep ==
  ASSUME FdBounds, ListenerIInv, NoConnection
  PROVE  ListenerIInv'
<1>1. /\ stage = "request" /\ stage' = "request" /\ slot < newfdCnt /\ slot' = slot + 1 /\ fdArray[slot] = NoFd
      /\ UNCHANGED <<open, conns, fdArray, newfdCnt, gaps>>
  BY DEF NoConnection, InRequest
<1>2. ListenerTypeOK /\ InTurn
  BY <1>1 DEF ListenerIInv
<1>3. slot \in Slots /\ slot \in Nat /\ newfdCnt \in Nat /\ slot + 1 \in 0..AcceptCnt /\ slot + 1 <= newfdCnt
  BY <1>1, <1>2 DEF ListenerTypeOK, Slots, FdBounds
<1>4. Filled(slot + 1) = Filled(slot)
  BY <1>1, <1>2, <1>3, FilledNext
<1>5. /\ Filled(slot)' = Filled(slot + 1) /\ Filled(0)' = Filled(0)
      /\ Filled(newfdCnt)' = Filled(newfdCnt)
  BY <1>1 DEF Filled
<1>6. ListenerTypeOK'
  BY <1>1, <1>2, <1>3 DEF ListenerTypeOK
<1>7. InTurn'
  <2>1. Cardinality(open' \ (conns' \cup Filled(slot)')) + Cardinality(Filled(newfdCnt)') <= gaps'
    BY <1>1, <1>2, <1>4, <1>5 DEF InTurn
  <2> QED
    BY <1>1, <1>2, <1>3, <1>4, <1>5, <2>1 DEF InTurn, FdsDistinct
<1> QED
  BY <1>1, <1>6, <1>7 DEF ListenerIInv

\* What the slot that is next has to do with the rest.
LEMMA NextSlot ==
  ASSUME FdBounds, ListenerTypeOK, InTurn, slot < newfdCnt, fdArray[slot] # NoFd
  PROVE  /\ slot \in Slots /\ slot \in Nat /\ newfdCnt \in Nat
         /\ slot + 1 \in 0..AcceptCnt /\ slot + 1 <= newfdCnt
         /\ Filled(slot) = Filled(slot + 1) \cup {fdArray[slot]}
         /\ fdArray[slot] \in open /\ fdArray[slot] \notin conns /\ fdArray[slot] \notin Filled(slot + 1)
<1>1. slot \in Slots /\ slot \in Nat /\ newfdCnt \in Nat /\ slot + 1 \in 0..AcceptCnt /\ slot + 1 <= newfdCnt
  BY DEF ListenerTypeOK, Slots, FdBounds
<1>2. Filled(slot) = Filled(slot + 1) \cup {fdArray[slot]}
  BY <1>1, FilledNext
<1>3. fdArray[slot] \in open /\ fdArray[slot] \notin conns
  BY <1>1, <1>2, FilledTyped DEF InTurn
<1>4. fdArray[slot] \notin Filled(slot + 1)
  <2> SUFFICES ASSUME NEW t \in Slots, slot + 1 <= t, fdArray[t] = fdArray[slot] PROVE FALSE
    BY DEF Filled
  <2>1. t = slot
    BY <1>1 DEF InTurn, FdsDistinct
  <2> QED
    BY <1>1, <2>1
<1> QED
  BY <1>1, <1>2, <1>3, <1>4

\* Its descriptor becomes a connection.
LEMMA ServeStep ==
  ASSUME FdBounds, ListenerIInv, Serve
  PROVE  ListenerIInv'
<1>1. /\ stage = "request" /\ stage' = "request" /\ slot < newfdCnt /\ slot' = slot + 1 /\ fdArray[slot] # NoFd
      /\ conns' = conns \cup {fdArray[slot]}
      /\ UNCHANGED <<open, fdArray, newfdCnt, gaps>>
  BY DEF Serve, InRequest
<1>2. ListenerTypeOK /\ InTurn
  BY <1>1 DEF ListenerIInv
<1>3. /\ slot \in Slots /\ slot \in Nat /\ newfdCnt \in Nat
      /\ slot + 1 \in 0..AcceptCnt /\ slot + 1 <= newfdCnt
      /\ Filled(slot) = Filled(slot + 1) \cup {fdArray[slot]}
      /\ fdArray[slot] \in open /\ fdArray[slot] \notin Filled(slot + 1)
  BY <1>1, <1>2, NextSlot
<1>4. /\ Filled(slot)' = Filled(slot + 1) /\ Filled(0)' = Filled(0)
      /\ Filled(newfdCnt)' = Filled(newfdCnt)
  BY <1>1 DEF Filled
<1>5. open' \ (conns' \cup Filled(slot)') = open \ (conns \cup Filled(slot))
  BY <1>1, <1>3, <1>4
<1>6. ListenerTypeOK'
  BY <1>1, <1>2, <1>3 DEF ListenerTypeOK
<1>7. InTurn'
  <2>1. Cardinality(open' \ (conns' \cup Filled(slot)')) + Cardinality(Filled(newfdCnt)') <= gaps'
    BY <1>1, <1>2, <1>4, <1>5 DEF InTurn
  <2>2. Filled(slot)' \cap conns' = {}
    BY <1>1, <1>2, <1>3, <1>4 DEF InTurn
  <2> QED
    BY <1>1, <1>2, <1>3, <1>4, <2>1, <2>2 DEF InTurn, FdsDistinct
<1> QED
  BY <1>1, <1>6, <1>7 DEF ListenerIInv

\* Or there is no room for it.
LEMMA ServeFailsStep ==
  ASSUME FdBounds, ListenerIInv, ServeFails
  PROVE  ListenerIInv'
<1>1. /\ stage = "request" /\ stage' = "down" /\ slot < newfdCnt /\ fdArray[slot] # NoFd
      /\ Cardinality(conns) = Room /\ open' = open \ {fdArray[slot]}
      /\ UNCHANGED <<conns, fdArray, newfdCnt, slot, gaps>>
  BY DEF ServeFails, InRequest
<1>2. ListenerTypeOK /\ fdArray[slot] \notin conns
  BY <1>1, NextSlot DEF ListenerIInv
<1>3. ListenerTypeOK'
  BY <1>1, <1>2 DEF ListenerTypeOK
<1> QED
  BY <1>1, <1>3 DEF ListenerIInv

\* InputNotify returns or begins again: what was reserved is lost.
LEMMA RequestedStep ==
  ASSUME FdBounds, ListenerIInv, Requested
  PROVE  ListenerIInv'
<1>1. /\ stage = "request" /\ ~ slot < newfdCnt /\ UNCHANGED <<open, conns, gaps>>
      /\ (stage' = "idle" /\ UNCHANGED <<fdArray, newfdCnt, slot>>) \/ Begin
  BY DEF Requested, InRequest
<1>2. ListenerTypeOK /\ InTurn
  BY <1>1 DEF ListenerIInv
<1>3. slot = newfdCnt /\ slot \in Nat /\ gaps \in Nat
  BY <1>1, <1>2 DEF ListenerTypeOK, InTurn, FdBounds
<1>4. Cardinality(open \ conns) <= gaps
  <2> DEFINE S == open \ (conns \cup Filled(slot))
             T == Filled(slot)
  <2>1. S \in SUBSET Fd /\ T \in SUBSET Fd /\ S \cup T \in SUBSET Fd
        /\ open \ conns \in SUBSET Fd /\ open \ conns \subseteq S \cup T
    BY <1>2, <1>3, FilledTyped DEF ListenerTypeOK
  <2>2. Cardinality(S) + Cardinality(T) <= gaps
    BY <1>2, <1>3 DEF InTurn
  <2> HIDE DEF S, T
  <2>3. /\ Cardinality(S \cup T) <= Cardinality(S) + Cardinality(T)
        /\ Cardinality(S) \in Nat /\ Cardinality(T) \in Nat
    BY <2>1, Counted
  <2>4. /\ Cardinality(open \ conns) <= Cardinality(S \cup T)
        /\ Cardinality(open \ conns) \in Nat /\ Cardinality(S \cup T) \in Nat
    BY <2>1, Counted
  <2> QED
    BY <1>3, <2>2, <2>3, <2>4
<1>5. CASE Begin
  BY <1>1, <1>4, <1>5, BeginStep
<1>6. CASE stage' = "idle" /\ UNCHANGED <<fdArray, newfdCnt, slot>>
  BY <1>1, <1>2, <1>4, <1>6 DEF ListenerIInv, ListenerTypeOK
<1> QED
  BY <1>1, <1>5, <1>6

\* Every step keeps the invariant.
LEMMA ListenerIInvStep ==
  ASSUME FdBounds, ListenerIInv, [ListenerNext]_listenerVars
  PROVE  ListenerIInv'
<1>1. CASE UNCHANGED listenerVars
  BY <1>1 DEF listenerVars, ListenerIInv, ListenerTypeOK, InRound, InTurn, FdsDistinct, Filled
<1>2. CASE InputNotify
  BY <1>2, BeginStep DEF InputNotify, ListenerIInv
<1>3. CASE WouldBlock
  BY <1>3 DEF WouldBlock, ListenerIInv, ListenerTypeOK, InRound, InTurn, FdsDistinct, Filled
<1>4. CASE Arrive
  BY <1>4 DEF Arrive, ListenerIInv, ListenerTypeOK, InRound, InTurn, FdsDistinct, Filled
<1> QED
  BY <1>1, <1>2, <1>3, <1>4, CompleteStep, AcceptStep, NoneStep, AcceptedStep, NoConnectionStep,
     ServeStep, ServeFailsStep, RequestedStep DEF ListenerNext, Step

-----------------------------------------------------------------------------
\* A descriptor is forgotten only where accept() was interrupted before it in its
\* round, one for every interruption at most, and none is served twice
\* (listener.cpp:134-138).
THEOREM LostToInterruptionsTheorem ==
  ASSUME FdBounds
  PROVE  ListenerSpec => []LostToInterruptions
<1>1. ListenerIInv => LostToInterruptions
  <2> SUFFICES ASSUME ListenerIInv PROVE LostToInterruptions
    OBVIOUS
  <2>0. ListenerTypeOK /\ conns \subseteq open /\ 0 \in Nat /\ slot \in Nat
    BY DEF ListenerIInv, ListenerTypeOK, FdBounds
  <2>1. CASE stage = "accept"
    <3>1. Pending = Filled(0)
      BY <2>1 DEF Pending, Filled
    <3>2. PICK n \in Nat : n = Cardinality(open \ (conns \cup Filled(0)))
      BY Finite, <2>0 DEF ListenerTypeOK
    <3>3. n <= gaps
      BY <2>0, <2>1, <3>2 DEF ListenerIInv, InRound, ListenerTypeOK, FdBounds
    <3> QED
      BY <2>0, <2>1, <3>1, <3>2, <3>3 DEF ListenerIInv, InRound, LostToInterruptions
  <2>2. CASE stage = "request"
    <3>1. Pending = Filled(slot)
      BY <2>2 DEF Pending, Filled
    <3>2. newfdCnt \in Nat /\ gaps \in Nat
      BY <2>0 DEF ListenerTypeOK, FdBounds
    <3>3. PICK n \in Nat : n = Cardinality(open \ (conns \cup Filled(slot)))
      BY Finite, <2>0 DEF ListenerTypeOK
    <3>4. PICK m \in Nat : m = Cardinality(Filled(newfdCnt))
      BY Finite, <2>0, <3>2, FilledTyped
    <3>5. n <= gaps
      BY <2>2, <3>2, <3>3, <3>4 DEF ListenerIInv, InTurn
    <3>6. Filled(slot) \subseteq open
      BY <2>0, <2>2, FilledTyped DEF ListenerIInv, InTurn
    <3> QED
      BY <2>0, <2>2, <3>1, <3>3, <3>5, <3>6 DEF LostToInterruptions
  <2>3. CASE stage \in {"idle", "down"}
    <3>1. Pending = {} /\ open \ (conns \cup Pending) = open \ conns
      BY <2>3 DEF Pending
    <3> QED
      BY <2>0, <2>3, <3>1 DEF ListenerIInv, LostToInterruptions
  <2> QED
    BY <2>0, <2>1, <2>2, <2>3 DEF ListenerTypeOK
<1>2. ListenerInit => ListenerIInv
  BY ListenerIInvInit
<1>3. ListenerIInv /\ [ListenerNext]_listenerVars => ListenerIInv'
  BY ListenerIInvStep
<1> QED
  BY <1>1, <1>2, <1>3, PTL DEF ListenerSpec
=============================================================================
