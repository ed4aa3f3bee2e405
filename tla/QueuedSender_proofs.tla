------------------------- MODULE QueuedSender_proofs -------------------------
(***************************************************************************)
(* The queue of the packet sender is a heap, so the packets leave in the   *)
(* order of their times and the thread wakes up in time for the next one:  *)
(* for any number of packets, channels and delays, as long as the counter  *)
(* of milliseconds does not wrap around.                                   *)
(*                                                                         *)
(* The loops of CUtlPriorityQueue and of Run are recursive functions; that *)
(* they are defined, and what they return, is proved by induction.  A      *)
(* recursive definition says of a function that it is one that satisfies   *)
(* the equation; that there is one has to be proved, from a measure that   *)
(* gets smaller (Recursion).  Both are stated for sets and functions: a    *)
(* theorem with an operator as parameter could not be used.                *)
(***************************************************************************)
EXTENDS QueuedSender, FiniteSetTheorems, WellFoundedInduction, TLAPS

-----------------------------------------------------------------------------
(* Induction, and functions that are defined by recursion.                 *)

Less == {p \in Nat \X Nat : p[1] < p[2]}

LEMMA LessWF == IsWellFoundedOn(Less, Nat)
  <1>1. Less = OpToRel(<, Nat)
    BY Zenon DEF Less, OpToRel
  <1> QED
    BY <1>1, NatLessThanWellFounded, Zenon

\* Induction over the natural numbers, for a set.
LEMMA Induction ==
  ASSUME NEW T, 0 \in T, \A n \in Nat : n \in T => n + 1 \in T
  PROVE  \A n \in Nat : n \in T
  <1> DEFINE Rest == {n \in Nat : n \notin T}
  <1> SUFFICES ASSUME Rest # {} PROVE FALSE
    OBVIOUS
  <1>1. PICK x \in Rest : \A y \in Rest : <<y, x>> \notin Less
    BY LessWF, WFMin
  <1>2. x # 0 /\ x - 1 \in Nat
    BY <1>1
  <1>3. <<x - 1, x>> \in Less
    BY <1>1, <1>2 DEF Less
  <1>4. x - 1 \notin Rest
    BY <1>1, <1>3
  <1> QED
    BY <1>1, <1>2, <1>4

-----------------------------------------------------------------------------
\* f is the function on A with f[s] = B[s] where s is in D, and elsewhere what
\* C makes of s and the value at N[s].
Unfolds(f, A, S, V, D, N, B, C) ==
  /\ f \in [A -> V]
  /\ \A s \in A : f[s] = IF s \in D THEN B[s] ELSE C[<<s, f[N[s]]>>]

\* The measure M of N[s] is smaller than that of s, and all values are in V.
Terminates(S, V, M, D, N, B, C) ==
  /\ M \in [S -> Nat]
  /\ \A s \in S : s \in D => B[s] \in V
  /\ \A s \in S : s \notin D => N[s] \in S /\ M[N[s]] < M[s] /\ \A v \in V : C[<<s, v>>] \in V

\* There is such a function: one on the arguments below n for every n, each the
\* extension of the one before.
LEMMA Recursion ==
  ASSUME NEW S, NEW V, NEW M, NEW D, NEW N, NEW B, NEW C, Terminates(S, V, M, D, N, B, C)
  PROVE  \E f : Unfolds(f, S, S, V, D, N, B, C)
  <1> DEFINE Below(n) == {s \in S : M[s] < n}
             P(f, n) == Unfolds(f, Below(n), S, V, D, N, B, C)
             G == [n \in Nat |-> CHOOSE f : P(f, n)]
             Good == {n \in Nat : \E f : P(f, n)}
  <1>1. \A n \in Nat : n \in Good
    <2>1. 0 \in Good
      <3>1. Below(0) = {}
        BY DEF Terminates
      <3>2. P([s \in Below(0) |-> B[s]], 0)
        BY <3>1 DEF Unfolds
      <3> QED
        BY <3>2
    <2>2. ASSUME NEW n \in Nat, n \in Good PROVE n + 1 \in Good
      <3>1. PICK f : P(f, n)
        BY <2>2
      <3> DEFINE h == [s \in Below(n + 1) |-> IF s \in D THEN B[s] ELSE C[<<s, f[N[s]]>>]]
      <3>2. ASSUME NEW s \in Below(n + 1), s \notin D
            PROVE  N[s] \in Below(n) /\ N[s] \in Below(n + 1)
        BY <3>2 DEF Terminates
      <3>3. ASSUME NEW s \in Below(n) PROVE h[s] = f[s]
        <4>1. s \in Below(n + 1)
          BY DEF Terminates
        <4> QED
          BY <3>1, <3>3, <4>1 DEF Unfolds
      <3>4. ASSUME NEW s \in Below(n + 1) PROVE h[s] \in V
        <4>1. CASE s \in D
          BY <4>1 DEF Terminates
        <4>2. CASE s \notin D
          <5>1. f[N[s]] \in V
            BY <3>1, <3>2, <4>2 DEF Unfolds
          <5> QED
            BY <4>2, <5>1 DEF Terminates
        <4> QED
          BY <4>1, <4>2
      <3>5. ASSUME NEW s \in Below(n + 1)
            PROVE  h[s] = IF s \in D THEN B[s] ELSE C[<<s, h[N[s]]>>]
        BY <3>2, <3>3
      <3>6. P(h, n + 1)
        <4>1. h \in [Below(n + 1) -> V]
          BY <3>4
        <4> HIDE DEF h
        <4> QED
          BY <3>5, <4>1 DEF Unfolds
      <3> QED
        BY <3>6
    <2> HIDE DEF Good
    <2> QED
      BY <2>1, <2>2, Induction
  <1>2. \A n \in Nat : P(G[n], n)
    BY <1>1
  <1> HIDE DEF G, Good
  <1> DEFINE Same == {k \in Nat : \A s \in Below(k) : \A m, n \in Nat :
                        M[s] < m /\ M[s] < n => G[m][s] = G[n][s]}
  <1>3. \A k \in Nat : k \in Same
    <2>1. 0 \in Same
      BY DEF Terminates
    <2>2. ASSUME NEW k \in Nat, k \in Same PROVE k + 1 \in Same
      <3> SUFFICES ASSUME NEW s \in Below(k + 1), NEW m \in Nat, NEW n \in Nat,
                          M[s] < m, M[s] < n
                   PROVE  G[m][s] = G[n][s]
        OBVIOUS
      <3>1. s \in Below(m) /\ s \in Below(n)
        OBVIOUS
      <3>2. /\ G[m][s] = IF s \in D THEN B[s] ELSE C[<<s, G[m][N[s]]>>]
            /\ G[n][s] = IF s \in D THEN B[s] ELSE C[<<s, G[n][N[s]]>>]
        BY <1>2, <3>1 DEF Unfolds
      <3>3. CASE s \notin D
        <4>1. N[s] \in Below(k) /\ M[N[s]] < m /\ M[N[s]] < n
          BY <3>3 DEF Terminates
        <4>2. G[m][N[s]] = G[n][N[s]]
          BY <2>2, <4>1
        <4> QED
          BY <3>2, <4>2
      <3> QED
        BY <3>2, <3>3
    <2> HIDE DEF Same
    <2> QED
      BY <2>1, <2>2, Induction
  <1> DEFINE f == [s \in S |-> G[M[s] + 1][s]]
  <1>4. ASSUME NEW s \in S
        PROVE  f[s] \in V /\ f[s] = IF s \in D THEN B[s] ELSE C[<<s, f[N[s]]>>]
    <2>1. M[s] + 1 \in Nat /\ s \in Below(M[s] + 1)
      BY DEF Terminates
    <2>2. P(G[M[s] + 1], M[s] + 1)
      BY <1>2, <2>1
    <2>3. f[s] = G[M[s] + 1][s]
      OBVIOUS
    <2>4. CASE s \notin D
      <3>1. N[s] \in S /\ M[N[s]] < M[s] /\ M[s] \in Nat /\ M[N[s]] \in Nat
        BY <2>4 DEF Terminates
      <3>2. f[N[s]] = G[M[N[s]] + 1][N[s]]
        BY <3>1
      <3>3. N[s] \in Below(M[s]) /\ M[s] \in Same
        BY <1>3, <3>1
      <3>4. G[M[N[s]] + 1][N[s]] = G[M[s] + 1][N[s]]
        BY <3>1, <3>3
      <3> QED
        BY <2>1, <2>2, <2>3, <3>2, <3>4 DEF Unfolds
    <2> QED
      BY <2>1, <2>2, <2>3, <2>4 DEF Unfolds
  <1> HIDE DEF f
  <1>5. f \in [S -> V]
    BY <1>4 DEF f
  <1> QED
    BY <1>4, <1>5 DEF Unfolds

-----------------------------------------------------------------------------
(* The heap.                                                               *)

Members(heap) == {heap[k] : k \in DOMAIN heap}

\* A packet below another one is due no earlier.
Below(heap, k) == heap[k \div 2].time <= heap[k].time

Heap(heap) == \A k \in 2 .. Len(heap) : Below(heap, k)

\* A heap but for the element at i, which is too far down or too far up: what
\* is below it is in order with what is above it.
HeapButUp(heap, i) ==
    \A k \in 2 .. Len(heap) :
        /\ k # i => Below(heap, k)
        /\ k \div 2 = i /\ i > 1 => heap[i \div 2].time <= heap[k].time

HeapButDown(heap, i) ==
    \A k \in 2 .. Len(heap) :
        /\ k \div 2 # i => Below(heap, k)
        /\ k \div 2 = i /\ i > 1 => heap[i \div 2].time <= heap[k].time

LEMMA Half ==
  ASSUME NEW k \in Nat
  PROVE  /\ k \div 2 \in Nat
         /\ k = 2 * (k \div 2) \/ k = 2 * (k \div 2) + 1
         /\ k > 1 => k \div 2 > 0 /\ k \div 2 < k
  OBVIOUS

LEMMA HalfIs ==
  ASSUME NEW k \in Nat, NEW p \in Nat
  PROVE  k \div 2 = p <=> k = 2 * p \/ k = 2 * p + 1
  OBVIOUS

LEMMA Times ==
  ASSUME NEW heap \in Seq(QueuedPacket), NEW k \in DOMAIN heap
  PROVE  heap[k] \in QueuedPacket /\ heap[k].time \in Int /\ heap[k].time >= 0
         /\ heap[k].time < Wrap /\ k \in Nat /\ k >= 1 /\ k <= Len(heap) /\ Len(heap) \in Nat
  <1>1. heap[k] \in QueuedPacket /\ k \in 1 .. Len(heap) /\ Len(heap) \in Nat
    OBVIOUS
  <1>2. heap[k].time \in 0 .. Wrap - 1
    BY <1>1 DEF QueuedPacket
  <1> QED
    BY <1>1, <1>2, TimesAssumption

\* The head of a heap is due first.
LEMMA HeadIsFirst ==
  ASSUME NEW heap \in Seq(QueuedPacket), Heap(heap)
  PROVE  \A k \in DOMAIN heap : 1 \in DOMAIN heap /\ heap[1].time <= heap[k].time
  <1> DEFINE T == {n \in Nat : \A k \in DOMAIN heap : k <= n => heap[1].time <= heap[k].time}
  <1>1. DOMAIN heap = 1 .. Len(heap) /\ Len(heap) \in Nat
    OBVIOUS
  <1>2. \A n \in Nat : n \in T
    <2>1. 0 \in T
      BY <1>1
    <2>2. ASSUME NEW n \in Nat, n \in T PROVE n + 1 \in T
      <3> SUFFICES ASSUME NEW k \in DOMAIN heap, k <= n + 1
                   PROVE  heap[1].time <= heap[k].time
        OBVIOUS
      <3>1. CASE k = 1
        BY <3>1, Times
      <3>2. CASE k # 1
        <4>1. PICK p : p = k \div 2
          OBVIOUS
        <4>2. p \in DOMAIN heap /\ p <= n /\ 1 \in DOMAIN heap /\ k \in 2 .. Len(heap)
          BY <1>1, <3>2, <4>1, Half
        <4>3. heap[1].time <= heap[p].time
          BY <2>2, <4>2
        <4>4. heap[p].time <= heap[k].time
          BY <4>1, <4>2 DEF Heap, Below
        <4> QED
          BY <4>2, <4>3, <4>4, Times
      <3> QED
        BY <3>1, <3>2
    <2> HIDE DEF T
    <2> QED
      BY <2>1, <2>2, Induction
  <1> SUFFICES ASSUME NEW k \in DOMAIN heap
               PROVE  1 \in DOMAIN heap /\ heap[1].time <= heap[k].time
    OBVIOUS
  <1>3. k \in Nat /\ 1 \in DOMAIN heap
    BY <1>1
  <1>4. k \in T
    BY <1>2, <1>3
  <1> QED
    BY <1>3, <1>4

LEMMA SwapIs ==
  ASSUME NEW heap \in Seq(QueuedPacket), NEW i \in DOMAIN heap, NEW j \in DOMAIN heap,
         NEW new, new = Queue!Swap(heap, i, j)
  PROVE  /\ new \in Seq(QueuedPacket) /\ Len(new) = Len(heap) /\ DOMAIN new = DOMAIN heap
         /\ \A k \in DOMAIN heap :
              new[k] = IF k = j THEN heap[i] ELSE IF k = i THEN heap[j] ELSE heap[k]
         /\ Members(new) = Members(heap)
  <1>1. new = [heap EXCEPT ![i] = heap[j], ![j] = heap[i]]
    BY DEF Queue!Swap
  <1>2. heap[i] \in QueuedPacket /\ heap[j] \in QueuedPacket
    OBVIOUS
  <1>3. new \in Seq(QueuedPacket) /\ Len(new) = Len(heap) /\ DOMAIN new = DOMAIN heap
    BY <1>1, <1>2
  <1>4. \A k \in DOMAIN heap :
          new[k] = IF k = j THEN heap[i] ELSE IF k = i THEN heap[j] ELSE heap[k]
    BY <1>1
  <1>5. Members(new) = Members(heap)
    <2>1. Members(new) \subseteq Members(heap)
      BY <1>3, <1>4 DEF Members
    <2>2. ASSUME NEW k \in DOMAIN heap PROVE heap[k] \in Members(new)
      <3>1. new[i] = heap[j] /\ new[j] = heap[i]
        BY <1>4
      <3> QED
        BY <1>3, <1>4, <3>1 DEF Members
    <2> QED
      BY <2>1, <2>2 DEF Members
  <1> QED
    BY <1>3, <1>4, <1>5

-----------------------------------------------------------------------------
(* The loop of Insert.                                                     *)

UpStops(heap, i) == i = 1 \/ heap[i].time > heap[i \div 2].time
Raised(heap, i) == Queue!Swap(heap, i, i \div 2)

\* An element that is not at its place goes up by one.
LEMMA RaisedIs ==
  ASSUME NEW heap \in Seq(QueuedPacket), NEW i \in DOMAIN heap, i # 1
  PROVE  /\ i \div 2 \in DOMAIN heap /\ i \div 2 < i
         /\ Raised(heap, i) \in Seq(QueuedPacket) /\ Len(Raised(heap, i)) = Len(heap)
         /\ DOMAIN Raised(heap, i) = DOMAIN heap
         /\ Members(Raised(heap, i)) = Members(heap)
  <1>1. i \div 2 \in DOMAIN heap /\ i \div 2 < i
    BY Times, Half
  <1> QED
    BY <1>1, SwapIs DEF Raised

LEMMA SiftUpIs ==
  ASSUME NEW heap \in Seq(QueuedPacket), NEW i \in DOMAIN heap
  PROVE  Queue!SiftUp[<<heap, i>>] =
           IF UpStops(heap, i) THEN heap
           ELSE Queue!SiftUp[<<Raised(heap, i), i \div 2>>]
  <1> DEFINE S == Queue!Cursors
             V == Seq(QueuedPacket)
             M == [s \in S |-> s[2]]
             D == {s \in S : UpStops(s[1], s[2])}
             N == [s \in S |-> <<Raised(s[1], s[2]), s[2] \div 2>>]
             B == [s \in S |-> s[1]]
             C == [p \in S \X V |-> p[2]]
  <1>1. ASSUME NEW s \in S
        PROVE  s[1] \in Seq(QueuedPacket) /\ s[2] \in DOMAIN s[1] /\ s = <<s[1], s[2]>>
               /\ s[2] \in Nat
    BY DEF Queue!Cursors
  <1>2. Terminates(S, V, M, D, N, B, C)
    <2>1. M \in [S -> Nat]
      BY <1>1
    <2>2. \A s \in S : s \in D => B[s] \in V
      BY <1>1
    <2>3. ASSUME NEW s \in S, s \notin D
          PROVE  N[s] \in S /\ M[N[s]] < M[s] /\ \A v \in V : C[<<s, v>>] \in V
      <3>1. s[2] # 1
        BY <2>3 DEF UpStops
      <3>2. /\ s[2] \div 2 \in DOMAIN s[1] /\ s[2] \div 2 < s[2]
            /\ Raised(s[1], s[2]) \in Seq(QueuedPacket)
            /\ DOMAIN Raised(s[1], s[2]) = DOMAIN s[1]
        BY <1>1, <3>1, RaisedIs
      <3>3. s[2] \div 2 \in Nat
        BY <1>1, Half
      <3>4. N[s] = <<Raised(s[1], s[2]), s[2] \div 2>>
        OBVIOUS
      <3>5. N[s] \in S
        BY <3>2, <3>3, <3>4 DEF Queue!Cursors
      <3> QED
        BY <3>2, <3>4, <3>5
    <2> HIDE DEF M, D, N, B, C
    <2> QED
      BY <2>1, <2>2, <2>3 DEF Terminates
  <1>3. PICK f : Unfolds(f, S, S, V, D, N, B, C)
    BY <1>2, Recursion
  <1>4. f = [s \in S |-> IF UpStops(s[1], s[2]) THEN s[1]
                         ELSE f[<<Raised(s[1], s[2]), s[2] \div 2>>]]
    <2>1. ASSUME NEW s \in S
          PROVE  f[s] = IF UpStops(s[1], s[2]) THEN s[1]
                        ELSE f[<<Raised(s[1], s[2]), s[2] \div 2>>]
      <3>1. f[s] = IF s \in D THEN B[s] ELSE C[<<s, f[N[s]]>>]
        BY <1>3 DEF Unfolds
      <3>2. CASE s \in D
        BY <3>1, <3>2
      <3>3. CASE s \notin D
        <4>1. N[s] \in S /\ N[s] = <<Raised(s[1], s[2]), s[2] \div 2>>
          BY <1>2, <3>3 DEF Terminates
        <4>2. f[N[s]] \in V
          BY <1>3, <4>1 DEF Unfolds
        <4> QED
          BY <3>1, <3>3, <4>1, <4>2
      <3> QED
        BY <3>2, <3>3
    <2>2. f \in [S -> V]
      BY <1>3 DEF Unfolds
    <2> QED
      BY <2>1, <2>2
  <1>5. Queue!SiftUp = [s \in S |-> IF UpStops(s[1], s[2]) THEN s[1]
                                   ELSE Queue!SiftUp[<<Raised(s[1], s[2]), s[2] \div 2>>]]
    BY <1>4 DEF Queue!SiftUp, UpStops, Raised, LessFunc
  <1>6. <<heap, i>> \in S
    BY Times DEF Queue!Cursors
  <1> QED
    BY <1>5, <1>6

\* Then it is its new place where it may be out of order.
LEMMA RaisedOrder ==
  ASSUME NEW heap \in Seq(QueuedPacket), NEW i \in DOMAIN heap, HeapButUp(heap, i),
         ~UpStops(heap, i)
  PROVE  HeapButUp(Raised(heap, i), i \div 2)
  <1> DEFINE new == Raised(heap, i)
  <1>1. PICK p : p = i \div 2
    OBVIOUS
  <1>2. i # 1 /\ heap[i].time <= heap[p].time
    <2>1. i # 1 /\ ~(heap[i].time > heap[p].time)
      BY <1>1 DEF UpStops
    <2>2. p \in DOMAIN heap
      BY <1>1, <2>1, RaisedIs
    <2> QED
      BY <2>1, <2>2, Times
  <1>3. /\ p \in DOMAIN heap /\ p < i /\ p \in Nat /\ p >= 1 /\ (i = 2 * p \/ i = 2 * p + 1)
        /\ i \in 2 .. Len(heap) /\ Len(new) = Len(heap) /\ DOMAIN heap = 1 .. Len(heap)
    <2>1. i \in Nat /\ i > 1 /\ i <= Len(heap) /\ DOMAIN heap = 1 .. Len(heap)
      BY <1>2, Times
    <2>2. p \in DOMAIN heap /\ p < i /\ Len(new) = Len(heap)
      BY <1>1, <1>2, RaisedIs
    <2>3. p \in Nat /\ p >= 1 /\ (i = 2 * p \/ i = 2 * p + 1)
      BY <1>1, <2>1, Half
    <2> QED
      BY <2>1, <2>2, <2>3
  <1>4. \A k \in DOMAIN heap :
          new[k] = IF k = p THEN heap[i] ELSE IF k = i THEN heap[p] ELSE heap[k]
    <2>1. p \in DOMAIN heap
      BY <1>3
    <2>2. new = [heap EXCEPT ![i] = heap[p], ![p] = heap[i]]
      BY <1>1 DEF Raised, Queue!Swap
    <2> HIDE DEF new
    <2> QED
      BY <2>1, <2>2
  <1> HIDE DEF new
  <1>5. ASSUME NEW k \in 2 .. Len(heap)
        PROVE  /\ k # p => new[k \div 2].time <= new[k].time
               /\ k \div 2 = p /\ p > 1 => new[p \div 2].time <= new[k].time
    <2>1. PICK q : q = k \div 2
      OBVIOUS
    <2>2. q \in DOMAIN heap /\ q \in Nat /\ q < k /\ k \in DOMAIN heap /\ k \in Nat
      BY <1>3, <2>1, Half, Times
    <2>3. /\ heap[k].time \in Int /\ heap[q].time \in Int /\ heap[p].time \in Int
          /\ heap[i].time \in Int
      BY <1>3, <2>2, Times
    <2>4. k # i => heap[q].time <= heap[k].time
      BY <2>1 DEF HeapButUp, Below
    <2>5. q = i => heap[p].time <= heap[k].time
      BY <1>1, <1>3, <2>1 DEF HeapButUp
    <2>6. ASSUME k # p PROVE new[q].time <= new[k].time
      <3>1. CASE k = i
        <4>1. q = p
          BY <1>1, <2>1, <3>1
        <4> QED
          BY <1>2, <1>3, <1>4, <3>1, <4>1
      <3>2. CASE k # i /\ q = i
        <4>1. new[q] = heap[p] /\ new[k] = heap[k]
          BY <1>3, <1>4, <2>2, <2>6, <3>2
        <4> QED
          BY <2>5, <3>2, <4>1
      <3>3. CASE k # i /\ q = p
        <4>1. new[q] = heap[i] /\ new[k] = heap[k]
          BY <1>3, <1>4, <2>2, <2>6, <3>3
        <4> QED
          BY <1>2, <2>3, <2>4, <3>3, <4>1
      <3>4. CASE k # i /\ q # i /\ q # p
        BY <1>4, <2>2, <2>4, <2>6, <3>4
      <3> QED
        BY <3>1, <3>2, <3>3, <3>4
    <2>7. ASSUME q = p, p > 1 PROVE new[p \div 2].time <= new[k].time
      <3>1. PICK g : g = p \div 2
        OBVIOUS
      <3>2. g \in DOMAIN heap /\ g \in Nat /\ g < p /\ p \in 2 .. Len(heap)
        BY <1>3, <2>7, <3>1, Half
      <3>3. heap[g].time <= heap[p].time /\ heap[g].time \in Int
        <4>1. Below(heap, p)
          BY <1>3, <3>2 DEF HeapButUp
        <4> QED
          BY <3>1, <3>2, <4>1, Times DEF Below
      <3>4. new[g] = heap[g] /\ k # p
        BY <1>3, <1>4, <2>2, <2>7, <3>2
      <3>5. CASE k = i
        BY <1>3, <1>4, <3>1, <3>3, <3>4, <3>5
      <3>6. CASE k # i
        <4>1. new[k] = heap[k] /\ heap[p].time <= heap[k].time
          BY <1>4, <2>2, <2>4, <2>7, <3>4, <3>6
        <4> QED
          BY <2>3, <3>1, <3>3, <3>4, <4>1
      <3> QED
        BY <3>5, <3>6
    <2> QED
      BY <2>1, <2>6, <2>7
  <1> QED
    BY <1>1, <1>3, <1>5 DEF HeapButUp, Below, new

SamePackets(heap, new) ==
    new \in Seq(QueuedPacket) /\ Len(new) = Len(heap) /\ Members(new) = Members(heap)

\* A heap of the same packets.
HeapOf(heap, new) == SamePackets(heap, new) /\ Heap(new)

LEMMA SiftUpHeap ==
  ASSUME NEW heap \in Seq(QueuedPacket), NEW i \in DOMAIN heap, HeapButUp(heap, i)
  PROVE  HeapOf(heap, Queue!SiftUp[<<heap, i>>])
  <1> DEFINE T == {n \in Nat : \A h \in Seq(QueuedPacket) : \A k \in DOMAIN h :
                     k <= n /\ HeapButUp(h, k) => HeapOf(h, Queue!SiftUp[<<h, k>>])}
  <1>1. 0 \in T
    BY Times
  <1>2. ASSUME NEW n \in Nat, n \in T PROVE n + 1 \in T
    <2> SUFFICES ASSUME NEW h \in Seq(QueuedPacket), NEW k \in DOMAIN h, k <= n + 1,
                        HeapButUp(h, k)
                 PROVE  HeapOf(h, Queue!SiftUp[<<h, k>>])
      OBVIOUS
    <2>1. CASE UpStops(h, k)
      <3>1. Queue!SiftUp[<<h, k>>] = h
        BY <2>1, SiftUpIs
      <3>2. ASSUME NEW j \in 2 .. Len(h) PROVE Below(h, j)
        <4>1. CASE j = k
          <5>1. k # 1 /\ h[k].time > h[k \div 2].time
            BY <4>1, <2>1 DEF UpStops
          <5>2. k \div 2 \in DOMAIN h
            BY <5>1, RaisedIs
          <5> QED
            BY <4>1, <5>1, <5>2, Times DEF Below
        <4>2. CASE j # k
          BY <4>2 DEF HeapButUp
        <4> QED
          BY <4>1, <4>2
      <3> QED
        BY <3>1, <3>2 DEF HeapOf, SamePackets, Heap
    <2>2. CASE ~UpStops(h, k)
      <3>1. PICK g : g = Raised(h, k)
        OBVIOUS
      <3>2. PICK p : p = k \div 2
        OBVIOUS
      <3>3. k # 1
        BY <2>2 DEF UpStops
      <3>4. /\ g \in Seq(QueuedPacket) /\ p \in DOMAIN g /\ p < k /\ p \in Nat
            /\ Len(g) = Len(h) /\ Members(g) = Members(h)
        BY <3>1, <3>2, <3>3, RaisedIs, Half, Times
      <3>5. HeapButUp(g, p)
        BY <2>2, <3>1, <3>2, RaisedOrder
      <3>6. p <= n
        BY <3>4, Times
      <3>7. HeapOf(g, Queue!SiftUp[<<g, p>>])
        BY <1>2, <3>4, <3>5, <3>6
      <3>8. Queue!SiftUp[<<h, k>>] = Queue!SiftUp[<<g, p>>]
        BY <2>2, <3>1, <3>2, SiftUpIs
      <3> QED
        BY <3>4, <3>7, <3>8 DEF HeapOf, SamePackets
    <2> QED
      BY <2>1, <2>2
  <1>3. \A n \in Nat : n \in T
    <2> HIDE DEF T
    <2> QED
      BY <1>1, <1>2, Induction
  <1>4. i \in Nat
    BY Times
  <1>5. i \in T
    BY <1>3, <1>4
  <1> QED
    BY <1>4, <1>5

\* A packet that is inserted is put in order.
THEOREM InsertHeap ==
  ASSUME NEW heap \in Seq(QueuedPacket), Heap(heap), NEW e \in QueuedPacket
  PROVE  HeapOf(Append(heap, e), Queue!Insert(heap, e))
  <1> DEFINE new == Append(heap, e)
             n == Len(heap) + 1
  <1>1. /\ new \in Seq(QueuedPacket) /\ Len(new) = n /\ n \in DOMAIN new /\ Len(heap) \in Nat
        /\ \A k \in 1 .. Len(heap) : new[k] = heap[k]
    OBVIOUS
  <1>2. HeapButUp(new, n)
    <2>1. ASSUME NEW k \in 2 .. Len(new)
          PROVE  (k # n => Below(new, k)) /\ k \div 2 # n
      <3>1. k \in Nat /\ k > 1 /\ k <= n
        BY <1>1
      <3>2. k \div 2 \in Nat /\ k \div 2 > 0 /\ k \div 2 < k
        BY <3>1, Half
      <3>3. CASE k # n
        <4>1. k \in 2 .. Len(heap) /\ k \div 2 \in 1 .. Len(heap) /\ k \in 1 .. Len(heap)
          BY <1>1, <3>1, <3>2, <3>3
        <4> HIDE DEF new, n
        <4> QED
          BY <1>1, <3>1, <3>2, <4>1 DEF Heap, Below
      <3>4. CASE k = n
        BY <3>1, <3>2, <3>4
      <3> QED
        BY <3>3, <3>4
    <2> HIDE DEF new, n
    <2> QED
      BY <2>1 DEF HeapButUp
  <1> HIDE DEF new, n
  <1>3. HeapOf(new, Queue!SiftUp[<<new, n>>])
    BY <1>1, <1>2, SiftUpHeap
  <1> QED
    BY <1>3 DEF Queue!Insert, new, n

-----------------------------------------------------------------------------
(* The loop of RemoveAtHead.                                               *)

Lowered(heap, i) == Queue!Swap(heap, i, Queue!Larger(heap, i))

LEMMA LargerIs ==
  ASSUME NEW heap \in Seq(QueuedPacket), NEW i \in DOMAIN heap
  PROVE  /\ Queue!Larger(heap, i) \in DOMAIN heap
         /\ Queue!Larger(heap, i) \in {i, 2 * i, 2 * i + 1}
         /\ heap[Queue!Larger(heap, i)].time <= heap[i].time
         /\ \A k \in DOMAIN heap :
              k \in {2 * i, 2 * i + 1} => heap[Queue!Larger(heap, i)].time <= heap[k].time
  <1> DEFINE pick(a, b) ==
               IF b <= Len(heap) /\ heap[a].time > heap[b].time THEN b ELSE a
  <1>1. DOMAIN heap = 1 .. Len(heap) /\ Len(heap) \in Nat
    OBVIOUS
  <1>2. ASSUME NEW a \in DOMAIN heap, NEW b \in Nat \ {0}
        PROVE  /\ pick(a, b) \in DOMAIN heap /\ pick(a, b) \in {a, b}
               /\ heap[pick(a, b)].time <= heap[a].time
               /\ b \in DOMAIN heap => heap[pick(a, b)].time <= heap[b].time
               /\ heap[pick(a, b)].time \in Int
    <2>1. heap[a].time \in Int /\ (b <= Len(heap) => b \in DOMAIN heap /\ heap[b].time \in Int)
      BY <1>1, <1>2, Times
    <2>2. b \in DOMAIN heap => b <= Len(heap)
      BY <1>1
    <2> QED
      BY <1>2, <2>1, <2>2
  <1>3. i \in Nat \ {0} /\ 2 * i \in Nat \ {0} /\ 2 * i + 1 \in Nat \ {0}
    BY <1>1
  <1>4. Queue!Larger(heap, i) = pick(pick(i, 2 * i), 2 * i + 1)
    BY DEF Queue!Larger, LessFunc
  <1>5. PICK a : a = pick(i, 2 * i)
    OBVIOUS
  <1>6. PICK c : c = pick(a, 2 * i + 1)
    OBVIOUS
  <1> HIDE DEF pick
  <1>7. /\ a \in DOMAIN heap /\ a \in {i, 2 * i} /\ heap[a].time <= heap[i].time
        /\ 2 * i \in DOMAIN heap => heap[a].time <= heap[2 * i].time
        /\ heap[a].time \in Int
    BY <1>2, <1>3, <1>5
  <1>8. /\ c \in DOMAIN heap /\ c \in {a, 2 * i + 1} /\ heap[c].time <= heap[a].time
        /\ 2 * i + 1 \in DOMAIN heap => heap[c].time <= heap[2 * i + 1].time
        /\ heap[c].time \in Int
    BY <1>2, <1>3, <1>6, <1>7
  <1>9. /\ heap[i].time \in Int
        /\ 2 * i \in DOMAIN heap => heap[2 * i].time \in Int
    BY Times
  <1>10. heap[c].time <= heap[i].time
    BY <1>7, <1>8, <1>9
  <1>11. 2 * i \in DOMAIN heap => heap[c].time <= heap[2 * i].time
    BY <1>7, <1>8, <1>9
  <1>12. \A k \in DOMAIN heap : k \in {2 * i, 2 * i + 1} => heap[c].time <= heap[k].time
    BY <1>8, <1>11
  <1>13. Queue!Larger(heap, i) = c
    BY <1>4, <1>5, <1>6
  <1> QED
    BY <1>7, <1>8, <1>10, <1>12, <1>13

LEMMA LoweredIs ==
  ASSUME NEW heap \in Seq(QueuedPacket), NEW i \in DOMAIN heap
  PROVE  /\ Lowered(heap, i) \in Seq(QueuedPacket) /\ Len(Lowered(heap, i)) = Len(heap)
         /\ DOMAIN Lowered(heap, i) = DOMAIN heap
         /\ Members(Lowered(heap, i)) = Members(heap)
  BY LargerIs, SwapIs DEF Lowered

LEMMA SiftDownIs ==
  ASSUME NEW heap \in Seq(QueuedPacket), NEW i \in DOMAIN heap
  PROVE  Queue!SiftDown[<<heap, i>>] =
           IF Queue!Larger(heap, i) = i THEN heap
           ELSE Queue!SiftDown[<<Lowered(heap, i), Queue!Larger(heap, i)>>]
  <1> DEFINE S == Queue!Cursors
             V == Seq(QueuedPacket)
             M == [s \in S |-> Len(s[1]) - s[2]]
             D == {s \in S : Queue!Larger(s[1], s[2]) = s[2]}
             N == [s \in S |-> <<Lowered(s[1], s[2]), Queue!Larger(s[1], s[2])>>]
             B == [s \in S |-> s[1]]
             C == [p \in S \X V |-> p[2]]
  <1>1. ASSUME NEW s \in S
        PROVE  s[1] \in Seq(QueuedPacket) /\ s[2] \in DOMAIN s[1] /\ s = <<s[1], s[2]>>
               /\ s[2] \in 1 .. Len(s[1]) /\ Len(s[1]) \in Nat
    BY DEF Queue!Cursors
  <1>2. Terminates(S, V, M, D, N, B, C)
    <2>1. M \in [S -> Nat]
      BY <1>1
    <2>2. \A s \in S : s \in D => B[s] \in V
      BY <1>1
    <2>3. ASSUME NEW s \in S, s \notin D
          PROVE  N[s] \in S /\ M[N[s]] < M[s] /\ \A v \in V : C[<<s, v>>] \in V
      <3>1. PICK h, k : h \in Seq(QueuedPacket) /\ k \in DOMAIN h /\ s = <<h, k>>
        BY <1>1
      <3>2. PICK c : c = Queue!Larger(h, k)
        OBVIOUS
      <3>3. PICK g : g = Lowered(h, k)
        OBVIOUS
      <3>4. c # k
        BY <2>3, <3>1, <3>2
      <3>5. c \in DOMAIN h /\ c \in {k, 2 * k, 2 * k + 1}
        BY <3>1, <3>2, LargerIs
      <3>6. g \in Seq(QueuedPacket) /\ Len(g) = Len(h) /\ DOMAIN g = DOMAIN h
        BY <3>1, <3>3, LoweredIs
      <3>7. c > k /\ c \in Nat /\ k \in Nat /\ Len(h) \in Nat /\ k <= Len(h) /\ c <= Len(h)
        BY <3>1, <3>4, <3>5, Times
      <3>8. N[s] = <<g, c>>
        BY <3>1, <3>2, <3>3
      <3>9. <<g, c>> \in S
        BY <3>5, <3>6, <3>7 DEF Queue!Cursors
      <3>10. M[<<g, c>>] = Len(h) - c /\ M[s] = Len(h) - k
        BY <3>1, <3>6, <3>9
      <3> HIDE DEF M, N, S
      <3> QED
        BY <3>7, <3>8, <3>9, <3>10
    <2> HIDE DEF M, D, N, B, C
    <2> QED
      BY <2>1, <2>2, <2>3 DEF Terminates
  <1>3. PICK f : Unfolds(f, S, S, V, D, N, B, C)
    BY <1>2, Recursion
  <1>4. f = [s \in S |-> IF Queue!Larger(s[1], s[2]) = s[2] THEN s[1]
                         ELSE f[<<Lowered(s[1], s[2]), Queue!Larger(s[1], s[2])>>]]
    <2>1. ASSUME NEW s \in S
          PROVE  f[s] = IF Queue!Larger(s[1], s[2]) = s[2] THEN s[1]
                        ELSE f[<<Lowered(s[1], s[2]), Queue!Larger(s[1], s[2])>>]
      <3>1. f[s] = IF s \in D THEN B[s] ELSE C[<<s, f[N[s]]>>]
        BY <1>3 DEF Unfolds
      <3>2. CASE s \in D
        BY <3>1, <3>2
      <3>3. CASE s \notin D
        <4>1. N[s] \in S /\ N[s] = <<Lowered(s[1], s[2]), Queue!Larger(s[1], s[2])>>
          BY <1>2, <3>3 DEF Terminates
        <4>2. f[N[s]] \in V
          BY <1>3, <4>1 DEF Unfolds
        <4> QED
          BY <3>1, <3>3, <4>1, <4>2
      <3> QED
        BY <3>2, <3>3
    <2>2. f \in [S -> V]
      BY <1>3 DEF Unfolds
    <2> QED
      BY <2>1, <2>2
  <1>5. Queue!SiftDown =
          [s \in S |-> IF Queue!Larger(s[1], s[2]) = s[2] THEN s[1]
                       ELSE Queue!SiftDown[<<Lowered(s[1], s[2]), Queue!Larger(s[1], s[2])>>]]
    BY <1>4 DEF Queue!SiftDown, Lowered
  <1>6. <<heap, i>> \in S
    BY Times DEF Queue!Cursors
  <1> QED
    BY <1>5, <1>6

\* Then it is its new place where it may be out of order.
LEMMA LoweredOrder ==
  ASSUME NEW heap \in Seq(QueuedPacket), NEW i \in DOMAIN heap, HeapButDown(heap, i),
         Queue!Larger(heap, i) # i
  PROVE  HeapButDown(Lowered(heap, i), Queue!Larger(heap, i))
  <1>1. PICK c : c = Queue!Larger(heap, i)
    OBVIOUS
  <1>2. PICK new : new = Lowered(heap, i)
    OBVIOUS
  <1>3. c \in DOMAIN heap /\ c \in {2 * i, 2 * i + 1} /\ heap[c].time <= heap[i].time
        /\ \A k \in DOMAIN heap : k \in {2 * i, 2 * i + 1} => heap[c].time <= heap[k].time
    BY <1>1, LargerIs
  <1>4. /\ c \in Nat /\ i \in Nat /\ i >= 1 /\ c > i /\ c >= 2 /\ c <= Len(heap)
        /\ DOMAIN heap = 1 .. Len(heap) /\ Len(heap) \in Nat
    BY <1>3, Times
  <1>5. c \div 2 = i /\ c \in 2 .. Len(heap)
    BY <1>3, <1>4, HalfIs
  <1>6. Len(new) = Len(heap) /\ DOMAIN new = DOMAIN heap
    BY <1>2, LoweredIs
  <1>7. new = [heap EXCEPT ![i] = heap[c], ![c] = heap[i]]
    BY <1>1, <1>2 DEF Lowered, Queue!Swap
  <1>8. \A k \in DOMAIN heap :
          new[k] = IF k = c THEN heap[i] ELSE IF k = i THEN heap[c] ELSE heap[k]
    BY <1>3, <1>7
  <1>9. ASSUME NEW k \in 2 .. Len(heap)
        PROVE  /\ k \div 2 # c => new[k \div 2].time <= new[k].time
               /\ k \div 2 = c => new[i].time <= new[k].time
    <2>1. PICK q : q = k \div 2
      OBVIOUS
    <2>2. q \in DOMAIN heap /\ q \in Nat /\ q < k /\ k \in DOMAIN heap /\ k \in Nat
      BY <1>4, <2>1, Half
    <2>3. q # i => heap[q].time <= heap[k].time
      BY <2>1 DEF HeapButDown, Below
    <2>4. q = i => heap[c].time <= heap[k].time
      BY <1>3, <1>4, <2>1, <2>2, HalfIs
    <2>5. ASSUME q # c PROVE new[q].time <= new[k].time
      <3>1. CASE k = i
        <4>1. q # i /\ k # c /\ new[q] = heap[q] /\ new[k] = heap[c]
          BY <1>4, <1>8, <2>2, <2>5, <3>1
        <4>2. heap[i \div 2].time <= heap[c].time
          BY <1>4, <1>5, <3>1 DEF HeapButDown
        <4> QED
          BY <2>1, <3>1, <4>1, <4>2
      <3>2. CASE k = c
        <4>1. q = i /\ new[q] = heap[c] /\ new[k] = heap[i]
          BY <1>4, <1>5, <1>8, <2>1, <2>2, <3>2
        <4> QED
          BY <1>3, <4>1
      <3>3. CASE k # i /\ k # c /\ q = i
        <4>1. new[q] = heap[c] /\ new[k] = heap[k]
          BY <1>4, <1>8, <2>2, <3>3
        <4> QED
          BY <2>4, <3>3, <4>1
      <3>4. CASE k # i /\ k # c /\ q # i
        BY <1>8, <2>2, <2>3, <2>5, <3>4
      <3> QED
        BY <3>1, <3>2, <3>3, <3>4
    <2>6. ASSUME q = c PROVE new[i].time <= new[k].time
      <3>1. q # i /\ k # i /\ k # c
        BY <1>4, <2>2, <2>6
      <3>2. new[i] = heap[c] /\ new[k] = heap[k]
        BY <1>4, <1>8, <2>2, <3>1
      <3> QED
        BY <2>3, <2>6, <3>1, <3>2
    <2> QED
      BY <2>1, <2>5, <2>6
  <1>10. HeapButDown(new, c)
    BY <1>5, <1>6, <1>9 DEF HeapButDown, Below
  <1> QED
    BY <1>1, <1>2, <1>10

\* Whether it was a heap or not, the packets are the same.
LEMMA SiftDownHeap ==
  ASSUME NEW heap \in Seq(QueuedPacket), NEW i \in DOMAIN heap
  PROVE  /\ SamePackets(heap, Queue!SiftDown[<<heap, i>>])
         /\ HeapButDown(heap, i) => Heap(Queue!SiftDown[<<heap, i>>])
  <1> DEFINE Good(h, k) == /\ SamePackets(h, Queue!SiftDown[<<h, k>>])
                           /\ HeapButDown(h, k) => Heap(Queue!SiftDown[<<h, k>>])
             T == {n \in Nat : \A h \in Seq(QueuedPacket) : \A k \in DOMAIN h :
                     Len(h) - k <= n => Good(h, k)}
  <1>1. ASSUME NEW h \in Seq(QueuedPacket), NEW k \in DOMAIN h, Queue!Larger(h, k) = k
        PROVE  Good(h, k)
    <2>1. Queue!SiftDown[<<h, k>>] = h
      BY <1>1, SiftDownIs
    <2>2. ASSUME NEW j \in 2 .. Len(h), HeapButDown(h, k) PROVE Below(h, j)
      <3>1. j \in Nat /\ j \in DOMAIN h /\ k \in Nat
        BY Times
      <3>2. CASE j \div 2 = k
        <4>1. j \in {2 * k, 2 * k + 1}
          BY <3>1, <3>2, HalfIs
        <4>2. h[k].time <= h[j].time
          BY <1>1, <3>1, <4>1, LargerIs
        <4> QED
          BY <3>2, <4>2 DEF Below
      <3>3. CASE j \div 2 # k
        BY <2>2, <3>3 DEF HeapButDown
      <3> QED
        BY <3>2, <3>3
    <2> QED
      BY <2>1, <2>2 DEF SamePackets, Heap
  <1>2. ASSUME NEW h \in Seq(QueuedPacket), NEW k \in DOMAIN h, Queue!Larger(h, k) # k
        PROVE  Queue!Larger(h, k) \in DOMAIN h /\ Queue!Larger(h, k) > k
               /\ Queue!Larger(h, k) \in Nat /\ Queue!Larger(h, k) <= Len(h)
    <2>1. Queue!Larger(h, k) \in DOMAIN h /\ Queue!Larger(h, k) \in {2 * k, 2 * k + 1}
      BY <1>2, LargerIs
    <2>2. k \in Nat /\ k >= 1
      BY Times
    <2> QED
      BY <2>1, <2>2, Times
  <1> HIDE DEF Good
  <1>3. 0 \in T
    <2> SUFFICES ASSUME NEW h \in Seq(QueuedPacket), NEW k \in DOMAIN h, Len(h) - k <= 0
                 PROVE  Good(h, k)
      OBVIOUS
    <2>1. Queue!Larger(h, k) = k
      BY <1>2, Times
    <2> QED
      BY <1>1, <2>1
  <1>4. ASSUME NEW n \in Nat, n \in T PROVE n + 1 \in T
    <2> SUFFICES ASSUME NEW h \in Seq(QueuedPacket), NEW k \in DOMAIN h, Len(h) - k <= n + 1
                 PROVE  Good(h, k)
      OBVIOUS
    <2>1. CASE Queue!Larger(h, k) # k
      <3>1. PICK g : g = Lowered(h, k)
        OBVIOUS
      <3>2. PICK c : c = Queue!Larger(h, k)
        OBVIOUS
      <3>3. c \in DOMAIN h /\ c > k /\ c \in Nat /\ c <= Len(h)
        BY <1>2, <2>1, <3>2
      <3>4. /\ g \in Seq(QueuedPacket) /\ Len(g) = Len(h) /\ DOMAIN g = DOMAIN h
            /\ Members(g) = Members(h)
        BY <3>1, LoweredIs
      <3>5. HeapButDown(h, k) => HeapButDown(g, c)
        BY <2>1, <3>1, <3>2, LoweredOrder
      <3>6. Len(g) - c <= n /\ c \in DOMAIN g
        BY <3>3, <3>4, Times
      <3>7. Good(g, c)
        BY <1>4, <3>4, <3>6
      <3>8. Queue!SiftDown[<<h, k>>] = Queue!SiftDown[<<g, c>>]
        BY <2>1, <3>1, <3>2, SiftDownIs
      <3> QED
        BY <3>4, <3>5, <3>7, <3>8 DEF Good, SamePackets
    <2> QED
      BY <1>1, <2>1
  <1>5. \A n \in Nat : n \in T
    <2> HIDE DEF T
    <2> QED
      BY <1>3, <1>4, Induction
  <1>6. Len(heap) - i \in Nat
    BY Times
  <1>7. Len(heap) - i \in T
    BY <1>5, <1>6
  <1> QED
    BY <1>6, <1>7 DEF Good

\* What is left without the head is a heap again.
LEMMA RemoveAtHeadIs ==
  ASSUME NEW heap \in Seq(QueuedPacket), heap # <<>>
  PROVE  /\ Queue!RemoveAtHead(heap) \in Seq(QueuedPacket)
         /\ Len(Queue!RemoveAtHead(heap)) = Len(heap) - 1
         /\ Members(Queue!RemoveAtHead(heap)) \cup {heap[1]} = Members(heap)
         /\ Heap(heap) => Heap(Queue!RemoveAtHead(heap))
  <1>1. PICK n : n = Len(heap)
    OBVIOUS
  <1>2. n \in Nat /\ n >= 1 /\ DOMAIN heap = 1 .. n /\ heap[n] \in QueuedPacket
    BY <1>1
  <1>3. PICK new : new = Queue!FastRemove(heap, 1)
    OBVIOUS
  <1>4. new = SubSeq([heap EXCEPT ![1] = heap[n]], 1, n - 1)
    BY <1>1, <1>3 DEF Queue!FastRemove
  <1>5. PICK moved : moved = [heap EXCEPT ![1] = heap[n]]
    OBVIOUS
  <1>6. moved \in Seq(QueuedPacket) /\ Len(moved) = n
        /\ \A k \in 1 .. n : moved[k] = IF k = 1 THEN heap[n] ELSE heap[k]
    BY <1>1, <1>2, <1>5
  <1>7. /\ new \in Seq(QueuedPacket) /\ Len(new) = n - 1 /\ DOMAIN new = 1 .. n - 1
        /\ \A k \in 1 .. n - 1 : new[k] = IF k = 1 THEN heap[n] ELSE heap[k]
    <2>1. new = SubSeq(moved, 1, n - 1)
      BY <1>4, <1>5
    <2>2. new \in Seq(QueuedPacket) /\ Len(new) = n - 1
      BY <1>2, <1>6, <2>1
    <2>3. \A k \in 1 .. n - 1 : new[k] = moved[k]
      BY <1>2, <1>6, <2>1
    <2> QED
      BY <1>2, <1>6, <2>2, <2>3
  <1>8. Members(new) \cup {heap[1]} = Members(heap)
    <2>1. ASSUME NEW k \in 1 .. n - 1 PROVE new[k] \in Members(heap)
      BY <1>2, <1>7 DEF Members
    <2>2. ASSUME NEW k \in 1 .. n PROVE heap[k] \in Members(new) \cup {heap[1]}
      <3>1. CASE k # 1 /\ k # n
        <4>1. k \in DOMAIN new /\ new[k] = heap[k]
          BY <1>2, <1>7, <3>1
        <4> QED
          BY <4>1 DEF Members
      <3>2. CASE k # 1 /\ k = n
        <4>1. 1 \in DOMAIN new /\ new[1] = heap[k]
          BY <1>2, <1>7, <3>2
        <4> QED
          BY <4>1 DEF Members
      <3> QED
        BY <3>1, <3>2
    <2>3. 1 \in DOMAIN heap
      BY <1>2
    <2>4. Members(new) \subseteq Members(heap)
      BY <1>7, <2>1 DEF Members
    <2>5. Members(heap) \subseteq Members(new) \cup {heap[1]}
      BY <1>2, <2>2 DEF Members
    <2>6. heap[1] \in Members(heap)
      BY <2>3 DEF Members
    <2> QED
      BY <2>4, <2>5, <2>6
  <1>9. CASE n = 1
    <2>1. Queue!RemoveAtHead(heap) = new
      BY <1>1, <1>3, <1>9 DEF Queue!RemoveAtHead, Queue!RemoveAt
    <2>2. Heap(new)
      BY <1>7, <1>9 DEF Heap
    <2> QED
      BY <1>1, <1>7, <1>8, <2>1, <2>2
  <1>10. CASE n # 1
    <2>1. Queue!RemoveAtHead(heap) = Queue!SiftDown[<<new, 1>>]
      BY <1>1, <1>3, <1>10 DEF Queue!RemoveAtHead, Queue!RemoveAt
    <2>2. ASSUME NEW k \in 2 .. Len(new), k \div 2 # 1, Heap(heap) PROVE Below(new, k)
      <3>1. k \in Nat /\ k > 1 /\ k \in 1 .. n - 1 /\ k \in 2 .. Len(heap)
        BY <1>1, <1>2, <1>7, <2>2
      <3>2. k \div 2 \in 1 .. n - 1
        BY <1>2, <3>1, Half
      <3>3. new[k] = heap[k] /\ new[k \div 2] = heap[k \div 2]
        BY <1>7, <2>2, <3>1, <3>2
      <3> QED
        BY <2>2, <3>1, <3>3 DEF Heap, Below
    <2>3. Heap(heap) => HeapButDown(new, 1)
      BY <2>2 DEF HeapButDown
    <2>4. 1 \in DOMAIN new
      BY <1>2, <1>7, <1>10
    <2>5. SamePackets(new, Queue!SiftDown[<<new, 1>>])
          /\ (Heap(heap) => Heap(Queue!SiftDown[<<new, 1>>]))
      BY <1>7, <2>3, <2>4, SiftDownHeap
    <2> QED
      BY <1>1, <1>7, <1>8, <2>1, <2>5 DEF SamePackets
  <1> QED
    BY <1>9, <1>10

-----------------------------------------------------------------------------
(* The loop of Run.                                                        *)

Rest(heap) == Queue!RemoveAtHead(heap)
Halts(heap, now) == heap = <<>> \/ heap[1].time > now
Batch == [sent : Seq(QueuedPacket), left : Seq(QueuedPacket)]

LEMMA PullIs ==
  ASSUME NEW heap \in Seq(QueuedPacket), NEW now \in Nat
  PROVE  Pull(heap, now) =
           IF Halts(heap, now) THEN [sent |-> <<>>, left |-> heap]
           ELSE [sent |-> <<heap[1]>> \o Pull(Rest(heap), now).sent,
                 left |-> Pull(Rest(heap), now).left]
  <1> DEFINE S == Seq(QueuedPacket) \X Nat
             M == [s \in S |-> Len(s[1])]
             D == {s \in S : Halts(s[1], s[2])}
             N == [s \in S |-> <<Rest(s[1]), s[2]>>]
             B == [s \in S |-> [sent |-> <<>>, left |-> s[1]]]
             C == [p \in S \X Batch |->
                     [sent |-> <<p[1][1][1]>> \o p[2].sent, left |-> p[2].left]]
  <1>1. Terminates(S, Batch, M, D, N, B, C)
    <2>1. M \in [S -> Nat]
      OBVIOUS
    <2>2. ASSUME NEW s \in S, s \in D PROVE B[s] \in Batch
      <3>1. <<>> \in Seq(QueuedPacket) /\ s[1] \in Seq(QueuedPacket)
        OBVIOUS
      <3> QED
        BY <3>1 DEF Batch
    <2>3. ASSUME NEW s \in S, s \notin D
          PROVE  N[s] \in S /\ M[N[s]] < M[s] /\ \A v \in Batch : C[<<s, v>>] \in Batch
      <3>1. PICK h, t : h \in Seq(QueuedPacket) /\ t \in Nat /\ s = <<h, t>>
        OBVIOUS
      <3>2. h # <<>>
        BY <2>3, <3>1 DEF Halts
      <3>3. Rest(h) \in Seq(QueuedPacket) /\ Len(Rest(h)) = Len(h) - 1
        BY <3>1, <3>2, RemoveAtHeadIs DEF Rest
      <3>4. N[s] = <<Rest(h), t>>
        BY <3>1
      <3>5. <<Rest(h), t>> \in S
        BY <3>1, <3>3
      <3>6. M[<<Rest(h), t>>] = Len(h) - 1 /\ M[s] = Len(h) /\ Len(h) \in Nat
        BY <3>1, <3>3, <3>5
      <3>7. ASSUME NEW v \in Batch PROVE C[<<s, v>>] \in Batch
        <4>1. C[<<s, v>>] = [sent |-> <<h[1]>> \o v.sent, left |-> v.left]
          BY <3>1
        <4>2. h[1] \in QueuedPacket
          BY <3>1, <3>2
        <4>3. v.sent \in Seq(QueuedPacket) /\ v.left \in Seq(QueuedPacket)
          BY DEF Batch
        <4>4. <<h[1]>> \o v.sent \in Seq(QueuedPacket)
          BY <4>2, <4>3
        <4> QED
          BY <4>1, <4>3, <4>4 DEF Batch
      <3> HIDE DEF M, N, S, C
      <3> QED
        BY <3>4, <3>5, <3>6, <3>7
    <2> HIDE DEF M, D, N, B, C
    <2> QED
      BY <2>1, <2>2, <2>3 DEF Terminates
  <1>2. PICK f : Unfolds(f, S, S, Batch, D, N, B, C)
    BY <1>1, Recursion
  <1>3. f = [s \in S |-> IF Halts(s[1], s[2]) THEN [sent |-> <<>>, left |-> s[1]]
                         ELSE LET rest == f[<<Rest(s[1]), s[2]>>]
                              IN [sent |-> <<s[1][1]>> \o rest.sent, left |-> rest.left]]
    <2>1. ASSUME NEW s \in S
          PROVE  f[s] = IF Halts(s[1], s[2]) THEN [sent |-> <<>>, left |-> s[1]]
                        ELSE LET rest == f[<<Rest(s[1]), s[2]>>]
                             IN [sent |-> <<s[1][1]>> \o rest.sent, left |-> rest.left]
      <3>1. f[s] = IF s \in D THEN B[s] ELSE C[<<s, f[N[s]]>>]
        BY <1>2 DEF Unfolds
      <3>2. CASE s \in D
        BY <3>1, <3>2
      <3>3. CASE s \notin D
        <4>1. N[s] \in S /\ N[s] = <<Rest(s[1]), s[2]>>
          BY <1>1, <3>3 DEF Terminates
        <4>2. PICK v : v = f[N[s]]
          OBVIOUS
        <4>3. v \in Batch
          BY <1>2, <4>1, <4>2 DEF Unfolds
        <4>4. C[<<s, v>>] = [sent |-> <<s[1][1]>> \o v.sent, left |-> v.left]
          BY <4>3
        <4> QED
          BY <3>1, <3>3, <4>1, <4>2, <4>4
      <3> QED
        BY <3>2, <3>3
    <2>2. f \in [S -> Batch]
      BY <1>2 DEF Unfolds
    <2> QED
      BY <2>1, <2>2
  <1>4. Pulled = [s \in S |-> IF Halts(s[1], s[2]) THEN [sent |-> <<>>, left |-> s[1]]
                              ELSE LET rest == Pulled[<<Rest(s[1]), s[2]>>]
                                   IN [sent |-> <<s[1][1]>> \o rest.sent, left |-> rest.left]]
    BY <1>3 DEF Pulled, Halts, Rest
  <1>5. <<heap, now>> \in S
    OBVIOUS
  <1> QED
    BY <1>4, <1>5 DEF Pull

\* What is sent is due by now and in order, what is left is a heap and due later.
Ascending(s) == \A j, k \in DOMAIN s : j < k => s[j].time <= s[k].time

Sorted(heap, now, batch) ==
    /\ batch \in Batch /\ Len(batch.left) <= Len(heap)
    /\ Heap(batch.left)
    /\ Members(batch.sent) \subseteq Members(heap) /\ Members(batch.left) \subseteq Members(heap)
    /\ \A k \in DOMAIN batch.sent : batch.sent[k].time <= now
    /\ \A k \in DOMAIN batch.left : batch.left[k].time > now
    /\ Ascending(batch.sent)

THEOREM PullSorts ==
  ASSUME NEW heap \in Seq(QueuedPacket), Heap(heap), NEW now \in Nat
  PROVE  Sorted(heap, now, Pull(heap, now))
  <1> DEFINE T == {n \in Nat : \A h \in Seq(QueuedPacket) :
                     Len(h) <= n /\ Heap(h) => Sorted(h, now, Pull(h, now))}
  <1>1. ASSUME NEW h \in Seq(QueuedPacket), Heap(h), Halts(h, now)
        PROVE  Sorted(h, now, Pull(h, now))
    <2>1. PICK b : b = Pull(h, now)
      OBVIOUS
    <2>2. b = [sent |-> <<>>, left |-> h]
      BY <1>1, <2>1, PullIs
    <2>3. b.sent = <<>> /\ b.left = h /\ <<>> \in Seq(QueuedPacket) /\ Len(h) \in Nat
      BY <2>2
    <2>4. b \in Batch
      BY <2>2, <2>3 DEF Batch
    <2>5. ASSUME NEW k \in DOMAIN h PROVE h[k].time > now
      <3>1. 1 \in DOMAIN h /\ h[1].time <= h[k].time
        BY <1>1, HeadIsFirst
      <3>2. h[1].time > now
        BY <1>1, <3>1 DEF Halts
      <3> QED
        BY <3>1, <3>2, Times
    <2>6. Members(<<>>) = {} /\ DOMAIN <<>> = {}
      BY DEF Members
    <2> QED
      BY <1>1, <2>1, <2>3, <2>4, <2>5, <2>6 DEF Sorted, Ascending
  <1>2. 0 \in T
    <2> SUFFICES ASSUME NEW h \in Seq(QueuedPacket), Len(h) <= 0, Heap(h)
                 PROVE  Sorted(h, now, Pull(h, now))
      OBVIOUS
    <2>1. Halts(h, now)
      BY DEF Halts
    <2> QED
      BY <1>1, <2>1
  <1>3. ASSUME NEW n \in Nat, n \in T PROVE n + 1 \in T
    <2> SUFFICES ASSUME NEW h \in Seq(QueuedPacket), Len(h) <= n + 1, Heap(h), ~Halts(h, now)
                 PROVE  Sorted(h, now, Pull(h, now))
      BY <1>1
    <2>1. PICK rest : rest = Rest(h)
      OBVIOUS
    <2>2. PICK b : b = Pull(rest, now)
      OBVIOUS
    <2>3. PICK a : a = Pull(h, now)
      OBVIOUS
    <2>4. h # <<>> /\ ~(h[1].time > now)
      BY DEF Halts
    <2>5. 1 \in DOMAIN h /\ h[1] \in QueuedPacket /\ h[1] \in Members(h)
          /\ h[1].time \in Int /\ h[1].time <= now
      BY <2>4, Times DEF Members
    <2>6. /\ rest \in Seq(QueuedPacket) /\ Len(rest) = Len(h) - 1 /\ Heap(rest)
          /\ Members(rest) \subseteq Members(h)
      BY <2>1, <2>4, RemoveAtHeadIs DEF Rest
    <2>7. Sorted(rest, now, b)
      BY <1>3, <2>2, <2>6
    <2>8. b.sent \in Seq(QueuedPacket) /\ b.left \in Seq(QueuedPacket)
      BY <2>7 DEF Sorted, Batch
    <2>9. a = [sent |-> <<h[1]>> \o b.sent, left |-> b.left]
      BY <2>1, <2>2, <2>3, PullIs
    <2>10. PICK s : s = <<h[1]>> \o b.sent
      OBVIOUS
    <2>11. /\ s \in Seq(QueuedPacket) /\ Len(s) = Len(b.sent) + 1 /\ Len(b.sent) \in Nat
           /\ s[1] = h[1] /\ DOMAIN s = 1 .. Len(s) /\ Len(s) \in Nat
           /\ \A k \in 2 .. Len(s) : k - 1 \in DOMAIN b.sent /\ s[k] = b.sent[k - 1]
      BY <2>5, <2>8, <2>10
    <2>12. a.sent = s /\ a.left = b.left /\ a \in Batch
      BY <2>8, <2>9, <2>10, <2>11 DEF Batch
    <2>13. ASSUME NEW k \in DOMAIN s
           PROVE  s[k] \in Members(h) /\ s[k].time <= now /\ h[1].time <= s[k].time
      <3>1. CASE k = 1
        BY <2>5, <2>11, <3>1
      <3>2. CASE k # 1
        <4>1. k \in 2 .. Len(s)
          BY <2>11, <3>2
        <4>2. k - 1 \in DOMAIN b.sent /\ s[k] = b.sent[k - 1]
          BY <2>11, <4>1
        <4>3. s[k].time <= now /\ s[k] \in Members(h)
          BY <2>6, <2>7, <4>2 DEF Sorted, Members
        <4>4. PICK j \in DOMAIN h : s[k] = h[j]
          BY <4>3 DEF Members
        <4>5. h[1].time <= h[j].time
          BY HeadIsFirst
        <4> QED
          BY <4>3, <4>4, <4>5
      <3> QED
        BY <3>1, <3>2
    <2>14. ASSUME NEW j \in DOMAIN s, NEW k \in DOMAIN s, j < k
           PROVE  s[j].time <= s[k].time
      <3>1. j \in 1 .. Len(s) /\ k \in 2 .. Len(s)
        BY <2>11, <2>14
      <3>2. CASE j = 1
        BY <2>11, <2>13, <3>2
      <3>3. CASE j # 1
        <4>1. j \in 2 .. Len(s) /\ j - 1 < k - 1
          BY <2>14, <3>1, <3>3
        <4>2. /\ j - 1 \in DOMAIN b.sent /\ s[j] = b.sent[j - 1]
              /\ k - 1 \in DOMAIN b.sent /\ s[k] = b.sent[k - 1]
          BY <2>11, <3>1, <4>1
        <4> QED
          BY <2>7, <4>1, <4>2 DEF Sorted, Ascending
      <3> QED
        BY <3>2, <3>3
    <2>15. Members(s) \subseteq Members(h)
      BY <2>13 DEF Members
    <2>16. Len(b.left) <= Len(h)
      BY <2>6, <2>7, <2>8 DEF Sorted
    <2>17. /\ Heap(b.left) /\ Members(b.left) \subseteq Members(h)
           /\ \A k \in DOMAIN b.left : b.left[k].time > now
      BY <2>6, <2>7 DEF Sorted
    <2> QED
      BY <2>3, <2>12, <2>13, <2>14, <2>15, <2>16, <2>17 DEF Sorted, Ascending
  <1>4. \A n \in Nat : n \in T
    <2> HIDE DEF T
    <2> QED
      BY <1>2, <1>3, Induction
  <1>5. Len(heap) \in Nat
    OBVIOUS
  <1>6. Len(heap) \in T
    BY <1>4, <1>5
  <1> QED
    BY <1>5, <1>6

\* As many packets are sent or left as there were, and the same ones.
Keeps(heap, batch) ==
    /\ batch \in Batch
    /\ Len(batch.sent) + Len(batch.left) = Len(heap)
    /\ Members(batch.sent) \cup Members(batch.left) = Members(heap)

\* The loop of Run loses no packet and repeats none, also when the counter of
\* milliseconds wraps around (net_ws_queued_packet_sender.cpp:214-240).
THEOREM PullKeeps ==
  ASSUME NEW heap \in Seq(QueuedPacket), NEW now \in Nat
  PROVE  Keeps(heap, Pull(heap, now))
  <1> DEFINE T == {n \in Nat : \A h \in Seq(QueuedPacket) :
                     Len(h) <= n => Keeps(h, Pull(h, now))}
  <1>1. ASSUME NEW h \in Seq(QueuedPacket), Halts(h, now)
        PROVE  Keeps(h, Pull(h, now))
    <2>1. PICK b : b = Pull(h, now)
      OBVIOUS
    <2>2. b = [sent |-> <<>>, left |-> h]
      BY <1>1, <2>1, PullIs
    <2>3. /\ b.sent = <<>> /\ b.left = h /\ <<>> \in Seq(QueuedPacket)
          /\ Len(h) \in Nat /\ Len(<<>>) = 0 /\ Members(<<>>) = {}
      BY <2>2 DEF Members
    <2>4. b \in Batch
      BY <2>2, <2>3 DEF Batch
    <2> QED
      BY <2>1, <2>3, <2>4 DEF Keeps
  <1>2. 0 \in T
    <2> SUFFICES ASSUME NEW h \in Seq(QueuedPacket), Len(h) <= 0
                 PROVE  Keeps(h, Pull(h, now))
      OBVIOUS
    <2>1. Halts(h, now)
      BY DEF Halts
    <2> QED
      BY <1>1, <2>1
  <1>3. ASSUME NEW n \in Nat, n \in T PROVE n + 1 \in T
    <2> SUFFICES ASSUME NEW h \in Seq(QueuedPacket), Len(h) <= n + 1, ~Halts(h, now)
                 PROVE  Keeps(h, Pull(h, now))
      BY <1>1
    <2>1. PICK rest : rest = Rest(h)
      OBVIOUS
    <2>2. PICK b : b = Pull(rest, now)
      OBVIOUS
    <2>3. PICK a : a = Pull(h, now)
      OBVIOUS
    <2>4. h # <<>>
      BY DEF Halts
    <2>5. /\ rest \in Seq(QueuedPacket) /\ Len(rest) = Len(h) - 1 /\ Len(h) \in Nat
          /\ Members(rest) \cup {h[1]} = Members(h) /\ h[1] \in QueuedPacket
      BY <2>1, <2>4, RemoveAtHeadIs DEF Rest
    <2>6. Keeps(rest, b)
      BY <1>3, <2>2, <2>5
    <2>7. b.sent \in Seq(QueuedPacket) /\ b.left \in Seq(QueuedPacket)
      BY <2>6 DEF Keeps, Batch
    <2>8. a = [sent |-> <<h[1]>> \o b.sent, left |-> b.left]
      BY <2>1, <2>2, <2>3, PullIs
    <2>9. PICK s : s = <<h[1]>> \o b.sent
      OBVIOUS
    <2>10. /\ s \in Seq(QueuedPacket) /\ Len(s) = Len(b.sent) + 1 /\ Len(b.sent) \in Nat
           /\ s[1] = h[1] /\ DOMAIN s = 1 .. Len(s) /\ DOMAIN b.sent = 1 .. Len(b.sent)
           /\ \A k \in 2 .. Len(s) : s[k] = b.sent[k - 1]
      BY <2>5, <2>7, <2>9
    <2>11. Members(s) = Members(b.sent) \cup {h[1]}
      <3>1. ASSUME NEW k \in DOMAIN b.sent PROVE b.sent[k] \in Members(s)
        <4>1. k + 1 \in 2 .. Len(s) /\ k + 1 \in DOMAIN s /\ k + 1 - 1 = k
          BY <2>10
        <4>2. s[k + 1] = b.sent[k]
          BY <2>10, <4>1
        <4> QED
          BY <4>1, <4>2 DEF Members
      <3>2. ASSUME NEW k \in DOMAIN s PROVE s[k] \in Members(b.sent) \cup {h[1]}
        <4>1. CASE k = 1
          BY <2>10, <4>1
        <4>2. CASE k # 1
          <5>1. k \in 2 .. Len(s) /\ k - 1 \in DOMAIN b.sent
            BY <2>10, <4>2
          <5>2. s[k] = b.sent[k - 1]
            BY <2>10, <5>1
          <5> QED
            BY <5>1, <5>2 DEF Members
        <4> QED
          BY <4>1, <4>2
      <3>3. 1 \in DOMAIN s
        BY <2>10
      <3> QED
        BY <2>10, <3>1, <3>2, <3>3 DEF Members
    <2>12. a.sent = s /\ a.left = b.left /\ a \in Batch
      BY <2>7, <2>8, <2>9, <2>10 DEF Batch
    <2>13. Len(s) + Len(b.left) = Len(h)
      <3>1. PICK x, y, z : x = Len(b.sent) /\ y = Len(b.left) /\ z = Len(rest)
        OBVIOUS
      <3>2. x + y = z
        BY <2>6, <3>1 DEF Keeps
      <3>3. y \in Nat
        BY <2>7, <3>1
      <3>4. Len(s) = x + 1 /\ x \in Nat /\ z = Len(h) - 1 /\ Len(h) \in Nat
        BY <2>5, <2>10, <3>1
      <3>5. PICK w : w = Len(h)
        OBVIOUS
      <3>6. w \in Nat /\ z = w - 1
        BY <3>4, <3>5
      <3>7. x + 1 + y = w
        BY <3>2, <3>3, <3>4, <3>6
      <3> QED
        BY <3>1, <3>4, <3>5, <3>7
    <2>14. Members(s) \cup Members(b.left) = Members(h)
      BY <2>5, <2>6, <2>11 DEF Keeps
    <2> QED
      BY <2>3, <2>12, <2>13, <2>14 DEF Keeps
  <1>4. \A n \in Nat : n \in T
    <2> HIDE DEF T
    <2> QED
      BY <1>2, <1>3, Induction
  <1>5. Len(heap) \in Nat
    OBVIOUS
  <1>6. Len(heap) \in T
    BY <1>4, <1>5
  <1> QED
    BY <1>5, <1>6

\* A sequence without repetition has as many members as places.
Distinct(s) == \A i, k \in DOMAIN s : s[i] = s[k] => i = k

LEMMA DistinctSize ==
  ASSUME NEW s \in Seq(QueuedPacket)
  PROVE  /\ IsFiniteSet(Members(s)) /\ Cardinality(Members(s)) \in Nat
         /\ Cardinality(Members(s)) <= Len(s)
         /\ Distinct(s) <=> Cardinality(Members(s)) = Len(s)
  <1>1. Len(s) \in Nat /\ DOMAIN s = 1 .. Len(s)
    OBVIOUS
  <1>2. IsFiniteSet(DOMAIN s) /\ Cardinality(DOMAIN s) = Len(s)
    BY <1>1, FS_Interval
  <1>3. s \in Surjection(DOMAIN s, Members(s))
    BY DEF Surjection, Members
  <1>4. /\ IsFiniteSet(Members(s)) /\ Cardinality(Members(s)) <= Cardinality(DOMAIN s)
        /\ Cardinality(Members(s)) = Cardinality(DOMAIN s) <=> s \in Injection(DOMAIN s, Members(s))
    BY <1>2, <1>3, FS_Surjection
  <1>5. s \in Injection(DOMAIN s, Members(s)) <=> Distinct(s)
    BY <1>3 DEF Surjection, Injection, IsInjective, Distinct
  <1> QED
    BY <1>2, <1>4, <1>5, FS_CardinalityType

\* A sequence cut in two, in any order.
LEMMA DistinctCut ==
  ASSUME NEW s \in Seq(QueuedPacket), NEW t \in Seq(QueuedPacket), NEW all \in Seq(QueuedPacket),
         Len(s) + Len(t) = Len(all), Members(s) \cup Members(t) = Members(all), Distinct(all)
  PROVE  Distinct(s) /\ Distinct(t) /\ Members(s) \cap Members(t) = {}
  <1> DEFINE a == Cardinality(Members(s))
             b == Cardinality(Members(t))
             both == Cardinality(Members(s) \cap Members(t))
  <1>1. /\ a \in Nat /\ b \in Nat /\ a <= Len(s) /\ b <= Len(t)
        /\ Len(s) \in Nat /\ Len(t) \in Nat
        /\ IsFiniteSet(Members(s)) /\ IsFiniteSet(Members(t))
    BY DistinctSize
  <1>2. Cardinality(Members(all)) = Len(all)
    BY DistinctSize
  <1>3. Cardinality(Members(all)) = a + b - both
    BY <1>1, FS_Union
  <1>4. IsFiniteSet(Members(s) \cap Members(t))
    BY <1>1, FS_Subset
  <1>5. both \in Nat
    BY <1>4, FS_CardinalityType
  <1>6. a = Len(s) /\ b = Len(t) /\ both = 0
    <2> HIDE DEF a, b, both
    <2> QED
      BY <1>1, <1>2, <1>3, <1>5
  <1>7. Members(s) \cap Members(t) = {}
    BY <1>4, <1>6, FS_EmptySet
  <1> QED
    BY <1>6, <1>7, DistinctSize

LEMMA DistinctAdded ==
  ASSUME NEW s \in Seq(QueuedPacket), Distinct(s), NEW e \in QueuedPacket, e \notin Members(s),
         NEW new \in Seq(QueuedPacket), Len(new) = Len(s) + 1, Members(new) = Members(s) \cup {e}
  PROVE  Distinct(new)
  <1>1. Cardinality(Members(s)) = Len(s) /\ IsFiniteSet(Members(s))
    BY DistinctSize
  <1>2. Cardinality(Members(new)) = Len(s) + 1
    BY <1>1, FS_AddElement
  <1> QED
    BY <1>2, DistinctSize

-----------------------------------------------------------------------------
(* The inductive invariants.                                               *)

SenderInv == TypeOK /\ Heap(queue)

LEMMA PacketTyped ==
  ASSUME clock \in StartTime .. MaxClock, NEW c \in Channels, NEW data \in Data,
         NEW delay \in 0 .. MaxClock - StartTime
  PROVE  Packet(c, data, delay) \in QueuedPacket /\ MSTime \in Nat /\ clock \in Nat
  <1>1. clock \in Nat /\ delay \in Nat /\ Wrap \in Nat /\ Wrap > 0
    BY TimesAssumption
  <1>2. MSTime \in Nat
    BY <1>1 DEF MSTime
  <1>3. (MSTime + delay) % Wrap \in 0 .. Wrap - 1
    BY <1>1, <1>2
  <1> QED
    BY <1>1, <1>2, <1>3 DEF Packet, QueuedPacket

LEMMA ClockTyped ==
  ASSUME TypeOK
  PROVE  MSTime \in 0 .. Wrap - 1 /\ MSTime \in Nat /\ clock \in Nat /\ Wrap \in Nat
  BY TimesAssumption DEF TypeOK, MSTime

\* The queue after one insertion.
LEMMA InsertIs ==
  ASSUME NEW heap \in Seq(QueuedPacket), Heap(heap), NEW e \in QueuedPacket,
         NEW new, new = Queue!Insert(heap, e)
  PROVE  /\ new \in Seq(QueuedPacket) /\ Len(new) = Len(heap) + 1 /\ Heap(new)
         /\ Members(new) = Members(heap) \cup {e}
  <1>1. PICK more, n : more = Append(heap, e) /\ n = Len(heap)
    OBVIOUS
  <1>2. HeapOf(more, new)
    BY <1>1, InsertHeap
  <1>3. /\ more \in Seq(QueuedPacket) /\ Len(more) = n + 1 /\ DOMAIN more = 1 .. n + 1
        /\ n \in Nat /\ DOMAIN heap = 1 .. n
        /\ \A k \in 1 .. n + 1 : more[k] = IF k = n + 1 THEN e ELSE heap[k]
    BY <1>1
  <1>4. Members(more) \subseteq Members(heap) \cup {e}
    BY <1>3 DEF Members
  <1>5. Members(heap) \subseteq Members(more)
    <2> SUFFICES ASSUME NEW k \in DOMAIN heap PROVE heap[k] \in Members(more)
      BY DEF Members
    <2>1. k \in DOMAIN more /\ more[k] = heap[k]
      BY <1>3
    <2> QED
      BY <2>1 DEF Members
  <1>6. e \in Members(more)
    <2>1. n + 1 \in DOMAIN more /\ more[n + 1] = e
      BY <1>3
    <2> QED
      BY <2>1 DEF Members
  <1> QED
    BY <1>1, <1>2, <1>3, <1>4, <1>5, <1>6 DEF HeapOf, SamePackets

\* What one call of QueuePacket does to the queue.
LEMMA QueueGrows ==
  ASSUME SenderInv, NEW c \in Channels, NEW data \in Data,
         NEW delay \in 0 .. MaxClock - StartTime, QueuePacket(c, data, delay)
  PROVE  /\ queue' \in Seq(QueuedPacket) /\ Len(queue') <= MaxQueuedPackets /\ Heap(queue')
         /\ refused' \subseteq Data
         /\ Members(queue') \subseteq Members(queue) \cup {Packet(c, data, delay)}
  <1>1. PICK e : e = Packet(c, data, delay)
    OBVIOUS
  <1>2. e \in QueuedPacket
    BY <1>1, PacketTyped DEF SenderInv, TypeOK
  <1>3. /\ queue \in Seq(QueuedPacket) /\ Len(queue) <= MaxQueuedPackets /\ Heap(queue)
        /\ refused \subseteq Data
    BY DEF SenderInv, TypeOK
  <1>4. CASE Len(queue) < MaxQueuedPackets
    <2>1. queue' = Queue!Insert(queue, e) /\ refused' = refused
      BY <1>1, <1>4 DEF QueuePacket
    <2>2. /\ queue' \in Seq(QueuedPacket) /\ Len(queue') = Len(queue) + 1 /\ Heap(queue')
          /\ Members(queue') = Members(queue) \cup {e}
      BY <1>2, <1>3, <2>1, InsertIs
    <2>3. Len(queue) \in Nat /\ MaxQueuedPackets \in Nat
      BY <1>3, TimesAssumption
    <2> QED
      BY <1>1, <1>3, <1>4, <2>1, <2>2, <2>3
  <1>5. CASE ~(Len(queue) < MaxQueuedPackets)
    BY <1>3, <1>5 DEF QueuePacket
  <1> QED
    BY <1>4, <1>5

\* What Run does to the queue.
LEMMA QueueServed ==
  ASSUME SenderInv, Serve
  PROVE  \E batch \in Batch :
           /\ Sorted(queue, MSTime, batch)
           /\ out' = out \o batch.sent /\ queue' = batch.left
           /\ interval' = NextInterval(batch.left, MSTime)
  <1>1. Sorted(queue, MSTime, Pull(queue, MSTime))
    BY PullSorts, ClockTyped DEF SenderInv, TypeOK
  <1> QED
    BY <1>1 DEF Serve, Sorted

\* A packet is queued, whether it is known or not.
LEMMA EnqueueInv ==
  ASSUME SenderInv, NEW c \in Channels, NEW data \in Data,
         NEW delay \in 0 .. MaxClock - StartTime, Enqueue(c, data, delay)
  PROVE  SenderInv'
  <1>1. QueuePacket(c, data, delay) /\ event' = TRUE
    BY DEF Enqueue, QueuePacket
  <1>2. /\ queue' \in Seq(QueuedPacket) /\ Len(queue') <= MaxQueuedPackets /\ Heap(queue')
        /\ refused' \subseteq Data
    BY <1>1, QueueGrows
  <1> QED
    BY <1>1, <1>2 DEF SenderInv, Enqueue, TypeOK, threadVars

LEMMA SenderInvStep ==
  ASSUME SenderInv, [Next]_vars
  PROVE  SenderInv'
  <1> USE DEF SenderInv
  <1>0. MaxClock \in Nat /\ Wrap \in Nat /\ WaitInterval \in 0 .. Wrap - 1 /\ StartTime \in Nat
        /\ MaxQueuedPackets \in Nat /\ clock \in StartTime .. MaxClock
    BY TimesAssumption DEF TypeOK
  <1>1. ASSUME NEW c \in Channels, NEW data \in Data, NEW delay \in 0 .. MaxClock - StartTime,
               Enqueue(c, data, delay)
        PROVE  SenderInv'
    BY <1>1, EnqueueInv
  <1>2. CASE SetExit
    BY <1>2 DEF SetExit, TypeOK, threadVars
  <1>3. CASE SetEvent
    BY <1>3 DEF SetEvent, TypeOK, threadVars
  <1>4. CASE Join
    <2>1. /\ queue' = <<>> /\ <<>> \in Seq(QueuedPacket) /\ Len(queue') <= MaxQueuedPackets
          /\ Heap(queue')
      BY <1>0, <1>4 DEF Join, Heap
    <2> QED
      BY <1>4, <2>1 DEF Join, TypeOK, threadVars
  <1>5. CASE Wait
    BY <1>0, <1>5 DEF Wait, TypeOK
  <1>6. CASE Wake
    BY <1>6 DEF Wake, TypeOK
  <1>7. CASE Serve
    <2>1. PICK batch \in Batch :
            /\ Sorted(queue, MSTime, batch)
            /\ out' = out \o batch.sent /\ queue' = batch.left
            /\ interval' = NextInterval(batch.left, MSTime)
      BY <1>7, QueueServed
    <2>2. /\ batch.sent \in Seq(QueuedPacket) /\ batch.left \in Seq(QueuedPacket)
          /\ Len(batch.left) <= Len(queue) /\ Heap(batch.left)
          /\ \A k \in DOMAIN batch.left : batch.left[k].time > MSTime
      BY <2>1 DEF Batch, Sorted
    <2>3. out' \in Seq(QueuedPacket)
      BY <2>1, <2>2 DEF TypeOK
    <2>4. queue' \in Seq(QueuedPacket) /\ Len(queue') <= MaxQueuedPackets /\ Heap(queue')
      BY <1>0, <2>1, <2>2 DEF TypeOK
    <2>5. interval' \in 0 .. Wrap - 1
      <3>1. CASE batch.left = <<>>
        BY <1>0, <2>1, <3>1 DEF NextInterval
      <3>2. CASE batch.left # <<>>
        <4>1. 1 \in DOMAIN batch.left
          BY <2>2, <3>2
        <4>2. batch.left[1].time > MSTime /\ batch.left[1].time \in Int
              /\ batch.left[1].time < Wrap
          BY <2>2, <4>1, Times
        <4> QED
          BY <2>1, <3>2, <4>2, ClockTyped DEF NextInterval
      <3> QED
        BY <3>1, <3>2
    <2> QED
      BY <1>0, <1>7, <2>3, <2>4, <2>5 DEF Serve, TypeOK
  <1>8. CASE Tick
    BY <1>0, <1>8 DEF Tick, TypeOK, threadVars
  <1>9. CASE UNCHANGED vars
    BY <1>9 DEF vars, threadVars, TypeOK
  <1> QED
    BY <1>1, <1>2, <1>3, <1>4, <1>5, <1>6, <1>7, <1>8, <1>9 DEF Next, Shutdown, Run

LEMMA SenderInvInit ==
  ASSUME Init
  PROVE  SenderInv
  <1>1. <<>> \in Seq(QueuedPacket) /\ Len(<<>>) = 0 /\ Heap(<<>>)
    BY DEF Heap
  <1>2. /\ 0 <= MaxQueuedPackets /\ WaitInterval \in 0 .. Wrap - 1
        /\ StartTime \in StartTime .. MaxClock /\ StartTime \in StartTime .. StartTime
    BY TimesAssumption
  <1> QED
    BY <1>1, <1>2 DEF Init, SenderInv, TypeOK

\* The queue is a heap of packets and no longer than its limit, also when the
\* counter of milliseconds wraps around, and the interval the thread waits for
\* is never negative (CQueuedPacketSender::QueuePacket, Run).
THEOREM SenderTyped == Spec => []TypeOK
  <1>1. SenderInv => TypeOK
    BY DEF SenderInv
  <1> QED
    BY <1>1, SenderInvInit, SenderInvStep, PTL DEF Spec

-----------------------------------------------------------------------------
(* As long as the counter of milliseconds does not wrap around, the time   *)
(* of a packet is when it is due.                                          *)

NoWrap == MaxClock < Wrap

Timed ==
    /\ \A p \in Members(queue) : p.time = p.due
    /\ \A p \in Members(out) : p.time = p.due /\ p.due <= clock

TimeInv == SenderInv /\ Timed /\ SentInOrder /\ NeverOversleeps

LEMMA MembersOf ==
  ASSUME NEW s \in Seq(QueuedPacket), NEW k \in DOMAIN s
  PROVE  s[k] \in Members(s) /\ s[k] \in QueuedPacket /\ s[k].due \in Nat
         /\ s[k].due \in Int /\ s[k].time \in Int
  <1>1. s[k] \in Members(s) /\ s[k] \in QueuedPacket
    BY DEF Members
  <1> QED
    BY <1>1, Times DEF QueuedPacket

\* What leaves the queue is due now, and no earlier than what has left before.
LEMMA ServedInOrder ==
  ASSUME NoWrap, TimeInv, Serve
  PROVE  Timed' /\ SentInOrder' /\ NeverOversleeps'
  <1> USE DEF TimeInv, SenderInv
  <1>1. MSTime = clock /\ clock \in Nat
    <2>1. clock \in Nat /\ Wrap \in Nat /\ clock < Wrap
      BY TimesAssumption DEF NoWrap, TypeOK
    <2> QED
      BY <2>1 DEF MSTime
  <1>2. PICK batch \in Batch :
          /\ Sorted(queue, clock, batch)
          /\ out' = out \o batch.sent /\ queue' = batch.left
          /\ interval' = NextInterval(batch.left, clock)
    BY <1>1, QueueServed
  <1>3. PICK sent, left, new :
          /\ sent = batch.sent /\ left = batch.left /\ new = out'
    OBVIOUS
  <1>4. /\ sent \in Seq(QueuedPacket) /\ left \in Seq(QueuedPacket) /\ Heap(left)
        /\ out \in Seq(QueuedPacket) /\ queue \in Seq(QueuedPacket)
        /\ Members(sent) \subseteq Members(queue) /\ Members(left) \subseteq Members(queue)
        /\ \A k \in DOMAIN sent : sent[k].time <= clock
        /\ \A k \in DOMAIN left : left[k].time > clock
        /\ \A j, k \in DOMAIN sent : j < k => sent[j].time <= sent[k].time
    BY <1>2, <1>3 DEF Batch, Sorted, Ascending, TypeOK
  <1>5. ASSUME NEW k \in DOMAIN sent
        PROVE  /\ sent[k].time = sent[k].due /\ sent[k].due <= clock /\ sent[k].due \in Int
               /\ \A j \in DOMAIN out : out[j].due <= sent[k].due
    <2>1. sent[k] \in Members(sent) /\ sent[k].due \in Int
      BY <1>4, MembersOf
    <2>2. sent[k] \in Members(queue)
      BY <1>4, <2>1
    <2>3. sent[k].time = sent[k].due
      BY <2>2 DEF Timed
    <2>4. PICK i \in DOMAIN queue : sent[k] = queue[i]
      BY <2>2 DEF Members
    <2>5. \A j \in DOMAIN out : out[j].due <= queue[i].due
      BY <2>4 DEF SentInOrder
    <2> QED
      BY <1>4, <2>1, <2>3, <2>4, <2>5
  <1>6. ASSUME NEW k \in DOMAIN left
        PROVE  left[k].time = left[k].due /\ left[k].due > clock /\ left[k].due \in Int
    <2>1. left[k] \in Members(left) /\ left[k].due \in Int
      BY <1>4, MembersOf
    <2>2. left[k] \in Members(queue)
      BY <1>4, <2>1
    <2>3. left[k].time = left[k].due
      BY <2>2 DEF Timed
    <2> QED
      BY <1>4, <2>1, <2>3
  <1>7. ASSUME NEW j \in DOMAIN out
        PROVE  /\ out[j].time = out[j].due /\ out[j].due <= clock /\ out[j].due \in Int
    <2>1. out[j] \in Members(out) /\ out[j].due \in Int
      BY <1>4, MembersOf
    <2> QED
      BY <2>1 DEF Timed
  <1>8. PICK n, m : n = Len(out) /\ m = Len(sent)
    OBVIOUS
  <1>9. /\ n \in Nat /\ m \in Nat /\ DOMAIN out = 1 .. n /\ DOMAIN sent = 1 .. m
        /\ DOMAIN new = 1 .. n + m
        /\ \A k \in 1 .. n : new[k] = out[k]
        /\ \A k \in n + 1 .. n + m : new[k] = sent[k - n] /\ k - n \in 1 .. m
    <2>1. new = out \o sent
      BY <1>2, <1>3
    <2> QED
      BY <1>4, <1>8, <2>1
  <1>10. ASSUME NEW k \in DOMAIN new
         PROVE  new[k].time = new[k].due /\ new[k].due <= clock /\ new[k].due \in Int
    <2>1. k \in 1 .. n \/ k \in n + 1 .. n + m
      BY <1>9
    <2> QED
      BY <1>5, <1>7, <1>9, <2>1
  <1>11. clock' = clock /\ out' = new /\ queue' = left
    BY <1>2, <1>3 DEF Serve
  <1>12. Timed'
    BY <1>6, <1>10, <1>11 DEF Timed, Members
  <1>13. SentInOrder'
    <2>1. ASSUME NEW i \in DOMAIN new, NEW k \in DOMAIN new, i < k
          PROVE  new[i].due <= new[k].due
      <3>1. i \in 1 .. n \/ i \in n + 1 .. n + m
        BY <1>9
      <3>2. k \in 1 .. n \/ k \in n + 1 .. n + m
        BY <1>9
      <3>3. CASE k \in 1 .. n
        <4>1. i \in 1 .. n
          BY <1>9, <2>1, <3>1, <3>3
        <4>2. out[i].due <= out[k].due
          BY <1>9, <2>1, <3>3, <4>1 DEF SentInOrder
        <4> QED
          BY <1>9, <3>3, <4>1, <4>2
      <3>4. CASE i \in 1 .. n /\ k \in n + 1 .. n + m
        BY <1>5, <1>9, <3>4
      <3>5. CASE i \in n + 1 .. n + m /\ k \in n + 1 .. n + m
        <4>1. i - n \in 1 .. m /\ k - n \in 1 .. m /\ i - n < k - n
          BY <1>9, <2>1, <3>5
        <4>2. sent[i - n].time <= sent[k - n].time
          BY <1>4, <1>9, <4>1
        <4> QED
          BY <1>5, <1>9, <3>5, <4>1, <4>2
      <3> QED
        BY <3>1, <3>2, <3>3, <3>4, <3>5
    <2>2. ASSUME NEW i \in DOMAIN new, NEW k \in DOMAIN left
          PROVE  new[i].due <= left[k].due
      BY <1>1, <1>6, <1>10
    <2> QED
      BY <1>11, <2>1, <2>2 DEF SentInOrder
  <1>14. NeverOversleeps'
    <2> SUFFICES ASSUME NEW i \in DOMAIN left
                 PROVE  clock + interval' <= left[i].due
      BY <1>11 DEF NeverOversleeps, Serve
    <2>1. 1 \in DOMAIN left /\ left[1].time <= left[i].time /\ left # <<>>
      BY <1>4, HeadIsFirst
    <2>2. interval' = left[1].time - clock
      BY <1>2, <1>3, <2>1 DEF NextInterval
    <2>3. left[1].time \in Int
      BY <1>4, <2>1, MembersOf
    <2> QED
      BY <1>1, <1>6, <2>1, <2>2, <2>3
  <1> QED
    BY <1>12, <1>13, <1>14

LEMMA TimeInvStep ==
  ASSUME NoWrap, TimeInv, [Next]_vars
  PROVE  TimeInv'
  <1> USE DEF TimeInv
  <1> SUFFICES Timed' /\ SentInOrder' /\ NeverOversleeps'
    BY SenderInvStep
  <1>1. /\ queue \in Seq(QueuedPacket) /\ out \in Seq(QueuedPacket)
        /\ clock \in Nat /\ clock \in StartTime .. MaxClock
    BY TimesAssumption DEF SenderInv, TypeOK
  <1>2. ASSUME NEW c \in Channels, NEW data \in Data, NEW delay \in 0 .. MaxClock - StartTime,
               Enqueue(c, data, delay)
        PROVE  Timed' /\ SentInOrder' /\ NeverOversleeps'
    <2>1. PICK e : e = Packet(c, data, delay)
      OBVIOUS
    <2>2. /\ out' = out /\ clock' = clock /\ event' = TRUE
          /\ QueuePacket(c, data, delay) /\ clock + delay <= MaxClock
      BY <1>2 DEF Enqueue, QueuePacket
    <2>3. queue' \in Seq(QueuedPacket) /\ Members(queue') \subseteq Members(queue) \cup {e}
      BY <2>1, <2>2, QueueGrows
    <2>4. e.due = clock + delay /\ e.time = clock + delay /\ e.due \in Int
      <3>1. clock + delay \in Nat /\ delay \in Nat /\ Wrap \in Nat /\ clock + delay < Wrap
            /\ clock < Wrap
        BY <1>1, <2>2, TimesAssumption DEF NoWrap
      <3>2. clock % Wrap = clock /\ (clock + delay) % Wrap = clock + delay
        BY <1>1, <3>1
      <3> QED
        BY <2>1, <3>1, <3>2 DEF Packet, MSTime
    <2>5. Timed'
      BY <2>2, <2>3, <2>4 DEF Timed
    <2>6. ASSUME NEW i \in DOMAIN out, NEW p \in Members(queue')
          PROVE  out[i].due <= p.due
      <3>1. CASE p = e
        <4>1. out[i].due <= clock /\ out[i].due \in Int
          BY <1>1, MembersOf DEF Timed
        <4> QED
          BY <1>1, <2>4, <3>1, <4>1, TimesAssumption
      <3>2. CASE p \in Members(queue)
        BY <3>2 DEF Members, SentInOrder
      <3> QED
        BY <2>3, <3>1, <3>2
    <2>7. SentInOrder'
      BY <2>2, <2>6 DEF SentInOrder, Members
    <2>8. NeverOversleeps'
      BY <2>2 DEF NeverOversleeps
    <2> QED
      BY <2>5, <2>7, <2>8
  <1>3. CASE SetExit
    BY <1>3 DEF SetExit, threadVars, Timed, SentInOrder, NeverOversleeps
  <1>4. CASE SetEvent
    BY <1>4 DEF SetEvent, threadVars, Timed, SentInOrder, NeverOversleeps
  <1>5. CASE Join
    <2>1. DOMAIN queue' = {} /\ out' = out /\ clock' = clock
      BY <1>5 DEF Join
    <2> QED
      BY <2>1 DEF Timed, SentInOrder, NeverOversleeps, Members
  <1>6. CASE Wait
    BY <1>6 DEF Wait, Timed, SentInOrder, NeverOversleeps
  <1>7. CASE Wake
    BY <1>7 DEF Wake, Timed, SentInOrder, NeverOversleeps
  <1>8. CASE Serve
    BY <1>8, ServedInOrder
  <1>9. CASE Tick
    <2>1. Timed'
      <3>1. \A p \in Members(out) : p.due \in Int
        BY <1>1, MembersOf DEF Members
      <3>2. \A p \in Members(out) : p.due <= clock + 1
        BY <1>1, <3>1 DEF Timed
      <3> QED
        BY <1>9, <3>2 DEF Tick, Timed
    <2> QED
      BY <1>9, <2>1 DEF Tick, threadVars, SentInOrder, NeverOversleeps
  <1>10. CASE UNCHANGED vars
    BY <1>10 DEF vars, threadVars, Timed, SentInOrder, NeverOversleeps
  <1> QED
    BY <1>2, <1>3, <1>4, <1>5, <1>6, <1>7, <1>8, <1>9, <1>10 DEF Next, Shutdown, Run

LEMMA TimeInvInit ==
  ASSUME Init
  PROVE  TimeInv
  <1>1. DOMAIN queue = {} /\ DOMAIN out = {}
    BY DEF Init
  <1> QED
    BY <1>1, SenderInvInit DEF TimeInv, Timed, SentInOrder, NeverOversleeps, Members

\* Packets leave in the order of the times they are due, whatever the delays
\* and the number of packets (the heap of CUtlPriorityQueue and the loop of
\* Run), while the counter of milliseconds does not wrap around.
THEOREM SentInOrderThm ==
  ASSUME NoWrap
  PROVE  Spec => []SentInOrder
  <1>1. TimeInv => SentInOrder
    BY DEF TimeInv
  <1>2. TimeInv /\ [Next]_vars => TimeInv'
    BY TimeInvStep
  <1> QED
    BY <1>1, <1>2, TimeInvInit, PTL DEF Spec

\* The thread is never asleep when a packet becomes due, unless it is signaled:
\* the interval is that of the head of the heap, and every insertion sets the
\* event (CQueuedPacketSender::Run, QueuePacket).
THEOREM NeverOversleepsThm ==
  ASSUME NoWrap
  PROVE  Spec => []NeverOversleeps
  <1>1. TimeInv => NeverOversleeps
    BY DEF TimeInv
  <1>2. TimeInv /\ [Next]_vars => TimeInv'
    BY TimeInvStep
  <1> QED
    BY <1>1, <1>2, TimeInvInit, PTL DEF Spec

=============================================================================
