--------------------------- MODULE TSQueue_proofs ---------------------------
(***************************************************************************)
(* CTSQueue loses no item and hands none out twice, for any number of      *)
(* threads, nodes and operations, whatever the interleaving and although   *)
(* nodes are used again under threads that still have them in their hands. *)
(*                                                                         *)
(* The nodes in use are in lists, each of which ends with End(): that of   *)
(* the queue, from its head on, and one for each thread that has a node it *)
(* has not linked yet (Shape).  Mostly the list of a thread is that node   *)
(* alone; a thread that was stopped before its swap may link to a node     *)
(* that was used again, and then hangs on the list of another thread.      *)
(* There is no circle of lists that wait for each other: a thread has read *)
(* its tail after it had its own node, and a node is in the list of        *)
(* another thread only if that has got its node later (Ranked).            *)
(*                                                                         *)
(* What a thread has read is still true unless the sequence number that it *)
(* will compare has changed since (Reads), and as long as no thread hangs  *)
(* on another (Alone), a node is linked behind the last one of the queue:  *)
(* then the items come out in the order they came in.                      *)
(***************************************************************************)
EXTENDS TSQueue, FiniteSetTheorems, WellFoundedInduction, TLAPS

\* The queue, which has the address End, and the threads have a list each.
Owners == Threads \cup {End}

Links == [node : Nodes, sequence : Nat]
Address == Nodes \cup {End, NULL}
Element == Items \cup {NoItem}

----------------------------------------------------------------------------
(* The lists.                                                              *)

IsIn(n, s) == \E i \in DOMAIN s : s[i] = n

Linked(next, s) == \A i \in DOMAIN s : next[s[i]] = IF i = Len(s) THEN End ELSE s[i + 1]

\* No node is in two lists, or in one twice.
Apart(lists) ==
  \A l, k \in Owners : \A i \in DOMAIN lists[l], j \in DOMAIN lists[k] :
    lists[l][i] = lists[k][j] => l = k /\ i = j

Live(lists) == {n \in Nodes : \E l \in Owners : IsIn(n, lists[l])}

\* Nothing but the last node of a list has no successor.
Listed(next, lists) ==
  /\ lists \in [Owners -> Seq(Nodes)]
  /\ \A l \in Owners : Linked(next, lists[l])
  /\ Apart(lists)
  /\ \A n \in Nodes : next[n] = End => n \in Live(lists)

\* The list of the queue begins with the head, and the tail is in it.
Headed(head, tail, list) == list # <<>> /\ list[1] = head.node /\ IsIn(tail.node, list)

\* A thread has a list from PushItem on until it has linked its node.
BeforeLink == {"tail_sequence", "tail_node", "link", "help", "finish_other"}

Owned(thr, lists) ==
  \A t \in Threads :
    IF thr[t].at \in BeforeLink THEN lists[t] # <<>> /\ lists[t][1] = thr[t].node
    ELSE lists[t] = <<>>

\* A thread that will link its list to that of another thread comes after it.
Ranked(thr, lists, rank) ==
  /\ rank \in [Threads -> Nat]
  /\ \A t, u \in Threads :
       thr[t].at = "link" /\ IsIn(thr[t].old.node, lists[u]) => rank[u] < rank[t]

\* No node is free twice, or free and in a list; nobody else has the one a thread
\* is about to free.
Freed(thr, free, count, lists) ==
  /\ free \in Seq(Nodes) /\ count \in 1 .. MaxNodes
  /\ \A i, k \in DOMAIN free : free[i] = free[k] => i = k
  /\ \A i \in DOMAIN free : free[i] < count /\ free[i] \notin Live(lists)
  /\ \A n \in Live(lists) : n < count
  /\ \A t \in Threads :
       thr[t].at = "free" =>
         /\ thr[t].node < count /\ thr[t].node \notin Live(lists)
         /\ ~IsIn(thr[t].node, free)
         /\ \A u \in Threads : thr[u].at = "free" /\ thr[u].node = thr[t].node => u = t

\* A node counts from the end of its push to the end of its pop, the dummy does not.
Uncounted == BeforeLink \cup {"finish"}
Threads_at(thr, places) == {t \in Threads : thr[t].at \in places}

Counted(count, thr, lists) ==
  count = Cardinality(Live(lists)) - 1 - Cardinality(Threads_at(thr, Uncounted))
            + Cardinality(Threads_at(thr, {"free"}))

\* What was pushed is either in a node, other than the dummy, or was popped, and
\* that once.
Pushed(begun) == {x \in Items : x[2] <= begun[x[1]]}

Kept(begun, out, el, in) ==
  /\ out \in Seq(Pushed(begun))
  /\ \A n \in in : el[n] \in Pushed(begun)
  /\ \A i, j \in DOMAIN out : out[i] = out[j] => i = j
  /\ \A n, m \in in : el[n] = el[m] => n = m
  /\ \A i \in DOMAIN out, n \in in : out[i] # el[n]
  /\ \A x \in Pushed(begun) : IsIn(x, out) \/ \E n \in in : el[n] = x

\* Unless a node was used again under a thread that was about to link to it, no
\* node hangs on one that is not in the queue.
Alone(thr, again, lists) ==
  ~again => \A t \in Threads :
    /\ Len(lists[t]) <= 1
    /\ thr[t].at = "link" => \A u \in Threads : ~IsIn(thr[t].old.node, lists[u])

Shape(lists, rank) ==
  /\ Listed(pNext, lists)
  /\ Headed(m_Head, m_Tail, lists[End])
  /\ Owned(thread, lists)
  /\ Ranked(thread, lists, rank)
  /\ Freed(thread, m_FreeNodes, allocated, lists)
  /\ Counted(m_Count, thread, lists)
  /\ Kept(pushes, popped, elem, Live(lists) \ {m_Head.node})
  /\ Alone(thread, reused, lists)

----------------------------------------------------------------------------
(* What a thread has read, where s is its place and its local variables.   *)

Place ==
  [at : {"idle", "head_sequence"}]
    \cup [at : {"tail_sequence"}, node : Nodes]
    \cup [at : {"tail_node"}, node : Nodes, sequence : Nat]
    \cup [at : {"link", "help", "finish"}, node : Nodes, old : Links]
    \cup [at : {"finish_other"}, node : Nodes, old : Links, other : Address]
    \cup [at : {"head_node"}, sequence : Nat]
    \cup [at : {"head_tail"}, head : Links]
    \cup [at : {"next"}, head : Links, tailSequence : Nat]
    \cup [at : {"check", "compare"}, head : Links, tailSequence : Nat, next : Address]
    \cup [at : {"finish_for_pop"}, other : Address, old : Links]
    \cup [at : {"swap"}, head : Links, next : Nodes, elem : Element]
    \cup [at : {"free"}, node : Nodes, elem : Element]

\* The tail it has read is not later than the tail, and when it is the tail, what
\* was read of its node still holds: the sequence number was read first.
TailRead(s, tail, next) ==
  /\ s.at = "tail_node" => s.sequence <= tail.sequence
  /\ s.at \in {"link", "help", "finish_other", "finish", "finish_for_pop"} =>
       s.old.sequence <= tail.sequence
  /\ s.at = "help" /\ s.old = tail => next[tail.node] # End
  /\ s.at \in {"finish_other", "finish_for_pop"} /\ s.old = tail =>
       next[tail.node] = s.other /\ s.other # End
  /\ s.at = "finish" /\ s.old = tail => next[tail.node] = s.node
  /\ s.at \in {"next", "check", "compare"} => s.tailSequence <= tail.sequence
  /\ s.at \in {"check", "compare"} /\ Link(s.head.node, s.tailSequence) = tail =>
       s.next \in {End, next[tail.node]}

\* The same of the head.  A thread that is about to swap it has seen that the tail
\* is elsewhere.
HeadRead(s, head, tail, next, el) ==
  /\ s.at = "head_node" => s.sequence <= head.sequence
  /\ s.at \in {"head_tail", "next", "check", "compare", "swap"} =>
       /\ s.head.sequence <= head.sequence
       /\ s.head.sequence = head.sequence => s.head.node = head.node
  /\ s.at \in {"check", "compare"} /\ s.head.sequence = head.sequence =>
       s.next \in {End, next[head.node]}
  /\ s.at = "compare" => s.next # NULL
  /\ s.at = "swap" /\ s.head.sequence = head.sequence =>
       /\ next[head.node] = s.next /\ s.elem = el[s.next]
       /\ tail.node # head.node

\* If the queue is empty, or the thread has seen it so, it was empty since the
\* thread began its Pop.
InPop == {"head_sequence", "head_node", "head_tail", "next", "check", "compare",
          "finish_for_pop", "swap"}

EmptyRead(s, head, next, empty) ==
  /\ s.at \in InPop /\ next[head.node] = End => empty
  /\ s.at = "check" /\ s.head.sequence = head.sequence /\ s.next = End => empty
  /\ s.at = "compare" /\ s.next = End => empty

Reads(t) ==
  /\ TailRead(thread[t], m_Tail, pNext)
  /\ HeadRead(thread[t], m_Head, m_Tail, pNext, elem)
  /\ EmptyRead(thread[t], m_Head, pNext, wasEmpty[t])

Typed ==
  /\ m_Head \in Links /\ m_Tail \in Links
  /\ pNext \in [Nodes -> Address] /\ elem \in [Nodes -> Element]
  /\ thread \in [Threads -> Place] /\ pushes \in [Threads -> 0 .. MaxPushes]
  /\ wasEmpty \in [Threads -> BOOLEAN]

TSInv ==
  /\ Typed /\ NullOnlyIfEmpty
  /\ \A t \in Threads : Reads(t)
  /\ \E lists, rank : Shape(lists, rank)

----------------------------------------------------------------------------
(* Induction, for a set.                                                   *)

Less == {p \in Nat \X Nat : p[1] < p[2]}

LEMMA LessWF == IsWellFoundedOn(Less, Nat)
  <1>1. Less = OpToRel(<, Nat)
    BY Zenon DEF Less, OpToRel
  <1> QED
    BY <1>1, NatLessThanWellFounded, Zenon

LEMMA Induction ==
  ASSUME NEW T, 0 \in T, \A n \in Nat : n \in T => n + 1 \in T
  PROVE  \A n \in Nat : n \in T
  <1> DEFINE Rest == {n \in Nat : n \notin T}
  <1> SUFFICES ASSUME Rest # {} PROVE FALSE
    OBVIOUS
  <1>1. PICK x \in Rest : \A y \in Rest : <<y, x>> \notin Less
    BY LessWF, WFMin
  <1>2. x # 0 /\ x - 1 \in Nat
    BY <1>1
  <1>3. <<x - 1, x>> \in Less
    BY <1>1, <1>2 DEF Less
  <1>4. x - 1 \notin Rest
    BY <1>1, <1>3
  <1> QED
    BY <1>1, <1>2, <1>4

----------------------------------------------------------------------------
(* Lists and counts.                                                       *)

LEMMA NodesFinite == IsFiniteSet(Nodes) /\ Cardinality(Nodes) = MaxNodes
  <1>1. PICK a \in Int, b \in Int : a = 0 /\ b = MaxNodes - 1
    BY BoundsAssumption
  <1>2. IsFiniteSet(a .. b) /\ Cardinality(a .. b) = IF a > b THEN 0 ELSE b - a + 1
    BY FS_Interval
  <1> QED
    BY <1>1, <1>2, BoundsAssumption DEF Nodes

LEMMA Addresses == End \notin Nodes /\ NULL \notin Nodes /\ End # NULL /\ End \notin Threads
  BY AddressAssumption DEF Nodes

\* The nodes of a list without repetition are as many as it is long.
LEMMA ListCounts ==
  ASSUME NEW s \in Seq(Nodes), \A i, j \in DOMAIN s : s[i] = s[j] => i = j
  PROVE  /\ Len(s) <= MaxNodes
         /\ Cardinality({n \in Nodes : IsIn(n, s)}) = Len(s)
  <1> DEFINE N == {n \in Nodes : IsIn(n, s)}
  <1>1. PICK m \in Nat : m = Len(s) /\ DOMAIN s = 1 .. m
    OBVIOUS
  <1>2. IsFiniteSet(1 .. m) /\ Cardinality(1 .. m) = m
    <2>1. PICK a \in Int, b \in Int : a = 1 /\ b = m
      OBVIOUS
    <2>2. IsFiniteSet(a .. b) /\ Cardinality(a .. b) = IF a > b THEN 0 ELSE b - a + 1
      BY FS_Interval
    <2> QED
      BY <2>1, <2>2
  <1>3. N \subseteq Nodes /\ IsFiniteSet(N) /\ Cardinality(N) <= MaxNodes
    BY NodesFinite, FS_Subset
  <1>4. s \in Bijection(1 .. m, N)
    <2>1. s \in [1 .. m -> N]
      BY <1>1 DEF IsIn
    <2>2. s \in Injection(1 .. m, N)
      BY <1>1, <2>1 DEF Injection, IsInjective
    <2>3. s \in Surjection(1 .. m, N)
      BY <1>1, <2>1 DEF Surjection, IsIn
    <2> QED
      BY <2>2, <2>3 DEF Bijection
  <1>5. Cardinality(N) = Cardinality(1 .. m)
    <2>1. ExistsBijection(1 .. m, N)
      BY <1>4 DEF ExistsBijection
    <2> QED
      BY <1>2, <2>1, FS_Bijection
  <1> QED
    BY <1>1, <1>2, <1>3, <1>5

\* The list of the queue without its dummy is what can be reached from the head.
LEMMA ChainIs ==
  ASSUME NEW next \in [Nodes -> Address], NEW list \in Seq(Nodes), list # <<>>,
         Linked(next, list), \A i, j \in DOMAIN list : list[i] = list[j] => i = j
  PROVE  Following(next, list[1]) = Tail(list)
  <1> DEFINE n == list[1]
             Eq(f) == f = [k \in 0 .. MaxNodes |->
                            IF k = 0 THEN n
                            ELSE LET before == f[k - 1]
                                 IN IF before \in Nodes THEN next[before] ELSE NULL]
             node == CHOOSE f : Eq(f)
             w == [k \in 0 .. MaxNodes |-> IF k < Len(list) THEN list[k + 1]
                                           ELSE IF k = Len(list) THEN End ELSE NULL]
  <1>1. PICK m \in Nat \ {0} : m = Len(list) /\ DOMAIN list = 1 .. m
    OBVIOUS
  <1>2. m <= MaxNodes /\ MaxNodes \in Nat
    BY <1>1, ListCounts, BoundsAssumption
  <1>3. Eq(w)
    <2>1. ASSUME NEW k \in 0 .. MaxNodes
          PROVE  w[k] = IF k = 0 THEN n
                        ELSE IF w[k - 1] \in Nodes THEN next[w[k - 1]] ELSE NULL
      <3>1. CASE k = 0
        BY <1>1, <3>1
      <3>2. CASE k # 0 /\ k - 1 < m
        <4>1. w[k - 1] = list[k] /\ k \in DOMAIN list /\ list[k] \in Nodes
          BY <1>1, <1>2, <3>2
        <4>2. next[list[k]] = IF k = m THEN End ELSE list[k + 1]
          BY <1>1, <4>1 DEF Linked
        <4>3. w[k] = IF k = m THEN End ELSE list[k + 1]
          BY <1>1, <1>2, <3>2
        <4> QED
          BY <3>2, <4>1, <4>2, <4>3
      <3>3. CASE k # 0 /\ k - 1 >= m
        <4>1. w[k - 1] \in {End, NULL} /\ w[k] = NULL
          BY <1>1, <1>2, <3>3
        <4> QED
          BY <3>3, <4>1, Addresses
      <3> QED
        BY <1>1, <3>1, <3>2, <3>3
    <2> HIDE DEF w
    <2>2. w = [k \in 0 .. MaxNodes |-> w[k]]
      BY DEF w
    <2> QED
      BY <2>1, <2>2
  <1>4. Eq(node)
    <2> HIDE DEF w, Eq
    <2> QED
      BY <1>3
  <1>5. ASSUME NEW k \in 0 .. MaxNodes
        PROVE  node[k] = IF k = 0 THEN n
                         ELSE IF node[k - 1] \in Nodes THEN next[node[k - 1]] ELSE NULL
    <2> HIDE DEF node
    <2> QED
      BY <1>4
  <1>6. ASSUME NEW k \in 0 .. MaxNodes
        PROVE  node[k] = w[k]
    <2> DEFINE T == {i \in Nat : i <= MaxNodes => node[i] = w[i]}
    <2> HIDE DEF node
    <2>1. ASSUME NEW i \in 0 .. MaxNodes
          PROVE  w[i] = IF i = 0 THEN n
                        ELSE IF w[i - 1] \in Nodes THEN next[w[i - 1]] ELSE NULL
      <3> HIDE DEF w
      <3> QED
        BY <1>3
    <2> HIDE DEF w
    <2>2. 0 \in T
      BY <1>2, <1>5, <2>1
    <2>3. ASSUME NEW i \in Nat, i \in T PROVE i + 1 \in T
      <3> SUFFICES ASSUME i + 1 <= MaxNodes PROVE node[i + 1] = w[i + 1]
        OBVIOUS
      <3>1. i \in 0 .. MaxNodes /\ i + 1 \in 0 .. MaxNodes /\ i + 1 # 0 /\ (i + 1) - 1 = i
        BY <1>2
      <3>2. node[i] = w[i]
        BY <2>3, <3>1
      <3> QED
        BY <1>5, <2>1, <3>1, <3>2
    <2>4. k \in T
      <3> HIDE DEF T
      <3> QED
        BY <2>2, <2>3, Induction
    <2> QED
      BY <1>2, <2>4
  <1>7. {i \in 1 .. MaxNodes : node[i] \in Nodes} = 1 .. m - 1
    <2>1. ASSUME NEW i \in 1 .. MaxNodes
          PROVE  node[i] \in Nodes <=> i < m
      <3>1. node[i] = w[i] /\ i \in 0 .. MaxNodes
        BY <1>2, <1>6
      <3>2. w[i] = IF i < m THEN list[i + 1] ELSE IF i = m THEN End ELSE NULL
        BY <1>1, <3>1
      <3>3. i < m => list[i + 1] \in Nodes
        BY <1>1
      <3> QED
        BY <3>1, <3>2, <3>3, Addresses
    <2> HIDE DEF node
    <2> QED
      BY <1>1, <1>2, <2>1
  <1>8. ASSUME NEW k \in 1 .. m - 1
        PROVE  node[k] = list[k + 1]
    BY <1>1, <1>2, <1>6
  <1>9. Following(next, n) = [k \in {i \in 1 .. MaxNodes : node[i] \in Nodes} |-> node[k]]
    BY DEF Following
  <1>10. Following(next, n) = [k \in 1 .. m - 1 |-> node[k]]
    <2> HIDE DEF node
    <2> QED
      BY <1>7, <1>9
  <1>11. Tail(list) = [k \in 1 .. m - 1 |-> list[k + 1]]
    <2>1. PICK rest : rest = Tail(list)
      OBVIOUS
    <2>2. /\ rest \in Seq(Nodes) /\ DOMAIN rest = 1 .. m - 1
          /\ \A k \in 1 .. m - 1 : rest[k] = list[k + 1]
      BY <1>1, <2>1
    <2>3. rest = [k \in DOMAIN rest |-> rest[k]]
      BY <2>2
    <2> QED
      BY <2>1, <2>2, <2>3
  <1> HIDE DEF node
  <1> QED
    BY <1>8, <1>10, <1>11

\* Where threads are: one of them goes from one place to another.
Moved(thr, t, s) == [thr EXCEPT ![t] = s]

MoveCounts(thr, thr2, place, place2, places) ==
  /\ Cardinality(Threads_at(thr, places)) \in Nat
  /\ Cardinality(Threads_at(thr2, places)) \in Nat
  /\ Cardinality(Threads_at(thr2, places))
       = Cardinality(Threads_at(thr, places)) + (IF place2 \in places THEN 1 ELSE 0)
           - (IF place \in places THEN 1 ELSE 0)

LEMMA ThreadMoves ==
  ASSUME NEW thr \in [Threads -> Place], NEW t \in Threads, NEW s, NEW places,
         NEW thr2, thr2 = Moved(thr, t, s)
  PROVE  MoveCounts(thr, thr2, thr[t].at, s.at, places)
  <1> DEFINE old == Threads_at(thr, places)
             new == Threads_at(thr2, places)
  <1>1. \A u \in Threads : thr2[u] = IF u = t THEN s ELSE thr[u]
    BY DEF Moved
  <1>2. old \subseteq Threads /\ IsFiniteSet(old) /\ Cardinality(old) \in Nat
    BY AddressAssumption, FS_Subset, FS_CardinalityType DEF Threads_at
  <1>3. new = IF s.at \in places THEN old \cup {t} ELSE old \ {t}
    BY <1>1 DEF Threads_at
  <1>4. t \in old <=> thr[t].at \in places
    BY DEF Threads_at
  <1>5. /\ Cardinality(old \cup {t}) = IF t \in old THEN Cardinality(old) ELSE Cardinality(old) + 1
        /\ Cardinality(old \ {t}) = IF t \in old THEN Cardinality(old) - 1 ELSE Cardinality(old)
    BY <1>2, FS_AddElement, FS_RemoveElement
  <1>6. t \in old => Cardinality(old) > 0
    BY <1>2, FS_EmptySet
  <1> HIDE DEF old, new
  <1>7. Cardinality(new) = Cardinality(old) + (IF s.at \in places THEN 1 ELSE 0)
                             - (IF thr[t].at \in places THEN 1 ELSE 0)
    BY <1>2, <1>3, <1>4, <1>5
  <1>8. Cardinality(new) \in Nat
    BY <1>2, <1>3, <1>4, <1>5, <1>6
  <1> QED
    BY <1>2, <1>7, <1>8 DEF old, new, MoveCounts

\* The last node of a list has no successor, and only such a node.
LEMMA LastOfList ==
  ASSUME NEW next, NEW lists, Listed(next, lists), NEW n \in Nodes, next[n] = End
  PROVE  \E l \in Owners : lists[l] # <<>> /\ lists[l][Len(lists[l])] = n
  <1>1. PICK l \in Owners : IsIn(n, lists[l])
    BY DEF Listed, Live
  <1>2. lists[l] \in Seq(Nodes) /\ Linked(next, lists[l])
    BY DEF Listed
  <1>3. PICK i \in DOMAIN lists[l] : lists[l][i] = n
    BY <1>1 DEF IsIn
  <1>4. next[n] = IF i = Len(lists[l]) THEN End ELSE lists[l][i + 1]
    BY <1>2, <1>3 DEF Linked
  <1>5. i # Len(lists[l]) => lists[l][i + 1] \in Nodes
    BY <1>2, <1>3
  <1> QED
    BY <1>2, <1>3, <1>4, <1>5, Addresses

\* PushItem: a thread has a node in a list of its own.
Relinked(next, n, to) == [next EXCEPT ![n] = to]
Starting(lists, t, n) == [lists EXCEPT ![t] = <<n>>]

LEMMA ListStarts ==
  ASSUME NEW next \in [Nodes -> Address], NEW lists, Listed(next, lists), NEW t \in Threads,
         lists[t] = <<>>, NEW n \in Nodes, n \notin Live(lists),
         NEW next2, next2 = Relinked(next, n, End),
         NEW new, new = Starting(lists, t, n)
  PROVE  Listed(next2, new) /\ Live(new) = Live(lists) \cup {n}
  <1>1. t \in Owners /\ lists \in [Owners -> Seq(Nodes)]
    BY DEF Owners, Listed
  <1>2. /\ new \in [Owners -> Seq(Nodes)] /\ new[t] = <<n>>
        /\ \A l \in Owners : l # t => new[l] = lists[l]
    BY <1>1 DEF Starting
  <1>3. DOMAIN new[t] = {1} /\ new[t][1] = n /\ Len(new[t]) = 1
    BY <1>2
  <1>4. Live(new) = Live(lists) \cup {n}
    <2>1. \A m \in Nodes : m \in Live(new) <=> m \in Live(lists) \/ m = n
      <3> SUFFICES ASSUME NEW m \in Nodes PROVE m \in Live(new) <=> m \in Live(lists) \/ m = n
        OBVIOUS
      <3>1. IsIn(m, new[t]) <=> m = n
        BY <1>3 DEF IsIn
      <3>2. ~IsIn(m, lists[t])
        BY DEF IsIn
      <3> QED
        BY <1>1, <1>2, <3>1, <3>2 DEF Live
    <2> QED
      BY <2>1 DEF Live
  <1>5. \A l \in Owners : \A i \in DOMAIN lists[l] : lists[l][i] # n
    BY DEF Live, IsIn
  <1>6. Apart(new)
    <2> SUFFICES ASSUME NEW l \in Owners, NEW k \in Owners, NEW i \in DOMAIN new[l],
                        NEW j \in DOMAIN new[k], new[l][i] = new[k][j]
                 PROVE  l = k /\ i = j
      BY DEF Apart
    <2>1. CASE l = t \/ k = t
      BY <1>2, <1>3, <1>5, <2>1
    <2>2. CASE l # t /\ k # t
      BY <1>2, <2>2 DEF Listed, Apart
    <2> QED
      BY <2>1, <2>2
  <1>7. \A m \in Nodes : next2[m] = IF m = n THEN End ELSE next[m]
    BY DEF Relinked
  <1>8. ASSUME NEW l \in Owners PROVE Linked(next2, new[l])
    <2>1. CASE l = t
      BY <1>3, <1>7, <2>1 DEF Linked
    <2>2. CASE l # t
      <3>1. Linked(next, lists[l]) /\ new[l] = lists[l] /\ lists[l] \in Seq(Nodes)
        BY <1>1, <1>2, <2>2 DEF Listed
      <3> QED
        BY <1>5, <1>7, <3>1 DEF Linked
    <2> QED
      BY <2>1, <2>2
  <1>9. \A m \in Nodes : next2[m] = End => m \in Live(new)
    BY <1>4, <1>7 DEF Listed
  <1> QED
    BY <1>2, <1>4, <1>6, <1>8, <1>9 DEF Listed

\* A list behind another one.
IsBehind(front, back, long, a, b) ==
  /\ long \in Seq(Nodes) /\ Len(long) = a + b /\ DOMAIN long = 1 .. a + b
  /\ \A i \in 1 .. a : i \in 1 .. a + b /\ long[i] = front[i]
  /\ \A i \in 1 .. b : i + a \in 1 .. a + b /\ long[i + a] = back[i]
  /\ \A i \in 1 .. a + b : i \in 1 .. a \/ \E j \in 1 .. b : i = j + a
  /\ \A n : IsIn(n, long) <=> IsIn(n, front) \/ IsIn(n, back)

LEMMA Behind ==
  ASSUME NEW front \in Seq(Nodes), NEW back \in Seq(Nodes), NEW long, long = front \o back,
         NEW a \in Nat, NEW b \in Nat, a = Len(front), b = Len(back)
  PROVE  IsBehind(front, back, long, a, b)
  <1>1. DOMAIN front = 1 .. a /\ DOMAIN back = 1 .. b
    OBVIOUS
  <1>2. /\ long \in Seq(Nodes) /\ Len(long) = a + b /\ DOMAIN long = 1 .. a + b
        /\ \A i \in 1 .. a + b : long[i] = IF i <= a THEN front[i] ELSE back[i - a]
    OBVIOUS
  <1>3. ASSUME NEW i \in 1 .. a PROVE i \in 1 .. a + b /\ long[i] = front[i]
    <2>1. i \in 1 .. a + b /\ i <= a
      OBVIOUS
    <2> QED
      BY <1>2, <2>1
  <1>4. ASSUME NEW i \in 1 .. b PROVE i + a \in 1 .. a + b /\ long[i + a] = back[i]
    <2>1. i + a \in 1 .. a + b /\ (i + a) - a = i /\ ~(i + a <= a)
      OBVIOUS
    <2> QED
      BY <1>2, <2>1
  <1>5. ASSUME NEW i \in 1 .. a + b PROVE i \in 1 .. a \/ \E j \in 1 .. b : i = j + a
    <2>1. CASE i <= a
      BY <2>1
    <2>2. CASE ~(i <= a)
      <3>1. i - a \in 1 .. b /\ i = (i - a) + a
        BY <2>2
      <3> QED
        BY <3>1
    <2> QED
      BY <2>1, <2>2
  <1>6. ASSUME NEW n PROVE IsIn(n, long) <=> IsIn(n, front) \/ IsIn(n, back)
    <2>1. ASSUME NEW i \in 1 .. a, front[i] = n PROVE \E j \in 1 .. a + b : long[j] = n
      BY <1>3, <2>1
    <2>2. ASSUME NEW i \in 1 .. b, back[i] = n PROVE \E j \in 1 .. a + b : long[j] = n
      BY <1>4, <2>2
    <2>3. ASSUME NEW i \in 1 .. a + b, long[i] = n
          PROVE  (\E j \in 1 .. a : front[j] = n) \/ (\E j \in 1 .. b : back[j] = n)
      BY <1>3, <1>4, <1>5, <2>3
    <2>4. /\ IsIn(n, long) <=> \E j \in 1 .. a + b : long[j] = n
          /\ IsIn(n, front) <=> \E j \in 1 .. a : front[j] = n
          /\ IsIn(n, back) <=> \E j \in 1 .. b : back[j] = n
      BY <1>1, <1>2 DEF IsIn
    <2> QED
      BY <2>1, <2>2, <2>3, <2>4
  <1> QED
    BY <1>2, <1>3, <1>4, <1>5, <1>6 DEF IsBehind

\* LinkNode: the list of a thread is put behind another one.
JoinedTo(lists, l, t) ==
  [k \in Owners |-> IF k = t THEN <<>> ELSE IF k = l THEN lists[l] \o lists[t] ELSE lists[k]]

LEMMA ListsJoin ==
  ASSUME NEW next \in [Nodes -> Address], NEW lists, Listed(next, lists), NEW t \in Threads,
         NEW l \in Owners, l # t, lists[t] # <<>>, lists[l] # <<>>,
         NEW next2, next2 = Relinked(next, lists[l][Len(lists[l])], lists[t][1]),
         NEW new, new = JoinedTo(lists, l, t)
  PROVE  /\ Listed(next2, new) /\ Live(new) = Live(lists)
         /\ \A n : IsIn(n, new[l]) <=> IsIn(n, lists[l]) \/ IsIn(n, lists[t])
         /\ \A i \in DOMAIN lists[l] : i \in DOMAIN new[l] /\ new[l][i] = lists[l][i]
  <1>1. t \in Owners /\ lists \in [Owners -> Seq(Nodes)]
    BY DEF Owners, Listed
  <1>2. PICK front, back, long : front = lists[l] /\ back = lists[t] /\ long = front \o back
    OBVIOUS
  <1>3. PICK a \in Nat, b \in Nat :
          /\ a = Len(front) /\ b = Len(back) /\ DOMAIN front = 1 .. a /\ DOMAIN back = 1 .. b
          /\ front \in Seq(Nodes) /\ back \in Seq(Nodes)
    BY <1>1, <1>2
  <1>4. a # 0 /\ b # 0 /\ a \in 1 .. a /\ b \in 1 .. b /\ 1 \in 1 .. b
    BY <1>2, <1>3
  <1>5. /\ new[l] = long /\ new[t] = <<>> /\ DOMAIN new = Owners
        /\ \A k \in Owners : k # t /\ k # l => new[k] = lists[k]
    BY <1>1, <1>2 DEF JoinedTo
  <1>6. IsBehind(front, back, long, a, b)
    BY <1>2, <1>3, Behind
  <1>6a. long \in Seq(Nodes) /\ Len(long) = a + b /\ DOMAIN long = 1 .. a + b
    BY <1>6 DEF IsBehind
  <1>6b. /\ \A i \in 1 .. a : i \in 1 .. a + b /\ long[i] = front[i]
         /\ \A i \in 1 .. b : i + a \in 1 .. a + b /\ long[i + a] = back[i]
         /\ \A i \in 1 .. a + b : i \in 1 .. a \/ \E j \in 1 .. b : i = j + a
    BY <1>6 DEF IsBehind
  <1>6c. \A n : IsIn(n, long) <=> IsIn(n, front) \/ IsIn(n, back)
    BY <1>6 DEF IsBehind
  <1>7. new \in [Owners -> Seq(Nodes)]
    <2>1. new = [k \in Owners |-> new[k]]
      BY DEF JoinedTo
    <2>2. ASSUME NEW k \in Owners PROVE new[k] \in Seq(Nodes)
      <3>1. CASE k = t
        BY <1>5, <3>1
      <3>2. CASE k = l
        BY <1>5, <1>6a, <3>2
      <3>3. CASE k # t /\ k # l
        BY <1>1, <1>5, <3>3
      <3> QED
        BY <3>1, <3>2, <3>3
    <2> QED
      BY <2>1, <2>2
  <1>8. ASSUME NEW n \in Nodes
        PROVE  (\E k \in Owners : IsIn(n, new[k])) <=> (\E k \in Owners : IsIn(n, lists[k]))
    <2>1. ~IsIn(n, <<>>)
      BY DEF IsIn
    <2>2. ~IsIn(n, new[t]) /\ (IsIn(n, new[l]) <=> IsIn(n, lists[l]) \/ IsIn(n, lists[t]))
      BY <1>2, <1>5, <1>6c, <2>1
    <2>3. \A k \in Owners : k # t /\ k # l => (IsIn(n, new[k]) <=> IsIn(n, lists[k]))
      BY <1>5
    <2> QED
      BY <1>1, <2>2, <2>3
  <1>9. Live(new) = Live(lists)
    BY <1>8 DEF Live
  <1>10. \A k, p \in Owners : \A i \in DOMAIN lists[k], j \in DOMAIN lists[p] :
           lists[k][i] = lists[p][j] => k = p /\ i = j
    BY DEF Listed, Apart
  <1>11. /\ \A i, j \in 1 .. a : front[i] = front[j] => i = j
         /\ \A i, j \in 1 .. b : back[i] = back[j] => i = j
         /\ \A i \in 1 .. a, j \in 1 .. b : front[i] # back[j]
    <2>1. \A i, j \in 1 .. a : front[i] = front[j] => i = j
      BY <1>2, <1>3, <1>10
    <2>2. \A i, j \in 1 .. b : back[i] = back[j] => i = j
      <3>1. \A i, j \in DOMAIN lists[t] : lists[t][i] = lists[t][j] => i = j
        BY <1>1, <1>10
      <3> QED
        BY <1>2, <1>3, <3>1
    <2>3. \A i \in 1 .. a, j \in 1 .. b : front[i] # back[j]
      BY <1>1, <1>2, <1>3, <1>10
    <2> QED
      BY <2>1, <2>2, <2>3
  <1>12. ASSUME NEW i \in 1 .. a + b, NEW j \in 1 .. a + b, long[i] = long[j]
         PROVE  i = j
    <2>1. CASE i \in 1 .. a /\ j \in 1 .. a
      BY <1>11, <1>12, <1>6b, <2>1
    <2>2. CASE i \in 1 .. a /\ j \notin 1 .. a
      <3>1. PICK m \in 1 .. b : j = m + a
        BY <1>6b, <2>2
      <3>2. long[i] = front[i] /\ long[j] = back[m]
        BY <1>6b, <2>2, <3>1
      <3> QED
        BY <1>11, <1>12, <2>2, <3>2
    <2>3. CASE i \notin 1 .. a /\ j \in 1 .. a
      <3>1. PICK m \in 1 .. b : i = m + a
        BY <1>6b, <2>3
      <3>2. long[j] = front[j] /\ long[i] = back[m]
        BY <1>6b, <2>3, <3>1
      <3> QED
        BY <1>11, <1>12, <2>3, <3>2
    <2>4. CASE i \notin 1 .. a /\ j \notin 1 .. a
      <3>1. PICK m \in 1 .. b : i = m + a
        BY <1>6b, <2>4
      <3>2. PICK p \in 1 .. b : j = p + a
        BY <1>6b, <2>4
      <3>3. long[i] = back[m] /\ long[j] = back[p]
        BY <1>6b, <3>1, <3>2
      <3>4. m = p
        BY <1>11, <1>12, <3>3
      <3> QED
        BY <3>1, <3>2, <3>4
    <2> QED
      BY <2>1, <2>2, <2>3, <2>4
  <1>13. ASSUME NEW k \in Owners, k # l, k # t, NEW i \in DOMAIN lists[k]
         PROVE  ~IsIn(lists[k][i], long)
    <2>1. \A j \in DOMAIN front : lists[k][i] # front[j]
      BY <1>2, <1>10, <1>13
    <2>2. \A j \in DOMAIN back : lists[k][i] # back[j]
      BY <1>1, <1>2, <1>10, <1>13
    <2> QED
      BY <1>6c, <2>1, <2>2 DEF IsIn
  <1>14. Apart(new)
    <2> SUFFICES ASSUME NEW p \in Owners, NEW k \in Owners, NEW i \in DOMAIN new[p],
                        NEW j \in DOMAIN new[k], new[p][i] = new[k][j]
                 PROVE  p = k /\ i = j
      BY DEF Apart
    <2>1. p # t /\ k # t
      <3>1. DOMAIN new[t] = {}
        BY <1>5
      <3> QED
        BY <3>1
    <2>2. CASE p = l /\ k = l
      BY <1>5, <1>6a, <1>12, <2>2
    <2>3. CASE p = l /\ k # l
      <3>1. new[k] = lists[k] /\ IsIn(new[k][j], long)
        BY <1>5, <2>1, <2>3 DEF IsIn
      <3> QED
        BY <1>13, <2>1, <2>3, <3>1
    <2>4. CASE p # l /\ k = l
      <3>1. new[p] = lists[p] /\ IsIn(new[p][i], long)
        BY <1>5, <2>1, <2>4 DEF IsIn
      <3> QED
        BY <1>13, <2>1, <2>4, <3>1
    <2>5. CASE p # l /\ k # l
      BY <1>5, <1>10, <2>1, <2>5
    <2> QED
      BY <2>2, <2>3, <2>4, <2>5
  <1>15. PICK e \in Nodes : e = front[a] /\ e = lists[l][Len(lists[l])]
    BY <1>2, <1>3, <1>4
  <1>16. \A m \in Nodes : next2[m] = IF m = e THEN back[1] ELSE next[m]
    BY <1>2, <1>15 DEF Relinked
  <1>17. /\ \A i \in 1 .. a : next[front[i]] = IF i = a THEN End ELSE front[i + 1]
         /\ \A i \in 1 .. b : next[back[i]] = IF i = b THEN End ELSE back[i + 1]
    <2>1. Linked(next, front) /\ Linked(next, back)
      BY <1>1, <1>2 DEF Listed
    <2> QED
      BY <1>3, <2>1 DEF Linked
  <1>18. ASSUME NEW i \in 1 .. a + b
         PROVE  next2[long[i]] = IF i = a + b THEN End ELSE long[i + 1]
    <2>1. CASE i \in 1 .. a /\ i # a
      <3>1. i + 1 \in 1 .. a /\ i # a + b
        BY <1>3, <2>1
      <3>2. long[i] = front[i] /\ long[i + 1] = front[i + 1]
        BY <1>6b, <2>1, <3>1
      <3>3. front[i] \in Nodes /\ front[i] # e
        <4>1. \A m \in DOMAIN front : front[m] \in Nodes
          BY <1>3
        <4>2. front[i] # front[a]
          BY <1>4, <1>11, <2>1
        <4> QED
          BY <1>3, <1>15, <2>1, <4>1, <4>2
      <3> QED
        BY <1>16, <1>17, <2>1, <3>1, <3>2, <3>3
    <2>2. CASE i = a
      <3>1. i # a + b /\ i + 1 = 1 + a
        BY <1>3, <1>4, <2>2
      <3>2. long[i] = e /\ long[1 + a] = back[1]
        BY <1>4, <1>15, <1>6b, <2>2
      <3> QED
        BY <1>16, <3>1, <3>2
    <2>3. CASE i \notin 1 .. a
      <3>1. PICK j \in 1 .. b : i = j + a
        BY <1>6b, <2>3
      <3>2. (i = a + b <=> j = b) /\ i + 1 = (j + 1) + a /\ (j # b => j + 1 \in 1 .. b)
        <4>1. j \in Nat /\ a \in Nat /\ b \in Nat /\ j >= 1 /\ j <= b
          BY <1>3
        <4> QED
          BY <3>1, <4>1
      <3>3. long[i] = back[j] /\ (j # b => long[i + 1] = back[j + 1])
        BY <1>6b, <3>1, <3>2
      <3>4. back[j] \in Nodes /\ back[j] # e
        <4>1. \A m \in DOMAIN back : back[m] \in Nodes
          BY <1>3
        <4>2. front[a] # back[j]
          BY <1>4, <1>11
        <4> QED
          BY <1>3, <1>15, <4>1, <4>2
      <3> QED
        BY <1>16, <1>17, <3>1, <3>2, <3>3, <3>4
    <2> QED
      BY <2>1, <2>2, <2>3
  <1>19. ASSUME NEW k \in Owners PROVE Linked(next2, new[k])
    <2>1. CASE k = l
      BY <1>5, <1>18, <1>6a, <2>1 DEF Linked
    <2>2. CASE k = t
      BY <1>5, <2>2 DEF Linked
    <2>3. CASE k # l /\ k # t
      <3>1. PICK s : s = lists[k]
        OBVIOUS
      <3>2. new[k] = s /\ s \in Seq(Nodes) /\ Linked(next, s)
        BY <1>1, <1>5, <2>3, <3>1 DEF Listed
      <3>3. \A i \in DOMAIN s : s[i] \in Nodes /\ s[i] # e
        BY <1>2, <1>3, <1>4, <1>10, <1>15, <2>3, <3>1, <3>2
      <3> QED
        BY <1>16, <3>2, <3>3 DEF Linked
    <2> QED
      BY <2>1, <2>2, <2>3
  <1>20. \A m \in Nodes : next2[m] = End => m \in Live(new)
    <2>1. back[1] \in Nodes /\ back[1] # End
      BY <1>3, <1>4, Addresses
    <2> QED
      BY <1>9, <1>16, <2>1 DEF Listed
  <1>21. \A i \in DOMAIN lists[l] : i \in DOMAIN new[l] /\ new[l][i] = lists[l][i]
    BY <1>2, <1>3, <1>5, <1>6a, <1>6b
  <1>22. \A n : IsIn(n, new[l]) <=> IsIn(n, lists[l]) \/ IsIn(n, lists[t])
    BY <1>2, <1>5, <1>6c
  <1> QED
    BY <1>7, <1>9, <1>14, <1>19, <1>20, <1>21, <1>22 DEF Listed

\* SwapHead: the head leaves the list of the queue.
LEMMA ListShrinks ==
  ASSUME NEW next, NEW lists, Listed(next, lists), Len(lists[End]) > 1,
         NEW new, new = [lists EXCEPT ![End] = Tail(lists[End])]
  PROVE  /\ Listed(next, new) /\ lists[End][1] \in Live(lists)
         /\ Live(new) = Live(lists) \ {lists[End][1]}
  <1>1. End \in Owners /\ lists \in [Owners -> Seq(Nodes)]
    BY DEF Owners, Listed
  <1>2. PICK old, rest : old = lists[End] /\ rest = Tail(old)
    OBVIOUS
  <1>3. PICK a \in Nat : /\ a = Len(old) /\ a > 1 /\ DOMAIN old = 1 .. a /\ old \in Seq(Nodes)
                         /\ old[1] \in Nodes
    BY <1>1, <1>2
  <1>4. /\ rest \in Seq(Nodes) /\ Len(rest) = a - 1 /\ DOMAIN rest = 1 .. a - 1
        /\ \A i \in 1 .. a - 1 : rest[i] = old[i + 1]
    BY <1>2, <1>3
  <1>5. /\ new \in [Owners -> Seq(Nodes)] /\ new[End] = rest
        /\ \A l \in Owners : l # End => new[l] = lists[l]
    BY <1>1, <1>2, <1>4
  <1>6. \A i, j \in 1 .. a : old[i] = old[j] => i = j
    BY <1>1, <1>2, <1>3 DEF Listed, Apart
  <1>7. \A n : IsIn(n, rest) <=> IsIn(n, old) /\ n # old[1]
    <2> SUFFICES ASSUME NEW n PROVE IsIn(n, rest) <=> IsIn(n, old) /\ n # old[1]
      OBVIOUS
    <2>1. ASSUME NEW i \in 1 .. a - 1, rest[i] = n PROVE IsIn(n, old) /\ n # old[1]
      <3>1. i + 1 \in 1 .. a /\ i + 1 # 1 /\ 1 \in 1 .. a
        BY <1>3
      <3> QED
        BY <1>3, <1>4, <1>6, <2>1, <3>1 DEF IsIn
    <2>2. ASSUME NEW i \in 1 .. a, old[i] = n, n # old[1] PROVE IsIn(n, rest)
      <3>1. i # 1 /\ i - 1 \in 1 .. a - 1 /\ (i - 1) + 1 = i
        BY <1>3, <2>2
      <3>2. rest[i - 1] = n
        BY <1>4, <2>2, <3>1
      <3> QED
        BY <1>4, <3>1, <3>2 DEF IsIn
    <2> QED
      BY <1>3, <1>4, <2>1, <2>2 DEF IsIn
  <1>8. IsIn(old[1], old) /\ \A l \in Owners : l # End => ~IsIn(old[1], lists[l])
    <2>1. 1 \in DOMAIN old
      BY <1>3
    <2> QED
      BY <1>1, <1>2, <2>1 DEF IsIn, Listed, Apart
  <1>9. ASSUME NEW n \in Nodes
        PROVE  (\E l \in Owners : IsIn(n, new[l]))
                 <=> (\E l \in Owners : IsIn(n, lists[l])) /\ n # old[1]
    BY <1>1, <1>2, <1>5, <1>7, <1>8
  <1>10. Live(new) = Live(lists) \ {old[1]}
    BY <1>9 DEF Live
  <1>11. Apart(new)
    <2> SUFFICES ASSUME NEW l \in Owners, NEW k \in Owners, NEW i \in DOMAIN new[l],
                        NEW j \in DOMAIN new[k], new[l][i] = new[k][j]
                 PROVE  l = k /\ i = j
      BY DEF Apart
    <2> DEFINE At1(o, p) == IF o = End THEN p + 1 ELSE p
    <2>1. /\ At1(l, i) \in DOMAIN lists[l] /\ new[l][i] = lists[l][At1(l, i)]
          /\ At1(k, j) \in DOMAIN lists[k] /\ new[k][j] = lists[k][At1(k, j)]
      <3>1. ASSUME NEW o \in Owners, NEW p \in DOMAIN new[o]
            PROVE  At1(o, p) \in DOMAIN lists[o] /\ new[o][p] = lists[o][At1(o, p)]
        <4>1. CASE o = End
          <5>1. p \in 1 .. a - 1 /\ p + 1 \in 1 .. a
            BY <1>3, <1>4, <1>5, <4>1
          <5> QED
            BY <1>2, <1>3, <1>4, <1>5, <4>1, <5>1
        <4>2. CASE o # End
          BY <1>5, <4>2
        <4> QED
          BY <4>1, <4>2
      <3> HIDE DEF At1
      <3> QED
        BY <3>1
    <2>2. l = k /\ At1(l, i) = At1(k, j)
      <3> HIDE DEF At1
      <3> QED
        BY <2>1 DEF Listed, Apart
    <2>3. l = End => i \in Nat /\ j \in Nat
      BY <1>4, <1>5, <2>2
    <2> QED
      BY <2>2, <2>3
  <1>12. ASSUME NEW l \in Owners PROVE Linked(next, new[l])
    <2>1. CASE l = End
      <3>1. ASSUME NEW i \in 1 .. a - 1
            PROVE  next[rest[i]] = IF i = a - 1 THEN End ELSE rest[i + 1]
        <4>1. i + 1 \in 1 .. a /\ (i + 1 = a <=> i = a - 1) /\ (i # a - 1 => i + 1 \in 1 .. a - 1)
          BY <1>3
        <4>2. next[old[i + 1]] = IF i + 1 = a THEN End ELSE old[(i + 1) + 1]
          BY <1>1, <1>2, <1>3, <4>1 DEF Listed, Linked
        <4> QED
          BY <1>4, <4>1, <4>2
      <3> QED
        BY <1>4, <1>5, <2>1, <3>1 DEF Linked
    <2>2. CASE l # End
      BY <1>5, <2>2 DEF Listed
    <2> QED
      BY <2>1, <2>2
  <1>13. next[old[1]] = old[2] /\ old[2] \in Nodes
    <2>1. 1 \in DOMAIN old /\ 1 # a /\ 2 \in DOMAIN old /\ 1 + 1 = 2
      BY <1>3
    <2> QED
      BY <1>1, <1>2, <1>3, <2>1 DEF Listed, Linked
  <1>14. \A n \in Nodes : next[n] = End => n \in Live(new)
    BY <1>10, <1>13, Addresses DEF Listed
  <1>15. old[1] \in Live(lists)
    BY <1>1, <1>2, <1>3, <1>8 DEF Live
  <1> QED
    BY <1>2, <1>5, <1>10, <1>11, <1>12, <1>14, <1>15 DEF Listed

\* FreeNode: the link of a node that is in no list changes.
LEMMA ListsStay ==
  ASSUME NEW next \in [Nodes -> Address], NEW lists, Listed(next, lists),
         NEW n \in Nodes, n \notin Live(lists), NEW x, x # End,
         NEW next2, next2 = [next EXCEPT ![n] = x]
  PROVE  Listed(next2, lists)
  <1>1. \A m \in Nodes : next2[m] = IF m = n THEN x ELSE next[m]
    OBVIOUS
  <1>2. ASSUME NEW l \in Owners PROVE Linked(next2, lists[l])
    <2>1. lists[l] \in Seq(Nodes) /\ Linked(next, lists[l])
      BY DEF Listed
    <2>2. \A i \in DOMAIN lists[l] : lists[l][i] # n
      BY DEF Live, IsIn
    <2> QED
      BY <1>1, <2>1, <2>2 DEF Linked
  <1> QED
    BY <1>1, <1>2 DEF Listed

----------------------------------------------------------------------------
(* A thread goes on to the place s, and the lists stay as they are.        *)

SameList(s, r) == /\ s.at \in BeforeLink <=> r.at \in BeforeLink
                  /\ s.at \in BeforeLink => s.node = r.node

\* It will link its node to one of the queue, if it does so.
ToQueue(s, lists) == s.at = "link" => IsIn(s.old.node, lists[End])

LEMMA OnlyInQueue ==
  ASSUME NEW next, NEW lists, Listed(next, lists), NEW n, IsIn(n, lists[End]), NEW t \in Threads
  PROVE  ~IsIn(n, lists[t])
  <1>1. End \in Owners /\ t \in Owners /\ t # End
    BY Addresses DEF Owners
  <1>2. PICK i \in DOMAIN lists[End] : lists[End][i] = n
    BY DEF IsIn
  <1>3. \A j \in DOMAIN lists[t] : lists[End][i] # lists[t][j]
    BY <1>1 DEF Listed, Apart
  <1> QED
    BY <1>2, <1>3 DEF IsIn

LEMMA ThreadGoesOn ==
  ASSUME NEW thr \in [Threads -> Place], NEW t \in Threads, NEW s, NEW thr2,
         thr2 = Moved(thr, t, s), NEW next, NEW lists, Listed(next, lists),
         SameList(s, thr[t]), ToQueue(s, lists), s.at # "free",
         NEW rank, NEW free, NEW count, NEW again
  PROVE  /\ Owned(thr, lists) => Owned(thr2, lists)
         /\ Ranked(thr, lists, rank) => Ranked(thr2, lists, rank)
         /\ Freed(thr, free, count, lists) => Freed(thr2, free, count, lists)
         /\ Alone(thr, again, lists) => Alone(thr2, again, lists)
  <1>1. /\ thr2[t] = s
        /\ \A u \in Threads : u # t => thr2[u] = thr[u]
    BY DEF Moved
  <1>2. s.at = "link" => \A u \in Threads : ~IsIn(s.old.node, lists[u])
    BY OnlyInQueue DEF ToQueue
  <1>3. Owned(thr, lists) => Owned(thr2, lists)
    BY <1>1 DEF Owned, SameList
  <1>4. Ranked(thr, lists, rank) => Ranked(thr2, lists, rank)
    BY <1>1, <1>2 DEF Ranked
  <1>5. Freed(thr, free, count, lists) => Freed(thr2, free, count, lists)
    BY <1>1 DEF Freed
  <1>6. Alone(thr, again, lists) => Alone(thr2, again, lists)
    BY <1>1, <1>2 DEF Alone
  <1> QED
    BY <1>3, <1>4, <1>5, <1>6

\* The count of a queue when a thread is done with its push, or its pop.
LEMMA CountGoesOn ==
  ASSUME NEW thr \in [Threads -> Place], NEW t \in Threads, NEW s, NEW thr2,
         thr2 = Moved(thr, t, s), NEW lists, NEW lists2, NEW count, NEW count2,
         IsFiniteSet(Live(lists)), Counted(count, thr, lists),
         NEW more \in Int, Cardinality(Live(lists2)) = Cardinality(Live(lists)) + more,
         count2 = count + more
           + (IF thr[t].at \in Uncounted THEN 1 ELSE 0) - (IF s.at \in Uncounted THEN 1 ELSE 0)
           + (IF s.at = "free" THEN 1 ELSE 0) - (IF thr[t].at = "free" THEN 1 ELSE 0)
  PROVE  Counted(count2, thr2, lists2)
  <1>1. PICK p, p2, f, f2, c, c2 :
          /\ p = Cardinality(Threads_at(thr, Uncounted))
          /\ p2 = Cardinality(Threads_at(thr2, Uncounted))
          /\ f = Cardinality(Threads_at(thr, {"free"}))
          /\ f2 = Cardinality(Threads_at(thr2, {"free"}))
          /\ c = Cardinality(Live(lists)) /\ c2 = Cardinality(Live(lists2))
    OBVIOUS
  <1>2. /\ p \in Nat /\ p2 \in Nat
        /\ p2 = p + (IF s.at \in Uncounted THEN 1 ELSE 0) - (IF thr[t].at \in Uncounted THEN 1 ELSE 0)
    <2>1. MoveCounts(thr, thr2, thr[t].at, s.at, Uncounted)
      BY ThreadMoves
    <2> QED
      BY <1>1, <2>1 DEF MoveCounts
  <1>3. /\ f \in Nat /\ f2 \in Nat
        /\ f2 = f + (IF s.at \in {"free"} THEN 1 ELSE 0) - (IF thr[t].at \in {"free"} THEN 1 ELSE 0)
    <2>1. MoveCounts(thr, thr2, thr[t].at, s.at, {"free"})
      BY ThreadMoves
    <2> QED
      BY <1>1, <2>1 DEF MoveCounts
  <1>4. c \in Nat /\ c2 = c + more
    BY <1>1, FS_CardinalityType
  <1>5. count = c - 1 - p + f
    BY <1>1 DEF Counted
  <1>6. PICK a \in {0, 1}, b \in {0, 1}, d \in {0, 1}, e \in {0, 1} :
          /\ a = IF s.at \in Uncounted THEN 1 ELSE 0
          /\ b = IF thr[t].at \in Uncounted THEN 1 ELSE 0
          /\ d = IF s.at = "free" THEN 1 ELSE 0
          /\ e = IF thr[t].at = "free" THEN 1 ELSE 0
    OBVIOUS
  <1>7. p2 = p + a - b /\ f2 = f + d - e /\ count2 = count + more + b - a + d - e
    BY <1>2, <1>3, <1>6
  <1>8. count2 = c2 - 1 - p2 + f2
    BY <1>2, <1>3, <1>4, <1>5, <1>7
  <1> QED
    BY <1>1, <1>8 DEF Counted

LEMMA LiveFinite ==
  ASSUME NEW lists
  PROVE  Live(lists) \subseteq Nodes /\ IsFiniteSet(Live(lists)) /\ Cardinality(Live(lists)) \in Nat
  BY NodesFinite, FS_Subset, FS_CardinalityType DEF Live

LEMMA CountIsInt ==
  ASSUME NEW thr \in [Threads -> Place], NEW lists, NEW count, Counted(count, thr, lists)
  PROVE  count \in Int
  <1>1. /\ IsFiniteSet(Threads_at(thr, Uncounted)) /\ IsFiniteSet(Threads_at(thr, {"free"}))
    BY AddressAssumption, FS_Subset DEF Threads_at
  <1>2. /\ Cardinality(Threads_at(thr, Uncounted)) \in Nat
        /\ Cardinality(Threads_at(thr, {"free"})) \in Nat
    BY <1>1, FS_CardinalityType
  <1>3. Cardinality(Live(lists)) \in Nat
    BY LiveFinite
  <1> QED
    BY <1>2, <1>3 DEF Counted

\* The head and the tail are in the list of the queue; the tail never is before
\* the head.
LEMMA HeadIs ==
  ASSUME NEW next, NEW lists, Listed(next, lists), NEW head, NEW tail,
         Headed(head, tail, lists[End])
  PROVE  /\ End \in Owners /\ lists[End] \in Seq(Nodes) /\ Len(lists[End]) \in Nat \ {0}
         /\ 1 \in DOMAIN lists[End] /\ DOMAIN lists[End] = 1 .. Len(lists[End])
         /\ lists[End][1] = head.node
         /\ head.node \in Live(lists) /\ tail.node \in Live(lists)
  <1>1. End \in Owners /\ lists[End] \in Seq(Nodes) /\ lists[End] # <<>>
    BY DEF Owners, Listed, Headed
  <1>2. /\ Len(lists[End]) \in Nat \ {0} /\ 1 \in DOMAIN lists[End]
        /\ DOMAIN lists[End] = 1 .. Len(lists[End])
    BY <1>1
  <1>3. \A i \in DOMAIN lists[End] : lists[End][i] \in Nodes
    BY <1>1
  <1>4. lists[End][1] = head.node
    BY DEF Headed
  <1>5. head.node \in Nodes /\ IsIn(head.node, lists[End])
    BY <1>2, <1>3, <1>4 DEF IsIn
  <1>6. tail.node \in Nodes /\ IsIn(tail.node, lists[End])
    BY <1>3 DEF Headed, IsIn
  <1> QED
    BY <1>1, <1>2, <1>4, <1>5, <1>6 DEF Live

----------------------------------------------------------------------------
(* What a thread has read.                                                 *)

LEMMA PlaceIs ==
  ASSUME NEW s \in Place
  PROVE  /\ s.at \in BeforeLink \cup {"finish", "free"} => s.node \in Nodes
         /\ s.at \in {"link", "help", "finish_other", "finish", "finish_for_pop"} => s.old \in Links
         /\ s.at \in {"finish_other", "finish_for_pop"} => s.other \in Address
         /\ s.at \in {"tail_node", "head_node"} => s.sequence \in Nat
         /\ s.at \in {"head_tail", "next", "check", "compare", "swap"} => s.head \in Links
         /\ s.at \in {"next", "check", "compare"} => s.tailSequence \in Nat
         /\ s.at \in {"check", "compare"} => s.next \in Address
         /\ s.at = "swap" => s.next \in Nodes /\ s.elem \in Element
         /\ s.at = "free" => s.elem \in Element
  BY DEF Place, BeforeLink

LEMMA LinkIs ==
  ASSUME NEW x \in Links
  PROVE  /\ x.node \in Nodes /\ x.sequence \in Nat /\ x = Link(x.node, x.sequence)
         /\ \A y \in Links : y.node = x.node /\ y.sequence = x.sequence => y = x
  BY DEF Links, Link

\* A step of t undoes nothing that another thread may have read, while the nodes
\* are in these lists.
Onward(t, lists) ==
  /\ m_Head' = m_Head \/ m_Head.sequence < m_Head'.sequence
  /\ \/ m_Tail' = m_Tail
     \/ m_Tail.sequence < m_Tail'.sequence /\ m_Tail'.node # m_Head.node /\ m_Head' = m_Head
  /\ \A n \in Live(lists) : elem'[n] = elem[n] /\ (pNext[n] # End => pNext'[n] = pNext[n])
  /\ \A u \in Threads \ {t} :
       wasEmpty[u] \/ (pNext'[m_Head'.node] = End /\ pNext[m_Head.node] # End) => wasEmpty'[u]

\* The node behind the head is in the list of the queue.
LEMMA Second ==
  ASSUME NEW next, NEW lists, Listed(next, lists), NEW head, NEW tail,
         Headed(head, tail, lists[End]), next[head.node] # End
  PROVE  /\ Len(lists[End]) > 1 /\ lists[End][2] = next[head.node]
         /\ next[head.node] \in Live(lists)
  <1>1. /\ End \in Owners /\ lists[End] \in Seq(Nodes) /\ Len(lists[End]) \in Nat \ {0}
        /\ DOMAIN lists[End] = 1 .. Len(lists[End]) /\ lists[End][1] = head.node
        /\ 1 \in DOMAIN lists[End]
    BY HeadIs
  <1>2. next[head.node] = IF 1 = Len(lists[End]) THEN End ELSE lists[End][1 + 1]
    BY <1>1 DEF Listed, Linked
  <1>3. Len(lists[End]) > 1 /\ 2 \in DOMAIN lists[End] /\ 1 + 1 = 2
    <2>1. PICK a \in Nat \ {0} : a = Len(lists[End])
      BY <1>1
    <2>2. a # 1
      BY <1>2, <2>1
    <2>3. a > 1 /\ 2 \in 1 .. a
      BY <2>2
    <2>4. DOMAIN lists[End] = 1 .. a
      BY <1>1, <2>1, Zenon
    <2> QED
      BY <2>1, <2>3, <2>4
  <1>4. lists[End][2] \in Nodes /\ IsIn(lists[End][2], lists[End])
    BY <1>1, <1>3 DEF IsIn
  <1> QED
    BY <1>1, <1>2, <1>3, <1>4 DEF Live

LEMMA OthersRead ==
  ASSUME Typed, Typed', NEW lists, Listed(pNext, lists), Headed(m_Head, m_Tail, lists[End]),
         NEW t \in Threads, Onward(t, lists), NEW u \in Threads \ {t}, Reads(u),
         thread'[u] = thread[u]
  PROVE  Reads(u)'
  <1>1. PICK s : s = thread[u]
    OBVIOUS
  <1>2. s \in Place /\ thread'[u] = s
    BY <1>1 DEF Typed
  <1>3. m_Head \in Links /\ m_Tail \in Links /\ m_Head' \in Links /\ m_Tail' \in Links
    BY DEF Typed
  <1>4. /\ m_Head.node \in Live(lists) /\ m_Tail.node \in Live(lists)
    BY HeadIs
  <1>5. /\ TailRead(s, m_Tail, pNext) /\ HeadRead(s, m_Head, m_Tail, pNext, elem)
        /\ EmptyRead(s, m_Head, pNext, wasEmpty[u])
    BY <1>1 DEF Reads
  <1>6. TailRead(s, m_Tail', pNext')
    <2>1. \A k \in Nat : k <= m_Tail.sequence => k <= m_Tail'.sequence
      <3>1. PICK x \in Nat, y \in Nat : x = m_Tail.sequence /\ y = m_Tail'.sequence
        BY <1>3, LinkIs
      <3>2. x <= y
        BY <3>1 DEF Onward
      <3> QED
        BY <3>1, <3>2
    <2>2. ASSUME NEW x \in Links, x.sequence <= m_Tail.sequence, x = m_Tail' PROVE m_Tail' = m_Tail
      BY <1>3, <2>2, LinkIs DEF Onward
    <2>3. pNext[m_Tail.node] # End => pNext'[m_Tail.node] = pNext[m_Tail.node]
      BY <1>4 DEF Onward
    <2>4. m_Tail.sequence \in Nat /\ m_Tail'.sequence \in Nat
      BY <1>3, LinkIs
    <2>5. s.at = "tail_node" => s.sequence <= m_Tail'.sequence
      BY <1>2, <1>5, <2>1, <2>4, PlaceIs DEF TailRead
    <2>6. s.at \in {"link", "help", "finish_other", "finish", "finish_for_pop"} =>
            s.old.sequence <= m_Tail'.sequence
      BY <1>2, <1>5, <2>1, <2>4, PlaceIs, LinkIs DEF TailRead
    <2>7. s.at = "help" /\ s.old = m_Tail' => pNext'[m_Tail'.node] # End
      BY <1>2, <1>5, <2>2, <2>3, PlaceIs DEF TailRead
    <2>8. s.at \in {"finish_other", "finish_for_pop"} /\ s.old = m_Tail' =>
            pNext'[m_Tail'.node] = s.other /\ s.other # End
      BY <1>2, <1>5, <2>2, <2>3, PlaceIs DEF TailRead
    <2>9. s.at = "finish" /\ s.old = m_Tail' => pNext'[m_Tail'.node] = s.node
      BY <1>2, <1>5, <2>2, <2>3, PlaceIs, Addresses DEF TailRead
    <2>10. s.at \in {"next", "check", "compare"} => s.tailSequence <= m_Tail'.sequence
      BY <1>2, <1>5, <2>1, <2>4, PlaceIs DEF TailRead
    <2>11. s.at \in {"check", "compare"} /\ Link(s.head.node, s.tailSequence) = m_Tail' =>
             s.next \in {End, pNext'[m_Tail'.node]}
      <3> SUFFICES ASSUME s.at \in {"check", "compare"}, Link(s.head.node, s.tailSequence) = m_Tail'
                   PROVE  s.next \in {End, pNext'[m_Tail'.node]}
        OBVIOUS
      <3>1. s.head \in Links /\ s.tailSequence \in Nat /\ s.tailSequence <= m_Tail.sequence
        BY <1>2, <1>5, PlaceIs DEF TailRead
      <3>2. /\ Link(s.head.node, s.tailSequence) \in Links
            /\ Link(s.head.node, s.tailSequence).sequence = s.tailSequence
        BY <3>1 DEF Link, Links
      <3>3. m_Tail' = m_Tail
        BY <2>2, <3>1, <3>2
      <3> QED
        BY <1>5, <2>3, <3>3 DEF TailRead
    <2> QED
      BY <2>5, <2>6, <2>7, <2>8, <2>9, <2>10, <2>11 DEF TailRead
  <1>7. HeadRead(s, m_Head', m_Tail', pNext', elem')
    <2>1. \A k \in Nat : k <= m_Head.sequence => k <= m_Head'.sequence
      <3>1. PICK x \in Nat, y \in Nat : x = m_Head.sequence /\ y = m_Head'.sequence
        BY <1>3, LinkIs
      <3>2. x <= y
        BY <3>1 DEF Onward
      <3> QED
        BY <3>1, <3>2
    <2>2. m_Head.sequence \in Nat /\ m_Head'.sequence \in Nat
      BY <1>3, LinkIs
    <2>3. \A k \in Nat : k <= m_Head.sequence /\ k = m_Head'.sequence => m_Head' = m_Head
      BY <2>2 DEF Onward
    <2>4. pNext[m_Head.node] # End => pNext'[m_Head.node] = pNext[m_Head.node]
      BY <1>4 DEF Onward
    <2>5. s.at = "head_node" => s.sequence <= m_Head'.sequence
      BY <1>2, <1>5, <2>1, <2>2, PlaceIs DEF HeadRead
    <2>6. s.at \in {"head_tail", "next", "check", "compare", "swap"} =>
            /\ s.head.sequence \in Nat /\ s.head.sequence <= m_Head.sequence
            /\ s.head.sequence = m_Head.sequence => s.head.node = m_Head.node
      BY <1>2, <1>5, PlaceIs, LinkIs DEF HeadRead
    <2>7. s.at \in {"head_tail", "next", "check", "compare", "swap"} =>
            /\ s.head.sequence <= m_Head'.sequence
            /\ s.head.sequence = m_Head'.sequence => s.head.node = m_Head'.node
      BY <2>1, <2>2, <2>3, <2>6
    <2>8. s.at \in {"check", "compare"} /\ s.head.sequence = m_Head'.sequence =>
            s.next \in {End, pNext'[m_Head'.node]}
      BY <1>5, <2>3, <2>4, <2>6 DEF HeadRead
    <2>9. s.at = "compare" => s.next # NULL
      BY <1>5 DEF HeadRead
    <2>10. s.at = "swap" /\ s.head.sequence = m_Head'.sequence =>
             /\ pNext'[m_Head'.node] = s.next /\ s.elem = elem'[s.next]
             /\ m_Tail'.node # m_Head'.node
      <3> SUFFICES ASSUME s.at = "swap", s.head.sequence = m_Head'.sequence
                   PROVE  /\ pNext'[m_Head'.node] = s.next /\ s.elem = elem'[s.next]
                          /\ m_Tail'.node # m_Head'.node
        OBVIOUS
      <3>1. m_Head' = m_Head /\ s.next \in Nodes
        BY <1>2, <2>3, <2>6, PlaceIs
      <3>2. pNext[m_Head.node] = s.next /\ s.elem = elem[s.next] /\ m_Tail.node # m_Head.node
        BY <1>5, <3>1 DEF HeadRead
      <3>3. pNext[m_Head.node] # End
        BY <3>1, <3>2, Addresses
      <3>4. s.next \in Live(lists)
        BY <3>2, <3>3, Second
      <3>5. elem'[s.next] = elem[s.next]
        BY <3>4 DEF Onward
      <3>6. m_Tail'.node # m_Head.node
        BY <3>2 DEF Onward
      <3> QED
        BY <2>4, <3>1, <3>2, <3>3, <3>5, <3>6
    <2> QED
      BY <2>5, <2>7, <2>8, <2>9, <2>10 DEF HeadRead
  <1>8. EmptyRead(s, m_Head', pNext', wasEmpty'[u])
    <2>1. wasEmpty[u] \/ (pNext'[m_Head'.node] = End /\ pNext[m_Head.node] # End) => wasEmpty'[u]
      BY DEF Onward
    <2>2. \A k \in Nat : k <= m_Head.sequence /\ k = m_Head'.sequence => m_Head' = m_Head
      BY <1>3, LinkIs DEF Onward
    <2>3. s.at = "check" => s.head.sequence \in Nat /\ s.head.sequence <= m_Head.sequence
      BY <1>2, <1>5, PlaceIs, LinkIs DEF HeadRead
    <2> QED
      BY <1>5, <2>1, <2>2, <2>3 DEF EmptyRead
  <1> QED
    BY <1>2, <1>6, <1>7, <1>8 DEF Reads
----------------------------------------------------------------------------
(* The steps that change nothing but where the thread is.                  *)

LEMMA MovedIs ==
  ASSUME NEW thr \in [Threads -> Place], NEW t \in Threads, NEW s \in Place
  PROVE  /\ Moved(thr, t, s) \in [Threads -> Place] /\ Moved(thr, t, s)[t] = s
         /\ \A u \in Threads \ {t} : Moved(thr, t, s)[u] = thr[u]
  BY DEF Moved

LEMMA QuietStep ==
  ASSUME TSInv, NEW t \in Threads, NEW s \in Place, thread' = Moved(thread, t, s),
         UNCHANGED queueVars, UNCHANGED <<pushes, popped, reused>>, NullOnlyIfEmpty',
         wasEmpty' \in [Threads -> BOOLEAN], \A u \in Threads \ {t} : wasEmpty'[u] = wasEmpty[u],
         SameList(s, thread[t]), thread[t].at # "free", s.at # "free",
         s.at \in Uncounted <=> thread[t].at \in Uncounted,
         s.at = "link" => s.old.node = m_Tail.node,
         TailRead(s, m_Tail, pNext), HeadRead(s, m_Head, m_Tail, pNext, elem),
         EmptyRead(s, m_Head, pNext, wasEmpty'[t])
  PROVE  TSInv'
  <1>1. Typed /\ thread \in [Threads -> Place]
    BY DEF TSInv, Typed
  <1>2. /\ thread' \in [Threads -> Place] /\ thread'[t] = s
        /\ \A u \in Threads \ {t} : thread'[u] = thread[u]
    BY <1>1, MovedIs
  <1>3. /\ m_Head' = m_Head /\ m_Tail' = m_Tail /\ m_Count' = m_Count /\ pNext' = pNext
        /\ elem' = elem /\ m_FreeNodes' = m_FreeNodes /\ allocated' = allocated
        /\ pushes' = pushes /\ popped' = popped /\ reused' = reused
    BY DEF queueVars
  <1>4. Typed'
    BY <1>1, <1>2, <1>3 DEF Typed
  <1>5. PICK lists, rank : Shape(lists, rank)
    BY DEF TSInv
  <1>6. Shape(lists, rank)'
    <2>1. /\ Listed(pNext, lists) /\ Headed(m_Head, m_Tail, lists[End])
          /\ Owned(thread, lists) /\ Ranked(thread, lists, rank)
          /\ Freed(thread, m_FreeNodes, allocated, lists)
          /\ Counted(m_Count, thread, lists) /\ Alone(thread, reused, lists)
          /\ Kept(pushes, popped, elem, Live(lists) \ {m_Head.node})
      BY <1>5 DEF Shape
    <2>2. ToQueue(s, lists)
      BY <2>1 DEF ToQueue, Headed
    <2>3. /\ Owned(thread', lists) /\ Ranked(thread', lists, rank)
          /\ Freed(thread', m_FreeNodes, allocated, lists) /\ Alone(thread', reused, lists)
      BY <1>1, <2>1, <2>2, ThreadGoesOn
    <2>4. Counted(m_Count, thread', lists)
      <3>1. m_Count \in Int
        BY <1>1, <2>1, CountIsInt
      <3>2. m_Count = m_Count + 0 + (IF thread[t].at \in Uncounted THEN 1 ELSE 0)
              - (IF s.at \in Uncounted THEN 1 ELSE 0) + (IF s.at = "free" THEN 1 ELSE 0)
              - (IF thread[t].at = "free" THEN 1 ELSE 0)
        BY <3>1
      <3>3. /\ IsFiniteSet(Live(lists)) /\ 0 \in Int
            /\ Cardinality(Live(lists)) = Cardinality(Live(lists)) + 0
        BY LiveFinite
      <3> QED
        BY <1>1, <2>1, <3>2, <3>3, CountGoesOn
    <2> QED
      BY <1>3, <2>1, <2>3, <2>4 DEF Shape
  <1>7. ASSUME NEW u \in Threads PROVE Reads(u)'
    <2>1. CASE u = t
      BY <1>2, <1>3, <2>1 DEF Reads
    <2>2. CASE u # t
      <3>1. Listed(pNext, lists) /\ Headed(m_Head, m_Tail, lists[End])
        BY <1>5 DEF Shape
      <3>2. Onward(t, lists)
        BY <1>3 DEF Onward
      <3>3. Reads(u) /\ thread'[u] = thread[u]
        BY <1>2, <2>2 DEF TSInv
      <3> QED
        BY <1>1, <1>4, <2>2, <3>1, <3>2, <3>3, OthersRead
    <2> QED
      BY <2>1, <2>2
  <1> QED
    BY <1>4, <1>6, <1>7 DEF TSInv
\* What holds of the next place of a thread that only reads.
Seen(s, t) ==
  /\ SameList(s, thread[t]) /\ thread[t].at # "free" /\ s.at # "free"
  /\ s.at \in Uncounted <=> thread[t].at \in Uncounted
  /\ s.at = "link" => s.old.node = m_Tail.node
  /\ TailRead(s, m_Tail, pNext) /\ HeadRead(s, m_Head, m_Tail, pNext, elem)
  /\ EmptyRead(s, m_Head, pNext, wasEmpty[t])

LEMMA ReadStep ==
  ASSUME TSInv, NEW t \in Threads, NEW s \in Place, Go(t, s),
         UNCHANGED <<queueVars, pushes, historyVars>>, Seen(s, t)
  PROVE  TSInv'
  <1>1. thread' = Moved(thread, t, s)
    BY DEF Go, Moved
  <1>2. /\ UNCHANGED queueVars /\ UNCHANGED <<pushes, popped, reused>> /\ wasEmpty' = wasEmpty
        /\ lied' = lied
    BY DEF historyVars
  <1>3. NullOnlyIfEmpty' /\ wasEmpty' \in [Threads -> BOOLEAN] /\ wasEmpty'[t] = wasEmpty[t]
        /\ \A u \in Threads \ {t} : wasEmpty'[u] = wasEmpty[u]
    BY <1>2 DEF TSInv, Typed, NullOnlyIfEmpty
  <1>4. EmptyRead(s, m_Head, pNext, wasEmpty'[t])
    BY <1>3 DEF Seen
  <1> QED
    BY <1>1, <1>2, <1>3, <1>4, QuietStep DEF Seen

\* What holds in a state where the thread is about to make its step.
LEMMA Before ==
  ASSUME TSInv, NEW t \in Threads
  PROVE  /\ m_Head \in Links /\ m_Tail \in Links /\ m_Head.sequence \in Nat
         /\ m_Tail.sequence \in Nat /\ m_Head.node \in Nodes /\ m_Tail.node \in Nodes
         /\ m_Tail.sequence <= m_Tail.sequence /\ m_Head.sequence <= m_Head.sequence
         /\ \A n \in Nodes : pNext[n] \in Address /\ elem[n] \in Element
         /\ thread[t] \in Place
         /\ TailRead(thread[t], m_Tail, pNext)
         /\ HeadRead(thread[t], m_Head, m_Tail, pNext, elem)
         /\ EmptyRead(thread[t], m_Head, pNext, wasEmpty[t])
  BY LinkIs DEF TSInv, Typed, Reads

LEMMA ReadTailSequenceStep ==
  ASSUME TSInv, NEW t \in Threads, ReadTailSequence(t)
  PROVE  TSInv'
  <1>1. PICK s : s = [at |-> "tail_node", node |-> thread[t].node, sequence |-> m_Tail.sequence]
    OBVIOUS
  <1>2. /\ thread[t].at = "tail_sequence" /\ Go(t, s)
        /\ UNCHANGED <<queueVars, pushes, historyVars>>
    BY <1>1 DEF ReadTailSequence, At
  <1>3. /\ thread[t].node \in Nodes /\ m_Tail.sequence \in Nat
        /\ m_Tail.sequence <= m_Tail.sequence
    BY <1>2, Before, PlaceIs DEF BeforeLink
  <1>4. s \in Place
    BY <1>1, <1>3 DEF Place
  <1>5. s.at = "tail_node" /\ s.node = thread[t].node /\ s.sequence = m_Tail.sequence
    BY <1>1
  <1>6. Seen(s, t)
    BY <1>2, <1>3, <1>5 DEF Seen, SameList, BeforeLink, Uncounted, TailRead, HeadRead, EmptyRead, InPop
  <1> QED
    BY <1>2, <1>4, <1>6, ReadStep

LEMMA ReadTailNodeStep ==
  ASSUME TSInv, NEW t \in Threads, ReadTailNode(t)
  PROVE  TSInv'
  <1>1. PICK s, old : /\ old = Link(m_Tail.node, thread[t].sequence)
                      /\ s = [at |-> "link", node |-> thread[t].node, old |-> old]
    OBVIOUS
  <1>2. /\ thread[t].at = "tail_node" /\ Go(t, s)
        /\ UNCHANGED <<queueVars, pushes, historyVars>>
    BY <1>1 DEF ReadTailNode, At
  <1>3. thread[t].node \in Nodes /\ thread[t].sequence \in Nat /\ m_Tail.node \in Nodes
    BY <1>2, Before, PlaceIs DEF BeforeLink
  <1>4. old \in Links /\ old.node = m_Tail.node /\ old.sequence = thread[t].sequence
    BY <1>1, <1>3 DEF Link, Links
  <1>5. s \in Place /\ s.at = "link" /\ s.node = thread[t].node /\ s.old = old
    BY <1>1, <1>3, <1>4 DEF Place
  <1>6. thread[t].sequence <= m_Tail.sequence
    BY <1>2, Before DEF TailRead
  <1>7. Seen(s, t)
    BY <1>2, <1>4, <1>5, <1>6
       DEF Seen, SameList, BeforeLink, Uncounted, TailRead, HeadRead, EmptyRead, InPop
  <1> QED
    BY <1>2, <1>5, <1>7, ReadStep

LEMMA ReadLinkedStep ==
  ASSUME TSInv, NEW t \in Threads, ReadLinked(t)
  PROVE  TSInv'
  <1>1. PICK s : s = [at |-> "finish_other", node |-> thread[t].node, old |-> thread[t].old,
                      other |-> pNext[thread[t].old.node]]
    OBVIOUS
  <1>2. /\ thread[t].at = "help" /\ Go(t, s)
        /\ UNCHANGED <<queueVars, pushes, historyVars>>
    BY <1>1 DEF ReadLinked, At
  <1>3. thread[t].node \in Nodes /\ thread[t].old \in Links
    BY <1>2, Before, PlaceIs DEF BeforeLink
  <1>4. pNext[thread[t].old.node] \in Address
    BY <1>3, Before, LinkIs
  <1>5. /\ s \in Place /\ s.at = "finish_other" /\ s.node = thread[t].node
        /\ s.old = thread[t].old /\ s.other = pNext[s.old.node]
    BY <1>1, <1>3, <1>4 DEF Place
  <1>6. /\ s.old.sequence <= m_Tail.sequence
        /\ s.old = m_Tail => pNext[m_Tail.node] # End
    BY <1>2, <1>5, Before DEF TailRead
  <1>7. Seen(s, t)
    BY <1>2, <1>5, <1>6
       DEF Seen, SameList, BeforeLink, Uncounted, TailRead, HeadRead, EmptyRead, InPop
  <1> QED
    BY <1>2, <1>5, <1>7, ReadStep

LEMMA ReadHeadSequenceStep ==
  ASSUME TSInv, NEW t \in Threads, ReadHeadSequence(t)
  PROVE  TSInv'
  <1>1. PICK s : s = [at |-> "head_node", sequence |-> m_Head.sequence]
    OBVIOUS
  <1>2. /\ thread[t].at = "head_sequence" /\ Go(t, s)
        /\ UNCHANGED <<queueVars, pushes, historyVars>>
    BY <1>1 DEF ReadHeadSequence, At
  <1>3. m_Head.sequence \in Nat /\ m_Head.sequence <= m_Head.sequence
    BY Before
  <1>4. s \in Place /\ s.at = "head_node" /\ s.sequence = m_Head.sequence
    BY <1>1, <1>3 DEF Place
  <1>5. pNext[m_Head.node] = End => wasEmpty[t]
    BY <1>2, Before DEF EmptyRead, InPop
  <1>6. Seen(s, t)
    BY <1>2, <1>3, <1>4, <1>5
       DEF Seen, SameList, BeforeLink, Uncounted, TailRead, HeadRead, EmptyRead, InPop
  <1> QED
    BY <1>2, <1>4, <1>6, ReadStep

LEMMA ReadHeadNodeStep ==
  ASSUME TSInv, NEW t \in Threads, ReadHeadNode(t)
  PROVE  TSInv'
  <1>1. PICK s, head : /\ head = Link(m_Head.node, thread[t].sequence)
                       /\ s = [at |-> "head_tail", head |-> head]
    OBVIOUS
  <1>2. /\ thread[t].at = "head_node" /\ Go(t, s)
        /\ UNCHANGED <<queueVars, pushes, historyVars>>
    BY <1>1 DEF ReadHeadNode, At
  <1>3. thread[t].sequence \in Nat /\ m_Head.node \in Nodes
    BY <1>2, Before, PlaceIs
  <1>4. head \in Links /\ head.node = m_Head.node /\ head.sequence = thread[t].sequence
    BY <1>1, <1>3 DEF Link, Links
  <1>5. s \in Place /\ s.at = "head_tail" /\ s.head = head
    BY <1>1, <1>4 DEF Place
  <1>6. thread[t].sequence <= m_Head.sequence /\ (pNext[m_Head.node] = End => wasEmpty[t])
    BY <1>2, Before DEF HeadRead, EmptyRead, InPop
  <1>7. Seen(s, t)
    BY <1>2, <1>4, <1>5, <1>6
       DEF Seen, SameList, BeforeLink, Uncounted, TailRead, HeadRead, EmptyRead, InPop
  <1> QED
    BY <1>2, <1>5, <1>7, ReadStep

LEMMA ReadTailForPopStep ==
  ASSUME TSInv, NEW t \in Threads, ReadTailForPop(t)
  PROVE  TSInv'
  <1>1. PICK s : s = [at |-> "next", head |-> thread[t].head, tailSequence |-> m_Tail.sequence]
    OBVIOUS
  <1>2. /\ thread[t].at = "head_tail" /\ Go(t, s)
        /\ UNCHANGED <<queueVars, pushes, historyVars>>
    BY <1>1 DEF ReadTailForPop, At
  <1>3. /\ thread[t].head \in Links
        /\ m_Tail.sequence \in Nat
        /\ m_Tail.sequence <= m_Tail.sequence
    BY <1>2, Before, PlaceIs
  <1>4. /\ s \in Place /\ s.at = "next" /\ s.head = thread[t].head
        /\ s.tailSequence = m_Tail.sequence
    BY <1>1, <1>3 DEF Place
  <1>5. /\ s.head.sequence <= m_Head.sequence
        /\ s.head.sequence = m_Head.sequence => s.head.node = m_Head.node
        /\ pNext[m_Head.node] = End => wasEmpty[t]
    BY <1>2, <1>4, Before DEF HeadRead, EmptyRead, InPop
  <1>6. Seen(s, t)
    BY <1>2, <1>3, <1>4, <1>5
       DEF Seen, SameList, BeforeLink, Uncounted, TailRead, HeadRead, EmptyRead, InPop
  <1> QED
    BY <1>2, <1>4, <1>6, ReadStep

LEMMA ReadNextStep ==
  ASSUME TSInv, NEW t \in Threads, ReadNext(t)
  PROVE  TSInv'
  <1>1. PICK s : s = [at |-> "check", head |-> thread[t].head,
                      tailSequence |-> thread[t].tailSequence,
                      next |-> pNext[thread[t].head.node]]
    OBVIOUS
  <1>2. /\ thread[t].at = "next" /\ Go(t, s)
        /\ UNCHANGED <<queueVars, pushes, historyVars>>
    BY <1>1 DEF ReadNext, At
  <1>3. thread[t].head \in Links /\ thread[t].tailSequence \in Nat
    BY <1>2, Before, PlaceIs
  <1>4. pNext[thread[t].head.node] \in Address
    BY <1>3, Before, LinkIs
  <1>5. /\ s \in Place /\ s.at = "check" /\ s.head = thread[t].head
        /\ s.tailSequence = thread[t].tailSequence /\ s.next = pNext[s.head.node]
    BY <1>1, <1>3, <1>4 DEF Place
  <1>6. /\ s.head.sequence <= m_Head.sequence
        /\ s.head.sequence = m_Head.sequence => s.head.node = m_Head.node
        /\ pNext[m_Head.node] = End => wasEmpty[t]
        /\ s.tailSequence <= m_Tail.sequence
    BY <1>2, <1>5, Before DEF TailRead, HeadRead, EmptyRead, InPop
  <1>7. Link(s.head.node, s.tailSequence) = m_Tail => s.head.node = m_Tail.node
    BY DEF Link
  <1>8. Seen(s, t)
    BY <1>2, <1>5, <1>6, <1>7
       DEF Seen, SameList, BeforeLink, Uncounted, TailRead, HeadRead, EmptyRead, InPop
  <1> QED
    BY <1>2, <1>5, <1>8, ReadStep

\* The thread begins to read again.
LEMMA AgainStep ==
  ASSUME TSInv, NEW t \in Threads, thread[t].at \in InPop, Again(t),
         UNCHANGED <<queueVars, pushes, historyVars>>
  PROVE  TSInv'
  <1>1. PICK s : s = [at |-> "head_sequence"]
    OBVIOUS
  <1>2. Go(t, s) /\ s.at = "head_sequence" /\ s \in Place
    BY <1>1 DEF Again, Place
  <1>3. pNext[m_Head.node] = End => wasEmpty[t]
    BY Before DEF EmptyRead
  <1>4. Seen(s, t)
    BY <1>2, <1>3
       DEF Seen, SameList, BeforeLink, Uncounted, TailRead, HeadRead, EmptyRead, InPop
  <1> QED
    BY <1>2, <1>4, ReadStep

LEMMA CheckSequenceStep ==
  ASSUME TSInv, NEW t \in Threads, CheckSequence(t)
  PROVE  TSInv'
  <1>1. PICK s : s = [thread[t] EXCEPT !.at = "compare"]
    OBVIOUS
  <1>2. /\ thread[t].at = "check"
        /\ UNCHANGED <<queueVars, pushes, historyVars>>
        /\ IF thread[t].next = NULL \/ thread[t].head.sequence # m_Head.sequence
             THEN Again(t) ELSE Go(t, s)
    BY <1>1 DEF CheckSequence, At
  <1>3. CASE thread[t].next = NULL \/ thread[t].head.sequence # m_Head.sequence
    BY <1>2, <1>3, AgainStep DEF InPop
  <1>4. CASE thread[t].next # NULL /\ thread[t].head.sequence = m_Head.sequence
    <2>1. thread[t] \in [at : {"check"}, head : Links, tailSequence : Nat, next : Address]
      BY <1>2, Before DEF Place
    <2>2. /\ s \in [at : {"compare"}, head : Links, tailSequence : Nat, next : Address]
          /\ s.head = thread[t].head /\ s.tailSequence = thread[t].tailSequence
          /\ s.next = thread[t].next
      BY <1>1, <2>1
    <2>3. s.at = "compare" /\ s \in Place
      BY <2>2 DEF Place
    <2>4. /\ s.tailSequence <= m_Tail.sequence
          /\ Link(s.head.node, s.tailSequence) = m_Tail => s.next \in {End, pNext[m_Tail.node]}
      BY <1>2, <2>2, Before DEF TailRead
    <2>5. /\ s.head.sequence <= m_Head.sequence
          /\ s.head.sequence = m_Head.sequence => s.head.node = m_Head.node
          /\ s.head.sequence = m_Head.sequence => s.next \in {End, pNext[m_Head.node]}
      BY <1>2, <2>2, Before DEF HeadRead
    <2>6. /\ pNext[m_Head.node] = End => wasEmpty[t]
          /\ s.next = End => wasEmpty[t]
      BY <1>2, <1>4, <2>2, Before DEF EmptyRead, InPop
    <2>7. Seen(s, t)
      BY <1>2, <1>4, <2>2, <2>3, <2>4, <2>5, <2>6
         DEF Seen, SameList, BeforeLink, Uncounted, TailRead, HeadRead, EmptyRead, InPop
    <2> QED
      BY <1>2, <1>4, <2>3, <2>7, ReadStep
  <1> QED
    BY <1>3, <1>4

LEMMA HelpFromPopStep ==
  ASSUME TSInv, NEW t \in Threads, HelpFromPop(t)
  PROVE  TSInv'
  <1>1. PICK s, old : /\ old = Link(thread[t].head.node, thread[t].tailSequence)
                      /\ s = [at |-> "finish_for_pop", other |-> thread[t].next, old |-> old]
    OBVIOUS
  <1>2. /\ thread[t].at = "compare" /\ thread[t].next # End /\ Go(t, s)
        /\ UNCHANGED <<queueVars, pushes, historyVars>>
    BY <1>1 DEF HelpFromPop, At
  <1>3. thread[t].head.node \in Nodes /\ thread[t].tailSequence \in Nat /\ thread[t].next \in Address
    BY <1>2, Before, PlaceIs, LinkIs
  <1>4. old \in Links /\ old.sequence = thread[t].tailSequence
    BY <1>1, <1>3 DEF Link, Links
  <1>5. s \in Place /\ s.at = "finish_for_pop" /\ s.other = thread[t].next /\ s.old = old
    BY <1>1, <1>3, <1>4 DEF Place
  <1>6. /\ thread[t].tailSequence <= m_Tail.sequence
        /\ old = m_Tail => thread[t].next \in {End, pNext[m_Tail.node]}
        /\ pNext[m_Head.node] = End => wasEmpty[t]
    BY <1>1, <1>2, Before DEF TailRead, EmptyRead, InPop
  <1>7. Seen(s, t)
    BY <1>2, <1>4, <1>5, <1>6
       DEF Seen, SameList, BeforeLink, Uncounted, TailRead, HeadRead, EmptyRead, InPop
  <1> QED
    BY <1>2, <1>5, <1>7, ReadStep

LEMMA ReadElementStep ==
  ASSUME TSInv, NEW t \in Threads, ReadElement(t)
  PROVE  TSInv'
  <1>1. PICK s : s = [at |-> "swap", head |-> thread[t].head, next |-> thread[t].next,
                      elem |-> elem[thread[t].next]]
    OBVIOUS
  <1>2. /\ thread[t].at = "compare" /\ thread[t].head.node # m_Tail.node
        /\ UNCHANGED <<queueVars, pushes, historyVars>>
        /\ IF thread[t].next = End THEN Again(t) ELSE Go(t, s)
    BY <1>1 DEF ReadElement, At, AtTail
  <1>3. CASE thread[t].next = End
    BY <1>2, <1>3, AgainStep DEF InPop
  <1>4. CASE thread[t].next # End
    <2>1. thread[t].next # NULL
      BY <1>2, Before DEF HeadRead
    <2>2. thread[t].head \in Links /\ thread[t].next \in Nodes
      BY <1>2, <1>4, <2>1, Before, PlaceIs DEF Address
    <2>3. elem[thread[t].next] \in Element
      BY <2>2, Before
    <2>4. /\ s \in Place /\ s.at = "swap" /\ s.head = thread[t].head /\ s.next = thread[t].next
          /\ s.elem = elem[s.next]
      BY <1>1, <2>2, <2>3 DEF Place
    <2>5. /\ s.head.sequence <= m_Head.sequence
          /\ s.head.sequence = m_Head.sequence => s.head.node = m_Head.node
          /\ s.head.sequence = m_Head.sequence => s.next \in {End, pNext[m_Head.node]}
          /\ pNext[m_Head.node] = End => wasEmpty[t]
      BY <1>2, <2>4, Before DEF HeadRead, EmptyRead, InPop
    <2>6. Seen(s, t)
      BY <1>2, <1>4, <2>4, <2>5
         DEF Seen, SameList, BeforeLink, Uncounted, TailRead, HeadRead, EmptyRead, InPop
    <2> QED
      BY <1>2, <1>4, <2>4, <2>6, ReadStep
  <1> QED
    BY <1>3, <1>4

\* What can be reached from the head is the list of the queue without its dummy.
LEMMA ChainIsTail ==
  ASSUME Typed, NEW lists, Listed(pNext, lists), Headed(m_Head, m_Tail, lists[End])
  PROVE  /\ Chain = Tail(lists[End]) /\ Chain \in Seq(Nodes)
         /\ Len(Chain) = Len(lists[End]) - 1
         /\ Chain = <<>> <=> pNext[m_Head.node] = End
  <1>1. /\ End \in Owners /\ lists[End] \in Seq(Nodes) /\ Len(lists[End]) \in Nat \ {0}
        /\ lists[End][1] = m_Head.node /\ 1 \in DOMAIN lists[End]
    BY HeadIs
  <1>2. PICK list : list = lists[End]
    OBVIOUS
  <1>3. list \in Seq(Nodes) /\ list # <<>> /\ list[1] = m_Head.node
    BY <1>1, <1>2
  <1>4. Linked(pNext, list) /\ \A i, j \in DOMAIN list : list[i] = list[j] => i = j
    BY <1>1, <1>2 DEF Listed, Apart
  <1>5. Following(pNext, list[1]) = Tail(list)
    BY <1>3, <1>4, ChainIs DEF Typed
  <1>6. Chain = Tail(list)
    BY <1>3, <1>5 DEF Chain
  <1>7. Chain \in Seq(Nodes) /\ Len(Chain) = Len(list) - 1
    BY <1>3, <1>6
  <1>8. Chain = <<>> <=> Len(list) = 1
    <2>1. PICK chain : chain = Chain
      OBVIOUS
    <2>2. chain \in Seq(Nodes) /\ Len(chain) = Len(list) - 1 /\ Len(list) \in Nat
      BY <1>3, <1>7, <2>1
    <2>3. chain = <<>> <=> Len(chain) = 0
      BY <2>2
    <2> QED
      BY <2>1, <2>2, <2>3
  <1>9. pNext[m_Head.node] = IF Len(list) = 1 THEN End ELSE list[2]
    <2>1. pNext[list[1]] = IF 1 = Len(list) THEN End ELSE list[1 + 1]
      BY <1>1, <1>2, <1>4 DEF Linked
    <2> QED
      BY <1>3, <2>1
  <1>10. Len(list) # 1 => list[2] \in Nodes
    <2>1. PICK a \in Nat \ {0} : a = Len(list)
      BY <1>1, <1>2
    <2>2. a # 1 => 2 \in 1 .. a
      OBVIOUS
    <2>3. DOMAIN list = 1 .. a
      BY <1>3, <2>1
    <2> QED
      BY <1>3, <2>1, <2>2, <2>3
  <1> QED
    BY <1>2, <1>6, <1>7, <1>8, <1>9, <1>10, Addresses

LEMMA PopItemStep ==
  ASSUME TSInv, NEW t \in Threads, PopItem(t)
  PROVE  TSInv'
  <1>1. PICK s : s = [at |-> "head_sequence"]
    OBVIOUS
  <1>2. /\ thread[t].at = "idle" /\ thread' = Moved(thread, t, s)
        /\ UNCHANGED queueVars /\ UNCHANGED <<pushes, popped, reused>> /\ lied' = lied
        /\ wasEmpty' = [wasEmpty EXCEPT ![t] = Chain = <<>>]
    BY <1>1 DEF PopItem, At, Again, Go, Moved
  <1>3. s.at = "head_sequence" /\ s \in Place
    BY <1>1 DEF Place
  <1>4. PICK lists, rank : Shape(lists, rank)
    BY DEF TSInv
  <1>5. Chain = <<>> <=> pNext[m_Head.node] = End
    BY <1>4, ChainIsTail DEF TSInv, Shape
  <1>6. /\ wasEmpty' \in [Threads -> BOOLEAN]
        /\ \A u \in Threads \ {t} : wasEmpty'[u] = wasEmpty[u]
        /\ Chain = <<>> => wasEmpty'[t]
    BY <1>2 DEF TSInv, Typed
  <1>7. NullOnlyIfEmpty'
    BY <1>2 DEF TSInv, NullOnlyIfEmpty
  <1>8. /\ SameList(s, thread[t]) /\ thread[t].at # "free" /\ s.at # "free"
        /\ s.at \in Uncounted <=> thread[t].at \in Uncounted
        /\ s.at = "link" => s.old.node = m_Tail.node
        /\ TailRead(s, m_Tail, pNext) /\ HeadRead(s, m_Head, m_Tail, pNext, elem)
    BY <1>2, <1>3 DEF SameList, BeforeLink, Uncounted, TailRead, HeadRead
  <1>9. EmptyRead(s, m_Head, pNext, wasEmpty'[t])
    BY <1>3, <1>5, <1>6 DEF EmptyRead, InPop
  <1> QED
    BY <1>2, <1>3, <1>6, <1>7, <1>8, <1>9, QuietStep

LEMMA ReturnNullStep ==
  ASSUME TSInv, NEW t \in Threads, ReturnNull(t)
  PROVE  TSInv'
  <1>1. PICK s : s = [at |-> "idle"]
    OBVIOUS
  <1>2. /\ thread[t].at = "compare" /\ thread[t].next = End /\ thread' = Moved(thread, t, s)
        /\ UNCHANGED queueVars /\ UNCHANGED <<pushes, popped, reused>> /\ wasEmpty' = wasEmpty
        /\ lied' = (lied \/ ~wasEmpty[t])
    BY <1>1 DEF ReturnNull, At, Go, Moved, Idle
  <1>3. s.at = "idle" /\ s \in Place
    BY <1>1 DEF Place
  <1>4. wasEmpty[t]
    BY <1>2, Before DEF EmptyRead
  <1>5. NullOnlyIfEmpty'
    BY <1>2, <1>4 DEF TSInv, NullOnlyIfEmpty
  <1>6. /\ wasEmpty' \in [Threads -> BOOLEAN]
        /\ \A u \in Threads \ {t} : wasEmpty'[u] = wasEmpty[u]
    BY <1>2 DEF TSInv, Typed
  <1>7. /\ SameList(s, thread[t]) /\ thread[t].at # "free" /\ s.at # "free"
        /\ s.at \in Uncounted <=> thread[t].at \in Uncounted
        /\ s.at = "link" => s.old.node = m_Tail.node
        /\ TailRead(s, m_Tail, pNext) /\ HeadRead(s, m_Head, m_Tail, pNext, elem)
        /\ EmptyRead(s, m_Head, pNext, wasEmpty'[t])
    BY <1>2, <1>3 DEF SameList, BeforeLink, Uncounted, TailRead, HeadRead, EmptyRead, InPop
  <1> QED
    BY <1>2, <1>3, <1>5, <1>6, <1>7, QuietStep

----------------------------------------------------------------------------
(* The tail moves on, or somebody else has moved it.                       *)

\* The next node of the tail is in the list of the queue, and not its head.
LEMMA NextOfTail ==
  ASSUME NEW next, NEW lists, Listed(next, lists), NEW head, NEW tail,
         Headed(head, tail, lists[End]), next[tail.node] # End
  PROVE  /\ next[tail.node] \in Nodes /\ IsIn(next[tail.node], lists[End])
         /\ next[tail.node] # head.node
  <1>1. /\ End \in Owners /\ lists[End] \in Seq(Nodes)
        /\ lists[End][1] = head.node /\ 1 \in DOMAIN lists[End]
    BY HeadIs
  <1>2. PICK a \in Nat : a = Len(lists[End]) /\ DOMAIN lists[End] = 1 .. a
    BY <1>1
  <1>3. PICK i \in 1 .. a : lists[End][i] = tail.node
    BY <1>2 DEF Headed, IsIn
  <1>4. next[tail.node] = IF i = a THEN End ELSE lists[End][i + 1]
    BY <1>1, <1>2, <1>3 DEF Listed, Linked
  <1>5. i + 1 \in 1 .. a /\ i + 1 # 1
    BY <1>3, <1>4
  <1>6. lists[End][i + 1] # lists[End][1]
    BY <1>1, <1>2, <1>5 DEF Listed, Apart
  <1>7. lists[End][i + 1] \in Nodes
    BY <1>1, <1>2, <1>5
  <1> QED
    BY <1>1, <1>2, <1>4, <1>5, <1>6, <1>7 DEF IsIn

TailGoesOn ==
  \/ m_Tail' = m_Tail
  \/ m_Tail' = Link(pNext[m_Tail.node], m_Tail.sequence + 1) /\ pNext[m_Tail.node] # End

OnlyTail == UNCHANGED <<m_Head, pNext, elem, m_FreeNodes, allocated, pushes, historyVars>>

CountFollows(from, to) ==
  m_Count' = m_Count + (IF from \in Uncounted THEN 1 ELSE 0) - (IF to \in Uncounted THEN 1 ELSE 0)

\* What holds of the next place of the thread.
TailDone(s, t) ==
  /\ s.at \in {"idle", "tail_sequence", "head_sequence"} /\ SameList(s, thread[t])
  /\ s.at = "head_sequence" => thread[t].at \in InPop
  /\ thread[t].at # "free" /\ CountFollows(thread[t].at, s.at)

LEMMA TailStep ==
  ASSUME TSInv, NEW t \in Threads, NEW s \in Place, Go(t, s), TailGoesOn, OnlyTail,
         TailDone(s, t)
  PROVE  TSInv'
  <1>1. Typed /\ thread \in [Threads -> Place] /\ thread' = Moved(thread, t, s)
    BY DEF TSInv, Typed, Go, Moved
  <1>2. /\ thread' \in [Threads -> Place] /\ thread'[t] = s
        /\ \A u \in Threads \ {t} : thread'[u] = thread[u]
    BY <1>1, MovedIs
  <1>3. /\ m_Head' = m_Head /\ pNext' = pNext
        /\ elem' = elem /\ m_FreeNodes' = m_FreeNodes /\ allocated' = allocated
        /\ pushes' = pushes /\ popped' = popped /\ reused' = reused
        /\ wasEmpty' = wasEmpty /\ lied' = lied
    BY DEF OnlyTail, historyVars
  <1>4. PICK lists, rank : Shape(lists, rank)
    BY DEF TSInv
  <1>5. Listed(pNext, lists) /\ Headed(m_Head, m_Tail, lists[End])
    BY <1>4 DEF Shape
  <1>6. /\ m_Tail' \in Links /\ IsIn(m_Tail'.node, lists[End])
        /\ \/ m_Tail' = m_Tail
           \/ m_Tail.sequence < m_Tail'.sequence /\ m_Tail'.node # m_Head.node
    <2>1. CASE m_Tail' = m_Tail
      BY <1>1, <1>5, <2>1 DEF Typed, Headed
    <2>2. CASE m_Tail' = Link(pNext[m_Tail.node], m_Tail.sequence + 1) /\ pNext[m_Tail.node] # End
      <3>1. m_Tail.sequence \in Nat
        BY Before
      <3>2. /\ m_Tail'.node = pNext[m_Tail.node] /\ m_Tail'.sequence = m_Tail.sequence + 1
        BY <2>2 DEF Link
      <3>3. /\ pNext[m_Tail.node] \in Nodes /\ IsIn(pNext[m_Tail.node], lists[End])
            /\ pNext[m_Tail.node] # m_Head.node
        BY <1>5, <2>2, NextOfTail
      <3>4. m_Tail' \in Links
        BY <2>2, <3>1, <3>3 DEF Link, Links
      <3>5. m_Tail.sequence < m_Tail'.sequence
        BY <3>1, <3>2
      <3> QED
        BY <3>2, <3>3, <3>4, <3>5
    <2> QED
      BY <2>1, <2>2 DEF TailGoesOn
  <1>7. Typed'
    BY <1>1, <1>2, <1>3, <1>6 DEF Typed
  <1>8. Shape(lists, rank)'
    <2>1. /\ Owned(thread, lists) /\ Ranked(thread, lists, rank)
          /\ Freed(thread, m_FreeNodes, allocated, lists)
          /\ Counted(m_Count, thread, lists) /\ Alone(thread, reused, lists)
          /\ Kept(pushes, popped, elem, Live(lists) \ {m_Head.node})
      BY <1>4 DEF Shape
    <2>2. ToQueue(s, lists) /\ SameList(s, thread[t]) /\ s.at # "free"
      BY DEF ToQueue, TailDone
    <2>3. /\ Owned(thread', lists) /\ Ranked(thread', lists, rank)
          /\ Freed(thread', m_FreeNodes, allocated, lists) /\ Alone(thread', reused, lists)
      BY <1>1, <1>5, <2>1, <2>2, ThreadGoesOn
    <2>4. Counted(m_Count', thread', lists)
      <3>1. m_Count \in Int
        BY <1>1, <2>1, CountIsInt
      <3>2. m_Count' = m_Count + 0 + (IF thread[t].at \in Uncounted THEN 1 ELSE 0)
              - (IF s.at \in Uncounted THEN 1 ELSE 0) + (IF s.at = "free" THEN 1 ELSE 0)
              - (IF thread[t].at = "free" THEN 1 ELSE 0)
        <4>1. PICK c \in Int, x \in {0, 1}, y \in {0, 1} :
                /\ c = m_Count
                /\ x = IF thread[t].at \in Uncounted THEN 1 ELSE 0
                /\ y = IF s.at \in Uncounted THEN 1 ELSE 0
          BY <3>1
        <4>2. m_Count' = c + x - y /\ s.at # "free" /\ thread[t].at # "free"
          BY <4>1 DEF TailDone, CountFollows
        <4>3. m_Count' = c + 0 + x - y + 0 - 0
          BY <4>1, <4>2
        <4> QED
          BY <4>1, <4>2, <4>3
      <3>3. /\ IsFiniteSet(Live(lists)) /\ 0 \in Int
            /\ Cardinality(Live(lists)) = Cardinality(Live(lists)) + 0
        BY LiveFinite
      <3> QED
        BY <1>1, <2>1, <3>2, <3>3, CountGoesOn
    <2>5. Headed(m_Head', m_Tail', lists[End])
      BY <1>3, <1>5, <1>6 DEF Headed
    <2> QED
      BY <1>3, <1>5, <2>1, <2>3, <2>4, <2>5 DEF Shape
  <1>9. ASSUME NEW u \in Threads PROVE Reads(u)'
    <2>1. CASE u = t
      <3>1. s.at = "head_sequence" /\ pNext[m_Head.node] = End => wasEmpty[t]
        BY Before DEF EmptyRead, TailDone
      <3>2. /\ TailRead(s, m_Tail', pNext) /\ HeadRead(s, m_Head, m_Tail', pNext, elem)
            /\ EmptyRead(s, m_Head, pNext, wasEmpty[t])
        BY <3>1 DEF TailRead, HeadRead, EmptyRead, InPop, TailDone
      <3> QED
        BY <1>2, <1>3, <2>1, <3>2 DEF Reads
    <2>2. CASE u # t
      <3>1. Onward(t, lists)
        BY <1>3, <1>6 DEF Onward
      <3>2. Reads(u) /\ thread'[u] = thread[u]
        BY <1>2, <2>2 DEF TSInv
      <3> QED
        BY <1>1, <1>5, <1>7, <2>2, <3>1, <3>2, OthersRead
    <2> QED
      BY <2>1, <2>2
  <1>10. NullOnlyIfEmpty'
    BY <1>3 DEF TSInv, NullOnlyIfEmpty
  <1> QED
    BY <1>7, <1>8, <1>9, <1>10 DEF TSInv

LEMMA FinishPushStep ==
  ASSUME TSInv, NEW t \in Threads, FinishPush(t)
  PROVE  TSInv'
  <1>1. PICK s : s = [at |-> "idle"]
    OBVIOUS
  <1>2. /\ thread[t].at = "finish" /\ Go(t, s) /\ m_Count' = m_Count + 1
        /\ m_Tail' = MovedTail(thread[t].node, thread[t].old)
        /\ OnlyTail
    BY <1>1 DEF FinishPush, OnlyTail, At, Idle
  <1>3. s.at = "idle" /\ s \in Place
    BY <1>1 DEF Place
  <1>4. thread[t].node \in Nodes
    BY <1>2, Before, PlaceIs
  <1>5. TailGoesOn
    BY <1>2, <1>4, Before, Addresses DEF TailGoesOn, MovedTail, TailRead
  <1>6. CountFollows(thread[t].at, s.at)
    <2>1. thread[t].at \in Uncounted /\ s.at \notin Uncounted
      BY <1>2, <1>3 DEF Uncounted, BeforeLink
    <2>2. PICK c \in Int : c = m_Count
      BY CountIsInt DEF TSInv, Typed, Shape
    <2> QED
      BY <1>2, <2>1, <2>2 DEF CountFollows
  <1>7. SameList(s, thread[t])
    BY <1>2, <1>3 DEF SameList, BeforeLink
  <1> QED
    BY <1>2, <1>3, <1>5, <1>6, <1>7, TailStep DEF TailDone

LEMMA HelpPushStep ==
  ASSUME TSInv, NEW t \in Threads, HelpPush(t)
  PROVE  TSInv'
  <1>1. PICK s : s = [at |-> "tail_sequence", node |-> thread[t].node]
    OBVIOUS
  <1>2. /\ thread[t].at = "finish_other" /\ Go(t, s) /\ m_Count' = m_Count
        /\ m_Tail' = MovedTail(thread[t].other, thread[t].old)
        /\ OnlyTail
    BY <1>1 DEF HelpPush, OnlyTail, At
  <1>3. thread[t].node \in Nodes
    BY <1>2, Before, PlaceIs DEF BeforeLink
  <1>4. s.at = "tail_sequence" /\ s.node = thread[t].node /\ s \in Place
    BY <1>1, <1>3 DEF Place
  <1>5. TailGoesOn
    BY <1>2, Before DEF TailGoesOn, MovedTail, TailRead
  <1>6. CountFollows(thread[t].at, s.at)
    <2>1. thread[t].at \in Uncounted /\ s.at \in Uncounted
      BY <1>2, <1>4 DEF Uncounted, BeforeLink
    <2>2. m_Count \in Int
      BY CountIsInt DEF TSInv, Typed, Shape
    <2>3. \A c \in Int : c = c + 1 - 1
      OBVIOUS
    <2>4. m_Count = m_Count + 1 - 1
      BY <2>2, <2>3
    <2> QED
      BY <1>2, <2>1, <2>4, Zenon DEF CountFollows
  <1>7. SameList(s, thread[t])
    BY <1>2, <1>4 DEF SameList, BeforeLink
  <1> QED
    BY <1>2, <1>4, <1>5, <1>6, <1>7, TailStep DEF TailDone

LEMMA FinishForPopStep ==
  ASSUME TSInv, NEW t \in Threads, FinishForPop(t)
  PROVE  TSInv'
  <1>1. PICK s : s = [at |-> "head_sequence"]
    OBVIOUS
  <1>2. /\ thread[t].at = "finish_for_pop" /\ Go(t, s) /\ m_Count' = m_Count
        /\ m_Tail' = MovedTail(thread[t].other, thread[t].old)
        /\ OnlyTail
    BY <1>1 DEF FinishForPop, OnlyTail, At, Again
  <1>3. s.at = "head_sequence" /\ s \in Place
    BY <1>1 DEF Place
  <1>4. TailGoesOn
    BY <1>2, Before DEF TailGoesOn, MovedTail, TailRead
  <1>5. CountFollows(thread[t].at, s.at)
    <2>1. thread[t].at \notin Uncounted /\ s.at \notin Uncounted
      BY <1>2, <1>3 DEF Uncounted, BeforeLink
    <2>2. m_Count \in Int
      BY CountIsInt DEF TSInv, Typed, Shape
    <2>3. \A c \in Int : c = c + 0 - 0
      OBVIOUS
    <2>4. m_Count = m_Count + 0 - 0
      BY <2>2, <2>3
    <2> QED
      BY <1>2, <2>1, <2>4, Zenon DEF CountFollows
  <1>6. SameList(s, thread[t]) /\ thread[t].at \in InPop
    BY <1>2, <1>3 DEF SameList, BeforeLink, InPop
  <1> QED
    BY <1>2, <1>3, <1>4, <1>5, <1>6, TailStep DEF TailDone

----------------------------------------------------------------------------
(* FreeNode.                                                               *)

LEMMA KeptSame ==
  ASSUME NEW begun, NEW out, NEW el, NEW in, Kept(begun, out, el, in),
         NEW el2, \A n \in in : el2[n] = el[n]
  PROVE  Kept(begun, out, el2, in)
  BY DEF Kept

\* One more on top of the free nodes.
OnTop(n, free) == <<n>> \o free

LEMMA OnTopIs ==
  ASSUME NEW free \in Seq(Nodes), NEW n \in Nodes
  PROVE  /\ OnTop(n, free) \in Seq(Nodes) /\ OnTop(n, free)[1] = n
         /\ \A i \in DOMAIN OnTop(n, free) :
              i \in Nat /\ (i # 1 => i - 1 \in DOMAIN free /\ OnTop(n, free)[i] = free[i - 1])
  <1>0. PICK more : more = OnTop(n, free)
    OBVIOUS
  <1>1. PICK a \in Nat : a = Len(free) /\ more = OnTop(n, free)
    BY <1>0
  <1>2. /\ more \in Seq(Nodes) /\ DOMAIN more = 1 .. a + 1
        /\ \A i \in 1 .. a + 1 : more[i] = IF i <= 1 THEN n ELSE free[i - 1]
    BY <1>1 DEF OnTop
  <1>3. DOMAIN free = 1 .. a
    BY <1>1
  <1>4. more[1] = n
    BY <1>2
  <1>5. ASSUME NEW i \in 1 .. a + 1
        PROVE  i \in Nat /\ (i # 1 => i - 1 \in 1 .. a /\ more[i] = free[i - 1])
    BY <1>2
  <1> QED
    BY <1>1, <1>2, <1>3, <1>4, <1>5

LEMMA FreedMore ==
  ASSUME NEW thr, NEW free, NEW count, NEW lists, Freed(thr, free, count, lists),
         NEW n \in Nodes, n < count, n \notin Live(lists), ~IsIn(n, free),
         \A u \in Threads : thr[u].at = "free" => thr[u].node # n
  PROVE  Freed(thr, OnTop(n, free), count, lists)
  <1>1. free \in Seq(Nodes) /\ \A i \in DOMAIN free : free[i] # n
    BY DEF Freed, IsIn
  <1>2. PICK more : more = OnTop(n, free)
    OBVIOUS
  <1>3. /\ more \in Seq(Nodes) /\ more[1] = n
        /\ \A i \in DOMAIN more :
             i \in Nat /\ (i # 1 => i - 1 \in DOMAIN free /\ more[i] = free[i - 1])
    BY <1>1, <1>2, OnTopIs
  <1>4. ASSUME NEW i \in DOMAIN more, NEW k \in DOMAIN more, more[i] = more[k]
        PROVE  i = k
    <2>1. CASE i = 1 \/ k = 1
      BY <1>1, <1>3, <1>4, <2>1
    <2>2. CASE i # 1 /\ k # 1
      <3>1. free[i - 1] = free[k - 1] /\ i - 1 \in DOMAIN free /\ k - 1 \in DOMAIN free
        BY <1>3, <1>4, <2>2
      <3>2. i - 1 = k - 1
        BY <3>1 DEF Freed
      <3> QED
        BY <1>3, <3>2
    <2> QED
      BY <2>1, <2>2
  <1>5. ASSUME NEW i \in DOMAIN more
        PROVE  more[i] < count /\ more[i] \notin Live(lists)
    BY <1>3 DEF Freed
  <1>6. ASSUME NEW u \in Threads, thr[u].at = "free"
        PROVE  ~IsIn(thr[u].node, more)
    <2>1. thr[u].node # n /\ ~IsIn(thr[u].node, free)
      BY <1>6 DEF Freed
    <2> QED
      BY <1>3, <2>1 DEF IsIn
  <1>7. Freed(thr, more, count, lists)
    BY <1>3, <1>4, <1>5, <1>6 DEF Freed
  <1> QED
    BY <1>2, <1>7

LEMMA FreeNodeStep ==
  ASSUME TSInv, NEW t \in Threads, FreeNode(t)
  PROVE  TSInv'
  <1>1. PICK s : s = [at |-> "idle"]
    OBVIOUS
  <1>2. PICK n, x : /\ n = thread[t].node
                    /\ x = IF m_FreeNodes = <<>> THEN NULL ELSE Head(m_FreeNodes)
    OBVIOUS
  <1>3. /\ thread[t].at = "free" /\ thread' = Moved(thread, t, s) /\ m_Count' = m_Count - 1
        /\ elem' = [elem EXCEPT ![n] = thread[t].elem] /\ pNext' = [pNext EXCEPT ![n] = x]
        /\ m_FreeNodes' = OnTop(n, m_FreeNodes)
        /\ m_Head' = m_Head /\ m_Tail' = m_Tail /\ allocated' = allocated
        /\ pushes' = pushes /\ popped' = popped /\ wasEmpty' = wasEmpty
        /\ lied' = lied /\ reused' = reused
    BY <1>1, <1>2 DEF FreeNode, At, Go, Moved, Idle, OnTop, historyVars
  <1>4. s.at = "idle" /\ s \in Place
    BY <1>1 DEF Place
  <1>5. Typed /\ thread \in [Threads -> Place]
    BY DEF TSInv, Typed
  <1>6. /\ thread' \in [Threads -> Place] /\ thread'[t] = s
        /\ \A u \in Threads \ {t} : thread'[u] = thread[u]
    BY <1>3, <1>4, <1>5, MovedIs
  <1>7. PICK lists, rank : Shape(lists, rank)
    BY DEF TSInv
  <1>8. /\ Listed(pNext, lists) /\ Headed(m_Head, m_Tail, lists[End])
        /\ Owned(thread, lists) /\ Ranked(thread, lists, rank)
        /\ Freed(thread, m_FreeNodes, allocated, lists)
        /\ Counted(m_Count, thread, lists) /\ Alone(thread, reused, lists)
        /\ Kept(pushes, popped, elem, Live(lists) \ {m_Head.node})
    BY <1>7 DEF Shape
  <1>9. n \in Nodes /\ thread[t].elem \in Element
    BY <1>2, <1>3, Before, PlaceIs
  <1>10. x \in Address /\ x # End
    <2>1. m_FreeNodes \in Seq(Nodes)
      BY <1>8 DEF Freed
    <2>2. m_FreeNodes # <<>> => Head(m_FreeNodes) \in Nodes
      BY <2>1
    <2> QED
      BY <1>2, <2>2, Addresses DEF Address
  <1>11. Typed'
    BY <1>3, <1>5, <1>6, <1>9, <1>10 DEF Typed
  <1>12. /\ n < allocated /\ n \notin Live(lists) /\ ~IsIn(n, m_FreeNodes)
         /\ \A u \in Threads \ {t} : thread[u].at = "free" => thread[u].node # n
    BY <1>2, <1>3, <1>8 DEF Freed
  <1>13. \A m \in Live(lists) : pNext'[m] = pNext[m] /\ elem'[m] = elem[m]
    BY <1>3, <1>5, <1>12 DEF Typed, Live
  <1>14. Shape(lists, rank)'
    <2>1. Listed(pNext', lists)
      BY <1>3, <1>5, <1>8, <1>9, <1>10, <1>12, ListsStay DEF Typed
    <2>2. ToQueue(s, lists) /\ SameList(s, thread[t]) /\ s.at # "free"
      BY <1>3, <1>4 DEF ToQueue, SameList, BeforeLink
    <2>3. /\ Owned(thread', lists) /\ Ranked(thread', lists, rank)
          /\ Freed(thread', m_FreeNodes, allocated, lists) /\ Alone(thread', reused, lists)
      BY <1>3, <1>5, <1>8, <2>2, ThreadGoesOn
    <2>4. \A u \in Threads : thread'[u].at = "free" => thread'[u].node # n
      BY <1>4, <1>6, <1>12
    <2>5. Freed(thread', m_FreeNodes', allocated, lists)
      BY <1>3, <1>9, <1>12, <2>3, <2>4, FreedMore
    <2>6. Counted(m_Count', thread', lists)
      <3>1. PICK c \in Int : c = m_Count
        BY <1>5, <1>8, CountIsInt
      <3>2. s.at \notin Uncounted /\ thread[t].at \notin Uncounted
        BY <1>3, <1>4 DEF Uncounted, BeforeLink
      <3>3. m_Count' = c + 0 + 0 - 0 + 0 - 1
        BY <1>3, <3>1
      <3>4. m_Count' = m_Count + 0 + (IF thread[t].at \in Uncounted THEN 1 ELSE 0)
              - (IF s.at \in Uncounted THEN 1 ELSE 0) + (IF s.at = "free" THEN 1 ELSE 0)
              - (IF thread[t].at = "free" THEN 1 ELSE 0)
        BY <1>3, <1>4, <3>1, <3>2, <3>3
      <3>5. /\ IsFiniteSet(Live(lists)) /\ 0 \in Int
            /\ Cardinality(Live(lists)) = Cardinality(Live(lists)) + 0
        BY LiveFinite
      <3> QED
        BY <1>3, <1>5, <1>8, <3>4, <3>5, CountGoesOn
    <2>7. Kept(pushes, popped, elem', Live(lists) \ {m_Head.node})
      BY <1>8, <1>13, KeptSame
    <2> QED
      BY <1>3, <1>8, <2>1, <2>3, <2>5, <2>6, <2>7 DEF Shape
  <1>15. ASSUME NEW u \in Threads PROVE Reads(u)'
    <2>1. CASE u = t
      BY <1>4, <1>6, <2>1 DEF Reads, TailRead, HeadRead, EmptyRead, InPop
    <2>2. CASE u # t
      <3>1. pNext'[m_Head.node] = pNext[m_Head.node]
        BY <1>8, <1>13, HeadIs
      <3>2. Onward(t, lists)
        BY <1>3, <1>13, <3>1 DEF Onward
      <3>3. Reads(u) /\ thread'[u] = thread[u]
        BY <1>6, <2>2 DEF TSInv
      <3> QED
        BY <1>5, <1>8, <1>11, <2>2, <3>2, <3>3, OthersRead
    <2> QED
      BY <2>1, <2>2
  <1>16. NullOnlyIfEmpty'
    BY <1>3 DEF TSInv, NullOnlyIfEmpty
  <1> QED
    BY <1>11, <1>14, <1>15, <1>16 DEF TSInv

----------------------------------------------------------------------------
(* PushItem.                                                               *)

LEMMA SeqIn ==
  ASSUME NEW P, NEW Q, P \subseteq Q, NEW s \in Seq(P)
  PROVE  s \in Seq(Q)
  OBVIOUS

\* One more item.
LEMMA KeptPush ==
  ASSUME NEW begun \in [Threads -> 0 .. MaxPushes], NEW out, NEW el \in [Nodes -> Element], NEW in,
         Kept(begun, out, el, in), in \subseteq Nodes,
         NEW t \in Threads, begun[t] < MaxPushes, NEW n \in Nodes, n \notin in,
         NEW begun2, begun2 = [begun EXCEPT ![t] = @ + 1],
         NEW el2, el2 = [el EXCEPT ![n] = <<t, begun[t] + 1>>]
  PROVE  Kept(begun2, out, el2, in \cup {n}) /\ <<t, begun[t] + 1>> \in Items
  <1>1. PICK item, k : k = begun[t] + 1 /\ item = <<t, k>>
    OBVIOUS
  <1>2. item \in Items /\ k \in 1 .. MaxPushes /\ k \in Nat /\ begun[t] \in Nat /\ ~(k <= begun[t])
    BY <1>1, BoundsAssumption DEF Items
  <1>3. \A x \in Items : x = item <=> x[1] = t /\ x[2] = k
    BY <1>1 DEF Items
  <1>4. ASSUME NEW x \in Items
        PROVE  x \in Pushed(begun2) <=> x \in Pushed(begun) \/ x = item
    <2>1. PICK u \in Threads, j \in 1 .. MaxPushes : u = x[1] /\ j = x[2]
      BY DEF Items
    <2>2. CASE u = t
      <3>1. begun2[u] = k
        BY <1>1, <2>2
      <3>2. j <= k <=> j <= begun[t] \/ j = k
        BY <1>1, <1>2, <2>1
      <3> QED
        BY <1>3, <2>1, <2>2, <3>1, <3>2 DEF Pushed
    <2>3. CASE u # t
      <3>1. begun2[u] = begun[u]
        BY <2>3
      <3> QED
        BY <1>3, <2>1, <2>3, <3>1 DEF Pushed
    <2> QED
      BY <2>2, <2>3
  <1>5. Pushed(begun2) = Pushed(begun) \cup {item} /\ item \notin Pushed(begun)
    <2>1. Pushed(begun2) \subseteq Items /\ Pushed(begun) \subseteq Items
      BY DEF Pushed
    <2>2. item \notin Pushed(begun)
      BY <1>1, <1>2 DEF Pushed
    <2> QED
      BY <1>2, <1>4, <2>1, <2>2
  <1>6. el2[n] = item /\ \A m \in in : el2[m] = el[m] /\ m # n
    BY <1>1
  <1>7. out \in Seq(Pushed(begun)) /\ out \in Seq(Pushed(begun2))
    BY <1>5, SeqIn DEF Kept
  <1>8. \A i \in DOMAIN out : out[i] # item
    BY <1>5, <1>7
  <1>9. \A m \in in : el2[m] \in Pushed(begun) /\ el2[m] # item
    BY <1>5, <1>6 DEF Kept
  <1>10. \A m \in in \cup {n} : el2[m] \in Pushed(begun2)
    BY <1>5, <1>6, <1>9
  <1>11. \A m, p \in in \cup {n} : el2[m] = el2[p] => m = p
    BY <1>6, <1>9 DEF Kept
  <1>12. \A i \in DOMAIN out, m \in in \cup {n} : out[i] # el2[m]
    BY <1>6, <1>8 DEF Kept
  <1>13. \A x \in Pushed(begun2) : IsIn(x, out) \/ \E m \in in \cup {n} : el2[m] = x
    BY <1>5, <1>6 DEF Kept
  <1>14. \A i, j \in DOMAIN out : out[i] = out[j] => i = j
    BY DEF Kept
  <1>15. Kept(begun2, out, el2, in \cup {n})
    BY <1>7, <1>10, <1>11, <1>12, <1>13, <1>14 DEF Kept
  <1> QED
    BY <1>1, <1>2, <1>15

\* A node is taken from the free ones, or is new.
LEMMA FreedLess ==
  ASSUME NEW thr \in [Threads -> Place], NEW free, NEW count, NEW lists,
         Freed(thr, free, count, lists),
         NEW n \in Nodes, n = IF free # <<>> THEN Head(free) ELSE count,
         NEW free2, free2 = IF free # <<>> THEN Tail(free) ELSE <<>>,
         NEW count2, count2 = IF free # <<>> THEN count ELSE count + 1,
         NEW lists2, Live(lists2) = Live(lists) \cup {n}
  PROVE  Freed(thr, free2, count2, lists2) /\ n \notin Live(lists)
  <1>1. free \in Seq(Nodes) /\ count \in 1 .. MaxNodes
    BY DEF Freed
  <1>2. \A m \in Nodes : m \in Nat /\ m <= MaxNodes - 1
    BY BoundsAssumption DEF Nodes
  <1>3. CASE free # <<>>
    <2>0. PICK rest : rest = Tail(free)
      OBVIOUS
    <2>1. PICK a \in Nat \ {0} : a = Len(free) /\ DOMAIN free = 1 .. a /\ rest = Tail(free)
      BY <1>1, <1>3, <2>0
    <2>2. /\ rest \in Seq(Nodes) /\ DOMAIN rest = 1 .. a - 1 /\ free[1] = n
          /\ \A i \in 1 .. a - 1 : rest[i] = free[i + 1]
      BY <1>1, <1>3, <2>1
    <2>3. 1 \in DOMAIN free /\ \A i \in 1 .. a - 1 : i + 1 \in DOMAIN free /\ i + 1 # 1
      BY <2>1
    <2>4. n < count /\ n \notin Live(lists) /\ IsIn(n, free)
      BY <2>2, <2>3 DEF Freed, IsIn
    <2>5. \A i \in 1 .. a - 1 : rest[i] # n /\ rest[i] < count /\ rest[i] \notin Live(lists)
      BY <2>2, <2>3 DEF Freed
    <2>6. ASSUME NEW i \in 1 .. a - 1, NEW k \in 1 .. a - 1, rest[i] = rest[k]
          PROVE  i = k
      <3>1. i + 1 = k + 1
        BY <2>2, <2>3, <2>6 DEF Freed
      <3> QED
        BY <3>1
    <2>7. ASSUME NEW u \in Threads, thr[u].at = "free"
          PROVE  ~IsIn(thr[u].node, rest) /\ thr[u].node # n
      <3>1. ~IsIn(thr[u].node, free)
        BY <2>7 DEF Freed
      <3> QED
        BY <2>2, <2>3, <2>4, <3>1 DEF IsIn
    <2>8. free2 = rest /\ count2 = count
      BY <1>3, <2>1
    <2>9. Freed(thr, rest, count, lists2)
      BY <1>1, <2>2, <2>4, <2>5, <2>6, <2>7 DEF Freed
    <2> QED
      BY <2>4, <2>8, <2>9
  <1>4. CASE free = <<>>
    <2>1. n = count /\ free2 = <<>> /\ count2 = count + 1
      BY <1>4
    <2>2. count2 \in 1 .. MaxNodes
      <3>1. count \in Int /\ count >= 1 /\ count <= MaxNodes - 1 /\ MaxNodes \in Int
        BY <1>1, <1>2, <2>1, BoundsAssumption
      <3> QED
        BY <2>1, <3>1
    <2>3. n \notin Live(lists)
      BY <1>1, <2>1 DEF Freed
    <2>4. \A m \in Nodes : m < count => m < count2 /\ m # n
      BY <1>1, <1>2, <2>1
    <2>5. n < count2
      BY <1>1, <2>1
    <2>6. \A m \in Live(lists2) : m \in Nodes /\ m < count2
      BY <2>4, <2>5 DEF Freed, Live
    <2>7. ASSUME NEW u \in Threads, thr[u].at = "free"
          PROVE  thr[u].node < count2 /\ thr[u].node # n
      <3>1. thr[u].node < count /\ thr[u].node \in Nodes
        BY <2>7, PlaceIs DEF Freed
      <3> QED
        BY <2>1, <2>4, <3>1
    <2>8. DOMAIN free2 = {} /\ free2 \in Seq(Nodes)
      BY <2>1
    <2>9. \A u \in Threads : thr[u].at = "free" =>
            /\ thr[u].node \notin Live(lists)
            /\ \A v \in Threads : thr[v].at = "free" /\ thr[v].node = thr[u].node => v = u
      BY DEF Freed
    <2>10. \A u \in Threads : ~IsIn(thr[u].node, free2)
      BY <2>8 DEF IsIn
    <2> QED
      BY <2>2, <2>3, <2>6, <2>7, <2>8, <2>9, <2>10 DEF Freed
  <1> QED
    BY <1>3, <1>4

LEMMA FreedTaken ==
  ASSUME NEW thr, NEW free, NEW count, NEW lists, Freed(thr, free, count, lists),
         NEW n \in Nodes, n = IF free # <<>> THEN Head(free) ELSE count
  PROVE  n \notin Live(lists)
  <1>1. free \in Seq(Nodes) /\ count \in 1 .. MaxNodes
    BY DEF Freed
  <1>2. CASE free # <<>>
    <2>1. 1 \in DOMAIN free /\ free[1] = n
      BY <1>1, <1>2
    <2> QED
      BY <2>1 DEF Freed
  <1>3. CASE free = <<>>
    <2>1. n = count /\ ~(n < count)
      BY <1>1, <1>3
    <2> QED
      BY <2>1 DEF Freed
  <1> QED
    BY <1>2, <1>3

\* The thread that begins its push comes before all others.
First(t, rank) == [u \in Threads |-> IF u = t THEN 0 ELSE rank[u] + 1]

LEMMA RankedPush ==
  ASSUME NEW thr, NEW t \in Threads, NEW lists, NEW rank, Ranked(thr, lists, rank),
         NEW n, NEW thr2, thr2[t].at = "tail_sequence",
         \A u \in Threads \ {t} : thr2[u] = thr[u], NEW lists2,
         \A u \in Threads \ {t} : lists2[u] = lists[u]
  PROVE  Ranked(thr2, lists2, First(t, rank))
  <1>1. rank \in [Threads -> Nat]
    BY DEF Ranked
  <1>2. First(t, rank) \in [Threads -> Nat]
    <2>1. \A u \in Threads : (IF u = t THEN 0 ELSE rank[u] + 1) \in Nat
      BY <1>1
    <2> QED
      BY <2>1, Zenon DEF First
  <1>3. ASSUME NEW a \in Threads, NEW u \in Threads, thr2[a].at = "link",
               IsIn(thr2[a].old.node, lists2[u])
        PROVE  First(t, rank)[u] < First(t, rank)[a]
    <2>1. a # t /\ rank[a] \in Nat /\ rank[u] \in Nat
      BY <1>1, <1>3
    <2>2. CASE u = t
      <3>1. First(t, rank)[u] = 0 /\ First(t, rank)[a] = rank[a] + 1
        BY <2>1, <2>2 DEF First
      <3>2. \A k \in Nat : 0 < k + 1
        OBVIOUS
      <3> QED
        BY <2>1, <3>1, <3>2
    <2>3. CASE u # t
      <3>1. rank[u] < rank[a]
        BY <1>3, <2>1, <2>3 DEF Ranked
      <3>2. First(t, rank)[u] = rank[u] + 1 /\ First(t, rank)[a] = rank[a] + 1
        BY <2>1, <2>3 DEF First
      <3>3. \A j, k \in Nat : j < k => j + 1 < k + 1
        OBVIOUS
      <3> QED
        BY <2>1, <3>1, <3>2, <3>3
    <2> QED
      BY <2>2, <2>3
  <1> QED
    BY <1>2, <1>3 DEF Ranked

LEMMA PushItemStep ==
  ASSUME TSInv, NEW t \in Threads, PushItem(t)
  PROVE  TSInv'
  <1>1. PICK n : n = IF m_FreeNodes # <<>> THEN Head(m_FreeNodes) ELSE allocated
    OBVIOUS
  <1>2. PICK s : s = [at |-> "tail_sequence", node |-> n]
    OBVIOUS
  <1>3. /\ thread[t].at = "idle" /\ n \in Nodes /\ thread' = Moved(thread, t, s)
        /\ m_Head' = m_Head /\ m_Tail' = m_Tail /\ m_Count' = m_Count /\ popped' = popped
        /\ wasEmpty' = wasEmpty /\ lied' = lied
    BY <1>1, <1>2 DEF PushItem, At, Go, Moved
  <1>3a. /\ m_FreeNodes' = IF m_FreeNodes # <<>> THEN Tail(m_FreeNodes) ELSE <<>>
         /\ allocated' = IF m_FreeNodes # <<>> THEN allocated ELSE allocated + 1
    BY DEF PushItem
  <1>3b. pNext' = [pNext EXCEPT ![n] = End]
    BY <1>1 DEF PushItem
  <1>3c. /\ elem' = [elem EXCEPT ![n] = <<t, pushes[t] + 1>>]
         /\ pushes' = [pushes EXCEPT ![t] = @ + 1] /\ pushes[t] < MaxPushes
    BY <1>1 DEF PushItem
  <1>3d. reused' = (reused \/ \E u \in Threads \ {t} : AboutToLink(u, n))
    BY <1>1 DEF PushItem
  <1>4. s.at = "tail_sequence" /\ s.node = n /\ s \in Place
    BY <1>2, <1>3 DEF Place
  <1>5. Typed /\ thread \in [Threads -> Place]
    BY DEF TSInv, Typed
  <1>6. /\ thread' \in [Threads -> Place] /\ thread'[t] = s
        /\ \A u \in Threads \ {t} : thread'[u] = thread[u]
    BY <1>3, <1>4, <1>5, MovedIs
  <1>7. PICK lists, rank : Shape(lists, rank)
    BY DEF TSInv
  <1>8. /\ Listed(pNext, lists) /\ Headed(m_Head, m_Tail, lists[End])
        /\ Owned(thread, lists) /\ Ranked(thread, lists, rank)
        /\ Freed(thread, m_FreeNodes, allocated, lists)
        /\ Counted(m_Count, thread, lists) /\ Alone(thread, reused, lists)
        /\ Kept(pushes, popped, elem, Live(lists) \ {m_Head.node})
    BY <1>7 DEF Shape
  <1>9. PICK new : new = Starting(lists, t, n)
    OBVIOUS
  <1>10. t \in Owners /\ End \in Owners /\ t # End /\ lists \in [Owners -> Seq(Nodes)]
    BY <1>8, Addresses DEF Owners, Listed
  <1>11. new[t] = <<n>> /\ \A l \in Owners : l # t => new[l] = lists[l]
    BY <1>9, <1>10 DEF Starting
  <1>12. n \notin Live(lists) /\ Freed(thread, m_FreeNodes', allocated', new)
         /\ Listed(pNext', new) /\ Live(new) = Live(lists) \cup {n}
    <2>1. n \notin Live(lists)
      BY <1>1, <1>3, <1>3a, <1>5, <1>8, FreedTaken
    <2>2. lists[t] = <<>>
      BY <1>3, <1>8 DEF Owned, BeforeLink
    <2>3. Listed(pNext', new) /\ Live(new) = Live(lists) \cup {n}
      <3>1. pNext \in [Nodes -> Address] /\ pNext' = Relinked(pNext, n, End)
        BY <1>3b, <1>5 DEF Typed, Relinked
      <3> QED
        BY <1>3, <1>8, <1>9, <2>1, <2>2, <3>1, ListStarts
    <2>4. Freed(thread, m_FreeNodes', allocated', new)
      BY <1>1, <1>3, <1>3a, <1>5, <1>8, <2>3, FreedLess
    <2> QED
      BY <2>1, <2>3, <2>4
  <1>13. m_Head.node \in Live(lists)
    BY <1>8, HeadIs
  <1>14. /\ Kept(pushes', popped, elem', (Live(lists) \ {m_Head.node}) \cup {n})
         /\ <<t, pushes[t] + 1>> \in Items
    <2>1. PICK in : in = Live(lists) \ {m_Head.node}
      OBVIOUS
    <2>2. in \subseteq Nodes /\ n \notin in /\ Kept(pushes, popped, elem, in)
      BY <1>8, <1>12, <2>1 DEF Live
    <2>3. /\ Kept(pushes', popped, elem', in \cup {n})
          /\ <<t, pushes[t] + 1>> \in Items
      BY <1>3, <1>3c, <1>5, <2>2, KeptPush DEF Typed
    <2> QED
      BY <2>1, <2>3
  <1>15. Typed'
    <2>1. pushes' \in [Threads -> 0 .. MaxPushes]
      <3>1. pushes[t] \in 0 .. MaxPushes /\ pushes \in [Threads -> 0 .. MaxPushes]
        BY <1>5 DEF Typed
      <3>2. pushes[t] + 1 \in 0 .. MaxPushes
        BY <1>3c, <3>1, BoundsAssumption
      <3> QED
        BY <1>3c, <3>1, <3>2
    <2>2. elem' \in [Nodes -> Element] /\ pNext' \in [Nodes -> Address]
      BY <1>3, <1>3b, <1>3c, <1>5, <1>14 DEF Typed, Element, Address
    <2> QED
      BY <1>3, <1>5, <1>6, <2>1, <2>2 DEF Typed
  <1>16. \A m \in Live(lists) : pNext'[m] = pNext[m] /\ elem'[m] = elem[m]
    BY <1>3, <1>3b, <1>3c, <1>5, <1>12 DEF Typed, Live
  <1>17. Shape(new, First(t, rank))'
    <2>1. Headed(m_Head, m_Tail, new[End])
      BY <1>8, <1>10, <1>11
    <2>2. Owned(thread', new)
      <3>1. new[t] # <<>> /\ new[t][1] = n
        BY <1>11
      <3> QED
        BY <1>4, <1>6, <1>8, <1>11, <3>1 DEF Owned, Owners, BeforeLink
    <2>3. \A u \in Threads \ {t} : new[u] = lists[u]
      BY <1>11 DEF Owners
    <2>4. Ranked(thread', new, First(t, rank))
      BY <1>4, <1>6, <1>8, <2>3, RankedPush
    <2>5. Freed(thread', m_FreeNodes', allocated', new)
      BY <1>4, <1>6, <1>12 DEF Freed
    <2>6. Alone(thread', reused', new)
      <3> SUFFICES ASSUME ~reused', NEW u \in Threads
                   PROVE  /\ Len(new[u]) <= 1
                          /\ thread'[u].at = "link" =>
                               \A v \in Threads : ~IsIn(thread'[u].old.node, new[v])
        BY DEF Alone
      <3>1. ~reused /\ \A v \in Threads \ {t} : ~AboutToLink(v, n)
        BY <1>3d
      <3>2. Len(new[t]) = 1 /\ DOMAIN new[t] = {1} /\ new[t][1] = n
        BY <1>11
      <3>3. Len(new[u]) <= 1
        <4>1. u # t => Len(lists[u]) <= 1 /\ new[u] = lists[u]
          BY <1>8, <2>3, <3>1 DEF Alone
        <4>2. Len(new[t]) <= 1
          BY <3>2
        <4> QED
          BY <4>1, <4>2
      <3>4. ASSUME thread'[u].at = "link", NEW v \in Threads
            PROVE  ~IsIn(thread'[u].old.node, new[v])
        <4>1. u # t /\ thread'[u] = thread[u]
          BY <1>4, <1>6, <3>4
        <4>2. CASE v = t
          BY <3>1, <3>2, <3>4, <4>1, <4>2 DEF IsIn, AboutToLink, At
        <4>3. CASE v # t
          BY <1>8, <2>3, <3>1, <3>4, <4>1, <4>3 DEF Alone
        <4> QED
          BY <4>2, <4>3
      <3> QED
        BY <3>3, <3>4
    <2>7. Counted(m_Count', thread', new)
      <3>1. PICK c \in Int : c = m_Count
        BY <1>5, <1>8, CountIsInt
      <3>2. s.at \in Uncounted /\ thread[t].at \notin Uncounted
        BY <1>3, <1>4 DEF Uncounted, BeforeLink
      <3>3. m_Count' = c + 1 + 0 - 1 + 0 - 0
        BY <1>3, <3>1
      <3>4. m_Count' = m_Count + 1 + (IF thread[t].at \in Uncounted THEN 1 ELSE 0)
              - (IF s.at \in Uncounted THEN 1 ELSE 0) + (IF s.at = "free" THEN 1 ELSE 0)
              - (IF thread[t].at = "free" THEN 1 ELSE 0)
        BY <1>3, <1>4, <3>1, <3>2, <3>3
      <3>5. /\ IsFiniteSet(Live(lists)) /\ 1 \in Int
            /\ Cardinality(Live(new)) = Cardinality(Live(lists)) + 1
        <4>1. IsFiniteSet(Live(lists)) /\ Cardinality(Live(lists)) \in Nat
          BY LiveFinite
        <4>2. Cardinality(Live(lists) \cup {n}) = Cardinality(Live(lists)) + 1
          BY <1>12, <4>1, FS_AddElement
        <4> QED
          BY <1>12, <4>1, <4>2
      <3> QED
        BY <1>3, <1>5, <1>8, <3>4, <3>5, CountGoesOn
    <2>8. Kept(pushes', popped, elem', Live(new) \ {m_Head.node})
      <3>1. Live(new) \ {m_Head.node} = (Live(lists) \ {m_Head.node}) \cup {n}
        BY <1>12, <1>13
      <3> QED
        BY <1>14, <3>1
    <2> QED
      BY <1>3, <1>12, <2>1, <2>2, <2>4, <2>5, <2>6, <2>7, <2>8 DEF Shape
  <1>18. ASSUME NEW u \in Threads PROVE Reads(u)'
    <2>1. CASE u = t
      BY <1>4, <1>6, <2>1 DEF Reads, TailRead, HeadRead, EmptyRead, InPop
    <2>2. CASE u # t
      <3>1. pNext'[m_Head.node] = pNext[m_Head.node]
        BY <1>13, <1>16
      <3>2. Onward(t, lists)
        BY <1>3, <1>16, <3>1 DEF Onward
      <3>3. Reads(u) /\ thread'[u] = thread[u]
        BY <1>6, <2>2 DEF TSInv
      <3> QED
        BY <1>5, <1>8, <1>15, <2>2, <3>2, <3>3, OthersRead
    <2> QED
      BY <2>1, <2>2
  <1>19. NullOnlyIfEmpty'
    BY <1>3 DEF TSInv, NullOnlyIfEmpty
  <1> QED
    BY <1>15, <1>17, <1>18, <1>19 DEF TSInv

----------------------------------------------------------------------------
(* LinkNode.                                                               *)

\* The list of a thread is behind that of l: where the threads are, and what is
\* where, for the next state.
LEMMA JoinedIs ==
  ASSUME NEW lists, lists \in [Owners -> Seq(Nodes)], NEW t \in Threads,
         NEW l \in Owners, l # t, NEW new, new = JoinedTo(lists, l, t)
  PROVE  /\ new[t] = <<>> /\ \A k \in Owners : k # t /\ k # l => new[k] = lists[k]
  <1>1. t \in Owners
    BY DEF Owners
  <1> QED
    BY <1>1 DEF JoinedTo

LinksUp(next, thr, lists, rank, again, head, tail) ==
  \E new : /\ Listed(next, new) /\ Live(new) = Live(lists)
           /\ Owned(thr, new) /\ Ranked(thr, new, rank) /\ Alone(thr, again, new)
           /\ Headed(head, tail, new[End])

LEMMA LinkedShape ==
  ASSUME NEW thr \in [Threads -> Place], NEW next \in [Nodes -> Address], NEW lists, NEW rank,
         Listed(next, lists), Owned(thr, lists), Ranked(thr, lists, rank),
         NEW again, Alone(thr, again, lists), NEW t \in Threads, thr[t].at = "link",
         NEW head, NEW tail, Headed(head, tail, lists[End]),
         next[thr[t].old.node] = End, NEW s \in Place, s.at = "finish",
         NEW thr2, thr2 = Moved(thr, t, s),
         NEW next2, next2 = Relinked(next, thr[t].old.node, thr[t].node)
  PROVE  LinksUp(next2, thr2, lists, rank, again, head, tail)
  <1>1. thr[t] \in Place
    OBVIOUS
  <1>2. thr[t].old.node \in Nodes
    BY <1>1, PlaceIs, LinkIs
  <1>3. PICK l \in Owners : lists[l] # <<>> /\ lists[l][Len(lists[l])] = thr[t].old.node
    BY <1>2, LastOfList
  <1>4. lists \in [Owners -> Seq(Nodes)] /\ t \in Owners /\ End \in Owners /\ End # t
        /\ rank \in [Threads -> Nat]
    BY Addresses DEF Listed, Owners, Ranked
  <1>5. IsIn(thr[t].old.node, lists[l])
    <2>1. PICK list : list = lists[l] /\ list \in Seq(Nodes) /\ list # <<>>
      BY <1>3, <1>4
    <2>2. Len(list) \in DOMAIN list
      BY <2>1
    <2> QED
      BY <1>3, <2>1, <2>2 DEF IsIn
  <1>6. l \in Threads => rank[l] < rank[t]
    BY <1>5 DEF Ranked
  <1>7. l # t
    <2>1. rank[t] \in Nat /\ ~(rank[t] < rank[t])
      BY <1>4
    <2> QED
      BY <1>6, <2>1
  <1>8. lists[t] # <<>> /\ lists[t][1] = thr[t].node
    BY DEF Owned, BeforeLink
  <1>9. PICK new : new = JoinedTo(lists, l, t)
    OBVIOUS
  <1>10. /\ Listed(next2, new) /\ Live(new) = Live(lists)
         /\ \A n : IsIn(n, new[l]) <=> IsIn(n, lists[l]) \/ IsIn(n, lists[t])
         /\ \A i \in DOMAIN lists[l] : i \in DOMAIN new[l] /\ new[l][i] = lists[l][i]
    <2>1. next2 = Relinked(next, lists[l][Len(lists[l])], lists[t][1])
      BY <1>3, <1>8
    <2> QED
      BY <1>3, <1>7, <1>8, <1>9, <2>1, ListsJoin
  <1>11. new[t] = <<>> /\ \A k \in Owners : k # t /\ k # l => new[k] = lists[k]
    BY <1>4, <1>7, <1>9, JoinedIs
  <1>12. \A u \in Threads \ {t} : thr2[u] = thr[u]
    BY MovedIs
  <1>13. thr2[t] = s
    BY MovedIs
  <1>14. new[l] # <<>> /\ new[l][1] = lists[l][1]
    <2>1. PICK list, list2 : list = lists[l] /\ list \in Seq(Nodes) /\ list # <<>> /\ list2 = new[l]
      BY <1>3, <1>4
    <2>2. 1 \in DOMAIN list
      BY <2>1
    <2>3. 1 \in DOMAIN list2 /\ list2[1] = list[1]
      BY <1>10, <2>1, <2>2
    <2>4. list2 # <<>>
      BY <2>3
    <2> QED
      BY <2>1, <2>3, <2>4
  <1>15. Owned(thr2, new)
    <2> SUFFICES ASSUME NEW u \in Threads
                 PROVE  IF thr2[u].at \in BeforeLink THEN new[u] # <<>> /\ new[u][1] = thr2[u].node
                        ELSE new[u] = <<>>
      BY DEF Owned
    <2>1. CASE u = t
      BY <1>11, <1>13, <2>1 DEF BeforeLink
    <2>2. CASE u # t /\ u = l
      BY <1>3, <1>12, <1>14, <2>2 DEF Owned
    <2>3. CASE u # t /\ u # l
      <3>1. new[u] = lists[u]
        BY <1>11, <2>3 DEF Owners
      <3> QED
        BY <1>12, <2>3, <3>1 DEF Owned
    <2> QED
      BY <2>1, <2>2, <2>3
  <1>16. Ranked(thr2, new, rank)
    <2> SUFFICES ASSUME NEW a \in Threads, NEW u \in Threads, thr2[a].at = "link",
                        IsIn(thr2[a].old.node, new[u])
                 PROVE  rank[u] < rank[a]
      BY <1>4 DEF Ranked
    <2>1. a # t /\ thr2[a] = thr[a]
      BY <1>12, <1>13
    <2>2. u # t
      BY <1>11 DEF IsIn
    <2>3. CASE u = l
      <3>1. CASE IsIn(thr[a].old.node, lists[l])
        BY <2>1, <2>3, <3>1 DEF Ranked
      <3>2. CASE IsIn(thr[a].old.node, lists[t])
        <4>1. rank[t] < rank[a] /\ rank[l] < rank[t]
          BY <1>6, <2>1, <2>3, <3>2 DEF Ranked
        <4>2. rank[t] \in Nat /\ rank[a] \in Nat /\ rank[l] \in Nat
          BY <1>4, <2>3
        <4> QED
          BY <2>3, <4>1, <4>2
      <3> QED
        BY <1>10, <2>1, <2>3, <3>1, <3>2
    <2>4. CASE u # l
      <3>1. new[u] = lists[u]
        BY <1>11, <2>2, <2>4 DEF Owners
      <3> QED
        BY <2>1, <3>1 DEF Ranked
    <2> QED
      BY <2>3, <2>4
  <1>17. Alone(thr2, again, new)
    <2> SUFFICES ASSUME ~again, NEW a \in Threads
                 PROVE  /\ Len(new[a]) <= 1
                        /\ thr2[a].at = "link" => \A u \in Threads : ~IsIn(thr2[a].old.node, new[u])
      BY DEF Alone
    <2>1. l \notin Threads
      BY <1>5 DEF Alone
    <2>2. \A u \in Threads : u # t => new[u] = lists[u]
      BY <1>11, <2>1 DEF Owners
    <2>3. Len(new[t]) <= 1
      BY <1>11
    <2>4. Len(new[a]) <= 1
      BY <2>2, <2>3 DEF Alone
    <2>5. ASSUME thr2[a].at = "link", NEW u \in Threads
          PROVE  ~IsIn(thr2[a].old.node, new[u])
      <3>1. thr2[a] = thr[a]
        BY <1>12, <1>13, <2>5
      <3>2. CASE u = t
        BY <1>11, <3>2 DEF IsIn
      <3>3. CASE u # t
        BY <2>2, <2>5, <3>1, <3>3 DEF Alone
      <3> QED
        BY <3>2, <3>3
    <2> QED
      BY <2>4, <2>5
  <1>18. Headed(head, tail, new[End])
    <2>1. CASE l = End
      BY <1>10, <1>14, <2>1 DEF Headed
    <2>2. CASE l # End
      <3>1. new[End] = lists[End]
        BY <1>4, <1>11, <2>2
      <3> QED
        BY <3>1
    <2> QED
      BY <2>1, <2>2
  <1> QED
    BY <1>10, <1>15, <1>16, <1>17, <1>18 DEF LinksUp

LEMMA LinkNodeStep ==
  ASSUME TSInv, NEW t \in Threads, LinkNode(t)
  PROVE  TSInv'
  <1>1. PICK tail : tail = thread[t].old.node
    OBVIOUS
  <1>2. /\ thread[t].at = "link"
        /\ m_Head' = m_Head /\ m_Tail' = m_Tail /\ m_Count' = m_Count /\ elem' = elem
        /\ m_FreeNodes' = m_FreeNodes /\ allocated' = allocated /\ pushes' = pushes
        /\ popped' = popped /\ wasEmpty' = wasEmpty /\ lied' = lied /\ reused' = reused
    BY DEF LinkNode, At, historyVars
  <1>3. thread[t] \in [at : {"link"}, node : Nodes, old : Links]
    BY <1>2, Before DEF Place
  <1>4. /\ thread[t].node \in Nodes /\ thread[t].old \in Links /\ tail \in Nodes
        /\ thread[t].old.sequence <= m_Tail.sequence
    BY <1>1, <1>2, <1>3, Before, LinkIs DEF TailRead
  <1>5. CASE pNext[tail] # End
    <2>1. PICK s : s = [thread[t] EXCEPT !.at = "help"]
      OBVIOUS
    <2>2. /\ s \in [at : {"help"}, node : Nodes, old : Links] /\ s.at = "help"
          /\ s.node = thread[t].node /\ s.old = thread[t].old
      BY <1>3, <2>1
    <2>3. s \in Place
      BY <2>2 DEF Place
    <2>4. Go(t, s) /\ UNCHANGED <<queueVars, pushes, historyVars>>
      BY <1>1, <1>2, <1>5, <2>1 DEF LinkNode, queueVars, historyVars
    <2>5. Seen(s, t)
      BY <1>1, <1>2, <1>4, <1>5, <2>2
         DEF Seen, SameList, BeforeLink, Uncounted, TailRead, HeadRead, EmptyRead, InPop
    <2> QED
      BY <2>3, <2>4, <2>5, ReadStep
  <1>6. CASE pNext[tail] = End
    <2>1. PICK s : s = [thread[t] EXCEPT !.at = "finish"]
      OBVIOUS
    <2>2. /\ s \in [at : {"finish"}, node : Nodes, old : Links] /\ s.at = "finish"
          /\ s.node = thread[t].node /\ s.old = thread[t].old
      BY <1>3, <2>1
    <2>3. s \in Place
      BY <2>2 DEF Place
    <2>4. /\ thread' = Moved(thread, t, s)
          /\ pNext' = Relinked(pNext, tail, thread[t].node)
      BY <1>1, <1>6, <2>1 DEF LinkNode, Go, Moved, Relinked
    <2>5. Typed /\ thread \in [Threads -> Place] /\ pNext \in [Nodes -> Address]
      BY DEF TSInv, Typed
    <2>6. /\ thread' \in [Threads -> Place] /\ thread'[t] = s
          /\ \A u \in Threads \ {t} : thread'[u] = thread[u]
      BY <2>3, <2>4, <2>5, MovedIs
    <2>7. /\ pNext' \in [Nodes -> Address] /\ pNext'[tail] = thread[t].node
          /\ \A n \in Nodes \ {tail} : pNext'[n] = pNext[n]
      BY <1>4, <2>4, <2>5 DEF Relinked, Address
    <2>8. Typed'
      BY <1>2, <2>5, <2>6, <2>7 DEF Typed
    <2>9. PICK lists, rank : Shape(lists, rank)
      BY DEF TSInv
    <2>10. /\ Listed(pNext, lists) /\ Headed(m_Head, m_Tail, lists[End])
           /\ Owned(thread, lists) /\ Ranked(thread, lists, rank)
           /\ Freed(thread, m_FreeNodes, allocated, lists)
           /\ Counted(m_Count, thread, lists) /\ Alone(thread, reused, lists)
           /\ Kept(pushes, popped, elem, Live(lists) \ {m_Head.node})
      BY <2>9 DEF Shape
    <2>11. PICK new : /\ Listed(pNext', new) /\ Live(new) = Live(lists)
                      /\ Owned(thread', new) /\ Ranked(thread', new, rank)
                      /\ Alone(thread', reused, new) /\ Headed(m_Head, m_Tail, new[End])
      <3>1. /\ pNext[thread[t].old.node] = End
            /\ pNext' = Relinked(pNext, thread[t].old.node, thread[t].node)
        BY <1>1, <1>6, <2>4
      <3>2. thread[t].at = "link" /\ s.at = "finish"
        BY <1>2, <2>2
      <3>3. thread' = Moved(thread, t, s)
        BY <2>4
      <3>4. LinksUp(pNext', thread', lists, rank, reused, m_Head, m_Tail)
        BY <2>3, <2>5, <2>10, <3>1, <3>2, <3>3, LinkedShape
      <3> QED
        BY <3>4 DEF LinksUp
    <2>12. Shape(new, rank)'
      <3>1. Freed(thread', m_FreeNodes, allocated, new)
        BY <2>2, <2>6, <2>10, <2>11 DEF Freed
      <3>2. Counted(m_Count, thread', new)
        <4>1. PICK c \in Int : c = m_Count
          BY <2>5, <2>10, CountIsInt
        <4>2. s.at \in Uncounted /\ thread[t].at \in Uncounted
          BY <1>2, <2>2 DEF Uncounted, BeforeLink
        <4>3. m_Count = c + 0 + 1 - 1 + 0 - 0
          BY <4>1
        <4>4. m_Count = m_Count + 0 + (IF thread[t].at \in Uncounted THEN 1 ELSE 0)
                - (IF s.at \in Uncounted THEN 1 ELSE 0) + (IF s.at = "free" THEN 1 ELSE 0)
                - (IF thread[t].at = "free" THEN 1 ELSE 0)
          BY <1>2, <2>2, <4>1, <4>2, <4>3
        <4>5. /\ IsFiniteSet(Live(lists)) /\ 0 \in Int
              /\ Cardinality(Live(new)) = Cardinality(Live(lists)) + 0
          BY <2>11, LiveFinite
        <4> QED
          BY <2>4, <2>5, <2>10, <4>4, <4>5, CountGoesOn
      <3> QED
        BY <1>2, <2>10, <2>11, <3>1, <3>2 DEF Shape
    <2>13. ASSUME NEW u \in Threads PROVE Reads(u)'
      <3>1. CASE u = t
        <4>1. TailRead(s, m_Tail, pNext')
          BY <1>1, <1>4, <2>2, <2>7 DEF TailRead
        <4>2. HeadRead(s, m_Head, m_Tail, pNext', elem) /\ EmptyRead(s, m_Head, pNext', wasEmpty[t])
          BY <2>2 DEF HeadRead, EmptyRead, InPop
        <4> QED
          BY <1>2, <2>6, <3>1, <4>1, <4>2 DEF Reads
      <3>2. CASE u # t
        <4>1. \A n \in Nodes : pNext[n] # End => pNext'[n] = pNext[n]
          BY <1>6, <2>7
        <4>2. m_Head.node \in Nodes /\ (pNext'[m_Head.node] = End => pNext[m_Head.node] = End)
          BY <1>4, <2>7, Before, Addresses
        <4>3. Onward(t, lists)
          BY <1>2, <4>1, <4>2 DEF Onward, Live
        <4>4. Reads(u) /\ thread'[u] = thread[u]
          BY <2>6, <3>2 DEF TSInv
        <4> QED
          BY <2>5, <2>8, <2>10, <3>2, <4>3, <4>4, OthersRead
      <3> QED
        BY <3>1, <3>2
    <2>14. NullOnlyIfEmpty'
      BY <1>2 DEF TSInv, NullOnlyIfEmpty
    <2> QED
      BY <2>8, <2>12, <2>13, <2>14 DEF TSInv
  <1> QED
    BY <1>5, <1>6

----------------------------------------------------------------------------
(* SwapHead.                                                               *)

\* The item of a node was popped.
LEMMA KeptPop ==
  ASSUME NEW begun, NEW out, NEW el, NEW in, Kept(begun, out, el, in), NEW n \in in,
         NEW out2, out2 = Append(out, el[n])
  PROVE  Kept(begun, out2, el, in \ {n})
  <1>1. PICK item : item = el[n] /\ item \in Pushed(begun)
    BY DEF Kept
  <1>2. out \in Seq(Pushed(begun))
    BY DEF Kept
  <1>3. PICK a \in Nat : a = Len(out) /\ DOMAIN out = 1 .. a
    BY <1>2
  <1>4. /\ out2 \in Seq(Pushed(begun)) /\ DOMAIN out2 = 1 .. a + 1 /\ out2[a + 1] = item
        /\ \A i \in 1 .. a : out2[i] = out[i]
    BY <1>1, <1>2, <1>3
  <1>5. \A i \in 1 .. a + 1 : i \in 1 .. a \/ i = a + 1
    BY <1>3
  <1>6. \A i \in 1 .. a : out[i] # item
    BY <1>1, <1>3 DEF Kept
  <1>7. ASSUME NEW i \in 1 .. a + 1, NEW j \in 1 .. a + 1, out2[i] = out2[j]
        PROVE  i = j
    <2>1. CASE i \in 1 .. a /\ j \in 1 .. a
      BY <1>3, <1>4, <1>7, <2>1 DEF Kept
    <2>2. CASE i = a + 1 \/ j = a + 1
      BY <1>4, <1>5, <1>6, <1>7, <2>2
    <2> QED
      BY <1>5, <2>1, <2>2
  <1>8. ASSUME NEW i \in 1 .. a + 1, NEW m \in in \ {n}
        PROVE  out2[i] # el[m]
    <2>1. item # el[m]
      BY <1>1 DEF Kept
    <2>2. i \in 1 .. a => out2[i] # el[m]
      BY <1>3, <1>4 DEF Kept
    <2> QED
      BY <1>4, <1>5, <2>1, <2>2
  <1>9. \A x : IsIn(x, out) => IsIn(x, out2)
    BY <1>3, <1>4, <1>5 DEF IsIn
  <1>10. IsIn(item, out2)
    BY <1>3, <1>4 DEF IsIn
  <1>11. \A x \in Pushed(begun) : IsIn(x, out2) \/ \E m \in in \ {n} : el[m] = x
    BY <1>1, <1>9, <1>10 DEF Kept
  <1>12. /\ \A m \in in : el[m] \in Pushed(begun)
         /\ \A m, p \in in : el[m] = el[p] => m = p
    BY DEF Kept
  <1> QED
    BY <1>4, <1>7, <1>8, <1>11, <1>12 DEF Kept

Shrunk(lists) == [lists EXCEPT ![End] = Tail(lists[End])]

ShrunkTo(next, lists, new, first, second, last) ==
  /\ Listed(next, new) /\ Live(new) = Live(lists) \ {first}
  /\ \A u \in Threads : new[u] = lists[u]
  /\ new[End] # <<>> /\ new[End][1] = second /\ IsIn(last, new[End])
  /\ next[second] = End => Len(lists[End]) = 2
  /\ Len(lists[End]) \in Nat

LEMMA ShrunkIs ==
  ASSUME NEW next, NEW lists, Listed(next, lists), NEW head, NEW tail,
         Headed(head, tail, lists[End]), next[head.node] # End, tail.node # head.node
  PROVE  ShrunkTo(next, lists, Shrunk(lists), head.node, next[head.node], tail.node)
  <1>1. /\ End \in Owners /\ lists[End] \in Seq(Nodes) /\ lists[End][1] = head.node
    BY HeadIs
  <1>2. /\ Len(lists[End]) > 1 /\ lists[End][2] = next[head.node]
    BY Second
  <1>3. PICK list, rest, new : /\ list = lists[End] /\ rest = Tail(list) /\ new = Shrunk(lists)
    OBVIOUS
  <1>4. /\ Listed(next, new) /\ Live(new) = Live(lists) \ {head.node}
    BY <1>1, <1>2, <1>3, ListShrinks DEF Shrunk
  <1>5. new[End] = rest /\ \A u \in Threads : new[u] = lists[u]
    BY <1>1, <1>3, Addresses DEF Shrunk, Listed, Owners
  <1>6. PICK a \in Nat : a = Len(list) /\ a > 1 /\ DOMAIN list = 1 .. a
    BY <1>1, <1>2, <1>3
  <1>7. /\ rest \in Seq(Nodes) /\ Len(rest) = a - 1 /\ DOMAIN rest = 1 .. a - 1
        /\ \A i \in 1 .. a - 1 : rest[i] = list[i + 1]
    BY <1>1, <1>3, <1>6
  <1>8. rest # <<>> /\ rest[1] = next[head.node]
    <2>1. 1 \in 1 .. a - 1 /\ 1 + 1 = 2
      BY <1>6
    <2>2. rest[1] = list[2]
      BY <1>7, <2>1
    <2>3. rest # <<>>
      BY <1>6, <1>7
    <2> QED
      BY <1>2, <1>3, <2>2, <2>3
  <1>9. IsIn(tail.node, rest)
    <2>1. PICK i \in 1 .. a : list[i] = tail.node
      BY <1>3, <1>6 DEF Headed, IsIn
    <2>2. i # 1
      BY <1>1, <1>3, <2>1
    <2>3. i - 1 \in 1 .. a - 1 /\ (i - 1) + 1 = i
      BY <1>6, <2>2
    <2> QED
      BY <1>7, <2>1, <2>3 DEF IsIn
  <1>10. ASSUME next[next[head.node]] = End PROVE a = 2
    <2>1. 2 \in DOMAIN list /\ 2 + 1 = 3
      BY <1>6
    <2>2. next[list[2]] = IF 2 = a THEN End ELSE list[3]
      BY <1>1, <1>3, <1>6, <2>1 DEF Listed, Linked
    <2>3. a # 2 => list[3] \in Nodes
      <3>1. a # 2 => 3 \in 1 .. a
        BY <1>6
      <3>2. \A i \in DOMAIN list : list[i] \in Nodes
        BY <1>1, <1>3
      <3> QED
        BY <1>6, <3>1, <3>2
    <2> QED
      BY <1>2, <1>3, <1>10, <2>2, <2>3, Addresses
  <1> QED
    BY <1>3, <1>4, <1>5, <1>6, <1>8, <1>9, <1>10 DEF ShrunkTo

LEMMA SwapHeadStep ==
  ASSUME TSInv, NEW t \in Threads, SwapHead(t)
  PROVE  TSInv'
  <1>1. PICK old, last : old = thread[t] /\ last = (Len(Chain) = 1)
    OBVIOUS
  <1>2. old.at = "swap" /\ old \in Place
    BY <1>1, Before DEF SwapHead, At
  <1>3. old.head \in Links /\ old.next \in Nodes /\ old.elem \in Element
    BY <1>2, PlaceIs
  <1>4. /\ m_Tail' = m_Tail /\ m_Count' = m_Count /\ pNext' = pNext /\ elem' = elem
        /\ m_FreeNodes' = m_FreeNodes /\ allocated' = allocated /\ pushes' = pushes
        /\ lied' = lied /\ reused' = reused
    BY DEF SwapHead
  <1>5. CASE m_Head # old.head
    <2>1. /\ Again(t) /\ m_Head' = m_Head /\ popped' = popped /\ wasEmpty' = wasEmpty
      BY <1>1, <1>5 DEF SwapHead, SameHead
    <2>2. UNCHANGED <<queueVars, pushes, historyVars>>
      BY <1>4, <2>1 DEF queueVars, historyVars
    <2>3. thread[t].at \in InPop
      BY <1>1, <1>2 DEF InPop
    <2> QED
      BY <2>1, <2>2, <2>3, AgainStep
  <1>6. CASE m_Head = old.head
    <2>1. PICK s, n : n = m_Head.node /\ s = [at |-> "free", node |-> n, elem |-> old.elem]
      OBVIOUS
    <2>2. /\ thread' = Moved(thread, t, s)
          /\ m_Head' = Link(old.next, m_Head.sequence + 1)
          /\ popped' = Append(popped, old.elem)
          /\ wasEmpty' = [u \in Threads |-> wasEmpty[u] \/ last]
      BY <1>1, <1>6, <2>1 DEF SwapHead, SameHead, Go, Moved
    <2>3. n \in Nodes /\ m_Head.sequence \in Nat
      BY <2>1, Before
    <2>4. s.at = "free" /\ s.node = n /\ s \in Place
      BY <1>3, <2>1, <2>3 DEF Place
    <2>5. Typed /\ thread \in [Threads -> Place]
      BY DEF TSInv, Typed
    <2>6. /\ thread' \in [Threads -> Place] /\ thread'[t] = s
          /\ \A u \in Threads \ {t} : thread'[u] = thread[u]
      BY <2>2, <2>4, <2>5, MovedIs
    <2>7. /\ m_Head'.node = old.next /\ m_Head'.sequence = m_Head.sequence + 1
          /\ m_Head' \in Links /\ m_Head.sequence < m_Head'.sequence
      BY <1>3, <2>2, <2>3 DEF Link, Links
    <2>8. Typed'
      <3>1. wasEmpty' \in [Threads -> BOOLEAN]
        BY <1>1, <2>2, <2>5 DEF Typed
      <3> QED
        BY <1>4, <2>5, <2>6, <2>7, <3>1 DEF Typed
    <2>9. PICK lists, rank : Shape(lists, rank)
      BY DEF TSInv
    <2>10. /\ Listed(pNext, lists) /\ Headed(m_Head, m_Tail, lists[End])
           /\ Owned(thread, lists) /\ Ranked(thread, lists, rank)
           /\ Freed(thread, m_FreeNodes, allocated, lists)
           /\ Counted(m_Count, thread, lists) /\ Alone(thread, reused, lists)
           /\ Kept(pushes, popped, elem, Live(lists) \ {n})
      BY <2>1, <2>9 DEF Shape
    <2>11. /\ pNext[n] = old.next /\ old.elem = elem[old.next] /\ m_Tail.node # n
      BY <1>1, <1>2, <1>6, <2>1, Before DEF HeadRead
    <2>12. pNext[n] # End
      BY <1>3, <2>11, Addresses
    <2>13. PICK new : new = Shrunk(lists)
      OBVIOUS
    <2>14. /\ Listed(pNext, new) /\ Live(new) = Live(lists) \ {n}
           /\ \A u \in Threads : new[u] = lists[u]
           /\ new[End] # <<>> /\ new[End][1] = old.next /\ IsIn(m_Tail.node, new[End])
           /\ pNext[old.next] = End => Len(lists[End]) = 2
           /\ Len(lists[End]) \in Nat
      <3>1. ShrunkTo(pNext, lists, Shrunk(lists), m_Head.node, pNext[m_Head.node], m_Tail.node)
        BY <2>1, <2>10, <2>11, <2>12, ShrunkIs
      <3>2. ShrunkTo(pNext, lists, new, n, old.next, m_Tail.node)
        BY <2>1, <2>11, <2>13, <3>1
      <3> QED
        BY <3>2 DEF ShrunkTo
    <2>15. n \in Live(lists) /\ old.next \in Live(new)
      <3>1. n \in Live(lists)
        BY <2>1, <2>10, HeadIs
      <3>2. Headed(m_Head', m_Tail, new[End])
        BY <2>7, <2>14 DEF Headed
      <3>3. m_Head'.node \in Live(new)
        BY <2>14, <3>2, HeadIs
      <3> QED
        BY <2>7, <3>1, <3>3
    <2>16. Shape(new, rank)'
      <3>1. Headed(m_Head', m_Tail, new[End])
        BY <2>7, <2>14 DEF Headed
      <3>2. Owned(thread', new)
        BY <1>1, <1>2, <2>4, <2>6, <2>10, <2>14 DEF Owned, BeforeLink
      <3>3. Ranked(thread', new, rank)
        BY <2>4, <2>6, <2>10, <2>14 DEF Ranked
      <3>4. Alone(thread', reused, new)
        BY <2>4, <2>6, <2>10, <2>14 DEF Alone
      <3>5. Freed(thread', m_FreeNodes, allocated, new)
        <4>1. n < allocated /\ n \notin Live(new) /\ ~IsIn(n, m_FreeNodes)
          BY <2>10, <2>14, <2>15 DEF Freed, IsIn
        <4>2. \A u \in Threads : thread[u].at = "free" => thread[u].node # n
          BY <2>10, <2>15 DEF Freed
        <4>3. \A m : m \notin Live(lists) => m \notin Live(new)
          BY <2>14
        <4>4. \A m \in Live(new) : m < allocated
          BY <2>10, <2>14 DEF Freed
        <4>5. \A u \in Threads : thread'[u].at = "free" =>
                /\ thread'[u].node < allocated /\ thread'[u].node \notin Live(new)
                /\ ~IsIn(thread'[u].node, m_FreeNodes)
                /\ \A v \in Threads :
                     thread'[v].at = "free" /\ thread'[v].node = thread'[u].node => v = u
          BY <2>4, <2>6, <2>10, <4>1, <4>2, <4>3 DEF Freed
        <4> QED
          BY <2>10, <4>3, <4>4, <4>5 DEF Freed
      <3>6. Counted(m_Count, thread', new)
        <4>1. PICK c \in Int : c = m_Count
          BY <2>5, <2>10, CountIsInt
        <4>2. s.at \notin Uncounted /\ thread[t].at \notin Uncounted
          BY <1>1, <1>2, <2>4 DEF Uncounted, BeforeLink
        <4>3. c = c + (-1) + 0 - 0 + 1 - 0
          OBVIOUS
        <4>4. m_Count = m_Count + (-1) + (IF thread[t].at \in Uncounted THEN 1 ELSE 0)
                - (IF s.at \in Uncounted THEN 1 ELSE 0) + (IF s.at = "free" THEN 1 ELSE 0)
                - (IF thread[t].at = "free" THEN 1 ELSE 0)
          BY <1>1, <1>2, <2>4, <4>1, <4>2, <4>3
        <4>5. /\ IsFiniteSet(Live(lists)) /\ -1 \in Int
              /\ Cardinality(Live(new)) = Cardinality(Live(lists)) + (-1)
          <5>1. IsFiniteSet(Live(lists)) /\ Cardinality(Live(lists)) \in Nat
            BY LiveFinite
          <5>2. Cardinality(Live(lists) \ {n}) = Cardinality(Live(lists)) - 1
            BY <2>15, <5>1, FS_RemoveElement
          <5> QED
            BY <2>14, <5>1, <5>2
        <4> QED
          BY <2>2, <2>5, <2>10, <4>4, <4>5, CountGoesOn
      <3>7. Kept(pushes, popped', elem, Live(new) \ {m_Head'.node})
        BY <2>2, <2>7, <2>10, <2>11, <2>14, <2>15, KeptPop
      <3> QED
        BY <1>4, <2>14, <3>1, <3>2, <3>3, <3>4, <3>5, <3>6, <3>7 DEF Shape
    <2>17. ASSUME NEW u \in Threads PROVE Reads(u)'
      <3>1. CASE u = t
        BY <2>4, <2>6, <3>1 DEF Reads, TailRead, HeadRead, EmptyRead, InPop
      <3>2. CASE u # t
        <4>1. pNext[m_Head'.node] = End => last
          <5>1. Len(Chain) = Len(lists[End]) - 1
            BY <2>5, <2>10, ChainIsTail
          <5>2. Len(lists[End]) = 2 => Len(Chain) = 1
            BY <5>1
          <5> QED
            BY <1>1, <2>7, <2>14, <5>2
        <4>2. \A v \in Threads : wasEmpty'[v] = (wasEmpty[v] \/ last)
          BY <2>2
        <4>3. Onward(t, lists)
          BY <1>4, <2>7, <4>1, <4>2 DEF Onward
        <4>4. Reads(u) /\ thread'[u] = thread[u]
          BY <2>6, <3>2 DEF TSInv
        <4> QED
          BY <2>5, <2>8, <2>10, <3>2, <4>3, <4>4, OthersRead
      <3> QED
        BY <3>1, <3>2
    <2>18. NullOnlyIfEmpty'
      BY <1>4 DEF TSInv, NullOnlyIfEmpty
    <2> QED
      BY <2>8, <2>16, <2>17, <2>18 DEF TSInv
  <1> QED
    BY <1>5, <1>6

----------------------------------------------------------------------------
(* The invariant.                                                          *)

\* At the beginning the queue has its dummy, and nobody has anything.
LEMMA InitInv ==
  ASSUME Init
  PROVE  TSInv
  <1>1. 0 \in Nodes /\ 1 \in 1 .. MaxNodes
    BY BoundsAssumption DEF Nodes
  <1>2. /\ m_Head = Link(0, 0) /\ m_Tail = Link(0, 0) /\ m_Count = 0
        /\ pNext = [n \in Nodes |-> IF n = 0 THEN End ELSE NULL]
        /\ elem = [n \in Nodes |-> NoItem]
        /\ m_FreeNodes = <<>> /\ allocated = 1
        /\ thread = [t \in Threads |-> Idle]
        /\ pushes = [t \in Threads |-> 0]
        /\ popped = <<>> /\ wasEmpty = [t \in Threads |-> FALSE]
        /\ lied = FALSE /\ reused = FALSE
    BY DEF Init
  <1>3. Idle.at = "idle" /\ Idle \in Place
    BY DEF Idle, Place
  <1>4. m_Head \in Links /\ m_Head.node = 0 /\ m_Tail \in Links /\ m_Tail.node = 0
    BY <1>1, <1>2 DEF Link, Links
  <1>5. Typed
    <2>1. 0 \in 0 .. MaxPushes
      BY BoundsAssumption
    <2> QED
      BY <1>2, <1>3, <1>4, <2>1 DEF Typed, Address, Element
  <1>6. NullOnlyIfEmpty
    BY <1>2 DEF NullOnlyIfEmpty
  <1>7. \A t \in Threads : Reads(t)
    BY <1>2, <1>3 DEF Reads, TailRead, HeadRead, EmptyRead, InPop
  <1>8. PICK lists : lists = [l \in Owners |-> IF l = End THEN <<0>> ELSE <<>>]
    OBVIOUS
  <1>9. PICK rank : rank = [t \in Threads |-> 0]
    OBVIOUS
  <1>10. /\ lists \in [Owners -> Seq(Nodes)] /\ End \in Owners
         /\ \A t \in Threads : t # End /\ t \in Owners /\ lists[t] = <<>>
         /\ lists[End] = <<0>>
    BY <1>1, <1>8, Addresses DEF Owners
  <1>11. /\ DOMAIN lists[End] = {1} /\ lists[End][1] = 0 /\ Len(lists[End]) = 1
         /\ \A t \in Threads : DOMAIN lists[t] = {} /\ Len(lists[t]) = 0
         /\ \A l \in Owners : l = End \/ l \in Threads
    BY <1>10 DEF Owners
  <1>12. Live(lists) = {0}
    BY <1>1, <1>10, <1>11 DEF Live, IsIn
  <1>13. Listed(pNext, lists)
    <2>1. pNext[0] = End /\ \A n \in Nodes : pNext[n] = End => n = 0
      BY <1>1, <1>2, Addresses
    <2>2. Linked(pNext, lists[End])
      BY <1>11, <2>1 DEF Linked
    <2>3. \A t \in Threads : Linked(pNext, lists[t])
      BY <1>11 DEF Linked
    <2>4. Apart(lists)
      BY <1>11 DEF Apart
    <2> QED
      BY <1>10, <1>11, <1>12, <2>1, <2>2, <2>3, <2>4 DEF Listed
  <1>14. Headed(m_Head, m_Tail, lists[End])
    BY <1>4, <1>10, <1>11 DEF Headed, IsIn
  <1>15. Owned(thread, lists) /\ Ranked(thread, lists, rank)
    BY <1>2, <1>3, <1>9, <1>10 DEF Owned, Ranked, BeforeLink
  <1>16. Freed(thread, m_FreeNodes, allocated, lists)
    <2>1. m_FreeNodes \in Seq(Nodes) /\ DOMAIN m_FreeNodes = {}
      BY <1>2
    <2>2. 0 < allocated
      BY <1>2
    <2> QED
      BY <1>1, <1>2, <1>3, <1>12, <2>1, <2>2 DEF Freed
  <1>17. Counted(m_Count, thread, lists)
    <2>1. Threads_at(thread, Uncounted) = {} /\ Threads_at(thread, {"free"}) = {}
      BY <1>2, <1>3 DEF Threads_at, Uncounted, BeforeLink
    <2>2. Cardinality({}) = 0 /\ Cardinality(Live(lists)) = 1
      BY <1>12, FS_EmptySet, FS_Singleton
    <2>3. 0 = 1 - 1 - 0 + 0
      OBVIOUS
    <2> QED
      BY <1>2, <2>1, <2>2, <2>3, Zenon DEF Counted
  <1>18. Kept(pushes, popped, elem, Live(lists) \ {m_Head.node})
    <2>1. Live(lists) \ {m_Head.node} = {}
      BY <1>4, <1>12
    <2>2. Pushed(pushes) = {}
      BY <1>2 DEF Pushed, Items
    <2>3. popped \in Seq(Pushed(pushes)) /\ DOMAIN popped = {}
      BY <1>2
    <2> QED
      BY <2>1, <2>2, <2>3 DEF Kept
  <1>19. Alone(thread, reused, lists)
    BY <1>2, <1>3, <1>11 DEF Alone
  <1>20. Shape(lists, rank)
    BY <1>13, <1>14, <1>15, <1>16, <1>17, <1>18, <1>19 DEF Shape
  <1> QED
    BY <1>5, <1>6, <1>7, <1>20 DEF TSInv

LEMMA StutterInv ==
  ASSUME TSInv, UNCHANGED vars
  PROVE  TSInv'
  <1>1. /\ m_Head' = m_Head /\ m_Tail' = m_Tail /\ m_Count' = m_Count /\ pNext' = pNext
        /\ elem' = elem /\ m_FreeNodes' = m_FreeNodes /\ allocated' = allocated
        /\ thread' = thread /\ pushes' = pushes /\ popped' = popped
        /\ wasEmpty' = wasEmpty /\ lied' = lied /\ reused' = reused
    BY DEF vars, queueVars, historyVars
  <1>2. PICK lists, rank : Shape(lists, rank)
    BY DEF TSInv
  <1>3. Shape(lists, rank)'
    BY <1>1, <1>2 DEF Shape
  <1>4. Typed' /\ NullOnlyIfEmpty'
    BY <1>1 DEF TSInv, Typed, NullOnlyIfEmpty
  <1>5. \A t \in Threads : Reads(t)'
    BY <1>1 DEF TSInv, Reads
  <1> QED
    BY <1>3, <1>4, <1>5 DEF TSInv

LEMMA StepInv ==
  ASSUME TSInv, NEW t \in Threads, Step(t)
  PROVE  TSInv'
  <1>1. CASE PushItem(t)
    BY <1>1, PushItemStep
  <1>2. CASE ReadTailSequence(t)
    BY <1>2, ReadTailSequenceStep
  <1>3. CASE ReadTailNode(t)
    BY <1>3, ReadTailNodeStep
  <1>4. CASE LinkNode(t)
    BY <1>4, LinkNodeStep
  <1>5. CASE ReadLinked(t)
    BY <1>5, ReadLinkedStep
  <1>6. CASE FinishPush(t)
    BY <1>6, FinishPushStep
  <1>7. CASE HelpPush(t)
    BY <1>7, HelpPushStep
  <1>8. CASE PopItem(t)
    BY <1>8, PopItemStep
  <1>9. CASE ReadHeadSequence(t)
    BY <1>9, ReadHeadSequenceStep
  <1>10. CASE ReadHeadNode(t)
    BY <1>10, ReadHeadNodeStep
  <1>11. CASE ReadTailForPop(t)
    BY <1>11, ReadTailForPopStep
  <1>12. CASE ReadNext(t)
    BY <1>12, ReadNextStep
  <1>13. CASE CheckSequence(t)
    BY <1>13, CheckSequenceStep
  <1>14. CASE ReturnNull(t)
    BY <1>14, ReturnNullStep
  <1>15. CASE HelpFromPop(t)
    BY <1>15, HelpFromPopStep
  <1>16. CASE FinishForPop(t)
    BY <1>16, FinishForPopStep
  <1>17. CASE ReadElement(t)
    BY <1>17, ReadElementStep
  <1>18. CASE SwapHead(t)
    BY <1>18, SwapHeadStep
  <1>19. CASE FreeNode(t)
    BY <1>19, FreeNodeStep
  <1> QED
    BY <1>1, <1>2, <1>3, <1>4, <1>5, <1>6, <1>7, <1>8, <1>9, <1>10, <1>11, <1>12, <1>13,
       <1>14, <1>15, <1>16, <1>17, <1>18, <1>19 DEF Step, PushStep, PopStep

LEMMA Invariance == Spec => []TSInv
  <1>1. TSInv /\ [Next]_vars => TSInv'
    BY StepInv, StutterInv DEF Next
  <1> QED
    BY <1>1, InitInv, PTL DEF Spec

\* A Pop finds nothing only if the queue was empty at some moment since it began
\* (tslist.h:912-935), for any number of threads and any interleaving.
THEOREM NullOnlyIfEmptyThm == Spec => []NullOnlyIfEmpty
  <1>1. TSInv => NullOnlyIfEmpty
    BY DEF TSInv
  <1> QED
    BY <1>1, Invariance, PTL

----------------------------------------------------------------------------
(* Types, and no node is free twice, or free and in the queue.             *)

\* As many threads are about to free a node as there are nodes for that, the threads
\* of a push are not more than all.
LEMMA CountRange ==
  ASSUME NEW thr \in [Threads -> Place], NEW free, NEW size, NEW lists, NEW count,
         Freed(thr, free, size, lists), Counted(count, thr, lists), Cardinality(Live(lists)) >= 1
  PROVE  count \in -Cardinality(Threads) .. MaxNodes
  <1> DEFINE F == Threads_at(thr, {"free"})
             P == Threads_at(thr, Uncounted)
             L == Live(lists)
             R == Nodes \ L
             node == [u \in F |-> thr[u].node]
  <1>1. /\ IsFiniteSet(L) /\ L \subseteq Nodes /\ Cardinality(L) \in Nat
        /\ IsFiniteSet(Nodes) /\ Cardinality(Nodes) = MaxNodes
    BY LiveFinite, NodesFinite
  <1>2. /\ IsFiniteSet(P) /\ Cardinality(P) <= Cardinality(Threads)
        /\ Cardinality(P) \in Nat /\ Cardinality(Threads) \in Nat
    BY AddressAssumption, FS_Subset, FS_CardinalityType DEF Threads_at
  <1>3. node \in Injection(F, R)
    <2>1. \A u \in F : u \in Threads /\ thr[u].at = "free"
      BY DEF Threads_at
    <2>2. \A u \in F : thr[u].node \in Nodes /\ thr[u].node \notin L
      BY <2>1, PlaceIs DEF Freed
    <2>3. \A u, v \in F : thr[u].node = thr[v].node => u = v
      BY <2>1 DEF Freed
    <2>4. node \in [F -> R]
      BY <2>2
    <2>5. \A u, v \in F : node[u] = node[v] => u = v
      BY <2>3
    <2> HIDE DEF node, F, R
    <2> QED
      BY <2>4, <2>5 DEF Injection, IsInjective
  <1>4. IsFiniteSet(R) /\ Cardinality(R) \in Nat
    BY <1>1, FS_Subset, FS_CardinalityType
  <1>5. IsFiniteSet(F) /\ Cardinality(F) <= Cardinality(R) /\ Cardinality(F) \in Nat
    <2> HIDE DEF node, F, R
    <2> QED
      BY <1>3, <1>4, FS_Injection, FS_CardinalityType
  <1>6. Cardinality(L) + Cardinality(R) = MaxNodes
    <2>1. L \cup R = Nodes /\ L \cap R = {}
      BY <1>1
    <2>2. Cardinality(L \cup R) = Cardinality(L) + Cardinality(R) - Cardinality(L \cap R)
      <3> HIDE DEF L, R
      <3> QED
        BY <1>1, <1>4, FS_Union
    <2>3. Cardinality({}) = 0
      BY FS_EmptySet
    <2>4. PICK l \in Nat, r \in Nat : l = Cardinality(L) /\ r = Cardinality(R)
      BY <1>1, <1>4
    <2> HIDE DEF L, R
    <2>5. MaxNodes = l + r - 0
      BY <1>1, <2>1, <2>2, <2>3, <2>4
    <2>6. MaxNodes = l + r
      BY <2>5
    <2> QED
      BY <2>4, <2>6
  <1>7. count = Cardinality(L) - 1 - Cardinality(P) + Cardinality(F)
    BY DEF Counted
  <1>8. Cardinality(L) >= 1 /\ MaxNodes \in Nat
    BY BoundsAssumption
  <1>9. PICK l \in Nat, p \in Nat, f \in Nat, r \in Nat, th \in Nat :
          /\ l = Cardinality(L) /\ p = Cardinality(P) /\ f = Cardinality(F)
          /\ r = Cardinality(R) /\ th = Cardinality(Threads)
    BY <1>1, <1>2, <1>4, <1>5
  <1>10. count = l - 1 - p + f /\ l >= 1 /\ p <= th /\ f <= r /\ l + r = MaxNodes
    BY <1>2, <1>5, <1>6, <1>7, <1>8, <1>9
  <1> HIDE DEF L, P, F, R
  <1>11. count \in Int /\ -th <= count /\ count <= MaxNodes
    BY <1>8, <1>10
  <1>12. count \in -th .. MaxNodes
    BY <1>8, <1>11
  <1> QED
    BY <1>9, <1>12

LEMMA Types ==
  ASSUME TSInv
  PROVE  TypeOK
  <1>1. PICK lists, rank : Shape(lists, rank)
    BY DEF TSInv
  <1>2. /\ Listed(pNext, lists) /\ Headed(m_Head, m_Tail, lists[End])
        /\ Freed(thread, m_FreeNodes, allocated, lists) /\ Counted(m_Count, thread, lists)
    BY <1>1 DEF Shape
  <1>3. Typed
    BY DEF TSInv
  <1>4. {m_Head, m_Tail} \subseteq [node : Nodes, sequence : Nat]
    BY <1>3 DEF Typed, Links
  <1>5. pNext \in [Nodes -> Nodes \cup {End, NULL}] /\ elem \in [Nodes -> Items \cup {NoItem}]
    BY <1>3 DEF Typed, Address, Element
  <1>6. m_Head.node \in Live(lists)
    BY <1>2, HeadIs
  <1>7. m_Count \in -Cardinality(Threads) .. MaxNodes
    <2>1. Cardinality(Live(lists)) >= 1
      <3>1. IsFiniteSet(Live(lists)) /\ Cardinality(Live(lists)) \in Nat
        BY LiveFinite
      <3>2. Cardinality(Live(lists)) # 0
        BY <1>6, <3>1, FS_EmptySet
      <3> QED
        BY <3>1, <3>2
    <2> QED
      BY <1>2, <1>3, <2>1, CountRange DEF Typed
  <1>8. \A i, k \in DOMAIN m_FreeNodes : m_FreeNodes[i] = m_FreeNodes[k] => i = k
    BY <1>2 DEF Freed
  <1>9. \A k \in DOMAIN Chain : Chain[k] \in Live(lists)
    <2>1. PICK list, rest : list = lists[End] /\ rest = Tail(list)
      OBVIOUS
    <2>2. Chain = rest /\ list \in Seq(Nodes) /\ list # <<>> /\ End \in Owners
      BY <1>2, <1>3, <2>1, ChainIsTail, HeadIs
    <2>3. PICK a \in Nat : a = Len(list) /\ DOMAIN list = 1 .. a /\ a # 0
      BY <2>2
    <2>4. /\ rest \in Seq(Nodes) /\ Len(rest) = a - 1 /\ DOMAIN rest = 1 .. a - 1
          /\ \A i \in 1 .. a - 1 : rest[i] = list[i + 1]
      BY <2>1, <2>2, <2>3
    <2>5. ASSUME NEW k \in 1 .. a - 1 PROVE rest[k] \in Live(lists)
      <3>1. k + 1 \in DOMAIN list
        BY <2>3
      <3>2. rest[k] = list[k + 1] /\ list[k + 1] \in Nodes /\ IsIn(list[k + 1], list)
        BY <2>2, <2>4, <3>1 DEF IsIn
      <3> QED
        BY <2>1, <2>2, <3>2 DEF Live
    <2> QED
      BY <2>2, <2>4, <2>5
  <1>10. \A i \in DOMAIN m_FreeNodes :
           m_FreeNodes[i] # m_Head.node /\ \A k \in DOMAIN Chain : m_FreeNodes[i] # Chain[k]
    BY <1>2, <1>6, <1>9 DEF Freed
  <1> QED
    BY <1>4, <1>5, <1>7, <1>8, <1>10 DEF TypeOK

\* Head, tail and links are of their types, the count stays in its range, and no node
\* is free twice, or free and in the queue (tslist.h:793-977).
THEOREM TypeOKThm == Spec => []TypeOK
  <1>1. TSInv => TypeOK
    BY Types
  <1> QED
    BY <1>1, Invariance, PTL

----------------------------------------------------------------------------
(* Nothing is lost.                                                        *)

\* What is in the queue: the items of the nodes behind the head.
InList(items, el, list, first) ==
  /\ items \in Seq(Element) /\ Len(items) = Len(list) - 1 /\ Len(list) \in Nat \ {0}
  /\ \A i \in DOMAIN items :
       /\ i \in Nat /\ i + 1 \in DOMAIN list
       /\ items[i] = el[list[i + 1]] /\ list[i + 1] # first
  /\ \A n : IsIn(n, list) /\ n # first => \E i \in DOMAIN items : list[i + 1] = n

LEMMA ContentsIs ==
  ASSUME Typed, NEW lists, Listed(pNext, lists), Headed(m_Head, m_Tail, lists[End])
  PROVE  InList(Contents, elem, lists[End], m_Head.node)
  <1>1. PICK list, chain : list = lists[End] /\ chain = Chain
    OBVIOUS
  <1>2. /\ chain = Tail(list) /\ list \in Seq(Nodes) /\ list # <<>> /\ list[1] = m_Head.node
        /\ End \in Owners
    BY <1>1, ChainIsTail, HeadIs
  <1>3. PICK a \in Nat \ {0} : a = Len(list) /\ DOMAIN list = 1 .. a
    BY <1>2
  <1>4. /\ chain \in Seq(Nodes) /\ Len(chain) = a - 1 /\ DOMAIN chain = 1 .. a - 1
        /\ \A i \in 1 .. a - 1 : chain[i] = list[i + 1]
    BY <1>2, <1>3
  <1>5. Contents = [i \in 1 .. a - 1 |-> elem[chain[i]]]
    BY <1>1, <1>4 DEF Contents
  <1>6. \A i \in 1 .. a - 1 : i \in Nat /\ i + 1 \in 1 .. a /\ i + 1 # 1
    BY <1>3
  <1>7. \A i \in 1 .. a - 1 : elem[chain[i]] = elem[list[i + 1]] /\ elem[chain[i]] \in Element
    BY <1>2, <1>3, <1>4, <1>6 DEF Typed
  <1>8. /\ Contents \in Seq(Element) /\ Len(Contents) = a - 1 /\ DOMAIN Contents = 1 .. a - 1
        /\ \A i \in 1 .. a - 1 : Contents[i] = elem[list[i + 1]]
    <2>1. PICK b \in Nat : b = a - 1
      BY <1>3
    <2>2. PICK items : items = [i \in 1 .. b |-> elem[chain[i]]]
      OBVIOUS
    <2>3. items \in Seq(Element) /\ Len(items) = b /\ DOMAIN items = 1 .. b
      BY <1>7, <2>1, <2>2
    <2>4. \A i \in 1 .. b : items[i] = elem[list[i + 1]]
      BY <1>7, <2>1, <2>2
    <2> QED
      BY <1>5, <2>1, <2>2, <2>3, <2>4
  <1>9. \A i, j \in 1 .. a : list[i] = list[j] => i = j
    BY <1>1, <1>2, <1>3 DEF Listed, Apart
  <1>10. \A i \in 1 .. a - 1 : list[i + 1] # m_Head.node
    <2>1. 1 \in 1 .. a
      BY <1>3
    <2> QED
      BY <1>2, <1>6, <1>9, <2>1
  <1>11. ASSUME NEW n, IsIn(n, list), n # m_Head.node
         PROVE  \E i \in 1 .. a - 1 : list[i + 1] = n
    <2>1. PICK i \in 1 .. a : list[i] = n
      BY <1>3, <1>11 DEF IsIn
    <2>2. i - 1 \in 1 .. a - 1 /\ (i - 1) + 1 = i
      BY <1>2, <1>3, <1>11, <2>1
    <2> QED
      BY <2>1, <2>2
  <1> QED
    BY <1>1, <1>3, <1>6, <1>8, <1>10, <1>11 DEF InList

\* One list behind the other.
LEMMA BothIn ==
  ASSUME NEW S, NEW p \in Seq(S), NEW q \in Seq(S)
  PROVE  /\ \A x : IsIn(x, p \o q) <=> IsIn(x, p) \/ IsIn(x, q)
         /\ (/\ \A i, j \in DOMAIN p : p[i] = p[j] => i = j
             /\ \A i, j \in DOMAIN q : q[i] = q[j] => i = j
             /\ \A i \in DOMAIN p, j \in DOMAIN q : p[i] # q[j])
            => \A i, j \in DOMAIN (p \o q) : (p \o q)[i] = (p \o q)[j] => i = j
  <1>0. PICK pq : pq = p \o q
    OBVIOUS
  <1>1. PICK a \in Nat, b \in Nat : a = Len(p) /\ b = Len(q)
    OBVIOUS
  <1>2. DOMAIN p = 1 .. a /\ DOMAIN q = 1 .. b
    BY <1>1
  <1>3. /\ DOMAIN pq = 1 .. a + b
        /\ \A i \in 1 .. a + b : pq[i] = IF i <= a THEN p[i] ELSE q[i - a]
    BY <1>0, <1>1
  <1>4. \A i \in 1 .. a : i \in 1 .. a + b /\ pq[i] = p[i]
    BY <1>3
  <1>5. ASSUME NEW i \in 1 .. b PROVE i + a \in 1 .. a + b /\ pq[i + a] = q[i]
    <2>1. i + a \in 1 .. a + b /\ ~(i + a <= a) /\ (i + a) - a = i
      OBVIOUS
    <2> QED
      BY <1>3, <2>1
  <1>6. ASSUME NEW i \in 1 .. a + b PROVE i \in 1 .. a \/ \E k \in 1 .. b : i = k + a
    <2>1. CASE i <= a
      BY <2>1
    <2>2. CASE ~(i <= a)
      <3>1. i - a \in 1 .. b /\ i = (i - a) + a
        BY <2>2
      <3> QED
        BY <3>1
    <2> QED
      BY <2>1, <2>2
  <1>7. ASSUME NEW x PROVE IsIn(x, pq) <=> IsIn(x, p) \/ IsIn(x, q)
    <2>1. ASSUME NEW i \in 1 .. a + b, pq[i] = x
          PROVE  (\E j \in 1 .. a : p[j] = x) \/ (\E j \in 1 .. b : q[j] = x)
      BY <1>4, <1>5, <1>6, <2>1
    <2> QED
      BY <1>2, <1>3, <1>4, <1>5, <2>1 DEF IsIn
  <1>8. ASSUME \A i, j \in 1 .. a : p[i] = p[j] => i = j,
               \A i, j \in 1 .. b : q[i] = q[j] => i = j,
               \A i \in 1 .. a, j \in 1 .. b : p[i] # q[j],
               NEW i \in 1 .. a + b, NEW j \in 1 .. a + b, pq[i] = pq[j]
        PROVE  i = j
    <2>1. CASE i \in 1 .. a /\ j \in 1 .. a
      BY <1>4, <1>8, <2>1
    <2>2. CASE i \in 1 .. a /\ j \notin 1 .. a
      <3>1. PICK k \in 1 .. b : j = k + a
        BY <1>6, <2>2
      <3> QED
        BY <1>4, <1>5, <1>8, <2>2, <3>1
    <2>3. CASE i \notin 1 .. a /\ j \in 1 .. a
      <3>1. PICK k \in 1 .. b : i = k + a
        BY <1>6, <2>3
      <3> QED
        BY <1>4, <1>5, <1>8, <2>3, <3>1
    <2>4. CASE i \notin 1 .. a /\ j \notin 1 .. a
      <3>1. PICK k \in 1 .. b, m \in 1 .. b : i = k + a /\ j = m + a
        BY <1>6, <2>4
      <3>2. q[k] = q[m]
        BY <1>5, <1>8, <3>1
      <3> QED
        BY <1>8, <3>1, <3>2
    <2> QED
      BY <2>1, <2>2, <2>3, <2>4
  <1> QED
    BY <1>0, <1>2, <1>3, <1>7, <1>8

LEMMA NothingIsLost ==
  ASSUME TSInv
  PROVE  NothingLost
  <1> SUFFICES ASSUME Quiet
               PROVE  LET all == popped \o Contents
                      IN /\ \A t \in Threads, k \in 1 .. MaxPushes :
                               k <= pushes[t] <=> \E i \in DOMAIN all : all[i] = <<t, k>>
                         /\ \A i, j \in DOMAIN all : all[i] = all[j] => i = j
                         /\ m_Count = Len(Contents)
    BY DEF NothingLost
  <1>1. PICK lists, rank : Shape(lists, rank)
    BY DEF TSInv
  <1>2. PICK in : in = Live(lists) \ {m_Head.node}
    OBVIOUS
  <1>3. /\ Listed(pNext, lists) /\ Headed(m_Head, m_Tail, lists[End]) /\ Owned(thread, lists)
        /\ Counted(m_Count, thread, lists) /\ Kept(pushes, popped, elem, in)
    BY <1>1, <1>2 DEF Shape
  <1>4. Typed
    BY DEF TSInv
  <1>5. \A t \in Threads : thread[t].at = "idle"
    BY DEF Quiet, At
  <1>6. PICK list : list = lists[End]
    OBVIOUS
  <1>7. Live(lists) = {n \in Nodes : IsIn(n, list)}
    <2>1. \A t \in Threads : lists[t] = <<>>
      BY <1>3, <1>5 DEF Owned, BeforeLink
    <2>2. \A t \in Threads : \A n : ~IsIn(n, lists[t])
      BY <2>1 DEF IsIn
    <2> QED
      BY <1>6, <2>2 DEF Live, Owners
  <1>8. PICK items : items = Contents
    OBVIOUS
  <1>9. /\ items \in Seq(Element) /\ Len(items) = Len(list) - 1 /\ Len(list) \in Nat \ {0}
        /\ \A i \in DOMAIN items :
             /\ i \in Nat /\ i + 1 \in DOMAIN list
             /\ items[i] = elem[list[i + 1]] /\ list[i + 1] # m_Head.node
        /\ \A n : IsIn(n, list) /\ n # m_Head.node => \E i \in DOMAIN items : list[i + 1] = n
    <2>1. InList(Contents, elem, lists[End], m_Head.node)
      BY <1>3, <1>4, ContentsIs
    <2>2. InList(items, elem, list, m_Head.node)
      BY <1>6, <1>8, <2>1
    <2> QED
      BY <2>2 DEF InList
  <1>10. /\ list \in Seq(Nodes)
         /\ \A i, j \in DOMAIN list : list[i] = list[j] => i = j
    BY <1>3, <1>6, HeadIs DEF Listed, Apart
  <1>11. \A i \in DOMAIN items : list[i + 1] \in in
    BY <1>2, <1>7, <1>9, <1>10 DEF IsIn
  <1>12. \A n \in in : \E i \in DOMAIN items : list[i + 1] = n
    BY <1>2, <1>7, <1>9
  <1>13. /\ popped \in Seq(Pushed(pushes)) /\ popped \in Seq(Element)
    BY <1>3, SeqIn DEF Kept, Pushed, Element
  <1>14. PICK all : all = popped \o items
    OBVIOUS
  <1>15. \A x : IsIn(x, all) <=> IsIn(x, popped) \/ IsIn(x, items)
    BY <1>9, <1>13, <1>14, BothIn
  <1>16. \A x \in Pushed(pushes) : IsIn(x, all)
    <2> SUFFICES ASSUME NEW x \in Pushed(pushes) PROVE IsIn(x, popped) \/ IsIn(x, items)
      BY <1>15
    <2>1. CASE \E n \in in : elem[n] = x
      <3>1. PICK n \in in : elem[n] = x
        BY <2>1
      <3>2. PICK i \in DOMAIN items : list[i + 1] = n
        BY <1>12
      <3> QED
        BY <1>9, <3>1, <3>2 DEF IsIn
    <2> QED
      BY <1>3, <2>1 DEF Kept
  <1>17. \A x : IsIn(x, all) => x \in Pushed(pushes)
    <2> SUFFICES ASSUME NEW x, IsIn(x, popped) \/ IsIn(x, items) PROVE x \in Pushed(pushes)
      BY <1>15
    <2>1. CASE IsIn(x, popped)
      BY <1>13, <2>1 DEF IsIn
    <2>2. CASE IsIn(x, items)
      <3>1. PICK i \in DOMAIN items : items[i] = x
        BY <2>2 DEF IsIn
      <3>2. x = elem[list[i + 1]] /\ list[i + 1] \in in
        BY <1>9, <1>11, <3>1
      <3> QED
        BY <1>3, <3>2 DEF Kept
    <2> QED
      BY <2>1, <2>2
  <1>18. ASSUME NEW t \in Threads, NEW k \in 1 .. MaxPushes
         PROVE  k <= pushes[t] <=> \E i \in DOMAIN all : all[i] = <<t, k>>
    <2>1. k <= pushes[t] <=> <<t, k>> \in Pushed(pushes)
      BY DEF Pushed, Items
    <2>2. <<t, k>> \in Pushed(pushes) <=> IsIn(<<t, k>>, all)
      BY <1>16, <1>17
    <2> QED
      BY <2>1, <2>2 DEF IsIn
  <1>19. \A i, j \in DOMAIN all : all[i] = all[j] => i = j
    <2>1. \A i, j \in DOMAIN popped : popped[i] = popped[j] => i = j
      BY <1>3 DEF Kept
    <2>2. ASSUME NEW i \in DOMAIN items, NEW j \in DOMAIN items, items[i] = items[j]
          PROVE  i = j
      <3>1. elem[list[i + 1]] = elem[list[j + 1]] /\ list[i + 1] \in in /\ list[j + 1] \in in
        BY <1>9, <1>11, <2>2
      <3>2. list[i + 1] = list[j + 1]
        BY <1>3, <3>1 DEF Kept
      <3>3. i + 1 = j + 1 /\ i \in Nat /\ j \in Nat
        BY <1>9, <1>10, <3>2
      <3> QED
        BY <3>3
    <2>3. ASSUME NEW i \in DOMAIN popped, NEW j \in DOMAIN items
          PROVE  popped[i] # items[j]
      BY <1>3, <1>9, <1>11 DEF Kept
    <2> QED
      BY <1>9, <1>13, <1>14, <2>1, <2>2, <2>3, BothIn
  <1>20. m_Count = Len(items)
    <2>1. Cardinality(Live(lists)) = Len(list)
      BY <1>7, <1>10, ListCounts
    <2>2. Threads_at(thread, Uncounted) = {} /\ Threads_at(thread, {"free"}) = {}
      BY <1>5 DEF Threads_at, Uncounted, BeforeLink
    <2>3. Cardinality({}) = 0
      BY FS_EmptySet
    <2>4. m_Count = Len(list) - 1 - 0 + 0
      BY <1>3, <2>1, <2>2, <2>3 DEF Counted
    <2> QED
      BY <1>9, <2>4
  <1> QED
    BY <1>8, <1>14, <1>18, <1>19, <1>20

\* Nothing is lost and nothing comes twice (tslist.h:793-977), for any number of
\* threads and nodes, and although nodes are used again.
THEOREM NothingLostThm == Spec => []NothingLost
  <1>1. TSInv => NothingLost
    BY NothingIsLost
  <1> QED
    BY <1>1, Invariance, PTL

----------------------------------------------------------------------------
(* The queue is a queue.                                                   *)

\* The items behind a node, and those of a list but its first node.
ItemsOf(next, el, n) == [i \in DOMAIN Following(next, n) |-> el[Following(next, n)[i]]]
ItemList(el, list) == [i \in 1 .. Len(list) - 1 |-> el[list[i + 1]]]

LEMMA ItemsAre ==
  ASSUME NEW next \in [Nodes -> Address], NEW el, NEW list \in Seq(Nodes), list # <<>>,
         Linked(next, list), \A i, j \in DOMAIN list : list[i] = list[j] => i = j
  PROVE  ItemsOf(next, el, list[1]) = ItemList(el, list)
  <1>1. PICK chain : chain = Following(next, list[1])
    OBVIOUS
  <1>2. chain = Tail(list)
    BY <1>1, ChainIs
  <1>3. PICK a \in Nat \ {0} : a = Len(list)
    OBVIOUS
  <1>4. /\ DOMAIN chain = 1 .. a - 1 /\ \A i \in 1 .. a - 1 : chain[i] = list[i + 1]
    BY <1>2, <1>3
  <1>5. [i \in DOMAIN chain |-> el[chain[i]]] = [i \in 1 .. a - 1 |-> el[list[i + 1]]]
    BY <1>4
  <1> QED
    BY <1>1, <1>3, <1>5 DEF ItemsOf, ItemList

LEMMA ContentsAre == /\ Contents = ItemsOf(pNext, elem, m_Head.node)
                     /\ Contents' = ItemsOf(pNext', elem', m_Head'.node)
  BY DEF Contents, Chain, ItemsOf

\* Nodes that are not in the list do not matter.
LEMMA SameItems ==
  ASSUME NEW next \in [Nodes -> Address], NEW next2 \in [Nodes -> Address], NEW el, NEW el2,
         NEW list \in Seq(Nodes), list # <<>>, Linked(next, list),
         \A i, j \in DOMAIN list : list[i] = list[j] => i = j,
         \A i \in DOMAIN list : next2[list[i]] = next[list[i]] /\ el2[list[i]] = el[list[i]]
  PROVE  ItemsOf(next2, el2, list[1]) = ItemsOf(next, el, list[1])
  <1>1. Linked(next2, list)
    BY DEF Linked
  <1>2. PICK a \in Nat \ {0} : a = Len(list) /\ DOMAIN list = 1 .. a
    OBVIOUS
  <1>3. \A i \in 1 .. a - 1 : el2[list[i + 1]] = el[list[i + 1]]
    <2>1. \A i \in 1 .. a - 1 : i + 1 \in 1 .. a
      BY <1>2
    <2> QED
      BY <1>2, <2>1
  <1>4. [i \in 1 .. a - 1 |-> el2[list[i + 1]]] = [i \in 1 .. a - 1 |-> el[list[i + 1]]]
    BY <1>3
  <1>5. ItemList(el2, list) = ItemList(el, list)
    BY <1>2, <1>4 DEF ItemList
  <1>6. ItemsOf(next, el, list[1]) = ItemList(el, list)
    BY ItemsAre
  <1>7. ItemsOf(next2, el2, list[1]) = ItemList(el2, list)
    BY <1>1, ItemsAre
  <1> QED
    BY <1>5, <1>6, <1>7

\* The list of the queue.
LEMMA QueueList ==
  ASSUME NEW next, NEW lists, Listed(next, lists), NEW head, NEW tail,
         Headed(head, tail, lists[End])
  PROVE  /\ lists[End] \in Seq(Nodes) /\ lists[End] # <<>> /\ lists[End][1] = head.node
         /\ Linked(next, lists[End])
         /\ \A i, j \in DOMAIN lists[End] : lists[End][i] = lists[End][j] => i = j
         /\ \A i \in DOMAIN lists[End] : lists[End][i] \in Live(lists)
  <1>1. End \in Owners
    BY DEF Owners
  <1>2. lists[End] \in Seq(Nodes)
    BY <1>1 DEF Listed
  <1>3. \A i \in DOMAIN lists[End] : lists[End][i] \in Nodes
    BY <1>2
  <1> QED
    BY <1>1, <1>2, <1>3 DEF Listed, Headed, Apart, Live, IsIn

\* A node that is in no list may be changed.
LEMMA HiddenChange ==
  ASSUME TSInv, NEW lists, NEW rank, Shape(lists, rank), NEW n, n \notin Live(lists),
         pNext' \in [Nodes -> Address], m_Head' = m_Head, popped' = popped,
         \A m \in Nodes \ {n} : pNext'[m] = pNext[m] /\ elem'[m] = elem[m]
  PROVE  ~Shows
  <1>1. Listed(pNext, lists) /\ Headed(m_Head, m_Tail, lists[End])
    BY DEF Shape
  <1>2. PICK list : list = lists[End]
    OBVIOUS
  <1>3. /\ list \in Seq(Nodes) /\ list # <<>> /\ list[1] = m_Head.node
        /\ Linked(pNext, list) /\ \A i, j \in DOMAIN list : list[i] = list[j] => i = j
        /\ \A i \in DOMAIN list : list[i] \in Live(lists)
    BY <1>1, <1>2, QueueList
  <1>4. \A i \in DOMAIN list : list[i] \in Nodes \ {n}
    BY <1>3
  <1>5. pNext \in [Nodes -> Address]
    BY DEF TSInv, Typed
  <1>6. ItemsOf(pNext', elem', list[1]) = ItemsOf(pNext, elem, list[1])
    BY <1>3, <1>4, <1>5, SameItems
  <1>7. Contents' = Contents
    BY <1>3, <1>6, ContentsAre
  <1> QED
    BY <1>7 DEF Shows

LEMMA PushHidden ==
  ASSUME TSInv, NEW t \in Threads, PushItem(t)
  PROVE  ~Shows
  <1>1. PICK n : n = IF m_FreeNodes # <<>> THEN Head(m_FreeNodes) ELSE allocated
    OBVIOUS
  <1>2. /\ n \in Nodes /\ m_Head' = m_Head /\ popped' = popped
        /\ pNext' = [pNext EXCEPT ![n] = End]
    BY <1>1 DEF PushItem
  <1>3. elem' = [elem EXCEPT ![n] = <<t, pushes[t] + 1>>]
    BY <1>1 DEF PushItem
  <1>4. PICK lists, rank : Shape(lists, rank)
    BY DEF TSInv
  <1>5. Freed(thread, m_FreeNodes, allocated, lists)
    BY <1>4 DEF Shape
  <1>6. n \notin Live(lists)
    <2>1. CASE m_FreeNodes # <<>>
      <3>1. m_FreeNodes \in Seq(Nodes)
        BY <1>5 DEF Freed
      <3>2. 1 \in DOMAIN m_FreeNodes /\ n = m_FreeNodes[1]
        BY <1>1, <2>1, <3>1
      <3> QED
        BY <1>5, <3>2 DEF Freed
    <2>2. CASE m_FreeNodes = <<>>
      <3>1. allocated \in Nat /\ n = allocated /\ ~(allocated < allocated)
        BY <1>1, <1>5, <2>2 DEF Freed
      <3> QED
        BY <1>5, <3>1 DEF Freed
    <2> QED
      BY <2>1, <2>2
  <1>7. pNext \in [Nodes -> Address] /\ elem \in [Nodes -> Element]
    BY DEF TSInv, Typed
  <1>8. /\ pNext' \in [Nodes -> Address]
        /\ \A m \in Nodes \ {n} : pNext'[m] = pNext[m] /\ elem'[m] = elem[m]
    BY <1>2, <1>3, <1>7 DEF Address
  <1> QED
    BY <1>2, <1>4, <1>6, <1>8, HiddenChange

LEMMA FreeHidden ==
  ASSUME TSInv, NEW t \in Threads, FreeNode(t)
  PROVE  ~Shows
  <1>1. PICK n, x : n = thread[t].node /\ x = IF m_FreeNodes = <<>> THEN NULL ELSE Head(m_FreeNodes)
    OBVIOUS
  <1>2. /\ thread[t].at = "free" /\ m_Head' = m_Head /\ popped' = popped
        /\ pNext' = [pNext EXCEPT ![n] = x]
    BY <1>1 DEF FreeNode, At, historyVars
  <1>3. elem' = [elem EXCEPT ![n] = thread[t].elem]
    BY <1>1 DEF FreeNode
  <1>4. PICK lists, rank : Shape(lists, rank)
    BY DEF TSInv
  <1>5. Freed(thread, m_FreeNodes, allocated, lists)
    BY <1>4 DEF Shape
  <1>6. n \notin Live(lists)
    BY <1>1, <1>2, <1>5 DEF Freed
  <1>7. x \in Address
    <2>1. m_FreeNodes \in Seq(Nodes)
      BY <1>5 DEF Freed
    <2> QED
      BY <1>1, <2>1 DEF Address
  <1>8. pNext \in [Nodes -> Address] /\ elem \in [Nodes -> Element]
    BY DEF TSInv, Typed
  <1>9. /\ pNext' \in [Nodes -> Address]
        /\ \A m \in Nodes \ {n} : pNext'[m] = pNext[m] /\ elem'[m] = elem[m]
    BY <1>2, <1>3, <1>7, <1>8
  <1> QED
    BY <1>2, <1>4, <1>6, <1>9, HiddenChange

\* A list that is one node longer or shorter.
LEMMA ItemListAppend ==
  ASSUME NEW el, NEW list \in Seq(Nodes), list # <<>>, NEW n
  PROVE  ItemList(el, Append(list, n)) = Append(ItemList(el, list), el[n])
  <1>1. PICK a \in Nat \ {0} : a = Len(list) /\ DOMAIN list = 1 .. a
    OBVIOUS
  <1>2. PICK long : long = Append(list, n)
    OBVIOUS
  <1>3. /\ Len(long) = a + 1 /\ long[a + 1] = n /\ \A i \in 1 .. a : long[i] = list[i]
    BY <1>1, <1>2
  <1>4. PICK b \in Nat : b = a - 1 /\ b + 1 = a
    BY <1>1
  <1>5. PICK items : items = [i \in 1 .. b |-> el[list[i + 1]]]
    OBVIOUS
  <1>6. PICK more : more = [i \in 1 .. b + 1 |-> el[long[i + 1]]]
    OBVIOUS
  <1>7. ItemList(el, list) = items /\ ItemList(el, long) = more
    BY <1>1, <1>3, <1>4, <1>5, <1>6 DEF ItemList
  <1>8. \A i \in 1 .. b : more[i] = items[i]
    <2>1. \A i \in 1 .. b : i \in 1 .. b + 1 /\ i + 1 \in 1 .. a
      BY <1>4
    <2> QED
      BY <1>3, <1>5, <1>6, <2>1
  <1>9. more[b + 1] = el[n]
    BY <1>3, <1>4, <1>6
  <1>10. PICK S : S = {items[i] : i \in 1 .. b} \cup {el[n]}
    OBVIOUS
  <1>11. items \in Seq(S) /\ Len(items) = b
    BY <1>5, <1>10
  <1>12. more = Append(items, el[n])
    <2>1. PICK longer : longer = Append(items, el[n])
      OBVIOUS
    <2>2. /\ longer \in Seq(S) /\ Len(longer) = b + 1 /\ longer[b + 1] = el[n]
          /\ \A i \in 1 .. b : longer[i] = items[i]
      BY <1>10, <1>11, <2>1
    <2>3. more \in [1 .. b + 1 -> S]
      <3>1. \A i \in 1 .. b + 1 : i \in 1 .. b \/ i = b + 1
        OBVIOUS
      <3>2. \A i \in 1 .. b + 1 : more[i] \in S
        BY <1>8, <1>9, <1>10, <3>1
      <3> QED
        BY <1>6, <3>2
    <2>4. longer \in [1 .. b + 1 -> S]
      BY <2>2
    <2>5. \A i \in 1 .. b + 1 : more[i] = longer[i]
      <3>1. \A i \in 1 .. b + 1 : i \in 1 .. b \/ i = b + 1
        OBVIOUS
      <3> QED
        BY <1>8, <1>9, <2>2, <3>1
    <2>6. more = longer
      BY <2>3, <2>4, <2>5
    <2> QED
      BY <2>1, <2>6
  <1> QED
    BY <1>2, <1>7, <1>12

LEMMA ItemListTail ==
  ASSUME NEW el, NEW list \in Seq(Nodes), NEW a \in Nat, a = Len(list), a > 1
  PROVE  /\ ItemList(el, list) # <<>> /\ Head(ItemList(el, list)) = el[list[2]]
         /\ ItemList(el, Tail(list)) = Tail(ItemList(el, list))
  <1>1. PICK rest : rest = Tail(list)
    OBVIOUS
  <1>2. Len(rest) = a - 1 /\ \A i \in 1 .. a - 1 : rest[i] = list[i + 1]
    BY <1>1
  <1>3. PICK b \in Nat : b = a - 2 /\ a - 1 = b + 1
    OBVIOUS
  <1>4. PICK items : items = [i \in 1 .. b + 1 |-> el[list[i + 1]]]
    OBVIOUS
  <1>5. PICK less : less = [i \in 1 .. b |-> el[rest[i + 1]]]
    OBVIOUS
  <1>6. ItemList(el, list) = items /\ ItemList(el, rest) = less
    <2>1. (b + 1) - 1 = b
      OBVIOUS
    <2> QED
      BY <1>2, <1>3, <1>4, <1>5, <2>1 DEF ItemList
  <1>7. PICK S : S = {items[i] : i \in 1 .. b + 1}
    OBVIOUS
  <1>8. items \in Seq(S) /\ Len(items) = b + 1
    BY <1>4, <1>7
  <1>9. items # <<>> /\ Head(items) = items[1]
    BY <1>8
  <1>10. items[1] = el[list[2]]
    <2>1. 1 \in 1 .. b + 1 /\ 1 + 1 = 2
      OBVIOUS
    <2> QED
      BY <1>4, <2>1
  <1>11. less = Tail(items)
    <2>1. PICK end : end = Tail(items)
      OBVIOUS
    <2>2. /\ end \in Seq(S) /\ Len(end) = b
          /\ \A i \in 1 .. b : end[i] = items[i + 1]
      BY <1>8, <1>9, <2>1
    <2>3. \A i \in 1 .. b : less[i] = items[i + 1] /\ items[i + 1] \in S
      <3>1. \A i \in 1 .. b : i + 1 \in 1 .. b + 1 /\ i + 1 \in 1 .. a - 1
        BY <1>3
      <3>2. \A i \in 1 .. b : rest[i + 1] = list[(i + 1) + 1]
        BY <1>2, <3>1
      <3> QED
        BY <1>4, <1>5, <1>7, <3>1, <3>2
    <2>4. less \in [1 .. b -> S] /\ end \in [1 .. b -> S]
      BY <1>5, <2>2, <2>3
    <2>5. \A i \in 1 .. b : less[i] = end[i]
      BY <2>2, <2>3
    <2> QED
      BY <2>1, <2>4, <2>5
  <1> QED
    BY <1>1, <1>6, <1>9, <1>10, <1>11

\* A swap of the link of the last node pushes an item; any other one is on a node
\* that was used again.
LEMMA LinkPushes ==
  ASSUME TSInv, NEW t \in Threads, LinkNode(t)
  PROVE  Shows => reused' \/ Abstract!Next
  <1>1. PICK tail, n : tail = thread[t].old.node /\ n = thread[t].node
    OBVIOUS
  <1>2. /\ thread[t].at = "link" /\ m_Head' = m_Head /\ elem' = elem
        /\ popped' = popped /\ reused' = reused
    BY DEF LinkNode, At, historyVars
  <1>3. CASE pNext[tail] # End
    <2>1. pNext' = pNext
      BY <1>1, <1>3 DEF LinkNode
    <2>2. Contents' = Contents
      BY <1>2, <2>1 DEF Contents, Chain
    <2> QED
      BY <1>2, <2>2 DEF Shows
  <1>4. CASE pNext[tail] = End /\ ~reused
    <2>1. pNext' = Relinked(pNext, tail, n)
      BY <1>1, <1>4 DEF LinkNode, Relinked
    <2>2. thread[t] \in Place /\ pNext \in [Nodes -> Address]
      BY DEF TSInv, Typed
    <2>3. n \in Nodes /\ tail \in Nodes
      <3>1. PICK s : s = thread[t]
        OBVIOUS
      <3>2. s \in [at : {"link"}, node : Nodes, old : Links]
        BY <1>2, <2>2, <3>1 DEF Place
      <3> QED
        BY <1>1, <3>1, <3>2 DEF Links
    <2>4. PICK lists, rank : Shape(lists, rank)
      BY DEF TSInv
    <2>5. /\ Listed(pNext, lists) /\ Headed(m_Head, m_Tail, lists[End]) /\ Owned(thread, lists)
          /\ Alone(thread, reused, lists)
          /\ Kept(pushes, popped, elem, Live(lists) \ {m_Head.node})
      BY <2>4 DEF Shape
    <2>6. PICK list, own : list = lists[End] /\ own = lists[t]
      OBVIOUS
    <2>7. /\ list \in Seq(Nodes) /\ list # <<>> /\ list[1] = m_Head.node
          /\ Linked(pNext, list) /\ \A i, j \in DOMAIN list : list[i] = list[j] => i = j
      BY <2>5, <2>6, QueueList
    <2>8. t \in Owners /\ End \in Owners /\ End # t
      BY Addresses DEF Owners
    <2>9. own \in Seq(Nodes) /\ own # <<>> /\ own[1] = n /\ Len(own) <= 1
      BY <1>1, <1>2, <1>4, <2>5, <2>6, <2>8 DEF Listed, Owned, BeforeLink, Alone
    <2>10. Len(own) = 1 /\ 1 \in DOMAIN own
      <3>1. PICK a \in Nat : a = Len(own) /\ a # 0 /\ a <= 1 /\ DOMAIN own = 1 .. a
        BY <2>9
      <3>2. a = 1
        BY <3>1
      <3> QED
        BY <3>1, <3>2
    <2>11. pNext[n] = End
      BY <2>5, <2>6, <2>8, <2>9, <2>10 DEF Listed, Linked
    <2>12. n \in Live(lists) /\ ~IsIn(n, list)
      BY <2>3, <2>5, <2>6, <2>8, <2>9, <2>10 DEF Live, IsIn, Listed, Apart
    <2>13. list[Len(list)] = tail
      <3>1. PICK l \in Owners : lists[l] # <<>> /\ lists[l][Len(lists[l])] = tail
        BY <1>4, <2>3, <2>5, LastOfList
      <3>2. Len(lists[l]) \in DOMAIN lists[l]
        BY <2>5, <3>1 DEF Listed
      <3>3. l \notin Threads
        BY <1>1, <1>2, <1>4, <2>5, <3>1, <3>2 DEF Alone, IsIn
      <3> QED
        BY <2>6, <3>1, <3>3 DEF Owners
    <2>14. PICK long : long = Append(list, n)
      OBVIOUS
    <2>15. PICK a \in Nat \ {0} : a = Len(list) /\ DOMAIN list = 1 .. a
      BY <2>7
    <2>16. /\ long \in Seq(Nodes) /\ Len(long) = a + 1 /\ DOMAIN long = 1 .. a + 1
           /\ long[a + 1] = n /\ long # <<>> /\ long[1] = m_Head.node
           /\ \A i \in 1 .. a : long[i] = list[i]
      BY <2>3, <2>7, <2>14, <2>15
    <2>17. \A i \in 1 .. a + 1 : i \in 1 .. a \/ i = a + 1
      OBVIOUS
    <2>18. \A i, j \in DOMAIN long : long[i] = long[j] => i = j
      <3>1. \A i \in 1 .. a : list[i] # n
        BY <2>12, <2>15 DEF IsIn
      <3> QED
        BY <2>7, <2>15, <2>16, <2>17, <3>1
    <2>19. /\ pNext' \in [Nodes -> Address] /\ pNext'[tail] = n
           /\ \A m \in Nodes \ {tail} : pNext'[m] = pNext[m]
      BY <2>1, <2>2, <2>3 DEF Relinked, Address
    <2>20. Linked(pNext', long)
      <3>1. ASSUME NEW i \in 1 .. a + 1
            PROVE  pNext'[long[i]] = IF i = a + 1 THEN End ELSE long[i + 1]
        <4>1. CASE i = a + 1
          <5>1. tail # n
            <6>1. IsIn(tail, list)
              BY <2>13, <2>15 DEF IsIn
            <6> QED
              BY <2>12, <6>1
          <5> QED
            BY <2>3, <2>11, <2>16, <2>19, <4>1, <5>1
        <4>2. CASE i = a
          <5>1. a \in 1 .. a /\ a # a + 1
            BY <2>15
          <5> QED
            BY <2>13, <2>15, <2>16, <2>19, <4>2, <5>1
        <4>3. CASE i # a + 1 /\ i # a
          <5>1. /\ i \in 1 .. a /\ i + 1 \in 1 .. a /\ a \in 1 .. a
            BY <4>3
          <5>2. list[i] # tail /\ list[i] \in Nodes
            BY <2>7, <2>13, <2>15, <4>3, <5>1
          <5>3. pNext[list[i]] = list[i + 1]
            BY <2>7, <2>15, <4>3, <5>1 DEF Linked
          <5> QED
            BY <2>16, <2>19, <4>3, <5>1, <5>2, <5>3
        <4> QED
          BY <4>1, <4>2, <4>3
      <3> QED
        BY <2>16, <3>1 DEF Linked
    <2>21. Contents = ItemList(elem, list)
      BY <2>2, <2>7, ItemsAre, ContentsAre
    <2>22. Contents' = ItemList(elem, long)
      <3>1. ItemsOf(pNext', elem, long[1]) = ItemList(elem, long)
        BY <2>16, <2>18, <2>19, <2>20, ItemsAre
      <3> QED
        BY <1>2, <2>16, <3>1, ContentsAre
    <2>23. Contents' = Append(Contents, elem[n])
      BY <2>7, <2>14, <2>21, <2>22, ItemListAppend
    <2>24. elem[n] \in Items
      <3>1. 1 \in DOMAIN list
        BY <2>15
      <3>2. n # m_Head.node
        BY <2>7, <2>12, <3>1 DEF IsIn
      <3> QED
        BY <2>5, <2>12, <3>2 DEF Kept, Pushed
    <2> QED
      BY <1>2, <2>23, <2>24 DEF Abstract!Next, Abstract!Push
  <1>5. CASE reused
    BY <1>2, <1>5
  <1> QED
    BY <1>3, <1>4, <1>5

\* A swap of the head pops one.
LEMMA SwapPops ==
  ASSUME TSInv, NEW t \in Threads, SwapHead(t)
  PROVE  Shows => Abstract!Next
  <1>1. PICK old : old = thread[t]
    OBVIOUS
  <1>2. old.at = "swap" /\ old \in Place
    BY <1>1, Before DEF SwapHead, At
  <1>3. old.next \in Nodes /\ old.elem \in Element
    BY <1>2, PlaceIs
  <1>4. pNext' = pNext /\ elem' = elem
    BY DEF SwapHead
  <1>5. CASE m_Head # old.head
    <2>1. m_Head' = m_Head /\ popped' = popped
      BY <1>1, <1>5 DEF SwapHead, SameHead
    <2>2. Contents' = Contents
      BY <1>4, <2>1 DEF Contents, Chain
    <2> QED
      BY <2>1, <2>2 DEF Shows
  <1>6. CASE m_Head = old.head
    <2>1. /\ m_Head' = Link(old.next, m_Head.sequence + 1)
          /\ popped' = Append(popped, old.elem)
      BY <1>1, <1>6 DEF SwapHead, SameHead
    <2>2. PICK lists, rank : Shape(lists, rank)
      BY DEF TSInv
    <2>3. Listed(pNext, lists) /\ Headed(m_Head, m_Tail, lists[End])
      BY <2>2 DEF Shape
    <2>4. /\ pNext[m_Head.node] = old.next /\ old.elem = elem[old.next]
          /\ m_Tail.node # m_Head.node
      BY <1>1, <1>2, <1>6, Before DEF HeadRead
    <2>5. pNext[m_Head.node] # End
      BY <1>3, <2>4, Addresses
    <2>6. PICK list : list = lists[End]
      OBVIOUS
    <2>7. /\ list \in Seq(Nodes) /\ list # <<>> /\ list[1] = m_Head.node
          /\ Linked(pNext, list) /\ \A i, j \in DOMAIN list : list[i] = list[j] => i = j
      BY <2>3, <2>6, QueueList
    <2>8. Len(lists[End]) > 1 /\ lists[End][2] = pNext[m_Head.node]
      BY <2>3, <2>5, Second
    <2>9. PICK a \in Nat : a = Len(list) /\ a > 1
      BY <2>6, <2>7, <2>8
    <2>10. list[2] = old.next
      BY <2>4, <2>6, <2>8
    <2>11. PICK new : new = Shrunk(lists)
      OBVIOUS
    <2>12. /\ Listed(pNext, new) /\ new[End] # <<>> /\ new[End][1] = old.next
           /\ IsIn(m_Tail.node, new[End])
      <3>1. ShrunkTo(pNext, lists, Shrunk(lists), m_Head.node, pNext[m_Head.node], m_Tail.node)
        BY <2>3, <2>4, <2>5, ShrunkIs
      <3>2. ShrunkTo(pNext, lists, new, m_Head.node, old.next, m_Tail.node)
        BY <2>4, <2>11, <3>1
      <3> QED
        BY <3>2 DEF ShrunkTo
    <2>13. m_Head'.node = old.next
      BY <2>1 DEF Link
    <2>14. Headed(m_Head', m_Tail, new[End])
      BY <2>12, <2>13 DEF Headed
    <2>15. PICK rest : rest = new[End]
      OBVIOUS
    <2>16. rest = Tail(list)
      <3>1. End \in Owners /\ lists \in [Owners -> Seq(Nodes)]
        BY <2>3 DEF Owners, Listed
      <3> QED
        BY <2>6, <2>11, <2>15, <3>1 DEF Shrunk
    <2>17. /\ rest \in Seq(Nodes) /\ rest # <<>> /\ rest[1] = m_Head'.node
           /\ Linked(pNext, rest) /\ \A i, j \in DOMAIN rest : rest[i] = rest[j] => i = j
      BY <2>12, <2>14, <2>15, QueueList
    <2>18. pNext \in [Nodes -> Address]
      BY DEF TSInv, Typed
    <2>19. Contents = ItemList(elem, list)
      BY <2>7, <2>18, ItemsAre, ContentsAre
    <2>20. Contents' = ItemList(elem, rest)
      BY <1>4, <2>17, <2>18, ItemsAre, ContentsAre
    <2>21. /\ ItemList(elem, list) # <<>> /\ Head(ItemList(elem, list)) = elem[list[2]]
           /\ ItemList(elem, Tail(list)) = Tail(ItemList(elem, list))
      BY <2>7, <2>9, ItemListTail
    <2>22. Contents # <<>> /\ Contents' = Tail(Contents) /\ Head(Contents) = old.elem
      BY <2>4, <2>10, <2>16, <2>19, <2>20, <2>21
    <2> QED
      BY <2>1, <2>22 DEF Abstract!Next, Abstract!Pop
  <1> QED
    BY <1>5, <1>6

LEMMA OtherHidden ==
  ASSUME NEW t \in Threads,
         \/ ReadTailSequence(t) \/ ReadTailNode(t) \/ ReadLinked(t) \/ FinishPush(t)
         \/ HelpPush(t) \/ PopItem(t) \/ ReadHeadSequence(t) \/ ReadHeadNode(t)
         \/ ReadTailForPop(t) \/ ReadNext(t) \/ CheckSequence(t) \/ ReturnNull(t)
         \/ HelpFromPop(t) \/ FinishForPop(t) \/ ReadElement(t)
  PROVE  ~Shows
  <1>1. m_Head' = m_Head /\ pNext' = pNext /\ elem' = elem /\ popped' = popped
    BY DEF ReadTailSequence, ReadTailNode, ReadLinked, FinishPush, HelpPush, PopItem,
           ReadHeadSequence, ReadHeadNode, ReadTailForPop, ReadNext, CheckSequence,
           ReturnNull, HelpFromPop, FinishForPop, ReadElement, queueVars, historyVars
  <1>2. Contents' = Contents
    BY <1>1 DEF Contents, Chain
  <1> QED
    BY <1>1, <1>2 DEF Shows

LEMMA InitEmpty == Init => Abstract!Init
  <1> SUFFICES ASSUME Init PROVE Abstract!Init
    OBVIOUS
  <1>1. TSInv
    BY InitInv
  <1>2. PICK lists, rank : Shape(lists, rank)
    BY <1>1 DEF TSInv
  <1>3. Typed /\ Listed(pNext, lists) /\ Headed(m_Head, m_Tail, lists[End])
    BY <1>1, <1>2 DEF TSInv, Shape
  <1>4. m_Head.node = 0 /\ pNext[0] = End /\ popped = <<>>
    BY BoundsAssumption DEF Init, Link, Nodes
  <1>5. Chain = <<>>
    BY <1>3, <1>4, ChainIsTail
  <1>6. Contents = <<>>
    BY <1>5 DEF Contents
  <1> QED
    BY <1>4, <1>6 DEF Abstract!Init

\* CTSQueue is a queue (tslist.h:6, "FIFO"): each step pushes an item, pops the oldest
\* one, or does not show, for any number of threads and nodes and any interleaving, as
\* long as no node is used again that another thread is about to link to.
THEOREM ImplementsFifoThm == Spec => ImplementsFifo
  <1>1. TSInv /\ [Next]_vars => [Shows => reused' \/ Abstract!Next]_vars
    <2> SUFFICES ASSUME TSInv, NEW t \in Threads, Step(t)
                 PROVE  Shows => reused' \/ Abstract!Next
      BY DEF Next
    <2> QED
      BY PushHidden, FreeHidden, LinkPushes, SwapPops, OtherHidden
         DEF Step, PushStep, PopStep
  <1> QED
    BY <1>1, Invariance, InitEmpty, PTL DEF Spec, ImplementsFifo
=============================================================================
