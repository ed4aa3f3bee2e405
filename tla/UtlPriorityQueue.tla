-------------------------- MODULE UtlPriorityQueue --------------------------
(***************************************************************************)
(* CUtlPriorityQueue (src/src/public/tier1/utlpriorityqueue.h): a binary   *)
(* heap in a vector.  Indices start at 1 here, so that the children of i   *)
(* are 2i and 2i + 1.                                                      *)
(***************************************************************************)
EXTENDS Naturals, Sequences

CONSTANTS
    Elements,
    LessFunc(_, _)    \* the first has less priority than the second

Swap(heap, i, j) == [heap EXCEPT ![i] = heap[j], ![j] = heap[i]]

\* a heap and the index of one of its elements
Cursors == {s \in Seq(Elements) \X Nat : s[2] \in DOMAIN s[1]}

\* the loop of Insert: up, until the parent has more priority
SiftUp[s \in Cursors] ==
    LET heap == s[1]
        i == s[2]
    IN IF i = 1 \/ LessFunc(heap[i], heap[i \div 2]) THEN heap
       ELSE SiftUp[<<Swap(heap, i, i \div 2), i \div 2>>]

\* the one of i and its children that has the most priority
Larger(heap, i) ==
    LET pick(a, b) == IF b <= Len(heap) /\ LessFunc(heap[a], heap[b]) THEN b ELSE a
    IN pick(pick(i, 2 * i), 2 * i + 1)

\* the loop of RemoveAtHead and RemoveAt: down, below no child of less priority
SiftDown[s \in Cursors] ==
    LET heap == s[1]
        i == s[2]
    IN IF Larger(heap, i) = i THEN heap
       ELSE SiftDown[<<Swap(heap, i, Larger(heap, i)), Larger(heap, i)>>]

\* CUtlVector::FastRemove: the last element takes the place of the removed one
FastRemove(heap, i) ==
    SubSeq([heap EXCEPT ![i] = heap[Len(heap)]], 1, Len(heap) - 1)

\* mutant: the element stays at the tail
InsertAtTail(heap, e) == Append(heap, e)
Insert(heap, e) == SiftUp[<<Append(heap, e), Len(heap) + 1>>]

\* mutant: the last element is dropped, not moved
RemoveAtShort(heap, i) == SubSeq(heap, 1, Len(heap) - 1)
RemoveAt(heap, i) ==
    IF i = Len(heap) THEN FastRemove(heap, i) ELSE SiftDown[<<FastRemove(heap, i), i>>]

RemoveAtHead(heap) == RemoveAt(heap, 1)

=============================================================================
