------------------------------ MODULE TSQueue ------------------------------
(***************************************************************************)
(* CTSQueue (src/src/public/tier0/tslist.h): a queue for many threads and  *)
(* no lock.  It is a list with a dummy node in front; head and tail are a  *)
(* node and a sequence number that are compared and swapped together, the  *)
(* link of a node is swapped alone.  PushItem takes its node from a list   *)
(* of free nodes, where PopItem puts those it has emptied; both stand for  *)
(* one step each here, the list is itself without locks (CTSListBase).     *)
(*                                                                         *)
(* A step of a thread is one access to memory the threads share.  The      *)
(* loops of Push and Pop are steps that lead back.                         *)
(***************************************************************************)
EXTENDS Integers, Sequences, FiniteSets

CONSTANTS
    Threads,
    End, NULL,            \* the address of the queue itself, the null pointer
    MaxNodes,             \* bounds: nodes allocated, operations of a thread
    MaxPushes, MaxPops

ASSUME BoundsAssumption == MaxNodes \in Nat \ {0} /\ MaxPushes \in Nat /\ MaxPops \in Nat

\* the address of the queue is neither a node's nor a thread
ASSUME AddressAssumption ==
    /\ IsFiniteSet(Threads)
    /\ End # NULL /\ End \notin Threads
    /\ {End, NULL} \cap (0 .. MaxNodes - 1) = {}

VARIABLES
    m_Head, m_Tail,   \* NodeLink_t
    m_Count,
    pNext, elem,      \* the fields of the nodes
    m_FreeNodes,      \* a stack
    allocated,        \* how many nodes were made
    thread,           \* where each thread is, and its local variables
    pushes, pops,     \* operations begun by each thread
    popped,           \* history: the items taken out
    wasEmpty,         \* history: was the queue empty since the thread began its Pop?
    lied,             \* history: did a Pop find nothing in a queue that was never empty?
    reused            \* history: was a node used again that another thread was about to link to?

queueVars == <<m_Head, m_Tail, m_Count, pNext, elem, m_FreeNodes, allocated>>
historyVars == <<popped, wasEmpty, lied, reused>>
vars == <<queueVars, thread, pushes, pops, historyVars>>

Nodes == 0 .. MaxNodes - 1
Items == Threads \X (1 .. MaxPushes)      \* the k-th item of a thread
NoItem == <<>>

Link(node, sequence) == [node |-> node, sequence |-> sequence]

\* the nodes that follow n
Following(next, n) ==
    LET node[k \in 0 .. MaxNodes] ==
          IF k = 0 THEN n
          ELSE LET before == node[k - 1] IN IF before \in Nodes THEN next[before] ELSE NULL
    IN [k \in {i \in 1 .. MaxNodes : node[i] \in Nodes} |-> node[k]]
Chain == Following(pNext, m_Head.node)
Contents == LET chain == Chain IN [i \in DOMAIN chain |-> elem[chain[i]]]

Idle == [at |-> "idle"]
At(t, place) == thread[t].at = place
Go(t, local) == thread' = [thread EXCEPT ![t] = local]

Init ==
    /\ m_Head = Link(0, 0) /\ m_Tail = Link(0, 0) /\ m_Count = 0
    /\ pNext = [n \in Nodes |-> IF n = 0 THEN End ELSE NULL]
    /\ elem = [n \in Nodes |-> NoItem]
    /\ m_FreeNodes = <<>> /\ allocated = 1
    /\ thread = [t \in Threads |-> Idle]
    /\ pushes = [t \in Threads |-> 0] /\ pops = [t \in Threads |-> 0]
    /\ popped = <<>> /\ wasEmpty = [t \in Threads |-> FALSE]
    /\ lied = FALSE /\ reused = FALSE

----------------------------------------------------------------------------
(* PushItem                                                                *)

\* the thread has read the tail and will link its node to this one
AboutToLink(t, n) == At(t, "link") /\ thread[t].old.node = n

\* a free node or a new one, filled, with no successor
PushItem(t) ==
    LET free == m_FreeNodes # <<>>
        n == IF free THEN Head(m_FreeNodes) ELSE allocated
    IN /\ At(t, "idle") /\ pushes[t] < MaxPushes
       /\ n \in Nodes
       /\ m_FreeNodes' = IF free THEN Tail(m_FreeNodes) ELSE <<>>
       /\ allocated' = IF free THEN allocated ELSE allocated + 1
       /\ elem' = [elem EXCEPT ![n] = <<t, pushes[t] + 1>>]
       /\ pNext' = [pNext EXCEPT ![n] = End]
       /\ pushes' = [pushes EXCEPT ![t] = @ + 1]
       /\ reused' = (reused \/ \E u \in Threads \ {t} : AboutToLink(u, n))
       /\ Go(t, [at |-> "tail_sequence", node |-> n])
       /\ UNCHANGED <<m_Head, m_Tail, m_Count, pops, popped, wasEmpty, lied>>

ReadTailSequence(t) ==
    /\ At(t, "tail_sequence")
    /\ Go(t, [at |-> "tail_node", node |-> thread[t].node, sequence |-> m_Tail.sequence])
    /\ UNCHANGED <<queueVars, pushes, pops, historyVars>>

ReadTailNode(t) ==
    /\ At(t, "tail_node")
    /\ Go(t, [at |-> "link", node |-> thread[t].node,
              old |-> Link(m_Tail.node, thread[t].sequence)])
    /\ UNCHANGED <<queueVars, pushes, pops, historyVars>>

\* InterlockedCompareExchangeNode: the node gets a successor if it has none
LinkNode(t) ==
    LET tail == thread[t].old.node
        linked == pNext[tail] = End
    IN /\ At(t, "link")
       /\ pNext' = IF linked THEN [pNext EXCEPT ![tail] = thread[t].node] ELSE pNext
       /\ Go(t, [thread[t] EXCEPT !.at = IF linked THEN "finish" ELSE "help"])
       /\ UNCHANGED <<m_Head, m_Tail, m_Count, elem, m_FreeNodes, allocated, pushes, pops, historyVars>>

\* another thread is pushing: its node is read, and the tail moved for it
ReadLinked(t) ==
    LET old == thread[t].old
    IN /\ At(t, "help")
       /\ Go(t, [at |-> "finish_other", node |-> thread[t].node, old |-> old,
                 other |-> pNext[old.node]])
       /\ UNCHANGED <<queueVars, pushes, pops, historyVars>>

\* FinishPush: the tail moves on unless somebody has moved it
MovedTail(node, old) == IF m_Tail = old THEN Link(node, old.sequence + 1) ELSE m_Tail

\* the own node is linked: it counts, and PushItem returns
FinishPush(t) ==
    /\ At(t, "finish")
    /\ m_Tail' = MovedTail(thread[t].node, thread[t].old)
    /\ m_Count' = m_Count + 1
    /\ Go(t, Idle)
    /\ UNCHANGED <<m_Head, pNext, elem, m_FreeNodes, allocated, pushes, pops, historyVars>>

\* mutant: the tail is left to the thread that is pushing
LeaveIt(t) ==
    /\ At(t, "finish_other")
    /\ Go(t, [at |-> "tail_sequence", node |-> thread[t].node])
    /\ UNCHANGED <<queueVars, pushes, pops, historyVars>>
HelpPush(t) ==
    /\ At(t, "finish_other")
    /\ m_Tail' = MovedTail(thread[t].other, thread[t].old)
    /\ Go(t, [at |-> "tail_sequence", node |-> thread[t].node])
    /\ UNCHANGED <<m_Head, m_Count, pNext, elem, m_FreeNodes, allocated, pushes, pops, historyVars>>

----------------------------------------------------------------------------
(* PopItem                                                                 *)

Again(t) == Go(t, [at |-> "head_sequence"])

PopItem(t) ==
    /\ At(t, "idle") /\ pops[t] < MaxPops
    /\ pops' = [pops EXCEPT ![t] = @ + 1]
    /\ wasEmpty' = [wasEmpty EXCEPT ![t] = Chain = <<>>]
    /\ Again(t)
    /\ UNCHANGED <<queueVars, pushes, popped, lied, reused>>

ReadHeadSequence(t) ==
    /\ At(t, "head_sequence")
    /\ Go(t, [at |-> "head_node", sequence |-> m_Head.sequence])
    /\ UNCHANGED <<queueVars, pushes, pops, historyVars>>

ReadHeadNode(t) ==
    /\ At(t, "head_node")
    /\ Go(t, [at |-> "head_tail", head |-> Link(m_Head.node, thread[t].sequence)])
    /\ UNCHANGED <<queueVars, pushes, pops, historyVars>>

ReadTailForPop(t) ==
    /\ At(t, "head_tail")
    /\ Go(t, [at |-> "next", head |-> thread[t].head, tailSequence |-> m_Tail.sequence])
    /\ UNCHANGED <<queueVars, pushes, pops, historyVars>>

ReadNext(t) ==
    /\ At(t, "next")
    /\ Go(t, [at |-> "check", head |-> thread[t].head, tailSequence |-> thread[t].tailSequence,
              next |-> pNext[thread[t].head.node]])
    /\ UNCHANGED <<queueVars, pushes, pops, historyVars>>

\* the head may have moved since its sequence was read, and its node be used again
\* mutant: only a node that is free shows
CheckNull(t) ==
    /\ At(t, "check")
    /\ IF thread[t].next = NULL THEN Again(t) ELSE Go(t, [thread[t] EXCEPT !.at = "compare"])
    /\ UNCHANGED <<queueVars, pushes, pops, historyVars>>
CheckSequence(t) ==
    /\ At(t, "check")
    /\ IF thread[t].next = NULL \/ thread[t].head.sequence # m_Head.sequence
         THEN Again(t)
         ELSE Go(t, [thread[t] EXCEPT !.at = "compare"])
    /\ UNCHANGED <<queueVars, pushes, pops, historyVars>>

AtTail(t) == thread[t].head.node = m_Tail.node

\* the queue is empty: PopItem returns false
ReturnNull(t) ==
    /\ At(t, "compare") /\ AtTail(t) /\ thread[t].next = End
    /\ lied' = (lied \/ ~wasEmpty[t])
    /\ Go(t, Idle)
    /\ UNCHANGED <<queueVars, pushes, pops, popped, wasEmpty, reused>>

\* a push is under way: the tail is moved for it
HelpFromPop(t) ==
    /\ At(t, "compare") /\ AtTail(t) /\ thread[t].next # End
    /\ Go(t, [at |-> "finish_for_pop", other |-> thread[t].next,
              old |-> Link(thread[t].head.node, thread[t].tailSequence)])
    /\ UNCHANGED <<queueVars, pushes, pops, historyVars>>

FinishForPop(t) ==
    /\ At(t, "finish_for_pop")
    /\ m_Tail' = MovedTail(thread[t].other, thread[t].old)
    /\ Again(t)
    /\ UNCHANGED <<m_Head, m_Count, pNext, elem, m_FreeNodes, allocated, pushes, pops, historyVars>>

\* the element of the next node is read before the node is known to be one's own
ReadElement(t) ==
    /\ At(t, "compare") /\ ~AtTail(t)
    /\ IF thread[t].next = End THEN Again(t)
       ELSE Go(t, [at |-> "swap", head |-> thread[t].head, next |-> thread[t].next,
                   elem |-> elem[thread[t].next]])
    /\ UNCHANGED <<queueVars, pushes, pops, historyVars>>

\* mutant: only the nodes are compared
SameNode(t) == m_Head.node = thread[t].head.node
SameHead(t) == m_Head = thread[t].head

SwapHead(t) ==
    LET last == Len(Chain) = 1
    IN /\ At(t, "swap")
       /\ IF SameHead(t)
            THEN /\ m_Head' = Link(thread[t].next, thread[t].head.sequence + 1)
                 /\ popped' = Append(popped, thread[t].elem)
                 /\ wasEmpty' = [u \in Threads |-> wasEmpty[u] \/ last]
                 /\ Go(t, [at |-> "free", node |-> thread[t].head.node, elem |-> thread[t].elem])
            ELSE /\ Again(t)
                 /\ UNCHANGED <<m_Head, popped, wasEmpty>>
       /\ UNCHANGED <<m_Tail, m_Count, pNext, elem, m_FreeNodes, allocated, pushes, pops, lied, reused>>

\* the old head keeps the element for the caller and is free, its link that of the list
FreeNode(t) ==
    LET n == thread[t].node
    IN /\ At(t, "free")
       /\ m_Count' = m_Count - 1
       /\ elem' = [elem EXCEPT ![n] = thread[t].elem]
       /\ pNext' = [pNext EXCEPT ![n] = IF m_FreeNodes = <<>> THEN NULL ELSE Head(m_FreeNodes)]
       /\ m_FreeNodes' = <<n>> \o m_FreeNodes
       /\ Go(t, Idle)
       /\ UNCHANGED <<m_Head, m_Tail, allocated, pushes, pops, historyVars>>

----------------------------------------------------------------------------

PushStep(t) ==
    PushItem(t) \/ ReadTailSequence(t) \/ ReadTailNode(t) \/ LinkNode(t)
      \/ ReadLinked(t) \/ FinishPush(t) \/ HelpPush(t)

PopStep(t) ==
    PopItem(t) \/ ReadHeadSequence(t) \/ ReadHeadNode(t) \/ ReadTailForPop(t) \/ ReadNext(t)
      \/ CheckSequence(t) \/ ReturnNull(t) \/ HelpFromPop(t) \/ FinishForPop(t)
      \/ ReadElement(t) \/ SwapHead(t) \/ FreeNode(t)

Step(t) == PushStep(t) \/ PopStep(t)

Next == \E t \in Threads : Step(t)

Spec == Init /\ [][Next]_vars

----------------------------------------------------------------------------
(* Properties                                                              *)

Quiet == \A t \in Threads : At(t, "idle")

\* Head, tail and links are of their types, and no node is free twice, or free
\* and in the queue.
TypeOK ==
    /\ {m_Head, m_Tail} \subseteq [node : Nodes, sequence : Nat]
    /\ pNext \in [Nodes -> Nodes \cup {End, NULL}]
    /\ elem \in [Nodes -> Items \cup {NoItem}]
    /\ m_Count \in -Cardinality(Threads) .. MaxNodes
    /\ \A i, k \in DOMAIN m_FreeNodes : m_FreeNodes[i] = m_FreeNodes[k] => i = k
    /\ LET chain == Chain
       IN \A i \in DOMAIN m_FreeNodes :
             m_FreeNodes[i] # m_Head.node /\ \A k \in DOMAIN chain : m_FreeNodes[i] # chain[k]

Abstract == INSTANCE FifoQueue WITH queue <- Contents, popped <- popped

\* a step its users see
Shows == <<Contents, popped>>' # <<Contents, popped>>

\* CTSQueue is a queue: each step pushes an item, pops one, or does not show,
\* as long as no node is used again that another thread is about to link to
\* (a Push that was stopped between the reading of the tail and the swap,
\* tslist.h:875-877: the link has no sequence number that would tell).
ImplementsFifo ==
    Abstract!Init /\ [][Shows => reused' \/ Abstract!Next]_vars

\* A Pop finds nothing only if the queue was empty at some moment since it began
\* (it decides so from four values it has read one after the other,
\* tslist.h:912-935).
NullOnlyIfEmpty == ~lied

\* Nothing is lost and nothing comes twice, nodes used again or not: when all
\* operations are over, each item that was pushed was popped or is in the queue,
\* and the count is that of the queue.
NothingLost ==
    Quiet =>
        LET all == popped \o Contents
        IN /\ \A t \in Threads, k \in 1 .. MaxPushes :
                 k <= pushes[t] <=> \E i \in DOMAIN all : all[i] = <<t, k>>
           /\ \A i, j \in DOMAIN all : all[i] = all[j] => i = j
           /\ m_Count = Len(Contents)

\* No thread needs another one to go on: it ends its operation although all others
\* may be stopped anywhere, in the middle of a Push for instance, whose tail it
\* moves itself (tslist.h:881-884).
NonBlocking ==
    \A t \in Threads : WF_vars(Step(t)) => (~At(t, "idle") ~> At(t, "idle"))

\* "FIFO" (tslist.h:6): of the items of one thread, the first one pushed is the
\* first one popped.
FirstInFirstOut ==
    \A i, j \in DOMAIN popped : popped[i][1] = popped[j][1] /\ i < j => popped[i][2] < popped[j][2]

=============================================================================
