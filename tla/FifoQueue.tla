----------------------------- MODULE FifoQueue -----------------------------
(***************************************************************************)
(* What CTSQueue promises its users: a queue.  Items leave in the order    *)
(* they came in, each once.                                                *)
(***************************************************************************)
EXTENDS Sequences

CONSTANT Items

VARIABLES
    queue,    \* the items in it
    popped    \* the items taken out, in order

vars == <<queue, popped>>

Init == queue = <<>> /\ popped = <<>>

Push(item) ==
    /\ queue' = Append(queue, item)
    /\ UNCHANGED popped

Pop ==
    /\ queue # <<>>
    /\ queue' = Tail(queue)
    /\ popped' = Append(popped, Head(queue))

Next == (\E item \in Items : Push(item)) \/ Pop

Spec == Init /\ [][Next]_vars

=============================================================================
