--------------------------- MODULE ReliableStream ---------------------------
(***************************************************************************)
(* What one reliable stream of a CNetChan promises its users: the items    *)
(* handed to it are handed over at the other end once each, in order, a    *)
(* block of several items at a time.                                       *)
(***************************************************************************)
EXTENDS Naturals, Sequences

CONSTANT Items

VARIABLES
    pending,     \* items sent and not delivered yet
    delivered    \* items handed to the handler of the other end

vars == <<pending, delivered>>

Init == pending = <<>> /\ delivered = <<>>

Send(item) ==
    /\ pending' = Append(pending, item)
    /\ UNCHANGED delivered

Deliver(n) ==
    /\ delivered' = delivered \o SubSeq(pending, 1, n)
    /\ pending' = SubSeq(pending, n + 1, Len(pending))

DeliverSome == \E n \in 1 .. Len(pending) : Deliver(n)

\* Clear(): the stream starts over and what was not delivered is given up; the
\* one that clears first writes the message that makes the other end clear.
Clear(first) == pending' = first /\ delivered' = <<>>
Restart == \E first \in {<<>>} \cup {<<item>> : item \in Items} : Clear(first)

Next == (\E item \in Items : Send(item)) \/ DeliverSome \/ Restart

Spec == Init /\ [][Next]_vars
FairSpec == Spec /\ WF_vars(DeliverSome)

=============================================================================
