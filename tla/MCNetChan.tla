----------------------------- MODULE MCNetChan -----------------------------
(***************************************************************************)
(* Instances of NetChan for TLC.  Sequence numbers grow for ever, but the  *)
(* code only compares them (apart from the gap it reports), so a state is  *)
(* as good as the one with its numbers replaced by their ranks.  Renumber  *)
(* does that as soon as a number is out of use, which makes the behaviours *)
(* of the protocol finitely many without a bound on retransmissions.  A    *)
(* run that checks invariants only can leave it to the view instead.       *)
(***************************************************************************)
EXTENDS NetChanProperties

CONSTANTS
    ClientItems,   \* what the client sends
    LargeItems,    \* the items of LargeBytes bytes, the others have one
    LargeBytes,
    ServerCap,     \* datagrams of the server in flight
    ClientCap      \* datagrams of the client in flight

MCSender == [i \in Item |-> IF i \in ClientItems THEN "client" ELSE "server"]
MCBytes == [i \in Item |-> IF i \in LargeItems THEN LargeBytes ELSE 1]
MCNetCap == [s \in Side |-> IF s = "server" THEN ServerCap ELSE ClientCap]
MCPacked == [b \in 0 .. NET_MAX_PAYLOAD |-> (b + 1) \div 2]

\* the numbers of the datagrams of s that the two ends and the network hold
Numbers(s) ==
    {outSeq[s], inSeq[Peer(s)], outAck[s]}
      \cup {p.seq : p \in InFlight(s)}
      \cup {p.ack : p \in InFlight(Peer(s))}
      \cup {sub[s][c].sendSeq : c \in SubChannel}

Used(s) == Numbers(s) \ {-1, 0}
Rank(s, x) == IF x <= 0 THEN x ELSE Cardinality({y \in Used(s) : y <= x})
Renumbered == \A s \in Side : \A x \in Used(s) : Rank(s, x) = x

Renumber ==
    /\ outSeq' = [s \in Side |-> Rank(s, outSeq[s])]
    /\ inSeq' = [s \in Side |-> Rank(Peer(s), inSeq[s])]
    /\ outAck' = [s \in Side |-> Rank(s, outAck[s])]
    /\ sub' = [s \in Side |-> [c \in SubChannel |->
                  [sub[s][c] EXCEPT !.sendSeq = Rank(s, @)]]]
    /\ net' = {[p EXCEPT !.seq = Rank(p.src, @), !.ack = Rank(Peer(p.src), @)] : p \in net}
    /\ UNCHANGED <<choked, outState, inState, reliable, waiting, recv, sent, got>>

\* the renumbered state without what a state's future does not depend on: the
\* choked packets are only looked at when there is a limit to the dropped ones
Shown(n) == IF MaxPacketDrop > 0 THEN n ELSE 0
MCView ==
    <<[s \in Side |->
          <<Rank(s, outSeq[s]), Rank(Peer(s), inSeq[s]), Rank(s, outAck[s]), Shown(choked[s])>>],
      [s \in Side |-> [c \in SubChannel |-> [sub[s][c] EXCEPT !.sendSeq = Rank(s, @)]]],
      {[p EXCEPT !.seq = Rank(p.src, @), !.ack = Rank(Peer(p.src), @),
                 !.choked = Shown(@)] : p \in net},
      outState, inState, reliable, waiting, recv, sent, got>>

MCNext == IF Renumbered THEN Next ELSE Renumber

MCSpec == Init /\ [][MCNext]_vars

(***************************************************************************)
(* Fairness of NetChan with the enabling conditions of its actions written *)
(* out: TLC evaluates ENABLED of an action as large as these very slowly.  *)
(***************************************************************************)
CanSend(s) == outSeq[s] < MaxSeq /\ Cardinality(InFlight(s)) < NetCap[s]
Fresh(p) == ~Stale(Peer(p.src), p) /\ ~TooFarAhead(Peer(p.src), p)

MCFairness ==
    /\ []<>Renumbered
    /\ \A s \in Side :
        /\ []<>~CanSend(s) \/ []<><<SendDatagram(s)>>_vars
        /\ []<>(\A p \in InFlight(s) : Fresh(p))
             \/ []<><<\E p \in InFlight(s) : Ignore(p)>>_vars
        /\ \A c \in SubChannel \cup {NoChannel} :
              \/ <>[](\A p \in InFlight(s) : p.chan = c => ~Fresh(p))
              \/ []<><<\E p \in InFlight(s) : p.chan = c /\ Process(p)>>_vars
MCFairSpec == MCSpec /\ MCFairness

=============================================================================
