------------------------- MODULE NetChanProperties -------------------------
(***************************************************************************)
(* What the reliable half of CNetChan promises (see NetChan).              *)
(***************************************************************************)
EXTENDS NetChan

BlockType ==
    [items : Seq(Item), bytes : 0 .. NET_MAX_PAYLOAD, num : Nat, acked : Nat,
     pending : Int, enc : {"none", "bzip2", "snappy"}]
LoadType == [items : Seq(Item), enc : {"none", "bzip2", "snappy", "unset"}]
ChannelType ==
    [state : {"FREE", "TOSEND", "WAITING", "DIRTY"}, sendSeq : Nat \cup {-1},
     start : [Stream -> Nat \cup {-1}], num : [Stream -> Nat]]
GroupType == [start : Nat, num : Nat, total : Nat, load : LoadType]
PacketType ==
    [src : Side, seq : Nat, ack : Nat, rel : [SubChannel -> {0, 1}],
     choked : Nat, chan : SubChannel \cup {NoChannel}, frags : [Stream -> GroupType]]
BufferOK(b) ==
    b \in [alloc : BOOLEAN, num : Nat, acked : Nat, buf : [0 .. b.num - 1 -> LoadType]]

\* The variables of both channels and every datagram in flight have the
\* types of the members of CNetChan they stand for.
TypeOK ==
    /\ outSeq \in [Side -> Nat] /\ inSeq \in [Side -> Nat]
    /\ outAck \in [Side -> Nat] /\ choked \in [Side -> Nat]
    /\ outState \in [Side -> [SubChannel -> {0, 1}]]
    /\ inState \in [Side -> [SubChannel -> {0, 1}]]
    /\ sub \in [Side -> [SubChannel -> ChannelType]]
    /\ reliable \in [Side -> [items : Seq(Item), bytes : 0 .. NET_MAX_PAYLOAD]]
    /\ waiting \in [Side -> [Stream -> Seq(BlockType)]]
    /\ recv = [s \in Side |-> [j \in Stream |-> recv[s][j]]]
    /\ \A s \in Side, j \in Stream : BufferOK(recv[s][j])
    /\ net \subseteq PacketType
    /\ sent \in [Side -> [Stream -> Seq(Seq(Item))]]
    /\ got \in [Side -> [Stream -> Seq(Item \cup {Garbage})]]

----------------------------------------------------------------------------
(* The subchannels.                                                        *)

\* The two ends never lose track of a subchannel: when it is free the sender's
\* bit is the receiver's, when its fragments still have to go out it is the
\* opposite one, and the receiver cannot have taken fragments of a datagram
\* with a number it has not reached.  Clear() must flip or keep the bit of
\* every busy subchannel for that (net_chan.cpp:107-122, 2317-2374).
SubchannelSync ==
    \A s \in Side, c \in SubChannel :
        LET same == outState[s][c] = inState[Peer(s)][c]
        IN /\ sub[s][c].state = "FREE" => same
           /\ sub[s][c].state = "TOSEND" => ~same
           /\ sub[s][c].state \in {"WAITING", "DIRTY"} /\ same
                => sub[s][c].sendSeq <= inSeq[Peer(s)]

\* No datagram that may still be accepted is refused as "reliable state
\* invalid", the assertion of net_chan.cpp:2325-2330, and none acknowledges a
\* datagram that was not sent.
HeaderNeverInvalid ==
    \A p \in net :
        LET r == Peer(p.src)
        IN ~Stale(r, p) => HeaderValid(r, p) /\ p.ack < outSeq[r]

\* Why SubchannelSync holds: the numbers of datagrams never run ahead of what
\* was sent and accepted, acknowledgements come in the order of the numbers,
\* and, for each subchannel, the datagrams that may still be accepted in either
\* direction agree with its state.  This conjunction is inductive.
NumbersInv ==
    /\ \A s \in Side :
         /\ inSeq[Peer(s)] < outSeq[s]
         /\ outAck[s] <= inSeq[Peer(s)]
         /\ \A c \in SubChannel : sub[s][c].sendSeq < outSeq[s]
    /\ \A p \in net :
         /\ p.seq < outSeq[p.src]
         /\ p.ack <= inSeq[p.src]
         /\ ~Stale(Peer(p.src), p) => p.ack >= outAck[Peer(p.src)]
    /\ \A p, q \in net :
         p.src = q.src => /\ p.seq = q.seq => p = q
                          /\ p.seq < q.seq => p.ack <= q.ack

FreshFrom(s) == {p \in net : p.src = s /\ p.seq > inSeq[Peer(s)]}

\* state, number and bit of a subchannel, the bit its receiver has for it, the
\* datagrams with its data and the acknowledgements that may still be accepted,
\* and the number the receiver has reached
Agrees(c, state, seq, bit, peerBit, data, acks, reached) ==
    /\ state = "FREE" =>
         /\ seq = -1 /\ bit = peerBit /\ data = {}
         /\ \A p \in acks : p.rel[c] = bit
    /\ state = "TOSEND" =>
         /\ bit # peerBit /\ data = {}
         /\ \A p \in acks : p.rel[c] # bit
    /\ state \in {"WAITING", "DIRTY"} =>
         /\ \A p \in data : p.seq = seq
         /\ bit # peerBit => \A p \in acks : p.rel[c] # bit
         /\ bit = peerBit => /\ seq <= reached
                             /\ \A p \in acks : p.rel[c] = bit <=> p.ack >= seq

FreshData(s, c) == {p \in FreshFrom(s) : p.chan = c}

SubchannelInv(s, c) ==
    Agrees(c, sub[s][c].state, sub[s][c].sendSeq, outState[s][c],
           inState[Peer(s)][c], FreshData(s, c), FreshFrom(Peer(s)), inSeq[Peer(s)])

SubchannelsInv ==
    NumbersInv /\ \A s \in Side, c \in SubChannel : SubchannelInv(s, c)

Busy(s) == {c \in SubChannel : sub[s][c].state \in {"TOSEND", "WAITING"}}

\* The counters of a block agree with the subchannels: what is pending of the
\* head is what the busy subchannels carry, only the head is under way, and no
\* more than the block is sent (the assertions of net_chan.cpp:1487 and 2334).
FragmentAccounting ==
    \A s \in Side, j \in Stream :
        LET list == waiting[s][j]
        IN /\ list = <<>> => Carried(sub[s], Busy(s), j) = 0
           /\ list # <<>> =>
                /\ list[1].pending = Carried(sub[s], Busy(s), j)
                /\ list[1].acked + list[1].pending <= list[1].num
           /\ \A i \in 2 .. Len(list) : list[i].acked = 0 /\ list[i].pending = 0

\* No fragment of a block is under way twice, and what is under way follows
\* what is acknowledged without a hole below it being counted twice
\* (startFraggment is computed from the counters, net_chan.cpp:1485-1503).
FragmentsDisjoint ==
    \A s \in Side, j \in Stream : \A c, d \in Busy(s) :
        c # d /\ sub[s][c].num[j] > 0 /\ sub[s][d].num[j] > 0 =>
            LET a == sub[s][c] b == sub[s][d]
            IN \/ a.start[j] + a.num[j] <= b.start[j]
               \/ b.start[j] + b.num[j] <= a.start[j]

----------------------------------------------------------------------------
(* Delivery.                                                               *)

\* where an item was sent: its epoch (between two Clear()s) and its place there
Places(s, j) == UNION {{e} \X (1 .. Len(sent[s][j][e])) : e \in 1 .. Len(sent[s][j])}
PlaceOf(s, j, item) ==
    CHOOSE x \in Places(s, j) : sent[s][j][x[1]][x[2]] = item

Follows(a, b, skips) ==
    \/ a[1] = b[1] /\ b[2] = a[2] + 1
    \/ a[1] = b[1] /\ b[2] > a[2] /\ skips
    \/ a[1] < b[1] /\ b[2] = 1

InOrder(s, j) ==
    LET g == got[Peer(s)][j]
        place == [k \in DOMAIN g |-> PlaceOf(s, j, g[k])]
    IN /\ \A k \in DOMAIN g : \E x \in Places(s, j) : sent[s][j][x[1]][x[2]] = g[k]
       /\ g # <<>> => place[1][2] = 1
       /\ \A k \in 1 .. Len(g) - 1 : Follows(place[k], place[k + 1], g[k] \in ResetMsgs)

\* Each stream hands its items to the handler in the order they were sent,
\* none twice and none left out: Clear() may cut the end of an epoch off, and
\* a message whose handler calls Clear() takes the rest of its own block with
\* it (net_chan.cpp:1957-1962), nothing else is lost.
InOrderOnce == \A s \in Side, j \in Stream : InOrder(s, j)

\* what was sent since the last Clear()
Epoch(s, j) == sent[s][j][Len(sent[s][j])]
Members(items) == {items[i] : i \in DOMAIN items}

Drained(s, j) == reliable[s].items = <<>> /\ waiting[s][j] = <<>>
AllHanded(s, j) ==
    LET handed(k) == Members(got[Peer(s)][k])
    IN \/ Members(Epoch(s, j)) \subseteq handed(j)
       \/ Members(Epoch(s, FRAG_NORMAL_STREAM)) \cap handed(FRAG_NORMAL_STREAM)
             \cap ResetMsgs # {}

\* A channel without pending reliable data (HasPendingReliableData,
\* net_chan.cpp:2802-2807) has delivered all it was given since the last
\* Clear(), or has made its peer start over: that takes the rest of a block,
\* and the fragments of a file that came with it in one datagram.
DrainedMeansDelivered == \A s \in Side, j \in Stream : Drained(s, j) => AllHanded(s, j)

----------------------------------------------------------------------------
(* The abstract stream each side's normal stream implements: that of the   *)
(* current epoch, which a Clear() ends.                                    *)

Delivered(s, j) == SelectSeq(got[Peer(s)][j], LAMBDA item : item \in Members(Epoch(s, j)))
Undelivered(s, j) == SelectSeq(Epoch(s, j), LAMBDA item : item \notin Members(got[Peer(s)][j]))

ServerStream == INSTANCE ReliableStream WITH
    Items <- Item,
    pending <- Undelivered("server", FRAG_NORMAL_STREAM),
    delivered <- Delivered("server", FRAG_NORMAL_STREAM)

ClientStream == INSTANCE ReliableStream WITH
    Items <- Item,
    pending <- Undelivered("client", FRAG_NORMAL_STREAM),
    delivered <- Delivered("client", FRAG_NORMAL_STREAM)

\* The subchannel protocol in both directions at once, over a network that
\* loses, reorders and duplicates datagrams, is two reliable streams: every
\* step sends an item, delivers the next block, starts over by a Clear(), or
\* is invisible, and what is pending is delivered in the end.  What an old
\* epoch still delivers is invisible: it belongs to a stream that is over.
ImplementsServerStream == ServerStream!FairSpec
ImplementsClientStream == ClientStream!FairSpec

----------------------------------------------------------------------------
(* Steps.                                                                  *)

\* What a peer acknowledged never becomes unacknowledged: the number of the
\* last datagram accepted only grows on both ends, and the sender's view of
\* it stays behind the receiver's.
AcksOnlyGrow ==
    [][\A s \in Side : inSeq'[s] >= inSeq[s] /\ outAck'[s] >= outAck[s]]_vars

=============================================================================
