------------------------------ MODULE NetChan ------------------------------
(***************************************************************************)
(* The reliable half of CNetChan (src/src/engine/net_chan.cpp): two peers  *)
(* exchange datagrams over a network that loses, reorders and duplicates   *)
(* them.  Reliable data is cut into fragments, at most one group of        *)
(* fragments is loaded into each of MAX_SUBCHANNELS send-and-wait          *)
(* subchannels, and a subchannel is acknowledged by one bit of reliable    *)
(* state that every datagram carries back.                                 *)
(*                                                                         *)
(* Sizes are counted in bytes (scaled down by the instance); the content   *)
(* of a fragment is the block it was cut from.                             *)
(***************************************************************************)
EXTENDS Integers, Sequences, FiniteSets

CONSTANTS
    Msgs,             \* reliable net messages
    Files,            \* files sent with SendFile
    Missing,          \* the files that CreateFragmentsFromFile cannot open
    Sender,           \* [Msgs \cup Files -> Side]: who sends it
    Bytes,            \* [Msgs \cup Files -> Nat]: its size
    ResetMsgs,        \* messages whose handler calls Clear() on the receiver's channel
    FailMsgs,         \* messages whose Process() returns false
    Garbage,          \* a block whose bytes are not those of any block sent
    FRAGMENT_SIZE,
    MAX_SUBCHANNELS,
    NET_MAX_PAYLOAD,  \* no block and no file is larger
    SendMaxFragments, \* m_MaxReliablePayloadSize / FRAGMENT_SIZE
    FileBackground,   \* m_bFileBackgroundTranmission
    Compressing,      \* the sides with m_bUseCompression
    Packed,           \* [0..NET_MAX_PAYLOAD -> Nat]: size after compression
    MinCompress,      \* net_compresspackets_minsize
    MaxPacketDrop,    \* net_maxpacketdrop
    MaxSeq,           \* bound: sequence numbers
    MaxChoked,        \* bound: choked packets between two datagrams
    NetCap            \* bound: [Side -> Nat], datagrams of a side in flight

Side == {"server", "client"}
Peer(s) == IF s = "server" THEN "client" ELSE "server"

FRAG_NORMAL_STREAM == 0
FRAG_FILE_STREAM == 1
Stream == {FRAG_NORMAL_STREAM, FRAG_FILE_STREAM}

SubChannel == 0 .. MAX_SUBCHANNELS - 1
NoChannel == -1
Item == Msgs \cup Files

ASSUME ConstantsAssumption ==
    /\ FRAGMENT_SIZE \in Nat \ {0}
    /\ MAX_SUBCHANNELS \in Nat \ {0}
    /\ NET_MAX_PAYLOAD \in Nat
    /\ SendMaxFragments \in Nat \ {0}
    /\ MaxPacketDrop \in Nat
    /\ MinCompress \in Nat
    /\ FileBackground \in BOOLEAN
    /\ MaxSeq \in Nat /\ MaxChoked \in Nat /\ NetCap \in [Side -> Nat]

ASSUME ItemsAssumption ==
    /\ Msgs \cap Files = {}
    /\ Garbage \notin Item
    /\ Missing \subseteq Files
    /\ ResetMsgs \cup FailMsgs \subseteq Msgs
    /\ Compressing \subseteq Side
    /\ Sender \in [Item -> Side]
    /\ Bytes \in [Item -> 0 .. NET_MAX_PAYLOAD]
    /\ Packed \in [0 .. NET_MAX_PAYLOAD -> 0 .. NET_MAX_PAYLOAD]

VARIABLES
    outSeq,    \* m_nOutSequenceNr: number of the next datagram
    inSeq,     \* m_nInSequenceNr: number of the last datagram accepted
    outAck,    \* m_nOutSequenceNrAck: last of ours the peer accepted
    choked,    \* m_nChokedPackets
    outState,  \* m_nOutReliableState, one bit per subchannel
    inState,   \* m_nInReliableState
    sub,       \* m_SubChannels
    reliable,  \* m_StreamReliable
    waiting,   \* m_WaitingList of each stream
    recv,      \* m_ReceiveList of each stream
    net,       \* datagrams in flight, both directions
    sent,      \* history: per stream, the items sent between two Clear()s
    got        \* history: per stream, the items handed to the message handler

vars == <<outSeq, inSeq, outAck, choked, outState, inState, sub, reliable,
          waiting, recv, net, sent, got>>

----------------------------------------------------------------------------
(* Data.                                                                   *)

\* BYTES2FRAGMENTS
Fragments(bytes) == (bytes + FRAGMENT_SIZE - 1) \div FRAGMENT_SIZE

LeastOf(S) == CHOOSE x \in S : \A y \in S : x <= y
AtMost(a, b) == IF a <= b THEN a ELSE b
\* mutant: the bit is counted up
FlipUp(bit) == bit + 1
Flip(bit) == 1 - bit

FreeSubChannel ==
    [state |-> "FREE", sendSeq |-> -1,
     start |-> [j \in Stream |-> -1], num |-> [j \in Stream |-> 0]]

NewBlock(items, bytes) ==
    [items |-> items, bytes |-> bytes, num |-> Fragments(bytes),
     acked |-> 0, pending |-> 0, enc |-> "none"]

EmptyBuffer == [items |-> <<>>, bytes |-> 0]

\* what a fragment carries: the block it belongs to, and how that is encoded
Load(block) == [items |-> block.items, enc |-> block.enc]
Unset == [items |-> <<>>, enc |-> "unset"]

NoFragments == [start |-> 0, num |-> 0, total |-> 0, load |-> Unset]
NoBuffer == [alloc |-> FALSE, num |-> 0, acked |-> 0, buf |-> <<>>]

InFlight(s) == {p \in net : p.src = s}

EmptyWaiting == [j \in Stream |-> <<>>]
NothingReceived == [j \in Stream |-> NoBuffer]

Init ==
    /\ outSeq = [s \in Side |-> 1]
    /\ inSeq = [s \in Side |-> 0]
    /\ outAck = [s \in Side |-> 0]
    /\ choked = [s \in Side |-> 0]
    /\ outState = [s \in Side |-> [c \in SubChannel |-> 0]]
    /\ inState = [s \in Side |-> [c \in SubChannel |-> 0]]
    /\ sub = [s \in Side |-> [c \in SubChannel |-> FreeSubChannel]]
    /\ reliable = [s \in Side |-> EmptyBuffer]
    /\ waiting = [s \in Side |-> EmptyWaiting]
    /\ recv = [s \in Side |-> NothingReceived]
    /\ net = {}
    /\ sent = [s \in Side |-> [j \in Stream |-> << <<>> >>]]
    /\ got = [s \in Side |-> [j \in Stream |-> <<>>]]

----------------------------------------------------------------------------
(* Queueing reliable data.                                                 *)

\* the item is recorded as sent in the current epoch of its stream
Record(history, item) == [history EXCEPT ![Len(history)] = Append(@, item)]
WasSent(s, item) ==
    \E j \in Stream : \E e \in 1 .. Len(sent[s][j]) :
        \E i \in 1 .. Len(sent[s][j][e]) : sent[s][j][e][i] = item

Write(buffer, item) ==
    [items |-> Append(buffer.items, item), bytes |-> buffer.bytes + Bytes[item]]

\* A message that does not fit overflows m_StreamReliable, and the owner of
\* the channel drops the connection (baseclient.cpp:1344): not modelled.
SendNetMsg(s, m) ==
    /\ m \in Msgs \ ResetMsgs
    /\ Sender[m] = s /\ ~WasSent(s, m)
    /\ reliable[s].bytes + Bytes[m] <= NET_MAX_PAYLOAD
    /\ reliable' = [reliable EXCEPT ![s] = Write(@, m)]
    /\ sent' = [sent EXCEPT ![s][FRAG_NORMAL_STREAM] = Record(@, m)]
    /\ UNCHANGED <<outSeq, inSeq, outAck, choked, outState, inState, sub,
                   waiting, recv, net, got>>

\* A file that cannot be opened is answered with a net_File deny message,
\* a reliable message that stands for the file in the normal stream.
SendFile(s, f) ==
    /\ f \in Files
    /\ Sender[f] = s /\ ~WasSent(s, f)
    /\ IF f \in Missing
       THEN /\ reliable[s].bytes + Bytes[f] <= NET_MAX_PAYLOAD
            /\ reliable' = [reliable EXCEPT ![s] = Write(@, f)]
            /\ sent' = [sent EXCEPT ![s][FRAG_NORMAL_STREAM] = Record(@, f)]
            /\ UNCHANGED waiting
       ELSE /\ waiting' = [waiting EXCEPT ![s][FRAG_FILE_STREAM] =
                              Append(@, NewBlock(<<f>>, Bytes[f]))]
            /\ sent' = [sent EXCEPT ![s][FRAG_FILE_STREAM] = Record(@, f)]
            /\ UNCHANGED reliable
    /\ UNCHANGED <<outSeq, inSeq, outAck, choked, outState, inState, sub,
                   recv, net, got>>

SetChoked(s) ==
    /\ outSeq[s] < MaxSeq /\ choked[s] < MaxChoked
    /\ outSeq' = [outSeq EXCEPT ![s] = @ + 1]
    /\ choked' = [choked EXCEPT ![s] = @ + 1]
    /\ UNCHANGED <<inSeq, outAck, outState, inState, sub, reliable, waiting,
                   recv, net, sent, got>>

----------------------------------------------------------------------------
(* Sending a datagram.                                                     *)

Joined(block, buffer) ==
    [NewBlock(block.items \o buffer.items, block.bytes + buffer.bytes)
        EXCEPT !.enc = block.enc]

\* Reliable data joins the last block of the list, unless that is the head,
\* which may be on its way already.
CreateFragmentsFromBuffer(list, buffer) ==
    IF Len(list) > 1 /\ list[Len(list)].bytes + buffer.bytes < NET_MAX_PAYLOAD
    THEN [list EXCEPT ![Len(list)] = Joined(@, buffer)]
    ELSE Append(list, NewBlock(buffer.items, buffer.bytes))

Compressible(s, j, block) ==
    /\ s \in Compressing
    /\ block.enc = "none" /\ block.bytes >= MinCompress
    /\ block.acked <= 0 /\ block.pending <= 0
    /\ IF j = FRAG_FILE_STREAM THEN Packed[block.bytes] > 0
                               ELSE Packed[block.bytes] < block.bytes

Compressed(block, j) ==
    [block EXCEPT !.bytes = Packed[block.bytes], !.num = Fragments(Packed[block.bytes]),
                  !.enc = IF j = FRAG_FILE_STREAM THEN "snappy" ELSE "bzip2"]

CompressFragments(s, j, list) ==
    IF list # <<>> /\ Compressible(s, j, list[1])
    THEN [list EXCEPT ![1] = Compressed(@, j)]
    ELSE list

\* the waiting lists UpdateSubChannels sees: new data appended, heads compressed
Queued(s) ==
    [j \in Stream |->
        CompressFragments(s, j,
            IF j = FRAG_NORMAL_STREAM /\ reliable[s].items # <<>>
            THEN CreateFragmentsFromBuffer(waiting[s][j], reliable[s])
            ELSE waiting[s][j])]

\* mutant: fragments under way are taken again
NextUnacked(block) == block.acked
\* nSentFragments: the first fragment of a block that was not sent yet
NextFragment(block) == block.acked + block.pending

\* number of fragments of the head of a list that a free subchannel takes
Takes(list, budget) ==
    IF list = <<>> \/ budget <= 0 THEN 0
    ELSE AtMost(budget, list[1].num - NextFragment(list[1]))

\* UpdateSubChannels: what is loaded from each stream, the file stream last
Loaded(lists) ==
    LET normal == Takes(lists[FRAG_NORMAL_STREAM], SendMaxFragments)
        left == SendMaxFragments - normal
        file == Takes(lists[FRAG_FILE_STREAM],
                      IF FileBackground THEN AtMost(1, left) ELSE left)
    IN [j \in Stream |-> IF j = FRAG_NORMAL_STREAM THEN normal ELSE file]

\* the header of a group of fragments goes with the first fragment only
FragmentGroup(block, channel, j) ==
    IF channel.num[j] = 0 THEN NoFragments
    ELSE [start |-> channel.start[j], num |-> channel.num[j],
          total |-> IF channel.start[j] = 0 THEN block.num ELSE 0,
          load |-> Load(block)]

Datagram(s, c, channels, lists) ==
    [src |-> s, seq |-> outSeq[s], ack |-> inSeq[s], rel |-> inState[s],
     choked |-> choked[s], chan |-> c,
     frags |-> [j \in Stream |->
                   IF c = NoChannel THEN NoFragments
                   ELSE FragmentGroup(lists[j][1], channels[c], j)]]

\* UpdateSubChannels: the first free subchannel takes what can be loaded
FreeSlots(s) == {c \in SubChannel : sub[s][c].state = "FREE"}
Fills(s) == FreeSlots(s) # {} /\ \E j \in Stream : Loaded(Queued(s))[j] > 0
Slot(s) == LeastOf(FreeSlots(s))

FilledChannel(s) ==
    LET loaded == Loaded(Queued(s))
    IN [state |-> "TOSEND", sendSeq |-> 0, num |-> loaded,
        start |-> [j \in Stream |->
            IF loaded[j] > 0 THEN NextFragment(Queued(s)[j][1]) ELSE -1]]
UpdatedChannels(s) ==
    IF Fills(s) THEN [sub[s] EXCEPT ![Slot(s)] = FilledChannel(s)] ELSE sub[s]
UpdatedState(s) ==
    IF Fills(s) THEN [outState[s] EXCEPT ![Slot(s)] = Flip(@)] ELSE outState[s]
UpdatedLists(s) ==
    [j \in Stream |->
        IF Fills(s) /\ Loaded(Queued(s))[j] > 0
        THEN [Queued(s)[j] EXCEPT ![1].pending = @ + Loaded(Queued(s))[j]]
        ELSE Queued(s)[j]]

\* SendSubChannelData: the first subchannel with fragments to send
NextToSend(channels) ==
    LET tosend == {c \in SubChannel : channels[c].state = "TOSEND"}
    IN IF tosend = {} THEN NoChannel ELSE LeastOf(tosend)
SentChannels(channels, c, seq) ==
    IF c = NoChannel THEN channels
    ELSE [channels EXCEPT ![c] = [state |-> "WAITING", sendSeq |-> seq,
                                  start |-> @.start, num |-> @.num]]

SendDatagram(s) ==
    LET channels == UpdatedChannels(s)
        c == NextToSend(channels)
    IN /\ outSeq[s] < MaxSeq /\ Cardinality(InFlight(s)) < NetCap[s]
       /\ waiting' = [waiting EXCEPT ![s] = UpdatedLists(s)]
       /\ outState' = [outState EXCEPT ![s] = UpdatedState(s)]
       /\ sub' = [sub EXCEPT ![s] = SentChannels(channels, c, outSeq[s])]
       /\ net' = net \cup {Datagram(s, c, channels, UpdatedLists(s))}
       /\ reliable' = [reliable EXCEPT ![s] = EmptyBuffer]
       /\ outSeq' = [outSeq EXCEPT ![s] = @ + 1]
       /\ choked' = [choked EXCEPT ![s] = 0]
       /\ UNCHANGED <<inSeq, outAck, inState, recv, sent, got>>

----------------------------------------------------------------------------
(* Clear(), on a level change: see also its use in ProcessPacket.          *)

\* mutant: the bit of data that was not sent stays flipped
ClearedStateKept(bits, channels) == bits
ClearedState(bits, channels) ==
    [c \in SubChannel |->
        IF channels[c].state = "TOSEND" THEN Flip(bits[c]) ELSE bits[c]]

\* mutant: data under way is not marked dirty
ClearedChannelsClean(channels) ==
    [c \in SubChannel |->
        IF channels[c].state = "TOSEND" THEN FreeSubChannel ELSE channels[c]]
ClearedChannels(channels) ==
    [c \in SubChannel |->
        CASE channels[c].state = "TOSEND" -> FreeSubChannel
          [] channels[c].state = "WAITING" -> [channels[c] EXCEPT !.state = "DIRTY"]
          [] OTHER -> channels[c]]

NewEpoch(histories) == [j \in Stream |-> Append(histories[j], <<>>)]
EpochWith(histories, m) == [NewEpoch(histories) EXCEPT ![FRAG_NORMAL_STREAM] = Record(@, m)]

\* CBaseClient::Reconnect: Clear() and tell the peer to start over.
Reconnect(s, m) ==
    /\ m \in ResetMsgs
    /\ Sender[m] = s /\ ~WasSent(s, m)
    /\ outState' = [outState EXCEPT ![s] = ClearedState(@, sub[s])]
    /\ sub' = [sub EXCEPT ![s] = ClearedChannels(@)]
    /\ waiting' = [waiting EXCEPT ![s] = EmptyWaiting]
    /\ recv' = [recv EXCEPT ![s] = NothingReceived]
    /\ reliable' = [reliable EXCEPT ![s] = Write(EmptyBuffer, m)]
    /\ choked' = [choked EXCEPT ![s] = 0]
    /\ sent' = [sent EXCEPT ![s] = EpochWith(@, m)]
    /\ UNCHANGED <<outSeq, inSeq, outAck, inState, net, got>>

----------------------------------------------------------------------------
(* ProcessPacketHeader.                                                    *)

\* mutant: a repeated datagram is processed
StaleUnlessRepeated(r, p) == p.seq < inSeq[r]
Stale(r, p) == p.seq <= inSeq[r]
PacketDrop(r, p) == p.seq - (inSeq[r] + p.choked + 1)
TooFarAhead(r, p) == MaxPacketDrop > 0 /\ PacketDrop(r, p) > MaxPacketDrop

Match(r, p, c) == outState[r][c] = p.rel[c]

\* "reliable state invalid": the packet is refused
Invalid(r, p, c) ==
    /\ Match(r, p, c)
    /\ sub[r][c].state # "DIRTY" /\ sub[r][c].sendSeq > p.ack

\* the subchannels visited before the loop meets an invalid one
Visited(r, p) == {c \in SubChannel : \A d \in 0 .. c : ~Invalid(r, p, d)}
HeaderValid(r, p) == \A c \in SubChannel : ~Invalid(r, p, c)

Confirmed(r, p) ==
    {c \in Visited(r, p) : Match(r, p, c) /\ sub[r][c].state = "WAITING"}
\* mutant: data that may still arrive counts as lost
FailedTooEarly(r, p, state) ==
    {c \in Visited(r, p) : ~Match(r, p, c) /\ sub[r][c].state = state}
Failed(r, p, state) ==
    {c \in Visited(r, p) : /\ ~Match(r, p, c)
                           /\ sub[r][c].sendSeq <= p.ack
                           /\ sub[r][c].state = state}
\* mutant: lost data is not sent again
NoResend(r, p) == {}
Resend(r, p) == Failed(r, p, "WAITING")
RolledBack(r, p) == Failed(r, p, "DIRTY")
Freed(r, p) ==
    RolledBack(r, p) \cup
    {c \in Visited(r, p) : Match(r, p, c) /\ sub[r][c].state \in {"WAITING", "DIRTY"}}

AckedChannels(r, p) ==
    [c \in SubChannel |->
        IF c \in Freed(r, p) THEN FreeSubChannel
        ELSE IF c \in Resend(r, p) THEN [sub[r][c] EXCEPT !.state = "TOSEND"]
        ELSE sub[r][c]]

AckedState(r, p) ==
    [c \in SubChannel |->
        IF c \in RolledBack(r, p) THEN Flip(outState[r][c]) ELSE outState[r][c]]

\* the number of fragments of a stream that a set of subchannels carries
Carried(channels, C, j) ==
    Cardinality(UNION {{c} \X (1 .. channels[c].num[j]) : c \in C})

Acknowledged(block, n) == [block EXCEPT !.acked = @ + n, !.pending = @ - n]

CountedLists(r, p) ==
    [j \in Stream |->
        LET n == Carried(sub[r], Confirmed(r, p), j)
        IN IF n = 0 THEN waiting[r][j]
           ELSE [waiting[r][j] EXCEPT ![1] = Acknowledged(@, n)]]

\* mutant: a head leaves as soon as all of it was sent
CheckSentList(list, ack) ==
    IF list # <<>> /\ ack > 0 /\ NextFragment(list[1]) = list[1].num THEN Tail(list)
    ELSE list
\* CheckWaitingList: one completely acknowledged head leaves each list
CheckWaitingList(list, ack) ==
    IF list # <<>> /\ ack > 0 /\ list[1].acked = list[1].num THEN Tail(list)
    ELSE list

----------------------------------------------------------------------------
(* The reliable part of ProcessPacket.                                     *)

\* a group of fragments is copied into the receive buffer; the first group
\* of a block allocates it
ReadSubChannelData(buffer, group) ==
    LET target ==
            IF group.start = 0
            THEN [alloc |-> TRUE, num |-> group.total, acked |-> 0,
                  buf |-> [k \in 0 .. group.total - 1 |-> Unset]]
            ELSE buffer
        range == group.start .. group.start + group.num - 1
    IN IF group.num = 0 THEN [ok |-> TRUE, buffer |-> buffer]
       ELSE IF ~target.alloc \/ group.start + group.num > target.num
       THEN [ok |-> FALSE, buffer |-> target]
       ELSE [ok |-> TRUE,
             buffer |-> [target EXCEPT
                 !.acked = @ + group.num,
                 !.buf = [k \in DOMAIN @ |-> IF k \in range THEN group.load ELSE @[k]]]]

\* mutant: compressed data is not uncompressed
ContentAsReceived(buffer) ==
    IF buffer.buf[0].enc = "none" THEN buffer.buf[0].items ELSE <<Garbage>>
\* UncompressFragments only knows bzip2; fragments of different blocks, or
\* never received, make no block that was sent
Content(buffer) ==
    LET load == buffer.buf[0]
    IN IF /\ \A k \in DOMAIN buffer.buf : buffer.buf[k] = load
          /\ load.enc \in {"none", "bzip2"}
       THEN load.items
       ELSE <<Garbage>>

\* ProcessMessages hands messages over until one fails, or clears the channel
ProcessMessages(items) ==
    LET stops == {i \in 1 .. Len(items) : items[i] \in ResetMsgs \cup FailMsgs}
        n == IF stops = {} THEN Len(items) ELSE LeastOf(stops)
    IN [handled |-> SubSeq(items, 1, n),
        ok |-> stops = {},
        cleared |-> stops # {} /\ items[n] \in ResetMsgs]

CheckReceivingList(buffer, j) ==
    LET result == ProcessMessages(Content(buffer))
        List(handled, ok, cleared, after) ==
            [handled |-> handled, ok |-> ok, cleared |-> cleared, buffer |-> after]
    IN CASE ~buffer.alloc \/ buffer.acked < buffer.num -> List(<<>>, TRUE, FALSE, buffer)
         [] buffer.alloc /\ buffer.acked > buffer.num -> List(<<>>, FALSE, FALSE, buffer)
         [] buffer.alloc /\ buffer.acked = buffer.num ->
              IF j = FRAG_FILE_STREAM
              THEN List(Content(buffer), TRUE, FALSE, NoBuffer)
              ELSE List(result.handled, result.ok, result.cleared,
                        IF result.ok THEN NoBuffer ELSE buffer)

Received(r, p) ==
    LET normal == ReadSubChannelData(recv[r][FRAG_NORMAL_STREAM], p.frags[FRAG_NORMAL_STREAM])
        file == ReadSubChannelData(recv[r][FRAG_FILE_STREAM], p.frags[FRAG_FILE_STREAM])
        first == CheckReceivingList(normal.buffer, FRAG_NORMAL_STREAM)
        second == CheckReceivingList(file.buffer, FRAG_FILE_STREAM)
        Buffers(a, b) == [j \in Stream |-> IF j = FRAG_NORMAL_STREAM THEN a ELSE b]
        Result(a, b, flip, x, y, cleared) ==
            [recv |-> Buffers(a, b), flip |-> flip, handled |-> Buffers(x, y),
             cleared |-> cleared]
    IN IF p.chan = NoChannel
       THEN Result(recv[r][FRAG_NORMAL_STREAM], recv[r][FRAG_FILE_STREAM],
                   FALSE, <<>>, <<>>, FALSE)
       ELSE IF ~normal.ok
       THEN Result(normal.buffer, recv[r][FRAG_FILE_STREAM], FALSE, <<>>, <<>>, FALSE)
       ELSE IF ~file.ok
       THEN Result(normal.buffer, file.buffer, FALSE, <<>>, <<>>, FALSE)
       ELSE IF ~first.ok
       THEN Result(first.buffer, file.buffer, TRUE, first.handled, <<>>, first.cleared)
       ELSE Result(first.buffer, second.buffer, TRUE, first.handled, second.handled, FALSE)

----------------------------------------------------------------------------
(* Receiving a datagram.                                                   *)

\* a stale, duplicated or too advanced datagram changes nothing
Ignore(p) ==
    LET r == Peer(p.src)
    IN /\ Stale(r, p) \/ TooFarAhead(r, p)
       /\ net' = net \ {p}
       /\ UNCHANGED <<outSeq, inSeq, outAck, choked, outState, inState, sub,
                      reliable, waiting, recv, sent, got>>

\* an invalid header is refused after the subchannels visited so far are updated
Process(p) ==
    LET r == Peer(p.src)
        valid == HeaderValid(r, p)
        in == Received(r, p)
        clears == valid /\ in.cleared
        channels == AckedChannels(r, p)
        bits == AckedState(r, p)
        lists == CountedLists(r, p)
        checked == [j \in Stream |-> CheckWaitingList(lists[j], p.ack)]
    IN /\ ~Stale(r, p) /\ ~TooFarAhead(r, p)
       /\ net' \in {net, net \ {p}}    \* the network may deliver p again
       /\ inSeq' = [inSeq EXCEPT ![r] = IF valid THEN p.seq ELSE @]
       /\ outAck' = [outAck EXCEPT ![r] = IF valid THEN p.ack ELSE @]
       /\ sub' = [sub EXCEPT ![r] = IF clears THEN ClearedChannels(channels) ELSE channels]
       /\ outState' = [outState EXCEPT ![r] =
                          IF clears THEN ClearedState(bits, channels) ELSE bits]
       /\ waiting' = [waiting EXCEPT ![r] =
                         IF clears THEN EmptyWaiting ELSE IF valid THEN checked ELSE lists]
       /\ inState' = IF valid /\ in.flip
                     THEN [inState EXCEPT ![r][p.chan] = Flip(@)] ELSE inState
       /\ recv' = [recv EXCEPT ![r] =
                      IF clears THEN NothingReceived ELSE IF valid THEN in.recv ELSE @]
       /\ got' = [got EXCEPT ![r] =
                     IF valid THEN [j \in Stream |-> @[j] \o in.handled[j]] ELSE @]
       /\ reliable' = [reliable EXCEPT ![r] = IF clears THEN EmptyBuffer ELSE @]
       /\ choked' = [choked EXCEPT ![r] = IF clears THEN 0 ELSE @]
       /\ sent' = [sent EXCEPT ![r] = IF clears THEN NewEpoch(@) ELSE @]
       /\ UNCHANGED outSeq

ProcessPacket(p) == Ignore(p) \/ Process(p)

Lose(p) ==
    /\ net' = net \ {p}
    /\ UNCHANGED <<outSeq, inSeq, outAck, choked, outState, inState, sub,
                   reliable, waiting, recv, sent, got>>

----------------------------------------------------------------------------

Next ==
    \/ \E s \in Side, m \in Msgs : SendNetMsg(s, m)
    \/ \E s \in Side, f \in Files : SendFile(s, f)
    \/ \E s \in Side, m \in ResetMsgs : Reconnect(s, m)
    \/ \E s \in Side : SetChoked(s)
    \/ \E s \in Side : SendDatagram(s)
    \/ \E p \in net : ProcessPacket(p)
    \/ \E p \in net : Lose(p)

Spec == Init /\ [][Next]_vars

\* Each host frame of each side sends a datagram, no datagram stays in flight
\* for ever, and a network that is handed datagrams with the fragments of a
\* subchannel again and again delivers a new one at last: loss does not depend
\* on what a datagram carries.
Fairness ==
    \A s \in Side :
        /\ WF_vars(SendDatagram(s))
        /\ WF_vars(\E p \in InFlight(s) : Ignore(p))
        /\ \A c \in SubChannel \cup {NoChannel} :
              SF_vars(\E p \in InFlight(s) : p.chan = c /\ Process(p))

FairSpec == Spec /\ Fairness

=============================================================================
