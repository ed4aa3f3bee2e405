----------------------------- MODULE PacedSplit -----------------------------
(***************************************************************************)
(* A long packet on its way through a channel: NET_SendLong sends its      *)
(* first part and queues the others with the packet sender, each a little  *)
(* later than the one before; CanPacket() holds back the next packet; the  *)
(* other end puts the parts together.  Only the sender's pace is modelled  *)
(* here: the network is external and delivers at once what leaves.         *)
(***************************************************************************)
EXTENDS SplitEntry, SequencesExt

CONSTANTS
    Channels, MaxQueuedPackets, WaitInterval, MaxClock,
    Pace,         \* milliseconds a part takes at the channel's data rate
    MaxPackets    \* bound: packets per channel

ASSUME PaceAssumption ==
    /\ MaxQueuedPackets \in Nat \ {0} /\ MaxClock \in Nat /\ WaitInterval \in 1 .. MaxClock
    /\ Pace \in Nat /\ MaxPackets \in Nat

VARIABLES
    clock, queue, event, shouldExit, thread, interval, since, served, game, out, refused,
    log,        \* per channel: the packets sent
    sending,    \* the loop of NET_SendLong: the channel and its next part
    entries,    \* the other ends' entries
    received    \* history, per channel: what NET_GetLong returned

Parts ==
    {Part(pkt, n, i) : pkt \in Packets, n \in 1 .. MaxPackets, i \in Place}

Sender == INSTANCE QueuedSender
    WITH Data <- Parts, Wrap <- MaxClock + 1, StartTime <- 0

pathVars == <<log, sending, entries, received>>
senderVars ==
    <<clock, queue, event, shouldExit, thread, interval, since, served, game, out, refused>>
vars == <<senderVars, pathVars>>

NotSending == [channel |-> Nothing, next |-> 0]

Init ==
    /\ Sender!Init
    /\ log = [c \in Channels |-> <<>>]
    /\ sending = NotSending
    /\ entries = [c \in Channels |-> NewEntry]
    /\ received = [c \in Channels |-> <<>>]

----------------------------------------------------------------------------

\* the other end of a channel: its entry and what came out of it
End(c) == [entry |-> entries[c], packets |-> received[c]]

Arrive(end, part) ==
    LET result == NET_GetLong(end.entry, part)
    IN [entry |-> result.entry,
        packets |-> IF result.packet = Nothing THEN end.packets
                                               ELSE Append(end.packets, result.packet)]

\* the other ends of all channels once the packets in sent have come there
Arrived[sent \in Seq(Sender!QueuedPacket)] ==
    IF sent = <<>> THEN [c \in Channels |-> End(c)]
    ELSE [Arrived[Front(sent)] EXCEPT ![Last(sent).channel] = Arrive(@, Last(sent).data)]

Deliver(sent) ==
    LET ends == Arrived[sent]
    IN /\ entries' = [c \in Channels |-> ends[c].entry]
       /\ received' = [c \in Channels |-> ends[c].packets]

\* mutant: the parts that wait in the sender do not hold back the next packet
CanAlways(c) == TRUE
CanPacket(c) == ~Sender!HasQueuedPackets(c)

\* the first part is sent at once
NET_SendLong(c, pkt) ==
    LET n == Len(log[c]) + 1
    IN /\ game = "running" /\ sending = NotSending
       /\ CanPacket(c)
       /\ n <= MaxPackets
       /\ log' = [log EXCEPT ![c] = Append(@, pkt)]
       /\ sending' = IF PartCount(pkt) = 1 THEN NotSending ELSE [channel |-> c, next |-> 1]
       /\ Deliver(<<Sender!Packet(c, Part(pkt, n, 0), 0)>>)
       /\ UNCHANGED senderVars

\* an iteration of its loop: the thread may run between two of them
QueuePart ==
    LET c == sending.channel
        n == Len(log[c])
        part == Part(log[c][n], n, sending.next)
    IN /\ sending # NotSending
       /\ Sender!Enqueue(c, part, sending.next * Pace)
       /\ sending' = IF sending.next + 1 = part.count THEN NotSending
                     ELSE [channel |-> c, next |-> sending.next + 1]
       /\ UNCHANGED <<log, entries, received>>

Serve ==
    /\ Sender!Serve
    /\ Deliver(SubSeq(out', Len(out) + 1, Len(out')))
    /\ UNCHANGED <<log, sending>>

Wait == Sender!Wait /\ UNCHANGED pathVars
Wake == Sender!Wake /\ UNCHANGED pathVars
Tick == Sender!Tick /\ UNCHANGED pathVars

Next ==
    \/ \E c \in Channels, pkt \in Packets : NET_SendLong(c, pkt)
    \/ QueuePart
    \/ Serve
    \/ Wait
    \/ Wake
    \/ Tick

Spec == Init /\ [][Next]_vars

----------------------------------------------------------------------------

Idle(c) == sending.channel # c /\ ~Sender!HasQueuedPackets(c)

\* Once the parts of a channel have left, all its packets were put together at
\* the other end, in their order, however the calls of the game thread, the
\* sender's thread and the delays interleave: unless the queue was full, whose
\* parts are dropped without a word.
AllPutTogether ==
    refused = {} => \A c \in Channels : Idle(c) => received[c] = log[c]

\* A packet that lost parts to a full queue spoils no other: what comes out of
\* the other end are packets of the channel, in their order.
NoneTorn ==
    \A c \in Channels :
        \E place \in [DOMAIN received[c] -> DOMAIN log[c]] :
            \A i \in DOMAIN received[c] :
                /\ received[c][i] = log[c][place[i]]
                /\ i > 1 => place[i - 1] < place[i]

=============================================================================
