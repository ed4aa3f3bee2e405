----------------------------- MODULE SplitPacket -----------------------------
(***************************************************************************)
(* Long packets of several senders to one socket, over a network that      *)
(* loses, reorders and repeats their parts.  The socket keeps an entry per *)
(* address and forgets it when nothing came from there for a while.        *)
(***************************************************************************)
EXTENDS SplitEntry, Sequences, FiniteSets

CONSTANTS
    Addresses,
    SPLIT_PACKET_STALE_TIME,
    MaxPackets      \* bound: packets that an address sends

ASSUME StaleAssumption ==
    SPLIT_PACKET_STALE_TIME \in Nat \ {0} /\ MaxPackets \in Nat

VARIABLES
    log,       \* per address: the packets sent; a packet's number is its place
    wire,      \* external: parts in flight, with the address they come from
    entries,   \* net_splitpackets[sock]: the entry of each address
    idle,      \* time since lastactivetime of each entry
    delivered  \* history: the packets NET_GetLong returned, with their address

vars == <<log, wire, entries, idle, delivered>>

Init ==
    /\ log = [a \in Addresses |-> <<>>]
    /\ wire = {}
    /\ entries = [a \in Addresses |-> NewEntry]
    /\ idle = [a \in Addresses |-> SPLIT_PACKET_STALE_TIME]
    /\ delivered = {}

\* all parts at once: the order and the time in which they arrive is the network's
NET_SendLong(a, pkt) ==
    /\ Len(log[a]) < MaxPackets
    /\ log' = [log EXCEPT ![a] = Append(@, pkt)]
    /\ wire' = wire \cup
         {[from |-> a, part |-> Part(pkt, Len(log[a]) + 1, i)] : i \in 0 .. PartCount(pkt) - 1}
    /\ UNCHANGED <<entries, idle, delivered>>

\* mutant: no entry is forgotten
NeverStale(a) == FALSE
Stale(a) == idle[a] >= SPLIT_PACKET_STALE_TIME

\* NET_DiscardStaleSplitpackets: an entry that is gone is made anew when a part
\* comes, so a fresh entry stands for none
Entry(a) == IF Stale(a) THEN NewEntry ELSE entries[a]

\* NET_GetPacket: stale entries are discarded, then a part is added to its own
NET_GetPacket(m) ==
    LET a == m.from
        result == NET_GetLong(Entry(a), m.part)
    IN /\ wire' \in {wire, wire \ {m}}     \* the network may deliver m again
       /\ entries' = [b \in Addresses |-> IF b = a THEN result.entry ELSE Entry(b)]
       /\ idle' = [idle EXCEPT ![a] = 0]
       /\ delivered' = delivered \cup
            (IF result.packet = Nothing THEN {} ELSE {<<a, result.packet>>})
       /\ UNCHANGED log

Lose(m) ==
    /\ wire' = wire \ {m}
    /\ UNCHANGED <<log, entries, idle, delivered>>

Tick ==
    /\ \E a \in Addresses : ~Stale(a)
    /\ idle' = [a \in Addresses |-> IF Stale(a) THEN idle[a] ELSE idle[a] + 1]
    /\ UNCHANGED <<log, wire, entries, delivered>>

Next ==
    \/ \E a \in Addresses, pkt \in Packets : NET_SendLong(a, pkt)
    \/ \E m \in wire : NET_GetPacket(m)
    \/ \E m \in wire : Lose(m)
    \/ Tick

Spec == Init /\ [][Next]_vars

----------------------------------------------------------------------------

\* Whatever the network does with the parts, also when those of several packets
\* of an address interleave, arrive twice, or after their entry was forgotten:
\* what NET_GetLong returns is a packet which that address sent, whole.
OnlyWholePackets ==
    \A d \in delivered : \E n \in DOMAIN log[d[1]] : log[d[1]][n] = d[2]

\* an entry, a part in flight, and what is delivered have their types
TypeOK ==
    /\ log \in [Addresses -> Seq(Packets)]
    /\ \A m \in wire : m.from \in Addresses /\ m.part.of \in Packets
    /\ \A a \in Addresses :
         /\ entries[a].splitCount \in Int /\ entries[a].totalSize \in Nat
         /\ entries[a].splitflags \in [Place -> Int]
    /\ idle \in [Addresses -> 0 .. SPLIT_PACKET_STALE_TIME]
    /\ delivered \subseteq Addresses \X (Packets \cup {Torn})

\* The count of the parts that are missing agrees with what is in the buffer:
\* there is a set of parts of the packet under way which are flagged and in
\* place, and all others are counted as missing.  A part may be flagged and in
\* place without being counted, when its packet was interrupted by another.
CountsAgree ==
    \A a \in Addresses :
        LET entry == entries[a]
        IN entry.currentSequence \notin {-1, 0} =>
             \E n \in DOMAIN log[a] :
                /\ Sequence(log[a][n], n) = entry.currentSequence
                /\ \E parts \in SUBSET (0 .. PartCount(log[a][n]) - 1) :
                      Collected(entry, log[a][n], parts)

=============================================================================
