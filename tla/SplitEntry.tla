----------------------------- MODULE SplitEntry -----------------------------
(***************************************************************************)
(* Long packets cut into parts by NET_SendLong, and the entry per address  *)
(* in which NET_GetLong puts them together (src/src/engine/net_ws.cpp).    *)
(* A part of the buffer is known by the packet and the place it came from. *)
(***************************************************************************)
EXTENDS Integers, FiniteSets

CONSTANTS
    Packets,     \* long packets
    SendLen,     \* [Packets -> Nat \ {0}]: bytes to send, compressed or not
    Zipped,      \* the packets that bzip2 made smaller
    SPLIT_SIZE,
    MAX_SPLITPACKET_SPLITS,
    Nothing,     \* NET_GetLong returned false
    Torn         \* it returned what is no packet

ASSUME PacketsAssumption ==
    /\ SPLIT_SIZE \in Nat \ {0} /\ MAX_SPLITPACKET_SPLITS \in Nat \ {0}
    /\ SendLen \in [Packets -> Nat \ {0}]
    /\ Zipped \subseteq Packets
    /\ Nothing \notin Packets /\ Torn \notin Packets /\ Nothing # Torn

----------------------------------------------------------------------------
(* NET_SendLong.                                                           *)

PartCount(pkt) == (SendLen[pkt] + SPLIT_SIZE - 1) \div SPLIT_SIZE
Bytes(pkt, i) ==
    IF SendLen[pkt] - i * SPLIT_SIZE < SPLIT_SIZE
    THEN SendLen[pkt] - i * SPLIT_SIZE ELSE SPLIT_SIZE

\* the top bit of the number makes the sequence of a compressed packet negative
Sequence(pkt, n) == IF pkt \in Zipped THEN -1 - n ELSE n

Part(pkt, n, i) ==
    [sequence |-> Sequence(pkt, n), number |-> i, count |-> PartCount(pkt),
     size |-> Bytes(pkt, i), of |-> pkt]

----------------------------------------------------------------------------
(* NET_GetLong.                                                            *)

Place == 0 .. MAX_SPLITPACKET_SPLITS - 1
NoPart == [of |-> Nothing, number |-> -1]

\* CSplitPacketEntry()
NewEntry ==
    [currentSequence |-> 0, splitCount |-> 0, totalSize |-> 0,
     splitflags |-> [i \in Place |-> -1], buffer |-> [i \in Place |-> NoPart]]

TooManyParts(part) ==
    part.number >= MAX_SPLITPACKET_SPLITS \/ part.count > MAX_SPLITPACKET_SPLITS

FirstOfSeries(entry, part) ==
    entry.currentSequence = -1 \/ part.sequence # entry.currentSequence

\* mutant: a part that was seen is counted again
CountsAlways(entry, part) == TRUE
Counts(entry, part) == entry.splitflags[part.number] # part.sequence

\* mutant: parts of another packet count for the one under way
LeftWithoutStart(entry, part) ==
    (IF entry.currentSequence = -1 THEN part.count ELSE entry.splitCount)
    - (IF Counts(entry, part) THEN 1 ELSE 0)
\* the parts that are missing after this one
PartsLeft(entry, part) ==
    (IF FirstOfSeries(entry, part) THEN part.count ELSE entry.splitCount)
    - (IF Counts(entry, part) THEN 1 ELSE 0)

\* the last part tells the size of the packet
Total(entry, part) ==
    IF Counts(entry, part) /\ part.number = part.count - 1
    THEN part.size + SPLIT_SIZE * part.count - SPLIT_SIZE ELSE entry.totalSize

Filled(entry, part) ==
    [i \in Place |-> IF i = part.number THEN [of |-> part.of, number |-> i]
                                        ELSE entry.buffer[i]]

\* the entry after a part was added, and before the packet is taken out of it
Added(entry, part) ==
    [currentSequence |-> part.sequence,
     splitCount |-> PartsLeft(entry, part),
     totalSize |-> Total(entry, part),
     splitflags |-> [i \in Place |-> IF i = part.number THEN part.sequence
                                                        ELSE entry.splitflags[i]],
     buffer |-> Filled(entry, part)]

\* the buffer holds all of a packet and its size is right
Holds(entry, pkt) ==
    /\ entry.totalSize = SendLen[pkt]
    /\ \A i \in 0 .. PartCount(pkt) - 1 : entry.buffer[i] = [of |-> pkt, number |-> i]

\* a compressed packet that is not whole does not pass its checksum
Assembled(entry) ==
    IF \E pkt \in Packets : Holds(entry, pkt)
    THEN CHOOSE pkt \in Packets : Holds(entry, pkt)
    ELSE IF entry.currentSequence < 0 THEN Nothing ELSE Torn

Complete(entry) == entry.splitCount <= 0
Cleared(entry) ==
    [currentSequence |-> -1, splitCount |-> entry.splitCount,
     totalSize |-> entry.totalSize, splitflags |-> entry.splitflags,
     buffer |-> entry.buffer]

NET_GetLong(entry, part) ==
    IF TooManyParts(part) THEN [entry |-> entry, packet |-> Nothing]
    ELSE IF Complete(Added(entry, part))
    THEN [entry |-> Cleared(Added(entry, part)), packet |-> Assembled(Added(entry, part))]
    ELSE [entry |-> Added(entry, part), packet |-> Nothing]

----------------------------------------------------------------------------

\* The entry has counted these parts of a packet, has them in place, and knows
\* its size if the last one is among them.
Collected(entry, pkt, parts) ==
    /\ parts \subseteq 0 .. PartCount(pkt) - 1
    /\ entry.splitCount = PartCount(pkt) - Cardinality(parts)
    /\ \A i \in parts : /\ entry.splitflags[i] = entry.currentSequence
                        /\ entry.buffer[i] = [of |-> pkt, number |-> i]
    /\ PartCount(pkt) - 1 \in parts => entry.totalSize = SendLen[pkt]

=============================================================================
