------------------------- MODULE SplitPacket_proofs -------------------------
(***************************************************************************)
(* The proof that NET_GetLong returns nothing but whole packets, for any   *)
(* number of addresses and packets, any sizes, and whatever the network    *)
(* does with the parts.                                                    *)
(*                                                                         *)
(* An entry only counts: it returns its buffer when as many parts came as  *)
(* the packet has.  That they are all of one packet, each in its place,    *)
(* follows from CountsAgree, which says which parts were counted, and from *)
(* the sequence number, which tells the packet (SequenceTells).            *)
(***************************************************************************)
EXTENDS SplitPacket, SplitEntry_proofs

\* A part in flight was cut from a packet its address has sent.
WireInv ==
  \A m \in wire :
    /\ m.from \in Addresses
    /\ \E n \in DOMAIN log[m.from] :
         \E i \in 0 .. PartCount(log[m.from][n]) - 1 :
            m.part = Part(log[m.from][n], n, i)

\* What CountsAgree says of the entry of an address.
EntryAgrees(a, entry) ==
  entry.currentSequence \notin {-1, 0} =>
    \E n \in DOMAIN log[a] :
      /\ Sequence(log[a][n], n) = entry.currentSequence
      /\ \E parts \in SUBSET (0 .. PartCount(log[a][n]) - 1) :
            Collected(entry, log[a][n], parts)

\* The inductive invariant.
SplitInv ==
  /\ log \in [Addresses -> Seq(Packets)]
  /\ WireInv
  /\ \A a \in Addresses : EntryAgrees(a, entries[a])
  /\ \A d \in delivered : d[1] \in Addresses
  /\ OnlyWholePackets
-----------------------------------------------------------------------------
\* NET_GetLong leaves an entry that agrees with what was sent, and returns
\* nothing or the packet of the part it was given.
LEMMA GetLongAgrees ==
  ASSUME log \in [Addresses -> Seq(Packets)], NEW a \in Addresses,
         NEW entry, EntryAgrees(a, entry),
         NEW n \in DOMAIN log[a], NEW i \in 0 .. PartCount(log[a][n]) - 1,
         NEW part, part = Part(log[a][n], n, i)
  PROVE  /\ EntryAgrees(a, NET_GetLong(entry, part).entry)
         /\ NET_GetLong(entry, part).packet \in {Nothing, log[a][n]}
  <1> DEFINE pkt == log[a][n]
             all == 0 .. PartCount(pkt) - 1
             new == Added(entry, part)
  <1>1. /\ DOMAIN log[a] \subseteq Nat \ {0}
        /\ \A k \in DOMAIN log[a] : log[a][k] \in Packets
    BY DEF EntryAgrees
  <1>2. n \in Nat \ {0} /\ pkt \in Packets
    BY <1>1
  <1>3. part.count = PartCount(pkt) /\ part.sequence = Sequence(pkt, n)
    BY DEF Part
  <1>4. CASE TooManyParts(part)
    BY <1>4 DEF NET_GetLong
  <1>5. CASE ~TooManyParts(part)
    <2>1. PartCount(pkt) \in Nat /\ PartCount(pkt) <= MAX_SPLITPACKET_SPLITS
      BY <1>2, <1>3, <1>5, PartCountFits, PacketsAssumption DEF TooManyParts
    <2>2. ASSUME entry.currentSequence = Sequence(pkt, n)
          PROVE  \E parts \in SUBSET all : Collected(entry, pkt, parts)
      <3>1. entry.currentSequence \notin {-1, 0}
        BY <1>2, <2>2, SequenceTells
      <3>2. PICK k \in DOMAIN log[a] :
              /\ Sequence(log[a][k], k) = entry.currentSequence
              /\ \E parts \in SUBSET (0 .. PartCount(log[a][k]) - 1) :
                    Collected(entry, log[a][k], parts)
        BY <3>1 DEF EntryAgrees
      <3>3. k = n
        BY <1>1, <1>2, <2>2, <3>2, SequenceTells
      <3> QED
        BY <3>2, <3>3
    <2>3. PICK parts \in SUBSET all : Collected(new, pkt, parts)
      BY <1>2, <2>1, <2>2, AddedCollects
    <2>4. new.currentSequence = Sequence(pkt, n)
      BY <1>3 DEF Added
    <2>5. CASE Complete(new)
      <3>1. NET_GetLong(entry, part) = [entry |-> Cleared(new), packet |-> Assembled(new)]
        BY <1>5, <2>5 DEF NET_GetLong
      <3>2. Assembled(new) = pkt
        BY <1>2, <2>3, <2>5, CompleteHolds
      <3>3. Cleared(new).currentSequence = -1
        BY DEF Cleared
      <3> QED
        BY <3>1, <3>2, <3>3 DEF EntryAgrees
    <2>6. CASE ~Complete(new)
      <3>1. NET_GetLong(entry, part) = [entry |-> new, packet |-> Nothing]
        BY <1>5, <2>6 DEF NET_GetLong
      <3>2. EntryAgrees(a, new)
        BY <2>3, <2>4 DEF EntryAgrees
      <3> QED
        BY <3>1, <3>2
    <2> QED
      BY <2>5, <2>6
  <1> QED
    BY <1>4, <1>5

LEMMA SplitInit == Init => SplitInv
  <1> SUFFICES ASSUME Init PROVE SplitInv
    OBVIOUS
  <1>1. log \in [Addresses -> Seq(Packets)]
    BY DEF Init
  <1>2. \A a \in Addresses : EntryAgrees(a, entries[a])
    BY DEF Init, EntryAgrees, NewEntry
  <1> QED
    BY <1>1, <1>2 DEF Init, SplitInv, WireInv, OnlyWholePackets

\* A packet that is sent leaves the log of earlier ones as it was.
LEMMA SendInv ==
  ASSUME SplitInv, NEW a \in Addresses, NEW pkt \in Packets, NET_SendLong(a, pkt)
  PROVE  SplitInv'
  <1> DEFINE n == Len(log[a]) + 1
  <1>1. log' \in [Addresses -> Seq(Packets)]
    BY DEF SplitInv, NET_SendLong
  <1>2. /\ \A b \in Addresses : \A k \in DOMAIN log[b] :
              k \in DOMAIN log'[b] /\ log'[b][k] = log[b][k]
        /\ n \in DOMAIN log'[a] /\ log'[a][n] = pkt
    BY DEF SplitInv, NET_SendLong
  <1>3. WireInv'
    <2> SUFFICES ASSUME NEW m \in wire'
                 PROVE  /\ m.from \in Addresses
                        /\ \E k \in DOMAIN log'[m.from] :
                             \E i \in 0 .. PartCount(log'[m.from][k]) - 1 :
                                m.part = Part(log'[m.from][k], k, i)
      BY DEF WireInv
    <2>1. CASE m \in wire
      <3>1. PICK k \in DOMAIN log[m.from] :
              \E i \in 0 .. PartCount(log[m.from][k]) - 1 : m.part = Part(log[m.from][k], k, i)
        BY <2>1 DEF SplitInv, WireInv
      <3>2. m.from \in Addresses
        BY <2>1 DEF SplitInv, WireInv
      <3>3. k \in DOMAIN log'[m.from] /\ log'[m.from][k] = log[m.from][k]
        BY <1>2, <3>2
      <3> QED
        BY <3>1, <3>2, <3>3
    <2>2. CASE m \in {[from |-> a, part |-> Part(pkt, n, i)] : i \in 0 .. PartCount(pkt) - 1}
      <3>1. PICK i \in 0 .. PartCount(pkt) - 1 : m = [from |-> a, part |-> Part(pkt, n, i)]
        BY <2>2
      <3>2. m.from = a /\ m.part = Part(pkt, n, i)
        BY <3>1
      <3> QED
        BY <1>2, <3>2
    <2> QED
      BY <2>1, <2>2 DEF NET_SendLong
  <1>4. ASSUME NEW b \in Addresses PROVE EntryAgrees(b, entries[b])'
    <2>1. EntryAgrees(b, entries[b]) /\ entries' = entries
      BY DEF SplitInv, NET_SendLong
    <2>2. SUFFICES ASSUME entries[b].currentSequence \notin {-1, 0}
                   PROVE  \E k \in DOMAIN log'[b] :
                            /\ Sequence(log'[b][k], k) = entries[b].currentSequence
                            /\ \E parts \in SUBSET (0 .. PartCount(log'[b][k]) - 1) :
                                  Collected(entries[b], log'[b][k], parts)
      BY <2>1 DEF EntryAgrees
    <2>3. PICK k \in DOMAIN log[b] :
            /\ Sequence(log[b][k], k) = entries[b].currentSequence
            /\ \E parts \in SUBSET (0 .. PartCount(log[b][k]) - 1) :
                  Collected(entries[b], log[b][k], parts)
      BY <2>1, <2>2 DEF EntryAgrees
    <2>4. k \in DOMAIN log'[b] /\ log'[b][k] = log[b][k]
      BY <1>2
    <2> QED
      BY <2>3, <2>4
  <1>5. (\A d \in delivered : d[1] \in Addresses)' /\ OnlyWholePackets'
    BY <1>2 DEF SplitInv, NET_SendLong, OnlyWholePackets
  <1> QED
    BY <1>1, <1>3, <1>4, <1>5 DEF SplitInv

\* A part that arrives is added to the entry of its address, or to a new one.
LEMMA GetPacketInv ==
  ASSUME SplitInv, NEW m \in wire, NET_GetPacket(m)
  PROVE  SplitInv'
  <1> DEFINE a == m.from
             result == NET_GetLong(Entry(a), m.part)
  <1>1. PICK n \in DOMAIN log[a] :
          \E i \in 0 .. PartCount(log[a][n]) - 1 : m.part = Part(log[a][n], n, i)
    BY DEF SplitInv, WireInv
  <1>2. a \in Addresses /\ log \in [Addresses -> Seq(Packets)]
    BY DEF SplitInv, WireInv
  <1>3. \A b \in Addresses : EntryAgrees(b, Entry(b))
    BY DEF SplitInv, Entry, EntryAgrees, NewEntry
  <1>4. EntryAgrees(a, result.entry) /\ result.packet \in {Nothing, log[a][n]}
    BY <1>1, <1>2, <1>3, GetLongAgrees
  <1> HIDE DEF result
  <1>5. /\ log' = log /\ wire' \subseteq wire
        /\ \A b \in Addresses : entries'[b] = IF b = a THEN result.entry ELSE Entry(b)
        /\ delivered' = delivered \cup
             (IF result.packet = Nothing THEN {} ELSE {<<a, result.packet>>})
    BY DEF NET_GetPacket, result
  <1>6. WireInv'
    BY <1>5 DEF SplitInv, WireInv
  <1>7. ASSUME NEW b \in Addresses PROVE EntryAgrees(b, entries[b])'
    <2>1. EntryAgrees(b, entries'[b])
      BY <1>3, <1>4, <1>5
    <2> QED
      BY <1>5, <2>1 DEF EntryAgrees
  <1>8. ASSUME NEW d \in delivered'
        PROVE  d[1] \in Addresses /\ \E k \in DOMAIN log[d[1]] : log[d[1]][k] = d[2]
    <2>1. CASE d \in delivered
      BY <2>1 DEF SplitInv, OnlyWholePackets
    <2>2. CASE d = <<a, log[a][n]>>
      BY <1>2, <2>2
    <2> QED
      BY <1>4, <1>5, <2>1, <2>2
  <1> QED
    BY <1>2, <1>5, <1>6, <1>7, <1>8 DEF SplitInv, OnlyWholePackets

LEMMA SplitStep == SplitInv /\ [Next]_vars => SplitInv'
  <1> SUFFICES ASSUME SplitInv, [Next]_vars PROVE SplitInv'
    OBVIOUS
  <1>1. ASSUME UNCHANGED <<log, entries, delivered>>, wire' \subseteq wire
        PROVE  SplitInv'
    BY <1>1 DEF SplitInv, WireInv, EntryAgrees, OnlyWholePackets
  <1>2. ASSUME NEW m \in wire, Lose(m) PROVE SplitInv'
    BY <1>1, <1>2 DEF Lose
  <1>3. CASE Tick
    BY <1>1, <1>3 DEF Tick
  <1>4. CASE UNCHANGED vars
    BY <1>1, <1>4 DEF vars
  <1> QED
    BY <1>2, <1>3, <1>4, SendInv, GetPacketInv DEF Next

LEMMA SplitInvHolds == Spec => []SplitInv
  BY SplitInit, SplitStep, PTL DEF Spec

\* However the network mixes, repeats, loses and delays the parts of the packets
\* of an address, and whenever an entry is forgotten: what NET_GetLong returns
\* is a packet that was sent from there, whole.
THEOREM OnlyWholePacketsThm == Spec => []OnlyWholePackets
  <1>1. SplitInv => OnlyWholePackets
    BY DEF SplitInv
  <1> QED
    BY <1>1, SplitInvHolds, PTL

\* The count of the parts an entry misses agrees with its flags and its buffer.
THEOREM CountsAgreeThm == Spec => []CountsAgree
  <1>1. SplitInv => CountsAgree
    BY DEF SplitInv, EntryAgrees, CountsAgree
  <1> QED
    BY <1>1, SplitInvHolds, PTL

-----------------------------------------------------------------------------
(* The types of the entries.                                               *)

SplitTyped ==
  /\ \A a \in Addresses : EntryTyped(entries[a])
  /\ idle \in [Addresses -> 0 .. SPLIT_PACKET_STALE_TIME]
  /\ delivered \subseteq Addresses \X Packets

LEMMA SplitTypedInit == Init => SplitTyped
  <1> SUFFICES ASSUME Init PROVE SplitTyped
    OBVIOUS
  <1>1. \A a \in Addresses : EntryTyped(entries[a])
    BY NewEntryTyped DEF Init
  <1>2. idle \in [Addresses -> 0 .. SPLIT_PACKET_STALE_TIME] /\ delivered = {}
    BY StaleAssumption DEF Init
  <1> QED
    BY <1>1, <1>2 DEF SplitTyped

LEMMA GetPacketTyped ==
  ASSUME SplitInv, SplitTyped, NEW m \in wire, NET_GetPacket(m)
  PROVE  SplitTyped'
  <1> DEFINE a == m.from
             result == NET_GetLong(Entry(a), m.part)
  <1>1. PICK n \in DOMAIN log[a] :
          \E i \in 0 .. PartCount(log[a][n]) - 1 : m.part = Part(log[a][n], n, i)
    BY DEF SplitInv, WireInv
  <1>2. PICK i \in 0 .. PartCount(log[a][n]) - 1 : m.part = Part(log[a][n], n, i)
    BY <1>1
  <1>3. a \in Addresses /\ log[a] \in Seq(Packets)
    BY DEF SplitInv, WireInv
  <1>4. n \in Nat /\ log[a][n] \in Packets
    BY <1>3
  <1>5. \A b \in Addresses : EntryTyped(Entry(b)) /\ EntryAgrees(b, Entry(b))
    BY NewEntryTyped DEF SplitInv, SplitTyped, Entry, EntryAgrees, NewEntry
  <1>6. EntryTyped(result.entry)
    BY <1>2, <1>3, <1>4, <1>5, GetLongTyped
  <1>7. result.packet \in {Nothing, log[a][n]}
    BY <1>2, <1>3, <1>5, GetLongAgrees DEF SplitInv
  <1> HIDE DEF result
  <1>8. /\ \A b \in Addresses : entries'[b] = IF b = a THEN result.entry ELSE Entry(b)
        /\ idle' = [idle EXCEPT ![a] = 0]
        /\ delivered' = delivered \cup
             (IF result.packet = Nothing THEN {} ELSE {<<a, result.packet>>})
    BY DEF NET_GetPacket, result
  <1>9. \A b \in Addresses : EntryTyped(entries'[b])
    BY <1>5, <1>6, <1>8
  <1>10. idle' \in [Addresses -> 0 .. SPLIT_PACKET_STALE_TIME]
    <2>1. 0 \in 0 .. SPLIT_PACKET_STALE_TIME
      BY StaleAssumption
    <2>2. idle \in [Addresses -> 0 .. SPLIT_PACKET_STALE_TIME]
      BY DEF SplitTyped
    <2> QED
      BY <1>8, <2>1, <2>2
  <1>11. delivered' \subseteq Addresses \X Packets
    BY <1>3, <1>4, <1>7, <1>8 DEF SplitTyped
  <1> QED
    BY <1>9, <1>10, <1>11 DEF SplitTyped, EntryTyped

LEMMA SplitTypedStep == SplitInv /\ SplitTyped /\ [Next]_vars => SplitTyped'
  <1> SUFFICES ASSUME SplitInv, SplitTyped, [Next]_vars PROVE SplitTyped'
    OBVIOUS
  <1>1. ASSUME UNCHANGED <<entries, delivered>>,
               idle' \in [Addresses -> 0 .. SPLIT_PACKET_STALE_TIME]
        PROVE  SplitTyped'
    BY <1>1 DEF SplitTyped, EntryTyped
  <1>2. idle \in [Addresses -> 0 .. SPLIT_PACKET_STALE_TIME]
    BY DEF SplitTyped
  <1>3. CASE \/ UNCHANGED vars \/ \E m \in wire : Lose(m)
             \/ \E a \in Addresses, pkt \in Packets : NET_SendLong(a, pkt)
    BY <1>1, <1>2, <1>3 DEF vars, Lose, NET_SendLong
  <1>4. CASE Tick
    <2>1. idle' \in [Addresses -> 0 .. SPLIT_PACKET_STALE_TIME]
      BY <1>2, <1>4, StaleAssumption DEF Tick, Stale
    <2> QED
      BY <1>1, <1>4, <2>1 DEF Tick
  <1> QED
    BY <1>3, <1>4, GetPacketTyped DEF Next

\* The entries, the parts in flight and what is delivered keep their types.
THEOREM SplitTypedThm == Spec => []TypeOK
  <1>1. SplitInv /\ SplitTyped => TypeOK
    <2> SUFFICES ASSUME SplitInv, SplitTyped PROVE TypeOK
      OBVIOUS
    <2>1. ASSUME NEW m \in wire PROVE m.from \in Addresses /\ m.part.of \in Packets
      <3>1. m.from \in Addresses
        BY DEF SplitInv, WireInv
      <3>2. PICK n \in DOMAIN log[m.from] :
              \E i \in 0 .. PartCount(log[m.from][n]) - 1 : m.part = Part(log[m.from][n], n, i)
        BY DEF SplitInv, WireInv
      <3>3. log[m.from][n] \in Packets
        BY <3>1, <3>2 DEF SplitInv
      <3>4. m.part.of = log[m.from][n]
        BY <3>2 DEF Part
      <3> QED
        BY <3>1, <3>3, <3>4
    <2> QED
      BY <2>1 DEF SplitInv, SplitTyped, EntryTyped, TypeOK
  <1> QED
    BY <1>1, SplitInit, SplitStep, SplitTypedInit, SplitTypedStep, PTL DEF Spec

=============================================================================
