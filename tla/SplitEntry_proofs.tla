------------------------- MODULE SplitEntry_proofs -------------------------
(***************************************************************************)
(* What NET_GetLong does to an entry, for packets of any sizes: the        *)
(* arithmetic of the parts, which parts an entry has counted, and when it  *)
(* holds a packet.                                                         *)
(***************************************************************************)
EXTENDS SplitEntry, FiniteSetTheorems, TLAPS

\* What the solver needs to know of division and of products.
LEMMA Division ==
  ASSUME NEW a \in Nat, NEW s \in Nat \ {0}
  PROVE  /\ a \div s \in Nat
         /\ s * (a \div s) <= a /\ a < s * (a \div s) + s
  <1>1. a \div s \in Int /\ a \div s >= 0
    OBVIOUS
  <1>2. s * (a \div s) <= a
    OBVIOUS
  <1>3. a < s * (a \div s) + s
    OBVIOUS
  <1> QED
    BY <1>1, <1>2, <1>3

LEMMA Distribute ==
  ASSUME NEW c \in Int, NEW s \in Int
  PROVE  c * s \in Int /\ s * c = c * s /\ (c - 1) * s = c * s - s
  OBVIOUS

LEMMA NatTimes ==
  ASSUME NEW c \in Nat, NEW s \in Nat
  PROVE  c * s \in Nat
  OBVIOUS

\* The numbers of n parts.
LEMMA PartNumbers ==
  ASSUME NEW n \in Nat
  PROVE  IsFiniteSet(0 .. n - 1) /\ Cardinality(0 .. n - 1) = n
  <1>1. PICK a \in Int, b \in Int : a = 0 /\ b = n - 1
    OBVIOUS
  <1>2. /\ IsFiniteSet(a .. b)
        /\ Cardinality(a .. b) = IF a > b THEN 0 ELSE b - a + 1
    BY FS_Interval
  <1> QED
    BY <1>1, <1>2

\* The parts of a packet are as many as its bytes need.
LEMMA PartCountFits ==
  ASSUME NEW pkt \in Packets
  PROVE  /\ PartCount(pkt) \in Nat \ {0}
         /\ SendLen[pkt] <= PartCount(pkt) * SPLIT_SIZE
  <1>1. SPLIT_SIZE \in Nat \ {0} /\ SendLen[pkt] \in Nat \ {0}
    BY PacketsAssumption
  <1>2. PICK x \in Nat : x = SendLen[pkt] + SPLIT_SIZE - 1
    BY <1>1
  <1>3. PICK c : c = x \div SPLIT_SIZE
    OBVIOUS
  <1>4. c \in Nat /\ SPLIT_SIZE * c <= x /\ x < SPLIT_SIZE * c + SPLIT_SIZE
    BY <1>1, <1>3, Division
  <1>5. c * SPLIT_SIZE \in Int /\ SPLIT_SIZE * c = c * SPLIT_SIZE
    BY <1>1, <1>4, Distribute
  <1>6. SendLen[pkt] <= c * SPLIT_SIZE
    BY <1>1, <1>2, <1>4, <1>5
  <1>7. c # 0
    BY <1>1, <1>6
  <1>8. PartCount(pkt) = c
    BY <1>2, <1>3 DEF PartCount
  <1> QED
    BY <1>4, <1>6, <1>7, <1>8

\* The last part tells the size of the whole packet.
LEMMA LastPartTells ==
  ASSUME NEW pkt \in Packets
  PROVE  Bytes(pkt, PartCount(pkt) - 1) + SPLIT_SIZE * PartCount(pkt) - SPLIT_SIZE = SendLen[pkt]
  <1> DEFINE c == PartCount(pkt)
  <1>1. SPLIT_SIZE \in Nat \ {0} /\ SendLen[pkt] \in Nat \ {0} /\ c \in Nat \ {0}
    BY PacketsAssumption, PartCountFits
  <1>2. SendLen[pkt] <= c * SPLIT_SIZE
    BY PartCountFits
  <1> HIDE DEF c
  <1>3. c * SPLIT_SIZE \in Int /\ SPLIT_SIZE * c = c * SPLIT_SIZE
        /\ (c - 1) * SPLIT_SIZE = c * SPLIT_SIZE - SPLIT_SIZE
    BY <1>1, Distribute
  <1>4. Bytes(pkt, c - 1) = SendLen[pkt] - (c * SPLIT_SIZE - SPLIT_SIZE)
    BY <1>1, <1>2, <1>3 DEF Bytes
  <1>5. Bytes(pkt, c - 1) + SPLIT_SIZE * c - SPLIT_SIZE = SendLen[pkt]
    BY <1>1, <1>3, <1>4
  <1> QED
    BY <1>5 DEF c

\* The sequence number tells the packet of an address, and is neither that of
\* a new entry nor that of one which is done.
LEMMA SequenceTells ==
  ASSUME NEW p \in Packets, NEW q \in Packets, NEW m \in Nat \ {0}, NEW n \in Nat \ {0}
  PROVE  /\ Sequence(p, m) \in Int \ {-1, 0}
         /\ Sequence(p, m) = Sequence(q, n) => m = n
  BY DEF Sequence
-----------------------------------------------------------------------------
\* What adding a part of a packet does to an entry.
LEMMA AddedIs ==
  ASSUME NEW pkt \in Packets, NEW n \in Nat \ {0},
         NEW i \in 0 .. PartCount(pkt) - 1,
         PartCount(pkt) <= MAX_SPLITPACKET_SPLITS,
         NEW entry, NEW new, new = Added(entry, Part(pkt, n, i))
  PROVE  /\ new.currentSequence = Sequence(pkt, n)
         /\ new.splitCount = (IF entry.currentSequence # Sequence(pkt, n)
                              THEN PartCount(pkt) ELSE entry.splitCount)
                             - (IF entry.splitflags[i] # Sequence(pkt, n) THEN 1 ELSE 0)
         /\ new.totalSize = IF entry.splitflags[i] # Sequence(pkt, n) /\ i = PartCount(pkt) - 1
                            THEN SendLen[pkt] ELSE entry.totalSize
         /\ \A k \in Place :
              /\ new.splitflags[k] = IF k = i THEN Sequence(pkt, n) ELSE entry.splitflags[k]
              /\ new.buffer[k] = IF k = i THEN [of |-> pkt, number |-> i] ELSE entry.buffer[k]
         /\ 0 .. PartCount(pkt) - 1 \subseteq Place
  <1> DEFINE part == Part(pkt, n, i)
             seq == Sequence(pkt, n)
  <1>1. /\ part.sequence = seq /\ part.number = i /\ part.count = PartCount(pkt)
        /\ part.size = Bytes(pkt, i) /\ part.of = pkt
    BY DEF Part
  <1>2. PartCount(pkt) \in Nat \ {0} /\ i \in Nat /\ i < PartCount(pkt)
    BY PartCountFits
  <1>3. 0 .. PartCount(pkt) - 1 \subseteq Place
    BY <1>2, PacketsAssumption DEF Place
  <1>4. seq \in Int \ {-1, 0}
    BY SequenceTells
  <1>5. FirstOfSeries(entry, part) <=> entry.currentSequence # seq
    BY <1>1, <1>4 DEF FirstOfSeries
  <1>6. Counts(entry, part) <=> entry.splitflags[i] # seq
    BY <1>1 DEF Counts
  <1>7. i = PartCount(pkt) - 1 => part.size + SPLIT_SIZE * part.count - SPLIT_SIZE = SendLen[pkt]
    BY <1>1, LastPartTells
  <1> HIDE DEF part, seq
  <1>8. Total(entry, part) = IF entry.splitflags[i] # seq /\ i = PartCount(pkt) - 1
                             THEN SendLen[pkt] ELSE entry.totalSize
    BY <1>1, <1>6, <1>7 DEF Total
  <1>9. PartsLeft(entry, part) =
          (IF entry.currentSequence # seq THEN PartCount(pkt) ELSE entry.splitCount)
          - (IF entry.splitflags[i] # seq THEN 1 ELSE 0)
    BY <1>1, <1>5, <1>6 DEF PartsLeft
  <1>10. new = Added(entry, part)
    BY DEF part
  <1>11. /\ new.currentSequence = seq
         /\ new.splitCount = PartsLeft(entry, part)
         /\ new.totalSize = Total(entry, part)
         /\ \A k \in Place :
              /\ new.splitflags[k] = IF k = i THEN seq ELSE entry.splitflags[k]
              /\ new.buffer[k] = IF k = i THEN [of |-> pkt, number |-> i] ELSE entry.buffer[k]
    BY <1>1, <1>10 DEF Added, Filled
  <1> QED
    BY <1>3, <1>8, <1>9, <1>11 DEF seq

\* The first part of another packet that comes starts the entry over.
LEMMA CollectsFirst ==
  ASSUME NEW pkt \in Packets, NEW n \in Nat \ {0},
         NEW i \in 0 .. PartCount(pkt) - 1,
         PartCount(pkt) <= MAX_SPLITPACKET_SPLITS,
         NEW entry, entry.currentSequence # Sequence(pkt, n),
         entry.splitflags[i] # Sequence(pkt, n)
  PROVE  Collected(Added(entry, Part(pkt, n, i)), pkt, {i})
  <1>1. PICK new : new = Added(entry, Part(pkt, n, i))
    OBVIOUS
  <1>2. PartCount(pkt) \in Nat \ {0} /\ i \in Place
    BY <1>1, PartCountFits, AddedIs
  <1>3. /\ new.currentSequence = Sequence(pkt, n) /\ new.splitCount = PartCount(pkt) - 1
        /\ i = PartCount(pkt) - 1 => new.totalSize = SendLen[pkt]
        /\ new.splitflags[i] = Sequence(pkt, n)
        /\ new.buffer[i] = [of |-> pkt, number |-> i]
    BY <1>1, <1>2, AddedIs
  <1>4. Cardinality({i}) = 1
    BY FS_Singleton
  <1>5. Collected(new, pkt, {i})
    BY <1>3, <1>4 DEF Collected
  <1> QED
    BY <1>1, <1>5

\* Another part of the same packet is counted.
LEMMA CollectsMore ==
  ASSUME NEW pkt \in Packets, NEW n \in Nat \ {0},
         NEW i \in 0 .. PartCount(pkt) - 1,
         PartCount(pkt) <= MAX_SPLITPACKET_SPLITS,
         NEW entry, entry.currentSequence = Sequence(pkt, n),
         entry.splitflags[i] # Sequence(pkt, n),
         NEW parts, Collected(entry, pkt, parts)
  PROVE  Collected(Added(entry, Part(pkt, n, i)), pkt, parts \cup {i})
  <1> DEFINE all == 0 .. PartCount(pkt) - 1
             seq == Sequence(pkt, n)
  <1>1. PICK new : new = Added(entry, Part(pkt, n, i))
    OBVIOUS
  <1>2. PartCount(pkt) \in Nat \ {0} /\ all \subseteq Place
    BY <1>1, PartCountFits, AddedIs
  <1>3. /\ new.currentSequence = seq /\ new.splitCount = entry.splitCount - 1
        /\ new.totalSize = IF i = PartCount(pkt) - 1 THEN SendLen[pkt] ELSE entry.totalSize
        /\ \A k \in Place :
              /\ new.splitflags[k] = IF k = i THEN seq ELSE entry.splitflags[k]
              /\ new.buffer[k] = IF k = i THEN [of |-> pkt, number |-> i] ELSE entry.buffer[k]
    BY <1>1, AddedIs
  <1> HIDE DEF seq
  <1>4. /\ parts \subseteq all /\ entry.splitCount = PartCount(pkt) - Cardinality(parts)
        /\ \A k \in parts : /\ entry.splitflags[k] = seq
                            /\ entry.buffer[k] = [of |-> pkt, number |-> k]
        /\ PartCount(pkt) - 1 \in parts => entry.totalSize = SendLen[pkt]
    BY DEF Collected, seq
  <1>5. IsFiniteSet(parts) /\ Cardinality(parts) \in Nat
    <2>1. IsFiniteSet(all)
      BY <1>2, PartNumbers
    <2> QED
      BY <1>4, <2>1, FS_Subset, FS_CardinalityType
  <1>6. i \notin parts
    BY <1>4 DEF seq
  <1>7. Cardinality(parts \cup {i}) = Cardinality(parts) + 1
    BY <1>5, <1>6, FS_AddElement
  <1>8. new.splitCount = PartCount(pkt) - Cardinality(parts \cup {i})
    BY <1>2, <1>3, <1>4, <1>5, <1>7
  <1>9. \A k \in parts \cup {i} : /\ new.splitflags[k] = seq
                                  /\ new.buffer[k] = [of |-> pkt, number |-> k]
    BY <1>2, <1>3, <1>4
  <1>10. PartCount(pkt) - 1 \in parts \cup {i} => new.totalSize = SendLen[pkt]
    BY <1>3, <1>4
  <1>11. Collected(new, pkt, parts \cup {i})
    BY <1>3, <1>4, <1>8, <1>9, <1>10 DEF Collected
  <1> QED
    BY <1>1, <1>11

\* A part that is added to an entry is counted once: if the entry collected
\* parts of its packet, it goes on, and otherwise it starts over.
LEMMA AddedCollects ==
  ASSUME NEW pkt \in Packets, NEW n \in Nat \ {0},
         NEW i \in 0 .. PartCount(pkt) - 1,
         PartCount(pkt) <= MAX_SPLITPACKET_SPLITS,
         NEW entry,
         entry.currentSequence = Sequence(pkt, n) =>
           \E parts \in SUBSET (0 .. PartCount(pkt) - 1) : Collected(entry, pkt, parts)
  PROVE  \E parts \in SUBSET (0 .. PartCount(pkt) - 1) :
            Collected(Added(entry, Part(pkt, n, i)), pkt, parts)
  <1> DEFINE all == 0 .. PartCount(pkt) - 1
             seq == Sequence(pkt, n)
  <1>1. PICK new : new = Added(entry, Part(pkt, n, i))
    OBVIOUS
  <1>2. PartCount(pkt) \in Nat \ {0} /\ all \subseteq Place
    BY <1>1, PartCountFits, AddedIs
  <1>3. CASE entry.splitflags[i] # seq /\ entry.currentSequence # seq
    <2>1. Collected(new, pkt, {i})
      BY <1>1, <1>3, CollectsFirst
    <2> QED
      BY <1>1, <2>1
  <1>4. CASE entry.splitflags[i] # seq /\ entry.currentSequence = seq
    <2>1. PICK parts \in SUBSET all : Collected(entry, pkt, parts)
      BY <1>4
    <2>2. Collected(new, pkt, parts \cup {i})
      BY <1>1, <1>4, <2>1, CollectsMore
    <2>3. parts \cup {i} \in SUBSET all
      BY <2>1
    <2> QED
      BY <1>1, <2>2, <2>3
  <1>5. CASE entry.splitflags[i] = seq
    <2>1. /\ new.currentSequence = seq /\ new.totalSize = entry.totalSize
          /\ entry.currentSequence # seq => new.splitCount = PartCount(pkt) - 0
          /\ entry.currentSequence = seq => new.splitCount = entry.splitCount - 0
          /\ \A k \in Place : /\ new.splitflags[k] = IF k = i THEN seq ELSE entry.splitflags[k]
                              /\ new.buffer[k] = IF k = i THEN [of |-> pkt, number |-> i]
                                                           ELSE entry.buffer[k]
      BY <1>1, <1>5, AddedIs
    <2> HIDE DEF seq
    <2>2. CASE entry.currentSequence # seq
      <3>1. Cardinality({}) = 0
        BY FS_EmptySet
      <3>2. Collected(new, pkt, {})
        BY <1>2, <2>1, <2>2, <3>1 DEF Collected
      <3> QED
        BY <1>1, <3>2
    <2>3. CASE entry.currentSequence = seq
      <3>1. PICK parts \in SUBSET all : Collected(entry, pkt, parts)
        BY <2>3 DEF seq
      <3>2. IsFiniteSet(parts) /\ Cardinality(parts) \in Nat
        <4>1. IsFiniteSet(all)
          BY <1>2, PartNumbers
        <4> QED
          BY <3>1, <4>1, FS_Subset, FS_CardinalityType
      <3>3. /\ entry.splitCount = PartCount(pkt) - Cardinality(parts)
            /\ \A k \in parts : /\ entry.splitflags[k] = seq
                                /\ entry.buffer[k] = [of |-> pkt, number |-> k]
            /\ PartCount(pkt) - 1 \in parts => entry.totalSize = SendLen[pkt]
        BY <2>3, <3>1 DEF Collected
      <3>4. new.splitCount = PartCount(pkt) - Cardinality(parts)
        BY <1>2, <2>1, <2>3, <3>2, <3>3
      <3>5. Collected(new, pkt, parts)
        BY <1>2, <2>1, <3>1, <3>3, <3>4 DEF Collected
      <3> QED
        BY <1>1, <3>1, <3>5
    <2> QED
      BY <2>2, <2>3
  <1> QED
    BY <1>3, <1>4, <1>5

\* An entry that misses no part holds its packet, and no other.
LEMMA CompleteHolds ==
  ASSUME NEW pkt \in Packets, NEW entry,
         NEW parts \in SUBSET (0 .. PartCount(pkt) - 1),
         Collected(entry, pkt, parts), Complete(entry)
  PROVE  Assembled(entry) = pkt
  <1> DEFINE all == 0 .. PartCount(pkt) - 1
  <1>1. PartCount(pkt) \in Nat \ {0}
    BY PartCountFits
  <1>2. IsFiniteSet(all) /\ Cardinality(all) = PartCount(pkt)
    BY <1>1, PartNumbers
  <1>3. IsFiniteSet(parts) /\ Cardinality(parts) \in Nat /\ Cardinality(parts) <= Cardinality(all)
    BY <1>2, FS_Subset, FS_CardinalityType
  <1>4. PartCount(pkt) - Cardinality(parts) <= 0
    BY DEF Collected, Complete
  <1>5. parts = all
    <2>1. Cardinality(all) = Cardinality(parts)
      BY <1>1, <1>2, <1>3, <1>4
    <2> QED
      BY <1>2, <2>1, FS_Subset
  <1>6. Holds(entry, pkt) /\ entry.buffer[0] = [of |-> pkt, number |-> 0]
    <2>1. PartCount(pkt) - 1 \in all /\ 0 \in all
      BY <1>1
    <2> QED
      BY <1>5, <2>1 DEF Collected, Holds
  <1>7. ASSUME NEW other \in Packets, Holds(entry, other) PROVE other = pkt
    <2>1. PartCount(other) \in Nat \ {0}
      BY PartCountFits
    <2>2. entry.buffer[0] = [of |-> other, number |-> 0]
      BY <1>7, <2>1 DEF Holds
    <2>3. [of |-> other, number |-> 0].of = [of |-> pkt, number |-> 0].of
      BY <1>6, <2>2
    <2> QED
      BY <2>3
  <1> QED
    BY <1>6, <1>7 DEF Assembled
-----------------------------------------------------------------------------
(* The types of an entry: a size that the last part tells is that of a     *)
(* packet.                                                                 *)

EntryTyped(entry) ==
  /\ entry.splitCount \in Int /\ entry.totalSize \in Nat
  /\ entry.splitflags \in [Place -> Int]

LEMMA NewEntryTyped == EntryTyped(NewEntry)
  BY DEF EntryTyped, NewEntry

\* A part of a packet leaves the entry it is added to with its types.
LEMMA GetLongTyped ==
  ASSUME NEW entry, EntryTyped(entry), NEW pkt \in Packets, NEW n \in Nat,
         NEW i \in 0 .. PartCount(pkt) - 1
  PROVE  EntryTyped(NET_GetLong(entry, Part(pkt, n, i)).entry)
  <1> DEFINE part == Part(pkt, n, i)
  <1>1. /\ part.sequence \in Int /\ part.count \in Nat /\ part.count = PartCount(pkt)
        /\ part.number = i /\ part.size = Bytes(pkt, i) /\ part.of = pkt
    BY PartCountFits DEF Part, Sequence
  <1>2. EntryTyped(Added(entry, part))
    <2>1. PartsLeft(entry, part) \in Int
      BY <1>1 DEF PartsLeft, EntryTyped
    <2>2. Total(entry, part) \in Nat
      <3>1. CASE i = PartCount(pkt) - 1
        <4>1. part.size + SPLIT_SIZE * part.count - SPLIT_SIZE = SendLen[pkt]
          BY <1>1, <3>1, LastPartTells
        <4> QED
          BY <4>1, PacketsAssumption DEF Total, EntryTyped
      <3>2. CASE i # PartCount(pkt) - 1
        BY <1>1, <3>2 DEF Total, EntryTyped
      <3> QED
        BY <3>1, <3>2
    <2>3. [p \in Place |-> IF p = part.number THEN part.sequence ELSE entry.splitflags[p]]
            \in [Place -> Int]
      BY <1>1 DEF EntryTyped
    <2> HIDE DEF part
    <2> QED
      BY <2>1, <2>2, <2>3 DEF EntryTyped, Added
  <1> HIDE DEF part
  <1>3. EntryTyped(Cleared(Added(entry, part)))
    BY <1>2 DEF EntryTyped, Cleared
  <1>4. EntryTyped(NET_GetLong(entry, part).entry)
    BY <1>2, <1>3 DEF NET_GetLong
  <1> QED
    BY <1>4 DEF part

=============================================================================
