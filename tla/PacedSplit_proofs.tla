-------------------------- MODULE PacedSplit_proofs --------------------------
(***************************************************************************)
(* The proof that the parts of long packets are put together at the other  *)
(* end: for any number of channels and packets, any pace, and whatever     *)
(* the game thread, the sender's thread and the clock do in between.       *)
(*                                                                         *)
(* A part of the packet a channel sent last is in one place only: not yet  *)
(* queued, waiting with the sender, or come to the other end, whose entry  *)
(* has its flag (Came).  CanPacket() lets no packet start while parts of   *)
(* the one before wait, so the entry is done with that one, unless a part  *)
(* was refused by a full queue: then it starts over.                       *)
(***************************************************************************)
EXTENDS PacedSplit, SplitEntry_proofs

S == INSTANCE QueuedSender_proofs
    WITH Data <- Parts, Wrap <- MaxClock + 1, StartTime <- 0

\* No packet has more parts than an entry has places (net_ws.cpp:1128: there
\* are 508, and a part names the count of its packet in a byte, line 1282).
PartsFit == \A pkt \in Packets : PartCount(pkt) <= MAX_SPLITPACKET_SPLITS

----------------------------------------------------------------------------
(* One channel: the packets sent, the last one of them, and what the other *)
(* end has of it.                                                          *)

Numbers(pkt) == 0 .. PartCount(pkt) - 1
LastOf(items) == items[Len(items)]
LastSequence(items) == Sequence(LastOf(items), Len(items))

Came(items, entry) ==
  {i \in Numbers(LastOf(items)) : entry.splitflags[i] = LastSequence(items)}
With(parts, i) == parts \cup {i}
Whole(items, entry) == Came(items, entry) = Numbers(LastOf(items))

\* What an entry has seen are parts of packets that were sent.
Known(items, sequence) == \E n \in DOMAIN items : sequence = Sequence(items[n], n)

\* The entry is done with a packet that came whole, and counts the parts of one
\* that has begun to come.
EntryFollows(items, entry) ==
  /\ \A i \in Place : entry.splitflags[i] = -1 \/ Known(items, entry.splitflags[i])
  /\ entry.currentSequence \in {-1, 0} \/ Known(items, entry.currentSequence)
  /\ items # <<>> =>
       /\ Whole(items, entry) => entry.currentSequence = -1
       /\ Came(items, entry) = {} => entry.currentSequence # LastSequence(items)
       /\ Came(items, entry) # {} /\ ~Whole(items, entry) =>
            /\ entry.currentSequence = LastSequence(items)
            /\ Collected(entry, LastOf(items), Came(items, entry))

\* What came out are packets in their order, the last one only if it is whole.
Picks(place, items, packets) ==
  \A i \in DOMAIN packets :
    /\ packets[i] = items[place[i]]
    /\ i > 1 => place[i - 1] < place[i]

PacketsFollow(items, end) ==
  \E place \in [DOMAIN end.packets -> DOMAIN items] :
    /\ Picks(place, items, end.packets)
    /\ items # <<>> /\ ~Whole(items, end.entry) =>
         \A i \in DOMAIN end.packets : place[i] < Len(items)

\* All packets came out, but for the last one as long as it is not whole.
InFull(items, end) ==
  end.packets = IF items # <<>> /\ ~Whole(items, end.entry) THEN Front(items) ELSE items

EndFollows(items, end) == EntryFollows(items, end.entry) /\ PacketsFollow(items, end)

----------------------------------------------------------------------------
(* The channels and the sender.                                            *)

Sending(c) == sending # NotSending /\ sending.channel = c
CameTo(c) == Came(log[c], entries[c])
Numbered(s, c) == {p.data.number : p \in {q \in S!Members(s) : q.channel = c}}
Unsent(c) == IF Sending(c) THEN sending.next .. PartCount(LastOf(log[c])) - 1 ELSE {}

EntryType ==
  [currentSequence : Int, splitCount : Int, totalSize : Int, splitflags : [Place -> Int],
   buffer : [Place -> [of : Packets \cup {Nothing}, number : Int]]]
EndType == [entry : EntryType, packets : Seq(Packets \cup {Nothing, Torn})]

PathTyped ==
  /\ log \in [Channels -> Seq(Packets)]
  /\ \A c \in Channels : Len(log[c]) <= MaxPackets /\ End(c) \in EndType

SendingFits ==
  sending # NotSending =>
    /\ sending.channel \in Channels /\ log[sending.channel] # <<>>
    /\ sending.next \in 1 .. PartCount(LastOf(log[sending.channel])) - 1

\* A part that waits is one of the last packet of its channel and has not come.
OnItsWay(p) ==
  LET items == log[p.channel]
  IN /\ items # <<>>
     /\ p.data.number \in Numbers(LastOf(items)) \ CameTo(p.channel)
     /\ p.data = Part(LastOf(items), Len(items), p.data.number)

\* No part is in a sequence of packets twice.
Apart(s) ==
  /\ S!Distinct(s)
  /\ \A p, q \in S!Members(s) :
       p.channel = q.channel /\ p.data.number = q.data.number => p = q

\* The loop of NET_SendLong has queued the parts that wait.
WaitingFits ==
  /\ Apart(queue)
  /\ \A p \in S!Members(queue) : OnItsWay(p) /\ p.data.number \notin Unsent(p.channel)

EndsFollow ==
  \A c \in Channels : /\ EndFollows(log[c], End(c))
                      /\ log[c] # <<>> => CameTo(c) \cap Unsent(c) = {}

\* Nothing is lost that was not refused.
Lossless ==
  refused = {} => \A c \in Channels :
    /\ InFull(log[c], End(c))
    /\ log[c] # <<>> =>
         Numbers(LastOf(log[c])) \subseteq CameTo(c) \cup Numbered(queue, c) \cup Unsent(c)

PathInv ==
  S!SenderInv /\ PathTyped /\ SendingFits /\ WaitingFits /\ EndsFollow /\ Lossless

----------------------------------------------------------------------------
(* The sender in PacedSplit is the one of QueuedSender_proofs.             *)

LEMMA SameSiftUp == Sender!Queue!SiftUp = S!Queue!SiftUp
  BY DEF Sender!Queue!SiftUp, S!Queue!SiftUp, Sender!LessFunc, S!LessFunc,
         Sender!Queue!Cursors, S!Queue!Cursors, Sender!QueuedPacket, S!QueuedPacket,
         Sender!Queue!Swap, S!Queue!Swap

LEMMA SameSiftDown == Sender!Queue!SiftDown = S!Queue!SiftDown
  BY DEF Sender!Queue!SiftDown, S!Queue!SiftDown, Sender!LessFunc, S!LessFunc,
         Sender!Queue!Cursors, S!Queue!Cursors, Sender!QueuedPacket, S!QueuedPacket,
         Sender!Queue!Swap, S!Queue!Swap, Sender!Queue!Larger, S!Queue!Larger

LEMMA SamePulled == Sender!Pulled = S!Pulled
  BY SameSiftDown
     DEF Sender!Pulled, S!Pulled, Sender!QueuedPacket, S!QueuedPacket,
         Sender!Queue!RemoveAtHead, S!Queue!RemoveAtHead, Sender!Queue!RemoveAt,
         S!Queue!RemoveAt, Sender!Queue!FastRemove, S!Queue!FastRemove

LEMMA SamePacket ==
  ASSUME NEW c, NEW data, NEW delay
  PROVE  Sender!Packet(c, data, delay) = S!Packet(c, data, delay)
  BY DEF Sender!Packet, S!Packet, Sender!MSTime, S!MSTime

LEMMA SameServe == Sender!Serve => S!Serve
  <1>1. Sender!MSTime = S!MSTime
    BY DEF Sender!MSTime, S!MSTime
  <1>2. Sender!Pull(queue, Sender!MSTime) = S!Pull(queue, S!MSTime)
    BY <1>1, SamePulled DEF Sender!Pull, S!Pull
  <1> QED
    BY <1>1, <1>2 DEF Sender!Serve, S!Serve, Sender!NextInterval, S!NextInterval

LEMMA SameEnqueue ==
  ASSUME NEW c, NEW data, NEW delay, Sender!Enqueue(c, data, delay)
  PROVE  S!Enqueue(c, data, delay)
  <1>1. Sender!Packet(c, data, delay) = S!Packet(c, data, delay)
    BY SamePacket
  <1>2. Sender!Queue!Insert(queue, Sender!Packet(c, data, delay))
          = S!Queue!Insert(queue, S!Packet(c, data, delay))
    BY <1>1, SameSiftUp DEF Sender!Queue!Insert, S!Queue!Insert
  <1> QED
    BY <1>2 DEF Sender!Enqueue, S!Enqueue, Sender!QueuePacket, S!QueuePacket,
                Sender!threadVars, S!threadVars

LEMMA SameQuiet == Sender!Wait \/ Sender!Wake \/ Sender!Tick => S!Wait \/ S!Wake \/ S!Tick
  BY DEF Sender!Wait, S!Wait, Sender!Wake, S!Wake, Sender!Tick, S!Tick,
         Sender!TimedOut, S!TimedOut, Sender!threadVars, S!threadVars

LEMMA SenderAssumption == S!TimesAssumption
  BY PaceAssumption DEF S!TimesAssumption

LEMMA SenderStarts == Sender!Init => S!SenderInv
  <1>1. Sender!Init => S!Init
    BY DEF Sender!Init, S!Init
  <1> QED
    BY <1>1, SenderAssumption, S!SenderInvInit

LEMMA SenderSteps ==
  ASSUME S!SenderInv, S!Wait \/ S!Wake \/ S!Tick \/ S!Serve \/ UNCHANGED senderVars
  PROVE  S!SenderInv'
  <1>1. [S!Next]_S!vars
    BY DEF S!Next, S!Run, S!vars, S!threadVars, senderVars
  <1> QED
    BY <1>1, SenderAssumption, S!SenderInvStep

----------------------------------------------------------------------------
(* A part that comes, and a packet that starts.                            *)

LEMMA LastIs ==
  ASSUME NEW items \in Seq(Packets), items # <<>>
  PROVE  /\ LastOf(items) \in Packets /\ Len(items) \in Nat \ {0} /\ Len(items) \in DOMAIN items
         /\ PartCount(LastOf(items)) \in Nat \ {0} /\ 0 \in Numbers(LastOf(items))
         /\ IsFiniteSet(Numbers(LastOf(items)))
         /\ LastSequence(items) = Sequence(LastOf(items), Len(items))
         /\ LastSequence(items) \in Int \ {-1, 0}
  <1>1. LastOf(items) \in Packets /\ Len(items) \in Nat \ {0} /\ Len(items) \in DOMAIN items
    BY DEF LastOf
  <1>2. PartCount(LastOf(items)) \in Nat \ {0}
    BY <1>1, PartCountFits
  <1>3. 0 \in Numbers(LastOf(items)) /\ IsFiniteSet(Numbers(LastOf(items)))
    <2>1. PICK n : n = PartCount(LastOf(items))
      OBVIOUS
    <2>2. n \in Nat \ {0} /\ 0 \in 0 .. n - 1 /\ n - 1 \in Int /\ 0 \in Int
      BY <1>2, <2>1
    <2>3. IsFiniteSet(0 .. n - 1)
      BY <2>2, PartNumbers
    <2> QED
      BY <2>1, <2>2, <2>3 DEF Numbers
  <1> QED
    BY <1>1, <1>2, <1>3, SequenceTells DEF LastSequence

\* An entry misses no part when it has counted all.
LEMMA CompleteWhole ==
  ASSUME NEW pkt \in Packets, NEW entry, NEW parts, Collected(entry, pkt, parts)
  PROVE  Complete(entry) <=> parts = Numbers(pkt)
  <1>1. PICK all : all = Numbers(pkt)
    OBVIOUS
  <1>2. PICK n : n = PartCount(pkt)
    OBVIOUS
  <1>3. n \in Nat \ {0} /\ all = 0 .. n - 1
    BY <1>1, <1>2, PartCountFits DEF Numbers
  <1>4. IsFiniteSet(all) /\ Cardinality(all) = n
    BY <1>3, PartNumbers
  <1>5. parts \subseteq all /\ entry.splitCount = n - Cardinality(parts)
    BY <1>1, <1>2 DEF Collected, Numbers
  <1>6. /\ Cardinality(parts) \in Nat /\ Cardinality(parts) <= n
        /\ Cardinality(parts) = n => parts = all
    BY <1>4, <1>5, FS_Subset, FS_CardinalityType
  <1>7. Complete(entry) <=> n - Cardinality(parts) <= 0
    BY <1>5 DEF Complete
  <1>8. Complete(entry) <=> Cardinality(parts) = n
    BY <1>3, <1>6, <1>7
  <1> QED
    BY <1>1, <1>4, <1>6, <1>8

\* The entry a part is added to.
LEMMA PartAdded ==
  ASSUME PartsFit, NEW items \in Seq(Packets), items # <<>>, NEW entry, EntryFollows(items, entry),
         NEW i \in Numbers(LastOf(items)), i \notin Came(items, entry),
         NEW new, new = Added(entry, Part(LastOf(items), Len(items), i))
  PROVE  /\ Came(items, new) = With(Came(items, entry), i)
         /\ Collected(new, LastOf(items), With(Came(items, entry), i))
         /\ new.currentSequence = LastSequence(items)
         /\ \A k \in Place : new.splitflags[k] = -1 \/ Known(items, new.splitflags[k])
  <1> DEFINE came == Came(items, entry)
  <1>1. PICK pkt, n, seq : pkt = LastOf(items) /\ n = Len(items) /\ seq = LastSequence(items)
    OBVIOUS
  <1>2. /\ pkt \in Packets /\ n \in Nat \ {0} /\ seq = Sequence(pkt, n) /\ n \in DOMAIN items
        /\ i \in 0 .. PartCount(pkt) - 1 /\ PartCount(pkt) <= MAX_SPLITPACKET_SPLITS
    BY <1>1, LastIs DEF Numbers, PartsFit
  <1>3. entry.splitflags[i] # seq
    BY <1>1 DEF Came
  <1>4. new = Added(entry, Part(pkt, n, i))
    BY <1>1
  <1>5. /\ new.currentSequence = seq /\ 0 .. PartCount(pkt) - 1 \subseteq Place
        /\ \A k \in Place : new.splitflags[k] = IF k = i THEN seq ELSE entry.splitflags[k]
    <2>1. /\ new.currentSequence = Sequence(pkt, n) /\ 0 .. PartCount(pkt) - 1 \subseteq Place
          /\ \A k \in Place :
               /\ new.splitflags[k] = IF k = i THEN Sequence(pkt, n) ELSE entry.splitflags[k]
               /\ new.buffer[k] = IF k = i THEN [of |-> pkt, number |-> i] ELSE entry.buffer[k]
      <3>1. pkt \in Packets /\ n \in Nat \ {0} /\ i \in 0 .. PartCount(pkt) - 1
            /\ PartCount(pkt) <= MAX_SPLITPACKET_SPLITS
        BY <1>2
      <3> QED
        BY ONLY <3>1, <1>4, AddedIs
    <2> QED
      BY <1>2, <2>1
  <1>6. Came(items, new) = came \cup {i}
    BY <1>1, <1>2, <1>5 DEF Came, Numbers
  <1>7. Collected(new, pkt, came \cup {i})
    <2>1. CASE came = {}
      <3>1. entry.currentSequence # seq
        BY <1>1, <2>1 DEF EntryFollows
      <3>2. Collected(new, pkt, {i})
        BY <1>2, <1>3, <1>4, <3>1, CollectsFirst
      <3> QED
        BY <2>1, <3>2
    <2>2. CASE came # {}
      <3>1. entry.currentSequence = seq /\ Collected(entry, pkt, came)
        BY <1>1, <2>2 DEF EntryFollows, Whole
      <3> HIDE DEF came
      <3>2. Collected(Added(entry, Part(pkt, n, i)), pkt, came \cup {i})
        BY <1>2, <1>3, <3>1, CollectsMore
      <3> QED
        BY <1>4, <3>2
    <2> QED
      BY <2>1, <2>2
  <1>8. ASSUME NEW k \in Place PROVE new.splitflags[k] = -1 \/ Known(items, new.splitflags[k])
    <2>1. CASE k = i
      <3>1. new.splitflags[k] = Sequence(items[n], n)
        BY <1>1, <1>2, <1>5, <2>1 DEF LastOf
      <3> QED
        BY <1>2, <3>1 DEF Known
    <2>2. CASE k # i
      BY <1>5, <2>2 DEF EntryFollows
    <2> QED
      BY <2>1, <2>2
  <1> QED
    BY <1>1, <1>5, <1>6, <1>7, <1>8 DEF With

\* What NET_GetLong makes of it.
LEMMA PartComes ==
  ASSUME PartsFit, NEW items \in Seq(Packets), items # <<>>, NEW end, EndFollows(items, end),
         end.packets \in Seq(Packets \cup {Nothing, Torn}),
         NEW i \in Numbers(LastOf(items)), i \notin Came(items, end.entry),
         NEW new, new = Arrive(end, Part(LastOf(items), Len(items), i))
  PROVE  /\ Came(items, new.entry) = With(Came(items, end.entry), i)
         /\ EndFollows(items, new)
         /\ InFull(items, end) => InFull(items, new)
  <1>1. PICK pkt, n, seq, part, added, parts :
          /\ pkt = LastOf(items) /\ n = Len(items) /\ seq = LastSequence(items)
          /\ part = Part(pkt, n, i) /\ added = Added(end.entry, part)
          /\ parts = With(Came(items, end.entry), i)
    OBVIOUS
  <1>2. /\ pkt \in Packets /\ n \in Nat \ {0} /\ n \in DOMAIN items
        /\ PartCount(pkt) \in Nat \ {0} /\ seq \in Int \ {-1, 0} /\ seq = Sequence(pkt, n)
        /\ pkt = items[n]
    BY <1>1, LastIs DEF LastOf
  <1>3. /\ Came(items, added) = parts /\ Collected(added, pkt, parts)
        /\ added.currentSequence = seq
        /\ \A k \in Place : added.splitflags[k] = -1 \/ Known(items, added.splitflags[k])
    <2>1. EntryFollows(items, end.entry)
      BY DEF EndFollows
    <2>2. added = Added(end.entry, Part(LastOf(items), Len(items), i))
      BY <1>1
    <2>3. /\ Came(items, added) = With(Came(items, end.entry), i)
          /\ Collected(added, LastOf(items), With(Came(items, end.entry), i))
          /\ added.currentSequence = LastSequence(items)
          /\ \A k \in Place : added.splitflags[k] = -1 \/ Known(items, added.splitflags[k])
      BY <2>1, <2>2, PartAdded
    <2> QED
      BY <1>1, <2>3
  <1>4. ~TooManyParts(part)
    <2>1. part.number = i /\ part.count = PartCount(pkt)
      BY <1>1 DEF Part
    <2>2. PICK count, all : count = PartCount(pkt) /\ all = MAX_SPLITPACKET_SPLITS
      OBVIOUS
    <2>3. i \in 0 .. count - 1 /\ count \in Nat /\ count <= all /\ all \in Nat
      BY <1>1, <1>2, <2>2, PacketsAssumption DEF Numbers, PartsFit
    <2>4. ~(i >= all) /\ ~(count > all)
      BY <2>3
    <2> QED
      BY <2>1, <2>2, <2>4 DEF TooManyParts
  <1>5. Complete(added) <=> parts = Numbers(pkt)
    BY <1>2, <1>3, CompleteWhole
  <1>6. PICK place \in [DOMAIN end.packets -> DOMAIN items] :
          /\ Picks(place, items, end.packets)
          /\ \A k \in DOMAIN end.packets : place[k] < n
    BY <1>1 DEF EndFollows, PacketsFollow, Whole
  <1>7. PICK result : result = NET_GetLong(end.entry, part)
    OBVIOUS
  <1>8. new = [entry |-> result.entry,
               packets |-> IF result.packet = Nothing THEN end.packets
                                                      ELSE Append(end.packets, result.packet)]
    BY <1>1, <1>7 DEF Arrive
  <1>9. CASE parts = Numbers(pkt)
    <2>1. result = [entry |-> Cleared(added), packet |-> Assembled(added)]
      BY <1>1, <1>4, <1>5, <1>7, <1>9 DEF NET_GetLong
    <2>2. Assembled(added) = pkt
      <3>1. parts \in SUBSET (0 .. PartCount(pkt) - 1)
        BY <1>9 DEF Numbers
      <3> QED
        BY <1>2, <1>3, <1>5, <1>9, <3>1, CompleteHolds
    <2>3. /\ new.entry = Cleared(added) /\ new.packets = Append(end.packets, pkt)
      BY <1>2, <1>8, <2>1, <2>2, PacketsAssumption
    <2>4. new.entry.currentSequence = -1 /\ new.entry.splitflags = added.splitflags
      BY <2>3 DEF Cleared
    <2>5. Came(items, new.entry) = parts
      BY <1>3, <2>4 DEF Came
    <2>6. Whole(items, new.entry)
      BY <1>1, <1>9, <2>5 DEF Whole
    <2>7. EntryFollows(items, new.entry)
      <3>1. Came(items, new.entry) # {}
        BY <1>1, <2>5 DEF With
      <3> QED
        BY <1>3, <2>4, <2>6, <3>1 DEF EntryFollows
    <2>8. PacketsFollow(items, new)
      <3>1. PICK m : m = Len(end.packets)
        OBVIOUS
      <3>2. /\ m \in Nat /\ DOMAIN end.packets = 1 .. m /\ DOMAIN new.packets = 1 .. m + 1
            /\ \A k \in 1 .. m : new.packets[k] = end.packets[k]
            /\ new.packets[m + 1] = pkt
        BY <2>3, <3>1
      <3>3. PICK all : all = [k \in 1 .. m + 1 |-> IF k = m + 1 THEN n ELSE place[k]]
        OBVIOUS
      <3>4. all \in [DOMAIN new.packets -> DOMAIN items]
        BY <1>2, <3>2, <3>3
      <3>5. ASSUME NEW k \in DOMAIN new.packets
            PROVE  new.packets[k] = items[all[k]] /\ (k > 1 => all[k - 1] < all[k])
        <4>1. CASE k = m + 1
          <5>1. all[k] = n /\ new.packets[k] = items[all[k]]
            BY <1>2, <3>2, <3>3, <4>1
          <5>2. ASSUME k > 1 PROVE all[k - 1] < all[k]
            <6>1. k - 1 \in 1 .. m /\ k - 1 # m + 1 /\ k - 1 \in 1 .. m + 1
              BY <3>2, <4>1, <5>2
            <6>2. all[k - 1] = place[k - 1]
              BY <3>3, <6>1
            <6>3. place[k - 1] < n
              BY <1>6, <3>2, <6>1
            <6> QED
              BY <5>1, <6>2, <6>3
          <5> QED
            BY <5>1, <5>2
        <4>2. CASE k # m + 1
          <5>1. k \in 1 .. m /\ k \in DOMAIN end.packets
            BY <3>2, <4>2
          <5>2. all[k] = place[k] /\ new.packets[k] = end.packets[k]
            BY <3>2, <3>3, <5>1
          <5>3. end.packets[k] = items[place[k]] /\ (k > 1 => place[k - 1] < place[k])
            BY <1>6, <5>1 DEF Picks
          <5>4. ASSUME k > 1 PROVE all[k - 1] = place[k - 1]
            <6>1. k - 1 \in 1 .. m /\ k - 1 \in 1 .. m + 1 /\ k - 1 # m + 1
              BY <3>2, <5>1, <5>4
            <6> QED
              BY <3>3, <6>1
          <5> QED
            BY <5>2, <5>3, <5>4
        <4> QED
          BY <4>1, <4>2
      <3>6. Picks(all, items, new.packets)
        BY <3>5 DEF Picks
      <3> QED
        BY <2>6, <3>4, <3>6 DEF PacketsFollow
    <2>9. ASSUME InFull(items, end) PROVE InFull(items, new)
      <3>1. ~Whole(items, end.entry)
        BY <1>1 DEF Whole
      <3>2. end.packets = Front(items)
        BY <2>9, <3>1 DEF InFull
      <3>3. Append(Front(items), items[n]) = items
        BY <1>1, <1>2 DEF Front
      <3> QED
        BY <1>2, <2>3, <2>6, <3>2, <3>3 DEF InFull
    <2> QED
      BY <1>1, <2>5, <2>7, <2>8, <2>9 DEF EndFollows
  <1>10. CASE parts # Numbers(pkt)
    <2>1. result = [entry |-> added, packet |-> Nothing]
      BY <1>1, <1>4, <1>5, <1>7, <1>10 DEF NET_GetLong
    <2>2. new.entry = added /\ new.packets = end.packets
      BY <1>8, <2>1
    <2>3. ~Whole(items, added) /\ ~Whole(items, end.entry) /\ Came(items, added) # {}
      BY <1>1, <1>3, <1>10 DEF Whole, With
    <2>4. Known(items, seq)
      BY <1>2 DEF Known
    <2>5. EntryFollows(items, added)
      BY <1>1, <1>3, <2>3, <2>4 DEF EntryFollows
    <2>6. PacketsFollow(items, new)
      BY <1>1, <1>6, <2>2 DEF PacketsFollow
    <2>7. InFull(items, end) => InFull(items, new)
      BY <2>2, <2>3 DEF InFull
    <2> QED
      BY <1>1, <1>3, <2>2, <2>5, <2>6, <2>7 DEF EndFollows
  <1> QED
    BY <1>9, <1>10

\* No part of a packet has come when it is sent.
LEMMA PacketStarts ==
  ASSUME PartsFit, NEW items \in Seq(Packets), NEW pkt \in Packets,
         NEW end, EndFollows(items, end), NEW new, new = Append(items, pkt)
  PROVE  /\ new \in Seq(Packets) /\ new # <<>> /\ LastOf(new) = pkt /\ Len(new) = Len(items) + 1
         /\ Came(new, end.entry) = {}
         /\ EndFollows(new, end)
         /\ InFull(items, end) /\ (items # <<>> => Whole(items, end.entry)) => InFull(new, end)
  <1>1. PICK n : n = Len(items)
    OBVIOUS
  <1>2. /\ n \in Nat /\ new \in Seq(Packets) /\ Len(new) = n + 1 /\ DOMAIN new = 1 .. n + 1
        /\ DOMAIN items = 1 .. n /\ new # <<>> /\ new[n + 1] = pkt
        /\ \A k \in 1 .. n : new[k] = items[k] /\ items[k] \in Packets
    BY <1>1
  <1>3. LastOf(new) = pkt /\ LastSequence(new) = Sequence(pkt, n + 1) /\ n + 1 \in Nat \ {0}
    BY <1>2 DEF LastOf, LastSequence
  <1>4. ASSUME NEW sequence, Known(items, sequence)
        PROVE  sequence # LastSequence(new) /\ Known(new, sequence)
    <2>1. PICK k \in DOMAIN items : sequence = Sequence(items[k], k)
      BY <1>4 DEF Known
    <2>2. k \in Nat \ {0} /\ k \in 1 .. n /\ k # n + 1 /\ k \in DOMAIN new /\ new[k] = items[k]
      BY <1>2, <2>1
    <2>3. Sequence(items[k], k) # Sequence(pkt, n + 1)
      BY <1>2, <1>3, <2>2, SequenceTells
    <2> QED
      BY <1>3, <2>1, <2>2, <2>3 DEF Known
  <1>5. LastSequence(new) \in Int \ {-1, 0} /\ 0 \in Numbers(LastOf(new))
    BY <1>2, LastIs
  <1>6. Numbers(LastOf(new)) \subseteq Place
    <2>1. PICK count, all : count = PartCount(pkt) /\ all = MAX_SPLITPACKET_SPLITS
      OBVIOUS
    <2>2. count \in Nat /\ count <= all /\ all \in Nat
      BY <2>1, PartCountFits, PacketsAssumption DEF PartsFit
    <2>3. 0 .. count - 1 \subseteq 0 .. all - 1
      BY <2>2
    <2> QED
      BY <1>3, <2>1, <2>3 DEF Numbers, Place
  <1>7. Came(new, end.entry) = {}
    <2> SUFFICES ASSUME NEW i \in Numbers(LastOf(new)) PROVE end.entry.splitflags[i] # LastSequence(new)
      BY DEF Came
    <2> QED
      BY <1>4, <1>5, <1>6 DEF EndFollows, EntryFollows
  <1>8. ~Whole(new, end.entry)
    BY <1>5, <1>7 DEF Whole
  <1>9. EntryFollows(new, end.entry)
    BY <1>2, <1>4, <1>5, <1>7, <1>8 DEF EndFollows, EntryFollows
  <1>10. PacketsFollow(new, end)
    <2>1. PICK place \in [DOMAIN end.packets -> DOMAIN items] : Picks(place, items, end.packets)
      BY DEF EndFollows, PacketsFollow
    <2>2. ASSUME NEW k \in DOMAIN end.packets
          PROVE  /\ place[k] \in DOMAIN new /\ place[k] < Len(new) /\ new[place[k]] = items[place[k]]
      BY <1>2, <2>1
    <2>3. place \in [DOMAIN end.packets -> DOMAIN new] /\ Picks(place, new, end.packets)
      BY <2>1, <2>2 DEF Picks
    <2> QED
      BY <2>2, <2>3 DEF PacketsFollow
  <1>11. ASSUME InFull(items, end), items # <<>> => Whole(items, end.entry) PROVE InFull(new, end)
    <2>1. end.packets = items
      BY <1>11 DEF InFull
    <2>2. Front(new) = items
      BY <1>1, <1>2 DEF Front
    <2> QED
      BY <1>2, <1>8, <2>1, <2>2 DEF InFull
  <1> QED
    BY <1>1, <1>2, <1>3, <1>7, <1>9, <1>10, <1>11 DEF EndFollows


----------------------------------------------------------------------------
(* What a batch of parts does to the other ends.                           *)

LEMMA ArriveTyped ==
  ASSUME NEW end \in EndType, NEW part \in Parts
  PROVE  Arrive(end, part) \in EndType
  <1>1. PICK pkt \in Packets, n \in 1 .. MaxPackets, i \in Place : part = Part(pkt, n, i)
    BY DEF Parts
  <1>2. PICK entry, added : entry = end.entry /\ added = Added(entry, part)
    OBVIOUS
  <1>3. entry \in EntryType /\ end.packets \in Seq(Packets \cup {Nothing, Torn})
    BY <1>2 DEF EndType
  <1>4. /\ part.sequence \in Int /\ part.number = i /\ i \in Int /\ part.count \in Int
        /\ part.size \in Int /\ part.of = pkt
    <2>1. PICK b : b = i * SPLIT_SIZE
      OBVIOUS
    <2>2. i \in Int /\ SPLIT_SIZE \in Int /\ SendLen[pkt] \in Int /\ n \in Int
      BY PacketsAssumption, PaceAssumption DEF Place
    <2>3. b \in Int
      BY <2>1, <2>2, Distribute
    <2>4. Bytes(pkt, i) \in Int
      BY <2>1, <2>2, <2>3 DEF Bytes
    <2>5. PartCount(pkt) \in Int
      BY PartCountFits
    <2> QED
      BY <1>1, <2>2, <2>4, <2>5 DEF Part, Sequence
  <1>5. added \in EntryType
    <2>1. PartsLeft(entry, part) \in Int
      BY <1>3, <1>4 DEF PartsLeft, EntryType
    <2>2. Total(entry, part) \in Int
      <3>1. PICK b : b = SPLIT_SIZE * part.count
        OBVIOUS
      <3>2. b \in Int /\ SPLIT_SIZE \in Int
        BY <1>4, <3>1, Distribute, PacketsAssumption
      <3>3. part.size + b - SPLIT_SIZE \in Int
        BY <1>4, <3>2
      <3> QED
        BY <1>3, <3>1, <3>3 DEF Total, EntryType
    <2>3. [k \in Place |-> IF k = part.number THEN part.sequence ELSE entry.splitflags[k]]
             \in [Place -> Int]
      BY <1>3, <1>4 DEF EntryType
    <2>4. Filled(entry, part) \in [Place -> [of : Packets \cup {Nothing}, number : Int]]
      BY <1>3, <1>4 DEF Filled, EntryType
    <2> QED
      BY <1>2, <1>4, <2>1, <2>2, <2>3, <2>4 DEF Added, EntryType
  <1>6. Cleared(added) \in EntryType
    BY <1>5 DEF Cleared, EntryType
  <1>7. Assembled(added) \in Packets \cup {Nothing, Torn}
    BY DEF Assembled
  <1>8. PICK result : result = NET_GetLong(entry, part)
    OBVIOUS
  <1>9. result.entry \in EntryType /\ result.packet \in Packets \cup {Nothing, Torn}
    <2> USE <1>2, <1>3, <1>5, <1>6, <1>7, <1>8
    <2>1. CASE TooManyParts(part)
      BY <2>1 DEF NET_GetLong
    <2>2. CASE ~TooManyParts(part) /\ Complete(added)
      BY <2>2 DEF NET_GetLong
    <2>3. CASE ~TooManyParts(part) /\ ~Complete(added)
      BY <2>3 DEF NET_GetLong
    <2> QED
      BY <2>1, <2>2, <2>3
  <1>10. Append(end.packets, result.packet) \in Seq(Packets \cup {Nothing, Torn})
    BY <1>3, <1>9
  <1> QED
    BY <1>2, <1>3, <1>8, <1>9, <1>10 DEF Arrive, EndType

Ends == [c \in Channels |-> End(c)]
EndsTyped == \A c \in Channels : End(c) \in EndType

\* the other ends after one more packet
After(ends, p) == [ends EXCEPT ![p.channel] = Arrive(ends[p.channel], p.data)]

LEMMA FrontIs ==
  ASSUME NEW T, NEW s \in Seq(T), s # <<>>
  PROVE  /\ Front(s) \in Seq(T) /\ Last(s) \in T /\ Len(Front(s)) = Len(s) - 1
         /\ Len(s) \in Nat \ {0} /\ s[Len(s)] = Last(s)
         /\ DOMAIN s = 1 .. Len(s) /\ DOMAIN Front(s) = 1 .. Len(s) - 1
         /\ \A k \in 1 .. Len(s) - 1 : Front(s)[k] = s[k]
  <1>1. PICK n : n = Len(s)
    OBVIOUS
  <1>2. n \in Nat \ {0} /\ DOMAIN s = 1 .. n /\ s[n] \in T
    BY <1>1
  <1>3. PICK front : front = SubSeq(s, 1, n - 1)
    OBVIOUS
  <1>4. 1 \in Int /\ n - 1 \in 0 .. n
    BY <1>2
  <1>5. /\ front \in Seq(T) /\ Len(front) = n - 1 /\ DOMAIN front = 1 .. n - 1
        /\ \A k \in 1 .. n - 1 : front[k] = s[k]
    BY <1>1, <1>2, <1>3, <1>4
  <1> QED
    BY <1>1, <1>2, <1>3, <1>5 DEF Front, Last

LEMMA ArrivedIs ==
  ASSUME EndsTyped, NEW sent \in Seq(Sender!QueuedPacket)
  PROVE  /\ Arrived[sent] \in [Channels -> EndType]
         /\ Arrived[sent] = IF sent = <<>> THEN Ends ELSE After(Arrived[Front(sent)], Last(sent))
  <1> DEFINE A == Seq(Sender!QueuedPacket)
             V == [Channels -> EndType]
             M == [s \in A |-> Len(s)]
             D == {s \in A : s = <<>>}
             N == [s \in A |-> Front(s)]
             B == [s \in A |-> Ends]
             C == [p \in A \X V |-> After(p[2], Last(p[1]))]
  <1>1. S!Terminates(A, V, M, D, N, B, C)
    <2>1. M \in [A -> Nat]
      OBVIOUS
    <2>2. ASSUME NEW s \in A, s \in D PROVE B[s] \in V
      BY DEF EndsTyped, Ends
    <2>3. ASSUME NEW s \in A, s \notin D
          PROVE  N[s] \in A /\ M[N[s]] < M[s] /\ \A v \in V : C[<<s, v>>] \in V
      <3>1. s # <<>>
        BY <2>3
      <3>2. /\ Front(s) \in A /\ Last(s) \in Sender!QueuedPacket
            /\ Len(Front(s)) = Len(s) - 1 /\ Len(s) \in Nat
        BY <3>1, FrontIs
      <3>3. ASSUME NEW v \in V PROVE C[<<s, v>>] \in V
        <4>1. C[<<s, v>>] = After(v, Last(s))
          OBVIOUS
        <4>2. Last(s).channel \in Channels /\ Last(s).data \in Parts
          BY <3>2 DEF Sender!QueuedPacket
        <4>3. Arrive(v[Last(s).channel], Last(s).data) \in EndType
          BY <4>2, ArriveTyped
        <4> QED
          BY <4>1, <4>3 DEF After
      <3>4. N[s] = Front(s) /\ M[s] = Len(s) /\ M[Front(s)] = Len(Front(s))
        BY <3>2
      <3> HIDE DEF M, N, B, C, V
      <3> QED
        BY <3>2, <3>3, <3>4
    <2> HIDE DEF M, D, N, B, C
    <2> QED
      BY <2>1, <2>2, <2>3 DEF S!Terminates
  <1>2. PICK f : S!Unfolds(f, A, A, V, D, N, B, C)
    BY <1>1, SenderAssumption, S!Recursion
  <1>3. ASSUME NEW s \in A
        PROVE  f[s] = IF s = <<>> THEN Ends ELSE After(f[Front(s)], Last(s))
    <2>1. f[s] = IF s \in D THEN B[s] ELSE C[<<s, f[N[s]]>>]
      BY <1>2 DEF S!Unfolds
    <2>2. CASE s \in D
      BY <2>1, <2>2
    <2>3. CASE s \notin D
      <3>1. N[s] \in A /\ N[s] = Front(s)
        BY <1>1, <2>3 DEF S!Terminates
      <3>2. PICK v : v = f[N[s]]
        OBVIOUS
      <3>3. v \in V
        BY <1>2, <3>1, <3>2 DEF S!Unfolds
      <3>4. C[<<s, v>>] = After(v, Last(s))
        BY <3>3
      <3> QED
        BY <2>1, <2>3, <3>1, <3>2, <3>4
    <2> QED
      BY <2>2, <2>3
  <1>4. f \in [A -> V]
    BY <1>2 DEF S!Unfolds
  <1>5. f = [s \in A |-> IF s = <<>> THEN [c \in Channels |-> End(c)]
                         ELSE [f[Front(s)] EXCEPT ![Last(s).channel] = Arrive(@, Last(s).data)]]
    BY <1>3, <1>4 DEF Ends, After
  <1>6. Arrived = [s \in A |->
                    IF s = <<>> THEN [c \in Channels |-> End(c)]
                    ELSE [Arrived[Front(s)] EXCEPT ![Last(s).channel] = Arrive(@, Last(s).data)]]
    BY <1>5 DEF Arrived
  <1>7. ASSUME NEW s \in A
        PROVE  Arrived[s] = IF s = <<>> THEN Ends ELSE After(Arrived[Front(s)], Last(s))
    BY <1>6 DEF Ends, After
  <1>8. \A n \in Nat : \A s \in A : Len(s) = n => Arrived[s] \in V
    <2> DEFINE T == {n \in Nat : \A s \in A : Len(s) = n => Arrived[s] \in V}
    <2>1. 0 \in T
      <3> SUFFICES ASSUME NEW s \in A, Len(s) = 0 PROVE Arrived[s] \in V
        OBVIOUS
      <3>1. s = <<>>
        OBVIOUS
      <3>2. Arrived[s] = Ends
        BY <1>7, <3>1
      <3> QED
        BY <3>2 DEF EndsTyped, Ends
    <2>2. ASSUME NEW n \in Nat, n \in T PROVE n + 1 \in T
      <3> SUFFICES ASSUME NEW s \in A, Len(s) = n + 1 PROVE Arrived[s] \in V
        OBVIOUS
      <3>1. s # <<>>
        OBVIOUS
      <3>2. Front(s) \in A /\ Last(s) \in Sender!QueuedPacket /\ Len(Front(s)) = n
        BY <3>1, FrontIs
      <3>3. PICK v : v = Arrived[Front(s)]
        OBVIOUS
      <3>4. v \in V
        BY <2>2, <3>2, <3>3
      <3>5. Last(s).channel \in Channels /\ Last(s).data \in Parts
        BY <3>2 DEF Sender!QueuedPacket
      <3>6. Arrive(v[Last(s).channel], Last(s).data) \in EndType
        BY <3>4, <3>5, ArriveTyped
      <3>7. Arrived[s] = After(v, Last(s))
        BY <1>7, <3>1, <3>3
      <3> QED
        BY <3>4, <3>6, <3>7 DEF After
    <2> HIDE DEF T
    <2>3. \A n \in Nat : n \in T
      BY <2>1, <2>2, SenderAssumption, S!Induction
    <2> QED
      BY <2>3 DEF T
  <1>9. Len(sent) \in Nat
    OBVIOUS
  <1> QED
    BY <1>7, <1>8, <1>9

\* What the ends are once the parts in s have come to them.
Comes(s, ends) ==
  \A c \in Channels :
    /\ EndFollows(log[c], ends[c])
    /\ log[c] # <<>> => Came(log[c], ends[c].entry) = CameTo(c) \cup Numbered(s, c)
    /\ InFull(log[c], End(c)) => InFull(log[c], ends[c])

Ordered(s) == Apart(s) /\ \A p \in S!Members(s) : OnItsWay(p)

\* The packets before the last one.
LEMMA FrontOrdered ==
  ASSUME NEW s \in Seq(S!QueuedPacket), s # <<>>, Ordered(s)
  PROVE  /\ Ordered(Front(s)) /\ Last(s) \notin S!Members(Front(s))
         /\ S!Members(s) = S!Members(Front(s)) \cup {Last(s)}
  <1>1. PICK front, p, n : front = Front(s) /\ p = Last(s) /\ n = Len(s)
    OBVIOUS
  <1>2. /\ front \in Seq(S!QueuedPacket) /\ p \in S!QueuedPacket /\ n \in Nat \ {0}
        /\ s[n] = p /\ DOMAIN s = 1 .. n /\ DOMAIN front = 1 .. n - 1
        /\ \A k \in 1 .. n - 1 : front[k] = s[k]
    BY <1>1, FrontIs
  <1>3. S!Members(s) = S!Members(front) \cup {p}
    <2>1. ASSUME NEW k \in DOMAIN s PROVE s[k] \in S!Members(front) \cup {p}
      BY <1>2 DEF S!Members
    <2>2. ASSUME NEW k \in DOMAIN front PROVE front[k] \in S!Members(s)
      BY <1>2 DEF S!Members
    <2>3. p \in S!Members(s)
      BY <1>2 DEF S!Members
    <2>4. S!Members(s) \subseteq S!Members(front) \cup {p}
      BY <2>1 DEF S!Members
    <2>5. S!Members(front) \subseteq S!Members(s)
      BY <2>2 DEF S!Members
    <2> QED
      BY <2>3, <2>4, <2>5
  <1>4. p \notin S!Members(front)
    <2> SUFFICES ASSUME NEW k \in DOMAIN front, front[k] = p PROVE FALSE
      BY DEF S!Members
    <2>1. k \in DOMAIN s /\ n \in DOMAIN s /\ s[k] = s[n] /\ k # n
      BY <1>2
    <2> QED
      BY <2>1 DEF Ordered, Apart, S!Distinct
  <1>5. Ordered(front)
    <2>1. S!Distinct(front)
      <3>1. \A k \in DOMAIN front : k \in DOMAIN s /\ front[k] = s[k]
        BY <1>2
      <3> QED
        BY <3>1 DEF Ordered, Apart, S!Distinct
    <2> QED
      BY <1>3, <2>1 DEF Ordered, Apart
  <1> QED
    BY <1>1, <1>3, <1>4, <1>5

LEMMA OneMoreComes ==
  ASSUME PartsFit, EndsTyped, log \in [Channels -> Seq(Packets)],
         NEW s \in Seq(S!QueuedPacket), s # <<>>, Ordered(s),
         NEW ends \in [Channels -> EndType], Comes(Front(s), ends)
  PROVE  Comes(s, After(ends, Last(s)))
  <1>1. PICK front, p : front = Front(s) /\ p = Last(s)
    OBVIOUS
  <1>2. p \in S!QueuedPacket
    BY <1>1, FrontIs
  <1>3. S!Members(s) = S!Members(front) \cup {p}
    BY <1>1, FrontOrdered
  <1>4. p \notin S!Members(front)
    BY <1>1, FrontOrdered
  <1>5. PICK c, i : c = p.channel /\ i = p.data.number
    OBVIOUS
  <1>6. PICK items, end, new : items = log[c] /\ end = ends[c] /\ new = Arrive(end, p.data)
    OBVIOUS
  <1>7. c \in Channels /\ items \in Seq(Packets) /\ end \in EndType
    BY <1>2, <1>5, <1>6 DEF S!QueuedPacket
  <1>8. /\ items # <<>> /\ i \in Numbers(LastOf(items)) \ CameTo(c)
        /\ p.data = Part(LastOf(items), Len(items), i)
    <2>1. OnItsWay(p)
      BY <1>3 DEF Ordered
    <2> QED
      BY <1>5, <1>6, <2>1 DEF OnItsWay
  <1>9. i \notin Numbered(front, c)
    <2> SUFFICES ASSUME NEW q \in S!Members(front), q.channel = c, q.data.number = i PROVE FALSE
      BY DEF Numbered
    <2> QED
      BY <1>3, <1>4, <1>5 DEF Ordered, Apart
  <1>10. /\ EndFollows(items, end) /\ Came(items, end.entry) = CameTo(c) \cup Numbered(front, c)
         /\ InFull(items, End(c)) => InFull(items, end)
    BY <1>1, <1>6, <1>7, <1>8 DEF Comes
  <1>11. i \notin Came(items, end.entry)
    BY <1>8, <1>9, <1>10
  <1>12. end.packets \in Seq(Packets \cup {Nothing, Torn})
    BY <1>7 DEF EndType
  <1>13. new = Arrive(end, Part(LastOf(items), Len(items), i))
    BY <1>6, <1>8
  <1>14. /\ Came(items, new.entry) = Came(items, end.entry) \cup {i}
         /\ EndFollows(items, new)
         /\ InFull(items, end) => InFull(items, new)
    <2>1. /\ items \in Seq(Packets) /\ items # <<>> /\ i \in Numbers(LastOf(items))
          /\ EndFollows(items, end)
      BY <1>7, <1>8, <1>10
    <2>2. /\ Came(items, new.entry) = With(Came(items, end.entry), i)
          /\ EndFollows(items, new)
          /\ InFull(items, end) => InFull(items, new)
      BY ONLY PartsFit, <1>11, <1>12, <1>13, <2>1, PartComes
    <2> QED
      BY <2>2 DEF With
  <1>15. \A d : Numbered(s, d) = Numbered(front, d) \cup IF d = c THEN {i} ELSE {}
    BY <1>3, <1>5 DEF Numbered
  <1>16. PICK after : after = After(ends, p)
    OBVIOUS
  <1>17. \A d \in Channels : after[d] = IF d = c THEN new ELSE ends[d]
    BY <1>5, <1>6, <1>16 DEF After
  <1>18. ASSUME NEW d \in Channels
         PROVE  /\ EndFollows(log[d], after[d])
                /\ log[d] # <<>> => Came(log[d], after[d].entry) = CameTo(d) \cup Numbered(s, d)
                /\ InFull(log[d], End(d)) => InFull(log[d], after[d])
    <2>1. CASE d = c
      <3>1. Numbered(s, c) = Numbered(front, c) \cup {i} /\ after[d] = new
        BY <1>15, <1>17, <2>1
      <3> QED
        BY <1>6, <1>10, <1>14, <2>1, <3>1
    <2>2. CASE d # c
      <3>1. Numbered(s, d) = Numbered(front, d) /\ after[d] = ends[d]
        BY <1>15, <1>17, <2>2
      <3> QED
        BY <1>1, <3>1 DEF Comes
    <2> QED
      BY <2>1, <2>2
  <1> QED
    BY <1>1, <1>16, <1>18 DEF Comes

\* The parts of a batch come one by one.
LEMMA BatchComes ==
  ASSUME PartsFit, EndsTyped, log \in [Channels -> Seq(Packets)],
         \A c \in Channels : EndFollows(log[c], End(c)),
         NEW sent \in Seq(S!QueuedPacket), Ordered(sent)
  PROVE  Comes(sent, Arrived[sent])
  <1> DEFINE T == {n \in Nat : \A s \in Seq(S!QueuedPacket) :
                     Len(s) = n /\ Ordered(s) => Comes(s, Arrived[s])}
  <1>1. Seq(S!QueuedPacket) = Seq(Sender!QueuedPacket)
    BY DEF S!QueuedPacket, Sender!QueuedPacket
  <1>2. 0 \in T
    <2> SUFFICES ASSUME NEW s \in Seq(S!QueuedPacket), Len(s) = 0 PROVE Comes(s, Arrived[s])
      OBVIOUS
    <2>1. s = <<>> /\ DOMAIN s = {}
      OBVIOUS
    <2>2. Arrived[s] = Ends
      BY <1>1, <2>1, ArrivedIs
    <2>3. S!Members(s) = {}
      BY <2>1 DEF S!Members
    <2>4. \A c : Numbered(s, c) = {}
      BY <2>3 DEF Numbered
    <2>5. \A c \in Channels : Ends[c] = End(c) /\ End(c).entry = entries[c]
      BY DEF Ends, End
    <2> QED
      BY <2>2, <2>4, <2>5 DEF Comes, CameTo
  <1>3. ASSUME NEW n \in Nat, n \in T PROVE n + 1 \in T
    <2> SUFFICES ASSUME NEW s \in Seq(S!QueuedPacket), Len(s) = n + 1, Ordered(s)
                 PROVE  Comes(s, Arrived[s])
      OBVIOUS
    <2>1. s # <<>>
      OBVIOUS
    <2>2. Front(s) \in Seq(S!QueuedPacket) /\ Len(Front(s)) = n
      <3>1. Front(s) \in Seq(S!QueuedPacket) /\ Len(Front(s)) = Len(s) - 1
        BY <2>1, FrontIs
      <3> QED
        BY <3>1
    <2>3. PICK ends : ends = Arrived[Front(s)]
      OBVIOUS
    <2>4. ends \in [Channels -> EndType]
      BY <1>1, <2>2, <2>3, ArrivedIs
    <2>5. Arrived[s] = After(ends, Last(s))
      BY <1>1, <2>1, <2>3, ArrivedIs
    <2>6. Ordered(Front(s))
      BY <2>1, FrontOrdered
    <2>7. Comes(Front(s), ends)
      BY <1>3, <2>2, <2>3, <2>6
    <2> QED
      BY <2>1, <2>4, <2>5, <2>7, OneMoreComes
  <1>4. \A n \in Nat : n \in T
    <2> HIDE DEF T
    <2> QED
      BY <1>2, <1>3, SenderAssumption, S!Induction
  <1>5. Len(sent) \in Nat
    OBVIOUS
  <1> QED
    BY <1>4, <1>5

----------------------------------------------------------------------------
(* The steps.                                                              *)

LEMMA DeliverIs ==
  ASSUME EndsTyped, NEW sent \in Seq(Sender!QueuedPacket), Deliver(sent)
  PROVE  \A c \in Channels : End(c)' = Arrived[sent][c] /\ Arrived[sent][c] \in EndType
  <1> SUFFICES ASSUME NEW c \in Channels
               PROVE  End(c)' = Arrived[sent][c] /\ Arrived[sent][c] \in EndType
    OBVIOUS
  <1>1. PICK ends : ends = Arrived[sent]
    OBVIOUS
  <1>2. ends \in [Channels -> EndType]
    BY <1>1, ArrivedIs
  <1>3. End(c)' = [entry |-> ends[c].entry, packets |-> ends[c].packets]
    BY <1>1 DEF Deliver, End
  <1>4. [entry |-> ends[c].entry, packets |-> ends[c].packets] = ends[c]
    BY <1>2 DEF EndType
  <1> QED
    BY <1>1, <1>2, <1>3, <1>4

LEMMA QuietStep ==
  ASSUME PathInv, Wait \/ Wake \/ Tick \/ UNCHANGED vars
  PROVE  PathInv'
  <1>1. S!SenderInv'
    <2>1. Sender!Wait \/ Sender!Wake \/ Sender!Tick \/ UNCHANGED senderVars
      BY DEF Wait, Wake, Tick, vars
    <2> QED
      BY <2>1, SameQuiet, SenderSteps DEF PathInv
  <1>2. /\ log' = log /\ sending' = sending /\ entries' = entries /\ received' = received
        /\ queue' = queue /\ refused' = refused
    BY DEF Wait, Wake, Tick, vars, pathVars, senderVars, Sender!Wait, Sender!Wake, Sender!Tick
  <1>3. PathTyped' /\ SendingFits'
    BY <1>2 DEF PathInv, PathTyped, SendingFits, End
  <1>4. WaitingFits'
    BY <1>2 DEF PathInv, WaitingFits, Apart, OnItsWay, CameTo, Unsent, Sending
  <1>5. EndsFollow'
    BY <1>2 DEF PathInv, EndsFollow, End, CameTo, Unsent, Sending
  <1>6. Lossless'
    BY <1>2 DEF PathInv, Lossless, End, CameTo, Unsent, Sending, Numbered
  <1> QED
    BY <1>1, <1>3, <1>4, <1>5, <1>6 DEF PathInv

LEMMA PathInit ==
  ASSUME Init
  PROVE  PathInv
  <1>1. S!SenderInv
    BY SenderStarts DEF Init
  <1>2. /\ queue = <<>> /\ sending = NotSending /\ S!Members(queue) = {}
        /\ \A c \in Channels : log[c] = <<>> /\ End(c) = [entry |-> NewEntry, packets |-> <<>>]
    BY DEF Init, Sender!Init, S!Members, End
  <1>3. NewEntry \in EntryType
    BY DEF NewEntry, EntryType, NoPart
  <1>4. <<>> \in Seq(Packets) /\ <<>> \in Seq(Packets \cup {Nothing, Torn}) /\ Len(<<>>) <= MaxPackets
    BY PaceAssumption
  <1>5. PathTyped
    <2>1. log \in [Channels -> Seq(Packets)]
      BY <1>4 DEF Init
    <2>2. [entry |-> NewEntry, packets |-> <<>>] \in EndType
      BY <1>3, <1>4 DEF EndType
    <2> QED
      BY <1>2, <1>4, <2>1, <2>2 DEF PathTyped
  <1>6. SendingFits /\ WaitingFits
    BY <1>2 DEF SendingFits, WaitingFits, Apart, S!Distinct
  <1>7. EntryFollows(<<>>, NewEntry)
    BY DEF EntryFollows, NewEntry
  <1>8. PacketsFollow(<<>>, [entry |-> NewEntry, packets |-> <<>>])
    <2>1. DOMAIN <<>> = {} /\ <<>> \in [DOMAIN <<>> -> DOMAIN <<>>]
      OBVIOUS
    <2> QED
      BY <2>1 DEF PacketsFollow, Picks
  <1>9. EndsFollow
    BY <1>2, <1>7, <1>8 DEF EndsFollow, EndFollows
  <1>10. Lossless
    BY <1>2 DEF Lossless, InFull
  <1> QED
    BY <1>1, <1>5, <1>6, <1>9, <1>10 DEF PathInv

LEMMA ServeStep ==
  ASSUME PartsFit, PathInv, Serve
  PROVE  PathInv'
  <1>1. S!Serve /\ S!SenderInv' /\ S!SenderInv
    BY SameServe, SenderSteps DEF Serve, PathInv
  <1>2. PICK b : b = S!Pull(queue, S!MSTime)
    OBVIOUS
  <1>3. /\ queue \in Seq(S!QueuedPacket) /\ out \in Seq(S!QueuedPacket) /\ S!MSTime \in Nat
    BY <1>1, SenderAssumption, S!ClockTyped DEF S!SenderInv, S!TypeOK
  <1>4. S!Keeps(queue, b)
    BY <1>2, <1>3, SenderAssumption, S!PullKeeps
  <1>5. PICK sent, left : sent = b.sent /\ left = b.left
    OBVIOUS
  <1>6. /\ sent \in Seq(S!QueuedPacket) /\ left \in Seq(S!QueuedPacket)
        /\ Len(sent) + Len(left) = Len(queue)
        /\ S!Members(sent) \cup S!Members(left) = S!Members(queue)
    BY <1>4, <1>5 DEF S!Keeps, S!Batch
  <1>7. out' = out \o sent /\ queue' = left /\ refused' = refused
    BY <1>1, <1>2, <1>5 DEF S!Serve
  <1>8. log' = log /\ sending' = sending
    BY DEF Serve
  <1>9. SubSeq(out', Len(out) + 1, Len(out')) = sent
    BY <1>3, <1>6, <1>7
  <1>10. Deliver(sent)
    BY <1>9 DEF Serve
  <1>11. S!Distinct(sent) /\ S!Distinct(left) /\ S!Members(sent) \cap S!Members(left) = {}
    <2>1. S!Distinct(queue)
      BY DEF PathInv, WaitingFits, Apart
    <2> QED
      BY <1>3, <1>6, <2>1, SenderAssumption, S!DistinctCut
  <1>12. Ordered(sent) /\ Apart(left)
    BY <1>6, <1>11 DEF PathInv, WaitingFits, Ordered, Apart
  <1>13. PICK ends : ends = Arrived[sent]
    OBVIOUS
  <1>14. EndsTyped /\ log \in [Channels -> Seq(Packets)]
    BY DEF PathInv, PathTyped, EndsTyped
  <1>15. Comes(sent, ends)
    BY <1>6, <1>12, <1>13, <1>14, BatchComes DEF PathInv, EndsFollow
  <1>16. \A c \in Channels : End(c)' = ends[c] /\ ends[c] \in EndType
    <2>1. sent \in Seq(Sender!QueuedPacket)
      BY <1>6 DEF S!QueuedPacket, Sender!QueuedPacket
    <2> QED
      BY <1>10, <1>13, <1>14, <2>1, DeliverIs
  <1>17. ASSUME NEW c \in Channels, log[c] # <<>>
         PROVE  CameTo(c)' = CameTo(c) \cup Numbered(sent, c)
    <2>1. entries'[c] = ends[c].entry
      <3>1. ends[c] = [entry |-> entries'[c], packets |-> received'[c]]
        BY <1>16 DEF End
      <3> QED
        BY <3>1
    <2> QED
      BY <1>8, <1>15, <1>17, <2>1 DEF Comes, CameTo
  <1>18. \A c : Numbered(queue, c) = Numbered(sent, c) \cup Numbered(left, c)
    BY <1>6 DEF Numbered
  <1>19. \A c : Unsent(c)' = Unsent(c)
    BY <1>8 DEF Unsent, Sending
  <1>20. PathTyped' /\ SendingFits'
    BY <1>8, <1>16 DEF PathInv, PathTyped, SendingFits
  <1>21. ASSUME NEW p \in S!Members(left)
         PROVE  OnItsWay(p)' /\ p.data.number \notin Unsent(p.channel)'
    <2>1. p \in S!Members(queue) /\ p \notin S!Members(sent)
      BY <1>6, <1>11
    <2>2. p.channel \in Channels
      <3>1. PICK k \in DOMAIN left : p = left[k]
        BY DEF S!Members
      <3>2. left[k] \in S!QueuedPacket
        BY <1>6
      <3> QED
        BY <3>1, <3>2 DEF S!QueuedPacket
    <2>3. OnItsWay(p) /\ p.data.number \notin Unsent(p.channel)
      BY <2>1 DEF PathInv, WaitingFits
    <2>4. p.data.number \notin Numbered(sent, p.channel)
      <3> SUFFICES ASSUME NEW q \in S!Members(sent), q.channel = p.channel,
                          q.data.number = p.data.number
                   PROVE  FALSE
        BY DEF Numbered
      <3>1. q \in S!Members(queue)
        BY <1>6
      <3>2. q = p
        BY <2>1, <3>1 DEF PathInv, WaitingFits, Apart
      <3> QED
        BY <2>1, <3>2
    <2>5. CameTo(p.channel)' = CameTo(p.channel) \cup Numbered(sent, p.channel)
      BY <1>17, <2>2, <2>3 DEF OnItsWay
    <2> QED
      BY <1>8, <1>19, <2>3, <2>4, <2>5 DEF OnItsWay
  <1>22. WaitingFits'
    BY <1>7, <1>12, <1>21 DEF WaitingFits
  <1>23. EndsFollow'
    <2> SUFFICES ASSUME NEW c \in Channels
                 PROVE  /\ EndFollows(log[c], End(c))'
                        /\ log'[c] # <<>> => CameTo(c)' \cap Unsent(c)' = {}
      BY DEF EndsFollow
    <2>1. EndFollows(log'[c], End(c)')
      BY <1>8, <1>15, <1>16 DEF Comes
    <2>2. ASSUME log[c] # <<>> PROVE CameTo(c)' \cap Unsent(c)' = {}
      <3>1. CameTo(c) \cap Unsent(c) = {}
        BY <2>2 DEF PathInv, EndsFollow
      <3>2. Numbered(sent, c) \cap Unsent(c) = {}
        BY <1>6 DEF PathInv, WaitingFits, Numbered
      <3> QED
        BY <1>17, <1>19, <2>2, <3>1, <3>2
    <2> QED
      BY <1>8, <2>1, <2>2
  <1>24. Lossless'
    <2> SUFFICES ASSUME refused = {}, NEW c \in Channels
                 PROVE  /\ InFull(log[c], End(c))'
                        /\ log[c] # <<>> =>
                             Numbers(LastOf(log[c])) \subseteq
                               CameTo(c)' \cup Numbered(left, c) \cup Unsent(c)
      BY <1>7, <1>8, <1>19 DEF Lossless
    <2>1. /\ InFull(log[c], End(c))
          /\ log[c] # <<>> =>
               Numbers(LastOf(log[c])) \subseteq CameTo(c) \cup Numbered(queue, c) \cup Unsent(c)
      BY DEF PathInv, Lossless
    <2>2. InFull(log'[c], End(c)')
      BY <1>8, <1>15, <1>16, <2>1 DEF Comes
    <2> QED
      BY <1>17, <1>18, <2>1, <2>2
  <1> QED
    BY <1>1, <1>20, <1>22, <1>23, <1>24 DEF PathInv

LEMMA QueueStep ==
  ASSUME PartsFit, PathInv, QueuePart
  PROVE  PathInv'
  <1>1. PICK c, items, k, n, part :
          /\ c = sending.channel /\ items = log[c] /\ k = sending.next /\ n = Len(items)
          /\ part = Part(LastOf(items), n, k)
    OBVIOUS
  <1>2. /\ c \in Channels /\ items # <<>> /\ items \in Seq(Packets)
        /\ k \in 1 .. PartCount(LastOf(items)) - 1 /\ n <= MaxPackets /\ Sending(c)
    BY <1>1 DEF QueuePart, PathInv, SendingFits, PathTyped, Sending
  <1>3. LastOf(items) \in Packets /\ n \in Nat \ {0} /\ PartCount(LastOf(items)) \in Nat \ {0}
    BY <1>1, <1>2, LastIs
  <1>4. part \in Parts
    <2>1. PICK count, all : count = PartCount(LastOf(items)) /\ all = MAX_SPLITPACKET_SPLITS
      OBVIOUS
    <2>2. /\ count \in Nat \ {0} /\ all \in Nat /\ count <= all /\ k \in 1 .. count - 1
          /\ MaxPackets \in Nat
      BY <1>2, <1>3, <2>1, PacketsAssumption, PaceAssumption DEF PartsFit
    <2>3. k \in 0 .. all - 1 /\ n \in 1 .. MaxPackets
      BY <1>2, <1>3, <2>2
    <2> QED
      BY <1>1, <1>3, <2>1, <2>3 DEF Parts, Place
  <1>5. PICK delay : delay = k * Pace
    OBVIOUS
  <1>6. /\ Sender!Enqueue(c, part, delay)
        /\ sending' = IF k + 1 = PartCount(LastOf(items)) THEN NotSending
                                                         ELSE [channel |-> c, next |-> k + 1]
        /\ log' = log /\ entries' = entries /\ received' = received
    <2>1. LastOf(items) = log[c][n] /\ part.count = PartCount(LastOf(items))
      BY <1>1 DEF LastOf, Part
    <2> QED
      BY <1>1, <1>5, <2>1 DEF QueuePart
  <1>7. S!Enqueue(c, part, delay)
    BY <1>6, SameEnqueue
  <1>8. delay \in 0 .. MaxClock - 0
    <2>1. k \in Nat /\ Pace \in Nat /\ MaxClock \in Nat
      BY <1>2, <1>3, PaceAssumption
    <2>2. delay \in Nat
      BY <1>5, <2>1, NatTimes
    <2>3. clock \in Nat /\ clock + delay <= MaxClock
      BY <1>7, SenderAssumption, S!ClockTyped DEF S!Enqueue, PathInv, S!SenderInv
    <2> QED
      BY <2>1, <2>2, <2>3
  <1>9. S!SenderInv' /\ S!SenderInv
    BY <1>2, <1>4, <1>7, <1>8, SenderAssumption, S!EnqueueInv DEF PathInv
  <1>10. PICK p : p = S!Packet(c, part, delay)
    OBVIOUS
  <1>11. p \in S!QueuedPacket
    <2>1. clock \in 0 .. MaxClock
      BY <1>9 DEF S!SenderInv, S!TypeOK
    <2> QED
      BY <1>2, <1>4, <1>8, <1>10, <2>1, SenderAssumption, S!PacketTyped
  <1>12. p.channel = c /\ p.data = part /\ p.data.number = k
    BY <1>1, <1>10 DEF S!Packet, Part
  <1>13. PathTyped'
    BY <1>6 DEF PathInv, PathTyped, End
  <1>14. SendingFits'
    <2>1. PICK count : count = PartCount(LastOf(items))
      OBVIOUS
    <2>2. k + 1 # count => k + 1 \in 1 .. count - 1
      BY <1>2, <1>3, <2>1
    <2> QED
      BY <1>1, <1>2, <1>6, <2>1, <2>2 DEF SendingFits, NotSending
  <1>15. /\ k \notin Unsent(c)'
         /\ \A d : Unsent(d)' \subseteq Unsent(d)
         /\ \A d : Unsent(d) \subseteq Unsent(d)' \cup (IF d = c THEN {k} ELSE {})
    <2>1. PICK count : count = PartCount(LastOf(items))
      OBVIOUS
    <2>2. Unsent(c) = k .. count - 1
      BY <1>1, <1>2, <2>1 DEF Unsent
    <2>3. k \in Nat /\ count \in Nat /\ k < count
      BY <1>2, <1>3, <2>1
    <2>4. Unsent(c)' = IF k + 1 = count THEN {} ELSE k + 1 .. count - 1
      <3>1. CASE k + 1 = count
        BY <1>6, <2>1, <3>1 DEF Unsent, Sending
      <3>2. CASE k + 1 # count
        <4>1. sending' = [channel |-> c, next |-> k + 1]
          BY <1>6, <2>1, <3>2
        <4>2. sending'.channel = c /\ sending'.next = k + 1 /\ k + 1 # 0
          BY <2>3, <4>1
        <4>3. sending' # NotSending
          BY <4>2 DEF NotSending
        <4> QED
          BY <1>1, <1>6, <2>1, <3>2, <4>2, <4>3 DEF Unsent, Sending
      <3> QED
        BY <3>1, <3>2
    <2>5. k \notin Unsent(c)' /\ Unsent(c)' \subseteq Unsent(c) /\ Unsent(c) \subseteq Unsent(c)' \cup {k}
      BY <2>2, <2>3, <2>4
    <2>6. \A d : d # c => Unsent(d) = {} /\ Unsent(d)' = {}
      BY <1>1, <1>6 DEF Unsent, Sending, NotSending
    <2> QED
      BY <2>5, <2>6
  <1>16. k \in Unsent(c) /\ k \in Numbers(LastOf(items)) \ CameTo(c)
    <2>1. PICK count : count = PartCount(LastOf(items))
      OBVIOUS
    <2>2. k \in k .. count - 1 /\ k \in 0 .. count - 1
      BY <1>2, <1>3, <2>1
    <2>3. k \in Unsent(c) /\ k \in Numbers(LastOf(items))
      BY <1>1, <1>2, <2>1, <2>2 DEF Unsent, Numbers
    <2>4. CameTo(c) \cap Unsent(c) = {}
      BY <1>1, <1>2 DEF PathInv, EndsFollow
    <2> QED
      BY <2>3, <2>4
  <1>17. ASSUME NEW q \in S!Members(queue), q.channel = c PROVE q.data.number # k
    BY <1>16, <1>17 DEF PathInv, WaitingFits
  <1>18. \A d \in Channels : CameTo(d)' = CameTo(d) /\ End(d)' = End(d)
    BY <1>6 DEF CameTo, End
  <1>19. EndsFollow'
    BY <1>6, <1>15, <1>18 DEF PathInv, EndsFollow
  <1>20. CASE Len(queue) < MaxQueuedPackets
    <2>1. queue' = S!Queue!Insert(queue, p) /\ refused' = refused
      BY <1>7, <1>10, <1>20 DEF S!Enqueue, S!QueuePacket
    <2>2. queue \in Seq(S!QueuedPacket) /\ S!Heap(queue) /\ queue' \in Seq(S!QueuedPacket)
      BY <1>9 DEF S!SenderInv, S!TypeOK
    <2>3. Len(queue') = Len(queue) + 1 /\ S!Members(queue') = S!Members(queue) \cup {p}
      BY <1>11, <2>1, <2>2, SenderAssumption, S!InsertIs
    <2>4. Apart(queue')
      <3>1. Apart(queue)
        BY DEF PathInv, WaitingFits
      <3>2. p \notin S!Members(queue)
        BY <1>12, <1>17
      <3>3. S!Distinct(queue')
        BY <1>11, <2>2, <2>3, <3>1, <3>2, SenderAssumption, S!DistinctAdded DEF Apart
      <3> QED
        BY <1>12, <1>17, <2>3, <3>1, <3>3 DEF Apart
    <2>5. ASSUME NEW q \in S!Members(queue')
          PROVE  OnItsWay(q)' /\ q.data.number \notin Unsent(q.channel)'
      <3>1. OnItsWay(q) /\ q.data.number \notin Unsent(q.channel)'
        <4>1. CASE q = p
          BY <1>1, <1>2, <1>12, <1>15, <1>16, <4>1 DEF OnItsWay
        <4>2. CASE q # p
          BY <1>15, <2>3, <4>2 DEF PathInv, WaitingFits
        <4> QED
          BY <4>1, <4>2
      <3> QED
        BY <1>6, <3>1 DEF OnItsWay, CameTo
    <2>6. WaitingFits'
      BY <2>4, <2>5 DEF WaitingFits
    <2>7. \A d : Numbered(queue', d) = Numbered(queue, d) \cup IF d = c THEN {k} ELSE {}
      BY <1>12, <2>3 DEF Numbered
    <2>8. Lossless'
      <3> SUFFICES ASSUME refused = {}, NEW d \in Channels
                   PROVE  /\ InFull(log[d], End(d))'
                          /\ log[d] # <<>> =>
                               Numbers(LastOf(log[d])) \subseteq
                                 CameTo(d)' \cup Numbered(queue', d) \cup Unsent(d)'
        BY <1>6, <2>1 DEF Lossless
      <3>1. /\ InFull(log[d], End(d))
            /\ log[d] # <<>> =>
                 Numbers(LastOf(log[d])) \subseteq CameTo(d) \cup Numbered(queue, d) \cup Unsent(d)
        BY DEF PathInv, Lossless
      <3> QED
        BY <1>6, <1>15, <1>18, <2>7, <3>1
    <2> QED
      BY <1>9, <1>13, <1>14, <1>19, <2>6, <2>8 DEF PathInv
  <1>21. CASE ~(Len(queue) < MaxQueuedPackets)
    <2>1. queue' = queue /\ refused' = refused \cup {part}
      BY <1>7, <1>21 DEF S!Enqueue, S!QueuePacket
    <2>2. WaitingFits'
      BY <1>6, <1>15, <2>1 DEF PathInv, WaitingFits, Apart, OnItsWay, CameTo
    <2>3. Lossless'
      BY <2>1 DEF Lossless
    <2> QED
      BY <1>9, <1>13, <1>14, <1>19, <2>2, <2>3 DEF PathInv
  <1> QED
    BY <1>20, <1>21

LEMMA SendStep ==
  ASSUME PartsFit, PathInv, NEW c \in Channels, NEW pkt \in Packets, NET_SendLong(c, pkt)
  PROVE  PathInv'
  <1>1. /\ queue' = queue /\ refused' = refused /\ sending = NotSending
        /\ log' = [log EXCEPT ![c] = Append(@, pkt)] /\ log \in [Channels -> Seq(Packets)]
    BY DEF NET_SendLong, senderVars, PathInv, PathTyped
  <1>2. S!SenderInv' /\ S!SenderInv
    BY SenderSteps DEF NET_SendLong, PathInv
  <1>3. EndsTyped
    BY DEF PathInv, PathTyped, EndsTyped
  <1>4. PICK items, new, n, end : items = log[c] /\ new = Append(items, pkt) /\ n = Len(new) /\ end = End(c)
    OBVIOUS
  <1>5. items \in Seq(Packets) /\ EndFollows(items, end) /\ end \in EndType
    BY <1>1, <1>3, <1>4 DEF PathInv, EndsFollow, EndsTyped
  <1>6. /\ new \in Seq(Packets) /\ new # <<>> /\ LastOf(new) = pkt
        /\ Came(new, end.entry) = {}
        /\ EndFollows(new, end)
        /\ InFull(items, end) /\ (items # <<>> => Whole(items, end.entry)) => InFull(new, end)
    BY <1>4, <1>5, PacketStarts
  <1>7. n = Len(items) + 1 /\ n \in Nat \ {0} /\ n <= MaxPackets
    <2>1. Len(items) + 1 <= MaxPackets /\ Len(items) \in Nat
      BY <1>4, <1>5 DEF NET_SendLong
    <2> QED
      BY <1>4, <1>5, <2>1
  <1>8. PartCount(pkt) \in Nat \ {0} /\ 0 \in Numbers(LastOf(new)) /\ 0 \in Numbers(pkt)
    BY <1>6, LastIs
  <1>9. PICK part, p : part = Part(pkt, n, 0) /\ p = S!Packet(c, part, 0)
    OBVIOUS
  <1>10. part \in Parts
    <2>1. 0 \in Place /\ n \in 1 .. MaxPackets
      BY <1>7, PacketsAssumption, PaceAssumption DEF Place
    <2> QED
      BY <1>9, <2>1 DEF Parts
  <1>11. p \in S!QueuedPacket /\ p \in Sender!QueuedPacket
    <2>1. clock \in 0 .. MaxClock
      BY <1>2 DEF S!SenderInv, S!TypeOK
    <2>2. 0 \in 0 .. MaxClock - 0
      BY PaceAssumption
    <2>3. p \in S!QueuedPacket
      BY <1>9, <1>10, <2>1, <2>2, SenderAssumption, S!PacketTyped
    <2> QED
      BY <2>3 DEF S!QueuedPacket, Sender!QueuedPacket
  <1>12. p.channel = c /\ p.data = part
    BY <1>9 DEF S!Packet
  <1>13. Deliver(<<p>>)
    <2>1. p = Sender!Packet(c, Part(pkt, Len(log[c]) + 1, 0), 0)
      BY <1>4, <1>7, <1>9, SamePacket
    <2> QED
      BY <2>1 DEF NET_SendLong
  <1>14. PICK first : first = Arrive(end, part)
    OBVIOUS
  <1>15. \A d \in Channels : Arrived[<<p>>][d] = IF d = c THEN first ELSE End(d)
    <2>1. /\ <<p>> \in Seq(Sender!QueuedPacket) /\ <<p>> # <<>> /\ Last(<<p>>) = p
          /\ Front(<<p>>) = <<>> /\ <<>> \in Seq(Sender!QueuedPacket)
      BY <1>11 DEF Front, Last
    <2>2. Arrived[<<>>] = Ends
      BY <1>3, <2>1, ArrivedIs
    <2>3. Arrived[<<p>>] = After(Ends, p)
      BY <1>3, <2>1, <2>2, ArrivedIs
    <2>4. \A d \in Channels : Ends[d] = End(d)
      BY DEF Ends
    <2>5. DOMAIN Ends = Channels
      BY DEF Ends
    <2> QED
      BY <1>4, <1>12, <1>14, <2>3, <2>4, <2>5 DEF After
  <1>16. \A d \in Channels : End(d)' = (IF d = c THEN first ELSE End(d)) /\ End(d)' \in EndType
    <2>1. <<p>> \in Seq(Sender!QueuedPacket)
      BY <1>11
    <2> QED
      BY <1>3, <1>13, <1>15, <2>1, DeliverIs
  <1>17. /\ Came(new, first.entry) = {0}
         /\ EndFollows(new, first)
         /\ InFull(new, end) => InFull(new, first)
    <2>1. /\ end.packets \in Seq(Packets \cup {Nothing, Torn})
          /\ 0 \in Numbers(LastOf(new)) /\ 0 \notin Came(new, end.entry)
          /\ new \in Seq(Packets) /\ new # <<>> /\ EndFollows(new, end)
      BY <1>5, <1>6, <1>8 DEF EndType
    <2>2. first = Arrive(end, Part(LastOf(new), Len(new), 0))
      BY <1>4, <1>6, <1>9, <1>14
    <2>3. /\ Came(new, first.entry) = With(Came(new, end.entry), 0)
          /\ EndFollows(new, first)
          /\ InFull(new, end) => InFull(new, first)
      BY ONLY PartsFit, <2>1, <2>2, PartComes
    <2> QED
      BY <1>6, <2>3 DEF With
  <1>18. \A d \in Channels : log'[d] = IF d = c THEN new ELSE log[d]
    BY <1>1, <1>4
  <1>19. \A d : Unsent(d) = {} /\ (d # c => Unsent(d)' = {})
    BY <1>1 DEF Unsent, Sending, NET_SendLong, NotSending
  <1>20. Unsent(c)' = 1 .. PartCount(pkt) - 1
    <2>1. PICK count : count = PartCount(pkt)
      OBVIOUS
    <2>2. count \in Nat \ {0}
      BY <1>8, <2>1
    <2>3. CASE count = 1
      <3>1. Unsent(c)' = {}
        BY <2>1, <2>3 DEF NET_SendLong, Unsent, Sending
      <3>2. 1 .. count - 1 = {}
        BY <2>3
      <3> QED
        BY <2>1, <3>1, <3>2
    <2>4. CASE count # 1
      <3>1. sending' = [channel |-> c, next |-> 1]
        BY <2>1, <2>4 DEF NET_SendLong
      <3>2. sending' # NotSending /\ sending'.channel = c /\ sending'.next = 1
        BY <3>1 DEF NotSending
      <3> QED
        BY <1>6, <1>18, <3>2 DEF Unsent, Sending
    <2> QED
      BY <2>3, <2>4
  <1>21. ASSUME NEW d \in Channels
         PROVE  CameTo(d)' = IF d = c THEN {0} ELSE CameTo(d)
    <2>1. CASE d = c
      <3>1. first = [entry |-> entries'[c], packets |-> received'[c]]
        BY <1>16 DEF End
      <3>2. entries'[c] = first.entry
        BY <3>1
      <3> QED
        BY <1>17, <1>18, <2>1, <3>2 DEF CameTo
    <2>2. CASE d # c
      <3>1. [entry |-> entries[d], packets |-> received[d]] = [entry |-> entries'[d], packets |-> received'[d]]
        BY <1>16, <2>2 DEF End
      <3>2. entries'[d] = entries[d]
        BY <3>1
      <3> QED
        BY <1>18, <2>2, <3>2 DEF CameTo
    <2> QED
      BY <2>1, <2>2
  <1>22. PathTyped'
    <2>1. log' \in [Channels -> Seq(Packets)]
      BY <1>1, <1>4, <1>6
    <2>2. \A d \in Channels : Len(log'[d]) <= MaxPackets
      BY <1>4, <1>7, <1>18 DEF PathInv, PathTyped
    <2> QED
      BY <1>16, <2>1, <2>2 DEF PathTyped
  <1>23. SendingFits'
    <2>1. PICK count : count = PartCount(pkt)
      OBVIOUS
    <2>2. count # 1 => 1 \in 1 .. count - 1
      BY <1>8, <2>1
    <2>3. sending' = IF count = 1 THEN NotSending ELSE [channel |-> c, next |-> 1]
      BY <2>1 DEF NET_SendLong
    <2> QED
      BY <1>6, <1>18, <2>1, <2>2, <2>3 DEF SendingFits
  <1>24. ASSUME NEW q \in S!Members(queue) PROVE q.channel \in Channels \ {c}
    <2>1. PICK k \in DOMAIN queue : q = queue[k]
      BY DEF S!Members
    <2>2. queue[k].channel # c
      BY DEF NET_SendLong, CanPacket, Sender!HasQueuedPackets
    <2>3. queue[k] \in S!QueuedPacket
      BY <1>2 DEF S!SenderInv, S!TypeOK
    <2> QED
      BY <2>1, <2>2, <2>3 DEF S!QueuedPacket
  <1>25. WaitingFits'
    <2>1. ASSUME NEW q \in S!Members(queue)
          PROVE  OnItsWay(q)' /\ q.data.number \notin Unsent(q.channel)'
      <3>1. OnItsWay(q)
        BY DEF PathInv, WaitingFits
      <3>2. q.channel \in Channels /\ q.channel # c
        BY <1>24
      <3>3. log'[q.channel] = log[q.channel] /\ CameTo(q.channel)' = CameTo(q.channel)
        BY <1>18, <1>21, <3>2
      <3> QED
        BY <1>19, <3>1, <3>2, <3>3 DEF OnItsWay
    <2> QED
      BY <1>1, <2>1 DEF PathInv, WaitingFits, Apart
  <1>26. EndsFollow'
    <2> SUFFICES ASSUME NEW d \in Channels
                 PROVE  /\ EndFollows(log[d], End(d))'
                        /\ log'[d] # <<>> => CameTo(d)' \cap Unsent(d)' = {}
      BY DEF EndsFollow
    <2>1. EndFollows(log'[d], End(d)')
      BY <1>16, <1>17, <1>18 DEF PathInv, EndsFollow
    <2>2. CameTo(d)' \cap Unsent(d)' = {}
      <3>1. CASE d = c
        <4>1. CameTo(d)' = {0} /\ Unsent(d)' = 1 .. PartCount(pkt) - 1
          BY <1>20, <1>21, <3>1
        <4>2. 0 \notin 1 .. PartCount(pkt) - 1
          BY <1>8
        <4> QED
          BY <4>1, <4>2
      <3>2. CASE d # c
        BY <1>19, <3>2
      <3> QED
        BY <3>1, <3>2
    <2> QED
      BY <2>1, <2>2
  <1>27. Lossless'
    <2> SUFFICES ASSUME refused = {}, NEW d \in Channels
                 PROVE  /\ InFull(log[d], End(d))'
                        /\ log'[d] # <<>> =>
                             Numbers(LastOf(log'[d])) \subseteq
                               CameTo(d)' \cup Numbered(queue, d) \cup Unsent(d)'
      BY <1>1 DEF Lossless
    <2>1. /\ InFull(log[d], End(d))
          /\ log[d] # <<>> =>
               Numbers(LastOf(log[d])) \subseteq CameTo(d) \cup Numbered(queue, d) \cup Unsent(d)
      BY DEF PathInv, Lossless
    <2>2. CASE d = c
      <3>1. Numbered(queue, c) = {}
        BY <1>24 DEF Numbered
      <3>2. items # <<>> => Whole(items, end.entry)
        <4>1. items # <<>> => Numbers(LastOf(items)) \subseteq CameTo(c)
          BY <1>4, <1>19, <2>1, <2>2, <3>1
        <4>2. CameTo(c) = Came(items, end.entry)
          BY <1>4 DEF CameTo, End
        <4> QED
          BY <4>1, <4>2 DEF Whole, Came
      <3>3. InFull(new, first)
        BY <1>4, <1>6, <1>17, <2>1, <2>2, <3>2
      <3>4. Numbers(pkt) \subseteq {0} \cup 1 .. PartCount(pkt) - 1
        BY <1>8 DEF Numbers
      <3>5. Numbers(LastOf(log'[d])) \subseteq CameTo(d)' \cup Unsent(d)'
        BY <1>6, <1>18, <1>20, <1>21, <2>2, <3>4
      <3>6. InFull(log'[d], End(d)')
        BY <1>16, <1>18, <2>2, <3>3
      <3> QED
        BY <3>5, <3>6
    <2>3. CASE d # c
      <3>1. InFull(log'[d], End(d)')
        BY <1>16, <1>18, <2>1, <2>3
      <3> QED
        BY <1>18, <1>19, <1>21, <2>1, <2>3, <3>1
    <2> QED
      BY <2>2, <2>3
  <1> QED
    BY <1>2, <1>22, <1>23, <1>25, <1>26, <1>27 DEF PathInv

----------------------------------------------------------------------------

LEMMA PathInvThm ==
  ASSUME PartsFit
  PROVE  Spec => []PathInv
  <1>1. Init => PathInv
    BY PathInit
  <1>2. PathInv /\ [Next]_vars => PathInv'
    BY QuietStep, ServeStep, QueueStep, SendStep DEF Next
  <1> QED
    BY <1>1, <1>2, PTL DEF Spec

\* Once the parts of a channel have left, all its packets were put together at
\* the other end, in their order, unless the queue of the sender was full: for
\* any packets, channels, pace and limit of the queue (NET_SendLong,
\* CanPacket, the loop of Run and NET_GetLong together, net_ws.cpp:2283-2360,
\* 1149-1271).
THEOREM AllPutTogetherThm ==
  ASSUME PartsFit
  PROVE  Spec => []AllPutTogether
  <1>1. PathInv => AllPutTogether
    <2> SUFFICES ASSUME PathInv, refused = {}, NEW c \in Channels, Idle(c)
                 PROVE  received[c] = log[c]
      BY DEF AllPutTogether
    <2>1. Unsent(c) = {}
      BY DEF Idle, Unsent, Sending
    <2>2. Numbered(queue, c) = {}
      <3> SUFFICES ASSUME NEW q \in S!Members(queue) PROVE q.channel # c
        BY DEF Numbered
      <3> QED
        BY DEF Idle, Sender!HasQueuedPackets, S!Members
    <2>3. /\ InFull(log[c], End(c))
          /\ log[c] # <<>> => Numbers(LastOf(log[c])) \subseteq CameTo(c)
      BY <2>1, <2>2 DEF PathInv, Lossless
    <2>4. log[c] # <<>> => Whole(log[c], End(c).entry)
      BY <2>3 DEF Whole, CameTo, Came, End
    <2> QED
      BY <2>3, <2>4 DEF InFull, End
  <1> QED
    BY <1>1, PathInvThm, PTL

\* What comes out of the other end are packets of the channel in their order,
\* also when parts of some were dropped by a full queue: no packet is put
\* together of the parts of two (NET_GetLong, net_ws.cpp:1149-1271).
THEOREM NoneTornThm ==
  ASSUME PartsFit
  PROVE  Spec => []NoneTorn
  <1>1. PathInv => NoneTorn
    <2> SUFFICES ASSUME PathInv, NEW c \in Channels
                 PROVE  \E place \in [DOMAIN received[c] -> DOMAIN log[c]] :
                          \A i \in DOMAIN received[c] :
                            /\ received[c][i] = log[c][place[i]]
                            /\ i > 1 => place[i - 1] < place[i]
      BY DEF NoneTorn
    <2>1. End(c).packets = received[c]
      BY DEF End
    <2>2. PacketsFollow(log[c], End(c))
      BY DEF PathInv, EndsFollow, EndFollows
    <2> QED
      BY <2>1, <2>2 DEF PacketsFollow, Picks
  <1> QED
    BY <1>1, PathInvThm, PTL

=============================================================================
