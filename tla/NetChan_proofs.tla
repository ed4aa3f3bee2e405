--------------------------- MODULE NetChan_proofs ---------------------------
(***************************************************************************)
(* The two ends of a channel never lose track of a subchannel, whatever    *)
(* the number of subchannels, the items sent, their sizes, the losses,     *)
(* repetitions and reorderings of the network and the Clear()s.            *)
(*                                                                         *)
(* The counters of the blocks agree with the subchannels, and no fragment  *)
(* is under way twice.  The type invariant of NetChan rests on it: what a  *)
(* subchannel carries and a datagram says of it is computed from counters. *)
(*                                                                         *)
(* The messages of one side are handed over in the order they were sent,   *)
(* each once and none left out -- as long as nothing starts the level over *)
(* and no file goes the same way.  README, section 3, says what becomes of *)
(* it if it does: the premises are those without which the code does not   *)
(* do it.                                                                  *)
(***************************************************************************)
EXTENDS NetChanProperties, TLAPS, WellFoundedInduction, FiniteSetTheorems

States == {"FREE", "TOSEND", "WAITING", "DIRTY"}

\* The part of the type invariant that the subchannel protocol rests on.  It
\* says nothing of the blocks and their counters.
ChannelOK(x) ==
    /\ x = [state |-> x.state, sendSeq |-> x.sendSeq, start |-> x.start, num |-> x.num]
    /\ x.state \in States /\ x.sendSeq \in Nat \cup {-1}

PacketOK(p) ==
    /\ p.src \in Side /\ p.seq \in Nat /\ p.ack \in Nat
    /\ p.rel \in [SubChannel -> {0, 1}]
    /\ p.chan \in SubChannel \cup {NoChannel}

WireOK ==
    /\ outSeq \in [Side -> Nat] /\ inSeq \in [Side -> Nat] /\ outAck \in [Side -> Nat]
    /\ outState \in [Side -> [SubChannel -> {0, 1}]]
    /\ inState \in [Side -> [SubChannel -> {0, 1}]]
    /\ DOMAIN sub = Side
    /\ \A s \in Side : /\ sub[s] = [c \in SubChannel |-> sub[s][c]]
                       /\ \A c \in SubChannel : ChannelOK(sub[s][c])
    /\ \A p \in net : PacketOK(p)

IInv == WireOK /\ SubchannelsInv

----------------------------------------------------------------------------
(* One subchannel.                                                         *)

\* Fewer datagrams in flight and a receiver that got further change nothing.
LEMMA AgreesShrinks ==
    ASSUME NEW c, NEW state, NEW seq \in Int, NEW bit, NEW peerBit,
           NEW data, NEW acks, NEW reached \in Int,
           NEW data2 \in SUBSET data, NEW acks2 \in SUBSET acks, NEW reached2 \in Int,
           reached <= reached2,
           Agrees(c, state, seq, bit, peerBit, data, acks, reached)
    PROVE  Agrees(c, state, seq, bit, peerBit, data2, acks2, reached2)
BY DEF Agrees

\* Clear() on the sender's side.
LEMMA AgreesAfterClear ==
    ASSUME NEW c \in SubChannel, NEW state \in States, NEW seq \in Int,
           NEW bit \in {0, 1}, NEW peerBit \in {0, 1},
           NEW data, NEW acks, NEW reached \in Int,
           \A p \in acks : p.rel \in [SubChannel -> {0, 1}],
           Agrees(c, state, seq, bit, peerBit, data, acks, reached)
    PROVE  /\ state = "TOSEND" =>
                Agrees(c, "FREE", -1, 1 - bit, peerBit, data, acks, reached)
           /\ state = "WAITING" =>
                Agrees(c, "DIRTY", seq, bit, peerBit, data, acks, reached)
<1>1. ASSUME NEW p \in acks PROVE p.rel[c] \in {0, 1}
  OBVIOUS
<1>2. QED BY <1>1 DEF Agrees, States

\* What the acknowledgement p makes of a subchannel agrees with the
\* acknowledgements that may still come after it.
AckAgrees(c, state, seq, bit, peerBit, data, later, reached, p) ==
    /\ bit = p.rel[c] /\ state # "DIRTY" => seq <= p.ack
    /\ bit = p.rel[c] /\ state \in {"WAITING", "DIRTY"} =>
         Agrees(c, "FREE", -1, bit, peerBit, data, later, reached)
    /\ bit # p.rel[c] /\ seq <= p.ack /\ state = "WAITING" =>
         Agrees(c, "TOSEND", seq, bit, peerBit, data, later, reached)
    /\ bit # p.rel[c] /\ seq <= p.ack /\ state = "DIRTY" =>
         1 - bit = peerBit /\ Agrees(c, "FREE", -1, peerBit, peerBit, data, later, reached)

LEMMA AgreesAfterAck ==
    ASSUME NEW c \in SubChannel, NEW state \in States, NEW seq \in Nat \cup {-1},
           NEW bit \in {0, 1}, NEW peerBit \in {0, 1},
           NEW data, NEW acks, NEW later \in SUBSET acks, NEW reached \in Int,
           NEW p \in acks,
           \A q \in acks : q.rel \in [SubChannel -> {0, 1}] /\ q.ack \in Nat,
           \A q \in later : p.ack <= q.ack,
           \A q \in data : q.seq \in Nat /\ q.seq > reached,
           p.ack <= reached,
           Agrees(c, state, seq, bit, peerBit, data, acks, reached)
    PROVE  AckAgrees(c, state, seq, bit, peerBit, data, later, reached, p)
<1> USE DEF AckAgrees
<1>1. \A q \in acks : q.rel[c] \in {0, 1}
  OBVIOUS
<1>2. CASE state \in {"FREE", "TOSEND"}
  BY <1>1, <1>2 DEF Agrees
<1>3. CASE state \in {"WAITING", "DIRTY"}
  <2>1. CASE bit = peerBit
    <3>1. seq <= reached /\ \A q \in acks : q.rel[c] = bit <=> q.ack >= seq
      BY <1>3, <2>1 DEF Agrees
    <3>2. data = {}
      BY <1>3, <3>1 DEF Agrees
    <3>3. bit = p.rel[c] => \A q \in later : q.rel[c] = bit
      BY <3>1
    <3>4. QED BY <1>1, <1>3, <2>1, <3>1, <3>2, <3>3 DEF Agrees
  <2>2. CASE bit # peerBit
    <3>1. \A q \in acks : q.rel[c] # bit
      BY <1>3, <2>2 DEF Agrees
    <3>2. seq <= p.ack => data = {}
      BY <1>3 DEF Agrees
    <3>3. QED BY <1>1, <1>3, <2>2, <3>1, <3>2 DEF Agrees
  <2>3. QED BY <2>1, <2>2
<1>4. QED BY <1>2, <1>3 DEF States

\* Free data is loaded: the bit is flipped.
LEMMA AgreesAfterFill ==
    ASSUME NEW c \in SubChannel, NEW seq, NEW bit \in {0, 1}, NEW peerBit \in {0, 1},
           NEW data, NEW acks, NEW reached \in Int,
           \A p \in acks : p.rel \in [SubChannel -> {0, 1}],
           Agrees(c, "FREE", seq, bit, peerBit, data, acks, reached)
    PROVE  Agrees(c, "TOSEND", 0, 1 - bit, peerBit, data, acks, reached)
BY DEF Agrees

\* A datagram p leaves with the fragments of the subchannel.
LEMMA AgreesAfterSend ==
    ASSUME NEW c \in SubChannel, NEW seq, NEW bit, NEW peerBit,
           NEW data, NEW acks, NEW reached \in Int, NEW p,
           Agrees(c, "TOSEND", seq, bit, peerBit, data, acks, reached)
    PROVE  Agrees(c, "WAITING", p.seq, bit, peerBit, data \cup {p}, acks, reached)
BY DEF Agrees

\* The receiver sends a datagram p with its reliable state.
LEMMA AgreesWithNewAck ==
    ASSUME NEW c \in SubChannel, NEW state, NEW seq \in Int, NEW bit, NEW peerBit,
           NEW data, NEW acks, NEW reached \in Int, NEW p,
           p.rel[c] = peerBit, p.ack = reached,
           Agrees(c, state, seq, bit, peerBit, data, acks, reached)
    PROVE  Agrees(c, state, seq, bit, peerBit, data, acks \cup {p}, reached)
BY DEF Agrees

\* The receiver takes the fragments of a datagram p and flips its bit.
LEMMA AgreesAfterTaken ==
    ASSUME NEW c \in SubChannel, NEW state \in States, NEW seq \in Int,
           NEW bit \in {0, 1}, NEW peerBit \in {0, 1},
           NEW data, NEW acks, NEW reached \in Int,
           NEW p \in data, NEW data2 \in SUBSET data,
           p.seq \in Int, p.seq > reached,
           \A q \in acks : /\ q.rel \in [SubChannel -> {0, 1}]
                           /\ q.ack \in Nat /\ q.ack <= reached,
           Agrees(c, state, seq, bit, peerBit, data, acks, reached)
    PROVE  Agrees(c, state, seq, bit, 1 - peerBit, data2, acks, p.seq)
<1>1. state \in {"WAITING", "DIRTY"} /\ seq = p.seq
  BY DEF Agrees, States
<1>2. bit # peerBit
  BY <1>1 DEF Agrees
<1>3. \A q \in acks : q.rel[c] # bit /\ ~(q.ack >= seq)
  BY <1>1, <1>2 DEF Agrees
<1>4. \A q \in data2 : q.seq = seq
  BY <1>1 DEF Agrees
<1>5. bit = 1 - peerBit
  BY <1>2
<1>6. QED BY <1>1, <1>3, <1>4, <1>5 DEF Agrees

----------------------------------------------------------------------------
(* Initial states, and steps that leave the subchannels alone.             *)

LEMMA PeerFacts ==
    \A s \in Side : Peer(s) \in Side /\ Peer(s) # s /\ Peer(Peer(s)) = s
BY DEF Side, Peer

LEMMA WireTyped ==
    ASSUME WireOK
    PROVE  \A s \in Side, c \in SubChannel :
              /\ sub[s][c].state \in States
              /\ sub[s][c].sendSeq \in Nat \cup {-1} /\ sub[s][c].sendSeq \in Int
              /\ outState[s][c] \in {0, 1} /\ inState[s][c] \in {0, 1}
              /\ outSeq[s] \in Nat /\ inSeq[s] \in Nat /\ outAck[s] \in Nat
<1> TAKE s \in Side, c \in SubChannel
<1>1. ChannelOK(sub[s][c])
  BY DEF WireOK
<1>2. sub[s][c].state \in States /\ sub[s][c].sendSeq \in Nat \cup {-1}
  BY <1>1 DEF ChannelOK
<1>3. sub[s][c].sendSeq \in Int
  BY <1>2
<1>4. /\ outState[s][c] \in {0, 1} /\ inState[s][c] \in {0, 1}
      /\ outSeq[s] \in Nat /\ inSeq[s] \in Nat /\ outAck[s] \in Nat
  BY DEF WireOK
<1>5. QED BY <1>2, <1>3, <1>4

LEMMA InitInv == Init => IInv
<1> SUFFICES ASSUME Init PROVE IInv
  OBVIOUS
<1>1. WireOK
  BY DEF Init, WireOK, ChannelOK, FreeSubChannel, States, SubChannel
<1>2. NumbersInv
  BY PeerFacts DEF Init, NumbersInv, FreeSubChannel
<1>3. ASSUME NEW s \in Side, NEW c \in SubChannel PROVE SubchannelInv(s, c)
  BY PeerFacts DEF Init, SubchannelInv, Agrees, FreshData, FreshFrom, FreeSubChannel
<1>4. QED BY <1>1, <1>2, <1>3 DEF IInv, SubchannelsInv

wire == <<outSeq, inSeq, outAck, outState, inState, sub, net>>

LEMMA StutterInv ==
    ASSUME IInv, UNCHANGED wire
    PROVE  IInv'
<1>1. WireOK'
  BY DEF IInv, WireOK, wire, ChannelOK, PacketOK
<1>2. NumbersInv'
  BY DEF IInv, SubchannelsInv, NumbersInv, Stale, wire
<1>3. ASSUME NEW s \in Side, NEW c \in SubChannel PROVE SubchannelInv(s, c)'
  BY DEF IInv, SubchannelsInv, SubchannelInv, FreshData, FreshFrom, wire
<1>4. QED BY <1>1, <1>2, <1>3 DEF IInv, SubchannelsInv

LEMMA SetChokedInv ==
    ASSUME IInv, NEW s \in Side, SetChoked(s)
    PROVE  IInv'
<1> USE DEF SetChoked
<1>1. WireOK'
  BY DEF IInv, WireOK, ChannelOK, PacketOK
<1>2. NumbersInv'
  <2>1. \A t \in Side : outSeq[t] \in Nat /\ outSeq'[t] \in Nat /\ outSeq[t] <= outSeq'[t]
    BY DEF IInv, WireOK
  <2>2. \A t \in Side : inSeq[t] \in Nat /\ \A c \in SubChannel : sub[t][c].sendSeq \in Int
    <3>1. \A t \in Side : inSeq[t] \in Nat
      BY DEF IInv, WireOK
    <3>2. QED BY <3>1, WireTyped DEF IInv
  <2>3. \A p \in net : p.src \in Side /\ p.seq \in Nat
    BY DEF IInv, WireOK, PacketOK
  <2>4. QED BY <2>1, <2>2, <2>3, PeerFacts DEF IInv, SubchannelsInv, NumbersInv, Stale
<1>3. ASSUME NEW t \in Side, NEW c \in SubChannel PROVE SubchannelInv(t, c)'
  BY DEF IInv, SubchannelsInv, SubchannelInv, FreshData, FreshFrom
<1>4. QED BY <1>1, <1>2, <1>3 DEF IInv, SubchannelsInv

\* A datagram is lost or ignored.
LEMMA LoseInv ==
    ASSUME IInv, NEW p \in net, Lose(p) \/ Ignore(p)
    PROVE  IInv'
<1>0. /\ net' \subseteq net
      /\ UNCHANGED <<outSeq, inSeq, outAck, outState, inState, sub>>
  BY DEF Lose, Ignore
<1>1. WireOK'
  BY <1>0 DEF IInv, WireOK, ChannelOK, PacketOK
<1>2. NumbersInv'
  BY <1>0 DEF IInv, SubchannelsInv, NumbersInv, Stale
<1>3. ASSUME NEW s \in Side, NEW c \in SubChannel PROVE SubchannelInv(s, c)'
  <2>1. FreshData(s, c)' \subseteq FreshData(s, c) /\ FreshFrom(Peer(s))' \subseteq FreshFrom(Peer(s))
    BY <1>0 DEF FreshData, FreshFrom
  <2>2. sub[s][c].sendSeq \in Int /\ inSeq[Peer(s)] \in Int
    BY PeerFacts, WireTyped DEF IInv
  <2>3. SubchannelInv(s, c)
    BY DEF IInv, SubchannelsInv
  <2>4. Agrees(c, sub[s][c].state, sub[s][c].sendSeq, outState[s][c],
               inState[Peer(s)][c], FreshData(s, c)', FreshFrom(Peer(s))', inSeq[Peer(s)])
    BY <2>1, <2>2, <2>3, AgreesShrinks DEF SubchannelInv
  <2>5. QED BY <2>4, <1>0 DEF SubchannelInv
<1>4. QED BY <1>1, <1>2, <1>3 DEF IInv, SubchannelsInv

----------------------------------------------------------------------------
(* SendDatagram.                                                           *)

LEMMA LeastOfMember ==
    ASSUME NEW S \in SUBSET SubChannel, S # {}
    PROVE  LeastOf(S) \in S
<1>1. S \subseteq Nat
  BY ConstantsAssumption DEF SubChannel
<1>2. PICK x \in S : \A y \in S : ~(<<y, x>> \in OpToRel(<, Nat))
  BY <1>1, NatLessThanWellFounded, WFMin
<1>3. ASSUME NEW y \in S PROVE x <= y
  <2>1. ~(y < x)
    BY <1>1, <1>2 DEF OpToRel
  <2>2. QED BY <1>1, <2>1
<1>4. QED BY <1>3 DEF LeastOf

\* the two halves of the step, for one subchannel: it may be filled, then sent
LEMMA UpdatedAgrees ==
    ASSUME IInv, NEW s \in Side, NEW c \in SubChannel
    PROVE  /\ ChannelOK(UpdatedChannels(s)[c])
           /\ UpdatedState(s)[c] \in {0, 1}
           /\ UpdatedChannels(s)[c].sendSeq = sub[s][c].sendSeq
                \/ UpdatedChannels(s)[c].sendSeq = 0
           /\ Agrees(c, UpdatedChannels(s)[c].state, UpdatedChannels(s)[c].sendSeq,
                     UpdatedState(s)[c], inState[Peer(s)][c], FreshData(s, c),
                     FreshFrom(Peer(s)), inSeq[Peer(s)])
<1>1. /\ sub[s] = [d \in SubChannel |-> sub[s][d]]
      /\ outState[s] \in [SubChannel -> {0, 1}]
      /\ ChannelOK(sub[s][c])
  BY DEF IInv, WireOK
<1>2. SubchannelInv(s, c)
  BY DEF IInv, SubchannelsInv
<1>3. CASE Fills(s) /\ c = Slot(s)
  <2>1. sub[s][c].state = "FREE"
    BY <1>3, LeastOfMember DEF Fills, Slot, FreeSlots
  <2>2. /\ UpdatedChannels(s)[c] = FilledChannel(s)
        /\ UpdatedState(s)[c] = 1 - outState[s][c]
    BY <1>1, <1>3 DEF UpdatedChannels, UpdatedState, Flip
  <2>3. FilledChannel(s).state = "TOSEND" /\ FilledChannel(s).sendSeq = 0
    BY DEF FilledChannel
  <2>4. ChannelOK(FilledChannel(s))
    BY DEF FilledChannel, ChannelOK, States
  <2>5. /\ \A p \in FreshFrom(Peer(s)) : p.rel \in [SubChannel -> {0, 1}]
        /\ outState[s][c] \in {0, 1} /\ inState[Peer(s)][c] \in {0, 1}
        /\ inSeq[Peer(s)] \in Int
    BY PeerFacts DEF IInv, WireOK, PacketOK, FreshFrom
  <2>6. Agrees(c, "TOSEND", 0, 1 - outState[s][c], inState[Peer(s)][c],
               FreshData(s, c), FreshFrom(Peer(s)), inSeq[Peer(s)])
    <3>1. Agrees(c, "FREE", sub[s][c].sendSeq, outState[s][c], inState[Peer(s)][c],
                 FreshData(s, c), FreshFrom(Peer(s)), inSeq[Peer(s)])
      BY <1>2, <2>1 DEF SubchannelInv
    <3>2. QED BY <3>1, <2>5, AgreesAfterFill
  <2>7. QED BY <2>2, <2>3, <2>4, <2>5, <2>6
<1>4. CASE ~(Fills(s) /\ c = Slot(s))
  <2>1. UpdatedChannels(s)[c] = sub[s][c] /\ UpdatedState(s)[c] = outState[s][c]
    BY <1>1, <1>4 DEF UpdatedChannels, UpdatedState
  <2>2. outState[s][c] \in {0, 1}
    BY <1>1
  <2>3. QED BY <1>1, <1>2, <2>1, <2>2 DEF SubchannelInv
<1>5. QED BY <1>3, <1>4

LEMMA UpdatedChannelsFcn ==
    ASSUME IInv, NEW s \in Side
    PROVE  UpdatedChannels(s) = [c \in SubChannel |-> UpdatedChannels(s)[c]]
<1>1. sub[s] = [d \in SubChannel |-> sub[s][d]]
  BY DEF IInv, WireOK
<1>2. QED BY <1>1 DEF UpdatedChannels

LEMMA UpdatedStateFcn ==
    ASSUME IInv, NEW s \in Side
    PROVE  UpdatedState(s) \in [SubChannel -> {0, 1}]
<1>1. outState[s] \in [SubChannel -> {0, 1}]
  BY DEF IInv, WireOK
<1>2. CASE Fills(s)
  <2>1. Slot(s) \in SubChannel
    BY <1>2, LeastOfMember DEF Fills, Slot, FreeSlots
  <2>2. Flip(outState[s][Slot(s)]) \in {0, 1}
    BY <1>1, <2>1 DEF Flip
  <2>3. QED BY <1>1, <1>2, <2>1, <2>2 DEF UpdatedState
<1>3. CASE ~Fills(s)
  BY <1>1, <1>3 DEF UpdatedState
<1>4. QED BY <1>2, <1>3

LEMMA NextToSendFacts ==
    ASSUME NEW channels
    PROVE  \/ NextToSend(channels) = NoChannel
           \/ /\ NextToSend(channels) \in SubChannel
              /\ channels[NextToSend(channels)].state = "TOSEND"
<1> DEFINE waiters == {c \in SubChannel : channels[c].state = "TOSEND"}
<1>1. CASE waiters = {}
  BY <1>1 DEF NextToSend
<1>2. CASE waiters # {}
  <2>1. NextToSend(channels) = LeastOf(waiters)
    BY <1>2 DEF NextToSend
  <2>2. LeastOf(waiters) \in waiters
    BY <1>2, LeastOfMember
  <2>3. QED BY <2>1, <2>2
<1>3. QED BY <1>1, <1>2

LEMMA SendDatagramInv ==
    ASSUME IInv, NEW s \in Side, SendDatagram(s)
    PROVE  IInv'
<1> DEFINE channels == UpdatedChannels(s)
           k == NextToSend(channels)
           p == Datagram(s, k, channels, UpdatedLists(s))
           seq == outSeq[s]
<1>1. /\ net' = net \cup {p}
      /\ outState' = [outState EXCEPT ![s] = UpdatedState(s)]
      /\ sub' = [sub EXCEPT ![s] = SentChannels(channels, k, seq)]
      /\ outSeq' = [outSeq EXCEPT ![s] = @ + 1]
      /\ inSeq' = inSeq /\ outAck' = outAck /\ inState' = inState
  BY DEF SendDatagram
<1>2. /\ p.src = s /\ p.seq = seq /\ p.ack = inSeq[s] /\ p.rel = inState[s]
      /\ p.chan = k
  BY DEF Datagram
<1>3. k = NoChannel \/ (k \in SubChannel /\ channels[k].state = "TOSEND")
  BY NextToSendFacts
<1>4. /\ WireOK /\ NumbersInv /\ \A t \in Side, c \in SubChannel : SubchannelInv(t, c)
  BY DEF IInv, SubchannelsInv
<1>5. seq \in Nat /\ inSeq[s] \in Nat
  BY <1>4 DEF WireOK
<1>6. NoChannel \notin SubChannel
  BY ConstantsAssumption DEF NoChannel, SubChannel
<1>7. ASSUME NEW c \in SubChannel
      PROVE  /\ c # k => sub'[s][c] = channels[c]
             /\ c = k => /\ sub'[s][c].state = "WAITING" /\ sub'[s][c].sendSeq = seq
                         /\ channels[c].state = "TOSEND"
             /\ ChannelOK(sub'[s][c])
             /\ outState'[s][c] = UpdatedState(s)[c]
  <2>1. sub'[s] = SentChannels(channels, k, seq) /\ outState'[s] = UpdatedState(s)
    BY <1>1, <1>4 DEF WireOK
  <2>2. channels = [d \in SubChannel |-> channels[d]] /\ ChannelOK(channels[c])
    BY UpdatedChannelsFcn, UpdatedAgrees
  <2>3. CASE c # k
    <3>1. SentChannels(channels, k, seq)[c] = channels[c]
      BY <1>3, <2>2, <2>3 DEF SentChannels
    <3>2. QED BY <2>1, <2>2, <2>3, <3>1
  <2>4. CASE c = k
    <3>1. SentChannels(channels, k, seq)[c] =
            [state |-> "WAITING", sendSeq |-> seq,
             start |-> channels[c].start, num |-> channels[c].num]
      BY <1>6, <2>2, <2>4 DEF SentChannels
    <3>3. ChannelOK(sub'[s][c])
      BY <2>1, <3>1, <1>5 DEF ChannelOK, States
    <3>4. QED BY <1>3, <1>6, <2>1, <2>4, <3>1, <3>3
  <2>5. QED BY <2>3, <2>4
<1>8. WireOK'
  <2>1. PacketOK(p)
    BY <1>2, <1>3, <1>4, <1>5 DEF WireOK, PacketOK
  <2>2. sub'[s] = [c \in SubChannel |-> sub'[s][c]] /\ outState'[s] \in [SubChannel -> {0, 1}]
    <3>1. sub'[s] = SentChannels(channels, k, seq) /\ outState'[s] = UpdatedState(s)
      BY <1>1, <1>4 DEF WireOK
    <3>2. channels = [d \in SubChannel |-> channels[d]]
      BY UpdatedChannelsFcn
    <3>3. SentChannels(channels, k, seq) = [c \in SubChannel |-> SentChannels(channels, k, seq)[c]]
      BY <3>2 DEF SentChannels
    <3>4. QED BY <3>1, <3>3, UpdatedStateFcn
  <2>3. ASSUME NEW t \in Side, t # s
        PROVE  sub'[t] = sub[t] /\ outState'[t] = outState[t]
    BY <1>1, <1>4, <2>3 DEF WireOK
  <2>4. \A t \in Side : /\ sub'[t] = [c \in SubChannel |-> sub'[t][c]]
                        /\ \A c \in SubChannel : ChannelOK(sub'[t][c])
    BY <1>4, <1>7, <2>2, <2>3 DEF WireOK
  <2>5. outState' \in [Side -> [SubChannel -> {0, 1}]] /\ DOMAIN sub' = Side
    BY <1>1, <1>4, UpdatedStateFcn DEF WireOK
  <2>6. outSeq' \in [Side -> Nat]
    BY <1>1, <1>4 DEF WireOK
  <2>7. \A q \in net' : PacketOK(q)
    BY <1>1, <1>4, <2>1 DEF WireOK
  <2>8. (\A q \in net : PacketOK(q))'
    BY <2>7 DEF PacketOK
  <2>9. (\A t \in Side : /\ sub[t] = [c \in SubChannel |-> sub[t][c]]
                         /\ \A c \in SubChannel : ChannelOK(sub[t][c]))'
    BY <2>4 DEF ChannelOK
  <2>10. QED BY <1>1, <1>4, <2>5, <2>6, <2>8, <2>9 DEF WireOK
<1>9. NumbersInv'
  <2>1. /\ \A t \in Side : /\ outSeq[t] \in Nat /\ outSeq'[t] \in Nat
                           /\ outSeq[t] <= outSeq'[t]
                           /\ inSeq[t] \in Nat /\ outAck[t] \in Nat
        /\ outSeq'[s] = seq + 1
    BY <1>1, <1>4 DEF WireOK
  <2>2. \A q \in net : q.src \in Side /\ q.seq \in Nat /\ q.ack \in Nat
    BY <1>4 DEF WireOK, PacketOK
  <2>3. ASSUME NEW t \in Side, NEW c \in SubChannel
        PROVE  sub'[t][c].sendSeq < outSeq'[t]
    <3>1. CASE t # s
      <4>1. sub'[t] = sub[t] /\ sub[t][c].sendSeq \in Int
        BY <1>1, <1>4, <3>1, WireTyped DEF WireOK
      <4>2. QED BY <1>4, <2>1, <4>1 DEF NumbersInv
    <3>2. CASE t = s /\ c = k
      BY <1>5, <1>7, <2>1, <3>2
    <3>3. CASE t = s /\ c # k
      <4>1. /\ sub[s][c].sendSeq < seq /\ sub[s][c].sendSeq \in Int
        BY <1>4, WireTyped DEF NumbersInv
      <4>2. sub'[s][c].sendSeq = sub[s][c].sendSeq \/ sub'[s][c].sendSeq = 0
        BY <1>7, <3>3, UpdatedAgrees
      <4>3. QED BY <1>5, <2>1, <3>3, <4>1, <4>2
    <3>4. QED BY <3>1, <3>2, <3>3
  <2>4. ASSUME NEW t \in Side
        PROVE  inSeq'[Peer(t)] < outSeq'[t] /\ outAck'[t] <= inSeq'[Peer(t)]
    BY <1>1, <1>4, <2>1, PeerFacts DEF NumbersInv
  <2>5. ASSUME NEW q \in net'
        PROVE  /\ q.seq < outSeq'[q.src] /\ q.ack <= inSeq'[q.src]
               /\ q.seq > inSeq'[Peer(q.src)] => q.ack >= outAck'[Peer(q.src)]
    <3>1. CASE q \in net
      <4>1. /\ q.seq < outSeq[q.src] /\ q.ack <= inSeq[q.src]
            /\ q.seq > inSeq[Peer(q.src)] => q.ack >= outAck[Peer(q.src)]
        BY <1>4, <3>1, <2>1, <2>2, PeerFacts DEF NumbersInv, Stale
      <4>2. QED BY <1>1, <2>1, <2>2, <3>1, <4>1
    <3>2. CASE q = p
      <4>1. outAck[Peer(s)] <= inSeq[s]
        BY <1>4, PeerFacts DEF NumbersInv
      <4>2. QED BY <1>1, <1>2, <1>5, <2>1, <3>2, <4>1, PeerFacts
    <3>3. QED BY <1>1, <3>1, <3>2
  <2>6. ASSUME NEW q1 \in net', NEW q2 \in net', q1.src = q2.src
        PROVE  /\ q1.seq = q2.seq => q1 = q2
               /\ q1.seq < q2.seq => q1.ack <= q2.ack
    <3>1. \A q \in net : q.src = s => q.seq < seq /\ q.ack <= inSeq[s]
      BY <1>4 DEF NumbersInv
    <3>2. CASE q1 \in net /\ q2 \in net
      BY <1>4, <2>6, <3>2 DEF NumbersInv
    <3>3. CASE q1 = p /\ q2 \in net
      BY <1>2, <1>5, <2>2, <2>6, <3>1, <3>3
    <3>4. CASE q1 \in net /\ q2 = p
      BY <1>2, <1>5, <2>2, <2>6, <3>1, <3>4
    <3>5. CASE q1 = p /\ q2 = p
      BY <1>2, <1>5, <3>5
    <3>6. QED BY <1>1, <3>2, <3>3, <3>4, <3>5
  <2>7. \A q \in net' : q.src \in Side /\ q.seq \in Nat
    BY <1>1, <1>2, <1>5, <2>2
  <2>8. QED BY <2>1, <2>3, <2>4, <2>5, <2>6, <2>7, <1>1, PeerFacts DEF NumbersInv, Stale
<1>10. ASSUME NEW t \in Side, NEW c \in SubChannel PROVE SubchannelInv(t, c)'
  <2>1. CASE t = s
    <3>1. Agrees(c, channels[c].state, channels[c].sendSeq, UpdatedState(s)[c],
                 inState[Peer(s)][c], FreshData(s, c), FreshFrom(Peer(s)), inSeq[Peer(s)])
      BY UpdatedAgrees
    <3>2. FreshFrom(Peer(s))' = FreshFrom(Peer(s))
      BY <1>1, <1>2, PeerFacts DEF FreshFrom
    <3>3. inSeq[Peer(s)] < seq /\ inSeq[Peer(s)] \in Nat
      BY <1>4, PeerFacts DEF NumbersInv, WireOK
    <3>4. FreshData(s, c)' = IF c = k THEN FreshData(s, c) \cup {p} ELSE FreshData(s, c)
      BY <1>1, <1>2, <1>5, <3>3 DEF FreshData, FreshFrom
    <3>5. CASE c = k
      <4>1. Agrees(c, "WAITING", p.seq, UpdatedState(s)[c], inState[Peer(s)][c],
                   FreshData(s, c) \cup {p}, FreshFrom(Peer(s)), inSeq[Peer(s)])
        <5>1. channels[c].state = "TOSEND"
          BY <1>7, <3>5
        <5>2. QED BY <3>1, <3>3, <5>1, AgreesAfterSend
      <4>2. QED BY <1>1, <1>2, <1>7, <2>1, <3>2, <3>4, <3>5, <4>1 DEF SubchannelInv
    <3>6. CASE c # k
      BY <1>1, <1>7, <2>1, <3>1, <3>2, <3>4, <3>6 DEF SubchannelInv
    <3>7. QED BY <3>5, <3>6
  <2>2. CASE t # s
    <3>1. Peer(t) = s
      BY <2>2 DEF Side, Peer
    <3>2. /\ sub'[t] = sub[t] /\ outState'[t] = outState[t]
          /\ inSeq'[s] = inSeq[s] /\ inState'[s] = inState[s]
      BY <1>1, <1>4, <2>2 DEF WireOK
    <3>3. FreshData(t, c)' = FreshData(t, c)
      BY <1>1, <1>2, <2>2, <3>1 DEF FreshData, FreshFrom
    <3>4. FreshFrom(s)' = FreshFrom(s) \/ FreshFrom(s)' = FreshFrom(s) \cup {p}
      BY <1>1 DEF FreshFrom
    <3>5. Agrees(c, sub[t][c].state, sub[t][c].sendSeq, outState[t][c], inState[s][c],
                 FreshData(t, c), FreshFrom(s), inSeq[s])
      BY <1>4, <3>1 DEF SubchannelInv
    <3>6. sub[t][c].sendSeq \in Int /\ p.rel[c] = inState[s][c] /\ p.ack = inSeq[s]
      BY <1>2, <1>4, WireTyped
    <3>7. Agrees(c, sub[t][c].state, sub[t][c].sendSeq, outState[t][c], inState[s][c],
                 FreshData(t, c), FreshFrom(s) \cup {p}, inSeq[s])
      BY <1>5, <3>5, <3>6, AgreesWithNewAck
    <3>8. QED BY <3>1, <3>2, <3>3, <3>4, <3>5, <3>7 DEF SubchannelInv
  <2>3. QED BY <2>1, <2>2
<1>11. QED BY <1>8, <1>9, <1>10 DEF IInv, SubchannelsInv

----------------------------------------------------------------------------
(* Clear().                                                                *)

\* what Clear() makes of a subchannel and of its bit
LEMMA ClearedAgrees ==
    ASSUME NEW channels, NEW bits \in [SubChannel -> {0, 1}], NEW c \in SubChannel,
           NEW peerBit \in {0, 1}, NEW data, NEW acks, NEW reached \in Int,
           ChannelOK(channels[c]),
           \A q \in acks : q.rel \in [SubChannel -> {0, 1}],
           Agrees(c, channels[c].state, channels[c].sendSeq, bits[c], peerBit,
                  data, acks, reached)
    PROVE  /\ ChannelOK(ClearedChannels(channels)[c])
           /\ ClearedState(bits, channels)[c] \in {0, 1}
           /\ ClearedChannels(channels)[c].sendSeq \in {channels[c].sendSeq, -1}
           /\ Agrees(c, ClearedChannels(channels)[c].state,
                     ClearedChannels(channels)[c].sendSeq,
                     ClearedState(bits, channels)[c], peerBit, data, acks, reached)
<1> DEFINE x == channels[c]
<1>1. x.state \in States /\ x.sendSeq \in Nat \cup {-1} /\ x.sendSeq \in Int
      /\ bits[c] \in {0, 1}
  <2>1. x.state \in States /\ x.sendSeq \in Nat \cup {-1}
    BY DEF ChannelOK
  <2>2. QED BY <2>1
<1>2. CASE x.state = "TOSEND"
  <2>1. /\ ClearedChannels(channels)[c] = FreeSubChannel
        /\ ClearedState(bits, channels)[c] = 1 - bits[c]
    BY <1>2 DEF ClearedChannels, ClearedState, Flip
  <2>2. /\ FreeSubChannel.state = "FREE" /\ FreeSubChannel.sendSeq = -1
        /\ ChannelOK(FreeSubChannel)
    BY DEF FreeSubChannel, ChannelOK, States
  <2>3. Agrees(c, "FREE", -1, 1 - bits[c], peerBit, data, acks, reached)
    BY <1>1, <1>2, AgreesAfterClear
  <2>4. QED BY <1>1, <2>1, <2>2, <2>3
<1>3. CASE x.state = "WAITING"
  <2>1. /\ ClearedChannels(channels)[c] = [x EXCEPT !.state = "DIRTY"]
        /\ ClearedState(bits, channels)[c] = bits[c]
    BY <1>3 DEF ClearedChannels, ClearedState
  <2>2. [x EXCEPT !.state = "DIRTY"] =
          [state |-> "DIRTY", sendSeq |-> x.sendSeq, start |-> x.start, num |-> x.num]
    BY DEF ChannelOK
  <2>3. ChannelOK([state |-> "DIRTY", sendSeq |-> x.sendSeq, start |-> x.start, num |-> x.num])
    BY <1>1 DEF ChannelOK, States
  <2>4. Agrees(c, "DIRTY", x.sendSeq, bits[c], peerBit, data, acks, reached)
    BY <1>1, <1>3, AgreesAfterClear
  <2>5. QED BY <1>1, <2>1, <2>2, <2>3, <2>4
<1>4. CASE x.state \notin {"TOSEND", "WAITING"}
  <2>1. ClearedChannels(channels)[c] = x /\ ClearedState(bits, channels)[c] = bits[c]
    BY <1>4 DEF ClearedChannels, ClearedState
  <2>2. QED BY <1>1, <2>1
<1>5. QED BY <1>2, <1>3, <1>4

LEMMA ReconnectInv ==
    ASSUME IInv, NEW s \in Side, NEW m \in ResetMsgs, Reconnect(s, m)
    PROVE  IInv'
<1>1. /\ outState' = [outState EXCEPT ![s] = ClearedState(@, sub[s])]
      /\ sub' = [sub EXCEPT ![s] = ClearedChannels(@)]
      /\ UNCHANGED <<outSeq, inSeq, outAck, inState, net>>
  BY DEF Reconnect
<1>2. /\ WireOK /\ NumbersInv /\ \A t \in Side, c \in SubChannel : SubchannelInv(t, c)
  BY DEF IInv, SubchannelsInv
<1>3. /\ sub'[s] = ClearedChannels(sub[s]) /\ outState'[s] = ClearedState(outState[s], sub[s])
      /\ \A t \in Side \ {s} : sub'[t] = sub[t] /\ outState'[t] = outState[t]
      /\ DOMAIN sub' = Side /\ DOMAIN outState' = Side
  BY <1>1, <1>2 DEF WireOK
<1>4. ASSUME NEW c \in SubChannel
      PROVE  /\ ChannelOK(ClearedChannels(sub[s])[c])
             /\ ClearedState(outState[s], sub[s])[c] \in {0, 1}
             /\ ClearedChannels(sub[s])[c].sendSeq \in {sub[s][c].sendSeq, -1}
             /\ Agrees(c, ClearedChannels(sub[s])[c].state,
                       ClearedChannels(sub[s])[c].sendSeq,
                       ClearedState(outState[s], sub[s])[c], inState[Peer(s)][c],
                       FreshData(s, c), FreshFrom(Peer(s)), inSeq[Peer(s)])
  <2>1. /\ outState[s] \in [SubChannel -> {0, 1}]
        /\ inState[Peer(s)][c] \in {0, 1} /\ inSeq[Peer(s)] \in Int
        /\ ChannelOK(sub[s][c])
        /\ \A q \in FreshFrom(Peer(s)) : q.rel \in [SubChannel -> {0, 1}]
    BY <1>2, PeerFacts DEF WireOK, PacketOK, FreshFrom
  <2>2. Agrees(c, sub[s][c].state, sub[s][c].sendSeq, outState[s][c],
               inState[Peer(s)][c], FreshData(s, c), FreshFrom(Peer(s)), inSeq[Peer(s)])
    BY <1>2 DEF SubchannelInv
  <2>3. QED BY <2>1, <2>2, ClearedAgrees
<1>5. WireOK'
  <2>1. \A t \in Side : /\ sub'[t] = [c \in SubChannel |-> sub'[t][c]]
                        /\ \A c \in SubChannel : ChannelOK(sub'[t][c])
    <3>1. ClearedChannels(sub[s]) = [c \in SubChannel |-> ClearedChannels(sub[s])[c]]
      BY DEF ClearedChannels
    <3>2. QED BY <1>2, <1>3, <1>4, <3>1 DEF WireOK
  <2>2. \A t \in Side : outState'[t] \in [SubChannel -> {0, 1}]
    <3>1. ClearedState(outState[s], sub[s]) \in [SubChannel -> {0, 1}]
      BY <1>4 DEF ClearedState
    <3>2. QED BY <1>2, <1>3, <3>1 DEF WireOK
  <2>3. outState' \in [Side -> [SubChannel -> {0, 1}]]
    BY <1>1, <1>2, <2>2 DEF WireOK
  <2>4. (\A t \in Side : /\ sub[t] = [c \in SubChannel |-> sub[t][c]]
                         /\ \A c \in SubChannel : ChannelOK(sub[t][c]))'
    BY <2>1 DEF ChannelOK
  <2>5. (\A q \in net : PacketOK(q))'
    BY <1>1, <1>2 DEF WireOK, PacketOK
  <2>6. QED BY <1>1, <1>2, <1>3, <2>3, <2>4, <2>5 DEF WireOK
<1>6. NumbersInv'
  <2>1. ASSUME NEW t \in Side, NEW c \in SubChannel
        PROVE  sub'[t][c].sendSeq < outSeq[t]
    <3>1. outSeq[t] \in Nat /\ sub[t][c].sendSeq < outSeq[t]
      BY <1>2 DEF WireOK, NumbersInv
    <3>2. sub'[t][c].sendSeq \in {sub[t][c].sendSeq, -1}
      BY <1>3, <1>4
    <3>3. QED BY <3>1, <3>2
  <2>2. QED BY <1>1, <1>2, <2>1 DEF NumbersInv, Stale
<1>7. ASSUME NEW t \in Side, NEW c \in SubChannel PROVE SubchannelInv(t, c)'
  <2>1. FreshData(t, c)' = FreshData(t, c) /\ FreshFrom(Peer(t))' = FreshFrom(Peer(t))
    BY <1>1 DEF FreshData, FreshFrom
  <2>2. CASE t = s
    BY <1>1, <1>3, <1>4, <2>1, <2>2 DEF SubchannelInv
  <2>3. CASE t # s
    BY <1>1, <1>2, <1>3, <2>1, <2>3 DEF SubchannelInv
  <2>4. QED BY <2>2, <2>3
<1>8. QED BY <1>5, <1>6, <1>7 DEF IInv, SubchannelsInv

----------------------------------------------------------------------------
(* ProcessPacket.                                                          *)

LEMMA FlipNeedsFragments ==
    ASSUME NEW r \in Side, NEW p, PacketOK(p), Received(r, p).flip
    PROVE  p.chan \in SubChannel
<1>1. CASE p.chan = NoChannel
  <2>1. Received(r, p).flip = FALSE
    BY <1>1 DEF Received
  <2>2. QED BY <2>1
<1>2. CASE p.chan # NoChannel
  BY <1>2 DEF PacketOK
<1>3. QED BY <1>1, <1>2

\* What IInv says of a datagram that is accepted.
LEMMA FreshFacts ==
    ASSUME IInv, NEW p \in net, ~Stale(Peer(p.src), p)
    PROVE  /\ p.src \in Side /\ PacketOK(p)
           /\ p \in FreshFrom(p.src)
           /\ p.seq > inSeq[Peer(p.src)] /\ p.seq < outSeq[p.src]
           /\ p.ack <= inSeq[p.src]
           /\ p.ack >= outAck[Peer(p.src)]
           /\ \A q \in net : q.src = p.src /\ q.seq > p.seq => q.ack >= p.ack
<1>1. PacketOK(p) /\ p.src \in Side /\ p.seq \in Nat /\ inSeq[Peer(p.src)] \in Nat
  BY PeerFacts DEF IInv, WireOK, PacketOK
<1>2. p.seq > inSeq[Peer(p.src)]
  BY <1>1 DEF Stale
<1>3. /\ p.seq < outSeq[p.src] /\ p.ack <= inSeq[p.src]
      /\ p.ack >= outAck[Peer(p.src)]
  BY DEF IInv, SubchannelsInv, NumbersInv
<1>4. ASSUME NEW q \in net, q.src = p.src, q.seq > p.seq PROVE q.ack >= p.ack
  <2>1. q.seq \in Nat /\ q.ack \in Nat /\ p.ack \in Nat
    BY <1>1 DEF IInv, WireOK, PacketOK
  <2>2. p.seq < q.seq => p.ack <= q.ack
    BY <1>4 DEF IInv, SubchannelsInv, NumbersInv
  <2>3. QED BY <1>1, <1>4, <2>1, <2>2
<1>5. QED BY <1>1, <1>2, <1>3, <1>4 DEF FreshFrom

\* The premises of AgreesAfterAck hold of such a datagram.
LEMMA AckFacts ==
    ASSUME IInv, NEW p \in net, ~Stale(Peer(p.src), p), NEW c \in SubChannel,
           NEW later \in SUBSET FreshFrom(p.src), \A q \in later : q.seq > p.seq
    PROVE  LET r == Peer(p.src)
               x == sub[r][c]
               bit == outState[r][c]
               peerBit == inState[p.src][c]
               data == FreshData(r, c)
           IN /\ AckAgrees(c, x.state, x.sendSeq, bit, peerBit, data, later, inSeq[p.src], p)
              /\ Agrees(c, x.state, x.sendSeq, bit, peerBit, data, later, inSeq[p.src])
<1> DEFINE r == Peer(p.src)
           x == sub[r][c]
           bit == outState[r][c]
           data == FreshData(r, c)
           acks == FreshFrom(p.src)
<1>1. r \in Side /\ Peer(r) = p.src /\ p.src \in Side
  BY FreshFacts, PeerFacts
<1>2. Agrees(c, x.state, x.sendSeq, bit, inState[p.src][c], data, acks, inSeq[p.src])
  BY <1>1 DEF IInv, SubchannelsInv, SubchannelInv
<1>3. /\ x.state \in States /\ x.sendSeq \in Nat \cup {-1} /\ x.sendSeq \in Int
      /\ bit \in {0, 1} /\ inState[p.src][c] \in {0, 1} /\ inSeq[p.src] \in Int
  BY <1>1, WireTyped DEF IInv
<1>4. \A q \in acks : q.rel \in [SubChannel -> {0, 1}] /\ q.ack \in Nat
  BY DEF IInv, WireOK, PacketOK, FreshFrom
<1>5. \A q \in later : p.ack <= q.ack
  <2>1. \A q \in later : q \in net /\ q.src = p.src /\ q.ack \in Nat
    BY <1>4 DEF FreshFrom
  <2>2. p.ack \in Nat
    BY FreshFacts DEF PacketOK
  <2>3. QED BY <2>1, <2>2, FreshFacts
<1>6. \A q \in data : q.seq \in Nat /\ q.seq > inSeq[p.src]
  BY <1>1 DEF IInv, WireOK, PacketOK, FreshFrom, FreshData
<1>7. p \in acks /\ p.ack <= inSeq[p.src] /\ later \in SUBSET acks
  BY <1>4, FreshFacts
<1>8. Agrees(c, x.state, x.sendSeq, bit, inState[p.src][c], data, later, inSeq[p.src])
  BY <1>2, <1>3, AgreesShrinks
<1>9. AckAgrees(c, x.state, x.sendSeq, bit, inState[p.src][c], data, later, inSeq[p.src], p)
  BY <1>2, <1>3, <1>4, <1>5, <1>6, <1>7, AgreesAfterAck
<1>10. QED BY <1>8, <1>9

\* No datagram that is accepted meets "reliable state invalid".
LEMMA NeverInvalid ==
    ASSUME IInv, NEW p \in net, ~Stale(Peer(p.src), p)
    PROVE  HeaderValid(Peer(p.src), p)
<1> SUFFICES ASSUME NEW c \in SubChannel PROVE ~Invalid(Peer(p.src), p, c)
  BY DEF HeaderValid
<1> DEFINE r == Peer(p.src)
<1>1. outState[r][c] = p.rel[c] /\ sub[r][c].state # "DIRTY" => sub[r][c].sendSeq <= p.ack
  <2>1. {} \in SUBSET FreshFrom(p.src) /\ \A q \in {} : q.seq > p.seq
    OBVIOUS
  <2>2. QED BY <2>1, AckFacts DEF AckAgrees
<1>2. sub[r][c].sendSeq \in Int /\ p.ack \in Int
  BY FreshFacts, PeerFacts, WireTyped DEF IInv, PacketOK
<1>3. QED BY <1>1, <1>2 DEF Invalid, Match

\* What the header of p makes of the receiver's subchannels.
LEMMA AckedAgrees ==
    ASSUME IInv, NEW p \in net, ~Stale(Peer(p.src), p), NEW c \in SubChannel,
           NEW later \in SUBSET FreshFrom(p.src), \A q \in later : q.seq > p.seq
    PROVE  LET r == Peer(p.src)
               channels == AckedChannels(r, p)
               bits == AckedState(r, p)
           IN /\ ChannelOK(channels[c]) /\ bits[c] \in {0, 1}
              /\ channels[c].sendSeq \in {sub[r][c].sendSeq, -1}
              /\ Agrees(c, channels[c].state, channels[c].sendSeq, bits[c],
                        inState[p.src][c], FreshData(r, c), later, inSeq[p.src])
<1> DEFINE r == Peer(p.src)
           x == sub[r][c]
           bit == outState[r][c]
           peerBit == inState[p.src][c]
           y == AckedChannels(r, p)[c]
           bit2 == AckedState(r, p)[c]
<1>1. /\ ChannelOK(x) /\ bit \in {0, 1} /\ peerBit \in {0, 1}
      /\ r \in Side /\ p.src \in Side
  BY FreshFacts, PeerFacts DEF IInv, WireOK
<1>2. /\ AckAgrees(c, x.state, x.sendSeq, bit, peerBit, FreshData(r, c), later, inSeq[p.src], p)
      /\ Agrees(c, x.state, x.sendSeq, bit, peerBit, FreshData(r, c), later, inSeq[p.src])
  BY AckFacts
<1>3. c \in Visited(r, p)
  <2>1. \A d \in 0 .. c : d \in SubChannel
    BY ConstantsAssumption DEF SubChannel
  <2>2. QED BY <2>1, NeverInvalid DEF Visited, HeaderValid
<1>4. /\ FreeSubChannel.state = "FREE" /\ FreeSubChannel.sendSeq = -1
      /\ ChannelOK(FreeSubChannel)
  BY DEF FreeSubChannel, ChannelOK, States
<1>5. CASE c \in RolledBack(r, p)
  <2>1. bit # p.rel[c] /\ x.sendSeq <= p.ack /\ x.state = "DIRTY"
    BY <1>5 DEF RolledBack, Failed, Match
  <2>2. y = FreeSubChannel /\ bit2 = 1 - bit
    BY <1>5 DEF AckedChannels, AckedState, Freed, Flip
  <2>3. /\ 1 - bit = peerBit
        /\ Agrees(c, "FREE", -1, peerBit, peerBit, FreshData(r, c), later, inSeq[p.src])
    BY <1>2, <2>1 DEF AckAgrees
  <2>4. QED BY <1>1, <1>4, <2>2, <2>3
<1>6. CASE c \notin RolledBack(r, p) /\ c \in Freed(r, p)
  <2>1. bit = p.rel[c] /\ x.state \in {"WAITING", "DIRTY"}
    BY <1>6 DEF Freed, Match
  <2>2. y = FreeSubChannel /\ bit2 = bit
    BY <1>6 DEF AckedChannels, AckedState
  <2>3. Agrees(c, "FREE", -1, bit, peerBit, FreshData(r, c), later, inSeq[p.src])
    BY <1>2, <2>1 DEF AckAgrees
  <2>4. QED BY <1>1, <1>4, <2>2, <2>3
<1>7. CASE c \notin Freed(r, p) /\ c \in Resend(r, p)
  <2>1. bit # p.rel[c] /\ x.sendSeq <= p.ack /\ x.state = "WAITING"
    BY <1>7 DEF Resend, Failed, Match
  <2>2. y = [x EXCEPT !.state = "TOSEND"] /\ bit2 = bit
    BY <1>7 DEF AckedChannels, AckedState, Freed
  <2>3. [x EXCEPT !.state = "TOSEND"] =
          [state |-> "TOSEND", sendSeq |-> x.sendSeq, start |-> x.start, num |-> x.num]
    BY <1>1 DEF ChannelOK
  <2>4. ChannelOK([state |-> "TOSEND", sendSeq |-> x.sendSeq, start |-> x.start, num |-> x.num])
    <3>1. x.sendSeq \in Nat \cup {-1}
      BY <1>1 DEF ChannelOK
    <3>2. QED BY <3>1 DEF ChannelOK, States
  <2>5. Agrees(c, "TOSEND", x.sendSeq, bit, peerBit, FreshData(r, c), later, inSeq[p.src])
    BY <1>2, <2>1 DEF AckAgrees
  <2>6. y.state = "TOSEND" /\ y.sendSeq = x.sendSeq /\ ChannelOK(y)
    BY <2>2, <2>3, <2>4
  <2>7. QED BY <1>1, <2>2, <2>5, <2>6
<1>8. CASE c \notin Freed(r, p) /\ c \notin Resend(r, p)
  <2>1. y = x /\ bit2 = bit
    BY <1>8 DEF AckedChannels, AckedState, Freed
  <2>2. QED BY <1>1, <1>2, <2>1
<1>9. QED BY <1>5, <1>6, <1>7, <1>8

\* What a whole Process(p) does to the receiver's own subchannels: the header,
\* and Clear() when a handler calls it.
OwnChannels(p, clears) ==
    LET channels == AckedChannels(Peer(p.src), p)
    IN IF clears THEN ClearedChannels(channels) ELSE channels
OwnState(p, clears) ==
    LET r == Peer(p.src)
    IN IF clears THEN ClearedState(AckedState(r, p), AckedChannels(r, p))
                 ELSE AckedState(r, p)

LEMMA OwnAgrees ==
    ASSUME IInv, NEW p \in net, ~Stale(Peer(p.src), p), NEW c \in SubChannel,
           NEW later \in SUBSET FreshFrom(p.src), \A q \in later : q.seq > p.seq,
           NEW clears \in BOOLEAN
    PROVE  LET r == Peer(p.src)
           IN /\ ChannelOK(OwnChannels(p, clears)[c])
              /\ OwnState(p, clears)[c] \in {0, 1}
              /\ OwnChannels(p, clears)[c].sendSeq \in {sub[r][c].sendSeq, -1}
              /\ Agrees(c, OwnChannels(p, clears)[c].state,
                        OwnChannels(p, clears)[c].sendSeq, OwnState(p, clears)[c],
                        inState[p.src][c], FreshData(r, c), later, inSeq[p.src])
<1> DEFINE r == Peer(p.src)
           channels == AckedChannels(r, p)
           bits == AckedState(r, p)
<1>1. /\ ChannelOK(channels[c]) /\ bits[c] \in {0, 1}
      /\ channels[c].sendSeq \in {sub[r][c].sendSeq, -1}
      /\ Agrees(c, channels[c].state, channels[c].sendSeq, bits[c],
                inState[p.src][c], FreshData(r, c), later, inSeq[p.src])
  BY AckedAgrees
<1>2. CASE clears
  <2>1. bits \in [SubChannel -> {0, 1}]
    <3>1. {} \in SUBSET FreshFrom(p.src) /\ \A q \in {} : q.seq > p.seq
      OBVIOUS
    <3>2. \A d \in SubChannel : bits[d] \in {0, 1}
      BY <3>1, AckedAgrees
    <3>3. QED BY <3>2 DEF AckedState
  <2>2. /\ inState[p.src][c] \in {0, 1} /\ inSeq[p.src] \in Int
        /\ \A q \in later : q.rel \in [SubChannel -> {0, 1}]
    BY FreshFacts DEF IInv, WireOK, PacketOK, FreshFrom
  <2>3. /\ ChannelOK(ClearedChannels(channels)[c])
        /\ ClearedState(bits, channels)[c] \in {0, 1}
        /\ ClearedChannels(channels)[c].sendSeq \in {channels[c].sendSeq, -1}
        /\ Agrees(c, ClearedChannels(channels)[c].state,
                  ClearedChannels(channels)[c].sendSeq, ClearedState(bits, channels)[c],
                  inState[p.src][c], FreshData(r, c), later, inSeq[p.src])
    <3> HIDE DEF channels, bits
    <3>1. QED BY <1>1, <2>1, <2>2, ClearedAgrees
  <2>4. OwnChannels(p, clears) = ClearedChannels(channels)
        /\ OwnState(p, clears) = ClearedState(bits, channels)
    BY <1>2 DEF OwnChannels, OwnState
  <2>5. ClearedChannels(channels)[c].sendSeq \in {sub[r][c].sendSeq, -1}
    BY <1>1, <2>3
  <2>6. QED BY <2>3, <2>4, <2>5
<1>3. CASE ~clears
  BY <1>1, <1>3 DEF OwnChannels, OwnState
<1>4. QED BY <1>2, <1>3

LEMMA ProcessInv ==
    ASSUME IInv, NEW p \in net, Process(p)
    PROVE  IInv'
<1> DEFINE s == p.src
           r == Peer(s)
           in == Received(r, p)
           clears == HeaderValid(r, p) /\ in.cleared
<1>1. ~Stale(r, p)
  BY DEF Process
<1>2. HeaderValid(r, p)
  BY <1>1, NeverInvalid
<1>3. /\ s \in Side /\ r \in Side /\ r # s /\ Peer(r) = s
      /\ PacketOK(p) /\ p \in FreshFrom(s)
      /\ p.seq > inSeq[r] /\ p.seq < outSeq[s] /\ p.ack <= inSeq[s] /\ p.ack >= outAck[r]
      /\ \A q \in net : q.src = s /\ q.seq > p.seq => q.ack >= p.ack
  BY <1>1, FreshFacts, PeerFacts
<1>4. /\ net' \in {net, net \ {p}}
      /\ inSeq' = [inSeq EXCEPT ![r] = p.seq]
      /\ outAck' = [outAck EXCEPT ![r] = p.ack]
      /\ sub' = [sub EXCEPT ![r] = OwnChannels(p, clears)]
      /\ outState' = [outState EXCEPT ![r] = OwnState(p, clears)]
      /\ inState' = IF in.flip THEN [inState EXCEPT ![r][p.chan] = Flip(@)] ELSE inState
      /\ outSeq' = outSeq
  BY <1>2 DEF Process, OwnChannels, OwnState
<1>5. clears \in BOOLEAN
  OBVIOUS
<1>6. /\ WireOK /\ NumbersInv /\ \A t \in Side, c \in SubChannel : SubchannelInv(t, c)
  BY DEF IInv, SubchannelsInv
<1>7. in.flip => p.chan \in SubChannel
  BY <1>3, FlipNeedsFragments
<1> HIDE DEF clears
<1>8. /\ sub'[r] = OwnChannels(p, clears) /\ outState'[r] = OwnState(p, clears)
      /\ sub'[s] = sub[s] /\ outState'[s] = outState[s]
      /\ inSeq'[r] = p.seq /\ inSeq'[s] = inSeq[s]
      /\ outAck'[r] = p.ack /\ outAck'[s] = outAck[s]
      /\ inState'[s] = inState[s]
      /\ DOMAIN sub' = Side
  BY <1>3, <1>4, <1>6 DEF WireOK
<1>9. \A t \in Side : t = r \/ t = s
  BY <1>3 DEF Side
<1>10. FreshFrom(s)' \in SUBSET FreshFrom(s) /\ \A q \in FreshFrom(s)' : q.seq > p.seq
  <2>1. \A q \in net : q.src = s /\ q.seq > p.seq => q.seq > inSeq[r]
    BY <1>3, <1>6 DEF WireOK, PacketOK
  <2>2. QED BY <1>4, <1>8, <2>1 DEF FreshFrom
<1>11. FreshFrom(r)' = FreshFrom(r)
  BY <1>3, <1>4, <1>8 DEF FreshFrom
<1>12. ASSUME NEW c \in SubChannel
       PROVE  /\ ChannelOK(OwnChannels(p, clears)[c])
              /\ OwnState(p, clears)[c] \in {0, 1}
              /\ OwnChannels(p, clears)[c].sendSeq \in {sub[r][c].sendSeq, -1}
              /\ Agrees(c, OwnChannels(p, clears)[c].state,
                        OwnChannels(p, clears)[c].sendSeq, OwnState(p, clears)[c],
                        inState[s][c], FreshData(r, c), FreshFrom(s)', inSeq[s])
  BY <1>1, <1>5, <1>10, OwnAgrees
<1>13. WireOK'
  <2>1. inState' \in [Side -> [SubChannel -> {0, 1}]]
    <3>1. CASE in.flip
      <4>1. Flip(inState[r][p.chan]) \in {0, 1}
        <5>1. inState[r][p.chan] \in {0, 1}
          BY <1>3, <1>6, <1>7, <3>1 DEF WireOK
        <5>2. QED BY <5>1 DEF Flip
      <4>2. inState[r] \in [SubChannel -> {0, 1}]
        BY <1>3, <1>6 DEF WireOK
      <4>3. [inState[r] EXCEPT ![p.chan] = Flip(@)] \in [SubChannel -> {0, 1}]
        BY <1>7, <3>1, <4>1, <4>2
      <4>4. inState' = [inState EXCEPT ![r] = [inState[r] EXCEPT ![p.chan] = Flip(@)]]
        BY <1>3, <1>4, <1>6, <3>1 DEF WireOK
      <4>5. QED BY <1>3, <1>6, <4>3, <4>4 DEF WireOK
    <3>2. CASE ~in.flip
      BY <1>4, <1>6, <3>2 DEF WireOK
    <3>3. QED BY <3>1, <3>2
  <2>2. OwnChannels(p, clears) = [c \in SubChannel |-> OwnChannels(p, clears)[c]]
    BY DEF OwnChannels, AckedChannels, ClearedChannels
  <2>3. OwnState(p, clears) \in [SubChannel -> {0, 1}]
    <3>1. \A c \in SubChannel : OwnState(p, clears)[c] \in {0, 1}
      BY <1>12
    <3>2. OwnState(p, clears) = [c \in SubChannel |-> OwnState(p, clears)[c]]
      BY DEF OwnState, AckedState, ClearedState
    <3>3. QED BY <3>1, <3>2
  <2>4. outState' \in [Side -> [SubChannel -> {0, 1}]]
    BY <1>4, <1>6, <2>3 DEF WireOK
  <2>5. \A t \in Side : /\ sub'[t] = [c \in SubChannel |-> sub'[t][c]]
                        /\ \A c \in SubChannel : ChannelOK(sub'[t][c])
    <3>1. \A c \in SubChannel : ChannelOK(sub'[r][c])
      BY <1>8, <1>12
    <3>2. sub'[r] = [c \in SubChannel |-> sub'[r][c]]
      BY <1>8, <2>2
    <3>3. /\ sub'[s] = [c \in SubChannel |-> sub'[s][c]]
          /\ \A c \in SubChannel : ChannelOK(sub'[s][c])
      BY <1>3, <1>6, <1>8 DEF WireOK
    <3>4. QED BY <1>9, <3>1, <3>2, <3>3
  <2>6. (\A t \in Side : /\ sub[t] = [c \in SubChannel |-> sub[t][c]]
                         /\ \A c \in SubChannel : ChannelOK(sub[t][c]))'
    BY <2>5 DEF ChannelOK
  <2>7. (\A q \in net : PacketOK(q))'
    BY <1>4, <1>6 DEF WireOK, PacketOK
  <2>8. inSeq' \in [Side -> Nat] /\ outAck' \in [Side -> Nat] /\ outSeq' \in [Side -> Nat]
    BY <1>3, <1>4, <1>6 DEF WireOK, PacketOK
  <2>9. QED BY <1>8, <2>1, <2>4, <2>6, <2>7, <2>8 DEF WireOK
<1>14. NumbersInv'
  <2>1. /\ \A t \in Side : /\ outSeq[t] \in Nat /\ inSeq[t] \in Nat /\ outAck[t] \in Nat
                           /\ inSeq'[t] \in Nat /\ inSeq[t] <= inSeq'[t]
        /\ p.seq \in Nat /\ p.ack \in Nat
    <3>1. p.seq \in Nat /\ p.ack \in Nat
      BY <1>3 DEF PacketOK
    <3>2. \A t \in Side : outSeq[t] \in Nat /\ inSeq[t] \in Nat /\ outAck[t] \in Nat
      BY <1>6 DEF WireOK
    <3>3. inSeq[r] <= p.seq
      BY <1>3, <3>1, <3>2
    <3>4. ASSUME NEW t \in Side PROVE inSeq'[t] \in Nat /\ inSeq[t] <= inSeq'[t]
      <4>1. CASE t = r
        BY <1>8, <3>1, <3>3, <4>1
      <4>2. CASE t = s
        BY <1>8, <3>2, <4>2
      <4>3. QED BY <1>9, <4>1, <4>2
    <3>5. QED BY <3>1, <3>2, <3>4
  <2>2. \A q \in net : q.src \in Side /\ q.seq \in Nat /\ q.ack \in Nat
    BY <1>6 DEF WireOK, PacketOK
  <2>3. ASSUME NEW t \in Side, NEW c \in SubChannel PROVE sub'[t][c].sendSeq < outSeq[t]
    <3>1. sub[t][c].sendSeq < outSeq[t]
      BY <1>6 DEF NumbersInv
    <3>2. sub'[t][c].sendSeq \in {sub[t][c].sendSeq, -1}
      BY <1>8, <1>9, <1>12
    <3>3. QED BY <2>1, <3>1, <3>2
  <2>4. ASSUME NEW t \in Side
        PROVE  inSeq'[Peer(t)] < outSeq[t] /\ outAck'[t] <= inSeq'[Peer(t)]
    <3>1. inSeq[Peer(t)] < outSeq[t] /\ outAck[t] <= inSeq[Peer(t)]
      BY <1>6 DEF NumbersInv
    <3>2. CASE t = r
      BY <1>3, <1>8, <3>1, <3>2
    <3>3. CASE t = s
      BY <1>3, <1>8, <2>1, <3>1, <3>3
    <3>4. QED BY <1>9, <3>2, <3>3
  <2>5. ASSUME NEW q \in net
        PROVE  /\ q.seq < outSeq[q.src] /\ q.ack <= inSeq'[q.src]
               /\ q.seq > inSeq'[Peer(q.src)] => q.ack >= outAck'[Peer(q.src)]
    <3>1. /\ q.seq < outSeq[q.src] /\ q.ack <= inSeq[q.src]
          /\ q.seq > inSeq[Peer(q.src)] => q.ack >= outAck[Peer(q.src)]
      BY <1>6, <2>1, <2>2, PeerFacts DEF NumbersInv, Stale
    <3>2. q.ack <= inSeq'[q.src]
      BY <2>1, <2>2, <3>1
    <3>3. CASE q.src = s
      BY <1>3, <1>8, <3>1, <3>2, <3>3
    <3>4. CASE q.src = r
      BY <1>3, <1>8, <3>1, <3>2, <3>4
    <3>5. QED BY <1>9, <2>2, <3>3, <3>4
  <2>6. \A q1, q2 \in net : q1.src = q2.src => /\ q1.seq = q2.seq => q1 = q2
                                               /\ q1.seq < q2.seq => q1.ack <= q2.ack
    BY <1>6 DEF NumbersInv
  <2>7. net' \subseteq net
    BY <1>4
  <2>8. QED BY <1>4, <2>1, <2>2, <2>3, <2>4, <2>5, <2>6, <2>7, PeerFacts DEF NumbersInv, Stale
<1>15. ASSUME NEW c \in SubChannel PROVE SubchannelInv(r, c)'
  <2>1. FreshData(r, c)' = FreshData(r, c)
    BY <1>11 DEF FreshData
  <2>2. QED BY <1>3, <1>8, <1>12, <2>1 DEF SubchannelInv
<1>16. ASSUME NEW c \in SubChannel PROVE SubchannelInv(s, c)'
  <2>1. Agrees(c, sub[s][c].state, sub[s][c].sendSeq, outState[s][c], inState[r][c],
               FreshData(s, c), FreshFrom(r), inSeq[r])
    BY <1>3, <1>6 DEF SubchannelInv
  <2>2. /\ sub[s][c].state \in States /\ sub[s][c].sendSeq \in Int
        /\ outState[s][c] \in {0, 1} /\ inState[r][c] \in {0, 1} /\ inSeq[r] \in Int
        /\ p.seq \in Int
    BY <1>3, <1>6, WireTyped DEF PacketOK
  <2>3. FreshData(s, c)' \in SUBSET FreshData(s, c)
    BY <1>10 DEF FreshData
  <2>4. CASE in.flip /\ p.chan = c
    <3>1. p \in FreshData(s, c)
      BY <1>3, <2>4 DEF FreshData
    <3>2. \A q \in FreshFrom(r) : /\ q.rel \in [SubChannel -> {0, 1}]
                                  /\ q.ack \in Nat /\ q.ack <= inSeq[r]
      BY <1>6 DEF WireOK, PacketOK, FreshFrom, NumbersInv
    <3>3. Agrees(c, sub[s][c].state, sub[s][c].sendSeq, outState[s][c], 1 - inState[r][c],
                 FreshData(s, c)', FreshFrom(r), p.seq)
      BY <1>3, <2>1, <2>2, <2>3, <3>1, <3>2, AgreesAfterTaken
    <3>4. inState'[r][c] = 1 - inState[r][c]
      BY <1>3, <1>4, <1>6, <2>4 DEF WireOK, Flip
    <3>5. QED BY <1>3, <1>8, <1>11, <3>3, <3>4 DEF SubchannelInv
  <2>5. CASE ~(in.flip /\ p.chan = c)
    <3>1. inState'[r][c] = inState[r][c]
      BY <1>3, <1>4, <1>6, <2>5 DEF WireOK
    <3>2. Agrees(c, sub[s][c].state, sub[s][c].sendSeq, outState[s][c], inState[r][c],
                 FreshData(s, c)', FreshFrom(r), p.seq)
      <4>1. FreshFrom(r) \in SUBSET FreshFrom(r) /\ inSeq[r] <= p.seq
        BY <1>3, <2>2
      <4>2. QED BY <2>1, <2>2, <2>3, <4>1, AgreesShrinks
    <3>3. QED BY <1>3, <1>8, <1>11, <3>1, <3>2 DEF SubchannelInv
  <2>6. QED BY <2>4, <2>5
<1>17. QED BY <1>9, <1>13, <1>14, <1>15, <1>16 DEF IInv, SubchannelsInv

----------------------------------------------------------------------------
(* The theorems.                                                           *)

LEMMA NextInv == IInv /\ [Next]_vars => IInv'
<1> SUFFICES ASSUME IInv, [Next]_vars PROVE IInv'
  OBVIOUS
<1>1. CASE \E s \in Side, m \in Msgs : SendNetMsg(s, m)
  BY <1>1, StutterInv DEF SendNetMsg, wire
<1>2. CASE \E s \in Side, f \in Files : SendFile(s, f)
  BY <1>2, StutterInv DEF SendFile, wire
<1>3. CASE \E s \in Side, m \in ResetMsgs : Reconnect(s, m)
  BY <1>3, ReconnectInv
<1>4. CASE \E s \in Side : SetChoked(s)
  BY <1>4, SetChokedInv
<1>5. CASE \E s \in Side : SendDatagram(s)
  BY <1>5, SendDatagramInv
<1>6. CASE \E p \in net : ProcessPacket(p)
  BY <1>6, LoseInv, ProcessInv DEF ProcessPacket
<1>7. CASE \E p \in net : Lose(p)
  BY <1>7, LoseInv
<1>8. CASE UNCHANGED vars
  BY <1>8, StutterInv DEF vars, wire
<1>9. QED BY <1>1, <1>2, <1>3, <1>4, <1>5, <1>6, <1>7, <1>8 DEF Next

\* In every behaviour the datagrams in flight agree with the subchannels.
THEOREM SubchannelsAgree == Spec => []SubchannelsInv
<1>1. IInv => SubchannelsInv
  BY DEF IInv
<1>2. QED BY <1>1, InitInv, NextInv, PTL DEF Spec

\* The two ends never lose track of a subchannel.
THEOREM SubchannelsInSync == Spec => []SubchannelSync
<1>1. IInv => SubchannelSync
  <2> SUFFICES ASSUME IInv, NEW s \in Side, NEW c \in SubChannel
               PROVE  LET same == outState[s][c] = inState[Peer(s)][c]
                      IN /\ sub[s][c].state = "FREE" => same
                         /\ sub[s][c].state = "TOSEND" => ~same
                         /\ sub[s][c].state \in {"WAITING", "DIRTY"} /\ same
                              => sub[s][c].sendSeq <= inSeq[Peer(s)]
    BY DEF SubchannelSync
  <2>1. SubchannelInv(s, c)
    BY DEF IInv, SubchannelsInv
  <2>2. QED BY <2>1 DEF SubchannelInv, Agrees
<1>2. QED BY <1>1, InitInv, NextInv, PTL DEF Spec

\* The assertion of net_chan.cpp:2325 never fails on a datagram that is
\* accepted, and none acknowledges what was not sent.
THEOREM HeaderAlwaysValid == Spec => []HeaderNeverInvalid
<1>1. IInv => HeaderNeverInvalid
  <2> SUFFICES ASSUME IInv, NEW p \in net, ~Stale(Peer(p.src), p)
               PROVE  HeaderValid(Peer(p.src), p) /\ p.ack < outSeq[Peer(p.src)]
    BY DEF HeaderNeverInvalid
  <2>1. p.src \in Side /\ p.ack \in Nat /\ p.ack <= inSeq[p.src]
    BY FreshFacts DEF PacketOK
  <2>2. inSeq[p.src] < outSeq[Peer(p.src)] /\ inSeq[p.src] \in Nat /\ outSeq[Peer(p.src)] \in Nat
    BY <2>1, PeerFacts DEF IInv, SubchannelsInv, NumbersInv, WireOK
  <2>3. p.ack < outSeq[Peer(p.src)]
    BY <2>1, <2>2
  <2>4. QED BY <2>3, NeverInvalid
<1>2. QED BY <1>1, InitInv, NextInv, PTL DEF Spec

\* Acknowledgements are never taken back.
THEOREM AcksNeverShrink == Spec => AcksOnlyGrow
<1> DEFINE A == \A s \in Side : inSeq'[s] >= inSeq[s] /\ outAck'[s] >= outAck[s]
<1>1. IInv /\ [Next]_vars => [A]_vars
  <2> SUFFICES ASSUME IInv, Next PROVE A
    BY DEF vars
  <2>1. \A s \in Side : inSeq[s] \in Nat /\ outAck[s] \in Nat
    BY DEF IInv, WireOK
  <2>2. CASE UNCHANGED <<inSeq, outAck>>
    BY <2>1, <2>2
  <2>3. ASSUME NEW p \in net, Process(p) PROVE A
    <3>1. ~Stale(Peer(p.src), p) /\ HeaderValid(Peer(p.src), p)
      BY <2>3, NeverInvalid DEF Process
    <3>2. /\ inSeq' = [inSeq EXCEPT ![Peer(p.src)] = p.seq]
          /\ outAck' = [outAck EXCEPT ![Peer(p.src)] = p.ack]
      BY <2>3, <3>1 DEF Process
    <3>3. /\ p.seq > inSeq[Peer(p.src)] /\ p.ack >= outAck[Peer(p.src)]
          /\ p.seq \in Nat /\ p.ack \in Nat
      BY <3>1, FreshFacts DEF PacketOK
    <3>4. inSeq \in [Side -> Nat] /\ outAck \in [Side -> Nat]
      BY DEF IInv, WireOK
    <3>5. QED BY <2>1, <3>2, <3>3, <3>4
  <2>4. QED BY <2>2, <2>3 DEF Next, SendNetMsg, SendFile, Reconnect, SetChoked,
                             SendDatagram, ProcessPacket, Ignore, Lose
<1>2. QED BY <1>1, InitInv, NextInv, PTL DEF Spec, AcksOnlyGrow

----------------------------------------------------------------------------
(* The fragments under way.                                                *)


\* the subchannels that hold fragments of the waiting lists
BusyOf(channels) == {c \in SubChannel : channels[c].state \in {"TOSEND", "WAITING"}}

Apart(x, y, j) ==
    x.num[j] > 0 /\ y.num[j] > 0 =>
        \/ x.start[j] + x.num[j] <= y.start[j]
        \/ y.start[j] + y.num[j] <= x.start[j]

\* A waiting list agrees with the subchannels: as FragmentAccounting and
\* FragmentsDisjoint say of it, and every group under way lies below the next
\* fragment to be sent, so that the next group is apart from all of them.
Counted(channels, list, j) ==
    /\ list = <<>> => \A c \in BusyOf(channels) : channels[c].num[j] = 0
    /\ list # <<>> =>
         /\ list[1].pending = Carried(channels, BusyOf(channels), j)
         /\ NextFragment(list[1]) <= list[1].num
         /\ \A c \in BusyOf(channels) : channels[c].num[j] > 0 =>
              /\ channels[c].start[j] \in Nat
              /\ channels[c].start[j] + channels[c].num[j] <= NextFragment(list[1])
    /\ \A i \in 2 .. Len(list) : list[i].acked = 0 /\ list[i].pending = 0
    /\ \A c, d \in BusyOf(channels) : c # d => Apart(channels[c], channels[d], j)

CountersInv == \A s \in Side, j \in Stream : Counted(sub[s], waiting[s][j], j)

\* The header of a block tells a size, so that the first fragment of a buffer
\* exists when it is complete.
HeadersInv ==
    /\ \A p \in net, j \in Stream :
         p.frags[j].num > 0 /\ p.frags[j].start = 0 => p.frags[j].total > 0
    /\ \A s \in Side, j \in Stream : recv[s][j].alloc => recv[s][j].num > 0

FInv == IInv /\ TypeOK /\ CountersInv /\ HeadersInv

Channels == [SubChannel -> ChannelType]

----------------------------------------------------------------------------
(* Carried.                                                                *)

Cells(channels, C, j) == UNION {{c} \X (1 .. channels[c].num[j]) : c \in C}

LEMMA ChannelFields ==
    ASSUME NEW channels \in Channels, NEW c \in SubChannel, NEW j \in Stream
    PROVE  /\ channels[c].num[j] \in Nat /\ channels[c].start[j] \in Nat \cup {-1}
           /\ channels[c].state \in States /\ channels[c].sendSeq \in Nat \cup {-1}
           /\ channels[c].num \in [Stream -> Nat]
           /\ channels[c].start \in [Stream -> Nat \cup {-1}]
BY DEF Channels, ChannelType, States

LEMMA SubChannelFinite == IsFiniteSet(SubChannel)
BY FS_Interval, ConstantsAssumption DEF SubChannel

LEMMA CarriedCells ==
    ASSUME NEW channels, NEW C, NEW j
    PROVE  Carried(channels, C, j) = Cardinality(Cells(channels, C, j))
BY DEF Carried, Cells

LEMMA RowSize ==
    ASSUME NEW c, NEW n \in Nat
    PROVE  IsFiniteSet({c} \X (1 .. n)) /\ Cardinality({c} \X (1 .. n)) = n
<1>1. IsFiniteSet({c}) /\ Cardinality({c}) = 1
  BY FS_Singleton
<1>2. IsFiniteSet(1 .. n) /\ Cardinality(1 .. n) = n
  BY FS_Interval
<1>3. /\ IsFiniteSet({c} \X (1 .. n))
      /\ Cardinality({c} \X (1 .. n)) = Cardinality({c}) * Cardinality(1 .. n)
  BY <1>1, <1>2, FS_Product
<1>4. QED BY <1>1, <1>2, <1>3

LEMMA CarriedFinite ==
    ASSUME NEW channels \in Channels, NEW C \in SUBSET SubChannel, NEW j \in Stream
    PROVE  IsFiniteSet(Cells(channels, C, j)) /\ Carried(channels, C, j) \in Nat
<1> DEFINE cell(c) == {c} \X (1 .. channels[c].num[j])
           cells == {cell(c) : c \in C}
           f == [c \in C |-> cell(c)]
<1>1. IsFiniteSet(C)
  BY SubChannelFinite, FS_Subset
<1>2. f \in Surjection(C, cells)
  BY DEF Surjection
<1>3. IsFiniteSet(cells)
  BY <1>1, <1>2, FS_Surjection
<1>4. ASSUME NEW x \in cells PROVE IsFiniteSet(x)
  <2>1. PICK c \in C : x = cell(c)
    OBVIOUS
  <2>2. channels[c].num[j] \in Nat
    BY ChannelFields
  <2>3. QED BY <2>1, <2>2, RowSize
<1>5. IsFiniteSet(Cells(channels, C, j))
  BY <1>3, <1>4, FS_UNION DEF Cells
<1>6. QED BY <1>5, FS_CardinalityType, CarriedCells

LEMMA CarriedNone ==
    ASSUME NEW channels \in Channels, NEW C \in SUBSET SubChannel, NEW j \in Stream
    PROVE  Carried(channels, C, j) = 0 <=> \A c \in C : channels[c].num[j] = 0
<1>1. Carried(channels, C, j) = 0 <=> Cells(channels, C, j) = {}
  BY CarriedFinite, FS_EmptySet, CarriedCells
<1>2. ASSUME NEW c \in C, channels[c].num[j] # 0 PROVE <<c, 1>> \in Cells(channels, C, j)
  <2>1. channels[c].num[j] \in Nat /\ 1 \in 1 .. channels[c].num[j]
    BY <1>2, ChannelFields
  <2>2. QED BY <2>1 DEF Cells
<1>3. ASSUME \A c \in C : channels[c].num[j] = 0 PROVE Cells(channels, C, j) = {}
  <2>1. \A c \in C : 1 .. channels[c].num[j] = {}
    BY <1>3
  <2>2. QED BY <2>1 DEF Cells
<1>4. QED BY <1>1, <1>2, <1>3

LEMMA ApartSizes ==
    ASSUME NEW S, NEW T, IsFiniteSet(S), IsFiniteSet(T), S \cap T = {}
    PROVE  /\ Cardinality(S \cup T) = Cardinality(S) + Cardinality(T)
           /\ Cardinality(S) \in Nat /\ Cardinality(T) \in Nat
<1>1. Cardinality(S) \in Nat /\ Cardinality(T) \in Nat
  BY FS_CardinalityType
<1>2. Cardinality(S \cap T) = 0
  BY FS_EmptySet
<1>3. Cardinality(S \cup T) = Cardinality(S) + Cardinality(T) - Cardinality(S \cap T)
  BY FS_Union
<1>4. QED BY <1>1, <1>2, <1>3

LEMMA CarriedUnion ==
    ASSUME NEW channels \in Channels, NEW C \in SUBSET SubChannel,
           NEW D \in SUBSET SubChannel, C \cap D = {}, NEW j \in Stream
    PROVE  Carried(channels, C \cup D, j) = Carried(channels, C, j) + Carried(channels, D, j)
<1>1. Cells(channels, C \cup D, j) = Cells(channels, C, j) \cup Cells(channels, D, j)
  BY DEF Cells
<1>2. Cells(channels, C, j) \cap Cells(channels, D, j) = {}
  BY DEF Cells
<1>3. IsFiniteSet(Cells(channels, C, j)) /\ IsFiniteSet(Cells(channels, D, j))
  BY CarriedFinite
<1>4. Cardinality(Cells(channels, C, j) \cup Cells(channels, D, j)) =
        Cardinality(Cells(channels, C, j)) + Cardinality(Cells(channels, D, j))
  BY <1>2, <1>3, ApartSizes
<1>5. QED BY <1>1, <1>4, CarriedCells

LEMMA CarriedOne ==
    ASSUME NEW channels \in Channels, NEW c \in SubChannel, NEW j \in Stream
    PROVE  Carried(channels, {c}, j) = channels[c].num[j]
<1>1. channels[c].num[j] \in Nat
  BY ChannelFields
<1>2. Cells(channels, {c}, j) = {c} \X (1 .. channels[c].num[j])
  BY DEF Cells
<1>3. QED BY <1>1, <1>2, RowSize, CarriedCells

\* Only the numbers of fragments of the subchannels of C matter.
LEMMA CarriedSame ==
    ASSUME NEW channels, NEW channels2, NEW C, NEW j,
           \A c \in C : channels2[c].num[j] = channels[c].num[j]
    PROVE  Carried(channels2, C, j) = Carried(channels, C, j)
<1>1. {{c} \X (1 .. channels2[c].num[j]) : c \in C} = {{c} \X (1 .. channels[c].num[j]) : c \in C}
  OBVIOUS
<1>2. QED BY <1>1 DEF Carried

----------------------------------------------------------------------------
(* One waiting list.                                                       *)

\* The busy subchannels and their fragments are all that is looked at.
LEMMA CountedSame ==
    ASSUME NEW channels, NEW channels2, NEW list, NEW j,
           BusyOf(channels2) = BusyOf(channels),
           \A c \in BusyOf(channels) : /\ channels2[c].num = channels[c].num
                                       /\ channels2[c].start = channels[c].start,
           Counted(channels, list, j)
    PROVE  Counted(channels2, list, j)
<1>1. Carried(channels2, BusyOf(channels), j) = Carried(channels, BusyOf(channels), j)
  BY CarriedSame
<1>2. QED BY <1>1 DEF Counted, Apart

\* Clear() leaves no subchannel busy.
LEMMA CountedCleared ==
    ASSUME NEW channels, NEW j
    PROVE  Counted(ClearedChannels(channels), <<>>, j)
<1>1. BusyOf(ClearedChannels(channels)) = {}
  <2> SUFFICES ASSUME NEW c \in SubChannel
               PROVE  ClearedChannels(channels)[c].state \notin {"TOSEND", "WAITING"}
    BY DEF BusyOf
  <2>1. CASE channels[c].state = "TOSEND"
    BY <2>1 DEF ClearedChannels, FreeSubChannel
  <2>2. CASE channels[c].state = "WAITING"
    BY <2>2 DEF ClearedChannels
  <2>3. CASE channels[c].state \notin {"TOSEND", "WAITING"}
    BY <2>3 DEF ClearedChannels
  <2>4. QED BY <2>1, <2>2, <2>3
<1>2. QED BY <1>1 DEF Counted

\* What BlockType says of the counters.
LEMMA BlockFields ==
    ASSUME NEW list \in Seq(BlockType), NEW i \in 1 .. Len(list)
    PROVE  /\ list[i] \in BlockType
           /\ list[i].acked \in Nat /\ list[i].pending \in Int /\ list[i].num \in Nat
           /\ list[i].bytes \in 0 .. NET_MAX_PAYLOAD /\ list[i].items \in Seq(Item)
           /\ NextFragment(list[i]) \in Int
           /\ NextFragment(list[i]) = list[i].acked + list[i].pending
<1>1. list[i] \in BlockType
  OBVIOUS
<1>2. ASSUME NEW block \in BlockType
      PROVE  /\ block.acked \in Nat /\ block.pending \in Int /\ block.num \in Nat
             /\ block.bytes \in 0 .. NET_MAX_PAYLOAD /\ block.items \in Seq(Item)
  BY DEF BlockType
<1>3. NextFragment(list[i]) = list[i].acked + list[i].pending
  BY DEF NextFragment
<1>4. NextFragment(list[i]) \in Int
  BY <1>1, <1>2, <1>3
<1>5. QED BY <1>1, <1>2, <1>3, <1>4

\* A block joins the list.
LEMMA CountedAppend ==
    ASSUME NEW channels \in Channels, NEW list \in Seq(BlockType), NEW block \in BlockType,
           NEW j \in Stream, block.acked = 0, block.pending = 0,
           Counted(channels, list, j)
    PROVE  Counted(channels, Append(list, block), j)
<1> DEFINE more == Append(list, block)
           B == BusyOf(channels)
<1>1. /\ more # <<>> /\ Len(more) = Len(list) + 1 /\ more[Len(more)] = block
      /\ \A i \in 1 .. Len(list) : more[i] = list[i]
  OBVIOUS
<1>2. \A i \in 2 .. Len(more) : more[i].acked = 0 /\ more[i].pending = 0
  BY <1>1 DEF Counted
<1>3. CASE list = <<>>
  <2>1. more[1] = block /\ NextFragment(block) = 0 /\ block.num \in Nat
    BY <1>1, <1>3 DEF NextFragment, BlockType
  <2>2. \A c \in B : channels[c].num[j] = 0
    BY <1>3 DEF Counted
  <2>3. Carried(channels, B, j) = 0
    BY <2>2, CarriedNone DEF BusyOf
  <2>4. QED BY <1>1, <1>2, <2>1, <2>2, <2>3 DEF Counted
<1>4. CASE list # <<>>
  <2>1. more[1] = list[1]
    BY <1>1, <1>4
  <2>2. QED BY <1>1, <1>2, <1>4, <2>1 DEF Counted
<1>5. QED BY <1>3, <1>4

\* Another list of the same length with the same counters is as good.
LEMMA CountedAlike ==
    ASSUME NEW channels, NEW list \in Seq(BlockType), NEW list2 \in Seq(BlockType),
           NEW j, Len(list2) = Len(list),
           \A i \in 1 .. Len(list) : /\ list2[i].acked = list[i].acked
                                     /\ list2[i].pending = list[i].pending,
           list # <<>> => NextFragment(list[1]) <= list2[1].num,
           Counted(channels, list, j)
    PROVE  Counted(channels, list2, j)
<1>1. list = <<>> <=> list2 = <<>>
  OBVIOUS
<1>2. list # <<>> => /\ 1 \in 1 .. Len(list)
                     /\ NextFragment(list2[1]) = NextFragment(list[1])
  BY DEF NextFragment
<1>3. \A i \in 2 .. Len(list2) : list2[i].acked = 0 /\ list2[i].pending = 0
  BY DEF Counted
<1>4. QED BY <1>1, <1>2, <1>3 DEF Counted

\* A free subchannel takes the next fragments of the head, or none of it.
LEMMA CountedFill ==
    ASSUME NEW channels \in Channels, NEW channels2 \in Channels, NEW c \in SubChannel,
           channels[c].state = "FREE", channels2[c].state = "TOSEND",
           \A d \in SubChannel \ {c} : channels2[d] = channels[d],
           NEW list \in Seq(BlockType), NEW list2 \in Seq(BlockType), NEW j \in Stream,
           Len(list2) = Len(list),
           \A i \in 2 .. Len(list) : list2[i] = list[i],
           list # <<>> => /\ list2[1].acked = list[1].acked
                          /\ list2[1].pending = list[1].pending + channels2[c].num[j]
                          /\ list2[1].num = list[1].num,
           channels2[c].num[j] > 0 =>
                /\ list # <<>>
                /\ channels2[c].start[j] = NextFragment(list[1])
                /\ channels2[c].num[j] <= list[1].num - NextFragment(list[1]),
           Counted(channels, list, j)
    PROVE  Counted(channels2, list2, j)
<1> DEFINE n == channels2[c].num[j]
           B == BusyOf(channels)
           B2 == BusyOf(channels2)
<1>1. /\ c \notin B /\ B2 = B \cup {c} /\ B \in SUBSET SubChannel
      /\ \A d \in B : channels2[d] = channels[d]
  BY DEF BusyOf
<1>2. n \in Nat /\ Carried(channels, B, j) \in Nat
  BY <1>1, CarriedFinite, ChannelFields
<1>3. Carried(channels2, B2, j) = Carried(channels, B, j) + n
  <2>1. Carried(channels2, B \cup {c}, j) = Carried(channels2, B, j) + Carried(channels2, {c}, j)
    <3>1. {c} \in SUBSET SubChannel /\ B \cap {c} = {}
      BY <1>1
    <3>2. QED BY <1>1, <3>1, CarriedUnion
  <2>2. Carried(channels2, {c}, j) = n
    BY CarriedOne
  <2>3. Carried(channels2, B, j) = Carried(channels, B, j)
    <3>1. \A d \in B : channels2[d].num[j] = channels[d].num[j]
      BY <1>1
    <3>2. QED BY <3>1, CarriedSame
  <2>4. QED BY <1>1, <2>1, <2>2, <2>3
<1>4. list = <<>> <=> list2 = <<>>
  OBVIOUS
<1>5. \A i \in 2 .. Len(list2) : list2[i].acked = 0 /\ list2[i].pending = 0
  BY DEF Counted
<1>6. CASE list = <<>>
  <2>1. n = 0
    BY <1>2, <1>6
  <2>2. \A d \in B2 : channels2[d].num[j] = 0
    BY <1>1, <1>6, <2>1 DEF Counted
  <2>3. \A d, e \in B2 : d # e => Apart(channels2[d], channels2[e], j)
    BY <2>2 DEF Apart
  <2> HIDE DEF B2
  <2>4. QED BY <1>4, <1>5, <1>6, <2>2, <2>3 DEF Counted, B2
<1>7. CASE list # <<>>
  <2> DEFINE next == NextFragment(list[1])
  <2>1. /\ list[1].acked \in Nat /\ list[1].pending \in Int /\ list[1].num \in Nat
        /\ next \in Int /\ next = list[1].acked + list[1].pending
    BY <1>7, BlockFields
  <2>2. /\ NextFragment(list2[1]) = next + n
        /\ list2[1].num = list[1].num
    BY <1>2, <1>7, <2>1 DEF NextFragment
  <2>3. /\ list[1].pending = Carried(channels, B, j) /\ next <= list[1].num
        /\ \A d \in B : channels[d].num[j] > 0 =>
             /\ channels[d].start[j] \in Nat
             /\ channels[d].start[j] + channels[d].num[j] <= next
    BY <1>7 DEF Counted
  <2>4. next \in Nat
    BY <1>2, <2>1, <2>3
  <2>5. n > 0 => channels2[c].start[j] = next /\ n <= list[1].num - next
    OBVIOUS
  <2> HIDE DEF next, n
  <2>6. NextFragment(list2[1]) <= list2[1].num
    BY <1>2, <2>1, <2>2, <2>3, <2>4, <2>5
  <2>7. list2[1].pending = Carried(channels2, B2, j)
    BY <1>3, <1>7, <2>3 DEF n
  <2>8. \A d \in B : channels2[d].num[j] \in Nat /\ channels2[d].start[j] \in Int
    <3>1. \A d \in SubChannel : channels2[d].num[j] \in Nat /\ channels2[d].start[j] \in Nat \cup {-1}
      BY ChannelFields
    <3>2. QED BY <1>1, <3>1
  <2>9. ASSUME NEW d \in B2, channels2[d].num[j] > 0
        PROVE  /\ channels2[d].start[j] \in Nat
               /\ channels2[d].start[j] + channels2[d].num[j] <= next + n
    <3>1. CASE d = c
      BY <1>2, <2>4, <2>5, <2>9, <3>1 DEF n
    <3>2. CASE d # c
      <4>1. /\ channels2[d].start[j] \in Nat
            /\ channels2[d].start[j] + channels2[d].num[j] <= next
        BY <1>1, <2>3, <2>9, <3>2
      <4>2. channels2[d].num[j] \in Nat
        BY <1>1, <2>8, <3>2
      <4>3. QED BY <1>2, <2>4, <4>1, <4>2
    <3>3. QED BY <3>1, <3>2
  <2>10. \A d \in B : channels2[d].num[j] > 0 /\ n > 0 =>
            channels2[d].start[j] + channels2[d].num[j] <= channels2[c].start[j]
    BY <1>1, <2>3, <2>5
  <2>11. \A d, e \in B2 : d # e => Apart(channels2[d], channels2[e], j)
    <3>1. \A d, e \in B : d # e => Apart(channels2[d], channels2[e], j)
      BY <1>1 DEF Counted
    <3>2. \A d \in B : Apart(channels2[d], channels2[c], j) /\ Apart(channels2[c], channels2[d], j)
      BY <2>10 DEF Apart, n
    <3>3. QED BY <1>1, <3>1, <3>2
  <2> HIDE DEF B2
  <2>12. QED BY <1>4, <1>5, <1>7, <2>2, <2>6, <2>7, <2>9, <2>11 DEF Counted, B2
<1>8. QED BY <1>6, <1>7

LEMMA AcknowledgedBlock ==
    ASSUME NEW block \in BlockType, NEW n \in Nat
    PROVE  LET after == Acknowledged(block, n)
           IN /\ after \in BlockType /\ after.num = block.num
              /\ after.acked = block.acked + n /\ after.pending = block.pending - n
<1>1. block.acked + n \in Nat /\ block.pending - n \in Int
  BY DEF BlockType
<1>2. QED BY <1>1 DEF BlockType, Acknowledged

\* Some of the subchannels under way are confirmed.
LEMMA CountedAck ==
    ASSUME NEW channels \in Channels, NEW channels2 \in Channels,
           NEW C \in SUBSET BusyOf(channels), BusyOf(channels2) = BusyOf(channels) \ C,
           \A c \in BusyOf(channels2) : /\ channels2[c].num = channels[c].num
                                        /\ channels2[c].start = channels[c].start,
           NEW list \in Seq(BlockType), NEW j \in Stream,
           Counted(channels, list, j)
    PROVE  LET n == Carried(channels, C, j)
               list2 == IF n = 0 THEN list
                        ELSE [list EXCEPT ![1] = Acknowledged(@, n)]
           IN list2 \in Seq(BlockType) /\ Counted(channels2, list2, j)
<1> DEFINE n == Carried(channels, C, j)
           B == BusyOf(channels)
           B2 == BusyOf(channels2)
           head == Acknowledged(list[1], n)
           list2 == [list EXCEPT ![1] = head]
<1>1. B \in SUBSET SubChannel /\ B2 \in SUBSET B /\ C \in SUBSET SubChannel
      /\ B2 \cup C = B /\ B2 \cap C = {}
  BY DEF BusyOf
<1>2. n \in Nat /\ Carried(channels, B2, j) \in Nat
  BY <1>1, CarriedFinite
<1>3. Carried(channels, B, j) = Carried(channels2, B2, j) + n
      /\ Carried(channels2, B2, j) \in Nat
  <2>1. Carried(channels, B, j) = Carried(channels, B2, j) + n
    <3>1. Carried(channels, B2 \cup C, j) = Carried(channels, B2, j) + Carried(channels, C, j)
      BY <1>1, CarriedUnion
    <3>2. QED BY <1>1, <3>1
  <2>2. Carried(channels2, B2, j) = Carried(channels, B2, j)
    BY CarriedSame
  <2>3. QED BY <1>2, <2>1, <2>2
<1>4. /\ \A c, d \in B2 : c # d => Apart(channels2[c], channels2[d], j)
      /\ list = <<>> => \A c \in B2 : channels2[c].num[j] = 0
  BY <1>1 DEF Counted, Apart
<1> HIDE DEF n
<1>5. ASSUME n = 0 PROVE Counted(channels2, list, j)
  <2>1. Carried(channels, B, j) = Carried(channels2, B2, j)
    BY <1>2, <1>3, <1>5
  <2> HIDE DEF B2
  <2>2. QED BY <1>1, <1>4, <2>1 DEF Counted, B2
<1>6. ASSUME n # 0 PROVE list2 \in Seq(BlockType) /\ Counted(channels2, list2, j)
  <2>1. list # <<>>
    <3>1. ~(\A c \in C : channels[c].num[j] = 0)
      BY <1>1, <1>6, CarriedNone DEF n
    <3>2. QED BY <1>1, <3>1 DEF Counted
  <2>2. 1 \in 1 .. Len(list)
    BY <2>1
  <2>3. /\ list[1] \in BlockType /\ list[1].acked \in Nat /\ list[1].pending \in Int
        /\ list[1].num \in Nat
    BY <2>2, BlockFields
  <2>4. /\ head \in BlockType /\ head.acked = list[1].acked + n
        /\ head.pending = list[1].pending - n /\ head.num = list[1].num
    BY <1>2, <2>3, AcknowledgedBlock
  <2> HIDE DEF head
  <2>5. NextFragment(head) = NextFragment(list[1])
    BY <1>2, <2>3, <2>4 DEF NextFragment
  <2>6. /\ list2 # <<>> /\ Len(list2) = Len(list) /\ list2[1] = head
        /\ \A i \in 2 .. Len(list) : list2[i] = list[i]
        /\ list2 \in Seq(BlockType)
    BY <2>2, <2>4
  <2> HIDE DEF list2, B2
  <2>7. list2[1].pending = Carried(channels2, B2, j)
    BY <1>2, <1>3, <2>1, <2>3, <2>4, <2>6 DEF Counted
  <2>8. \A c \in B2 : channels2[c].num[j] > 0 =>
          /\ channels2[c].start[j] \in Nat
          /\ channels2[c].start[j] + channels2[c].num[j] <= NextFragment(list2[1])
    BY <1>1, <2>1, <2>5, <2>6 DEF Counted, B2
  <2>9. NextFragment(list2[1]) <= list2[1].num
    BY <2>1, <2>4, <2>5, <2>6 DEF Counted
  <2>10. \A i \in 2 .. Len(list2) : list2[i].acked = 0 /\ list2[i].pending = 0
    BY <2>6 DEF Counted
  <2>11. QED BY <1>4, <2>6, <2>7, <2>8, <2>9, <2>10 DEF Counted, B2
<1>7. QED BY <1>5, <1>6 DEF n

\* A head leaves when all of it is acknowledged: none of it is under way then.
LEMMA CountedTail ==
    ASSUME NEW channels \in Channels, NEW list \in Seq(BlockType), NEW j \in Stream,
           NEW ack, Counted(channels, list, j)
    PROVE  /\ CheckWaitingList(list, ack) \in Seq(BlockType)
           /\ Counted(channels, CheckWaitingList(list, ack), j)
<1> DEFINE B == BusyOf(channels)
<1>1. CASE list # <<>> /\ ack > 0 /\ list[1].acked = list[1].num
  <2>1. /\ CheckWaitingList(list, ack) = Tail(list) /\ Tail(list) \in Seq(BlockType)
        /\ Len(Tail(list)) = Len(list) - 1
        /\ \A i \in 1 .. Len(list) - 1 : Tail(list)[i] = list[i + 1]
    BY <1>1 DEF CheckWaitingList
  <2>2. list[1].acked \in Nat /\ list[1].pending \in Int
    BY <1>1, BlockFields
  <2>3. list[1].pending = Carried(channels, B, j) /\ Carried(channels, B, j) \in Nat
    BY <1>1, CarriedFinite DEF Counted, BusyOf
  <2>4. Carried(channels, B, j) = 0
    BY <1>1, <2>2, <2>3 DEF Counted, NextFragment
  <2>5. \A c \in B : channels[c].num[j] = 0
    BY <2>4, CarriedNone DEF BusyOf
  <2>6. \A i \in 1 .. Len(Tail(list)) : Tail(list)[i].acked = 0 /\ Tail(list)[i].pending = 0
    <3>1. \A i \in 1 .. Len(list) - 1 : i + 1 \in 2 .. Len(list)
      OBVIOUS
    <3>2. QED BY <2>1, <3>1 DEF Counted
  <2>7. Tail(list) # <<>> => /\ NextFragment(Tail(list)[1]) = 0
                             /\ Tail(list)[1].pending = 0
                             /\ Tail(list)[1].num \in Nat
    <3>1. Tail(list) # <<>> => 1 \in 1 .. Len(Tail(list))
      BY <2>1
    <3>2. Tail(list) # <<>> => Tail(list)[1].acked = 0 /\ Tail(list)[1].pending = 0
      BY <2>6, <3>1
    <3>3. Tail(list) # <<>> => Tail(list)[1].num \in Nat
      BY <2>1, <3>1, BlockFields
    <3>4. QED BY <3>2, <3>3 DEF NextFragment
  <2> HIDE DEF B
  <2>8. Counted(channels, Tail(list), j)
    BY <2>4, <2>5, <2>6, <2>7 DEF Counted, B
  <2>9. QED BY <2>1, <2>8
<1>2. CASE ~(list # <<>> /\ ack > 0 /\ list[1].acked = list[1].num)
  BY <1>2 DEF CheckWaitingList
<1>3. QED BY <1>1, <1>2

----------------------------------------------------------------------------
(* Blocks.                                                                 *)

LEMMA FragmentsNat ==
    ASSUME NEW bytes \in Nat
    PROVE  Fragments(bytes) \in Nat
<1>1. FRAGMENT_SIZE \in Nat /\ FRAGMENT_SIZE > 0
  BY ConstantsAssumption
<1>2. bytes + FRAGMENT_SIZE - 1 \in Nat
  BY <1>1
<1>3. (bytes + FRAGMENT_SIZE - 1) \div FRAGMENT_SIZE \in Nat
  BY <1>1, <1>2
<1>4. QED BY <1>3 DEF Fragments

BufferType == [items : Seq(Item), bytes : 0 .. NET_MAX_PAYLOAD]

LEMMA NewBlockFacts ==
    ASSUME NEW items \in Seq(Item), NEW bytes \in 0 .. NET_MAX_PAYLOAD
    PROVE  /\ NewBlock(items, bytes) \in BlockType
           /\ NewBlock(items, bytes).acked = 0 /\ NewBlock(items, bytes).pending = 0
<1>1. Fragments(bytes) \in Nat
  BY FragmentsNat, ConstantsAssumption
<1>2. QED BY <1>1 DEF NewBlock, BlockType

LEMMA JoinedFacts ==
    ASSUME NEW block \in BlockType, NEW buffer \in BufferType,
           block.bytes + buffer.bytes < NET_MAX_PAYLOAD
    PROVE  /\ Joined(block, buffer) \in BlockType
           /\ Joined(block, buffer).acked = 0 /\ Joined(block, buffer).pending = 0
<1> DEFINE items == block.items \o buffer.items
           bytes == block.bytes + buffer.bytes
<1>1. items \in Seq(Item) /\ bytes \in 0 .. NET_MAX_PAYLOAD
  BY ConstantsAssumption DEF BlockType, BufferType
<1>2. block.enc \in {"none", "bzip2", "snappy"}
  BY DEF BlockType
<1>3. /\ NewBlock(items, bytes) \in BlockType
      /\ NewBlock(items, bytes).acked = 0 /\ NewBlock(items, bytes).pending = 0
  BY <1>1, NewBlockFacts
<1> HIDE DEF items, bytes
<1>4. /\ [NewBlock(items, bytes) EXCEPT !.enc = block.enc] \in BlockType
      /\ [NewBlock(items, bytes) EXCEPT !.enc = block.enc].acked = 0
      /\ [NewBlock(items, bytes) EXCEPT !.enc = block.enc].pending = 0
  BY <1>2, <1>3 DEF BlockType
<1>5. QED BY <1>4 DEF Joined, items, bytes

LEMMA CreateFragmentsFacts ==
    ASSUME NEW channels \in Channels, NEW list \in Seq(BlockType),
           NEW buffer \in BufferType, NEW j \in Stream, Counted(channels, list, j)
    PROVE  /\ CreateFragmentsFromBuffer(list, buffer) \in Seq(BlockType)
           /\ Counted(channels, CreateFragmentsFromBuffer(list, buffer), j)
<1> DEFINE n == Len(list)
           block == NewBlock(buffer.items, buffer.bytes)
           last == Joined(list[n], buffer)
           list2 == [list EXCEPT ![n] = last]
           joins == n > 1 /\ list[n].bytes + buffer.bytes < NET_MAX_PAYLOAD
<1>1. CASE joins
  <2>1. CreateFragmentsFromBuffer(list, buffer) = list2
    BY <1>1 DEF CreateFragmentsFromBuffer
  <2>2. n \in 2 .. n /\ n \in 1 .. n /\ list[n] \in BlockType
    BY <1>1
  <2>3. last \in BlockType /\ last.acked = 0 /\ last.pending = 0
    BY <1>1, <2>2, JoinedFacts
  <2>4. list[n].acked = 0 /\ list[n].pending = 0
    BY <2>2 DEF Counted
  <2> HIDE DEF last
  <2>5. /\ list2 \in Seq(BlockType) /\ Len(list2) = n /\ list2[n] = last
        /\ \A i \in 1 .. n : i # n => list2[i] = list[i]
    BY <2>2, <2>3
  <2>6. list # <<>> => NextFragment(list[1]) <= list2[1].num
    <3>1. list2[1] = list[1] /\ list # <<>>
      BY <1>1, <2>5
    <3>2. QED BY <3>1 DEF Counted
  <2>7. \A i \in 1 .. n : list2[i].acked = list[i].acked /\ list2[i].pending = list[i].pending
    BY <2>3, <2>4, <2>5
  <2> HIDE DEF list2
  <2>8. Counted(channels, list2, j)
    BY <2>5, <2>6, <2>7, CountedAlike
  <2>9. QED BY <2>1, <2>5, <2>8
<1>2. CASE ~joins
  <2>1. CreateFragmentsFromBuffer(list, buffer) = Append(list, block)
    BY <1>2 DEF CreateFragmentsFromBuffer
  <2>2. block \in BlockType /\ block.acked = 0 /\ block.pending = 0
    BY NewBlockFacts DEF BufferType
  <2> HIDE DEF block
  <2>3. Append(list, block) \in Seq(BlockType) /\ Counted(channels, Append(list, block), j)
    BY <2>2, CountedAppend
  <2>4. QED BY <2>1, <2>3
<1>3. QED BY <1>1, <1>2

LEMMA CompressedFacts ==
    ASSUME NEW block \in BlockType, NEW j
    PROVE  /\ Compressed(block, j) \in BlockType
           /\ Compressed(block, j).acked = block.acked
           /\ Compressed(block, j).pending = block.pending
<1> DEFINE bytes == Packed[block.bytes]
           num == Fragments(Packed[block.bytes])
           enc == IF j = FRAG_FILE_STREAM THEN "snappy" ELSE "bzip2"
<1>1. bytes \in 0 .. NET_MAX_PAYLOAD
  BY ItemsAssumption DEF BlockType
<1>2. num \in Nat
  BY <1>1, FragmentsNat, ConstantsAssumption
<1>3. enc \in {"none", "bzip2", "snappy"}
  OBVIOUS
<1> HIDE DEF bytes, num, enc
<1>4. /\ [block EXCEPT !.bytes = bytes, !.num = num, !.enc = enc] \in BlockType
      /\ [block EXCEPT !.bytes = bytes, !.num = num, !.enc = enc].acked = block.acked
      /\ [block EXCEPT !.bytes = bytes, !.num = num, !.enc = enc].pending = block.pending
  BY <1>1, <1>2, <1>3 DEF BlockType
<1>5. QED BY <1>4 DEF Compressed, bytes, num, enc

LEMMA CompressFragmentsFacts ==
    ASSUME NEW channels \in Channels, NEW list \in Seq(BlockType),
           NEW s, NEW j \in Stream, Counted(channels, list, j)
    PROVE  /\ CompressFragments(s, j, list) \in Seq(BlockType)
           /\ Counted(channels, CompressFragments(s, j, list), j)
<1> DEFINE head == Compressed(list[1], j)
           list2 == [list EXCEPT ![1] = head]
<1>1. CASE list # <<>> /\ Compressible(s, j, list[1])
  <2>1. CompressFragments(s, j, list) = list2 /\ 1 \in 1 .. Len(list)
    BY <1>1 DEF CompressFragments
  <2>2. /\ list[1] \in BlockType /\ list[1].acked \in Nat /\ list[1].pending \in Int
    BY <2>1, BlockFields
  <2>3. head \in BlockType /\ head.acked = list[1].acked /\ head.pending = list[1].pending
    BY <2>2, CompressedFacts
  <2>4. NextFragment(list[1]) <= head.num
    BY <1>1, <2>2, <2>3 DEF Compressible, NextFragment, BlockType
  <2> HIDE DEF head
  <2>5. /\ list2 \in Seq(BlockType) /\ Len(list2) = Len(list) /\ list2[1] = head
        /\ \A i \in 1 .. Len(list) : i # 1 => list2[i] = list[i]
    BY <2>1, <2>3
  <2>6. \A i \in 1 .. Len(list) : list2[i].acked = list[i].acked /\ list2[i].pending = list[i].pending
    BY <2>3, <2>5
  <2> HIDE DEF list2
  <2>7. Counted(channels, list2, j)
    BY <2>4, <2>5, <2>6, CountedAlike
  <2>8. QED BY <2>1, <2>5, <2>7
<1>2. CASE ~(list # <<>> /\ Compressible(s, j, list[1]))
  BY <1>2 DEF CompressFragments
<1>3. QED BY <1>1, <1>2

----------------------------------------------------------------------------
(* SendDatagram, step by step.                                             *)

\* what the invariant says of one side
SideOK(s) ==
    /\ sub[s] \in Channels
    /\ reliable[s] \in BufferType
    /\ \A j \in Stream : waiting[s][j] \in Seq(BlockType) /\ Counted(sub[s], waiting[s][j], j)

LEMMA SidesOK == ASSUME TypeOK, CountersInv, NEW s \in Side PROVE SideOK(s)
<1>1. sub[s] \in Channels
  BY DEF TypeOK, Channels
<1>2. reliable[s] \in BufferType
  BY DEF TypeOK, BufferType
<1>3. \A j \in Stream : waiting[s][j] \in Seq(BlockType)
  BY DEF TypeOK
<1>4. QED BY <1>1, <1>2, <1>3 DEF SideOK, CountersInv

LEMMA QueuedFacts ==
    ASSUME NEW s, SideOK(s), NEW j \in Stream
    PROVE  Queued(s)[j] \in Seq(BlockType) /\ Counted(sub[s], Queued(s)[j], j)
<1> DEFINE list == IF j = FRAG_NORMAL_STREAM /\ reliable[s].items # <<>>
                   THEN CreateFragmentsFromBuffer(waiting[s][j], reliable[s])
                   ELSE waiting[s][j]
<1>1. Queued(s)[j] = CompressFragments(s, j, list)
  BY DEF Queued
<1>2. list \in Seq(BlockType) /\ Counted(sub[s], list, j)
  BY CreateFragmentsFacts DEF SideOK
<1> HIDE DEF list
<1>3. sub[s] \in Channels
  BY DEF SideOK
<1>4. QED BY <1>1, <1>2, <1>3, CompressFragmentsFacts

\* What fits into a datagram is there, and follows what was sent.
LEMMA TakesFacts ==
    ASSUME NEW channels \in Channels, NEW list \in Seq(BlockType), NEW j \in Stream,
           NEW budget \in Int, Counted(channels, list, j)
    PROVE  /\ Takes(list, budget) \in Nat /\ (budget >= 0 => Takes(list, budget) <= budget)
           /\ Takes(list, budget) > 0 =>
                /\ list # <<>> /\ NextFragment(list[1]) \in Nat
                /\ Takes(list, budget) <= list[1].num - NextFragment(list[1])
<1>1. CASE list = <<>> \/ budget <= 0
  BY <1>1 DEF Takes
<1>2. CASE list # <<>> /\ budget > 0
  <2>1. 1 \in 1 .. Len(list)
    BY <1>2
  <2>2. /\ list[1].num \in Nat /\ list[1].acked \in Nat
        /\ NextFragment(list[1]) = list[1].acked + list[1].pending
    BY <2>1, BlockFields
  <2>3. list[1].pending \in Nat
    BY <1>2, CarriedFinite DEF Counted, BusyOf
  <2>4. NextFragment(list[1]) <= list[1].num /\ NextFragment(list[1]) \in Nat
    BY <1>2, <2>2, <2>3 DEF Counted
  <2>5. Takes(list, budget) = AtMost(budget, list[1].num - NextFragment(list[1]))
    BY <1>2 DEF Takes
  <2>6. QED BY <1>2, <2>2, <2>4, <2>5 DEF AtMost
<1>3. QED BY <1>1, <1>2

LEMMA LoadedFacts ==
    ASSUME NEW s, SideOK(s)
    PROVE  /\ Loaded(Queued(s)) \in [Stream -> Nat]
           /\ \A j \in Stream : Loaded(Queued(s))[j] > 0 =>
                /\ Queued(s)[j] # <<>>
                /\ NextFragment(Queued(s)[j][1]) \in Nat
                /\ Loaded(Queued(s))[j] <= Queued(s)[j][1].num - NextFragment(Queued(s)[j][1])
<1> DEFINE lists == Queued(s)
           normal == Takes(lists[FRAG_NORMAL_STREAM], SendMaxFragments)
           left == SendMaxFragments - normal
           budget == IF FileBackground THEN AtMost(1, left) ELSE left
           file == Takes(lists[FRAG_FILE_STREAM], budget)
<1>1. /\ sub[s] \in Channels
      /\ \A j \in Stream : lists[j] \in Seq(BlockType) /\ Counted(sub[s], lists[j], j)
  BY QueuedFacts DEF SideOK
<1>2. FRAG_NORMAL_STREAM \in Stream /\ FRAG_FILE_STREAM \in Stream
      /\ Stream = {FRAG_NORMAL_STREAM, FRAG_FILE_STREAM}
  BY DEF Stream
<1>3. /\ Loaded(lists) = [j \in Stream |-> IF j = FRAG_NORMAL_STREAM THEN normal ELSE file]
      /\ FRAG_NORMAL_STREAM # FRAG_FILE_STREAM
  BY DEF Loaded, FRAG_NORMAL_STREAM, FRAG_FILE_STREAM
<1> HIDE DEF lists
<1>4. SendMaxFragments \in Int
  BY ConstantsAssumption
<1>5. /\ normal \in Nat
      /\ normal > 0 =>
           /\ lists[FRAG_NORMAL_STREAM] # <<>>
           /\ NextFragment(lists[FRAG_NORMAL_STREAM][1]) \in Nat
           /\ normal <= lists[FRAG_NORMAL_STREAM][1].num
                          - NextFragment(lists[FRAG_NORMAL_STREAM][1])
  BY <1>1, <1>2, <1>4, TakesFacts
<1> HIDE DEF normal
<1>6. budget \in Int
  BY <1>4, <1>5 DEF AtMost
<1> HIDE DEF budget
<1>7. /\ file \in Nat
      /\ file > 0 =>
           /\ lists[FRAG_FILE_STREAM] # <<>>
           /\ NextFragment(lists[FRAG_FILE_STREAM][1]) \in Nat
           /\ file <= lists[FRAG_FILE_STREAM][1].num
                        - NextFragment(lists[FRAG_FILE_STREAM][1])
  BY <1>1, <1>2, <1>6, TakesFacts
<1> HIDE DEF file
<1>8. /\ Loaded(lists) \in [Stream -> Nat]
      /\ \A j \in Stream : Loaded(lists)[j] > 0 =>
           /\ lists[j] # <<>> /\ NextFragment(lists[j][1]) \in Nat
           /\ Loaded(lists)[j] <= lists[j][1].num - NextFragment(lists[j][1])
  BY <1>2, <1>3, <1>5, <1>7
<1>9. QED BY <1>8 DEF lists

LEMMA FilledChannelType ==
    ASSUME NEW s, SideOK(s)
    PROVE  /\ FilledChannel(s) \in ChannelType
           /\ FilledChannel(s).state = "TOSEND"
           /\ FilledChannel(s).num = Loaded(Queued(s))
           /\ \A j \in Stream : Loaded(Queued(s))[j] > 0 =>
                FilledChannel(s).start[j] = NextFragment(Queued(s)[j][1])
<1> DEFINE loaded == Loaded(Queued(s))
           start == [j \in Stream |->
                       IF loaded[j] > 0 THEN NextFragment(Queued(s)[j][1]) ELSE -1]
<1>1. FilledChannel(s) = [state |-> "TOSEND", sendSeq |-> 0, num |-> loaded, start |-> start]
  BY DEF FilledChannel
<1>2. loaded \in [Stream -> Nat]
      /\ \A j \in Stream : loaded[j] > 0 => NextFragment(Queued(s)[j][1]) \in Nat
  BY LoadedFacts
<1> HIDE DEF loaded
<1>3. start \in [Stream -> Nat \cup {-1}]
  BY <1>2
<1>4. \A j \in Stream : loaded[j] > 0 => start[j] = NextFragment(Queued(s)[j][1])
  OBVIOUS
<1> HIDE DEF start
<1>5. FilledChannel(s) \in ChannelType
  BY <1>1, <1>2, <1>3 DEF ChannelType
<1>6. FilledChannel(s).num = loaded /\ FilledChannel(s).start = start
      /\ FilledChannel(s).state = "TOSEND"
  BY <1>1
<1>7. QED BY <1>4, <1>5, <1>6 DEF loaded

LEMMA UpdatedFacts ==
    ASSUME NEW s, SideOK(s)
    PROVE  /\ UpdatedChannels(s) \in Channels
           /\ \A j \in Stream : /\ UpdatedLists(s)[j] \in Seq(BlockType)
                                /\ Counted(UpdatedChannels(s), UpdatedLists(s)[j], j)
<1>1. sub[s] \in Channels
  BY DEF SideOK
<1>2. CASE ~Fills(s)
  <2>1. UpdatedChannels(s) = sub[s] /\ \A j \in Stream : UpdatedLists(s)[j] = Queued(s)[j]
    BY <1>2 DEF UpdatedChannels, UpdatedLists
  <2>2. QED BY <1>1, <2>1, QueuedFacts
<1>3. CASE Fills(s)
  <2> DEFINE c == Slot(s)
             x == FilledChannel(s)
             after == UpdatedChannels(s)
  <2>1. c \in SubChannel /\ sub[s][c].state = "FREE"
    BY <1>3, LeastOfMember DEF Fills, Slot, FreeSlots
  <2>2. /\ x \in ChannelType /\ x.state = "TOSEND" /\ x.num = Loaded(Queued(s))
        /\ \A j \in Stream : Loaded(Queued(s))[j] > 0 =>
             x.start[j] = NextFragment(Queued(s)[j][1])
    BY FilledChannelType
  <2>3. after = [sub[s] EXCEPT ![c] = x]
    BY <1>3 DEF UpdatedChannels
  <2> HIDE DEF x, c, after
  <2>4. /\ after \in Channels /\ after[c] = x
        /\ \A d \in SubChannel \ {c} : after[d] = sub[s][d]
    BY <1>1, <2>1, <2>2, <2>3 DEF Channels
  <2>5. ASSUME NEW j \in Stream
        PROVE  UpdatedLists(s)[j] \in Seq(BlockType) /\ Counted(after, UpdatedLists(s)[j], j)
    <3> DEFINE list == Queued(s)[j]
               n == Loaded(Queued(s))[j]
               list2 == UpdatedLists(s)[j]
    <3>1. list2 = IF n > 0 THEN [list EXCEPT ![1].pending = @ + n] ELSE list
      BY <1>3 DEF UpdatedLists
    <3>2. list \in Seq(BlockType) /\ Counted(sub[s], list, j)
      BY QueuedFacts
    <3>3. /\ n \in Nat /\ n = after[c].num[j]
          /\ n > 0 => /\ list # <<>>
                      /\ after[c].start[j] = NextFragment(list[1])
                      /\ n <= list[1].num - NextFragment(list[1])
      BY <2>2, <2>4, LoadedFacts
    <3> HIDE DEF list2, list, n
    <3>4. /\ list2 \in Seq(BlockType) /\ Len(list2) = Len(list)
          /\ \A i \in 2 .. Len(list) : list2[i] = list[i]
          /\ list # <<>> => /\ list2[1].acked = list[1].acked
                            /\ list2[1].pending = list[1].pending + n
                            /\ list2[1].num = list[1].num
      <4>1. CASE n = 0
        <5>1. list # <<>> => list[1].pending \in Int
          BY <3>2, BlockFields
        <5>2. QED BY <3>1, <3>2, <4>1, <5>1
      <4>2. CASE n > 0
        <5> DEFINE head == [list[1] EXCEPT !.pending = @ + n]
        <5>1. 1 \in 1 .. Len(list) /\ list2 = [list EXCEPT ![1] = head]
          BY <3>1, <3>2, <3>3, <4>2
        <5>2. list[1] \in BlockType /\ list[1].pending + n \in Int
          BY <3>2, <3>3, <5>1, BlockFields
        <5>3. /\ head \in BlockType /\ head.acked = list[1].acked
              /\ head.pending = list[1].pending + n /\ head.num = list[1].num
          BY <5>2 DEF BlockType
        <5> HIDE DEF head
        <5>4. QED BY <3>2, <5>1, <5>3
      <4>3. QED BY <3>3, <4>1, <4>2
    <3>5. Counted(after, list2, j)
      BY <1>1, <2>1, <2>2, <2>4, <3>2, <3>3, <3>4, CountedFill
    <3>6. QED BY <3>4, <3>5 DEF list2
  <2>6. QED BY <2>4, <2>5 DEF after
<1>4. QED BY <1>2, <1>3

\* What leaves in a datagram is still counted.
LEMMA SentFacts ==
    ASSUME NEW channels \in Channels, NEW seq \in Nat, NEW list, NEW j \in Stream,
           Counted(channels, list, j)
    PROVE  LET after == SentChannels(channels, NextToSend(channels), seq)
           IN after \in Channels /\ Counted(after, list, j)
<1> DEFINE c == NextToSend(channels)
           x == [state |-> "WAITING", sendSeq |-> seq,
                 start |-> channels[c].start, num |-> channels[c].num]
           after == SentChannels(channels, c, seq)
<1>1. NoChannel \notin SubChannel
  BY ConstantsAssumption DEF NoChannel, SubChannel
<1>2. CASE c = NoChannel
  BY <1>2 DEF SentChannels
<1>3. CASE c # NoChannel
  <2>1. c \in SubChannel /\ channels[c].state = "TOSEND"
    BY <1>3, NextToSendFacts
  <2>2. after = [channels EXCEPT ![c] = x]
    BY <1>3 DEF SentChannels
  <2>3. x \in ChannelType
    BY <2>1, ChannelFields DEF ChannelType
  <2>4. /\ after \in Channels /\ after[c] = x
        /\ \A d \in SubChannel \ {c} : after[d] = channels[d]
    BY <2>1, <2>2, <2>3 DEF Channels
  <2>5. x.state = "WAITING" /\ x.num = channels[c].num /\ x.start = channels[c].start
    OBVIOUS
  <2> HIDE DEF x, after, c
  <2>6. BusyOf(after) = BusyOf(channels)
    BY <2>1, <2>4, <2>5 DEF BusyOf
  <2>7. \A d \in BusyOf(channels) : after[d].num = channels[d].num /\ after[d].start = channels[d].start
    BY <2>4, <2>5 DEF BusyOf
  <2>8. Counted(after, list, j)
    BY <2>6, <2>7, CountedSame
  <2>9. QED BY <2>4, <2>8 DEF after, c
<1>4. QED BY <1>2, <1>3

LEMMA LoadFacts ==
    ASSUME NEW block \in BlockType
    PROVE  Load(block) \in LoadType
BY DEF BlockType, LoadType, Load

LEMMA NoFragmentsType == NoFragments \in GroupType /\ NoFragments.num = 0
<1>1. Unset \in LoadType
  <2>1. <<>> \in Seq(Item)
    OBVIOUS
  <2>2. QED BY <2>1 DEF Unset, LoadType
<1>2. QED BY <1>1 DEF NoFragments, GroupType

\* The fragments of a datagram belong to the head of the list.
LEMMA FragmentGroupFacts ==
    ASSUME NEW channels \in Channels, NEW c \in BusyOf(channels),
           NEW list \in Seq(BlockType), NEW j \in Stream, Counted(channels, list, j)
    PROVE  LET group == FragmentGroup(list[1], channels[c], j)
           IN /\ group \in GroupType
              /\ group.num > 0 /\ group.start = 0 => group.total > 0
<1> DEFINE group == FragmentGroup(list[1], channels[c], j)
           start == channels[c].start[j]
           num == channels[c].num[j]
           total == IF start = 0 THEN list[1].num ELSE 0
<1>1. c \in SubChannel /\ num \in Nat
  BY ChannelFields DEF BusyOf
<1>2. CASE num = 0
  BY <1>2, NoFragmentsType DEF FragmentGroup
<1>3. CASE num # 0
  <2>1. list # <<>>
    BY <1>3 DEF Counted
  <2>2. 1 \in 1 .. Len(list)
    BY <2>1
  <2>3. /\ list[1] \in BlockType /\ list[1].num \in Nat /\ NextFragment(list[1]) \in Int
    BY <2>2, BlockFields
  <2>4. start \in Nat /\ start + num <= NextFragment(list[1])
        /\ NextFragment(list[1]) <= list[1].num
    BY <1>1, <1>3, <2>1 DEF Counted
  <2>5. group = [start |-> start, num |-> num, total |-> total, load |-> Load(list[1])]
    BY <1>3 DEF FragmentGroup
  <2>6. total \in Nat /\ (start = 0 => total > 0)
    BY <1>1, <1>3, <2>3, <2>4
  <2>7. Load(list[1]) \in LoadType
    BY <2>3, LoadFacts
  <2> HIDE DEF group, start, num, total
  <2>8. group \in GroupType
    BY <1>1, <2>4, <2>5, <2>6, <2>7 DEF GroupType
  <2>9. group.start = start /\ group.total = total
    BY <2>5
  <2>10. QED BY <2>6, <2>8, <2>9 DEF group
<1>4. QED BY <1>2, <1>3

LEMMA DatagramFacts ==
    ASSUME NEW s \in Side, SideOK(s), WireOK, choked[s] \in Nat
    PROVE  LET channels == UpdatedChannels(s)
               p == Datagram(s, NextToSend(channels), channels, UpdatedLists(s))
           IN /\ p \in PacketType
              /\ \A j \in Stream :
                   p.frags[j].num > 0 /\ p.frags[j].start = 0 => p.frags[j].total > 0
<1> DEFINE channels == UpdatedChannels(s)
           lists == UpdatedLists(s)
           c == NextToSend(channels)
           frags == [j \in Stream |->
                       IF c = NoChannel THEN NoFragments
                       ELSE FragmentGroup(lists[j][1], channels[c], j)]
           p == Datagram(s, c, channels, lists)
<1>1. p = [src |-> s, seq |-> outSeq[s], ack |-> inSeq[s], rel |-> inState[s],
           choked |-> choked[s], chan |-> c, frags |-> frags]
  BY DEF Datagram
<1>2. outSeq[s] \in Nat /\ inSeq[s] \in Nat /\ inState[s] \in [SubChannel -> {0, 1}]
  BY DEF WireOK
<1>3. c = NoChannel \/ c \in BusyOf(channels)
  BY NextToSendFacts DEF BusyOf
<1>4. c \in SubChannel \cup {NoChannel}
  BY NextToSendFacts
<1>5. /\ channels \in Channels
      /\ \A j \in Stream : lists[j] \in Seq(BlockType) /\ Counted(channels, lists[j], j)
  BY UpdatedFacts
<1>6. ASSUME NEW j \in Stream
      PROVE  /\ frags[j] \in GroupType
             /\ frags[j].num > 0 /\ frags[j].start = 0 => frags[j].total > 0
  <2>1. CASE c = NoChannel
    BY <2>1, NoFragmentsType
  <2>2. CASE c # NoChannel
    <3>1. frags[j] = FragmentGroup(lists[j][1], channels[c], j)
      BY <2>2
    <3> HIDE DEF frags, channels, lists, c
    <3>2. QED BY <1>3, <1>5, <2>2, <3>1, FragmentGroupFacts
  <2>3. QED BY <2>1, <2>2
<1>7. frags = [j \in Stream |-> frags[j]]
  OBVIOUS
<1> HIDE DEF frags, channels, lists, c, p
<1>8. frags \in [Stream -> GroupType]
  BY <1>6, <1>7
<1>9. p \in PacketType
  BY <1>1, <1>2, <1>4, <1>8 DEF PacketType
<1>10. p.frags = frags
  BY <1>1
<1>11. QED BY <1>6, <1>9, <1>10 DEF p, c, channels, lists

----------------------------------------------------------------------------
(* The receive lists.                                                      *)

RecvOK(b) == BufferOK(b) /\ (b.alloc => b.num > 0)

GroupOK(group) ==
    /\ group \in GroupType
    /\ group.num > 0 /\ group.start = 0 => group.total > 0

Handed == Item \cup {Garbage}

LEMMA NoBufferOK == RecvOK(NoBuffer)
<1>1. <<>> \in [0 .. 0 - 1 -> LoadType]
  <2>1. 0 .. 0 - 1 = {} /\ DOMAIN <<>> = {}
    OBVIOUS
  <2>2. <<>> = [k \in {} |-> k]
    OBVIOUS
  <2>3. QED BY <2>1, <2>2
<1>2. QED BY <1>1 DEF NoBuffer, RecvOK, BufferOK

LEMMA UnsetType == Unset \in LoadType
<1>1. <<>> \in Seq(Item)
  OBVIOUS
<1>2. QED BY <1>1 DEF Unset, LoadType

LEMMA WrittenFacts ==
    ASSUME NEW T, NEW target \in [alloc : BOOLEAN, num : Nat, acked : Nat, buf : T],
           NEW n \in Nat, NEW buf \in T
    PROVE  LET written == [target EXCEPT !.acked = @ + n, !.buf = buf]
           IN /\ written \in [alloc : BOOLEAN, num : Nat, acked : Nat, buf : T]
              /\ written.num = target.num /\ written.alloc = target.alloc
<1>1. target.acked + n \in Nat
  OBVIOUS
<1>2. QED BY <1>1

LEMMA ReadFacts ==
    ASSUME NEW buffer, RecvOK(buffer), NEW group, GroupOK(group)
    PROVE  /\ RecvOK(ReadSubChannelData(buffer, group).buffer)
           /\ ReadSubChannelData(buffer, group).ok \in BOOLEAN
<1> DEFINE total == group.total
           fresh == [alloc |-> TRUE, num |-> total, acked |-> 0,
                     buf |-> [k \in 0 .. total - 1 |-> Unset]]
           target == IF group.start = 0 THEN fresh ELSE buffer
           range == group.start .. group.start + group.num - 1
           buf == [k \in DOMAIN target.buf |->
                     IF k \in range THEN group.load ELSE target.buf[k]]
           written == [target EXCEPT !.acked = @ + group.num, !.buf = buf]
<1>1. /\ group.start \in Nat /\ group.num \in Nat /\ total \in Nat /\ group.load \in LoadType
      /\ group.num > 0 /\ group.start = 0 => total > 0
  BY DEF GroupOK, GroupType
<1>2. CASE group.num = 0
  BY <1>2 DEF ReadSubChannelData
<1>3. CASE group.num # 0
  <2>1. group.start = 0 => RecvOK(fresh)
    <3>1. [k \in 0 .. total - 1 |-> Unset] \in [0 .. total - 1 -> LoadType]
      BY UnsetType
    <3>2. ASSUME group.start = 0 PROVE RecvOK(fresh)
      <4>1. /\ fresh.alloc \in BOOLEAN /\ fresh.num = total /\ fresh.acked \in Nat
            /\ fresh.buf = [k \in 0 .. total - 1 |-> Unset]
        OBVIOUS
      <4>2. fresh \in [alloc : BOOLEAN, num : Nat, acked : Nat, buf : [0 .. total - 1 -> LoadType]]
        BY <1>1, <3>1
      <4>3. total > 0
        BY <1>1, <1>3, <3>2
      <4> HIDE DEF fresh
      <4>4. QED BY <4>1, <4>2, <4>3 DEF RecvOK, BufferOK
    <3>3. QED BY <3>2
  <2>2. RecvOK(target)
    BY <2>1
  <2>3. CASE ~target.alloc \/ group.start + group.num > target.num
    BY <1>3, <2>2, <2>3 DEF ReadSubChannelData
  <2>4. CASE ~(~target.alloc \/ group.start + group.num > target.num)
    <3>1. ReadSubChannelData(buffer, group) = [ok |-> TRUE, buffer |-> written]
      BY <1>3, <2>4 DEF ReadSubChannelData
    <3> HIDE DEF target, fresh
    <3>2. /\ target.num \in Nat /\ target.acked \in Nat /\ target.alloc \in BOOLEAN
          /\ target.buf \in [0 .. target.num - 1 -> LoadType]
      BY <2>2 DEF RecvOK, BufferOK
    <3>3. buf \in [0 .. target.num - 1 -> LoadType]
      BY <1>1, <3>2
    <3>4. target.acked + group.num \in Nat
      BY <1>1, <3>2
    <3> HIDE DEF buf
    <3> DEFINE T == [0 .. target.num - 1 -> LoadType]
    <3>5. target \in [alloc : BOOLEAN, num : Nat, acked : Nat, buf : T] /\ buf \in T
      BY <2>2, <3>3 DEF RecvOK, BufferOK
    <3> HIDE DEF T
    <3>6. /\ written \in [alloc : BOOLEAN, num : Nat, acked : Nat, buf : T]
          /\ written.num = target.num /\ written.alloc = target.alloc
      BY <1>1, <3>5, WrittenFacts
    <3> HIDE DEF written
    <3>7. RecvOK(written)
      BY <2>2, <3>6 DEF RecvOK, BufferOK, T
    <3>8. QED BY <3>1, <3>7
  <2>5. QED BY <2>3, <2>4
<1>4. QED BY <1>2, <1>3

LEMMA ContentFacts ==
    ASSUME NEW buffer, RecvOK(buffer), buffer.alloc
    PROVE  Content(buffer) \in Seq(Handed)
<1>1. buffer.buf[0] \in LoadType
  <2>1. buffer.num \in Nat /\ buffer.num > 0 /\ buffer.buf \in [0 .. buffer.num - 1 -> LoadType]
    BY DEF RecvOK, BufferOK
  <2>2. QED BY <2>1
<1>2. buffer.buf[0].items \in Seq(Item)
  BY <1>1 DEF LoadType
<1>3. buffer.buf[0].items \in Seq(Handed)
  BY <1>2 DEF Handed
<1>4. <<Garbage>> \in Seq(Handed)
  BY DEF Handed
<1>5. QED BY <1>3, <1>4 DEF Content

LEMMA LeastOfNaturals ==
    ASSUME NEW S \in SUBSET Nat, S # {}
    PROVE  LeastOf(S) \in S
<1>1. PICK x \in S : \A y \in S : ~(<<y, x>> \in OpToRel(<, Nat))
  BY NatLessThanWellFounded, WFMin
<1>2. ASSUME NEW y \in S PROVE x <= y
  <2>1. ~(y < x)
    BY <1>1 DEF OpToRel
  <2>2. QED BY <2>1
<1>3. QED BY <1>2 DEF LeastOf

LEMMA ProcessMessagesFacts ==
    ASSUME NEW S, NEW items \in Seq(S)
    PROVE  LET result == ProcessMessages(items)
           IN /\ result.handled \in Seq(S)
              /\ result.ok \in BOOLEAN /\ result.cleared \in BOOLEAN
<1> DEFINE stops == {i \in 1 .. Len(items) : items[i] \in ResetMsgs \cup FailMsgs}
           n == IF stops = {} THEN Len(items) ELSE LeastOf(stops)
<1>1. n \in 0 .. Len(items)
  <2>1. stops \in SUBSET (1 .. Len(items)) /\ stops \in SUBSET Nat
    OBVIOUS
  <2> HIDE DEF stops
  <2>2. stops # {} => LeastOf(stops) \in 1 .. Len(items)
    BY <2>1, LeastOfNaturals
  <2>3. Len(items) \in Nat
    OBVIOUS
  <2>4. QED BY <2>2, <2>3
<1>2. SubSeq(items, 1, n) \in Seq(S)
  <2> HIDE DEF n
  <2>1. QED BY <1>1
<1>3. QED BY <1>2 DEF ProcessMessages

\* what CheckReceivingList returns
ListResultOK(result) ==
    /\ RecvOK(result.buffer) /\ result.handled \in Seq(Handed)
    /\ result.ok \in BOOLEAN /\ result.cleared \in BOOLEAN

LEMMA CheckReceivingFacts ==
    ASSUME NEW buffer, RecvOK(buffer), NEW j
    PROVE  ListResultOK(CheckReceivingList(buffer, j))
<1> DEFINE result == ProcessMessages(Content(buffer))
           list == CheckReceivingList(buffer, j)
<1>1. <<>> \in Seq(Handed)
  OBVIOUS
<1>2. buffer.acked \in Nat /\ buffer.num \in Nat
  BY DEF RecvOK, BufferOK
<1>3. CASE ~buffer.alloc \/ buffer.acked < buffer.num
  <2>1. list = [handled |-> <<>>, ok |-> TRUE, cleared |-> FALSE, buffer |-> buffer]
    BY <1>2, <1>3 DEF CheckReceivingList
  <2>2. QED BY <1>1, <2>1 DEF ListResultOK
<1>4. CASE buffer.alloc /\ buffer.acked > buffer.num
  <2>1. list = [handled |-> <<>>, ok |-> FALSE, cleared |-> FALSE, buffer |-> buffer]
    BY <1>2, <1>4 DEF CheckReceivingList
  <2>2. QED BY <1>1, <2>1 DEF ListResultOK
<1>5. CASE buffer.alloc /\ buffer.acked = buffer.num
  <2>1. Content(buffer) \in Seq(Handed)
    BY <1>5, ContentFacts
  <2>2. result.handled \in Seq(Handed) /\ result.ok \in BOOLEAN /\ result.cleared \in BOOLEAN
    BY <2>1, ProcessMessagesFacts
  <2>3. list = IF j = FRAG_FILE_STREAM
               THEN [handled |-> Content(buffer), ok |-> TRUE, cleared |-> FALSE,
                     buffer |-> NoBuffer]
               ELSE [handled |-> result.handled, ok |-> result.ok,
                     cleared |-> result.cleared,
                     buffer |-> IF result.ok THEN NoBuffer ELSE buffer]
    BY <1>2, <1>5 DEF CheckReceivingList
  <2> HIDE DEF result, list
  <2>4. CASE j = FRAG_FILE_STREAM
    BY <2>1, <2>3, <2>4, NoBufferOK DEF ListResultOK, list
  <2>5. CASE j # FRAG_FILE_STREAM
    BY <2>2, <2>3, <2>5, NoBufferOK DEF ListResultOK, list
  <2>6. QED BY <2>4, <2>5
<1>6. QED BY <1>2, <1>3, <1>4, <1>5

LEMMA ResultBuffers ==
    ASSUME NEW in, NEW a, RecvOK(a), NEW b, RecvOK(b), NEW x \in Seq(Handed), NEW y \in Seq(Handed),
           in.recv = [j \in Stream |-> IF j = FRAG_NORMAL_STREAM THEN a ELSE b],
           in.handled = [j \in Stream |-> IF j = FRAG_NORMAL_STREAM THEN x ELSE y]
    PROVE  /\ in.recv = [j \in Stream |-> in.recv[j]]
           /\ \A j \in Stream : RecvOK(in.recv[j]) /\ in.handled[j] \in Seq(Handed)
<1>1. in.recv = [j \in Stream |-> in.recv[j]]
  OBVIOUS
<1>2. ASSUME NEW j \in Stream
      PROVE  (in.recv[j] = a \/ in.recv[j] = b) /\ (in.handled[j] = x \/ in.handled[j] = y)
  OBVIOUS
<1>3. QED BY <1>1, <1>2

LEMMA ReceivedFacts ==
    ASSUME NEW r, NEW p, \A j \in Stream : RecvOK(recv[r][j]) /\ GroupOK(p.frags[j])
    PROVE  LET in == Received(r, p)
           IN /\ in.recv = [j \in Stream |-> in.recv[j]]
              /\ \A j \in Stream : RecvOK(in.recv[j]) /\ in.handled[j] \in Seq(Handed)
<1> DEFINE normal == ReadSubChannelData(recv[r][FRAG_NORMAL_STREAM], p.frags[FRAG_NORMAL_STREAM])
           file == ReadSubChannelData(recv[r][FRAG_FILE_STREAM], p.frags[FRAG_FILE_STREAM])
           first == CheckReceivingList(normal.buffer, FRAG_NORMAL_STREAM)
           second == CheckReceivingList(file.buffer, FRAG_FILE_STREAM)
           Buffers(a, b) == [j \in Stream |-> IF j = FRAG_NORMAL_STREAM THEN a ELSE b]
           Result(a, b, flip, x, y, cleared) ==
               [recv |-> Buffers(a, b), flip |-> flip, handled |-> Buffers(x, y),
                cleared |-> cleared]
           in == Received(r, p)
<1>1. FRAG_NORMAL_STREAM \in Stream /\ FRAG_FILE_STREAM \in Stream
      /\ RecvOK(recv[r][FRAG_NORMAL_STREAM]) /\ RecvOK(recv[r][FRAG_FILE_STREAM])
  BY DEF Stream
<1>2. RecvOK(normal.buffer) /\ RecvOK(file.buffer)
  BY <1>1, ReadFacts
<1>3. in = IF p.chan = NoChannel
           THEN Result(recv[r][FRAG_NORMAL_STREAM], recv[r][FRAG_FILE_STREAM],
                       FALSE, <<>>, <<>>, FALSE)
           ELSE IF ~normal.ok
           THEN Result(normal.buffer, recv[r][FRAG_FILE_STREAM], FALSE, <<>>, <<>>, FALSE)
           ELSE IF ~file.ok
           THEN Result(normal.buffer, file.buffer, FALSE, <<>>, <<>>, FALSE)
           ELSE IF ~first.ok
           THEN Result(first.buffer, file.buffer, TRUE, first.handled, <<>>, first.cleared)
           ELSE Result(first.buffer, second.buffer, TRUE, first.handled, second.handled, FALSE)
  BY DEF Received
<1> HIDE DEF normal, file
<1>4. ListResultOK(first) /\ ListResultOK(second)
  BY <1>2, CheckReceivingFacts
<1>5. <<>> \in Seq(Handed)
  OBVIOUS
<1> HIDE DEF first, second
<1> HIDE DEF in, Buffers
<1>6. CASE p.chan = NoChannel
  <2>1. /\ in.recv = Buffers(recv[r][FRAG_NORMAL_STREAM], recv[r][FRAG_FILE_STREAM])
        /\ in.handled = Buffers(<<>>, <<>>)
    BY <1>3, <1>6
  <2>2. QED BY <1>1, <1>5, <2>1, ResultBuffers DEF in, Buffers
<1>7. CASE p.chan # NoChannel /\ ~normal.ok
  <2>1. /\ in.recv = Buffers(normal.buffer, recv[r][FRAG_FILE_STREAM])
        /\ in.handled = Buffers(<<>>, <<>>)
    BY <1>3, <1>7
  <2>2. QED BY <1>1, <1>2, <1>5, <2>1, ResultBuffers DEF in, Buffers
<1>8. CASE p.chan # NoChannel /\ normal.ok /\ ~file.ok
  <2>1. in.recv = Buffers(normal.buffer, file.buffer) /\ in.handled = Buffers(<<>>, <<>>)
    BY <1>3, <1>8
  <2>2. QED BY <1>2, <1>5, <2>1, ResultBuffers DEF in, Buffers
<1>9. CASE p.chan # NoChannel /\ normal.ok /\ file.ok /\ ~first.ok
  <2>1. /\ in.recv = Buffers(first.buffer, file.buffer)
        /\ in.handled = Buffers(first.handled, <<>>)
    BY <1>3, <1>9
  <2>2. RecvOK(first.buffer) /\ first.handled \in Seq(Handed)
    BY <1>4 DEF ListResultOK
  <2>3. QED BY <1>2, <1>5, <2>1, <2>2, ResultBuffers DEF in, Buffers
<1>10. CASE p.chan # NoChannel /\ normal.ok /\ file.ok /\ first.ok
  <2>1. /\ in.recv = Buffers(first.buffer, second.buffer)
        /\ in.handled = Buffers(first.handled, second.handled)
    BY <1>3, <1>10
  <2>2. /\ RecvOK(first.buffer) /\ first.handled \in Seq(Handed)
        /\ RecvOK(second.buffer) /\ second.handled \in Seq(Handed)
    BY <1>4 DEF ListResultOK
  <2>3. QED BY <2>1, <2>2, ResultBuffers DEF in, Buffers
<1>11. QED BY <1>6, <1>7, <1>8, <1>9, <1>10

----------------------------------------------------------------------------
(* Acknowledgements and Clear().                                           *)

LEMMA AckedChannelsFacts ==
    ASSUME NEW r, sub[r] \in Channels, NEW p
    PROVE  /\ AckedChannels(r, p) \in Channels
           /\ Confirmed(r, p) \in SUBSET BusyOf(sub[r])
           /\ BusyOf(AckedChannels(r, p)) = BusyOf(sub[r]) \ Confirmed(r, p)
           /\ \A c \in BusyOf(AckedChannels(r, p)) :
                /\ AckedChannels(r, p)[c].num = sub[r][c].num
                /\ AckedChannels(r, p)[c].start = sub[r][c].start
<1> DEFINE after == AckedChannels(r, p)
<1>1. Confirmed(r, p) \in SUBSET BusyOf(sub[r]) /\ Confirmed(r, p) \subseteq Freed(r, p)
  BY DEF Confirmed, Visited, BusyOf, Freed
<1>2. \A c \in Freed(r, p) : c \in SubChannel /\ (c \in Confirmed(r, p) \/ sub[r][c].state = "DIRTY")
  BY DEF Freed, RolledBack, Failed, Visited, Confirmed
<1>3. \A c \in Resend(r, p) : c \in SubChannel /\ sub[r][c].state = "WAITING"
  BY DEF Resend, Failed, Visited
<1>4. ASSUME NEW c \in SubChannel
      PROVE  /\ c \in Freed(r, p) => after[c] = FreeSubChannel
             /\ c \notin Freed(r, p) /\ c \in Resend(r, p) =>
                  after[c] = [sub[r][c] EXCEPT !.state = "TOSEND"]
             /\ c \notin Freed(r, p) /\ c \notin Resend(r, p) => after[c] = sub[r][c]
  BY DEF AckedChannels
<1>5. FreeSubChannel \in ChannelType /\ FreeSubChannel.state = "FREE"
  BY DEF FreeSubChannel, ChannelType
<1>6. ASSUME NEW x \in ChannelType
      PROVE  LET y == [x EXCEPT !.state = "TOSEND"]
             IN y \in ChannelType /\ y.state = "TOSEND" /\ y.num = x.num /\ y.start = x.start
  BY DEF ChannelType
<1>7. after = [c \in SubChannel |-> after[c]]
  BY DEF AckedChannels
<1> HIDE DEF after
<1>8. ASSUME NEW c \in SubChannel
      PROVE  /\ after[c] \in ChannelType
             /\ c \in BusyOf(after) <=> c \in BusyOf(sub[r]) \ Confirmed(r, p)
             /\ c \in BusyOf(after) => /\ after[c].num = sub[r][c].num
                                       /\ after[c].start = sub[r][c].start
  <2>1. sub[r][c] \in ChannelType
    BY DEF Channels
  <2>2. CASE c \in Freed(r, p)
    BY <1>2, <1>4, <1>5, <2>2 DEF BusyOf
  <2>3. CASE c \notin Freed(r, p) /\ c \in Resend(r, p)
    BY <1>1, <1>3, <1>4, <1>6, <2>1, <2>3 DEF BusyOf
  <2>4. CASE c \notin Freed(r, p) /\ c \notin Resend(r, p)
    BY <1>1, <1>4, <2>1, <2>4 DEF BusyOf
  <2>5. QED BY <2>2, <2>3, <2>4
<1>9. after \in Channels
  BY <1>7, <1>8 DEF Channels
<1>10. BusyOf(after) = BusyOf(sub[r]) \ Confirmed(r, p)
  BY <1>8 DEF BusyOf
<1>11. \A c \in BusyOf(after) : c \in SubChannel
  BY DEF BusyOf
<1>12. QED BY <1>1, <1>8, <1>9, <1>10, <1>11 DEF after

LEMMA CountedListsFacts ==
    ASSUME NEW r, SideOK(r), NEW p, NEW j \in Stream
    PROVE  LET list == CheckWaitingList(CountedLists(r, p)[j], p.ack)
           IN list \in Seq(BlockType) /\ Counted(AckedChannels(r, p), list, j)
<1>1. sub[r] \in Channels /\ waiting[r][j] \in Seq(BlockType) /\ Counted(sub[r], waiting[r][j], j)
  BY DEF SideOK
<1>2. /\ AckedChannels(r, p) \in Channels
      /\ Confirmed(r, p) \in SUBSET BusyOf(sub[r])
      /\ BusyOf(AckedChannels(r, p)) = BusyOf(sub[r]) \ Confirmed(r, p)
      /\ \A c \in BusyOf(AckedChannels(r, p)) :
           /\ AckedChannels(r, p)[c].num = sub[r][c].num
           /\ AckedChannels(r, p)[c].start = sub[r][c].start
  BY <1>1, AckedChannelsFacts
<1> DEFINE n == Carried(sub[r], Confirmed(r, p), j)
           list == IF n = 0 THEN waiting[r][j]
                   ELSE [waiting[r][j] EXCEPT ![1] = Acknowledged(@, n)]
<1>3. CountedLists(r, p)[j] = list
  BY DEF CountedLists
<1>4. list \in Seq(BlockType) /\ Counted(AckedChannels(r, p), list, j)
  BY <1>1, <1>2, CountedAck
<1> HIDE DEF list
<1>5. QED BY <1>2, <1>3, <1>4, CountedTail

LEMMA ClearedChannelsType ==
    ASSUME NEW channels \in Channels
    PROVE  ClearedChannels(channels) \in Channels
<1>1. ASSUME NEW c \in SubChannel PROVE ClearedChannels(channels)[c] \in ChannelType
  <2>1. channels[c] \in ChannelType
    BY DEF Channels
  <2>2. FreeSubChannel \in ChannelType
    BY DEF FreeSubChannel, ChannelType
  <2>3. [channels[c] EXCEPT !.state = "DIRTY"] \in ChannelType
    BY <2>1 DEF ChannelType
  <2>4. QED BY <2>1, <2>2, <2>3 DEF ClearedChannels
<1>2. ClearedChannels(channels) = [c \in SubChannel |-> ClearedChannels(channels)[c]]
  BY DEF ClearedChannels
<1>3. QED BY <1>1, <1>2 DEF Channels

LEMMA NothingWaits ==
    /\ EmptyWaiting \in [Stream -> Seq(BlockType)]
    /\ \A j \in Stream : EmptyWaiting[j] = <<>>
<1>1. <<>> \in Seq(BlockType)
  OBVIOUS
<1>2. QED BY <1>1 DEF EmptyWaiting

----------------------------------------------------------------------------
(* Every action changes one side and the network.                          *)

HeaderOK(p) == \A j \in Stream :
    p.frags[j].num > 0 /\ p.frags[j].start = 0 => p.frags[j].total > 0

Counters == TypeOK /\ CountersInv /\ HeadersInv

\* what a side holds, between two steps and after one
ASideOK(channels, buffer, lists, buffers, chokes, histories, handed) ==
    /\ channels \in Channels /\ buffer \in BufferType /\ chokes \in Nat
    /\ lists = [j \in Stream |-> lists[j]]
    /\ \A j \in Stream : lists[j] \in Seq(BlockType) /\ Counted(channels, lists[j], j)
    /\ buffers = [j \in Stream |-> buffers[j]]
    /\ \A j \in Stream : RecvOK(buffers[j])
    /\ histories \in [Stream -> Seq(Seq(Item))]
    /\ handed \in [Stream -> Seq(Handed)]

LEMMA OneSide ==
    ASSUME FInv, WireOK', NEW s \in Side, NEW channels, NEW buffer, NEW lists,
           NEW buffers, NEW chokes, NEW histories, NEW handed,
           sub' = [sub EXCEPT ![s] = channels],
           reliable' = [reliable EXCEPT ![s] = buffer],
           waiting' = [waiting EXCEPT ![s] = lists],
           recv' = [recv EXCEPT ![s] = buffers],
           choked' = [choked EXCEPT ![s] = chokes],
           sent' = [sent EXCEPT ![s] = histories],
           got' = [got EXCEPT ![s] = handed],
           ASideOK(channels, buffer, lists, buffers, chokes, histories, handed),
           \A p \in net' : p \in PacketType /\ HeaderOK(p)
    PROVE  Counters'
<1>1. /\ outSeq' \in [Side -> Nat] /\ inSeq' \in [Side -> Nat] /\ outAck' \in [Side -> Nat]
      /\ outState' \in [Side -> [SubChannel -> {0, 1}]]
      /\ inState' \in [Side -> [SubChannel -> {0, 1}]]
  BY DEF WireOK
<1>2. sub' \in [Side -> Channels]
  BY DEF FInv, TypeOK, ASideOK, Channels
<1>3. reliable' \in [Side -> BufferType] /\ choked' \in [Side -> Nat]
  BY DEF FInv, TypeOK, ASideOK, BufferType
<1>4. waiting' \in [Side -> [Stream -> Seq(BlockType)]]
  <2>1. lists \in [Stream -> Seq(BlockType)]
    BY DEF ASideOK
  <2>2. QED BY <2>1 DEF FInv, TypeOK
<1>5. ASSUME NEW t \in Side
      PROVE  /\ t = s => sub'[t] = channels /\ waiting'[t] = lists /\ recv'[t] = buffers
             /\ t # s => sub'[t] = sub[t] /\ waiting'[t] = waiting[t] /\ recv'[t] = recv[t]
  BY DEF FInv, TypeOK
<1>6. recv' = [t \in Side |-> [j \in Stream |-> recv'[t][j]]]
  <2>1. DOMAIN recv' = Side /\ recv' = [t \in Side |-> recv'[t]]
    BY DEF FInv, TypeOK
  <2>2. ASSUME NEW t \in Side PROVE recv'[t] = [j \in Stream |-> recv'[t][j]]
    <3>1. CASE t = s
      BY <1>5, <3>1 DEF ASideOK
    <3>2. CASE t # s
      <4>1. recv[t] = [j \in Stream |-> recv[t][j]]
        BY DEF FInv, TypeOK
      <4>2. QED BY <1>5, <3>2, <4>1
    <3>3. QED BY <3>1, <3>2
  <2>3. QED BY <2>1, <2>2
<1>7. ASSUME NEW t \in Side, NEW j \in Stream
      PROVE  RecvOK(recv'[t][j]) /\ Counted(sub'[t], waiting'[t][j], j)
  <2>1. CASE t = s
    BY <1>5, <2>1 DEF ASideOK
  <2>2. CASE t # s
    <3>1. RecvOK(recv[t][j]) /\ Counted(sub[t], waiting[t][j], j)
      BY DEF FInv, TypeOK, HeadersInv, RecvOK, CountersInv
    <3>2. QED BY <1>5, <2>2, <3>1
  <2>3. QED BY <2>1, <2>2
<1>8. sent' \in [Side -> [Stream -> Seq(Seq(Item))]] /\ got' \in [Side -> [Stream -> Seq(Handed)]]
  BY DEF FInv, TypeOK, ASideOK, Handed
<1>9. TypeOK'
  BY <1>1, <1>2, <1>3, <1>4, <1>6, <1>7, <1>8 DEF TypeOK, Channels, BufferType, RecvOK, Handed
<1>10. CountersInv'
  BY <1>7 DEF CountersInv
<1>11. HeadersInv'
  BY <1>7 DEF HeadersInv, HeaderOK, RecvOK
<1>12. QED BY <1>9, <1>10, <1>11 DEF Counters

\* A step that leaves a variable alone leaves the side's part of it alone.
LEMMA ASideFacts ==
    ASSUME FInv, NEW s \in Side
    PROVE  /\ sub = [sub EXCEPT ![s] = sub[s]]
           /\ reliable = [reliable EXCEPT ![s] = reliable[s]]
           /\ waiting = [waiting EXCEPT ![s] = waiting[s]]
           /\ recv = [recv EXCEPT ![s] = recv[s]]
           /\ choked = [choked EXCEPT ![s] = choked[s]]
           /\ sent = [sent EXCEPT ![s] = sent[s]]
           /\ got = [got EXCEPT ![s] = got[s]]
           /\ ASideOK(sub[s], reliable[s], waiting[s], recv[s], choked[s], sent[s], got[s])
           /\ \A p \in net : p \in PacketType /\ HeaderOK(p)
<1>2. /\ sub = [sub EXCEPT ![s] = sub[s]] /\ reliable = [reliable EXCEPT ![s] = reliable[s]]
      /\ waiting = [waiting EXCEPT ![s] = waiting[s]] /\ recv = [recv EXCEPT ![s] = recv[s]]
      /\ choked = [choked EXCEPT ![s] = choked[s]] /\ sent = [sent EXCEPT ![s] = sent[s]]
      /\ got = [got EXCEPT ![s] = got[s]]
  BY DEF FInv, TypeOK
<1>3. SideOK(s)
  BY SidesOK DEF FInv
<1>4. /\ choked[s] \in Nat /\ sent[s] \in [Stream -> Seq(Seq(Item))]
      /\ got[s] \in [Stream -> Seq(Handed)]
      /\ waiting[s] = [j \in Stream |-> waiting[s][j]]
      /\ recv[s] = [j \in Stream |-> recv[s][j]]
      /\ \A j \in Stream : RecvOK(recv[s][j])
  BY DEF FInv, TypeOK, HeadersInv, RecvOK, Handed
<1>5. \A p \in net : p \in PacketType /\ HeaderOK(p)
  BY DEF FInv, TypeOK, HeadersInv, HeaderOK
<1>6. QED BY <1>2, <1>3, <1>4, <1>5 DEF ASideOK, SideOK

LEMMA InitCounters == Init => Counters
<1> SUFFICES ASSUME Init PROVE Counters
  OBVIOUS
<1>1. FreeSubChannel \in ChannelType /\ FreeSubChannel.state = "FREE"
  BY DEF FreeSubChannel, ChannelType
<1>2. <<>> \in Seq(Item) /\ <<>> \in Seq(Handed) /\ << <<>> >> \in Seq(Seq(Item))
  OBVIOUS
<1>3. EmptyBuffer \in BufferType
  BY <1>2, ConstantsAssumption DEF EmptyBuffer, BufferType
<1>4. \A s \in Side : sub[s] \in Channels /\ BusyOf(sub[s]) = {}
  BY <1>1 DEF Init, Channels, BusyOf
<1>5. \A s \in Side, j \in Stream : waiting[s][j] = <<>> /\ recv[s][j] = NoBuffer
  BY DEF Init, EmptyWaiting, NothingReceived
<1>6. waiting \in [Side -> [Stream -> Seq(BlockType)]]
  BY NothingWaits DEF Init
<1>7. /\ sent \in [Side -> [Stream -> Seq(Seq(Item))]] /\ got \in [Side -> [Stream -> Seq(Handed)]]
  BY <1>2 DEF Init
<1>8. recv = [s \in Side |-> [j \in Stream |-> recv[s][j]]]
  BY DEF Init, NothingReceived
<1>9. \A s \in Side, j \in Stream : RecvOK(recv[s][j])
  BY <1>5, NoBufferOK
<1>10. \A s \in Side, j \in Stream : Counted(sub[s], waiting[s][j], j)
  <2>1. ASSUME NEW channels, BusyOf(channels) = {}, NEW j PROVE Counted(channels, <<>>, j)
    BY <2>1 DEF Counted
  <2>2. QED BY <1>4, <1>5, <2>1
<1>11. sub \in [Side -> [SubChannel -> ChannelType]]
  BY <1>1 DEF Init
<1>12. reliable \in [Side -> [items : Seq(Item), bytes : 0 .. NET_MAX_PAYLOAD]]
  BY <1>3 DEF Init, BufferType
<1>13. /\ outSeq \in [Side -> Nat] /\ inSeq \in [Side -> Nat]
       /\ outAck \in [Side -> Nat] /\ choked \in [Side -> Nat]
       /\ outState \in [Side -> [SubChannel -> {0, 1}]]
       /\ inState \in [Side -> [SubChannel -> {0, 1}]]
       /\ net \subseteq PacketType
  BY DEF Init
<1>14. TypeOK
  BY <1>6, <1>7, <1>8, <1>9, <1>11, <1>12, <1>13 DEF TypeOK, RecvOK, Handed
<1>15. HeadersInv
  BY <1>9 DEF Init, HeadersInv, RecvOK
<1>16. QED BY <1>10, <1>14, <1>15 DEF Counters, CountersInv

\* the datagrams and the numbers are all that changes
held == <<sub, reliable, waiting, recv, sent, got>>

LEMMA HeldCounters ==
    ASSUME FInv, WireOK', UNCHANGED held,
           \/ UNCHANGED choked
           \/ \E s \in Side : choked' = [choked EXCEPT ![s] = @ + 1],
           \A p \in net' : p \in net
    PROVE  Counters'
<1>1. PICK s \in Side : choked' = choked \/ choked' = [choked EXCEPT ![s] = @ + 1]
  BY DEF Side
<1>2. choked[s] \in Nat /\ choked[s] + 1 \in Nat
  BY DEF FInv, TypeOK
<1>3. PICK n \in Nat : choked' = [choked EXCEPT ![s] = n]
  BY <1>1, <1>2, ASideFacts
<1>4. ASideOK(sub[s], reliable[s], waiting[s], recv[s], n, sent[s], got[s])
  BY ASideFacts DEF ASideOK
<1>5. \A p \in net' : p \in PacketType /\ HeaderOK(p)
  BY ASideFacts
<1>6. /\ sub' = [sub EXCEPT ![s] = sub[s]]
      /\ reliable' = [reliable EXCEPT ![s] = reliable[s]]
      /\ waiting' = [waiting EXCEPT ![s] = waiting[s]]
      /\ recv' = [recv EXCEPT ![s] = recv[s]]
      /\ sent' = [sent EXCEPT ![s] = sent[s]]
      /\ got' = [got EXCEPT ![s] = got[s]]
  BY ASideFacts DEF held
<1>7. QED BY <1>3, <1>4, <1>5, <1>6, OneSide

LEMMA RecordFacts ==
    ASSUME NEW history \in Seq(Seq(Item)), NEW item \in Item
    PROVE  Record(history, item) \in Seq(Seq(Item))
<1>1. CASE history = <<>>
  <2>1. Len(history) = 0 /\ Len(history) \notin DOMAIN history
    BY <1>1
  <2>2. history = [i \in DOMAIN history |-> history[i]]
    OBVIOUS
  <2>3. Record(history, item) = history
    BY <2>1, <2>2 DEF Record
  <2>4. QED BY <2>3
<1>2. CASE history # <<>>
  <2>1. Len(history) \in 1 .. Len(history) /\ history[Len(history)] \in Seq(Item)
    BY <1>2
  <2>2. Append(history[Len(history)], item) \in Seq(Item)
    BY <2>1
  <2>3. QED BY <2>1, <2>2 DEF Record
<1>3. QED BY <1>1, <1>2

LEMMA WriteFacts ==
    ASSUME NEW buffer \in BufferType, NEW item \in Item,
           buffer.bytes + Bytes[item] <= NET_MAX_PAYLOAD
    PROVE  Write(buffer, item) \in BufferType
<1>1. buffer.bytes + Bytes[item] \in 0 .. NET_MAX_PAYLOAD
  <2>1. buffer.bytes \in 0 .. NET_MAX_PAYLOAD /\ Bytes[item] \in 0 .. NET_MAX_PAYLOAD
    BY ItemsAssumption DEF BufferType
  <2>2. QED BY <2>1, ConstantsAssumption
<1>2. Append(buffer.items, item) \in Seq(Item)
  BY DEF BufferType
<1>3. QED BY <1>1, <1>2 DEF Write, BufferType

LEMMA SendNetMsgCounters ==
    ASSUME FInv, WireOK', NEW s \in Side, NEW m \in Msgs, SendNetMsg(s, m)
    PROVE  Counters'
<1> DEFINE buffer == Write(reliable[s], m)
           histories == [sent[s] EXCEPT ![FRAG_NORMAL_STREAM] = Record(@, m)]
<1>1. ASideOK(sub[s], reliable[s], waiting[s], recv[s], choked[s], sent[s], got[s])
  BY ASideFacts
<1>2. m \in Item /\ reliable[s].bytes + Bytes[m] <= NET_MAX_PAYLOAD
  BY DEF SendNetMsg, Item
<1>3. buffer \in BufferType
  BY <1>1, <1>2, WriteFacts DEF ASideOK
<1>4. histories \in [Stream -> Seq(Seq(Item))]
  BY <1>1, <1>2, RecordFacts DEF ASideOK, Stream
<1>5. /\ reliable' = [reliable EXCEPT ![s] = buffer]
      /\ sent' = [sent EXCEPT ![s] = histories]
  BY DEF SendNetMsg
<1> HIDE DEF buffer, histories
<1>6. ASideOK(sub[s], buffer, waiting[s], recv[s], choked[s], histories, got[s])
  BY <1>1, <1>3, <1>4 DEF ASideOK
<1>7. /\ sub' = [sub EXCEPT ![s] = sub[s]] /\ waiting' = [waiting EXCEPT ![s] = waiting[s]]
      /\ recv' = [recv EXCEPT ![s] = recv[s]] /\ choked' = [choked EXCEPT ![s] = choked[s]]
      /\ got' = [got EXCEPT ![s] = got[s]]
      /\ \A p \in net' : p \in PacketType /\ HeaderOK(p)
  BY ASideFacts DEF SendNetMsg
<1>8. QED BY <1>5, <1>6, <1>7, OneSide

LEMMA SendFileCounters ==
    ASSUME FInv, WireOK', NEW s \in Side, NEW f \in Files, SendFile(s, f)
    PROVE  Counters'
<1> DEFINE buffer == Write(reliable[s], f)
           block == NewBlock(<<f>>, Bytes[f])
           lists == [waiting[s] EXCEPT ![FRAG_FILE_STREAM] = Append(@, block)]
           histories(j) == [sent[s] EXCEPT ![j] = Record(@, f)]
<1>1. ASideOK(sub[s], reliable[s], waiting[s], recv[s], choked[s], sent[s], got[s])
  BY ASideFacts
<1>2. f \in Item /\ Bytes[f] \in 0 .. NET_MAX_PAYLOAD /\ <<f>> \in Seq(Item)
  BY ItemsAssumption DEF Item
<1>3. ASSUME NEW j \in Stream PROVE histories(j) \in [Stream -> Seq(Seq(Item))]
  BY <1>1, <1>2, RecordFacts DEF ASideOK
<1>4. FRAG_NORMAL_STREAM \in Stream /\ FRAG_FILE_STREAM \in Stream
  BY DEF Stream
<1>5. /\ sub' = [sub EXCEPT ![s] = sub[s]] /\ recv' = [recv EXCEPT ![s] = recv[s]]
      /\ choked' = [choked EXCEPT ![s] = choked[s]] /\ got' = [got EXCEPT ![s] = got[s]]
      /\ \A p \in net' : p \in PacketType /\ HeaderOK(p)
  BY ASideFacts DEF SendFile
<1>6. CASE f \in Missing
  <2>1. buffer \in BufferType
    BY <1>1, <1>2, <1>6, WriteFacts DEF ASideOK, SendFile
  <2>2. /\ reliable' = [reliable EXCEPT ![s] = buffer]
        /\ sent' = [sent EXCEPT ![s] = histories(FRAG_NORMAL_STREAM)]
        /\ waiting' = [waiting EXCEPT ![s] = waiting[s]]
    BY <1>6, ASideFacts DEF SendFile
  <2> HIDE DEF buffer, histories
  <2>3. ASideOK(sub[s], buffer, waiting[s], recv[s], choked[s],
                histories(FRAG_NORMAL_STREAM), got[s])
    BY <1>1, <1>3, <1>4, <2>1 DEF ASideOK
  <2>4. QED BY <1>5, <2>2, <2>3, OneSide
<1>7. CASE f \notin Missing
  <2>1. block \in BlockType /\ block.acked = 0 /\ block.pending = 0
    BY <1>2, NewBlockFacts
  <2>2. /\ reliable' = [reliable EXCEPT ![s] = reliable[s]]
        /\ sent' = [sent EXCEPT ![s] = histories(FRAG_FILE_STREAM)]
        /\ waiting' = [waiting EXCEPT ![s] = lists]
    BY <1>7, ASideFacts DEF SendFile
  <2>3. lists = [j \in Stream |-> lists[j]]
    BY <1>1 DEF ASideOK
  <2>4. ASSUME NEW j \in Stream
        PROVE  lists[j] = IF j = FRAG_FILE_STREAM THEN Append(waiting[s][j], block)
                          ELSE waiting[s][j]
    BY <1>1 DEF ASideOK
  <2> HIDE DEF block, lists, histories
  <2>5. ASSUME NEW j \in Stream
        PROVE  lists[j] \in Seq(BlockType) /\ Counted(sub[s], lists[j], j)
    <3>1. waiting[s][j] \in Seq(BlockType) /\ Counted(sub[s], waiting[s][j], j)
          /\ sub[s] \in Channels
      BY <1>1 DEF ASideOK
    <3>2. /\ Append(waiting[s][j], block) \in Seq(BlockType)
          /\ Counted(sub[s], Append(waiting[s][j], block), j)
      BY <2>1, <3>1, CountedAppend
    <3>3. QED BY <2>4, <3>1, <3>2
  <2>6. ASideOK(sub[s], reliable[s], lists, recv[s], choked[s],
                histories(FRAG_FILE_STREAM), got[s])
    BY <1>1, <1>3, <1>4, <2>3, <2>5 DEF ASideOK
  <2>7. QED BY <1>5, <2>2, <2>6, OneSide
<1>8. QED BY <1>6, <1>7

LEMMA NewEpochType ==
    ASSUME NEW histories \in [Stream -> Seq(Seq(Item))]
    PROVE  NewEpoch(histories) \in [Stream -> Seq(Seq(Item))]
<1>1. <<>> \in Seq(Item)
  OBVIOUS
<1>2. ASSUME NEW j \in Stream PROVE Append(histories[j], <<>>) \in Seq(Seq(Item))
  BY <1>1
<1>3. QED BY <1>2 DEF NewEpoch

LEMMA ClearedSideFacts ==
    /\ EmptyBuffer \in BufferType /\ EmptyBuffer.bytes = 0
    /\ EmptyWaiting = [j \in Stream |-> EmptyWaiting[j]]
    /\ NothingReceived = [j \in Stream |-> NothingReceived[j]]
    /\ \A j \in Stream : EmptyWaiting[j] \in Seq(BlockType) /\ RecvOK(NothingReceived[j])
<1>1. <<>> \in Seq(Item)
  OBVIOUS
<1>2. EmptyBuffer \in BufferType /\ EmptyBuffer.bytes = 0
  BY <1>1, ConstantsAssumption DEF EmptyBuffer, BufferType
<1>3. QED BY <1>2, NothingWaits, NoBufferOK DEF NothingReceived

LEMMA ReconnectCounters ==
    ASSUME FInv, WireOK', NEW s \in Side, NEW m \in ResetMsgs, Reconnect(s, m)
    PROVE  Counters'
<1> DEFINE channels == ClearedChannels(sub[s])
           buffer == Write(EmptyBuffer, m)
           histories == EpochWith(sent[s], m)
<1>1. ASideOK(sub[s], reliable[s], waiting[s], recv[s], choked[s], sent[s], got[s])
  BY ASideFacts
<1>2. m \in Item /\ Bytes[m] \in 0 .. NET_MAX_PAYLOAD
  BY ItemsAssumption DEF Item
<1>3. buffer \in BufferType
  <2>1. EmptyBuffer.bytes + Bytes[m] <= NET_MAX_PAYLOAD
    BY <1>2, ClearedSideFacts, ConstantsAssumption
  <2>2. QED BY <1>2, <2>1, ClearedSideFacts, WriteFacts
<1>4. channels \in Channels /\ \A j \in Stream : Counted(channels, EmptyWaiting[j], j)
  BY <1>1, ClearedChannelsType, CountedCleared, NothingWaits DEF ASideOK
<1>7. NewEpoch(sent[s]) \in [Stream -> Seq(Seq(Item))]
  BY <1>1, NewEpochType DEF ASideOK
<1>8. histories \in [Stream -> Seq(Seq(Item))]
  BY <1>2, <1>7, RecordFacts DEF Stream, EpochWith
<1>9. /\ sub' = [sub EXCEPT ![s] = channels]
      /\ reliable' = [reliable EXCEPT ![s] = buffer]
      /\ waiting' = [waiting EXCEPT ![s] = EmptyWaiting]
      /\ recv' = [recv EXCEPT ![s] = NothingReceived]
      /\ choked' = [choked EXCEPT ![s] = 0]
      /\ sent' = [sent EXCEPT ![s] = histories]
      /\ got' = [got EXCEPT ![s] = got[s]]
      /\ \A p \in net' : p \in PacketType /\ HeaderOK(p)
  BY ASideFacts DEF Reconnect
<1> HIDE DEF channels, buffer, histories
<1>10. ASideOK(channels, buffer, EmptyWaiting, NothingReceived, 0, histories, got[s])
  BY <1>1, <1>3, <1>4, <1>8, ClearedSideFacts DEF ASideOK
<1>11. QED BY <1>9, <1>10, OneSide

LEMMA SendDatagramCounters ==
    ASSUME FInv, WireOK', NEW s \in Side, SendDatagram(s)
    PROVE  Counters'
<1> DEFINE filled == UpdatedChannels(s)
           c == NextToSend(filled)
           lists == UpdatedLists(s)
           channels == SentChannels(filled, c, outSeq[s])
           p == Datagram(s, c, filled, lists)
<1>1. ASideOK(sub[s], reliable[s], waiting[s], recv[s], choked[s], sent[s], got[s])
  BY ASideFacts
<1>2. SideOK(s) /\ WireOK /\ outSeq[s] \in Nat
  BY SidesOK DEF FInv, IInv, TypeOK
<1>3. p \in PacketType /\ HeaderOK(p)
  BY <1>1, <1>2, DatagramFacts DEF ASideOK, HeaderOK
<1>4. filled \in Channels /\ \A j \in Stream : lists[j] \in Seq(BlockType)
                                               /\ Counted(filled, lists[j], j)
  BY <1>2, UpdatedFacts
<1>5. channels \in Channels /\ \A j \in Stream : Counted(channels, lists[j], j)
  <2>1. FRAG_NORMAL_STREAM \in Stream
    BY DEF Stream
  <2> HIDE DEF filled, lists
  <2>2. QED BY <1>2, <1>4, <2>1, SentFacts
<1>6. lists = [j \in Stream |-> lists[j]]
  BY DEF UpdatedLists
<1>8. /\ sub' = [sub EXCEPT ![s] = channels]
      /\ reliable' = [reliable EXCEPT ![s] = EmptyBuffer]
      /\ waiting' = [waiting EXCEPT ![s] = lists]
      /\ recv' = [recv EXCEPT ![s] = recv[s]]
      /\ choked' = [choked EXCEPT ![s] = 0]
      /\ sent' = [sent EXCEPT ![s] = sent[s]]
      /\ got' = [got EXCEPT ![s] = got[s]]
      /\ net' = net \cup {p}
  BY ASideFacts DEF SendDatagram
<1> HIDE DEF filled, c, lists, channels, p
<1>9. ASideOK(channels, EmptyBuffer, lists, recv[s], 0, sent[s], got[s])
  BY <1>1, <1>4, <1>5, <1>6, ClearedSideFacts DEF ASideOK
<1>10. \A q \in net' : q \in PacketType /\ HeaderOK(q)
  BY <1>3, <1>8, ASideFacts
<1>11. QED BY <1>8, <1>9, <1>10, OneSide

LEMMA HandedOver ==
    ASSUME NEW handed \in [Stream -> Seq(Handed)], NEW more,
           \A j \in Stream : more[j] \in Seq(Handed)
    PROVE  [j \in Stream |-> handed[j] \o more[j]] \in [Stream -> Seq(Handed)]
<1>1. ASSUME NEW j \in Stream PROVE handed[j] \o more[j] \in Seq(Handed)
  OBVIOUS
<1>2. QED BY <1>1

LEMMA ProcessCounters ==
    ASSUME FInv, WireOK', NEW p \in net, Process(p)
    PROVE  Counters'
<1> DEFINE r == Peer(p.src)
           in == Received(r, p)
           acked == AckedChannels(r, p)
           checked == [j \in Stream |-> CheckWaitingList(CountedLists(r, p)[j], p.ack)]
           handed == [j \in Stream |-> got[r][j] \o in.handled[j]]
<1>1. r \in Side /\ ~Stale(r, p)
  BY FreshFacts, PeerFacts DEF FInv, PacketOK, Process
<1>2. ASideOK(sub[r], reliable[r], waiting[r], recv[r], choked[r], sent[r], got[r])
      /\ SideOK(r) /\ \A q \in net : q \in PacketType /\ HeaderOK(q)
  BY <1>1, ASideFacts, SidesOK DEF FInv
<1>3. HeaderValid(r, p)
  BY <1>1, NeverInvalid DEF FInv
<1>4. ASSUME NEW j \in Stream PROVE RecvOK(recv[r][j]) /\ GroupOK(p.frags[j])
  BY <1>2 DEF ASideOK, PacketType, HeaderOK, GroupOK
<1>5. /\ in.recv = [j \in Stream |-> in.recv[j]]
      /\ \A j \in Stream : RecvOK(in.recv[j]) /\ in.handled[j] \in Seq(Handed)
  BY <1>4, ReceivedFacts
<1>6. acked \in Channels
      /\ \A j \in Stream : checked[j] \in Seq(BlockType) /\ Counted(acked, checked[j], j)
  BY <1>2, AckedChannelsFacts, CountedListsFacts DEF SideOK
<1>7. checked = [j \in Stream |-> checked[j]]
  OBVIOUS
<1>8. /\ sub' = [sub EXCEPT ![r] = IF in.cleared THEN ClearedChannels(acked) ELSE acked]
      /\ waiting' = [waiting EXCEPT ![r] = IF in.cleared THEN EmptyWaiting ELSE checked]
      /\ recv' = [recv EXCEPT ![r] = IF in.cleared THEN NothingReceived ELSE in.recv]
      /\ got' = [got EXCEPT ![r] = handed]
      /\ reliable' = [reliable EXCEPT ![r] = IF in.cleared THEN EmptyBuffer ELSE reliable[r]]
      /\ choked' = [choked EXCEPT ![r] = IF in.cleared THEN 0 ELSE choked[r]]
      /\ sent' = [sent EXCEPT ![r] = IF in.cleared THEN NewEpoch(sent[r]) ELSE sent[r]]
      /\ net' \subseteq net
  BY <1>3 DEF Process
<1> HIDE DEF in, acked, checked
<1>9. handed \in [Stream -> Seq(Handed)]
  BY <1>2, <1>5, HandedOver DEF ASideOK
<1> HIDE DEF handed
<1>10. \A q \in net' : q \in PacketType /\ HeaderOK(q)
  BY <1>2, <1>8
<1>11. CASE ~in.cleared
  <2>1. ASideOK(acked, reliable[r], checked, in.recv, choked[r], sent[r], handed)
    BY <1>2, <1>5, <1>6, <1>7, <1>9 DEF ASideOK
  <2>2. QED BY <1>1, <1>8, <1>10, <1>11, <2>1, OneSide
<1>12. CASE in.cleared
  <2>1. ClearedChannels(acked) \in Channels
        /\ \A j \in Stream : Counted(ClearedChannels(acked), EmptyWaiting[j], j)
    BY <1>6, ClearedChannelsType, CountedCleared, NothingWaits
  <2>2. ASideOK(ClearedChannels(acked), EmptyBuffer, EmptyWaiting, NothingReceived, 0,
                NewEpoch(sent[r]), handed)
    BY <1>2, <1>9, <2>1, ClearedSideFacts, NewEpochType DEF ASideOK
  <2>3. QED BY <1>1, <1>8, <1>10, <1>12, <2>2, OneSide
<1>13. QED BY <1>11, <1>12

----------------------------------------------------------------------------
(* The theorems.                                                           *)

LEMMA FInvInductive == FInv /\ [Next]_vars => FInv'
<1> SUFFICES ASSUME FInv, [Next]_vars PROVE FInv'
  OBVIOUS
<1>1. IInv' /\ WireOK'
  BY NextInv DEF FInv, IInv
<1>2. ASSUME NEW s \in Side, NEW m \in Msgs, SendNetMsg(s, m) PROVE Counters'
  BY <1>1, <1>2, SendNetMsgCounters
<1>3. ASSUME NEW s \in Side, NEW f \in Files, SendFile(s, f) PROVE Counters'
  BY <1>1, <1>3, SendFileCounters
<1>4. ASSUME NEW s \in Side, NEW m \in ResetMsgs, Reconnect(s, m) PROVE Counters'
  BY <1>1, <1>4, ReconnectCounters
<1>5. ASSUME NEW s \in Side, SetChoked(s) PROVE Counters'
  <2>1. /\ UNCHANGED held /\ choked' = [choked EXCEPT ![s] = @ + 1]
        /\ \A p \in net' : p \in net
    BY <1>5 DEF SetChoked, held
  <2>2. QED BY <1>1, <2>1, HeldCounters
<1>6. ASSUME NEW s \in Side, SendDatagram(s) PROVE Counters'
  BY <1>1, <1>6, SendDatagramCounters
<1>7. ASSUME NEW p \in net, Process(p) PROVE Counters'
  BY <1>1, <1>7, ProcessCounters
<1>8. ASSUME NEW p \in net, Ignore(p) \/ Lose(p) PROVE Counters'
  <2>1. UNCHANGED held /\ UNCHANGED choked /\ \A q \in net' : q \in net
    BY <1>8 DEF Ignore, Lose, held
  <2>2. QED BY <1>1, <2>1, HeldCounters
<1>9. ASSUME UNCHANGED vars PROVE Counters'
  <2>1. UNCHANGED held /\ UNCHANGED choked /\ \A q \in net' : q \in net
    BY <1>9 DEF vars, held
  <2>2. QED BY <1>1, <2>1, HeldCounters
<1>10. Counters'
  BY <1>2, <1>3, <1>4, <1>5, <1>6, <1>7, <1>8, <1>9 DEF Next, ProcessPacket
<1>11. QED BY <1>1, <1>10 DEF FInv, Counters

LEMMA FInvAlways == Spec => []FInv
<1>1. Init => FInv
  BY InitInv, InitCounters DEF FInv, Counters
<1>2. QED BY <1>1, FInvInductive, PTL DEF Spec

\* The variables of both channels, the blocks they wait for and receive, and
\* every datagram in flight keep their types: in particular no block ever
\* counts fewer than no fragments acknowledged, and what a subchannel or the
\* header of a group of fragments says of its place is a natural number.
THEOREM NetChanTyped == Spec => []TypeOK
<1>1. FInv => TypeOK
  BY DEF FInv
<1>2. QED BY <1>1, FInvAlways, PTL

\* The fragments pending of a block are those its subchannels carry, only the
\* head of a list is under way and never more of it than there is: the
\* assertions of net_chan.cpp:1487 and 2334 do not fail, whatever is lost or
\* repeated, and a Clear() between them.
THEOREM FragmentsAccounted == Spec => []FragmentAccounting
<1>1. FInv => FragmentAccounting
  <2> SUFFICES ASSUME FInv, NEW s \in Side, NEW j \in Stream
               PROVE  LET list == waiting[s][j]
                      IN /\ list = <<>> => Carried(sub[s], Busy(s), j) = 0
                         /\ list # <<>> =>
                              /\ list[1].pending = Carried(sub[s], Busy(s), j)
                              /\ list[1].acked + list[1].pending <= list[1].num
                         /\ \A i \in 2 .. Len(list) : list[i].acked = 0 /\ list[i].pending = 0
    BY DEF FragmentAccounting
  <2>1. Busy(s) = BusyOf(sub[s]) /\ BusyOf(sub[s]) \in SUBSET SubChannel
    BY DEF Busy, BusyOf
  <2>2. sub[s] \in Channels /\ Counted(sub[s], waiting[s][j], j)
    BY SidesOK DEF FInv, SideOK
  <2>3. waiting[s][j] = <<>> => Carried(sub[s], Busy(s), j) = 0
    BY <2>1, <2>2, CarriedNone DEF Counted
  <2>4. QED BY <2>1, <2>2, <2>3 DEF Counted, NextFragment
<1>2. QED BY <1>1, FInvAlways, PTL

\* No fragment of a block is in two subchannels at a time: the next group
\* starts where the counters of the block end, above every group under way.
THEOREM FragmentsNeverTwice == Spec => []FragmentsDisjoint
<1>1. FInv => FragmentsDisjoint
  <2> SUFFICES ASSUME FInv, NEW s \in Side, NEW j \in Stream,
                      NEW c \in Busy(s), NEW d \in Busy(s), c # d
               PROVE  Apart(sub[s][c], sub[s][d], j)
    BY DEF FragmentsDisjoint, Apart
  <2>1. Counted(sub[s], waiting[s][j], j)
    BY DEF FInv, CountersInv
  <2>2. QED BY <2>1 DEF Counted, Busy, BusyOf
<1>2. QED BY <1>1, FInvAlways, PTL

----------------------------------------------------------------------------
(* The order of the messages.                                              *)

\* s sends messages, none of which starts the level over or is refused by its
\* handler, and asks for files that are not there at most.  A message takes
\* some bytes, and so does a block after compression.
MessagesOnly(s) ==
    /\ ResetMsgs = {}
    /\ \A m \in FailMsgs : Sender[m] # s
    /\ \A f \in Files : Sender[f] = s => f \in Missing
    /\ \A item \in Item : Sender[item] = s => Bytes[item] > 0
    /\ \A bytes \in 1 .. NET_MAX_PAYLOAD : Packed[bytes] > 0

NORMAL == FRAG_NORMAL_STREAM
FILE == FRAG_FILE_STREAM

----------------------------------------------------------------------------
(* What was sent is what was handed over, the blocks that wait and what is *)
(* in the buffer, one after the other.                                     *)

\* the items x are those of h after the first n
Segment(x, h, n) == \A k \in 1 .. Len(x) : x[k] = h[n + k]

\* where the blocks of a list end in h
Cuts(h, list) == [0 .. Len(list) -> 0 .. Len(h)]

Tiled(cut, h, list, buffer) ==
    /\ \A i \in 1 .. Len(list) : /\ cut[i] = cut[i - 1] + Len(list[i].items)
                                 /\ Segment(list[i].items, h, cut[i - 1])
    /\ Len(h) = cut[Len(list)] + Len(buffer)
    /\ Segment(buffer, h, cut[Len(list)])

\* done: the head of the list was handed over and is not acknowledged yet
Ordered(h, list, buffer, g, done) ==
    \E cut \in Cuts(h, list) :
        /\ Tiled(cut, h, list, buffer)
        /\ Len(g) = cut[IF done THEN 1 ELSE 0] /\ Segment(g, h, 0)

LEMMA OrderedSend ==
    ASSUME NEW h \in Seq(Item), NEW list \in Seq(BlockType), NEW buffer \in Seq(Item),
           NEW g \in Seq(Handed), NEW done \in BOOLEAN, done => list # <<>>,
           NEW m \in Item, Ordered(h, list, buffer, g, done)
    PROVE  Ordered(Append(h, m), list, Append(buffer, m), g, done)
<1> DEFINE h2 == Append(h, m)
           buffer2 == Append(buffer, m)
<1>1. PICK cut \in Cuts(h, list) :
        /\ Tiled(cut, h, list, buffer)
        /\ Len(g) = cut[IF done THEN 1 ELSE 0] /\ Segment(g, h, 0)
  BY DEF Ordered
<1>2. /\ Len(h2) = Len(h) + 1 /\ h2[Len(h) + 1] = m
      /\ \A k \in 1 .. Len(h) : h2[k] = h[k]
      /\ Len(buffer2) = Len(buffer) + 1 /\ buffer2[Len(buffer) + 1] = m
      /\ \A k \in 1 .. Len(buffer) : buffer2[k] = buffer[k]
  OBVIOUS
<1> HIDE DEF h2, buffer2
<1>3. \A i \in 0 .. Len(list) : cut[i] \in 0 .. Len(h)
  BY <1>1 DEF Cuts
<1>4. cut \in Cuts(h2, list)
  BY <1>1, <1>2 DEF Cuts
<1>5. ASSUME NEW x \in Seq(Handed), NEW n \in Nat, n + Len(x) <= Len(h), Segment(x, h, n)
      PROVE  Segment(x, h2, n)
  <2> SUFFICES ASSUME NEW k \in 1 .. Len(x) PROVE x[k] = h2[n + k]
    BY DEF Segment
  <2>1. n + k \in 1 .. Len(h) /\ x[k] = h[n + k]
    BY <1>5 DEF Segment
  <2>2. QED BY <1>2, <2>1
<1>6. Segment(g, h2, 0)
  <2>1. (IF done THEN 1 ELSE 0) \in 0 .. Len(list)
    OBVIOUS
  <2>2. Len(g) <= Len(h)
    BY <1>1, <1>3, <2>1
  <2>3. QED BY <1>1, <1>5, <2>2
<1>7. ASSUME NEW i \in 1 .. Len(list)
      PROVE  /\ cut[i] = cut[i - 1] + Len(list[i].items)
             /\ Segment(list[i].items, h2, cut[i - 1])
  <2>1. /\ cut[i] = cut[i - 1] + Len(list[i].items)
        /\ Segment(list[i].items, h, cut[i - 1])
    BY <1>1 DEF Tiled
  <2>2. list[i].items \in Seq(Item) /\ i - 1 \in 0 .. Len(list) /\ i \in 0 .. Len(list)
    BY BlockFields
  <2>3. list[i].items \in Seq(Handed)
    BY <2>2 DEF Handed
  <2>4. QED BY <1>3, <1>5, <2>1, <2>2, <2>3
<1>8. Len(h2) = cut[Len(list)] + Len(buffer2)
  <2>1. Len(h) = cut[Len(list)] + Len(buffer)
    BY <1>1 DEF Tiled
  <2>2. cut[Len(list)] \in Int /\ Len(buffer) \in Int
    BY <1>3
  <2>3. Len(h2) = Len(h) + 1 /\ Len(buffer2) = Len(buffer) + 1
    BY <1>2
  <2>4. QED BY <2>1, <2>2, <2>3
<1>9. Segment(buffer2, h2, cut[Len(list)])
  <2> SUFFICES ASSUME NEW k \in 1 .. Len(buffer2) PROVE buffer2[k] = h2[cut[Len(list)] + k]
    BY DEF Segment
  <2>1. cut[Len(list)] \in Nat /\ Len(h) = cut[Len(list)] + Len(buffer)
    BY <1>1, <1>3 DEF Tiled
  <2>2. CASE k = Len(buffer) + 1
    BY <1>2, <2>1, <2>2
  <2>3. CASE k \in 1 .. Len(buffer)
    <3>1. buffer[k] = h[cut[Len(list)] + k] /\ cut[Len(list)] + k \in 1 .. Len(h)
      BY <1>1, <2>1, <2>3 DEF Tiled, Segment
    <3>2. QED BY <1>2, <2>3, <3>1
  <2>4. QED BY <1>2, <2>2, <2>3
<1>10. Tiled(cut, h2, list, buffer2)
  BY <1>7, <1>8, <1>9 DEF Tiled
<1>11. QED BY <1>1, <1>4, <1>6, <1>10 DEF Ordered, h2, buffer2

LEMMA BlockItems ==
    ASSUME NEW list \in Seq(BlockType), NEW i \in 1 .. Len(list)
    PROVE  list[i].items \in Seq(Item) /\ Len(list[i].items) \in Nat
BY BlockFields

LEMMA CutBounds ==
    ASSUME NEW h \in Seq(Item), NEW list \in Seq(BlockType), NEW cut \in Cuts(h, list)
    PROVE  \A i \in 0 .. Len(list) : cut[i] \in 0 .. Len(h) /\ cut[i] \in Nat
BY DEF Cuts

\* What is in the buffer becomes the last block.
LEMMA OrderedAppend ==
    ASSUME NEW h \in Seq(Item), NEW list \in Seq(BlockType), NEW buffer \in Seq(Item),
           NEW g \in Seq(Handed), NEW done \in BOOLEAN, done => list # <<>>,
           NEW block \in BlockType, block.items = buffer,
           Ordered(h, list, buffer, g, done)
    PROVE  Ordered(h, Append(list, block), <<>>, g, done)
<1> DEFINE list2 == Append(list, block)
           n == Len(list)
<1>1. PICK cut \in Cuts(h, list) :
        /\ Tiled(cut, h, list, buffer)
        /\ Len(g) = cut[IF done THEN 1 ELSE 0] /\ Segment(g, h, 0)
  BY DEF Ordered
<1>2. \A i \in 0 .. n : cut[i] \in 0 .. Len(h) /\ cut[i] \in Nat
  BY CutBounds
<1>3. /\ Len(list2) = n + 1 /\ list2[n + 1] = block
      /\ \A i \in 1 .. n : list2[i] = list[i]
  OBVIOUS
<1> DEFINE cut2 == [i \in 0 .. Len(list2) |-> IF i = n + 1 THEN Len(h) ELSE cut[i]]
<1> HIDE DEF list2
<1>4. \A i \in 0 .. n : cut2[i] = cut[i]
  BY <1>3
<1>5. cut2[n + 1] = Len(h) /\ cut2 \in Cuts(h, list2)
  BY <1>2, <1>3 DEF Cuts
<1> HIDE DEF cut2
<1>6. ASSUME NEW i \in 1 .. Len(list2)
      PROVE  /\ cut2[i] = cut2[i - 1] + Len(list2[i].items)
             /\ Segment(list2[i].items, h, cut2[i - 1])
  <2>1. CASE i \in 1 .. n
    <3>1. cut2[i] = cut[i] /\ cut2[i - 1] = cut[i - 1] /\ list2[i] = list[i]
      BY <1>3, <1>4, <2>1
    <3>2. QED BY <1>1, <2>1, <3>1 DEF Tiled
  <2>2. CASE i = n + 1
    BY <1>1, <1>2, <1>3, <1>4, <1>5, <2>2 DEF Tiled
  <2>3. QED BY <1>3, <2>1, <2>2
<1>7. Len(h) = cut2[Len(list2)] + Len(<<>>) /\ Segment(<<>>, h, cut2[Len(list2)])
  BY <1>3, <1>5 DEF Segment
<1>8. Tiled(cut2, h, list2, <<>>)
  BY <1>6, <1>7 DEF Tiled
<1>9. cut2[IF done THEN 1 ELSE 0] = cut[IF done THEN 1 ELSE 0]
  BY <1>4
<1>10. QED BY <1>1, <1>5, <1>8, <1>9 DEF Ordered, list2

\* What is in the buffer joins the last block, which is not the head.
LEMMA OrderedJoin ==
    ASSUME NEW h \in Seq(Item), NEW list \in Seq(BlockType), NEW buffer \in Seq(Item),
           NEW g \in Seq(Handed), NEW done \in BOOLEAN, Len(list) > 1,
           NEW list2 \in Seq(BlockType), Len(list2) = Len(list),
           \A i \in 1 .. Len(list) - 1 : list2[i] = list[i],
           list2[Len(list)].items = list[Len(list)].items \o buffer,
           Ordered(h, list, buffer, g, done)
    PROVE  Ordered(h, list2, <<>>, g, done)
<1> DEFINE n == Len(list)
           last == list[n].items
<1>1. PICK cut \in Cuts(h, list) :
        /\ Tiled(cut, h, list, buffer)
        /\ Len(g) = cut[IF done THEN 1 ELSE 0] /\ Segment(g, h, 0)
  BY DEF Ordered
<1>2. \A i \in 0 .. n : cut[i] \in 0 .. Len(h) /\ cut[i] \in Nat
  BY CutBounds
<1>3. n \in Nat /\ n > 1 /\ last \in Seq(Item) /\ Len(last) \in Nat
  BY BlockItems
<1>4. /\ Len(last \o buffer) = Len(last) + Len(buffer)
      /\ \A k \in 1 .. Len(last) : (last \o buffer)[k] = last[k]
      /\ \A k \in Len(last) + 1 .. Len(last) + Len(buffer) :
           (last \o buffer)[k] = buffer[k - Len(last)]
  BY <1>3
<1>5. /\ cut[n] = cut[n - 1] + Len(last) /\ Segment(last, h, cut[n - 1])
      /\ Len(h) = cut[n] + Len(buffer) /\ Segment(buffer, h, cut[n])
  BY <1>1, <1>3 DEF Tiled
<1> DEFINE cut2 == [cut EXCEPT ![n] = Len(h)]
<1>6. cut2[n] = Len(h) /\ (\A i \in 0 .. n - 1 : cut2[i] = cut[i]) /\ cut2 \in Cuts(h, list2)
  BY <1>3 DEF Cuts
<1> HIDE DEF cut2
<1>7. Segment(last \o buffer, h, cut[n - 1])
  <2> SUFFICES ASSUME NEW k \in 1 .. Len(last) + Len(buffer)
               PROVE  (last \o buffer)[k] = h[cut[n - 1] + k]
    BY <1>4 DEF Segment
  <2>1. CASE k \in 1 .. Len(last)
    BY <1>4, <1>5, <2>1 DEF Segment
  <2>2. CASE k \in Len(last) + 1 .. Len(last) + Len(buffer)
    <3>1. k - Len(last) \in 1 .. Len(buffer)
      BY <1>3, <2>2
    <3>2. buffer[k - Len(last)] = h[cut[n] + (k - Len(last))]
      BY <1>5, <3>1 DEF Segment
    <3>3. cut[n] + (k - Len(last)) = cut[n - 1] + k
      BY <1>2, <1>3, <1>5
    <3>4. QED BY <1>4, <2>2, <3>2, <3>3
  <2>3. QED BY <1>3, <2>1, <2>2
<1>8. ASSUME NEW i \in 1 .. Len(list2)
      PROVE  /\ cut2[i] = cut2[i - 1] + Len(list2[i].items)
             /\ Segment(list2[i].items, h, cut2[i - 1])
  <2>1. CASE i \in 1 .. n - 1
    BY <1>1, <1>6, <2>1 DEF Tiled
  <2>2. CASE i = n
    <3>1. cut2[n] = Len(h) /\ cut2[n - 1] = cut[n - 1] /\ list2[n].items = last \o buffer
      BY <1>3, <1>6
    <3>2. Len(h) = cut[n - 1] + Len(last \o buffer)
      BY <1>2, <1>3, <1>4, <1>5
    <3>3. QED BY <1>7, <2>2, <3>1, <3>2
  <2>3. QED BY <1>3, <2>1, <2>2
<1>9. Len(h) = cut2[Len(list2)] + Len(<<>>) /\ Segment(<<>>, h, cut2[Len(list2)])
  BY <1>3, <1>6 DEF Segment
<1>10. Tiled(cut2, h, list2, <<>>)
  BY <1>8, <1>9 DEF Tiled
<1>11. cut2[IF done THEN 1 ELSE 0] = cut[IF done THEN 1 ELSE 0]
  <2>1. 0 \in 0 .. n - 1 /\ 1 \in 0 .. n - 1
    BY <1>3
  <2>2. cut2[0] = cut[0] /\ cut2[1] = cut[1]
    BY <1>6, <2>1
  <2>3. QED BY <2>2
<1>12. QED BY <1>1, <1>6, <1>10, <1>11 DEF Ordered

\* Only the items of the blocks matter.
LEMMA OrderedAlike ==
    ASSUME NEW h, NEW list \in Seq(BlockType), NEW list2 \in Seq(BlockType), NEW buffer,
           NEW g, NEW done, Len(list2) = Len(list),
           \A i \in 1 .. Len(list) : list2[i].items = list[i].items,
           Ordered(h, list, buffer, g, done)
    PROVE  Ordered(h, list2, buffer, g, done)
<1>1. PICK cut \in Cuts(h, list) :
        /\ Tiled(cut, h, list, buffer)
        /\ Len(g) = cut[IF done THEN 1 ELSE 0] /\ Segment(g, h, 0)
  BY DEF Ordered
<1>2. cut \in Cuts(h, list2)
  BY DEF Cuts
<1>3. Tiled(cut, h, list2, buffer)
  BY <1>1 DEF Tiled
<1>4. QED BY <1>1, <1>2, <1>3 DEF Ordered

\* The head was handed over and is acknowledged.
LEMMA OrderedTail ==
    ASSUME NEW h \in Seq(Item), NEW list \in Seq(BlockType), NEW buffer, NEW g,
           list # <<>>, Ordered(h, list, buffer, g, TRUE)
    PROVE  Ordered(h, Tail(list), buffer, g, FALSE)
<1> DEFINE list2 == Tail(list)
           n == Len(list)
<1>1. PICK cut \in Cuts(h, list) :
        /\ Tiled(cut, h, list, buffer)
        /\ Len(g) = cut[1] /\ Segment(g, h, 0)
  BY DEF Ordered
<1>2. \A i \in 0 .. n : cut[i] \in 0 .. Len(h) /\ cut[i] \in Nat
  BY CutBounds
<1>3. n \in Nat /\ n >= 1 /\ Len(list2) = n - 1 /\ \A i \in 1 .. n - 1 : list2[i] = list[i + 1]
  OBVIOUS
<1> DEFINE cut2 == [i \in 0 .. Len(list2) |-> cut[i + 1]]
<1> HIDE DEF list2
<1>4. \A i \in 0 .. n - 1 : cut2[i] = cut[i + 1]
  BY <1>3
<1>5. cut2 \in Cuts(h, list2)
  BY <1>2, <1>3 DEF Cuts
<1> HIDE DEF cut2
<1>6. ASSUME NEW i \in 1 .. Len(list2)
      PROVE  /\ cut2[i] = cut2[i - 1] + Len(list2[i].items)
             /\ Segment(list2[i].items, h, cut2[i - 1])
  <2>1. i + 1 \in 1 .. n /\ i \in 0 .. n - 1 /\ i - 1 \in 0 .. n - 1 /\ (i - 1) + 1 = i
        /\ (i + 1) - 1 = i /\ i \in 1 .. n - 1
    BY <1>3
  <2>2. /\ cut[i + 1] = cut[(i + 1) - 1] + Len(list[i + 1].items)
        /\ Segment(list[i + 1].items, h, cut[(i + 1) - 1])
    BY <1>1, <2>1 DEF Tiled
  <2>3. cut2[i] = cut[i + 1] /\ cut2[i - 1] = cut[i]
    BY <1>4, <2>1
  <2>4. QED BY <1>3, <2>1, <2>2, <2>3
<1>7. Len(h) = cut2[Len(list2)] + Len(buffer) /\ Segment(buffer, h, cut2[Len(list2)])
  <2>1. n - 1 \in 0 .. n - 1 /\ (n - 1) + 1 = n
    BY <1>3
  <2>2. QED BY <1>1, <1>3, <1>4, <2>1 DEF Tiled
<1>8. Tiled(cut2, h, list2, buffer)
  BY <1>6, <1>7 DEF Tiled
<1>9. cut2[0] = cut[1]
  BY <1>3, <1>4
<1>10. QED BY <1>1, <1>5, <1>8, <1>9 DEF Ordered, list2

\* The head is handed over.
LEMMA OrderedHandOver ==
    ASSUME NEW h \in Seq(Item), NEW list \in Seq(BlockType), NEW buffer \in Seq(Item),
           NEW g \in Seq(Handed), list # <<>>, Ordered(h, list, buffer, g, FALSE)
    PROVE  Ordered(h, list, buffer, g \o list[1].items, TRUE)
<1> DEFINE x == list[1].items
<1>1. PICK cut \in Cuts(h, list) :
        /\ Tiled(cut, h, list, buffer)
        /\ Len(g) = cut[0] /\ Segment(g, h, 0)
  BY DEF Ordered
<1>2. 1 \in 1 .. Len(list)
  OBVIOUS
<1>3. x \in Seq(Item) /\ x \in Seq(Handed) /\ Len(x) \in Nat
  BY <1>2, BlockItems DEF Handed
<1>4. cut[1] = cut[0] + Len(x) /\ Segment(x, h, cut[0])
  BY <1>1, <1>2 DEF Tiled
<1> HIDE DEF x
<1>5. /\ Len(g \o x) = Len(g) + Len(x)
      /\ \A k \in 1 .. Len(g) : (g \o x)[k] = g[k]
      /\ \A k \in Len(g) + 1 .. Len(g) + Len(x) : (g \o x)[k] = x[k - Len(g)]
  BY <1>3
<1>6. Segment(g \o x, h, 0)
  <2> SUFFICES ASSUME NEW k \in 1 .. Len(g) + Len(x) PROVE (g \o x)[k] = h[0 + k]
    BY <1>5 DEF Segment
  <2>1. CASE k \in 1 .. Len(g)
    BY <1>1, <1>5, <2>1 DEF Segment
  <2>2. CASE k \in Len(g) + 1 .. Len(g) + Len(x)
    <3>1. k - Len(g) \in 1 .. Len(x)
      BY <1>3, <2>2
    <3>2. x[k - Len(g)] = h[cut[0] + (k - Len(g))]
      BY <1>4, <3>1 DEF Segment
    <3>3. cut[0] + (k - Len(g)) = 0 + k
      BY <1>1, <1>3
    <3>4. QED BY <1>5, <2>2, <3>2, <3>3
  <2>3. QED BY <1>3, <2>1, <2>2
<1>7. Len(g \o x) = cut[1]
  BY <1>1, <1>4, <1>5
<1>8. QED BY <1>1, <1>6, <1>7 DEF Ordered, x

\* What was handed over is the beginning of what was sent.
LEMMA OrderedMeans ==
    ASSUME NEW h \in Seq(Item), NEW list \in Seq(BlockType), NEW buffer \in Seq(Item),
           NEW g \in Seq(Handed), NEW done \in BOOLEAN, done => list # <<>>,
           Ordered(h, list, buffer, g, done)
    PROVE  /\ Len(g) <= Len(h) /\ \A k \in 1 .. Len(g) : g[k] = h[k]
           /\ list = <<>> /\ buffer = <<>> => Len(g) = Len(h)
<1>1. PICK cut \in Cuts(h, list) :
        /\ Tiled(cut, h, list, buffer)
        /\ Len(g) = cut[IF done THEN 1 ELSE 0] /\ Segment(g, h, 0)
  BY DEF Ordered
<1>2. (IF done THEN 1 ELSE 0) \in 0 .. Len(list)
  OBVIOUS
<1>3. Len(g) <= Len(h)
  BY <1>1, <1>2, CutBounds
<1>4. \A k \in 1 .. Len(g) : g[k] = h[k]
  BY <1>1 DEF Segment
<1>5. ASSUME list = <<>>, buffer = <<>> PROVE Len(g) = Len(h)
  <2>1. Len(list) = 0 /\ Len(buffer) = 0 /\ ~done
    BY <1>5
  <2>2. Len(h) = cut[0] + 0 /\ cut[0] \in Nat
    BY <1>1, <2>1, CutBounds DEF Tiled
  <2>3. QED BY <1>1, <2>1, <2>2
<1>6. QED BY <1>3, <1>4, <1>5

\* the items of the head are among those that were sent
LEMMA HeadWasSent ==
    ASSUME NEW h \in Seq(Item), NEW list \in Seq(BlockType), NEW buffer, NEW g, NEW done,
           list # <<>>, Ordered(h, list, buffer, g, done)
    PROVE  \A k \in 1 .. Len(list[1].items) : \E i \in 1 .. Len(h) : list[1].items[k] = h[i]
<1>1. PICK cut \in Cuts(h, list) : Tiled(cut, h, list, buffer)
  BY DEF Ordered
<1>2. 1 \in 1 .. Len(list) /\ 0 \in 0 .. Len(list) /\ 1 \in 0 .. Len(list)
  OBVIOUS
<1>3. cut[1] = cut[0] + Len(list[1].items) /\ Segment(list[1].items, h, cut[0])
  BY <1>1, <1>2 DEF Tiled
<1>4. cut[0] \in Nat /\ cut[1] \in 0 .. Len(h) /\ Len(list[1].items) \in Nat
  BY <1>2, CutBounds, BlockItems
<1>5. ASSUME NEW k \in 1 .. Len(list[1].items)
      PROVE  cut[0] + k \in 1 .. Len(h) /\ list[1].items[k] = h[cut[0] + k]
  BY <1>3, <1>4 DEF Segment
<1>6. QED BY <1>5

----------------------------------------------------------------------------
(* The fragments of the head of a list arrive.                             *)

\* the subchannels whose fragments arrived and are not acknowledged yet
TakenOf(channels, bits, peerBits) ==
    {c \in SubChannel : channels[c].state = "WAITING" /\ bits[c] = peerBits[c]}

\* the number of fragments of the head of a list that arrived
Arrived(channels, T, block) == block.acked + Carried(channels, T, NORMAL)

Span(x) == x.start[NORMAL] .. x.start[NORMAL] + x.num[NORMAL] - 1

\* the places of a receive buffer that hold a fragment of the block
Copied(block, b) == {k \in 0 .. b.num - 1 : b.buf[k] = Load(block)}

\* The receive buffer holds what arrived, the fragment with the header among
\* it, and nothing that is under way or was not sent.
Gathered(channels, T, block, b) ==
    /\ b.num = block.num /\ b.acked = Arrived(channels, T, block)
    /\ 0 \in Copied(block, b)
    /\ Cardinality(Copied(block, b)) = Arrived(channels, T, block)
    /\ \A k \in Copied(block, b) :
         /\ k < NextFragment(block)
         /\ \A c \in BusyOf(channels) \ T : k \notin Span(channels[c])

\* There is a buffer exactly while some but not all of the block arrived.
Assembly(channels, T, block, b) ==
    /\ b.alloc <=> /\ 0 < Arrived(channels, T, block)
                   /\ Arrived(channels, T, block) < block.num
    /\ b.alloc => Gathered(channels, T, block, b)

LEMMA NormalStream == NORMAL \in Stream /\ FILE \in Stream /\ NORMAL # FILE
BY DEF NORMAL, FILE, FRAG_NORMAL_STREAM, FRAG_FILE_STREAM, Stream

LEMMA BusySubChannels ==
    ASSUME NEW channels PROVE BusyOf(channels) \in SUBSET SubChannel
BY DEF BusyOf

LEMMA CarriedPart ==
    ASSUME NEW channels \in Channels, NEW B \in SUBSET SubChannel, NEW S \in SUBSET B,
           NEW j \in Stream
    PROVE  /\ Carried(channels, S, j) \in Nat /\ Carried(channels, B, j) \in Nat
           /\ Carried(channels, S, j) <= Carried(channels, B, j)
<1> DEFINE D == B \ S
<1>1. S \in SUBSET SubChannel /\ D \in SUBSET SubChannel /\ S \cap D = {} /\ B = S \cup D
  OBVIOUS
<1> HIDE DEF D
<1>2. /\ Carried(channels, S, j) \in Nat /\ Carried(channels, D, j) \in Nat
      /\ Carried(channels, B, j) \in Nat
  BY <1>1, CarriedFinite
<1>3. Carried(channels, S \cup D, j) = Carried(channels, S, j) + Carried(channels, D, j)
  BY <1>1, CarriedUnion
<1>4. Carried(channels, B, j) = Carried(channels, S, j) + Carried(channels, D, j)
  BY <1>1, <1>3
<1>5. QED BY <1>2, <1>4

LEMMA ArrivedFacts ==
    ASSUME NEW channels \in Channels, NEW T \in SUBSET BusyOf(channels),
           NEW list \in Seq(BlockType), list # <<>>, Counted(channels, list, NORMAL)
    PROVE  /\ Arrived(channels, T, list[1]) \in Nat
           /\ NextFragment(list[1]) \in Nat /\ list[1].num \in Nat
           /\ Arrived(channels, T, list[1]) <= NextFragment(list[1])
           /\ NextFragment(list[1]) <= list[1].num
           /\ \A c \in BusyOf(channels) \ T :
                /\ Arrived(channels, T \cup {c}, list[1]) =
                     Arrived(channels, T, list[1]) + channels[c].num[NORMAL]
                /\ Arrived(channels, T, list[1]) + channels[c].num[NORMAL]
                     <= NextFragment(list[1])
<1> DEFINE block == list[1]
           B == BusyOf(channels)
<1>1. /\ block.acked \in Nat /\ block.pending \in Int /\ block.num \in Nat
      /\ NextFragment(block) = block.acked + block.pending
  BY BlockFields
<1>2. block.pending = Carried(channels, B, NORMAL) /\ NextFragment(block) <= block.num
  BY DEF Counted
<1>3. ASSUME NEW S \in SUBSET B
      PROVE  /\ Carried(channels, S, NORMAL) \in Nat
             /\ Carried(channels, S, NORMAL) <= Carried(channels, B, NORMAL)
  BY BusySubChannels, CarriedPart, NormalStream
<1>4. ASSUME NEW c \in B \ T
      PROVE  /\ Carried(channels, T \cup {c}, NORMAL)
                  = Carried(channels, T, NORMAL) + channels[c].num[NORMAL]
             /\ channels[c].num[NORMAL] \in Nat
             /\ T \cup {c} \in SUBSET B
  <2>1. T \in SUBSET SubChannel /\ {c} \in SUBSET SubChannel /\ c \in SubChannel
        /\ T \cap {c} = {} /\ T \cup {c} \in SUBSET B
    BY BusySubChannels
  <2>2. Carried(channels, {c}, NORMAL) = channels[c].num[NORMAL]
    BY <2>1, CarriedOne, NormalStream
  <2>3. Carried(channels, T \cup {c}, NORMAL)
          = Carried(channels, T, NORMAL) + Carried(channels, {c}, NORMAL)
    BY <2>1, CarriedUnion, NormalStream
  <2>4. channels[c].num[NORMAL] \in Nat
    BY <2>1, ChannelFields, NormalStream
  <2>5. QED BY <2>1, <2>2, <2>3, <2>4
<1> HIDE DEF block, B
<1>5. /\ Arrived(channels, T, block) \in Nat /\ NextFragment(block) \in Nat
      /\ Arrived(channels, T, block) <= NextFragment(block)
  <2>1. Carried(channels, T, NORMAL) \in Nat
        /\ Carried(channels, T, NORMAL) <= Carried(channels, B, NORMAL)
        /\ Carried(channels, B, NORMAL) \in Nat
    BY <1>3 DEF B
  <2>2. QED BY <1>1, <1>2, <2>1 DEF Arrived
<1>6. ASSUME NEW c \in B \ T
      PROVE  /\ Arrived(channels, T \cup {c}, block)
                  = Arrived(channels, T, block) + channels[c].num[NORMAL]
             /\ Arrived(channels, T, block) + channels[c].num[NORMAL] <= NextFragment(block)
  <2>1. Carried(channels, T \cup {c}, NORMAL) <= Carried(channels, B, NORMAL)
        /\ Carried(channels, T, NORMAL) \in Nat /\ Carried(channels, B, NORMAL) \in Nat
    BY <1>3, <1>4
  <2>2. QED BY <1>1, <1>2, <1>4, <2>1 DEF Arrived
<1>7. QED BY <1>1, <1>2, <1>5, <1>6 DEF block, B

\* Nothing that a receive buffer has to do with changes, but more may be sent.
LEMMA AssemblyAlike ==
    ASSUME NEW channels, NEW T, NEW block, NEW channels2, NEW T2, NEW block2, NEW b,
           Arrived(channels2, T2, block2) = Arrived(channels, T, block),
           block2.num = block.num, Load(block2) = Load(block),
           NextFragment(block) \in Int, NextFragment(block2) \in Int,
           NextFragment(block) <= NextFragment(block2),
           \A c \in BusyOf(channels2) \ T2 :
              \/ c \in BusyOf(channels) \ T /\ Span(channels2[c]) = Span(channels[c])
              \/ \A k \in Span(channels2[c]) : k >= NextFragment(block),
           Assembly(channels, T, block, b)
    PROVE  Assembly(channels2, T2, block2, b)
<1>1. Copied(block2, b) = Copied(block, b)
  BY DEF Copied
<1>2. \A k \in Copied(block, b) : k \in Int
  BY DEF Copied
<1>3. ASSUME Gathered(channels, T, block, b) PROVE Gathered(channels2, T2, block2, b)
  <2>1. ASSUME NEW k \in Copied(block, b)
        PROVE  /\ k < NextFragment(block2)
               /\ \A c \in BusyOf(channels2) \ T2 : k \notin Span(channels2[c])
    <3>1. k \in Int /\ k < NextFragment(block)
          /\ \A c \in BusyOf(channels) \ T : k \notin Span(channels[c])
      BY <1>2, <1>3 DEF Gathered
    <3>2. QED BY <3>1
  <2>2. QED BY <1>1, <1>3, <2>1 DEF Gathered
<1>4. QED BY <1>3 DEF Assembly

\* What becomes of a receive buffer when a group of fragments arrives.
LEMMA ReadOutcome ==
    ASSUME NEW b, RecvOK(b), NEW group, GroupOK(group), group.num > 0
    PROVE  LET result == ReadSubChannelData(b, group)
               b2 == result.buffer
               range == group.start .. group.start + group.num - 1
           IN /\ group.start # 0 /\ ~b.alloc => ~result.ok /\ b2 = b
              /\ group.start = 0 /\ group.num <= group.total =>
                   /\ result.ok /\ b2.alloc /\ b2.num = group.total /\ b2.acked = group.num
                   /\ \A k \in 0 .. group.total - 1 :
                        b2.buf[k] = IF k \in range THEN group.load ELSE Unset
              /\ group.start # 0 /\ b.alloc /\ group.start + group.num <= b.num =>
                   /\ result.ok /\ b2.alloc /\ b2.num = b.num
                   /\ b2.acked = b.acked + group.num
                   /\ \A k \in 0 .. b.num - 1 :
                        b2.buf[k] = IF k \in range THEN group.load ELSE b.buf[k]
<1> DEFINE fresh == [alloc |-> TRUE, num |-> group.total, acked |-> 0,
                     buf |-> [k \in 0 .. group.total - 1 |-> Unset]]
           range == group.start .. group.start + group.num - 1
           written(target) ==
               [target EXCEPT !.acked = @ + group.num,
                              !.buf = [k \in DOMAIN target.buf |->
                                         IF k \in range THEN group.load ELSE target.buf[k]]]
           result == ReadSubChannelData(b, group)
<1>1. group.start \in Nat /\ group.num \in Nat /\ group.total \in Nat
  BY DEF GroupOK, GroupType
<1>2. ASSUME group.start # 0, ~b.alloc PROVE ~result.ok /\ result.buffer = b
  BY <1>1, <1>2 DEF ReadSubChannelData
<1>3. ASSUME group.start = 0, group.num <= group.total
      PROVE  result = [ok |-> TRUE, buffer |-> written(fresh)]
  BY <1>1, <1>3 DEF ReadSubChannelData
<1>4. ASSUME group.start # 0, b.alloc, group.start + group.num <= b.num
      PROVE  result = [ok |-> TRUE, buffer |-> written(b)]
  <2>1. b.num \in Nat
    BY DEF RecvOK, BufferOK
  <2>2. QED BY <1>1, <1>4, <2>1 DEF ReadSubChannelData
<1>5. /\ fresh.alloc /\ fresh.num = group.total /\ fresh.acked = 0
      /\ fresh.buf = [k \in 0 .. group.total - 1 |-> Unset]
      /\ fresh = [alloc |-> fresh.alloc, num |-> fresh.num, acked |-> fresh.acked,
                  buf |-> fresh.buf]
  OBVIOUS
<1>6. /\ b = [alloc |-> b.alloc, num |-> b.num, acked |-> b.acked, buf |-> b.buf]
      /\ b.acked \in Nat /\ DOMAIN b.buf = 0 .. b.num - 1
  BY DEF RecvOK, BufferOK
<1> HIDE DEF fresh, result
<1>7. ASSUME NEW target, target = [alloc |-> target.alloc, num |-> target.num,
                                   acked |-> target.acked, buf |-> target.buf]
      PROVE  /\ written(target).alloc = target.alloc /\ written(target).num = target.num
             /\ written(target).acked = target.acked + group.num
             /\ written(target).buf = [k \in DOMAIN target.buf |->
                                         IF k \in range THEN group.load ELSE target.buf[k]]
  BY <1>7
<1> HIDE DEF written
<1>8. ASSUME group.start = 0, group.num <= group.total
      PROVE  LET b2 == result.buffer
             IN /\ result.ok /\ b2.alloc /\ b2.num = group.total /\ b2.acked = group.num
                /\ \A k \in 0 .. group.total - 1 :
                     b2.buf[k] = IF k \in range THEN group.load ELSE Unset
  <2>1. result.ok /\ result.buffer = written(fresh)
    BY <1>3, <1>8
  <2>2. DOMAIN fresh.buf = 0 .. group.total - 1
        /\ \A k \in 0 .. group.total - 1 : fresh.buf[k] = Unset
    BY <1>5
  <2>3. /\ written(fresh).alloc = fresh.alloc /\ written(fresh).num = fresh.num
        /\ written(fresh).acked = fresh.acked + group.num
        /\ written(fresh).buf = [k \in 0 .. group.total - 1 |->
                                    IF k \in range THEN group.load ELSE fresh.buf[k]]
    BY <1>5, <1>7, <2>2
  <2> HIDE DEF range
  <2>4. QED BY <1>1, <1>5, <2>1, <2>2, <2>3
<1>9. ASSUME group.start # 0, b.alloc, group.start + group.num <= b.num
      PROVE  LET b2 == result.buffer
             IN /\ result.ok /\ b2.alloc /\ b2.num = b.num
                /\ b2.acked = b.acked + group.num
                /\ \A k \in 0 .. b.num - 1 :
                     b2.buf[k] = IF k \in range THEN group.load ELSE b.buf[k]
  <2>1. result.ok /\ result.buffer = written(b)
    BY <1>4, <1>9
  <2>2. /\ written(b).alloc = b.alloc /\ written(b).num = b.num
        /\ written(b).acked = b.acked + group.num
        /\ written(b).buf = [k \in 0 .. b.num - 1 |->
                                IF k \in range THEN group.load ELSE b.buf[k]]
    BY <1>6, <1>7
  <2> HIDE DEF range
  <2>3. QED BY <1>9, <2>1, <2>2
<1>10. QED BY <1>2, <1>8, <1>9 DEF result

LEMMA GroupOfBlock ==
    ASSUME NEW channels \in Channels, NEW c \in BusyOf(channels),
           NEW list \in Seq(BlockType), list # <<>>, Counted(channels, list, NORMAL),
           channels[c].num[NORMAL] > 0
    PROVE  LET group == FragmentGroup(list[1], channels[c], NORMAL)
               start == channels[c].start[NORMAL]
               num == channels[c].num[NORMAL]
           IN /\ group = [start |-> start, num |-> num,
                          total |-> IF start = 0 THEN list[1].num ELSE 0,
                          load |-> Load(list[1])]
              /\ start \in Nat /\ num \in Nat
              /\ start + num <= NextFragment(list[1]) /\ start + num <= list[1].num
              /\ GroupOK(group)
<1>1. c \in SubChannel
  BY BusySubChannels
<1>2. /\ channels[c].start[NORMAL] \in Nat
      /\ channels[c].start[NORMAL] + channels[c].num[NORMAL] <= NextFragment(list[1])
      /\ NextFragment(list[1]) <= list[1].num
  BY DEF Counted
<1>3. channels[c].num[NORMAL] \in Nat
  BY <1>1, ChannelFields, NormalStream
<1>4. NextFragment(list[1]) \in Int /\ list[1].num \in Nat
  BY BlockFields
<1>5. GroupOK(FragmentGroup(list[1], channels[c], NORMAL))
  BY FragmentGroupFacts, NormalStream DEF GroupOK
<1>6. channels[c].start[NORMAL] + channels[c].num[NORMAL] <= list[1].num
  BY <1>2, <1>3, <1>4
<1>7. QED BY <1>2, <1>3, <1>5, <1>6 DEF FragmentGroup

LEMMA IntervalSize ==
    ASSUME NEW a \in Nat, NEW n \in Nat
    PROVE  IsFiniteSet(a .. a + n - 1) /\ Cardinality(a .. a + n - 1) = n
<1>1. PICK z \in Int : z = a + n - 1
  OBVIOUS
<1>2. IsFiniteSet(a .. z) /\ Cardinality(a .. z) = IF a > z THEN 0 ELSE z - a + 1
  BY FS_Interval
<1>3. QED BY <1>1, <1>2

LEMMA SpanSize ==
    ASSUME NEW x, x.start[NORMAL] \in Nat, x.num[NORMAL] \in Nat
    PROVE  IsFiniteSet(Span(x)) /\ Cardinality(Span(x)) = x.num[NORMAL]
BY IntervalSize DEF Span

LEMMA SpansApart ==
    ASSUME NEW channels \in Channels, NEW list, NEW c \in BusyOf(channels),
           NEW d \in BusyOf(channels) \ {c}, Counted(channels, list, NORMAL),
           channels[c].num[NORMAL] > 0
    PROVE  \A k \in Span(channels[c]) : k \notin Span(channels[d])
<1>1. Apart(channels[c], channels[d], NORMAL)
  BY DEF Counted
<1>2. c \in SubChannel /\ d \in SubChannel
  BY BusySubChannels
<1>3. ASSUME NEW e \in {c, d}
      PROVE channels[e].num[NORMAL] \in Nat /\ channels[e].start[NORMAL] \in Int
  <2>1. e \in SubChannel
    BY <1>2
  <2>2. channels[e].num[NORMAL] \in Nat /\ channels[e].start[NORMAL] \in Nat \cup {-1}
    BY <2>1, ChannelFields, NormalStream
  <2>3. QED BY <2>2
<1>4. QED BY <1>1, <1>3 DEF Apart, Span

\* What was copied and the fragments of one more subchannel.
LEMMA GatheredMore ==
    ASSUME NEW channels \in Channels, NEW T \in SUBSET BusyOf(channels),
           NEW c \in BusyOf(channels) \ T,
           NEW list \in Seq(BlockType), list # <<>>, Counted(channels, list, NORMAL),
           channels[c].num[NORMAL] > 0,
           NEW b, b.num = list[1].num,
           b.acked = Arrived(channels, T, list[1]) + channels[c].num[NORMAL],
           NEW old, IsFiniteSet(old), Cardinality(old) = Arrived(channels, T, list[1]),
           Copied(list[1], b) = old \cup Span(channels[c]), 0 \in Copied(list[1], b),
           \A k \in old : /\ k < NextFragment(list[1])
                          /\ \A d \in BusyOf(channels) \ T : k \notin Span(channels[d])
    PROVE  Gathered(channels, T \cup {c}, list[1], b)
<1> DEFINE block == list[1]
           span == Span(channels[c])
<1>1. /\ channels[c].start[NORMAL] \in Nat /\ channels[c].num[NORMAL] \in Nat
      /\ channels[c].start[NORMAL] + channels[c].num[NORMAL] <= NextFragment(block)
  BY GroupOfBlock
<1>2. /\ Arrived(channels, T \cup {c}, block)
           = Arrived(channels, T, block) + channels[c].num[NORMAL]
      /\ NextFragment(block) \in Nat
  BY ArrivedFacts
<1>3. IsFiniteSet(span) /\ Cardinality(span) = channels[c].num[NORMAL]
  BY <1>1, SpanSize
<1>4. old \cap span = {}
  OBVIOUS
<1>5. Cardinality(old \cup span) = Cardinality(old) + Cardinality(span)
  BY <1>3, <1>4, ApartSizes
<1>6. ASSUME NEW k \in span
      PROVE  /\ k < NextFragment(block)
             /\ \A d \in BusyOf(channels) \ (T \cup {c}) : k \notin Span(channels[d])
  <2>1. k < NextFragment(block)
    BY <1>1, <1>2 DEF Span
  <2>2. QED BY <2>1, SpansApart
<1> HIDE DEF block, span
<1>7. Cardinality(Copied(block, b)) = Arrived(channels, T \cup {c}, block)
  BY <1>2, <1>3, <1>5 DEF block, span
<1>8. \A k \in Copied(block, b) :
        /\ k < NextFragment(block)
        /\ \A d \in BusyOf(channels) \ (T \cup {c}) : k \notin Span(channels[d])
  BY <1>6 DEF block, span
<1>9. QED BY <1>2, <1>7, <1>8 DEF Gathered, block

LEMMA LoadNotUnset == ASSUME NEW block \in BlockType PROVE Load(block) # Unset
<1>1. block.enc # "unset"
  BY DEF BlockType
<1>2. QED BY <1>1 DEF Load, Unset

\* A group of fragments arrives that did not arrive before.  Without the buffer
\* that the one with the header allocates, it is refused.
LEMMA AssemblyArrival ==
    ASSUME NEW channels \in Channels, NEW T \in SUBSET BusyOf(channels),
           NEW c \in BusyOf(channels) \ T,
           NEW list \in Seq(BlockType), list # <<>>, Counted(channels, list, NORMAL),
           channels[c].num[NORMAL] > 0,
           NEW b, RecvOK(b), Assembly(channels, T, list[1], b)
    PROVE  LET result == ReadSubChannelData(b, FragmentGroup(list[1], channels[c], NORMAL))
           IN \/ ~result.ok /\ result.buffer = b
              \/ /\ result.ok /\ result.buffer.alloc
                 /\ Gathered(channels, T \cup {c}, list[1], result.buffer)
<1> DEFINE block == list[1]
           group == FragmentGroup(block, channels[c], NORMAL)
           start == channels[c].start[NORMAL]
           num == channels[c].num[NORMAL]
           span == Span(channels[c])
           result == ReadSubChannelData(b, group)
           b2 == result.buffer
<1>1. /\ group = [start |-> start, num |-> num,
                  total |-> IF start = 0 THEN block.num ELSE 0, load |-> Load(block)]
      /\ start \in Nat /\ num \in Nat /\ num > 0
      /\ start + num <= NextFragment(block) /\ start + num <= block.num
      /\ GroupOK(group)
  BY GroupOfBlock
<1>2. /\ Arrived(channels, T, block) \in Nat
      /\ Arrived(channels, T, block) + num <= NextFragment(block)
      /\ NextFragment(block) <= block.num /\ block.num \in Nat /\ NextFragment(block) \in Nat
  BY ArrivedFacts
<1>3. block \in BlockType /\ Load(block) # Unset
  BY BlockFields, LoadNotUnset
<1>4. /\ group.start = start /\ group.num = num /\ group.load = Load(block)
      /\ group.total = IF start = 0 THEN block.num ELSE 0
  BY <1>1
<1>5. span = start .. start + num - 1
  BY DEF Span
<1> HIDE DEF group, start, num, block, span
<1>6. /\ start # 0 /\ ~b.alloc => ~result.ok /\ b2 = b
      /\ start = 0 /\ num <= block.num =>
           /\ result.ok /\ b2.alloc /\ b2.num = block.num /\ b2.acked = num
           /\ \A k \in 0 .. block.num - 1 :
                b2.buf[k] = IF k \in span THEN Load(block) ELSE Unset
      /\ start # 0 /\ b.alloc /\ start + num <= b.num =>
           /\ result.ok /\ b2.alloc /\ b2.num = b.num /\ b2.acked = b.acked + num
           /\ \A k \in 0 .. b.num - 1 :
                b2.buf[k] = IF k \in span THEN Load(block) ELSE b.buf[k]
  <2>1. group.num > 0
    BY <1>1, <1>4
  <2> HIDE DEF result
  <2>2. /\ group.start # 0 /\ ~b.alloc => ~result.ok /\ b2 = b
        /\ group.start = 0 /\ group.num <= group.total =>
             /\ result.ok /\ b2.alloc /\ b2.num = group.total /\ b2.acked = group.num
             /\ \A k \in 0 .. group.total - 1 :
                  b2.buf[k] = IF k \in group.start .. group.start + group.num - 1
                              THEN group.load ELSE Unset
        /\ group.start # 0 /\ b.alloc /\ group.start + group.num <= b.num =>
             /\ result.ok /\ b2.alloc /\ b2.num = b.num
             /\ b2.acked = b.acked + group.num
             /\ \A k \in 0 .. b.num - 1 :
                  b2.buf[k] = IF k \in group.start .. group.start + group.num - 1
                              THEN group.load ELSE b.buf[k]
    BY <1>1, <2>1, ReadOutcome DEF result
  <2>3. QED BY <1>4, <1>5, <2>2
<1> HIDE DEF result
<1>7. span \subseteq 0 .. block.num - 1
  BY <1>1, <1>2, <1>5
<1>8. CASE start # 0 /\ ~b.alloc
  BY <1>6, <1>8 DEF result, group, block
<1>9. CASE start = 0
  <2>1. 0 \in span
    BY <1>1, <1>5, <1>9
  <2>2. ~b.alloc
    BY <2>1 DEF Assembly, Gathered, span, block
  <2>3. Arrived(channels, T, block) = 0
    BY <1>1, <1>2, <2>2 DEF Assembly, block
  <2>4. /\ result.ok /\ b2.alloc /\ b2.num = block.num /\ b2.acked = num
        /\ \A k \in 0 .. block.num - 1 : b2.buf[k] = IF k \in span THEN Load(block) ELSE Unset
    BY <1>1, <1>2, <1>6, <1>9
  <2>5. Copied(block, b2) = {} \cup span
    BY <1>3, <1>7, <2>4 DEF Copied
  <2>6. IsFiniteSet({}) /\ Cardinality({}) = 0
    BY FS_EmptySet
  <2>7. Gathered(channels, T \cup {c}, block, b2)
    <3>1. b2.acked = Arrived(channels, T, block) + num
      BY <1>1, <2>3, <2>4
    <3> HIDE DEF b2
    <3>2. QED BY <1>1, <2>1, <2>3, <2>4, <2>5, <2>6, <3>1, GatheredMore DEF block, span, num
  <2>8. QED BY <2>4, <2>7 DEF result, group, block
<1>10. CASE start # 0 /\ b.alloc
  <2>1. Gathered(channels, T, block, b)
    BY <1>10 DEF Assembly, block
  <2>2. b.num = block.num /\ b.acked = Arrived(channels, T, block) /\ 0 \in Copied(block, b)
    BY <2>1 DEF Gathered
  <2>3. /\ result.ok /\ b2.alloc /\ b2.num = block.num
        /\ b2.acked = Arrived(channels, T, block) + num
        /\ \A k \in 0 .. block.num - 1 : b2.buf[k] = IF k \in span THEN Load(block) ELSE b.buf[k]
    BY <1>1, <1>6, <1>10, <2>2
  <2>4. Copied(block, b2) = Copied(block, b) \cup span
    BY <1>7, <2>2, <2>3 DEF Copied
  <2>5. IsFiniteSet(Copied(block, b))
    <3>1. IsFiniteSet(0 .. 0 + block.num - 1)
      BY <1>2, IntervalSize
    <3>2. Copied(block, b) \subseteq 0 .. 0 + block.num - 1
      BY <1>2, <2>2 DEF Copied
    <3>3. QED BY <3>1, <3>2, FS_Subset
  <2>6. Gathered(channels, T \cup {c}, block, b2)
    <3>1. \A k \in Copied(block, b) :
            /\ k < NextFragment(block)
            /\ \A d \in BusyOf(channels) \ T : k \notin Span(channels[d])
      BY <2>1 DEF Gathered
    <3>2. Cardinality(Copied(block, b)) = Arrived(channels, T, block)
      BY <2>1 DEF Gathered
    <3>3. 0 \in Copied(block, b2)
      BY <2>2, <2>4
    <3> HIDE DEF b2
    <3>4. QED BY <1>1, <2>3, <2>4, <2>5, <3>1, <3>2, <3>3, GatheredMore DEF block, span, num
  <2>7. QED BY <2>3, <2>6 DEF result, group, block
<1>11. QED BY <1>8, <1>9, <1>10

\* A buffer that holds every fragment of a block holds the block.
LEMMA CompleteContent ==
    ASSUME NEW channels, NEW T, NEW block \in BlockType, block.enc # "snappy",
           block.num > 0, NEW b, RecvOK(b), Gathered(channels, T, block, b),
           Arrived(channels, T, block) = block.num
    PROVE  Content(b) = block.items
<1>1. block.num \in Nat /\ block.enc \in {"none", "bzip2"}
  BY DEF BlockType
<1>2. DOMAIN b.buf = 0 .. block.num - 1
  BY DEF RecvOK, BufferOK, Gathered
<1>3. Copied(block, b) \subseteq DOMAIN b.buf /\ Cardinality(Copied(block, b)) = block.num
  BY <1>2 DEF Gathered, Copied
<1>4. IsFiniteSet(DOMAIN b.buf) /\ Cardinality(DOMAIN b.buf) = block.num
  <2>1. IsFiniteSet(0 .. 0 + block.num - 1) /\ Cardinality(0 .. 0 + block.num - 1) = block.num
    BY <1>1, IntervalSize
  <2>2. 0 + block.num - 1 = block.num - 1
    BY <1>1
  <2>3. QED BY <1>2, <2>1, <2>2
<1>5. Copied(block, b) = DOMAIN b.buf
  BY <1>3, <1>4, FS_Subset
<1>6. \A k \in DOMAIN b.buf : b.buf[k] = Load(block)
  BY <1>5 DEF Copied
<1>7. 0 \in DOMAIN b.buf
  BY <1>1, <1>2
<1>8. b.buf[0] = Load(block) /\ \A k \in DOMAIN b.buf : b.buf[k] = b.buf[0]
  BY <1>6, <1>7
<1>9. Load(block).items = block.items /\ Load(block).enc = block.enc
  BY DEF Load
<1>10. QED BY <1>1, <1>8, <1>9 DEF Content

LEMMA CheckOutcome ==
    ASSUME NEW b, RecvOK(b)
    PROVE  /\ ~b.alloc \/ b.acked < b.num =>
                \A j \in Stream : CheckReceivingList(b, j) =
                  [handled |-> <<>>, ok |-> TRUE, cleared |-> FALSE, buffer |-> b]
           /\ b.alloc /\ b.acked > b.num =>
                \A j \in Stream : CheckReceivingList(b, j) =
                  [handled |-> <<>>, ok |-> FALSE, cleared |-> FALSE, buffer |-> b]
           /\ b.alloc /\ b.acked = b.num =>
                LET result == ProcessMessages(Content(b))
                IN CheckReceivingList(b, NORMAL) =
                     [handled |-> result.handled, ok |-> result.ok, cleared |-> result.cleared,
                      buffer |-> IF result.ok THEN NoBuffer ELSE b]
<1>1. b.acked \in Nat /\ b.num \in Nat
  BY DEF RecvOK, BufferOK
<1>2. ASSUME ~b.alloc \/ b.acked < b.num, NEW j \in Stream
      PROVE  CheckReceivingList(b, j) =
               [handled |-> <<>>, ok |-> TRUE, cleared |-> FALSE, buffer |-> b]
  BY <1>1, <1>2 DEF CheckReceivingList
<1>3. ASSUME b.alloc, b.acked > b.num, NEW j \in Stream
      PROVE  CheckReceivingList(b, j) =
               [handled |-> <<>>, ok |-> FALSE, cleared |-> FALSE, buffer |-> b]
  BY <1>1, <1>3 DEF CheckReceivingList
<1>4. ASSUME b.alloc, b.acked = b.num
      PROVE  LET result == ProcessMessages(Content(b))
             IN CheckReceivingList(b, NORMAL) =
                  [handled |-> result.handled, ok |-> result.ok, cleared |-> result.cleared,
                   buffer |-> IF result.ok THEN NoBuffer ELSE b]
  BY <1>1, <1>4, NormalStream DEF CheckReceivingList, NORMAL, FILE
<1>5. QED BY <1>2, <1>3, <1>4

LEMMA NeverCleared ==
    ASSUME ResetMsgs = {}, NEW r, NEW p, \A j \in Stream : RecvOK(recv[r][j]) /\ GroupOK(p.frags[j])
    PROVE  Received(r, p).cleared = FALSE
<1> DEFINE normal == ReadSubChannelData(recv[r][NORMAL], p.frags[NORMAL])
           first == CheckReceivingList(normal.buffer, NORMAL)
<1>1. ASSUME NEW items PROVE ProcessMessages(items).cleared = FALSE
  BY DEF ProcessMessages
<1>2. RecvOK(normal.buffer)
  BY ReadFacts, NormalStream
<1> HIDE DEF normal
<1>3. normal.buffer.acked \in Nat /\ normal.buffer.num \in Nat
  BY <1>2 DEF RecvOK, BufferOK
<1>4. \/ ~normal.buffer.alloc \/ normal.buffer.acked < normal.buffer.num
      \/ normal.buffer.alloc /\ normal.buffer.acked > normal.buffer.num
      \/ normal.buffer.alloc /\ normal.buffer.acked = normal.buffer.num
  BY <1>3
<1>5. first.cleared = FALSE
  <2> DEFINE b == normal.buffer
  <2>1. ASSUME ~b.alloc \/ b.acked < b.num \/ (b.alloc /\ b.acked > b.num)
        PROVE  first.cleared = FALSE
    BY <1>2, <2>1, CheckOutcome, NormalStream
  <2>2. ASSUME b.alloc, b.acked = b.num PROVE first.cleared = FALSE
    <3> HIDE DEF b
    <3>1. first.cleared = ProcessMessages(Content(b)).cleared
      BY <1>2, <2>2, CheckOutcome DEF b
    <3>2. QED BY <1>1, <3>1
  <2>3. QED BY <1>4, <2>1, <2>2
<1>6. QED BY <1>5 DEF Received, normal, NORMAL

\* A handler that does not fail and does not start over takes every message.
LEMMA AllHandled ==
    ASSUME NEW items \in Seq(Item),
           \A k \in 1 .. Len(items) : items[k] \notin ResetMsgs \cup FailMsgs
    PROVE  /\ ProcessMessages(items).handled = items
           /\ ProcessMessages(items).ok /\ ~ProcessMessages(items).cleared
<1> DEFINE stops == {i \in 1 .. Len(items) : items[i] \in ResetMsgs \cup FailMsgs}
<1>1. stops = {}
  OBVIOUS
<1>2. SubSeq(items, 1, Len(items)) = items
  OBVIOUS
<1>3. ProcessMessages(items) = [handled |-> SubSeq(items, 1, Len(items)), ok |-> TRUE,
                                cleared |-> FALSE]
  BY <1>1 DEF ProcessMessages
<1>4. QED BY <1>2, <1>3

\* The two streams of a datagram of which the file stream has no part.
LEMMA ReceivedMessages ==
    ASSUME NEW r, NEW p, p.chan # NoChannel, p.frags[FILE].num = 0,
           RecvOK(recv[r][FILE]), ~recv[r][FILE].alloc
    PROVE  LET in == Received(r, p)
               normal == ReadSubChannelData(recv[r][NORMAL], p.frags[NORMAL])
               first == CheckReceivingList(normal.buffer, NORMAL)
           IN /\ in.recv[FILE] = recv[r][FILE] /\ in.handled[FILE] = <<>>
              /\ ~normal.ok => /\ in.flip = FALSE /\ in.handled[NORMAL] = <<>>
                               /\ in.recv[NORMAL] = normal.buffer
              /\ normal.ok /\ first.ok => /\ in.flip = TRUE
                                          /\ in.handled[NORMAL] = first.handled
                                          /\ in.recv[NORMAL] = first.buffer
<1> DEFINE normal == ReadSubChannelData(recv[r][NORMAL], p.frags[NORMAL])
           file == ReadSubChannelData(recv[r][FILE], p.frags[FILE])
           first == CheckReceivingList(normal.buffer, NORMAL)
           second == CheckReceivingList(file.buffer, FILE)
           Buffers(a, b) == [j \in Stream |-> IF j = NORMAL THEN a ELSE b]
           Result(a, b, flip, x, y, cleared) ==
               [recv |-> Buffers(a, b), flip |-> flip, handled |-> Buffers(x, y),
                cleared |-> cleared]
           in == Received(r, p)
<1>1. file.ok = TRUE /\ file.buffer = recv[r][FILE]
  BY DEF ReadSubChannelData
<1>2. second = [handled |-> <<>>, ok |-> TRUE, cleared |-> FALSE, buffer |-> recv[r][FILE]]
  BY <1>1, CheckOutcome, NormalStream
<1>3. in = IF p.chan = NoChannel
           THEN Result(recv[r][NORMAL], recv[r][FILE], FALSE, <<>>, <<>>, FALSE)
           ELSE IF ~normal.ok
           THEN Result(normal.buffer, recv[r][FILE], FALSE, <<>>, <<>>, FALSE)
           ELSE IF ~file.ok
           THEN Result(normal.buffer, file.buffer, FALSE, <<>>, <<>>, FALSE)
           ELSE IF ~first.ok
           THEN Result(first.buffer, file.buffer, TRUE, first.handled, <<>>, first.cleared)
           ELSE Result(first.buffer, second.buffer, TRUE, first.handled, second.handled, FALSE)
  BY DEF Received, NORMAL, FILE
<1> HIDE DEF normal, file
<1> HIDE DEF first, second
<1>4. ASSUME NEW a, NEW b PROVE Buffers(a, b)[NORMAL] = a /\ Buffers(a, b)[FILE] = b
  BY NormalStream
<1> HIDE DEF in, Buffers
<1>5. CASE ~normal.ok
  <2>1. in = Result(normal.buffer, recv[r][FILE], FALSE, <<>>, <<>>, FALSE)
    BY <1>3, <1>5
  <2>2. QED BY <1>4, <1>5, <2>1 DEF in, normal
<1>6. CASE normal.ok /\ ~first.ok
  <2>1. in = Result(first.buffer, file.buffer, TRUE, first.handled, <<>>, first.cleared)
    BY <1>1, <1>3, <1>6
  <2>2. QED BY <1>1, <1>4, <1>6, <2>1 DEF in, normal, first
<1>7. CASE normal.ok /\ first.ok
  <2>1. in = Result(first.buffer, second.buffer, TRUE, first.handled, second.handled, FALSE)
    BY <1>1, <1>3, <1>7
  <2>2. QED BY <1>2, <1>4, <1>7, <2>1 DEF in, normal, first
<1>8. QED BY <1>5, <1>6, <1>7

\* What a datagram with the fragments of a subchannel makes of the receiver:
\* it is refused, its fragments join those in the buffer, or they complete the
\* block and its messages are handed over.
Arrival(channels, T, c, list, r, p) ==
    /\ channels \in Channels /\ T \in SUBSET BusyOf(channels) /\ c \in BusyOf(channels) \ T
    /\ list \in Seq(BlockType) /\ list # <<>> /\ Counted(channels, list, NORMAL)
    /\ channels[c].num[NORMAL] > 0 /\ list[1].enc # "snappy"
    /\ \A k \in 1 .. Len(list[1].items) : list[1].items[k] \notin ResetMsgs \cup FailMsgs
    /\ \A j \in Stream : RecvOK(recv[r][j]) /\ GroupOK(p.frags[j])
    /\ Assembly(channels, T, list[1], recv[r][NORMAL])
    /\ p.chan # NoChannel /\ p.frags[FILE].num = 0 /\ ~recv[r][FILE].alloc
    /\ p.frags[NORMAL] = FragmentGroup(list[1], channels[c], NORMAL)

Outcome(channels, T, c, list, r, in) ==
    LET n == Arrived(channels, T \cup {c}, list[1])
    IN /\ in.recv[FILE] = recv[r][FILE] /\ in.handled[FILE] = <<>>
       /\ \/ /\ in.flip = FALSE /\ in.handled[NORMAL] = <<>>
             /\ in.recv[NORMAL] = recv[r][NORMAL]
          \/ /\ in.flip = TRUE /\ in.handled[NORMAL] = <<>> /\ n < list[1].num
             /\ in.recv[NORMAL].alloc
             /\ Gathered(channels, T \cup {c}, list[1], in.recv[NORMAL])
          \/ /\ in.flip = TRUE /\ in.handled[NORMAL] = list[1].items
             /\ n = list[1].num /\ ~in.recv[NORMAL].alloc

LEMMA ArrivalOutcome ==
    ASSUME NEW channels, NEW T, NEW c, NEW list, NEW r, NEW p,
           Arrival(channels, T, c, list, r, p)
    PROVE  Outcome(channels, T, c, list, r, Received(r, p))
<1> DEFINE block == list[1]
           in == Received(r, p)
           n == Arrived(channels, T \cup {c}, block)
           normal == ReadSubChannelData(recv[r][NORMAL], p.frags[NORMAL])
           first == CheckReceivingList(normal.buffer, NORMAL)
<1> SUFFICES ASSUME channels \in Channels, T \in SUBSET BusyOf(channels),
                    c \in BusyOf(channels) \ T,
                    list \in Seq(BlockType), list # <<>>, Counted(channels, list, NORMAL),
                    channels[c].num[NORMAL] > 0, list[1].enc # "snappy",
                    \A k \in 1 .. Len(list[1].items) : list[1].items[k] \notin ResetMsgs \cup FailMsgs,
                    \A j \in Stream : RecvOK(recv[r][j]) /\ GroupOK(p.frags[j]),
                    Assembly(channels, T, list[1], recv[r][NORMAL]),
                    p.chan # NoChannel, p.frags[FILE].num = 0, ~recv[r][FILE].alloc,
                    p.frags[NORMAL] = FragmentGroup(list[1], channels[c], NORMAL)
             PROVE  /\ in.recv[FILE] = recv[r][FILE] /\ in.handled[FILE] = <<>>
                    /\ \/ /\ in.flip = FALSE /\ in.handled[NORMAL] = <<>>
                          /\ in.recv[NORMAL] = recv[r][NORMAL]
                       \/ /\ in.flip = TRUE /\ in.handled[NORMAL] = <<>> /\ n < block.num
                          /\ in.recv[NORMAL].alloc
                          /\ Gathered(channels, T \cup {c}, block, in.recv[NORMAL])
                       \/ /\ in.flip = TRUE /\ in.handled[NORMAL] = block.items
                          /\ n = block.num /\ ~in.recv[NORMAL].alloc
  BY DEF Arrival, Outcome
<1>1. RecvOK(recv[r][NORMAL]) /\ RecvOK(recv[r][FILE]) /\ GroupOK(p.frags[NORMAL])
  BY NormalStream
<1>2. /\ in.recv[FILE] = recv[r][FILE] /\ in.handled[FILE] = <<>>
      /\ ~normal.ok => /\ in.flip = FALSE /\ in.handled[NORMAL] = <<>>
                       /\ in.recv[NORMAL] = normal.buffer
      /\ normal.ok /\ first.ok => /\ in.flip = TRUE /\ in.handled[NORMAL] = first.handled
                                  /\ in.recv[NORMAL] = first.buffer
  BY <1>1, ReceivedMessages
<1>3. \/ ~normal.ok /\ normal.buffer = recv[r][NORMAL]
      \/ normal.ok /\ normal.buffer.alloc /\ Gathered(channels, T \cup {c}, block, normal.buffer)
  BY <1>1, AssemblyArrival
<1>4. RecvOK(normal.buffer)
  BY <1>1, ReadFacts
<1>5. n \in Nat /\ n <= block.num /\ block.num \in Nat /\ n > 0
  <2>1. /\ n = Arrived(channels, T, block) + channels[c].num[NORMAL]
        /\ Arrived(channels, T, block) + channels[c].num[NORMAL] <= NextFragment(block)
        /\ NextFragment(block) <= block.num /\ Arrived(channels, T, block) \in Nat
        /\ NextFragment(block) \in Nat /\ block.num \in Nat
    BY ArrivedFacts
  <2>2. channels[c].num[NORMAL] \in Nat
    BY BusySubChannels, ChannelFields, NormalStream
  <2> HIDE DEF n, block
  <2>3. QED BY <2>1, <2>2
<1>6. block \in BlockType /\ block.items \in Seq(Item)
  BY BlockFields
<1> HIDE DEF normal, in, n, block
<1>7. CASE ~normal.ok
  BY <1>2, <1>3, <1>7 DEF in, n, block
<1>8. CASE normal.ok /\ n < block.num
  <2>1. /\ normal.buffer.alloc /\ Gathered(channels, T \cup {c}, block, normal.buffer)
        /\ normal.buffer.acked = n /\ normal.buffer.num = block.num
    BY <1>3, <1>8 DEF Gathered, n
  <2>2. first = [handled |-> <<>>, ok |-> TRUE, cleared |-> FALSE, buffer |-> normal.buffer]
    BY <1>4, <1>8, <2>1, CheckOutcome, NormalStream
  <2>3. first.ok /\ first.handled = <<>> /\ first.buffer = normal.buffer
    BY <2>2
  <2>4. QED BY <1>2, <1>8, <2>1, <2>3 DEF in, n, block
<1>9. CASE normal.ok /\ n = block.num
  <2>1. /\ normal.buffer.alloc /\ Gathered(channels, T \cup {c}, block, normal.buffer)
        /\ normal.buffer.acked = n /\ normal.buffer.num = block.num
    BY <1>3, <1>9 DEF Gathered, n
  <2>2. Content(normal.buffer) = block.items
    BY <1>4, <1>5, <1>6, <1>9, <2>1, CompleteContent DEF n, block
  <2>3. /\ ProcessMessages(block.items).handled = block.items
        /\ ProcessMessages(block.items).ok
    BY <1>6, AllHandled DEF block
  <2> DEFINE result == ProcessMessages(Content(normal.buffer))
  <2>4. result.handled = block.items /\ result.ok
    BY <2>2, <2>3
  <2> HIDE DEF result
  <2>5. first = [handled |-> result.handled, ok |-> result.ok, cleared |-> result.cleared,
                 buffer |-> IF result.ok THEN NoBuffer ELSE normal.buffer]
    BY <1>4, <1>9, <2>1, CheckOutcome DEF result
  <2>6. first.ok /\ first.handled = block.items /\ first.buffer = NoBuffer
    BY <2>4, <2>5
  <2>7. ~NoBuffer.alloc
    BY DEF NoBuffer
  <2>8. QED BY <1>2, <1>9, <2>6, <2>7 DEF in, n, block
<1>10. n < block.num \/ n = block.num
  BY <1>5
<1>11. QED BY <1>7, <1>8, <1>9, <1>10

----------------------------------------------------------------------------
(* One direction of the channel: the sender's subchannels and list, those  *)
(* whose fragments arrived (T), the receiver's buffer (b), what was sent   *)
(* (h) and handed over (g), and the datagrams that may still be accepted   *)
(* of each subchannel (data).                                              *)

Shape(channels, list, buffer, h, g) ==
    /\ channels \in Channels /\ list \in Seq(BlockType) /\ Counted(channels, list, NORMAL)
    /\ buffer \in BufferType /\ h \in Seq(Item) /\ g \in Seq(Handed)

\* every subchannel in use carries messages, none of them from before a Clear()
SubsOK(channels) ==
    \A c \in SubChannel :
        /\ channels[c].state # "DIRTY"
        /\ c \in BusyOf(channels) => channels[c].num[NORMAL] > 0 /\ channels[c].num[FILE] = 0

BlocksOK(list, buffer) ==
    /\ \A i \in 1 .. Len(list) : /\ list[i].num > 0 /\ list[i].bytes > 0
                                 /\ list[i].enc # "snappy"
    /\ buffer.items # <<>> => buffer.bytes > 0

\* all fragments of the head arrived
Done(channels, T, list) == list # <<>> /\ Arrived(channels, T, list[1]) = list[1].num

Delivery(channels, T, list, buffer, h, b, g) ==
    /\ Ordered(h, list, buffer.items, g, Done(channels, T, list))
    /\ list = <<>> => ~b.alloc
    /\ list # <<>> => Assembly(channels, T, list[1], b)

Carries(p, channels, c, list) ==
    /\ c \in BusyOf(channels)
    /\ p.frags[NORMAL] = FragmentGroup(list[1], channels[c], NORMAL)
    /\ p.frags[FILE].num = 0

Flow(channels, T, list, buffer, h, b, g, data) ==
    /\ SubsOK(channels) /\ T \in SUBSET BusyOf(channels)
    /\ BlocksOK(list, buffer)
    /\ Delivery(channels, T, list, buffer, h, b, g)
    /\ \A c \in SubChannel : \A p \in data[c] : Carries(p, channels, c, list)

\* Nothing of a head is under way, or there is none: no subchannel is in use.
LEMMA IdleHead ==
    ASSUME NEW channels \in Channels, SubsOK(channels), NEW list \in Seq(BlockType),
           Counted(channels, list, NORMAL), list = <<>> \/ list[1].pending <= 0
    PROVE  BusyOf(channels) = {}
<1> SUFFICES ASSUME NEW c \in BusyOf(channels) PROVE FALSE
  OBVIOUS
<1>1. c \in SubChannel /\ channels[c].num[NORMAL] > 0
  BY BusySubChannels DEF SubsOK
<1>2. CASE list = <<>>
  BY <1>1, <1>2 DEF Counted
<1>3. CASE list # <<>>
  <2>1. Carried(channels, BusyOf(channels), NORMAL) <= 0
    BY <1>3 DEF Counted
  <2>2. Carried(channels, BusyOf(channels), NORMAL) \in Nat
    BY BusySubChannels, CarriedFinite, NormalStream
  <2>3. Carried(channels, BusyOf(channels), NORMAL) = 0
    BY <2>1, <2>2
  <2>4. channels[c].num[NORMAL] = 0
    BY <2>3, BusySubChannels, CarriedNone, NormalStream
  <2>5. QED BY <1>1, <2>4
<1>4. QED BY <1>2, <1>3

\* Nothing of a block arrived if no subchannel is in use and none acknowledged.
LEMMA NothingArrived ==
    ASSUME NEW channels \in Channels, NEW T \in SUBSET BusyOf(channels),
           BusyOf(channels) = {}, NEW block, block.acked = 0
    PROVE  Arrived(channels, T, block) = 0
<1>1. T = {} /\ T \in SUBSET SubChannel
  OBVIOUS
<1>2. Carried(channels, T, NORMAL) = 0
  BY <1>1, CarriedNone, NormalStream
<1>3. QED BY <1>2 DEF Arrived

LEMMA NewBlockOK ==
    ASSUME NEW items, NEW bytes \in Nat, bytes > 0
    PROVE  /\ NewBlock(items, bytes).num > 0 /\ NewBlock(items, bytes).bytes > 0
           /\ NewBlock(items, bytes).enc = "none" /\ NewBlock(items, bytes).items = items
<1>1. Fragments(bytes) > 0
  <2>1. FRAGMENT_SIZE \in Nat /\ FRAGMENT_SIZE > 0
    BY ConstantsAssumption
  <2>2. QED BY <2>1 DEF Fragments
<1>2. QED BY <1>1 DEF NewBlock

\* The buffer becomes a block, or joins one that is not the head.
LEMMA CreatedList ==
    ASSUME NEW list \in Seq(BlockType), NEW buffer \in BufferType, buffer.items # <<>>,
           BlocksOK(list, buffer),
           NEW list2, list2 = CreateFragmentsFromBuffer(list, buffer)
    PROVE  /\ BlocksOK(list2, EmptyBuffer)
           /\ list2 # <<>> /\ (list # <<>> => list2[1] = list[1])
           /\ list = <<>> => list2[1].acked = 0 /\ list2[1].pending = 0
           /\ \/ \E block \in BlockType : block.items = buffer.items /\ list2 = Append(list, block)
              \/ /\ Len(list) > 1 /\ Len(list2) = Len(list)
                 /\ \A i \in 1 .. Len(list) - 1 : list2[i] = list[i]
                 /\ list2[Len(list)].items = list[Len(list)].items \o buffer.items
<1> DEFINE n == Len(list)
<1>1. /\ buffer.items \in Seq(Item) /\ buffer.bytes \in 0 .. NET_MAX_PAYLOAD
      /\ buffer.bytes \in Nat /\ buffer.bytes > 0
  BY ConstantsAssumption DEF BufferType, BlocksOK
<1>2. EmptyBuffer.items = <<>>
  BY DEF EmptyBuffer
<1>3. CASE n > 1 /\ list[n].bytes + buffer.bytes < NET_MAX_PAYLOAD
  <2> DEFINE last == Joined(list[n], buffer)
  <2>1. list2 = [list EXCEPT ![n] = last]
    BY <1>3 DEF CreateFragmentsFromBuffer
  <2>2. /\ list[n].bytes \in Nat /\ list[n].bytes > 0 /\ list[n].enc # "snappy"
    <3>1. n \in 1 .. Len(list)
      BY <1>3
    <3>2. list[n].bytes \in 0 .. NET_MAX_PAYLOAD
      BY <3>1, BlockFields
    <3>3. QED BY <3>1, <3>2, ConstantsAssumption DEF BlocksOK
  <2>3. /\ last.num > 0 /\ last.bytes > 0 /\ last.enc = list[n].enc
        /\ last.items = list[n].items \o buffer.items
    <3> DEFINE bytes == list[n].bytes + buffer.bytes
               items == list[n].items \o buffer.items
    <3>1. bytes \in Nat /\ bytes > 0
      BY <1>1, <2>2
    <3>2. NewBlock(items, bytes).num > 0 /\ NewBlock(items, bytes).bytes > 0
          /\ NewBlock(items, bytes).items = items
      <4> HIDE DEF bytes, items
      <4>1. QED BY <3>1, NewBlockOK
    <3>3. last = [NewBlock(items, bytes) EXCEPT !.enc = list[n].enc]
      BY DEF Joined
    <3>4. last.num = NewBlock(items, bytes).num /\ last.bytes = NewBlock(items, bytes).bytes
          /\ last.items = NewBlock(items, bytes).items /\ last.enc = list[n].enc
      BY <3>3 DEF NewBlock
    <3>5. QED BY <3>2, <3>4
  <2> HIDE DEF last
  <2>4. /\ Len(list2) = n /\ list2[n] = last /\ \A i \in 1 .. n - 1 : list2[i] = list[i]
    BY <1>3, <2>1
  <2>5. ASSUME NEW i \in 1 .. Len(list2)
        PROVE  list2[i].num > 0 /\ list2[i].bytes > 0 /\ list2[i].enc # "snappy"
    <3>1. CASE i = n
      BY <2>2, <2>3, <2>4, <3>1
    <3>2. CASE i \in 1 .. n - 1
      BY <2>4, <3>2 DEF BlocksOK
    <3>3. QED BY <2>4, <3>1, <3>2
  <2>6. list2 # <<>> /\ list2[1] = list[1] /\ list # <<>>
    BY <1>3, <2>4
  <2>7. QED BY <1>2, <1>3, <2>3, <2>4, <2>5, <2>6 DEF BlocksOK
<1>4. CASE ~(n > 1 /\ list[n].bytes + buffer.bytes < NET_MAX_PAYLOAD)
  <2> DEFINE last == NewBlock(buffer.items, buffer.bytes)
  <2>1. list2 = Append(list, last)
    BY <1>4 DEF CreateFragmentsFromBuffer
  <2>2. last \in BlockType /\ last.acked = 0 /\ last.pending = 0
    BY <1>1, NewBlockFacts
  <2>3. last.num > 0 /\ last.bytes > 0 /\ last.enc = "none" /\ last.items = buffer.items
    BY <1>1, NewBlockOK
  <2> HIDE DEF last
  <2>4. Len(list2) = n + 1 /\ list2[n + 1] = last /\ \A i \in 1 .. n : list2[i] = list[i]
    BY <2>1
  <2>5. ASSUME NEW i \in 1 .. Len(list2)
        PROVE  list2[i].num > 0 /\ list2[i].bytes > 0 /\ list2[i].enc # "snappy"
    <3>1. CASE i = n + 1
      BY <2>3, <2>4, <3>1
    <3>2. CASE i \in 1 .. n
      BY <2>4, <3>2 DEF BlocksOK
    <3>3. QED BY <2>4, <3>1, <3>2
  <2>6. list2 # <<>> /\ (list # <<>> => list2[1] = list[1])
        /\ (list = <<>> => list2[1] = last)
    BY <2>4
  <2>7. QED BY <1>2, <2>1, <2>2, <2>3, <2>5, <2>6 DEF BlocksOK
<1>5. QED BY <1>3, <1>4

\* UpdateSubChannels: the buffer becomes part of the list.
LEMMA FlowQueued ==
    ASSUME NEW channels, NEW T, NEW list, NEW buffer, NEW h, NEW b, NEW g, NEW data, NEW list2,
           list2 = IF buffer.items # <<>> THEN CreateFragmentsFromBuffer(list, buffer) ELSE list,
           Shape(channels, list, buffer, h, g), list2 \in Seq(BlockType),
           Flow(channels, T, list, buffer, h, b, g, data)
    PROVE  Flow(channels, T, list2, EmptyBuffer, h, b, g, data)
<1>0. EmptyBuffer.items = <<>>
  BY DEF EmptyBuffer
<1>1. CASE buffer.items = <<>>
  <2>1. list2 = list
    BY <1>1
  <2>2. BlocksOK(list, EmptyBuffer)
    BY <1>0 DEF Flow, BlocksOK
  <2>3. Delivery(channels, T, list, EmptyBuffer, h, b, g)
    BY <1>0, <1>1 DEF Flow, Delivery
  <2>4. QED BY <2>1, <2>2, <2>3 DEF Flow
<1>2. CASE buffer.items # <<>>
  <2> DEFINE done == Done(channels, T, list)
  <2>1. list2 = CreateFragmentsFromBuffer(list, buffer)
    BY <1>2
  <2>2. /\ BlocksOK(list2, EmptyBuffer)
        /\ list2 # <<>> /\ (list # <<>> => list2[1] = list[1])
        /\ list = <<>> => list2[1].acked = 0 /\ list2[1].pending = 0
        /\ \/ \E block \in BlockType : block.items = buffer.items /\ list2 = Append(list, block)
           \/ /\ Len(list) > 1 /\ Len(list2) = Len(list)
              /\ \A i \in 1 .. Len(list) - 1 : list2[i] = list[i]
              /\ list2[Len(list)].items = list[Len(list)].items \o buffer.items
    <3>1. list \in Seq(BlockType) /\ buffer \in BufferType /\ BlocksOK(list, buffer)
      BY DEF Shape, Flow
    <3>2. QED BY <1>2, <2>1, <3>1, CreatedList
  <2>3. /\ h \in Seq(Item) /\ list \in Seq(BlockType) /\ buffer.items \in Seq(Item)
        /\ g \in Seq(Handed) /\ done \in BOOLEAN /\ (done => list # <<>>)
        /\ channels \in Channels /\ T \in SUBSET BusyOf(channels)
        /\ SubsOK(channels) /\ Counted(channels, list, NORMAL)
    BY DEF Shape, Flow, Done, BufferType
  <2>4. Ordered(h, list, buffer.items, g, done)
    BY DEF Flow, Delivery
  <2>5. Ordered(h, list2, <<>>, g, done)
    <3> HIDE DEF done
    <3>1. CASE \E block \in BlockType : block.items = buffer.items /\ list2 = Append(list, block)
      BY <2>3, <2>4, <3>1, OrderedAppend
    <3>2. CASE /\ Len(list) > 1 /\ Len(list2) = Len(list)
               /\ \A i \in 1 .. Len(list) - 1 : list2[i] = list[i]
               /\ list2[Len(list)].items = list[Len(list)].items \o buffer.items
      BY <2>3, <2>4, <3>2, OrderedJoin
    <3>3. QED BY <2>2, <3>1, <3>2
  <2>6. CASE list = <<>>
    <3>1. BusyOf(channels) = {}
      BY <2>3, <2>6, IdleHead
    <3>2. Arrived(channels, T, list2[1]) = 0
      BY <2>2, <2>3, <2>6, <3>1, NothingArrived
    <3>3. list2[1].num > 0 /\ list2[1].num \in Nat
      <4>1. 1 \in 1 .. Len(list2)
        BY <2>2
      <4>2. QED BY <2>2, <4>1, BlockFields DEF BlocksOK
    <3>4. ~b.alloc
      BY <2>6 DEF Flow, Delivery
    <3>5. ~Done(channels, T, list2) /\ ~done
      BY <2>6, <3>2, <3>3 DEF Done
    <3>6. Assembly(channels, T, list2[1], b)
      BY <3>2, <3>4 DEF Assembly
    <3>7. Delivery(channels, T, list2, EmptyBuffer, h, b, g)
      <4>1. Done(channels, T, list2) = done
        BY <3>5 DEF Done
      <4> HIDE DEF done
      <4>2. QED BY <1>0, <2>2, <2>5, <3>6, <4>1 DEF Delivery
    <3>8. \A c \in SubChannel : \A p \in data[c] : Carries(p, channels, c, list2)
      BY <3>1 DEF Flow, Carries
    <3>9. QED BY <2>2, <2>3, <3>7, <3>8 DEF Flow
  <2>7. CASE list # <<>>
    <3>1. list2[1] = list[1] /\ list2 # <<>>
      BY <2>2, <2>7
    <3>2. Done(channels, T, list2) = done
      BY <2>7, <3>1 DEF Done
    <3>3. Assembly(channels, T, list2[1], b)
      BY <2>7, <3>1 DEF Flow, Delivery
    <3>4. Delivery(channels, T, list2, EmptyBuffer, h, b, g)
      <4> HIDE DEF done
      <4>1. QED BY <1>0, <2>5, <3>1, <3>2, <3>3 DEF Delivery
    <3>5. \A c \in SubChannel : \A p \in data[c] : Carries(p, channels, c, list2)
      BY <3>1 DEF Flow, Carries
    <3>6. QED BY <2>2, <2>3, <3>4, <3>5 DEF Flow
  <2>8. QED BY <2>6, <2>7
<1>3. QED BY <1>1, <1>2

\* UpdateSubChannels: the head is compressed, as long as none of it is under way.
LEMMA FlowCompressed ==
    ASSUME NEW s, NEW channels, NEW T, NEW list, NEW h, NEW b, NEW g, NEW data, NEW list2,
           list2 = CompressFragments(s, NORMAL, list),
           \A bytes \in 1 .. NET_MAX_PAYLOAD : Packed[bytes] > 0,
           Shape(channels, list, EmptyBuffer, h, g), list2 \in Seq(BlockType),
           Flow(channels, T, list, EmptyBuffer, h, b, g, data)
    PROVE  Flow(channels, T, list2, EmptyBuffer, h, b, g, data)
<1>1. CASE list # <<>> /\ Compressible(s, NORMAL, list[1])
  <2> DEFINE block == list[1]
             after == Compressed(block, NORMAL)
             packed == Packed[block.bytes]
  <2>1. list2 = [list EXCEPT ![1] = after]
    BY <1>1 DEF CompressFragments
  <2>2. /\ channels \in Channels /\ list \in Seq(BlockType) /\ Counted(channels, list, NORMAL)
        /\ SubsOK(channels) /\ T \in SUBSET BusyOf(channels)
    BY DEF Shape, Flow
  <2>3. /\ block \in BlockType /\ block.acked \in Nat /\ block.pending <= 0
        /\ block.acked <= 0 /\ block.bytes \in 0 .. NET_MAX_PAYLOAD /\ block.num \in Nat
    BY <1>1, <2>2, BlockFields DEF Compressible
  <2>4. block.acked = 0 /\ block.num > 0 /\ block.bytes > 0 /\ 1 \in 1 .. Len(list)
    <3>1. 1 \in 1 .. Len(list)
      BY <1>1, <2>2
    <3>2. QED BY <2>3, <3>1 DEF Flow, BlocksOK
  <2>5. packed \in Nat /\ packed > 0
    <3>1. block.bytes \in 1 .. NET_MAX_PAYLOAD
      BY <2>3, <2>4, ConstantsAssumption
    <3>2. packed \in 0 .. NET_MAX_PAYLOAD
      BY <2>3, ItemsAssumption
    <3>3. QED BY <3>1, <3>2, ConstantsAssumption
  <2>6. Fragments(packed) > 0
    <3> HIDE DEF packed
    <3>1. NewBlock(<<>>, packed).num > 0
      BY <2>5, NewBlockOK
    <3>2. QED BY <3>1 DEF NewBlock
  <2>7. after.num > 0 /\ after.bytes > 0 /\ after.enc = "bzip2" /\ after.items = block.items
        /\ after.acked = 0
    BY <2>3, <2>4, <2>5, <2>6, NormalStream DEF Compressed, NORMAL, FILE, BlockType
  <2>8. after.num \in Nat
    <3>1. after \in BlockType
      BY <2>3, CompressedFacts
    <3>2. QED BY <3>1 DEF BlockType
  <2> HIDE DEF after
  <2>9. /\ Len(list2) = Len(list) /\ list2[1] = after /\ list2 # <<>>
        /\ \A i \in 2 .. Len(list) : list2[i] = list[i]
    BY <1>1, <2>1, <2>2
  <2>10. BusyOf(channels) = {}
    BY <2>2, <2>3, IdleHead
  <2>11. Arrived(channels, T, block) = 0 /\ Arrived(channels, T, after) = 0
    BY <2>2, <2>4, <2>7, <2>10, NothingArrived
  <2>12. ~Done(channels, T, list) /\ ~Done(channels, T, list2)
    BY <2>3, <2>4, <2>7, <2>8, <2>9, <2>11 DEF Done
  <2>13. ~b.alloc
    BY <1>1, <2>11 DEF Flow, Delivery, Assembly
  <2>14. Assembly(channels, T, list2[1], b)
    BY <2>9, <2>11, <2>13 DEF Assembly
  <2>15. Ordered(h, list2, EmptyBuffer.items, g, Done(channels, T, list2))
    <3>1. \A i \in 1 .. Len(list) : list2[i].items = list[i].items
      BY <2>4, <2>7, <2>9
    <3>2. Ordered(h, list, EmptyBuffer.items, g, Done(channels, T, list))
      BY DEF Flow, Delivery
    <3>3. Done(channels, T, list2) = Done(channels, T, list)
      BY <2>12 DEF Done
    <3>4. QED BY <2>2, <2>9, <3>1, <3>2, <3>3, OrderedAlike
  <2>16. BlocksOK(list2, EmptyBuffer)
    <3>1. ASSUME NEW i \in 1 .. Len(list2)
          PROVE  list2[i].num > 0 /\ list2[i].bytes > 0 /\ list2[i].enc # "snappy"
      <4>1. CASE i = 1
        BY <2>7, <2>9, <4>1
      <4>2. CASE i \in 2 .. Len(list)
        BY <2>9, <4>2 DEF Flow, BlocksOK
      <4>3. QED BY <2>9, <4>1, <4>2
    <3>2. QED BY <3>1 DEF BlocksOK, EmptyBuffer
  <2>17. \A c \in SubChannel : \A p \in data[c] : Carries(p, channels, c, list2)
    BY <2>10 DEF Flow, Carries
  <2>18. QED BY <2>2, <2>9, <2>14, <2>15, <2>16, <2>17 DEF Flow, Delivery
<1>2. CASE ~(list # <<>> /\ Compressible(s, NORMAL, list[1]))
  <2>1. list2 = list
    BY <1>2 DEF CompressFragments
  <2>2. QED BY <2>1
<1>3. QED BY <1>1, <1>2

\* The part of the list does not change that what arrived depends on; the
\* subchannel x may be taken, for fragments of which none was sent, or sent.
LEMMA FlowMoved ==
    ASSUME NEW channels, NEW channels2, NEW T, NEW list, NEW list2, NEW h, NEW b, NEW g, NEW data,
           Shape(channels, list, EmptyBuffer, h, g), Shape(channels2, list2, EmptyBuffer, h, g),
           Flow(channels, T, list, EmptyBuffer, h, b, g, data), list # <<>>,
           BusyOf(channels) \subseteq BusyOf(channels2), SubsOK(channels2),
           Len(list2) = Len(list), \A i \in 2 .. Len(list) : list2[i] = list[i],
           Load(list2[1]) = Load(list[1]), list2[1].num = list[1].num,
           list2[1].bytes = list[1].bytes, list2[1].acked = list[1].acked,
           NextFragment(list[1]) <= NextFragment(list2[1]),
           \A c \in BusyOf(channels) : /\ channels2[c].num = channels[c].num
                                       /\ channels2[c].start = channels[c].start,
           \A c \in BusyOf(channels2) \ BusyOf(channels) :
                channels2[c].start[NORMAL] >= NextFragment(list[1])
    PROVE  Flow(channels2, T, list2, EmptyBuffer, h, b, g, data)
<1> DEFINE block == list[1]
           after == list2[1]
<1>1. /\ channels \in Channels /\ list \in Seq(BlockType) /\ Counted(channels, list, NORMAL)
      /\ channels2 \in Channels /\ list2 \in Seq(BlockType) /\ Counted(channels2, list2, NORMAL)
      /\ T \in SUBSET BusyOf(channels) /\ T \in SUBSET BusyOf(channels2)
      /\ list2 # <<>>
  <2>1. list2 # <<>>
    BY DEF Shape
  <2>2. QED BY <2>1 DEF Shape, Flow
<1>2. Arrived(channels2, T, after) = Arrived(channels, T, block)
  BY <1>1, CarriedSame DEF Arrived
<1>3. Load(after).items = Load(block).items /\ Load(after).enc = Load(block).enc
  OBVIOUS
<1>4. after.items = block.items /\ after.enc = block.enc
  BY <1>3 DEF Load
<1>5. NextFragment(block) \in Int /\ NextFragment(after) \in Int
  BY <1>1, BlockFields
<1>6. ASSUME NEW c \in BusyOf(channels2) \ T
      PROVE  \/ c \in BusyOf(channels) \ T /\ Span(channels2[c]) = Span(channels[c])
             \/ \A k \in Span(channels2[c]) : k >= NextFragment(block)
  <2>1. CASE c \in BusyOf(channels)
    BY <2>1 DEF Span
  <2>2. CASE c \notin BusyOf(channels)
    <3>1. channels2[c].start[NORMAL] >= NextFragment(block)
      BY <2>2
    <3>2. c \in SubChannel
      BY BusySubChannels
    <3>3. channels2[c].start[NORMAL] \in Int
      <4>1. channels2[c].start[NORMAL] \in Nat \cup {-1}
        BY <1>1, <3>2, ChannelFields, NormalStream
      <4>2. QED BY <4>1
    <3> HIDE DEF block
    <3>4. QED BY <1>5, <3>1, <3>3 DEF Span
  <2>3. QED BY <2>1, <2>2
<1>7. Assembly(channels, T, block, b)
  BY DEF Flow, Delivery
<1> HIDE DEF block, after
<1>8. Assembly(channels2, T, after, b)
  BY <1>2, <1>5, <1>6, <1>7, AssemblyAlike DEF block, after
<1>9. Done(channels2, T, list2) = Done(channels, T, list)
  BY <1>1, <1>2 DEF Done, block, after
<1>10. Ordered(h, list2, EmptyBuffer.items, g, Done(channels2, T, list2))
  <2>1. \A i \in 1 .. Len(list) : list2[i].items = list[i].items
    BY <1>1, <1>4 DEF block, after
  <2>2. Ordered(h, list, EmptyBuffer.items, g, Done(channels2, T, list2))
    BY <1>9 DEF Flow, Delivery
  <2>3. QED BY <1>1, <2>1, <2>2, OrderedAlike
<1>11. BlocksOK(list2, EmptyBuffer)
  <2>1. ASSUME NEW i \in 1 .. Len(list2)
        PROVE  list2[i].num > 0 /\ list2[i].bytes > 0 /\ list2[i].enc # "snappy"
    <3>1. i \in 1 .. Len(list)
      OBVIOUS
    <3>2. list[i].num > 0 /\ list[i].bytes > 0 /\ list[i].enc # "snappy"
      BY <3>1 DEF Flow, BlocksOK
    <3>3. CASE i = 1
      BY <1>4, <3>2, <3>3 DEF block, after
    <3>4. CASE i # 1
      <4>1. i \in 2 .. Len(list)
        BY <1>1, <3>1, <3>4
      <4>2. QED BY <3>2, <4>1
    <3>5. QED BY <3>3, <3>4
  <2>2. QED BY <2>1 DEF BlocksOK, EmptyBuffer
<1>12. ASSUME NEW c \in SubChannel, NEW p \in data[c] PROVE Carries(p, channels2, c, list2)
  <2>1. Carries(p, channels, c, list)
    BY DEF Flow
  <2>2. c \in BusyOf(channels) /\ c \in BusyOf(channels2)
    BY <2>1 DEF Carries
  <2>3. FragmentGroup(after, channels2[c], NORMAL) = FragmentGroup(block, channels[c], NORMAL)
    BY <2>2 DEF FragmentGroup, block, after
  <2>4. QED BY <2>1, <2>2, <2>3 DEF Carries, block, after
<1>13. QED BY <1>1, <1>8, <1>10, <1>11, <1>12 DEF Flow, Delivery, after

----------------------------------------------------------------------------
(* The invariant of the messages of side s.                                *)

Taken(s) == TakenOf(sub[s], outState[s], inState[Peer(s)])
Arriving(s) == [c \in SubChannel |-> FreshData(s, c)]

NoFiles(s) ==
    /\ waiting[s][FILE] = <<>> /\ sent[s][FILE] = << <<>> >>
    /\ ~recv[Peer(s)][FILE].alloc /\ got[Peer(s)][FILE] = <<>>

\* each item is sent by s, and once
SentOnce(s) ==
    LET h == sent[s][NORMAL][1]
    IN /\ Len(sent[s][NORMAL]) = 1
       /\ \A i \in 1 .. Len(h) : Sender[h[i]] = s /\ \A k \in 1 .. Len(h) : h[i] = h[k] => i = k

StreamInv(s) ==
    /\ Flow(sub[s], Taken(s), waiting[s][NORMAL], reliable[s], sent[s][NORMAL][1],
            recv[Peer(s)][NORMAL], got[Peer(s)][NORMAL], Arriving(s))
    /\ NoFiles(s) /\ SentOnce(s)

LEMMA StreamShape ==
    ASSUME FInv, NEW s \in Side, SentOnce(s)
    PROVE  /\ Shape(sub[s], waiting[s][NORMAL], reliable[s], sent[s][NORMAL][1],
                    got[Peer(s)][NORMAL])
           /\ \A j \in Stream : RecvOK(recv[Peer(s)][j])
           /\ SideOK(s) /\ IInv
<1>1. Peer(s) \in Side /\ NORMAL \in Stream
  BY PeerFacts, NormalStream
<1>2. SideOK(s) /\ IInv
  BY SidesOK DEF FInv
<1>3. sent[s][NORMAL] \in Seq(Seq(Item)) /\ 1 \in 1 .. Len(sent[s][NORMAL])
  BY <1>1 DEF FInv, TypeOK, SentOnce
<1>4. sent[s][NORMAL][1] \in Seq(Item)
  BY <1>3
<1>5. got[Peer(s)][NORMAL] \in Seq(Handed)
  BY <1>1 DEF FInv, TypeOK, Handed
<1>6. \A j \in Stream : RecvOK(recv[Peer(s)][j])
  BY <1>1 DEF FInv, TypeOK, HeadersInv, RecvOK
<1>7. QED BY <1>1, <1>2, <1>4, <1>5, <1>6 DEF Shape, SideOK

\* UpdateSubChannels, the list: what is in the buffer is appended, the head
\* compressed.
LEMMA QueuedFlow ==
    ASSUME FInv, NEW s \in Side, MessagesOnly(s), StreamInv(s)
    PROVE  /\ Shape(sub[s], Queued(s)[NORMAL], EmptyBuffer, sent[s][NORMAL][1],
                    got[Peer(s)][NORMAL])
           /\ Flow(sub[s], Taken(s), Queued(s)[NORMAL], EmptyBuffer, sent[s][NORMAL][1],
                   recv[Peer(s)][NORMAL], got[Peer(s)][NORMAL], Arriving(s))
           /\ Queued(s)[FILE] = <<>>
<1> DEFINE list == waiting[s][NORMAL]
           buffer == reliable[s]
           list1 == IF buffer.items # <<>> THEN CreateFragmentsFromBuffer(list, buffer) ELSE list
           list2 == Queued(s)[NORMAL]
           h == sent[s][NORMAL][1]
           b == recv[Peer(s)][NORMAL]
           g == got[Peer(s)][NORMAL]
           T == Taken(s)
           data == Arriving(s)
<1>1. Shape(sub[s], list, buffer, h, g) /\ SideOK(s)
  BY StreamShape DEF StreamInv
<1>2. Flow(sub[s], T, list, buffer, h, b, g, data)
  BY DEF StreamInv
<1>3. list1 \in Seq(BlockType) /\ Counted(sub[s], list1, NORMAL)
  <2>1. /\ CreateFragmentsFromBuffer(list, buffer) \in Seq(BlockType)
        /\ Counted(sub[s], CreateFragmentsFromBuffer(list, buffer), NORMAL)
    BY <1>1, CreateFragmentsFacts, NormalStream DEF Shape
  <2>2. list \in Seq(BlockType) /\ Counted(sub[s], list, NORMAL)
    BY <1>1 DEF Shape
  <2> HIDE DEF list, buffer
  <2>3. QED BY <2>1, <2>2
<1>4. list2 = CompressFragments(s, NORMAL, list1)
  BY NormalStream DEF Queued, NORMAL
<1>5. list2 \in Seq(BlockType) /\ Counted(sub[s], list2, NORMAL)
  BY <1>1, QueuedFacts, NormalStream
<1>6. Queued(s)[FILE] = <<>>
  <2>1. Queued(s)[FILE] = CompressFragments(s, FILE, waiting[s][FILE])
    BY NormalStream DEF Queued, NORMAL, FILE
  <2>2. waiting[s][FILE] = <<>>
    BY DEF StreamInv, NoFiles
  <2>3. QED BY <2>1, <2>2 DEF CompressFragments
<1>7. Shape(sub[s], list1, EmptyBuffer, h, g) /\ Shape(sub[s], list2, EmptyBuffer, h, g)
  <2> HIDE DEF list1, list2, h, g
  <2>1. QED BY <1>1, <1>3, <1>5, ClearedSideFacts DEF Shape
<1> HIDE DEF list, buffer, list2, h, b, g, T, data
<1>8. Flow(sub[s], T, list1, EmptyBuffer, h, b, g, data)
  BY <1>1, <1>2, <1>3, FlowQueued
<1> HIDE DEF list1
<1>9. Flow(sub[s], T, list2, EmptyBuffer, h, b, g, data)
  BY <1>4, <1>5, <1>7, <1>8, FlowCompressed DEF MessagesOnly
<1>10. QED BY <1>6, <1>7, <1>9 DEF list2, h, b, g, T, data

LEMMA OnlyMessages ==
    ASSUME NEW loaded \in [Stream -> Nat], loaded[FILE] = 0, \E j \in Stream : loaded[j] > 0
    PROVE  loaded[NORMAL] \in Nat /\ loaded[NORMAL] > 0
<1>1. PICK j \in Stream : loaded[j] > 0
  OBVIOUS
<1>2. j = NORMAL
  <2>1. j = NORMAL \/ j = FILE
    BY DEF Stream, NORMAL, FILE
  <2>2. QED BY <1>1, <2>1
<1>3. QED BY <1>1, <1>2

\* UpdateSubChannels, the subchannel: it takes the next fragments of the head.
LEMMA UpdatedFlow ==
    ASSUME FInv, NEW s \in Side, MessagesOnly(s), StreamInv(s)
    PROVE  /\ Shape(UpdatedChannels(s), UpdatedLists(s)[NORMAL], EmptyBuffer,
                    sent[s][NORMAL][1], got[Peer(s)][NORMAL])
           /\ Flow(UpdatedChannels(s), Taken(s), UpdatedLists(s)[NORMAL], EmptyBuffer,
                   sent[s][NORMAL][1], recv[Peer(s)][NORMAL], got[Peer(s)][NORMAL],
                   Arriving(s))
           /\ UpdatedLists(s)[FILE] = <<>>
<1> DEFINE channels == sub[s]
           channels2 == UpdatedChannels(s)
           list == Queued(s)[NORMAL]
           list2 == UpdatedLists(s)[NORMAL]
           h == sent[s][NORMAL][1]
           b == recv[Peer(s)][NORMAL]
           g == got[Peer(s)][NORMAL]
           T == Taken(s)
           data == Arriving(s)
           loaded == Loaded(Queued(s))
<1>1. SideOK(s) /\ IInv
  BY StreamShape DEF StreamInv
<1>2. /\ Shape(channels, list, EmptyBuffer, h, g)
      /\ Flow(channels, T, list, EmptyBuffer, h, b, g, data)
      /\ Queued(s)[FILE] = <<>>
  BY QueuedFlow
<1>3. /\ channels2 \in Channels /\ list2 \in Seq(BlockType)
      /\ Counted(channels2, list2, NORMAL)
  BY <1>1, UpdatedFacts, NormalStream
<1>4. /\ loaded \in [Stream -> Nat] /\ loaded[FILE] = 0
      /\ loaded[NORMAL] > 0 => /\ list # <<>> /\ NextFragment(list[1]) \in Nat
                               /\ loaded[NORMAL] <= list[1].num - NextFragment(list[1])
  <2>1. /\ loaded \in [Stream -> Nat]
        /\ \A j \in Stream : loaded[j] > 0 =>
             /\ Queued(s)[j] # <<>> /\ NextFragment(Queued(s)[j][1]) \in Nat
             /\ loaded[j] <= Queued(s)[j][1].num - NextFragment(Queued(s)[j][1])
    BY <1>1, LoadedFacts
  <2> HIDE DEF loaded
  <2>2. loaded[FILE] \in Nat /\ loaded[NORMAL] \in Nat /\ ~(loaded[FILE] > 0)
    BY <1>2, <2>1, NormalStream
  <2>3. QED BY <2>1, <2>2, NormalStream
<1>5. UpdatedLists(s)[FILE] = <<>>
  BY <1>2, <1>4, NormalStream DEF UpdatedLists
<1>6. Shape(channels2, list2, EmptyBuffer, h, g)
  <2> HIDE DEF channels, channels2, list, list2, h, g
  <2>1. QED BY <1>2, <1>3 DEF Shape
<1>7. CASE ~Fills(s)
  <2>1. channels2 = channels /\ list2 = list
    BY <1>7, NormalStream DEF UpdatedChannels, UpdatedLists
  <2>2. QED BY <1>2, <1>5, <1>6, <2>1
<1>8. CASE Fills(s)
  <2> DEFINE c == Slot(s)
             n == loaded[NORMAL]
  <2>1. n \in Nat /\ n > 0 /\ list # <<>> /\ NextFragment(list[1]) \in Nat
    <3>1. \E j \in Stream : loaded[j] > 0
      BY <1>8 DEF Fills
    <3> HIDE DEF loaded, list
    <3>2. loaded[NORMAL] \in Nat /\ loaded[NORMAL] > 0
      BY <1>4, <3>1, OnlyMessages
    <3>3. QED BY <1>4, <3>2
  <2>2. c \in SubChannel /\ channels[c].state = "FREE"
    BY <1>8, LeastOfMember DEF Fills, Slot, FreeSlots
  <2>3. channels2 = [channels EXCEPT ![c] = FilledChannel(s)] /\ channels \in Channels
    BY <1>2, <1>8 DEF UpdatedChannels, Shape
  <2>4. /\ FilledChannel(s).state = "TOSEND" /\ FilledChannel(s).num = loaded
        /\ FilledChannel(s).start[NORMAL] = NextFragment(list[1])
    BY <1>1, <2>1, FilledChannelType, NormalStream
  <2>5. list2 = [list EXCEPT ![1].pending = @ + n]
    BY <1>8, <2>1, NormalStream DEF UpdatedLists
  <2> HIDE DEF channels, channels2, list, list2, c, n
  <2>6. /\ channels2[c].state = "TOSEND" /\ channels2[c].num = loaded
        /\ channels2[c].start[NORMAL] = NextFragment(list[1])
        /\ \A d \in SubChannel \ {c} : channels2[d] = channels[d]
    BY <2>2, <2>3, <2>4 DEF Channels
  <2>7. BusyOf(channels2) = BusyOf(channels) \cup {c} /\ c \notin BusyOf(channels)
    BY <2>2, <2>6 DEF BusyOf
  <2>8. SubsOK(channels2)
    <3>1. SubsOK(channels)
      BY <1>2 DEF Flow
    <3>2. ASSUME NEW d \in SubChannel
          PROVE  /\ channels2[d].state # "DIRTY"
                 /\ d \in BusyOf(channels2) =>
                      channels2[d].num[NORMAL] > 0 /\ channels2[d].num[FILE] = 0
      <4>1. CASE d = c
        <5> HIDE DEF loaded
        <5>1. loaded[NORMAL] > 0 /\ loaded[FILE] = 0
          BY <1>4, <2>1 DEF n
        <5>2. QED BY <2>6, <4>1, <5>1
      <4>2. CASE d # c
        BY <2>6, <2>7, <3>1, <4>2 DEF SubsOK
      <4>3. QED BY <4>1, <4>2
    <3>3. QED BY <3>2 DEF SubsOK
  <2>9. /\ Len(list2) = Len(list) /\ (\A i \in 2 .. Len(list) : list2[i] = list[i])
        /\ list2[1] = [list[1] EXCEPT !.pending = list[1].pending + n]
        /\ list \in Seq(BlockType)
    <3>1. list \in Seq(BlockType)
      BY <1>2 DEF Shape
    <3>2. QED BY <2>1, <2>5, <3>1
  <2>10. list[1] \in BlockType /\ list[1].acked \in Nat /\ list[1].pending \in Int
    BY <2>1, <2>9, BlockFields
  <2>11. /\ list2[1].items = list[1].items /\ list2[1].enc = list[1].enc
         /\ list2[1].num = list[1].num /\ list2[1].bytes = list[1].bytes
         /\ list2[1].acked = list[1].acked /\ list2[1].pending = list[1].pending + n
    BY <2>9, <2>10 DEF BlockType
  <2>12. NextFragment(list[1]) <= NextFragment(list2[1]) /\ Load(list2[1]) = Load(list[1])
    BY <2>1, <2>10, <2>11 DEF NextFragment, Load
  <2>13. \A d \in BusyOf(channels) : /\ channels2[d].num = channels[d].num
                                     /\ channels2[d].start = channels[d].start
    BY <2>6, <2>7, BusySubChannels
  <2>14. \A d \in BusyOf(channels2) \ BusyOf(channels) :
            channels2[d].start[NORMAL] >= NextFragment(list[1])
    BY <2>1, <2>6, <2>7
  <2>15. Flow(channels2, T, list2, EmptyBuffer, h, b, g, data)
    <3> HIDE DEF h, b, g, T, data
    <3>1. BusyOf(channels) \subseteq BusyOf(channels2)
      BY <2>7
    <3>2. /\ Len(list2) = Len(list) /\ \A i \in 2 .. Len(list) : list2[i] = list[i]
          /\ list2[1].num = list[1].num /\ list2[1].bytes = list[1].bytes
          /\ list2[1].acked = list[1].acked
      BY <2>9, <2>11
    <3>3. QED BY <1>2, <1>6, <2>1, <2>8, <2>12, <2>13, <2>14, <3>1, <3>2, FlowMoved
  <2>16. QED BY <1>5, <1>6, <2>15 DEF channels2, list2
<1>9. QED BY <1>7, <1>8

\* SendSubChannelData: the first subchannel with fragments to send waits.
LEMMA SentSubChannel ==
    ASSUME NEW channels \in Channels, NEW seq
    PROVE  LET c == NextToSend(channels)
               channels2 == SentChannels(channels, c, seq)
           IN /\ c = NoChannel => channels2 = channels
              /\ c # NoChannel => /\ c \in SubChannel /\ channels[c].state = "TOSEND"
                                  /\ channels2[c].state = "WAITING"
              /\ \A d \in SubChannel : /\ channels2[d].num = channels[d].num
                                       /\ channels2[d].start = channels[d].start
                                       /\ d # c => channels2[d] = channels[d]
              /\ BusyOf(channels2) = BusyOf(channels)
<1> DEFINE c == NextToSend(channels)
           channels2 == SentChannels(channels, c, seq)
<1>1. CASE c = NoChannel
  <2>1. channels2 = channels
    BY <1>1 DEF SentChannels
  <2> HIDE DEF channels2, c
  <2>2. QED BY <1>1, <2>1 DEF channels2, c
<1>2. CASE c # NoChannel
  <2>1. c \in SubChannel /\ channels[c].state = "TOSEND"
    BY <1>2, NextToSendFacts
  <2> HIDE DEF c
  <2>2. channels2 = [channels EXCEPT ![c] = [state |-> "WAITING", sendSeq |-> seq,
                                             start |-> channels[c].start,
                                             num |-> channels[c].num]]
    BY <1>2 DEF SentChannels
  <2>3. /\ channels2[c].state = "WAITING" /\ channels2[c].num = channels[c].num
        /\ channels2[c].start = channels[c].start
        /\ \A d \in SubChannel : d # c => channels2[d] = channels[d]
    BY <2>1, <2>2 DEF Channels
  <2> HIDE DEF channels2
  <2>4. BusyOf(channels2) = BusyOf(channels)
    BY <2>1, <2>3 DEF BusyOf
  <2>5. \A d \in SubChannel : /\ channels2[d].num = channels[d].num
                              /\ channels2[d].start = channels[d].start
    BY <2>3
  <2>6. QED BY <1>2, <2>1, <2>3, <2>4, <2>5 DEF c, channels2
<1>3. QED BY <1>1, <1>2

LEMMA SentFlow ==
    ASSUME FInv, NEW s \in Side, MessagesOnly(s), StreamInv(s)
    PROVE  LET filled == UpdatedChannels(s)
               c == NextToSend(filled)
               channels == SentChannels(filled, c, outSeq[s])
               list == UpdatedLists(s)[NORMAL]
               p == Datagram(s, c, filled, UpdatedLists(s))
           IN /\ Flow(channels, Taken(s), list, EmptyBuffer, sent[s][NORMAL][1],
                      recv[Peer(s)][NORMAL], got[Peer(s)][NORMAL], Arriving(s))
              /\ c # NoChannel => Carries(p, channels, c, list)
<1> DEFINE filled == UpdatedChannels(s)
           c == NextToSend(filled)
           channels == SentChannels(filled, c, outSeq[s])
           list == UpdatedLists(s)[NORMAL]
           p == Datagram(s, c, filled, UpdatedLists(s))
           h == sent[s][NORMAL][1]
           b == recv[Peer(s)][NORMAL]
           g == got[Peer(s)][NORMAL]
           T == Taken(s)
           data == Arriving(s)
<1>1. Shape(filled, list, EmptyBuffer, h, g) /\ Flow(filled, T, list, EmptyBuffer, h, b, g, data)
  BY UpdatedFlow
<1>2. filled \in Channels /\ list \in Seq(BlockType) /\ Counted(filled, list, NORMAL)
      /\ SubsOK(filled)
  BY <1>1 DEF Shape, Flow
<1>3. channels \in Channels /\ Counted(channels, list, NORMAL)
  <2>1. outSeq[s] \in Nat
    BY DEF FInv, TypeOK
  <2>2. QED BY <1>2, <2>1, SentFacts, NormalStream
<1>4. /\ c = NoChannel => channels = filled
      /\ c # NoChannel => /\ c \in SubChannel /\ filled[c].state = "TOSEND"
                          /\ channels[c].state = "WAITING"
      /\ \A d \in SubChannel : /\ channels[d].num = filled[d].num
                               /\ channels[d].start = filled[d].start
                               /\ d # c => channels[d] = filled[d]
      /\ BusyOf(channels) = BusyOf(filled)
  BY <1>2, SentSubChannel
<1> DEFINE group(j) == FragmentGroup(UpdatedLists(s)[j][1], filled[c], j)
<1>5. c # NoChannel => p.frags = [j \in Stream |-> group(j)]
  BY DEF Datagram
<1> HIDE DEF filled, channels, list, p, h, b, g, T, data, c
<1>6. SubsOK(channels)
  BY <1>2, <1>4 DEF SubsOK, BusyOf
<1>7. CASE c = NoChannel
  BY <1>1, <1>4, <1>7 DEF filled, channels, list, p, h, b, g, T, data, c
<1>8. CASE c # NoChannel
  <2>1. c \in BusyOf(filled) /\ c \in SubChannel
    BY <1>4, <1>8 DEF BusyOf
  <2>2. list # <<>>
    BY <1>2, <2>1, IdleHead
  <2>3. Shape(channels, list, EmptyBuffer, h, g)
    BY <1>1, <1>3 DEF Shape
  <2>4. NextFragment(list[1]) <= NextFragment(list[1])
    <3>1. NextFragment(list[1]) \in Int
      BY <1>2, <2>2, BlockFields
    <3>2. QED BY <3>1
  <2>5. \A d \in BusyOf(filled) : /\ channels[d].num = filled[d].num
                                  /\ channels[d].start = filled[d].start
    BY <1>4, BusySubChannels
  <2>6. Flow(channels, T, list, EmptyBuffer, h, b, g, data)
    <3>1. BusyOf(filled) \subseteq BusyOf(channels)
          /\ \A d \in BusyOf(channels) \ BusyOf(filled) :
                channels[d].start[NORMAL] >= NextFragment(list[1])
      BY <1>4
    <3>2. Len(list) = Len(list) /\ (\A i \in 2 .. Len(list) : list[i] = list[i])
          /\ Load(list[1]) = Load(list[1]) /\ list[1].num = list[1].num
          /\ list[1].bytes = list[1].bytes /\ list[1].acked = list[1].acked
      OBVIOUS
    <3>3. QED BY <1>1, <1>6, <2>2, <2>3, <2>4, <2>5, <3>1, <3>2, FlowMoved
  <2>7. p.frags[NORMAL] = FragmentGroup(list[1], channels[c], NORMAL)
    <3>1. p.frags[NORMAL] = FragmentGroup(list[1], filled[c], NORMAL)
      BY <1>5, <1>8, NormalStream DEF list
    <3>2. channels[c].num = filled[c].num /\ channels[c].start = filled[c].start
      BY <1>4, <2>1
    <3>3. QED BY <3>1, <3>2 DEF FragmentGroup
  <2>8. p.frags[FILE].num = 0
    <3>1. filled[c].num[FILE] = 0
      BY <1>2, <2>1 DEF SubsOK
    <3>2. p.frags[FILE] = NoFragments
      BY <1>5, <1>8, <3>1, NormalStream DEF FragmentGroup
    <3>3. QED BY <3>2 DEF NoFragments
  <2>9. c \in BusyOf(channels)
    BY <1>4, <2>1
  <2>10. QED BY <2>6, <2>7, <2>8, <2>9 DEF Carries, filled, channels, list, p, h, b, g, T, data, c
<1>9. QED BY <1>7, <1>8

LEMMA FilledOrNot ==
    ASSUME FInv, NEW s \in Side, NEW d \in SubChannel
    PROVE  \/ UpdatedChannels(s)[d] = sub[s][d] /\ UpdatedState(s)[d] = outState[s][d]
           \/ sub[s][d].state = "FREE" /\ UpdatedChannels(s)[d].state = "TOSEND"
<1>1. sub[s] \in [SubChannel -> ChannelType] /\ outState[s] \in [SubChannel -> {0, 1}]
  BY DEF FInv, TypeOK
<1>2. CASE Fills(s) /\ d = Slot(s)
  <2>1. sub[s][d].state = "FREE"
    BY <1>2, LeastOfMember DEF Fills, Slot, FreeSlots
  <2>2. UpdatedChannels(s)[d] = FilledChannel(s)
    BY <1>1, <1>2 DEF UpdatedChannels
  <2>3. FilledChannel(s).state = "TOSEND"
    BY DEF FilledChannel
  <2>4. QED BY <2>1, <2>2, <2>3
<1>3. CASE ~(Fills(s) /\ d = Slot(s))
  BY <1>1, <1>3 DEF UpdatedChannels, UpdatedState
<1>4. QED BY <1>2, <1>3

\* After a step: the parts of StreamInv, one by one.
LEMMA StreamHolds ==
    ASSUME NEW s \in Side, NEW channels, NEW T, NEW list, NEW buffer, NEW h, NEW b, NEW g,
           NEW data, Flow(channels, T, list, buffer, h, b, g, data),
           sub'[s] = channels, Taken(s)' = T, waiting'[s][NORMAL] = list,
           reliable'[s] = buffer, sent'[s][NORMAL][1] = h, recv'[Peer(s)][NORMAL] = b,
           got'[Peer(s)][NORMAL] = g,
           \A c \in SubChannel : FreshData(s, c)' \subseteq data[c],
           NoFiles(s)', SentOnce(s)'
    PROVE  StreamInv(s)'
<1>1. \A c \in SubChannel : (Arriving(s)')[c] = FreshData(s, c)'
  BY DEF Arriving
<1>2. Flow(channels, T, list, buffer, h, b, g, Arriving(s)')
  BY <1>1 DEF Flow
<1>3. QED BY <1>2 DEF StreamInv

LEMMA SendDatagramStream ==
    ASSUME FInv, NEW s \in Side, MessagesOnly(s), StreamInv(s), SendDatagram(s)
    PROVE  StreamInv(s)'
<1> DEFINE r == Peer(s)
           filled == UpdatedChannels(s)
           c == NextToSend(filled)
           channels == SentChannels(filled, c, outSeq[s])
           list == UpdatedLists(s)[NORMAL]
           p == Datagram(s, c, filled, UpdatedLists(s))
           data == [d \in SubChannel |-> IF d = c THEN {p} ELSE FreshData(s, d)]
<1>1. /\ Flow(channels, Taken(s), list, EmptyBuffer, sent[s][NORMAL][1],
              recv[r][NORMAL], got[r][NORMAL], Arriving(s))
      /\ c # NoChannel => Carries(p, channels, c, list)
  BY SentFlow
<1>2. filled \in Channels /\ IInv
  BY UpdatedFlow DEF Shape, FInv
<1>3. /\ c # NoChannel => /\ c \in SubChannel /\ filled[c].state = "TOSEND"
                          /\ channels[c].state = "WAITING"
      /\ \A d \in SubChannel : d # c => channels[d] = filled[d]
  BY <1>2, SentSubChannel
<1>4. NoChannel \notin SubChannel
  BY ConstantsAssumption DEF NoChannel, SubChannel
<1>5. /\ sub'[s] = channels /\ outState'[s] = UpdatedState(s) /\ waiting'[s] = UpdatedLists(s)
      /\ reliable'[s] = EmptyBuffer /\ net' = net \cup {p}
      /\ inState' = inState /\ recv' = recv /\ sent' = sent /\ got' = got /\ inSeq' = inSeq
  BY DEF SendDatagram, FInv, TypeOK
<1>6. p.src = s /\ p.chan = c
  BY DEF Datagram
<1> HIDE DEF filled, c, channels, list, p
<1>7. ASSUME NEW d \in SubChannel, filled[d].state = "TOSEND"
      PROVE  UpdatedState(s)[d] # inState[r][d] /\ FreshData(s, d) = {}
  <2>1. Agrees(d, filled[d].state, filled[d].sendSeq, UpdatedState(s)[d], inState[r][d],
               FreshData(s, d), FreshFrom(r), inSeq[r])
    BY <1>2, UpdatedAgrees DEF filled
  <2>2. QED BY <1>7, <2>1 DEF Agrees
<1>8. ASSUME NEW d \in SubChannel
      PROVE  (channels[d].state = "WAITING" /\ UpdatedState(s)[d] = inState[r][d])
               <=> (sub[s][d].state = "WAITING" /\ outState[s][d] = inState[r][d])
  <2>1. \/ filled[d] = sub[s][d] /\ UpdatedState(s)[d] = outState[s][d]
        \/ sub[s][d].state = "FREE" /\ filled[d].state = "TOSEND"
    BY FilledOrNot DEF filled
  <2>2. CASE d = c
    <3>1. filled[d].state = "TOSEND"
      BY <1>3, <1>4, <2>2
    <3>2. UpdatedState(s)[d] # inState[r][d]
      BY <1>7, <3>1
    <3>3. sub[s][d].state # "WAITING"
      BY <2>1, <3>1
    <3>4. QED BY <3>2, <3>3
  <2>3. CASE d # c
    <3>1. channels[d] = filled[d]
      BY <1>3, <2>3
    <3>2. QED BY <2>1, <3>1
  <2>4. QED BY <2>2, <2>3
<1>9. Taken(s)' = Taken(s)
  <2>1. Taken(s)' = TakenOf(channels, UpdatedState(s), inState[r])
    BY <1>5 DEF Taken
  <2>2. TakenOf(channels, UpdatedState(s), inState[r]) = TakenOf(sub[s], outState[s], inState[r])
    BY <1>8 DEF TakenOf
  <2>3. QED BY <2>1, <2>2 DEF Taken
<1>10. ASSUME NEW d \in SubChannel PROVE FreshData(s, d)' \subseteq data[d]
  <2>1. FreshData(s, d)' \subseteq IF d = c THEN FreshData(s, d) \cup {p} ELSE FreshData(s, d)
    BY <1>5, <1>6 DEF FreshData, FreshFrom
  <2>2. CASE d = c
    <3>1. FreshData(s, d) = {}
      BY <1>3, <1>4, <1>7, <2>2
    <3>2. QED BY <2>1, <2>2, <3>1
  <2>3. CASE d # c
    BY <2>1, <2>3
  <2>4. QED BY <2>2, <2>3
<1>11. Flow(channels, Taken(s), list, EmptyBuffer, sent[s][NORMAL][1],
            recv[r][NORMAL], got[r][NORMAL], data)
  <2>1. ASSUME NEW d \in SubChannel, NEW q \in data[d] PROVE Carries(q, channels, d, list)
    <3>1. CASE d = c
      <4>1. q = p /\ c # NoChannel
        BY <1>4, <3>1
      <4>2. QED BY <1>1, <3>1, <4>1
    <3>2. CASE d # c
      <4>1. q \in Arriving(s)[d]
        BY <3>2 DEF Arriving
      <4>2. QED BY <1>1, <4>1 DEF Flow
    <3>3. QED BY <3>1, <3>2
  <2> HIDE DEF data
  <2>2. QED BY <1>1, <2>1 DEF Flow
<1>12. NoFiles(s)' /\ SentOnce(s)'
  <2>1. UpdatedLists(s)[FILE] = <<>>
    BY UpdatedFlow
  <2>2. QED BY <1>5, <2>1 DEF StreamInv, NoFiles, SentOnce
<1>13. waiting'[s][NORMAL] = list
  BY <1>5 DEF list
<1> HIDE DEF data
<1>14. QED BY <1>5, <1>9, <1>10, <1>11, <1>12, <1>13, StreamHolds

\* A step that changes nothing of this direction of the channel.
LEMMA HeldStream ==
    ASSUME NEW s \in Side, StreamInv(s),
           sub'[s] = sub[s], outState'[s] = outState[s], waiting'[s] = waiting[s],
           reliable'[s] = reliable[s], sent'[s] = sent[s],
           inState'[Peer(s)] = inState[Peer(s)], recv'[Peer(s)] = recv[Peer(s)],
           got'[Peer(s)] = got[Peer(s)],
           \A c \in SubChannel : FreshData(s, c)' \subseteq FreshData(s, c)
    PROVE  StreamInv(s)'
<1>1. Taken(s)' = Taken(s)
  BY DEF Taken
<1>2. NoFiles(s)' /\ SentOnce(s)'
  BY DEF StreamInv, NoFiles, SentOnce
<1>3. \A c \in SubChannel : FreshData(s, c)' \subseteq Arriving(s)[c]
  BY DEF Arriving
<1>4. Flow(sub[s], Taken(s), waiting[s][NORMAL], reliable[s], sent[s][NORMAL][1],
           recv[Peer(s)][NORMAL], got[Peer(s)][NORMAL], Arriving(s))
  BY DEF StreamInv
<1>5. QED BY <1>1, <1>2, <1>3, <1>4, StreamHolds

LEMMA FlowWritten ==
    ASSUME NEW channels, NEW T, NEW list, NEW buffer, NEW h, NEW b, NEW g, NEW data,
           NEW m \in Item, Bytes[m] > 0, Shape(channels, list, buffer, h, g),
           Flow(channels, T, list, buffer, h, b, g, data)
    PROVE  Flow(channels, T, list, Write(buffer, m), Append(h, m), b, g, data)
<1> DEFINE done == Done(channels, T, list)
<1>1. /\ h \in Seq(Item) /\ list \in Seq(BlockType) /\ buffer.items \in Seq(Item)
      /\ g \in Seq(Handed) /\ done \in BOOLEAN /\ (done => list # <<>>)
      /\ buffer.bytes \in Nat
  <2>1. buffer.items \in Seq(Item) /\ buffer.bytes \in 0 .. NET_MAX_PAYLOAD
    BY DEF Shape, BufferType
  <2>2. QED BY <2>1, ConstantsAssumption DEF Shape, Done
<1>2. Ordered(h, list, buffer.items, g, done)
  BY DEF Flow, Delivery
<1>3. /\ Write(buffer, m).items = Append(buffer.items, m)
      /\ Write(buffer, m).bytes = buffer.bytes + Bytes[m]
  BY DEF Write
<1>4. Ordered(Append(h, m), list, Write(buffer, m).items, g, done)
  <2> HIDE DEF done
  <2>1. Ordered(Append(h, m), list, Append(buffer.items, m), g, done)
    BY <1>1, <1>2, OrderedSend
  <2>2. QED BY <1>3, <2>1
<1>5. Write(buffer, m).bytes > 0
  <2>1. Bytes[m] \in 0 .. NET_MAX_PAYLOAD
    BY ItemsAssumption
  <2>2. QED BY <1>1, <1>3, <2>1, ConstantsAssumption
<1>6. BlocksOK(list, Write(buffer, m))
  BY <1>5 DEF Flow, BlocksOK
<1>7. Delivery(channels, T, list, Write(buffer, m), Append(h, m), b, g)
  BY <1>4 DEF Flow, Delivery
<1>8. QED BY <1>6, <1>7 DEF Flow

\* An item is written into the stream of messages: a message, or the answer
\* for a file that is not there.
LEMMA SendItemStream ==
    ASSUME FInv, NEW s \in Side, MessagesOnly(s), StreamInv(s),
           NEW m \in Item, Sender[m] = s, ~WasSent(s, m),
           reliable' = [reliable EXCEPT ![s] = Write(reliable[s], m)],
           sent' = [sent EXCEPT ![s][FRAG_NORMAL_STREAM] = Record(sent[s][FRAG_NORMAL_STREAM], m)],
           UNCHANGED <<inSeq, outState, inState, sub, waiting, recv, net, got>>
    PROVE  StreamInv(s)'
<1> DEFINE h == sent[s][NORMAL][1]
           h2 == Append(h, m)
<1>1. sent[s][NORMAL] \in Seq(Seq(Item)) /\ Len(sent[s][NORMAL]) = 1 /\ h \in Seq(Item)
  <2>1. Shape(sub[s], waiting[s][NORMAL], reliable[s], h, got[Peer(s)][NORMAL])
    BY StreamShape DEF StreamInv
  <2>2. QED BY <2>1, NormalStream DEF Shape, FInv, TypeOK, StreamInv, SentOnce
<1>2. sent'[s][NORMAL] = [sent[s][NORMAL] EXCEPT ![1] = h2] /\ sent'[s][FILE] = sent[s][FILE]
  <2>1. Record(sent[s][NORMAL], m) = [sent[s][NORMAL] EXCEPT ![1] = Append(h, m)]
    BY <1>1 DEF Record
  <2>2. sent'[s] = [sent[s] EXCEPT ![NORMAL] = Record(sent[s][NORMAL], m)]
    BY DEF FInv, TypeOK, NORMAL
  <2>3. sent[s] \in [Stream -> Seq(Seq(Item))]
    BY DEF FInv, TypeOK
  <2>4. QED BY <2>1, <2>2, <2>3, NormalStream
<1>3. Len(sent'[s][NORMAL]) = 1 /\ sent'[s][NORMAL][1] = h2
  BY <1>1, <1>2
<1>4. reliable'[s] = Write(reliable[s], m)
  BY DEF FInv, TypeOK
<1>5. SentOnce(s)'
  <2>1. \A i \in 1 .. Len(h) : h[i] # m
    BY <1>1, NormalStream DEF WasSent
  <2>2. \A i \in 1 .. Len(h) : Sender[h[i]] = s /\ \A k \in 1 .. Len(h) : h[i] = h[k] => i = k
    BY DEF StreamInv, SentOnce
  <2>3. /\ Len(h2) = Len(h) + 1 /\ h2[Len(h) + 1] = m /\ \A i \in 1 .. Len(h) : h2[i] = h[i]
    BY <1>1
  <2> HIDE DEF h, h2
  <2>4. ASSUME NEW i \in 1 .. Len(h2)
        PROVE  Sender[h2[i]] = s /\ \A k \in 1 .. Len(h2) : h2[i] = h2[k] => i = k
    <3>1. \A k \in 1 .. Len(h2) : k \in 1 .. Len(h) \/ k = Len(h) + 1
      BY <1>1, <2>3
    <3>2. QED BY <2>1, <2>2, <2>3, <3>1
  <2>5. QED BY <1>3, <2>4 DEF SentOnce
<1>6. NoFiles(s)'
  BY <1>2 DEF StreamInv, NoFiles
<1>7. Taken(s)' = Taken(s)
  BY DEF Taken
<1>8. \A c \in SubChannel : FreshData(s, c)' \subseteq Arriving(s)[c]
  BY DEF Arriving, FreshData, FreshFrom
<1>9. Flow(sub[s], Taken(s), waiting[s][NORMAL], Write(reliable[s], m), h2,
           recv[Peer(s)][NORMAL], got[Peer(s)][NORMAL], Arriving(s))
  <2>1. Bytes[m] > 0
    BY DEF MessagesOnly
  <2>2. QED BY <2>1, StreamShape, FlowWritten DEF StreamInv
<1> HIDE DEF h2
<1>10. QED BY <1>3, <1>4, <1>5, <1>6, <1>7, <1>8, <1>9, StreamHolds

LEMMA SendNetMsgStream ==
    ASSUME FInv, NEW s \in Side, MessagesOnly(s), StreamInv(s),
           NEW t \in Side, NEW m \in Msgs, SendNetMsg(t, m)
    PROVE  StreamInv(s)'
<1>1. CASE t = s
  BY <1>1, SendItemStream DEF SendNetMsg, Item
<1>2. CASE t # s
  <2>1. reliable'[s] = reliable[s] /\ sent'[s] = sent[s]
    BY <1>2 DEF SendNetMsg, FInv, TypeOK
  <2>2. QED BY <2>1, HeldStream DEF SendNetMsg, FreshData, FreshFrom
<1>3. QED BY <1>1, <1>2

LEMMA SendFileStream ==
    ASSUME FInv, NEW s \in Side, MessagesOnly(s), StreamInv(s),
           NEW t \in Side, NEW f \in Files, SendFile(t, f)
    PROVE  StreamInv(s)'
<1>1. CASE t = s
  <2>1. f \in Missing
    BY <1>1 DEF SendFile, MessagesOnly
  <2>2. QED BY <1>1, <2>1, SendItemStream DEF SendFile, Item
<1>2. CASE t # s
  <2>1. reliable'[s] = reliable[s] /\ sent'[s] = sent[s] /\ waiting'[s] = waiting[s]
    BY <1>2 DEF SendFile, FInv, TypeOK
  <2>2. QED BY <2>1, HeldStream DEF SendFile, FreshData, FreshFrom
<1>3. QED BY <1>1, <1>2

\* The datagrams of the peer carry nothing of this direction.
LEMMA PeerSendsStream ==
    ASSUME FInv, NEW s \in Side, StreamInv(s), NEW t \in Side \ {s}, SendDatagram(t)
    PROVE  StreamInv(s)'
<1>1. /\ sub'[s] = sub[s] /\ outState'[s] = outState[s] /\ waiting'[s] = waiting[s]
      /\ reliable'[s] = reliable[s]
  BY DEF SendDatagram, FInv, TypeOK
<1>2. /\ UNCHANGED <<inSeq, inState, recv, sent, got>>
      /\ \A p \in net' : p \in net \/ p.src = t
  BY DEF SendDatagram, Datagram
<1>3. \A c \in SubChannel : FreshData(s, c)' \subseteq FreshData(s, c)
  BY <1>2 DEF FreshData, FreshFrom
<1>4. QED BY <1>1, <1>2, <1>3, HeldStream

LEMMA InitStream ==
    ASSUME Init, NEW s \in Side
    PROVE  StreamInv(s)
<1>1. Peer(s) \in Side /\ NORMAL \in Stream /\ FILE \in Stream
  BY PeerFacts, NormalStream
<1>2. /\ sub[s] = [c \in SubChannel |-> FreeSubChannel] /\ waiting[s][NORMAL] = <<>>
      /\ waiting[s][FILE] = <<>> /\ reliable[s] = EmptyBuffer
      /\ sent[s][NORMAL] = << <<>> >> /\ sent[s][FILE] = << <<>> >>
      /\ recv[Peer(s)] = NothingReceived /\ got[Peer(s)] = [j \in Stream |-> <<>>]
      /\ net = {}
  BY <1>1 DEF Init, EmptyWaiting
<1>3. /\ recv[Peer(s)][NORMAL] = NoBuffer /\ recv[Peer(s)][FILE] = NoBuffer
      /\ got[Peer(s)][NORMAL] = <<>> /\ got[Peer(s)][FILE] = <<>> /\ ~NoBuffer.alloc
  BY <1>1, <1>2 DEF NothingReceived, NoBuffer
<1>4. BusyOf(sub[s]) = {} /\ Taken(s) = {} /\ SubsOK(sub[s])
  BY <1>2 DEF BusyOf, Taken, TakenOf, SubsOK, FreeSubChannel
<1>5. NoFiles(s) /\ SentOnce(s) /\ sent[s][NORMAL][1] = <<>>
  BY <1>2, <1>3 DEF NoFiles, SentOnce
<1>6. \A c \in SubChannel : Arriving(s)[c] = {}
  BY <1>2 DEF Arriving, FreshData, FreshFrom
<1>7. BlocksOK(<<>>, EmptyBuffer) /\ EmptyBuffer.items = <<>>
  BY DEF BlocksOK, EmptyBuffer
<1>8. Ordered(<<>>, <<>>, <<>>, <<>>, FALSE)
  <2> DEFINE cut == [i \in 0 .. 0 |-> 0]
  <2>1. cut \in Cuts(<<>>, <<>>) /\ cut[0] = 0
    BY DEF Cuts
  <2> HIDE DEF cut
  <2>2. Tiled(cut, <<>>, <<>>, <<>>)
    BY <2>1 DEF Tiled, Segment
  <2>3. Segment(<<>>, <<>>, 0) /\ Len(<<>>) = cut[0]
    BY <2>1 DEF Segment
  <2>4. QED BY <2>1, <2>2, <2>3 DEF Ordered
<1>9. Delivery(sub[s], Taken(s), <<>>, EmptyBuffer, <<>>, NoBuffer, <<>>)
  <2>1. Done(sub[s], Taken(s), <<>>) = FALSE
    BY DEF Done
  <2>2. QED BY <1>3, <1>7, <1>8, <2>1 DEF Delivery
<1>10. Flow(sub[s], Taken(s), <<>>, EmptyBuffer, <<>>, NoBuffer, <<>>, Arriving(s))
  BY <1>4, <1>6, <1>7, <1>9 DEF Flow
<1>11. QED BY <1>2, <1>3, <1>5, <1>10 DEF StreamInv

----------------------------------------------------------------------------
(* A datagram is accepted: its fragments arrive, or what it acknowledges   *)
(* leaves the list.                                                        *)

LEMMA FlowArrived ==
    ASSUME NEW channels, NEW T, NEW list, NEW buffer, NEW h, NEW b, NEW g, NEW data,
           Shape(channels, list, buffer, h, g),
           Flow(channels, T, list, buffer, h, b, g, data), list # <<>>,
           NEW c \in BusyOf(channels) \ T, NEW b2, NEW handled,
           \/ /\ handled = <<>> /\ b2.alloc
              /\ Arrived(channels, T \cup {c}, list[1]) < list[1].num
              /\ Gathered(channels, T \cup {c}, list[1], b2)
           \/ /\ handled = list[1].items /\ ~b2.alloc
              /\ Arrived(channels, T \cup {c}, list[1]) = list[1].num
    PROVE  Flow(channels, T \cup {c}, list, buffer, h, b2, g \o handled, data)
<1> DEFINE block == list[1]
           n == Arrived(channels, T, block)
           n2 == Arrived(channels, T \cup {c}, block)
<1>1. /\ channels \in Channels /\ list \in Seq(BlockType) /\ Counted(channels, list, NORMAL)
      /\ T \in SUBSET BusyOf(channels) /\ T \cup {c} \in SUBSET BusyOf(channels)
      /\ h \in Seq(Item) /\ g \in Seq(Handed) /\ buffer.items \in Seq(Item) /\ SubsOK(channels)
  BY DEF Shape, Flow, BufferType
<1>2. /\ n \in Nat /\ block.num \in Nat /\ n2 = n + channels[c].num[NORMAL]
      /\ channels[c].num[NORMAL] \in Nat /\ channels[c].num[NORMAL] > 0
      /\ n + channels[c].num[NORMAL] <= NextFragment(block)
      /\ NextFragment(block) <= block.num /\ NextFragment(block) \in Nat
  <2>1. c \in SubChannel
    BY BusySubChannels
  <2>2. channels[c].num[NORMAL] \in Nat /\ channels[c].num[NORMAL] > 0
    BY <1>1, <2>1, ChannelFields, NormalStream DEF SubsOK
  <2>3. QED BY <1>1, <2>2, ArrivedFacts
<1> HIDE DEF block, n, n2
<1>3. Done(channels, T, list) = FALSE
  BY <1>2 DEF Done, n, block
<1>4. Ordered(h, list, buffer.items, g, FALSE)
  BY <1>3 DEF Flow, Delivery
<1>5. n2 \in Nat /\ 0 < n2
  BY <1>2
<1>6. CASE /\ handled = <<>> /\ b2.alloc /\ n2 < block.num
           /\ Gathered(channels, T \cup {c}, block, b2)
  <2>1. Done(channels, T \cup {c}, list) = FALSE
    BY <1>2, <1>5, <1>6 DEF Done, n2, block
  <2>2. g \o handled = g
    BY <1>1, <1>6
  <2>3. Assembly(channels, T \cup {c}, block, b2)
    BY <1>5, <1>6 DEF Assembly, n2
  <2>4. Delivery(channels, T \cup {c}, list, buffer, h, b2, g \o handled)
    BY <1>4, <2>1, <2>2, <2>3 DEF Delivery, block
  <2>5. QED BY <1>1, <2>4 DEF Flow
<1>7. CASE handled = block.items /\ ~b2.alloc /\ n2 = block.num
  <2>1. Done(channels, T \cup {c}, list) = TRUE
    BY <1>7 DEF Done, n2, block
  <2>2. Ordered(h, list, buffer.items, g \o block.items, TRUE)
    BY <1>1, <1>4, OrderedHandOver DEF block
  <2>3. Assembly(channels, T \cup {c}, block, b2)
    <3>1. ~(n2 < block.num)
      BY <1>2, <1>7
    <3>2. QED BY <1>7, <3>1 DEF Assembly, n2
  <2>4. Delivery(channels, T \cup {c}, list, buffer, h, b2, g \o handled)
    BY <1>7, <2>1, <2>2, <2>3 DEF Delivery, block
  <2>5. QED BY <1>1, <2>4 DEF Flow
<1>8. QED BY <1>6, <1>7 DEF n2, block

\* The fragments of the subchannels C are acknowledged.
LEMMA FlowAcked ==
    ASSUME NEW channels, NEW channels2, NEW T, NEW C \in SUBSET T, NEW list, NEW list2,
           NEW buffer, NEW h, NEW b, NEW g, NEW data, NEW data2,
           Shape(channels, list, buffer, h, g), Shape(channels2, list2, buffer, h, g),
           Flow(channels, T, list, buffer, h, b, g, data), SubsOK(channels2),
           BusyOf(channels2) = BusyOf(channels) \ C,
           \A c \in BusyOf(channels2) : /\ channels2[c].num = channels[c].num
                                        /\ channels2[c].start = channels[c].start,
           list2 = IF Carried(channels, C, NORMAL) = 0 THEN list
                   ELSE [list EXCEPT ![1] = Acknowledged(list[1], Carried(channels, C, NORMAL))],
           \A c \in SubChannel : /\ data2[c] \subseteq data[c]
                                 /\ c \in C => data2[c] = {}
    PROVE  Flow(channels2, T \ C, list2, buffer, h, b, g, data2)
<1> DEFINE block == list[1]
           after == list2[1]
           n == Carried(channels, C, NORMAL)
           T2 == T \ C
<1>1. /\ channels \in Channels /\ list \in Seq(BlockType) /\ Counted(channels, list, NORMAL)
      /\ channels2 \in Channels /\ list2 \in Seq(BlockType) /\ Counted(channels2, list2, NORMAL)
      /\ T \in SUBSET BusyOf(channels) /\ SubsOK(channels)
      /\ T2 \in SUBSET BusyOf(channels2) /\ C \in SUBSET SubChannel /\ T2 \in SUBSET SubChannel
  BY BusySubChannels DEF Shape, Flow
<1>2. n \in Nat
  BY <1>1, CarriedFinite, NormalStream
<1>3. CASE list = <<>>
  <2>1. BusyOf(channels) = {}
    BY <1>1, <1>3, IdleHead
  <2>2. T = {} /\ C = {} /\ T2 = T
    BY <1>1, <2>1
  <2>3. n = 0
    BY <1>1, <2>2, CarriedNone, NormalStream
  <2>4. list2 = list
    BY <2>3
  <2>5. Delivery(channels2, T2, list2, buffer, h, b, g)
    <3>1. Done(channels, T, list) = FALSE /\ Done(channels2, T2, list2) = FALSE
      BY <1>3, <2>4 DEF Done
    <3>2. QED BY <1>3, <2>4, <3>1 DEF Flow, Delivery
  <2>6. \A c \in SubChannel : data2[c] = {}
    BY <2>1 DEF Flow, Carries
  <2>7. QED BY <1>1, <2>4, <2>5, <2>6 DEF Flow
<1>4. CASE list # <<>>
  <2>1. block \in BlockType /\ block.acked \in Nat /\ block.pending \in Int
    BY <1>1, <1>4, BlockFields
  <2>2. /\ Len(list2) = Len(list) /\ list2 # <<>>
        /\ \A i \in 2 .. Len(list) : list2[i] = list[i]
        /\ after = IF n = 0 THEN block ELSE Acknowledged(block, n)
    BY <1>1, <1>4
  <2>3. /\ after.items = block.items /\ after.enc = block.enc /\ after.num = block.num
        /\ after.bytes = block.bytes
        /\ after.acked = block.acked + n /\ after.pending = block.pending - n
    <3>1. CASE n = 0
      BY <2>1, <2>2, <3>1
    <3>2. CASE n # 0
      BY <2>1, <2>2, <3>2 DEF Acknowledged, BlockType
    <3>3. QED BY <3>1, <3>2
  <2> HIDE DEF block, after, n
  <2>4. NextFragment(after) = NextFragment(block) /\ NextFragment(block) \in Int
        /\ Load(after) = Load(block)
    BY <1>2, <2>1, <2>3 DEF NextFragment, Load
  <2>5. Arrived(channels2, T2, after) = Arrived(channels, T, block)
    <3>1. Carried(channels2, T2, NORMAL) = Carried(channels, T2, NORMAL)
      BY <1>1, CarriedSame
    <3>2. Carried(channels, C \cup T2, NORMAL) = n + Carried(channels, T2, NORMAL)
      BY <1>1, CarriedUnion, NormalStream DEF n
    <3>3. C \cup T2 = T
      OBVIOUS
    <3>4. Carried(channels, T2, NORMAL) \in Nat
      BY <1>1, CarriedFinite, NormalStream
    <3> HIDE DEF T2
    <3>5. Carried(channels, T, NORMAL) = n + Carried(channels, T2, NORMAL)
      BY <3>2, <3>3
    <3>6. QED BY <1>2, <2>1, <2>3, <3>1, <3>4, <3>5 DEF Arrived
  <2>6. ASSUME NEW c \in BusyOf(channels2) \ T2
        PROVE  c \in BusyOf(channels) \ T /\ Span(channels2[c]) = Span(channels[c])
    BY DEF Span
  <2>7. Assembly(channels2, T2, after, b)
    <3>1. Assembly(channels, T, block, b)
      BY <1>4 DEF Flow, Delivery, block
    <3>2. NextFragment(block) <= NextFragment(after) /\ NextFragment(after) \in Int
      BY <2>4
    <3> HIDE DEF T2
    <3>3. QED BY <2>3, <2>4, <2>5, <2>6, <3>1, <3>2, AssemblyAlike
  <2>8. Done(channels2, T2, list2) = Done(channels, T, list)
    BY <1>4, <2>2, <2>3, <2>5 DEF Done, block, after
  <2>9. \A i \in 1 .. Len(list) : /\ list2[i].items = list[i].items /\ list2[i].num = list[i].num
                                  /\ list2[i].bytes = list[i].bytes /\ list2[i].enc = list[i].enc
    BY <2>2, <2>3 DEF block, after
  <2>10. Ordered(h, list2, buffer.items, g, Done(channels2, T2, list2))
    <3>1. Ordered(h, list, buffer.items, g, Done(channels2, T2, list2))
      BY <2>8 DEF Flow, Delivery
    <3>2. QED BY <1>1, <2>2, <2>9, <3>1, OrderedAlike
  <2>11. BlocksOK(list2, buffer)
    BY <2>2, <2>9 DEF Flow, BlocksOK
  <2>12. ASSUME NEW c \in SubChannel, NEW p \in data2[c] PROVE Carries(p, channels2, c, list2)
    <3>1. Carries(p, channels, c, list) /\ c \notin C
      BY DEF Flow
    <3>2. c \in BusyOf(channels2)
      BY <3>1 DEF Carries
    <3>3. FragmentGroup(after, channels2[c], NORMAL) = FragmentGroup(block, channels[c], NORMAL)
      BY <2>3, <2>4, <3>2 DEF FragmentGroup
    <3>4. QED BY <3>1, <3>2, <3>3 DEF Carries, block, after
  <2>13. Delivery(channels2, T2, list2, buffer, h, b, g)
    BY <2>2, <2>7, <2>10 DEF Delivery, after
  <2> HIDE DEF T2
  <2>14. QED BY <1>1, <2>11, <2>12, <2>13 DEF Flow, T2
<1>5. QED BY <1>3, <1>4

\* A head that is acknowledged completely leaves the list.
LEMMA FlowTail ==
    ASSUME NEW channels, NEW T, NEW list, NEW buffer, NEW h, NEW b, NEW g, NEW data, NEW ack,
           Shape(channels, list, buffer, h, g),
           Flow(channels, T, list, buffer, h, b, g, data)
    PROVE  Flow(channels, T, CheckWaitingList(list, ack), buffer, h, b, g, data)
<1>1. CASE ~(list # <<>> /\ ack > 0 /\ list[1].acked = list[1].num)
  BY <1>1 DEF CheckWaitingList
<1>2. CASE list # <<>> /\ ack > 0 /\ list[1].acked = list[1].num
  <2> DEFINE list2 == Tail(list)
             block == list[1]
  <2>1. /\ channels \in Channels /\ list \in Seq(BlockType) /\ Counted(channels, list, NORMAL)
        /\ T \in SUBSET BusyOf(channels) /\ SubsOK(channels)
    BY DEF Shape, Flow
  <2>2. /\ block.acked \in Nat /\ block.pending \in Int /\ block.num \in Nat
        /\ NextFragment(block) = block.acked + block.pending
    BY <1>2, <2>1, BlockFields
  <2>3. block.pending <= 0
    <3>1. NextFragment(block) <= block.num
      BY <1>2, <2>1 DEF Counted
    <3> HIDE DEF block
    <3>2. block.acked = block.num
      BY <1>2 DEF block
    <3>3. QED BY <2>2, <3>1, <3>2
  <2>4. BusyOf(channels) = {} /\ T = {}
    BY <2>1, <2>3, IdleHead
  <2>5. Arrived(channels, T, block) = block.num
    <3>1. Carried(channels, T, NORMAL) = 0
      BY <2>1, <2>4, CarriedNone, NormalStream
    <3>2. QED BY <1>2, <2>2, <3>1 DEF Arrived
  <2>6. Done(channels, T, list) = TRUE /\ ~b.alloc
    <3>1. Assembly(channels, T, block, b)
      BY <1>2 DEF Flow, Delivery
    <3>2. ~(block.num < block.num)
      BY <2>2
    <3>3. QED BY <1>2, <2>5, <3>1, <3>2 DEF Assembly, Done
  <2>7. Ordered(h, list2, buffer.items, g, FALSE)
    <3> DEFINE items == buffer.items
    <3>1. Ordered(h, list, items, g, TRUE)
      BY <2>6 DEF Flow, Delivery
    <3>2. list # <<>> /\ h \in Seq(Item)
      BY <1>2 DEF Shape
    <3> HIDE DEF items, list2
    <3>3. Ordered(h, Tail(list), items, g, FALSE)
      BY <2>1, <3>1, <3>2, OrderedTail
    <3>4. QED BY <3>3 DEF items, list2
  <2>8. /\ Len(list2) = Len(list) - 1 /\ \A i \in 1 .. Len(list2) : list2[i] = list[i + 1]
        /\ \A i \in 1 .. Len(list2) : i + 1 \in 1 .. Len(list)
    BY <1>2, <2>1
  <2> HIDE DEF list2, block
  <2>9. BlocksOK(list2, buffer)
    BY <2>8 DEF Flow, BlocksOK
  <2>10. list2 # <<>> => Arrived(channels, T, list2[1]) = 0 /\ list2[1].num > 0
    <3>1. SUFFICES ASSUME list2 # <<>>
                   PROVE  Arrived(channels, T, list2[1]) = 0 /\ list2[1].num > 0
      OBVIOUS
    <3>2. 1 \in 1 .. Len(list2) /\ 2 \in 2 .. Len(list)
      <4>1. list2 \in Seq(BlockType)
        BY <1>2, <2>1 DEF list2
      <4>2. QED BY <2>8, <3>1, <4>1
    <3>3. list2[1].acked = 0
      BY <2>1, <2>8, <3>2 DEF Counted
    <3>4. QED BY <2>1, <2>4, <2>9, <3>2, <3>3, NothingArrived DEF BlocksOK
  <2>11. Done(channels, T, list2) = FALSE
    BY <2>10 DEF Done
  <2>12. list2 # <<>> => Assembly(channels, T, list2[1], b)
    BY <2>6, <2>10 DEF Assembly
  <2>13. Delivery(channels, T, list2, buffer, h, b, g)
    BY <2>6, <2>7, <2>11, <2>12 DEF Delivery
  <2>14. \A c \in SubChannel : data[c] = {}
    BY <2>4 DEF Flow, Carries
  <2>15. CheckWaitingList(list, ack) = list2
    BY <1>2 DEF CheckWaitingList, list2
  <2>16. QED BY <2>1, <2>9, <2>13, <2>14, <2>15 DEF Flow
<1>3. QED BY <1>1, <1>2

----------------------------------------------------------------------------
(* A datagram of s arrives.                                                *)

\* Nothing is in flight on a subchannel that is free or was taken already.
LEMMA ArrivesOnce ==
    ASSUME FInv, NEW s \in Side, NEW p \in net, p.src = s, ~Stale(Peer(s), p),
           SubsOK(sub[s]), NEW c \in SubChannel, p.chan = c
    PROVE  /\ p \in FreshData(s, c)
           /\ sub[s][c].state = "WAITING" /\ outState[s][c] # inState[Peer(s)][c]
           /\ c \in BusyOf(sub[s]) \ Taken(s)
<1>1. IInv
  BY DEF FInv
<1>2. p \in FreshData(s, c) /\ p.seq > inSeq[Peer(s)] /\ p.seq \in Int
  <2>1. PacketOK(p)
    BY <1>1, FreshFacts
  <2>2. p.seq > inSeq[Peer(s)]
    BY <1>1, FreshFacts
  <2>3. QED BY <2>1, <2>2 DEF FreshData, FreshFrom, PacketOK
<1>3. /\ sub[s][c].state \in States /\ sub[s][c].state # "DIRTY"
      /\ inSeq[Peer(s)] \in Int
  BY <1>1, WireTyped, PeerFacts DEF IInv, SubsOK
<1>4. SubchannelInv(s, c)
  BY <1>1 DEF IInv, SubchannelsInv
<1>5. sub[s][c].state = "WAITING"
  BY <1>2, <1>3, <1>4 DEF SubchannelInv, Agrees, States
<1>6. outState[s][c] # inState[Peer(s)][c]
  <2>1. p.seq = sub[s][c].sendSeq
    BY <1>2, <1>4, <1>5 DEF SubchannelInv, Agrees
  <2>2. outState[s][c] = inState[Peer(s)][c] => sub[s][c].sendSeq <= inSeq[Peer(s)]
    BY <1>4, <1>5 DEF SubchannelInv, Agrees
  <2>3. QED BY <1>2, <1>3, <2>1, <2>2
<1>7. QED BY <1>2, <1>5, <1>6 DEF BusyOf, Taken, TakenOf

\* What a datagram of s does to the receive lists of its peer.
LEMMA ArrivalFlow ==
    ASSUME FInv, NEW s \in Side, MessagesOnly(s), StreamInv(s),
           NEW p \in net, p.src = s, ~Stale(Peer(s), p), p.chan # NoChannel
    PROVE  LET in == Received(Peer(s), p)
               T == IF in.flip THEN Taken(s) \cup {p.chan} ELSE Taken(s)
           IN /\ Flow(sub[s], T, waiting[s][NORMAL], reliable[s], sent[s][NORMAL][1],
                      in.recv[NORMAL], got[Peer(s)][NORMAL] \o in.handled[NORMAL], Arriving(s))
              /\ in.recv[FILE] = recv[Peer(s)][FILE] /\ in.handled[FILE] = <<>>
              /\ in.flip \in BOOLEAN
<1> DEFINE r == Peer(s)
           c == p.chan
           in == Received(r, p)
           channels == sub[s]
           T == Taken(s)
           list == waiting[s][NORMAL]
           h == sent[s][NORMAL][1]
           g == got[r][NORMAL]
<1>1. /\ Shape(channels, list, reliable[s], h, g)
      /\ \A j \in Stream : RecvOK(recv[r][j])
      /\ SideOK(s) /\ IInv
  BY StreamShape DEF StreamInv
<1>2. /\ Flow(channels, T, list, reliable[s], h, recv[r][NORMAL], g, Arriving(s))
      /\ NoFiles(s) /\ SentOnce(s)
  BY DEF StreamInv
<1>3. c \in SubChannel /\ \A j \in Stream : GroupOK(p.frags[j])
  <2>1. p \in PacketType /\ HeaderOK(p)
    BY ASideFacts
  <2>2. QED BY <2>1 DEF PacketType, HeaderOK, GroupOK
<1>4. p \in FreshData(s, c) /\ c \in BusyOf(channels) \ T
  BY <1>2, <1>3, ArrivesOnce DEF Flow
<1>5. /\ p.frags[NORMAL] = FragmentGroup(list[1], channels[c], NORMAL)
      /\ p.frags[FILE].num = 0
  BY <1>2, <1>3, <1>4 DEF Flow, Carries, Arriving
<1>6. /\ channels \in Channels /\ list \in Seq(BlockType) /\ Counted(channels, list, NORMAL)
      /\ h \in Seq(Item) /\ g \in Seq(Handed)
      /\ T \in SUBSET BusyOf(channels) /\ SubsOK(channels) /\ channels[c].num[NORMAL] > 0
  <2>1. /\ channels \in Channels /\ list \in Seq(BlockType) /\ Counted(channels, list, NORMAL)
        /\ h \in Seq(Item) /\ g \in Seq(Handed)
    BY <1>1 DEF Shape
  <2>2. T \in SUBSET BusyOf(channels) /\ SubsOK(channels)
    BY <1>2 DEF Flow
  <2> HIDE DEF channels, list, h, g, T, c
  <2>3. channels[c].num[NORMAL] > 0
    BY <1>3, <1>4, <2>2 DEF SubsOK
  <2>4. QED BY <2>1, <2>2, <2>3
<1>7. list # <<>>
  <2> HIDE DEF channels, T, list, c
  <2>1. QED BY <1>4, <1>6, IdleHead
<1>8. list[1].enc # "snappy" /\ Assembly(channels, T, list[1], recv[r][NORMAL])
  <2>1. 1 \in 1 .. Len(list)
    BY <1>6, <1>7
  <2>2. QED BY <1>2, <1>7, <2>1 DEF Flow, BlocksOK, Delivery
<1>9. \A k \in 1 .. Len(list[1].items) : list[1].items[k] \notin ResetMsgs \cup FailMsgs
  <2>1. TAKE k \in 1 .. Len(list[1].items)
  <2>2. PICK i \in 1 .. Len(h) : list[1].items[k] = h[i]
    <3>1. Ordered(h, list, reliable[s].items, g, Done(channels, T, list))
      BY <1>2 DEF Flow, Delivery
    <3> HIDE DEF h, g, list, channels, T
    <3>2. QED BY <1>6, <1>7, <3>1, HeadWasSent
  <2>3. Sender[h[i]] = s
    BY <1>2 DEF SentOnce
  <2>4. QED BY <2>2, <2>3 DEF MessagesOnly
<1>10. ~recv[r][FILE].alloc
  BY <1>2 DEF NoFiles
<1> HIDE DEF channels, T, list, h, g, c
<1>11. /\ in.recv[FILE] = recv[r][FILE] /\ in.handled[FILE] = <<>>
       /\ \/ /\ in.flip = FALSE /\ in.handled[NORMAL] = <<>>
             /\ in.recv[NORMAL] = recv[r][NORMAL]
          \/ /\ in.flip = TRUE /\ in.handled[NORMAL] = <<>>
             /\ Arrived(channels, T \cup {c}, list[1]) < list[1].num
             /\ in.recv[NORMAL].alloc
             /\ Gathered(channels, T \cup {c}, list[1], in.recv[NORMAL])
          \/ /\ in.flip = TRUE /\ in.handled[NORMAL] = list[1].items
             /\ Arrived(channels, T \cup {c}, list[1]) = list[1].num
             /\ ~in.recv[NORMAL].alloc
  <2>1. \A j \in Stream : RecvOK(recv[r][j]) /\ GroupOK(p.frags[j])
    BY <1>1, <1>3
  <2>2. p.chan # NoChannel
    OBVIOUS
  <2> HIDE DEF r, in
  <2>3. Arrival(channels, T, c, list, r, p)
    BY <1>4, <1>5, <1>6, <1>7, <1>8, <1>9, <1>10, <2>1, <2>2 DEF Arrival
  <2>4. Outcome(channels, T, c, list, r, Received(r, p))
    BY <2>3, ArrivalOutcome
  <2>5. QED BY <2>4 DEF Outcome, in
<1> HIDE DEF in
<1>12. CASE in.flip = FALSE
  <2>1. in.handled[NORMAL] = <<>> /\ in.recv[NORMAL] = recv[r][NORMAL]
    BY <1>11, <1>12
  <2>2. g \o <<>> = g
    BY <1>6
  <2>3. QED BY <1>2, <1>11, <1>12, <2>1, <2>2 DEF T, list, h, g, channels, c, in
<1>13. CASE in.flip = TRUE
  <2>1. Flow(channels, T \cup {c}, list, reliable[s], h, in.recv[NORMAL],
             g \o in.handled[NORMAL], Arriving(s))
    <3> DEFINE b2 == in.recv[NORMAL]
               handled == in.handled[NORMAL]
    <3>1. \/ /\ handled = <<>> /\ b2.alloc
             /\ Arrived(channels, T \cup {c}, list[1]) < list[1].num
             /\ Gathered(channels, T \cup {c}, list[1], b2)
          \/ /\ handled = list[1].items /\ ~b2.alloc
             /\ Arrived(channels, T \cup {c}, list[1]) = list[1].num
      BY <1>11, <1>13
    <3>2. /\ Shape(channels, list, reliable[s], h, g)
          /\ Flow(channels, T, list, reliable[s], h, recv[r][NORMAL], g, Arriving(s))
      BY <1>1, <1>2 DEF T, list, h, g, channels
    <3> HIDE DEF b2, handled
    <3>3. Flow(channels, T \cup {c}, list, reliable[s], h, b2, g \o handled, Arriving(s))
      BY <1>4, <1>7, <3>1, <3>2, FlowArrived
    <3>4. QED BY <3>3 DEF b2, handled
  <2>2. QED BY <1>11, <1>13, <2>1 DEF T, list, h, g, channels, c, in
<1>14. QED BY <1>11, <1>12, <1>13

\* The step of a datagram whose header is valid, when nothing calls Clear().
LEMMA ProcessStep ==
    ASSUME FInv, ResetMsgs = {}, NEW p \in net, Process(p)
    PROVE  LET s == p.src
               r == Peer(s)
               in == Received(r, p)
           IN /\ s \in Side /\ r \in Side /\ r # s /\ Peer(r) = s /\ ~Stale(r, p)
              /\ p.seq > inSeq[r] /\ p.seq \in Int /\ p.ack \in Nat /\ PacketOK(p)
              /\ net' \subseteq net /\ inSeq'[r] = p.seq /\ inSeq'[s] = inSeq[s]
              /\ sub'[r] = AckedChannels(r, p) /\ outState'[r] = AckedState(r, p)
              /\ waiting'[r] = [j \in Stream |-> CheckWaitingList(CountedLists(r, p)[j], p.ack)]
              /\ inState' = IF in.flip THEN [inState EXCEPT ![r][p.chan] = Flip(@)] ELSE inState
              /\ recv'[r] = in.recv
              /\ got'[r] = [j \in Stream |-> got[r][j] \o in.handled[j]]
              /\ reliable' = reliable /\ sent' = sent
              /\ sub'[s] = sub[s] /\ outState'[s] = outState[s] /\ waiting'[s] = waiting[s]
              /\ recv'[s] = recv[s] /\ got'[s] = got[s]
<1> DEFINE s == p.src
           r == Peer(s)
           in == Received(r, p)
<1>1. IInv /\ ~Stale(r, p)
  BY DEF FInv, Process
<1>2. /\ s \in Side /\ PacketOK(p) /\ p.seq > inSeq[r]
      /\ r \in Side /\ r # s /\ Peer(r) = s
  BY <1>1, FreshFacts, PeerFacts
<1>3. HeaderValid(r, p)
  BY <1>1, NeverInvalid
<1>4. in.cleared = FALSE
  <2>1. \A j \in Stream : RecvOK(recv[r][j]) /\ GroupOK(p.frags[j])
    <3>1. p \in PacketType /\ HeaderOK(p)
      BY <1>2, ASideFacts
    <3>2. QED BY <1>2, <3>1 DEF FInv, TypeOK, HeadersInv, RecvOK, PacketType, HeaderOK, GroupOK
  <2> HIDE DEF r
  <2>2. QED BY <2>1, NeverCleared
<1>5. p.seq \in Int /\ p.ack \in Nat
  BY <1>2 DEF PacketOK
<1>6. TypeOK
  BY DEF FInv
<1> HIDE DEF in
<1>7. /\ net' \subseteq net /\ inSeq' = [inSeq EXCEPT ![r] = p.seq]
      /\ sub' = [sub EXCEPT ![r] = AckedChannels(r, p)]
      /\ outState' = [outState EXCEPT ![r] = AckedState(r, p)]
      /\ waiting' = [waiting EXCEPT ![r] =
                        [j \in Stream |-> CheckWaitingList(CountedLists(r, p)[j], p.ack)]]
      /\ inState' = IF in.flip THEN [inState EXCEPT ![r][p.chan] = Flip(@)] ELSE inState
      /\ recv' = [recv EXCEPT ![r] = in.recv]
      /\ got' = [got EXCEPT ![r] = [j \in Stream |-> got[r][j] \o in.handled[j]]]
      /\ reliable' = [reliable EXCEPT ![r] = reliable[r]]
      /\ sent' = [sent EXCEPT ![r] = sent[r]]
  BY <1>3, <1>4 DEF Process, in
<1>8. reliable' = reliable /\ sent' = sent
  BY <1>2, <1>6, <1>7 DEF TypeOK
<1>9. /\ inSeq'[r] = p.seq /\ inSeq'[s] = inSeq[s]
      /\ sub'[r] = AckedChannels(r, p) /\ sub'[s] = sub[s]
      /\ outState'[r] = AckedState(r, p) /\ outState'[s] = outState[s]
      /\ waiting'[r] = [j \in Stream |-> CheckWaitingList(CountedLists(r, p)[j], p.ack)]
      /\ waiting'[s] = waiting[s]
      /\ recv'[r] = in.recv /\ recv'[s] = recv[s]
      /\ got'[r] = [j \in Stream |-> got[r][j] \o in.handled[j]] /\ got'[s] = got[s]
  BY <1>2, <1>6, <1>7 DEF TypeOK
<1>10. QED BY <1>1, <1>2, <1>5, <1>7, <1>8, <1>9 DEF in

\* A datagram of s is processed.
LEMMA ArrivalStream ==
    ASSUME FInv, NEW s \in Side, MessagesOnly(s), StreamInv(s),
           NEW p \in net, p.src = s, Process(p)
    PROVE  StreamInv(s)'
<1> DEFINE r == Peer(s)
           c == p.chan
           in == Received(r, p)
<1>1. ResetMsgs = {}
  BY DEF MessagesOnly
<1>2. /\ r \in Side /\ r # s /\ ~Stale(r, p) /\ p.seq > inSeq[r] /\ p.seq \in Int /\ PacketOK(p)
      /\ net' \subseteq net /\ inSeq'[r] = p.seq
      /\ inState' = IF in.flip THEN [inState EXCEPT ![r][c] = Flip(@)] ELSE inState
      /\ recv'[r] = in.recv
      /\ got'[r] = [j \in Stream |-> got[r][j] \o in.handled[j]]
      /\ reliable' = reliable /\ sent' = sent
      /\ sub'[s] = sub[s] /\ outState'[s] = outState[s] /\ waiting'[s] = waiting[s]
  BY <1>1, ProcessStep
<1>3. \A d \in SubChannel : FreshData(s, d)' \subseteq FreshData(s, d)
  <2>1. \A q \in net : q.src = s /\ q.seq > p.seq => q.seq > inSeq[r]
    BY <1>2 DEF FInv, IInv, WireOK, PacketOK
  <2>2. QED BY <1>2, <2>1 DEF FreshData, FreshFrom
<1>4. IInv /\ NORMAL \in Stream /\ FILE \in Stream /\ NoFiles(s) /\ SentOnce(s)
  BY NormalStream DEF FInv, StreamInv
<1>5. NoChannel \notin SubChannel
  BY ConstantsAssumption DEF NoChannel, SubChannel
<1>6. CASE c = NoChannel
  <2>1. /\ in.flip = FALSE /\ in.recv[NORMAL] = recv[r][NORMAL] /\ in.recv[FILE] = recv[r][FILE]
        /\ in.handled[NORMAL] = <<>> /\ in.handled[FILE] = <<>>
    BY <1>4, <1>6, NormalStream DEF Received, NORMAL, FILE
  <2>2. got[r][NORMAL] \o <<>> = got[r][NORMAL] /\ got[r][FILE] \o <<>> = got[r][FILE]
    BY <1>2, <1>4 DEF FInv, TypeOK
  <2>3. got'[r][NORMAL] = got[r][NORMAL] /\ got'[r][FILE] = got[r][FILE]
    <3>1. got'[r] = [j \in Stream |-> got[r][j] \o in.handled[j]]
      BY <1>2
    <3> HIDE DEF in, r
    <3>2. QED BY <1>4, <2>1, <2>2, <3>1
  <2>4. recv'[r][NORMAL] = recv[r][NORMAL] /\ recv'[r][FILE] = recv[r][FILE]
    BY <1>2, <2>1
  <2>5. Taken(s)' = Taken(s)
    BY <1>2, <2>1 DEF Taken
  <2>6. NoFiles(s)' /\ SentOnce(s)'
    BY <1>2, <1>4, <2>3, <2>4 DEF NoFiles, SentOnce
  <2>7. /\ Flow(sub[s], Taken(s), waiting[s][NORMAL], reliable[s], sent[s][NORMAL][1],
                recv[r][NORMAL], got[r][NORMAL], Arriving(s))
        /\ \A d \in SubChannel : FreshData(s, d)' \subseteq Arriving(s)[d]
    BY <1>3 DEF StreamInv, Arriving
  <2>8. QED BY <1>2, <2>3, <2>4, <2>5, <2>6, <2>7, StreamHolds
<1>7. CASE c # NoChannel
  <2> DEFINE T == IF in.flip THEN Taken(s) \cup {c} ELSE Taken(s)
             b == in.recv[NORMAL]
             g == got[r][NORMAL] \o in.handled[NORMAL]
  <2>1. /\ Flow(sub[s], T, waiting[s][NORMAL], reliable[s], sent[s][NORMAL][1], b, g, Arriving(s))
        /\ in.recv[FILE] = recv[r][FILE] /\ in.handled[FILE] = <<>> /\ in.flip \in BOOLEAN
    BY <1>2, <1>7, ArrivalFlow
  <2>2. c \in SubChannel
    BY <1>2, <1>7 DEF PacketOK
  <2>3. sub[s][c].state = "WAITING" /\ outState[s][c] # inState[r][c]
    <3>1. SubsOK(sub[s])
      BY DEF StreamInv, Flow
    <3>2. QED BY <1>2, <2>2, <3>1, ArrivesOnce
  <2>4. Taken(s)' = T
    <3>1. CASE in.flip
      <4>1. /\ inState'[r][c] = Flip(inState[r][c])
            /\ \A d \in SubChannel \ {c} : inState'[r][d] = inState[r][d]
        BY <1>2, <1>4, <2>2, <3>1 DEF IInv, WireOK
      <4>2. inState'[r][c] = outState[s][c]
        <5>1. inState[r][c] \in {0, 1} /\ outState[s][c] \in {0, 1}
          BY <1>2, <1>4, <2>2, WireTyped DEF IInv
        <5>2. QED BY <2>3, <4>1, <5>1 DEF Flip
      <4>3. \A d \in SubChannel : d \in Taken(s)' <=> d \in Taken(s) \/ d = c
        BY <1>2, <2>3, <4>1, <4>2 DEF Taken, TakenOf
      <4>4. QED BY <2>2, <3>1, <4>3 DEF Taken, TakenOf
    <3>2. CASE ~in.flip
      BY <1>2, <3>2 DEF Taken
    <3>3. QED BY <3>1, <3>2
  <2>5. got'[r][NORMAL] = g /\ got'[r][FILE] = <<>>
    <3>1. got[r][FILE] = <<>>
      BY <1>4 DEF NoFiles
    <3>2. got'[r] = [j \in Stream |-> got[r][j] \o in.handled[j]]
      BY <1>2
    <3>3. in.handled[FILE] = <<>>
      BY <2>1
    <3>4. <<>> \o <<>> = <<>>
      OBVIOUS
    <3> HIDE DEF in, r
    <3>5. QED BY <1>4, <3>1, <3>2, <3>3, <3>4
  <2>6. recv'[r][NORMAL] = b /\ recv'[r][FILE] = recv[r][FILE]
    BY <1>2, <2>1
  <2>7. NoFiles(s)' /\ SentOnce(s)'
    BY <1>2, <1>4, <2>5, <2>6 DEF NoFiles, SentOnce
  <2>8. \A d \in SubChannel : FreshData(s, d)' \subseteq Arriving(s)[d]
    BY <1>3 DEF Arriving
  <2> HIDE DEF T, b, g
  <2>9. QED BY <1>2, <2>1, <2>4, <2>5, <2>6, <2>7, <2>8, StreamHolds
<1>8. QED BY <1>6, <1>7

----------------------------------------------------------------------------
(* An acknowledgement arrives.                                             *)

\* It confirms what was taken, sends again only what was not, and never
\* concerns data that may still arrive.
LEMMA AckedTaken ==
    ASSUME FInv, NEW s \in Side, SubsOK(sub[s]),
           NEW p \in net, p.src = Peer(s), ~Stale(s, p)
    PROVE  /\ Confirmed(s, p) \in SUBSET Taken(s)
           /\ \A c \in Confirmed(s, p) : FreshData(s, c) = {}
           /\ TakenOf(AckedChannels(s, p), outState[s], inState[Peer(s)])
                = Taken(s) \ Confirmed(s, p)
           /\ AckedState(s, p) = outState[s]
           /\ SubsOK(AckedChannels(s, p))
<1> DEFINE r == Peer(s)
           after == AckedChannels(s, p)
<1>1. IInv /\ r \in Side /\ Peer(r) = s /\ sub[s] \in Channels
  BY PeerFacts, SidesOK DEF FInv, SideOK
<1>2. p \in FreshFrom(r)
  BY <1>1, FreshFacts
<1>3. ASSUME NEW c \in SubChannel, sub[s][c].state = "WAITING"
      PROVE  /\ outState[s][c] # inState[r][c] => p.rel[c] # outState[s][c]
             /\ outState[s][c] = inState[r][c] =>
                  /\ p.rel[c] = outState[s][c] <=> p.ack >= sub[s][c].sendSeq
                  /\ FreshData(s, c) = {}
  <2>1. SubchannelInv(s, c)
    BY <1>1 DEF IInv, SubchannelsInv
  <2>2. \A q \in FreshData(s, c) : q.seq \in Int /\ q.seq > inSeq[r]
    BY <1>1 DEF FreshData, FreshFrom, IInv, WireOK, PacketOK
  <2>3. inSeq[r] \in Int
    BY <1>1, WireTyped DEF IInv
  <2>4. \A q \in FreshData(s, c) : q.seq = sub[s][c].sendSeq
    BY <1>3, <2>1 DEF SubchannelInv, Agrees
  <2>5. outState[s][c] = inState[r][c] => /\ sub[s][c].sendSeq <= inSeq[r]
                                          /\ p.rel[c] = outState[s][c] <=> p.ack >= sub[s][c].sendSeq
    BY <1>2, <1>3, <2>1 DEF SubchannelInv, Agrees
  <2>6. outState[s][c] # inState[r][c] => p.rel[c] # outState[s][c]
    BY <1>2, <1>3, <2>1 DEF SubchannelInv, Agrees
  <2>7. QED BY <2>2, <2>3, <2>4, <2>5, <2>6
<1>4. ASSUME NEW c \in Confirmed(s, p)
      PROVE  c \in Taken(s) /\ FreshData(s, c) = {}
  <2>1. c \in SubChannel /\ sub[s][c].state = "WAITING" /\ p.rel[c] = outState[s][c]
    BY DEF Confirmed, Visited, Match
  <2>2. QED BY <1>3, <2>1 DEF Taken, TakenOf
<1>5. RolledBack(s, p) = {}
  BY DEF RolledBack, Failed, Visited, SubsOK
<1>6. AckedState(s, p) = outState[s]
  BY <1>1, <1>5 DEF AckedState, IInv, WireOK
<1>7. Freed(s, p) = Confirmed(s, p)
  BY <1>5 DEF Freed, Confirmed, Visited, SubsOK
<1>8. ASSUME NEW c \in Resend(s, p)
      PROVE  /\ c \in SubChannel /\ sub[s][c].state = "WAITING" /\ c \notin Confirmed(s, p)
             /\ c \notin Taken(s)
  <2>1. /\ c \in SubChannel /\ sub[s][c].state = "WAITING" /\ p.rel[c] # outState[s][c]
        /\ sub[s][c].sendSeq <= p.ack
    BY DEF Resend, Failed, Visited, Match
  <2>2. sub[s][c].sendSeq \in Int /\ p.ack \in Int
    BY <1>1, <1>2, <2>1, WireTyped DEF IInv, WireOK, PacketOK, FreshFrom
  <2>3. outState[s][c] # inState[r][c]
    BY <1>3, <2>1, <2>2
  <2>4. QED BY <2>1, <2>3 DEF Taken, TakenOf, Confirmed, Match
<1>9. ASSUME NEW c \in SubChannel
      PROVE  /\ c \in Confirmed(s, p) => after[c].state = "FREE"
             /\ c \in Resend(s, p) => after[c].state = "TOSEND"
             /\ c \notin Confirmed(s, p) /\ c \notin Resend(s, p) => after[c] = sub[s][c]
  <2>1. sub[s][c] \in ChannelType
    BY <1>1 DEF Channels
  <2>2. QED BY <1>7, <1>8, <2>1 DEF AckedChannels, FreeSubChannel, ChannelType
<1>10. /\ BusyOf(after) = BusyOf(sub[s]) \ Confirmed(s, p)
       /\ \A c \in BusyOf(after) : after[c].num = sub[s][c].num
  BY <1>1, AckedChannelsFacts
<1> HIDE DEF after
<1>11. TakenOf(after, outState[s], inState[r]) = Taken(s) \ Confirmed(s, p)
  <2>1. ASSUME NEW c \in SubChannel
        PROVE  c \in TakenOf(after, outState[s], inState[r])
                 <=> c \in Taken(s) /\ c \notin Confirmed(s, p)
    BY <1>8, <1>9 DEF Taken, TakenOf
  <2>2. QED BY <2>1 DEF Taken, TakenOf
<1>12. SubsOK(after)
  <2>1. \A c \in SubChannel : after[c].state # "DIRTY"
    BY <1>9 DEF SubsOK
  <2>2. QED BY <1>10, <2>1 DEF SubsOK
<1>13. QED BY <1>4, <1>6, <1>11, <1>12 DEF after

\* The peer of s sends an acknowledgement, with or without data of its own.
LEMMA AckStream ==
    ASSUME FInv, NEW s \in Side, MessagesOnly(s), StreamInv(s),
           NEW p \in net, p.src = Peer(s), Process(p)
    PROVE  StreamInv(s)'
<1> DEFINE r == Peer(s)
           C == Confirmed(s, p)
           T == Taken(s)
           channels == sub[s]
           channels2 == AckedChannels(s, p)
           list == waiting[s][NORMAL]
           n == Carried(channels, C, NORMAL)
           list2 == IF n = 0 THEN list ELSE [list EXCEPT ![1] = Acknowledged(list[1], n)]
           list3 == CheckWaitingList(list2, p.ack)
           buffer == reliable[s]
           h == sent[s][NORMAL][1]
           b == recv[r][NORMAL]
           g == got[r][NORMAL]
           data == Arriving(s)
           data2 == [c \in SubChannel |-> IF c \in C THEN {} ELSE FreshData(s, c)]
<1>1. ResetMsgs = {} /\ Peer(r) = s /\ r \in Side /\ r # s
  BY PeerFacts DEF MessagesOnly
<1>2. /\ ~Stale(s, p) /\ net' \subseteq net /\ inSeq'[r] = inSeq[r]
      /\ sub'[s] = channels2 /\ outState'[s] = AckedState(s, p)
      /\ waiting'[s] = [j \in Stream |-> CheckWaitingList(CountedLists(s, p)[j], p.ack)]
      /\ inState'[r] = inState[r]
      /\ reliable' = reliable /\ sent' = sent /\ recv'[r] = recv[r] /\ got'[r] = got[r]
  <2>1. /\ ~Stale(s, p) /\ net' \subseteq net /\ inSeq'[r] = inSeq[r]
        /\ sub'[s] = channels2 /\ outState'[s] = AckedState(s, p)
        /\ waiting'[s] = [j \in Stream |-> CheckWaitingList(CountedLists(s, p)[j], p.ack)]
        /\ inState' = IF Received(s, p).flip
                      THEN [inState EXCEPT ![s][p.chan] = Flip(@)] ELSE inState
        /\ reliable' = reliable /\ sent' = sent /\ recv'[r] = recv[r] /\ got'[r] = got[r]
    <3>1. LET a == p.src
              z == Peer(a)
          IN /\ ~Stale(z, p) /\ net' \subseteq net /\ inSeq'[a] = inSeq[a]
             /\ sub'[z] = AckedChannels(z, p) /\ outState'[z] = AckedState(z, p)
             /\ waiting'[z] = [j \in Stream |-> CheckWaitingList(CountedLists(z, p)[j], p.ack)]
             /\ inState' = IF Received(z, p).flip
                           THEN [inState EXCEPT ![z][p.chan] = Flip(@)] ELSE inState
             /\ reliable' = reliable /\ sent' = sent /\ recv'[a] = recv[a] /\ got'[a] = got[a]
      BY <1>1, ProcessStep
    <3>2. p.src = r /\ Peer(p.src) = s
      BY <1>1
    <3> HIDE DEF r
    <3>3. QED BY <3>1, <3>2
  <2>2. inState'[r] = inState[r]
    BY <1>1, <2>1 DEF FInv, TypeOK
  <2>3. QED BY <2>1, <2>2
<1>3. /\ Flow(channels, T, list, buffer, h, b, g, data)
      /\ NoFiles(s) /\ SentOnce(s) /\ SubsOK(channels)
  BY DEF StreamInv, Flow
<1>4. Shape(channels, list, buffer, h, g) /\ SideOK(s)
  BY <1>3, StreamShape
<1>5. /\ C \in SUBSET T /\ \A c \in C : FreshData(s, c) = {}
      /\ TakenOf(channels2, outState[s], inState[r]) = T \ C
      /\ AckedState(s, p) = outState[s] /\ SubsOK(channels2)
  BY <1>2, <1>3, AckedTaken
<1>6. /\ channels2 \in Channels /\ C \in SUBSET BusyOf(channels)
      /\ BusyOf(channels2) = BusyOf(channels) \ C
      /\ \A c \in BusyOf(channels2) : /\ channels2[c].num = channels[c].num
                                      /\ channels2[c].start = channels[c].start
  BY <1>4, AckedChannelsFacts DEF SideOK
<1> HIDE DEF C, channels2
<1>7. Shape(channels2, list2, buffer, h, g)
  <2>1. list \in Seq(BlockType) /\ channels \in Channels /\ Counted(channels, list, NORMAL)
    BY <1>4 DEF Shape
  <2> HIDE DEF channels, list
  <2>2. list2 \in Seq(BlockType) /\ Counted(channels2, list2, NORMAL)
    BY <1>6, <2>1, NormalStream, CountedAck
  <2> HIDE DEF list2
  <2>3. QED BY <1>4, <1>6, <2>2 DEF Shape
<1>8. Flow(channels2, T \ C, list2, buffer, h, b, g, data2)
  <2>1. \A c \in SubChannel : data2[c] \subseteq data[c] /\ (c \in C => data2[c] = {})
    BY DEF Arriving
  <2>2. list2 = IF Carried(channels, C, NORMAL) = 0 THEN list
                ELSE [list EXCEPT ![1] = Acknowledged(list[1], Carried(channels, C, NORMAL))]
    OBVIOUS
  <2> HIDE DEF channels, T, list, list2, n, buffer, h, b, g, data, data2
  <2>3. QED BY <1>3, <1>4, <1>5, <1>6, <1>7, <2>1, <2>2, FlowAcked
<1>9. Flow(channels2, T \ C, list3, buffer, h, b, g, data2)
  <2> DEFINE T2 == T \ C
             ack == p.ack
  <2>1. Flow(channels2, T2, list2, buffer, h, b, g, data2)
    BY <1>8
  <2> HIDE DEF T2, ack, list2, buffer, h, b, g, data2
  <2>2. Flow(channels2, T2, CheckWaitingList(list2, ack), buffer, h, b, g, data2)
    BY <1>7, <2>1, FlowTail
  <2>3. QED BY <2>2 DEF T2, ack
<1>10. waiting'[s][NORMAL] = list3 /\ waiting'[s][FILE] = <<>>
  <2>1. CountedLists(s, p)[NORMAL] = list2
    BY NormalStream DEF CountedLists, C
  <2>2. CountedLists(s, p)[FILE] = <<>>
    <3>1. Carried(channels, C, FILE) = 0
      <4>1. channels \in Channels
        BY <1>4 DEF Shape
      <4>2. C \in SUBSET SubChannel /\ \A c \in C : channels[c].num[FILE] = 0
        BY <1>3, <1>6 DEF SubsOK, BusyOf
      <4> HIDE DEF channels
      <4>3. QED BY <4>1, <4>2, NormalStream, CarriedNone
    <3>2. QED BY <1>3, <3>1, NormalStream DEF CountedLists, C, NoFiles
  <2>3. CheckWaitingList(<<>>, p.ack) = <<>>
    BY DEF CheckWaitingList
  <2> HIDE DEF list2
  <2>4. QED BY <1>2, <2>1, <2>2, <2>3, NormalStream
<1>11. Taken(s)' = T \ C
  BY <1>2, <1>5 DEF Taken
<1>12. NoFiles(s)' /\ SentOnce(s)'
  BY <1>2, <1>3, <1>10 DEF NoFiles, SentOnce
<1>13. \A c \in SubChannel : FreshData(s, c)' \subseteq data2[c]
  <2>1. \A c \in SubChannel : FreshData(s, c)' \subseteq FreshData(s, c)
    BY <1>2 DEF FreshData, FreshFrom
  <2>2. QED BY <1>5, <2>1
<1>14. /\ sub'[s] = channels2 /\ reliable'[s] = buffer /\ sent'[s][NORMAL][1] = h
       /\ recv'[r][NORMAL] = b /\ got'[r][NORMAL] = g
  BY <1>2
<1> DEFINE T2 == T \ C
<1>15. Taken(s)' = T2 /\ Flow(channels2, T2, list3, buffer, h, b, g, data2)
  BY <1>9, <1>11
<1> HIDE DEF T2, list3, buffer, h, b, g, data2
<1>16. QED BY <1>10, <1>12, <1>13, <1>14, <1>15, StreamHolds

----------------------------------------------------------------------------
(* Every step.                                                             *)

LEMMA StreamInductive ==
    ASSUME NEW s \in Side, MessagesOnly(s), FInv, StreamInv(s), [Next]_vars
    PROVE  StreamInv(s)'
<1>1. ASSUME NEW t \in Side, NEW m \in Msgs, SendNetMsg(t, m) PROVE StreamInv(s)'
  BY <1>1, SendNetMsgStream
<1>2. ASSUME NEW t \in Side, NEW f \in Files, SendFile(t, f) PROVE StreamInv(s)'
  BY <1>2, SendFileStream
<1>3. ~\E t \in Side, m \in ResetMsgs : Reconnect(t, m)
  BY DEF MessagesOnly
<1>4. ASSUME UNCHANGED held, UNCHANGED <<outState, inState, inSeq>>, net' \subseteq net
      PROVE  StreamInv(s)'
  <2>1. \A c \in SubChannel : FreshData(s, c)' \subseteq FreshData(s, c)
    BY <1>4 DEF FreshData, FreshFrom
  <2>2. QED BY <1>4, <2>1, HeldStream DEF held
<1>5. ASSUME NEW t \in Side, SetChoked(t) PROVE StreamInv(s)'
  BY <1>4, <1>5 DEF SetChoked, held
<1>6. ASSUME NEW t \in Side, SendDatagram(t) PROVE StreamInv(s)'
  <2>1. CASE t = s
    BY <1>6, <2>1, SendDatagramStream
  <2>2. CASE t # s
    BY <1>6, <2>2, PeerSendsStream
  <2>3. QED BY <2>1, <2>2
<1>7. ASSUME NEW p \in net, Process(p) PROVE StreamInv(s)'
  <2>1. p.src = s \/ p.src = Peer(s)
    <3>1. p.src \in Side
      BY DEF FInv, TypeOK, PacketType
    <3>2. QED BY <3>1 DEF Side, Peer
  <2>2. QED BY <1>7, <2>1, ArrivalStream, AckStream
<1>8. ASSUME NEW p \in net, Ignore(p) \/ Lose(p) PROVE StreamInv(s)'
  BY <1>4, <1>8 DEF Ignore, Lose, held
<1>9. ASSUME UNCHANGED vars PROVE StreamInv(s)'
  BY <1>4, <1>9 DEF vars, held
<1>10. QED BY <1>1, <1>2, <1>3, <1>5, <1>6, <1>7, <1>8, <1>9 DEF Next, ProcessPacket

LEMMA StreamAlways ==
    ASSUME NEW s \in Side, MessagesOnly(s)
    PROVE  Spec => [](FInv /\ StreamInv(s))
<1>1. Init => StreamInv(s)
  BY InitStream
<1>2. FInv /\ StreamInv(s) /\ [Next]_vars => StreamInv(s)'
  BY StreamInductive
<1>3. Spec => []FInv
  BY FInvAlways
<1>4. QED BY <1>1, <1>2, <1>3, PTL DEF Spec

\* What was handed over is a prefix of what was sent.
LEMMA HandedPrefix ==
    ASSUME FInv, NEW s \in Side, StreamInv(s)
    PROVE  LET h == sent[s][NORMAL][1]
               g == got[Peer(s)][NORMAL]
           IN /\ h \in Seq(Item) /\ g \in Seq(Handed) /\ Len(g) <= Len(h)
              /\ \A k \in 1 .. Len(g) : g[k] = h[k]
              /\ Drained(s, NORMAL) => Len(g) = Len(h)
<1> DEFINE h == sent[s][NORMAL][1]
           g == got[Peer(s)][NORMAL]
           list == waiting[s][NORMAL]
           items == reliable[s].items
           done == Done(sub[s], Taken(s), list)
<1>1. Shape(sub[s], list, reliable[s], h, g)
  BY StreamShape DEF StreamInv
<1>2. list \in Seq(BlockType) /\ h \in Seq(Item) /\ g \in Seq(Handed) /\ items \in Seq(Item)
  BY <1>1 DEF Shape, BufferType
<1>3. Ordered(h, list, items, g, done) /\ done \in BOOLEAN /\ (done => list # <<>>)
  BY DEF StreamInv, Flow, Delivery, Done
<1>4. Drained(s, NORMAL) => list = <<>> /\ items = <<>>
  BY DEF Drained
<1> HIDE DEF h, g, list, items, done
<1>5. /\ Len(g) <= Len(h) /\ \A k \in 1 .. Len(g) : g[k] = h[k]
      /\ list = <<>> /\ items = <<>> => Len(g) = Len(h)
  BY <1>2, <1>3, OrderedMeans
<1>6. QED BY <1>2, <1>4, <1>5 DEF h, g

LEMMA PlacesInOrder ==
    ASSUME FInv, NEW s \in Side, StreamInv(s), NEW j \in Stream
    PROVE  InOrder(s, j)
<1>1. CASE j = NORMAL
  <2> DEFINE h == sent[s][NORMAL][1]
             g == got[Peer(s)][NORMAL]
             place == [k \in DOMAIN g |-> PlaceOf(s, NORMAL, g[k])]
  <2>1. /\ h \in Seq(Item) /\ g \in Seq(Handed) /\ Len(g) <= Len(h)
        /\ \A k \in 1 .. Len(g) : g[k] = h[k]
    BY HandedPrefix
  <2>2. /\ Len(sent[s][NORMAL]) = 1
        /\ \A i, k \in 1 .. Len(h) : h[i] = h[k] => i = k
    BY DEF StreamInv, SentOnce
  <2>3. Places(s, NORMAL) = {1} \X (1 .. Len(h))
    <3>1. 1 .. Len(sent[s][NORMAL]) = {1}
      BY <2>2
    <3>2. QED BY <3>1 DEF Places
  <2>4. ASSUME NEW k \in 1 .. Len(g)
        PROVE  /\ PlaceOf(s, NORMAL, g[k]) = <<1, k>>
               /\ \E x \in Places(s, NORMAL) : sent[s][NORMAL][x[1]][x[2]] = g[k]
    <3>1. <<1, k>> \in Places(s, NORMAL) /\ h[k] = g[k] /\ k \in 1 .. Len(h)
      BY <2>1, <2>3
    <3>2. ASSUME NEW x \in Places(s, NORMAL), sent[s][NORMAL][x[1]][x[2]] = g[k]
          PROVE  x = <<1, k>>
      <4>1. x[1] = 1 /\ x[2] \in 1 .. Len(h) /\ x = <<x[1], x[2]>>
        BY <2>3
      <4>2. h[x[2]] = h[k]
        BY <3>1, <3>2, <4>1
      <4>3. QED BY <2>2, <3>1, <4>1, <4>2
    <3>3. sent[s][NORMAL][<<1, k>>[1]][<<1, k>>[2]] = g[k]
      BY <3>1
    <3>4. QED BY <3>1, <3>2, <3>3 DEF PlaceOf
  <2>5. DOMAIN g = 1 .. Len(g) /\ Len(g) \in Nat
    BY <2>1
  <2>6. \A k \in 1 .. Len(g) : place[k] = <<1, k>>
    BY <2>4, <2>5
  <2>7. g # <<>> => 1 \in 1 .. Len(g)
    BY <2>1
  <2> HIDE DEF place, h
  <2>8. g # <<>> => place[1][2] = 1
    BY <2>6, <2>7
  <2>9. \A k \in 1 .. Len(g) - 1 : Follows(place[k], place[k + 1], g[k] \in ResetMsgs)
    <3>1. TAKE k \in 1 .. Len(g) - 1
    <3>2. k \in 1 .. Len(g) /\ k + 1 \in 1 .. Len(g)
      BY <2>5
    <3>3. place[k] = <<1, k>> /\ place[k + 1] = <<1, k + 1>>
      BY <2>6, <3>2
    <3>4. QED BY <3>3 DEF Follows
  <2>10. QED BY <1>1, <2>4, <2>5, <2>8, <2>9 DEF InOrder, place
<1>2. CASE j = FILE
  <2>1. got[Peer(s)][FILE] = <<>>
    BY DEF StreamInv, NoFiles
  <2>2. DOMAIN <<>> = {} /\ Len(<<>>) = 0 /\ 1 .. Len(<<>>) - 1 = {}
    OBVIOUS
  <2>3. QED BY <1>2, <2>1, <2>2 DEF InOrder
<1>3. QED BY <1>1, <1>2 DEF Stream, NORMAL, FILE

LEMMA AllDelivered ==
    ASSUME FInv, NEW s \in Side, StreamInv(s), NEW j \in Stream, Drained(s, j)
    PROVE  AllHanded(s, j)
<1>1. CASE j = NORMAL
  <2> DEFINE h == sent[s][NORMAL][1]
             g == got[Peer(s)][NORMAL]
  <2>1. /\ h \in Seq(Item) /\ g \in Seq(Handed) /\ Len(g) = Len(h)
        /\ \A k \in 1 .. Len(g) : g[k] = h[k]
    BY <1>1, HandedPrefix
  <2>2. Epoch(s, NORMAL) = h
    BY DEF Epoch, StreamInv, SentOnce
  <2> HIDE DEF h, g
  <2>3. Members(h) \subseteq Members(g)
    BY <2>1 DEF Members
  <2>4. QED BY <1>1, <2>2, <2>3 DEF AllHanded, g
<1>2. CASE j = FILE
  <2>1. Epoch(s, FILE) = <<>>
    BY DEF Epoch, StreamInv, NoFiles
  <2>2. Members(<<>>) = {}
    BY DEF Members
  <2>3. QED BY <1>2, <2>1, <2>2 DEF AllHanded
<1>3. QED BY <1>1, <1>2 DEF Stream, NORMAL, FILE

\* The messages a side writes are handed to its peer in the order they were
\* written, each once and none left out, whatever the other side sends over
\* the same channel.
THEOREM OneSideInOrder ==
    ASSUME NEW s \in Side, MessagesOnly(s)
    PROVE  Spec => [](\A j \in Stream : InOrder(s, j))
<1>1. FInv /\ StreamInv(s) => \A j \in Stream : InOrder(s, j)
  BY PlacesInOrder
<1>2. QED BY <1>1, StreamAlways, PTL

StreamsInv == \A s \in Side : StreamInv(s)

LEMMA StreamsAlways ==
    ASSUME \A s \in Side : MessagesOnly(s)
    PROVE  Spec => [](FInv /\ StreamsInv)
<1>1. Init => StreamsInv
  BY InitStream DEF StreamsInv
<1>2. FInv /\ StreamsInv /\ [Next]_vars => StreamsInv'
  BY StreamInductive DEF StreamsInv
<1>3. Spec => []FInv
  BY FInvAlways
<1>4. QED BY <1>1, <1>2, <1>3, PTL DEF Spec

\* Both sides: no message overtakes another, none is handed over twice and
\* none is skipped by the subchannels, the fragments and the receive buffer of
\* CNetChan, over a network that loses, repeats and reorders.
THEOREM MessagesInOrder ==
    ASSUME \A s \in Side : MessagesOnly(s)
    PROVE  Spec => []InOrderOnce
<1>1. FInv /\ StreamsInv => InOrderOnce
  BY PlacesInOrder DEF InOrderOnce, StreamsInv
<1>2. Spec => [](FInv /\ StreamsInv)
  BY StreamsAlways
<1>3. QED BY <1>1, <1>2, PTL

\* HasPendingReliableData (net_chan.cpp:2802-2807) tells the truth about
\* messages: a channel that has none left to send has delivered them all.
THEOREM MessagesDelivered ==
    ASSUME \A s \in Side : MessagesOnly(s)
    PROVE  Spec => []DrainedMeansDelivered
<1>1. FInv /\ StreamsInv => DrainedMeansDelivered
  BY AllDelivered DEF DrainedMeansDelivered, StreamsInv
<1>2. Spec => [](FInv /\ StreamsInv)
  BY StreamsAlways
<1>3. QED BY <1>1, <1>2, PTL

=============================================================================
