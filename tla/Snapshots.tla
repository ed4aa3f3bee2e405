----------------------------- MODULE Snapshots -----------------------------
(***************************************************************************)
(* Snapshots and delta frames.  On every tick the server takes a snapshot  *)
(* of its entities and sends it to a client as the difference to the last  *)
(* snapshot the client has acknowledged; an entity that enters the         *)
(* client's view is sent as the difference to a baseline both ends keep.   *)
(* Without a snapshot to compare with, the server sends all of it, as      *)
(* reliable data, and waits until the client acknowledges it.              *)
(*                                                                         *)
(* One client.  The channel is what ReliableStream and the sequence        *)
(* numbers of NetChan make of it: reliable messages arrive once and in     *)
(* order, a datagram arrives in order or never.  Replays (sv_maxreplay),   *)
(* HLTV and fake clients are left out.                                     *)
(***************************************************************************)
EXTENDS Integers, Sequences, FiniteSets, SequencesExt

CONSTANTS
    Slots,              \* the numbers of the entities
    Classes, Values,    \* a class, and the networked properties as one value
    ClassBaseline,      \* the value new entities of a class are compared with
    NoEntity, Same,     \* no entity in the slot; no property was written
    NoMsg,              \* a datagram without a snapshot
    MAX_CLIENT_FRAMES,
    MayOverflow,        \* may a datagram overflow its buffer?
    \* bounds: ticks, serial numbers, packets under way, full updates a player asks for
    MaxTick, MaxSerial, MaxToClient, MaxToServer, MaxRequests

VARIABLES
    m_nTickCount, edicts, serials, view,   \* the tick, the entities, those the client is to see
    client,                       \* CGameClient: the server's end
    cl,                           \* CClientState: the client's end
    toClient, toServer,           \* datagrams under way
    fullUpdates, acks,            \* reliable messages the other end has not processed
    requests                      \* how often a player asked for a full update

world == <<m_nTickCount, edicts, serials, view>>
vars == <<world, client, cl, toClient, toServer, fullUpdates, acks, requests>>

\* changed: the tick of the last snapshot that found another value
Entity == [serial : 1 .. MaxSerial, class : Classes, value : Values, changed : 0 .. MaxTick]
\* what the client knows of an entity, and what it keeps of one to compare with
Shown == [serial : 1 .. MaxSerial, class : Classes, value : Values]
Baselines == [class : Classes, value : Values]
Nobody == [s \in Slots |-> NoEntity]

ASSUME SnapshotsAssumption ==
    /\ MAX_CLIENT_FRAMES \in Nat \ {0} /\ MaxTick \in Nat /\ MaxSerial \in Nat \ {0}
    /\ ClassBaseline \in [Classes -> Values] /\ Same \notin Values
    /\ NoEntity \notin Entity \cup Shown \cup Baselines

----------------------------------------------------------------------------
(* CClientFrameManager: both ends keep the frames a delta may start from   *)

HasFrame(frames, tick) == \E f \in frames : f.tick = tick
GetClientFrame(frames, tick) == CHOOSE f \in frames : f.tick = tick

\* a negative tick deletes all
DeleteClientFrames(frames, tick) == {f \in frames : 0 <= tick /\ tick <= f.tick}

RemoveOldestFrame(frames) == {f \in frames : \E older \in frames : older.tick < f.tick}

AddFrame(frames, frame) ==
    LET all == frames \cup {frame}
    IN IF Cardinality(all) > MAX_CLIENT_FRAMES THEN RemoveOldestFrame(all) ELSE all

----------------------------------------------------------------------------
(* The server writes a snapshot                                            *)

\* what SendTable_WriteAllDeltaProps writes of a value, and what a reader makes of it
Written(from, to) == IF from = to THEN Same ELSE to
Merged(from, written) == IF written = Same THEN from ELSE written

BaselineValue(c, asDelta, s, class) ==
    IF asDelta /\ c.baseline[s] # NoEntity /\ c.baseline[s].class = class
      THEN c.baseline[s].value ELSE ClassBaseline[class]

SV_NeedsExplicitDestroy(s, from, to) == to.ents[s] = NoEntity /\ from.ents[s] # NoEntity
\* mutant: another entity in the same slot is taken for the same
ByClass(s, from, to) == from.ents[s] = NoEntity \/ from.ents[s].class # to.ents[s].class
SV_NeedsExplicitCreate(s, from, to) ==
    from.ents[s] = NoEntity \/ from.ents[s].serial # to.ents[s].serial

NoUpdate == [type |-> "none"]
EnterPVS(c, asDelta, s, entity) ==
    [type |-> "enter", serial |-> entity.serial, class |-> entity.class,
     value |-> Written(BaselineValue(c, asDelta, s, entity.class), entity.value)]
LeavePVS(delete) == [type |-> "leave", delete |-> delete]
DeltaEnt(value) == [type |-> "delta", value |-> value]

Entering(from, to) ==
    {s \in to.view : s \notin from.view \/ SV_NeedsExplicitCreate(s, from, to)}

EntityUpdate(c, s, from, to, asDelta) ==
    CASE s \in Entering(from, to) -> EnterPVS(c, asDelta, s, to.ents[s])
      [] s \in from.view \ to.view -> LeavePVS(SV_NeedsExplicitDestroy(s, from, to))
      [] s \in from.view \cap to.view /\ s \notin Entering(from, to)
                                   /\ to.ents[s].changed > from.tick   \* GetPropsChangedAfterTick
           -> DeltaEnt(to.ents[s].value)
      [] OTHER -> NoUpdate

\* reused: m_iExplicitDeleteSlots
SV_WriteDeletions(from, to, asDelta, reused) ==
    {s \in Slots \ to.view :
        /\ asDelta
        /\ ~(s \in from.view /\ SV_NeedsExplicitDestroy(s, from, to))
        /\ SV_NeedsExplicitDestroy(s, from, to) \/ s \in reused}

NoFrame == [tick |-> -1, ents |-> Nobody, view |-> {}]

\* the client's end of the writing, and the message
WriteDeltaEntities(c, from, to, reused) ==
    LET asDelta == from # NoFrame
        updates == [s \in Slots |-> EntityUpdate(c, s, from, to, asDelta)]
        fullProps == \E s \in Entering(from, to) : updates[s].value # Same
        update == c.updateTick = -1 /\ (fullProps \/ ~asDelta)
    IN [client |-> [c EXCEPT
            !.baselinesSent = IF c.updateTick = -1 THEN Entering(from, to) ELSE @,
            !.updateTick = IF update THEN to.tick ELSE @],
        msg |-> [tick |-> to.tick, isDelta |-> asDelta, deltaFrom |-> from.tick,
                 baseline |-> c.baselineUsed, updateBaseline |-> update, updates |-> updates,
                 deletions |-> SV_WriteDeletions(from, to, asDelta, reused)]]

OnRequestFullUpdate(c) ==
    [c EXCEPT !.baseline = Nobody, !.baselineUsed = 0, !.updateTick = -1, !.baselinesSent = {}]

----------------------------------------------------------------------------
(* What the server does with the client's messages                         *)

\* mutant: a third baseline
FlipUp(n) == n + 1
Flip(n) == 1 - n

ProcessBaselineAck(c, ack) ==
    IF /\ ack.tick = c.updateTick /\ ack.nr = c.baselineUsed
       /\ HasFrame(c.frames, c.updateTick)
    THEN LET frame == GetClientFrame(c.frames, c.updateTick)
         IN [c EXCEPT
                !.baseline = [s \in Slots |-> IF s \in c.baselinesSent THEN frame.ents[s] ELSE @[s]],
                !.baselineUsed = Flip(@),
                !.updateTick = -1]
    ELSE c

Disconnect(c, why) == [c EXCEPT !.state = why]

\* what every accepted tick does: a baseline update older than it is taken for lost
SetDeltaTick(c, tick) ==
    [c EXCEPT !.deltaTick = tick, !.updateTick = IF @ > -1 /\ tick > @ THEN -1 ELSE @]

AcknowledgeWhileWaiting(c, tick, pending) ==
    CASE tick > c.forceWaitForTick -> c
      [] tick = -1 /\ ~pending -> OnRequestFullUpdate([c EXCEPT !.forceWaitForTick = -1, !.deltaTick = -1])
      [] tick = -1 /\ pending -> SetDeltaTick(c, tick)
      [] tick # -1 /\ tick < c.forceWaitForTick -> c
      [] OTHER -> SetDeltaTick([c EXCEPT !.forceWaitForTick = -1], tick)   \* the tick waited for

AcknowledgeDelta(c, tick) ==
    CASE c.deltaTick = -1 -> c
      [] c.deltaTick # -1 /\ tick = -1 -> SetDeltaTick(OnRequestFullUpdate(c), tick)
      [] tick # -1 /\ c.deltaTick > tick -> Disconnect(c, "delta ticks out of order")
      [] OTHER -> SetDeltaTick(c, tick)

\* pending: HasPendingReliableData()
UpdateAcknowledgedFramecount(c, tick, pending) ==
    LET kept == IF tick # c.deltaTick /\ tick > 0 THEN DeleteClientFrames(c.frames, tick)
                                                  ELSE c.frames
        d == [c EXCEPT !.frames = kept]
    IN IF c.forceWaitForTick > 0 THEN AcknowledgeWhileWaiting(d, tick, pending)
                                 ELSE AcknowledgeDelta(d, tick)

----------------------------------------------------------------------------
(* The client reads a snapshot                                             *)

\* only the class and the value of an entity are kept as its baseline
Baseline(class, value) == [class |-> class, value |-> value]

GetEntityBaseline(c, nr, s, class) ==
    IF c.baselines[nr][s] # NoEntity /\ c.baselines[nr][s].class = class
      THEN c.baselines[nr][s].value ELSE ClassBaseline[class]

\* the value of an entity that enters, from the baseline and what was written
EnteringValue(c, m, s) ==
    Merged(GetEntityBaseline(c, m.baseline, s, m.updates[s].class), m.updates[s].value)

CL_CopyNewEntity(c, m, s) ==
    [serial |-> m.updates[s].serial, class |-> m.updates[s].class, value |-> EnteringValue(c, m, s)]

ReadPacketEntities(c, m) ==
    LET before == IF m.isDelta THEN c.entities ELSE Nobody
        read(s) == CASE m.updates[s].type = "enter" -> CL_CopyNewEntity(c, m, s)
                     [] m.updates[s].type = "leave" /\ m.updates[s].delete -> NoEntity
                     [] m.updates[s].type = "delta" -> [before[s] EXCEPT !.value = m.updates[s].value]
                     [] OTHER -> before[s]
    IN [s \in Slots |-> IF s \in m.deletions THEN NoEntity ELSE read(s)]

\* mutant: the other baseline keeps what it had
OnlyEntering(c, m) ==
    [s \in Slots |-> IF m.updates[s].type = "enter"
                       THEN Baseline(m.updates[s].class, EnteringValue(c, m, s))
                       ELSE c.baselines[Flip(m.baseline)][s]]
\* CopyEntityBaseline, then SetEntityBaseline for every entity that enters
UpdatedBaseline(c, m) ==
    [s \in Slots |-> IF m.updates[s].type = "enter"
                       THEN Baseline(m.updates[s].class, EnteringValue(c, m, s))
                       ELSE c.baselines[m.baseline][s]]

\* what the client's picture shows after m, of the frame it was compared with
ViewAfter(m, old) ==
    {s \in Slots : m.updates[s].type \in {"enter", "delta"}
                     \/ (m.updates[s].type = "none" /\ s \in old)}

\* an entity to be changed or kept must be there
Missing(c, m, old) ==
    \E s \in Slots : /\ c.entities[s] = NoEntity
                     /\ m.updates[s].type = "delta" \/ (m.updates[s].type = "none" /\ s \in old)

\* the server will not refer to frames older than the one it compared with
\* mutant: nor to that one
UpToNew(c, m) == DeleteClientFrames(c.frames, m.tick)
KeptFrames(c, m) == DeleteClientFrames(c.frames, m.deltaFrom)

CL_ProcessPacketEntities(c, m) ==
    LET old == IF m.isDelta THEN GetClientFrame(c.frames, m.deltaFrom).view ELSE {}
        frame == [tick |-> m.tick, view |-> ViewAfter(m, old)]
    IN IF m.isDelta /\ m.tick = m.deltaFrom THEN [c EXCEPT !.state = "self-referencing"]
       ELSE IF m.isDelta /\ ~HasFrame(c.frames, m.deltaFrom) THEN [c EXCEPT !.state = "delta not found"]
       ELSE IF m.isDelta /\ Missing(c, m, old) THEN [c EXCEPT !.state = "missing entity"]
       ELSE [c EXCEPT
                !.state = "full",
                !.deltaTick = m.tick,
                !.frames = KeptFrames(c, m) \cup {frame},
                !.entities = ReadPacketEntities(c, m),
                !.baselines = IF m.updateBaseline THEN [@ EXCEPT ![Flip(m.baseline)] = UpdatedBaseline(c, m)]
                                                  ELSE @]

\* a delta is ignored while a full update is asked for
\* mutant: so is the full update
IgnoresAll(c, m) == c.deltaTick = -1
Ignores(c, m) == m.isDelta /\ c.deltaTick = -1
ProcessPacketEntities(c, m) == IF Ignores(c, m) THEN c ELSE CL_ProcessPacketEntities(c, m)

BaselineAcks(c, m) ==
    IF m.updateBaseline /\ ~Ignores(c, m) /\ ProcessPacketEntities(c, m).state = "full"
      THEN <<[tick |-> m.tick, nr |-> m.baseline]>> ELSE <<>>

----------------------------------------------------------------------------
(* Steps                                                                   *)

NewEntities(serial, tick) == {e \in Entity : e.serial = serial /\ e.changed = tick}

\* NET_Tick is only sent by a client that is fully connected
NoTick == -2

\* a datagram brings the reliable messages of its sender up to a tick, or some of them
Carried(stream, upto) == Cardinality({i \in DOMAIN stream : stream[i].tick <= upto})

Init ==
    /\ m_nTickCount = 0
    /\ serials = [s \in Slots |-> 1]
    /\ edicts \in [Slots -> NewEntities(1, 0) \cup {NoEntity}]
    /\ view \in SUBSET {s \in Slots : edicts[s] # NoEntity}
    /\ client = [state |-> "active", frames |-> {}, deltaTick |-> -1, forceWaitForTick |-> -1,
                 baseline |-> Nobody, baselineUsed |-> 0, updateTick |-> -1, baselinesSent |-> {},
                 fullSent |-> -1, fullAcked |-> -1]
    /\ cl = [state |-> "spawn", entities |-> Nobody, baselines |-> [nr \in 0 .. 1 |-> Nobody],
             deltaTick |-> -1, frames |-> {}, fullReceived |-> -1]
    /\ toClient = <<>> /\ toServer = <<>>
    /\ fullUpdates = <<>> /\ acks = <<>>
    /\ requests = 0

\* what may change of a slot between two snapshots
Change(s, entity, seen, reused) ==
    [ents |-> [edicts EXCEPT ![s] = entity],
     serials |-> [serials EXCEPT ![s] = IF entity = NoEntity THEN @ + 1 ELSE entity.serial],
     view |-> IF seen THEN view \cup {s} ELSE view \ {s},
     reused |-> reused]

Appears(s, serial, reused) ==
    {Change(s, new, seen, reused) : new \in NewEntities(serial, m_nTickCount + 1), seen \in BOOLEAN}
Stays(s) ==
    {Change(s, edicts[s], seen, {}) : seen \in BOOLEAN}
    \cup {Change(s, [edicts[s] EXCEPT !.value = v, !.changed = m_nTickCount + 1], s \in view, {}) :
              v \in Values \ {edicts[s].value}}
Goes(s) ==
    {Change(s, NoEntity, FALSE, {})} \cup Appears(s, serials[s] + 1, {s})

SlotChanges(s) ==
    IF edicts[s] = NoEntity THEN Appears(s, serials[s], {})
    ELSE Stays(s) \cup IF serials[s] < MaxSerial THEN Goes(s) ELSE {}

Send(msg) ==
    toClient' = Append(toClient, [msg |-> msg, upto |-> client'.fullSent])

Transmit(c) ==
    /\ c.forceWaitForTick > 0
    /\ client' = c
    /\ Send(NoMsg)
    /\ UNCHANGED fullUpdates

SendFull(c, frame, reused) ==
    LET w == WriteDeltaEntities(OnRequestFullUpdate(c), NoFrame, frame, reused)
    IN /\ c.forceWaitForTick <= 0 /\ ~HasFrame(c.frames, c.deltaTick)
       /\ client' = [w.client EXCEPT !.forceWaitForTick = frame.tick, !.fullSent = frame.tick]
       /\ fullUpdates' = Append(fullUpdates, w.msg)
       /\ Send(NoMsg)

SendDelta(c, frame, reused) ==
    LET w == WriteDeltaEntities(c, GetClientFrame(c.frames, c.deltaTick), frame, reused)
    IN /\ c.forceWaitForTick <= 0 /\ HasFrame(c.frames, c.deltaTick)
       /\ client' = w.client
       /\ UNCHANGED fullUpdates
       /\ \/ Send(w.msg)
          \/ MayOverflow /\ Send(NoMsg)

SendSnapshot(c, frame, reused) ==
    \/ Transmit(c)
    \/ SendFull(c, frame, reused)
    \/ SendDelta(c, frame, reused)

\* a tick: the game moves on, a snapshot is taken, and sent
SendClientMessages ==
    /\ client.state = "active"
    /\ m_nTickCount < MaxTick /\ Len(toClient) < MaxToClient
    /\ m_nTickCount' = m_nTickCount + 1
    /\ \E change \in UNION {SlotChanges(s) : s \in Slots} :
          LET frame == [tick |-> m_nTickCount + 1, ents |-> change.ents, view |-> change.view]
          IN /\ edicts' = change.ents /\ serials' = change.serials /\ view' = change.view
             /\ SendSnapshot([client EXCEPT !.frames = AddFrame(@, frame)], frame, change.reused)
    /\ UNCHANGED <<cl, toServer, acks, requests>>

\* a message of the server and the acknowledgement it causes
Reading(end, m) ==
    [cl |-> ProcessPacketEntities(end.cl, m), acks |-> end.acks \o BaselineAcks(end.cl, m)]
ReadingFull(end, m) ==
    LET e == Reading(end, m) IN [e EXCEPT !.cl.fullReceived = m.tick]

PacketToClient ==
    /\ toClient # <<>> /\ cl.state \in {"spawn", "full"}
    /\ LET packet == Head(toClient)
       IN \E n \in 0 .. Carried(fullUpdates, packet.upto) :
            LET full == FoldLeft(ReadingFull, [cl |-> cl, acks |-> acks], SubSeq(fullUpdates, 1, n))
                end == IF packet.msg = NoMsg THEN full ELSE Reading(full, packet.msg)
            IN /\ cl' = end.cl /\ acks' = end.acks
               /\ fullUpdates' = SubSeq(fullUpdates, n + 1, Len(fullUpdates))
    /\ toClient' = Tail(toClient)
    /\ UNCHANGED <<world, client, toServer, requests>>

CL_Move ==
    /\ cl.state \in {"spawn", "full"} /\ Len(toServer) < MaxToServer
    /\ toServer' = Append(toServer,
            [tick |-> IF cl.state = "full" THEN cl.deltaTick ELSE NoTick,
             received |-> cl.fullReceived,
             upto |-> IF acks = <<>> THEN -1 ELSE Last(acks).tick])
    /\ UNCHANGED <<world, client, cl, toClient, fullUpdates, acks, requests>>

ProcessTick(c, tick) ==
    IF tick = NoTick THEN c ELSE UpdateAcknowledgedFramecount(c, tick, c.fullAcked < c.fullSent)

PacketToServer ==
    /\ toServer # <<>> /\ client.state = "active"
    /\ LET packet == Head(toServer)
           c == [client EXCEPT !.fullAcked = packet.received]
       IN \E n \in 0 .. Carried(acks, packet.upto) :
            /\ client' = ProcessTick(FoldLeft(ProcessBaselineAck, c, SubSeq(acks, 1, n)), packet.tick)
            /\ acks' = SubSeq(acks, n + 1, Len(acks))
    /\ toServer' = Tail(toServer)
    /\ UNCHANGED <<world, cl, toClient, fullUpdates, requests>>

LosePacket ==
    /\ \/ /\ toClient # <<>> /\ toClient' = Tail(toClient) /\ UNCHANGED toServer
       \/ /\ toServer # <<>> /\ toServer' = Tail(toServer) /\ UNCHANGED toClient
    /\ UNCHANGED <<world, client, cl, fullUpdates, acks, requests>>

\* a player, a demo or a lost connection asks for everything
ForceFullUpdate ==
    /\ cl.state = "full" /\ cl.deltaTick # -1 /\ requests < MaxRequests
    /\ cl' = [cl EXCEPT !.deltaTick = -1, !.baselines = [nr \in 0 .. 1 |-> Nobody]]
    /\ requests' = requests + 1
    /\ UNCHANGED <<world, client, toClient, toServer, fullUpdates, acks>>

Next ==
    SendClientMessages \/ PacketToClient \/ CL_Move \/ PacketToServer \/ LosePacket \/ ForceFullUpdate

Spec == Init /\ [][Next]_vars

----------------------------------------------------------------------------
(* Properties                                                              *)

\* Both ends' records have their types; the server keeps no more frames than
\* MAX_CLIENT_FRAMES and waits for no tick it has not reached.
Frame == [tick : 0 .. MaxTick, ents : [Slots -> Entity \cup {NoEntity}], view : SUBSET Slots]
TypeOK ==
    /\ edicts \in [Slots -> Entity \cup {NoEntity}] /\ view \subseteq Slots
    /\ client.frames \subseteq Frame /\ Cardinality(client.frames) <= MAX_CLIENT_FRAMES
    /\ client.forceWaitForTick \in {-1} \cup 1 .. m_nTickCount
    /\ {client.updateTick, client.fullSent, client.deltaTick, cl.deltaTick} \subseteq -1 .. m_nTickCount
    /\ client.baselineUsed \in 0 .. 1 /\ client.baselinesSent \subseteq Slots
    /\ cl.entities \in [Slots -> Shown \cup {NoEntity}]
    /\ \A f \in cl.frames : f.tick \in 1 .. m_nTickCount /\ f.view \subseteq Slots

SameEntity(e, f) ==
    e # NoEntity /\ e.serial = f.serial /\ e.class = f.class /\ e.value = f.value

\* What the client shows of the snapshot it has read last is that snapshot: the
\* same entities in view, of the same class and value.  It is put together from
\* the frame the server believed the client to have, the baselines both ends
\* believe the other to have, and deletions that are sent once
\* (SV_WriteDeltaEntities, sv_ents_write.cpp:871; CL_ProcessPacketEntities,
\* cl_ents_parse.cpp:570): datagrams lost, late or overflowed in between.
ClientShowsSnapshot ==
    \A f \in client.frames, g \in cl.frames :
        f.tick = g.tick /\ (\A h \in cl.frames : h.tick <= g.tick) =>
            /\ g.view = f.view
            /\ \A s \in f.view : SameEntity(cl.entities[s], f.ents[s])

\* No delta makes an end give up the connection: the client has the frame a
\* delta starts from and the entities it changes (Host_Error in
\* cl_ents_parse.cpp), the server never sees ticks go backwards
\* (baseclient.cpp:1594, "Client delta ticks out of order").
NothingDrops == cl.state \in {"spawn", "full"} /\ client.state = "active"

\* The baseline the server writes from is the one the client will read from,
\* once the client has the full update the server waits for and asks for no
\* other: an update of the baselines is acknowledged by a message of its own,
\* after the tick that carried it or never (baseclient.cpp:933-1008).
BaselinesAgree ==
    client.forceWaitForTick = -1 /\ client.deltaTick # -1 /\ cl.deltaTick # -1 =>
        \A s \in Slots :
            cl.baselines[client.baselineUsed][s] =
                IF client.baseline[s] = NoEntity THEN NoEntity
                ELSE Baseline(client.baseline[s].class, client.baseline[s].value)

\* The server never waits in vain: the full update it waits for is on its way, or
\* the client acknowledges it, or asks for another, with every packet it sends.
\* While it waits it sends no delta at all (baseclient.cpp:1145), so a wait
\* nobody answers would freeze the client's picture for good.
WaitIsAnswered ==
    client.forceWaitForTick > 0 =>
        \/ \E i \in DOMAIN fullUpdates : fullUpdates[i].tick = client.forceWaitForTick
        \/ cl.state = "full" /\ cl.deltaTick \in {client.forceWaitForTick, -1}

=============================================================================
