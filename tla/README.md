# A verification of the engine's channels, snapshots and jobs

This directory holds TLA+ models of parts of the engine in `src/src` (a port of
the Counter-Strike: Source v34 client), the TLC configurations that check them
on small instances, and proofs checked by TLAPS.  Two groups of parts are where
a defect is hardest to test.  One is the way of the data from a server to its
client: the reliable streams of `CNetChan` (section 3), the path of a long
datagram below them (section 4), and the snapshots above them (section 5).  The
other is what every thread of the engine stands on: the queue without locks
(section 6) and the job system that uses it (section 7).

    tlc -config MCNetChan_reordering.cfg MCNetChan      # one run
    tlapm ThreadPool_proofs.tla                         # the proofs of a module

## 1. Inventory

All paths are below `src/src`.

| Part | State it keeps | Operations | Hard because of |
|---|---|---|---|
| Reliable streams, `engine/net_chan.cpp` | sequence numbers, a bit per subchannel in both directions, 8 subchannels, waiting and receive list of two streams | `SendNetMsg`, `SendFile`, `SendDatagram`, `ProcessPacket`, `Clear`, `SetChoked` | lost, reordered, repeated datagrams; a level change in the middle |
| Split packets, `engine/net_ws.cpp` (`NET_SendLong`, `NET_GetLong`, `NET_DiscardStaleSplitpackets`) | per address: the sequence being collected, parts missing, flags of parts seen | split, collect, expire | parts of two packets interleave; entries expire |
| Queued sender, `engine/net_ws_queued_packet_sender.cpp` | heap of packets by send time, event, exit flag | `QueuePacket`, `Run`, `Start`, `Shutdown`, `ClearQueuedPacketsForChannel` | a thread paces packets that the game thread queues, clears and waits for |
| TCP streams and pending sockets, `net_chan.cpp`, `net_ws.cpp` | stream header, progress, list of sockets | `ProcessStream`, `NET_ProcessPending` | partial reads, removal while iterating |
| Sockets and loopback, `net_ws.cpp` | sockets, loopback queues | open, send, receive, fake lag and loss | operating system |
| Handshake and sign-on: client `baseclientstate.cpp`, `clientmodmgr.cpp`; server `baseserver.cpp`, `baseclient.cpp`, `sv_client.cpp` | sign-on state, challenge, retry number, spawn count | connect, retry, challenge, sign-on reply, reconnect, disconnect | retries race late answers; a level change in every state |
| Snapshots, `clientframe.cpp`, `sv_ents_write.cpp`, `cl_ents_parse.cpp`, `baseclient.cpp` | list of frames, delta tick, two baselines, the tick waited for | add, delete up to a tick, send delta or all, acknowledge | a delta from a frame, or against a baseline, the other end does not have |
| String tables, `networkstringtable.cpp` | strings, tick of the last change, history | add, set data, write and parse updates | updates are cumulative since an acknowledged tick |
| Lock-free lists and queues, `public/tier0/tslist.h`, `tier0/tslist.cpp` | head and tail with a sequence, nodes, free nodes | push, pop, detach | nodes that are used again; the sequence wraps around |
| Threads, events, locks, `tier0/threadtools.cpp` | owner, depth, reader count | lock, wait, start, stop | spin loops, upgrades, lost wake-ups |
| Job system, `vstdlib/jobthread.cpp`, `public/vstdlib/jobthread.h` | queues by priority with a count and an event, jobs, suspension count | add, change priority, execute, abort, wait, suspend, stop | a job in several queues and hands; calls while jobs run |
| Data manager and caches, `tier1/datamanager.cpp`, `datacache/*.cpp` | LRU, lock and free lists, serial numbers of handles | create, lock, unlock, purge | stale handles, purge without the lock |
| Host state, `engine/host_state.cpp` | current and next state | new game, change level, shut down | requests overwrite each other |
| Downloads, `engine/download.cpp`, `downloadthread.cpp` | queue, active request, status | queue, update, stop | one thread writes a status the other polls |
| Loading, `filesystem/QueuedLoader.cpp`, `filesystem_async.cpp` | jobs, priorities, counts in flight | add, run, finish, abort | callbacks from other threads |
| Rendering, materials, sound, physics, user interface, game rules, tools, vendored code | - | - | not protocols; left out |

How they interact.  The game thread calls a `CNetChan` of each connection: the
server from `CBaseClient` and `CGameClient`, the client from `CBaseClientState`.
`SendDatagram` builds one datagram and hands it to `NET_SendPacket`, which
splits it when it is long; the parts after the first go through the queued
sender's thread.  `NET_GetPacket` joins parts and calls `ProcessPacket`, which
updates the channel and calls the handler of every message it reads; a handler
may send messages, shut the channel down or `Clear()` it.  Sign-on, string
tables, and files all use the two reliable streams, and what
they may assume is what this project states about them.  Snapshots go in the
unreliable half of a datagram as long as the server knows a frame the client
has, and in the reliable half otherwise.

Threads: the engine's pool `g_pThreadPool`, the asynchronous file system's, the
queued material system and the sender's thread.  Jobs are passed through
`CJobQueue`, which is made of `CTSQueue`s.

What makes each part correct:

* streams: each item is handed over once, in order, as it was sent; the two
  ends never lose step; nothing waits for ever;
* split packets: a packet that is put together consists of the parts of one
  packet; a packet whose parts all arrive together is put together;
* queued sender: packets leave in the order of their send times, none is lost
  but on purpose, the thread ends when told to;
* handshake: a server accepts the client it sent the challenge to, sign-on only
  goes forward, both ends agree on the spawn count, a retry stops;
* snapshots: a delta is made from a frame both ends have, against baselines both
  ends have, and what the client shows is what the server sent;
* string tables: the client's table is the server's at the tick it acknowledged;
* lists and queues: linearizable, and no thread depends on another; locks:
  mutually exclusive; jobs: each is run once, none is freed under a queue, a
  suspended pool is idle, waiting ends; caches: a handle names its own object or nothing.

`PROJECT.json` lists the parts under "components" and the places where this
code is hard to test under "hazards".

## 2. Plan

1. `NetChan`, `NetChanProperties`, `ReliableStream`, `MCNetChan`,
   `NetChan_proofs`: the reliable streams (done, section 3).
2. `UtlPriorityQueue`, `QueuedSender`, `SplitEntry`, `SplitPacket` and their
   composition `PacedSplit` (done, section 4).  Left: an abstract specification (a
   lossy channel of whole packets) that `SplitPacket` implements, and closing a
   channel while its parts are queued.
3. `Snapshots`, `MCSnapshots`: frames, deltas, baselines and acknowledgements over
   what section 3 promises (done, section 5).
4. `TSQueue` with its abstract specification `FifoQueue` (done, section 6).  Left:
   the stack below it, `CTSListBase`, with depth and sequence in one word.
5. `JobQueue`, `ThreadPool`, `MCThreadPool` and their proofs (done, section 7).
   Left: `CThreadSpinRWLock`, other callers than the master.
6. `Handshake`: client and server sign-on over unreliable datagrams (challenge,
   connect) and over a reliable stream, with retries, reconnects, level changes.
7. `StringTable`, `DataManager`, `HostState`, `Download`, `QueuedLoader`.
8. Widths on the wire (three bits of fragments, seventeen of a block's size,
   eight of choked packets), empty files, the TCP stream.

How the modules are composed.  `PacedSplit` runs `NET_SendLong` over the queue and
thread of `QueuedSender` and collects with `SplitEntry`, the same operators
`SplitPacket` uses.  `ThreadPool` extends `JobQueue`: each of its steps that touches
a queue is a step of `JobQueue`, which is proved, so that what is proved of the
queue holds in the pool.  `Snapshots` takes for its channel what `ReliableStream`
and the sequence numbers of `NetChan` promise.

Proofs.  Every invariant of the channel, of split packets, of the packet sender and of
the two together, of the pool, of the snapshots and of the queue without locks that a run
checks is proved as well (sections 3 to 7), and so is that this queue implements
`FifoQueue`.  Of liveness and of the streams' refinement nothing is proved: `ENABLED`,
fairness and the folds of `SelectSeq` are out of the prover's reach.

*Induction over data.*  A theorem with an operator as parameter, like the library's
induction theorems, cannot be used.  The proofs state what they need of them for
sets and functions: `Induction` for a set of numbers, from the library's theorem that
`<` is well founded, and `Recursion`: a function defined by recursion exists when
a measure of its argument gets smaller (both in `QueuedSender_proofs`; the other
modules that need `Induction` have it as well).  TLA+ says of a recursive function only
that it is *some* function with that equation, so the existence is what has to be
proved before anything can be said of the loops of the heap or of a fold.

## 3. The network channel

### Modules

| Module | Content |
|---|---|
| `NetChan` | two `CNetChan` objects, `"server"` and `"client"`, and the datagrams between them |
| `NetChanProperties` | type invariant, safety and action properties, refinement mapping |
| `ReliableStream` | what one stream promises: a queue that is delivered in blocks, until a `Clear()` starts it over |
| `MCNetChan` | instances for TLC, renumbering, fairness written out |
| `NetChan_proofs` | the subchannels, the fragments, the types and the order of delivery: inductive invariants and theorems |

Each variable is a function of the side and stands for a member of `CNetChan`:

| Variable | Member |
|---|---|
| `outSeq`, `inSeq`, `outAck` | `m_nOutSequenceNr`, `m_nInSequenceNr`, `m_nOutSequenceNrAck` |
| `choked` | `m_nChokedPackets` |
| `outState`, `inState` | `m_nOutReliableState`, `m_nInReliableState`, a bit per subchannel |
| `sub` | `m_SubChannels`: state, `sendSeqNr`, `startFraggment`, `numFragments` |
| `reliable` | `m_StreamReliable`: the messages written and their bytes |
| `waiting` | `m_WaitingList[stream]`: blocks with `ackedFragments`, `pendingFragments` |
| `recv` | `m_ReceiveList[stream]`: buffer, number of fragments, fragments received |
| `net` | external: the datagrams in flight |
| `sent`, `got` | history: items handed to and by each stream, by epoch between two `Clear()`s |

and each action for a handler:

| Action | Code |
|---|---|
| `SendNetMsg(s, m)` | `SendNetMsg` of a reliable message |
| `SendFile(s, f)` | `SendFile`/`CreateFragmentsFromFile`; a missing file is denied by a reliable message |
| `SetChoked(s)` | `SetChoked`: a number is used up without a datagram |
| `SendDatagram(s)` | `SendDatagram` with `CreateFragmentsFromBuffer`, `CompressFragments`, `UpdateSubChannels`, `SendSubChannelData` |
| `Reconnect(s, m)` | `CBaseClient::Reconnect`: `Clear()`, then a message whose handler clears the peer's channel |
| `ProcessPacket(p)` | `ProcessPacket` with `ProcessPacketHeader`, `ReadSubChannelData`, `CheckWaitingList`, `CheckReceivingList`, `UncompressFragments`, `ProcessMessages`; `Ignore` is its early return for a stale or too advanced datagram |
| `Lose(p)` | external: the network loses a datagram |

A datagram carries its number, the acknowledged number, the sender's `inState`,
the choked count, and for at most one subchannel a group of fragments of each
stream.  The header of a group says how many fragments the whole block has only
if the group starts at fragment 0, as on the wire.  A delivered datagram may
stay in `net` and be delivered again; the set has no order.  A fragment's
content is the block it was cut from, so that a buffer is intact when all its
fragments are of one block and it is decoded by the method it was encoded with;
anything else decodes to `Garbage`.

`ProcessMessages` hands over the messages of a block until one returns false
(`FailMsgs`) or its handler clears the channel (`ResetMsgs`: `net_SignonState`
with `SIGNONSTATE_NEW` or a reconnect, which end in `Clear()`).  An invalid
header is refused after the subchannels before the invalid one were updated, as
the loop of `ProcessPacketHeader` does.

### Runs

All use `FRAGMENT_SIZE = 2` bytes, two subchannels at most two fragments per
group (`SendMaxFragments`); a large item has five bytes, three fragments, so
that it needs two groups and the second waits for, or overtakes, the first.

| Run | Instance | Shows |
|---|---|---|
| `changelevel` | a message of three fragments that the server compresses to two, a file, a reconnect and choked packets, a datagram of each side in flight | counters agree with subchannels (`FragmentAccounting`); no fragment under way twice (`FragmentsDisjoint`); `HasPendingReliableData() = false` means delivered (`DrainedMeansDelivered`); these, `TypeOK` and the inductive invariant `SubchannelsInv` hold across `Clear()` at both ends with old datagrams in flight; the streams share subchannels without disturbing each other, and each item arrives in order, once and as it was sent (`InOrderOnce`) |
| `reordering` | a large and a small message, two datagrams of the server in flight | both ends agree on every subchannel (`SubchannelSync`), no accepted header is invalid (`HeaderNeverInvalid`), delivery in order and once (`InOrderOnce`) |
| `stream` | the server reconnects its client while the client denies a file with a message of three fragments, fair | each normal stream implements `ReliableStream`, across `Clear()` and with its liveness: what is pending is delivered in the end, or given up by a `Clear()` |
| `leftover` | the client has two large messages, the server reconnects it in the middle of the first | old and new data do mix: `InOrderOnce` is violated, see below |

`MAX_SUBCHANNELS` is 8 and `FRAGMENT_SIZE` 256 in the code.  Two subchannels are
enough for the interactions the code has between them (the first free one is
filled, the first with something to send is sent, an invalid one stops the loop
before the others) and the theorems hold for any number.  Three fragments in
groups of two give a full group, a partial one, a first one with header and a
later one without.

**Sequence numbers.**  They grow for ever.  The code only compares them, with
the exception of the gap it computes for `net_maxpacketdrop`, so a state with
its numbers replaced by their ranks has the same future.  `MCSpec` takes a
`Renumber` step whenever a number is out of use; retransmissions then need no
bound and the state space is finite (`MaxSeq = 100` is never reached).  `changelevel`
checks invariants only and has `Spec` with `MCView` instead: TLC tells states apart
by their renumbered form, without the choked packets, which the code only reads when
`net_maxpacketdrop` is not 0.  Neither keeps gaps: the runs have `net_maxpacketdrop = 0`, the value that means no
limit, and the theorems hold for every value.  The wrap around of 32-bit
numbers, after weeks of datagrams, is not modelled.  `NetCap` bounds the datagrams
of a side in flight: two suffice for overtaking, and a datagram may also be
repeated.

**Fairness.**  Each side sends a datagram each frame (weak fairness of
`SendDatagram`; server and client send again and again whether there is
data or not: `CBaseClient::SendSnapshot`, `CL_Move`) and a stale datagram leaves the network in the end.  For
the network, strong fairness of delivery for each side and each subchannel: a
datagram with the fragments of a subchannel that is sent again and again
arrives.  Fairness for each side alone is too weak: the network could then lose
each datagram of the subchannel with a block's header and deliver those of the
other, which the receiver refuses (`ReadSubChannelData` finds no buffer), for
ever.  A real network loses datagrams without looking at their content.
`MCFairness` writes the enabling conditions out because `ENABLED` of
`SendDatagram` is slow to evaluate; it is the `Fairness` of `NetChan` for `MCNext`.

**Properties.**  `SubchannelSync` is the heart: a free subchannel has the same
bit at both ends, one with data to send the opposite ones, and an
acknowledgement by an equal bit only counts from the number it was sent with.
Everything else follows from it: an accepted block is new, a lost one is sent
again.  `Clear()` is the delicate part: data not sent must flip its bit back,
data under way must be kept as `DIRTY` until its fate is known, and then be
rolled back if it was lost.  Every property of the runs has a mutant of the code that breaks
it, under "mutants" in `PROJECT.json`: a dropped staleness check, a bit that is
not flipped back by `Clear()`, counters that stay pending, and so on.

`InOrderOnce` and `DrainedMeansDelivered` say what `Clear()` may lose: the end of
an epoch, and the messages behind the clearing message in its own block
(`ProcessMessages` returns into a loop whose buffer is gone).  The fragments of a
file that came in the same datagram are lost too, as `Clear()` drops both receive
lists, although the datagram is acknowledged: a file with an empty waiting list was
delivered, or shared its last moments with such a message.

**Refinement.**  `ReliableStream` is the stream since the last `Clear()` of its sender
(`Epoch`): `delivered` is what of it the other end has handed over (`Delivered`),
`pending` the rest (`Undelivered`).  What is still delivered of an older epoch is a
stuttering step, as that stream is over.

### Where the code departs from its comments

The run `leftover` finds a block that was never sent.  The server clears its channel
while the client is sending a message of three fragments.  The first two, of the old
level, arrive after that: their subchannel is `DIRTY` at the client only later, so the
server's fresh receive list allocates a buffer for them.  The client clears its
channel and sends the next message: the datagram with its header is lost, the one
with its third fragment arrives, finds that buffer, fits and completes it
(`net_chan.cpp:1417`).  The comment there expects that fragments without their
header wait "for a retry".  `changelevel` and `stream` do not meet it, as there a side
that is cleared in the middle of a message has no second one of that size.

Three more instances of `NetChan` end in a state the code says it does not reach:

* Half a datagram.  "error while reading fragments, drop whole packet"
  (`net_chan.cpp:2456`).  When the fragments of the file stream cannot be read, those
  of the normal stream of the same datagram are already stored, and stay
  (`Received`).  A complete block is then handed over with the next reliable datagram,
  and again when it is retransmitted, since the bit was not flipped.
* A message that fails (`FailMsgs` not empty).  When a handler returns false,
  `CheckReceivingList` returns before it frees the buffer although the bit is flipped:
  the same block is parsed from its start with the next reliable datagram ("stop
  reading any further", `net_chan.cpp:2205`), unless the handler disconnected.
* A compressed file (a server in `Compressing` and a file of at least `MinCompress`
  bytes).  `CompressFragments` compresses a file with Snappy (`net_chan.cpp:225`),
  `UncompressFragments` knows bzip2 only (`net_chan.cpp:283`; "larger reliable data
  will be bzip compressed", `net_chan.h:313`): the file arrives as `Garbage`.

### What is proved

`NetChan_proofs` proves, for every value of the constants that satisfies the two
assumptions of `NetChan` (any number of subchannels, sizes, items, datagrams in
flight), with the network's losses, repetitions and reordering:

| Theorem | Statement |
|---|---|
| `SubchannelsAgree` | `Spec => []SubchannelsInv` |
| `SubchannelsInSync` | `Spec => []SubchannelSync` |
| `HeaderAlwaysValid` | `Spec => []HeaderNeverInvalid`: the assertion of `ProcessPacketHeader` |
| `AcksNeverShrink` | `Spec => AcksOnlyGrow`, which no run checks since `Renumber` lowers numbers |
| `NetChanTyped` | `Spec => []TypeOK` |
| `FragmentsAccounted` | `Spec => []FragmentAccounting` |
| `FragmentsNeverTwice` | `Spec => []FragmentsDisjoint` |
| `OneSideInOrder` | `MessagesOnly(s)` proves `Spec => [](\A j \in Stream : InOrder(s, j))` |
| `MessagesInOrder` | `\A s \in Side : MessagesOnly(s)` proves `Spec => []InOrderOnce` |
| `MessagesDelivered` | the same premise proves `Spec => []DrainedMeansDelivered` |

`SubchannelSync` is not inductive: whether an acknowledgement is right depends on
what is still in flight.  `SubchannelsInv` adds, for each subchannel, the datagrams
with its fragments and the acknowledgements of the other direction that may
still be accepted: a free subchannel has none of the former, and all of the
latter carry its bit; a waiting one has only copies of the datagram with its
number, and as long as the receiver has not taken it all acknowledgements carry
the other bit; after that an acknowledgement has the new bit exactly when its
number has reached that of the data.  `NumbersInv` adds the order of the numbers:
none runs ahead of what was sent, a number names one datagram, and
acknowledgements grow with the numbers, so that an acknowledgement which is
still acceptable is not older than the last one accepted.  The other conjunct of
the inductive invariant, `WireOK`, types the fields a step reads.

Lemmas `Agrees...` state what `Agrees` needs when a datagram is sent, accepted or
acknowledged and when a channel is cleared; each `...Inv` lemma proves that one
action preserves the invariant, subchannel by subchannel.

*Fragments.*  `CountersInv` says of each side and stream that the counters of the waiting
list are those of its subchannels (`Counted`).  `FragmentAccounting` and `FragmentsDisjoint`
are not enough: where the next group starts is computed as acknowledged plus pending fragments, so
that it could overlap one under way unless every group under way ends at or below that
number.  That is kept because a group is acknowledged only as a whole, and a
head leaves only when all of it is.  The types rest on it: a start of a group is a
natural number, no block counts less than no fragments.  `HeadersInv` says that a
header tells a size, so that the first fragment of a complete buffer exists.  The
conjunction with the subchannels' invariant is `FInv`.

*Order.*  Everything a side has written in its epoch is a sequence `h`.  `Ordered` says
that `h` is what the peer has handed over, the blocks of the waiting list and the
buffer, one after the other, without a gap and without overlap: there are numbers,
the cuts, where the blocks of the list end in `h`.  The head of the list may be
handed over already, but not acknowledged; this is so exactly when all
its fragments have arrived.  What has arrived of the head are the acknowledged fragments
and those of the subchannels whose data was taken but whose acknowledgement is on its way
(`Taken`); `Assembly` says that the peer's buffer is there exactly as long as some but not
all of it has arrived, and that the buffer then holds those fragments of this very block
(`Gathered`).  `Flow` joins this with what the datagrams in flight
carry that can still be accepted: fragments of the head.  `StreamInv` is `Flow` for the
normal stream of a side.

`MessagesOnly(s)` is what `InOrderOnce` needs in general, and every part of it is needed:
no message clears the channel (`ResetMsgs = {}`: with one the code mixes old and new
data, the finding `leftover`), no handler of a message of `s` fails and no
file is sent (the three instances above: a block parsed twice, half a datagram, a compressed file), and a message takes some bytes,
also when it is compressed (a block of zero bytes has no fragments).
A file that is asked for and denied is allowed.  With none of these premises the
property is false, so the runs `changelevel` and `reordering`, in which there is one file and one `Clear()`,
show more than the theorem in one respect and less in all others.

Model-checked only: the refinement of `ReliableStream` (its fairness is out of
the prover's reach); order and delivery of files and across `Clear()`.

### Not modelled

Unreliable and voice data, the TCP stream and `SendTCPData`, flow statistics,
timeouts and demos.  An overflow of `m_StreamReliable` drops the connection:
`SendNetMsg` is guarded instead.  Fields have no width.  `SendFile` with an empty
file.  Of the server's `Reconnect`, only what it does to the channel.

## 4. Long datagrams: priority queue, sender, split packets

| Module | Content |
|---|---|
| `UtlPriorityQueue` | `CUtlPriorityQueue` as operators on a sequence: `Insert`, `RemoveAtHead`, `RemoveAt` with their loops |
| `QueuedSender` | `CQueuedPacketSender`: game thread, sending thread, event, clock |
| `SplitEntry` | what `NET_SendLong` makes of a packet and what `NET_GetLong` does to an entry with a part |
| `SplitPacket` | senders, a network that loses, repeats and reorders parts, and the entries of a socket |
| `PacedSplit` | `NET_SendLong` over `QueuedSender`, with `CanPacket` and the other end's entries |
| `MCSplitPacket`, `MCPacedSplit` | instances for TLC |
| `QueuedSender_proofs`, `SplitPacket_proofs`, `PacedSplit_proofs` | theorems |
| `SplitEntry_proofs` | what an entry does with a part: lemmas of the two about split packets |

**The queue.**  The children of index `i` are `2i` and `2i + 1`, as indices start
at 1.  The loops are recursive functions.  `RemoveAt` sifts down only, as in the
code.

**The sender.**  `Enqueue` is `NET_QueuePacketForSend` with `QueuePacket`; `SetExit`,
`SetEvent`, `Join` are the steps of `Shutdown`.  `Run` is split where another thread
can come between: `Wait` begins to wait for `waitInterval`, `Wake` ends it because of
the auto-reset event or of the time, `Serve` is the body under the mutex.  The
variables are `m_QueuedPackets`, the event, `m_bThreadShouldExit`, the local
`waitInterval`, and where each thread is.  Time goes on between any two steps.
A packet has the send time `m_unSendTime`, modulo `Wrap`, and, as history, `due`,
when it should leave; properties are about `due`.  The class is not used on Linux.

**Split packets.**  A part is known by the packet and the place it comes from; the
buffer of an entry by what each `SPLIT_SIZE` bytes of it hold.  A packet is put
together (`Assembled`) when the buffer holds all its parts and `totalSize` is its
size; otherwise an uncompressed packet comes out torn, and a compressed one is
refused by its checksum.  Each address has an entry; one that is stale is removed
by `NET_DiscardStaleSplitpackets` and made anew by the next part, so a new entry
stands for none.  Sequence numbers are shared by the channels of a socket in the
code and counted per address here: an entry only compares those of its address.
In `PacedSplit` the loop of `NET_SendLong` is one step per part, since the thread
may run between two; the network delivers in order, as its faults are those of
`SplitPacket`.

| Run | Instance | Shows |
|---|---|---|
| `sender` | three packets, a queue of two, delays of up to 3 ms, shutdown at any time, fair threads | packets leave in the order they are due (`SentInOrder`); the thread does not sleep over a packet (`NeverOversleeps`); `Shutdown` comes back (`ShutdownReturns`); what is queued leaves (`QueuedIsSent`) |
| `split` | two packets of three parts, a plain and a compressed one, in any order or one of them twice | nothing but whole packets comes out (`OnlyWholePackets`); the count of missing parts agrees with flags and buffer (`CountsAgree`) |
| `paced` | two channels, packets of two and three parts, a queue of two | what `CanPacket` lets out arrives whole and in order unless the queue was full (`AllPutTogether`); a packet that lost parts to a full queue spoils no other (`NoneTorn`) |

Bounds.  Three packets and a queue of two make the queue refuse and
the heap reorder.  `MaxClock` ends an instance; its last moment stands for all
later ones, so that a `Wait` begun late still times out.  Two packets of three
parts interleave in every way; entries of different addresses share no state,
so one address shows what there is.  `SPLIT_PACKET_STALE_TIME` is one tick, so that
an entry may be forgotten between any two parts.

Fairness, only in `sender`: the thread runs when it can (`Run`), the game
thread goes on in `Shutdown` (`SetEvent`, `Join`), time passes.  Nothing obliges the
game to queue a packet or to shut down.  `CHECK_DEADLOCK FALSE` in the runs whose
packets or whose time are used up.

`CanPacket` is the only caller's guard in `PacedSplit`.  `CNetChan::Transmit` sends
without asking (`net_chan.cpp:968`), for instance when the channel shuts down; a
long datagram sent that way costs the one before it, as a lost datagram would.
The condition of `m_fClearTime`, which only delays a packet, is left out.

Where the code departs from its comments:

* The heap.  "The head of the list contains the element with GREATEST
  priority" (`utlpriorityqueue.h:16`).  `RemoveAt` fills the hole with the last
  element and moves it down, never up (`utlpriorityqueue.h:128`).  From another
  branch it may have a higher priority than the parent of the hole; later the head
  is not the greatest.  It takes nine elements and a removal by index to see.
  `CTimedEventMgr::RemoveEvent` (`game/server/timedeventmgr.cpp:146`) removes by
  index, and an event can then fire late.  The packet sender only removes at the
  head, since nothing calls `ClearQueuedPacketsForChannel`.
* The clock.  "We'll pull all packets we should have sent by now"
  (`net_ws_queued_packet_sender.cpp:212`) does not hold when the counter wraps
  around: the comparison of wrapped times leaves a packet from before the wrap
  in the queue, and one due after it is sent at once, in the instance `Wrap = 8`,
  `StartTime = 5`, `MaxClock = 11`.  The run stays below `Wrap`.

What is proved of split packets.  `SplitPacket_proofs` shows `Spec => []OnlyWholePackets`,
`Spec => []CountsAgree` and `Spec => []TypeOK` for any number of addresses and packets, any `SPLIT_SIZE`, any
sizes and any stale time, under `PacketsAssumption` and `StaleAssumption`.  An entry
returns its buffer when it has counted as many parts as the packet has; nothing in the
code compares what the parts say of themselves but the sequence number.  Whole
packets alone come out because the parts counted are different ones
(the flags), were written to their places (`Collected`), and belong to one packet, as
the sequence number tells a packet from any other of its address, compressed or
not (`SequenceTells`).  The size is that of the packet because it is set by the last
part, which is among them (`LastPartTells`, `CompleteHolds`).  The inductive invariant
`SplitInv` needs `CountsAgree` for each entry, that the parts in flight were cut from
packets of the log (`WireInv`), and the types.  The numbers grow without
bound in the model; the code's are of 31 bits.

What is proved of the sender, for any number of packets and channels, any limit of the queue
and any delays:

| Theorem | Statement |
|---|---|
| `InsertHeap` | `Insert` of a heap is a heap of the same elements and the new one |
| `PullSorts` | the loop of `Run` takes exactly the packets that are due off a heap, in the order of their times, and leaves a heap |
| `SenderTyped` | `Spec => []TypeOK` |
| `SentInOrderThm` | `NoWrap` proves `Spec => []SentInOrder` |
| `PullKeeps` | the loop of `Run` sends or keeps each packet, also when the counter wraps around |
| `NeverOversleepsThm` | `NoWrap` proves `Spec => []NeverOversleeps` |

The three loops (up in `Insert`, down in `RemoveAtHead`, over the due packets in `Run`) are
recursive functions of the heap and an index.  For each the proof first shows that the
function exists (`Recursion`, with the index or what is left of the heap as the measure), then, by
induction over the measure, that a heap which is wrong in one place at most
(`HeapButUp`, `HeapButDown`) becomes a heap with the same packets.  The order of
packets then needs that a packet that was sent was not later than any that was left (`PullSorts`)
and that the clock does not go back (`TimeInv`): one inserted afterwards is due now or later.
`NoWrap` says that the counter of milliseconds does not wrap around in an instance
(`MaxClock < Wrap`).  It is a premise because the code needs it, see "the clock" above.

What is proved of the two together.  `AllPutTogetherThm` and `NoneTornThm` show
`Spec => []AllPutTogether` and `Spec => []NoneTorn` of `PacedSplit`, for any number of channels and
packets, any pace and any limit of the queue.  `SplitPacket` forgets an entry at any time, so nothing
can be said there of what *must* come out; here it is.  The argument is where the parts of
the last packet of a channel are.  A part is not queued yet (`Unsent`), or waits with
the sender (`Numbered`), or came, which the flags of the entry tell (`Came`): never in two of these places
(`WaitingFits`, `EndsFollow`), and in one of them as long as no part was refused (`Lossless`).  All parts that
wait are of the *last* packet of their channel (`OnItsWay`): `CanPacket` lets no packet start
while the one before has parts in the queue.  So when a packet starts, the entry has put the one before
together (`-1` in `currentSequence`) or, if parts of it were refused, is left in the middle, and the first part of the
new packet makes it start over, as it has another sequence number (`EntryFollows`).  A batch of the
thread's loop is taken part by part (`BatchComes`); that the loop neither loses nor repeats
one is `PullKeeps`.  The inductive invariant is `PathInv`; the invariant of the heap (`SenderInv`) is
one of its parts, taken from `QueuedSender_proofs` by an instance.  The premise `PartsFit`: no
packet has more parts than an entry has flags.  `MAX_SPLITPACKET_SPLITS` is 508 (`net_ws.cpp:1128`),
and a part names the count of its packet in a byte (line 1282), so every packet the
wire can carry satisfies it.  The clock of `PacedSplit` does not wrap around.

Model-checked only: `ShutdownReturns` and `QueuedIsSent`, which need fairness.

Not modelled: the limit of 256 entries, the
widths of a part's number and count, the lag simulation, the sender's second
`Start`, and the list that replaces the thread when it does not run.

## 5. Snapshots and delta frames

`Snapshots` models one client of a server; `MCSnapshots` gives the instances.
Below it is what section 3 promises: reliable messages arrive once and in order, a
datagram arrives in order or never.

| Variable | Code |
|---|---|
| `m_nTickCount`, `edicts`, `serials`, `view` | the server's tick, its entities with their serial numbers, what this client is to see (the transmit bits) |
| `client` | `CGameClient`: its frames, `m_nDeltaTick`, `m_nForceWaitForTick`, `m_pBaseline`, `m_nBaselineUsed`, `m_nBaselineUpdateTick`, `m_BaselinesSent`; `fullSent`, `fullAcked` stand for `HasPendingReliableData()` |
| `cl` | `CClientState`: the entities, two baselines, `m_nDeltaTick`, its frames |
| `toClient`, `toServer` | external: datagrams under way |
| `fullUpdates`, `acks` | reliable messages not yet processed: full updates, `CLC_BaselineAck` |

| Action | Code |
|---|---|
| `SendClientMessages` | a tick: entities change, `SetupPackInfo` adds a frame, `CBaseClient::SendSnapshot` sends the delta to the acknowledged frame, or everything as a reliable message, or nothing while it waits; `SV_WriteDeltaEntities` with its baselines and deletions |
| `PacketToClient` | the reliable messages that came and the snapshot: `ProcessPacketEntities`, `CL_ProcessPacketEntities`, the acknowledgement of a baseline |
| `CL_Move` | `NET_Tick` with the client's delta tick |
| `PacketToServer` | `ProcessBaselineAck`, and `ProcessTick` with `UpdateAcknowledgedFramecount` |
| `ForceFullUpdate` | the client asks for everything (`cl_fullupdate`, a demo, a lost delta) |
| `LosePacket` | external |

An entity is its class, its serial number, its properties as one value, and the tick
at which a snapshot found another value (`GetPropsChangedAfterTick`).  What is
written of an entity that enters the view is the difference to its baseline
(`Written`), and the reader adds it to its own (`Merged`): when the baselines of the two
ends differ the client shows a value nobody sent.

| Run | Instance | Shows |
|---|---|---|
| `snapshots` | two slots (symmetric), one class, two values, three ticks, each slot used by two entities, `MAX_CLIENT_FRAMES` 3, one full update asked for, deltas that overflow | the newest picture is that of the server (`ClientShowsSnapshot`); no delta makes an end give up (`NothingDrops`); the baselines in use agree (`BaselinesAgree`); the wait for a full update is answered (`WaitIsAnswered`) |
| `full_update` | one slot, five ticks, `MAX_CLIENT_FRAMES` 2 | a finding, below |

Bounds.  Two slots let one entity leave or be replaced while another is compared, with
one change in each tick; three ticks give a full update, its acknowledgement and two deltas with
datagrams lost between them.  One slot with four ticks passes as well (1.6 million
states).  `MAX_CLIENT_FRAMES` is 64 in the code; as it is not less than the ticks in
`snapshots`, no frame in use falls out there: that is the case `full_update`
looks at.  An instance ends with its ticks (`CHECK_DEADLOCK FALSE`).

**Finding `full_update`.**  `SetupPackInfo` removes the oldest frame when there are
too many (`sv_client.cpp:430`), also the one the client has acknowledged.  That
client is then sent everything, and the server forgets the client's baselines
("We need to send a full update and reset the instanced baselines",
`baseclient.cpp:1176`).  The client forgets its own only when it asks for the update
itself: it reads the message against baselines it has kept and shows a value that is
neither in its past nor in the snapshot.  In the game it takes 64 snapshots without an
acknowledgement, and then a datagram that comes through before the time-out.

Observation: `m_iExplicitDeleteSlots` is handed to the snapshot that is taken next only
(`sv_framesnapshot.cpp:172`), so a delta from an older frame relies on `SV_NeedsExplicitDestroy`
alone; the run shows that this is enough for what the client shows in view.

Not modelled: replays, HLTV and fake clients, the disconnection when a full update
overflows, packing and encoding of properties, temporary entities, prediction.

### What is proved

For any number of slots, classes, values, ticks and datagrams in flight, and any
`MAX_CLIENT_FRAMES`, under `SnapshotsAssumption` alone:

| Theorem (`Snapshots_proofs`) | Statement |
|---|---|
| `SnapshotsTyped` | `Spec => []TypeOK` |
| `SnapshotsNeverDrop` | `Spec => []NothingDrops` |
| `SnapshotsWaitAnswered` | `Spec => []WaitIsAnswered` |
| `SnapshotsShown` | `Spec /\ []AckedFrameKept => []ClientShowsSnapshot` |
| `SnapshotsAgree` | `Spec /\ []AckedFrameKept => []BaselinesAgree` |
| `SnapshotsShownWithRoom` | both without that condition, if `MaxTick <= MAX_CLIENT_FRAMES` |

*Types.*  The inductive invariant is `Typed`: both records, and every message and
acknowledgement under way, have their types; a frame has an entity for everything in its
view; only a delta changes an entity in place or removes one.  `FewFrames` bounds the
server's frames (`LowestTick`: there is an oldest one to remove).  The messages a packet
completes are processed by a fold, which `FullRun` and `AckRun` take apart into single steps.

*Nothing drops.*  What the client shows was made of snapshots the server has
forgotten, so no relation between the variables is inductive by itself.  `InStep(H)`
supposes a history `H` of all snapshots, and the invariant is that there is one
(`InStepAlways`): a tick adds the new snapshot to it (`HistoryGoesOn`), no other step changes it.
Its conjuncts are

* `History`, `Now`: a serial number stands for one entity, which keeps its class and lives
  without a gap; a new one in a slot has a greater number than all before;
* `FullUpdate`: at most one full update is under way, and a server that waits, waits for the one it
  sent last; a server that neither waits nor has a tick has a client that asks;
* `MovesToServer`: ticks come in ascending order, at the end perhaps -1, and never a tick
  below the one the server has; while it waits only the tick it waits for counts;
* `DatagramsToClient`, `Readable`: nothing but deltas in datagrams, none of which was made after
  the full update under way; a client that asks for nothing keeps every frame that
  a delta under way or a later one starts from;
* `Picture`: the client has each entity that one of its frames shows and that still lives
  at its newest one, with its serial number and class; that is why a delta finds what it
  changes or leaves alone (`KeptAre`, `DeltaRead`).

One lemma for each action shows that its step keeps them (`TickInStep`, `ReadInStep`, `MoveInStep`,
`ServerInStep`, `LossInStep`, `RequestInStep`).  The values are not part of `InStep`, so it
holds in the situation of `full_update` as well: there the picture is wrong but
nobody gives up.

*Values.*  `ClientShowsSnapshot` and `BaselinesAgree` do not hold for every
`MAX_CLIENT_FRAMES`: `full_update` shows a server that loses the frame its client has
acknowledged.  `AckedFrameKept` says that this does not happen, and is all they need.
`InTruth(H)` says of the same history

* `FullIsTrue`: a full update under way meets a client without baselines, and its values are those
  of its snapshot;
* `SameBaselines`: the baselines in use agree; when an acknowledgement of the update the server waits
  for is under way, the other ones of the client are what the server's will be; every
  delta under way that updates the baselines was written from those in use, and not after the
  update the server waits for;
* `DeltasAreTrue`: a delta under way, read with the client's baselines, gives the values of its
  snapshot, and those after an update of the baselines are written from the same as it:
  it changes only those that nobody reads from;
* `ValuesShown`: of an entity the client has the value of the newest frame, or, if it has left
  the view, of one after the frame that showed it last.

The last is why a delta may leave out what has not changed since its frame although the client
has read newer snapshots in between (`DeltaValues`): a value that has not changed since
the frame of the delta is the same in all of them.  An acknowledgement for an older update than the one waited for is
ignored because acknowledged ticks are never later than the tick the client has read
(`AckTruth`).  The step that needs `AckedFrameKept` is the tick (`TickTruth`): without the frame it sends everything to a
client that has baselines.

The condition is met where there is room: with `MaxTick <= MAX_CLIENT_FRAMES`, as in the run
`snapshots`, `BackToAcked` is inductive.  It says that the server has all frames from the acknowledged tick on, or
from the full update it waits for; only acknowledgements delete frames, and
`MovesToServer` says of which ticks.

## 6. The queue without locks

`TSQueue` is `CTSQueue` of `public/tier0/tslist.h`, one step for each access to shared
memory: head and tail (`Link`: a node and a sequence number, swapped together), the links
of the nodes (swapped alone), their items, the stack of free nodes.  `thread` holds where
a thread is and its local variables.  `FifoQueue` is what the queue promises: an atomic
`Push` and `Pop`.  `CTSListBase`, the stack of free nodes, is one step; `RemoveAll`,
`Purge` and the validation are left out.  `TSQueue_proofs` has the theorems.

| Run | Instance | Shows |
|---|---|---|
| `tsqueue` | two threads, two pushes and two pops each, four nodes | `Pop` says "empty" only of a queue that was empty at some moment of the call (`NullOnlyIfEmpty`); no item is lost or comes twice (`NothingLost`); it implements `FifoQueue` as long as no node is used again under a thread that is about to link to it (`ImplementsFifo`); a thread that runs alone finishes (`NonBlocking`) |
| `reused_node` | the same | a finding, below |

Bounds.  With two pushes and pops the first node is freed and used again while the
other thread is anywhere in its own call; four nodes are as many as can be needed.
`NonBlocking` supposes, for each thread in turn, that only this thread is scheduled:
nothing is promised by the other, which may have stopped anywhere.  That is the
meaning of "lock-free".  The sequence numbers do not wrap around.

**Finding `reused_node`.**  `Push` swaps the link of the node it has read as tail if it
is still `End()`, without a sequence number (`tslist.h:877`).  In between that node may be
popped, freed, and filled again by another `Push`: its link is `End()` again, the swap succeeds
and the item hangs on a node that is not yet in the queue.  It is there when that
node is linked, behind items that were pushed later.  For `CJobQueue` this means that
a job that was counted may not be found (`jobthread.cpp:142`).  `ImplementsFifo` excludes this
case by the history variable `reused`.

Observation: the last step of `Push`, which moves the tail, may fail and is not tried again,
so `m_Tail` can lag behind when all threads are idle; the next call moves it.
`ValidateQueue` would then complain.

### What is proved

All four hold for any finite number of threads and any number of nodes and operations
(`BoundsAssumption`), and suppose nothing else than that the address of the queue
is no node and no thread (`AddressAssumption`).

| Theorem | Statement |
|---|---|
| `TypeOKThm` | `Spec => []TypeOK` |
| `NullOnlyIfEmptyThm` | `Spec => []NullOnlyIfEmpty` |
| `NothingLostThm` | `Spec => []NothingLost` |
| `ImplementsFifoThm` | `Spec => ImplementsFifo` |

The inductive invariant `TSInv` has two halves, neither of which is inductive alone.

*The nodes* (`Shape`).  The nodes that are in use are in lists that end with `End()`: the
queue's, from the head on, and one for each thread that has not linked its node yet.
It is necessary to speak of several lists because of the finding above: a thread may link its node
to one that was used again, so that the list of one thread hangs on that of another, and with it
joins the queue later.  A link joins two lists, a swap of the head cuts the first node off,
`FreeNode` and `PushItem` move a node that is in no list.  A list must never be linked to
itself, else its nodes were lost.  That this cannot happen is a matter of time: a thread reads its
tail after it has got its node, so the node it will link to is in the list
of a thread that got its own later.  `Ranked` says so without a clock: there are ranks, and
each link that is still to be made leads to a lower one.  The other parts count (`Counted`: `m_Count` is the nodes
in lists, less the dummy and those not counted yet, and those about to be freed) and
follow the items (`Kept`: what was pushed was popped or is in a node of a list other than the
dummy, once).

*What threads have read* (`Reads`).  A thread's copies of head, tail and links are old; each
is still true unless the sequence number it will be compared with has
changed since, because that number was read first.  From this follow that a swap of
the head takes exactly the first item, that the tail never leaves the queue, also when
others move it, and that a `Pop` which found no successor of the head it had checked was in an
empty queue then (`EmptyRead`).

The refinement needs one part more, `Alone`: until a node is used again under a thread that is about
to link to it, no list hangs on another, so that a link leads either nowhere or behind the last node of
the queue, and is an atomic `Push`.  `NonBlocking` is liveness and stays with TLC.

## 7. The job system

| Module | Content |
|---|---|
| `JobQueue` | `CJobQueue`: a queue for each of three priorities, the count under a mutex, the event |
| `ThreadPool` | `CThreadPool`, `CJobThread`, `CJob`: the workers and one thread that calls the pool, the master |
| `ThreadPool_proofs` | theorems about both |
| `MCThreadPool` | instance for TLC |

**Queue.**  `Push` puts the job into a queue (`PushItem`) and counts it afterwards under the
mutex (`CountItem`); `Pop` takes one off the count (`TakePermit`) and then looks through the
queues from high to low (`NextPriority`, `PopItem`).  `pushing`, `popping` and `level` are the
places of the threads between these steps.

**Pool.**  `pc` is where each thread is; the variables with the prefix `m_` are the members of that
name, `op` is the call the master is in.  A worker's steps are those of `CJobThread::Run`: wait, answer a
call (`Reply`), fall asleep (`Suspend`), take a job of its own queue or of the shared one,
`ServiceJob`.  `ServiceJob` is `CJob::TryLock`, `Execute` and `Release`; the status
of a job is checked once before and once under its mutex, so that its owner's `Execute`
and `Abort` race it.  The master calls `AddJob`, `ChangePriority`, `ExecuteToPriority`, `AbortAll`,
`SuspendExecution`, `ResumeExecution`, `YieldWait`, `Stop`, and `Execute` and `Abort` of a job.

Abstractions.  One master: the comment at `jobthread.cpp:632` says that waiting for jobs on
several threads is not supported, and `ExecuteToPriority`, `Stop` and suspension are used by the main
thread.  The wait for a worker's reply is a mere delay.  After `Stop` only `AddJob`
is called; `YieldWait` is not called while suspended.  Not modelled: `Start`, an overflow of the queue
(`m_nMaxItems` is `INT_MAX`), errors of `DoExecute`, jobs bound to service threads, `YieldWait` of
a worker.

Run `threadpool`: two workers, a plain job and a serial one, two calls of the master beside
`AddJob` and `ResumeExecution`, at every interleaving.

| Property | Hazard |
|---|---|
| `NeverEmptyHanded` | a thread with a permit looks through the queues while others push, pop and move jobs; the assertion at `jobthread.cpp:142` |
| `ExecutedOnce` | the same job in two queues (`ChangePriority` puts it a second time), its owner executes or aborts it |
| `ReferencesCover` | a job is freed while a queue or a thread still has it |
| `SuspendedMeansIdle`, `NoneLeftAsleep` | a worker that answered has not fallen asleep yet; nested suspensions; a resume that comes too early or not at all |
| `AbortAllTakesAll` | jobs in the workers' own queues |
| `JobsFinish` | an event that is not set, a worker that sleeps on: a job that was added is executed or aborted in the end |

Bounds.  Two workers are needed for two to look for jobs at the same time with the master as
a third; two jobs give one for a direct queue and one for the shared queue; two calls give
every pair of `ExecuteToPriority`, `AbortAll`, `Stop`, suspension, and so on, with jobs added at any time.
Fairness: the scheduler runs each worker that can run and the master in its call; jobs end;
who suspended the pool resumes it.  Nothing obliges the master to begin a call.

### What is proved

For any number of workers, queues and jobs:

| Theorem | Statement |
|---|---|
| `NeverEmptyHandedThm` | `JQSpec => []NeverEmptyHanded` |
| `PoolNeverEmptyHanded` | the same for `PoolSpec` |
| `ExecutedOnceThm` | `PoolSpec => []ExecutedOnce` |
| `SuspendedMeansIdleThm` | `PoolSpec => []SuspendedMeansIdle` |
| `NoneLeftAsleepThm` | `PoolSpec => []NoneLeftAsleep` |
| `AbortAllTakesAllThm` | `PoolSpec => []AbortAllTakesAll` |
| `ReferencesCoverThm` | `PoolSpec => []ReferencesCover` |
| `PoolTypedThm` | `PoolSpec => []TypeOK` |

*The queue.*  That count and queues agree (`PermitsCovered`) is not enough: a thread
may have passed the queue of high priority when a job is put there, and the job it could have had below may go
to another.  `EnoughBelow` says that at every priority the jobs up to it are at least as many as
the threads that look no higher.  It is kept because a thread passes a queue only
when that is empty: then all the jobs up to this priority are below it, and
they suffice for all that look no higher than it, among them the thread itself.
At the bottom there are no jobs, hence no thread.  The inductive invariant
`JQInv` has in addition the types, and that a thread not in `Pop` stands at the top.

*The pool.*  `QueueStep` shows that each step of the pool is a step of `JobQueue` or leaves its
variables alone, so `JQInv` holds in the pool.  For this the proof needs which call
the master is in at each label and that the index of its loop is within the vector
(`CallInv`, the table `OpsAt`).  `StatusInv` says that
a job which waits, or was aborted, has not been executed, and any other at most once;
it is kept because the status is read and changed in one critical section of the job's mutex.  `SuspendInv` follows `SuspendExecution`
through its loops: the workers below the index are asleep with their event reset, a worker with a
call is not, and nobody but the master sets the event.

*No worker is left asleep.*  A worker that is called to suspend, or has answered, will
fall asleep later, on its own.  `AwakeInv` says that there is such a worker only while the master is
in the loops of `SuspendExecution`, that the workers it has still to call are
awake, and that the event of a worker is reset only while the pool is suspended or the master is
in those loops.  The loop over `IsSuspended` keeps it: it ends when all workers have reset their
events (`SuspendInv`), so that none is left that would fall asleep after a resume.  `Stop` is called
when the pool is not suspended, and sends `TPM_EXIT`, which puts no worker to sleep.

*`AbortAll` takes all.*  `AbortInv` says that the queues the loop has left count no job.  Nobody
counts one there afterwards: the workers are asleep (`AbortingAlone`, from `SuspendInv`), and the master itself only
takes.  That they hold none either follows from `PermitsCovered`, as no thread is in the middle of a
call of a queue then (`BusyInv`); `LoopInv` says that the loop begins with the first queue.

*References.*  `ReferencesCover` counts the places that will release a job: its
entries in the queues, in the vector `jobsToPutBack` of `ExecuteToPriority`, and the
threads that hold it.  A job has more references than that, the owner's
beside theirs (`RefInv`).  The proof is bookkeeping with cardinalities: each step
moves a place, adds one with `AddRef`, or removes one with `Release`.  `HandInv` says
at which labels a thread holds a job at all, so that a thread that takes one
had none.

*Types.*  `MutexInv` says that the mutex of a job has an owner exactly while the job is
executed, `SwitchInv` types what only the workers and their calls use.

The assumptions are `PoolAssumption` (the workers differ from each other, the master and
the shared queue have names of their own), `NoQueueAssumption` and `ThreadsAssumption`.
Model-checked only: `JobsFinish`, which needs fairness.

### What the model showed beside

* `ChangePriority` puts a job into a queue once more without counting it in `m_nJobs`
  (`jobthread.cpp:776`), while everyone who takes one out counts down: `m_nJobs` reaches -1.
* `Stop` deletes the workers with their own queues without aborting the jobs in them, and
  does not look at its time-out: a serial job that was added then is never finished.  `JobsFinish` makes
  an exception for it.
* "JF_SERIAL: Job cannot be executed out of order relative to other 'strict' jobs"
  (`jobthread.h:87`) holds for one priority only: `ChangePriority`, as used by
  `AsyncSetPriority` (`filesystem_async.cpp:1254`), and an owner that executes a job itself change the order.
* `ExecuteToPriority` uses the job without looking at the result of `Pop` (`jobthread.cpp:806`): right
  as long as nobody else pops, which holds as the pool is suspended.
* Workers that wait for jobs in a job (`jobthread.cpp:639`) may all wait for jobs in the hands of each other.
* `AddJob` writes the status of a job without its mutex.

## 8. Hazards without a property, and what is not modelled

`PROJECT.json` lists the main hazards.  Others, met while reading, that no
property covers:

* `net_chan.cpp:2044`: a file of zero bytes has no fragments, so it counts as acknowledged before it was sent;
* `net_chan.cpp:1261`: three bits hold the fragments of a group, seventeen the size of a block;
* `net_chan.cpp:1660`: choked packets are sent modulo 256;
* `net_ws.cpp:853`: parts of a closed channel stay in the thread's queue;
* `net_ws.cpp:1278`: a part number of 128 or more is negative;
* `net_ws.cpp:1182`: more than 256 addresses send split packets at once;
* `net_ws.cpp:1722`: `s_PendingSockets` is changed while a loop runs over it;
* `datamanager.cpp:373`: purging and locking by handle from several threads;
* `tslist.h:282`: depth and sequence of a stack in sixteen bits each.

Not modelled, for now: the handshake on both sides (beside `Reconnect`), string tables, the
TCP stream, sockets and loopback, the data manager and its caches, host state, downloads,
the loaders above the pool, read-write locks and the stack `CTSListBase`.  They are
protocols a model checker reaches and belong to the plan in section 2.  Of locks and
events only what the pool uses of them is in `ThreadPool`.

Not modelled for good: rendering, materials, sound, physics, user interface, game rules and
entities, tools, build scripts, and the vendored libraries.  They hold by far most of the repository's
lines (the map covers a fraction of a percent of them), but they compute, draw or decode: their
state is floating-point data and handles of the operating system or the graphics
card, and what they should do is not written down in a form that could be checked.
