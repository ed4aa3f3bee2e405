---------------------------- MODULE QueuedSender ----------------------------
(***************************************************************************)
(* CQueuedPacketSender (src/src/engine/net_ws_queued_packet_sender.cpp):   *)
(* the game thread queues packets with a delay, a thread sends each one    *)
(* when its time has come.  One mutex guards the queue, an auto-reset      *)
(* event wakes the thread.  Times are those of Plat_MSTime(), a counter    *)
(* that wraps around; a packet also records when it is really due.         *)
(***************************************************************************)
EXTENDS Integers, Sequences

CONSTANTS
    Data,             \* what is sent
    Channels,
    MaxQueuedPackets, \* nMaxQueuedPackets
    WaitInterval,     \* waitIntervalNoPackets
    Wrap,             \* Plat_MSTime() counts modulo 2^32
    StartTime,        \* milliseconds since the clock's origin at the start
    MaxClock          \* bound: the time of an instance

ASSUME TimesAssumption ==
    /\ MaxQueuedPackets \in Nat \ {0} /\ Wrap \in Nat \ {0}
    /\ WaitInterval \in 1 .. Wrap - 1
    /\ MaxClock \in Nat /\ StartTime \in 0 .. MaxClock

VARIABLES
    clock,       \* milliseconds since the clock's origin, not wrapped
    queue,       \* m_QueuedPackets
    event,       \* m_hThreadEvent is signaled
    shouldExit,  \* m_bThreadShouldExit
    thread,      \* where Run() is
    interval,    \* waitInterval
    since,       \* when the thread began to Wait
    served,      \* history: when the thread last looked at the queue
    game,        \* where the game thread is in Shutdown()
    out,         \* external: what was handed to the socket, in order
    refused      \* history: what did not fit in the queue

threadVars == <<thread, interval, since, served>>
vars == <<clock, queue, event, shouldExit, threadVars, game, out, refused>>

QueuedPacket == [data : Data, channel : Channels, time : 0 .. Wrap - 1, due : Nat]
\* CQueuedPacket::LessFunc: the later packet has less priority
LessFunc(lhs, rhs) == lhs.time > rhs.time
Queue == INSTANCE UtlPriorityQueue WITH Elements <- QueuedPacket

MSTime == clock % Wrap

Init ==
    /\ clock = StartTime
    /\ queue = <<>>
    /\ event = FALSE /\ shouldExit = FALSE
    /\ thread = "started" /\ interval = WaitInterval
    /\ since = StartTime /\ served = StartTime
    /\ game = "running"
    /\ out = <<>> /\ refused = {}

----------------------------------------------------------------------------
(* The game thread.                                                        *)

\* some packet in the queue belongs to the channel
HasQueuedPackets(c) == \E i \in DOMAIN queue : queue[i].channel = c

Packet(c, data, delay) ==
    [data |-> data, channel |-> c, time |-> (MSTime + delay) % Wrap, due |-> clock + delay]

\* mutants: the limit is passed by one; the thread is not told
QueueOneMore(c, data, delay) ==
    /\ IF Len(queue) <= MaxQueuedPackets
       THEN /\ queue' = Queue!Insert(queue, Packet(c, data, delay))
            /\ UNCHANGED refused
       ELSE /\ refused' = refused \cup {data}
            /\ UNCHANGED queue
    /\ event' = TRUE
QueueQuietly(c, data, delay) ==
    /\ IF Len(queue) < MaxQueuedPackets
       THEN /\ queue' = Queue!Insert(queue, Packet(c, data, delay))
            /\ UNCHANGED refused
       ELSE /\ refused' = refused \cup {data}
            /\ UNCHANGED queue
    /\ UNCHANGED event
QueuePacket(c, data, delay) ==
    /\ IF Len(queue) < MaxQueuedPackets
       THEN /\ queue' = Queue!Insert(queue, Packet(c, data, delay))
            /\ UNCHANGED refused
       ELSE /\ refused' = refused \cup {data}
            /\ UNCHANGED queue
    /\ event' = TRUE

\* a packet is queued by the running game, due within the time of the instance
Enqueue(c, data, delay) ==
    /\ game = "running"
    /\ clock + delay <= MaxClock
    /\ QueuePacket(c, data, delay)
    /\ UNCHANGED <<clock, shouldExit, threadVars, game, out>>

\* Shutdown(): the flag, the event, Join(), and the queue is emptied
SetExit ==
    /\ game = "running" /\ thread # "done"
    /\ shouldExit' = TRUE
    /\ game' = "leaving"
    /\ UNCHANGED <<clock, queue, event, threadVars, out, refused>>

\* mutant: the thread is left to its timeout
SignalNothing ==
    /\ game = "leaving"
    /\ game' = "joining"
    /\ UNCHANGED <<clock, queue, event, shouldExit, threadVars, out, refused>>
SetEvent ==
    /\ game = "leaving"
    /\ event' = TRUE
    /\ game' = "joining"
    /\ UNCHANGED <<clock, queue, shouldExit, threadVars, out, refused>>

Join ==
    /\ game = "joining" /\ thread = "done"
    /\ queue' = <<>>
    /\ game' = "stopped"
    /\ UNCHANGED <<clock, event, shouldExit, threadVars, out, refused>>

----------------------------------------------------------------------------
(* Run().                                                                  *)

Wait ==
    /\ thread = "started"
    /\ thread' = "waiting"
    /\ since' = clock
    /\ UNCHANGED <<clock, queue, event, shouldExit, interval, served, game, out, refused>>

\* The Wait ends because of the event, which is reset, or because its time is
\* over; only in the first case the thread looks whether it should exit.
\* (The last moment of an instance stands for all that come after it.)
TimedOut == clock >= since + interval \/ clock = MaxClock
Wake ==
    /\ thread = "waiting"
    /\ event \/ TimedOut
    /\ event' = FALSE
    /\ thread' = IF event /\ shouldExit THEN "done" ELSE "serving"
    /\ UNCHANGED <<clock, queue, shouldExit, interval, since, served, game, out, refused>>

\* the packets that are due are pulled off the head of the queue
Pulled[s \in Seq(QueuedPacket) \X Nat] ==
    LET heap == s[1]
        now == s[2]
    IN IF heap = <<>> \/ heap[1].time > now THEN [sent |-> <<>>, left |-> heap]
       ELSE LET rest == Pulled[<<Queue!RemoveAtHead(heap), now>>]
            IN [sent |-> <<heap[1]>> \o rest.sent, left |-> rest.left]

Pull(heap, now) == Pulled[<<heap, now>>]

NextInterval(left, now) == IF left = <<>> THEN WaitInterval ELSE left[1].time - now

Serve ==
    LET pulled == Pull(queue, MSTime)
    IN /\ thread = "serving"
       /\ out' = out \o pulled.sent
       /\ queue' = pulled.left
       /\ interval' = NextInterval(pulled.left, MSTime)
       /\ served' = clock
       /\ thread' = "started"
       /\ UNCHANGED <<clock, event, shouldExit, since, game, refused>>

----------------------------------------------------------------------------

Tick ==
    /\ clock < MaxClock
    /\ clock' = clock + 1
    /\ UNCHANGED <<queue, event, shouldExit, threadVars, game, out, refused>>

Shutdown == SetExit \/ SetEvent \/ Join
Run == Wait \/ Wake \/ Serve

Known == {out[i].data : i \in DOMAIN out} \cup {queue[i].data : i \in DOMAIN queue} \cup refused

Next ==
    \/ \E c \in Channels, data \in Data \ Known, delay \in 0 .. MaxClock - StartTime :
          Enqueue(c, data, delay)
    \/ Shutdown
    \/ Run
    \/ Tick

Spec == Init /\ [][Next]_vars

\* Both threads run when they can, and time goes on.
Fairness ==
    /\ WF_vars(Run) /\ WF_vars(Tick)
    /\ WF_vars(SetEvent) /\ WF_vars(Join)
FairSpec == Spec /\ Fairness

----------------------------------------------------------------------------
(* Properties.                                                             *)

\* The event and the flag, the queue and the place of each thread have their
\* types, and the queue is never longer than its limit.
TypeOK ==
    /\ clock \in StartTime .. MaxClock
    /\ queue \in Seq(QueuedPacket) /\ Len(queue) <= MaxQueuedPackets
    /\ event \in BOOLEAN /\ shouldExit \in BOOLEAN
    /\ thread \in {"started", "waiting", "serving", "done"}
    /\ interval \in 0 .. Wrap - 1 /\ {since, served} \subseteq StartTime .. clock
    /\ game \in {"running", "leaving", "joining", "stopped"}
    /\ out \in Seq(QueuedPacket) /\ refused \subseteq Data

\* Packets leave in the order of the times they are due, whenever they were
\* queued: nothing that is still in the queue was due before what has left.
SentInOrder ==
    /\ \A i, k \in DOMAIN out : i < k => out[i].due <= out[k].due
    /\ \A i \in DOMAIN out, k \in DOMAIN queue : out[i].due <= queue[k].due

\* The thread never oversleeps: unless it was signaled, the interval it waits
\* for, counted from the time it looked at the queue, is over when the next
\* packet is due.  (QueuePacket has to set the event on every insertion, and
\* Run to take the interval from the head that is left,
\* net_ws_queued_packet_sender.cpp:188-224.)
NeverOversleeps ==
    thread \in {"started", "waiting"} /\ ~event =>
        \A i \in DOMAIN queue : served + interval <= queue[i].due

\* Shutdown() comes back from Join(): the thread meets the flag whatever it
\* was doing when the flag was set.
ShutdownReturns == shouldExit ~> game = "stopped"

\* A packet that was queued leaves, unless the sender is shut down.
QueuedIsSent ==
    \A data \in Data :
        (\E i \in DOMAIN queue : queue[i].data = data)
        ~> (\E i \in DOMAIN out : out[i].data = data) \/ shouldExit

=============================================================================
