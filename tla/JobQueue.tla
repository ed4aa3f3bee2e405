------------------------------ MODULE JobQueue ------------------------------
(***************************************************************************)
(* CJobQueue of vstdlib/jobthread.cpp: three lock-free queues, one for     *)
(* each priority, a count of the jobs in them that is guarded by a mutex,  *)
(* and a manual-reset event that is set while the count is not zero.       *)
(*                                                                         *)
(* The count and the queues are not changed together.  Push puts the job   *)
(* in its queue first and counts it afterwards; Pop takes one off the      *)
(* count first -- a permit -- and then, outside the mutex, looks for a job *)
(* from the highest priority to the lowest.  Any number of threads are in  *)
(* the middle of either, on any number of queues, and a job may be put     *)
(* into a queue that a popping thread has already found empty.  Pop        *)
(* nevertheless asserts that the thread with a permit finds a job.         *)
(*                                                                         *)
(* One step of the model is one access to a lock-free queue, which module  *)
(* TSQueue models in detail, or one critical section of the mutex.         *)
(* m_nMaxItems is INT_MAX and never changed, so PrePush finds no overflow. *)
(***************************************************************************)
EXTENDS Integers, Sequences, FiniteSets

CONSTANTS Threads,   \* the threads that push and pop
          Queues,    \* the CJobQueue objects of the system
          Jobs,      \* the jobs
          NoQueue    \* no queue: the thread is not in such a call

\* NoQueue stands for the absence of a queue.
ASSUME NoQueueAssumption == NoQueue \notin Queues

\* There are finitely many threads.
ASSUME ThreadsAssumption == IsFiniteSet(Threads)

JP_LOW == 0
JP_NORMAL == 1
JP_HIGH == 2

\* A thread that has looked into every queue stands below the lowest one.
Exhausted == -1

Priorities == {JP_LOW, JP_NORMAL, JP_HIGH}

VARIABLES m_pQueues,           \* the jobs of every queue, by priority
          m_nItems,            \* the count of every queue
          m_JobAvailableEvent, \* whether the event of a queue is set
          pushing,             \* the queue in which a thread has put a job it has not counted yet
          popping,             \* the queue in which a thread with a permit looks for its job
          level                \* the priority at which it looks next

jqVars == <<m_pQueues, m_nItems, m_JobAvailableEvent, pushing, popping, level>>

JQInit ==
  /\ m_pQueues = [q \in Queues |-> [i \in Priorities |-> <<>>]]
  /\ m_nItems = [q \in Queues |-> 0]
  /\ m_JobAvailableEvent = [q \in Queues |-> FALSE]
  /\ pushing = [t \in Threads |-> NoQueue]
  /\ popping = [t \in Threads |-> NoQueue]
  /\ level = [t \in Threads |-> JP_HIGH]

\* The thread is in neither Push nor Pop.
InNoCall(t) == pushing[t] = NoQueue /\ popping[t] = NoQueue
-----------------------------------------------------------------------------
\* Push: m_pQueues[pJob->GetPriority()]->PushItem( pJob ).
PushItem(t, q, j, i) ==
  /\ InNoCall(t)
  /\ m_pQueues' = [m_pQueues EXCEPT ![q][i] = Append(@, j)]
  /\ pushing' = [pushing EXCEPT ![t] = q]
  /\ UNCHANGED <<m_nItems, m_JobAvailableEvent, popping, level>>

\* Mutant of CountItem: Push does not set the event.
CountSilently(t) ==
  \E q \in Queues :
    /\ pushing[t] = q
    /\ m_nItems' = [m_nItems EXCEPT ![q] = @ + 1]
    /\ pushing' = [pushing EXCEPT ![t] = NoQueue]
    /\ UNCHANGED <<m_pQueues, m_JobAvailableEvent, popping, level>>

\* Push, under the mutex: the job is counted, and the first one sets the event.
CountItem(t) ==
  \E q \in Queues :
    /\ pushing[t] = q
    /\ m_nItems' = [m_nItems EXCEPT ![q] = @ + 1]
    /\ m_JobAvailableEvent' =
         [m_JobAvailableEvent EXCEPT ![q] = @ \/ m_nItems[q] + 1 = 1]
    /\ pushing' = [pushing EXCEPT ![t] = NoQueue]
    /\ UNCHANGED <<m_pQueues, popping, level>>

\* Mutant of TakePermit: Pop does not look whether the count is zero.
TakeAnyway(t, q) ==
  /\ InNoCall(t)
  /\ m_nItems' = [m_nItems EXCEPT ![q] = @ - 1]
  /\ m_JobAvailableEvent' =
       [m_JobAvailableEvent EXCEPT ![q] = @ /\ m_nItems[q] - 1 # 0]
  /\ popping' = [popping EXCEPT ![t] = q]
  /\ UNCHANGED <<m_pQueues, pushing, level>>

\* Pop, under the mutex: one job is taken off the count, and the last one
\* resets the event.
TakePermit(t, q) ==
  /\ InNoCall(t)
  /\ m_nItems[q] # 0
  /\ m_nItems' = [m_nItems EXCEPT ![q] = @ - 1]
  /\ m_JobAvailableEvent' =
       [m_JobAvailableEvent EXCEPT ![q] = @ /\ m_nItems[q] - 1 # 0]
  /\ popping' = [popping EXCEPT ![t] = q]
  /\ UNCHANGED <<m_pQueues, pushing, level>>

\* Pop, under the mutex: the count is zero and the call returns false.
Refused(t, q) == InNoCall(t) /\ m_nItems[q] = 0

\* Pop: the queue of this priority is empty, the next lower one is tried.
NextPriority(t) ==
  \E q \in Queues :
    /\ popping[t] = q
    /\ level[t] \in Priorities
    /\ m_pQueues[q][level[t]] = <<>>
    /\ level' = [level EXCEPT ![t] = @ - 1]
    /\ UNCHANGED <<m_pQueues, m_nItems, m_JobAvailableEvent, pushing, popping>>

\* Pop: the queue of this priority gives the job j and the call returns true.
PopItem(t, j) ==
  \E q \in Queues :
    /\ popping[t] = q
    /\ level[t] \in Priorities
    /\ m_pQueues[q][level[t]] # <<>>
    /\ j = Head(m_pQueues[q][level[t]])
    /\ m_pQueues' = [m_pQueues EXCEPT ![q][level[t]] = Tail(@)]
    /\ popping' = [popping EXCEPT ![t] = NoQueue]
    /\ level' = [level EXCEPT ![t] = JP_HIGH]
    /\ UNCHANGED <<m_nItems, m_JobAvailableEvent, pushing>>

\* Flush, and the destructor: every job leaves, the count is zero and the
\* event reset.  "Only safe to call when system is suspended": no thread is
\* in the middle of a call.
Empty(q) ==
  /\ \A t \in Threads : pushing[t] # q /\ popping[t] # q
  /\ m_pQueues' = [m_pQueues EXCEPT ![q] = [i \in Priorities |-> <<>>]]
  /\ m_nItems' = [m_nItems EXCEPT ![q] = 0]
  /\ m_JobAvailableEvent' = [m_JobAvailableEvent EXCEPT ![q] = FALSE]
  /\ UNCHANGED <<pushing, popping, level>>

JQNext ==
  \/ \E t \in Threads :
       \/ \E q \in Queues :
            \/ \E j \in Jobs, i \in Priorities : PushItem(t, q, j, i)
            \/ TakePermit(t, q)
       \/ CountItem(t)
       \/ NextPriority(t)
       \/ \E j \in Jobs : PopItem(t, j)
  \/ \E q \in Queues : Empty(q)

JQSpec == JQInit /\ [][JQNext]_jqVars
-----------------------------------------------------------------------------
\* All jobs of a queue up to a priority.
Stock(q, i) == IF i = JP_LOW THEN Len(m_pQueues[q][JP_LOW])
               ELSE IF i = JP_NORMAL
                    THEN Len(m_pQueues[q][JP_LOW]) + Len(m_pQueues[q][JP_NORMAL])
                    ELSE Len(m_pQueues[q][JP_LOW]) + Len(m_pQueues[q][JP_NORMAL])
                         + Len(m_pQueues[q][JP_HIGH])

\* The threads with a permit that can only still find a job up to a priority.
Takers(q, i) == {t \in Threads : popping[t] = q /\ level[t] <= i}

\* The threads that have put a job into the queue and not counted it.
Putters(q) == {t \in Threads : pushing[t] = q}

\* The types of the variables of a job queue.
JQTypeOK ==
  /\ m_pQueues \in [Queues -> [Priorities -> Seq(Jobs)]]
  /\ m_nItems \in [Queues -> Nat]
  /\ m_JobAvailableEvent \in [Queues -> BOOLEAN]
  /\ pushing \in [Threads -> Queues \cup {NoQueue}]
  /\ popping \in [Threads -> Queues \cup {NoQueue}]
  /\ level \in [Threads -> Priorities \cup {Exhausted}]

\* "Expected at least one queue item": a thread that was given a permit finds
\* a job, whatever the other threads put in and take out while it looks.
NeverEmptyHanded == \A t \in Threads : popping[t] # NoQueue => level[t] # Exhausted

\* Every permit and every count stands for a job: the counted jobs, those that
\* are promised to threads and those that are not counted yet make the stock.
PermitsCovered ==
  \A q \in Queues :
    m_nItems[q] + Cardinality(Takers(q, JP_HIGH)) + Cardinality(Putters(q))
      = Stock(q, JP_HIGH)

\* At every priority the jobs left are enough for the threads that have
\* already passed all higher ones.
EnoughBelow ==
  \A q \in Queues, i \in Priorities : Cardinality(Takers(q, i)) <= Stock(q, i)

\* A worker waits for the event, so the event must be set exactly while the
\* count is not zero.
EventTellsItems ==
  \A q \in Queues : m_JobAvailableEvent[q] <=> m_nItems[q] # 0
=============================================================================
