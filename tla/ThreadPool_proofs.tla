-------------------------- MODULE ThreadPool_proofs --------------------------
(***************************************************************************)
(* The pool, for any number of workers, jobs and calls.                    *)
(*                                                                         *)
(* A thread with a permit never goes away empty-handed.  The invariant of  *)
(* the queues (JQInv) compares two numbers at every priority: the threads  *)
(* that can only still find a job there or below, and the jobs that are    *)
(* there or below.  A thread that moves on from an empty queue was counted *)
(* among the threads of the higher priority, whose jobs are all below it;  *)
(* a thread that takes a job leaves both counts; and a permit is only      *)
(* given while the count says that a job is left over.                     *)
(*                                                                         *)
(* A job is executed at most once: the status, which is only read and      *)
(* written under the mutex of the job, says whether it was (StatusInv).    *)
(*                                                                         *)
(* Every step of the pool is a step of its queues or leaves them alone, so *)
(* what is proved of the queues holds in the pool; CallInv says where the  *)
(* master can be in a call, and that its loops stay within the vector of   *)
(* threads.                                                                *)
(*                                                                         *)
(* While the pool is suspended every worker sleeps (SuspendInv).           *)
(*                                                                         *)
(* No worker is left asleep: it falls asleep only for a call that the      *)
(* master is still in, or that it counts as a suspension (AwakeInv).       *)
(*                                                                         *)
(* AbortAll takes all: it leaves a queue when the count is zero, and while *)
(* the workers sleep nobody else changes it (AbortInv).                    *)
(*                                                                         *)
(* No job is freed while a queue, a thread or the list of                  *)
(* ExecuteToPriority still has it: every such place has a reference of its *)
(* own (RefInv).  Who takes a job out of a queue passes the reference of   *)
(* its place on to a hand, and a hand holds nothing where the pool looks   *)
(* for jobs (HandInv).  The numbers compared are cardinalities: those of   *)
(* the places of the queues change by one element of one sequence at a     *)
(* time.                                                                   *)
(*                                                                         *)
(* With the other invariants of the pool this gives its type invariant:    *)
(* that a count of references is a natural number is no local fact.        *)
(***************************************************************************)
EXTENDS ThreadPool, FiniteSetTheorems, TLAPS

----------------------------------------------------------------------------
(* The queues.                                                             *)

\* A thread that is not looking for a job starts from the highest priority.
LevelReset == \A t \in Threads : popping[t] = NoQueue => level[t] = JP_HIGH

\* The inductive invariant.
JQInv ==
  /\ JQTypeOK
  /\ LevelReset
  /\ NeverEmptyHanded
  /\ PermitsCovered
  /\ EnoughBelow
  /\ EventTellsItems

\* The number of jobs up to a priority is a natural number.
LEMMA StockType ==
  ASSUME JQTypeOK, NEW q \in Queues, NEW p \in Priorities
  PROVE  Stock(q, p) \in Nat
  <1>1. \A x \in Priorities : m_pQueues[q][x] \in Seq(Jobs)
    BY DEF JQTypeOK
  <1>2. \A x \in Priorities : Len(m_pQueues[q][x]) \in Nat
    BY <1>1
  <1> DEFINE L(x) == Len(m_pQueues[q][x])
  <1>3. L(JP_LOW) \in Nat /\ L(JP_NORMAL) \in Nat /\ L(JP_HIGH) \in Nat
    BY <1>2 DEF Priorities
  <1>4. Stock(q, p) = IF p = JP_LOW THEN L(JP_LOW)
                      ELSE IF p = JP_NORMAL THEN L(JP_LOW) + L(JP_NORMAL)
                      ELSE L(JP_LOW) + L(JP_NORMAL) + L(JP_HIGH)
    BY DEF Stock
  <1> HIDE DEF L
  <1> QED
    BY <1>3, <1>4

\* The threads in the middle of a call are finitely many.
LEMMA CallersFinite ==
  ASSUME NEW q, NEW p
  PROVE  /\ IsFiniteSet(Takers(q, p)) /\ Cardinality(Takers(q, p)) \in Nat
         /\ IsFiniteSet(Putters(q)) /\ Cardinality(Putters(q)) \in Nat
  <1>1. Takers(q, p) \subseteq Threads /\ Putters(q) \subseteq Threads
    BY DEF Takers, Putters
  <1> QED
    BY <1>1, ThreadsAssumption, FS_Subset, FS_CardinalityType

\* A set without elements has cardinality zero.
LEMMA NoneIsZero ==
  ASSUME NEW S, \A x : x \notin S
  PROVE  Cardinality(S) = 0
  <1>1. S = {}
    OBVIOUS
  <1> QED
    BY <1>1, FS_EmptySet

\* A step changes the length of the queue of r with priority p by d if r is q,
\* and no other queue of r.
LengthChanges(q, r, p, d) ==
  \A y \in Priorities :
    /\ Len(m_pQueues[r][y]) \in Nat
    /\ Len(m_pQueues'[r][y]) = IF r = q /\ y = p THEN Len(m_pQueues[r][y]) + d
                               ELSE Len(m_pQueues[r][y])

\* A step changes the stock of r by d, at priority p and above, if r is q.
StockChanges(q, r, p, d) ==
  \A x \in Priorities :
    Stock(r, x)' = IF r = q /\ p <= x THEN Stock(r, x) + d ELSE Stock(r, x)

\* When the length of one queue changes, the stock changes at its priority
\* and above.
LEMMA StockChange ==
  ASSUME NEW q \in Queues, NEW r \in Queues, NEW p \in Priorities, NEW d \in Int,
         LengthChanges(q, r, p, d)
  PROVE  StockChanges(q, r, p, d)
  <1> DEFINE L(y) == Len(m_pQueues[r][y])
             M(y) == Len(m_pQueues'[r][y])
  <1>1. /\ L(JP_LOW) \in Nat /\ L(JP_NORMAL) \in Nat /\ L(JP_HIGH) \in Nat
        /\ M(JP_LOW) = IF r = q /\ JP_LOW = p THEN L(JP_LOW) + d ELSE L(JP_LOW)
        /\ M(JP_NORMAL) = IF r = q /\ JP_NORMAL = p THEN L(JP_NORMAL) + d ELSE L(JP_NORMAL)
        /\ M(JP_HIGH) = IF r = q /\ JP_HIGH = p THEN L(JP_HIGH) + d ELSE L(JP_HIGH)
    BY DEF Priorities, LengthChanges
  <1> SUFFICES ASSUME NEW x \in Priorities
               PROVE  Stock(r, x)' = IF r = q /\ p <= x THEN Stock(r, x) + d ELSE Stock(r, x)
    BY DEF StockChanges
  <1>2. /\ Stock(r, x) = IF x = JP_LOW THEN L(JP_LOW)
                         ELSE IF x = JP_NORMAL THEN L(JP_LOW) + L(JP_NORMAL)
                         ELSE L(JP_LOW) + L(JP_NORMAL) + L(JP_HIGH)
        /\ Stock(r, x)' = IF x = JP_LOW THEN M(JP_LOW)
                          ELSE IF x = JP_NORMAL THEN M(JP_LOW) + M(JP_NORMAL)
                          ELSE M(JP_LOW) + M(JP_NORMAL) + M(JP_HIGH)
    BY DEF Stock
  <1> HIDE DEF L, M
  <1> QED
    BY <1>1, <1>2 DEF Priorities, JP_LOW, JP_NORMAL, JP_HIGH

\* The initial state satisfies the invariant.
LEMMA JQInitInv == JQInit => JQInv
  <1> SUFFICES ASSUME JQInit PROVE JQInv
    OBVIOUS
  <1> USE NoQueueAssumption
  <1>1. JQTypeOK
    BY DEF JQInit, JQTypeOK, Priorities, JP_LOW, JP_NORMAL, JP_HIGH
  <1>2. LevelReset /\ NeverEmptyHanded
    BY DEF JQInit, LevelReset, NeverEmptyHanded
  <1>3. \A q \in Queues, p \in Priorities :
          Cardinality(Takers(q, p)) = 0 /\ Cardinality(Putters(q)) = 0 /\ Stock(q, p) = 0
    <2> TAKE q \in Queues, p \in Priorities
    <2>1. \A t : t \notin Takers(q, p) /\ t \notin Putters(q)
      BY DEF JQInit, Takers, Putters
    <2>2. Stock(q, p) = 0
      BY DEF JQInit, Stock, Priorities, JP_LOW, JP_NORMAL, JP_HIGH
    <2> QED
      BY <2>1, <2>2, NoneIsZero
  <1>4. PermitsCovered /\ EnoughBelow
    BY <1>3 DEF PermitsCovered, EnoughBelow, JQInit, Priorities, JP_HIGH
  <1>5. EventTellsItems
    BY DEF JQInit, EventTellsItems
  <1> QED
    BY <1>1, <1>2, <1>4, <1>5 DEF JQInv

\* Push, first step: the stock grows by the job, which a thread has yet to count.
LEMMA PushItemInv ==
  ASSUME JQInv, NEW t \in Threads, NEW q \in Queues, NEW j \in Jobs, NEW p \in Priorities,
         PushItem(t, q, j, p)
  PROVE  JQInv'
  <1> USE NoQueueAssumption
  <1>0. JQTypeOK
    BY DEF JQInv
  <1>1. JQTypeOK'
    <2>1. m_pQueues[q][p] \in Seq(Jobs)
      BY <1>0 DEF JQTypeOK
    <2>2. Append(m_pQueues[q][p], j) \in Seq(Jobs)
      BY <2>1
    <2>3. m_pQueues' \in [Queues -> [Priorities -> Seq(Jobs)]]
      BY <1>0, <2>2 DEF PushItem, JQTypeOK
    <2>4. pushing' \in [Threads -> Queues \cup {NoQueue}]
      BY <1>0 DEF PushItem, JQTypeOK
    <2> QED
      BY <1>0, <2>3, <2>4 DEF PushItem, JQTypeOK
  <1>2. LevelReset' /\ NeverEmptyHanded' /\ EventTellsItems'
    BY DEF JQInv, PushItem, LevelReset, NeverEmptyHanded, EventTellsItems
  <1>3. \A r \in Queues, x \in Priorities : Takers(r, x)' = Takers(r, x)
    BY DEF PushItem, Takers
  <1>4. \A r \in Queues, x \in Priorities :
          Stock(r, x)' = IF r = q /\ p <= x THEN Stock(r, x) + 1 ELSE Stock(r, x)
    <2> TAKE r \in Queues, x \in Priorities
    <2>1. \A y \in Priorities : m_pQueues[r][y] \in Seq(Jobs)
      BY <1>0 DEF JQTypeOK
    <2>2. \A y \in Priorities :
            m_pQueues'[r][y] = IF r = q /\ y = p THEN Append(m_pQueues[r][y], j)
                               ELSE m_pQueues[r][y]
      BY <1>0 DEF PushItem, JQTypeOK
    <2>3. ASSUME NEW y \in Priorities
          PROVE  /\ Len(m_pQueues[r][y]) \in Nat
                 /\ Len(m_pQueues'[r][y]) = IF r = q /\ y = p THEN Len(m_pQueues[r][y]) + 1
                                            ELSE Len(m_pQueues[r][y])
      <3>1. m_pQueues[r][y] \in Seq(Jobs)
        BY <2>1
      <3>2. Len(Append(m_pQueues[r][y], j)) = Len(m_pQueues[r][y]) + 1
        BY <3>1
      <3>3. Len(m_pQueues[r][y]) \in Nat
        BY <3>1
      <3>4. m_pQueues'[r][y] = IF r = q /\ y = p THEN Append(m_pQueues[r][y], j)
                               ELSE m_pQueues[r][y]
        BY <2>2
      <3> QED
        BY <3>2, <3>3, <3>4, Zenon
    <2>4. LengthChanges(q, r, p, 1)
      BY <2>3 DEF LengthChanges
    <2>5. StockChanges(q, r, p, 1)
      BY <2>4, StockChange
    <2> QED
      BY <2>5 DEF StockChanges
  <1>5. \A r \in Queues :
          Cardinality(Putters(r))' = IF r = q THEN Cardinality(Putters(r)) + 1
                                     ELSE Cardinality(Putters(r))
    <2> TAKE r \in Queues
    <2>1. CASE r = q
      <3>1. t \notin Putters(r) /\ Putters(r)' = Putters(r) \cup {t}
        BY <1>0, <2>1 DEF PushItem, InNoCall, Putters, JQTypeOK
      <3> QED
        BY <2>1, <3>1, CallersFinite, FS_AddElement
    <2>2. CASE r # q
      <3>1. Putters(r)' = Putters(r)
        BY <1>0, <2>2 DEF PushItem, InNoCall, Putters, JQTypeOK
      <3> QED
        BY <2>2, <3>1
    <2> QED
      BY <2>1, <2>2
  <1>6. PermitsCovered'
    <2> SUFFICES ASSUME NEW r \in Queues
                 PROVE  (m_nItems[r] + Cardinality(Takers(r, JP_HIGH))
                           + Cardinality(Putters(r)) = Stock(r, JP_HIGH))'
      BY DEF PermitsCovered
    <2>1. m_nItems[r] + Cardinality(Takers(r, JP_HIGH)) + Cardinality(Putters(r))
            = Stock(r, JP_HIGH)
      BY DEF JQInv, PermitsCovered
    <2>2. m_nItems[r] \in Nat /\ m_nItems' = m_nItems
      BY <1>0 DEF JQTypeOK, PushItem
    <2>3. JP_HIGH \in Priorities /\ p <= JP_HIGH
      BY DEF Priorities, JP_LOW, JP_NORMAL, JP_HIGH
    <2>4. Stock(r, JP_HIGH) \in Nat
      BY <1>0, <2>3, StockType
    <2> QED
      BY <1>3, <1>4, <1>5, <2>1, <2>2, <2>3, <2>4, CallersFinite
  <1>7. EnoughBelow'
    <2> SUFFICES ASSUME NEW r \in Queues, NEW x \in Priorities
                 PROVE  (Cardinality(Takers(r, x)) <= Stock(r, x))'
      BY DEF EnoughBelow
    <2>1. Cardinality(Takers(r, x)) <= Stock(r, x) /\ Stock(r, x) \in Nat
      BY <1>0, StockType DEF JQInv, EnoughBelow
    <2> QED
      BY <1>3, <1>4, <2>1, CallersFinite
  <1> QED
    BY <1>1, <1>2, <1>6, <1>7 DEF JQInv

\* Push, second step: a job that was put into the queue becomes a counted one.
LEMMA CountItemInv ==
  ASSUME JQInv, NEW t \in Threads, CountItem(t)
  PROVE  JQInv'
  <1> USE NoQueueAssumption
  <1>0. JQTypeOK
    BY DEF JQInv
  <1>1. PICK q \in Queues :
          /\ pushing[t] = q
          /\ m_nItems' = [m_nItems EXCEPT ![q] = @ + 1]
          /\ m_JobAvailableEvent' =
               [m_JobAvailableEvent EXCEPT ![q] = @ \/ m_nItems[q] + 1 = 1]
          /\ pushing' = [pushing EXCEPT ![t] = NoQueue]
          /\ UNCHANGED <<m_pQueues, popping, level>>
    BY DEF CountItem
  <1>2. m_nItems' \in [Queues -> Nat]
    BY <1>0, <1>1 DEF JQTypeOK
  <1>3. JQTypeOK'
    <2>1. m_JobAvailableEvent' \in [Queues -> BOOLEAN]
      BY <1>0, <1>1, Zenon DEF JQTypeOK
    <2>2. pushing' \in [Threads -> Queues \cup {NoQueue}]
      BY <1>0, <1>1 DEF JQTypeOK
    <2> QED
      BY <1>0, <1>1, <1>2, <2>1, <2>2 DEF JQTypeOK
  <1>4. LevelReset' /\ NeverEmptyHanded'
    BY <1>1 DEF JQInv, LevelReset, NeverEmptyHanded
  <1>5. \A r \in Queues, x \in Priorities :
          Takers(r, x)' = Takers(r, x) /\ Stock(r, x)' = Stock(r, x)
    BY <1>1 DEF Takers, Stock
  <1>6. \A r \in Queues :
          Cardinality(Putters(r))' = IF r = q THEN Cardinality(Putters(r)) - 1
                                     ELSE Cardinality(Putters(r))
    <2> TAKE r \in Queues
    <2>1. CASE r = q
      <3>1. t \in Putters(r) /\ Putters(r)' = Putters(r) \ {t}
        BY <1>0, <1>1, <2>1 DEF Putters, JQTypeOK
      <3> QED
        BY <2>1, <3>1, CallersFinite, FS_RemoveElement
    <2>2. CASE r # q
      <3>1. Putters(r)' = Putters(r)
        BY <1>0, <1>1, <2>2 DEF Putters, JQTypeOK
      <3> QED
        BY <2>2, <3>1
    <2> QED
      BY <2>1, <2>2
  <1>7. PermitsCovered'
    <2> SUFFICES ASSUME NEW r \in Queues
                 PROVE  (m_nItems[r] + Cardinality(Takers(r, JP_HIGH))
                           + Cardinality(Putters(r)) = Stock(r, JP_HIGH))'
      BY DEF PermitsCovered
    <2>1. m_nItems[r] + Cardinality(Takers(r, JP_HIGH)) + Cardinality(Putters(r))
            = Stock(r, JP_HIGH)
      BY DEF JQInv, PermitsCovered
    <2>2. m_nItems[r] \in Nat /\ m_nItems'[r] = IF r = q THEN m_nItems[r] + 1 ELSE m_nItems[r]
      BY <1>0, <1>1 DEF JQTypeOK
    <2>3. JP_HIGH \in Priorities
      BY DEF Priorities
    <2> QED
      BY <1>5, <1>6, <2>1, <2>2, <2>3, CallersFinite
  <1>8. EnoughBelow'
    BY <1>5 DEF JQInv, EnoughBelow
  <1>9. EventTellsItems'
    <2> SUFFICES ASSUME NEW r \in Queues
                 PROVE  m_JobAvailableEvent'[r] <=> m_nItems'[r] # 0
      BY DEF EventTellsItems
    <2>1. m_JobAvailableEvent[r] <=> m_nItems[r] # 0
      BY DEF JQInv, EventTellsItems
    <2>2. m_nItems[r] \in Nat /\ m_nItems'[r] = IF r = q THEN m_nItems[r] + 1 ELSE m_nItems[r]
      BY <1>0, <1>1 DEF JQTypeOK
    <2>3. m_JobAvailableEvent'[r] <=> IF r = q THEN m_JobAvailableEvent[r] \/ m_nItems[r] + 1 = 1
                                      ELSE m_JobAvailableEvent[r]
      BY <1>0, <1>1 DEF JQTypeOK
    <2>4. m_nItems[r] = 0 => m_nItems[r] + 1 = 1
      BY <2>2
    <2>5. m_nItems[r] + 1 # 0
      BY <2>2
    <2> QED
      BY <2>1, <2>2, <2>3, <2>4, <2>5
  <1> QED
    BY <1>3, <1>4, <1>7, <1>8, <1>9 DEF JQInv

\* Pop, first step: a permit is given for a job that no other thread was promised.
LEMMA TakePermitInv ==
  ASSUME JQInv, NEW t \in Threads, NEW q \in Queues, TakePermit(t, q)
  PROVE  JQInv'
  <1> USE NoQueueAssumption
  <1>0. JQTypeOK /\ level[t] = JP_HIGH /\ popping[t] = NoQueue
    BY DEF JQInv, LevelReset, TakePermit, InNoCall
  <1>1. m_nItems[q] \in Nat \ {0} /\ m_nItems' \in [Queues -> Nat]
    BY <1>0 DEF TakePermit, JQTypeOK
  <1>2. JQTypeOK'
    <2>1. m_JobAvailableEvent' \in [Queues -> BOOLEAN]
      BY <1>0, Zenon DEF JQTypeOK, TakePermit
    <2>2. popping' \in [Threads -> Queues \cup {NoQueue}]
      BY <1>0 DEF JQTypeOK, TakePermit
    <2> QED
      BY <1>0, <1>1, <2>1, <2>2 DEF JQTypeOK, TakePermit
  <1>3. LevelReset' /\ NeverEmptyHanded'
    BY <1>0 DEF JQInv, JQTypeOK, LevelReset, NeverEmptyHanded, TakePermit, JP_HIGH, Exhausted
  <1>4. \A r \in Queues, x \in Priorities :
          /\ Stock(r, x)' = Stock(r, x)
          /\ Putters(r)' = Putters(r)
    BY DEF Stock, Putters, TakePermit
  <1>5. \A r \in Queues, x \in Priorities :
          Cardinality(Takers(r, x))' = IF r = q /\ x = JP_HIGH
                                       THEN Cardinality(Takers(r, x)) + 1
                                       ELSE Cardinality(Takers(r, x))
    <2> TAKE r \in Queues, x \in Priorities
    <2>1. CASE r = q /\ x = JP_HIGH
      <3>1. t \notin Takers(r, x) /\ Takers(r, x)' = Takers(r, x) \cup {t}
        BY <1>0, <2>1 DEF Takers, JQTypeOK, TakePermit, JP_HIGH
      <3> QED
        BY <2>1, <3>1, CallersFinite, FS_AddElement
    <2>2. CASE ~(r = q /\ x = JP_HIGH)
      <3>1. Takers(r, x)' = Takers(r, x)
        BY <1>0, <2>2 DEF Takers, JQTypeOK, TakePermit, Priorities, JP_LOW, JP_NORMAL, JP_HIGH
      <3> QED
        BY <2>2, <3>1
    <2> QED
      BY <2>1, <2>2
  <1>6. PermitsCovered' /\ EnoughBelow'
    <2> SUFFICES ASSUME NEW r \in Queues, NEW x \in Priorities
                 PROVE  /\ m_nItems'[r] + Cardinality(Takers(r, JP_HIGH))'
                             + Cardinality(Putters(r))' = Stock(r, JP_HIGH)'
                        /\ Cardinality(Takers(r, x))' <= Stock(r, x)'
      BY DEF PermitsCovered, EnoughBelow, Priorities
    <2>1. /\ m_nItems[r] + Cardinality(Takers(r, JP_HIGH)) + Cardinality(Putters(r))
               = Stock(r, JP_HIGH)
          /\ Cardinality(Takers(r, x)) <= Stock(r, x)
      BY DEF JQInv, PermitsCovered, EnoughBelow
    <2>2. m_nItems[r] \in Nat /\ m_nItems'[r] = IF r = q THEN m_nItems[r] - 1 ELSE m_nItems[r]
      BY <1>0 DEF JQTypeOK, TakePermit
    <2>3. JP_HIGH \in Priorities
      BY DEF Priorities
    <2>4. /\ Cardinality(Takers(r, x)) \in Nat /\ Cardinality(Takers(r, JP_HIGH)) \in Nat
          /\ Cardinality(Putters(r)) \in Nat
          /\ Stock(r, x) \in Nat /\ Stock(r, JP_HIGH) \in Nat
      BY <1>0, <2>3, CallersFinite, StockType
    <2>5. Cardinality(Putters(r))' = Cardinality(Putters(r))
      BY <1>4, <2>3
    <2>6. r = q => m_nItems[r] # 0
      BY <1>1
    <2> QED
      BY <1>4, <1>5, <2>1, <2>2, <2>3, <2>4, <2>5, <2>6
  <1>7. EventTellsItems'
    <2> SUFFICES ASSUME NEW r \in Queues
                 PROVE  m_JobAvailableEvent'[r] <=> m_nItems'[r] # 0
      BY DEF EventTellsItems
    <2>1. m_JobAvailableEvent[r] <=> m_nItems[r] # 0
      BY DEF JQInv, EventTellsItems
    <2>2. m_nItems'[r] = IF r = q THEN m_nItems[r] - 1 ELSE m_nItems[r]
      BY <1>0 DEF JQTypeOK, TakePermit
    <2>3. m_JobAvailableEvent'[r] <=> IF r = q THEN m_JobAvailableEvent[r] /\ m_nItems[r] - 1 # 0
                                      ELSE m_JobAvailableEvent[r]
      BY <1>0 DEF JQTypeOK, TakePermit
    <2>4. r = q => m_nItems[r] # 0
      BY <1>1
    <2> QED
      BY <2>1, <2>2, <2>3, <2>4
  <1> QED
    BY <1>2, <1>3, <1>6, <1>7 DEF JQInv

\* Pop: a thread that leaves an empty queue finds enough jobs below it.
LEMMA NextPriorityInv ==
  ASSUME JQInv, NEW t \in Threads, NextPriority(t)
  PROVE  JQInv'
  <1> USE NoQueueAssumption
  <1>0. JQTypeOK
    BY DEF JQInv
  <1>1. PICK q \in Queues :
          /\ popping[t] = q
          /\ level[t] \in Priorities
          /\ m_pQueues[q][level[t]] = <<>>
          /\ level' = [level EXCEPT ![t] = @ - 1]
          /\ UNCHANGED <<m_pQueues, m_nItems, m_JobAvailableEvent, pushing, popping>>
    BY DEF NextPriority
  <1>2. \A r \in Queues, x \in Priorities :
          /\ Stock(r, x)' = Stock(r, x) /\ Stock(r, x) \in Nat
          /\ Putters(r)' = Putters(r)
    BY <1>0, <1>1, StockType DEF Stock, Putters
  <1>3. t \in Takers(q, level[t])
    BY <1>1 DEF Takers, Priorities, JP_LOW, JP_NORMAL, JP_HIGH
  <1>4. Cardinality(Takers(q, level[t])) >= 1
    <2>1. Cardinality(Takers(q, level[t])) # 0
      BY <1>3, CallersFinite, FS_EmptySet
    <2> QED
      BY <2>1, CallersFinite
  <1>5. Cardinality(Takers(q, level[t])) <= Stock(q, level[t])
    BY <1>1 DEF JQInv, EnoughBelow
  <1>6. level[t] # JP_LOW
    <2> SUFFICES ASSUME level[t] = JP_LOW PROVE FALSE
      OBVIOUS
    <2>1. Stock(q, JP_LOW) = 0
      BY <1>1 DEF Stock
    <2> QED
      BY <1>4, <1>5, <2>1, CallersFinite
  <1>7. level[t] - 1 \in Priorities /\ level' = [level EXCEPT ![t] = level[t] - 1]
    BY <1>1, <1>6 DEF Priorities, JP_LOW, JP_NORMAL, JP_HIGH
  <1>8. JQTypeOK'
    <2>1. level' \in [Threads -> Priorities \cup {Exhausted}]
      BY <1>0, <1>7 DEF JQTypeOK
    <2> QED
      BY <1>0, <1>1, <2>1 DEF JQTypeOK
  <1>9. LevelReset' /\ NeverEmptyHanded'
    <2>1. LevelReset'
      BY <1>0, <1>1 DEF JQInv, JQTypeOK, LevelReset
    <2>2. level[t] - 1 # Exhausted
      BY <1>7 DEF Priorities, JP_LOW, JP_NORMAL, JP_HIGH, Exhausted
    <2> QED
      BY <1>0, <1>1, <1>7, <2>1, <2>2 DEF JQInv, JQTypeOK, NeverEmptyHanded
  <1>10. Stock(q, level[t] - 1) = Stock(q, level[t])
    <2> DEFINE L(x) == Len(m_pQueues[q][x])
    <2>1. L(level[t]) = 0
      BY <1>1
    <2>2. \A x \in Priorities : L(x) \in Nat
      <3>1. \A x \in Priorities : m_pQueues[q][x] \in Seq(Jobs)
        BY <1>0 DEF JQTypeOK
      <3> QED
        BY <3>1
    <2>3. \A x \in Priorities :
            Stock(q, x) = IF x = JP_LOW THEN L(JP_LOW)
                          ELSE IF x = JP_NORMAL THEN L(JP_LOW) + L(JP_NORMAL)
                          ELSE L(JP_LOW) + L(JP_NORMAL) + L(JP_HIGH)
      BY DEF Stock
    <2> HIDE DEF L
    <2> QED
      BY <1>1, <1>7, <2>1, <2>2, <2>3 DEF Priorities, JP_LOW, JP_NORMAL, JP_HIGH
  <1>11. \A r \in Queues, x \in Priorities :
           IF r = q /\ x = level[t] - 1 THEN Takers(r, x)' \subseteq Takers(r, level[t])
           ELSE Takers(r, x)' = Takers(r, x)
    <2> TAKE r \in Queues, x \in Priorities
    <2>1. CASE r = q /\ x = level[t] - 1
      BY <1>0, <1>1, <1>7, <2>1 DEF Takers, JQTypeOK, Priorities, Exhausted, JP_LOW,
           JP_NORMAL, JP_HIGH
    <2>2. CASE ~(r = q /\ x = level[t] - 1)
      <3>1. \A s \in Threads : (popping'[s] = r /\ level'[s] <= x)
                                 <=> (popping[s] = r /\ level[s] <= x)
        <4> TAKE s \in Threads
        <4>1. CASE s # t
          BY <1>0, <1>1, <1>7, <4>1 DEF JQTypeOK
        <4>2. CASE s = t /\ r # q
          BY <1>1, <4>2
        <4>3. CASE s = t /\ r = q
          BY <1>0, <1>1, <1>7, <2>2, <4>3 DEF JQTypeOK, Priorities, JP_LOW, JP_NORMAL, JP_HIGH
        <4> QED
          BY <4>1, <4>2, <4>3
      <3>2. Takers(r, x)' = Takers(r, x)
        BY <3>1 DEF Takers
      <3> QED
        BY <2>2, <3>2
    <2> QED
      BY <2>1, <2>2
  <1>12. \A x \in Priorities : x = JP_HIGH => x # level[t] - 1
    BY <1>1 DEF Priorities, JP_LOW, JP_NORMAL, JP_HIGH
  <1>13. PermitsCovered'
    <2> SUFFICES ASSUME NEW r \in Queues
                 PROVE  m_nItems'[r] + Cardinality(Takers(r, JP_HIGH))'
                          + Cardinality(Putters(r))' = Stock(r, JP_HIGH)'
      BY DEF PermitsCovered
    <2>1. JP_HIGH \in Priorities
      BY DEF Priorities
    <2>2. Takers(r, JP_HIGH)' = Takers(r, JP_HIGH)
      BY <1>11, <1>12, <2>1
    <2> QED
      BY <1>1, <1>2, <2>1, <2>2 DEF JQInv, PermitsCovered
  <1>14. EnoughBelow'
    <2> SUFFICES ASSUME NEW r \in Queues, NEW x \in Priorities
                 PROVE  Cardinality(Takers(r, x)') <= Stock(r, x)'
      BY DEF EnoughBelow
    <2>1. CASE r = q /\ x = level[t] - 1
      <3>1. Cardinality(Takers(r, x)') <= Cardinality(Takers(r, level[t]))
        BY <1>11, <2>1, CallersFinite, FS_Subset
      <3>2. Cardinality(Takers(r, x)') \in Nat
        BY <1>11, <2>1, CallersFinite, FS_Subset, FS_CardinalityType
      <3>3. Stock(r, x) = Stock(r, level[t]) /\ Stock(r, x)' = Stock(r, x)
             /\ Stock(r, x) \in Nat
        BY <1>2, <1>10, <2>1
      <3> QED
        BY <1>5, <2>1, <3>1, <3>2, <3>3, CallersFinite
    <2>2. CASE ~(r = q /\ x = level[t] - 1)
      BY <1>2, <1>11, <2>2 DEF JQInv, EnoughBelow
    <2> QED
      BY <2>1, <2>2
  <1>15. EventTellsItems'
    BY <1>1 DEF JQInv, EventTellsItems
  <1> QED
    BY <1>8, <1>9, <1>13, <1>14, <1>15 DEF JQInv

\* Pop: the thread that takes a job and the job leave the same counts.
LEMMA PopItemInv ==
  ASSUME JQInv, NEW t \in Threads, NEW j \in Jobs, PopItem(t, j)
  PROVE  JQInv'
  <1> USE NoQueueAssumption
  <1>0. JQTypeOK
    BY DEF JQInv
  <1>1. PICK q \in Queues :
          /\ popping[t] = q
          /\ level[t] \in Priorities
          /\ m_pQueues[q][level[t]] # <<>>
          /\ m_pQueues' = [m_pQueues EXCEPT ![q][level[t]] = Tail(@)]
          /\ popping' = [popping EXCEPT ![t] = NoQueue]
          /\ level' = [level EXCEPT ![t] = JP_HIGH]
          /\ UNCHANGED <<m_nItems, m_JobAvailableEvent, pushing>>
    BY DEF PopItem
  <1>p. PICK p \in Priorities : p = level[t]
    BY <1>1
  <1>2. m_pQueues[q][p] \in Seq(Jobs) /\ m_pQueues[q][p] # <<>>
    BY <1>0, <1>1, <1>p DEF JQTypeOK
  <1>3. Tail(m_pQueues[q][p]) \in Seq(Jobs)
        /\ Len(Tail(m_pQueues[q][p])) = Len(m_pQueues[q][p]) + (-1)
    BY <1>2
  <1>4. JQTypeOK'
    <2>1. m_pQueues' \in [Queues -> [Priorities -> Seq(Jobs)]]
      BY <1>0, <1>1, <1>3, <1>p DEF JQTypeOK
    <2>2. popping' \in [Threads -> Queues \cup {NoQueue}]
      BY <1>0, <1>1 DEF JQTypeOK
    <2>3. level' \in [Threads -> Priorities \cup {Exhausted}]
      BY <1>0, <1>1 DEF JQTypeOK, Priorities
    <2> QED
      BY <1>0, <1>1, <2>1, <2>2, <2>3 DEF JQTypeOK
  <1>5. LevelReset' /\ NeverEmptyHanded'
    BY <1>0, <1>1 DEF JQInv, JQTypeOK, LevelReset, NeverEmptyHanded
  <1>6. \A r \in Queues, x \in Priorities :
          Stock(r, x)' = IF r = q /\ p <= x THEN Stock(r, x) - 1 ELSE Stock(r, x)
    <2> TAKE r \in Queues
    <2>1. \A y \in Priorities :
            m_pQueues'[r][y] = IF r = q /\ y = p THEN Tail(m_pQueues[r][y]) ELSE m_pQueues[r][y]
      BY <1>0, <1>1, <1>p DEF JQTypeOK
    <2>2. ASSUME NEW y \in Priorities
          PROVE  /\ Len(m_pQueues[r][y]) \in Nat
                 /\ Len(m_pQueues'[r][y]) = IF r = q /\ y = p THEN Len(m_pQueues[r][y]) + (-1)
                                            ELSE Len(m_pQueues[r][y])
      <3>1. m_pQueues[r][y] \in Seq(Jobs)
        BY <1>0 DEF JQTypeOK
      <3>2. Len(m_pQueues[r][y]) \in Nat
        BY <3>1
      <3>3. m_pQueues'[r][y] = IF r = q /\ y = p THEN Tail(m_pQueues[r][y]) ELSE m_pQueues[r][y]
        BY <2>1
      <3> QED
        BY <1>3, <3>2, <3>3, Zenon
    <2>3. PICK d \in Int : d = -1
      OBVIOUS
    <2>4. LengthChanges(q, r, p, d)
      BY <2>2, <2>3 DEF LengthChanges
    <2>5. StockChanges(q, r, p, d)
      BY <2>4, StockChange
    <2>6. \A x \in Priorities : Stock(r, x) \in Nat /\ Stock(r, x) + d = Stock(r, x) - 1
      BY <1>0, <2>3, StockType
    <2> QED
      BY <2>5, <2>6 DEF StockChanges
  <1>7. \A r \in Queues, x \in Priorities :
          Cardinality(Takers(r, x))' = IF r = q /\ p <= x THEN Cardinality(Takers(r, x)) + (-1)
                                       ELSE Cardinality(Takers(r, x))
    <2> TAKE r \in Queues, x \in Priorities
    <2>1. CASE r = q /\ p <= x
      <3>1. t \in Takers(r, x) /\ Takers(r, x)' = Takers(r, x) \ {t}
        BY <1>0, <1>1, <1>p, <2>1 DEF Takers, JQTypeOK
      <3>2. Cardinality(Takers(r, x) \ {t}) = Cardinality(Takers(r, x)) - 1
        BY <3>1, CallersFinite, FS_RemoveElement
      <3> QED
        BY <2>1, <3>1, <3>2, CallersFinite
    <2>2. CASE ~(r = q /\ p <= x)
      <3>1. Takers(r, x)' = Takers(r, x)
        BY <1>0, <1>1, <1>p, <2>2 DEF Takers, JQTypeOK
      <3> QED
        BY <2>2, <3>1
    <2> QED
      BY <2>1, <2>2
  <1>8. PermitsCovered' /\ EnoughBelow'
    <2> SUFFICES ASSUME NEW r \in Queues, NEW x \in Priorities
                 PROVE  /\ m_nItems'[r] + Cardinality(Takers(r, JP_HIGH))'
                             + Cardinality(Putters(r))' = Stock(r, JP_HIGH)'
                        /\ Cardinality(Takers(r, x))' <= Stock(r, x)'
      BY DEF PermitsCovered, EnoughBelow, Priorities
    <2>1. /\ m_nItems[r] + Cardinality(Takers(r, JP_HIGH)) + Cardinality(Putters(r))
               = Stock(r, JP_HIGH)
          /\ Cardinality(Takers(r, x)) <= Stock(r, x)
      BY DEF JQInv, PermitsCovered, EnoughBelow
    <2>2. m_nItems[r] \in Nat /\ m_nItems'[r] = m_nItems[r]
      BY <1>0, <1>1 DEF JQTypeOK
    <2>3. JP_HIGH \in Priorities /\ p <= JP_HIGH
      BY DEF Priorities, JP_LOW, JP_NORMAL, JP_HIGH
    <2>4. /\ Cardinality(Takers(r, x)) \in Nat /\ Cardinality(Takers(r, JP_HIGH)) \in Nat
          /\ Cardinality(Putters(r)) \in Nat
          /\ Stock(r, x) \in Nat /\ Stock(r, JP_HIGH) \in Nat
      BY <1>0, <2>3, CallersFinite, StockType
    <2>5. Putters(r)' = Putters(r)
      BY <1>1 DEF Putters
    <2> QED
      BY <1>6, <1>7, <2>1, <2>2, <2>3, <2>4, <2>5
  <1>9. EventTellsItems'
    BY <1>1 DEF JQInv, EventTellsItems
  <1> QED
    BY <1>4, <1>5, <1>8, <1>9 DEF JQInv

\* A queue is emptied while no thread is in a call of it.
LEMMA EmptyInv ==
  ASSUME JQInv, NEW q \in Queues, Empty(q)
  PROVE  JQInv'
  <1> USE NoQueueAssumption
  <1>0. JQTypeOK
    BY DEF JQInv
  <1>1. JQTypeOK'
    <2>1. [x \in Priorities |-> <<>>] \in [Priorities -> Seq(Jobs)]
      OBVIOUS
    <2>2. m_pQueues' \in [Queues -> [Priorities -> Seq(Jobs)]]
      BY <1>0, <2>1 DEF Empty, JQTypeOK
    <2>3. m_nItems' \in [Queues -> Nat] /\ m_JobAvailableEvent' \in [Queues -> BOOLEAN]
      BY <1>0 DEF Empty, JQTypeOK
    <2> QED
      BY <1>0, <2>2, <2>3 DEF Empty, JQTypeOK
  <1>2. LevelReset' /\ NeverEmptyHanded'
    BY DEF JQInv, LevelReset, NeverEmptyHanded, Empty
  <1>3. \A r \in Queues, x \in Priorities :
          Takers(r, x)' = Takers(r, x) /\ Putters(r)' = Putters(r)
    BY DEF Takers, Putters, Empty
  <1>4. \A r \in Queues, x \in Priorities : r # q => Stock(r, x)' = Stock(r, x)
    BY <1>0 DEF Stock, Empty, JQTypeOK
  <1>5. \A x \in Priorities : Stock(q, x)' = 0
    BY <1>0 DEF Stock, Empty, JQTypeOK, Priorities, JP_LOW, JP_NORMAL, JP_HIGH
  <1>6. \A x \in Priorities : Cardinality(Takers(q, x)) = 0 /\ Cardinality(Putters(q)) = 0
    <2> TAKE x \in Priorities
    <2>1. \A s : s \notin Takers(q, x) /\ s \notin Putters(q)
      BY DEF Takers, Putters, Empty
    <2> QED
      BY <2>1, NoneIsZero
  <1>7. PermitsCovered' /\ EnoughBelow'
    <2> SUFFICES ASSUME NEW r \in Queues, NEW x \in Priorities
                 PROVE  /\ m_nItems'[r] + Cardinality(Takers(r, JP_HIGH))'
                             + Cardinality(Putters(r))' = Stock(r, JP_HIGH)'
                        /\ Cardinality(Takers(r, x))' <= Stock(r, x)'
      BY DEF PermitsCovered, EnoughBelow, Priorities
    <2>1. JP_HIGH \in Priorities
      BY DEF Priorities
    <2>2. CASE r = q
      <3>1. m_nItems'[r] = 0
        BY <1>0, <2>2 DEF Empty, JQTypeOK
      <3> QED
        BY <1>3, <1>5, <1>6, <2>1, <2>2, <3>1
    <2>3. CASE r # q
      <3>1. m_nItems'[r] = m_nItems[r]
        BY <1>0, <2>3 DEF Empty, JQTypeOK
      <3> QED
        BY <1>3, <1>4, <2>1, <2>3, <3>1 DEF JQInv, PermitsCovered, EnoughBelow
    <2> QED
      BY <2>2, <2>3
  <1>8. EventTellsItems'
    BY <1>0 DEF JQInv, EventTellsItems, Empty, JQTypeOK
  <1> QED
    BY <1>1, <1>2, <1>7, <1>8 DEF JQInv

\* Every step of a system of job queues keeps the invariant.
LEMMA JQStepInv == JQInv /\ [JQNext]_jqVars => JQInv'
  <1> SUFFICES ASSUME JQInv, [JQNext]_jqVars PROVE JQInv'
    OBVIOUS
  <1>1. CASE \E t \in Threads, q \in Queues, j \in Jobs, p \in Priorities : PushItem(t, q, j, p)
    BY <1>1, PushItemInv
  <1>2. CASE \E t \in Threads, q \in Queues : TakePermit(t, q)
    BY <1>2, TakePermitInv
  <1>3. CASE \E t \in Threads : CountItem(t)
    BY <1>3, CountItemInv
  <1>4. CASE \E t \in Threads : NextPriority(t)
    BY <1>4, NextPriorityInv
  <1>5. CASE \E t \in Threads, j \in Jobs : PopItem(t, j)
    BY <1>5, PopItemInv
  <1>6. CASE \E q \in Queues : Empty(q)
    BY <1>6, EmptyInv
  <1>7. CASE UNCHANGED jqVars
    BY <1>7 DEF JQInv, JQTypeOK, LevelReset, NeverEmptyHanded, PermitsCovered, EnoughBelow,
         EventTellsItems, Takers, Putters, Stock, jqVars
  <1> QED
    BY <1>1, <1>2, <1>3, <1>4, <1>5, <1>6, <1>7 DEF JQNext

\* In a system of job queues alone, a thread that was given a permit always
\* finds a job: the assertion "Expected at least one queue item" never fails.
THEOREM NeverEmptyHandedThm == JQSpec => []NeverEmptyHanded
  <1>1. JQInv => NeverEmptyHanded
    BY DEF JQInv
  <1> QED
    BY <1>1, JQInitInv, JQStepInv, PTL DEF JQSpec

----------------------------------------------------------------------------
(* The pool.                                                               *)

Statuses == {"UNSERVICED", "PENDING", "INPROGRESS", "OK", "ABORTED"}

\* The status tells whether a job was executed.
StatusInv ==
  /\ m_status \in [Jobs -> Statuses]
  /\ executions \in [Jobs -> Nat]
  /\ \A j \in Jobs :
       /\ executions[j] <= 1
       /\ m_status[j] \in {"UNSERVICED", "PENDING", "ABORTED"} => executions[j] = 0

\* The calls in which the master can be at a label.
OpsAt(l) ==
  CASE l = "ready" -> {"none"}
    [] l = "count" -> {"AddJob", "ChangePriority", "ExecuteToPriority"}
    [] l \in {"check", "lock", "run", "release"} ->
         {"AddJob", "Execute", "YieldWait", "ExecuteToPriority"}
    [] l = "search" -> {"AbortAll", "ExecuteToPriority", "YieldWait"}
    [] l = "call" -> {"SuspendExecution", "AbortAll", "ExecuteToPriority", "Stop"}
    [] l \in {"await", "suspend"} -> {"SuspendExecution", "AbortAll", "ExecuteToPriority"}
    [] l = "abort" -> {"AbortAll"}
    [] l = "aborting" -> {"AbortAll", "Abort"}
    [] l \in {"drain", "keep", "putback"} -> {"ExecuteToPriority"}
    [] l = "resume" -> {"AbortAll", "ExecuteToPriority"}
    [] l \in {"yield", "asleep"} -> {"YieldWait"}
    [] l \in {"join", "flush"} -> {"Stop"}
    [] OTHER -> {}

\* At these labels a loop over m_Threads alone is going on, or may begin.
ThreadLoops == {"ready", "call", "await", "suspend", "join"}

\* Where the master is in its call, and the locals of that call.
CallInv ==
  /\ pc \in [Threads -> Labels]
  /\ op \in OpsAt(pc[Master])
  /\ job \in [Threads -> Jobs \cup {NoJob}]
  /\ m_priority \in [Jobs -> Priorities]
  /\ putBack \in Seq(Jobs)
  /\ pc[Master] = "keep" => job[Master] \in Jobs
  /\ (pc[Master] = "count" /\ op = "ExecuteToPriority") => putBack # <<>>
  /\ iThread \in 1..(Len(m_Threads) + 1)
  /\ pc[Master] \in ThreadLoops => iThread \in 1..Len(m_Threads)

\* Who sleeps, and when the pool is suspended.
SuspendInv ==
  /\ m_nSuspend \in Nat
  /\ m_NotSuspendedEvent \in [Workers -> BOOLEAN]
  /\ \A w \in Workers : ~m_NotSuspendedEvent[w] => pc[w] = "suspended"
  /\ (m_nSuspend > 0 \/ pc[Master] = "suspend") =>
       \A w \in Workers : ~m_NotSuspendedEvent[w]
  /\ pc[Master] = "await" =>
       \A k \in 1..Len(m_Threads) : k < iThread => ~m_NotSuspendedEvent[m_Threads[k]]
  /\ (op \in {"AbortAll", "ExecuteToPriority"}
        /\ pc[Master] \notin {"call", "await", "suspend"}) => m_nSuspend > 0
-----------------------------------------------------------------------------
\* The threads and the queues of the pool.
LEMMA PoolNames ==
  /\ Master \in Threads /\ SharedQueue \in Queues
  /\ \A w \in Workers : w \in Threads /\ w \in Queues /\ w # Master
  /\ Len(m_Threads) \in Nat /\ Len(m_Threads) >= 1
  /\ \A k \in 1..Len(m_Threads) : m_Threads[k] \in Workers
  /\ \A w \in Workers : \E k \in 1..Len(m_Threads) : w = m_Threads[k]
  <1>1. m_Threads \in Seq(Workers) /\ m_Threads # <<>>
    BY PoolAssumption
  <1>2. DOMAIN m_Threads = 1..Len(m_Threads) /\ Len(m_Threads) \in Nat
        /\ Len(m_Threads) >= 1
    BY <1>1
  <1> QED
    BY <1>1, <1>2, PoolAssumption DEF Workers

\* The loops of AbortAll and ExecuteToPriority run over queues.
LEMMA OrdersAreQueues ==
  /\ Len(AbortOrder) = Len(m_Threads) + 1 /\ Len(ExecuteOrder) = Len(m_Threads) + 1
  /\ \A k \in 1..(Len(m_Threads) + 1) : AbortOrder[k] \in Queues /\ ExecuteOrder[k] \in Queues
  /\ \A j : QueueOf(j) \in Queues
  <1>1. m_Threads \in Seq(Queues) /\ SharedQueue \in Queues /\ m_Threads # <<>>
    BY PoolAssumption
  <1>2. \A j : QueueOf(j) \in Queues
    BY PoolNames DEF QueueOf
  <1>3. AbortOrder \in Seq(Queues) /\ Len(AbortOrder) = Len(m_Threads) + 1
    BY <1>1 DEF AbortOrder
  <1>4. ExecuteOrder \in Seq(Queues) /\ Len(ExecuteOrder) = Len(m_Threads) + 1
    BY <1>1 DEF ExecuteOrder
  <1> QED
    BY <1>2, <1>3, <1>4, PoolNames
-----------------------------------------------------------------------------
LEMMA StatusInit == PoolInit => StatusInv
  BY DEF PoolInit, StatusInv, Statuses

\* A thread executes a job only after it has read, in the mutex, a status
\* that says nobody has, and writes the one that says somebody does.
LEMMA StatusLock ==
  ASSUME StatusInv, NEW t, LockJob(t)
  PROVE  StatusInv'
  <1>1. CASE UNCHANGED <<m_status, executions>>
    BY <1>1 DEF StatusInv
  <1>2. CASE /\ CanExecute(job[t])
             /\ m_status' = [m_status EXCEPT ![job[t]] = "INPROGRESS"]
             /\ executions' = [executions EXCEPT ![job[t]] = @ + 1]
    <2>1. m_status' \in [Jobs -> Statuses] /\ executions' \in [Jobs -> Nat]
      <3>1. m_status' \in [Jobs -> Statuses]
        BY <1>2 DEF StatusInv, Statuses
      <3>2. executions' \in [Jobs -> Nat]
        <4>1. \A j \in Jobs : executions[j] + 1 \in Nat
          BY DEF StatusInv
        <4>2. CASE job[t] \in Jobs
          BY <1>2, <4>1, <4>2 DEF StatusInv
        <4>3. CASE job[t] \notin Jobs
          BY <1>2, <4>3 DEF StatusInv
        <4> QED
          BY <4>2, <4>3
      <3> QED
        BY <3>1, <3>2
    <2>2. ASSUME NEW j \in Jobs
          PROVE  /\ executions'[j] <= 1
                 /\ m_status'[j] \in {"UNSERVICED", "PENDING", "ABORTED"} => executions'[j] = 0
      <3>1. executions[j] \in Nat /\ executions[j] <= 1
        BY DEF StatusInv
      <3>2. CASE j = job[t]
        <4>1. executions[j] = 0
          BY <1>2, <3>2 DEF StatusInv, CanExecute
        <4>2. executions'[j] = 1 /\ m_status'[j] = "INPROGRESS"
          BY <1>2, <3>2, <4>1 DEF StatusInv
        <4> QED
          BY <4>2
      <3>3. CASE j # job[t]
        <4>1. executions'[j] = executions[j] /\ m_status'[j] = m_status[j]
          BY <1>2, <3>3 DEF StatusInv
        <4> QED
          BY <3>1, <4>1 DEF StatusInv
      <3> QED
        BY <3>2, <3>3
    <2> QED
      BY <2>1, <2>2 DEF StatusInv
  <1> QED
    BY <1>1, <1>2 DEF LockJob

LEMMA StatusStep == StatusInv /\ [PoolNext]_vars => StatusInv'
  <1> SUFFICES ASSUME StatusInv, [PoolNext]_vars PROVE StatusInv'
    OBVIOUS
  <1>1. ASSUME UNCHANGED <<m_status, executions>> PROVE StatusInv'
    BY <1>1 DEF StatusInv
  <1>2. ASSUME NEW t, ServiceJob(t) PROVE StatusInv'
    <2>1. CASE Search(t) \/ CheckJob(t) \/ ReleaseJob(t)
      BY <2>1, <1>1 DEF Search, CheckJob, ReleaseJob, jobVars
    <2>2. CASE LockJob(t)
      BY <2>2, StatusLock
    <2>3. CASE FinishJob(t)
      BY <2>3 DEF FinishJob, StatusInv, Statuses
    <2> QED
      BY <1>2, <2>1, <2>2, <2>3 DEF ServiceJob
  <1>3. ASSUME NEW w \in Workers, WorkerNext(w) PROVE StatusInv'
    <2>1. CASE \/ Wake(w) \/ Reply(w) \/ Suspend(w) \/ Resumed(w) \/ Exit(w)
               \/ PopQueues(w) \/ TakeJob(w)
      BY <2>1, <1>1 DEF Wake, Reply, Suspend, Resumed, Exit, PopQueues, TakeJob, jobVars
    <2> QED
      BY <1>2, <1>3, <2>1 DEF WorkerNext
  <1>4. ASSUME NEW j \in Jobs, AddJob(j) PROVE StatusInv'
    <2>1. CASE UNCHANGED jobVars
      BY <2>1, <1>1 DEF jobVars
    <2>2. CASE /\ m_status' = [m_status EXCEPT ![j] = "PENDING"] /\ UNCHANGED executions
      BY <1>4, <2>2 DEF AddJob, StatusInv, Statuses
    <2> QED
      BY <1>4, <2>1, <2>2 DEF AddJob
  <1>5. CASE MasterCalls
    <2>1. ASSUME NEW j \in Jobs, NEW p \in Priorities, ChangePriority(j, p) PROVE StatusInv'
      BY <2>1, <1>1 DEF ChangePriority
    <2>2. ASSUME NEW j \in Jobs,
                 \/ YieldWait(j)
                 \/ OwnerCall("Execute", j, "check") \/ OwnerCall("Abort", j, "aborting")
          PROVE  StatusInv'
      BY <2>2, <1>1 DEF YieldWait, OwnerCall, jobVars
    <2>3. ASSUME NEW p \in Priorities, NEW fltr, ExecuteToPriority(p, fltr) PROVE StatusInv'
      BY <2>3, <1>1 DEF ExecuteToPriority, jobVars
    <2>4. CASE SuspendExecution \/ AbortAll \/ Stop
      BY <2>4, <1>1 DEF SuspendExecution, AbortAll, Stop, jobVars
    <2> QED
      BY <1>4, <1>5, <2>1, <2>2, <2>3, <2>4 DEF MasterCalls
  <1>6. CASE MasterContinues
    <2>1. CASE Count \/ KeepJob \/ PutBack
      BY <2>1, <1>1 DEF Count, KeepJob, PutBack
    <2>2. CASE CallWorker \/ AwaitSuspended \/ Suspended \/ ResumeAndReturn
      BY <2>2, <1>1 DEF CallWorker, AwaitSuspended, Suspended, ResumeAndReturn, jobVars
    <2>3. CASE PopToAbort \/ PopToExecute \/ MasterTakeJob \/ Yield \/ YieldDone \/ Join
      BY <2>3, <1>1
      DEF PopToAbort, PopToExecute, MasterTakeJob, Yield, YieldDone, Join, jobVars
    <2>4. CASE AbortJob
      <3>1. CASE UNCHANGED m_status
        BY <2>4, <3>1, <1>1 DEF AbortJob
      <3>2. CASE /\ CanExecute(job[Master])
                 /\ m_status' = [m_status EXCEPT ![job[Master]] = "ABORTED"]
        BY <2>4, <3>2 DEF AbortJob, StatusInv, Statuses, CanExecute
      <3> QED
        BY <2>4, <3>1, <3>2 DEF AbortJob
    <2>5. CASE Flush
      <3>1. /\ UNCHANGED executions
            /\ m_status' = [j \in Jobs |-> IF Entries(SharedQueue, j) > 0 /\ CanExecute(j)
                                           THEN "ABORTED" ELSE m_status[j]]
        BY <2>5 DEF Flush
      <3> QED
        BY <3>1 DEF StatusInv, Statuses, CanExecute
    <2> QED
      BY <1>2, <1>6, <2>1, <2>2, <2>3, <2>4, <2>5 DEF MasterContinues
  <1>7. CASE ResumeExecution
    BY <1>7, <1>1 DEF ResumeExecution, jobVars
  <1>8. CASE UNCHANGED vars
    BY <1>8, <1>1 DEF vars, jobVars
  <1> QED
    BY <1>3, <1>5, <1>6, <1>7, <1>8 DEF PoolNext

\* No job is executed twice, and none that is aborted: CJob::Execute and
\* CJob::Abort, called by any number of threads for a job in any number of
\* queues.
THEOREM ExecutedOnceThm == PoolSpec => []ExecutedOnce
  <1>1. StatusInv => ExecutedOnce
    BY DEF StatusInv, ExecutedOnce
  <1> QED
    BY <1>1, StatusInit, StatusStep, PTL DEF PoolSpec
-----------------------------------------------------------------------------
\* Every step of the pool is one of its queues, or leaves them alone.
LEMMA ServiceUsesQueues ==
  ASSUME NEW t \in Threads, ServiceJob(t)
  PROVE  [JQNext]_jqVars
  <1>1. CASE Search(t)
    BY <1>1 DEF Search, JQNext
  <1>2. CASE CheckJob(t) \/ LockJob(t) \/ FinishJob(t) \/ ReleaseJob(t)
    <2>1. UNCHANGED jqVars
      BY <1>2 DEF CheckJob, LockJob, FinishJob, ReleaseJob
    <2> QED
      BY <2>1
  <1> QED
    BY <1>1, <1>2 DEF ServiceJob

LEMMA WorkerUsesQueues ==
  ASSUME NEW w \in Workers, WorkerNext(w)
  PROVE  [JQNext]_jqVars
  <1>1. CASE Wake(w) \/ Reply(w) \/ Suspend(w) \/ Resumed(w) \/ Exit(w)
    <2>1. UNCHANGED jqVars
      BY <1>1 DEF Wake, Reply, Suspend, Resumed, Exit
    <2> QED
      BY <2>1
  <1>2. CASE PopQueues(w)
    <2>1. TakePermit(w, w) \/ TakePermit(w, SharedQueue) \/ UNCHANGED jqVars
      BY <1>2 DEF PopQueues
    <2> QED
      BY <2>1, PoolNames DEF JQNext
  <1>3. CASE TakeJob(w)
    BY <1>3, PoolNames DEF TakeJob, JQNext
  <1>4. CASE ServiceJob(w)
    BY <1>4, PoolNames, ServiceUsesQueues
  <1> QED
    BY <1>1, <1>2, <1>3, <1>4 DEF WorkerNext

LEMMA QueueStep == CallInv /\ [PoolNext]_vars => [JQNext]_jqVars
  <1> SUFFICES ASSUME CallInv, [PoolNext]_vars PROVE [JQNext]_jqVars
    OBVIOUS
  <1>1. ASSUME UNCHANGED jqVars PROVE [JQNext]_jqVars
    BY <1>1
  <1>2. ASSUME NEW q \in Queues, NEW j \in Jobs, NEW p \in Priorities, PushItem(Master, q, j, p)
        PROVE  [JQNext]_jqVars
    BY <1>2, PoolNames DEF JQNext
  <1>3. ASSUME NEW q \in Queues, TakePermit(Master, q) PROVE [JQNext]_jqVars
    BY <1>3, PoolNames DEF JQNext
  <1>4. ASSUME NEW q \in Queues, Empty(q) PROVE [JQNext]_jqVars
    BY <1>4 DEF JQNext
  <1>5. CASE MasterCalls
    <2>1. ASSUME NEW j \in Jobs, AddJob(j) PROVE [JQNext]_jqVars
      <3>1. CASE UNCHANGED jqVars
        BY <3>1, <1>1
      <3>2. CASE /\ m_priority' = IF j \in QueueJobs THEN m_priority
                                  ELSE [m_priority EXCEPT ![j] = JP_HIGH]
                 /\ PushItem(Master, QueueOf(j), j, m_priority'[j])
        <4>1. m_priority'[j] \in Priorities
          BY <3>2 DEF CallInv, Priorities
        <4> QED
          BY <3>2, <4>1, <1>2, OrdersAreQueues
      <3> QED
        BY <2>1, <3>1, <3>2 DEF AddJob
    <2>2. ASSUME NEW j \in Jobs, NEW p \in Priorities, ChangePriority(j, p)
          PROVE  [JQNext]_jqVars
      BY <2>2, <1>2, PoolNames DEF ChangePriority
    <2>3. ASSUME NEW j \in Jobs,
                 \/ YieldWait(j)
                 \/ OwnerCall("Execute", j, "check") \/ OwnerCall("Abort", j, "aborting")
          PROVE  [JQNext]_jqVars
      BY <2>3, <1>1 DEF YieldWait, OwnerCall
    <2>4. ASSUME NEW p \in Priorities, NEW fltr, ExecuteToPriority(p, fltr)
          PROVE  [JQNext]_jqVars
      BY <2>4, <1>1 DEF ExecuteToPriority
    <2>5. CASE SuspendExecution \/ AbortAll \/ Stop
      BY <2>5, <1>1 DEF SuspendExecution, AbortAll, Stop
    <2> QED
      BY <1>5, <2>1, <2>2, <2>3, <2>4, <2>5 DEF MasterCalls
  <1>6. CASE MasterContinues
    <2>1. CASE Count
      BY <2>1, PoolNames DEF Count, JQNext
    <2>2. CASE \/ CallWorker \/ AwaitSuspended \/ Suspended \/ ResumeAndReturn
               \/ AbortJob \/ KeepJob \/ YieldDone
      BY <2>2, <1>1
      DEF CallWorker, AwaitSuspended, Suspended, ResumeAndReturn, AbortJob, KeepJob, YieldDone
    <2>3. CASE PopToAbort
      <3>1. AbortOrder[iThread] \in Queues
        BY OrdersAreQueues DEF CallInv
      <3> QED
        BY <2>3, <3>1, <1>1, <1>3 DEF PopToAbort
    <2>4. CASE PopToExecute
      <3>1. ExecuteOrder[iThread] \in Queues
        BY OrdersAreQueues DEF CallInv
      <3> QED
        BY <2>4, <3>1, <1>1, <1>3 DEF PopToExecute
    <2>5. CASE PutBack
      <3>1. CASE putBack = <<>>
        BY <2>5, <3>1, <1>1 DEF PutBack
      <3>2. CASE putBack # <<>>
        <4>1. Head(putBack) \in Jobs
          BY <3>2 DEF CallInv
        <4>2. m_priority[Head(putBack)] \in Priorities
          BY <4>1 DEF CallInv
        <4>3. PushItem(Master, QueueOf(Head(putBack)), Head(putBack), m_priority[Head(putBack)])
          BY <2>5, <3>2 DEF PutBack
        <4> QED
          BY <4>1, <4>2, <4>3, <1>2, OrdersAreQueues
      <3> QED
        BY <3>1, <3>2
    <2>6. CASE MasterTakeJob
      BY <2>6, PoolNames DEF MasterTakeJob, JQNext
    <2>7. CASE Yield
      BY <2>7, <1>1, <1>3, PoolNames DEF Yield
    <2>8. CASE Join
      <3>1. m_Threads[iThread] \in Queues
        BY <2>8, PoolNames DEF Join, CallInv, ThreadLoops
      <3> QED
        BY <2>8, <3>1, <1>4 DEF Join
    <2>9. CASE Flush
      BY <2>9, <1>4, PoolNames DEF Flush
    <2> QED
      BY <1>6, <2>1, <2>2, <2>3, <2>4, <2>5, <2>6, <2>7, <2>8, <2>9, PoolNames,
         ServiceUsesQueues DEF MasterContinues
  <1>7. CASE ResumeExecution
    BY <1>7, <1>1 DEF ResumeExecution
  <1>8. CASE UNCHANGED vars
    BY <1>8, <1>1 DEF vars
  <1> QED
    BY <1>5, <1>6, <1>7, <1>8, WorkerUsesQueues DEF PoolNext
-----------------------------------------------------------------------------
LEMMA CallInit == PoolInit => CallInv
  <1> SUFFICES ASSUME PoolInit PROVE CallInv
    OBVIOUS
  <1>1. pc \in [Threads -> Labels] /\ pc[Master] = "ready"
    BY PoolNames DEF PoolInit, Labels
  <1>2. op \in OpsAt(pc[Master])
    BY <1>1 DEF PoolInit, OpsAt
  <1>3. /\ job \in [Threads -> Jobs \cup {NoJob}]
        /\ m_priority \in [Jobs -> Priorities]
        /\ putBack \in Seq(Jobs)
    BY PoolAssumption DEF PoolInit
  <1>4. iThread \in 1..Len(m_Threads) /\ iThread \in 1..(Len(m_Threads) + 1)
    BY PoolNames DEF PoolInit
  <1> QED
    BY <1>1, <1>2, <1>3, <1>4 DEF CallInv

\* A worker moves itself, and touches no local of the master's call.
LEMMA WorkerFrame ==
  ASSUME CallInv, NEW w \in Workers, WorkerNext(w)
  PROVE  /\ pc' \in [Threads -> Labels]
         /\ pc'[Master] = pc[Master] /\ job'[Master] = job[Master]
         /\ job' \in [Threads -> Jobs \cup {NoJob}]
         /\ UNCHANGED <<op, iThread, putBack, m_priority>>
  <1> USE PoolNames
  <1>1. CASE Wake(w) \/ Reply(w) \/ Suspend(w) \/ Resumed(w) \/ Exit(w)
    BY <1>1 DEF Wake, Reply, Suspend, Resumed, Exit, CallInv, Goto, Labels, opVars, jobVars
  <1>2. CASE PopQueues(w)
    BY <1>2 DEF PopQueues, CallInv, Goto, Labels, opVars, jobVars
  <1>3. CASE TakeJob(w)
    <2>1. PICK j \in Jobs : job' = [job EXCEPT ![w] = j]
      BY <1>3 DEF TakeJob
    <2> QED
      BY <1>3, <2>1 DEF TakeJob, CallInv, Goto, Labels, opVars, jobVars
  <1>4. CASE Search(w)
    BY <1>4 DEF Search, CallInv, opVars, jobVars
  <1>5. CASE CheckJob(w)
    BY <1>5 DEF CheckJob, CallInv, Goto, Labels, opVars, jobVars
  <1>6. CASE LockJob(w)
    BY <1>6 DEF LockJob, CallInv, Goto, Labels, opVars
  <1>7. CASE FinishJob(w)
    BY <1>7 DEF FinishJob, CallInv, Goto, Labels, opVars
  <1>8. CASE ReleaseJob(w)
    <2>1. ~Direct(w)
      BY DEF Direct
    <2> QED
      BY <1>8, <2>1 DEF ReleaseJob, PutDown, CallInv, Goto, Labels, opVars
  <1> QED
    BY <1>1, <1>2, <1>3, <1>4, <1>5, <1>6, <1>7, <1>8 DEF WorkerNext, ServiceJob

LEMMA WorkerCallInv ==
  ASSUME CallInv, NEW w \in Workers, WorkerNext(w)
  PROVE  CallInv'
  BY WorkerFrame DEF CallInv

\* The master goes to a label: what has to hold there.
LEMMA MasterGoes ==
  ASSUME CallInv, NEW l \in Labels, Goto(Master, l),
         op' \in OpsAt(l),
         job' \in [Threads -> Jobs \cup {NoJob}],
         m_priority' \in [Jobs -> Priorities],
         putBack' \in Seq(Jobs),
         l = "keep" => job'[Master] \in Jobs,
         (l = "count" /\ op' = "ExecuteToPriority") => putBack' # <<>>,
         iThread' \in 1..(Len(m_Threads) + 1),
         l \in ThreadLoops => iThread' \in 1..Len(m_Threads)
  PROVE  CallInv'
  <1>1. pc' \in [Threads -> Labels] /\ pc'[Master] = l
    BY PoolNames DEF Goto, CallInv
  <1> QED
    BY <1>1 DEF CallInv

\* A call that returns leaves its locals as they are between two calls.
LEMMA ReturnCallInv ==
  ASSUME CallInv, Return, job' \in [Threads -> Jobs \cup {NoJob}],
         m_priority' \in [Jobs -> Priorities]
  PROVE  CallInv'
  <1>1. /\ Goto(Master, "ready") /\ op' = "none" /\ putBack' = <<>> /\ iThread' = 1
        /\ putBack' \in Seq(Jobs)
    BY DEF Return
  <1>2. "ready" \in Labels /\ op' \in OpsAt("ready")
    BY <1>1 DEF Labels, OpsAt
  <1>3. iThread' \in 1..Len(m_Threads) /\ iThread' \in 1..(Len(m_Threads) + 1)
    BY <1>1, PoolNames
  <1> QED
    BY <1>1, <1>2, <1>3, MasterGoes

\* A call that begins does so with the index of the loops at the first thread.
LEMMA BeginCallInv ==
  ASSUME CallInv, NEW n, NEW j, NEW f, NEW p, NEW l \in Labels \ {"keep"},
         Begin(n, j, f, p, l), n \in OpsAt(l), n # "ExecuteToPriority" \/ l # "count",
         job' \in [Threads -> Jobs \cup {NoJob}],
         m_priority' \in [Jobs -> Priorities],
         UNCHANGED iThread
  PROVE  CallInv'
  <1>1. /\ pc[Master] = "ready" /\ Goto(Master, l) /\ op' = n /\ putBack' = putBack
    BY DEF Begin
  <1>2. iThread' \in 1..Len(m_Threads) /\ iThread' \in 1..(Len(m_Threads) + 1)
    BY <1>1, PoolNames DEF CallInv, ThreadLoops
  <1>3. putBack' \in Seq(Jobs)
    BY <1>1 DEF CallInv
  <1> QED
    BY <1>1, <1>2, <1>3, MasterGoes
LEMMA MasterCallsInv ==
  ASSUME CallInv, MasterCalls
  PROVE  CallInv'
  <1> USE DEF Labels, OpsAt
  <1>1. ASSUME UNCHANGED <<job, m_priority, iThread>>
        PROVE  /\ job' \in [Threads -> Jobs \cup {NoJob}]
               /\ m_priority' \in [Jobs -> Priorities] /\ UNCHANGED iThread
    BY <1>1 DEF CallInv
  <1>2. ASSUME NEW j \in Jobs, AddJob(j) PROVE CallInv'
    <2>1. /\ job' \in [Threads -> Jobs \cup {NoJob}]
          /\ m_priority' \in [Jobs -> Priorities] /\ UNCHANGED iThread
      BY <1>2 DEF AddJob, CallInv, Priorities, jobVars
    <2>2. CASE Begin("AddJob", j, {}, JP_LOW, "check")
      BY <2>1, <2>2, BeginCallInv
    <2>3. CASE Begin("AddJob", j, {}, JP_LOW, "count")
      BY <2>1, <2>3, BeginCallInv
    <2> QED
      BY <1>2, <2>2, <2>3 DEF AddJob
  <1>3. ASSUME NEW j \in Jobs, NEW p \in Priorities, ChangePriority(j, p) PROVE CallInv'
    <2>1. /\ job' \in [Threads -> Jobs \cup {NoJob}]
          /\ m_priority' \in [Jobs -> Priorities] /\ UNCHANGED iThread
      BY <1>3 DEF ChangePriority, CallInv
    <2>2. Begin("ChangePriority", j, {}, JP_LOW, "count")
      BY <1>3 DEF ChangePriority
    <2> QED
      BY <2>1, <2>2, BeginCallInv
  <1>4. ASSUME NEW j \in Jobs, YieldWait(j) PROVE CallInv'
    <2>1. Begin("YieldWait", j, {}, JP_LOW, "yield") /\ UNCHANGED <<job, m_priority, iThread>>
      BY <1>4 DEF YieldWait, jobVars
    <2> QED
      BY <2>1, <1>1, BeginCallInv
  <1>5. ASSUME NEW j \in Jobs, OwnerCall("Execute", j, "check") PROVE CallInv'
    <2>1. /\ job' \in [Threads -> Jobs \cup {NoJob}]
          /\ m_priority' \in [Jobs -> Priorities] /\ UNCHANGED iThread
      BY <1>5 DEF OwnerCall, CallInv, jobVars
    <2>2. Begin("Execute", j, {}, JP_LOW, "check")
      BY <1>5 DEF OwnerCall
    <2> QED
      BY <2>1, <2>2, BeginCallInv
  <1>6. ASSUME NEW j \in Jobs, OwnerCall("Abort", j, "aborting") PROVE CallInv'
    <2>1. /\ job' \in [Threads -> Jobs \cup {NoJob}]
          /\ m_priority' \in [Jobs -> Priorities] /\ UNCHANGED iThread
      BY <1>6 DEF OwnerCall, CallInv, jobVars
    <2>2. Begin("Abort", j, {}, JP_LOW, "aborting")
      BY <1>6 DEF OwnerCall
    <2> QED
      BY <2>1, <2>2, BeginCallInv
  <1>7. ASSUME NEW n \in {"SuspendExecution", "AbortAll", "ExecuteToPriority"},
               NEW f, NEW p, Begin(n, NoJob, f, p, SuspendFirst),
               UNCHANGED <<job, m_priority, iThread>>
        PROVE  CallInv'
    <2>1. CASE SuspendFirst = "call"
      BY <1>7, <2>1, <1>1, BeginCallInv
    <2>2. CASE SuspendFirst = "suspend"
      BY <1>7, <2>2, <1>1, BeginCallInv
    <2> QED
      BY <2>1, <2>2 DEF SuspendFirst
  <1>8. ASSUME NEW p \in Priorities, NEW f, ExecuteToPriority(p, f) PROVE CallInv'
    <2>1. /\ Begin("ExecuteToPriority", NoJob, f, p, SuspendFirst)
          /\ UNCHANGED <<job, m_priority, iThread>>
      BY <1>8 DEF ExecuteToPriority, jobVars
    <2> QED
      BY <2>1, <1>7
  <1>9. CASE SuspendExecution
    <2>1. /\ Begin("SuspendExecution", NoJob, {}, JP_LOW, SuspendFirst)
          /\ UNCHANGED <<job, m_priority, iThread>>
      BY <1>9 DEF SuspendExecution, jobVars
    <2> QED
      BY <2>1, <1>7
  <1>10. CASE AbortAll
    <2>1. /\ Begin("AbortAll", NoJob, {}, JP_LOW, SuspendFirst)
          /\ UNCHANGED <<job, m_priority, iThread>>
      BY <1>10 DEF AbortAll, jobVars
    <2> QED
      BY <2>1, <1>7
  <1>11. CASE Stop
    <2>1. /\ Begin("Stop", NoJob, {}, JP_LOW, "call")
          /\ UNCHANGED <<job, m_priority, iThread>>
      BY <1>11 DEF Stop, jobVars
    <2> QED
      BY <2>1, <1>1, BeginCallInv
  <1> HIDE DEF Labels, OpsAt
  <1> QED
    BY <1>2, <1>3, <1>4, <1>5, <1>6, <1>8, <1>9, <1>10, <1>11 DEF MasterCalls
\* A loop over m_Threads goes on or ends.
LEMMA NextThreadCallInv ==
  ASSUME CallInv, NEW l \in ThreadLoops, NEW m \in Labels, pc[Master] \in ThreadLoops,
         NextThread(l, m), op \in OpsAt(l), op \in OpsAt(m), m \notin {"keep", "count"},
         UNCHANGED <<op, job, m_priority, putBack>>
  PROVE  CallInv'
  <1>1. l \in Labels /\ l \notin {"keep", "count"}
    BY DEF Labels, ThreadLoops
  <1>2. /\ job' \in [Threads -> Jobs \cup {NoJob}] /\ m_priority' \in [Jobs -> Priorities]
        /\ putBack' \in Seq(Jobs) /\ op' = op /\ iThread \in 1..Len(m_Threads)
    BY DEF CallInv
  <1>3. CASE iThread = Len(m_Threads)
    <2>1. iThread' = 1 /\ Goto(Master, m)
      BY <1>3 DEF NextThread
    <2>2. iThread' \in 1..Len(m_Threads) /\ iThread' \in 1..(Len(m_Threads) + 1)
      BY <2>1, PoolNames
    <2> QED
      BY <1>2, <2>1, <2>2, MasterGoes
  <1>4. CASE iThread # Len(m_Threads)
    <2>1. iThread' = iThread + 1 /\ Goto(Master, l)
      BY <1>4 DEF NextThread
    <2>2. iThread' \in 1..Len(m_Threads) /\ iThread' \in 1..(Len(m_Threads) + 1)
      BY <1>2, <1>4, <2>1, PoolNames
    <2> QED
      BY <1>1, <1>2, <2>1, <2>2, MasterGoes
  <1> QED
    BY <1>3, <1>4

\* A step of the master that only moves on, within the call.
LEMMA MovesCallInv ==
  ASSUME CallInv, NEW l \in Labels, Goto(Master, l), op \in OpsAt(l),
         l \notin {"keep", "count"}, UNCHANGED <<op, job, m_priority, putBack>>,
         iThread' \in 1..(Len(m_Threads) + 1),
         l \in ThreadLoops => iThread' \in 1..Len(m_Threads)
  PROVE  CallInv'
  <1>1. /\ job' \in [Threads -> Jobs \cup {NoJob}] /\ m_priority' \in [Jobs -> Priorities]
        /\ putBack' \in Seq(Jobs) /\ op' \in OpsAt(l)
    BY DEF CallInv
  <1> QED
    BY <1>1, MasterGoes

LEMMA ServiceCallInv ==
  ASSUME CallInv, ServiceJob(Master)
  PROVE  CallInv'
  <1> USE DEF Labels, OpsAt, ThreadLoops
  <1>1. ASSUME UNCHANGED <<pc, op, job, m_priority, putBack, iThread>> PROVE CallInv'
    BY <1>1 DEF CallInv
  <1>2. iThread \in 1..(Len(m_Threads) + 1) /\ op \in OpsAt(pc[Master])
    BY DEF CallInv
  <1>3. CASE Search(Master)
    BY <1>1, <1>3 DEF Search, opVars, jobVars
  <1>4. CASE CheckJob(Master)
    <2>1. /\ pc[Master] = "check" /\ UNCHANGED <<op, job, m_priority, putBack, iThread>>
          /\ Goto(Master, "release") \/ Goto(Master, "lock")
      BY <1>4 DEF CheckJob, opVars, jobVars
    <2> QED
      BY <1>2, <2>1, MovesCallInv
  <1>5. CASE LockJob(Master)
    <2>1. /\ pc[Master] = "lock" /\ UNCHANGED <<op, job, m_priority, putBack, iThread>>
          /\ Goto(Master, "release") \/ Goto(Master, "run")
      BY <1>5 DEF LockJob, opVars
    <2> QED
      BY <1>2, <2>1, MovesCallInv
  <1>6. CASE FinishJob(Master)
    <2>1. /\ pc[Master] = "run" /\ UNCHANGED <<op, job, m_priority, putBack, iThread>>
          /\ Goto(Master, "release")
      BY <1>6 DEF FinishJob, opVars
    <2> QED
      BY <1>2, <2>1, MovesCallInv
  <1>7. CASE ReleaseJob(Master)
    <2>1. /\ pc[Master] = "release" /\ job' = [job EXCEPT ![Master] = NoJob]
          /\ m_priority' = m_priority
      BY <1>7 DEF ReleaseJob, PutDown
    <2>2. /\ job' \in [Threads -> Jobs \cup {NoJob}] /\ m_priority' \in [Jobs -> Priorities]
      BY <2>1 DEF CallInv
    <2>3. CASE Direct(Master)
      <3>1. Return
        BY <1>7, <2>3 DEF ReleaseJob
      <3> QED
        BY <2>2, <3>1, ReturnCallInv
    <2>4. CASE ~Direct(Master)
      <3>1. UNCHANGED <<op, putBack, iThread>>
        BY <1>7, <2>4 DEF ReleaseJob, opVars
      <3>2. Goto(Master, IF op = "YieldWait" THEN "yield" ELSE "drain")
        BY <1>7, <2>4, PoolAssumption DEF ReleaseJob
      <3>3. op \in {"YieldWait", "ExecuteToPriority"}
        BY <1>2, <2>1, <2>4 DEF Direct
      <3>4. putBack' \in Seq(Jobs) /\ iThread' \in 1..(Len(m_Threads) + 1)
        BY <3>1 DEF CallInv
      <3>5. CASE op = "YieldWait"
        BY <2>2, <3>1, <3>2, <3>4, <3>5, MasterGoes
      <3>6. CASE op = "ExecuteToPriority"
        BY <2>2, <3>1, <3>2, <3>4, <3>6, MasterGoes
      <3> QED
        BY <3>3, <3>5, <3>6
    <2> QED
      BY <2>3, <2>4
  <1> HIDE DEF Labels, OpsAt, ThreadLoops
  <1> QED
    BY <1>3, <1>4, <1>5, <1>6, <1>7 DEF ServiceJob
LEMMA MasterContinuesInv ==
  ASSUME CallInv, MasterContinues
  PROVE  CallInv'
  <1> USE DEF Labels, OpsAt, ThreadLoops
  <1>1. ASSUME UNCHANGED <<job, m_priority>>
        PROVE  job' \in [Threads -> Jobs \cup {NoJob}] /\ m_priority' \in [Jobs -> Priorities]
    BY <1>1 DEF CallInv
  <1>2. ASSUME job' = [job EXCEPT ![Master] = NoJob] PROVE job' \in [Threads -> Jobs \cup {NoJob}]
    BY <1>2 DEF CallInv
  <1>3. /\ iThread \in 1..(Len(m_Threads) + 1) /\ op \in OpsAt(pc[Master])
        /\ putBack \in Seq(Jobs) /\ m_priority \in [Jobs -> Priorities]
    BY DEF CallInv
  <1>4. CASE Count
    <2>1. pc[Master] = "count" /\ UNCHANGED <<job, m_priority>>
      BY <1>4 DEF Count
    <2>2. CASE op = "ExecuteToPriority"
      <3>1. /\ putBack' = Tail(putBack) /\ Goto(Master, "putback") /\ UNCHANGED <<op, iThread>>
        BY <1>4, <2>2 DEF Count
      <3>2. putBack # <<>>
        BY <2>1, <2>2 DEF CallInv
      <3>3. putBack' \in Seq(Jobs)
        BY <1>3, <3>1, <3>2
      <3> QED
        BY <1>1, <1>3, <2>1, <2>2, <3>1, <3>3, MasterGoes
    <2>3. CASE op # "ExecuteToPriority"
      BY <1>1, <1>4, <2>1, <2>3, ReturnCallInv DEF Count
    <2> QED
      BY <2>2, <2>3
  <1>5. CASE CallWorker
    <2>1. /\ pc[Master] = "call" /\ UNCHANGED <<op, job, m_priority, putBack>>
          /\ NextThread("call", IF op = "Stop" THEN "join" ELSE "await")
      BY <1>5 DEF CallWorker, opVars, jobVars
    <2>2. CASE op = "Stop"
      BY <1>3, <2>1, <2>2, NextThreadCallInv
    <2>3. CASE op # "Stop"
      BY <1>3, <2>1, <2>3, NextThreadCallInv
    <2> QED
      BY <2>2, <2>3
  <1>6. CASE AwaitSuspended
    <2>1. /\ pc[Master] = "await" /\ UNCHANGED <<op, job, m_priority, putBack>>
          /\ NextThread("await", "suspend")
      BY <1>6 DEF AwaitSuspended, opVars, jobVars
    <2> QED
      BY <1>3, <2>1, NextThreadCallInv
  <1>7. CASE Suspended
    <2>1. pc[Master] = "suspend" /\ UNCHANGED <<job, m_priority>>
      BY <1>7 DEF Suspended, jobVars
    <2>2. op \in {"SuspendExecution", "AbortAll", "ExecuteToPriority"}
      BY <1>3, <2>1
    <2>3. CASE op = "SuspendExecution"
      BY <1>1, <1>7, <2>1, <2>3, ReturnCallInv DEF Suspended
    <2>4. CASE op = "AbortAll"
      <3>1. Goto(Master, "abort") /\ UNCHANGED <<op, putBack, iThread>>
        BY <1>7, <2>4 DEF Suspended, opVars
      <3> QED
        BY <1>3, <2>1, <2>4, <3>1, MovesCallInv
    <2>5. CASE op = "ExecuteToPriority"
      <3>1. Goto(Master, "drain") /\ UNCHANGED <<op, putBack, iThread>>
        BY <1>7, <2>5 DEF Suspended, opVars
      <3> QED
        BY <1>3, <2>1, <2>5, <3>1, MovesCallInv
    <2> QED
      BY <2>2, <2>3, <2>4, <2>5
  <1>8. CASE ResumeAndReturn
    BY <1>1, <1>8, ReturnCallInv DEF ResumeAndReturn, jobVars
  <1>9. CASE PopToAbort
    <2>1. pc[Master] = "abort" /\ UNCHANGED <<op, job, m_priority, putBack>>
      BY <1>9 DEF PopToAbort, opVars, jobVars
    <2>2. CASE /\ Goto(Master, "search") \/ Goto(Master, "resume")
               /\ UNCHANGED iThread
      BY <1>3, <2>1, <2>2, MovesCallInv
    <2>3. CASE iThread' = iThread + 1 /\ UNCHANGED pc /\ iThread < Len(AbortOrder)
      BY <1>3, <2>1, <2>3, OrdersAreQueues, PoolNames DEF CallInv
    <2> QED
      BY <1>9, <2>2, <2>3 DEF PopToAbort
  <1>10. CASE AbortJob
    <2>1. /\ pc[Master] = "aborting" /\ job' = [job EXCEPT ![Master] = NoJob]
          /\ m_priority' = m_priority
      BY <1>10 DEF AbortJob, PutDown
    <2>2. CASE op = "AbortAll"
      <3>1. Goto(Master, "abort") /\ UNCHANGED <<op, putBack, iThread>>
        BY <1>10, <2>2 DEF AbortJob, opVars
      <3> QED
        BY <1>2, <1>3, <2>1, <2>2, <3>1, MasterGoes
    <2>3. CASE op # "AbortAll"
      BY <1>2, <1>3, <1>10, <2>1, <2>3, ReturnCallInv DEF AbortJob
    <2> QED
      BY <2>2, <2>3
  <1>11. CASE PopToExecute
    <2>1. pc[Master] = "drain" /\ UNCHANGED <<op, job, m_priority, putBack>>
      BY <1>11 DEF PopToExecute, jobVars
    <2>2. CASE /\ Goto(Master, "search") \/ Goto(Master, "putback")
               /\ UNCHANGED iThread
      BY <1>3, <2>1, <2>2, MovesCallInv
    <2>3. CASE /\ UNCHANGED pc
               /\ (iThread' = iThread + 1 /\ iThread < Len(ExecuteOrder)) \/ iThread' = 1
      BY <1>3, <2>1, <2>3, OrdersAreQueues, PoolNames DEF CallInv
    <2> QED
      BY <1>11, <2>2, <2>3 DEF PopToExecute
  <1>12. CASE KeepJob
    <2>1. /\ pc[Master] = "keep" /\ job' = [job EXCEPT ![Master] = NoJob]
          /\ UNCHANGED <<op, m_priority, iThread>> /\ Goto(Master, "drain")
      BY <1>12 DEF KeepJob, PutDown
    <2>2. job[Master] \in Jobs
      BY <2>1 DEF CallInv
    <2>3. putBack' \in Seq(Jobs)
      BY <1>3, <1>12, <2>2 DEF KeepJob
    <2> QED
      BY <1>2, <1>3, <2>1, <2>3, MasterGoes
  <1>13. CASE PutBack
    <2>1. pc[Master] = "putback" /\ UNCHANGED <<op, job, m_priority, putBack, iThread>>
      BY <1>13 DEF PutBack, opVars
    <2>2. CASE Goto(Master, "resume")
      BY <1>3, <2>1, <2>2, MovesCallInv
    <2>3. CASE putBack # <<>> /\ Goto(Master, "count")
      BY <1>1, <1>3, <2>1, <2>3, MasterGoes
    <2> QED
      BY <1>13, <2>2, <2>3 DEF PutBack
  <1>14. CASE MasterTakeJob
    <2>1. /\ pc[Master] = "search" /\ UNCHANGED <<op, m_priority, putBack, iThread>>
      BY <1>14 DEF MasterTakeJob, opVars, jobVars
    <2>2. PICK j \in Jobs :
            /\ job' = [job EXCEPT ![Master] = j]
            /\ Goto(Master, CASE op = "AbortAll" -> "aborting"
                              [] op = "ExecuteToPriority" /\ j \notin filter -> "keep"
                              [] OTHER -> "check")
      BY <1>14 DEF MasterTakeJob
    <2>3. job' \in [Threads -> Jobs \cup {NoJob}] /\ job'[Master] \in Jobs
      BY <2>2, PoolNames DEF CallInv
    <2>4. CASE op = "AbortAll"
      <3>1. Goto(Master, "aborting")
        BY <2>2, <2>4
      <3> QED
        BY <1>3, <2>1, <2>3, <2>4, <3>1, MasterGoes
    <2>5. CASE op = "ExecuteToPriority" /\ j \notin filter
      <3>1. Goto(Master, "keep")
        BY <2>2, <2>5
      <3> QED
        BY <1>3, <2>1, <2>3, <2>5, <3>1, MasterGoes
    <2>6. CASE op # "AbortAll" /\ ~(op = "ExecuteToPriority" /\ j \notin filter)
      <3>1. Goto(Master, "check")
        BY <2>2, <2>6
      <3> QED
        BY <1>3, <2>1, <2>3, <2>6, <3>1, MasterGoes
    <2> QED
      BY <2>4, <2>5, <2>6
  <1>15. CASE Yield
    <2>1. pc[Master] = "yield" /\ UNCHANGED <<job, m_priority>>
      BY <1>15 DEF Yield, jobVars
    <2>2. CASE Return
      BY <1>1, <2>1, <2>2, ReturnCallInv
    <2>3. CASE /\ Goto(Master, "search") \/ Goto(Master, "asleep")
               /\ UNCHANGED <<op, putBack, iThread>>
      BY <1>3, <2>1, <2>3, MovesCallInv
    <2> QED
      BY <1>15, <2>2, <2>3 DEF Yield, opVars
  <1>16. CASE YieldDone
    BY <1>1, <1>16, ReturnCallInv DEF YieldDone, jobVars
  <1>17. CASE Join
    <2>1. /\ pc[Master] = "join" /\ UNCHANGED <<op, job, m_priority, putBack>>
          /\ NextThread("join", "flush")
      BY <1>17 DEF Join, opVars, jobVars
    <2> QED
      BY <1>3, <2>1, NextThreadCallInv
  <1>18. CASE Flush
    BY <1>1, <1>18, ReturnCallInv DEF Flush
  <1> HIDE DEF Labels, OpsAt, ThreadLoops
  <1> QED
    BY <1>4, <1>5, <1>6, <1>7, <1>8, <1>9, <1>10, <1>11, <1>12, <1>13, <1>14, <1>15, <1>16,
       <1>17, <1>18, ServiceCallInv DEF MasterContinues

LEMMA CallStep == CallInv /\ [PoolNext]_vars => CallInv'
  <1> SUFFICES ASSUME CallInv, [PoolNext]_vars PROVE CallInv'
    OBVIOUS
  <1>1. CASE ResumeExecution
    BY <1>1 DEF ResumeExecution, CallInv, opVars, jobVars
  <1>2. CASE UNCHANGED vars
    BY <1>2 DEF vars, CallInv, opVars, jobVars
  <1> QED
    BY <1>1, <1>2, WorkerCallInv, MasterCallsInv, MasterContinuesInv DEF PoolNext

\* In the pool, as in the queue alone, the thread with a permit finds a job.
THEOREM PoolNeverEmptyHanded == PoolSpec => []NeverEmptyHanded
  <1>1. PoolInit => JQInit
    BY DEF PoolInit
  <1>2. JQInv => NeverEmptyHanded
    BY DEF JQInv
  <1> QED
    BY <1>1, <1>2, CallInit, CallStep, QueueStep, JQInitInv, JQStepInv, PTL DEF PoolSpec
-----------------------------------------------------------------------------
LEMMA SuspendInit == PoolInit => SuspendInv
  <1> SUFFICES ASSUME PoolInit PROVE SuspendInv
    OBVIOUS
  <1>1. pc[Master] = "ready" /\ op = "none" /\ m_nSuspend = 0
    BY PoolNames DEF PoolInit
  <1>2. m_NotSuspendedEvent = [w \in Workers |-> TRUE]
    BY DEF PoolInit
  <1> QED
    BY <1>1, <1>2 DEF SuspendInv

\* A step of a worker moves no other thread, and leaves the call of the master
\* and the suspensions alone.
LEMMA WorkerMovesAlone ==
  ASSUME CallInv, NEW w \in Workers, WorkerNext(w)
  PROVE  /\ pc'[Master] = pc[Master] /\ op' = op /\ iThread' = iThread
         /\ \A v \in Workers : v # w => pc'[v] = pc[v]
         /\ m_nSuspend' = m_nSuspend
  <1>1. pc'[Master] = pc[Master] /\ op' = op /\ iThread' = iThread
    BY WorkerFrame
  <1>2. ASSUME NEW v \in Workers, v # w PROVE pc'[v] = pc[v]
    BY <1>2, PoolNames
    DEF WorkerNext, Wake, Reply, Suspend, Resumed, Exit, PopQueues, TakeJob, ServiceJob,
        Search, CheckJob, LockJob, FinishJob, ReleaseJob, Direct, Goto, CallInv
  <1>3. m_nSuspend' = m_nSuspend
    BY PoolNames
    DEF WorkerNext, Wake, Reply, Suspend, Resumed, Exit, PopQueues, TakeJob, ServiceJob,
        Search, CheckJob, LockJob, FinishJob, ReleaseJob, poolVars
  <1> QED
    BY <1>1, <1>2, <1>3

\* A worker falls asleep by resetting its event, and goes on only when the
\* event is set.
LEMMA WorkerSuspendInv ==
  ASSUME CallInv, SuspendInv, NEW w \in Workers, WorkerNext(w)
  PROVE  SuspendInv'
  <1>1. /\ pc'[Master] = pc[Master] /\ op' = op /\ iThread' = iThread
        /\ \A v \in Workers : v # w => pc'[v] = pc[v]
        /\ m_nSuspend' = m_nSuspend
    BY WorkerMovesAlone
  <1>2. CASE Suspend(w)
    <2>1. /\ m_NotSuspendedEvent' = [m_NotSuspendedEvent EXCEPT ![w] = FALSE]
          /\ pc'[w] = "suspended"
      BY <1>2, PoolNames DEF Suspend, Goto, CallInv
    <2>2. /\ m_NotSuspendedEvent' \in [Workers -> BOOLEAN]
          /\ \A v \in Workers : ~m_NotSuspendedEvent[v] => ~m_NotSuspendedEvent'[v]
          /\ \A v \in Workers : v # w => m_NotSuspendedEvent'[v] = m_NotSuspendedEvent[v]
      BY <2>1 DEF SuspendInv
    <2> QED
      BY <1>1, <2>1, <2>2, PoolNames DEF SuspendInv
  <1>3. CASE Resumed(w)
    <2>1. m_NotSuspendedEvent' = m_NotSuspendedEvent /\ m_NotSuspendedEvent[w]
      BY <1>3 DEF Resumed, workerVars
    <2> QED
      BY <1>1, <2>1, PoolNames DEF SuspendInv
  <1>4. CASE ~Suspend(w) /\ ~Resumed(w)
    <2>1. m_NotSuspendedEvent' = m_NotSuspendedEvent
      BY <1>4
      DEF WorkerNext, Wake, Reply, Exit, PopQueues, TakeJob, ServiceJob,
          Search, CheckJob, LockJob, FinishJob, ReleaseJob, workerVars
    <2>2. pc'[w] = pc[w] \/ pc[w] # "suspended"
      BY <1>4
      DEF WorkerNext, Wake, Reply, Exit, PopQueues, TakeJob, ServiceJob,
          Search, CheckJob, LockJob, FinishJob, ReleaseJob
    <2> QED
      BY <1>1, <2>1, <2>2, PoolNames DEF SuspendInv
  <1> QED
    BY <1>2, <1>3, <1>4
\* The master moves itself alone.
LEMMA MasterMovesAlone ==
  ASSUME CallInv, NEW l \in Labels, Goto(Master, l)
  PROVE  /\ pc'[Master] = l
         /\ \A w \in Workers : pc'[w] = pc[w]
  BY PoolNames DEF Goto, CallInv

\* A step of the master that leaves the events and the count alone and does
\* not begin to wait for the workers.
LEMMA QuietSuspendInv ==
  ASSUME CallInv, SuspendInv, NEW l \in Labels \ {"await", "suspend"}, Goto(Master, l),
         UNCHANGED <<m_nSuspend, m_NotSuspendedEvent>>,
         \/ op' = op /\ pc[Master] \notin {"call", "await", "suspend"}
         \/ op' \notin {"AbortAll", "ExecuteToPriority"}
         \/ l = "call"
  PROVE  SuspendInv'
  BY MasterMovesAlone DEF SuspendInv

\* The calls that do not suspend the pool.
LEMMA BeginSuspendInv ==
  ASSUME CallInv, SuspendInv, NEW n, NEW j, NEW f, NEW p,
         NEW l \in Labels \ {"await", "suspend"}, Begin(n, j, f, p, l),
         n \notin {"AbortAll", "ExecuteToPriority"} \/ l = "call",
         UNCHANGED <<m_nSuspend, m_NotSuspendedEvent>>
  PROVE  SuspendInv'
  <1>1. Goto(Master, l) /\ op' = n
    BY DEF Begin
  <1> QED
    BY <1>1, QuietSuspendInv

LEMMA MasterCallsSuspendInv ==
  ASSUME CallInv, SuspendInv, MasterCalls
  PROVE  SuspendInv'
  <1> USE DEF Labels
  <1>1. ASSUME NEW j \in Jobs, AddJob(j) PROVE SuspendInv'
    <2>1. /\ UNCHANGED <<m_nSuspend, m_NotSuspendedEvent>>
          /\ \/ Begin("AddJob", j, {}, JP_LOW, "check")
             \/ Begin("AddJob", j, {}, JP_LOW, "count")
      BY <1>1 DEF AddJob, poolVars, workerVars
    <2> QED
      BY <2>1, BeginSuspendInv
  <1>2. ASSUME NEW j \in Jobs, NEW p \in Priorities, ChangePriority(j, p) PROVE SuspendInv'
    <2>1. /\ UNCHANGED <<m_nSuspend, m_NotSuspendedEvent>>
          /\ Begin("ChangePriority", j, {}, JP_LOW, "count")
      BY <1>2 DEF ChangePriority, poolVars, workerVars
    <2> QED
      BY <2>1, BeginSuspendInv
  <1>3. ASSUME NEW j \in Jobs,
               \/ YieldWait(j)
               \/ OwnerCall("Execute", j, "check") \/ OwnerCall("Abort", j, "aborting")
        PROVE  SuspendInv'
    <2>1. /\ UNCHANGED <<m_nSuspend, m_NotSuspendedEvent>>
          /\ \/ Begin("YieldWait", j, {}, JP_LOW, "yield")
             \/ Begin("Execute", j, {}, JP_LOW, "check")
             \/ Begin("Abort", j, {}, JP_LOW, "aborting")
      BY <1>3 DEF YieldWait, OwnerCall, poolVars, workerVars
    <2> QED
      BY <2>1, BeginSuspendInv
  <1>4. ASSUME NEW n, NEW f, NEW p, Begin(n, NoJob, f, p, SuspendFirst),
               UNCHANGED <<m_nSuspend, m_NotSuspendedEvent>>
        PROVE  SuspendInv'
    <2>1. CASE m_nSuspend = 0
      BY <1>4, <2>1, BeginSuspendInv DEF SuspendFirst
    <2>2. CASE m_nSuspend # 0
      <3>1. Goto(Master, "suspend")
        BY <1>4, <2>2 DEF SuspendFirst, Begin
      <3>2. pc'[Master] = "suspend" /\ \A w \in Workers : pc'[w] = pc[w]
        BY <3>1, MasterMovesAlone
      <3>3. \A w \in Workers : ~m_NotSuspendedEvent[w]
        BY <2>2 DEF SuspendInv
      <3> QED
        BY <1>4, <3>2, <3>3 DEF SuspendInv
    <2> QED
      BY <2>1, <2>2
  <1>5. ASSUME NEW p \in Priorities, NEW f, ExecuteToPriority(p, f) PROVE SuspendInv'
    BY <1>4, <1>5 DEF ExecuteToPriority, poolVars, workerVars
  <1>6. CASE SuspendExecution \/ AbortAll
    BY <1>4, <1>6 DEF SuspendExecution, AbortAll, poolVars, workerVars
  <1>7. CASE Stop
    BY <1>7, BeginSuspendInv DEF Stop, poolVars, workerVars
  <1> HIDE DEF Labels
  <1> QED
    BY <1>1, <1>2, <1>3, <1>5, <1>6, <1>7 DEF MasterCalls

\* The last ResumeExecution wakes all workers, the others none.
LEMMA ResumeEvents ==
  ASSUME SuspendInv, Resume, m_nSuspend > 0
  PROVE  /\ m_nSuspend' \in Nat
         /\ m_NotSuspendedEvent' \in [Workers -> BOOLEAN]
         /\ \A w \in Workers : ~m_NotSuspendedEvent'[w] => ~m_NotSuspendedEvent[w]
         /\ m_nSuspend' > 0 => \A w \in Workers : ~m_NotSuspendedEvent'[w]
  <1>1. CASE m_nSuspend = 1
    BY <1>1 DEF Resume, SuspendInv
  <1>2. CASE m_nSuspend # 1
    BY <1>2 DEF Resume, SuspendInv
  <1> QED
    BY <1>1, <1>2
\* SuspendExecution has seen that the threads before iThread sleep; the last
\* one makes it go on.
LEMMA AwaitSuspendInv ==
  ASSUME CallInv, SuspendInv, AwaitSuspended
  PROVE  SuspendInv'
  <1>1. /\ pc[Master] = "await" /\ ~m_NotSuspendedEvent[m_Threads[iThread]]
        /\ UNCHANGED <<m_nSuspend, m_NotSuspendedEvent, op>>
        /\ NextThread("await", "suspend")
    BY DEF AwaitSuspended, IsSuspended, workerVars, opVars, poolVars
  <1>2. \A k \in 1..Len(m_Threads) : k <= iThread => ~m_NotSuspendedEvent[m_Threads[k]]
    <2>1. \A k \in 1..Len(m_Threads) : k < iThread => ~m_NotSuspendedEvent[m_Threads[k]]
      BY <1>1 DEF SuspendInv
    <2>2. iThread \in Nat
      BY PoolNames DEF CallInv
    <2> QED
      BY <1>1, <2>1, <2>2, PoolNames
  <1>3. CASE iThread = Len(m_Threads)
    <2>1. Goto(Master, "suspend") /\ "suspend" \in Labels
      BY <1>1, <1>3 DEF NextThread, Labels
    <2>2. pc'[Master] = "suspend" /\ \A w \in Workers : pc'[w] = pc[w]
      BY <2>1, MasterMovesAlone
    <2>3. \A w \in Workers : ~m_NotSuspendedEvent[w]
      BY <1>2, <1>3, PoolNames
    <2> QED
      BY <1>1, <2>2, <2>3 DEF SuspendInv
  <1>4. CASE iThread # Len(m_Threads)
    <2>1. Goto(Master, "await") /\ "await" \in Labels /\ iThread' = iThread + 1
      BY <1>1, <1>4 DEF NextThread, Labels
    <2>2. pc'[Master] = "await" /\ \A w \in Workers : pc'[w] = pc[w]
      BY <2>1, MasterMovesAlone
    <2>3. \A k \in 1..Len(m_Threads) : k < iThread' => k <= iThread
      BY <2>1, PoolNames DEF CallInv
    <2> QED
      BY <1>1, <1>2, <2>2, <2>3 DEF SuspendInv
  <1> QED
    BY <1>3, <1>4

LEMMA MasterContinuesSuspendInv ==
  ASSUME CallInv, SuspendInv, MasterContinues
  PROVE  SuspendInv'
  <1>1. op \in OpsAt(pc[Master])
    BY DEF CallInv
  <1> USE DEF Labels
  <1>2. ASSUME Return, UNCHANGED <<m_nSuspend, m_NotSuspendedEvent>> PROVE SuspendInv'
    BY <1>2, QuietSuspendInv DEF Return
  <1>3. ASSUME UNCHANGED <<m_nSuspend, m_NotSuspendedEvent, pc, op>>, pc[Master] # "await"
        PROVE  SuspendInv'
    BY <1>3 DEF SuspendInv
  <1>4. CASE Count
    <2>1. /\ UNCHANGED <<m_nSuspend, m_NotSuspendedEvent>> /\ pc[Master] = "count"
          /\ Return \/ (Goto(Master, "putback") /\ op' = op)
      BY <1>4 DEF Count, workerVars
    <2> QED
      BY <1>2, <2>1, QuietSuspendInv
  <1>5. CASE CallWorker
    <2>1. /\ UNCHANGED <<m_nSuspend, m_NotSuspendedEvent, op>> /\ pc[Master] = "call"
          /\ NextThread("call", IF op = "Stop" THEN "join" ELSE "await")
      BY <1>5 DEF CallWorker, opVars, poolVars
    <2>2. CASE Goto(Master, "call")
      BY <2>1, <2>2, QuietSuspendInv
    <2>3. CASE Goto(Master, "join") /\ op = "Stop"
      BY <2>1, <2>3, QuietSuspendInv
    <2>4. CASE Goto(Master, "await") /\ iThread' = 1
      <3>1. pc'[Master] = "await" /\ \A w \in Workers : pc'[w] = pc[w]
        BY <2>4, MasterMovesAlone
      <3> QED
        BY <2>1, <2>4, <3>1 DEF SuspendInv
    <2> QED
      BY <2>1, <2>2, <2>3, <2>4 DEF NextThread
  <1>6. CASE Suspended
    <2>1. /\ pc[Master] = "suspend" /\ m_nSuspend' = m_nSuspend + 1
          /\ UNCHANGED m_NotSuspendedEvent
      BY <1>6 DEF Suspended, workerVars
    <2>2. /\ m_nSuspend' \in Nat /\ m_nSuspend' > 0
          /\ \A w \in Workers : ~m_NotSuspendedEvent'[w]
      BY <2>1 DEF SuspendInv
    <2>3. PICK l \in {"ready", "abort", "drain"} : Goto(Master, l)
      BY <1>6 DEF Suspended, Return
    <2>4. pc'[Master] = l /\ \A w \in Workers : pc'[w] = pc[w]
      BY <2>3, MasterMovesAlone
    <2> QED
      BY <2>1, <2>2, <2>4 DEF SuspendInv
  <1>7. CASE ResumeAndReturn
    <2>1. pc[Master] = "resume" /\ Resume /\ Return
      BY <1>7 DEF ResumeAndReturn
    <2>2. m_nSuspend > 0
      BY <1>1, <2>1 DEF OpsAt, SuspendInv
    <2>3. Goto(Master, "ready") /\ op' = "none"
      BY <2>1 DEF Return
    <2>4. pc'[Master] = "ready" /\ \A w \in Workers : pc'[w] = pc[w]
      BY <2>3, MasterMovesAlone
    <2> QED
      BY <2>1, <2>2, <2>3, <2>4, ResumeEvents DEF SuspendInv
  <1>8. CASE PopToAbort
    <2>1. /\ UNCHANGED <<m_nSuspend, m_NotSuspendedEvent, op>> /\ pc[Master] = "abort"
          /\ Goto(Master, "search") \/ Goto(Master, "resume") \/ UNCHANGED pc
      BY <1>8 DEF PopToAbort, workerVars, opVars
    <2> QED
      BY <1>3, <2>1, QuietSuspendInv
  <1>9. CASE AbortJob
    <2>1. /\ UNCHANGED <<m_nSuspend, m_NotSuspendedEvent>> /\ pc[Master] = "aborting"
          /\ Return \/ (Goto(Master, "abort") /\ op' = op)
      BY <1>9 DEF AbortJob, workerVars, opVars, poolVars
    <2> QED
      BY <1>2, <2>1, QuietSuspendInv
  <1>10. CASE PopToExecute
    <2>1. /\ UNCHANGED <<m_nSuspend, m_NotSuspendedEvent, op>> /\ pc[Master] = "drain"
          /\ Goto(Master, "search") \/ Goto(Master, "putback") \/ UNCHANGED pc
      BY <1>10 DEF PopToExecute, workerVars, poolVars
    <2> QED
      BY <1>3, <2>1, QuietSuspendInv
  <1>11. CASE KeepJob
    <2>1. /\ UNCHANGED <<m_nSuspend, m_NotSuspendedEvent, op>> /\ pc[Master] = "keep"
          /\ Goto(Master, "drain")
      BY <1>11 DEF KeepJob, workerVars
    <2> QED
      BY <2>1, QuietSuspendInv
  <1>12. CASE PutBack
    <2>1. /\ UNCHANGED <<m_nSuspend, m_NotSuspendedEvent, op>> /\ pc[Master] = "putback"
          /\ Goto(Master, "resume") \/ Goto(Master, "count")
      BY <1>12 DEF PutBack, workerVars, opVars, poolVars
    <2> QED
      BY <2>1, QuietSuspendInv
  <1>13. CASE MasterTakeJob
    <2>1. UNCHANGED <<m_nSuspend, m_NotSuspendedEvent, op>> /\ pc[Master] = "search"
      BY <1>13 DEF MasterTakeJob, workerVars, opVars, poolVars
    <2>2. PICK l \in {"aborting", "keep", "check"} : Goto(Master, l)
      <3>1. PICK j \in Jobs :
              Goto(Master, CASE op = "AbortAll" -> "aborting"
                             [] op = "ExecuteToPriority" /\ j \notin filter -> "keep"
                             [] OTHER -> "check")
        BY <1>13 DEF MasterTakeJob
      <3> QED
        BY <3>1
    <2> QED
      BY <2>1, <2>2, QuietSuspendInv
  <1>14. CASE Yield \/ YieldDone
    <2>1. /\ UNCHANGED <<m_nSuspend, m_NotSuspendedEvent>> /\ pc[Master] \in {"yield", "asleep"}
          /\ Return \/ ((Goto(Master, "search") \/ Goto(Master, "asleep")) /\ op' = op)
      BY <1>14 DEF Yield, YieldDone, workerVars, opVars, poolVars
    <2> QED
      BY <1>2, <2>1, QuietSuspendInv
  <1>15. CASE Join
    <2>1. /\ UNCHANGED <<m_nSuspend, m_NotSuspendedEvent, op>> /\ pc[Master] = "join"
          /\ Goto(Master, "join") \/ Goto(Master, "flush")
      BY <1>15 DEF Join, NextThread, workerVars, opVars, poolVars
    <2> QED
      BY <2>1, QuietSuspendInv
  <1>16. CASE Flush
    BY <1>2, <1>16 DEF Flush, workerVars
  <1>17. CASE ServiceJob(Master)
    <2>1. CASE Search(Master)
      BY <1>3, <2>1 DEF Search, workerVars, opVars, poolVars
    <2>2. CASE CheckJob(Master) \/ LockJob(Master) \/ FinishJob(Master)
      <3>1. /\ UNCHANGED <<m_nSuspend, m_NotSuspendedEvent, op>>
            /\ pc[Master] \in {"check", "lock", "run"}
            /\ Goto(Master, "release") \/ Goto(Master, "lock") \/ Goto(Master, "run")
        BY <2>2 DEF CheckJob, LockJob, FinishJob, workerVars, opVars, poolVars
      <3> QED
        BY <3>1, QuietSuspendInv
    <2>3. CASE ReleaseJob(Master)
      <3>1. UNCHANGED <<m_nSuspend, m_NotSuspendedEvent>> /\ pc[Master] = "release"
        BY <2>3 DEF ReleaseJob
      <3>2. CASE Direct(Master)
        BY <1>2, <2>3, <3>1, <3>2 DEF ReleaseJob
      <3>3. CASE ~Direct(Master)
        <4>1. op' = op /\ (Goto(Master, "yield") \/ Goto(Master, "drain"))
          BY <2>3, <3>3, PoolAssumption DEF ReleaseJob, opVars
        <4> QED
          BY <3>1, <4>1, QuietSuspendInv
      <3> QED
        BY <3>2, <3>3
    <2> QED
      BY <1>17, <2>1, <2>2, <2>3 DEF ServiceJob
  <1> HIDE DEF Labels
  <1> QED
    BY <1>4, <1>5, <1>6, <1>7, <1>8, <1>9, <1>10, <1>11, <1>12, <1>13, <1>14, <1>15, <1>16,
       <1>17, AwaitSuspendInv DEF MasterContinues

LEMMA SuspendStep == CallInv /\ SuspendInv /\ [PoolNext]_vars => SuspendInv'
  <1> SUFFICES ASSUME CallInv, SuspendInv, [PoolNext]_vars PROVE SuspendInv'
    OBVIOUS
  <1>1. CASE ResumeExecution
    <2>1. /\ pc[Master] = "ready" /\ m_nSuspend > 0 /\ Resume /\ UNCHANGED <<pc, op>>
      BY <1>1 DEF ResumeExecution, opVars
    <2>2. op = "none"
      BY <2>1 DEF CallInv, OpsAt
    <2> QED
      BY <2>1, <2>2, ResumeEvents DEF SuspendInv
  <1>2. CASE UNCHANGED vars
    BY <1>2 DEF vars, SuspendInv, workerVars, opVars, poolVars
  <1> QED
    BY <1>1, <1>2, WorkerSuspendInv, MasterCallsSuspendInv, MasterContinuesSuspendInv
    DEF PoolNext

\* While SuspendExecution counts the pool as suspended, in nested calls and
\* during AbortAll and ExecuteToPriority, every worker sleeps.
THEOREM SuspendedMeansIdleThm == PoolSpec => []SuspendedMeansIdle
  <1>1. SuspendInv => SuspendedMeansIdle
    BY DEF SuspendInv, SuspendedMeansIdle
  <1> QED
    BY <1>1, CallInit, CallStep, SuspendInit, SuspendStep, PTL DEF PoolSpec

-----------------------------------------------------------------------------
\* The labels between the beginning of SuspendExecution or Stop and the
\* moment at which the pool counts as suspended.
CallLabels == {"call", "await", "suspend"}

\* A worker that will fall asleep: it is called, or has just answered.
WillSleep(w) == m_EventSend[w] = "TPM_SUSPEND" \/ pc[w] = "replied"

\* The master is calling the workers, or waits until they sleep.
CallsToSleep == pc[Master] \in {"call", "await"} /\ op # "Stop"

\* When a worker falls asleep, and why it may sleep.
Awake(w) ==
  /\ pc[w] = "called" => m_EventSend[w] # "none"
  /\ pc[w] = "replied" => m_EventSend[w] = "none"
  /\ WillSleep(w) => CallsToSleep /\ m_NotSuspendedEvent[w]
  /\ ~m_NotSuspendedEvent[w] => m_nSuspend > 0 \/ (pc[Master] \in CallLabels /\ op # "Stop")

\* The workers that are still to be called are awake.
AwakeUntilCalled ==
  pc[Master] = "call" =>
    \A k \in 1..Len(m_Threads) :
      k >= iThread => m_NotSuspendedEvent[m_Threads[k]] /\ ~WillSleep(m_Threads[k])

\* Who is to fall asleep, and who may be asleep.
AwakeInv ==
  /\ m_EventSend \in [Workers -> {"none", "TPM_EXIT", "TPM_SUSPEND"}]
  /\ \A w \in Workers : Awake(w)
  /\ AwakeUntilCalled
-----------------------------------------------------------------------------
LEMMA AwakeInit == PoolInit => AwakeInv
  <1> SUFFICES ASSUME PoolInit PROVE AwakeInv
    OBVIOUS
  <1>1. pc[Master] = "ready" /\ \A w \in Workers : pc[w] = "wait"
    BY PoolNames DEF PoolInit
  <1>2. /\ m_EventSend = [w \in Workers |-> "none"]
        /\ m_NotSuspendedEvent = [w \in Workers |-> TRUE]
    BY DEF PoolInit
  <1> QED
    BY <1>1, <1>2 DEF AwakeInv, Awake, AwakeUntilCalled, WillSleep, CallsToSleep

LEMMA WorkerAwakeInv ==
  ASSUME CallInv, SuspendInv, AwakeInv, NEW w \in Workers, WorkerNext(w)
  PROVE  AwakeInv'
  <1>1. /\ pc'[Master] = pc[Master] /\ op' = op /\ iThread' = iThread
        /\ \A v \in Workers : v # w => pc'[v] = pc[v]
        /\ m_nSuspend' = m_nSuspend
    BY WorkerMovesAlone
  <1>2. CallsToSleep' <=> CallsToSleep
    BY <1>1 DEF CallsToSleep
  <1>3. ASSUME /\ m_EventSend' \in [Workers -> {"none", "TPM_EXIT", "TPM_SUSPEND"}]
               /\ \A v \in Workers : v # w =>
                    /\ m_EventSend'[v] = m_EventSend[v]
                    /\ m_NotSuspendedEvent'[v] = m_NotSuspendedEvent[v],
               WillSleep(w)' => WillSleep(w),
               ~m_NotSuspendedEvent'[w] => ~m_NotSuspendedEvent[w] \/ CallsToSleep,
               pc[Master] = "call" /\ ~WillSleep(w) =>
                 m_NotSuspendedEvent'[w] = m_NotSuspendedEvent[w],
               Awake(w)'
        PROVE  AwakeInv'
    <2>1. \A v \in Workers : v # w =>
            /\ pc'[v] = pc[v] /\ m_EventSend'[v] = m_EventSend[v]
            /\ m_NotSuspendedEvent'[v] = m_NotSuspendedEvent[v]
      BY <1>1, <1>3
    <2>2. \A v \in Workers : v # w => (WillSleep(v)' <=> WillSleep(v))
      BY <2>1 DEF WillSleep
    <2>3. ASSUME NEW v \in Workers PROVE Awake(v)'
      <3>1. CASE v = w
        BY <1>3, <3>1
      <3>2. CASE v # w
        BY <1>1, <1>2, <2>1, <2>2, <3>2 DEF AwakeInv, Awake
      <3> QED
        BY <3>1, <3>2
    <2>4. AwakeUntilCalled'
      <3> SUFFICES ASSUME pc[Master] = "call", NEW k \in 1..Len(m_Threads), k >= iThread
                   PROVE  m_NotSuspendedEvent'[m_Threads[k]] /\ ~WillSleep(m_Threads[k])'
        BY <1>1 DEF AwakeUntilCalled
      <3>1. m_NotSuspendedEvent[m_Threads[k]] /\ ~WillSleep(m_Threads[k])
        BY DEF AwakeInv, AwakeUntilCalled
      <3>2. m_Threads[k] \in Workers
        BY PoolNames
      <3>3. CASE m_Threads[k] = w
        BY <1>3, <3>1, <3>3
      <3>4. CASE m_Threads[k] # w
        BY <2>1, <2>2, <3>1, <3>2, <3>4
      <3> QED
        BY <3>3, <3>4
    <2> QED
      BY <1>3, <2>3, <2>4 DEF AwakeInv
  <1>4. Awake(w) /\ m_EventSend \in [Workers -> {"none", "TPM_EXIT", "TPM_SUSPEND"}]
    BY DEF AwakeInv
  <1>5. CASE Wake(w)
    <2>1. /\ pc'[w] = IF m_EventSend[w] # "none" THEN "called" ELSE "direct"
          /\ UNCHANGED <<m_EventSend, m_NotSuspendedEvent>>
      BY <1>5, PoolNames DEF Wake, Goto, CallInv, workerVars
    <2>2. WillSleep(w)' => WillSleep(w)
      BY <2>1 DEF WillSleep
    <2>3. Awake(w)'
      BY <1>1, <1>2, <1>4, <2>1, <2>2 DEF Awake
    <2> QED
      BY <1>3, <1>4, <2>1, <2>2, <2>3
  <1>6. CASE Reply(w)
    <2>1. /\ pc[w] = "called"
          /\ pc'[w] = IF m_EventSend[w] = "TPM_EXIT" THEN "exiting" ELSE "replied"
          /\ m_EventSend' = [m_EventSend EXCEPT ![w] = "none"]
          /\ UNCHANGED m_NotSuspendedEvent
      BY <1>6, PoolNames DEF Reply, Goto, CallInv
    <2>2. /\ m_EventSend' \in [Workers -> {"none", "TPM_EXIT", "TPM_SUSPEND"}]
          /\ m_EventSend'[w] = "none"
          /\ \A v \in Workers : v # w => m_EventSend'[v] = m_EventSend[v]
      BY <1>4, <2>1
    <2>3. pc'[w] = "replied" => m_EventSend[w] = "TPM_SUSPEND"
      BY <1>4, <2>1 DEF Awake
    <2>4. WillSleep(w)' => WillSleep(w)
      BY <2>2, <2>3 DEF WillSleep
    <2>5. Awake(w)'
      BY <1>1, <1>2, <1>4, <2>1, <2>2, <2>4 DEF Awake
    <2> QED
      BY <1>3, <2>1, <2>2, <2>4, <2>5
  <1>7. CASE Suspend(w)
    <2>1. /\ pc[w] = "replied" /\ pc'[w] = "suspended"
          /\ m_NotSuspendedEvent' = [m_NotSuspendedEvent EXCEPT ![w] = FALSE]
          /\ UNCHANGED m_EventSend
      BY <1>7, PoolNames DEF Suspend, Goto, CallInv
    <2>2. WillSleep(w) /\ CallsToSleep /\ ~WillSleep(w)'
      BY <1>4, <2>1 DEF Awake, WillSleep
    <2>3. \A v \in Workers : v # w => m_NotSuspendedEvent'[v] = m_NotSuspendedEvent[v]
      BY <2>1 DEF SuspendInv
    <2>4. Awake(w)'
      BY <1>1, <2>1, <2>2 DEF Awake, CallsToSleep, CallLabels
    <2> QED
      BY <1>3, <1>4, <2>1, <2>2, <2>3, <2>4
  <1>8. CASE ~Wake(w) /\ ~Reply(w) /\ ~Suspend(w)
    <2>1. UNCHANGED <<m_EventSend, m_NotSuspendedEvent>>
      BY <1>8
      DEF WorkerNext, Resumed, Exit, PopQueues, TakeJob, ServiceJob,
          Search, CheckJob, LockJob, FinishJob, ReleaseJob, workerVars
    <2>2. pc'[w] = pc[w] \/ pc'[w] \notin {"called", "replied"}
      BY <1>8, PoolNames
      DEF WorkerNext, Resumed, Exit, PopQueues, TakeJob, ServiceJob,
          Search, CheckJob, LockJob, FinishJob, ReleaseJob, Direct, Goto, CallInv
    <2>3. WillSleep(w)' => WillSleep(w)
      BY <2>1, <2>2 DEF WillSleep
    <2>4. Awake(w)'
      BY <1>1, <1>2, <1>4, <2>1, <2>2, <2>3 DEF Awake
    <2> QED
      BY <1>3, <1>4, <2>1, <2>3, <2>4
  <1> QED
    BY <1>5, <1>6, <1>7, <1>8

\* A step of the master that calls, wakes and waits for nobody.
LeavesWorkersAlone ==
  /\ pc[Master] \notin CallLabels /\ pc'[Master] \notin CallLabels
  /\ \A w \in Workers : pc'[w] = pc[w]
  /\ UNCHANGED <<m_EventSend, m_NotSuspendedEvent, m_nSuspend>>

LEMMA MovesLeaveAlone ==
  ASSUME CallInv, NEW l \in Labels \ CallLabels, Goto(Master, l), pc[Master] \notin CallLabels,
         UNCHANGED <<m_EventSend, m_NotSuspendedEvent, m_nSuspend>>
  PROVE  LeavesWorkersAlone
  BY MasterMovesAlone DEF LeavesWorkersAlone

\* Most steps of a call are of that kind.
LEMMA MasterLeavesAlone ==
  ASSUME CallInv, MasterContinues
  PROVE  CallWorker \/ AwaitSuspended \/ Suspended \/ ResumeAndReturn \/ LeavesWorkersAlone
  <1> USE DEF Labels, CallLabels
  <1>1. ASSUME UNCHANGED <<m_EventSend, m_NotSuspendedEvent, m_nSuspend, pc>>,
               pc[Master] \notin CallLabels
        PROVE  LeavesWorkersAlone
    BY <1>1 DEF LeavesWorkersAlone
  <1>2. CASE Count \/ KeepJob \/ Yield \/ YieldDone \/ Flush
    <2>1. /\ UNCHANGED <<m_EventSend, m_NotSuspendedEvent, m_nSuspend>>
          /\ pc[Master] \in {"count", "keep", "yield", "asleep", "flush"}
      BY <1>2 DEF Count, KeepJob, Yield, YieldDone, Flush, workerVars, poolVars
    <2>2. PICK l \in {"putback", "ready", "drain", "search", "asleep"} : Goto(Master, l)
      BY <1>2 DEF Count, KeepJob, Yield, YieldDone, Flush, Return
    <2> QED
      BY <2>1, <2>2, MovesLeaveAlone
  <1>3. CASE PopToAbort \/ PopToExecute
    <2>1. /\ UNCHANGED <<m_EventSend, m_NotSuspendedEvent, m_nSuspend>>
          /\ pc[Master] \in {"abort", "drain"}
      BY <1>3 DEF PopToAbort, PopToExecute, workerVars, poolVars
    <2>2. \/ \E l \in {"search", "resume", "putback"} : Goto(Master, l)
          \/ UNCHANGED pc
      BY <1>3 DEF PopToAbort, PopToExecute
    <2> QED
      BY <1>1, <2>1, <2>2, MovesLeaveAlone
  <1>4. CASE AbortJob \/ PutBack
    <2>1. /\ UNCHANGED <<m_EventSend, m_NotSuspendedEvent, m_nSuspend>>
          /\ pc[Master] \in {"aborting", "putback"}
      BY <1>4 DEF AbortJob, PutBack, workerVars, poolVars
    <2>2. PICK l \in {"ready", "abort", "resume", "count"} : Goto(Master, l)
      BY <1>4 DEF AbortJob, PutBack, Return
    <2> QED
      BY <2>1, <2>2, MovesLeaveAlone
  <1>5. CASE MasterTakeJob
    <2>1. UNCHANGED <<m_EventSend, m_NotSuspendedEvent, m_nSuspend>> /\ pc[Master] = "search"
      BY <1>5 DEF MasterTakeJob, workerVars, poolVars
    <2>2. PICK j \in Jobs :
            Goto(Master, CASE op = "AbortAll" -> "aborting"
                           [] op = "ExecuteToPriority" /\ j \notin filter -> "keep"
                           [] OTHER -> "check")
      BY <1>5 DEF MasterTakeJob
    <2>3. PICK l \in {"aborting", "keep", "check"} : Goto(Master, l)
      BY <2>2
    <2> QED
      BY <2>1, <2>3, MovesLeaveAlone
  <1>6. CASE Join
    <2>1. UNCHANGED <<m_EventSend, m_NotSuspendedEvent, m_nSuspend>> /\ pc[Master] = "join"
      BY <1>6 DEF Join, workerVars, poolVars
    <2>2. Goto(Master, "join") \/ Goto(Master, "flush")
      BY <1>6 DEF Join, NextThread
    <2> QED
      BY <2>1, <2>2, MovesLeaveAlone
  <1>7. CASE Search(Master) \/ CheckJob(Master) \/ LockJob(Master) \/ FinishJob(Master)
    <2>1. /\ UNCHANGED <<m_EventSend, m_NotSuspendedEvent, m_nSuspend>>
          /\ pc[Master] \in {"search", "check", "lock", "run"}
      BY <1>7 DEF Search, CheckJob, LockJob, FinishJob, workerVars, poolVars
    <2>2. \/ \E l \in {"release", "lock", "run"} : Goto(Master, l)
          \/ UNCHANGED pc
      BY <1>7 DEF Search, CheckJob, LockJob, FinishJob
    <2> QED
      BY <1>1, <2>1, <2>2, MovesLeaveAlone
  <1>8. CASE ReleaseJob(Master)
    <2>1. UNCHANGED <<m_EventSend, m_NotSuspendedEvent, m_nSuspend>> /\ pc[Master] = "release"
      BY <1>8 DEF ReleaseJob
    <2>2. \E l \in {"ready", "yield", "drain"} : Goto(Master, l)
      BY <1>8, PoolAssumption DEF ReleaseJob, Return
    <2> QED
      BY <2>1, <2>2, MovesLeaveAlone
  <1> HIDE DEF Labels, CallLabels
  <1> QED
    BY <1>2, <1>3, <1>4, <1>5, <1>6, <1>7, <1>8 DEF MasterContinues, ServiceJob

LEMMA AloneAwakeInv ==
  ASSUME AwakeInv, LeavesWorkersAlone
  PROVE  AwakeInv'
  <1>1. pc'[Master] # "call" /\ ~CallsToSleep
    BY DEF LeavesWorkersAlone, CallLabels, CallsToSleep
  <1>2. ASSUME NEW w \in Workers PROVE Awake(w)'
    <2>1. Awake(w) /\ pc'[w] = pc[w] /\ UNCHANGED <<m_EventSend, m_NotSuspendedEvent, m_nSuspend>>
      BY DEF AwakeInv, LeavesWorkersAlone
    <2>2. (WillSleep(w)' <=> WillSleep(w)) /\ ~WillSleep(w)
      BY <1>1, <2>1 DEF WillSleep, Awake
    <2> QED
      BY <2>1, <2>2 DEF Awake, LeavesWorkersAlone
  <1> QED
    BY <1>1, <1>2 DEF AwakeInv, AwakeUntilCalled, LeavesWorkersAlone

\* A call that suspends the workers or stops them finds them awake, or all asleep.
LEMMA BeginAwakeInv ==
  ASSUME CallInv, SuspendInv, AwakeInv, NEW n, NEW f, NEW p, NEW l \in {"call", "suspend"},
         Begin(n, NoJob, f, p, l), l = "call" <=> m_nSuspend = 0,
         n = "Stop" => l = "call",
         UNCHANGED <<m_EventSend, m_NotSuspendedEvent, m_nSuspend>>
  PROVE  AwakeInv'
  <1>1. pc[Master] = "ready" /\ Goto(Master, l) /\ op' = n
    BY DEF Begin
  <1>2. pc'[Master] = l /\ \A w \in Workers : pc'[w] = pc[w]
    BY <1>1, MasterMovesAlone DEF Labels
  <1>3. \A w \in Workers : ~WillSleep(w) /\ (WillSleep(w)' <=> WillSleep(w))
    BY <1>1, <1>2 DEF AwakeInv, Awake, CallsToSleep, WillSleep
  <1>4. m_nSuspend = 0 => \A w \in Workers : m_NotSuspendedEvent[w]
    BY <1>1 DEF AwakeInv, Awake, CallLabels
  <1>5. m_nSuspend # 0 => m_nSuspend > 0
    BY DEF SuspendInv
  <1>6. ASSUME NEW w \in Workers PROVE Awake(w)'
    <2>1. Awake(w)
      BY DEF AwakeInv
    <2> QED
      BY <1>2, <1>3, <1>4, <1>5, <2>1 DEF Awake
  <1>7. AwakeUntilCalled'
    BY <1>2, <1>3, <1>4, PoolNames DEF AwakeUntilCalled
  <1> QED
    BY <1>6, <1>7 DEF AwakeInv

LEMMA MasterCallsAwakeInv ==
  ASSUME CallInv, SuspendInv, AwakeInv, MasterCalls
  PROVE  AwakeInv'
  <1>1. ASSUME NEW n, NEW j, NEW f, NEW p, NEW l \in Labels \ CallLabels, Begin(n, j, f, p, l),
               UNCHANGED <<m_EventSend, m_NotSuspendedEvent, m_nSuspend>>
        PROVE  AwakeInv'
    <2>1. pc[Master] = "ready" /\ Goto(Master, l)
      BY <1>1 DEF Begin
    <2> QED
      BY <1>1, <2>1, MovesLeaveAlone, AloneAwakeInv DEF CallLabels
  <1>2. ASSUME NEW j \in Jobs, NEW p \in Priorities,
               \/ AddJob(j) \/ YieldWait(j) \/ ChangePriority(j, p)
               \/ OwnerCall("Execute", j, "check") \/ OwnerCall("Abort", j, "aborting")
        PROVE  AwakeInv'
    <2>1. /\ UNCHANGED <<m_EventSend, m_NotSuspendedEvent, m_nSuspend>>
          /\ \E n, l \in {"AddJob", "YieldWait", "ChangePriority", "Execute", "Abort", "check",
                          "count", "yield", "aborting"} :
               l \in {"check", "count", "yield", "aborting"} /\ Begin(n, j, {}, JP_LOW, l)
      BY <1>2 DEF AddJob, YieldWait, ChangePriority, OwnerCall, workerVars, poolVars
    <2> QED
      BY <1>1, <2>1 DEF Labels, CallLabels
  <1>3. ASSUME NEW n \in {"SuspendExecution", "AbortAll", "ExecuteToPriority"},
               NEW f, NEW p, Begin(n, NoJob, f, p, SuspendFirst),
               UNCHANGED <<m_EventSend, m_NotSuspendedEvent, m_nSuspend>>
        PROVE  AwakeInv'
    <2>1. CASE m_nSuspend = 0
      BY <1>3, <2>1, BeginAwakeInv DEF SuspendFirst
    <2>2. CASE m_nSuspend # 0
      BY <1>3, <2>2, BeginAwakeInv DEF SuspendFirst
    <2> QED
      BY <2>1, <2>2
  <1>4. ASSUME NEW p \in Priorities, NEW f, ExecuteToPriority(p, f) PROVE AwakeInv'
    BY <1>3, <1>4 DEF ExecuteToPriority, workerVars, poolVars
  <1>5. CASE SuspendExecution \/ AbortAll
    BY <1>3, <1>5 DEF SuspendExecution, AbortAll, workerVars, poolVars
  <1>6. CASE Stop
    <2>1. /\ Begin("Stop", NoJob, {}, JP_LOW, "call") /\ m_nSuspend = 0
          /\ UNCHANGED <<m_EventSend, m_NotSuspendedEvent, m_nSuspend>>
      BY <1>6 DEF Stop, workerVars, poolVars
    <2> QED
      BY <2>1, BeginAwakeInv
  <1>7. JP_LOW \in Priorities
    BY DEF Priorities
  <1> QED
    BY <1>2, <1>4, <1>5, <1>6, <1>7 DEF MasterCalls

\* SuspendExecution and Stop call one worker after the other.
LEMMA CallWorkerAwakeInv ==
  ASSUME CallInv, AwakeInv, CallWorker
  PROVE  AwakeInv'
  <1> DEFINE v == m_Threads[iThread]
             m == IF op = "Stop" THEN "TPM_EXIT" ELSE "TPM_SUSPEND"
  <1>1. /\ pc[Master] = "call" /\ m_EventSend' = [m_EventSend EXCEPT ![v] = m]
        /\ UNCHANGED <<m_NotSuspendedEvent, m_nSuspend, op>>
        /\ NextThread("call", IF op = "Stop" THEN "join" ELSE "await")
    BY DEF CallWorker, opVars, poolVars
  <1>2. iThread \in 1..Len(m_Threads) /\ v \in Workers
    BY <1>1, PoolNames DEF CallInv, ThreadLoops
  <1>3. /\ m_EventSend' \in [Workers -> {"none", "TPM_EXIT", "TPM_SUSPEND"}]
        /\ m_EventSend'[v] = m
        /\ \A w \in Workers : w # v => m_EventSend'[w] = m_EventSend[w]
    BY <1>1, <1>2 DEF AwakeInv
  <1>4. m_NotSuspendedEvent[v] /\ ~WillSleep(v)
    BY <1>1, <1>2, PoolNames DEF AwakeInv, AwakeUntilCalled
  <1>5. \/ Goto(Master, "call") /\ iThread' = iThread + 1
        \/ Goto(Master, "join") /\ op = "Stop"
        \/ Goto(Master, "await") /\ op # "Stop"
    BY <1>1 DEF NextThread
  <1>6. /\ \A w \in Workers : pc'[w] = pc[w]
        /\ \/ pc'[Master] = "call" /\ iThread' = iThread + 1
           \/ pc'[Master] = "join" /\ op = "Stop"
           \/ pc'[Master] = "await" /\ op # "Stop"
    BY <1>5, MasterMovesAlone DEF Labels
  <1>7. op # "Stop" => CallsToSleep'
    BY <1>1, <1>6 DEF CallsToSleep
  <1>8. \A w \in Workers : w # v => (WillSleep(w)' <=> WillSleep(w))
    BY <1>3, <1>6 DEF WillSleep
  <1> HIDE DEF v
  <1>9. ASSUME NEW w \in Workers PROVE Awake(w)'
    <2>1. CASE w = v
      <3>1. pc'[w] # "replied"
        BY <1>4, <1>6, <2>1 DEF WillSleep
      <3>2. WillSleep(w)' => op # "Stop"
        BY <1>3, <2>1, <3>1 DEF WillSleep
      <3> QED
        BY <1>1, <1>3, <1>4, <1>7, <2>1, <3>1, <3>2 DEF Awake
    <2>2. CASE w # v
      <3>1. Awake(w) /\ (WillSleep(w) => op # "Stop")
        BY DEF AwakeInv, Awake, CallsToSleep
      <3>2. op # "Stop" => pc'[Master] \in CallLabels
        BY <1>6 DEF CallLabels
      <3> QED
        BY <1>1, <1>3, <1>6, <1>7, <1>8, <2>2, <3>1, <3>2 DEF Awake
    <2> QED
      BY <2>1, <2>2
  <1>10. AwakeUntilCalled'
    <2> SUFFICES ASSUME pc'[Master] = "call", NEW k \in 1..Len(m_Threads), k >= iThread'
                 PROVE  m_NotSuspendedEvent'[m_Threads[k]] /\ ~WillSleep(m_Threads[k])'
      BY DEF AwakeUntilCalled
    <2>1. k >= iThread /\ k # iThread
      BY <1>2, <1>6, PoolNames
    <2>2. DOMAIN m_Threads = 1..Len(m_Threads)
      <3>1. m_Threads \in Seq(Workers)
        BY PoolAssumption
      <3> QED
        BY <3>1
    <2>3. \A i, j \in DOMAIN m_Threads : m_Threads[i] = m_Threads[j] => i = j
      BY PoolAssumption
    <2>4. m_Threads[k] # v /\ m_Threads[k] \in Workers
      BY <1>2, <2>1, <2>2, <2>3, PoolNames DEF v
    <2> QED
      BY <1>1, <1>8, <2>1, <2>4 DEF AwakeInv, AwakeUntilCalled
  <1> QED
    BY <1>3, <1>9, <1>10 DEF AwakeInv

\* When SuspendExecution has seen all workers asleep, none is called any more.
LEMMA AwaitAwakeInv ==
  ASSUME CallInv, SuspendInv, AwakeInv, AwaitSuspended
  PROVE  AwakeInv'
  <1>1. /\ pc[Master] = "await" /\ NextThread("await", "suspend")
        /\ UNCHANGED <<m_EventSend, m_NotSuspendedEvent, m_nSuspend, op>>
    BY DEF AwaitSuspended, workerVars, opVars, poolVars
  <1>2. op # "Stop"
    BY <1>1 DEF CallInv, OpsAt
  <1>3. /\ \A w \in Workers : pc'[w] = pc[w]
        /\ pc'[Master] \in {"await", "suspend"}
    BY <1>1, MasterMovesAlone DEF Labels, NextThread
  <1>4. pc'[Master] = "suspend" => \A w \in Workers : ~m_NotSuspendedEvent[w]
    <2>1. SuspendInv'
      BY AwaitSuspendInv
    <2> QED
      BY <1>1, <2>1 DEF SuspendInv
  <1>5. ASSUME NEW w \in Workers PROVE Awake(w)'
    <2>1. Awake(w) /\ (WillSleep(w)' <=> WillSleep(w))
      BY <1>1, <1>3 DEF AwakeInv, WillSleep
    <2> QED
      BY <1>1, <1>2, <1>3, <1>4, <2>1 DEF Awake, CallsToSleep, CallLabels
  <1> QED
    BY <1>1, <1>3, <1>5 DEF AwakeInv, AwakeUntilCalled

\* The pool counts as suspended from then on.
LEMMA SuspendedAwakeInv ==
  ASSUME CallInv, SuspendInv, AwakeInv, Suspended
  PROVE  AwakeInv'
  <1>1. /\ pc[Master] = "suspend" /\ m_nSuspend' = m_nSuspend + 1
        /\ UNCHANGED <<m_EventSend, m_NotSuspendedEvent>>
    BY DEF Suspended, workerVars
  <1>2. m_nSuspend' > 0
    BY <1>1 DEF SuspendInv
  <1>3. PICK l \in {"ready", "abort", "drain"} : Goto(Master, l)
    BY DEF Suspended, Return
  <1>4. pc'[Master] = l /\ \A w \in Workers : pc'[w] = pc[w]
    BY <1>3, MasterMovesAlone DEF Labels
  <1>5. ASSUME NEW w \in Workers PROVE Awake(w)'
    <2>1. Awake(w) /\ ~WillSleep(w) /\ (WillSleep(w)' <=> WillSleep(w))
      BY <1>1, <1>4 DEF AwakeInv, Awake, WillSleep, CallsToSleep
    <2> QED
      BY <1>1, <1>2, <1>4, <2>1 DEF Awake
  <1> QED
    BY <1>1, <1>4, <1>5 DEF AwakeInv, AwakeUntilCalled

\* ResumeExecution wakes all workers, or the pool stays suspended.
LEMMA ResumeAwakeInv ==
  ASSUME CallInv, SuspendInv, AwakeInv, Resume, m_nSuspend > 0,
         pc[Master] \in {"ready", "resume"}, pc'[Master] = "ready",
         \A w \in Workers : pc'[w] = pc[w], UNCHANGED m_EventSend
  PROVE  AwakeInv'
  <1>1. m_nSuspend' > 0 \/ \A w \in Workers : m_NotSuspendedEvent'[w]
    BY DEF Resume, SuspendInv
  <1>2. ASSUME NEW w \in Workers PROVE Awake(w)'
    <2>1. Awake(w) /\ ~WillSleep(w) /\ (WillSleep(w)' <=> WillSleep(w))
      BY DEF AwakeInv, Awake, WillSleep, CallsToSleep
    <2> QED
      BY <1>1, <2>1 DEF Awake
  <1> QED
    BY <1>2 DEF AwakeInv, AwakeUntilCalled

LEMMA AwakeStep == CallInv /\ SuspendInv /\ AwakeInv /\ [PoolNext]_vars => AwakeInv'
  <1> SUFFICES ASSUME CallInv, SuspendInv, AwakeInv, [PoolNext]_vars PROVE AwakeInv'
    OBVIOUS
  <1>1. CASE ResumeExecution
    BY <1>1, ResumeAwakeInv DEF ResumeExecution
  <1>2. CASE ResumeAndReturn
    <2>1. pc[Master] = "resume" /\ Resume /\ Goto(Master, "ready") /\ UNCHANGED m_EventSend
      BY <1>2 DEF ResumeAndReturn, Return
    <2>2. m_nSuspend > 0
      BY <2>1 DEF CallInv, OpsAt, SuspendInv
    <2>3. pc'[Master] = "ready" /\ \A w \in Workers : pc'[w] = pc[w]
      BY <2>1, MasterMovesAlone DEF Labels
    <2> QED
      BY <2>1, <2>2, <2>3, ResumeAwakeInv
  <1>3. CASE MasterContinues
    BY <1>2, <1>3, MasterLeavesAlone, AloneAwakeInv, CallWorkerAwakeInv, AwaitAwakeInv,
       SuspendedAwakeInv
  <1>4. CASE UNCHANGED vars
    BY <1>4
    DEF vars, workerVars, poolVars, opVars, AwakeInv, Awake, AwakeUntilCalled, WillSleep,
        CallsToSleep
  <1> QED
    BY <1>1, <1>3, <1>4, WorkerAwakeInv, MasterCallsAwakeInv DEF PoolNext

\* When the pool is not suspended, and nobody is suspending it, no worker sleeps
\* without its event set, and none is about to: nested suspensions, a second
\* SuspendExecution before a worker has woken up, and calls of workers that
\* are running a job.
THEOREM NoneLeftAsleepThm == PoolSpec => []NoneLeftAsleep
  <1>1. AwakeInv => NoneLeftAsleep
    BY DEF AwakeInv, Awake, WillSleep, CallsToSleep, CallLabels, NoneLeftAsleep
  <1> QED
    BY <1>1, CallInit, CallStep, SuspendInit, SuspendStep, AwakeInit, AwakeStep, PTL DEF PoolSpec
-----------------------------------------------------------------------------
\* Where a thread is while it is in the middle of a call of a queue.
BusyInv ==
  \A t \in Threads :
    /\ popping[t] # NoQueue => pc[t] = "search"
    /\ pushing[t] # NoQueue => t = Master /\ pc[t] = "count"

\* The loops over the threads begin with the first one.
LoopInv == pc[Master] \in {"ready", "suspend"} => iThread = 1

\* The queues that AbortAll has left, and in the end all, count no job.
AbortInv ==
  (op = "AbortAll" /\ pc[Master] \in {"abort", "search", "aborting", "resume"}) =>
    \A k \in 1..Len(AbortOrder) :
      k < iThread \/ pc[Master] = "resume" => m_nItems[AbortOrder[k]] = 0

LEMMA BusyInit == PoolInit => BusyInv /\ LoopInv /\ AbortInv
  <1> SUFFICES ASSUME PoolInit PROVE BusyInv /\ LoopInv /\ AbortInv
    OBVIOUS
  <1>1. pc[Master] = "ready" /\ iThread = 1 /\ op = "none"
    BY PoolNames DEF PoolInit
  <1>2. BusyInv
    BY DEF PoolInit, JQInit, BusyInv
  <1> QED
    BY <1>1, <1>2 DEF LoopInv, AbortInv

\* A step of one thread: what has to hold of that thread.
LEMMA OneThreadBusy ==
  ASSUME BusyInv, NEW t \in Threads,
         \A u \in Threads : u # t =>
           pc'[u] = pc[u] /\ popping'[u] = popping[u] /\ pushing'[u] = pushing[u],
         popping'[t] # NoQueue => pc'[t] = "search",
         pushing'[t] # NoQueue => t = Master /\ pc'[t] = "count"
  PROVE  BusyInv'
  BY DEF BusyInv

\* The steps of a thread in a queue.
LEMMA PermitBusy ==
  ASSUME CallInv, JQTypeOK, BusyInv, NEW t \in Threads, NEW q \in Queues,
         TakePermit(t, q), Goto(t, "search")
  PROVE  BusyInv'
  <1>1. /\ pushing[t] = NoQueue /\ popping' = [popping EXCEPT ![t] = q] /\ pushing' = pushing
        /\ pc' = [pc EXCEPT ![t] = "search"]
    BY DEF TakePermit, InNoCall, Goto
  <1>2. /\ \A u \in Threads : u # t => pc'[u] = pc[u] /\ popping'[u] = popping[u]
        /\ pc'[t] = "search"
    BY <1>1 DEF JQTypeOK, CallInv
  <1> QED
    BY <1>1, <1>2, OneThreadBusy

LEMMA PopBusy ==
  ASSUME CallInv, JQTypeOK, BusyInv, NEW t \in Threads, NEW j, NEW l,
         pc[t] = "search", PopItem(t, j), Goto(t, l)
  PROVE  BusyInv'
  <1>1. /\ popping' = [popping EXCEPT ![t] = NoQueue] /\ pushing' = pushing
        /\ pc' = [pc EXCEPT ![t] = l]
    BY DEF PopItem, Goto
  <1>2. /\ \A u \in Threads : u # t => pc'[u] = pc[u] /\ popping'[u] = popping[u]
        /\ popping'[t] = NoQueue /\ pushing[t] = NoQueue
    BY <1>1 DEF JQTypeOK, CallInv, BusyInv
  <1> QED
    BY <1>1, <1>2, OneThreadBusy

LEMMA PushBusy ==
  ASSUME CallInv, JQTypeOK, BusyInv, NEW q, NEW j, NEW i,
         PushItem(Master, q, j, i), Goto(Master, "count")
  PROVE  BusyInv'
  <1>1. /\ popping[Master] = NoQueue /\ pushing' = [pushing EXCEPT ![Master] = q]
        /\ popping' = popping /\ pc' = [pc EXCEPT ![Master] = "count"]
    BY DEF PushItem, InNoCall, Goto
  <1>2. /\ \A u \in Threads : u # Master => pc'[u] = pc[u] /\ pushing'[u] = pushing[u]
        /\ pc'[Master] = "count"
    BY <1>1, PoolNames DEF JQTypeOK, CallInv
  <1> QED
    BY <1>1, <1>2, PoolNames, OneThreadBusy

\* A step of a thread that is in none and begins none.
LEMMA IdleBusy ==
  ASSUME CallInv, BusyInv, NEW t \in Threads, NEW l, Goto(t, l),
         pc[t] \notin {"search", "count"}, UNCHANGED <<popping, pushing>>
  PROVE  BusyInv'
  <1>1. \A u \in Threads : u # t => pc'[u] = pc[u]
    BY DEF Goto, CallInv
  <1>2. popping[t] = NoQueue /\ pushing[t] = NoQueue
    BY DEF BusyInv
  <1> QED
    BY <1>1, <1>2, OneThreadBusy

LEMMA WorkerBusy ==
  ASSUME CallInv, JQTypeOK, BusyInv, NEW w \in Workers, WorkerNext(w)
  PROVE  BusyInv'
  <1> USE PoolNames
  <1>1. CASE Wake(w) \/ Reply(w) \/ Suspend(w) \/ Resumed(w) \/ Exit(w)
    <2>1. /\ UNCHANGED <<popping, pushing>> /\ pc[w] \notin {"search", "count"}
          /\ \E l : Goto(w, l)
      BY <1>1 DEF Wake, Reply, Suspend, Resumed, Exit, jqVars
    <2> QED
      BY <2>1, IdleBusy
  <1>2. CASE PopQueues(w)
    <2>1. CASE (TakePermit(w, w) \/ TakePermit(w, SharedQueue)) /\ Goto(w, "search")
      BY <2>1, PermitBusy
    <2>2. CASE UNCHANGED jqVars /\ \E l : Goto(w, l)
      <3>1. pc[w] \in {"direct", "shared"} /\ UNCHANGED <<popping, pushing>>
        BY <1>2, <2>2 DEF PopQueues, jqVars
      <3> QED
        BY <2>2, <3>1, IdleBusy
    <2> QED
      BY <1>2, <2>1, <2>2 DEF PopQueues
  <1>3. CASE TakeJob(w)
    <2>1. PICK j \in Jobs : PopItem(w, j)
      BY <1>3 DEF TakeJob
    <2> QED
      BY <1>3, <2>1, PopBusy DEF TakeJob
  <1>4. CASE Search(w)
    BY <1>4 DEF Search, NextPriority, BusyInv
  <1>5. CASE CheckJob(w) \/ LockJob(w) \/ FinishJob(w)
    <2>1. /\ UNCHANGED <<popping, pushing>> /\ pc[w] \notin {"search", "count"}
          /\ \E l : Goto(w, l)
      BY <1>5 DEF CheckJob, LockJob, FinishJob, jqVars
    <2> QED
      BY <2>1, IdleBusy
  <1>6. CASE ReleaseJob(w)
    <2>1. ~Direct(w)
      BY DEF Direct
    <2>2. /\ UNCHANGED <<popping, pushing>> /\ pc[w] = "release"
          /\ \E l : Goto(w, l)
      BY <1>6, <2>1 DEF ReleaseJob, jqVars
    <2> QED
      BY <2>2, IdleBusy
  <1> QED
    BY <1>1, <1>2, <1>3, <1>4, <1>5, <1>6 DEF WorkerNext, ServiceJob

LEMMA MasterCallsBusy ==
  ASSUME CallInv, JQTypeOK, BusyInv, MasterCalls
  PROVE  BusyInv'
  <1> USE PoolNames
  <1>1. ASSUME NEW n, NEW j, NEW f, NEW p, NEW l, Begin(n, j, f, p, l), UNCHANGED jqVars
        PROVE  BusyInv'
    BY <1>1, IdleBusy DEF Begin, jqVars
  <1>2. ASSUME NEW j \in Jobs, AddJob(j) PROVE BusyInv'
    <2>1. CASE Begin("AddJob", j, {}, JP_LOW, "check") /\ UNCHANGED jqVars
      BY <1>1, <2>1
    <2>2. CASE /\ PushItem(Master, QueueOf(j), j, m_priority'[j])
               /\ Begin("AddJob", j, {}, JP_LOW, "count")
      BY <2>2, PushBusy DEF Begin
    <2> QED
      BY <1>2, <2>1, <2>2 DEF AddJob
  <1>3. ASSUME NEW j \in Jobs, NEW p \in Priorities, ChangePriority(j, p) PROVE BusyInv'
    BY <1>3, PushBusy DEF ChangePriority, Begin
  <1>4. ASSUME NEW j \in Jobs,
               \/ YieldWait(j)
               \/ OwnerCall("Execute", j, "check") \/ OwnerCall("Abort", j, "aborting")
        PROVE  BusyInv'
    BY <1>1, <1>4 DEF YieldWait, OwnerCall
  <1>5. ASSUME NEW p \in Priorities, NEW f, ExecuteToPriority(p, f) PROVE BusyInv'
    BY <1>1, <1>5 DEF ExecuteToPriority
  <1>6. CASE SuspendExecution \/ AbortAll \/ Stop
    BY <1>1, <1>6 DEF SuspendExecution, AbortAll, Stop
  <1> QED
    BY <1>2, <1>3, <1>4, <1>5, <1>6 DEF MasterCalls

LEMMA MasterContinuesBusy ==
  ASSUME CallInv, JQTypeOK, BusyInv, MasterContinues
  PROVE  BusyInv'
  <1> USE PoolNames
  <1>1. CASE Count
    <2>1. pc[Master] = "count" /\ \E l : Goto(Master, l)
      BY <1>1 DEF Count, Return
    <2>2. PICK q \in Queues : pushing[Master] = q /\ popping' = popping
                              /\ pushing' = [pushing EXCEPT ![Master] = NoQueue]
      BY <1>1 DEF Count, CountItem
    <2>3. popping[Master] = NoQueue
      BY <2>1 DEF BusyInv
    <2>4. /\ \A u \in Threads : u # Master => pc'[u] = pc[u] /\ pushing'[u] = pushing[u]
          /\ pushing'[Master] = NoQueue
      BY <2>1, <2>2 DEF JQTypeOK, CallInv, Goto
    <2> QED
      BY <2>2, <2>3, <2>4, OneThreadBusy
  <1>2. CASE CallWorker \/ AwaitSuspended \/ Join
    <2>1. /\ UNCHANGED <<popping, pushing>> /\ pc[Master] \notin {"search", "count"}
          /\ \E l : Goto(Master, l)
      BY <1>2 DEF CallWorker, AwaitSuspended, Join, NextThread, Empty, jqVars
    <2> QED
      BY <2>1, IdleBusy
  <1>3. CASE Suspended \/ ResumeAndReturn \/ AbortJob \/ KeepJob \/ YieldDone \/ Flush
    <2>1. /\ UNCHANGED <<popping, pushing>> /\ pc[Master] \notin {"search", "count"}
          /\ \E l : Goto(Master, l)
      BY <1>3
      DEF Suspended, ResumeAndReturn, AbortJob, KeepJob, YieldDone, Flush, Return, Empty, jqVars
    <2> QED
      BY <2>1, IdleBusy
  <1>4. ASSUME UNCHANGED <<popping, pushing>>, pc[Master] \notin {"search", "count"},
               UNCHANGED pc \/ \E l : Goto(Master, l)
        PROVE  BusyInv'
    <2>1. CASE UNCHANGED pc
      BY <1>4, <2>1 DEF BusyInv
    <2> QED
      BY <1>4, <2>1, IdleBusy
  <1>5. CASE PopToAbort
    <2>1. CASE TakePermit(Master, AbortOrder[iThread]) /\ Goto(Master, "search")
      <3>1. AbortOrder[iThread] \in Queues
        BY OrdersAreQueues DEF CallInv
      <3> QED
        BY <2>1, <3>1, PermitBusy
    <2>2. CASE UNCHANGED jqVars /\ (UNCHANGED pc \/ \E l : Goto(Master, l))
      BY <1>4, <1>5, <2>2 DEF PopToAbort, jqVars
    <2> QED
      BY <1>5, <2>1, <2>2 DEF PopToAbort
  <1>6. CASE PopToExecute
    <2>1. CASE TakePermit(Master, ExecuteOrder[iThread]) /\ Goto(Master, "search")
      <3>1. ExecuteOrder[iThread] \in Queues
        BY OrdersAreQueues DEF CallInv
      <3> QED
        BY <2>1, <3>1, PermitBusy
    <2>2. CASE UNCHANGED jqVars /\ (UNCHANGED pc \/ \E l : Goto(Master, l))
      BY <1>4, <1>6, <2>2 DEF PopToExecute, jqVars
    <2> QED
      BY <1>6, <2>1, <2>2 DEF PopToExecute
  <1>7. CASE PutBack
    <2>1. CASE UNCHANGED jqVars /\ Goto(Master, "resume")
      BY <1>4, <1>7, <2>1 DEF PutBack, jqVars
    <2>2. CASE /\ PushItem(Master, QueueOf(Head(putBack)), Head(putBack), m_priority[Head(putBack)])
               /\ Goto(Master, "count")
      BY <2>2, PushBusy
    <2> QED
      BY <1>7, <2>1, <2>2 DEF PutBack
  <1>8. CASE MasterTakeJob
    <2>1. PICK j \in Jobs : PopItem(Master, j) /\ \E l : Goto(Master, l)
      BY <1>8 DEF MasterTakeJob
    <2>2. PICK l : Goto(Master, l)
      BY <2>1
    <2> QED
      BY <1>8, <2>1, <2>2, PopBusy DEF MasterTakeJob
  <1>9. CASE Yield
    <2>1. CASE TakePermit(Master, SharedQueue) /\ Goto(Master, "search")
      BY <2>1, PermitBusy
    <2>2. CASE UNCHANGED jqVars /\ \E l : Goto(Master, l)
      BY <1>4, <1>9, <2>2 DEF Yield, jqVars
    <2> QED
      BY <1>9, <2>1, <2>2 DEF Yield, Return
  <1>10. CASE Search(Master)
    BY <1>10 DEF Search, NextPriority, BusyInv
  <1>11. CASE CheckJob(Master) \/ LockJob(Master) \/ FinishJob(Master) \/ ReleaseJob(Master)
    <2>1. /\ UNCHANGED <<popping, pushing>> /\ pc[Master] \notin {"search", "count"}
          /\ \E l : Goto(Master, l)
      BY <1>11 DEF CheckJob, LockJob, FinishJob, ReleaseJob, Return, jqVars
    <2> QED
      BY <2>1, IdleBusy
  <1> QED
    BY <1>1, <1>2, <1>3, <1>5, <1>6, <1>7, <1>8, <1>9, <1>10, <1>11
    DEF MasterContinues, ServiceJob

LEMMA BusyStep == CallInv /\ JQInv /\ BusyInv /\ [PoolNext]_vars => BusyInv'
  <1> SUFFICES ASSUME CallInv, JQInv, BusyInv, [PoolNext]_vars PROVE BusyInv'
    OBVIOUS
  <1>1. JQTypeOK
    BY DEF JQInv
  <1>2. CASE ResumeExecution
    BY <1>2 DEF ResumeExecution, BusyInv, jqVars
  <1>3. CASE UNCHANGED vars
    BY <1>3 DEF vars, BusyInv, jqVars
  <1> QED
    BY <1>1, <1>2, <1>3, WorkerBusy, MasterCallsBusy, MasterContinuesBusy DEF PoolNext
-----------------------------------------------------------------------------
\* A loop begins anew after the last thread, and a call that returns leaves
\* the index at the first one.
LEMMA MasterContinuesLoop ==
  ASSUME CallInv, LoopInv, MasterContinues
  PROVE  LoopInv'
  <1> USE DEF Labels
  <1>1. ASSUME NEW l \in Labels \ {"ready", "suspend"}, Goto(Master, l) PROVE LoopInv'
    BY <1>1, MasterMovesAlone DEF LoopInv
  <1>2. ASSUME iThread' = 1 PROVE LoopInv'
    BY <1>2 DEF LoopInv
  <1>3. ASSUME UNCHANGED pc, pc[Master] \notin {"ready", "suspend"} PROVE LoopInv'
    BY <1>3 DEF LoopInv
  <1>4. CASE Count \/ AbortJob
    <2>1. Return \/ Goto(Master, "putback") \/ Goto(Master, "abort")
      BY <1>4 DEF Count, AbortJob
    <2> QED
      BY <1>1, <1>2, <2>1 DEF Return
  <1>5. CASE CallWorker \/ AwaitSuspended \/ Join
    <2>1. iThread' = 1 \/ Goto(Master, "call") \/ Goto(Master, "await") \/ Goto(Master, "join")
      BY <1>5 DEF CallWorker, AwaitSuspended, Join, NextThread
    <2> QED
      BY <1>1, <1>2, <2>1
  <1>6. CASE Suspended
    <2>1. Return \/ Goto(Master, "abort") \/ Goto(Master, "drain")
      BY <1>6 DEF Suspended
    <2> QED
      BY <1>1, <1>2, <2>1 DEF Return
  <1>7. CASE ResumeAndReturn \/ YieldDone \/ Flush
    BY <1>2, <1>7 DEF ResumeAndReturn, YieldDone, Flush, Return
  <1>8. CASE PopToAbort \/ PopToExecute
    <2>1. pc[Master] \in {"abort", "drain"}
      BY <1>8 DEF PopToAbort, PopToExecute
    <2>2. UNCHANGED pc \/ \E l \in {"search", "resume", "putback"} : Goto(Master, l)
      BY <1>8 DEF PopToAbort, PopToExecute
    <2> QED
      BY <1>1, <1>3, <2>1, <2>2
  <1>9. CASE KeepJob \/ PutBack
    <2>1. \E l \in {"drain", "resume", "count"} : Goto(Master, l)
      BY <1>9 DEF KeepJob, PutBack
    <2> QED
      BY <1>1, <2>1
  <1>10. CASE MasterTakeJob
    <2>1. PICK j \in Jobs :
            Goto(Master, CASE op = "AbortAll" -> "aborting"
                           [] op = "ExecuteToPriority" /\ j \notin filter -> "keep"
                           [] OTHER -> "check")
      BY <1>10 DEF MasterTakeJob
    <2>2. PICK l \in {"aborting", "keep", "check"} : Goto(Master, l)
      BY <2>1
    <2> QED
      BY <1>1, <2>2
  <1>11. CASE Yield
    <2>1. Return \/ Goto(Master, "search") \/ Goto(Master, "asleep")
      BY <1>11 DEF Yield
    <2> QED
      BY <1>1, <1>2, <2>1 DEF Return
  <1>12. CASE Search(Master)
    BY <1>3, <1>12 DEF Search
  <1>13. CASE CheckJob(Master) \/ LockJob(Master) \/ FinishJob(Master)
    <2>1. \E l \in {"release", "lock", "run"} : Goto(Master, l)
      BY <1>13 DEF CheckJob, LockJob, FinishJob
    <2> QED
      BY <1>1, <2>1
  <1>14. CASE ReleaseJob(Master)
    <2>1. Return \/ Goto(Master, "yield") \/ Goto(Master, "drain")
      BY <1>14, PoolAssumption DEF ReleaseJob
    <2> QED
      BY <1>1, <1>2, <2>1 DEF Return
  <1> HIDE DEF Labels
  <1> QED
    BY <1>4, <1>5, <1>6, <1>7, <1>8, <1>9, <1>10, <1>11, <1>12, <1>13, <1>14
    DEF MasterContinues, ServiceJob

LEMMA LoopStep == CallInv /\ LoopInv /\ [PoolNext]_vars => LoopInv'
  <1> SUFFICES ASSUME CallInv, LoopInv, [PoolNext]_vars PROVE LoopInv'
    OBVIOUS
  <1>1. CASE MasterCalls
    <2>1. pc[Master] = "ready" /\ UNCHANGED iThread
      BY <1>1
      DEF MasterCalls, AddJob, ChangePriority, YieldWait, OwnerCall, ExecuteToPriority,
          SuspendExecution, AbortAll, Stop, Begin
    <2> QED
      BY <2>1 DEF LoopInv
  <1>2. CASE ResumeExecution
    BY <1>2 DEF ResumeExecution, LoopInv
  <1>3. CASE UNCHANGED vars
    BY <1>3 DEF vars, LoopInv
  <1>4. ASSUME NEW w \in Workers, WorkerNext(w) PROVE LoopInv'
    BY <1>4, WorkerMovesAlone DEF LoopInv
  <1> QED
    BY <1>1, <1>2, <1>3, <1>4, MasterContinuesLoop DEF PoolNext
-----------------------------------------------------------------------------
\* AbortAll is emptying the queues, or has.
Aborting == op = "AbortAll" /\ pc[Master] \in {"abort", "search", "aborting", "resume"}

\* Meanwhile no worker can take a step.
LEMMA AbortingAlone ==
  ASSUME SuspendInv, Aborting, NEW w \in Workers
  PROVE  pc[w] = "suspended" /\ ~WorkerNext(w)
  <1>1. ~m_NotSuspendedEvent[w] /\ pc[w] = "suspended"
    BY DEF SuspendInv, Aborting
  <1> QED
    BY <1>1
    DEF WorkerNext, Wake, Reply, Suspend, Resumed, Exit, PopQueues, TakeJob, ServiceJob,
        Search, CheckJob, LockJob, FinishJob, ReleaseJob

\* Only SuspendExecution, when it ends, and AbortAll itself lead into it.
LEMMA AbortingBegins ==
  ASSUME CallInv, LoopInv, MasterContinues, Aborting'
  PROVE  \/ pc'[Master] = "abort" /\ iThread' = 1
         \/ Aborting /\ (PopToAbort \/ AbortJob \/ MasterTakeJob \/ Search(Master))
  <1> USE DEF Labels
  <1>1. op' # "none"
    BY DEF Aborting
  <1>2. ~Return
    BY <1>1 DEF Return
  <1>3. op' = op
    BY <1>2
    DEF MasterContinues, ServiceJob, Count, CallWorker, AwaitSuspended, Suspended,
        ResumeAndReturn, PopToAbort, AbortJob, PopToExecute, KeepJob, PutBack, MasterTakeJob,
        Yield, YieldDone, Join, Flush, Search, CheckJob, LockJob, FinishJob, ReleaseJob, opVars
  <1>4. op = "AbortAll" /\ op \in OpsAt(pc[Master])
    BY <1>3 DEF Aborting, CallInv
  <1>5. pc[Master] \notin {"count", "check", "lock", "run", "release", "drain", "keep",
                           "putback", "yield", "asleep", "join", "flush"}
    BY <1>4 DEF OpsAt
  <1>6. CASE CallWorker \/ AwaitSuspended
    <2>1. \E l \in {"call", "await", "suspend"} : Goto(Master, l)
      BY <1>4, <1>6 DEF CallWorker, AwaitSuspended, NextThread
    <2>2. pc'[Master] \in {"call", "await", "suspend"}
      BY <2>1, MasterMovesAlone
    <2> QED
      BY <2>2 DEF Aborting
  <1>7. CASE Suspended
    <2>1. pc[Master] = "suspend" /\ Goto(Master, "abort") /\ UNCHANGED iThread
      BY <1>4, <1>7 DEF Suspended
    <2> QED
      BY <2>1, MasterMovesAlone DEF LoopInv
  <1>8. CASE PopToAbort \/ AbortJob \/ MasterTakeJob \/ Search(Master)
    <2>1. pc[Master] \in {"abort", "aborting", "search"}
      BY <1>8 DEF PopToAbort, AbortJob, MasterTakeJob, Search
    <2> QED
      BY <1>4, <1>8, <2>1 DEF Aborting
  <1>9. ~(Count \/ PopToExecute \/ KeepJob \/ PutBack \/ Yield \/ YieldDone \/ Join \/ Flush)
    BY <1>5 DEF Count, PopToExecute, KeepJob, PutBack, Yield, YieldDone, Join, Flush
  <1>10. ~(CheckJob(Master) \/ LockJob(Master) \/ FinishJob(Master) \/ ReleaseJob(Master))
    BY <1>5 DEF CheckJob, LockJob, FinishJob, ReleaseJob
  <1>11. ~ResumeAndReturn
    BY <1>2 DEF ResumeAndReturn
  <1> HIDE DEF Labels
  <1> QED
    BY <1>6, <1>7, <1>8, <1>9, <1>10, <1>11 DEF MasterContinues, ServiceJob

\* AbortAll leaves a queue when it is refused there, and what it takes later
\* is taken from another one.
LEMMA PopToAbortInv ==
  ASSUME CallInv, JQTypeOK, AbortInv, Aborting, PopToAbort
  PROVE  AbortInv'
  <1> USE DEF Labels
  <1>1. pc[Master] = "abort" /\ Len(AbortOrder) \in Nat /\ iThread \in Nat
    BY OrdersAreQueues, PoolNames DEF PopToAbort, CallInv
  <1>2. \A k \in 1..Len(AbortOrder) : k < iThread => m_nItems[AbortOrder[k]] = 0
    BY DEF AbortInv, Aborting
  <1>3. CASE TakePermit(Master, AbortOrder[iThread]) /\ Goto(Master, "search") /\ UNCHANGED iThread
    <2>1. pc'[Master] = "search"
      BY <1>3, MasterMovesAlone
    <2>2. ASSUME NEW k \in 1..Len(AbortOrder), k < iThread PROVE m_nItems'[AbortOrder[k]] = 0
      <3>1. AbortOrder[k] # AbortOrder[iThread]
        BY <1>2, <1>3, <2>2 DEF TakePermit
      <3>2. m_nItems'[AbortOrder[k]] = m_nItems[AbortOrder[k]]
        BY <1>3, <3>1, <2>2, OrdersAreQueues DEF TakePermit, JQTypeOK
      <3> QED
        BY <1>2, <2>2, <3>2
    <2> QED
      BY <1>3, <2>1, <2>2 DEF AbortInv
  <1>4. CASE /\ Refused(Master, AbortOrder[iThread])
             /\ iThread' = iThread + 1 /\ UNCHANGED <<jqVars, pc>>
    <2>1. m_nItems[AbortOrder[iThread]] = 0 /\ m_nItems' = m_nItems /\ pc'[Master] = "abort"
      BY <1>1, <1>4 DEF Refused, jqVars
    <2>2. \A k \in 1..Len(AbortOrder) : k < iThread' => k < iThread \/ k = iThread
      BY <1>1, <1>4
    <2> QED
      BY <1>2, <2>1, <2>2 DEF AbortInv
  <1>5. CASE /\ Refused(Master, AbortOrder[iThread]) /\ iThread = Len(AbortOrder)
             /\ UNCHANGED <<jqVars, iThread>>
    <2>1. m_nItems[AbortOrder[iThread]] = 0 /\ m_nItems' = m_nItems
      BY <1>5 DEF Refused, jqVars
    <2>2. \A k \in 1..Len(AbortOrder) : k < iThread \/ k = iThread
      BY <1>1, <1>5
    <2> QED
      BY <1>2, <2>1, <2>2 DEF AbortInv
  <1> HIDE DEF Labels
  <1> QED
    BY <1>3, <1>4, <1>5 DEF PopToAbort

LEMMA AbortStep ==
  CallInv /\ SuspendInv /\ JQInv /\ LoopInv /\ AbortInv /\ [PoolNext]_vars => AbortInv'
  <1> SUFFICES ASSUME CallInv, SuspendInv, JQInv, LoopInv, AbortInv, [PoolNext]_vars, Aborting'
               PROVE  AbortInv'
    BY DEF AbortInv, Aborting
  <1>1. JQTypeOK
    BY DEF JQInv
  <1>2. CASE UNCHANGED vars
    BY <1>2 DEF vars, jqVars, opVars, AbortInv
  <1>3. ~ResumeExecution
    BY DEF ResumeExecution, Aborting
  <1>4. ASSUME NEW w \in Workers, WorkerNext(w) PROVE FALSE
    <2>1. Aborting
      BY <1>4, WorkerMovesAlone DEF Aborting
    <2> QED
      BY <1>4, <2>1, AbortingAlone
  <1>5. ~MasterCalls
    <2>1. ASSUME NEW n, NEW j, NEW f, NEW p, NEW l \in {"check", "count", "yield", "aborting", "call"},
                 n # "AbortAll", Begin(n, j, f, p, l)
          PROVE  FALSE
      BY <2>1 DEF Begin, Aborting
    <2>2. ASSUME NEW n, NEW f, NEW p, Begin(n, NoJob, f, p, SuspendFirst) PROVE FALSE
      <3>1. pc'[Master] = SuspendFirst
        BY <2>2, MasterMovesAlone DEF Begin, Labels, SuspendFirst
      <3> QED
        BY <3>1 DEF SuspendFirst, Aborting
    <2> QED
      BY <2>1, <2>2
      DEF MasterCalls, AddJob, ChangePriority, YieldWait, OwnerCall, ExecuteToPriority,
          SuspendExecution, AbortAll, Stop
  <1>6. CASE MasterContinues
    <2>1. CASE pc'[Master] = "abort" /\ iThread' = 1
      <3>1. \A k \in 1..Len(AbortOrder) : ~(k < iThread')
        BY <2>1, OrdersAreQueues, PoolNames
      <3> QED
        BY <2>1, <3>1 DEF AbortInv
    <2>2. CASE Aborting /\ PopToAbort
      BY <1>1, <2>2, PopToAbortInv
    <2>3. CASE Aborting /\ (AbortJob \/ MasterTakeJob \/ Search(Master))
      <3>1. UNCHANGED m_nItems
        BY <2>3 DEF AbortJob, MasterTakeJob, PopItem, Search, NextPriority, jqVars
      <3>2. UNCHANGED iThread
        BY <2>3 DEF AbortJob, MasterTakeJob, Search, Aborting
      <3>3. pc'[Master] # "resume"
        <4>1. CASE AbortJob
          <5>1. Goto(Master, "abort")
            BY <2>3, <4>1 DEF AbortJob, Aborting
          <5> QED
            BY <5>1, MasterMovesAlone DEF Labels
        <4>2. CASE MasterTakeJob
          <5>1. Goto(Master, "aborting")
            BY <2>3, <4>2 DEF MasterTakeJob, Aborting
          <5> QED
            BY <5>1, MasterMovesAlone DEF Labels
        <4>3. CASE Search(Master)
          BY <4>3 DEF Search
        <4> QED
          BY <2>3, <4>1, <4>2, <4>3
      <3> QED
        BY <2>3, <3>1, <3>2, <3>3 DEF AbortInv, Aborting
    <2> QED
      BY <1>6, <2>1, <2>2, <2>3, AbortingBegins
  <1> QED
    BY <1>2, <1>3, <1>4, <1>5, <1>6 DEF PoolNext

\* With no thread in the middle of a call, a count of zero is an empty queue.
LEMMA AbortedAll ==
  CallInv /\ SuspendInv /\ JQInv /\ BusyInv /\ AbortInv => AbortAllTakesAll
  <1> SUFFICES ASSUME CallInv, SuspendInv, JQInv, BusyInv, AbortInv,
                      op = "AbortAll", pc[Master] = "resume", NEW q \in Queues
               PROVE  Stock(q, JP_HIGH) = 0 /\ m_nItems[q] = 0
    BY DEF AbortAllTakesAll
  <1>1. Aborting
    BY DEF Aborting
  <1>2. \A t \in Threads : popping[t] # q /\ pushing[t] # q
    <2> TAKE t \in Threads
    <2>1. pc[t] \notin {"search", "count"}
      BY <1>1, AbortingAlone, PoolAssumption
    <2> QED
      BY <2>1, NoQueueAssumption DEF BusyInv
  <1>3. m_nItems[q] = 0
    <2>1. PICK k \in 1..Len(AbortOrder) : q = AbortOrder[k]
      <3>1. CASE q = SharedQueue
        <4>1. AbortOrder[1] = SharedQueue
          BY PoolAssumption DEF AbortOrder
        <4> QED
          BY <3>1, <4>1, OrdersAreQueues, PoolNames
      <3>2. CASE q \in Workers
        <4>1. PICK l \in 1..Len(m_Threads) : q = m_Threads[l]
          BY <3>2, PoolNames
        <4>2. m_Threads \in Seq(Workers)
          BY PoolAssumption
        <4>3. AbortOrder[l + 1] = m_Threads[l]
          BY <4>2 DEF AbortOrder
        <4> QED
          BY <4>1, <4>3, OrdersAreQueues, PoolNames
      <3> QED
        BY <3>1, <3>2, PoolAssumption
    <2> QED
      BY <2>1 DEF AbortInv
  <1>4. Cardinality(Takers(q, JP_HIGH)) = 0 /\ Cardinality(Putters(q)) = 0
    <2>1. \A t : t \notin Takers(q, JP_HIGH) /\ t \notin Putters(q)
      BY <1>2 DEF Takers, Putters
    <2> QED
      BY <2>1, NoneIsZero
  <1>5. Stock(q, JP_HIGH) = 0
    BY <1>3, <1>4 DEF JQInv, PermitsCovered
  <1> QED
    BY <1>3, <1>5

\* When AbortAll has been through the queues no job is left in any of them and
\* none is counted, although it looks at each queue once and Pop gives it only
\* what is counted: no worker is in the middle of a Pop, and nobody adds a job.
THEOREM AbortAllTakesAllThm == PoolSpec => []AbortAllTakesAll
  <1>1. PoolInit => JQInit
    BY DEF PoolInit
  <1> QED
    BY <1>1, AbortedAll, CallInit, CallStep, QueueStep, JQInitInv, JQStepInv, SuspendInit,
       SuspendStep, BusyInit, BusyStep, LoopStep, AbortStep, PTL DEF PoolSpec
-----------------------------------------------------------------------------
(* The references of the jobs.                                             *)


Positions(s, j) == {k \in DOMAIN s : s[k] = j}

\* One if the condition holds.
One(b) == IF b THEN 1 ELSE 0

LEMMA DisjointUnion ==
  ASSUME NEW S, NEW T, IsFiniteSet(S), IsFiniteSet(T), S \cap T = {}
  PROVE  Cardinality(S \cup T) = Cardinality(S) + Cardinality(T)
  <1>1. Cardinality(S \cup T) = Cardinality(S) + Cardinality(T) - Cardinality(S \cap T)
    BY FS_Union
  <1>2. Cardinality(S \cap T) = 0
    BY FS_EmptySet
  <1>3. Cardinality(S) \in Nat /\ Cardinality(T) \in Nat
    BY FS_CardinalityType
  <1> QED
    BY <1>1, <1>2, <1>3

LEMMA PositionsFinite ==
  ASSUME NEW s \in Seq(Jobs), NEW j
  PROVE  IsFiniteSet(Positions(s, j)) /\ Cardinality(Positions(s, j)) \in Nat
  <1>1. Positions(s, j) \subseteq 1..Len(s) /\ Len(s) \in Nat
    BY DEF Positions
  <1>2. IsFiniteSet(1..Len(s))
    BY <1>1, FS_Interval
  <1> QED
    BY <1>1, <1>2, FS_Subset, FS_CardinalityType

LEMMA PositionsAppend ==
  ASSUME NEW s \in Seq(Jobs), NEW x \in Jobs, NEW j
  PROVE  Cardinality(Positions(Append(s, x), j)) = Cardinality(Positions(s, j)) + One(x = j)
  <1> DEFINE n == Len(s) + 1
  <1>1. /\ Len(s) \in Nat /\ n \notin Positions(s, j)
        /\ DOMAIN Append(s, x) = DOMAIN s \cup {n} /\ Append(s, x)[n] = x
        /\ \A k \in DOMAIN s : Append(s, x)[k] = s[k]
    BY DEF Positions
  <1>2. CASE x = j
    <2>1. Positions(Append(s, x), j) = Positions(s, j) \cup {n}
      BY <1>1, <1>2 DEF Positions
    <2> QED
      BY <1>1, <1>2, <2>1, PositionsFinite, FS_AddElement DEF One
  <1>3. CASE x # j
    <2>1. Positions(Append(s, x), j) = Positions(s, j)
      BY <1>1, <1>3 DEF Positions
    <2> QED
      BY <1>3, <2>1, PositionsFinite DEF One
  <1> QED
    BY <1>2, <1>3

LEMMA PositionsTail ==
  ASSUME NEW s \in Seq(Jobs), s # <<>>, NEW j
  PROVE  Cardinality(Positions(Tail(s), j)) = Cardinality(Positions(s, j)) - One(Head(s) = j)
  <1> DEFINE old == Positions(s, j) \ {1}
             new == Positions(Tail(s), j)
             f == [k \in new |-> k + 1]
  <1>1. /\ Len(s) \in Nat /\ Len(s) >= 1 /\ Tail(s) \in Seq(Jobs) /\ Head(s) = s[1]
        /\ DOMAIN s = 1..Len(s) /\ DOMAIN Tail(s) = 1..Len(s) - 1
        /\ \A k \in 1..Len(s) - 1 : Tail(s)[k] = s[k + 1]
    OBVIOUS
  <1>2. \A k \in new : k \in Nat /\ k + 1 \in old
    BY <1>1 DEF Positions
  <1>3. \A k \in old : k - 1 \in new /\ (k - 1) + 1 = k
    BY <1>1 DEF Positions
  <1>4. f \in Bijection(new, old)
    <2>1. \A k, l \in new : f[k] = f[l] => k = l
      BY <1>2
    <2>2. \A k \in old : \E l \in new : f[l] = k
      BY <1>3
    <2>3. f \in [new -> old]
      BY <1>2
    <2>4. IsInjective(f)
      BY <2>1 DEF IsInjective
    <2> HIDE DEF f
    <2> QED
      BY <2>2, <2>3, <2>4 DEF Bijection, Injection, Surjection
  <1>5. IsFiniteSet(new) /\ Cardinality(old) = Cardinality(new)
    <2>1. IsFiniteSet(new)
      BY <1>1, PositionsFinite
    <2>2. ExistsBijection(new, old)
      BY <1>4 DEF ExistsBijection
    <2> HIDE DEF old, new, f
    <2> QED
      BY <2>1, <2>2, FS_Bijection
  <1>6. /\ IsFiniteSet(Positions(s, j))
        /\ Cardinality(old) = IF 1 \in Positions(s, j) THEN Cardinality(Positions(s, j)) - 1
                              ELSE Cardinality(Positions(s, j))
    BY PositionsFinite, FS_RemoveElement
  <1>7. 1 \in Positions(s, j) <=> Head(s) = j
    BY <1>1 DEF Positions
  <1>8. Cardinality(Positions(s, j)) \in Nat
    BY PositionsFinite
  <1> HIDE DEF old, new
  <1> QED
    BY <1>5, <1>6, <1>7, <1>8 DEF One, new
-----------------------------------------------------------------------------
(* The places of the queues.                                               *)

\* One sequence of a queue, as its part of the places of a job.
Row(queues, q, i, j) == {<<q, i>>} \X Positions(queues[q][i], j)

AllPlaces(queues, j) ==
  UNION {UNION {Row(queues, q, i, j) : i \in Priorities} : q \in Queues}

InQueues(j) == Cardinality(UNION {Places(q, j) : q \in Queues})

LEMMA InQueuesPlaces == ASSUME NEW j PROVE InQueues(j) = Cardinality(AllPlaces(m_pQueues, j))
  BY DEF InQueues, Places, AllPlaces, Row, Positions

QueuesType == [Queues -> [Priorities -> Seq(Jobs)]]

LEMMA QueuesFinite == IsFiniteSet(Queues) /\ IsFiniteSet(Priorities)
  <1>1. Workers \subseteq Threads
    BY PoolNames
  <1>2. IsFiniteSet(Workers)
    BY <1>1, ThreadsAssumption, FS_Subset
  <1>3. IsFiniteSet(Queues)
    BY <1>2, PoolAssumption, FS_AddElement
  <1>4. Priorities = 0..2
    BY DEF Priorities, JP_LOW, JP_NORMAL, JP_HIGH
  <1>5. PICK a \in Int, b \in Int : a = 0 /\ b = 2
    OBVIOUS
  <1>6. IsFiniteSet(a..b)
    BY <1>5, FS_Interval
  <1> QED
    BY <1>3, <1>4, <1>5, <1>6

LEMMA RowFacts ==
  ASSUME NEW queues \in QueuesType, NEW q \in Queues, NEW i \in Priorities, NEW j
  PROVE  /\ IsFiniteSet(Row(queues, q, i, j))
         /\ Cardinality(Row(queues, q, i, j)) = Cardinality(Positions(queues[q][i], j))
  <1>1. queues[q][i] \in Seq(Jobs)
    BY DEF QueuesType
  <1>2. IsFiniteSet(Positions(queues[q][i], j)) /\ Cardinality(Positions(queues[q][i], j)) \in Nat
    BY <1>1, PositionsFinite
  <1>3. IsFiniteSet({<<q, i>>}) /\ Cardinality({<<q, i>>}) = 1
    BY FS_Singleton
  <1> DEFINE one == {<<q, i>>}
             more == Positions(queues[q][i], j)
  <1> HIDE DEF one, more
  <1>4. /\ IsFiniteSet(one \X more)
        /\ Cardinality(one \X more) = Cardinality(one) * Cardinality(more)
    BY <1>2, <1>3, FS_Product DEF one, more
  <1>5. Cardinality(one \X more) = Cardinality(more)
    BY <1>2, <1>3, <1>4 DEF one, more
  <1> QED
    BY <1>4, <1>5 DEF Row, one, more

LEMMA QueueFinite ==
  ASSUME NEW queues \in QueuesType, NEW q \in Queues, NEW j
  PROVE  IsFiniteSet(UNION {Row(queues, q, i, j) : i \in Priorities})
  <1> DEFINE rows == {Row(queues, q, i, j) : i \in Priorities}
             f == [i \in Priorities |-> Row(queues, q, i, j)]
  <1>1. f \in Surjection(Priorities, rows)
    BY DEF Surjection
  <1>2. IsFiniteSet(rows)
    BY <1>1, QueuesFinite, FS_Surjection
  <1>3. \A x \in rows : IsFiniteSet(x)
    BY RowFacts
  <1> QED
    BY <1>2, <1>3, FS_UNION

LEMMA PlacesFinite ==
  ASSUME NEW queues \in QueuesType, NEW j
  PROVE  IsFiniteSet(AllPlaces(queues, j)) /\ Cardinality(AllPlaces(queues, j)) \in Nat
  <1> DEFINE part(q) == UNION {Row(queues, q, i, j) : i \in Priorities}
             parts == {part(q) : q \in Queues}
             f == [q \in Queues |-> part(q)]
  <1>1. f \in Surjection(Queues, parts)
    BY DEF Surjection
  <1>2. IsFiniteSet(parts)
    BY <1>1, QueuesFinite, FS_Surjection
  <1>3. \A x \in parts : IsFiniteSet(x)
    BY QueueFinite
  <1>4. IsFiniteSet(UNION parts)
    BY <1>2, <1>3, FS_UNION
  <1> QED
    BY <1>4, FS_CardinalityType DEF AllPlaces

-----------------------------------------------------------------------------
\* One sequence of one queue changes: so many places come and go as it has
\* more or less of the job.
LEMMA RowChange ==
  ASSUME NEW old \in QueuesType, NEW new \in QueuesType, NEW j,
         NEW q \in Queues, NEW i \in Priorities,
         \A r \in Queues, k \in Priorities : <<r, k>> # <<q, i>> => new[r][k] = old[r][k]
  PROVE  Cardinality(AllPlaces(new, j)) + Cardinality(Positions(old[q][i], j))
           = Cardinality(AllPlaces(old, j)) + Cardinality(Positions(new[q][i], j))
  <1> DEFINE gone == Row(old, q, i, j)
             come == Row(new, q, i, j)
             rest == UNION {UNION {Row(old, r, k, j) : k \in {l \in Priorities : <<r, l>> # <<q, i>>}}
                            : r \in Queues}
  <1>1. \A r \in Queues, k \in Priorities :
          /\ <<r, k>> # <<q, i>> => Row(new, r, k, j) = Row(old, r, k, j)
          /\ \A x \in Row(old, r, k, j) \cup Row(new, r, k, j) : x[1] = <<r, k>>
    BY DEF Row
  <1>2. AllPlaces(old, j) = rest \cup gone
    BY DEF AllPlaces
  <1>3. AllPlaces(new, j) = rest \cup come
    BY <1>1 DEF AllPlaces
  <1>4. rest \cap gone = {} /\ rest \cap come = {}
    <2>1. \A x \in rest : x[1] # <<q, i>>
      BY <1>1
    <2>2. \A x \in gone \cup come : x[1] = <<q, i>>
      BY <1>1
    <2> HIDE DEF rest, gone, come
    <2> QED
      BY <2>1, <2>2
  <1>5. /\ IsFiniteSet(gone) /\ Cardinality(gone) = Cardinality(Positions(old[q][i], j))
        /\ IsFiniteSet(come) /\ Cardinality(come) = Cardinality(Positions(new[q][i], j))
    BY RowFacts
  <1>6. IsFiniteSet(AllPlaces(old, j)) /\ rest \subseteq AllPlaces(old, j)
    BY <1>2, PlacesFinite
  <1>7. IsFiniteSet(rest)
    <2> HIDE DEF rest
    <2> QED
      BY <1>6, FS_Subset
  <1> HIDE DEF rest, gone, come
  <1>9. Cardinality(rest \cup gone) = Cardinality(rest) + Cardinality(gone)
    BY <1>4, <1>5, <1>7, DisjointUnion
  <1>10. Cardinality(rest \cup come) = Cardinality(rest) + Cardinality(come)
    BY <1>4, <1>5, <1>7, DisjointUnion
  <1>11. Cardinality(rest) \in Nat /\ Cardinality(gone) \in Nat /\ Cardinality(come) \in Nat
    BY <1>5, <1>7, FS_CardinalityType
  <1> QED
    BY <1>2, <1>3, <1>5, <1>9, <1>10, <1>11

\* A job is put at the end of a queue.
LEMMA PushPlaces ==
  ASSUME JQTypeOK, NEW t, NEW q \in Queues, NEW x \in Jobs, NEW i \in Priorities,
         PushItem(t, q, x, i), NEW j
  PROVE  InQueues(j)' = InQueues(j) + One(x = j)
  <1>1. /\ m_pQueues \in QueuesType
        /\ m_pQueues' = [m_pQueues EXCEPT ![q][i] = Append(m_pQueues[q][i], x)]
    BY DEF PushItem, JQTypeOK, QueuesType
  <1>2. m_pQueues[q][i] \in Seq(Jobs) /\ Append(m_pQueues[q][i], x) \in Seq(Jobs)
    BY <1>1 DEF QueuesType
  <1>3. /\ m_pQueues' \in QueuesType
        /\ m_pQueues'[q][i] = Append(m_pQueues[q][i], x)
        /\ \A r \in Queues, k \in Priorities :
             <<r, k>> # <<q, i>> => m_pQueues'[r][k] = m_pQueues[r][k]
    BY <1>1, <1>2 DEF QueuesType
  <1>4. Cardinality(Positions(m_pQueues'[q][i], j))
          = Cardinality(Positions(m_pQueues[q][i], j)) + One(x = j)
    BY <1>2, <1>3, PositionsAppend
  <1>5. Cardinality(AllPlaces(m_pQueues', j)) + Cardinality(Positions(m_pQueues[q][i], j))
          = Cardinality(AllPlaces(m_pQueues, j)) + Cardinality(Positions(m_pQueues'[q][i], j))
    <2>1. PICK new \in QueuesType : new = m_pQueues'
      BY <1>3
    <2>2. \A r \in Queues, k \in Priorities : <<r, k>> # <<q, i>> => new[r][k] = m_pQueues[r][k]
      BY <1>3, <2>1
    <2>3. Cardinality(AllPlaces(new, j)) + Cardinality(Positions(m_pQueues[q][i], j))
            = Cardinality(AllPlaces(m_pQueues, j)) + Cardinality(Positions(new[q][i], j))
      BY <1>1, <2>2, RowChange
    <2> QED
      BY <2>1, <2>3
  <1>6. /\ Cardinality(Positions(m_pQueues[q][i], j)) \in Nat
        /\ Cardinality(AllPlaces(m_pQueues, j)) \in Nat
        /\ Cardinality(AllPlaces(m_pQueues', j)) \in Nat
        /\ One(x = j) \in Nat
    BY <1>1, <1>2, <1>3, PositionsFinite, PlacesFinite DEF One
  <1>7. /\ InQueues(j) = Cardinality(AllPlaces(m_pQueues, j))
        /\ InQueues(j)' = Cardinality(AllPlaces(m_pQueues', j))
    BY DEF InQueues, Places, AllPlaces, Row, Positions
  <1> QED
    BY <1>4, <1>5, <1>6, <1>7

\* A job is taken from the head of a queue.
LEMMA PopPlaces ==
  ASSUME JQTypeOK, NEW t, NEW x, PopItem(t, x), NEW j
  PROVE  InQueues(j)' = InQueues(j) - One(x = j)
  <1>1. PICK q \in Queues :
          /\ level[t] \in Priorities
          /\ m_pQueues[q][level[t]] # <<>>
          /\ x = Head(m_pQueues[q][level[t]])
          /\ m_pQueues' = [m_pQueues EXCEPT ![q][level[t]] = Tail(m_pQueues[q][level[t]])]
    BY DEF PopItem
  <1> DEFINE i == level[t]
             row == m_pQueues[q][i]
  <1>2. m_pQueues \in QueuesType /\ row \in Seq(Jobs) /\ row # <<>> /\ Tail(row) \in Seq(Jobs)
    BY <1>1 DEF JQTypeOK, QueuesType
  <1>3. /\ m_pQueues' \in QueuesType
        /\ m_pQueues'[q][i] = Tail(row)
        /\ \A r \in Queues, k \in Priorities :
             <<r, k>> # <<q, i>> => m_pQueues'[r][k] = m_pQueues[r][k]
    BY <1>1, <1>2 DEF QueuesType
  <1>4. Cardinality(Positions(m_pQueues'[q][i], j)) = Cardinality(Positions(row, j)) - One(x = j)
    BY <1>1, <1>2, <1>3, PositionsTail
  <1>5. Cardinality(AllPlaces(m_pQueues', j)) + Cardinality(Positions(row, j))
          = Cardinality(AllPlaces(m_pQueues, j)) + Cardinality(Positions(m_pQueues'[q][i], j))
    <2>1. PICK new \in QueuesType : new = m_pQueues'
      BY <1>3
    <2>2. PICK k \in Priorities : k = i
      BY <1>1
    <2>3. \A r \in Queues, l \in Priorities : <<r, l>> # <<q, k>> => new[r][l] = m_pQueues[r][l]
      BY <1>3, <2>1, <2>2
    <2>4. Cardinality(AllPlaces(new, j)) + Cardinality(Positions(m_pQueues[q][k], j))
            = Cardinality(AllPlaces(m_pQueues, j)) + Cardinality(Positions(new[q][k], j))
      BY <1>2, <2>3, RowChange
    <2> QED
      BY <2>1, <2>2, <2>4
  <1>6. /\ Cardinality(Positions(row, j)) \in Nat
        /\ Cardinality(AllPlaces(m_pQueues, j)) \in Nat
        /\ Cardinality(AllPlaces(m_pQueues', j)) \in Nat
        /\ One(x = j) \in Nat
    BY <1>2, <1>3, PositionsFinite, PlacesFinite DEF One
  <1>7. /\ InQueues(j) = Cardinality(AllPlaces(m_pQueues, j))
        /\ InQueues(j)' = Cardinality(AllPlaces(m_pQueues', j))
    BY DEF InQueues, Places, AllPlaces, Row, Positions
  <1> QED
    BY <1>4, <1>5, <1>6, <1>7

\* A queue is emptied: its places go, the others stay.
LEMMA EmptyPlaces ==
  ASSUME JQTypeOK, NEW q \in Queues, Empty(q), NEW j
  PROVE  /\ InQueues(j)' + Entries(q, j) = InQueues(j)
         /\ InQueues(j) \in Nat /\ InQueues(j)' \in Nat /\ Entries(q, j) \in Nat
  <1> DEFINE here == UNION {Row(m_pQueues, q, i, j) : i \in Priorities}
             old == AllPlaces(m_pQueues, j)
             new == AllPlaces(m_pQueues', j)
  <1>1. /\ m_pQueues \in QueuesType
        /\ m_pQueues' = [m_pQueues EXCEPT ![q] = [i \in Priorities |-> <<>>]]
    BY DEF Empty, JQTypeOK, QueuesType
  <1>2. \A r \in Queues, k \in Priorities :
          m_pQueues'[r][k] = IF r = q THEN <<>> ELSE m_pQueues[r][k]
    BY <1>1 DEF QueuesType
  <1>3. m_pQueues' \in QueuesType
    <2>1. [i \in Priorities |-> <<>>] \in [Priorities -> Seq(Jobs)]
      OBVIOUS
    <2> QED
      BY <1>1, <2>1 DEF QueuesType
  <1>4. \A k \in Priorities :
          Row(m_pQueues', q, k, j) = {} /\ \A r \in Queues \ {q} :
             Row(m_pQueues', r, k, j) = Row(m_pQueues, r, k, j)
    BY <1>2 DEF Row, Positions
  <1>5. \A r \in Queues, k \in Priorities : \A x \in Row(m_pQueues, r, k, j) : x[1][1] = r
    BY DEF Row
  <1>6. old = here \cup new
    BY <1>4 DEF AllPlaces
  <1>7. here \cap new = {}
    <2>1. \A x \in here : x[1][1] = q
      BY <1>5
    <2>2. \A x \in new : x[1][1] # q
      BY <1>4, <1>5 DEF AllPlaces
    <2> HIDE DEF here, new
    <2> QED
      BY <2>1, <2>2
  <1>8. here = Places(q, j)
    BY DEF Places, Row, Positions
  <1>9. /\ InQueues(j) = Cardinality(old) /\ InQueues(j)' = Cardinality(new)
        /\ Entries(q, j) = Cardinality(here)
    BY <1>8 DEF InQueues, Places, AllPlaces, Row, Positions, Entries
  <1>10. /\ IsFiniteSet(old) /\ IsFiniteSet(new) /\ IsFiniteSet(here)
    BY <1>1, <1>3, PlacesFinite, QueueFinite
  <1> HIDE DEF old, new, here
  <1>11. Cardinality(old) = Cardinality(here) + Cardinality(new)
    BY <1>6, <1>7, <1>10, DisjointUnion
  <1>12. Cardinality(old) \in Nat /\ Cardinality(new) \in Nat /\ Cardinality(here) \in Nat
    BY <1>10, FS_CardinalityType
  <1> QED
    BY <1>9, <1>11, <1>12

LEMMA SamePlaces ==
  ASSUME UNCHANGED m_pQueues, NEW j
  PROVE  InQueues(j)' = InQueues(j)
  BY DEF InQueues, Places

LEMMA InQueuesType ==
  ASSUME JQTypeOK, NEW j
  PROVE  InQueues(j) \in Nat
  <1>1. m_pQueues \in QueuesType
    BY DEF JQTypeOK, QueuesType
  <1> QED
    BY <1>1, PlacesFinite, InQueuesPlaces

-----------------------------------------------------------------------------
(* A hand is empty wherever the thread looks for a job, waits or returns.  *)

\* Where a thread has a job in its hands.
HandLabels(t) ==
  {"check", "lock", "run", "release"} \cup (IF t = Master THEN {"aborting", "keep"} ELSE {})

HandInv == \A t \in Threads : job[t] = NoJob \/ pc[t] \in HandLabels(t)

LEMMA HandInit == PoolInit => HandInv
  BY DEF PoolInit, HandInv

LEMMA EmptyHand ==
  ASSUME CallInv, HandInv, NEW t \in Threads, job[t] = NoJob, UNCHANGED job, NEW l, Goto(t, l)
  PROVE  HandInv'
  BY DEF CallInv, HandInv, Goto

LEMMA PutDownHand ==
  ASSUME CallInv, HandInv, NEW t \in Threads, PutDown(t), NEW l, Goto(t, l)
  PROVE  HandInv'
  BY DEF CallInv, HandInv, Goto, PutDown

LEMMA FullHand ==
  ASSUME CallInv, HandInv, NEW t \in Threads, NEW l \in HandLabels(t), Goto(t, l),
         \A u \in Threads : u # t => job'[u] = job[u]
  PROVE  HandInv'
  BY DEF CallInv, HandInv, Goto

LEMMA SameHands == ASSUME HandInv, UNCHANGED <<pc, job>> PROVE HandInv'
  BY DEF HandInv

LEMMA ServiceHand ==
  ASSUME CallInv, HandInv, NEW t \in Threads, ServiceJob(t)
  PROVE  HandInv'
  <1>1. CASE Search(t)
    BY <1>1, SameHands DEF Search
  <1>2. CASE CheckJob(t) \/ LockJob(t) \/ FinishJob(t)
    <2>1. UNCHANGED job /\ (Goto(t, "lock") \/ Goto(t, "run") \/ Goto(t, "release"))
      BY <1>2 DEF CheckJob, LockJob, FinishJob
    <2>2. {"lock", "run", "release"} \subseteq HandLabels(t)
      BY DEF HandLabels
    <2> QED
      BY <2>1, <2>2, FullHand
  <1>3. CASE ReleaseJob(t)
    <2>1. PutDown(t)
      BY <1>3 DEF ReleaseJob
    <2>2. \E l : Goto(t, l)
      BY <1>3 DEF ReleaseJob, Return, Direct
    <2> QED
      BY <2>1, <2>2, PutDownHand
  <1> QED
    BY <1>1, <1>2, <1>3 DEF ServiceJob

LEMMA WorkerHand ==
  ASSUME CallInv, HandInv, NEW w \in Workers, WorkerNext(w)
  PROVE  HandInv'
  <1>1. w \in Threads /\ w # Master
    BY PoolNames
  <1>2. CASE Wake(w) \/ Reply(w) \/ Suspend(w) \/ Resumed(w) \/ Exit(w) \/ PopQueues(w)
    <2>1. /\ pc[w] \in {"wait", "called", "replied", "suspended", "exiting", "direct", "shared"}
          /\ UNCHANGED job
      BY <1>2 DEF Wake, Reply, Suspend, Resumed, Exit, PopQueues
    <2>2. \E l : Goto(w, l)
      BY <1>2 DEF Wake, Reply, Suspend, Resumed, Exit, PopQueues
    <2>3. job[w] = NoJob
      BY <1>1, <2>1 DEF HandInv, HandLabels
    <2> QED
      BY <1>1, <2>1, <2>2, <2>3, EmptyHand
  <1>3. CASE TakeJob(w)
    <2>1. Goto(w, "check") /\ "check" \in HandLabels(w)
      BY <1>3 DEF TakeJob, HandLabels
    <2>2. PICK x : job' = [job EXCEPT ![w] = x]
      BY <1>3 DEF TakeJob
    <2>3. \A u \in Threads : u # w => job'[u] = job[u]
      BY <2>2 DEF CallInv
    <2> QED
      BY <1>1, <2>1, <2>3, FullHand
  <1> QED
    BY <1>1, <1>2, <1>3, ServiceHand DEF WorkerNext

LEMMA CallsHand ==
  ASSUME CallInv, HandInv, MasterCalls
  PROVE  HandInv' /\ job[Master] = NoJob
  <1>1. Master \in Threads
    BY PoolNames
  <1>2. pc[Master] = "ready"
    BY DEF MasterCalls, AddJob, YieldWait, OwnerCall, ChangePriority, ExecuteToPriority,
           SuspendExecution, AbortAll, Stop, Begin
  <1>3. job[Master] = NoJob
    BY <1>1, <1>2 DEF HandInv, HandLabels
  <1>4. ASSUME NEW l, Goto(Master, l), UNCHANGED job PROVE HandInv'
    BY <1>1, <1>3, <1>4, EmptyHand
  <1>5. ASSUME NEW l \in {"check", "aborting"}, Goto(Master, l),
               NEW x, job' = [job EXCEPT ![Master] = x]
        PROVE  HandInv'
    <2>1. l \in HandLabels(Master)
      BY <1>5 DEF HandLabels
    <2>2. \A u \in Threads : u # Master => job'[u] = job[u]
      BY <1>5 DEF CallInv
    <2> QED
      BY <1>1, <1>5, <2>1, <2>2, FullHand
  <1>6. ASSUME NEW x \in Jobs, AddJob(x) PROVE HandInv'
    <2>1. \/ Goto(Master, "check") /\ job' = [job EXCEPT ![Master] = x]
          \/ Goto(Master, "count") /\ UNCHANGED job
      BY <1>6 DEF AddJob, Begin
    <2> QED
      BY <1>4, <1>5, <2>1
  <1>7. ASSUME NEW x \in Jobs, NEW p \in Priorities, ChangePriority(x, p) PROVE HandInv'
    BY <1>4, <1>7 DEF ChangePriority, Begin
  <1>8. ASSUME NEW x \in Jobs, YieldWait(x) PROVE HandInv'
    BY <1>4, <1>8 DEF YieldWait, Begin
  <1>9. ASSUME NEW x \in Jobs, OwnerCall("Execute", x, "check") PROVE HandInv'
    BY <1>5, <1>9 DEF OwnerCall, Begin
  <1>10. ASSUME NEW x \in Jobs, OwnerCall("Abort", x, "aborting") PROVE HandInv'
    BY <1>5, <1>10 DEF OwnerCall, Begin
  <1>11. ASSUME NEW p \in Priorities, NEW f, ExecuteToPriority(p, f) PROVE HandInv'
    BY <1>4, <1>11 DEF ExecuteToPriority, Begin
  <1>12. ASSUME SuspendExecution \/ AbortAll \/ Stop PROVE HandInv'
    BY <1>4, <1>12 DEF SuspendExecution, AbortAll, Stop, Begin
  <1> QED
    BY <1>3, <1>6, <1>7, <1>8, <1>9, <1>10, <1>11, <1>12 DEF MasterCalls

LEMMA ContinuesHand ==
  ASSUME CallInv, HandInv, MasterContinues
  PROVE  HandInv'
  <1>1. Master \in Threads
    BY PoolNames
  <1>2. ASSUME pc[Master] \notin {"check", "lock", "run", "release", "aborting", "keep"},
               UNCHANGED job, (\E l : Goto(Master, l)) \/ UNCHANGED pc
        PROVE  HandInv'
    <2>1. job[Master] = NoJob
      BY <1>1, <1>2 DEF HandInv, HandLabels
    <2> QED
      BY <1>1, <1>2, <2>1, EmptyHand, SameHands
  <1>3. CASE Count \/ PutBack
    BY <1>2, <1>3 DEF Count, PutBack, Return
  <1>4. CASE CallWorker \/ AwaitSuspended \/ Join
    BY <1>2, <1>4 DEF CallWorker, AwaitSuspended, Join, NextThread
  <1>5. CASE Suspended \/ ResumeAndReturn \/ Flush
    BY <1>2, <1>5 DEF Suspended, ResumeAndReturn, Flush, Return
  <1>6. CASE PopToAbort \/ PopToExecute
    BY <1>2, <1>6 DEF PopToAbort, PopToExecute
  <1>7. CASE Yield \/ YieldDone
    BY <1>2, <1>7 DEF Yield, YieldDone, Return
  <1>8. CASE AbortJob \/ KeepJob
    <2>1. PutDown(Master)
      BY <1>8 DEF AbortJob, KeepJob
    <2>2. \E l : Goto(Master, l)
      BY <1>8 DEF AbortJob, KeepJob, Return
    <2> QED
      BY <1>1, <2>1, <2>2, PutDownHand
  <1>9. CASE MasterTakeJob
    <2>1. PICK x \in Jobs :
            /\ job' = [job EXCEPT ![Master] = x]
            /\ Goto(Master, CASE op = "AbortAll" -> "aborting"
                              [] op = "ExecuteToPriority" /\ x \notin filter -> "keep"
                              [] OTHER -> "check")
      BY <1>9 DEF MasterTakeJob
    <2>2. PICK l \in {"aborting", "keep", "check"} : Goto(Master, l)
      BY <2>1
    <2>3. l \in HandLabels(Master)
      BY <2>2 DEF HandLabels
    <2>4. \A u \in Threads : u # Master => job'[u] = job[u]
      BY <2>1 DEF CallInv
    <2> QED
      BY <1>1, <2>2, <2>3, <2>4, FullHand
  <1> QED
    BY <1>1, <1>3, <1>4, <1>5, <1>6, <1>7, <1>8, <1>9, ServiceHand DEF MasterContinues

LEMMA HandStep == CallInv /\ HandInv /\ [PoolNext]_vars => HandInv'
  <1> SUFFICES ASSUME CallInv, HandInv, [PoolNext]_vars PROVE HandInv'
    OBVIOUS
  <1>1. CASE ResumeExecution \/ UNCHANGED vars
    BY <1>1, SameHands DEF ResumeExecution, vars
  <1> QED
    BY <1>1, WorkerHand, CallsHand, ContinuesHand DEF PoolNext

-----------------------------------------------------------------------------
(* The references of a job, and the places that count on them.             *)

Hands(j) == Cardinality(Holders(j))
Kept(j) == Cardinality(Positions(putBack, j))

\* The owner of a job has a reference beside all of them.
RefInv ==
  /\ m_nRefs \in [Jobs -> Int]
  /\ \A j \in Jobs : m_nRefs[j] > InQueues(j) + Hands(j) + Kept(j)

LEMMA ThreadsPart ==
  ASSUME NEW S, S \subseteq Threads
  PROVE  IsFiniteSet(S) /\ Cardinality(S) \in Nat
  BY ThreadsAssumption, FS_Subset, FS_CardinalityType

LEMMA HoldersPart ==
  ASSUME NEW j
  PROVE  Holders(j) \subseteq Threads /\ Holders(j)' \subseteq Threads
  BY DEF Holders

\* No thread more has the job, or one thread more, or one less.
LEMMA HandsFewer ==
  ASSUME NEW S, NEW S2, S \subseteq Threads, S2 \subseteq S
  PROVE  Cardinality(S2) <= Cardinality(S)
  BY ThreadsPart, FS_Subset

LEMMA HandsMore ==
  ASSUME NEW S, NEW S2, S \subseteq Threads, NEW t \in Threads, NEW b \in BOOLEAN,
         S2 \subseteq S \cup (IF b THEN {t} ELSE {})
  PROVE  Cardinality(S2) <= Cardinality(S) + One(b)
  <1>1. Cardinality(S) \in Nat /\ IsFiniteSet(S)
    BY ThreadsPart
  <1>2. CASE b
    <2>1. IsFiniteSet(S \cup {t}) /\ Cardinality(S \cup {t}) <= Cardinality(S) + 1
      BY <1>1, FS_AddElement
    <2>2. S2 \subseteq S \cup {t}
      BY <1>2
    <2>3. Cardinality(S2) <= Cardinality(S \cup {t})
      BY <2>1, <2>2, FS_Subset
    <2>4. Cardinality(S2) \in Nat /\ Cardinality(S \cup {t}) \in Nat
      <3>1. S2 \subseteq Threads /\ S \cup {t} \subseteq Threads
        BY <2>2
      <3> QED
        BY <3>1, ThreadsPart
    <2> QED
      BY <1>1, <1>2, <2>1, <2>3, <2>4 DEF One
  <1>3. CASE ~b
    <2>1. S2 \subseteq S
      BY <1>3
    <2>2. Cardinality(S2) <= Cardinality(S)
      BY <2>1, HandsFewer
    <2> QED
      BY <1>1, <1>3, <2>2 DEF One
  <1> QED
    BY <1>2, <1>3

LEMMA HandsLess ==
  ASSUME NEW S, NEW S2, S \subseteq Threads, NEW t \in Threads, NEW b \in BOOLEAN,
         b => t \in S, S2 \subseteq S \ (IF b THEN {t} ELSE {})
  PROVE  Cardinality(S2) + One(b) <= Cardinality(S)
  <1>1. Cardinality(S) \in Nat /\ IsFiniteSet(S)
    BY ThreadsPart
  <1>2. CASE b
    <2>1. IsFiniteSet(S \ {t}) /\ Cardinality(S \ {t}) = Cardinality(S) - 1
      BY <1>1, <1>2, FS_RemoveElement
    <2>2. S2 \subseteq S \ {t}
      BY <1>2
    <2>3. Cardinality(S2) <= Cardinality(S \ {t})
      BY <2>1, <2>2, FS_Subset
    <2>4. Cardinality(S2) \in Nat
      <3>1. S2 \subseteq Threads
        BY <2>2
      <3> QED
        BY <3>1, ThreadsPart
    <2> QED
      BY <1>1, <1>2, <2>1, <2>3, <2>4 DEF One
  <1>3. CASE ~b
    <2>1. S2 \subseteq S /\ S2 \subseteq Threads
      BY <1>3
    <2>2. Cardinality(S2) <= Cardinality(S) /\ Cardinality(S2) \in Nat
      BY <2>1, HandsFewer, ThreadsPart
    <2> QED
      BY <1>1, <1>3, <2>2 DEF One
  <1> QED
    BY <1>2, <1>3

\* The numbers of both states.
LEMMA UsesTypes ==
  ASSUME JQTypeOK, JQTypeOK', CallInv, CallInv', NEW j
  PROVE  /\ InQueues(j) \in Nat /\ InQueues(j)' \in Nat
         /\ Hands(j) \in Nat /\ Hands(j)' \in Nat
         /\ Kept(j) \in Nat /\ Kept(j)' \in Nat
  <1>1. InQueues(j) \in Nat
    BY InQueuesType
  <1>2. InQueues(j)' \in Nat
    <2>1. m_pQueues' \in QueuesType
      BY DEF JQTypeOK, QueuesType
    <2>2. InQueues(j)' = Cardinality(AllPlaces(m_pQueues', j))
      BY DEF InQueues, Places, AllPlaces, Row, Positions
    <2> QED
      BY <2>1, <2>2, PlacesFinite
  <1>3. Hands(j) \in Nat /\ Hands(j)' \in Nat
    BY HoldersPart, ThreadsPart DEF Hands
  <1>4. putBack \in Seq(Jobs) /\ putBack' \in Seq(Jobs)
    BY DEF CallInv
  <1>5. Kept(j) \in Nat
    BY <1>4, PositionsFinite DEF Kept
  <1>6. Kept(j)' = Cardinality(Positions(putBack', j))
    BY DEF Kept, Positions
  <1>7. Kept(j)' \in Nat
    BY <1>4, <1>6, PositionsFinite
  <1> QED
    BY <1>1, <1>2, <1>3, <1>5, <1>7

\* One reference more, or one less.
LEMMA RefUp ==
  ASSUME m_nRefs \in [Jobs -> Int], NEW x, AddRef(x)
  PROVE  /\ m_nRefs' \in [Jobs -> Int]
         /\ \A j \in Jobs : m_nRefs'[j] = m_nRefs[j] + One(x = j)
  <1>1. m_nRefs' = [m_nRefs EXCEPT ![x] = m_nRefs[x] + 1]
    BY DEF AddRef
  <1>2. CASE x \in Jobs
    <2>1. m_nRefs[x] + 1 \in Int
      BY <1>2
    <2>2. m_nRefs' \in [Jobs -> Int]
      BY <1>1, <2>1
    <2>3. ASSUME NEW j \in Jobs PROVE m_nRefs'[j] = m_nRefs[j] + One(x = j)
      BY <1>1, <2>3 DEF One
    <2> QED
      BY <2>2, <2>3
  <1>3. CASE x \notin Jobs
    <2>1. m_nRefs' = m_nRefs
      BY <1>1, <1>3
    <2>2. ASSUME NEW j \in Jobs PROVE m_nRefs'[j] = m_nRefs[j] + One(x = j)
      BY <1>3, <2>1 DEF One
    <2> QED
      BY <2>1, <2>2
  <1> QED
    BY <1>2, <1>3

LEMMA RefDown ==
  ASSUME m_nRefs \in [Jobs -> Int], NEW x, m_nRefs' = [m_nRefs EXCEPT ![x] = m_nRefs[x] - 1]
  PROVE  /\ m_nRefs' \in [Jobs -> Int]
         /\ \A j \in Jobs : m_nRefs'[j] = m_nRefs[j] - One(x = j)
  <1>1. CASE x \in Jobs
    <2>1. m_nRefs[x] - 1 \in Int
      BY <1>1
    <2>2. m_nRefs' \in [Jobs -> Int]
      BY <2>1
    <2>3. ASSUME NEW j \in Jobs PROVE m_nRefs'[j] = m_nRefs[j] - One(x = j)
      BY <2>3 DEF One
    <2> QED
      BY <2>2, <2>3
  <1>2. CASE x \notin Jobs
    <2>1. m_nRefs' = m_nRefs
      BY <1>2
    <2>2. ASSUME NEW j \in Jobs PROVE m_nRefs'[j] = m_nRefs[j] - One(x = j)
      BY <1>2, <2>1 DEF One
    <2> QED
      BY <2>1, <2>2
  <1> QED
    BY <1>1, <1>2

LEMMA KeptSame == ASSUME UNCHANGED putBack, NEW j PROVE Kept(j)' = Kept(j)
  BY DEF Kept, Positions

LEMMA KeptNone == ASSUME putBack' = <<>>, NEW j PROVE Kept(j)' = 0
  <1>1. Positions(<<>>, j) = {}
    BY DEF Positions
  <1>2. Kept(j)' = Cardinality(Positions(<<>>, j))
    BY DEF Kept, Positions
  <1> QED
    BY <1>1, <1>2, FS_EmptySet

\* A step that changes no queue and no reference, keeps no job and gives no
\* thread one whose reference it will release.
LEMMA QuietRef ==
  ASSUME JQTypeOK, JQTypeOK', CallInv, CallInv', RefInv,
         UNCHANGED <<m_pQueues, m_nRefs>>, putBack' = putBack \/ putBack' = <<>>,
         \A j \in Jobs : Holders(j)' \subseteq Holders(j)
  PROVE  RefInv'
  <1>1. ASSUME NEW j \in Jobs PROVE m_nRefs'[j] > InQueues(j)' + Hands(j)' + Kept(j)'
    <2>1. Hands(j)' <= Hands(j)
      BY HoldersPart, HandsFewer DEF Hands
    <2>2. Kept(j)' <= Kept(j)
      BY KeptSame, KeptNone, UsesTypes
    <2>3. InQueues(j)' = InQueues(j)
      BY SamePlaces
    <2> QED
      BY <2>1, <2>2, <2>3, UsesTypes DEF RefInv
  <1> QED
    BY <1>1 DEF RefInv

\* Hands that stay as they are: the job is the same, and so is the call or the
\* hand of the master is empty.
LEMMA SameHolders ==
  ASSUME UNCHANGED job, op' = op \/ job[Master] = NoJob, NEW j \in Jobs
  PROVE  Holders(j)' \subseteq Holders(j)
  BY PoolAssumption DEF Holders

LEMMA PutDownHolders ==
  ASSUME CallInv, NEW t \in Threads, PutDown(t), op' = op \/ t = Master, NEW j \in Jobs
  PROVE  Holders(j)' \subseteq Holders(j) \ {t}
  BY PoolAssumption DEF Holders, PutDown, CallInv

LEMMA TakenHolders ==
  ASSUME CallInv, NEW t \in Threads, NEW x \in Jobs, job' = [job EXCEPT ![t] = x], op' = op,
         NEW j \in Jobs
  PROVE  Holders(j)' \subseteq Holders(j) \cup (IF x = j THEN {t} ELSE {})
  BY DEF Holders, CallInv

LEMMA BorrowedHolders ==
  ASSUME CallInv, NEW x, job' = [job EXCEPT ![Master] = x],
         op' \in {"AddJob", "Execute", "Abort"}, NEW j \in Jobs
  PROVE  Holders(j)' \subseteq Holders(j)
  BY PoolNames DEF Holders, CallInv

\* A job is put into a queue, with a reference of its own.
LEMMA PushRef ==
  ASSUME JQTypeOK, JQTypeOK', CallInv, CallInv', RefInv,
         NEW q \in Queues, NEW x \in Jobs, NEW i \in Priorities, PushItem(Master, q, x, i),
         AddRef(x), UNCHANGED putBack,
         \A j \in Jobs : Holders(j)' \subseteq Holders(j)
  PROVE  RefInv'
  <1>1. /\ m_nRefs' \in [Jobs -> Int]
        /\ \A j \in Jobs : m_nRefs'[j] = m_nRefs[j] + One(x = j)
    BY RefUp DEF RefInv
  <1>2. ASSUME NEW j \in Jobs PROVE m_nRefs'[j] > InQueues(j)' + Hands(j)' + Kept(j)'
    <2>1. InQueues(j)' = InQueues(j) + One(x = j)
      BY PushPlaces
    <2>2. Hands(j)' <= Hands(j)
      BY HoldersPart, HandsFewer DEF Hands
    <2>3. Kept(j)' = Kept(j)
      BY KeptSame
    <2>4. One(x = j) \in Nat /\ m_nRefs[j] \in Int /\ m_nRefs[j] > InQueues(j) + Hands(j) + Kept(j)
      BY DEF One, RefInv
    <2>5. m_nRefs'[j] = m_nRefs[j] + One(x = j)
      BY <1>1
    <2>6. /\ InQueues(j) \in Nat /\ InQueues(j)' \in Nat
          /\ Hands(j) \in Nat /\ Hands(j)' \in Nat
          /\ Kept(j) \in Nat /\ Kept(j)' \in Nat
      BY UsesTypes
    <2> QED
      BY <2>1, <2>2, <2>3, <2>4, <2>5, <2>6
  <1> QED
    BY <1>1, <1>2 DEF RefInv

\* A thread takes a job out of a queue: the reference of the place is now that
\* of its hand.
LEMMA PopRef ==
  ASSUME JQTypeOK, JQTypeOK', CallInv, CallInv', RefInv,
         NEW t \in Threads, NEW x \in Jobs, PopItem(t, x), job' = [job EXCEPT ![t] = x],
         UNCHANGED <<op, putBack, m_nRefs>>
  PROVE  RefInv'
  <1>1. ASSUME NEW j \in Jobs PROVE m_nRefs'[j] > InQueues(j)' + Hands(j)' + Kept(j)'
    <2>1. InQueues(j)' = InQueues(j) - One(x = j)
      BY PopPlaces
    <2>2. Hands(j)' <= Hands(j) + One(x = j)
      <3>1. Holders(j)' \subseteq Holders(j) \cup (IF x = j THEN {t} ELSE {})
        BY TakenHolders
      <3>2. (x = j) \in BOOLEAN
        OBVIOUS
      <3> QED
        BY <3>1, <3>2, HoldersPart, HandsMore DEF Hands
    <2>3. Kept(j)' = Kept(j)
      BY KeptSame
    <2>4. One(x = j) \in Nat /\ m_nRefs[j] \in Int /\ m_nRefs[j] > InQueues(j) + Hands(j) + Kept(j)
      BY DEF One, RefInv
    <2>5. m_nRefs'[j] = m_nRefs[j]
      OBVIOUS
    <2>6. /\ InQueues(j) \in Nat /\ InQueues(j)' \in Nat
          /\ Hands(j) \in Nat /\ Hands(j)' \in Nat
          /\ Kept(j) \in Nat /\ Kept(j)' \in Nat
      BY UsesTypes
    <2> QED
      BY <2>1, <2>2, <2>3, <2>4, <2>5, <2>6
  <1> QED
    BY <1>1 DEF RefInv

\* A thread gives up the reference of the job in its hands.
LEMMA DropRef ==
  ASSUME JQTypeOK, JQTypeOK', CallInv, CallInv', RefInv,
         NEW t \in Threads, PutDown(t), ~(t = Master /\ op \in {"AddJob", "Execute", "Abort"}),
         op' = op \/ t = Master,
         m_nRefs' = [m_nRefs EXCEPT ![job[t]] = m_nRefs[job[t]] - 1],
         UNCHANGED <<m_pQueues, putBack>>
  PROVE  RefInv'
  <1>1. /\ m_nRefs' \in [Jobs -> Int]
        /\ \A j \in Jobs : m_nRefs'[j] = m_nRefs[j] - One(job[t] = j)
    BY RefDown DEF RefInv
  <1>2. ASSUME NEW j \in Jobs PROVE m_nRefs'[j] > InQueues(j)' + Hands(j)' + Kept(j)'
    <2>1. InQueues(j)' = InQueues(j)
      BY SamePlaces
    <2>2. Hands(j)' + One(job[t] = j) <= Hands(j)
      <3>1. Holders(j)' \subseteq Holders(j) \ (IF job[t] = j THEN {t} ELSE {})
        BY PutDownHolders
      <3>2. (job[t] = j) \in BOOLEAN /\ (job[t] = j => t \in Holders(j))
        BY DEF Holders
      <3> QED
        BY <3>1, <3>2, HoldersPart, HandsLess DEF Hands
    <2>3. Kept(j)' = Kept(j)
      BY KeptSame
    <2>4. /\ One(job[t] = j) \in Nat /\ m_nRefs[j] \in Int
          /\ m_nRefs[j] > InQueues(j) + Hands(j) + Kept(j)
      BY DEF One, RefInv
    <2>5. m_nRefs'[j] = m_nRefs[j] - One(job[t] = j)
      BY <1>1
    <2>6. /\ InQueues(j) \in Nat /\ InQueues(j)' \in Nat
          /\ Hands(j) \in Nat /\ Hands(j)' \in Nat
          /\ Kept(j) \in Nat /\ Kept(j)' \in Nat
      BY UsesTypes
    <2> QED
      BY <2>1, <2>2, <2>3, <2>4, <2>5, <2>6
  <1> QED
    BY <1>1, <1>2 DEF RefInv

\* ExecuteToPriority keeps a job: the reference of the hand is that of the
\* place in jobsToPutBack.
LEMMA KeepRef ==
  ASSUME JQTypeOK, JQTypeOK', CallInv, CallInv', RefInv,
         PutDown(Master), op = "ExecuteToPriority", op' = op, job[Master] \in Jobs,
         putBack' = Append(putBack, job[Master]),
         UNCHANGED <<m_pQueues, m_nRefs>>
  PROVE  RefInv'
  <1>1. ASSUME NEW j \in Jobs PROVE m_nRefs'[j] > InQueues(j)' + Hands(j)' + Kept(j)'
    <2> DEFINE b == One(job[Master] = j)
    <2>1. InQueues(j)' = InQueues(j)
      BY SamePlaces
    <2>2. Hands(j)' + b <= Hands(j)
      <3>1. Holders(j)' \subseteq Holders(j) \ (IF job[Master] = j THEN {Master} ELSE {})
        BY PutDownHolders, PoolNames
      <3>2. (job[Master] = j) \in BOOLEAN /\ (job[Master] = j => Master \in Holders(j))
        BY PoolNames DEF Holders
      <3> QED
        BY <3>1, <3>2, HoldersPart, HandsLess, PoolNames DEF Hands
    <2>3. Kept(j)' = Kept(j) + b
      <3>1. putBack \in Seq(Jobs)
        BY DEF CallInv
      <3>2. Kept(j)' = Cardinality(Positions(Append(putBack, job[Master]), j))
        BY DEF Kept, Positions
      <3> QED
        BY <3>1, <3>2, PositionsAppend DEF Kept
    <2>4. b \in Nat /\ m_nRefs[j] \in Int /\ m_nRefs[j] > InQueues(j) + Hands(j) + Kept(j)
      BY DEF One, RefInv
    <2>5. m_nRefs'[j] = m_nRefs[j]
      OBVIOUS
    <2> HIDE DEF b
    <2>6. /\ InQueues(j) \in Nat /\ InQueues(j)' \in Nat
          /\ Hands(j) \in Nat /\ Hands(j)' \in Nat
          /\ Kept(j) \in Nat /\ Kept(j)' \in Nat
      BY UsesTypes
    <2> QED
      BY <2>1, <2>2, <2>3, <2>4, <2>5, <2>6
  <1> QED
    BY <1>1 DEF RefInv

\* ExecuteToPriority has put a job back and gives up its own reference.
LEMMA PutBackRef ==
  ASSUME JQTypeOK, JQTypeOK', CallInv, CallInv', RefInv,
         putBack # <<>>, putBack' = Tail(putBack),
         m_nRefs' = [m_nRefs EXCEPT ![Head(putBack)] = m_nRefs[Head(putBack)] - 1],
         UNCHANGED <<m_pQueues, job, op>>
  PROVE  RefInv'
  <1>1. /\ m_nRefs' \in [Jobs -> Int]
        /\ \A j \in Jobs : m_nRefs'[j] = m_nRefs[j] - One(Head(putBack) = j)
    BY RefDown DEF RefInv
  <1>2. ASSUME NEW j \in Jobs PROVE m_nRefs'[j] > InQueues(j)' + Hands(j)' + Kept(j)'
    <2> DEFINE b == One(Head(putBack) = j)
    <2>1. InQueues(j)' = InQueues(j)
      BY SamePlaces
    <2>2. Hands(j)' <= Hands(j)
      BY SameHolders, HoldersPart, HandsFewer DEF Hands
    <2>3. Kept(j)' = Kept(j) - b
      <3>1. putBack \in Seq(Jobs)
        BY DEF CallInv
      <3>2. Kept(j)' = Cardinality(Positions(Tail(putBack), j))
        BY DEF Kept, Positions
      <3> QED
        BY <3>1, <3>2, PositionsTail DEF Kept
    <2>4. b \in Nat /\ m_nRefs[j] \in Int /\ m_nRefs[j] > InQueues(j) + Hands(j) + Kept(j)
      BY DEF One, RefInv
    <2>5. m_nRefs'[j] = m_nRefs[j] - b
      BY <1>1
    <2> HIDE DEF b
    <2>6. /\ InQueues(j) \in Nat /\ InQueues(j)' \in Nat
          /\ Hands(j) \in Nat /\ Hands(j)' \in Nat
          /\ Kept(j) \in Nat /\ Kept(j)' \in Nat
      BY UsesTypes
    <2> QED
      BY <2>1, <2>2, <2>3, <2>4, <2>5, <2>6
  <1> QED
    BY <1>1, <1>2 DEF RefInv

\* A queue is emptied with its references, or without (Stop deletes a worker).
LEMMA EmptyRef ==
  ASSUME JQTypeOK, JQTypeOK', CallInv, CallInv', RefInv,
         NEW q \in Queues, Empty(q),
         \/ UNCHANGED m_nRefs
         \/ m_nRefs' = [j \in Jobs |-> m_nRefs[j] - Entries(q, j)],
         putBack' = putBack \/ putBack' = <<>>,
         \A j \in Jobs : Holders(j)' \subseteq Holders(j)
  PROVE  RefInv'
  <1>1. ASSUME NEW j \in Jobs
        PROVE  m_nRefs'[j] \in Int /\ m_nRefs'[j] > InQueues(j)' + Hands(j)' + Kept(j)'
    <2>1. InQueues(j)' + Entries(q, j) = InQueues(j) /\ Entries(q, j) \in Nat
      BY EmptyPlaces
    <2>2. Hands(j)' <= Hands(j)
      BY HoldersPart, HandsFewer DEF Hands
    <2>3. Kept(j)' <= Kept(j)
      BY KeptSame, KeptNone, UsesTypes
    <2>4. m_nRefs[j] \in Int /\ m_nRefs[j] > InQueues(j) + Hands(j) + Kept(j)
      BY DEF RefInv
    <2>5. m_nRefs'[j] = m_nRefs[j] \/ m_nRefs'[j] = m_nRefs[j] - Entries(q, j)
      OBVIOUS
    <2>6. /\ InQueues(j) \in Nat /\ InQueues(j)' \in Nat
          /\ Hands(j) \in Nat /\ Hands(j)' \in Nat
          /\ Kept(j) \in Nat /\ Kept(j)' \in Nat
      BY UsesTypes
    <2> QED
      BY <2>1, <2>2, <2>3, <2>4, <2>5, <2>6
  <1>2. m_nRefs' = [j \in Jobs |-> m_nRefs'[j]]
    BY DEF RefInv
  <1> QED
    BY <1>1, <1>2 DEF RefInv

-----------------------------------------------------------------------------
(* Every step keeps the references covering.                               *)

\* The states before and after a step.
RefPair ==
  /\ JQTypeOK /\ CallInv /\ HandInv /\ RefInv
  /\ JQTypeOK' /\ CallInv'

LEMMA RefInit == PoolInit => RefInv
  <1> SUFFICES ASSUME PoolInit PROVE RefInv
    OBVIOUS
  <1>1. m_nRefs = [j \in Jobs |-> 1]
    BY DEF PoolInit
  <1>2. ASSUME NEW j \in Jobs PROVE InQueues(j) = 0 /\ Hands(j) = 0 /\ Kept(j) = 0
    <2>1. m_pQueues = [q \in Queues |-> [i \in Priorities |-> <<>>]]
      BY DEF PoolInit, JQInit
    <2>2. UNION {Places(q, j) : q \in Queues} = {}
      BY <2>1 DEF Places
    <2>3. Holders(j) = {}
      BY PoolAssumption DEF PoolInit, Holders
    <2>4. Positions(putBack, j) = {}
      BY DEF PoolInit, Positions
    <2> QED
      BY <2>2, <2>3, <2>4, FS_EmptySet DEF InQueues, Hands, Kept
  <1> QED
    BY <1>1, <1>2 DEF RefInv

LEMMA StaysRef ==
  ASSUME RefPair, UNCHANGED <<m_pQueues, m_nRefs, job>>,
         putBack' = putBack \/ putBack' = <<>>, op' = op \/ job[Master] = NoJob
  PROVE  RefInv'
  <1>1. \A j \in Jobs : Holders(j)' \subseteq Holders(j)
    BY SameHolders
  <1> QED
    BY <1>1, QuietRef DEF RefPair

LEMMA ServiceRef ==
  ASSUME RefPair, NEW t \in Threads, ServiceJob(t)
  PROVE  RefInv'
  <1>1. CASE Search(t)
    <2>1. UNCHANGED <<m_pQueues, m_nRefs, job, putBack, op>>
      BY <1>1 DEF Search, NextPriority, jobVars, opVars
    <2> QED
      BY <2>1, StaysRef
  <1>2. CASE CheckJob(t) \/ LockJob(t) \/ FinishJob(t)
    <2>1. UNCHANGED <<m_pQueues, m_nRefs, job, putBack, op>>
      BY <1>2 DEF CheckJob, LockJob, FinishJob, jqVars, jobVars, opVars
    <2> QED
      BY <2>1, StaysRef
  <1>3. CASE ReleaseJob(t)
    <2>1. PutDown(t) /\ pc[t] = "release" /\ UNCHANGED m_pQueues
      BY <1>3 DEF ReleaseJob, jqVars
    <2>2. CASE Direct(t)
      <3>1. t = Master /\ UNCHANGED m_nRefs /\ putBack' = <<>>
        BY <1>3, <2>2 DEF ReleaseJob, Direct, Return
      <3>2. \A j \in Jobs : Holders(j)' \subseteq Holders(j)
        BY <2>1, <3>1, PutDownHolders DEF RefPair
      <3> QED
        BY <2>1, <3>1, <3>2, QuietRef DEF RefPair
    <2>3. CASE ~Direct(t)
      <3>1. /\ m_nRefs' = [m_nRefs EXCEPT ![job[t]] = m_nRefs[job[t]] - 1]
            /\ UNCHANGED <<op, putBack>>
        BY <1>3, <2>3 DEF ReleaseJob, opVars
      <3>2. ~(t = Master /\ op \in {"AddJob", "Execute", "Abort"})
        <4>1. t = Master => op \in {"AddJob", "Execute", "YieldWait", "ExecuteToPriority"}
          BY <2>1 DEF RefPair, CallInv, OpsAt
        <4> QED
          BY <2>3, <4>1 DEF Direct
      <3> QED
        BY <2>1, <3>1, <3>2, DropRef DEF RefPair
    <2> QED
      BY <2>2, <2>3
  <1> QED
    BY <1>1, <1>2, <1>3 DEF ServiceJob

LEMMA WorkerRef ==
  ASSUME RefPair, NEW w \in Workers, WorkerNext(w)
  PROVE  RefInv'
  <1>1. w \in Threads
    BY PoolNames
  <1>2. CASE Wake(w) \/ Reply(w) \/ Suspend(w) \/ Resumed(w) \/ Exit(w) \/ PopQueues(w)
    <2>1. UNCHANGED <<m_pQueues, m_nRefs, job, putBack, op>>
      BY <1>2
      DEF Wake, Reply, Suspend, Resumed, Exit, PopQueues, TakePermit, jqVars, jobVars, opVars
    <2> QED
      BY <2>1, StaysRef
  <1>3. CASE TakeJob(w)
    <2>1. PICK x \in Jobs : PopItem(w, x) /\ job' = [job EXCEPT ![w] = x]
      BY <1>3 DEF TakeJob
    <2>2. UNCHANGED <<op, putBack, m_nRefs>>
      BY <1>3 DEF TakeJob, jobVars, opVars
    <2> QED
      BY <1>1, <2>1, <2>2, PopRef DEF RefPair
  <1> QED
    BY <1>1, <1>2, <1>3, ServiceRef DEF WorkerNext

LEMMA CallsRef ==
  ASSUME RefPair, MasterCalls
  PROVE  RefInv'
  <1>1. job[Master] = NoJob
    BY CallsHand DEF RefPair
  <1>2. ASSUME UNCHANGED <<m_pQueues, m_nRefs, job, putBack>> PROVE RefInv'
    BY <1>1, <1>2, StaysRef
  <1>3. ASSUME UNCHANGED <<m_pQueues, m_nRefs, putBack>>, NEW x,
               job' = [job EXCEPT ![Master] = x], op' \in {"AddJob", "Execute", "Abort"}
        PROVE  RefInv'
    <2>1. \A j \in Jobs : Holders(j)' \subseteq Holders(j)
      BY <1>3, BorrowedHolders DEF RefPair
    <2> QED
      BY <1>3, <2>1, QuietRef DEF RefPair
  <1>4. ASSUME NEW q \in Queues, NEW x \in Jobs, NEW i \in Priorities,
               PushItem(Master, q, x, i), AddRef(x), UNCHANGED <<putBack, job>>
        PROVE  RefInv'
    <2>1. \A j \in Jobs : Holders(j)' \subseteq Holders(j)
      BY <1>1, <1>4, SameHolders
    <2> QED
      BY <1>4, <2>1, PushRef DEF RefPair
  <1>5. ASSUME NEW x \in Jobs, AddJob(x) PROVE RefInv'
    <2>1. CASE /\ Begin("AddJob", x, {}, JP_LOW, "check")
               /\ job' = [job EXCEPT ![Master] = x] /\ UNCHANGED <<jqVars, jobVars>>
      BY <1>3, <2>1 DEF Begin, jqVars, jobVars
    <2>2. CASE /\ Begin("AddJob", x, {}, JP_LOW, "count")
               /\ m_priority' = IF x \in QueueJobs THEN m_priority
                                ELSE [m_priority EXCEPT ![x] = JP_HIGH]
               /\ AddRef(x) /\ PushItem(Master, QueueOf(x), x, m_priority'[x])
               /\ UNCHANGED job
      <3>1. m_priority'[x] \in Priorities
        BY DEF RefPair, CallInv
      <3>2. UNCHANGED putBack
        BY <2>2 DEF Begin
      <3> QED
        BY <2>2, <3>1, <3>2, <1>4, OrdersAreQueues
    <2> QED
      BY <1>5, <2>1, <2>2 DEF AddJob
  <1>6. ASSUME NEW x \in Jobs, NEW p \in Priorities, ChangePriority(x, p) PROVE RefInv'
    <2>1. AddRef(x) /\ PushItem(Master, SharedQueue, x, p) /\ UNCHANGED <<putBack, job>>
      BY <1>6 DEF ChangePriority, Begin
    <2> QED
      BY <2>1, <1>4, PoolNames
  <1>7. ASSUME NEW x \in Jobs, YieldWait(x) PROVE RefInv'
    BY <1>2, <1>7 DEF YieldWait, Begin, jqVars, jobVars
  <1>8. ASSUME NEW x \in Jobs,
               OwnerCall("Execute", x, "check") \/ OwnerCall("Abort", x, "aborting")
        PROVE  RefInv'
    <2>1. /\ UNCHANGED <<m_pQueues, m_nRefs, putBack>> /\ job' = [job EXCEPT ![Master] = x]
          /\ op' \in {"AddJob", "Execute", "Abort"}
      BY <1>8 DEF OwnerCall, Begin, jqVars, jobVars
    <2> QED
      BY <1>3, <2>1
  <1>9. ASSUME NEW p \in Priorities, NEW f, ExecuteToPriority(p, f) PROVE RefInv'
    BY <1>2, <1>9 DEF ExecuteToPriority, Begin, jqVars, jobVars
  <1>10. CASE SuspendExecution \/ AbortAll \/ Stop
    BY <1>2, <1>10 DEF SuspendExecution, AbortAll, Stop, Begin, jqVars, jobVars
  <1> QED
    BY <1>5, <1>6, <1>7, <1>8, <1>9, <1>10 DEF MasterCalls

LEMMA ContinuesRef ==
  ASSUME RefPair, MasterContinues
  PROVE  RefInv'
  <1>1. Master \in Threads /\ op \in OpsAt(pc[Master])
    BY PoolNames DEF RefPair, CallInv
  <1>2. ASSUME UNCHANGED <<m_pQueues, m_nRefs, job>>,
               \/ UNCHANGED <<putBack, op>>
               \/ Return /\ pc[Master] \notin HandLabels(Master)
        PROVE  RefInv'
    <2>1. pc[Master] \notin HandLabels(Master) => job[Master] = NoJob
      BY <1>1 DEF RefPair, HandInv
    <2>2. Return => putBack' = <<>>
      BY DEF Return
    <2> QED
      BY <1>2, <2>1, <2>2, StaysRef
  <1>3. CASE Count
    <2>1. pc[Master] = "count" /\ UNCHANGED <<m_pQueues, job>>
      BY <1>3 DEF Count, CountItem
    <2>2. CASE op = "ExecuteToPriority"
      <3>1. /\ m_nRefs' = [m_nRefs EXCEPT ![Head(putBack)] = m_nRefs[Head(putBack)] - 1]
            /\ putBack' = Tail(putBack) /\ UNCHANGED op
        BY <1>3, <2>2 DEF Count
      <3>2. putBack # <<>>
        BY <2>1, <2>2 DEF RefPair, CallInv
      <3> QED
        BY <2>1, <3>1, <3>2, PutBackRef DEF RefPair
    <2>3. CASE op # "ExecuteToPriority"
      <3>1. Return /\ UNCHANGED m_nRefs
        BY <1>3, <2>3 DEF Count
      <3> QED
        BY <1>2, <2>1, <3>1 DEF HandLabels
    <2> QED
      BY <2>2, <2>3
  <1>4. CASE CallWorker \/ AwaitSuspended
    BY <1>2, <1>4 DEF CallWorker, AwaitSuspended, jqVars, jobVars, opVars
  <1>5. CASE Suspended
    <2>1. pc[Master] = "suspend" /\ UNCHANGED <<m_pQueues, m_nRefs, job>>
      BY <1>5 DEF Suspended, jqVars, jobVars
    <2>2. Return \/ UNCHANGED <<putBack, op>>
      BY <1>5 DEF Suspended, opVars
    <2> QED
      BY <1>2, <2>1, <2>2 DEF HandLabels
  <1>6. CASE ResumeAndReturn \/ YieldDone
    <2>1. /\ pc[Master] \in {"resume", "asleep"} /\ UNCHANGED <<m_pQueues, m_nRefs, job>>
          /\ Return
      BY <1>6 DEF ResumeAndReturn, YieldDone, jqVars, jobVars
    <2> QED
      BY <1>2, <2>1 DEF HandLabels
  <1>7. CASE PopToAbort
    <2>1. UNCHANGED <<m_pQueues, m_nRefs, job, putBack, op>>
      BY <1>7 DEF PopToAbort, TakePermit, jqVars, jobVars, opVars
    <2> QED
      BY <1>2, <2>1
  <1>8. CASE PopToExecute
    <2>1. UNCHANGED <<m_pQueues, m_nRefs, job, putBack, op>>
      BY <1>8 DEF PopToExecute, TakePermit, jqVars, jobVars
    <2> QED
      BY <1>2, <2>1
  <1>9. CASE Yield
    <2>1. pc[Master] = "yield" /\ UNCHANGED <<m_pQueues, m_nRefs, job>>
      BY <1>9 DEF Yield, TakePermit, jqVars, jobVars
    <2>2. Return \/ UNCHANGED <<putBack, op>>
      BY <1>9 DEF Yield, opVars
    <2> QED
      BY <1>2, <2>1, <2>2 DEF HandLabels
  <1>10. CASE AbortJob
    <2>1. pc[Master] = "aborting" /\ PutDown(Master) /\ UNCHANGED m_pQueues
      BY <1>10 DEF AbortJob, jqVars
    <2>2. CASE op = "AbortAll"
      <3>1. /\ m_nRefs' = [m_nRefs EXCEPT ![job[Master]] = m_nRefs[job[Master]] - 1]
            /\ UNCHANGED <<op, putBack>>
        BY <1>10, <2>2 DEF AbortJob, opVars
      <3> QED
        BY <1>1, <2>1, <2>2, <3>1, DropRef DEF RefPair
    <2>3. CASE op # "AbortAll"
      <3>1. UNCHANGED m_nRefs /\ putBack' = <<>>
        BY <1>10, <2>3 DEF AbortJob, Return
      <3>2. \A j \in Jobs : Holders(j)' \subseteq Holders(j)
        BY <1>1, <2>1, PutDownHolders DEF RefPair
      <3> QED
        BY <2>1, <3>1, <3>2, QuietRef DEF RefPair
    <2> QED
      BY <2>2, <2>3
  <1>11. CASE KeepJob
    <2>1. /\ pc[Master] = "keep" /\ PutDown(Master) /\ UNCHANGED <<m_pQueues, op>>
          /\ op = "ExecuteToPriority" /\ job[Master] \in Jobs
      <3>1. pc[Master] = "keep" /\ PutDown(Master) /\ UNCHANGED <<m_pQueues, op>>
        BY <1>11 DEF KeepJob, jqVars
      <3> QED
        BY <1>1, <3>1 DEF OpsAt, RefPair, CallInv
    <2>2. CASE putBack' = Append(putBack, job[Master]) /\ UNCHANGED m_nRefs
      BY <2>1, <2>2, KeepRef DEF RefPair
    <2>3. CASE /\ m_nRefs' = [m_nRefs EXCEPT ![job[Master]] = m_nRefs[job[Master]] - 1]
               /\ UNCHANGED putBack
      BY <1>1, <2>1, <2>3, DropRef DEF RefPair
    <2> QED
      BY <1>11, <2>2, <2>3 DEF KeepJob
  <1>12. CASE PutBack
    <2>1. UNCHANGED <<job, op, putBack>>
      BY <1>12 DEF PutBack, opVars
    <2>2. CASE putBack = <<>>
      <3>1. UNCHANGED <<m_pQueues, m_nRefs>>
        BY <1>12, <2>2 DEF PutBack, jqVars
      <3> QED
        BY <1>2, <2>1, <3>1
    <2>3. CASE putBack # <<>>
      <3>1. Head(putBack) \in Jobs
        BY <2>3 DEF RefPair, CallInv
      <3>2. m_priority[Head(putBack)] \in Priorities
        BY <3>1 DEF RefPair, CallInv
      <3>3. /\ AddRef(Head(putBack))
            /\ PushItem(Master, QueueOf(Head(putBack)), Head(putBack),
                        m_priority[Head(putBack)])
        BY <1>12, <2>3 DEF PutBack
      <3>4. \A j \in Jobs : Holders(j)' \subseteq Holders(j)
        BY <2>1, SameHolders
      <3>5. QueueOf(Head(putBack)) \in Queues
        BY OrdersAreQueues
      <3> QED
        BY <2>1, <3>1, <3>2, <3>3, <3>4, <3>5, PushRef DEF RefPair
    <2> QED
      BY <2>2, <2>3
  <1>13. CASE MasterTakeJob
    <2>1. PICK x \in Jobs : PopItem(Master, x) /\ job' = [job EXCEPT ![Master] = x]
      BY <1>13 DEF MasterTakeJob
    <2>2. UNCHANGED <<op, putBack, m_nRefs>>
      BY <1>13 DEF MasterTakeJob, jobVars, opVars
    <2> QED
      BY <1>1, <2>1, <2>2, PopRef DEF RefPair
  <1>14. CASE Join
    <2>1. /\ pc[Master] = "join" /\ Empty(m_Threads[iThread])
          /\ UNCHANGED <<m_nRefs, putBack, op, job>>
      BY <1>14 DEF Join, jobVars, opVars
    <2>2. m_Threads[iThread] \in Queues
      BY <2>1, PoolNames DEF RefPair, CallInv, ThreadLoops
    <2>3. \A j \in Jobs : Holders(j)' \subseteq Holders(j)
      BY <2>1, SameHolders
    <2> QED
      BY <2>1, <2>2, <2>3, EmptyRef DEF RefPair
  <1>15. CASE Flush
    <2>1. /\ pc[Master] = "flush" /\ Empty(SharedQueue) /\ putBack' = <<>> /\ UNCHANGED job
          /\ m_nRefs' = [j \in Jobs |-> m_nRefs[j] - Entries(SharedQueue, j)]
      BY <1>15 DEF Flush, Return
    <2>2. job[Master] = NoJob
      BY <1>1, <2>1 DEF RefPair, HandInv, HandLabels
    <2>3. \A j \in Jobs : Holders(j)' \subseteq Holders(j)
      BY <2>1, <2>2, SameHolders
    <2> QED
      BY <2>1, <2>3, EmptyRef, PoolNames DEF RefPair
  <1> QED
    BY <1>1, <1>3, <1>4, <1>5, <1>6, <1>7, <1>8, <1>9, <1>10, <1>11, <1>12, <1>13, <1>14,
       <1>15, ServiceRef DEF MasterContinues

LEMMA RefStep == JQInv /\ CallInv /\ HandInv /\ RefInv /\ [PoolNext]_vars => RefInv'
  <1> SUFFICES ASSUME JQInv, CallInv, HandInv, RefInv, [PoolNext]_vars PROVE RefInv'
    OBVIOUS
  <1>1. CallInv' /\ JQInv'
    BY CallStep, QueueStep, JQStepInv
  <1>2. RefPair
    BY <1>1 DEF RefPair, JQInv
  <1>3. CASE ResumeExecution
    <2>1. UNCHANGED <<m_pQueues, m_nRefs, job, putBack, op>>
      BY <1>3 DEF ResumeExecution, jqVars, jobVars, opVars
    <2> QED
      BY <1>2, <2>1, StaysRef
  <1>4. CASE UNCHANGED vars
    <2>1. UNCHANGED <<m_pQueues, m_nRefs, job, putBack, op>>
      BY <1>4 DEF vars, jqVars, jobVars, opVars
    <2> QED
      BY <1>2, <2>1, StaysRef
  <1> QED
    BY <1>2, <1>3, <1>4, WorkerRef, CallsRef, ContinuesRef DEF PoolNext

\* A job is not freed while a queue, a thread that will release it or
\* jobsToPutBack still has it: each of them has a reference of its own beside
\* the one of the job's owner.
THEOREM ReferencesCoverThm == PoolSpec => []ReferencesCover
  <1>1. RefInv => ReferencesCover
    BY DEF RefInv, ReferencesCover, InQueues, Hands, Kept, Positions
  <1>2. PoolInit => JQInit
    BY DEF PoolInit
  <1> QED
    BY <1>1, <1>2, CallInit, CallStep, QueueStep, JQInitInv, JQStepInv, HandInit, HandStep,
       RefInit, RefStep, PTL DEF PoolSpec

-----------------------------------------------------------------------------
(* The types of the rest of the state.                                     *)

\* A job is being executed exactly while its mutex has an owner.
MutexInv ==
  /\ m_mutex \in [Jobs -> Threads \cup {NoThread}]
  /\ \A j \in Jobs : m_mutex[j] # NoThread <=> m_status[j] = "INPROGRESS"

SwitchInv ==
  /\ bTookJob \in [Workers -> BOOLEAN]
  /\ m_EventSend \in [Workers -> {"none", "TPM_EXIT", "TPM_SUSPEND"}]
  /\ m_nJobs \in Int /\ stopped \in BOOLEAN /\ calls \in 0..MaxCalls

LEMMA RestInit == PoolInit => MutexInv /\ SwitchInv
  <1> SUFFICES ASSUME PoolInit PROVE MutexInv /\ SwitchInv
    OBVIOUS
  <1>1. MutexInv
    BY DEF PoolInit, MutexInv
  <1>2. bTookJob \in [Workers -> BOOLEAN] /\ stopped \in BOOLEAN
    BY DEF PoolInit
  <1>3. m_EventSend \in [Workers -> {"none", "TPM_EXIT", "TPM_SUSPEND"}]
    BY DEF PoolInit
  <1>4. m_nJobs \in Int /\ calls \in 0..MaxCalls
    BY PoolAssumption DEF PoolInit
  <1> QED
    BY <1>1, <1>2, <1>3, <1>4 DEF SwitchInv

LEMMA ServiceMutex ==
  ASSUME StatusInv, MutexInv, NEW t \in Threads, ServiceJob(t)
  PROVE  MutexInv'
  <1> USE DEF MutexInv
  <1>1. CASE Search(t) \/ CheckJob(t) \/ ReleaseJob(t)
    BY <1>1 DEF Search, CheckJob, ReleaseJob, jobVars
  <1>2. CASE LockJob(t)
    <2>1. CASE UNCHANGED <<m_mutex, m_status>>
      BY <2>1
    <2>2. CASE /\ m_mutex' = [m_mutex EXCEPT ![job[t]] = t]
               /\ m_status' = [m_status EXCEPT ![job[t]] = "INPROGRESS"]
      BY <2>2, PoolAssumption DEF StatusInv
    <2> QED
      BY <1>2, <2>1, <2>2 DEF LockJob
  <1>3. CASE FinishJob(t)
    BY <1>3, PoolAssumption DEF FinishJob, StatusInv
  <1> QED
    BY <1>1, <1>2, <1>3 DEF ServiceJob

LEMMA MutexStep == StatusInv /\ MutexInv /\ [PoolNext]_vars => MutexInv'
  <1> SUFFICES ASSUME StatusInv, MutexInv, [PoolNext]_vars PROVE MutexInv'
    OBVIOUS
  <1>1. ASSUME UNCHANGED <<m_mutex, m_status>> PROVE MutexInv'
    BY <1>1 DEF MutexInv
  <1>2. CASE UNCHANGED vars \/ ResumeExecution
    BY <1>1, <1>2 DEF vars, jobVars, ResumeExecution
  <1>3. ASSUME NEW w \in Workers, WorkerNext(w) PROVE MutexInv'
    <2>1. CASE ServiceJob(w)
      BY <2>1, ServiceMutex, PoolNames
    <2>2. CASE ~ServiceJob(w)
      BY <1>1, <1>3, <2>2 DEF WorkerNext, Wake, Reply, Suspend, Resumed, Exit, PopQueues,
         TakeJob, jobVars
    <2> QED
      BY <2>1, <2>2
  <1>4. CASE MasterCalls
    <2>1. ASSUME NEW j \in Jobs, AddJob(j) PROVE MutexInv'
      BY <2>1, <1>1 DEF AddJob, MutexInv, StatusInv, jobVars
    <2>2. ASSUME NEW j \in Jobs, NEW p \in Priorities, ChangePriority(j, p) PROVE MutexInv'
      BY <2>2, <1>1 DEF ChangePriority
    <2>3. CASE \E j \in Jobs : \/ YieldWait(j) \/ OwnerCall("Execute", j, "check")
                               \/ OwnerCall("Abort", j, "aborting")
      BY <2>3, <1>1 DEF YieldWait, OwnerCall, jobVars
    <2>4. CASE \/ \E p \in Priorities, fltr \in {Jobs, SerialJobs} : ExecuteToPriority(p, fltr)
               \/ SuspendExecution \/ AbortAll \/ Stop
      BY <2>4, <1>1 DEF ExecuteToPriority, SuspendExecution, AbortAll, Stop, jobVars
    <2> QED
      BY <1>4, <2>1, <2>2, <2>3, <2>4 DEF MasterCalls
  <1>5. CASE MasterContinues
    <2>1. CASE \/ Count \/ CallWorker \/ AwaitSuspended \/ Suspended \/ ResumeAndReturn
               \/ PopToAbort \/ PopToExecute \/ KeepJob
      BY <2>1, <1>1 DEF Count, CallWorker, AwaitSuspended, Suspended, ResumeAndReturn,
         PopToAbort, PopToExecute, KeepJob, jobVars
    <2>2. CASE PutBack \/ MasterTakeJob \/ Yield \/ YieldDone \/ Join
      BY <2>2, <1>1 DEF PutBack, MasterTakeJob, Yield, YieldDone, Join, jobVars
    <2>3. CASE AbortJob
      <3>1. m_mutex' = m_mutex
        BY <2>3 DEF AbortJob
      <3>2. m_status' = m_status
            \/ (/\ m_mutex[job[Master]] = NoThread
                /\ m_status' = [m_status EXCEPT ![job[Master]] = "ABORTED"])
        BY <2>3 DEF AbortJob, IsFinished, CanExecute
      <3> QED
        BY <3>1, <3>2 DEF MutexInv, StatusInv
    <2>4. CASE Flush
      <3>1. /\ m_mutex' = m_mutex
            /\ m_status' = [j \in Jobs |-> IF Entries(SharedQueue, j) > 0 /\ CanExecute(j)
                                           THEN "ABORTED" ELSE m_status[j]]
        BY <2>4 DEF Flush
      <3>2. \A j \in Jobs : m_status'[j] = "INPROGRESS" <=> m_status[j] = "INPROGRESS"
        BY <3>1 DEF CanExecute
      <3> QED
        BY <3>1, <3>2 DEF MutexInv
    <2> QED
      BY <1>5, <2>1, <2>2, <2>3, <2>4, ServiceMutex, PoolNames DEF MasterContinues
  <1> QED
    BY <1>2, <1>3, <1>4, <1>5 DEF PoolNext

LEMMA ServiceSwitch ==
  ASSUME SwitchInv, NEW t \in Threads, ServiceJob(t)
  PROVE  SwitchInv'
  <1>1. /\ UNCHANGED <<m_EventSend, stopped, calls>>
        /\ m_nJobs' \in {m_nJobs, m_nJobs - 1}
        /\ bTookJob' = bTookJob
           \/ (\E b \in BOOLEAN : bTookJob' = [bTookJob EXCEPT ![t] = b])
    <2>1. CASE Search(t) \/ CheckJob(t) \/ LockJob(t) \/ FinishJob(t)
      BY <2>1 DEF Search, CheckJob, LockJob, FinishJob, workerVars, opVars, poolVars
    <2>2. CASE ReleaseJob(t)
      <3>1. UNCHANGED <<m_EventSend, stopped, calls>>
        BY <2>2 DEF ReleaseJob, Return, opVars
      <3>2. m_nJobs' \in {m_nJobs, m_nJobs - 1}
        BY <2>2 DEF ReleaseJob
      <3>3. bTookJob' = bTookJob
            \/ (\E b \in BOOLEAN : bTookJob' = [bTookJob EXCEPT ![t] = b])
        <4>1. bTookJob' = bTookJob
              \/ bTookJob' = [bTookJob EXCEPT ![t] = m_EventSend[t] = "none"]
          BY <2>2 DEF ReleaseJob
        <4>2. (m_EventSend[t] = "none") \in BOOLEAN
          OBVIOUS
        <4> QED
          BY <4>1, <4>2
      <3> QED
        BY <3>1, <3>2, <3>3
    <2> QED
      BY <2>1, <2>2 DEF ServiceJob
  <1> QED
    BY <1>1 DEF SwitchInv

LEMMA SwitchStep == CallInv /\ SwitchInv /\ [PoolNext]_vars => SwitchInv'
  <1> SUFFICES ASSUME CallInv, SwitchInv, [PoolNext]_vars PROVE SwitchInv'
    OBVIOUS
  <1>1. ASSUME UNCHANGED <<bTookJob, m_EventSend, m_nJobs, stopped, calls>> PROVE SwitchInv'
    BY <1>1 DEF SwitchInv
  <1>2. CASE UNCHANGED vars \/ ResumeExecution
    BY <1>1, <1>2 DEF vars, workerVars, opVars, poolVars, ResumeExecution
  <1>3. ASSUME NEW w \in Workers, WorkerNext(w) PROVE SwitchInv'
    <2>1. CASE ServiceJob(w)
      BY <2>1, ServiceSwitch, PoolNames
    <2>2. CASE Wake(w) \/ Suspend(w) \/ Resumed(w) \/ Exit(w)
      BY <1>1, <2>2 DEF Wake, Suspend, Resumed, Exit, workerVars, opVars, poolVars
    <2>3. CASE Reply(w)
      BY <2>3 DEF Reply, SwitchInv, opVars, poolVars
    <2>4. CASE PopQueues(w) \/ TakeJob(w)
      BY <2>4 DEF PopQueues, TakeJob, SwitchInv, opVars, poolVars
    <2> QED
      BY <1>3, <2>1, <2>2, <2>3, <2>4 DEF WorkerNext
  <1>4. CASE MasterCalls
    <2>1. ASSUME UNCHANGED <<bTookJob, m_EventSend, m_nJobs, stopped>>,
                 NEW n, NEW j, NEW f, NEW p, NEW l, Begin(n, j, f, p, l)
          PROVE  SwitchInv'
      BY <2>1, PoolAssumption DEF Begin, SwitchInv
    <2>2. ASSUME NEW j \in Jobs, AddJob(j) PROVE SwitchInv'
      BY <2>1, <2>2 DEF AddJob, workerVars, poolVars
    <2>3. ASSUME NEW j \in Jobs, NEW p \in Priorities, ChangePriority(j, p) PROVE SwitchInv'
      BY <2>1, <2>3 DEF ChangePriority, workerVars, poolVars
    <2>4. ASSUME NEW j \in Jobs, \/ YieldWait(j) \/ OwnerCall("Execute", j, "check")
                                 \/ OwnerCall("Abort", j, "aborting")
          PROVE  SwitchInv'
      BY <2>1, <2>4 DEF YieldWait, OwnerCall, workerVars, poolVars
    <2>5. ASSUME NEW p \in Priorities, NEW fltr, ExecuteToPriority(p, fltr) PROVE SwitchInv'
      BY <2>1, <2>5 DEF ExecuteToPriority, workerVars, poolVars
    <2>6. CASE SuspendExecution \/ AbortAll \/ Stop
      BY <2>1, <2>6 DEF SuspendExecution, AbortAll, Stop, workerVars, poolVars
    <2> QED
      BY <1>4, <2>2, <2>3, <2>4, <2>5, <2>6 DEF MasterCalls
  <1>5. CASE MasterContinues
    <2>1. CASE CallWorker
      <3>1. /\ UNCHANGED <<bTookJob, m_nJobs, stopped, calls>>
            /\ \E e \in {"TPM_EXIT", "TPM_SUSPEND"} :
                 m_EventSend' = [m_EventSend EXCEPT ![m_Threads[iThread]] = e]
        BY <2>1 DEF CallWorker, opVars, poolVars
      <3> QED
        BY <3>1 DEF SwitchInv
    <2>2. ASSUME UNCHANGED <<bTookJob, m_EventSend, calls>>, m_nJobs' \in Int,
                 stopped' \in BOOLEAN
          PROVE  SwitchInv'
      BY <2>2 DEF SwitchInv
    <2>3. m_nJobs \in Int /\ stopped \in BOOLEAN
      BY DEF SwitchInv
    <2>4. CASE Count \/ PopToAbort \/ KeepJob \/ Flush
      <3>1. UNCHANGED <<bTookJob, m_EventSend, calls>>
        BY <2>4 DEF Count, PopToAbort, KeepJob, Flush, Return, workerVars, opVars
      <3>2. m_nJobs' \in {m_nJobs, m_nJobs + 1, m_nJobs - 1, 0}
        BY <2>4 DEF Count, PopToAbort, KeepJob, Flush
      <3>3. stopped' \in {stopped, TRUE}
        BY <2>4 DEF Count, PopToAbort, KeepJob, Flush
      <3> QED
        <4>1. m_nJobs' \in Int
          BY <2>3, <3>2
        <4>2. stopped' \in BOOLEAN
          BY <2>3, <3>3
        <4> QED
          BY <2>2, <3>1, <4>1, <4>2
    <2>5. CASE AwaitSuspended \/ Suspended \/ ResumeAndReturn \/ AbortJob \/ PopToExecute
      BY <1>1, <2>5 DEF AwaitSuspended, Suspended, ResumeAndReturn, AbortJob, PopToExecute,
         Return, workerVars, opVars, poolVars
    <2>6. CASE PutBack \/ MasterTakeJob \/ Yield \/ YieldDone \/ Join
      BY <1>1, <2>6 DEF PutBack, MasterTakeJob, Yield, YieldDone, Join, Return, workerVars,
         opVars, poolVars
    <2> QED
      BY <1>5, <2>1, <2>4, <2>5, <2>6, ServiceSwitch, PoolNames DEF MasterContinues
  <1> QED
    BY <1>2, <1>3, <1>4, <1>5 DEF PoolNext

\* The references, the status and the locals together are the type invariant.
LEMMA PoolTypes ==
  ASSUME JQInv, CallInv, StatusInv, SuspendInv, RefInv, MutexInv, SwitchInv
  PROVE  TypeOK
  <1>1. m_nRefs \in [Jobs -> Nat]
    <2>1. ASSUME NEW j \in Jobs PROVE m_nRefs[j] \in Nat
      <3>1. InQueues(j) \in Nat
        BY InQueuesType DEF JQInv
      <3>2. Hands(j) \in Nat
        BY HoldersPart, ThreadsPart DEF Hands
      <3>3. Kept(j) \in Nat
        BY PositionsFinite DEF Kept, CallInv
      <3> QED
        BY <3>1, <3>2, <3>3 DEF RefInv
    <2> QED
      BY <2>1 DEF RefInv
  <1>2. iThread \in 1..Len(ExecuteOrder)
    BY OrdersAreQueues DEF CallInv
  <1> QED
    BY <1>1, <1>2 DEF TypeOK, JQInv, CallInv, StatusInv, Statuses, SuspendInv, MutexInv, SwitchInv

\* The variables keep their types, and the mutex of a job has an owner exactly
\* while the job is executed, whoever services, aborts or flushes it.
THEOREM PoolTypedThm == PoolSpec => []TypeOK
  <1>1. PoolInit => JQInit
    BY DEF PoolInit
  <1>2. JQInv /\ CallInv /\ StatusInv /\ SuspendInv /\ RefInv /\ MutexInv /\ SwitchInv => TypeOK
    BY PoolTypes
  <1> QED
    BY <1>1, <1>2, CallInit, CallStep, QueueStep, JQInitInv, JQStepInv, HandInit, HandStep,
       RefInit, RefStep, StatusInit, StatusStep, SuspendInit, SuspendStep, RestInit, MutexStep,
       SwitchStep, PTL DEF PoolSpec

=============================================================================
