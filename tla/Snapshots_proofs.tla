-------------------------- MODULE Snapshots_proofs --------------------------
(***************************************************************************)
(* What the client shows, for any number of entities, classes, values and  *)
(* ticks.                                                                  *)
(***************************************************************************)
EXTENDS Snapshots, FiniteSetTheorems, WellFoundedInduction, TLAPS

-----------------------------------------------------------------------------
(* Induction over the natural numbers, for a set.                          *)

Less == {p \in Nat \X Nat : p[1] < p[2]}

LEMMA LessWF == IsWellFoundedOn(Less, Nat)
  <1>1. Less = OpToRel(<, Nat)
    BY Zenon DEF Less, OpToRel
  <1> QED
    BY <1>1, NatLessThanWellFounded, Zenon

LEMMA Induction ==
  ASSUME NEW T, 0 \in T, \A n \in Nat : n \in T => n + 1 \in T
  PROVE  \A n \in Nat : n \in T
  <1> DEFINE Rest == {n \in Nat : n \notin T}
  <1> SUFFICES ASSUME Rest # {} PROVE FALSE
    OBVIOUS
  <1>1. PICK x \in Rest : \A y \in Rest : <<y, x>> \notin Less
    BY LessWF, WFMin
  <1>2. x # 0 /\ x - 1 \in Nat
    BY <1>1
  <1>3. <<x - 1, x>> \in Less
    BY <1>1, <1>2 DEF Less
  <1>4. x - 1 \notin Rest
    BY <1>1, <1>3
  <1> QED
    BY <1>1, <1>2, <1>4

-----------------------------------------------------------------------------
(* Messages are read, and acknowledgements processed, one after the other. *)

LEMMA MaxOf ==
  ASSUME NEW n \in Nat, NEW s \in SUBSET (1 .. n), s # {}
  PROVE  Max(s) \in s /\ \A y \in s : y <= Max(s)
  <1> DEFINE T == {k \in Nat : \A q \in SUBSET (1 .. k) :
                     q # {} => \E x \in q : \A y \in q : x >= y}
  <1>1. 0 \in T
    <2>1. \A q \in SUBSET (1 .. 0) : q = {}
      OBVIOUS
    <2> QED
      BY <2>1
  <1>2. ASSUME NEW k \in Nat, k \in T PROVE k + 1 \in T
    <2> SUFFICES ASSUME NEW q \in SUBSET (1 .. k + 1), q # {}
                 PROVE  \E x \in q : \A y \in q : x >= y
      OBVIOUS
    <2>1. CASE k + 1 \in q
      BY <2>1
    <2>2. CASE k + 1 \notin q
      BY <1>2, <2>2
    <2> QED
      BY <2>1, <2>2
  <1>3. n \in T
    <2> HIDE DEF T
    <2> QED
      BY <1>1, <1>2, Induction
  <1>4. \E x \in s : \A y \in s : x >= y
    BY <1>3
  <1> QED
    BY <1>4 DEF Max

LEMMA MaxOfInterval ==
  ASSUME NEW n \in Nat, n > 0
  PROVE  Max(1 .. n) = n /\ (1 .. n) \ {n} = 1 .. n - 1
  <1>1. 1 .. n \in SUBSET (1 .. n) /\ 1 .. n # {}
    OBVIOUS
  <1>2. Max(1 .. n) \in 1 .. n /\ \A y \in 1 .. n : y <= Max(1 .. n)
    BY <1>1, MaxOf
  <1> QED
    BY <1>2

\* The fold of Op, which is given the index of an element, from the last one on.
IsFold(f, V, n, base, Op) ==
  /\ f \in [SUBSET (1 .. n) -> V]
  /\ \A s \in SUBSET (1 .. n) :
       f[s] = IF s = {} THEN base ELSE Op[<<f[s \ {Max(s)}], Max(s)>>]

LEMMA Iterates ==
  ASSUME NEW V, NEW n \in Nat, NEW base \in V, NEW Op \in [V \X (1 .. n) -> V]
  PROVE  \E f : IsFold(f, V, n, base, Op)
  <1> DEFINE Good == {k \in Nat : k <= n => \E f : IsFold(f, V, k, base, Op)}
  <1>1. 0 \in Good
    <2>1. PICK f : f = [s \in SUBSET (1 .. 0) |-> base]
      OBVIOUS
    <2>2. \A s \in SUBSET (1 .. 0) : s = {}
      OBVIOUS
    <2>3. IsFold(f, V, 0, base, Op)
      BY <2>1, <2>2 DEF IsFold
    <2> QED
      BY <2>3
  <1>2. ASSUME NEW k \in Nat, k \in Good, k + 1 <= n
        PROVE  \E f : IsFold(f, V, k + 1, base, Op)
    <2>1. PICK f : IsFold(f, V, k, base, Op)
      BY <1>2
    <2>2. PICK h : h = [s \in SUBSET (1 .. k + 1) |->
                          IF k + 1 \in s THEN Op[<<f[s \ {k + 1}], k + 1>>] ELSE f[s]]
      OBVIOUS
    <2>3. k + 1 \in 1 .. n
      BY <1>2
    <2>4. ASSUME NEW s \in SUBSET (1 .. k + 1)
          PROVE  /\ s \ {k + 1} \in SUBSET (1 .. k) /\ s \ {k + 1} \in SUBSET (1 .. k + 1)
                 /\ k + 1 \notin s => s \in SUBSET (1 .. k)
      OBVIOUS
    <2>5. ASSUME NEW s \in SUBSET (1 .. k) PROVE h[s] = f[s] /\ s \in SUBSET (1 .. k + 1)
      BY <2>2
    <2>6. ASSUME NEW s \in SUBSET (1 .. k + 1) PROVE h[s] \in V
      <3>1. CASE k + 1 \in s
        <4>1. f[s \ {k + 1}] \in V
          BY <2>1, <2>4 DEF IsFold
        <4> QED
          BY <2>2, <2>3, <3>1, <4>1
      <3>2. CASE k + 1 \notin s
        BY <2>1, <2>2, <2>4, <3>2 DEF IsFold
      <3> QED
        BY <3>1, <3>2
    <2>7. ASSUME NEW s \in SUBSET (1 .. k + 1)
          PROVE  h[s] = IF s = {} THEN base ELSE Op[<<h[s \ {Max(s)}], Max(s)>>]
      <3>1. CASE k + 1 \in s
        <4>1. Max(s) = k + 1
          <5>1. k + 1 \in Nat /\ s # {}
            BY <3>1
          <5>2. Max(s) \in s /\ \A y \in s : y <= Max(s)
            BY <5>1, MaxOf
          <5>3. PICK m \in 1 .. k + 1 : m = Max(s)
            BY <5>2
          <5> QED
            BY <3>1, <5>2, <5>3
        <4>2. h[s \ {k + 1}] = f[s \ {k + 1}]
          BY <2>4, <2>5
        <4> QED
          BY <2>2, <3>1, <4>1, <4>2
      <3>2. CASE k + 1 \notin s
        <4>1. s \in SUBSET (1 .. k) /\ h[s] = f[s]
          BY <2>4, <2>5, <3>2
        <4>2. f[s] = IF s = {} THEN base ELSE Op[<<f[s \ {Max(s)}], Max(s)>>]
          BY <2>1, <4>1 DEF IsFold
        <4>3. s \ {Max(s)} \in SUBSET (1 .. k)
          BY <4>1
        <4>4. h[s \ {Max(s)}] = f[s \ {Max(s)}]
          BY <2>5, <4>3
        <4> QED
          BY <4>1, <4>2, <4>4
      <3> QED
        BY <3>1, <3>2
    <2>8. h \in [SUBSET (1 .. k + 1) -> V]
      BY <2>2, <2>6
    <2>9. IsFold(h, V, k + 1, base, Op)
      BY <2>7, <2>8 DEF IsFold
    <2> QED
      BY <2>9
  <1>3. n \in Good
    <2>1. \A k \in Nat : k \in Good => k + 1 \in Good
      BY <1>2
    <2> HIDE DEF Good
    <2> QED
      BY <1>1, <2>1, Induction
  <1> QED
    BY <1>3

\* r[k] is what the first k messages of seq make of base.
FullRuns(V, n, base, seq, r) ==
  /\ r \in [0 .. n -> V] /\ r[0] = base
  /\ \A k \in 1 .. n : r[k] = ReadingFull(r[k - 1], seq[k])

LEMMA FullRun ==
  ASSUME NEW V, NEW base \in V, NEW seq, NEW n \in Nat, DOMAIN seq = 1 .. n,
         \A v \in V, k \in 1 .. n : ReadingFull(v, seq[k]) \in V
  PROVE  \E r : FullRuns(V, n, base, seq, r) /\ FoldLeft(ReadingFull, base, seq) = r[n]
  <1> DEFINE Op == [p \in V \X (1 .. n) |-> ReadingFull(p[1], seq[p[2]])]
  <1>1. Op \in [V \X (1 .. n) -> V]
    OBVIOUS
  <1>2. PICK f : /\ f \in [SUBSET (1 .. n) -> V]
                 /\ \A s \in SUBSET (1 .. n) :
                      f[s] = IF s = {} THEN base ELSE Op[<<f[s \ {Max(s)}], Max(s)>>]
    <2>1. ASSUME NEW Q \in [V \X (1 .. n) -> V]
          PROVE  \E f : IsFold(f, V, n, base, Q)
      BY Iterates
    <2> HIDE DEF Op
    <2> QED
      BY <1>1, <2>1 DEF IsFold
  <1>3. f = [s \in SUBSET (1 .. n) |->
               IF s = {} THEN base ELSE ReadingFull(f[s \ {Max(s)}], seq[Max(s)])]
    <2>1. ASSUME NEW s \in SUBSET (1 .. n), s # {}
          PROVE  f[s] = ReadingFull(f[s \ {Max(s)}], seq[Max(s)])
      <3>1. Max(s) \in 1 .. n
        BY <2>1, MaxOf
      <3>2. s \ {Max(s)} \in SUBSET (1 .. n)
        OBVIOUS
      <3>3. f[s \ {Max(s)}] \in V
        BY <1>2, <3>2
      <3>4. f[s] = Op[<<f[s \ {Max(s)}], Max(s)>>]
        BY <1>2, <2>1
      <3> QED
        BY <3>1, <3>3, <3>4
    <2> QED
      BY <1>2, <2>1
  <1> DEFINE I == CHOOSE g : g = [s \in SUBSET (1 .. n) |->
                       IF s = {} THEN base ELSE ReadingFull(g[s \ {Max(s)}], seq[Max(s)])]
  <1>4. I = [s \in SUBSET (1 .. n) |->
               IF s = {} THEN base ELSE ReadingFull(I[s \ {Max(s)}], seq[Max(s)])]
    BY <1>3
  <1>5. FoldLeft(ReadingFull, base, seq) = I[1 .. n]
    BY DEF FoldLeft, MapThenFoldSet
  <1> HIDE DEF I
  <1> DEFINE r == [k \in 0 .. n |-> I[1 .. k]]
             T == {k \in Nat : k <= n => I[1 .. k] \in V}
  <1>6. I[1 .. 0] = base
    BY <1>4
  <1>7. ASSUME NEW k \in 1 .. n PROVE I[1 .. k] = ReadingFull(I[1 .. k - 1], seq[k])
    <2>1. PICK s : s = 1 .. k
      OBVIOUS
    <2>2. Max(s) = k /\ s \ {k} = 1 .. k - 1 /\ s \in SUBSET (1 .. n) /\ s # {}
      <3>1. k \in Nat /\ k > 0 /\ k <= n
        OBVIOUS
      <3>2. 1 .. k \in SUBSET (1 .. n)
        BY <3>1
      <3>3. k \in 1 .. k
        BY <3>1
      <3>4. s # {}
        BY <2>1, <3>3
      <3> QED
        BY <2>1, <3>1, <3>2, <3>4, MaxOfInterval
    <2>3. I[s] = ReadingFull(I[s \ {Max(s)}], seq[Max(s)])
      BY <1>4, <2>2
    <2> QED
      BY <2>1, <2>2, <2>3
  <1>8. \A k \in Nat : k \in T
    <2>1. 0 \in T
      BY <1>6
    <2>2. ASSUME NEW k \in Nat, k \in T PROVE k + 1 \in T
      <3> SUFFICES ASSUME k + 1 <= n PROVE I[1 .. k + 1] \in V
        OBVIOUS
      <3>1. I[1 .. k] \in V
        BY <2>2
      <3>2. k + 1 \in 1 .. n /\ (k + 1) - 1 = k
        OBVIOUS
      <3> QED
        BY <1>7, <3>1, <3>2
    <2> HIDE DEF T
    <2> QED
      BY <2>1, <2>2, Induction
  <1>9. r \in [0 .. n -> V]
    BY <1>8
  <1>10. /\ r[0] = base /\ r[n] = I[1 .. n]
         /\ \A k \in 1 .. n : r[k] = I[1 .. k] /\ r[k - 1] = I[1 .. k - 1]
    BY <1>6
  <1> HIDE DEF r
  <1> QED
    BY <1>5, <1>7, <1>9, <1>10 DEF FullRuns

\* The same for the acknowledgements.
AckRuns(V, n, base, seq, r) ==
  /\ r \in [0 .. n -> V] /\ r[0] = base
  /\ \A k \in 1 .. n : r[k] = ProcessBaselineAck(r[k - 1], seq[k])

LEMMA AckRun ==
  ASSUME NEW V, NEW base \in V, NEW seq, NEW n \in Nat, DOMAIN seq = 1 .. n,
         \A v \in V, k \in 1 .. n : ProcessBaselineAck(v, seq[k]) \in V
  PROVE  \E r : AckRuns(V, n, base, seq, r) /\ FoldLeft(ProcessBaselineAck, base, seq) = r[n]
  <1> DEFINE Op == [p \in V \X (1 .. n) |-> ProcessBaselineAck(p[1], seq[p[2]])]
  <1>1. Op \in [V \X (1 .. n) -> V]
    OBVIOUS
  <1>2. PICK f : /\ f \in [SUBSET (1 .. n) -> V]
                 /\ \A s \in SUBSET (1 .. n) :
                      f[s] = IF s = {} THEN base ELSE Op[<<f[s \ {Max(s)}], Max(s)>>]
    <2>1. ASSUME NEW Q \in [V \X (1 .. n) -> V]
          PROVE  \E f : IsFold(f, V, n, base, Q)
      BY Iterates
    <2> HIDE DEF Op
    <2> QED
      BY <1>1, <2>1 DEF IsFold
  <1>3. f = [s \in SUBSET (1 .. n) |->
               IF s = {} THEN base ELSE ProcessBaselineAck(f[s \ {Max(s)}], seq[Max(s)])]
    <2>1. ASSUME NEW s \in SUBSET (1 .. n), s # {}
          PROVE  f[s] = ProcessBaselineAck(f[s \ {Max(s)}], seq[Max(s)])
      <3>1. Max(s) \in 1 .. n
        BY <2>1, MaxOf
      <3>2. s \ {Max(s)} \in SUBSET (1 .. n)
        OBVIOUS
      <3>3. f[s \ {Max(s)}] \in V
        BY <1>2, <3>2
      <3>4. f[s] = Op[<<f[s \ {Max(s)}], Max(s)>>]
        BY <1>2, <2>1
      <3> QED
        BY <3>1, <3>3, <3>4
    <2> QED
      BY <1>2, <2>1
  <1> DEFINE I == CHOOSE g : g = [s \in SUBSET (1 .. n) |->
                       IF s = {} THEN base ELSE ProcessBaselineAck(g[s \ {Max(s)}], seq[Max(s)])]
  <1>4. I = [s \in SUBSET (1 .. n) |->
               IF s = {} THEN base ELSE ProcessBaselineAck(I[s \ {Max(s)}], seq[Max(s)])]
    BY <1>3
  <1>5. FoldLeft(ProcessBaselineAck, base, seq) = I[1 .. n]
    BY DEF FoldLeft, MapThenFoldSet
  <1> HIDE DEF I
  <1> DEFINE r == [k \in 0 .. n |-> I[1 .. k]]
             T == {k \in Nat : k <= n => I[1 .. k] \in V}
  <1>6. I[1 .. 0] = base
    BY <1>4
  <1>7. ASSUME NEW k \in 1 .. n PROVE I[1 .. k] = ProcessBaselineAck(I[1 .. k - 1], seq[k])
    <2>1. PICK s : s = 1 .. k
      OBVIOUS
    <2>2. Max(s) = k /\ s \ {k} = 1 .. k - 1 /\ s \in SUBSET (1 .. n) /\ s # {}
      <3>1. k \in Nat /\ k > 0 /\ k <= n
        OBVIOUS
      <3>2. 1 .. k \in SUBSET (1 .. n)
        BY <3>1
      <3>3. k \in 1 .. k
        BY <3>1
      <3>4. s # {}
        BY <2>1, <3>3
      <3> QED
        BY <2>1, <3>1, <3>2, <3>4, MaxOfInterval
    <2>3. I[s] = ProcessBaselineAck(I[s \ {Max(s)}], seq[Max(s)])
      BY <1>4, <2>2
    <2> QED
      BY <2>1, <2>2, <2>3
  <1>8. \A k \in Nat : k \in T
    <2>1. 0 \in T
      BY <1>6
    <2>2. ASSUME NEW k \in Nat, k \in T PROVE k + 1 \in T
      <3> SUFFICES ASSUME k + 1 <= n PROVE I[1 .. k + 1] \in V
        OBVIOUS
      <3>1. I[1 .. k] \in V
        BY <2>2
      <3>2. k + 1 \in 1 .. n /\ (k + 1) - 1 = k
        OBVIOUS
      <3> QED
        BY <1>7, <3>1, <3>2
    <2> HIDE DEF T
    <2> QED
      BY <2>1, <2>2, Induction
  <1>9. r \in [0 .. n -> V]
    BY <1>8
  <1>10. /\ r[0] = base /\ r[n] = I[1 .. n]
         /\ \A k \in 1 .. n : r[k] = I[1 .. k] /\ r[k - 1] = I[1 .. k - 1]
    BY <1>6
  <1> HIDE DEF r
  <1> QED
    BY <1>5, <1>7, <1>9, <1>10 DEF AckRuns

-----------------------------------------------------------------------------
(* Types.  t is the tick the server has reached.                           *)

TicksTo(t) == {-1} \cup 1 .. t
Edicts == [Slots -> Entity \cup {NoEntity}]
Frames(t) == {f \in Frame : f.tick \in 1 .. t /\ \A s \in f.view : f.ents[s] # NoEntity}
ServerRecords(t) ==
  [state : {"active", "delta ticks out of order"}, frames : SUBSET Frames(t),
   deltaTick : TicksTo(t), forceWaitForTick : TicksTo(t), baseline : Edicts, baselineUsed : 0 .. 1,
   updateTick : TicksTo(t), baselinesSent : SUBSET Slots, fullSent : TicksTo(t), fullAcked : TicksTo(t)]
Kept == [Slots -> Baselines \cup {NoEntity}]
ClientFrames(t) == [tick : 1 .. t, view : SUBSET Slots]
ClientRecords(t) ==
  [state : {"spawn", "full", "self-referencing", "delta not found", "missing entity"},
   entities : [Slots -> Shown \cup {NoEntity}], baselines : [0 .. 1 -> Kept],
   deltaTick : TicksTo(t), frames : SUBSET ClientFrames(t), fullReceived : TicksTo(t)]
Enters == [type : {"enter"}, serial : 1 .. MaxSerial, class : Classes, value : Values \cup {Same}]
Leaves == [type : {"leave"}, delete : BOOLEAN]
Deltas == [type : {"delta"}, value : Values]
Updates == Enters \cup Leaves \cup Deltas \cup {NoUpdate}
Messages(t) ==
  {m \in [tick : 1 .. t, isDelta : BOOLEAN, deltaFrom : TicksTo(t), baseline : 0 .. 1,
          updateBaseline : BOOLEAN, updates : [Slots -> Updates], deletions : SUBSET Slots] :
     ~m.isDelta => \A s \in Slots : m.updates[s] \in Enters \cup {NoUpdate}}
AckRecords(t) == [tick : 1 .. t, nr : 0 .. 1]
Datagrams(t) == [msg : Messages(t) \cup {NoMsg}, upto : TicksTo(t)]
Moves(t) == [tick : TicksTo(t) \cup {NoTick}, received : TicksTo(t), upto : TicksTo(t)]

WorldTyped ==
  /\ m_nTickCount \in 0 .. MaxTick /\ edicts \in Edicts /\ serials \in [Slots -> 1 .. MaxSerial]
  /\ view \subseteq {s \in Slots : edicts[s] # NoEntity}
Typed ==
  /\ WorldTyped
  /\ client \in ServerRecords(m_nTickCount) /\ cl \in ClientRecords(m_nTickCount)
  /\ toClient \in Seq(Datagrams(m_nTickCount)) /\ toServer \in Seq(Moves(m_nTickCount))
  /\ fullUpdates \in Seq(Messages(m_nTickCount)) /\ acks \in Seq(AckRecords(m_nTickCount))

FewFrames == IsFiniteSet(client.frames) /\ Cardinality(client.frames) <= MAX_CLIENT_FRAMES

-----------------------------------------------------------------------------
(* The server's end keeps its types.                                       *)

LEMMA WrittenIs ==
  ASSUME NEW c, c.baseline \in Edicts, NEW asDelta, NEW s \in Slots, NEW e \in Entity
  PROVE  EnterPVS(c, asDelta, s, e) \in Enters
  <1>1. BaselineValue(c, asDelta, s, e.class) \in Values
    <2>1. ClassBaseline[e.class] \in Values
      BY SnapshotsAssumption DEF Entity
    <2>2. c.baseline[s] # NoEntity => c.baseline[s].value \in Values
      BY DEF Edicts, Entity
    <2> QED
      BY <2>1, <2>2 DEF BaselineValue
  <1>2. Written(BaselineValue(c, asDelta, s, e.class), e.value) \in Values \cup {Same}
    BY DEF Written, Entity
  <1> QED
    BY <1>2 DEF EnterPVS, Enters, Entity

Sources(t) == Frames(t) \cup {NoFrame}

LEMMA SourceIs ==
  ASSUME NEW t \in 0 .. MaxTick, NEW f \in Sources(t)
  PROVE  f.tick \in TicksTo(t) /\ f.ents \in Edicts /\ f.view \subseteq Slots
         /\ \A s \in f.view : f.ents[s] \in Entity /\ f.ents[s] # NoEntity
  BY DEF Sources, Frames, Frame, NoFrame, TicksTo, Edicts, Nobody

LEMMA UpdateIs ==
  ASSUME NEW t \in 0 .. MaxTick, NEW c, c.baseline \in Edicts, NEW s \in Slots,
         NEW from \in Sources(t), NEW to \in Frames(t), NEW asDelta
  PROVE  /\ EntityUpdate(c, s, from, to, asDelta) \in Updates
         /\ from.view = {} => EntityUpdate(c, s, from, to, asDelta) \in Enters \cup {NoUpdate}
  <1>1. to \in Sources(t)
    BY DEF Sources
  <1>2. CASE s \in Entering(from, to)
    <2>1. s \in to.view /\ to.ents[s] \in Entity
      BY <1>1, <1>2, SourceIs DEF Entering
    <2>2. EnterPVS(c, asDelta, s, to.ents[s]) \in Enters
      BY <2>1, WrittenIs
    <2> QED
      BY <1>2, <2>1, <2>2 DEF EntityUpdate, Updates
  <1>3. CASE s \notin Entering(from, to) /\ s \in from.view \ to.view
    <2>1. LeavePVS(SV_NeedsExplicitDestroy(s, from, to)) \in Leaves
      BY DEF LeavePVS, Leaves, SV_NeedsExplicitDestroy
    <2> QED
      BY <1>3, <2>1 DEF EntityUpdate, Updates
  <1>4. CASE /\ s \in from.view \cap to.view /\ s \notin Entering(from, to)
             /\ to.ents[s].changed > from.tick
    <2>1. to.ents[s] \in Entity
      BY <1>1, <1>4, SourceIs
    <2>2. DeltaEnt(to.ents[s].value) \in Deltas
      BY <2>1 DEF DeltaEnt, Deltas, Entity
    <2> QED
      BY <1>4, <2>2 DEF EntityUpdate, Updates
  <1>5. CASE /\ s \notin Entering(from, to) /\ s \notin from.view \ to.view
             /\ ~(s \in from.view \cap to.view /\ s \notin Entering(from, to)
                  /\ to.ents[s].changed > from.tick)
    BY <1>5 DEF EntityUpdate, Updates
  <1> QED
    BY <1>2, <1>3, <1>4, <1>5

LEMMA WriteIs ==
  ASSUME NEW t \in 0 .. MaxTick, NEW c \in ServerRecords(t), NEW from \in Sources(t),
         NEW to \in Frames(t), NEW reused \in SUBSET Slots, NEW w,
         w = WriteDeltaEntities(c, from, to, reused)
  PROVE  w.client \in ServerRecords(t) /\ w.msg \in Messages(t)
  <1> DEFINE asDelta == from # NoFrame
             updates == [s \in Slots |-> EntityUpdate(c, s, from, to, asDelta)]
             fullProps == \E s \in Entering(from, to) : updates[s].value # Same
             update == c.updateTick = -1 /\ (fullProps \/ ~asDelta)
             sent == IF c.updateTick = -1 THEN Entering(from, to) ELSE c.baselinesSent
             tick == IF update THEN to.tick ELSE c.updateTick
             deletions == SV_WriteDeletions(from, to, asDelta, reused)
  <1>1. /\ w.client = [c EXCEPT !.baselinesSent = sent, !.updateTick = tick]
        /\ w.msg = [tick |-> to.tick, isDelta |-> asDelta, deltaFrom |-> from.tick,
                    baseline |-> c.baselineUsed, updateBaseline |-> update,
                    updates |-> updates, deletions |-> deletions]
    BY DEF WriteDeltaEntities
  <1>2. c.baseline \in Edicts /\ c.baselineUsed \in 0 .. 1 /\ c.updateTick \in TicksTo(t)
        /\ c.baselinesSent \in SUBSET Slots
    BY DEF ServerRecords
  <1>3. /\ updates \in [Slots -> Updates]
        /\ from.view = {} => \A s \in Slots : updates[s] \in Enters \cup {NoUpdate}
    <2>1. ASSUME NEW s \in Slots
          PROVE  updates[s] \in Updates
                 /\ (from.view = {} => updates[s] \in Enters \cup {NoUpdate})
      BY <1>2, UpdateIs
    <2> HIDE DEF updates
    <2>2. updates \in [Slots -> Updates]
      <3>1. updates = [s \in Slots |-> updates[s]]
        BY DEF updates
      <3> QED
        BY <2>1, <3>1
    <2> QED
      BY <2>1, <2>2
  <1>4. ~asDelta => from.view = {}
    BY DEF NoFrame
  <1>5. to.tick \in 1 .. t /\ to.view \subseteq Slots /\ from.tick \in TicksTo(t)
    BY SourceIs DEF Frames, Frame
  <1>6. sent \in SUBSET Slots /\ tick \in TicksTo(t) /\ deletions \in SUBSET Slots
    BY <1>2, <1>5 DEF Entering, TicksTo, SV_WriteDeletions
  <1>7. asDelta \in BOOLEAN /\ update \in BOOLEAN
    OBVIOUS
  <1> HIDE DEF asDelta, updates, fullProps, update, sent, tick, deletions
  <1>8. w.client \in ServerRecords(t)
    BY <1>1, <1>6 DEF ServerRecords
  <1>9. w.msg \in [tick : 1 .. t, isDelta : BOOLEAN, deltaFrom : TicksTo(t), baseline : 0 .. 1,
                   updateBaseline : BOOLEAN, updates : [Slots -> Updates], deletions : SUBSET Slots]
    BY <1>1, <1>2, <1>3, <1>5, <1>6, <1>7
  <1>10. ~w.msg.isDelta => \A s \in Slots : w.msg.updates[s] \in Enters \cup {NoUpdate}
    BY <1>1, <1>3, <1>4
  <1> QED
    BY <1>8, <1>9, <1>10 DEF Messages

LEMMA RequestIs ==
  ASSUME NEW t, NEW c \in ServerRecords(t)
  PROVE  OnRequestFullUpdate(c) \in ServerRecords(t)
  <1>1. Nobody \in Edicts /\ {} \in SUBSET Slots /\ -1 \in TicksTo(t) /\ 0 \in 0 .. 1
    BY DEF Nobody, Edicts, TicksTo
  <1> QED
    BY <1>1 DEF OnRequestFullUpdate, ServerRecords

LEMMA AckIs ==
  ASSUME NEW t \in 0 .. MaxTick, NEW c \in ServerRecords(t), NEW ack
  PROVE  ProcessBaselineAck(c, ack) \in ServerRecords(t)
         /\ ProcessBaselineAck(c, ack).frames = c.frames
  <1>1. CASE /\ ack.tick = c.updateTick /\ ack.nr = c.baselineUsed
             /\ HasFrame(c.frames, c.updateTick)
    <2> DEFINE frame == GetClientFrame(c.frames, c.updateTick)
               baseline == [s \in Slots |-> IF s \in c.baselinesSent THEN frame.ents[s]
                                                                     ELSE c.baseline[s]]
    <2>1. frame \in c.frames
      BY <1>1 DEF HasFrame, GetClientFrame
    <2>2. frame.ents \in Edicts /\ c.baseline \in Edicts /\ c.baselineUsed \in 0 .. 1
      BY <2>1 DEF ServerRecords, Frames, Frame, Edicts
    <2> HIDE DEF frame
    <2>3. baseline \in Edicts
      BY <2>2 DEF Edicts
    <2>4. Flip(c.baselineUsed) \in 0 .. 1 /\ -1 \in TicksTo(t)
      BY <2>2 DEF Flip, TicksTo
    <2>5. ProcessBaselineAck(c, ack) =
            [c EXCEPT !.baseline = baseline, !.baselineUsed = Flip(c.baselineUsed), !.updateTick = -1]
      BY <1>1 DEF ProcessBaselineAck, frame
    <2> HIDE DEF baseline
    <2> QED
      BY <2>3, <2>4, <2>5 DEF ServerRecords
  <1>2. CASE ~(/\ ack.tick = c.updateTick /\ ack.nr = c.baselineUsed
               /\ HasFrame(c.frames, c.updateTick))
    BY <1>2 DEF ProcessBaselineAck
  <1> QED
    BY <1>1, <1>2

LEMMA TickIs ==
  ASSUME NEW t \in 0 .. MaxTick, NEW c \in ServerRecords(t), NEW tick \in TicksTo(t) \cup {NoTick},
         NEW new, new = ProcessTick(c, tick)
  PROVE  new \in ServerRecords(t) /\ new.frames \subseteq c.frames
         /\ {f \in c.frames : tick > 0 => tick <= f.tick} \subseteq new.frames
  <1>0. PICK late : late = {f \in c.frames : tick > 0 => tick <= f.tick}
    OBVIOUS
  <1> SUFFICES new \in ServerRecords(t) /\ new.frames \subseteq c.frames /\ late \subseteq new.frames
    BY <1>0
  <1>1. CASE tick = NoTick
    BY <1>0, <1>1 DEF ProcessTick
  <1>2. CASE tick # NoTick
    <2> DEFINE pending == c.fullAcked < c.fullSent
               kept == IF tick # c.deltaTick /\ tick > 0 THEN DeleteClientFrames(c.frames, tick)
                                                         ELSE c.frames
    <2>1. PICK d : d = [c EXCEPT !.frames = kept]
      OBVIOUS
    <2>2. kept \subseteq c.frames /\ late \subseteq kept
      <3>1. tick > 0 => 0 <= tick
        BY SnapshotsAssumption DEF TicksTo, NoTick
      <3> QED
        BY <1>0, <3>1 DEF DeleteClientFrames
    <2> HIDE DEF kept
    <2>3. d \in ServerRecords(t) /\ d.frames \subseteq c.frames /\ late \subseteq d.frames
      BY <2>1, <2>2 DEF ServerRecords
    <2>4. ASSUME NEW e \in ServerRecords(t)
          PROVE  /\ SetDeltaTick(e, tick) \in ServerRecords(t)
                 /\ SetDeltaTick(e, tick).frames = e.frames
      <3>1. PICK update : update = IF e.updateTick > -1 /\ tick > e.updateTick THEN -1 ELSE e.updateTick
        OBVIOUS
      <3>2. tick \in TicksTo(t) /\ update \in TicksTo(t)
        BY <1>2, <3>1 DEF ServerRecords, TicksTo
      <3>3. SetDeltaTick(e, tick) = [e EXCEPT !.deltaTick = tick, !.updateTick = update]
        BY <3>1 DEF SetDeltaTick
      <3> QED
        BY <3>2, <3>3 DEF ServerRecords
    <2>5. /\ [d EXCEPT !.forceWaitForTick = -1, !.deltaTick = -1] \in ServerRecords(t)
          /\ [d EXCEPT !.forceWaitForTick = -1] \in ServerRecords(t)
          /\ Disconnect(d, "delta ticks out of order") \in ServerRecords(t)
      <3>1. -1 \in TicksTo(t)
        BY DEF TicksTo
      <3>2. /\ [d EXCEPT !.forceWaitForTick = -1, !.deltaTick = -1] \in ServerRecords(t)
            /\ [d EXCEPT !.forceWaitForTick = -1] \in ServerRecords(t)
        BY <2>3, <3>1 DEF ServerRecords
      <3>3. Disconnect(d, "delta ticks out of order") \in ServerRecords(t)
        BY <2>3 DEF ServerRecords, Disconnect
      <3> QED
        BY <3>2, <3>3
    <2>6. \A e \in ServerRecords(t) :
            /\ OnRequestFullUpdate(e) \in ServerRecords(t)
            /\ OnRequestFullUpdate(e).frames = e.frames
      BY RequestIs DEF OnRequestFullUpdate, ServerRecords
    <2>7. /\ [d EXCEPT !.forceWaitForTick = -1, !.deltaTick = -1].frames = d.frames
          /\ [d EXCEPT !.forceWaitForTick = -1].frames = d.frames
          /\ Disconnect(d, "delta ticks out of order").frames = d.frames
      BY <2>3 DEF ServerRecords, Disconnect
    <2>8. new = IF c.forceWaitForTick > 0 THEN AcknowledgeWhileWaiting(d, tick, pending)
                                          ELSE AcknowledgeDelta(d, tick)
      BY <1>2, <2>1 DEF ProcessTick, UpdateAcknowledgedFramecount, kept
    <2> HIDE DEF pending
    <2>9. CASE c.forceWaitForTick > 0
      <3>1. new = AcknowledgeWhileWaiting(d, tick, pending)
        BY <2>8, <2>9
      <3>2. d.forceWaitForTick \in TicksTo(t) /\ tick \in TicksTo(t) /\ pending \in BOOLEAN
        <4>1. pending \in BOOLEAN
          BY DEF pending
        <4> QED
          BY <1>2, <2>3, <4>1 DEF ServerRecords
      <3>3. CASE tick > d.forceWaitForTick
        <4>1. d.forceWaitForTick > 0
          BY <2>1, <2>9 DEF ServerRecords
        <4>2. tick # -1
          BY <3>2, <3>3, <4>1 DEF TicksTo
        <4>3. new = d
          BY <3>1, <3>2, <3>3, <4>2 DEF AcknowledgeWhileWaiting, TicksTo
        <4> QED
          BY <2>3, <4>3
      <3>4. CASE ~(tick > d.forceWaitForTick) /\ tick = -1 /\ ~pending
        <4>1. new = OnRequestFullUpdate([d EXCEPT !.forceWaitForTick = -1, !.deltaTick = -1])
          BY <3>1, <3>4 DEF AcknowledgeWhileWaiting
        <4> QED
          BY <2>3, <2>5, <2>6, <2>7, <4>1
      <3>5. CASE ~(tick > d.forceWaitForTick) /\ tick = -1 /\ pending
        <4>1. new = SetDeltaTick(d, tick)
          BY <3>1, <3>5 DEF AcknowledgeWhileWaiting
        <4> QED
          BY <2>3, <2>4, <4>1
      <3>6. CASE tick # -1 /\ tick < d.forceWaitForTick
        BY <2>3, <3>1, <3>2, <3>6 DEF AcknowledgeWhileWaiting, TicksTo
      <3>7. CASE tick # -1 /\ tick = d.forceWaitForTick
        <4>1. new = SetDeltaTick([d EXCEPT !.forceWaitForTick = -1], tick)
          BY <3>1, <3>2, <3>7 DEF AcknowledgeWhileWaiting, TicksTo
        <4> QED
          BY <2>3, <2>4, <2>5, <2>7, <4>1
      <3> QED
        BY <3>2, <3>3, <3>4, <3>5, <3>6, <3>7 DEF TicksTo
    <2>10. CASE ~(c.forceWaitForTick > 0)
      <3>1. new = AcknowledgeDelta(d, tick)
        BY <2>8, <2>10
      <3>2. d.deltaTick \in TicksTo(t) /\ tick \in TicksTo(t)
        BY <1>2, <2>3 DEF ServerRecords
      <3>3. CASE d.deltaTick = -1
        <4>1. ~(tick # -1 /\ d.deltaTick > tick)
          BY <3>2, <3>3 DEF TicksTo
        <4>2. new = d
          BY <3>1, <3>3, <4>1 DEF AcknowledgeDelta
        <4> QED
          BY <2>3, <4>2
      <3>4. CASE d.deltaTick # -1 /\ tick = -1
        <4>1. new = SetDeltaTick(OnRequestFullUpdate(d), tick)
          BY <3>1, <3>4 DEF AcknowledgeDelta
        <4> QED
          BY <2>3, <2>4, <2>6, <4>1
      <3>5. CASE d.deltaTick # -1 /\ tick # -1 /\ d.deltaTick > tick
        <4>1. new = Disconnect(d, "delta ticks out of order")
          BY <3>1, <3>2, <3>5 DEF AcknowledgeDelta
        <4> QED
          BY <2>3, <2>5, <2>7, <4>1
      <3>6. CASE d.deltaTick # -1 /\ tick # -1 /\ d.deltaTick <= tick
        <4>1. ~(tick # -1 /\ d.deltaTick > tick)
          BY <3>2, <3>6 DEF TicksTo
        <4>2. new = SetDeltaTick(d, tick)
          BY <3>1, <3>6, <4>1 DEF AcknowledgeDelta
        <4> QED
          BY <2>3, <2>4, <4>2
      <3> QED
        BY <3>2, <3>3, <3>4, <3>5, <3>6 DEF TicksTo
    <2> QED
      BY <2>9, <2>10
  <1> QED
    BY <1>1, <1>2

-----------------------------------------------------------------------------
(* The client's end keeps its types.                                       *)

LEMMA EnteringIs ==
  ASSUME NEW t \in 0 .. MaxTick, NEW c \in ClientRecords(t), NEW m \in Messages(t), NEW s \in Slots,
         m.updates[s].type = "enter"
  PROVE  m.updates[s] \in Enters /\ EnteringValue(c, m, s) \in Values
  <1>1. m.updates[s] \in Updates /\ m.baseline \in 0 .. 1
    BY DEF Messages
  <1>2. m.updates[s] \in Enters
    BY <1>1 DEF Updates, Leaves, Deltas, NoUpdate
  <1>3. m.updates[s].class \in Classes /\ m.updates[s].value \in Values \cup {Same}
    BY <1>2 DEF Enters
  <1>4. c.baselines[m.baseline][s] \in Baselines \cup {NoEntity}
    <2>1. c.baselines \in [0 .. 1 -> Kept]
      BY DEF ClientRecords
    <2>2. c.baselines[m.baseline] \in Kept
      BY <1>1, <2>1
    <2> QED
      BY <2>2 DEF Kept
  <1>5. GetEntityBaseline(c, m.baseline, s, m.updates[s].class) \in Values
    <2>1. ClassBaseline[m.updates[s].class] \in Values
      BY <1>3, SnapshotsAssumption
    <2>2. c.baselines[m.baseline][s] # NoEntity => c.baselines[m.baseline][s].value \in Values
      BY <1>4 DEF Baselines
    <2> QED
      BY <2>1, <2>2 DEF GetEntityBaseline
  <1> QED
    BY <1>2, <1>3, <1>5 DEF EnteringValue, Merged

\* What a message leaves of a slot.
LEMMA SlotRead ==
  ASSUME NEW t \in 0 .. MaxTick, NEW c \in ClientRecords(t), NEW m \in Messages(t), NEW s \in Slots,
         NEW v, v = ReadPacketEntities(c, m)[s]
  PROVE  /\ m.updates[s] \in Updates
         /\ s \in m.deletions => v = NoEntity
         /\ s \notin m.deletions =>
              /\ m.updates[s].type = "enter" => v = CL_CopyNewEntity(c, m, s)
              /\ m.updates[s].type = "leave" /\ m.updates[s].delete => v = NoEntity
              /\ m.isDelta /\ m.updates[s].type = "delta" =>
                   v = [c.entities[s] EXCEPT !.value = m.updates[s].value]
              /\ m.isDelta /\ m.updates[s].type = "leave" /\ ~m.updates[s].delete => v = c.entities[s]
              /\ m.isDelta /\ m.updates[s].type = "none" => v = c.entities[s]
              /\ ~m.isDelta /\ m.updates[s].type = "none" => v = NoEntity
  <1>1. m.updates[s] \in Updates
    BY DEF Messages
  <1> DEFINE before == IF m.isDelta THEN c.entities ELSE Nobody
             read(x) == CASE m.updates[x].type = "enter" -> CL_CopyNewEntity(c, m, x)
                          [] m.updates[x].type = "leave" /\ m.updates[x].delete -> NoEntity
                          [] m.updates[x].type = "delta" -> [before[x] EXCEPT !.value = m.updates[x].value]
                          [] OTHER -> before[x]
  <1>2. v = IF s \in m.deletions THEN NoEntity ELSE read(s)
    BY DEF ReadPacketEntities
  <1>3. Nobody[s] = NoEntity
    BY DEF Nobody
  <1>4. CASE s \in m.deletions
    BY <1>1, <1>2, <1>4
  <1>5. CASE s \notin m.deletions
    <2>1. v = read(s)
      BY <1>2, <1>5
    <2>2. before[s] = IF m.isDelta THEN c.entities[s] ELSE NoEntity
      BY <1>3
    <2> HIDE DEF before
    <2>3. CASE m.updates[s].type = "enter"
      BY <1>1, <1>5, <2>1, <2>3
    <2>4. CASE m.updates[s].type = "leave" /\ m.updates[s].delete
      BY <1>1, <1>5, <2>1, <2>4
    <2>5. CASE m.updates[s].type = "delta"
      BY <1>1, <1>5, <2>1, <2>2, <2>5
    <2>6. CASE m.updates[s].type = "leave" /\ ~m.updates[s].delete
      <3>1. v = before[s]
        BY <2>1, <2>6
      <3> QED
        BY <1>1, <1>5, <2>2, <2>6, <3>1
    <2>7. CASE m.updates[s].type = "none"
      <3>1. v = before[s]
        BY <2>1, <2>7
      <3> QED
        BY <1>1, <1>5, <2>2, <2>7, <3>1
    <2>8. m.updates[s].type \in {"enter", "leave", "delta", "none"}
      BY <1>1 DEF Updates, Enters, Leaves, Deltas, NoUpdate
    <2> QED
      BY <1>1, <1>5, <2>3, <2>4, <2>5, <2>6, <2>7, <2>8
  <1> QED
    BY <1>4, <1>5

LEMMA CopyIs ==
  ASSUME NEW t \in 0 .. MaxTick, NEW c \in ClientRecords(t), NEW m \in Messages(t), NEW s \in Slots,
         m.updates[s].type = "enter"
  PROVE  /\ CL_CopyNewEntity(c, m, s) \in Shown
         /\ Baseline(m.updates[s].class, EnteringValue(c, m, s)) \in Baselines
  BY EnteringIs DEF CL_CopyNewEntity, Shown, Baseline, Baselines, Enters

LEMMA EntitiesRead ==
  ASSUME NEW t \in 0 .. MaxTick, NEW c \in ClientRecords(t), NEW m \in Messages(t),
         NEW old, ~(m.isDelta /\ Missing(c, m, old))
  PROVE  ReadPacketEntities(c, m) \in [Slots -> Shown \cup {NoEntity}]
  <1>1. PICK g : g = ReadPacketEntities(c, m)
    OBVIOUS
  <1>2. ASSUME NEW s \in Slots PROVE g[s] \in Shown \cup {NoEntity}
    <2>1. PICK v : v = ReadPacketEntities(c, m)[s]
      OBVIOUS
    <2>2. /\ m.updates[s] \in Updates
          /\ s \in m.deletions => v = NoEntity
          /\ s \notin m.deletions =>
               /\ m.updates[s].type = "enter" => v = CL_CopyNewEntity(c, m, s)
               /\ m.updates[s].type = "leave" /\ m.updates[s].delete => v = NoEntity
               /\ m.isDelta /\ m.updates[s].type = "delta" =>
                    v = [c.entities[s] EXCEPT !.value = m.updates[s].value]
               /\ m.isDelta /\ m.updates[s].type = "leave" /\ ~m.updates[s].delete => v = c.entities[s]
               /\ m.isDelta /\ m.updates[s].type = "none" => v = c.entities[s]
               /\ ~m.isDelta /\ m.updates[s].type = "none" => v = NoEntity
      BY <2>1, SlotRead
    <2>3. c.entities[s] \in Shown \cup {NoEntity}
      BY DEF ClientRecords
    <2>4. CASE s \in m.deletions
      BY <1>1, <2>1, <2>2, <2>4
    <2>5. CASE s \notin m.deletions /\ m.updates[s].type = "enter"
      <3>1. v \in Shown
        BY <2>2, <2>5, CopyIs
      <3> QED
        BY <1>1, <2>1, <3>1
    <2>6. CASE s \notin m.deletions /\ m.updates[s].type = "leave" /\ m.updates[s].delete
      BY <1>1, <2>1, <2>2, <2>6
    <2>7. CASE s \notin m.deletions /\ m.isDelta /\ m.updates[s].type = "delta"
      <3>1. c.entities[s] # NoEntity
        BY <2>7 DEF Missing
      <3>2. m.updates[s].value \in Values
        BY <2>2, <2>7 DEF Updates, Enters, Leaves, Deltas, NoUpdate
      <3>3. v \in Shown
        BY <2>2, <2>3, <2>7, <3>1, <3>2 DEF Shown
      <3> QED
        BY <1>1, <2>1, <3>3
    <2>8. CASE /\ s \notin m.deletions /\ m.isDelta
               /\ \/ m.updates[s].type = "leave" /\ ~m.updates[s].delete
                  \/ m.updates[s].type = "none"
      BY <1>1, <2>1, <2>2, <2>3, <2>8
    <2>9. CASE s \notin m.deletions /\ ~m.isDelta /\ m.updates[s].type = "none"
      BY <1>1, <2>1, <2>2, <2>9
    <2>10. m.updates[s].type \in {"enter", "leave", "delta", "none"}
      BY <2>2 DEF Updates, Enters, Leaves, Deltas, NoUpdate
    <2>11. ~m.isDelta => m.updates[s].type \in {"enter", "none"}
      BY DEF Messages, Enters, NoUpdate
    <2> QED
      BY <2>4, <2>5, <2>6, <2>7, <2>8, <2>9, <2>10, <2>11
  <1>3. g = [s \in Slots |-> g[s]]
    BY <1>1 DEF ReadPacketEntities
  <1> QED
    BY <1>1, <1>2, <1>3

\* What reading a message does to the client's end.
OldView(c, m) == IF m.isDelta THEN GetClientFrame(c.frames, m.deltaFrom).view ELSE {}
Refused(c, m, new) ==
  /\ ~Ignores(c, m) /\ m.isDelta
  /\ m.tick = m.deltaFrom \/ ~HasFrame(c.frames, m.deltaFrom) \/ Missing(c, m, OldView(c, m))
  /\ \E why \in {"self-referencing", "delta not found", "missing entity"} :
       new = [c EXCEPT !.state = why]
Accepted(c, m, new) ==
  /\ ~Ignores(c, m)
  /\ m.isDelta => HasFrame(c.frames, m.deltaFrom) /\ ~Missing(c, m, OldView(c, m))
  /\ new = [c EXCEPT
       !.state = "full", !.deltaTick = m.tick,
       !.frames = KeptFrames(c, m) \cup {[tick |-> m.tick, view |-> ViewAfter(m, OldView(c, m))]},
       !.entities = ReadPacketEntities(c, m),
       !.baselines = IF m.updateBaseline
                       THEN [c.baselines EXCEPT ![Flip(m.baseline)] = UpdatedBaseline(c, m)]
                       ELSE c.baselines]

LEMMA ReadCases ==
  ASSUME NEW c, NEW m
  PROVE  \/ Ignores(c, m) /\ ProcessPacketEntities(c, m) = c
         \/ Refused(c, m, ProcessPacketEntities(c, m))
         \/ Accepted(c, m, ProcessPacketEntities(c, m))
  <1>0. PICK new : new = ProcessPacketEntities(c, m)
    OBVIOUS
  <1> DEFINE old == OldView(c, m)
  <1>1. CASE Ignores(c, m)
    BY <1>0, <1>1 DEF ProcessPacketEntities
  <1>2. CASE ~Ignores(c, m)
    <2>1. new = CL_ProcessPacketEntities(c, m)
      BY <1>0, <1>2 DEF ProcessPacketEntities
    <2>2. CASE m.isDelta /\ m.tick = m.deltaFrom
      <3>1. new = [c EXCEPT !.state = "self-referencing"]
        BY <2>1, <2>2 DEF CL_ProcessPacketEntities, OldView
      <3> QED
        BY <1>0, <1>2, <2>2, <3>1 DEF Refused
    <2>3. CASE m.isDelta /\ m.tick # m.deltaFrom /\ ~HasFrame(c.frames, m.deltaFrom)
      <3>1. new = [c EXCEPT !.state = "delta not found"]
        BY <2>1, <2>3 DEF CL_ProcessPacketEntities, OldView
      <3> QED
        BY <1>0, <1>2, <2>3, <3>1 DEF Refused
    <2>4. CASE m.isDelta /\ m.tick # m.deltaFrom /\ HasFrame(c.frames, m.deltaFrom) /\ Missing(c, m, old)
      <3>1. new = [c EXCEPT !.state = "missing entity"]
        BY <2>1, <2>4 DEF CL_ProcessPacketEntities, OldView
      <3> QED
        BY <1>0, <1>2, <2>4, <3>1 DEF Refused
    <2>5. CASE ~m.isDelta \/ (m.tick # m.deltaFrom /\ HasFrame(c.frames, m.deltaFrom) /\ ~Missing(c, m, old))
      <3>1. new = [c EXCEPT
                 !.state = "full", !.deltaTick = m.tick,
                 !.frames = KeptFrames(c, m) \cup {[tick |-> m.tick, view |-> ViewAfter(m, old)]},
                 !.entities = ReadPacketEntities(c, m),
                 !.baselines = IF m.updateBaseline
                                 THEN [c.baselines EXCEPT ![Flip(m.baseline)] = UpdatedBaseline(c, m)]
                                 ELSE c.baselines]
        BY <2>1, <2>5 DEF CL_ProcessPacketEntities, OldView
      <3> QED
        BY <1>0, <1>2, <2>5, <3>1 DEF Accepted
    <2> QED
      BY <2>2, <2>3, <2>4, <2>5
  <1> QED
    BY <1>1, <1>2

LEMMA BaselineRead ==
  ASSUME NEW t \in 0 .. MaxTick, NEW c \in ClientRecords(t), NEW m \in Messages(t)
  PROVE  UpdatedBaseline(c, m) \in Kept
  <1>1. PICK g : g = UpdatedBaseline(c, m)
    OBVIOUS
  <1>2. ASSUME NEW s \in Slots PROVE g[s] \in Baselines \cup {NoEntity}
    <2>1. c.baselines[m.baseline][s] \in Baselines \cup {NoEntity}
      <3>1. c.baselines \in [0 .. 1 -> Kept] /\ m.baseline \in 0 .. 1
        BY DEF ClientRecords, Messages
      <3>2. c.baselines[m.baseline] \in Kept
        BY <3>1
      <3> QED
        BY <3>2 DEF Kept
    <2>2. m.updates[s].type = "enter" =>
            Baseline(m.updates[s].class, EnteringValue(c, m, s)) \in Baselines
      BY CopyIs
    <2> QED
      BY <1>1, <2>1, <2>2 DEF UpdatedBaseline
  <1>3. g = [s \in Slots |-> g[s]]
    BY <1>1 DEF UpdatedBaseline
  <1> QED
    BY <1>1, <1>2, <1>3 DEF Kept

LEMMA ReadIs ==
  ASSUME NEW t \in 0 .. MaxTick, NEW c \in ClientRecords(t), NEW m \in Messages(t)
  PROVE  ProcessPacketEntities(c, m) \in ClientRecords(t)
  <1>1. PICK new : new = ProcessPacketEntities(c, m)
    OBVIOUS
  <1>2. CASE Ignores(c, m) /\ new = c
    BY <1>1, <1>2
  <1>3. CASE Refused(c, m, new)
    BY <1>1, <1>3 DEF Refused, ClientRecords
  <1> DEFINE frame == [tick |-> m.tick, view |-> ViewAfter(m, OldView(c, m))]
             frames == KeptFrames(c, m) \cup {frame}
             baselines == IF m.updateBaseline
                            THEN [c.baselines EXCEPT ![Flip(m.baseline)] = UpdatedBaseline(c, m)]
                            ELSE c.baselines
  <1>4. CASE Accepted(c, m, new)
    <2>1. m.tick \in 1 .. t /\ m.baseline \in 0 .. 1 /\ m.tick \in TicksTo(t)
      BY DEF Messages, TicksTo
    <2>2. frame \in ClientFrames(t)
      BY <2>1 DEF ClientFrames, ViewAfter
    <2>3. frames \in SUBSET ClientFrames(t)
      BY <2>2 DEF KeptFrames, DeleteClientFrames, ClientRecords
    <2>4. baselines \in [0 .. 1 -> Kept]
      BY <2>1, BaselineRead DEF ClientRecords, Flip
    <2>5. ReadPacketEntities(c, m) \in [Slots -> Shown \cup {NoEntity}]
      BY <1>4, EntitiesRead DEF Accepted
    <2>6. new = [c EXCEPT !.state = "full", !.deltaTick = m.tick, !.frames = frames,
                          !.entities = ReadPacketEntities(c, m), !.baselines = baselines]
      BY <1>4 DEF Accepted
    <2> HIDE DEF frame, frames, baselines
    <2>7. new \in ClientRecords(t)
      BY <2>1, <2>3, <2>4, <2>5, <2>6 DEF ClientRecords
    <2> QED
      BY <1>1, <2>7
  <1> QED
    BY <1>1, <1>2, <1>3, <1>4, ReadCases

Ends(t) == [cl : ClientRecords(t), acks : Seq(AckRecords(t))]

LEMMA ReadingIs ==
  ASSUME NEW t \in 0 .. MaxTick, NEW e \in Ends(t), NEW m \in Messages(t)
  PROVE  Reading(e, m) \in Ends(t) /\ ReadingFull(e, m) \in Ends(t)
  <1>1. PICK c \in ClientRecords(t) : c = ProcessPacketEntities(e.cl, m)
    BY ReadIs DEF Ends
  <1>2. BaselineAcks(e.cl, m) \in Seq(AckRecords(t))
    <2>1. [tick |-> m.tick, nr |-> m.baseline] \in AckRecords(t)
      BY DEF AckRecords, Messages
    <2> QED
      BY <2>1 DEF BaselineAcks
  <1>3. PICK a \in Seq(AckRecords(t)) : a = e.acks \o BaselineAcks(e.cl, m)
    <2>1. PICK S, b : S = AckRecords(t) /\ b = BaselineAcks(e.cl, m)
      OBVIOUS
    <2>2. e.acks \in Seq(S) /\ b \in Seq(S)
      BY <1>2, <2>1 DEF Ends
    <2>3. e.acks \o b \in Seq(S)
      BY <2>2
    <2> QED
      BY <2>1, <2>3
  <1>4. Reading(e, m) = [cl |-> c, acks |-> a]
    BY <1>1, <1>3 DEF Reading
  <1>5. ReadingFull(e, m) = [cl |-> [c EXCEPT !.fullReceived = m.tick], acks |-> a]
    BY <1>4 DEF ReadingFull
  <1>6. [c EXCEPT !.fullReceived = m.tick] \in ClientRecords(t)
    BY DEF ClientRecords, Messages, TicksTo
  <1> QED
    BY <1>4, <1>5, <1>6 DEF Ends

-----------------------------------------------------------------------------
(* Every step keeps the types.                                             *)

LEMMA Later ==
  ASSUME NEW t \in Nat
  PROVE  /\ TicksTo(t) \subseteq TicksTo(t + 1) /\ Frames(t) \subseteq Frames(t + 1)
         /\ ServerRecords(t) \subseteq ServerRecords(t + 1)
         /\ ClientRecords(t) \subseteq ClientRecords(t + 1)
         /\ Messages(t) \subseteq Messages(t + 1) /\ AckRecords(t) \subseteq AckRecords(t + 1)
         /\ Datagrams(t) \subseteq Datagrams(t + 1) /\ Moves(t) \subseteq Moves(t + 1)
  <1>1. 1 .. t \subseteq 1 .. t + 1
    OBVIOUS
  <1>2. TicksTo(t) \subseteq TicksTo(t + 1)
    BY <1>1 DEF TicksTo
  <1>3. Frames(t) \subseteq Frames(t + 1)
    BY <1>1 DEF Frames
  <1>4. ServerRecords(t) \subseteq ServerRecords(t + 1)
    BY <1>2, <1>3 DEF ServerRecords
  <1>5. ClientFrames(t) \subseteq ClientFrames(t + 1)
    BY <1>1 DEF ClientFrames
  <1>6. ClientRecords(t) \subseteq ClientRecords(t + 1)
    BY <1>2, <1>5 DEF ClientRecords
  <1>7. Messages(t) \subseteq Messages(t + 1)
    BY <1>1, <1>2 DEF Messages
  <1>8. AckRecords(t) \subseteq AckRecords(t + 1)
    BY <1>1 DEF AckRecords
  <1>9. Datagrams(t) \subseteq Datagrams(t + 1)
    BY <1>2, <1>7 DEF Datagrams
  <1>10. Moves(t) \subseteq Moves(t + 1)
    BY <1>2 DEF Moves
  <1> QED
    BY <1>2, <1>3, <1>4, <1>6, <1>7, <1>8, <1>9, <1>10

LEMMA FirstOf ==
  ASSUME NEW S, NEW q \in Seq(S), NEW n \in 0 .. Len(q)
  PROVE  /\ SubSeq(q, 1, n) \in Seq(S) /\ Len(SubSeq(q, 1, n)) = n
         /\ DOMAIN SubSeq(q, 1, n) = 1 .. n
         /\ \A i \in 1 .. n : SubSeq(q, 1, n)[i] = q[i] /\ q[i] \in S
         /\ SubSeq(q, n + 1, Len(q)) \in Seq(S) /\ Len(SubSeq(q, n + 1, Len(q))) = Len(q) - n
         /\ \A i \in 1 .. Len(q) - n : SubSeq(q, n + 1, Len(q))[i] = q[n + i]
  OBVIOUS

LEMMA CarriedIs ==
  ASSUME NEW S, NEW q \in Seq(S), NEW upto
  PROVE  Carried(q, upto) \in 0 .. Len(q)
  <1>1. PICK n \in Nat : n = Len(q)
    OBVIOUS
  <1>2. DOMAIN q = 1 .. n
    BY <1>1
  <1>3. IsFiniteSet(1 .. n) /\ Cardinality(1 .. n) = n
    <2>1. 1 \in Int /\ n \in Int /\ (1 > n => n = 0)
      OBVIOUS
    <2> QED
      BY <2>1, FS_Interval
  <1> DEFINE T == {i \in DOMAIN q : q[i].tick <= upto}
  <1>4. T \subseteq 1 .. n
    BY <1>2
  <1> HIDE DEF T
  <1>5. IsFiniteSet(T) /\ Cardinality(T) <= n /\ Cardinality(T) \in Nat
    BY <1>3, <1>4, FS_Subset, FS_CardinalityType
  <1> QED
    BY <1>1, <1>5 DEF Carried, T

LEMMA LowestTick ==
  ASSUME NEW F, F # {}, \A f \in F : f.tick \in Nat
  PROVE  \E f \in F : \A g \in F : f.tick <= g.tick
  <1> DEFINE T == {f.tick : f \in F}
  <1>1. T # {} /\ T \subseteq Nat
    OBVIOUS
  <1>2. PICK x \in T : \A y \in T : <<y, x>> \notin Less
    BY <1>1, LessWF, WFMin
  <1>3. PICK f \in F : f.tick = x
    BY <1>2
  <1>4. ASSUME NEW g \in F PROVE f.tick <= g.tick
    <2>1. g.tick \in T
      OBVIOUS
    <2>2. <<g.tick, x>> \notin Less
      BY <1>2, <2>1
    <2> QED
      BY <1>3, <2>2 DEF Less
  <1> QED
    BY <1>4

\* A frame is added; the oldest ones leave when there are too many.
LEMMA AddIs ==
  ASSUME NEW t \in Nat, NEW frames \in SUBSET Frames(t), NEW frame \in Frames(t),
         IsFiniteSet(frames), Cardinality(frames) <= MAX_CLIENT_FRAMES,
         NEW new, new = AddFrame(frames, frame)
  PROVE  /\ new \subseteq frames \cup {frame}
         /\ IsFiniteSet(new) /\ Cardinality(new) <= MAX_CLIENT_FRAMES
  <1>1. PICK all : all = frames \cup {frame}
    OBVIOUS
  <1>2. IsFiniteSet(all) /\ Cardinality(all) \in Nat /\ Cardinality(all) <= Cardinality(frames) + 1
    <2>1. IsFiniteSet(all)
          /\ Cardinality(all) = IF frame \in frames THEN Cardinality(frames) ELSE Cardinality(frames) + 1
      BY <1>1, FS_AddElement
    <2>2. Cardinality(frames) \in Nat
      BY FS_CardinalityType
    <2> QED
      BY <2>1, <2>2
  <1>3. MAX_CLIENT_FRAMES \in Nat /\ Cardinality(frames) \in Nat
    BY SnapshotsAssumption, FS_CardinalityType
  <1>4. CASE Cardinality(all) > MAX_CLIENT_FRAMES
    <2>1. new = RemoveOldestFrame(all) /\ new \subseteq all
      BY <1>1, <1>4 DEF AddFrame, RemoveOldestFrame
    <2>2. \A f \in all : f.tick \in Nat
      BY <1>1 DEF Frames
    <2>3. all # {}
      BY <1>1
    <2>4. PICK f \in all : \A g \in all : f.tick <= g.tick
      BY <2>2, <2>3, LowestTick
    <2>5. f \notin new
      BY <2>1, <2>2, <2>4 DEF RemoveOldestFrame
    <2>6. IsFiniteSet(new) /\ Cardinality(new) \in Nat /\ Cardinality(new) < Cardinality(all)
      BY <1>2, <2>1, <2>4, <2>5, FS_Subset, FS_CardinalityType
    <2>7. Cardinality(new) <= MAX_CLIENT_FRAMES
      BY <1>2, <1>3, <2>6
    <2> QED
      BY <1>1, <2>1, <2>6, <2>7
  <1>5. CASE ~(Cardinality(all) > MAX_CLIENT_FRAMES)
    <2>1. new = all
      BY <1>1, <1>5 DEF AddFrame
    <2> QED
      BY <1>1, <1>2, <1>3, <1>5, <2>1
  <1> QED
    BY <1>4, <1>5

\* What the game may do to a slot.
SlotChanged(s, change) ==
  LET next == m_nTickCount + 1
  IN /\ change.ents \in Edicts /\ change.serials \in [Slots -> 1 .. MaxSerial]
     /\ change.view \in SUBSET {x \in Slots : change.ents[x] # NoEntity}
     /\ change.reused \in SUBSET {s}
     /\ \A x \in Slots \ {s} : change.ents[x] = edicts[x] /\ change.serials[x] = serials[x]
     /\ \/ /\ edicts[s] = NoEntity /\ change.ents[s] \in NewEntities(serials[s], next)
           /\ change.serials[s] = serials[s] /\ change.reused = {}
        \/ /\ edicts[s] # NoEntity /\ change.reused = {}
           /\ \/ change.ents[s] = edicts[s]
              \/ \E v \in Values : change.ents[s] = [edicts[s] EXCEPT !.value = v, !.changed = next]
           /\ change.serials[s] = edicts[s].serial
        \/ /\ edicts[s] # NoEntity /\ change.ents[s] = NoEntity /\ change.reused = {}
           /\ change.serials[s] = serials[s] + 1
        \/ /\ edicts[s] # NoEntity /\ change.reused = {s}
           /\ change.ents[s] \in NewEntities(serials[s] + 1, next)
           /\ change.serials[s] = serials[s] + 1

LEMMA ChangeIs ==
  ASSUME WorldTyped, NEW s \in Slots, NEW change \in SlotChanges(s), m_nTickCount < MaxTick
  PROVE  SlotChanged(s, change)
  <1>1. PICK entity, seen, reused : seen \in BOOLEAN /\ change = Change(s, entity, seen, reused)
          /\ \/ /\ edicts[s] = NoEntity /\ entity \in NewEntities(serials[s], m_nTickCount + 1)
                /\ reused = {}
             \/ /\ edicts[s] # NoEntity /\ entity = edicts[s] /\ reused = {}
             \/ /\ edicts[s] # NoEntity /\ reused = {} /\ seen = (s \in view)
                /\ \E v \in Values : entity = [edicts[s] EXCEPT !.value = v, !.changed = m_nTickCount + 1]
             \/ /\ edicts[s] # NoEntity /\ entity = NoEntity /\ reused = {} /\ ~seen
                /\ serials[s] < MaxSerial
             \/ /\ edicts[s] # NoEntity /\ entity \in NewEntities(serials[s] + 1, m_nTickCount + 1)
                /\ reused = {s} /\ serials[s] < MaxSerial
    <2>1. (s \in view) \in BOOLEAN /\ (s \notin view) \in BOOLEAN
      OBVIOUS
    <2>2. CASE edicts[s] = NoEntity
      <3>1. PICK new \in NewEntities(serials[s], m_nTickCount + 1), seen \in BOOLEAN :
              change = Change(s, new, seen, {})
        BY <2>2 DEF SlotChanges, Appears
      <3> QED
        BY <2>2, <3>1
    <2>3. CASE edicts[s] # NoEntity
      <3>1. \/ change \in Stays(s)
            \/ serials[s] < MaxSerial /\ change = Change(s, NoEntity, FALSE, {})
            \/ serials[s] < MaxSerial /\ change \in Appears(s, serials[s] + 1, {s})
        BY <2>3 DEF SlotChanges, Goes
      <3>2. CASE change \in Stays(s)
        <4>1. CASE change \in {Change(s, edicts[s], seen, {}) : seen \in BOOLEAN}
          <5>1. PICK seen \in BOOLEAN : change = Change(s, edicts[s], seen, {})
            BY <4>1
          <5> QED
            BY <2>3, <5>1
        <4>2. CASE change \in {Change(s, [edicts[s] EXCEPT !.value = v, !.changed = m_nTickCount + 1], s \in view, {}) :
                              v \in Values \ {edicts[s].value}}
          <5>1. PICK seen : seen = (s \in view)
            OBVIOUS
          <5>2. PICK v \in Values :
                  change = Change(s, [edicts[s] EXCEPT !.value = v, !.changed = m_nTickCount + 1], seen, {})
            BY <4>2, <5>1
          <5> QED
            BY <2>1, <2>3, <5>1, <5>2
        <4> QED
          BY <3>2, <4>1, <4>2 DEF Stays
      <3>3. CASE serials[s] < MaxSerial /\ change = Change(s, NoEntity, FALSE, {})
        BY <2>3, <3>3
      <3>4. CASE serials[s] < MaxSerial /\ change \in Appears(s, serials[s] + 1, {s})
        <4>1. PICK new, seen : /\ new \in NewEntities(serials[s] + 1, m_nTickCount + 1) /\ seen \in BOOLEAN
                               /\ change = Change(s, new, seen, {s})
          BY <3>4 DEF Appears
        <4> QED
          BY <2>3, <3>4, <4>1
      <3> QED
        BY <3>1, <3>2, <3>3, <3>4
    <2> QED
      BY <2>2, <2>3
  <1>2. /\ change.ents = [edicts EXCEPT ![s] = entity]
        /\ change.serials = [serials EXCEPT ![s] = IF entity = NoEntity THEN serials[s] + 1 ELSE entity.serial]
        /\ change.view = (IF seen THEN view \cup {s} ELSE view \ {s})
        /\ change.reused = reused
    BY <1>1 DEF Change
  <1>3. /\ edicts[s] # NoEntity => edicts[s] \in Entity
        /\ m_nTickCount + 1 \in 0 .. MaxTick /\ serials[s] \in 1 .. MaxSerial /\ MaxSerial \in Nat
    BY SnapshotsAssumption DEF WorldTyped, Edicts
  <1>4. /\ entity \in Entity \cup {NoEntity}
        /\ entity = NoEntity => ~seen /\ serials[s] < MaxSerial
    <2>1. \A n : NewEntities(n, m_nTickCount + 1) \subseteq Entity
      BY DEF NewEntities
    <2>2. NoEntity \notin Entity
      BY SnapshotsAssumption
    <2>3. ASSUME edicts[s] # NoEntity, NEW v \in Values
          PROVE  [edicts[s] EXCEPT !.value = v, !.changed = m_nTickCount + 1] \in Entity
      BY <1>3, <2>3 DEF Entity
    <2> QED
      BY <1>1, <1>3, <2>1, <2>2, <2>3
  <1>5. change.ents \in Edicts
    BY <1>2, <1>4 DEF WorldTyped, Edicts
  <1>6. change.serials \in [Slots -> 1 .. MaxSerial]
    <2>1. entity # NoEntity => entity.serial \in 1 .. MaxSerial
      BY <1>4 DEF Entity
    <2>2. entity = NoEntity => serials[s] + 1 \in 1 .. MaxSerial
      BY <1>3, <1>4
    <2> QED
      BY <1>2, <2>1, <2>2 DEF WorldTyped
  <1>7. change.view \in SUBSET {x \in Slots : change.ents[x] # NoEntity}
    BY <1>2, <1>4 DEF WorldTyped, Edicts
  <1>8. \A x \in Slots \ {s} : change.ents[x] = edicts[x] /\ change.serials[x] = serials[x]
    BY <1>2 DEF WorldTyped, Edicts
  <1>9. change.ents[s] = entity
         /\ change.serials[s] = IF entity = NoEntity THEN serials[s] + 1 ELSE entity.serial
    BY <1>2 DEF WorldTyped, Edicts
  <1>10. \A n, x : x \in NewEntities(n, m_nTickCount + 1) => x # NoEntity /\ x.serial = n
    BY SnapshotsAssumption DEF NewEntities
  <1>11. change.reused \in SUBSET {s}
    BY <1>1, <1>2
  <1>12. CASE edicts[s] = NoEntity /\ entity \in NewEntities(serials[s], m_nTickCount + 1) /\ reused = {}
    BY <1>2, <1>5, <1>6, <1>7, <1>8, <1>9, <1>10, <1>11, <1>12 DEF SlotChanged
  <1>13. CASE edicts[s] # NoEntity /\ entity = edicts[s] /\ reused = {}
    BY <1>2, <1>5, <1>6, <1>7, <1>8, <1>9, <1>10, <1>11, <1>13 DEF SlotChanged
  <1>14. CASE /\ edicts[s] # NoEntity /\ reused = {}
              /\ \E v \in Values : entity = [edicts[s] EXCEPT !.value = v, !.changed = m_nTickCount + 1]
    <2>1. entity # NoEntity /\ entity.serial = edicts[s].serial
      <3>1. entity \in Entity
        BY <1>3, <1>14 DEF Entity
      <3> QED
        BY <1>3, <1>14, <3>1, SnapshotsAssumption DEF Entity
    <2> QED
      BY <1>2, <1>5, <1>6, <1>7, <1>8, <1>9, <1>11, <1>14, <2>1 DEF SlotChanged
  <1>15. CASE edicts[s] # NoEntity /\ entity = NoEntity /\ reused = {}
    BY <1>2, <1>5, <1>6, <1>7, <1>8, <1>9, <1>10, <1>11, <1>15 DEF SlotChanged
  <1>16. CASE edicts[s] # NoEntity /\ entity \in NewEntities(serials[s] + 1, m_nTickCount + 1) /\ reused = {s}
    BY <1>2, <1>5, <1>6, <1>7, <1>8, <1>9, <1>10, <1>11, <1>16 DEF SlotChanged
  <1> QED
    BY <1>1, <1>12, <1>13, <1>14, <1>15, <1>16

\* The tick the server reaches, and what it sends.
LEMMA SendTyped ==
  ASSUME Typed, FewFrames, SendClientMessages
  PROVE  Typed' /\ FewFrames'
  <1>1. PICK t : t = m_nTickCount
    OBVIOUS
  <1>2. t \in 0 .. MaxTick /\ t + 1 \in 0 .. MaxTick /\ t \in Nat /\ MaxTick \in Nat
        /\ m_nTickCount' = t + 1 /\ m_nTickCount < MaxTick
    BY <1>1, SnapshotsAssumption DEF Typed, WorldTyped, SendClientMessages
  <1>3. PICK s, change : s \in Slots /\ change \in SlotChanges(s) /\
          LET frame == [tick |-> m_nTickCount + 1, ents |-> change.ents, view |-> change.view]
          IN /\ edicts' = change.ents /\ serials' = change.serials /\ view' = change.view
             /\ SendSnapshot([client EXCEPT !.frames = AddFrame(client.frames, frame)], frame, change.reused)
    BY DEF SendClientMessages
  <1>4. /\ change.ents \in Edicts /\ change.serials \in [Slots -> 1 .. MaxSerial]
        /\ change.view \in SUBSET {x \in Slots : change.ents[x] # NoEntity}
        /\ change.reused \in SUBSET Slots
    <2>1. SlotChanged(s, change)
      BY <1>2, <1>3, ChangeIs DEF Typed
    <2> QED
      BY <1>3, <2>1 DEF SlotChanged
  <1>5. PICK frame : frame = [tick |-> t + 1, ents |-> change.ents, view |-> change.view]
    OBVIOUS
  <1>6. frame \in Frames(t + 1)
    <2>1. frame \in Frame
      BY <1>2, <1>4, <1>5 DEF Frame, Edicts
    <2> QED
      BY <1>2, <1>4, <1>5, <2>1 DEF Frames
  <1>7. client \in ServerRecords(t + 1) /\ client.frames \in SUBSET Frames(t + 1)
    <2>1. client \in ServerRecords(t + 1)
      BY <1>1, <1>2, Later DEF Typed
    <2> QED
      BY <2>1 DEF ServerRecords
  <1>8. PICK frames : frames = AddFrame(client.frames, frame)
    OBVIOUS
  <1>9. /\ frames \in SUBSET Frames(t + 1) /\ frames \subseteq client.frames \cup {frame}
        /\ IsFiniteSet(frames) /\ Cardinality(frames) <= MAX_CLIENT_FRAMES
    <2>1. t + 1 \in Nat
      BY <1>2
    <2>2. /\ frames \subseteq client.frames \cup {frame}
          /\ IsFiniteSet(frames) /\ Cardinality(frames) <= MAX_CLIENT_FRAMES
      BY <1>6, <1>7, <1>8, <2>1, AddIs DEF FewFrames
    <2> QED
      BY <1>6, <1>7, <2>2
  <1>10. PICK c : c = [client EXCEPT !.frames = frames]
    OBVIOUS
  <1>11. c \in ServerRecords(t + 1) /\ c.frames = frames
    BY <1>7, <1>9, <1>10 DEF ServerRecords
  <1>12. SendSnapshot(c, frame, change.reused)
    BY <1>1, <1>3, <1>5, <1>8, <1>10
  <1>13. client' \in ServerRecords(t + 1) /\ client'.frames = frames
         /\ fullUpdates' \in Seq(Messages(t + 1))
         /\ \E m : toClient' = Append(toClient, [msg |-> m, upto |-> client'.fullSent])
              /\ m \in Messages(t + 1) \cup {NoMsg}
    <2>1. fullUpdates \in Seq(Messages(t + 1))
      <3>1. PICK A, B : A = Messages(t) /\ B = Messages(t + 1)
        OBVIOUS
      <3>2. A \subseteq B /\ fullUpdates \in Seq(A)
        BY <1>1, <1>2, <3>1, Later DEF Typed
      <3>3. fullUpdates \in Seq(B)
        BY <3>2
      <3> QED
        BY <3>1, <3>3
    <2>2. CASE Transmit(c)
      BY <1>11, <2>1, <2>2 DEF Transmit, Send
    <2>3. CASE SendFull(c, frame, change.reused)
      <3>1. PICK w : w = WriteDeltaEntities(OnRequestFullUpdate(c), NoFrame, frame, change.reused)
        OBVIOUS
      <3>2. /\ client' = [w.client EXCEPT !.forceWaitForTick = frame.tick, !.fullSent = frame.tick]
            /\ fullUpdates' = Append(fullUpdates, w.msg)
            /\ toClient' = Append(toClient, [msg |-> NoMsg, upto |-> client'.fullSent])
        BY <2>3, <3>1 DEF SendFull, Send
      <3>3. OnRequestFullUpdate(c) \in ServerRecords(t + 1) /\ OnRequestFullUpdate(c).frames = frames
        BY <1>11, RequestIs DEF OnRequestFullUpdate, ServerRecords
      <3>4. NoFrame \in Sources(t + 1)
        BY DEF Sources
      <3>5. w.client \in ServerRecords(t + 1) /\ w.msg \in Messages(t + 1)
        BY <1>2, <1>4, <1>6, <3>1, <3>3, <3>4, WriteIs
      <3>6. w.client.frames = frames
        BY <3>1, <3>3 DEF WriteDeltaEntities, ServerRecords
      <3>7. frame.tick \in TicksTo(t + 1)
        BY <1>2, <1>5 DEF TicksTo
      <3>8. client' \in ServerRecords(t + 1) /\ client'.frames = frames
        BY <3>2, <3>5, <3>6, <3>7 DEF ServerRecords
      <3>9. fullUpdates' \in Seq(Messages(t + 1))
        BY <2>1, <3>2, <3>5
      <3> QED
        BY <3>2, <3>8, <3>9
    <2>4. CASE SendDelta(c, frame, change.reused)
      <3>1. PICK from : from = GetClientFrame(c.frames, c.deltaTick)
        OBVIOUS
      <3>2. PICK w : w = WriteDeltaEntities(c, from, frame, change.reused)
        OBVIOUS
      <3>3. /\ HasFrame(c.frames, c.deltaTick) /\ client' = w.client
            /\ UNCHANGED fullUpdates
            /\ \/ toClient' = Append(toClient, [msg |-> w.msg, upto |-> client'.fullSent])
               \/ toClient' = Append(toClient, [msg |-> NoMsg, upto |-> client'.fullSent])
        BY <2>4, <3>1, <3>2 DEF SendDelta, Send
      <3>4. from \in c.frames
        BY <3>1, <3>3 DEF HasFrame, GetClientFrame
      <3>5. from \in Sources(t + 1)
        BY <1>9, <1>11, <3>4 DEF Sources
      <3>6. w.client \in ServerRecords(t + 1) /\ w.msg \in Messages(t + 1)
        BY <1>2, <1>4, <1>6, <1>11, <3>2, <3>5, WriteIs
      <3>7. w.client.frames = frames
        BY <1>11, <3>2 DEF WriteDeltaEntities, ServerRecords
      <3> QED
        BY <2>1, <3>3, <3>6, <3>7
    <2> QED
      BY <1>12, <2>2, <2>3, <2>4 DEF SendSnapshot
  <1>14. toClient' \in Seq(Datagrams(t + 1))
    <2>1. PICK A, B : A = Datagrams(t) /\ B = Datagrams(t + 1)
      OBVIOUS
    <2>2. A \subseteq B /\ toClient \in Seq(A)
      BY <1>1, <1>2, <2>1, Later DEF Typed
    <2>3. PICK d : toClient' = Append(toClient, d) /\ d \in B
      <3>1. PICK m : /\ toClient' = Append(toClient, [msg |-> m, upto |-> client'.fullSent])
                     /\ m \in Messages(t + 1) \cup {NoMsg}
        BY <1>13
      <3>2. client'.fullSent \in TicksTo(t + 1)
        BY <1>13 DEF ServerRecords
      <3> QED
        BY <2>1, <3>1, <3>2 DEF Datagrams
    <2>4. toClient' \in Seq(B)
      BY <2>2, <2>3
    <2> QED
      BY <2>1, <2>4
  <1>15. cl' \in ClientRecords(t + 1) /\ toServer' \in Seq(Moves(t + 1)) /\ acks' \in Seq(AckRecords(t + 1))
    <2>1. UNCHANGED <<cl, toServer, acks>>
      BY DEF SendClientMessages
    <2>2. PICK A, B : A = Moves(t) /\ B = Moves(t + 1)
      OBVIOUS
    <2>3. PICK C, D : C = AckRecords(t) /\ D = AckRecords(t + 1)
      OBVIOUS
    <2>4. A \subseteq B /\ C \subseteq D /\ toServer \in Seq(A) /\ acks \in Seq(C)
          /\ cl \in ClientRecords(t + 1)
      BY <1>1, <1>2, <2>2, <2>3, Later DEF Typed
    <2>5. toServer \in Seq(B) /\ acks \in Seq(D)
      BY <2>4
    <2> QED
      BY <2>1, <2>2, <2>3, <2>4, <2>5
  <1>16. WorldTyped'
    BY <1>2, <1>3, <1>4 DEF WorldTyped
  <1> QED
    BY <1>2, <1>9, <1>13, <1>14, <1>15, <1>16 DEF Typed, FewFrames

LEMMA ReadTyped ==
  ASSUME Typed, FewFrames, PacketToClient
  PROVE  Typed' /\ FewFrames'
  <1>1. PICK t : t = m_nTickCount
    OBVIOUS
  <1>2. t \in 0 .. MaxTick /\ UNCHANGED <<world, client, toServer, requests>>
    BY <1>1 DEF Typed, WorldTyped, PacketToClient
  <1>3. PICK D : D = Datagrams(t)
    OBVIOUS
  <1>4. toClient \in Seq(D) /\ toClient # <<>>
    BY <1>1, <1>3 DEF Typed, PacketToClient
  <1>5. PICK packet : packet = Head(toClient)
    OBVIOUS
  <1>6. packet \in D /\ toClient' \in Seq(D)
    <2>1. toClient' = Tail(toClient)
      BY DEF PacketToClient
    <2> QED
      BY <1>4, <1>5, <2>1
  <1>7. PICK M : M = Messages(t)
    OBVIOUS
  <1>8. fullUpdates \in Seq(M)
    BY <1>1, <1>7 DEF Typed
  <1>9. PICK n \in 0 .. Carried(fullUpdates, packet.upto) :
          LET full == FoldLeft(ReadingFull, [cl |-> cl, acks |-> acks], SubSeq(fullUpdates, 1, n))
              end == IF packet.msg = NoMsg THEN full ELSE Reading(full, packet.msg)
          IN /\ cl' = end.cl /\ acks' = end.acks
             /\ fullUpdates' = SubSeq(fullUpdates, n + 1, Len(fullUpdates))
    BY <1>5 DEF PacketToClient
  <1>10. n \in 0 .. Len(fullUpdates) /\ n \in Nat
    <2>1. Carried(fullUpdates, packet.upto) \in 0 .. Len(fullUpdates)
      BY <1>8, CarriedIs
    <2> QED
      BY <1>8, <2>1
  <1>11. PICK seq : seq = SubSeq(fullUpdates, 1, n)
    OBVIOUS
  <1>12. DOMAIN seq = 1 .. n /\ (\A i \in 1 .. n : seq[i] \in M) /\ fullUpdates' \in Seq(M)
    BY <1>8, <1>9, <1>10, <1>11, FirstOf
  <1>13. PICK base : base = [cl |-> cl, acks |-> acks]
    OBVIOUS
  <1>14. base \in Ends(t)
    BY <1>1, <1>13 DEF Ends, Typed
  <1>15. PICK full : full = FoldLeft(ReadingFull, base, seq)
    OBVIOUS
  <1>16. full \in Ends(t)
    <2>1. PICK V : V = Ends(t)
      OBVIOUS
    <2>2. \A v \in V, k \in 1 .. n : ReadingFull(v, seq[k]) \in V
      BY <1>2, <1>7, <1>12, <2>1, ReadingIs
    <2>3. base \in V /\ DOMAIN seq = 1 .. n
      BY <1>12, <1>14, <2>1
    <2>4. PICK r : FullRuns(V, n, base, seq, r) /\ FoldLeft(ReadingFull, base, seq) = r[n]
      BY <1>10, <2>2, <2>3, FullRun
    <2> QED
      BY <1>10, <1>15, <2>1, <2>4 DEF FullRuns
  <1>17. PICK end : end = (IF packet.msg = NoMsg THEN full ELSE Reading(full, packet.msg))
    OBVIOUS
  <1>18. end \in Ends(t) /\ cl' = end.cl /\ acks' = end.acks
    <2>1. cl' = end.cl /\ acks' = end.acks
      BY <1>9, <1>11, <1>13, <1>15, <1>17
    <2>2. packet.msg # NoMsg => packet.msg \in Messages(t)
      BY <1>3, <1>6 DEF Datagrams
    <2> QED
      BY <1>2, <1>16, <1>17, <2>1, <2>2, ReadingIs
  <1> QED
    BY <1>1, <1>2, <1>3, <1>6, <1>7, <1>12, <1>18 DEF Typed, FewFrames, WorldTyped, world, Ends

LEMMA PacketTyped ==
  ASSUME Typed, FewFrames, PacketToServer
  PROVE  Typed' /\ FewFrames'
  <1>1. PICK t : t = m_nTickCount
    OBVIOUS
  <1>2. t \in 0 .. MaxTick /\ UNCHANGED <<world, cl, toClient, fullUpdates, requests>>
    BY <1>1 DEF Typed, WorldTyped, PacketToServer
  <1>3. PICK M : M = Moves(t)
    OBVIOUS
  <1>4. toServer \in Seq(M) /\ toServer # <<>>
    BY <1>1, <1>3 DEF Typed, PacketToServer
  <1>5. PICK packet : packet = Head(toServer)
    OBVIOUS
  <1>6. packet \in M /\ toServer' \in Seq(M)
    <2>1. toServer' = Tail(toServer)
      BY DEF PacketToServer
    <2> QED
      BY <1>4, <1>5, <2>1
  <1>7. PICK A : A = AckRecords(t)
    OBVIOUS
  <1>8. acks \in Seq(A)
    BY <1>1, <1>7 DEF Typed
  <1>9. PICK c : c = [client EXCEPT !.fullAcked = packet.received]
    OBVIOUS
  <1>10. c \in ServerRecords(t) /\ c.frames = client.frames
    BY <1>1, <1>3, <1>6, <1>9 DEF Typed, ServerRecords, Moves
  <1>11. PICK n \in 0 .. Carried(acks, packet.upto) :
            /\ client' = ProcessTick(FoldLeft(ProcessBaselineAck, c, SubSeq(acks, 1, n)), packet.tick)
            /\ acks' = SubSeq(acks, n + 1, Len(acks))
    BY <1>5, <1>9 DEF PacketToServer
  <1>12. n \in 0 .. Len(acks) /\ n \in Nat
    <2>1. Carried(acks, packet.upto) \in 0 .. Len(acks)
      BY <1>8, CarriedIs
    <2> QED
      BY <1>8, <2>1
  <1>13. PICK seq : seq = SubSeq(acks, 1, n)
    OBVIOUS
  <1>14. DOMAIN seq = 1 .. n /\ acks' \in Seq(A)
    BY <1>8, <1>11, <1>12, <1>13, FirstOf
  <1>15. PICK d : d = FoldLeft(ProcessBaselineAck, c, seq)
    OBVIOUS
  <1>16. d \in ServerRecords(t) /\ d.frames = client.frames
    <2>1. PICK V : V = {e \in ServerRecords(t) : e.frames = client.frames}
      OBVIOUS
    <2>2. \A v \in V, k \in 1 .. n : ProcessBaselineAck(v, seq[k]) \in V
      BY <1>2, <2>1, AckIs
    <2>3. c \in V
      BY <1>10, <2>1
    <2>4. PICK r : AckRuns(V, n, c, seq, r) /\ FoldLeft(ProcessBaselineAck, c, seq) = r[n]
      BY <1>12, <1>14, <2>2, <2>3, AckRun
    <2>5. d \in V
      BY <1>12, <1>15, <2>4 DEF AckRuns
    <2> QED
      BY <2>1, <2>5
  <1>17. client' = ProcessTick(d, packet.tick) /\ packet.tick \in TicksTo(t) \cup {NoTick}
    BY <1>3, <1>6, <1>11, <1>13, <1>15 DEF Moves
  <1>18. client' \in ServerRecords(t) /\ client'.frames \subseteq client.frames
    BY <1>2, <1>16, <1>17, TickIs
  <1>19. FewFrames'
    <2>1. IsFiniteSet(client'.frames) /\ Cardinality(client'.frames) <= Cardinality(client.frames)
          /\ Cardinality(client'.frames) \in Nat /\ Cardinality(client.frames) \in Nat
      BY <1>18, FS_Subset, FS_CardinalityType DEF FewFrames
    <2>2. MAX_CLIENT_FRAMES \in Nat
      BY SnapshotsAssumption
    <2> QED
      BY <2>1, <2>2 DEF FewFrames
  <1> QED
    BY <1>1, <1>2, <1>3, <1>6, <1>7, <1>14, <1>18, <1>19 DEF Typed, WorldTyped, world

LEMMA MoveTyped ==
  ASSUME Typed, FewFrames, CL_Move
  PROVE  Typed' /\ FewFrames'
  <1>1. PICK t : t = m_nTickCount
    OBVIOUS
  <1>2. PICK M, A : M = Moves(t) /\ A = AckRecords(t)
    OBVIOUS
  <1>3. toServer \in Seq(M) /\ acks \in Seq(A) /\ cl \in ClientRecords(t) /\ t \in Nat
    BY <1>1, <1>2, SnapshotsAssumption DEF Typed, WorldTyped
  <1>4. PICK upto : upto = (IF acks = <<>> THEN -1 ELSE Last(acks).tick)
    OBVIOUS
  <1>5. upto \in TicksTo(t)
    <2>1. acks # <<>> => acks[Len(acks)] \in A
      BY <1>3
    <2> QED
      BY <1>2, <1>4, <2>1 DEF Last, AckRecords, TicksTo
  <1>6. PICK m : m = [tick |-> IF cl.state = "full" THEN cl.deltaTick ELSE NoTick,
                      received |-> cl.fullReceived, upto |-> upto]
    OBVIOUS
  <1>7. m \in M
    BY <1>2, <1>3, <1>5, <1>6 DEF Moves, ClientRecords
  <1>8. toServer' = Append(toServer, m)
    BY <1>4, <1>6 DEF CL_Move
  <1>9. toServer' \in Seq(M)
    BY <1>3, <1>7, <1>8
  <1>10. UNCHANGED <<world, client, cl, toClient, fullUpdates, acks, requests>>
    BY DEF CL_Move
  <1> QED
    BY <1>1, <1>2, <1>9, <1>10 DEF Typed, FewFrames, WorldTyped, world

LEMMA OtherTyped ==
  ASSUME Typed, FewFrames, LosePacket \/ ForceFullUpdate
  PROVE  Typed' /\ FewFrames'
  <1>1. CASE LosePacket
    <2>1. PICK M, D : M = Moves(m_nTickCount) /\ D = Datagrams(m_nTickCount)
      OBVIOUS
    <2>2. toServer \in Seq(M) /\ toClient \in Seq(D)
      BY <2>1 DEF Typed
    <2>3. toServer' \in Seq(M) /\ toClient' \in Seq(D)
      <3>1. toServer # <<>> => Tail(toServer) \in Seq(M)
        BY <2>2
      <3>2. toClient # <<>> => Tail(toClient) \in Seq(D)
        BY <2>2
      <3> QED
        BY <1>1, <2>2, <3>1, <3>2 DEF LosePacket
    <2>4. UNCHANGED <<world, client, cl, fullUpdates, acks, requests>>
      BY <1>1 DEF LosePacket
    <2> QED
      BY <2>1, <2>3, <2>4 DEF Typed, FewFrames, WorldTyped, world
  <1>2. CASE ForceFullUpdate
    <2>1. PICK t : t = m_nTickCount
      OBVIOUS
    <2>2. [nr \in 0 .. 1 |-> Nobody] \in [0 .. 1 -> Kept] /\ -1 \in TicksTo(t)
      BY DEF Nobody, Kept, TicksTo
    <2>3. cl' \in ClientRecords(t)
      BY <1>2, <2>1, <2>2 DEF ForceFullUpdate, Typed, ClientRecords
    <2>4. UNCHANGED <<world, client, toClient, toServer, fullUpdates, acks>>
      BY <1>2 DEF ForceFullUpdate
    <2> QED
      BY <2>1, <2>3, <2>4 DEF Typed, FewFrames, WorldTyped, world
  <1> QED
    BY <1>1, <1>2

LEMMA InitTyped == Init => Typed /\ FewFrames
  <1> SUFFICES ASSUME Init PROVE Typed /\ FewFrames
    OBVIOUS
  <1>1. m_nTickCount = 0 /\ 0 \in 0 .. MaxTick /\ 1 \in 1 .. MaxSerial /\ MAX_CLIENT_FRAMES \in Nat
    BY SnapshotsAssumption DEF Init
  <1>2. NewEntities(1, 0) \subseteq Entity
    BY DEF NewEntities
  <1>3. WorldTyped
    <2>1. edicts \in Edicts
      BY <1>2 DEF Init, Edicts
    <2>2. serials \in [Slots -> 1 .. MaxSerial]
      BY <1>1 DEF Init
    <2> QED
      BY <1>1, <2>1, <2>2 DEF Init, WorldTyped
  <1>4. Nobody \in Edicts /\ Nobody \in Kept /\ Nobody \in [Slots -> Shown \cup {NoEntity}]
        /\ -1 \in TicksTo(0) /\ {} \in SUBSET Slots /\ 0 \in 0 .. 1
    BY DEF Nobody, Edicts, Kept, TicksTo
  <1>5. client \in ServerRecords(0)
    BY <1>4 DEF Init, ServerRecords
  <1>6. [nr \in 0 .. 1 |-> Nobody] \in [0 .. 1 -> Kept]
    BY <1>4
  <1>7. cl \in ClientRecords(0)
    BY <1>4, <1>6 DEF Init, ClientRecords
  <1>8. client.frames = {}
    BY DEF Init
  <1>9. FewFrames
    BY <1>1, <1>8, FS_EmptySet DEF FewFrames
  <1>10. toClient = <<>> /\ toServer = <<>> /\ fullUpdates = <<>> /\ acks = <<>>
    BY DEF Init
  <1> QED
    BY <1>1, <1>3, <1>5, <1>7, <1>9, <1>10 DEF Typed

LEMMA TypesKept == Spec => [](Typed /\ FewFrames)
  <1>1. Typed /\ FewFrames /\ [Next]_vars => Typed' /\ FewFrames'
    <2>1. Typed /\ FewFrames /\ UNCHANGED vars => Typed' /\ FewFrames'
      BY DEF vars, world, Typed, WorldTyped, FewFrames
    <2> QED
      BY <2>1, SendTyped, ReadTyped, PacketTyped, MoveTyped, OtherTyped DEF Next
  <1> QED
    BY <1>1, InitTyped, PTL DEF Spec

\* Both ends' records have their types; the server keeps no more frames than
\* MAX_CLIENT_FRAMES and waits for no tick it has not reached.
THEOREM SnapshotsTyped == Spec => []TypeOK
  <1>1. Typed /\ FewFrames => TypeOK
    <2> SUFFICES ASSUME Typed, FewFrames PROVE TypeOK
      OBVIOUS
    <2>1. PICK t : t = m_nTickCount
      OBVIOUS
    <2>2. client \in ServerRecords(t) /\ cl \in ClientRecords(t) /\ t \in Nat
      BY <2>1, SnapshotsAssumption DEF Typed, WorldTyped
    <2>3. edicts \in [Slots -> Entity \cup {NoEntity}] /\ view \subseteq Slots
      BY DEF Typed, WorldTyped, Edicts
    <2>4. client.frames \subseteq Frame /\ Cardinality(client.frames) <= MAX_CLIENT_FRAMES
      BY <2>2 DEF ServerRecords, Frames, FewFrames
    <2>5. client.forceWaitForTick \in {-1} \cup 1 .. t
      BY <2>2 DEF ServerRecords, TicksTo
    <2>6. TicksTo(t) \subseteq -1 .. t
      BY <2>2 DEF TicksTo
    <2>7. {client.updateTick, client.fullSent, client.deltaTick, cl.deltaTick} \subseteq -1 .. t
      BY <2>2, <2>6 DEF ServerRecords, ClientRecords
    <2>8. client.baselineUsed \in 0 .. 1 /\ client.baselinesSent \subseteq Slots
      BY <2>2 DEF ServerRecords
    <2>9. cl.entities \in [Slots -> Shown \cup {NoEntity}]
      BY <2>2 DEF ClientRecords
    <2>10. \A f \in cl.frames : f.tick \in 1 .. t /\ f.view \subseteq Slots
      BY <2>2 DEF ClientRecords, ClientFrames
    <2> QED
      BY <2>1, <2>3, <2>4, <2>5, <2>7, <2>8, <2>9, <2>10 DEF TypeOK
  <1> QED
    BY <1>1, TypesKept, PTL

-----------------------------------------------------------------------------
(* Who knows what.  H[t] is the snapshot of tick t: the server forgets it,  *)
(* but what the client shows and what is under way was made of it.          *)

\* An entity keeps its serial number and its class as long as it lives, and its
\* value since it was changed last; a serial number is not used again.
Alike(e, f) == e # NoEntity /\ f # NoEntity /\ e.serial = f.serial
History(H, n) ==
  /\ H \in [1 .. n -> Frame]
  /\ \A t \in 1 .. n : H[t].tick = t /\ \A s \in H[t].view : H[t].ents[s] # NoEntity
  /\ \A a, b \in 1 .. n, s \in Slots :
       a <= b /\ Alike(H[a].ents[s], H[b].ents[s]) =>
         /\ H[a].ents[s].class = H[b].ents[s].class
         /\ H[b].ents[s].changed <= a => H[a].ents[s].value = H[b].ents[s].value
         /\ \A g \in a .. b : Alike(H[g].ents[s], H[a].ents[s])
Now(H) ==
  /\ m_nTickCount > 0 => edicts = H[m_nTickCount].ents /\ view = H[m_nTickCount].view
  /\ \A s \in Slots : edicts[s] # NoEntity => edicts[s].serial = serials[s]
  /\ \A s \in Slots, t \in 1 .. m_nTickCount : H[t].ents[s] # NoEntity =>
       /\ H[t].ents[s].serial <= serials[s]
       /\ edicts[s] = NoEntity => H[t].ents[s].serial < serials[s]

Waits == client.forceWaitForTick # -1
Unsent == ~Waits /\ client.deltaTick = -1
Pending == fullUpdates # <<>>
Asks == cl.deltaTick = -1
Ticks == {f.tick : f \in cl.frames}

\* What a message makes of the entities that are in view at from or at to.
Tells(m, s, from, to) ==
  /\ s \in Entering(from, to) =>
       /\ m.updates[s].type = "enter"
       /\ m.updates[s].serial = to.ents[s].serial /\ m.updates[s].class = to.ents[s].class
  /\ s \in from.view \ to.view => m.updates[s] = LeavePVS(SV_NeedsExplicitDestroy(s, from, to))
  /\ s \in (from.view \cap to.view) \ Entering(from, to) => m.updates[s].type \in {"delta", "none"}
  /\ s \notin from.view \cup to.view => m.updates[s].type = "none"
IsFull(H, m) ==
  /\ ~m.isDelta /\ m.deltaFrom = -1 /\ m.deletions = {}
  /\ \A s \in Slots : Tells(m, s, NoFrame, H[m.tick])
IsDelta(H, m) ==
  /\ m.isDelta /\ m.deltaFrom \in 1 .. m.tick - 1
  /\ \A s \in Slots : Tells(m, s, H[m.deltaFrom], H[m.tick])
  /\ \A s \in m.deletions : s \notin H[m.tick].view
       /\ \A a \in 1 .. m.tick - 1 : ~Alike(H[a].ents[s], H[m.tick].ents[s])

FramesKept(H) ==
  /\ client.frames \subseteq {H[t] : t \in 1 .. m_nTickCount}
  /\ \A f \in cl.frames : f.view = H[f.tick].view
Connected ==
  /\ client.state = "active"
  /\ \/ cl.state = "spawn" /\ Asks /\ cl.fullReceived = -1
     \/ cl.state = "full" /\ cl.fullReceived >= 1
FullUpdate(H) ==
  /\ Waits => client.forceWaitForTick = client.fullSent
  /\ Waits \/ client.deltaTick # -1 => client.fullSent >= 1
  /\ ~Pending => cl.fullReceived = client.fullSent
  /\ Pending => /\ Waits /\ cl.fullReceived < client.fullSent /\ cl.deltaTick < client.fullSent
                /\ Len(fullUpdates) = 1 /\ fullUpdates[1].tick = client.fullSent /\ IsFull(H, fullUpdates[1])
  /\ Unsent => Asks /\ ~Pending

\* What is under way to the server, and what to the client.
MovesToServer ==
  /\ \A i \in DOMAIN toServer : toServer[i].received <= cl.fullReceived
  /\ Unsent => \A i \in DOMAIN toServer : toServer[i].tick < 0
  /\ ~Waits /\ ~Unsent =>
       /\ \A i \in DOMAIN toServer : \/ toServer[i].tick = -1 /\ Asks
                                     \/ toServer[i].tick >= client.deltaTick
       /\ \A i, j \in DOMAIN toServer : i < j =>
            /\ toServer[i].tick = -1 => toServer[j].tick = -1
            /\ toServer[j].tick # -1 => toServer[i].tick <= toServer[j].tick
  /\ Waits =>
       /\ \A i \in DOMAIN toServer :
            /\ toServer[i].received < client.fullSent => toServer[i].tick < client.fullSent
            /\ toServer[i].received = client.fullSent => 
                 toServer[i].tick = client.fullSent \/ (toServer[i].tick = -1 /\ Asks)
       /\ \A i, j \in DOMAIN toServer : i < j /\ toServer[i].received = client.fullSent =>
            /\ toServer[j].received = client.fullSent
            /\ toServer[i].tick = -1 => toServer[j].tick = -1
Carries(i) == toClient[i].msg # NoMsg
DatagramsToClient ==
  /\ \A i \in DOMAIN toClient : toClient[i].upto <= client.fullSent /\ (Carries(i) => toClient[i].msg.isDelta)
  /\ \A i, j \in DOMAIN toClient : i < j => toClient[i].upto <= toClient[j].upto
  /\ Waits => \A i \in DOMAIN toClient : Carries(i) =>
       Pending /\ toClient[i].upto < client.fullSent /\ toClient[i].msg.tick < client.fullSent

\* A client that asks for nothing can read every delta under way.
Readable(H) ==
  ~Asks =>
    /\ cl.deltaTick \in Ticks /\ \A t \in Ticks : t <= cl.deltaTick
    /\ Waits /\ ~Pending => cl.deltaTick = client.fullSent
    /\ ~Waits => /\ client.deltaTick \in Ticks
                 /\ \A i \in DOMAIN toServer : toServer[i].tick \in Ticks
    /\ \A i \in DOMAIN toClient : Carries(i) =>
         /\ IsDelta(H, toClient[i].msg) /\ cl.deltaTick < toClient[i].msg.tick
         /\ toClient[i].msg.deltaFrom \in Ticks
         /\ ~Waits => toClient[i].msg.deltaFrom <= client.deltaTick
    /\ \A i, j \in DOMAIN toClient : i < j /\ Carries(i) /\ Carries(j) =>
         /\ toClient[i].msg.tick < toClient[j].msg.tick
         /\ toClient[i].msg.deltaFrom <= toClient[j].msg.deltaFrom

\* The client has every entity that one of its frames shows and that still lives
\* at the tick of the last.
Has(H, g, s) == \E a \in Ticks : s \in H[a].view /\ Alike(H[a].ents[s], H[g].ents[s])
Picture(H) ==
  \A g \in Ticks : (\A t \in Ticks : t <= g) =>
    \A s \in Slots : Has(H, g, s) =>
      Alike(cl.entities[s], H[g].ents[s]) /\ cl.entities[s].class = H[g].ents[s].class

InStep(H) ==
  /\ History(H, m_nTickCount) /\ Now(H) /\ FramesKept(H)
  /\ Connected /\ FullUpdate(H) /\ MovesToServer /\ DatagramsToClient
  /\ Readable(H) /\ Picture(H)

\* The history goes on with the snapshot of the next tick.
Extended(H, frame) ==
  [t \in 1 .. m_nTickCount + 1 |-> IF t = m_nTickCount + 1 THEN frame ELSE H[t]]

LEMMA HistoryGoesOn ==
  ASSUME WorldTyped, m_nTickCount < MaxTick, NEW s \in Slots, NEW change, SlotChanged(s, change),
         NEW H, History(H, m_nTickCount), Now(H), NEW frame \in Frame,
         frame.tick = m_nTickCount + 1, frame.ents = change.ents, frame.view = change.view,
         NEW G, G = Extended(H, frame),
         m_nTickCount' = m_nTickCount + 1, edicts' = change.ents, serials' = change.serials,
         view' = change.view
  PROVE  /\ History(G, m_nTickCount + 1) /\ Now(G)'
         /\ \A t \in 1 .. m_nTickCount : G[t] = H[t]
         /\ G[m_nTickCount + 1] = frame
         /\ \A x \in change.reused, a \in 1 .. m_nTickCount : ~Alike(H[a].ents[x], frame.ents[x])
  <1>1. PICK n : n = m_nTickCount
    OBVIOUS
  <1>2. n \in Nat /\ n + 1 \in 1 .. n + 1
    BY <1>1, SnapshotsAssumption DEF WorldTyped
  <1>3. /\ \A t \in 1 .. n : G[t] = H[t] /\ t \in 1 .. n + 1
        /\ G[n + 1] = frame /\ DOMAIN G = 1 .. n + 1
    BY <1>1, <1>2 DEF Extended
  <1>4. G \in [1 .. n + 1 -> Frame]
    BY <1>1, <1>2 DEF Extended, History
  <1>5. \A t \in 1 .. n + 1 : t = n + 1 \/ t \in 1 .. n
    BY <1>2
  <1>6. \A t \in 1 .. n + 1 : G[t].tick = t /\ \A x \in G[t].view : G[t].ents[x] # NoEntity
    <2>1. \A x \in frame.view : frame.ents[x] # NoEntity
      BY DEF SlotChanged
    <2>2. \A t \in 1 .. n : H[t].tick = t /\ \A x \in H[t].view : H[t].ents[x] # NoEntity
      BY <1>1 DEF History
    <2> QED
      BY <1>1, <1>3, <1>5, <2>1, <2>2
  <1>7. \A x \in Slots, t \in 1 .. n : H[t].ents[x] # NoEntity =>
          /\ H[t].ents[x].serial \in Nat /\ H[t].ents[x].changed \in Nat
          /\ H[t].ents[x] \in Entity
    <2>1. \A t \in 1 .. n : H[t] \in Frame
      BY <1>1 DEF History
    <2> QED
      BY <2>1 DEF Frame, Entity
  <1>8. \A x \in Slots : frame.ents[x] # NoEntity => frame.ents[x].changed \in Nat /\ frame.ents[x] \in Entity
    BY DEF Frame, Entity
  <1>9. \A x \in Slots : serials[x] \in Nat /\ (edicts[x] # NoEntity => edicts[x] \in Entity)
    BY DEF WorldTyped, Edicts
  \* an entity of the next snapshot that is in an earlier one is in the last
  <1>10. ASSUME NEW x \in Slots, NEW a \in 1 .. n, Alike(H[a].ents[x], frame.ents[x])
         PROVE  /\ edicts[x] # NoEntity /\ edicts[x] = H[n].ents[x] /\ n \in 1 .. n
                /\ Alike(H[n].ents[x], frame.ents[x]) /\ x \notin change.reused
                /\ frame.ents[x].class = edicts[x].class
                /\ frame.ents[x].changed <= n => frame.ents[x] = edicts[x]
    <2>1. H[a].ents[x].serial \in Nat /\ H[a].ents[x].serial <= serials[x]
          /\ (edicts[x] = NoEntity => H[a].ents[x].serial < serials[x])
      BY <1>1, <1>7, <1>10 DEF Now, Alike
    <2>2. n \in 1 .. n /\ n > 0 /\ H[n].ents = edicts
      BY <1>1, <1>2 DEF Now
    <2>3. frame.ents[x] # NoEntity /\ frame.ents[x].serial = H[a].ents[x].serial
      BY <1>10 DEF Alike
    <2>4. CASE x # s
      <3>1. frame.ents[x] = edicts[x] /\ x \notin change.reused
        BY <2>4 DEF SlotChanged
      <3> QED
        BY <2>2, <2>3, <3>1 DEF Alike
    <2>5. CASE x = s
      <3>1. \A k, e : e \in NewEntities(k, m_nTickCount + 1) => e.serial = k
        BY DEF NewEntities
      <3>2. edicts[s] # NoEntity
        <4>1. CASE edicts[s] = NoEntity
          <5>1. frame.ents[s].serial = serials[s]
            BY <3>1, <4>1 DEF SlotChanged
          <5> QED
            BY <1>9, <2>1, <2>3, <2>5, <4>1, <5>1
        <4> QED
          BY <4>1
      <3>3. ~(frame.ents[s] \in NewEntities(serials[s] + 1, m_nTickCount + 1))
        <4>1. frame.ents[s].serial <= serials[s] /\ serials[s] \in Nat
          BY <1>9, <2>1, <2>3, <2>5
        <4>2. frame.ents[s].serial # serials[s] + 1
          BY <2>1, <2>3, <2>5, <4>1
        <4> QED
          BY <3>1, <4>2
      <3>4. /\ s \notin change.reused
            /\ \/ frame.ents[s] = edicts[s]
               \/ \E v \in Values : frame.ents[s] = [edicts[s] EXCEPT !.value = v, !.changed = n + 1]
        BY <1>1, <2>3, <2>5, <3>2, <3>3 DEF SlotChanged
      <3>5. edicts[s] \in Entity
        BY <1>9, <3>2
      <3>6. frame.ents[s].class = edicts[s].class /\ frame.ents[s].serial = edicts[s].serial
            /\ (frame.ents[s] = edicts[s] \/ frame.ents[s].changed = n + 1)
        BY <3>4, <3>5 DEF Entity
      <3>7. frame.ents[s].changed <= n => frame.ents[s] = edicts[s]
        BY <1>2, <3>6
      <3>8. Alike(H[n].ents[s], frame.ents[s])
        BY <2>2, <2>3, <2>5, <3>2, <3>6 DEF Alike
      <3> QED
        BY <2>2, <2>5, <3>2, <3>4, <3>6, <3>7, <3>8
    <2> QED
      BY <2>4, <2>5
  <1>11. ASSUME NEW a \in 1 .. n + 1, NEW b \in 1 .. n + 1, NEW x \in Slots,
                a <= b, Alike(G[a].ents[x], G[b].ents[x])
         PROVE  /\ G[a].ents[x].class = G[b].ents[x].class
                /\ G[b].ents[x].changed <= a => G[a].ents[x].value = G[b].ents[x].value
                /\ \A g \in a .. b : Alike(G[g].ents[x], G[a].ents[x])
    <2>1. CASE b \in 1 .. n
      <3>1. a \in 1 .. n /\ a .. b \subseteq 1 .. n
        BY <1>2, <1>11, <2>1
      <3>2. Alike(H[a].ents[x], H[b].ents[x])
        BY <1>3, <1>11, <2>1, <3>1
      <3>3. /\ H[a].ents[x].class = H[b].ents[x].class
            /\ H[b].ents[x].changed <= a => H[a].ents[x].value = H[b].ents[x].value
            /\ \A g \in a .. b : Alike(H[g].ents[x], H[a].ents[x])
        BY <1>1, <1>11, <2>1, <3>1, <3>2 DEF History
      <3> QED
        BY <1>3, <2>1, <3>1, <3>3
    <2>2. CASE b = n + 1 /\ a \in 1 .. n
      <3>1. Alike(H[a].ents[x], frame.ents[x])
        BY <1>3, <1>11, <2>2
      <3>2. /\ edicts[x] = H[n].ents[x] /\ n \in 1 .. n
            /\ Alike(H[n].ents[x], frame.ents[x])
            /\ frame.ents[x].class = edicts[x].class
            /\ frame.ents[x].changed <= n => frame.ents[x] = edicts[x]
        BY <1>10, <2>2, <3>1
      <3>3. Alike(H[a].ents[x], H[n].ents[x]) /\ a <= n
        BY <2>2, <3>1, <3>2 DEF Alike
      <3>4. /\ H[a].ents[x].class = H[n].ents[x].class
            /\ H[n].ents[x].changed <= a => H[a].ents[x].value = H[n].ents[x].value
            /\ \A g \in a .. n : Alike(H[g].ents[x], H[a].ents[x])
        BY <1>1, <2>2, <3>2, <3>3 DEF History
      <3>5. \A g \in a .. b : Alike(G[g].ents[x], G[a].ents[x])
        <4> TAKE g \in a .. b
        <4>1. CASE g = n + 1
          BY <1>3, <2>2, <3>1, <4>1 DEF Alike
        <4>2. CASE g # n + 1
          <5>1. g \in a .. n /\ g \in 1 .. n
            BY <1>2, <2>2, <4>2
          <5> QED
            BY <1>3, <2>2, <3>4, <5>1
        <4> QED
          BY <4>1, <4>2
      <3>6. frame.ents[x].changed <= a => frame.ents[x].changed <= n
        <4>1. frame.ents[x].changed \in Nat
          BY <1>8, <3>1 DEF Alike
        <4> QED
          BY <1>2, <2>2, <4>1
      <3>7. frame.ents[x].changed <= a => H[a].ents[x].value = frame.ents[x].value
        BY <3>2, <3>4, <3>6
      <3> QED
        BY <1>3, <2>2, <3>2, <3>4, <3>5, <3>7
    <2>3. CASE b = n + 1 /\ a = n + 1
      <3>1. \A g \in a .. b : g = a
        BY <1>2, <2>3
      <3> QED
        BY <1>11, <2>3, <3>1 DEF Alike
    <2> QED
      BY <1>5, <2>1, <2>2, <2>3
  <1>12. History(G, n + 1)
    BY <1>4, <1>6, <1>11 DEF History
  <1>13. ASSUME NEW x \in Slots
         PROVE  /\ change.ents[x] # NoEntity => change.ents[x].serial = change.serials[x]
                /\ serials[x] <= change.serials[x]
                /\ change.ents[x] = NoEntity => edicts[x] = NoEntity \/ serials[x] < change.serials[x]
    <2>1. CASE x # s
      <3>1. change.ents[x] = edicts[x] /\ change.serials[x] = serials[x]
        BY <2>1 DEF SlotChanged
      <3> QED
        BY <1>9, <3>1 DEF Now
    <2>2. CASE x = s
      <3>1. edicts[s] # NoEntity => edicts[s].serial = serials[s]
        BY DEF Now
      <3>2. \A k, e : e \in NewEntities(k, m_nTickCount + 1) => e.serial = k /\ e # NoEntity
        BY SnapshotsAssumption DEF NewEntities
      <3>3. \A v : edicts[s] # NoEntity =>
               [edicts[s] EXCEPT !.value = v, !.changed = m_nTickCount + 1].serial = edicts[s].serial
        BY <1>9 DEF Entity
      <3>4. edicts[s] # NoEntity => \A v \in Values :
               [edicts[s] EXCEPT !.value = v, !.changed = m_nTickCount + 1] # NoEntity
        <4>1. m_nTickCount + 1 \in 0 .. MaxTick
          BY SnapshotsAssumption DEF WorldTyped
        <4>2. edicts[s] # NoEntity => \A v \in Values :
               [edicts[s] EXCEPT !.value = v, !.changed = m_nTickCount + 1] \in Entity
          BY <1>9, <4>1 DEF Entity
        <4> QED
          BY <4>2, SnapshotsAssumption
      <3>5. serials[s] \in Nat
        BY <1>9
      <3>6. CASE edicts[s] = NoEntity
        BY <2>2, <3>2, <3>5, <3>6 DEF SlotChanged
      <3>7. CASE edicts[s] # NoEntity
        <4>1. \/ /\ change.ents[s] = edicts[s]
                 /\ change.serials[s] = serials[s]
              \/ /\ change.ents[s] # NoEntity /\ change.ents[s].serial = edicts[s].serial
                 /\ change.serials[s] = serials[s]
              \/ change.ents[s] = NoEntity /\ change.serials[s] = serials[s] + 1
              \/ /\ change.ents[s] # NoEntity /\ change.ents[s].serial = serials[s] + 1
                 /\ change.serials[s] = serials[s] + 1
          <5>1. CASE change.ents[s] = edicts[s] /\ change.serials[s] = edicts[s].serial
            BY <3>1, <3>7, <5>1
          <5>2. CASE /\ \E v \in Values : change.ents[s] =
                          [edicts[s] EXCEPT !.value = v, !.changed = m_nTickCount + 1]
                     /\ change.serials[s] = edicts[s].serial
            BY <3>1, <3>3, <3>4, <3>7, <5>2
          <5>3. CASE change.ents[s] = NoEntity /\ change.serials[s] = serials[s] + 1
            BY <5>3
          <5>4. CASE /\ change.ents[s] \in NewEntities(serials[s] + 1, m_nTickCount + 1)
                     /\ change.serials[s] = serials[s] + 1
            BY <3>2, <5>4
          <5> QED
            BY <3>7, <5>1, <5>2, <5>3, <5>4 DEF SlotChanged
        <4> QED
          BY <2>2, <3>1, <3>5, <3>7, <4>1
      <3> QED
        BY <3>6, <3>7
    <2> QED
      BY <2>1, <2>2
  <1>14. \A x \in Slots : change.serials[x] \in Nat
    <2>1. change.serials \in [Slots -> 1 .. MaxSerial]
      BY DEF SlotChanged
    <2>2. \A x \in Slots : change.serials[x] \in 1 .. MaxSerial
      BY <2>1
    <2> QED
      BY <2>2
  <1>15. ASSUME NEW x \in Slots, NEW t \in 1 .. n + 1, G[t].ents[x] # NoEntity
         PROVE  /\ G[t].ents[x].serial <= change.serials[x]
                /\ change.ents[x] = NoEntity => G[t].ents[x].serial < change.serials[x]
    <2>1. CASE t = n + 1
      BY <1>3, <1>13, <1>14, <1>15, <2>1
    <2>2. CASE t \in 1 .. n
      <3>1. H[t].ents[x].serial \in Nat /\ H[t].ents[x].serial <= serials[x]
            /\ (edicts[x] = NoEntity => H[t].ents[x].serial < serials[x])
        BY <1>1, <1>3, <1>7, <1>15, <2>2 DEF Now
      <3> QED
        BY <1>3, <1>9, <1>13, <1>14, <2>2, <3>1
    <2> QED
      BY <1>5, <2>1, <2>2
  <1>16. Now(G)'
    BY <1>1, <1>3, <1>13, <1>15 DEF Now
  <1>17. \A x \in change.reused, a \in 1 .. n : ~Alike(H[a].ents[x], frame.ents[x])
    BY <1>10 DEF SlotChanged
  <1> QED
    BY <1>1, <1>3, <1>12, <1>16, <1>17

LEMMA UpdateTells ==
  ASSUME NEW t \in 0 .. MaxTick, NEW c, c.baseline \in Edicts, NEW from \in Sources(t),
         NEW to \in Frames(t), NEW asDelta, NEW m, NEW s \in Slots,
         m.updates[s] = EntityUpdate(c, s, from, to, asDelta)
  PROVE  Tells(m, s, from, to)
  <1>1. CASE s \in Entering(from, to)
    <2>1. m.updates[s] = EnterPVS(c, asDelta, s, to.ents[s]) /\ s \in to.view
      BY <1>1 DEF EntityUpdate, Entering
    <2> QED
      BY <1>1, <2>1 DEF Tells, EnterPVS
  <1>2. CASE s \notin Entering(from, to) /\ s \in from.view \ to.view
    <2>1. m.updates[s] = LeavePVS(SV_NeedsExplicitDestroy(s, from, to))
      BY <1>2 DEF EntityUpdate
    <2> QED
      BY <1>2, <2>1 DEF Tells
  <1>3. CASE /\ s \in from.view \cap to.view /\ s \notin Entering(from, to)
             /\ to.ents[s].changed > from.tick
    <2>1. m.updates[s] = DeltaEnt(to.ents[s].value)
      BY <1>3 DEF EntityUpdate
    <2> QED
      BY <1>3, <2>1 DEF Tells, DeltaEnt
  <1>4. CASE /\ s \notin Entering(from, to) /\ s \notin from.view \ to.view
             /\ ~(s \in from.view \cap to.view /\ s \notin Entering(from, to)
                  /\ to.ents[s].changed > from.tick)
    <2>1. m.updates[s] = NoUpdate
      BY <1>4 DEF EntityUpdate
    <2> QED
      BY <1>4, <2>1 DEF Tells, NoUpdate
  <1> QED
    BY <1>1, <1>2, <1>3, <1>4

\* What a message makes of an entity that was in view and is.
TellsChange(m, s, from, to) ==
  s \in (from.view \cap to.view) \ Entering(from, to) =>
    m.updates[s] = IF to.ents[s].changed > from.tick THEN DeltaEnt(to.ents[s].value) ELSE NoUpdate

LEMMA UpdateValues ==
  ASSUME NEW c, NEW from, NEW to, NEW asDelta, NEW m, NEW s \in Slots,
         m.updates[s] = EntityUpdate(c, s, from, to, asDelta)
  PROVE  /\ TellsChange(m, s, from, to)
         /\ s \in Entering(from, to) => m.updates[s].value =
              Written(BaselineValue(c, asDelta, s, to.ents[s].class), to.ents[s].value)
  <1>1. CASE s \in Entering(from, to)
    <2>1. m.updates[s] = EnterPVS(c, asDelta, s, to.ents[s])
      BY <1>1 DEF EntityUpdate, Entering
    <2> QED
      BY <1>1, <2>1 DEF TellsChange, EnterPVS
  <1>2. CASE s \notin Entering(from, to) /\ s \in from.view \cap to.view /\ to.ents[s].changed > from.tick
    BY <1>2 DEF EntityUpdate, TellsChange
  <1>3. CASE s \notin Entering(from, to) /\ s \in from.view \cap to.view /\ ~(to.ents[s].changed > from.tick)
    BY <1>3 DEF EntityUpdate, TellsChange
  <1>4. CASE s \notin Entering(from, to) /\ s \notin from.view \cap to.view
    BY <1>4 DEF TellsChange
  <1> QED
    BY <1>1, <1>2, <1>3, <1>4

\* The baselines on the server, and what is left of them after a request for everything.
SameBases(new, c) ==
  /\ new.baseline = c.baseline /\ new.baselineUsed = c.baselineUsed
  /\ new.baselinesSent = c.baselinesSent /\ new.updateTick = c.updateTick
Fresh(c) == c.baseline = Nobody /\ c.baselineUsed = 0
WritesValues(w, c, from, to) ==
  /\ w.client.baseline = c.baseline /\ w.client.baselineUsed = c.baselineUsed
  /\ w.client.baselinesSent = IF c.updateTick = -1 THEN Entering(from, to) ELSE c.baselinesSent
  /\ w.client.updateTick = IF w.msg.updateBaseline THEN to.tick ELSE c.updateTick
  /\ w.msg.updateBaseline => c.updateTick = -1
  /\ from = NoFrame /\ c.updateTick = -1 => w.msg.updateBaseline
  /\ w.msg.baseline = c.baselineUsed
  /\ \A s \in Entering(from, to) : w.msg.updates[s].value =
       Written(BaselineValue(c, from # NoFrame, s, to.ents[s].class), to.ents[s].value)
  /\ \A s \in Slots : TellsChange(w.msg, s, from, to)

\* What the server writes, from a frame or from none.
Kin(new, c) ==
  /\ new.state = c.state /\ new.frames = c.frames /\ new.deltaTick = c.deltaTick
  /\ new.forceWaitForTick = c.forceWaitForTick /\ new.fullSent = c.fullSent
Writes(w, c, from, to, reused) ==
  /\ Kin(w.client, c)
  /\ w.msg.tick = to.tick /\ w.msg.isDelta = (from # NoFrame) /\ w.msg.deltaFrom = from.tick
  /\ \A s \in Slots : Tells(w.msg, s, from, to)
  /\ from = NoFrame => w.msg.deletions = {}
  /\ w.msg.deletions \subseteq {s \in Slots \ to.view : to.ents[s] = NoEntity \/ s \in reused}

LEMMA WritesIs ==
  ASSUME NEW t \in 0 .. MaxTick, NEW c \in ServerRecords(t), NEW from \in Sources(t),
         NEW to \in Frames(t), NEW reused \in SUBSET Slots, NEW w,
         w = WriteDeltaEntities(c, from, to, reused)
  PROVE  Writes(w, c, from, to, reused) /\ WritesValues(w, c, from, to)
  <1> DEFINE asDelta == from # NoFrame
             updates == [s \in Slots |-> EntityUpdate(c, s, from, to, asDelta)]
             deletions == SV_WriteDeletions(from, to, asDelta, reused)
  <1>1. PICK sent, tick, update :
          /\ sent = (IF c.updateTick = -1 THEN Entering(from, to) ELSE c.baselinesSent)
          /\ tick = (IF update THEN to.tick ELSE c.updateTick)
          /\ update => c.updateTick = -1
          /\ c.updateTick = -1 /\ ~asDelta => update
          /\ w.client = [c EXCEPT !.baselinesSent = sent, !.updateTick = tick]
          /\ w.msg = [tick |-> to.tick, isDelta |-> asDelta, deltaFrom |-> from.tick,
                      baseline |-> c.baselineUsed, updateBaseline |-> update,
                      updates |-> updates, deletions |-> deletions]
    BY DEF WriteDeltaEntities
  <1>2. Kin(w.client, c)
    BY <1>1 DEF Kin, ServerRecords
  <1>3. /\ w.msg.tick = to.tick /\ w.msg.isDelta = (from # NoFrame) /\ w.msg.deltaFrom = from.tick
        /\ w.msg.updates = updates /\ w.msg.deletions = deletions
        /\ w.msg.baseline = c.baselineUsed /\ w.msg.updateBaseline = update
    <2> HIDE DEF updates, deletions
    <2> QED
      BY <1>1
  <1>4. \A s \in Slots : w.msg.updates[s] = EntityUpdate(c, s, from, to, asDelta)
    BY <1>3
  <1>5. c.baseline \in Edicts
    BY DEF ServerRecords
  <1>6. \A s \in Slots : Tells(w.msg, s, from, to)
    BY <1>4, <1>5, UpdateTells
  <1>7. deletions \subseteq {s \in Slots \ to.view : to.ents[s] = NoEntity \/ s \in reused}
    BY DEF SV_WriteDeletions, SV_NeedsExplicitDestroy
  <1>8. from = NoFrame => deletions = {}
    BY DEF SV_WriteDeletions
  <1>9. /\ \A s \in Slots : TellsChange(w.msg, s, from, to)
        /\ \A s \in Entering(from, to) : w.msg.updates[s].value =
             Written(BaselineValue(c, from # NoFrame, s, to.ents[s].class), to.ents[s].value)
    <2>1. Entering(from, to) \subseteq Slots
      BY DEF Entering, Frames, Frame
    <2> QED
      BY <1>4, <2>1, UpdateValues
  <1>10. WritesValues(w, c, from, to)
    <2>1. /\ w.client.baseline = c.baseline /\ w.client.baselineUsed = c.baselineUsed
          /\ w.client.baselinesSent = sent /\ w.client.updateTick = tick
      BY <1>1 DEF ServerRecords
    <2> QED
      BY <1>1, <1>3, <1>9, <2>1 DEF WritesValues
  <1> HIDE DEF updates, deletions
  <1> QED
    BY <1>2, <1>3, <1>6, <1>7, <1>8, <1>10 DEF Writes

\* What a tick sends: nothing of the snapshot, all of it, or what has changed.
SendsNothing(G) ==
  /\ Waits /\ client'.forceWaitForTick = client.forceWaitForTick
  /\ client'.fullSent = client.fullSent /\ UNCHANGED fullUpdates
  /\ toClient' = Append(toClient, [msg |-> NoMsg, upto |-> client.fullSent])
  /\ SameBases(client', client)
\* every entity is compared with the baseline of its class
FullyWritten(G, m) ==
  /\ m.baseline = 0 /\ m.updateBaseline
  /\ \A s \in G[m.tick].view : m.updates[s].value =
       Written(ClassBaseline[G[m.tick].ents[s].class], G[m.tick].ents[s].value)
SendsAll(G) ==
  /\ ~Waits /\ client'.forceWaitForTick = m_nTickCount + 1 /\ client'.fullSent = m_nTickCount + 1
  /\ toClient' = Append(toClient, [msg |-> NoMsg, upto |-> m_nTickCount + 1])
  /\ \E m : /\ fullUpdates' = Append(fullUpdates, m) /\ m.tick = m_nTickCount + 1
            /\ m \in Messages(m_nTickCount + 1) /\ IsFull(G, m) /\ FullyWritten(G, m)
  /\ client.deltaTick # -1 => ~HasFrame(client'.frames, client.deltaTick)
  /\ Fresh(client') /\ client'.updateTick = m_nTickCount + 1
  /\ client'.baselinesSent = G[m_nTickCount + 1].view
\* an entity that enters is compared with the baseline in use
DeltaWritten(G, m) ==
  LET from == G[m.deltaFrom]
      to == G[m.tick]
  IN /\ m.baseline = client.baselineUsed
     /\ m.updateBaseline => client'.updateTick = m.tick /\ client'.baselinesSent = Entering(from, to)
     /\ \A s \in Entering(from, to) : m.updates[s].value =
          Written(BaselineValue(client, TRUE, s, to.ents[s].class), to.ents[s].value)
     /\ \A s \in Slots : TellsChange(m, s, from, to)
SendsChanges(G) ==
  /\ ~Waits /\ client.deltaTick # -1 /\ client'.forceWaitForTick = client.forceWaitForTick
  /\ client'.fullSent = client.fullSent /\ UNCHANGED fullUpdates
  /\ \E m : /\ toClient' = Append(toClient, [msg |-> m, upto |-> client.fullSent])
            /\ m # NoMsg => /\ m.tick = m_nTickCount + 1 /\ m.deltaFrom = client.deltaTick
                            /\ IsDelta(G, m) /\ DeltaWritten(G, m) /\ m \in Messages(m_nTickCount + 1)
  /\ client'.baseline = client.baseline /\ client'.baselineUsed = client.baselineUsed
  /\ \/ client'.updateTick = m_nTickCount + 1
     \/ /\ client'.updateTick = client.updateTick
        /\ client.updateTick # -1 => client'.baselinesSent = client.baselinesSent
Sends(G) ==
  /\ client'.state = client.state /\ client'.deltaTick = client.deltaTick
  /\ client'.frames \subseteq {G[t] : t \in 1 .. m_nTickCount + 1}
  /\ SendsNothing(G) \/ SendsAll(G) \/ SendsChanges(G)

\* One step of the server's game and of its history.
Ticked(H, G) ==
  /\ m_nTickCount' = m_nTickCount + 1 /\ UNCHANGED <<cl, toServer, acks>>
  /\ History(G, m_nTickCount + 1) /\ Now(G)' /\ \A t \in 1 .. m_nTickCount : G[t] = H[t]
  /\ Sends(G)

LEMMA TickSends ==
  ASSUME Typed, FewFrames, SendClientMessages, NEW H, InStep(H)
  PROVE  \E G : Ticked(H, G)
  <1>1. PICK t : t = m_nTickCount
    OBVIOUS
  <1>2. t \in 0 .. MaxTick /\ t + 1 \in 0 .. MaxTick /\ t \in Nat /\ MaxTick \in Nat
        /\ m_nTickCount' = t + 1 /\ m_nTickCount < MaxTick
    BY <1>1, SnapshotsAssumption DEF Typed, WorldTyped, SendClientMessages
  <1>3. PICK s, change : s \in Slots /\ change \in SlotChanges(s) /\
          LET frame == [tick |-> m_nTickCount + 1, ents |-> change.ents, view |-> change.view]
          IN /\ edicts' = change.ents /\ serials' = change.serials /\ view' = change.view
             /\ SendSnapshot([client EXCEPT !.frames = AddFrame(client.frames, frame)], frame, change.reused)
    BY DEF SendClientMessages
  <1>4. SlotChanged(s, change)
    BY <1>2, <1>3, ChangeIs DEF Typed
  <1>5. PICK frame : frame = [tick |-> t + 1, ents |-> change.ents, view |-> change.view]
    OBVIOUS
  <1>6. frame \in Frames(t + 1) /\ frame \in Frame
    <2>1. /\ change.ents \in Edicts
          /\ change.view \in SUBSET {x \in Slots : change.ents[x] # NoEntity}
      BY <1>4 DEF SlotChanged
    <2>2. frame \in Frame
      BY <1>2, <1>5, <2>1 DEF Frame, Edicts
    <2> QED
      BY <1>2, <1>5, <2>1, <2>2 DEF Frames
  <1>7. client \in ServerRecords(t + 1) /\ client.frames \in SUBSET Frames(t + 1)
    <2>1. client \in ServerRecords(t + 1)
      BY <1>1, <1>2, Later DEF Typed
    <2> QED
      BY <2>1 DEF ServerRecords
  <1>8. PICK G : G = Extended(H, frame)
    OBVIOUS
  <1>9. /\ History(G, m_nTickCount + 1) /\ Now(G)'
        /\ \A u \in 1 .. m_nTickCount : G[u] = H[u]
        /\ G[m_nTickCount + 1] = frame
        /\ \A x \in change.reused, a \in 1 .. m_nTickCount : ~Alike(H[a].ents[x], frame.ents[x])
    BY <1>1, <1>2, <1>3, <1>4, <1>5, <1>6, <1>8, HistoryGoesOn DEF Typed, InStep
  <1>10. PICK frames : frames = AddFrame(client.frames, frame)
    OBVIOUS
  <1>11. frames \subseteq client.frames \cup {frame}
    <2>1. t + 1 \in Nat
      BY <1>2
    <2> QED
      BY <1>6, <1>7, <1>10, <2>1, AddIs DEF FewFrames
  <1>12. frames \subseteq {G[u] : u \in 1 .. m_nTickCount + 1}
    <2>1. \A f \in client.frames : \E u \in 1 .. m_nTickCount : f = H[u]
      BY DEF InStep, FramesKept
    <2>2. \A u \in 1 .. m_nTickCount : u \in 1 .. m_nTickCount + 1
      BY <1>1, <1>2
    <2>3. m_nTickCount + 1 \in 1 .. m_nTickCount + 1
      BY <1>1, <1>2
    <2> QED
      BY <1>9, <1>11, <2>1, <2>2, <2>3
  <1>13. PICK c : c = [client EXCEPT !.frames = frames]
    OBVIOUS
  <1>14. c \in ServerRecords(t + 1) /\ c.frames = frames /\ c.state = client.state
         /\ c.deltaTick = client.deltaTick /\ c.forceWaitForTick = client.forceWaitForTick
         /\ c.fullSent = client.fullSent /\ SameBases(c, client)
    BY <1>6, <1>7, <1>11, <1>13 DEF ServerRecords, SameBases
  <1>15. SendSnapshot(c, frame, change.reused)
    BY <1>1, <1>3, <1>5, <1>10, <1>13
  <1>16. client.forceWaitForTick \in TicksTo(t) /\ client.deltaTick \in TicksTo(t)
    BY <1>1 DEF Typed, ServerRecords
  <1>17. Waits <=> c.forceWaitForTick > 0
    BY <1>14, <1>16 DEF Waits, TicksTo
  <1>18. change.reused \in SUBSET Slots
    BY <1>3, <1>4 DEF SlotChanged
  <1>19. CASE Transmit(c)
    <2>1. SendsNothing(G)
      BY <1>14, <1>17, <1>19 DEF Transmit, Send, SendsNothing, SameBases
    <2>2. client' = c
      BY <1>19 DEF Transmit
    <2> QED
      BY <1>1, <1>2, <1>9, <1>12, <1>14, <2>1, <2>2 DEF Sends, Ticked, SendClientMessages
  <1>20. CASE SendFull(c, frame, change.reused)
    <2>1. PICK d : d = OnRequestFullUpdate(c)
      OBVIOUS
    <2>2. d \in ServerRecords(t + 1) /\ Kin(d, c) /\ Fresh(d) /\ d.updateTick = -1
      BY <1>14, <2>1, RequestIs DEF OnRequestFullUpdate, ServerRecords, Kin, Fresh
    <2>3. PICK w : w = WriteDeltaEntities(d, NoFrame, frame, change.reused)
      OBVIOUS
    <2>4. /\ client' = [w.client EXCEPT !.forceWaitForTick = frame.tick, !.fullSent = frame.tick]
          /\ fullUpdates' = Append(fullUpdates, w.msg) /\ ~(c.forceWaitForTick > 0)
          /\ toClient' = Append(toClient, [msg |-> NoMsg, upto |-> client'.fullSent])
      <3>1. c.forceWaitForTick <= 0 => ~(c.forceWaitForTick > 0)
        BY <1>14, <1>16 DEF TicksTo
      <3> QED
        BY <1>20, <2>1, <2>3, <3>1 DEF SendFull, Send
    <2>5. NoFrame \in Sources(t + 1)
      BY DEF Sources
    <2>6. Writes(w, d, NoFrame, frame, change.reused) /\ WritesValues(w, d, NoFrame, frame)
          /\ w.client \in ServerRecords(t + 1)
          /\ w.msg \in Messages(t + 1)
      BY <1>2, <1>6, <1>18, <2>2, <2>3, <2>5, WriteIs, WritesIs
    <2>7. /\ client'.state = client.state /\ client'.deltaTick = client.deltaTick
          /\ client'.frames = frames /\ client'.forceWaitForTick = t + 1 /\ client'.fullSent = t + 1
      BY <1>5, <1>14, <2>2, <2>4, <2>6 DEF Writes, Kin, ServerRecords
    <2>8. IsFull(G, w.msg) /\ w.msg.tick = t + 1
      <3>1. ~w.msg.isDelta /\ w.msg.deletions = {} /\ w.msg.tick = t + 1
        BY <1>5, <2>6 DEF Writes
      <3>2. w.msg.deltaFrom = -1
        BY <2>6 DEF Writes, NoFrame
      <3>3. \A x \in Slots : Tells(w.msg, x, NoFrame, G[t + 1])
        BY <1>1, <1>9, <2>6 DEF Writes
      <3> QED
        BY <3>1, <3>2, <3>3 DEF IsFull
    <2>9. Fresh(client') /\ client'.updateTick = t + 1 /\ client'.baselinesSent = frame.view
      <3>1. /\ client'.baseline = w.client.baseline /\ client'.baselineUsed = w.client.baselineUsed
            /\ client'.updateTick = w.client.updateTick /\ client'.baselinesSent = w.client.baselinesSent
        BY <2>4, <2>6 DEF ServerRecords
      <3>2. Entering(NoFrame, frame) = frame.view /\ w.msg.updateBaseline
        BY <2>2, <2>6 DEF Entering, NoFrame, WritesValues
      <3> QED
        BY <1>5, <2>2, <2>6, <3>1, <3>2 DEF WritesValues, Fresh
    <2>10. FullyWritten(G, w.msg)
      <3>1. G[w.msg.tick] = frame
        BY <1>1, <1>9, <2>8
      <3>2. Entering(NoFrame, frame) = frame.view
        BY DEF Entering, NoFrame
      <3>3. \A x : BaselineValue(d, NoFrame # NoFrame, x, frame.ents[x].class) = ClassBaseline[frame.ents[x].class]
        BY DEF BaselineValue
      <3> QED
        BY <2>2, <2>6, <3>1, <3>2, <3>3 DEF FullyWritten, WritesValues, Fresh
    <2>11. client.deltaTick # -1 => ~HasFrame(client'.frames, client.deltaTick)
      BY <1>14, <1>20, <2>7 DEF SendFull
    <2>12. SendsAll(G)
      BY <1>1, <1>9, <1>17, <2>4, <2>6, <2>7, <2>8, <2>9, <2>10, <2>11 DEF SendsAll
    <2> QED
      BY <1>1, <1>2, <1>9, <1>12, <2>7, <2>12 DEF Sends, Ticked, SendClientMessages
  <1>21. CASE SendDelta(c, frame, change.reused)
    <2>1. PICK from : from = GetClientFrame(c.frames, c.deltaTick)
      OBVIOUS
    <2>2. PICK w : w = WriteDeltaEntities(c, from, frame, change.reused)
      OBVIOUS
    <2>3. /\ HasFrame(c.frames, c.deltaTick) /\ client' = w.client /\ ~(c.forceWaitForTick > 0)
          /\ UNCHANGED fullUpdates
          /\ \/ toClient' = Append(toClient, [msg |-> w.msg, upto |-> client'.fullSent])
             \/ toClient' = Append(toClient, [msg |-> NoMsg, upto |-> client'.fullSent])
      <3>1. c.forceWaitForTick <= 0 => ~(c.forceWaitForTick > 0)
        BY <1>14, <1>16 DEF TicksTo
      <3> QED
        BY <1>21, <2>1, <2>2, <3>1 DEF SendDelta, Send
    <2>4. from \in frames /\ from.tick = client.deltaTick
      BY <1>14, <2>1, <2>3 DEF HasFrame, GetClientFrame
    <2>5. PICK u \in 1 .. m_nTickCount + 1 : from = G[u]
      BY <1>12, <2>4
    <2>6. u = client.deltaTick /\ u \in 1 .. t
      <3>1. from.tick = u
        BY <1>9, <2>5 DEF History
      <3>2. u \in TicksTo(t) /\ u # -1
        BY <1>16, <2>4, <2>5, <3>1
      <3> QED
        BY <2>4, <3>1, <3>2 DEF TicksTo
    <2>7. from \in Frames(t + 1)
      BY <1>6, <1>7, <1>11, <2>4
    <2>8. from \in Sources(t + 1) /\ from # NoFrame
      <3>1. from.tick # -1
        BY <2>4, <2>6
      <3> QED
        BY <2>7, <3>1 DEF Sources, NoFrame
    <2>9. Writes(w, c, from, frame, change.reused) /\ WritesValues(w, c, from, frame)
      BY <1>2, <1>6, <1>14, <1>18, <2>2, <2>8, WritesIs
    <2>10. IsDelta(G, w.msg) /\ w.msg.tick = t + 1 /\ w.msg.deltaFrom = client.deltaTick
      <3>1. w.msg.tick = t + 1 /\ w.msg.deltaFrom = u /\ w.msg.isDelta
        BY <1>5, <2>4, <2>6, <2>8, <2>9 DEF Writes
      <3>2. \A x \in Slots : Tells(w.msg, x, G[u], G[t + 1])
        BY <1>1, <1>9, <2>5, <2>9 DEF Writes
      <3>3. \A x \in w.msg.deletions : x \notin frame.view
              /\ \A a \in 1 .. t : ~Alike(H[a].ents[x], frame.ents[x])
        BY <1>1, <1>9, <2>9 DEF Writes, Alike
      <3>4. u \in 1 .. (t + 1) - 1 /\ 1 .. (t + 1) - 1 = 1 .. t
        BY <1>2, <2>6
      <3> QED
        BY <1>1, <1>9, <2>6, <3>1, <3>2, <3>3, <3>4 DEF IsDelta
    <2>11. /\ client'.state = client.state /\ client'.deltaTick = client.deltaTick
           /\ client'.frames = frames /\ client'.forceWaitForTick = client.forceWaitForTick
           /\ client'.fullSent = client.fullSent
      BY <1>14, <2>3, <2>9 DEF Writes, Kin
    <2>12. /\ client'.baseline = client.baseline /\ client'.baselineUsed = client.baselineUsed
           /\ \/ client'.updateTick = m_nTickCount + 1
              \/ /\ client'.updateTick = client.updateTick
                 /\ client.updateTick # -1 => client'.baselinesSent = client.baselinesSent
      BY <1>1, <1>5, <1>14, <2>3, <2>9 DEF WritesValues, SameBases
    <2>13. DeltaWritten(G, w.msg)
      <3>1. G[w.msg.tick] = frame /\ G[w.msg.deltaFrom] = from
        BY <1>1, <1>9, <2>5, <2>6, <2>10
      <3>2. w.msg.updateBaseline => client'.updateTick = w.msg.tick /\ client'.baselinesSent = Entering(from, frame)
        BY <1>5, <2>3, <2>9, <2>10 DEF WritesValues
      <3>3. \A x, class : BaselineValue(c, from # NoFrame, x, class) = BaselineValue(client, TRUE, x, class)
        BY <1>14, <2>8 DEF BaselineValue, SameBases
      <3>4. w.msg.baseline = client.baselineUsed
        BY <1>14, <2>9 DEF WritesValues, SameBases
      <3>5. \A x \in Entering(from, frame) : w.msg.updates[x].value =
              Written(BaselineValue(client, TRUE, x, frame.ents[x].class), frame.ents[x].value)
        BY <2>9, <3>3 DEF WritesValues
      <3>6. \A x \in Slots : TellsChange(w.msg, x, from, frame)
        BY <2>9 DEF WritesValues
      <3> QED
        BY <3>1, <3>2, <3>4, <3>5, <3>6 DEF DeltaWritten
    <2>14. w.msg \in Messages(m_nTickCount + 1)
      BY <1>1, <1>2, <1>6, <1>14, <1>18, <2>2, <2>8, WriteIs
    <2>15. SendsChanges(G)
      <3>1. client.deltaTick # -1
        BY <2>6
      <3>2. PICK m : toClient' = Append(toClient, [msg |-> m, upto |-> client.fullSent])
                     /\ (m = w.msg \/ m = NoMsg)
        BY <2>3, <2>11
      <3> HIDE DEF DeltaWritten
      <3> QED
        BY <1>1, <1>17, <2>3, <2>10, <2>11, <2>12, <2>13, <2>14, <3>1, <3>2 DEF SendsChanges
    <2> QED
      BY <1>1, <1>2, <1>9, <1>12, <2>11, <2>15 DEF Sends, Ticked, SendClientMessages
  <1> QED
    BY <1>15, <1>19, <1>20, <1>21 DEF SendSnapshot

LEMMA AppendedAre ==
  ASSUME NEW S, NEW q \in Seq(S), NEW d, NEW new, new = Append(q, d)
  PROVE  /\ DOMAIN q = 1 .. Len(q) /\ DOMAIN new = 1 .. Len(q) + 1 /\ Len(q) \in Nat
         /\ new[Len(q) + 1] = d /\ \A i \in DOMAIN q : new[i] = q[i] /\ q[i] \in S
         /\ \A i \in DOMAIN new : i \in DOMAIN q \/ i = Len(q) + 1
         /\ \A i \in DOMAIN q : i < Len(q) + 1
         /\ \A i, j \in DOMAIN new : i < j => i \in DOMAIN q
  OBVIOUS

\* What a message tells does not depend on the snapshots after it.
LEMMA OfThePast ==
  ASSUME NEW t \in Nat, NEW n \in Nat, n <= t, NEW H, NEW G, \A u \in 1 .. n : G[u] = H[u],
         NEW m, m.tick \in 1 .. n
  PROVE  (IsDelta(H, m) => IsDelta(G, m)) /\ (IsFull(H, m) => IsFull(G, m))
  <1>1. G[m.tick] = H[m.tick]
    OBVIOUS
  <1>2. ASSUME IsDelta(H, m) PROVE IsDelta(G, m)
    <2>1. m.deltaFrom \in 1 .. n /\ \A a \in 1 .. m.tick - 1 : a \in 1 .. n
      BY <1>2 DEF IsDelta
    <2>2. G[m.deltaFrom] = H[m.deltaFrom] /\ \A a \in 1 .. m.tick - 1 : G[a] = H[a]
      BY <2>1
    <2> QED
      BY <1>1, <1>2, <2>2 DEF IsDelta
  <1>3. IsFull(H, m) => IsFull(G, m)
    BY <1>1 DEF IsFull
  <1> QED
    BY <1>2, <1>3

\* What the types say of what is under way.
LEMMA UnderWay ==
  ASSUME Typed
  PROVE  /\ m_nTickCount \in Nat
         /\ \A i \in DOMAIN toClient :
              /\ toClient[i].upto \in TicksTo(m_nTickCount)
              /\ Carries(i) => toClient[i].msg \in Messages(m_nTickCount)
                               /\ toClient[i].msg.tick \in 1 .. m_nTickCount
                               /\ toClient[i].msg.deltaFrom \in TicksTo(m_nTickCount)
         /\ \A i \in DOMAIN toServer :
              /\ toServer[i].tick \in TicksTo(m_nTickCount) \cup {NoTick}
              /\ toServer[i].received \in TicksTo(m_nTickCount)
         /\ \A i \in DOMAIN fullUpdates :
              fullUpdates[i] \in Messages(m_nTickCount) /\ fullUpdates[i].tick \in 1 .. m_nTickCount
         /\ Ticks \subseteq 1 .. m_nTickCount
         /\ cl.deltaTick \in TicksTo(m_nTickCount) /\ cl.fullReceived \in TicksTo(m_nTickCount)
         /\ {client.deltaTick, client.forceWaitForTick, client.fullSent} \subseteq TicksTo(m_nTickCount)
  <1>1. PICK t, D, M, F : t = m_nTickCount /\ D = Datagrams(t) /\ M = Moves(t) /\ F = Messages(t)
    OBVIOUS
  <1>2. toClient \in Seq(D) /\ toServer \in Seq(M) /\ fullUpdates \in Seq(F)
    BY <1>1 DEF Typed
  <1>3. /\ \A i \in DOMAIN toClient : toClient[i] \in D
        /\ \A i \in DOMAIN toServer : toServer[i] \in M
        /\ \A i \in DOMAIN fullUpdates : fullUpdates[i] \in F
    BY <1>2
  <1>4. t \in Nat
    BY <1>1, SnapshotsAssumption DEF Typed, WorldTyped
  <1>5. \A i \in DOMAIN toClient :
          /\ toClient[i].upto \in TicksTo(t)
          /\ Carries(i) => toClient[i].msg \in F
    BY <1>1, <1>3 DEF Datagrams, Carries
  <1>6. \A m \in F : m.tick \in 1 .. t /\ m.deltaFrom \in TicksTo(t)
    BY <1>1 DEF Messages
  <1>7. \A i \in DOMAIN toServer :
          toServer[i].tick \in TicksTo(t) \cup {NoTick} /\ toServer[i].received \in TicksTo(t)
    BY <1>1, <1>3 DEF Moves
  <1>8. Ticks \subseteq 1 .. t /\ cl.deltaTick \in TicksTo(t) /\ cl.fullReceived \in TicksTo(t)
    <2>1. cl \in ClientRecords(t)
      BY <1>1 DEF Typed
    <2>2. \A f \in cl.frames : f.tick \in 1 .. t
      BY <2>1 DEF ClientRecords, ClientFrames
    <2> QED
      BY <2>1, <2>2 DEF ClientRecords, Ticks
  <1>9. {client.deltaTick, client.forceWaitForTick, client.fullSent} \subseteq TicksTo(t)
    BY <1>1 DEF Typed, ServerRecords
  <1> QED
    BY <1>1, <1>3, <1>4, <1>5, <1>6, <1>7, <1>8, <1>9

LEMMA TickInStep ==
  ASSUME Typed, NEW H, InStep(H), NEW G, Ticked(H, G)
  PROVE  InStep(G)'
  <1>1. PICK t : t = m_nTickCount
    OBVIOUS
  <1>2. /\ t \in Nat /\ m_nTickCount' = t + 1 /\ \A u \in 1 .. t : G[u] = H[u] /\ u \in 1 .. t + 1
        /\ cl' = cl /\ toServer' = toServer /\ acks' = acks
    BY <1>1, UnderWay DEF Ticked
  <1>3. Ticks' = Ticks /\ Asks' = Asks /\ Ticks \subseteq 1 .. t
    BY <1>1, <1>2, UnderWay DEF Ticks, Asks
  <1>4. History(G, m_nTickCount)' /\ Now(G)'
    BY <1>1, <1>2 DEF Ticked, History
  <1>5. FramesKept(G)'
    <2>1. \A f \in cl.frames : f.tick \in 1 .. t
      BY <1>3 DEF Ticks
    <2> QED
      BY <1>1, <1>2, <2>1 DEF Ticked, Sends, FramesKept, InStep
  <1>6. Connected'
    BY <1>2 DEF Ticked, Sends, Connected, InStep, Asks
  <1>7. Picture(G)'
    <2>1. ASSUME NEW g \in Ticks, \A u \in Ticks : u <= g, NEW s \in Slots, Has(G, g, s)'
          PROVE  Alike(cl.entities[s], G[g].ents[s]) /\ cl.entities[s].class = G[g].ents[s].class
      <3>1. G[g] = H[g]
        BY <1>2, <1>3
      <3>2. PICK a \in Ticks : s \in G[a].view /\ Alike(G[a].ents[s], G[g].ents[s])
        BY <1>3, <2>1 DEF Has
      <3>3. G[a] = H[a]
        BY <1>2, <1>3
      <3>4. Has(H, g, s)
        BY <3>1, <3>2, <3>3 DEF Has
      <3> QED
        BY <2>1, <3>1, <3>4 DEF InStep, Picture
    <2> QED
      BY <1>2, <1>3, <2>1 DEF Picture
  <1>8. PICK d : toClient' = Append(toClient, d)
    BY DEF Ticked, Sends, SendsNothing, SendsAll, SendsChanges
  <1>9. PICK N : N = Len(toClient)
    OBVIOUS
  <1>10. /\ DOMAIN toClient = 1 .. N /\ DOMAIN toClient' = 1 .. N + 1 /\ N \in Nat
         /\ toClient'[N + 1] = d /\ \A i \in DOMAIN toClient : toClient'[i] = toClient[i]
         /\ \A i \in DOMAIN toClient' : i \in DOMAIN toClient \/ i = N + 1
         /\ \A i, j \in DOMAIN toClient' : i < j => i \in DOMAIN toClient
    BY <1>8, <1>9, AppendedAre DEF Typed
  <1>11. \A i \in DOMAIN toClient : Carries(i)' = Carries(i)
    BY <1>10 DEF Carries
  <1>12. \A i \in DOMAIN toClient :
           /\ toClient[i].upto \in TicksTo(t) /\ toClient[i].upto <= client.fullSent
           /\ Carries(i) => /\ toClient[i].msg.isDelta /\ toClient[i].msg.tick \in 1 .. t
                            /\ toClient[i].msg.deltaFrom \in TicksTo(t)
    BY <1>1, UnderWay DEF InStep, DatagramsToClient
  <1>13. ASSUME NEW i \in DOMAIN toClient, Carries(i), IsDelta(H, toClient[i].msg)
         PROVE  IsDelta(G, toClient[i].msg)
    <2>1. toClient[i].msg.tick \in 1 .. t
      BY <1>12, <1>13
    <2> QED
      BY <1>2, <1>13, <2>1, OfThePast
  <1>14. ~Waits => ~Pending
    BY DEF InStep, FullUpdate
  <1>15. /\ client.forceWaitForTick \in TicksTo(t) /\ client.fullSent \in TicksTo(t)
         /\ client.deltaTick \in TicksTo(t) /\ cl.deltaTick \in TicksTo(t)
         /\ cl.fullReceived \in TicksTo(t)
         /\ \A i \in DOMAIN toServer : /\ toServer[i].tick \in TicksTo(t) \cup {NoTick}
                                       /\ toServer[i].received \in TicksTo(t)
    BY <1>1, UnderWay
  <1>16. \A x \in TicksTo(t) : x \in Int /\ x <= t /\ x < t + 1 /\ x # t + 1
    BY <1>2 DEF TicksTo
  <1>17. client'.deltaTick = client.deltaTick
    BY DEF Ticked, Sends
  <1>18. CASE SendsAll(G)
    <2>1. /\ ~Waits /\ ~Pending /\ client'.forceWaitForTick = t + 1 /\ client'.fullSent = t + 1
          /\ d = [msg |-> NoMsg, upto |-> t + 1]
      <3>1. toClient' = Append(toClient, [msg |-> NoMsg, upto |-> t + 1])
        BY <1>1, <1>18 DEF SendsAll
      <3>2. toClient'[N + 1] = [msg |-> NoMsg, upto |-> t + 1]
        BY <1>9, <3>1, AppendedAre DEF Typed
      <3> QED
        BY <1>1, <1>10, <1>14, <1>18, <3>2 DEF SendsAll
    <2>2. Waits' /\ ~Unsent'
      BY <1>2, <2>1 DEF Waits, Unsent
    <2>3. PICK m : fullUpdates' = <<m>> /\ m.tick = t + 1 /\ IsFull(G, m)
      <3>1. PICK m : fullUpdates' = Append(fullUpdates, m) /\ m.tick = t + 1 /\ IsFull(G, m)
        BY <1>1, <1>18 DEF SendsAll
      <3> QED
        BY <2>1, <3>1 DEF Pending
    <2>4. Pending'
      BY <2>3 DEF Pending
    <2>5. FullUpdate(G)'
      <3>1. Len(fullUpdates') = 1 /\ fullUpdates'[1] = m
        BY <2>3
      <3>2. cl.fullReceived < t + 1 /\ cl.deltaTick < t + 1 /\ t + 1 >= 1
        BY <1>2, <1>15, <1>16
      <3> QED
        BY <1>2, <2>1, <2>2, <2>3, <2>4, <3>1, <3>2 DEF FullUpdate
    <2>6. MovesToServer'
      <3>1. \A i \in DOMAIN toServer : toServer[i].received <= cl.fullReceived
        BY DEF InStep, MovesToServer
      <3>2. \A i \in DOMAIN toServer : toServer[i].tick < t + 1 /\ toServer[i].received # t + 1
        BY <1>2, <1>15, <1>16 DEF NoTick
      <3> QED
        BY <1>2, <2>1, <2>2, <3>1, <3>2 DEF MovesToServer
    <2>7. DatagramsToClient'
      <3>1. \A i \in DOMAIN toClient' : toClient'[i].upto <= t + 1
        BY <1>2, <1>10, <1>12, <1>16, <2>1
      <3>2. \A i \in DOMAIN toClient' : Carries(i)' => /\ i \in DOMAIN toClient /\ Carries(i)
                 /\ toClient'[i] = toClient[i]
        BY <1>10, <1>11, <2>1 DEF Carries
      <3>3. \A i \in DOMAIN toClient : Carries(i) =>
              toClient[i].upto < t + 1 /\ toClient[i].msg.tick < t + 1 /\ toClient[i].msg.isDelta
        BY <1>2, <1>12, <1>16
      <3>4. \A i, j \in DOMAIN toClient : i < j => toClient[i].upto <= toClient[j].upto
        BY DEF InStep, DatagramsToClient
      <3>5. \A i, j \in DOMAIN toClient' : i < j => toClient'[i].upto <= toClient'[j].upto
        BY <1>10, <2>1, <3>1, <3>4
      <3> QED
        BY <2>1, <2>4, <3>1, <3>2, <3>3, <3>5 DEF DatagramsToClient
    <2>8. Readable(G)'
      <3> SUFFICES ASSUME ~Asks PROVE Readable(G)'
        BY <1>3 DEF Readable
      <3>1. cl.deltaTick \in Ticks /\ \A u \in Ticks : u <= cl.deltaTick
        BY DEF InStep, Readable
      <3>2. \A i \in DOMAIN toClient : Carries(i) =>
               /\ IsDelta(G, toClient[i].msg) /\ cl.deltaTick < toClient[i].msg.tick
               /\ toClient[i].msg.deltaFrom \in Ticks
        BY <1>13 DEF InStep, Readable
      <3>3. \A i, j \in DOMAIN toClient : i < j /\ Carries(i) /\ Carries(j) =>
               /\ toClient[i].msg.tick < toClient[j].msg.tick
               /\ toClient[i].msg.deltaFrom <= toClient[j].msg.deltaFrom
        BY DEF InStep, Readable
      <3>4. \A i \in DOMAIN toClient' : Carries(i)' =>
               i \in DOMAIN toClient /\ Carries(i) /\ toClient'[i] = toClient[i]
        BY <1>10, <1>11, <2>1 DEF Carries
      <3> QED
        BY <1>2, <1>3, <2>2, <2>4, <3>1, <3>2, <3>3, <3>4 DEF Readable
    <2> QED
      BY <1>4, <1>5, <1>6, <1>7, <2>5, <2>6, <2>7, <2>8 DEF InStep
  <1>19. CASE SendsNothing(G) \/ SendsChanges(G)
    <2>1. /\ client'.forceWaitForTick = client.forceWaitForTick /\ client'.fullSent = client.fullSent
          /\ fullUpdates' = fullUpdates
      BY <1>19 DEF SendsNothing, SendsChanges
    <2>2. Waits' = Waits /\ Unsent' = Unsent /\ Pending' = Pending
      BY <1>17, <2>1 DEF Waits, Unsent, Pending
    <2>3. d.upto = client.fullSent /\ (d.msg # NoMsg =>
            /\ ~Waits /\ client.deltaTick # -1 /\ IsDelta(G, d.msg)
            /\ d.msg.tick = t + 1 /\ d.msg.deltaFrom = client.deltaTick)
      <3>1. CASE SendsNothing(G)
        <4>1. toClient' = Append(toClient, [msg |-> NoMsg, upto |-> client.fullSent])
          BY <3>1 DEF SendsNothing
        <4>2. toClient'[N + 1] = [msg |-> NoMsg, upto |-> client.fullSent]
          BY <1>9, <4>1, AppendedAre DEF Typed
        <4> QED
          BY <1>10, <4>2
      <3>2. CASE SendsChanges(G)
        <4>1. PICK m : /\ toClient' = Append(toClient, [msg |-> m, upto |-> client.fullSent])
                       /\ m # NoMsg => /\ m.tick = t + 1 /\ m.deltaFrom = client.deltaTick
                                       /\ IsDelta(G, m)
          BY <1>1, <3>2 DEF SendsChanges
        <4>2. toClient'[N + 1] = [msg |-> m, upto |-> client.fullSent]
          BY <1>9, <4>1, AppendedAre DEF Typed
        <4> QED
          BY <1>10, <3>2, <4>1, <4>2 DEF SendsChanges
      <3> QED
        BY <1>19, <3>1, <3>2
    <2>4. FullUpdate(G)'
      <3>1. Pending => IsFull(G, fullUpdates[1])
        <4>1. Pending => Len(fullUpdates) = 1 /\ IsFull(H, fullUpdates[1])
          BY DEF InStep, FullUpdate
        <4>2. Pending => fullUpdates[1].tick \in 1 .. t
          BY <1>1, <4>1, UnderWay DEF Typed
        <4> QED
          BY <1>2, <4>1, <4>2, OfThePast
      <3> QED
        BY <1>2, <1>3, <1>17, <2>1, <2>2, <3>1 DEF InStep, FullUpdate
    <2>5. MovesToServer'
      BY <1>2, <1>3, <1>17, <2>1, <2>2 DEF InStep, MovesToServer
    <2>6. DatagramsToClient'
      <3>1. \A i \in DOMAIN toClient' : toClient'[i].upto <= client.fullSent
        BY <1>10, <1>12, <1>15, <1>16, <2>3
      <3>2. \A i, j \in DOMAIN toClient : i < j => toClient[i].upto <= toClient[j].upto
        BY DEF InStep, DatagramsToClient
      <3>3. \A i, j \in DOMAIN toClient' : i < j => toClient'[i].upto <= toClient'[j].upto
        BY <1>10, <1>12, <2>3, <3>2
      <3>4. \A i \in DOMAIN toClient' : Carries(i)' => toClient'[i].msg.isDelta
        BY <1>10, <1>11, <1>12, <2>3 DEF Carries, IsDelta
      <3>5. Waits => \A i \in DOMAIN toClient' : Carries(i)' =>
                i \in DOMAIN toClient /\ Carries(i) /\ toClient'[i] = toClient[i]
        BY <1>10, <1>11, <2>3 DEF Carries
      <3>6. Waits => \A i \in DOMAIN toClient : Carries(i) =>
               Pending /\ toClient[i].upto < client.fullSent /\ toClient[i].msg.tick < client.fullSent
        BY DEF InStep, DatagramsToClient
      <3> QED
        BY <2>1, <2>2, <3>1, <3>3, <3>4, <3>5, <3>6 DEF DatagramsToClient
    <2>7. Readable(G)'
      <3> SUFFICES ASSUME ~Asks PROVE Readable(G)'
        BY <1>3 DEF Readable
      <3>1. /\ cl.deltaTick \in Ticks /\ \A u \in Ticks : u <= cl.deltaTick
            /\ Waits /\ ~Pending => cl.deltaTick = client.fullSent
            /\ ~Waits => /\ client.deltaTick \in Ticks
                         /\ \A i \in DOMAIN toServer : toServer[i].tick \in Ticks
        BY DEF InStep, Readable
      <3>2. \A i \in DOMAIN toClient : Carries(i) =>
               /\ IsDelta(G, toClient[i].msg) /\ cl.deltaTick < toClient[i].msg.tick
               /\ toClient[i].msg.deltaFrom \in Ticks
               /\ ~Waits => toClient[i].msg.deltaFrom <= client.deltaTick
        BY <1>13 DEF InStep, Readable
      <3>3. \A i, j \in DOMAIN toClient : i < j /\ Carries(i) /\ Carries(j) =>
               /\ toClient[i].msg.tick < toClient[j].msg.tick
               /\ toClient[i].msg.deltaFrom <= toClient[j].msg.deltaFrom
        BY DEF InStep, Readable
      <3>4. d.msg # NoMsg => /\ ~Waits /\ IsDelta(G, d.msg) /\ cl.deltaTick < d.msg.tick
                             /\ d.msg.deltaFrom \in Ticks /\ d.msg.deltaFrom <= client.deltaTick
        BY <1>15, <1>16, <2>3, <3>1
      <3>5. \A i \in DOMAIN toClient' : Carries(i)' =>
               /\ IsDelta(G, toClient'[i].msg) /\ cl.deltaTick < toClient'[i].msg.tick
               /\ toClient'[i].msg.deltaFrom \in Ticks
               /\ ~Waits => toClient'[i].msg.deltaFrom <= client.deltaTick
        BY <1>10, <1>11, <3>2, <3>4 DEF Carries
      <3>6. ASSUME NEW i \in DOMAIN toClient', NEW j \in DOMAIN toClient', i < j, Carries(i)', Carries(j)'
            PROVE  /\ toClient'[i].msg.tick < toClient'[j].msg.tick
                   /\ toClient'[i].msg.deltaFrom <= toClient'[j].msg.deltaFrom
        <4>1. i \in DOMAIN toClient /\ toClient'[i] = toClient[i] /\ Carries(i)
          BY <1>10, <1>11, <3>6
        <4>2. CASE j \in DOMAIN toClient
          BY <1>10, <1>11, <3>3, <3>6, <4>1, <4>2
        <4>3. CASE j = N + 1
          <5>1. d.msg # NoMsg /\ toClient'[j] = d
            BY <1>10, <3>6, <4>3 DEF Carries
          <5>2. toClient[i].msg.tick < t + 1
            BY <1>2, <1>12, <4>1
          <5> QED
            BY <2>3, <3>2, <4>1, <5>1, <5>2
        <4> QED
          BY <1>10, <4>2, <4>3
      <3> QED
        BY <1>2, <1>3, <1>17, <2>1, <2>2, <3>1, <3>5, <3>6 DEF Readable
    <2> QED
      BY <1>4, <1>5, <1>6, <1>7, <2>4, <2>5, <2>6, <2>7 DEF InStep
  <1> QED
    BY <1>18, <1>19 DEF Ticked, Sends

-----------------------------------------------------------------------------
(* The server reads a packet.                                              *)

\* What the tick of a packet makes of the server's end.
Stands(new, c) ==
  /\ new.state = c.state /\ new.deltaTick = c.deltaTick /\ new.forceWaitForTick = c.forceWaitForTick
Served(c, tick, new) ==
  /\ new.fullSent = c.fullSent /\ new.frames \subseteq c.frames
  /\ \/ /\ Stands(new, c)
        /\ c.forceWaitForTick > 0 => tick # c.forceWaitForTick
        /\ ~(c.forceWaitForTick > 0) /\ c.deltaTick # -1 => tick = NoTick
     \/ /\ c.forceWaitForTick > 0 /\ tick = -1 /\ ~(c.fullAcked < c.fullSent)
        /\ new.state = c.state /\ new.deltaTick = -1 /\ new.forceWaitForTick = -1
     \/ /\ c.forceWaitForTick > 0 /\ tick = -1
        /\ new.state = c.state /\ new.deltaTick = -1 /\ new.forceWaitForTick = c.forceWaitForTick
     \/ /\ c.forceWaitForTick > 0 /\ tick = c.forceWaitForTick
        /\ new.state = c.state /\ new.deltaTick = tick /\ new.forceWaitForTick = -1
     \/ /\ ~(c.forceWaitForTick > 0) /\ c.deltaTick # -1 /\ tick = -1
        /\ new.state = c.state /\ new.deltaTick = -1 /\ new.forceWaitForTick = c.forceWaitForTick
     \/ ~(c.forceWaitForTick > 0) /\ c.deltaTick # -1 /\ tick \notin {-1, NoTick} /\ tick < c.deltaTick
     \/ /\ ~(c.forceWaitForTick > 0) /\ c.deltaTick # -1 /\ tick >= c.deltaTick
        /\ new.state = c.state /\ new.deltaTick = tick /\ new.forceWaitForTick = c.forceWaitForTick

LEMMA ServedIs ==
  ASSUME NEW t \in 0 .. MaxTick, NEW c \in ServerRecords(t), NEW tick \in TicksTo(t) \cup {NoTick},
         NEW new, new = ProcessTick(c, tick)
  PROVE  Served(c, tick, new)
  <1>1. new.frames \subseteq c.frames
    BY TickIs
  <1>2. CASE tick = NoTick
    <2>1. new = c
      BY <1>2 DEF ProcessTick
    <2>2. c.forceWaitForTick > 0 => tick # c.forceWaitForTick
      <3>1. c.forceWaitForTick \in TicksTo(t)
        BY DEF ServerRecords
      <3>2. c.forceWaitForTick # -2
        BY <3>1 DEF TicksTo
      <3> QED
        BY <1>2, <3>2 DEF NoTick
    <2> QED
      BY <1>2, <2>1, <2>2 DEF Served, Stands
  <1>3. CASE tick # NoTick
    <2> DEFINE pending == c.fullAcked < c.fullSent
               kept == IF tick # c.deltaTick /\ tick > 0 THEN DeleteClientFrames(c.frames, tick)
                                                         ELSE c.frames
    <2>1. PICK d : d = [c EXCEPT !.frames = kept]
      OBVIOUS
    <2>2. kept \subseteq c.frames
      BY DEF DeleteClientFrames
    <2>3. d \in ServerRecords(t) /\ d.state = c.state /\ d.deltaTick = c.deltaTick
          /\ d.forceWaitForTick = c.forceWaitForTick /\ d.fullSent = c.fullSent
      BY <2>1, <2>2 DEF ServerRecords
    <2>4. ASSUME NEW e \in ServerRecords(t)
          PROVE  LET f == SetDeltaTick(e, tick)
                 IN f.state = e.state /\ f.deltaTick = tick
                    /\ f.forceWaitForTick = e.forceWaitForTick /\ f.fullSent = e.fullSent
      BY DEF SetDeltaTick, ServerRecords
    <2>5. PICK e1, e2 : /\ e1 = [d EXCEPT !.forceWaitForTick = -1, !.deltaTick = -1]
                        /\ e2 = [d EXCEPT !.forceWaitForTick = -1]
      OBVIOUS
    <2>6. /\ e1 \in ServerRecords(t) /\ e1.state = c.state /\ e1.deltaTick = -1
          /\ e1.forceWaitForTick = -1 /\ e1.fullSent = c.fullSent
          /\ e2 \in ServerRecords(t) /\ e2.state = c.state /\ e2.forceWaitForTick = -1
          /\ e2.fullSent = c.fullSent
      BY <2>3, <2>5 DEF ServerRecords, TicksTo
    <2>7. ASSUME NEW e \in ServerRecords(t)
          PROVE  LET f == OnRequestFullUpdate(e)
                 IN /\ f \in ServerRecords(t) /\ f.state = e.state /\ f.deltaTick = e.deltaTick
                    /\ f.forceWaitForTick = e.forceWaitForTick /\ f.fullSent = e.fullSent
      <3>1. OnRequestFullUpdate(e) \in ServerRecords(t)
        BY RequestIs
      <3> QED
        BY <3>1 DEF OnRequestFullUpdate, ServerRecords
    <2>8. new = IF c.forceWaitForTick > 0 THEN AcknowledgeWhileWaiting(d, tick, pending)
                                          ELSE AcknowledgeDelta(d, tick)
      BY <1>3, <2>1 DEF ProcessTick, UpdateAcknowledgedFramecount
    <2>9. c.forceWaitForTick \in TicksTo(t) /\ c.deltaTick \in TicksTo(t) /\ tick \in TicksTo(t)
      BY <1>3 DEF ServerRecords
    <2>10. pending \in BOOLEAN
      OBVIOUS
    <2> HIDE DEF kept
    <2>11. CASE c.forceWaitForTick > 0
      <3>1. new = AcknowledgeWhileWaiting(d, tick, pending)
        BY <2>8, <2>11
      <3>2. CASE tick > c.forceWaitForTick
        <4>1. tick # -1 /\ tick # c.forceWaitForTick
          BY <2>9, <2>11, <3>2 DEF TicksTo
        <4>2. new = d
          BY <2>3, <2>9, <3>1, <3>2, <4>1 DEF AcknowledgeWhileWaiting, TicksTo
        <4> QED
          BY <1>1, <2>3, <2>11, <4>1, <4>2 DEF Served, Stands
      <3>3. CASE tick = -1 /\ ~pending
        <4>1. ~(tick > d.forceWaitForTick)
          BY <2>3, <2>9, <2>11, <3>3 DEF TicksTo
        <4>2. new = OnRequestFullUpdate(e1)
          BY <2>5, <3>1, <3>3, <4>1 DEF AcknowledgeWhileWaiting
        <4> QED
          BY <1>1, <2>6, <2>7, <2>11, <3>3, <4>2 DEF Served
      <3>4. CASE tick = -1 /\ pending
        <4>1. ~(tick > d.forceWaitForTick)
          BY <2>3, <2>9, <2>11, <3>4 DEF TicksTo
        <4>2. new = SetDeltaTick(d, tick)
          BY <3>1, <3>4, <4>1 DEF AcknowledgeWhileWaiting
        <4> QED
          BY <1>1, <2>3, <2>4, <2>11, <3>4, <4>2 DEF Served
      <3>5. CASE tick # -1 /\ tick < c.forceWaitForTick
        <4>1. ~(tick > d.forceWaitForTick) /\ tick # c.forceWaitForTick
          BY <2>3, <2>9, <3>5 DEF TicksTo
        <4>2. new = d
          BY <2>3, <3>1, <3>5, <4>1 DEF AcknowledgeWhileWaiting
        <4> QED
          BY <1>1, <2>3, <2>11, <4>1, <4>2 DEF Served, Stands
      <3>6. CASE tick = c.forceWaitForTick
        <4>1. tick # -1 /\ ~(tick > d.forceWaitForTick) /\ ~(tick < d.forceWaitForTick)
          BY <2>3, <2>9, <2>11, <3>6 DEF TicksTo
        <4>2. new = SetDeltaTick(e2, tick)
          BY <2>5, <3>1, <4>1 DEF AcknowledgeWhileWaiting
        <4> QED
          BY <1>1, <2>4, <2>6, <2>11, <3>6, <4>2 DEF Served
      <3> QED
        BY <2>9, <2>10, <3>2, <3>3, <3>4, <3>5, <3>6 DEF TicksTo
    <2>12. CASE ~(c.forceWaitForTick > 0)
      <3>1. new = AcknowledgeDelta(d, tick)
        BY <2>8, <2>12
      <3>2. CASE c.deltaTick = -1
        <4>1. ~(tick # -1 /\ d.deltaTick > tick)
          BY <2>3, <2>9, <3>2 DEF TicksTo
        <4>2. new = d
          BY <2>3, <3>1, <3>2, <4>1 DEF AcknowledgeDelta
        <4> QED
          BY <1>1, <2>3, <2>12, <3>2, <4>2 DEF Served, Stands
      <3>3. CASE c.deltaTick # -1 /\ tick = -1
        <4>1. new = SetDeltaTick(OnRequestFullUpdate(d), tick)
          BY <2>3, <3>1, <3>3 DEF AcknowledgeDelta
        <4>2. PICK f : f = OnRequestFullUpdate(d)
          OBVIOUS
        <4>3. f \in ServerRecords(t) /\ f.state = c.state /\ f.fullSent = c.fullSent
              /\ f.forceWaitForTick = c.forceWaitForTick
          BY <2>3, <2>7, <4>2
        <4>4. new.state = c.state /\ new.deltaTick = -1 /\ new.fullSent = c.fullSent
              /\ new.forceWaitForTick = c.forceWaitForTick
          BY <2>4, <3>3, <4>1, <4>2, <4>3
        <4> QED
          BY <1>1, <2>12, <3>3, <4>4 DEF Served
      <3>4. CASE c.deltaTick # -1 /\ tick # -1 /\ tick < c.deltaTick
        <4>1. d.deltaTick > tick
          BY <2>3, <2>9, <3>4 DEF TicksTo
        <4>2. new = Disconnect(d, "delta ticks out of order")
          BY <2>3, <3>1, <3>4, <4>1 DEF AcknowledgeDelta
        <4>3. new.fullSent = c.fullSent
          BY <2>3, <4>2 DEF Disconnect, ServerRecords
        <4> QED
          BY <1>1, <1>3, <2>12, <3>4, <4>3 DEF Served
      <3>5. CASE c.deltaTick # -1 /\ tick # -1 /\ tick >= c.deltaTick
        <4>1. ~(d.deltaTick > tick)
          BY <2>3, <2>9, <3>5 DEF TicksTo
        <4>2. new = SetDeltaTick(d, tick)
          BY <2>3, <3>1, <3>5, <4>1 DEF AcknowledgeDelta
        <4> QED
          BY <1>1, <2>3, <2>4, <2>12, <3>5, <4>2 DEF Served
      <3> QED
        BY <2>9, <3>2, <3>3, <3>4, <3>5 DEF TicksTo
    <2> QED
      BY <2>11, <2>12
  <1> QED
    BY <1>2, <1>3

\* The server's end stays in a set the acknowledgements of a packet do not leave,
\* until the tick of the packet is processed.
LEMMA PacketServed ==
  ASSUME Typed, PacketToServer, NEW V \in SUBSET ServerRecords(m_nTickCount),
         [client EXCEPT !.fullAcked = toServer[1].received] \in V,
         \A v \in V, i \in DOMAIN acks : ProcessBaselineAck(v, acks[i]) \in V
  PROVE  /\ toServer # <<>> /\ toServer' = Tail(toServer)
         /\ UNCHANGED <<world, cl, toClient, fullUpdates>>
         /\ toServer[1].tick \in TicksTo(m_nTickCount) \cup {NoTick}
         /\ \E d \in V : client' = ProcessTick(d, toServer[1].tick)
         /\ \E n \in Nat : \A i \in DOMAIN acks' :
              i \in Nat /\ i + n \in DOMAIN acks /\ acks'[i] = acks[i + n]
  <1>1. PICK t, M, A : t = m_nTickCount /\ M = Moves(t) /\ A = AckRecords(t)
    OBVIOUS
  <1>2. /\ toServer \in Seq(M) /\ toServer # <<>> /\ toServer' = Tail(toServer) /\ acks \in Seq(A)
        /\ UNCHANGED <<world, cl, toClient, fullUpdates>>
    BY <1>1 DEF Typed, PacketToServer
  <1>3. PICK packet : packet = Head(toServer)
    OBVIOUS
  <1>4. packet \in M /\ packet = toServer[1]
    BY <1>2, <1>3
  <1>5. PICK c : c = [client EXCEPT !.fullAcked = packet.received]
    OBVIOUS
  <1>6. PICK n \in 0 .. Carried(acks, packet.upto) :
          /\ client' = ProcessTick(FoldLeft(ProcessBaselineAck, c, SubSeq(acks, 1, n)), packet.tick)
          /\ acks' = SubSeq(acks, n + 1, Len(acks))
    BY <1>3, <1>5 DEF PacketToServer
  <1>7. n \in 0 .. Len(acks) /\ n \in Nat
    <2>1. Carried(acks, packet.upto) \in 0 .. Len(acks)
      BY <1>2, CarriedIs
    <2> QED
      BY <1>2, <2>1
  <1>8. PICK seq : seq = SubSeq(acks, 1, n)
    OBVIOUS
  <1>9. DOMAIN seq = 1 .. n /\ \A i \in 1 .. n : seq[i] = acks[i] /\ i \in DOMAIN acks
    BY <1>2, <1>7, <1>8, FirstOf
  <1>10. PICK d : d = FoldLeft(ProcessBaselineAck, c, seq)
    OBVIOUS
  <1>11. d \in V
    <2>1. c \in V
      BY <1>4, <1>5
    <2>2. PICK r : AckRuns(V, n, c, seq, r) /\ FoldLeft(ProcessBaselineAck, c, seq) = r[n]
      <3>1. \A v \in V, k \in 1 .. n : ProcessBaselineAck(v, seq[k]) \in V
        BY <1>9
      <3>2. DOMAIN seq = 1 .. n /\ n \in Nat
        BY <1>7, <1>9
      <3> QED
        BY <2>1, <3>1, <3>2, AckRun
    <2> QED
      BY <1>7, <1>10, <2>2 DEF AckRuns
  <1>12. client' = ProcessTick(d, packet.tick) /\ packet.tick \in TicksTo(t) \cup {NoTick}
    BY <1>1, <1>4, <1>6, <1>8, <1>10 DEF Moves
  <1>13. \A i \in DOMAIN acks' : i \in Nat /\ i + n \in DOMAIN acks /\ acks'[i] = acks[i + n]
    BY <1>2, <1>6, <1>7
  <1> QED
    BY <1>1, <1>2, <1>4, <1>7, <1>11, <1>12, <1>13

\* The acknowledgements it carries concern the baselines alone.
LEMMA PacketServes ==
  ASSUME Typed, FewFrames, PacketToServer
  PROVE  /\ toServer # <<>> /\ toServer' = Tail(toServer)
         /\ UNCHANGED <<world, cl, toClient, fullUpdates>>
         /\ \E c : /\ Kin(c, client) /\ c.fullAcked = toServer[1].received
                   /\ Served(c, toServer[1].tick, client')
         /\ {f \in client.frames : toServer[1].tick > 0 => toServer[1].tick <= f.tick} \subseteq client'.frames
  <1>1. PICK t, received, tick : t = m_nTickCount /\ received = toServer[1].received /\ tick = toServer[1].tick
    OBVIOUS
  <1>2. PICK V : V = {e \in ServerRecords(t) : Kin(e, client) /\ e.fullAcked = received}
    OBVIOUS
  <1>3. t \in 0 .. MaxTick
    BY <1>1 DEF Typed, WorldTyped
  <1>4. [client EXCEPT !.fullAcked = received] \in V
    <2>1. received \in TicksTo(t) /\ client \in ServerRecords(t)
      <3>1. 1 \in DOMAIN toServer
        BY DEF Typed, PacketToServer
      <3>2. PICK M : M = Moves(t)
        OBVIOUS
      <3>3. toServer[1] \in M
        BY <1>1, <3>1, <3>2 DEF Typed
      <3> QED
        BY <1>1, <3>2, <3>3 DEF Typed, Moves
    <2> QED
      BY <1>2, <2>1 DEF ServerRecords, Kin
  <1>5. \A v \in V, i \in DOMAIN acks : ProcessBaselineAck(v, acks[i]) \in V
    <2> SUFFICES ASSUME NEW v \in V, NEW ack PROVE ProcessBaselineAck(v, ack) \in V
      OBVIOUS
    <2>1. ProcessBaselineAck(v, ack) \in ServerRecords(t)
      BY <1>2, <1>3, AckIs
    <2>2. Kin(ProcessBaselineAck(v, ack), v) /\ ProcessBaselineAck(v, ack).fullAcked = v.fullAcked
      BY <1>2 DEF ProcessBaselineAck, Kin, ServerRecords
    <2> QED
      BY <1>2, <2>1, <2>2 DEF Kin
  <1>6. /\ toServer # <<>> /\ toServer' = Tail(toServer) /\ UNCHANGED <<world, cl, toClient, fullUpdates>>
        /\ tick \in TicksTo(t) \cup {NoTick} /\ \E d \in V : client' = ProcessTick(d, tick)
    <2>1. V \in SUBSET ServerRecords(m_nTickCount)
      BY <1>1, <1>2
    <2> QED
      BY <1>1, <1>4, <1>5, <2>1, PacketServed
  <1>7. PICK d \in V : client' = ProcessTick(d, tick)
    BY <1>6
  <1>8. Served(d, tick, client') /\ {f \in d.frames : tick > 0 => tick <= f.tick} \subseteq client'.frames
    <2>1. PICK new : new = client'
      OBVIOUS
    <2>2. d \in ServerRecords(t) /\ new = ProcessTick(d, tick)
      BY <1>2, <1>7, <2>1
    <2>3. Served(d, tick, new) /\ {f \in d.frames : tick > 0 => tick <= f.tick} \subseteq new.frames
      BY <1>3, <1>6, <2>2, ServedIs, TickIs
    <2> QED
      BY <2>1, <2>3
  <1>9. Kin(d, client) /\ d.fullAcked = received /\ d.frames = client.frames
    BY <1>2 DEF Kin
  <1> QED
    BY <1>1, <1>6, <1>8, <1>9

LEMMA TailIs ==
  ASSUME NEW S, NEW q \in Seq(S), q # <<>>, NEW new, new = Tail(q)
  PROVE  /\ 1 \in DOMAIN q /\ q[1] \in S
         /\ \A i \in DOMAIN new : i + 1 \in DOMAIN q /\ new[i] = q[i + 1] /\ 1 < i + 1
         /\ \A i, j \in DOMAIN new : i < j => i + 1 < j + 1
  OBVIOUS

LEMMA ServerInStep ==
  ASSUME Typed, FewFrames, PacketToServer, NEW H, InStep(H)
  PROVE  InStep(H)'
  <1>1. PICK t : t = m_nTickCount
    OBVIOUS
  <1>2. /\ toServer # <<>> /\ toServer' = Tail(toServer)
        /\ UNCHANGED <<world, cl, toClient, fullUpdates>>
    BY PacketServes
  <1>3. PICK tick, received : tick = toServer[1].tick /\ received = toServer[1].received
    OBVIOUS
  <1>4. PICK c : Kin(c, client) /\ c.fullAcked = received /\ Served(c, tick, client')
    BY <1>3, PacketServes
  <1>5. /\ 1 \in DOMAIN toServer
        /\ \A i \in DOMAIN toServer' : i + 1 \in DOMAIN toServer /\ toServer'[i] = toServer[i + 1] /\ 1 < i + 1
        /\ \A i, j \in DOMAIN toServer' : i < j => i + 1 < j + 1
    BY <1>2, TailIs DEF Typed
  <1>6. /\ client.forceWaitForTick \in TicksTo(t) /\ client.fullSent \in TicksTo(t)
        /\ client.deltaTick \in TicksTo(t) /\ cl.fullReceived \in TicksTo(t) /\ t \in Nat
        /\ \A i \in DOMAIN toServer : /\ toServer[i].tick \in TicksTo(t) \cup {NoTick}
                                      /\ toServer[i].received \in TicksTo(t)
    BY <1>1, UnderWay
  <1>7. \A x \in TicksTo(t) \cup {NoTick} : x \in Int
    BY <1>6 DEF TicksTo, NoTick
  <1>8. tick \in TicksTo(t) \cup {NoTick} /\ received \in TicksTo(t)
    BY <1>3, <1>5, <1>6
  <1>9. /\ Pending' = Pending /\ Asks' = Asks /\ Ticks' = Ticks
        /\ DOMAIN toClient' = DOMAIN toClient /\ \A i : Carries(i)' = Carries(i)
    BY <1>2 DEF Pending, Asks, Ticks, Carries
  <1>10. History(H, m_nTickCount)' /\ Now(H)'
    BY <1>2 DEF InStep, Now, History, world
  <1>11. Picture(H)'
    BY <1>2, <1>9 DEF InStep, Picture, Has
  <1>12. FramesKept(H)'
    <2>1. client'.frames \subseteq client.frames
      BY <1>4 DEF Served, Kin
    <2> QED
      BY <1>2, <2>1 DEF InStep, FramesKept, world
  <1>13. client'.fullSent = client.fullSent
    BY <1>4 DEF Served, Kin
  <1>14. /\ \A i \in DOMAIN toServer : toServer[i].received <= cl.fullReceived
         /\ Waits => client.forceWaitForTick = client.fullSent
         /\ Waits \/ client.deltaTick # -1 => client.fullSent >= 1
         /\ ~Pending => cl.fullReceived = client.fullSent
         /\ Pending => Waits /\ cl.fullReceived < client.fullSent
         /\ Unsent => Asks /\ ~Pending
    BY DEF InStep, MovesToServer, FullUpdate
  <1>15. \A i \in DOMAIN toServer' : toServer'[i].received <= cl.fullReceived
    BY <1>5, <1>14
  <1>16. Waits <=> client.forceWaitForTick > 0
    BY <1>6 DEF Waits, TicksTo
  <1>17. CASE Stands(client', c)
    <2>1. Waits' = Waits /\ Unsent' = Unsent /\ client'.deltaTick = client.deltaTick
          /\ client'.state = client.state /\ client'.forceWaitForTick = client.forceWaitForTick
      BY <1>4, <1>17 DEF Stands, Kin, Waits, Unsent
    <2>2. Connected'
      BY <1>2, <1>9, <2>1 DEF InStep, Connected
    <2>3. FullUpdate(H)'
      BY <1>2, <1>9, <1>13, <2>1 DEF InStep, FullUpdate
    <2>4. MovesToServer'
      <3>1. MovesToServer
        BY DEF InStep
      <3> QED
        BY <1>2, <1>5, <1>9, <1>13, <1>15, <2>1, <3>1 DEF MovesToServer
    <2>5. DatagramsToClient'
      BY <1>2, <1>9, <1>13, <2>1 DEF InStep, DatagramsToClient
    <2>6. Readable(H)'
      BY <1>2, <1>5, <1>9, <1>13, <2>1 DEF InStep, Readable
    <2> QED
      BY <1>10, <1>11, <1>12, <2>2, <2>3, <2>4, <2>5, <2>6 DEF InStep
  \* the client asks for another full update
  <1>18. CASE /\ c.forceWaitForTick > 0 /\ tick = -1 /\ ~(c.fullAcked < c.fullSent)
              /\ client'.state = c.state /\ client'.deltaTick = -1 /\ client'.forceWaitForTick = -1
    <2>1. Waits /\ ~Waits' /\ Unsent' /\ client'.state = client.state /\ ~(received < client.fullSent)
      BY <1>4, <1>16, <1>18 DEF Kin, Waits, Unsent
    <2>2. received = client.fullSent /\ ~Pending /\ cl.fullReceived = client.fullSent
      <3>1. received <= cl.fullReceived /\ cl.fullReceived \in Int /\ received \in Int /\ client.fullSent \in Int
        BY <1>3, <1>5, <1>6, <1>7, <1>8, <1>14
      <3> QED
        BY <1>14, <2>1, <3>1
    <2>3. Asks /\ \A j \in DOMAIN toServer' : toServer'[j].tick = -1
      <3>1. /\ \A i \in DOMAIN toServer : toServer[i].received = client.fullSent =>
                 toServer[i].tick = client.fullSent \/ (toServer[i].tick = -1 /\ Asks)
            /\ \A i, j \in DOMAIN toServer : i < j /\ toServer[i].received = client.fullSent =>
                 (toServer[i].tick = -1 => toServer[j].tick = -1)
        BY <2>1 DEF InStep, MovesToServer
      <3>2. client.fullSent # -1
        BY <1>14, <2>1
      <3>3. Asks
        BY <1>3, <1>5, <1>18, <2>2, <3>1, <3>2
      <3>4. \A j \in DOMAIN toServer : 1 < j => toServer[j].tick = -1
        BY <1>3, <1>5, <1>18, <2>2, <3>1
      <3> QED
        BY <1>5, <3>3, <3>4
    <2>4. Connected'
      BY <1>2, <1>9, <2>1 DEF InStep, Connected
    <2>5. FullUpdate(H)'
      BY <1>2, <1>9, <1>13, <1>18, <2>1, <2>2, <2>3 DEF FullUpdate
    <2>6. MovesToServer'
      BY <1>2, <1>15, <2>1, <2>3 DEF MovesToServer
    <2>7. DatagramsToClient'
      BY <1>2, <1>9, <1>13, <2>1 DEF InStep, DatagramsToClient
    <2>8. Readable(H)'
      BY <1>9, <2>3 DEF Readable
    <2> QED
      BY <1>10, <1>11, <1>12, <2>4, <2>5, <2>6, <2>7, <2>8 DEF InStep
  <1>19. CASE /\ c.forceWaitForTick > 0 /\ tick = -1
              /\ client'.state = c.state /\ client'.deltaTick = -1
              /\ client'.forceWaitForTick = c.forceWaitForTick
    <2>1. Waits /\ Waits' /\ ~Unsent' /\ client'.state = client.state
          /\ client'.forceWaitForTick = client.forceWaitForTick
      BY <1>4, <1>16, <1>19 DEF Kin, Waits, Unsent
    <2>2. Connected'
      BY <1>2, <1>9, <2>1 DEF InStep, Connected
    <2>3. FullUpdate(H)'
      BY <1>2, <1>9, <1>13, <2>1 DEF InStep, FullUpdate
    <2>4. MovesToServer'
      BY <1>2, <1>5, <1>9, <1>13, <1>15, <2>1 DEF InStep, MovesToServer
    <2>5. DatagramsToClient'
      BY <1>2, <1>9, <1>13, <2>1 DEF InStep, DatagramsToClient
    <2>6. Readable(H)'
      BY <1>2, <1>9, <1>13, <2>1 DEF InStep, Readable
    <2> QED
      BY <1>10, <1>11, <1>12, <2>2, <2>3, <2>4, <2>5, <2>6 DEF InStep
  \* the client has the full update
  <1>20. CASE /\ c.forceWaitForTick > 0 /\ tick = c.forceWaitForTick
              /\ client'.state = c.state /\ client'.deltaTick = tick /\ client'.forceWaitForTick = -1
    <2>1. Waits /\ ~Waits' /\ client'.state = client.state /\ tick = client.fullSent
          /\ client'.deltaTick = client.fullSent /\ client.fullSent >= 1
      BY <1>4, <1>14, <1>16, <1>20 DEF Kin, Waits
    <2>2. ~Unsent'
      BY <2>1 DEF Unsent
    <2>3. received = client.fullSent /\ ~Pending
      <3>1. received <= cl.fullReceived /\ cl.fullReceived \in Int /\ received \in Int /\ client.fullSent \in Int
        BY <1>3, <1>5, <1>6, <1>7, <1>8, <1>14
      <3>2. ~(received < client.fullSent)
        <4>1. received < client.fullSent => tick < client.fullSent
          BY <1>3, <1>5, <2>1 DEF InStep, MovesToServer
        <4> QED
          BY <2>1, <3>1, <4>1
      <3> QED
        BY <1>14, <3>1, <3>2
    <2>4. \A j \in DOMAIN toServer' :
            toServer'[j].tick = client.fullSent \/ (toServer'[j].tick = -1 /\ Asks)
      <3>1. /\ \A i \in DOMAIN toServer : toServer[i].received = client.fullSent =>
                 toServer[i].tick = client.fullSent \/ (toServer[i].tick = -1 /\ Asks)
            /\ \A i, j \in DOMAIN toServer : i < j /\ toServer[i].received = client.fullSent =>
                 toServer[j].received = client.fullSent
        BY <2>1 DEF InStep, MovesToServer
      <3>2. \A j \in DOMAIN toServer' : toServer[j + 1].received = client.fullSent
        BY <1>3, <1>5, <2>3, <3>1
      <3> QED
        BY <1>5, <3>1, <3>2
    <2>5. \A i, j \in DOMAIN toServer' : i < j /\ toServer'[i].tick = -1 => toServer'[j].tick = -1
      <3>1. \A i, j \in DOMAIN toServer : i < j /\ toServer[i].received = client.fullSent =>
                 /\ toServer[j].received = client.fullSent
                 /\ toServer[i].tick = -1 => toServer[j].tick = -1
        BY <2>1 DEF InStep, MovesToServer
      <3>2. \A j \in DOMAIN toServer' : toServer[j + 1].received = client.fullSent
        BY <1>3, <1>5, <2>3, <3>1
      <3> QED
        BY <1>5, <3>1, <3>2
    <2>6. Connected'
      BY <1>2, <1>9, <2>1 DEF InStep, Connected
    <2>7. FullUpdate(H)'
      BY <1>2, <1>9, <1>13, <1>14, <2>1, <2>2, <2>3 DEF FullUpdate
    <2>8. MovesToServer'
      <3>1. client.fullSent \in Int
        BY <1>6, <1>7
      <3>2. \A i, j \in DOMAIN toServer' : i < j =>
              (toServer'[j].tick # -1 => toServer'[i].tick <= toServer'[j].tick)
        BY <2>1, <2>4, <3>1
      <3>3. \A i \in DOMAIN toServer' : (toServer'[i].tick = -1 /\ Asks) \/ toServer'[i].tick >= client.fullSent
        BY <2>4, <3>1
      <3> QED
        BY <1>2, <1>9, <1>15, <2>1, <2>2, <2>5, <3>2, <3>3 DEF MovesToServer
    <2>9. DatagramsToClient'
      BY <1>2, <1>9, <1>13, <2>1 DEF InStep, DatagramsToClient
    <2>10. Readable(H)'
      <3> SUFFICES ASSUME ~Asks PROVE Readable(H)'
        BY <1>9 DEF Readable
      <3>1. cl.deltaTick \in Ticks /\ (\A u \in Ticks : u <= cl.deltaTick) /\ cl.deltaTick = client.fullSent
        BY <2>1, <2>3 DEF InStep, Readable
      <3>2. \A i \in DOMAIN toClient : ~Carries(i)
        BY <2>1, <2>3 DEF InStep, DatagramsToClient
      <3>3. \A i \in DOMAIN toServer' : toServer'[i].tick \in Ticks
        BY <2>4, <3>1
      <3> QED
        BY <1>2, <1>9, <2>1, <3>1, <3>2, <3>3 DEF Readable
    <2> QED
      BY <1>10, <1>11, <1>12, <2>6, <2>7, <2>8, <2>9, <2>10 DEF InStep
  <1>21. CASE ~(c.forceWaitForTick > 0) /\ c.deltaTick # -1
    <2>1. ~Waits /\ ~Unsent /\ client.deltaTick # -1 /\ client.deltaTick >= 1 /\ client.deltaTick \in Int
      BY <1>4, <1>6, <1>16, <1>21 DEF Kin, Unsent, TicksTo
    <2>2. /\ \A i \in DOMAIN toServer : \/ toServer[i].tick = -1 /\ Asks
                                        \/ toServer[i].tick >= client.deltaTick
          /\ \A i, j \in DOMAIN toServer : i < j =>
               /\ toServer[i].tick = -1 => toServer[j].tick = -1
               /\ toServer[j].tick # -1 => toServer[i].tick <= toServer[j].tick
      BY <2>1 DEF InStep, MovesToServer
    <2>3. ~(tick \notin {-1, NoTick} /\ tick < c.deltaTick)
      <3>1. (tick = -1 /\ Asks) \/ tick >= client.deltaTick
        BY <1>3, <1>5, <2>2
      <3>2. tick \in Int /\ c.deltaTick = client.deltaTick
        BY <1>4, <1>7, <1>8 DEF Kin
      <3> QED
        BY <2>1, <3>1, <3>2
    <2>4. ~Pending /\ cl.fullReceived = client.fullSent /\ client.fullSent >= 1
      BY <1>14, <2>1
    \* the client asks for a full update
    <2>5. CASE /\ tick = -1 /\ client'.state = c.state /\ client'.deltaTick = -1
               /\ client'.forceWaitForTick = c.forceWaitForTick
      <3>1. ~Waits' /\ Unsent' /\ client'.state = client.state
        BY <1>4, <2>1, <2>5 DEF Kin, Waits, Unsent
      <3>2. Asks /\ \A j \in DOMAIN toServer' : toServer'[j].tick = -1
        <4>1. Asks
          <5>1. (tick = -1 /\ Asks) \/ tick >= client.deltaTick
            BY <1>3, <1>5, <2>2
          <5> QED
            BY <2>1, <2>5, <5>1
        <4>2. \A j \in DOMAIN toServer : 1 < j => toServer[j].tick = -1
          BY <1>3, <1>5, <2>2, <2>5
        <4> QED
          BY <1>5, <4>1, <4>2
      <3>3. Connected'
        BY <1>2, <1>9, <3>1 DEF InStep, Connected
      <3>4. FullUpdate(H)'
        BY <1>2, <1>9, <1>13, <2>4, <2>5, <3>1, <3>2 DEF FullUpdate
      <3>5. MovesToServer'
        BY <1>2, <1>15, <3>1, <3>2 DEF MovesToServer
      <3>6. DatagramsToClient'
        BY <1>2, <1>9, <1>13, <3>1 DEF InStep, DatagramsToClient
      <3>7. Readable(H)'
        BY <1>9, <3>2 DEF Readable
      <3> QED
        BY <1>10, <1>11, <1>12, <3>3, <3>4, <3>5, <3>6, <3>7 DEF InStep
    \* the client has a later snapshot
    <2>6. CASE /\ tick >= c.deltaTick /\ client'.state = c.state /\ client'.deltaTick = tick
               /\ client'.forceWaitForTick = c.forceWaitForTick
      <3>1. ~Waits' /\ client'.state = client.state /\ client'.deltaTick = tick
            /\ tick >= client.deltaTick /\ tick \in Int
        BY <1>4, <1>7, <1>8, <2>1, <2>6 DEF Kin, Waits
      <3>2. ~Unsent' /\ tick # -1 /\ tick >= 1
        BY <2>1, <3>1 DEF Unsent
      <3>3. Connected'
        BY <1>2, <1>9, <3>1 DEF InStep, Connected
      <3>4. FullUpdate(H)'
        BY <1>2, <1>9, <1>13, <2>4, <3>1, <3>2 DEF FullUpdate
      <3>5. MovesToServer'
        <4>1. \A i \in DOMAIN toServer : toServer[i].tick \in Int
          BY <1>6, <1>7
        <4>2. \A i \in DOMAIN toServer' : (toServer'[i].tick = -1 /\ Asks) \/ toServer'[i].tick >= tick
          <5>1. ASSUME NEW j \in DOMAIN toServer, 1 < j
                PROVE  (toServer[j].tick = -1 /\ Asks) \/ toServer[j].tick >= tick
            <6>1. CASE toServer[j].tick = -1
              BY <2>1, <2>2, <6>1
            <6>2. CASE toServer[j].tick # -1
              <7>1. tick <= toServer[j].tick
                BY <1>3, <1>5, <2>2, <5>1, <6>2
              <7>2. toServer[j].tick \in Int
                BY <4>1
              <7> QED
                BY <3>1, <7>1, <7>2
            <6> QED
              BY <6>1, <6>2
          <5> QED
            BY <1>5, <5>1
        <4>3. \A i, j \in DOMAIN toServer' : i < j =>
               /\ toServer'[i].tick = -1 => toServer'[j].tick = -1
               /\ toServer'[j].tick # -1 => toServer'[i].tick <= toServer'[j].tick
          BY <1>5, <2>2
        <4> QED
          BY <1>2, <1>9, <1>15, <3>1, <3>2, <4>2, <4>3 DEF MovesToServer
      <3>6. DatagramsToClient'
        BY <1>2, <1>9, <1>13, <3>1 DEF InStep, DatagramsToClient
      <3>7. Readable(H)'
        <4> SUFFICES ASSUME ~Asks PROVE Readable(H)'
          BY <1>9 DEF Readable
        <4>1. \A i \in DOMAIN toServer : toServer[i].tick \in Ticks
          BY <2>1 DEF InStep, Readable
        <4>2. \A i \in DOMAIN toClient : Carries(i) => toClient[i].msg.deltaFrom <= client.deltaTick
          BY <2>1 DEF InStep, Readable
        <4>3. \A i \in DOMAIN toClient : Carries(i) => toClient[i].msg.deltaFrom \in Int
          <5>1. \A i \in DOMAIN toClient : Carries(i) => toClient[i].msg.deltaFrom \in TicksTo(t)
            BY <1>1, UnderWay
          <5> QED
            BY <1>7, <5>1
        <4>4. \A i \in DOMAIN toClient : Carries(i) => toClient[i].msg.deltaFrom <= tick
          BY <2>1, <3>1, <4>2, <4>3
        <4>5. tick \in Ticks /\ \A i \in DOMAIN toServer' : toServer'[i].tick \in Ticks
          BY <1>3, <1>5, <4>1
        <4> QED
          BY <1>2, <1>9, <3>1, <4>4, <4>5 DEF InStep, Readable
      <3> QED
        BY <1>10, <1>11, <1>12, <3>3, <3>4, <3>5, <3>6, <3>7 DEF InStep
    <2> QED
      BY <1>4, <1>17, <1>21, <2>3, <2>5, <2>6 DEF Served
  <1> QED
    BY <1>4, <1>17, <1>18, <1>19, <1>20, <1>21 DEF Served

-----------------------------------------------------------------------------
(* The client reads a packet.                                              *)

\* A datagram brings the full update under way, a delta, or nothing to read.
ReadsFull ==
  /\ fullUpdates # <<>> /\ fullUpdates[1].tick <= toClient[1].upto /\ fullUpdates' = <<>>
  /\ cl' = [ProcessPacketEntities(cl, fullUpdates[1]) EXCEPT !.fullReceived = fullUpdates[1].tick]
  /\ acks' = acks \o BaselineAcks(cl, fullUpdates[1])
ReadsDelta ==
  /\ toClient[1].msg # NoMsg /\ UNCHANGED fullUpdates
  /\ cl' = ProcessPacketEntities(cl, toClient[1].msg)
  /\ acks' = acks \o BaselineAcks(cl, toClient[1].msg)
ReadsNothing == UNCHANGED <<cl, acks, fullUpdates>>

LEMMA PacketReads ==
  ASSUME Typed, FewFrames, PacketToClient, NEW H, InStep(H)
  PROVE  /\ toClient # <<>> /\ toClient' = Tail(toClient)
         /\ UNCHANGED <<world, client, toServer>>
         /\ ReadsFull \/ ReadsDelta \/ ReadsNothing
  <1>1. PICK t : t = m_nTickCount
    OBVIOUS
  <1>2. t \in 0 .. MaxTick /\ UNCHANGED <<world, client, toServer, requests>>
        /\ toClient # <<>> /\ toClient' = Tail(toClient)
    BY <1>1 DEF Typed, WorldTyped, PacketToClient
  <1>3. PICK packet : packet = Head(toClient)
    OBVIOUS
  <1>4. packet = toClient[1]
    BY <1>2, <1>3 DEF Typed
  <1>5. PICK M : M = Messages(t)
    OBVIOUS
  <1>6. fullUpdates \in Seq(M)
    BY <1>1, <1>5 DEF Typed
  <1>7. PICK n \in 0 .. Carried(fullUpdates, packet.upto) :
          LET full == FoldLeft(ReadingFull, [cl |-> cl, acks |-> acks], SubSeq(fullUpdates, 1, n))
              end == IF packet.msg = NoMsg THEN full ELSE Reading(full, packet.msg)
          IN /\ cl' = end.cl /\ acks' = end.acks
             /\ fullUpdates' = SubSeq(fullUpdates, n + 1, Len(fullUpdates))
    BY <1>3 DEF PacketToClient
  <1>8. n \in 0 .. Len(fullUpdates) /\ n \in Nat
    <2>1. Carried(fullUpdates, packet.upto) \in 0 .. Len(fullUpdates)
      BY <1>6, CarriedIs
    <2> QED
      BY <1>6, <2>1
  <1>9. PICK seq : seq = SubSeq(fullUpdates, 1, n)
    OBVIOUS
  <1>10. /\ DOMAIN seq = 1 .. n /\ \A i \in 1 .. n : seq[i] \in M /\ seq[i] = fullUpdates[i]
    BY <1>6, <1>8, <1>9, FirstOf
  <1>11. PICK base : base = [cl |-> cl, acks |-> acks]
    OBVIOUS
  <1>12. base \in Ends(t)
    BY <1>1, <1>11 DEF Ends, Typed
  <1>13. PICK full : full = FoldLeft(ReadingFull, base, seq)
    OBVIOUS
  <1>14. PICK r : FullRuns(Ends(t), n, base, seq, r) /\ full = r[n]
    <2>1. PICK V : V = Ends(t)
      OBVIOUS
    <2>2. \A v \in V, k \in 1 .. n : ReadingFull(v, seq[k]) \in V
      BY <1>2, <1>5, <1>10, <2>1, ReadingIs
    <2>3. base \in V /\ DOMAIN seq = 1 .. n
      BY <1>10, <1>12, <2>1
    <2>4. PICK r : FullRuns(V, n, base, seq, r) /\ FoldLeft(ReadingFull, base, seq) = r[n]
      BY <1>8, <2>2, <2>3, FullRun
    <2> QED
      BY <1>13, <2>1, <2>4
  <1>15. Len(fullUpdates) \in {0, 1} /\ (Len(fullUpdates) = 0 <=> fullUpdates = <<>>)
    BY <1>6 DEF InStep, FullUpdate, Pending
  <1>16. PICK end : end = (IF packet.msg = NoMsg THEN full ELSE Reading(full, packet.msg))
    OBVIOUS
  <1>17. cl' = end.cl /\ acks' = end.acks
    BY <1>7, <1>9, <1>11, <1>13, <1>16
  <1>18. CASE n = 0
    <2>1. full = base
      BY <1>14, <1>18 DEF FullRuns
    <2>2. fullUpdates' = fullUpdates
      BY <1>6, <1>7, <1>18
    <2>3. CASE packet.msg = NoMsg
      <3>1. cl' = cl /\ acks' = acks
        BY <1>11, <1>16, <1>17, <2>1, <2>3
      <3> QED
        BY <1>2, <2>2, <3>1 DEF ReadsNothing
    <2>4. CASE packet.msg # NoMsg
      <3>1. end = Reading(base, packet.msg) /\ base.cl = cl /\ base.acks = acks
        BY <1>11, <1>16, <2>1, <2>4
      <3>2. cl' = ProcessPacketEntities(cl, packet.msg) /\ acks' = acks \o BaselineAcks(cl, packet.msg)
        BY <1>17, <3>1 DEF Reading
      <3> QED
        BY <1>2, <1>4, <2>2, <2>4, <3>2 DEF ReadsDelta
    <2> QED
      BY <2>3, <2>4
  <1>19. CASE n # 0
    <2>1. n = 1 /\ Len(fullUpdates) = 1 /\ Pending
      <3>1. Len(fullUpdates) = 1
        BY <1>8, <1>15, <1>19
      <3> QED
        BY <1>8, <1>15, <1>19, <3>1 DEF Pending
    <2>2. fullUpdates' = <<>>
      <3>1. fullUpdates' = SubSeq(fullUpdates, 2, 1)
        BY <1>7, <2>1
      <3> QED
        BY <1>6, <3>1
    <2>3. fullUpdates[1].tick <= packet.upto
      <3>1. SUFFICES ASSUME ~(fullUpdates[1].tick <= packet.upto) PROVE FALSE
        OBVIOUS
      <3>2. DOMAIN fullUpdates = {1}
        BY <1>6, <2>1
      <3>3. {i \in DOMAIN fullUpdates : fullUpdates[i].tick <= packet.upto} = {}
        BY <3>1, <3>2
      <3>4. Carried(fullUpdates, packet.upto) = 0
        BY <3>3, FS_EmptySet DEF Carried
      <3> QED
        BY <1>7, <2>1, <3>4
    <2>4. full = ReadingFull(base, fullUpdates[1])
      <3>1. r[1] = ReadingFull(r[0], seq[1]) /\ r[0] = base
        BY <1>14, <2>1 DEF FullRuns
      <3> QED
        BY <1>10, <1>14, <2>1, <3>1
    <2>5. /\ full.cl = [ProcessPacketEntities(cl, fullUpdates[1]) EXCEPT !.fullReceived = fullUpdates[1].tick]
          /\ full.acks = acks \o BaselineAcks(cl, fullUpdates[1])
      <3>1. base.cl = cl /\ base.acks = acks
        BY <1>11
      <3>2. PICK e : e = Reading(base, fullUpdates[1])
        OBVIOUS
      <3>3. e = [cl |-> ProcessPacketEntities(cl, fullUpdates[1]),
                 acks |-> acks \o BaselineAcks(cl, fullUpdates[1])]
        BY <3>1, <3>2 DEF Reading
      <3>4. full = [e EXCEPT !.cl.fullReceived = fullUpdates[1].tick]
        BY <2>4, <3>2 DEF ReadingFull
      <3>5. full.cl = [e.cl EXCEPT !.fullReceived = fullUpdates[1].tick] /\ full.acks = e.acks
        BY <3>3, <3>4
      <3> QED
        BY <3>3, <3>5
    \* the datagram of the full update has no snapshot of its own
    <2>6. packet.msg = NoMsg
      <3>1. SUFFICES ASSUME packet.msg # NoMsg PROVE FALSE
        OBVIOUS
      <3>2. 1 \in DOMAIN toClient /\ Carries(1)
        BY <1>2, <1>4, <3>1 DEF Typed, Carries
      <3>3. Waits /\ fullUpdates[1].tick = client.fullSent
        BY <2>1 DEF InStep, FullUpdate
      <3>4. packet.upto < client.fullSent
        BY <1>4, <3>2, <3>3 DEF InStep, DatagramsToClient
      <3>5. packet.upto \in Int /\ client.fullSent \in Int
        <4>1. packet.upto \in TicksTo(t) /\ client.fullSent \in TicksTo(t)
          BY <1>1, <1>4, <3>2, UnderWay
        <4> QED
          BY <1>2, <4>1 DEF TicksTo
      <3> QED
        BY <2>3, <3>3, <3>4, <3>5
    <2>7. cl' = full.cl /\ acks' = full.acks
      BY <1>16, <1>17, <2>6
    <2> QED
      BY <1>2, <1>4, <2>1, <2>2, <2>3, <2>5, <2>7 DEF ReadsFull, Pending
  <1> QED
    BY <1>18, <1>19

\* What the client then has of the snapshot the message was made of.
Shows(H, new, m, kept) ==
  /\ new.state = "full" /\ new.deltaTick = m.tick
  /\ \E f : f.tick = m.tick /\ f.view = H[m.tick].view /\ new.frames = kept \cup {f}

LEMMA FullRead ==
  ASSUME NEW t \in 0 .. MaxTick, NEW c \in ClientRecords(t), NEW m \in Messages(t), NEW H,
         History(H, t), IsFull(H, m), NEW new, new = ProcessPacketEntities(c, m)
  PROVE  /\ Shows(H, new, m, {}) /\ new \in ClientRecords(t)
         /\ \A s \in H[m.tick].view :
              /\ Alike(new.entities[s], H[m.tick].ents[s])
              /\ new.entities[s].class = H[m.tick].ents[s].class
  <1>1. PICK to : to = H[m.tick]
    OBVIOUS
  <1>2. to \in Frame /\ \A s \in to.view : s \in Slots /\ to.ents[s] # NoEntity
    <2>1. m.tick \in 1 .. t
      BY DEF Messages
    <2>2. to \in Frame /\ \A s \in to.view : to.ents[s] # NoEntity
      BY <1>1, <2>1 DEF History
    <2> QED
      BY <2>2 DEF Frame
  <1>3. ~m.isDelta /\ m.deltaFrom = -1 /\ m.deletions = {}
    BY DEF IsFull
  <1>4. ASSUME NEW s \in Slots
        PROVE  /\ s \in to.view => /\ m.updates[s].type = "enter" /\ m.updates[s].serial = to.ents[s].serial
                                   /\ m.updates[s].class = to.ents[s].class
               /\ s \notin to.view => m.updates[s].type = "none"
    <2>1. Tells(m, s, NoFrame, to)
      BY <1>1 DEF IsFull
    <2>2. NoFrame.view = {}
      BY DEF NoFrame
    <2>3. s \in Entering(NoFrame, to) <=> s \in to.view
      BY <2>2 DEF Entering
    <2> QED
      BY <2>1, <2>2, <2>3 DEF Tells
  <1>5. Accepted(c, m, new)
    BY <1>3, ReadCases DEF Ignores, Refused
  <1>6. OldView(c, m) = {} /\ KeptFrames(c, m) = {}
    BY <1>3 DEF OldView, KeptFrames, DeleteClientFrames
  <1>7. ViewAfter(m, {}) = to.view
    BY <1>2, <1>4 DEF ViewAfter
  <1>8. PICK f : f = [tick |-> m.tick, view |-> to.view]
    OBVIOUS
  <1>9. /\ new.state = "full" /\ new.deltaTick = m.tick /\ new.frames = {} \cup {f}
        /\ new.entities = ReadPacketEntities(c, m)
    <2>1. PICK frames, entities, baselines :
            /\ frames = KeptFrames(c, m) \cup {[tick |-> m.tick, view |-> ViewAfter(m, OldView(c, m))]}
            /\ entities = ReadPacketEntities(c, m)
            /\ new = [c EXCEPT !.state = "full", !.deltaTick = m.tick, !.frames = frames,
                              !.entities = entities, !.baselines = baselines]
      BY <1>5 DEF Accepted
    <2>2. frames = {} \cup {f}
      BY <1>6, <1>7, <1>8, <2>1
    <2> QED
      BY <2>1, <2>2 DEF ClientRecords
  <1>10. new \in ClientRecords(t)
    BY ReadIs
  <1>11. ASSUME NEW s \in to.view
         PROVE  Alike(new.entities[s], to.ents[s]) /\ new.entities[s].class = to.ents[s].class
    <2>1. PICK v : v = ReadPacketEntities(c, m)[s]
      OBVIOUS
    <2>2. v = CL_CopyNewEntity(c, m, s) /\ m.updates[s].type = "enter"
      BY <1>2, <1>3, <1>4, <1>11, <2>1, SlotRead
    <2>3. v \in Shown /\ v # NoEntity
      BY <1>2, <2>2, CopyIs, SnapshotsAssumption
    <2>4. v.serial = to.ents[s].serial /\ v.class = to.ents[s].class
      BY <1>2, <1>4, <1>11, <2>2 DEF CL_CopyNewEntity
    <2> QED
      BY <1>2, <1>9, <1>11, <2>1, <2>3, <2>4 DEF Alike
  <1> QED
    BY <1>1, <1>8, <1>9, <1>10, <1>11 DEF Shows

\* An entity that a delta changes or leaves alone is the same in both snapshots.
LEMMA KeptAre ==
  ASSUME NEW m, NEW s, NEW from, NEW to, Tells(m, s, from, to),
         m.updates[s].type = "delta" \/ (m.updates[s].type = "none" /\ s \in from.view),
         \A x \in to.view : to.ents[x] # NoEntity
  PROVE  s \in from.view /\ s \in to.view /\ Alike(from.ents[s], to.ents[s])
  <1>1. \A d : LeavePVS(d).type = "leave"
    BY DEF LeavePVS
  <1>2. s \notin Entering(from, to)
    BY DEF Tells
  <1>3. s \notin from.view \ to.view
    BY <1>1 DEF Tells
  <1>4. s \in from.view
    BY <1>2, <1>3 DEF Tells, Entering
  <1> QED
    BY <1>2, <1>3, <1>4 DEF Entering, SV_NeedsExplicitCreate, Alike

\* What the client must have to read the delta m.
Knows(H, c, m) ==
  /\ c.deltaTick \in m.deltaFrom .. m.tick - 1
  /\ m.deltaFrom \in {f.tick : f \in c.frames}
  /\ \A f \in c.frames : f.view = H[f.tick].view /\ f.tick <= c.deltaTick
  /\ \A s \in Slots, f \in c.frames :
       s \in H[f.tick].view /\ Alike(H[f.tick].ents[s], H[c.deltaTick].ents[s]) =>
         /\ Alike(c.entities[s], H[c.deltaTick].ents[s])
         /\ c.entities[s].class = H[c.deltaTick].ents[s].class

\* What it then has: the frames a delta may still start from, and the entities of
\* all its frames that still live.
ShowsDelta(H, c, m, new) ==
  /\ Shows(H, new, m, {f \in c.frames : m.deltaFrom <= f.tick})
  /\ new.fullReceived = c.fullReceived
  /\ \A s \in Slots, a \in {m.tick} \cup {f.tick : f \in c.frames} :
       s \in H[a].view /\ Alike(H[a].ents[s], H[m.tick].ents[s]) =>
         /\ Alike(new.entities[s], H[m.tick].ents[s])
         /\ new.entities[s].class = H[m.tick].ents[s].class

LEMMA DeltaRead ==
  ASSUME NEW t \in 0 .. MaxTick, NEW c \in ClientRecords(t), NEW m \in Messages(t), NEW H,
         History(H, t), IsDelta(H, m), Knows(H, c, m), NEW new, new = ProcessPacketEntities(c, m)
  PROVE  ShowsDelta(H, c, m, new) /\ new \in ClientRecords(t)
  <1>1. PICK b, d, g : b = m.tick /\ d = m.deltaFrom /\ g = c.deltaTick
    OBVIOUS
  <1>2. /\ b \in 1 .. t /\ d \in 1 .. b - 1 /\ g \in d .. b - 1 /\ t \in Nat
        /\ b \in Nat /\ d \in Nat /\ g \in Nat /\ d \in 1 .. t /\ g \in 1 .. t
        /\ d <= g /\ g < b /\ g \in d .. b
    <2>1. b \in 1 .. t /\ t \in Nat
      BY <1>1, SnapshotsAssumption DEF Messages
    <2>2. d \in 1 .. b - 1 /\ g \in d .. b - 1
      BY <1>1 DEF IsDelta, Knows
    <2> QED
      BY <2>1, <2>2
  <1>3. PICK from, to : from = H[d] /\ to = H[b]
    OBVIOUS
  <1>4. /\ \A s \in to.view : s \in Slots /\ to.ents[s] # NoEntity
        /\ \A s \in from.view : s \in Slots /\ from.ents[s] # NoEntity
    <2>1. H[b] \in Frame /\ H[d] \in Frame
      BY <1>2 DEF History
    <2> QED
      BY <1>2, <1>3, <2>1 DEF History, Frame
  <1>5. \A s \in Slots : Tells(m, s, from, to)
    BY <1>1, <1>3 DEF IsDelta
  <1>6. m.isDelta /\ ~Ignores(c, m) /\ d # b
    BY <1>1, <1>2 DEF IsDelta, Ignores
  <1>7. PICK old : old = GetClientFrame(c.frames, d)
    OBVIOUS
  <1>8. HasFrame(c.frames, d) /\ old \in c.frames /\ old.tick = d /\ old.view = from.view
    <2>1. \E f \in c.frames : f.tick = d
      BY <1>1 DEF Knows
    <2>2. old \in c.frames /\ old.tick = d
      BY <1>7, <2>1 DEF GetClientFrame
    <2> QED
      BY <1>3, <2>1, <2>2 DEF HasFrame, Knows
  <1>9. OldView(c, m) = from.view
    BY <1>1, <1>6, <1>7, <1>8 DEF OldView
  \* of the same entity in the two snapshots the client has it
  <1>10. ASSUME NEW s \in Slots, NEW f \in c.frames, s \in H[f.tick].view,
                Alike(H[f.tick].ents[s], to.ents[s])
         PROVE  /\ Alike(c.entities[s], to.ents[s]) /\ c.entities[s].class = to.ents[s].class
    <2>1. f.tick \in 1 .. t /\ f.tick <= g
      BY <1>1 DEF ClientRecords, ClientFrames, Knows
    <2>2. f.tick <= b /\ g \in f.tick .. b
      BY <1>2, <2>1
    <2>3. /\ \A u \in f.tick .. b : Alike(H[u].ents[s], H[f.tick].ents[s])
          /\ H[f.tick].ents[s].class = H[b].ents[s].class
      BY <1>2, <1>3, <1>10, <2>1, <2>2 DEF History
    <2>4. Alike(H[f.tick].ents[s], H[g].ents[s])
      BY <2>2, <2>3 DEF Alike
    <2>5. H[f.tick].ents[s].class = H[g].ents[s].class
      BY <1>2, <2>1, <2>4 DEF History
    <2>6. Alike(c.entities[s], H[g].ents[s]) /\ c.entities[s].class = H[g].ents[s].class
      BY <1>1, <1>10, <2>4 DEF Knows
    <2> QED
      BY <1>3, <1>10, <2>3, <2>4, <2>5, <2>6 DEF Alike
  <1>11. ASSUME NEW s \in Slots,
                m.updates[s].type = "delta" \/ (m.updates[s].type = "none" /\ s \in from.view)
         PROVE  s \in from.view /\ s \in to.view /\ Alike(c.entities[s], to.ents[s])
                /\ c.entities[s].class = to.ents[s].class
    <2>1. s \in from.view /\ s \in to.view /\ Alike(from.ents[s], to.ents[s])
      BY <1>4, <1>5, <1>11, KeptAre
    <2>2. s \in H[old.tick].view /\ Alike(H[old.tick].ents[s], to.ents[s])
      BY <1>3, <1>8, <2>1
    <2> QED
      BY <1>8, <1>10, <2>1, <2>2
  <1>12. ~Missing(c, m, from.view)
    BY <1>11 DEF Missing, Alike
  <1>13. Accepted(c, m, new)
    <2>1. ~Refused(c, m, new)
      BY <1>1, <1>6, <1>8, <1>9, <1>12 DEF Refused
    <2> QED
      BY <1>6, <2>1, ReadCases
  <1>14. ViewAfter(m, from.view) = to.view
    <2>1. ASSUME NEW s \in to.view
          PROVE  m.updates[s].type \in {"enter", "delta"} \/ (m.updates[s].type = "none" /\ s \in from.view)
      <3>1. Tells(m, s, from, to)
        BY <1>4, <1>5, <2>1
      <3>2. CASE s \in Entering(from, to)
        BY <3>1, <3>2 DEF Tells
      <3>3. CASE s \notin Entering(from, to)
        BY <2>1, <3>1, <3>3 DEF Tells, Entering
      <3> QED
        BY <3>2, <3>3
    <2>2. ASSUME NEW s \in Slots, s \notin to.view
          PROVE  ~(m.updates[s].type \in {"enter", "delta"} \/ (m.updates[s].type = "none" /\ s \in from.view))
      <3>1. Tells(m, s, from, to)
        BY <1>5
      <3>2. CASE s \in from.view
        <4>1. m.updates[s] = LeavePVS(SV_NeedsExplicitDestroy(s, from, to))
          BY <2>2, <3>1, <3>2 DEF Tells
        <4> QED
          BY <4>1 DEF LeavePVS
      <3>3. CASE s \notin from.view
        <4>1. m.updates[s].type = "none"
          BY <2>2, <3>1, <3>3 DEF Tells
        <4> QED
          BY <3>3, <4>1
      <3> QED
        BY <3>2, <3>3
    <2> QED
      BY <1>4, <2>1, <2>2 DEF ViewAfter
  <1>15. KeptFrames(c, m) = {f \in c.frames : d <= f.tick}
    BY <1>1, <1>2 DEF KeptFrames, DeleteClientFrames
  <1>16. PICK f : f = [tick |-> b, view |-> to.view]
    OBVIOUS
  <1>17. PICK entities : entities = ReadPacketEntities(c, m)
    OBVIOUS
  <1>18. /\ new.state = "full" /\ new.deltaTick = b /\ new.entities = entities
         /\ new.frames = {x \in c.frames : d <= x.tick} \cup {f} /\ new.fullReceived = c.fullReceived
    <2>1. PICK frames, baselines :
            /\ frames = KeptFrames(c, m) \cup {[tick |-> m.tick, view |-> ViewAfter(m, OldView(c, m))]}
            /\ new = [c EXCEPT !.state = "full", !.deltaTick = m.tick, !.frames = frames,
                              !.entities = entities, !.baselines = baselines]
      BY <1>13, <1>17 DEF Accepted
    <2>2. frames = {x \in c.frames : d <= x.tick} \cup {f}
      BY <1>1, <1>9, <1>14, <1>15, <1>16, <2>1
    <2> QED
      BY <1>1, <2>1, <2>2 DEF ClientRecords
  <1>19. new \in ClientRecords(t)
    BY ReadIs
  <1>20. ASSUME NEW s \in Slots, NEW a \in {b} \cup {x.tick : x \in c.frames},
                s \in H[a].view, Alike(H[a].ents[s], to.ents[s])
         PROVE  Alike(entities[s], to.ents[s]) /\ entities[s].class = to.ents[s].class
    <2>1. Tells(m, s, from, to)
      BY <1>5
    <2>2. PICK v : v = entities[s]
      OBVIOUS
    <2>3. s \notin m.deletions
      <3>1. SUFFICES ASSUME s \in m.deletions PROVE FALSE
        OBVIOUS
      <3>2. s \notin to.view /\ \A x \in 1 .. b - 1 : ~Alike(H[x].ents[s], to.ents[s])
        BY <1>1, <1>3, <3>1 DEF IsDelta
      <3>3. a # b
        BY <1>3, <1>20, <3>2
      <3>4. PICK x \in c.frames : a = x.tick
        BY <1>20, <3>3
      <3>5. a \in 1 .. t /\ a <= g
        BY <1>1, <3>4 DEF ClientRecords, ClientFrames, Knows
      <3>6. a \in 1 .. b - 1
        BY <1>2, <3>5
      <3> QED
        BY <1>20, <3>2, <3>6
    <2>4. /\ m.updates[s].type = "enter" => v = CL_CopyNewEntity(c, m, s)
          /\ m.updates[s].type = "delta" => v = [c.entities[s] EXCEPT !.value = m.updates[s].value]
          /\ m.updates[s].type = "leave" /\ ~m.updates[s].delete => v = c.entities[s]
          /\ m.updates[s].type = "none" => v = c.entities[s]
      BY <1>6, <1>17, <2>2, <2>3, SlotRead
    <2>5. m.updates[s] \in Updates
      BY DEF Messages
    <2>6. CASE m.updates[s].type = "enter"
      <3>1. v = CL_CopyNewEntity(c, m, s) /\ v \in Shown
        BY <2>4, <2>6, CopyIs
      <3>2. s \in Entering(from, to)
        <4>1. ASSUME s \notin Entering(from, to) PROVE FALSE
          <5>1. CASE s \in from.view \ to.view
            BY <2>1, <2>6, <5>1 DEF Tells, LeavePVS
          <5>2. CASE s \in from.view /\ s \in to.view
            BY <2>1, <2>6, <4>1, <5>2 DEF Tells
          <5>3. CASE s \notin from.view
            BY <2>1, <2>6, <4>1, <5>3 DEF Tells, Entering
          <5> QED
            BY <5>1, <5>2, <5>3
        <4> QED
          BY <4>1
      <3>3. v.serial = to.ents[s].serial /\ v.class = to.ents[s].class
        BY <2>1, <3>1, <3>2 DEF Tells, CL_CopyNewEntity
      <3> QED
        BY <1>20, <2>2, <3>1, <3>3, SnapshotsAssumption DEF Alike
    <2>7. ASSUME m.updates[s].type # "enter"
          PROVE  Alike(c.entities[s], to.ents[s]) /\ c.entities[s].class = to.ents[s].class
      <3>1. CASE a = b
        <4>1. s \in to.view /\ s \notin Entering(from, to)
          BY <1>3, <1>20, <2>1, <2>7, <3>1 DEF Tells
        <4>2. s \in from.view /\ m.updates[s].type \in {"delta", "none"}
          BY <2>1, <4>1 DEF Tells, Entering
        <4> QED
          BY <1>11, <4>2
      <3>2. CASE a # b
        <4>1. PICK x \in c.frames : a = x.tick
          BY <1>20, <3>2
        <4> QED
          BY <1>10, <1>20, <4>1
      <3> QED
        BY <3>1, <3>2
    <2>8. CASE m.updates[s].type = "leave"
      <3>1. s \in from.view \ to.view
        <4>1. s \notin Entering(from, to)
          BY <2>1, <2>8 DEF Tells
        <4>2. CASE s \in from.view /\ s \in to.view
          BY <2>1, <2>8, <4>1, <4>2 DEF Tells
        <4>3. CASE s \notin from.view
          <5>1. s \notin to.view
            BY <4>1, <4>3 DEF Entering
          <5> QED
            BY <2>1, <2>8, <4>3, <5>1 DEF Tells
        <4> QED
          BY <4>2, <4>3
      <3>2. ~m.updates[s].delete
        <4>1. m.updates[s] = LeavePVS(SV_NeedsExplicitDestroy(s, from, to))
          BY <2>1, <3>1 DEF Tells
        <4>2. ~SV_NeedsExplicitDestroy(s, from, to)
          BY <1>20 DEF SV_NeedsExplicitDestroy, Alike
        <4> QED
          BY <4>1, <4>2 DEF LeavePVS
      <3> QED
        BY <2>2, <2>4, <2>7, <2>8, <3>2
    <2>9. CASE m.updates[s].type = "none"
      BY <2>2, <2>4, <2>7, <2>9
    <2>10. CASE m.updates[s].type = "delta"
      <3>1. c.entities[s] \in Shown /\ m.updates[s].value \in Values
        <4>1. c.entities[s] \in Shown \cup {NoEntity} /\ c.entities[s] # NoEntity
          BY <2>7, <2>10 DEF ClientRecords, Alike
        <4> QED
          BY <2>5, <2>10, <4>1 DEF Updates, Enters, Leaves, Deltas, NoUpdate
      <3>2. v \in Shown /\ v.serial = c.entities[s].serial /\ v.class = c.entities[s].class
        BY <2>4, <2>10, <3>1 DEF Shown
      <3> QED
        BY <2>2, <2>7, <2>10, <3>2, SnapshotsAssumption DEF Alike
    <2>11. m.updates[s].type \in {"enter", "leave", "delta", "none"}
      BY <2>5 DEF Updates, Enters, Leaves, Deltas, NoUpdate
    <2> QED
      BY <2>6, <2>8, <2>9, <2>10, <2>11
  <1>21. Shows(H, new, m, {x \in c.frames : m.deltaFrom <= x.tick})
    BY <1>1, <1>3, <1>16, <1>18 DEF Shows
  <1>22. ShowsDelta(H, c, m, new)
    BY <1>1, <1>3, <1>18, <1>20, <1>21 DEF ShowsDelta
  <1> QED
    BY <1>19, <1>22

LEMMA FullInStep ==
  ASSUME Typed, NEW H, InStep(H), toClient # <<>>, toClient' = Tail(toClient),
         UNCHANGED <<world, client, toServer>>, ReadsFull
  PROVE  InStep(H)'
  <1>1. PICK t, m, F : t = m_nTickCount /\ m = fullUpdates[1] /\ F = client.fullSent
    OBVIOUS
  <1>2. Pending /\ fullUpdates' = <<>> /\ ~Pending' /\ F <= toClient[1].upto
    <2>1. Pending
      BY DEF ReadsFull, Pending
    <2> QED
      BY <1>1, <2>1 DEF ReadsFull, Pending, InStep, FullUpdate
  <1>3. /\ Waits /\ cl.fullReceived < F /\ m.tick = F /\ IsFull(H, m) /\ F >= 1
        /\ client.forceWaitForTick = F /\ Waits' /\ ~Unsent'
    BY <1>1, <1>2 DEF InStep, FullUpdate, Waits, Unsent
  <1>4. m \in Messages(t) /\ F \in 1 .. t /\ t \in Nat /\ t \in 0 .. MaxTick
    <2>1. 1 \in DOMAIN fullUpdates
      BY <1>2 DEF InStep, FullUpdate, Typed
    <2> QED
      BY <1>1, <1>3, <2>1, UnderWay DEF Typed, WorldTyped
  <1>5. /\ 1 \in DOMAIN toClient
        /\ \A i \in DOMAIN toClient' : i + 1 \in DOMAIN toClient /\ toClient'[i] = toClient[i + 1] /\ 1 < i + 1
        /\ \A i, j \in DOMAIN toClient' : i < j => i + 1 < j + 1
    BY TailIs DEF Typed
  <1>6. PICK new : new = ProcessPacketEntities(cl, m)
    OBVIOUS
  <1>7. /\ Shows(H, new, m, {}) /\ new \in ClientRecords(t)
        /\ \A s \in H[F].view :
              Alike(new.entities[s], H[F].ents[s]) /\ new.entities[s].class = H[F].ents[s].class
    <2>1. cl \in ClientRecords(t) /\ History(H, t) /\ t \in 0 .. MaxTick /\ IsFull(H, m)
      BY <1>1, <1>3, <1>4 DEF InStep, Typed
    <2>2. /\ Shows(H, new, m, {}) /\ new \in ClientRecords(t)
          /\ \A s \in H[m.tick].view :
               /\ Alike(new.entities[s], H[m.tick].ents[s])
               /\ new.entities[s].class = H[m.tick].ents[s].class
      BY <1>4, <1>6, <2>1, FullRead
    <2> QED
      BY <1>3, <2>2
  <1>8. PICK f : f.tick = F /\ f.view = H[F].view /\ new.frames = {f}
    BY <1>3, <1>7 DEF Shows
  <1>9. /\ cl'.state = "full" /\ cl'.deltaTick = F /\ cl'.frames = {f}
        /\ cl'.entities = new.entities /\ cl'.fullReceived = F
    <2>1. cl' = [new EXCEPT !.fullReceived = F]
      BY <1>1, <1>3, <1>6 DEF ReadsFull
    <2> QED
      BY <1>3, <1>7, <1>8, <2>1 DEF Shows, ClientRecords
  <1>10. Ticks' = {F} /\ ~Asks'
    BY <1>4, <1>8, <1>9 DEF Ticks, Asks
  <1>11. History(H, m_nTickCount)' /\ Now(H)'
    BY DEF InStep, Now, History, world
  <1>12. FramesKept(H)'
    BY <1>8, <1>9 DEF InStep, FramesKept, world
  <1>13. Connected'
    BY <1>3, <1>9 DEF InStep, Connected
  <1>14. FullUpdate(H)'
    BY <1>1, <1>2, <1>3, <1>9 DEF FullUpdate
  <1>15. MovesToServer'
    <2>1. \A i \in DOMAIN toServer : toServer[i].received <= cl.fullReceived
          /\ toServer[i].received \in TicksTo(t) /\ cl.fullReceived \in TicksTo(t)
      BY <1>1, UnderWay DEF InStep, MovesToServer
    <2>2. \A i \in DOMAIN toServer : toServer[i].received < F /\ toServer[i].received <= F /\ toServer[i].received # F
      BY <1>3, <1>4, <2>1 DEF TicksTo
    <2>3. \A i \in DOMAIN toServer : toServer[i].received < F => toServer[i].tick < F
      BY <1>1, <1>3 DEF InStep, MovesToServer
    <2> QED
      BY <1>1, <1>3, <1>9, <2>2, <2>3 DEF MovesToServer
  <1>16. \A i \in DOMAIN toClient' : ~Carries(i)'
    <2> SUFFICES ASSUME NEW i \in DOMAIN toClient', Carries(i)' PROVE FALSE
      OBVIOUS
    <2>1. i + 1 \in DOMAIN toClient /\ Carries(i + 1) /\ 1 < i + 1
      BY <1>5 DEF Carries
    <2>2. toClient[i + 1].upto < F /\ toClient[1].upto <= toClient[i + 1].upto
      BY <1>1, <1>3, <1>5, <2>1 DEF InStep, DatagramsToClient
    <2>3. toClient[i + 1].upto \in TicksTo(t) /\ toClient[1].upto \in TicksTo(t)
      BY <1>1, <1>5, <2>1, UnderWay
    <2> QED
      BY <1>2, <1>4, <2>2, <2>3 DEF TicksTo
  <1>17. DatagramsToClient'
    <2>1. \A i \in DOMAIN toClient : toClient[i].upto <= F
      BY <1>1 DEF InStep, DatagramsToClient
    <2>2. \A i, j \in DOMAIN toClient : i < j => toClient[i].upto <= toClient[j].upto
      BY DEF InStep, DatagramsToClient
    <2> QED
      BY <1>1, <1>5, <1>16, <2>1, <2>2 DEF DatagramsToClient
  <1>18. Readable(H)'
    <2>1. F <= F
      BY <1>4
    <2> QED
      BY <1>1, <1>3, <1>9, <1>10, <1>16, <2>1 DEF Readable
  <1>19. Picture(H)'
    BY <1>7, <1>9, <1>10 DEF Picture, Has
  <1> QED
    BY <1>11, <1>12, <1>13, <1>14, <1>15, <1>17, <1>18, <1>19 DEF InStep

LEMMA DeltaInStep ==
  ASSUME Typed, NEW H, InStep(H), toClient # <<>>, toClient' = Tail(toClient),
         UNCHANGED <<world, client, toServer>>, ReadsDelta, ~Asks
  PROVE  InStep(H)'
  <1>1. PICK t, m : t = m_nTickCount /\ m = toClient[1].msg
    OBVIOUS
  <1>2. /\ 1 \in DOMAIN toClient
        /\ \A i \in DOMAIN toClient' : i + 1 \in DOMAIN toClient /\ toClient'[i] = toClient[i + 1] /\ 1 < i + 1
        /\ \A i, j \in DOMAIN toClient' : i < j => i + 1 < j + 1
    BY TailIs DEF Typed
  <1>3. Carries(1) /\ fullUpdates' = fullUpdates /\ Pending' = Pending /\ client' = client
        /\ toServer' = toServer /\ Waits' = Waits /\ Unsent' = Unsent
    BY DEF ReadsDelta, Carries, Pending, Waits, Unsent
  <1>4. PICK g : g = cl.deltaTick
    OBVIOUS
  <1>5. m \in Messages(t) /\ m.tick \in 1 .. t /\ t \in 0 .. MaxTick /\ t \in Nat
        /\ Ticks \subseteq 1 .. t
    BY <1>1, <1>2, <1>3, UnderWay DEF Typed, WorldTyped
  <1>6. /\ IsDelta(H, m) /\ g < m.tick /\ m.deltaFrom \in Ticks /\ g \in Ticks
        /\ \A u \in Ticks : u <= g /\ u \in Int
    <2>1. /\ IsDelta(H, m) /\ g < m.tick /\ m.deltaFrom \in Ticks /\ g \in Ticks
          /\ \A u \in Ticks : u <= g
      BY <1>1, <1>2, <1>3, <1>4 DEF InStep, Readable
    <2> QED
      BY <1>5, <2>1
  <1>7. Knows(H, cl, m)
    <2>1. g \in m.deltaFrom .. m.tick - 1
      <3>1. m.deltaFrom <= g /\ m.deltaFrom \in Int /\ g \in Int /\ m.tick \in Int
        <4>1. m.deltaFrom \in Ticks /\ g \in Ticks /\ m.tick \in 1 .. t
          BY <1>5, <1>6
        <4>2. m.deltaFrom <= g /\ m.deltaFrom \in Int /\ g \in Int
          BY <1>6, <4>1
        <4> QED
          BY <4>1, <4>2
      <3>2. g < m.tick
        BY <1>6
      <3> QED
        BY <3>1, <3>2
    <2>2. \A f \in cl.frames : f.view = H[f.tick].view /\ f.tick <= g
      BY <1>6 DEF InStep, FramesKept, Ticks
    <2>3. ASSUME NEW s \in Slots, NEW f \in cl.frames, s \in H[f.tick].view,
                 Alike(H[f.tick].ents[s], H[g].ents[s])
          PROVE  Alike(cl.entities[s], H[g].ents[s]) /\ cl.entities[s].class = H[g].ents[s].class
      <3>1. Has(H, g, s)
        BY <2>3 DEF Has, Ticks
      <3> QED
        BY <1>6, <3>1 DEF InStep, Picture
    <2> QED
      BY <1>4, <1>6, <2>1, <2>2, <2>3 DEF Knows, Ticks
  <1>8. PICK kept : kept = {f \in cl.frames : m.deltaFrom <= f.tick}
    OBVIOUS
  <1>9. /\ Shows(H, cl', m, kept) /\ cl' \in ClientRecords(t) /\ cl'.fullReceived = cl.fullReceived
        /\ \A s \in Slots, a \in {m.tick} \cup {f.tick : f \in cl.frames} :
             s \in H[a].view /\ Alike(H[a].ents[s], H[m.tick].ents[s]) =>
               /\ Alike(cl'.entities[s], H[m.tick].ents[s])
               /\ cl'.entities[s].class = H[m.tick].ents[s].class
    <2>1. cl' = ProcessPacketEntities(cl, m) /\ cl \in ClientRecords(t) /\ History(H, t)
      BY <1>1 DEF ReadsDelta, Typed, InStep
    <2>2. PICK new : new = cl'
      OBVIOUS
    <2>3. t \in 0 .. MaxTick /\ m \in Messages(t) /\ IsDelta(H, m) /\ new = ProcessPacketEntities(cl, m)
      BY <1>5, <1>6, <2>1, <2>2
    <2>4. ShowsDelta(H, cl, m, new) /\ new \in ClientRecords(t)
      BY <1>7, <2>1, <2>3, DeltaRead
    <2> QED
      BY <1>8, <2>2, <2>4 DEF ShowsDelta
  <1>10. PICK f : f.tick = m.tick /\ f.view = H[m.tick].view /\ cl'.frames = kept \cup {f}
    BY <1>9 DEF Shows
  <1>11. cl'.state = "full" /\ cl'.deltaTick = m.tick /\ ~Asks'
    BY <1>5, <1>9 DEF Shows, Asks
  <1>12. Ticks' = {u \in Ticks : m.deltaFrom <= u} \cup {m.tick}
    BY <1>8, <1>10 DEF Ticks
  <1>13. History(H, m_nTickCount)' /\ Now(H)'
    BY DEF InStep, Now, History, world
  <1>14. FramesKept(H)'
    BY <1>8, <1>10 DEF InStep, FramesKept, world
  <1>15. Connected'
    <2>1. cl.fullReceived >= 1 /\ client.state = "active"
      BY DEF InStep, Connected
    <2> QED
      BY <1>3, <1>9, <1>11, <2>1 DEF Connected
  <1>16. Waits => Pending /\ m.tick < client.fullSent
    BY <1>1, <1>2, <1>3 DEF InStep, DatagramsToClient
  <1>17. FullUpdate(H)'
    <2>1. FullUpdate(H)
      BY DEF InStep
    <2> QED
      BY <1>3, <1>9, <1>11, <1>16, <2>1 DEF FullUpdate
  <1>18. MovesToServer'
    <2>1. Asks' <=> Asks
      BY <1>11
    <2>2. MovesToServer
      BY DEF InStep
    <2>3. cl'.fullReceived = cl.fullReceived
      BY <1>9
    <2> HIDE DEF Asks
    <2> QED
      BY <1>3, <2>1, <2>2, <2>3 DEF MovesToServer
  <1>19. \A i \in DOMAIN toClient' : Carries(i)' = Carries(i + 1)
    BY <1>2 DEF Carries
  <1>20. DatagramsToClient'
    BY <1>2, <1>3, <1>19 DEF InStep, DatagramsToClient
  <1>21. Readable(H)'
    <2>1. m.tick \in Ticks' /\ \A u \in Ticks' : u <= m.tick
      BY <1>5, <1>6, <1>12
    <2>2. ~Waits => /\ client.deltaTick \in Ticks'
                    /\ \A i \in DOMAIN toServer : toServer[i].tick \in Ticks'
      <3> SUFFICES ASSUME ~Waits PROVE /\ client.deltaTick \in Ticks'
                                       /\ \A i \in DOMAIN toServer : toServer[i].tick \in Ticks'
        OBVIOUS
      <3>1. /\ client.deltaTick \in Ticks /\ m.deltaFrom <= client.deltaTick
            /\ \A i \in DOMAIN toServer : toServer[i].tick \in Ticks
        BY <1>1, <1>2, <1>3 DEF InStep, Readable
      <3>2. ~Unsent
        BY DEF InStep, FullUpdate
      <3>3. \A i \in DOMAIN toServer : toServer[i].tick >= client.deltaTick
        BY <3>2 DEF InStep, MovesToServer
      <3>4. \A i \in DOMAIN toServer : m.deltaFrom <= toServer[i].tick
        BY <1>6, <3>1, <3>3
      <3> QED
        BY <1>12, <3>1, <3>4
    <2>3. ASSUME NEW i \in DOMAIN toClient', Carries(i)'
          PROVE  /\ IsDelta(H, toClient'[i].msg) /\ m.tick < toClient'[i].msg.tick
                 /\ toClient'[i].msg.deltaFrom \in Ticks'
                 /\ ~Waits => toClient'[i].msg.deltaFrom <= client.deltaTick
      <3>1. i + 1 \in DOMAIN toClient /\ Carries(i + 1) /\ toClient'[i] = toClient[i + 1] /\ 1 < i + 1
        BY <1>2, <1>19, <2>3
      <3>2. /\ IsDelta(H, toClient[i + 1].msg) /\ toClient[i + 1].msg.deltaFrom \in Ticks
            /\ ~Waits => toClient[i + 1].msg.deltaFrom <= client.deltaTick
        BY <3>1 DEF InStep, Readable
      <3>3. m.tick < toClient[i + 1].msg.tick /\ m.deltaFrom <= toClient[i + 1].msg.deltaFrom
        BY <1>1, <1>2, <1>3, <3>1 DEF InStep, Readable
      <3> QED
        BY <1>12, <3>1, <3>2, <3>3
    <2>4. ASSUME NEW i \in DOMAIN toClient', NEW j \in DOMAIN toClient', i < j, Carries(i)', Carries(j)'
          PROVE  /\ toClient'[i].msg.tick < toClient'[j].msg.tick
                 /\ toClient'[i].msg.deltaFrom <= toClient'[j].msg.deltaFrom
      <3>1. /\ i + 1 \in DOMAIN toClient /\ Carries(i + 1) /\ toClient'[i] = toClient[i + 1]
            /\ j + 1 \in DOMAIN toClient /\ Carries(j + 1) /\ toClient'[j] = toClient[j + 1]
            /\ i + 1 < j + 1
        BY <1>2, <1>19, <2>4
      <3> QED
        BY <3>1 DEF InStep, Readable
    <2>5. Waits => Pending
      BY <1>16
    <2> QED
      BY <1>3, <1>11, <2>1, <2>2, <2>3, <2>4, <2>5 DEF Readable
  <1>22. Picture(H)'
    <2>1. ASSUME NEW q \in Ticks', \A u \in Ticks' : u <= q, NEW s \in Slots, Has(H, q, s)'
          PROVE  Alike(cl'.entities[s], H[q].ents[s]) /\ cl'.entities[s].class = H[q].ents[s].class
      <3>1. q = m.tick
        <4>1. m.tick <= q
          BY <1>12, <2>1
        <4>2. q \in Int /\ q <= m.tick
          BY <1>5, <1>6, <1>12
        <4> QED
          BY <1>5, <4>1, <4>2
      <3>2. PICK a \in Ticks' : s \in H[a].view /\ Alike(H[a].ents[s], H[q].ents[s])
        BY <2>1 DEF Has
      <3>3. a \in {m.tick} \cup {x.tick : x \in cl.frames}
        BY <1>12, <3>2 DEF Ticks
      <3> QED
        BY <1>9, <3>1, <3>2, <3>3
    <2> QED
      BY <2>1 DEF Picture
  <1> QED
    BY <1>13, <1>14, <1>15, <1>17, <1>18, <1>20, <1>21, <1>22 DEF InStep

\* A datagram is gone; what the ends have is as before.
LEMMA DatagramGone ==
  ASSUME Typed, NEW H, InStep(H), toClient # <<>>, toClient' = Tail(toClient),
         UNCHANGED <<world, client, cl, toServer, fullUpdates>>
  PROVE  InStep(H)'
  <1>1. /\ \A i \in DOMAIN toClient' : i + 1 \in DOMAIN toClient /\ toClient'[i] = toClient[i + 1]
        /\ \A i, j \in DOMAIN toClient' : i < j => i + 1 < j + 1
    BY TailIs DEF Typed
  <1>2. /\ Pending' = Pending /\ Waits' = Waits /\ Unsent' = Unsent /\ Asks' = Asks /\ Ticks' = Ticks
        /\ \A i \in DOMAIN toClient' : Carries(i)' = Carries(i + 1)
    BY <1>1 DEF Carries, Pending, Waits, Unsent, Asks, Ticks
  <1>3. History(H, m_nTickCount)' /\ Now(H)' /\ FramesKept(H)'
    BY DEF InStep, Now, History, FramesKept, world
  <1>4. Connected' /\ FullUpdate(H)' /\ MovesToServer'
    BY <1>2 DEF InStep, Connected, FullUpdate, MovesToServer
  <1>5. DatagramsToClient'
    BY <1>1, <1>2 DEF InStep, DatagramsToClient
  <1>6. Readable(H)'
    <2> SUFFICES ASSUME ~Asks PROVE Readable(H)'
      BY <1>2 DEF Readable
    <2>1. /\ cl.deltaTick \in Ticks /\ \A u \in Ticks : u <= cl.deltaTick
          /\ Waits /\ ~Pending => cl.deltaTick = client.fullSent
          /\ ~Waits => /\ client.deltaTick \in Ticks
                       /\ \A i \in DOMAIN toServer : toServer[i].tick \in Ticks
      BY DEF InStep, Readable
    <2>2. \A i \in DOMAIN toClient : Carries(i) =>
             /\ IsDelta(H, toClient[i].msg) /\ cl.deltaTick < toClient[i].msg.tick
             /\ toClient[i].msg.deltaFrom \in Ticks
             /\ ~Waits => toClient[i].msg.deltaFrom <= client.deltaTick
      BY DEF InStep, Readable
    <2>3. \A i, j \in DOMAIN toClient : i < j /\ Carries(i) /\ Carries(j) =>
             /\ toClient[i].msg.tick < toClient[j].msg.tick
             /\ toClient[i].msg.deltaFrom <= toClient[j].msg.deltaFrom
      BY DEF InStep, Readable
    <2> QED
      BY <1>1, <1>2, <2>1, <2>2, <2>3 DEF Readable
  <1>7. Picture(H)'
    BY <1>2 DEF InStep, Picture, Has
  <1> QED
    BY <1>3, <1>4, <1>5, <1>6, <1>7 DEF InStep

LEMMA ReadInStep ==
  ASSUME Typed, FewFrames, PacketToClient, NEW H, InStep(H)
  PROVE  InStep(H)'
  <1>1. /\ toClient # <<>> /\ toClient' = Tail(toClient) /\ UNCHANGED <<world, client, toServer>>
        /\ ReadsFull \/ ReadsDelta \/ ReadsNothing
    BY PacketReads
  <1>2. CASE ReadsFull
    BY <1>1, <1>2, FullInStep
  <1>3. CASE ReadsDelta /\ ~Asks
    BY <1>1, <1>3, DeltaInStep
  <1>4. CASE ReadsDelta /\ Asks
    <2>1. 1 \in DOMAIN toClient /\ Carries(1)
      BY <1>1, <1>4, TailIs DEF Typed, ReadsDelta, Carries
    <2>2. toClient[1].msg.isDelta
      BY <2>1 DEF InStep, DatagramsToClient
    <2>3. cl' = cl /\ fullUpdates' = fullUpdates
      BY <1>4, <2>2 DEF ReadsDelta, ProcessPacketEntities, Ignores, Asks
    <2> QED
      BY <1>1, <2>3, DatagramGone
  <1>5. CASE ReadsNothing
    BY <1>1, <1>5, DatagramGone DEF ReadsNothing
  <1> QED
    BY <1>1, <1>2, <1>3, <1>4, <1>5

-----------------------------------------------------------------------------
(* The other steps.                                                        *)

LEMMA MoveInStep ==
  ASSUME Typed, CL_Move, NEW H, InStep(H)
  PROVE  InStep(H)'
  <1>1. PICK t, F, R : t = m_nTickCount /\ F = client.fullSent /\ R = cl.fullReceived
    OBVIOUS
  <1>2. PICK d : /\ d.tick = (IF cl.state = "full" THEN cl.deltaTick ELSE NoTick) /\ d.received = R
                 /\ toServer' = Append(toServer, d)
    BY <1>1 DEF CL_Move
  <1>3. PICK n : n = Len(toServer) + 1
    OBVIOUS
  <1>4. /\ toServer'[n] = d /\ \A i \in DOMAIN toServer : toServer'[i] = toServer[i] /\ i < n
        /\ \A i \in DOMAIN toServer' : i \in DOMAIN toServer \/ i = n
        /\ \A i, j \in DOMAIN toServer' : i < j => i \in DOMAIN toServer
    BY <1>2, <1>3, AppendedAre DEF Typed
  <1>5. /\ \A i \in DOMAIN toServer : /\ toServer[i].tick \in TicksTo(t) \cup {NoTick}
                                      /\ toServer[i].received \in TicksTo(t)
        /\ {cl.deltaTick, R, F, client.deltaTick} \subseteq TicksTo(t) /\ Ticks \subseteq 1 .. t /\ t \in Nat
    BY <1>1, UnderWay
  <1>6. \A x \in TicksTo(t) \cup {NoTick} : x \in Int
    BY <1>5 DEF TicksTo, NoTick
  <1>7. UNCHANGED <<world, client, cl, toClient, fullUpdates>>
    BY DEF CL_Move
  <1>8. /\ Pending' = Pending /\ Waits' = Waits /\ Unsent' = Unsent /\ Asks' = Asks /\ Ticks' = Ticks
        /\ \A i : Carries(i)' = Carries(i)
    BY <1>7 DEF Pending, Waits, Unsent, Asks, Ticks, Carries
  <1>9. History(H, m_nTickCount)' /\ Now(H)' /\ FramesKept(H)' /\ Connected' /\ FullUpdate(H)'
        /\ DatagramsToClient' /\ Picture(H)'
    <2>1. History(H, m_nTickCount)' /\ Now(H)' /\ FramesKept(H)'
      BY <1>7 DEF InStep, Now, History, FramesKept, world
    <2>2. Connected' /\ FullUpdate(H)' /\ DatagramsToClient'
      BY <1>7, <1>8 DEF InStep, Connected, FullUpdate, DatagramsToClient
    <2>3. Picture(H)'
      BY <1>7, <1>8 DEF InStep, Picture, Has
    <2> QED
      BY <2>1, <2>2, <2>3
  <1>10. R >= 1 \/ ~Asks => cl.state = "full" /\ d.tick = cl.deltaTick
    <2>1. cl.state = "full" \/ (Asks /\ R = -1)
      BY <1>1 DEF InStep, Connected
    <2> QED
      BY <1>2, <2>1
  <1>11. /\ Waits \/ client.deltaTick # -1 => F >= 1
         /\ ~Pending => R = F
         /\ Pending => Waits /\ R < F /\ cl.deltaTick < F
         /\ Unsent => Asks
    BY <1>1 DEF InStep, FullUpdate
  <1>12. ~Asks => /\ cl.deltaTick \in Ticks /\ \A u \in Ticks : u <= cl.deltaTick
                  /\ Waits /\ ~Pending => cl.deltaTick = F
                  /\ ~Waits => /\ client.deltaTick \in Ticks
                               /\ \A i \in DOMAIN toServer : toServer[i].tick \in Ticks
    BY <1>1 DEF InStep, Readable
  <1>13. d.tick \in Int /\ (Asks => d.tick < 0 /\ (R >= 1 => d.tick = -1))
    BY <1>2, <1>5, <1>6, <1>10 DEF Asks, NoTick
  <1>14. Readable(H)'
    <2> SUFFICES ASSUME ~Asks PROVE Readable(H)'
      BY <1>8 DEF Readable
    <2>1. d.tick \in Ticks
      BY <1>10, <1>12
    <2>2. ~Waits => \A i \in DOMAIN toServer' : toServer'[i].tick \in Ticks
      BY <1>4, <1>12, <2>1
    <2>3. Readable(H)
      BY DEF InStep
    <2> QED
      BY <1>7, <1>8, <2>2, <2>3 DEF Readable
  <1>15. MovesToServer'
    <2>1. MovesToServer
      BY DEF InStep
    <2>2. \A i \in DOMAIN toServer' : toServer'[i].received <= R
      <3>1. R <= R
        BY <1>5, <1>6
      <3> QED
        BY <1>1, <1>2, <1>4, <2>1, <3>1 DEF MovesToServer
    <2>3. Unsent => \A i \in DOMAIN toServer' : toServer'[i].tick < 0
      BY <1>4, <1>11, <1>13, <2>1 DEF MovesToServer
    <2>4. ASSUME ~Waits, ~Unsent
          PROVE  /\ \A i \in DOMAIN toServer' : \/ toServer'[i].tick = -1 /\ Asks
                                                \/ toServer'[i].tick >= client.deltaTick
                 /\ \A i, j \in DOMAIN toServer' : i < j =>
                      /\ toServer'[i].tick = -1 => toServer'[j].tick = -1
                      /\ toServer'[j].tick # -1 => toServer'[i].tick <= toServer'[j].tick
      <3>1. /\ \A i \in DOMAIN toServer : \/ toServer[i].tick = -1 /\ Asks
                                          \/ toServer[i].tick >= client.deltaTick
            /\ \A i, j \in DOMAIN toServer : i < j =>
                 /\ toServer[i].tick = -1 => toServer[j].tick = -1
                 /\ toServer[j].tick # -1 => toServer[i].tick <= toServer[j].tick
        BY <2>1, <2>4 DEF MovesToServer
      <3>2. client.deltaTick # -1 /\ R >= 1
        BY <1>11, <2>4 DEF Unsent
      <3>3. CASE Asks
        <4>1. d.tick = -1
          BY <1>13, <3>2, <3>3
        <4> QED
          BY <1>4, <3>1, <3>3, <4>1
      <3>4. CASE ~Asks
        <4>1. d.tick = cl.deltaTick /\ d.tick \in Ticks /\ \A u \in Ticks : u <= d.tick /\ u # -1 /\ u \in Int
          BY <1>5, <1>10, <1>12, <3>4
        <4>2. d.tick >= client.deltaTick
          BY <1>12, <2>4, <3>4, <4>1
        <4>3. \A i \in DOMAIN toServer : toServer[i].tick # -1 /\ toServer[i].tick <= d.tick
          BY <1>12, <2>4, <3>4, <4>1
        <4> QED
          BY <1>4, <3>1, <4>2, <4>3
      <3> QED
        BY <3>3, <3>4
    <2>5. ASSUME Waits
          PROVE  /\ \A i \in DOMAIN toServer' :
                      /\ toServer'[i].received < F => toServer'[i].tick < F
                      /\ toServer'[i].received = F =>
                           toServer'[i].tick = F \/ (toServer'[i].tick = -1 /\ Asks)
                 /\ \A i, j \in DOMAIN toServer' : i < j /\ toServer'[i].received = F =>
                      /\ toServer'[j].received = F
                      /\ toServer'[i].tick = -1 => toServer'[j].tick = -1
      <3>1. /\ \A i \in DOMAIN toServer :
                 /\ toServer[i].received < F => toServer[i].tick < F
                 /\ toServer[i].received = F =>
                      toServer[i].tick = F \/ (toServer[i].tick = -1 /\ Asks)
            /\ \A i, j \in DOMAIN toServer : i < j /\ toServer[i].received = F =>
                 /\ toServer[j].received = F
                 /\ toServer[i].tick = -1 => toServer[j].tick = -1
        BY <1>1, <2>1, <2>5 DEF MovesToServer
      <3>2. F >= 1 /\ F \in Int /\ R \in Int /\ cl.deltaTick \in Int /\ NoTick = -2
        BY <1>5, <1>6, <1>11, <2>5 DEF NoTick
      <3>3. R < F => d.tick < F
        <4>1. R < F => cl.deltaTick < F
          BY <1>11, <3>2
        <4> QED
          BY <1>2, <3>2, <4>1
      <3>4. R = F => d.tick = F \/ (d.tick = -1 /\ Asks)
        <4>1. R = F => ~Pending /\ R >= 1
          BY <1>11, <3>2
        <4> QED
          BY <1>10, <1>12, <1>13, <2>5, <4>1
      <3>5. ASSUME NEW i \in DOMAIN toServer, toServer[i].received = F
            PROVE  R = F /\ (toServer[i].tick = -1 => d.tick = -1)
        <4>1. F <= R
          BY <1>1, <2>1, <3>5 DEF MovesToServer
        <4>2. R = F
          BY <1>11, <3>2, <4>1
        <4>3. toServer[i].tick = -1 => Asks
          BY <3>1, <3>2, <3>5
        <4> QED
          BY <1>13, <3>2, <4>2, <4>3
      <3>6. \A i \in DOMAIN toServer' :
              /\ toServer'[i].received < F => toServer'[i].tick < F
              /\ toServer'[i].received = F => toServer'[i].tick = F \/ (toServer'[i].tick = -1 /\ Asks)
        BY <1>2, <1>4, <3>1, <3>3, <3>4
      <3>7. ASSUME NEW i \in DOMAIN toServer', NEW j \in DOMAIN toServer', i < j, toServer'[i].received = F
            PROVE  toServer'[j].received = F /\ (toServer'[i].tick = -1 => toServer'[j].tick = -1)
        <4>1. i \in DOMAIN toServer /\ toServer'[i] = toServer[i]
          BY <1>4, <3>7
        <4>2. CASE j \in DOMAIN toServer
          BY <1>4, <3>1, <3>7, <4>1, <4>2
        <4>3. CASE j = n
          BY <1>2, <1>4, <3>5, <3>7, <4>1, <4>3
        <4> QED
          BY <1>4, <4>2, <4>3
      <3> QED
        BY <3>6, <3>7
    <2> QED
      BY <1>1, <1>7, <1>8, <2>2, <2>3, <2>4, <2>5 DEF MovesToServer
  <1> QED
    BY <1>9, <1>14, <1>15 DEF InStep

LEMMA LossInStep ==
  ASSUME Typed, LosePacket, NEW H, InStep(H)
  PROVE  InStep(H)'
  <1>1. UNCHANGED <<world, client, cl, fullUpdates>>
    BY DEF LosePacket
  <1>2. CASE toClient # <<>> /\ toClient' = Tail(toClient) /\ UNCHANGED toServer
    BY <1>1, <1>2, DatagramGone
  <1>3. CASE toServer # <<>> /\ toServer' = Tail(toServer) /\ UNCHANGED toClient
    <2>1. /\ \A i \in DOMAIN toServer' : i + 1 \in DOMAIN toServer /\ toServer'[i] = toServer[i + 1]
          /\ \A i, j \in DOMAIN toServer' : i < j => i + 1 < j + 1
      BY <1>3, TailIs DEF Typed
    <2>2. /\ Pending' = Pending /\ Waits' = Waits /\ Unsent' = Unsent /\ Asks' = Asks /\ Ticks' = Ticks
          /\ \A i : Carries(i)' = Carries(i)
      BY <1>1, <1>3 DEF Pending, Waits, Unsent, Asks, Ticks, Carries
    <2>3. History(H, m_nTickCount)' /\ Now(H)' /\ FramesKept(H)'
      BY <1>1 DEF InStep, Now, History, FramesKept, world
    <2>4. Connected' /\ FullUpdate(H)' /\ DatagramsToClient'
      BY <1>1, <1>3, <2>2 DEF InStep, Connected, FullUpdate, DatagramsToClient
    <2>5. Picture(H)'
      BY <1>1, <2>2 DEF InStep, Picture, Has
    <2>6. MovesToServer'
      <3>1. MovesToServer
        BY DEF InStep
      <3> QED
        BY <1>1, <2>1, <2>2, <3>1 DEF MovesToServer
    <2>7. Readable(H)'
      <3>1. Readable(H)
        BY DEF InStep
      <3> QED
        BY <1>1, <1>3, <2>1, <2>2, <3>1 DEF Readable
    <2> QED
      BY <2>3, <2>4, <2>5, <2>6, <2>7 DEF InStep
  <1> QED
    BY <1>2, <1>3 DEF LosePacket

LEMMA RequestInStep ==
  ASSUME Typed, ForceFullUpdate, NEW H, InStep(H)
  PROVE  InStep(H)'
  <1>1. UNCHANGED <<world, client, toClient, toServer, fullUpdates>> /\ cl.state = "full" /\ ~Asks
    BY DEF ForceFullUpdate, Asks
  <1>2. /\ cl'.deltaTick = -1 /\ cl'.state = cl.state /\ cl'.frames = cl.frames
        /\ cl'.entities = cl.entities /\ cl'.fullReceived = cl.fullReceived
    BY DEF ForceFullUpdate, Typed, ClientRecords
  <1>3. Asks' /\ Pending' = Pending /\ Waits' = Waits /\ Unsent' = Unsent /\ Ticks' = Ticks
        /\ \A i : Carries(i)' = Carries(i)
    BY <1>1, <1>2 DEF Pending, Waits, Unsent, Asks, Ticks, Carries
  <1>4. History(H, m_nTickCount)' /\ Now(H)' /\ FramesKept(H)'
    BY <1>1, <1>2 DEF InStep, Now, History, FramesKept, world
  <1>5. Connected'
    BY <1>1, <1>2 DEF InStep, Connected
  <1>6. FullUpdate(H)'
    <2>1. FullUpdate(H)
      BY DEF InStep
    <2>2. Pending => -1 < client.fullSent
      <3>1. client.fullSent \in TicksTo(m_nTickCount) /\ m_nTickCount \in Nat
        BY UnderWay
      <3> QED
        BY <2>1, <3>1 DEF FullUpdate, TicksTo
    <2> HIDE DEF Asks
    <2> QED
      BY <1>1, <1>2, <1>3, <2>1, <2>2 DEF FullUpdate
  <1>7. MovesToServer'
    <2>1. MovesToServer
      BY DEF InStep
    <2> HIDE DEF Asks
    <2> QED
      BY <1>1, <1>2, <1>3, <2>1 DEF MovesToServer
  <1>8. DatagramsToClient'
    BY <1>1, <1>3 DEF InStep, DatagramsToClient
  <1>9. Readable(H)'
    BY <1>3 DEF Readable
  <1>10. Picture(H)'
    BY <1>2, <1>3 DEF InStep, Picture, Has
  <1> QED
    BY <1>4, <1>5, <1>6, <1>7, <1>8, <1>9, <1>10 DEF InStep

LEMMA NothingInStep ==
  ASSUME UNCHANGED vars, NEW H, InStep(H)
  PROVE  InStep(H)'
  <1>1. UNCHANGED <<m_nTickCount, edicts, serials, view, client, cl, toClient, toServer, fullUpdates>>
    BY DEF vars, world
  <1>2. /\ Pending' = Pending /\ Waits' = Waits /\ Unsent' = Unsent /\ Asks' = Asks /\ Ticks' = Ticks
        /\ \A i : Carries(i)' = Carries(i)
    BY <1>1 DEF Pending, Waits, Unsent, Asks, Ticks, Carries
  <1>3. History(H, m_nTickCount)' /\ Now(H)' /\ FramesKept(H)'
    BY <1>1 DEF InStep, Now, History, FramesKept
  <1>4. Connected' /\ FullUpdate(H)' /\ MovesToServer' /\ DatagramsToClient'
    BY <1>1, <1>2 DEF InStep, Connected, FullUpdate, MovesToServer, DatagramsToClient
  <1>5. Readable(H)'
    BY <1>1, <1>2 DEF InStep, Readable
  <1>6. Picture(H)'
    BY <1>1, <1>2 DEF InStep, Picture, Has
  <1> QED
    BY <1>3, <1>4, <1>5, <1>6 DEF InStep

LEMMA StepInStep ==
  ASSUME Typed, FewFrames, [Next]_vars, NEW H, InStep(H)
  PROVE  \E G : InStep(G)'
  <1>1. CASE SendClientMessages
    <2>1. PICK G : Ticked(H, G)
      BY <1>1, TickSends
    <2> QED
      BY <2>1, TickInStep
  <1>2. CASE PacketToClient
    BY <1>2, ReadInStep
  <1>3. CASE CL_Move
    BY <1>3, MoveInStep
  <1>4. CASE PacketToServer
    BY <1>4, ServerInStep
  <1>5. CASE LosePacket
    BY <1>5, LossInStep
  <1>6. CASE ForceFullUpdate
    BY <1>6, RequestInStep
  <1>7. CASE UNCHANGED vars
    BY <1>7, NothingInStep
  <1> QED
    BY <1>1, <1>2, <1>3, <1>4, <1>5, <1>6, <1>7 DEF Next

\* Before the first tick there is no history.
LEMMA InitInStep == Init => \E H : InStep(H)
  <1> SUFFICES ASSUME Init PROVE \E H : InStep(H)
    OBVIOUS
  <1>1. PICK H : H = [t \in 1 .. 0 |-> NoFrame]
    OBVIOUS
  <1>2. /\ m_nTickCount = 0 /\ toClient = <<>> /\ toServer = <<>> /\ fullUpdates = <<>>
        /\ client.state = "active" /\ client.frames = {} /\ client.deltaTick = -1
        /\ client.forceWaitForTick = -1 /\ client.fullSent = -1
        /\ cl.state = "spawn" /\ cl.deltaTick = -1 /\ cl.frames = {} /\ cl.fullReceived = -1
    BY DEF Init
  <1>3. 1 .. 0 = {} /\ DOMAIN toClient = {} /\ DOMAIN toServer = {}
    BY <1>2
  <1>4. ~Waits /\ Unsent /\ ~Pending /\ Asks /\ Ticks = {}
    BY <1>2 DEF Waits, Unsent, Pending, Asks, Ticks
  <1>5. History(H, m_nTickCount)
    BY <1>1, <1>2, <1>3 DEF History
  <1>6. Now(H)
    <2>1. \A s \in Slots : edicts[s] # NoEntity => edicts[s].serial = serials[s]
      BY DEF Init, NewEntities
    <2> QED
      BY <1>2, <1>3, <2>1 DEF Now
  <1>7. FramesKept(H) /\ Connected
    BY <1>2, <1>4 DEF FramesKept, Connected
  <1>8. FullUpdate(H) /\ MovesToServer /\ DatagramsToClient
    BY <1>2, <1>3, <1>4 DEF FullUpdate, MovesToServer, DatagramsToClient
  <1>9. Readable(H) /\ Picture(H)
    BY <1>4 DEF Readable, Picture
  <1> QED
    BY <1>5, <1>6, <1>7, <1>8, <1>9 DEF InStep

SomeHistory == \E H : InStep(H)

LEMMA InStepAlways == Spec => []SomeHistory
  <1>1. Init => SomeHistory
    BY InitInStep DEF SomeHistory
  <1>2. SomeHistory /\ Typed /\ FewFrames /\ [Next]_vars => SomeHistory'
    BY StepInStep DEF SomeHistory
  <1> QED
    BY <1>1, <1>2, TypesKept, PTL DEF Spec

\* No delta makes an end give up the connection: the client has the frame a
\* delta starts from and the entities it changes (Host_Error in
\* cl_ents_parse.cpp), the server never sees ticks go backwards
\* (baseclient.cpp:1594, "Client delta ticks out of order").
THEOREM SnapshotsNeverDrop == Spec => []NothingDrops
  <1>1. SomeHistory => NothingDrops
    BY DEF SomeHistory, InStep, Connected, NothingDrops
  <1> QED
    BY <1>1, InStepAlways, PTL

\* The server never waits in vain: the full update it waits for is on its way, or
\* the client acknowledges it, or asks for another, with every packet it sends
\* (baseclient.cpp:1145).
THEOREM SnapshotsWaitAnswered == Spec => []WaitIsAnswered
  <1>1. Typed /\ SomeHistory => WaitIsAnswered
    <2> SUFFICES ASSUME Typed, NEW H, InStep(H), client.forceWaitForTick > 0 PROVE
          \/ \E i \in DOMAIN fullUpdates : fullUpdates[i].tick = client.forceWaitForTick
          \/ cl.state = "full" /\ cl.deltaTick \in {client.forceWaitForTick, -1}
      BY DEF SomeHistory, WaitIsAnswered
    <2>1. Waits
      BY DEF Waits
    <2>2. /\ client.forceWaitForTick = client.fullSent /\ client.fullSent >= 1
          /\ ~Pending => cl.fullReceived = client.fullSent
          /\ Pending => Len(fullUpdates) = 1 /\ fullUpdates[1].tick = client.fullSent
      BY <2>1 DEF InStep, FullUpdate
    <2>3. CASE Pending
      <3>1. \E i \in DOMAIN fullUpdates : fullUpdates[i].tick = client.fullSent
        <4>1. 1 \in DOMAIN fullUpdates
          BY <2>2, <2>3 DEF Typed
        <4> QED
          BY <2>2, <2>3, <4>1
      <3> QED
        BY <2>2, <3>1
    <2>4. CASE ~Pending
      <3>1. cl.state = "full"
        BY <2>2, <2>4 DEF InStep, Connected
      <3>2. ~Asks => cl.deltaTick = client.fullSent
        BY <2>1, <2>4 DEF InStep, Readable
      <3> QED
        BY <2>2, <3>1, <3>2 DEF Asks
    <2> QED
      BY <2>3, <2>4
  <1> QED
    BY <1>1, InStepAlways, TypesKept, PTL

-----------------------------------------------------------------------------
(* What the client shows is what was sent, as long as the server keeps the  *)
(* frame the client has acknowledged last.                                  *)

\* The server drops the oldest frame when it keeps too many (sv_client.cpp:430),
\* the one the next delta is to start from when the client's
\* acknowledgements have stayed away for long: then the server sends everything anew,
\* and forgets the baselines, while the client, which asked for nothing, keeps
\* its own.  Here that does not happen.
AckedFrameKept == client.deltaTick # -1 => HasFrame(client.frames, client.deltaTick)

\* What the client keeps of an entity, and what it is to have kept once it has
\* read the update of the baselines the server waits to be acknowledged.
AsKept(e) == IF e = NoEntity THEN NoEntity ELSE Baseline(e.class, e.value)
Sent(H, c, s) == IF s \in c.baselinesSent THEN H[c.updateTick].ents[s] ELSE c.baseline[s]
Enter(m) == {s \in Slots : m.updates[s].type = "enter"}

\* A message read with the client's baselines gives the values of its snapshot.
ReadsTrue(H, m) == \A s \in Enter(m) : EnteringValue(cl, m, s) = H[m.tick].ents[s].value

FullIsTrue(H) ==
  Pending =>
    /\ Asks /\ Fresh(client) /\ client.updateTick = client.fullSent
    /\ client.baselinesSent = H[client.fullSent].view
    /\ \A i \in DOMAIN acks : acks[i].tick < client.fullSent
    /\ fullUpdates[1].baseline = 0 /\ fullUpdates[1].updateBaseline /\ ReadsTrue(H, fullUpdates[1])

\* The baselines the server writes from, those it will write from, and the updates
\* of them under way.
InUse(c) == \A s \in Slots : cl.baselines[c.baselineUsed][s] = AsKept(c.baseline[s])
Acknowledged(H, c) ==
  \A i \in DOMAIN acks : acks[i].tick = c.updateTick =>
    \A s \in Slots : cl.baselines[Flip(c.baselineUsed)][s] = AsKept(Sent(H, c, s))
Updating(i) == Carries(i) /\ toClient[i].msg.updateBaseline
UpdatesUnderWay(c) ==
  \A i \in DOMAIN toClient : Updating(i) =>
    /\ toClient[i].msg.baseline = c.baselineUsed
    /\ c.updateTick # -1 => toClient[i].msg.tick <= c.updateTick
    /\ toClient[i].msg.tick = c.updateTick => c.baselinesSent = Enter(toClient[i].msg)
SameBaselines(H, c) == InUse(c) /\ Acknowledged(H, c) /\ UpdatesUnderWay(c)

DeltasAreTrue(H) ==
  /\ \A i \in DOMAIN acks : acks[i].tick <= cl.deltaTick
  /\ \A i \in DOMAIN toClient : Carries(i) =>
       /\ ReadsTrue(H, toClient[i].msg)
       /\ \A s \in Slots : TellsChange(toClient[i].msg, s, H[toClient[i].msg.deltaFrom], H[toClient[i].msg.tick])
  /\ \A i, j \in DOMAIN toClient : i < j /\ Updating(i) /\ Carries(j) =>
       toClient[j].msg.baseline = toClient[i].msg.baseline

\* Of an entity that lived at tick a the client has the value of a later tick.
ValuesShown(H) ==
  \A g \in Ticks : (\A t \in Ticks : t <= g) =>
    \A a \in Ticks, s \in Slots : s \in H[a].view /\ Alike(H[a].ents[s], H[g].ents[s]) =>
      \E t \in a .. g : cl.entities[s].value = H[t].ents[s].value

Waiting ==
  /\ Asks => \A nr \in 0 .. 1 : cl.baselines[nr] = Nobody
  /\ Waits => client.deltaTick = -1
  /\ Unsent => Fresh(client) /\ client.updateTick = -1
InTruth(H) ==
  /\ Waiting /\ FullIsTrue(H)
  /\ ~Asks => SameBaselines(H, client) /\ DeltasAreTrue(H)
  /\ ValuesShown(H)

LEMMA AcksTyped ==
  ASSUME Typed
  PROVE  /\ \A i \in DOMAIN acks : acks[i].tick \in 1 .. m_nTickCount
         /\ client.updateTick \in TicksTo(m_nTickCount)
  <1>1. PICK t, A : t = m_nTickCount /\ A = AckRecords(t)
    OBVIOUS
  <1>2. acks \in Seq(A)
    BY <1>1 DEF Typed
  <1>3. \A i \in DOMAIN acks : acks[i] \in A
    BY <1>2
  <1> QED
    BY <1>1, <1>3 DEF AckRecords, Typed, ServerRecords

\* The truth about what is under way concerns no tick to come.
LEMMA TruthOfThePast ==
  ASSUME Typed, NEW H, InStep(H), InTruth(H), NEW G, \A t \in 1 .. m_nTickCount : G[t] = H[t]
  PROVE  InTruth(G)
  <1>1. PICK n : n = m_nTickCount
    OBVIOUS
  <1>2. /\ n \in Nat /\ Ticks \subseteq 1 .. n /\ \A t \in 1 .. n : G[t] = H[t]
        /\ \A i \in DOMAIN acks : acks[i].tick \in 1 .. n
    BY <1>1, UnderWay, AcksTyped
  <1>3. \A m : m.tick \in 1 .. n /\ ReadsTrue(H, m) => ReadsTrue(G, m)
    BY <1>2 DEF ReadsTrue
  <1>4. FullIsTrue(G)
    <2> SUFFICES ASSUME Pending PROVE FullIsTrue(G)
      BY DEF FullIsTrue
    <2>1. /\ fullUpdates[1].tick = client.fullSent /\ client.fullSent \in 1 .. n
      <3>1. 1 \in DOMAIN fullUpdates
        BY DEF InStep, FullUpdate, Typed
      <3> QED
        BY <1>1, <3>1, UnderWay DEF InStep, FullUpdate
    <2>2. G[client.fullSent] = H[client.fullSent] /\ fullUpdates[1].tick \in 1 .. n
      BY <1>2, <2>1
    <2> QED
      BY <1>3, <2>2 DEF FullIsTrue, InTruth
  <1>5. ASSUME ~Asks PROVE SameBaselines(G, client) /\ DeltasAreTrue(G)
    <2>1. SameBaselines(H, client) /\ DeltasAreTrue(H)
      BY <1>5 DEF InTruth
    <2>2. Acknowledged(G, client)
      BY <1>2, <2>1 DEF SameBaselines, Acknowledged, Sent
    <2>3. ASSUME NEW i \in DOMAIN toClient, Carries(i)
          PROVE  /\ toClient[i].msg.tick \in 1 .. n
                 /\ G[toClient[i].msg.deltaFrom] = H[toClient[i].msg.deltaFrom]
                 /\ G[toClient[i].msg.tick] = H[toClient[i].msg.tick]
      <3>1. toClient[i].msg.tick \in 1 .. n /\ IsDelta(H, toClient[i].msg)
        BY <1>1, <1>5, <2>3, UnderWay DEF InStep, Readable
      <3>2. toClient[i].msg.deltaFrom \in 1 .. n
        BY <1>2, <3>1 DEF IsDelta
      <3> QED
        BY <1>2, <3>1, <3>2
    <2> QED
      BY <1>3, <2>1, <2>2, <2>3 DEF SameBaselines, DeltasAreTrue
  <1>6. ValuesShown(G)
    <2> SUFFICES ASSUME NEW g \in Ticks, \A t \in Ticks : t <= g, NEW a \in Ticks, NEW s \in Slots,
                        s \in G[a].view, Alike(G[a].ents[s], G[g].ents[s])
                 PROVE  \E t \in a .. g : cl.entities[s].value = G[t].ents[s].value
      BY DEF ValuesShown
    <2>1. G[a] = H[a] /\ G[g] = H[g] /\ \A t \in a .. g : G[t] = H[t]
      BY <1>2
    <2>2. \E t \in a .. g : cl.entities[s].value = H[t].ents[s].value
      BY <2>1 DEF InTruth, ValuesShown
    <2> QED
      BY <2>1, <2>2
  <1> QED
    BY <1>4, <1>5, <1>6 DEF InTruth

\* It is kept when messages get lost or are ignored and nobody writes any.
LEMMA TruthKept ==
  ASSUME NEW H, InTruth(H), UNCHANGED <<cl, acks, fullUpdates>>, SameBases(client', client),
         client'.forceWaitForTick = client.forceWaitForTick,
         client'.deltaTick = client.deltaTick, client'.fullSent = client.fullSent,
         NEW k \in Nat, DOMAIN toClient \subseteq Int, DOMAIN toClient' \subseteq Int,
         \A i \in DOMAIN toClient' : Carries(i)' => i + k \in DOMAIN toClient /\ toClient'[i] = toClient[i + k]
  PROVE  InTruth(H)'
  <1>1. /\ Pending' = Pending /\ Waits' = Waits /\ Unsent' = Unsent /\ Asks' = Asks /\ Ticks' = Ticks
        /\ Fresh(client)' = Fresh(client)
    BY DEF Pending, Waits, Unsent, Asks, Ticks, Fresh, SameBases
  <1>2. \A m : ReadsTrue(H, m)' = ReadsTrue(H, m)
    BY DEF ReadsTrue, EnteringValue, GetEntityBaseline
  <1>3. /\ \A i \in DOMAIN toClient' : Carries(i)' => Carries(i + k)
        /\ \A i \in DOMAIN toClient' : Updating(i)' => Updating(i + k)
    BY DEF Carries, Updating
  <1>4. Waiting'
    BY <1>1 DEF InTruth, Waiting, SameBases
  <1>5. FullIsTrue(H)'
    BY <1>1, <1>2 DEF InTruth, FullIsTrue, SameBases
  <1>6. SameBaselines(H, client) => SameBaselines(H, client)'
    <2>1. \A s : Sent(H, client, s)' = Sent(H, client, s)
      BY DEF Sent, SameBases
    <2>2. InUse(client) => InUse(client)'
      BY DEF InUse, SameBases
    <2>3. Acknowledged(H, client) => Acknowledged(H, client)'
      BY <2>1 DEF Acknowledged, SameBases
    <2>4. UpdatesUnderWay(client) => UpdatesUnderWay(client)'
      BY <1>3 DEF UpdatesUnderWay, SameBases, Updating
    <2> QED
      BY <2>2, <2>3, <2>4 DEF SameBaselines
  <1>7. DeltasAreTrue(H) => DeltasAreTrue(H)'
    <2>1. \A i, j \in DOMAIN toClient' : i < j => i + k < j + k
      OBVIOUS
    <2>2. \A i \in DOMAIN toClient' : Carries(i)' => toClient'[i].msg = toClient[i + k].msg /\ i + k \in DOMAIN toClient
      OBVIOUS
    <2>3. \A i \in DOMAIN toClient' : Updating(i)' => Carries(i)'
      BY DEF Updating
    <2> QED
      BY <1>2, <1>3, <2>1, <2>2, <2>3 DEF DeltasAreTrue
  <1>8. ValuesShown(H)'
    BY <1>1 DEF InTruth, ValuesShown
  <1> QED
    BY <1>1, <1>4, <1>5, <1>6, <1>7, <1>8 DEF InTruth

LEMMA RequestTruth ==
  ASSUME Typed, ForceFullUpdate, NEW H, InTruth(H)
  PROVE  InTruth(H)'
  <1>1. UNCHANGED <<client, toClient, toServer, fullUpdates, acks>> /\ ~Asks
    BY DEF ForceFullUpdate, Asks
  <1>2. /\ cl'.deltaTick = -1 /\ cl'.frames = cl.frames /\ cl'.entities = cl.entities
        /\ cl'.baselines = [nr \in 0 .. 1 |-> Nobody]
    BY DEF ForceFullUpdate, Typed, ClientRecords
  <1>3. Asks' /\ Pending' = Pending /\ Waits' = Waits /\ Unsent' = Unsent /\ Ticks' = Ticks
    BY <1>1, <1>2 DEF Pending, Waits, Unsent, Asks, Ticks
  <1>4. Waiting'
    BY <1>1, <1>2, <1>3 DEF InTruth, Waiting, Fresh
  <1>5. ~Pending'
    BY <1>1, <1>3 DEF InTruth, FullIsTrue
  <1>6. FullIsTrue(H)'
    BY <1>5 DEF FullIsTrue
  <1>7. ValuesShown(H)'
    BY <1>2, <1>3 DEF InTruth, ValuesShown
  <1> QED
    BY <1>3, <1>4, <1>6, <1>7 DEF InTruth

LEMMA InitTruth ==
  ASSUME Init, NEW H
  PROVE  InTruth(H)
  <1>1. /\ fullUpdates = <<>> /\ client.deltaTick = -1 /\ client.forceWaitForTick = -1
        /\ client.updateTick = -1 /\ Fresh(client)
        /\ cl.deltaTick = -1 /\ cl.frames = {} /\ \A nr \in 0 .. 1 : cl.baselines[nr] = Nobody
    BY DEF Init, Fresh
  <1>2. ~Waits /\ ~Pending /\ Asks /\ Ticks = {}
    BY <1>1 DEF Waits, Pending, Asks, Ticks
  <1>3. Waiting /\ FullIsTrue(H)
    BY <1>1, <1>2 DEF Waiting, FullIsTrue
  <1>4. ValuesShown(H)
    BY <1>2 DEF ValuesShown
  <1> QED
    BY <1>2, <1>3, <1>4 DEF InTruth

-----------------------------------------------------------------------------
(* A tick.                                                                 *)

LEMMA MergedIs ==
  ASSUME NEW from, NEW v \in Values
  PROVE  Merged(from, Written(from, v)) = v
  BY SnapshotsAssumption DEF Merged, Written

\* An entity of the snapshot of a tick.
LEMMA EntityOf ==
  ASSUME NEW n, NEW H, History(H, n), NEW t \in 1 .. n, NEW s \in H[t].view
  PROVE  s \in Slots /\ H[t].ents[s] \in Entity /\ H[t].ents[s] # NoEntity
         /\ H[t].ents[s].value \in Values
  <1>1. H[t] \in Frame /\ H[t].ents[s] # NoEntity
    BY DEF History
  <1> QED
    BY <1>1 DEF Frame, Entity

\* An entity enters by a message of its own only.
LEMMA EnterIs ==
  ASSUME NEW m, NEW from, NEW to, \A s \in Slots : Tells(m, s, from, to),
         to.view \subseteq Slots
  PROVE  Enter(m) = Entering(from, to)
  <1>1. ASSUME NEW s \in Slots, s \notin Entering(from, to) PROVE m.updates[s].type # "enter"
    <2>1. CASE s \in from.view \ to.view
      <3>1. m.updates[s] = LeavePVS(SV_NeedsExplicitDestroy(s, from, to))
        BY <2>1 DEF Tells
      <3> QED
        BY <3>1 DEF LeavePVS
    <2>2. CASE s \in from.view /\ s \in to.view
      BY <1>1, <2>2 DEF Tells
    <2>3. CASE s \notin from.view
      BY <1>1, <2>3 DEF Tells, Entering
    <2> QED
      BY <2>1, <2>2, <2>3
  <1>2. ASSUME NEW s \in Entering(from, to) PROVE s \in Slots /\ m.updates[s].type = "enter"
    BY DEF Tells, Entering
  <1> QED
    BY <1>1, <1>2 DEF Enter

LEMMA AllTruth ==
  ASSUME Typed, NEW G, InStep(G)', InTruth(G), UNCHANGED <<cl, acks>>, m_nTickCount' = m_nTickCount + 1,
         client'.deltaTick = client.deltaTick, SendsAll(G), ~Pending, Unsent, Asks
  PROVE  InTruth(G)'
  <1>1. PICK n : n = m_nTickCount
    OBVIOUS
  <1>2. n \in Nat /\ n + 1 \in Int /\ n + 1 \in 1 .. n + 1 /\ History(G, n + 1)
    BY <1>1, UnderWay DEF InStep
  <1>3. PICK m : /\ fullUpdates' = Append(fullUpdates, m) /\ m.tick = n + 1
                 /\ IsFull(G, m) /\ FullyWritten(G, m)
    BY <1>1 DEF SendsAll
  <1>4. fullUpdates'[1] = m
    BY <1>3 DEF Pending
  <1>5. /\ client'.forceWaitForTick = n + 1 /\ client'.fullSent = n + 1 /\ Fresh(client')
        /\ client'.updateTick = n + 1 /\ client'.baselinesSent = G[n + 1].view
    BY <1>1 DEF SendsAll
  <1>6. Waits' /\ Asks' /\ Ticks' = Ticks /\ client'.deltaTick = -1
    BY <1>2, <1>5 DEF Waits, Asks, Ticks, Unsent
  <1>7. \A nr \in 0 .. 1 : cl.baselines[nr] = Nobody
    BY DEF InTruth, Waiting
  <1>8. ReadsTrue(G, m)
    <2>1. PICK to : to = G[n + 1]
      OBVIOUS
    <2>2. to.view \subseteq Slots
      BY <1>2, <2>1, EntityOf
    <2>3. Enter(m) = to.view
      <3>1. \A s \in Slots : Tells(m, s, NoFrame, to)
        BY <1>3, <2>1 DEF IsFull
      <3>2. Enter(m) = Entering(NoFrame, to)
        BY <2>2, <3>1, EnterIs
      <3> QED
        BY <3>2 DEF Entering, NoFrame
    <2>4. ASSUME NEW s \in to.view PROVE EnteringValue(cl, m, s) = to.ents[s].value
      <3>1. s \in Slots /\ to.ents[s].value \in Values
        BY <1>2, <2>1, EntityOf
      <3>2. m.baseline = 0 /\ m.updates[s].value = Written(ClassBaseline[to.ents[s].class], to.ents[s].value)
        BY <1>3, <2>1 DEF FullyWritten
      <3>3. m.updates[s].class = to.ents[s].class
        <4>1. Tells(m, s, NoFrame, to) /\ s \in Entering(NoFrame, to)
          BY <1>3, <2>1, <3>1 DEF IsFull, Entering, NoFrame
        <4> QED
          BY <4>1 DEF Tells
      <3>4. GetEntityBaseline(cl, m.baseline, s, m.updates[s].class) = ClassBaseline[to.ents[s].class]
        <4>1. cl.baselines[m.baseline][s] = NoEntity
          BY <1>7, <3>1, <3>2 DEF Nobody
        <4> QED
          BY <3>3, <4>1 DEF GetEntityBaseline
      <3> QED
        BY <3>1, <3>2, <3>4, MergedIs DEF EnteringValue
    <2> QED
      BY <1>3, <2>1, <2>3, <2>4 DEF ReadsTrue
  <1>9. FullIsTrue(G)'
    <2>1. \A i \in DOMAIN acks : acks[i].tick < n + 1
      BY <1>1, <1>2, AcksTyped
    <2>2. ReadsTrue(G, m)'
      BY <1>8 DEF ReadsTrue, EnteringValue, GetEntityBaseline
    <2>3. m.baseline = 0 /\ m.updateBaseline
      BY <1>3 DEF FullyWritten
    <2>4. ReadsTrue(G, fullUpdates[1])'
      BY <1>4, <2>2 DEF ReadsTrue, EnteringValue, GetEntityBaseline
    <2>5. Fresh(client)'
      BY <1>5 DEF Fresh
    <2> QED
      BY <1>4, <1>5, <1>6, <2>1, <2>3, <2>4, <2>5 DEF FullIsTrue
  <1>10. Waiting'
    BY <1>6, <1>7 DEF Waiting, Unsent
  <1>11. ValuesShown(G)'
    BY <1>6 DEF InTruth, ValuesShown
  <1> QED
    BY <1>6, <1>9, <1>10, <1>11 DEF InTruth

\* An entity that enters is read with the baseline it was written from.
LEMMA BasesRead ==
  ASSUME NEW s \in Slots, NEW e, NEW m, m.baseline = client.baselineUsed,
         e.value \in Values, m.updates[s].class = e.class,
         m.updates[s].value = Written(BaselineValue(client, TRUE, s, e.class), e.value),
         cl.baselines[client.baselineUsed][s] = AsKept(client.baseline[s]),
         client.baseline[s] # NoEntity => client.baseline[s] \in Entity
  PROVE  EnteringValue(cl, m, s) = e.value
  <1>1. PICK kept, mine : kept = cl.baselines[m.baseline][s] /\ mine = client.baseline[s]
    OBVIOUS
  <1>2. GetEntityBaseline(cl, m.baseline, s, e.class) = BaselineValue(client, TRUE, s, e.class)
    <2>1. CASE mine = NoEntity
      BY <1>1, <2>1 DEF AsKept, GetEntityBaseline, BaselineValue
    <2>2. CASE mine # NoEntity
      <3>1. kept = Baseline(mine.class, mine.value) /\ kept \in Baselines
        BY <1>1, <2>2 DEF AsKept, Baseline, Baselines, Entity
      <3>2. kept # NoEntity /\ kept.class = mine.class /\ kept.value = mine.value
        BY <3>1, SnapshotsAssumption DEF Baseline
      <3> QED
        BY <1>1, <2>2, <3>2 DEF GetEntityBaseline, BaselineValue
    <2> QED
      BY <2>1, <2>2
  <1>3. PICK base : base = BaselineValue(client, TRUE, s, e.class)
    OBVIOUS
  <1>4. EnteringValue(cl, m, s) = Merged(base, Written(base, e.value))
    BY <1>2, <1>3 DEF EnteringValue
  <1> QED
    BY <1>4, MergedIs

LEMMA ChangesTruth ==
  ASSUME Typed, NEW G, InStep(G)', InTruth(G), UNCHANGED <<cl, acks>>, m_nTickCount' = m_nTickCount + 1,
         client'.deltaTick = client.deltaTick, SendsChanges(G), ~Pending
  PROVE  InTruth(G)'
  <1>1. PICK n, k : n = m_nTickCount /\ k = Len(toClient) + 1
    OBVIOUS
  <1>2. n \in Nat /\ n + 1 \in 1 .. n + 1 /\ History(G, n + 1)
        /\ \A i \in DOMAIN acks : acks[i].tick \in 1 .. n /\ acks[i].tick # n + 1
    BY <1>1, UnderWay, AcksTyped DEF InStep
  <1>3. ~Waits /\ client.deltaTick # -1 /\ UNCHANGED fullUpdates
        /\ client'.forceWaitForTick = client.forceWaitForTick
    BY DEF SendsChanges
  <1>4. PICK m : /\ toClient' = Append(toClient, [msg |-> m, upto |-> client.fullSent])
                 /\ m # NoMsg => /\ m.tick = n + 1 /\ m.deltaFrom = client.deltaTick
                                 /\ IsDelta(G, m) /\ DeltaWritten(G, m)
    BY <1>1 DEF SendsChanges
  <1>5. /\ DOMAIN toClient = 1 .. k - 1 /\ DOMAIN toClient' = 1 .. k /\ k \in Nat
        /\ toClient'[k] = [msg |-> m, upto |-> client.fullSent]
        /\ \A i \in DOMAIN toClient : toClient'[i] = toClient[i] /\ i \in Nat /\ i < k
        /\ \A i \in DOMAIN toClient' : i \in DOMAIN toClient \/ i = k
    BY <1>1, <1>4 DEF Typed
  <1>6. ~Waits' /\ ~Pending' /\ Asks' = Asks /\ Ticks' = Ticks /\ ~Unsent'
    BY <1>3 DEF Waits, Pending, Asks, Ticks, Unsent
  <1>7. Waiting' /\ FullIsTrue(G)' /\ ValuesShown(G)'
    <2>1. Waiting'
      BY <1>6 DEF InTruth, Waiting
    <2>2. ValuesShown(G)'
      BY <1>6 DEF InTruth, ValuesShown
    <2> QED
      BY <1>6, <2>1, <2>2 DEF FullIsTrue
  <1>8. ASSUME ~Asks PROVE SameBaselines(G, client)' /\ DeltasAreTrue(G)'
    <2>1. SameBaselines(G, client) /\ DeltasAreTrue(G)
      BY <1>8 DEF InTruth
    <2>2. /\ client'.baseline = client.baseline /\ client'.baselineUsed = client.baselineUsed
          /\ \/ client'.updateTick = n + 1
             \/ /\ client'.updateTick = client.updateTick
                /\ client.updateTick # -1 => client'.baselinesSent = client.baselinesSent
      BY <1>1 DEF SendsChanges
    <2>3. InUse(client)'
      BY <2>1, <2>2 DEF SameBaselines, InUse
    <2>4. Acknowledged(G, client)'
      <3> SUFFICES ASSUME NEW i \in DOMAIN acks, acks[i].tick = client'.updateTick, NEW s \in Slots
                   PROVE  cl.baselines[Flip(client'.baselineUsed)][s] = AsKept(Sent(G, client', s))
        BY DEF Acknowledged, Sent
      <3>1. client'.updateTick = client.updateTick /\ client'.baselinesSent = client.baselinesSent
        <4>1. client'.updateTick # n + 1 /\ client'.updateTick # -1
          BY <1>2
        <4> QED
          BY <2>2, <4>1
      <3>2. Sent(G, client', s) = Sent(G, client, s)
        BY <2>2, <3>1 DEF Sent
      <3> QED
        BY <2>1, <2>2, <3>1, <3>2 DEF SameBaselines, Acknowledged
    <2>5. \A i \in DOMAIN toClient :
            /\ Carries(i)' = Carries(i) /\ Updating(i)' = Updating(i)
            /\ Carries(i) => toClient[i].msg.tick \in 1 .. n
      BY <1>1, <1>5, UnderWay DEF Carries, Updating
    <2>6. \A i \in DOMAIN toClient' : i = k /\ Carries(i)' =>
            m # NoMsg /\ toClient'[i].msg = m /\ (Updating(i)' => m.updateBaseline)
      BY <1>5 DEF Carries, Updating
    <2>7. ASSUME m # NoMsg
          PROVE  /\ m.tick = n + 1 /\ m.baseline = client.baselineUsed
                 /\ m.updateBaseline => client'.updateTick = n + 1 /\ client'.baselinesSent = Enter(m)
                 /\ ReadsTrue(G, m)
                 /\ \A s \in Slots : TellsChange(m, s, G[m.deltaFrom], G[m.tick])
      <3>1. PICK from, to : from = G[m.deltaFrom] /\ to = G[n + 1]
        OBVIOUS
      <3>2. IsDelta(G, m) /\ DeltaWritten(G, m) /\ m.tick = n + 1
        BY <1>4, <2>7
      <3>3. /\ m.baseline = client.baselineUsed
            /\ m.updateBaseline => client'.updateTick = n + 1 /\ client'.baselinesSent = Entering(from, to)
            /\ \A s \in Entering(from, to) : m.updates[s].value =
                 Written(BaselineValue(client, TRUE, s, to.ents[s].class), to.ents[s].value)
            /\ \A s \in Slots : TellsChange(m, s, G[m.deltaFrom], G[m.tick])
        BY <3>1, <3>2 DEF DeltaWritten
      <3>4. \A s \in to.view : s \in Slots /\ to.ents[s].value \in Values
        BY <1>2, <3>1, EntityOf
      <3>5. \A s \in Slots : Tells(m, s, from, to)
        BY <3>1, <3>2 DEF IsDelta
      <3>6. Enter(m) = Entering(from, to)
        BY <3>4, <3>5, EnterIs
      <3>7. ASSUME NEW s \in Entering(from, to) PROVE EnteringValue(cl, m, s) = to.ents[s].value
        <4>1. s \in Slots /\ to.ents[s].value \in Values
          BY <3>4 DEF Entering
        <4>2. m.updates[s].class = to.ents[s].class
          BY <3>5, <4>1 DEF Tells
        <4>3. cl.baselines[client.baselineUsed][s] = AsKept(client.baseline[s])
          BY <2>1, <4>1 DEF SameBaselines, InUse
        <4>4. client.baseline[s] # NoEntity => client.baseline[s] \in Entity
          BY <4>1 DEF Typed, ServerRecords, Edicts
        <4>5. m.updates[s].value = Written(BaselineValue(client, TRUE, s, to.ents[s].class), to.ents[s].value)
          BY <3>3
        <4> QED
          BY <3>3, <4>1, <4>2, <4>3, <4>4, <4>5, BasesRead
      <3> QED
        BY <3>1, <3>2, <3>3, <3>6, <3>7 DEF ReadsTrue
    <2>8. UpdatesUnderWay(client)'
      <3> SUFFICES ASSUME NEW i \in DOMAIN toClient', Updating(i)'
                   PROVE  /\ toClient'[i].msg.baseline = client'.baselineUsed
                          /\ client'.updateTick # -1 => toClient'[i].msg.tick <= client'.updateTick
                          /\ toClient'[i].msg.tick = client'.updateTick => client'.baselinesSent = Enter(toClient'[i].msg)
        BY DEF UpdatesUnderWay, Enter
      <3>1. CASE i = k
        <4>1. toClient'[i].msg = m /\ m.updateBaseline /\ m # NoMsg
          BY <2>6, <3>1 DEF Updating
        <4>2. n + 1 <= n + 1
          BY <1>2
        <4> QED
          BY <2>2, <2>7, <4>1, <4>2
      <3>2. CASE i \in DOMAIN toClient
        <4>1. Updating(i) /\ toClient'[i] = toClient[i] /\ toClient[i].msg.tick \in 1 .. n
          BY <1>5, <2>5, <3>2 DEF Updating
        <4>2. /\ toClient[i].msg.baseline = client.baselineUsed
              /\ client.updateTick # -1 => toClient[i].msg.tick <= client.updateTick
              /\ toClient[i].msg.tick = client.updateTick => client.baselinesSent = Enter(toClient[i].msg)
          BY <2>1, <3>2, <4>1 DEF SameBaselines, UpdatesUnderWay
        <4>3. toClient[i].msg.tick <= n + 1 /\ toClient[i].msg.tick # n + 1 /\ toClient[i].msg.tick # -1
          BY <1>2, <4>1
        <4> QED
          BY <2>2, <4>1, <4>2, <4>3
      <3> QED
        BY <1>5, <3>1, <3>2
    <2>9. \A x : ReadsTrue(G, x)' = ReadsTrue(G, x)
      BY DEF ReadsTrue, EnteringValue, GetEntityBaseline
    <2>10. DeltasAreTrue(G)'
      <3>1. \A i \in DOMAIN acks' : acks'[i].tick <= cl'.deltaTick
        BY <2>1 DEF DeltasAreTrue
      <3>2. ASSUME NEW i \in DOMAIN toClient', Carries(i)'
            PROVE  /\ ReadsTrue(G, toClient'[i].msg)
                   /\ \A s \in Slots : TellsChange(toClient'[i].msg, s, G[toClient'[i].msg.deltaFrom], G[toClient'[i].msg.tick])
        <4>1. CASE i = k
          BY <2>6, <2>7, <3>2, <4>1
        <4>2. CASE i \in DOMAIN toClient
          BY <1>5, <2>1, <2>5, <3>2, <4>2 DEF DeltasAreTrue
        <4> QED
          BY <1>5, <4>1, <4>2
      <3>3. ASSUME NEW i \in DOMAIN toClient', NEW j \in DOMAIN toClient', i < j, Updating(i)', Carries(j)'
            PROVE  toClient'[j].msg.baseline = toClient'[i].msg.baseline
        <4>1. i \in DOMAIN toClient /\ toClient'[i] = toClient[i] /\ Updating(i)
          BY <1>5, <2>5, <3>3
        <4>2. CASE j = k
          <5>1. toClient[i].msg.baseline = client.baselineUsed
            BY <2>1, <4>1 DEF SameBaselines, UpdatesUnderWay
          <5> QED
            BY <2>6, <2>7, <3>3, <4>1, <4>2, <5>1
        <4>3. CASE j \in DOMAIN toClient
          BY <1>5, <2>1, <2>5, <3>3, <4>1, <4>3 DEF DeltasAreTrue
        <4> QED
          BY <1>5, <4>2, <4>3
      <3>4. \A i \in DOMAIN toClient' : Carries(i)' => ReadsTrue(G, toClient[i].msg)'
        BY <2>9, <3>2 DEF ReadsTrue, EnteringValue, GetEntityBaseline
      <3> QED
        BY <3>1, <3>2, <3>3, <3>4 DEF DeltasAreTrue
    <2> QED
      BY <2>3, <2>4, <2>8, <2>10 DEF SameBaselines
  <1> QED
    BY <1>6, <1>7, <1>8 DEF InTruth

LEMMA TickTruth ==
  ASSUME Typed, NEW H, NEW G, Ticked(H, G), InStep(H), InStep(G)', InTruth(H), AckedFrameKept'
  PROVE  InTruth(G)'
  <1>1. /\ m_nTickCount' = m_nTickCount + 1 /\ UNCHANGED <<cl, acks>>
        /\ client'.deltaTick = client.deltaTick /\ \A t \in 1 .. m_nTickCount : G[t] = H[t]
        /\ SendsNothing(G) \/ SendsAll(G) \/ SendsChanges(G)
    BY DEF Ticked, Sends
  <1>2. InTruth(G)
    BY <1>1, TruthOfThePast
  <1>3. FullUpdate(H)
    BY DEF InStep
  <1>4. CASE SendsNothing(G)
    <2>1. /\ UNCHANGED fullUpdates /\ SameBases(client', client) /\ client'.fullSent = client.fullSent
          /\ client'.forceWaitForTick = client.forceWaitForTick
          /\ toClient' = Append(toClient, [msg |-> NoMsg, upto |-> client.fullSent])
      BY <1>4 DEF SendsNothing
    <2>2. /\ DOMAIN toClient \subseteq Int /\ DOMAIN toClient' \subseteq Int /\ 0 \in Nat
          /\ \A i \in DOMAIN toClient' : Carries(i)' => i + 0 \in DOMAIN toClient /\ toClient'[i] = toClient[i + 0]
      <3>1. PICK k : k = Len(toClient) + 1
        OBVIOUS
      <3>2. /\ DOMAIN toClient = 1 .. k - 1 /\ DOMAIN toClient' = 1 .. k /\ k \in Nat
            /\ toClient'[k].msg = NoMsg
            /\ \A i \in DOMAIN toClient : toClient'[i] = toClient[i] /\ i + 0 = i
            /\ \A i \in DOMAIN toClient' : i \in DOMAIN toClient \/ i = k
        BY <2>1, <3>1 DEF Typed
      <3> QED
        BY <3>2 DEF Carries
    <2> QED
      BY <1>1, <1>2, <2>1, <2>2, TruthKept
  <1>5. CASE SendsAll(G)
    <2>1. ~Waits /\ client.deltaTick = -1
      BY <1>1, <1>5 DEF SendsAll, AckedFrameKept
    <2>2. Unsent
      BY <2>1 DEF Unsent
    <2>3. Asks /\ ~Pending
      BY <1>3, <2>2 DEF FullUpdate
    <2> QED
      BY <1>1, <1>2, <1>5, <2>2, <2>3, AllTruth
  <1>6. CASE SendsChanges(G)
    <2>1. ~Pending
      BY <1>3, <1>6 DEF FullUpdate, SendsChanges
    <2> QED
      BY <1>1, <1>2, <1>6, <2>1, ChangesTruth
  <1> QED
    BY <1>1, <1>4, <1>5, <1>6

-----------------------------------------------------------------------------
(* The server reads a packet.                                              *)

\* What an accepted tick makes of the baselines on the server.
BasesServed(c, new) ==
  /\ new.forceWaitForTick # -1 =>
       SameBases(new, c) /\ (c.deltaTick = -1 => new.deltaTick = -1) /\ c.forceWaitForTick # -1
  /\ new.forceWaitForTick = -1 /\ new.deltaTick = -1 =>
       \/ Fresh(new) /\ new.updateTick = -1
       \/ SameBases(new, c) /\ c.forceWaitForTick = -1 /\ c.deltaTick = -1
  /\ new.forceWaitForTick = -1 /\ new.deltaTick # -1 =>
       /\ new.baseline = c.baseline /\ new.baselineUsed = c.baselineUsed
       /\ new.baselinesSent = c.baselinesSent /\ new.updateTick \in {c.updateTick, -1}

LEMMA BasesServedIs ==
  ASSUME NEW t \in 0 .. MaxTick, NEW c \in ServerRecords(t), NEW tick \in TicksTo(t) \cup {NoTick},
         NEW new, new = ProcessTick(c, tick)
  PROVE  BasesServed(c, new)
  <1>1. CASE tick = NoTick
    <2>1. new = c
      BY <1>1 DEF ProcessTick
    <2> QED
      BY <2>1 DEF BasesServed, SameBases
  <1>2. CASE tick # NoTick
    <2> DEFINE pending == c.fullAcked < c.fullSent
               kept == IF tick # c.deltaTick /\ tick > 0 THEN DeleteClientFrames(c.frames, tick)
                                                         ELSE c.frames
    <2>1. PICK d : d = [c EXCEPT !.frames = kept]
      OBVIOUS
    <2>2. d \in ServerRecords(t) /\ d.deltaTick = c.deltaTick /\ d.forceWaitForTick = c.forceWaitForTick
          /\ SameBases(d, c)
      <3>1. kept \subseteq c.frames
        BY DEF DeleteClientFrames
      <3> HIDE DEF kept
      <3> QED
        BY <2>1, <3>1 DEF ServerRecords, SameBases
    <2>3. /\ tick \in TicksTo(t) /\ t \in Nat /\ d.updateTick \in TicksTo(t)
          /\ d.forceWaitForTick \in TicksTo(t) /\ d.deltaTick \in TicksTo(t)
      <3> HIDE DEF kept, pending
      <3>1. d.updateTick \in TicksTo(t) /\ d.forceWaitForTick \in TicksTo(t) /\ d.deltaTick \in TicksTo(t)
        BY <2>2 DEF ServerRecords
      <3> QED
        BY <1>2, <3>1, SnapshotsAssumption
    <2>4. \A x \in TicksTo(t) : x \in Int /\ (x # -1 <=> x > 0)
      BY <2>3 DEF TicksTo
    <2>5. new = IF d.forceWaitForTick > 0 THEN AcknowledgeWhileWaiting(d, tick, pending)
                                          ELSE AcknowledgeDelta(d, tick)
      BY <1>2, <2>1, <2>2 DEF ProcessTick, UpdateAcknowledgedFramecount
    <2>6. ASSUME NEW e \in ServerRecords(t)
          PROVE  LET a == SetDeltaTick(e, tick)
                 IN /\ a.deltaTick = tick /\ a.forceWaitForTick = e.forceWaitForTick
                    /\ a.baseline = e.baseline /\ a.baselineUsed = e.baselineUsed
                    /\ a.baselinesSent = e.baselinesSent /\ a.updateTick \in {e.updateTick, -1}
                    /\ tick = -1 => a.updateTick = e.updateTick
      <3>1. e.updateTick \in TicksTo(t)
        BY DEF ServerRecords
      <3>2. PICK update : update = IF e.updateTick > -1 /\ tick > e.updateTick THEN -1 ELSE e.updateTick
        OBVIOUS
      <3>3. update \in {e.updateTick, -1} /\ (tick = -1 => update = e.updateTick)
        BY <2>4, <3>1, <3>2
      <3>4. SetDeltaTick(e, tick) = [e EXCEPT !.deltaTick = tick, !.updateTick = update]
        BY <3>2 DEF SetDeltaTick
      <3> QED
        BY <3>3, <3>4 DEF ServerRecords
    <2> HIDE DEF pending
    <2>7. CASE d.forceWaitForTick > 0
      <3>1. new = AcknowledgeWhileWaiting(d, tick, pending)
        BY <2>5, <2>7
      <3>2. CASE tick > d.forceWaitForTick
        <4>1. tick # -1 /\ ~(tick < d.forceWaitForTick) /\ tick # d.forceWaitForTick
          BY <2>3, <2>7, <3>2 DEF TicksTo
        <4>2. new = d
          BY <3>1, <3>2, <4>1 DEF AcknowledgeWhileWaiting
        <4> QED
          BY <2>2, <2>3, <2>4, <2>7, <4>2 DEF BasesServed
      <3>3. CASE tick = -1 /\ ~pending
        <4>1. ~(tick > d.forceWaitForTick)
          BY <2>3, <2>7, <3>3 DEF TicksTo
        <4>2. new = OnRequestFullUpdate([d EXCEPT !.forceWaitForTick = -1, !.deltaTick = -1])
          BY <3>1, <3>3, <4>1 DEF AcknowledgeWhileWaiting
        <4>3. Fresh(new) /\ new.updateTick = -1 /\ new.forceWaitForTick = -1 /\ new.deltaTick = -1
          BY <2>2, <4>2 DEF OnRequestFullUpdate, ServerRecords, Fresh
        <4> QED
          BY <4>3 DEF BasesServed
      <3>4. CASE tick = -1 /\ pending
        <4>1. ~(tick > d.forceWaitForTick)
          BY <2>3, <2>7, <3>4 DEF TicksTo
        <4>2. new = SetDeltaTick(d, tick)
          BY <3>1, <3>4, <4>1 DEF AcknowledgeWhileWaiting
        <4> QED
          BY <2>2, <2>3, <2>4, <2>6, <2>7, <3>4, <4>2 DEF BasesServed, SameBases
      <3>5. CASE tick # -1 /\ tick < d.forceWaitForTick
        <4>1. ~(tick > d.forceWaitForTick)
          BY <2>3, <2>4, <3>5
        <4>2. new = d
          BY <3>1, <3>5, <4>1 DEF AcknowledgeWhileWaiting
        <4> QED
          BY <2>2, <2>3, <2>4, <2>7, <4>2 DEF BasesServed
      <3>6. CASE tick # -1 /\ tick = d.forceWaitForTick
        <4>1. ~(tick > d.forceWaitForTick) /\ ~(tick < d.forceWaitForTick)
          BY <2>3, <2>4, <3>6
        <4>2. PICK e : e = [d EXCEPT !.forceWaitForTick = -1]
          OBVIOUS
        <4>3. e \in ServerRecords(t) /\ SameBases(e, d) /\ e.forceWaitForTick = -1
          BY <2>2, <4>2 DEF ServerRecords, TicksTo, SameBases
        <4>4. new = SetDeltaTick(e, tick)
          BY <3>1, <3>6, <4>1, <4>2 DEF AcknowledgeWhileWaiting
        <4> QED
          BY <2>2, <2>6, <3>6, <4>3, <4>4 DEF BasesServed, SameBases
      <3> QED
        BY <2>3, <2>4, <3>2, <3>3, <3>4, <3>5, <3>6
    <2>8. CASE ~(d.forceWaitForTick > 0)
      <3>1. new = AcknowledgeDelta(d, tick) /\ d.forceWaitForTick = -1
        BY <2>3, <2>4, <2>5, <2>8
      <3>2. CASE d.deltaTick = -1
        <4>1. ~(tick # -1 /\ d.deltaTick > tick)
          BY <2>3, <3>2 DEF TicksTo
        <4>2. new = d
          BY <3>1, <3>2, <4>1 DEF AcknowledgeDelta
        <4> QED
          BY <2>2, <3>1, <3>2, <4>2 DEF BasesServed
      <3>3. CASE d.deltaTick # -1 /\ tick = -1
        <4>1. new = SetDeltaTick(OnRequestFullUpdate(d), tick)
          BY <3>1, <3>3 DEF AcknowledgeDelta
        <4>2. PICK e : e = OnRequestFullUpdate(d)
          OBVIOUS
        <4>3. e \in ServerRecords(t) /\ Fresh(e) /\ e.updateTick = -1 /\ e.forceWaitForTick = -1
          BY <2>2, <3>1, <4>2, RequestIs DEF OnRequestFullUpdate, ServerRecords, Fresh
        <4> QED
          BY <2>6, <3>3, <4>1, <4>2, <4>3 DEF BasesServed, Fresh
      <3>4. CASE d.deltaTick # -1 /\ tick # -1 /\ d.deltaTick > tick
        <4>1. new = [d EXCEPT !.state = "delta ticks out of order"]
          BY <3>1, <3>4 DEF AcknowledgeDelta, Disconnect
        <4>2. SameBases(new, d) /\ new.forceWaitForTick = -1 /\ new.deltaTick # -1
          BY <2>2, <3>1, <3>4, <4>1 DEF ServerRecords, SameBases
        <4> QED
          BY <2>2, <4>2 DEF BasesServed, SameBases
      <3>5. CASE d.deltaTick # -1 /\ tick # -1 /\ ~(d.deltaTick > tick)
        <4>1. new = SetDeltaTick(d, tick)
          BY <3>1, <3>5 DEF AcknowledgeDelta
        <4> QED
          BY <2>2, <2>6, <3>1, <3>5, <4>1 DEF BasesServed, SameBases
      <3> QED
        BY <3>2, <3>3, <3>4, <3>5
    <2> QED
      BY <2>7, <2>8
  <1> QED
    BY <1>1, <1>2

\* An acknowledgement the server takes says that the client has the update.
LEMMA AckTruth ==
  ASSUME Typed, NEW H, InStep(H), ~Asks, DeltasAreTrue(H), NEW c, c \in ServerRecords(m_nTickCount),
         c.frames = client.frames, SameBaselines(H, c), NEW i \in DOMAIN acks
  PROVE  SameBaselines(H, ProcessBaselineAck(c, acks[i]))
  <1>1. PICK n, ack, new : n = m_nTickCount /\ ack = acks[i] /\ new = ProcessBaselineAck(c, ack)
    OBVIOUS
  <1>2. \A j \in DOMAIN acks : acks[j].tick \in 1 .. n /\ n \in Nat
    BY <1>1, AcksTyped, UnderWay
  <1>3. CASE ack.tick = c.updateTick /\ ack.nr = c.baselineUsed /\ HasFrame(c.frames, c.updateTick)
    <2>1. PICK frame, bases : /\ frame = GetClientFrame(c.frames, c.updateTick)
                              /\ bases = [s \in Slots |-> IF s \in c.baselinesSent THEN frame.ents[s] ELSE c.baseline[s]]
      OBVIOUS
    <2>2. frame = H[c.updateTick]
      <3>1. frame \in c.frames /\ frame.tick = c.updateTick
        BY <1>3, <2>1 DEF HasFrame, GetClientFrame
      <3>2. PICK t \in 1 .. n : frame = H[t]
        BY <1>1, <3>1 DEF InStep, FramesKept
      <3>3. H[t].tick = t
        BY <1>1 DEF InStep, History
      <3> QED
        BY <3>1, <3>2, <3>3
    <2>3. \A s \in Slots : bases[s] = Sent(H, c, s)
      BY <2>1, <2>2 DEF Sent
    <2>4. /\ new.baseline = bases /\ new.baselineUsed = Flip(c.baselineUsed) /\ new.updateTick = -1
          /\ new.baselinesSent = c.baselinesSent
      <3>1. new = [c EXCEPT !.baseline = bases, !.baselineUsed = Flip(c.baselineUsed), !.updateTick = -1]
        BY <1>1, <1>3, <2>1 DEF ProcessBaselineAck
      <3> QED
        BY <3>1 DEF ServerRecords
    <2>5. InUse(new)
      BY <1>1, <1>3, <2>3, <2>4 DEF SameBaselines, Acknowledged, InUse
    <2>6. Acknowledged(H, new)
      BY <1>2, <2>4 DEF Acknowledged
    <2>7. \A j \in DOMAIN toClient : ~Updating(j)
      <3> SUFFICES ASSUME NEW j \in DOMAIN toClient, Updating(j) PROVE FALSE
        OBVIOUS
      <3>1. Carries(j)
        BY DEF Updating
      <3>2. cl.deltaTick < toClient[j].msg.tick /\ toClient[j].msg.tick \in 1 .. n /\ cl.deltaTick \in TicksTo(n)
        BY <1>1, <3>1, UnderWay DEF InStep, Readable
      <3>3. c.updateTick = ack.tick /\ ack.tick \in 1 .. n /\ ack.tick <= cl.deltaTick
        BY <1>1, <1>2, <1>3 DEF DeltasAreTrue
      <3>4. toClient[j].msg.tick <= c.updateTick
        <4>1. c.updateTick # -1
          BY <1>2, <3>3
        <4> QED
          BY <4>1 DEF SameBaselines, UpdatesUnderWay
      <3>5. toClient[j].msg.tick \in Int /\ cl.deltaTick \in Int /\ ack.tick \in Int
        BY <1>2, <3>2, <3>3 DEF TicksTo
      <3> QED
        BY <3>2, <3>3, <3>4, <3>5
    <2>8. UpdatesUnderWay(new)
      BY <2>7 DEF UpdatesUnderWay
    <2> QED
      BY <1>1, <2>5, <2>6, <2>8 DEF SameBaselines
  <1>4. CASE ~(ack.tick = c.updateTick /\ ack.nr = c.baselineUsed /\ HasFrame(c.frames, c.updateTick))
    BY <1>1, <1>4 DEF ProcessBaselineAck
  <1> QED
    BY <1>3, <1>4

\* What holds of the server's record while it processes the acknowledgements.
Acknowledging(H, c) ==
  /\ Kin(c, client)
  /\ Pending \/ Unsent => SameBases(c, client)
  /\ ~Asks => SameBaselines(H, c)

LEMMA ServerTruth ==
  ASSUME Typed, PacketToServer, NEW H, InStep(H), InStep(H)', InTruth(H)
  PROVE  InTruth(H)'
  <1>1. PICK n : n = m_nTickCount
    OBVIOUS
  <1>2. /\ \A i \in DOMAIN acks : acks[i].tick \in 1 .. n
        /\ n \in 0 .. MaxTick /\ n \in Nat
    BY <1>1, AcksTyped, UnderWay DEF Typed, WorldTyped
  <1>3. PICK V : V = {v \in ServerRecords(n) : Acknowledging(H, v)}
    OBVIOUS
  <1>4. [client EXCEPT !.fullAcked = toServer[1].received] \in V
    <2>1. PICK c : c = [client EXCEPT !.fullAcked = toServer[1].received]
      OBVIOUS
    <2>2. c \in ServerRecords(n) /\ Kin(c, client) /\ SameBases(c, client)
      <3>1. client \in ServerRecords(n) /\ toServer[1].received \in TicksTo(n)
        <4>1. 1 \in DOMAIN toServer
          BY DEF Typed, PacketToServer
        <4> QED
          BY <1>1, <4>1, UnderWay DEF Typed
      <3> QED
        BY <2>1, <3>1 DEF ServerRecords, Kin, SameBases
    <2>3. ~Asks => SameBaselines(H, c)
      BY <2>2 DEF InTruth, SameBaselines, InUse, Acknowledged, UpdatesUnderWay, SameBases, Sent
    <2> QED
      BY <1>3, <2>1, <2>2, <2>3 DEF Acknowledging
  <1>5. ASSUME NEW v \in V, NEW i \in DOMAIN acks PROVE ProcessBaselineAck(v, acks[i]) \in V
    <2>1. PICK new : new = ProcessBaselineAck(v, acks[i])
      OBVIOUS
    <2>2. v \in ServerRecords(n) /\ Kin(v, client) /\ (Pending \/ Unsent => SameBases(v, client))
          /\ (~Asks => SameBaselines(H, v))
      BY <1>3 DEF Acknowledging
    <2>3. new \in ServerRecords(n)
      BY <1>2, <2>1, <2>2, AckIs
    <2>4. Kin(new, client)
      <3>1. Kin(new, v)
        BY <2>1, <2>2 DEF ProcessBaselineAck, Kin, ServerRecords
      <3> QED
        BY <2>2, <3>1 DEF Kin
    <2>5. ASSUME Pending \/ Unsent PROVE new = v
      <3>1. client.updateTick # acks[i].tick
        <4>1. CASE Unsent
          BY <1>2, <4>1 DEF InTruth, Waiting
        <4>2. CASE Pending
          <5>1. acks[i].tick < client.updateTick
            BY <4>2 DEF InTruth, FullIsTrue
          <5> QED
            BY <1>2, <5>1
        <4> QED
          BY <2>5, <4>1, <4>2
      <3>2. v.updateTick # acks[i].tick
        BY <2>2, <2>5, <3>1 DEF SameBases
      <3> QED
        BY <2>1, <3>2 DEF ProcessBaselineAck
    <2>6. ASSUME ~Asks PROVE SameBaselines(H, new)
      <3>1. v.frames = client.frames /\ DeltasAreTrue(H)
        BY <2>2, <2>6 DEF Kin, InTruth
      <3> QED
        BY <1>1, <2>1, <2>2, <2>6, <3>1, AckTruth
    <2> QED
      BY <1>3, <2>1, <2>2, <2>3, <2>4, <2>5, <2>6 DEF Acknowledging
  <1>6. PICK tick, d : /\ d \in V /\ tick \in TicksTo(n) \cup {NoTick} /\ client' = ProcessTick(d, tick)
                       /\ UNCHANGED <<world, cl, toClient, fullUpdates>>
                       /\ \E k \in Nat : \A i \in DOMAIN acks' :
                            i \in Nat /\ i + k \in DOMAIN acks /\ acks'[i] = acks[i + k]
    <2>1. V \in SUBSET ServerRecords(n)
      BY <1>3
    <2> QED
      BY <1>1, <1>4, <1>5, <2>1, PacketServed
  <1>7. /\ d \in ServerRecords(n) /\ Kin(d, client) /\ (Pending \/ Unsent => SameBases(d, client))
        /\ ~Asks => SameBaselines(H, d)
    BY <1>3, <1>6 DEF Acknowledging
  <1>8. BasesServed(d, client') /\ client'.fullSent = client.fullSent
    <2>1. PICK new : new = client'
      OBVIOUS
    <2>2. new = ProcessTick(d, tick)
      BY <1>6, <2>1
    <2>3. BasesServed(d, new) /\ Served(d, tick, new)
      BY <1>2, <1>6, <1>7, <2>2, BasesServedIs, ServedIs
    <2> QED
      BY <1>7, <2>1, <2>3 DEF Served, Kin
  <1>9. /\ Pending' = Pending /\ Asks' = Asks /\ Ticks' = Ticks
        /\ \A i : Carries(i)' = Carries(i) /\ Updating(i)' = Updating(i)
        /\ \A m : ReadsTrue(H, m)' = ReadsTrue(H, m)
    BY <1>6 DEF Pending, Asks, Ticks, Carries, Updating, ReadsTrue, EnteringValue, GetEntityBaseline
  <1>10. Waiting'
    <2>1. Waits' => client'.deltaTick = -1
      BY <1>7, <1>8 DEF Waits, BasesServed, Kin, InTruth, Waiting
    <2>2. ASSUME Unsent' PROVE Fresh(client') /\ client'.updateTick = -1
      <3>1. \/ Fresh(client') /\ client'.updateTick = -1
            \/ SameBases(client', d) /\ Unsent
        BY <1>7, <1>8, <2>2 DEF Waits, Unsent, BasesServed, Kin
      <3>2. CASE SameBases(client', d) /\ Unsent
        <4>1. Fresh(client) /\ client.updateTick = -1 /\ SameBases(d, client)
          BY <1>7, <3>2 DEF InTruth, Waiting
        <4> QED
          BY <3>2, <4>1 DEF SameBases, Fresh
      <3> QED
        BY <3>1, <3>2
    <2>3. Asks => \A nr \in 0 .. 1 : cl'.baselines[nr] = Nobody
      BY <1>6 DEF InTruth, Waiting
    <2>4. Fresh(client)' <=> Fresh(client')
      BY DEF Fresh
    <2> QED
      BY <1>9, <2>1, <2>2, <2>3, <2>4 DEF Waiting
  <1>11. FullIsTrue(H)'
    <2> SUFFICES ASSUME Pending PROVE FullIsTrue(H)'
      BY <1>9 DEF FullIsTrue
    <2>1. SameBases(client', client)
      <3>1. Waits'
        BY <1>9 DEF InStep, FullUpdate
      <3> QED
        BY <1>7, <1>8, <3>1 DEF BasesServed, Waits, SameBases
    <2>2. /\ Asks /\ Fresh(client) /\ client.updateTick = client.fullSent
          /\ client.baselinesSent = H[client.fullSent].view
          /\ \A i \in DOMAIN acks : acks[i].tick < client.fullSent
          /\ fullUpdates[1].baseline = 0 /\ fullUpdates[1].updateBaseline /\ ReadsTrue(H, fullUpdates[1])
      BY DEF InTruth, FullIsTrue
    <2>3. \A i \in DOMAIN acks' : acks'[i].tick < client.fullSent
      BY <1>6, <2>2
    <2>4. Fresh(client)'
      BY <2>1, <2>2 DEF Fresh, SameBases
    <2>5. ReadsTrue(H, fullUpdates[1])'
      BY <1>6, <2>2 DEF ReadsTrue, EnteringValue, GetEntityBaseline
    <2> QED
      BY <1>6, <1>8, <1>9, <2>1, <2>2, <2>3, <2>4, <2>5 DEF FullIsTrue, SameBases
  <1>12. ASSUME ~Asks PROVE SameBaselines(H, client)' /\ DeltasAreTrue(H)'
    <2>1. SameBaselines(H, d) /\ DeltasAreTrue(H)
      BY <1>7, <1>12 DEF InTruth
    <2>2. ~Unsent'
      BY <1>9, <1>12 DEF InStep, FullUpdate
    <2>3. /\ client'.baseline = d.baseline /\ client'.baselineUsed = d.baselineUsed
          /\ client'.baselinesSent = d.baselinesSent /\ client'.updateTick \in {d.updateTick, -1}
      BY <1>8, <2>2 DEF BasesServed, SameBases, Unsent, Waits
    <2>4. InUse(client)'
      BY <1>6, <2>1, <2>3 DEF SameBaselines, InUse
    <2>5. Acknowledged(H, client)'
      <3> SUFFICES ASSUME NEW i \in DOMAIN acks', acks'[i].tick = client'.updateTick, NEW s \in Slots
                   PROVE  cl'.baselines[Flip(client'.baselineUsed)][s] = AsKept(Sent(H, client', s))
        BY DEF Acknowledged, Sent
      <3>1. PICK j \in DOMAIN acks : acks'[i] = acks[j]
        BY <1>6
      <3>2. client'.updateTick = d.updateTick /\ acks[j].tick = d.updateTick
        BY <1>2, <2>3, <3>1
      <3> QED
        BY <1>6, <2>1, <2>3, <3>2 DEF SameBaselines, Acknowledged, Sent
    <2>6. UpdatesUnderWay(client)'
      <3>1. \A i \in DOMAIN toClient : Updating(i) => toClient[i].msg.tick # -1
        BY <1>1, <1>2, UnderWay DEF Updating
      <3> QED
        BY <1>6, <1>9, <2>1, <2>3, <3>1 DEF SameBaselines, UpdatesUnderWay, Enter
    <2>7. DeltasAreTrue(H)'
      <3>1. \A i \in DOMAIN acks' : acks'[i].tick <= cl'.deltaTick
        BY <1>6, <2>1 DEF DeltasAreTrue
      <3>2. \A i \in DOMAIN toClient : ReadsTrue(H, toClient[i].msg)' <=> ReadsTrue(H, toClient[i].msg)
        BY <1>6 DEF ReadsTrue, EnteringValue, GetEntityBaseline
      <3> QED
        BY <1>6, <1>9, <2>1, <3>1, <3>2 DEF DeltasAreTrue
    <2> QED
      BY <2>4, <2>5, <2>6, <2>7 DEF SameBaselines
  <1>13. ValuesShown(H)'
    BY <1>6, <1>9 DEF InTruth, ValuesShown
  <1> QED
    BY <1>9, <1>10, <1>11, <1>12, <1>13 DEF InTruth

-----------------------------------------------------------------------------
(* The client reads a packet.                                              *)

\* What an accepted message makes of the baselines on the client.
BasesAfter(c, m, new) ==
  /\ ~m.updateBaseline => new.baselines = c.baselines
  /\ m.updateBaseline =>
       /\ new.baselines[m.baseline] = c.baselines[m.baseline]
       /\ \A s \in Slots : new.baselines[Flip(m.baseline)][s] =
            IF s \in Enter(m) THEN Baseline(m.updates[s].class, EnteringValue(c, m, s))
                              ELSE c.baselines[m.baseline][s]

LEMMA AcceptedIs ==
  ASSUME NEW t, NEW c \in ClientRecords(t), NEW m \in Messages(t), NEW new,
         new = ProcessPacketEntities(c, m), new.state = "full", new.deltaTick # c.deltaTick
  PROVE  /\ new.entities = ReadPacketEntities(c, m) /\ BasesAfter(c, m, new)
         /\ BaselineAcks(c, m) = IF m.updateBaseline THEN <<[tick |-> m.tick, nr |-> m.baseline]>> ELSE <<>>
  <1>1. Accepted(c, m, new)
    <2>1. ~(Ignores(c, m) /\ new = c)
      OBVIOUS
    <2>2. ~Refused(c, m, new)
      BY DEF Refused, ClientRecords
    <2> QED
      BY <2>1, <2>2, ReadCases
  <1>2. PICK frames, entities, bases :
          /\ frames = KeptFrames(c, m) \cup {[tick |-> m.tick, view |-> ViewAfter(m, OldView(c, m))]}
          /\ entities = ReadPacketEntities(c, m)
          /\ bases = IF m.updateBaseline THEN [c.baselines EXCEPT ![Flip(m.baseline)] = UpdatedBaseline(c, m)]
                                         ELSE c.baselines
    OBVIOUS
  <1>3. new.entities = entities /\ new.baselines = bases
    <2>1. new = [c EXCEPT !.state = "full", !.deltaTick = m.tick, !.frames = frames,
                          !.entities = entities, !.baselines = bases]
      BY <1>1, <1>2 DEF Accepted
    <2> QED
      BY <2>1 DEF ClientRecords
  <1>4. BasesAfter(c, m, new)
    <2>1. CASE m.updateBaseline
      <3>1. m.baseline \in 0 .. 1 /\ c.baselines \in [0 .. 1 -> Kept]
        BY DEF Messages, ClientRecords
      <3>2. Flip(m.baseline) \in 0 .. 1 /\ Flip(m.baseline) # m.baseline
        BY <3>1 DEF Flip
      <3>3. bases[m.baseline] = c.baselines[m.baseline] /\ bases[Flip(m.baseline)] = UpdatedBaseline(c, m)
        BY <1>2, <2>1, <3>1, <3>2
      <3>4. \A s \in Slots : UpdatedBaseline(c, m)[s] =
              IF s \in Enter(m) THEN Baseline(m.updates[s].class, EnteringValue(c, m, s))
                                ELSE c.baselines[m.baseline][s]
        BY DEF UpdatedBaseline, Enter
      <3> QED
        BY <1>3, <2>1, <3>3, <3>4 DEF BasesAfter
    <2>2. CASE ~m.updateBaseline
      BY <1>2, <1>3, <2>2 DEF BasesAfter
    <2> QED
      BY <2>1, <2>2
  <1>5. BaselineAcks(c, m) = IF m.updateBaseline THEN <<[tick |-> m.tick, nr |-> m.baseline]>> ELSE <<>>
    <2>1. ~Ignores(c, m)
      BY <1>1 DEF Accepted
    <2> QED
      BY <2>1 DEF BaselineAcks
  <1> QED
    BY <1>2, <1>3, <1>4, <1>5

LEMMA FullTruth ==
  ASSUME Typed, NEW H, InStep(H), InStep(H)', InTruth(H), UNCHANGED <<client, toServer>>, ReadsFull
  PROVE  InTruth(H)'
  <1>1. PICK n, m, F, to : n = m_nTickCount /\ m = fullUpdates[1] /\ F = client.fullSent /\ to = H[F]
    OBVIOUS
  <1>2. Pending /\ ~Pending' /\ fullUpdates' = <<>>
    BY DEF ReadsFull, Pending
  <1>3. Waits /\ m.tick = F /\ IsFull(H, m) /\ F >= 1
    BY <1>1, <1>2 DEF InStep, FullUpdate
  <1>4. /\ Asks /\ Fresh(client) /\ client.updateTick = F /\ client.baselinesSent = to.view
        /\ \A i \in DOMAIN acks : acks[i].tick < F
        /\ m.baseline = 0 /\ m.updateBaseline /\ ReadsTrue(H, m)
        /\ client.deltaTick = -1 /\ \A nr \in 0 .. 1 : cl.baselines[nr] = Nobody
    BY <1>1, <1>2, <1>3 DEF InTruth, FullIsTrue, Waiting
  <1>5. m \in Messages(n) /\ F \in 1 .. n /\ n \in Nat /\ n \in 0 .. MaxTick /\ cl \in ClientRecords(n)
    <2>1. 1 \in DOMAIN fullUpdates
      BY <1>2 DEF InStep, FullUpdate, Typed
    <2> QED
      BY <1>1, <1>3, <2>1, UnderWay DEF Typed, WorldTyped
  <1>6. History(H, n)
    BY <1>1 DEF InStep
  <1>7. PICK new : new = ProcessPacketEntities(cl, m)
    OBVIOUS
  <1>8. Shows(H, new, m, {}) /\ new \in ClientRecords(n)
    BY <1>3, <1>5, <1>6, <1>7, FullRead
  <1>9. /\ new.state = "full" /\ new.deltaTick = F /\ F # -1
        /\ \E f : f.tick = F /\ new.frames = {f}
    BY <1>3, <1>5, <1>8 DEF Shows
  <1>10. /\ new.entities = ReadPacketEntities(cl, m) /\ BasesAfter(cl, m, new)
         /\ BaselineAcks(cl, m) = <<[tick |-> F, nr |-> 0]>>
    BY <1>3, <1>4, <1>5, <1>7, <1>9, AcceptedIs DEF Asks
  <1>11. /\ cl'.deltaTick = F /\ cl'.entities = new.entities /\ cl'.baselines = new.baselines
         /\ cl'.frames = new.frames
    <2>1. cl' = [new EXCEPT !.fullReceived = m.tick]
      BY <1>1, <1>7 DEF ReadsFull
    <2> QED
      BY <1>8, <1>9, <2>1 DEF ClientRecords
  <1>12. acks' = Append(acks, [tick |-> F, nr |-> 0])
    <2>1. acks \in Seq(AckRecords(n))
      BY <1>1 DEF Typed
    <2>2. acks' = acks \o <<[tick |-> F, nr |-> 0]>>
      BY <1>1, <1>10 DEF ReadsFull
    <2>3. PICK A : acks \in Seq(A)
      BY <2>1
    <2> QED
      BY <2>2, <2>3
  <1>13. /\ \A i \in DOMAIN acks' : acks'[i].tick <= F
    <2>1. PICK k : k = Len(acks) + 1
      OBVIOUS
    <2>2. PICK A : acks \in Seq(A)
      BY DEF Typed
    <2>3. \A i \in DOMAIN acks' : acks'[i].tick = F \/ (i \in DOMAIN acks /\ acks'[i] = acks[i])
      BY <1>12, <2>1, <2>2
    <2>4. \A i \in DOMAIN acks : acks[i].tick \in 1 .. n
      BY <1>1, AcksTyped
    <2> QED
      BY <1>4, <1>5, <2>3, <2>4
  <1>14. ~Asks' /\ Waits' /\ ~Unsent' /\ Ticks' = {F}
    BY <1>3, <1>9, <1>11 DEF Asks, Waits, Unsent, Ticks
  <1>15. Waiting' /\ FullIsTrue(H)'
    BY <1>2, <1>4, <1>14 DEF Waiting, FullIsTrue
  <1>16. \A i \in DOMAIN toClient' : ~Carries(i)' /\ ~Updating(i)'
    BY <1>2, <1>14 DEF InStep, DatagramsToClient, Updating
  <1>17. /\ \A s \in to.view : s \in Slots /\ to.ents[s] # NoEntity
         /\ Enter(m) = to.view
    <2>1. \A s \in to.view : s \in Slots /\ to.ents[s] # NoEntity
      BY <1>1, <1>5, <1>6, EntityOf
    <2>2. \A s \in Slots : Tells(m, s, NoFrame, to)
      BY <1>1, <1>3 DEF IsFull
    <2>3. Enter(m) = Entering(NoFrame, to)
      BY <2>1, <2>2, EnterIs
    <2> QED
      BY <2>1, <2>3 DEF Entering, NoFrame
  <1>18. \A s \in to.view : m.updates[s].class = to.ents[s].class /\ EnteringValue(cl, m, s) = to.ents[s].value
    <2>1. ASSUME NEW s \in to.view PROVE m.updates[s].class = to.ents[s].class
      <3>1. Tells(m, s, NoFrame, to) /\ s \in Entering(NoFrame, to)
        BY <1>1, <1>3, <1>17 DEF IsFull, Entering, NoFrame
      <3> QED
        BY <3>1 DEF Tells
    <2> QED
      BY <1>1, <1>3, <1>4, <1>17, <2>1 DEF ReadsTrue
  <1>19. InUse(client)'
    <2>1. new.baselines[0] = Nobody
      BY <1>4, <1>10 DEF BasesAfter
    <2>2. client.baseline = Nobody /\ client.baselineUsed = 0
      BY <1>4 DEF Fresh
    <2> QED
      BY <1>11, <2>1, <2>2 DEF InUse, AsKept, Nobody
  <1>20. Acknowledged(H, client)'
    <2> SUFFICES ASSUME NEW s \in Slots
                 PROVE  cl'.baselines[Flip(client.baselineUsed)][s] = AsKept(Sent(H, client, s))
      BY DEF Acknowledged, Sent
    <2>1. client.baseline[s] = NoEntity /\ client.baselineUsed = 0 /\ cl.baselines[0][s] = NoEntity
      BY <1>4 DEF Fresh, Nobody
    <2>2. new.baselines[Flip(0)][s] = IF s \in to.view THEN Baseline(m.updates[s].class, EnteringValue(cl, m, s))
                                                       ELSE NoEntity
      BY <1>4, <1>10, <1>17, <2>1 DEF BasesAfter
    <2>3. CASE s \in to.view
      <3>1. Sent(H, client, s) = to.ents[s]
        BY <1>1, <1>4, <2>3 DEF Sent
      <3> QED
        BY <1>11, <1>17, <1>18, <2>1, <2>2, <2>3, <3>1 DEF AsKept
    <2>4. CASE s \notin to.view
      <3>1. Sent(H, client, s) = NoEntity
        BY <1>4, <2>1, <2>4 DEF Sent
      <3> QED
        BY <1>11, <2>1, <2>2, <2>4, <3>1 DEF AsKept
    <2> QED
      BY <2>3, <2>4
  <1>21. SameBaselines(H, client)' /\ DeltasAreTrue(H)'
    BY <1>11, <1>13, <1>16, <1>19, <1>20 DEF SameBaselines, UpdatesUnderWay, DeltasAreTrue
  <1>22. ValuesShown(H)'
    <2> SUFFICES ASSUME NEW s \in to.view PROVE \E u \in F .. F : cl'.entities[s].value = H[u].ents[s].value
      BY <1>1, <1>14 DEF ValuesShown
    <2>1. PICK v : v = ReadPacketEntities(cl, m)[s]
      OBVIOUS
    <2>2. s \in Slots /\ m.updates[s].type = "enter" /\ s \notin m.deletions
      BY <1>3, <1>17 DEF Enter, IsFull
    <2>3. v = CL_CopyNewEntity(cl, m, s)
      BY <1>5, <2>1, <2>2, SlotRead
    <2>4. v.value = to.ents[s].value
      BY <1>18, <2>3 DEF CL_CopyNewEntity
    <2>5. F \in F .. F
      BY <1>5
    <2> QED
      BY <1>1, <1>10, <1>11, <2>1, <2>4, <2>5
  <1> QED
    BY <1>15, <1>21, <1>22 DEF InTruth

\* Of an entity that still lives the client has the value of some tick since.
HasValues(H, c, A) ==
  \A a \in A :
    /\ a \in 1 .. c.deltaTick /\ \E f \in c.frames : f.tick = a
    /\ \A s \in Slots : s \in H[a].view /\ Alike(H[a].ents[s], H[c.deltaTick].ents[s]) =>
         \E t \in a .. c.deltaTick : c.entities[s].value = H[t].ents[s].value
\* A delta gives the values of its snapshot.
GivesValues(H, c, m) ==
  /\ \A s \in Enter(m) : EnteringValue(c, m, s) = H[m.tick].ents[s].value
  /\ \A s \in Slots : TellsChange(m, s, H[m.deltaFrom], H[m.tick])

LEMMA DeltaValues ==
  ASSUME NEW n \in 0 .. MaxTick, NEW c \in ClientRecords(n), NEW m \in Messages(n), NEW H, History(H, n),
         IsDelta(H, m), Knows(H, c, m), GivesValues(H, c, m), NEW A, HasValues(H, c, A), m.deltaFrom \in A,
         NEW a \in A \cup {m.tick}, NEW s \in Slots,
         s \in H[a].view, Alike(H[a].ents[s], H[m.tick].ents[s]),
         NEW v, v = ReadPacketEntities(c, m)[s]
  PROVE  \E t \in a .. m.tick : v.value = H[t].ents[s].value
  <1>0. PICK b, d, g : b = m.tick /\ d = m.deltaFrom /\ g = c.deltaTick
    OBVIOUS
  <1>1. PICK from, to : from = H[d] /\ to = H[b]
    OBVIOUS
  <1>2. /\ b \in 1 .. n /\ d \in 1 .. b - 1 /\ g \in d .. b - 1 /\ n \in Nat
        /\ b \in Nat /\ d \in Nat /\ g \in Nat /\ d \in 1 .. n /\ g \in 1 .. n
        /\ d <= g /\ g < b /\ g \in d .. b /\ b \in b .. b /\ d < b
    <2>1. b \in 1 .. n /\ n \in Nat
      BY <1>0, SnapshotsAssumption DEF Messages
    <2>2. d \in 1 .. b - 1 /\ g \in d .. b - 1
      BY <1>0 DEF IsDelta, Knows
    <2> QED
      BY <2>1, <2>2
  <1>3. /\ to.ents[s] \in Entity \cup {NoEntity} /\ to.tick = b /\ from.tick = d
        /\ \A x \in 1 .. n : H[x].ents[s] \in Entity \cup {NoEntity}
        /\ \A x \in to.view : to.ents[x] # NoEntity
    <2>1. \A x \in 1 .. n : H[x] \in Frame /\ H[x].tick = x /\ \A y \in H[x].view : H[x].ents[y] # NoEntity
      BY DEF History
    <2>2. \A x \in 1 .. n : H[x].ents[s] \in Entity \cup {NoEntity}
      BY <2>1 DEF Frame
    <2> QED
      BY <1>1, <1>2, <2>1, <2>2
  <1>4. a \in 1 .. b /\ (a \in A => a \in 1 .. g) /\ a \in Nat /\ b \in a .. b
    <2>1. a \in A => a \in 1 .. g
      BY <1>0 DEF HasValues
    <2> QED
      BY <1>0, <1>2, <2>1
  <1>5. to.view \subseteq Slots /\ \A x \in Slots : Tells(m, x, from, to)
    <2>1. H[b] \in Frame
      BY <1>2 DEF History
    <2> QED
      BY <1>0, <1>1, <2>1 DEF Frame, IsDelta
  <1>6. Enter(m) = Entering(from, to)
    BY <1>5, EnterIs
  <1>7. s \notin m.deletions
    <2>1. SUFFICES ASSUME s \in m.deletions PROVE FALSE
      OBVIOUS
    <2>2. s \notin to.view /\ \A x \in 1 .. b - 1 : ~Alike(H[x].ents[s], to.ents[s])
      BY <1>0, <1>1, <2>1 DEF IsDelta
    <2>3. a # b /\ a \in 1 .. b - 1
      BY <1>1, <1>2, <1>4, <2>2
    <2> QED
      BY <1>0, <1>1, <2>2, <2>3
  <1>8. /\ m.updates[s] \in Updates
        /\ m.updates[s].type = "enter" => v = CL_CopyNewEntity(c, m, s)
        /\ m.updates[s].type = "delta" => v = [c.entities[s] EXCEPT !.value = m.updates[s].value]
        /\ m.updates[s].type = "leave" /\ ~m.updates[s].delete => v = c.entities[s]
        /\ m.updates[s].type = "none" => v = c.entities[s]
    <2>1. m.isDelta
      BY DEF IsDelta
    <2> QED
      BY <1>7, <2>1, SlotRead
  \* an entity that lives at x and at b lives in between, the same
  <1>9. ASSUME NEW x \in 1 .. n, x <= g, Alike(H[x].ents[s], to.ents[s])
        PROVE  /\ Alike(H[x].ents[s], H[g].ents[s])
               /\ \A y \in x .. g : to.ents[s].changed <= y => H[y].ents[s].value = to.ents[s].value
    <2>1. x <= b /\ \A y \in x .. g : y \in x .. b /\ y \in 1 .. n /\ y <= b
      BY <1>2, <1>9
    <2>2. \A y \in x .. g : Alike(H[y].ents[s], H[x].ents[s])
      BY <1>1, <1>2, <1>9, <2>1 DEF History
    <2>3. g \in x .. g
      BY <1>2, <1>9
    <2>4. \A y \in x .. g : Alike(H[y].ents[s], to.ents[s])
      BY <1>9, <2>2 DEF Alike
    <2>5. \A y \in x .. g : to.ents[s].changed <= y => H[y].ents[s].value = to.ents[s].value
      <3> SUFFICES ASSUME NEW y \in x .. g, H[b].ents[s].changed <= y
                   PROVE  H[y].ents[s].value = H[b].ents[s].value
        BY <1>1
      <3>1. y \in 1 .. n /\ b \in 1 .. n /\ y <= b /\ Alike(H[y].ents[s], H[b].ents[s])
        BY <1>1, <1>2, <2>1, <2>4
      <3> QED
        BY <3>1 DEF History
    <2> QED
      BY <2>2, <2>3, <2>5 DEF Alike
  <1>10. CASE s \in Entering(from, to)
    <2>1. v = CL_CopyNewEntity(c, m, s)
      BY <1>6, <1>8, <1>10 DEF Enter
    <2>2. v.value = H[b].ents[s].value
      BY <1>0, <1>6, <1>10, <2>1 DEF CL_CopyNewEntity, GivesValues
    <2> QED
      BY <1>0, <1>4, <2>2
  <1>11. CASE s \in from.view /\ s \in to.view /\ s \notin Entering(from, to)
    <2>1. Alike(from.ents[s], to.ents[s]) /\ to.ents[s] \in Entity
      BY <1>3, <1>11 DEF Entering, SV_NeedsExplicitCreate, Alike
    <2>2. Alike(from.ents[s], H[g].ents[s])
          /\ \A y \in d .. g : to.ents[s].changed <= y => H[y].ents[s].value = to.ents[s].value
      BY <1>1, <1>2, <1>9, <2>1
    <2>3. m.updates[s] = IF to.ents[s].changed > d THEN DeltaEnt(to.ents[s].value) ELSE NoUpdate
      BY <1>0, <1>1, <1>3, <1>11 DEF GivesValues, TellsChange
    <2>4. PICK x \in d .. g : c.entities[s].value = H[x].ents[s].value
      BY <1>0, <1>1, <1>11, <2>2 DEF HasValues
    <2>5. CASE to.ents[s].changed > d
      <3>1. m.updates[s] = DeltaEnt(to.ents[s].value)
        BY <2>3, <2>5
      <3>2. m.updates[s].type = "delta" /\ m.updates[s].value = to.ents[s].value
        BY <3>1 DEF DeltaEnt
      <3>3. c.entities[s] \in Shown
        <4>1. PICK f \in c.frames : f.tick = d
          BY <1>0 DEF HasValues
        <4>2. Alike(c.entities[s], H[g].ents[s])
          BY <1>0, <1>1, <1>11, <2>2, <4>1 DEF Knows
        <4> QED
          BY <4>2 DEF Alike, ClientRecords
      <3>4. v.value = to.ents[s].value
        BY <1>8, <3>2, <3>3 DEF Shown
      <3> QED
        BY <1>0, <1>1, <1>4, <3>4
    <2>6. CASE ~(to.ents[s].changed > d)
      <3>1. m.updates[s] = NoUpdate
        BY <2>3, <2>6
      <3>2. v = c.entities[s]
        BY <1>8, <3>1 DEF NoUpdate
      <3>3. to.ents[s].changed <= x
        <4>1. to.ents[s].changed \in Int /\ x \in Int /\ d <= x
          BY <1>2, <2>1, SnapshotsAssumption DEF Entity
        <4> QED
          BY <1>2, <2>6, <4>1
      <3>4. v.value = to.ents[s].value
        BY <2>2, <2>4, <3>2, <3>3
      <3> QED
        BY <1>0, <1>1, <1>4, <3>4
    <2> QED
      BY <2>5, <2>6
  <1>12. CASE s \notin to.view
    <2>1. a \in A /\ a \in 1 .. n /\ a <= g
      <3>1. a # b
        BY <1>1, <1>12
      <3> QED
        BY <1>0, <1>2, <1>4, <3>1
    <2>2. Alike(H[a].ents[s], H[g].ents[s])
      BY <1>0, <1>1, <1>9, <2>1
    <2>3. PICK x \in a .. g : c.entities[s].value = H[x].ents[s].value
      BY <1>0, <2>1, <2>2 DEF HasValues
    <2>4. x \in a .. b
      BY <1>2, <1>4
    <2>5. v = c.entities[s]
      <3>1. CASE s \in from.view
        <4>1. m.updates[s] = LeavePVS(SV_NeedsExplicitDestroy(s, from, to))
          BY <1>5, <1>12, <3>1 DEF Tells
        <4>2. ~SV_NeedsExplicitDestroy(s, from, to)
          BY <1>0, <1>1 DEF SV_NeedsExplicitDestroy, Alike
        <4>3. m.updates[s].type = "leave" /\ ~m.updates[s].delete
          BY <4>1, <4>2 DEF LeavePVS
        <4> QED
          BY <1>8, <4>3
      <3>2. CASE s \notin from.view
        BY <1>5, <1>8, <1>12, <3>2 DEF Tells
      <3> QED
        BY <3>1, <3>2
    <2> QED
      BY <1>0, <2>3, <2>4, <2>5
  <1>13. CASE s \in to.view /\ s \notin from.view
    BY <1>10, <1>13 DEF Entering
  <1> QED
    BY <1>10, <1>11, <1>12, <1>13

\* The next delta can be read by a client that asks for nothing.
NextIsReadable(H, m) ==
  /\ m \in Messages(m_nTickCount) /\ m.tick \in 1 .. m_nTickCount
  /\ IsDelta(H, m) /\ cl.deltaTick < m.tick /\ m.deltaFrom \in Ticks /\ cl.deltaTick \in Ticks
  /\ \A u \in Ticks : u <= cl.deltaTick /\ u \in Int
  /\ Knows(H, cl, m)

LEMMA NextReadable ==
  ASSUME Typed, NEW H, InStep(H), 1 \in DOMAIN toClient, Carries(1), ~Asks
  PROVE  NextIsReadable(H, toClient[1].msg)
  <1>1. PICK t, m, g : t = m_nTickCount /\ m = toClient[1].msg /\ g = cl.deltaTick
    OBVIOUS
  <1>2. m \in Messages(t) /\ m.tick \in 1 .. t /\ t \in Nat /\ Ticks \subseteq 1 .. t
    BY <1>1, UnderWay
  <1>3. /\ IsDelta(H, m) /\ g < m.tick /\ m.deltaFrom \in Ticks /\ g \in Ticks
        /\ \A u \in Ticks : u <= g /\ u \in Int
    <2>1. /\ IsDelta(H, m) /\ g < m.tick /\ m.deltaFrom \in Ticks /\ g \in Ticks
          /\ \A u \in Ticks : u <= g
      BY <1>1 DEF InStep, Readable
    <2> QED
      BY <1>2, <2>1
  <1>4. Knows(H, cl, m)
    <2>1. g \in m.deltaFrom .. m.tick - 1
      <3>1. m.deltaFrom <= g /\ m.deltaFrom \in Int /\ g \in Int /\ m.tick \in Int
        <4>1. m.deltaFrom \in Ticks /\ g \in Ticks /\ m.tick \in 1 .. t
          BY <1>2, <1>3
        <4>2. m.deltaFrom <= g /\ m.deltaFrom \in Int /\ g \in Int
          BY <1>3, <4>1
        <4> QED
          BY <4>1, <4>2
      <3>2. g < m.tick
        BY <1>3
      <3> QED
        BY <3>1, <3>2
    <2>2. \A f \in cl.frames : f.view = H[f.tick].view /\ f.tick <= g
      BY <1>3 DEF InStep, FramesKept, Ticks
    <2>3. ASSUME NEW s \in Slots, NEW f \in cl.frames, s \in H[f.tick].view,
                 Alike(H[f.tick].ents[s], H[g].ents[s])
          PROVE  Alike(cl.entities[s], H[g].ents[s]) /\ cl.entities[s].class = H[g].ents[s].class
      <3>1. Has(H, g, s)
        BY <2>3 DEF Has, Ticks
      <3> QED
        BY <1>3, <3>1 DEF InStep, Picture
    <2> QED
      BY <1>1, <1>3, <2>1, <2>2, <2>3 DEF Knows, Ticks
  <1> QED
    BY <1>1, <1>2, <1>3, <1>4 DEF NextIsReadable

LEMMA DeltaTruth ==
  ASSUME Typed, NEW H, InStep(H), InTruth(H), toClient # <<>>, toClient' = Tail(toClient),
         UNCHANGED <<client, toServer>>, ReadsDelta, ~Asks
  PROVE  InTruth(H)'
  <1>1. PICK n, m, g, b, used : n = m_nTickCount /\ m = toClient[1].msg /\ g = cl.deltaTick /\ b = m.tick
                                /\ used = client.baselineUsed
    OBVIOUS
  <1>2. /\ 1 \in DOMAIN toClient
        /\ \A i \in DOMAIN toClient' : i + 1 \in DOMAIN toClient /\ toClient'[i] = toClient[i + 1] /\ 1 < i + 1
        /\ \A i, j \in DOMAIN toClient' : i < j => i + 1 < j + 1
    BY TailIs DEF Typed
  <1>3. Carries(1) /\ fullUpdates' = fullUpdates /\ Pending' = Pending /\ Waits' = Waits /\ Unsent' = Unsent
        /\ (m.updateBaseline => Updating(1))
    BY <1>1 DEF ReadsDelta, Carries, Pending, Waits, Unsent, Updating
  <1>4. NextIsReadable(H, m)
    BY <1>1, <1>2, <1>3, NextReadable
  <1>5. /\ m \in Messages(n) /\ b \in 1 .. n /\ IsDelta(H, m) /\ g < b /\ m.deltaFrom \in Ticks /\ g \in Ticks
        /\ \A u \in Ticks : u <= g /\ u \in Int
        /\ Knows(H, cl, m)
    BY <1>1, <1>4 DEF NextIsReadable
  <1>6. /\ n \in 0 .. MaxTick /\ n \in Nat /\ cl \in ClientRecords(n) /\ History(H, n)
        /\ \A i \in DOMAIN acks : acks[i].tick \in 1 .. n
        /\ g \in Int /\ b \in Int /\ Ticks \subseteq 1 .. n /\ used \in 0 .. 1
    <2>1. n \in 0 .. MaxTick /\ n \in Nat /\ cl \in ClientRecords(n) /\ used \in 0 .. 1
      BY <1>1, UnderWay DEF Typed, WorldTyped, ServerRecords
    <2>2. History(H, n) /\ Ticks \subseteq 1 .. n /\ \A i \in DOMAIN acks : acks[i].tick \in 1 .. n
      BY <1>1, UnderWay, AcksTyped DEF InStep
    <2>3. g \in Int /\ b \in Int
      BY <1>5
    <2> QED
      BY <2>1, <2>2, <2>3
  <1>7. SameBaselines(H, client) /\ DeltasAreTrue(H)
    BY DEF InTruth
  <1>8. /\ ReadsTrue(H, m) /\ \A s \in Slots : TellsChange(m, s, H[m.deltaFrom], H[b])
        /\ \A i \in DOMAIN acks : acks[i].tick <= g
    BY <1>1, <1>2, <1>3, <1>7 DEF DeltasAreTrue
  <1>9. PICK new : new = cl'
    OBVIOUS
  <1>10. new = ProcessPacketEntities(cl, m)
    BY <1>1, <1>9 DEF ReadsDelta
  <1>11. Shows(H, new, m, {f \in cl.frames : m.deltaFrom <= f.tick})
    <2>1. ShowsDelta(H, cl, m, new)
      BY <1>5, <1>6, <1>10, DeltaRead
    <2> QED
      BY <2>1 DEF ShowsDelta
  <1>12. /\ new.state = "full" /\ new.deltaTick = b /\ b # g /\ ~Asks' /\ b # -1
         /\ Ticks' = {u \in Ticks : m.deltaFrom <= u} \cup {b}
    <2>1. PICK kept : kept = {f \in cl.frames : m.deltaFrom <= f.tick}
      OBVIOUS
    <2>2. PICK f : f.tick = b /\ new.frames = kept \cup {f}
      BY <1>1, <1>11, <2>1 DEF Shows
    <2>3. Ticks' = {u \in Ticks : m.deltaFrom <= u} \cup {b}
      BY <1>9, <2>1, <2>2 DEF Ticks
    <2> QED
      BY <1>1, <1>5, <1>6, <1>9, <1>11, <2>3 DEF Shows, Asks
  <1>13. /\ new.entities = ReadPacketEntities(cl, m) /\ BasesAfter(cl, m, new)
         /\ BaselineAcks(cl, m) = IF m.updateBaseline THEN <<[tick |-> b, nr |-> m.baseline]>> ELSE <<>>
    BY <1>1, <1>5, <1>6, <1>10, <1>12, AcceptedIs
  <1>14. \A i \in DOMAIN acks' : (i \in DOMAIN acks /\ acks'[i] = acks[i]) \/ (m.updateBaseline /\ acks'[i].tick = b)
    <2>1. PICK A : acks \in Seq(A)
      BY DEF Typed
    <2>2. acks' = acks \o BaselineAcks(cl, m)
      BY <1>1 DEF ReadsDelta
    <2>3. CASE m.updateBaseline
      <3>1. PICK ack : ack = [tick |-> b, nr |-> m.baseline]
        OBVIOUS
      <3>2. acks' = acks \o <<ack>> /\ ack.tick = b
        BY <1>13, <2>2, <2>3, <3>1
      <3>3. \A i \in DOMAIN acks' : acks'[i] = ack \/ (i \in DOMAIN acks /\ acks'[i] = acks[i])
        BY <2>1, <3>2
      <3> QED
        BY <2>3, <3>2, <3>3
    <2>4. CASE ~m.updateBaseline
      <3>1. acks' = acks
        BY <1>13, <2>1, <2>2, <2>4
      <3> QED
        BY <3>1
    <2> QED
      BY <2>3, <2>4
  <1>15. /\ m.updateBaseline => m.baseline = used
         /\ m.updateBaseline /\ client.updateTick # -1 => b <= client.updateTick
         /\ m.updateBaseline /\ b = client.updateTick => client.baselinesSent = Enter(m)
    BY <1>1, <1>2, <1>3, <1>7 DEF SameBaselines, UpdatesUnderWay
  <1>16. new.baselines[used] = cl.baselines[used]
    BY <1>13, <1>15 DEF BasesAfter
  <1>17. Waiting'
    BY <1>3, <1>12 DEF InTruth, Waiting, Fresh
  <1>18. FullIsTrue(H)'
    <2>1. ~Pending
      BY DEF InTruth, FullIsTrue
    <2> QED
      BY <1>3, <2>1 DEF FullIsTrue
  <1>19. InUse(client)'
    BY <1>1, <1>7, <1>9, <1>16 DEF SameBaselines, InUse
  <1>20. Acknowledged(H, client)'
    <2> SUFFICES ASSUME NEW i \in DOMAIN acks', acks'[i].tick = client.updateTick, NEW s \in Slots
                 PROVE  new.baselines[Flip(used)][s] = AsKept(Sent(H, client, s))
      BY <1>1, <1>9 DEF Acknowledged, Sent
    <2>1. CASE i \in DOMAIN acks /\ acks'[i] = acks[i]
      <3>1. ~m.updateBaseline
        <4>1. acks[i].tick <= g /\ acks[i].tick = client.updateTick /\ acks[i].tick \in 1 .. n
          BY <1>6, <1>8, <2>1
        <4>2. client.updateTick # -1 /\ ~(b <= client.updateTick)
          BY <1>5, <1>6, <4>1
        <4> QED
          BY <1>15, <4>2
      <3>2. new.baselines = cl.baselines
        BY <1>13, <3>1 DEF BasesAfter
      <3> QED
        BY <1>1, <1>7, <2>1, <3>2 DEF SameBaselines, Acknowledged
    <2>2. CASE m.updateBaseline /\ acks'[i].tick = b
      <3>1. client.updateTick = b /\ client.baselinesSent = Enter(m) /\ m.baseline = used
        BY <1>15, <2>2
      <3>2. new.baselines[Flip(used)][s] = IF s \in Enter(m) THEN Baseline(m.updates[s].class, EnteringValue(cl, m, s))
                                                             ELSE cl.baselines[used][s]
        BY <1>13, <2>2, <3>1 DEF BasesAfter
      <3>3. CASE s \in Enter(m)
        <4>1. PICK from, to : from = H[m.deltaFrom] /\ to = H[b]
          OBVIOUS
        <4>2. to.view \subseteq Slots /\ \A x \in Slots : Tells(m, x, from, to)
          BY <1>1, <1>5, <1>6, <4>1, EntityOf DEF IsDelta
        <4>3. s \in Entering(from, to) /\ s \in to.view
          <5>1. Enter(m) = Entering(from, to)
            BY <4>2, EnterIs
          <5> QED
            BY <3>3, <5>1 DEF Entering
        <4>4. m.updates[s].class = to.ents[s].class /\ EnteringValue(cl, m, s) = to.ents[s].value
          BY <1>1, <1>8, <3>3, <4>1, <4>2, <4>3 DEF Tells, ReadsTrue
        <4>5. to.ents[s] # NoEntity
          BY <1>5, <1>6, <4>1, <4>3, EntityOf
        <4>6. Sent(H, client, s) = to.ents[s]
          BY <3>1, <3>3, <4>1 DEF Sent
        <4> QED
          BY <3>2, <3>3, <4>4, <4>5, <4>6 DEF AsKept
      <3>4. CASE s \notin Enter(m)
        <4>1. Sent(H, client, s) = client.baseline[s]
          BY <3>1, <3>4 DEF Sent
        <4>2. cl.baselines[used][s] = AsKept(client.baseline[s])
          BY <1>1, <1>7 DEF SameBaselines, InUse
        <4> QED
          BY <3>2, <3>4, <4>1, <4>2
      <3> QED
        BY <3>3, <3>4
    <2> QED
      BY <1>14, <2>1, <2>2
  <1>21. \A i \in DOMAIN toClient' : Carries(i)' = Carries(i + 1) /\ Updating(i)' = Updating(i + 1)
    BY <1>2 DEF Carries, Updating
  <1>22. UpdatesUnderWay(client)'
    BY <1>2, <1>7, <1>21 DEF SameBaselines, UpdatesUnderWay, Enter
  <1>23. DeltasAreTrue(H)'
    <2>1. \A i \in DOMAIN acks' : acks'[i].tick <= b
      <3>1. \A i \in DOMAIN acks : acks[i].tick <= b
        BY <1>5, <1>6, <1>8
      <3>2. b <= b
        BY <1>6
      <3> QED
        BY <1>14, <3>1, <3>2
    <2>2. ASSUME NEW i \in DOMAIN toClient', Carries(i)'
          PROVE  /\ ReadsTrue(H, toClient[i].msg)'
                 /\ \A s \in Slots : TellsChange(toClient'[i].msg, s, H[toClient'[i].msg.deltaFrom], H[toClient'[i].msg.tick])
      <3>1. PICK x : x = toClient[i + 1].msg
        OBVIOUS
      <3>2. /\ toClient'[i].msg = x /\ ReadsTrue(H, x)
            /\ \A s \in Slots : TellsChange(x, s, H[x.deltaFrom], H[x.tick])
            /\ m.updateBaseline => x.baseline = used
        <4>1. i + 1 \in DOMAIN toClient /\ Carries(i + 1) /\ toClient'[i].msg = x
          BY <1>2, <1>21, <2>2, <3>1
        <4>2. m.updateBaseline => x.baseline = m.baseline
          BY <1>1, <1>2, <1>3, <1>7, <3>1, <4>1 DEF DeltasAreTrue
        <4> QED
          BY <1>7, <1>15, <3>1, <4>1, <4>2 DEF DeltasAreTrue
      <3>3. new.baselines[x.baseline] = cl.baselines[x.baseline]
        BY <1>13, <1>16, <3>2 DEF BasesAfter
      <3>4. \A s \in Slots : EnteringValue(cl', x, s) = EnteringValue(cl, x, s)
        BY <1>9, <3>3 DEF EnteringValue, GetEntityBaseline
      <3>5. ReadsTrue(H, x)'
        BY <3>2, <3>4 DEF ReadsTrue, Enter, EnteringValue, GetEntityBaseline
      <3> QED
        BY <3>2, <3>5 DEF ReadsTrue, Enter, EnteringValue, GetEntityBaseline
    <2>3. \A i, j \in DOMAIN toClient' : i < j /\ Updating(i)' /\ Carries(j)' =>
            toClient'[j].msg.baseline = toClient'[i].msg.baseline
      BY <1>2, <1>7, <1>21 DEF DeltasAreTrue
    <2> QED
      BY <1>9, <1>12, <2>1, <2>2, <2>3 DEF DeltasAreTrue
  <1>24. ValuesShown(H)'
    <2> SUFFICES ASSUME NEW x \in Ticks', \A u \in Ticks' : u <= x, NEW a \in Ticks', NEW s \in Slots,
                        s \in H[a].view, Alike(H[a].ents[s], H[x].ents[s])
                 PROVE  \E u \in a .. x : cl'.entities[s].value = H[u].ents[s].value
      BY DEF ValuesShown
    <2>1. x = b
      <3>1. \A u \in Ticks' : u \in Int /\ u <= b
        <4>1. \A u \in Ticks : u \in Int /\ u <= g
          BY <1>5
        <4>2. g \in Int /\ b \in Int /\ g < b
          BY <1>5, <1>6
        <4>3. \A u \in Ticks' : u \in Ticks \/ u = b
          BY <1>12
        <4> QED
          BY <4>1, <4>2, <4>3
      <3>2. b \in Ticks' /\ x <= b /\ b <= x /\ x \in Int
        BY <1>12, <3>1
      <3> QED
        BY <1>6, <3>2
    <2>2. PICK A : A = Ticks
      OBVIOUS
    <2>3. a \in A \cup {b} /\ m.deltaFrom \in A
      BY <1>5, <1>12, <2>2
    <2>4. \A u \in A : u \in 1 .. g /\ \E f \in cl.frames : f.tick = u
      <3>1. \A u \in Ticks : \E f \in cl.frames : f.tick = u
        BY DEF Ticks
      <3>2. \A u \in Ticks : u \in 1 .. n /\ u <= g
        BY <1>5, <1>6
      <3> QED
        BY <1>6, <2>2, <3>1, <3>2
    <2>5. HasValues(H, cl, A)
      BY <1>1, <1>5, <2>2, <2>4 DEF HasValues, InTruth, ValuesShown
    <2>6. PICK v : v = ReadPacketEntities(cl, m)[s]
      OBVIOUS
    <2>8. GivesValues(H, cl, m)
      BY <1>1, <1>8 DEF GivesValues, ReadsTrue
    <2>9. \E u \in a .. m.tick : v.value = H[u].ents[s].value
      <3>1. a \in A \cup {m.tick} /\ s \in H[a].view /\ Alike(H[a].ents[s], H[m.tick].ents[s])
        BY <1>1, <2>1, <2>3
      <3>2. PICK c : c = cl
        OBVIOUS
      <3>3. /\ c \in ClientRecords(n) /\ Knows(H, c, m) /\ GivesValues(H, c, m) /\ HasValues(H, c, A)
            /\ v = ReadPacketEntities(c, m)[s]
        BY <1>5, <1>6, <2>5, <2>6, <2>8, <3>2
      <3> HIDE DEF ReadsTrue
      <3> QED
        BY <1>5, <1>6, <2>3, <3>1, <3>3, DeltaValues
    <2> QED
      BY <1>1, <1>9, <1>13, <2>1, <2>6, <2>9
  <1> QED
    BY <1>12, <1>17, <1>18, <1>19, <1>20, <1>22, <1>23, <1>24 DEF InTruth, SameBaselines

-----------------------------------------------------------------------------
(* What the client shows and compares with.                                *)

\* Datagrams are lost or ignored, or nothing happens to those under way.
LEMMA TruthOfTheRest ==
  ASSUME Typed, NEW H, InTruth(H), UNCHANGED <<client, cl, acks, fullUpdates>>,
         toClient' = toClient \/ (toClient # <<>> /\ toClient' = Tail(toClient))
  PROVE  InTruth(H)'
  <1>1. /\ SameBases(client', client) /\ client'.forceWaitForTick = client.forceWaitForTick
        /\ client'.deltaTick = client.deltaTick /\ client'.fullSent = client.fullSent
    BY DEF SameBases
  <1>2. PICK D : D = Datagrams(m_nTickCount)
    OBVIOUS
  <1>3. toClient \in Seq(D)
    BY <1>2 DEF Typed
  <1>4. CASE toClient' = toClient
    <2>1. DOMAIN toClient \subseteq Int /\ DOMAIN toClient' \subseteq Int
      BY <1>3, <1>4
    <2>2. \A i \in DOMAIN toClient' : i + 0 \in DOMAIN toClient /\ toClient'[i] = toClient[i + 0]
      BY <1>3, <1>4
    <2> QED
      BY <1>1, <2>1, <2>2, TruthKept
  <1>5. CASE toClient # <<>> /\ toClient' = Tail(toClient)
    <2>1. DOMAIN toClient \subseteq Int /\ DOMAIN toClient' \subseteq Int
      BY <1>3, <1>5
    <2>2. \A i \in DOMAIN toClient' : i + 1 \in DOMAIN toClient /\ toClient'[i] = toClient[i + 1]
      BY <1>3, <1>5, TailIs
    <2> QED
      BY <1>1, <2>1, <2>2, TruthKept
  <1> QED
    BY <1>4, <1>5

LEMMA ReadTruth ==
  ASSUME Typed, FewFrames, PacketToClient, NEW H, InStep(H), InTruth(H)
  PROVE  InTruth(H)'
  <1>1. /\ toClient # <<>> /\ toClient' = Tail(toClient) /\ UNCHANGED <<world, client, toServer>>
        /\ ReadsFull \/ ReadsDelta \/ ReadsNothing
    BY PacketReads
  <1>2. CASE ReadsFull
    <2>1. InStep(H)'
      BY ReadInStep
    <2> QED
      BY <1>1, <1>2, <2>1, FullTruth
  <1>3. CASE ReadsDelta /\ ~Asks
    BY <1>1, <1>3, DeltaTruth
  <1>4. CASE ReadsDelta /\ Asks
    <2>1. 1 \in DOMAIN toClient /\ Carries(1)
      BY <1>1, <1>4, TailIs DEF Typed, ReadsDelta, Carries
    <2>2. Ignores(cl, toClient[1].msg)
      BY <1>4, <2>1 DEF InStep, DatagramsToClient, Ignores, Asks
    <2>3. cl' = cl /\ fullUpdates' = fullUpdates
      BY <1>4, <2>2 DEF ReadsDelta, ProcessPacketEntities
    <2>4. acks' = acks
      <3>1. BaselineAcks(cl, toClient[1].msg) = <<>>
        BY <2>2 DEF BaselineAcks
      <3>2. acks \in Seq(AckRecords(m_nTickCount))
        BY DEF Typed
      <3> QED
        BY <1>4, <3>1, <3>2 DEF ReadsDelta
    <2> QED
      BY <1>1, <2>3, <2>4, TruthOfTheRest
  <1>5. CASE ReadsNothing
    BY <1>1, <1>5, TruthOfTheRest DEF ReadsNothing
  <1> QED
    BY <1>1, <1>2, <1>3, <1>4, <1>5

\* The inductive invariant.
TrueHistory == \E H : InStep(H) /\ InTruth(H)

LEMMA StepTruth ==
  ASSUME Typed, FewFrames, [Next]_vars, AckedFrameKept', TrueHistory
  PROVE  TrueHistory'
  <1>1. PICK H : InStep(H) /\ InTruth(H)
    BY DEF TrueHistory
  <1>2. CASE SendClientMessages
    <2>1. PICK G : Ticked(H, G)
      BY <1>1, <1>2, TickSends
    <2>2. InStep(G)'
      BY <1>1, <2>1, TickInStep
    <2>3. InTruth(G)'
      BY <1>1, <2>1, <2>2, TickTruth
    <2> QED
      BY <2>2, <2>3 DEF TrueHistory
  <1> SUFFICES ASSUME ~SendClientMessages PROVE InStep(H)' /\ InTruth(H)'
    BY <1>2 DEF TrueHistory
  <1>3. CASE PacketToClient
    BY <1>1, <1>3, ReadInStep, ReadTruth
  <1>4. CASE CL_Move
    <2>1. InStep(H)'
      BY <1>1, <1>4, MoveInStep
    <2>2. UNCHANGED <<client, cl, acks, fullUpdates, toClient>>
      BY <1>4 DEF CL_Move
    <2> QED
      BY <1>1, <2>1, <2>2, TruthOfTheRest
  <1>5. CASE PacketToServer
    <2>1. InStep(H)'
      BY <1>1, <1>5, ServerInStep
    <2> QED
      BY <1>1, <1>5, <2>1, ServerTruth
  <1>6. CASE LosePacket
    <2>1. InStep(H)'
      BY <1>1, <1>6, LossInStep
    <2>2. /\ UNCHANGED <<client, cl, acks, fullUpdates>>
          /\ toClient' = toClient \/ (toClient # <<>> /\ toClient' = Tail(toClient))
      BY <1>6 DEF LosePacket
    <2> QED
      BY <1>1, <2>1, <2>2, TruthOfTheRest
  <1>7. CASE ForceFullUpdate
    <2>1. InStep(H)'
      BY <1>1, <1>7, RequestInStep
    <2> QED
      BY <1>1, <1>7, <2>1, RequestTruth
  <1>8. CASE UNCHANGED vars
    <2>1. InStep(H)'
      BY <1>1, <1>8, NothingInStep
    <2>2. UNCHANGED <<client, cl, acks, fullUpdates, toClient>>
      BY <1>8 DEF vars
    <2> QED
      BY <1>1, <2>1, <2>2, TruthOfTheRest
  <1> QED
    BY <1>3, <1>4, <1>5, <1>6, <1>7, <1>8 DEF Next

LEMMA TruthAlways == Spec /\ []AckedFrameKept => []TrueHistory
  <1>1. Init => TrueHistory
    <2> SUFFICES ASSUME Init PROVE TrueHistory
      OBVIOUS
    <2>1. PICK H : InStep(H)
      BY InitInStep
    <2> QED
      BY <2>1, InitTruth DEF TrueHistory
  <1>2. TrueHistory /\ Typed /\ FewFrames /\ AckedFrameKept' /\ [Next]_vars => TrueHistory'
    BY StepTruth
  <1> QED
    BY <1>1, <1>2, TypesKept, PTL DEF Spec

\* As long as the server keeps the frame the client has acknowledged last, what
\* the client shows of the snapshot it has read last is that snapshot: the same
\* entities in view, of the same class and value (CL_ProcessPacketEntities,
\* cl_ents_parse.cpp:570), whatever is lost, late or overflows.
THEOREM SnapshotsShown == Spec /\ []AckedFrameKept => []ClientShowsSnapshot
  <1>1. Typed /\ TrueHistory => ClientShowsSnapshot
    <2> SUFFICES ASSUME Typed, NEW H, InStep(H), InTruth(H),
                        NEW f \in client.frames, NEW g \in cl.frames,
                        f.tick = g.tick, \A h \in cl.frames : h.tick <= g.tick
                 PROVE  g.view = f.view /\ \A s \in f.view : SameEntity(cl.entities[s], f.ents[s])
      BY DEF TrueHistory, ClientShowsSnapshot
    <2>1. PICK t : t = g.tick
      OBVIOUS
    <2>2. t \in Ticks /\ (\A u \in Ticks : u <= t) /\ t \in 1 .. m_nTickCount /\ m_nTickCount \in Nat
      BY <2>1, UnderWay DEF Ticks
    <2>3. f = H[t] /\ g.view = H[t].view
      <3>1. PICK u \in 1 .. m_nTickCount : f = H[u]
        BY DEF InStep, FramesKept
      <3>2. H[u].tick = u
        BY <3>1 DEF InStep, History
      <3> QED
        BY <2>1, <3>1, <3>2 DEF InStep, FramesKept
    <2>4. ASSUME NEW s \in H[t].view PROVE SameEntity(cl.entities[s], H[t].ents[s])
      <3>1. s \in Slots /\ H[t].ents[s] # NoEntity
        BY <2>2, EntityOf DEF InStep
      <3>2. Alike(H[t].ents[s], H[t].ents[s])
        BY <3>1 DEF Alike
      <3>3. Has(H, t, s)
        BY <2>2, <3>2 DEF Has
      <3>4. Alike(cl.entities[s], H[t].ents[s]) /\ cl.entities[s].class = H[t].ents[s].class
        BY <2>2, <3>1, <3>3 DEF InStep, Picture
      <3>5. \E u \in t .. t : cl.entities[s].value = H[u].ents[s].value
        BY <2>2, <3>1, <3>2 DEF InTruth, ValuesShown
      <3>6. cl.entities[s].value = H[t].ents[s].value
        BY <2>2, <3>5
      <3> QED
        BY <3>4, <3>6 DEF SameEntity, Alike
    <2> QED
      BY <2>3, <2>4
  <1> QED
    BY <1>1, TruthAlways, TypesKept, PTL

\* Under the same condition the baseline the server writes from is the one the
\* client reads from (baseclient.cpp:933-1008).
THEOREM SnapshotsAgree == Spec /\ []AckedFrameKept => []BaselinesAgree
  <1>1. TrueHistory => BaselinesAgree
    <2> SUFFICES ASSUME NEW H, InTruth(H), cl.deltaTick # -1, NEW s \in Slots
                 PROVE  cl.baselines[client.baselineUsed][s] =
                          IF client.baseline[s] = NoEntity THEN NoEntity
                          ELSE Baseline(client.baseline[s].class, client.baseline[s].value)
      BY DEF TrueHistory, BaselinesAgree
    <2>1. InUse(client)
      BY DEF InTruth, Asks, SameBaselines
    <2> QED
      BY <2>1 DEF InUse, AsKept
  <1> QED
    BY <1>1, TruthAlways, PTL

-----------------------------------------------------------------------------
(* When the server has room for the frames of all ticks.                   *)

\* With room for the frames of all ticks the server deletes a frame only when the
\* client has acknowledged a later one.
BackToAcked ==
  /\ Cardinality(client.frames) <= m_nTickCount
  /\ Waits => /\ client.deltaTick = -1
              /\ \A u \in client.fullSent .. m_nTickCount : HasFrame(client.frames, u)
  /\ ~Waits /\ client.deltaTick # -1 =>
       \A u \in client.deltaTick .. m_nTickCount : HasFrame(client.frames, u)

\* Whatever a tick sends, its frame is added.
LEMMA TickAdds ==
  ASSUME Typed, SendClientMessages
  PROVE  \E frame : frame.tick = m_nTickCount + 1 /\ client'.frames = AddFrame(client.frames, frame)
  <1>1. PICK change :
          LET frame == [tick |-> m_nTickCount + 1, ents |-> change.ents, view |-> change.view]
          IN SendSnapshot([client EXCEPT !.frames = AddFrame(client.frames, frame)], frame, change.reused)
    BY DEF SendClientMessages
  <1>2. PICK frame : frame = [tick |-> m_nTickCount + 1, ents |-> change.ents, view |-> change.view]
    OBVIOUS
  <1>3. PICK frames : frames = AddFrame(client.frames, frame)
    OBVIOUS
  <1>4. PICK c : c = [client EXCEPT !.frames = frames]
    OBVIOUS
  <1>5. SendSnapshot(c, frame, change.reused)
    BY <1>1, <1>2, <1>3, <1>4
  <1>6. client \in ServerRecords(m_nTickCount)
    BY DEF Typed
  <1>7. client'.frames = frames
    <2>1. CASE Transmit(c)
      BY <1>4, <1>6, <2>1 DEF Transmit, ServerRecords
    <2>2. CASE SendFull(c, frame, change.reused)
      BY <1>4, <1>6, <2>2 DEF SendFull, WriteDeltaEntities, OnRequestFullUpdate, ServerRecords
    <2>3. CASE SendDelta(c, frame, change.reused)
      BY <1>4, <1>6, <2>3 DEF SendDelta, WriteDeltaEntities, ServerRecords
    <2> QED
      BY <1>5, <2>1, <2>2, <2>3 DEF SendSnapshot
  <1>8. frame.tick = m_nTickCount + 1
    BY <1>2
  <1> QED
    BY <1>3, <1>7, <1>8

LEMMA TickKeeps ==
  ASSUME MaxTick <= MAX_CLIENT_FRAMES, Typed, FewFrames, SendClientMessages,
         NEW H, NEW G, Ticked(H, G), BackToAcked
  PROVE  BackToAcked'
  <1>1. PICK n, frames : n = m_nTickCount /\ frames = client.frames
    OBVIOUS
  <1>2. /\ n \in Nat /\ n + 1 \in Nat /\ n < MaxTick /\ MaxTick \in Nat /\ MAX_CLIENT_FRAMES \in Nat
        /\ m_nTickCount' = n + 1 /\ {client.fullSent, client.deltaTick} \subseteq Int /\ client.deltaTick <= n
    <2>1. {client.fullSent, client.deltaTick} \subseteq TicksTo(n)
      BY <1>1, UnderWay
    <2> QED
      BY <1>1, <2>1, UnderWay, SnapshotsAssumption DEF SendClientMessages, TicksTo
  <1>3. PICK frame : frame.tick = n + 1 /\ client'.frames = AddFrame(frames, frame)
    BY <1>1, TickAdds
  <1>4. PICK all : all = frames \cup {frame}
    OBVIOUS
  <1>5. Cardinality(all) <= n + 1 /\ Cardinality(all) \in Nat
    <2>1. IsFiniteSet(frames) /\ Cardinality(frames) <= n /\ Cardinality(frames) \in Nat
      BY <1>1, FS_CardinalityType DEF FewFrames, BackToAcked
    <2>2. Cardinality(all) = IF frame \in frames THEN Cardinality(frames) ELSE Cardinality(frames) + 1
      BY <1>4, <2>1, FS_AddElement
    <2> QED
      BY <1>2, <2>1, <2>2
  <1>6. client'.frames = all
    BY <1>2, <1>3, <1>4, <1>5 DEF AddFrame
  <1>7. ASSUME NEW u, HasFrame(frames, u) \/ u = n + 1 PROVE HasFrame(all, u)
    BY <1>3, <1>4, <1>7 DEF HasFrame
  <1>8. CASE SendsNothing(G)
    <2>1. Waits /\ Waits' /\ client'.fullSent = client.fullSent /\ client'.deltaTick = client.deltaTick
      BY <1>8 DEF SendsNothing, Waits, Ticked, Sends
    <2>2. \A u \in client.fullSent .. n + 1 : u \in client.fullSent .. n \/ u = n + 1
      BY <1>2
    <2>3. \A u \in client.fullSent .. n + 1 : HasFrame(all, u)
      BY <1>1, <1>7, <2>1, <2>2 DEF BackToAcked
    <2> QED
      BY <1>2, <1>5, <1>6, <2>1, <2>3 DEF BackToAcked
  <1>9. CASE SendsAll(G)
    <2>1. Waits' /\ client'.fullSent = n + 1 /\ client'.deltaTick = client.deltaTick
      BY <1>1, <1>2, <1>9 DEF SendsAll, Waits, Ticked, Sends
    <2>2. \A u \in n + 1 .. n + 1 : HasFrame(all, u)
      BY <1>2, <1>7
    <2>3. client.deltaTick = -1
      <3> SUFFICES ASSUME client.deltaTick # -1 PROVE FALSE
        OBVIOUS
      <3>1. client.deltaTick \in client.deltaTick .. n
        BY <1>2
      <3>2. HasFrame(all, client.deltaTick)
        BY <1>1, <1>7, <1>9, <3>1 DEF BackToAcked, SendsAll
      <3> QED
        BY <1>6, <1>9, <3>2 DEF SendsAll
    <2> QED
      BY <1>2, <1>5, <1>6, <2>1, <2>2, <2>3 DEF BackToAcked
  <1>10. CASE SendsChanges(G)
    <2>1. ~Waits /\ ~Waits' /\ client.deltaTick # -1 /\ client'.deltaTick = client.deltaTick
      BY <1>10 DEF SendsChanges, Waits, Ticked, Sends
    <2>2. \A u \in client.deltaTick .. n + 1 : u \in client.deltaTick .. n \/ u = n + 1
      BY <1>2
    <2>3. \A u \in client.deltaTick .. n + 1 : HasFrame(all, u)
      BY <1>1, <1>7, <2>1, <2>2 DEF BackToAcked
    <2> QED
      BY <1>2, <1>5, <1>6, <2>1, <2>3 DEF BackToAcked
  <1> QED
    BY <1>8, <1>9, <1>10 DEF Ticked, Sends

LEMMA ServerKeeps ==
  ASSUME Typed, FewFrames, PacketToServer, NEW H, InStep(H), BackToAcked
  PROVE  BackToAcked'
  <1>1. PICK n, frames, tick : n = m_nTickCount /\ frames = client.frames /\ tick = toServer[1].tick
    OBVIOUS
  <1>3. /\ toServer # <<>> /\ UNCHANGED world
        /\ tick \in TicksTo(n) \cup {NoTick} /\ n \in 0 .. MaxTick
    <2>1. toServer # <<>> /\ UNCHANGED world
      BY PacketServes
    <2>2. 1 \in DOMAIN toServer
      BY <2>1 DEF Typed
    <2> QED
      BY <1>1, <2>1, <2>2, UnderWay DEF Typed, WorldTyped
  <1>4. PICK d : Kin(d, client) /\ Served(d, tick, client')
    BY <1>1, PacketServes
  <1>5. PICK new : new = client'
    OBVIOUS
  <1>6. Kin(d, client)
    BY <1>4
  <1>7. /\ new.frames \subseteq frames /\ {f \in frames : tick > 0 => tick <= f.tick} \subseteq new.frames
        /\ Served(d, tick, new)
    <2>1. {f \in client.frames : tick > 0 => tick <= f.tick} \subseteq client'.frames
      BY <1>1, PacketServes
    <2> QED
      BY <1>1, <1>4, <1>5, <2>1 DEF Kin, Served
  <1>8. /\ {client.fullSent, client.deltaTick, client.forceWaitForTick} \subseteq TicksTo(n)
        /\ n \in Nat /\ 1 \in DOMAIN toServer /\ toServer[1].received \in TicksTo(n)
        /\ \A x \in TicksTo(n) \cup {NoTick} : x \in Int
    BY <1>1, <1>3, UnderWay DEF Typed, TicksTo, NoTick
  <1>9. m_nTickCount' = n /\ Cardinality(client'.frames) <= n
    <2>1. IsFiniteSet(frames) /\ Cardinality(frames) <= n
      BY <1>1 DEF FewFrames, BackToAcked
    <2>2. IsFiniteSet(new.frames) /\ Cardinality(new.frames) <= Cardinality(frames)
      BY <1>7, <2>1, FS_Subset
    <2>3. Cardinality(frames) \in Int /\ Cardinality(new.frames) \in Int
      BY <2>1, <2>2, FS_CardinalityType
    <2> QED
      BY <1>1, <1>3, <1>5, <1>8, <2>1, <2>2, <2>3 DEF world
  <1>10. ASSUME NEW u, HasFrame(frames, u), tick > 0 => tick <= u PROVE HasFrame(new.frames, u)
    BY <1>7, <1>10 DEF HasFrame
  <1>11. Waits <=> client.forceWaitForTick > 0
    BY <1>8 DEF Waits, TicksTo
  <1>12. CASE Waits
    <2>1. client.forceWaitForTick = client.fullSent /\ client.fullSent >= 1
          /\ \A u \in client.fullSent .. n : HasFrame(frames, u)
      BY <1>1, <1>12 DEF InStep, FullUpdate, BackToAcked
    <2>2. tick > 0 => tick <= client.fullSent
      <3>1. PICK received : received = toServer[1].received
        OBVIOUS
      <3>2. /\ received <= cl.fullReceived
            /\ received < client.fullSent => tick < client.fullSent
            /\ received = client.fullSent => tick = client.fullSent \/ tick = -1
        BY <1>1, <1>8, <1>12, <3>1 DEF InStep, MovesToServer
      <3>3. cl.fullReceived <= client.fullSent /\ cl.fullReceived \in Int
        <4>1. cl.fullReceived \in TicksTo(n)
          BY <1>1, UnderWay
        <4>2. cl.fullReceived \in Int /\ client.fullSent \in Int
          BY <1>8, <4>1
        <4>3. cl.fullReceived < client.fullSent \/ cl.fullReceived = client.fullSent
          BY DEF InStep, FullUpdate
        <4> QED
          BY <4>2, <4>3
      <3>4. \/ tick < client.fullSent \/ tick = client.fullSent \/ tick = -1
        <4>1. received \in Int /\ client.fullSent \in Int
          BY <1>8, <3>1
        <4> QED
          BY <3>2, <3>3, <4>1
      <3> QED
        BY <1>3, <1>8, <3>4
    <2>3. \A u \in client.fullSent .. n : HasFrame(new.frames, u)
      <3>1. \A u \in client.fullSent .. n : tick > 0 => tick <= u
        <4>1. tick \in Int /\ client.fullSent \in Int /\ n \in Int
          BY <1>3, <1>8
        <4> QED
          BY <2>2, <4>1
      <3> QED
        BY <1>10, <2>1, <3>1
    <2>4. /\ new.fullSent = client.fullSent
          /\ \/ new.deltaTick = -1
             \/ new.forceWaitForTick = -1 /\ new.deltaTick = client.fullSent
      BY <1>6, <1>7, <1>11, <1>12, <2>1 DEF Served, Stands, Kin, BackToAcked
    <2> QED
      BY <1>5, <1>9, <2>3, <2>4 DEF BackToAcked, Waits
  <1>13. CASE ~Waits /\ client.deltaTick # -1
    <2>1. \A u \in client.deltaTick .. n : HasFrame(frames, u)
      BY <1>1, <1>13 DEF BackToAcked
    <2>2. tick = -1 \/ tick >= client.deltaTick
      BY <1>1, <1>8, <1>13 DEF InStep, MovesToServer, Unsent
    <2>3. client.deltaTick >= 1
      BY <1>8, <1>13 DEF TicksTo
    <2>4. ~Waits' /\ (new.deltaTick = -1 \/ new.deltaTick = tick)
      <3>1. ~(d.forceWaitForTick > 0) /\ d.deltaTick = client.deltaTick /\ d.forceWaitForTick = -1
        BY <1>6, <1>11, <1>13 DEF Kin, Waits
      <3>2. tick >= client.deltaTick => ~(tick < client.deltaTick)
        <4>1. tick \in Int /\ client.deltaTick \in Int
          BY <1>3, <1>8
        <4> QED
          BY <4>1
      <3>3. ~(tick \notin {-1, NoTick} /\ tick < d.deltaTick)
        BY <2>2, <3>1, <3>2
      <3>4. new.forceWaitForTick = -1
        BY <1>7, <3>1, <3>3 DEF Served, Stands
      <3>5. new.deltaTick = tick \/ new.deltaTick = -1
        <4>1. tick # NoTick
          BY <1>8, <2>2, <2>3 DEF NoTick
        <4> QED
          BY <1>7, <3>1, <3>3, <4>1 DEF Served, Stands
      <3> QED
        BY <1>5, <3>4, <3>5 DEF Waits
    <2>5. tick >= client.deltaTick => \A u \in tick .. n : HasFrame(new.frames, u)
      <3>1. tick >= client.deltaTick => \A u \in tick .. n : u \in client.deltaTick .. n /\ tick <= u
        BY <1>3, <1>8
      <3> QED
        BY <1>10, <2>1, <3>1
    <2> QED
      BY <1>5, <1>9, <2>2, <2>4, <2>5 DEF BackToAcked, Waits
  <1>14. CASE Unsent
    <2>1. tick < 0
      BY <1>1, <1>8, <1>14 DEF InStep, MovesToServer
    <2>2. new.forceWaitForTick = -1 /\ new.deltaTick = -1
      BY <1>6, <1>7, <1>11, <1>14 DEF Served, Stands, Kin, Unsent, Waits
    <2> QED
      BY <1>5, <1>9, <2>2 DEF BackToAcked, Waits
  <1> QED
    BY <1>12, <1>13, <1>14 DEF Unsent

\* The frame the client has acknowledged last is there.
LEMMA KeptAlways ==
  ASSUME MaxTick <= MAX_CLIENT_FRAMES
  PROVE  Spec => []AckedFrameKept
  <1>1. Init => BackToAcked
    <2> SUFFICES ASSUME Init PROVE BackToAcked
      OBVIOUS
    <2>1. Cardinality(client.frames) = 0 /\ m_nTickCount = 0 /\ ~Waits /\ client.deltaTick = -1
      BY FS_EmptySet DEF Init, Waits
    <2> QED
      BY <2>1 DEF BackToAcked
  <1>2. BackToAcked /\ SomeHistory /\ Typed /\ FewFrames /\ [Next]_vars => BackToAcked'
    <2> SUFFICES ASSUME BackToAcked, Typed, FewFrames, [Next]_vars, NEW H, InStep(H) PROVE BackToAcked'
      BY DEF SomeHistory
    <2>1. CASE SendClientMessages
      <3>1. PICK G : Ticked(H, G)
        BY <2>1, TickSends
      <3> QED
        BY <2>1, <3>1, TickKeeps
    <2>2. CASE PacketToServer
      BY <2>2, ServerKeeps
    <2>3. CASE ~SendClientMessages /\ ~PacketToServer
      <3>1. UNCHANGED <<client, m_nTickCount>>
        BY <2>3 DEF Next, PacketToClient, CL_Move, LosePacket, ForceFullUpdate, vars, world
      <3> QED
        BY <3>1 DEF BackToAcked, Waits
    <2> QED
      BY <2>1, <2>2, <2>3
  <1>3. BackToAcked /\ Typed => AckedFrameKept
    <2> SUFFICES ASSUME BackToAcked, Typed, client.deltaTick # -1 PROVE HasFrame(client.frames, client.deltaTick)
      BY DEF AckedFrameKept
    <2>1. client.deltaTick \in client.deltaTick .. m_nTickCount
      <3>1. client.deltaTick \in TicksTo(m_nTickCount) /\ m_nTickCount \in Nat
        BY UnderWay
      <3> QED
        BY <3>1 DEF TicksTo
    <2> QED
      BY <2>1 DEF BackToAcked
  <1> QED
    BY <1>1, <1>2, <1>3, InStepAlways, TypesKept, PTL DEF Spec

\* With room for the frames of all ticks no condition is left: the server deletes
\* a frame only when the client has acknowledged a later one
\* (sv_client.cpp:624), so that the client shows what was sent, and the
\* baselines agree, in every behaviour.
THEOREM SnapshotsShownWithRoom ==
  ASSUME MaxTick <= MAX_CLIENT_FRAMES
  PROVE  Spec => []ClientShowsSnapshot /\ []BaselinesAgree
  BY KeptAlways, SnapshotsShown, SnapshotsAgree, PTL

=============================================================================
