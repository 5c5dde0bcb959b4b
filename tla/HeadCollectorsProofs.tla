------------------------ MODULE HeadCollectorsProofs ------------------------
(***************************************************************************)
(* Proofs about HeadCollectors for every number of slots and faults, every  *)
(* clock offset and sampling interval, and every size of the collector's    *)
(* memory.                                                                  *)
(***************************************************************************)
EXTENDS HeadCollectors, FiniteSetTheorems, WellFoundedInduction, TLAPS

-----------------------------------------------------------------------------
(* The inductive invariant, in parts.                                       *)

\* No head on its way to a collector is ahead of the node's.
HeadsBehind ==
  /\ \A i \in 1 .. Len(conn.buf) : conn.buf[i] =< node.head
  /\ held.slot =< node.head
  /\ \A i \in 1 .. Len(jobs) : jobs[i].slot =< node.head
  /\ taken.head.slot =< node.head
  /\ windows.slot =< node.head

\* The counters of the last scrape include all work done under an earlier head.
WindowComplete ==
  windows.ready => {c \in work : c.on < windows.slot} \subseteq windows.counters

\* A head that was stamped when it was taken is the head that was stored.
StampedOnce ==
  taken.job.measured => taken.head = taken.job

IInv == TypeOK /\ HeadsBehind /\ WindowComplete /\ StampedOnce /\ RecentWork /\ SeenBeforeHead

-----------------------------------------------------------------------------
(* Sets of slots, and heads.                                                *)

\* The constants, one by one.
LEMMA Naturals ==
  /\ SlotTicks \in Nat /\ LastSlot \in Nat /\ ProcessedCap \in Nat /\ MaxTime \in Nat /\ MaxFaults \in Nat
  /\ Offset \in Int /\ DutySlots \subseteq Slots
  BY CollectorConstants DEF Slots

\* A set of naturals that is not empty has a least member.
LEMMA LeastIsThere ==
  ASSUME NEW S \in SUBSET Nat, S # {}
  PROVE  Min(S) \in S
<1> DEFINE R == OpToRel(<, Nat)
<1>1. IsWellFoundedOn(R, Nat)
  BY NatLessThanWellFounded
<1>2. PICK x \in S : \A y \in S : ~(<<y, x>> \in R)
  BY <1>1, WFMin
<1>3. \A y \in S : y < x => <<y, x>> \in R
  BY DEF OpToRel
<1> HIDE DEF R
<1>4. \A y \in S : ~(y < x)
  BY <1>2, <1>3
<1>5. \E z \in S : \A y \in S : z =< y
  BY <1>4
<1> QED
  BY <1>5 DEF Min

\* The memory of a collector holds ProcessedCap slots at most.
LEMMA RememberBounded ==
  ASSUME TypeOK, NEW s \in Slots
  PROVE  Remember(s) \subseteq Slots /\ Cardinality(Remember(s)) =< ProcessedCap
<1> DEFINE all == processed \cup {s}
<1>1. all \subseteq Slots /\ IsFiniteSet(Slots) /\ Slots \subseteq Nat
  <2>1. processed \subseteq Slots
    BY DEF TypeOK
  <2>2. IsFiniteSet(1 .. LastSlot) /\ 1 .. LastSlot \subseteq Nat
    BY FS_Interval, Naturals
  <2> QED
    BY <2>1, <2>2 DEF Slots
<1>2. IsFiniteSet(all) /\ IsFiniteSet(processed)
  BY <1>1, FS_Subset
<1>3. Cardinality(all) \in Nat /\ Cardinality(processed) \in Nat /\ ProcessedCap \in Nat
  BY <1>2, FS_CardinalityType, CollectorConstants
<1>4. Cardinality(all) =< Cardinality(processed) + 1
  BY <1>2, <1>3, FS_AddElement
<1>5. Cardinality(all \ {Min(all)}) = Cardinality(all) - 1
  BY <1>1, <1>2, LeastIsThere, FS_RemoveElement
<1>6. Cardinality(processed) =< ProcessedCap
  BY DEF TypeOK
<1>7. Remember(s) = IF Cardinality(all) > ProcessedCap THEN all \ {Min(all)} ELSE all
  BY DEF Remember
<1> HIDE DEF all
<1>8. Remember(s) \subseteq Slots
  BY <1>1, <1>7
<1>9. Cardinality(Remember(s)) =< ProcessedCap
  BY <1>3, <1>4, <1>5, <1>6, <1>7
<1> QED
  BY <1>8, <1>9

\* A slot starts at or after genesis.
LEMMA SlotStartNat ==
  ASSUME NEW s \in Slots
  PROVE  SlotStart(s) \in Nat
<1>1. s - 1 \in Nat /\ SlotTicks \in Nat
  BY CollectorConstants DEF Slots
<1>2. \A a, b \in Nat : a * b \in Nat
  OBVIOUS
<1> QED
  BY <1>1, <1>2 DEF SlotStart

\* Stamping moves a head in time and never to another slot, and only once.
LEMMA StampedHead ==
  ASSUME NEW h \in Heads
  PROVE  /\ StampClock(h) \in Heads /\ StampClock(h).slot = h.slot
         /\ h.measured => StampClock(h) = h
<1>1. CASE h.measured \/ ~Near(h.at)
  BY <1>1 DEF StampClock
<1>2. CASE ~h.measured /\ Near(h.at)
  <2>1. StampClock(h) = [h EXCEPT !.at = h.at + Offset, !.measured = TRUE]
    BY <1>2 DEF StampClock
  <2>2. h.at + Offset \in Int
    BY Naturals DEF Heads
  <2> QED
    BY <1>2, <2>1, <2>2 DEF Heads
<1> QED
  BY <1>1, <1>2

-----------------------------------------------------------------------------
(* Types.                                                                   *)

ClockType == now \in 0 .. MaxTime /\ faults \in 0 .. MaxFaults /\ reading \in Never .. MaxTime
NodeType ==
  /\ node \in [up : BOOLEAN, head : 0 .. LastSlot]
  /\ work \subseteq Calls /\ polled \subseteq DutySlots
ConnType ==
  /\ conn \in [pc : {"connect", "open", "backoff"}, alive : BOOLEAN, buf : Seq(Slots)]
  /\ conn.alive => conn.pc = "open"
QueueType == held \in Heads \cup {NoHead} /\ jobs \in Seq(Heads) /\ Len(jobs) =< 1
TakenType == taken \in [step : {"gauge", "counters"}, head : Heads, job : Heads] \cup {NoJob}
MemoryType == processed \subseteq Slots /\ Cardinality(processed) =< ProcessedCap
EvidenceType ==
  /\ windows \in [ready : BOOLEAN, slot : 0 .. LastSlot, counters : SUBSET work]
  /\ blockSeen \in [slot : 0 .. LastSlot, at : Int, job : Heads \cup {NoHead}]
  /\ engine \in [slot : 0 .. LastSlot, calls : SUBSET work]

\* The type invariant, by the part of the state it is about.
LEMMA TypeParts ==
  TypeOK <=> /\ ClockType /\ NodeType /\ ConnType /\ QueueType
             /\ TakenType /\ MemoryType /\ EvidenceType
  BY DEF TypeOK, ClockType, NodeType, ConnType, QueueType, TakenType, MemoryType, EvidenceType

\* The types hold at the start.
LEMMA TypeInit == Init => TypeOK
<1> SUFFICES ASSUME Init PROVE TypeOK
  OBVIOUS
<1>1. Cardinality({}) = 0
  BY FS_EmptySet
<1>2. 0 \in 0 .. LastSlot /\ 0 \in 0 .. MaxTime /\ 0 \in 0 .. MaxFaults /\ Never \in Never .. MaxTime /\ 0 =< ProcessedCap
  BY CollectorConstants DEF Never
<1>3. ClockType /\ NodeType /\ TakenType /\ MemoryType
  BY <1>1, <1>2 DEF Init, ClockType, NodeType, TakenType, MemoryType
<1>4. ConnType /\ QueueType
  BY DEF Init, ConnType, QueueType
<1>5. EvidenceType
  BY <1>2 DEF Init, EvidenceType, NoBlock, NoCalls
<1> QED
  BY <1>3, <1>4, <1>5, TypeParts

\* A head is offered to the channel, or dropped.
LEMMA SendTypes ==
  ASSUME TypeOK, NEW h \in Heads, Send(h)
  PROVE  jobs' \in Seq(Heads) /\ Len(jobs') =< 1 /\ jobs' \in {jobs, <<h>>}
  BY TypeParts DEF Send, QueueType

\* The connection, field by field.
LEMMA ConnFields ==
  ASSUME TypeOK
  PROVE  /\ conn = [pc |-> conn.pc, alive |-> conn.alive, buf |-> conn.buf]
         /\ conn.pc \in {"connect", "open", "backoff"} /\ conn.alive \in BOOLEAN
         /\ conn.buf \in Seq(Slots) /\ (conn.alive => conn.pc = "open")
  BY TypeParts DEF ConnType

\* A connection delivers only while it is open.
LEMMA ConnUpdate ==
  ASSUME NEW pc \in {"connect", "open", "backoff"}, NEW alive \in BOOLEAN, NEW buf \in Seq(Slots),
         alive => pc = "open", conn' = [pc |-> pc, alive |-> alive, buf |-> buf]
  PROVE  ConnType'
  BY DEF ConnType

\* The events that wait on a connection change; the rest of it does not.
LEMMA ConnBuffer ==
  ASSUME TypeOK, NEW buf \in Seq(Slots), conn' = [conn EXCEPT !.buf = buf]
  PROVE  ConnType'
<1>1. conn \in [pc : {"connect", "open", "backoff"}, alive : BOOLEAN, buf : Seq(Slots)]
  BY TypeParts DEF ConnType
<1>2. conn' \in [pc : {"connect", "open", "backoff"}, alive : BOOLEAN, buf : Seq(Slots)]
  BY <1>1
<1>3. conn'.alive = conn.alive /\ conn'.pc = conn.pc
  BY <1>1
<1> QED
  BY <1>2, <1>3, ConnFields DEF ConnType

\* Every step keeps the types.
LEMMA TypeStep ==
  ASSUME TypeOK, [Next]_vars
  PROVE  TypeOK'
<1>0. SUFFICES (/\ ClockType /\ NodeType /\ ConnType /\ QueueType
                /\ TakenType /\ MemoryType /\ EvidenceType)'
  BY DEF TypeOK, ClockType, NodeType, ConnType, QueueType, TakenType, MemoryType, EvidenceType
<1> DEFINE Types == /\ ClockType /\ NodeType /\ ConnType /\ QueueType
                    /\ TakenType /\ MemoryType /\ EvidenceType
<1> USE TypeParts DEF timing, stream
<1>1. CASE Tick
  <2>1. ClockType'
    BY <1>1, Naturals DEF Tick, ClockType
  <2> QED
    BY <1>1, <2>1
    DEF Tick, NodeType, ConnType, QueueType, TakenType, MemoryType, EvidenceType
<1>2. ASSUME NEW s \in Slots, NewPayload(s) \/ (ForkchoiceUpdated /\ s = node.head)
      PROVE  Types'
  <2>1. \E m \in Methods : work' = work \cup {[method |-> m, block |-> s, on |-> node.head]}
    BY <1>2 DEF NewPayload, ForkchoiceUpdated, Count, Methods
  <2>2. NodeType' /\ work \subseteq work'
    BY <1>2, <2>1 DEF NewPayload, ForkchoiceUpdated, NodeType, Calls
  <2>3. EvidenceType'
    BY <1>2, <2>2 DEF NewPayload, ForkchoiceUpdated, EvidenceType
  <2> QED
    BY <1>2, <2>2, <2>3
    DEF NewPayload, ForkchoiceUpdated, ClockType, ConnType, QueueType, TakenType, MemoryType
<1>3. ASSUME NEW s \in Slots, BlockImported(s)
      PROVE  Types'
  <2>1. NodeType'
    BY <1>3, Naturals DEF BlockImported, NodeType, Slots
  <2>2. ConnType'
    <3>1. CASE UNCHANGED conn
      BY <3>1 DEF ConnType
    <3>2. CASE conn.alive /\ conn' = [conn EXCEPT !.buf = Append(@, s)]
      <4>1. Append(conn.buf, s) \in Seq(Slots)
        BY ConnFields
      <4> QED
        BY <3>2, <4>1, ConnBuffer
    <3> QED
      BY <1>3, <3>1, <3>2 DEF BlockImported
  <2> QED
    BY <1>3, <2>1, <2>2 DEF BlockImported, ClockType, QueueType, TakenType, MemoryType, EvidenceType
<1>4. CASE NodeStops \/ NodeReturns
  <2>1. ClockType'
    BY <1>4, Naturals DEF NodeStops, NodeReturns, ClockType
  <2>2. NodeType'
    BY <1>4 DEF NodeStops, NodeReturns, NodeType
  <2>3. ConnType'
    <3>1. CASE UNCHANGED conn
      BY <3>1 DEF ConnType
    <3>2. CASE NodeStops
      <4>1. /\ conn' = [conn EXCEPT !.alive = FALSE, !.buf = <<>>] /\ <<>> \in Seq(Slots)
            /\ conn \in [pc : {"connect", "open", "backoff"}, alive : BOOLEAN, buf : Seq(Slots)]
        BY <3>2 DEF NodeStops, ConnType
      <4>2. conn'.alive = FALSE
        BY <4>1
      <4>3. conn' \in [pc : {"connect", "open", "backoff"}, alive : BOOLEAN, buf : Seq(Slots)]
        BY <4>1
      <4> QED
        BY <4>2, <4>3 DEF ConnType
    <3> QED
      BY <1>4, <3>1, <3>2 DEF NodeReturns
  <2> QED
    BY <1>4, <2>1, <2>2, <2>3 DEF NodeStops, NodeReturns, QueueType, TakenType, MemoryType, EvidenceType
<1>5. CASE ClockSample
  <2>1. ClockType'
    BY <1>5, CollectorConstants DEF ClockSample, ClockType, Never
  <2> QED
    BY <1>5, <2>1 DEF ClockSample, NodeType, ConnType, QueueType, TakenType, MemoryType, EvidenceType
<1>6. CASE StreamConnects \/ ConnectFails \/ Reconnect \/ StreamSkips \/ StreamBreaks \/ StreamIdle
  <2>1. ClockType'
    BY <1>6, CollectorConstants
    DEF StreamConnects, ConnectFails, Reconnect, StreamSkips, StreamBreaks, StreamIdle, ClockType
  <2>2. ConnType'
    <3>0. <<>> \in Seq(Slots)
      OBVIOUS
    <3>1. CASE StreamConnects
      <4>1. conn' = [pc |-> "open", alive |-> TRUE, buf |-> <<>>]
        BY <3>1, ConnFields DEF StreamConnects
      <4> QED
        BY <3>0, <4>1, ConnUpdate
    <3>2. CASE ConnectFails \/ StreamBreaks \/ StreamIdle
      <4>1. conn' = [pc |-> "backoff", alive |-> FALSE, buf |-> <<>>]
        BY <3>2 DEF ConnectFails, StreamBreaks, StreamIdle, Disconnect
      <4> QED
        BY <3>0, <4>1, ConnUpdate
    <3>3. CASE Reconnect
      <4>1. conn' = [pc |-> "connect", alive |-> conn.alive, buf |-> conn.buf] /\ ~conn.alive
        BY <3>3, ConnFields DEF Reconnect
      <4> QED
        BY <4>1, ConnFields, ConnUpdate
    <3>4. CASE StreamSkips
      <4>1. conn.buf # <<>> /\ conn' = [conn EXCEPT !.buf = Tail(conn.buf)]
        BY <3>4 DEF StreamSkips
      <4>2. Tail(conn.buf) \in Seq(Slots)
        BY <4>1, ConnFields
      <4> QED
        BY <4>1, <4>2, ConnBuffer
    <3> QED
      BY <1>6, <3>1, <3>2, <3>3, <3>4
  <2> QED
    BY <1>6, <2>1, <2>2
    DEF StreamConnects, ConnectFails, Reconnect, StreamSkips, StreamBreaks, StreamIdle,
        NodeType, QueueType, TakenType, MemoryType, EvidenceType
<1>7. CASE StreamDelivers
  <2>1. ConnType' /\ Head(conn.buf) \in Slots
    <3>1. conn.buf # <<>> /\ conn' = [conn EXCEPT !.buf = Tail(conn.buf)]
      BY <1>7 DEF StreamDelivers
    <3>2. Tail(conn.buf) \in Seq(Slots) /\ Head(conn.buf) \in Slots
      BY <3>1, ConnFields
    <3> QED
      BY <3>1, <3>2, ConnBuffer
  <2>2. held' \in Heads
    BY <1>7, <2>1, CollectorConstants DEF StreamDelivers, Heads, ClockType
  <2> QED
    BY <1>7, <2>1, <2>2
    DEF StreamDelivers, ClockType, NodeType, QueueType, TakenType, MemoryType, EvidenceType
<1>8. CASE Handle
  <2>1. StampClock(held) \in Heads
    BY <1>8, StampedHead DEF Handle, QueueType
  <2>2. QueueType'
    BY <1>8, <2>1, SendTypes DEF Handle, QueueType
  <2> QED
    BY <1>8, <2>2 DEF Handle, ClockType, NodeType, ConnType, TakenType, MemoryType, EvidenceType
<1>9. ASSUME NEW s \in DutySlots, PolledHead(s)
      PROVE  Types'
  <2>1. [slot |-> s, at |-> now, measured |-> FALSE] \in Heads
    BY CollectorConstants DEF Heads, Slots, ClockType
  <2>2. jobs' \in Seq(Heads) /\ Len(jobs') =< 1
    BY <1>9, <2>1, StampedHead, SendTypes DEF PolledHead
  <2> QED
    BY <1>9, <2>2 DEF PolledHead, ClockType, NodeType, ConnType, QueueType, TakenType, MemoryType, EvidenceType
<1>10. CASE TakeJob
  <2>1. Head(jobs) \in Heads /\ Head(jobs).slot \in Slots
    <3>1. jobs # <<>> /\ jobs \in Seq(Heads)
      BY <1>10 DEF TakeJob, QueueType
    <3>2. Head(jobs) \in Heads
      BY <3>1
    <3> QED
      BY <3>2 DEF Heads
  <2>2. QueueType'
    BY <1>10 DEF TakeJob, QueueType
  <2>3. CASE UNCHANGED <<processed, taken, engine>>
    BY <1>10, <2>2, <2>3
    DEF TakeJob, ClockType, NodeType, ConnType, TakenType, MemoryType, EvidenceType
  <2>4. CASE /\ processed' = Remember(Head(jobs).slot)
             /\ taken' = [step |-> "gauge", head |-> StampClock(Head(jobs)), job |-> Head(jobs)]
             /\ engine' = NoCalls
    <3>1. MemoryType' /\ TakenType'
      BY <2>1, <2>4, RememberBounded, StampedHead DEF MemoryType, TakenType
    <3>2. EvidenceType'
      BY <1>10, <2>4, CollectorConstants DEF TakeJob, EvidenceType, NoCalls
    <3> QED
      BY <1>10, <2>2, <3>1, <3>2 DEF TakeJob, ClockType, NodeType, ConnType
  <2> QED
    BY <1>10, <2>3, <2>4 DEF TakeJob
<1>11. CASE (\E delay \in 0 .. now : GaugeRead(delay)) \/ GaugeFails
  <2>1. taken \in [step : {"gauge", "counters"}, head : Heads, job : Heads]
    BY <1>11 DEF GaugeRead, GaugeFails, TakenType, NoJob
  <2>2. TakenType'
    BY <1>11, <2>1 DEF GaugeRead, GaugeFails, TakenType
  <2>3. EvidenceType'
    <3>1. CASE UNCHANGED <<windows, blockSeen, engine, work>>
      BY <3>1 DEF EvidenceType
    <3>2. ASSUME NEW delay \in 0 .. now, UNCHANGED <<windows, engine, work>>,
                 blockSeen' = [slot |-> taken.head.slot, at |-> SlotStart(taken.head.slot) + delay,
                               job |-> taken.job]
          PROVE  EvidenceType'
      <4>1. taken.head.slot \in Slots /\ taken.job \in Heads /\ taken.head.slot \in 0 .. LastSlot
        BY <2>1 DEF Heads, Slots
      <4>2. SlotStart(taken.head.slot) + delay \in Int
        BY <3>2, <4>1, SlotStartNat, Naturals DEF ClockType
      <4> QED
        BY <3>2, <4>1, <4>2 DEF EvidenceType
    <3> QED
      BY <1>11, <3>1, <3>2 DEF GaugeRead, GaugeFails, Timing
  <2> QED
    BY <1>11, <2>2, <2>3 DEF GaugeRead, GaugeFails, ClockType, NodeType, ConnType, QueueType, MemoryType
<1>12. CASE CountersRead \/ CountersFail
  <2>1. taken.head.slot \in 0 .. LastSlot
    BY <1>12 DEF CountersRead, CountersFail, TakenType, NoJob, Heads, Slots
  <2>2. EvidenceType'
    <3>1. windows' \in [ready : BOOLEAN, slot : 0 .. LastSlot, counters : SUBSET work]
      <4>1. \/ windows' = [ready |-> TRUE, slot |-> taken.head.slot, counters |-> work]
            \/ windows' = [ready |-> FALSE, slot |-> 0, counters |-> {}]
        BY <1>12 DEF CountersRead, CountersFail, EngineCounters
      <4>2. 0 \in 0 .. LastSlot
        BY Naturals
      <4>3. CASE windows' = [ready |-> TRUE, slot |-> taken.head.slot, counters |-> work]
        BY <2>1, <4>3
      <4>4. CASE windows' = [ready |-> FALSE, slot |-> 0, counters |-> {}]
        BY <4>2, <4>4
      <4> QED
        BY <4>1, <4>3, <4>4
    <3>2. engine' = engine \/ engine' = [slot |-> taken.head.slot, calls |-> work \ windows.counters]
      BY <1>12 DEF CountersRead, CountersFail, EngineCounters, EngineCallsBetween
    <3>3. engine' \in [slot : 0 .. LastSlot, calls : SUBSET work]
      BY <2>1, <3>2 DEF EvidenceType
    <3>4. blockSeen' = NoBlock /\ UNCHANGED work
      BY <1>12 DEF CountersRead, CountersFail
    <3>5. blockSeen' \in [slot : 0 .. LastSlot, at : Int, job : Heads \cup {NoHead}]
      BY <3>4, Naturals DEF NoBlock
    <3> QED
      BY <3>1, <3>3, <3>4, <3>5 DEF EvidenceType
  <2> QED
    BY <1>12, <2>2
    DEF CountersRead, CountersFail, ClockType, NodeType, ConnType, QueueType, TakenType, MemoryType
<1>13. CASE UNCHANGED vars
  BY <1>13 DEF vars, ClockType, NodeType, ConnType, QueueType, TakenType, MemoryType, EvidenceType
<1>14. CASE ForkchoiceUpdated
  BY <1>2, <1>14 DEF ForkchoiceUpdated
<1> QED
  BY <1>1, <1>2, <1>3, <1>4, <1>5, <1>6, <1>7, <1>8, <1>9, <1>10, <1>11, <1>12, <1>13, <1>14 DEF Next

-----------------------------------------------------------------------------
(* Evidence.                                                                *)

\* The rest of the invariant holds at the start.
LEMMA RestInit ==
  Init => HeadsBehind /\ WindowComplete /\ StampedOnce /\ RecentWork /\ SeenBeforeHead
  BY DEF Init, HeadsBehind, WindowComplete, StampedOnce, RecentWork, SeenBeforeHead,
         NoHead, NoJob, NoBlock, NoCalls

\* The numbers that are compared.
LEMMA SlotNumbers ==
  ASSUME TypeOK
  PROVE  /\ node.head \in Nat /\ held.slot \in Nat /\ taken.head.slot \in Nat
         /\ windows.slot \in Nat /\ \A c \in work : c.on \in Nat
         /\ \A i \in 1 .. Len(conn.buf) : conn.buf[i] \in Nat
         /\ \A i \in 1 .. Len(jobs) : jobs[i] \in Heads /\ jobs[i].slot \in Nat
<1>1. Slots \subseteq Nat /\ 0 .. LastSlot \subseteq Nat
  BY Naturals DEF Slots
<1>2. node.head \in Nat /\ \A c \in work : c.on \in Nat
  BY <1>1, TypeParts DEF NodeType, Calls
<1>3. held.slot \in Nat
  <2>1. CASE held \in Heads
    BY <1>1, <2>1 DEF Heads
  <2>2. CASE held = NoHead
    BY <2>2 DEF NoHead
  <2> QED
    BY <2>1, <2>2, TypeParts DEF QueueType
<1>4. taken.head.slot \in Nat
  <2>1. CASE taken \in [step : {"gauge", "counters"}, head : Heads, job : Heads]
    BY <1>1, <2>1 DEF Heads
  <2>2. CASE taken = NoJob
    BY <2>2 DEF NoJob, NoHead
  <2> QED
    BY <2>1, <2>2, TypeParts DEF TakenType
<1>5. windows.slot \in Nat
  BY <1>1, TypeParts DEF EvidenceType
<1>6. \A i \in 1 .. Len(conn.buf) : conn.buf[i] \in Nat
  BY <1>1, ConnFields
<1>7. \A i \in 1 .. Len(jobs) : jobs[i] \in Heads
  BY TypeParts DEF QueueType
<1>8. \A i \in 1 .. Len(jobs) : jobs[i].slot \in Nat
  BY <1>1, <1>7 DEF Heads
<1> QED
  BY <1>2, <1>3, <1>4, <1>5, <1>6, <1>7, <1>8

\* The node's head only grows, and a head that was behind it stays so.
LEMMA StayBehind ==
  ASSUME TypeOK, HeadsBehind, TypeOK',
         node.head =< node'.head,
         conn'.buf = conn.buf \/ \A i \in 1 .. Len(conn'.buf) : conn'.buf[i] =< node'.head,
         held'.slot = held.slot \/ held'.slot =< node'.head,
         jobs' = jobs \/ \A i \in 1 .. Len(jobs') : jobs'[i].slot =< node'.head,
         taken'.head.slot = taken.head.slot \/ taken'.head.slot =< node'.head,
         windows'.slot = windows.slot \/ windows'.slot =< node'.head
  PROVE  HeadsBehind'
<1>0. /\ node.head \in Nat /\ node'.head \in Nat /\ held.slot \in Nat /\ taken.head.slot \in Nat
      /\ windows.slot \in Nat
      /\ \A i \in 1 .. Len(conn.buf) : conn.buf[i] \in Nat
      /\ \A i \in 1 .. Len(jobs) : jobs[i].slot \in Nat
  <2>1. node'.head \in 0 .. LastSlot
    BY DEF TypeOK
  <2> QED
    BY <2>1, SlotNumbers, Naturals
<1>1. \A i \in 1 .. Len(conn'.buf) : conn'.buf[i] =< node'.head
  BY <1>0 DEF HeadsBehind
<1>2. \A i \in 1 .. Len(jobs') : jobs'[i].slot =< node'.head
  BY <1>0 DEF HeadsBehind
<1>3. held'.slot =< node'.head /\ taken'.head.slot =< node'.head /\ windows'.slot =< node'.head
  BY <1>0 DEF HeadsBehind
<1> QED
  BY <1>1, <1>2, <1>3 DEF HeadsBehind

\* Every step leaves the heads on their way behind the node's.
LEMMA BehindStep ==
  ASSUME TypeOK, HeadsBehind, [Next]_vars
  PROVE  HeadsBehind'
<1> USE DEF stream, timing
<1>0. TypeOK' /\ node.head \in Nat /\ node \in [up : BOOLEAN, head : 0 .. LastSlot]
  BY TypeStep, SlotNumbers, TypeParts DEF HeadsBehind, NodeType
<1>1. CASE UNCHANGED <<node, conn, held, jobs, taken, windows>>
  BY <1>1 DEF HeadsBehind
<1>2. CASE ForkchoiceUpdated \/ \E s \in Slots : NewPayload(s)
  BY <1>1, <1>2 DEF ForkchoiceUpdated, NewPayload
<1>3. ASSUME NEW s \in Slots, BlockImported(s)
      PROVE  HeadsBehind'
  <2>1. /\ node'.head = s /\ node.head < s /\ s \in Nat
        /\ UNCHANGED <<held, jobs, taken, windows>>
    BY <1>0, <1>3, Naturals DEF BlockImported, Slots
  <2>2. conn'.buf = conn.buf \/ conn'.buf = Append(conn.buf, s)
    BY <1>3, TypeParts DEF BlockImported, ConnType
  <2>3. \A i \in 1 .. Len(Append(conn.buf, s)) :
           \/ Append(conn.buf, s)[i] = s
           \/ i \in 1 .. Len(conn.buf) /\ Append(conn.buf, s)[i] = conn.buf[i]
    BY ConnFields
  <2>4. \A i \in 1 .. Len(conn.buf) : conn.buf[i] =< s
    BY <1>0, <2>1, SlotNumbers DEF HeadsBehind
  <2>5. conn'.buf = conn.buf \/ \A i \in 1 .. Len(conn'.buf) : conn'.buf[i] =< node'.head
    <3> DEFINE longer == Append(conn.buf, s)
    <3>1. \A i \in 1 .. Len(longer) :
             longer[i] = s \/ (i \in 1 .. Len(conn.buf) /\ longer[i] = conn.buf[i])
      BY <2>3
    <3>2. conn'.buf = conn.buf \/ conn'.buf = longer
      BY <2>2
    <3> HIDE DEF longer
    <3>3. \A i \in 1 .. Len(longer) : longer[i] =< s
      BY <2>1, <2>4, <3>1
    <3> QED
      BY <2>1, <3>2, <3>3
  <2> QED
    BY <1>0, <2>1, <2>5, StayBehind
<1>4. CASE \/ NodeStops \/ NodeReturns \/ StreamConnects \/ ConnectFails \/ Reconnect
           \/ StreamBreaks \/ StreamIdle
  <2>1. /\ node'.head = node.head
        /\ UNCHANGED <<held, jobs, taken, windows>>
    BY <1>0, <1>4
    DEF NodeStops, NodeReturns, StreamConnects, ConnectFails, Reconnect, StreamBreaks, StreamIdle
  <2>2. conn'.buf = conn.buf \/ conn'.buf = <<>>
    <3>1. /\ conn \in [pc : {"connect", "open", "backoff"}, alive : BOOLEAN, buf : Seq(Slots)]
      BY TypeParts DEF ConnType
    <3>2. CASE NodeStops \/ StreamConnects
      BY <3>1, <3>2 DEF NodeStops, StreamConnects
    <3>3. CASE ConnectFails \/ StreamBreaks \/ StreamIdle
      BY <3>3 DEF ConnectFails, StreamBreaks, StreamIdle, Disconnect
    <3>4. CASE Reconnect \/ NodeReturns
      BY <3>1, <3>4 DEF Reconnect, NodeReturns
    <3> QED
      BY <1>4, <3>2, <3>3, <3>4
  <2>3. conn'.buf = conn.buf \/ \A i \in 1 .. Len(conn'.buf) : conn'.buf[i] =< node'.head
    BY <2>2
  <2> QED
    BY <1>0, <2>1, <2>3, StayBehind
<1>5. CASE StreamDelivers \/ StreamSkips
  <2>1. /\ conn.buf # <<>> /\ conn'.buf = Tail(conn.buf) /\ UNCHANGED <<node, jobs, taken, windows>>
        /\ held' = held \/ held'.slot = Head(conn.buf)
    BY <1>5, TypeParts DEF StreamDelivers, StreamSkips, ConnType
  <2>2. conn.buf \in Seq(Slots) /\ conn.buf # <<>>
    BY <2>1, ConnFields
  <2>3. /\ Head(conn.buf) = conn.buf[1] /\ 1 \in 1 .. Len(conn.buf)
        /\ \A i \in 1 .. Len(Tail(conn.buf)) : i + 1 \in 1 .. Len(conn.buf) /\ Tail(conn.buf)[i] = conn.buf[i + 1]
    BY <2>2
  <2>4. \A i \in 1 .. Len(conn'.buf) : conn'.buf[i] =< node'.head
    BY <2>1, <2>3 DEF HeadsBehind
  <2>5. held'.slot = held.slot \/ held'.slot =< node'.head
    BY <2>1, <2>3 DEF HeadsBehind
  <2> QED
    BY <1>0, <2>1, <2>4, <2>5, StayBehind
<1>6. CASE Handle
  <2>1. /\ held \in Heads /\ Send(StampClock(held)) /\ held'.slot = 0 /\ UNCHANGED <<node, conn, taken, windows>>
    BY <1>6, TypeParts DEF Handle, QueueType, NoHead
  <2>2. jobs' \in {jobs, <<StampClock(held)>>} /\ StampClock(held).slot =< node.head
    BY <2>1, StampedHead, SendTypes DEF HeadsBehind
  <2>3. jobs' = jobs \/ \A i \in 1 .. Len(jobs') : jobs'[i].slot =< node'.head
    BY <2>1, <2>2
  <2> QED
    BY <1>0, <2>1, <2>3, StayBehind
<1>7. ASSUME NEW s \in DutySlots, PolledHead(s)
      PROVE  HeadsBehind'
  <2> DEFINE h == [slot |-> s, at |-> now, measured |-> FALSE]
  <2>1. /\ Send(StampClock(h)) /\ node.head = s /\ UNCHANGED <<node, conn, held, taken, windows>>
    BY <1>7 DEF PolledHead
  <2>2. h \in Heads /\ h.slot = s
    BY Naturals, TypeParts DEF Heads, Slots, ClockType
  <2> HIDE DEF h
  <2>3. jobs' \in {jobs, <<StampClock(h)>>} /\ StampClock(h).slot = s
    BY <2>1, <2>2, StampedHead, SendTypes
  <2>4. jobs' = jobs \/ \A i \in 1 .. Len(jobs') : jobs'[i].slot =< node'.head
    BY <1>0, <2>1, <2>3
  <2> QED
    BY <1>0, <2>1, <2>4, StayBehind
<1>8. CASE TakeJob
  <2>1. /\ jobs # <<>> /\ jobs' = <<>> /\ UNCHANGED <<node, conn, held, windows>>
        /\ \/ taken' = taken
           \/ taken' = [step |-> "gauge", head |-> StampClock(Head(jobs)), job |-> Head(jobs)]
    BY <1>8 DEF TakeJob
  <2>2. Head(jobs) = jobs[1] /\ 1 \in 1 .. Len(jobs) /\ Head(jobs) \in Heads
    BY <2>1, TypeParts DEF QueueType
  <2>3. taken'.head.slot = taken.head.slot \/ taken'.head.slot =< node'.head
    BY <2>1, <2>2, StampedHead DEF HeadsBehind
  <2>4. jobs' = jobs \/ \A i \in 1 .. Len(jobs') : jobs'[i].slot =< node'.head
    BY <2>1
  <2> QED
    BY <1>0, <2>1, <2>3, <2>4, StayBehind
<1>9. CASE (\E delay \in 0 .. now : GaugeRead(delay)) \/ GaugeFails
  <2>1. UNCHANGED <<node, conn, held, jobs, windows>> /\ taken'.head = taken.head
    BY <1>9, TypeParts DEF GaugeRead, GaugeFails, TakenType, NoJob
  <2> QED
    BY <1>0, <2>1, StayBehind
<1>10. CASE CountersRead \/ CountersFail
  <2>1. /\ UNCHANGED <<node, conn, held, jobs>> /\ taken' = NoJob /\ windows'.slot \in {0, taken.head.slot}
    BY <1>10 DEF CountersRead, CountersFail
  <2>2. taken'.head.slot =< node'.head /\ windows'.slot =< node'.head
    BY <1>0, <2>1 DEF HeadsBehind, NoJob, NoHead
  <2> QED
    BY <1>0, <2>1, <2>2, StayBehind
<1> QED
  BY <1>1, <1>2, <1>3, <1>4, <1>5, <1>6, <1>7, <1>8, <1>9, <1>10 DEF Next, Tick, ClockSample, vars

\* Work counted after a scrape is done under a head that is not before its slot.
LEMMA WindowStep ==
  ASSUME TypeOK, HeadsBehind, WindowComplete, [Next]_vars
  PROVE  WindowComplete'
<1> USE DEF stream, timing
<1>1. CASE UNCHANGED <<work, windows>>
  BY <1>1 DEF WindowComplete
<1>2. ASSUME NEW s \in Slots, NewPayload(s) \/ (ForkchoiceUpdated /\ s = node.head)
      PROVE  WindowComplete'
  <2>1. UNCHANGED windows /\ \E m : work' = work \cup {[method |-> m, block |-> s, on |-> node.head]}
    BY <1>2 DEF NewPayload, ForkchoiceUpdated, Count
  <2>2. ~(node.head < windows.slot)
    BY SlotNumbers DEF HeadsBehind
  <2> QED
    BY <2>1, <2>2 DEF WindowComplete
<1>3. CASE CountersRead \/ CountersFail
  BY <1>3 DEF CountersRead, CountersFail, WindowComplete, EngineCounters
<1>4. CASE ForkchoiceUpdated
  BY <1>2, <1>4 DEF ForkchoiceUpdated
<1> QED
  BY <1>1, <1>2, <1>3, <1>4
  DEF Next, Tick, ClockSample, vars, BlockImported, NodeStops, NodeReturns, StreamConnects, ConnectFails,
      Reconnect, StreamDelivers, StreamSkips, StreamBreaks, StreamIdle, Handle, PolledHead, TakeJob,
      GaugeRead, GaugeFails

\* The steps that touch what is taken or recorded.
LEMMA EvidenceSteps ==
  ASSUME [Next]_vars
  PROVE  \/ UNCHANGED <<taken, blockSeen, engine>>
         \/ TakeJob \/ GaugeFails \/ CountersRead \/ CountersFail
         \/ \E delay \in 0 .. now : GaugeRead(delay)
  BY DEF Next, Tick, ClockSample, vars, NewPayload, ForkchoiceUpdated, BlockImported, NodeStops, NodeReturns, StreamConnects,
         ConnectFails, Reconnect, StreamDelivers, StreamSkips, StreamBreaks, StreamIdle, Handle, PolledHead,
         stream, timing

\* The second stamp leaves a stamped head alone.
LEMMA StampStep ==
  ASSUME TypeOK, StampedOnce, [Next]_vars
  PROVE  StampedOnce'
<1>1. CASE UNCHANGED taken
  BY <1>1 DEF StampedOnce
<1>2. CASE taken' = NoJob
  BY <1>2 DEF StampedOnce, NoJob
<1>3. CASE TakeJob
  <2>1. /\ jobs # <<>>
        /\ \/ taken' = taken
           \/ taken' = [step |-> "gauge", head |-> StampClock(Head(jobs)), job |-> Head(jobs)]
    BY <1>3 DEF TakeJob
  <2>2. Head(jobs) \in Heads
    BY <2>1, TypeParts DEF QueueType
  <2> QED
    BY <1>1, <2>1, <2>2, StampedHead DEF StampedOnce
<1>4. CASE (\E delay \in 0 .. now : GaugeRead(delay)) \/ GaugeFails
  <2>1. taken'.head = taken.head /\ taken'.job = taken.job
    BY <1>4, TypeParts DEF GaugeRead, GaugeFails, TakenType, NoJob
  <2> QED
    BY <2>1 DEF StampedOnce
<1> QED
  BY <1>1, <1>2, <1>3, <1>4, EvidenceSteps DEF CountersRead, CountersFail

\* No step files work under a slot that was done before the head of the slot before.
LEMMA WorkStep ==
  ASSUME TypeOK, HeadsBehind, WindowComplete, RecentWork, [Next]_vars
  PROVE  RecentWork'
<1> USE DEF stream, timing
<1>1. CASE UNCHANGED engine
  BY <1>1 DEF RecentWork
<1>2. CASE engine' = NoCalls
  BY <1>2 DEF RecentWork, NoCalls
<1>3. CASE CountersRead
  <2>1. \/ UNCHANGED engine
        \/ /\ windows.ready /\ taken.head.slot = windows.slot + 1
           /\ engine' = [slot |-> taken.head.slot, calls |-> work \ windows.counters]
    BY <1>3 DEF CountersRead, Consecutive, EngineCallsBetween, EngineCounters
  <2>2. ASSUME windows.ready, taken.head.slot = windows.slot + 1, NEW c \in work \ windows.counters
        PROVE  c.on >= taken.head.slot - 1
    BY <2>2, SlotNumbers DEF WindowComplete
  <2> QED
    BY <1>1, <2>1, <2>2 DEF RecentWork
<1> QED
  BY <1>1, <1>2, <1>3, EvidenceSteps DEF TakeJob, GaugeRead, GaugeFails, CountersFail

\* No step records a block as seen after its head.
LEMMA SeenStep ==
  ASSUME TypeOK, StampedOnce, SeenBeforeHead, [Next]_vars
  PROVE  SeenBeforeHead'
<1> USE DEF stream, timing
<1>1. CASE UNCHANGED blockSeen
  BY <1>1 DEF SeenBeforeHead
<1>2. CASE blockSeen' = NoBlock
  BY <1>2 DEF SeenBeforeHead, NoBlock, NoHead
<1>3. ASSUME NEW delay \in 0 .. now, GaugeRead(delay)
      PROVE  SeenBeforeHead'
  <2> DEFINE blockAt == SlotStart(taken.head.slot) + delay
  <2>1. \/ UNCHANGED blockSeen
        \/ ~(blockAt > taken.head.at) /\ blockSeen'.at = blockAt /\ blockSeen'.job = taken.job
    BY <1>3 DEF GaugeRead, Timing
  <2>2. taken.head \in Heads
    BY <1>3, TypeParts DEF GaugeRead, TakenType, NoJob
  <2>3. taken.head.at \in Int /\ blockAt \in Int
    BY <1>3, <2>2, SlotStartNat, TypeParts, Naturals DEF Heads, ClockType
  <2> HIDE DEF blockAt
  <2> QED
    BY <1>1, <2>1, <2>3 DEF SeenBeforeHead, StampedOnce
<1> QED
  BY <1>1, <1>2, <1>3, EvidenceSteps DEF TakeJob, GaugeFails, CountersRead, CountersFail

-----------------------------------------------------------------------------
(* The theorems.                                                            *)

\* The invariant holds at the start and every step keeps it.
LEMMA Invariance == Spec => []IInv
<1>1. Init => IInv
  BY TypeInit, RestInit DEF IInv
<1>2. IInv /\ [Next]_vars => IInv'
  BY TypeStep, BehindStep, WindowStep, StampStep, WorkStep, SeenStep DEF IInv
<1> QED
  BY <1>1, <1>2, PTL DEF Spec

\* The stream, the channel and the collector always have their types: the channel
\* holds one head at most, and the collector remembers ProcessedCap slots at most
\* (watch.go: fan-out of heads, blocktiming.go: runBlockTiming).
THEOREM TypeCorrect == Spec => []TypeOK
<1>1. IInv => TypeOK
  BY DEF IInv
<1> QED
  BY <1>1, Invariance, PTL

\* Whatever heads are dropped, lost, repeated or skipped, the Engine work filed under
\* a slot was done under the head of the slot before or a later one
\* (blocktiming.go: engineWindowTracker).
THEOREM WorkIsRecent == Spec => []RecentWork
<1>1. IInv => RecentWork
  BY DEF IInv
<1> QED
  BY <1>1, Invariance, PTL

\* A block is never seen after the head that was stored for it, whichever goroutine
\* stamped the head (clocktracker.go: stampClockProvenance).
THEOREM BlockPrecedesHead == Spec => []SeenBeforeHead
<1>1. IInv => SeenBeforeHead
  BY DEF IInv
<1> QED
  BY <1>1, Invariance, PTL
=============================================================================
