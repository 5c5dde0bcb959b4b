------------------------- MODULE DutyTrackingProofs -------------------------
(***************************************************************************)
(* Proofs about DutyTracking for every set of duties, every chain, every    *)
(* constant error of the wall clock and any number of restarts.             *)
(***************************************************************************)
EXTENDS DutyTracking, TLAPS

-----------------------------------------------------------------------------
(* Slot arithmetic.                                                         *)

\* A slot lies in the epoch that Slot.Epoch gives it.
LEMMA EpochBounds ==
  ASSUME NEW s \in Int
  PROVE  /\ Epoch(s) \in Int
         /\ FirstSlot(Epoch(s)) <= s
         /\ s < FirstSlot(Epoch(s) + 1)
  BY DutyConstants DEF Epoch, FirstSlot

\* Multiplication by the length of an epoch preserves the order.
LEMMA FirstSlotMonotone ==
  ASSUME NEW e \in Int, NEW f \in Int, e <= f
  PROVE  FirstSlot(e) <= FirstSlot(f)
  BY DutyConstants DEF FirstSlot

\* A wall clock that reached the first slot of an epoch reads that epoch.
LEMMA EpochReached ==
  ASSUME NEW s \in Int, NEW e \in Int, s >= FirstSlot(e)
  PROVE  Epoch(s) >= e
<1>1. CASE Epoch(s) + 1 <= e
  <2>1. FirstSlot(Epoch(s) + 1) <= FirstSlot(e)
    BY <1>1, EpochBounds, FirstSlotMonotone
  <2>2. FirstSlot(Epoch(s) + 1) \in Int /\ FirstSlot(e) \in Int
    BY EpochBounds, DutyConstants DEF FirstSlot
  <2> QED
    BY <2>1, <2>2, EpochBounds
<1>2. QED
  BY <1>1, EpochBounds

\* A later slot is in the same or a later epoch.
LEMMA EpochMonotone ==
  ASSUME NEW s \in Int, NEW u \in Int, s <= u
  PROVE  Epoch(s) <= Epoch(u)
<1>1. FirstSlot(Epoch(s)) \in Int
  BY EpochBounds, DutyConstants DEF FirstSlot
<1>2. u >= FirstSlot(Epoch(s))
  BY <1>1, EpochBounds
<1> QED
  BY <1>2, EpochBounds, EpochReached

\* dutyWindowOpen is false from the collection deadline on: a duty whose window
\* was closed is never tracked again.
LEMMA WatchBeforeDeadline ==
  ASSUME NEW s \in Int
  PROVE  /\ CollectionDeadline(s) \in Int
         /\ s + WatchSlots <= CollectionDeadline(s)
<1>1. FirstSlot(Epoch(s) + 2) = FirstSlot(Epoch(s) + 1) + SlotsPerEpoch
  BY EpochBounds, DutyConstants DEF FirstSlot
<1>2. FirstSlot(Epoch(s) + 1) \in Int
  BY EpochBounds, DutyConstants DEF FirstSlot
<1> QED
  BY <1>1, <1>2, EpochBounds, DutyConstants
     DEF CollectionDeadline, CollectionWindowEnd, LastAttestationInclusionSlot
-----------------------------------------------------------------------------
(* Type correctness.                                                        *)

\* A timer is armed for an integer instant.
LEMMA TimerType ==
  ASSUME now \in Nat, skew \in Int, NEW x \in Int
  PROVE  TimerFor(x) \in Int
  BY DEF TimerFor, Wall

\* The slots of tasks and of duties are naturals, and so are their windows.
LEMMA TaskTypes ==
  ASSUME NEW t \in Tasks
  PROVE  Duty(t) \in Duties /\ SlotOf(t) \in Nat /\ SlotOf(t) = Duty(t).slot
  BY DutyConstants DEF Tasks, Duty, SlotOf

\* Start, Crash, Stop, Exit and the environment keep the types.
LEMMA EnvironmentType ==
  TypeOK /\ (Tick \/ ClockStep \/ NodeAdvances \/ Start \/ Crash \/ Stop \/ Exit
             \/ SlotClock \/ LoopReturns) => TypeOK'
<1> SUFFICES ASSUME TypeOK,
                    Tick \/ ClockStep \/ NodeAdvances \/ Start \/ Crash \/ Stop \/ Exit
                    \/ SlotClock \/ LoopReturns
             PROVE  TypeOK'
  OBVIOUS
<1> USE DEF TypeOK, clockVars, envVars, procVars, loopVars, taskVars, storeVars, expVars
<1>1. CASE Tick
  BY <1>1 DEF Tick
<1>2. CASE ClockStep
  BY <1>2 DEF ClockStep
<1>3. CASE NodeAdvances
  BY <1>3 DEF NodeAdvances
<1>4. CASE Start
  BY <1>4 DEF Start, LoopIdle
<1>5. CASE Crash
  BY <1>5 DEF Crash, ForgetTasks, LoopIdle, TaskState, DonePolls, PollState
<1>6. CASE Stop
  BY <1>6 DEF Stop
<1>7. CASE Exit
  BY <1>7 DEF Exit, ForgetTasks, TaskState, DonePolls, PollState
<1>8. CASE SlotClock
  <2>1. {<<s, "slot_start">> : s \in {Wall} \cap DutySlots} \in SUBSET (Int \X SlotKinds)
    BY DEF Wall, SlotKinds
  <2>2. slotRows' \in SUBSET (Int \X SlotKinds)
    BY <1>8, <2>1 DEF SlotClock
  <2> QED
    BY <1>8, <2>2 DEF SlotClock
<1>9. CASE LoopReturns
  BY <1>9 DEF LoopReturns, LoopIdle
<1> QED
  BY <1>1, <1>2, <1>3, <1>4, <1>5, <1>6, <1>7, <1>8, <1>9

\* The steps of runDutyTracking keep the types.
LEMMA LoopType == TypeOK /\ LoopStep => TypeOK'
<1> SUFFICES ASSUME TypeOK, LoopStep PROVE TypeOK'
  OBVIOUS
<1> USE DEF TypeOK, clockVars, envVars, procVars, loopVars, taskVars, storeVars, expVars
<1>1. CASE LoopTop
  <2>1. Epoch(Wall) \in Int
    BY EpochBounds DEF Wall
  <2> QED
    BY <1>1, <2>1 DEF LoopTop
<1>2. CASE FetchFails
  BY <1>2 DEF FetchFails, LoopIdle
<1>3. CASE FetchSucceeds
  BY <1>3 DEF FetchSucceeds
<1>4. CASE LoopSleeps
  <2>1. FirstSlot(loop.epoch + 1) \in Int
    BY DutyConstants DEF FirstSlot
  <2> QED
    BY <1>4, <2>1, TimerType DEF LoopSleeps
<1>5. CASE LoopWakes
  BY <1>5 DEF LoopWakes, LoopIdle
<1>6. ASSUME NEW d \in Duties, SkipDuty(d) PROVE TypeOK'
  BY <1>6 DEF SkipDuty
<1>7. ASSUME NEW d \in Duties, AssignDuty(d) PROVE TypeOK'
  <2>1. PICK c \in Copies : /\ pc' = [pc EXCEPT ![<<d, c>>] = "waitSlot"]
                            /\ wake' = [wake EXCEPT ![<<d, c>>] = TimerFor(d.slot)]
    BY <1>7 DEF AssignDuty
  <2>2. TimerFor(d.slot) \in Int
    BY TimerType, DutyConstants
  <2>3. dutyRows' \in SUBSET (Duties \X DutyKinds)
    <3>1. <<d, "duty_assigned">> \in Duties \X DutyKinds
      BY DEF DutyKinds
    <3> QED
      BY <1>7, <3>1 DEF AssignDuty
  <2>4. loop' \in [pc : {"returned", "top", "fetch", "spawn", "sleep"}, epoch : Int,
                   todo : SUBSET Duties, wake : Int]
    BY <1>7 DEF AssignDuty
  <2>5. pc' \in [Tasks -> TaskState] /\ wake' \in [Tasks -> Int]
    BY <2>1, <2>2 DEF TaskState
  <2> QED
    BY <1>7, <2>3, <2>4, <2>5 DEF AssignDuty
<1> QED
  BY <1>1, <1>2, <1>3, <1>4, <1>5, <1>6, <1>7 DEF LoopStep

\* The steps of the three polls keep the types.
LEMMA PollType ==
  ASSUME TypeOK, NEW t \in Tasks, PollStep(t)
  PROVE  TypeOK'
<1> USE DEF TypeOK, OutsideTask, clockVars, envVars, procVars, loopVars, storeVars, expVars,
            PollGoes, CollectionError, PollState
<1>0. "block" \in Pollers /\ "head" \in Pollers /\ "published" \in Pollers
  BY DEF Pollers
<1>1. ASSUME NEW p \in Pollers, PollMiss(t, p) PROVE TypeOK'
  BY <1>1 DEF PollMiss
<1>2. ASSUME NEW p \in Pollers, PollGivesUp(t, p) PROVE TypeOK'
  BY <1>2 DEF PollGivesUp
<1>3. ASSUME NEW p \in Pollers, NEW rows \in SUBSET (Int \X SlotKinds), PollWrites(t, p, rows),
             withheld' \in SUBSET Int
      PROVE  TypeOK'
  BY <1>3 DEF PollWrites
<1>4. ASSUME NEW p \in Pollers, PollFails(t, p) PROVE TypeOK'
  BY <1>4 DEF PollFails
<1>5. CASE BlockFound(t)
  BY <1>5, <1>0, <1>3, TaskTypes DEF BlockFound, SlotKinds
<1>6. CASE BlockDeadline(t)
  BY <1>6, <1>0, DutyConstants DEF BlockDeadline
<1>7. CASE BlockStatusError(t) \/ BlockRecoveryExpires(t)
  BY <1>7, <1>0, <1>4 DEF BlockStatusError, BlockRecoveryExpires
<1>8. CASE BlockConfirmed(t) \/ BlockWithheld(t)
  <2>1. SlotOf(t) \in Int /\ withheld \in SUBSET Int
    BY TaskTypes
  <2>2. withheld' = withheld \/ withheld' = withheld \cup {SlotOf(t)}
    BY <1>8 DEF BlockConfirmed, BlockWithheld
  <2>3. SlotOf(t) \in Int /\ withheld' \in SUBSET Int
    BY <2>1, <2>2
  <2>4. \A kind \in {"block_seen", "block_skipped"} :
          {<<SlotOf(t), kind>>} \in SUBSET (Int \X SlotKinds)
    BY <2>3 DEF SlotKinds
  <2>5. \E kind \in {"block_seen", "block_skipped"} :
          PollWrites(t, "block", {<<SlotOf(t), kind>>})
    BY <1>8 DEF BlockConfirmed, BlockWithheld
  <2> QED
    BY <2>3, <2>4, <2>5, <1>0, <1>3
<1>9. CASE HeadFound(t) \/ PublishedFound(t)
  BY <1>9, <1>0, <1>3 DEF HeadFound, PublishedFound
<1>10. CASE HeadPassed(t)
  BY <1>10, <1>0 DEF HeadPassed
<1>11. CASE NodeReady(t)
  BY <1>11, <1>0 DEF NodeReady
<1> QED
  BY <1>1, <1>2, <1>5, <1>6, <1>7, <1>8, <1>9, <1>10, <1>11 DEF PollStep

\* Every other step of a task keeps the types.
LEMMA TaskType ==
  ASSUME TypeOK, NEW t \in Tasks, TaskStep(t) \/ CancelTask(t)
  PROVE  TypeOK'
<1> USE DEF TypeOK, OutsideTask, clockVars, envVars, procVars, loopVars, storeVars, expVars,
            CollectionError, TaskState
<1>1. CASE SlotReached(t)
  BY <1>1 DEF SlotReached, SilentPolls, PollState
<1>2. CASE PollStep(t)
  BY <1>2, PollType
<1>3. CASE PollsJoined(t)
  BY <1>3 DEF PollsJoined
<1>4. CASE InclusionError(t) \/ InclusionDeadline(t)
  BY <1>4 DEF InclusionError, InclusionDeadline, InclusionFails
<1>5. CASE InclusionScan(t)
  <2>1. <<Duty(t), "attestation_included">> \in Duties \X DutyKinds
    BY TaskTypes DEF DutyKinds
  <2>2. dutyRows' \in SUBSET (Duties \X DutyKinds)
    BY <1>5, <2>1 DEF InclusionScan
  <2>3. failed' \in [Tasks -> BOOLEAN]
    BY <1>5 DEF InclusionScan
  <2> QED
    BY <1>5, <2>2, <2>3 DEF InclusionScan
<1>6. CASE PayloadStep(t)
  <2>1. TimerFor(CollectionDeadline(SlotOf(t))) \in Int
    BY TimerType, WatchBeforeDeadline, TaskTypes
  <2> QED
    BY <1>6, <2>1 DEF PayloadStep
<1>7. CASE WindowClosed(t)
  BY <1>7 DEF WindowClosed
<1>8. CASE WriteMarker(t)
  BY <1>8, TaskTypes DEF WriteMarker, Wall
<1>9. CASE NoMarker(t)
  BY <1>9 DEF NoMarker
<1>10. CASE ExplainSucceeds(t)
  BY <1>10, TaskTypes DEF ExplainSucceeds, VerdictFor, Verdicts
<1>11. CASE ExplainFails(t)
  BY <1>11 DEF ExplainFails
<1>12. CASE CancelTask(t)
  BY <1>12 DEF CancelTask
<1> QED
  BY <1>1, <1>2, <1>3, <1>4, <1>5, <1>6, <1>7, <1>8, <1>9, <1>10, <1>11, <1>12 DEF TaskStep

\* Every step keeps the types.
LEMMA TypeStep == TypeOK /\ [Next]_vars => TypeOK'
<1>1. ASSUME TypeOK, UNCHANGED vars PROVE TypeOK'
  BY <1>1 DEF TypeOK, vars, clockVars, envVars, procVars, loopVars, taskVars, storeVars, expVars
<1> QED
  BY <1>1, EnvironmentType, LoopType, TaskType DEF Next

\* The daemon's variables stay in their types, with or without clock steps.
THEOREM TypeCorrect == Spec => []TypeOK
<1>1. ASSUME Init PROVE TypeOK
  <2>1. chain \in SUBSET Nat /\ inclusion \in [Duties -> Nat] /\ skew \in Int
    BY <1>1, DutyConstants DEF Init
  <2>2. completed \in [Duties -> Nat] /\ records \in [Duties -> Nat]
    BY <1>1 DEF Init
  <2>3. completedAt \in [Duties -> Int] /\ verdict \in [Duties -> Verdicts \cup {"none"}]
    BY <1>1 DEF Init
  <2>4. giveUp \in [Tasks -> Int] /\ wake \in [Tasks -> Int]
    BY <1>1 DEF Init
  <2>5. /\ failed \in [Tasks -> BOOLEAN] /\ marked \in [Tasks -> BOOLEAN]
        /\ deaf \in [Tasks -> BOOLEAN]
    BY <1>1 DEF Init
  <2>6. /\ now \in Nat /\ steps \in Nat /\ head \in Nat /\ starts \in Nat
        /\ proc \in {"down", "up", "stopping"} /\ clockDue \in BOOLEAN
    BY <1>1 DEF Init
  <2>7. loop \in [pc : {"returned", "top", "fetch", "spawn", "sleep"}, epoch : Int,
                  todo : SUBSET Duties, wake : Int]
    BY <1>1 DEF Init, LoopIdle
  <2>8. /\ pc \in [Tasks -> TaskState]
        /\ poll \in [Tasks -> [Pollers -> PollState]]
    BY <1>1 DEF Init, TaskState, DonePolls, PollState
  <2>9. slotRows \in SUBSET (Int \X SlotKinds) /\ dutyRows \in SUBSET (Duties \X DutyKinds)
        /\ withheld \in SUBSET Int
    BY <1>1 DEF Init
  <2> QED
    BY <2>1, <2>2, <2>3, <2>4, <2>5, <2>6, <2>7, <2>8, <2>9 DEF TypeOK
<1> QED
  BY <1>1, TypeStep, PTL DEF Spec
-----------------------------------------------------------------------------
(* The evidence behind a verdict.  Nothing is assumed of the clock here: the *)
(* wall clock may be stepped back and a duty tracked twice.                 *)

PastScan == {"payload", "window", "marker"}

\* A step that writes no evidence and moves no unfailed task past the scan.
EvidenceQuiet ==
  /\ UNCHANGED <<inclusion, completed, verdict>>
  /\ \A d \in Duties : <<d, "attestation_included">> \in dutyRows'
                        <=> <<d, "attestation_included">> \in dutyRows
  /\ \A t \in Tasks : pc'[t] \in PastScan /\ ~failed'[t]
                       => pc[t] \in PastScan /\ ~failed[t]

\* A quiet step keeps the evidence.
LEMMA QuietKeepsEvidence ==
  ASSUME EvidenceInv, EvidenceQuiet
  PROVE  EvidenceInv'
<1> USE DEF EvidenceQuiet, EvidenceInv
<1>1. \A d \in Duties : Accounted(d) => Accounted(d)'
  BY DEF Accounted
<1>2. \A t \in Tasks : Duty(t)' = Duty(t) /\ Duty(t) \in Duties
  BY TaskTypes DEF Duty
<1>3. (\A t \in Tasks : pc[t] \in {"payload", "window", "marker"} /\ ~failed[t]
                         => Accounted(Duty(t)))'
  BY <1>1, <1>2 DEF PastScan, Duty
<1>4. (\A d \in Duties : completed[d] # 0 => Accounted(d))'
  BY <1>1
<1>5. VerdictMatchesChain'
  BY DEF VerdictMatchesChain
<1>6. (\A d \in Duties : inclusion[d] <= LastAttestationInclusionSlot(d.slot) \/ inclusion[d] = 0)'
  BY DEF LastAttestationInclusionSlot, FirstSlot, Epoch
<1>7. (\A d \in Duties : <<d, "attestation_included">> \in dutyRows => inclusion[d] # 0)'
  OBVIOUS
<1> QED
  BY <1>3, <1>4, <1>5, <1>6, <1>7

\* The environment, the process and runDutyTracking write no evidence.
LEMMA OutsideQuiet ==
  ASSUME TypeOK,
         \/ Tick \/ ClockStep \/ NodeAdvances \/ Start \/ Crash \/ Stop \/ Exit
         \/ SlotClock \/ LoopReturns \/ LoopStep \/ UNCHANGED vars
  PROVE  EvidenceQuiet
<1> USE DEF EvidenceQuiet, PastScan, clockVars, envVars, procVars, loopVars, taskVars, storeVars,
            expVars
<1>1. CASE Tick \/ ClockStep \/ NodeAdvances \/ Start \/ Stop
  BY <1>1 DEF Tick, ClockStep, NodeAdvances, Start, Stop
<1>2. CASE Crash \/ Exit
  BY <1>2 DEF Crash, Exit, ForgetTasks
<1>3. CASE SlotClock \/ LoopReturns \/ UNCHANGED vars
  BY <1>3 DEF SlotClock, LoopReturns, vars
<1>4. CASE LoopStep
  <2>1. CASE LoopTop \/ FetchFails \/ FetchSucceeds \/ LoopSleeps \/ LoopWakes
    BY <2>1 DEF LoopTop, FetchFails, FetchSucceeds, LoopSleeps, LoopWakes
  <2>2. ASSUME NEW d \in Duties, SkipDuty(d) PROVE EvidenceQuiet
    BY <2>2 DEF SkipDuty
  <2>3. ASSUME NEW d \in Duties, AssignDuty(d) PROVE EvidenceQuiet
    <3>1. PICK c \in Copies : pc' = [pc EXCEPT ![<<d, c>>] = "waitSlot"]
      BY <2>3 DEF AssignDuty
    <3>2. \A u \in Tasks : pc'[u] \in PastScan => pc[u] = pc'[u]
      BY <3>1 DEF TypeOK
    <3>3. failed' = failed /\ inclusion' = inclusion /\ completed' = completed
          /\ verdict' = verdict /\ dutyRows' = dutyRows \cup {<<d, "duty_assigned">>}
      BY <2>3 DEF AssignDuty
    <3> QED
      BY <3>2, <3>3
  <2> QED
    BY <1>4, <2>1, <2>2, <2>3 DEF LoopStep
<1> QED
  BY <1>1, <1>2, <1>3, <1>4

\* So do all steps of a task but the scan, the marker and the verdict.
LEMMA TaskQuiet ==
  ASSUME TypeOK, NEW t \in Tasks,
         \/ SlotReached(t) \/ PollStep(t) \/ PollsJoined(t)
         \/ InclusionError(t) \/ InclusionDeadline(t) \/ PayloadStep(t)
         \/ WindowClosed(t) \/ NoMarker(t) \/ ExplainFails(t) \/ CancelTask(t)
  PROVE  EvidenceQuiet
<1> USE DEF EvidenceQuiet, PastScan, OutsideTask, clockVars, envVars, procVars, loopVars, storeVars,
            expVars, TypeOK, CollectionError, Running
<1>1. CASE SlotReached(t) \/ PollsJoined(t)
  BY <1>1 DEF SlotReached, PollsJoined
<1>2. CASE PollStep(t)
  <2>1. ASSUME NEW p \in Pollers, PollMiss(t, p) \/ PollGivesUp(t, p) PROVE EvidenceQuiet
    BY <2>1 DEF PollMiss, PollGivesUp
  <2>2. ASSUME NEW p, NEW rows, PollWrites(t, p, rows) PROVE EvidenceQuiet
    BY <2>2 DEF PollWrites
  <2>3. ASSUME NEW p, PollFails(t, p) PROVE EvidenceQuiet
    BY <2>3 DEF PollFails
  <2>4. CASE BlockDeadline(t) \/ HeadPassed(t) \/ NodeReady(t)
    BY <2>4 DEF BlockDeadline, HeadPassed, NodeReady
  <2>5. CASE BlockFound(t) \/ BlockConfirmed(t) \/ BlockWithheld(t) \/ HeadFound(t)
             \/ PublishedFound(t)
    BY <2>5, <2>2 DEF BlockFound, BlockConfirmed, BlockWithheld, HeadFound, PublishedFound
  <2>6. CASE BlockStatusError(t) \/ BlockRecoveryExpires(t)
    BY <2>6, <2>3 DEF BlockStatusError, BlockRecoveryExpires
  <2> QED
    BY <1>2, <2>1, <2>4, <2>5, <2>6 DEF PollStep
<1>3. CASE InclusionError(t) \/ InclusionDeadline(t)
  BY <1>3 DEF InclusionError, InclusionDeadline, InclusionFails
<1>4. CASE PayloadStep(t)
  BY <1>4 DEF PayloadStep
<1>5. CASE WindowClosed(t) \/ NoMarker(t) \/ ExplainFails(t) \/ CancelTask(t)
  BY <1>5 DEF WindowClosed, NoMarker, ExplainFails, CancelTask
<1> QED
  BY <1>1, <1>2, <1>3, <1>4, <1>5

\* The scan ran over the whole window, so an unfailed task accounts for the vote.
LEMMA ScanKeepsEvidence ==
  ASSUME TypeOK, EvidenceInv, NEW t \in Tasks, InclusionScan(t)
  PROVE  EvidenceInv'
<1> USE DEF EvidenceInv, TypeOK, OutsideTask, clockVars, envVars, procVars, loopVars, expVars
<1> DEFINE d == Duty(t)
<1>1. d \in Duties /\ SlotOf(t) = d.slot /\ d.slot \in Nat
  BY TaskTypes
<1>2. LastAttestationInclusionSlot(d.slot) \in Int
  BY <1>1, EpochBounds, DutyConstants DEF LastAttestationInclusionSlot, FirstSlot
<1>3. inclusion' = inclusion /\ completed' = completed /\ verdict' = verdict /\ head \in Nat
      /\ head >= LastAttestationInclusionSlot(d.slot)
      /\ pc' = [pc EXCEPT ![t] = "payload"]
  BY <1>1 DEF InclusionScan, InclusionWindowQueried
<1>4. ScanFinds(d) <=> inclusion[d] # 0
  BY <1>1, <1>2, <1>3 DEF ScanFinds
<1>5. \/ ~ScanFinds(d) /\ dutyRows' = dutyRows /\ failed' = failed
      \/ ScanFinds(d) /\ dutyRows' = dutyRows \cup {<<d, "attestation_included">>}
         /\ failed' = failed
      \/ ScanFinds(d) /\ dutyRows' = dutyRows /\ failed' = [failed EXCEPT ![t] = TRUE]
  BY DEF InclusionScan, CollectionError
<1>6. failed'[t] \/ Accounted(d)'
  BY <1>3, <1>4, <1>5 DEF Accounted
<1>7. \A e \in Duties : Accounted(e) => Accounted(e)'
  BY <1>3, <1>5 DEF Accounted
<1>8. (\A u \in Tasks : pc[u] \in {"payload", "window", "marker"} /\ ~failed[u]
                          => Accounted(Duty(u)))'
  <2> SUFFICES ASSUME NEW u \in Tasks, pc'[u] \in {"payload", "window", "marker"}, ~failed'[u]
               PROVE  Accounted(Duty(u))'
    OBVIOUS
  <2>1. CASE u = t
    BY <2>1, <1>6
  <2>2. CASE u # t
    <3>1. pc'[u] = pc[u] /\ failed'[u] = failed[u]
      BY <2>2, <1>3, <1>5
    <3>2. Duty(u) \in Duties /\ Accounted(Duty(u))
      BY <3>1, TaskTypes
    <3> QED
      BY <3>2, <1>7 DEF Accounted, Duty
  <2> QED
    BY <2>1, <2>2
<1>9. (\A e \in Duties : <<e, "attestation_included">> \in dutyRows => inclusion[e] # 0)'
  BY <1>3, <1>4, <1>5
<1>10. (\A e \in Duties : completed[e] # 0 => Accounted(e))'
  BY <1>3, <1>7
<1>11. VerdictMatchesChain'
  BY <1>3 DEF VerdictMatchesChain
<1>12. (\A e \in Duties : inclusion[e] <= LastAttestationInclusionSlot(e.slot)
                          \/ inclusion[e] = 0)'
  BY <1>3 DEF LastAttestationInclusionSlot, FirstSlot, Epoch
<1> QED
  BY <1>8, <1>9, <1>10, <1>11, <1>12

\* Every step keeps the evidence.
LEMMA EvidenceStep == TypeOK /\ EvidenceInv /\ [Next]_vars => EvidenceInv'
<1> SUFFICES ASSUME TypeOK, EvidenceInv, [Next]_vars PROVE EvidenceInv'
  OBVIOUS
<1>1. CASE \/ Tick \/ ClockStep \/ NodeAdvances \/ Start \/ Crash \/ Stop \/ Exit
           \/ SlotClock \/ LoopReturns \/ LoopStep \/ UNCHANGED vars
  BY <1>1, OutsideQuiet, QuietKeepsEvidence
<1>2. ASSUME NEW t \in Tasks, TaskStep(t) \/ CancelTask(t) PROVE EvidenceInv'
  <2> USE DEF EvidenceInv, TypeOK, OutsideTask, clockVars, envVars, procVars, loopVars, expVars,
              storeVars
  <2> DEFINE d == Duty(t)
  <2>1. d \in Duties
    BY TaskTypes
  <2>2. CASE WriteMarker(t)
    <3>1. /\ inclusion' = inclusion /\ dutyRows' = dutyRows /\ verdict' = verdict
          /\ failed' = failed /\ pc' = [pc EXCEPT ![t] = "explain"]
          /\ completed' = [completed EXCEPT ![d] = @ + 1]
          /\ pc[t] = "marker" /\ ~failed[t]
      BY <2>2 DEF WriteMarker, Running
    <3>2. Accounted(d)
      BY <3>1
    <3>3. \A e \in Duties : Accounted(e)' <=> Accounted(e)
      BY <3>1 DEF Accounted
    <3>4. (\A e \in Duties : completed[e] # 0 => Accounted(e))'
      BY <3>1, <3>2, <3>3
    <3>5. \A u \in Tasks : Duty(u) \in Duties /\ (Accounted(Duty(u)) <=> Accounted(Duty(u))')
      BY <3>1, TaskTypes DEF Accounted, Duty
    <3>6. (\A u \in Tasks : pc[u] \in {"payload", "window", "marker"} /\ ~failed[u]
                              => Accounted(Duty(u)))'
      BY <3>1, <3>5
    <3>7. VerdictMatchesChain'
      BY <3>1 DEF VerdictMatchesChain
    <3>8. (\A e \in Duties : inclusion[e] <= LastAttestationInclusionSlot(e.slot)
                             \/ inclusion[e] = 0)'
      BY <3>1 DEF LastAttestationInclusionSlot, FirstSlot, Epoch
    <3> QED
      BY <3>1, <3>4, <3>6, <3>7, <3>8
  <2>3. CASE ExplainSucceeds(t)
    <3>1. /\ inclusion' = inclusion /\ dutyRows' = dutyRows /\ completed' = completed
          /\ failed' = failed /\ pc' = [pc EXCEPT ![t] = "ended"]
          /\ verdict' = [verdict EXCEPT ![d] = VerdictFor(d)]
      BY <2>3 DEF ExplainSucceeds
    <3>2. /\ VerdictFor(d) = "missed" => inclusion[d] = 0
          /\ VerdictFor(d) = "included" => inclusion[d] # 0
      BY <2>1 DEF VerdictFor, Accounted
    <3>3. VerdictMatchesChain'
      BY <3>1, <3>2, <2>1 DEF VerdictMatchesChain
    <3>4. \A e \in Duties : Accounted(e)' <=> Accounted(e)
      BY <3>1 DEF Accounted
    <3>5. \A u \in Tasks : Duty(u) \in Duties /\ (Accounted(Duty(u)) <=> Accounted(Duty(u))')
      BY <3>1, TaskTypes DEF Accounted, Duty
    <3>6. (\A u \in Tasks : pc[u] \in {"payload", "window", "marker"} /\ ~failed[u]
                              => Accounted(Duty(u)))'
      BY <3>1, <3>5
    <3>7. (\A e \in Duties : completed[e] # 0 => Accounted(e))'
      BY <3>1, <3>4
    <3>8. (\A e \in Duties : inclusion[e] <= LastAttestationInclusionSlot(e.slot)
                             \/ inclusion[e] = 0)'
      BY <3>1 DEF LastAttestationInclusionSlot, FirstSlot, Epoch
    <3> QED
      BY <3>1, <3>3, <3>6, <3>7, <3>8
  <2>4. CASE InclusionScan(t)
    BY <2>4, ScanKeepsEvidence
  <2> HIDE DEF EvidenceInv, TypeOK
  <2> QED
    BY <1>2, <2>2, <2>3, <2>4, TaskQuiet, QuietKeepsEvidence DEF TaskStep
<1> QED
  BY <1>1, <1>2 DEF Next

\* Initially no row is stored, and inclusion slots lie in their windows.
LEMMA EvidenceInit == Init => EvidenceInv
<1> SUFFICES ASSUME Init PROVE EvidenceInv
  OBVIOUS
<1>1. \A d \in Duties : /\ inclusion[d] \in {0} \cup chain /\ chain \in SUBSET Nat
                        /\ inclusion[d] # 0 => inclusion[d] <= LastAttestationInclusionSlot(d.slot)
  BY DutyConstants DEF Init
<1> QED
  BY <1>1 DEF Init, EvidenceInv, VerdictMatchesChain

\* A verdict "missed" or "included" is what the canonical chain says, whatever
\* fails, whenever the process is killed and however the wall clock is stepped.
THEOREM VerdictsTruthful == Spec => []VerdictMatchesChain
<1>1. EvidenceInv => VerdictMatchesChain
  BY DEF EvidenceInv
<1>2. Spec => []EvidenceInv
  BY EvidenceInit, EvidenceStep, TypeCorrect, PTL DEF Spec
<1> QED
  BY <1>1, <1>2, PTL

-----------------------------------------------------------------------------
(* One completion and one verdict per duty, when the wall clock is wrong by *)
(* a constant but never stepped back.                                       *)

\* An instant reached by the wall clock stays reached, and so does an epoch.
LEMMA TimeMonotone ==
  ASSUME TypeOK, now' = now \/ now' = now + 1, skew' = skew
  PROVE  /\ Wall \in Int /\ Wall' \in Int /\ Wall <= Wall'
         /\ Epoch(Wall) \in Int /\ Epoch(Wall') \in Int /\ Epoch(Wall) <= Epoch(Wall')
         /\ \A d \in Duties : Closed(d) => Closed(d)'
<1>1. Wall \in Int /\ Wall' \in Int /\ Wall <= Wall'
  <2>1. now \in Nat /\ skew \in Int
    BY DEF TypeOK
  <2> QED
    BY <2>1 DEF Wall
<1>2. \A d \in Duties : CollectionDeadline(d.slot) \in Int
                        /\ CollectionDeadline(d.slot)' = CollectionDeadline(d.slot)
  BY WatchBeforeDeadline, DutyConstants
     DEF CollectionDeadline, CollectionWindowEnd, LastAttestationInclusionSlot, FirstSlot, Epoch
<1>3. \A d \in Duties : Closed(d) => Closed(d)'
  BY <1>1, <1>2 DEF Closed
<1> QED
  BY <1>1, <1>3, EpochBounds, EpochMonotone

\* Waking up at TimerFor(x) means that the wall clock has reached x.
LEMMA TimerReaches ==
  ASSUME TypeOK, NEW x \in Int
  PROVE  TimerFor(x) \in Int /\ TimerFor(x) + skew >= x
  BY DEF TypeOK, TimerFor, Wall

\* A step of the environment or of a task that starts no task and leaves the
\* loop alone.
LoopQuiet ==
  /\ UNCHANGED <<skew, loop>>
  /\ now' = now \/ now' = now + 1
  /\ proc' = proc \/ (proc # "down" /\ proc' # "down")
  /\ \A t \in Tasks : pc'[t] # "none" => pc[t] # "none"

\* Such a step keeps the invariant of the loop.
LEMMA QuietKeepsLoop ==
  ASSUME TypeOK, LoopInv, LoopQuiet
  PROVE  LoopInv'
<1> USE DEF LoopInv, LoopQuiet
<1>1. \A t \in Tasks : Epoch(SlotOf(t))' = Epoch(SlotOf(t)) /\ Epoch(SlotOf(t)) \in Int
                       /\ Duty(t)' = Duty(t)
  BY TaskTypes, EpochBounds DEF Epoch, SlotOf, Duty
<1>2. Epoch(Wall) \in Int /\ Epoch(Wall') \in Int /\ Epoch(Wall) <= Epoch(Wall')
  BY TimeMonotone
<1>3. Epoch(Wall)' = Epoch(Wall')
  BY DEF Epoch
<1>4. (proc = "down" => \A t \in Tasks : pc[t] = "none")'
  OBVIOUS
<1>5. (loop.pc = "top" => \A t \in Tasks : pc[t] # "none" => Epoch(SlotOf(t)) < Epoch(Wall))'
  BY <1>1, <1>2, <1>3
<1>6. (loop.pc = "fetch" =>
        /\ loop.epoch <= Epoch(Wall)
        /\ \A t \in Tasks : pc[t] # "none" => Epoch(SlotOf(t)) < loop.epoch)'
  <2>1. loop.epoch \in Int
    BY DEF TypeOK
  <2> QED
    BY <1>1, <1>2, <1>3, <2>1
<1>7. (loop.pc = "spawn" =>
        /\ \A d \in loop.todo : Epoch(d.slot) = loop.epoch
        /\ \A t \in Tasks : pc[t] # "none" =>
             Epoch(SlotOf(t)) <= loop.epoch /\ Duty(t) \notin loop.todo)'
  BY <1>1 DEF Epoch
<1>8. (loop.pc = "sleep" =>
        /\ loop.wake + skew >= FirstSlot(loop.epoch + 1)
        /\ \A t \in Tasks : pc[t] # "none" => Epoch(SlotOf(t)) <= loop.epoch)'
  BY <1>1 DEF FirstSlot
<1> QED
  BY <1>4, <1>5, <1>6, <1>7, <1>8

\* A step that keeps time, counts and timers, and in which a task only ends,
\* is forgotten, or moves on before its collection window.
BeforeWindow == {"waitSlot", "polling", "inclusion", "payload"}

OnceQuiet ==
  /\ UNCHANGED <<skew, completed, records>>
  /\ now' = now \/ now' = now + 1
  /\ \A t \in Tasks :
       \/ pc'[t] = pc[t] /\ wake'[t] = wake[t]
       \/ pc'[t] = "none"
       \/ pc[t] # "none" /\ pc'[t] = "ended"
       \/ pc[t] \in BeforeWindow /\ pc'[t] \in BeforeWindow

\* Such a step writes no marker and no verdict.
LEMMA QuietKeepsOnce ==
  ASSUME TypeOK, OnceInv, OnceQuiet
  PROVE  OnceInv'
<1> USE DEF OnceInv, OnceQuiet, BeforeWindow
<1>1. \A t \in Tasks : Duty(t)' = Duty(t) /\ Duty(t) \in Duties
                       /\ CollectionDeadline(SlotOf(t))' = CollectionDeadline(SlotOf(t))
  BY TaskTypes DEF Duty, SlotOf, CollectionDeadline, CollectionWindowEnd,
     LastAttestationInclusionSlot, FirstSlot, Epoch
<1>2. \A d \in Duties : Closed(d) => Closed(d)'
  BY TimeMonotone
<1>3. DutyTrackedOnce'
  <2>1. \A t \in Tasks : pc'[t] # "none" => pc[t] # "none"
    OBVIOUS
  <2> QED
    BY <1>1, <2>1 DEF DutyTrackedOnce
<1>4. (\A t \in Tasks : pc[t] = "window" => wake[t] + skew >= CollectionDeadline(SlotOf(t)))'
  BY <1>1
<1>5. (\A t \in Tasks : pc[t] \in {"marker", "explain"} => Closed(Duty(t)))'
  <2> SUFFICES ASSUME NEW t \in Tasks, pc'[t] \in {"marker", "explain"}
               PROVE  Closed(Duty(t))'
    OBVIOUS
  <2>1. pc[t] = pc'[t]
    OBVIOUS
  <2>2. Closed(Duty(t)) /\ Duty(t) \in Duties
    BY <2>1, <1>1
  <2> QED
    BY <2>2, <1>2, <1>1
<1>6. (\A d \in Duties : completed[d] # 0 =>
        /\ completed[d] = 1 /\ Closed(d)
        /\ \A t \in Tasks : Duty(t) = d => pc[t] \in {"none", "explain", "ended"})'
  BY <1>1, <1>2
<1>7. (\A d \in Duties : records[d] # 0 =>
        /\ records[d] = 1 /\ Closed(d)
        /\ \A t \in Tasks : Duty(t) = d => pc[t] \in {"none", "ended"})'
  BY <1>1, <1>2
<1> QED
  BY <1>3, <1>4, <1>5, <1>6, <1>7

\* The environment and the process keep both invariants.
LEMMA EnvironmentOnce ==
  ASSUME MaxClockSteps = 0, TypeOK, LoopInv, OnceInv,
         \/ Tick \/ ClockStep \/ NodeAdvances \/ Start \/ Crash \/ Stop \/ Exit
         \/ SlotClock \/ LoopReturns \/ UNCHANGED vars
  PROVE  LoopInv' /\ OnceInv'
<1> USE DEF clockVars, envVars, procVars, loopVars, taskVars, storeVars, expVars
<1>1. ~ClockStep
  BY DEF ClockStep, TypeOK
<1>2. OnceQuiet
  <2>1. CASE Tick \/ NodeAdvances \/ Start \/ Stop
    BY <2>1 DEF OnceQuiet, Tick, NodeAdvances, Start, Stop
  <2>2. CASE SlotClock \/ LoopReturns \/ UNCHANGED vars
    BY <2>2 DEF OnceQuiet, SlotClock, LoopReturns, vars
  <2>3. CASE Crash \/ Exit
    BY <2>3 DEF OnceQuiet, Crash, Exit, ForgetTasks
  <2> QED
    BY <1>1, <2>1, <2>2, <2>3
<1>3. CASE Tick \/ NodeAdvances \/ Stop \/ SlotClock \/ UNCHANGED vars
  <2>1. LoopQuiet
    <3>1. UNCHANGED <<skew, loop, pc>> /\ (now' = now \/ now' = now + 1)
      BY <1>3 DEF Tick, NodeAdvances, Stop, SlotClock, vars
    <3>2. proc' = proc \/ (proc # "down" /\ proc' # "down")
      BY <1>3 DEF Tick, NodeAdvances, Stop, SlotClock, vars
    <3> QED
      BY <3>1, <3>2 DEF LoopQuiet
  <2> QED
    BY <2>1, <1>2, QuietKeepsLoop, QuietKeepsOnce
<1>4. CASE Start
  <2>1. loop' = [LoopIdle EXCEPT !.pc = "top"] /\ \A t \in Tasks : pc'[t] = "none"
    BY <1>4 DEF Start, LoopInv
  <2>2. LoopInv'
    BY <2>1 DEF LoopInv, LoopIdle
  <2> QED
    BY <2>2, <1>2, QuietKeepsOnce
<1>5. CASE Crash \/ Exit \/ LoopReturns
  <2>1. loop'.pc = "returned"
    BY <1>5 DEF Crash, Exit, LoopReturns, LoopIdle
  <2>2. proc' = "down" => \A t \in Tasks : pc'[t] = "none"
    BY <1>5 DEF Crash, Exit, LoopReturns, ForgetTasks
  <2>3. LoopInv'
    BY <2>1, <2>2 DEF LoopInv
  <2> QED
    BY <2>3, <1>2, QuietKeepsOnce
<1> QED
  BY <1>1, <1>3, <1>4, <1>5

\* The loop fetches an epoch once: it sleeps until the wall clock has left the
\* epoch it fetched.
LEMMA LoopOnce ==
  ASSUME TypeOK, LoopInv, OnceInv,
         LoopTop \/ FetchFails \/ FetchSucceeds \/ LoopSleeps \/ LoopWakes
         \/ (\E d \in Duties : SkipDuty(d))
  PROVE  LoopInv' /\ OnceInv'
<1> USE DEF clockVars, envVars, procVars, taskVars, storeVars, expVars
<1>1. UNCHANGED <<now, skew, proc, pc, wake, completed, records>> /\ proc = "up"
  BY DEF LoopTop, FetchFails, FetchSucceeds, LoopSleeps, LoopWakes, SkipDuty
<1>2. OnceInv'
  BY <1>1, QuietKeepsOnce DEF OnceQuiet
<1>3. /\ loop.epoch \in Int /\ loop.wake \in Int /\ now \in Int /\ skew \in Int
      /\ Wall \in Int /\ Epoch(Wall) \in Int
      /\ loop \in [pc : {"returned", "top", "fetch", "spawn", "sleep"}, epoch : Int,
                   todo : SUBSET Duties, wake : Int]
  BY EpochBounds DEF TypeOK, Wall
<1>4. \A t \in Tasks : Epoch(SlotOf(t)) \in Int /\ SlotOf(t) = Duty(t).slot
  BY EpochBounds, TaskTypes
<1>5. Wall' = Wall
  BY <1>1 DEF Wall
<1>6. CASE LoopTop
  <2>1. loop' = [loop EXCEPT !.pc = "fetch", !.epoch = Epoch(Wall)] /\ loop.pc = "top"
    BY <1>6 DEF LoopTop
  <2>2. loop'.pc = "fetch" /\ loop'.epoch = Epoch(Wall)
    BY <2>1, <1>3
  <2> QED
    BY <2>1, <2>2, <1>1, <1>2, <1>3, <1>5 DEF LoopInv, Epoch, SlotOf
<1>7. CASE FetchFails
  <2>1. loop'.pc = "top" /\ loop.pc = "fetch"
    BY <1>7 DEF FetchFails, LoopIdle
  <2> QED
    BY <2>1, <1>1, <1>2, <1>3, <1>4, <1>5 DEF LoopInv, Epoch, SlotOf
<1>8. CASE FetchSucceeds
  <2>1. /\ loop.pc = "fetch"
        /\ loop' = [loop EXCEPT !.pc = "spawn",
                                !.todo = {d \in Duties : Epoch(d.slot) = loop.epoch}]
    BY <1>8 DEF FetchSucceeds
  <2>2. /\ loop'.pc = "spawn" /\ loop'.epoch = loop.epoch
        /\ loop'.todo = {d \in Duties : Epoch(d.slot) = loop.epoch}
    BY <2>1, <1>3
  <2>3. \A t \in Tasks : pc[t] # "none" =>
          Epoch(SlotOf(t)) < loop.epoch /\ Duty(t) \notin loop'.todo
    BY <2>1, <2>2, <1>3, <1>4 DEF LoopInv
  <2> QED
    BY <2>2, <2>3, <1>1, <1>2, <1>3, <1>4 DEF LoopInv, Epoch, SlotOf, Duty
<1>9. CASE LoopSleeps
  <2>1. /\ loop.pc = "spawn"
        /\ loop' = [loop EXCEPT !.pc = "sleep", !.wake = TimerFor(FirstSlot(loop.epoch + 1))]
    BY <1>9 DEF LoopSleeps
  <2>2. FirstSlot(loop.epoch + 1) \in Int
    BY <1>3, DutyConstants DEF FirstSlot
  <2>3. /\ loop'.pc = "sleep" /\ loop'.epoch = loop.epoch
        /\ loop'.wake = TimerFor(FirstSlot(loop.epoch + 1))
    BY <2>1, <1>3
  <2>4. loop'.wake + skew >= FirstSlot(loop'.epoch + 1)
    BY <2>2, <2>3, TimerReaches
  <2> QED
    BY <2>1, <2>3, <2>4, <1>1, <1>2, <1>4 DEF LoopInv, Epoch, SlotOf, FirstSlot
<1>10. CASE LoopWakes
  <2>1. loop'.pc = "top" /\ loop.pc = "sleep" /\ loop.wake <= now
    BY <1>10 DEF LoopWakes, LoopIdle
  <2>2. FirstSlot(loop.epoch + 1) \in Int
    BY <1>3, DutyConstants DEF FirstSlot
  <2>3. Wall >= FirstSlot(loop.epoch + 1)
    BY <2>1, <2>2, <1>3 DEF LoopInv, Wall
  <2>4. Epoch(Wall) >= loop.epoch + 1
    BY <2>3, <1>3, EpochReached
  <2>5. \A t \in Tasks : pc[t] # "none" => Epoch(SlotOf(t)) < Epoch(Wall)
    BY <2>1, <2>4, <1>3, <1>4 DEF LoopInv
  <2> QED
    BY <2>1, <2>5, <1>1, <1>2, <1>5 DEF LoopInv, Epoch, SlotOf
<1>11. ASSUME NEW d \in Duties, SkipDuty(d) PROVE LoopInv'
  <2>1. loop.pc = "spawn" /\ loop' = [loop EXCEPT !.todo = loop.todo \ {d}]
    BY <1>11 DEF SkipDuty
  <2>2. loop'.pc = "spawn" /\ loop'.epoch = loop.epoch /\ loop'.todo = loop.todo \ {d}
    BY <2>1, <1>3
  <2> QED
    BY <2>1, <2>2, <1>1 DEF LoopInv, Epoch, SlotOf, Duty
<1> QED
  BY <1>2, <1>6, <1>7, <1>8, <1>9, <1>10, <1>11

\* A duty is only taken up before its collection deadline, so it has neither a
\* marker nor a verdict, and runDutyTracking spawns it once.
LEMMA AssignOnce ==
  ASSUME TypeOK, LoopInv, OnceInv, NEW d \in Duties, AssignDuty(d)
  PROVE  LoopInv' /\ OnceInv'
<1>1. PICK c \in Copies : /\ pc[<<d, c>>] = "none"
                          /\ pc' = [pc EXCEPT ![<<d, c>>] = "waitSlot"]
                          /\ wake' = [wake EXCEPT ![<<d, c>>] = TimerFor(d.slot)]
  BY DEF AssignDuty
<1> DEFINE t == <<d, c>>
<1>2. t \in Tasks /\ Duty(t) = d /\ SlotOf(t) = d.slot
  BY DEF Tasks, Duty, SlotOf
<1>3. /\ UNCHANGED <<now, skew, proc, completed, records>>
      /\ proc = "up" /\ loop.pc = "spawn" /\ d \in loop.todo
      /\ loop' = [loop EXCEPT !.todo = loop.todo \ {d}]
  BY DEF AssignDuty, clockVars, procVars, expVars
<1>4. loop'.pc = "spawn" /\ loop'.epoch = loop.epoch /\ loop'.todo = loop.todo \ {d}
  BY <1>3 DEF TypeOK
<1>5. /\ \A u \in Tasks : u # t => pc'[u] = pc[u] /\ wake'[u] = wake[u]
      /\ pc'[t] = "waitSlot"
  BY <1>1, <1>2 DEF TypeOK
<1>6. \A u \in Tasks : Duty(u) = d => pc[u] = "none"
  BY <1>3 DEF LoopInv
<1>7. ~Closed(d)
  <2>1. Wall < d.slot + WatchSlots /\ Wall \in Int /\ d.slot \in Int
    BY DutyConstants DEF AssignDuty, DutyWindowOpen, TypeOK, Wall
  <2> QED
    BY <2>1, WatchBeforeDeadline, DutyConstants DEF Closed
<1>8. completed[d] = 0 /\ records[d] = 0
  BY <1>7 DEF OnceInv
<1>9. LoopInv'
  <2>1. Epoch(d.slot) = loop.epoch
    BY <1>3 DEF LoopInv
  <2>2. loop.epoch \in Int
    BY DEF TypeOK
  <2>3. \A u \in Tasks : pc'[u] # "none" =>
          Epoch(SlotOf(u)) <= loop'.epoch /\ Duty(u) \notin loop'.todo
    BY <1>2, <1>3, <1>4, <1>5, <2>1, <2>2 DEF LoopInv
  <2> QED
    BY <1>3, <1>4, <2>3 DEF LoopInv, Epoch, SlotOf, Duty
<1>10. \A e \in Duties : Closed(e)' <=> Closed(e)
  BY <1>3 DEF Closed, Wall, CollectionDeadline, CollectionWindowEnd,
     LastAttestationInclusionSlot, FirstSlot, Epoch
<1>11. DutyTrackedOnce'
  BY <1>2, <1>5, <1>6 DEF OnceInv, DutyTrackedOnce, Duty
<1>12. (\A u \in Tasks : pc[u] = "window" => wake[u] + skew >= CollectionDeadline(SlotOf(u)))'
  BY <1>3, <1>5 DEF OnceInv, CollectionDeadline, CollectionWindowEnd,
     LastAttestationInclusionSlot, FirstSlot, Epoch, SlotOf
<1>13. (\A u \in Tasks : pc[u] \in {"marker", "explain"} => Closed(Duty(u)))'
  <2> SUFFICES ASSUME NEW u \in Tasks, pc'[u] \in {"marker", "explain"}
               PROVE  Closed(Duty(u))'
    OBVIOUS
  <2>1. pc[u] = pc'[u]
    BY <1>5
  <2>2. Closed(Duty(u)) /\ Duty(u) \in Duties
    BY <2>1, TaskTypes DEF OnceInv
  <2> QED
    BY <2>2, <1>10 DEF Duty
<1>14. (\A e \in Duties : completed[e] # 0 =>
         /\ completed[e] = 1 /\ Closed(e)
         /\ \A u \in Tasks : Duty(u) = e => pc[u] \in {"none", "explain", "ended"})'
  BY <1>2, <1>3, <1>5, <1>8, <1>10 DEF OnceInv, Duty
<1>15. (\A e \in Duties : records[e] # 0 =>
         /\ records[e] = 1 /\ Closed(e)
         /\ \A u \in Tasks : Duty(u) = e => pc[u] \in {"none", "ended"})'
  BY <1>2, <1>3, <1>5, <1>8, <1>10 DEF OnceInv, Duty
<1>16. OnceInv'
  BY <1>11, <1>12, <1>13, <1>14, <1>15 DEF OnceInv
<1> QED
  BY <1>9, <1>16

\* A step of a task never starts a task, moves the loop or moves the clock.
LEMMA TaskFrame ==
  ASSUME TypeOK, NEW t \in Tasks, TaskStep(t) \/ CancelTask(t)
  PROVE  /\ UNCHANGED <<now, skew, loop, proc>>
         /\ pc[t] # "none"
         /\ \A u \in Tasks : u # t => pc'[u] = pc[u] /\ wake'[u] = wake[u]
         /\ pc'[t] # "none"
<1> USE DEF OutsideTask, clockVars, envVars, procVars, loopVars, expVars, TypeOK, Running
<1>1. CASE SlotReached(t) \/ PollsJoined(t) \/ InclusionScan(t) \/ PayloadStep(t)
  BY <1>1 DEF SlotReached, PollsJoined, InclusionScan, PayloadStep
<1>2. CASE InclusionError(t) \/ InclusionDeadline(t)
  BY <1>2 DEF InclusionError, InclusionDeadline, InclusionFails
<1>3. CASE WindowClosed(t) \/ WriteMarker(t) \/ NoMarker(t)
  BY <1>3 DEF WindowClosed, WriteMarker, NoMarker
<1>4. CASE ExplainSucceeds(t) \/ ExplainFails(t) \/ CancelTask(t)
  BY <1>4 DEF ExplainSucceeds, ExplainFails, CancelTask, Live
<1>5. CASE PollStep(t)
  <2>1. UNCHANGED <<now, skew, loop, proc, pc, wake>>
    BY <1>5 DEF PollStep, PollMiss, PollGivesUp, BlockFound, BlockDeadline, BlockStatusError,
       BlockRecoveryExpires, NodeReady, BlockConfirmed, BlockWithheld, HeadFound,
       HeadPassed, PublishedFound, PollWrites, PollFails
  <2>2. pc[t] = "polling"
    BY <1>5 DEF PollStep, PollMiss, PollGivesUp, BlockFound, BlockDeadline, BlockStatusError,
       BlockRecoveryExpires, NodeReady, BlockConfirmed, BlockWithheld, HeadFound,
       HeadPassed, PublishedFound, Polling, Recovering, Confirming
  <2> QED
    BY <2>1, <2>2
<1> QED
  BY <1>1, <1>2, <1>3, <1>4, <1>5 DEF TaskStep

\* The steps of a task that write neither marker nor verdict.
LEMMA TaskOnceQuiet ==
  ASSUME TypeOK, NEW t \in Tasks,
         \/ SlotReached(t) \/ PollStep(t) \/ PollsJoined(t)
         \/ InclusionError(t) \/ InclusionDeadline(t) \/ InclusionScan(t)
         \/ ExplainFails(t) \/ CancelTask(t)
  PROVE  OnceQuiet
<1> USE DEF OutsideTask, clockVars, storeVars, expVars, TypeOK, Running, BeforeWindow, OnceQuiet
<1>1. CASE SlotReached(t) \/ PollsJoined(t) \/ InclusionScan(t)
  BY <1>1 DEF SlotReached, PollsJoined, InclusionScan
<1>2. CASE InclusionError(t) \/ InclusionDeadline(t)
  BY <1>2 DEF InclusionError, InclusionDeadline, InclusionFails
<1>3. CASE ExplainFails(t) \/ CancelTask(t)
  BY <1>3 DEF ExplainFails, CancelTask, Live
<1>4. CASE PollStep(t)
  BY <1>4 DEF PollStep, PollMiss, PollGivesUp, BlockFound, BlockDeadline, BlockStatusError,
     BlockRecoveryExpires, NodeReady, BlockConfirmed, BlockWithheld, HeadFound,
       HeadPassed, PublishedFound, PollWrites, PollFails
<1> QED
  BY <1>1, <1>2, <1>3, <1>4

\* The task of a duty is its only one, so it writes its only marker and its
\* only verdict, both after the collection deadline.
LEMMA TaskOnce ==
  ASSUME TypeOK, OnceInv, NEW t \in Tasks, TaskStep(t) \/ CancelTask(t)
  PROVE  OnceInv'
<1> DEFINE d == Duty(t)
<1>1. d \in Duties /\ SlotOf(t) = d.slot /\ d.slot \in Int
  BY TaskTypes
<1>2. /\ now' = now /\ skew' = skew /\ pc[t] # "none" /\ pc'[t] # "none"
      /\ \A u \in Tasks : u # t => pc'[u] = pc[u] /\ wake'[u] = wake[u]
  BY TaskFrame
<1>3. \A e \in Duties : Closed(e)' <=> Closed(e)
  BY <1>2 DEF Closed, Wall, CollectionDeadline, CollectionWindowEnd,
     LastAttestationInclusionSlot, FirstSlot, Epoch
<1>4. \A u \in Tasks : Duty(u)' = Duty(u) /\ Duty(u) \in Duties
                       /\ CollectionDeadline(SlotOf(u))' = CollectionDeadline(SlotOf(u))
  BY TaskTypes DEF Duty, SlotOf, CollectionDeadline, CollectionWindowEnd,
     LastAttestationInclusionSlot, FirstSlot, Epoch
<1>5. \A u \in Tasks : u # t /\ Duty(u) = d => pc[u] = "none" /\ pc'[u] = "none"
  BY <1>2 DEF OnceInv, DutyTrackedOnce
<1>6. DutyTrackedOnce'
  BY <1>2, <1>4 DEF OnceInv, DutyTrackedOnce
\* What is left to show of a step that moves t to a later state.
<1>7. ASSUME pc'[t] = "window" => wake'[t] + skew >= CollectionDeadline(d.slot),
             pc'[t] \in {"marker", "explain"} => Closed(d),
             \A e \in Duties : e # d => completed'[e] = completed[e] /\ records'[e] = records[e],
             completed'[d] # 0 => /\ completed'[d] = 1 /\ Closed(d)
                                  /\ pc'[t] \in {"explain", "ended"},
             records'[d] # 0 => records'[d] = 1 /\ Closed(d) /\ pc'[t] = "ended"
      PROVE  OnceInv'
  <2>1. (\A u \in Tasks : pc[u] = "window" => wake[u] + skew >= CollectionDeadline(SlotOf(u)))'
    BY <1>1, <1>2, <1>4, <1>7 DEF OnceInv
  <2>2. (\A u \in Tasks : pc[u] \in {"marker", "explain"} => Closed(Duty(u)))'
    <3> SUFFICES ASSUME NEW u \in Tasks, pc'[u] \in {"marker", "explain"}
                 PROVE  Closed(Duty(u))'
      OBVIOUS
    <3>1. Closed(Duty(u)) /\ Duty(u) \in Duties
      BY <1>2, <1>4, <1>7 DEF OnceInv
    <3> QED
      BY <3>1, <1>3 DEF Duty
  <2>3. (\A e \in Duties : completed[e] # 0 =>
          /\ completed[e] = 1 /\ Closed(e)
          /\ \A u \in Tasks : Duty(u) = e => pc[u] \in {"none", "explain", "ended"})'
    BY <1>1, <1>2, <1>3, <1>4, <1>5, <1>7 DEF OnceInv
  <2>4. (\A e \in Duties : records[e] # 0 =>
          /\ records[e] = 1 /\ Closed(e)
          /\ \A u \in Tasks : Duty(u) = e => pc[u] \in {"none", "ended"})'
    BY <1>1, <1>2, <1>3, <1>4, <1>5, <1>7 DEF OnceInv
  <2> QED
    BY <1>6, <2>1, <2>2, <2>3, <2>4 DEF OnceInv
<1> USE DEF OutsideTask, clockVars, storeVars, expVars, TypeOK, Running
<1>8. CASE PayloadStep(t)
  <2>1. /\ pc[t] = "payload" /\ pc'[t] = "window" /\ completed' = completed /\ records' = records
        /\ wake'[t] = TimerFor(CollectionDeadline(d.slot))
    BY <1>8, <1>1 DEF PayloadStep
  <2>2. wake'[t] + skew >= CollectionDeadline(d.slot)
    BY <2>1, <1>1, TimerReaches, WatchBeforeDeadline
  <2>3. completed[d] = 0 /\ records[d] = 0
    BY <2>1, <1>1 DEF OnceInv
  <2> QED
    BY <2>1, <2>2, <2>3, <1>7
<1>9. CASE WindowClosed(t)
  <2>1. /\ pc[t] = "window" /\ pc'[t] = "marker" /\ completed' = completed /\ records' = records
        /\ wake[t] <= now
    BY <1>9 DEF WindowClosed
  <2>2. Closed(d)
    <3>1. wake[t] + skew >= CollectionDeadline(d.slot)
      BY <2>1, <1>1 DEF OnceInv
    <3>2. wake[t] \in Int /\ skew \in Int /\ now \in Int /\ CollectionDeadline(d.slot) \in Int
      BY <1>1, WatchBeforeDeadline
    <3> QED
      BY <2>1, <3>1, <3>2 DEF Closed, Wall
  <2>3. completed[d] = 0 /\ records[d] = 0
    BY <2>1, <1>1 DEF OnceInv
  <2> QED
    BY <2>1, <2>2, <2>3, <1>7
<1>10. CASE WriteMarker(t) \/ NoMarker(t)
  <2>1. pc[t] = "marker" /\ pc'[t] = "explain" /\ records' = records
    BY <1>10 DEF WriteMarker, NoMarker
  <2>2. completed' = completed \/ completed' = [completed EXCEPT ![d] = completed[d] + 1]
    BY <1>10 DEF WriteMarker, NoMarker
  <2>3. completed[d] = 0 /\ records[d] = 0 /\ Closed(d)
    BY <2>1, <1>1 DEF OnceInv
  <2>4. /\ \A e \in Duties : e # d => completed'[e] = completed[e]
        /\ completed'[d] \in {0, 1}
    BY <2>2, <2>3, <1>1
  <2> QED
    BY <2>1, <2>3, <2>4, <1>7
<1>11. CASE ExplainSucceeds(t)
  <2>1. /\ pc[t] = "explain" /\ pc'[t] = "ended" /\ completed' = completed
        /\ records' = [records EXCEPT ![d] = records[d] + 1]
    BY <1>11 DEF ExplainSucceeds
  <2>2. records[d] = 0 /\ Closed(d) /\ (completed[d] # 0 => completed[d] = 1)
    BY <2>1, <1>1 DEF OnceInv
  <2>3. (\A e \in Duties : e # d => records'[e] = records[e]) /\ records'[d] = 1
    BY <2>1, <2>2, <1>1
  <2> QED
    BY <2>1, <2>2, <2>3, <1>7
<1> HIDE DEF TypeOK
<1> QED
  BY <1>8, <1>9, <1>10, <1>11, TaskOnceQuiet, QuietKeepsOnce DEF TaskStep

\* Both invariants are inductive when the wall clock is never stepped back.
LEMMA OnceStep ==
  ASSUME MaxClockSteps = 0
  PROVE  TypeOK /\ LoopInv /\ OnceInv /\ [Next]_vars => LoopInv' /\ OnceInv'
<1> SUFFICES ASSUME TypeOK, LoopInv, OnceInv, [Next]_vars
             PROVE  LoopInv' /\ OnceInv'
  OBVIOUS
<1>1. CASE LoopStep
  BY <1>1, LoopOnce, AssignOnce DEF LoopStep
<1>2. ASSUME NEW t \in Tasks, TaskStep(t) \/ CancelTask(t)
      PROVE  LoopInv' /\ OnceInv'
  <2>1. LoopQuiet
    BY <1>2, TaskFrame DEF LoopQuiet
  <2> QED
    BY <1>2, <2>1, QuietKeepsLoop, TaskOnce
<1> QED
  BY <1>1, <1>2, EnvironmentOnce DEF Next

\* Both hold before the first start: there is no task and no row.
LEMMA OnceInit == Init => LoopInv /\ OnceInv
<1> SUFFICES ASSUME Init PROVE LoopInv /\ OnceInv
  OBVIOUS
<1>1. \A t \in Tasks : pc[t] = "none"
  BY DEF Init
<1> QED
  BY <1>1 DEF Init, LoopInv, OnceInv, DutyTrackedOnce, LoopIdle

\* The invariant of a daemon whose wall clock is never stepped back.
LEMMA Steady == ASSUME MaxClockSteps = 0 PROVE Spec => []SteadyInv
<1>1. TypeOK /\ LoopInv /\ OnceInv /\ [Next]_vars => LoopInv' /\ OnceInv'
  BY OnceStep
<1>2. Spec => [](EvidenceInv /\ LoopInv /\ OnceInv)
  BY <1>1, OnceInit, EvidenceInit, EvidenceStep, TypeCorrect, PTL DEF Spec
<1>3. TypeOK /\ EvidenceInv /\ LoopInv /\ OnceInv => SteadyInv
  BY DEF SteadyInv
<1> QED
  BY <1>2, <1>3, TypeCorrect, PTL

\* A duty gets at most one collection_completed row, however often the process
\* is stopped, killed and started again on one database.
THEOREM CompletesOnce == ASSUME MaxClockSteps = 0 PROVE Spec => []OneCompletion
<1>1. SteadyInv => OneCompletion
  BY DEF SteadyInv, OnceInv, OneCompletion, TypeOK
<1> QED
  BY <1>1, Steady, PTL

\* runDutyTracking has at most one trackDuty for a duty, over any number of
\* epochs, failed fetches and restarts, while the wall clock is never stepped back.
THEOREM TrackedOnce == ASSUME MaxClockSteps = 0 PROVE Spec => []DutyTrackedOnce
<1>1. SteadyInv => DutyTrackedOnce
  BY DEF SteadyInv, OnceInv
<1> QED
  BY <1>1, Steady, PTL

-----------------------------------------------------------------------------
(* The daemon implements the ledger.                                        *)

\* Only a verdict moves what the ledger sees.
LEMMA LedgerFrame ==
  ASSUME TypeOK, [Next]_vars, \A t \in Tasks : ~ExplainSucceeds(t)
  PROVE  UNCHANGED <<inclusion, verdict, records>>
<1> USE DEF clockVars, envVars, procVars, loopVars, taskVars, storeVars, expVars, OutsideTask
<1>1. CASE Tick \/ ClockStep \/ NodeAdvances \/ Start \/ Stop \/ Crash \/ Exit
  BY <1>1 DEF Tick, ClockStep, NodeAdvances, Start, Stop, Crash, Exit
<1>2. CASE SlotClock \/ LoopReturns \/ LoopStep \/ UNCHANGED vars
  BY <1>2 DEF SlotClock, LoopReturns, vars, LoopStep, LoopTop, FetchFails, FetchSucceeds,
     LoopSleeps, LoopWakes, SkipDuty, AssignDuty
<1>3. ASSUME NEW t \in Tasks, TaskStep(t) \/ CancelTask(t)
      PROVE  UNCHANGED <<inclusion, verdict, records>>
  <2>1. CASE PollStep(t)
    BY <2>1 DEF PollStep, PollMiss, PollGivesUp, BlockFound, BlockDeadline, BlockStatusError,
       BlockRecoveryExpires, NodeReady, BlockConfirmed, BlockWithheld, HeadFound,
       HeadPassed, PublishedFound, PollWrites, PollFails
  <2>2. CASE SlotReached(t) \/ PollsJoined(t) \/ InclusionScan(t) \/ PayloadStep(t)
    BY <2>2 DEF SlotReached, PollsJoined, InclusionScan, PayloadStep
  <2>3. CASE InclusionError(t) \/ InclusionDeadline(t)
    BY <2>3 DEF InclusionError, InclusionDeadline, InclusionFails
  <2>4. CASE WindowClosed(t) \/ WriteMarker(t) \/ NoMarker(t) \/ ExplainFails(t) \/ CancelTask(t)
    BY <2>4 DEF WindowClosed, WriteMarker, NoMarker, ExplainFails, CancelTask
  <2> QED
    BY <1>3, <2>1, <2>2, <2>3, <2>4 DEF TaskStep
<1> QED
  BY <1>1, <1>2, <1>3 DEF Next

\* Every step of the daemon is a step of the ledger or leaves it alone.
LEMMA LedgerStep == SteadyInv /\ [Next]_vars => [Ledger!Next]_(Ledger!ledger)
<1> SUFFICES ASSUME SteadyInv, [Next]_vars PROVE [Ledger!Next]_(Ledger!ledger)
  OBVIOUS
<1>1. TypeOK /\ EvidenceInv /\ OnceInv
  BY DEF SteadyInv
<1>2. ASSUME NEW t \in Tasks, ExplainSucceeds(t) PROVE Ledger!Next
  <2> DEFINE d == Duty(t)
  <2>1. d \in Duties
    BY TaskTypes
  <2>2. /\ pc[t] = "explain" /\ inclusion' = inclusion
        /\ verdict' = [verdict EXCEPT ![d] = VerdictFor(d)]
        /\ records' = [records EXCEPT ![d] = records[d] + 1]
    BY <1>2 DEF ExplainSucceeds, Running, envVars
  <2>3. records[d] = 0
    BY <1>1, <2>1, <2>2 DEF OnceInv
  <2>4. VerdictFor(d) \in {"insufficient_data", Ledger!Truth(d)}
    BY <1>1, <2>1 DEF EvidenceInv, Accounted, VerdictFor, Ledger!Truth
  <2>5. records' = [records EXCEPT ![d] = 1]
    BY <2>2, <2>3
  <2>6. \E v \in {"insufficient_data", Ledger!Truth(d)} : verdict' = [verdict EXCEPT ![d] = v]
    BY <2>2, <2>4
  <2>7. Ledger!Record(d)
    BY <2>2, <2>3, <2>5, <2>6 DEF Ledger!Record
  <2> QED
    BY <2>1, <2>7 DEF Ledger!Next
<1>3. CASE \A t \in Tasks : ~ExplainSucceeds(t)
  BY <1>1, <1>3, LedgerFrame DEF Ledger!ledger
<1> QED
  BY <1>2, <1>3

\* The daemon records at most one verdict per duty and only a truthful one,
\* across crashes, restarts, failed requests and failed writes.
THEOREM Implementation == ASSUME MaxClockSteps = 0 PROVE Spec => ImplementsLedger
<1>1. Init => Ledger!Init
  <2> SUFFICES ASSUME Init PROVE Ledger!Init
    OBVIOUS
  <2>1. inclusion \in [Duties -> Nat]
    BY DutyConstants DEF Init
  <2> QED
    BY <2>1 DEF Init, Ledger!Init
<1>2. Spec => []SteadyInv
  BY Steady
<1> QED
  BY <1>1, <1>2, LedgerStep, PTL DEF Spec, ImplementsLedger, Ledger!Spec
-----------------------------------------------------------------------------
(* The block rows.                                                          *)

\* Only BlockFound, BlockConfirmed and BlockWithheld write a block row, and only
\* NodeReady starts a confirmation.
BlockQuiet ==
  /\ UNCHANGED <<chain, withheld>> /\ head <= head'
  /\ \A row \in slotRows' : row \in slotRows \/ row[2] = "slot_start"
  /\ \A t \in Tasks : poll'[t]["block"] = "confirming" => poll[t]["block"] = "confirming"

\* A quiet step keeps the block rows and the confirmations.
LEMMA QuietKeepsBlockRows ==
  ASSUME TypeOK, BlockRowsMatchChain, ConfirmInv, BlockQuiet, head' \in Nat
  PROVE  BlockRowsMatchChain' /\ ConfirmInv'
<1>1. BlockRowsMatchChain'
  BY DEF BlockRowsMatchChain, BlockQuiet
<1>2. ASSUME NEW t \in Tasks, poll'[t]["block"] = "confirming" PROVE head' > SlotOf(t)
  BY <1>2, TaskTypes DEF BlockQuiet, ConfirmInv, TypeOK
<1>3. ConfirmInv'
  BY <1>2 DEF ConfirmInv, SlotOf
<1> QED
  BY <1>1, <1>3

\* Outside the polls nothing touches the block rows.
LEMMA OutsideBlockQuiet ==
  ASSUME TypeOK,
         \/ Tick \/ ClockStep \/ NodeAdvances \/ Start \/ Crash \/ Stop \/ Exit
         \/ SlotClock \/ LoopReturns \/ LoopStep \/ UNCHANGED vars
         \/ \E t \in Tasks : CancelTask(t) \/ (TaskStep(t) /\ ~PollStep(t))
  PROVE  BlockQuiet
<1> USE DEF BlockQuiet, TypeOK, clockVars, envVars, procVars, loopVars, taskVars, storeVars,
            expVars, OutsideTask
<1>1. CASE Tick \/ ClockStep \/ Start \/ Stop \/ LoopReturns \/ UNCHANGED vars
  BY <1>1 DEF Tick, ClockStep, Start, Stop, LoopReturns, vars
<1>2. CASE NodeAdvances
  BY <1>2 DEF NodeAdvances
<1>3. CASE Crash \/ Exit
  <2>1. "block" \in Pollers
    BY DEF Pollers
  <2> QED
    BY <1>3, <2>1 DEF Crash, Exit, ForgetTasks, DonePolls
<1>4. CASE SlotClock
  BY <1>4 DEF SlotClock
<1>5. CASE LoopStep
  BY <1>5 DEF LoopStep, LoopTop, FetchFails, FetchSucceeds, LoopSleeps, LoopWakes, SkipDuty,
     AssignDuty
<1>6. ASSUME NEW t \in Tasks, CancelTask(t) \/ (TaskStep(t) /\ ~PollStep(t)) PROVE BlockQuiet
  <2>1. CASE SlotReached(t)
    <3>1. "block" \in Pollers
      BY DEF Pollers
    <3> QED
      BY <2>1, <3>1 DEF SlotReached, SilentPolls
  <2>2. CASE ~SlotReached(t)
    BY <1>6, <2>2 DEF TaskStep, PollsJoined, InclusionScan, PayloadStep, InclusionError,
       InclusionDeadline, InclusionFails, WindowClosed, WriteMarker, NoMarker, ExplainSucceeds,
       ExplainFails, CancelTask
  <2> QED
    BY <2>1, <2>2
<1> QED
  BY <1>1, <1>2, <1>3, <1>4, <1>5, <1>6

\* A poll that ends, or goes on without a confirmation, is quiet.
LEMMA PollBlockQuiet ==
  ASSUME TypeOK, NEW t \in Tasks, PollStep(t),
         ~BlockFound(t), ~BlockConfirmed(t), ~BlockWithheld(t), ~NodeReady(t)
  PROVE  BlockQuiet
<1> USE DEF BlockQuiet, TypeOK, clockVars, envVars, procVars, loopVars, storeVars, expVars,
            OutsideTask
<1>1. PICK p \in Pollers, state \in {"answered", "done", "recovering"} :
        poll' = [poll EXCEPT ![t][p] = state]
  <2>1. "block" \in Pollers /\ "head" \in Pollers /\ "published" \in Pollers
    BY DEF Pollers
  <2> QED
    BY <2>1 DEF PollStep, PollMiss, PollGivesUp, BlockDeadline, BlockStatusError,
       BlockRecoveryExpires, HeadFound, HeadPassed, PublishedFound, PollWrites, PollFails, PollGoes
<1>2. UNCHANGED <<chain, withheld, slotRows, head>>
  BY DEF PollStep, PollMiss, PollGivesUp, BlockDeadline, BlockStatusError,
     BlockRecoveryExpires, HeadFound, HeadPassed, PublishedFound, PollWrites, PollFails
<1>3. \A u \in Tasks : poll'[u]["block"] = "confirming" => poll[u]["block"] = "confirming"
  BY <1>1 DEF Pollers
<1> QED
  BY <1>2, <1>3

\* block_skipped is only stored for a slot without a canonical block, or one
\* whose header the node withheld from the confirming request: a task that
\* confirms has seen the head past its slot, and the head does not go back.
THEOREM BlockRowsTruthful == Spec => []BlockRowsMatchChain
<1>1. Init => BlockRowsMatchChain /\ ConfirmInv
  <2>1. Init => ConfirmInv
    BY DEF Init, ConfirmInv, DonePolls, Pollers
  <2> QED
    BY <2>1 DEF Init, BlockRowsMatchChain
<1>2. TypeOK /\ BlockRowsMatchChain /\ ConfirmInv /\ [Next]_vars
        => BlockRowsMatchChain' /\ ConfirmInv'
  <2> SUFFICES ASSUME TypeOK, BlockRowsMatchChain, ConfirmInv, [Next]_vars
               PROVE  BlockRowsMatchChain' /\ ConfirmInv'
    OBVIOUS
  <2>0. head' \in Nat
    BY TypeStep DEF TypeOK
  <2>1. ASSUME BlockQuiet PROVE BlockRowsMatchChain' /\ ConfirmInv'
    BY <2>0, <2>1, QuietKeepsBlockRows
  <2>2. ASSUME NEW t \in Tasks, PollStep(t) PROVE BlockRowsMatchChain' /\ ConfirmInv'
    <3> USE DEF clockVars, envVars, procVars, loopVars, storeVars, expVars, OutsideTask
    <3>0. SlotOf(t) \in Nat /\ head \in Nat /\ "block" \in Pollers
      BY TaskTypes DEF TypeOK, Pollers
    <3>1. CASE BlockFound(t) \/ BlockConfirmed(t) \/ BlockWithheld(t)
      <4>1. PICK kind \in {"block_seen", "block_skipped"} :
              /\ slotRows' = slotRows \cup {<<SlotOf(t), kind>>} \/ slotRows' = slotRows
              /\ kind = "block_seen" => SlotOf(t) \in chain
              /\ kind = "block_skipped" => SlotOf(t) \notin chain \/ SlotOf(t) \in withheld'
        <5>1. CASE BlockFound(t)
          BY <5>1 DEF BlockFound, PollWrites, Visible
        <5>2. CASE BlockWithheld(t)
          BY <5>2 DEF BlockWithheld, PollWrites
        <5>3. CASE BlockConfirmed(t)
          <6>1. head > SlotOf(t)
            BY <5>3 DEF BlockConfirmed, Confirming, ConfirmInv
          <6> QED
            BY <5>3, <6>1, <3>0 DEF BlockConfirmed, PollWrites, Visible
        <5> QED
          BY <3>1, <5>1, <5>2, <5>3
      <4>2. chain' = chain /\ head' = head /\ withheld \subseteq withheld'
            /\ poll' = [poll EXCEPT ![t]["block"] = "done"]
        BY <3>1 DEF BlockFound, BlockConfirmed, BlockWithheld, PollWrites, PollGoes
      <4>3. BlockRowsMatchChain'
        BY <4>1, <4>2 DEF BlockRowsMatchChain
      <4>4. ConfirmInv'
        BY <4>2, <3>0 DEF ConfirmInv, TypeOK, SlotOf
      <4> QED
        BY <4>3, <4>4
    <3>2. CASE NodeReady(t)
      <4>1. head' = head /\ head > SlotOf(t) /\ poll' = [poll EXCEPT ![t]["block"] = "confirming"]
        BY <3>2 DEF NodeReady, NodeReadyForCanonicalQuery, PollGoes
      <4>2. ConfirmInv'
        BY <4>1, <3>0 DEF ConfirmInv, TypeOK, SlotOf
      <4>3. BlockRowsMatchChain'
        BY <3>2 DEF NodeReady, BlockRowsMatchChain
      <4> QED
        BY <4>2, <4>3
    <3> QED
      BY <2>1, <2>2, <3>1, <3>2, PollBlockQuiet
  <2> QED
    BY <2>1, <2>2, OutsideBlockQuiet DEF Next
<1> QED
  BY <1>1, <1>2, TypeCorrect, PTL DEF Spec
=============================================================================
