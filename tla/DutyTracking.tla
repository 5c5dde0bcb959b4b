---------------------------- MODULE DutyTracking ----------------------------
(***************************************************************************)
(* The life of an attester duty inside `whymiss watch`: runDutyTracking     *)
(* fetches the duties of the current epoch and spawns one trackDuty         *)
(* goroutine per duty; each goroutine polls the beacon node, writes rows    *)
(* into the SQLite store, writes collection_completed when nothing failed,  *)
(* and hands the stored rows to the RCA engine for a verdict.  The process  *)
(* may be stopped, may crash at any step and may be started again on the    *)
(* same database; the beacon node may lag, skip slots and fail requests.    *)
(*                                                                          *)
(* Time is counted in slots.  `now` is the monotonic (true) time, the wall  *)
(* clock reads now + skew, and a timer armed for a wall-clock instant is    *)
(* armed for the distance to it, as time.Until and time.After do.           *)
(***************************************************************************)
EXTENDS Integers

CONSTANTS
  SlotsPerEpoch,   \* domain.SlotsPerEpoch
  WatchSlots,      \* watchDeadlineSlots: how long the three first polls run
  SlackSlots,      \* inclusionPollSlack
  RecoverySlots,   \* defaultBlockRecoveryBudget, in slots
  PostEPBS,        \* schedule.IsPostEPBS()
  Duties,          \* the duties the node reports: records [slot, validator]
  Copies,          \* identities for goroutines that track the same duty
  Chains,          \* candidate canonical chains: sets of slots with a block
  Skews,           \* initial wall-clock errors
  MaxTime,         \* bound on now
  MaxStarts,       \* bound on process starts
  MaxClockSteps    \* bound on steps of the wall clock

ASSUME DutyConstants ==
  /\ SlotsPerEpoch \in Nat \ {0}
  /\ WatchSlots \in Nat \ {0}
  /\ SlackSlots \in Nat
  /\ RecoverySlots \in Nat
  /\ PostEPBS \in BOOLEAN
  /\ Chains \subseteq SUBSET Nat
  /\ Skews \subseteq Int
  /\ MaxTime \in Nat
  /\ MaxStarts \in Nat
  /\ MaxClockSteps \in Nat
  /\ \A d \in Duties : d.slot \in Nat
  \* The observation window of a duty closes before its collection window:
  \* 3 slots against at least 32 + 1 + 2 in the code.
  /\ WatchSlots <= SlotsPerEpoch + 1 + SlackSlots

VARIABLES
  now, skew, steps,            \* monotonic time, wall-clock error, steps taken
  chain, inclusion, head,      \* the canonical chain, where each duty's vote was
                               \* included (0: nowhere), the node's view of the head
  proc, starts,                \* "down", "up" or "stopping"; starts so far
  loop, clockDue,              \* runDutyTracking; runSlotClock is due to write
  pc, poll, giveUp, wake,      \* one trackDuty goroutine per task
  failed, marked, deaf,        \* collectionFailed; the task wrote its marker; a poll
                               \* of the task ended with every request failed
  slotRows, dutyRows,          \* the store: <<slot, kind>> and <<duty, kind>>
  completed, completedAt,      \* collection_completed rows: count, latest timestamp
  withheld,                    \* slots whose confirming header request got a header
                               \* marked optimistic or not canonical
  verdict, records             \* exporter: last verdict of a duty, verdicts recorded

envVars   == <<chain, inclusion, head>>
clockVars == <<now, skew, steps>>
procVars  == <<proc, starts>>
loopVars  == <<loop, clockDue>>
taskVars  == <<pc, poll, giveUp, wake, failed, marked, deaf>>
storeVars == <<slotRows, dutyRows, completed, completedAt, withheld>>
expVars   == <<verdict, records>>
vars == <<clockVars, envVars, procVars, loopVars, taskVars, storeVars, expVars>>

-----------------------------------------------------------------------------
(* Slot arithmetic.                                                         *)

Wall == now + skew

Epoch(s) == s \div SlotsPerEpoch

FirstSlot(e) == e * SlotsPerEpoch

LastAttestationInclusionSlot(s) == FirstSlot(Epoch(s) + 2) - 1

\* The window ends where the slot after the last inclusion slot starts.
CollectionWindowEnd(s) == s + (LastAttestationInclusionSlot(s) - s) + 1

CollectionDeadline(s) == CollectionWindowEnd(s) + SlackSlots

DutyWindowOpen(s) == Wall < s + WatchSlots

\* A wait until wall-clock instant t, begun now, ends at this monotonic time.
TimerFor(t) == IF t <= Wall THEN now ELSE now + (t - Wall)

-----------------------------------------------------------------------------
(* Tasks.                                                                   *)

Tasks == Duties \X Copies
Duty(t) == t[1]
SlotOf(t) == t[1].slot
DutySlots == {d.slot : d \in Duties}

Pollers == {"block", "head", "published"}

\* A poll is "silent" until the node answers it once and "answered" while it
\* goes on after an answer; past its deadline BlockSeen is "recovering" until the
\* node is ready, and then "confirming" with a second header request.
PollState == {"done", "silent", "answered", "recovering", "confirming"}

TaskState == {"none", "waitSlot", "polling", "inclusion", "payload", "window",
              "marker", "explain", "ended"}

\* The rows that decide whether a timeline is valid, complete and a miss.  The
\* rows of the other polls (head_updated, attestation_published and
\* payload_attested) are not kept: here only their failures matter.
SlotKinds == {"slot_start", "block_seen", "block_skipped"}
DutyKinds == {"duty_assigned", "attestation_included"}
Verdicts  == {"insufficient_data", "included", "missed"}

DonePolls   == [p \in Pollers |-> "done"]
SilentPolls == [p \in Pollers |-> "silent"]

LoopIdle == [pc |-> "returned", epoch |-> 0, todo |-> {}, wake |-> 0]

Init ==
  /\ now = 0 /\ skew \in Skews /\ steps = 0
  /\ chain \in Chains
  /\ inclusion \in [Duties -> {0} \cup chain]
  /\ \A d \in Duties : inclusion[d] # 0 =>
       inclusion[d] \in d.slot + 1 .. LastAttestationInclusionSlot(d.slot)
  /\ head = 0
  /\ proc = "down" /\ starts = 0
  /\ loop = LoopIdle /\ clockDue = FALSE
  /\ pc = [t \in Tasks |-> "none"]
  /\ poll = [t \in Tasks |-> DonePolls]
  /\ giveUp = [t \in Tasks |-> 0]
  /\ wake = [t \in Tasks |-> 0]
  /\ failed = [t \in Tasks |-> FALSE]
  /\ marked = [t \in Tasks |-> FALSE]
  /\ deaf = [t \in Tasks |-> FALSE]
  /\ slotRows = {} /\ dutyRows = {}
  /\ completed = [d \in Duties |-> 0]
  /\ completedAt = [d \in Duties |-> 0]
  /\ withheld = {}
  /\ verdict = [d \in Duties |-> "none"]
  /\ records = [d \in Duties |-> 0]
-----------------------------------------------------------------------------
(* The environment: time, the wall clock, the beacon node.                  *)

Tick ==
  /\ now < MaxTime
  /\ now' = now + 1
  /\ clockDue' = TRUE
  /\ UNCHANGED <<skew, steps, envVars, procVars, loop, taskVars, storeVars, expVars>>

\* The operator or the time daemon steps the wall clock back by one slot.
ClockStep ==
  /\ steps < MaxClockSteps
  /\ steps' = steps + 1
  /\ skew' = skew - 1
  /\ UNCHANGED <<now, envVars, procVars, loopVars, taskVars, storeVars, expVars>>

\* The node validates a block of the chain that is already due.
NodeAdvances ==
  /\ \E s \in chain : head < s /\ s <= now /\ head' = s
  /\ UNCHANGED <<clockVars, chain, inclusion, procVars, loopVars, taskVars, storeVars, expVars>>

\* The node holds a canonical block of slot s.  It may answer a header request
\* for it without: fetchHeader takes a header that is execution_optimistic or
\* not canonical for no header, and reports no error.  So a poll may miss and a
\* head may be withheld at any request, whatever an earlier one found.
Visible(s) == s \in chain /\ s <= head

-----------------------------------------------------------------------------
(* The process.                                                             *)

\* Watch opens the store and starts runSlotClock and runDutyTracking.
Start ==
  /\ proc = "down" /\ starts < MaxStarts
  /\ proc' = "up" /\ starts' = starts + 1
  /\ loop' = [LoopIdle EXCEPT !.pc = "top"]
  /\ clockDue' = TRUE
  /\ UNCHANGED <<clockVars, envVars, taskVars, storeVars, expVars>>

\* Volatile state is lost, the store stays.
ForgetTasks ==
  /\ pc' = [t \in Tasks |-> "none"]
  /\ poll' = [t \in Tasks |-> DonePolls]
  /\ giveUp' = [t \in Tasks |-> 0]
  /\ wake' = [t \in Tasks |-> 0]
  /\ failed' = [t \in Tasks |-> FALSE]
  /\ marked' = [t \in Tasks |-> FALSE]
  /\ deaf' = [t \in Tasks |-> FALSE]

Crash ==
  /\ proc # "down"
  /\ proc' = "down"
  /\ loop' = LoopIdle
  /\ ForgetTasks
  /\ UNCHANGED <<clockVars, envVars, starts, clockDue, storeVars, expVars>>

\* The context is cancelled (a signal, or a fatal error of another component).
Stop ==
  /\ proc = "up"
  /\ proc' = "stopping"
  /\ UNCHANGED <<clockVars, envVars, starts, loopVars, taskVars, storeVars, expVars>>

\* Every wait, request and store write of the loop returns the context error.
LoopReturns ==
  /\ proc = "stopping" /\ loop.pc # "returned"
  /\ loop' = LoopIdle
  /\ UNCHANGED <<clockVars, envVars, procVars, clockDue, taskVars, storeVars, expVars>>

Live(t) == pc[t] \notin {"none", "ended"}

\* So does every one of a task: it ends without a row and without a verdict.
CancelTask(t) ==
  /\ proc = "stopping" /\ Live(t)
  /\ pc' = [pc EXCEPT ![t] = "ended"]
  /\ UNCHANGED <<clockVars, envVars, procVars, loopVars, poll, giveUp, wake, failed,
                 marked, deaf, storeVars, expVars>>

\* active.Wait and background.Wait return, then the store is closed.
Exit ==
  /\ proc = "stopping" /\ loop.pc = "returned"
  /\ \A t \in Tasks : ~Live(t)
  /\ proc' = "down"
  /\ ForgetTasks
  /\ UNCHANGED <<clockVars, envVars, starts, loopVars, storeVars, expVars>>

\* One round of runSlotClock; the write may fail, the sleep lasts until the next
\* tick.  Rows of slots without a duty are left out: no timeline reads them.
SlotClock ==
  /\ proc = "up" /\ clockDue /\ Wall >= 0
  /\ \/ slotRows' = slotRows \cup {<<s, "slot_start">> : s \in {Wall} \cap DutySlots}
     \/ UNCHANGED slotRows
  /\ clockDue' = FALSE
  /\ UNCHANGED <<clockVars, envVars, procVars, loop, taskVars, dutyRows, completed,
                 completedAt, withheld, expVars>>

-----------------------------------------------------------------------------
(* runDutyTracking.                                                         *)

\* The epoch is read from the wall clock before the request is sent.
LoopTop ==
  /\ proc = "up" /\ loop.pc = "top" /\ Wall >= 0
  /\ loop' = [loop EXCEPT !.pc = "fetch", !.epoch = Epoch(Wall)]
  /\ UNCHANGED <<clockVars, envVars, procVars, clockDue, taskVars, storeVars, expVars>>

\* The retry waits at most 5 s, less than a slot.
FetchFails ==
  /\ proc = "up" /\ loop.pc = "fetch"
  /\ loop' = [LoopIdle EXCEPT !.pc = "top"]
  /\ UNCHANGED <<clockVars, envVars, procVars, clockDue, taskVars, storeVars, expVars>>

FetchSucceeds ==
  /\ proc = "up" /\ loop.pc = "fetch"
  /\ loop' = [loop EXCEPT !.pc = "spawn",
                          !.todo = {d \in Duties : Epoch(d.slot) = loop.epoch}]
  /\ UNCHANGED <<clockVars, envVars, procVars, clockDue, taskVars, storeVars, expVars>>

\* The observation window closed, or duty_assigned could not be written.
SkipDuty(d) ==
  /\ proc = "up" /\ loop.pc = "spawn" /\ d \in loop.todo
  /\ loop' = [loop EXCEPT !.todo = @ \ {d}]
  /\ UNCHANGED <<clockVars, envVars, procVars, clockDue, taskVars, storeVars, expVars>>

AssignDuty(d) ==
  /\ proc = "up" /\ loop.pc = "spawn" /\ d \in loop.todo
  /\ DutyWindowOpen(d.slot)
  /\ dutyRows' = dutyRows \cup {<<d, "duty_assigned">>}
  /\ loop' = [loop EXCEPT !.todo = @ \ {d}]
  /\ \E c \in Copies :
       /\ pc[<<d, c>>] = "none"
       /\ pc' = [pc EXCEPT ![<<d, c>>] = "waitSlot"]
       /\ wake' = [wake EXCEPT ![<<d, c>>] = TimerFor(d.slot)]
  /\ UNCHANGED <<clockVars, envVars, procVars, clockDue, poll, giveUp, failed, marked, deaf,
                 slotRows, completed, completedAt, withheld, expVars>>

\* Mutant: the loop looks again at the next slot.
LoopSleepsOneSlot ==
  /\ proc = "up" /\ loop.pc = "spawn" /\ loop.todo = {}
  /\ loop' = [loop EXCEPT !.pc = "sleep", !.wake = TimerFor(Wall + 1)]
  /\ UNCHANGED <<clockVars, envVars, procVars, clockDue, taskVars, storeVars, expVars>>

LoopSleeps ==
  /\ proc = "up" /\ loop.pc = "spawn" /\ loop.todo = {}
  /\ loop' = [loop EXCEPT !.pc = "sleep", !.wake = TimerFor(FirstSlot(loop.epoch + 1))]
  /\ UNCHANGED <<clockVars, envVars, procVars, clockDue, taskVars, storeVars, expVars>>

LoopWakes ==
  /\ proc = "up" /\ loop.pc = "sleep" /\ loop.wake <= now
  /\ loop' = [LoopIdle EXCEPT !.pc = "top"]
  /\ UNCHANGED <<clockVars, envVars, procVars, clockDue, taskVars, storeVars, expVars>>

-----------------------------------------------------------------------------
(* trackDuty: the three concurrent polls.                                   *)

Running(t, state) == proc = "up" /\ pc[t] = state

\* No poll, no request and no write moves any of these.
OutsideTask == <<clockVars, envVars, procVars, loopVars, expVars>>

\* waitUntil(slotStart) returned with the context still alive.
SlotReached(t) ==
  /\ Running(t, "waitSlot") /\ wake[t] <= now
  /\ pc' = [pc EXCEPT ![t] = "polling"]
  /\ poll' = [poll EXCEPT ![t] = SilentPolls]
  /\ wake' = [wake EXCEPT ![t] = 0]
  /\ UNCHANGED <<OutsideTask, giveUp, failed, marked, deaf, storeVars>>

Polling(t, p) == Running(t, "polling") /\ poll[t][p] \in {"silent", "answered"}

PollGoes(t, p, state) == poll' = [poll EXCEPT ![t][p] = state]

CollectionError(t) == failed' = [failed EXCEPT ![t] = TRUE]

\* Poll p of t has its observation: the row is written, or the write fails and
\* marks the collection as failed.
PollWrites(t, p, rows) ==
  /\ PollGoes(t, p, "done")
  /\ \/ /\ slotRows' = slotRows \cup rows
        /\ UNCHANGED failed
     \/ /\ CollectionError(t)
        /\ UNCHANGED slotRows
  /\ UNCHANGED <<OutsideTask, pc, giveUp, wake, marked, deaf, dutyRows, completed,
                 completedAt>>

\* The poll fails the collection.
PollFails(t, p) ==
  /\ PollGoes(t, p, "done")
  /\ CollectionError(t)
  /\ UNCHANGED <<OutsideTask, pc, giveUp, wake, marked, deaf, storeVars>>

\* The node answers that there is nothing yet, or with a header that does not
\* count.  A failed request leaves the poll as it is: it is tried again.
PollMiss(t, p) ==
  /\ Polling(t, p)
  /\ PollGoes(t, p, "answered")
  /\ UNCHANGED <<OutsideTask, pc, giveUp, wake, failed, marked, deaf, storeVars>>

BlockFound(t) ==
  /\ Polling(t, "block") /\ Visible(SlotOf(t))
  /\ PollWrites(t, "block", {<<SlotOf(t), "block_seen">>})
  /\ UNCHANGED withheld

HeadFound(t) ==
  /\ Polling(t, "head") /\ head = SlotOf(t)
  /\ PollWrites(t, "head", {})
  /\ UNCHANGED withheld

\* The head is already past the slot: the time of the update is unknowable.
HeadPassed(t) ==
  /\ Polling(t, "head") /\ head > SlotOf(t)
  /\ PollGoes(t, "head", "done")
  /\ UNCHANGED <<OutsideTask, pc, giveUp, wake, failed, marked, deaf, storeVars>>

PublishedFound(t) ==
  /\ Polling(t, "published")
  /\ PollWrites(t, "published", {})
  /\ UNCHANGED withheld

WatchDeadlinePassed(t) == Wall >= SlotOf(t) + WatchSlots

\* HeadUpdated and AttestationPublished return "not found" and no error at
\* their deadline, whatever happened to the requests.
PollGivesUp(t, p) ==
  /\ p \in {"head", "published"}
  /\ Polling(t, p) /\ WatchDeadlinePassed(t)
  /\ PollGoes(t, p, "done")
  /\ deaf' = [deaf EXCEPT ![t] = @ \/ poll[t][p] = "silent"]
  /\ UNCHANGED <<OutsideTask, pc, giveUp, wake, failed, marked, storeVars>>

\* BlockSeen enters blockStatusAtDeadline.
BlockDeadline(t) ==
  /\ Polling(t, "block") /\ WatchDeadlinePassed(t)
  /\ PollGoes(t, "block", "recovering")
  /\ giveUp' = [giveUp EXCEPT ![t] = now + RecoverySlots]
  /\ UNCHANGED <<OutsideTask, pc, wake, failed, marked, deaf, storeVars>>

Recovering(t) == Running(t, "polling") /\ poll[t]["block"] = "recovering"
Confirming(t) == Running(t, "polling") /\ poll[t]["block"] = "confirming"

\* The sync status or the second header request fails.
BlockStatusError(t) ==
  /\ Recovering(t) \/ Confirming(t)
  /\ PollFails(t, "block")

\* Mutant: the recovery budget starts anew whenever it is checked.
BlockRecoveryRestarts(t) ==
  /\ Recovering(t) /\ giveUp[t] <= now
  /\ giveUp' = [giveUp EXCEPT ![t] = now + RecoverySlots]
  /\ UNCHANGED <<OutsideTask, pc, poll, wake, failed, marked, deaf, storeVars>>

\* The node is not synced, execution-valid and past the slot within the budget.
BlockRecoveryExpires(t) ==
  /\ Recovering(t) /\ giveUp[t] <= now
  /\ PollFails(t, "block")

\* Mutant: a synced node is taken to know the slot.
NodeSynced(t) == head >= 0

\* The node reports itself synced and execution-valid, and its head is past the
\* slot.
NodeReadyForCanonicalQuery(t) == head > SlotOf(t)

\* The sync status is one request, the header that follows it another: the node
\* may have changed in between.
NodeReady(t) ==
  /\ Recovering(t) /\ NodeReadyForCanonicalQuery(t)
  /\ PollGoes(t, "block", "confirming")
  /\ UNCHANGED <<OutsideTask, pc, giveUp, wake, failed, marked, deaf, storeVars>>

\* The second header request finds the block, or a 404.
BlockConfirmed(t) ==
  /\ Confirming(t)
  /\ PollWrites(t, "block",
       {<<SlotOf(t), IF Visible(SlotOf(t)) THEN "block_seen" ELSE "block_skipped">>})
  /\ UNCHANGED withheld

\* It finds the block, marked as optimistic or not canonical: no header, no error.
BlockWithheld(t) ==
  /\ Confirming(t) /\ Visible(SlotOf(t))
  /\ PollWrites(t, "block", {<<SlotOf(t), "block_skipped">>})
  /\ withheld' = withheld \cup {SlotOf(t)}

PollStep(t) ==
  \/ \E p \in Pollers : PollMiss(t, p) \/ PollGivesUp(t, p)
  \/ BlockFound(t) \/ BlockDeadline(t) \/ BlockStatusError(t)
  \/ BlockRecoveryExpires(t) \/ NodeReady(t)
  \/ BlockConfirmed(t) \/ BlockWithheld(t)
  \/ HeadFound(t) \/ HeadPassed(t) \/ PublishedFound(t)

-----------------------------------------------------------------------------
(* trackDuty after wg.Wait.                                                 *)

PollsJoined(t) ==
  /\ Running(t, "polling")
  /\ poll[t] = DonePolls
  /\ pc' = [pc EXCEPT ![t] = "inclusion"]
  /\ giveUp' = [giveUp EXCEPT ![t] = 0]
  /\ UNCHANGED <<OutsideTask, poll, wake, failed, marked, deaf, storeVars>>

InclusionFails(t) ==
  /\ pc' = [pc EXCEPT ![t] = "payload"]
  /\ CollectionError(t)
  /\ UNCHANGED <<OutsideTask, poll, giveUp, wake, marked, deaf, storeVars>>

\* A request of CheckInclusion fails: it is not tried again.
InclusionError(t) == Running(t, "inclusion") /\ InclusionFails(t)

\* Mutant: the scan starts once the head has reached the duty's own slot.
DutySlotQueried(t) == head >= SlotOf(t)

InclusionWindowQueried(t) == head >= LastAttestationInclusionSlot(SlotOf(t))

\* The head did not reach the last inclusion slot before the deadline, or the
\* node withheld it.
InclusionDeadline(t) ==
  /\ Running(t, "inclusion")
  /\ Wall >= CollectionDeadline(SlotOf(t))
  /\ InclusionFails(t)

\* The scan of every canonical block of the window, as far as the node has them.
ScanFinds(d) == inclusion[d] # 0 /\ inclusion[d] <= head

InclusionScan(t) ==
  /\ Running(t, "inclusion") /\ InclusionWindowQueried(t)
  /\ pc' = [pc EXCEPT ![t] = "payload"]
  /\ \/ /\ ~ScanFinds(Duty(t))
        /\ UNCHANGED <<failed, dutyRows>>
     \/ /\ ScanFinds(Duty(t))
        /\ dutyRows' = dutyRows \cup {<<Duty(t), "attestation_included">>}
        /\ UNCHANGED failed
     \/ /\ ScanFinds(Duty(t))
        /\ CollectionError(t)
        /\ UNCHANGED dutyRows
  /\ UNCHANGED <<OutsideTask, poll, giveUp, wake, marked, deaf, slotRows, completed, completedAt,
                 withheld>>

\* PayloadAttested after the fork, then the wait for the collection deadline.
PayloadStep(t) ==
  /\ Running(t, "payload")
  /\ pc' = [pc EXCEPT ![t] = "window"]
  /\ wake' = [wake EXCEPT ![t] = TimerFor(CollectionDeadline(SlotOf(t)))]
  /\ \/ UNCHANGED failed
     \/ PostEPBS /\ CollectionError(t)
  /\ UNCHANGED <<OutsideTask, poll, giveUp, marked, deaf, storeVars>>

WindowClosed(t) ==
  /\ Running(t, "window") /\ wake[t] <= now
  /\ pc' = [pc EXCEPT ![t] = "marker"]
  /\ UNCHANGED <<OutsideTask, poll, giveUp, wake, failed, marked, deaf, storeVars>>

\* Mutant: the marker is written whatever failed.
WriteMarkerAlways(t) ==
  /\ Running(t, "marker")
  /\ completed' = [completed EXCEPT ![Duty(t)] = @ + 1]
  /\ \E at \in {Wall, now} : completedAt' = [completedAt EXCEPT ![Duty(t)] = at]
  /\ marked' = [marked EXCEPT ![t] = TRUE]
  /\ pc' = [pc EXCEPT ![t] = "explain"]
  /\ UNCHANGED <<OutsideTask, poll, giveUp, wake, failed, deaf, slotRows, dutyRows, withheld>>

\* Mutant: an append that may have succeeded is tried again.
WriteMarkerRetried(t) ==
  /\ Running(t, "marker")
  /\ ~failed[t]
  /\ completed' = [completed EXCEPT ![Duty(t)] = @ + 1]
  /\ \E at \in {Wall, now} : completedAt' = [completedAt EXCEPT ![Duty(t)] = at]
  /\ marked' = [marked EXCEPT ![t] = TRUE]
  /\ \E next \in {"marker", "explain"} : pc' = [pc EXCEPT ![t] = next]
  /\ UNCHANGED <<OutsideTask, poll, giveUp, wake, failed, deaf, slotRows, dutyRows, withheld>>

\* stampClock moves the timestamp to true time when a fresh NTP reading is held.
WriteMarker(t) ==
  /\ Running(t, "marker")
  /\ ~failed[t]
  /\ completed' = [completed EXCEPT ![Duty(t)] = @ + 1]
  /\ \E at \in {Wall, now} : completedAt' = [completedAt EXCEPT ![Duty(t)] = at]
  /\ marked' = [marked EXCEPT ![t] = TRUE]
  /\ pc' = [pc EXCEPT ![t] = "explain"]
  /\ UNCHANGED <<OutsideTask, poll, giveUp, wake, failed, deaf, slotRows, dutyRows, withheld>>

\* Collection failed, or the marker could not be written.
NoMarker(t) ==
  /\ Running(t, "marker")
  /\ pc' = [pc EXCEPT ![t] = "explain"]
  /\ UNCHANGED <<OutsideTask, poll, giveUp, wake, failed, marked, deaf, storeVars>>

-----------------------------------------------------------------------------
(* ExplainForValidator: timeline assembly, validation, and the verdict.     *)

\* GetTimelineForValidatorSelection and Timeline.Validate accept the rows.
TimelineValid(d) ==
  /\ <<d, "duty_assigned">> \in dutyRows
  /\ <<d.slot, "slot_start">> \in slotRows
  /\ completed[d] <= 1
  /\ completed[d] = 1 => completedAt[d] >= CollectionWindowEnd(d.slot)

\* Mutant: an incomplete timeline yields the zero verdict.
VerdictForZero(d) ==
  IF completed[d] = 0 THEN ""
  ELSE IF <<d, "attestation_included">> \in dutyRows THEN "included" ELSE "missed"

\* R-010 before any rule that reads an absence; then the inclusion outcome.
VerdictFor(d) ==
  IF completed[d] = 0 THEN "insufficient_data"
  ELSE IF <<d, "attestation_included">> \in dutyRows THEN "included" ELSE "missed"

ExplainSucceeds(t) ==
  /\ Running(t, "explain") /\ TimelineValid(Duty(t))
  /\ verdict' = [verdict EXCEPT ![Duty(t)] = VerdictFor(Duty(t))]
  /\ records' = [records EXCEPT ![Duty(t)] = @ + 1]
  /\ pc' = [pc EXCEPT ![t] = "ended"]
  /\ UNCHANGED <<clockVars, envVars, procVars, loopVars, poll, giveUp, wake, failed,
                 marked, deaf, storeVars>>

\* The timeline is rejected, or the database cannot be opened or read.
ExplainFails(t) ==
  /\ Running(t, "explain")
  /\ pc' = [pc EXCEPT ![t] = "ended"]
  /\ UNCHANGED <<OutsideTask, poll, giveUp, wake, failed, marked, deaf, storeVars>>

TaskStep(t) ==
  \/ SlotReached(t) \/ PollStep(t) \/ PollsJoined(t)
  \/ InclusionError(t) \/ InclusionDeadline(t) \/ InclusionScan(t) \/ PayloadStep(t)
  \/ WindowClosed(t) \/ WriteMarker(t) \/ NoMarker(t) \/ ExplainSucceeds(t) \/ ExplainFails(t)

LoopStep ==
  \/ LoopTop \/ FetchFails \/ FetchSucceeds \/ LoopSleeps \/ LoopWakes
  \/ \E d \in Duties : SkipDuty(d) \/ AssignDuty(d)

Next ==
  \/ Tick \/ ClockStep \/ NodeAdvances
  \/ Start \/ Crash \/ Stop \/ Exit
  \/ SlotClock \/ LoopStep \/ LoopReturns
  \/ \E t \in Tasks : TaskStep(t) \/ CancelTask(t)

Spec == Init /\ [][Next]_vars

\* What a goroutine does sooner or later without the help of the node: timers
\* fire, deadlines pass, a scan of available blocks and a database call return.
\* No request is assumed to be answered, and none to fail: the one after the
\* recovery ends in one or the other (every request has a timeout).
ForcedStep(t) ==
  \/ SlotReached(t) \/ PollsJoined(t)
  \/ \E p \in Pollers : PollGivesUp(t, p)
  \/ BlockDeadline(t) \/ BlockRecoveryExpires(t) \/ BlockConfirmed(t)
  \/ BlockWithheld(t) \/ (Confirming(t) /\ BlockStatusError(t))
  \/ InclusionDeadline(t) \/ InclusionScan(t)
  \/ PayloadStep(t) \/ WindowClosed(t)
  \/ WriteMarker(t) \/ NoMarker(t) \/ ExplainSucceeds(t) \/ ExplainFails(t)

\* Time passes, and every wait of a task selects on the context as well.
Fairness ==
  /\ WF_vars(Tick)
  /\ \A t \in Tasks : WF_vars(ForcedStep(t)) /\ WF_vars(CancelTask(t))

FairSpec == Spec /\ Fairness

-----------------------------------------------------------------------------
(* Properties.                                                              *)

\* Every variable stays in its type.
TypeOK ==
  /\ now \in Nat /\ skew \in Int /\ steps \in Nat
  /\ chain \in SUBSET Nat /\ inclusion \in [Duties -> Nat] /\ head \in Nat
  /\ proc \in {"down", "up", "stopping"} /\ starts \in Nat
  /\ loop \in [pc : {"returned", "top", "fetch", "spawn", "sleep"}, epoch : Int,
               todo : SUBSET Duties, wake : Int]
  /\ clockDue \in BOOLEAN
  /\ pc \in [Tasks -> TaskState]
  /\ poll \in [Tasks -> [Pollers -> PollState]]
  /\ giveUp \in [Tasks -> Int] /\ wake \in [Tasks -> Int]
  /\ failed \in [Tasks -> BOOLEAN] /\ marked \in [Tasks -> BOOLEAN]
  /\ deaf \in [Tasks -> BOOLEAN]
  /\ slotRows \in SUBSET (Int \X SlotKinds)
  /\ dutyRows \in SUBSET (Duties \X DutyKinds)
  /\ completed \in [Duties -> Nat] /\ completedAt \in [Duties -> Int]
  /\ withheld \in SUBSET Int
  /\ verdict \in [Duties -> Verdicts \cup {"none"}]
  /\ records \in [Duties -> Nat]

\* Across any number of crashes and restarts on one database a duty gets at
\* most one collection_completed row: a second one makes Timeline.Validate
\* reject the slot for good.  The store has no uniqueness constraint; it is
\* dutyWindowOpen and the once-per-epoch fetch that keep trackDuty from running
\* again for a duty whose marker is written.
OneCompletion == \A d \in Duties : completed[d] <= 1

\* A duty reported as missed was included in no canonical block of its window,
\* and one reported as included was, whatever requests and writes failed,
\* however far the node lagged and wherever the process was killed.
VerdictMatchesChain ==
  \A d \in Duties :
    /\ verdict[d] = "missed" => inclusion[d] = 0
    /\ verdict[d] = "included" => inclusion[d] # 0

\* A block row says what the chain holds: block_seen that the slot has a
\* canonical block, and block_skipped, the row R-100 takes as proof of a missed
\* proposal, that it has none.  The readiness check and the second header lookup
\* are two requests of a node that moves on in between, and other tasks of the
\* slot write as well; still block_skipped is never written because the node had
\* not got that far.  What the two requests leave open is a node that withholds
\* the header it has when the second one is answered.
BlockRowsMatchChain ==
  \A row \in slotRows :
    /\ row[2] = "block_seen" => row[1] \in chain
    /\ row[2] = "block_skipped" => row[1] \notin chain \/ row[1] \in withheld

\* What docs/causes.md says of block_skipped: the canonical chain has no block
\* for the slot.
SkipIsCanonical ==
  \A row \in slotRows : row[2] = "block_skipped" => row[1] \notin chain

\* Every trackDuty goroutine ends: no poll, recovery wait or window wait holds
\* it (and with it active.Wait at shutdown) for ever, even if the node never
\* answers.
EveryTaskEnds == \A t \in Tasks : Live(t) ~> ~Live(t)

\* What ObsCollectionCompleted says of itself: every required query ran
\* successfully through the window.  A query none of whose requests was
\* answered did not.
CompletionMeansAnswered ==
  \A t \in Tasks : marked[t] => ~deaf[t]

\* What runDutyTracking says of itself: duties are fetched once per epoch, and
\* one trackDuty is spawned for each.  It needs a wall clock that is never
\* stepped back: the sleep until the next epoch is a timer armed with a
\* wall-clock distance.
DutyTrackedOnce ==
  \A t, u \in Tasks :
    Duty(t) = Duty(u) /\ pc[t] # "none" /\ pc[u] # "none" => t = u

-----------------------------------------------------------------------------
(* The promise to the operator, and the invariants that carry its proof.    *)

Ledger == INSTANCE VerdictLedger

\* The daemon with its restarts, failed requests and failed writes implements
\* the ledger: one truthful verdict per duty at most, never revised.
ImplementsLedger == Ledger!Spec

\* The rows of the store account for the vote: it was never included, or its
\* attestation_included row is there.
Accounted(d) == inclusion[d] = 0 \/ <<d, "attestation_included">> \in dutyRows

\* An unfailed task that is past the scan, and a marker, account for the vote.
EvidenceInv ==
  /\ \A d \in Duties : inclusion[d] <= LastAttestationInclusionSlot(d.slot) \/ inclusion[d] = 0
  /\ \A d \in Duties : <<d, "attestation_included">> \in dutyRows => inclusion[d] # 0
  /\ \A t \in Tasks : pc[t] \in {"payload", "window", "marker"} /\ ~failed[t]
                        => Accounted(Duty(t))
  /\ \A d \in Duties : completed[d] # 0 => Accounted(d)
  /\ VerdictMatchesChain

\* The tasks alive when the loop is about to fetch epoch e belong to earlier
\* epochs, and while it spawns, no duty still to be spawned has a task.
LoopInv ==
  /\ proc = "down" => \A t \in Tasks : pc[t] = "none"
  /\ loop.pc = "top" => \A t \in Tasks : pc[t] # "none" => Epoch(SlotOf(t)) < Epoch(Wall)
  /\ loop.pc = "fetch" =>
       /\ loop.epoch <= Epoch(Wall)
       /\ \A t \in Tasks : pc[t] # "none" => Epoch(SlotOf(t)) < loop.epoch
  /\ loop.pc = "spawn" =>
       /\ \A d \in loop.todo : Epoch(d.slot) = loop.epoch
       /\ \A t \in Tasks : pc[t] # "none" =>
            Epoch(SlotOf(t)) <= loop.epoch /\ Duty(t) \notin loop.todo
  /\ loop.pc = "sleep" =>
       /\ loop.wake + skew >= FirstSlot(loop.epoch + 1)
       /\ \A t \in Tasks : pc[t] # "none" => Epoch(SlotOf(t)) <= loop.epoch

\* A task that waits for the second header saw the head past its slot: what it
\* does not find then is not still to come.
ConfirmInv ==
  \A t \in Tasks : poll[t]["block"] = "confirming" => head > SlotOf(t)

Closed(d) == Wall >= CollectionDeadline(d.slot)

\* A marker or a verdict is only there once the window is closed, and then no
\* task of the duty is left that could write another.
OnceInv ==
  /\ DutyTrackedOnce
  /\ \A t \in Tasks : pc[t] = "window" => wake[t] + skew >= CollectionDeadline(SlotOf(t))
  /\ \A t \in Tasks : pc[t] \in {"marker", "explain"} => Closed(Duty(t))
  /\ \A d \in Duties : completed[d] # 0 =>
       /\ completed[d] = 1 /\ Closed(d)
       /\ \A t \in Tasks : Duty(t) = d => pc[t] \in {"none", "explain", "ended"}
  /\ \A d \in Duties : records[d] # 0 =>
       /\ records[d] = 1 /\ Closed(d)
       /\ \A t \in Tasks : Duty(t) = d => pc[t] \in {"none", "ended"}

\* The invariant of the proofs about a wall clock that is never stepped back.
SteadyInv == TypeOK /\ EvidenceInv /\ LoopInv /\ OnceInv
=============================================================================
