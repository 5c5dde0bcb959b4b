---------------------------- MODULE HeadCollectors ----------------------------
(***************************************************************************)
(* From the node's head events to timing evidence.  The event stream        *)
(* reconnects for as long as the daemon runs; Watch's loop stamps, stores   *)
(* and offers each head to the collectors, as does the REST poll of duty    *)
(* tracking.  runBlockTiming reads the node's metrics after each head: a    *)
(* gauge with the arrival of the latest block, and counters of Engine work. *)
(*                                                                          *)
(* An action is a step between two waits of one goroutine.  now is the      *)
(* host's clock, which the node shares; offset is what a clock sample finds *)
(* it to be off by.  Counters are the set of the calls they have counted,   *)
(* each with its block and the node's head when it was made.  The gauge is  *)
(* the delay of the last block that gossip brought, and does not say which: *)
(* the head may move without it, and it without the head.                   *)
(***************************************************************************)
EXTENDS Integers, Sequences, FiniteSetsExt

CONSTANTS
  SlotTicks,     \* length of a slot
  LastSlot,      \* bound on the slots with a block
  DutySlots,     \* slots whose head is polled for as well
  Offset,        \* of the local clock, as samples find it
  ClockMaxAge,
  ProcessedCap,  \* slots a collector remembers (64)
  SampleEvery,   \* interval of clock samples
  MaxTime,       \* bound on now
  MaxFaults      \* bound on failures of the node, the connection and the events

ASSUME CollectorConstants ==
  /\ {SlotTicks, LastSlot, ProcessedCap, ClockMaxAge, SampleEvery, MaxTime, MaxFaults} \subseteq Nat
  /\ SlotTicks > 0 /\ ProcessedCap > 0 /\ Offset \in Int
  /\ DutySlots \subseteq 1 .. LastSlot

VARIABLES
  now,
  node,      \* serving; its head
  work,      \* Engine calls that are counted
  conn,      \* the connection of streamOnce, or the sleep between two
  held,      \* the event the loop of Watch has received
  jobs,      \* the channel to runBlockTiming, one head at most
  taken,     \* the head runBlockTiming is working on
  processed, \* the map of runBlockTiming
  windows,   \* engineWindowTracker
  reading,   \* Tracker: when the last good clock sample was taken
  polled,    \* duty slots whose head was found by polling
  blockSeen, \* the block_seen row runBlockTiming has written for its head
  engine,    \* the engine_call rows of its latest head
  faults

vars == <<now, node, work, conn, held, jobs, taken, processed, windows, reading,
          polled, blockSeen, engine, faults>>

Slots == 1 .. LastSlot
NoHead == [slot |-> 0, at |-> 0, measured |-> FALSE]
NoJob == [step |-> "idle", head |-> NoHead, job |-> NoHead]
NoBlock == [slot |-> 0, at |-> 0, job |-> NoHead]
NoCalls == [slot |-> 0, calls |-> {}]
Never == -1
SlotStart(s) == (s - 1) * SlotTicks
Methods == {"newPayload", "forkchoiceUpdated"}

Init ==
  /\ now = 0
  /\ node = [up |-> TRUE, head |-> 0]
  /\ work = {}
  /\ conn = [pc |-> "connect", alive |-> FALSE, buf |-> <<>>]
  /\ held = NoHead
  /\ jobs = <<>>
  /\ taken = NoJob
  /\ processed = {} /\ windows = [ready |-> FALSE, slot |-> 0, counters |-> {}]
  /\ reading = Never /\ polled = {}
  /\ blockSeen = NoBlock /\ engine = NoCalls
  /\ faults = 0

stream == <<conn, held>>
timing == <<processed, windows, blockSeen, engine>>

-----------------------------------------------------------------------------
(* The node. *)

Tick ==
  /\ now < MaxTime
  /\ now' = now + 1
  /\ UNCHANGED <<node, work, stream, jobs, taken, timing, reading, polled, faults>>

Called(method, s) == \E c \in work : c.method = method /\ c.block = s
Count(method, s) == work' = work \cup {[method |-> method, block |-> s, on |-> node.head]}

\* The execution client validates a block, which may be late and off the node's chain.
NewPayload(s) ==
  /\ SlotStart(s) =< now /\ ~Called("newPayload", s)
  /\ Count("newPayload", s)
  /\ UNCHANGED <<now, node, stream, jobs, taken, timing, reading, polled, faults>>

\* A validated block becomes the head, whether or not gossip brought it, and an
\* event goes to whoever is connected.
BlockImported(s) ==
  /\ node.head < s /\ Called("newPayload", s)
  /\ node' = [node EXCEPT !.head = s]
  /\ conn' = IF conn.alive /\ node.up THEN [conn EXCEPT !.buf = Append(@, s)] ELSE conn
  /\ UNCHANGED <<now, work, held, jobs, taken, timing, reading, polled, faults>>

\* The execution client is told of the head.
ForkchoiceUpdated ==
  /\ node.head \in Slots /\ ~Called("forkchoiceUpdated", node.head)
  /\ Count("forkchoiceUpdated", node.head)
  /\ UNCHANGED <<now, node, stream, jobs, taken, timing, reading, polled, faults>>

\* The Beacon API goes away without closing its connections, or comes back.
NodeStops ==
  /\ faults < MaxFaults /\ node.up
  /\ node' = [node EXCEPT !.up = FALSE]
  /\ conn' = [conn EXCEPT !.alive = FALSE, !.buf = <<>>]
  /\ faults' = faults + 1
  /\ UNCHANGED <<now, work, held, jobs, taken, timing, reading, polled>>

NodeReturns ==
  /\ ~node.up
  /\ node' = [node EXCEPT !.up = TRUE]
  /\ UNCHANGED <<now, work, stream, jobs, taken, timing, reading, polled, faults>>

\* tracker.Sample; a failed sample leaves the reading as it was.
ClockSample ==
  /\ reading = Never \/ now >= reading + SampleEvery
  /\ reading' = now
  /\ UNCHANGED <<now, node, work, stream, jobs, taken, timing, polled, faults>>

-----------------------------------------------------------------------------
(* The event stream. *)

\* The request is sent and answered; events flow from here on.
StreamConnects ==
  /\ conn.pc = "connect" /\ node.up
  /\ conn' = [conn EXCEPT !.pc = "open", !.alive = TRUE, !.buf = <<>>]
  /\ UNCHANGED <<now, node, work, held, jobs, taken, timing, reading, polled, faults>>

\* streamOnce has returned; the loop sleeps for a random time, at most reconnectCap.
Disconnect == conn' = [pc |-> "backoff", alive |-> FALSE, buf |-> <<>>]

\* No answer, or not 200.
ConnectFails ==
  /\ conn.pc = "connect" /\ ~node.up
  /\ Disconnect
  /\ UNCHANGED <<now, node, work, held, jobs, taken, timing, reading, polled, faults>>

\* sleepReconnect ends.
Reconnect ==
  /\ conn.pc = "backoff"
  /\ conn' = [conn EXCEPT !.pc = "connect"]
  /\ UNCHANGED <<now, node, work, held, jobs, taken, timing, reading, polled, faults>>

\* A head event is parsed, and the unbuffered channel has a receiver.
StreamDelivers ==
  /\ conn.pc = "open" /\ conn.buf # <<>> /\ held = NoHead
  /\ held' = [slot |-> Head(conn.buf), at |-> now, measured |-> FALSE]
  /\ conn' = [conn EXCEPT !.buf = Tail(@)]
  /\ UNCHANGED <<now, node, work, jobs, taken, timing, reading, polled, faults>>

\* An optimistic head is not delivered.
StreamSkips ==
  /\ faults < MaxFaults
  /\ conn.pc = "open" /\ conn.buf # <<>>
  /\ conn' = [conn EXCEPT !.buf = Tail(@)]
  /\ faults' = faults + 1
  /\ UNCHANGED <<now, node, work, held, jobs, taken, timing, reading, polled>>

\* An event that cannot be parsed, a read error or the end of the response.
StreamBreaks ==
  /\ faults < MaxFaults
  /\ conn.pc = "open" /\ conn.alive
  /\ Disconnect
  /\ faults' = faults + 1
  /\ UNCHANGED <<now, node, work, held, jobs, taken, timing, reading, polled>>

\* Nothing was read for streamIdleTimeout: the timer cancels the connection.
StreamIdle ==
  /\ conn.pc = "open" /\ ~conn.alive
  /\ Disconnect
  /\ UNCHANGED <<now, node, work, held, jobs, taken, timing, reading, polled, faults>>

-----------------------------------------------------------------------------
(* Stamping, and the fan-out of heads. *)

Near(t) == reading # Never /\ t - reading =< ClockMaxAge /\ reading - t =< ClockMaxAge

\* Mutant: provenance that is there already is ignored.
StampAgain(h) == IF Near(h.at) THEN [h EXCEPT !.at = @ + Offset, !.measured = TRUE] ELSE h

\* stampClock of a head: corrected once, by a reading that is near enough.
StampClock(h) ==
  IF ~h.measured /\ Near(h.at) THEN [h EXCEPT !.at = @ + Offset, !.measured = TRUE] ELSE h

\* Mutant: heads are queued.
SendQueued(h) == jobs' = Append(jobs, h)

\* A channel that still holds a head does not take another.
Send(h) == jobs' = IF jobs = <<>> THEN <<h>> ELSE jobs

\* The loop of Watch stores the stamped head and offers it to the collectors.
Handle ==
  /\ held # NoHead
  /\ Send(StampClock(held))
  /\ held' = NoHead
  /\ UNCHANGED <<now, node, work, conn, taken, timing, reading, polled, faults>>

\* Duty tracking has found the head of a duty's slot by polling.
PolledHead(s) ==
  /\ node.up /\ node.head = s /\ s \notin polled
  /\ polled' = polled \cup {s}
  /\ Send(StampClock([slot |-> s, at |-> now, measured |-> FALSE]))
  /\ UNCHANGED <<now, node, work, stream, taken, timing, reading, faults>>

-----------------------------------------------------------------------------
(* runBlockTiming. *)

\* The oldest slot is forgotten when there are too many, the new one included.
Remember(s) ==
  LET all == processed \cup {s}
  IN IF Cardinality(all) > ProcessedCap THEN all \ {Min(all)} ELSE all

TakeJob ==
  /\ taken.step = "idle" /\ jobs # <<>>
  /\ LET h == Head(jobs)
     IN IF h.slot \in processed
        THEN UNCHANGED <<processed, taken, engine>>
        ELSE /\ processed' = Remember(h.slot)
             /\ taken' = [step |-> "gauge", head |-> StampClock(h), job |-> h]
             /\ engine' = NoCalls
  /\ jobs' = <<>>
  /\ UNCHANGED <<now, node, work, stream, windows, blockSeen, reading, polled, faults>>

\* What a scrape says of blocks: the head, and the gauge, two series that nothing
\* ties together.  The gauge may be stale or ahead, so it is any delay so far.
Timing(delay) == [slot |-> node.head, propagation |-> delay]

\* The sample is for the slot asked for; an arrival after the head is rejected.
GaugeRead(delay) ==
  LET h == taken.head
      blockAt == SlotStart(h.slot) + Timing(delay).propagation
  IN /\ taken.step = "gauge" /\ Timing(delay).slot = h.slot
     /\ taken' = [taken EXCEPT !.step = "counters"]
     /\ blockSeen' = IF blockAt > h.at THEN blockSeen
                     ELSE [slot |-> h.slot, at |-> blockAt, job |-> taken.job]
     /\ UNCHANGED <<now, node, work, stream, jobs, processed, windows, engine, reading, polled, faults>>

\* The scrape fails, the gauge stays behind until the deadline or is ahead.
GaugeFails ==
  /\ taken.step = "gauge"
  /\ taken' = [taken EXCEPT !.step = "counters"]
  /\ UNCHANGED <<now, node, work, stream, jobs, timing, reading, polled, faults>>

\* Mutant: any two heads bound a window.
ConsecutiveAny(s) == windows.ready

\* advance: only the heads of consecutive slots bound a window.
Consecutive(s) == windows.ready /\ s = windows.slot + 1

\* What a scrape says of Engine calls, and the calls between two scrapes: there
\* is evidence only when the counts of both methods have advanced.
EngineCounters == work
EngineCallsBetween(before, after) ==
  LET calls == after \ before
  IN IF {c.method : c \in calls} = Methods THEN calls ELSE {}

CountersRead ==
  LET s == taken.head.slot
      calls == EngineCallsBetween(windows.counters, EngineCounters)
  IN /\ taken.step = "counters"
     /\ windows' = [ready |-> TRUE, slot |-> s, counters |-> EngineCounters]
     /\ engine' = IF Consecutive(s) /\ calls # {} THEN [slot |-> s, calls |-> calls] ELSE engine
     /\ taken' = NoJob /\ blockSeen' = NoBlock
     /\ UNCHANGED <<now, node, work, stream, jobs, processed, reading, polled, faults>>

CountersFail ==
  /\ taken.step = "counters"
  /\ windows' = [ready |-> FALSE, slot |-> 0, counters |-> {}]
  /\ taken' = NoJob /\ blockSeen' = NoBlock
  /\ UNCHANGED <<now, node, work, stream, jobs, processed, engine, reading, polled, faults>>

-----------------------------------------------------------------------------
Next ==
  \/ Tick \/ ForkchoiceUpdated \/ NodeStops \/ NodeReturns \/ ClockSample
  \/ \E s \in Slots : NewPayload(s) \/ BlockImported(s)
  \/ StreamConnects \/ ConnectFails \/ Reconnect
  \/ StreamDelivers \/ StreamSkips \/ StreamBreaks \/ StreamIdle
  \/ Handle \/ \E s \in DutySlots : PolledHead(s)
  \/ TakeJob \/ (\E delay \in 0 .. now : GaugeRead(delay)) \/ GaugeFails \/ CountersRead \/ CountersFail

Spec == Init /\ [][Next]_vars

-----------------------------------------------------------------------------
(* Properties. *)

Heads == [slot : Slots, at : Int, measured : BOOLEAN]
Calls == [method : Methods, block : Slots, on : 0 .. LastSlot]

\* Types of the node, the stream, the channels and the collectors.
TypeOK ==
  /\ now \in 0 .. MaxTime /\ faults \in 0 .. MaxFaults /\ reading \in Never .. MaxTime
  /\ node \in [up : BOOLEAN, head : 0 .. LastSlot]
  /\ work \subseteq Calls /\ polled \subseteq DutySlots
  /\ conn \in [pc : {"connect", "open", "backoff"}, alive : BOOLEAN, buf : Seq(Slots)]
  /\ conn.alive => conn.pc = "open"
  /\ held \in Heads \cup {NoHead}
  /\ jobs \in Seq(Heads) /\ Len(jobs) =< 1
  /\ taken \in [step : {"gauge", "counters"}, head : Heads, job : Heads] \cup {NoJob}
  /\ processed \subseteq Slots /\ Cardinality(processed) =< ProcessedCap
  /\ windows \in [ready : BOOLEAN, slot : 0 .. LastSlot, counters : SUBSET work]
  /\ blockSeen \in [slot : 0 .. LastSlot, at : Int, job : Heads \cup {NoHead}]
  /\ engine \in [slot : 0 .. LastSlot, calls : SUBSET work]

\* The Engine work filed under a slot is recent: whatever heads were dropped, lost,
\* repeated or skipped, and however late the counters were read, every call was made
\* when the node already had the head of the slot before, or a later one
\* (blocktiming.go: engineWindowTracker).
RecentWork == \A c \in engine.calls : c.on >= engine.slot - 1

\* A block is not seen after the head row that was stored for it, on the corrected
\* clock, although the head is stamped by two goroutines (clocktracker.go:
\* stampClockProvenance, blocktiming.go: blockSeenFromTiming).
SeenBeforeHead ==
  blockSeen.job.measured => blockSeen.at =< blockSeen.job.at

\* The calls recorded for a slot are those of its own block: a delta that includes
\* the work of several blocks is "never attributed to one duty slot"
\* (blocktiming.go: engineWindowTracker).
CallsOfOwnBlock == \A c \in engine.calls : c.block = engine.slot
=============================================================================
