---------------------------- MODULE FaultInjector ----------------------------
(***************************************************************************)
(* One run of tools/faultinjector: RunScenario applies a fault to a devnet, *)
(* watches one duty while a goroutine reverts the fault on its own clock,   *)
(* and writes the record of what it saw.  It must leave the devnet as it    *)
(* found it however it returns, and the record must be whole or refused by  *)
(* corpusctl validate.                                                      *)
(*                                                                          *)
(* pc is the main goroutine, which after its return runs the deferred       *)
(* functions; the timer, the polls, the samplers and the two head observers *)
(* are goroutines of their own.  Commands (docker, tc) and requests are one *)
(* step each, at their end; a command whose context is cancelled under way  *)
(* is killed and may or may not have had its effect.  now counts the        *)
(* instants of the run that matter, named below; the host is Linux.         *)
(***************************************************************************)
EXTENDS Integers, Sequences, FiniteSets

CONSTANTS
  Scenarios,    \* the scenarios that may be run
  Nodes,        \* consensus nodes of the devnet
  Candidates,   \* how many validators may be watched
  MinSamples,   \* EngineBaselineMinSamples (32)
  PeerAttempts  \* peerCountAttempts (3)

Kinds == {"netem", "cgroup_io", "cgroup_cpu", "cgroup_mem", "pause", "clock_skew", "peer_drop"}
Constraints == {"none", "avoid", "require"}

\* The expectation of a scenario: corpusctl knows all of it, does not know the
\* cause that the verdict is compared with, or does not know the rest of it
\* (the confidence, or the cause above a sub-cause).
Labels == {"known", "cause", "rest"}
Scenario == [kind : Kinds, scoped : BOOLEAN, load : BOOLEAN, pressure : BOOLEAN,
             peers : BOOLEAN, network : BOOLEAN, engine : BOOLEAN, samples : BOOLEAN,
             drift : BOOLEAN, constraint : Constraints, duration : Nat, label : Labels]

\* Scenario.Validate: peers are faulted by netem only, and a load belongs to a limit.
\* A label need not be known, only there.
Validate(s) ==
  /\ s \in Scenario /\ s.duration > 0
  /\ s.scoped => s.kind = "netem"
  /\ s.load => s.kind \in {"cgroup_io", "cgroup_mem"}

ASSUME InjectorConstants ==
  /\ \A s \in Scenarios : Validate(s)
  /\ IsFiniteSet(Nodes) /\ {Candidates, MinSamples, PeerAttempts} \subseteq Nat \ {0}

VARIABLES
  scenario,
  now,
  ctx,        \* the context of the process: live, or cancelled by a signal
  pc,
  result,     \* what RunScenario returns
  baseline,   \* collectEngineBaseline: samples, attempts, a counter to compare with
  step,       \* how many commands of Apply have succeeded
  placed,     \* what the fault has in place on the devnet
  todo,       \* what is still to be undone by whoever is undoing
  bad,        \* whether undoing has failed so far
  mu,         \* who holds revertMu
  reverted,
  timer,      \* the goroutine that reverts at revertAt
  revertAt,
  revertDone, \* the channel of that goroutine
  observer,   \* the two calls of observeHeadTiming
  task,       \* the polls and the samplers
  outcome,    \* what dutyOutcome says of the block and the head
  dir,        \* the output directory
  failed,     \* history: the last attempt to undo something failed by itself
  lost        \* history: the interrupt came while Apply was at work

vars == <<scenario, now, ctx, pc, result, baseline, step, placed, todo, bad, mu, reverted,
          timer, revertAt, revertDone, observer, task, outcome, dir, failed, lost>>

devnet == <<step, placed, todo, bad, mu, reverted, failed, lost>>
reverting == <<timer, revertAt, revertDone>>
watching == <<observer, task>>
recorded == <<outcome, dir>>
main == <<pc, result>>

ClockAt == 1     \* twenty seconds before the slot
EngineAt == 2    \* twelve
ApplyAt == 3     \* eight
SlotAt == 4
PressureAt == 5  \* two thirds into the slot; one instant with
WatchEnd == 5    \* three slots after its start
GiveUpAt == 6    \* the node's recovery budget is over, at the latest when
LastSlot == 6    \* the last slot of the inclusion window begins
WindowEnd == 7
PollEnd == 8     \* and two slots more

Observers == {"watched", "network"}
Run == 3                                  \* two earlier runs may have written
NoManifest == [run |-> 0, obs |-> 0, samples |-> 0, label |-> "none"]
EmptyDir == [obs |-> 0, samples |-> 0, readme |-> 0, manifest |-> NoManifest]
Running == pc \notin {"returned", "killed"}
Cancelled == ctx = "cancelled"

Init ==
  /\ scenario \in Scenarios
  /\ now = 0 /\ ctx = "live"
  /\ pc = "prepare" /\ result = "none"
  /\ baseline = [len |-> 0, attempt |-> 0, previous |-> FALSE]
  /\ step = 0 /\ placed = {} /\ todo = <<>> /\ bad = FALSE
  /\ mu = "free" /\ reverted = FALSE
  /\ timer = "off" /\ revertAt = 0 /\ revertDone = "none"
  /\ observer = [o \in Observers |-> [head |-> "off", timing |-> "off", out |-> "none"]]
  /\ task = [block |-> "off", publish |-> "off", pressure |-> "off", peers |-> "off", tries |-> 0]
  /\ outcome = {} /\ dir = EmptyDir
  /\ failed = FALSE /\ lost = FALSE

\* A goroutine whose wait is over, by its deadline or by the interrupt.
Due(at) == Cancelled \/ now >= at
WaitIsOver ==
  \/ timer = "wait" /\ Due(revertAt)
  \/ task.block = "poll" /\ Due(WatchEnd)
  \/ task.block = "confirm" /\ Due(GiveUpAt)
  \/ task.publish = "poll" /\ Due(WatchEnd)
  \/ \E o \in Observers :
       \/ "wait" \in {observer[o].head, observer[o].timing} /\ Due(WatchEnd)
       \/ observer[o].head = "none" /\ observer[o].out = "none"
       \/ observer[o].head = "found" /\ observer[o].timing # "wait" /\ observer[o].out = "none"
  \/ pc \in {"observe", "launch", "completion"} /\ Cancelled
  \/ pc = "polls" /\ "poll" \notin {task.block, task.publish} /\ task.block # "confirm"
  \/ pc = "revert" /\ revertDone # "none"
  \/ pc = "head" /\ (Cancelled \/ observer["watched"].out # "none")
  \/ pc = "network" /\ (Cancelled \/ observer["network"].out # "none" \/ ~scenario.network)
  \/ pc \in {"build", "write", "label", "stopNetwork", "stopHead"}

\* Instants are those of the chosen duty, so they pass once there is one.  They
\* are seconds apart: a goroutine that need not wait goes on before the next,
\* while commands and requests may last past any number of them.
Tick ==
  /\ Running /\ pc \notin {"prepare", "preflight", "baseline", "duty"}
  /\ now < PollEnd \/ now < revertAt  \* bound: nothing waits for a later instant
  /\ ~WaitIsOver
  /\ now' = now + 1
  /\ UNCHANGED <<scenario, ctx, main, baseline, devnet, reverting, watching, recorded>>

Interrupt ==
  /\ Running /\ ctx = "live"
  /\ ctx' = "cancelled"
  /\ UNCHANGED <<scenario, now, main, baseline, devnet, reverting, watching, recorded>>

\* The main goroutine goes on, or returns through the deferred functions from d on.
Goes(to) == pc' = to /\ UNCHANGED result
Returns(d, with) == pc' = d /\ result' = with

-----------------------------------------------------------------------------
(* Before the fault. *)

before == <<scenario, now, ctx, devnet, reverting, watching, recorded>>

FaultRequiresRoot(s) == s.kind \in {"netem", "cgroup_io", "cgroup_cpu", "cgroup_mem"}

\* Root, the clock sampler, the observer and the metric endpoints of both nodes.
Prepare ==
  /\ pc = "prepare"
  /\ \E root \in BOOLEAN, reached \in BOOLEAN :
       IF (FaultRequiresRoot(scenario) => root) /\ reached
       THEN Goes("preflight") ELSE Returns("returned", "error")
  /\ UNCHANGED <<baseline, before>>

RequiredPeers == Cardinality(Nodes) - 1

\* Every consensus node must report every other one as its peer.
PreflightPeering ==
  /\ pc = "preflight"
  /\ \E counts \in [Nodes -> 0 .. RequiredPeers], answered \in BOOLEAN :
       IF /\ answered /\ ~Cancelled /\ Cardinality(Nodes) >= 2
          /\ \A n \in Nodes : counts[n] >= RequiredPeers
       THEN Goes(IF scenario.samples THEN "baseline" ELSE "duty")
       ELSE Returns("returned", "error")
  /\ UNCHANGED <<baseline, before>>

\* One round of collectEngineBaseline: a scrape that fails, or a window that is
\* ambiguous, breaks the pair of counters.
CollectEngineBaseline ==
  /\ pc = "baseline"
  /\ IF baseline.len >= MinSamples
     THEN Goes("duty") /\ UNCHANGED baseline
     ELSE IF Cancelled \/ baseline.attempt >= 3 * MinSamples
     THEN Returns("returned", "error") /\ UNCHANGED baseline
     ELSE \E usable \in BOOLEAN :
            /\ baseline' = [len |-> baseline.len + (IF usable /\ baseline.previous THEN 1 ELSE 0),
                            attempt |-> baseline.attempt + 1, previous |-> usable]
            /\ UNCHANGED main
  /\ UNCHANGED before

\* What the node may answer for a candidate's slot: proposer 0 is one it does not
\* name, 1 is in the scenario's range, 2 is not.
Proposers == 0 .. 2
Assignments == [assigned : BOOLEAN, soon : BOOLEAN, proposer : Proposers]
Passed(s, a) ==
  \/ ~a.assigned \/ a.soon
  \/ s.constraint = "avoid" /\ a.proposer = 1
  \/ s.constraint = "require" /\ a.proposer = 2

\* The first candidate that is not passed over, if its proposer is known when
\* the scenario cares.
FindCleanDuty(s, answers) ==
  \E i \in 1 .. Candidates :
     /\ ~Passed(s, answers[i])
     /\ s.constraint # "none" => answers[i].proposer # 0
     /\ \A j \in 1 .. i - 1 : Passed(s, answers[j])

ChooseDuty ==
  /\ pc = "duty"
  /\ \E answers \in [1 .. Candidates -> Assignments], answered \in BOOLEAN :
       IF answered /\ ~Cancelled /\ FindCleanDuty(scenario, answers)
       THEN Goes("clock") ELSE Returns("returned", "error")
  /\ UNCHANGED <<baseline, before>>

\* A reading may be too far off unless the scenario is about the clock.
Readings == {"near", "far", "none"}
Trusted(r) == r = "near" \/ (r = "far" /\ scenario.drift)

SampleClock ==
  /\ pc = "clock" /\ Due(ClockAt)
  /\ \E r \in Readings :
       IF ~Cancelled /\ Trusted(r)
       THEN Goes(IF scenario.engine THEN "engine" ELSE "observe")
       ELSE Returns("returned", "error")
  /\ UNCHANGED <<baseline, before>>

SampleEngineBefore ==
  /\ pc = "engine" /\ Due(EngineAt)
  /\ \E sampled \in BOOLEAN :
       IF ~Cancelled /\ sampled THEN Goes("observe") ELSE Returns("returned", "error")
  /\ UNCHANGED <<baseline, before>>

\* From here on the deferred stops of the observers run.
StartObservers ==
  /\ pc = "observe" /\ Due(ApplyAt)
  /\ IF Cancelled
     THEN Returns("returned", "error") /\ UNCHANGED observer
     ELSE /\ Goes("apply")
          /\ observer' = [o \in Observers |->
               IF o = "watched" \/ scenario.network
               THEN [head |-> "wait", timing |-> "wait", out |-> "none"] ELSE observer[o]]
  /\ UNCHANGED <<scenario, now, ctx, baseline, devnet, reverting, task, recorded>>

-----------------------------------------------------------------------------
(* Apply and its own clean-up.  "limit" is the fault itself: a qdisc, a     *)
(* cgroup limit, a paused container, an offset; "helper" the container      *)
(* that loads it.                                                           *)

WritesFile(s) == s.kind \in {"cgroup_io", "cgroup_cpu", "cgroup_mem"}

\* The commands of Apply, by what they put in place.
ApplyCommands(s) ==
  IF s.scoped THEN <<"limit", "netem", "filter">>
  ELSE IF s.load THEN <<"limit", "helper", "move">> ELSE <<"limit">>

\* What Apply undoes itself when command n fails.
CleanupOnError(s, n) ==
  CASE n = 1 -> <<>>
    [] n > 1 /\ s.scoped -> <<"limit">>
    [] n = 2 /\ s.load -> <<"limit">>
    [] n = 3 /\ s.load -> <<"helper", "limit">>

\* A cgroup file is written without a context; any other command may be killed.
Ends(c) ==
  {"ok", "error"} \union (IF Cancelled /\ ~(c = "limit" /\ WritesFile(scenario)) THEN {"killed"} ELSE {})
Places(c, end) == IF end # "error" /\ c \in {"limit", "helper"} THEN {c} ELSE {}

ApplyCommand ==
  /\ pc = "apply"
  /\ LET commands == ApplyCommands(scenario)
         c == commands[step + 1]
     IN  \E end \in Ends(c) :
           /\ placed' = placed \union Places(c, end)
           /\ IF end = "ok"
              THEN /\ step' = step + 1
                   /\ Goes(IF step + 1 = Len(commands) THEN "launch" ELSE "apply")
                   /\ UNCHANGED <<todo, lost>>
              ELSE /\ todo' = CleanupOnError(scenario, step + 1)
                   /\ lost' = (lost \/ Cancelled)
                   /\ pc' = "unapply"
                   /\ UNCHANGED <<step, result>>
  /\ UNCHANGED <<scenario, now, ctx, baseline, bad, mu, reverted, failed, reverting, watching, recorded>>

\* Undoing what is not there fails, except that a file can always be rewritten.
Undoes(c, end) ==
  /\ end = "ok" => c \in placed \/ (c = "limit" /\ (WritesFile(scenario) \/ scenario.kind = "clock_skew"))
  /\ placed' = IF end = "error" THEN placed ELSE placed \ {c}

\* The helper is stopped with the context of the run, the rest with a fresh one.
Unapply ==
  /\ pc = "unapply"
  /\ IF todo = <<>>
     THEN /\ Returns("stopNetwork", "error")
          /\ UNCHANGED <<placed, todo, failed, lost>>
     ELSE \E end \in {"ok", "error"} :
            /\ Head(todo) = "helper" /\ Cancelled => end = "error"
            /\ Undoes(Head(todo), end)
            /\ failed' = (failed \/ (end = "error" /\ Head(todo) \in placed /\ ~Cancelled)
                                 \/ (end = "error" /\ Head(todo) = "limit"))
            /\ lost' = (lost \/ Cancelled)
            /\ todo' = Tail(todo)
            /\ UNCHANGED main
  /\ UNCHANGED <<scenario, now, ctx, baseline, step, bad, mu, reverted, reverting, watching, recorded>>

-----------------------------------------------------------------------------
(* Reverting. *)

RevertCommands(s) == IF s.load THEN <<"helper", "limit">> ELSE <<"limit">>

\* Whether the holder of the lock finds its work done.
Wants(who) == IF who = "timer" THEN timer = "revert" ELSE pc = "cleanup"
Finishes(who, ok) ==
  IF who = "timer"
  THEN /\ timer' = "done" /\ revertDone' = (IF ok THEN "ok" ELSE "error")
       /\ UNCHANGED <<main, revertAt>>
  ELSE Goes("stopNetwork") /\ UNCHANGED reverting

Lock(who) ==
  /\ Running /\ mu = "free" /\ Wants(who)
  /\ IF reverted
     THEN Finishes(who, TRUE) /\ UNCHANGED <<mu, todo, bad>>
     ELSE /\ mu' = who /\ todo' = RevertCommands(scenario) /\ bad' = FALSE
          /\ UNCHANGED <<main, reverting>>
  /\ UNCHANGED <<scenario, now, ctx, baseline, step, placed, reverted, failed, lost, watching, recorded>>

\* The timer reverts with the context of the run, the clean-up with a fresh one
\* of thirty seconds.
RevertCommand(who) ==
  /\ Running /\ mu = who /\ todo # <<>>
  /\ \E end \in IF who = "timer" THEN Ends(Head(todo)) ELSE {"ok", "error", "killed"} :
       /\ Undoes(Head(todo), end)
       /\ bad' = (bad \/ end # "ok")
       /\ failed' = IF who = "cleanup" THEN failed \/ (end = "error" /\ Head(todo) \in placed) ELSE failed
       /\ todo' = Tail(todo)
  /\ UNCHANGED <<scenario, now, ctx, main, baseline, step, mu, reverted, lost, reverting, watching, recorded>>

\* Mutant: a revert that failed counts as done.
MarksAnyRevert(who) ==
  /\ Running /\ mu = who /\ todo = <<>>
  /\ reverted' = TRUE
  /\ mu' = "free"
  /\ Finishes(who, ~bad)
  /\ UNCHANGED <<scenario, now, ctx, baseline, step, placed, todo, bad, failed, lost, watching, recorded>>

\* A failed revert is not marked, so that the clean-up tries again.
Unlock(who) ==
  /\ Running /\ mu = who /\ todo = <<>>
  /\ reverted' = ~bad
  /\ mu' = "free"
  /\ Finishes(who, ~bad)
  /\ UNCHANGED <<scenario, now, ctx, baseline, step, placed, todo, bad, failed, lost, watching, recorded>>

TimerFires ==
  /\ Running /\ timer = "wait" /\ Due(revertAt)
  /\ IF Cancelled
     THEN timer' = "done" /\ revertDone' = "error"
     ELSE timer' = "revert" /\ UNCHANGED revertDone
  /\ UNCHANGED <<scenario, now, ctx, main, baseline, devnet, revertAt, watching, recorded>>

-----------------------------------------------------------------------------
(* Watching the duty. *)

\* The timer, the samplers and the two polls are started.
Launch ==
  /\ pc = "launch"
  /\ revertAt' = now + scenario.duration /\ timer' = "wait"
  /\ \E found \in BOOLEAN :
       IF scenario.pressure /\ ~found
       THEN Returns("cleanup", "error") /\ UNCHANGED task
       ELSE /\ Goes("polls")
            /\ task' = [block |-> "poll", publish |-> "poll", tries |-> 0,
                        pressure |-> IF scenario.pressure THEN "wait" ELSE "off",
                        peers |-> IF scenario.peers THEN "wait" ELSE "off"]
  /\ UNCHANGED <<scenario, now, ctx, baseline, devnet, revertDone, observer, recorded>>

around == <<scenario, now, ctx, main, baseline, devnet, reverting, recorded>>
TaskMoves(name, to) == Running /\ task' = [task EXCEPT ![name] = to] /\ UNCHANGED <<around, observer>>

\* A header is served once the block is canonical and validated; any other answer than
\* 404 ends the poll.
BlockAnswers ==
  /\ task.block \in {"poll", "confirm"}
  /\ \E to \in {"found", "error"} :
       /\ to = "found" => now >= SlotAt
       /\ TaskMoves("block", to)

PollBlockSeen ==
  /\ task.block = "poll" /\ Due(WatchEnd)
  /\ TaskMoves("block", IF Cancelled THEN "error" ELSE "confirm")

\* The node reports itself ready and past the slot, and still has no header.
BlockIsSkipped == task.block = "confirm" /\ ~Cancelled /\ TaskMoves("block", "skipped")
BlockStatusAtDeadline == task.block = "confirm" /\ Due(GiveUpAt) /\ TaskMoves("block", "error")

\* Errors of single requests are passed over.
AttestationInPool == task.publish = "poll" /\ now >= SlotAt /\ TaskMoves("publish", "found")
PollAttestationPublished ==
  /\ task.publish = "poll" /\ Due(WatchEnd)
  /\ TaskMoves("publish", IF Cancelled THEN "error" ELSE "none")

\* cancelPressure is deferred.
SamplePressure ==
  /\ task.pressure = "wait" /\ Due(PressureAt)
  /\ \E to \in {"ok", "error"} : (Cancelled => to = "error") /\ TaskMoves("pressure", to)

\* Mutant: one attempt too many.
SamplePeerCountOnceMore ==
  /\ Running /\ task.peers = "wait" /\ Due(SlotAt)
  /\ \E ok \in BOOLEAN :
       LET goes == ~Cancelled /\ ~ok /\ task.tries < PeerAttempts
       IN task' = [task EXCEPT !.tries = IF goes THEN @ + 1 ELSE 0,
                               !.peers = IF goes THEN "wait" ELSE IF ok /\ ~Cancelled THEN "ok" ELSE "error"]
  /\ UNCHANGED <<around, observer>>

\* tries counts the failed attempts while the loop goes on.
SamplePeerCount ==
  /\ Running /\ task.peers = "wait" /\ Due(SlotAt)
  /\ \E ok \in BOOLEAN :
       LET goes == ~Cancelled /\ ~ok /\ task.tries + 1 < PeerAttempts
       IN task' = [task EXCEPT !.tries = IF goes THEN @ + 1 ELSE 0,
                               !.peers = IF goes THEN "wait" ELSE IF ok /\ ~Cancelled THEN "ok" ELSE "error"]
  /\ UNCHANGED <<around, observer>>

\* The contexts of the observers are cancelled by the deferred stops.
Stopped(o) == Cancelled \/ pc = "stopHead" \/ (pc = "stopNetwork" /\ o = "network")
ObserverMoves(o, part, to) ==
  Running /\ observer' = [observer EXCEPT ![o][part] = to] /\ UNCHANGED <<around, task>>

\* The stream or the header poll has the head, or the stream announces a later one.
HeadAnswers(o) ==
  /\ observer[o].head = "wait" /\ now >= SlotAt /\ now <= WatchEnd
  /\ \E to \in {"found", "none"} : ObserverMoves(o, "head", to)

ObserveHeadForSlot(o) ==
  /\ observer[o].head = "wait" /\ (Stopped(o) \/ now >= WatchEnd)
  /\ ObserverMoves(o, "head", "none")

\* The gauge reads the slot, before or after the head's instant, or has passed it.
GaugeAnswers(o) ==
  /\ observer[o].timing = "wait" /\ now >= SlotAt
  /\ \E to \in {"ok", "none"} \union (IF o = "watched" THEN {"late"} ELSE {}) :
       ObserverMoves(o, "timing", to)

WatchBlockTiming(o) ==
  /\ observer[o].timing = "wait" /\ (Stopped(o) \/ now >= WatchEnd \/ observer[o].head = "none")
  /\ ObserverMoves(o, "timing", "none")

\* Mutant: an observer that gives up its result does not report its end.
ObserveHeadTimingSilent(o) ==
  /\ Running /\ ~Stopped(o)
  /\ observer[o].out = "none" /\ observer[o].head \in {"found", "none"} /\ observer[o].timing # "wait"
  /\ observer' = [observer EXCEPT ![o].out = "sent", ![o].timing = IF observer[o].head = "none" THEN "none" ELSE @]
  /\ UNCHANGED <<around, task>>

\* The result is sent, or given up when the context is done; without a head it
\* says nothing of the gauge.
ObserveHeadTiming(o) ==
  /\ Running
  /\ observer[o].out = "none" /\ observer[o].head \in {"found", "none"} /\ observer[o].timing # "wait"
  /\ \E to \in {"sent"} \union (IF Stopped(o) THEN {"gone"} ELSE {}) :
       observer' = [observer EXCEPT ![o].out = to, ![o].timing = IF observer[o].head = "none" THEN "none" ELSE @]
  /\ UNCHANGED <<around, task>>

-----------------------------------------------------------------------------
(* The main goroutine collects. *)

collecting == <<scenario, now, ctx, baseline, devnet, reverting, dir>>

JoinPolls ==
  /\ pc = "polls"
  /\ task.block \in {"found", "skipped", "error"} /\ task.publish \in {"found", "none", "error"}
  /\ IF "error" \in {task.block, task.publish}
     THEN Returns("cleanup", "error") /\ UNCHANGED outcome
     ELSE /\ Goes("revert")
          /\ outcome' = {IF task.block = "found" THEN "block_seen" ELSE "block_skipped"}
  /\ task' = [task EXCEPT !.block = "off", !.publish = "off"]
  /\ UNCHANGED <<observer, collecting>>

\* Mutant: the revert is left to run beside the rest.
AwaitNoRevert ==
  /\ pc = "revert"
  /\ IF revertDone = "error" THEN Returns("cleanup", "error") ELSE Goes("head")
  /\ UNCHANGED <<outcome, watching, collecting>>

AwaitRevert ==
  /\ pc = "revert" /\ revertDone # "none"
  /\ IF revertDone = "error" THEN Returns("cleanup", "error") ELSE Goes("head")
  /\ UNCHANGED <<outcome, watching, collecting>>

\* waitHeadTiming: a result, an observer that is gone, or the end of the context.
Waits(o, ok) ==
  \/ ok /\ observer[o].out = "sent"
  \/ ~ok /\ (Cancelled \/ observer[o].out = "gone")

\* Mutant: a head does not speak against a skipped block.
HeadAddsTo(found, w) ==
  IF w.head = "none" THEN found
  ELSE found \union {"head_updated"} \union (IF w.timing = "ok" THEN {"block_seen"} ELSE {})

\* A head withdraws block_skipped, and a timing that does not come after it is a
\* block_seen of its own.
HeadEvidence(found, w) ==
  IF w.head = "none" THEN found
  ELSE (found \ {"block_skipped"})
         \union {"head_updated"} \union (IF w.timing = "ok" THEN {"block_seen"} ELSE {})

\* The result is taken from the channel, and the observer has ended.
Takes(o) == observer' = [observer EXCEPT ![o] = [head |-> "off", timing |-> "off", out |-> "taken"]]

AwaitHead ==
  /\ pc = "head"
  /\ \/ /\ Waits("watched", TRUE)
        /\ outcome' = HeadEvidence(outcome, observer["watched"])
        /\ Takes("watched") /\ Goes("network")
     \/ /\ Waits("watched", FALSE)
        /\ Returns("cleanup", "error") /\ UNCHANGED <<outcome, observer>>
  /\ UNCHANGED <<task, collecting>>

\* A baseline that was asked for must have been measured.
AwaitNetwork ==
  /\ pc = "network"
  /\ \/ ~scenario.network /\ Goes("pressure") /\ UNCHANGED observer
     \/ /\ scenario.network /\ Waits("network", TRUE)
        /\ IF observer["network"].head = "found" /\ observer["network"].timing # "none"
           THEN Goes("pressure") ELSE Returns("cleanup", "error")
        /\ Takes("network")
     \/ /\ scenario.network /\ Waits("network", FALSE)
        /\ Returns("cleanup", "error") /\ UNCHANGED observer
  /\ UNCHANGED <<outcome, task, collecting>>

\* A sampler is waited for without regard to the context.
Await(name, at, next) ==
  /\ pc = at /\ task[name] # "wait"
  /\ IF task[name] = "error" THEN Returns("cleanup", "error") ELSE Goes(next)
  /\ task' = [task EXCEPT ![name] = "off"]
  /\ UNCHANGED <<outcome, observer, collecting>>
AwaitPressure == Await("pressure", "pressure", "peers")
AwaitPeers == Await("peers", "peers", "inclusion")

\* The head has reached the last slot and the blocks of the window are read.
InclusionAnswers ==
  /\ pc = "inclusion"
  /\ \E answered \in BOOLEAN :
       /\ answered => now >= LastSlot /\ ~Cancelled
       /\ IF answered THEN Goes("payload") ELSE Returns("cleanup", "error")
  /\ UNCHANGED <<outcome, watching, collecting>>

CheckInclusion ==
  /\ pc = "inclusion" /\ Due(PollEnd)
  /\ Returns("cleanup", "error")
  /\ UNCHANGED <<outcome, watching, collecting>>

PayloadAttested ==
  /\ pc = "payload"
  /\ \E answered \in BOOLEAN :
       IF answered /\ ~Cancelled THEN Goes("completion") ELSE Returns("cleanup", "error")
  /\ UNCHANGED <<outcome, watching, collecting>>

\* The window is waited out, the clock read again.
Complete ==
  /\ pc = "completion" /\ Due(WindowEnd)
  /\ \E r \in Readings :
       IF ~Cancelled /\ Trusted(r) THEN Goes("build") ELSE Returns("cleanup", "error")
  /\ UNCHANGED <<outcome, watching, collecting>>

-----------------------------------------------------------------------------
(* The record. *)

Manifest(run, samples, label) ==
  [run |-> run, obs |-> run, samples |-> IF samples THEN run ELSE 0, label |-> label]

\* What earlier runs may have left in the directory, interrupted or not; an earlier
\* label that is not known has its record refused whatever the files are.
LeftBehind ==
  {EmptyDir, [EmptyDir EXCEPT !.obs = 1, !.samples = 1]}
    \union {[obs |-> 1, samples |-> IF s THEN 1 ELSE 0, readme |-> 1, manifest |-> Manifest(1, s, "known")] :
              s \in BOOLEAN}
    \union {[obs |-> 2, samples |-> n, readme |-> n, manifest |-> Manifest(1, TRUE, "known")] : n \in {1, 2}}

\* buildObservations and the replay; the record is written only if both accept it.
BuildObservations ==
  /\ pc = "build"
  /\ \E replayed \in BOOLEAN :
       IF replayed
       THEN Goes("write") /\ dir' \in LeftBehind
       ELSE Returns("cleanup", "error") /\ UNCHANGED dir
  /\ UNCHANGED <<scenario, now, ctx, baseline, devnet, reverting, watching, outcome>>

\* Mutant: the manifest is marshalled before the samples are hashed.
ManifestUnpinned == Manifest(Run, FALSE, scenario.label)
NewManifest == Manifest(Run, scenario.samples, scenario.label)

\* Mutant: the README follows the manifest.
ReadmeLast ==
  IF scenario.samples THEN <<"obs", "samples", "manifest", "readme">> ELSE <<"obs", "manifest", "readme">>
FileOrder ==
  IF scenario.samples THEN <<"obs", "samples", "readme", "manifest">> ELSE <<"obs", "readme", "manifest">>

Written(d) == {f \in {"obs", "samples", "readme"} : d[f] = Run} \union (IF d.manifest.run = Run THEN {"manifest"} ELSE {})

\* Each file is replaced by a rename: it is there or it is not.
AtomicWriteFile ==
  /\ pc = "write"
  /\ LET n == Cardinality(Written(dir)) + 1
         f == FileOrder[n]
     IN  \E ok \in BOOLEAN :
           IF ok
           THEN /\ dir' = [dir EXCEPT ![f] = IF f = "manifest" THEN NewManifest ELSE Run]
                /\ Goes(IF n = Len(FileOrder) THEN "label" ELSE "write")
           ELSE Returns("cleanup", "error") /\ UNCHANGED dir
  /\ UNCHANGED <<scenario, now, ctx, baseline, devnet, reverting, watching, outcome>>

\* The process dies between two files.
Killed ==
  /\ pc = "write"
  /\ pc' = "killed"
  /\ UNCHANGED <<scenario, now, ctx, result, baseline, devnet, reverting, watching, recorded>>

\* A verdict other than the label's is an error, after the record is kept; every
\* verdict names a cause of the taxonomy.
CompareLabel ==
  /\ pc = "label"
  /\ \E matches \in BOOLEAN :
       (matches => scenario.label # "cause") /\ Returns("cleanup", IF matches THEN "ok" ELSE "mismatch")
  /\ UNCHANGED <<outcome, watching, collecting>>

\* The deferred stops, in their order.
StopNetwork ==
  /\ pc = "stopNetwork" /\ (observer["network"].head = "off" \/ observer["network"].out # "none")
  /\ Goes("stopHead")
  /\ UNCHANGED <<outcome, watching, collecting>>

StopHead ==
  /\ pc = "stopHead" /\ observer["watched"].out # "none"
  /\ Goes("returned")
  /\ UNCHANGED <<outcome, watching, collecting>>

\* corpusctl: the expectation is in the taxonomy.  What else is asked of a manifest
\* was asked by validateCorpusWrite too.
ValidateManifest(m) == m.run # 0 /\ m.label = "known"

\* The observations are of the manifest's slot and carry the clock samples of its
\* run.  That each is well formed and in order, their writer has seen to.
ValidateObservations(d) == d.obs # 0 /\ d.obs = d.manifest.run

\* validateScenario: the hashes of the manifest pin the files besides.
ValidateScenario(d) ==
  /\ ValidateManifest(d.manifest)
  /\ ValidateObservations(d)
  /\ d.obs = d.manifest.obs
  /\ d.samples = d.manifest.samples
  /\ d.readme # 0

-----------------------------------------------------------------------------
\* What happens by itself, without the node or a command answering in time:
\* commands and requests are assumed to end.
Progress ==
  \/ Tick
  \/ Prepare \/ PreflightPeering \/ CollectEngineBaseline \/ ChooseDuty
  \/ SampleClock \/ SampleEngineBefore \/ StartObservers
  \/ ApplyCommand \/ Unapply
  \/ \E who \in {"timer", "cleanup"} : Lock(who) \/ RevertCommand(who) \/ Unlock(who)
  \/ TimerFires \/ Launch
  \/ PollBlockSeen \/ BlockStatusAtDeadline \/ PollAttestationPublished
  \/ SamplePressure \/ SamplePeerCount
  \/ \E o \in Observers : ObserveHeadForSlot(o) \/ WatchBlockTiming(o) \/ ObserveHeadTiming(o)
  \/ JoinPolls \/ AwaitRevert \/ AwaitHead \/ AwaitNetwork \/ AwaitPressure \/ AwaitPeers
  \/ CheckInclusion \/ PayloadAttested \/ Complete
  \/ BuildObservations \/ AtomicWriteFile \/ CompareLabel
  \/ StopNetwork \/ StopHead

Environment ==
  \/ Interrupt \/ Killed
  \/ BlockAnswers \/ BlockIsSkipped \/ AttestationInPool \/ InclusionAnswers
  \/ \E o \in Observers : HeadAnswers(o) \/ GaugeAnswers(o)

Next == Progress \/ Environment

Spec == Init /\ [][Next]_vars /\ WF_vars(Progress)

-----------------------------------------------------------------------------
(* Properties. *)

PCs ==
  {"prepare", "preflight", "baseline", "duty", "clock", "engine", "observe", "apply", "unapply", "launch",
   "polls", "revert", "head", "network", "pressure", "peers", "inclusion", "payload", "completion",
   "build", "write", "label", "cleanup", "stopNetwork", "stopHead", "returned", "killed"}
Manifests == [run : 0 .. Run, obs : 0 .. Run, samples : 0 .. Run, label : Labels \union {"none"}]

\* Types of the goroutines, the devnet and the record; a sampler makes no more than
\* PeerAttempts attempts.
TypeOK ==
  /\ scenario \in Scenarios /\ now \in 0 .. PollEnd + scenario.duration /\ ctx \in {"live", "cancelled"}
  /\ pc \in PCs /\ result \in {"none", "ok", "mismatch", "error"}
  /\ baseline \in [len : 0 .. MinSamples, attempt : 0 .. 3 * MinSamples, previous : BOOLEAN]
  /\ step \in 0 .. 3 /\ placed \subseteq {"limit", "helper"}
  /\ todo \in {<<>>, <<"limit">>, <<"helper", "limit">>}
  /\ mu \in {"free", "timer", "cleanup"} /\ timer \in {"off", "wait", "revert", "done"}
  /\ revertAt \in 0 .. PollEnd + scenario.duration /\ revertDone \in {"none", "ok", "error"}
  /\ observer \in [Observers -> [head : {"off", "wait", "found", "none"},
                                 timing : {"off", "wait", "ok", "late", "none"},
                                 out : {"none", "sent", "gone", "taken"}]]
  /\ task \in [block : {"off", "poll", "confirm", "found", "skipped", "error"},
               publish : {"off", "poll", "found", "none", "error"},
               pressure : {"off", "wait", "ok", "error"}, peers : {"off", "wait", "ok", "error"},
               tries : 0 .. PeerAttempts - 1]
  /\ outcome \subseteq {"block_seen", "block_skipped", "head_updated"}
  /\ dir \in [obs : 0 .. Run, samples : 0 .. Run, readme : 0 .. Run, manifest : Manifests]
  /\ bad \in BOOLEAN /\ reverted \in BOOLEAN /\ failed \in BOOLEAN /\ lost \in BOOLEAN

\* doRevert and its deferred call: however RunScenario returns, nothing of the
\* fault is left on the devnet unless the last attempt to remove it failed by
\* itself, or the interrupt came while Apply was still at work.
NoFaultLeft == pc = "returned" /\ placed # {} => failed \/ lost

\* A record exists only of a run whose fault was reverted by its own timer, is
\* gone, and whose inclusion window is over.
RecordedAfterRevert ==
  Written(dir) # {} => revertDone = "ok" /\ placed = {} /\ now >= WindowEnd

\* The block poll and the head observer watch the slot independently; a record
\* never holds the absence of the block together with the block or its head.
OneStory ==
  Written(dir) # {} /\ "block_skipped" \in outcome => outcome \cap {"block_seen", "head_updated"} = {}

\* "An interrupted multi-file update is detected": a directory that corpusctl
\* accepts has all its files from the run its manifest is of.
AcceptedIsOneRun ==
  ValidateScenario(dir) =>
    /\ dir.obs = dir.manifest.run /\ dir.readme = dir.manifest.run
    /\ dir.samples \in {0, dir.manifest.run}

\* A record whose manifest was published is accepted, but for two things the writer
\* lets pass: a label that is not in the taxonomy (validateCorpusWrite asks only that
\* there is one), and the samples of an earlier run when this one wrote none.
PublishedIsAccepted ==
  dir.manifest.run = Run =>
    \/ ValidateScenario(dir)
    \/ scenario.label # "known"
    \/ ~scenario.samples /\ dir.samples # 0

\* RunScenario returns: neither the polls, nor the revert, nor the observers it
\* joins can keep it for ever, interrupted or not.
RunReturns == <>(pc \in {"returned", "killed"})
=============================================================================
