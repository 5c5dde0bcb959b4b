------------------------ MODULE FaultInjectorProofs ------------------------
(***************************************************************************)
(* Proofs about FaultInjector for every set of valid scenarios, every       *)
(* duration of a fault and every number of nodes, candidates, samples and   *)
(* attempts.                                                                *)
(***************************************************************************)
EXTENDS FaultInjector, FiniteSetTheorems, TLAPS

-----------------------------------------------------------------------------
(* The inductive invariant, in parts.                                       *)

\* Where the main goroutine is: before the fault, before its timer is started,
\* with the timer running, past the clean-up.
Early == {"prepare", "preflight", "baseline", "duty", "clock", "engine", "observe"}
Untimed == Early \cup {"apply", "unapply", "launch"}
Reverted == {"head", "network", "pressure", "peers", "inclusion", "payload", "completion", "build", "write", "label"}
Leaving == {"stopNetwork", "stopHead", "returned"}

Left(t) == {t[i] : i \in DOMAIN t}

\* The clock runs to the end of the polls, or of the fault.
TimeInv ==
  /\ pc \in Untimed => revertAt = 0
  /\ now =< PollEnd \/ now =< revertAt

\* What Apply has put in place, and what it still has to undo.
ApplyInv ==
  /\ pc \in Early => placed = {} /\ step = 0
  /\ pc = "apply" => /\ step < Len(ApplyCommands(scenario))
                     /\ step = 0 => placed = {}
                     /\ "helper" \in placed => step = 2 /\ scenario.load
  /\ pc = "unapply" => placed \subseteq Left(todo) \/ failed \/ lost
  /\ "helper" \in placed => scenario.load

\* Who reverts holds the lock, and knows what is left.
LockInv ==
  /\ pc \in Untimed => timer = "off" /\ mu = "free" /\ ~reverted /\ revertDone = "none"
  /\ mu = "timer" => timer = "revert"
  /\ mu = "cleanup" => pc = "cleanup" /\ (placed \subseteq Left(todo) \/ failed)
  /\ mu # "free" /\ ~bad => placed \subseteq Left(todo)
  /\ reverted => placed = {}
  /\ revertDone = "ok" => timer = "done" /\ placed = {}
  /\ pc \in Leaving => placed = {} \/ failed \/ lost

\* The record follows the revert and the window.
RecordInv ==
  /\ pc \in Reverted => revertDone = "ok"
  /\ pc \in {"build", "write", "label"} => now >= WindowEnd
  /\ Written(dir) # {} => revertDone = "ok" /\ now >= WindowEnd

\* What has been observed never contradicts itself.
StoryInv == "block_skipped" \in outcome => outcome \cap {"block_seen", "head_updated"} = {}

\* The directory is d with the files of this run up to f, in the order they are
\* written.
UpTo(d, f) ==
  /\ dir.obs = IF f = "none" THEN d.obs ELSE Run
  /\ dir.samples = IF f = "samples" \/ (f \in {"readme", "manifest"} /\ scenario.samples) THEN Run ELSE d.samples
  /\ dir.readme = IF f \in {"readme", "manifest"} THEN Run ELSE d.readme
  /\ dir.manifest = IF f = "manifest" THEN NewManifest ELSE d.manifest
Unpublished == {"none", "obs", "readme"} \cup (IF scenario.samples THEN {"samples"} ELSE {})

DirInv ==
  \E d \in LeftBehind, f \in Unpublished \cup {"manifest"} :
    UpTo(d, f) /\ (pc = "write" => f # "manifest")

IInv == TypeOK /\ TimeInv /\ ApplyInv /\ LockInv /\ RecordInv /\ StoryInv /\ DirInv

-----------------------------------------------------------------------------
(* The constants and the sequences of commands.                             *)

\* The constants, one by one.
LEMMA Naturals ==
  /\ Candidates \in Nat /\ MinSamples \in Nat /\ MinSamples > 0 /\ PeerAttempts \in Nat /\ PeerAttempts > 0
  BY InjectorConstants

\* What Scenario.Validate asks of a scenario.
LEMMA ScenarioFacts ==
  ASSUME NEW s \in Scenarios
  PROVE  /\ s.duration \in Nat /\ s.duration > 0 /\ s.kind \in Kinds
         /\ s.scoped => ~s.load
<1>1. Validate(s)
  BY InjectorConstants
<1>2. s \in Scenario /\ s.duration > 0 /\ (s.scoped => s.kind = "netem")
      /\ (s.load => s.kind \in {"cgroup_io", "cgroup_mem"})
  BY <1>1 DEF Validate
<1>3. s.duration \in Nat /\ s.kind \in Kinds
  BY <1>2 DEF Scenario
<1> QED
  BY <1>2, <1>3

Todos == {<<>>, <<"limit">>, <<"helper", "limit">>}

\* What is left to undo, by what remains of the list.
LEMMA TodoFacts ==
  /\ Left(<<>>) = {} /\ Left(<<"limit">>) = {"limit"} /\ Left(<<"helper", "limit">>) = {"helper", "limit"}
  /\ \A t \in Todos : t # <<>> =>
       /\ Tail(t) \in Todos /\ Head(t) \in {"limit", "helper"} /\ Left(t) = {Head(t)} \cup Left(Tail(t))
<1>1. Left(<<>>) = {}
  BY DEF Left
<1>2. Left(<<"limit">>) = {"limit"}
  BY DEF Left
<1>3. Left(<<"helper", "limit">>) = {"helper", "limit"}
  BY DEF Left
<1>4. Tail(<<"limit">>) = <<>> /\ Head(<<"limit">>) = "limit"
  OBVIOUS
<1>5. Tail(<<"helper", "limit">>) = <<"limit">> /\ Head(<<"helper", "limit">>) = "helper"
  OBVIOUS
<1> QED
  BY <1>1, <1>2, <1>3, <1>4, <1>5 DEF Todos

\* One command less to undo.
LEMMA TodoTail ==
  ASSUME NEW t \in Todos, t # <<>>
  PROVE  Tail(t) \in Todos /\ Left(t) = {Head(t)} \cup Left(Tail(t))
  BY TodoFacts

\* Apply runs three commands at most; the limit is the first, and a helper the
\* second, of a load.
LEMMA ApplyFacts ==
  ASSUME NEW s \in Scenarios, NEW n \in Nat, n < Len(ApplyCommands(s))
  PROVE  /\ n + 1 \in 1 .. 3
         /\ n = 0 => ApplyCommands(s)[n + 1] = "limit"
         /\ ApplyCommands(s)[n + 1] = "helper" => n = 1 /\ s.load
         /\ n > 0 /\ ~s.load => s.scoped
<1>1. CASE s.scoped
  <2>1. ApplyCommands(s) = <<"limit", "netem", "filter">>
    BY <1>1 DEF ApplyCommands
  <2>2. n = 0 \/ n = 1 \/ n = 2
    BY <2>1
  <2> QED
    BY <1>1, <2>1, <2>2
<1>2. CASE ~s.scoped /\ s.load
  <2>1. ApplyCommands(s) = <<"limit", "helper", "move">>
    BY <1>2 DEF ApplyCommands
  <2>2. n = 0 \/ n = 1 \/ n = 2
    BY <2>1
  <2> QED
    BY <1>2, <2>1, <2>2
<1>3. CASE ~s.scoped /\ ~s.load
  <2>1. ApplyCommands(s) = <<"limit">>
    BY <1>3 DEF ApplyCommands
  <2>2. n = 0
    BY <2>1
  <2> QED
    BY <1>3, <2>1, <2>2
<1> QED
  BY <1>1, <1>2, <1>3

\* What Apply undoes itself covers what its earlier commands have put in place.
LEMMA CleanupFacts ==
  ASSUME NEW s \in Scenarios, NEW n \in Nat, n < Len(ApplyCommands(s))
  PROVE  /\ CleanupOnError(s, n + 1) \in Todos
         /\ n > 0 => "limit" \in Left(CleanupOnError(s, n + 1))
         /\ n = 2 /\ s.load => "helper" \in Left(CleanupOnError(s, n + 1))
<1>0. /\ n \in {0, 1, 2} /\ (n > 0 /\ ~s.load => s.scoped) /\ (s.scoped => ~s.load)
  BY ApplyFacts, ScenarioFacts
<1>1. CASE n = 0
  BY <1>1 DEF CleanupOnError, Todos
<1>2. CASE n = 1
  <2>1. CleanupOnError(s, n + 1) = <<"limit">>
    BY <1>0, <1>2 DEF CleanupOnError
  <2> QED
    BY <1>2, <2>1, TodoFacts DEF Todos
<1>3. CASE n = 2 /\ s.scoped
  <2>1. CleanupOnError(s, n + 1) = <<"limit">>
    BY <1>0, <1>3 DEF CleanupOnError
  <2> QED
    BY <1>0, <1>3, <2>1, TodoFacts DEF Todos
<1>4. CASE n = 2 /\ s.load
  <2>1. CleanupOnError(s, n + 1) = <<"helper", "limit">>
    BY <1>0, <1>4 DEF CleanupOnError
  <2> QED
    BY <1>4, <2>1, TodoFacts DEF Todos
<1> QED
  BY <1>0, <1>1, <1>2, <1>3, <1>4

\* Reverting covers everything Apply may have put in place.
LEMMA RevertFacts ==
  ASSUME NEW s \in Scenarios
  PROVE  /\ RevertCommands(s) \in Todos
         /\ "limit" \in Left(RevertCommands(s)) /\ (s.load => "helper" \in Left(RevertCommands(s)))
<1>1. RevertCommands(s) = IF s.load THEN <<"helper", "limit">> ELSE <<"limit">>
  BY DEF RevertCommands
<1> QED
  BY <1>1, TodoFacts DEF Todos

-----------------------------------------------------------------------------
(* The steps, by what they leave alone.                                     *)

Results == {"none", "ok", "mismatch", "error"}

\* A step of the main goroutine before there is a fault.
BeforeFault ==
  /\ pc \in Early /\ pc' \in Early \cup {"returned"} /\ result' \in {result, "error"}
  /\ UNCHANGED before

\* A step of a poll or a sampler, and one of an observer.
TaskStep == UNCHANGED <<around, observer>> /\ Running
ObserverStep == UNCHANGED <<around, task>> /\ Running

\* A step of the main goroutine between the start of the timer and its return.
Collects ==
  /\ UNCHANGED collecting /\ result' \in Results
  /\ \/ pc = "polls" /\ pc' \in {"revert", "cleanup"}
     \/ pc = "revert" /\ (pc' = "cleanup" \/ (pc' = "head" /\ revertDone \notin {"none", "error"}))
     \/ pc \in Reverted \ {"build", "write"} /\ pc' \in (Reverted \ {"write", "label"}) \cup {"cleanup"}
        /\ (pc' = "build" => now >= WindowEnd)
     \/ pc = "stopNetwork" /\ pc' = "stopHead"
     \/ pc = "stopHead" /\ pc' = "returned"

\* The steps before the fault leave the devnet and the goroutines alone.
LEMMA BeforeSteps ==
  ASSUME Prepare \/ PreflightPeering \/ CollectEngineBaseline \/ ChooseDuty \/ SampleClock \/ SampleEngineBefore
  PROVE  BeforeFault
<1> USE DEF Goes, Returns, BeforeFault, Early
<1>1. CASE Prepare
  BY <1>1 DEF Prepare
<1>2. CASE PreflightPeering
  BY <1>2 DEF PreflightPeering
<1>3. CASE CollectEngineBaseline
  BY <1>3 DEF CollectEngineBaseline, main
<1>4. CASE ChooseDuty
  BY <1>4 DEF ChooseDuty
<1>5. CASE SampleClock
  BY <1>5 DEF SampleClock
<1>6. CASE SampleEngineBefore
  BY <1>6 DEF SampleEngineBefore
<1> QED
  BY <1>1, <1>2, <1>3, <1>4, <1>5, <1>6

\* The polls and the samplers change nothing but their own state.
LEMMA TaskSteps ==
  ASSUME BlockAnswers \/ PollBlockSeen \/ BlockIsSkipped \/ BlockStatusAtDeadline \/ AttestationInPool
         \/ PollAttestationPublished \/ SamplePressure \/ SamplePeerCount
  PROVE  TaskStep
  BY DEF BlockAnswers, PollBlockSeen, BlockIsSkipped, BlockStatusAtDeadline, AttestationInPool,
         PollAttestationPublished, SamplePressure, SamplePeerCount, TaskMoves, TaskStep

\* Nor do the observers.
LEMMA ObserverSteps ==
  ASSUME NEW o, HeadAnswers(o) \/ GaugeAnswers(o) \/ ObserveHeadForSlot(o) \/ WatchBlockTiming(o) \/ ObserveHeadTiming(o)
  PROVE  ObserverStep
  BY DEF HeadAnswers, GaugeAnswers, ObserveHeadForSlot, WatchBlockTiming, ObserveHeadTiming, ObserverMoves, ObserverStep

\* The main goroutine collects in one order, and any failure leads to the clean-up.
LEMMA CollectSteps ==
  ASSUME TypeOK,
         JoinPolls \/ AwaitRevert \/ AwaitHead \/ AwaitNetwork \/ AwaitPressure \/ AwaitPeers \/ InclusionAnswers
         \/ CheckInclusion \/ PayloadAttested \/ Complete \/ CompareLabel \/ StopNetwork \/ StopHead
  PROVE  Collects
<1> USE DEF Goes, Returns, Collects, Reverted, Results
<1>0. result \in Results
  BY DEF TypeOK
<1>1. CASE JoinPolls
  BY <1>0, <1>1 DEF JoinPolls
<1>2. CASE AwaitRevert
  BY <1>0, <1>2 DEF AwaitRevert
<1>3. CASE AwaitHead
  BY <1>0, <1>3 DEF AwaitHead
<1>4. CASE AwaitNetwork
  BY <1>0, <1>4 DEF AwaitNetwork
<1>5. CASE AwaitPressure \/ AwaitPeers
  BY <1>0, <1>5 DEF AwaitPressure, AwaitPeers, Await
<1>6. CASE InclusionAnswers \/ CheckInclusion
  BY <1>0, <1>6 DEF InclusionAnswers, CheckInclusion
<1>7. CASE PayloadAttested
  BY <1>0, <1>7 DEF PayloadAttested
<1>8. CASE Complete
  BY <1>0, <1>8 DEF Complete, Due
<1>9. CASE CompareLabel
  BY <1>0, <1>9 DEF CompareLabel
<1>10. CASE StopNetwork \/ StopHead
  BY <1>0, <1>10 DEF StopNetwork, StopHead
<1> QED
  BY <1>1, <1>2, <1>3, <1>4, <1>5, <1>6, <1>7, <1>8, <1>9, <1>10

Whos == {"timer", "cleanup"}

\* Every step is of one of these kinds.
LEMMA StepKinds ==
  ASSUME TypeOK, [Next]_vars
  PROVE  \/ Tick \/ Interrupt \/ BeforeFault \/ StartObservers \/ ApplyCommand \/ Unapply
         \/ (\E who \in Whos : Lock(who) \/ RevertCommand(who) \/ Unlock(who))
         \/ TimerFires \/ Launch \/ TaskStep \/ ObserverStep \/ Collects
         \/ BuildObservations \/ AtomicWriteFile \/ Killed \/ UNCHANGED vars
  BY BeforeSteps, TaskSteps, ObserverSteps, CollectSteps DEF Next, Progress, Environment, Whos

-----------------------------------------------------------------------------
(* Types.                                                                   *)

MainType == scenario \in Scenarios /\ ctx \in {"live", "cancelled"} /\ pc \in PCs /\ result \in Results
TimeType == now \in 0 .. PollEnd + scenario.duration /\ revertAt \in 0 .. PollEnd + scenario.duration
BaselineType == baseline \in [len : 0 .. MinSamples, attempt : 0 .. 3 * MinSamples, previous : BOOLEAN]
DevnetType ==
  /\ step \in 0 .. 3 /\ placed \subseteq {"limit", "helper"} /\ todo \in Todos
  /\ mu \in {"free", "timer", "cleanup"}
FlagType == bad \in BOOLEAN /\ reverted \in BOOLEAN /\ failed \in BOOLEAN /\ lost \in BOOLEAN
TimerType == timer \in {"off", "wait", "revert", "done"} /\ revertDone \in {"none", "ok", "error"}
Watchers == [head : {"off", "wait", "found", "none"}, timing : {"off", "wait", "ok", "late", "none"},
             out : {"none", "sent", "gone", "taken"}]
ObserverType == observer \in [Observers -> Watchers]
Tasks == [block : {"off", "poll", "confirm", "found", "skipped", "error"},
          publish : {"off", "poll", "found", "none", "error"},
          pressure : {"off", "wait", "ok", "error"}, peers : {"off", "wait", "ok", "error"},
          tries : 0 .. PeerAttempts - 1]
TaskType == task \in Tasks
OutcomeType == outcome \subseteq {"block_seen", "block_skipped", "head_updated"}
DirType == dir \in [obs : 0 .. Run, samples : 0 .. Run, readme : 0 .. Run, manifest : Manifests]

\* The type invariant, by the part of the state it is about.
LEMMA TypeParts ==
  TypeOK <=> /\ MainType /\ TimeType /\ BaselineType /\ DevnetType /\ FlagType /\ TimerType
             /\ ObserverType /\ TaskType /\ OutcomeType /\ DirType
  BY DEF TypeOK, MainType, TimeType, BaselineType, DevnetType, FlagType, TimerType, ObserverType, Watchers,
     TaskType, Tasks, OutcomeType, DirType, Results, Todos

\* The same of the next state.
LEMMA TypePartsNext ==
  TypeOK' <=> (/\ MainType /\ TimeType /\ BaselineType /\ DevnetType /\ FlagType /\ TimerType
               /\ ObserverType /\ TaskType /\ OutcomeType /\ DirType)'
  BY DEF TypeOK, MainType, TimeType, BaselineType, DevnetType, FlagType, TimerType, ObserverType, Watchers,
     TaskType, Tasks, OutcomeType, DirType, Results, Todos

\* The types hold at the start.
LEMMA TypeInit == Init => TypeOK
<1> SUFFICES ASSUME Init PROVE TypeOK
  OBVIOUS
<1>1. MainType
  BY DEF Init, MainType, PCs, Results
<1>2. TimeType
  <2>1. scenario.duration \in Nat
    BY ScenarioFacts DEF Init
  <2> QED
    BY <2>1 DEF Init, TimeType, PollEnd
<1>3. BaselineType
  BY Naturals DEF Init, BaselineType
<1>4. DevnetType /\ FlagType /\ TimerType
  <2>1. DevnetType
    BY DEF Init, DevnetType, Todos
  <2>2. FlagType
    BY DEF Init, FlagType
  <2>3. TimerType
    BY DEF Init, TimerType
  <2> QED
    BY <2>1, <2>2, <2>3
<1>5. ObserverType
  <2>1. [head |-> "off", timing |-> "off", out |-> "none"] \in Watchers
    BY DEF Watchers
  <2> QED
    BY <2>1 DEF Init, ObserverType
<1>6. TaskType
  BY Naturals DEF Init, TaskType, Tasks
<1>7. OutcomeType
  BY DEF Init, OutcomeType
<1>8. DirType
  BY DEF Init, DirType, EmptyDir, NoManifest, Manifests, Run
<1> QED
  BY <1>1, <1>2, <1>3, <1>4, <1>5, <1>6, <1>7, <1>8, TypeParts

\* The steps that leave everything about the fault alone.
Elsewhere ==
  \/ Tick \/ Interrupt \/ BeforeFault \/ StartObservers \/ TaskStep \/ ObserverStep \/ Collects
  \/ BuildObservations \/ AtomicWriteFile \/ Killed \/ UNCHANGED vars

\* Where they take the main goroutine.
LEMMA DevnetFrame ==
  ASSUME Elsewhere
  PROVE  /\ UNCHANGED <<devnet, reverting>>
         /\ \/ pc' = pc
            \/ pc \in Early /\ pc' \in Early \cup {"returned"}
            \/ pc = "observe" /\ pc' = "apply"
            \/ pc \in {"polls", "revert"} \cup Reverted /\ pc' \in {"revert", "cleanup", "killed"} \cup Reverted
            \/ pc = "stopNetwork" /\ pc' = "stopHead"
            \/ pc = "stopHead" /\ pc' = "returned"
<1> USE DEF devnet, reverting, Goes, Returns, main
<1>1. CASE Tick \/ Interrupt \/ TaskStep \/ ObserverStep \/ UNCHANGED vars
  BY <1>1 DEF Tick, Interrupt, TaskStep, ObserverStep, around, vars
<1>2. CASE BeforeFault
  BY <1>2 DEF BeforeFault, before
<1>3. CASE StartObservers
  BY <1>3 DEF StartObservers, Early
<1>4. CASE Collects
  BY <1>4 DEF Collects, collecting, Reverted
<1>5. CASE BuildObservations \/ AtomicWriteFile \/ Killed
  BY <1>5 DEF BuildObservations, AtomicWriteFile, Killed, Reverted
<1> QED
  BY <1>1, <1>2, <1>3, <1>4, <1>5 DEF Elsewhere

\* The main goroutine stays within its code, and the scenario is the same.
LEMMA MainStep ==
  ASSUME TypeOK, [Next]_vars
  PROVE  MainType' /\ UNCHANGED scenario
<1>0. MainType
  BY TypeParts
<1> USE DEF MainType, Goes, Returns, Results
<1>1. CASE Tick \/ Interrupt
  BY <1>0, <1>1 DEF Tick, Interrupt, main
<1>2. CASE BeforeFault
  BY <1>0, <1>2 DEF BeforeFault, before, Early, PCs
<1>3. CASE StartObservers
  BY <1>0, <1>3 DEF StartObservers, PCs
<1>4. CASE ApplyCommand
  BY <1>0, <1>4 DEF ApplyCommand, PCs
<1>5. CASE Unapply
  BY <1>0, <1>5 DEF Unapply, PCs, main
<1>6. ASSUME NEW who \in Whos, Lock(who) \/ Unlock(who)
      PROVE  MainType' /\ UNCHANGED scenario
  BY <1>0, <1>6 DEF Lock, Unlock, Finishes, PCs, main
<1>7. ASSUME NEW who \in Whos, RevertCommand(who)
      PROVE  MainType' /\ UNCHANGED scenario
  BY <1>0, <1>7 DEF RevertCommand, main
<1>8. CASE TimerFires
  BY <1>0, <1>8 DEF TimerFires, main
<1>9. CASE Launch
  BY <1>0, <1>9 DEF Launch, PCs
<1>10. CASE TaskStep \/ ObserverStep
  BY <1>0, <1>10 DEF TaskStep, ObserverStep, around, main
<1>11. CASE Collects
  BY <1>0, <1>11 DEF Collects, collecting, Reverted, PCs
<1>12. CASE BuildObservations \/ AtomicWriteFile \/ Killed
  BY <1>0, <1>12 DEF BuildObservations, AtomicWriteFile, Killed, PCs
<1>13. CASE UNCHANGED vars
  BY <1>0, <1>13 DEF vars
<1> QED
  BY <1>1, <1>2, <1>3, <1>4, <1>5, <1>6, <1>7, <1>8, <1>9, <1>10, <1>11, <1>12, <1>13, StepKinds

\* The engine's baseline stays within its attempts.
LEMMA BaselineStep ==
  ASSUME TypeOK, [Next]_vars
  PROVE  BaselineType'
<1>0. BaselineType
  BY TypeParts
<1>1. CASE UNCHANGED baseline
  BY <1>0, <1>1 DEF BaselineType
<1>2. CASE CollectEngineBaseline
  <2>1. ASSUME baseline.len < MinSamples, baseline.attempt < 3 * MinSamples, NEW usable \in BOOLEAN,
               baseline' = [len |-> baseline.len + (IF usable /\ baseline.previous THEN 1 ELSE 0),
                            attempt |-> baseline.attempt + 1, previous |-> usable]
        PROVE  BaselineType'
    <3>1. /\ baseline.len + (IF usable /\ baseline.previous THEN 1 ELSE 0) \in 0 .. MinSamples
          /\ baseline.attempt + 1 \in 0 .. 3 * MinSamples
      BY <1>0, <2>1, Naturals DEF BaselineType
    <3> QED
      BY <2>1, <3>1 DEF BaselineType
  <2>2. baseline.len \in Int /\ baseline.attempt \in Int
    BY <1>0 DEF BaselineType
  <2>3. CASE baseline.len < MinSamples /\ baseline.attempt < 3 * MinSamples /\ ~Cancelled
    <3>1. \E usable \in BOOLEAN :
            baseline' = [len |-> baseline.len + (IF usable /\ baseline.previous THEN 1 ELSE 0),
                         attempt |-> baseline.attempt + 1, previous |-> usable]
      BY <1>2, <2>2, <2>3, Naturals DEF CollectEngineBaseline
    <3> QED
      BY <2>1, <2>3, <3>1
  <2>4. CASE ~(baseline.len < MinSamples /\ baseline.attempt < 3 * MinSamples /\ ~Cancelled)
    BY <1>1, <1>2, <2>2, <2>4, Naturals DEF CollectEngineBaseline
  <2> QED
    BY <2>3, <2>4
<1>3. \/ UNCHANGED baseline \/ CollectEngineBaseline
  <2>1. CASE Prepare \/ PreflightPeering \/ ChooseDuty \/ SampleClock \/ SampleEngineBefore
    BY <2>1 DEF Prepare, PreflightPeering, ChooseDuty, SampleClock, SampleEngineBefore
  <2>2. CASE Tick \/ Interrupt \/ StartObservers \/ ApplyCommand \/ Unapply \/ TimerFires \/ Launch
             \/ BuildObservations \/ AtomicWriteFile \/ Killed \/ UNCHANGED vars
    BY <2>2 DEF Tick, Interrupt, StartObservers, ApplyCommand, Unapply, TimerFires, Launch,
       BuildObservations, AtomicWriteFile, Killed, vars
  <2>3. ASSUME NEW who \in Whos, Lock(who) \/ RevertCommand(who) \/ Unlock(who)
        PROVE  UNCHANGED baseline
    BY <2>3 DEF Lock, RevertCommand, Unlock
  <2>4. TaskStep \/ ObserverStep \/ Collects => UNCHANGED baseline
    BY DEF TaskStep, ObserverStep, around, Collects, collecting
  <2> QED
    BY <2>1, <2>2, <2>3, <2>4, TaskSteps, ObserverSteps, CollectSteps DEF Next, Progress, Environment, Whos
<1> QED
  BY <1>1, <1>2, <1>3

-----------------------------------------------------------------------------
(* Phases and time.                                                         *)

\* The main goroutine does not go back behind the fault, nor behind the start of
\* its timer.
LEMMA Phases ==
  ASSUME TypeOK, [Next]_vars
  PROVE  /\ pc' \in Untimed => pc \in Untimed
         /\ pc' \in Early => pc \in Early
<1> USE DEF Goes, Returns, Untimed, Early
<1>1. CASE Tick \/ Interrupt \/ TimerFires \/ TaskStep \/ ObserverStep \/ UNCHANGED vars
  BY <1>1 DEF Tick, Interrupt, TimerFires, TaskStep, ObserverStep, around, main, vars
<1>2. CASE BeforeFault \/ StartObservers
  BY <1>2 DEF BeforeFault, StartObservers
<1>3. CASE ApplyCommand
  BY <1>3 DEF ApplyCommand
<1>4. CASE Unapply
  BY <1>4 DEF Unapply, main
<1>5. ASSUME NEW who \in Whos, Lock(who) \/ Unlock(who)
      PROVE  pc' = pc \/ pc' = "stopNetwork"
  BY <1>5 DEF Lock, Unlock, Finishes, main
<1>6. ASSUME NEW who \in Whos, RevertCommand(who)
      PROVE  pc' = pc
  BY <1>6 DEF RevertCommand, main
<1>7. CASE Launch
  BY <1>7 DEF Launch
<1>8. CASE Collects
  BY <1>8 DEF Collects, Reverted
<1>9. CASE BuildObservations \/ AtomicWriteFile \/ Killed
  BY <1>9 DEF BuildObservations, AtomicWriteFile, Killed
<1> QED
  BY <1>1, <1>2, <1>3, <1>4, <1>5, <1>6, <1>7, <1>8, <1>9, StepKinds

\* The clock runs to the end of the polls, or of the fault, and never back.
LEMMA TimeStep ==
  ASSUME TypeOK, TimeInv, [Next]_vars
  PROVE  TimeType' /\ TimeInv' /\ now' >= now
<1>0. /\ scenario' = scenario /\ scenario.duration \in Nat /\ now \in Nat /\ revertAt \in Nat
      /\ now =< PollEnd + scenario.duration /\ revertAt =< PollEnd + scenario.duration /\ PollEnd = 8
  <2>1. MainType /\ TimeType
    BY TypeParts
  <2>2. scenario' = scenario
    BY MainStep
  <2>3. scenario.duration \in Nat
    BY <2>1, ScenarioFacts DEF MainType
  <2> QED
    BY <2>1, <2>2, <2>3 DEF TimeType, PollEnd
<1>1. CASE UNCHANGED <<now, revertAt>>
  BY <1>0, <1>1, Phases DEF TimeType, TimeInv
<1>2. CASE Tick
  <2>1. now' = now + 1 /\ (now < PollEnd \/ now < revertAt) /\ revertAt' = revertAt /\ pc' = pc
    BY <1>2 DEF Tick, reverting, main
  <2> QED
    BY <1>0, <2>1 DEF TimeType, TimeInv
<1>3. CASE Launch
  <2>1. now' = now /\ revertAt' = now + scenario.duration /\ pc' \in {"cleanup", "polls"} /\ pc = "launch"
    BY <1>3 DEF Launch, Goes, Returns
  <2>2. now =< PollEnd
    BY <1>0, <2>1 DEF TimeInv, Untimed
  <2>3. pc' \notin Untimed
    BY <2>1 DEF Untimed, Early
  <2> QED
    BY <1>0, <2>1, <2>2, <2>3 DEF TimeType, TimeInv
<1>4. Interrupt \/ BeforeFault \/ StartObservers \/ ApplyCommand \/ Unapply \/ TimerFires \/ TaskStep \/ ObserverStep
      \/ Collects \/ BuildObservations \/ AtomicWriteFile \/ Killed \/ UNCHANGED vars => UNCHANGED <<now, revertAt>>
  BY DEF Interrupt, BeforeFault, before, StartObservers, ApplyCommand, Unapply, TimerFires, TaskStep, ObserverStep, around,
     Collects, collecting, BuildObservations, AtomicWriteFile, Killed, vars, reverting
<1>5. ASSUME NEW who \in Whos, Lock(who) \/ RevertCommand(who) \/ Unlock(who)
      PROVE  UNCHANGED <<now, revertAt>>
  BY <1>5 DEF Lock, RevertCommand, Unlock, Finishes, reverting
<1> QED
  BY <1>1, <1>2, <1>3, <1>4, <1>5, StepKinds

-----------------------------------------------------------------------------
(* The fault: Apply, its own clean-up, and the revert.                      *)

\* What undoing a command does to the devnet.
LEMMA UndoFacts ==
  ASSUME NEW c, NEW end, Undoes(c, end)
  PROVE  placed' \subseteq placed /\ (end # "error" => placed' = placed \ {c}) /\ (end = "error" => placed' = placed)
  BY DEF Undoes

\* The state of the fault keeps its types.
LEMMA DevnetStep ==
  ASSUME TypeOK, ApplyInv, [Next]_vars
  PROVE  DevnetType' /\ FlagType' /\ TimerType'
<1>0. DevnetType /\ FlagType /\ TimerType /\ MainType
  BY TypeParts
<1>1. CASE Elsewhere
  BY <1>0, <1>1, DevnetFrame DEF devnet, reverting, DevnetType, FlagType, TimerType
<1>2. CASE ApplyCommand
  <2>1. pc = "apply" /\ step \in Nat /\ step < Len(ApplyCommands(scenario)) /\ scenario \in Scenarios
    BY <1>0, <1>2 DEF ApplyCommand, ApplyInv, DevnetType, MainType
  <2>2. step + 1 \in 0 .. 3 /\ CleanupOnError(scenario, step + 1) \in Todos
    BY <2>1, ApplyFacts, CleanupFacts
  <2>3. step' \in {step, step + 1} /\ todo' \in {todo, CleanupOnError(scenario, step + 1)} /\ mu' = mu
        /\ placed' \subseteq placed \cup {"limit", "helper"}
    BY <1>2 DEF ApplyCommand, Places
  <2>4. DevnetType'
    BY <1>0, <2>2, <2>3 DEF DevnetType
  <2>5. lost' \in BOOLEAN
    <3>1. lost' = lost \/ lost' = (lost \/ Cancelled)
      BY <1>2 DEF ApplyCommand
    <3> QED
      BY <1>0, <3>1 DEF FlagType
  <2> QED
    BY <1>0, <1>2, <2>4, <2>5 DEF ApplyCommand, FlagType, TimerType, reverting
<1>3. CASE Unapply
  <2>1. placed' \subseteq placed /\ todo' \in {todo, Tail(todo)} /\ (todo' # todo => todo # <<>>) /\ UNCHANGED <<step, mu>>
    BY <1>3, UndoFacts DEF Unapply
  <2>2. DevnetType'
    <3>1. todo \in Todos /\ (todo # <<>> => Tail(todo) \in Todos)
      BY <1>0, TodoTail DEF DevnetType
    <3>2. todo' \in Todos
      <4>1. CASE todo' = todo
        BY <3>1, <4>1
      <4>2. CASE todo' # todo
        BY <2>1, <3>1, <4>2, Zenon
      <4> QED
        BY <4>1, <4>2
    <3> QED
      BY <1>0, <2>1, <3>2 DEF DevnetType
  <2>3. failed' \in BOOLEAN /\ lost' \in BOOLEAN
    <3>1. CASE todo = <<>>
      BY <1>0, <1>3, <3>1 DEF Unapply, FlagType
    <3>2. CASE todo # <<>>
      <4>1. PICK end : failed' = (failed \/ (end = "error" /\ Head(todo) \in placed /\ ~Cancelled)
                                         \/ (end = "error" /\ Head(todo) = "limit"))
        BY <1>3, <3>2 DEF Unapply
      <4>2. lost' = (lost \/ Cancelled)
        BY <1>3, <3>2 DEF Unapply
      <4> QED
        BY <1>0, <4>1, <4>2 DEF FlagType
    <3> QED
      BY <3>1, <3>2
  <2> QED
    BY <1>0, <1>3, <2>2, <2>3 DEF Unapply, FlagType, TimerType, reverting
<1>4. ASSUME NEW who \in Whos, Lock(who)
      PROVE  DevnetType' /\ FlagType' /\ TimerType'
  <2>1. RevertCommands(scenario) \in Todos
    BY <1>0, RevertFacts DEF MainType
  <2>2. DevnetType'
    BY <1>0, <1>4, <2>1 DEF Lock, DevnetType, Whos
  <2>3. FlagType'
    BY <1>0, <1>4 DEF Lock, FlagType
  <2>4. TimerType'
    BY <1>0, <1>4 DEF Lock, Finishes, TimerType, reverting
  <2> QED
    BY <2>2, <2>3, <2>4
<1>5. ASSUME NEW who \in Whos, RevertCommand(who)
      PROVE  DevnetType' /\ FlagType' /\ TimerType'
  <2>1. PICK end : /\ Undoes(Head(todo), end)
                   /\ bad' = (bad \/ end # "ok")
                   /\ failed' = IF who = "cleanup" THEN failed \/ (end = "error" /\ Head(todo) \in placed) ELSE failed
                   /\ todo' = Tail(todo)
    BY <1>5 DEF RevertCommand
  <2>2. todo # <<>> /\ UNCHANGED <<step, mu, reverted, lost, timer, revertDone>>
    BY <1>5 DEF RevertCommand, reverting
  <2>3. DevnetType'
    BY <1>0, <2>1, <2>2, UndoFacts, TodoFacts DEF DevnetType
  <2>4. bad' \in BOOLEAN
    BY <1>0, <2>1 DEF FlagType
  <2>5. failed' \in BOOLEAN
    BY <1>0, <2>1 DEF FlagType
  <2> QED
    BY <1>0, <2>2, <2>3, <2>4, <2>5 DEF FlagType, TimerType
<1>6. ASSUME NEW who \in Whos, Unlock(who)
      PROVE  DevnetType' /\ FlagType' /\ TimerType'
  <2>1. DevnetType'
    BY <1>0, <1>6 DEF Unlock, DevnetType
  <2>2. FlagType'
    BY <1>0, <1>6 DEF Unlock, FlagType
  <2>3. TimerType'
    BY <1>0, <1>6 DEF Unlock, Finishes, TimerType, reverting
  <2> QED
    BY <2>1, <2>2, <2>3
<1>7. CASE TimerFires
  BY <1>0, <1>7 DEF TimerFires, devnet, DevnetType, FlagType, TimerType
<1>8. CASE Launch
  BY <1>0, <1>8 DEF Launch, devnet, DevnetType, FlagType, TimerType
<1> QED
  BY <1>1, <1>2, <1>3, <1>4, <1>5, <1>6, <1>7, <1>8, StepKinds DEF Elsewhere

\* Apply knows what it has put in place, and undoes it when it fails.
LEMMA ApplyStep ==
  ASSUME TypeOK, ApplyInv, LockInv, [Next]_vars
  PROVE  ApplyInv'
<1>0. /\ DevnetType /\ FlagType /\ MainType /\ scenario' = scenario /\ scenario \in Scenarios /\ step \in Nat
  BY TypeParts, MainStep DEF MainType, DevnetType
<1>a. pc \in Untimed => mu = "free" /\ timer = "off"
  BY DEF LockInv
<1>b. {"apply", "unapply"} \subseteq Untimed /\ Early \subseteq Untimed /\ "apply" \notin Early /\ "unapply" \notin Early
      /\ "observe" \in Early
  BY DEF Untimed, Early
<1>1. CASE Elsewhere
  <2>1. UNCHANGED <<step, placed, todo, failed, lost>>
    BY <1>1, DevnetFrame DEF devnet
  <2>2. pc' = "apply" => pc = "apply" \/ pc = "observe"
    BY <1>1, <1>b, DevnetFrame DEF Reverted
  <2>3. pc' = "unapply" => pc = "unapply"
    BY <1>1, <1>b, DevnetFrame DEF Reverted
  <2>4. pc' \in Early => pc \in Early
    BY Phases
  <2>5. ASSUME pc = "observe" PROVE step < Len(ApplyCommands(scenario)) /\ placed = {} /\ step = 0
    <3>1. step = 0 /\ placed = {}
      BY <1>b, <2>5 DEF ApplyInv
    <3>2. 0 < Len(ApplyCommands(scenario))
      BY DEF ApplyCommands
    <3> QED
      BY <3>1, <3>2
  <2> QED
    BY <1>0, <2>1, <2>2, <2>3, <2>4, <2>5 DEF ApplyInv
<1>2. CASE ApplyCommand
  <2> DEFINE c == ApplyCommands(scenario)[step + 1]
  <2>1. pc = "apply" /\ step < Len(ApplyCommands(scenario))
    BY <1>2 DEF ApplyCommand, ApplyInv
  <2>2. /\ step = 0 => c = "limit"
        /\ c = "helper" => step = 1 /\ scenario.load
        /\ step + 1 \in 1 .. 3
    BY <1>0, <2>1, ApplyFacts
  <2>3. /\ step = 0 => placed = {}
        /\ "helper" \in placed => step = 2 /\ scenario.load
        /\ placed \subseteq {"limit", "helper"}
    BY <1>0, <2>1 DEF ApplyInv, DevnetType
  <2>4. PICK end \in Ends(c) :
          /\ placed' = placed \union Places(c, end)
          /\ IF end = "ok"
             THEN /\ step' = step + 1
                  /\ pc' = (IF step + 1 = Len(ApplyCommands(scenario)) THEN "launch" ELSE "apply")
             ELSE /\ todo' = CleanupOnError(scenario, step + 1)
                  /\ lost' = (lost \/ Cancelled)
                  /\ pc' = "unapply"
    BY <1>2 DEF ApplyCommand, Goes
  <2>5. Len(ApplyCommands(scenario)) \in {1, 3}
    BY DEF ApplyCommands
  <2>6. Places(c, end) \subseteq {c} \cap {"limit", "helper"}
    BY DEF Places
  <2>7. "helper" \in placed' => scenario.load
    BY <2>2, <2>3, <2>4, <2>6
  <2>8. pc' \notin Early
    BY <2>4 DEF Early
  <2>9. CASE end = "ok"
    <3>1. pc' = "apply" => step' < Len(ApplyCommands(scenario))
      BY <1>0, <2>1, <2>4, <2>5, <2>9
    <3>2. step' # 0 /\ pc' # "unapply" /\ step' = step + 1
      BY <1>0, <2>4, <2>9
    <3>3. pc' = "apply" /\ "helper" \in placed' => step' = 2
      <4>1. "helper" \in placed' => "helper" \in placed \/ c = "helper"
        BY <2>4, <2>6
      <4>2. c = "helper" => step' = 2
        BY <2>2, <3>2
      <4>3. "helper" \in placed => step' = 3
        BY <2>3, <3>2
      <4>4. pc' = "apply" => step' < 3
        <5> DEFINE n == Len(ApplyCommands(scenario))
        <5>1. n \in {1, 3} /\ (pc' = "apply" => step' < n) /\ step' \in Nat
          BY <1>0, <2>5, <3>1, <3>2
        <5> HIDE DEF n
        <5> QED
          BY <5>1
      <4> QED
        BY <4>1, <4>2, <4>3, <4>4
    <3> HIDE DEF c
    <3> QED
      BY <1>0, <2>7, <2>8, <3>1, <3>2, <3>3 DEF ApplyInv
  <2>10. CASE end # "ok"
    <3>1. pc' = "unapply" /\ todo' = CleanupOnError(scenario, step + 1) /\ lost' = (lost \/ Cancelled)
      BY <2>4, <2>10
    <3>2. CASE end = "killed"
      <4>1. Cancelled
        BY <2>4, <3>2 DEF Ends
      <4> QED
        BY <1>0, <2>7, <2>8, <3>1, <4>1 DEF ApplyInv
    <3>3. CASE end = "error"
      <4>1. placed' = placed
        BY <2>4, <3>3 DEF Places
      <4>2. placed \subseteq Left(CleanupOnError(scenario, step + 1))
        <5>1. /\ step > 0 => "limit" \in Left(CleanupOnError(scenario, step + 1))
              /\ step = 2 /\ scenario.load => "helper" \in Left(CleanupOnError(scenario, step + 1))
          BY <1>0, <2>1, CleanupFacts
        <5>2. step = 0 \/ step > 0
          BY <1>0
        <5> QED
          BY <2>3, <5>1, <5>2
      <4> QED
        BY <1>0, <2>7, <2>8, <3>1, <4>1, <4>2 DEF ApplyInv
    <3> QED
      BY <2>4, <2>10, <3>2, <3>3 DEF Ends
  <2> QED
    BY <2>9, <2>10
<1>3. CASE Unapply
  <2>1. pc = "unapply" /\ (placed \subseteq Left(todo) \/ failed \/ lost) /\ ("helper" \in placed => scenario.load)
    BY <1>3 DEF Unapply, ApplyInv
  <2>2. CASE todo = <<>>
    BY <1>0, <1>3, <2>1, <2>2 DEF Unapply, Returns, ApplyInv, Early
  <2>3. CASE todo # <<>>
    <3>1. PICK end \in {"ok", "error"} :
            /\ Undoes(Head(todo), end)
            /\ failed' = (failed \/ (end = "error" /\ Head(todo) \in placed /\ ~Cancelled)
                                 \/ (end = "error" /\ Head(todo) = "limit"))
      BY <1>3, <2>3 DEF Unapply
    <3>2. lost' = (lost \/ Cancelled) /\ todo' = Tail(todo) /\ pc' = "unapply"
      BY <1>3, <2>1, <2>3 DEF Unapply, main
    <3>3. placed' \subseteq placed /\ (end # "error" => placed' = placed \ {Head(todo)}) /\ (end = "error" => placed' = placed)
      BY <3>1, UndoFacts
    <3>4. Left(todo) = {Head(todo)} \cup Left(Tail(todo))
      BY <1>0, <2>3, TodoFacts DEF DevnetType
    <3>5. placed' \subseteq Left(todo') \/ failed' \/ lost'
      <4>1. CASE failed \/ lost
        BY <3>1, <3>2, <4>1
      <4>2. CASE end = "error" /\ placed \subseteq Left(todo)
        BY <3>1, <3>2, <3>3, <3>4, <4>2
      <4>3. CASE end # "error" /\ placed \subseteq Left(todo)
        BY <3>2, <3>3, <3>4, <4>3
      <4> QED
        BY <2>1, <4>1, <4>2, <4>3
    <3> QED
      BY <1>0, <1>b, <2>1, <3>2, <3>3, <3>5 DEF ApplyInv
  <2> QED
    BY <2>2, <2>3
<1>4. ASSUME pc' \notin Early \cup {"apply", "unapply"}, placed' \subseteq placed
      PROVE  ApplyInv'
  BY <1>0, <1>4 DEF ApplyInv
<1>5. ASSUME NEW who \in Whos, Lock(who) \/ RevertCommand(who) \/ Unlock(who)
      PROVE  ApplyInv'
  <2>1. pc \notin Untimed
    <3>1. mu # "free" \/ timer # "off" \/ pc = "cleanup"
      BY <1>5 DEF Lock, RevertCommand, Unlock, Wants, Whos
    <3> QED
      BY <1>a, <3>1 DEF Untimed, Early
  <2>2. pc' = pc \/ pc' = "stopNetwork"
    BY <1>5 DEF Lock, RevertCommand, Unlock, Finishes, Goes, main
  <2>3. placed' \subseteq placed
    BY <1>5, UndoFacts DEF Lock, RevertCommand, Unlock
  <2>4. pc' \notin Early \cup {"apply", "unapply"}
    BY <2>1, <2>2 DEF Untimed, Early
  <2> QED
    BY <1>4, <2>3, <2>4
<1>6. CASE TimerFires
  <2>1. timer # "off" /\ pc' = pc /\ placed' = placed
    BY <1>6 DEF TimerFires, main, devnet
  <2> QED
    BY <1>a, <1>b, <1>4, <2>1
<1>7. CASE Launch
  <2>1. pc' \in {"cleanup", "polls"} /\ placed' = placed
    BY <1>7 DEF Launch, Goes, Returns, devnet
  <2>2. pc' \notin Early \cup {"apply", "unapply"}
    BY <2>1 DEF Early
  <2> QED
    BY <1>4, <2>1, <2>2
<1> QED
  BY <1>1, <1>2, <1>3, <1>5, <1>6, <1>7, StepKinds DEF Elsewhere

\* Who reverts holds the lock; a revert that is marked, or that the timer reports
\* as done, has left nothing, and so has the clean-up unless it failed.
LEMMA LockStep ==
  ASSUME TypeOK, ApplyInv, LockInv, [Next]_vars
  PROVE  LockInv'
<1>0. /\ DevnetType /\ FlagType /\ TimerType /\ MainType /\ scenario' = scenario /\ scenario \in Scenarios
      /\ placed \subseteq {"limit", "helper"} /\ todo \in Todos
  BY TypeParts, MainStep DEF MainType, DevnetType
<1>a. pc \in Untimed => timer = "off" /\ mu = "free" /\ ~reverted /\ revertDone = "none"
  BY DEF LockInv
<1>b. /\ mu = "timer" => timer = "revert"
      /\ mu = "cleanup" => pc = "cleanup" /\ (placed \subseteq Left(todo) \/ failed)
      /\ mu # "free" /\ ~bad => placed \subseteq Left(todo)
      /\ reverted => placed = {}
      /\ revertDone = "ok" => timer = "done" /\ placed = {}
      /\ pc \in Leaving => placed = {} \/ failed \/ lost
  BY DEF LockInv
<1>c. {"apply", "unapply", "launch"} \subseteq Untimed /\ Early \subseteq Untimed
      /\ {"cleanup", "polls", "stopNetwork", "stopHead", "returned"} \cap Untimed = {}
  BY DEF Untimed, Early
<1>d. Left(<<>>) = {}
  BY TodoFacts
<1>1. CASE Elsewhere
  <2>1. UNCHANGED <<step, placed, todo, bad, mu, reverted, failed, lost, timer, revertDone>>
    BY <1>1, DevnetFrame DEF devnet, reverting
  <2>2. pc' \in Untimed => pc \in Untimed
    BY Phases
  <2>3. pc = "cleanup" => pc' = "cleanup"
    BY <1>1, <1>c, DevnetFrame DEF Reverted
  <2>4. pc' \in Leaving => pc \in Leaving \cup Early
    BY <1>1, DevnetFrame DEF Leaving, Reverted, Early
  <2>5. pc' \in Leaving => placed = {} \/ failed \/ lost
    BY <1>b, <2>4 DEF ApplyInv
  <2> QED
    BY <1>a, <1>b, <2>1, <2>2, <2>3, <2>5 DEF LockInv
<1>2. CASE ApplyCommand
  <2>1. pc = "apply" /\ pc' \in {"launch", "apply", "unapply"} /\ UNCHANGED <<mu, reverted, timer, revertDone>>
    BY <1>2 DEF ApplyCommand, Goes, reverting
  <2>2. timer = "off" /\ mu = "free" /\ ~reverted /\ revertDone = "none" /\ pc' \notin Leaving
    BY <1>a, <1>c, <2>1 DEF Leaving
  <2> QED
    BY <2>1, <2>2 DEF LockInv
<1>3. CASE Unapply
  <2>1. pc = "unapply" /\ UNCHANGED <<mu, reverted, timer, revertDone>>
    BY <1>3 DEF Unapply, reverting
  <2>2. timer = "off" /\ mu = "free" /\ ~reverted /\ revertDone = "none"
    BY <1>a, <1>c, <2>1
  <2>3. CASE todo = <<>>
    <3>1. pc' = "stopNetwork" /\ UNCHANGED <<placed, failed, lost>>
      BY <1>3, <2>3 DEF Unapply, Returns
    <3>2. placed = {} \/ failed \/ lost
      BY <1>d, <2>1, <2>3 DEF ApplyInv
    <3> QED
      BY <1>c, <2>1, <2>2, <3>1, <3>2 DEF LockInv
  <2>4. CASE todo # <<>>
    <3>1. pc' = "unapply"
      BY <1>3, <2>1, <2>4 DEF Unapply, main
    <3> QED
      BY <2>1, <2>2, <3>1 DEF LockInv, Leaving
  <2> QED
    BY <2>3, <2>4
<1>4. ASSUME NEW who \in Whos, Lock(who) \/ RevertCommand(who) \/ Unlock(who)
      PROVE  pc \notin Untimed /\ (who = "timer" => timer = "revert") /\ (who = "cleanup" => pc = "cleanup")
  BY <1>4, <1>a, <1>b, <1>c DEF Lock, RevertCommand, Unlock, Wants, Whos
<1>5. ASSUME NEW who \in Whos, Lock(who)
      PROVE  LockInv'
  <2>0. /\ mu = "free" /\ pc \notin Untimed /\ (who = "timer" => timer = "revert") /\ (who = "cleanup" => pc = "cleanup")
        /\ UNCHANGED <<placed, reverted, failed, lost>>
    BY <1>4, <1>5 DEF Lock
  <2>1. CASE reverted /\ who = "timer"
    <3>1. timer' = "done" /\ revertDone' = "ok" /\ UNCHANGED <<pc, mu>>
      BY <1>5, <2>1 DEF Lock, Finishes, main
    <3> QED
      BY <1>b, <2>0, <2>1, <3>1 DEF LockInv
  <2>2. CASE reverted /\ who = "cleanup"
    <3>1. pc' = "stopNetwork" /\ UNCHANGED <<mu, timer, revertDone>>
      BY <1>5, <2>2 DEF Lock, Finishes, Goes, reverting
    <3> QED
      BY <1>b, <1>c, <2>0, <2>2, <3>1 DEF LockInv
  <2>3. CASE ~reverted
    <3>1. mu' = who /\ todo' = RevertCommands(scenario) /\ bad' = FALSE /\ UNCHANGED <<pc, timer, revertDone>>
      BY <1>5, <2>3 DEF Lock, main, reverting
    <3>2. placed \subseteq Left(RevertCommands(scenario))
      <4>1. "limit" \in Left(RevertCommands(scenario)) /\ (scenario.load => "helper" \in Left(RevertCommands(scenario)))
        BY <1>0, RevertFacts
      <4>2. "helper" \in placed => scenario.load
        BY DEF ApplyInv
      <4> QED
        BY <1>0, <4>1, <4>2
    <3> QED
      BY <1>b, <2>0, <2>3, <3>1, <3>2 DEF LockInv, Whos
  <2> QED
    BY <2>1, <2>2, <2>3 DEF Whos
<1>6. ASSUME NEW who \in Whos, RevertCommand(who)
      PROVE  LockInv'
  <2>0. /\ mu = who /\ todo # <<>> /\ pc \notin Untimed
        /\ UNCHANGED <<pc, mu, reverted, lost, timer, revertDone>>
    BY <1>4, <1>6 DEF RevertCommand, main, reverting
  <2>1. PICK end \in {"ok", "error", "killed"} :
                   /\ Undoes(Head(todo), end)
                   /\ bad' = (bad \/ end # "ok")
                   /\ failed' = IF who = "cleanup" THEN failed \/ (end = "error" /\ Head(todo) \in placed) ELSE failed
                   /\ todo' = Tail(todo)
    BY <1>6 DEF RevertCommand, Ends
  <2>2. placed' \subseteq placed /\ (end # "error" => placed' = placed \ {Head(todo)}) /\ (end = "error" => placed' = placed)
    BY <2>1, UndoFacts
  <2>3. Left(todo) = {Head(todo)} \cup Left(todo')
    BY <1>0, <2>0, <2>1, TodoTail
  <2>4. mu = "cleanup" => placed' \subseteq Left(todo') \/ failed'
    <3> SUFFICES ASSUME mu = "cleanup" PROVE placed' \subseteq Left(todo') \/ failed'
      OBVIOUS
    <3>1. failed' = (failed \/ (end = "error" /\ Head(todo) \in placed))
      BY <2>0, <2>1
    <3>2. placed \subseteq Left(todo) \/ failed
      BY <1>b
    <3>3. CASE end = "error"
      BY <2>2, <2>3, <3>1, <3>2, <3>3
    <3>4. CASE end # "error"
      BY <2>2, <2>3, <3>1, <3>2, <3>4
    <3> QED
      BY <3>3, <3>4
  <2>5. ~bad' => placed' \subseteq Left(todo')
    <3> SUFFICES ASSUME ~bad' PROVE placed' \subseteq Left(todo')
      OBVIOUS
    <3>1. ~bad /\ end = "ok"
      BY <2>1
    <3>2. placed \subseteq Left(todo)
      BY <1>b, <2>0, <3>1 DEF Whos
    <3> QED
      BY <2>2, <2>3, <3>1, <3>2
  <2>6. failed => failed'
    BY <2>1
  <2>7. mu = "cleanup" => pc = "cleanup"
    BY <1>b
  <2> QED
    BY <1>b, <2>0, <2>2, <2>4, <2>5, <2>6, <2>7 DEF LockInv
<1>7. ASSUME NEW who \in Whos, Unlock(who)
      PROVE  LockInv'
  <2>0. /\ mu = who /\ todo = <<>> /\ pc \notin Untimed /\ reverted' = ~bad /\ mu' = "free"
        /\ UNCHANGED <<placed, failed, lost>>
    BY <1>4, <1>7 DEF Unlock
  <2>1. ~bad => placed = {}
    BY <1>b, <1>d, <2>0 DEF Whos
  <2>2. reverted' => placed = {}
    BY <2>0, <2>1
  <2>3. CASE who = "timer"
    <3>1. timer' = "done" /\ revertDone' = (IF ~bad THEN "ok" ELSE "error") /\ UNCHANGED pc
      BY <1>7, <2>3 DEF Unlock, Finishes, main
    <3>2. revertDone' = "ok" => placed = {}
      BY <2>1, <3>1
    <3> QED
      BY <1>b, <2>0, <2>2, <3>1, <3>2 DEF LockInv
  <2>4. CASE who = "cleanup"
    <3>1. pc' = "stopNetwork" /\ UNCHANGED <<timer, revertDone>>
      BY <1>7, <2>4 DEF Unlock, Finishes, Goes, reverting
    <3>2. placed = {} \/ failed
      BY <1>b, <1>d, <2>0, <2>4
    <3> QED
      BY <1>b, <1>c, <2>0, <2>2, <3>1, <3>2 DEF LockInv
  <2> QED
    BY <2>3, <2>4 DEF Whos
<1>8. CASE TimerFires
  <2>1. /\ timer = "wait" /\ UNCHANGED <<pc, placed, todo, bad, mu, reverted, failed, lost>>
        /\ revertDone' \in {"error", revertDone} /\ (revertDone' = "ok" => revertDone = "ok")
    BY <1>8 DEF TimerFires, main, devnet
  <2>2. revertDone # "ok" /\ mu # "timer" /\ pc \notin Untimed
    BY <1>a, <1>b, <2>1
  <2> QED
    BY <1>b, <2>1, <2>2 DEF LockInv
<1>9. CASE Launch
  <2>1. pc = "launch" /\ pc' \in {"cleanup", "polls"} /\ UNCHANGED <<placed, mu, reverted, failed, lost, revertDone>>
    BY <1>9 DEF Launch, Goes, Returns, devnet
  <2>2. mu = "free" /\ ~reverted /\ revertDone = "none" /\ pc' \notin Untimed /\ pc' \notin Leaving
    BY <1>a, <1>c, <2>1 DEF Leaving
  <2> QED
    BY <2>1, <2>2 DEF LockInv
<1> QED
  BY <1>1, <1>2, <1>3, <1>5, <1>6, <1>7, <1>8, <1>9, StepKinds DEF Elsewhere

-----------------------------------------------------------------------------
(* The record.                                                              *)

Dirs == [obs : 0 .. Run, samples : 0 .. Run, readme : 0 .. Run, manifest : Manifests]

\* What earlier runs leave behind is of them, and whole if it is accepted.
LEMMA LeftFacts ==
  ASSUME NEW d \in LeftBehind
  PROVE  /\ d \in Dirs /\ d.obs # Run /\ d.samples # Run /\ d.readme # Run /\ d.manifest.run # Run
         /\ d.manifest.obs # Run
         /\ ValidateScenario(d) => d.obs = d.manifest.run /\ d.readme = d.manifest.run /\ d.samples \in {0, d.manifest.run}
<1> USE DEF Run
<1>1. CASE d = EmptyDir
  BY <1>1 DEF EmptyDir, NoManifest, Dirs, Manifests, Labels, ValidateScenario, ValidateManifest, ValidateObservations
<1>2. CASE d = [EmptyDir EXCEPT !.obs = 1, !.samples = 1]
  <2>1. d = [obs |-> 1, samples |-> 1, readme |-> 0, manifest |-> NoManifest]
    BY <1>2 DEF EmptyDir
  <2> QED
    BY <2>1 DEF NoManifest, Dirs, Manifests, Labels, ValidateScenario, ValidateManifest, ValidateObservations
<1>3. ASSUME NEW s \in BOOLEAN,
             d = [obs |-> 1, samples |-> IF s THEN 1 ELSE 0, readme |-> 1, manifest |-> Manifest(1, s, "known")]
      PROVE  /\ d \in Dirs /\ d.obs # Run /\ d.samples # Run /\ d.readme # Run /\ d.manifest.run # Run
             /\ d.manifest.obs # Run
             /\ ValidateScenario(d) => d.obs = d.manifest.run /\ d.readme = d.manifest.run /\ d.samples \in {0, d.manifest.run}
  BY <1>3 DEF Manifest, Dirs, Manifests, Labels, ValidateScenario, ValidateManifest, ValidateObservations
<1>4. ASSUME NEW n \in {1, 2},
             d = [obs |-> 2, samples |-> n, readme |-> n, manifest |-> Manifest(1, TRUE, "known")]
      PROVE  /\ d \in Dirs /\ d.obs # Run /\ d.samples # Run /\ d.readme # Run /\ d.manifest.run # Run
             /\ d.manifest.obs # Run
             /\ ValidateScenario(d) => d.obs = d.manifest.run /\ d.readme = d.manifest.run /\ d.samples \in {0, d.manifest.run}
  BY <1>4 DEF Manifest, Dirs, Manifests, Labels, ValidateScenario, ValidateManifest, ValidateObservations
<1> QED
  BY <1>1, <1>2, <1>3, <1>4 DEF LeftBehind

\* How many files of this run there are, by the last one written.
LEMMA WrittenFacts ==
  ASSUME NEW d \in LeftBehind, NEW f \in Unpublished, UpTo(d, f), dir \in Dirs
  PROVE  /\ f = "none" => Cardinality(Written(dir)) = 0 /\ Written(dir) = {}
         /\ f = "obs" => Cardinality(Written(dir)) = 1
         /\ f = "samples" => Cardinality(Written(dir)) = 2 /\ scenario.samples
         /\ f = "readme" => Cardinality(Written(dir)) = IF scenario.samples THEN 3 ELSE 2
<1>0. /\ d.obs # Run /\ d.samples # Run /\ d.readme # Run /\ d.manifest.run # Run
  BY LeftFacts
<1>1. dir.manifest.run # Run /\ f \in {"none", "obs", "samples", "readme"} /\ (f = "samples" => scenario.samples)
  BY <1>0 DEF UpTo, Unpublished
<1>2. /\ "obs" \in Written(dir) <=> dir.obs = Run
      /\ "samples" \in Written(dir) <=> dir.samples = Run
      /\ "readme" \in Written(dir) <=> dir.readme = Run
      /\ Written(dir) \subseteq {"obs", "samples", "readme"}
  BY <1>1 DEF Written
<1>3. /\ IsFiniteSet({}) /\ Cardinality({}) = 0
      /\ IsFiniteSet({"obs"}) /\ Cardinality({"obs"}) = 1
      /\ IsFiniteSet({"obs"} \cup {"samples"}) /\ Cardinality({"obs"} \cup {"samples"}) = 2
      /\ Cardinality({"obs"} \cup {"readme"}) = 2
      /\ Cardinality(({"obs"} \cup {"samples"}) \cup {"readme"}) = 3
  <2>1. IsFiniteSet({}) /\ Cardinality({}) = 0
    BY FS_EmptySet
  <2>2. IsFiniteSet({"obs"}) /\ Cardinality({"obs"}) = 1
    BY FS_Singleton
  <2>3. IsFiniteSet({"obs"} \cup {"samples"}) /\ Cardinality({"obs"} \cup {"samples"}) = 1 + 1
    BY <2>2, FS_AddElement
  <2>4. Cardinality({"obs"} \cup {"readme"}) = 1 + 1
    BY <2>2, FS_AddElement
  <2>5. Cardinality(({"obs"} \cup {"samples"}) \cup {"readme"}) = 2 + 1
    <3>1. "readme" \notin {"obs"} \cup {"samples"}
      OBVIOUS
    <3>2. Cardinality({"obs"} \cup {"samples"}) = 2
      BY <2>3
    <3> QED
      BY <2>3, <3>1, <3>2, FS_AddElement
  <2> QED
    BY <2>1, <2>2, <2>3, <2>4, <2>5
<1>4. CASE f = "none"
  <2>1. Written(dir) = {}
    BY <1>0, <1>2, <1>4 DEF UpTo
  <2> QED
    BY <1>3, <1>4, <2>1
<1>5. CASE f = "obs"
  <2>1. Written(dir) = {"obs"}
    BY <1>0, <1>2, <1>5 DEF UpTo
  <2> QED
    BY <1>3, <1>5, <2>1
<1>6. CASE f = "samples"
  <2>1. Written(dir) = {"obs"} \cup {"samples"}
    BY <1>0, <1>2, <1>6 DEF UpTo
  <2> QED
    BY <1>1, <1>3, <1>6, <2>1
<1>7. CASE f = "readme"
  <2>1. scenario.samples => Written(dir) = ({"obs"} \cup {"samples"}) \cup {"readme"}
    BY <1>0, <1>2, <1>7 DEF UpTo
  <2>2. ~scenario.samples => Written(dir) = {"obs"} \cup {"readme"}
    BY <1>0, <1>2, <1>7 DEF UpTo
  <2> QED
    BY <1>3, <1>7, <2>1, <2>2
<1> QED
  BY <1>1, <1>4, <1>5, <1>6, <1>7

\* The manifest of this run pins its own files.
LEMMA ManifestFacts ==
  ASSUME TypeOK
  PROVE  /\ NewManifest \in Manifests /\ NewManifest.run = Run /\ NewManifest.obs = Run
         /\ NewManifest.samples = IF scenario.samples THEN Run ELSE 0
         /\ NewManifest.label = scenario.label
<1> DEFINE n == IF scenario.samples THEN Run ELSE 0
<1>1. n \in 0 .. Run
  BY DEF Run
<1>2. NewManifest = [run |-> Run, obs |-> Run, samples |-> n, label |-> scenario.label]
  BY DEF NewManifest, Manifest
<1> HIDE DEF n
<1>3. Run \in 0 .. Run
  BY DEF Run
<1>4. scenario.label \in Labels
  BY TypeParts, InjectorConstants DEF MainType, Validate, Scenario
<1>5. NewManifest \in Manifests
  BY <1>1, <1>2, <1>3, <1>4 DEF Manifests
<1> QED
  BY <1>2, <1>5 DEF n

\* Who touches the directory, and how the main goroutine comes to write.
LEMMA DirFrame ==
  ASSUME TypeOK, [Next]_vars
  PROVE  \/ BuildObservations \/ AtomicWriteFile
         \/ UNCHANGED dir /\ (pc' \in {"write", "label"} => pc' = pc)
<1> USE DEF Goes, Returns, main, recorded
<1>1. Tick \/ Interrupt \/ TaskStep \/ ObserverStep \/ TimerFires \/ UNCHANGED vars => UNCHANGED <<dir, pc>>
  BY DEF Tick, Interrupt, TaskStep, ObserverStep, around, TimerFires, vars
<1>2. BeforeFault => UNCHANGED dir /\ pc' \notin {"write", "label"}
  BY DEF BeforeFault, before, Early
<1>3. StartObservers => UNCHANGED dir /\ pc' \notin {"write", "label"}
  BY DEF StartObservers
<1>4. Launch => UNCHANGED dir /\ pc' \notin {"write", "label"}
  BY DEF Launch
<1>5. ApplyCommand => UNCHANGED dir /\ pc' \notin {"write", "label"}
  BY DEF ApplyCommand
<1>6. Unapply => UNCHANGED dir /\ (pc' = pc \/ pc' = "stopNetwork")
  BY DEF Unapply
<1>7. ASSUME NEW who \in Whos, Lock(who) \/ RevertCommand(who) \/ Unlock(who)
      PROVE  UNCHANGED dir /\ (pc' = pc \/ pc' = "stopNetwork")
  BY <1>7 DEF Lock, RevertCommand, Unlock, Finishes
<1>8. Collects => UNCHANGED dir /\ pc' \notin {"write", "label"}
  BY DEF Collects, collecting, Reverted
<1>9. Killed => UNCHANGED dir /\ pc' = "killed"
  BY DEF Killed
<1> QED
  BY <1>1, <1>2, <1>3, <1>4, <1>5, <1>6, <1>7, <1>8, <1>9, StepKinds

\* The files of a record appear in their order, over what earlier runs have left.
LEMMA DirStep ==
  ASSUME TypeOK, DirInv, [Next]_vars
  PROVE  DirType' /\ DirInv'
<1>0. dir \in Dirs /\ scenario' = scenario
  BY TypeParts, MainStep DEF DirType, Dirs
<1>a. Unpublished' = Unpublished /\ NewManifest' = NewManifest
  BY <1>0 DEF Unpublished, NewManifest
<1>1. CASE UNCHANGED dir /\ (pc' \in {"write", "label"} => pc' = pc)
  <2>1. PICK d \in LeftBehind, f \in Unpublished \cup {"manifest"} : UpTo(d, f) /\ (pc = "write" => f # "manifest")
    BY DEF DirInv
  <2>2. UpTo(d, f)' /\ (pc' = "write" => f # "manifest")
    BY <1>0, <1>1, <1>a, <2>1 DEF UpTo
  <2> QED
    BY <1>0, <1>1, <1>a, <2>1, <2>2 DEF DirInv, DirType, Dirs
<1>2. CASE BuildObservations
  <2>1. CASE UNCHANGED dir /\ pc' = "cleanup"
    BY <1>1, <2>1
  <2>2. ASSUME NEW d \in LeftBehind, dir' = d PROVE DirType' /\ DirInv'
    <3>1. dir' \in Dirs
      BY <2>2, LeftFacts
    <3>2. UpTo(d, "none")'
      BY <2>2 DEF UpTo
    <3>3. "none" \in Unpublished' \cup {"manifest"}
      BY DEF Unpublished
    <3>4. DirInv'
      BY <3>2, <3>3 DEF DirInv
    <3> QED
      BY <3>1, <3>4 DEF DirType, Dirs
  <2> QED
    BY <1>2, <2>1, <2>2 DEF BuildObservations, Goes, Returns
<1>3. CASE AtomicWriteFile
  <2>1. CASE UNCHANGED dir /\ pc' = "cleanup"
    BY <1>1, <2>1
  <2> DEFINE n == Cardinality(Written(dir)) + 1
  <2>2. ASSUME NEW g, g = FileOrder[n],
               dir' = [dir EXCEPT ![g] = IF g = "manifest" THEN NewManifest ELSE Run],
               pc' = IF n = Len(FileOrder) THEN "label" ELSE "write"
        PROVE  DirType' /\ DirInv'
    <3>1. PICK d \in LeftBehind, f \in Unpublished : UpTo(d, f)
      BY <1>3 DEF DirInv, AtomicWriteFile
    <3>2. /\ f = "none" => n = 1
          /\ f = "obs" => n = 2
          /\ f = "samples" => n = 3 /\ scenario.samples
          /\ f = "readme" => n = IF scenario.samples THEN 4 ELSE 3
          /\ f \in {"none", "obs", "samples", "readme"}
      <4>1. f \in {"none", "obs", "samples", "readme"}
        BY DEF Unpublished
      <4> QED
        BY <1>0, <3>1, <4>1, WrittenFacts
    <3> HIDE DEF n
    <3>3. /\ f = "none" => g = "obs" /\ n # Len(FileOrder)
          /\ f = "obs" => g = (IF scenario.samples THEN "samples" ELSE "readme") /\ n # Len(FileOrder)
          /\ f = "samples" => g = "readme" /\ n # Len(FileOrder)
          /\ f = "readme" => g = "manifest" /\ n = Len(FileOrder)
      BY <2>2, <3>2 DEF FileOrder
    <3>4. g \in Unpublished \cup {"manifest"} /\ g # "none" /\ (pc' = "write" => g # "manifest")
      BY <2>2, <3>2, <3>3 DEF Unpublished
    <3>5. /\ dir'.obs = (IF g = "obs" THEN Run ELSE dir.obs)
          /\ dir'.samples = (IF g = "samples" THEN Run ELSE dir.samples)
          /\ dir'.readme = (IF g = "readme" THEN Run ELSE dir.readme)
          /\ dir'.manifest = (IF g = "manifest" THEN NewManifest ELSE dir.manifest)
          /\ dir' \in Dirs
      <4>1. Run \in 0 .. Run /\ NewManifest \in Manifests
        BY ManifestFacts DEF Run
      <4>2. g \in {"obs", "samples", "readme", "manifest"}
        BY <3>4 DEF Unpublished
      <4>3. CASE g = "obs"
        BY <1>0, <2>2, <4>1, <4>3 DEF Dirs
      <4>4. CASE g = "samples"
        BY <1>0, <2>2, <4>1, <4>4 DEF Dirs
      <4>5. CASE g = "readme"
        BY <1>0, <2>2, <4>1, <4>5 DEF Dirs
      <4>6. CASE g = "manifest"
        BY <1>0, <2>2, <4>1, <4>6 DEF Dirs
      <4> QED
        BY <4>2, <4>3, <4>4, <4>5, <4>6
    <3>6. UpTo(d, g)'
      <4>1. CASE g = "obs"
        BY <1>0, <1>a, <3>1, <3>2, <3>3, <3>5, <4>1 DEF UpTo
      <4>2. CASE g = "samples"
        BY <1>0, <1>a, <3>1, <3>2, <3>3, <3>5, <4>2 DEF UpTo
      <4>3. CASE g = "readme"
        BY <1>0, <1>a, <3>1, <3>2, <3>3, <3>5, <4>3 DEF UpTo
      <4>4. CASE g = "manifest"
        BY <1>0, <1>a, <3>1, <3>2, <3>3, <3>5, <4>4 DEF UpTo
      <4> QED
        BY <3>4, <4>1, <4>2, <4>3, <4>4 DEF Unpublished
    <3> QED
      BY <1>a, <3>4, <3>5, <3>6 DEF DirInv, DirType, Dirs
  <2> QED
    BY <1>3, <2>1, <2>2 DEF AtomicWriteFile, Goes, Returns
<1> QED
  BY <1>1, <1>2, <1>3, DirFrame

\* The revert that the timer reports stays reported.
LEMMA DoneStays ==
  ASSUME TypeOK, LockInv, [Next]_vars, revertDone = "ok"
  PROVE  revertDone' = "ok" /\ (pc' \in Reverted => pc \in Reverted \cup {"revert"})
<1> USE DEF Goes, Returns, main, reverting
<1>0. timer = "done" /\ pc \notin Untimed /\ mu # "timer"
  BY DEF LockInv
<1>1. CASE Elsewhere
  <2>1. revertDone' = revertDone
    BY <1>1, DevnetFrame
  <2>2. "polls" \notin Reverted /\ pc = "polls" => pc' \notin Reverted
    <3> SUFFICES ASSUME pc = "polls" PROVE pc' \notin Reverted
      OBVIOUS
    <3>1. Tick \/ Interrupt \/ TaskStep \/ ObserverStep \/ UNCHANGED vars => pc' = pc
      BY DEF Tick, Interrupt, TaskStep, ObserverStep, around, vars
    <3>2. Collects => pc' \in {"revert", "cleanup"}
      BY DEF Collects, Reverted
    <3>3. ~BeforeFault /\ ~StartObservers /\ ~BuildObservations /\ ~AtomicWriteFile /\ ~Killed
      BY DEF BeforeFault, Early, StartObservers, BuildObservations, AtomicWriteFile, Killed
    <3> QED
      BY <1>1, <3>1, <3>2, <3>3 DEF Elsewhere, Reverted
  <2>3. pc' \in Reverted => pc \in Reverted \cup {"revert", "polls"}
    BY <1>1, DevnetFrame DEF Reverted, Early
  <2> QED
    BY <2>1, <2>2, <2>3 DEF Reverted
<1>2. CASE ApplyCommand \/ Unapply \/ Launch
  BY <1>0, <1>2 DEF ApplyCommand, Unapply, Launch, Untimed
<1>3. ASSUME NEW who \in Whos, Lock(who) \/ RevertCommand(who) \/ Unlock(who)
      PROVE  revertDone' = "ok" /\ (pc' \in Reverted => pc \in Reverted)
  <2>1. CASE who = "timer"
    BY <1>0, <1>3, <2>1 DEF Lock, RevertCommand, Unlock, Wants
  <2>2. CASE who = "cleanup"
    BY <1>3, <2>2 DEF Lock, RevertCommand, Unlock, Finishes, Reverted
  <2> QED
    BY <2>1, <2>2 DEF Whos
<1>4. CASE TimerFires
  BY <1>0, <1>4 DEF TimerFires
<1> QED
  BY <1>1, <1>2, <1>3, <1>4, StepKinds DEF Elsewhere

\* The record follows the revert and the window.
LEMMA RecordStep ==
  ASSUME TypeOK, TimeInv, LockInv, RecordInv, DirInv, [Next]_vars
  PROVE  RecordInv'
<1>0. now' >= now /\ now \in Nat /\ now' \in Nat /\ WindowEnd \in Nat
  <2>1. scenario.duration \in Nat /\ scenario' = scenario
    BY TypeParts, MainStep, ScenarioFacts DEF MainType
  <2> QED
    BY <2>1, TimeStep, TypeParts DEF TimeType, WindowEnd, PollEnd
<1>1. pc' \in Reverted => revertDone' = "ok"
  <2> SUFFICES ASSUME pc' \in Reverted PROVE revertDone' = "ok"
    OBVIOUS
  <2>1. CASE revertDone = "ok"
    BY <2>1, DoneStays
  <2>2. CASE revertDone # "ok"
    <3>1. pc \notin Reverted
      BY <2>2 DEF RecordInv
    <3>2. CASE Elsewhere
      <4>1. pc \in {"polls", "revert"}
        BY <3>1, <3>2, DevnetFrame DEF Reverted, Early
      <4>2. Collects
        BY <3>1, <3>2, <4>1 DEF Elsewhere, Tick, Interrupt, TaskStep, ObserverStep, around, main, vars,
           BeforeFault, Early, StartObservers, BuildObservations, AtomicWriteFile, Killed
      <4>3. revertDone \notin {"none", "error"}
        BY <4>1, <4>2 DEF Collects, Reverted
      <4> QED
        BY <2>2, <4>3, TypeParts DEF TimerType
    <3>3. CASE ApplyCommand \/ Launch
      BY <3>3 DEF ApplyCommand, Launch, Goes, Returns, Reverted
    <3>4. CASE Unapply \/ TimerFires
      BY <3>1, <3>4 DEF Unapply, TimerFires, Returns, Reverted, main
    <3>5. ASSUME NEW who \in Whos, Lock(who) \/ RevertCommand(who) \/ Unlock(who)
          PROVE  FALSE
      BY <3>1, <3>5 DEF Lock, RevertCommand, Unlock, Finishes, Goes, main, Reverted
    <3> QED
      BY <3>2, <3>3, <3>4, <3>5, StepKinds DEF Elsewhere
  <2> QED
    BY <2>1, <2>2
<1>2. pc' \in {"build", "write", "label"} => now' >= WindowEnd
  <2> SUFFICES ASSUME pc' \in {"build", "write", "label"} PROVE now >= WindowEnd
    BY <1>0
  <2>1. CASE pc \in {"build", "write", "label"}
    BY <2>1 DEF RecordInv
  <2>2. CASE pc \notin {"build", "write", "label"}
    <3>1. pc' = "build" /\ ~BuildObservations /\ ~AtomicWriteFile
      BY <2>2, DirFrame DEF BuildObservations, AtomicWriteFile
    <3>2. Collects => now >= WindowEnd
      BY <3>1 DEF Collects, Reverted
    <3>3. Tick \/ Interrupt \/ TimerFires \/ TaskStep \/ ObserverStep \/ UNCHANGED vars => pc' = pc
      BY DEF Tick, Interrupt, TimerFires, TaskStep, ObserverStep, around, main, vars
    <3>4. BeforeFault \/ StartObservers \/ ApplyCommand \/ Unapply \/ Launch \/ Killed => pc' = pc \/ pc' # "build"
      BY DEF BeforeFault, StartObservers, Early, ApplyCommand, Unapply, Launch, Killed, Goes, Returns, main
    <3>5. ASSUME NEW who \in Whos, Lock(who) \/ RevertCommand(who) \/ Unlock(who)
          PROVE  pc' = pc \/ pc' = "stopNetwork"
      BY <3>5 DEF Lock, RevertCommand, Unlock, Finishes, Goes, main
    <3> QED
      BY <2>2, <3>1, <3>2, <3>3, <3>4, <3>5, StepKinds
  <2> QED
    BY <2>1, <2>2
<1>3. Written(dir)' # {} => revertDone' = "ok" /\ now' >= WindowEnd
  <2> SUFFICES ASSUME Written(dir)' # {} PROVE revertDone' = "ok" /\ now' >= WindowEnd
    OBVIOUS
  <2>1. CASE dir' = dir
    <3>1. Written(dir) # {}
      BY <2>1 DEF Written
    <3>2. revertDone = "ok" /\ now >= WindowEnd
      BY <3>1 DEF RecordInv
    <3> QED
      BY <1>0, <3>2, DoneStays
  <2>2. CASE AtomicWriteFile
    <3>1. pc = "write" /\ "write" \in Reverted
      BY <2>2 DEF AtomicWriteFile, Reverted
    <3>2. revertDone = "ok" /\ now >= WindowEnd
      BY <3>1 DEF RecordInv
    <3> QED
      BY <1>0, <3>2, DoneStays
  <2>3. CASE BuildObservations /\ dir' # dir
    <3>1. dir' \in LeftBehind
      BY <2>3 DEF BuildObservations
    <3>2. Written(dir') = {}
      <4>1. \A d \in LeftBehind : d.obs # Run /\ d.samples # Run /\ d.readme # Run /\ d.manifest.run # Run
        BY LeftFacts
      <4>2. \A d : d.obs # Run /\ d.samples # Run /\ d.readme # Run /\ d.manifest.run # Run => Written(d) = {}
        BY DEF Written
      <4> QED
        BY <3>1, <4>1, <4>2
    <3>3. Written(dir)' = Written(dir')
      BY DEF Written
    <3> QED
      BY <3>2, <3>3
  <2> QED
    BY <2>1, <2>2, <2>3, DirFrame
<1> QED
  BY <1>1, <1>2, <1>3 DEF RecordInv

-----------------------------------------------------------------------------
(* What is observed.                                                        *)

\* The steps that touch what is observed, one by one.
LEMMA WatchFrame ==
  ASSUME TypeOK, [Next]_vars
  PROVE  \/ UNCHANGED <<observer, task, outcome>>
         \/ TaskStep /\ (BlockAnswers \/ PollBlockSeen \/ BlockIsSkipped \/ BlockStatusAtDeadline \/ AttestationInPool
                         \/ PollAttestationPublished \/ SamplePressure \/ SamplePeerCount)
         \/ ObserverStep /\ \E o \in Observers : HeadAnswers(o) \/ GaugeAnswers(o) \/ ObserveHeadForSlot(o)
                                                 \/ WatchBlockTiming(o) \/ ObserveHeadTiming(o)
         \/ Launch \/ StartObservers \/ JoinPolls \/ AwaitHead \/ AwaitNetwork \/ AwaitPressure \/ AwaitPeers
<1> USE DEF watching, recorded
<1>1. Prepare \/ PreflightPeering \/ CollectEngineBaseline \/ ChooseDuty \/ SampleClock \/ SampleEngineBefore
      => UNCHANGED <<observer, task, outcome>>
  BY BeforeSteps DEF BeforeFault, before
<1>2. Tick \/ Interrupt \/ ApplyCommand \/ Unapply \/ TimerFires \/ UNCHANGED vars \/ Killed
      => UNCHANGED <<observer, task, outcome>>
  BY DEF Tick, Interrupt, ApplyCommand, Unapply, TimerFires, Killed, vars
<1>3. ASSUME NEW who \in Whos, Lock(who) \/ RevertCommand(who) \/ Unlock(who)
      PROVE  UNCHANGED <<observer, task, outcome>>
  BY <1>3 DEF Lock, RevertCommand, Unlock
<1>4. AwaitRevert \/ InclusionAnswers \/ CheckInclusion \/ PayloadAttested \/ Complete \/ CompareLabel \/ StopNetwork \/ StopHead
      => UNCHANGED <<observer, task, outcome>>
  BY DEF AwaitRevert, InclusionAnswers, CheckInclusion, PayloadAttested, Complete, CompareLabel, StopNetwork, StopHead
<1>5. BuildObservations \/ AtomicWriteFile => UNCHANGED <<observer, task, outcome>>
  BY DEF BuildObservations, AtomicWriteFile
<1> QED
  BY <1>1, <1>2, <1>3, <1>4, <1>5, TaskSteps, ObserverSteps DEF Next, Progress, Environment, Whos

\* What has been observed never contradicts itself.
LEMMA StoryStep ==
  ASSUME TypeOK, StoryInv, [Next]_vars
  PROVE  OutcomeType' /\ StoryInv'
<1>0. OutcomeType
  BY TypeParts
<1>1. CASE UNCHANGED outcome
  BY <1>0, <1>1 DEF OutcomeType, StoryInv
<1>2. CASE JoinPolls
  BY <1>0, <1>1, <1>2 DEF JoinPolls, OutcomeType, StoryInv
<1>3. CASE AwaitHead
  <2>1. CASE outcome' = HeadEvidence(outcome, observer["watched"])
    <3> DEFINE w == observer["watched"]
    <3>1. CASE w.head = "none"
      BY <1>1, <2>1, <3>1 DEF HeadEvidence
    <3>2. CASE w.head # "none"
      <4>1. outcome' = (outcome \ {"block_skipped"})
                         \union {"head_updated"} \union (IF w.timing = "ok" THEN {"block_seen"} ELSE {})
        BY <2>1, <3>2 DEF HeadEvidence
      <4>2. "block_skipped" \notin outcome'
        BY <4>1
      <4>3. OutcomeType'
        BY <1>0, <4>1 DEF OutcomeType
      <4> QED
        BY <4>2, <4>3 DEF StoryInv
    <3> QED
      BY <3>1, <3>2
  <2> QED
    BY <1>1, <1>3, <2>1 DEF AwaitHead
<1>4. TaskStep \/ ObserverStep \/ Launch \/ StartObservers \/ AwaitNetwork \/ AwaitPressure \/ AwaitPeers
      => UNCHANGED outcome
  BY DEF TaskStep, ObserverStep, around, recorded, Launch, StartObservers, AwaitNetwork, AwaitPressure, AwaitPeers, Await
<1> QED
  BY <1>1, <1>2, <1>3, <1>4, WatchFrame

\* The observers keep their types.
LEMMA ObserverTypes ==
  ASSUME TypeOK, [Next]_vars
  PROVE  ObserverType'
<1>0. ObserverType
  BY TypeParts
<1>1. CASE UNCHANGED observer
  BY <1>0, <1>1 DEF ObserverType
<1>2. ASSUME NEW o \in Observers, NEW w \in Watchers, observer' = [observer EXCEPT ![o] = w]
      PROVE  ObserverType'
  BY <1>0, <1>2 DEF ObserverType
<1>3. ASSUME NEW o \in Observers, HeadAnswers(o) \/ ObserveHeadForSlot(o)
      PROVE  ObserverType'
  <2>1. PICK to \in {"found", "none"} : observer' = [observer EXCEPT ![o]["head"] = to]
    BY <1>3 DEF HeadAnswers, ObserveHeadForSlot, ObserverMoves
  <2>2. [observer[o] EXCEPT !.head = to] \in Watchers
    BY <1>0 DEF ObserverType, Watchers
  <2> QED
    BY <1>2, <2>1, <2>2
<1>4. ASSUME NEW o \in Observers, GaugeAnswers(o) \/ WatchBlockTiming(o)
      PROVE  ObserverType'
  <2>1. PICK to \in {"ok", "none", "late"} : observer' = [observer EXCEPT ![o]["timing"] = to]
    BY <1>4 DEF GaugeAnswers, WatchBlockTiming, ObserverMoves
  <2>2. [observer[o] EXCEPT !.timing = to] \in Watchers
    BY <1>0 DEF ObserverType, Watchers
  <2> QED
    BY <1>2, <2>1, <2>2
<1>5. ASSUME NEW o \in Observers, ObserveHeadTiming(o)
      PROVE  ObserverType'
  <2>1. PICK to \in {"sent", "gone"} :
          observer' = [observer EXCEPT ![o].out = to, ![o].timing = IF observer[o].head = "none" THEN "none" ELSE @]
    BY <1>5 DEF ObserveHeadTiming
  <2> DEFINE t == IF observer[o].head = "none" THEN "none" ELSE observer[o].timing
  <2>2. observer[o] \in Watchers /\ t \in {"off", "wait", "ok", "late", "none"}
    BY <1>0 DEF ObserverType, Watchers
  <2>3. \A p \in Observers : p # o => observer'[p] = observer[p]
    BY <1>0, <2>1 DEF ObserverType
  <2>4. observer'[o] = [head |-> observer[o].head, timing |-> t, out |-> to]
    BY <1>0, <2>1, <2>2 DEF ObserverType, Watchers
  <2> HIDE DEF t
  <2>5. observer'[o] \in Watchers
    BY <2>2, <2>4 DEF Watchers
  <2>6. DOMAIN observer' = Observers /\ observer' = [p \in DOMAIN observer' |-> observer'[p]]
    BY <1>0, <2>1 DEF ObserverType
  <2> QED
    BY <1>0, <2>3, <2>5, <2>6 DEF ObserverType
<1>6. CASE StartObservers
  <2>1. [head |-> "wait", timing |-> "wait", out |-> "none"] \in Watchers
    BY DEF Watchers
  <2> QED
    BY <1>0, <1>6, <2>1 DEF StartObservers, ObserverType
<1>7. CASE AwaitHead \/ AwaitNetwork
  <2>1. [head |-> "off", timing |-> "off", out |-> "taken"] \in Watchers
    BY DEF Watchers
  <2>2. "watched" \in Observers /\ "network" \in Observers
    BY DEF Observers
  <2>3. UNCHANGED observer \/ \E o \in Observers :
          observer' = [observer EXCEPT ![o] = [head |-> "off", timing |-> "off", out |-> "taken"]]
    BY <1>7, <2>2 DEF AwaitHead, AwaitNetwork, Takes
  <2> QED
    BY <1>1, <1>2, <2>1, <2>3
<1>8. TaskStep \/ Launch \/ JoinPolls \/ AwaitPressure \/ AwaitPeers => UNCHANGED observer
  BY DEF TaskStep, Launch, JoinPolls, AwaitPressure, AwaitPeers, Await
<1> QED
  BY <1>1, <1>3, <1>4, <1>5, <1>6, <1>7, <1>8, WatchFrame

\* The polls and the samplers keep their types, and the attempts their bound.
LEMMA TaskTypes ==
  ASSUME TypeOK, [Next]_vars
  PROVE  TaskType'
<1>0. task \in Tasks /\ PeerAttempts \in Nat /\ PeerAttempts > 0 /\ task.tries \in Nat
  <2>1. task \in Tasks
    BY TypeParts DEF TaskType
  <2>2. task.tries \in 0 .. PeerAttempts - 1
    BY <2>1 DEF Tasks
  <2> QED
    BY <2>1, <2>2, Naturals
<1>1. CASE UNCHANGED task
  BY <1>0, <1>1 DEF TaskType
<1>2. CASE BlockAnswers \/ PollBlockSeen \/ BlockIsSkipped \/ BlockStatusAtDeadline
  <2>1. PICK to \in {"found", "error", "confirm", "skipped"} : task' = [task EXCEPT !["block"] = to]
    BY <1>2 DEF BlockAnswers, PollBlockSeen, BlockIsSkipped, BlockStatusAtDeadline, TaskMoves
  <2> QED
    BY <1>0, <2>1 DEF TaskType, Tasks
<1>3. CASE AttestationInPool \/ PollAttestationPublished
  <2>1. PICK to \in {"found", "error", "none"} : task' = [task EXCEPT !["publish"] = to]
    BY <1>3 DEF AttestationInPool, PollAttestationPublished, TaskMoves
  <2> QED
    BY <1>0, <2>1 DEF TaskType, Tasks
<1>4. CASE SamplePressure
  <2>1. PICK to \in {"ok", "error"} : task' = [task EXCEPT !["pressure"] = to]
    BY <1>4 DEF SamplePressure, TaskMoves
  <2> QED
    BY <1>0, <2>1 DEF TaskType, Tasks
<1>5. CASE SamplePeerCount
  <2>1. PICK n \in 0 .. PeerAttempts - 1, p \in {"wait", "ok", "error"} :
          task' = [task EXCEPT !.tries = n, !.peers = p]
    <3>1. PICK ok \in BOOLEAN :
            LET goes == ~Cancelled /\ ~ok /\ task.tries + 1 < PeerAttempts
            IN task' = [task EXCEPT !.tries = IF goes THEN task.tries + 1 ELSE 0,
                                    !.peers = IF goes THEN "wait" ELSE IF ok /\ ~Cancelled THEN "ok" ELSE "error"]
      BY <1>5 DEF SamplePeerCount
    <3> DEFINE goes == ~Cancelled /\ ~ok /\ task.tries + 1 < PeerAttempts
               n == IF goes THEN task.tries + 1 ELSE 0
               p == IF goes THEN "wait" ELSE IF ok /\ ~Cancelled THEN "ok" ELSE "error"
    <3>2. n \in 0 .. PeerAttempts - 1 /\ p \in {"wait", "ok", "error"}
      BY <1>0
    <3>3. task' = [task EXCEPT !.tries = n, !.peers = p]
      BY <3>1
    <3> QED
      BY <3>2, <3>3
  <2> QED
    BY <1>0, <2>1 DEF TaskType, Tasks
<1>6. CASE Launch
  <2>1. CASE task' = [block |-> "poll", publish |-> "poll", tries |-> 0,
                      pressure |-> IF scenario.pressure THEN "wait" ELSE "off",
                      peers |-> IF scenario.peers THEN "wait" ELSE "off"]
    BY <1>0, <2>1 DEF TaskType, Tasks
  <2> QED
    BY <1>1, <1>6, <2>1 DEF Launch
<1>7. CASE JoinPolls
  <2>1. task' = [task EXCEPT !.block = "off", !.publish = "off"]
    BY <1>7 DEF JoinPolls
  <2> QED
    BY <1>0, <2>1 DEF TaskType, Tasks
<1>8. CASE AwaitPressure
  <2>1. task' = [task EXCEPT !["pressure"] = "off"]
    BY <1>8 DEF AwaitPressure, Await
  <2> QED
    BY <1>0, <2>1 DEF TaskType, Tasks
<1>9. CASE AwaitPeers
  <2>1. task' = [task EXCEPT !["peers"] = "off"]
    BY <1>9 DEF AwaitPeers, Await
  <2> QED
    BY <1>0, <2>1 DEF TaskType, Tasks
<1>10. ObserverStep \/ StartObservers \/ AwaitHead \/ AwaitNetwork => UNCHANGED task
  BY DEF ObserverStep, StartObservers, AwaitHead, AwaitNetwork
<1> QED
  BY <1>1, <1>2, <1>3, <1>4, <1>5, <1>6, <1>7, <1>8, <1>9, <1>10, WatchFrame

-----------------------------------------------------------------------------
(* The theorems.                                                            *)

\* The inductive invariant holds of every reachable state.
LEMMA Invariance == Spec => []IInv
<1>1. Init => IInv
  <2> SUFFICES ASSUME Init PROVE IInv
    OBVIOUS
  <2>1. TypeOK
    BY TypeInit
  <2>2. TimeInv /\ ApplyInv /\ LockInv
    BY DEF Init, TimeInv, ApplyInv, LockInv, Early, Leaving, PollEnd
  <2>3. EmptyDir.obs = 0 /\ EmptyDir.samples = 0 /\ EmptyDir.readme = 0 /\ EmptyDir.manifest.run = 0
    BY DEF EmptyDir, NoManifest
  <2>4. Written(EmptyDir) = {}
    BY <2>3 DEF Written, Run
  <2>5. RecordInv
    BY <2>4 DEF Init, RecordInv, Reverted
  <2>6. StoryInv
    BY DEF Init, StoryInv
  <2>7. DirInv
    <3>1. EmptyDir \in LeftBehind /\ "none" \in Unpublished
      BY DEF LeftBehind, Unpublished
    <3>2. UpTo(EmptyDir, "none")
      BY DEF Init, UpTo
    <3> QED
      BY <3>1, <3>2 DEF DirInv
  <2> QED
    BY <2>1, <2>2, <2>5, <2>6, <2>7 DEF IInv
<1>2. IInv /\ [Next]_vars => IInv'
  <2> SUFFICES ASSUME IInv, [Next]_vars PROVE IInv'
    OBVIOUS
  <2>1. TypeOK /\ TimeInv /\ ApplyInv /\ LockInv /\ RecordInv /\ StoryInv /\ DirInv
    BY DEF IInv
  <2>2. TypeOK'
    BY <2>1, MainStep, TimeStep, BaselineStep, DevnetStep, ObserverTypes, TaskTypes, StoryStep, DirStep, TypePartsNext
  <2> QED
    BY <2>1, <2>2, TimeStep, ApplyStep, LockStep, RecordStep, StoryStep, TaskTypes, DirStep DEF IInv
<1> QED
  BY <1>1, <1>2, PTL DEF Spec

\* The goroutines, the devnet and the record keep their types, and a sampler makes
\* no more than peerCountAttempts attempts.
THEOREM TypeCorrect == Spec => []TypeOK
<1>1. IInv => TypeOK
  BY DEF IInv
<1> QED
  BY <1>1, Invariance, PTL

\* However RunScenario returns, nothing of the fault is left on the devnet unless the
\* last attempt to remove it failed by itself, or the interrupt came while Apply was
\* at work: the timer and the deferred clean-up between them undo what was applied.
THEOREM DevnetIsRestored == Spec => []NoFaultLeft
<1>1. IInv => NoFaultLeft
  BY DEF IInv, LockInv, NoFaultLeft, Leaving
<1> QED
  BY <1>1, Invariance, PTL

\* A record exists only of a run whose fault its own timer has reverted and whose
\* inclusion window is over.
THEOREM RecordFollowsRevert == Spec => []RecordedAfterRevert
<1>1. IInv => RecordedAfterRevert
  BY DEF IInv, LockInv, RecordInv, RecordedAfterRevert
<1> QED
  BY <1>1, Invariance, PTL

\* A record never holds the absence of a block together with the block or its head.
THEOREM StoryIsOne == Spec => []OneStory
<1>1. IInv => OneStory
  BY DEF IInv, StoryInv, OneStory
<1> QED
  BY <1>1, Invariance, PTL

\* A directory that corpusctl accepts is of one run, wherever an update of its files
\* was interrupted.
THEOREM AcceptedIsWhole == Spec => []AcceptedIsOneRun
<1>1. ASSUME IInv PROVE AcceptedIsOneRun
  <2>1. PICK d \in LeftBehind, f \in Unpublished \cup {"manifest"} : UpTo(d, f)
    BY <1>1 DEF IInv, DirInv
  <2>2. /\ d.manifest.obs # Run
        /\ ValidateScenario(d) => d.obs = d.manifest.run /\ d.readme = d.manifest.run /\ d.samples \in {0, d.manifest.run}
    BY LeftFacts
  <2>3. CASE f = "none"
    BY <2>1, <2>2, <2>3 DEF UpTo, AcceptedIsOneRun, ValidateScenario, ValidateManifest, ValidateObservations
  <2>4. CASE f \notin {"none", "manifest"}
    BY <2>1, <2>2, <2>4 DEF UpTo, AcceptedIsOneRun, ValidateScenario, ValidateManifest, ValidateObservations
  <2>5. CASE f = "manifest"
    BY <1>1, <2>1, <2>5, ManifestFacts DEF IInv, UpTo, AcceptedIsOneRun, ValidateScenario, ValidateManifest, ValidateObservations
  <2> QED
    BY <2>3, <2>4, <2>5
<1> QED
  BY <1>1, Invariance, PTL

\* A record whose manifest was published is accepted, but for a label that is not in
\* the taxonomy or the samples of an earlier run beside a record that has none
\* (manifest.go: validateCorpusWrite, WriteCorpusScenario; corpusctl: validateScenario).
THEOREM PublishedIsWhole == Spec => []PublishedIsAccepted
<1>1. ASSUME IInv PROVE PublishedIsAccepted
  <2>1. PICK d \in LeftBehind, f \in Unpublished \cup {"manifest"} : UpTo(d, f)
    BY <1>1 DEF IInv, DirInv
  <2>2. d.manifest.run # Run /\ Run # 0
    BY LeftFacts DEF Run
  <2>3. CASE f # "manifest"
    BY <2>1, <2>2, <2>3 DEF UpTo, PublishedIsAccepted
  <2>4. CASE f = "manifest"
    BY <1>1, <2>1, <2>2, <2>4, ManifestFacts DEF IInv, UpTo, PublishedIsAccepted, ValidateScenario, ValidateManifest, ValidateObservations
  <2> QED
    BY <2>3, <2>4
<1> QED
  BY <1>1, Invariance, PTL
=============================================================================
