----------------------------- MODULE RateLimiter -----------------------------
(***************************************************************************)
(* The rate limiter every Beacon API request passes: callers of wait join a *)
(* queue under a mutex, the first of them starts a goroutine (run) that     *)
(* serves the head of the queue when the minimum interval since the last    *)
(* grant has passed, and that ends when the queue is empty.  A caller whose *)
(* context is cancelled leaves its waiter behind in the queue.              *)
(*                                                                          *)
(* One caller is one call of wait; time is counted in ticks.                *)
(***************************************************************************)
EXTENDS Integers, Sequences

CONSTANTS
  Callers,       \* calls of wait
  Runners,       \* identities for goroutines executing run
  MinInterval,   \* minInterval, in ticks
  MaxTime        \* bound on now while no interval is running

ASSUME LimiterConstants ==
  /\ Callers # {}
  /\ MinInterval \in Nat
  /\ MaxTime \in Nat

VARIABLES
  now,
  next, queue, running,    \* the fields of rateLimiter
  runner, target, wake,    \* the goroutines executing run: place, w and the timer
  call, cancelled,         \* the callers and their contexts
  ready,                   \* waiters whose channel is closed
  ticket, tickets,         \* arrival order, the number of arrivals
  grantedAt                \* when a waiter was granted

callVars == <<call, cancelled, ticket, tickets>>
runVars  == <<runner, target, wake>>
vars == <<now, next, queue, running, runVars, callVars, ready, grantedAt>>

CallState == {"idle", "checked", "waiting", "ok", "err"}
RunState  == {"off", "top", "timer", "grant"}

Init ==
  /\ now = 0 /\ next = 0
  /\ queue = <<>> /\ running = FALSE
  /\ runner = [r \in Runners |-> "off"]
  /\ target = [r \in Runners |-> CHOOSE c \in Callers : TRUE]
  /\ wake = [r \in Runners |-> 0]
  /\ call = [c \in Callers |-> "idle"]
  /\ cancelled = [c \in Callers |-> FALSE]
  /\ ready = {}
  /\ ticket = [c \in Callers |-> 0] /\ tickets = 0
  /\ grantedAt = [c \in Callers |-> 0]

\* Past MaxTime the clock only runs while an interval is running.
Tick ==
  /\ now < MaxTime \/ now < next
  /\ now' = now + 1
  /\ UNCHANGED <<next, queue, running, runVars, callVars, ready, grantedAt>>

\* The context of c is cancelled, at any time.
Cancel(c) ==
  /\ ~cancelled[c]
  /\ cancelled' = [cancelled EXCEPT ![c] = TRUE]
  /\ UNCHANGED <<now, next, queue, running, runVars, call, ticket, tickets, ready, grantedAt>>

-----------------------------------------------------------------------------
(* wait.                                                                    *)

\* ctx.Err is read before the lock is taken.
Enter(c) ==
  /\ call[c] = "idle"
  /\ call' = [call EXCEPT ![c] = IF cancelled[c] THEN "err" ELSE "checked"]
  /\ UNCHANGED <<now, next, queue, running, runVars, cancelled, ticket, tickets, ready,
                 grantedAt>>

\* Mutant: every caller starts a goroutine.
StartRunnerAlways ==
  \E r \in Runners :
    /\ runner[r] = "off"
    /\ runner' = [runner EXCEPT ![r] = "top"]
    /\ running' = TRUE

StartRunner ==
  \/ running /\ UNCHANGED <<runner, running>>
  \/ /\ ~running
     /\ running' = TRUE
     /\ \E r \in Runners :
          /\ runner[r] = "off"
          /\ runner' = [runner EXCEPT ![r] = "top"]

\* Under the lock: join the queue, start run if it is not running.
Enqueue(c) ==
  /\ call[c] = "checked"
  /\ call' = [call EXCEPT ![c] = "waiting"]
  /\ queue' = Append(queue, c)
  /\ tickets' = tickets + 1
  /\ ticket' = [ticket EXCEPT ![c] = tickets + 1]
  /\ StartRunner
  /\ UNCHANGED <<now, next, target, wake, cancelled, ready, grantedAt>>

\* The select: a closed channel wins over a cancelled context.
ReturnOk(c) ==
  /\ call[c] = "waiting" /\ c \in ready
  /\ call' = [call EXCEPT ![c] = "ok"]
  /\ UNCHANGED <<now, next, queue, running, runVars, cancelled, ticket, tickets, ready,
                 grantedAt>>

ReturnErr(c) ==
  /\ call[c] = "waiting" /\ cancelled[c] /\ c \notin ready
  /\ call' = [call EXCEPT ![c] = "err"]
  /\ UNCHANGED <<now, next, queue, running, runVars, cancelled, ticket, tickets, ready,
                 grantedAt>>

-----------------------------------------------------------------------------
(* run.                                                                     *)

Goto(r, place) == runner' = [runner EXCEPT ![r] = place]

\* The first critical section drops the cancelled waiters at the head of the
\* queue one by one, then ends on an empty queue or chooses the head.
DropCancelled(r) ==
  /\ runner[r] = "top" /\ queue # <<>> /\ cancelled[Head(queue)]
  /\ queue' = Tail(queue)
  /\ UNCHANGED <<now, next, running, runVars, callVars, ready, grantedAt>>

\* Mutant: the goroutine ends but leaves running set.
FinishSilently(r) ==
  /\ runner[r] = "top" /\ queue = <<>>
  /\ Goto(r, "off")
  /\ UNCHANGED <<now, next, queue, running, target, wake, callVars, ready, grantedAt>>

Finish(r) ==
  /\ runner[r] = "top" /\ queue = <<>>
  /\ running' = FALSE
  /\ Goto(r, "off")
  /\ UNCHANGED <<now, next, queue, target, wake, callVars, ready, grantedAt>>

\* Mutant: the timer gets the time that is left where it needs the instant.
ChooseDuration(r) ==
  /\ runner[r] = "top" /\ queue # <<>> /\ ~cancelled[Head(queue)]
  /\ target' = [target EXCEPT ![r] = Head(queue)]
  /\ wake' = [wake EXCEPT ![r] = next - now]
  /\ Goto(r, IF next > now THEN "timer" ELSE "grant")
  /\ UNCHANGED <<now, next, queue, running, callVars, ready, grantedAt>>

Choose(r) ==
  /\ runner[r] = "top" /\ queue # <<>> /\ ~cancelled[Head(queue)]
  /\ target' = [target EXCEPT ![r] = Head(queue)]
  /\ wake' = [wake EXCEPT ![r] = next]
  /\ Goto(r, IF next > now THEN "timer" ELSE "grant")
  /\ UNCHANGED <<now, next, queue, running, callVars, ready, grantedAt>>

\* Mutant: the timer does not hold the waiter back.
TimerIgnored(r) ==
  /\ runner[r] = "timer"
  /\ Goto(r, "grant")
  /\ UNCHANGED <<now, next, queue, running, target, wake, callVars, ready, grantedAt>>

TimerFires(r) ==
  /\ runner[r] = "timer" /\ wake[r] <= now
  /\ Goto(r, "grant")
  /\ UNCHANGED <<now, next, queue, running, target, wake, callVars, ready, grantedAt>>

TimerAbandoned(r) ==
  /\ runner[r] = "timer" /\ cancelled[target[r]]
  /\ Goto(r, "top")
  /\ UNCHANGED <<now, next, queue, running, target, wake, callVars, ready, grantedAt>>

StillFirst(r) == queue # <<>> /\ Head(queue) = target[r] /\ ~cancelled[target[r]]

\* The second critical section found the queue changed or the context cancelled.
GrantRefused(r) ==
  /\ runner[r] = "grant" /\ ~StillFirst(r)
  /\ Goto(r, "top")
  /\ UNCHANGED <<now, next, queue, running, target, wake, callVars, ready, grantedAt>>

\* Mutant: the newest waiter is served first.
GrantNewest(r) ==
  /\ runner[r] = "grant" /\ StillFirst(r)
  /\ LET w == queue[Len(queue)] IN
       /\ queue' = SubSeq(queue, 1, Len(queue) - 1)
       /\ ready' = ready \cup {w}
       /\ grantedAt' = [grantedAt EXCEPT ![w] = now]
  /\ next' = now + MinInterval
  /\ Goto(r, "top")
  /\ UNCHANGED <<now, running, target, wake, callVars>>

Grant(r) ==
  /\ runner[r] = "grant" /\ StillFirst(r)
  /\ queue' = Tail(queue)
  /\ next' = now + MinInterval
  /\ ready' = ready \cup {target[r]}
  /\ grantedAt' = [grantedAt EXCEPT ![target[r]] = now]
  /\ Goto(r, "top")
  /\ UNCHANGED <<now, running, target, wake, callVars>>

RunStep(r) ==
  \/ DropCancelled(r) \/ Finish(r) \/ Choose(r)
  \/ TimerFires(r) \/ TimerAbandoned(r) \/ GrantRefused(r) \/ Grant(r)

CallStep(c) == Enter(c) \/ Enqueue(c) \/ ReturnOk(c) \/ ReturnErr(c)

Next ==
  \/ Tick
  \/ \E c \in Callers : Cancel(c) \/ CallStep(c)
  \/ \E r \in Runners : RunStep(r)

Spec == Init /\ [][Next]_vars

\* Time passes, and a goroutine that is not blocked runs.
FairSpec ==
  /\ Spec
  /\ WF_vars(Tick)
  /\ \A r \in Runners : WF_vars(RunStep(r))
  /\ \A c \in Callers : WF_vars(Enqueue(c)) /\ WF_vars(ReturnOk(c) \/ ReturnErr(c))

-----------------------------------------------------------------------------
(* Properties.                                                              *)

\* Every variable stays in its type.
TypeOK ==
  /\ now \in Nat /\ next \in Nat
  /\ queue \in Seq(Callers) /\ running \in BOOLEAN
  /\ runner \in [Runners -> RunState] /\ wake \in [Runners -> Nat]
  /\ target \in [Runners -> Callers]
  /\ call \in [Callers -> CallState] /\ cancelled \in [Callers -> BOOLEAN]
  /\ ready \in SUBSET Callers
  /\ ticket \in [Callers -> Nat] /\ tickets \in Nat
  /\ grantedAt \in [Callers -> Nat]

\* Two requests are never granted less than minInterval apart, whichever
\* goroutine grants them and however often run ended and was started again
\* between them (the ceiling the client promises the node's operator).
Spacing ==
  \A c, d \in ready : c # d =>
    grantedAt[c] + MinInterval <= grantedAt[d] \/ grantedAt[d] + MinInterval <= grantedAt[c]

\* A granted waiter overtook nobody: everyone who joined the queue before it
\* was granted too, or gave up.  An inclusion scan never starves an earlier
\* block poll.
NoOvertaking ==
  \A c \in ready, d \in Callers :
    ticket[d] \in 1 .. ticket[c] => d \in ready \/ cancelled[d]

\* There is never more than one goroutine in run, and one whenever somebody
\* waits: the check and the start are under one lock, and so are the look at
\* the empty queue and the reset of running.
OneRunner ==
  /\ \A r, q \in Runners : runner[r] # "off" /\ runner[q] # "off" => r = q
  /\ queue # <<>> => \E r \in Runners : runner[r] # "off"

\* A call of wait that is not cancelled returns; so does one that is.
WaitReturns == \A c \in Callers : call[c] = "waiting" ~> call[c] \in {"ok", "err"}

-----------------------------------------------------------------------------
(* The invariant that carries the proofs.                                   *)

Arrived(c) == ticket[c] # 0

InQueue(c) == \E i \in DOMAIN queue : queue[i] = c

\* One goroutine, and it is running when it says so.
RunnerInv ==
  /\ \A r, q \in Runners : runner[r] # "off" /\ runner[q] # "off" => r = q
  /\ running <=> \E r \in Runners : runner[r] # "off"
  /\ queue # <<>> => running

\* The interval of the last grant ends at next, and is over when the next
\* waiter is about to be granted.
IntervalInv ==
  /\ \A r \in Runners : runner[r] = "grant" => next <= now
  /\ \A r \in Runners : runner[r] = "timer" => wake[r] = next
  /\ \A c \in ready : grantedAt[c] + MinInterval <= next

\* The queue is in the order of arrival and behind everyone already granted.
QueueInv ==
  /\ \A c \in Callers : ticket[c] <= tickets
  /\ \A c \in Callers : call[c] \in {"idle", "checked"} => ~Arrived(c)
  /\ \A c \in ready : Arrived(c)
  /\ \A i \in DOMAIN queue : Arrived(queue[i]) /\ queue[i] \notin ready
  /\ \A i, j \in DOMAIN queue : i < j => ticket[queue[i]] < ticket[queue[j]]
  /\ \A c \in ready, i \in DOMAIN queue : ticket[c] < ticket[queue[i]]
  /\ \A c \in Callers : Arrived(c) => c \in ready \/ cancelled[c] \/ InQueue(c)

LimiterInv == TypeOK /\ RunnerInv /\ IntervalInv /\ QueueInv /\ Spacing
=============================================================================
