-------------------------- MODULE RateLimiterProofs --------------------------
(***************************************************************************)
(* Proofs about RateLimiter for any number of callers, any number of        *)
(* goroutine identities and any interval.                                   *)
(***************************************************************************)
EXTENDS RateLimiter, TLAPS

\* Joining the queue.
LEMMA AppendOperation ==
  ASSUME NEW s \in Seq(Callers), NEW c \in Callers
  PROVE  /\ Append(s, c) \in Seq(Callers) /\ Append(s, c) # <<>>
         /\ DOMAIN s = 1 .. Len(s) /\ Len(s) \in Nat
         /\ DOMAIN Append(s, c) = 1 .. Len(s) + 1
         /\ \A i \in 1 .. Len(s) : Append(s, c)[i] = s[i]
         /\ Append(s, c)[Len(s) + 1] = c
  OBVIOUS

\* Leaving the queue at its head.
LEMMA TailOperation ==
  ASSUME NEW s \in Seq(Callers), s # <<>>
  PROVE  /\ Head(s) = s[1] /\ Head(s) \in Callers
         /\ DOMAIN s = 1 .. Len(s) /\ Len(s) \in Nat /\ Len(s) >= 1
         /\ Tail(s) \in Seq(Callers)
         /\ DOMAIN Tail(s) = 1 .. Len(s) - 1
         /\ \A i \in 1 .. Len(s) - 1 : Tail(s)[i] = s[i + 1]
  OBVIOUS

-----------------------------------------------------------------------------
(* Type correctness.                                                        *)

\* Every step keeps the types.
LEMMA TypeStep == TypeOK /\ [Next]_vars => TypeOK'
<1> SUFFICES ASSUME TypeOK, [Next]_vars PROVE TypeOK'
  OBVIOUS
<1> USE LimiterConstants DEF TypeOK, callVars, runVars, CallState, RunState, Goto
<1>1. CASE Tick
  BY <1>1 DEF Tick
<1>2. ASSUME NEW c \in Callers, Cancel(c) \/ Enter(c) \/ ReturnOk(c) \/ ReturnErr(c)
      PROVE  TypeOK'
  BY <1>2 DEF Cancel, Enter, ReturnOk, ReturnErr
<1>3. ASSUME NEW c \in Callers, Enqueue(c) PROVE TypeOK'
  <2>1. queue' \in Seq(Callers)
    BY <1>3, AppendOperation DEF Enqueue
  <2>2. runner' \in [Runners -> RunState] /\ running' \in BOOLEAN
    BY <1>3 DEF Enqueue, StartRunner
  <2> QED
    BY <1>3, <2>1, <2>2 DEF Enqueue
<1>4. ASSUME NEW r \in Runners, DropCancelled(r) \/ Grant(r) PROVE TypeOK'
  <2>1. queue' = Tail(queue) /\ queue # <<>>
    BY <1>4 DEF DropCancelled, Grant, StillFirst
  <2>2. queue' \in Seq(Callers)
    BY <2>1, TailOperation
  <2>3. CASE DropCancelled(r)
    BY <2>2, <2>3 DEF DropCancelled
  <2>4. CASE Grant(r)
    <3>1. /\ ready' = ready \cup {target[r]} /\ target[r] \in Callers
          /\ grantedAt' = [grantedAt EXCEPT ![target[r]] = now]
          /\ next' = now + MinInterval /\ runner' = [runner EXCEPT ![r] = "top"]
          /\ UNCHANGED <<now, running, target, wake, call, cancelled, ticket, tickets>>
      BY <2>4 DEF Grant
    <3> QED
      BY <2>2, <3>1
  <2> QED
    BY <1>4, <2>3, <2>4
<1>5. ASSUME NEW r \in Runners, Choose(r) PROVE TypeOK'
  <2>1. Head(queue) \in Callers
    BY <1>5, TailOperation DEF Choose
  <2> QED
    BY <1>5, <2>1 DEF Choose
<1>6. ASSUME NEW r \in Runners,
             Finish(r) \/ TimerFires(r) \/ TimerAbandoned(r) \/ GrantRefused(r)
      PROVE  TypeOK'
  BY <1>6 DEF Finish, TimerFires, TimerAbandoned, GrantRefused
<1>7. CASE UNCHANGED vars
  BY <1>7 DEF vars
<1> QED
  BY <1>1, <1>2, <1>3, <1>4, <1>5, <1>6, <1>7 DEF Next, CallStep, RunStep

-----------------------------------------------------------------------------
(* One goroutine.                                                           *)

\* The check of running and the start, and the look at the empty queue and the
\* reset, are each one critical section.
LEMMA RunnerStep == TypeOK /\ RunnerInv /\ [Next]_vars => RunnerInv'
<1> SUFFICES ASSUME TypeOK, RunnerInv, [Next]_vars PROVE RunnerInv'
  OBVIOUS
<1> USE DEF RunnerInv, callVars, runVars, Goto
<1>1. ASSUME UNCHANGED <<queue, running, runner>> PROVE RunnerInv'
  BY <1>1
<1>2. CASE Tick \/ (\E c \in Callers : Cancel(c) \/ Enter(c) \/ ReturnOk(c) \/ ReturnErr(c))
           \/ UNCHANGED vars
  BY <1>1, <1>2 DEF Tick, Cancel, Enter, ReturnOk, ReturnErr, vars
<1>3. ASSUME NEW c \in Callers, Enqueue(c) PROVE RunnerInv'
  BY <1>3 DEF Enqueue, StartRunner, TypeOK, RunState
<1>4. ASSUME NEW r \in Runners, Finish(r) PROVE RunnerInv'
  BY <1>4 DEF Finish, TypeOK
<1>5. ASSUME NEW r \in Runners,
             \/ DropCancelled(r) \/ Choose(r) \/ TimerFires(r) \/ TimerAbandoned(r)
             \/ GrantRefused(r) \/ Grant(r)
      PROVE  RunnerInv'
  <2>1. \A q \in Runners : runner'[q] # "off" <=> runner[q] # "off"
    BY <1>5 DEF DropCancelled, Choose, TimerFires, TimerAbandoned, GrantRefused, Grant, TypeOK
  <2>2. running' = running
    BY <1>5 DEF DropCancelled, Choose, TimerFires, TimerAbandoned, GrantRefused, Grant
  <2>3. running
    BY <1>5 DEF DropCancelled, Choose, TimerFires, TimerAbandoned, GrantRefused, Grant
  <2> QED
    BY <2>1, <2>2, <2>3
<1> QED
  BY <1>2, <1>3, <1>4, <1>5 DEF Next, CallStep, RunStep

-----------------------------------------------------------------------------
(* Spacing.                                                                 *)

\* Only the one goroutine moves next, so the interval it waited for is still
\* the current one when it grants.
LEMMA IntervalStep ==
  TypeOK /\ RunnerInv /\ IntervalInv /\ QueueInv /\ Spacing /\ [Next]_vars
    => IntervalInv' /\ Spacing'
<1> SUFFICES ASSUME TypeOK, RunnerInv, IntervalInv, QueueInv, Spacing, [Next]_vars
             PROVE  IntervalInv' /\ Spacing'
  OBVIOUS
<1> USE LimiterConstants DEF IntervalInv, Spacing, callVars, runVars, Goto, TypeOK
<1>1. CASE Tick
  BY <1>1 DEF Tick
<1>2. CASE (\E c \in Callers : Cancel(c) \/ Enter(c) \/ ReturnOk(c) \/ ReturnErr(c))
           \/ UNCHANGED vars
  BY <1>2 DEF Cancel, Enter, ReturnOk, ReturnErr, vars
<1>3. ASSUME NEW c \in Callers, Enqueue(c) PROVE IntervalInv' /\ Spacing'
  <2>1. UNCHANGED <<now, next, wake, ready, grantedAt>>
    BY <1>3 DEF Enqueue
  <2>2. \A r \in Runners : runner'[r] \in {"grant", "timer"} => runner'[r] = runner[r]
    BY <1>3 DEF Enqueue, StartRunner
  <2> QED
    BY <2>1, <2>2
<1>4. ASSUME NEW r \in Runners, DropCancelled(r) \/ Finish(r) \/ TimerAbandoned(r) \/ GrantRefused(r)
      PROVE  IntervalInv' /\ Spacing'
  BY <1>4 DEF DropCancelled, Finish, TimerAbandoned, GrantRefused
<1>5. ASSUME NEW r \in Runners, Choose(r) PROVE IntervalInv' /\ Spacing'
  BY <1>5 DEF Choose
<1>6. ASSUME NEW r \in Runners, TimerFires(r) PROVE IntervalInv' /\ Spacing'
  BY <1>6 DEF TimerFires
<1>7. ASSUME NEW r \in Runners, Grant(r) PROVE IntervalInv' /\ Spacing'
  <2> DEFINE w == target[r]
  <2>1. /\ runner[r] = "grant" /\ next' = now + MinInterval /\ ready' = ready \cup {w}
        /\ grantedAt' = [grantedAt EXCEPT ![w] = now]
        /\ runner' = [runner EXCEPT ![r] = "top"] /\ UNCHANGED <<now, wake>>
        /\ w \in Callers
    BY <1>7 DEF Grant
  <2>2. next <= now
    BY <2>1
  <2>3. \A q \in Runners : runner'[q] \notin {"grant", "timer"}
    BY <2>1 DEF RunnerInv
  <2>4. w \notin ready
    <3>1. queue # <<>> /\ Head(queue) = w
      BY <1>7 DEF Grant, StillFirst
    <3>2. 1 \in DOMAIN queue /\ queue[1] = w
      BY <3>1, TailOperation
    <3> QED
      BY <3>2 DEF QueueInv
  <2>5. \A c \in ready : grantedAt'[c] = grantedAt[c] /\ grantedAt[c] \in Nat
                         /\ grantedAt[c] + MinInterval <= now
    BY <2>1, <2>2, <2>4
  <2>6. grantedAt'[w] = now
    BY <2>1
  <2>7. \A c \in ready' : grantedAt'[c] + MinInterval <= next'
    BY <2>1, <2>5, <2>6
  <2>8. Spacing'
    <3> SUFFICES ASSUME NEW c \in ready', NEW d \in ready', c # d
                 PROVE  \/ grantedAt'[c] + MinInterval <= grantedAt'[d]
                        \/ grantedAt'[d] + MinInterval <= grantedAt'[c]
      OBVIOUS
    <3>1. CASE c = w
      BY <3>1, <2>1, <2>5, <2>6
    <3>2. CASE d = w
      BY <3>2, <2>1, <2>5, <2>6
    <3>3. CASE c \in ready /\ d \in ready
      BY <3>3, <2>5
    <3> QED
      BY <2>1, <3>1, <3>2, <3>3
  <2> QED
    BY <2>3, <2>7, <2>8
<1> QED
  BY <1>1, <1>2, <1>3, <1>4, <1>5, <1>6, <1>7 DEF Next, CallStep, RunStep

-----------------------------------------------------------------------------
(* Order of arrival.                                                        *)

\* The queue stays in the order of arrival, behind everyone granted.
LEMMA QueueStep == TypeOK /\ QueueInv /\ [Next]_vars => QueueInv'
<1> SUFFICES ASSUME TypeOK, QueueInv, [Next]_vars PROVE QueueInv'
  OBVIOUS
<1> USE DEF QueueInv, Arrived, InQueue, callVars, runVars, Goto
<1>1. ASSUME UNCHANGED <<queue, ticket, tickets, ready, call, cancelled>> PROVE QueueInv'
  BY <1>1
<1>2. CASE Tick \/ UNCHANGED vars
  BY <1>1, <1>2 DEF Tick, vars
<1>3. ASSUME NEW c \in Callers, Cancel(c) PROVE QueueInv'
  BY <1>3 DEF Cancel, TypeOK
<1>4. ASSUME NEW c \in Callers, Enter(c) \/ ReturnOk(c) \/ ReturnErr(c) PROVE QueueInv'
  BY <1>4 DEF Enter, ReturnOk, ReturnErr, TypeOK
<1>5. ASSUME NEW c \in Callers, Enqueue(c) PROVE QueueInv'
  <2>1. /\ call[c] = "checked" /\ call' = [call EXCEPT ![c] = "waiting"]
        /\ queue' = Append(queue, c) /\ tickets' = tickets + 1
        /\ ticket' = [ticket EXCEPT ![c] = tickets + 1]
        /\ UNCHANGED <<cancelled, ready>>
    BY <1>5 DEF Enqueue
  <2>2. /\ ticket[c] = 0 /\ c \notin ready /\ tickets \in Nat
        /\ \A i \in DOMAIN queue : queue[i] # c /\ queue[i] \in Callers
    BY <2>1 DEF TypeOK
  <2>3. \A d \in Callers : d # c => ticket'[d] = ticket[d] /\ ticket[d] \in Nat
                                     /\ ticket[d] <= tickets
    BY <2>1 DEF TypeOK
  <2>4. ticket'[c] = tickets + 1
    BY <2>1 DEF TypeOK
  <2>5. /\ DOMAIN queue = 1 .. Len(queue) /\ Len(queue) \in Nat
        /\ DOMAIN queue' = 1 .. Len(queue) + 1
        /\ \A i \in 1 .. Len(queue) : queue'[i] = queue[i]
        /\ queue'[Len(queue) + 1] = c
    BY <2>1, AppendOperation DEF TypeOK
  <2>6. \A i \in DOMAIN queue' : \/ i \in DOMAIN queue /\ queue'[i] = queue[i]
                                 \/ i = Len(queue) + 1 /\ queue'[i] = c
    BY <2>5
  <2>7. (\A d \in Callers : ticket[d] <= tickets)'
    BY <2>1, <2>2, <2>3, <2>4
  <2>8. (\A d \in Callers : call[d] \in {"idle", "checked"} => ~Arrived(d))'
    BY <2>1, <2>3 DEF TypeOK
  <2>9. \A d \in ready : d # c /\ d \in Callers
    BY <2>2 DEF TypeOK
  <2>10. (\A d \in ready : Arrived(d))'
    BY <2>1, <2>3, <2>9
  <2>11. (\A i \in DOMAIN queue : Arrived(queue[i]) /\ queue[i] \notin ready)'
    BY <2>1, <2>2, <2>3, <2>4, <2>6
  <2>12. (\A i, j \in DOMAIN queue : i < j => ticket[queue[i]] < ticket[queue[j]])'
    <3> SUFFICES ASSUME NEW i \in DOMAIN queue', NEW j \in DOMAIN queue', i < j
                 PROVE  ticket'[queue'[i]] < ticket'[queue'[j]]
      OBVIOUS
    <3>1. i \in DOMAIN queue /\ queue'[i] = queue[i]
      BY <2>5
    <3>2. ticket'[queue'[i]] = ticket[queue[i]] /\ ticket[queue[i]] <= tickets
          /\ ticket[queue[i]] \in Nat
      BY <3>1, <2>2, <2>3
    <3>3. CASE j \in DOMAIN queue /\ queue'[j] = queue[j]
      BY <3>1, <3>2, <3>3, <2>2, <2>3
    <3>4. CASE queue'[j] = c
      BY <3>2, <3>4, <2>2, <2>4
    <3> QED
      BY <3>3, <3>4, <2>6
  <2>13. (\A d \in ready, i \in DOMAIN queue : ticket[d] < ticket[queue[i]])'
    <3> SUFFICES ASSUME NEW d \in ready, NEW i \in DOMAIN queue'
                 PROVE  ticket'[d] < ticket'[queue'[i]]
      BY <2>1
    <3>1. CASE i \in DOMAIN queue /\ queue'[i] = queue[i]
      BY <3>1, <2>2, <2>3, <2>9
    <3>2. CASE queue'[i] = c
      BY <3>2, <2>2, <2>3, <2>4, <2>9
    <3> QED
      BY <3>1, <3>2, <2>6
  <2>14. (\A d \in Callers : Arrived(d) => d \in ready \/ cancelled[d] \/ InQueue(d))'
    <3> SUFFICES ASSUME NEW d \in Callers, ticket'[d] # 0
                 PROVE  d \in ready \/ cancelled[d] \/ \E i \in DOMAIN queue' : queue'[i] = d
      BY <2>1
    <3>1. CASE d = c
      BY <3>1, <2>5
    <3>2. CASE d # c
      BY <3>2, <2>3, <2>5
    <3> QED
      BY <3>1, <3>2
  <2> QED
    BY <2>7, <2>8, <2>10, <2>11, <2>12, <2>13, <2>14
<1>6. ASSUME NEW r \in Runners, DropCancelled(r) \/ Grant(r) PROVE QueueInv'
  <2> DEFINE w == Head(queue)
  <2>1. /\ queue # <<>> /\ queue' = Tail(queue) /\ UNCHANGED <<ticket, tickets, call, cancelled>>
        /\ \/ cancelled[w] /\ ready' = ready
           \/ ready' = ready \cup {w}
    BY <1>6 DEF DropCancelled, Grant, StillFirst
  <2>2. /\ DOMAIN queue = 1 .. Len(queue) /\ Len(queue) \in Nat /\ Len(queue) >= 1
        /\ w = queue[1] /\ w \in Callers
        /\ DOMAIN queue' = 1 .. Len(queue) - 1
        /\ \A i \in 1 .. Len(queue) - 1 : queue'[i] = queue[i + 1]
    BY <2>1, TailOperation DEF TypeOK
  <2>3. \A i \in DOMAIN queue' : /\ i + 1 \in DOMAIN queue /\ queue'[i] = queue[i + 1]
                                 /\ ticket[w] < ticket[queue'[i]]
    BY <2>2
  <2>4. \A c \in ready' : c \in ready \/ c = w
    BY <2>1
  <2>5. (\A c \in ready : Arrived(c))'
    BY <2>1, <2>2, <2>4
  <2>6. (\A i \in DOMAIN queue : Arrived(queue[i]) /\ queue[i] \notin ready)'
    <3> SUFFICES ASSUME NEW i \in DOMAIN queue'
                 PROVE  ticket[queue'[i]] # 0 /\ queue'[i] \notin ready'
      BY <2>1
    <3>1. ticket[w] \in Nat /\ ticket[queue'[i]] # ticket[w]
      BY <2>2, <2>3 DEF TypeOK
    <3> QED
      BY <3>1, <2>3, <2>4
  <2>7. (\A i, j \in DOMAIN queue : i < j => ticket[queue[i]] < ticket[queue[j]])'
    <3> SUFFICES ASSUME NEW i \in DOMAIN queue', NEW j \in DOMAIN queue', i < j
                 PROVE  ticket[queue'[i]] < ticket[queue'[j]]
      BY <2>1
    <3>1. i + 1 \in DOMAIN queue /\ j + 1 \in DOMAIN queue /\ i + 1 < j + 1
      BY <2>2
    <3> QED
      BY <3>1, <2>3
  <2>8. (\A c \in ready, i \in DOMAIN queue : ticket[c] < ticket[queue[i]])'
    BY <2>1, <2>3, <2>4
  <2>9. (\A c \in Callers : Arrived(c) => c \in ready \/ cancelled[c] \/ InQueue(c))'
    <3> SUFFICES ASSUME NEW c \in Callers, ticket[c] # 0, c # w, c \notin ready, ~cancelled[c]
                 PROVE  \E i \in DOMAIN queue' : queue'[i] = c
      BY <2>1
    <3>1. PICK i \in DOMAIN queue : queue[i] = c
      OBVIOUS
    <3>2. i # 1 /\ i \in 1 .. Len(queue)
      BY <3>1, <2>2
    <3>3. i - 1 \in DOMAIN queue' /\ queue'[i - 1] = queue[(i - 1) + 1] /\ (i - 1) + 1 = i
      BY <3>2, <2>2
    <3> QED
      BY <3>1, <3>3
  <2> QED
    BY <2>1, <2>5, <2>6, <2>7, <2>8, <2>9
<1>7. ASSUME NEW r \in Runners,
             Finish(r) \/ Choose(r) \/ TimerFires(r) \/ TimerAbandoned(r) \/ GrantRefused(r)
      PROVE  QueueInv'
  BY <1>1, <1>7 DEF Finish, Choose, TimerFires, TimerAbandoned, GrantRefused
<1> QED
  BY <1>2, <1>3, <1>4, <1>5, <1>6, <1>7 DEF Next, CallStep, RunStep

-----------------------------------------------------------------------------
(* The theorems.                                                            *)

\* The whole invariant is inductive.
LEMMA LimiterInvariant == Spec => []LimiterInv
<1>1. Init => LimiterInv
  <2> SUFFICES ASSUME Init PROVE LimiterInv
    OBVIOUS
  <2>1. queue = <<>> /\ DOMAIN queue = {} /\ queue \in Seq(Callers) /\ ready = {}
    BY DEF Init
  <2>2. target \in [Runners -> Callers]
    BY LimiterConstants DEF Init
  <2>3. TypeOK
    BY <2>1, <2>2 DEF Init, TypeOK, CallState, RunState
  <2>4. RunnerInv /\ IntervalInv /\ Spacing
    BY <2>1 DEF Init, RunnerInv, IntervalInv, Spacing
  <2>5. QueueInv
    BY <2>1 DEF Init, QueueInv, Arrived
  <2> QED
    BY <2>3, <2>4, <2>5 DEF LimiterInv
<1>2. LimiterInv /\ [Next]_vars => LimiterInv'
  BY TypeStep, RunnerStep, IntervalStep, QueueStep DEF LimiterInv
<1> QED
  BY <1>1, <1>2, PTL DEF Spec

\* The limiter's state keeps its types: next and the queue hold times and callers
\* of the client, whoever is cancelled.
THEOREM TypeCorrect == Spec => []TypeOK
<1>1. LimiterInv => TypeOK
  BY DEF LimiterInv
<1> QED
  BY <1>1, LimiterInvariant, PTL

\* Grants are at least minInterval apart.
THEOREM GrantsSpaced == Spec => []Spacing
<1>1. LimiterInv => Spacing
  BY DEF LimiterInv
<1> QED
  BY <1>1, LimiterInvariant, PTL

\* Nobody who waits is overtaken.
THEOREM GrantsInOrder == Spec => []NoOvertaking
<1>1. LimiterInv => NoOvertaking
  <2> SUFFICES ASSUME LimiterInv, NEW c \in ready, NEW d \in Callers, ticket[d] \in 1 .. ticket[c],
                      d \notin ready, ~cancelled[d]
               PROVE  FALSE
    BY DEF NoOvertaking
  <2>1. TypeOK /\ QueueInv
    BY DEF LimiterInv
  <2>2. c \in Callers /\ ticket[c] \in Nat /\ ticket[d] \in Nat /\ ticket[d] # 0
    BY <2>1 DEF TypeOK
  <2>3. InQueue(d)
    BY <2>1, <2>2 DEF QueueInv, Arrived
  <2>4. PICK i \in DOMAIN queue : queue[i] = d
    BY <2>3 DEF InQueue
  <2>5. ticket[c] < ticket[d]
    BY <2>1, <2>4 DEF QueueInv
  <2> QED
    BY <2>2, <2>5
<1> QED
  BY <1>1, LimiterInvariant, PTL

\* There is one goroutine in run whenever somebody waits, and never two.
THEOREM RunnerUnique == Spec => []OneRunner
<1>1. LimiterInv => OneRunner
  BY DEF LimiterInv, RunnerInv, OneRunner
<1> QED
  BY <1>1, LimiterInvariant, PTL
=============================================================================
