---------------------------- MODULE ResponseCache ----------------------------
(***************************************************************************)
(* The single-flight caches of the Beacon API client: block bodies,         *)
(* canonical roots, head polls, committees and the latest head.  The first  *)
(* caller for a key inserts an entry and asks the node; later callers wait  *)
(* for that entry; a stale entry is replaced; a cache that is full of       *)
(* requests in flight lets a caller ask the node without an entry.  The     *)
(* five caches run one algorithm with different policies, and differ in how *)
(* a fetch talks to the node.                                               *)
(*                                                                          *)
(* A caller makes one call after the other, with different arguments; an    *)
(* entry in flight is known by the caller that leads it.  One action is one *)
(* critical section of the cache's mutex, or one message of the node; who   *)
(* waits for an entry returns in the step that closes its channel.          *)
(***************************************************************************)
EXTENDS Integers, FiniteSets

CONSTANTS
  Calls,         \* callers, numbered: a free one with the least number calls
  Keys,          \* slots
  Asked,         \* the slots asked of each cache; the latest head has one
  Moving,        \* the slots whose block appears or is reorganised away
  First,         \* the version of each slot at the start
  Versions,      \* versions of a slot: numbers, even while a header request finds
                 \* none: no block, one not canonical, or execution_optimistic
  MaxVersion,    \* bound on versions of a slot, for each cache
  MaxTime,       \* bound on now
  TTL,           \* the lifetime of an entry, for the caches that have one
  Timeout,       \* requestTimeout: how long an answer may take to arrive
  MaxLookback,   \* maxCanonicalRootLookback
  PollDeadline,  \* the deadline of HeadUpdated
  FetchCap,      \* for each cache: maxBlockFetches, maxCanonicalRootFetches, maxHeadPolls
  EntryCap       \* maxBlockCacheEntries, maxCanonicalRootCache, ...

Kinds == {"block", "root", "head", "latest", "committee"}

ASSUME CacheConstants ==
  /\ Calls \subseteq Nat \ {0} /\ Keys \subseteq Nat \ {0}
  /\ Moving \subseteq Keys /\ Asked \in [Kinds -> SUBSET Keys]
  /\ First \in [Keys -> {0, 1}]
  /\ Versions \subseteq Nat /\ {0, 1} \subseteq Versions /\ \A v \in Versions : 0 .. v \subseteq Versions
  /\ MaxVersion \in [Kinds -> Versions]
  /\ {MaxTime, TTL, Timeout, MaxLookback, PollDeadline} \subseteq Nat /\ TTL > 0
  /\ FetchCap \in [Kinds -> Nat] /\ EntryCap \in Nat \ {0} /\ \A p \in Kinds : EntryCap =< FetchCap[p]
  /\ PollDeadline =< MaxTime

VARIABLES
  policy,            \* which of the five caches this is
  endpoint,          \* how the node treats the attestations-only endpoint
  now,
  chain, until,      \* the node: version held of a slot, when one was given up
  entry,             \* the cache's map: what it has for a slot
  support,           \* blockAttestationsEndpoint
  pc,                \* a caller: "idle", "wait" for an entry, "fetch" from the node
  key, want, began,  \* the arguments of its call and when it was made
  on,                \* the leader of its entry, None when it fetches without one
  step, at, read, readAt,    \* its request: endpoint, slot, the node's answer and when
  said               \* the answer given in the last step

nodeVars  == <<endpoint, chain, until>>
callVars  == <<key, want, began, on>>
fetchVars == <<step, at, read, readAt>>
vars == <<policy, now, nodeVars, entry, support, pc, callVars, fetchVars, said>>

None == 0
Forever == MaxTime + TTL + 1

\* The answer of an entry that has none yet.
Open == [slot |-> 0, v |-> 0, found |-> FALSE]

\* No entry, one in flight and a complete one.
Nothing == [state |-> "none", by |-> None, want |-> 0, ans |-> Open, fetched |-> 0]
InFlight(c, w) == [state |-> "flight", by |-> c, want |-> w, ans |-> Open, fetched |-> 0]
\* Mutant: the entry keeps when it expires, not when it was fetched.
CompleteExpiry(w, a, t) ==
  [state |-> "complete", by |-> None, want |-> w, ans |-> a, fetched |-> t + policy.ttl]

Complete(w, a, t) == [state |-> "complete", by |-> None, want |-> w, ans |-> a, fetched |-> t]

NoRead == [slot |-> 0, v |-> 0, code |-> "none"]

Present(v) == v % 2 = 1

-----------------------------------------------------------------------------
(* The five caches. *)

BlockBodies    == [kind |-> "block", ttl |-> TTL, capped |-> TRUE, trims |-> TRUE, counts |-> {0}]
CanonicalRoots == [kind |-> "root", ttl |-> TTL, capped |-> TRUE, trims |-> TRUE, counts |-> {0}]
HeadPolls      == [kind |-> "head", ttl |-> Forever, capped |-> TRUE, trims |-> TRUE, counts |-> {0}]
LatestHead     == [kind |-> "latest", ttl |-> TTL, capped |-> FALSE, trims |-> FALSE, counts |-> {0}]
Committees     == [kind |-> "committee", ttl |-> TTL, capped |-> FALSE, trims |-> TRUE, counts |-> {1, 2}]

Policies == {BlockBodies, CanonicalRoots, HeadPolls, LatestHead, Committees}

\* The node reports one number of committees.
NodeCount == 1

Init ==
  /\ policy \in Policies
  /\ endpoint \in IF policy.kind = "block" THEN {"yes", "notfound", "notallowed"} ELSE {"yes"}
  /\ now = 0
  /\ chain = First
  /\ until = [k \in Keys |-> [v \in Versions |-> Forever]]
  /\ entry = [k \in Keys |-> Nothing]
  /\ support = "unknown"
  /\ pc = [c \in Calls |-> "idle"]
  /\ key = [c \in Calls |-> 0] /\ want = [c \in Calls |-> 0]
  /\ began = [c \in Calls |-> 0] /\ on = [c \in Calls |-> None]
  /\ step = [c \in Calls |-> "none"] /\ at = [c \in Calls |-> 0]
  /\ read = [c \in Calls |-> NoRead] /\ readAt = [c \in Calls |-> 0]
  /\ said = {}

-----------------------------------------------------------------------------
(* The environment: time and the node's chain. *)

\* An answer that takes longer than Timeout never arrives: the request fails.
Tick ==
  /\ now < MaxTime
  /\ \A c \in Calls : pc[c] = "fetch" /\ read[c] # NoRead => now < readAt[c] + Timeout
  /\ now' = now + 1
  /\ UNCHANGED <<policy, nodeVars, entry, support, pc, callVars, fetchVars>>
  /\ said' = {}

\* A block is imported, a reorganisation removes or replaces it, or the node
\* turns optimistic about it.
ChainMoves(k) ==
  /\ chain[k] < MaxVersion[policy.kind]
  /\ chain' = [chain EXCEPT ![k] = @ + 1]
  /\ until' = [until EXCEPT ![k][chain[k]] = now]
  /\ UNCHANGED <<policy, endpoint, now, entry, support, pc, callVars, fetchVars>>
  /\ said' = {}

\* The node answers the request in flight from the chain it holds now.  A node
\* without the attestations-only endpoint answers it with 404, 405 or 501.
NodeAnswers(c) ==
  /\ pc[c] = "fetch" /\ read[c] = NoRead
  /\ LET v == chain[at[c]]
         code == CASE step[c] = "attestations" /\ endpoint = "notallowed" -> "unsupported"
                   [] step[c] = "attestations" /\ endpoint = "notfound" -> "missing"
                   [] OTHER -> IF Present(v) THEN "found" ELSE "missing"
     IN read' = [read EXCEPT ![c] = [slot |-> at[c], v |-> v, code |-> code]]
  /\ readAt' = [readAt EXCEPT ![c] = now]
  /\ UNCHANGED <<policy, now, nodeVars, entry, support, pc, callVars, step, at>>
  /\ said' = {}

-----------------------------------------------------------------------------
(* A call, up to its request. *)

\* Mutant: an entry never expires.
FreshForever(e) == TRUE

Fresh(e) == e.state = "flight" \/ now - e.fetched < policy.ttl

\* Mutant: the expected number of committees is not compared.
UsableAnyCount(k, w) == entry[k] # Nothing /\ Fresh(entry[k])

\* An entry to use: in flight or fresh, and for the same number of committees.
Usable(k, w) == entry[k] # Nothing /\ entry[k].want = w /\ Fresh(entry[k])

Filled(e) == {k \in Keys : e[k] # Nothing}

\* No room for another entry once the one of k, if any, is deleted as stale.
Full(k) == policy.capped /\ Cardinality(Filled(entry) \ {k}) >= FetchCap[policy.kind]

\* The first request: headers and committees have one endpoint, a block body
\* the one that the node is not known to lack.
FirstStep ==
  CASE policy.kind = "block" -> IF support = "unsupported" THEN "block" ELSE "attestations"
    [] OTHER -> policy.kind

Arrive(c, k, w) ==
  /\ pc[c] = "idle" /\ \A d \in Calls : d < c => pc[d] # "idle"
  /\ key' = [key EXCEPT ![c] = k] /\ want' = [want EXCEPT ![c] = w]
  /\ began' = [began EXCEPT ![c] = now]
  /\ said' = {}
  /\ UNCHANGED <<policy, now, nodeVars, support, read, readAt>>

Send(c, k) ==
  /\ pc' = [pc EXCEPT ![c] = "fetch"]
  /\ step' = [step EXCEPT ![c] = FirstStep]
  /\ at' = [at EXCEPT ![c] = k]

\* A fresh entry that is complete answers at once.
Hit(c, k, w) ==
  /\ pc[c] = "idle" /\ \A d \in Calls : d < c => pc[d] # "idle"
  /\ Usable(k, w) /\ entry[k].state = "complete"
  /\ said' = {entry[k].ans}
  /\ UNCHANGED <<policy, now, nodeVars, entry, support, pc, callVars, fetchVars>>

\* Somebody asks the node already: wait for that entry.
Join(c, k, w) ==
  /\ Arrive(c, k, w)
  /\ Usable(k, w) /\ entry[k].state = "flight"
  /\ pc' = [pc EXCEPT ![c] = "wait"]
  /\ on' = [on EXCEPT ![c] = entry[k].by]
  /\ UNCHANGED <<entry, step, at>>

\* No entry and no room for one: ask the node for this call alone.
FetchUncached(c, k, w) ==
  /\ Arrive(c, k, w)
  /\ ~Usable(k, w) /\ Full(k)
  /\ Send(c, k)
  /\ entry' = [entry EXCEPT ![k] = Nothing]
  /\ UNCHANGED on

\* No entry, or one that is stale or for another number of committees: replace it.
Lead(c, k, w) ==
  /\ Arrive(c, k, w)
  /\ ~Usable(k, w) /\ ~Full(k)
  /\ Send(c, k)
  /\ entry' = [entry EXCEPT ![k] = InFlight(c, w)]
  /\ on' = [on EXCEPT ![c] = c]

-----------------------------------------------------------------------------
(* The end of a fetch. *)

Done(e) == {k \in Keys : e[k].state = "complete"}

\* Mutant: the oldest slot goes whether or not its fetch is over.
TrimAny(e) ==
  LET surplus == Cardinality(Filled(e)) - EntryCap
  IN [k \in Keys |-> IF k \in Filled(e) /\ Cardinality({j \in Filled(e) : j < k}) < surplus
                     THEN Nothing ELSE e[k]]

\* While there are more than EntryCap entries the oldest slot among the complete
\* ones goes; entries in flight stay.
Trim(e) ==
  LET surplus == Cardinality(Filled(e)) - EntryCap
      evicted == {k \in Done(e) : Cardinality({j \in Done(e) : j < k}) < surplus}
  IN [k \in Keys |-> IF k \in evicted THEN Nothing ELSE e[k]]

Leads(c, k) == entry[k].state = "flight" /\ entry[k].by = c

\* A failed fetch leaves no entry.  The caches whose entry may have been replaced
\* while in flight delete only their own.
Forget(c, k) ==
  IF policy.kind \in {"latest", "committee"} /\ ~Leads(c, k) THEN entry
  ELSE [entry EXCEPT ![k] = Nothing]

\* Mutant: nothing is evicted.
StoreAll(c, k, a) ==
  IF Leads(c, k) THEN [entry EXCEPT ![k] = Complete(want[c], a, now)] ELSE entry

\* A successful one completes its entry, if that is still the one in the map.
Store(c, k, a) ==
  LET e == IF Leads(c, k) THEN [entry EXCEPT ![k] = Complete(want[c], a, now)] ELSE entry
  IN IF policy.trims THEN Trim(e) ELSE e

\* The calls that end with the fetch of c.
Ended(c) == {c} \cup {d \in Calls : pc[d] = "wait" /\ on[d] = c}

Cleared(f, S, zero) == [c \in Calls |-> IF c \in S THEN zero ELSE f[c]]

Return(S) ==
  /\ pc' = Cleared(pc, S, "idle")
  /\ key' = Cleared(key, S, 0) /\ want' = Cleared(want, S, 0)
  /\ began' = Cleared(began, S, 0) /\ on' = Cleared(on, S, None)
  /\ step' = Cleared(step, S, "none") /\ at' = Cleared(at, S, 0)
  /\ read' = Cleared(read, S, NoRead) /\ readAt' = Cleared(readAt, S, 0)
  /\ UNCHANGED <<policy, now, nodeVars>>

FetchFails(c) ==
  /\ Return(Ended(c))
  /\ entry' = IF on[c] = c THEN Forget(c, key[c]) ELSE entry
  /\ said' = {}

\* What a fetch returns: what the node answered, and "not found" if it did not,
\* which only a head poll returns without an error.
Answer(c) ==
  IF read[c] = NoRead THEN [slot |-> key[c], v |-> 0, found |-> FALSE]
  ELSE [slot |-> read[c].slot, v |-> read[c].v, found |-> read[c].code = "found"]

FetchSucceeds(c) ==
  /\ Return(Ended(c))
  /\ entry' = IF on[c] = c THEN Store(c, key[c], Answer(c)) ELSE entry
  /\ said' = {Answer(c)}

\* The fetch goes on with another request.
Resend(c, s, k) ==
  /\ step' = [step EXCEPT ![c] = s]
  /\ at' = [at EXCEPT ![c] = k]
  /\ read' = [read EXCEPT ![c] = NoRead] /\ readAt' = [readAt EXCEPT ![c] = 0]
  /\ said' = {}
  /\ UNCHANGED <<policy, now, nodeVars, entry, pc, callVars>>

Received(c, s) == pc[c] = "fetch" /\ step[c] = s /\ read[c] # NoRead

-----------------------------------------------------------------------------
(* What the caller does with an answer of the node. *)

\* The request fails: transport, timeout, a cancelled context, a refused body.
RequestFails(c) ==
  /\ pc[c] = "fetch" /\ step[c] \notin {"remember", "head"}
  /\ FetchFails(c)
  /\ UNCHANGED support

\* Block body: the attestations-only endpoint has the block.
BodyFound(c) ==
  /\ Received(c, "attestations") /\ read[c].code = "found"
  /\ support' = "supported"
  /\ FetchSucceeds(c)

\* 404 of an endpoint that is known to be there: the slot has no block.
BodyMissing(c) ==
  /\ Received(c, "attestations") /\ read[c].code = "missing"
  /\ support = "supported"
  /\ FetchSucceeds(c)
  /\ UNCHANGED support

\* 404 of an endpoint that may not be there, or 405 or 501: ask for the whole block.
FallBack(c) ==
  /\ Received(c, "attestations")
  /\ \/ read[c].code = "unsupported" /\ support' = "unsupported"
     \/ read[c].code = "missing" /\ support # "supported" /\ UNCHANGED support
  /\ Resend(c, "block", key[c])

\* The whole block came: an endpoint that is unknown is taken to be lacking, in
\* a critical section of its own.
LegacyFound(c) ==
  /\ Received(c, "block") /\ read[c].code = "found"
  /\ \/ /\ support = "unknown"
        /\ step' = [step EXCEPT ![c] = "remember"]
        /\ said' = {}
        /\ UNCHANGED <<policy, now, nodeVars, entry, pc, callVars, at, read, readAt>>
     \/ /\ support # "unknown"
        /\ FetchSucceeds(c)
  /\ UNCHANGED support

RememberUnsupported(c) ==
  /\ pc[c] = "fetch" /\ step[c] = "remember"
  /\ support' = "unsupported"
  /\ FetchSucceeds(c)

LegacyMissing(c) ==
  /\ Received(c, "block") /\ read[c].code = "missing"
  /\ FetchSucceeds(c)
  /\ UNCHANGED support

\* Canonical root: the slot itself, then the slots before it.
RootFound(c) ==
  /\ Received(c, "root") /\ read[c].code = "found"
  /\ FetchSucceeds(c)
  /\ UNCHANGED support

RootLookback(c) ==
  /\ Received(c, "root") /\ read[c].code = "missing"
  /\ IF at[c] - 1 \in Keys /\ key[c] - (at[c] - 1) =< MaxLookback
     THEN Resend(c, "root", at[c] - 1)
     ELSE FetchFails(c)
  /\ UNCHANGED support

\* Head poll: the head is at the slot (version 1), not there yet (0), beyond it (2).
HeadReached(c) ==
  /\ Received(c, "head") /\ read[c].code = "found"
  /\ FetchSucceeds(c)
  /\ UNCHANGED support

HeadNotSeen(c) ==
  /\ Received(c, "head") /\ read[c].code = "missing"
  /\ read[c].v > 0 \/ now >= PollDeadline
  /\ FetchSucceeds(c)
  /\ UNCHANGED support

\* The request of a head poll fails, or the head is execution_optimistic: the
\* poll goes on, and at its deadline it returns "not found" and no error, which
\* is cached and shared like an answer.
HeadUnanswered(c) ==
  /\ pc[c] = "fetch" /\ step[c] = "head" /\ read[c] = NoRead
  /\ IF now < PollDeadline THEN Resend(c, "head", key[c]) ELSE FetchSucceeds(c)
  /\ UNCHANGED support

\* Only its own context ends a head poll with an error.
HeadCancelled(c) ==
  /\ pc[c] = "fetch" /\ step[c] = "head"
  /\ FetchFails(c)
  /\ UNCHANGED support

\* Mutant: the poll does not look at its deadline.
HeadPollForever(c) ==
  /\ Received(c, "head") /\ read[c].code = "missing"
  /\ read[c].v = 0
  /\ Resend(c, "head", key[c])
  /\ UNCHANGED support

HeadPollAgain(c) ==
  /\ Received(c, "head") /\ read[c].code = "missing"
  /\ read[c].v = 0 /\ now < PollDeadline
  /\ Resend(c, "head", key[c])
  /\ UNCHANGED support

LatestReceived(c) ==
  /\ Received(c, "latest")
  /\ FetchSucceeds(c)
  /\ UNCHANGED support

\* Committees of a slot that are not there, or not as many as expected, are an error.
CommitteesReceived(c) ==
  /\ Received(c, "committee")
  /\ IF read[c].code = "found" /\ want[c] = NodeCount THEN FetchSucceeds(c) ELSE FetchFails(c)
  /\ UNCHANGED support

\* The waiter's own context is cancelled.
WaitCancelled(c) ==
  /\ pc[c] = "wait"
  /\ Return({c})
  /\ said' = {}
  /\ UNCHANGED <<entry, support>>

\* What the goroutine of a call does once the node has answered.
Proceed(c) ==
  \/ BodyFound(c) \/ BodyMissing(c) \/ FallBack(c)
  \/ LegacyFound(c) \/ RememberUnsupported(c) \/ LegacyMissing(c)
  \/ RootFound(c) \/ RootLookback(c)
  \/ HeadReached(c) \/ HeadNotSeen(c) \/ HeadPollAgain(c)
  \/ LatestReceived(c) \/ CommitteesReceived(c)

Next ==
  \/ Tick
  \/ \E k \in Moving : ChainMoves(k)
  \/ \E c \in Calls :
       \/ \E k \in Asked[policy.kind], w \in policy.counts :
            Hit(c, k, w) \/ Join(c, k, w) \/ FetchUncached(c, k, w) \/ Lead(c, k, w)
       \/ NodeAnswers(c) \/ RequestFails(c) \/ WaitCancelled(c)
       \/ HeadUnanswered(c) \/ HeadCancelled(c)
       \/ Proceed(c)

Spec == Init /\ [][Next]_vars

\* Time passes, and a call that fetches goes on: its request is answered or fails,
\* at the latest by its timeout, and its goroutine is run.
Fairness ==
  /\ WF_vars(Tick)
  /\ \A c \in Calls :
       WF_vars(NodeAnswers(c) \/ Proceed(c) \/ RequestFails(c) \/ HeadUnanswered(c))

FairSpec == Spec /\ Fairness

-----------------------------------------------------------------------------
(* Properties. *)

Codes == {"none", "found", "missing", "unsupported"}
Steps == {"none", "attestations", "block", "remember", "root", "head", "latest", "committee"}
Answers == [slot : Keys, v : Versions, found : BOOLEAN]
Entries == [state : {"none", "flight", "complete"}, by : Calls \cup {None}, want : 0 .. 2,
            ans : Answers \cup {Open}, fetched : 0 .. MaxTime]

\* Types of the caches, their entries, the calls and their requests.
TypeOK ==
  /\ policy \in Policies /\ endpoint \in {"yes", "notfound", "notallowed"}
  /\ now \in 0 .. MaxTime
  /\ chain \in [Keys -> Versions]
  /\ until \in [Keys -> [Versions -> Nat]]
  /\ entry \in [Keys -> Entries]
  /\ support \in {"unknown", "supported", "unsupported"}
  /\ pc \in [Calls -> {"idle", "wait", "fetch"}]
  /\ key \in [Calls -> Keys \cup {0}] /\ want \in [Calls -> 0 .. 2]
  /\ began \in [Calls -> 0 .. MaxTime] /\ on \in [Calls -> Calls \cup {None}]
  /\ step \in [Calls -> Steps] /\ at \in [Calls -> Keys \cup {0}]
  /\ read \in [Calls -> [slot : Keys \cup {0}, v : Versions, code : Codes]]
  /\ readAt \in [Calls -> 0 .. MaxTime]
  /\ said \subseteq Answers

\* A fetch in flight is the only one for its slot, and stays in the map until it
\* is over: no expiry, eviction or failure of another call takes it away
\* (fetchBlockBody, canonicalRootAtSlot, HeadUpdated, latestCanonicalHead).
\* Committees are exempt: another expected count replaces an entry in flight.
SingleFlight ==
  policy.kind # "committee" =>
    \A c \in Calls : pc[c] = "fetch" /\ on[c] = c => Leads(c, key[c])

\* Every caller that waits has a leader that is still fetching for it, the same
\* slot and the same number of committees: nobody waits for an entry whose
\* fetch is over.
WaitersHaveLeader ==
  \A d \in Calls : pc[d] = "wait" =>
    LET c == on[d] IN pc[c] = "fetch" /\ on[c] = c /\ key[c] = key[d] /\ want[c] = want[d]

\* The caches stay within their bounds: complete entries within the number kept,
\* requests in flight and entries together within the number of fetches.
CacheBounded ==
  /\ policy.trims => Cardinality(Done(entry)) =< EntryCap
  /\ policy.capped => Cardinality(Filled(entry)) =< FetchCap[policy.kind]

\* Every call returns, whatever happens to the call that leads its entry.
CallsReturn == \A c \in Calls : pc[c] # "idle" ~> pc[c] = "idle"

\* The caches implement the promise of ReadThrough: with every interleaving of
\* callers, expiry, eviction, endpoint detection and reorganisations an answer
\* is about the slot asked, true of the node, and at most a lifetime and a
\* request's duration older than the call.  The exception is the "not found" of
\* a head poll, which may rest on no answer of the node at all.
Promise == INSTANCE ReadThrough WITH
  reach <- IF policy.kind = "root" THEN MaxLookback ELSE 0,
  maxAge <- policy.ttl + Timeout,
  vague <- policy.kind = "head",
  asked <- key

ImplementsReadThrough == Promise!Spec
=============================================================================
