------------------------ MODULE ResponseCacheProofs ------------------------
(***************************************************************************)
(* Proofs about ResponseCache for every number of callers, slots, versions  *)
(* of a slot and lifetimes, and for each of the five policies.              *)
(***************************************************************************)
EXTENDS ResponseCache, FiniteSetTheorems, WellFoundedInduction, TLAPS

-----------------------------------------------------------------------------
(* The inductive invariant, in parts.                                       *)

Reach == IF policy.kind = "root" THEN MaxLookback ELSE 0

\* An entry in flight has a leader that fetches for it.
FlightInv ==
  \A k \in Keys : entry[k].state = "flight" =>
    LET c == entry[k].by
    IN c \in Calls /\ pc[c] = "fetch" /\ on[c] = c /\ key[c] = k /\ want[c] = entry[k].want

\* Entries are for the counts this cache is asked for.
CountInv ==
  \A k \in Keys : entry[k] # Nothing => entry[k].want \in policy.counts

\* The arguments of a call, by where it is.
CallInv ==
  \A c \in Calls :
    /\ pc[c] = "idle" => key[c] = 0 /\ on[c] = None
    /\ pc[c] # "fetch" => read[c] = NoRead
    /\ pc[c] # "idle" => key[c] \in Keys
    /\ pc[c] = "wait" => on[c] \in Calls
    /\ pc[c] = "fetch" => on[c] \in {c, None} /\ at[c] \in Keys
    /\ began[c] =< now

\* The request of a call is one of its cache, within reach of the slot asked.
RequestInv ==
  \A c \in Calls : pc[c] = "fetch" =>
    /\ IF policy.kind = "block" THEN step[c] \in {"attestations", "block", "remember"}
       ELSE step[c] = policy.kind
    /\ at[c] \in key[c] - Reach .. key[c]
    /\ step[c] = "remember" => read[c] # NoRead

\* The node held the version v of a slot at time t or later.
Held(slot, v, t) == chain[slot] = v \/ (chain[slot] > v /\ t =< until[slot][v])

\* What the node answered was true of it at that time, which is a Timeout ago at most.
ReadInv ==
  /\ support = "supported" => endpoint = "yes"
  /\ \A c \in Calls : pc[c] = "fetch" /\ read[c] # NoRead =>
       /\ read[c].slot = at[c] /\ Held(at[c], read[c].v, readAt[c])
       /\ readAt[c] =< now /\ now =< readAt[c] + Timeout
       /\ step[c] # "attestations" \/ endpoint = "yes" => (read[c].code = "found" <=> Present(read[c].v))
       /\ read[c].code = "found" => Present(read[c].v)
       /\ step[c] = "attestations" /\ endpoint # "yes" => read[c].code # "found"

\* The "not found" of a head poll may rest on no answer of the node.
Vague(a) == policy.kind = "head" /\ ~a.found

\* What a complete entry keeps was true of the node a Timeout before it was fetched.
EntryInv ==
  \A k \in Keys : entry[k].state = "complete" =>
    LET a == entry[k].ans
    IN /\ a \in Answers /\ a.slot \in k - Reach .. k
       /\ a.found <=> Present(a.v)
       /\ Vague(a) \/ Held(a.slot, a.v, entry[k].fetched - Timeout)
       /\ entry[k].fetched =< now

\* The entries can be counted.
BoundInv == IsFiniteSet(Filled(entry)) /\ CacheBounded

IInv ==
  /\ TypeOK /\ FlightInv /\ CountInv /\ CallInv /\ RequestInv /\ ReadInv /\ EntryInv
  /\ SingleFlight /\ WaitersHaveLeader /\ BoundInv

-----------------------------------------------------------------------------
(* The constants and the policies.                                          *)

\* The constants, one by one.
LEMMA Naturals ==
  /\ MaxTime \in Nat /\ TTL \in Nat /\ TTL > 0 /\ Timeout \in Nat /\ MaxLookback \in Nat
  /\ PollDeadline \in Nat /\ FetchCap \in [Kinds -> Nat] /\ EntryCap \in Nat /\ EntryCap > 0
  /\ Keys \subseteq Nat /\ 0 \notin Keys /\ Calls \subseteq Nat /\ None \notin Calls /\ Versions \subseteq Nat
  /\ 0 \in Versions /\ Moving \subseteq Keys /\ Forever \in Nat /\ Forever > 0
  BY CacheConstants DEF None, Forever

\* What the five policies have in common.
LEMMA PolicyFacts ==
  ASSUME NEW p \in Policies
  PROVE  /\ p.kind \in Kinds /\ p.ttl \in Nat /\ p.ttl > 0 /\ p.capped \in BOOLEAN /\ p.trims \in BOOLEAN
         /\ p.counts \subseteq 0 .. 2
         /\ p.kind # "committee" => p.counts = {0}
         /\ p.capped => p.kind \in {"block", "root", "head"}
<1>1. p \in {BlockBodies, CanonicalRoots, HeadPolls, LatestHead, Committees}
  BY DEF Policies
<1>2. TTL \in Nat /\ TTL > 0 /\ Forever \in Nat /\ Forever > 0 /\ {0} \subseteq 0 .. 2 /\ {1, 2} \subseteq 0 .. 2
  BY Naturals
<1>3. CASE p = BlockBodies
  BY <1>2, <1>3 DEF BlockBodies, Kinds
<1>4. CASE p = CanonicalRoots
  BY <1>2, <1>4 DEF CanonicalRoots, Kinds
<1>5. CASE p = HeadPolls
  BY <1>2, <1>5 DEF HeadPolls, Kinds
<1>6. CASE p = LatestHead
  BY <1>2, <1>6 DEF LatestHead, Kinds
<1>7. CASE p = Committees
  BY <1>2, <1>7 DEF Committees, Kinds
<1> QED
  BY <1>1, <1>3, <1>4, <1>5, <1>6, <1>7

\* The number of fetches of a cache.
LEMMA CapFacts ==
  ASSUME policy \in Policies
  PROVE  FetchCap[policy.kind] \in Nat
<1>1. policy.kind \in Kinds
  BY PolicyFacts
<1> QED
  BY <1>1, Naturals

\* The cache's policy, its slots and its reach.
LEMMA CacheFacts ==
  ASSUME TypeOK
  PROVE  /\ policy \in Policies /\ Asked[policy.kind] \subseteq Keys /\ Reach \in Nat
         /\ MaxVersion[policy.kind] \in Versions
<1>1. policy \in Policies
  BY DEF TypeOK
<1>2. policy.kind \in Kinds
  BY <1>1, PolicyFacts
<1>3. Reach \in Nat
  BY Naturals DEF Reach
<1> QED
  BY <1>1, <1>2, <1>3, CacheConstants

-----------------------------------------------------------------------------
(* The steps of a call, by what they do to it.                              *)

\* The next request of a fetch.
Again(c, s, k) ==
  /\ Resend(c, s, k)
  /\ support' \in {support, "unsupported"}
  /\ \/ step[c] = "attestations" /\ s = "block" /\ k = key[c]
     \/ step[c] = "root" /\ s = "root" /\ k = at[c] - 1 /\ k \in Keys /\ key[c] - k =< MaxLookback
     \/ step[c] = "head" /\ s = "head" /\ k = key[c]

\* The whole block is there, and what that says of the node is yet to be noted.
Remembers(c) ==
  /\ read[c] # NoRead /\ step[c] = "block"
  /\ step' = [step EXCEPT ![c] = "remember"]
  /\ said' = {}
  /\ UNCHANGED <<policy, now, nodeVars, entry, pc, callVars, at, read, readAt, support>>

\* The end of a fetch without an error: with an answer of the node, or a head
\* poll at its deadline.
Answered(c) ==
  /\ read[c] # NoRead \/ step[c] = "head"
  /\ FetchSucceeds(c)
  /\ step[c] = "attestations" /\ read[c].code # "found" => support = "supported"
  /\ \/ support' \in {support, "unsupported"}
     \/ support' = "supported" /\ step[c] = "attestations" /\ read[c].code = "found"

Failed(c) == FetchFails(c) /\ UNCHANGED support

\* What a call does once the node has answered is one of four things.
LEMMA ProceedKinds ==
  ASSUME NEW c \in Calls, RequestInv, Proceed(c)
  PROVE  /\ pc[c] = "fetch"
         /\ \/ \E s \in Steps : \E k : Again(c, s, k)
            \/ Remembers(c) \/ Answered(c) \/ Failed(c)
<1> USE DEF Received
<1>1. CASE BodyFound(c) \/ BodyMissing(c)
  BY <1>1 DEF BodyFound, BodyMissing, Answered
<1>2. CASE FallBack(c)
  <2>1. /\ pc[c] = "fetch" /\ Again(c, "block", key[c])
    BY <1>2 DEF FallBack, Again
  <2> QED
    BY <2>1 DEF Steps
<1>3. CASE LegacyFound(c)
  BY <1>3 DEF LegacyFound, Remembers, Answered
<1>4. CASE RememberUnsupported(c)
  <2>1. pc[c] = "fetch" /\ step[c] = "remember" /\ read[c] # NoRead
    BY <1>4 DEF RememberUnsupported, RequestInv
  <2> QED
    BY <1>4, <2>1 DEF RememberUnsupported, Answered
<1>5. CASE LegacyMissing(c) \/ RootFound(c) \/ HeadReached(c) \/ HeadNotSeen(c) \/ LatestReceived(c)
  BY <1>5 DEF LegacyMissing, RootFound, HeadReached, HeadNotSeen, LatestReceived, Answered
<1>6. CASE RootLookback(c)
  <2>1. CASE at[c] - 1 \in Keys /\ key[c] - (at[c] - 1) =< MaxLookback
    <3>1. pc[c] = "fetch" /\ Again(c, "root", at[c] - 1)
      BY <1>6, <2>1 DEF RootLookback, Again
    <3> QED
      BY <3>1 DEF Steps
  <2>2. CASE ~(at[c] - 1 \in Keys /\ key[c] - (at[c] - 1) =< MaxLookback)
    BY <1>6, <2>2 DEF RootLookback, Failed
  <2> QED
    BY <2>1, <2>2
<1>7. CASE HeadPollAgain(c)
  <2>1. pc[c] = "fetch" /\ Again(c, "head", key[c])
    BY <1>7 DEF HeadPollAgain, Again
  <2> QED
    BY <2>1 DEF Steps
<1>8. CASE CommitteesReceived(c)
  BY <1>8 DEF CommitteesReceived, Answered, Failed
<1> QED
  BY <1>1, <1>2, <1>3, <1>4, <1>5, <1>6, <1>7, <1>8 DEF Proceed

\* The steps of the system, by kind.
LEMMA StepKinds ==
  ASSUME TypeOK, RequestInv, [Next]_vars
  PROVE  \/ Tick \/ (\E k \in Keys : ChainMoves(k)) \/ UNCHANGED vars
         \/ \E c \in Calls :
              \/ \E k \in Keys, w \in policy.counts :
                   Hit(c, k, w) \/ Join(c, k, w) \/ FetchUncached(c, k, w) \/ Lead(c, k, w)
              \/ NodeAnswers(c) \/ WaitCancelled(c)
              \/ pc[c] = "fetch" /\ \/ \E s \in Steps : \E k : Again(c, s, k)
                                    \/ Remembers(c) \/ Answered(c) \/ Failed(c)
<1>1. CASE \E k \in Moving : ChainMoves(k)
  BY <1>1, Naturals
<1>2. ASSUME NEW c \in Calls, RequestFails(c)
      PROVE  pc[c] = "fetch" /\ Failed(c)
  BY <1>2 DEF RequestFails, Failed
<1>4. ASSUME NEW c \in Calls, HeadUnanswered(c) \/ HeadCancelled(c)
      PROVE  pc[c] = "fetch" /\ \/ \E s \in Steps : \E k : Again(c, s, k)
                                \/ Answered(c) \/ Failed(c)
  <2>1. CASE HeadCancelled(c)
    BY <2>1 DEF HeadCancelled, Failed
  <2>2. CASE HeadUnanswered(c) /\ now < PollDeadline
    <3>1. pc[c] = "fetch" /\ Again(c, "head", key[c])
      BY <2>2 DEF HeadUnanswered, Again
    <3> QED
      BY <3>1 DEF Steps
  <2>3. CASE HeadUnanswered(c) /\ ~(now < PollDeadline)
    BY <2>3 DEF HeadUnanswered, Answered
  <2> QED
    BY <1>4, <2>1, <2>2, <2>3
<1>3. ASSUME NEW c \in Calls, NEW k \in Asked[policy.kind], NEW w \in policy.counts,
             Hit(c, k, w) \/ Join(c, k, w) \/ FetchUncached(c, k, w) \/ Lead(c, k, w)
      PROVE  k \in Keys
  BY CacheFacts
<1> QED
  BY <1>1, <1>2, <1>3, <1>4, ProceedKinds DEF Next

\* The steps that touch the map, and how many calls they touch.
LEMMA EntrySteps ==
  ASSUME TypeOK, RequestInv, [Next]_vars
  PROVE  \/ UNCHANGED <<entry, policy>>
         \/ \E c \in Calls :
              \/ \E k \in Keys, w \in policy.counts : FetchUncached(c, k, w) \/ Lead(c, k, w)
              \/ pc[c] = "fetch" /\ (Answered(c) \/ Failed(c))
<1>1. Tick \/ (\E k \in Keys : ChainMoves(k)) \/ UNCHANGED vars => UNCHANGED <<entry, policy>>
  BY DEF Tick, ChainMoves, vars
<1>2. ASSUME NEW c, NEW k, NEW w, Hit(c, k, w) \/ Join(c, k, w)
      PROVE  UNCHANGED <<entry, policy>>
  BY <1>2 DEF Hit, Join, Arrive
<1>3. ASSUME NEW c, NodeAnswers(c) \/ WaitCancelled(c) \/ Remembers(c)
      PROVE  UNCHANGED <<entry, policy>>
  BY <1>3 DEF NodeAnswers, WaitCancelled, Return, Remembers
<1>4. ASSUME NEW c, NEW s, NEW k, Again(c, s, k)
      PROVE  UNCHANGED <<entry, policy>>
  BY <1>4 DEF Again, Resend
<1> QED
  BY <1>1, <1>2, <1>3, <1>4, StepKinds

-----------------------------------------------------------------------------
(* Types.                                                                   *)

NodeType ==
  /\ policy \in Policies /\ endpoint \in {"yes", "notfound", "notallowed"}
  /\ now \in 0 .. MaxTime /\ chain \in [Keys -> Versions] /\ until \in [Keys -> [Versions -> Nat]]
  /\ support \in {"unknown", "supported", "unsupported"}
EntryType == entry \in [Keys -> Entries]
CallType ==
  /\ pc \in [Calls -> {"idle", "wait", "fetch"}]
  /\ key \in [Calls -> Keys \cup {0}] /\ want \in [Calls -> 0 .. 2]
  /\ began \in [Calls -> 0 .. MaxTime] /\ on \in [Calls -> Calls \cup {None}]
Reads == [slot : Keys \cup {0}, v : Versions, code : Codes]
FetchType ==
  /\ step \in [Calls -> Steps] /\ at \in [Calls -> Keys \cup {0}]
  /\ read \in [Calls -> Reads] /\ readAt \in [Calls -> 0 .. MaxTime]

\* The type invariant, by the part of the state it is about.
LEMMA TypeParts ==
  TypeOK <=> NodeType /\ EntryType /\ CallType /\ FetchType /\ said \subseteq Answers
  BY DEF TypeOK, NodeType, EntryType, CallType, FetchType, Reads

\* The three shapes of an entry are entries.
LEMMA EntryShapes ==
  /\ Nothing \in Entries
  /\ \A c \in Calls, w \in 0 .. 2 : InFlight(c, w) \in Entries
  /\ \A w \in 0 .. 2, a \in Answers, t \in 0 .. MaxTime : Complete(w, a, t) \in Entries
<1>1. 0 \in 0 .. MaxTime /\ 0 \in 0 .. 2
  BY Naturals
<1> QED
  BY <1>1 DEF Nothing, InFlight, Complete, Entries

\* The types hold at the start.
LEMMA TypeInit == Init => TypeOK
<1> SUFFICES ASSUME Init PROVE TypeOK
  OBVIOUS
<1>1. 0 \in 0 .. MaxTime /\ Forever \in Nat /\ First \in [Keys -> Versions]
  BY Naturals, CacheConstants
<1>2. NodeType
  BY <1>1 DEF Init, NodeType
<1>3. EntryType
  BY EntryShapes DEF Init, EntryType
<1>4. CallType
  BY <1>1 DEF Init, CallType
<1>5. NoRead \in Reads
  BY Naturals DEF NoRead, Reads, Codes
<1>6. FetchType
  BY <1>1, <1>5 DEF Init, FetchType, Steps
<1>7. said \subseteq Answers
  BY DEF Init
<1> QED
  BY <1>2, <1>3, <1>4, <1>6, <1>7, TypeParts

\* Calls that have returned keep no arguments.
LEMMA ReturnTypes ==
  ASSUME TypeOK, NEW S, Return(S), support' \in {"unknown", "supported", "unsupported"}
  PROVE  NodeType' /\ CallType' /\ FetchType'
<1>1. 0 \in 0 .. MaxTime /\ NoRead \in Reads
  BY Naturals DEF NoRead, Reads, Codes
<1>2. NodeType /\ CallType /\ FetchType
  BY TypeParts
<1>3. NodeType'
  BY <1>2 DEF NodeType, Return, nodeVars
<1>4. pc' \in [Calls -> {"idle", "wait", "fetch"}]
  BY <1>2 DEF CallType, Return, Cleared
<1>5. key' \in [Calls -> Keys \cup {0}] /\ want' \in [Calls -> 0 .. 2]
  BY <1>2 DEF CallType, Return, Cleared
<1>6. began' \in [Calls -> 0 .. MaxTime] /\ on' \in [Calls -> Calls \cup {None}]
  BY <1>1, <1>2 DEF CallType, Return, Cleared
<1>7. step' \in [Calls -> Steps] /\ at' \in [Calls -> Keys \cup {0}]
  BY <1>2 DEF FetchType, Return, Cleared, Steps
<1>8. read' \in [Calls -> Reads]
  BY <1>1, <1>2 DEF FetchType, Return, Cleared
<1>9. readAt' \in [Calls -> 0 .. MaxTime]
  BY <1>1, <1>2 DEF FetchType, Return, Cleared
<1> QED
  BY <1>3, <1>4, <1>5, <1>6, <1>7, <1>8, <1>9 DEF CallType, FetchType

\* A fetch that ends without an error answers about a slot.
LEMMA AnswerShape ==
  ASSUME TypeOK, CallInv, ReadInv, NEW c \in Calls, pc[c] = "fetch"
  PROVE  /\ Answer(c) \in Answers
         /\ read[c] # NoRead => /\ Answer(c).slot = at[c] /\ Answer(c).v = read[c].v
                                /\ Answer(c).found = (read[c].code = "found")
         /\ read[c] = NoRead => /\ Answer(c).slot = key[c] /\ Answer(c).v = 0
                                /\ Answer(c).found = FALSE
<1>1. CASE read[c] # NoRead
  <2>1. read[c].slot = at[c] /\ at[c] \in Keys
    BY <1>1 DEF ReadInv, CallInv
  <2>2. read[c].v \in Versions
    BY TypeParts DEF FetchType, Reads
  <2>3. (read[c].code = "found") \in BOOLEAN
    OBVIOUS
  <2> DEFINE found == read[c].code = "found"
  <2> HIDE DEF found
  <2>4. [slot |-> read[c].slot, v |-> read[c].v, found |-> found] \in Answers
    BY <2>1, <2>2, <2>3 DEF Answers, found
  <2> QED
    BY <1>1, <2>1, <2>4 DEF Answer, found
<1>2. CASE read[c] = NoRead
  <2>1. key[c] \in Keys /\ 0 \in Versions
    BY CacheConstants DEF CallInv
  <2> QED
    BY <1>2, <2>1 DEF Answer, Answers
<1> QED
  BY <1>1, <1>2

\* Trimming removes complete entries and nothing else.
LEMMA TrimKeeps ==
  ASSUME NEW e \in [Keys -> Entries]
  PROVE  /\ Trim(e) \in [Keys -> Entries]
         /\ \A k \in Keys : Trim(e)[k] = e[k] \/ (Trim(e)[k] = Nothing /\ e[k].state = "complete")
  BY EntryShapes DEF Trim, Done

\* Every entry after a store: as it was, gone if it was complete, or the new one.
LEMMA StoreKeeps ==
  ASSUME TypeOK, NEW c \in Calls, NEW k \in Keys, NEW a \in Answers
  PROVE  /\ Store(c, k, a) \in [Keys -> Entries]
         /\ \A j \in Keys :
              \/ Store(c, k, a)[j] = entry[j] /\ ~(j = k /\ Leads(c, k))
              \/ Store(c, k, a)[j] = Nothing /\ (entry[j].state = "complete" \/ (j = k /\ Leads(c, k)))
              \/ j = k /\ Leads(c, k) /\ Store(c, k, a)[j] = Complete(want[c], a, now)
<1> DEFINE e == IF Leads(c, k) THEN [entry EXCEPT ![k] = Complete(want[c], a, now)] ELSE entry
<1>1. entry \in [Keys -> Entries] /\ want[c] \in 0 .. 2 /\ now \in 0 .. MaxTime
  BY TypeParts DEF EntryType, CallType, NodeType
<1>2. Complete(want[c], a, now) \in Entries
  BY <1>1, EntryShapes
<1>3. e \in [Keys -> Entries]
  BY <1>1, <1>2
<1>4. \A j \in Keys : e[j] = IF j = k /\ Leads(c, k) THEN Complete(want[c], a, now) ELSE entry[j]
  BY <1>1
<1>5. Store(c, k, a) = IF policy.trims THEN Trim(e) ELSE e
  BY DEF Store
<1> HIDE DEF e
<1>6. /\ Trim(e) \in [Keys -> Entries]
      /\ \A j \in Keys : Trim(e)[j] = e[j] \/ (Trim(e)[j] = Nothing /\ e[j].state = "complete")
  BY <1>3, TrimKeeps
<1>7. Store(c, k, a) \in [Keys -> Entries]
  BY <1>3, <1>5, <1>6
<1>8. \A j \in Keys : Store(c, k, a)[j] = e[j] \/ (Store(c, k, a)[j] = Nothing /\ e[j].state = "complete")
  BY <1>5, <1>6
<1> QED
  BY <1>4, <1>7, <1>8

\* Every entry after a failure: as it was, or gone if it was the caller's slot.
LEMMA ForgetKeeps ==
  ASSUME TypeOK, NEW c \in Calls, NEW k \in Keys
  PROVE  /\ Forget(c, k) \in [Keys -> Entries]
         /\ \A j \in Keys :
              \/ Forget(c, k)[j] = entry[j] /\ ~(j = k /\ Leads(c, k))
              \/ /\ j = k /\ Forget(c, k)[j] = Nothing
                 /\ Leads(c, k) \/ policy.kind \notin {"latest", "committee"}
<1>1. entry \in [Keys -> Entries]
  BY TypeParts DEF EntryType
<1> QED
  BY <1>1, EntryShapes DEF Forget

\* Every step keeps the types.
LEMMA TypeStep ==
  ASSUME TypeOK, CallInv, RequestInv, ReadInv, EntryInv, [Next]_vars
  PROVE  TypeOK'
<1>0. NodeType /\ EntryType /\ CallType /\ FetchType /\ said \subseteq Answers
  BY TypeParts
<1>00. SUFFICES (NodeType /\ EntryType /\ CallType /\ FetchType /\ said \subseteq Answers)'
  BY DEF TypeOK, NodeType, EntryType, CallType, FetchType, Reads
<1> DEFINE Types == NodeType /\ EntryType /\ CallType /\ FetchType /\ said \subseteq Answers
<1> USE DEF nodeVars, callVars, fetchVars
<1>1. CASE Tick
  <2>1. NodeType'
    BY <1>0, <1>1, Naturals DEF Tick, NodeType
  <2> QED
    BY <1>0, <1>1, <2>1 DEF Tick, EntryType, CallType, FetchType
<1>2. ASSUME NEW k \in Keys, ChainMoves(k)
      PROVE  Types'
  <2>1. chain[k] + 1 \in Versions
    <3>1. chain[k] \in Nat /\ chain[k] < MaxVersion[policy.kind] /\ MaxVersion[policy.kind] \in Versions
      BY <1>0, <1>2, CacheFacts, Naturals DEF ChainMoves, NodeType
    <3>2. MaxVersion[policy.kind] \in Nat /\ 0 .. MaxVersion[policy.kind] \subseteq Versions
      BY <3>1, CacheConstants
    <3> QED
      BY <3>1, <3>2
  <2>2. chain' \in [Keys -> Versions]
    BY <1>0, <1>2, <2>1 DEF ChainMoves, NodeType
  <2>3. until' \in [Keys -> [Versions -> Nat]]
    <3>1. now \in Nat /\ until \in [Keys -> [Versions -> Nat]]
      BY <1>0, Naturals DEF NodeType
    <3> QED
      BY <1>2, <3>1 DEF ChainMoves
  <2>4. NodeType'
    BY <1>0, <1>2, <2>2, <2>3 DEF ChainMoves, NodeType
  <2> QED
    BY <1>0, <1>2, <2>4 DEF ChainMoves, EntryType, CallType, FetchType
<1>3. ASSUME NEW c \in Calls, NEW k \in Keys, NEW w \in policy.counts, Hit(c, k, w)
      PROVE  Types'
  <2>1. said' \subseteq Answers
    BY <1>3 DEF Hit, EntryInv
  <2> QED
    BY <1>0, <1>3, <2>1 DEF Hit, NodeType, EntryType, CallType, FetchType
<1>4. ASSUME NEW c \in Calls, NEW k \in Keys, NEW w \in policy.counts, Arrive(c, k, w)
      PROVE  /\ NodeType' /\ said' \subseteq Answers /\ key' \in [Calls -> Keys \cup {0}]
             /\ want' \in [Calls -> 0 .. 2] /\ began' \in [Calls -> 0 .. MaxTime]
             /\ read' \in [Calls -> Reads] /\ readAt' \in [Calls -> 0 .. MaxTime] /\ w \in 0 .. 2
  <2>1. w \in 0 .. 2
    BY CacheFacts, PolicyFacts
  <2> QED
    BY <1>0, <1>4, <2>1 DEF Arrive, NodeType, CallType, FetchType
<1>5. FirstStep \in Steps
  BY CacheFacts, PolicyFacts DEF FirstStep, Steps, Kinds
<1>6. ASSUME NEW c \in Calls, NEW k \in Keys, Send(c, k)
      PROVE  /\ pc' \in [Calls -> {"idle", "wait", "fetch"}] /\ step' \in [Calls -> Steps]
             /\ at' \in [Calls -> Keys \cup {0}]
  BY <1>0, <1>5, <1>6 DEF Send, CallType, FetchType
<1>7. ASSUME NEW c \in Calls, NEW k \in Keys, NEW w \in policy.counts, Join(c, k, w)
      PROVE  Types'
  <2>1. entry[k].by \in Calls \cup {None}
    BY <1>0 DEF EntryType, Entries
  <2>2. pc' \in [Calls -> {"idle", "wait", "fetch"}] /\ on' \in [Calls -> Calls \cup {None}]
    BY <1>0, <1>7, <2>1 DEF Join, CallType
  <2> QED
    BY <1>0, <1>4, <1>7, <2>2 DEF Join, EntryType, CallType, FetchType
<1>8. ASSUME NEW c \in Calls, NEW k \in Keys, NEW w \in policy.counts, FetchUncached(c, k, w)
      PROVE  Types'
  <2>1. EntryType'
    BY <1>0, <1>8, EntryShapes DEF FetchUncached, EntryType
  <2> QED
    BY <1>0, <1>4, <1>6, <1>8, <2>1 DEF FetchUncached, CallType, FetchType
<1>9. ASSUME NEW c \in Calls, NEW k \in Keys, NEW w \in policy.counts, Lead(c, k, w)
      PROVE  Types'
  <2>1. InFlight(c, w) \in Entries
    BY <1>4, <1>9, EntryShapes DEF Lead
  <2>2. EntryType' /\ on' \in [Calls -> Calls \cup {None}]
    BY <1>0, <1>9, <2>1 DEF Lead, EntryType, CallType
  <2> QED
    BY <1>0, <1>4, <1>6, <1>9, <2>2 DEF Lead, CallType, FetchType
<1>10. ASSUME NEW c \in Calls, NodeAnswers(c)
       PROVE  Types'
  <2>1. at[c] \in Keys /\ chain[at[c]] \in Versions
    BY <1>0, <1>10 DEF NodeAnswers, CallInv, NodeType
  <2>2. PICK code \in Codes : read' = [read EXCEPT ![c] = [slot |-> at[c], v |-> chain[at[c]], code |-> code]]
    BY <1>10 DEF NodeAnswers, Codes
  <2>3. [slot |-> at[c], v |-> chain[at[c]], code |-> code] \in Reads
    BY <2>1 DEF Reads
  <2>4. FetchType'
    BY <1>0, <1>10, <2>2, <2>3 DEF NodeAnswers, FetchType, NodeType
  <2> QED
    BY <1>0, <1>10, <2>4 DEF NodeAnswers, NodeType, EntryType, CallType
<1>11. ASSUME NEW c \in Calls, WaitCancelled(c)
       PROVE  Types'
  BY <1>0, <1>11, ReturnTypes DEF WaitCancelled, EntryType, NodeType
<1>12. ASSUME NEW c \in Calls, pc[c] = "fetch", NEW s \in Steps, NEW k, Again(c, s, k)
       PROVE  Types'
  <2>1. k \in Keys
    BY <1>12 DEF Again, CallInv
  <2>2. NoRead \in Reads /\ 0 \in 0 .. MaxTime
    BY Naturals DEF NoRead, Reads, Codes
  <2>3. FetchType'
    BY <1>0, <1>12, <2>1, <2>2 DEF Again, Resend, FetchType
  <2>4. NodeType'
    BY <1>0, <1>12 DEF Again, Resend, NodeType
  <2> QED
    BY <1>0, <1>12, <2>3, <2>4 DEF Again, Resend, EntryType, CallType
<1>13. ASSUME NEW c \in Calls, Remembers(c)
       PROVE  Types'
  <2>1. step' \in [Calls -> Steps]
    BY <1>0, <1>13 DEF Remembers, FetchType, Steps
  <2> QED
    BY <1>0, <1>13, <2>1 DEF Remembers, NodeType, EntryType, CallType, FetchType
<1>14. ASSUME NEW c \in Calls, pc[c] = "fetch", Answered(c)
       PROVE  Types'
  <2>1. Answer(c) \in Answers /\ key[c] \in Keys
    BY <1>14, AnswerShape DEF Answered, CallInv
  <2>2. /\ Return(Ended(c)) /\ said' = {Answer(c)}
        /\ entry' = IF on[c] = c THEN Store(c, key[c], Answer(c)) ELSE entry
    BY <1>14 DEF Answered, FetchSucceeds
  <2>3. support' \in {"unknown", "supported", "unsupported"}
    BY <1>0, <1>14 DEF Answered, NodeType
  <2>4. EntryType'
    BY <1>0, <2>1, <2>2, StoreKeeps DEF EntryType
  <2> QED
    BY <2>1, <2>2, <2>3, <2>4, ReturnTypes
<1>15. ASSUME NEW c \in Calls, pc[c] = "fetch", Failed(c)
       PROVE  Types'
  <2>1. key[c] \in Keys /\ support' \in {"unknown", "supported", "unsupported"}
    BY <1>0, <1>15 DEF Failed, CallInv, NodeType
  <2>2. EntryType'
    BY <1>0, <1>15, <2>1, ForgetKeeps DEF Failed, FetchFails, EntryType
  <2> QED
    BY <1>15, <2>1, <2>2, ReturnTypes DEF Failed, FetchFails
<1>16. CASE UNCHANGED vars
  BY <1>0, <1>16 DEF vars, NodeType, EntryType, CallType, FetchType
<1> HIDE DEF Types
<1> QED
  BY <1>1, <1>2, <1>3, <1>7, <1>8, <1>9, <1>10, <1>11, <1>12, <1>13, <1>14, <1>15, <1>16, StepKinds DEF Types

-----------------------------------------------------------------------------
(* Calls, leaders and waiters.                                              *)

\* The rest of the invariant holds at the start.
LEMMA RestInit ==
  Init => /\ FlightInv /\ CountInv /\ CallInv /\ RequestInv /\ ReadInv /\ EntryInv
          /\ SingleFlight /\ WaitersHaveLeader /\ BoundInv
<1> SUFFICES ASSUME Init
             PROVE  /\ FlightInv /\ CountInv /\ CallInv /\ RequestInv /\ ReadInv /\ EntryInv
                    /\ SingleFlight /\ WaitersHaveLeader /\ BoundInv
  OBVIOUS
<1>1. \A k \in Keys : entry[k] = Nothing /\ entry[k].state = "none"
  BY DEF Init, Nothing
<1>2. \A c \in Calls : pc[c] = "idle" /\ key[c] = 0 /\ on[c] = None /\ read[c] = NoRead /\ began[c] = 0
  BY DEF Init
<1>3. FlightInv /\ CountInv /\ EntryInv
  BY <1>1 DEF FlightInv, CountInv, EntryInv
<1>4. CallInv /\ RequestInv /\ SingleFlight /\ WaitersHaveLeader
  BY <1>2 DEF Init, CallInv, RequestInv, SingleFlight, WaitersHaveLeader
<1>5. ReadInv
  BY <1>2 DEF Init, ReadInv
<1>6. Filled(entry) = {} /\ Done(entry) = {} /\ IsFiniteSet({}) /\ Cardinality({}) = 0
  BY <1>1, FS_EmptySet DEF Filled, Done
<1>7. FetchCap[policy.kind] \in Nat
  BY CapFacts DEF Init
<1> QED
  BY <1>3, <1>4, <1>5, <1>6, <1>7, Naturals DEF BoundInv, CacheBounded

\* Who returns is idle, and nobody else notices.
LEMMA ReturnEffect ==
  ASSUME NEW S, Return(S), NEW c \in Calls
  PROVE  /\ c \in S => /\ pc'[c] = "idle" /\ key'[c] = 0 /\ on'[c] = None /\ began'[c] = 0
                       /\ read'[c] = NoRead
         /\ c \notin S => /\ pc'[c] = pc[c] /\ key'[c] = key[c] /\ on'[c] = on[c] /\ began'[c] = began[c]
                          /\ want'[c] = want[c] /\ step'[c] = step[c] /\ at'[c] = at[c]
                          /\ read'[c] = read[c] /\ readAt'[c] = readAt[c]
         /\ policy' = policy /\ now' = now /\ chain' = chain /\ until' = until /\ endpoint' = endpoint
  BY DEF Return, Cleared, nodeVars

\* A fetch that ends, with an answer or without.
Ends(c) == Answered(c) \/ Failed(c)

LEMMA EndsReturn ==
  ASSUME NEW c, Ends(c)
  PROVE  Return(Ended(c))
  BY DEF Ends, Answered, Failed, FetchSucceeds, FetchFails

\* Every step keeps the arguments of the calls.
LEMMA CallStep ==
  ASSUME TypeOK, CallInv, FlightInv, RequestInv, [Next]_vars
  PROVE  CallInv'
<1> USE DEF nodeVars, callVars, fetchVars
<1>0. /\ now \in Nat /\ pc \in [Calls -> {"idle", "wait", "fetch"}] /\ key \in [Calls -> Keys \cup {0}]
      /\ began \in [Calls -> 0 .. MaxTime] /\ on \in [Calls -> Calls \cup {None}]
      /\ at \in [Calls -> Keys \cup {0}] /\ read \in [Calls -> Reads] /\ step \in [Calls -> Steps]
      /\ MaxTime \in Nat /\ \A c \in Calls : began[c] \in Nat
  BY TypeParts, Naturals DEF NodeType, CallType, FetchType
<1>1. CASE UNCHANGED <<pc, key, on, began, at, read>> /\ now' \in {now, now + 1}
  BY <1>0, <1>1 DEF CallInv
<1>2. ASSUME NEW c \in Calls, NEW k \in Keys, NEW w, Join(c, k, w)
      PROVE  CallInv'
  <2>1. entry[k].by \in Calls
    BY <1>2 DEF Join, FlightInv
  <2> QED
    BY <1>0, <1>2, <2>1 DEF Join, Arrive, CallInv
<1>3. ASSUME NEW c \in Calls, NEW k \in Keys, NEW w, FetchUncached(c, k, w)
      PROVE  CallInv'
  BY <1>0, <1>3 DEF FetchUncached, Arrive, Send, CallInv
<1>4. ASSUME NEW c \in Calls, NEW k \in Keys, NEW w, Lead(c, k, w)
      PROVE  CallInv'
  BY <1>0, <1>4 DEF Lead, Arrive, Send, CallInv
<1>5. ASSUME NEW c \in Calls, NodeAnswers(c)
      PROVE  CallInv'
  <2>1. /\ pc[c] = "fetch" /\ UNCHANGED <<pc, key, on, began, at, now>>
        /\ \A d \in Calls : d # c => read'[d] = read[d]
    BY <1>0, <1>5 DEF NodeAnswers
  <2> QED
    BY <2>1 DEF CallInv
<1>6. ASSUME NEW S, Return(S)
      PROVE  CallInv'
  <2> SUFFICES ASSUME NEW c \in Calls
               PROVE  /\ pc'[c] = "idle" => key'[c] = 0 /\ on'[c] = None
                      /\ pc'[c] # "fetch" => read'[c] = NoRead
                      /\ pc'[c] # "idle" => key'[c] \in Keys
                      /\ pc'[c] = "wait" => on'[c] \in Calls
                      /\ pc'[c] = "fetch" => on'[c] \in {c, None} /\ at'[c] \in Keys
                      /\ began'[c] =< now'
    BY DEF CallInv
  <2>1. CASE c \in S
    BY <1>0, <1>6, <2>1, ReturnEffect
  <2>2. CASE c \notin S
    BY <1>6, <2>2, ReturnEffect DEF CallInv
  <2> QED
    BY <2>1, <2>2
<1>7. ASSUME NEW c \in Calls, pc[c] = "fetch", NEW s, NEW k, Again(c, s, k)
      PROVE  CallInv'
  <2>1. k \in Keys
    BY <1>7 DEF Again, CallInv
  <2>2. /\ UNCHANGED <<pc, key, on, began, now>> /\ at'[c] = k
        /\ \A d \in Calls : d # c => read'[d] = read[d] /\ at'[d] = at[d]
    BY <1>0, <1>7 DEF Again, Resend
  <2> QED
    BY <1>7, <2>1, <2>2 DEF CallInv
<1>8. ASSUME NEW c \in Calls, Ends(c)
      PROVE  CallInv'
  BY <1>6, <1>8, EndsReturn
<1> QED
  BY <1>1, <1>2, <1>3, <1>4, <1>5, <1>6, <1>7, <1>8, StepKinds
  DEF Tick, ChainMoves, Hit, Remembers, WaitCancelled, Ends, vars

\* Nobody but its leader has an entry in flight for a slot, unless committees of
\* another size were asked for.
LEMMA NotInFlight ==
  ASSUME TypeOK, CountInv, NEW k \in Keys, NEW w \in policy.counts, ~Usable(k, w), policy.kind # "committee"
  PROVE  entry[k].state # "flight"
<1> SUFFICES ASSUME entry[k].state = "flight" PROVE FALSE
  OBVIOUS
<1>1. entry[k] # Nothing
  BY DEF Nothing
<1>2. policy.counts = {0}
  BY CacheFacts, PolicyFacts
<1>3. entry[k].want = w
  BY <1>1, <1>2 DEF CountInv
<1> QED
  BY <1>1, <1>3 DEF Usable, Fresh

\* The entries are of the cache's counts.
LEMMA CountStep ==
  ASSUME TypeOK, CallInv, RequestInv, ReadInv, FlightInv, CountInv, [Next]_vars
  PROVE  CountInv'
<1> USE DEF nodeVars, callVars, fetchVars
<1>0. entry \in [Keys -> Entries]
  BY TypeParts DEF EntryType
<1>1. CASE UNCHANGED <<entry, policy>>
  BY <1>1 DEF CountInv
<1>2. ASSUME NEW c \in Calls, NEW k \in Keys, NEW w, FetchUncached(c, k, w)
      PROVE  CountInv'
  BY <1>0, <1>2 DEF FetchUncached, Arrive, CountInv
<1>3. ASSUME NEW c \in Calls, NEW k \in Keys, NEW w \in policy.counts, Lead(c, k, w)
      PROVE  CountInv'
  <2>1. InFlight(c, w).want = w
    BY DEF InFlight
  <2> QED
    BY <1>0, <1>3, <2>1 DEF Lead, Arrive, CountInv
<1>4. ASSUME NEW c \in Calls, pc[c] = "fetch", Answered(c)
      PROVE  CountInv'
  <2>1. key[c] \in Keys /\ Answer(c) \in Answers
    BY <1>4, AnswerShape DEF CallInv, Answered
  <2>2. /\ entry' = IF on[c] = c THEN Store(c, key[c], Answer(c)) ELSE entry
        /\ policy' = policy
    BY <1>4 DEF Answered, FetchSucceeds, Return
  <2>3. Leads(c, key[c]) => want[c] \in policy.counts
    <3> SUFFICES ASSUME Leads(c, key[c]) PROVE want[c] \in policy.counts
      OBVIOUS
    <3>1. want[c] = entry[key[c]].want /\ entry[key[c]] # Nothing
      BY <2>1 DEF Leads, FlightInv, Nothing
    <3> QED
      BY <2>1, <3>1 DEF CountInv
  <2>4. \A a, t : Complete(want[c], a, t).want = want[c]
    BY DEF Complete
  <2> QED
    BY <2>1, <2>2, <2>3, <2>4, StoreKeeps DEF CountInv
<1>5. ASSUME NEW c \in Calls, pc[c] = "fetch", Failed(c)
      PROVE  CountInv'
  <2>1. key[c] \in Keys
    BY <1>5 DEF CallInv
  <2>2. /\ entry' = IF on[c] = c THEN Forget(c, key[c]) ELSE entry
        /\ policy' = policy
    BY <1>5 DEF Failed, FetchFails, Return
  <2> QED
    BY <2>1, <2>2, ForgetKeeps DEF CountInv
<1> QED
  BY <1>1, <1>2, <1>3, <1>4, <1>5, EntrySteps

\* The steps that begin or end a call.
LEMMA CallSteps ==
  ASSUME TypeOK, RequestInv, [Next]_vars
  PROVE  \/ UNCHANGED <<policy, pc, key, want, on, entry>>
         \/ \E c \in Calls :
              \/ \E k \in Keys, w \in policy.counts : Join(c, k, w) \/ FetchUncached(c, k, w) \/ Lead(c, k, w)
              \/ WaitCancelled(c)
              \/ pc[c] = "fetch" /\ (Answered(c) \/ Failed(c))
<1> USE DEF callVars
<1>1. Tick \/ (\E k \in Keys : ChainMoves(k)) \/ UNCHANGED vars => UNCHANGED <<policy, pc, key, want, on, entry>>
  BY DEF Tick, ChainMoves, vars
<1>2. ASSUME NEW c, NEW k, NEW w, Hit(c, k, w)
      PROVE  UNCHANGED <<policy, pc, key, want, on, entry>>
  BY <1>2 DEF Hit
<1>3. ASSUME NEW c, NodeAnswers(c) \/ Remembers(c)
      PROVE  UNCHANGED <<policy, pc, key, want, on, entry>>
  BY <1>3 DEF NodeAnswers, Remembers
<1>4. ASSUME NEW c, NEW s, NEW k, Again(c, s, k)
      PROVE  UNCHANGED <<policy, pc, key, want, on, entry>>
  BY <1>4 DEF Again, Resend
<1> QED
  BY <1>1, <1>2, <1>3, <1>4, StepKinds

\* A call that begins, and the calls beside it.
LEMMA Begins ==
  ASSUME TypeOK, NEW c \in Calls, NEW k, NEW w,
         Join(c, k, w) \/ FetchUncached(c, k, w) \/ Lead(c, k, w)
  PROVE  /\ pc[c] = "idle" /\ policy' = policy /\ key'[c] = k /\ want'[c] = w
         /\ \A d \in Calls : d # c => /\ pc'[d] = pc[d] /\ key'[d] = key[d] /\ want'[d] = want[d]
                                      /\ on'[d] = on[d] /\ step'[d] = step[d] /\ at'[d] = at[d]
         /\ read' = read /\ readAt' = readAt
<1>0. CallType /\ FetchType
  BY TypeParts
<1>1. /\ pc[c] = "idle" /\ policy' = policy /\ key'[c] = k /\ want'[c] = w /\ UNCHANGED <<read, readAt>>
      /\ \A d \in Calls : d # c => key'[d] = key[d] /\ want'[d] = want[d]
  BY <1>0 DEF Join, FetchUncached, Lead, Arrive, CallType
<1>2. \A d \in Calls : d # c => pc'[d] = pc[d] /\ on'[d] = on[d]
  BY <1>0 DEF Join, FetchUncached, Lead, Send, CallType
<1>3. \A d \in Calls : d # c => step'[d] = step[d] /\ at'[d] = at[d]
  BY <1>0 DEF Join, FetchUncached, Lead, Send, FetchType
<1> QED
  BY <1>1, <1>2, <1>3

\* What a fetch leaves in the map when it ends.
LEMMA EndsKeep ==
  ASSUME TypeOK, CallInv, ReadInv, NEW c \in Calls, pc[c] = "fetch", Answered(c) \/ Failed(c), NEW j \in Keys
  PROVE  \/ entry'[j] = entry[j] /\ ~(j = key[c] /\ on[c] = c /\ Leads(c, j))
         \/ entry'[j] = Nothing /\ \/ entry[j].state = "complete"
                                   \/ j = key[c] /\ on[c] = c /\ Leads(c, j)
                                   \/ j = key[c] /\ on[c] = c /\ policy.kind \notin {"latest", "committee"}
         \/ /\ Answered(c) /\ j = key[c] /\ on[c] = c /\ Leads(c, j)
            /\ entry'[j] = Complete(want[c], Answer(c), now)
<1>0. key[c] \in Keys
  BY DEF CallInv
<1>1. CASE on[c] # c
  <2>1. entry' = entry
    BY <1>1 DEF Answered, Failed, FetchSucceeds, FetchFails
  <2> QED
    BY <1>1, <2>1
<1>2. CASE Answered(c) /\ on[c] = c
  <2>1. Answer(c) \in Answers /\ entry' = Store(c, key[c], Answer(c))
    BY <1>2, AnswerShape DEF Answered, FetchSucceeds
  <2> QED
    BY <1>0, <1>2, <2>1, StoreKeeps
<1>3. CASE Failed(c) /\ on[c] = c
  <2>1. entry' = Forget(c, key[c])
    BY <1>3 DEF Failed, FetchFails
  <2> QED
    BY <1>0, <1>3, <2>1, ForgetKeeps
<1> QED
  BY <1>1, <1>2, <1>3

\* A leader of an entry in flight keeps it until its own fetch is over.
LEMMA FlightStep ==
  ASSUME TypeOK, CallInv, RequestInv, ReadInv, FlightInv, [Next]_vars
  PROVE  FlightInv'
<1>0. entry \in [Keys -> Entries] /\ CallType
  BY TypeParts DEF EntryType
<1>1. CASE UNCHANGED <<policy, pc, key, want, on, entry>>
  BY <1>1 DEF FlightInv
<1>2. ASSUME NEW c \in Calls, NEW k \in Keys, NEW w \in policy.counts,
             Join(c, k, w) \/ FetchUncached(c, k, w) \/ Lead(c, k, w)
      PROVE  FlightInv'
  <2>1. ASSUME NEW j \in Keys, entry'[j] = entry[j], entry'[j].state = "flight"
        PROVE  LET d == entry'[j].by
               IN d \in Calls /\ pc'[d] = "fetch" /\ on'[d] = d /\ key'[d] = j /\ want'[d] = entry'[j].want
    <3> DEFINE d == entry[j].by
    <3>1. d \in Calls /\ pc[d] = "fetch" /\ on[d] = d /\ key[d] = j /\ want[d] = entry[j].want
      BY <2>1 DEF FlightInv
    <3>2. d # c
      BY <1>2, <3>1, Begins
    <3> QED
      BY <1>2, <2>1, <3>1, <3>2, Begins
  <2>2. CASE Join(c, k, w)
    BY <2>1, <2>2 DEF Join, FlightInv
  <2>3. CASE FetchUncached(c, k, w)
    <3>1. Nothing.state # "flight"
      BY DEF Nothing
    <3>2. \A j \in Keys : entry'[j] = IF j = k THEN Nothing ELSE entry[j]
      BY <1>0, <2>3 DEF FetchUncached
    <3> QED
      BY <2>1, <3>1, <3>2 DEF FlightInv
  <2>4. CASE Lead(c, k, w)
    <3>1. InFlight(c, w).by = c /\ InFlight(c, w).want = w
      BY DEF InFlight
    <3>2. \A j \in Keys : entry'[j] = IF j = k THEN InFlight(c, w) ELSE entry[j]
      BY <1>0, <2>4 DEF Lead
    <3>3. pc'[c] = "fetch" /\ on'[c] = c /\ key'[c] = k /\ want'[c] = w
      BY <1>0, <2>4, Begins DEF Lead, Send, CallType
    <3> QED
      BY <2>1, <3>1, <3>2, <3>3 DEF FlightInv
  <2> QED
    BY <1>2, <2>2, <2>3, <2>4
<1>3. ASSUME NEW c \in Calls, WaitCancelled(c)
      PROVE  FlightInv'
  <2>1. Return({c}) /\ entry' = entry /\ pc[c] = "wait"
    BY <1>3 DEF WaitCancelled
  <2> QED
    BY <2>1, ReturnEffect DEF FlightInv
<1>4. ASSUME NEW c \in Calls, pc[c] = "fetch", Answered(c) \/ Failed(c)
      PROVE  FlightInv'
  <2>1. SUFFICES ASSUME NEW j \in Keys, entry'[j].state = "flight"
                 PROVE  LET d == entry'[j].by
                        IN d \in Calls /\ pc'[d] = "fetch" /\ on'[d] = d /\ key'[d] = j /\ want'[d] = entry'[j].want
    BY DEF FlightInv
  <2>2. Nothing.state # "flight" /\ \A w, a, t : Complete(w, a, t).state # "flight"
    BY DEF Nothing, Complete
  <2>3. entry'[j] = entry[j] /\ ~(j = key[c] /\ on[c] = c /\ Leads(c, j))
    BY <1>4, <2>1, <2>2, EndsKeep
  <2> DEFINE d == entry[j].by
  <2>4. d \in Calls /\ pc[d] = "fetch" /\ on[d] = d /\ key[d] = j /\ want[d] = entry[j].want
    BY <2>1, <2>3 DEF FlightInv
  <2>5. d # c
    BY <2>1, <2>3, <2>4 DEF Leads
  <2>6. d \notin Ended(c)
    BY <2>4, <2>5 DEF Ended
  <2>7. Return(Ended(c))
    BY <1>4, EndsReturn DEF Ends
  <2> QED
    BY <2>3, <2>4, <2>6, <2>7, ReturnEffect
<1> QED
  BY <1>1, <1>2, <1>3, <1>4, CallSteps

\* No expiry, eviction or failure of another call takes an entry in flight away.
LEMMA SingleStep ==
  ASSUME TypeOK, CallInv, RequestInv, ReadInv, CountInv, SingleFlight, [Next]_vars
  PROVE  SingleFlight'
<1>0. entry \in [Keys -> Entries] /\ CallType
  BY TypeParts DEF EntryType
<1> USE DEF Leads
<1>1. CASE UNCHANGED <<policy, pc, key, want, on, entry>>
  BY <1>1 DEF SingleFlight
<1> SUFFICES ASSUME policy'.kind # "committee", NEW d \in Calls, pc'[d] = "fetch", on'[d] = d,
                    ~UNCHANGED <<policy, pc, key, want, on, entry>>
             PROVE  entry'[key'[d]].state = "flight" /\ entry'[key'[d]].by = d
  BY <1>1 DEF SingleFlight
<1>2. ASSUME NEW c \in Calls, NEW k \in Keys, NEW w \in policy.counts,
             Join(c, k, w) \/ FetchUncached(c, k, w) \/ Lead(c, k, w)
      PROVE  entry'[key'[d]].state = "flight" /\ entry'[key'[d]].by = d
  <2>0. policy' = policy /\ key'[c] = k /\ pc[c] = "idle"
    BY <1>2, Begins
  <2>1. CASE d = c
    <3>1. Lead(c, k, w)
      <4>1. ~Join(c, k, w)
        BY <1>0, <2>1 DEF Join, CallType
      <4>2. ~FetchUncached(c, k, w)
        BY <2>0, <2>1, Naturals DEF FetchUncached, CallInv
      <4> QED
        BY <1>2, <4>1, <4>2
    <3>2. InFlight(c, w).state = "flight" /\ InFlight(c, w).by = c
      BY DEF InFlight
    <3> QED
      BY <1>0, <2>0, <2>1, <3>1, <3>2 DEF Lead
  <2>2. CASE d # c
    <3>1. /\ pc[d] = "fetch" /\ on[d] = d /\ key'[d] = key[d] /\ key[d] \in Keys
      BY <1>2, <2>2, Begins DEF CallInv
    <3>2. entry[key[d]].state = "flight" /\ entry[key[d]].by = d
      BY <2>0, <3>1 DEF SingleFlight
    <3>3. CASE Join(c, k, w)
      BY <3>1, <3>2, <3>3 DEF Join
    <3>4. CASE FetchUncached(c, k, w) \/ Lead(c, k, w)
      <4>1. ~Usable(k, w)
        BY <3>4 DEF FetchUncached, Lead
      <4>2. key[d] # k
        BY <2>0, <3>2, <4>1, NotInFlight
      <4> QED
        BY <1>0, <3>1, <3>2, <3>4, <4>2 DEF FetchUncached, Lead
    <3> QED
      BY <1>2, <3>3, <3>4
  <2> QED
    BY <2>1, <2>2
<1>3. ASSUME NEW c \in Calls, WaitCancelled(c)
      PROVE  entry'[key'[d]].state = "flight" /\ entry'[key'[d]].by = d
  <2>1. Return({c}) /\ entry' = entry
    BY <1>3 DEF WaitCancelled
  <2> QED
    BY <2>1, ReturnEffect DEF SingleFlight
<1>4. ASSUME NEW c \in Calls, pc[c] = "fetch", Answered(c) \/ Failed(c)
      PROVE  entry'[key'[d]].state = "flight" /\ entry'[key'[d]].by = d
  <2>1. Return(Ended(c))
    BY <1>4, EndsReturn DEF Ends
  <2>2. d \notin Ended(c)
    BY <2>1, ReturnEffect
  <2>3. pc[d] = "fetch" /\ on[d] = d /\ key'[d] = key[d] /\ policy' = policy /\ d # c
    BY <2>1, <2>2, ReturnEffect DEF Ended
  <2>4. key[d] \in Keys /\ entry[key[d]].state = "flight" /\ entry[key[d]].by = d
    BY <2>3 DEF SingleFlight, CallInv
  <2>5. on[c] = c => key[d] # key[c]
    <3> SUFFICES ASSUME on[c] = c PROVE key[d] # key[c]
      OBVIOUS
    <3>1. entry[key[c]].by = c
      BY <1>4, <2>3 DEF SingleFlight
    <3> QED
      BY <2>3, <2>4, <3>1
  <2>6. entry'[key[d]] = entry[key[d]]
    BY <1>4, <2>4, <2>5, EndsKeep
  <2> QED
    BY <2>3, <2>4, <2>6
<1> QED
  BY <1>2, <1>3, <1>4, CallSteps

\* Nobody waits for an entry whose fetch is over.
LEMMA WaitersStep ==
  ASSUME TypeOK, CallInv, RequestInv, ReadInv, FlightInv, WaitersHaveLeader, [Next]_vars
  PROVE  WaitersHaveLeader'
<1>0. CallType
  BY TypeParts
<1>1. CASE UNCHANGED <<policy, pc, key, want, on, entry>>
  BY <1>1 DEF WaitersHaveLeader
<1> SUFFICES ASSUME NEW d \in Calls, pc'[d] = "wait", ~UNCHANGED <<policy, pc, key, want, on, entry>>
             PROVE  LET c == on'[d] IN pc'[c] = "fetch" /\ on'[c] = c /\ key'[c] = key'[d] /\ want'[c] = want'[d]
  BY <1>1 DEF WaitersHaveLeader
<1>2. ASSUME NEW c \in Calls, NEW k \in Keys, NEW w \in policy.counts,
             Join(c, k, w) \/ FetchUncached(c, k, w) \/ Lead(c, k, w)
      PROVE  LET e == on'[d] IN pc'[e] = "fetch" /\ on'[e] = e /\ key'[e] = key'[d] /\ want'[e] = want'[d]
  <2>1. CASE d = c
    <3>1. Join(c, k, w)
      BY <1>0, <1>2, <2>1 DEF FetchUncached, Lead, Send, CallType
    <3> DEFINE e == entry[k].by
    <3>2. on'[d] = e /\ entry[k].state = "flight" /\ entry[k].want = w
      BY <1>0, <2>1, <3>1 DEF Join, Usable, CallType
    <3>3. e \in Calls /\ pc[e] = "fetch" /\ on[e] = e /\ key[e] = k /\ want[e] = w
      BY <3>2 DEF FlightInv
    <3>4. e # c
      BY <1>2, <3>3, Begins
    <3> QED
      BY <1>2, <2>1, <3>2, <3>3, <3>4, Begins
  <2>2. CASE d # c
    <3> DEFINE e == on[d]
    <3>1. pc[d] = "wait" /\ on'[d] = e /\ key'[d] = key[d] /\ want'[d] = want[d]
      BY <1>2, <2>2, Begins
    <3>2. e \in Calls /\ pc[e] = "fetch" /\ on[e] = e /\ key[e] = key[d] /\ want[e] = want[d]
      BY <3>1 DEF CallInv, WaitersHaveLeader
    <3>3. e # c
      BY <1>2, <3>2, Begins
    <3> QED
      BY <1>2, <3>1, <3>2, <3>3, Begins
  <2> QED
    BY <2>1, <2>2
<1>3. ASSUME NEW S, Return(S), \A x, y \in Calls : x \in S /\ pc[x] = "fetch" /\ pc[y] = "wait" /\ on[y] = x => y \in S
      PROVE  LET e == on'[d] IN pc'[e] = "fetch" /\ on'[e] = e /\ key'[e] = key'[d] /\ want'[e] = want'[d]
  <2>1. d \notin S
    BY <1>3, ReturnEffect
  <2> DEFINE e == on[d]
  <2>2. pc[d] = "wait" /\ on'[d] = e /\ key'[d] = key[d] /\ want'[d] = want[d]
    BY <1>3, <2>1, ReturnEffect
  <2>3. e \in Calls /\ pc[e] = "fetch" /\ on[e] = e /\ key[e] = key[d] /\ want[e] = want[d]
    BY <2>2 DEF CallInv, WaitersHaveLeader
  <2>4. e \notin S
    BY <1>3, <2>1, <2>2, <2>3
  <2> QED
    BY <1>3, <2>2, <2>3, <2>4, ReturnEffect
<1>4. ASSUME NEW c \in Calls, WaitCancelled(c)
      PROVE  LET e == on'[d] IN pc'[e] = "fetch" /\ on'[e] = e /\ key'[e] = key'[d] /\ want'[e] = want'[d]
  BY <1>3, <1>4 DEF WaitCancelled
<1>5. ASSUME NEW c \in Calls, pc[c] = "fetch", Answered(c) \/ Failed(c)
      PROVE  LET e == on'[d] IN pc'[e] = "fetch" /\ on'[e] = e /\ key'[e] = key'[d] /\ want'[e] = want'[d]
  <2>1. Return(Ended(c))
    BY <1>5, EndsReturn DEF Ends
  <2>2. \A x, y \in Calls : x \in Ended(c) /\ pc[x] = "fetch" /\ pc[y] = "wait" /\ on[y] = x => y \in Ended(c)
    BY DEF Ended
  <2> QED
    BY <1>3, <2>1, <2>2
<1> QED
  BY <1>2, <1>4, <1>5, CallSteps

-----------------------------------------------------------------------------
(* Requests and what the node answered.                                     *)

\* The request of a call stays one of its cache, within reach of the slot asked.
LEMMA RequestStep ==
  ASSUME TypeOK, CallInv, RequestInv, [Next]_vars
  PROVE  RequestInv'
<1> USE DEF nodeVars, callVars, fetchVars
<1> DEFINE Good(p, s, k, a, r, reach) ==
      /\ IF p.kind = "block" THEN s \in {"attestations", "block", "remember"} ELSE s = p.kind
      /\ a \in k - reach .. k
      /\ s = "remember" => r # NoRead
<1>0. CallType /\ FetchType /\ Reach \in Nat /\ Keys \subseteq Nat /\ policy.kind \in Kinds
  BY TypeParts, CacheFacts, PolicyFacts, Naturals
<1>r. ASSUME policy' = policy PROVE Reach' = Reach
  BY <1>r DEF Reach
<1>1. CASE UNCHANGED <<policy, pc, key, step, at, read>>
  BY <1>1, <1>r DEF RequestInv
<1>2. ASSUME NEW c \in Calls, NEW k \in Keys, NEW w \in policy.counts, Join(c, k, w) \/ FetchUncached(c, k, w) \/ Lead(c, k, w)
      PROVE  RequestInv'
  <2>1. pc'[c] = "fetch" => step'[c] = FirstStep /\ at'[c] = k
    BY <1>0, <1>2 DEF Join, FetchUncached, Lead, Send, CallType, FetchType
  <2>2. Good(policy, FirstStep, k, k, NoRead, Reach)
    <3>1. IF policy.kind = "block" THEN FirstStep \in {"attestations", "block"} ELSE FirstStep = policy.kind
      BY DEF FirstStep
    <3>2. k \in k - Reach .. k
      BY <1>0
    <3> QED
      BY <1>0, <3>1, <3>2 DEF Kinds
  <2>3. policy' = policy /\ key'[c] = k
    BY <1>2, Begins
  <2>4. FirstStep # "remember"
    BY <1>0 DEF FirstStep, Kinds
  <2> SUFFICES ASSUME NEW d \in Calls, pc'[d] = "fetch"
               PROVE  Good(policy', step'[d], key'[d], at'[d], read'[d], Reach')
    BY DEF RequestInv
  <2>5. CASE d = c
    BY <2>1, <2>2, <2>3, <2>4, <2>5, <1>r
  <2>6. CASE d # c
    BY <1>2, <1>r, <2>6, Begins DEF RequestInv
  <2> QED
    BY <2>5, <2>6
<1>3. ASSUME NEW c \in Calls, NodeAnswers(c)
      PROVE  RequestInv'
  <2>1. /\ read[c] = NoRead /\ pc[c] = "fetch" /\ UNCHANGED <<policy, pc, key, step, at>>
        /\ \A d \in Calls : d # c => read'[d] = read[d]
    BY <1>0, <1>3 DEF NodeAnswers, FetchType
  <2> QED
    BY <2>1, <1>r DEF RequestInv
<1>4. ASSUME NEW S, Return(S)
      PROVE  RequestInv'
  <2> SUFFICES ASSUME NEW d \in Calls, pc'[d] = "fetch"
               PROVE  Good(policy', step'[d], key'[d], at'[d], read'[d], Reach')
    BY DEF RequestInv
  <2>1. d \notin S
    BY <1>4, ReturnEffect
  <2> QED
    BY <1>4, <1>r, <2>1, ReturnEffect DEF RequestInv
<1>5. ASSUME NEW c \in Calls, pc[c] = "fetch", NEW s, NEW k, Again(c, s, k)
      PROVE  RequestInv'
  <2>1. /\ UNCHANGED <<policy, pc, key>> /\ step'[c] = s /\ at'[c] = k
        /\ \A d \in Calls : d # c => read'[d] = read[d] /\ at'[d] = at[d] /\ step'[d] = step[d]
    BY <1>0, <1>5 DEF Again, Resend, FetchType
  <2>2. /\ IF policy.kind = "block" THEN step[c] \in {"attestations", "block", "remember"} ELSE step[c] = policy.kind
        /\ at[c] \in key[c] - Reach .. key[c] /\ key[c] \in Nat /\ at[c] \in Nat
    BY <1>0, <1>5 DEF RequestInv, CallInv
  <2>3. /\ IF policy.kind = "block" THEN s \in {"attestations", "block"} ELSE s = policy.kind
        /\ s # "remember"
    BY <1>0, <1>5, <2>2 DEF Again, Kinds
  <2>4. k \in key[c] - Reach .. key[c]
    <3>1. CASE k = key[c]
      BY <1>0, <2>2, <3>1
    <3>2. CASE step[c] = "root" /\ k = at[c] - 1 /\ key[c] - k =< MaxLookback
      <4>1. Reach = MaxLookback
        BY <2>2, <3>2 DEF Reach
      <4> QED
        BY <1>0, <2>2, <3>2, <4>1
    <3> QED
      BY <1>5, <3>1, <3>2 DEF Again
  <2> SUFFICES ASSUME NEW d \in Calls, pc'[d] = "fetch"
               PROVE  Good(policy', step'[d], key'[d], at'[d], read'[d], Reach')
    BY DEF RequestInv
  <2>5. CASE d = c
    BY <1>r, <2>1, <2>3, <2>4, <2>5
  <2>6. CASE d # c
    BY <1>r, <2>1, <2>6 DEF RequestInv
  <2> QED
    BY <2>5, <2>6
<1>6. ASSUME NEW c \in Calls, pc[c] = "fetch", Remembers(c)
      PROVE  RequestInv'
  <2>1. /\ read[c] # NoRead /\ step[c] = "block" /\ UNCHANGED <<policy, pc, key, at, read>>
        /\ step'[c] = "remember" /\ \A d \in Calls : d # c => step'[d] = step[d]
    BY <1>0, <1>6 DEF Remembers, FetchType
  <2>2. policy.kind = "block"
    BY <1>0, <1>6, <2>1 DEF RequestInv, Kinds
  <2> QED
    BY <1>r, <2>1, <2>2 DEF RequestInv
<1>7. ASSUME NEW c \in Calls, Ends(c)
      PROVE  RequestInv'
  BY <1>4, <1>7, EndsReturn
<1> QED
  BY <1>1, <1>2, <1>3, <1>4, <1>5, <1>6, <1>7, StepKinds
  DEF Tick, ChainMoves, Hit, WaitCancelled, Ends, vars

\* What the node held at time t, seen from the next state.
HeldNext(slot, v, t) == chain'[slot] = v \/ (chain'[slot] > v /\ t =< until'[slot][v])

\* What the node held in the past does not change.
LEMMA HeldStays ==
  ASSUME TypeOK, NEW slot \in Keys, NEW v \in Versions, NEW t \in Int, t =< now, Held(slot, v, t),
         UNCHANGED <<chain, until>> \/ \E k \in Keys : ChainMoves(k)
  PROVE  HeldNext(slot, v, t)
<1>1. CASE UNCHANGED <<chain, until>>
  BY <1>1 DEF Held, HeldNext
<1>2. ASSUME NEW k \in Keys, ChainMoves(k)
      PROVE  HeldNext(slot, v, t)
  <2>1. /\ chain \in [Keys -> Versions] /\ until \in [Keys -> [Versions -> Nat]] /\ now \in Nat
        /\ Versions \subseteq Nat
    BY TypeParts, Naturals DEF NodeType
  <2>2. /\ \A j \in Keys : chain'[j] = IF j = k THEN chain[j] + 1 ELSE chain[j]
        /\ \A j \in Keys : j # k => until'[j] = until[j]
        /\ \A u \in Versions : until'[k][u] = IF u = chain[k] THEN now ELSE until[k][u]
    BY <1>2, <2>1 DEF ChainMoves
  <2>3. CASE slot # k
    BY <2>1, <2>2, <2>3 DEF Held, HeldNext
  <2>4. CASE slot = k /\ chain[k] = v
    BY <2>1, <2>2, <2>4 DEF HeldNext
  <2>5. CASE slot = k /\ chain[k] # v
    <3>1. chain[k] \in Nat /\ v \in Nat /\ chain[k] > v /\ t =< until[k][v]
      BY <2>1, <2>5 DEF Held
    <3>2. chain'[k] = chain[k] + 1 /\ until'[k][v] = until[k][v]
      BY <2>2, <2>5
    <3>3. chain'[k] > v
      BY <3>1, <3>2
    <3> QED
      BY <2>5, <3>1, <3>2, <3>3 DEF HeldNext
  <2> QED
    BY <2>3, <2>4, <2>5
<1> QED
  BY <1>1, <1>2

\* The steps that move the node's chain are its own, and so is time.
LEMMA NodeSteps ==
  ASSUME TypeOK, RequestInv, [Next]_vars
  PROVE  /\ UNCHANGED <<policy, endpoint>>
         /\ UNCHANGED <<chain, until>> \/ \E k \in Keys : ChainMoves(k)
         /\ now' \in {now, now + 1}
         /\ now' # now => Tick
<1> USE DEF nodeVars
<1>1. ASSUME NEW c, NEW k, NEW w, Hit(c, k, w) \/ Join(c, k, w) \/ FetchUncached(c, k, w) \/ Lead(c, k, w)
      PROVE  UNCHANGED <<policy, endpoint, chain, until, now>>
  BY <1>1 DEF Hit, Join, FetchUncached, Lead, Arrive
<1>2. ASSUME NEW c, NodeAnswers(c) \/ WaitCancelled(c) \/ Remembers(c) \/ Answered(c) \/ Failed(c)
      PROVE  UNCHANGED <<policy, endpoint, chain, until, now>>
  BY <1>2 DEF NodeAnswers, WaitCancelled, Remembers, Answered, Failed, FetchSucceeds, FetchFails, Return
<1>3. ASSUME NEW c, NEW s, NEW k, Again(c, s, k)
      PROVE  UNCHANGED <<policy, endpoint, chain, until, now>>
  BY <1>3 DEF Again, Resend
<1>4. Tick => UNCHANGED <<policy, endpoint, chain, until>> /\ now' = now + 1
  BY DEF Tick
<1>5. ASSUME NEW k, ChainMoves(k)
      PROVE  UNCHANGED <<policy, endpoint, now>>
  BY <1>5 DEF ChainMoves
<1>6. UNCHANGED vars => UNCHANGED <<policy, endpoint, chain, until, now>>
  BY DEF vars
<1> QED
  BY <1>1, <1>2, <1>3, <1>4, <1>5, <1>6, StepKinds

\* The answer that a request has, when it has one.
ReadOK(slot, s, r, t) ==
  /\ r.slot = slot /\ Held(slot, r.v, t) /\ t =< now /\ now =< t + Timeout
  /\ s # "attestations" \/ endpoint = "yes" => (r.code = "found" <=> Present(r.v))
  /\ r.code = "found" => Present(r.v)
  /\ s = "attestations" /\ endpoint # "yes" => r.code # "found"

\* An answer that stays where it is stays true.
LEMMA ReadStays ==
  ASSUME TypeOK, CallInv, RequestInv, ReadInv, [Next]_vars, NEW c \in Calls, pc[c] = "fetch", read[c] # NoRead,
         at'[c] = at[c], read'[c] = read[c], readAt'[c] = readAt[c],
         step'[c] = step[c] \/ (step[c] # "attestations" /\ step'[c] # "attestations"),
         pc'[c] = "fetch"
  PROVE  ReadOK(at[c], step[c], read[c], readAt[c])'
<1>1. /\ now \in Nat /\ readAt[c] \in Nat /\ Timeout \in Nat /\ at[c] \in Keys /\ read[c].v \in Versions
  BY TypeParts, Naturals DEF NodeType, FetchType, CallInv, Reads
<1>2. ReadOK(at[c], step[c], read[c], readAt[c])
  BY DEF ReadInv, ReadOK
<1>3. HeldNext(at[c], read[c].v, readAt[c])
  BY <1>1, <1>2, NodeSteps, HeldStays DEF ReadOK
<1>4. readAt[c] =< now' /\ now' =< readAt[c] + Timeout
  <2>1. CASE now' = now
    BY <1>2, <2>1 DEF ReadOK
  <2>2. CASE now' # now
    <3>1. Tick /\ now' = now + 1
      BY <2>2, NodeSteps
    <3>2. now < readAt[c] + Timeout
      BY <3>1 DEF Tick
    <3> QED
      BY <1>1, <1>2, <3>1, <3>2 DEF ReadOK
  <2> QED
    BY <2>1, <2>2
<1>5. endpoint' = endpoint
  BY NodeSteps
<1> QED
  BY <1>2, <1>3, <1>4, <1>5 DEF ReadOK, HeldNext, Held

\* What a request has been answered is true of the node.
LEMMA ReadStep ==
  ASSUME TypeOK, CallInv, RequestInv, ReadInv, [Next]_vars
  PROVE  ReadInv'
<1> USE DEF nodeVars, callVars, fetchVars
<1>0. CallType /\ FetchType /\ NodeType /\ now \in Nat /\ Timeout \in Nat
  BY TypeParts, Naturals DEF NodeType
<1> DEFINE All == \A c \in Calls : pc[c] = "fetch" /\ read[c] # NoRead => ReadOK(at[c], step[c], read[c], readAt[c])
<1>a. SUFFICES (support' = "supported" => endpoint' = "yes") /\ All'
  BY DEF ReadInv, ReadOK
<1>b. ASSUME NEW c \in Calls, pc[c] = "fetch", read[c] # NoRead
      PROVE  ReadOK(at[c], step[c], read[c], readAt[c])
  BY <1>b DEF ReadInv, ReadOK
<1>c. support = "supported" => endpoint = "yes"
  BY DEF ReadInv
<1>d. endpoint' = endpoint
  BY NodeSteps
<1>1. ASSUME \A d \in Calls : pc'[d] = "fetch" /\ read'[d] # NoRead =>
               pc[d] = "fetch" /\ at'[d] = at[d] /\ read'[d] = read[d] /\ readAt'[d] = readAt[d] /\ step'[d] = step[d]
      PROVE  All'
  BY <1>1, ReadStays
<1>2. ASSUME UNCHANGED support PROVE support' = "supported" => endpoint' = "yes"
  BY <1>2, <1>c, <1>d
<1>3. ASSUME NEW c \in Calls, NEW k \in Keys, NEW w \in policy.counts,
             Join(c, k, w) \/ FetchUncached(c, k, w) \/ Lead(c, k, w)
      PROVE  All' /\ UNCHANGED support
  <2>1. pc[c] = "idle" /\ read[c] = NoRead /\ read'[c] = NoRead
    BY <1>3, Begins DEF CallInv
  <2>2. UNCHANGED support
    BY <1>3 DEF Join, FetchUncached, Lead, Arrive
  <2> QED
    BY <1>1, <1>3, <2>1, <2>2, Begins
<1>4. ASSUME NEW c \in Calls, NodeAnswers(c)
      PROVE  All' /\ UNCHANGED support
  <2> DEFINE v == chain[at[c]]
             code == CASE step[c] = "attestations" /\ endpoint = "notallowed" -> "unsupported"
                       [] step[c] = "attestations" /\ endpoint = "notfound" -> "missing"
                       [] OTHER -> IF Present(v) THEN "found" ELSE "missing"
  <2>1. /\ pc[c] = "fetch" /\ read'[c] = [slot |-> at[c], v |-> v, code |-> code] /\ readAt'[c] = now
        /\ UNCHANGED <<now, endpoint, chain, until, support, pc, step, at>>
        /\ \A d \in Calls : d # c => read'[d] = read[d] /\ readAt'[d] = readAt[d]
    BY <1>0, <1>4 DEF NodeAnswers, FetchType
  <2>2. /\ step[c] # "attestations" \/ endpoint = "yes" => code = IF Present(v) THEN "found" ELSE "missing"
        /\ step[c] = "attestations" /\ endpoint # "yes" => code # "found"
    BY <1>0 DEF NodeType
  <2> HIDE DEF code
  <2>3. read'[c].slot = at[c] /\ read'[c].v = v /\ read'[c].code = code
    BY <2>1
  <2>4. code = "found" => Present(v)
    BY <2>2
  <2>5. now =< now + Timeout
    BY <1>0
  <2>6. ReadOK(at[c], step[c], read[c], readAt[c])'
    BY <2>1, <2>2, <2>3, <2>4, <2>5, <1>0 DEF ReadOK, Held
  <2> SUFFICES ASSUME NEW d \in Calls, pc'[d] = "fetch", read'[d] # NoRead
               PROVE  ReadOK(at[d], step[d], read[d], readAt[d])'
    BY <2>1
  <2>7. CASE d = c
    BY <2>6, <2>7
  <2>8. CASE d # c
    BY <2>1, <2>8, ReadStays
  <2> QED
    BY <2>7, <2>8
<1>5. ASSUME NEW S, Return(S)
      PROVE  All'
  BY <1>1, <1>5, ReturnEffect
<1>6. ASSUME NEW c \in Calls, pc[c] = "fetch", NEW s, NEW k, Again(c, s, k)
      PROVE  All' /\ (support' = "supported" => endpoint' = "yes")
  <2>1. /\ UNCHANGED pc /\ read'[c] = NoRead
        /\ \A d \in Calls : d # c => read'[d] = read[d] /\ at'[d] = at[d] /\ step'[d] = step[d] /\ readAt'[d] = readAt[d]
    BY <1>0, <1>6 DEF Again, Resend, FetchType
  <2>2. All'
    BY <1>1, <2>1
  <2>3. support' \in {support, "unsupported"}
    BY <1>6 DEF Again
  <2> QED
    BY <2>2, <2>3, <1>c, <1>d
<1>7. ASSUME NEW c \in Calls, pc[c] = "fetch", Remembers(c)
      PROVE  All' /\ UNCHANGED support
  <2>1. /\ step[c] = "block" /\ UNCHANGED <<support, pc, at, read, readAt>>
        /\ step'[c] = "remember" /\ \A d \in Calls : d # c => step'[d] = step[d]
    BY <1>0, <1>7 DEF Remembers, FetchType
  <2>2. \A d \in Calls : step'[d] = step[d] \/ (step[d] # "attestations" /\ step'[d] # "attestations")
    BY <2>1
  <2> QED
    BY <2>1, <2>2, ReadStays
<1>8. ASSUME NEW c \in Calls, pc[c] = "fetch", Answered(c)
      PROVE  All' /\ (support' = "supported" => endpoint' = "yes")
  <2>1. All'
    BY <1>5, <1>8, EndsReturn DEF Ends
  <2>2. step[c] = "attestations" => ReadOK(at[c], step[c], read[c], readAt[c])
    BY <1>b, <1>8 DEF Answered
  <2>3. support' \in {support, "unsupported"} \/ (step[c] = "attestations" /\ read[c].code = "found")
    BY <1>8 DEF Answered
  <2> QED
    BY <2>1, <2>2, <2>3, <1>c, <1>d DEF ReadOK
<1>9. ASSUME NEW c \in Calls, pc[c] = "fetch", Failed(c)
      PROVE  All' /\ UNCHANGED support
  BY <1>5, <1>9, EndsReturn DEF Ends, Failed
<1>10. ASSUME NEW c \in Calls, WaitCancelled(c)
       PROVE  All' /\ UNCHANGED support
  BY <1>5, <1>10 DEF WaitCancelled
<1>11. ASSUME UNCHANGED <<support, pc, at, read, readAt, step>>
       PROVE  All' /\ UNCHANGED support
  BY <1>1, <1>11
<1>12. Tick \/ (\E k \in Keys : ChainMoves(k)) \/ UNCHANGED vars \/ (\E c \in Calls, k \in Keys, w \in policy.counts : Hit(c, k, w))
       => UNCHANGED <<support, pc, at, read, readAt, step>>
  BY DEF Tick, ChainMoves, Hit, vars
<1> HIDE DEF All
<1> QED
  BY <1>2, <1>3, <1>4, <1>6, <1>7, <1>8, <1>9, <1>10, <1>11, <1>12, StepKinds

\* The answer of a fetch: within reach, and true of the node a Timeout ago or later.
LEMMA AnswerTrue ==
  ASSUME TypeOK, CallInv, RequestInv, ReadInv, NEW c \in Calls, pc[c] = "fetch", Answered(c)
  PROVE  /\ Answer(c) \in Answers /\ Answer(c).slot \in key[c] - Reach .. key[c]
         /\ Answer(c).found <=> Present(Answer(c).v)
         /\ Vague(Answer(c)) \/ Held(Answer(c).slot, Answer(c).v, now - Timeout)
<1>a. CASE read[c] = NoRead
  <2>1. step[c] = "head" /\ policy.kind = "head"
    BY <1>a DEF Answered, RequestInv
  <2>2. /\ Answer(c) \in Answers /\ Answer(c).slot = key[c] /\ Answer(c).v = 0
        /\ Answer(c).found = FALSE
    BY <1>a, AnswerShape
  <2>3. key[c] \in key[c] - Reach .. key[c]
    <3>1. key[c] \in Keys
      BY DEF CallInv
    <3>2. key[c] \in Nat /\ Reach \in Nat
      BY <3>1, Naturals, CacheFacts
    <3> QED
      BY <3>2
  <2> QED
    BY <2>1, <2>2, <2>3 DEF Vague, Present
<1>b. SUFFICES ASSUME read[c] # NoRead
               PROVE  /\ Answer(c) \in Answers /\ Answer(c).slot \in key[c] - Reach .. key[c]
                      /\ Answer(c).found <=> Present(Answer(c).v)
                      /\ Held(Answer(c).slot, Answer(c).v, now - Timeout)
  BY <1>a
<1>0. read[c] # NoRead /\ at[c] \in Keys
  BY <1>b DEF CallInv
<1>1. /\ Answer(c) \in Answers /\ Answer(c).slot = at[c] /\ Answer(c).v = read[c].v
      /\ Answer(c).found = (read[c].code = "found")
  BY <1>0, AnswerShape
<1>2. ReadOK(at[c], step[c], read[c], readAt[c])
  BY <1>0 DEF ReadInv, ReadOK
<1>3. step[c] # "attestations" \/ endpoint = "yes" \/ read[c].code = "found"
  BY DEF Answered, ReadInv
<1>4. read[c].code = "found" <=> Present(read[c].v)
  BY <1>2, <1>3 DEF ReadOK
<1>5. at[c] \in key[c] - Reach .. key[c]
  BY DEF RequestInv
<1>6. /\ now \in Nat /\ readAt[c] \in Nat /\ Timeout \in Nat /\ until[at[c]][read[c].v] \in Nat
  <2>1. now \in Nat /\ Timeout \in Nat /\ readAt[c] \in Nat
    BY TypeParts, Naturals DEF NodeType, FetchType
  <2>2. read[c].v \in Versions
    BY TypeParts DEF FetchType, Reads
  <2>3. until \in [Keys -> [Versions -> Nat]]
    BY TypeParts DEF NodeType
  <2> QED
    BY <1>0, <2>1, <2>2, <2>3
<1>7. now - Timeout =< readAt[c] /\ Held(at[c], read[c].v, readAt[c])
  BY <1>2, <1>6 DEF ReadOK
<1>8. Held(at[c], read[c].v, now - Timeout)
  BY <1>6, <1>7 DEF Held
<1> QED
  BY <1>1, <1>4, <1>5, <1>8

\* What a complete entry keeps is true of the node when it was fetched.
LEMMA EntryStep ==
  ASSUME TypeOK, CallInv, RequestInv, ReadInv, EntryInv, [Next]_vars
  PROVE  EntryInv'
<1>0. /\ entry \in [Keys -> Entries] /\ now \in Nat /\ Timeout \in Nat /\ Reach' = Reach /\ now' \in {now, now + 1}
      /\ \A k \in Keys : entry[k].fetched \in Nat
  BY TypeParts, Naturals, NodeSteps DEF EntryType, NodeType, Reach, Entries
<1> DEFINE Good(k, e, r) ==
      LET a == e.ans
      IN /\ a \in Answers /\ a.slot \in k - r .. k
         /\ a.found <=> Present(a.v)
         /\ Vague(a) \/ HeldNext(a.slot, a.v, e.fetched - Timeout)
         /\ e.fetched =< now'
<1>1. ASSUME NEW k \in Keys, entry[k].state = "complete"
      PROVE  Good(k, entry[k], Reach)
  <2> DEFINE a == entry[k].ans
  <2>1. /\ a \in Answers /\ a.slot \in k - Reach .. k /\ (a.found <=> Present(a.v))
        /\ Vague(a) \/ Held(a.slot, a.v, entry[k].fetched - Timeout)
        /\ entry[k].fetched =< now
    BY <1>1 DEF EntryInv
  <2>2. a.slot \in Keys /\ a.v \in Versions
    BY <2>1 DEF Answers
  <2>3. entry[k].fetched - Timeout \in Int /\ entry[k].fetched - Timeout =< now /\ entry[k].fetched =< now'
    BY <1>0, <2>1
  <2>4. Vague(a) \/ HeldNext(a.slot, a.v, entry[k].fetched - Timeout)
    BY <2>1, <2>2, <2>3, NodeSteps, HeldStays
  <2> QED
    BY <2>1, <2>3, <2>4
<1>2. SUFFICES ASSUME NEW k \in Keys, entry'[k].state = "complete"
               PROVE  Good(k, entry'[k], Reach')
  BY NodeSteps DEF EntryInv, Held, HeldNext, Vague
<1>3. ASSUME entry'[k] = entry[k]
      PROVE  Good(k, entry'[k], Reach')
  BY <1>0, <1>1, <1>2, <1>3
<1>4. Nothing.state # "complete" /\ \A c, w : InFlight(c, w).state # "complete"
  BY DEF Nothing, InFlight
<1>5. ASSUME NEW c \in Calls, NEW j \in Keys, NEW w, FetchUncached(c, j, w) \/ Lead(c, j, w)
      PROVE  entry'[k] = entry[k]
  BY <1>0, <1>2, <1>4, <1>5 DEF FetchUncached, Lead
<1>6. ASSUME NEW c \in Calls, pc[c] = "fetch", Answered(c) \/ Failed(c)
      PROVE  Good(k, entry'[k], Reach')
  <2>1. CASE entry'[k] = entry[k]
    BY <1>3, <2>1
  <2>2. CASE Answered(c) /\ k = key[c] /\ entry'[k] = Complete(want[c], Answer(c), now)
    <3>1. entry'[k].ans = Answer(c) /\ entry'[k].fetched = now
      BY <2>2 DEF Complete
    <3>2. /\ Answer(c) \in Answers /\ Answer(c).slot \in k - Reach .. k
          /\ Answer(c).found <=> Present(Answer(c).v)
          /\ Vague(Answer(c)) \/ Held(Answer(c).slot, Answer(c).v, now - Timeout)
      BY <1>6, <2>2, AnswerTrue
    <3>3. UNCHANGED <<chain, until, now>>
      BY <1>6, EndsReturn DEF Ends, Return, nodeVars
    <3>4. Vague(Answer(c)) \/ HeldNext(Answer(c).slot, Answer(c).v, now - Timeout)
      BY <3>2, <3>3 DEF Held, HeldNext
    <3> QED
      BY <1>0, <3>1, <3>2, <3>3, <3>4
  <2> QED
    BY <1>2, <1>4, <1>6, <2>1, <2>2, EndsKeep
<1> HIDE DEF Good
<1> QED
  BY <1>3, <1>5, <1>6, EntrySteps

-----------------------------------------------------------------------------
(* The bounds.                                                              *)

\* A set of slots that is not empty has an oldest one.
LEMMA OldestIsThere ==
  ASSUME NEW S \in SUBSET Nat, S # {}
  PROVE  \E x \in S : \A y \in S : x =< y
<1> DEFINE R == OpToRel(<, Nat)
<1>1. IsWellFoundedOn(R, Nat)
  BY NatLessThanWellFounded
<1>2. PICK x \in S : \A y \in S : ~(<<y, x>> \in R)
  BY <1>1, WFMin
<1>3. \A y \in S : y < x => <<y, x>> \in R
  BY DEF OpToRel
<1> HIDE DEF R
<1>4. \A y \in S : ~(y < x)
  BY <1>2, <1>3
<1> QED
  BY <1>4

\* Of a finite set of slots, those with n older ones are n fewer, or none.
LEMMA OlderOnes ==
  ASSUME NEW D \in SUBSET Nat, IsFiniteSet(D), NEW n \in Int
  PROVE  LET kept == {k \in D : ~(Cardinality({j \in D : j < k}) < n)}
         IN IsFiniteSet(kept) /\ (kept # {} => Cardinality(kept) =< Cardinality(D) - n)
<1> DEFINE older(k) == {j \in D : j < k}
           kept == {k \in D : ~(Cardinality(older(k)) < n)}
<1>1. IsFiniteSet(kept) /\ Cardinality(kept) \in Nat /\ Cardinality(D) \in Nat
  <2>1. kept \in SUBSET D
    OBVIOUS
  <2> HIDE DEF kept
  <2> QED
    BY <2>1, FS_Subset, FS_CardinalityType
<1>2. ASSUME kept # {} PROVE Cardinality(kept) =< Cardinality(D) - n
  <2>1. PICK m \in kept : \A y \in kept : m =< y
    <3>1. kept \in SUBSET Nat
      OBVIOUS
    <3> HIDE DEF kept
    <3> QED
      BY <1>2, <3>1, OldestIsThere
  <2>2. older(m) \in SUBSET D /\ kept \in SUBSET (D \ older(m)) /\ D \cap older(m) = older(m)
    <3>1. m \in Nat /\ kept \subseteq D
      OBVIOUS
    <3>2. \A y \in kept : y \notin older(m)
      <4> HIDE DEF kept
      <4> QED
        BY <2>1, <3>1
    <3>3. older(m) \in SUBSET D
      OBVIOUS
    <3> HIDE DEF kept, older
    <3> QED
      BY <3>1, <3>2, <3>3
  <2>3. ~(Cardinality(older(m)) < n)
    BY <2>1
  <2> HIDE DEF kept, older
  <2>4. Cardinality(older(m)) \in Nat
    BY <2>2, FS_Subset, FS_CardinalityType
  <2>5. IsFiniteSet(D \ older(m)) /\ Cardinality(D \ older(m)) = Cardinality(D) - Cardinality(older(m))
    BY <2>2, FS_Difference
  <2>6. Cardinality(kept) =< Cardinality(D \ older(m))
    BY <2>2, <2>5, FS_Subset
  <2> QED
    BY <1>1, <2>3, <2>4, <2>5, <2>6
<1> QED
  BY <1>1, <1>2

\* Trimming leaves no more complete entries than the cache keeps.
LEMMA TrimBounded ==
  ASSUME NEW e \in [Keys -> Entries], IsFiniteSet(Filled(e))
  PROVE  Cardinality(Done(Trim(e))) =< EntryCap
<1> DEFINE D == Done(e)
           n == Cardinality(Filled(e)) - EntryCap
           kept == {k \in D : ~(Cardinality({j \in D : j < k}) < n)}
<1>1. D \in SUBSET Filled(e) /\ D \in SUBSET Nat
  <2>1. \A k \in D : k \in Keys /\ e[k] # Nothing
    BY DEF Done, Nothing
  <2> HIDE DEF D
  <2> QED
    BY <2>1, Naturals DEF Filled
<1>2. Done(Trim(e)) = kept
  <2>1. Nothing.state # "complete"
    BY DEF Nothing
  <2>2. \A k \in Keys : Trim(e)[k] = IF k \in D /\ Cardinality({j \in D : j < k}) < n THEN Nothing ELSE e[k]
    BY DEF Trim
  <2>3. \A k \in Keys : k \in D <=> e[k].state = "complete"
    BY DEF Done
  <2>4. \A k \in Keys : Trim(e)[k].state = "complete" <=> k \in kept
    BY <2>1, <2>2, <2>3
  <2>5. kept \subseteq Keys
    BY DEF Done
  <2> HIDE DEF kept
  <2> QED
    BY <2>4, <2>5 DEF Done
<1>3. IsFiniteSet(D) /\ Cardinality(D) =< Cardinality(Filled(e)) /\ Cardinality(D) \in Nat
      /\ Cardinality(Filled(e)) \in Nat /\ n \in Int
  <2>1. IsFiniteSet(D) /\ Cardinality(D) =< Cardinality(Filled(e))
    BY <1>1, FS_Subset
  <2> QED
    BY <2>1, FS_CardinalityType, Naturals
<1>4. IsFiniteSet(kept) /\ (kept # {} => Cardinality(kept) =< Cardinality(D) - n)
  <2> HIDE DEF D, n
  <2> QED
    BY <1>1, <1>3, OlderOnes
<1>5. kept = {} => Cardinality(kept) = 0
  BY FS_EmptySet
<1>6. Cardinality(kept) \in Nat
  BY <1>4, FS_CardinalityType
<1> HIDE DEF kept, D
<1> QED
  BY <1>2, <1>3, <1>4, <1>5, <1>6, Naturals

\* The cache stays within its bounds.
LEMMA BoundStep ==
  ASSUME TypeOK, CallInv, RequestInv, ReadInv, BoundInv, [Next]_vars
  PROVE  BoundInv'
<1>0. /\ entry \in [Keys -> Entries] /\ IsFiniteSet(Filled(entry)) /\ EntryCap \in Nat /\ FetchCap[policy.kind] \in Nat
      /\ Done(entry) \in SUBSET Filled(entry)
  BY TypeParts, Naturals, CacheFacts, CapFacts DEF EntryType, BoundInv, Done, Filled, Nothing
<1>1. ASSUME policy' = policy, Filled(entry)' \subseteq Filled(entry), policy.trims => Cardinality(Done(entry)') =< EntryCap
      PROVE  BoundInv'
  <2>1. IsFiniteSet(Filled(entry)') /\ Cardinality(Filled(entry)') =< Cardinality(Filled(entry))
    BY <1>0, <1>1, FS_Subset
  <2>2. Cardinality(Filled(entry)') \in Nat /\ Cardinality(Filled(entry)) \in Nat
    BY <1>0, <2>1, FS_CardinalityType
  <2>3. policy.capped => Cardinality(Filled(entry)') =< FetchCap[policy.kind]
    BY <1>0, <2>1, <2>2 DEF BoundInv, CacheBounded
  <2> QED
    BY <1>1, <2>1, <2>3 DEF BoundInv, CacheBounded
<1>2. ASSUME Done(entry)' \subseteq Done(entry)
      PROVE  policy.trims => Cardinality(Done(entry)') =< EntryCap
  <2>1. IsFiniteSet(Done(entry))
    BY <1>0, FS_Subset
  <2>2. Cardinality(Done(entry)') =< Cardinality(Done(entry)) /\ IsFiniteSet(Done(entry)')
    BY <1>2, <2>1, FS_Subset
  <2>3. Cardinality(Done(entry)') \in Nat /\ Cardinality(Done(entry)) \in Nat
    BY <2>1, <2>2, FS_CardinalityType
  <2> QED
    BY <1>0, <2>2, <2>3 DEF BoundInv, CacheBounded
<1>3. CASE UNCHANGED <<entry, policy>>
  BY <1>1, <1>2, <1>3 DEF Filled, Done
<1>4. ASSUME NEW c \in Calls, NEW k \in Keys, NEW w, FetchUncached(c, k, w)
      PROVE  BoundInv'
  <2>1. policy' = policy /\ \A j \in Keys : entry'[j] = IF j = k THEN Nothing ELSE entry[j]
    BY <1>0, <1>4 DEF FetchUncached, Arrive
  <2>2. Filled(entry)' \subseteq Filled(entry) /\ Done(entry)' \subseteq Done(entry)
    BY <2>1 DEF Filled, Done, Nothing
  <2> QED
    BY <1>1, <1>2, <2>1, <2>2
<1>5. ASSUME NEW c \in Calls, NEW k \in Keys, NEW w, Lead(c, k, w)
      PROVE  BoundInv'
  <2>1. policy' = policy /\ ~Full(k) /\ \A j \in Keys : entry'[j] = IF j = k THEN InFlight(c, w) ELSE entry[j]
    BY <1>0, <1>5 DEF Lead, Arrive
  <2>2. InFlight(c, w).state = "flight" /\ InFlight(c, w) # Nothing
    BY DEF InFlight, Nothing
  <2>3. Filled(entry)' = (Filled(entry) \ {k}) \cup {k} /\ Done(entry)' \subseteq Done(entry)
    BY <2>1, <2>2 DEF Filled, Done
  <2> DEFINE rest == Filled(entry) \ {k}
  <2>4. IsFiniteSet(rest) /\ k \notin rest
    BY <1>0, FS_RemoveElement
  <2> HIDE DEF rest
  <2>5. IsFiniteSet(rest \cup {k}) /\ Cardinality(rest \cup {k}) = Cardinality(rest) + 1 /\ Cardinality(rest) \in Nat
    BY <2>4, FS_AddElement, FS_CardinalityType
  <2>6. policy.capped => Cardinality(rest \cup {k}) =< FetchCap[policy.kind]
    BY <1>0, <2>1, <2>5 DEF Full, rest
  <2>7. policy.trims => Cardinality(Done(entry)') =< EntryCap
    BY <1>2, <2>3
  <2> QED
    BY <2>1, <2>3, <2>5, <2>6, <2>7 DEF BoundInv, CacheBounded, rest
<1>6. ASSUME NEW c \in Calls, pc[c] = "fetch", Answered(c) \/ Failed(c)
      PROVE  BoundInv'
  <2>0. policy' = policy /\ key[c] \in Keys
    BY <1>6, EndsReturn DEF Ends, Return, CallInv
  <2>1. Filled(entry)' \subseteq Filled(entry)
    <3>1. \A j : Leads(c, j) => entry[j] # Nothing
      BY DEF Leads, Nothing
    <3>2. ASSUME NEW j \in Keys, entry'[j] # Nothing PROVE entry[j] # Nothing
      BY <1>6, <3>1, <3>2, EndsKeep
    <3> QED
      BY <3>2 DEF Filled
  <2>2. CASE Failed(c) \/ on[c] # c
    <3>1. entry' = entry \/ entry' = Forget(c, key[c])
      BY <1>6, <2>2 DEF Answered, Failed, FetchSucceeds, FetchFails
    <3>2. Done(entry)' \subseteq Done(entry)
      BY <2>0, <3>1, ForgetKeeps DEF Done, Nothing
    <3> QED
      BY <1>1, <1>2, <2>0, <2>1, <3>2
  <2>3. CASE Answered(c) /\ on[c] = c
    <3>1. Answer(c) \in Answers /\ entry' = Store(c, key[c], Answer(c))
      BY <1>6, <2>3, AnswerShape DEF Answered, FetchSucceeds
    <3> DEFINE e == IF Leads(c, key[c]) THEN [entry EXCEPT ![key[c]] = Complete(want[c], Answer(c), now)] ELSE entry
    <3>2. e \in [Keys -> Entries]
      <4>1. want[c] \in 0 .. 2 /\ now \in 0 .. MaxTime
        BY TypeParts DEF CallType, NodeType
      <4>2. Complete(want[c], Answer(c), now) \in Entries
        BY <3>1, <4>1, EntryShapes
      <4> QED
        BY <1>0, <4>2
    <3>3. Filled(e) \in SUBSET Filled(entry)
      <4>1. Leads(c, key[c]) => entry[key[c]] # Nothing
        BY DEF Leads, Nothing
      <4> QED
        BY <1>0, <4>1 DEF Filled
    <3>4. policy.trims => entry' = Trim(e)
      BY <3>1 DEF Store
    <3> HIDE DEF e
    <3>5. IsFiniteSet(Filled(e))
      BY <1>0, <3>3, FS_Subset
    <3>6. Cardinality(Done(Trim(e))) =< EntryCap
      BY <3>2, <3>5, TrimBounded
    <3>7. policy.trims => Done(entry)' = Done(Trim(e))
      BY <3>4 DEF Done
    <3> QED
      BY <1>1, <2>0, <2>1, <3>6, <3>7
  <2> QED
    BY <1>6, <2>2, <2>3
<1> QED
  BY <1>3, <1>4, <1>5, <1>6, EntrySteps

-----------------------------------------------------------------------------
(* The theorems.                                                            *)

\* The inductive invariant holds of every reachable state.
LEMMA Invariance == Spec => []IInv
<1>1. Init => IInv
  BY TypeInit, RestInit DEF IInv
<1>2. IInv /\ [Next]_vars => IInv'
  BY TypeStep, CallStep, CountStep, FlightStep, SingleStep, WaitersStep, RequestStep, ReadStep, EntryStep, BoundStep
  DEF IInv
<1> QED
  BY <1>1, <1>2, PTL DEF Spec

\* The caches, their entries, the calls and their requests keep their types in
\* all five caches.
THEOREM TypeCorrect == Spec => []TypeOK
<1>1. IInv => TypeOK
  BY DEF IInv
<1> QED
  BY <1>1, Invariance, PTL

\* A fetch in flight is the only one for its slot and stays in the map until it
\* is over, whatever expires, is evicted or fails meanwhile.
THEOREM FlightIsSingle == Spec => []SingleFlight
<1>1. IInv => SingleFlight
  BY DEF IInv
<1> QED
  BY <1>1, Invariance, PTL

\* Nobody waits for an entry whose fetch is over, nor for one of another slot or
\* another number of committees.
THEOREM NobodyWaitsInVain == Spec => []WaitersHaveLeader
<1>1. IInv => WaitersHaveLeader
  BY DEF IInv
<1> QED
  BY <1>1, Invariance, PTL

\* Complete entries stay within the number kept, entries and requests in flight
\* together within the number of fetches.
THEOREM BoundsHold == Spec => []CacheBounded
<1>1. IInv => CacheBounded
  BY DEF IInv, BoundInv
<1> QED
  BY <1>1, Invariance, PTL

\* What was held recently enough is a truthful answer.
LEMMA RecentIsTruthful ==
  ASSUME TypeOK, NEW k \in Keys, NEW a \in Answers, NEW t \in Nat, NEW f \in Nat,
         a.slot \in k - Reach .. k, a.found <=> Present(a.v),
         Vague(a) \/ Held(a.slot, a.v, f - Timeout), t - f < policy.ttl
  PROVE  Promise!Truthful(k, t, a)
<1>1. /\ a.slot \in Keys /\ a.v \in Versions
  BY DEF Answers
<1>2. until[a.slot][a.v] \in Nat /\ policy.ttl \in Nat /\ Timeout \in Nat
  <2>1. until \in [Keys -> [Versions -> Nat]]
    BY TypeParts DEF NodeType
  <2>2. until[a.slot][a.v] \in Nat
    BY <1>1, <2>1
  <2>3. policy.ttl \in Nat
    BY CacheFacts, PolicyFacts
  <2> QED
    BY <2>2, <2>3, Naturals
<1>3. f - Timeout =< until[a.slot][a.v] => t < until[a.slot][a.v] + (policy.ttl + Timeout)
  BY <1>2
<1>4. \/ policy.kind = "head" /\ ~a.found
      \/ chain[a.slot] = a.v
      \/ chain[a.slot] > a.v /\ t < until[a.slot][a.v] + (policy.ttl + Timeout)
  BY <1>3 DEF Held, Vague
<1>5. Present(a.v) <=> Promise!Present(a.v)
  BY DEF Present, Promise!Present
<1> QED
  BY <1>4, <1>5 DEF Promise!Truthful, Reach

\* Every step of a cache is a step of the promise.
LEMMA PromiseStep ==
  ASSUME IInv, [Next]_vars
  PROVE  [Promise!Next]_Promise!promise
<1> USE DEF nodeVars, callVars, fetchVars
<1>0. /\ TypeOK /\ FlightInv /\ CallInv /\ RequestInv /\ ReadInv /\ EntryInv /\ WaitersHaveLeader
      /\ now \in Nat /\ Timeout \in Nat /\ policy.ttl \in Nat /\ policy.ttl > 0
      /\ key \in [Calls -> Keys \cup {0}] /\ began \in [Calls -> 0 .. MaxTime] /\ 0 \notin Keys
      /\ \A d \in Calls : began[d] \in Nat
  <2>1. TypeOK /\ FlightInv /\ CallInv /\ RequestInv /\ ReadInv /\ EntryInv /\ WaitersHaveLeader
    BY DEF IInv
  <2>2. /\ now \in Nat /\ Timeout \in Nat /\ 0 \notin Keys
        /\ key \in [Calls -> Keys \cup {0}] /\ began \in [Calls -> 0 .. MaxTime]
    BY <2>1, TypeParts, Naturals DEF NodeType, CallType
  <2>3. policy.ttl \in Nat /\ policy.ttl > 0
    BY <2>1, CacheFacts, PolicyFacts
  <2>4. \A d \in Calls : began[d] \in Nat
    BY <2>2
  <2> QED
    BY <2>1, <2>2, <2>3, <2>4
<1>a. Answers = Promise!Answers
  BY DEF Answers, Promise!Answers
<1>1. CASE Tick
  BY <1>1 DEF Tick, Promise!Tick, Promise!Next
<1>2. ASSUME NEW k \in Keys, ChainMoves(k) PROVE Promise!Next
  <2>1. Promise!Change(k)
    BY <1>2 DEF ChainMoves, Promise!Change
  <2> QED
    BY <2>1 DEF Promise!Next
<1>3. ASSUME NEW c \in Calls, NEW k \in Keys, NEW w, Join(c, k, w) \/ FetchUncached(c, k, w) \/ Lead(c, k, w)
      PROVE  Promise!Next
  <2>1. Arrive(c, k, w)
    BY <1>3 DEF Join, FetchUncached, Lead
  <2>2. key[c] = 0
    BY <1>0, <2>1 DEF Arrive, CallInv
  <2>3. Promise!Call(c, k)
    BY <2>1, <2>2 DEF Arrive, Promise!Call
  <2> QED
    BY <2>3 DEF Promise!Next
<1>4. ASSUME NEW c \in Calls, NEW k \in Keys, NEW w, Hit(c, k, w)
      PROVE  Promise!Next
  <2> DEFINE a == entry[k].ans
  <2>1. pc[c] = "idle" /\ entry[k].state = "complete" /\ said' = {a} /\ now - entry[k].fetched < policy.ttl
    BY <1>4 DEF Hit, Usable, Fresh
  <2>2. /\ a \in Answers /\ a.slot \in k - Reach .. k
        /\ a.found <=> Present(a.v)
        /\ Vague(a) \/ Held(a.slot, a.v, entry[k].fetched - Timeout)
    BY <1>0, <2>1 DEF EntryInv
  <2>3. entry[k].fetched \in Nat
    BY <1>0, TypeParts DEF EntryType, Entries
  <2>4. Promise!Truthful(k, now, a)
    BY <1>0, <2>1, <2>2, <2>3, RecentIsTruthful
  <2>5. key[c] = 0
    BY <1>0, <2>1 DEF CallInv
  <2>6. UNCHANGED <<policy, now, chain, until, key, began>>
    BY <1>4 DEF Hit
  <2> HIDE DEF a
  <2>7. Promise!Call(c, k)
    BY <1>a, <2>1, <2>2, <2>4, <2>5, <2>6 DEF Promise!Call
  <2> QED
    BY <2>7 DEF Promise!Next
<1>5. ASSUME NEW c \in Calls, NodeAnswers(c) \/ Remembers(c)
      PROVE  Promise!Next
  BY <1>5 DEF NodeAnswers, Remembers, Promise!Work, Promise!Next
<1>6. ASSUME NEW c \in Calls, NEW s, NEW k, Again(c, s, k)
      PROVE  Promise!Next
  BY <1>6 DEF Again, Resend, Promise!Work, Promise!Next
<1>7. ASSUME NEW S \in SUBSET Calls, S # {}, Return(S), \A d \in S : pc[d] # "idle",
             said' = {} \/ \E a \in Answers : said' = {a} /\ \A d \in S : Promise!Truthful(key[d], began[d], a)
      PROVE  Promise!Next
  <2>1. \A d \in S : key[d] # 0
    BY <1>0, <1>7 DEF CallInv
  <2>2. /\ UNCHANGED <<policy, now, chain, until>>
        /\ key' = [d \in Calls |-> IF d \in S THEN 0 ELSE key[d]]
        /\ began' = [d \in Calls |-> IF d \in S THEN 0 ELSE began[d]]
    BY <1>7 DEF Return, Cleared
  <2>3. Promise!Return(S)
    BY <1>7, <1>a, <2>1, <2>2 DEF Promise!Return
  <2>4. S \in (SUBSET Calls) \ {{}}
    BY <1>7
  <2> QED
    BY <2>3, <2>4 DEF Promise!Next
<1>8. ASSUME NEW c \in Calls, WaitCancelled(c)
      PROVE  Promise!Next
  BY <1>7, <1>8 DEF WaitCancelled
<1>9. ASSUME NEW c \in Calls, pc[c] = "fetch"
      PROVE  /\ Ended(c) \in SUBSET Calls /\ Ended(c) # {}
             /\ \A d \in Ended(c) : pc[d] # "idle" /\ key[d] = key[c]
  BY <1>0, <1>9 DEF Ended, WaitersHaveLeader
<1>10. ASSUME NEW c \in Calls, pc[c] = "fetch", Failed(c)
       PROVE  Promise!Next
  BY <1>7, <1>9, <1>10 DEF Failed, FetchFails
<1>11. ASSUME NEW c \in Calls, pc[c] = "fetch", Answered(c)
       PROVE  Promise!Next
  <2> DEFINE a == Answer(c)
  <2>1. Return(Ended(c)) /\ said' = {a}
    BY <1>11 DEF Answered, FetchSucceeds
  <2>2. /\ a \in Answers /\ a.slot \in key[c] - Reach .. key[c]
        /\ a.found <=> Present(a.v)
        /\ Vague(a) \/ Held(a.slot, a.v, now - Timeout)
    BY <1>0, <1>11, AnswerTrue
  <2> HIDE DEF a
  <2>3. ASSUME NEW d \in Ended(c) PROVE Promise!Truthful(key[d], began[d], a)
    <3>1. key[d] = key[c] /\ d \in Calls
      BY <1>9, <1>11
    <3>2. key[c] \in Keys /\ began[d] =< now
      BY <1>0, <1>11, <3>1 DEF CallInv
    <3>3. began[d] \in Nat /\ began[d] - now < policy.ttl
      BY <1>0, <3>1, <3>2
    <3> QED
      BY <1>0, <2>2, <3>1, <3>2, <3>3, RecentIsTruthful
  <2> QED
    BY <1>7, <1>9, <1>11, <2>1, <2>2, <2>3
<1>12. CASE UNCHANGED vars
  BY <1>12 DEF vars, Promise!promise
<1> QED
  BY <1>0, <1>1, <1>2, <1>3, <1>4, <1>5, <1>6, <1>8, <1>10, <1>11, <1>12, StepKinds

\* The five caches implement the promise of ReadThrough: an answer is about the
\* slot asked, true of the node, and at most a lifetime and a request's duration
\* older than the call, with every interleaving of callers, expiry, eviction,
\* endpoint detection and reorganisations.  Only the "not found" of a head poll
\* promises nothing: it is also what an unanswered poll returns.
THEOREM Implementation == Spec => ImplementsReadThrough
<1>1. Init => Promise!Init
  <2> SUFFICES ASSUME Init PROVE Promise!Init
    OBVIOUS
  <2>1. policy.ttl \in Nat /\ Timeout \in Nat /\ MaxLookback \in Nat /\ Forever \in Nat
    BY PolicyFacts, Naturals DEF Init
  <2>2. policy.ttl + Timeout \in Nat /\ chain \in [Keys -> Versions] /\ until \in [Keys -> [Versions -> Nat]]
    BY <2>1, CacheConstants DEF Init
  <2> QED
    BY <2>1, <2>2 DEF Init, Promise!Init
<1> QED
  BY <1>1, Invariance, PromiseStep, PTL DEF Spec, ImplementsReadThrough, Promise!Spec
=============================================================================
