----------------------------- MODULE ReadThrough -----------------------------
(***************************************************************************)
(* What a cache in front of the node promises a caller, whatever it keeps   *)
(* and whoever fetched it: a call ends with an error or with something the  *)
(* node itself held for that slot, less than maxAge before the call; where  *)
(* the cache is vague, "not found" may also mean that the node never spoke. *)
(* A version of a slot is an odd number while there is a block and an even  *)
(* one while there is none.                                                 *)
(***************************************************************************)
EXTENDS Integers

CONSTANTS
  Calls, Keys,
  Versions       \* versions of a slot, numbered

VARIABLES
  maxAge,        \* how old an answer may be when it is asked for
  vague,         \* its "not found" need not be the node's
  reach,         \* how many slots before the one asked it may be about
  now,
  chain,         \* the version of a slot that the node holds
  until,         \* when the node gave up a version of a slot
  asked, began,  \* the slot of a call and when it was made, 0 and 0 before
  said           \* the answers given in this step

promise == <<maxAge, vague, reach, now, chain, until, asked, began, said>>

Present(v) == v % 2 = 1
Answers == [slot : Keys, v : Versions, found : BOOLEAN]

Init ==
  /\ maxAge \in Nat /\ vague \in BOOLEAN /\ reach \in Nat
  /\ now = 0
  /\ chain \in [Keys -> Versions]
  /\ until \in [Keys -> [Versions -> Nat]]
  /\ asked = [c \in Calls |-> 0]
  /\ began = [c \in Calls |-> 0]
  /\ said = {}

Tick ==
  /\ now' = now + 1
  /\ said' = {}
  /\ UNCHANGED <<maxAge, vague, reach, chain, until, asked, began>>

Change(k) ==
  /\ chain' = [chain EXCEPT ![k] = @ + 1]
  /\ until' = [until EXCEPT ![k][chain[k]] = now]
  /\ said' = {}
  /\ UNCHANGED <<maxAge, vague, reach, now, asked, began>>

\* The answer speaks about the slot asked or one in reach, says of a version what
\* is true of it, and the node held that version less than maxAge before the call.
\* A vague "not found" is no statement about the node.
Truthful(k, t, a) ==
  /\ a.slot \in k - reach .. k
  /\ a.found <=> Present(a.v)
  /\ \/ vague /\ ~a.found
     \/ chain[a.slot] = a.v
     \/ chain[a.slot] > a.v /\ t < until[a.slot][a.v] + maxAge

\* A call is made, and may be answered at once.
Call(c, k) ==
  /\ asked[c] = 0
  /\ \/ asked' = [asked EXCEPT ![c] = k] /\ began' = [began EXCEPT ![c] = now] /\ said' = {}
     \/ (\E a \in Answers : said' = {a} /\ Truthful(k, now, a)) /\ UNCHANGED <<asked, began>>
  /\ UNCHANGED <<maxAge, vague, reach, now, chain, until>>

\* Calls end: with an error, or all with one answer that is true for each.
Return(S) ==
  /\ \A c \in S : asked[c] # 0
  /\ asked' = [c \in Calls |-> IF c \in S THEN 0 ELSE asked[c]]
  /\ began' = [c \in Calls |-> IF c \in S THEN 0 ELSE began[c]]
  /\ \/ said' = {}
     \/ \E a \in Answers : said' = {a} /\ \A c \in S : Truthful(asked[c], began[c], a)
  /\ UNCHANGED <<maxAge, vague, reach, now, chain, until>>

\* A call goes on, out of the caller's sight.
Work == said' = {} /\ UNCHANGED <<maxAge, vague, reach, now, chain, until, asked, began>>

Next ==
  \/ Tick \/ Work
  \/ \E k \in Keys : Change(k)
  \/ \E c \in Calls, k \in Keys : Call(c, k)
  \/ \E S \in (SUBSET Calls) \ {{}} : Return(S)

Spec == Init /\ [][Next]_promise
=============================================================================
