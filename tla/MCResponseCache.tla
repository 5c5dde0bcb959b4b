--------------------------- MODULE MCResponseCache ---------------------------
(***************************************************************************)
(* Two callers that call again and again, three slots: the first has its    *)
(* block, the second gets one, the third stays empty.                       *)
(* With one entry kept, two slots overflow a cache of two fetches and fill  *)
(* one of a single fetch, that of head polls.  The block is lost again      *)
(* before the head polls, the latest head and the canonical roots.          *)
(***************************************************************************)
EXTENDS ResponseCache

Start == [k \in Keys |-> IF k = 1 THEN 1 ELSE 0]

Slots == [p \in Kinds |-> CASE p = "latest" -> {2}
                            [] p = "root" -> {2, 3}
                            [] OTHER -> {1, 2}]

Fetches == [p \in Kinds |-> IF p = "head" THEN 1 ELSE 2]

Moves == [p \in Kinds |-> IF p \in {"block", "committee"} THEN 1 ELSE 2]
=============================================================================
