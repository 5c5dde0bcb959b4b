--------------------------- MODULE MCEvidenceStore ---------------------------
(***************************************************************************)
(* The first migration and two that add columns; a slot with the duties of  *)
(* two validators and its rows around the retention limits, the next slot   *)
(* with a reorganisation, and a sample in the first slot.                   *)
(***************************************************************************)
EXTENDS EvidenceStore

Schemas == << {"tables", "idx_at"}, {"measured_at"}, {"clock_error"} >>

Obs(s, k, w, t) == [table |-> "observations", slot |-> s, kind |-> k, who |-> w, at |-> t]
Sample(t) == [table |-> "samples", slot |-> 0, kind |-> "sample", who |-> "none", at |-> t]

SomeRows ==
  { Obs(1, "duty_assigned", "a", 0), Obs(1, "duty_assigned", "b", 0),
    Obs(1, "slot_start", "none", 1), Obs(1, "published", "a", 2),
    Obs(1, "published", "b", 2), Obs(2, "reorg", "none", 3), Sample(2) }
=============================================================================
