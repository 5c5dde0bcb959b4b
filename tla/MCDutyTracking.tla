--------------------------- MODULE MCDutyTracking ---------------------------
(***************************************************************************)
(* Instances of DutyTracking.  With two slots per epoch a duty in slot 1    *)
(* has the inclusion window 2 .. 3, the window end 4 and, with one slot of  *)
(* slack, the collection deadline 5; with one slot per epoch and no slack   *)
(* the inclusion slot 2 and the deadline 3.                                 *)
(***************************************************************************)
EXTENDS DutyTracking, TLC

D(s, v) == [slot |-> s, validator |-> v]

OneDuty == {D(1, "a")}

\* Slot 2 of the inclusion window is skipped; the vote may be in slot 3.
SparseChain == {{1, 3}}

\* The duty slot and its inclusion slot are skipped; the head moves past both.
LateChain == {{3}}

InTime == {0}
CopySymmetry == Permutations(Copies)
=============================================================================
