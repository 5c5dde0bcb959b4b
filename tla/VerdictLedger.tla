---------------------------- MODULE VerdictLedger ----------------------------
(***************************************************************************)
(* What the daemon promises an operator about attester duties: a duty gets  *)
(* at most one verdict, and a verdict that says more than "insufficient     *)
(* data" says what the canonical chain says.  A duty may stay without a     *)
(* verdict (the daemon was not running, or the slot cannot be explained).   *)
(***************************************************************************)
EXTENDS Naturals

CONSTANT Duties

VARIABLES
  inclusion,   \* the canonical slot that includes the duty's vote, 0 for none
  verdict,     \* the last verdict recorded for the duty, or "none"
  records      \* how many verdicts were recorded for it

ledger == <<inclusion, verdict, records>>

Truth(d) == IF inclusion[d] = 0 THEN "missed" ELSE "included"

Init ==
  /\ inclusion \in [Duties -> Nat]
  /\ verdict = [d \in Duties |-> "none"]
  /\ records = [d \in Duties |-> 0]

Record(d) ==
  /\ records[d] = 0
  /\ \E v \in {"insufficient_data", Truth(d)} : verdict' = [verdict EXCEPT ![d] = v]
  /\ records' = [records EXCEPT ![d] = 1]
  /\ UNCHANGED inclusion

Next == \E d \in Duties : Record(d)

Spec == Init /\ [][Next]_ledger
=============================================================================
