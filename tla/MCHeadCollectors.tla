--------------------------- MODULE MCHeadCollectors ---------------------------
(***************************************************************************)
(* Three slots of one tick and one tracked duty.  Blocks may be late by     *)
(* more than a slot, or missing.                                            *)
(***************************************************************************)
EXTENDS HeadCollectors

ASSUME SlotsStartInTime == SlotStart(LastSlot) =< MaxTime
=============================================================================
