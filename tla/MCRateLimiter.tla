---------------------------- MODULE MCRateLimiter ----------------------------
(***************************************************************************)
(* Three calls, two goroutine identities, grants two ticks apart: enough    *)
(* for a queue with a cancelled waiter in its middle and for run to end and *)
(* be started again before the interval is over.  No symmetry: the run      *)
(* checks a liveness property.                                              *)
(***************************************************************************)
EXTENDS RateLimiter

Interval == 2
=============================================================================
