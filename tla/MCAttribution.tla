---------------------------- MODULE MCAttribution ----------------------------
(***************************************************************************)
(* Small sets of rows for Attribution.  A unit of time is a second, the    *)
(* attestation deadline is 4; an offset is early, late, or before another. *)
(***************************************************************************)
EXTENDS Attribution

At(t, root) == [at |-> t, root |-> root]
Inclusion(d, h, tg) == [delay |-> d, head |-> h, target |-> tg]
Call(m, ms) == [method |-> m, ms |-> ms]

SmallRows ==
    [k \in Kinds |->
        CASE k = "block_seen" -> {[at |-> 1, source |-> "promscrape"],
                                  [at |-> 6, source |-> "promscrape"],
                                  [at |-> 2, source |-> "beaconapi"]}
          [] k = "head_updated" -> {At(2, "a"), At(8, "b"), At(9, "b")}
          [] k = "attestation_published" -> {At(3, "a"), At(9, Absent)}
          [] k = "attestation_included" ->
                {Inclusion(1, "true", "true"), Inclusion(1, "false", "true"),
                 Inclusion(6, "false", "false"), Inclusion(1, Absent, "true")}
          [] k = "engine_call" -> {Call("newPayload", 2), Call("forkchoiceUpdated", 1)}
          [] k = "payload_attested" -> {[present |-> 0, votes |-> 2]}
          [] k = "network_baseline_sampled" -> {[p50 |-> 6, thin |-> TRUE],
                                                [p50 |-> 2, thin |-> FALSE]}
          [] k = "peer_count" -> {10}
          [] k = "engine_calls_p99" -> {1}
          [] k = "host" -> {"iowait_pct"}
          [] OTHER -> {"recorded"}]

AllTrusted == [k \in Kinds |-> "trusted"]

\* Every row with a good reading; or no reading yet when the block arrived and
\* when the baseline was sampled, and an offset too large later on.
SmallClockReadings ==
    {AllTrusted,
     [AllTrusted EXCEPT !["block_seen"] = "unmeasured",
                        !["network_baseline_sampled"] = "unmeasured",
                        !["head_updated"] = "drifting", !["peer_count"] = "drifting",
                        !["block_skipped"] = "drifting"]}

SmallRepeated == {"engine_call"}

=============================================================================
