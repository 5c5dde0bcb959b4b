----------------------------- MODULE Attribution -----------------------------
(***************************************************************************)
(* The RCA engine (internal/rca, internal/rca/rules) on the timelines the  *)
(* assembler (internal/timeline, internal/app/timeline.go) can build.      *)
(*                                                                         *)
(* The engine is pure: Analyze(tl) is an operator.  The state is the       *)
(* timeline of one attester slot, which grows by one row at a time, in any *)
(* order, because the collectors that write rows run concurrently and any  *)
(* of them may fail.  An invariant therefore speaks of the verdict that    *)
(* whymiss would give on every set of rows a slot can end up with.         *)
(*                                                                         *)
(* Rows keep what the rules read: offsets from the slot's start, roots,    *)
(* the reward evidence, the counts.  Evidence texts, remediations and      *)
(* versions are left out.  No code path of the program produces a proposer *)
(* duty or a block_proposed row (selectDutyObservations and Replay only    *)
(* build attester duties), so the rules' branches on them are left out.    *)
(***************************************************************************)
EXTENDS Integers, FiniteSets

CONSTANTS
    Rows,                   \* Rows[k]: the rows of kind k a collector may write
    Repeated,               \* kinds of which a slot may have two rows
    ClockReadings,          \* what the clock tracker may have known, by kind
    AttestationDeadline,    \* offset from the slot's start
    Dominance,              \* in percent
    NetworkDeviation,
    EngineSpikeMultiplier,
    PeerCountMin

VARIABLE tl

Kinds == {"block_seen", "block_skipped", "head_updated",
          "attestation_published", "attestation_included",
          "collection_completed", "engine_call", "payload_attested",
          "network_baseline_sampled",
          \* the samples: el_engine_calls_p99_ms is SourceDerived
          "peer_count", "engine_calls_p99", "host"}

(* The provenance of a row's timestamp: a fresh NTP offset within          *)
(* clock_offset_max, one beyond it, or none (not measured, or too old).    *)
Trust == {"trusted", "drifting", "unmeasured"}

\* An absent attribute.
Absent == "absent"

ASSUME RowsAssumption ==
    /\ \A r \in Rows["block_seen"] : r.at \in Int
    /\ \A r \in Rows["head_updated"] \cup Rows["attestation_published"] : r.at \in Int
    /\ \A r \in Rows["attestation_included"] : r.delay \in Nat
    /\ \A r \in Rows["engine_call"] : r.ms \in Nat
    /\ Rows["engine_calls_p99"] \subseteq Nat
    /\ Rows["peer_count"] \subseteq Nat
    /\ \A r \in Rows["network_baseline_sampled"] : r.p50 \in Nat /\ r.thin \in BOOLEAN
    /\ \A r \in Rows["payload_attested"] : r.present \in Nat /\ r.votes \in Nat

ASSUME ThresholdAssumption ==
    /\ AttestationDeadline \in Nat
    /\ Dominance \in 50..90
    /\ NetworkDeviation \in Nat
    /\ EngineSpikeMultiplier \in Nat
    /\ PeerCountMin \in Nat

(* CheckInclusion reports the one inclusion of a duty's attestation.       *)
ASSUME InclusionAssumption == "attestation_included" \notin Repeated

ASSUME ClockAssumption == ClockReadings \subseteq [Kinds -> Trust]

-----------------------------------------------------------------------------
(* Reading a timeline.                                                     *)

Has(t, k) == t.rows[k] # {}

(* Build sorts rows by time and breaks ties by content, so the first row   *)
(* of a kind is a function of the set of rows.                             *)
First(rows) == CHOOSE r \in rows : \A q \in rows : r.at <= q.at

\* For the kinds that are not Repeated.
Only(rows) == CHOOSE r \in rows : TRUE

(* Only the metrics endpoint times an arrival; the polled block_seen tells *)
(* when the collector noticed the block.                                   *)
TimedArrivals(t) == {r \in t.rows["block_seen"] : r.source = "promscrape"}

-----------------------------------------------------------------------------
(* The latency budget.                                                     *)

Stages == {"propagation", "validation", "signing"}

Unknown == -1

StageOrder == [propagation |-> 1, validation |-> 2, signing |-> 3]

(* Elapsed(from, to) is the duration of a stage, Unknown when its end is   *)
(* recorded before its start.                                              *)
Elapsed(from, to) == IF to >= from THEN to - from ELSE Unknown

ComputeStages(t) ==
    LET seen      == First(TimedArrivals(t)).at
        head      == First(t.rows["head_updated"]).at
        published == First(t.rows["attestation_published"]).at
        arrived   == TimedArrivals(t) # {} /\ seen >= 0
        spanEnd   == IF Has(t, "head_updated") THEN head ELSE published
        validation ==
            IF /\ arrived
               /\ Has(t, "head_updated") \/ Has(t, "attestation_published")
            THEN Elapsed(seen, spanEnd) ELSE Unknown
        signing ==
            IF /\ validation # Unknown
               /\ Has(t, "head_updated") /\ Has(t, "attestation_published")
            THEN Elapsed(head, published) ELSE Unknown
    IN  [propagation |-> IF arrived THEN seen ELSE Unknown,
         validation  |-> validation,
         signing     |-> signing]

Known(st) == {s \in Stages : st[s] # Unknown}

Spent(d) == IF d = Unknown THEN 0 ELSE d

Total(st) == Spent(st["propagation"]) + Spent(st["validation"]) + Spent(st["signing"])

(* The largest known stage, the earlier one of two equals.                 *)
Largest(st) ==
    CHOOSE s \in Known(st) : \A o \in Known(st) :
        \/ st[o] < st[s]
        \/ st[o] = st[s] /\ StageOrder[s] <= StageOrder[o]

(* Dominant(st, s): with at least two stages known, s is the largest and   *)
(* takes its share of the total.                                           *)
Dominant(st, s) ==
    /\ Cardinality(Known(st)) >= 2
    /\ Total(st) > 0
    /\ s = Largest(st)
    /\ st[s] * 100 >= Dominance * Total(st)

PropagationOverspent(t) ==
    LET st == ComputeStages(t)
    IN  /\ st["propagation"] > AttestationDeadline
        /\ \/ Known(st) = {"propagation"}
           \/ Dominant(st, "propagation")

-----------------------------------------------------------------------------
(* What the duty lost, twice: deriveOutcome for the verdict, and the       *)
(* rules' own dutyHasObservableLoss.                                       *)

TimelySourceMaxInclusionDelay == 5

\* Mutant: the head vote is not compared with the canonical root.
RewardFlagsAnyHead(r) ==
    {f \in {"timely_source", "timely_target", "timely_head"} :
        CASE f = "timely_source" -> r.delay <= TimelySourceMaxInclusionDelay
          [] f = "timely_target" -> r.target = "true"
          [] OTHER               -> r.delay = 1 /\ r.target = "true"}

RewardFlags(r) ==
    {f \in {"timely_source", "timely_target", "timely_head"} :
        CASE f = "timely_source" -> r.delay <= TimelySourceMaxInclusionDelay
          [] f = "timely_target" -> r.target = "true"
          [] OTHER               -> r.delay = 1 /\ r.target = "true" /\ r.head = "true"}

AllFlags == {"timely_source", "timely_target", "timely_head"}

(* The reward flags of a verdict: {} where the code has a nil pointer, a   *)
(* singleton holding the set of flags earned otherwise.                    *)
DerivedFlags(t) ==
    IF ~t.duty THEN {} ELSE {RewardFlags(r) : r \in t.rows["attestation_included"]}

DeriveOutcome(t) ==
    IF ~t.duty THEN "no_duty"
    ELSE IF ~Has(t, "attestation_included") THEN "missed"
    ELSE IF AllFlags \in DerivedFlags(t) THEN "ok"
    ELSE "degraded"

DutyHasObservableLoss(t) ==
    /\ t.duty
    /\ ~ \E r \in t.rows["attestation_included"] :
            r.delay = 1 /\ r.head = "true" /\ r.target = "true"

-----------------------------------------------------------------------------
(* The rules.  A rule answers with a draft, or declines.                   *)

Draft(cause, confidence) == [cause |-> cause, confidence |-> confidence]

Declined == Draft("declined", "low")

InsufficientData == Draft("unknown.insufficient_data", "low")

\* R-010
DataCompleteness(t) ==
    IF \/ t.duty /\ ~Has(t, "collection_completed")
       \/ \E r \in t.rows["attestation_included"] : Absent \in {r.head, r.target}
    THEN InsufficientData
    ELSE Declined

RequiresClockTrust(k) ==
    k \notin {"block_skipped", "collection_completed", "network_baseline_sampled",
              "engine_calls_p99"}

RowsWithClock(t, trust) ==
    {k \in Kinds : RequiresClockTrust(k) /\ Has(t, k) /\ t.clock[k] = trust}

\* Mutant: an offset never measured is a zero offset, read as a perfect clock.
ClockTrustZeroOffset(t) ==
    IF RowsWithClock(t, "drifting") # {}
    THEN Draft("local.host.clock_drift", "high") ELSE Declined

\* R-011
ClockTrust(t) ==
    IF RowsWithClock(t, "unmeasured") # {} THEN InsufficientData
    ELSE IF RowsWithClock(t, "drifting") # {} THEN Draft("local.host.clock_drift", "high")
    ELSE Declined

\* R-100
ProposerMissed(t) ==
    IF \/ ~t.duty
       \/ ~Has(t, "block_skipped")
       \/ Has(t, "block_seen")
       \/ Has(t, "head_updated")
    THEN Declined
    ELSE IF Has(t, "attestation_included") THEN Draft("network.proposer_missed", "high")
    ELSE IF Has(t, "attestation_published") THEN Declined
    ELSE InsufficientData

(* The committee's finding as the collector records it: a majority for     *)
(* "present", anything else is "not present".                              *)
PayloadPresent(r) == r.present * 2 > r.votes

\* R-120
PayloadLate(t) ==
    IF /\ t.payloadDue
       /\ ~Has(t, "block_skipped")
       /\ DutyHasObservableLoss(t)
       /\ Has(t, "payload_attested")
       /\ ~PayloadPresent(Only(t.rows["payload_attested"]))
    THEN Draft("network.payload_late",
               IF Only(t.rows["payload_attested"]).votes >= 2 THEN "high" ELSE "medium")
    ELSE Declined

BaselineConfidence(t) ==
    IF Only(t.rows["network_baseline_sampled"]).thin THEN "medium" ELSE "high"

NetworkP50(t) == Only(t.rows["network_baseline_sampled"]).p50

\* R-110
NetworkLateBlock(t) ==
    LET deviation == ComputeStages(t)["propagation"] - NetworkP50(t)
    IN  IF ~PropagationOverspent(t) THEN Declined
        ELSE IF ~Has(t, "network_baseline_sampled") THEN InsufficientData
        ELSE IF /\ NetworkP50(t) > AttestationDeadline
                /\ deviation < NetworkDeviation
                /\ -deviation < NetworkDeviation
             THEN Draft("network.late_block", BaselineConfidence(t))
        ELSE Declined

\* R-200
P2PDegraded(t) ==
    IF /\ PropagationOverspent(t)
       /\ Has(t, "network_baseline_sampled")
       /\ ~(NetworkP50(t) > AttestationDeadline)
       /\ Has(t, "peer_count")
       /\ Only(t.rows["peer_count"]) < PeerCountMin
    THEN Draft("local.p2p_degraded", BaselineConfidence(t))
    ELSE Declined

(* Both calls of the head's window were measured, each of them once.       *)
CompleteEngineCalls(t) ==
    /\ Cardinality(t.rows["engine_call"]) = 2
    /\ \A a, b \in t.rows["engine_call"] : a.method = b.method => a = b

EngineCallTotal(t) ==
    LET ofMethod(m) == (CHOOSE r \in t.rows["engine_call"] : r.method = m).ms
    IN  ofMethod("newPayload") + ofMethod("forkchoiceUpdated")

HeadLate(t) ==
    /\ Has(t, "head_updated")
    /\ First(t.rows["head_updated"]).at > AttestationDeadline

\* R-300
ELSlow(t) ==
    LET st    == ComputeStages(t)
        total == EngineCallTotal(t)
        p99   == Only(t.rows["engine_calls_p99"])
    IN  IF /\ HeadLate(t)
           /\ Dominant(st, "validation")
           /\ CompleteEngineCalls(t)
           /\ ~(total < st["validation"] \div 2)
           /\ Has(t, "engine_calls_p99")
           /\ p99 > 0
           /\ total > EngineSpikeMultiplier * p99
        THEN Draft("local.el_slow", "medium")
        ELSE Declined

\* Mutant: half of the validation span belongs to both clients.
CLSlowHalfIncluded(t) ==
    LET st == ComputeStages(t)
    IN  IF /\ HeadLate(t)
           /\ CompleteEngineCalls(t)
           /\ Dominant(st, "validation")
           /\ EngineCallTotal(t) <= st["validation"] \div 2
        THEN Draft("local.cl_slow", "medium")
        ELSE Declined

\* R-310
CLSlow(t) ==
    LET st == ComputeStages(t)
    IN  IF /\ HeadLate(t)
           /\ CompleteEngineCalls(t)
           /\ Dominant(st, "validation")
           /\ EngineCallTotal(t) < st["validation"] \div 2
        THEN Draft("local.cl_slow", "medium")
        ELSE Declined

(* The block was there, and was the head, before the deadline.             *)
NodeTimely(t) ==
    /\ TimedArrivals(t) # {}
    /\ First(TimedArrivals(t)).at < AttestationDeadline
    /\ Has(t, "head_updated")
    /\ First(t.rows["head_updated"]).at < AttestationDeadline

\* R-400
VCDisconnected(t) ==
    IF /\ ~Has(t, "attestation_published")
       /\ ~Has(t, "attestation_included")
       /\ NodeTimely(t)
       /\ Has(t, "collection_completed")
    THEN Draft("local.vc_disconnected", "medium")
    ELSE Declined

\* R-410
VCSlow(t) ==
    IF /\ NodeTimely(t)
       /\ Has(t, "attestation_published")
       /\ First(t.rows["attestation_published"]).at > AttestationDeadline
       /\ Dominant(ComputeStages(t), "signing")
    THEN Draft("local.vc_slow", "medium")
    ELSE Declined

\* R-500
InclusionFailure(t) ==
    LET published == First(t.rows["attestation_published"])
        head      == First(t.rows["head_updated"])
    IN  IF \/ ~Has(t, "attestation_published")
           \/ Has(t, "attestation_included")
           \/ published.at >= AttestationDeadline
           \/ ~Has(t, "collection_completed")
        THEN Declined
        ELSE IF \/ published.root = Absent
                \/ ~Has(t, "head_updated")
                \/ head.root = Absent
             THEN InsufficientData
        ELSE IF published.root # head.root THEN Declined
        ELSE Draft("network.inclusion_failure", "medium")

(* The row of a host metric stands for a latest value above its threshold. *)
\* R-600
HostFallback(t) ==
    LET exceeded == t.rows["host"]
    IN  IF ~DutyHasObservableLoss(t) THEN Declined
        ELSE IF "iowait_pct" \in exceeded THEN Draft("local.host.disk_io", "medium")
        ELSE IF "cpu_steal_pct" \in exceeded THEN Draft("local.host.cpu_steal", "medium")
        ELSE IF "mem_pressure_pct" \in exceeded THEN Draft("local.host.memory_pressure", "medium")
        ELSE Declined

\* R-999
CatchAll(t) ==
    IF DutyHasObservableLoss(t) /\ Known(ComputeStages(t)) = {}
    THEN InsufficientData
    ELSE Draft("unknown.no_rule_matched", "low")

\* Mutant: the clock is judged before the collection is complete.
OrderClockFirst(t) ==
    <<ClockTrust(t), DataCompleteness(t), ProposerMissed(t), PayloadLate(t),
      NetworkLateBlock(t), P2PDegraded(t), ELSlow(t), CLSlow(t),
      VCDisconnected(t), VCSlow(t), InclusionFailure(t), HostFallback(t),
      CatchAll(t)>>

Order(t) ==
    <<DataCompleteness(t), ClockTrust(t), ProposerMissed(t), PayloadLate(t),
      NetworkLateBlock(t), P2PDegraded(t), ELSlow(t), CLSlow(t),
      VCDisconnected(t), VCSlow(t), InclusionFailure(t), HostFallback(t),
      CatchAll(t)>>

-----------------------------------------------------------------------------
(* The engine.                                                             *)

FirstMatch(drafts) ==
    drafts[CHOOSE i \in 1..13 : /\ drafts[i] # Declined
                                /\ \A j \in 1..(i - 1) : drafts[j] = Declined]

Causes == {"network.proposer_missed", "network.payload_late", "network.late_block",
           "network.inclusion_failure", "local.p2p_degraded", "local.el_slow",
           "local.cl_slow", "local.vc_disconnected", "local.vc_slow",
           "local.host.disk_io", "local.host.cpu_steal",
           "local.host.memory_pressure", "local.host.clock_drift",
           "unknown.insufficient_data", "unknown.no_rule_matched"}

Verdict(t, draft) ==
    [outcome |-> DeriveOutcome(t), flags |-> DerivedFlags(t),
     cause |-> draft.cause, confidence |-> draft.confidence]

ValidCause(v) ==
    CASE v.outcome = "no_duty" -> v.cause = ""
      [] v.outcome = "ok"      -> v.cause \in Causes \cup {""}
      [] OTHER                 -> v.cause \in Causes

ValidFlags(v) ==
    /\ v.outcome = "degraded" => v.flags # {}
    /\ \A earned \in v.flags :
        CASE v.outcome = "no_duty"  -> FALSE
          [] v.outcome = "ok"       -> earned = AllFlags
          [] v.outcome = "degraded" -> earned # AllFlags /\ earned # {}
          [] OTHER                  -> earned = {}

Valid(v) == ValidCause(v) /\ ValidFlags(v)

(* A verdict that does not validate is replaced by the hand-built one.     *)
SafeFallback(v) ==
    [outcome |-> v.outcome,
     flags |-> IF v.outcome = "no_duty" THEN {} ELSE v.flags,
     cause |-> IF v.outcome = "no_duty" THEN "" ELSE "unknown.no_rule_matched",
     confidence |-> "low"]

Finish(v) == IF Valid(v) THEN v ELSE SafeFallback(v)

Analyze(t) ==
    LET draft == FirstMatch(Order(t))
        clean == /\ DeriveOutcome(t) = "ok"
                 /\ draft.cause = "unknown.no_rule_matched"
    IN  Finish(Verdict(t, IF ~t.duty \/ clean THEN Draft("", "high") ELSE draft))

-----------------------------------------------------------------------------
(* The timeline of a slot.                                                 *)

Init ==
    tl \in [duty       : BOOLEAN,
            payloadDue : BOOLEAN,
            clock      : ClockReadings,
            rows       : [Kinds -> {{}}]]

\* Mutant: the completion marker passes the filter.
DutyScopedAttestations(k) == k \in {"attestation_published", "attestation_included"}

(* Rows that belong to a validator's duty; without a selected duty they    *)
(* are filtered out of the timeline.                                       *)
DutyScoped(k) ==
    k \in {"attestation_published", "attestation_included", "collection_completed"}

RowLimit(k) == IF k \in Repeated THEN 2 ELSE 1

(* A collector writes a row of the slot.  Blocks carry the committee's     *)
(* votes only where the schedule has a payload deadline.                   *)
AddRow(k, r) ==
    /\ DutyScoped(k) => tl.duty
    /\ k = "payload_attested" => tl.payloadDue
    /\ Cardinality(tl.rows[k]) < RowLimit(k)
    /\ tl' = [tl EXCEPT !.rows[k] = @ \cup {r}]

Next == \E k \in Kinds : \E r \in Rows[k] : AddRow(k, r)

Spec == Init /\ [][Next]_tl

-----------------------------------------------------------------------------
(* Properties.                                                             *)

DutyRows == {"attestation_published", "attestation_included", "collection_completed"}

(* TypeOK: a timeline holds rows the collectors write, and none of a duty  *)
(* that was not selected.                                                  *)
TypeOK ==
    /\ tl.duty \in BOOLEAN /\ tl.payloadDue \in BOOLEAN
    /\ tl.clock \in ClockReadings
    /\ DOMAIN tl.rows = Kinds
    /\ \A k \in Kinds : tl.rows[k] \subseteq Rows[k]
    /\ \A k \in DutyRows : tl.rows[k] # {} => tl.duty

TimingCauses ==
    {"network.late_block", "network.inclusion_failure", "local.p2p_degraded",
     "local.el_slow", "local.cl_slow", "local.vc_disconnected", "local.vc_slow"}

TimedKinds ==
    {"block_seen", "head_updated", "attestation_published", "attestation_included",
     "engine_call"}

(* ClockGate: a verdict that rests on when things happened is given only   *)
(* if every local timestamp of the slot was taken with a measured, small   *)
(* clock offset (I-9), wherever in the rule order its rule stands.         *)
ClockGate ==
    (\E k \in TimedKinds : Has(tl, k) /\ tl.clock[k] # "trusted") =>
        Analyze(tl).cause \notin TimingCauses

NamedCauses == Causes \ {"unknown.insufficient_data", "unknown.no_rule_matched"}

(* CompleteBeforeBlame: no cause is named, not even an exonerating one,    *)
(* before the collectors recorded that the whole inclusion window was      *)
(* observed: until then a missing row proves nothing.                      *)
CompleteBeforeBlame ==
    ~Has(tl, "collection_completed") => Analyze(tl).cause \notin NamedCauses

LossCauses ==
    {"network.payload_late", "local.host.disk_io", "local.host.cpu_steal",
     "local.host.memory_pressure"}

(* OutcomeAgreement: the outcome of deriveOutcome and the loss the rules   *)
(* see by dutyHasObservableLoss agree on every timeline: a fulfilled duty  *)
(* is never given a cause that needs a loss nor called a taxonomy gap, and *)
(* a loss always comes with a cause of the taxonomy.                       *)
OutcomeAgreement ==
    LET v == Analyze(tl)
    IN  /\ v.outcome = "ok" => v.cause \notin LossCauses \cup {"unknown.no_rule_matched"}
        /\ v.outcome \in {"degraded", "missed"} => v.cause \in Causes

TimingRules(t) ==
    {NetworkLateBlock(t), P2PDegraded(t), ELSlow(t), CLSlow(t), VCDisconnected(t), VCSlow(t)}

(* LayersExclusive: no timeline satisfies two of the rules that blame the  *)
(* network, the peers, the execution client, the consensus client or the   *)
(* validator client for a duration, so which of them speaks does not       *)
(* depend on their order.                                                  *)
LayersExclusive == Cardinality(TimingRules(tl) \ {Declined}) <= 1

(* VerdictValid: what Analyze returns satisfies Verdict.Validate, the      *)
(* hand-built fallback included, as the comment on safeFallback says.      *)
VerdictValid == Valid(Analyze(tl))

=============================================================================
