-------------------------- MODULE AttributionProofs --------------------------
(***************************************************************************)
(* Proofs about Attribution for any sets of rows, any clock readings and   *)
(* any thresholds the configuration accepts.                               *)
(***************************************************************************)
EXTENDS Attribution, FiniteSetTheorems, TLAPS

\* The loop over the ordered rules ends with the first draft that is not
\* declined, and it ends because the last rule never declines.
LEMMA FirstMatchExists ==
  ASSUME NEW d, d[13] # Declined
  PROVE  \E i \in 1..13 : /\ d[i] # Declined /\ FirstMatch(d) = d[i]
                          /\ \A j \in 1..(i - 1) : d[j] = Declined
<1> DEFINE P(i) == d[i] # Declined /\ \A j \in 1..(i - 1) : d[j] = Declined
<1>1. \E i \in 1..13 : P(i)
  <2> SUFFICES ASSUME \A i \in 1..13 : ~P(i) PROVE FALSE
    OBVIOUS
  <2>1. d[1] = Declined
    <3>1. ~P(1)
      OBVIOUS
    <3> QED
      BY <3>1
  <2>2. d[2] = Declined
    <3>1. ~P(2)
      OBVIOUS
    <3> QED
      BY <3>1, <2>1
  <2>3. d[3] = Declined
    <3>1. ~P(3)
      OBVIOUS
    <3> QED
      BY <3>1, <2>1, <2>2
  <2>4. d[4] = Declined
    <3>1. ~P(4)
      OBVIOUS
    <3> QED
      BY <3>1, <2>1, <2>2, <2>3
  <2>5. d[5] = Declined
    <3>1. ~P(5)
      OBVIOUS
    <3> QED
      BY <3>1, <2>1, <2>2, <2>3, <2>4
  <2>6. d[6] = Declined
    <3>1. ~P(6)
      OBVIOUS
    <3> QED
      BY <3>1, <2>1, <2>2, <2>3, <2>4, <2>5
  <2>7. d[7] = Declined
    <3>1. ~P(7)
      OBVIOUS
    <3> QED
      BY <3>1, <2>1, <2>2, <2>3, <2>4, <2>5, <2>6
  <2>8. d[8] = Declined
    <3>1. ~P(8)
      OBVIOUS
    <3> QED
      BY <3>1, <2>1, <2>2, <2>3, <2>4, <2>5, <2>6, <2>7
  <2>9. d[9] = Declined
    <3>1. ~P(9)
      OBVIOUS
    <3> QED
      BY <3>1, <2>1, <2>2, <2>3, <2>4, <2>5, <2>6, <2>7, <2>8
  <2>10. d[10] = Declined
    <3>1. ~P(10)
      OBVIOUS
    <3> QED
      BY <3>1, <2>1, <2>2, <2>3, <2>4, <2>5, <2>6, <2>7, <2>8, <2>9
  <2>11. d[11] = Declined
    <3>1. ~P(11)
      OBVIOUS
    <3> QED
      BY <3>1, <2>1, <2>2, <2>3, <2>4, <2>5, <2>6, <2>7, <2>8, <2>9, <2>10
  <2>12. d[12] = Declined
    <3>1. ~P(12)
      OBVIOUS
    <3> QED
      BY <3>1, <2>1, <2>2, <2>3, <2>4, <2>5, <2>6, <2>7, <2>8, <2>9, <2>10, <2>11
  <2>13. d[13] = Declined
    <3>1. ~P(13)
      OBVIOUS
    <3> QED
      BY <3>1, <2>1, <2>2, <2>3, <2>4, <2>5, <2>6, <2>7, <2>8, <2>9, <2>10, <2>11, <2>12
  <2> QED
    BY <2>13
<1>2. P(CHOOSE i \in 1..13 : P(i)) /\ (CHOOSE i \in 1..13 : P(i)) \in 1..13
  BY <1>1
<1>3. FirstMatch(d) = d[CHOOSE i \in 1..13 : P(i)]
  BY DEF FirstMatch
<1> QED
  BY <1>2, <1>3

\* The entries of the rule order.
LEMMA OrderEntries ==
  ASSUME NEW t
  PROVE  /\ Order(t)[1] = DataCompleteness(t)
         /\ Order(t)[2] = ClockTrust(t)
         /\ Order(t)[3] = ProposerMissed(t)
         /\ Order(t)[4] = PayloadLate(t)
         /\ Order(t)[5] = NetworkLateBlock(t)
         /\ Order(t)[6] = P2PDegraded(t)
         /\ Order(t)[7] = ELSlow(t)
         /\ Order(t)[8] = CLSlow(t)
         /\ Order(t)[9] = VCDisconnected(t)
         /\ Order(t)[10] = VCSlow(t)
         /\ Order(t)[11] = InclusionFailure(t)
         /\ Order(t)[12] = HostFallback(t)
         /\ Order(t)[13] = CatchAll(t)
  BY DEF Order

-----------------------------------------------------------------------------
(* What a rule can answer.                                                 *)

\* Each rule declines or names one of its own causes; the last one speaks.
LEMMA RuleCauses ==
  ASSUME NEW t
  PROVE  /\ \/ DataCompleteness(t) = Declined
            \/ DataCompleteness(t).cause = "unknown.insufficient_data"
         /\ \/ ClockTrust(t) = Declined
            \/ ClockTrust(t).cause = "unknown.insufficient_data"
            \/ ClockTrust(t).cause = "local.host.clock_drift"
         /\ \/ ProposerMissed(t) = Declined
            \/ ProposerMissed(t).cause = "network.proposer_missed"
            \/ ProposerMissed(t).cause = "unknown.insufficient_data"
         /\ \/ PayloadLate(t) = Declined
            \/ PayloadLate(t).cause = "network.payload_late"
         /\ \/ NetworkLateBlock(t) = Declined
            \/ NetworkLateBlock(t).cause = "network.late_block"
            \/ NetworkLateBlock(t).cause = "unknown.insufficient_data"
         /\ \/ P2PDegraded(t) = Declined
            \/ P2PDegraded(t).cause = "local.p2p_degraded"
         /\ \/ ELSlow(t) = Declined
            \/ ELSlow(t).cause = "local.el_slow"
         /\ \/ CLSlow(t) = Declined
            \/ CLSlow(t).cause = "local.cl_slow"
         /\ \/ VCDisconnected(t) = Declined
            \/ VCDisconnected(t).cause = "local.vc_disconnected"
         /\ \/ VCSlow(t) = Declined
            \/ VCSlow(t).cause = "local.vc_slow"
         /\ \/ InclusionFailure(t) = Declined
            \/ InclusionFailure(t).cause = "network.inclusion_failure"
            \/ InclusionFailure(t).cause = "unknown.insufficient_data"
         /\ \/ HostFallback(t) = Declined
            \/ HostFallback(t).cause = "local.host.disk_io"
            \/ HostFallback(t).cause = "local.host.cpu_steal"
            \/ HostFallback(t).cause = "local.host.memory_pressure"
         /\ CatchAll(t).cause \in {"unknown.insufficient_data", "unknown.no_rule_matched"}
<1> USE DEF Draft, Declined, InsufficientData
<1>1. \/ DataCompleteness(t) = Declined
     \/ DataCompleteness(t).cause = "unknown.insufficient_data"
  BY DEF DataCompleteness
<1>2. \/ ClockTrust(t) = Declined
     \/ ClockTrust(t).cause = "unknown.insufficient_data"
     \/ ClockTrust(t).cause = "local.host.clock_drift"
  BY DEF ClockTrust
<1>3. \/ ProposerMissed(t) = Declined
     \/ ProposerMissed(t).cause = "network.proposer_missed"
     \/ ProposerMissed(t).cause = "unknown.insufficient_data"
  BY DEF ProposerMissed
<1>4. \/ PayloadLate(t) = Declined
     \/ PayloadLate(t).cause = "network.payload_late"
  BY DEF PayloadLate
<1>5. \/ NetworkLateBlock(t) = Declined
     \/ NetworkLateBlock(t).cause = "network.late_block"
     \/ NetworkLateBlock(t).cause = "unknown.insufficient_data"
  BY DEF NetworkLateBlock
<1>6. \/ P2PDegraded(t) = Declined
     \/ P2PDegraded(t).cause = "local.p2p_degraded"
  BY DEF P2PDegraded
<1>7. \/ ELSlow(t) = Declined
     \/ ELSlow(t).cause = "local.el_slow"
  BY DEF ELSlow
<1>8. \/ CLSlow(t) = Declined
     \/ CLSlow(t).cause = "local.cl_slow"
  BY DEF CLSlow
<1>9. \/ VCDisconnected(t) = Declined
     \/ VCDisconnected(t).cause = "local.vc_disconnected"
  BY DEF VCDisconnected
<1>10. \/ VCSlow(t) = Declined
      \/ VCSlow(t).cause = "local.vc_slow"
  BY DEF VCSlow
<1>11. \/ InclusionFailure(t) = Declined
      \/ InclusionFailure(t).cause = "network.inclusion_failure"
      \/ InclusionFailure(t).cause = "unknown.insufficient_data"
  BY DEF InclusionFailure
<1>12. \/ HostFallback(t) = Declined
      \/ HostFallback(t).cause = "local.host.disk_io"
      \/ HostFallback(t).cause = "local.host.cpu_steal"
      \/ HostFallback(t).cause = "local.host.memory_pressure"
  BY DEF HostFallback
<1>13. CatchAll(t).cause \in {"unknown.insufficient_data", "unknown.no_rule_matched"}
  BY DEF CatchAll
<1> QED
  BY <1>1, <1>2, <1>3, <1>4, <1>5, <1>6, <1>7, <1>8, <1>9, <1>10, <1>11, <1>12, <1>13

\* A rule that matches names a cause of the taxonomy.
LEMMA MatchInTaxonomy ==
  ASSUME NEW t, NEW i \in 1..13, Order(t)[i] # Declined
  PROVE  Order(t)[i].cause \in Causes
<1>1. DataCompleteness(t) = Declined \/ DataCompleteness(t).cause \in Causes
  BY RuleCauses DEF Causes
<1>2. ClockTrust(t) = Declined \/ ClockTrust(t).cause \in Causes
  BY RuleCauses DEF Causes
<1>3. ProposerMissed(t) = Declined \/ ProposerMissed(t).cause \in Causes
  BY RuleCauses DEF Causes
<1>4. PayloadLate(t) = Declined \/ PayloadLate(t).cause \in Causes
  BY RuleCauses DEF Causes
<1>5. NetworkLateBlock(t) = Declined \/ NetworkLateBlock(t).cause \in Causes
  BY RuleCauses DEF Causes
<1>6. P2PDegraded(t) = Declined \/ P2PDegraded(t).cause \in Causes
  BY RuleCauses DEF Causes
<1>7. ELSlow(t) = Declined \/ ELSlow(t).cause \in Causes
  BY RuleCauses DEF Causes
<1>8. CLSlow(t) = Declined \/ CLSlow(t).cause \in Causes
  BY RuleCauses DEF Causes
<1>9. VCDisconnected(t) = Declined \/ VCDisconnected(t).cause \in Causes
  BY RuleCauses DEF Causes
<1>10. VCSlow(t) = Declined \/ VCSlow(t).cause \in Causes
  BY RuleCauses DEF Causes
<1>11. InclusionFailure(t) = Declined \/ InclusionFailure(t).cause \in Causes
  BY RuleCauses DEF Causes
<1>12. HostFallback(t) = Declined \/ HostFallback(t).cause \in Causes
  BY RuleCauses DEF Causes
<1>13. CatchAll(t).cause \in Causes
  BY RuleCauses DEF Causes
<1> QED
  BY OrderEntries, <1>1, <1>2, <1>3, <1>4, <1>5, <1>6, <1>7, <1>8, <1>9, <1>10, <1>11, <1>12, <1>13

\* Where the cause of a verdict comes from: nowhere, the fallback, or the
\* first rule that did not decline.
LEMMA CauseOrigin ==
  ASSUME NEW t
  PROVE  \/ Analyze(t).cause \in {"", "unknown.no_rule_matched"}
         \/ /\ t.duty
            /\ \E i \in 1..13 : /\ Order(t)[i] # Declined
                               /\ Analyze(t).cause = Order(t)[i].cause
                               /\ \A j \in 1..(i - 1) : Order(t)[j] = Declined
<1> DEFINE draft == FirstMatch(Order(t))
           v     == Verdict(t, draft)
<1>1. Order(t)[13] # Declined
  BY OrderEntries, RuleCauses DEF Declined, Draft
<1>2. PICK i \in 1..13 : /\ Order(t)[i] # Declined /\ draft = Order(t)[i]
                         /\ \A j \in 1..(i - 1) : Order(t)[j] = Declined
  BY <1>1, FirstMatchExists
<1>3. \A d : Finish(Verdict(t, d)).cause \in {d.cause, "", "unknown.no_rule_matched"}
  BY DEF Finish, SafeFallback, Verdict
<1>4. Draft("", "high").cause = ""
  BY DEF Draft
<1>5. CASE ~t.duty \/ (DeriveOutcome(t) = "ok" /\ draft.cause = "unknown.no_rule_matched")
  <2>1. Analyze(t) = Finish(Verdict(t, Draft("", "high")))
    BY <1>5 DEF Analyze
  <2> QED
    BY <2>1, <1>3, <1>4
<1>6. CASE t.duty /\ ~(DeriveOutcome(t) = "ok" /\ draft.cause = "unknown.no_rule_matched")
  <2>1. Analyze(t) = Finish(Verdict(t, draft))
    BY <1>6 DEF Analyze
  <2> QED
    BY <2>1, <1>2, <1>3, <1>6
<1> QED
  BY <1>5, <1>6

-----------------------------------------------------------------------------
(* The rows of a timeline.                                                 *)

\* A timeline has its four fields, and at most two rows of a kind, all of
\* them rows of that kind.
Shape ==
  /\ tl = [duty |-> tl.duty, payloadDue |-> tl.payloadDue,
           clock |-> tl.clock, rows |-> tl.rows]
  /\ tl.duty \in BOOLEAN /\ tl.payloadDue \in BOOLEAN
  /\ tl.clock \in ClockReadings
  /\ tl.rows = [k \in Kinds |-> tl.rows[k]]
  /\ \A k \in Kinds : \/ tl.rows[k] = {}
                      \/ \E a, b \in Rows[k] : tl.rows[k] = {a, b}

\* The rows of a duty are there only for a selected duty.
Filtered == \A k \in DutyRows : tl.rows[k] # {} => tl.duty

\* An attestation is included once.
IncludedOnce ==
  \/ tl.rows["attestation_included"] = {}
  \/ \E r \in Rows["attestation_included"] : tl.rows["attestation_included"] = {r}

IInv == Shape /\ Filtered /\ IncludedOnce

\* The size of a pair.
LEMMA PairCardinality ==
  ASSUME NEW a, NEW b
  PROVE  Cardinality({a, b}) = IF a = b THEN 1 ELSE 2
<1>1. IsFiniteSet({a}) /\ Cardinality({a}) = 1
  BY FS_Singleton
<1>2. Cardinality({a} \cup {b}) = IF b \in {a} THEN Cardinality({a}) ELSE Cardinality({a}) + 1
  BY <1>1, FS_AddElement
<1>3. {a} \cup {b} = {a, b}
  OBVIOUS
<1> QED
  BY <1>1, <1>2, <1>3

\* The empty timeline.
LEMMA InitRows == Init => IInv
<1> SUFFICES ASSUME Init PROVE IInv
  OBVIOUS
<1>1. PICK c \in ClockReadings, u \in BOOLEAN, p \in BOOLEAN, f \in [Kinds -> {{}}] :
        tl = [duty |-> u, payloadDue |-> p, clock |-> c, rows |-> f]
  BY DEF Init
<1> QED
  BY <1>1 DEF IInv, Shape, Filtered, IncludedOnce, DutyRows, Kinds

\* Writing a row.
LEMMA AddRowKeeps == IInv /\ [Next]_tl => IInv'
<1> SUFFICES ASSUME IInv, [Next]_tl PROVE IInv'
  OBVIOUS
<1>1. CASE UNCHANGED tl
  BY <1>1 DEF IInv, Shape, Filtered, IncludedOnce
<1>2. ASSUME NEW k \in Kinds, NEW r \in Rows[k], AddRow(k, r) PROVE IInv'
  <2>0. Cardinality(tl.rows[k]) < RowLimit(k)
    BY <1>2, Zenon DEF AddRow
  <2>1. tl' = [tl EXCEPT !.rows = [tl.rows EXCEPT ![k] = tl.rows[k] \cup {r}]]
    BY <1>2 DEF AddRow
  <2>2. tl' = [duty |-> tl.duty, payloadDue |-> tl.payloadDue, clock |-> tl.clock,
               rows |-> [tl.rows EXCEPT ![k] = tl.rows[k] \cup {r}]]
    BY <2>1 DEF IInv, Shape
  <2>3. \A q \in Kinds : tl'.rows[q] = IF q = k THEN tl.rows[k] \cup {r} ELSE tl.rows[q]
    BY <2>2 DEF IInv, Shape
  <2>4. \E a, b \in Rows[k] : tl.rows[k] \cup {r} = {a, b}
    <3>1. CASE tl.rows[k] = {}
      BY <3>1
    <3>2. ASSUME NEW a \in Rows[k], NEW b \in Rows[k], tl.rows[k] = {a, b}
          PROVE  \E x, y \in Rows[k] : tl.rows[k] \cup {r} = {x, y}
      <4>1. a = b
        <5>1. Cardinality({a, b}) < RowLimit(k)
          BY <2>0, <3>2
        <5>2. RowLimit(k) = 1 \/ RowLimit(k) = 2
          BY DEF RowLimit
        <5>3. Cardinality({a, b}) = IF a = b THEN 1 ELSE 2
          BY PairCardinality
        <5> QED
          BY <5>1, <5>2, <5>3
      <4>2. tl.rows[k] \cup {r} = {a, r}
        BY <4>1, <3>2
      <4> QED
        BY <4>2
    <3> QED
      BY <3>1, <3>2 DEF IInv, Shape
  <2>5. Shape'
    BY <2>2, <2>3, <2>4 DEF IInv, Shape
  <2>6. Filtered'
    <3>1. DutyRows \subseteq Kinds /\ (k \in DutyRows => tl.duty)
      BY <1>2 DEF DutyRows, Kinds, AddRow, DutyScoped
    <3>2. tl'.duty = tl.duty
      BY <2>2
    <3> QED
      BY <2>3, <3>1, <3>2 DEF IInv, Filtered
  <2>7. IncludedOnce'
    <3>1. CASE k # "attestation_included"
      BY <2>3, <3>1 DEF IInv, IncludedOnce, Kinds
    <3>2. CASE k = "attestation_included"
      <4>1. Cardinality(tl.rows[k]) < 1
        BY <2>0, <3>2, InclusionAssumption DEF RowLimit
      <4>2. \A r1 : Cardinality({r1}) = 1
        BY FS_Singleton
      <4>3. tl.rows[k] = {}
        BY <4>1, <4>2, <3>2 DEF IInv, IncludedOnce
      <4> QED
        BY <2>3, <3>2, <4>3 DEF IncludedOnce, Kinds
    <3> QED
      BY <3>1, <3>2
  <2> QED
    BY <2>5, <2>6, <2>7 DEF IInv
<1> QED
  BY <1>1, <1>2 DEF Next

\* IInv holds of every timeline.
LEMMA RowsInvariant == Spec => []IInv
<1>1. Init => IInv
  BY InitRows
<1>2. IInv /\ [Next]_tl => IInv'
  BY AddRowKeeps
<1> QED
  BY <1>1, <1>2, PTL DEF Spec

-----------------------------------------------------------------------------
(* The gates of the rule order.                                            *)

\* A cause that only rules after R-010 and R-011 can give comes with both of
\* them declined.
LEMMA GatesPassed ==
  ASSUME NEW t, Analyze(t).cause \in NamedCauses
  PROVE  /\ t.duty
         /\ DataCompleteness(t) = Declined
         /\ Analyze(t).cause = "local.host.clock_drift" \/ ClockTrust(t) = Declined
<1>1. Analyze(t).cause \notin {"", "unknown.no_rule_matched", "unknown.insufficient_data", "declined"}
  BY DEF NamedCauses, Causes
<1>2. PICK i \in 1..13 : /\ t.duty /\ Order(t)[i] # Declined
                         /\ Analyze(t).cause = Order(t)[i].cause
                         /\ \A j \in 1..(i - 1) : Order(t)[j] = Declined
  BY <1>1, CauseOrigin
<1>3. i # 1
  <2> SUFFICES ASSUME i = 1 PROVE FALSE
    OBVIOUS
  <2>1. Analyze(t).cause = DataCompleteness(t).cause /\ DataCompleteness(t) # Declined
    BY <1>2, OrderEntries
  <2>2. DataCompleteness(t).cause = "unknown.insufficient_data"
    BY <2>1, RuleCauses
  <2> QED
    BY <1>1, <2>1, <2>2
<1>4. Order(t)[1] = Declined
  BY <1>2, <1>3
<1>5. i = 2 => Analyze(t).cause = "local.host.clock_drift"
  <2> SUFFICES ASSUME i = 2 PROVE Analyze(t).cause = "local.host.clock_drift"
    OBVIOUS
  <2>1. Analyze(t).cause = ClockTrust(t).cause /\ ClockTrust(t) # Declined
    BY <1>2, OrderEntries
  <2>2. \/ ClockTrust(t).cause = "unknown.insufficient_data"
        \/ ClockTrust(t).cause = "local.host.clock_drift"
    BY <2>1, RuleCauses
  <2> QED
    BY <1>1, <2>1, <2>2
<1>6. i # 2 => Order(t)[2] = Declined
  BY <1>2, <1>3
<1> QED
  BY <1>2, <1>4, <1>5, <1>6, OrderEntries

\* No cause is named before the collection is complete.
THEOREM BlameWaits == Spec => []CompleteBeforeBlame
<1>1. CompleteBeforeBlame
  <2> SUFFICES ASSUME Analyze(tl).cause \in NamedCauses PROVE Has(tl, "collection_completed")
    BY DEF CompleteBeforeBlame
  <2>1. tl.duty /\ DataCompleteness(tl) = Declined
    BY GatesPassed
  <2>2. InsufficientData # Declined
    BY DEF InsufficientData, Declined, Draft
  <2> QED
    BY <2>1, <2>2 DEF DataCompleteness
<1> QED
  BY <1>1, PTL

\* A verdict about durations rests on trusted local clocks only.
THEOREM ClockDiscipline == Spec => []ClockGate
<1>1. Shape => ClockGate
  <2> SUFFICES ASSUME Shape, Analyze(tl).cause \in TimingCauses,
                      NEW k \in TimedKinds, Has(tl, k)
               PROVE  tl.clock[k] = "trusted"
    BY DEF ClockGate
  <2>1. Analyze(tl).cause \in NamedCauses /\ Analyze(tl).cause # "local.host.clock_drift"
    BY DEF TimingCauses, NamedCauses, Causes
  <2>2. ClockTrust(tl) = Declined
    BY <2>1, GatesPassed
  <2>3. InsufficientData # Declined /\ Draft("local.host.clock_drift", "high") # Declined
    BY DEF InsufficientData, Declined, Draft
  <2>4. RowsWithClock(tl, "unmeasured") = {} /\ RowsWithClock(tl, "drifting") = {}
    BY <2>2, <2>3 DEF ClockTrust
  <2>5. k \in Kinds /\ RequiresClockTrust(k)
    BY DEF TimedKinds, Kinds, RequiresClockTrust
  <2>6. tl.clock[k] # "unmeasured" /\ tl.clock[k] # "drifting"
    BY <2>4, <2>5 DEF RowsWithClock
  <2>7. tl.clock[k] \in Trust
    BY <2>5, ClockAssumption DEF Shape
  <2> QED
    BY <2>6, <2>7 DEF Trust
<1>2. IInv => ClockGate
  BY <1>1 DEF IInv
<1> QED
  BY <1>2, RowsInvariant, PTL

\* Timelines hold what the collectors write, and no row of a duty that was not
\* selected.
THEOREM TypeCorrect == Spec => []TypeOK
<1>1. IInv => TypeOK
  <2> SUFFICES ASSUME IInv PROVE TypeOK
    OBVIOUS
  <2>1. DOMAIN tl.rows = Kinds /\ \A k \in Kinds : tl.rows[k] \subseteq Rows[k]
    BY DEF IInv, Shape
  <2> QED
    BY <2>1 DEF IInv, Shape, Filtered, TypeOK
<1> QED
  BY <1>1, RowsInvariant, PTL

-----------------------------------------------------------------------------
(* The rules about durations exclude one another.                          *)

\* The first of at most two rows is one of them.
LEMMA FirstOfPair ==
  ASSUME NEW S, NEW a, NEW b, S \subseteq {a, b}, S # {}, a.at \in Int, b.at \in Int
  PROVE  First(S) \in S
<1>1. S = {a} \/ S = {b} \/ S = {a, b}
  OBVIOUS
<1>2. \E r \in S : \A q \in S : r.at <= q.at
  BY <1>1
<1> QED
  BY <1>2 DEF First

\* The first arrival, head and publication of a slot are recorded offsets.
LEMMA FirstOffsets ==
  ASSUME Shape
  PROVE  /\ TimedArrivals(tl) # {} => First(TimedArrivals(tl)).at \in Int
         /\ Has(tl, "head_updated") => First(tl.rows["head_updated"]).at \in Int
<1>1. ASSUME TimedArrivals(tl) # {} PROVE First(TimedArrivals(tl)).at \in Int
  <2>1. TimedArrivals(tl) \subseteq tl.rows["block_seen"]
    BY DEF TimedArrivals
  <2>2. PICK a \in Rows["block_seen"], b \in Rows["block_seen"] : tl.rows["block_seen"] = {a, b}
    BY <1>1, <2>1 DEF Shape, Kinds
  <2>3. a.at \in Int /\ b.at \in Int
    BY RowsAssumption
  <2>4. First(TimedArrivals(tl)) \in {a, b}
    BY <1>1, <2>1, <2>2, <2>3, FirstOfPair
  <2> QED
    BY <2>3, <2>4
<1>2. ASSUME Has(tl, "head_updated") PROVE First(tl.rows["head_updated"]).at \in Int
  <2>1. PICK a \in Rows["head_updated"], b \in Rows["head_updated"] : tl.rows["head_updated"] = {a, b}
    BY <1>2 DEF Shape, Kinds, Has
  <2>2. a.at \in Int /\ b.at \in Int
    BY RowsAssumption
  <2>3. First(tl.rows["head_updated"]) \in {a, b}
    BY <2>1, <2>2, FirstOfPair
  <2> QED
    BY <2>2, <2>3
<1> QED
  BY <1>1, <1>2

\* A late propagation is not a dominant validation.
LEMMA OneDominantStage ==
  ASSUME NEW t, PropagationOverspent(t)
  PROVE  ~Dominant(ComputeStages(t), "validation")
<1> DEFINE st == ComputeStages(t)
<1>1. Known(st) = {"propagation"} \/ Dominant(st, "propagation")
  BY DEF PropagationOverspent
<1>2. Cardinality({"propagation"}) = 1
  BY FS_Singleton
<1>3. Known(st) = {"propagation"} => ~Dominant(st, "validation")
  <2> SUFFICES ASSUME Known(st) = {"propagation"}, Dominant(st, "validation") PROVE FALSE
    OBVIOUS
  <2>1. Cardinality(Known(st)) >= 2
    BY DEF Dominant
  <2> QED
    BY <1>2, <2>1
<1>4. Dominant(st, "propagation") => ~Dominant(st, "validation")
  BY DEF Dominant
<1> QED
  BY <1>1, <1>3, <1>4

\* A late propagation is not an arrival in time.
LEMMA LateNotTimely ==
  ASSUME Shape, NodeTimely(tl)
  PROVE  ~PropagationOverspent(tl) /\ ~HeadLate(tl)
<1>1. /\ First(TimedArrivals(tl)).at \in Int /\ First(TimedArrivals(tl)).at < AttestationDeadline
      /\ First(tl.rows["head_updated"]).at \in Int
      /\ First(tl.rows["head_updated"]).at < AttestationDeadline
  BY FirstOffsets DEF NodeTimely
<1>2. ~HeadLate(tl)
  BY <1>1, ThresholdAssumption DEF HeadLate
<1>3. \/ ComputeStages(tl)["propagation"] = First(TimedArrivals(tl)).at
      \/ ComputeStages(tl)["propagation"] = Unknown
  BY DEF ComputeStages
<1>4. ~(ComputeStages(tl)["propagation"] > AttestationDeadline)
  BY <1>1, <1>3, ThresholdAssumption DEF Unknown
<1> QED
  BY <1>2, <1>4 DEF PropagationOverspent

\* At most one rule about durations matches a timeline.
THEOREM OneLayerBlamed == Spec => []LayersExclusive
<1>1. Shape => LayersExclusive
  <2> SUFFICES ASSUME Shape PROVE LayersExclusive
    OBVIOUS
  <2>1. NetworkLateBlock(tl) # Declined =>
          /\ PropagationOverspent(tl)
          /\ Has(tl, "network_baseline_sampled") => NetworkP50(tl) > AttestationDeadline
    BY DEF NetworkLateBlock
  <2>2. P2PDegraded(tl) # Declined =>
          /\ PropagationOverspent(tl) /\ Has(tl, "network_baseline_sampled")
          /\ ~(NetworkP50(tl) > AttestationDeadline)
    BY DEF P2PDegraded
  <2>3. ELSlow(tl) # Declined =>
          /\ HeadLate(tl) /\ Dominant(ComputeStages(tl), "validation")
          /\ ~(EngineCallTotal(tl) < ComputeStages(tl)["validation"] \div 2)
    BY DEF ELSlow
  <2>4. CLSlow(tl) # Declined =>
          /\ HeadLate(tl) /\ Dominant(ComputeStages(tl), "validation")
          /\ EngineCallTotal(tl) < ComputeStages(tl)["validation"] \div 2
    BY DEF CLSlow
  <2>5. VCDisconnected(tl) # Declined => NodeTimely(tl) /\ ~Has(tl, "attestation_published")
    BY DEF VCDisconnected
  <2>6. VCSlow(tl) # Declined => NodeTimely(tl) /\ Has(tl, "attestation_published")
    BY DEF VCSlow
  <2>7. NodeTimely(tl) => ~PropagationOverspent(tl) /\ ~HeadLate(tl)
    BY LateNotTimely
  <2>8. PropagationOverspent(tl) => ~Dominant(ComputeStages(tl), "validation")
    BY OneDominantStage
  <2>9. \E r : TimingRules(tl) \ {Declined} \subseteq {r}
    <3> DEFINE network == NetworkLateBlock(tl)
               peers   == P2PDegraded(tl)
               el      == ELSlow(tl)
               cl      == CLSlow(tl)
               gone    == VCDisconnected(tl)
               slow    == VCSlow(tl)
    <3>1. TimingRules(tl) = {network, peers, el, cl, gone, slow}
      BY DEF TimingRules
    <3>2. network = Declined \/ peers = Declined
      BY <2>1, <2>2
    <3>3. el = Declined \/ cl = Declined
      BY <2>3, <2>4
    <3>4. gone = Declined \/ slow = Declined
      BY <2>5, <2>6
    <3>5. (network = Declined /\ peers = Declined) \/ (el = Declined /\ cl = Declined)
      BY <2>1, <2>2, <2>3, <2>4, <2>8
    <3>6. (network = Declined /\ peers = Declined) \/ (gone = Declined /\ slow = Declined)
      BY <2>1, <2>2, <2>5, <2>6, <2>7
    <3>7. (el = Declined /\ cl = Declined) \/ (gone = Declined /\ slow = Declined)
      BY <2>3, <2>4, <2>5, <2>6, <2>7
    <3> HIDE DEF network, peers, el, cl, gone, slow
    <3> QED
      BY <3>1, <3>2, <3>3, <3>4, <3>5, <3>6, <3>7
  <2>10. PICK r : TimingRules(tl) \ {Declined} \subseteq {r}
    BY <2>9
  <2>11. TimingRules(tl) \ {Declined} = {} \/ TimingRules(tl) \ {Declined} = {r}
    BY <2>10
  <2>12. Cardinality({}) = 0 /\ Cardinality({r}) = 1
    BY FS_EmptySet, FS_Singleton
  <2> QED
    BY <2>11, <2>12 DEF LayersExclusive
<1>2. IInv => LayersExclusive
  BY <1>1 DEF IInv
<1> QED
  BY <1>2, RowsInvariant, PTL

-----------------------------------------------------------------------------
(* The outcome and the rules agree on what was lost.                       *)

\* A fulfilled duty earned every flag, and the rules see no loss.
LEMMA FulfilledDuty ==
  ASSUME IncludedOnce, DeriveOutcome(tl) = "ok"
  PROVE  tl.duty /\ DerivedFlags(tl) = {AllFlags} /\ ~DutyHasObservableLoss(tl)
<1>1. tl.duty /\ tl.rows["attestation_included"] # {} /\ AllFlags \in DerivedFlags(tl)
  BY DEF DeriveOutcome, Has
<1>2. PICK r : tl.rows["attestation_included"] = {r}
  BY <1>1 DEF IncludedOnce
<1>3. DerivedFlags(tl) = {RewardFlags(r)}
  BY <1>1, <1>2 DEF DerivedFlags
<1>4. RewardFlags(r) = AllFlags
  BY <1>1, <1>3
<1>5. "timely_head" \in RewardFlags(r)
  BY <1>4 DEF AllFlags
<1>6. r.delay = 1 /\ r.target = "true" /\ r.head = "true"
  BY <1>5 DEF RewardFlags
<1> QED
  BY <1>1, <1>2, <1>3, <1>4, <1>6 DEF DutyHasObservableLoss

\* The draft of the rule loop is in the taxonomy.
LEMMA DraftInTaxonomy ==
  ASSUME NEW t
  PROVE  FirstMatch(Order(t)).cause \in Causes
<1>1. Order(t)[13] # Declined
  BY OrderEntries, RuleCauses DEF Declined, Draft
<1>2. PICK i \in 1..13 : Order(t)[i] # Declined /\ FirstMatch(Order(t)) = Order(t)[i]
  BY <1>1, FirstMatchExists
<1> QED
  BY <1>2, MatchInTaxonomy

\* The outcome and the rules agree: no loss cause on a fulfilled duty, and a
\* cause of the taxonomy for every loss.
THEOREM OutcomesAgree == Spec => []OutcomeAgreement
<1>1. ASSUME IncludedOnce PROVE OutcomeAgreement
  <2> DEFINE draft == FirstMatch(Order(tl))
             v     == Analyze(tl)
  <2>1. \A d : Finish(Verdict(tl, d)).outcome = DeriveOutcome(tl)
    BY DEF Finish, SafeFallback, Verdict
  <2>2. v.outcome = DeriveOutcome(tl)
    <3>1. v = Finish(Verdict(tl, Draft("", "high"))) \/ v = Finish(Verdict(tl, draft))
      BY DEF Analyze
    <3> QED
      BY <2>1, <3>1
  <2>3. draft.cause \in Causes /\ "" \notin Causes /\ "unknown.no_rule_matched" \in Causes
    BY DraftInTaxonomy DEF Causes
  <2>4. ASSUME v.outcome = "ok"
        PROVE  v.cause \notin LossCauses \cup {"unknown.no_rule_matched"}
    <3>1. tl.duty /\ DerivedFlags(tl) = {AllFlags} /\ ~DutyHasObservableLoss(tl)
      BY <1>1, <2>2, <2>4, FulfilledDuty
    <3>2. \A d : d.cause \in Causes \cup {""} => Finish(Verdict(tl, d)).cause = d.cause
      BY <2>2, <2>4, <3>1 DEF Finish, Verdict, Valid, ValidCause, ValidFlags
    <3>3. v.cause # "unknown.no_rule_matched"
      <4>1. CASE draft.cause = "unknown.no_rule_matched"
        <5>1. v = Finish(Verdict(tl, Draft("", "high")))
          BY <2>2, <2>4, <4>1 DEF Analyze
        <5>2. Draft("", "high").cause = ""
          BY DEF Draft
        <5> QED
          BY <3>2, <5>1, <5>2
      <4>2. CASE draft.cause # "unknown.no_rule_matched"
        <5>1. v = Finish(Verdict(tl, draft))
          BY <3>1, <4>2 DEF Analyze
        <5> QED
          BY <2>3, <3>2, <4>2, <5>1
      <4> QED
        BY <4>1, <4>2
    <3>4. PayloadLate(tl) = Declined /\ HostFallback(tl) = Declined
      BY <3>1 DEF PayloadLate, HostFallback
    <3>5. ASSUME NEW i \in 1..13, Order(tl)[i] # Declined
          PROVE  Order(tl)[i].cause \notin LossCauses
      <4>1. DataCompleteness(tl) = Declined \/ DataCompleteness(tl).cause \notin LossCauses
        BY RuleCauses DEF LossCauses
      <4>2. ClockTrust(tl) = Declined \/ ClockTrust(tl).cause \notin LossCauses
        BY RuleCauses DEF LossCauses
      <4>3. ProposerMissed(tl) = Declined \/ ProposerMissed(tl).cause \notin LossCauses
        BY RuleCauses DEF LossCauses
      <4>4. NetworkLateBlock(tl) = Declined \/ NetworkLateBlock(tl).cause \notin LossCauses
        BY RuleCauses DEF LossCauses
      <4>5. P2PDegraded(tl) = Declined \/ P2PDegraded(tl).cause \notin LossCauses
        BY RuleCauses DEF LossCauses
      <4>6. ELSlow(tl) = Declined \/ ELSlow(tl).cause \notin LossCauses
        BY RuleCauses DEF LossCauses
      <4>7. CLSlow(tl) = Declined \/ CLSlow(tl).cause \notin LossCauses
        BY RuleCauses DEF LossCauses
      <4>8. VCDisconnected(tl) = Declined \/ VCDisconnected(tl).cause \notin LossCauses
        BY RuleCauses DEF LossCauses
      <4>9. VCSlow(tl) = Declined \/ VCSlow(tl).cause \notin LossCauses
        BY RuleCauses DEF LossCauses
      <4>10. InclusionFailure(tl) = Declined \/ InclusionFailure(tl).cause \notin LossCauses
        BY RuleCauses DEF LossCauses
      <4>11. CatchAll(tl).cause \notin LossCauses
        BY RuleCauses DEF LossCauses
      <4> QED
        BY <3>4, <3>5, OrderEntries, <4>1, <4>2, <4>3, <4>4, <4>5, <4>6, <4>7, <4>8, <4>9, <4>10, <4>11
    <3>6. v.cause \notin LossCauses
      <4>1. "" \notin LossCauses
        BY DEF LossCauses
      <4> QED
        BY <3>3, <3>5, <4>1, CauseOrigin
    <3> QED
      BY <3>3, <3>6
  <2>5. ASSUME v.outcome \in {"degraded", "missed"} PROVE v.cause \in Causes
    <3>1. tl.duty /\ DeriveOutcome(tl) # "ok"
      BY <2>2, <2>5 DEF DeriveOutcome
    <3>2. v = Finish(Verdict(tl, draft))
      BY <3>1 DEF Analyze
    <3>3. v.cause = draft.cause \/ v.cause = "unknown.no_rule_matched"
      <4>1. DeriveOutcome(tl) # "no_duty"
        BY <2>2, <2>5
      <4>2. \A d : \/ Finish(Verdict(tl, d)).cause = d.cause
                  \/ Finish(Verdict(tl, d)).cause = "unknown.no_rule_matched"
        BY <4>1 DEF Finish, SafeFallback, Verdict
      <4> QED
        BY <3>2, <4>2
    <3> QED
      BY <2>3, <3>3
  <2> QED
    BY <2>4, <2>5 DEF OutcomeAgreement
<1>2. IInv => OutcomeAgreement
  BY <1>1 DEF IInv
<1> QED
  BY <1>2, RowsInvariant, PTL

=============================================================================
