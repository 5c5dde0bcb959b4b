------------------------ MODULE EvidenceStoreProofs ------------------------
(***************************************************************************)
(* Proofs about EvidenceStore for every list of migrations, every finite    *)
(* set of rows, every batch size and all limits of age and size.            *)
(***************************************************************************)
EXTENDS EvidenceStore, FiniteSetTheorems, TLAPS

-----------------------------------------------------------------------------
(* The inductive invariant, in parts.                                       *)

\* Pages: what is free or was deleted by this call of Prune was written once.
CountInv ==
  /\ free + Cardinality(rows) =< Cardinality(written)
  /\ prune.young + Cardinality(rows) =< Cardinality(written)

\* A version is read before it can grow, and a later release's file is left alone.
VersionInv ==
  /\ \A p \in Processes : pc[p] = "migrate" => seen[p] =< file.version
  /\ file.version > Latest => \A p \in Processes : pc[p] \notin {"migrate", "open"}
  /\ SchemaMatchesVersion
  /\ OpenIsCurrent

\* What Prune has reached, phase by phase.
PruneInv ==
  /\ prune.phase \in {"size", "done"} => \A r \in rows : r.at >= prune.cutoff
  /\ prune.phase = "done" => free = 0 /\ Size =< LiveBudget
  /\ PruneKeepsWhatFits

\* Nothing younger than a slot_start that is kept has ever been deleted.
KeptInv ==
  /\ \A r \in written : r.at =< now
  /\ \A d \in written \ rows, s \in rows : s.kind = "slot_start" => d.at =< s.at

Since(q) == {r \in q.asof : r.at > StartAt(q.obs)}

\* A reader that no batch has disturbed still finds what it has not read yet.
ReadInv ==
  query.step # "none" =>
    /\ {r \in Since(query) : r.slot = query.slot /\ (DutyScoped(r) => r.who = query.duty)}
         \subseteq query.obs
    /\ query.step \in {"reorgs", "samples"} /\ ~query.torn => Since(query) \subseteq rows
    /\ query.step \in {"samples", "done"} /\ ~query.torn /\ query.duty # "none" =>
         {r \in Since(query) : InReorgWindow(r, query.slot)} \subseteq query.more
    /\ query.step = "done" /\ ~query.torn =>
         {r \in Since(query) : InSampleWindow(r, StartAt(query.obs))} \subseteq query.more

IInv == TypeOK /\ CountInv /\ VersionInv /\ PruneInv /\ KeptInv /\ ReadInv

-----------------------------------------------------------------------------
(* Sets of rows.                                                            *)

\* The tables are finite.
LEMMA FiniteRows ==
  ASSUME TypeOK
  PROVE  /\ IsFiniteSet(rows) /\ IsFiniteSet(written)
         /\ Cardinality(rows) \in Nat /\ Cardinality(written) \in Nat /\ Cardinality(Rows) \in Nat
         /\ Cardinality(rows) =< Cardinality(written)
         /\ Cardinality(written) =< Cardinality(Rows)
<1>1. IsFiniteSet(written) /\ Cardinality(written) =< Cardinality(Rows)
  BY FS_Subset, StoreConstants DEF TypeOK
<1>2. IsFiniteSet(rows) /\ Cardinality(rows) =< Cardinality(written)
  BY <1>1, FS_Subset DEF TypeOK
<1> QED
  BY <1>1, <1>2, FS_CardinalityType, StoreConstants

\* What every row is.
LEMMA RowShape ==
  ASSUME NEW r \in Rows
  PROVE  /\ r.at \in Int /\ r.slot \in Nat /\ r.who \in Validators \cup {"none"}
         /\ r.table \in {"observations", "samples"}
         /\ r.table = "samples" => r.slot = 0
         /\ r.kind = "slot_start" => r.table = "observations" /\ r.who = "none"
  BY StoreConstants

\* A batch deletes some of the oldest rows, Batch of them at most.
LEMMA BatchDeletes ==
  ASSUME TypeOK, NEW B \in Oldest(Matching)
  PROVE  /\ B \subseteq Matching /\ B \subseteq rows
         /\ \A b \in B, r \in Matching \ B : Before(b, r)
         /\ Cardinality(B) \in Nat /\ Cardinality(B) =< Batch
         /\ Cardinality(rows \ B) = Cardinality(rows) - Cardinality(B)
<1>1. Matching \subseteq rows
  BY DEF Matching
<1>2. /\ B \subseteq Matching
      /\ Cardinality(B) = IF Cardinality(Matching) < Batch THEN Cardinality(Matching) ELSE Batch
      /\ \A b \in B, r \in Matching \ B : Before(b, r)
  BY DEF Oldest
<1>3. IsFiniteSet(Matching) /\ IsFiniteSet(B)
  BY <1>1, <1>2, FiniteRows, FS_Subset
<1>4. Cardinality(B) \in Nat /\ Cardinality(Matching) \in Nat
  BY <1>3, FS_CardinalityType
<1>5. Cardinality(rows \ B) = Cardinality(rows) - Cardinality(B)
  <2>1. rows \cap B = B
    BY <1>1, <1>2
  <2> QED
    BY <2>1, FiniteRows, FS_Difference
<1> QED
  BY <1>1, <1>2, <1>4, <1>5, StoreConstants

\* A write adds a row that was never there.
LEMMA WriteAdds ==
  ASSUME TypeOK, NEW r \in Rows, Write(r)
  PROVE  /\ rows' = rows \cup {r} /\ written' = written \cup {r}
         /\ Cardinality(rows') = Cardinality(rows) + 1
         /\ Cardinality(written') = Cardinality(written) + 1
<1>1. r \notin written /\ r \notin rows /\ rows' = rows \cup {r} /\ written' = written \cup {r}
  BY DEF Write, TypeOK
<1> QED
  BY <1>1, FiniteRows, FS_AddElement

-----------------------------------------------------------------------------
(* Which step changes what.                                                 *)

OpenStep ==
  \E p \in Processes :
     OpenFile(p) \/ ReadVersion(p) \/ Migrate(p) \/ MigrateFails(p) \/ Validate(p)
PruneStep == PruneStart \/ PruneByAge \/ PruneBySize \/ PruneReclaims \/ PruneReturns
ReadStep ==
  \/ \E s \in Slots, who \in Validators \cup {"any"} : ReadObservations(s, who) \/ ReadRefused(s, who)
  \/ ReadReorgs \/ ReadSamples

\* The steps of the two processes, by kind.
LEMMA StepKinds ==
  ASSUME [Next]_vars
  PROVE  \/ Tick \/ OpenStep \/ (\E p \in Processes : Leave(p))
         \/ (\E r \in Rows : Write(r)) \/ PruneStep \/ ReadStep \/ UNCHANGED vars
  BY DEF Next, OpenStep, PruneStep, ReadStep

\* Opening touches only the schema.
LEMMA OpenFrame ==
  OpenStep => UNCHANGED <<now, rows, free, written, prune, query>>
  BY DEF OpenStep, OpenFile, ReadVersion, Migrate, MigrateFails, Validate, Goto

\* Leaving touches only what a process holds in memory.
LEMMA LeaveFrame ==
  ASSUME NEW p \in Processes, Leave(p)
  PROVE  /\ UNCHANGED <<now, file, rows, free, written>>
         /\ prune' \in {prune, NoPrune} /\ query' \in {query, NoQuery}
         /\ pc' = [pc EXCEPT ![p] = "closed"] /\ seen' = [seen EXCEPT ![p] = 0]
  BY DEF Leave, Goto

\* Reading writes nothing.
LEMMA ReadFrame ==
  ReadStep => /\ UNCHANGED <<now, file, seen, rows, free, written, prune>>
              /\ pc' = pc \/ pc' = [pc EXCEPT !["cli"] = "failed"]
  BY DEF ReadStep, ReadObservations, ReadRefused, ReadReorgs, ReadSamples, Goto

\* Pruning deletes batches, reclaims pages and keeps its place.
LEMMA PruneFrame ==
  PruneStep => /\ UNCHANGED <<now, file, pc, seen, written>>
               /\ \/ UNCHANGED <<rows, query>>
                  \/ \E B \in Oldest(Matching) :
                       DeleteBatch(B) /\ prune.phase \in {"age", "size"}
  BY DEF PruneStep, PruneStart, PruneByAge, PruneBySize, PruneReclaims, PruneReturns

-----------------------------------------------------------------------------
(* Types and counts.                                                        *)

\* The types hold at the start.
LEMMA TypeInit == Init => TypeOK /\ CountInv
<1> SUFFICES ASSUME Init PROVE TypeOK /\ CountInv
  OBVIOUS
<1>1. \A v \in 0 .. Latest : Schema(v) \subseteq Schema(Latest)
  BY StoreConstants DEF Schema
<1>2. file \in [version : 0 .. Latest + 1, objects : SUBSET (Schema(Latest) \cup NewerAdds),
                vacuum : {"none", "incremental"}]
  <2>1. CASE file \in {[version |-> v, objects |-> Schema(v), vacuum |-> "none"] : v \in 0 .. Latest}
    BY <1>1, <2>1, StoreConstants
  <2>2. CASE file = [version |-> Latest + 1, objects |-> Schema(Latest) \cup NewerAdds, vacuum |-> "incremental"]
    BY <2>2, StoreConstants
  <2> QED
    BY <2>1, <2>2 DEF Init
<1>3. Cardinality(Rows) \in Nat /\ Cardinality({}) = 0
  BY FS_CardinalityType, FS_EmptySet, StoreConstants
<1>4. NoPrune \in [phase : {"idle", "age", "size", "done"}, cutoff : -MaxAge .. MaxTime,
                   young : 0 .. Cardinality(Rows)]
  BY <1>3, StoreConstants DEF NoPrune
<1>5. NoQuery \in [step : {"none", "reorgs", "samples", "done"}, slot : Nat,
                   duty : Validators \cup {"none"}, obs : SUBSET written, more : SUBSET written,
                   asof : SUBSET written, torn : BOOLEAN]
  BY DEF NoQuery
<1>6. TypeOK
  <2>1. now \in 0 .. MaxTime /\ free \in 0 .. Cardinality(Rows)
    BY <1>3, StoreConstants DEF Init
  <2>2. pc \in [Processes -> {"closed", "version", "migrate", "open", "failed"}]
    BY DEF Init
  <2>3. 0 \in 0 .. Latest + 1
    BY StoreConstants
  <2>4. seen \in [Processes -> 0 .. Latest + 1]
    BY <2>3 DEF Init
  <2>5. rows \subseteq written /\ written \subseteq Rows
    BY DEF Init
  <2>6. prune = NoPrune /\ query = NoQuery
    BY DEF Init
  <2> QED
    BY <1>2, <1>4, <1>5, <2>1, <2>2, <2>4, <2>5, <2>6, Zenon DEF TypeOK
<1>7. CountInv
  BY <1>3 DEF Init, CountInv, NoPrune
<1> QED
  BY <1>6, <1>7

\* The objects of a version are among those of the latest.
LEMMA SchemaGrows ==
  \A v \in 0 .. Latest : Schema(v) \subseteq Schema(Latest)
  BY StoreConstants DEF Schema

\* One more migration is one more set of objects.
LEMMA SchemaNext ==
  ASSUME NEW v \in 0 .. Latest, v < Latest
  PROVE  /\ Schema(v + 1) = Schema(v) \cup Adds[v + 1]
         /\ Adds[v + 1] \cap Schema(v) = {} /\ Adds[v + 1] # {}
<1>1. 1 .. (v + 1) = (1 .. v) \cup {v + 1}
  OBVIOUS
<1>2. Schema(v + 1) = Schema(v) \cup Adds[v + 1]
  BY <1>1 DEF Schema
<1>3. \A m \in 1 .. v : Adds[v + 1] \cap Adds[m] = {}
  BY StoreConstants
<1> QED
  BY <1>2, <1>3, StoreConstants DEF Schema

FileType ==
  file \in [version : 0 .. Latest + 1, objects : SUBSET (Schema(Latest) \cup NewerAdds),
            vacuum : {"none", "incremental"}]
ProcessType ==
  /\ pc \in [Processes -> {"closed", "version", "migrate", "open", "failed"}]
  /\ seen \in [Processes -> 0 .. Latest + 1]
TableType == rows \subseteq written /\ written \subseteq Rows
PruneType ==
  prune \in [phase : {"idle", "age", "size", "done"}, cutoff : -MaxAge .. MaxTime,
             young : 0 .. Cardinality(Rows)]
QueryType ==
  query \in [step : {"none", "reorgs", "samples", "done"}, slot : Nat,
             duty : Validators \cup {"none"}, obs : SUBSET written, more : SUBSET written,
             asof : SUBSET written, torn : BOOLEAN]

\* The type invariant, by the part of the state it is about.
LEMMA TypeParts ==
  TypeOK <=> /\ now \in 0 .. MaxTime /\ FileType /\ ProcessType /\ TableType
             /\ free \in 0 .. Cardinality(Rows) /\ PruneType /\ QueryType
  BY DEF TypeOK, FileType, ProcessType, TableType, PruneType, QueryType

\* Opening, migrating and leaving keep the file and the processes well formed.
LEMMA OpenTypes ==
  ASSUME TypeOK, OpenStep
  PROVE  FileType' /\ ProcessType'
<1> USE TypeParts DEF Goto, ProcessType, FileType
<1>0. PICK p \in Processes :
        OpenFile(p) \/ ReadVersion(p) \/ Migrate(p) \/ MigrateFails(p) \/ Validate(p)
  BY DEF OpenStep
<1>1. CASE OpenFile(p)
  BY <1>1 DEF OpenFile
<1>2. CASE ReadVersion(p)
  BY <1>2 DEF ReadVersion
<1>3. CASE Migrate(p)
  <2>1. Adds[seen[p] + 1] \subseteq Schema(Latest) /\ seen[p] + 1 \in 0 .. Latest + 1
    BY <1>3, StoreConstants DEF Migrate, Schema
  <2> QED
    BY <1>3, <2>1 DEF Migrate
<1>4. CASE MigrateFails(p)
  BY <1>4 DEF MigrateFails
<1>5. CASE Validate(p)
  BY <1>5 DEF Validate
<1> QED
  BY <1>0, <1>1, <1>2, <1>3, <1>4, <1>5

\* A query only remembers rows that were written.
LEMMA ReadTypes ==
  ASSUME TypeOK, ReadStep
  PROVE  QueryType'
<1> USE TypeParts DEF QueryType, TableType
<1>0. written' = written
  BY ReadFrame
<1>1. ASSUME NEW s \in Slots, NEW who \in Validators \cup {"any"}, ReadObservations(s, who)
      PROVE  QueryType'
  <2> DEFINE O == {r \in rows : r.table = "observations" /\ r.slot = s}
             duty == IF who = "any" THEN Selected(O) ELSE who
  <2>1. Assigned(O) \subseteq Validators \cup {"none"}
    BY RowShape DEF Assigned
  <2>2. Selected(O) \in Validators \cup {"none"}
    BY <2>1 DEF Selected
  <2>3. s \in Nat
    BY RowShape DEF Slots
  <2>4. query' = [step |-> "reorgs", slot |-> s, duty |-> duty,
                  obs |-> {r \in O : DutyScoped(r) => r.who = duty}, more |-> {},
                  asof |-> written, torn |-> FALSE]
    BY <1>1 DEF ReadObservations
  <2>5. duty \in Validators \cup {"none"}
    BY <2>2
  <2> HIDE DEF duty
  <2> QED
    BY <1>0, <2>3, <2>4, <2>5
<1>2. ASSUME NEW s \in Slots, NEW who \in Validators \cup {"any"}, ReadRefused(s, who)
      PROVE  QueryType'
  BY <1>0, <1>2 DEF ReadRefused
<1>3. CASE ReadReorgs
  BY <1>0, <1>3 DEF ReadReorgs
<1>4. CASE ReadSamples
  BY <1>0, <1>4 DEF ReadSamples
<1> QED
  BY <1>1, <1>2, <1>3, <1>4 DEF ReadStep

\* Deleting a batch moves its pages to the freelist.
LEMMA DeleteCounts ==
  ASSUME TypeOK, NEW B \in Oldest(Matching), DeleteBatch(B), UNCHANGED written
  PROVE  /\ rows' \subseteq rows /\ rows' = rows \ B /\ QueryType'
         /\ free' \in Nat /\ free' + Cardinality(rows') = free + Cardinality(rows)
         /\ Cardinality(rows') = Cardinality(rows) - Cardinality(B)
         /\ Cardinality(B) \in Nat
<1>1. rows' = rows \ B /\ free' = free + Cardinality(B)
  BY DEF DeleteBatch
<1>2. free \in Nat
  BY FiniteRows, TypeParts
<1>3. QueryType'
  <2> DEFINE torn == query.torn \/ query.step \in {"reorgs", "samples"}
  <2>1. torn \in BOOLEAN
    OBVIOUS
  <2>2. query' = [query EXCEPT !.torn = torn]
    BY DEF DeleteBatch
  <2> HIDE DEF torn
  <2> QED
    BY <2>1, <2>2, TypeParts DEF QueryType
<1> QED
  BY <1>1, <1>2, <1>3, BatchDeletes, FiniteRows

\* A checkpoint that finds the database busy ends the call.
LEMMA CheckpointTypes ==
  ASSUME TypeOK, NEW phase \in {"idle", "age", "size", "done"},
         NEW young \in 0 .. Cardinality(Rows), Checkpoint(phase, young)
  PROVE  PruneType' /\ prune'.young \in {0, young}
         /\ (prune'.phase = "idle" \/ (prune'.phase = phase /\ prune'.young = young /\ prune'.cutoff = prune.cutoff))
<1>1. PruneType /\ Cardinality(Rows) \in Nat
  BY TypeParts, FiniteRows
<1>2. -MaxAge =< 0 /\ 0 =< MaxTime /\ MaxAge \in Nat /\ MaxTime \in Nat
  BY StoreConstants
<1>3. CASE prune' = NoPrune
  BY <1>1, <1>2, <1>3 DEF PruneType, NoPrune
<1>4. CASE prune' = [prune EXCEPT !.phase = phase, !.young = young]
  BY <1>1, <1>4 DEF PruneType
<1> QED
  BY <1>3, <1>4 DEF Checkpoint

\* After a checkpoint the call has ended or goes on as it chose.
LEMMA CheckpointShape ==
  ASSUME TypeOK, NEW phase, NEW young, Checkpoint(phase, young)
  PROVE  \/ prune'.phase = "idle"
         \/ prune'.phase = phase /\ prune'.young = young /\ prune'.cutoff = prune.cutoff
<1>1. CASE prune' = NoPrune
  BY <1>1 DEF NoPrune
<1>2. CASE prune' = [prune EXCEPT !.phase = phase, !.young = young]
  BY <1>2, TypeParts DEF PruneType
<1> QED
  BY <1>1, <1>2 DEF Checkpoint

\* The rows deleted by one call of Prune are counted once.
LEMMA PruneTypes ==
  ASSUME TypeOK, CountInv, PruneStep
  PROVE  /\ PruneType' /\ QueryType' /\ TableType' /\ CountInv'
         /\ free' \in 0 .. Cardinality(Rows)
<1> DEFINE n == Cardinality(rows)
           w == Cardinality(written)
           max == Cardinality(Rows)
<1>0. /\ written' = written /\ TableType /\ PruneType /\ QueryType
      /\ n \in Nat /\ w \in Nat /\ max \in Nat /\ n =< w /\ w =< max
      /\ free \in Nat /\ free + n =< w /\ prune.young \in Nat /\ prune.young + n =< w
  BY PruneFrame, TypeParts, FiniteRows DEF CountInv, PruneType
<1> USE DEF NoPrune
<1>1. ASSUME rows' \subseteq rows, QueryType', PruneType', free' \in Nat,
             free' + Cardinality(rows') =< w, prune'.young + Cardinality(rows') =< w,
             Cardinality(rows') \in Nat
      PROVE  /\ PruneType' /\ QueryType' /\ TableType' /\ CountInv'
             /\ free' \in 0 .. Cardinality(Rows)
  BY <1>0, <1>1 DEF TableType, CountInv
<1>2. CASE PruneStart
  <2>1. UNCHANGED <<rows, query, free>> /\ prune' = [phase |-> "age", cutoff |-> now - MaxAge, young |-> 0]
    BY <1>2 DEF PruneStart
  <2>2. now - MaxAge \in -MaxAge .. MaxTime
    BY TypeParts, StoreConstants
  <2>3. PruneType' /\ prune'.young = 0
    BY <1>0, <2>1, <2>2 DEF PruneType
  <2> QED
    BY <1>0, <1>1, <2>1, <2>3 DEF QueryType
<1>3. CASE PruneByAge
  <2>1. CASE UNCHANGED <<rows, free, query>> /\ Checkpoint("size", 0)
    <3>1. PruneType' /\ prune'.young = 0
      BY <1>0, <2>1, CheckpointTypes
    <3> QED
      BY <1>0, <1>1, <2>1, <3>1 DEF QueryType
  <2>2. ASSUME NEW B \in Oldest(Matching), DeleteBatch(B), Checkpoint("age", 0)
        PROVE  /\ PruneType' /\ QueryType' /\ TableType' /\ CountInv'
               /\ free' \in 0 .. Cardinality(Rows)
    <3>1. PruneType' /\ prune'.young = 0
      BY <1>0, <2>2, CheckpointTypes
    <3>2. Cardinality(rows') \in Nat /\ Cardinality(rows') =< n
      BY <1>0, <2>2, DeleteCounts, FS_Subset, FS_CardinalityType, FiniteRows
    <3>3. rows' \subseteq rows /\ QueryType' /\ free' \in Nat /\ free' + Cardinality(rows') = free + n
      BY <1>0, <2>2, DeleteCounts
    <3> QED
      BY <1>0, <1>1, <3>1, <3>2, <3>3
  <2> QED
    BY <1>3, <2>1, <2>2 DEF PruneByAge
<1>4. CASE PruneBySize
  <2>1. PICK B \in Oldest(Matching) : DeleteBatch(B) /\ Checkpoint("size", prune.young + Cardinality(B))
    BY <1>4 DEF PruneBySize
  <2>2. /\ rows' \subseteq rows /\ QueryType' /\ free' \in Nat /\ free' + Cardinality(rows') = free + n
        /\ Cardinality(rows') = n - Cardinality(B) /\ Cardinality(B) \in Nat
    BY <1>0, <2>1, DeleteCounts
  <2>3. Cardinality(rows') \in Nat
    BY <2>2, FS_Subset, FS_CardinalityType, FiniteRows
  <2>4. prune.young + Cardinality(B) \in 0 .. max
    BY <1>0, <2>2, <2>3
  <2>5. PruneType' /\ prune'.young \in {0, prune.young + Cardinality(B)}
    BY <2>1, <2>4, CheckpointTypes
  <2> QED
    BY <1>0, <1>1, <2>2, <2>3, <2>5
<1>5. CASE PruneReclaims
  <2>1. UNCHANGED <<rows, query>> /\ free' = 0
    BY <1>5 DEF PruneReclaims
  <2>2. PruneType' /\ prune'.young \in {0, prune.young}
    BY <1>0, <1>5, CheckpointTypes DEF PruneReclaims
  <2> QED
    BY <1>0, <1>1, <2>1, <2>2 DEF QueryType
<1>6. CASE PruneReturns
  <2>1. UNCHANGED <<rows, query, free>> /\ prune' = NoPrune
    BY <1>6 DEF PruneReturns
  <2>2. PruneType' /\ prune'.young = 0
    BY <1>0, <2>1, StoreConstants DEF PruneType
  <2> QED
    BY <1>0, <1>1, <2>1, <2>2 DEF QueryType
<1> QED
  BY <1>2, <1>3, <1>4, <1>5, <1>6 DEF PruneStep

\* Every step keeps the types and the counts.
LEMMA TypeStep ==
  ASSUME TypeOK, CountInv, [Next]_vars
  PROVE  TypeOK' /\ CountInv'
<1> USE TypeParts
<1>0. SUFFICES /\ (now \in 0 .. MaxTime)' /\ FileType' /\ ProcessType' /\ TableType'
               /\ free' \in 0 .. Cardinality(Rows) /\ PruneType' /\ QueryType' /\ CountInv'
  BY DEF TypeOK, FileType, ProcessType, TableType, PruneType, QueryType
<1>1. CASE Tick
  <2>1. (now \in 0 .. MaxTime)'
    BY <1>1, StoreConstants DEF Tick
  <2> QED
    BY <1>1, <2>1 DEF Tick, FileType, ProcessType, TableType, PruneType, QueryType, CountInv
<1>2. CASE OpenStep
  BY <1>2, OpenTypes, OpenFrame DEF TableType, PruneType, QueryType, CountInv
<1>3. ASSUME NEW p \in Processes, Leave(p)
      PROVE  /\ (now \in 0 .. MaxTime)' /\ FileType' /\ ProcessType' /\ TableType'
             /\ free' \in 0 .. Cardinality(Rows) /\ PruneType' /\ QueryType' /\ CountInv'
  <2>1. ProcessType'
    BY <1>3, LeaveFrame, StoreConstants DEF ProcessType
  <2>2. /\ PruneType' /\ prune'.young \in {0, prune.young} /\ prune.young \in Nat
        /\ 0 \in -MaxAge .. MaxTime /\ 0 \in 0 .. Cardinality(Rows)
    <3>1. PruneType /\ prune' \in {prune, NoPrune}
      BY <1>3, LeaveFrame
    <3>2. 0 \in -MaxAge .. MaxTime /\ 0 \in 0 .. Cardinality(Rows) /\ Cardinality(Rows) \in Nat
      BY StoreConstants, FiniteRows
    <3> QED
      BY <3>1, <3>2 DEF PruneType, NoPrune
  <2>3. QueryType'
    <3>1. QueryType /\ query' \in {query, NoQuery} /\ written' = written
      BY <1>3, LeaveFrame
    <3>2. NoQuery \in [step : {"none", "reorgs", "samples", "done"}, slot : Nat,
                       duty : Validators \cup {"none"}, obs : SUBSET written, more : SUBSET written,
                       asof : SUBSET written, torn : BOOLEAN]
      BY DEF NoQuery
    <3> QED
      BY <3>1, <3>2 DEF QueryType
  <2>4. CountInv'
    BY <1>3, <2>2, LeaveFrame, FiniteRows DEF CountInv
  <2> QED
    BY <1>3, <2>1, <2>2, <2>3, <2>4, LeaveFrame DEF FileType, TableType
<1>4. ASSUME NEW r \in Rows, Write(r)
      PROVE  /\ (now \in 0 .. MaxTime)' /\ FileType' /\ ProcessType' /\ TableType'
             /\ free' \in 0 .. Cardinality(Rows) /\ PruneType' /\ QueryType' /\ CountInv'
  <2>1. UNCHANGED <<now, file, pc, seen, prune, query>> /\ free' = IF free > 0 THEN free - 1 ELSE 0
    BY <1>4 DEF Write
  <2>2. QueryType'
    BY <1>4, <2>1, WriteAdds DEF QueryType
  <2>3. free' \in 0 .. Cardinality(Rows) /\ free' =< free /\ free \in Nat
    BY <2>1, FiniteRows
  <2>4. CountInv'
    BY <1>4, <2>1, <2>3, WriteAdds, FiniteRows DEF CountInv, PruneType
  <2>5. TableType'
    BY <1>4, WriteAdds DEF TableType
  <2> QED
    BY <2>1, <2>2, <2>3, <2>4, <2>5 DEF FileType, ProcessType, PruneType
<1>5. CASE PruneStep
  BY <1>5, PruneTypes, PruneFrame DEF FileType, ProcessType
<1>6. CASE ReadStep
  <2>1. ProcessType'
    BY <1>6, ReadFrame DEF ProcessType
  <2> QED
    BY <1>6, <2>1, ReadTypes, ReadFrame DEF FileType, TableType, PruneType, CountInv
<1>7. CASE UNCHANGED vars
  BY <1>7 DEF vars, FileType, ProcessType, TableType, PruneType, QueryType, CountInv
<1> QED
  BY <1>1, <1>2, <1>3, <1>4, <1>5, <1>6, <1>7, StepKinds

-----------------------------------------------------------------------------
(* Migrations.                                                              *)

\* At the start nobody has the file open.
LEMMA VersionInit == Init => VersionInv
<1>1. Latest \in Nat
  BY StoreConstants
<1> QED
  BY <1>1 DEF Init, VersionInv, SchemaMatchesVersion, OpenIsCurrent, Processes

\* A migration commits only on the version it was read for: on any other the objects
\* it creates are there already.
LEMMA MigratesNext ==
  ASSUME TypeOK, VersionInv, NEW p \in Processes, Migrate(p)
  PROVE  /\ seen[p] = file.version /\ file.version < Latest
         /\ file'.version = file.version + 1 /\ file'.objects = Schema(file.version + 1)
<1>1. /\ pc[p] = "migrate" /\ seen[p] < Latest
      /\ Adds[seen[p] + 1] \cap file.objects = {}
      /\ file' = [file EXCEPT !.version = seen[p] + 1, !.objects = @ \cup Adds[seen[p] + 1]]
  BY DEF Migrate
<1>2. /\ seen[p] \in Nat /\ file.version \in Nat /\ Latest \in Nat
      /\ file \in [version : 0 .. Latest + 1, objects : SUBSET (Schema(Latest) \cup NewerAdds),
                   vacuum : {"none", "incremental"}]
  BY StoreConstants DEF TypeOK
<1>3. seen[p] =< file.version /\ file.version =< Latest /\ file.objects = Schema(file.version)
  BY <1>1, <1>2 DEF VersionInv, SchemaMatchesVersion
<1>4. ~(seen[p] < file.version)
  <2> SUFFICES ASSUME seen[p] < file.version PROVE FALSE
    OBVIOUS
  <2>1. seen[p] + 1 \in 1 .. file.version /\ seen[p] + 1 \in 1 .. Latest
    BY <1>2, <1>3
  <2>2. Adds[seen[p] + 1] \subseteq Schema(file.version) /\ Adds[seen[p] + 1] # {}
    BY <2>1, StoreConstants DEF Schema
  <2> QED
    BY <1>1, <1>3, <2>2
<1>5. seen[p] = file.version
  BY <1>2, <1>3, <1>4
<1>6. Schema(file.version + 1) = Schema(file.version) \cup Adds[file.version + 1]
  BY <1>1, <1>2, <1>5, SchemaNext
<1> QED
  BY <1>1, <1>2, <1>3, <1>5, <1>6

\* Every step keeps the version and the schema in agreement.
LEMMA VersionStep ==
  ASSUME TypeOK, VersionInv, [Next]_vars
  PROVE  VersionInv'
<1>0. /\ file.version \in 0 .. Latest + 1 /\ Latest \in Nat
      /\ pc \in [Processes -> {"closed", "version", "migrate", "open", "failed"}]
      /\ seen \in [Processes -> 0 .. Latest + 1]
      /\ file \in [version : 0 .. Latest + 1, objects : SUBSET (Schema(Latest) \cup NewerAdds),
                   vacuum : {"none", "incremental"}]
  BY StoreConstants DEF TypeOK
<1> USE DEF VersionInv, SchemaMatchesVersion, OpenIsCurrent
\* Leaving or failing an Open takes a process out of reach of the file.
<1>1. ASSUME UNCHANGED <<file.version, file.objects>>, NEW p \in Processes,
             \/ pc' = [pc EXCEPT ![p] = "closed"] /\ seen' = [seen EXCEPT ![p] = 0]
             \/ pc' = [pc EXCEPT ![p] = "failed"] /\ UNCHANGED seen
             \/ UNCHANGED <<pc, seen>>
      PROVE  VersionInv'
  BY <1>0, <1>1 DEF SchemaValid
<1>2. ASSUME NEW p \in Processes,
             OpenFile(p) \/ ReadVersion(p) \/ Migrate(p) \/ MigrateFails(p) \/ Validate(p)
      PROVE  VersionInv'
  <2>1. CASE OpenFile(p)
    <3>1. /\ UNCHANGED <<file.version, file.objects, seen>> /\ pc' = [pc EXCEPT ![p] = "version"]
      BY <1>0, <2>1 DEF OpenFile, Goto
    <3> QED
      BY <1>0, <3>1 DEF SchemaValid
  <2>2. CASE ReadVersion(p)
    BY <1>0, <2>2 DEF ReadVersion, Goto, SchemaValid
  <2>3. CASE Migrate(p)
    <3>1. /\ seen[p] = file.version /\ file.version < Latest
          /\ file'.version = file.version + 1 /\ file'.objects = Schema(file.version + 1)
      BY <2>3, MigratesNext
    <3>2. /\ UNCHANGED pc /\ seen' = [seen EXCEPT ![p] = @ + 1]
      BY <2>3 DEF Migrate
    <3>3. \A q \in Processes : pc[q] # "open"
      BY <1>0, <3>1
    <3>4. \A q \in Processes : pc[q] = "migrate" => seen'[q] =< file'.version
      BY <1>0, <3>1, <3>2
    <3> QED
      BY <1>0, <3>1, <3>2, <3>3, <3>4
  <2>4. CASE MigrateFails(p)
    BY <1>1, <2>4 DEF MigrateFails, Goto
  <2>5. CASE Validate(p)
    <3>1. UNCHANGED <<file, seen>> /\ pc' = [pc EXCEPT ![p] = IF SchemaValid THEN "open" ELSE "failed"]
      BY <2>5 DEF Validate, Goto
    <3>2. pc[p] = "migrate" /\ seen[p] >= Latest /\ file.version = Latest
      BY <1>0, <2>5 DEF Validate
    <3>3. CASE SchemaValid
      BY <1>0, <3>1, <3>2, <3>3 DEF SchemaValid
    <3>4. CASE ~SchemaValid
      BY <1>1, <3>1, <3>4
    <3> QED
      BY <3>3, <3>4
  <2> QED
    BY <1>2, <2>1, <2>2, <2>3, <2>4, <2>5
<1>3. CASE UNCHANGED <<file, pc, seen>>
  BY <1>3 DEF SchemaValid
<1>4. CASE ReadStep
  BY <1>1, <1>3, <1>4, ReadFrame DEF Processes
<1>5. ASSUME NEW p \in Processes, Leave(p)
      PROVE  VersionInv'
  BY <1>1, <1>5, LeaveFrame
<1> QED
  BY <1>2, <1>3, <1>4, <1>5, StepKinds, PruneFrame DEF Tick, Write, vars, OpenStep

-----------------------------------------------------------------------------
(* Pruning.                                                                 *)

\* At the start nothing is written, pruned or read.
LEMMA PruneInit == Init => PruneInv /\ KeptInv /\ ReadInv
  BY DEF Init, PruneInv, PruneKeepsWhatFits, KeptInv, ReadInv, NoPrune, NoQuery

\* No row is written while Prune runs, and it deletes by size only what is too much.
LEMMA PruneInvStep ==
  ASSUME TypeOK, CountInv, PruneInv, [Next]_vars
  PROVE  PruneInv'
<1> USE DEF PruneInv, PruneKeepsWhatFits, Size, LiveBudget
<1>0. /\ Cardinality(rows) \in Nat /\ MaxPages \in Nat /\ Overhead \in Nat /\ Batch \in Nat
      /\ prune \in [phase : {"idle", "age", "size", "done"}, cutoff : -MaxAge .. MaxTime,
                    young : 0 .. Cardinality(Rows)]
      /\ prune.cutoff \in Int /\ rows \subseteq Rows /\ MaxAge \in Nat /\ MaxTime \in Nat
      /\ Cardinality(Rows) \in Nat
  <2>1. Cardinality(rows) \in Nat /\ Cardinality(Rows) \in Nat
    BY FiniteRows
  <2>2. MaxPages \in Nat /\ Overhead \in Nat /\ Batch \in Nat /\ MaxAge \in Nat /\ MaxTime \in Nat
    BY StoreConstants
  <2>3. PruneType /\ rows \subseteq Rows
    BY TypeParts DEF TableType
  <2> QED
    BY <2>1, <2>2, <2>3 DEF PruneType
<1>1. CASE UNCHANGED <<rows, free, prune>>
  BY <1>1
<1>2. CASE prune' = NoPrune
  BY <1>2 DEF NoPrune
<1>3. CASE prune'.phase \in {"idle", "age"}
  BY <1>3
<1>4. CASE \E r \in Rows : Write(r)
  <2>1. prune.phase = "idle" /\ prune' = prune
    BY <1>4 DEF Write, Idle
  <2> QED
    BY <1>3, <2>1
<1>5. CASE PruneByAge
  <2>1. CASE Matching = {} /\ UNCHANGED <<rows, free, query>> /\ Checkpoint("size", 0)
    <3>1. prune'.phase = "idle" \/ (prune'.phase = "size" /\ prune'.young = 0 /\ prune'.cutoff = prune.cutoff)
      BY <1>0, <2>1, CheckpointTypes
    <3>2. \A r \in rows : r.at >= prune.cutoff
      BY <1>0, <1>5, <2>1, RowShape DEF Matching, PruneByAge
    <3> QED
      BY <1>3, <2>1, <3>1, <3>2
  <2>2. CASE \E B \in Oldest(Matching) : DeleteBatch(B) /\ Checkpoint("age", 0)
    <3>1. prune'.phase \in {"idle", "age"}
      BY <1>0, <2>2, CheckpointTypes
    <3> QED
      BY <1>3, <3>1
  <2> QED
    BY <1>5, <2>1, <2>2 DEF PruneByAge
<1>6. CASE PruneBySize
  <2>1. PICK B \in Oldest(Matching) : DeleteBatch(B) /\ Checkpoint("size", prune.young + Cardinality(B))
    BY <1>6 DEF PruneBySize
  <2>2. prune.phase = "size" /\ Cardinality(rows) > LiveBudget
    BY <1>6 DEF PruneBySize
  <2>3. /\ rows' \subseteq rows /\ Cardinality(rows') = Cardinality(rows) - Cardinality(B)
        /\ Cardinality(B) \in Nat /\ Cardinality(B) =< Batch
    BY <1>6, <2>1, DeleteCounts, BatchDeletes DEF PruneBySize
  <2>4. prune'.phase = "idle" \/ (prune'.phase = "size" /\ prune'.cutoff = prune.cutoff)
    BY <1>0, <2>1, CheckpointShape
  <2> QED
    BY <1>0, <1>3, <2>2, <2>3, <2>4
<1>7. CASE PruneReclaims
  <2>1. UNCHANGED rows /\ free' = 0 /\ prune.phase = "size" /\ Size =< LiveBudget
    BY <1>7 DEF PruneReclaims
  <2>2. \/ prune'.phase = "idle"
        \/ prune'.phase = "done" /\ prune'.cutoff = prune.cutoff /\ prune'.young = prune.young
    <3> DEFINE phase == IF Cardinality(rows) + free' + Overhead =< MaxPages THEN "done" ELSE "idle"
    <3>1. Checkpoint(phase, prune.young) /\ phase \in {"done", "idle"}
      BY <1>7 DEF PruneReclaims
    <3> HIDE DEF phase
    <3> QED
      BY <3>1, CheckpointShape
  <2> QED
    BY <1>3, <2>1, <2>2
<1> QED
  BY <1>1, <1>2, <1>3, <1>4, <1>5, <1>6, <1>7, StepKinds, OpenFrame, LeaveFrame, ReadFrame
  DEF Tick, PruneStep, PruneStart, PruneReturns, vars

-----------------------------------------------------------------------------
(* Timelines.                                                               *)

\* What a batch leaves is not older than what it deletes.
LEMMA BatchIsOldest ==
  ASSUME TypeOK, NEW B \in Oldest(Matching), NEW b \in B, NEW s \in rows \ B
  PROVE  b.at =< s.at
<1>1. b \in Matching /\ b \in rows /\ b.at \in Int /\ s.at \in Int
  BY BatchDeletes, RowShape DEF TypeOK
<1>2. CASE s \in Matching
  <2>1. Before(b, s)
    BY <1>2, BatchDeletes
  <2> QED
    BY <1>1, <2>1 DEF Before
<1>3. CASE s \notin Matching
  <2>1. b.at < prune.cutoff /\ ~(s.at < prune.cutoff)
    BY <1>1, <1>3 DEF Matching
  <2>2. prune.cutoff \in Int
    BY StoreConstants DEF TypeOK
  <2> QED
    BY <1>1, <2>1, <2>2
<1> QED
  BY <1>2, <1>3

\* No step deletes a row and keeps an older slot_start.
LEMMA KeptStep ==
  ASSUME TypeOK, KeptInv, [Next]_vars
  PROVE  KeptInv'
<1>0. now \in Int /\ rows \subseteq written /\ written \subseteq Rows /\ \A r \in Rows : r.at \in Int
  BY RowShape, StoreConstants DEF TypeOK
<1>1. CASE UNCHANGED <<now, rows, written>>
  BY <1>1 DEF KeptInv
<1>2. CASE Tick
  BY <1>0, <1>2 DEF Tick, KeptInv
<1>3. ASSUME NEW r \in Rows, Write(r)
      PROVE  KeptInv'
  <2>1. /\ rows' = rows \cup {r} /\ written' = written \cup {r} /\ now' = now
        /\ r \notin written /\ r.at =< now /\ (r.kind = "slot_start" => r.at = now)
    BY <1>3 DEF Write
  <2>2. written' \ rows' \subseteq written \ rows
    BY <2>1
  <2> QED
    BY <1>0, <2>1, <2>2 DEF KeptInv
<1>4. ASSUME NEW B \in Oldest(Matching), DeleteBatch(B), UNCHANGED <<now, written>>
      PROVE  KeptInv'
  <2>1. rows' = rows \ B
    BY <1>4 DEF DeleteBatch
  <2>2. ASSUME NEW d \in written \ rows', NEW s \in rows', s.kind = "slot_start"
        PROVE  d.at =< s.at
    <3>1. CASE d \in B
      BY <2>1, <3>1, BatchIsOldest
    <3>2. CASE d \notin B
      BY <2>1, <2>2, <3>2 DEF KeptInv
    <3> QED
      BY <3>1, <3>2
  <2> QED
    BY <1>4, <2>2 DEF KeptInv
<1> QED
  BY <1>1, <1>2, <1>3, <1>4, StepKinds, OpenFrame, LeaveFrame, ReadFrame, PruneFrame DEF vars

\* The start of a slot that was read is the start of a row that is kept.
LEMMA StartIsRead ==
  ASSUME NEW O, StartOf(O) # {}
  PROVE  \E s \in O : s.kind = "slot_start" /\ StartAt(O) = s.at
<1>1. (CHOOSE r \in StartOf(O) : TRUE) \in StartOf(O)
  OBVIOUS
<1> QED
  BY <1>1 DEF StartAt, StartOf

\* The first query finds everything of its slot and duty since the slot's start.
LEMMA ObservationsWhole ==
  ASSUME TypeOK, KeptInv, NEW s \in Slots, NEW who \in Validators \cup {"any"}, ReadObservations(s, who)
  PROVE  ReadInv'
<1> DEFINE O == {r \in rows : r.table = "observations" /\ r.slot = s}
           duty == IF who = "any" THEN Selected(O) ELSE who
           obs == {r \in O : DutyScoped(r) => r.who = duty}
<1>0. rows \subseteq written /\ written \subseteq Rows
  BY DEF TypeOK
<1>1. /\ query' = [step |-> "reorgs", slot |-> s, duty |-> duty, obs |-> obs, more |-> {},
                   asof |-> written, torn |-> FALSE]
      /\ rows' = rows /\ StartOf(O) # {}
  BY DEF ReadObservations, Readable
<1>2. StartOf(obs) # {}
  BY <1>0, <1>1, RowShape DEF StartOf, DutyScoped
<1>3. PICK st \in obs : st.kind = "slot_start" /\ StartAt(obs) = st.at
  BY <1>2, StartIsRead
<1>4. s # 0
  BY DEF Slots
<1> HIDE DEF duty
<1>5. \A r \in written : r.at > StartAt(obs) => r \in rows
  <2> SUFFICES ASSUME NEW r \in written, r.at > st.at, r \notin rows PROVE FALSE
    BY <1>3
  <2>1. r.at =< st.at
    BY <1>3 DEF KeptInv
  <2> QED
    BY <1>0, <1>3, <2>1, RowShape
<1>6. \A r \in written : r.at > StartAt(obs) /\ r.slot = s /\ (DutyScoped(r) => r.who = duty) => r \in obs
  BY <1>0, <1>4, <1>5, RowShape
<1> HIDE DEF obs
<1> QED
  BY <1>1, <1>5, <1>6 DEF ReadInv, Since

\* No step takes from a reader what it has or, untorn, what it is yet to find.
LEMMA ReadInvStep ==
  ASSUME TypeOK, KeptInv, ReadInv, [Next]_vars
  PROVE  ReadInv'
<1>0. /\ query \in [step : {"none", "reorgs", "samples", "done"}, slot : Nat,
                    duty : Validators \cup {"none"}, obs : SUBSET written, more : SUBSET written,
                    asof : SUBSET written, torn : BOOLEAN]
  BY DEF TypeOK
<1>1. CASE query' = query /\ rows \subseteq rows'
  BY <1>1 DEF ReadInv
<1>2. CASE query' = NoQuery
  BY <1>2 DEF ReadInv, NoQuery
<1>3. ASSUME NEW B \in Oldest(Matching), DeleteBatch(B)
      PROVE  ReadInv'
  <2>1. /\ query'.step = query.step /\ query'.slot = query.slot /\ query'.duty = query.duty
        /\ query'.obs = query.obs /\ query'.more = query.more /\ query'.asof = query.asof
        /\ ~query'.torn => ~query.torn /\ query.step \notin {"reorgs", "samples"}
    BY <1>0, <1>3 DEF DeleteBatch
  <2>2. Since(query') = Since(query)
    BY <2>1 DEF Since
  <2> QED
    BY <2>1, <2>2 DEF ReadInv
<1>4. CASE ReadReorgs
  <2>1. /\ query.step = "reorgs" /\ query'.step = "samples" /\ rows' = rows
        /\ query'.slot = query.slot /\ query'.duty = query.duty /\ query'.torn = query.torn
        /\ query'.obs = query.obs /\ query'.asof = query.asof
        /\ query.duty # "none" => query'.more = {r \in rows : InReorgWindow(r, query.slot)}
    BY <1>0, <1>4 DEF ReadReorgs
  <2>2. Since(query') = Since(query)
    BY <2>1 DEF Since
  <2> QED
    BY <2>1, <2>2 DEF ReadInv
<1>5. CASE ReadSamples
  <2>1. /\ query.step = "samples" /\ query'.step = "done" /\ rows' = rows
        /\ query'.slot = query.slot /\ query'.duty = query.duty /\ query'.torn = query.torn
        /\ query'.obs = query.obs /\ query'.asof = query.asof
        /\ query'.more = query.more \cup {r \in rows : InSampleWindow(r, StartAt(query.obs))}
    BY <1>0, <1>5 DEF ReadSamples
  <2>2. Since(query') = Since(query)
    BY <2>1 DEF Since
  <2> QED
    BY <2>1, <2>2 DEF ReadInv
<1>6. CASE ReadStep
  <2>1. CASE \E s \in Slots, who \in Validators \cup {"any"} : ReadRefused(s, who)
    BY <1>1, <2>1 DEF ReadRefused
  <2> QED
    BY <1>4, <1>5, <1>6, <2>1, ObservationsWhole DEF ReadStep
<1>7. CASE \E r \in Rows : Write(r)
  BY <1>1, <1>7 DEF Write
<1>8. CASE \E p \in Processes : Leave(p)
  BY <1>1, <1>2, <1>8, LeaveFrame
<1> QED
  BY <1>1, <1>3, <1>6, <1>7, <1>8, StepKinds, OpenFrame, PruneFrame DEF Tick, vars

-----------------------------------------------------------------------------
(* The theorems.                                                            *)

\* The invariant holds at the start, every step keeps it, and it says enough.
LEMMA Invariance == Spec => []IInv
<1>1. Init => IInv
  BY TypeInit, VersionInit, PruneInit DEF IInv
<1>2. IInv /\ [Next]_vars => IInv'
  BY TypeStep, VersionStep, PruneInvStep, KeptStep, ReadInvStep DEF IInv
<1> QED
  BY <1>1, <1>2, PTL DEF Spec

\* The rows, the file and the calls in progress always have their types.
THEOREM TypeCorrect == Spec => []TypeOK
<1>1. IInv => TypeOK
  BY DEF IInv
<1> QED
  BY <1>1, Invariance, PTL

\* A file holds exactly the objects of the migrations its version names, also when
\* two processes migrate it at once and when one of them dies on the way (store.go:
\* migrate, applyMigration).
THEOREM SchemaFollowsVersion == Spec => []SchemaMatchesVersion
<1>1. IInv => SchemaMatchesVersion
  BY DEF IInv, VersionInv
<1> QED
  BY <1>1, Invariance, PTL

\* Nobody has a file open whose schema is not that of this binary, and a file that
\* is open is not migrated any more (store.go: Open).
THEOREM OpenedIsCurrent == Spec => []OpenIsCurrent
<1>1. IInv => OpenIsCurrent
  BY DEF IInv, VersionInv
<1> QED
  BY <1>1, Invariance, PTL

\* A call of Prune that succeeds has met both limits it computed (retention.go: Prune).
THEOREM PruneIsComplete == Spec => []PruneMeetsLimits
<1>1. IInv => PruneMeetsLimits
  BY FiniteRows, StoreConstants DEF IInv, PruneInv, PruneMeetsLimits, Size, LiveBudget
<1> QED
  BY <1>1, Invariance, PTL

\* Pruning by size never costs more than one batch beyond the limit.
THEOREM PruneIsFrugal == Spec => []PruneKeepsWhatFits
<1>1. IInv => PruneKeepsWhatFits
  BY DEF IInv, PruneInv
<1> QED
  BY <1>1, Invariance, PTL

\* A timeline that can be read has every row of its slot and duty since the slot
\* began, and every reorganisation and sample too unless a batch came in between
\* (read.go: ObservationsForSlot, retention.go: deleteOldestMatchingBatch).
THEOREM TimelineIsWhole == Spec => []ReadableIsWhole
<1>1. IInv => ReadableIsWhole
  BY DEF IInv, ReadInv, Since, ReadableIsWhole
<1> QED
  BY <1>1, Invariance, PTL
=============================================================================
