---------------------------- MODULE EvidenceStore ----------------------------
(***************************************************************************)
(* The SQLite file, opened by the daemon and by `whymiss timeline` at the   *)
(* same time.  Open migrates the schema; the daemon writes rows and prunes  *)
(* the oldest of them in batches, by age and then by size, each batch a     *)
(* transaction; the command reads one slot with three queries that share no *)
(* transaction.                                                             *)
(*                                                                          *)
(* One action is one transaction or one query.  A row takes one page.       *)
(* writeMu is held while prune.phase is not "idle".                         *)
(***************************************************************************)
EXTENDS Integers, FiniteSets

CONSTANTS
  Adds,        \* Adds[m]: the schema objects that migration m creates
  NewerAdds,   \* those of a version that this binary does not know
  Indexes,     \* the objects that are indexes
  Rows,        \* rows that may be written: [table, slot, kind, who, at]
  Validators,
  InWindow,    \* LastAttestationInclusionSlot(s) - s
  Lookback,    \* sampleLookback
  SlotTicks,   \* the length of a slot
  MaxTime,     \* bound on now
  MaxAge,      \* retention by age
  MaxPages,    \* retention by size: maxBytes
  Overhead,    \* pages of the -wal and -shm files after a checkpoint
  Batch,       \* pruneBatchSize
  RowLimit     \* maxObservationsPerSlot

Latest == Cardinality(DOMAIN Adds)

\* Every migration adds something, and nothing twice.  A sample belongs to no slot,
\* the start of a slot to no validator.
ASSUME StoreConstants ==
  /\ Latest \in Nat /\ DOMAIN Adds = 1 .. Latest
  /\ \A m \in 1 .. Latest : Adds[m] # {}
  /\ \A m, n \in 1 .. Latest : m # n => Adds[m] \cap Adds[n] = {}
  /\ IsFiniteSet(Rows)
  /\ Rows \subseteq [table : {"observations", "samples"}, slot : Nat, kind : STRING,
                     who : Validators \cup {"none"}, at : Int]
  /\ \A r \in Rows : r.table = "samples" => r.slot = 0
  /\ \A r \in Rows : r.kind = "slot_start" => r.table = "observations" /\ r.who = "none"
  /\ {InWindow, Lookback, SlotTicks, MaxTime, MaxAge, MaxPages, Overhead, Batch, RowLimit} \subseteq Nat
  /\ MaxAge > 0 /\ Batch > 0 /\ MaxPages > Overhead

VARIABLES
  now,
  file,      \* PRAGMA user_version, the objects of the schema, auto_vacuum
  pc, seen,  \* a process in Open, and the version it read or reached
  rows,      \* the rows of both tables
  free,      \* pages on the freelist
  written,   \* every row ever written
  prune,     \* the call of Prune in progress
  query      \* the timeline being read

vars == <<now, file, pc, seen, rows, free, written, prune, query>>

Processes == {"daemon", "cli"}

NoPrune == [phase |-> "idle", cutoff |-> 0, young |-> 0]
NoQuery == [step |-> "none", slot |-> 0, duty |-> "none", obs |-> {}, more |-> {},
            asof |-> {}, torn |-> FALSE]

\* The objects of a database at version v.
Schema(v) == UNION {Adds[m] : m \in 1 .. v}

-----------------------------------------------------------------------------
(* Open. *)

\* A new file, one of an earlier release without incremental auto-vacuum, or one
\* of a later release.
Init ==
  /\ now = 0
  /\ file \in {[version |-> v, objects |-> Schema(v), vacuum |-> "none"] : v \in 0 .. Latest}
            \cup {[version |-> Latest + 1, objects |-> Schema(Latest) \cup NewerAdds, vacuum |-> "incremental"]}
  /\ pc = [p \in Processes |-> "closed"]
  /\ seen = [p \in Processes |-> 0]
  /\ rows = {} /\ free = 0 /\ written = {}
  /\ prune = NoPrune /\ query = NoQuery

Tick ==
  /\ now < MaxTime
  /\ now' = now + 1
  /\ UNCHANGED <<file, pc, seen, rows, free, written, prune, query>>

Goto(p, place) == pc' = [pc EXCEPT ![p] = place]

\* Auto-vacuum can be chosen only before the first table exists.
OpenFile(p) ==
  /\ pc[p] = "closed"
  /\ Goto(p, "version")
  /\ file' = [file EXCEPT !.vacuum = IF file.objects = {} THEN "incremental" ELSE @]
  /\ UNCHANGED <<now, seen, rows, free, written, prune, query>>

\* Mutant: a later release's file is not refused.
ReadVersionAny(p) ==
  /\ pc[p] = "version"
  /\ seen' = [seen EXCEPT ![p] = file.version]
  /\ Goto(p, "migrate")
  /\ UNCHANGED <<now, file, rows, free, written, prune, query>>

\* The version is read outside any transaction; a later release's file is refused.
ReadVersion(p) ==
  /\ pc[p] = "version"
  /\ seen' = [seen EXCEPT ![p] = file.version]
  /\ Goto(p, IF file.version > Latest THEN "failed" ELSE "migrate")
  /\ UNCHANGED <<now, file, rows, free, written, prune, query>>

\* Mutant: statements that tolerate what is there already.
MigrateIfMissing(p) ==
  /\ pc[p] = "migrate" /\ seen[p] < Latest
  /\ file' = [file EXCEPT !.version = seen[p] + 1, !.objects = @ \cup Adds[seen[p] + 1]]
  /\ seen' = [seen EXCEPT ![p] = @ + 1]
  /\ UNCHANGED <<now, pc, rows, free, written, prune, query>>

\* One migration with its new version is one transaction.
Migrate(p) ==
  /\ pc[p] = "migrate" /\ seen[p] < Latest
  /\ Adds[seen[p] + 1] \cap file.objects = {}
  /\ file' = [file EXCEPT !.version = seen[p] + 1, !.objects = @ \cup Adds[seen[p] + 1]]
  /\ seen' = [seen EXCEPT ![p] = @ + 1]
  /\ UNCHANGED <<now, pc, rows, free, written, prune, query>>

\* "table already exists", "duplicate column name": the transaction is rolled back.
MigrateFails(p) ==
  /\ pc[p] = "migrate" /\ seen[p] < Latest
  /\ Adds[seen[p] + 1] \cap file.objects # {}
  /\ Goto(p, "failed")
  /\ UNCHANGED <<now, file, seen, rows, free, written, prune, query>>

\* validateSchema: the columns are those of this version, and the indexes are there.
SchemaValid ==
  /\ file.objects \ Indexes = Schema(Latest) \ Indexes
  /\ Schema(Latest) \cap Indexes \subseteq file.objects

Validate(p) ==
  /\ pc[p] = "migrate" /\ seen[p] >= Latest
  /\ Goto(p, IF SchemaValid THEN "open" ELSE "failed")
  /\ UNCHANGED <<now, file, seen, rows, free, written, prune, query>>

\* Open returned its error, or the process is done or killed: what it held in
\* memory is gone, what it committed stays.
Leave(p) ==
  /\ pc[p] # "closed"
  /\ Goto(p, "closed")
  /\ seen' = [seen EXCEPT ![p] = 0]
  /\ prune' = IF p = "daemon" THEN NoPrune ELSE prune
  /\ query' = IF p = "cli" THEN NoQuery ELSE query
  /\ UNCHANGED <<now, file, rows, free, written>>
-----------------------------------------------------------------------------
(* Writing and pruning, in the daemon. *)

Idle == pc["daemon"] = "open" /\ prune.phase = "idle"

\* Mutant: the write does not take writeMu.
WriteUnlocked(r) ==
  /\ pc["daemon"] = "open"
  /\ r \notin written /\ r.at =< now /\ (r.kind = "slot_start" => r.at = now)
  /\ rows' = rows \cup {r}
  /\ written' = written \cup {r}
  /\ free' = IF free > 0 THEN free - 1 ELSE 0
  /\ UNCHANGED <<now, file, pc, seen, prune, query>>

\* Mutant: every row is put on a free page.
WriteNoGrowth(r) ==
  /\ Idle
  /\ r \notin written /\ r.at =< now /\ (r.kind = "slot_start" => r.at = now)
  /\ rows' = rows \cup {r}
  /\ written' = written \cup {r}
  /\ free' = free - 1
  /\ UNCHANGED <<now, file, pc, seen, prune, query>>

\* The row is valid and its write succeeds.  The start of a slot is written when
\* the slot begins; other facts may be delivered late and in any order.
Write(r) ==
  /\ Idle
  /\ r \notin written /\ r.at =< now /\ (r.kind = "slot_start" => r.at = now)
  /\ rows' = rows \cup {r}
  /\ written' = written \cup {r}
  /\ free' = IF free > 0 THEN free - 1 ELSE 0
  /\ UNCHANGED <<now, file, pc, seen, prune, query>>

\* The order of deletion: at, then table; rows that agree on both go by id, in
\* whatever order they were inserted.
Before(a, b) == a.at < b.at \/ (a.at = b.at /\ ~(a.table = "samples" /\ b.table = "observations"))

\* Mutant: observations go before samples, whatever their age.
OldestByTable(matching) ==
  {B \in SUBSET matching :
     /\ Cardinality(B) = IF Cardinality(matching) < Batch THEN Cardinality(matching) ELSE Batch
     /\ \A b \in B, r \in matching \ B : b.table = r.table \/ b.table = "observations"}

\* The batches a transaction may delete from the matching rows.
Oldest(matching) ==
  {B \in SUBSET matching :
     /\ Cardinality(B) = IF Cardinality(matching) < Batch THEN Cardinality(matching) ELSE Batch
     /\ \A b \in B, r \in matching \ B : Before(b, r)}

\* Mutant: free pages count.
SizeWithFree == Cardinality(rows) + free

\* sizeBytes: free pages do not count.
Size == Cardinality(rows)
LiveBudget == MaxPages - Overhead

PruneStart ==
  /\ Idle
  /\ prune' = [phase |-> "age", cutoff |-> now - MaxAge, young |-> 0]
  /\ UNCHANGED <<now, file, pc, seen, rows, free, written, query>>

Matching == IF prune.phase = "age" THEN {r \in rows : r.at < prune.cutoff} ELSE rows

\* A batch that leaves a reader between two of its queries is a torn read.
DeleteBatch(B) ==
  /\ rows' = rows \ B
  /\ free' = free + Cardinality(B)
  /\ query' = [query EXCEPT !.torn = @ \/ query.step \in {"reorgs", "samples"}]

\* The checkpoint after a batch succeeds, or finds the database busy with a
\* reader: then Prune gives up until its next turn.
Checkpoint(phase, young) ==
  \/ prune' = [prune EXCEPT !.phase = phase, !.young = young]
  \/ pc["cli"] = "open" /\ prune' = NoPrune

PruneByAge ==
  /\ prune.phase = "age"
  /\ IF Matching = {}
     THEN UNCHANGED <<rows, free, query>> /\ Checkpoint("size", 0)
     ELSE \E B \in Oldest(Matching) : DeleteBatch(B) /\ Checkpoint("age", 0)
  /\ UNCHANGED <<now, file, pc, seen, written>>

\* An empty database fits, so there is always a row to delete.
PruneBySize ==
  /\ prune.phase = "size" /\ Size > LiveBudget
  /\ \E B \in Oldest(Matching) :
       DeleteBatch(B) /\ Checkpoint("size", prune.young + Cardinality(B))
  /\ UNCHANGED <<now, file, pc, seen, written>>

\* Free pages are reclaimed by either kind of vacuum, then the files are measured.
PruneReclaims ==
  /\ prune.phase = "size" /\ Size =< LiveBudget
  /\ free' = 0
  /\ Checkpoint(IF Cardinality(rows) + free' + Overhead =< MaxPages THEN "done" ELSE "idle", prune.young)
  /\ UNCHANGED <<now, file, pc, seen, rows, written, query>>

PruneReturns ==
  /\ prune.phase = "done"
  /\ prune' = NoPrune
  /\ UNCHANGED <<now, file, pc, seen, rows, free, written, query>>

-----------------------------------------------------------------------------
(* Reading a timeline, in the command. *)

StartOf(O) == {r \in O : r.kind = "slot_start"}
StartAt(O) == (CHOOSE r \in StartOf(O) : TRUE).at
Assigned(O) == {r.who : r \in {x \in O : x.kind = "duty_assigned"}}
DutyScoped(r) == r.who # "none"

\* selectDutyObservations: no choice among several validators is made for the caller.
Selectable(O, who) == IF who = "any" THEN Cardinality(Assigned(O)) =< 1 ELSE who \in Assigned(O)
Selected(O) == IF Assigned(O) = {} THEN "none" ELSE CHOOSE v \in Assigned(O) : TRUE

Readable(s, who) ==
  LET O == {r \in rows : r.table = "observations" /\ r.slot = s}
  IN O # {} /\ Cardinality(O) =< RowLimit /\ Selectable(O, who) /\ StartOf(O) # {}

\* ObservationsForSlot, the selection of the duty and the search for slot_start.
ReadObservations(s, who) ==
  LET O == {r \in rows : r.table = "observations" /\ r.slot = s}
      duty == IF who = "any" THEN Selected(O) ELSE who
  IN /\ pc["cli"] = "open" /\ query.step = "none"
     /\ Readable(s, who)
     /\ query' = [step |-> "reorgs", slot |-> s, duty |-> duty,
                  obs |-> {r \in O : DutyScoped(r) => r.who = duty}, more |-> {},
                  asof |-> written, torn |-> FALSE]
     /\ UNCHANGED <<now, file, pc, seen, rows, free, written, prune>>

\* No row, too many rows, an ambiguous or missing duty or no slot_start: an error.
ReadRefused(s, who) ==
  /\ pc["cli"] = "open" /\ query.step = "none"
  /\ ~Readable(s, who)
  /\ Goto("cli", "failed")
  /\ UNCHANGED <<now, file, seen, rows, free, written, prune, query>>

InReorgWindow(r, s) == r.kind = "reorg" /\ s < r.slot /\ r.slot =< s + InWindow

ReadReorgs ==
  /\ query.step = "reorgs"
  /\ query' = [query EXCEPT !.step = "samples",
                 !.more = IF query.duty = "none" THEN {} ELSE {r \in rows : InReorgWindow(r, query.slot)}]
  /\ UNCHANGED <<now, file, pc, seen, rows, free, written, prune>>

InSampleWindow(r, start) == r.table = "samples" /\ start - Lookback =< r.at /\ r.at =< start + SlotTicks

ReadSamples ==
  /\ query.step = "samples"
  /\ query' = [query EXCEPT !.step = "done",
                 !.more = @ \cup {r \in rows : InSampleWindow(r, StartAt(query.obs))}]
  /\ UNCHANGED <<now, file, pc, seen, rows, free, written, prune>>

-----------------------------------------------------------------------------
Slots == {r.slot : r \in Rows} \ {0}

Next ==
  \/ Tick
  \/ \E p \in Processes :
       \/ OpenFile(p) \/ ReadVersion(p) \/ Migrate(p) \/ MigrateFails(p)
       \/ Validate(p) \/ Leave(p)
  \/ \E r \in Rows : Write(r)
  \/ PruneStart \/ PruneByAge \/ PruneBySize \/ PruneReclaims \/ PruneReturns
  \/ \E s \in Slots, who \in Validators \cup {"any"} :
       ReadObservations(s, who) \/ ReadRefused(s, who)
  \/ ReadReorgs \/ ReadSamples

Spec == Init /\ [][Next]_vars

-----------------------------------------------------------------------------
(* Properties. *)

\* Types of the file, the processes, the rows and the calls in progress.
TypeOK ==
  /\ now \in 0 .. MaxTime
  /\ file \in [version : 0 .. Latest + 1, objects : SUBSET (Schema(Latest) \cup NewerAdds),
              vacuum : {"none", "incremental"}]
  /\ pc \in [Processes -> {"closed", "version", "migrate", "open", "failed"}]
  /\ seen \in [Processes -> 0 .. Latest + 1]
  /\ rows \subseteq written /\ written \subseteq Rows
  /\ free \in 0 .. Cardinality(Rows)
  /\ prune \in [phase : {"idle", "age", "size", "done"}, cutoff : -MaxAge .. MaxTime,
               young : 0 .. Cardinality(Rows)]
  /\ query \in [step : {"none", "reorgs", "samples", "done"}, slot : Nat,
               duty : Validators \cup {"none"}, obs : SUBSET written, more : SUBSET written,
               asof : SUBSET written, torn : BOOLEAN]

\* The version in the file says which migrations its schema has, also after two
\* processes migrated at once and after a crash between migrations
\* (store.go: migrate, applyMigration).
SchemaMatchesVersion ==
  file.version =< Latest => file.objects = Schema(file.version)

\* Whoever has the store open has it at this binary's version: no process works on
\* a file that is half migrated or of a later release.
OpenIsCurrent ==
  \A p \in Processes : pc[p] = "open" => file.version = Latest /\ SchemaValid

\* When Prune succeeds, no row is older than the age limit it computed and the
\* live pages fit the size limit (retention.go: Prune).
PruneMeetsLimits ==
  prune.phase = "done" =>
    /\ \A r \in rows : r.at >= prune.cutoff
    /\ Cardinality(rows) + free + Overhead =< MaxPages

\* Pruning by size stops as soon as the rows fit: it never costs more than one
\* batch beyond the limit (sizeBytes).
PruneKeepsWhatFits ==
  prune.phase \in {"size", "done"} /\ prune.young > 0 => Cardinality(rows) > LiveBudget - Batch

\* A timeline that can be read has every row of its slot and duty after the start
\* of the slot that was ever written: batches that end within a slot, crashes
\* between batches and late rows never leave a timeline with a gap after its
\* slot_start.  Reorganisations and samples too, unless a batch was deleted between
\* the queries.
ReadableIsWhole ==
  query.step # "none" =>
    LET start == StartAt(query.obs)
        since == {r \in query.asof : r.at > start}
    IN /\ {r \in since : r.slot = query.slot /\ (DutyScoped(r) => r.who = query.duty)} \subseteq query.obs
       /\ query.step = "done" /\ ~query.torn =>
            {r \in since : InSampleWindow(r, start) \/ (query.duty # "none" /\ InReorgWindow(r, query.slot))}
              \subseteq query.more
=============================================================================
