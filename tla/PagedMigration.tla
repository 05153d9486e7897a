--------------------------- MODULE PagedMigration ---------------------------
(* The chunked, resumable storage migration (contracts/chainsetttle/src/
   paged_migration.rs).  Every call is one transaction: a chunk in which an item
   fails leaves the cursor, and its items, as they were.

   The ledgers recorded in the progress record decide nothing and are left out. *)
EXTENDS Naturals, FiniteSets

CONSTANTS
    Totals,         \* values of total_items a start names
    ChunkSizes,     \* values of chunk_size
    NotStarted,     \* no progress record in storage
    MaxRuns         \* bound on the migrations started

ASSUME MigrationAssumption ==
    /\ Totals \subseteq Nat /\ ChunkSizes \subseteq Nat /\ NotStarted \notin Nat
    /\ \E n \in Totals : \A m \in Totals : m <= n

VARIABLES
    progress,       \* the progress record, or NotStarted
    touched,        \* history: how often this run called migrate_fn on an item
    runs            \* history: migrations started
migrationVars == <<progress, touched, runs>>

MaxItems == CHOOSE n \in Totals : \A m \in Totals : m <= n
Items == 0..(MaxItems - 1)

(* Starting again is a no-op, unless the migration under way has another size. *)
StartMigration(total) ==
    IF progress # NotStarted
    THEN (progress.complete \/ progress.total = total) /\ UNCHANGED migrationVars
    ELSE /\ runs < MaxRuns /\ runs' = runs + 1
         /\ progress' = [total |-> total, migrated |-> 0, complete |-> FALSE]
         /\ touched' = [i \in Items |-> 0]

(* The cursor after a chunk of "size" items, or of what is left. *)
ChunkEnd(start, size) == IF start + size < progress.total THEN start + size ELSE progress.total

(* Mutant: the last item of the chunk is taken again with the next chunk. *)
ChunkInclusive(start, end) == {i \in Items : start <= i /\ i <= end}

Chunk(start, end) == {i \in Items : start <= i /\ i < end}

MigrateChunk(size) ==
    LET start == progress.migrated
        end == ChunkEnd(start, size)
    IN
    /\ progress # NotStarted /\ ~progress.complete
    /\ progress' = [progress EXCEPT !.migrated = end, !.complete = (end >= progress.total)]
    /\ touched' = [i \in Items |-> touched[i] + (IF i \in Chunk(start, end) THEN 1 ELSE 0)]
    /\ UNCHANGED runs

AbortMigration ==
    /\ progress # NotStarted
    /\ progress' = NotStarted /\ UNCHANGED <<touched, runs>>

CleanupMigration ==
    /\ progress # NotStarted /\ progress.complete
    /\ progress' = NotStarted /\ UNCHANGED <<touched, runs>>

MigrationInit == progress = NotStarted /\ touched = [i \in Items |-> 0] /\ runs = 0
MigrationNext ==
    \/ \E total \in Totals : StartMigration(total)
    \/ \E size \in ChunkSizes : MigrateChunk(size)
    \/ AbortMigration \/ CleanupMigration
MigrationSpec == MigrationInit /\ [][MigrationNext]_migrationVars

-----------------------------------------------------------------------------
(* However a migration is cut into chunks, repeated, aborted and started again:
   the items below the cursor were migrated exactly once in this run and the
   others not at all, and a migration called complete has left none out. *)
EachItemOnce == progress # NotStarted =>
    /\ progress.migrated <= progress.total
    /\ \A i \in 0..(progress.total - 1) : touched[i] = IF i < progress.migrated THEN 1 ELSE 0
    /\ progress.complete => progress.migrated = progress.total
=============================================================================
