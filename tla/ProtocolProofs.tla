--------------------------- MODULE ProtocolProofs ---------------------------
(* The protocols around a shipment, for every value of their constants. *)
EXTENDS PagedMigration, Treasury, CustodyLog, Arbitration, Consents, MilestoneTerms, Limits,
        SequenceTheorems, SumTheorems

-----------------------------------------------------------------------------
(* EachItemOnce for every set of sizes and chunks: the items below the cursor
   were migrated once in the current run, the others not at all. *)

(* The shape of the progress record and of the history.  The record of a run
   names one of the sizes, so its items are all among Items. *)
MigrationTyped ==
    /\ touched \in [Items -> Nat]
    /\ progress # NotStarted =>
          progress \in [total : Totals, migrated : Nat, complete : BOOLEAN]

MigrationInv == MigrationTyped /\ EachItemOnce

-----------------------------------------------------------------------------
(* No size named by a start exceeds the number of items. *)
LEMMA TotalsWithinItems ==
    MaxItems \in Nat /\ \A n \in Totals : n <= MaxItems
<1>1. PICK n \in Totals : \A m \in Totals : m <= n
  BY MigrationAssumption
<1>2. MaxItems \in Totals /\ \A m \in Totals : m <= MaxItems
  BY <1>1 DEF MaxItems
<1>. QED BY <1>2, MigrationAssumption

LEMMA MigrationInitially == MigrationInit => MigrationInv
  BY DEF MigrationInit, MigrationInv, MigrationTyped, EachItemOnce

(* A start begins a run with nothing touched. *)
LEMMA StartKeeps ==
    ASSUME MigrationInv, NEW size \in Totals, StartMigration(size)
    PROVE  MigrationInv'
<1>1. CASE progress # NotStarted
  BY <1>1 DEF StartMigration, MigrationInv, MigrationTyped, EachItemOnce, migrationVars
<1>2. CASE progress = NotStarted
  <2>1. /\ progress' = [total |-> size, migrated |-> 0, complete |-> FALSE]
        /\ touched' = [i \in Items |-> 0]
    BY <1>2 DEF StartMigration
  <2>2. MigrationTyped'
    BY <2>1 DEF MigrationTyped
  <2>3. size \in Nat /\ size <= MaxItems /\ MaxItems \in Nat
    BY TotalsWithinItems, MigrationAssumption
  <2>4. \A i \in 0..(size - 1) : i \in Items
    BY <2>3 DEF Items
  <2>5. EachItemOnce'
    BY <2>1, <2>3, <2>4 DEF EachItemOnce
  <2>. QED BY <2>2, <2>5 DEF MigrationInv
<1>. QED BY <1>1, <1>2

(* A chunk moves the cursor to the end of what it touched. *)
LEMMA ChunkKeeps ==
    ASSUME MigrationInv, NEW size \in ChunkSizes, MigrateChunk(size)
    PROVE  MigrationInv'
<1>. DEFINE start == progress.migrated
            end == ChunkEnd(start, size)
<1>1. /\ progress # NotStarted
      /\ progress' = [progress EXCEPT !.migrated = end, !.complete = (end >= progress.total)]
      /\ touched' = [i \in Items |-> touched[i] + (IF i \in Chunk(start, end) THEN 1 ELSE 0)]
  BY DEF MigrateChunk
<1>2. /\ progress \in [total : Totals, migrated : Nat, complete : BOOLEAN]
      /\ touched \in [Items -> Nat]
      /\ progress.migrated <= progress.total
      /\ \A i \in 0..(progress.total - 1) : touched[i] = IF i < progress.migrated THEN 1 ELSE 0
  BY <1>1 DEF MigrationInv, MigrationTyped, EachItemOnce
<1>3. /\ size \in Nat /\ start \in Nat /\ progress.total \in Nat /\ progress.total \in Totals
      /\ progress.total <= MaxItems /\ MaxItems \in Nat
  BY <1>2, TotalsWithinItems, MigrationAssumption
<1>4. end \in Nat /\ start <= end /\ end <= progress.total
  BY <1>2, <1>3 DEF ChunkEnd
<1>5. /\ progress'.total = progress.total /\ progress'.migrated = end
      /\ progress'.complete = (end >= progress.total)
      /\ progress' \in [total : Totals, migrated : Nat, complete : BOOLEAN]
  <2>1. end \in Nat /\ (end >= progress.total) \in BOOLEAN
    BY <1>3, <1>4
  <2>. DEFINE done == (end >= progress.total)
  <2>2. progress' = [progress EXCEPT !.migrated = end, !.complete = done] /\ done \in BOOLEAN
    BY <1>1, <2>1
  <2>. HIDE DEF end, done
  <2>3. /\ progress'.total = progress.total /\ progress'.migrated = end
        /\ progress'.complete = done
        /\ progress' \in [total : Totals, migrated : Nat, complete : BOOLEAN]
    BY <2>1, <2>2, <1>2
  <2>. QED BY <2>3 DEF done
<1>6. MigrationTyped'
  BY <1>1, <1>2, <1>5 DEF MigrationTyped
<1>7. ASSUME NEW i \in 0..(progress.total - 1)
      PROVE  touched'[i] = IF i < end THEN 1 ELSE 0
  <2>1. i \in Items /\ i \in Nat
    BY <1>3 DEF Items
  <2>2. touched'[i] = touched[i] + (IF i \in Chunk(start, end) THEN 1 ELSE 0)
    BY <1>1, <2>1
  <2>3. i \in Chunk(start, end) <=> start <= i /\ i < end
    BY <2>1 DEF Chunk
  <2>4. touched[i] = IF i < start THEN 1 ELSE 0
    BY <1>2
  <2>. HIDE DEF start, end
  <2>. QED BY <2>1, <2>2, <2>3, <2>4, <1>3, <1>4
<1>8. EachItemOnce'
  BY <1>4, <1>5, <1>7, <1>3 DEF EachItemOnce
<1>. QED BY <1>6, <1>8 DEF MigrationInv

(* THEOREM: for every way of cutting, repeating, aborting and restarting a
   migration, EachItemOnce holds throughout. *)
THEOREM MigrationSound == MigrationSpec => []EachItemOnce
<1>1. MigrationInit => MigrationInv
  BY MigrationInitially
<1>2. MigrationInv /\ [MigrationNext]_migrationVars => MigrationInv'
  <2>. SUFFICES ASSUME MigrationInv, [MigrationNext]_migrationVars
                PROVE  MigrationInv'
    OBVIOUS
  <2>1. CASE \E size \in Totals : StartMigration(size)
    BY <2>1, StartKeeps
  <2>2. CASE \E size \in ChunkSizes : MigrateChunk(size)
    BY <2>2, ChunkKeeps
  <2>3. CASE AbortMigration
    BY <2>3 DEF AbortMigration, MigrationInv, MigrationTyped, EachItemOnce
  <2>4. CASE CleanupMigration
    BY <2>4 DEF CleanupMigration, MigrationInv, MigrationTyped, EachItemOnce
  <2>5. CASE UNCHANGED migrationVars
    BY <2>5 DEF migrationVars, MigrationInv, MigrationTyped, EachItemOnce
  <2>. QED BY <2>1, <2>2, <2>3, <2>4, <2>5 DEF MigrationNext
<1>3. MigrationInv => EachItemOnce
  BY DEF MigrationInv
<1>. QED BY <1>1, <1>2, <1>3, PTL DEF MigrationSpec

-----------------------------------------------------------------------------
(* The custody log.  The verdict is a fold of Scan over the log; what the state
   after each prefix says of the transfers in it is proved by induction over the
   prefixes, that is by looking at the shortest one it would be wrong of. *)

ScanStates == {"free", "awaited", "broken"}

(* The state of the scan after each prefix of a log. *)
LEMMA ScanPrefixes ==
    ASSUME NEW log \in Seq(HandoffTypes)
    PROVE  \E v : /\ v[0] = "free"
                  /\ \A n \in 1 .. Len(log) : v[n] = Scan(v[n - 1], log[n])
                  /\ VerifyCustodyChain(log) <=> v[Len(log)] = "free"
<1>. DEFINE S == DOMAIN log
            step == [p \in ScanStates \X HandoffTypes |-> Scan(p[1], p[2])]
            Scans(g) == g = [T \in SUBSET S |-> IF T = {} THEN "free"
                                                 ELSE Scan(g[T \ {Max(T)}], log[Max(T)])]
            k == CHOOSE g : Scans(g)
            v == [n \in 0 .. Len(log) |-> k[1 .. n]]
<1>1. Len(log) \in Nat /\ S = 1 .. Len(log) /\ \A i \in S : log[i] \in HandoffTypes
  BY LenProperties
<1>2. step \in [ScanStates \X HandoffTypes -> ScanStates]
  BY DEF Scan, ScanStates
<1>3. VerifyCustodyChain(log) <=> k[S] = "free"
  BY DEF VerifyCustodyChain, FoldLeft, MapThenFoldSet
<1>4. HasGreatest(S)
  BY <1>1, IndicesHaveGreatest
<1>. HIDE DEF S
<1>5. PICK h : FoldsTo(h, step, "free", log, S)
  <2>. HIDE DEF step
  <2>. QED BY <1>4, FoldExists
<1>6. \A T \in SUBSET S : h[T] \in ScanStates
  <2>1. "free" \in ScanStates
    BY DEF ScanStates
  <2>2. \A i \in S : log[i] \in HandoffTypes
    BY <1>1
  <2>. HIDE DEF step
  <2>. QED BY <1>2, <1>4, <1>5, <2>1, <2>2, FoldTyped
<1>7. Scans(h)
  <2>1. ASSUME NEW T \in SUBSET S, T # {}
        PROVE  step[<<h[T \ {Max(T)}], log[Max(T)]>>] = Scan(h[T \ {Max(T)}], log[Max(T)])
    <3>1. Max(T) \in T
      BY <1>4, <2>1 DEF HasGreatest
    <3>2. h[T \ {Max(T)}] \in ScanStates /\ log[Max(T)] \in HandoffTypes
      BY <1>1, <1>6, <3>1
    <3>. QED BY <3>2
  <2>2. h = [T \in SUBSET S |-> IF T = {} THEN "free"
                                 ELSE step[<<h[T \ {Max(T)}], log[Max(T)]>>]]
    BY <1>5 DEF FoldsTo
  <2>. HIDE DEF step
  <2>. QED BY <2>1, <2>2
<1>8. Scans(k)
  <2>. HIDE DEF Scans
  <2>. QED BY <1>7
<1>9. \A T \in SUBSET S : k[T] = IF T = {} THEN "free" ELSE Scan(k[T \ {Max(T)}], log[Max(T)])
  <2>. DEFINE body == [T \in SUBSET S |-> IF T = {} THEN "free"
                                           ELSE Scan(k[T \ {Max(T)}], log[Max(T)])]
  <2>1. k = body
    BY <1>8
  <2>2. \A T \in SUBSET S : body[T] = IF T = {} THEN "free" ELSE Scan(k[T \ {Max(T)}], log[Max(T)])
    OBVIOUS
  <2>. HIDE DEF k
  <2>. QED BY <2>1, <2>2
<1>. HIDE DEF k, Scans
<1>10. v[0] = "free"
  <2>1. 1 .. 0 = {} /\ {} \in SUBSET S
    OBVIOUS
  <2>2. v[0] = k[1 .. 0]
    BY <1>1
  <2>. QED BY <1>9, <2>1, <2>2
<1>11. ASSUME NEW n \in 1 .. Len(log)
       PROVE  v[n] = Scan(v[n - 1], log[n])
  <2>1. n \in Nat \ {0} /\ 1 .. n \in SUBSET S
    BY <1>1
  <2>2. Max(1 .. n) = n /\ (1 .. n) \ {n} = 1 .. n - 1 /\ 1 .. n # {}
    BY <2>1, MaxPrefix
  <2>3. k[1 .. n] = Scan(k[1 .. n - 1], log[n])
    BY <1>9, <2>1, <2>2
  <2>4. v[n] = k[1 .. n] /\ v[n - 1] = k[1 .. n - 1]
    BY <1>1
  <2>. QED BY <2>3, <2>4
<1>12. v[Len(log)] = k[S]
  BY <1>1
<1>. HIDE DEF v
<1>. QED BY <1>3, <1>10, <1>11, <1>12

(* A receipt of the i-th hand-over among the first n entries, and what each
   state of the scan says of those entries. *)
ReceiptFor(log, i, n) == \E j \in 1 .. n :
    i < j /\ log[j] = "Received" /\ \A k \in 1 .. n : i < k /\ k < j => log[k] # "Transferred"
AllMet(log, n) == \A i \in 1 .. n : log[i] = "Transferred" => ReceiptFor(log, i, n)
OneAwaited(log, n) == \E i \in 1 .. n :
    /\ log[i] = "Transferred"
    /\ \A k \in 1 .. n : i < k => log[k] \notin {"Transferred", "Received"}
    /\ \A h \in 1 .. n : h < i /\ log[h] = "Transferred" => ReceiptFor(log, h, n)
OneOvertaken(log, n) == \E i, k \in 1 .. n :
    /\ i < k /\ log[i] = "Transferred" /\ log[k] = "Transferred"
    /\ \A j \in 1 .. n : i < j /\ j < k => log[j] # "Received"
Meaning(log, state, n) ==
    /\ state = "free" => AllMet(log, n)
    /\ state = "awaited" => OneAwaited(log, n)
    /\ state = "broken" => OneOvertaken(log, n)
    /\ state \in ScanStates

(* A transfer met among some entries is met among more of them. *)
LEMMA MetGrows ==
    ASSUME NEW log, NEW n \in Nat, NEW i \in 1 .. n, ReceiptFor(log, i, n)
    PROVE  ReceiptFor(log, i, n + 1)
<1>1. PICK j \in 1 .. n : i < j /\ log[j] = "Received"
                          /\ \A k \in 1 .. n : i < k /\ k < j => log[k] # "Transferred"
  BY DEF ReceiptFor
<1>2. j \in 1 .. n + 1 /\ \A k \in 1 .. n + 1 : i < k /\ k < j => log[k] # "Transferred"
  BY <1>1
<1>. QED BY <1>1, <1>2 DEF ReceiptFor

LEMMA MeaningStep ==
    ASSUME NEW log, NEW n \in Nat, NEW state, Meaning(log, state, n)
    PROVE  Meaning(log, Scan(state, log[n + 1]), n + 1)
<1>. DEFINE type == log[n + 1]
<1>1. n + 1 \in 1 .. n + 1 /\ \A i \in 1 .. n + 1 : i \in 1 .. n \/ i = n + 1
  OBVIOUS
<1>2. CASE state = "free" /\ type = "Transferred"
  <2>1. \A h \in 1 .. n + 1 : h < n + 1 /\ log[h] = "Transferred" => ReceiptFor(log, h, n + 1)
    BY <1>1, <1>2, MetGrows DEF Meaning, AllMet
  <2>2. OneAwaited(log, n + 1)
    BY <1>1, <1>2, <2>1 DEF OneAwaited
  <2>. QED BY <1>2, <2>2 DEF Scan, Meaning, ScanStates
<1>3. CASE state = "free" /\ type # "Transferred"
  <2>1. AllMet(log, n + 1)
    BY <1>1, <1>3, MetGrows DEF Meaning, AllMet
  <2>. QED BY <1>3, <2>1 DEF Scan, Meaning, ScanStates
<1>4. CASE state = "awaited" /\ type = "Transferred"
  <2>1. PICK i \in 1 .. n : /\ log[i] = "Transferred"
                            /\ \A k \in 1 .. n : i < k => log[k] \notin {"Transferred", "Received"}
    BY <1>4 DEF Meaning, OneAwaited
  <2>2. i \in 1 .. n + 1 /\ i < n + 1
        /\ \A j \in 1 .. n + 1 : i < j /\ j < n + 1 => log[j] # "Received"
    BY <2>1
  <2>3. OneOvertaken(log, n + 1)
    BY <1>1, <1>4, <2>1, <2>2 DEF OneOvertaken
  <2>. QED BY <1>4, <2>3 DEF Scan, Meaning, ScanStates
<1>5. CASE state = "awaited" /\ type = "Received"
  <2>1. PICK i \in 1 .. n :
          /\ log[i] = "Transferred"
          /\ \A k \in 1 .. n : i < k => log[k] \notin {"Transferred", "Received"}
          /\ \A h \in 1 .. n : h < i /\ log[h] = "Transferred" => ReceiptFor(log, h, n)
    BY <1>5 DEF Meaning, OneAwaited
  <2>2. i < n + 1 /\ \A k \in 1 .. n + 1 : i < k /\ k < n + 1 => log[k] # "Transferred"
    BY <2>1
  <2>3. ReceiptFor(log, i, n + 1)
    BY <1>1, <1>5, <2>2 DEF ReceiptFor
  <2>4. ASSUME NEW h \in 1 .. n + 1, log[h] = "Transferred" PROVE ReceiptFor(log, h, n + 1)
    <3>1. h \in 1 .. n
      BY <1>1, <1>5, <2>4
    <3>2. h = i \/ h < i \/ i < h
      BY <3>1
    <3>3. ~ (i < h)
      BY <2>1, <2>4, <3>1
    <3>4. h < i => ReceiptFor(log, h, n + 1)
      BY <2>1, <2>4, <3>1, MetGrows
    <3>. QED BY <2>3, <3>2, <3>3, <3>4
  <2>5. AllMet(log, n + 1)
    BY <2>4 DEF AllMet
  <2>. QED BY <1>5, <2>5 DEF Scan, Meaning, ScanStates
<1>6. CASE state = "awaited" /\ type \notin {"Transferred", "Received"}
  <2>1. PICK i \in 1 .. n :
          /\ log[i] = "Transferred"
          /\ \A k \in 1 .. n : i < k => log[k] \notin {"Transferred", "Received"}
          /\ \A h \in 1 .. n : h < i /\ log[h] = "Transferred" => ReceiptFor(log, h, n)
    BY <1>6 DEF Meaning, OneAwaited
  <2>2. i \in 1 .. n + 1
        /\ \A k \in 1 .. n + 1 : i < k => log[k] \notin {"Transferred", "Received"}
    BY <1>1, <1>6, <2>1
  <2>3. \A h \in 1 .. n + 1 : h < i /\ log[h] = "Transferred" => ReceiptFor(log, h, n + 1)
    BY <1>1, <2>1, MetGrows
  <2>4. OneAwaited(log, n + 1)
    BY <2>1, <2>2, <2>3 DEF OneAwaited
  <2>. QED BY <1>6, <2>4 DEF Scan, Meaning, ScanStates
<1>7. CASE state = "broken"
  <2>1. PICK i \in 1 .. n, k \in 1 .. n :
          /\ i < k /\ log[i] = "Transferred" /\ log[k] = "Transferred"
          /\ \A j \in 1 .. n : i < j /\ j < k => log[j] # "Received"
    BY <1>7 DEF Meaning, OneOvertaken
  <2>2. i \in 1 .. n + 1 /\ k \in 1 .. n + 1
        /\ \A j \in 1 .. n + 1 : i < j /\ j < k => log[j] # "Received"
    BY <2>1
  <2>3. OneOvertaken(log, n + 1)
    BY <2>1, <2>2 DEF OneOvertaken
  <2>. QED BY <1>7, <2>3 DEF Scan, Meaning, ScanStates
<1>. QED BY <1>2, <1>3, <1>4, <1>5, <1>6, <1>7 DEF Meaning, ScanStates

(* The verdict on any log at all is what it claims. *)
LEMMA VerdictOnAnyLog ==
    ASSUME NEW log \in Seq(HandoffTypes)
    PROVE  VerifyCustodyChain(log) <=> AllMet(log, Len(log))
<1>1. Len(log) \in Nat
  BY LenProperties
<1>2. PICK v : /\ v[0] = "free"
               /\ \A n \in 1 .. Len(log) : v[n] = Scan(v[n - 1], log[n])
               /\ VerifyCustodyChain(log) <=> v[Len(log)] = "free"
  BY ScanPrefixes
<1>3. Meaning(log, v[Len(log)], Len(log))
  <2>. DEFINE H == {n \in 0 .. Len(log) : ~ Meaning(log, v[n], n)}
  <2>. SUFFICES ASSUME H # {} PROVE FALSE
    BY <1>1
  <2>1. PICK n \in H : \A k \in H : n <= k
    <3>1. H \in SUBSET Nat
      BY <1>1
    <3>. HIDE DEF H
    <3>. QED BY <3>1, LeastNumber
  <2>2. n # 0
    <3>1. Meaning(log, v[0], 0)
      BY <1>2 DEF Meaning, AllMet, ScanStates
    <3>. QED BY <3>1
  <2>3. n \in Nat /\ n - 1 \in Nat /\ n \in 1 .. Len(log) /\ n - 1 \in 0 .. Len(log) /\ n - 1 < n
    BY <1>1, <2>2
  <2>4. Meaning(log, v[n - 1], n - 1)
    BY <2>1, <2>3
  <2>5. Meaning(log, Scan(v[n - 1], log[(n - 1) + 1]), (n - 1) + 1)
    BY <2>3, <2>4, MeaningStep
  <2>6. (n - 1) + 1 = n
    BY <2>3
  <2>7. Meaning(log, v[n], n)
    BY <1>2, <2>3, <2>5, <2>6
  <2>. QED BY <2>7
<1>. DEFINE n == Len(log)
<1>4. OneAwaited(log, n) => ~ AllMet(log, n)
  BY <1>1 DEF OneAwaited, AllMet, ReceiptFor
<1>5. OneOvertaken(log, n) => ~ AllMet(log, n)
  <2>. SUFFICES ASSUME OneOvertaken(log, n), AllMet(log, n) PROVE FALSE
    OBVIOUS
  <2>1. PICK i \in 1 .. n, k \in 1 .. n :
          /\ i < k /\ log[i] = "Transferred" /\ log[k] = "Transferred"
          /\ \A j \in 1 .. n : i < j /\ j < k => log[j] # "Received"
    BY DEF OneOvertaken
  <2>2. PICK j \in 1 .. n : /\ i < j /\ log[j] = "Received"
                            /\ \A h \in 1 .. n : i < h /\ h < j => log[h] # "Transferred"
    BY <2>1 DEF AllMet, ReceiptFor
  <2>3. ~ (k < j)
    BY <2>1, <2>2
  <2>4. ~ (j < k)
    BY <2>1, <2>2
  <2>5. j # k
    BY <2>1, <2>2
  <2>. QED BY <1>1, <2>3, <2>4, <2>5
<1>. HIDE DEF n
<1>. QED BY <1>2, <1>3, <1>4, <1>5 DEF Meaning, ScanStates, n

(* The one-pass verdict on a chain of custody is exactly what it
   claims, for logs of any length and any types of hand-over: every transfer has
   its own receipt before the next transfer. *)
THEOREM CustodyVerdictSound == CustodySpec => []ChainVerdictExact
<1>. DEFINE Logged == custodyLog \in Seq(HandoffTypes)
<1>1. CustodyInit => Logged
  BY DEF CustodyInit
<1>2. Logged /\ [CustodyNext]_custodyVars => Logged'
  <2>. SUFFICES ASSUME Logged, [CustodyNext]_custodyVars PROVE Logged'
    OBVIOUS
  <2>1. ASSUME NEW type \in HandoffTypes, RecordHandoff(type) PROVE Logged'
    BY <2>1, AppendProperties DEF RecordHandoff
  <2>2. CASE ClearCustodyLog
    BY <2>2 DEF ClearCustodyLog
  <2>3. CASE UNCHANGED custodyLog
    BY <2>3
  <2>. QED BY <2>1, <2>2, <2>3 DEF CustodyNext, SetMaxEntries, custodyVars
<1>3. Logged => ChainVerdictExact
  <2>. SUFFICES ASSUME Logged PROVE ChainVerdictExact
    OBVIOUS
  <2>. DEFINE n == Len(custodyLog)
  <2>1. n \in Nat
    BY LenProperties
  <2>2. ASSUME NEW i \in 1 .. n
        PROVE  ReceiptFor(custodyLog, i, n) <=>
                 \E j \in (i + 1) .. n : /\ custodyLog[j] = "Received"
                                         /\ \A k \in (i + 1) .. (j - 1) : custodyLog[k] # "Transferred"
    <3>1. \A j : j \in 1 .. n /\ i < j <=> j \in (i + 1) .. n
      BY <2>1
    <3>2. \A j \in 1 .. n : \A k : k \in 1 .. n /\ i < k /\ k < j <=> k \in (i + 1) .. (j - 1)
      BY <2>1
    <3>. HIDE DEF n
    <3>. QED BY <3>1, <3>2 DEF ReceiptFor
  <2>3. AllMet(custodyLog, n) <=> \A i \in 1 .. n : custodyLog[i] = "Transferred" =>
           \E j \in (i + 1) .. n : /\ custodyLog[j] = "Received"
                                   /\ \A k \in (i + 1) .. (j - 1) : custodyLog[k] # "Transferred"
    BY <2>2 DEF AllMet
  <2>4. VerifyCustodyChain(custodyLog) <=> AllMet(custodyLog, n)
    BY VerdictOnAnyLog
  <2>. QED BY <2>3, <2>4 DEF ChainVerdictExact
<1>. QED BY <1>1, <1>2, <1>3, PTL DEF CustodySpec

-----------------------------------------------------------------------------
(* The standing order: its counter is the number of its runs, and its next run
   is due an interval after the last. *)
OrderInv ==
    /\ day \in Nat /\ lastRun \in Seq(Nat)
    /\ order = NoOrder => lastRun = <<>>
    /\ order # NoOrder =>
          /\ order \in StandingOrders
          /\ Len(lastRun) = order.runs /\ order.runs <= order.times
          /\ lastRun # <<>> => order.next = lastRun[Len(lastRun)] + order.every
          /\ \A i \in 2..Len(lastRun) : lastRun[i] >= lastRun[i - 1] + order.every

LEMMA OrderCreated ==
    ASSUME OrderInv, NEW b \in Buyers, NEW every \in Intervals, NEW times \in 1..MaxOccurrences,
           CreateStandingOrder(b, every, times)
    PROVE  OrderInv'
  <1> DEFINE new == [buyer |-> b, every |-> every, times |-> times, runs |-> 0,
                     next |-> day, cancelled |-> FALSE]
  <1>1. order' = new /\ UNCHANGED <<day, lastRun>> /\ lastRun = <<>> /\ day \in Nat
    BY DEF CreateStandingOrder, OrderInv
  <1>2. new \in StandingOrders /\ new.runs = 0 /\ new.times = times
    BY <1>1 DEF StandingOrders
  <1>3. Len(<<>>) = 0 /\ <<>> \in Seq(Nat) /\ times \in Nat /\ 0 <= times /\ 2..0 = {}
    BY TreasuryAssumption
  <1> HIDE DEF new
  <1> QED
    BY <1>1, <1>2, <1>3 DEF OrderInv

LEMMA OrderExecuted ==
    ASSUME OrderInv, ExecuteStandingOrder
    PROVE  OrderInv'
  <1>1. /\ order # NoOrder /\ order.runs < order.times /\ day >= order.next
        /\ order' = [order EXCEPT !.runs = @ + 1, !.next = day + order.every]
        /\ lastRun' = Append(lastRun, day) /\ day' = day
    BY DEF ExecuteStandingOrder, OrderAfterRun, Enter
  <1>2. /\ day \in Nat /\ lastRun \in Seq(Nat) /\ order \in StandingOrders
        /\ Len(lastRun) = order.runs
        /\ lastRun # <<>> => order.next = lastRun[Len(lastRun)] + order.every
        /\ \A i \in 2..Len(lastRun) : lastRun[i] >= lastRun[i - 1] + order.every
    BY <1>1 DEF OrderInv
  <1>3. /\ order.every \in Nat /\ order.runs \in Nat /\ order.next \in Nat /\ order.times \in Nat
    <2>1. /\ order.every \in Intervals /\ order.runs \in Nat /\ order.next \in Nat
          /\ order.times \in 1..MaxOccurrences
      BY <1>2 DEF StandingOrders
    <2>2. MaxOccurrences \in Nat /\ Intervals \subseteq Nat
      BY TreasuryAssumption
    <2>3. order.every \in Nat
      BY <2>1, <2>2
    <2>4. order.times \in Nat
      <3> DEFINE last == MaxOccurrences
                 t == order.times
      <3>1. t \in 1..last /\ last \in Nat
        BY <2>1, <2>2
      <3> HIDE DEF t, last
      <3>2. t \in Nat
        BY <3>1
      <3> QED
        BY <3>2 DEF t
    <2> QED
      BY <2>1, <2>3, <2>4
  <1>4. /\ order' \in StandingOrders /\ order'.runs = order.runs + 1 /\ order'.times = order.times
        /\ order'.every = order.every /\ order'.next = day + order.every
    <2>1. order.runs + 1 \in Nat /\ day + order.every \in Nat
      BY <1>2, <1>3
    <2> QED
      BY <1>1, <1>2, <2>1 DEF StandingOrders
  <1>5. /\ lastRun' \in Seq(Nat) /\ Len(lastRun') = Len(lastRun) + 1 /\ lastRun'[Len(lastRun')] = day
        /\ \A i \in 1..Len(lastRun) : lastRun'[i] = lastRun[i] /\ lastRun[i] \in Nat
        /\ Len(lastRun) \in Nat
    BY <1>1, <1>2
  <1>6. ASSUME NEW i \in 2..Len(lastRun')
        PROVE  lastRun'[i] >= lastRun'[i - 1] + order'.every
    <2>1. CASE i <= Len(lastRun)
      <3>1. i \in 2..Len(lastRun) /\ i \in 1..Len(lastRun) /\ i - 1 \in 1..Len(lastRun)
        BY <1>5, <2>1
      <3> QED
        BY <1>2, <1>4, <1>5, <3>1
    <2>2. CASE i = Len(lastRun) + 1
      <3>1. i - 1 = Len(lastRun) /\ Len(lastRun) \in 1..Len(lastRun) /\ lastRun # <<>>
        BY <1>5, <2>2
      <3>2. order.next = lastRun[Len(lastRun)] + order.every
        BY <1>2, <3>1
      <3> QED
        BY <1>1, <1>4, <1>5, <2>2, <3>1, <3>2
    <2> QED
      BY <1>5, <2>1, <2>2
  <1>7. order' # NoOrder
    BY <1>4, TreasuryAssumption
  <1>8. order'.next = lastRun'[Len(lastRun')] + order'.every
    BY <1>4, <1>5
  <1>9. Len(lastRun') = order'.runs /\ order'.runs <= order'.times /\ day' \in Nat
    BY <1>1, <1>2, <1>3, <1>4, <1>5
  <1> QED
    BY <1>4, <1>5, <1>6, <1>7, <1>8, <1>9 DEF OrderInv

LEMMA OrderCancelled ==
    ASSUME OrderInv, NEW b \in Buyers, CancelStandingOrder(b)
    PROVE  OrderInv'
  <1>1. /\ order # NoOrder /\ order' = [order EXCEPT !.cancelled = TRUE]
        /\ UNCHANGED <<day, lastRun>>
    BY DEF CancelStandingOrder
  <1>2. order \in StandingOrders
    BY <1>1 DEF OrderInv
  <1>3. order' \in StandingOrders /\ order'.runs = order.runs /\ order'.times = order.times
        /\ order'.every = order.every /\ order'.next = order.next
    BY <1>1, <1>2 DEF StandingOrders
  <1>4. order' # NoOrder
    BY <1>3, TreasuryAssumption
  <1> QED
    BY <1>1, <1>3, <1>4 DEF OrderInv

(* Every other step of the treasury leaves the standing order alone. *)
LEMMA OrderUntouched ==
    ASSUME EscrowNext \/ OrderNext
    PROVE  \/ UNCHANGED <<day, order, lastRun>>
           \/ NextDay \/ ExecuteStandingOrder
           \/ \E b \in Buyers : \/ CancelStandingOrder(b)
                                \/ \E every \in Intervals, times \in 1..MaxOccurrences :
                                      CreateStandingOrder(b, every, times)
  <1> DEFINE Same == UNCHANGED <<day, order, lastRun>>
  <1>1. ASSUME NEW b, NEW n, VaultDeposit(b, n) \/ VaultWithdraw(b, n)
        PROVE  Same
    BY <1>1 DEF VaultDeposit, VaultWithdraw
  <1>2. ASSUME NEW b, NEW f, NEW n, CreateShipment(b, f, n) \/ CreateWithAllowance(b, Buyers, f, n)
        PROVE  Same
    BY <1>2 DEF CreateShipment, CreateWithAllowance, Enter
  <1>3. ASSUME NEW s, NEW b, SetRefundRecipient(s, b) \/ TopUpCollateral(s, b) \/ SetIncrementalCollateral(s, b)
        PROVE  Same
    BY <1>3 DEF SetRefundRecipient, TopUpCollateral, SetIncrementalCollateral
  <1>4. ASSUME NEW s, NEW m, \/ SlashCollateralForMiss(s, m) \/ ConfirmMilestone(s, m)
                             \/ ReleaseMilestone(s, m) \/ RuleForSupplier(s, m)
        PROVE  Same
    BY <1>4 DEF SlashCollateralForMiss, ConfirmMilestone, ReleaseMilestone, RuleForSupplier, PaySupplier
  <1>5. ASSUME NEW s, \/ CancelShipment(s) \/ CancelForBlacklistedSupplier(s) \/ SupplierCancel(s)
                      \/ ClaimDeadlineRefund(s) \/ SweepUnclaimedRefund(s) \/ RecoverEscrow(s)
        PROVE  Same
    BY <1>5 DEF CancelShipment, CancelForBlacklistedSupplier, CloseForBuyer, Close, CloseOutwards,
           SupplierCancel, ClaimDeadlineRefund, SweepUnclaimedRefund, RecoverEscrow
  <1>6. WithdrawDust => Same
    BY DEF WithdrawDust
  <1> HIDE DEF Same
  <1>7. CASE EscrowNext
    <2>1. Same
      BY <1>1, <1>2, <1>3, <1>4, <1>5, <1>6, <1>7, Zenon DEF EscrowNext
    <2> QED
      BY <2>1 DEF Same
  <1>8. CASE OrderNext
    <2>1. \/ NextDay \/ ExecuteStandingOrder
          \/ \E b \in Buyers : \/ CancelStandingOrder(b)
                               \/ \E every \in Intervals, times \in 1..MaxOccurrences :
                                     CreateStandingOrder(b, every, times)
          \/ Same
      BY <1>1, <1>5, <1>8, Zenon DEF OrderNext
    <2> QED
      BY <2>1 DEF Same
  <1> QED
    BY <1>7, <1>8

(* The standing order's invariant holds throughout. *)
LEMMA OrderKept == TreasurySpec => []OrderInv
  <1>1. TreasuryInit => OrderInv
    <2> SUFFICES ASSUME TreasuryInit PROVE OrderInv
      OBVIOUS
    <2>1. day = 0 /\ lastRun = <<>> /\ order = NoOrder
      BY DEF TreasuryInit
    <2> QED
      BY <2>1 DEF OrderInv
  <1>2. OrderInv /\ [TreasuryNext]_trVars => OrderInv'
    <2> SUFFICES ASSUME OrderInv, [TreasuryNext]_trVars PROVE OrderInv'
      OBVIOUS
    <2>1. CASE UNCHANGED <<day, order, lastRun>>
      BY <2>1 DEF OrderInv
    <2>2. CASE NextDay
      <3>1. day' = day + 1 /\ UNCHANGED <<order, lastRun>>
        BY <2>2 DEF NextDay
      <3> QED
        BY <3>1 DEF OrderInv
    <2>3. CASE ExecuteStandingOrder
      BY <2>3, OrderExecuted
    <2>4. CASE \E b \in Buyers : \/ CancelStandingOrder(b)
                                 \/ \E every \in Intervals, times \in 1..MaxOccurrences :
                                       CreateStandingOrder(b, every, times)
      BY <2>4, OrderCancelled, OrderCreated
    <2>5. CASE UNCHANGED trVars
      BY <2>1, <2>5 DEF trVars
    <2> QED
      BY <2>1, <2>2, <2>3, <2>4, <2>5, OrderUntouched DEF TreasuryNext
  <1> QED
    BY <1>1, <1>2, PTL DEF TreasurySpec

(* A standing order runs at most as often as agreed and any two runs are an
   interval apart, whoever executes it and whenever. *)
THEOREM OrderAlwaysPaced == TreasurySpec => []OrderPaced
  <1>1. OrderInv => OrderPaced
    BY DEF OrderInv, OrderPaced
  <1> QED
    BY <1>1, OrderKept, PTL

-----------------------------------------------------------------------------
(* What is stored of an offer is backed by consents given to it: each flag by
   one of that side, the proposer of a pause or a later expiry by its own and
   nobody else's. *)
Flagged == {"rotation", "amendment", "mediation"}
FlaggedOffers == [terms : Terms, buyer : BOOLEAN, supplier : BOOLEAN]

WhoOf(C) == {c.who : c \in C}
HasSide(C, side) == \E c \in C : c.side = side
FlagsMeant(p, C) == (p.buyer => HasSide(C, "buyer")) /\ (p.supplier => HasSide(C, "supplier"))

OfferBacked(k, p, C) ==
    /\ k \in Flagged => p \in FlaggedOffers /\ FlagsMeant(p, C)
    /\ k = "extension" => HasSide(C, "supplier")
    /\ k = "substitute" => HasSide(C, "buyer")
    /\ k \in {"pause", "expiry"} => WhoOf(C) = {p.by}

(* A pause is asked for while the shipment runs, a resumption while it is
   paused, so neither counts as a consent to the other. *)
PauseMeant == offer["pause"] # NoOffer =>
                  offer["pause"].terms = IF pausedAt = NoTerms THEN "pause" ELSE "resume"

ConsentInv ==
    /\ offer = [k \in AllKinds |-> offer[k]] /\ given = [k \in AllKinds |-> given[k]]
    /\ \A k \in AllKinds : offer[k] # NoOffer => OfferBacked(k, offer[k], given[k])

(* What an effect needs behind it, by its kind. *)
BothOf(C) ==
    (\A a \in WhoOf(C) : IsParty(a)) => supplier \in WhoOf(C) /\ \E a \in WhoOf(C) : IsBuyer(a)

Sufficient(k, C) ==
    /\ k \in Flagged \cup {"extension"} => HasSide(C, "buyer") /\ HasSide(C, "supplier")
    /\ k = "substitute" => HasSide(C, "buyer") /\ HasSide(C, "arbiter")
    /\ k = "expiry" \/ (k = "pause" /\ OneBuyer) => BothOf(C)

LEMMA ConsentOffered ==
    ASSUME ConsentInv, NEW k \in AllKinds, NEW p, NEW C, Offer(k, p, C), OfferBacked(k, p, C)
    PROVE  ConsentInv' /\ BothSidesAgree'
  <1>1. /\ offer' = [offer EXCEPT ![k] = p] /\ given' = [given EXCEPT ![k] = C]
        /\ effect' = NoEffect
    BY DEF Offer
  <1>2. BothSidesAgree'
    BY <1>1 DEF BothSidesAgree
  <1>3. /\ offer' = [j \in AllKinds |-> IF j = k THEN p ELSE offer[j]]
        /\ given' = [j \in AllKinds |-> IF j = k THEN C ELSE given[j]]
    BY <1>1 DEF ConsentInv
  <1> QED
    BY <1>2, <1>3 DEF ConsentInv

LEMMA ConsentStored ==
    ASSUME ConsentInv, NEW k \in AllKinds, NEW p, NEW C, Store(k, p, C),
           OfferBacked(k, p, Counted(k, p.terms) \cup C)
    PROVE  ConsentInv' /\ BothSidesAgree'
  <1> DEFINE all == Counted(k, p.terms) \cup C
  <1>1. Offer(k, p, all) /\ OfferBacked(k, p, all)
    BY DEF Store
  <1> HIDE DEF all
  <1> QED
    BY <1>1, ConsentOffered

LEMMA ConsentDropped ==
    ASSUME ConsentInv, NEW k \in AllKinds, Drop(k)
    PROVE  ConsentInv' /\ BothSidesAgree'
  <1>1. /\ offer' = [offer EXCEPT ![k] = NoOffer] /\ given' = [given EXCEPT ![k] = {}]
        /\ effect' = NoEffect
    BY DEF Drop
  <1>2. BothSidesAgree'
    BY <1>1 DEF BothSidesAgree
  <1>3. /\ offer' = [j \in AllKinds |-> IF j = k THEN NoOffer ELSE offer[j]]
        /\ given' = [j \in AllKinds |-> IF j = k THEN {} ELSE given[j]]
    BY <1>1 DEF ConsentInv
  <1> QED
    BY <1>2, <1>3 DEF ConsentInv

LEMMA ConsentApplied ==
    ASSUME ConsentInv, NEW k \in AllKinds, NEW terms, NEW C, Apply(k, terms, C),
           UNCHANGED partyVars, Sufficient(k, Counted(k, terms) \cup C)
    PROVE  ConsentInv' /\ BothSidesAgree'
  <1> DEFINE all == Counted(k, terms) \cup C
  <1>1. /\ offer' = [offer EXCEPT ![k] = NoOffer] /\ given' = [given EXCEPT ![k] = {}]
        /\ effect' = [kind |-> k, terms |-> terms, consents |-> all]
    BY DEF Apply
  <1>2. Sufficient(k, all)
    OBVIOUS
  <1> HIDE DEF all
  <1>3. ConsentInv'
    <2>1. /\ offer' = [j \in AllKinds |-> IF j = k THEN NoOffer ELSE offer[j]]
          /\ given' = [j \in AllKinds |-> IF j = k THEN {} ELSE given[j]]
      BY <1>1 DEF ConsentInv
    <2> QED
      BY <2>1 DEF ConsentInv
  <1>4. BothSidesAgree'
    <2>1. /\ effect'.kind = k /\ Agreed' = {c.side : c \in all} /\ Givers' = WhoOf(all)
          /\ buyers' = buyers /\ supplier' = supplier
      BY <1>1 DEF Agreed, Givers, WhoOf, partyVars
    <2>2. (BothOf(all) => BothSidesNow') /\ (OneBuyer' = OneBuyer)
      <3>1. \A a : IsParty(a)' = IsParty(a) /\ IsBuyer(a)' = IsBuyer(a)
        BY <2>1 DEF IsParty, IsBuyer
      <3>2. BothOf(all) => BothSidesNow'
        BY <2>1, <3>1 DEF BothOf, BothSidesNow
      <3>3. OneBuyer' = OneBuyer
        BY <2>1 DEF OneBuyer
      <3> QED
        BY <3>2, <3>3
    <2>3. k = "substitute" => {"buyer", "arbiter"} \subseteq Agreed'
      BY <1>2, <2>1 DEF Sufficient, HasSide
    <2>4. k \notin {"substitute", "expiry", "pause"} => {"buyer", "supplier"} \subseteq Agreed'
      BY <1>2, <2>1 DEF Sufficient, HasSide, AllKinds, Timed, Flagged
    <2>5. (k = "expiry" => BothSidesNow') /\ (k = "pause" /\ OneBuyer' => BothSidesNow')
      BY <1>2, <2>2 DEF Sufficient
    <2> QED
      BY <2>1, <2>3, <2>4, <2>5 DEF BothSidesAgree
  <1> QED
    BY <1>3, <1>4

(* The consents one call gives: of the side the caller is on, or of both. *)
LEMMA ConsentsOfOneCall ==
    ASSUME NEW a, IsParty(a)
    PROVE  /\ IsBuyer(a) => HasSide(OneHat(a), "buyer")
           /\ ~IsBuyer(a) => HasSide(OneHat(a), "supplier")
           /\ WhoOf(BothHats(a)) = {a}
  <1>1. /\ IsBuyer(a) => HasSide(OneHat(a), "buyer")
        /\ ~IsBuyer(a) => HasSide(OneHat(a), "supplier")
    BY DEF OneHat, HasSide, Consent
  <1>2. WhoOf(BothHats(a)) = {a}
    <2> DEFINE on == {x \in {"buyer", "supplier"} :
                         (x = "buyer" /\ IsBuyer(a)) \/ (x = "supplier" /\ a = supplier)}
    <2>1. BothHats(a) = {Consent(a, s) : s \in on}
      BY DEF BothHats
    <2>2. \E s \in {"buyer", "supplier"} : s \in on
      BY DEF IsParty
    <2>3. \A s : Consent(a, s).who = a
      BY DEF Consent
    <2> HIDE DEF on
    <2> QED
      BY <2>1, <2>2, <2>3 DEF WhoOf
  <1> QED
    BY <1>1, <1>2

(* A consent can only be added to what was consented to. *)
LEMMA SidesAdd ==
    ASSUME NEW C, NEW D, NEW side
    PROVE  /\ HasSide(C, side) => HasSide(C \cup D, side)
           /\ HasSide(D, side) => HasSide(C \cup D, side)
  BY DEF HasSide

(* The stored offer with the caller's side flagged is backed by the consents
   counted for its terms and the caller's. *)
LEMMA RenewedBacked ==
    ASSUME ConsentInv, NEW k \in Flagged, NEW a, IsParty(a), NEW terms \in Terms
    PROVE  LET p == FlagOne(Renewed(k, terms), a)
           IN  OfferBacked(k, p, Counted(k, p.terms) \cup OneHat(a)) /\ p.terms = terms
  <1> DEFINE old == Renewed(k, terms)
             p == FlagOne(old, a)
             C == Counted(k, terms)
  <1>1. old \in FlaggedOffers /\ old.terms = terms /\ FlagsMeant(old, C)
    <2>1. CASE offer[k] # NoOffer /\ offer[k].terms = terms
      <3>1. OfferBacked(k, offer[k], given[k]) /\ old = offer[k] /\ C = given[k]
        BY <2>1 DEF ConsentInv, Renewed, Counted, Flagged, AllKinds
      <3> QED
        BY <2>1, <3>1 DEF OfferBacked
    <2>2. CASE ~(offer[k] # NoOffer /\ offer[k].terms = terms)
      <3>1. old = Blank(terms)
        BY <2>2 DEF Renewed
      <3> QED
        BY <3>1 DEF Blank, FlaggedOffers, FlagsMeant
    <2> QED
      BY <2>1, <2>2
  <1> HIDE DEF old, C
  <1>2. /\ p \in FlaggedOffers /\ p.terms = terms
        /\ p.buyer => old.buyer \/ IsBuyer(a)
        /\ p.supplier => old.supplier \/ ~IsBuyer(a)
    BY <1>1 DEF FlagOne, FlaggedOffers
  <1> HIDE DEF p
  <1>3. FlagsMeant(p, C \cup OneHat(a))
    BY <1>1, <1>2, SidesAdd, ConsentsOfOneCall DEF FlagsMeant
  <1>4. OfferBacked(k, p, C \cup OneHat(a))
    BY <1>2, <1>3 DEF OfferBacked, Flagged
  <1> QED
    BY <1>2, <1>4 DEF p, old, C

(* An agreement of another kind leaves the offer of a pause alone. *)
LEMMA PauseApart ==
    ASSUME ConsentInv, PauseMeant, NEW k \in AllKinds, k # "pause", pausedAt' = pausedAt,
           \E q : offer' = [offer EXCEPT ![k] = q]
    PROVE  PauseMeant'
  <1>1. offer'["pause"] = offer["pause"]
    BY DEF ConsentInv
  <1> QED
    BY <1>1 DEF PauseMeant

LEMMA ProposedMatched ==
    ASSUME ConsentInv, PauseMeant, NEW k \in Flagged, NEW a, NEW terms \in Terms,
           ProposeMatched(k, a, terms)
    PROVE  ConsentInv' /\ PauseMeant' /\ BothSidesAgree'
  <1> DEFINE p == FlagOne(Renewed(k, terms), a)
  <1>1. /\ IsParty(a)
        /\ IF p.buyer /\ p.supplier THEN Apply(k, terms, OneHat(a)) ELSE Store(k, p, OneHat(a))
        /\ UNCHANGED timeVars /\ UNCHANGED partyVars
    BY DEF ProposeMatched
  <1>2. OfferBacked(k, p, Counted(k, p.terms) \cup OneHat(a)) /\ p.terms = terms
    BY <1>1, RenewedBacked
  <1> HIDE DEF p
  <1>3. k \in AllKinds /\ k # "pause"
    BY DEF AllKinds, Flagged
  <1>4. ConsentInv' /\ BothSidesAgree'
    <2>1. CASE p.buyer /\ p.supplier
      <3>1. Sufficient(k, Counted(k, terms) \cup OneHat(a))
        BY <1>2, <2>1 DEF Sufficient, OfferBacked, FlagsMeant, Flagged
      <3> QED
        BY <1>1, <1>3, <2>1, <3>1, ConsentApplied
    <2>2. CASE ~(p.buyer /\ p.supplier)
      BY <1>1, <1>2, <1>3, <2>2, ConsentStored
    <2> QED
      BY <2>1, <2>2
  <1>5. PauseMeant'
    <2>1. pausedAt' = pausedAt /\ \E q : offer' = [offer EXCEPT ![k] = q]
      BY <1>1 DEF Apply, Store, Offer, timeVars
    <2> QED
      BY <1>3, <2>1, PauseApart
  <1> QED
    BY <1>4, <1>5

LEMMA MatchedForgotten ==
    ASSUME ConsentInv, PauseMeant, NEW k \in AllKinds, k # "pause", Drop(k), pausedAt' = pausedAt
    PROVE  ConsentInv' /\ PauseMeant' /\ BothSidesAgree'
  <1>1. \E q : offer' = [offer EXCEPT ![k] = q]
    BY DEF Drop
  <1> QED
    BY <1>1, PauseApart, ConsentDropped

(* Mediation: a suggestion comes without consents, each acceptance is one. *)
LEMMA MediationProposed ==
    ASSUME ConsentInv, PauseMeant, NEW terms \in Terms, ProposeMediation(terms)
    PROVE  ConsentInv' /\ PauseMeant' /\ BothSidesAgree'
  <1> DEFINE p == Blank(terms)
  <1>1. Offer("mediation", p, {}) /\ pausedAt' = pausedAt
    BY DEF ProposeMediation, timeVars
  <1>2. p \in FlaggedOffers /\ ~p.buyer /\ ~p.supplier
    BY DEF Blank, FlaggedOffers
  <1> HIDE DEF p
  <1>3. "mediation" \in AllKinds /\ OfferBacked("mediation", p, {})
    BY <1>2 DEF OfferBacked, FlagsMeant, Flagged, AllKinds
  <1>4. \E q : offer' = [offer EXCEPT !["mediation"] = q]
    BY <1>1 DEF Offer
  <1> QED
    BY <1>1, <1>3, <1>4, ConsentOffered, PauseApart

LEMMA MediationAccepted ==
    ASSUME ConsentInv, PauseMeant, NEW a, AcceptMediation(a)
    PROVE  ConsentInv' /\ PauseMeant' /\ BothSidesAgree'
  <1> DEFINE k == "mediation"
             old == offer[k]
             p == FlagOne(old, a)
             C == Counted(k, old.terms)
  <1>1. /\ IsParty(a) /\ old # NoOffer /\ pausedAt' = pausedAt /\ UNCHANGED partyVars
        /\ IF p.buyer /\ p.supplier THEN Apply(k, old.terms, OneHat(a)) ELSE Store(k, p, OneHat(a))
    BY DEF AcceptMediation, timeVars
  <1>2. k \in AllKinds /\ k # "pause" /\ k \in Flagged
    BY DEF AllKinds, Flagged
  <1> HIDE DEF k
  <1>3. old \in FlaggedOffers /\ FlagsMeant(old, C)
    <2>1. OfferBacked(k, old, given[k]) /\ C = given[k]
      BY <1>1, <1>2 DEF ConsentInv, Counted
    <2> QED
      BY <1>2, <2>1 DEF OfferBacked
  <1> HIDE DEF old
  <1>4. /\ p \in FlaggedOffers /\ p.terms = old.terms
        /\ p.buyer => old.buyer \/ IsBuyer(a)
        /\ p.supplier => old.supplier \/ ~IsBuyer(a)
    BY <1>3 DEF FlagOne, FlaggedOffers
  <1> HIDE DEF C, p
  <1>5. FlagsMeant(p, C \cup OneHat(a))
    BY <1>1, <1>3, <1>4, SidesAdd, ConsentsOfOneCall DEF FlagsMeant
  <1>6. C = Counted(k, old.terms)
    BY DEF C
  <1>7. ConsentInv' /\ BothSidesAgree'
    <2>1. CASE p.buyer /\ p.supplier
      <3>1. Sufficient(k, C \cup OneHat(a))
        BY <1>2, <1>5, <2>1 DEF Sufficient, FlagsMeant, Flagged
      <3> QED
        BY <1>1, <1>2, <1>6, <2>1, <3>1, ConsentApplied
    <2>2. CASE ~(p.buyer /\ p.supplier)
      <3>1. OfferBacked(k, p, C \cup OneHat(a))
        BY <1>2, <1>4, <1>5 DEF OfferBacked, Flagged
      <3> QED
        BY <1>1, <1>2, <1>4, <1>6, <2>2, <3>1, ConsentStored
    <2> QED
      BY <2>1, <2>2
  <1>8. \E q : offer' = [offer EXCEPT ![k] = q]
    BY <1>1 DEF Store, Offer, Apply
  <1> QED
    BY <1>1, <1>2, <1>7, <1>8, PauseApart

LEMMA SomeSide ==
    ASSUME NEW C, NEW a, NEW side
    PROVE  HasSide(C \cup {Consent(a, side)}, side)
  <1>1. Consent(a, side).side = side /\ Consent(a, side) \in C \cup {Consent(a, side)}
    BY DEF Consent
  <1> QED
    BY <1>1 DEF HasSide

(* Kinds whose offer is one side's, so that the other side's call is the second
   consent: the extension and the substitute supplier. *)
LEMMA OneSidedOffered ==
    ASSUME ConsentInv, PauseMeant, pausedAt' = pausedAt,
           NEW k \in {"extension", "substitute"}, NEW p, NEW a, NEW side,
           side = IF k = "extension" THEN "supplier" ELSE "buyer",
           Offer(k, p, {Consent(a, side)})
    PROVE  ConsentInv' /\ PauseMeant' /\ BothSidesAgree'
  <1> DEFINE all == {Consent(a, side)}
  <1>1. HasSide(all, side)
    BY DEF HasSide, Consent
  <1>2. k \in AllKinds /\ k # "pause"
    BY DEF AllKinds, Timed
  <1>3. Offer(k, p, all)
    OBVIOUS
  <1> HIDE DEF all
  <1>4. OfferBacked(k, p, all)
    BY <1>1 DEF OfferBacked, Flagged
  <1>5. \E q : offer' = [offer EXCEPT ![k] = q]
    BY <1>3 DEF Offer
  <1> QED
    BY <1>2, <1>3, <1>4, <1>5, ConsentOffered, PauseApart

LEMMA OneSidedApplied ==
    ASSUME ConsentInv, PauseMeant, pausedAt' = pausedAt, UNCHANGED partyVars,
           NEW k \in {"extension", "substitute"}, NEW a, NEW side,
           side = IF k = "extension" THEN "buyer" ELSE "arbiter",
           offer[k] # NoOffer, Apply(k, offer[k].terms, {Consent(a, side)})
    PROVE  ConsentInv' /\ PauseMeant' /\ BothSidesAgree'
  <1> DEFINE C == Counted(k, offer[k].terms)
             all == C \cup {Consent(a, side)}
             first == IF k = "extension" THEN "supplier" ELSE "buyer"
  <1>1. HasSide(all, side)
    BY SomeSide
  <1>2. k \in AllKinds /\ k # "pause"
    BY DEF AllKinds, Timed
  <1>3. HasSide(C, first)
    <2>1. OfferBacked(k, offer[k], given[k]) /\ C = given[k]
      BY <1>2 DEF ConsentInv, Counted
    <2> QED
      BY <2>1 DEF OfferBacked
  <1>4. HasSide(all, first)
    BY <1>3, SidesAdd
  <1> HIDE DEF all
  <1>5. Sufficient(k, all)
    BY <1>1, <1>4 DEF Sufficient, Flagged
  <1>6. Sufficient(k, Counted(k, offer[k].terms) \cup {Consent(a, side)})
    BY <1>5 DEF all
  <1>7. \E q : offer' = [offer EXCEPT ![k] = q]
    BY DEF Apply
  <1> QED
    BY <1>1, <1>2, <1>6, <1>7, ConsentApplied, PauseApart

LEMMA ExtensionKeeps ==
    ASSUME ConsentInv, PauseMeant, ExtensionStep
    PROVE  ConsentInv' /\ PauseMeant' /\ BothSidesAgree'
  <1>1. CASE \E extra \in Steps : RequestExtension(extra)
    <2>1. PICK extra \in Steps : RequestExtension(extra)
      BY <1>1
    <2>2. Offer("extension", [terms |-> extra], {Consent(supplier, "supplier")}) /\ pausedAt' = pausedAt
      BY <2>1 DEF RequestExtension, timeVars
    <2> QED
      BY <2>2, OneSidedOffered
  <1>2. CASE \E a \in People : ApproveExtension(a)
    <2>1. PICK a \in People : ApproveExtension(a)
      BY <1>2
    <2>2. /\ offer["extension"] # NoOffer /\ pausedAt' = pausedAt /\ UNCHANGED partyVars
          /\ Apply("extension", offer["extension"].terms, {Consent(a, "buyer")})
      BY <2>1 DEF ApproveExtension
    <2> QED
      BY <2>2, OneSidedApplied
  <1>3. CASE \E a \in People : DenyExtension(a)
    <2>1. Drop("extension") /\ pausedAt' = pausedAt /\ "extension" \in AllKinds
      BY <1>3 DEF DenyExtension, timeVars, AllKinds, Timed
    <2> QED
      BY <2>1, MatchedForgotten
  <1> QED
    BY <1>1, <1>2, <1>3 DEF ExtensionStep

LEMMA SubstituteKeeps ==
    ASSUME ConsentInv, PauseMeant, SubstituteStep
    PROVE  ConsentInv' /\ PauseMeant' /\ BothSidesAgree'
  <1>1. CASE \E a, successor \in People : ProposeSubstitute(a, successor)
    <2>1. PICK a \in People, successor \in People : ProposeSubstitute(a, successor)
      BY <1>1
    <2>2. Offer("substitute", [terms |-> successor], {Consent(a, "buyer")}) /\ pausedAt' = pausedAt
      BY <2>1 DEF ProposeSubstitute, timeVars
    <2> QED
      BY <2>2, OneSidedOffered
  <1>2. CASE ApproveSubstitute
    <2>1. /\ offer["substitute"] # NoOffer /\ pausedAt' = pausedAt /\ UNCHANGED partyVars
          /\ Apply("substitute", offer["substitute"].terms, {Consent(Arbiter, "arbiter")})
      BY <1>2 DEF ApproveSubstitute, timeVars
    <2> QED
      BY <2>1, OneSidedApplied
  <1> QED
    BY <1>1, <1>2 DEF SubstituteStep

(* Pauses and later expiries: the proposer's consents are stored and another
   party's call adds its own. *)
LEMMA ProposerOffered ==
    ASSUME ConsentInv, NEW k \in {"pause", "expiry"}, NEW a, IsParty(a), NEW p, p.by = a,
           Offer(k, p, BothHats(a))
    PROVE  ConsentInv' /\ BothSidesAgree'
  <1>1. WhoOf(BothHats(a)) = {p.by}
    BY ConsentsOfOneCall
  <1>2. OfferBacked(k, p, BothHats(a)) /\ k \in AllKinds
    BY <1>1 DEF OfferBacked, Flagged, AllKinds, Timed
  <1> QED
    BY <1>2, ConsentOffered

(* Two different parties are both sides when one of them is the supplier and
   the other is not, or when there is but one buyer. *)
LEMMA AnotherApplied ==
    ASSUME ConsentInv, NEW k \in {"pause", "expiry"}, NEW a, IsParty(a),
           offer[k] # NoOffer, offer[k].by # a, NEW terms, terms = offer[k].terms,
           Apply(k, terms, BothHats(a)), UNCHANGED partyVars,
           k = "expiry" => IF offer[k].by = supplier THEN IsBuyer(a) ELSE a = supplier
    PROVE  ConsentInv' /\ BothSidesAgree'
  <1> DEFINE all == Counted(k, terms) \cup BothHats(a)
             b == offer[k].by
  <1>1. k \in AllKinds
    BY DEF AllKinds, Timed
  <1>2. Counted(k, terms) = given[k] /\ WhoOf(given[k]) = {b}
    BY <1>1 DEF ConsentInv, OfferBacked, Counted
  <1>3. WhoOf(all) = {a, b}
    <2>1. WhoOf(all) = WhoOf(given[k]) \cup WhoOf(BothHats(a))
      BY <1>2 DEF WhoOf
    <2>2. WhoOf(BothHats(a)) = {a}
      BY ConsentsOfOneCall
    <2> HIDE DEF all, b
    <2> QED
      BY <1>2, <2>1, <2>2
  <1> HIDE DEF all
  <1>4. k = "expiry" => BothOf(all)
    BY <1>3 DEF BothOf, IsParty
  <1>5. k = "pause" /\ OneBuyer => BothOf(all)
    BY <1>3 DEF BothOf, IsParty, IsBuyer, OneBuyer
  <1>6. Sufficient(k, all)
    BY <1>4, <1>5 DEF Sufficient, Flagged
  <1>7. Sufficient(k, Counted(k, terms) \cup BothHats(a))
    BY <1>6 DEF all
  <1> QED
    BY <1>1, <1>7, ConsentApplied

LEMMA PauseKeeps ==
    ASSUME ConsentInv, PauseMeant, PauseStep
    PROVE  ConsentInv' /\ PauseMeant' /\ BothSidesAgree'
  <1> DEFINE o == offer["pause"]
  <1>1. DOMAIN offer = AllKinds /\ "pause" \in AllKinds
    BY DEF ConsentInv, AllKinds, Timed
  <1>2. CASE \E a \in People : RequestPause(a)
    <2>1. PICK a \in People : RequestPause(a)
      BY <1>2
    <2> DEFINE p == [by |-> a, terms |-> "pause"]
    <2>2. /\ IsParty(a) /\ Offer("pause", p, BothHats(a)) /\ pausedAt = NoTerms /\ pausedAt' = pausedAt
          /\ p.by = a /\ p.terms = "pause"
      BY <2>1 DEF RequestPause, timeVars
    <2> HIDE DEF p
    <2>3. offer'["pause"] = p
      BY <1>1, <2>2 DEF Offer
    <2>4. PauseMeant'
      BY <2>2, <2>3 DEF PauseMeant
    <2> QED
      BY <2>2, <2>4, ProposerOffered
  <1>3. CASE \E a \in People : ApprovePause(a)
    <2>1. PICK a \in People : ApprovePause(a)
      BY <1>3
    <2>2. /\ IsParty(a) /\ o # NoOffer /\ o.terms = "pause" /\ o.by # a
          /\ Apply("pause", "pause", BothHats(a)) /\ UNCHANGED partyVars
      BY <2>1 DEF ApprovePause
    <2>3. offer'["pause"] = NoOffer
      BY <1>1, <2>2 DEF Apply
    <2>4. PauseMeant'
      BY <2>3 DEF PauseMeant
    <2>5. ConsentInv' /\ BothSidesAgree'
      BY <2>2, AnotherApplied
    <2> QED
      BY <2>4, <2>5
  <1>4. CASE \E a \in People : ResumeShipment(a)
    <2>1. PICK a \in People : ResumeShipment(a)
      BY <1>4
    <2>2. IsParty(a) /\ pausedAt # NoTerms
      BY <2>1 DEF ResumeShipment
    <2>3. CASE o = NoOffer
      <3> DEFINE p == [by |-> a, terms |-> "resume"]
      <3>1. Offer("pause", p, BothHats(a)) /\ pausedAt' = pausedAt /\ p.by = a /\ p.terms = "resume"
        BY <2>1, <2>3 DEF ResumeShipment
      <3> HIDE DEF p
      <3>2. offer'["pause"] = p
        BY <1>1, <3>1 DEF Offer
      <3>3. PauseMeant'
        BY <2>2, <3>1, <3>2 DEF PauseMeant
      <3> QED
        BY <2>2, <3>1, <3>3, ProposerOffered
    <2>4. CASE o # NoOffer
      <3>1. o.by # a /\ Apply("pause", "resume", BothHats(a)) /\ UNCHANGED partyVars
        BY <2>1, <2>4 DEF ResumeShipment
      <3>2. o.terms = "resume"
        BY <2>2, <2>4 DEF PauseMeant
      <3>3. offer'["pause"] = NoOffer
        BY <1>1, <3>1 DEF Apply
      <3>4. PauseMeant'
        BY <3>3 DEF PauseMeant
      <3>5. ConsentInv' /\ BothSidesAgree'
        BY <2>2, <2>4, <3>1, <3>2, AnotherApplied
      <3> QED
        BY <3>4, <3>5
    <2> QED
      BY <2>3, <2>4
  <1> QED
    BY <1>2, <1>3, <1>4 DEF PauseStep

LEMMA ExpiryKeeps ==
    ASSUME ConsentInv, PauseMeant, ExpiryStep
    PROVE  ConsentInv' /\ PauseMeant' /\ BothSidesAgree'
  <1>1. "expiry" \in AllKinds
    BY DEF AllKinds, Timed
  <1>2. CASE \E a \in People, d \in Steps : expiresAt + d <= LastLedger /\ ProposeExpiry(a, expiresAt + d)
    <2>1. PICK a \in People, d \in Steps : ProposeExpiry(a, expiresAt + d)
      BY <1>2
    <2> DEFINE p == [by |-> a, terms |-> expiresAt + d, base |-> expiresAt]
    <2>2. IsParty(a) /\ Offer("expiry", p, BothHats(a)) /\ pausedAt' = pausedAt /\ p.by = a
      BY <2>1 DEF ProposeExpiry, timeVars
    <2> HIDE DEF p
    <2>3. \E q : offer' = [offer EXCEPT !["expiry"] = q]
      BY <2>2 DEF Offer
    <2> QED
      BY <1>1, <2>2, <2>3, ProposerOffered, PauseApart
  <1>3. CASE \E a \in People : ApproveExpiry(a)
    <2>1. PICK a \in People : ApproveExpiry(a)
      BY <1>3
    <2> DEFINE p == offer["expiry"]
    <2>2. /\ p # NoOffer /\ p.by # a /\ Apply("expiry", p.terms, BothHats(a)) /\ pausedAt' = pausedAt
          /\ IsParty(a) /\ UNCHANGED partyVars
          /\ IF p.by = supplier THEN IsBuyer(a) ELSE a = supplier
      BY <2>1 DEF ApproveExpiry, IsParty
    <2>3. \E q : offer' = [offer EXCEPT !["expiry"] = q]
      BY <2>2 DEF Apply
    <2> QED
      BY <1>1, <2>2, <2>3, AnotherApplied, PauseApart
  <1> QED
    BY <1>2, <1>3 DEF ExpiryStep

(* BothSidesAgree: what the parties agree to takes effect with both sides behind
   it, whoever the parties have become and however offers replace each other,
   expire or are withdrawn; for a pause, if there is but one buyer. *)
THEOREM EffectsAreConsented == ConsentSpec => []BothSidesAgree
  <1> DEFINE Inv == ConsentInv /\ PauseMeant /\ BothSidesAgree
  <1>1. ConsentInit => Inv
    <2> SUFFICES ASSUME ConsentInit PROVE Inv
      OBVIOUS
    <2>1. /\ offer = [k \in AllKinds |-> NoOffer] /\ given = [k \in AllKinds |-> {}]
          /\ effect = NoEffect
      BY DEF ConsentInit
    <2>2. ConsentInv
      BY <2>1 DEF ConsentInv
    <2>3. PauseMeant
      BY <2>1 DEF PauseMeant, AllKinds, Timed
    <2>4. BothSidesAgree
      BY <2>1 DEF BothSidesAgree
    <2> QED
      BY <2>2, <2>3, <2>4
  <1>2. Inv /\ [ConsentNext(AllKinds)]_consentVars => Inv'
    <2> SUFFICES ASSUME ConsentInv, PauseMeant, BothSidesAgree, [ConsentNext(AllKinds)]_consentVars
                 PROVE  ConsentInv' /\ PauseMeant' /\ BothSidesAgree'
      OBVIOUS
    <2>1. CASE RotationStep
      <3>1. CASE \E a \in People, t \in Terms : ProposeArbiterRotation(a, t)
        BY <3>1, ProposedMatched DEF ProposeArbiterRotation, Flagged
      <3>2. CASE ForgetMatched("rotation")
        BY <3>2, MatchedForgotten DEF ForgetMatched, timeVars, AllKinds
      <3> QED
        BY <2>1, <3>1, <3>2 DEF RotationStep
    <2>2. CASE AmendmentStep
      <3>1. CASE \E a \in People, t \in Terms : ProposeAmendment(a, t)
        BY <3>1, ProposedMatched DEF ProposeAmendment, Flagged
      <3>2. CASE ForgetMatched("amendment")
        BY <3>2, MatchedForgotten DEF ForgetMatched, timeVars, AllKinds
      <3> QED
        BY <2>2, <3>1, <3>2 DEF AmendmentStep
    <2>3. CASE MediationStep
      <3>1. ASSUME NEW a, DeclineMediation(a)
            PROVE  ConsentInv' /\ PauseMeant' /\ BothSidesAgree'
        BY <3>1, MatchedForgotten DEF DeclineMediation, timeVars, AllKinds
      <3> QED
        BY <2>3, <3>1, MediationProposed, MediationAccepted DEF MediationStep
    <2>4. CASE ExtensionStep \/ SubstituteStep \/ PauseStep \/ ExpiryStep
      BY <2>4, ExtensionKeeps, SubstituteKeeps, PauseKeeps, ExpiryKeeps
    <2>5. CASE PartyStep \/ MilestoneMoves \/ LedgerCloses
      <3>1. UNCHANGED <<offer, given, pausedAt>> /\ effect' = NoEffect
        BY <2>5 DEF PartyStep, TransferBuyer, TransferSupplier, MilestoneMoves, LedgerCloses, timeVars
      <3> QED
        BY <3>1 DEF ConsentInv, PauseMeant, BothSidesAgree
    <2>6. CASE UNCHANGED consentVars
      <3>1. UNCHANGED <<offer, given, pausedAt, effect, buyers, supplier>>
        BY <2>6 DEF consentVars, dealVars, timeVars, partyVars
      <3>2. BothSidesAgree'
        BY <3>1 DEF BothSidesAgree, BothSidesNow, OneBuyer, Agreed, Givers, IsParty, IsBuyer
      <3> QED
        BY <3>1, <3>2 DEF ConsentInv, PauseMeant
    <2> HIDE DEF Inv
    <2> QED
      BY <2>1, <2>2, <2>3, <2>4, <2>5, <2>6 DEF ConsentNext
  <1> QED
    BY <1>1, <1>2, PTL DEF ConsentSpec

-----------------------------------------------------------------------------
(* Rate limits.  What a gauge admitted, ledger by ledger, and sums of it. *)
Ledgers == 0..MaxHeight
Between(first, last) == {k \in Ledgers : k >= first /\ k < last}
Since(first) == {k \in Ledgers : k >= first}

LEMMA LedgersFinite ==
    /\ Ledgers \subseteq Nat
    /\ \A S \in SUBSET Ledgers : IsFiniteSet(S)
  <1>1. IsFiniteSet(Ledgers) /\ Ledgers \subseteq Nat
    BY LimitAssumption, FS_Interval DEF Ledgers
  <1> QED
    BY <1>1, FS_Subset

LEMMA ChargesNat ==
    ASSUME NEW f \in [Ledgers -> Nat], NEW S \in SUBSET Ledgers
    PROVE  SumFunctionOnSet(f, S) \in Nat
  BY LedgersFinite, SumNat

LEMMA ChargesOfPart ==
    ASSUME NEW f \in [Ledgers -> Nat], NEW T \in SUBSET Ledgers, NEW S \in SUBSET T
    PROVE  SumFunctionOnSet(f, S) <= SumFunctionOnSet(f, T)
  <1> DEFINE R == T \ S
  <1>1. IsFiniteSet(S) /\ IsFiniteSet(R) /\ S \cap R = {} /\ S \cup R = T /\ S \in SUBSET Ledgers
        /\ R \in SUBSET Ledgers
    BY LedgersFinite
  <1>2. \A x \in S \cup R : f[x] \in Int
    BY <1>1
  <1> HIDE DEF R
  <1>3. SumFunctionOnSet(f, S \cup R) = SumFunctionOnSet(f, S) + SumFunctionOnSet(f, R)
    BY <1>1, <1>2, SumUnion
  <1>4. SumFunctionOnSet(f, S) \in Nat /\ SumFunctionOnSet(f, R) \in Nat
    BY <1>1, ChargesNat
  <1>5. SumFunctionOnSet(f, S \cup R) = SumFunctionOnSet(f, T)
    BY <1>1
  <1> DEFINE s == SumFunctionOnSet(f, S)
             r == SumFunctionOnSet(f, R)
             t == SumFunctionOnSet(f, T)
  <1>6. t = s + r /\ s \in Nat /\ r \in Nat
    BY <1>3, <1>4, <1>5
  <1> HIDE DEF s, r, t
  <1>7. s <= t
    BY <1>6
  <1> QED
    BY <1>7 DEF s, t

LEMMA ChargesSplit ==
    ASSUME NEW f \in [Ledgers -> Nat], NEW S \in SUBSET Ledgers, NEW T \in SUBSET Ledgers,
           S \cap T = {}
    PROVE  SumFunctionOnSet(f, S \cup T) = SumFunctionOnSet(f, S) + SumFunctionOnSet(f, T)
  <1>1. IsFiniteSet(S) /\ IsFiniteSet(T) /\ \A x \in S \cup T : f[x] \in Int
    BY LedgersFinite
  <1> QED
    BY <1>1, SumUnion

LEMMA ChargesGrow ==
    ASSUME NEW f \in [Ledgers -> Nat], NEW g \in [Ledgers -> Nat], NEW h \in Ledgers, NEW n \in Nat,
           g[h] = f[h] + n, \A k \in Ledgers : k # h => g[k] = f[k],
           NEW S \in SUBSET Ledgers
    PROVE  /\ h \notin S => SumFunctionOnSet(g, S) = SumFunctionOnSet(f, S)
           /\ h \in S => SumFunctionOnSet(g, S) = SumFunctionOnSet(f, S) + n
  <1>1. IsFiniteSet(S)
    BY LedgersFinite
  <1>2. ASSUME h \notin S
        PROVE  SumFunctionOnSet(g, S) = SumFunctionOnSet(f, S)
    <2>1. \A x \in S : g[x] = f[x]
      BY <1>2
    <2> QED
      BY <1>1, <2>1, SumCongruence
  <1>3. ASSUME h \in S
        PROVE  SumFunctionOnSet(g, S) = SumFunctionOnSet(f, S) + n
    <2>1. (\A x \in S : f[x] \in Int) /\ g[h] \in Int /\ \A x \in S \ {h} : g[x] = f[x]
      OBVIOUS
    <2>2. SumFunctionOnSet(g, S) = SumFunctionOnSet(f, S) + (g[h] - f[h])
      BY <1>1, <1>3, <2>1, SumChange
    <2>3. g[h] - f[h] = n
      OBVIOUS
    <2> QED
      BY <2>2, <2>3
  <1> QED
    BY <1>2, <1>3

NothingCharged(f) == \A k \in Ledgers : f[k] = 0

LEMMA NoCharges ==
    ASSUME NEW f, NothingCharged(f), NEW S \in SUBSET Ledgers
    PROVE  SumFunctionOnSet(f, S) = 0
  BY LedgersFinite, SumZero DEF NothingCharged

(* A gauge with its charges: within the present window no more than the usage it
   counts, and no more than the limit; in a stretch that reaches up to the
   present window no more than the limit, and in any stretch no more than
   twice the limit.  A gauge not charged since it was configured may have any
   usage. *)
GaugeFits(limit, window, start, used, f) ==
    /\ limit \in Nat /\ window \in Nat /\ start \in Nat /\ used \in Nat
    /\ f \in [Ledgers -> Nat]
    /\ \A k \in Ledgers : k >= start + window => f[k] = 0
    /\ NothingCharged(f) \/ used <= limit
    /\ used = 0 \/ window = 0 => NothingCharged(f)
    /\ SumFunctionOnSet(f, Since(start)) <= used
    /\ \A first \in Ledgers : first + window > start =>
          SumFunctionOnSet(f, Between(first, start)) <= limit
    /\ \A first \in Ledgers : SumFunctionOnSet(f, Between(first, first + window)) <= 2 * limit

LEMMA UnchargedFits ==
    ASSUME NEW limit \in Nat, NEW window \in Nat, NEW start \in Nat, NEW used \in Nat,
           NEW f \in [Ledgers -> Nat], NothingCharged(f)
    PROVE  GaugeFits(limit, window, start, used, f)
  <1>1. \A S \in SUBSET Ledgers : SumFunctionOnSet(f, S) = 0
    BY NoCharges
  <1>2. \A a, b : Between(a, b) \in SUBSET Ledgers /\ Since(a) \in SUBSET Ledgers
    BY DEF Between, Since
  <1>3. \A a, b : SumFunctionOnSet(f, Between(a, b)) = 0 /\ SumFunctionOnSet(f, Since(a)) = 0
    BY <1>1, <1>2
  <1>4. \A k \in Ledgers : f[k] = 0
    BY DEF NothingCharged
  <1>5. 0 <= used /\ 0 <= limit /\ 0 <= 2 * limit
    OBVIOUS
  <1> QED
    BY <1>3, <1>4, <1>5 DEF GaugeFits

(* A stretch falls into what precedes a window's start and what does not. *)
LEMMA StretchSplits ==
    ASSUME NEW first, NEW last, NEW start \in Nat
    PROVE  /\ Between(first, start) \in SUBSET Ledgers /\ Since(start) \in SUBSET Ledgers
           /\ Between(first, start) \cap Since(start) = {}
           /\ Between(first, last) \in SUBSET (Between(first, start) \cup Since(start))
  <1>1. \A k \in Ledgers : k \in Int
    BY LedgersFinite
  <1>2. \A k \in Ledgers : ~(k < start /\ k >= start) /\ (k < start \/ k >= start)
    BY <1>1
  <1> QED
    BY <1>2 DEF Between, Since

(* A charge in the window that is open. *)
LEMMA ChargeInWindow ==
    ASSUME NEW limit, NEW window, NEW start, NEW used, NEW f, GaugeFits(limit, window, start, used, f),
           NEW h \in Ledgers, h >= start, h < start + window,
           NEW n \in Nat, n > 0, used + n <= limit, NEW g \in [Ledgers -> Nat],
           g[h] = f[h] + n, \A k \in Ledgers : k # h => g[k] = f[k]
    PROVE  GaugeFits(limit, window, start, used + n, g)
  <1>1. /\ limit \in Nat /\ window \in Nat /\ start \in Nat /\ used \in Nat /\ f \in [Ledgers -> Nat]
        /\ SumFunctionOnSet(f, Since(start)) <= used
        /\ \A k \in Ledgers : k >= start + window => f[k] = 0
        /\ \A first \in Ledgers : first + window > start =>
              SumFunctionOnSet(f, Between(first, start)) <= limit
        /\ \A first \in Ledgers : SumFunctionOnSet(f, Between(first, first + window)) <= 2 * limit
    BY DEF GaugeFits
  <1>2. Ledgers \subseteq Nat
    BY LedgersFinite
  <1>3. /\ g \in [Ledgers -> Nat] /\ g[h] = f[h] + n
        /\ \A k \in Ledgers : k # h => g[k] = f[k]
    BY <1>1
  <1>4. SumFunctionOnSet(g, Since(start)) <= used + n
    <2>1. h \in Since(start) /\ Since(start) \in SUBSET Ledgers
      BY DEF Since
    <2>2. SumFunctionOnSet(g, Since(start)) = SumFunctionOnSet(f, Since(start)) + n
      BY <1>1, <1>3, <2>1, ChargesGrow
    <2>3. SumFunctionOnSet(f, Since(start)) \in Nat
      BY <1>1, <2>1, ChargesNat
    <2> QED
      BY <1>1, <2>2, <2>3
  <1>5. ASSUME NEW first \in Ledgers
        PROVE  SumFunctionOnSet(g, Between(first, start)) = SumFunctionOnSet(f, Between(first, start))
    <2>1. h \notin Between(first, start) /\ Between(first, start) \in SUBSET Ledgers
      BY <1>1, <1>2 DEF Between
    <2> QED
      BY <1>1, <1>3, <2>1, ChargesGrow
  <1>6. ASSUME NEW first \in Ledgers
        PROVE  SumFunctionOnSet(g, Between(first, first + window)) <= 2 * limit
    <2> DEFINE stretch == Between(first, first + window)
    <2>1. stretch \in SUBSET Ledgers /\ first \in Nat
      BY <1>2 DEF Between
    <2>2. CASE first + window <= start
      <3>1. h \notin stretch
        BY <1>1, <1>2, <2>1, <2>2 DEF Between
      <3>2. SumFunctionOnSet(g, stretch) = SumFunctionOnSet(f, stretch)
        BY <1>1, <1>3, <2>1, <3>1, ChargesGrow
      <3> QED
        BY <1>1, <3>2
    <2>3. CASE first + window > start
      <3> DEFINE before == Between(first, start)
                 after == Since(start)
      <3>1. before \in SUBSET Ledgers /\ after \in SUBSET Ledgers /\ before \cap after = {}
            /\ stretch \in SUBSET (before \cup after)
        BY <1>1, <1>2, <2>1, StretchSplits
      <3>2. SumFunctionOnSet(g, before) <= limit
        BY <1>1, <1>5, <2>3
      <3>3. SumFunctionOnSet(g, after) <= limit
        <4>1. SumFunctionOnSet(g, after) \in Nat
          BY <1>3, <3>1, ChargesNat
        <4> QED
          BY <1>1, <1>4, <4>1
      <3> HIDE DEF before, after, stretch
      <3>4. SumFunctionOnSet(g, stretch) <= SumFunctionOnSet(g, before \cup after)
        <4>1. before \cup after \in SUBSET Ledgers
          BY <3>1
        <4> QED
          BY <1>3, <3>1, <4>1, ChargesOfPart
      <3>5. SumFunctionOnSet(g, before \cup after) = SumFunctionOnSet(g, before) + SumFunctionOnSet(g, after)
        BY <1>3, <3>1, ChargesSplit
      <3>6. /\ SumFunctionOnSet(g, before) \in Nat /\ SumFunctionOnSet(g, after) \in Nat
            /\ SumFunctionOnSet(g, stretch) \in Nat
        BY <1>3, <2>1, <3>1, ChargesNat
      <3>7. SumFunctionOnSet(g, stretch) <= 2 * limit
        BY <1>1, <3>2, <3>3, <3>4, <3>5, <3>6
      <3> QED
        BY <3>7 DEF stretch
    <2> QED
      BY <1>1, <2>1, <2>2, <2>3
  <1>7. \A k \in Ledgers : k >= start + window => g[k] = 0
    BY <1>1, <1>2, <1>3
  <1>8. used + n \in Nat /\ used + n # 0 /\ window # 0
    BY <1>1, <1>2
  <1>9. \A first \in Ledgers : first + window > start =>
            SumFunctionOnSet(g, Between(first, start)) <= limit
    BY <1>1, <1>5
  <1> QED
    BY <1>1, <1>3, <1>4, <1>6, <1>7, <1>8, <1>9 DEF GaugeFits

(* A charge that opens a window: the last one is over, or held nothing. *)
LEMMA ChargeInNewWindow ==
    ASSUME NEW limit, NEW window, NEW start, NEW used, NEW f, GaugeFits(limit, window, start, used, f),
           NEW h \in Ledgers, used = 0 \/ h >= start + window, window > 0,
           NEW n \in Nat, n > 0, n <= limit, NEW g \in [Ledgers -> Nat],
           g[h] = f[h] + n, \A k \in Ledgers : k # h => g[k] = f[k]
    PROVE  GaugeFits(limit, window, h, n, g)
  <1>1. /\ limit \in Nat /\ window \in Nat /\ start \in Nat /\ used \in Nat /\ f \in [Ledgers -> Nat]
        /\ SumFunctionOnSet(f, Since(start)) <= used
        /\ \A k \in Ledgers : k >= start + window => f[k] = 0
        /\ NothingCharged(f) \/ used <= limit
        /\ used = 0 => NothingCharged(f)
        /\ \A first \in Ledgers : SumFunctionOnSet(f, Between(first, first + window)) <= 2 * limit
    BY DEF GaugeFits
  <1>2. Ledgers \subseteq Nat /\ h \in Nat
    BY LedgersFinite
  <1>3. /\ g \in [Ledgers -> Nat] /\ g[h] = f[h] + n
        /\ \A k \in Ledgers : k # h => g[k] = f[k]
    BY <1>1
  <1>4. ASSUME NEW k \in Ledgers, k >= h
        PROVE  f[k] = 0
    <2>1. CASE used = 0
      BY <1>1, <2>1 DEF NothingCharged
    <2>2. CASE h >= start + window
      BY <1>1, <1>2, <1>4, <2>2
    <2> QED
      BY <2>1, <2>2
  <1>5. SumFunctionOnSet(g, Since(h)) = n
    <2>1. h \in Since(h) /\ Since(h) \in SUBSET Ledgers
      BY <1>2 DEF Since
    <2>2. SumFunctionOnSet(g, Since(h)) = SumFunctionOnSet(f, Since(h)) + n
      BY <1>1, <1>3, <2>1, ChargesGrow
    <2>3. \A k \in Since(h) : f[k] = 0
      BY <1>4 DEF Since
    <2>4. SumFunctionOnSet(f, Since(h)) = 0
      BY <2>1, <2>3, LedgersFinite, SumZero
    <2> QED
      BY <2>2, <2>4
  <1>6. ASSUME NEW first \in Ledgers, first + window > h
        PROVE  SumFunctionOnSet(g, Between(first, h)) <= limit
    <2> DEFINE before == Between(first, h)
    <2>1. before \in SUBSET Ledgers /\ h \notin before
      BY <1>2 DEF Between
    <2>2. SumFunctionOnSet(g, before) = SumFunctionOnSet(f, before)
      BY <1>1, <1>3, <2>1, ChargesGrow
    <2>3. CASE NothingCharged(f)
      BY <1>1, <2>1, <2>2, <2>3, NoCharges
    <2>4. CASE ~NothingCharged(f)
      <3>1. used <= limit /\ h >= start + window
        BY <1>1, <2>4
      <3>2. before \in SUBSET Since(start) /\ Since(start) \in SUBSET Ledgers
        <4>1. \A k \in before : k \in Nat /\ k >= first
          BY <1>2 DEF Between
        <4>2. first >= start /\ first \in Nat
          BY <1>1, <1>2, <1>6, <3>1
        <4>3. \A k \in before : k >= start
          BY <1>1, <4>1, <4>2
        <4> QED
          BY <2>1, <4>3 DEF Since
      <3> HIDE DEF before
      <3>3. SumFunctionOnSet(f, before) <= SumFunctionOnSet(f, Since(start))
        BY <1>1, <3>2, ChargesOfPart
      <3>4. SumFunctionOnSet(f, before) \in Nat /\ SumFunctionOnSet(f, Since(start)) \in Nat
        BY <1>1, <2>1, <3>2, ChargesNat
      <3>5. SumFunctionOnSet(g, before) <= limit
        BY <1>1, <2>2, <3>1, <3>3, <3>4
      <3> QED
        BY <3>5 DEF before
    <2> QED
      BY <2>3, <2>4
  <1>7. ASSUME NEW first \in Ledgers
        PROVE  SumFunctionOnSet(g, Between(first, first + window)) <= 2 * limit
    <2> DEFINE stretch == Between(first, first + window)
    <2>1. stretch \in SUBSET Ledgers /\ first \in Nat
      BY <1>2 DEF Between
    <2>2. CASE first + window <= h
      <3>1. h \notin stretch
        BY <1>1, <1>2, <2>1, <2>2 DEF Between
      <3>2. SumFunctionOnSet(g, stretch) = SumFunctionOnSet(f, stretch)
        BY <1>1, <1>3, <2>1, <3>1, ChargesGrow
      <3> QED
        BY <1>1, <3>2
    <2>3. CASE first + window > h
      <3> DEFINE before == Between(first, h)
                 after == Since(h)
      <3>1. before \in SUBSET Ledgers /\ after \in SUBSET Ledgers /\ before \cap after = {}
            /\ stretch \in SUBSET (before \cup after)
        BY <1>1, <1>2, <2>1, StretchSplits
      <3>2. SumFunctionOnSet(g, before) <= limit /\ SumFunctionOnSet(g, after) = n
        BY <1>5, <1>6, <2>3
      <3> HIDE DEF before, after, stretch
      <3>4. SumFunctionOnSet(g, stretch) <= SumFunctionOnSet(g, before \cup after)
        <4>1. before \cup after \in SUBSET Ledgers
          BY <3>1
        <4> QED
          BY <1>3, <3>1, <4>1, ChargesOfPart
      <3>5. SumFunctionOnSet(g, before \cup after) = SumFunctionOnSet(g, before) + SumFunctionOnSet(g, after)
        BY <1>3, <3>1, ChargesSplit
      <3>6. /\ SumFunctionOnSet(g, before) \in Nat /\ SumFunctionOnSet(g, stretch) \in Nat
        BY <1>3, <2>1, <3>1, ChargesNat
      <3>7. SumFunctionOnSet(g, stretch) <= 2 * limit
        BY <1>1, <3>2, <3>4, <3>5, <3>6
      <3> QED
        BY <3>7 DEF stretch
    <2> QED
      BY <1>1, <1>2, <2>1, <2>2, <2>3
  <1>8. \A k \in Ledgers : k >= h + window => g[k] = 0
    BY <1>1, <1>2, <1>3, <1>4
  <1>9. n # 0 /\ window # 0 /\ SumFunctionOnSet(g, Since(h)) <= n
    BY <1>1, <1>5
  <1> QED
    BY <1>1, <1>2, <1>3, <1>6, <1>7, <1>8, <1>9 DEF GaugeFits

GaugeRecords == [limit : Nat, window : Nat, start : Nat, used : Nat]

LimitsInv ==
    /\ height \in Ledgers
    /\ gauge \in [Gauges -> GaugeRecords] /\ flow \in [Gauges -> [Ledgers -> Nat]]
    /\ \A g \in Gauges : gauge[g].start <= height
    /\ \A g \in Gauges :
          GaugeFits(gauge[g].limit, gauge[g].window, gauge[g].start, gauge[g].used, flow[g])

(* What one step may do to a gauge: leave it, charge it, or configure it. *)
GaugeLeft(g) == gauge'[g] = gauge[g] /\ flow'[g] = flow[g]

GaugeCharged(g, n) ==
    /\ On(g) /\ Admits(g, n)
    /\ gauge'[g] = Charged(g, n)
    /\ flow'[g] = IF gauge[g].window > 0 THEN [flow[g] EXCEPT ![height] = @ + n] ELSE flow[g]

GaugeConfigured(g) ==
    /\ gauge'[g] \in GaugeRecords /\ gauge'[g].start <= height
    /\ flow'[g] = Unused

GaugeOK(g) ==
    /\ gauge[g] \in GaugeRecords /\ flow[g] \in [Ledgers -> Nat] /\ gauge[g].start <= height
    /\ GaugeFits(gauge[g].limit, gauge[g].window, gauge[g].start, gauge[g].used, flow[g])

LEMMA UnusedFits == Unused \in [Ledgers -> Nat] /\ NothingCharged(Unused)
  BY DEF Unused, NothingCharged, Ledgers

LEMMA LeftOK ==
    ASSUME NEW g, GaugeOK(g), GaugeLeft(g), height \in Nat, height' \in Nat, height' >= height
    PROVE  GaugeOK(g)'
  <1>1. gauge[g].start \in Nat
    BY DEF GaugeOK, GaugeRecords
  <1>2. gauge[g].start <= height'
    BY <1>1 DEF GaugeOK
  <1> QED
    BY <1>2 DEF GaugeOK, GaugeLeft

LEMMA ConfiguredOK ==
    ASSUME NEW g, GaugeConfigured(g), height' = height
    PROVE  GaugeOK(g)'
  <1> DEFINE c == gauge'[g]
             f == flow'[g]
  <1>1. c \in GaugeRecords /\ c.start <= height' /\ f \in [Ledgers -> Nat] /\ NothingCharged(f)
    BY UnusedFits DEF GaugeConfigured
  <1> HIDE DEF c, f
  <1>2. c.limit \in Nat /\ c.window \in Nat /\ c.start \in Nat /\ c.used \in Nat
    BY <1>1 DEF GaugeRecords
  <1>3. GaugeFits(c.limit, c.window, c.start, c.used, f)
    BY <1>1, <1>2, UnchargedFits
  <1> QED
    BY <1>1, <1>3 DEF GaugeOK, c, f

LEMMA ChargedOK ==
    ASSUME NEW g, GaugeOK(g), NEW n \in Nat, n > 0, GaugeCharged(g, n),
           height \in Ledgers, height' = height
    PROVE  GaugeOK(g)'
  <1> DEFINE c == gauge[g]
             f == flow[g]
             d == gauge'[g]
             e == flow'[g]
  <1>1. /\ c \in GaugeRecords /\ f \in [Ledgers -> Nat] /\ c.start <= height
        /\ GaugeFits(c.limit, c.window, c.start, c.used, f)
    BY DEF GaugeOK
  <1>2. /\ UsedNow(g) + n <= c.limit /\ d = [c EXCEPT !.start = IF Lapsed(g) THEN height ELSE @, !.used = UsedNow(g) + n]
        /\ e = IF c.window > 0 THEN [f EXCEPT ![height] = @ + n] ELSE f
    BY DEF GaugeCharged, Admits, Charged
  <1>3. /\ Lapsed(g) => UsedNow(g) = 0 /\ (c.used = 0 \/ height >= c.start + c.window)
        /\ ~Lapsed(g) => UsedNow(g) = c.used /\ ~(height >= c.start + c.window)
    BY DEF UsedNow, Lapsed
  <1> HIDE DEF c, f
  <1>4. /\ c.limit \in Nat /\ c.window \in Nat /\ c.start \in Nat /\ c.used \in Nat /\ height \in Nat
    BY <1>1, LedgersFinite DEF GaugeRecords
  <1>5. UsedNow(g) \in Nat /\ UsedNow(g) + n \in Nat
    BY <1>3, <1>4
  <1>6. /\ d \in GaugeRecords /\ d.limit = c.limit /\ d.window = c.window /\ d.used = UsedNow(g) + n
        /\ d.start = IF Lapsed(g) THEN height ELSE c.start
    BY <1>1, <1>2, <1>4, <1>5 DEF GaugeRecords
  <1>7. d.start <= height
    BY <1>1, <1>4, <1>6
  <1>8. /\ e \in [Ledgers -> Nat]
        /\ c.window > 0 => e[height] = f[height] + n /\ \A k \in Ledgers : k # height => e[k] = f[k]
    BY <1>1, <1>2
  <1> HIDE DEF d, e
  <1>9. GaugeFits(d.limit, d.window, d.start, d.used, e)
    <2>1. CASE c.window = 0
      <3>1. NothingCharged(f) /\ e = f
        BY <1>1, <1>2, <1>4, <2>1 DEF GaugeFits, e
      <3>2. d.limit \in Nat /\ d.window \in Nat /\ d.start \in Nat /\ d.used \in Nat
        BY <1>6 DEF GaugeRecords
      <3> QED
        BY <1>8, <3>1, <3>2, UnchargedFits
    <2>2. CASE c.window > 0 /\ Lapsed(g)
      <3>1. 0 + n <= c.limit /\ d.used = 0 + n
        BY <1>2, <1>3, <1>6, <2>2
      <3>2. n <= c.limit /\ d.used = n /\ d.start = height
        BY <1>4, <1>6, <2>2, <3>1
      <3>3. GaugeFits(c.limit, c.window, height, n, e)
        BY <1>1, <1>3, <1>8, <2>2, <3>2, ChargeInNewWindow
      <3> QED
        BY <1>6, <3>2, <3>3
    <2>3. CASE c.window > 0 /\ ~Lapsed(g)
      <3>1. c.used + n <= c.limit /\ d.used = c.used + n /\ d.start = c.start
        BY <1>2, <1>3, <1>6, <2>3
      <3>2. height >= c.start /\ height < c.start + c.window
        BY <1>1, <1>3, <1>4, <2>3
      <3>3. GaugeFits(c.limit, c.window, c.start, c.used + n, e)
        BY <1>1, <1>8, <2>3, <3>1, <3>2, ChargeInWindow
      <3> QED
        BY <1>6, <3>1, <3>3
    <2> QED
      BY <1>4, <2>1, <2>2, <2>3
  <1> QED
    BY <1>6, <1>7, <1>8, <1>9 DEF GaugeOK, d, e

(* The invariant is that every gauge is in order. *)
LEMMA LimitsInvPerGauge ==
    LimitsInv <=> /\ height \in Ledgers
                  /\ gauge = [g \in Gauges |-> gauge[g]] /\ flow = [g \in Gauges |-> flow[g]]
                  /\ \A g \in Gauges : GaugeOK(g)
  BY DEF LimitsInv, GaugeOK

(* Every step leaves, charges or configures each of the gauges. *)
GaugesStep ==
    /\ gauge' = [g \in Gauges |-> gauge'[g]] /\ flow' = [g \in Gauges |-> flow'[g]]
    /\ \A g \in Gauges : \/ GaugeLeft(g)
                         \/ \E n \in Nat : n > 0 /\ GaugeCharged(g, n)
                         \/ GaugeConfigured(g)

LEMMA GaugesKept ==
    ASSUME LimitsInv, height' = height, GaugesStep
    PROVE  LimitsInv'
  <1>1. /\ height \in Ledgers /\ height \in Nat /\ height' \in Ledgers /\ height' >= height
        /\ \A g \in Gauges : GaugeOK(g)
    BY LimitsInvPerGauge, LedgersFinite
  <1>2. ASSUME NEW g \in Gauges
        PROVE  GaugeOK(g)'
    <2>1. CASE GaugeLeft(g)
      BY <1>1, <2>1, LeftOK
    <2>2. CASE \E n \in Nat : n > 0 /\ GaugeCharged(g, n)
      BY <1>1, <2>2, ChargedOK
    <2>3. CASE GaugeConfigured(g)
      BY <2>3, ConfiguredOK
    <2> QED
      BY <2>1, <2>2, <2>3 DEF GaugesStep
  <1>3. /\ gauge' \in [Gauges -> GaugeRecords] /\ flow' \in [Gauges -> [Ledgers -> Nat]]
    BY <1>2 DEF GaugesStep, GaugeOK
  <1> QED
    BY <1>1, <1>2, <1>3 DEF LimitsInv, GaugeOK

LEMMA ChargeSteps ==
    ASSUME LimitsInv, NEW costs, Charge(costs), \A g \in DOMAIN costs : costs[g] \in Nat /\ costs[g] > 0
    PROVE  GaugesStep
  <1> DEFINE hit == {g \in DOMAIN costs : On(g)}
  <1>1. /\ \A g \in hit : Admits(g, costs[g])
        /\ gauge' = [g \in Gauges |-> IF g \in hit THEN Charged(g, costs[g]) ELSE gauge[g]]
        /\ flow' = [g \in Gauges |->
              IF g \in hit /\ gauge[g].window > 0 THEN [flow[g] EXCEPT ![height] = @ + costs[g]]
                                                  ELSE flow[g]]
    BY DEF Charge
  <1>2. \A g \in hit : On(g) /\ costs[g] \in Nat /\ costs[g] > 0
    OBVIOUS
  <1> HIDE DEF hit
  <1>3. ASSUME NEW g \in Gauges
        PROVE  GaugeLeft(g) \/ \E n \in Nat : n > 0 /\ GaugeCharged(g, n)
    <2>1. CASE g \in hit
      <3>1. GaugeCharged(g, costs[g])
        BY <1>1, <1>2, <2>1 DEF GaugeCharged
      <3> QED
        BY <1>2, <2>1, <3>1
    <2>2. CASE g \notin hit
      BY <1>1, <2>2 DEF GaugeLeft
    <2> QED
      BY <2>1, <2>2
  <1>4. gauge' = [g \in Gauges |-> gauge'[g]] /\ flow' = [g \in Gauges |-> flow'[g]]
    BY <1>1
  <1> QED
    BY <1>3, <1>4 DEF GaugesStep

LEMMA ChargingKeeps ==
    ASSUME LimitsInv, NEW costs, Charge(costs), height' = height,
           \A g \in DOMAIN costs : costs[g] \in Nat /\ costs[g] > 0
    PROVE  LimitsInv'
  BY ChargeSteps, GaugesKept

LEMMA PaymentKeeps ==
    ASSUME LimitsInv, NEW s, NEW n \in Sums, Payment(s, n)
    PROVE  LimitsInv'
  <1> DEFINE costs == [g \in {Breaker, Outflow(s)} |-> n]
  <1>1. n \in Nat /\ n > 0
    BY LimitAssumption
  <1>2. Charge(costs) /\ height' = height
    BY DEF Payment
  <1>3. \A g \in DOMAIN costs : costs[g] \in Nat /\ costs[g] > 0
    BY <1>1
  <1> HIDE DEF costs
  <1> QED
    BY <1>2, <1>3, ChargingKeeps

LEMMA CommitKeeps ==
    ASSUME LimitsInv, NEW b, NEW s, NEW n \in Sums, CommitShipment(b, s, n)
    PROVE  LimitsInv'
  <1> DEFINE costs == [g \in {Spending(b)} \cup (IF s \in exempt THEN {} ELSE {Creation(s)}) |->
                          IF g = Spending(b) THEN n ELSE 1]
  <1>1. n \in Nat /\ n > 0
    BY LimitAssumption
  <1>2. Charge(costs) /\ height' = height
    BY DEF CommitShipment
  <1>3. \A g \in DOMAIN costs : costs[g] \in Nat /\ costs[g] > 0
    BY <1>1
  <1> HIDE DEF costs
  <1> QED
    BY <1>2, <1>3, ChargingKeeps

LEMMA TopUpKeeps ==
    ASSUME LimitsInv, NEW b, NEW n \in Sums, TopUpEscrow(b, n)
    PROVE  LimitsInv'
  <1> DEFINE costs == [g \in {Spending(b)} |-> n]
  <1>1. n \in Nat /\ n > 0
    BY LimitAssumption
  <1>2. Charge(costs) /\ height' = height
    BY DEF TopUpEscrow
  <1>3. \A g \in DOMAIN costs : costs[g] \in Nat /\ costs[g] > 0
    BY <1>1
  <1> HIDE DEF costs
  <1> QED
    BY <1>2, <1>3, ChargingKeeps

LEMMA CancellationKeeps ==
    ASSUME LimitsInv, NEW s, CancelAsSupplier(s)
    PROVE  LimitsInv'
  <1> DEFINE costs == [g \in {Cancels(s)} |-> 1]
  <1>1. Charge(costs) /\ height' = height
    BY DEF CancelAsSupplier
  <1>2. \A g \in DOMAIN costs : costs[g] \in Nat /\ costs[g] > 0
    OBVIOUS
  <1> HIDE DEF costs
  <1> QED
    BY <1>1, <1>2, ChargingKeeps

(* Configuring one gauge starts the count of its charges over, whether or not
   its usage is forgotten. *)
LEMMA ConfiguringKeeps ==
    ASSUME LimitsInv, height' = height, NEW h, NEW c,
           h \in Gauges => c \in GaugeRecords /\ c.start <= height,
           gauge' = [gauge EXCEPT ![h] = c], flow' = [flow EXCEPT ![h] = Unused]
    PROVE  LimitsInv'
  <1>1. gauge = [g \in Gauges |-> gauge[g]] /\ flow = [g \in Gauges |-> flow[g]]
    BY LimitsInvPerGauge
  <1>2. /\ gauge' = [g \in Gauges |-> IF g = h THEN c ELSE gauge[g]]
        /\ flow' = [g \in Gauges |-> IF g = h THEN Unused ELSE flow[g]]
    BY <1>1
  <1>3. \A g \in Gauges : GaugeLeft(g) \/ GaugeConfigured(g)
    BY <1>2 DEF GaugeLeft, GaugeConfigured
  <1>4. gauge' = [g \in Gauges |-> gauge'[g]] /\ flow' = [g \in Gauges |-> flow'[g]]
    BY <1>2
  <1>5. GaugesStep
    BY <1>3, <1>4 DEF GaugesStep
  <1> QED
    BY <1>5, GaugesKept

LEMMA RestartedKeeps ==
    ASSUME LimitsInv, height' = height, NEW h, NEW limit \in Nat, NEW window \in Nat,
           Restarted(h, limit, window)
    PROVE  LimitsInv'
  <1> DEFINE c == [limit |-> limit, window |-> window, start |-> height, used |-> 0]
  <1>1. gauge' = [gauge EXCEPT ![h] = c] /\ flow' = [flow EXCEPT ![h] = Unused]
    BY DEF Restarted
  <1>2. c \in GaugeRecords /\ c.start <= height
    <2>1. height \in Nat
      BY LedgersFinite DEF LimitsInv
    <2> QED
      BY <2>1 DEF GaugeRecords
  <1> HIDE DEF c
  <1> QED
    BY <1>1, <1>2, ConfiguringKeeps

LEMMA ConfiguredKeeps ==
    ASSUME LimitsInv, height' = height, NEW h, NEW limit \in Nat, NEW window, h \in Gauges => window \in Nat,
           Configured(h, limit, window)
    PROVE  LimitsInv'
  <1> DEFINE c == [gauge[h] EXCEPT !.limit = limit, !.window = window]
  <1>1. gauge' = [gauge EXCEPT ![h] = c] /\ flow' = [flow EXCEPT ![h] = Unused]
    BY DEF Configured
  <1>2. ASSUME h \in Gauges
        PROVE  c \in GaugeRecords /\ c.start <= height
    <2>1. gauge[h] \in GaugeRecords /\ gauge[h].start <= height
      BY <1>2 DEF LimitsInv
    <2> QED
      BY <1>2, <2>1 DEF GaugeRecords
  <1> HIDE DEF c
  <1> QED
    BY <1>1, <1>2, ConfiguringKeeps

LEMMA CreationLimitKeeps ==
    ASSUME LimitsInv, NEW limit \in Nat, NEW window \in Nat, SetCreationRateLimit(limit, window)
    PROVE  LimitsInv'
  <1> DEFINE creations == {Creation(s) : s \in Payees}
  <1>1. /\ gauge' = [g \in Gauges |-> IF g \in creations
                                      THEN [gauge[g] EXCEPT !.limit = limit, !.window = window]
                                      ELSE gauge[g]]
        /\ flow' = [g \in Gauges |-> IF g \in creations THEN Unused ELSE flow[g]]
        /\ height' = height
    BY DEF SetCreationRateLimit
  <1> HIDE DEF creations
  <1>2. ASSUME NEW g \in Gauges
        PROVE  GaugeLeft(g) \/ GaugeConfigured(g)
    <2>1. CASE g \in creations
      <3>1. gauge[g] \in GaugeRecords /\ gauge[g].start <= height
        BY DEF LimitsInv
      <3>2. gauge'[g] = [gauge[g] EXCEPT !.limit = limit, !.window = window] /\ flow'[g] = Unused
        BY <1>1, <2>1
      <3>3. gauge'[g] \in GaugeRecords /\ gauge'[g].start <= height
        BY <3>1, <3>2 DEF GaugeRecords
      <3> QED
        BY <3>2, <3>3 DEF GaugeConfigured
    <2>2. CASE g \notin creations
      BY <1>1, <2>2 DEF GaugeLeft
    <2> QED
      BY <2>1, <2>2
  <1>3. gauge' = [g \in Gauges |-> gauge'[g]] /\ flow' = [g \in Gauges |-> flow'[g]]
    BY <1>1
  <1>4. GaugesStep
    BY <1>2, <1>3 DEF GaugesStep
  <1> QED
    BY <1>1, <1>4, GaugesKept

LEMMA ClockKeeps ==
    ASSUME LimitsInv, LimitTick
    PROVE  LimitsInv'
  <1>1. /\ height' = height + 1 /\ height < MaxHeight /\ gauge' = gauge /\ flow' = flow
    BY DEF LimitTick
  <1>2. height \in Nat /\ height' \in Ledgers /\ height' \in Nat /\ height' >= height
    <2>1. height \in Nat
      BY LedgersFinite DEF LimitsInv
    <2> QED
      BY <1>1, <2>1, LimitAssumption DEF Ledgers
  <1>3. \A g \in Gauges : GaugeOK(g)'
    <2>1. \A g \in Gauges : GaugeOK(g) /\ GaugeLeft(g)
      BY <1>1, LimitsInvPerGauge DEF GaugeLeft
    <2> QED
      BY <1>2, <2>1, LeftOK
  <1>4. gauge' \in [Gauges -> GaugeRecords] /\ flow' \in [Gauges -> [Ledgers -> Nat]]
    BY <1>1 DEF LimitsInv
  <1> QED
    BY <1>2, <1>3, <1>4 DEF LimitsInv, GaugeOK

LEMMA LimitsUntouched ==
    ASSUME LimitsInv, UNCHANGED <<height, gauge, flow>>
    PROVE  LimitsInv'
  BY DEF LimitsInv

LEMMA LimitsInitially == LimitsInit => LimitsInv
  <1> SUFFICES ASSUME LimitsInit PROVE LimitsInv
    OBVIOUS
  <1> DEFINE zero == [limit |-> 0, window |-> 0, start |-> 0, used |-> 0]
  <1>1. height = 0 /\ gauge = [g \in Gauges |-> zero] /\ flow = [g \in Gauges |-> Unused]
    BY DEF LimitsInit
  <1>2. zero \in GaugeRecords /\ zero.limit = 0 /\ zero.window = 0 /\ zero.start = 0 /\ zero.used = 0
    BY DEF GaugeRecords
  <1>3. GaugeFits(0, 0, 0, 0, Unused)
    BY UnusedFits, UnchargedFits
  <1>4. 0 \in Ledgers
    BY LimitAssumption DEF Ledgers
  <1> HIDE DEF zero
  <1> QED
    BY <1>1, <1>2, <1>3, <1>4, UnusedFits DEF LimitsInv

LEMMA OutflowKeeps ==
    ASSUME LimitsInv, OutflowNext
    PROVE  LimitsInv'
  <1>1. /\ Caps \subseteq Nat /\ Spans \subseteq Nat
    BY LimitAssumption
  <1>2. ASSUME NEW limit \in Caps, NEW window \in Spans, SetCircuitBreaker(limit, window)
        PROVE  LimitsInv'
    <2>1. limit \in Nat /\ window \in Nat /\ height' = height /\ Restarted(Breaker, limit, window)
      BY <1>1, <1>2 DEF SetCircuitBreaker
    <2> QED
      BY <2>1, RestartedKeeps
  <1>3. ASSUME NEW limit \in Caps, NEW window \in Spans, NEW s, SetAddressOutflowLimit(s, limit, window)
        PROVE  LimitsInv'
    <2>1. limit \in Nat /\ window \in Nat /\ height' = height /\ Restarted(Outflow(s), limit, window)
      BY <1>1, <1>3 DEF SetAddressOutflowLimit
    <2> QED
      BY <2>1, RestartedKeeps
  <1>4. ASSUME NEW limit \in Caps, ChangeBreakerLimit(limit)
        PROVE  LimitsInv'
    <2> DEFINE w == gauge[Breaker].window
    <2>1. limit \in Nat /\ height' = height /\ Configured(Breaker, limit, w)
      BY <1>1, <1>4 DEF ChangeBreakerLimit
    <2>2. Breaker \in Gauges => w \in Nat
      BY DEF LimitsInv, GaugeRecords
    <2> HIDE DEF w
    <2> QED
      BY <2>1, <2>2, ConfiguredKeeps
  <1> QED
    BY <1>2, <1>3, <1>4, ClockKeeps, PaymentKeeps DEF OutflowNext

LEMMA CommitmentKeeps ==
    ASSUME LimitsInv, CommitmentNext
    PROVE  LimitsInv'
  <1>1. /\ Caps \subseteq Nat /\ Spans \subseteq Nat
    BY LimitAssumption
  <1>2. ASSUME NEW limit \in Caps, NEW window \in Spans, NEW b, SetBuyerSpendingLimit(b, limit, window)
        PROVE  LimitsInv'
    <2>1. limit \in Nat /\ window \in Nat /\ height' = height /\ Configured(Spending(b), limit, window)
      BY <1>1, <1>2 DEF SetBuyerSpendingLimit
    <2> QED
      BY <2>1, ConfiguredKeeps
  <1>3. ASSUME NEW limit \in Caps, NEW window \in Spans, SetCreationRateLimit(limit, window)
        PROVE  LimitsInv'
    BY <1>1, <1>3, CreationLimitKeeps
  <1>4. ASSUME NEW s, AddRateLimitExemption(s) \/ RemoveRateLimitExemption(s)
        PROVE  LimitsInv'
    BY <1>4, LimitsUntouched DEF AddRateLimitExemption, RemoveRateLimitExemption
  <1> QED
    BY <1>2, <1>3, <1>4, ClockKeeps, CommitKeeps, TopUpKeeps DEF CommitmentNext

LEMMA CancelKeeps ==
    ASSUME LimitsInv, CancelNext
    PROVE  LimitsInv'
  <1>1. ASSUME NEW limit \in Caps, NEW window \in Spans, NEW n, NEW s,
               SetSupplierCancelCooldown(s, limit, window, n)
        PROVE  LimitsInv'
    <2>1. limit \in Nat /\ window \in Nat /\ height' = height /\ Configured(Cancels(s), limit, window)
      BY <1>1, LimitAssumption DEF SetSupplierCancelCooldown
    <2> QED
      BY <2>1, ConfiguredKeeps
  <1>2. ASSUME NEW s, CancelRefused(s)
        PROVE  LimitsInv'
    BY <1>2, LimitsUntouched DEF CancelRefused
  <1> QED
    BY <1>1, <1>2, ClockKeeps, CancellationKeeps DEF CancelNext

(* Over any stretch of ledgers as long as a limit's window, no more than twice
   the limit is admitted: for each of the five limits, whatever calls come at
   which ledgers and however the limits are reconfigured in between. *)
THEOREM BurstsAlwaysBounded == LimitsSpec => []BurstBounded
  <1>1. LimitsInv /\ [LimitsNext]_limitVars => LimitsInv'
    <2> SUFFICES ASSUME LimitsInv, [LimitsNext]_limitVars PROVE LimitsInv'
      OBVIOUS
    <2>1. CASE UNCHANGED limitVars
      BY <2>1, LimitsUntouched DEF limitVars
    <2> QED
      BY <2>1, OutflowKeeps, CommitmentKeeps, CancelKeeps DEF LimitsNext
  <1>2. LimitsInv => BurstBounded
    <2> SUFFICES ASSUME LimitsInv, NEW g \in Gauges, NEW first \in Ledgers
                 PROVE  SumFunctionOnSet(flow[g], {k \in 0..MaxHeight : k >= first /\ k < first + gauge[g].window})
                            <= 2 * gauge[g].limit
      BY DEF BurstBounded, Ledgers
    <2>1. GaugeFits(gauge[g].limit, gauge[g].window, gauge[g].start, gauge[g].used, flow[g])
      BY DEF LimitsInv
    <2>2. SumFunctionOnSet(flow[g], Between(first, first + gauge[g].window)) <= 2 * gauge[g].limit
      BY <2>1 DEF GaugeFits
    <2> QED
      BY <2>2 DEF Between, Ledgers
  <1> QED
    BY <1>1, <1>2, LimitsInitially, PTL DEF LimitsSpec

-----------------------------------------------------------------------------
(* The token's books.  The sums over shipments and vaults are sums of functions. *)
EscrowOf(r) == IF r.status = "Active" THEN Cardinality(r.open) ELSE 0
EscrowShares(q) == [s \in 1..Len(q) |-> EscrowOf(q[s])]
SumUp(f) == SumFunctionOnSet(f, DOMAIN f)

LEMMA EscrowSum ==
    ASSUME NEW q, NEW A, IsFiniteSet(A)
    PROVE  MapThenSumSet(LAMBDA s : IF q[s].status = "Active" THEN Cardinality(q[s].open) ELSE 0, A)
               = SumFunctionOnSet([s \in A |-> EscrowOf(q[s])], A)
  <1> DEFINE f == [s \in A |-> EscrowOf(q[s])]
             summand(s) == IF q[s].status = "Active" THEN Cardinality(q[s].open) ELSE 0
             Adds(g) == g = [T \in SUBSET A |->
                 IF T = {} THEN 0 ELSE summand(Some(T)) + g[T \ {Some(T)}]]
             k == CHOOSE g : Adds(g)
  <1>1. MapThenSumSet(LAMBDA s : summand(s), A) = k[A]
    BY DEF MapThenSumSet, MapThenFoldSet, Some
  <1>2. \A T \in SUBSET A : T # {} => f[Some(T)] = summand(Some(T))
    BY SomeMember DEF EscrowOf
  <1>3. ASSUME NEW g PROVE Adds(g) <=> RecursiveSum(g, f, A)
    <2>1. [T \in SUBSET A |-> IF T = {} THEN 0 ELSE summand(Some(T)) + g[T \ {Some(T)}]]
          = [T \in SUBSET A |-> IF T = {} THEN 0 ELSE f[Some(T)] + g[T \ {Some(T)}]]
      <3> HIDE DEF f, summand
      <3> QED
        BY <1>2
    <2> HIDE DEF f
    <2> QED
      BY <2>1 DEF RecursiveSum
  <1> HIDE DEF f, Adds
  <1>4. \E g : Adds(g)
    BY <1>3, RecursiveSumExists
  <1>5. Adds(k)
    BY <1>4
  <1>6. RecursiveSum(k, f, A)
    BY <1>3, <1>5
  <1> HIDE DEF k
  <1>7. SumFunctionOnSet(f, A) = k[A]
    BY <1>6, SumIsRecursive
  <1> QED
    BY <1>1, <1>7 DEF f

LEMMA EscrowIsSum ==
    ASSUME Len(ships) \in Nat
    PROVE  InEscrow = SumUp(EscrowShares(ships))
  <1>1. IsFiniteSet(1..Len(ships))
    BY FS_Interval
  <1>2. MapThenSumSet(LAMBDA s : IF ships[s].status = "Active" THEN Cardinality(ships[s].open) ELSE 0,
                      1..Len(ships))
            = SumFunctionOnSet([s \in 1..Len(ships) |-> EscrowOf(ships[s])], 1..Len(ships))
    BY <1>1, EscrowSum
  <1> QED
    BY <1>2 DEF InEscrow, Active, Unreleased, Ids, SumUp, EscrowShares

LEMMA TotalIsSumUp == ASSUME NEW f PROVE Total(f) = SumUp(f)
  BY DEF Total, SumUp, MapThenSumSet, SumFunctionOnSet, FoldFunctionOnSet

LEMMA SumUpInt ==
    ASSUME NEW n \in Nat, NEW f \in [1..n -> Int]
    PROVE  SumUp(f) \in Int
  <1>1. IsFiniteSet(1..n) /\ DOMAIN f = 1..n
    BY FS_Interval
  <1> DEFINE D == DOMAIN f
  <1>2. IsFiniteSet(D) /\ \A i \in D : f[i] \in Int
    BY <1>1
  <1> HIDE DEF D
  <1>3. SumFunctionOnSet(f, D) \in Int
    BY <1>2, SumInt
  <1> QED
    BY <1>3 DEF D, SumUp

LEMMA SumUpReplace ==
    ASSUME NEW D, IsFiniteSet(D), NEW f \in [D -> Int], NEW a \in D, NEW x \in Int,
           NEW h \in [D -> Int], h[a] = x, \A i \in D : i # a => h[i] = f[i]
    PROVE  SumUp(h) = SumUp(f) + x - f[a] /\ SumUp(f) \in Int /\ SumUp(h) \in Int
  <1>1. /\ \A i \in D : f[i] \in Int /\ h[i] \in Int
        /\ \A i \in D \ {a} : h[i] = f[i]
        /\ DOMAIN f = D /\ DOMAIN h = D
    OBVIOUS
  <1>2. SumFunctionOnSet(h, D) = SumFunctionOnSet(f, D) + (h[a] - f[a])
    BY <1>1, SumChange
  <1>3. SumFunctionOnSet(f, D) \in Int /\ SumFunctionOnSet(h, D) \in Int
    BY <1>1, SumInt
  <1>4. SumUp(h) = SumUp(f) + (h[a] - f[a]) /\ SumUp(f) \in Int /\ SumUp(h) \in Int
    BY <1>1, <1>2, <1>3 DEF SumUp
  <1> QED
    BY <1>1, <1>4

LEMMA SumUpExtend ==
    ASSUME NEW n \in Nat, NEW f \in [1..n -> Int], NEW x \in Int, NEW h \in [1..(n + 1) -> Int],
           h[n + 1] = x, \A i \in 1..n : h[i] = f[i]
    PROVE  SumUp(h) = SumUp(f) + x /\ SumUp(f) \in Int /\ SumUp(h) \in Int
  <1> DEFINE D == 1..n
             E == 1..(n + 1)
  <1>0. IsFiniteSet(D)
    BY FS_Interval
  <1>1. /\ n + 1 \notin D /\ E = D \cup {n + 1}
        /\ DOMAIN f = D /\ DOMAIN h = E
        /\ \A i \in D : h[i] = f[i] /\ f[i] \in Int
        /\ \A i \in D \cup {n + 1} : h[i] \in Int
    OBVIOUS
  <1> HIDE DEF D, E
  <1>2. SumFunctionOnSet(h, D \cup {n + 1}) = h[n + 1] + SumFunctionOnSet(h, D)
    BY <1>0, <1>1, SumAdd
  <1>3. SumFunctionOnSet(h, D) = SumFunctionOnSet(f, D) /\ SumFunctionOnSet(f, D) \in Int
    BY <1>0, <1>1, SumCongruence, SumInt
  <1> QED
    BY <1>1, <1>2, <1>3 DEF SumUp

ShipRecords == [buyer : Buyers, recipient : Buyers, fromVault : BOOLEAN, open : SUBSET Milestones,
                slashed : SUBSET Milestones, locked : Int, share : Int,
                status : {"Active", "Completed", "Cancelled", "Expired"}]

(* The books: types, and the four equations. *)
BooksTyped ==
    /\ balance \in Int /\ totalEscrowed \in Int /\ totalVaulted \in Int /\ swept \in Int /\ ruled \in Int
    /\ vault \in [Buyers -> Int]
    /\ ships \in Seq(ShipRecords) /\ held \in Seq(Int) /\ Len(held) = Len(ships)

LocksHeld == \A s \in Ids : Active(s) => ships[s].locked = held[s]

BooksInv ==
    /\ BooksTyped /\ LocksHeld
    /\ totalVaulted = SumUp(vault)
    /\ totalEscrowed = SumUp(EscrowShares(ships)) + ruled
    /\ balance + swept = SumUp(EscrowShares(ships)) + totalVaulted + SumUp(held)

LEMMA EscrowOfInt ==
    ASSUME IsFiniteSet(Milestones), NEW r \in ShipRecords
    PROVE  EscrowOf(r) \in Nat
  <1>1. r.open \in SUBSET Milestones
    BY DEF ShipRecords
  <1> DEFINE o == r.open
  <1>2. Cardinality(o) \in Nat
    BY <1>1, FS_Subset, FS_CardinalityType
  <1> QED
    BY <1>2 DEF EscrowOf

LEMMA SharesTyped ==
    ASSUME IsFiniteSet(Milestones), NEW q \in Seq(ShipRecords)
    PROVE  /\ Len(q) \in Nat /\ EscrowShares(q) \in [1..Len(q) -> Int]
           /\ \A s \in 1..Len(q) : EscrowShares(q)[s] = EscrowOf(q[s]) /\ EscrowOf(q[s]) \in Int
           /\ SumUp(EscrowShares(q)) \in Int
  <1>1. Len(q) \in Nat /\ \A s \in 1..Len(q) : q[s] \in ShipRecords
    OBVIOUS
  <1>2. \A s \in 1..Len(q) : EscrowOf(q[s]) \in Int
    BY <1>1, EscrowOfInt
  <1>3. EscrowShares(q) \in [1..Len(q) -> Int] /\ \A s \in 1..Len(q) : EscrowShares(q)[s] = EscrowOf(q[s])
    BY <1>2 DEF EscrowShares
  <1> QED
    BY <1>1, <1>2, <1>3, SumUpInt

(* One shipment changes, and with it what is held for it. *)
ShipBecomes(s, r, x) == ships' = [ships EXCEPT ![s] = r] /\ held' = [held EXCEPT ![s] = x]

LEMMA ShipChanged ==
    ASSUME IsFiniteSet(Milestones), BooksTyped, LocksHeld,
           NEW s \in Ids, NEW r \in ShipRecords, NEW x \in Int, ShipBecomes(s, r, x),
           r.status = "Active" => r.locked = x
    PROVE  /\ ships' \in Seq(ShipRecords) /\ held' \in Seq(Int) /\ Len(held') = Len(ships')
           /\ LocksHeld'
           /\ SumUp(EscrowShares(ships')) = SumUp(EscrowShares(ships)) + EscrowOf(r) - EscrowOf(ships[s])
           /\ SumUp(held') = SumUp(held) + x - held[s]
           /\ SumUp(EscrowShares(ships)) \in Int /\ SumUp(held) \in Int
           /\ EscrowOf(r) \in Int /\ EscrowOf(ships[s]) \in Int /\ held[s] \in Int
  <1> DEFINE n == Len(ships)
  <1>1. /\ n \in Nat /\ s \in 1..n /\ ships \in Seq(ShipRecords) /\ held \in Seq(Int) /\ Len(held) = n
    BY DEF BooksTyped, Ids
  <1>2. /\ ships' \in Seq(ShipRecords) /\ Len(ships') = n /\ ships'[s] = r
        /\ \A i \in 1..n : i # s => ships'[i] = ships[i]
    BY <1>1 DEF ShipBecomes
  <1>3. /\ held' \in Seq(Int) /\ Len(held') = n /\ held'[s] = x /\ held \in [1..n -> Int]
        /\ held' \in [1..n -> Int]
        /\ \A i \in 1..n : i # s => held'[i] = held[i]
    BY <1>1 DEF ShipBecomes
  <1>4. LocksHeld'
    <2>1. ASSUME NEW i \in 1..n, ships'[i].status = "Active"
          PROVE  ships'[i].locked = held'[i]
      <3>1. CASE i = s
        BY <1>2, <1>3, <2>1, <3>1
      <3>2. CASE i # s
        <4>1. ships[i].status = "Active" => ships[i].locked = held[i]
          BY DEF LocksHeld, Ids, Active
        <4> QED
          BY <1>2, <1>3, <2>1, <3>2, <4>1
      <3> QED
        BY <3>1, <3>2
    <2> QED
      BY <1>2, <2>1 DEF LocksHeld, Ids, Active
  <1>5. IsFiniteSet(1..n)
    BY <1>1, FS_Interval
  <1> DEFINE D == 1..n
  <1>6. SumUp(held') = SumUp(held) + x - held[s] /\ SumUp(held) \in Int
    <2> DEFINE f == held
               h == held'
    <2>1. /\ f \in [D -> Int] /\ h \in [D -> Int] /\ h[s] = x /\ s \in D /\ IsFiniteSet(D)
          /\ \A i \in D : i # s => h[i] = f[i]
      BY <1>1, <1>3, <1>5
    <2> HIDE DEF D, f, h
    <2>2. SumUp(h) = SumUp(f) + x - f[s] /\ SumUp(f) \in Int
      BY <2>1, SumUpReplace
    <2> QED
      BY <2>2 DEF f, h
  <1> DEFINE e == EscrowShares(ships)
             g == EscrowShares(ships')
  <1>7. /\ e \in [1..n -> Int] /\ g \in [1..n -> Int]
        /\ g[s] = EscrowOf(r) /\ EscrowOf(r) \in Int /\ e[s] = EscrowOf(ships[s])
        /\ \A i \in 1..n : i # s => g[i] = e[i]
        /\ e[s] \in Int
    <2>1. \A i \in 1..n : e[i] = EscrowOf(ships[i]) /\ g[i] = EscrowOf(ships'[i])
      BY <1>1, <1>2, SharesTyped
    <2>2. e \in [1..n -> Int] /\ g \in [1..n -> Int]
      BY <1>1, <1>2, SharesTyped
    <2> HIDE DEF e, g
    <2> QED
      BY <1>1, <1>2, <2>1, <2>2, EscrowOfInt
  <1> HIDE DEF e, g
  <1>8. SumUp(g) = SumUp(e) + EscrowOf(r) - e[s] /\ SumUp(e) \in Int
    <2> DEFINE y == EscrowOf(r)
    <2>1. /\ e \in [D -> Int] /\ g \in [D -> Int] /\ g[s] = y /\ s \in D /\ IsFiniteSet(D)
          /\ \A i \in D : i # s => g[i] = e[i]
          /\ y \in Int
      BY <1>1, <1>5, <1>7
    <2> HIDE DEF D, y
    <2>2. SumUp(g) = SumUp(e) + y - e[s] /\ SumUp(e) \in Int
      BY <2>1, SumUpReplace
    <2> QED
      BY <2>2 DEF y
  <1>9. held[s] \in Int
    BY <1>1, <1>3
  <1> QED
    BY <1>2, <1>3, <1>4, <1>6, <1>7, <1>8, <1>9 DEF e, g

LEMMA VaultChanged ==
    ASSUME IsFiniteSet(Buyers), BooksTyped, NEW b \in Buyers, NEW n \in Int,
           vault' = [vault EXCEPT ![b] = @ + n]
    PROVE  /\ vault' \in [Buyers -> Int]
           /\ SumUp(vault') = SumUp(vault) + n /\ SumUp(vault) \in Int
  <1> DEFINE x == vault[b] + n
  <1>1. /\ vault \in [Buyers -> Int] /\ vault' \in [Buyers -> Int] /\ vault'[b] = x
        /\ \A i \in Buyers : i # b => vault'[i] = vault[i]
        /\ x \in Int /\ vault[b] \in Int
    BY DEF BooksTyped
  <1> DEFINE f == vault
             h == vault'
             a == b
  <1>2. /\ f \in [Buyers -> Int] /\ h \in [Buyers -> Int] /\ h[a] = x /\ a \in Buyers
        /\ x \in Int /\ \A i \in Buyers : i # a => h[i] = f[i]
    BY <1>1
  <1> HIDE DEF x, f, h, a
  <1>3. SumUp(h) = SumUp(f) + x - f[a] /\ SumUp(f) \in Int /\ SumUp(h) \in Int
    BY <1>2, SumUpReplace
  <1> QED
    BY <1>1, <1>3 DEF x, f, h, a

(* A step keeps the books when it moves the two sides of each equation alike:
   by "de" in escrow, "dv" in the vaults and "dh" in collateral. *)
LEMMA BooksMove ==
    ASSUME BooksInv, BooksTyped', LocksHeld', NEW de \in Int, NEW dv \in Int, NEW dh \in Int,
           SumUp(EscrowShares(ships)) \in Int, SumUp(vault) \in Int, SumUp(held) \in Int,
           SumUp(EscrowShares(ships')) = SumUp(EscrowShares(ships)) + de,
           SumUp(vault') = SumUp(vault) + dv, SumUp(held') = SumUp(held) + dh,
           totalVaulted' = totalVaulted + dv,
           totalEscrowed' = totalEscrowed + de + (ruled' - ruled),
           balance' + swept' = balance + swept + de + dv + dh
    PROVE  BooksInv'
  <1>1. /\ balance \in Int /\ totalEscrowed \in Int /\ totalVaulted \in Int /\ swept \in Int /\ ruled \in Int
        /\ totalVaulted = SumUp(vault) /\ totalEscrowed = SumUp(EscrowShares(ships)) + ruled
        /\ balance + swept = SumUp(EscrowShares(ships)) + totalVaulted + SumUp(held)
    BY DEF BooksInv, BooksTyped
  <1>2. ruled' \in Int /\ totalVaulted' \in Int /\ balance' \in Int /\ swept' \in Int /\ totalEscrowed' \in Int
    BY DEF BooksTyped
  <1> DEFINE e == SumUp(EscrowShares(ships))
             v == SumUp(vault)
             k == SumUp(held)
  <1> HIDE DEF e, v, k
  <1>3. e \in Int /\ v \in Int /\ k \in Int
    BY DEF e, v, k
  <1>4. totalVaulted = v /\ totalEscrowed = e + ruled /\ balance + swept = e + totalVaulted + k
    BY <1>1 DEF e, v, k
  <1>5. /\ totalVaulted' = v + dv /\ totalEscrowed' = (e + de) + ruled'
        /\ balance' + swept' = (e + de) + totalVaulted' + (k + dh)
    <2>1. totalVaulted' = v + dv
      BY <1>4
    <2>2. totalEscrowed' = (e + de) + ruled'
      BY <1>1, <1>2, <1>3, <1>4
    <2>3. balance' + swept' = (balance + swept) + de + dv + dh
      BY <1>1, <1>2
    <2>4. (balance + swept) + de + dv + dh = (e + v + k) + de + dv + dh
      BY <1>4
    <2>5. (e + v + k) + de + dv + dh = (e + de) + (v + dv) + (k + dh)
      BY <1>3
    <2> QED
      BY <2>1, <2>2, <2>3, <2>4, <2>5
  <1>6. /\ SumUp(EscrowShares(ships')) = e + de /\ SumUp(vault') = v + dv /\ SumUp(held') = k + dh
    BY DEF e, v, k
  <1> QED
    BY <1>5, <1>6 DEF BooksInv

LEMMA SumsTyped ==
    ASSUME IsFiniteSet(Milestones), IsFiniteSet(Buyers), BooksTyped
    PROVE  SumUp(EscrowShares(ships)) \in Int /\ SumUp(vault) \in Int /\ SumUp(held) \in Int
  <1>1. SumUp(EscrowShares(ships)) \in Int
    BY SharesTyped DEF BooksTyped
  <1>2. SumUp(vault) \in Int
    <2> DEFINE f == vault
    <2>1. (\A b \in Buyers : f[b] \in Int) /\ DOMAIN f = Buyers
      BY DEF BooksTyped
    <2> HIDE DEF f
    <2>2. SumUp(f) \in Int
      BY <2>1, SumInt DEF SumUp
    <2> QED
      BY <2>2 DEF f
  <1>3. SumUp(held) \in Int
    <2> DEFINE f == held
               n == Len(held)
    <2>1. n \in Nat /\ f \in [1..n -> Int]
      BY DEF BooksTyped
    <2> HIDE DEF f, n
    <2>2. SumUp(f) \in Int
      BY <2>1, SumUpInt
    <2> QED
      BY <2>2 DEF f
  <1> QED
    BY <1>1, <1>2, <1>3

(* A refund goes into the vault or out of the contract, all of it. *)
LEMMA RefundMoves ==
    ASSUME IsFiniteSet(Buyers), BooksTyped, NEW s \in Ids, NEW n \in Int, RefundToBuyer(s, n)
    PROVE  /\ vault' \in [Buyers -> Int] /\ balance' \in Int /\ totalVaulted' \in Int
           /\ SumUp(vault) \in Int
           /\ \E dv \in Int : /\ SumUp(vault') = SumUp(vault) + dv
                              /\ totalVaulted' = totalVaulted + dv /\ balance' = balance + dv - n
  <1>1. /\ ships[s].recipient \in Buyers /\ balance \in Int /\ totalVaulted \in Int /\ vault \in [Buyers -> Int]
    <2>1. ships[s] \in ShipRecords
      BY DEF BooksTyped, Ids
    <2> QED
      BY <2>1 DEF BooksTyped, ShipRecords
  <1>2. CASE ships[s].fromVault
    <2> DEFINE b == ships[s].recipient
    <2>1. vault' = [vault EXCEPT ![b] = @ + n] /\ totalVaulted' = totalVaulted + n /\ balance' = balance
      BY <1>2 DEF RefundToBuyer
    <2>2. b \in Buyers
      BY <1>1
    <2> HIDE DEF b
    <2>3. vault' \in [Buyers -> Int] /\ SumUp(vault') = SumUp(vault) + n /\ SumUp(vault) \in Int
      BY <2>1, <2>2, VaultChanged
    <2>4. balance' = balance + n - n
      BY <1>1, <2>1
    <2> QED
      BY <1>1, <2>1, <2>3, <2>4
  <1>3. CASE ~ships[s].fromVault
    <2>1. balance' = balance - n /\ vault' = vault /\ totalVaulted' = totalVaulted
      BY <1>3 DEF RefundToBuyer
    <2>2. SumUp(vault) \in Int
      <3> DEFINE f == vault
      <3>1. (\A b \in Buyers : f[b] \in Int) /\ DOMAIN f = Buyers
        BY <1>1
      <3> HIDE DEF f
      <3>2. SumUp(f) \in Int
        BY <3>1, SumInt DEF SumUp
      <3> QED
        BY <3>2 DEF f
    <2> DEFINE v == SumUp(vault)
               w == SumUp(vault')
    <2>3. w = v /\ v \in Int
      BY <2>1, <2>2
    <2> HIDE DEF v, w
    <2>4. w = v + 0 /\ totalVaulted' = totalVaulted + 0 /\ balance' = balance + 0 - n /\ 0 \in Int
      BY <1>1, <2>1, <2>3
    <2> QED
      BY <1>1, <2>1, <2>2, <2>4 DEF v, w
  <1> QED
    BY <1>2, <1>3

(* The record of a shipment that is running, its payments to the supplier, its
   refunds and its closing. *)
LEMMA ShipTyped ==
    ASSUME IsFiniteSet(Milestones), BooksTyped, NEW s \in Ids
    PROVE  /\ ships[s] \in ShipRecords /\ ships[s].locked \in Int /\ ships[s].share \in Int
           /\ ships[s].open \in SUBSET Milestones /\ ships[s].slashed \in SUBSET Milestones
           /\ IsFiniteSet(ships[s].open) /\ Unreleased(s) \in Nat /\ held[s] \in Int
           /\ s \in DOMAIN ships
  <1>1. /\ ships[s] \in ShipRecords /\ held[s] \in Int /\ s \in DOMAIN ships
    BY DEF BooksTyped, Ids
  <1> DEFINE r == ships[s]
             o == r.open
  <1>2. r \in ShipRecords
    BY <1>1
  <1> HIDE DEF r
  <1>3. o \in SUBSET Milestones /\ r.locked \in Int /\ r.share \in Int /\ r.slashed \in SUBSET Milestones
    BY <1>2 DEF ShipRecords
  <1> HIDE DEF o
  <1>4. IsFiniteSet(o) /\ Cardinality(o) \in Nat
    BY <1>3, FS_Subset, FS_CardinalityType
  <1> QED
    BY <1>1, <1>3, <1>4 DEF Unreleased, o, r

LEMMA PaymentMoves ==
    ASSUME IsFiniteSet(Milestones), IsFiniteSet(Buyers), BooksInv,
           NEW s \in Ids, NEW m, NEW share \in Int, NEW back \in Int,
           ships[s].open # {m} => back = 0,
           PaySupplier(s, m, share, back),
           \/ totalEscrowed' = totalEscrowed - 1 /\ ruled' = ruled
           \/ totalEscrowed' = totalEscrowed /\ ruled' = ruled + 1
    PROVE  BooksInv'
  <1> DEFINE o == ships[s].open
             done == o = {m}
             r == [ships[s] EXCEPT !.open = @ \ {m}, !.locked = @ - share,
                                   !.status = IF done THEN "Completed" ELSE @]
             x == held[s] - (share + back)
  <1>1. /\ ships[s].status = "Active" /\ m \in o
        /\ balance' = balance - (1 + share + back)
        /\ ships' = [ships EXCEPT ![s].open = @ \ {m}, ![s].locked = @ - share,
                                  ![s].status = IF done THEN "Completed" ELSE @]
        /\ held' = [held EXCEPT ![s] = x]
        /\ UNCHANGED <<totalVaulted, vault, swept>>
    BY DEF PaySupplier, Active
  <1>2. BooksTyped /\ LocksHeld
    BY DEF BooksInv
  <1>3. /\ ships[s] \in ShipRecords /\ ships[s].locked \in Int /\ o \in SUBSET Milestones /\ IsFiniteSet(o)
        /\ held[s] \in Int /\ s \in DOMAIN ships
    BY <1>2, ShipTyped
  <1>4. ships[s].locked = held[s]
    BY <1>1, <1>2 DEF LocksHeld, Active
  <1>5. /\ r \in ShipRecords /\ r.locked = ships[s].locked - share /\ r.open = o \ {m}
        /\ r.status = IF done THEN "Completed" ELSE "Active"
    <2>1. ships[s].locked - share \in Int /\ o \ {m} \in SUBSET Milestones
      BY <1>3
    <2> QED
      BY <1>1, <1>3, <2>1 DEF ShipRecords
  <1>6. x \in Int /\ (r.status = "Active" => r.locked = x)
    BY <1>3, <1>4, <1>5
  <1>7. ShipBecomes(s, r, x)
    BY <1>1, <1>3 DEF ShipBecomes
  <1>8. EscrowOf(r) - EscrowOf(ships[s]) = 0 - 1
    <2>1. Cardinality(o) \in Nat /\ Cardinality(o \ {m}) = Cardinality(o) - 1
      <3> HIDE DEF o
      <3> QED
        BY <1>1, <1>3, FS_RemoveElement, FS_CardinalityType
    <2>2. EscrowOf(ships[s]) = Cardinality(o)
      BY <1>1 DEF EscrowOf
    <2>3. CASE done
      <3>1. Cardinality(o) = 1
        BY <2>3, FS_Singleton
      <3>2. EscrowOf(r) = 0
        BY <1>5, <2>3 DEF EscrowOf
      <3> QED
        BY <2>2, <3>1, <3>2
    <2>4. CASE ~done
      <3>1. EscrowOf(r) = Cardinality(o \ {m})
        BY <1>5, <2>4 DEF EscrowOf
      <3> QED
        BY <2>1, <2>2, <3>1
    <2> QED
      BY <2>3, <2>4
  <1> HIDE DEF r, x
  <1>9. /\ ships' \in Seq(ShipRecords) /\ held' \in Seq(Int) /\ Len(held') = Len(ships')
        /\ LocksHeld'
        /\ SumUp(EscrowShares(ships')) = SumUp(EscrowShares(ships)) + EscrowOf(r) - EscrowOf(ships[s])
        /\ SumUp(held') = SumUp(held) + x - held[s]
        /\ EscrowOf(r) \in Int /\ EscrowOf(ships[s]) \in Int
    BY <1>2, <1>5, <1>6, <1>7, ShipChanged
  <1>10. /\ SumUp(EscrowShares(ships)) \in Int /\ SumUp(vault) \in Int /\ SumUp(held) \in Int
    BY <1>2, SumsTyped
  <1>11. /\ balance \in Int /\ totalEscrowed \in Int /\ totalVaulted \in Int /\ swept \in Int /\ ruled \in Int
         /\ vault \in [Buyers -> Int]
    BY <1>2 DEF BooksTyped
  <1>12. BooksTyped'
    <2>1. balance' \in Int /\ totalEscrowed' \in Int /\ totalVaulted' \in Int /\ swept' \in Int /\ ruled' \in Int
      BY <1>1, <1>11
    <2> QED
      BY <1>1, <1>9, <1>11, <2>1 DEF BooksTyped
  <1> DEFINE dh == 0 - (share + back)
             de == 0 - 1
  <1>13. /\ SumUp(EscrowShares(ships')) = SumUp(EscrowShares(ships)) + de
         /\ SumUp(held') = SumUp(held) + dh
         /\ de \in Int /\ dh \in Int
    BY <1>3, <1>8, <1>9, <1>10 DEF x
  <1>14. SumUp(vault') = SumUp(vault) + 0
    BY <1>1, <1>10
  <1>15. /\ totalVaulted' = totalVaulted + 0
         /\ totalEscrowed' = totalEscrowed + de + (ruled' - ruled)
         /\ balance' + swept' = balance + swept + de + 0 + dh
    BY <1>1, <1>11
  <1> HIDE DEF de, dh
  <1> QED
    BY <1>9, <1>10, <1>12, <1>13, <1>14, <1>15, BooksMove

(* A step that changes one shipment, given what it does to the other accounts:
   the vaults move by dv, what is held for the shipment by dh. *)
LEMMA OneShipMoves ==
    ASSUME IsFiniteSet(Milestones), IsFiniteSet(Buyers), BooksInv,
           NEW s \in Ids, NEW r \in ShipRecords, NEW dv \in Int, NEW dh \in Int, NEW de \in Int,
           ships' = [ships EXCEPT ![s] = r], held' = [held EXCEPT ![s] = @ + dh],
           r.status = "Active" => r.locked = held[s] + dh,
           EscrowOf(r) = EscrowOf(ships[s]) + de,
           vault' \in [Buyers -> Int], SumUp(vault') = SumUp(vault) + dv,
           totalVaulted' = totalVaulted + dv, totalEscrowed' = totalEscrowed + de,
           balance' = balance + de + dv + dh, swept' = swept, ruled' = ruled
    PROVE  BooksInv'
  <1> DEFINE x == held[s] + dh
  <1>1. BooksTyped /\ LocksHeld
    BY DEF BooksInv
  <1>2. held[s] \in Int /\ x \in Int
    BY <1>1, ShipTyped
  <1>3. ShipBecomes(s, r, x) /\ (r.status = "Active" => r.locked = x)
    BY DEF ShipBecomes
  <1> HIDE DEF x
  <1>4. /\ ships' \in Seq(ShipRecords) /\ held' \in Seq(Int) /\ Len(held') = Len(ships')
        /\ LocksHeld'
        /\ SumUp(EscrowShares(ships')) = SumUp(EscrowShares(ships)) + EscrowOf(r) - EscrowOf(ships[s])
        /\ SumUp(held') = SumUp(held) + x - held[s]
        /\ EscrowOf(r) \in Int /\ EscrowOf(ships[s]) \in Int
    BY <1>1, <1>2, <1>3, ShipChanged
  <1>5. /\ SumUp(EscrowShares(ships)) \in Int /\ SumUp(vault) \in Int /\ SumUp(held) \in Int
    BY <1>1, SumsTyped
  <1>6. /\ balance \in Int /\ totalEscrowed \in Int /\ totalVaulted \in Int /\ swept \in Int /\ ruled \in Int
    BY <1>1 DEF BooksTyped
  <1>7. BooksTyped'
    <2>1. balance' \in Int /\ totalEscrowed' \in Int /\ totalVaulted' \in Int /\ swept' \in Int /\ ruled' \in Int
      BY <1>6
    <2> QED
      BY <1>4, <2>1 DEF BooksTyped
  <1>8. /\ SumUp(EscrowShares(ships')) = SumUp(EscrowShares(ships)) + de
        /\ SumUp(held') = SumUp(held) + dh
    <2>1. SumUp(EscrowShares(ships')) = SumUp(EscrowShares(ships)) + de
      BY <1>4, <1>5
    <2>2. SumUp(held') = SumUp(held) + dh
      <3> DEFINE k == SumUp(held)
                 q == held[s]
      <3>1. SumUp(held') = k + x - q /\ k \in Int /\ q \in Int /\ x = q + dh
        BY <1>2, <1>4, <1>5 DEF x
      <3> HIDE DEF k, q, x
      <3>2. SumUp(held') = k + dh
        BY <3>1
      <3> QED
        BY <3>2 DEF k
    <2> QED
      BY <2>1, <2>2
  <1>9. /\ totalEscrowed' = totalEscrowed + de + (ruled' - ruled)
        /\ balance' + swept' = balance + swept + de + dv + dh
    BY <1>6
  <1> QED
    BY <1>4, <1>5, <1>7, <1>8, <1>9, BooksMove

LEMMA ClosingMoves ==
    ASSUME IsFiniteSet(Milestones), IsFiniteSet(Buyers), BooksInv,
           NEW s \in Ids, Active(s), NEW status \in {"Cancelled", "Expired"}, NEW locked \in Int,
           Close(s, status, locked), NEW dv \in Int,
           vault' \in [Buyers -> Int], SumUp(vault') = SumUp(vault) + dv,
           totalVaulted' = totalVaulted + dv,
           balance' = balance + dv - (Unreleased(s) + locked)
    PROVE  BooksInv'
  <1> DEFINE r == [ships[s] EXCEPT !.status = status]
             dh == 0 - locked
             de == 0 - Unreleased(s)
  <1>1. BooksTyped
    BY DEF BooksInv
  <1>2. /\ ships[s] \in ShipRecords /\ Unreleased(s) \in Nat /\ held[s] \in Int /\ s \in DOMAIN ships
    BY <1>1, ShipTyped
  <1>3. /\ ships' = [ships EXCEPT ![s] = r] /\ r \in ShipRecords /\ r.status = status
    BY <1>2 DEF Close, ShipRecords
  <1>4. held' = [held EXCEPT ![s] = @ + dh]
    <2>1. held' = [held EXCEPT ![s] = held[s] - locked] /\ held[s] - locked = held[s] + dh
      BY <1>2 DEF Close
    <2> HIDE DEF dh
    <2> QED
      BY <2>1
  <1>5. EscrowOf(r) = EscrowOf(ships[s]) + de
    <2>1. EscrowOf(r) = 0 /\ EscrowOf(ships[s]) = Unreleased(s)
      BY <1>3 DEF EscrowOf, Active, Unreleased
    <2> QED
      BY <1>2, <2>1
  <1>6. balance \in Int /\ totalEscrowed \in Int
    BY <1>1 DEF BooksTyped
  <1>7. /\ totalEscrowed' = totalEscrowed + de /\ balance' = balance + de + dv + dh
        /\ swept' = swept /\ ruled' = ruled /\ de \in Int /\ dh \in Int
    BY <1>2, <1>6 DEF Close
  <1>8. r.status # "Active"
    BY <1>3
  <1> HIDE DEF r, de, dh
  <1> QED
    BY <1>3, <1>4, <1>5, <1>7, <1>8, OneShipMoves

LEMMA ClosedForBuyer ==
    ASSUME IsFiniteSet(Milestones), IsFiniteSet(Buyers), BooksInv, NEW s \in Ids, CloseForBuyer(s)
    PROVE  BooksInv'
  <1> DEFINE locked == ships[s].locked
             n == Unreleased(s) + locked
  <1>1. Active(s) /\ RefundToBuyer(s, n) /\ Close(s, "Cancelled", locked)
    BY DEF CloseForBuyer
  <1>2. BooksTyped
    BY DEF BooksInv
  <1>3. locked \in Int /\ n \in Int /\ n = Unreleased(s) + locked
    BY <1>2, ShipTyped
  <1> HIDE DEF locked, n
  <1>4. /\ vault' \in [Buyers -> Int]
        /\ \E dv \in Int : /\ SumUp(vault') = SumUp(vault) + dv
                           /\ totalVaulted' = totalVaulted + dv /\ balance' = balance + dv - n
    BY <1>1, <1>2, <1>3, RefundMoves
  <1>5. PICK dv \in Int : /\ SumUp(vault') = SumUp(vault) + dv
                          /\ totalVaulted' = totalVaulted + dv /\ balance' = balance + dv - n
    BY <1>4
  <1>6. balance' = balance + dv - (Unreleased(s) + locked)
    BY <1>3, <1>5
  <1> QED
    BY <1>1, <1>3, <1>4, <1>5, <1>6, ClosingMoves

LEMMA ClosedOutwards ==
    ASSUME IsFiniteSet(Milestones), IsFiniteSet(Buyers), BooksInv, NEW s \in Ids,
           NEW status \in {"Cancelled", "Expired"}, NEW locked \in Int, CloseOutwards(s, status, locked)
    PROVE  BooksInv'
  <1>1. /\ Active(s) /\ Close(s, status, locked) /\ balance' = balance - (Unreleased(s) + locked)
        /\ totalVaulted' = totalVaulted /\ vault' = vault
    BY DEF CloseOutwards
  <1>2. BooksTyped
    BY DEF BooksInv
  <1>3. /\ SumUp(vault) \in Int /\ Unreleased(s) \in Nat /\ balance \in Int /\ totalVaulted \in Int
        /\ vault' \in [Buyers -> Int]
    BY <1>1, <1>2, SumsTyped, ShipTyped DEF BooksTyped
  <1>4. /\ SumUp(vault') = SumUp(vault) + 0 /\ totalVaulted' = totalVaulted + 0
        /\ balance' = balance + 0 - (Unreleased(s) + locked)
    BY <1>1, <1>3
  <1> QED
    BY <1>1, <1>3, <1>4, ClosingMoves

(* Collateral is slashed, topped up, or made incremental. *)
LEMMA SlashMoves ==
    ASSUME IsFiniteSet(Milestones), IsFiniteSet(Buyers), BooksInv, NEW s \in Ids, NEW m \in Milestones,
           SlashCollateralForMiss(s, m)
    PROVE  BooksInv'
  <1> DEFINE slash == Least((ships[s].locked * SlashBps) \div FullBps, ships[s].locked)
             r == [ships[s] EXCEPT !.locked = @ - slash, !.slashed = @ \cup {m}]
             dh == 0 - slash
  <1>1. /\ ships[s].status = "Active" /\ RefundToBuyer(s, slash)
        /\ ships' = [ships EXCEPT ![s].locked = @ - slash, ![s].slashed = @ \cup {m}]
        /\ held' = [held EXCEPT ![s] = @ - slash]
        /\ totalEscrowed' = totalEscrowed /\ swept' = swept /\ ruled' = ruled
    BY DEF SlashCollateralForMiss, Active
  <1>2. BooksTyped /\ LocksHeld
    BY DEF BooksInv
  <1>3. /\ ships[s] \in ShipRecords /\ ships[s].locked \in Int /\ ships[s].slashed \in SUBSET Milestones
        /\ held[s] \in Int /\ s \in DOMAIN ships /\ held[s] = ships[s].locked
    BY <1>1, <1>2, ShipTyped DEF LocksHeld, Active
  <1>4. slash \in Int
    <2> DEFINE a == ships[s].locked
               p == a * SlashBps
    <2>1. a \in Int /\ SlashBps \in Int /\ FullBps \in Nat /\ FullBps > 0
      BY <1>3, TreasuryAssumption
    <2>2. p \in Int
      BY <2>1
    <2> HIDE DEF a, p
    <2>3. p \div FullBps \in Int
      BY <2>1, <2>2
    <2>4. Least(p \div FullBps, a) \in Int
      BY <2>1, <2>3 DEF Least
    <2> QED
      BY <2>4 DEF a, p
  <1> HIDE DEF slash
  <1>5. /\ r \in ShipRecords /\ r.locked = ships[s].locked - slash /\ r.status = ships[s].status
        /\ r.open = ships[s].open
    <2>1. ships[s].locked - slash \in Int /\ ships[s].slashed \cup {m} \in SUBSET Milestones
      BY <1>3, <1>4
    <2> QED
      BY <1>3, <2>1 DEF ShipRecords
  <1>6. ships' = [ships EXCEPT ![s] = r]
    BY <1>1, <1>3
  <1>7. held' = [held EXCEPT ![s] = @ + dh] /\ r.locked = held[s] + dh /\ dh \in Int
    <2>1. held[s] - slash = held[s] + dh /\ dh \in Int
      BY <1>3, <1>4
    <2> HIDE DEF dh
    <2> QED
      BY <1>1, <1>3, <1>5, <2>1
  <1> HIDE DEF r
  <1> DEFINE de == 0
  <1>8. EscrowOf(r) = EscrowOf(ships[s]) + de /\ de \in Int
    <2>1. EscrowOf(ships[s]) \in Nat /\ EscrowOf(r) = EscrowOf(ships[s])
      BY <1>3, <1>5, EscrowOfInt DEF EscrowOf
    <2> QED
      BY <2>1
  <1>9. /\ vault' \in [Buyers -> Int]
        /\ \E dv \in Int : /\ SumUp(vault') = SumUp(vault) + dv
                           /\ totalVaulted' = totalVaulted + dv /\ balance' = balance + dv - slash
    BY <1>1, <1>2, <1>4, RefundMoves
  <1>10. PICK dv \in Int : /\ SumUp(vault') = SumUp(vault) + dv
                           /\ totalVaulted' = totalVaulted + dv /\ balance' = balance + dv - slash
    BY <1>9
  <1>11. balance \in Int /\ totalEscrowed \in Int
    BY <1>2 DEF BooksTyped
  <1>12. balance' = balance + de + dv + dh /\ totalEscrowed' = totalEscrowed + de
    BY <1>1, <1>4, <1>10, <1>11
  <1>13. /\ r.status = "Active" => r.locked = held[s] + dh
         /\ held' = [held EXCEPT ![s] = @ + dh] /\ dh \in Int
         /\ swept' = swept /\ ruled' = ruled
    BY <1>1, <1>7
  <1>14. /\ vault' \in [Buyers -> Int] /\ SumUp(vault') = SumUp(vault) + dv
         /\ totalVaulted' = totalVaulted + dv
    BY <1>9, <1>10
  <1>15. r \in ShipRecords
    BY <1>5
  <1> HIDE DEF dh, de
  <1> QED
    BY <1>6, <1>8, <1>12, <1>13, <1>14, <1>15, OneShipMoves

LEMMA TopUpMoves ==
    ASSUME IsFiniteSet(Milestones), IsFiniteSet(Buyers), BooksInv, NEW s \in Ids, NEW n \in Amounts,
           TopUpCollateral(s, n)
    PROVE  BooksInv'
  <1> DEFINE r == [ships[s] EXCEPT !.locked = @ + n]
  <1>1. /\ ships[s].status = "Active" /\ balance' = balance + n
        /\ ships' = [ships EXCEPT ![s].locked = @ + n] /\ held' = [held EXCEPT ![s] = @ + n]
        /\ totalEscrowed' = totalEscrowed /\ totalVaulted' = totalVaulted /\ vault' = vault
        /\ swept' = swept /\ ruled' = ruled
    BY DEF TopUpCollateral, Active
  <1>2. BooksTyped /\ LocksHeld /\ n \in Int
    BY TreasuryAssumption DEF BooksInv
  <1>3. /\ ships[s] \in ShipRecords /\ ships[s].locked \in Int
        /\ held[s] \in Int /\ s \in DOMAIN ships /\ held[s] = ships[s].locked
    BY <1>1, <1>2, ShipTyped DEF LocksHeld, Active
  <1>4. /\ r \in ShipRecords /\ r.locked = held[s] + n /\ r.status = ships[s].status
        /\ r.open = ships[s].open
    <2>1. ships[s].locked + n \in Int
      BY <1>2, <1>3
    <2> QED
      BY <1>3, <2>1 DEF ShipRecords
  <1>5. ships' = [ships EXCEPT ![s] = r]
    BY <1>1, <1>3
  <1> DEFINE none == 0
  <1> HIDE DEF r
  <1>6. EscrowOf(r) = EscrowOf(ships[s]) + none /\ none \in Int
    <2>1. EscrowOf(ships[s]) \in Nat /\ EscrowOf(r) = EscrowOf(ships[s])
      BY <1>3, <1>4, EscrowOfInt DEF EscrowOf
    <2> QED
      BY <2>1
  <1>7. balance \in Int /\ totalEscrowed \in Int /\ totalVaulted \in Int /\ vault' \in [Buyers -> Int]
    BY <1>1, <1>2 DEF BooksTyped
  <1>8. SumUp(vault) \in Int
    BY <1>2, SumsTyped
  <1>9. /\ balance' = balance + none + none + n /\ totalEscrowed' = totalEscrowed + none
        /\ totalVaulted' = totalVaulted + none
    BY <1>1, <1>2, <1>7
  <1>10. SumUp(vault') = SumUp(vault) + none
    BY <1>1, <1>8
  <1> HIDE DEF none
  <1>11. /\ r.status = "Active" => r.locked = held[s] + n
         /\ held' = [held EXCEPT ![s] = @ + n] /\ n \in Int
         /\ swept' = swept /\ ruled' = ruled /\ r \in ShipRecords
    BY <1>1, <1>2, <1>4
  <1> QED
    BY <1>5, <1>6, <1>7, <1>9, <1>10, <1>11, OneShipMoves

(* A shipment's record may change in what the books do not look at. *)
LEMMA RecordMoves ==
    ASSUME IsFiniteSet(Milestones), IsFiniteSet(Buyers), BooksInv, NEW s \in Ids, NEW r \in ShipRecords,
           r.locked = ships[s].locked, r.open = ships[s].open, r.status = ships[s].status,
           ships' = [ships EXCEPT ![s] = r], UNCHANGED <<moneyVars, held>>
    PROVE  BooksInv'
  <1>1. /\ balance' = balance /\ totalEscrowed' = totalEscrowed /\ totalVaulted' = totalVaulted
        /\ vault' = vault /\ swept' = swept /\ ruled' = ruled /\ held' = held
    BY DEF moneyVars
  <1> DEFINE none == 0
  <1>2. BooksTyped /\ LocksHeld
    BY DEF BooksInv
  <1>3. held[s] \in Int /\ ships[s] \in ShipRecords /\ held \in Seq(Int) /\ s \in DOMAIN held
    BY <1>2, ShipTyped DEF BooksTyped, Ids
  <1>0. held[s] + none = held[s]
    BY <1>3
  <1>4. held' = [held EXCEPT ![s] = @ + none]
    BY <1>0, <1>1, <1>3
  <1>5. r.status = "Active" => r.locked = held[s] + none
    <2>1. ships[s].status = "Active" => ships[s].locked = held[s]
      BY <1>2 DEF LocksHeld, Active
    <2> HIDE DEF none
    <2> QED
      BY <1>0, <2>1
  <1>6. EscrowOf(r) = EscrowOf(ships[s]) + none /\ none \in Int
    <2>1. EscrowOf(ships[s]) \in Nat /\ EscrowOf(r) = EscrowOf(ships[s])
      BY <1>3, EscrowOfInt DEF EscrowOf
    <2> QED
      BY <2>1
  <1>7. balance \in Int /\ totalEscrowed \in Int /\ totalVaulted \in Int /\ vault' \in [Buyers -> Int]
    BY <1>1, <1>2 DEF BooksTyped
  <1>8. SumUp(vault) \in Int
    BY <1>2, SumsTyped
  <1>9. /\ balance' = balance + none + none + none /\ totalEscrowed' = totalEscrowed + none
        /\ totalVaulted' = totalVaulted + none
    BY <1>1, <1>7
  <1>10. SumUp(vault') = SumUp(vault) + none
    BY <1>1, <1>8
  <1> HIDE DEF none
  <1> QED
    BY <1>1, <1>4, <1>5, <1>6, <1>7, <1>9, <1>10, OneShipMoves

(* A shipment enters, paid for from outside or from its buyer's vault. *)
LEMMA EnterMoves ==
    ASSUME IsFiniteSet(Milestones), IsFiniteSet(Buyers), BooksInv,
           NEW b \in Buyers, NEW fromVault \in BOOLEAN, NEW locked \in Int, Enter(b, fromVault, locked)
    PROVE  BooksInv'
  <1> DEFINE n == Len(ships)
             r == [buyer |-> b, recipient |-> b, fromVault |-> fromVault, open |-> Milestones,
                   slashed |-> {}, locked |-> locked, share |-> 0, status |-> "Active"]
  <1>1. /\ ships' = Append(ships, r) /\ held' = Append(held, locked)
        /\ totalEscrowed' = totalEscrowed + Price /\ swept' = swept /\ ruled' = ruled
    BY DEF Enter
  <1>2. /\ balance \in Int /\ totalEscrowed \in Int /\ totalVaulted \in Int /\ swept \in Int /\ ruled \in Int
        /\ vault \in [Buyers -> Int] /\ Price \in Nat
    BY FS_CardinalityType DEF BooksInv, BooksTyped, Price
  <1>3. /\ r \in ShipRecords /\ r.status = "Active" /\ r.locked = locked
    BY DEF ShipRecords
  <1>4. EscrowOf(r) = Price
    BY DEF EscrowOf, Price
  <1>5. BooksTyped /\ LocksHeld
    BY DEF BooksInv
  <1>6. /\ n \in Nat /\ ships \in Seq(ShipRecords) /\ held \in Seq(Int) /\ Len(held) = n
    BY <1>5 DEF BooksTyped
  <1> HIDE DEF r
  <1>7. /\ ships' \in Seq(ShipRecords) /\ Len(ships') = n + 1 /\ ships'[n + 1] = r
        /\ \A i \in 1..n : ships'[i] = ships[i]
    BY <1>1, <1>3, <1>6
  <1>8. /\ held' \in Seq(Int) /\ Len(held') = n + 1 /\ held'[n + 1] = locked
        /\ \A i \in 1..n : held'[i] = held[i]
    BY <1>1, <1>6
  <1>9. LocksHeld'
    <2>1. ASSUME NEW i \in 1..(n + 1), ships'[i].status = "Active"
          PROVE  ships'[i].locked = held'[i]
      <3>1. CASE i = n + 1
        BY <1>3, <1>7, <1>8, <3>1
      <3>2. CASE i \in 1..n
        <4>1. ships[i].status = "Active" => ships[i].locked = held[i]
          BY <1>5, <3>2 DEF LocksHeld, Ids, Active
        <4> QED
          BY <1>7, <1>8, <2>1, <3>2, <4>1
      <3> QED
        BY <1>6, <3>1, <3>2
    <2> QED
      BY <1>7, <2>1 DEF LocksHeld, Ids, Active
  <1>10. SumUp(held') = SumUp(held) + locked /\ SumUp(held) \in Int
    <2> DEFINE f == held
               h == held'
    <2>1. /\ f \in [1..n -> Int] /\ h \in [1..(n + 1) -> Int] /\ h[n + 1] = locked
          /\ \A i \in 1..n : h[i] = f[i]
      BY <1>6, <1>8
    <2> HIDE DEF f, h, n
    <2>2. SumUp(h) = SumUp(f) + locked /\ SumUp(f) \in Int
      BY <1>6, <2>1, SumUpExtend
    <2> QED
      BY <2>2 DEF f, h
  <1>11. /\ SumUp(EscrowShares(ships')) = SumUp(EscrowShares(ships)) + Price
         /\ SumUp(EscrowShares(ships)) \in Int
    <2> DEFINE f == EscrowShares(ships)
               h == EscrowShares(ships')
    <2>1. /\ f \in [1..n -> Int] /\ \A i \in 1..n : f[i] = EscrowOf(ships[i])
      BY <1>6, SharesTyped
    <2>2. /\ h \in [1..(n + 1) -> Int] /\ \A i \in 1..(n + 1) : h[i] = EscrowOf(ships'[i])
      BY <1>7, SharesTyped
    <2> HIDE DEF f, h
    <2>3. h[n + 1] = Price /\ \A i \in 1..n : h[i] = f[i]
      BY <1>4, <1>6, <1>7, <2>1, <2>2
    <2> DEFINE p == Price
    <2>4. /\ p \in Int /\ n \in Nat /\ f \in [1..n -> Int] /\ h \in [1..(n + 1) -> Int]
          /\ h[n + 1] = p /\ \A i \in 1..n : h[i] = f[i]
      BY <1>2, <1>6, <2>1, <2>2, <2>3
    <2> HIDE DEF n, p
    <2>5. SumUp(h) = SumUp(f) + p /\ SumUp(f) \in Int
      BY <2>4, SumUpExtend
    <2> QED
      BY <2>5 DEF f, h, p
  <1>12. SumUp(vault) \in Int
    BY <1>5, SumsTyped
  <1>13. \E dv \in Int : /\ vault' \in [Buyers -> Int] /\ SumUp(vault') = SumUp(vault) + dv
                         /\ totalVaulted' = totalVaulted + dv
                         /\ balance' = balance + Price + dv + locked
    <2>1. CASE fromVault
      <3> DEFINE dv == 0 - Price
      <3>1. /\ vault' = [vault EXCEPT ![b] = @ - Price] /\ totalVaulted' = totalVaulted - Price
            /\ balance' = balance + locked
        BY <2>1 DEF Enter, DebitVault
      <3>2. vault[b] - Price = vault[b] + dv /\ dv \in Int
        BY <1>2
      <3>3. totalVaulted' = totalVaulted + dv /\ balance' = balance + Price + dv + locked
        BY <1>2, <3>1
      <3> HIDE DEF dv
      <3>4. vault' = [vault EXCEPT ![b] = @ + dv]
        BY <3>1, <3>2
      <3>5. vault' \in [Buyers -> Int] /\ SumUp(vault') = SumUp(vault) + dv
        BY <1>5, <3>2, <3>4, VaultChanged
      <3> QED
        BY <3>2, <3>3, <3>5
    <2>2. CASE ~fromVault
      <3> DEFINE dv == 0
      <3>1. /\ vault' = vault /\ totalVaulted' = totalVaulted /\ balance' = balance + Price + locked
        BY <2>2 DEF Enter
      <3>2. totalVaulted' = totalVaulted + dv /\ balance' = balance + Price + dv + locked /\ dv \in Int
        BY <1>2, <3>1
      <3>3. SumUp(vault') = SumUp(vault) + dv
        BY <1>12, <3>1
      <3> HIDE DEF dv
      <3> QED
        BY <1>2, <3>1, <3>2, <3>3
    <2> QED
      BY <2>1, <2>2
  <1>14. PICK dv \in Int : /\ vault' \in [Buyers -> Int] /\ SumUp(vault') = SumUp(vault) + dv
                           /\ totalVaulted' = totalVaulted + dv
                           /\ balance' = balance + Price + dv + locked
    BY <1>13
  <1>15. BooksTyped'
    <2>1. balance' \in Int /\ totalEscrowed' \in Int /\ totalVaulted' \in Int /\ swept' \in Int /\ ruled' \in Int
      BY <1>1, <1>2, <1>14
    <2> QED
      BY <1>7, <1>8, <1>14, <2>1 DEF BooksTyped
  <1>16. /\ totalEscrowed' = totalEscrowed + Price + (ruled' - ruled)
         /\ balance' + swept' = balance + swept + Price + dv + locked
    BY <1>1, <1>2, <1>14
  <1>17. Price \in Int
    BY <1>2
  <1> QED
    BY <1>9, <1>10, <1>11, <1>12, <1>14, <1>15, <1>16, <1>17, BooksMove

(* Steps that move money between the vaults, the world and the admin. *)
LEMMA AccountsMove ==
    ASSUME IsFiniteSet(Milestones), IsFiniteSet(Buyers), BooksInv, NEW dv \in Int, NEW d \in Int,
           vault' \in [Buyers -> Int], SumUp(vault') = SumUp(vault) + dv,
           totalVaulted' = totalVaulted + dv, balance' = balance + dv - d, swept' = swept + d,
           totalEscrowed' = totalEscrowed, ruled' = ruled, ships' = ships, held' = held
    PROVE  BooksInv'
  <1>1. BooksTyped /\ LocksHeld
    BY DEF BooksInv
  <1>2. SumUp(EscrowShares(ships)) \in Int /\ SumUp(vault) \in Int /\ SumUp(held) \in Int
    BY <1>1, SumsTyped
  <1>3. /\ balance \in Int /\ totalEscrowed \in Int /\ totalVaulted \in Int /\ swept \in Int /\ ruled \in Int
        /\ ships' \in Seq(ShipRecords) /\ held' \in Seq(Int) /\ Len(held') = Len(ships')
    BY <1>1 DEF BooksTyped
  <1>4. BooksTyped'
    <2>1. balance' \in Int /\ totalEscrowed' \in Int /\ totalVaulted' \in Int /\ swept' \in Int /\ ruled' \in Int
      BY <1>3
    <2> QED
      BY <1>3, <2>1 DEF BooksTyped
  <1>5. LocksHeld'
    BY <1>1 DEF LocksHeld, Ids, Active
  <1> DEFINE none == 0
  <1>6. /\ SumUp(EscrowShares(ships')) = SumUp(EscrowShares(ships)) + none
        /\ SumUp(held') = SumUp(held) + none /\ none \in Int
    BY <1>2
  <1>7. /\ totalEscrowed' = totalEscrowed + none + (ruled' - ruled)
        /\ balance' + swept' = balance + swept + none + dv + none
    BY <1>3
  <1> HIDE DEF none
  <1> QED
    BY <1>2, <1>4, <1>5, <1>6, <1>7, BooksMove

LEMMA VaultMoves ==
    ASSUME IsFiniteSet(Milestones), IsFiniteSet(Buyers), BooksInv, NEW b \in Buyers, NEW n \in Amounts,
           VaultDeposit(b, n) \/ VaultWithdraw(b, n)
    PROVE  BooksInv'
  <1>1. BooksTyped /\ n \in Int
    BY TreasuryAssumption DEF BooksInv
  <1>2. /\ balance \in Int /\ totalVaulted \in Int /\ swept \in Int /\ vault \in [Buyers -> Int]
    BY <1>1 DEF BooksTyped
  <1>3. PICK dv \in Int : /\ vault' = [vault EXCEPT ![b] = @ + dv] /\ totalVaulted' = totalVaulted + dv
                          /\ balance' = balance + dv
    <2>1. CASE VaultDeposit(b, n)
      BY <1>1, <2>1 DEF VaultDeposit
    <2>2. CASE VaultWithdraw(b, n)
      <3> DEFINE dv == 0 - n
      <3>1. /\ vault' = [vault EXCEPT ![b] = @ - n] /\ totalVaulted' = totalVaulted - n /\ balance' = balance - n
        BY <2>2 DEF VaultWithdraw
      <3>2. vault[b] - n = vault[b] + dv /\ dv \in Int
        BY <1>1, <1>2
      <3>3. totalVaulted' = totalVaulted + dv /\ balance' = balance + dv
        BY <1>1, <1>2, <3>1
      <3> HIDE DEF dv
      <3>4. vault' = [vault EXCEPT ![b] = @ + dv]
        BY <3>1, <3>2
      <3> QED
        BY <3>2, <3>3, <3>4
    <2> QED
      BY <2>1, <2>2
  <1>4. /\ totalEscrowed' = totalEscrowed /\ swept' = swept /\ ruled' = ruled /\ ships' = ships /\ held' = held
    BY DEF VaultDeposit, VaultWithdraw
  <1>5. vault' \in [Buyers -> Int] /\ SumUp(vault') = SumUp(vault) + dv
    BY <1>1, <1>3, VaultChanged
  <1> DEFINE none == 0
  <1>6. balance' = balance + dv - none /\ swept' = swept + none /\ none \in Int
    BY <1>2, <1>3, <1>4
  <1> HIDE DEF none
  <1> QED
    BY <1>3, <1>4, <1>5, <1>6, AccountsMove

LEMMA DustMoves ==
    ASSUME IsFiniteSet(Milestones), IsFiniteSet(Buyers), BooksInv, WithdrawDust
    PROVE  BooksInv'
  <1> DEFINE d == balance - (totalEscrowed + totalVaulted)
             none == 0
  <1>1. /\ balance' = balance - d /\ swept' = swept + d /\ totalEscrowed' = totalEscrowed
        /\ totalVaulted' = totalVaulted /\ vault' = vault /\ ruled' = ruled /\ ships' = ships /\ held' = held
    BY DEF WithdrawDust
  <1>2. /\ balance \in Int /\ totalEscrowed \in Int /\ totalVaulted \in Int /\ swept \in Int
        /\ vault' \in [Buyers -> Int]
    BY <1>1 DEF BooksInv, BooksTyped
  <1>3. SumUp(vault) \in Int
    BY SumsTyped DEF BooksInv
  <1>4. d \in Int /\ none \in Int
    BY <1>2
  <1> HIDE DEF d
  <1>5. /\ SumUp(vault') = SumUp(vault) + none /\ totalVaulted' = totalVaulted + none
        /\ balance' = balance + none - d
    BY <1>1, <1>2, <1>3, <1>4
  <1> HIDE DEF none
  <1> QED
    BY <1>1, <1>2, <1>4, <1>5, AccountsMove

LEMMA RecipientMoves ==
    ASSUME IsFiniteSet(Milestones), IsFiniteSet(Buyers), BooksInv, NEW s \in Ids, NEW b \in Buyers,
           SetRefundRecipient(s, b)
    PROVE  BooksInv'
  <1> DEFINE r == [ships[s] EXCEPT !.recipient = b]
  <1>1. /\ ships' = [ships EXCEPT ![s].recipient = b] /\ UNCHANGED <<moneyVars, held>>
    BY DEF SetRefundRecipient
  <1>2. ships[s] \in ShipRecords /\ s \in DOMAIN ships
    BY ShipTyped DEF BooksInv
  <1>3. /\ r \in ShipRecords /\ r.locked = ships[s].locked /\ r.open = ships[s].open
        /\ r.status = ships[s].status
    BY <1>2 DEF ShipRecords
  <1>4. ships' = [ships EXCEPT ![s] = r]
    BY <1>1, <1>2
  <1> HIDE DEF r
  <1> QED
    BY <1>1, <1>3, <1>4, RecordMoves

LEMMA IncrementalMoves ==
    ASSUME IsFiniteSet(Milestones), IsFiniteSet(Buyers), BooksInv, NEW s \in Ids, NEW on \in BOOLEAN,
           SetIncrementalCollateral(s, on)
    PROVE  BooksInv'
  <1> DEFINE x == IF on THEN ships[s].locked ELSE 0
             r == [ships[s] EXCEPT !.share = x]
  <1>1. /\ ships' = [ships EXCEPT ![s].share = x] /\ UNCHANGED <<moneyVars, held>>
    BY DEF SetIncrementalCollateral
  <1>2. ships[s] \in ShipRecords /\ s \in DOMAIN ships /\ x \in Int
    BY ShipTyped DEF BooksInv
  <1> HIDE DEF x
  <1>3. /\ r \in ShipRecords /\ r.locked = ships[s].locked /\ r.open = ships[s].open
        /\ r.status = ships[s].status
    BY <1>2 DEF ShipRecords
  <1>4. ships' = [ships EXCEPT ![s] = r]
    BY <1>1, <1>2
  <1> HIDE DEF r
  <1> QED
    BY <1>1, <1>3, <1>4, RecordMoves

LEMMA SettlementMoves ==
    ASSUME IsFiniteSet(Milestones), IsFiniteSet(Buyers), BooksInv, NEW s \in Ids, NEW m \in Milestones,
           ConfirmMilestone(s, m) \/ ReleaseMilestone(s, m) \/ RuleForSupplier(s, m)
    PROVE  BooksInv'
  <1> DEFINE share == CollateralShare(s)
             back == IF ships[s].open = {m} THEN ships[s].locked - share ELSE 0
  <1>1. ships[s].locked \in Int /\ ships[s].share \in Int
    BY ShipTyped DEF BooksInv
  <1>2. share \in Int
    <2> DEFINE a == ships[s].share
               b == ships[s].locked
    <2>1. Price \in Nat /\ Price > 0
      <3>1. Cardinality(Milestones) \in Nat /\ Cardinality(Milestones) # 0
        BY FS_CardinalityType, FS_EmptySet
      <3> QED
        BY <3>1 DEF Price
    <2>2. a \in Int /\ b \in Int
      BY <1>1
    <2> HIDE DEF a, b
    <2>3. a \div Price \in Int
      BY <2>1, <2>2
    <2>4. Least(a \div Price, b) \in Int
      BY <2>2, <2>3 DEF Least
    <2> QED
      BY <2>4 DEF CollateralShare, a, b
  <1>3. back \in Int /\ (ships[s].open # {m} => back = 0)
    BY <1>1, <1>2
  <1>4. \/ PaySupplier(s, m, share, back) /\ totalEscrowed' = totalEscrowed - 1 /\ ruled' = ruled
        \/ PaySupplier(s, m, share, 0) /\ totalEscrowed' = totalEscrowed - 1 /\ ruled' = ruled
        \/ PaySupplier(s, m, 0, 0) /\ totalEscrowed' = totalEscrowed /\ ruled' = ruled + 1
    BY DEF ConfirmMilestone, ReleaseMilestone, RuleForSupplier
  <1> HIDE DEF share, back
  <1>5. CASE PaySupplier(s, m, share, back) /\ totalEscrowed' = totalEscrowed - 1 /\ ruled' = ruled
    BY <1>2, <1>3, <1>5, PaymentMoves
  <1>6. CASE PaySupplier(s, m, share, 0) /\ totalEscrowed' = totalEscrowed - 1 /\ ruled' = ruled
    BY <1>2, <1>6, PaymentMoves
  <1>7. CASE PaySupplier(s, m, 0, 0) /\ totalEscrowed' = totalEscrowed /\ ruled' = ruled + 1
    BY <1>7, PaymentMoves
  <1> QED
    BY <1>4, <1>5, <1>6, <1>7

LEMMA EndsMove ==
    ASSUME IsFiniteSet(Milestones), IsFiniteSet(Buyers), BooksInv, NEW s \in Ids,
           \/ CancelShipment(s) \/ CancelForBlacklistedSupplier(s) \/ SupplierCancel(s)
           \/ ClaimDeadlineRefund(s) \/ SweepUnclaimedRefund(s) \/ RecoverEscrow(s)
    PROVE  BooksInv'
  <1>1. ships[s].locked \in Int
    BY ShipTyped DEF BooksInv
  <1>2. CASE CloseForBuyer(s)
    BY <1>2, ClosedForBuyer
  <1>3. CASE CloseOutwards(s, "Expired", ships[s].locked)
    BY <1>1, <1>3, ClosedOutwards
  <1>4. CASE CloseOutwards(s, "Cancelled", 0)
    BY <1>4, ClosedOutwards
  <1> QED
    BY <1>2, <1>3, <1>4 DEF CancelShipment, CancelForBlacklistedSupplier, SupplierCancel,
       ClaimDeadlineRefund, SweepUnclaimedRefund, RecoverEscrow

LEMMA CreationMoves ==
    ASSUME IsFiniteSet(Milestones), IsFiniteSet(Buyers), BooksInv, NEW b \in Buyers,
           NEW n \in {0} \cup Amounts,
           \/ \E fromVault \in BOOLEAN : CreateShipment(b, fromVault, n)
           \/ \E from \in Buyers : CreateWithAllowance(b, Buyers, from, n)
    PROVE  BooksInv'
  <1>1. n \in Int
    BY TreasuryAssumption
  <1>2. \E fromVault \in BOOLEAN : Enter(b, fromVault, n)
    BY DEF CreateShipment, CreateWithAllowance
  <1> QED
    BY <1>1, <1>2, EnterMoves

LEMMA OrderMoves ==
    ASSUME IsFiniteSet(Milestones), IsFiniteSet(Buyers), BooksInv, OrderInv, ExecuteStandingOrder
    PROVE  BooksInv'
  <1>1. order # NoOrder /\ Enter(order.buyer, TRUE, 0)
    BY DEF ExecuteStandingOrder
  <1>2. order \in StandingOrders
    BY <1>1 DEF OrderInv
  <1> DEFINE b == order.buyer
             vaulted == TRUE
             none == 0
  <1>3. b \in Buyers
    BY <1>2 DEF StandingOrders
  <1>4. vaulted \in BOOLEAN
    OBVIOUS
  <1>5. none \in Int
    OBVIOUS
  <1>6. Enter(b, vaulted, none)
    BY <1>1, Zenon
  <1> HIDE DEF b, vaulted, none
  <1> QED
    BY <1>3, <1>4, <1>5, <1>6, EnterMoves

LEMMA BooksUntouched ==
    ASSUME BooksInv, UNCHANGED <<moneyVars, ships, held>>
    PROVE  BooksInv'
  <1>1. /\ balance' = balance /\ totalEscrowed' = totalEscrowed /\ totalVaulted' = totalVaulted
        /\ vault' = vault /\ swept' = swept /\ ruled' = ruled /\ held' = held /\ ships' = ships
    BY DEF moneyVars
  <1>2. BooksTyped'
    BY <1>1 DEF BooksInv, BooksTyped
  <1>3. LocksHeld'
    BY <1>1 DEF BooksInv, LocksHeld, Ids, Active
  <1> QED
    BY <1>1, <1>2, <1>3 DEF BooksInv

LEMMA TreasuryStep ==
    ASSUME IsFiniteSet(Milestones), IsFiniteSet(Buyers), BooksInv, OrderInv, [TreasuryNext]_trVars
    PROVE  BooksInv'
  <1>1. CASE EscrowNext
    BY <1>1, DustMoves, VaultMoves, CreationMoves, RecipientMoves, TopUpMoves, IncrementalMoves,
       SlashMoves, SettlementMoves, EndsMove, Zenon DEF EscrowNext
  <1>2. ASSUME \/ NextDay \/ (\E b \in Buyers : CancelStandingOrder(b))
               \/ \E b \in Buyers, every \in Intervals, times \in 1..MaxOccurrences :
                      CreateStandingOrder(b, every, times)
        PROVE  BooksInv'
    <2>1. UNCHANGED <<moneyVars, ships, held>>
      BY <1>2 DEF NextDay, CancelStandingOrder, CreateStandingOrder
    <2> QED
      BY <2>1, BooksUntouched
  <1>3. CASE OrderNext
    BY <1>2, <1>3, OrderMoves, VaultMoves, EndsMove, Zenon DEF OrderNext
  <1>4. CASE UNCHANGED trVars
    BY <1>4, BooksUntouched DEF trVars
  <1> QED
    BY <1>1, <1>3, <1>4 DEF TreasuryNext

(* Every token of the contract is accounted for in every behaviour: the vaults
   and the running shipments add up to the two totals and the awards of rulings,
   the collateral stored for a running shipment is what is held for it, and only
   withdrawn dust is missing from the balance. *)
THEOREM TreasuryAlwaysExact ==
    ASSUME IsFiniteSet(Milestones), IsFiniteSet(Buyers)
    PROVE  TreasurySpec => []TreasuryExact
  <1>1. TreasuryInit => BooksInv
    <2> SUFFICES ASSUME TreasuryInit PROVE BooksInv
      OBVIOUS
    <2>1. /\ balance = 0 /\ totalEscrowed = 0 /\ totalVaulted = 0 /\ swept = 0 /\ ruled = 0
          /\ vault = [b \in Buyers |-> 0] /\ ships = <<>> /\ held = <<>>
      BY DEF TreasuryInit
    <2>2. BooksTyped
      BY <2>1 DEF BooksTyped
    <2>3. LocksHeld
      BY <2>1 DEF LocksHeld, Ids
    <2>4. SumUp(vault) = 0
      <3> DEFINE f == vault
      <3>1. DOMAIN f = Buyers /\ \A b \in Buyers : f[b] = 0
        BY <2>1
      <3> HIDE DEF f
      <3>2. SumUp(f) = 0
        BY <3>1, SumZero DEF SumUp
      <3> QED
        BY <3>2 DEF f
    <2>5. ASSUME NEW f, DOMAIN f = {} PROVE SumUp(f) = 0
      BY <2>5, SumEmpty DEF SumUp
    <2>6. SumUp(held) = 0 /\ SumUp(EscrowShares(ships)) = 0
      <3>1. DOMAIN held = {} /\ DOMAIN EscrowShares(ships) = {}
        BY <2>1 DEF EscrowShares
      <3> QED
        BY <2>5, <3>1
    <2> QED
      BY <2>1, <2>2, <2>3, <2>4, <2>6 DEF BooksInv
  <1>2. BooksInv => TreasuryExact
    <2> SUFFICES ASSUME BooksInv PROVE TreasuryExact
      OBVIOUS
    <2>1. InEscrow = SumUp(EscrowShares(ships)) /\ Total(vault) = SumUp(vault) /\ Total(held) = SumUp(held)
      <3>1. Len(ships) \in Nat
        BY DEF BooksInv, BooksTyped
      <3> QED
        BY <3>1, EscrowIsSum, TotalIsSumUp
    <2> QED
      BY <2>1 DEF BooksInv, LocksHeld, TreasuryExact
  <1>3. BooksInv /\ OrderInv /\ [TreasuryNext]_trVars => BooksInv'
    BY TreasuryStep
  <1> QED
    BY <1>1, <1>2, <1>3, OrderKept, PTL DEF TreasurySpec

-----------------------------------------------------------------------------
(* Arbiters.  Keep is a fold too: what is left of a sequence after each of its
   prefixes, then the members, their number and their being different. *)

KeepsBy(v, A, s, S) ==
    /\ v[0] = <<>> /\ Keep(s, S) = v[Len(s)]
    /\ \A n \in 0 .. Len(s) : v[n] \in Seq(A)
    /\ \A n \in 1 .. Len(s) : v[n] = IF s[n] \in S THEN Append(v[n - 1], s[n]) ELSE v[n - 1]

LEMMA KeepPrefixes ==
    ASSUME NEW A, NEW s \in Seq(A), NEW S
    PROVE  \E v : KeepsBy(v, A, s, S)
<1>. DEFINE R == DOMAIN s
            step == [p \in Seq(A) \X A |-> IF p[2] \in S THEN Append(p[1], p[2]) ELSE p[1]]
            Keeps(g) == g = [T \in SUBSET R |-> IF T = {} THEN <<>>
                               ELSE IF s[Max(T)] \in S THEN Append(g[T \ {Max(T)}], s[Max(T)])
                                                       ELSE g[T \ {Max(T)}]]
            k == CHOOSE g : Keeps(g)
            v == [n \in 0 .. Len(s) |-> k[1 .. n]]
<1>1. Len(s) \in Nat /\ R = 1 .. Len(s) /\ \A i \in R : s[i] \in A
  BY LenProperties
<1>2. step \in [Seq(A) \X A -> Seq(A)]
  OBVIOUS
<1>3. Keep(s, S) = k[R]
  BY DEF Keep, FoldLeft, MapThenFoldSet
<1>4. HasGreatest(R)
  BY <1>1, IndicesHaveGreatest
<1>. HIDE DEF R
<1>5. PICK h : FoldsTo(h, step, <<>>, s, R)
  <2>. HIDE DEF step
  <2>. QED BY <1>4, FoldExists
<1>6. \A T \in SUBSET R : h[T] \in Seq(A)
  <2>. DEFINE none == <<>>
  <2>1. none \in Seq(A)
    OBVIOUS
  <2>2. FoldsTo(h, step, none, s, R)
    BY <1>5
  <2>3. \A i \in R : s[i] \in A
    BY <1>1
  <2>. HIDE DEF step, none
  <2>. QED BY <1>2, <1>4, <2>1, <2>2, <2>3, FoldTyped
<1>7. Keeps(h)
  <2>1. ASSUME NEW T \in SUBSET R, T # {}
        PROVE  step[<<h[T \ {Max(T)}], s[Max(T)]>>]
                 = IF s[Max(T)] \in S THEN Append(h[T \ {Max(T)}], s[Max(T)]) ELSE h[T \ {Max(T)}]
    <3>1. Max(T) \in T
      BY <1>4, <2>1 DEF HasGreatest
    <3>2. h[T \ {Max(T)}] \in Seq(A) /\ s[Max(T)] \in A
      BY <1>1, <1>6, <3>1
    <3>. DEFINE x == h[T \ {Max(T)}]
                y == s[Max(T)]
    <3>3. <<x, y>> \in Seq(A) \X A /\ <<x, y>>[1] = x /\ <<x, y>>[2] = y
      BY <3>2
    <3>. HIDE DEF x, y
    <3>4. step[<<x, y>>] = IF y \in S THEN Append(x, y) ELSE x
      BY <3>3
    <3>. QED BY <3>4 DEF x, y
  <2>2. h = [T \in SUBSET R |-> IF T = {} THEN <<>>
                                 ELSE step[<<h[T \ {Max(T)}], s[Max(T)]>>]]
    BY <1>5 DEF FoldsTo
  <2>. HIDE DEF step
  <2>. QED BY <2>1, <2>2
<1>8. Keeps(k)
  <2>. HIDE DEF Keeps
  <2>. QED BY <1>7
<1>9. \A T \in SUBSET R : k[T] = IF T = {} THEN <<>>
                               ELSE IF s[Max(T)] \in S THEN Append(k[T \ {Max(T)}], s[Max(T)])
                                                       ELSE k[T \ {Max(T)}]
  <2>. DEFINE body == [T \in SUBSET R |-> IF T = {} THEN <<>>
                               ELSE IF s[Max(T)] \in S THEN Append(k[T \ {Max(T)}], s[Max(T)])
                                                       ELSE k[T \ {Max(T)}]]
  <2>1. k = body
    BY <1>8
  <2>2. \A T \in SUBSET R : body[T] = IF T = {} THEN <<>>
                               ELSE IF s[Max(T)] \in S THEN Append(k[T \ {Max(T)}], s[Max(T)])
                                                       ELSE k[T \ {Max(T)}]
    OBVIOUS
  <2>. HIDE DEF k
  <2>. QED BY <2>1, <2>2
<1>. HIDE DEF k, Keeps
<1>10. v[0] = <<>>
  <2>1. 1 .. 0 = {} /\ {} \in SUBSET R
    OBVIOUS
  <2>2. v[0] = k[1 .. 0]
    BY <1>1
  <2>. QED BY <1>9, <2>1, <2>2
<1>11. ASSUME NEW n \in 1 .. Len(s)
       PROVE  v[n] = IF s[n] \in S THEN Append(v[n - 1], s[n]) ELSE v[n - 1]
  <2>1. n \in Nat \ {0} /\ 1 .. n \in SUBSET R
    BY <1>1
  <2>2. Max(1 .. n) = n /\ (1 .. n) \ {n} = 1 .. n - 1 /\ 1 .. n # {}
    BY <2>1, MaxPrefix
  <2>3. k[1 .. n] = IF s[n] \in S THEN Append(k[1 .. n - 1], s[n]) ELSE k[1 .. n - 1]
    BY <1>9, <2>1, <2>2
  <2>4. v[n] = k[1 .. n] /\ v[n - 1] = k[1 .. n - 1]
    BY <1>1
  <2>. QED BY <2>3, <2>4
<1>12. v[Len(s)] = k[R]
  BY <1>1
<1>. HIDE DEF v
<1>13. \A n \in 0 .. Len(s) : v[n] \in Seq(A)
  <2>. DEFINE G == {n \in 0 .. Len(s) : v[n] \in Seq(A)}
              len == Len(s)
  <2>0. <<>> \in Seq(A)
    BY EmptySeq
  <2>1. 0 \in G
    <3>1. 0 \in 0 .. Len(s)
      BY <1>1
    <3>. QED BY <1>10, <2>0, <3>1
  <2>2. ASSUME NEW n \in 1 .. len, n - 1 \in G PROVE n \in G
    <3>1. v[n - 1] \in Seq(A) /\ s[n] \in A /\ n \in 0 .. len
      BY <1>1, <2>2
    <3>2. v[n] = IF s[n] \in S THEN Append(v[n - 1], s[n]) ELSE v[n - 1]
      BY <1>11
    <3>. DEFINE x == v[n - 1]
                y == s[n]
                z == v[n]
    <3>3. x \in Seq(A) /\ y \in A /\ (z = Append(x, y) \/ z = x)
      BY <3>1, <3>2
    <3>. HIDE DEF x, y, z
    <3>4. z \in Seq(A)
      BY <3>3
    <3>. QED BY <3>1, <3>4 DEF z
  <2>3. len \in Nat
    BY <1>1
  <2>. HIDE DEF G, len
  <2>4. \A n \in 0 .. len : n \in G
    BY <2>1, <2>2, <2>3, PrefixInduction
  <2>. QED BY <2>4 DEF G, len
<1>14. KeepsBy(v, A, s, S)
  BY <1>3, <1>10, <1>11, <1>12, <1>13 DEF KeepsBy
<1>. QED BY <1>14

(* Of a sequence there remain exactly the members in the set, different if they
   were. *)
LEMMA KeepProperties ==
    ASSUME NEW A, NEW s \in Seq(A), NEW S
    PROVE  /\ Keep(s, S) \in Seq(A) /\ Range(Keep(s, S)) = Range(s) \cap S
           /\ IsInjective(s) => IsInjective(Keep(s, S))
<1>0. PICK v : KeepsBy(v, A, s, S)
  BY KeepPrefixes
<1>1. /\ v[0] = <<>> /\ Keep(s, S) = v[Len(s)]
      /\ \A n \in 0 .. Len(s) : v[n] \in Seq(A)
      /\ \A n \in 1 .. Len(s) : v[n] = IF s[n] \in S THEN Append(v[n - 1], s[n]) ELSE v[n - 1]
  BY <1>0 DEF KeepsBy
<1>. DEFINE len == Len(s)
            Members(n) == {v[n][i] : i \in 1 .. Len(v[n])}
            Good(n) == /\ Members(n) = {s[i] : i \in 1 .. n} \cap S
                       /\ IsInjective(s) => \A i, j \in 1 .. Len(v[n]) : v[n][i] = v[n][j] => i = j
            G == {n \in 0 .. len : Good(n)}
<1>2. len \in Nat /\ DOMAIN s = 1 .. len
  BY LenProperties
<1>3. \A n \in 0 .. len : Len(v[n]) \in Nat /\ DOMAIN v[n] = 1 .. Len(v[n])
  BY <1>1, LenProperties
<1>4. Good(0)
  <2>1. Len(v[0]) = 0 /\ 1 .. 0 = {}
    BY <1>1
  <2>. QED BY <2>1
<1>5. ASSUME NEW n \in 1 .. len, n - 1 \in G PROVE n \in G
  <2>. DEFINE t == v[n - 1]
              u == v[n]
              x == s[n]
              p == Len(t)
  <2>1. /\ n \in Int /\ n - 1 \in 0 .. len /\ n \in 0 .. len /\ x \in A
        /\ t \in Seq(A) /\ u \in Seq(A) /\ Good(n - 1) /\ p \in Nat
    <3>1. n \in Int /\ n - 1 \in 0 .. len /\ n \in 0 .. len
      BY <1>2
    <3>2. Good(n - 1)
      BY <1>5
    <3>3. x \in A
      BY ElementOfSeq
    <3>. HIDE DEF Good
    <3>. QED BY <1>1, <1>3, <3>1, <3>2, <3>3
  <2>2. {s[i] : i \in 1 .. n} = {s[i] : i \in 1 .. n - 1} \cup {x}
    <3>1. \A i : i \in 1 .. n <=> i \in 1 .. n - 1 \/ i = n
      BY <2>1
    <3>. QED BY <3>1
  <2>3. u = IF x \in S THEN Append(t, x) ELSE t
    BY <1>1
  <2>4. CASE x \notin S
    <3>1. u = t
      BY <2>3, <2>4
    <3>2. Members(n) = Members(n - 1)
      BY <3>1
    <3>3. Good(n)
      <4>. HIDE DEF Members
      <4>1. Members(n) = {s[i] : i \in 1 .. n} \cap S
        BY <2>1, <2>2, <2>4, <3>2
      <4>. QED BY <2>1, <3>1, <4>1
    <3>. QED BY <2>1, <3>3
  <2>5. CASE x \in S
    <3>1. u = Append(t, x)
      BY <2>3, <2>5
    <3>2. Len(u) = p + 1 /\ u[p + 1] = x /\ \A i \in 1 .. p : u[i] = t[i]
      BY <2>1, <3>1
    <3>3. \A i : i \in 1 .. p + 1 <=> i \in 1 .. p \/ i = p + 1
      BY <2>1
    <3>4. Members(n) = Members(n - 1) \cup {x}
      <4>. HIDE DEF u, t, p, x
      <4>1. {u[i] : i \in 1 .. Len(u)} = {t[i] : i \in 1 .. p} \cup {x}
        BY <3>2, <3>3
      <4>. QED BY <4>1 DEF u, t, p
    <3>5. Members(n) = {s[i] : i \in 1 .. n} \cap S
      <4>. HIDE DEF Members
      <4>. QED BY <2>1, <2>2, <2>5, <3>4
    <3>6. ASSUME IsInjective(s), NEW i \in 1 .. Len(u), NEW j \in 1 .. Len(u), u[i] = u[j]
          PROVE  i = j
      <4>1. \A q \in 1 .. p : t[q] # x
        <5>1. ASSUME NEW q \in 1 .. p, t[q] = x PROVE FALSE
          <6>1. x \in Members(n - 1)
            BY <5>1
          <6>2. x \in {s[m] : m \in 1 .. n - 1}
            <7>. HIDE DEF Members, x
            <7>. QED BY <2>1, <6>1
          <6>3. PICK m \in 1 .. n - 1 : s[m] = s[n]
            BY <6>2
          <6>4. m \in DOMAIN s /\ n \in DOMAIN s /\ m # n
            BY <1>2, <2>1
          <6>. QED BY <3>6, <6>3, <6>4 DEF IsInjective
        <5>. QED BY <5>1
      <4>2. \A a, b \in 1 .. p : t[a] = t[b] => a = b
        BY <2>1, <3>6
      <4>. HIDE DEF u, t, p, x, Members, Good, G
      <4>. QED BY <3>2, <3>3, <3>6, <4>1, <4>2
    <3>7. Good(n)
      BY <3>5, <3>6
    <3>. QED BY <2>1, <3>7
  <2>. QED BY <2>4, <2>5
<1>6. 0 \in G
  <2>1. 0 \in 0 .. len
    BY <1>2
  <2>. HIDE DEF Good
  <2>. QED BY <1>4, <2>1
<1>7. \A n \in 0 .. len : n \in G
  <2>. HIDE DEF G, len
  <2>. QED BY <1>2, <1>5, <1>6, PrefixInduction
<1>8. Good(len) /\ Keep(s, S) = v[len] /\ v[len] \in Seq(A) /\ DOMAIN v[len] = 1 .. Len(v[len])
  <2>1. len \in 0 .. len
    BY <1>2
  <2>2. Good(len)
    BY <1>7, <2>1
  <2>. HIDE DEF Good
  <2>. QED BY <1>1, <1>3, <2>1, <2>2
<1>9. Range(Keep(s, S)) = Members(len) /\ Range(s) = {s[i] : i \in 1 .. len}
  BY <1>2, <1>8 DEF Range
<1>10. IsInjective(s) => IsInjective(Keep(s, S))
  BY <1>8 DEF IsInjective
<1>. QED BY <1>8, <1>9, <1>10

LEMMA MembersFinite ==
    ASSUME NEW A, NEW s \in Seq(A)
    PROVE  /\ IsFiniteSet(Range(s)) /\ Range(s) \subseteq A
           /\ IsInjective(s) => Cardinality(Range(s)) = Len(s)
<1>. DEFINE D == 1 .. Len(s)
            R == Range(s)
<1>1. Len(s) \in Nat /\ DOMAIN s = D /\ s \in [D -> A]
  BY LenProperties
<1>2. IsFiniteSet(D) /\ Cardinality(D) = Len(s)
  <2>1. 1 \in Int /\ Len(s) \in Int
    BY <1>1
  <2>. QED BY <1>1, <2>1, FS_Interval
<1>3. s \in Surjection(D, R) /\ R \subseteq A
  BY <1>1 DEF Surjection, Range
<1>4. IsInjective(s) => s \in Injection(D, R)
  BY <1>1, <1>3 DEF Injection, Surjection
<1>. HIDE DEF D, R
<1>5. IsFiniteSet(R) /\ (s \in Injection(D, R) => Cardinality(R) = Cardinality(D))
  BY <1>2, <1>3, FS_Surjection
<1>. QED BY <1>2, <1>3, <1>4, <1>5 DEF R

LEMMA UptoProperties ==
    ASSUME NEW A, NEW s \in Seq(A), NEW n \in Nat
    PROVE  /\ Upto(s, n) \in Seq(A) /\ Range(Upto(s, n)) \subseteq Range(s)
           /\ Len(Upto(s, n)) = IF n < Len(s) THEN n ELSE Len(s)
           /\ Len(s) <= n => Range(Upto(s, n)) = Range(s)
           /\ IsInjective(s) => IsInjective(Upto(s, n))
<1>. DEFINE m == IF n < Len(s) THEN n ELSE Len(s)
            u == SubSeq(s, 1, m)
<1>1. m \in Nat /\ m <= Len(s) /\ Len(s) \in Nat /\ DOMAIN s = 1 .. Len(s)
  BY LenProperties
<1>2. \A i \in 1 .. m : s[i] \in A /\ i \in DOMAIN s
  BY <1>1
<1>. HIDE DEF m
<1>3. u \in Seq(A) /\ Len(u) = m /\ \A i \in 1 .. m : u[i] = s[i]
  <2>1. 1 \in Int /\ m \in Int /\ (1 <= m => m - 1 + 1 = m) /\ (~ 1 <= m => m = 0)
    BY <1>1
  <2>2. /\ u \in Seq(A) /\ Len(u) = (IF 1 <= m THEN m - 1 + 1 ELSE 0)
        /\ \A i \in 1 .. m - 1 + 1 : u[i] = s[1 + i - 1]
    BY <1>2, <2>1, SubSeqProperties
  <2>3. \A i \in 1 .. m : i \in 1 .. m - 1 + 1 /\ 1 + i - 1 = i
    BY <2>1
  <2>. QED BY <2>1, <2>2, <2>3
<1>4. DOMAIN u = 1 .. m
  BY <1>3, LenProperties
<1>. HIDE DEF u
<1>5. Range(u) \subseteq Range(s)
  BY <1>2, <1>3, <1>4 DEF Range
<1>6. Len(s) <= n => Range(u) = Range(s)
  <2>1. Len(s) <= n => m = Len(s)
    <3>. DEFINE l == Len(s)
    <3>1. m = (IF n < l THEN n ELSE l) /\ l \in Nat
      BY <1>1 DEF m
    <3>. HIDE DEF l
    <3>2. l <= n => m = l
      BY <3>1
    <3>. QED BY <3>2 DEF l
  <2>. QED BY <1>1, <1>3, <1>4, <2>1 DEF Range
<1>7. IsInjective(s) => IsInjective(u)
  BY <1>2, <1>3, <1>4 DEF IsInjective
<1>8. Upto(s, n) = u
  BY DEF Upto, u, m
<1>. QED BY <1>3, <1>5, <1>6, <1>7, <1>8 DEF m

LEMMA ConcatMembers ==
    ASSUME NEW A, NEW s \in Seq(A), NEW t \in Seq(A)
    PROVE  /\ s \o t \in Seq(A) /\ Len(s \o t) = Len(s) + Len(t)
           /\ Range(s \o t) = Range(s) \cup Range(t)
           /\ (IsInjective(s) /\ IsInjective(t) /\ Range(s) \cap Range(t) = {}) => IsInjective(s \o t)
<1>. DEFINE u == s \o t
            m == Len(s)
            n == Len(t)
<1>1. m \in Nat /\ n \in Nat /\ DOMAIN s = 1 .. m /\ DOMAIN t = 1 .. n
  BY LenProperties
<1>2. /\ u \in Seq(A) /\ Len(u) = m + n
      /\ \A i \in 1 .. m + n : u[i] = IF i <= m THEN s[i] ELSE t[i - m]
  BY ConcatProperties
<1>3. DOMAIN u = 1 .. m + n
  BY <1>2, LenProperties
<1>. HIDE DEF u, m, n
<1>4. /\ \A i \in 1 .. m : i \in 1 .. m + n /\ u[i] = s[i]
      /\ \A i \in 1 .. n : i + m \in 1 .. m + n /\ u[i + m] = t[i]
  BY <1>1, <1>2
<1>5. \A i \in 1 .. m + n : i \in 1 .. m \/ (i - m \in 1 .. n /\ i = (i - m) + m)
  BY <1>1
<1>6. Range(u) = Range(s) \cup Range(t)
  <2>1. Range(u) \subseteq Range(s) \cup Range(t)
    <3>1. ASSUME NEW i \in 1 .. m + n PROVE u[i] \in Range(s) \cup Range(t)
      <4>1. CASE i \in 1 .. m
        BY <1>1, <1>4, <4>1 DEF Range
      <4>2. CASE i - m \in 1 .. n /\ i = (i - m) + m
        <5>1. u[(i - m) + m] = t[i - m]
          BY <1>4, <4>2
        <5>. QED BY <1>1, <4>2, <5>1 DEF Range
      <4>. QED BY <1>5, <4>1, <4>2
    <3>. QED BY <1>3, <3>1 DEF Range
  <2>2. Range(s) \subseteq Range(u)
    BY <1>1, <1>3, <1>4 DEF Range
  <2>3. Range(t) \subseteq Range(u)
    BY <1>1, <1>3, <1>4 DEF Range
  <2>. QED BY <2>1, <2>2, <2>3
<1>7. ASSUME IsInjective(s), IsInjective(t), Range(s) \cap Range(t) = {},
             NEW i \in 1 .. m + n, NEW j \in 1 .. m + n, u[i] = u[j]
      PROVE  i = j
  <2>1. \A a \in 1 .. m, b \in 1 .. n : s[a] # t[b]
    BY <1>1, <1>7 DEF Range
  <2>2. \A a, b \in 1 .. m : s[a] = s[b] => a = b
    BY <1>1, <1>7 DEF IsInjective
  <2>3. \A a, b \in 1 .. n : t[a] = t[b] => a = b
    BY <1>1, <1>7 DEF IsInjective
  <2>4. CASE i \in 1 .. m /\ j \in 1 .. m
    BY <1>4, <1>7, <2>2, <2>4
  <2>5. CASE i \in 1 .. m /\ j - m \in 1 .. n
    <3>1. u[(j - m) + m] = t[j - m] /\ j = (j - m) + m
      BY <1>1, <1>4, <2>5
    <3>2. s[i] = t[j - m]
      BY <1>4, <1>7, <2>5, <3>1
    <3>. QED BY <2>1, <2>5, <3>2
  <2>6. CASE i - m \in 1 .. n /\ j \in 1 .. m
    <3>1. u[(i - m) + m] = t[i - m] /\ i = (i - m) + m
      BY <1>1, <1>4, <2>6
    <3>2. s[j] = t[i - m]
      BY <1>4, <1>7, <2>6, <3>1
    <3>. QED BY <2>1, <2>6, <3>2
  <2>7. CASE i - m \in 1 .. n /\ j - m \in 1 .. n
    <3>1. u[(i - m) + m] = t[i - m] /\ u[(j - m) + m] = t[j - m]
      BY <1>4, <2>7
    <3>2. (i - m) + m = i /\ (j - m) + m = j /\ i \in Int /\ j \in Int /\ m \in Int
      BY <1>1
    <3>3. t[i - m] = t[j - m]
      BY <1>7, <3>1, <3>2
    <3>4. i - m = j - m
      BY <2>3, <2>7, <3>3
    <3>. QED BY <3>2, <3>4
  <2>. QED BY <1>5, <2>4, <2>5, <2>6, <2>7
<1>8. (IsInjective(s) /\ IsInjective(t) /\ Range(s) \cap Range(t) = {}) => IsInjective(u)
  BY <1>3, <1>7 DEF IsInjective
<1>. QED BY <1>2, <1>6, <1>8 DEF u, m, n

(* What select_pool_arbiters answers, whatever the walk. *)
LEMMA SelectTyped ==
    ASSUME pool \in Seq(Addresses), historySize \in Nat, NEW known \in Seq(Addresses),
           NEW walk \in Seq(Addresses), NEW exclude, NEW n \in Nat, Range(walk) \subseteq Range(pool)
    PROVE  /\ Select(walk, known, exclude, n) \in Seq(Addresses)
           /\ Len(Select(walk, known, exclude, n)) <= n
           /\ Range(Select(walk, known, exclude, n)) \subseteq Range(pool)
<1>. DEFINE met == Met(known)
            P == Addresses \ (exclude \cup Range(met) \cup unavailable)
            Q == Range(pool) \ (exclude \cup unavailable)
            f == Keep(walk, P)
            g == Keep(met, Q)
            fresh == Upto(f, n)
            k == n - Len(fresh)
            old == Upto(g, k)
<1>1. met \in Seq(Addresses)
  BY DEF Met
<1>. HIDE DEF met
<1>2. f \in Seq(Addresses) /\ Range(f) \subseteq Range(pool)
  <2>. HIDE DEF P
  <2>. QED BY KeepProperties
<1>3. g \in Seq(Addresses) /\ Range(g) \subseteq Range(pool)
  <2>1. Q \subseteq Range(pool)
    OBVIOUS
  <2>. HIDE DEF Q
  <2>. QED BY <1>1, <2>1, KeepProperties
<1>. HIDE DEF f, g
<1>4. /\ fresh \in Seq(Addresses) /\ Range(fresh) \subseteq Range(pool)
      /\ Len(fresh) <= n /\ Len(fresh) \in Nat
  <2>1. Len(f) \in Nat
    BY <1>2, LenProperties
  <2>. QED BY <1>2, <2>1, UptoProperties
<1>. HIDE DEF fresh
<1>5. k \in Nat /\ Len(fresh) + k = n
  BY <1>4
<1>. HIDE DEF k
<1>6. old \in Seq(Addresses) /\ Range(old) \subseteq Range(pool) /\ Len(old) <= k /\ Len(old) \in Nat
  <2>1. Len(g) \in Nat
    BY <1>3, LenProperties
  <2>. QED BY <1>3, <1>5, <2>1, UptoProperties
<1>. HIDE DEF old
<1>7. Select(walk, known, exclude, n) = fresh \o old
  BY DEF Select, Fallback, fresh, k, old, f, g, met
<1>8. /\ fresh \o old \in Seq(Addresses) /\ Len(fresh \o old) = Len(fresh) + Len(old)
      /\ Range(fresh \o old) = Range(fresh) \cup Range(old)
  BY <1>4, <1>6, ConcatMembers
<1>. QED BY <1>4, <1>5, <1>6, <1>7, <1>8

(* A walk over a set meets each of its members once. *)
LEMMA WalkMeetsAll ==
    ASSUME NEW S, IsFiniteSet(S), S \subseteq Addresses, NEW walk \in SetToSeqs(S)
    PROVE  walk \in Seq(Addresses) /\ IsInjective(walk) /\ Range(walk) = S
<1>. DEFINE n == Cardinality(S)
            D == 1 .. n
<1>1. n \in Nat
  BY FS_CardinalityType
<1>2. walk \in [D -> S] /\ \A i, j \in D : i # j => walk[i] # walk[j]
  BY DEF SetToSeqs
<1>3. walk \in Injection(D, S)
  BY <1>2 DEF Injection, IsInjective
<1>4. IsFiniteSet(D) /\ Cardinality(D) = n
  <2>1. 1 \in Int /\ n \in Int
    BY <1>1
  <2>. HIDE DEF n
  <2>. QED BY <1>1, <2>1, FS_Interval
<1>5. IsInjective(walk)
  BY <1>2 DEF IsInjective
<1>6. walk \in Seq(Addresses)
  <2>. HIDE DEF n
  <2>. QED BY <1>1, <1>2
<1>7. walk \in Surjection(D, S)
  <2>. HIDE DEF D
  <2>. QED BY <1>3, <1>4, FS_Injection
<1>8. DOMAIN walk = D
  BY <1>2
<1>. HIDE DEF D
<1>9. Range(walk) = S
  BY <1>7, <1>8 DEF Surjection, Range
<1>. QED BY <1>5, <1>6, <1>9

(* Of two disjoint parts, the first counts up to the number asked for and the
   second fills what is left. *)
LEMMA CountOfBoth ==
    ASSUME NEW A, NEW B, IsFiniteSet(A), IsFiniteSet(B), A \cap B = {}
    PROVE  /\ Cardinality(A) \in Nat /\ Cardinality(B) \in Nat
           /\ IsFiniteSet(A \cup B) /\ Cardinality(A \cup B) = Cardinality(A) + Cardinality(B)
<1>1. Cardinality(A) \in Nat /\ Cardinality(B) \in Nat
  BY FS_CardinalityType
<1>2. IsFiniteSet(A \cup B)
  BY FS_Union
<1>3. Cardinality(A \cup B) = Cardinality(A) + Cardinality(B) - Cardinality(A \cap B)
  BY FS_Union
<1>4. Cardinality(A \cap B) = 0
  BY FS_EmptySet
<1>. QED BY <1>1, <1>2, <1>3, <1>4

LEMMA SmallerOfTwo ==
    ASSUME NEW a \in Int, NEW b \in Int
    PROVE  Min({a, b}) = IF b < a THEN b ELSE a
<1>. DEFINE m == IF b < a THEN b ELSE a
<1>1. m \in {a, b} /\ \A y \in {a, b} : m <= y
  OBVIOUS
<1>2. \A x \in {a, b} : (\A y \in {a, b} : x <= y) => x = m
  OBVIOUS
<1>. HIDE DEF m
<1>3. Min({a, b}) = m
  BY <1>1, <1>2 DEF Min
<1>. QED BY <1>3 DEF m

(* A draw for the shipment: its members are different and eligible, the recent
   ones only fill up, and it is short only when the eligible are too few. *)
LEMMA DrawProperties ==
    ASSUME pool \in Seq(Addresses), historySize \in Nat, NEW known \in Seq(Addresses),
           IsInjective(known), NEW n \in Nat, NEW members \in Draws(known, n)
    PROVE  LET eligible == Range(pool) \ (ShipmentParties \cup unavailable)
               recents == Range(Met(known))
           IN  /\ members \in Seq(Addresses) /\ IsInjective(members)
               /\ Range(members) \subseteq eligible
               /\ Range(members) \cap recents # {} => eligible \ recents \subseteq Range(members)
               /\ IsFiniteSet(eligible) /\ Len(members) = Min({n, Cardinality(eligible)})
<1>. DEFINE S == Range(pool) \ ShipmentParties
<1>1. PICK walk \in SetToSeqs(S) : members = Select(walk, known, ShipmentParties, n)
  BY DEF Draws
<1>2. IsFiniteSet(Range(pool)) /\ Range(pool) \subseteq Addresses
  BY MembersFinite
<1>3. walk \in Seq(Addresses) /\ IsInjective(walk) /\ Range(walk) = S
  <2>1. IsFiniteSet(S) /\ S \subseteq Addresses
    BY <1>2, FS_Subset
  <2>. HIDE DEF S
  <2>. QED BY <2>1, WalkMeetsAll
<1>. DEFINE met == Met(known)
            M == Range(met)
            E == Range(pool) \ (ShipmentParties \cup unavailable)
            P == Addresses \ (ShipmentParties \cup M \cup unavailable)
            A == E \ M
            B == E \cap M
            f == Keep(walk, P)
            g == Keep(met, E)
            fresh == Upto(f, n)
            k == n - Len(fresh)
            old == Upto(g, k)
<1>4. met \in Seq(Addresses) /\ IsInjective(met)
  BY DEF Met, IsInjective
<1>. HIDE DEF met
<1>5. f \in Seq(Addresses) /\ IsInjective(f) /\ Range(f) = A
  <2>1. S \cap P = A
    BY <1>2
  <2>. HIDE DEF P, A, S
  <2>. QED BY <1>3, <2>1, KeepProperties
<1>6. g \in Seq(Addresses) /\ IsInjective(g) /\ Range(g) = B
  <2>1. M \cap E = B
    OBVIOUS
  <2>. HIDE DEF E, B
  <2>. QED BY <1>4, <2>1, KeepProperties
<1>7. A \cap B = {} /\ A \cup B = E
  OBVIOUS
<1>8. /\ IsFiniteSet(A) /\ IsFiniteSet(B) /\ Cardinality(A) = Len(f) /\ Cardinality(B) = Len(g)
      /\ Len(f) \in Nat /\ Len(g) \in Nat
  <2>. HIDE DEF A, B, f, g
  <2>. QED BY <1>5, <1>6, MembersFinite, LenProperties
<1>9. members = fresh \o old
  BY <1>1 DEF Select, Fallback, met
<1>. HIDE DEF f, g, E, A, B
<1>10. /\ fresh \in Seq(Addresses) /\ Range(fresh) \subseteq A
       /\ Len(fresh) = (IF n < Len(f) THEN n ELSE Len(f))
       /\ (Len(f) <= n => Range(fresh) = A) /\ IsInjective(fresh)
  BY <1>5, UptoProperties
<1>11. k \in Nat /\ k = n - Len(fresh) /\ Len(fresh) \in Nat
  <2>. HIDE DEF fresh
  <2>. QED BY <1>8, <1>10
<1>. HIDE DEF fresh, k
<1>12. /\ old \in Seq(Addresses) /\ Range(old) \subseteq B
       /\ Len(old) = (IF k < Len(g) THEN k ELSE Len(g)) /\ IsInjective(old)
  BY <1>6, <1>11, UptoProperties
<1>. HIDE DEF old
<1>13. /\ members \in Seq(Addresses) /\ Len(members) = Len(fresh) + Len(old)
       /\ Range(members) = Range(fresh) \cup Range(old) /\ IsInjective(members)
  <2>1. Range(fresh) \cap Range(old) = {}
    BY <1>7, <1>10, <1>12
  <2>2. /\ fresh \in Seq(Addresses) /\ old \in Seq(Addresses)
        /\ IsInjective(fresh) /\ IsInjective(old)
    BY <1>10, <1>12
  <2>. DEFINE u == fresh \o old
  <2>3. /\ u \in Seq(Addresses) /\ Len(u) = Len(fresh) + Len(old)
        /\ Range(u) = Range(fresh) \cup Range(old) /\ IsInjective(u)
    BY <2>1, <2>2, ConcatMembers
  <2>. QED BY <1>9, <2>3
<1>14. IsFiniteSet(E) /\ Cardinality(E) = Len(f) + Len(g)
  BY <1>7, <1>8, CountOfBoth
<1>15. Range(members) \subseteq E
  BY <1>7, <1>10, <1>12, <1>13
<1>16. Len(members) = Min({n, Cardinality(E)})
  <2>. DEFINE a == Len(f)
              b == Len(g)
              c == Len(fresh)
              d == Len(old)
              e == Cardinality(E)
              l == Len(members)
  <2>1. /\ a \in Nat /\ b \in Nat /\ c \in Nat /\ k = n - c /\ c = (IF n < a THEN n ELSE a)
        /\ d = (IF k < b THEN k ELSE b) /\ e = a + b /\ l = c + d
    BY <1>8, <1>10, <1>11, <1>12, <1>13, <1>14
  <2>. HIDE DEF a, b, c, d, e, l
  <2>2. l = (IF e < n THEN e ELSE n) /\ e \in Int /\ n \in Int
    BY <2>1
  <2>3. Min({n, e}) = IF e < n THEN e ELSE n
    BY <2>2, SmallerOfTwo
  <2>. QED BY <2>2, <2>3 DEF e, l
<1>17. ASSUME Range(members) \cap M # {} PROVE E \ M \subseteq Range(members)
  <2>1. PICK x : x \in Range(old)
    BY <1>10, <1>13, <1>17 DEF A
  <2>2. Len(old) # 0
    <3>1. DOMAIN old = 1 .. Len(old)
      BY <1>12, LenProperties
    <3>. QED BY <2>1, <3>1 DEF Range
  <2>3. k # 0
    BY <1>8, <1>12, <2>2
  <2>4. Len(f) <= n
    BY <1>8, <1>10, <1>11, <2>3
  <2>5. Range(fresh) = A
    BY <1>10, <2>4
  <2>. QED BY <1>13, <2>5 DEF A
<1>. HIDE DEF M
<1>. QED BY <1>13, <1>14, <1>15, <1>16, <1>17 DEF E, M, met

(* What record_supplier_arbiters keeps are different arbiters. *)
LEMMA RememberTyped ==
    ASSUME historySize \in Nat, NEW known \in Seq(Addresses), IsInjective(known),
           NEW chosen \in Seq(Addresses), IsInjective(chosen)
    PROVE  Remember(known, chosen) \in Seq(Addresses) /\ IsInjective(Remember(known, chosen))
<1>. DEFINE P == Addresses \ Range(chosen)
            left == Keep(known, P)
            all == left \o chosen
            lo == IF Len(all) > historySize THEN Len(all) - historySize + 1 ELSE 1
            last == SubSeq(all, lo, Len(all))
<1>1. left \in Seq(Addresses) /\ IsInjective(left) /\ Range(left) = Range(known) \cap P
  <2>. HIDE DEF P
  <2>. QED BY KeepProperties
<1>2. Range(left) \cap Range(chosen) = {}
  BY <1>1
<1>. HIDE DEF left
<1>3. all \in Seq(Addresses) /\ IsInjective(all)
  BY <1>1, <1>2, ConcatMembers
<1>. HIDE DEF all
<1>4. Len(all) \in Nat /\ DOMAIN all = 1 .. Len(all) /\ \A i \in 1 .. Len(all) : all[i] \in Addresses
  BY <1>3, LenProperties
<1>5. lo \in Nat \ {0} /\ lo \in Int /\ Len(all) \in Int
  BY <1>4
<1>. HIDE DEF lo
<1>6. /\ last \in Seq(Addresses)
      /\ Len(last) = IF lo <= Len(all) THEN Len(all) - lo + 1 ELSE 0
      /\ \A i \in 1 .. Len(all) - lo + 1 : last[i] = all[lo + i - 1]
  <2>1. \A i \in lo .. Len(all) : all[i] \in Addresses
    BY <1>4, <1>5
  <2>. QED BY <1>5, <2>1, SubSeqProperties
<1>. HIDE DEF last
<1>7. IsInjective(last)
  <2>. DEFINE n == Len(last)
              m == Len(all)
  <2>1. DOMAIN last = 1 .. n /\ n \in Nat
    BY <1>6, LenProperties
  <2>2. \A i \in 1 .. n : lo + i - 1 \in 1 .. m /\ last[i] = all[lo + i - 1]
    <3>1. m \in Nat /\ lo \in Nat \ {0} /\ n = IF lo <= m THEN m - lo + 1 ELSE 0
      BY <1>4, <1>5, <1>6
    <3>2. \A i \in 1 .. m - lo + 1 : last[i] = all[lo + i - 1]
      BY <1>6
    <3>. HIDE DEF n, m
    <3>3. ASSUME NEW i \in 1 .. n PROVE i \in 1 .. m - lo + 1 /\ lo + i - 1 \in 1 .. m
      BY <3>1
    <3>. QED BY <3>2, <3>3
  <2>3. ASSUME NEW i \in 1 .. n, NEW j \in 1 .. n, last[i] = last[j] PROVE i = j
    <3>1. lo + i - 1 \in DOMAIN all /\ lo + j - 1 \in DOMAIN all /\ all[lo + i - 1] = all[lo + j - 1]
      BY <1>4, <2>2, <2>3
    <3>2. lo + i - 1 = lo + j - 1
      BY <1>3, <3>1 DEF IsInjective
    <3>. HIDE DEF n
    <3>. QED BY <1>5, <2>1, <3>2
  <2>. QED BY <2>1, <2>3 DEF IsInjective
<1>8. Remember(known, chosen) = IF historySize = 0 THEN known ELSE last
  BY DEF Remember, last, lo, all, left
<1>. QED BY <1>6, <1>7, <1>8

-----------------------------------------------------------------------------
(* The invariant of the arbitration: what the pool and the history of the
   supplier are made of, and that nobody slashed is in the pool.  A tally holds one
   vote of each arbiter, and the votes on the present dispute; while the panel was
   drawn for that dispute the tally holds nothing else, and only its members'. *)

Ballots == [arbiter : Addresses, approve : BOOLEAN]

OneVoteEach(t) == \A i, j \in DOMAIN t : t[i].arbiter = t[j].arbiter => i = j

PoolOK ==
    /\ pool \in Seq(Addresses) /\ poolIdx \in Nat
    /\ slashed \cap Range(pool) = {}
HistoryOK == historySize \in Nat /\ recent \in Seq(Addresses) /\ IsInjective(recent)
PanelOK == escalation \in PanelSizes \cup {Unset} /\ IsFiniteSet(panel)
TallyOK(m) ==
    /\ votes[m] \in Seq(Ballots) /\ OneVoteEach(votes[m]) /\ cast[m] \subseteq Range(votes[m])
    /\ seated = m => Range(votes[m]) \subseteq cast[m] /\ \A v \in cast[m] : v.arbiter \in panel
VotesOK ==
    /\ PanelOK
    /\ votes = [m \in Indices |-> votes[m]] /\ cast = [m \in Indices |-> cast[m]]
    /\ \A m \in Indices : TallyOK(m)
ArbInv == PoolOK /\ HistoryOK /\ VotesOK /\ PanelFair /\ SeatsDecide

(* An empty tally: nobody has voted on the dispute. *)
LEMMA EmptyTally == /\ <<>> \in Seq(Ballots) /\ OneVoteEach(<<>>) /\ Range(<<>>) = {}
  BY DEF OneVoteEach, Range

LEMMA ArbInitially == ArbitrationInit => ArbInv
<1>. SUFFICES ASSUME ArbitrationInit PROVE ArbInv
  OBVIOUS
<1>1. /\ pool = FirstPool /\ poolIdx = 0 /\ slashed = {} /\ historySize \in HistorySizes /\ recent = <<>>
      /\ escalation = Unset /\ panel = {} /\ votes = [m \in Indices |-> <<>>]
      /\ cast = [m \in Indices |-> {}] /\ drawn = Unset /\ verdict = Unset
  BY DEF ArbitrationInit
<1>2. PoolOK
  BY <1>1, ArbitrationAssumption DEF PoolOK
<1>3. HistoryOK
  <2>1. historySize \in Nat
    BY <1>1, ArbitrationAssumption
  <2>2. recent \in Seq(Addresses) /\ DOMAIN recent = {}
    BY <1>1
  <2>. QED BY <2>1, <2>2 DEF HistoryOK, IsInjective
<1>4. VotesOK
  <2>1. PanelOK
    BY <1>1, FS_EmptySet DEF PanelOK
  <2>2. votes = [m \in Indices |-> votes[m]] /\ cast = [m \in Indices |-> cast[m]]
    BY <1>1
  <2>3. \A m \in Indices : votes[m] = <<>> /\ cast[m] = {}
    BY <1>1
  <2>4. \A m \in Indices : TallyOK(m)
    BY <2>3, EmptyTally DEF TallyOK
  <2>. QED BY <2>1, <2>2, <2>4 DEF VotesOK
<1>. QED BY <1>1, <1>2, <1>3, <1>4 DEF ArbInv, PanelFair, SeatsDecide

(* A step that draws no panel and reaches no majority. *)
LEMMA QuietFair == Quiet => PanelFair' /\ SeatsDecide'
  BY DEF Quiet, PanelFair, SeatsDecide

(* A step that leaves the panel and the votes alone. *)
LEMMA VotesUntouched ==
    ASSUME VotesOK, UNCHANGED <<panel, seated, votes, cast>>,
           escalation' = escalation \/ escalation' \in PanelSizes \cup {Unset}
    PROVE  VotesOK'
  BY DEF VotesOK, PanelOK, TallyOK

(* A new dispute or hearing of a milestone: either the panel and the tally stay,
   and the panel is not the dispute's; or a panel is seated and the tally is new. *)
LEMMA DisputeAnew ==
    ASSUME VotesOK, PanelOK', NEW m, cast' = [cast EXCEPT ![m] = {}],
           \/ votes' = votes /\ panel' = panel /\ Unseat(m)
           \/ votes' = FreshTally(m) /\ seated' = m
    PROVE  VotesOK'
<1>1. votes = [i \in Indices |-> votes[i]] /\ cast = [i \in Indices |-> cast[i]]
  BY DEF VotesOK
<1>2. votes' = [i \in Indices |-> votes'[i]] /\ cast' = [i \in Indices |-> cast'[i]]
  BY <1>1 DEF FreshTally
<1>3. ASSUME NEW i \in Indices PROVE TallyOK(i)'
  <2>1. TallyOK(i) /\ i # Unset
    BY ArbitrationAssumption DEF VotesOK
  <2>2. cast'[i] = IF i = m THEN {} ELSE cast[i]
    BY <1>1
  <2>3. CASE votes' = votes /\ panel' = panel /\ Unseat(m)
    <3>1. votes'[i] = votes[i] /\ (seated' = i => i # m /\ seated = i)
      BY <2>1, <2>3 DEF Unseat
    <3>2. cast'[i] \subseteq cast[i]
      BY <2>2
    <3>3. seated' = i => cast'[i] = cast[i]
      BY <2>2, <3>1
    <3>. QED BY <2>1, <2>3, <3>1, <3>2, <3>3 DEF TallyOK
  <2>4. CASE votes' = FreshTally(m) /\ seated' = m
    <3>1. votes'[i] = IF i = m THEN <<>> ELSE votes[i]
      BY <1>1, <2>4 DEF FreshTally
    <3>2. CASE i = m
      BY <2>2, <3>1, <3>2, EmptyTally DEF TallyOK
    <3>3. CASE i # m
      BY <2>1, <2>2, <2>4, <3>1, <3>3 DEF TallyOK
    <3>. QED BY <3>2, <3>3
  <2>. QED BY <2>3, <2>4
<1>. QED BY <1>2, <1>3 DEF VotesOK

(* Removing an arbiter. *)
LEMMA LeaveShrinks ==
    ASSUME PoolOK, NEW a, Leave(a)
    PROVE  /\ pool' \in Seq(Addresses) /\ poolIdx' \in Nat
           /\ Range(pool') = Range(pool) \ {a}
<1>. DEFINE P == Addresses \ {a}
<1>1. pool \in Seq(Addresses)
  BY DEF PoolOK
<1>2. pool' = Keep(pool, P) /\ poolIdx' = 0
  BY DEF Leave
<1>3. Range(pool) \subseteq Addresses
  BY <1>1, MembersFinite
<1>4. Range(pool) \cap P = Range(pool) \ {a}
  BY <1>3
<1>. HIDE DEF P
<1>. QED BY <1>1, <1>2, <1>4, KeepProperties

LEMMA AddKeeps ==
    ASSUME ArbInv, NEW a \in Addresses, AddArbiter(a)
    PROVE  ArbInv'
<1>1. /\ a \notin slashed /\ poolIdx' = poolIdx /\ slashed' = slashed
      /\ pool' = (IF a \in Range(pool) THEN pool ELSE Append(pool, a))
  BY DEF AddArbiter
<1>2. pool \in Seq(Addresses) /\ poolIdx \in Nat /\ slashed \cap Range(pool) = {}
  BY DEF ArbInv, PoolOK
<1>3. PoolOK'
  <2>1. CASE a \in Range(pool)
    BY <1>1, <1>2, <2>1 DEF PoolOK
  <2>2. CASE a \notin Range(pool)
    <3>. DEFINE one == <<a>>
    <3>1. pool' = pool \o one /\ one \in Seq(Addresses) /\ Range(one) = {a}
      BY <1>1, <1>2, <2>2 DEF Range
    <3>. HIDE DEF one
    <3>2. pool' \in Seq(Addresses) /\ Range(pool') = Range(pool) \cup {a}
      BY <1>2, <3>1, ConcatMembers
    <3>. QED BY <1>1, <1>2, <3>2 DEF PoolOK
  <2>. QED BY <2>1, <2>2
<1>4. HistoryOK'
  BY DEF AddArbiter, guardVars, HistoryOK, ArbInv
<1>5. VotesOK'
  BY VotesUntouched DEF AddArbiter, panelVars, disputeVars, ArbInv
<1>6. PanelFair' /\ SeatsDecide'
  BY QuietFair DEF AddArbiter
<1>. QED BY <1>3, <1>4, <1>5, <1>6 DEF ArbInv

LEMMA BatchKeeps ==
    ASSUME ArbInv, NEW batch \in Seq(Addresses), BatchAddArbiters(batch)
    PROVE  ArbInv'
<1>1. /\ Range(batch) \cap slashed = {} /\ poolIdx' = poolIdx /\ slashed' = slashed
      /\ pool' = pool \o batch
  BY DEF BatchAddArbiters
<1>2. pool \in Seq(Addresses) /\ poolIdx \in Nat /\ slashed \cap Range(pool) = {}
  BY DEF ArbInv, PoolOK
<1>3. PoolOK'
  <2>1. pool' \in Seq(Addresses) /\ Range(pool') = Range(pool) \cup Range(batch)
    BY <1>1, <1>2, ConcatMembers
  <2>. QED BY <1>1, <1>2, <2>1 DEF PoolOK
<1>4. HistoryOK'
  BY DEF BatchAddArbiters, guardVars, HistoryOK, ArbInv
<1>5. VotesOK'
  BY VotesUntouched DEF BatchAddArbiters, panelVars, disputeVars, ArbInv
<1>6. PanelFair' /\ SeatsDecide'
  BY QuietFair DEF BatchAddArbiters
<1>. QED BY <1>3, <1>4, <1>5, <1>6 DEF ArbInv

LEMMA RemoveKeeps ==
    ASSUME ArbInv, NEW a, RemoveArbiter(a) \/ SlashArbiter(a)
    PROVE  ArbInv'
<1>1. Leave(a) /\ (slashed' = slashed \/ slashed' = slashed \cup {a})
  BY DEF RemoveArbiter, SlashArbiter
<1>2. PoolOK'
  BY <1>1, LeaveShrinks DEF ArbInv, PoolOK
<1>3. UNCHANGED <<guardVars, panelVars>> /\ Quiet
  BY DEF RemoveArbiter, SlashArbiter
<1>4. HistoryOK'
  BY <1>3 DEF guardVars, HistoryOK, ArbInv
<1>5. VotesOK'
  BY <1>3, VotesUntouched DEF panelVars, disputeVars, ArbInv
<1>6. PanelFair' /\ SeatsDecide'
  BY <1>3, QuietFair
<1>. QED BY <1>2, <1>4, <1>5, <1>6 DEF ArbInv

LEMMA SettingsKeep ==
    ASSUME ArbInv,
           \/ \E a \in Addresses : ReinstateArbiter(a)
           \/ \E a \in Fickle, available \in BOOLEAN : SetAvailability(a, available)
           \/ \E n \in HistorySizes : SetHistorySize(n)
           \/ \E s \in PanelSizes \cup {Unset} : SetPanelEscalation(s)
           \/ \E m : ResolveByArbiter(m) \/ EndOtherwise(m)
    PROVE  ArbInv'
<1>1. pool' = pool /\ poolIdx' = poolIdx /\ slashed' \subseteq slashed /\ recent' = recent /\ Quiet
  BY DEF ReinstateArbiter, SetAvailability, SetHistorySize, SetPanelEscalation, ResolveByArbiter,
         EndOtherwise, poolVars, guardVars
<1>2. historySize' = historySize \/ historySize' \in HistorySizes
  BY DEF ReinstateArbiter, SetAvailability, SetHistorySize, SetPanelEscalation, ResolveByArbiter,
         EndOtherwise, guardVars
<1>3. /\ UNCHANGED <<panel, seated, votes, cast>>
      /\ escalation' = escalation \/ escalation' \in PanelSizes \cup {Unset}
  BY DEF ReinstateArbiter, SetAvailability, SetHistorySize, SetPanelEscalation, ResolveByArbiter,
         EndOtherwise, panelVars, disputeVars
<1>4. PoolOK'
  BY <1>1 DEF ArbInv, PoolOK
<1>5. HistoryOK'
  BY <1>1, <1>2, ArbitrationAssumption DEF ArbInv, HistoryOK
<1>6. VotesOK'
  BY <1>3, VotesUntouched DEF ArbInv
<1>7. PanelFair' /\ SeatsDecide'
  BY <1>1, QuietFair
<1>. QED BY <1>4, <1>5, <1>6, <1>7 DEF ArbInv

(* A panel that is seated is a fair one: nobody eligible was slashed. *)
LEMMA SeatFair ==
    ASSUME PoolOK, HistoryOK, NEW known \in Seq(Addresses), IsInjective(known), NEW n \in Nat,
           NEW members \in Draws(known, n), Seat(known, n, members)
    PROVE  PanelFair' /\ IsFiniteSet(Range(members))
<1>. DEFINE E == Range(pool) \ (ShipmentParties \cup unavailable)
            M == Range(members)
            R == Range(Met(known))
<1>1. /\ members \in Seq(Addresses) /\ IsInjective(members) /\ M \subseteq E
      /\ M \cap R # {} => E \ R \subseteq M
      /\ IsFiniteSet(E) /\ Len(members) = Min({n, Cardinality(E)})
  BY DrawProperties DEF PoolOK, HistoryOK
<1>2. IsFiniteSet(M) /\ Cardinality(M) = Len(members)
  BY <1>1, MembersFinite
<1>3. Range(pool) \ (ShipmentParties \cup unavailable \cup slashed) = E
  BY DEF PoolOK
<1>4. drawn' = [size |-> n, seats |-> Len(members), members |-> M, recents |-> R, eligible |-> E]
  BY <1>3 DEF Seat
<1>. HIDE DEF E, M, R
<1>5. /\ drawn'.size = n /\ drawn'.seats = Len(members) /\ drawn'.members = M
      /\ drawn'.recents = R /\ drawn'.eligible = E
  BY <1>4
<1>6. PanelFair'
  BY <1>1, <1>2, <1>5 DEF PanelFair
<1>. QED BY <1>2, <1>6 DEF M

LEMMA SizesAreNumbers == \A n \in PanelSizes : n \in Nat
  BY ArbitrationAssumption

LEMMA AssignKeeps ==
    ASSUME ArbInv, NEW m, NEW n \in PanelSizes, AssignDisputePanel(m, n)
    PROVE  ArbInv'
<1>1. PICK members \in Draws(recent, n) :
         /\ panel' = Range(members) /\ recent' = Remember(recent, members) /\ Seat(recent, n, members)
  BY DEF AssignDisputePanel
<1>2. /\ pool' = pool /\ poolIdx' = poolIdx /\ slashed' = slashed /\ historySize' = historySize
      /\ escalation' = escalation /\ votes' = votes /\ cast' = cast /\ seated' = m
      /\ verdict' = Unset /\ votes[m] = <<>>
  BY DEF AssignDisputePanel, poolVars, disputeVars
<1>3. n \in Nat /\ PoolOK /\ HistoryOK /\ VotesOK
  BY SizesAreNumbers DEF ArbInv
<1>4. pool \in Seq(Addresses) /\ historySize \in Nat /\ recent \in Seq(Addresses) /\ IsInjective(recent)
  BY <1>3 DEF PoolOK, HistoryOK
<1>5. members \in Seq(Addresses) /\ IsInjective(members)
  BY <1>3, <1>4, DrawProperties
<1>6. PanelFair' /\ IsFiniteSet(Range(members))
  BY <1>1, <1>3, <1>4, SeatFair
<1>7. PoolOK'
  BY <1>2, <1>3 DEF PoolOK
<1>8. HistoryOK'
  BY <1>1, <1>2, <1>4, <1>5, RememberTyped DEF HistoryOK
<1>9. VotesOK'
  <2>1. PanelOK'
    BY <1>1, <1>2, <1>3, <1>6 DEF VotesOK, PanelOK
  <2>2. ASSUME NEW i \in Indices PROVE TallyOK(i)'
    <3>1. TallyOK(i)
      BY <1>3 DEF VotesOK
    <3>2. i = m => cast[i] = {} /\ Range(votes[i]) = {}
      BY <1>2, <3>1, EmptyTally DEF TallyOK
    <3>. QED BY <1>2, <3>1, <3>2 DEF TallyOK
  <2>. QED BY <1>2, <1>3, <2>1, <2>2 DEF VotesOK
<1>10. SeatsDecide'
  BY <1>2 DEF SeatsDecide
<1>. QED BY <1>6, <1>7, <1>8, <1>9, <1>10 DEF ArbInv

(* An escalation, whichever arbiters the supplier has met by now. *)
LEMMA EscalationKeeps ==
    ASSUME ArbInv, NEW m, NEW big, NEW known \in Seq(Addresses), IsInjective(known),
           MaybeEscalate(m, big, known), escalation' = escalation, cast' = [cast EXCEPT ![m] = {}]
    PROVE  /\ PanelFair' /\ VotesOK' /\ recent' \in Seq(Addresses) /\ IsInjective(recent')
<1>1. PoolOK /\ HistoryOK /\ VotesOK /\ historySize \in Nat /\ pool \in Seq(Addresses)
  BY DEF ArbInv, PoolOK, HistoryOK
<1>2. CASE recent' = known /\ drawn' = Unset /\ Unseat(m) /\ UNCHANGED <<panel, votes>>
  <2>1. PanelOK'
    BY <1>1, <1>2 DEF VotesOK, PanelOK
  <2>2. VotesOK'
    BY <1>1, <1>2, <2>1, DisputeAnew
  <2>. QED BY <1>2, <2>2 DEF PanelFair
<1>3. ASSUME escalation # Unset, NEW members \in Draws(known, escalation),
             Seat(known, escalation, members),
             \/ /\ panel' = Range(members) /\ seated' = m /\ votes' = FreshTally(m)
                /\ recent' = Remember(known, members)
             \/ recent' = known /\ Unseat(m) /\ UNCHANGED <<panel, votes>>
      PROVE  /\ PanelFair' /\ VotesOK' /\ recent' \in Seq(Addresses) /\ IsInjective(recent')
  <2>1. escalation \in Nat
    BY <1>1, <1>3, SizesAreNumbers DEF VotesOK, PanelOK
  <2>2. PanelFair' /\ IsFiniteSet(Range(members))
    BY <1>1, <1>3, <2>1, SeatFair
  <2>3. members \in Seq(Addresses) /\ IsInjective(members)
    BY <1>1, <1>3, <2>1, DrawProperties
  <2>4. CASE recent' = known /\ Unseat(m) /\ UNCHANGED <<panel, votes>>
    <3>1. PanelOK'
      BY <1>1, <2>4 DEF VotesOK, PanelOK
    <3>2. VotesOK'
      BY <1>1, <2>4, <3>1, DisputeAnew
    <3>. QED BY <2>2, <2>4, <3>2
  <2>5. CASE /\ panel' = Range(members) /\ seated' = m /\ votes' = FreshTally(m)
             /\ recent' = Remember(known, members)
    <3>1. recent' \in Seq(Addresses) /\ IsInjective(recent')
      BY <1>1, <2>3, <2>5, RememberTyped
    <3>2. PanelOK'
      BY <1>1, <2>2, <2>5 DEF VotesOK, PanelOK
    <3>3. VotesOK'
      BY <1>1, <2>5, <3>2, DisputeAnew
    <3>. QED BY <2>2, <3>1, <3>3
  <2>. QED BY <1>3, <2>4, <2>5
<1>. QED BY <1>2, <1>3 DEF MaybeEscalate

(* The walk of the round robin is in the pool. *)
LEMMA RotatedInPool ==
    ASSUME pool \in Seq(Addresses), NEW start \in Nat
    PROVE  Rotated(start) \in Seq(Addresses) /\ Range(Rotated(start)) \subseteq Range(pool)
<1>. DEFINE n == Len(pool)
            r == Rotated(start)
            at(i) == ((start + i - 1) % n) + 1
<1>1. n \in Nat /\ DOMAIN pool = 1 .. n
  BY LenProperties
<1>2. r = [i \in 1 .. n |-> pool[at(i)]]
  BY DEF Rotated
<1>3. ASSUME NEW i \in 1 .. n PROVE at(i) \in 1 .. n
  <2>1. n \in Nat /\ n > 0 /\ start + i - 1 \in Int
    BY <1>1
  <2>. DEFINE q == (start + i - 1) % n
  <2>2. q \in 0 .. (n - 1)
    <3>. DEFINE w == start + i - 1
    <3>. HIDE DEF n, w
    <3>. QED BY <2>1 DEF w
  <2>. HIDE DEF q, n
  <2>3. q + 1 \in 1 .. n
    BY <2>1, <2>2
  <2>. QED BY <2>3 DEF q, n
<1>. HIDE DEF at, r
<1>4. \A i \in 1 .. n : r[i] = pool[at(i)] /\ pool[at(i)] \in Addresses /\ pool[at(i)] \in Range(pool)
  BY <1>1, <1>2, <1>3 DEF Range
<1>5. r \in Seq(Addresses) /\ DOMAIN r = 1 .. n
  BY <1>1, <1>2, <1>4
<1>. QED BY <1>4, <1>5 DEF Range, r

LEMMA QuotientRemainder ==
    ASSUME NEW n \in Nat, n > 0, NEW a \in Int
    PROVE  a \div n \in Int /\ a % n \in 0 .. (n - 1) /\ a = (n * (a \div n)) + (a % n)
  OBVIOUS

(* A remainder is the only one. *)
LEMMA RemainderUnique ==
    ASSUME NEW n \in Nat, n > 0, NEW a \in Int, NEW q \in Int, NEW e \in 0 .. (n - 1), a = n * q + e
    PROVE  a % n = e
<1>. DEFINE d == a \div n
            f == a % n
<1>1. d \in Int /\ f \in 0 .. (n - 1) /\ a = n * d + f
  OBVIOUS
<1>. HIDE DEF d, f
<1>2. n * q + e = n * d + f /\ f < n /\ e < n /\ f >= 0 /\ e >= 0 /\ f \in Int /\ e \in Int
  BY <1>1
<1>3. CASE q < d
  <2>1. PICK w \in Nat : d = q + 1 + w
    <3>1. d - q - 1 \in Nat /\ d = q + 1 + (d - q - 1)
      BY <1>1, <1>3
    <3>. QED BY <3>1
  <2>2. n * d = n * q + n + n * w
    BY <1>1, <2>1
  <2>3. n * w \in Nat /\ n * q \in Int
    OBVIOUS
  <2>. DEFINE u == n * w
              v == n * q
  <2>4. u \in Nat /\ v \in Int /\ v + e = v + n + u + f
    BY <1>2, <2>2, <2>3
  <2>. HIDE DEF u, v
  <2>. QED BY <1>2, <2>4
<1>4. CASE d < q
  <2>1. PICK w \in Nat : q = d + 1 + w
    <3>1. q - d - 1 \in Nat /\ q = d + 1 + (q - d - 1)
      BY <1>1, <1>4
    <3>. QED BY <3>1
  <2>2. n * q = n * d + n + n * w
    BY <1>1, <2>1
  <2>3. n * w \in Nat /\ n * d \in Int
    BY <1>1
  <2>. DEFINE u == n * w
              v == n * d
  <2>4. u \in Nat /\ v \in Int /\ v + n + u + e = v + f
    BY <1>2, <2>2, <2>3
  <2>. HIDE DEF u, v
  <2>. QED BY <1>2, <2>4
<1>5. CASE q = d
  <2>. DEFINE v == n * d
  <2>1. v \in Int /\ v + e = v + f
    BY <1>1, <1>2, <1>5
  <2>. HIDE DEF v
  <2>. QED BY <1>2, <2>1 DEF f
<1>. QED BY <1>1, <1>3, <1>4, <1>5

(* The walk meets every arbiter of the pool, wherever it starts. *)
LEMMA RotatedMeetsAll ==
    ASSUME pool \in Seq(Addresses), NEW start \in Nat, NEW j \in 1 .. Len(pool)
    PROVE  pool[j] \in Range(Rotated(start))
<1>. DEFINE n == Len(pool)
            d == j - 1 - start
            i == (d % n) + 1
            w == start + i - 1
<1>1. n \in Nat /\ n > 0
  BY LenProperties
<1>2. d \in Int
  OBVIOUS
<1>. HIDE DEF n, d
<1>3. d \div n \in Int /\ d % n \in 0 .. (n - 1) /\ d = (n * (d \div n)) + (d % n)
  BY <1>1, <1>2, QuotientRemainder
<1>. DEFINE e == d % n
            q == 0 - (d \div n)
            z == n * (d \div n)
<1>4. e \in 0 .. (n - 1) /\ q \in Int /\ d = z + e /\ z \in Int
  <2>. DEFINE g == d \div n
  <2>1. g \in Int /\ q = 0 - g /\ z = n * g /\ d = z + e /\ e \in 0 .. (n - 1)
    BY <1>3
  <2>. HIDE DEF g, q, z, e
  <2>. QED BY <1>1, <2>1
<1>5. n * q = 0 - z
  <2>. DEFINE g == d \div n
  <2>1. g \in Int /\ q = 0 - g /\ z = n * g
    BY <1>3
  <2>. HIDE DEF g, q, z
  <2>2. n * (0 - g) = 0 - (n * g)
    BY <1>1, <2>1
  <2>. QED BY <2>1, <2>2
<1>. HIDE DEF z, q, e
<1>6. i \in 1 .. n /\ w = start + e /\ w \in Int
  <2>1. i = e + 1 /\ w = start + i - 1
    BY DEF e
  <2>. HIDE DEF i, w
  <2>. QED BY <1>1, <1>4, <2>1
<1>. HIDE DEF w, i
<1>7. w = n * q + (j - 1) /\ j - 1 \in 0 .. (n - 1)
  BY <1>1, <1>4, <1>5, <1>6 DEF d, n
<1>8. w % n = j - 1
  <2>. DEFINE y == j - 1
  <2>1. y \in 0 .. (n - 1) /\ w = n * q + y
    BY <1>7
  <2>. HIDE DEF y
  <2>2. w % n = y
    BY <1>1, <1>4, <1>6, <2>1, RemainderUnique
  <2>. QED BY <2>2 DEF y
<1>9. Rotated(start)[i] = pool[(w % n) + 1] /\ i \in DOMAIN Rotated(start)
  BY <1>6 DEF Rotated, w, n
<1>10. Rotated(start)[i] = pool[j]
  BY <1>8, <1>9
<1>. QED BY <1>9, <1>10 DEF Range

LEMMA PositionInPool ==
    ASSUME pool \in Seq(Addresses), NEW a \in Range(pool)
    PROVE  (Position(a) + 1) % Len(pool) \in Nat
<1>. DEFINE n == Len(pool)
            p == CHOOSE i \in 1 .. n : pool[i] = a
<1>1. n \in Nat /\ DOMAIN pool = 1 .. n
  BY LenProperties
<1>2. \E i \in 1 .. n : pool[i] = a
  BY <1>1 DEF Range
<1>3. p \in 1 .. n
  BY <1>2
<1>4. Position(a) = p - 1
  BY DEF Position
<1>. HIDE DEF p, n
<1>5. (p - 1) + 1 \in Nat /\ n \in Nat /\ n > 0
  BY <1>1, <1>3
<1>6. ((p - 1) + 1) % n \in Nat
  BY <1>5
<1>. QED BY <1>4, <1>6 DEF n

LEMMA RecusalKeeps ==
    ASSUME ArbInv, RecuseArbiter
    PROVE  ArbInv'
<1>. DEFINE walk == Rotated(poolIdx)
            P == Addresses \ {arbiter}
            others == Keep(walk, P)
            next == others[1]
<1>1. /\ PoolOK /\ HistoryOK /\ VotesOK /\ pool \in Seq(Addresses) /\ poolIdx \in Nat
  BY DEF ArbInv, PoolOK
<1>2. /\ pool' = pool /\ slashed' = slashed /\ poolIdx' = (Position(next) + 1) % Len(pool) /\ Quiet
      /\ UNCHANGED <<guardVars, panelVars>>
  BY DEF RecuseArbiter
<1>3. walk \in Seq(Addresses) /\ Range(walk) \subseteq Range(pool)
  BY <1>1, RotatedInPool
<1>4. \E x : x \in Range(walk) /\ x \in P
  <2>1. PICK i \in 1 .. Len(pool) : pool[i] # arbiter
    BY DEF RecuseArbiter
  <2>2. pool[i] \in Range(walk)
    BY <1>1, RotatedMeetsAll
  <2>3. pool[i] \in Addresses
    BY <1>1, ElementOfSeq
  <2>. QED BY <2>1, <2>2, <2>3
<1>5. next \in Range(pool)
  <2>. HIDE DEF P, walk
  <2>1. others \in Seq(Addresses) /\ Range(others) = Range(walk) \cap P
    BY <1>3, KeepProperties
  <2>. HIDE DEF others
  <2>2. DOMAIN others = 1 .. Len(others) /\ Len(others) \in Nat
    BY <2>1, LenProperties
  <2>3. 1 \in DOMAIN others
    <3>1. Range(others) # {}
      BY <1>4, <2>1
    <3>. QED BY <2>2, <3>1 DEF Range
  <2>4. next \in Range(others)
    BY <2>3 DEF Range
  <2>. QED BY <1>3, <2>1, <2>4
<1>6. PoolOK'
  BY <1>1, <1>2, <1>5, PositionInPool DEF PoolOK
<1>7. HistoryOK'
  BY <1>1, <1>2 DEF guardVars, HistoryOK
<1>8. VotesOK'
  BY <1>1, <1>2, VotesUntouched DEF panelVars, disputeVars
<1>9. PanelFair' /\ SeatsDecide'
  BY <1>2, QuietFair
<1>. QED BY <1>6, <1>7, <1>8, <1>9 DEF ArbInv

(* The arbiter the round robin picks, if any, is one of the pool. *)
LEMMA PickedOne ==
    ASSUME PoolOK, HistoryOK, pool # <<>>, NEW picked,
           picked = Select(Rotated(poolIdx % Len(pool)), recent, {}, 1)
    PROVE  /\ picked \in Seq(Addresses) /\ IsInjective(picked)
           /\ picked # <<>> => picked[1] \in Range(pool)
<1>. DEFINE start == poolIdx % Len(pool)
            walk == Rotated(start)
            nobody == {}
            one == 1
<1>1. pool \in Seq(Addresses) /\ poolIdx \in Nat /\ historySize \in Nat /\ recent \in Seq(Addresses)
  BY DEF PoolOK, HistoryOK
<1>2. start \in Nat
  <2>. DEFINE n == Len(pool)
  <2>1. n \in Nat /\ n > 0
    BY <1>1, EmptySeq
  <2>2. poolIdx \in Nat
    BY <1>1
  <2>. HIDE DEF n
  <2>3. poolIdx % n \in Nat
    BY <2>1, <2>2
  <2>. QED BY <2>3 DEF n
<1>. HIDE DEF start
<1>3. walk \in Seq(Addresses) /\ Range(walk) \subseteq Range(pool)
  BY <1>1, <1>2, RotatedInPool
<1>4. one \in Nat /\ picked = Select(walk, recent, nobody, one)
  BY DEF start
<1>. HIDE DEF walk, nobody, one
<1>5. picked \in Seq(Addresses) /\ Len(picked) <= one /\ Range(picked) \subseteq Range(pool)
  BY <1>1, <1>3, <1>4, SelectTyped
<1>6. DOMAIN picked = 1 .. Len(picked) /\ Len(picked) \in Nat /\ Len(picked) <= 1
  BY <1>5, LenProperties DEF one
<1>7. \A i, j \in DOMAIN picked : i = j
  BY <1>6
<1>8. picked # <<>> => 1 \in DOMAIN picked
  BY <1>5, <1>6
<1>. QED BY <1>5, <1>7, <1>8 DEF IsInjective, Range

LEMMA RaiseKeeps ==
    ASSUME ArbInv, NEW m, NEW big, RaiseDispute(m, big)
    PROVE  ArbInv'
<1>. DEFINE picked == Select(Rotated(poolIdx % Len(pool)), recent, {}, 1)
<1>1. PoolOK /\ HistoryOK /\ VotesOK
  BY DEF ArbInv
<1>2. /\ pool' = pool /\ slashed' = slashed /\ historySize' = historySize /\ escalation' = escalation
      /\ verdict' = Unset /\ cast' = [cast EXCEPT ![m] = {}]
  BY DEF RaiseDispute
<1>3. \/ /\ pool # <<>> /\ picked # <<>> /\ poolIdx' = (Position(picked[1]) + 1) % Len(pool)
         /\ MaybeEscalate(m, big, Remember(recent, picked))
      \/ MaybeEscalate(m, big, recent) /\ poolIdx' = poolIdx
  BY DEF RaiseDispute
<1>4. SeatsDecide'
  BY <1>2 DEF SeatsDecide
<1>5. /\ PanelFair' /\ VotesOK' /\ recent' \in Seq(Addresses) /\ IsInjective(recent')
      /\ poolIdx' \in Nat
  <2>0. historySize \in Nat /\ recent \in Seq(Addresses) /\ IsInjective(recent) /\ pool \in Seq(Addresses)
        /\ poolIdx \in Nat
    BY <1>1 DEF HistoryOK, PoolOK
  <2>1. CASE /\ pool # <<>> /\ picked # <<>> /\ poolIdx' = (Position(picked[1]) + 1) % Len(pool)
             /\ MaybeEscalate(m, big, Remember(recent, picked))
    <3>. DEFINE known == Remember(recent, picked)
    <3>1. picked \in Seq(Addresses) /\ IsInjective(picked) /\ picked[1] \in Range(pool)
      BY <1>1, <2>1, PickedOne
    <3>. HIDE DEF picked
    <3>2. known \in Seq(Addresses) /\ IsInjective(known)
      BY <2>0, <3>1, RememberTyped
    <3>3. MaybeEscalate(m, big, known)
      BY <2>1
    <3>. HIDE DEF known
    <3>4. PanelFair' /\ VotesOK' /\ recent' \in Seq(Addresses) /\ IsInjective(recent')
      BY <1>2, <3>2, <3>3, EscalationKeeps
    <3>5. poolIdx' \in Nat
      BY <2>0, <2>1, <3>1, PositionInPool
    <3>. QED BY <3>4, <3>5
  <2>2. CASE MaybeEscalate(m, big, recent) /\ poolIdx' = poolIdx
    BY <1>2, <2>0, <2>2, EscalationKeeps
  <2>. HIDE DEF picked
  <2>. QED BY <1>3, <2>1, <2>2
<1>6. PoolOK'
  BY <1>1, <1>2, <1>5 DEF PoolOK
<1>7. HistoryOK'
  BY <1>1, <1>2, <1>5 DEF HistoryOK
<1>. QED BY <1>4, <1>5, <1>6, <1>7 DEF ArbInv

(* An appeal: another arbiter of the pool hears the milestone again. *)
LEMMA AppealKeeps ==
    ASSUME ArbInv, NEW m, AppealDispute(m)
    PROVE  ArbInv'
<1>. DEFINE self == {arbiter}
            one == 1
            next == Select(pool, recent, self, one)
<1>1. /\ PoolOK /\ HistoryOK /\ VotesOK /\ pool \in Seq(Addresses) /\ historySize \in Nat
      /\ recent \in Seq(Addresses) /\ IsInjective(recent)
  BY DEF ArbInv, PoolOK, HistoryOK
<1>2. /\ UNCHANGED <<poolVars, historySize, escalation, panel, votes>> /\ Quiet
      /\ recent' = Remember(recent, next) /\ cast' = [cast EXCEPT ![m] = {}] /\ Unseat(m)
  BY DEF AppealDispute
<1>3. one \in Nat /\ one = 1
  OBVIOUS
<1>. HIDE DEF self, one
<1>4. next \in Seq(Addresses) /\ Len(next) <= one
  BY <1>1, <1>3, SelectTyped
<1>. HIDE DEF next
<1>5. IsInjective(next)
  <2>1. DOMAIN next = 1 .. Len(next) /\ Len(next) \in Nat /\ Len(next) <= 1
    BY <1>3, <1>4, LenProperties
  <2>2. \A i, j \in DOMAIN next : i = j
    BY <2>1
  <2>. QED BY <2>2 DEF IsInjective
<1>6. PoolOK'
  BY <1>1, <1>2 DEF PoolOK, poolVars
<1>7. HistoryOK'
  BY <1>1, <1>2, <1>4, <1>5, RememberTyped DEF HistoryOK
<1>8. VotesOK'
  <2>1. PanelOK'
    BY <1>1, <1>2 DEF VotesOK, PanelOK
  <2>. QED BY <1>1, <1>2, <2>1, DisputeAnew
<1>9. PanelFair' /\ SeatsDecide'
  BY <1>2, QuietFair
<1>. QED BY <1>6, <1>7, <1>8, <1>9 DEF ArbInv

(* One more vote, of an arbiter who has not voted, in the tally. *)
LEMMA TallyGrows ==
    ASSUME NEW t \in Seq(Ballots), OneVoteEach(t), NEW v \in Ballots,
           \A w \in Range(t) : w.arbiter # v.arbiter
    PROVE  /\ Append(t, v) \in Seq(Ballots) /\ OneVoteEach(Append(t, v))
           /\ Range(Append(t, v)) = Range(t) \cup {v}
<1>. DEFINE u == Append(t, v)
            n == Len(t)
<1>1. n \in Nat /\ DOMAIN t = 1 .. n
  BY LenProperties
<1>2. u \in Seq(Ballots) /\ DOMAIN u = 1 .. (n + 1) /\ u[n + 1] = v /\ \A i \in 1 .. n : u[i] = t[i]
  BY <1>1
<1>. HIDE DEF n, u
<1>3. \A i \in DOMAIN u : i \in DOMAIN t \/ i = n + 1
  BY <1>1, <1>2
<1>4. \A i \in DOMAIN t : u[i] = t[i] /\ t[i] \in Range(t) /\ i # n + 1 /\ i \in DOMAIN u
  BY <1>1, <1>2 DEF Range
<1>5. n + 1 \in DOMAIN u
  BY <1>1, <1>2
<1>6. OneVoteEach(u)
  <2>. SUFFICES ASSUME NEW i \in DOMAIN u, NEW j \in DOMAIN u, u[i].arbiter = u[j].arbiter
                PROVE  i = j
    BY DEF OneVoteEach
  <2>1. CASE i \in DOMAIN t /\ j \in DOMAIN t
    BY <1>4, <2>1 DEF OneVoteEach
  <2>2. CASE i \in DOMAIN t /\ j = n + 1
    BY <1>2, <1>4, <2>2
  <2>3. CASE i = n + 1 /\ j \in DOMAIN t
    BY <1>2, <1>4, <2>3
  <2>. QED BY <1>3, <2>1, <2>2, <2>3
<1>7. Range(u) = Range(t) \cup {v}
  <2>1. Range(u) \subseteq Range(t) \cup {v}
    BY <1>2, <1>3, <1>4 DEF Range
  <2>2. v \in Range(u)
    BY <1>2, <1>5 DEF Range
  <2>3. Range(t) \subseteq Range(u)
    BY <1>4 DEF Range
  <2>. QED BY <2>1, <2>2, <2>3
<1>. QED BY <1>2, <1>6, <1>7 DEF u

(* The votes of a tally that say the same are not more than the arbiters who gave
   them, if these are members of a finite panel. *)
LEMMA AsManyHolders ==
    ASSUME NEW t, OneVoteEach(t), NEW S, IsFiniteSet(S), NEW G, G \subseteq DOMAIN t,
           NEW H, H \subseteq S, \A i \in G : t[i].arbiter \in H
    PROVE  /\ IsFiniteSet(G) /\ Cardinality(G) \in Nat /\ Cardinality(H) \in Nat
           /\ Cardinality(G) <= Cardinality(H)
<1>. DEFINE f == [i \in G |-> t[i].arbiter]
<1>1. f \in Injection(G, H)
  <2>1. f \in [G -> H] /\ \A i \in G : f[i] = t[i].arbiter
    OBVIOUS
  <2>2. \A i, j \in G : f[i] = f[j] => i = j
    BY <2>1 DEF OneVoteEach
  <2>. HIDE DEF f
  <2>. QED BY <2>1, <2>2 DEF Injection, IsInjective
<1>2. IsFiniteSet(H)
  BY FS_Subset
<1>. QED BY <1>1, <1>2, FS_Injection, FS_CardinalityType

(* A vote: the tally keeps one vote of each arbiter, and if it closes the dispute
   its panel was drawn for, every vote that agrees is a member's of that dispute. *)
LEMMA VoteKeeps ==
    ASSUME ArbInv, NEW a \in Addresses, NEW m \in Indices, NEW approve \in BOOLEAN,
           CastDisputeVote(a, m, approve)
    PROVE  ArbInv'
<1>. DEFINE vote == [arbiter |-> a, approve |-> approve]
            tally == Append(votes[m], vote)
            agreeing == {i \in DOMAIN tally : tally[i].approve = approve}
            alike == {w \in cast[m] \cup {vote} : w.approve = approve}
            holders == {v.arbiter : v \in alike} \cap panel
            seats == Cardinality(panel)
            reached == Cardinality(agreeing) >= Majority(seats)
<1>1. PoolOK /\ HistoryOK /\ VotesOK /\ TallyOK(m) /\ a \in panel
  BY DEF ArbInv, VotesOK, CastDisputeVote
<1>2. /\ pool' = pool /\ poolIdx' = poolIdx /\ slashed' = slashed /\ historySize' = historySize
      /\ recent' = recent /\ escalation' = escalation /\ panel' = panel /\ seated' = seated
      /\ drawn' = Unset
  BY DEF CastDisputeVote, poolVars, guardVars
<1>3. /\ reached => /\ votes' = [votes EXCEPT ![m] = <<>>] /\ cast' = [cast EXCEPT ![m] = {}]
                    /\ verdict' = [holders |-> holders, size |-> seats, own |-> seated = m]
      /\ ~ reached => /\ votes' = [votes EXCEPT ![m] = tally]
                      /\ cast' = [cast EXCEPT ![m] = @ \cup {vote}] /\ verdict' = Unset
  BY DEF CastDisputeVote
<1>4. a \notin Voted(m)
  BY DEF CastDisputeVote
<1>. HIDE DEF seats, reached, holders
<1>5. vote \in Ballots /\ vote.arbiter = a /\ vote.approve = approve
  BY DEF Ballots
<1>. HIDE DEF vote
<1>6. /\ tally \in Seq(Ballots) /\ OneVoteEach(tally) /\ Range(tally) = Range(votes[m]) \cup {vote}
  <2>1. votes[m] \in Seq(Ballots) /\ OneVoteEach(votes[m])
    BY <1>1 DEF TallyOK
  <2>2. \A w \in Range(votes[m]) : w.arbiter # a
    BY <1>4 DEF Voted
  <2>. QED BY <1>5, <2>1, <2>2, TallyGrows
<1>. HIDE DEF tally
<1>7. PoolOK' /\ HistoryOK' /\ PanelFair'
  BY <1>1, <1>2 DEF PoolOK, HistoryOK, PanelFair
<1>8. VotesOK'
  <2>1. PanelOK'
    BY <1>1, <1>2 DEF VotesOK, PanelOK
  <2>2. votes = [i \in Indices |-> votes[i]] /\ cast = [i \in Indices |-> cast[i]]
    BY <1>1 DEF VotesOK
  <2>3. votes' = [i \in Indices |-> votes'[i]] /\ cast' = [i \in Indices |-> cast'[i]]
    BY <1>3, <2>2
  <2>4. ASSUME NEW i \in Indices, i # m PROVE TallyOK(i)'
    <3>1. votes'[i] = votes[i] /\ cast'[i] = cast[i] /\ TallyOK(i)
      BY <1>1, <1>3, <2>2, <2>4 DEF VotesOK
    <3>. QED BY <1>2, <3>1 DEF TallyOK
  <2>5. CASE reached
    <3>1. votes'[m] = <<>> /\ cast'[m] = {}
      BY <1>3, <2>2, <2>5
    <3>. QED BY <2>1, <2>3, <2>4, <3>1, EmptyTally DEF VotesOK, TallyOK
  <2>6. CASE ~ reached
    <3>1. votes'[m] = tally /\ cast'[m] = cast[m] \cup {vote}
      BY <1>3, <2>2, <2>6
    <3>2. TallyOK(m)'
      BY <1>1, <1>2, <1>5, <1>6, <3>1 DEF TallyOK
    <3>. QED BY <2>1, <2>3, <2>4, <3>2 DEF VotesOK
  <2>. QED BY <2>5, <2>6
<1>9. SeatsDecide'
  <2>1. CASE reached
    <3>. DEFINE own == seated = m
    <3>0. verdict' = [holders |-> holders, size |-> seats, own |-> own]
      BY <1>3, <2>1
    <3>. HIDE DEF own
    <3>1. verdict'.holders = holders /\ verdict'.size = seats /\ verdict'.own = own
      BY <3>0
    <3>2. ASSUME seated = m PROVE 2 * Cardinality(holders) > seats
      <4>1. Range(tally) \subseteq cast[m] \cup {vote} /\ \A v \in cast[m] : v.arbiter \in panel
        BY <1>1, <1>6, <3>2 DEF TallyOK
      <4>2. \A i \in agreeing : tally[i] \in Range(tally) /\ tally[i].approve = approve
        BY DEF Range
      <4>3. \A v \in alike : v.arbiter \in holders
        BY <1>1, <1>5, <4>1 DEF holders
      <4>4. \A i \in agreeing : tally[i] \in alike
        BY <4>1, <4>2
      <4>5. IsFiniteSet(panel) /\ holders \subseteq panel
        BY <1>1 DEF VotesOK, PanelOK, holders
      <4>. DEFINE g == Cardinality(agreeing)
                  h == Cardinality(holders)
      <4>6. agreeing \subseteq DOMAIN tally /\ \A i \in agreeing : tally[i].arbiter \in holders
        BY <4>3, <4>4
      <4>. HIDE DEF agreeing, alike
      <4>7. g \in Nat /\ h \in Nat /\ g <= h
        BY <1>6, <4>5, <4>6, AsManyHolders
      <4>8. g >= (seats \div 2) + 1 /\ seats \in Nat
        BY <2>1, <4>5, FS_CardinalityType DEF reached, Majority, seats
      <4>. HIDE DEF g, h
      <4>9. 2 * h > seats
        BY <4>7, <4>8
      <4>. QED BY <4>9 DEF h
    <3>. QED BY <3>1, <3>2 DEF SeatsDecide, own
  <2>2. CASE ~ reached
    BY <1>3, <2>2 DEF SeatsDecide
  <2>. QED BY <2>1, <2>2
<1>. QED BY <1>7, <1>8, <1>9 DEF ArbInv

(* The inductive step, one case for each call. *)
LEMMA ArbStep == ArbInv /\ [ArbitrationNext]_arbVars => ArbInv'
<1>. SUFFICES ASSUME ArbInv, [ArbitrationNext]_arbVars PROVE ArbInv'
  OBVIOUS
<1>0. Fickle \subseteq Addresses /\ Min(PanelSizes) \in PanelSizes
  <2>1. PanelSizes \subseteq Nat /\ PanelSizes # {} /\ Fickle \subseteq Addresses
    BY ArbitrationAssumption
  <2>2. PICK n \in PanelSizes : \A y \in PanelSizes : n <= y
    BY <2>1, LeastNumber
  <2>. QED BY <2>1, <2>2 DEF Min
<1>1. CASE \E a \in Fickle : AddArbiter(a)
  BY <1>0, <1>1, AddKeeps
<1>2. CASE \E a \in Fickle, b \in Addresses : BatchAddArbiters(<<a, b>>)
  <2>1. PICK a \in Addresses, b \in Addresses : BatchAddArbiters(<<a, b>>)
    BY <1>0, <1>2
  <2>. DEFINE batch == <<a, b>>
  <2>2. batch \in Seq(Addresses) /\ BatchAddArbiters(batch)
    BY <2>1
  <2>. HIDE DEF batch
  <2>. QED BY <2>2, BatchKeeps
<1>3. CASE \E a \in Fickle : RemoveArbiter(a) \/ SlashArbiter(a)
  BY <1>3, RemoveKeeps
<1>4. CASE \/ \E a \in Addresses : ReinstateArbiter(a)
           \/ \E a \in Fickle, available \in BOOLEAN : SetAvailability(a, available)
           \/ \E n \in HistorySizes : SetHistorySize(n)
           \/ \E s \in PanelSizes \cup {Unset} : SetPanelEscalation(s)
           \/ \E m : ResolveByArbiter(m) \/ EndOtherwise(m)
  BY <1>4, SettingsKeep
<1>5. CASE RecuseArbiter
  BY <1>5, RecusalKeeps
<1>6. CASE \E m, big : RaiseDispute(m, big)
  BY <1>6, RaiseKeeps
<1>7. CASE \E m : \E n \in PanelSizes : AssignDisputePanel(m, n)
  BY <1>7, AssignKeeps
<1>8. CASE \E a \in Addresses, approve \in BOOLEAN, m \in Indices : CastDisputeVote(a, m, approve)
  BY <1>8, VoteKeeps
<1>9. CASE UNCHANGED arbVars
  <2>1. UNCHANGED <<poolVars, guardVars, panelVars, drawn, verdict>>
    BY <1>9 DEF arbVars
  <2>2. PoolOK' /\ HistoryOK'
    BY <2>1 DEF ArbInv, PoolOK, HistoryOK, poolVars, guardVars
  <2>3. VotesOK'
    BY <2>1, VotesUntouched DEF ArbInv, panelVars, disputeVars
  <2>4. PanelFair' /\ SeatsDecide'
    BY <2>1 DEF ArbInv, PanelFair, SeatsDecide
  <2>. QED BY <2>2, <2>3, <2>4 DEF ArbInv
<1>10. PoolNext => ArbInv'
  <2>. SUFFICES ASSUME PoolNext PROVE ArbInv'
    OBVIOUS
  <2>. QED BY <1>0, <1>1, <1>2, <1>3, <1>4, <1>5, <1>6, Zenon DEF PoolNext, Availability
<1>11. DrawNext => ArbInv'
  <2>. SUFFICES ASSUME DrawNext PROVE ArbInv'
    OBVIOUS
  <2>. QED BY <1>3, <1>4, <1>6, <1>7, Zenon DEF DrawNext, Availability
<1>12. CASE \E m : AppealDispute(m)
  BY <1>12, AppealKeeps
<1>13. VoteNext(Indices) => ArbInv'
  <2>. SUFFICES ASSUME VoteNext(Indices) PROVE ArbInv'
    OBVIOUS
  <2>1. CASE \E setting \in {Min(PanelSizes), Unset} : SetPanelEscalation(setting)
    BY <1>0, <1>4, <2>1
  <2>2. CASE \E m \in Indices : AssignDisputePanel(m, Min(PanelSizes))
    BY <1>0, <1>7, <2>2
  <2>. QED BY <1>4, <1>6, <1>8, <1>12, <2>1, <2>2, Zenon DEF VoteNext
<1>. QED BY <1>9, <1>10, <1>11, <1>13 DEF ArbitrationNext

LEMMA ArbInvariant == ArbitrationSpec => []ArbInv
  BY ArbInitially, ArbStep, PTL DEF ArbitrationSpec

(* PanelFair: the members of a drawn panel are different, eligible, chosen
   before those the supplier met recently, and as many as asked for unless the
   eligible are fewer. *)
THEOREM PanelsAlwaysFair == ArbitrationSpec => []PanelFair
<1>1. ArbInv => PanelFair
  BY DEF ArbInv
<1>. QED BY <1>1, ArbInvariant, PTL

(* SeatsDecide: a panel drawn for the dispute it closes closes it by the votes of
   more than half of its members, given in that dispute: votes of earlier
   disputes, earlier panels and former members do not count among them. *)
THEOREM SeatsAlwaysDecide == ArbitrationSpec => []SeatsDecide
<1>1. ArbInv => SeatsDecide
  BY DEF ArbInv
<1>. QED BY <1>1, ArbInvariant, PTL

-----------------------------------------------------------------------------
(* Milestones that move.  Sums of sequences are sums of functions. *)

LEMMA SumOfIsSum ==
    ASSUME NEW s \in Seq(Int)
    PROVE  SumOf(s) = SumFunctionOnSet(s, DOMAIN s) /\ SumOf(s) \in Int
<1>1. SumOf(s) = SumFunctionOnSet(s, DOMAIN s)
  BY DEF SumOf, FoldSeq, FoldFunction, FoldFunctionOnSet, SumFunctionOnSet
<1>. DEFINE D == DOMAIN s
<1>2. Len(s) \in Nat /\ D = 1 .. Len(s) /\ \A i \in D : s[i] \in Int
  BY LenProperties
<1>3. IsFiniteSet(D)
  <2>1. 1 \in Int /\ Len(s) \in Int
    BY <1>2
  <2>. HIDE DEF D
  <2>. QED BY <1>2, <2>1, FS_Interval
<1>4. SumFunctionOnSet(s, D) \in Int
  <2>1. \A i \in D : s[i] \in Int
    BY <1>2
  <2>. HIDE DEF D
  <2>. QED BY <1>3, <2>1, SumInt
<1>. QED BY <1>1, <1>4

LEMMA SumOfPositive ==
    ASSUME NEW s \in Seq(Int), Len(s) # 0, \A i \in 1 .. Len(s) : s[i] >= 1
    PROVE  SumOf(s) >= 1
<1>. DEFINE D == DOMAIN s
            rest == D \ {1}
<1>1. Len(s) \in Nat /\ D = 1 .. Len(s) /\ \A i \in D : s[i] \in Nat /\ s[i] >= 1
  BY LenProperties
<1>2. IsFiniteSet(D) /\ 1 \in D
  <2>1. 1 \in Int /\ Len(s) \in Int
    BY <1>1
  <2>2. 1 \in D
    BY <1>1
  <2>. HIDE DEF D
  <2>. QED BY <1>1, <2>1, <2>2, FS_Interval
<1>3. IsFiniteSet(rest) /\ \A i \in rest : s[i] \in Nat
  <2>1. \A i \in rest : s[i] \in Nat
    BY <1>1
  <2>. HIDE DEF D
  <2>. QED BY <1>2, <2>1, FS_RemoveElement
<1>4. SumFunctionOnSet(s, rest) \in Nat
  <2>. HIDE DEF rest
  <2>. QED BY <1>3, SumNat
<1>5. SumFunctionOnSet(s, D) = s[1] + SumFunctionOnSet(s, D \ {1})
  <2>. DEFINE one == 1
  <2>1. one \in D /\ \A i \in D : s[i] \in Int
    BY <1>1, <1>2
  <2>. HIDE DEF D, one
  <2>2. SumFunctionOnSet(s, D) = s[one] + SumFunctionOnSet(s, D \ {one})
    BY <1>2, <2>1, SumRemove
  <2>. QED BY <2>2 DEF one
<1>6. s[1] \in Nat /\ s[1] >= 1
  BY <1>1, <1>2
<1>7. SumOf(s) = SumFunctionOnSet(s, D)
  BY SumOfIsSum
<1>. HIDE DEF D
<1>. DEFINE x == s[1]
            y == SumFunctionOnSet(s, rest)
<1>8. x \in Nat /\ x >= 1 /\ y \in Nat /\ SumOf(s) = x + y
  BY <1>4, <1>5, <1>6, <1>7
<1>. HIDE DEF x, y
<1>. QED BY <1>8

(* The parts of a weight are numbers. *)
LEMMA ApportionedTyped ==
    ASSUME NEW w \in Int, NEW parts \in Seq(Int), Len(parts) # 0,
           \A i \in 1 .. Len(parts) : parts[i] >= 1
    PROVE  Apportioned(w, parts) \in Seq(Int) /\ Len(Apportioned(w, parts)) = Len(parts)
<1>. DEFINE n == Len(parts)
            whole == SumOf(parts)
            upto(i) == IF i = Len(parts) THEN w ELSE (w * SumOf(SubSeq(parts, 1, i))) \div whole
            a == Apportioned(w, parts)
<1>1. n \in Nat /\ DOMAIN parts = 1 .. n /\ \A i \in 1 .. n : parts[i] \in Int
  BY LenProperties
<1>2. whole \in Int /\ whole >= 1
  BY SumOfIsSum, SumOfPositive
<1>3. ASSUME NEW i \in 1 .. n PROVE upto(i) \in Int
  <2>. DEFINE s == SubSeq(parts, 1, i)
  <2>1. s \in Seq(Int)
    <3>1. 1 \in Int /\ i \in Int /\ \A j \in 1 .. i : parts[j] \in Int
      BY <1>1
    <3>. QED BY <3>1, SubSeqProperties
  <2>. DEFINE x == SumOf(s)
  <2>2. x \in Int
    <3>. HIDE DEF s
    <3>. QED BY <2>1, SumOfIsSum
  <2>3. upto(i) = w \/ upto(i) = (w * x) \div whole
    OBVIOUS
  <2>. HIDE DEF x, whole, upto
  <2>. DEFINE y == w * x
  <2>4. y \in Int
    BY <2>2
  <2>. HIDE DEF y
  <2>5. y \div whole \in Int
    BY <1>2, <2>4
  <2>. QED BY <2>3, <2>5 DEF y
<1>4. a = [i \in 1 .. n |-> upto(i) - (IF i = 1 THEN 0 ELSE upto(i - 1))]
  BY <1>1 DEF Apportioned
<1>. HIDE DEF upto, a
<1>5. ASSUME NEW i \in 1 .. n PROVE upto(i) - (IF i = 1 THEN 0 ELSE upto(i - 1)) \in Int
  <2>1. CASE i = 1
    BY <1>3, <2>1
  <2>2. CASE i # 1
    <3>1. i - 1 \in 1 .. n
      BY <1>1, <2>2
    <3>2. upto(i) \in Int /\ upto(i - 1) \in Int
      BY <1>3, <3>1
    <3>. QED BY <2>2, <3>2
  <2>. QED BY <2>1, <2>2
<1>. HIDE DEF n
<1>6. a \in Seq(Int) /\ Len(a) = n
  BY <1>1, <1>4, <1>5
<1>. QED BY <1>6 DEF a, n

(* A member replaced by a sequence: what comes before stays, what comes after
   moves up. *)
LEMMA ReplaceProperties ==
    ASSUME NEW A, NEW s \in Seq(A), NEW i \in 1 .. Len(s), NEW new \in Seq(A)
    PROVE  LET u == ReplaceBySeq(s, i, new)
               m == Len(new)
           IN  /\ u \in Seq(A) /\ Len(u) = Len(s) - 1 + m
               /\ \A j \in 1 .. Len(u) : u[j] = IF j < i THEN s[j]
                                                ELSE IF j < i + m THEN new[j - i + 1]
                                                ELSE s[j - m + 1]
<1>. DEFINE n == Len(s)
            m == Len(new)
            a == SubSeq(s, 1, i - 1)
            b == SubSeq(s, i + 1, n)
            c == a \o new
            u == c \o b
<1>1. n \in Nat /\ m \in Nat /\ i \in Int /\ 1 <= i /\ i <= n /\ \A j \in 1 .. n : s[j] \in A
  BY LenProperties
<1>. HIDE DEF n, m
<1>2. a \in Seq(A) /\ Len(a) = i - 1 /\ \A j \in 1 .. i - 1 : a[j] = s[j]
  <2>1. 1 \in Int /\ i - 1 \in Int /\ \A j \in 1 .. i - 1 : s[j] \in A
    BY <1>1
  <2>. DEFINE h == i - 1
  <2>2. h \in Int /\ h >= 0 /\ \A j \in 1 .. h : s[j] \in A
    BY <1>1, <2>1
  <2>. HIDE DEF h
  <2>. DEFINE v == SubSeq(s, 1, h)
  <2>3. /\ v \in Seq(A) /\ Len(v) = (IF 1 <= h THEN h - 1 + 1 ELSE 0)
        /\ \A j \in 1 .. h - 1 + 1 : v[j] = s[1 + j - 1]
    BY <2>1, <2>2, SubSeqProperties
  <2>. HIDE DEF v
  <2>4. Len(v) = h /\ \A j \in 1 .. h : j \in 1 .. h - 1 + 1 /\ 1 + j - 1 = j
    BY <2>2, <2>3
  <2>5. v \in Seq(A) /\ Len(v) = h /\ \A j \in 1 .. h : v[j] = s[j]
    BY <2>3, <2>4
  <2>. QED BY <2>5 DEF v, h
<1>3. b \in Seq(A) /\ Len(b) = n - i /\ \A j \in 1 .. n - i : b[j] = s[i + j]
  <2>. DEFINE h == i + 1
  <2>1. h \in Int /\ n \in Int /\ h = i + 1 /\ \A j \in h .. n : s[j] \in A
    BY <1>1
  <2>. HIDE DEF h
  <2>. DEFINE v == SubSeq(s, h, n)
  <2>2. /\ v \in Seq(A) /\ Len(v) = (IF h <= n THEN n - h + 1 ELSE 0)
        /\ \A j \in 1 .. n - h + 1 : v[j] = s[h + j - 1]
    BY <2>1, SubSeqProperties
  <2>. HIDE DEF v
  <2>3. Len(v) = n - i /\ \A j \in 1 .. n - i : j \in 1 .. n - h + 1 /\ h + j - 1 = i + j
    BY <1>1, <2>1, <2>2
  <2>4. v \in Seq(A) /\ Len(v) = n - i /\ \A j \in 1 .. n - i : v[j] = s[i + j]
    BY <2>2, <2>3
  <2>. QED BY <2>4 DEF v, h
<1>. HIDE DEF a, b
<1>4. /\ c \in Seq(A) /\ Len(c) = i - 1 + m
      /\ \A j \in 1 .. Len(c) : c[j] = IF j <= i - 1 THEN a[j] ELSE new[j - (i - 1)]
  <2>1. /\ c \in Seq(A) /\ Len(c) = Len(a) + Len(new)
        /\ \A j \in 1 .. Len(a) + Len(new) : c[j] = IF j <= Len(a) THEN a[j] ELSE new[j - Len(a)]
    BY <1>2, ConcatProperties
  <2>. QED BY <1>2, <2>1 DEF m
<1>. HIDE DEF c
<1>5. /\ u \in Seq(A) /\ Len(u) = Len(c) + (n - i)
      /\ \A j \in 1 .. Len(u) : u[j] = IF j <= Len(c) THEN c[j] ELSE b[j - Len(c)]
  <2>1. /\ u \in Seq(A) /\ Len(u) = Len(c) + Len(b)
        /\ \A j \in 1 .. Len(c) + Len(b) : u[j] = IF j <= Len(c) THEN c[j] ELSE b[j - Len(c)]
    BY <1>3, <1>4, ConcatProperties
  <2>. QED BY <1>3, <2>1
<1>6. ReplaceBySeq(s, i, new) = u
  BY DEF ReplaceBySeq, u, c, a, b, n
<1>. HIDE DEF u
<1>7. Len(u) = n - 1 + m /\ Len(c) = i - 1 + m
  BY <1>1, <1>4, <1>5
<1>8. ASSUME NEW j \in 1 .. Len(u)
      PROVE  u[j] = IF j < i THEN s[j] ELSE IF j < i + m THEN new[j - i + 1] ELSE s[j - m + 1]
  <2>1. CASE j < i
    <3>1. j \in 1 .. Len(c) /\ j \in 1 .. i - 1 /\ j <= i - 1 /\ j <= Len(c)
      BY <1>1, <1>7, <2>1
    <3>. QED BY <1>2, <1>4, <1>5, <2>1, <3>1
  <2>2. CASE i <= j /\ j < i + m
    <3>1. j \in 1 .. Len(c) /\ ~ (j <= i - 1) /\ j <= Len(c) /\ j - (i - 1) = j - i + 1 /\ ~ (j < i)
      BY <1>1, <1>7, <2>2
    <3>2. u[j] = c[j] /\ c[j] = new[j - (i - 1)]
      BY <1>4, <1>5, <3>1
    <3>. QED BY <2>2, <3>1, <3>2
  <2>3. CASE i + m <= j
    <3>1. /\ ~ (j <= Len(c)) /\ j - Len(c) \in 1 .. n - i /\ i + (j - Len(c)) = j - m + 1
          /\ ~ (j < i) /\ ~ (j < i + m)
      BY <1>1, <1>7, <2>3
    <3>2. u[j] = b[j - Len(c)] /\ b[j - Len(c)] = s[i + (j - Len(c))]
      BY <1>3, <1>5, <3>1
    <3>. QED BY <3>1, <3>2
  <2>. QED BY <1>1, <2>1, <2>2, <2>3
<1>. QED BY <1>5, <1>6, <1>7, <1>8 DEF n, m

(* The invariant of the milestones: their identities are different, and what is
   stored under an index was stored for the milestone now at it.  Beyond
   RecordsFollow it says that nothing is left behind past the last milestone,
   and that the last milestone confirmed still is, so it is never merged. *)

Statuses == {"Pending", "ProofSubmitted", "Confirmed", "Disputed", "Resolved"}
MilestoneRecords == [id : MilestoneIds, percent : Int, status : Statuses]
IndexRecords == [index : Nat, id : MilestoneIds]

ListOK ==
    /\ list \in Seq(MilestoneRecords) /\ Len(list) <= MaxCount
    /\ \A i, j \in 1 .. Len(list) : list[i].id = list[j].id => i = j
KeyedOK ==
    /\ keyed \in [Keys -> [Slots -> MilestoneIds \cup {Nobody}]]
    /\ \A k \in Moved, i \in Slots :
          keyed[k][i] # Nobody => i <= Len(list) /\ keyed[k][i] = list[i].id
DisputesOK ==
    /\ disputes \subseteq IndexRecords
    /\ \A d \in disputes : /\ d.index \in 1 .. Len(list) /\ d.id = list[d.index].id
                           /\ list[d.index].status = "Disputed"
    /\ \A i \in 1 .. Len(list) : list[i].status = "Disputed" => \E d \in disputes : d.index = i
ConfirmedOK ==
    lastConfirmed # Nobody =>
        /\ lastConfirmed \in IndexRecords /\ lastConfirmed.index \in 1 .. Len(list)
        /\ lastConfirmed.id = list[lastConfirmed.index].id
        /\ list[lastConfirmed.index].status = "Confirmed"
PlacesOK == ListOK /\ KeyedOK /\ DisputesOK /\ ConfirmedOK
OffersOK ==
    /\ merge # Nobody => merge.first \in Nat \ {0}
    /\ split # Nobody => split.index \in Nat \ {0} /\ split.parts \in Seq(Int)
MoneyOK ==
    /\ total \in Nat \ {0} /\ deposited \in Int /\ deposited >= total /\ weights \in Seq(Int)
    /\ append # Nobody =>
          append.amount \in Nat \ {0} /\ (append.by = "buyer" => deposited >= total + append.amount)

LEMMA MovedAreKeys == Moved \subseteq Keys
  BY DEF Keys

LEMMA PlacesFollow == PlacesOK => RecordsFollow
<1>. SUFFICES ASSUME PlacesOK PROVE RecordsFollow
  OBVIOUS
<1>1. Len(list) \in Nat /\ DOMAIN list = 1 .. Len(list)
  BY LenProperties DEF PlacesOK, ListOK
<1>2. \A k \in Moved, i \in Slots : keyed[k][i] # Nobody => keyed[k][i] = Owner(i)
  BY DEF PlacesOK, KeyedOK, Owner
<1>3. \A d \in disputes : d.id = Owner(d.index) /\ list[d.index].status = "Disputed"
  BY <1>1 DEF PlacesOK, DisputesOK, Owner
<1>4. \A i \in DOMAIN list : list[i].status = "Disputed" => \E d \in disputes : d.index = i
  BY <1>1 DEF PlacesOK, DisputesOK
<1>5. lastConfirmed # Nobody => lastConfirmed.id = Owner(lastConfirmed.index)
  BY <1>1 DEF PlacesOK, ConfirmedOK, Owner
<1>. QED BY <1>2, <1>3, <1>4, <1>5 DEF RecordsFollow

(* What ListOK says, milestone by milestone. *)
LEMMA ListFacts ==
    ASSUME ListOK
    PROVE  /\ Len(list) \in Nat /\ DOMAIN list = 1 .. Len(list) /\ Len(list) <= MaxCount
           /\ MaxCount \in Nat
           /\ \A i \in 1 .. Len(list) : /\ i \in Slots /\ list[i] \in MilestoneRecords
                                        /\ list[i].id \in MilestoneIds /\ list[i].percent \in Int
                                        /\ list[i].status \in Statuses
<1>1. Len(list) \in Nat /\ DOMAIN list = 1 .. Len(list)
      /\ \A i \in 1 .. Len(list) : list[i] \in MilestoneRecords
  <2>. DEFINE R == MilestoneRecords
  <2>1. list \in Seq(R)
    BY DEF ListOK
  <2>. HIDE DEF R
  <2>2. Len(list) \in Nat /\ DOMAIN list = 1 .. Len(list) /\ \A i \in 1 .. Len(list) : list[i] \in R
    BY <2>1, LenProperties
  <2>. QED BY <2>2 DEF R
<1>2. Len(list) <= MaxCount /\ MaxCount \in Nat
  BY TermsAssumption DEF ListOK
<1>3. \A i \in 1 .. Len(list) : i \in Slots
  BY <1>1, <1>2 DEF Slots
<1>4. \A r \in MilestoneRecords : r.id \in MilestoneIds /\ r.percent \in Int /\ r.status \in Statuses
  BY DEF MilestoneRecords
<1>. QED BY <1>1, <1>2, <1>3, <1>4

(* A function has no more values than arguments. *)
LEMMA FewValues ==
    ASSUME NEW n \in Nat, NEW f
    PROVE  LET V == {f[i] : i \in 1 .. n}
           IN  IsFiniteSet(V) /\ Cardinality(V) \in Nat /\ Cardinality(V) <= n
<1>. DEFINE L == 1 .. n
            V == {f[i] : i \in L}
            g == [i \in L |-> f[i]]
<1>1. g \in Surjection(L, V)
  BY DEF Surjection
<1>2. IsFiniteSet(L) /\ Cardinality(L) = n
  <2>1. 1 \in Int /\ n \in Int
    OBVIOUS
  <2>. QED BY <2>1, FS_Interval
<1>. HIDE DEF g, V, L
<1>3. IsFiniteSet(V) /\ Cardinality(V) <= Cardinality(L)
  BY <1>1, <1>2, FS_Surjection
<1>4. Cardinality(V) \in Nat
  BY <1>3, FS_CardinalityType
<1>. QED BY <1>2, <1>3, <1>4 DEF V, L

(* There are identities enough for new milestones. *)
LEMMA FreshIdsExist ==
    ASSUME PlacesOK, NEW n \in Nat, Len(list) + n <= MaxCount
    PROVE  /\ FreshIds(n) \in [1 .. n -> MilestoneIds]
           /\ \A i, j \in 1 .. n : FreshIds(n)[i] = FreshIds(n)[j] => i = j
           /\ \A i \in 1 .. n, j \in 1 .. Len(list) : FreshIds(n)[i] # list[j].id
<1>. DEFINE len == Len(list)
            M == MilestoneIds
            L == 1 .. len
            whose == [i \in L |-> list[i].id]
            bol == keyed["bol"]
            ids == {whose[i] : i \in L}
            bols == {bol[i] : i \in Slots}
            both == ids \cup bols
            used == both \cup {Nobody}
            Free == M \ InUse
            size == Cardinality(Free)
<1>1. ListOK /\ KeyedOK /\ DisputesOK
  BY DEF PlacesOK
<1>2. /\ len \in Nat /\ DOMAIN list = L /\ len <= MaxCount /\ MaxCount \in Nat
      /\ \A i \in L : list[i].id \in M
  BY <1>1, ListFacts, TermsAssumption
<1>3. IsFiniteSet(M) /\ Cardinality(M) = 2 * MaxCount + 1
  <2>. DEFINE top == 2 * MaxCount + 1
  <2>1. 1 \in Int /\ top \in Int /\ top >= 1
    BY <1>2
  <2>. HIDE DEF top
  <2>2. IsFiniteSet(1 .. top) /\ Cardinality(1 .. top) = top
    BY <2>1, FS_Interval
  <2>. QED BY <2>2 DEF top, MilestoneIds
<1>4. /\ IsFiniteSet(ids) /\ Cardinality(ids) <= len /\ Cardinality(ids) \in Nat
      /\ IsFiniteSet(bols) /\ Cardinality(bols) <= MaxCount /\ Cardinality(bols) \in Nat
  <2>. HIDE DEF whose, bol
  <2>1. IsFiniteSet(ids) /\ Cardinality(ids) <= len /\ Cardinality(ids) \in Nat
    BY <1>2, FewValues
  <2>2. IsFiniteSet(bols) /\ Cardinality(bols) <= MaxCount /\ Cardinality(bols) \in Nat
    BY <1>2, FewValues DEF Slots
  <2>. QED BY <2>1, <2>2
<1>5. ids \subseteq InUse /\ InUse \subseteq used
  <2>1. {m.id : m \in Range(list)} = ids
    BY <1>2 DEF Range
  <2>2. {keyed[k][i] : k \in Keys, i \in Slots} \subseteq used
    <3>1. ASSUME NEW k \in Keys, NEW i \in Slots PROVE keyed[k][i] \in used
      <4>1. CASE k = "bol"
        BY <4>1
      <4>2. CASE keyed[k][i] = Nobody
        BY <4>2
      <4>3. CASE k \in Moved /\ keyed[k][i] # Nobody
        <5>1. i <= len /\ keyed[k][i] = list[i].id
          BY <1>1, <4>3 DEF KeyedOK
        <5>2. i \in L
          BY <1>2, <5>1 DEF Slots
        <5>3. keyed[k][i] = whose[i]
          BY <5>1, <5>2
        <5>. HIDE DEF whose, bol
        <5>. QED BY <5>2, <5>3
      <4>. QED BY <4>1, <4>2, <4>3 DEF Keys
    <3>. HIDE DEF used
    <3>. QED BY <3>1
  <2>3. {d.id : d \in disputes} \subseteq used
    <3>1. ASSUME NEW d \in disputes PROVE d.id \in ids
      <4>1. d.index \in L /\ d.id = list[d.index].id
        BY <1>1 DEF DisputesOK
      <4>2. d.id = whose[d.index]
        BY <4>1
      <4>. HIDE DEF whose
      <4>. QED BY <4>1, <4>2
    <3>. HIDE DEF ids
    <3>. QED BY <3>1
  <2>. HIDE DEF ids, bols
  <2>. QED BY <2>1, <2>2, <2>3 DEF InUse
<1>6. \A j \in L : list[j].id \in ids
  <2>1. \A j \in L : list[j].id = whose[j]
    OBVIOUS
  <2>. HIDE DEF whose
  <2>. QED BY <2>1
<1>. HIDE DEF ids, bols, M
<1>7. IsFiniteSet(used) /\ Cardinality(used) <= len + MaxCount + 1 /\ Cardinality(used) \in Nat
  <2>1. /\ IsFiniteSet(both)
        /\ Cardinality(both) = Cardinality(ids) + Cardinality(bols) - Cardinality(ids \cap bols)
    BY <1>4, FS_Union
  <2>2. Cardinality(ids \cap bols) \in Nat
    <3>1. IsFiniteSet(ids \cap bols)
      BY <1>4, FS_Intersection
    <3>. QED BY <3>1, FS_CardinalityType
  <2>. HIDE DEF both
  <2>3. /\ IsFiniteSet(used)
        /\ Cardinality(used) = IF Nobody \in both THEN Cardinality(both) ELSE Cardinality(both) + 1
    BY <2>1, FS_AddElement
  <2>. DEFINE x == Cardinality(ids \cap bols)
              y == Cardinality(both)
              z == Cardinality(used)
  <2>4. x \in Nat /\ y = Cardinality(ids) + Cardinality(bols) - x /\ (z = y \/ z = y + 1)
    BY <2>1, <2>2, <2>3
  <2>5. y \in Nat
    BY <2>1, FS_CardinalityType
  <2>. HIDE DEF used, x, y, z
  <2>6. z <= len + MaxCount + 1 /\ z \in Nat
    BY <1>2, <1>4, <2>4, <2>5
  <2>. QED BY <2>3, <2>6 DEF z
<1>. HIDE DEF used
<1>8. /\ IsFiniteSet(M \cap InUse) /\ Cardinality(M \cap InUse) <= len + MaxCount + 1
      /\ Cardinality(M \cap InUse) \in Nat
  <2>1. M \cap InUse \in SUBSET used
    BY <1>5
  <2>. DEFINE part == M \cap InUse
  <2>. HIDE DEF part
  <2>2. IsFiniteSet(part) /\ Cardinality(part) <= Cardinality(used)
    BY <1>7, <2>1, FS_Subset DEF part
  <2>3. Cardinality(part) \in Nat
    BY <2>2, FS_CardinalityType
  <2>. QED BY <1>2, <1>7, <2>2, <2>3 DEF part
<1>9. IsFiniteSet(Free) /\ size \in Nat /\ n <= size
  <2>1. IsFiniteSet(Free) /\ Cardinality(Free) = Cardinality(M) - Cardinality(M \cap InUse)
    BY <1>3, FS_Difference
  <2>2. Cardinality(Free) \in Nat
    BY <2>1, FS_CardinalityType
  <2>. HIDE DEF Free
  <2>. QED BY <1>2, <1>3, <1>8, <2>1, <2>2
<1>. HIDE DEF Free
<1>10. ExistsBijection(1 .. size, Free)
  BY <1>9, FS_CardinalityType
<1>. HIDE DEF size
<1>11. PICK b : b \in Bijection(1 .. size, Free)
  BY <1>10 DEF ExistsBijection
<1>12. b \in [1 .. size -> Free] /\ \A i, j \in 1 .. size : b[i] = b[j] => i = j
  BY <1>11 DEF Bijection, Injection, IsInjective
<1>. DEFINE s == [i \in 1 .. n |-> b[i]]
            fresh == FreshIds(n)
<1>13. s \in [1 .. n -> Free] /\ IsInjective(s)
  <2>1. \A i \in 1 .. n : i \in 1 .. size
    BY <1>9
  <2>. QED BY <1>12, <2>1 DEF IsInjective
<1>. HIDE DEF s
<1>14. fresh \in [1 .. n -> Free] /\ IsInjective(fresh)
  <2>1. fresh = CHOOSE x \in [1 .. n -> Free] : IsInjective(x)
    BY DEF FreshIds, Free, M
  <2>2. \E x \in [1 .. n -> Free] : IsInjective(x)
    BY <1>13
  <2>. HIDE DEF fresh
  <2>. QED BY <2>1, <2>2
<1>. HIDE DEF fresh
<1>15. \A i \in 1 .. n : fresh[i] \in M /\ fresh[i] \notin ids
  BY <1>5, <1>14 DEF Free
<1>16. \A i, j \in 1 .. n : fresh[i] = fresh[j] => i = j
  BY <1>14 DEF IsInjective
<1>17. fresh \in [1 .. n -> M]
  BY <1>14 DEF Free
<1>18. \A i \in 1 .. n, j \in L : fresh[i] # list[j].id
  BY <1>6, <1>15
<1>. QED BY <1>16, <1>17, <1>18 DEF fresh, M

TermsInv == PlacesOK /\ OffersOK /\ MoneyOK

LEMMA TermsInitially == TermsInit => TermsInv
<1>. SUFFICES ASSUME TermsInit PROVE TermsInv
  OBVIOUS
<1>. DEFINE n == Len(FirstPercents)
            first == [i \in 1 .. n |-> [id |-> i, percent |-> FirstPercents[i], status |-> "Pending"]]
            R == MilestoneRecords
<1>1. /\ n \in Nat /\ DOMAIN FirstPercents = 1 .. n /\ n <= MaxCount /\ MaxCount \in Nat
      /\ MaxRecords \in Nat /\ \A i \in 1 .. n : FirstPercents[i] \in Nat
  BY TermsAssumption, LenProperties
<1>2. /\ list = first /\ total = FirstTotal /\ deposited = FirstTotal /\ weights \in FirstWeights
      /\ keyed = [k \in Keys |-> [i \in Slots |-> Nobody]]
      /\ disputes = {} /\ lastConfirmed = Nobody /\ merge = Nobody /\ split = Nobody /\ append = Nobody
  BY <1>1 DEF TermsInit
<1>3. \A i \in 1 .. n : /\ first[i] \in R /\ first[i].id = i /\ first[i].status = "Pending"
  <2>1. \A i \in 1 .. n : i \in MilestoneIds
    BY <1>1 DEF MilestoneIds
  <2>2. \A i \in 1 .. n : FirstPercents[i] \in Int
    BY <1>1
  <2>. QED BY <2>1, <2>2 DEF MilestoneRecords, Statuses
<1>4. list \in Seq(R) /\ Len(list) = n
  <2>1. \A i \in 1 .. n : first[i] \in R
    BY <1>3
  <2>. HIDE DEF R, n
  <2>. QED BY <1>1, <1>2, <2>1
<1>5. ListOK
  <2>. HIDE DEF n, first
  <2>1. \A i, j \in 1 .. n : list[i].id = list[j].id => i = j
    BY <1>2, <1>3
  <2>. QED BY <1>1, <1>4, <2>1 DEF ListOK
<1>6. KeyedOK
  <2>1. \A k \in Keys, i \in Slots : keyed[k][i] = Nobody
    BY <1>2
  <2>. QED BY <1>2, <2>1, MovedAreKeys DEF KeyedOK
<1>7. DisputesOK
  <2>1. \A i \in 1 .. Len(list) : list[i].status # "Disputed"
    BY <1>2, <1>3, <1>4
  <2>. QED BY <1>2, <2>1 DEF DisputesOK
<1>8. ConfirmedOK /\ OffersOK
  BY <1>2 DEF ConfirmedOK, OffersOK
<1>9. MoneyOK
  <2>1. FirstTotal \in Nat \ {0}
    BY TermsAssumption
  <2>2. weights \in Seq(Nat)
    BY <1>2, TermsAssumption
  <2>3. weights \in Seq(Int)
    BY <2>2, SeqMonotonic
  <2>. QED BY <1>2, <2>1, <2>3 DEF MoneyOK
<1>. QED BY <1>5, <1>6, <1>7, <1>8, <1>9 DEF TermsInv, PlacesOK

LEMMA PlacesUntouched ==
    ASSUME PlacesOK, list' = list, UNCHANGED indexVars
    PROVE  PlacesOK'
<1>1. keyed' = keyed /\ disputes' = disputes /\ lastConfirmed' = lastConfirmed
  BY DEF indexVars
<1>2. ListOK' /\ KeyedOK'
  BY <1>1 DEF PlacesOK, ListOK, KeyedOK
<1>3. DisputesOK' /\ ConfirmedOK'
  BY <1>1 DEF PlacesOK, DisputesOK, ConfirmedOK
<1>. QED BY <1>2, <1>3 DEF PlacesOK

(* However the milestones move, everything stays where it belongs if the entry
   of every index comes from the index its milestone comes from (0 for a new
   one), and only milestones still pending disappear. *)
Rearranged(src, n) ==
    /\ n = Len(list') /\ n <= MaxCount /\ list' \in Seq(MilestoneRecords)
    /\ \A j \in 1 .. n : src[j] # 0 =>
          /\ src[j] \in 1 .. Len(list)
          /\ list'[j].id = list[src[j]].id /\ list'[j].status = list[src[j]].status
    /\ \A j \in 1 .. n : src[j] = 0 =>
          /\ list'[j].status = "Pending" /\ \A i \in 1 .. Len(list) : list'[j].id # list[i].id
    /\ \A i, j \in 1 .. n : src[i] = 0 /\ src[j] = 0 /\ list'[i].id = list'[j].id => i = j
    /\ \A i, j \in 1 .. n : src[i] = src[j] /\ src[i] # 0 => i = j
    /\ keyed' \in [Keys -> [Slots -> MilestoneIds \cup {Nobody}]]
    /\ \A k \in Moved, j \in Slots : keyed'[k][j] # Nobody =>
          j <= n /\ src[j] # 0 /\ keyed'[k][j] = keyed[k][src[j]]
    /\ disputes' \subseteq IndexRecords
    /\ \A e \in disputes' : /\ e.index \in 1 .. n
                            /\ \E d \in disputes : src[e.index] = d.index /\ e.id = d.id
    /\ \A d \in disputes : \E e \in disputes' : src[e.index] = d.index
    /\ lastConfirmed' # Nobody =>
          /\ lastConfirmed # Nobody /\ lastConfirmed' \in IndexRecords /\ lastConfirmed'.index \in 1 .. n
          /\ src[lastConfirmed'.index] = lastConfirmed.index /\ lastConfirmed'.id = lastConfirmed.id

LEMMA RearrangedKeeps ==
    ASSUME PlacesOK, NEW n \in Nat, NEW src, Rearranged(src, n)
    PROVE  PlacesOK'
<1>0. ListOK /\ KeyedOK /\ DisputesOK /\ ConfirmedOK
  BY DEF PlacesOK
<1>1. Len(list) \in Nat /\ Len(list) <= MaxCount /\ MaxCount \in Nat
  BY <1>0, ListFacts
<1>2. ListOK'
  <2>1. ASSUME NEW i \in 1 .. n, NEW j \in 1 .. n, list'[i].id = list'[j].id PROVE i = j
    <3>1. CASE src[i] = 0 /\ src[j] = 0
      BY <2>1, <3>1 DEF Rearranged
    <3>2. CASE src[i] = 0 /\ src[j] # 0
      BY <2>1, <3>2 DEF Rearranged
    <3>3. CASE src[i] # 0 /\ src[j] = 0
      BY <2>1, <3>3 DEF Rearranged
    <3>4. CASE src[i] # 0 /\ src[j] # 0
      <4>1. src[i] = src[j]
        BY <1>0, <2>1, <3>4 DEF ListOK, Rearranged
      <4>. QED BY <3>4, <4>1 DEF Rearranged
    <3>. QED BY <3>1, <3>2, <3>3, <3>4
  <2>. QED BY <2>1 DEF ListOK, Rearranged
<1>3. KeyedOK'
  <2>1. ASSUME NEW k \in Moved, NEW j \in Slots, keyed'[k][j] # Nobody
        PROVE  j <= Len(list') /\ keyed'[k][j] = list'[j].id
    <3>1. j <= n /\ src[j] # 0 /\ keyed'[k][j] = keyed[k][src[j]] /\ j \in 1 .. n
      BY <2>1 DEF Slots, Rearranged
    <3>2. src[j] \in 1 .. Len(list) /\ list'[j].id = list[src[j]].id /\ src[j] \in Slots
      BY <1>1, <3>1 DEF Slots, Rearranged
    <3>3. keyed[k][src[j]] = list[src[j]].id
      BY <1>0, <2>1, <3>1, <3>2 DEF KeyedOK
    <3>. QED BY <3>1, <3>2, <3>3 DEF Rearranged
  <2>. QED BY <2>1 DEF KeyedOK, Rearranged
<1>4. DisputesOK'
  <2>1. ASSUME NEW e \in disputes'
        PROVE  /\ e.index \in 1 .. n /\ e.id = list'[e.index].id /\ list'[e.index].status = "Disputed"
    <3>1. PICK d \in disputes : src[e.index] = d.index /\ e.id = d.id
      BY DEF Rearranged
    <3>2. d.index \in 1 .. Len(list) /\ d.id = list[d.index].id /\ list[d.index].status = "Disputed"
      BY <1>0 DEF DisputesOK
    <3>3. e.index \in 1 .. n /\ src[e.index] # 0
      BY <3>1, <3>2 DEF Rearranged
    <3>. QED BY <3>1, <3>2, <3>3 DEF Rearranged
  <2>2. ASSUME NEW i \in 1 .. n, list'[i].status = "Disputed" PROVE \E e \in disputes' : e.index = i
    <3>1. src[i] # 0 /\ list[src[i]].status = "Disputed" /\ src[i] \in 1 .. Len(list)
      BY <2>2 DEF Rearranged
    <3>2. PICK d \in disputes : d.index = src[i]
      BY <1>0, <3>1 DEF DisputesOK
    <3>3. PICK e \in disputes' : src[e.index] = d.index
      BY DEF Rearranged
    <3>4. e.index = i
      BY <3>1, <3>2, <3>3 DEF Rearranged
    <3>. QED BY <3>4
  <2>. QED BY <2>1, <2>2 DEF DisputesOK, Rearranged
<1>5. ConfirmedOK'
  <2>1. ASSUME lastConfirmed' # Nobody
        PROVE  /\ lastConfirmed'.id = list'[lastConfirmed'.index].id
               /\ list'[lastConfirmed'.index].status = "Confirmed"
    <3>1. /\ lastConfirmed.index \in 1 .. Len(list) /\ lastConfirmed.id = list[lastConfirmed.index].id
          /\ list[lastConfirmed.index].status = "Confirmed"
      BY <1>0, <2>1 DEF ConfirmedOK, Rearranged
    <3>. DEFINE j == lastConfirmed'.index
    <3>2. j \in 1 .. n /\ src[j] # 0 /\ src[j] = lastConfirmed.index /\ lastConfirmed'.id = lastConfirmed.id
      BY <2>1, <3>1 DEF Rearranged
    <3>. HIDE DEF j
    <3>3. list'[j].id = list[src[j]].id /\ list'[j].status = list[src[j]].status
      BY <3>2 DEF Rearranged
    <3>4. lastConfirmed'.id = list'[j].id /\ list'[j].status = "Confirmed"
      BY <3>1, <3>2, <3>3
    <3>. QED BY <3>4 DEF j
  <2>. QED BY <2>1 DEF ConfirmedOK, Rearranged
<1>. QED BY <1>2, <1>3, <1>4, <1>5 DEF PlacesOK

LEMMA RemoveAtProperties ==
    ASSUME NEW A, NEW s \in Seq(A), NEW i \in 1 .. Len(s)
    PROVE  LET u == RemoveAt(s, i)
           IN  /\ u \in Seq(A) /\ Len(u) = Len(s) - 1
               /\ \A j \in 1 .. Len(s) - 1 : u[j] = IF j < i THEN s[j] ELSE s[j + 1]
<1>. DEFINE none == <<>>
            a == SubSeq(s, 1, i - 1)
            b == SubSeq(s, i + 1, Len(s))
            v == ReplaceBySeq(s, i, none)
            n == Len(s)
<1>1. none \in Seq(A) /\ Len(none) = 0
  BY EmptySeq
<1>2. n \in Nat /\ i \in Int /\ \A j \in 1 .. n : s[j] \in A
  BY LenProperties
<1>3. a \in Seq(A)
  <2>1. 1 \in Int /\ i - 1 \in Int /\ \A j \in 1 .. i - 1 : s[j] \in A
    BY <1>2
  <2>. QED BY <2>1, SubSeqProperties
<1>4. RemoveAt(s, i) = a \o b
  BY DEF RemoveAt
<1>5. v = (a \o none) \o b
  BY DEF ReplaceBySeq
<1>6. a \o none = a
  <2>. HIDE DEF a
  <2>. QED BY <1>3, ConcatEmptySeq
<1>. HIDE DEF a, b, v, none
<1>7. RemoveAt(s, i) = v
  BY <1>4, <1>5, <1>6
<1>8. /\ v \in Seq(A) /\ Len(v) = Len(s) - 1 + Len(none)
      /\ \A j \in 1 .. Len(v) : v[j] = IF j < i THEN s[j]
                                       ELSE IF j < i + Len(none) THEN none[j - i + 1]
                                       ELSE s[j - Len(none) + 1]
  <2>1. /\ ReplaceBySeq(s, i, none) \in Seq(A)
        /\ Len(ReplaceBySeq(s, i, none)) = Len(s) - 1 + Len(none)
        /\ \A j \in 1 .. Len(ReplaceBySeq(s, i, none)) :
              ReplaceBySeq(s, i, none)[j] = IF j < i THEN s[j]
                                            ELSE IF j < i + Len(none) THEN none[j - i + 1]
                                            ELSE s[j - Len(none) + 1]
    <3>. HIDE DEF n
    <3>1. none \in Seq(A)
      BY <1>1
    <3>. QED BY ONLY s \in Seq(A), i \in 1 .. Len(s), <3>1, ReplaceProperties
  <2>. QED BY <2>1 DEF v
<1>9. Len(v) = n - 1
  BY <1>1, <1>2, <1>8
<1>10. ASSUME NEW j \in 1 .. n - 1 PROVE v[j] = IF j < i THEN s[j] ELSE s[j + 1]
  <2>1. /\ j \in Int /\ i + Len(none) = i /\ j - Len(none) + 1 = j + 1 /\ j \in 1 .. Len(v)
    BY <1>1, <1>2, <1>9
  <2>2. v[j] = IF j < i THEN s[j] ELSE IF j < i + Len(none) THEN none[j - i + 1] ELSE s[j - Len(none) + 1]
    BY <1>8, <2>1
  <2>. QED BY <2>1, <2>2
<1>. QED BY <1>7, <1>8, <1>9, <1>10 DEF n

LEMMA MergeKeeps ==
    ASSUME TermsInv, NEW side, ApproveMerge(side)
    PROVE  PlacesOK'
<1>. DEFINE first == merge.first
            second == first + 1
            R == MilestoneRecords
            n == Len(list)
            u == RemoveAt(list, second)
            merged == [list[first] EXCEPT !.percent = @ + list[second].percent]
            src == [j \in 1 .. n - 1 |-> IF j <= first THEN j ELSE j + 1]
<1>1. PlacesOK /\ OffersOK /\ ListOK /\ KeyedOK /\ DisputesOK /\ ConfirmedOK
  BY DEF TermsInv, PlacesOK
<1>2. /\ merge # Nobody /\ Mergeable(first)
      /\ list' = [u EXCEPT ![first] = merged]
      /\ keyed' = [k \in Keys |-> IF k \in Moved THEN ShiftDown(keyed[k], second, n) ELSE keyed[k]]
      /\ disputes' = {IF d.index > second THEN [d EXCEPT !.index = @ - 1] ELSE d : d \in disputes}
      /\ lastConfirmed' = IF lastConfirmed # Nobody /\ lastConfirmed.index > second
                          THEN [lastConfirmed EXCEPT !.index = @ - 1] ELSE lastConfirmed
  BY DEF ApproveMerge
<1>3. first \in Nat \ {0}
  BY <1>1, <1>2 DEF OffersOK
<1>4. second <= n /\ list[second].status = "Pending" /\ list[first].status = "Pending"
  BY <1>2 DEF Mergeable, Unencumbered
<1>5. /\ n \in Nat /\ n <= MaxCount /\ MaxCount \in Nat /\ list \in Seq(R)
      /\ \A i \in 1 .. n : i \in Slots /\ list[i] \in R
  BY <1>1, ListFacts DEF ListOK
<1>. HIDE DEF first
<1>6. second \in 1 .. n /\ first \in 1 .. n - 1 /\ first \in 1 .. n /\ n - 1 \in Nat
  BY <1>3, <1>4, <1>5
<1>7. merged \in R /\ merged.id = list[first].id /\ merged.status = list[first].status
  <2>. DEFINE a == list[first]
              b == list[second]
  <2>1. a \in R /\ b \in R
    BY <1>5, <1>6
  <2>2. b.percent \in Int
    BY <2>1 DEF MilestoneRecords
  <2>. HIDE DEF b
  <2>. DEFINE p == b.percent
  <2>. HIDE DEF p
  <2>3. /\ [a EXCEPT !.percent = @ + p] \in R
        /\ [a EXCEPT !.percent = @ + p].id = a.id /\ [a EXCEPT !.percent = @ + p].status = a.status
    BY <2>1, <2>2 DEF MilestoneRecords, p
  <2>. QED BY <2>3 DEF p, b
<1>8. /\ u \in Seq(R) /\ Len(u) = n - 1
      /\ \A j \in 1 .. n - 1 : u[j] = IF j < second THEN list[j] ELSE list[j + 1]
  <2>. HIDE DEF R, second
  <2>. QED BY <1>5, <1>6, RemoveAtProperties
<1>. HIDE DEF u, merged, second
<1>9. /\ list' \in Seq(R) /\ Len(list') = n - 1
      /\ \A j \in 1 .. n - 1 : list'[j] = IF j = first THEN merged ELSE u[j]
  <2>. HIDE DEF R, n
  <2>1. first \in 1 .. Len(u)
    BY <1>6, <1>8
  <2>2. /\ [u EXCEPT ![first] = merged] \in Seq(R) /\ Len([u EXCEPT ![first] = merged]) = Len(u)
        /\ \A j \in 1 .. Len(u) : [u EXCEPT ![first] = merged][j] = IF j = first THEN merged ELSE u[j]
    BY <1>7, <1>8, <2>1, ExceptSeq
  <2>. QED BY <1>2, <1>8, <2>2
<1>10. second = first + 1 /\ first \in Int
  BY <1>3 DEF second
<1>11. ASSUME NEW j \in 1 .. n - 1
       PROVE  /\ src[j] \in 1 .. n /\ src[j] # 0 /\ src[j] # second
              /\ list'[j].id = list[src[j]].id /\ list'[j].status = list[src[j]].status
  <2>1. src[j] = IF j <= first THEN j ELSE j + 1
    OBVIOUS
  <2>2. src[j] \in 1 .. n /\ src[j] # 0 /\ src[j] # second
    BY <1>5, <1>6, <1>10, <2>1
  <2>3. CASE j = first
    <3>1. src[j] = first /\ list'[j] = merged
      BY <1>9, <1>10, <2>1, <2>3
    <3>. QED BY <1>7, <2>2, <3>1
  <2>4. CASE j # first
    <3>1. list'[j] = list[src[j]]
      BY <1>8, <1>9, <1>10, <2>1, <2>4
    <3>. QED BY <2>2, <3>1
  <2>. QED BY <2>3, <2>4
<1>12. \A i, j \in 1 .. n - 1 : src[i] = src[j] => i = j
  BY <1>5, <1>6
<1>13. ASSUME NEW i \in 1 .. n, i # second
       PROVE  \E j \in 1 .. n - 1 : j = (IF i > second THEN i - 1 ELSE i) /\ src[j] = i
  <2>. DEFINE j == IF i > second THEN i - 1 ELSE i
  <2>1. j \in 1 .. n - 1 /\ j \in Int /\ (j <= first => j = i) /\ (~ (j <= first) => j + 1 = i)
    BY <1>5, <1>6, <1>10, <1>13
  <2>2. src[j] = i
    BY <2>1
  <2>. QED BY <2>1, <2>2
<1>14. /\ keyed' \in [Keys -> [Slots -> MilestoneIds \cup {Nobody}]]
       /\ \A k \in Moved, j \in Slots : keyed'[k][j] # Nobody =>
              j <= n - 1 /\ src[j] # 0 /\ keyed'[k][j] = keyed[k][src[j]]
  <2>1. ASSUME NEW k \in Moved, NEW j \in Slots
        PROVE  /\ keyed'[k][j] = IF j < second \/ j > n THEN keyed[k][j]
                                 ELSE IF j < n THEN keyed[k][j + 1] ELSE Nobody
               /\ keyed'[k][j] \in MilestoneIds \cup {Nobody}
    <3>1. keyed'[k][j] = IF j < second \/ j > n THEN keyed[k][j]
                         ELSE IF j < n THEN keyed[k][j + 1] ELSE Nobody
      BY <1>2, MovedAreKeys DEF ShiftDown
    <3>2. keyed[k] \in [Slots -> MilestoneIds \cup {Nobody}]
      BY <1>1, MovedAreKeys DEF KeyedOK
    <3>3. j < n => j + 1 \in Slots
      BY <1>5 DEF Slots
    <3>. QED BY <3>1, <3>2, <3>3
  <2>2. keyed' \in [Keys -> [Slots -> MilestoneIds \cup {Nobody}]]
    <3>1. ASSUME NEW k \in Keys PROVE keyed'[k] \in [Slots -> MilestoneIds \cup {Nobody}]
      <4>1. CASE k \in Moved
        <5>1. keyed'[k] = [j \in Slots |-> keyed'[k][j]]
          BY <1>2, <4>1 DEF ShiftDown
        <5>. QED BY <2>1, <4>1, <5>1
      <4>2. CASE k \notin Moved
        BY <1>1, <1>2, <4>2 DEF KeyedOK
      <4>. QED BY <4>1, <4>2
    <3>2. keyed' = [k \in Keys |-> keyed'[k]]
      BY <1>2
    <3>. QED BY <3>1, <3>2
  <2>3. ASSUME NEW k \in Moved, NEW j \in Slots, keyed'[k][j] # Nobody
        PROVE  j <= n - 1 /\ src[j] # 0 /\ keyed'[k][j] = keyed[k][src[j]]
    <3>0. j \in Int /\ j >= 1
      BY DEF Slots
    <3>1. CASE j > n
      <4>1. keyed[k][j] # Nobody
        BY <2>1, <2>3, <3>1
      <4>2. j <= n
        BY <1>1, <4>1 DEF KeyedOK
      <4>. QED BY <1>5, <3>0, <3>1, <4>2
    <3>2. CASE j < second
      <4>1. j \in 1 .. n - 1 /\ j <= first
        BY <1>5, <1>6, <1>10, <3>0, <3>2
      <4>2. src[j] = j /\ j <= n - 1
        BY <4>1
      <4>3. keyed'[k][j] = keyed[k][j]
        BY <2>1, <3>2
      <4>. QED BY <3>0, <4>2, <4>3
    <3>3. CASE j >= second /\ j < n
      <4>1. j \in 1 .. n - 1 /\ ~ (j <= first) /\ ~ (j < second) /\ ~ (j > n)
        BY <1>5, <1>6, <1>10, <3>0, <3>3
      <4>2. src[j] = j + 1 /\ j <= n - 1 /\ j + 1 # 0
        BY <3>0, <4>1
      <4>3. keyed'[k][j] = keyed[k][j + 1]
        BY <2>1, <3>3, <4>1
      <4>. QED BY <4>2, <4>3
    <3>4. CASE j = n
      BY <1>6, <2>1, <2>3, <3>0, <3>4
    <3>. QED BY <1>5, <1>6, <3>0, <3>1, <3>2, <3>3, <3>4
  <2>. QED BY <2>2, <2>3
<1>. DEFINE down(d) == IF d.index > second THEN [d EXCEPT !.index = @ - 1] ELSE d
<1>15. ASSUME NEW d \in IndexRecords, d.index \in 1 .. n, d.index # second
       PROVE  /\ down(d) \in IndexRecords /\ down(d).index \in 1 .. n - 1
              /\ src[down(d).index] = d.index /\ down(d).id = d.id
  <2>1. PICK j \in 1 .. n - 1 : j = (IF d.index > second THEN d.index - 1 ELSE d.index) /\ src[j] = d.index
    BY <1>13, <1>15
  <2>2. down(d) \in IndexRecords /\ down(d).index = j /\ down(d).id = d.id
    <3>1. CASE d.index > second
      <4>1. down(d) = [d EXCEPT !.index = @ - 1] /\ d.index - 1 = j /\ j \in Nat
        BY <2>1, <3>1
      <4>. HIDE DEF down
      <4>. QED BY <4>1 DEF IndexRecords
    <3>2. CASE ~ (d.index > second)
      BY <2>1, <3>2
    <3>. QED BY <3>1, <3>2
  <2>. QED BY <2>1, <2>2
<1>16. \A d \in disputes : d \in IndexRecords /\ d.index \in 1 .. n /\ d.index # second
  BY <1>1, <1>4 DEF DisputesOK
<1>. HIDE DEF src
<1>17. disputes' = {down(d) : d \in disputes}
  BY <1>2
<1>18. lastConfirmed' # Nobody =>
          /\ lastConfirmed # Nobody /\ lastConfirmed' \in IndexRecords /\ lastConfirmed'.index \in 1 .. n - 1
          /\ src[lastConfirmed'.index] = lastConfirmed.index /\ lastConfirmed'.id = lastConfirmed.id
  <2>1. lastConfirmed # Nobody =>
          lastConfirmed \in IndexRecords /\ lastConfirmed.index \in 1 .. n /\ lastConfirmed.index # second
    BY <1>1, <1>4 DEF ConfirmedOK
  <2>2. lastConfirmed # Nobody => lastConfirmed' = down(lastConfirmed)
    BY <1>2
  <2>3. lastConfirmed = Nobody => lastConfirmed' = Nobody
    BY <1>2
  <2>. HIDE DEF down
  <2>. QED BY <1>15, <2>1, <2>2, <2>3
<1>. HIDE DEF down
<1>19. /\ disputes' \subseteq IndexRecords
       /\ \A e \in disputes' : /\ e.index \in 1 .. n - 1
                               /\ \E d \in disputes : src[e.index] = d.index /\ e.id = d.id
       /\ \A d \in disputes : \E e \in disputes' : src[e.index] = d.index
  BY <1>15, <1>16, <1>17
<1>. DEFINE m == n - 1
<1>20. m \in Nat /\ m = Len(list') /\ m <= MaxCount
  BY <1>5, <1>6, <1>9
<1>. HIDE DEF n, R
<1>21. /\ \A j \in 1 .. m : src[j] # 0 =>
             /\ src[j] \in 1 .. Len(list)
             /\ list'[j].id = list[src[j]].id /\ list'[j].status = list[src[j]].status
       /\ \A j \in 1 .. m : src[j] # 0
  BY <1>11 DEF n
<1>22. list' \in Seq(MilestoneRecords)
  BY <1>9 DEF R
<1>23. \A i, j \in 1 .. m : src[i] = src[j] /\ src[i] # 0 => i = j
  BY <1>12
<1>24. \A k \in Moved, j \in Slots : keyed'[k][j] # Nobody =>
          j <= m /\ src[j] # 0 /\ keyed'[k][j] = keyed[k][src[j]]
  BY <1>14
<1>25. \A e \in disputes' : /\ e.index \in 1 .. m
                            /\ \E d \in disputes : src[e.index] = d.index /\ e.id = d.id
  BY <1>19
<1>26. lastConfirmed' # Nobody =>
          /\ lastConfirmed # Nobody /\ lastConfirmed' \in IndexRecords /\ lastConfirmed'.index \in 1 .. m
          /\ src[lastConfirmed'.index] = lastConfirmed.index /\ lastConfirmed'.id = lastConfirmed.id
  BY <1>18
<1>. HIDE DEF m
<1>27. /\ \A j \in 1 .. m : src[j] = 0 =>
              /\ list'[j].status = "Pending" /\ \A i \in 1 .. Len(list) : list'[j].id # list[i].id
       /\ \A i, j \in 1 .. m : src[i] = 0 /\ src[j] = 0 /\ list'[i].id = list'[j].id => i = j
  BY <1>21
<1>28. Rearranged(src, m)
  BY <1>14, <1>19, <1>20, <1>21, <1>22, <1>23, <1>24, <1>25, <1>26, <1>27 DEF Rearranged
<1>. QED BY <1>1, <1>20, <1>28, RearrangedKeeps

LEMMA SplitKeeps ==
    ASSUME TermsInv, NEW side, ApproveSplit(side)
    PROVE  PlacesOK'
<1>. DEFINE i == split.index
            parts == split.parts
            shift == Len(parts) - 1
            fresh == FreshIds(shift)
            ids == <<list[i].id>> \o fresh
            made == [p \in DOMAIN parts |-> [list[i] EXCEPT !.id = ids[p], !.percent = parts[p]]]
            R == MilestoneRecords
            n == Len(list)
            m == n + shift
            src == [j \in 1 .. m |-> IF j <= i THEN j ELSE IF j <= i + shift THEN 0 ELSE j - shift]
<1>1. PlacesOK /\ OffersOK /\ ListOK /\ KeyedOK /\ DisputesOK /\ ConfirmedOK
  BY DEF TermsInv, PlacesOK
<1>2. /\ split # Nobody /\ ValidSplit(i, parts)
      /\ list' = ReplaceBySeq(list, i, made)
      /\ keyed' = [k \in Keys |->
            IF k \in Moved THEN Cleared(ShiftUp(keyed[k], i + 1, n, shift), i + 1, i + shift)
                           ELSE keyed[k]]
      /\ disputes' = DisputesUp(i, shift)
      /\ lastConfirmed' = IF lastConfirmed # Nobody /\ lastConfirmed.index > i
                          THEN [lastConfirmed EXCEPT !.index = @ + shift] ELSE lastConfirmed
  BY DEF ApproveSplit
<1>3. i \in Nat \ {0} /\ parts \in Seq(Int)
  BY <1>1, <1>2 DEF OffersOK
<1>4. i <= n /\ Len(parts) >= 2 /\ n + Len(parts) - 1 <= MaxCount /\ list[i].status = "Pending"
  BY <1>2 DEF ValidSplit, Unencumbered
<1>5. /\ n \in Nat /\ n <= MaxCount /\ MaxCount \in Nat /\ list \in Seq(R)
      /\ \A j \in 1 .. n : j \in Slots /\ list[j] \in R /\ list[j].id \in MilestoneIds
  BY <1>1, ListFacts DEF ListOK
<1>6. Len(parts) \in Nat /\ DOMAIN parts = 1 .. Len(parts) /\ \A p \in 1 .. Len(parts) : parts[p] \in Int
  BY <1>3, LenProperties
<1>. HIDE DEF i, parts
<1>7. /\ shift \in Nat \ {0} /\ Len(parts) = shift + 1 /\ i \in 1 .. n /\ i \in Nat
      /\ n + shift <= MaxCount /\ m \in Nat /\ m <= MaxCount
  BY <1>3, <1>4, <1>5, <1>6
<1>8. /\ fresh \in [1 .. shift -> MilestoneIds]
      /\ \A a, b \in 1 .. shift : fresh[a] = fresh[b] => a = b
      /\ \A a \in 1 .. shift, j \in 1 .. n : fresh[a] # list[j].id
  <2>. HIDE DEF shift
  <2>. QED BY <1>1, <1>7, FreshIdsExist
<1>. HIDE DEF shift, fresh
<1>9. /\ ids[1] = list[i].id /\ \A p \in 2 .. shift + 1 : p - 1 \in 1 .. shift /\ ids[p] = fresh[p - 1]
      /\ \A p \in 1 .. shift + 1 : ids[p] \in MilestoneIds
  <2>. DEFINE x == list[i].id
  <2>1. x \in MilestoneIds
    BY <1>5, <1>7
  <2>. HIDE DEF x
  <2>2. fresh \in Seq(MilestoneIds) /\ Len(fresh) = shift
    BY <1>7, <1>8
  <2>3. <<x>> \in Seq(MilestoneIds) /\ Len(<<x>>) = 1 /\ <<x>>[1] = x
    BY <2>1
  <2>. DEFINE one == <<x>>
              s == one \o fresh
  <2>4. one \in Seq(MilestoneIds) /\ Len(one) = 1 /\ one[1] = x
    BY <2>3
  <2>. HIDE DEF one
  <2>a. /\ s \in Seq(MilestoneIds) /\ Len(s) = Len(one) + Len(fresh)
        /\ \A p \in 1 .. Len(one) + Len(fresh) :
               s[p] = IF p <= Len(one) THEN one[p] ELSE fresh[p - Len(one)]
    BY <2>2, <2>4, ConcatProperties
  <2>5. /\ s \in Seq(MilestoneIds) /\ Len(s) = 1 + shift
        /\ \A p \in 1 .. 1 + shift : s[p] = IF p <= 1 THEN one[p] ELSE fresh[p - 1]
    <3>. HIDE DEF s
    <3>. QED BY <2>2, <2>4, <2>a
  <2>. HIDE DEF s
  <2>6. s[1] = x /\ \A p \in 2 .. shift + 1 : p - 1 \in 1 .. shift /\ s[p] = fresh[p - 1]
    BY <1>7, <2>4, <2>5
  <2>7. \A p \in 1 .. shift + 1 : s[p] \in MilestoneIds
    BY <1>7, <2>5, ElementOfSeq
  <2>. QED BY <2>6, <2>7 DEF s, one, x
<1>. HIDE DEF ids
<1>10. /\ made \in Seq(R) /\ Len(made) = shift + 1
       /\ \A p \in 1 .. shift + 1 : made[p].id = ids[p] /\ made[p].status = "Pending"
  <2>. DEFINE a == list[i]
  <2>1. a \in R /\ a.status = "Pending"
    BY <1>4, <1>5, <1>7
  <2>2. ASSUME NEW p \in 1 .. shift + 1
        PROVE  /\ [a EXCEPT !.id = ids[p], !.percent = parts[p]] \in R
               /\ [a EXCEPT !.id = ids[p], !.percent = parts[p]].id = ids[p]
               /\ [a EXCEPT !.id = ids[p], !.percent = parts[p]].status = "Pending"
    <3>1. ids[p] \in MilestoneIds /\ parts[p] \in Int
      BY <1>6, <1>7, <1>9
    <3>. HIDE DEF a
    <3>. QED BY <2>1, <3>1 DEF MilestoneRecords
  <2>. DEFINE new(p) == [a EXCEPT !.id = ids[p], !.percent = parts[p]]
  <2>3. made = [p \in 1 .. shift + 1 |-> new(p)]
    BY <1>6, <1>7
  <2>4. \A p \in 1 .. shift + 1 : new(p) \in R /\ new(p).id = ids[p] /\ new(p).status = "Pending"
    BY <2>2
  <2>. HIDE DEF new, made, R
  <2>5. shift + 1 \in Nat
    BY <1>7
  <2>. QED BY <2>3, <2>4, <2>5
<1>. HIDE DEF made
<1>11. /\ list' \in Seq(R) /\ Len(list') = n - 1 + (shift + 1)
       /\ \A j \in 1 .. Len(list') : list'[j] = IF j < i THEN list[j]
                                                ELSE IF j < i + (shift + 1) THEN made[j - i + 1]
                                                ELSE list[j - (shift + 1) + 1]
  <2>. HIDE DEF R
  <2>. DEFINE u == ReplaceBySeq(list, i, made)
              h == shift + 1
  <2>1. list \in Seq(R) /\ i \in 1 .. Len(list) /\ made \in Seq(R) /\ Len(made) = h
    BY <1>5, <1>7, <1>10
  <2>2. /\ u \in Seq(R) /\ Len(u) = Len(list) - 1 + Len(made)
        /\ \A j \in 1 .. Len(u) : u[j] = IF j < i THEN list[j]
                                          ELSE IF j < i + Len(made) THEN made[j - i + 1]
                                          ELSE list[j - Len(made) + 1]
    <3>. HIDE DEF u, h
    <3>. QED BY ONLY <2>1, ReplaceProperties DEF u
  <2>3. list' = u
    BY <1>2
  <2>. HIDE DEF u, h
  <2>4. /\ list' \in Seq(R) /\ Len(list') = Len(list) - 1 + h
        /\ \A j \in 1 .. Len(list') : list'[j] = IF j < i THEN list[j]
                                                  ELSE IF j < i + h THEN made[j - i + 1]
                                                  ELSE list[j - h + 1]
    BY ONLY <2>1, <2>2, <2>3
  <2>. QED BY ONLY <2>4 DEF h
<1>12. Len(list') = m
  BY <1>5, <1>7, <1>11
<1>. HIDE DEF R
<1>13. ASSUME NEW j \in 1 .. m
       PROVE  /\ src[j] = 0 <=> (i < j /\ j <= i + shift)
              /\ src[j] # 0 => /\ src[j] \in 1 .. n
                               /\ list'[j].id = list[src[j]].id /\ list'[j].status = list[src[j]].status
              /\ src[j] = 0 => /\ list'[j].status = "Pending"
                               /\ j - i \in 1 .. shift /\ list'[j].id = fresh[j - i]
  <2>1. src[j] = IF j <= i THEN j ELSE IF j <= i + shift THEN 0 ELSE j - shift
    OBVIOUS
  <2>2. list'[j] = IF j < i THEN list[j] ELSE IF j < i + (shift + 1) THEN made[j - i + 1]
                   ELSE list[j - (shift + 1) + 1]
    BY <1>11, <1>12
  <2>3. j \in Int /\ j >= 1 /\ j <= n + shift
    BY <1>5, <1>7
  <2>4. CASE j < i
    BY <1>5, <1>7, <2>1, <2>2, <2>3, <2>4
  <2>5. CASE j = i
    <3>1. j - i + 1 = 1 /\ src[j] = i /\ ~ (j < i) /\ j < i + (shift + 1)
      BY <1>7, <2>1, <2>3, <2>5
    <3>2. list'[j] = made[1]
      BY <2>2, <3>1
    <3>3. made[1].id = list[i].id /\ made[1].status = list[i].status
      BY <1>4, <1>7, <1>9, <1>10
    <3>4. ~ (i < j) /\ src[j] # 0 /\ src[j] \in 1 .. n
      BY <1>7, <2>5, <3>1
    <3>5. list'[j].id = list[src[j]].id /\ list'[j].status = list[src[j]].status
      BY <3>1, <3>2, <3>3
    <3>. HIDE DEF src
    <3>. QED BY ONLY <3>4, <3>5
  <2>6. CASE i < j /\ j <= i + shift
    <3>1. src[j] = 0 /\ ~ (j < i) /\ j < i + (shift + 1) /\ j - i + 1 \in 2 .. shift + 1 /\ j - i \in 1 .. shift
      BY <1>7, <2>1, <2>3, <2>6
    <3>. DEFINE p == j - i + 1
    <3>2. p \in 2 .. shift + 1 /\ p \in 1 .. shift + 1 /\ p - 1 = j - i
      BY <1>7, <2>3, <3>1
    <3>3. list'[j] = made[p]
      BY <2>2, <3>1
    <3>. HIDE DEF p
    <3>4. made[p].id = fresh[p - 1] /\ made[p].status = "Pending"
      BY <1>9, <1>10, <3>2
    <3>. QED BY <2>6, <3>1, <3>2, <3>3, <3>4
  <2>7. CASE i + shift < j
    <3>1. /\ src[j] = j - shift /\ ~ (j < i) /\ ~ (j < i + (shift + 1)) /\ j - (shift + 1) + 1 = j - shift
          /\ j - shift \in 1 .. n /\ j - shift # 0
      BY <1>5, <1>7, <2>1, <2>3, <2>7
    <3>2. list'[j] = list[j - shift]
      BY <2>2, <3>1
    <3>3. ~ (j <= i + shift) /\ src[j] # 0 /\ src[j] \in 1 .. n
      BY <1>5, <1>7, <2>3, <2>7, <3>1
    <3>4. list'[j].id = list[src[j]].id /\ list'[j].status = list[src[j]].status
      BY <3>1, <3>2
    <3>. HIDE DEF src
    <3>. QED BY ONLY <3>3, <3>4
  <2>8. j < i \/ j = i \/ (i < j /\ j <= i + shift) \/ i + shift < j
    BY <1>7, <2>3
  <2>. QED BY <2>4, <2>5, <2>6, <2>7, <2>8
<1>14. \A a, b \in 1 .. m : src[a] = src[b] /\ src[a] # 0 => a = b
  BY <1>5, <1>7
<1>15. ASSUME NEW j \in 1 .. n
       PROVE  \E q \in 1 .. m : q = (IF j > i THEN j + shift ELSE j) /\ src[q] = j
  <2>. DEFINE q == IF j > i THEN j + shift ELSE j
  <2>1. /\ q \in 1 .. m /\ (j > i => q = j + shift /\ ~ (q <= i) /\ ~ (q <= i + shift) /\ q - shift = j)
        /\ (~ (j > i) => q = j /\ q <= i)
    BY <1>5, <1>7
  <2>2. src[q] = j
    BY <2>1
  <2>. QED BY <2>1, <2>2
<1>16. /\ keyed' \in [Keys -> [Slots -> MilestoneIds \cup {Nobody}]]
       /\ \A k \in Moved, j \in Slots : keyed'[k][j] # Nobody =>
              j <= m /\ src[j] # 0 /\ keyed'[k][j] = keyed[k][src[j]]
  <2>1. ASSUME NEW k \in Moved, NEW j \in Slots
        PROVE  /\ keyed'[k][j] = IF j \in i + 1 .. i + shift THEN Nobody
                                 ELSE IF j >= i + 1 + shift /\ j <= n + shift THEN keyed[k][j - shift]
                                 ELSE keyed[k][j]
               /\ keyed'[k][j] \in MilestoneIds \cup {Nobody}
    <3>1. keyed'[k][j] = IF j \in i + 1 .. i + shift THEN Nobody
                         ELSE IF j >= i + 1 + shift /\ j <= n + shift THEN keyed[k][j - shift]
                         ELSE keyed[k][j]
      BY <1>2, MovedAreKeys DEF Cleared, ShiftUp
    <3>2. keyed[k] \in [Slots -> MilestoneIds \cup {Nobody}]
      BY <1>1, MovedAreKeys DEF KeyedOK
    <3>3. j >= i + 1 + shift => j - shift \in Slots
      BY <1>5, <1>7 DEF Slots
    <3>. QED BY <3>1, <3>2, <3>3
  <2>2. keyed' \in [Keys -> [Slots -> MilestoneIds \cup {Nobody}]]
    <3>1. ASSUME NEW k \in Keys PROVE keyed'[k] \in [Slots -> MilestoneIds \cup {Nobody}]
      <4>1. CASE k \in Moved
        <5>1. keyed'[k] = [j \in Slots |-> keyed'[k][j]]
          BY <1>2, <4>1 DEF Cleared
        <5>. QED BY <2>1, <4>1, <5>1
      <4>2. CASE k \notin Moved
        BY <1>1, <1>2, <4>2 DEF KeyedOK
      <4>. QED BY <4>1, <4>2
    <3>2. keyed' = [k \in Keys |-> keyed'[k]]
      BY <1>2
    <3>. QED BY <3>1, <3>2
  <2>3. ASSUME NEW k \in Moved, NEW j \in Slots, keyed'[k][j] # Nobody
        PROVE  j <= m /\ src[j] # 0 /\ keyed'[k][j] = keyed[k][src[j]]
    <3>0. j \in Int /\ j >= 1
      BY DEF Slots
    <3>1. CASE j \in i + 1 .. i + shift
      BY <2>1, <2>3, <3>1
    <3>2. CASE j <= i
      <4>1. j \in 1 .. m /\ j <= m /\ j \notin i + 1 .. i + shift /\ ~ (j >= i + 1 + shift)
        BY <1>5, <1>7, <3>0, <3>2
      <4>2. src[j] = j
        BY <3>2, <4>1
      <4>3. keyed'[k][j] = keyed[k][j]
        BY <2>1, <4>1
      <4>. QED BY <3>0, <4>1, <4>2, <4>3
    <3>3. CASE j >= i + 1 + shift /\ j <= n + shift
      <4>1. /\ j \in 1 .. m /\ j <= m /\ j \notin i + 1 .. i + shift /\ ~ (j <= i) /\ ~ (j <= i + shift)
            /\ j - shift # 0
        BY <1>5, <1>7, <3>0, <3>3
      <4>2. src[j] = j - shift
        BY <4>1
      <4>3. keyed'[k][j] = keyed[k][j - shift]
        BY <2>1, <3>3, <4>1
      <4>. QED BY <4>1, <4>2, <4>3
    <3>4. CASE j > n + shift
      <4>1. j \notin i + 1 .. i + shift /\ ~ (j <= n + shift) /\ ~ (j <= n)
        BY <1>5, <1>7, <3>0, <3>4
      <4>2. keyed'[k][j] = keyed[k][j]
        BY <2>1, <4>1
      <4>. QED BY <1>1, <2>3, <4>1, <4>2 DEF KeyedOK
    <3>. QED BY <1>5, <1>7, <3>0, <3>1, <3>2, <3>3, <3>4
  <2>. QED BY <2>2, <2>3
<1>. DEFINE up(d) == IF d.index > i THEN [d EXCEPT !.index = @ + shift] ELSE d
<1>17. ASSUME NEW d \in IndexRecords, d.index \in 1 .. n
       PROVE  /\ up(d) \in IndexRecords /\ up(d).index \in 1 .. m
              /\ src[up(d).index] = d.index /\ up(d).id = d.id
  <2>1. PICK q \in 1 .. m : q = (IF d.index > i THEN d.index + shift ELSE d.index) /\ src[q] = d.index
    BY <1>15, <1>17
  <2>2. up(d) \in IndexRecords /\ up(d).index = q /\ up(d).id = d.id
    <3>1. CASE d.index > i
      <4>1. up(d) = [d EXCEPT !.index = @ + shift] /\ d.index + shift = q /\ q \in Nat
        BY <2>1, <3>1
      <4>. HIDE DEF up
      <4>. QED BY <4>1 DEF IndexRecords
    <3>2. CASE ~ (d.index > i)
      BY <2>1, <3>2
    <3>. QED BY <3>1, <3>2
  <2>. QED BY <2>1, <2>2
<1>18. \A d \in disputes : d \in IndexRecords /\ d.index \in 1 .. n
  BY <1>1 DEF DisputesOK
<1>. HIDE DEF src
<1>19. disputes' = {up(d) : d \in disputes}
  BY <1>2 DEF DisputesUp
<1>20. lastConfirmed' # Nobody =>
          /\ lastConfirmed # Nobody /\ lastConfirmed' \in IndexRecords /\ lastConfirmed'.index \in 1 .. m
          /\ src[lastConfirmed'.index] = lastConfirmed.index /\ lastConfirmed'.id = lastConfirmed.id
  <2>1. lastConfirmed # Nobody => lastConfirmed \in IndexRecords /\ lastConfirmed.index \in 1 .. n
    BY <1>1 DEF ConfirmedOK
  <2>2. lastConfirmed # Nobody => lastConfirmed' = up(lastConfirmed)
    BY <1>2
  <2>3. lastConfirmed = Nobody => lastConfirmed' = Nobody
    BY <1>2
  <2>. HIDE DEF up
  <2>. QED BY <1>17, <2>1, <2>2, <2>3
<1>. HIDE DEF up, m
<1>21. /\ disputes' \subseteq IndexRecords
       /\ \A e \in disputes' : /\ e.index \in 1 .. m
                               /\ \E d \in disputes : src[e.index] = d.index /\ e.id = d.id
       /\ \A d \in disputes : \E e \in disputes' : src[e.index] = d.index
  BY <1>17, <1>18, <1>19
<1>22. /\ \A j \in 1 .. m : src[j] # 0 =>
             /\ src[j] \in 1 .. Len(list)
             /\ list'[j].id = list[src[j]].id /\ list'[j].status = list[src[j]].status
       /\ \A j \in 1 .. m : src[j] = 0 =>
             /\ list'[j].status = "Pending" /\ \A a \in 1 .. Len(list) : list'[j].id # list[a].id
  BY <1>8, <1>13
<1>23. \A a, b \in 1 .. m : src[a] = 0 /\ src[b] = 0 /\ list'[a].id = list'[b].id => a = b
  <2>1. ASSUME NEW a \in 1 .. m, NEW b \in 1 .. m, src[a] = 0, src[b] = 0, list'[a].id = list'[b].id
        PROVE  a = b
    <3>1. a - i \in 1 .. shift /\ b - i \in 1 .. shift /\ fresh[a - i] = fresh[b - i]
      BY <1>13, <2>1
    <3>2. a - i = b - i
      BY <1>8, <3>1
    <3>. QED BY <1>7, <3>2
  <2>. QED BY <2>1
<1>24. m = Len(list') /\ m <= MaxCount /\ m \in Nat /\ list' \in Seq(MilestoneRecords)
  BY <1>7, <1>11, <1>12 DEF m, R
<1>25. Rearranged(src, m)
  BY <1>14, <1>16, <1>20, <1>21, <1>22, <1>23, <1>24 DEF Rearranged
<1>. QED BY <1>1, <1>24, <1>25, RearrangedKeeps

(* What a milestone is worth is a number, and so is its share of a larger
   total. *)
LEMMA WorthTyped ==
    ASSUME ListOK, MoneyOK, NEW i \in 1 .. Len(list)
    PROVE  Worth(i) \in Int
<1>1. total \in Int /\ list[i].percent \in Int /\ (i <= Len(weights) => weights[i] \in Int)
  <2>1. i \in Nat \ {0} /\ Len(weights) \in Nat /\ \A j \in 1 .. Len(weights) : weights[j] \in Int
    <3>1. weights \in Seq(Int) /\ Len(list) \in Nat
      BY ListFacts DEF MoneyOK
    <3>. QED BY <3>1, LenProperties
  <2>2. list[i].percent \in Int
    BY ListFacts
  <2>. QED BY <2>1, <2>2 DEF MoneyOK
<1>. DEFINE x == total * weights[i]
            y == total * list[i].percent
<1>2. (i <= Len(weights) => x \in Int) /\ y \in Int
  <2>. DEFINE a == weights[i]
              b == list[i].percent
  <2>1. (i <= Len(weights) => a \in Int) /\ b \in Int /\ total \in Int
    BY <1>1
  <2>. HIDE DEF a, b
  <2>2. (a \in Int => total * a \in Int) /\ total * b \in Int
    BY <2>1
  <2>. QED BY <2>1, <2>2 DEF a, b
<1>3. Worth(i) = IF i <= Len(weights) THEN x \div 10000 ELSE y \div 100
  BY DEF Worth
<1>. HIDE DEF x, y
<1>4. (x \in Int => x \div 10000 \in Int) /\ y \div 100 \in Int
  BY <1>2
<1>. QED BY <1>2, <1>3, <1>4

LEMMA KeptTyped ==
    ASSUME ListOK, MoneyOK, append # Nobody
    PROVE  LET kept == Kept(total + append.amount)
               percents == [i \in DOMAIN list |-> kept[i] \div 100]
           IN  /\ kept \in Seq(Int) /\ Len(kept) = Len(list)
               /\ \A i \in 1 .. Len(list) : kept[i] = WeightAfter(i, total + append.amount)
               /\ percents \in Seq(Int) /\ Len(percents) = Len(list)
               /\ \A i \in 1 .. Len(list) : percents[i] \in Int
<1>. DEFINE n == Len(list)
            N == total + append.amount
            kept == Kept(N)
            percents == [i \in DOMAIN list |-> kept[i] \div 100]
<1>1. n \in Nat /\ DOMAIN list = 1 .. n /\ N \in Nat \ {0}
  BY ListFacts DEF MoneyOK
<1>. HIDE DEF N
<1>2. ASSUME NEW i \in 1 .. n PROVE WeightAfter(i, N) \in Int
  <2>. DEFINE w == Worth(i)
              x == w * 10000 + N - 1
  <2>1. w \in Int
    BY WorthTyped
  <2>2. WeightAfter(i, N) = x \div N
    BY DEF WeightAfter
  <2>. HIDE DEF w
  <2>3. x \in Int
    BY <1>1, <2>1
  <2>. HIDE DEF x
  <2>. QED BY <1>1, <2>2, <2>3
<1>3. kept = [i \in 1 .. n |-> WeightAfter(i, N)]
  BY <1>1 DEF Kept
<1>. HIDE DEF kept, n
<1>4. kept \in Seq(Int) /\ Len(kept) = n /\ \A i \in 1 .. n : kept[i] = WeightAfter(i, N)
  BY <1>1, <1>2, <1>3
<1>5. \A i \in 1 .. n : kept[i] \in Int /\ kept[i] \div 100 \in Int
  BY <1>2, <1>4
<1>6. percents = [i \in 1 .. n |-> kept[i] \div 100]
  BY <1>1
<1>. HIDE DEF percents
<1>7. percents \in Seq(Int) /\ Len(percents) = n /\ \A i \in 1 .. n : percents[i] \in Int
  BY <1>1, <1>5, <1>6
<1>. QED BY <1>4, <1>7 DEF kept, percents, n, N

LEMMA AcceptKeeps ==
    ASSUME TermsInv, NEW side, AcceptAppend(side)
    PROVE  PlacesOK'
<1>. DEFINE n == Len(list)
            m == n + 1
            kept == Kept(total + append.amount)
            percents == [i \in DOMAIN list |-> kept[i] \div 100]
            fresh == FreshIds(1)
            newId == fresh[1]
            rest == 100 - SumOf(percents)
            entry == [id |-> newId, percent |-> rest, status |-> "Pending"]
            old == [i \in DOMAIN list |-> [list[i] EXCEPT !.percent = percents[i]]]
            R == MilestoneRecords
            src == [j \in 1 .. m |-> IF j <= n THEN j ELSE 0]
<1>1. PlacesOK /\ MoneyOK /\ ListOK /\ KeyedOK /\ DisputesOK /\ ConfirmedOK
  BY DEF TermsInv, PlacesOK
<1>2. /\ n + 1 <= MaxCount /\ append # Nobody
      /\ keyed' = [k \in Keys |-> IF k \in Moved THEN Cleared(keyed[k], n + 1, n + 1) ELSE keyed[k]]
      /\ list' = Append(old, entry)
      /\ disputes' = disputes /\ lastConfirmed' = lastConfirmed
  BY DEF AcceptAppend, Appendable
<1>3. /\ n \in Nat /\ DOMAIN list = 1 .. n /\ MaxCount \in Nat
      /\ \A j \in 1 .. n : list[j] \in R /\ list[j].id \in MilestoneIds /\ j \in Slots
  BY <1>1, ListFacts
<1>4. percents \in Seq(Int) /\ Len(percents) = n /\ \A j \in 1 .. n : percents[j] \in Int
  BY <1>1, <1>2, KeptTyped
<1>5. rest \in Int
  <2>. HIDE DEF percents
  <2>1. SumOf(percents) \in Int
    BY <1>4, SumOfIsSum
  <2>. QED BY <2>1
<1>6. /\ newId \in MilestoneIds /\ \A j \in 1 .. n : newId # list[j].id
  <2>. DEFINE one == 1
  <2>1. one \in Nat /\ n + one <= MaxCount
    BY <1>2
  <2>. HIDE DEF one
  <2>2. /\ FreshIds(one) \in [1 .. one -> MilestoneIds]
        /\ \A a \in 1 .. one, j \in 1 .. n : FreshIds(one)[a] # list[j].id
    BY <1>1, <2>1, FreshIdsExist
  <2>3. one \in 1 .. one
    BY DEF one
  <2>. QED BY <2>2, <2>3 DEF one
<1>. HIDE DEF percents, kept, newId, rest
<1>7. entry \in R /\ entry.id = newId /\ entry.status = "Pending"
  BY <1>5, <1>6 DEF MilestoneRecords, Statuses
<1>8. /\ old \in Seq(R) /\ Len(old) = n
      /\ \A j \in 1 .. n : old[j].id = list[j].id /\ old[j].status = list[j].status
  <2>1. ASSUME NEW j \in 1 .. n
        PROVE  /\ [list[j] EXCEPT !.percent = percents[j]] \in R
               /\ [list[j] EXCEPT !.percent = percents[j]].id = list[j].id
               /\ [list[j] EXCEPT !.percent = percents[j]].status = list[j].status
    BY <1>3, <1>4 DEF MilestoneRecords
  <2>. DEFINE new(j) == [list[j] EXCEPT !.percent = percents[j]]
  <2>2. old = [j \in 1 .. n |-> new(j)]
    BY <1>3
  <2>3. \A j \in 1 .. n : new(j) \in R /\ new(j).id = list[j].id /\ new(j).status = list[j].status
    BY <2>1
  <2>. HIDE DEF new, old, R, n
  <2>. QED BY <1>3, <2>2, <2>3
<1>. HIDE DEF old, entry
<1>9. /\ list' \in Seq(R) /\ Len(list') = n + 1
      /\ \A j \in 1 .. n : list'[j] = old[j]
      /\ list'[n + 1] = entry
  <2>. HIDE DEF R
  <2>. QED BY <1>2, <1>7, <1>8, AppendProperties
<1>10. ASSUME NEW j \in 1 .. m
       PROVE  /\ src[j] # 0 => /\ src[j] \in 1 .. n /\ src[j] = j
                               /\ list'[j].id = list[src[j]].id /\ list'[j].status = list[src[j]].status
              /\ src[j] = 0 => /\ j = m /\ list'[j].status = "Pending"
                               /\ \A i \in 1 .. n : list'[j].id # list[i].id
  <2>. HIDE DEF R
  <2>1. CASE j <= n
    <3>1. j \in 1 .. n /\ src[j] = j /\ j # 0
      BY <1>3, <2>1
    <3>2. list'[j].id = list[j].id /\ list'[j].status = list[j].status
      BY <1>8, <1>9, <3>1
    <3>. HIDE DEF src
    <3>. QED BY <3>1, <3>2
  <2>2. CASE ~ (j <= n)
    <3>1. j = n + 1 /\ src[j] = 0
      BY <1>3, <2>2
    <3>2. list'[j] = entry
      BY <1>9, <3>1
    <3>. HIDE DEF src
    <3>. QED BY <1>6, <1>7, <3>1, <3>2
  <2>. QED BY <2>1, <2>2
<1>11. \A j \in 1 .. n : j \in 1 .. m /\ src[j] = j /\ j # 0
  BY <1>3
<1>12. /\ keyed' \in [Keys -> [Slots -> MilestoneIds \cup {Nobody}]]
       /\ \A k \in Moved, j \in Slots : keyed'[k][j] # Nobody =>
              j <= m /\ src[j] # 0 /\ keyed'[k][j] = keyed[k][src[j]]
  <2>. HIDE DEF R
  <2>1. ASSUME NEW k \in Moved, NEW j \in Slots
        PROVE  /\ keyed'[k][j] = IF j \in n + 1 .. n + 1 THEN Nobody ELSE keyed[k][j]
               /\ keyed'[k][j] \in MilestoneIds \cup {Nobody}
    BY <1>1, <1>2, MovedAreKeys DEF Cleared, KeyedOK
  <2>2. keyed' \in [Keys -> [Slots -> MilestoneIds \cup {Nobody}]]
    <3>1. ASSUME NEW k \in Keys PROVE keyed'[k] \in [Slots -> MilestoneIds \cup {Nobody}]
      <4>1. CASE k \in Moved
        <5>1. keyed'[k] = [j \in Slots |-> keyed'[k][j]]
          BY <1>2, <4>1 DEF Cleared
        <5>. QED BY <2>1, <4>1, <5>1
      <4>2. CASE k \notin Moved
        BY <1>1, <1>2, <4>2 DEF KeyedOK
      <4>. QED BY <4>1, <4>2
    <3>2. keyed' = [k \in Keys |-> keyed'[k]]
      BY <1>2
    <3>. QED BY <3>1, <3>2
  <2>3. ASSUME NEW k \in Moved, NEW j \in Slots, keyed'[k][j] # Nobody
        PROVE  j <= m /\ src[j] # 0 /\ keyed'[k][j] = keyed[k][src[j]]
    <3>1. keyed'[k][j] = keyed[k][j] /\ keyed[k][j] # Nobody
      BY <2>1, <2>3
    <3>2. j <= n
      BY <1>1, <3>1 DEF KeyedOK
    <3>3. j \in 1 .. n /\ j <= m
      BY <1>3, <3>2 DEF Slots
    <3>4. src[j] = j /\ j # 0
      BY <1>11, <3>3
    <3>. HIDE DEF src
    <3>. QED BY <3>1, <3>3, <3>4
  <2>. QED BY <2>2, <2>3
<1>. HIDE DEF src
<1>13. /\ disputes' \subseteq IndexRecords
       /\ \A e \in disputes' : /\ e.index \in 1 .. m
                               /\ \E d \in disputes : src[e.index] = d.index /\ e.id = d.id
       /\ \A d \in disputes : \E e \in disputes' : src[e.index] = d.index
  <2>1. \A d \in disputes : d \in IndexRecords /\ d.index \in 1 .. n
    BY <1>1 DEF DisputesOK
  <2>. QED BY <1>2, <1>11, <2>1
<1>14. lastConfirmed' # Nobody =>
          /\ lastConfirmed # Nobody /\ lastConfirmed' \in IndexRecords /\ lastConfirmed'.index \in 1 .. m
          /\ src[lastConfirmed'.index] = lastConfirmed.index /\ lastConfirmed'.id = lastConfirmed.id
  BY <1>1, <1>2, <1>11 DEF ConfirmedOK
<1>15. m \in Nat /\ m = Len(list') /\ m <= MaxCount /\ list' \in Seq(MilestoneRecords)
  BY <1>2, <1>3, <1>9
<1>. HIDE DEF m
<1>16. /\ \A a, b \in 1 .. m : src[a] = src[b] /\ src[a] # 0 => a = b
       /\ \A a, b \in 1 .. m : src[a] = 0 /\ src[b] = 0 /\ list'[a].id = list'[b].id => a = b
  BY <1>10
<1>17. Rearranged(src, m)
  BY <1>10, <1>12, <1>13, <1>14, <1>15, <1>16 DEF Rearranged
<1>. QED BY <1>1, <1>15, <1>17, RearrangedKeeps

(* A status changes, nothing moves. *)
LEMMA StatusChanges ==
    ASSUME ListOK, NEW i \in 1 .. Len(list), NEW s \in Statuses, MilestoneStatus(i, s)
    PROVE  /\ ListOK' /\ Len(list') = Len(list)
           /\ \A j \in 1 .. Len(list) :
                 list'[j].id = list[j].id /\ list'[j].status = IF j = i THEN s ELSE list[j].status
<1>. DEFINE n == Len(list)
            R == MilestoneRecords
            new(j) == IF j = i THEN [list[j] EXCEPT !.status = s] ELSE list[j]
<1>1. /\ n \in Nat /\ DOMAIN list = 1 .. n /\ n <= MaxCount
      /\ \A j \in 1 .. n : list[j] \in R
  BY ListFacts
<1>2. list' = [j \in 1 .. n |-> new(j)]
  BY <1>1 DEF MilestoneStatus
<1>3. ASSUME NEW j \in 1 .. n
      PROVE  /\ new(j) \in R /\ new(j).id = list[j].id
             /\ new(j).status = IF j = i THEN s ELSE list[j].status
  <2>. DEFINE a == list[j]
  <2>1. a \in R
    BY <1>1
  <2>. HIDE DEF a
  <2>2. [a EXCEPT !.status = s] \in R /\ [a EXCEPT !.status = s].id = a.id /\ [a EXCEPT !.status = s].status = s
    BY <2>1 DEF MilestoneRecords
  <2>. HIDE DEF R
  <2>. QED BY <2>1, <2>2 DEF a
<1>. HIDE DEF new, R, n
<1>4. list' \in Seq(R) /\ Len(list') = n /\ \A j \in 1 .. n : list'[j] = new(j)
  BY <1>1, <1>2, <1>3
<1>5. \A j \in 1 .. n : list'[j].id = list[j].id /\ list'[j].status = IF j = i THEN s ELSE list[j].status
  BY <1>3, <1>4
<1>6. \A a, b \in 1 .. n : list[a].id = list[b].id => a = b
  BY DEF ListOK, n
<1>7. \A a, b \in 1 .. n : list'[a].id = list'[b].id => a = b
  BY <1>5, <1>6
<1>8. ListOK'
  BY <1>1, <1>4, <1>7 DEF ListOK, R
<1>. QED BY <1>4, <1>5, <1>8 DEF n

LEMMA KeyedUntouched ==
    ASSUME KeyedOK, Len(list') = Len(list), \A j \in 1 .. Len(list) : list'[j].id = list[j].id,
           keyed' = keyed, ListOK
    PROVE  KeyedOK'
<1>1. ASSUME NEW k \in Moved, NEW j \in Slots, keyed'[k][j] # Nobody
      PROVE  j <= Len(list') /\ keyed'[k][j] = list'[j].id
  <2>1. j <= Len(list) /\ keyed[k][j] = list[j].id
    BY <1>1 DEF KeyedOK
  <2>2. j \in 1 .. Len(list)
    BY <2>1, ListFacts DEF Slots
  <2>. QED BY <2>1, <2>2
<1>. QED BY <1>1 DEF KeyedOK

LEMMA WriteKeeps ==
    ASSUME PlacesOK, NEW k \in Keys, NEW i \in 1 .. Len(list), WriteRecord(k, i)
    PROVE  PlacesOK'
<1>1. /\ list' = list /\ disputes' = disputes /\ lastConfirmed' = lastConfirmed
      /\ keyed' = [keyed EXCEPT ![k][i] = list[i].id]
  BY DEF WriteRecord
<1>2. ListOK /\ KeyedOK /\ DisputesOK /\ ConfirmedOK
  BY DEF PlacesOK
<1>3. i \in Slots /\ list[i].id \in MilestoneIds /\ i <= Len(list)
  BY <1>2, ListFacts
<1>4. ASSUME NEW c \in Moved, NEW j \in Slots
      PROVE  keyed'[c][j] # Nobody => j <= Len(list) /\ keyed'[c][j] = list[j].id
  <2>1. keyed'[c][j] = IF c = k /\ j = i THEN list[i].id ELSE keyed[c][j]
    BY <1>1, <1>2, <1>3, MovedAreKeys DEF KeyedOK
  <2>2. keyed[c][j] # Nobody => j <= Len(list) /\ keyed[c][j] = list[j].id
    BY <1>2 DEF KeyedOK
  <2>. QED BY <1>3, <2>1, <2>2
<1>5. keyed' \in [Keys -> [Slots -> MilestoneIds \cup {Nobody}]]
  BY <1>1, <1>2, <1>3 DEF KeyedOK
<1>6. KeyedOK'
  BY <1>1, <1>4, <1>5 DEF KeyedOK
<1>7. ListOK' /\ DisputesOK' /\ ConfirmedOK'
  BY <1>1, <1>2 DEF ListOK, DisputesOK, ConfirmedOK
<1>. QED BY <1>6, <1>7 DEF PlacesOK

LEMMA ProofKeeps ==
    ASSUME PlacesOK, NEW i \in 1 .. Len(list), SubmitProof(i)
    PROVE  PlacesOK'
<1>1. /\ list[i].status = "Pending" /\ MilestoneStatus(i, "ProofSubmitted")
      /\ keyed' = keyed /\ disputes' = disputes /\ lastConfirmed' = lastConfirmed
  BY DEF SubmitProof, indexVars
<1>2. ListOK /\ KeyedOK /\ DisputesOK /\ ConfirmedOK
  BY DEF PlacesOK
<1>. DEFINE s == "ProofSubmitted"
<1>3. s \in Statuses /\ s # "Disputed" /\ MilestoneStatus(i, s)
  BY <1>1 DEF Statuses
<1>. HIDE DEF s
<1>4. /\ ListOK' /\ Len(list') = Len(list)
      /\ \A j \in 1 .. Len(list) :
            list'[j].id = list[j].id /\ list'[j].status = IF j = i THEN s ELSE list[j].status
  BY <1>2, <1>3, StatusChanges
<1>5. KeyedOK'
  BY <1>1, <1>2, <1>4, KeyedUntouched
<1>6. DisputesOK'
  BY <1>1, <1>2, <1>3, <1>4 DEF DisputesOK
<1>7. ConfirmedOK'
  BY <1>1, <1>2, <1>4 DEF ConfirmedOK
<1>. QED BY <1>4, <1>5, <1>6, <1>7 DEF PlacesOK

LEMMA ConfirmKeeps ==
    ASSUME PlacesOK, NEW i \in 1 .. Len(list), Confirm(i)
    PROVE  PlacesOK'
<1>1. /\ list[i].status = "ProofSubmitted" /\ MilestoneStatus(i, "Confirmed")
      /\ keyed' = keyed /\ disputes' = disputes /\ lastConfirmed' = [index |-> i, id |-> list[i].id]
  BY DEF Confirm
<1>2. ListOK /\ KeyedOK /\ DisputesOK
  BY DEF PlacesOK
<1>. DEFINE s == "Confirmed"
<1>3. s \in Statuses /\ s # "Disputed" /\ MilestoneStatus(i, s)
  BY <1>1 DEF Statuses
<1>. HIDE DEF s
<1>4. /\ ListOK' /\ Len(list') = Len(list)
      /\ \A j \in 1 .. Len(list) :
            list'[j].id = list[j].id /\ list'[j].status = IF j = i THEN s ELSE list[j].status
  BY <1>2, <1>3, StatusChanges
<1>5. KeyedOK'
  BY <1>1, <1>2, <1>4, KeyedUntouched
<1>6. DisputesOK'
  BY <1>1, <1>2, <1>3, <1>4 DEF DisputesOK
<1>7. ConfirmedOK'
  <2>1. i \in Nat /\ list[i].id \in MilestoneIds
    BY <1>2, ListFacts
  <2>. QED BY <1>1, <1>4, <2>1 DEF ConfirmedOK, IndexRecords, s
<1>. QED BY <1>4, <1>5, <1>6, <1>7 DEF PlacesOK

LEMMA DisputeKeeps ==
    ASSUME PlacesOK, NEW i \in 1 .. Len(list), OpenDispute(i)
    PROVE  PlacesOK'
<1>. DEFINE s == "Disputed"
            e == [index |-> i, id |-> list[i].id]
<1>1. /\ list[i].status = "ProofSubmitted" /\ MilestoneStatus(i, s)
      /\ keyed' = keyed /\ lastConfirmed' = lastConfirmed /\ disputes' = disputes \cup {e}
  BY DEF OpenDispute
<1>2. ListOK /\ KeyedOK /\ DisputesOK /\ ConfirmedOK
  BY DEF PlacesOK
<1>3. s \in Statuses
  BY DEF Statuses
<1>4. e \in IndexRecords /\ e.index = i /\ e.id = list[i].id
  BY <1>2, ListFacts DEF IndexRecords
<1>. HIDE DEF s, e
<1>5. /\ ListOK' /\ Len(list') = Len(list)
      /\ \A j \in 1 .. Len(list) :
            list'[j].id = list[j].id /\ list'[j].status = IF j = i THEN s ELSE list[j].status
  BY <1>1, <1>2, <1>3, StatusChanges
<1>6. KeyedOK'
  BY <1>1, <1>2, <1>5, KeyedUntouched
<1>7. DisputesOK'
  BY <1>1, <1>2, <1>4, <1>5 DEF DisputesOK, s
<1>8. ConfirmedOK'
  BY <1>1, <1>2, <1>5 DEF ConfirmedOK
<1>. QED BY <1>5, <1>6, <1>7, <1>8 DEF PlacesOK

LEMMA CloseKeeps ==
    ASSUME PlacesOK, NEW i \in 1 .. Len(list), CloseDispute(i)
    PROVE  PlacesOK'
<1>1. /\ list[i].status = "Disputed" /\ MilestoneStatus(i, "Resolved")
      /\ keyed' = keyed /\ lastConfirmed' = lastConfirmed /\ disputes' = {d \in disputes : d.index # i}
  BY DEF CloseDispute
<1>2. ListOK /\ KeyedOK /\ DisputesOK /\ ConfirmedOK
  BY DEF PlacesOK
<1>. DEFINE s == "Resolved"
<1>3. s \in Statuses /\ s # "Disputed" /\ MilestoneStatus(i, s)
  BY <1>1 DEF Statuses
<1>. HIDE DEF s
<1>4. /\ ListOK' /\ Len(list') = Len(list)
      /\ \A j \in 1 .. Len(list) :
            list'[j].id = list[j].id /\ list'[j].status = IF j = i THEN s ELSE list[j].status
  BY <1>2, <1>3, StatusChanges
<1>5. KeyedOK'
  BY <1>1, <1>2, <1>4, KeyedUntouched
<1>6. DisputesOK'
  BY <1>1, <1>2, <1>3, <1>4 DEF DisputesOK
<1>7. ConfirmedOK'
  BY <1>1, <1>2, <1>4 DEF ConfirmedOK
<1>. QED BY <1>4, <1>5, <1>6, <1>7 DEF PlacesOK

(* The pending proposals and the money. *)

LEMMA SplitWeighs ==
    ASSUME TermsInv, NEW side, ApproveSplit(side)
    PROVE  weights' \in Seq(Int) /\ total' = total /\ deposited' = deposited
<1>. DEFINE i == split.index
            parts == split.parts
<1>1. /\ ValidSplit(i, parts) /\ weights' = Distributed(i, parts) /\ total' = total /\ deposited' = deposited
      /\ i \in Nat \ {0} /\ parts \in Seq(Int) /\ weights \in Seq(Int)
  BY DEF ApproveSplit, TermsInv, OffersOK, MoneyOK
<1>2. /\ Len(parts) # 0 /\ (weights # <<>> => i \in 1 .. Len(weights))
      /\ \A p \in 1 .. Len(parts) : parts[p] >= 1
  <2>1. /\ Len(parts) >= 2 /\ Len(parts) \in Nat /\ DOMAIN parts = 1 .. Len(parts) /\ Len(weights) \in Nat
        /\ \A p \in DOMAIN parts : parts[p] >= MinPercent /\ parts[p] \in Int
        /\ (weights # <<>> => i <= Len(weights))
    BY <1>1, LenProperties DEF ValidSplit
  <2>2. MinPercent >= 1 /\ MinPercent \in Nat
    BY TermsAssumption
  <2>. HIDE DEF i, parts
  <2>. QED BY <1>1, <2>1, <2>2
<1>. HIDE DEF i, parts
<1>3. CASE weights = <<>>
  <2>1. weights' = weights
    BY <1>1, <1>3 DEF Distributed
  <2>. QED BY <1>1, <2>1
<1>4. CASE weights # <<>>
  <2>. DEFINE w == weights[i]
              a == Apportioned(w, parts)
              u == ReplaceBySeq(weights, i, a)
  <2>1. w \in Int /\ i \in 1 .. Len(weights)
    BY <1>1, <1>2, <1>4, LenProperties
  <2>. HIDE DEF w
  <2>2. a \in Seq(Int)
    BY <1>1, <1>2, <2>1, ApportionedTyped
  <2>. HIDE DEF a
  <2>3. u \in Seq(Int)
    BY <1>1, <2>1, <2>2, ReplaceProperties
  <2>4. weights' = u
    BY <1>1, <1>4 DEF Distributed, a, w
  <2>. QED BY <1>1, <2>3, <2>4
<1>. QED BY <1>3, <1>4

LEMMA AcceptPays ==
    ASSUME TermsInv, NEW side, AcceptAppend(side)
    PROVE  LET N == total + append.amount
               kept == Kept(N)
           IN  /\ total' = N /\ total' \in Nat \ {0} /\ deposited' \in Int /\ deposited' >= total'
               /\ weights' \in Seq(Int)
               /\ \A i \in 1 .. Len(list) : i <= Len(weights') /\ weights'[i] = WeightAfter(i, N)
<1>. DEFINE N == total + append.amount
            kept == Kept(N)
            rest == 10000 - SumOf(kept)
<1>1. /\ append # Nobody /\ total' = N /\ weights' = Append(kept, rest)
      /\ deposited' = IF append.by = "buyer" THEN deposited ELSE deposited + append.amount
      /\ ListOK /\ MoneyOK
  BY DEF AcceptAppend, TermsInv, PlacesOK
<1>2. /\ kept \in Seq(Int) /\ Len(kept) = Len(list) /\ Len(list) \in Nat
      /\ \A i \in 1 .. Len(list) : kept[i] = WeightAfter(i, N)
  BY <1>1, KeptTyped, ListFacts
<1>3. /\ total \in Nat \ {0} /\ deposited \in Int /\ deposited >= total /\ append.amount \in Nat \ {0}
      /\ (append.by = "buyer" => deposited >= total + append.amount)
  BY <1>1 DEF MoneyOK
<1>4. /\ total' \in Nat \ {0} /\ deposited' \in Int /\ deposited' >= total'
  BY <1>1, <1>3
<1>. HIDE DEF kept
<1>5. rest \in Int
  BY <1>2, SumOfIsSum
<1>. HIDE DEF rest, N
<1>6. /\ weights' \in Seq(Int) /\ Len(weights') = Len(kept) + 1
      /\ \A i \in 1 .. Len(kept) : weights'[i] = kept[i]
  BY <1>1, <1>2, <1>5, AppendProperties
<1>7. \A i \in 1 .. Len(list) : i <= Len(weights') /\ weights'[i] = WeightAfter(i, N)
  BY <1>2, <1>6
<1>. QED BY <1>1, <1>4, <1>6, <1>7 DEF N

(* Every step keeps the invariant, and where it adds a milestone it is the
   acceptance of one. *)
LEMMA TermsUntouched ==
    ASSUME TermsInv, UNCHANGED termsVars
    PROVE  TermsInv' /\ total' = total
<1>1. /\ list' = list /\ UNCHANGED indexVars
      /\ total' = total /\ deposited' = deposited /\ weights' = weights
      /\ merge' = merge /\ split' = split /\ append' = append
  BY DEF termsVars, moneyTerms, dealTerms
<1>2. PlacesOK'
  BY <1>1, PlacesUntouched DEF TermsInv
<1>3. OffersOK' /\ MoneyOK'
  BY <1>1 DEF TermsInv, OffersOK, MoneyOK
<1>. QED BY <1>1, <1>2, <1>3 DEF TermsInv

LEMMA ProposalsKeep ==
    ASSUME TermsInv,
           \/ \E side \in Sides, i \in DOMAIN list : ProposeMerge(side, i)
           \/ \E side \in Sides, i \in DOMAIN list :
                  \E parts \in PartsOf(list[i].percent) : ProposeSplit(side, i, parts)
           \/ \E side \in Sides, amount \in NewAmounts : ProposeAppend(side, amount)
           \/ CancelAppend
    PROVE  TermsInv' /\ total' = total
<1>0. PlacesOK /\ OffersOK /\ MoneyOK /\ ListOK
  BY DEF TermsInv, PlacesOK
<1>1. /\ DOMAIN list = 1 .. Len(list) /\ Len(list) \in Nat
      /\ \A i \in DOMAIN list : i \in Nat \ {0} /\ list[i].percent \in Int
  BY <1>0, ListFacts
<1>2. CASE \E side \in Sides, i \in DOMAIN list : ProposeMerge(side, i)
  <2>1. PICK side \in Sides, i \in DOMAIN list : ProposeMerge(side, i)
    BY <1>2
  <2>2. /\ list' = list /\ UNCHANGED indexVars /\ total' = total /\ deposited' = deposited
        /\ weights' = weights /\ split' = split /\ append' = append
        /\ merge' = [by |-> side, first |-> i]
    BY <2>1 DEF ProposeMerge, moneyTerms
  <2>3. PlacesOK' /\ MoneyOK'
    BY <1>0, <2>2, PlacesUntouched DEF MoneyOK
  <2>4. OffersOK'
    BY <1>0, <1>1, <2>2 DEF OffersOK
  <2>. QED BY <2>2, <2>3, <2>4 DEF TermsInv
<1>3. CASE \E side \in Sides, i \in DOMAIN list :
              \E parts \in PartsOf(list[i].percent) : ProposeSplit(side, i, parts)
  <2>1. PICK side \in Sides, i \in DOMAIN list :
                \E parts \in PartsOf(list[i].percent) : ProposeSplit(side, i, parts)
    BY <1>3
  <2>2. PICK parts \in PartsOf(list[i].percent) : ProposeSplit(side, i, parts)
    BY <2>1
  <2>3. /\ list' = list /\ UNCHANGED indexVars /\ total' = total /\ deposited' = deposited
        /\ weights' = weights /\ merge' = merge /\ append' = append
        /\ split' = [by |-> side, index |-> i, parts |-> parts]
    BY <2>2 DEF ProposeSplit, moneyTerms
  <2>4. PlacesOK' /\ MoneyOK'
    BY <1>0, <2>3, PlacesUntouched DEF MoneyOK
  <2>5. parts \in Seq(Int)
    <3>. DEFINE p == list[i].percent
    <3>1. p \in Int /\ parts \in PartsOf(p)
      BY <1>1
    <3>. HIDE DEF p
    <3>. DEFINE half == p \div 2
                third == p \div 3
                b == p - half
                c == p - 2 * third
    <3>2. half \in Int /\ third \in Int /\ b \in Int /\ c \in Int
      BY <3>1
    <3>3. parts = <<half, b>> \/ parts = <<third, third, c>>
      BY <3>1 DEF PartsOf
    <3>. HIDE DEF half, third, b, c
    <3>4. <<half, b>> \in Seq(Int) /\ <<third, third, c>> \in Seq(Int)
      BY ONLY <3>2
    <3>. QED BY ONLY <3>3, <3>4
  <2>6. split'.index = i /\ split'.parts = parts
    BY <2>3
  <2>7. OffersOK'
    BY <1>0, <1>1, <2>3, <2>5, <2>6 DEF OffersOK
  <2>. QED BY <2>3, <2>4, <2>7 DEF TermsInv
<1>4. CASE \E side \in Sides, amount \in NewAmounts : ProposeAppend(side, amount)
  <2>1. PICK side \in Sides, amount \in NewAmounts : ProposeAppend(side, amount)
    BY <1>4
  <2>2. /\ list' = list /\ UNCHANGED indexVars /\ total' = total
        /\ deposited' = (IF side = "buyer" THEN deposited + amount ELSE deposited)
        /\ weights' = weights /\ merge' = merge /\ split' = split
        /\ append' = [by |-> side, amount |-> amount]
    BY <2>1 DEF ProposeAppend
  <2>3. PlacesOK' /\ OffersOK'
    BY <1>0, <2>2, PlacesUntouched DEF OffersOK
  <2>4. amount \in Nat \ {0}
    BY TermsAssumption
  <2>5. append'.amount = amount /\ append'.by = side
    BY <2>2
  <2>6. MoneyOK'
    <3>1. total \in Nat \ {0} /\ deposited \in Int /\ deposited >= total
      BY <1>0 DEF MoneyOK
    <3>2. /\ deposited' \in Int /\ deposited' >= total
          /\ (side = "buyer" => deposited' >= total + amount)
      BY <2>2, <2>4, <3>1
    <3>3. weights' \in Seq(Int)
      BY <1>0, <2>2 DEF MoneyOK
    <3>. QED BY <2>2, <2>4, <2>5, <3>1, <3>2, <3>3 DEF MoneyOK
  <2>. QED BY <2>2, <2>3, <2>6 DEF TermsInv
<1>5. CASE CancelAppend
  <2>1. /\ list' = list /\ UNCHANGED indexVars /\ total' = total /\ append # Nobody /\ append' = Nobody
        /\ deposited' = (IF append.by = "buyer" THEN deposited - append.amount ELSE deposited)
        /\ weights' = weights /\ merge' = merge /\ split' = split
    BY <1>5 DEF CancelAppend
  <2>2. PlacesOK' /\ OffersOK'
    BY <1>0, <2>1, PlacesUntouched DEF OffersOK
  <2>3. MoneyOK'
    BY <1>0, <2>1 DEF MoneyOK
  <2>. QED BY <2>1, <2>2, <2>3 DEF TermsInv
<1>. QED BY <1>2, <1>3, <1>4, <1>5

LEMMA LifeKeeps ==
    ASSUME TermsInv, NEW i \in DOMAIN list,
           \/ \E k \in Moved : WriteRecord(k, i)
           \/ AttachBol(i) \/ SubmitProof(i) \/ Confirm(i) \/ OpenDispute(i) \/ CloseDispute(i)
    PROVE  TermsInv' /\ total' = total
<1>0. PlacesOK /\ OffersOK /\ MoneyOK
  BY DEF TermsInv
<1>1. i \in 1 .. Len(list)
  BY <1>0, ListFacts DEF PlacesOK
<1>2. PlacesOK'
  <2>1. (\E k \in Moved : WriteRecord(k, i)) \/ AttachBol(i) => \E k \in Keys : WriteRecord(k, i)
    BY MovedAreKeys DEF AttachBol, Keys
  <2>. QED BY <1>0, <1>1, <2>1, WriteKeeps, ProofKeeps, ConfirmKeeps, DisputeKeeps, CloseKeeps, Zenon
<1>3. UNCHANGED moneyTerms /\ UNCHANGED dealTerms
  BY DEF WriteRecord, AttachBol, SubmitProof, Confirm, OpenDispute, CloseDispute
<1>4. /\ total' = total /\ deposited' = deposited /\ weights' = weights
      /\ merge' = merge /\ split' = split /\ append' = append
  BY <1>3 DEF moneyTerms, dealTerms
<1>5. OffersOK' /\ MoneyOK'
  BY <1>0, <1>4 DEF OffersOK, MoneyOK
<1>. QED BY <1>2, <1>4, <1>5 DEF TermsInv

LEMMA AgreedKeeps ==
    ASSUME TermsInv, NEW side, ApproveMerge(side) \/ ApproveSplit(side) \/ AcceptAppend(side)
    PROVE  TermsInv' /\ (total' # total => AcceptAppend(side))
<1>0. PlacesOK /\ OffersOK /\ MoneyOK
  BY DEF TermsInv
<1>1. CASE ApproveMerge(side)
  <2>1. PlacesOK'
    BY <1>1, MergeKeeps
  <2>2. /\ total' = total /\ deposited' = deposited /\ weights' = weights
        /\ merge' = Nobody /\ split' = split /\ append' = append
    BY <1>1 DEF ApproveMerge, moneyTerms
  <2>3. OffersOK' /\ MoneyOK'
    BY <1>0, <2>2 DEF OffersOK, MoneyOK
  <2>. QED BY <2>1, <2>2, <2>3 DEF TermsInv
<1>2. CASE ApproveSplit(side)
  <2>1. PlacesOK'
    BY <1>2, SplitKeeps
  <2>2. split' = Nobody /\ merge' = merge /\ append' = append
    BY <1>2 DEF ApproveSplit
  <2>3. weights' \in Seq(Int) /\ total' = total /\ deposited' = deposited
    BY <1>2, SplitWeighs
  <2>4. OffersOK' /\ MoneyOK'
    BY <1>0, <2>2, <2>3 DEF OffersOK, MoneyOK
  <2>. QED BY <2>1, <2>3, <2>4 DEF TermsInv
<1>3. CASE AcceptAppend(side)
  <2>1. PlacesOK'
    BY <1>3, AcceptKeeps
  <2>2. append' = Nobody /\ merge' = merge /\ split' = split
    BY <1>3 DEF AcceptAppend
  <2>3. /\ total' \in Nat \ {0} /\ deposited' \in Int /\ deposited' >= total' /\ weights' \in Seq(Int)
    BY <1>3, AcceptPays
  <2>4. OffersOK' /\ MoneyOK'
    BY <1>0, <2>2, <2>3 DEF OffersOK, MoneyOK
  <2>. QED BY <1>3, <2>1, <2>4 DEF TermsInv
<1>. QED BY <1>1, <1>2, <1>3

LEMMA TermsStep ==
    ASSUME TermsInv, [TermsNext]_termsVars
    PROVE  TermsInv' /\ (total' # total => \E side \in Sides : AcceptAppend(side))
<1>1. CASE UNCHANGED termsVars
  BY <1>1, TermsUntouched
<1>2. CASE \E side \in Sides : ApproveMerge(side) \/ ApproveSplit(side) \/ AcceptAppend(side)
  <2>1. PICK side \in Sides : ApproveMerge(side) \/ ApproveSplit(side) \/ AcceptAppend(side)
    BY <1>2
  <2>2. TermsInv' /\ (total' # total => AcceptAppend(side))
    BY <2>1, AgreedKeeps
  <2>. QED BY <2>2
<1>3. CASE \E i \in DOMAIN list : \/ \E k \in Moved : WriteRecord(k, i)
                                  \/ AttachBol(i)
                                  \/ SubmitProof(i) \/ Confirm(i) \/ OpenDispute(i) \/ CloseDispute(i)
  <2>1. TermsInv' /\ total' = total
    BY <1>3, LifeKeeps, Zenon
  <2>. QED BY <2>1
<1>4. CASE \/ \E side \in Sides, i \in DOMAIN list : ProposeMerge(side, i)
           \/ \E side \in Sides, i \in DOMAIN list :
                  \E parts \in PartsOf(list[i].percent) : ProposeSplit(side, i, parts)
           \/ \E side \in Sides, amount \in NewAmounts : ProposeAppend(side, amount)
           \/ CancelAppend
  <2>1. TermsInv' /\ total' = total
    BY <1>4, ProposalsKeep, Zenon
  <2>. QED BY <2>1
<1>. QED BY <1>1, <1>2, <1>3, <1>4, Zenon DEF TermsNext

LEMMA TermsInvariant == TermsSpec => []TermsInv
<1>1. TermsInv /\ [TermsNext]_termsVars => TermsInv'
  BY TermsStep
<1>. QED BY <1>1, TermsInitially, PTL DEF TermsSpec

(* RecordsFollow: whatever is merged, split or added (shift_milestone_storage_up
   and _down), every record under a key that per_milestone_keys lists, every
   dispute and the last confirmation still belong to the milestone they were made
   for.  The bill of lading is not among them, and its hash stays behind. *)
THEOREM RecordsAlwaysFollow == TermsSpec => []RecordsFollow
<1>1. TermsInv => RecordsFollow
  BY PlacesFollow DEF TermsInv
<1>. QED BY <1>1, TermsInvariant, PTL

(* A weight rounded up is worth no less of the larger total. *)
LEMMA CeilingCovers ==
    ASSUME NEW x \in Int, NEW n \in Nat, n > 0, NEW w, w = (x * 10000 + n - 1) \div n
    PROVE  (n * w) \div 10000 >= x
<1>. DEFINE y == x * 10000 + n - 1
            r == y % n
            p == n * w
            q == p \div 10000
            s == p % 10000
<1>1. y \in Int /\ w = y \div n
  OBVIOUS
<1>. HIDE DEF y
<1>2. w \in Int /\ r \in 0 .. (n - 1) /\ y = n * w + r
  BY <1>1, QuotientRemainder
<1>. HIDE DEF r
<1>3. p \in Int /\ y = p + r
  BY <1>2
<1>. HIDE DEF p
<1>4. q \in Int /\ s \in Int /\ s <= 9999 /\ p = 10000 * q + s
  BY <1>3
<1>. HIDE DEF q, s
<1>5. 10000 * q + s >= 10000 * x
  BY <1>2, <1>3, <1>4 DEF y
<1>6. ASSUME q < x PROVE FALSE
  <2>1. q + 1 <= x
    BY <1>4, <1>6
  <2>2. 10000 * q + 10000 <= 10000 * x
    BY <1>4, <2>1
  <2>. QED BY <1>4, <1>5, <2>2
<1>7. q >= x
  BY <1>4, <1>6
<1>. QED BY <1>7 DEF q, p

(* AppendKeepsWorth: a milestone is added (accept_milestone_append) only when
   the contract holds all it promises, and the weights the earlier ones then get
   are worth no less of the new total. *)
THEOREM AppendsKeepWorth == TermsSpec => AppendKeepsWorth
<1>. DEFINE Kind == Len(list') = Len(list) + 1 /\ total' > total
            Promise == /\ deposited' >= total'
                       /\ \A i \in DOMAIN list : Worth(i)' >= Worth(i)
<1>1. ASSUME TermsInv, [TermsNext]_termsVars, Kind
      PROVE  Promise
  <2>0. ListOK /\ MoneyOK
    BY <1>1 DEF TermsInv, PlacesOK
  <2>1. total \in Nat
    BY <2>0 DEF MoneyOK
  <2>2. total' # total
    <3>1. total' > total
      BY <1>1
    <3>. QED BY <2>1, <3>1
  <2>3. PICK side \in Sides : AcceptAppend(side)
    BY <1>1, <2>2, TermsStep
  <2>. DEFINE N == total + append.amount
  <2>4. /\ total' = N /\ total' \in Nat \ {0} /\ deposited' >= total'
        /\ \A i \in 1 .. Len(list) : i <= Len(weights') /\ weights'[i] = WeightAfter(i, N)
    BY <1>1, <2>3, AcceptPays
  <2>5. ASSUME NEW i \in DOMAIN list PROVE Worth(i)' >= Worth(i)
    <3>1. i \in 1 .. Len(list)
      BY <2>0, ListFacts
    <3>2. Worth(i)' = (total' * weights'[i]) \div 10000
      BY <2>4, <3>1 DEF Worth
    <3>3. Worth(i) \in Int
      BY <2>0, <3>1, WorthTyped
    <3>4. total' = N /\ N \in Nat /\ N > 0 /\ weights'[i] = WeightAfter(i, N)
      BY <2>4, <3>1
    <3>. DEFINE x == Worth(i)
                z == Worth(i)'
    <3>. HIDE DEF N, z
    <3>. DEFINE w == weights'[i]
    <3>5. WeightAfter(i, N) = (x * 10000 + N - 1) \div N
      BY DEF WeightAfter
    <3>. HIDE DEF x
    <3>6. w = (x * 10000 + N - 1) \div N /\ z = (N * w) \div 10000
      BY <3>2, <3>4, <3>5 DEF z
    <3>7. x \in Int
      BY <3>3 DEF x
    <3>. HIDE DEF w
    <3>8. (N * w) \div 10000 >= x
      BY <3>4, <3>6, <3>7, CeilingCovers
    <3>9. z >= x
      BY <3>6, <3>8
    <3>. QED BY <3>9 DEF z, x
  <2>. QED BY <2>4, <2>5
<1>2. TermsInv /\ [TermsNext]_termsVars => [Kind => Promise]_termsVars
  <2>. HIDE DEF Kind, Promise
  <2>. QED BY <1>1
<1>. QED BY <1>2, TermsInvariant, PTL DEF TermsSpec, AppendKeepsWorth
=============================================================================
