----------------------------- MODULE CustodyLog -----------------------------
(* The chain-of-custody log of a milestone (contracts/chainsetttle/src/
   custody_log.rs).  An entry is its handoff type: custodian, evidence, ledger,
   location and notes travel with it and decide nothing. *)
EXTENDS Naturals, Sequences, SequencesExt

CONSTANTS
    HandoffTypes,   \* "Transferred", "Received" and any other types
    DefaultEntries, \* DEFAULT_MAX_ENTRIES
    EntryLimits,    \* limits tried for a log
    HardLimit       \* the largest limit accepted

ASSUME CustodyAssumption ==
    /\ {"Transferred", "Received"} \subseteq HandoffTypes
    /\ DefaultEntries \in 1..HardLimit /\ EntryLimits \subseteq Nat

VARIABLES custodyLog, maxEntries
custodyVars == <<custodyLog, maxEntries>>

RecordHandoff(type) ==
    /\ Len(custodyLog) < maxEntries
    /\ custodyLog' = Append(custodyLog, type)
    /\ UNCHANGED maxEntries

SetMaxEntries(n) ==
    /\ n >= 1 /\ n <= HardLimit
    /\ maxEntries' = n
    /\ UNCHANGED custodyLog

ClearCustodyLog == custodyLog' = <<>> /\ UNCHANGED maxEntries

(* Mutant: a second transfer before the receipt is not noticed. *)
ScanLenient(state, type) ==
    CASE type = "Transferred" -> "awaited"
      [] type = "Received" -> "free"
      [] OTHER -> state

(* verify_custody_chain: one pass that remembers whether a receipt is awaited;
   "broken" stands for the early return at a second transfer. *)
Scan(state, type) ==
    IF state = "broken" THEN "broken"
    ELSE CASE type = "Transferred" -> IF state = "awaited" THEN "broken" ELSE "awaited"
           [] type = "Received" -> "free"
           [] OTHER -> state

VerifyCustodyChain(log) == FoldLeft(Scan, "free", log) = "free"

CustodyInit == custodyLog = <<>> /\ maxEntries = DefaultEntries
CustodyNext ==
    \/ \E type \in HandoffTypes : RecordHandoff(type)
    \/ \E n \in EntryLimits : SetMaxEntries(n)
    \/ ClearCustodyLog
CustodySpec == CustodyInit /\ [][CustodyNext]_custodyVars

-----------------------------------------------------------------------------
(* The verdict on a log is what it claims: every transfer is followed by its own
   receipt, before the next transfer and before the log ends. *)
ChainVerdictExact ==
    VerifyCustodyChain(custodyLog) <=>
        \A i \in 1..Len(custodyLog) : custodyLog[i] = "Transferred" =>
            \E j \in (i + 1)..Len(custodyLog) :
                /\ custodyLog[j] = "Received"
                /\ \A k \in (i + 1)..(j - 1) : custodyLog[k] # "Transferred"
=============================================================================
