--------------------------- MODULE ShipmentEscrow ---------------------------
(***************************************************************************)
(* The life of a shipment's escrow: funding, proofs, confirmation,         *)
(* disputes and every way a shipment closes.  One action stands for one    *)
(* public entry point of contracts/chainsetttle/src/lib.rs; an entry point *)
(* that panics rolls back, so its panics are the guards of its action.     *)
(*                                                                         *)
(* A milestone's weight is its share of the shipment's total amount.  Who  *)
(* on the receiving side gets which part of a weight (platform, logistics, *)
(* referral and arbiter fees, payees) is left out: a transfer of weight is *)
(* an outflow of the contract's token balance.  The options of other       *)
(* modules (advances, collateral, panels, mediation, grades, partial       *)
(* quantities, retainage, shipment pause) are those of a shipment that     *)
(* does not opt in.  Ledger numbers and timestamps share the clock now.    *)
(***************************************************************************)
EXTENDS Integers, FiniteSets, Sequences, FiniteSetsExt

CONSTANTS
    Shipments,          \* shipment identifiers
    NumMilestones,      \* milestones of each shipment
    TotalAmount,        \* total_amount of each shipment
    Percent,            \* payment_percent, per milestone
    Deadline,           \* deadline_ledger, per milestone (0: none)
    PenaltyBps,         \* late_penalty_bps_per_ledger
    Bond,               \* dispute_bond_amount
    Sequential,         \* milestone_mode = Sequential
    MaxEvidence,        \* MaxEvidencePerMilestone
    Holdback,           \* holdback_ledgers (0: pay at confirmation)
    AutoWindow,         \* effective auto-confirmation window (0: off)
    ConfirmCooldown,    \* confirmation cooldown (0: off)
    DisputeCooldown,    \* dispute_cooldown_ledgers (0: off)
    FilingWindow,       \* DisputeFilingWindowLedgers (0: off)
    MaxOpenDisputes,    \* MaxConcurrentDisputes
    BuyerCap,           \* BuyerMaxConcurrentDisputes (0: not configured)
    ContestedPercents,  \* percentages a buyer may contest
    FinalityDelay,      \* ResolutionFinalityDelayLedgers (0: off)
    AppealWindow,       \* AppealWindowLedgers (0: off)
    DisputeTimeout,     \* dispute_timeout_seconds (0: off)
    DefaultToSupplier,  \* default_resolution = Supplier
    ResponseDeadline,   \* CancelPolicy.response_deadline (0: off)
    RefundDeadline,     \* MilestoneTimestampDeadlines, per milestone (0: none)
    RecoveryThreshold,  \* RECOVERY_THRESHOLD ledgers
    Arbiters, Agreed,   \* arbiter addresses; the one named at creation
    Pool,               \* the arbiter pool
    Backup,             \* backup arbiter of each shipment, or NoArbiter
    NoArbiter,
    Oracles,            \* members of the shipment's oracle group
    BreachThreshold,    \* breach reports that open a dispute
    BatchLists,         \* index lists callers of batch_confirm_milestones pass
    PausableOps,        \* operations the admin may pause
    AdminActs,          \* TRUE: the admin also pauses and sets compliance holds
    MaxLedger           \* bound on the clock

Milestones == 0 .. NumMilestones - 1
None == 0          \* an absent ledger or timestamp; the clock starts at 1
NoSplit == -1      \* no PendingSplit record

Statuses == {"None", "Active", "Completed", "Cancelled", "Expired"}
MilestoneStatuses ==
    {"Pending", "ProofSubmitted", "ConfirmedHeld", "Confirmed", "Disputed",
     "ResolvedPendingFinality", "Resolved"}
Operations == {"create", "confirm", "dispute", "claim"}

Gross(m) == (TotalAmount * Percent[m]) \div 100

ASSUME SizeAssumption ==
    /\ NumMilestones \in Nat \ {0}
    /\ TotalAmount \in Nat \ {0}
    /\ Percent \in [Milestones -> 1 .. 100]
    /\ MaxLedger \in Nat \ {0}
ASSUME WindowAssumption ==
    /\ Deadline \in [Milestones -> Nat]
    /\ RefundDeadline \in [Milestones -> Nat]
    /\ {PenaltyBps, Bond, MaxEvidence, Holdback, AutoWindow, ConfirmCooldown,
        DisputeCooldown, FilingWindow, MaxOpenDisputes, BuyerCap, FinalityDelay,
        AppealWindow, DisputeTimeout, ResponseDeadline, RecoveryThreshold,
        BreachThreshold} \subseteq Nat
    /\ ContestedPercents \subseteq 1 .. 99
ASSUME ActorAssumption ==
    /\ Agreed \in Arbiters /\ Pool \subseteq Arbiters
    /\ NoArbiter \notin Arbiters /\ Backup \in Arbiters \cup {NoArbiter}
    /\ BatchLists \subseteq Seq(Milestones)
    /\ PausableOps \subseteq Operations
    /\ {Sequential, DefaultToSupplier, AdminActs} \subseteq BOOLEAN

VARIABLES
    now,
    paused, operationPaused, complianceHold,                   \* admin keys
    status, arbiter, openDisputes, lastResolved, createdAt,    \* Shipment
    released,
    mstatus, proofLedger, submittedAt, releaseAfter, evidence, \* Milestone
    openedAt, resolvedAt, appealed, contested, pendingSplit,   \* dispute keys
    reports,
    ruledBy,            \* history: the arbiter of the last ruling
    activeDisputes, statusIndex, completedShipments,           \* indexes
    totalEscrowed, balance,
    paid, refunded      \* history: weight paid out, remainder returned

adminVars == <<paused, operationPaused, complianceHold>>
indexVars == <<activeDisputes, statusIndex, completedShipments>>
moneyVars == <<released, totalEscrowed, balance, paid, refunded>>
proofVars == <<proofLedger, submittedAt, evidence>>
rulingVars == <<resolvedAt, appealed, contested, pendingSplit, ruledBy>>
partyVars == <<arbiter, createdAt>>
vars == <<now, adminVars, status, partyVars, openDisputes, lastResolved, mstatus,
          proofVars, releaseAfter, openedAt, rulingVars, reports, indexVars, moneyVars>>

PerMilestone(S) == [Shipments -> [Milestones -> S]]

(* Every variable keeps the shape of the storage entry it stands for. *)
AdminTyped ==
    /\ now \in 1 .. MaxLedger
    /\ paused \in BOOLEAN /\ operationPaused \subseteq Operations
    /\ complianceHold \subseteq Shipments
ShipmentTyped ==
    /\ status \in [Shipments -> Statuses]
    /\ arbiter \in [Shipments -> Arbiters]
    /\ openDisputes \in [Shipments -> Nat]
    /\ lastResolved \in [Shipments -> Nat] /\ createdAt \in [Shipments -> Nat]
MilestoneTyped ==
    /\ mstatus \in PerMilestone(MilestoneStatuses)
    /\ proofLedger \in PerMilestone(Nat) /\ submittedAt \in PerMilestone(Nat)
    /\ evidence \in PerMilestone(Nat) /\ releaseAfter \in PerMilestone(Nat)
DisputeTyped ==
    /\ openedAt \in PerMilestone(Nat) /\ resolvedAt \in PerMilestone(Nat)
    /\ appealed \in PerMilestone(BOOLEAN)
    /\ contested \in PerMilestone(0 .. 99)
    /\ pendingSplit \in PerMilestone(Nat \cup {NoSplit})
    /\ reports \in PerMilestone(SUBSET Oracles)
    /\ ruledBy \in PerMilestone(Arbiters \cup {NoArbiter})
IndexTyped ==
    /\ activeDisputes \in PerMilestone(Nat)
    /\ statusIndex \in [Statuses -> [Shipments -> Nat]]
    /\ completedShipments \in Nat
MoneyTyped ==
    /\ released \in [Shipments -> Int] /\ refunded \in [Shipments -> Int]
    /\ totalEscrowed \in Nat /\ balance \in Nat
    /\ paid \in PerMilestone(Nat)
TypeOK ==
    AdminTyped /\ ShipmentTyped /\ MilestoneTyped /\ DisputeTyped /\ IndexTyped /\ MoneyTyped

Everywhere(v) == [s \in Shipments |-> [m \in Milestones |-> v]]

Init ==
    /\ now = 1
    /\ paused = FALSE /\ operationPaused = {} /\ complianceHold = {}
    /\ status = [s \in Shipments |-> "None"]
    /\ arbiter = [s \in Shipments |-> Agreed]
    /\ openDisputes = [s \in Shipments |-> 0]
    /\ lastResolved = [s \in Shipments |-> None]
    /\ createdAt = [s \in Shipments |-> None]
    /\ mstatus = Everywhere("Pending")
    /\ proofLedger = Everywhere(None) /\ submittedAt = Everywhere(None)
    /\ evidence = Everywhere(0)
    /\ releaseAfter = Everywhere(None)
    /\ openedAt = Everywhere(None) /\ resolvedAt = Everywhere(None)
    /\ appealed = Everywhere(FALSE) /\ contested = Everywhere(0)
    /\ pendingSplit = Everywhere(NoSplit) /\ ruledBy = Everywhere(NoArbiter)
    /\ reports = Everywhere({})
    /\ activeDisputes = Everywhere(0)
    /\ statusIndex = [st \in Statuses |-> [s \in Shipments |-> 0]]
    /\ completedShipments = 0
    /\ released = [s \in Shipments |-> 0]
    /\ totalEscrowed = 0 /\ balance = 0
    /\ paid = Everywhere(0) /\ refunded = [s \in Shipments |-> 0]

-----------------------------------------------------------------------------
(* Helpers the entry points share. *)

Monus(a, b) == IF a > b THEN a - b ELSE 0

NotPaused == ~paused
(* Faulty: pausing the contract does not pause its operations. *)
OnlyOperationPause(op) == op \notin operationPaused
NotPausedFor(op) == ~paused /\ op \notin operationPaused
Open(s) == status[s] = "Active"
NotOnHold(s) == s \notin complianceHold
Remaining(s) == TotalAmount - released[s]

AllMilestonesDone(ms) == \A m \in Milestones : ms[m] \in {"Confirmed", "Resolved"}

(* The part of a milestone's weight a ruling is about. *)
DisputedAmount(s, m) ==
    IF contested[s][m] = 0 THEN Gross(m) ELSE (Gross(m) * contested[s][m]) \div 100

LatePenalty(s, m) ==
    IF Deadline[m] > 0 /\ proofLedger[s][m] > Deadline[m]
    THEN LET raw == (Gross(m) * (PenaltyBps * (proofLedger[s][m] - Deadline[m]))) \div 10000
             cap == Gross(m) \div 2
         IN IF raw < cap THEN raw ELSE cap
    ELSE 0

AutoConfirmed(s, m) ==
    /\ AutoWindow > 0 /\ proofLedger[s][m] # None
    /\ now >= proofLedger[s][m] + AutoWindow

(* Faulty: nobody waits for the confirmation cooldown. *)
CooledDownAlways(s, m) == TRUE
CooledDown(s, m) == ConfirmCooldown = 0 \/ now >= proofLedger[s][m] + ConfirmCooldown

FilingWindowOpen(m) ==
    Deadline[m] = 0 \/ FilingWindow = 0 \/ now < Deadline[m] + FilingWindow

(* Every listed dispute of these shipments was raised by their one buyer. *)
BuyerOpenDisputes == {d \in Shipments \X Milestones : activeDisputes[d[1]][d[2]] > 0}

SetStatus(s, m, st) == mstatus' = [mstatus EXCEPT ![s][m] = st]

(* Faulty: the transfer does not check the balance. *)
PayOutUnchecked(s, m, weight, bond, credited, descrowed) ==
    /\ balance' = balance - (weight + bond)
    /\ paid' = [paid EXCEPT ![s][m] = @ + weight]
    /\ released' = [released EXCEPT ![s] = @ + credited]
    /\ totalEscrowed' = Monus(totalEscrowed, descrowed)
    /\ UNCHANGED refunded

(* Faulty: the payment is not credited to the shipment. *)
PayOutUncredited(s, m, weight, bond, credited, descrowed) ==
    /\ balance >= weight + bond
    /\ balance' = balance - (weight + bond)
    /\ paid' = [paid EXCEPT ![s][m] = @ + weight]
    /\ totalEscrowed' = Monus(totalEscrowed, descrowed)
    /\ UNCHANGED <<released, refunded>>

(* weight and bond leave the token balance; the shipment records credited as
   released and TotalEscrowed falls by descrowed, never below zero. *)
PayOut(s, m, weight, bond, credited, descrowed) ==
    /\ balance >= weight + bond
    /\ balance' = balance - (weight + bond)
    /\ paid' = [paid EXCEPT ![s][m] = @ + weight]
    /\ released' = [released EXCEPT ![s] = @ + credited]
    /\ totalEscrowed' = Monus(totalEscrowed, descrowed)
    /\ UNCHANGED refunded

MoveStatusIndex(s, from, to) ==
    statusIndex' = [statusIndex EXCEPT ![from][s] = Monus(@, 1), ![to][s] = @ + 1]

(* Faulty: completing leaves the status index behind. *)
CompleteUnindexed(s, ms) ==
    IF AllMilestonesDone(ms)
    THEN /\ status' = [status EXCEPT ![s] = "Completed"]
         /\ completedShipments' = completedShipments + 1
         /\ UNCHANGED statusIndex
    ELSE UNCHANGED <<status, statusIndex, completedShipments>>

(* Faulty: a resolved milestone does not count as done. *)
CompleteIfConfirmed(s, ms) ==
    IF \A m \in Milestones : ms[m] = "Confirmed"
    THEN /\ status' = [status EXCEPT ![s] = "Completed"]
         /\ MoveStatusIndex(s, "Active", "Completed")
         /\ completedShipments' = completedShipments + 1
    ELSE UNCHANGED <<status, statusIndex, completedShipments>>

(* The completion check every settling entry point ends with; ms is the
   shipment's milestone statuses as that entry point sees them. *)
CompleteIfDone(s, ms) ==
    IF AllMilestonesDone(ms)
    THEN /\ status' = [status EXCEPT ![s] = "Completed"]
         /\ MoveStatusIndex(s, "Active", "Completed")
         /\ completedShipments' = completedShipments + 1
    ELSE UNCHANGED <<status, statusIndex, completedShipments>>

(* Faulty: the dispute stays in the list. *)
DelistCounterOnly(s, m) ==
    /\ openDisputes' = [openDisputes EXCEPT ![s] = Monus(@, 1)]
    /\ UNCHANGED activeDisputes

(* An open dispute leaves the counter and the ActiveDisputes list. *)
Delist(s, m) ==
    /\ openDisputes' = [openDisputes EXCEPT ![s] = Monus(@, 1)]
    /\ activeDisputes' = [activeDisputes EXCEPT ![s][m] = 0]

(* Faulty: a ruling forgets the counter. *)
CloseDisputeUncounted(s, m) ==
    /\ activeDisputes' = [activeDisputes EXCEPT ![s][m] = 0]
    /\ lastResolved' = [lastResolved EXCEPT ![s] = now]
    /\ UNCHANGED openDisputes

(* ... and its ledger starts the dispute cooldown. *)
CloseDispute(s, m) ==
    /\ Delist(s, m)
    /\ lastResolved' = [lastResolved EXCEPT ![s] = now]

(* Faulty: the holdback window of a disputed milestone goes on. *)
OpenDisputeHeld(s, m) ==
    /\ openDisputes[s] < MaxOpenDisputes
    /\ openDisputes' = [openDisputes EXCEPT ![s] = @ + 1]
    /\ SetStatus(s, m, "Disputed")
    /\ openedAt' = [openedAt EXCEPT ![s][m] = now]
    /\ activeDisputes' = [activeDisputes EXCEPT ![s][m] = @ + 1]
    /\ UNCHANGED releaseAfter

(* Faulty: nothing records when the dispute was opened. *)
OpenDisputeUndated(s, m) ==
    /\ openDisputes[s] < MaxOpenDisputes
    /\ openDisputes' = [openDisputes EXCEPT ![s] = @ + 1]
    /\ SetStatus(s, m, "Disputed")
    /\ releaseAfter' = [releaseAfter EXCEPT ![s][m] = None]
    /\ activeDisputes' = [activeDisputes EXCEPT ![s][m] = @ + 1]
    /\ UNCHANGED openedAt

(* A dispute is opened: any holdback window ends, the milestone is listed. *)
OpenDispute(s, m) ==
    /\ openDisputes[s] < MaxOpenDisputes
    /\ openDisputes' = [openDisputes EXCEPT ![s] = @ + 1]
    /\ SetStatus(s, m, "Disputed")
    /\ releaseAfter' = [releaseAfter EXCEPT ![s][m] = None]
    /\ openedAt' = [openedAt EXCEPT ![s][m] = now]
    /\ activeDisputes' = [activeDisputes EXCEPT ![s][m] = @ + 1]

(* prune_shipment_auxiliary_keys: the records a closed shipment drops. *)
Pruned(v, s, none, prune) ==
    IF prune THEN [v EXCEPT ![s] = [m \in Milestones |-> none]] ELSE v

PruneAuxiliary(s, prune, rulings, scopes) ==
    /\ openedAt' = Pruned(openedAt, s, None, prune)
    /\ resolvedAt' = Pruned(rulings, s, None, prune)
    /\ appealed' = Pruned(appealed, s, FALSE, prune)
    /\ contested' = Pruned(scopes, s, 0, prune)
    /\ evidence' = Pruned(evidence, s, 0, prune)
    /\ reports' = Pruned(reports, s, {}, prune)
    /\ complianceHold' = IF prune THEN complianceHold \ {s} ELSE complianceHold

(* Every way of closing early pays the unreleased remainder out at once. *)
CloseEarly(s, final) ==
    LET back == Monus(Remaining(s), 0) IN
    /\ Open(s)
    /\ balance >= back
    /\ status' = [status EXCEPT ![s] = final]
    /\ MoveStatusIndex(s, "Active", final)
    /\ balance' = balance - back
    /\ refunded' = [refunded EXCEPT ![s] = @ + back]
    /\ totalEscrowed' = Monus(totalEscrowed, Remaining(s))
    /\ UNCHANGED <<now, paused, operationPaused, partyVars, openDisputes,
                   lastResolved, mstatus, proofLedger, submittedAt, releaseAfter,
                   pendingSplit, ruledBy, completedShipments, released, paid>>

-----------------------------------------------------------------------------
(* Funding and proofs. *)

CreateShipment(s) ==
    /\ NotPausedFor("create")
    /\ status[s] = "None"
    /\ status' = [status EXCEPT ![s] = "Active"]
    /\ createdAt' = [createdAt EXCEPT ![s] = now]
    /\ statusIndex' = [statusIndex EXCEPT !["Active"][s] = @ + 1]
    /\ totalEscrowed' = totalEscrowed + TotalAmount
    /\ balance' = balance + TotalAmount + Bond * NumMilestones
    /\ UNCHANGED <<now, adminVars, arbiter, openDisputes, lastResolved, mstatus,
                   proofVars, releaseAfter, openedAt, rulingVars, reports,
                   activeDisputes, completedShipments, released, paid, refunded>>

SubmitProof(s, m) ==
    /\ NotPaused /\ Open(s)
    /\ mstatus[s][m] = "Pending"
    /\ Sequential /\ m > 0 => mstatus[s][m - 1] \in {"Confirmed", "Resolved"}
    /\ evidence[s][m] < MaxEvidence
    /\ SetStatus(s, m, "ProofSubmitted")
    /\ proofLedger' = [proofLedger EXCEPT ![s][m] = now]
    /\ submittedAt' = [submittedAt EXCEPT ![s][m] = now]
    /\ evidence' = [evidence EXCEPT ![s][m] = @ + 1]
    /\ UNCHANGED <<now, adminVars, status, partyVars, openDisputes, lastResolved,
                   releaseAfter, openedAt, rulingVars, reports, indexVars, moneyVars>>

-----------------------------------------------------------------------------
(* Confirmation. *)

(* Faulty: a closed shipment's milestones can be confirmed. *)
MayConfirmAfterClose(s, m) ==
    /\ NotPausedFor("confirm") /\ NotOnHold(s)
    /\ mstatus[s][m] = "ProofSubmitted"
    /\ CooledDown(s, m)
    /\ ~AutoConfirmed(s, m)

(* The guards of confirm_milestone; the holdback decides what it does. *)
MayConfirm(s, m) ==
    /\ NotPausedFor("confirm") /\ Open(s) /\ NotOnHold(s)
    /\ mstatus[s][m] = "ProofSubmitted"
    /\ CooledDown(s, m)
    /\ ~AutoConfirmed(s, m)

ConfirmMilestone(s, m) ==
    /\ Holdback = 0
    /\ MayConfirm(s, m)
    /\ SetStatus(s, m, "Confirmed")
    /\ LET payment == Gross(m) - LatePenalty(s, m)
       IN PayOut(s, m, Gross(m), 0, payment, payment)
    /\ CompleteIfDone(s, mstatus'[s])
    /\ UNCHANGED <<now, adminVars, partyVars, openDisputes, lastResolved, proofVars,
                   releaseAfter, openedAt, rulingVars, reports, activeDisputes>>

HoldMilestone(s, m) ==
    /\ Holdback > 0
    /\ MayConfirm(s, m)
    /\ SetStatus(s, m, "ConfirmedHeld")
    /\ releaseAfter' = [releaseAfter EXCEPT ![s][m] = now + Holdback]
    /\ UNCHANGED <<now, adminVars, status, partyVars, openDisputes, lastResolved,
                   proofVars, openedAt, rulingVars, reports, indexVars, moneyVars>>

ReleaseHeldPayment(s, m) ==
    /\ NotPaused /\ Open(s)
    /\ mstatus[s][m] = "ConfirmedHeld"
    /\ now >= releaseAfter[s][m]
    /\ SetStatus(s, m, "Confirmed")
    /\ releaseAfter' = [releaseAfter EXCEPT ![s][m] = None]
    /\ PayOut(s, m, Gross(m), 0, Gross(m), Gross(m))
    /\ CompleteIfDone(s, mstatus'[s])
    /\ UNCHANGED <<now, adminVars, partyVars, openDisputes, lastResolved, proofVars,
                   openedAt, rulingVars, reports, activeDisputes>>

(* The weight the listed milestones pay, one payment for each time an index
   occurs in the list. *)
Occurrences(list, m) == Cardinality({i \in DOMAIN list : list[i] = m})
BatchPayment[list \in BatchLists] ==
    LET upTo[n \in 0 .. Len(list)] ==
            IF n = 0 THEN 0 ELSE upTo[n - 1] + Gross(list[n])
    IN upTo[Len(list)]

(* Every listed index is validated before the first one is confirmed. *)
BatchConfirmMilestones(s, list) ==
    LET listed == {list[i] : i \in DOMAIN list} IN
    /\ NotPaused /\ Open(s)
    /\ \A m \in listed : mstatus[s][m] = "ProofSubmitted" /\ CooledDown(s, m)
    /\ mstatus' = [mstatus EXCEPT ![s] =
            [m \in Milestones |-> IF m \in listed THEN "Confirmed" ELSE @[m]]]
    /\ balance >= BatchPayment[list]
    /\ balance' = balance - BatchPayment[list]
    /\ paid' = [paid EXCEPT ![s] =
            [m \in Milestones |-> @[m] + Occurrences(list, m) * Gross(m)]]
    /\ released' = [released EXCEPT ![s] = @ + BatchPayment[list]]
    /\ totalEscrowed' = Monus(totalEscrowed, BatchPayment[list])
    /\ CompleteIfDone(s, mstatus'[s])
    /\ UNCHANGED <<now, adminVars, partyVars, openDisputes, lastResolved, proofVars,
                   releaseAfter, openedAt, rulingVars, reports, activeDisputes, refunded>>

(* Takes the proof ledger away, pays now whatever the holdback. *)
ClaimAutoConfirmation(s, m) ==
    /\ NotPausedFor("claim") /\ Open(s)
    /\ mstatus[s][m] = "ProofSubmitted"
    /\ AutoConfirmed(s, m)
    /\ SetStatus(s, m, "Confirmed")
    /\ proofLedger' = [proofLedger EXCEPT ![s][m] = None]
    /\ LET payment == Gross(m) - LatePenalty(s, m)
       IN PayOut(s, m, Gross(m), 0, payment, payment)
    /\ CompleteIfDone(s, mstatus'[s])
    /\ UNCHANGED <<now, adminVars, partyVars, openDisputes, lastResolved, submittedAt,
                   evidence, releaseAfter, openedAt, rulingVars, reports, activeDisputes>>

-----------------------------------------------------------------------------
(* Disputes. *)

(* Faulty: the buyer may dispute after the review window. *)
MayDisputeLate(s, m) ==
    /\ NotPausedFor("dispute") /\ Open(s) /\ NotOnHold(s)
    /\ mstatus[s][m] \in {"ProofSubmitted", "ConfirmedHeld"}
    /\ DisputeCooldown = 0 \/ lastResolved[s] = None \/ now >= lastResolved[s] + DisputeCooldown
    /\ FilingWindowOpen(m)
    /\ BuyerCap = 0 \/ Cardinality(BuyerOpenDisputes) < BuyerCap

(* Faulty: one dispute more than the cap. *)
MayDisputeOverCap(s, m) ==
    /\ NotPausedFor("dispute") /\ Open(s) /\ NotOnHold(s)
    /\ mstatus[s][m] \in {"ProofSubmitted", "ConfirmedHeld"}
    /\ DisputeCooldown = 0 \/ lastResolved[s] = None \/ now >= lastResolved[s] + DisputeCooldown
    /\ ~AutoConfirmed(s, m)
    /\ FilingWindowOpen(m)
    /\ BuyerCap = 0 \/ Cardinality(BuyerOpenDisputes) <= BuyerCap

(* The guards raise_dispute and raise_partial_dispute share. *)
MayDispute(s, m) ==
    /\ NotPausedFor("dispute") /\ Open(s) /\ NotOnHold(s)
    /\ mstatus[s][m] \in {"ProofSubmitted", "ConfirmedHeld"}
    /\ DisputeCooldown = 0 \/ lastResolved[s] = None \/ now >= lastResolved[s] + DisputeCooldown
    /\ ~AutoConfirmed(s, m)
    /\ FilingWindowOpen(m)
    /\ BuyerCap = 0 \/ Cardinality(BuyerOpenDisputes) < BuyerCap

(* Faulty: the last ruling stays appealable. *)
KeepRuling(s, m) ==
    /\ appealed' = [appealed EXCEPT ![s][m] = FALSE]
    /\ UNCHANGED resolvedAt

(* A fresh dispute cycle forgets the last ruling and its appeal. *)
ForgetRuling(s, m) ==
    /\ resolvedAt' = [resolvedAt EXCEPT ![s][m] = None]
    /\ appealed' = [appealed EXCEPT ![s][m] = FALSE]

RaiseDispute(s, m) ==
    /\ MayDispute(s, m)
    /\ OpenDispute(s, m)
    /\ ForgetRuling(s, m)
    /\ UNCHANGED <<now, adminVars, status, partyVars, lastResolved, proofVars, contested,
                   pendingSplit, ruledBy, reports, statusIndex, completedShipments, moneyVars>>

(* The uncontested share is paid at once; the rest waits for the ruling. *)
RaisePartialDispute(s, m, percent) ==
    LET uncontested == (Gross(m) * (100 - percent)) \div 100 IN
    /\ MayDispute(s, m)
    /\ OpenDispute(s, m)
    /\ ForgetRuling(s, m)
    /\ contested' = [contested EXCEPT ![s][m] = percent]
    /\ PayOut(s, m, uncontested, 0, uncontested, uncontested)
    /\ UNCHANGED <<now, adminVars, status, partyVars, lastResolved, proofVars,
                   pendingSplit, ruledBy, reports, statusIndex, completedShipments>>

(* A repeated report of the same oracle changes nothing.  The report that
   reaches the threshold opens a dispute, or is refused with it. *)
ReportConditionBreach(s, m, oracle) ==
    /\ NotPaused /\ Open(s)
    /\ oracle \notin reports[s][m]
    /\ reports' = [reports EXCEPT ![s][m] = @ \cup {oracle}]
    /\ IF Cardinality(reports'[s][m]) >= BreachThreshold /\ mstatus[s][m] # "Disputed"
       THEN /\ mstatus[s][m] \in {"Pending", "ProofSubmitted", "ConfirmedHeld"}
            /\ OpenDispute(s, m)
       ELSE UNCHANGED <<openDisputes, mstatus, releaseAfter, openedAt, activeDisputes>>
    /\ UNCHANGED <<now, adminVars, status, partyVars, lastResolved, proofVars, rulingVars,
                   statusIndex, completedShipments, moneyVars>>

(* Faulty: a withdrawn dispute keeps its place in the counter. *)
WithdrawUncounted(s, m) ==
    /\ NotPaused /\ Open(s)
    /\ mstatus[s][m] = "Disputed"
    /\ SetStatus(s, m, "ProofSubmitted")
    /\ activeDisputes' = [activeDisputes EXCEPT ![s][m] = 0]
    /\ UNCHANGED <<now, adminVars, status, partyVars, openDisputes, lastResolved, proofVars,
                   releaseAfter, openedAt, rulingVars, reports, statusIndex,
                   completedShipments, moneyVars>>

WithdrawDispute(s, m) ==
    /\ NotPaused /\ Open(s)
    /\ mstatus[s][m] = "Disputed"
    /\ SetStatus(s, m, "ProofSubmitted")
    /\ Delist(s, m)
    /\ UNCHANGED <<now, adminVars, status, partyVars, lastResolved, proofVars, releaseAfter,
                   openedAt, rulingVars, reports, statusIndex, completedShipments, moneyVars>>

(* What resolve_dispute and resolve_dispute_split require and record. *)
Rule(s, m) ==
    /\ NotPausedFor("dispute") /\ Open(s)
    /\ mstatus[s][m] = "Disputed"
    /\ CloseDispute(s, m)
    /\ ruledBy' = [ruledBy EXCEPT ![s][m] = arbiter[s]]

(* A ruling that pays nothing now is parked until its delay is over. *)
Park(s, m, delay) ==
    /\ SetStatus(s, m, "ResolvedPendingFinality")
    /\ releaseAfter' = [releaseAfter EXCEPT ![s][m] = now + delay]
    /\ UNCHANGED moneyVars

(* For the supplier: paid now, or parked for the finality delay.  Against: a
   contested part goes back to the buyer, a full dispute back to Pending. *)
ResolveDispute(s, m, approve) ==
    /\ Rule(s, m)
    /\ IF approve /\ FinalityDelay > 0
       THEN Park(s, m, FinalityDelay)
       ELSE IF approve \/ contested[s][m] > 0
       THEN /\ SetStatus(s, m, "Resolved")
            /\ PayOut(s, m, DisputedAmount(s, m), Bond, DisputedAmount(s, m), 0)
            /\ UNCHANGED releaseAfter
       ELSE /\ SetStatus(s, m, "Pending")
            /\ PayOut(s, m, 0, Bond, 0, 0)
            /\ UNCHANGED releaseAfter
    /\ contested' = [contested EXCEPT ![s][m] = 0]
    /\ pendingSplit' = [pendingSplit EXCEPT ![s][m] = NoSplit]
    /\ resolvedAt' = [resolvedAt EXCEPT ![s][m] = now]
    /\ CompleteIfDone(s, mstatus'[s])
    /\ UNCHANGED <<now, adminVars, partyVars, proofVars, openedAt, appealed, reports>>

(* Faulty: the park ends with the window, on its last ledger. *)
SplitDelayShort(s, m) ==
    IF AppealWindow > 0 /\ ~appealed[s][m] THEN AppealWindow ELSE FinalityDelay

(* A split is parked while it may still be appealed or awaits finality. *)
SplitDelay(s, m) ==
    LET appealable == IF AppealWindow > 0 /\ ~appealed[s][m] THEN AppealWindow + 1 ELSE 0
    IN IF appealable > FinalityDelay THEN appealable ELSE FinalityDelay

ResolveDisputeSplit(s, m) ==
    /\ Rule(s, m)
    /\ IF SplitDelay(s, m) > 0
       THEN /\ Park(s, m, SplitDelay(s, m))
            /\ pendingSplit' = [pendingSplit EXCEPT ![s][m] = DisputedAmount(s, m)]
            /\ resolvedAt' = [resolvedAt EXCEPT ![s][m] = now]
            /\ UNCHANGED <<status, statusIndex, completedShipments, openedAt, appealed,
                           contested, evidence, reports, complianceHold>>
       ELSE /\ SetStatus(s, m, "Resolved")
            /\ PayOut(s, m, DisputedAmount(s, m), Bond, DisputedAmount(s, m), 0)
            /\ CompleteIfDone(s, mstatus'[s])
            /\ PruneAuxiliary(s, AllMilestonesDone(mstatus'[s]),
                              [resolvedAt EXCEPT ![s][m] = now],
                              [contested EXCEPT ![s][m] = 0])
            /\ UNCHANGED <<pendingSplit, releaseAfter>>
    /\ UNCHANGED <<now, paused, operationPaused, partyVars, proofLedger, submittedAt>>

(* Pays a parked ruling: a split what it stored, any other the whole weight. *)
FinalizeDisputeResolution(s, m) ==
    LET isSplit == pendingSplit[s][m] # NoSplit
        payment == IF isSplit THEN pendingSplit[s][m] ELSE Gross(m)
    IN
    /\ NotPaused /\ Open(s)
    /\ mstatus[s][m] = "ResolvedPendingFinality"
    /\ now >= releaseAfter[s][m]
    /\ SetStatus(s, m, "Resolved")
    /\ releaseAfter' = [releaseAfter EXCEPT ![s][m] = None]
    /\ PayOut(s, m, payment, Bond, payment, 0)
    /\ pendingSplit' = [pendingSplit EXCEPT ![s][m] = NoSplit]
    /\ CompleteIfDone(s, mstatus'[s])
    /\ PruneAuxiliary(s, isSplit /\ AllMilestonesDone(mstatus'[s]), resolvedAt,
                      IF isSplit THEN [contested EXCEPT ![s][m] = 0] ELSE contested)
    /\ UNCHANGED <<now, paused, operationPaused, partyVars, openDisputes, lastResolved,
                   proofLedger, submittedAt, ruledBy, activeDisputes>>

(* Faulty: a ruling of a closed shipment can be appealed. *)
MayAppealAfterClose(s, m) ==
    /\ NotPaused
    /\ AppealWindow > 0
    /\ ~appealed[s][m] /\ resolvedAt[s][m] # None
    /\ now <= resolvedAt[s][m] + AppealWindow

(* Faulty: the ruling of an appeal can be appealed again. *)
MayAppealTwice(s, m) ==
    /\ NotPaused /\ Open(s)
    /\ AppealWindow > 0
    /\ resolvedAt[s][m] # None
    /\ now <= resolvedAt[s][m] + AppealWindow

(* Faulty: the window is a ledger too long. *)
MayAppealLate(s, m) ==
    /\ NotPaused /\ Open(s)
    /\ AppealWindow > 0
    /\ ~appealed[s][m] /\ resolvedAt[s][m] # None
    /\ now <= resolvedAt[s][m] + AppealWindow + 1

MayAppeal(s, m) ==
    /\ NotPaused /\ Open(s)
    /\ AppealWindow > 0
    /\ ~appealed[s][m] /\ resolvedAt[s][m] # None
    /\ now <= resolvedAt[s][m] + AppealWindow

(* Reopens a ruling before a pool arbiter other than the shipment's present
   one.  The repetition guard that picks among them is left open. *)
AppealDispute(s, m, other) ==
    /\ MayAppeal(s, m)
    /\ other \in Pool \ {arbiter[s]}
    /\ arbiter' = [arbiter EXCEPT ![s] = other]
    /\ SetStatus(s, m, "Disputed")
    /\ releaseAfter' = [releaseAfter EXCEPT ![s][m] = None]
    /\ openDisputes' = [openDisputes EXCEPT ![s] = @ + 1]
    /\ appealed' = [appealed EXCEPT ![s][m] = TRUE]
    /\ resolvedAt' = [resolvedAt EXCEPT ![s][m] = None]
    /\ pendingSplit' = [pendingSplit EXCEPT ![s][m] = NoSplit]
    /\ UNCHANGED <<now, adminVars, status, createdAt, lastResolved, proofVars, openedAt,
                   contested, ruledBy, reports, indexVars, moneyVars>>

TimedOut(s, m) ==
    /\ NotPausedFor("dispute") /\ Open(s)
    /\ mstatus[s][m] = "Disputed"
    /\ DisputeTimeout > 0 /\ openedAt[s][m] # None
    /\ now >= openedAt[s][m] + DisputeTimeout

(* A backup arbiter who has not taken over yet gets a window of its own. *)
HandOffToBackup(s, m) ==
    /\ TimedOut(s, m)
    /\ Backup # NoArbiter /\ arbiter[s] # Backup
    /\ arbiter' = [arbiter EXCEPT ![s] = Backup]
    /\ openedAt' = [openedAt EXCEPT ![s][m] = now]
    /\ UNCHANGED <<now, adminVars, status, createdAt, openDisputes, lastResolved, mstatus,
                   proofVars, releaseAfter, rulingVars, reports, indexVars, moneyVars>>

(* Settles by the default.  The completion check reads the milestone before
   this call stores it as Resolved; only a supplier outcome counts as released. *)
ResolveDisputeTimeout(s, m) ==
    LET payment == DisputedAmount(s, m) IN
    /\ TimedOut(s, m)
    /\ Backup = NoArbiter \/ arbiter[s] = Backup
    /\ SetStatus(s, m, "Resolved")
    /\ CloseDispute(s, m)
    /\ PayOut(s, m, payment, 0, IF DefaultToSupplier THEN payment ELSE 0, payment)
    /\ contested' = [contested EXCEPT ![s][m] = 0]
    /\ openedAt' = [openedAt EXCEPT ![s][m] = None]
    /\ CompleteIfDone(s, mstatus[s])
    /\ UNCHANGED <<now, adminVars, partyVars, proofVars, releaseAfter, resolvedAt, appealed,
                   pendingSplit, ruledBy, reports>>

-----------------------------------------------------------------------------
(* Closing early. *)

PurgeDisputes(s) ==
    activeDisputes' = [activeDisputes EXCEPT ![s] = [m \in Milestones |-> 0]]

CancelShipment(s) ==
    /\ NotPaused /\ NotOnHold(s)
    /\ \A m \in Milestones : mstatus[s][m] # "Disputed"
    /\ CloseEarly(s, "Cancelled")
    /\ PurgeDisputes(s)
    /\ PruneAuxiliary(s, TRUE, resolvedAt, contested)

(* The response deadline of any one submitted proof is enough. *)
SupplierCancel(s) ==
    /\ NotPaused /\ NotOnHold(s)
    /\ ResponseDeadline > 0
    /\ \E m \in Milestones : /\ mstatus[s][m] = "ProofSubmitted"
                             /\ now >= submittedAt[s][m] + ResponseDeadline
    /\ CloseEarly(s, "Cancelled")
    /\ PurgeDisputes(s)
    /\ PruneAuxiliary(s, FALSE, resolvedAt, contested)

ClaimDeadlineRefund(s, m) ==
    /\ NotPausedFor("claim")
    /\ RefundDeadline[m] > 0 /\ now > RefundDeadline[m]
    /\ mstatus[s][m] \notin {"Confirmed", "Resolved"}
    /\ CloseEarly(s, "Expired")
    /\ PruneAuxiliary(s, FALSE, resolvedAt, contested)
    /\ UNCHANGED activeDisputes

EmergencyRecover(s) ==
    /\ NotPaused
    /\ now > createdAt[s] + RecoveryThreshold
    /\ CloseEarly(s, "Cancelled")
    /\ PruneAuxiliary(s, FALSE, resolvedAt, contested)
    /\ UNCHANGED activeDisputes

-----------------------------------------------------------------------------
(* The admin and the clock. *)

SetComplianceHold(s) ==
    /\ AdminActs
    /\ status[s] # "None" /\ s \notin complianceHold
    /\ complianceHold' = complianceHold \cup {s}
    /\ UNCHANGED <<paused, operationPaused>>

ClearComplianceHold(s) ==
    /\ AdminActs /\ s \in complianceHold
    /\ complianceHold' = complianceHold \ {s}
    /\ UNCHANGED <<paused, operationPaused>>

SetPaused(to) ==
    /\ AdminActs /\ paused # to
    /\ paused' = to
    /\ UNCHANGED <<operationPaused, complianceHold>>

SetOperationPaused(op, to) ==
    /\ AdminActs /\ (op \in operationPaused) # to
    /\ operationPaused' = IF to THEN operationPaused \cup {op} ELSE operationPaused \ {op}
    /\ UNCHANGED <<paused, complianceHold>>

AdminStep ==
    /\ \/ \E s \in Shipments : SetComplianceHold(s) \/ ClearComplianceHold(s)
       \/ \E to \in BOOLEAN : SetPaused(to)
       \/ \E op \in PausableOps, to \in BOOLEAN : SetOperationPaused(op, to)
    /\ UNCHANGED <<now, status, partyVars, openDisputes, lastResolved, mstatus, proofVars,
                   releaseAfter, openedAt, rulingVars, reports, indexVars, moneyVars>>

Tick ==
    /\ now < MaxLedger
    /\ now' = now + 1
    /\ UNCHANGED <<adminVars, status, partyVars, openDisputes, lastResolved, mstatus, proofVars,
                   releaseAfter, openedAt, rulingVars, reports, indexVars, moneyVars>>

-----------------------------------------------------------------------------

MilestoneStep(s, m) ==
    \/ SubmitProof(s, m)
    \/ ConfirmMilestone(s, m) \/ HoldMilestone(s, m) \/ ReleaseHeldPayment(s, m)
    \/ ClaimAutoConfirmation(s, m)
    \/ RaiseDispute(s, m)
    \/ \E percent \in ContestedPercents : RaisePartialDispute(s, m, percent)
    \/ \E oracle \in Oracles : ReportConditionBreach(s, m, oracle)
    \/ WithdrawDispute(s, m)
    \/ \E approve \in BOOLEAN : ResolveDispute(s, m, approve)
    \/ ResolveDisputeSplit(s, m) \/ FinalizeDisputeResolution(s, m)
    \/ \E other \in Arbiters : AppealDispute(s, m, other)
    \/ HandOffToBackup(s, m) \/ ResolveDisputeTimeout(s, m)
    \/ ClaimDeadlineRefund(s, m)

ShipmentStep(s) ==
    \/ CreateShipment(s)
    \/ \E list \in BatchLists : BatchConfirmMilestones(s, list)
    \/ CancelShipment(s) \/ SupplierCancel(s) \/ EmergencyRecover(s)

Next ==
    \/ \E s \in Shipments, m \in Milestones : MilestoneStep(s, m)
    \/ \E s \in Shipments : ShipmentStep(s)
    \/ AdminStep \/ Tick

Spec == Init /\ [][Next]_vars

-----------------------------------------------------------------------------
(* Properties. *)

(* open_dispute_count, the counter raise_dispute compares with the limit, is
   the number of milestones in dispute: no path that opens or ends a dispute
   leaves it behind. *)
OpenDisputesCounted ==
    \A s \in Shipments :
        openDisputes[s] = Cardinality({m \in Milestones : mstatus[s][m] = "Disputed"})

(* While a milestone is in dispute no earlier ruling of it stands: nothing can
   be appealed and no split waits to be paid. *)
NoRulingDuringDispute ==
    \A s \in Shipments, m \in Milestones :
        mstatus[s][m] = "Disputed" => resolvedAt[s][m] = None /\ pendingSplit[s][m] = NoSplit

(* A release ledger is set exactly while a payment waits for it: a held
   confirmation or a parked ruling. *)
ReleaseLedgerWhilePending ==
    \A s \in Shipments, m \in Milestones :
        /\ releaseAfter[s][m] # None <=>
               mstatus[s][m] \in {"ConfirmedHeld", "ResolvedPendingFinality"}
        /\ pendingSplit[s][m] # NoSplit => mstatus[s][m] = "ResolvedPendingFinality"

(* On an open shipment, ActiveDisputes lists a milestone at most once and only
   while it is in dispute, and misses no dispute but an appealed one. *)
ActiveDisputesListed ==
    \A s \in Shipments, m \in Milestones : status[s] = "Active" =>
        /\ activeDisputes[s][m] <= 1
        /\ activeDisputes[s][m] = 1 => mstatus[s][m] = "Disputed"
        /\ mstatus[s][m] = "Disputed" /\ ~appealed[s][m] => activeDisputes[s][m] = 1

(* Each shipment is in the index of its own status, once, and nowhere else,
   and the statistics count the completed ones. *)
StatusIndexExact ==
    /\ \A s \in Shipments, st \in Statuses :
          statusIndex[st][s] = IF st = status[s] /\ st # "None" THEN 1 ELSE 0
    /\ completedShipments = Cardinality({s \in Shipments : status[s] = "Completed"})

(* A completed shipment has every milestone confirmed or resolved. *)
CompletedMeansDone ==
    \A s \in Shipments : status[s] = "Completed" => AllMilestonesDone(mstatus[s])

(* A shipment whose last milestone is done does not stay open. *)
DoneMeansClosed ==
    \A s \in Shipments : status[s] = "Active" => ~AllMilestonesDone(mstatus[s])

(* A milestone's weight leaves the escrow at most once. *)
SettledOnce ==
    \A s \in Shipments, m \in Milestones : paid[s][m] <= Gross(m)

(* Windows under which no payment can be reopened by an appeal. *)
SafeWindows ==
    /\ FinalityDelay > AppealWindow /\ ConfirmCooldown > AppealWindow
    /\ AutoWindow = 0 \/ AutoWindow > AppealWindow
    /\ ContestedPercents = {} /\ Oracles = {}
    /\ \A list \in BatchLists, m \in Milestones : Occurrences(list, m) \in {0, 1}

(* Why SettledOnce holds under them: a weight is unpaid until its milestone is
   final, and by then the last ruling, if any, was given on appeal or its
   appeal window is over. *)
Unappealable(s, m) ==
    appealed[s][m] \/ resolvedAt[s][m] = None \/ now > resolvedAt[s][m] + AppealWindow
PaidOnlyWhenFinal(s, m) ==
    /\ paid[s][m] <= IF mstatus[s][m] \in {"Confirmed", "Resolved"} THEN Gross(m) ELSE 0
    /\ contested[s][m] = 0 /\ pendingSplit[s][m] \in {NoSplit, Gross(m)}
RulingOutOfReach(s, m) ==
    /\ resolvedAt[s][m] <= now
    /\ mstatus[s][m] = "Disputed" => resolvedAt[s][m] = None
    /\ mstatus[s][m] \in {"ConfirmedHeld", "Confirmed", "Resolved"} => Unappealable(s, m)
    /\ mstatus[s][m] = "ProofSubmitted" =>
           Unappealable(s, m) \/ proofLedger[s][m] >= resolvedAt[s][m]
    /\ mstatus[s][m] = "ResolvedPendingFinality" =>
           Unappealable(s, m) \/ releaseAfter[s][m] > resolvedAt[s][m] + AppealWindow
SettlementInv ==
    \A s \in Shipments, m \in Milestones : PaidOnlyWhenFinal(s, m) /\ RulingOutOfReach(s, m)

(* A shipment never draws more from the contract than its own deposit. *)
WithinDeposit ==
    \A s \in Shipments :
        MapThenSumSet(LAMBDA m : paid[s][m], Milestones) + refunded[s] <= TotalAmount

(* The contract holds, for the shipments still open, exactly what their
   get_escrow_balance reports, and nothing else (no bonds are posted). *)
EscrowBacked ==
    balance = MapThenSumSet(LAMBDA s : Remaining(s), {s \in Shipments : status[s] = "Active"})

(* The disputes the buyer opened, those no oracle reports account for, stay
   within the cap across all shipments. *)
BuyerCapHolds ==
    BuyerCap > 0 =>
        Cardinality({d \in Shipments \X Milestones :
                        LET s == d[1] m == d[2] IN
                        /\ status[s] = "Active" /\ mstatus[s][m] = "Disputed"
                        /\ Cardinality(reports[s][m]) < BreachThreshold}) <= BuyerCap

(* Once the review window is over the buyer can neither dispute nor hold the
   milestone back: it is confirmed or stays as it is. *)
AutoConfirmationStands ==
    [][\A s \in Shipments, m \in Milestones :
          mstatus[s][m] = "ProofSubmitted" /\ AutoConfirmed(s, m)
              => mstatus'[s][m] \in {"ProofSubmitted", "Confirmed"}]_vars

(* The ruling given on appeal is final: it is never reopened. *)
AppealRulingFinal ==
    [][\A s \in Shipments, m \in Milestones :
          appealed[s][m] /\ mstatus[s][m] \in {"ResolvedPendingFinality", "Resolved"}
              => mstatus'[s][m] \in {"ResolvedPendingFinality", "Resolved"}]_vars

(* A closed shipment is left alone: no milestone of it moves and no token
   leaves on its account. *)
ClosedIsFinal ==
    [][\A s \in Shipments : status[s] \notin {"None", "Active"}
          => /\ status'[s] = status[s] /\ mstatus'[s] = mstatus[s]
             /\ paid'[s] = paid[s] /\ refunded'[s] = refunded[s]]_vars

(* While the contract is paused no shipment, milestone, dispute or token moves. *)
PauseStopsAll ==
    [][paused => UNCHANGED <<status, mstatus, openDisputes, activeDisputes, reports, balance>>]_vars

(* "a second, independent arbiter": an appeal is not heard by the arbiter whose
   ruling it contests. *)
AppealHeardByAnother ==
    \A s \in Shipments, m \in Milestones :
        mstatus[s][m] = "Disputed" /\ appealed[s][m] => arbiter[s] # ruledBy[s][m]

(* A parked ruling keeps its funds in escrow until it is paid or appealed: the
   shipment is not closed under it. *)
ParkedFundsStay ==
    \A s \in Shipments, m \in Milestones :
        mstatus[s][m] = "ResolvedPendingFinality" => status[s] = "Active"

-----------------------------------------------------------------------------
(* Liveness. *)

(* Ledgers close, and the entry points anyone may call once a window is over
   are called by someone who waits for the outcome. *)
Anyone(s, m) ==
    \/ ClaimAutoConfirmation(s, m) \/ ReleaseHeldPayment(s, m)
    \/ FinalizeDisputeResolution(s, m)
    \/ HandOffToBackup(s, m) \/ ResolveDisputeTimeout(s, m)

FairSpec ==
    /\ Spec /\ WF_vars(Tick)
    /\ \A s \in Shipments, m \in Milestones : WF_vars(Anyone(s, m))

(* A window that ends beyond the bound of the clock never ends in the model. *)
PastHorizon(s, m) ==
    \/ releaseAfter[s][m] > MaxLedger
    \/ mstatus[s][m] = "ProofSubmitted" /\ proofLedger[s][m] + AutoWindow > MaxLedger
    \/ mstatus[s][m] = "Disputed" /\ openedAt[s][m] + DisputeTimeout > MaxLedger

(* Neither a silent buyer nor a silent arbiter can keep a submitted proof
   waiting for ever: it is settled, sent back for another proof, or the
   shipment is closed. *)
EveryProofAnswered ==
    \A s \in Shipments, m \in Milestones :
        status[s] = "Active" /\ mstatus[s][m] = "ProofSubmitted"
            ~> \/ mstatus[s][m] \in {"Pending", "Confirmed", "Resolved"}
               \/ status[s] # "Active" \/ PastHorizon(s, m)
=============================================================================
