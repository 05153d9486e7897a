------------------------ MODULE ShipmentFundsProofs ------------------------
(***************************************************************************)
(* Where the money of a shipment is: what it has paid out, what it was     *)
(* refunded and what it still has in the contract's balance, and that the  *)
(* contract thereby implements EscrowPromise.                              *)
(***************************************************************************)
EXTENDS EscrowRefinement, ShipmentLifecycleProofs, ShipmentSettlementProofs

(* The shares add up to the whole: create_shipment refuses any others. *)
PercentsWhole == SumFunctionOnSet(Percent, Milestones) = 100

(* Terms under which what leaves the contract for a milestone is its weight and
   is credited to the shipment: no late penalty, no partial dispute, no timeout
   for the buyer, no index listed twice, no payment that an appeal can reopen. *)
ExactTerms ==
    /\ PenaltyBps = 0 \/ \A m \in Milestones : Deadline[m] = 0
    /\ ContestedPercents = {}
    /\ DisputeTimeout = 0 \/ DefaultToSupplier
    /\ \A list \in BatchLists, m \in Milestones : Occurrences(list, m) \in {0, 1}
    /\ AppealWindow = 0 \/ SafeWindows

Weights == [m \in Milestones |-> Gross(m)]
WeightSum(ms) == SumFunctionOnSet(Weights, ms)

-----------------------------------------------------------------------------
(* The weights of a shipment. *)

LEMMA MilestonesFinite == IsFiniteSet(Milestones) /\ \A ms \in SUBSET Milestones : IsFiniteSet(ms)
  <1>1. 0 \in Int /\ NumMilestones - 1 \in Int
    BY SizeAssumption
  <1>2. IsFiniteSet(Milestones)
    BY <1>1, FS_Interval DEF Milestones
  <1> QED
    BY <1>2, FS_Subset

LEMMA WeightsNat == \A m \in Milestones : Weights[m] \in Nat /\ Weights[m] \in Int
  BY GrossNat DEF Weights

LEMMA WeightSumNat ==
    ASSUME NEW ms \in SUBSET Milestones
    PROVE  WeightSum(ms) \in Nat
  <1>1. IsFiniteSet(ms) /\ \A m \in ms : Weights[m] \in Nat
    BY MilestonesFinite, WeightsNat
  <1> QED
    BY <1>1, SumNat DEF WeightSum

LEMMA WeightSumUnion ==
    ASSUME NEW ms \in SUBSET Milestones, NEW ks \in SUBSET Milestones, ms \cap ks = {}
    PROVE  WeightSum(ms \cup ks) = WeightSum(ms) + WeightSum(ks)
  <1>1. /\ IsFiniteSet(ms) /\ IsFiniteSet(ks)
        /\ \A m \in ms \cup ks : Weights[m] \in Int
    BY MilestonesFinite, WeightsNat
  <1> QED
    BY <1>1, SumUnion DEF WeightSum

LEMMA WeightSumOne ==
    ASSUME NEW m \in Milestones
    PROVE  WeightSum({m}) = Gross(m)
  <1>1. Weights[m] \in Int /\ Weights[m] = Gross(m)
    BY WeightsNat DEF Weights
  <1> QED
    BY <1>1, SumSingle DEF WeightSum

LEMMA WeightSumNone == WeightSum({}) = 0
  BY SumEmpty DEF WeightSum

(* A hundred times the weights is the total amount times the percentages, but
   for what rounding each share down leaves over. *)
LEMMA GrossRounds ==
    ASSUME NEW m \in Milestones
    PROVE  /\ TotalAmount * Percent[m] \in Nat
           /\ 100 * Gross(m) <= TotalAmount * Percent[m]
           /\ (TotalAmount * Percent[m]) % 100 = 0 => 100 * Gross(m) = TotalAmount * Percent[m]
  <1>1. TotalAmount \in Nat /\ Percent[m] \in Nat
    BY SizeAssumption
  <1>2. TotalAmount * Percent[m] \in Nat
    BY <1>1
  <1>3. \A n \in Nat : /\ 100 * (n \div 100) <= n
                       /\ n % 100 = 0 => 100 * (n \div 100) = n
    OBVIOUS
  <1>4. /\ 100 * ((TotalAmount * Percent[m]) \div 100) <= TotalAmount * Percent[m]
        /\ (TotalAmount * Percent[m]) % 100 = 0 =>
               100 * ((TotalAmount * Percent[m]) \div 100) = TotalAmount * Percent[m]
    BY <1>2, <1>3
  <1> QED
    BY <1>2, <1>4 DEF Gross

(* The weights never add up to more than the deposit, and to exactly the
   deposit when no share is rounded. *)
NoDust == \A m \in Milestones : (TotalAmount * Percent[m]) % 100 = 0

LEMMA WeightsWithinDeposit ==
    ASSUME PercentsWhole
    PROVE  /\ WeightSum(Milestones) <= TotalAmount
           /\ NoDust => WeightSum(Milestones) = TotalAmount
  <1> DEFINE scaled == [m \in Milestones |-> 100 * Weights[m]]
             shares == [m \in Milestones |-> TotalAmount * Percent[m]]
  <1>1. IsFiniteSet(Milestones)
    BY MilestonesFinite
  <1>2. TotalAmount \in Int /\ \A m \in Milestones : Percent[m] \in Int
    BY SizeAssumption
  <1>3. SumFunctionOnSet(scaled, Milestones) = 100 * WeightSum(Milestones)
    <2>1. \A m \in Milestones : scaled[m] = 100 * Weights[m] /\ Weights[m] \in Int
      BY WeightsNat
    <2>2. 100 \in Int
      OBVIOUS
    <2> HIDE DEF scaled
    <2> QED
      BY <1>1, <2>1, <2>2, SumScaled DEF WeightSum
  <1>4. SumFunctionOnSet(shares, Milestones) = TotalAmount * 100
    <2>1. \A m \in Milestones : shares[m] = TotalAmount * Percent[m]
      OBVIOUS
    <2> HIDE DEF shares
    <2>2. SumFunctionOnSet(shares, Milestones) = TotalAmount * SumFunctionOnSet(Percent, Milestones)
      BY <1>1, <1>2, <2>1, SumScaled
    <2> QED
      BY <2>2 DEF PercentsWhole
  <1>5. \A m \in Milestones : /\ scaled[m] \in Int /\ shares[m] \in Int /\ scaled[m] <= shares[m]
                              /\ NoDust => scaled[m] = shares[m]
    <2> TAKE m \in Milestones
    <2>1. scaled[m] = 100 * Gross(m) /\ shares[m] = TotalAmount * Percent[m]
      BY DEF Weights
    <2> HIDE DEF scaled, shares
    <2> QED
      BY <2>1, GrossNat, GrossRounds DEF NoDust
  <1> HIDE DEF scaled, shares
  <1>6. SumFunctionOnSet(scaled, Milestones) <= SumFunctionOnSet(shares, Milestones)
    BY <1>1, <1>5, SumMonotone
  <1>7. NoDust => SumFunctionOnSet(scaled, Milestones) = SumFunctionOnSet(shares, Milestones)
    BY <1>1, <1>5, SumCongruence
  <1>8. WeightSum(Milestones) \in Nat
    BY WeightSumNat
  <1> QED
    BY <1>2, <1>3, <1>4, <1>6, <1>7, <1>8

-----------------------------------------------------------------------------
(* What one call does to the money of the shipment it is about: it pays the
   weights of some milestones that become final, funds, refunds, or nothing. *)

Settles(s, ms) ==
    /\ Open(s)
    /\ ms \subseteq Milestones \ Settled[s]
    /\ Settled' = [Settled EXCEPT ![s] = @ \cup ms]
    /\ paid' = [paid EXCEPT ![s] =
          [m \in Milestones |-> IF m \in ms THEN @[m] + Gross(m) ELSE @[m]]]
    /\ released' = [released EXCEPT ![s] = @ + WeightSum(ms)]
    /\ UNCHANGED refunded
    /\ Bond = 0 => balance' = balance - WeightSum(ms)
    /\ UNCHANGED status \/ Completes(s)
Funds(s) ==
    /\ status[s] = "None" /\ status' = [status EXCEPT ![s] = "Active"]
    /\ Settled' = Settled
    /\ UNCHANGED <<paid, released, refunded>>
    /\ Bond = 0 => balance' = balance + TotalAmount
Refunds(s) ==
    /\ Open(s)
    /\ \E final \in {"Cancelled", "Expired"} : status' = [status EXCEPT ![s] = final]
    /\ Settled' = Settled
    /\ UNCHANGED <<paid, released>>
    /\ refunded' = [refunded EXCEPT ![s] = @ + Monus(Remaining(s), 0)]
    /\ balance' = balance - Monus(Remaining(s), 0)
Still == UNCHANGED <<status, paid, released, refunded, balance>> /\ Settled' = Settled

(* What the terms leave of a dispute's scope and of a stored split. *)
Scoped(s, m) == contested[s][m] = 0 /\ pendingSplit[s][m] \in {NoSplit, Gross(m)}
(* No appeal reopens a milestone that is final. *)
Stands(s, m) == m \in Settled[s] => ~MayAppeal(s, m)
ExactState == \A s \in Shipments, m \in Milestones : Scoped(s, m) /\ Stands(s, m)

LEMMA SettledFollows ==
    ASSUME NEW s \in Shipments, NEW ms \in SUBSET Milestones,
           \A t \in Shipments \ {s} : mstatus'[t] = mstatus[t],
           \A k \in Milestones : mstatus'[s][k] \in {"Confirmed", "Resolved"} <=>
               mstatus[s][k] \in {"Confirmed", "Resolved"} \/ k \in ms
    PROVE  Settled' = [Settled EXCEPT ![s] = @ \cup ms]
  <1>1. ASSUME NEW t \in Shipments
        PROVE  Settled'[t] = [Settled EXCEPT ![s] = @ \cup ms][t]
    BY <1>1 DEF Settled
  <1>2. /\ Settled' = [t \in Shipments |-> Settled'[t]]
        /\ [Settled EXCEPT ![s] = @ \cup ms] =
              [t \in Shipments |-> [Settled EXCEPT ![s] = @ \cup ms][t]]
    BY DEF Settled
  <1> QED
    BY <1>1, <1>2

LEMMA PaysWeight ==
    ASSUME TypeOK, NEW s \in Shipments, NEW m \in Milestones, Open(s), m \notin Settled[s],
           NEW st \in {"Confirmed", "Resolved"}, SetStatus(s, m, st),
           NEW bond \in {0, Bond}, NEW d, PayOut(s, m, Gross(m), bond, Gross(m), d),
           UNCHANGED status \/ Completes(s)
    PROVE  Settles(s, {m})
  <1>0. /\ mstatus \in PerMilestone(MilestoneStatuses) /\ paid \in PerMilestone(Nat)
        /\ balance \in Nat /\ Bond \in Nat /\ Gross(m) \in Nat
    BY GrossNat, WindowAssumption DEF TypeOK, MilestoneTyped, MoneyTyped
  <1>1. Settled' = [Settled EXCEPT ![s] = @ \cup {m}]
    <2>1. /\ \A t \in Shipments \ {s} : mstatus'[t] = mstatus[t]
          /\ \A k \in Milestones : mstatus'[s][k] \in {"Confirmed", "Resolved"} <=>
                 mstatus[s][k] \in {"Confirmed", "Resolved"} \/ k \in {m}
      BY <1>0 DEF SetStatus, PerMilestone
    <2> QED
      BY <2>1, SettledFollows
  <1>2. paid' = [paid EXCEPT ![s] =
          [k \in Milestones |-> IF k \in {m} THEN @[k] + Gross(k) ELSE @[k]]]
    BY <1>0 DEF PayOut, PerMilestone
  <1>3. WeightSum({m}) = Gross(m)
    BY WeightSumOne
  <1>4. /\ released' = [released EXCEPT ![s] = @ + Gross(m)] /\ UNCHANGED refunded
        /\ balance' = balance - (Gross(m) + bond)
    BY DEF PayOut
  <1>5. Bond = 0 => balance' = balance - Gross(m)
    BY <1>0, <1>4
  <1> QED
    BY <1>1, <1>2, <1>3, <1>4, <1>5 DEF Settles

LEMMA PaysNothing ==
    ASSUME TypeOK, NEW s \in Shipments, NEW m \in Milestones, Open(s), m \notin Settled[s],
           UNCHANGED mstatus \/ \E st : st \notin {"Confirmed", "Resolved"} /\ SetStatus(s, m, st),
           UNCHANGED <<paid, released, refunded>>, Bond = 0 => balance' = balance,
           UNCHANGED status
    PROVE  Settles(s, {})
  <1>0. /\ mstatus \in PerMilestone(MilestoneStatuses) /\ paid \in PerMilestone(Nat)
        /\ balance \in Nat /\ released \in [Shipments -> Int]
    BY DEF TypeOK, MilestoneTyped, MoneyTyped
  <1>1. Settled' = [Settled EXCEPT ![s] = @ \cup {}]
    <2>1. /\ \A t \in Shipments \ {s} : mstatus'[t] = mstatus[t]
          /\ \A k \in Milestones : mstatus'[s][k] \in {"Confirmed", "Resolved"} <=>
                 mstatus[s][k] \in {"Confirmed", "Resolved"} \/ k \in {}
      BY <1>0 DEF SetStatus, PerMilestone, Settled
    <2> QED
      BY <2>1, SettledFollows
  <1>2. paid' = [paid EXCEPT ![s] =
          [k \in Milestones |-> IF k \in {} THEN @[k] + Gross(k) ELSE @[k]]]
    BY <1>0 DEF PerMilestone
  <1>3. released' = [released EXCEPT ![s] = @ + 0] /\ (Bond = 0 => balance' = balance - 0)
    BY <1>0
  <1> QED
    BY <1>1, <1>2, <1>3, WeightSumNone DEF Settles

(* A bond is not part of a weight. *)
LEMMA BondOnly ==
    ASSUME TypeOK, NEW s \in Shipments, NEW m \in Milestones, PayOut(s, m, 0, Bond, 0, 0)
    PROVE  UNCHANGED <<paid, released, refunded>> /\ (Bond = 0 => balance' = balance)
  <1>0. /\ paid \in PerMilestone(Nat) /\ balance \in Nat /\ released \in [Shipments -> Int]
    BY DEF TypeOK, MoneyTyped
  <1>1. paid' = paid
    BY <1>0 DEF PayOut, PerMilestone
  <1>2. released' = released
    BY <1>0 DEF PayOut
  <1> QED
    BY <1>0, <1>1, <1>2 DEF PayOut

LEMMA CompletionStatus ==
    ASSUME NEW s \in Shipments, CompleteIfDone(s, mstatus'[s])
    PROVE  UNCHANGED status \/ Completes(s)
  BY DEF CompleteIfDone, Completes

(* Without late penalties a payment is the whole weight. *)
LEMMA NoPenalty ==
    ASSUME ExactTerms, TypeOK, NEW s \in Shipments, NEW m \in Milestones
    PROVE  LatePenalty(s, m) = 0
  <1>1. Gross(m) \in Nat /\ Deadline[m] \in Nat /\ proofLedger[s][m] \in Nat
    BY GrossNat, WindowAssumption DEF TypeOK, MilestoneTyped, PerMilestone
  <1>2. CASE \A k \in Milestones : Deadline[k] = 0
    BY <1>2 DEF LatePenalty
  <1>3. CASE PenaltyBps = 0
    <2>1. Gross(m) * (PenaltyBps * (proofLedger[s][m] - Deadline[m])) = 0
      BY <1>1, <1>3
    <2>2. 0 \div 10000 = 0 /\ Gross(m) \div 2 \in Nat
      BY <1>1
    <2> QED
      BY <2>1, <2>2 DEF LatePenalty
  <1> QED
    BY <1>2, <1>3 DEF ExactTerms

(* A call about a milestone pays its weight or nothing, or refunds the rest. *)
LEMMA MilestoneFunds ==
    ASSUME ExactTerms, TypeOK, ExactState, NEW s \in Shipments, NEW m \in Milestones,
           MilestoneStep(s, m)
    PROVE  Refunds(s) \/ \E ms \in SUBSET Milestones : Settles(s, ms)
  <1>0. /\ {m} \in SUBSET Milestones /\ {} \in SUBSET Milestones
        /\ Scoped(s, m) /\ Stands(s, m) /\ Bond \in Nat /\ Gross(m) \in Nat
        /\ m \in Settled[s] <=> mstatus[s][m] \in {"Confirmed", "Resolved"}
    BY GrossNat, WindowAssumption DEF ExactState, Settled
  <1> USE DEF moneyVars
  <1>1. CASE SubmitProof(s, m)
    <2>1. Settles(s, {})
      BY <1>0, <1>1, PaysNothing DEF SubmitProof
    <2> QED
      BY <1>0, <2>1
  <1>2. CASE ConfirmMilestone(s, m)
    <2>1. Gross(m) - LatePenalty(s, m) = Gross(m)
      BY <1>0, NoPenalty
    <2>2. /\ Open(s) /\ m \notin Settled[s] /\ SetStatus(s, m, "Confirmed")
          /\ PayOut(s, m, Gross(m), 0, Gross(m), Gross(m))
          /\ UNCHANGED status \/ Completes(s)
      BY <1>0, <1>2, <2>1, CompletionStatus DEF ConfirmMilestone, MayConfirm
    <2>3. Settles(s, {m})
      BY <2>2, PaysWeight
    <2> QED
      BY <1>0, <2>3
  <1>3. CASE HoldMilestone(s, m)
    <2>1. Settles(s, {})
      BY <1>0, <1>3, PaysNothing DEF HoldMilestone, MayConfirm
    <2> QED
      BY <1>0, <2>1
  <1>4. CASE ReleaseHeldPayment(s, m)
    <2>1. /\ Open(s) /\ m \notin Settled[s] /\ SetStatus(s, m, "Confirmed")
          /\ PayOut(s, m, Gross(m), 0, Gross(m), Gross(m))
          /\ UNCHANGED status \/ Completes(s)
      BY <1>0, <1>4, CompletionStatus DEF ReleaseHeldPayment
    <2>2. Settles(s, {m})
      BY <2>1, PaysWeight
    <2> QED
      BY <1>0, <2>2
  <1>5. CASE ClaimAutoConfirmation(s, m)
    <2>1. Gross(m) - LatePenalty(s, m) = Gross(m)
      BY <1>0, NoPenalty
    <2>2. /\ Open(s) /\ m \notin Settled[s] /\ SetStatus(s, m, "Confirmed")
          /\ PayOut(s, m, Gross(m), 0, Gross(m), Gross(m))
          /\ UNCHANGED status \/ Completes(s)
      BY <1>0, <1>5, <2>1, CompletionStatus DEF ClaimAutoConfirmation
    <2>3. Settles(s, {m})
      BY <2>2, PaysWeight
    <2> QED
      BY <1>0, <2>3
  <1>6. CASE RaiseDispute(s, m)
    <2>1. Settles(s, {})
      BY <1>0, <1>6, PaysNothing DEF RaiseDispute, MayDispute, OpenDispute
    <2> QED
      BY <1>0, <2>1
  <1>7. CASE \E percent \in ContestedPercents : RaisePartialDispute(s, m, percent)
    BY <1>7 DEF ExactTerms
  <1>8. ASSUME NEW oracle \in Oracles, ReportConditionBreach(s, m, oracle)
        PROVE  Settles(s, {})
    <2>1. /\ Open(s) /\ UNCHANGED <<status, moneyVars>>
          /\ UNCHANGED mstatus \/ (OpenDispute(s, m) /\ m \notin Settled[s])
      BY <1>0, <1>8 DEF ReportConditionBreach
    <2>2. CASE UNCHANGED mstatus
      <3>1. Settled' = [Settled EXCEPT ![s] = @ \cup {}]
        BY <2>2, SettledFollows DEF Settled
      <3>2. /\ paid' = [paid EXCEPT ![s] =
                 [k \in Milestones |-> IF k \in {} THEN @[k] + Gross(k) ELSE @[k]]]
            /\ released' = [released EXCEPT ![s] = @ + 0] /\ balance' = balance - 0
        BY <2>1 DEF TypeOK, MoneyTyped, PerMilestone
      <3> QED
        BY <2>1, <3>1, <3>2, WeightSumNone DEF Settles
    <2>3. CASE OpenDispute(s, m) /\ m \notin Settled[s]
      BY <2>1, <2>3, PaysNothing DEF OpenDispute
    <2> QED
      BY <2>1, <2>2, <2>3
  <1>9. CASE WithdrawDispute(s, m)
    <2>1. Settles(s, {})
      BY <1>0, <1>9, PaysNothing DEF WithdrawDispute
    <2> QED
      BY <1>0, <2>1
  <1>10. ASSUME NEW approve \in BOOLEAN, ResolveDispute(s, m, approve)
         PROVE  Settles(s, {}) \/ Settles(s, {m})
    <2>1. /\ Open(s) /\ m \notin Settled[s]
          /\ UNCHANGED status \/ Completes(s)
          /\ DisputedAmount(s, m) = Gross(m)
      BY <1>0, <1>10, CompletionStatus DEF ResolveDispute, Rule, DisputedAmount, Scoped
    <2>2. \/ Park(s, m, FinalityDelay)
          \/ SetStatus(s, m, "Resolved") /\ PayOut(s, m, Gross(m), Bond, Gross(m), 0)
          \/ SetStatus(s, m, "Pending") /\ PayOut(s, m, 0, Bond, 0, 0)
      BY <1>10, <2>1 DEF ResolveDispute
    <2>3. CASE SetStatus(s, m, "Resolved") /\ PayOut(s, m, Gross(m), Bond, Gross(m), 0)
      BY <2>1, <2>3, PaysWeight
    <2>4. ASSUME NEW st \in {"ResolvedPendingFinality", "Pending"}, SetStatus(s, m, st),
                 UNCHANGED <<paid, released, refunded>>, Bond = 0 => balance' = balance
          PROVE  Settles(s, {})
      <3>1. ~AllMilestonesDone(mstatus'[s])
        BY <2>4 DEF SetStatus, AllMilestonesDone, TypeOK, MilestoneTyped, PerMilestone
      <3>2. UNCHANGED status
        BY <2>1, <3>1 DEF Completes
      <3> QED
        BY <2>1, <2>4, <3>2, PaysNothing
    <2>5. CASE Park(s, m, FinalityDelay)
      BY <2>4, <2>5 DEF Park
    <2>6. CASE SetStatus(s, m, "Pending") /\ PayOut(s, m, 0, Bond, 0, 0)
      BY <2>4, <2>6, BondOnly
    <2> QED
      BY <2>2, <2>3, <2>5, <2>6
  <1>11. CASE ResolveDisputeSplit(s, m)
    <2>1. /\ Open(s) /\ m \notin Settled[s] /\ DisputedAmount(s, m) = Gross(m)
      BY <1>0, <1>11 DEF ResolveDisputeSplit, Rule, DisputedAmount, Scoped
    <2>2. CASE SplitDelay(s, m) > 0
      <3>1. Park(s, m, SplitDelay(s, m)) /\ UNCHANGED status
        BY <1>11, <2>2 DEF ResolveDisputeSplit
      <3>2. Settles(s, {})
        BY <2>1, <3>1, PaysNothing DEF Park
      <3> QED
        BY <1>0, <3>2
    <2>3. CASE ~(SplitDelay(s, m) > 0)
      <3>1. /\ SetStatus(s, m, "Resolved") /\ PayOut(s, m, Gross(m), Bond, Gross(m), 0)
            /\ UNCHANGED status \/ Completes(s)
        BY <1>11, <2>1, <2>3, CompletionStatus DEF ResolveDisputeSplit
      <3>2. Settles(s, {m})
        BY <2>1, <3>1, PaysWeight
      <3> QED
        BY <1>0, <3>2
    <2> QED
      BY <2>2, <2>3
  <1>12. CASE FinalizeDisputeResolution(s, m)
    <2>1. (IF pendingSplit[s][m] # NoSplit THEN pendingSplit[s][m] ELSE Gross(m)) = Gross(m)
      BY <1>0 DEF Scoped
    <2>2. /\ Open(s) /\ m \notin Settled[s] /\ SetStatus(s, m, "Resolved")
          /\ PayOut(s, m, Gross(m), Bond, Gross(m), 0)
          /\ UNCHANGED status \/ Completes(s)
      BY <1>0, <1>12, <2>1, CompletionStatus DEF FinalizeDisputeResolution
    <2>3. Settles(s, {m})
      BY <2>2, PaysWeight
    <2> QED
      BY <1>0, <2>3
  <1>13. CASE \E other \in Arbiters : AppealDispute(s, m, other)
    <2>1. /\ MayAppeal(s, m) /\ SetStatus(s, m, "Disputed")
          /\ UNCHANGED <<status, moneyVars>>
      BY <1>13 DEF AppealDispute, indexVars
    <2>2. Settles(s, {})
      BY <1>0, <2>1, PaysNothing DEF Stands, MayAppeal
    <2> QED
      BY <1>0, <2>2
  <1>14. CASE HandOffToBackup(s, m)
    <2>1. Settles(s, {})
      BY <1>0, <1>14, PaysNothing DEF HandOffToBackup, TimedOut
    <2> QED
      BY <1>0, <2>1
  <1>15. CASE ResolveDisputeTimeout(s, m)
    <2>1. /\ Open(s) /\ m \notin Settled[s] /\ SetStatus(s, m, "Resolved")
          /\ DisputedAmount(s, m) = Gross(m) /\ DisputeTimeout > 0
      BY <1>0, <1>15 DEF ResolveDisputeTimeout, TimedOut, DisputedAmount, Scoped
    <2>2. DefaultToSupplier
      BY <2>1 DEF ExactTerms
    <2>3. PayOut(s, m, Gross(m), 0, Gross(m), Gross(m))
      BY <1>15, <2>1, <2>2 DEF ResolveDisputeTimeout
    <2>4. UNCHANGED status
      BY <1>15 DEF ResolveDisputeTimeout, TimedOut, CompleteIfDone, AllMilestonesDone
    <2>5. Settles(s, {m})
      BY <2>1, <2>3, <2>4, PaysWeight
    <2> QED
      BY <1>0, <2>5
  <1>16. CASE ClaimDeadlineRefund(s, m)
    <2>1. Refunds(s)
      BY <1>16 DEF ClaimDeadlineRefund, CloseEarly, Refunds, Settled
    <2> QED
      BY <2>1
  <1> QED
    BY <1>0, <1>1, <1>2, <1>3, <1>4, <1>5, <1>6, <1>7, <1>8, <1>9, <1>10, <1>11, <1>12, <1>13,
       <1>14, <1>15, <1>16 DEF MilestoneStep

-----------------------------------------------------------------------------
(* What a batch pays is the weight of the milestones listed when no index occurs
   twice. *)

LEMMA ListedOnce ==
    ASSUME ExactTerms, NEW list \in BatchLists
    PROVE  /\ \A i, j \in 1 .. Len(list) : list[i] = list[j] => i = j
           /\ \A m \in Milestones :
                 Occurrences(list, m) = IF m \in {list[i] : i \in DOMAIN list} THEN 1 ELSE 0
  <1>1. /\ list \in Seq(Milestones) /\ Len(list) \in Nat /\ DOMAIN list = 1 .. Len(list)
        /\ \A i \in 1 .. Len(list) : list[i] \in Milestones
    BY ActorAssumption
  <1>2. IsFiniteSet(1 .. Len(list))
    BY <1>1, FS_Interval
  <1> DEFINE at(m) == {i \in DOMAIN list : list[i] = m}
  <1>3. ASSUME NEW m \in Milestones
        PROVE  /\ IsFiniteSet(at(m)) /\ Occurrences(list, m) = Cardinality(at(m))
               /\ Occurrences(list, m) = 0 \/ Occurrences(list, m) = 1
    BY <1>1, <1>2, FS_Subset DEF Occurrences, ExactTerms
  <1>4. ASSUME NEW i \in 1 .. Len(list), NEW j \in 1 .. Len(list), list[i] = list[j]
        PROVE  i = j
    <2>1. i \in at(list[i]) /\ j \in at(list[i]) /\ list[i] \in Milestones
      BY <1>1, <1>4
    <2>2. Cardinality(at(list[i])) = 0 \/ Cardinality(at(list[i])) = 1
      BY <1>3, <2>1
    <2>3. \E x : at(list[i]) = {x}
      <3> HIDE DEF at
      <3> QED
        BY <1>3, <2>1, <2>2, FS_EmptySet, FS_Singleton
    <2> HIDE DEF at
    <2> QED
      BY <2>1, <2>3
  <1>5. ASSUME NEW m \in Milestones
        PROVE  Occurrences(list, m) = IF m \in {list[i] : i \in DOMAIN list} THEN 1 ELSE 0
    <2>1. m \in {list[i] : i \in DOMAIN list} <=> at(m) # {}
      OBVIOUS
    <2> HIDE DEF at
    <2> QED
      BY <1>3, <2>1, FS_EmptySet
  <1> QED
    BY <1>4, <1>5

LEMMA BatchPaysWeights ==
    ASSUME ExactTerms, NEW list \in BatchLists
    PROVE  BatchPayment[list] = WeightSum({list[i] : i \in DOMAIN list})
  <1>1. /\ list \in Seq(Milestones) /\ Len(list) \in Nat /\ DOMAIN list = 1 .. Len(list)
        /\ \A i \in 1 .. Len(list) : list[i] \in Milestones
    BY ActorAssumption
  <1> DEFINE terms == [i \in 1 .. Len(list) |-> Gross(list[i])]
  <1>4. IsFiniteSet(1 .. Len(list))
    BY <1>1, FS_Interval
  <1>5. \A i \in 1 .. Len(list) : terms[i] = Weights[list[i]] /\ terms[i] \in Int
    BY <1>1, GrossNat DEF Weights
  <1>6. BatchPayment[list] = SumFunctionOnSet(terms, 1 .. Len(list))
    BY BatchPaymentIsSum
  <1> HIDE DEF terms
  <1>9. SumFunctionOnSet(terms, 1 .. Len(list)) = SumFunctionOnSet(Weights, {list[i] : i \in 1 .. Len(list)})
    BY <1>4, <1>5, ListedOnce, SumImage
  <1> QED
    BY <1>1, <1>6, <1>9 DEF WeightSum

-----------------------------------------------------------------------------
(* Calls about a whole shipment, and what every step does. *)

LEMMA BatchFunds ==
    ASSUME ExactTerms, TypeOK, NEW s \in Shipments, NEW list \in BatchLists,
           BatchConfirmMilestones(s, list)
    PROVE  \E ms \in SUBSET Milestones : Settles(s, ms)
  <1> DEFINE listed == {list[i] : i \in DOMAIN list}
  <1>0. /\ mstatus \in PerMilestone(MilestoneStatuses) /\ paid \in PerMilestone(Nat)
        /\ \A m \in Milestones : Gross(m) \in Nat
    BY GrossNat DEF TypeOK, MilestoneTyped, MoneyTyped
  <1>1. listed \in SUBSET Milestones
    <2>1. list \in Seq(Milestones)
      BY ActorAssumption
    <2> QED
      BY <2>1
  <1>2. BatchPayment[list] = WeightSum(listed)
    BY BatchPaysWeights
  <1>3. \A m \in Milestones : Occurrences(list, m) = IF m \in listed THEN 1 ELSE 0
    BY ListedOnce
  <1>4. /\ Open(s) /\ UNCHANGED refunded
        /\ \A m \in listed : mstatus[s][m] = "ProofSubmitted"
        /\ mstatus' = [mstatus EXCEPT ![s] =
              [m \in Milestones |-> IF m \in listed THEN "Confirmed" ELSE @[m]]]
        /\ paid' = [paid EXCEPT ![s] =
              [m \in Milestones |-> @[m] + Occurrences(list, m) * Gross(m)]]
        /\ released' = [released EXCEPT ![s] = @ + BatchPayment[list]]
        /\ balance' = balance - BatchPayment[list]
    BY DEF BatchConfirmMilestones
  <1> HIDE DEF listed
  <1>5. Settled' = [Settled EXCEPT ![s] = @ \cup listed]
    <2>1. /\ \A t \in Shipments \ {s} : mstatus'[t] = mstatus[t]
          /\ \A k \in Milestones : mstatus'[s][k] \in {"Confirmed", "Resolved"} <=>
                 mstatus[s][k] \in {"Confirmed", "Resolved"} \/ k \in listed
      BY <1>0, <1>4 DEF PerMilestone
    <2> QED
      BY <1>1, <2>1, SettledFollows
  <1>6. paid' = [paid EXCEPT ![s] =
          [m \in Milestones |-> IF m \in listed THEN @[m] + Gross(m) ELSE @[m]]]
    <2>1. \A m \in Milestones : paid[s][m] + Occurrences(list, m) * Gross(m) =
              IF m \in listed THEN paid[s][m] + Gross(m) ELSE paid[s][m]
      <3> TAKE m \in Milestones
      <3>1. paid[s][m] \in Nat /\ Gross(m) \in Nat
        BY <1>0 DEF PerMilestone
      <3>2. \A g \in Nat : 1 * g = g /\ 0 * g = 0
        OBVIOUS
      <3> QED
        BY <1>3, <3>1, <3>2
    <2> QED
      BY <1>4, <2>1
  <1>7. UNCHANGED status \/ Completes(s)
    BY CompletionStatus DEF BatchConfirmMilestones
  <1>8. Settles(s, listed)
    BY <1>1, <1>2, <1>4, <1>5, <1>6, <1>7 DEF Settles, Settled
  <1> QED
    BY <1>1, <1>8

LEMMA ShipmentFunds ==
    ASSUME ExactTerms, TypeOK, NEW s \in Shipments, ShipmentStep(s)
    PROVE  Funds(s) \/ Refunds(s) \/ \E ms \in SUBSET Milestones : Settles(s, ms)
  <1>1. CASE CreateShipment(s)
    <2>1. Bond = 0 => balance' = balance + TotalAmount
      <3>1. NumMilestones \in Nat /\ balance \in Nat /\ TotalAmount \in Nat
        BY SizeAssumption DEF TypeOK, MoneyTyped
      <3>2. balance' = balance + TotalAmount + Bond * NumMilestones
        BY <1>1 DEF CreateShipment
      <3>3. Bond = 0 => Bond * NumMilestones = 0
        BY <3>1
      <3> QED
        BY <3>1, <3>2, <3>3
    <2> QED
      BY <1>1, <2>1 DEF CreateShipment, Funds, Settled
  <1>2. CASE \E list \in BatchLists : BatchConfirmMilestones(s, list)
    BY <1>2, BatchFunds
  <1>3. CASE CancelShipment(s) \/ SupplierCancel(s) \/ EmergencyRecover(s)
    BY <1>3 DEF CancelShipment, SupplierCancel, EmergencyRecover, CloseEarly, Refunds, Settled
  <1> QED
    BY <1>1, <1>2, <1>3 DEF ShipmentStep

LEMMA StepFunds ==
    ASSUME ExactTerms, TypeOK, ExactState, [Next]_vars
    PROVE  \/ Still
           \/ \E s \in Shipments : \/ Funds(s) \/ Refunds(s)
                                   \/ \E ms \in SUBSET Milestones : Settles(s, ms)
  <1>1. CASE AdminStep \/ Tick \/ UNCHANGED vars
    BY <1>1 DEF AdminStep, Tick, vars, moneyVars, Still, Settled
  <1> QED
    BY <1>1, MilestoneFunds, ShipmentFunds DEF Next

-----------------------------------------------------------------------------
(* Under the terms no dispute has a partial scope, a stored split is the whole
   weight, and no appeal reaches a milestone that is final. *)

Scoping == \A s \in Shipments, m \in Milestones : Scoped(s, m)

LEMMA ScopedNext ==
    ASSUME ExactTerms, TypeOK, Scoping, [Next]_vars
    PROVE  Scoping'
  <1> SUFFICES ASSUME NEW t \in Shipments, NEW k \in Milestones PROVE Scoped(t, k)'
    BY DEF Scoping
  <1>0. /\ contested \in PerMilestone(0 .. 99) /\ pendingSplit \in PerMilestone(Nat \cup {NoSplit})
        /\ Scoped(t, k)
    BY DEF TypeOK, DisputeTyped, Scoping
  <1> USE DEF PerMilestone, Scoped, Gross
  <1>1. CASE UNCHANGED <<contested, pendingSplit>>
    BY <1>0, <1>1
  <1>2. ASSUME NEW s \in Shipments, NEW prune \in BOOLEAN, NEW rulings,
               PruneAuxiliary(s, prune, rulings, contested), UNCHANGED pendingSplit
        PROVE  Scoped(t, k)'
    BY <1>0, <1>2 DEF PruneAuxiliary, Pruned
  <1>3. ASSUME NEW s \in Shipments, NEW m \in Milestones, MilestoneStep(s, m) PROVE Scoped(t, k)'
    <2>0. DisputedAmount(s, m) = Gross(m)
      BY DEF Scoping, DisputedAmount
    <2>1. CASE \/ SubmitProof(s, m) \/ ConfirmMilestone(s, m) \/ HoldMilestone(s, m)
               \/ ReleaseHeldPayment(s, m) \/ ClaimAutoConfirmation(s, m) \/ RaiseDispute(s, m)
               \/ WithdrawDispute(s, m) \/ HandOffToBackup(s, m)
               \/ \E oracle \in Oracles : ReportConditionBreach(s, m, oracle)
      BY <1>1, <2>1 DEF SubmitProof, ConfirmMilestone, HoldMilestone, ReleaseHeldPayment,
         ClaimAutoConfirmation, RaiseDispute, WithdrawDispute, HandOffToBackup,
         ReportConditionBreach, rulingVars
    <2>2. CASE \E percent \in ContestedPercents : RaisePartialDispute(s, m, percent)
      BY <2>2 DEF ExactTerms
    <2>3. CASE \E approve \in BOOLEAN : ResolveDispute(s, m, approve)
      BY <1>0, <2>3 DEF ResolveDispute
    <2>4. CASE ResolveDisputeSplit(s, m)
      <3>1. CASE SplitDelay(s, m) > 0
        BY <1>0, <2>0, <2>4, <3>1 DEF ResolveDisputeSplit
      <3>2. CASE ~(SplitDelay(s, m) > 0)
        <4>1. /\ UNCHANGED pendingSplit
              /\ contested' = Pruned([contested EXCEPT ![s][m] = 0], s, 0, AllMilestonesDone(mstatus'[s]))
          BY <2>4, <3>2 DEF ResolveDisputeSplit, PruneAuxiliary
        <4> QED
          BY <1>0, <4>1 DEF Pruned
      <3> QED
        BY <3>1, <3>2
    <2>5. CASE FinalizeDisputeResolution(s, m)
      <3>1. /\ pendingSplit' = [pendingSplit EXCEPT ![s][m] = NoSplit]
            /\ \E prune \in BOOLEAN :
                  \/ contested' = Pruned([contested EXCEPT ![s][m] = 0], s, 0, prune)
                  \/ contested' = Pruned(contested, s, 0, prune)
        BY <2>5 DEF FinalizeDisputeResolution, PruneAuxiliary
      <3> QED
        BY <1>0, <3>1 DEF Pruned
    <2>6. CASE \E other \in Arbiters : AppealDispute(s, m, other)
      BY <1>0, <2>6 DEF AppealDispute
    <2>7. CASE ResolveDisputeTimeout(s, m)
      BY <1>0, <2>7 DEF ResolveDisputeTimeout
    <2>8. CASE ClaimDeadlineRefund(s, m)
      BY <1>2, <2>8 DEF ClaimDeadlineRefund, CloseEarly
    <2> QED
      BY <1>3, <2>1, <2>2, <2>3, <2>4, <2>5, <2>6, <2>7, <2>8 DEF MilestoneStep
  <1>4. ASSUME NEW s \in Shipments, ShipmentStep(s) PROVE Scoped(t, k)'
    <2>1. CASE CreateShipment(s) \/ \E list \in BatchLists : BatchConfirmMilestones(s, list)
      BY <1>1, <2>1 DEF CreateShipment, BatchConfirmMilestones, rulingVars
    <2>2. CASE CancelShipment(s) \/ SupplierCancel(s) \/ EmergencyRecover(s)
      BY <1>2, <2>2 DEF CancelShipment, SupplierCancel, EmergencyRecover, CloseEarly
    <2> QED
      BY <1>4, <2>1, <2>2 DEF ShipmentStep
  <1>5. CASE AdminStep \/ Tick \/ UNCHANGED vars
    BY <1>1, <1>5 DEF AdminStep, Tick, vars, rulingVars
  <1> QED
    BY <1>3, <1>4, <1>5 DEF Next

LEMMA StandingNow ==
    ASSUME ExactTerms, TypeOK, Scoping, SafeWindows => SettlementInv
    PROVE  ExactState
  <1> SUFFICES ASSUME NEW s \in Shipments, NEW m \in Milestones PROVE Stands(s, m)
    BY DEF ExactState, Scoping
  <1>1. CASE AppealWindow = 0
    BY <1>1 DEF Stands, MayAppeal
  <1>2. CASE SafeWindows
    <2>1. RulingOutOfReach(s, m) /\ Valued(s, m)
      BY <1>2, MilestoneValues DEF SettlementInv
    <2> QED
      BY <2>1 DEF RulingOutOfReach, Valued, Unappealable, Stands, Settled, MayAppeal
  <1> QED
    BY <1>1, <1>2 DEF ExactTerms

-----------------------------------------------------------------------------
(* The books of a shipment: final milestones are paid their weight and the
   others nothing, what was released is what was paid, and closing early, and
   nothing else, refunds what was not released. *)

BooksOf(pays, done, credit, refund, st) ==
    /\ \A m \in Milestones : pays[m] = IF m \in done THEN Gross(m) ELSE 0
    /\ credit = WeightSum(done)
    /\ refund = IF st \in {"Cancelled", "Expired"} THEN TotalAmount - credit ELSE 0
    /\ st = "None" => done = {}
Books == \A s \in Shipments : BooksOf(paid[s], Settled[s], released[s], refunded[s], status[s])

LEMMA BooksInit == Init => Books
  <1> SUFFICES ASSUME Init, NEW s \in Shipments
               PROVE  BooksOf(paid[s], Settled[s], released[s], refunded[s], status[s])
    BY DEF Books
  <1>1. Settled[s] = {}
    BY DEF Init, Everywhere, Settled
  <1> QED
    BY <1>1, WeightSumNone DEF Init, Everywhere, BooksOf

LEMMA SettledPart ==
    ASSUME NEW s \in Shipments
    PROVE  Settled[s] \in SUBSET Milestones
  BY DEF Settled

(* Released weight never exceeds the deposit. *)
LEMMA ReleasedWithinDeposit ==
    ASSUME PercentsWhole, NEW done \in SUBSET Milestones
    PROVE  WeightSum(done) \in Nat /\ WeightSum(done) <= TotalAmount
  <1>1. Milestones \ done \in SUBSET Milestones /\ done \cap (Milestones \ done) = {}
        /\ done \cup (Milestones \ done) = Milestones
    OBVIOUS
  <1>2. WeightSum(done \cup (Milestones \ done)) = WeightSum(done) + WeightSum(Milestones \ done)
    BY <1>1, WeightSumUnion
  <1>3. WeightSum(Milestones) = WeightSum(done) + WeightSum(Milestones \ done)
    BY <1>1, <1>2
  <1>4. WeightSum(done) \in Nat /\ WeightSum(Milestones \ done) \in Nat /\ TotalAmount \in Nat
    BY <1>1, WeightSumNat, SizeAssumption
  <1>5. WeightSum(Milestones) <= TotalAmount
    BY WeightsWithinDeposit
  <1> QED
    BY <1>3, <1>4, <1>5

LEMMA BooksKept ==
    ASSUME PercentsWhole, TypeOK, Books, NEW s \in Shipments,
           Funds(s) \/ Refunds(s) \/ \E ms \in SUBSET Milestones : Settles(s, ms)
    PROVE  Books'
  <1> SUFFICES ASSUME NEW t \in Shipments
               PROVE  BooksOf(paid'[t], Settled'[t], released'[t], refunded'[t], status'[t])
    BY DEF Books
  <1>0. /\ paid \in PerMilestone(Nat) /\ released \in [Shipments -> Int]
        /\ refunded \in [Shipments -> Int] /\ status \in [Shipments -> Statuses]
        /\ Settled \in [Shipments -> SUBSET Milestones] /\ TotalAmount \in Nat
        /\ BooksOf(paid[t], Settled[t], released[t], refunded[t], status[t])
    BY SizeAssumption DEF TypeOK, ShipmentTyped, MoneyTyped, Settled, Books
  <1>1. CASE Funds(s)
    BY <1>0, <1>1 DEF Funds, BooksOf
  <1>2. CASE Refunds(s)
    <2>1. CASE t # s
      BY <1>0, <1>2, <2>1 DEF Refunds
    <2>2. CASE t = s
      <3>1. /\ paid'[s] = paid[s] /\ Settled'[s] = Settled[s] /\ released'[s] = released[s]
            /\ status'[s] \in {"Cancelled", "Expired"} /\ status[s] = "Active"
            /\ refunded'[s] = refunded[s] + Monus(Remaining(s), 0)
        BY <1>0, <1>2 DEF Refunds, Open
      <3>2. /\ released[s] = WeightSum(Settled[s]) /\ refunded[s] = 0
        BY <1>0, <2>2, <3>1 DEF BooksOf
      <3>3. WeightSum(Settled[s]) \in Nat /\ WeightSum(Settled[s]) <= TotalAmount
        BY SettledPart, ReleasedWithinDeposit
      <3>4. refunded'[s] = TotalAmount - released[s]
        BY <1>0, <3>1, <3>2, <3>3 DEF Monus, Remaining
      <3> QED
        BY <1>0, <2>2, <3>1, <3>4 DEF BooksOf
    <2> QED
      BY <2>1, <2>2
  <1>3. ASSUME NEW ms \in SUBSET Milestones, Settles(s, ms)
        PROVE  BooksOf(paid'[t], Settled'[t], released'[t], refunded'[t], status'[t])
    <2>1. CASE t # s
      BY <1>0, <1>3, <2>1 DEF Settles, Completes
    <2>2. CASE t = s
      <3>1. /\ ms \cap Settled[s] = {} /\ Settled'[s] = Settled[s] \cup ms
            /\ released'[s] = released[s] + WeightSum(ms) /\ refunded'[s] = refunded[s]
            /\ status[s] = "Active" /\ status'[s] \in {"Active", "Completed"}
        BY <1>0, <1>3 DEF Settles, Open, Completes
      <3>2. \A m \in Milestones : paid'[s][m] = IF m \in ms THEN paid[s][m] + Gross(m) ELSE paid[s][m]
        BY <1>0, <1>3 DEF Settles, PerMilestone
      <3>3. WeightSum(Settled[s] \cup ms) = WeightSum(Settled[s]) + WeightSum(ms)
        BY <3>1, SettledPart, WeightSumUnion
      <3>4. \A m \in Milestones : paid'[s][m] = IF m \in Settled'[s] THEN Gross(m) ELSE 0
        <4> TAKE m \in Milestones
        <4>1. Gross(m) \in Nat /\ paid[s][m] = IF m \in Settled[s] THEN Gross(m) ELSE 0
          BY <1>0, <2>2, GrossNat DEF BooksOf
        <4> QED
          BY <3>1, <3>2, <4>1
      <3>5. released[s] = WeightSum(Settled[s]) /\ refunded[s] = 0
        BY <1>0, <2>2, <3>1 DEF BooksOf
      <3>6. released'[s] = WeightSum(Settled'[s])
        BY <3>1, <3>3, <3>5
      <3> QED
        BY <2>2, <3>1, <3>4, <3>5, <3>6 DEF BooksOf
    <2> QED
      BY <2>1, <2>2
  <1> QED
    BY <1>1, <1>2, <1>3

LEMMA BooksStill ==
    ASSUME Books, Still
    PROVE  Books'
  BY DEF Books, Still

(* The inductive invariant of the theorems below. *)
FundsInv == Scoping /\ Books /\ (SafeWindows => SettlementInv)

LEMMA FundsInit == Init => FundsInv
  <1>1. Init => Scoping
    BY DEF Init, Everywhere, Scoping, Scoped
  <1> QED
    BY <1>1, BooksInit, SettlementInit DEF FundsInv

LEMMA FundsNext ==
    ASSUME PercentsWhole, ExactTerms, TypeOK, TypeOK', FundsInv, [Next]_vars
    PROVE  FundsInv'
  <1>1. Scoping' /\ ExactState
    BY ScopedNext, StandingNow DEF FundsInv
  <1>2. Books'
    BY <1>1, StepFunds, BooksKept, BooksStill DEF FundsInv
  <1>3. (SafeWindows => SettlementInv)'
    <2>1. SafeWindows' = SafeWindows
      BY DEF SafeWindows, Occurrences
    <2> QED
      BY <2>1, SettlementNext DEF FundsInv
  <1> QED
    BY <1>1, <1>2, <1>3 DEF FundsInv

(* The books of every shipment stay exact: each final milestone has been paid its
   weight and the others nothing, what is released is the weight of the final ones,
   and closing early, and nothing else, refunds the rest of the deposit. *)
THEOREM BooksStayExact == ASSUME PercentsWhole, ExactTerms PROVE Spec => []FundsInv
  <1>1. TypeOK /\ TypeOK' /\ FundsInv /\ [Next]_vars => FundsInv'
    BY FundsNext
  <1> QED
    BY <1>1, FundsInit, TypeCorrect, PTL DEF Spec

(* What a shipment's milestones are paid adds up to what was released. *)
LEMMA PaidSum ==
    ASSUME NEW pays, NEW done \in SUBSET Milestones,
           \A m \in Milestones : pays[m] = IF m \in done THEN Gross(m) ELSE 0
    PROVE  SumFunctionOnSet(pays, Milestones) = WeightSum(done)
  <1>1. IsFiniteSet(Milestones) /\ IsFiniteSet(done)
    BY MilestonesFinite
  <1>2. (\A m \in done : pays[m] \in Int /\ pays[m] = Weights[m]) /\ \A m \in Milestones \ done : pays[m] = 0
    BY GrossNat DEF Weights
  <1>3. SumFunctionOnSet(pays, Milestones) = SumFunctionOnSet(pays, done)
    BY <1>1, <1>2, SumOverPart
  <1>4. SumFunctionOnSet(pays, done) = SumFunctionOnSet(Weights, done)
    BY <1>1, <1>2, SumCongruence
  <1> QED
    BY <1>3, <1>4 DEF WeightSum

(* A shipment never draws more than its own deposit from the contract, in
   payments and refund together, whatever the order of confirmations, disputes,
   rulings and ways to close it early: no other shipment's funds back it. *)
THEOREM DepositIsCeiling == ASSUME PercentsWhole, ExactTerms PROVE Spec => []WithinDeposit
  <1>1. ASSUME TypeOK, FundsInv, NEW s \in Shipments
        PROVE  MapThenSumSet(LAMBDA m : paid[s][m], Milestones) + refunded[s] <= TotalAmount
    <2>1. BooksOf(paid[s], Settled[s], released[s], refunded[s], status[s])
      BY <1>1 DEF FundsInv, Books
    <2>2. MapThenSumSet(LAMBDA m : paid[s][m], Milestones) = SumFunctionOnSet(paid[s], Milestones)
      BY DEF MapThenSumSet, SumFunctionOnSet, FoldFunctionOnSet
    <2>3. SumFunctionOnSet(paid[s], Milestones) = WeightSum(Settled[s])
      BY <2>1, SettledPart, PaidSum DEF BooksOf
    <2>4. WeightSum(Settled[s]) \in Nat /\ WeightSum(Settled[s]) <= TotalAmount /\ TotalAmount \in Nat
      BY SettledPart, ReleasedWithinDeposit, SizeAssumption
    <2>5. refunded[s] = 0 \/ refunded[s] = TotalAmount - WeightSum(Settled[s])
      BY <2>1 DEF BooksOf
    <2> QED
      BY <2>2, <2>3, <2>4, <2>5
  <1>2. TypeOK /\ FundsInv => WithinDeposit
    BY <1>1 DEF WithinDeposit
  <1> QED
    BY <1>2, BooksStayExact, TypeCorrect, PTL

-----------------------------------------------------------------------------
(* The balance and what the open shipments still have in escrow. *)

Left(r) == [s \in Shipments |-> TotalAmount - r[s]]
ActiveOnes == {s \in Shipments : status[s] = "Active"}

LEMMA LeftSum ==
    ASSUME NEW r, NEW A \in SUBSET Shipments, IsFiniteSet(A)
    PROVE  MapThenSumSet(LAMBDA s : TotalAmount - r[s], A) = SumFunctionOnSet(Left(r), A)
  <1> DEFINE f == Left(r)
             Adds(g) == g = [T \in SUBSET A |->
                 IF T = {} THEN 0 ELSE (TotalAmount - r[Some(T)]) + g[T \ {Some(T)}]]
             k == CHOOSE g : Adds(g)
  <1>1. MapThenSumSet(LAMBDA s : TotalAmount - r[s], A) = k[A]
    BY DEF MapThenSumSet, MapThenFoldSet, Some
  <1>2. \A T \in SUBSET A : T # {} => f[Some(T)] = TotalAmount - r[Some(T)]
    BY SomeMember DEF Left
  <1>3. ASSUME NEW g PROVE Adds(g) <=> RecursiveSum(g, f, A)
    <2>1. [T \in SUBSET A |-> IF T = {} THEN 0 ELSE (TotalAmount - r[Some(T)]) + g[T \ {Some(T)}]]
          = [T \in SUBSET A |-> IF T = {} THEN 0 ELSE f[Some(T)] + g[T \ {Some(T)}]]
      <3> HIDE DEF f
      <3> QED
        BY <1>2
    <2> HIDE DEF f
    <2> QED
      BY <2>1 DEF RecursiveSum
  <1> HIDE DEF f, Adds
  <1>4. \E g : Adds(g)
    BY <1>3, RecursiveSumExists
  <1>5. Adds(k)
    BY <1>4
  <1>6. RecursiveSum(k, f, A)
    BY <1>3, <1>5
  <1> HIDE DEF k
  <1>7. SumFunctionOnSet(f, A) = k[A]
    BY <1>6, SumIsRecursive
  <1> QED
    BY <1>1, <1>7 DEF f

LEMMA BackedSum ==
    ASSUME IsFiniteSet(Shipments)
    PROVE  EscrowBacked <=> balance = SumFunctionOnSet(Left(released), ActiveOnes)
  <1>1. ActiveOnes \in SUBSET Shipments /\ IsFiniteSet(ActiveOnes)
    BY FS_Subset DEF ActiveOnes
  <1>2. MapThenSumSet(LAMBDA s : TotalAmount - released[s], ActiveOnes)
            = SumFunctionOnSet(Left(released), ActiveOnes)
    BY <1>1, LeftSum
  <1> QED
    BY <1>2 DEF EscrowBacked, Remaining, ActiveOnes

LEMMA BackedSumNext ==
    ASSUME IsFiniteSet(Shipments)
    PROVE  EscrowBacked' <=> balance' = SumFunctionOnSet(Left(released'), ActiveOnes')
  <1>1. ActiveOnes' \in SUBSET Shipments /\ IsFiniteSet(ActiveOnes')
    <2>1. ActiveOnes' \in SUBSET Shipments
      BY DEF ActiveOnes
    <2> QED
      BY <2>1, FS_Subset
  <1>2. MapThenSumSet(LAMBDA s : TotalAmount - released'[s], ActiveOnes')
            = SumFunctionOnSet(Left(released'), ActiveOnes')
    BY <1>1, LeftSum
  <1> QED
    BY <1>2 DEF EscrowBacked, Remaining, ActiveOnes, MapThenSumSet, MapThenFoldSet

LEMMA BackedKept ==
    ASSUME IsFiniteSet(Shipments), Bond = 0, NoDust, PercentsWhole, TypeOK, Books,
           balance = SumFunctionOnSet(Left(released), ActiveOnes),
           NEW s \in Shipments,
           Funds(s) \/ Refunds(s) \/ \E ms \in SUBSET Milestones : Settles(s, ms)
    PROVE  balance' = SumFunctionOnSet(Left(released'), ActiveOnes')
  <1> DEFINE f == Left(released)
             h == Left(released')
             A == ActiveOnes
  <1>0. /\ released \in [Shipments -> Int] /\ status \in [Shipments -> Statuses]
        /\ TotalAmount \in Nat /\ balance \in Nat /\ released[s] \in Int
        /\ BooksOf(paid[s], Settled[s], released[s], refunded[s], status[s])
    BY SizeAssumption DEF TypeOK, ShipmentTyped, MoneyTyped, Books
  <1>1. IsFiniteSet(A) /\ A \in SUBSET Shipments /\ IsFiniteSet(A \ {s})
    <2>1. A \in SUBSET Shipments /\ A \ {s} \in SUBSET Shipments
      BY DEF ActiveOnes
    <2> QED
      BY <2>1, FS_Subset
  <1>2. \A t \in Shipments : f[t] = TotalAmount - released[t] /\ f[t] \in Int
    BY <1>0 DEF Left
  <1>3. \A t \in Shipments : h[t] = TotalAmount - released'[t]
    BY DEF Left
  <1>4. released[s] = WeightSum(Settled[s]) /\ released[s] \in Nat /\ released[s] <= TotalAmount
    BY <1>0, SettledPart, ReleasedWithinDeposit DEF BooksOf
  <1>5. SumFunctionOnSet(f, A) \in Int /\ SumFunctionOnSet(f, A \ {s}) \in Int
    BY <1>1, <1>2, SumInt
  <1>6. s \in A => balance = f[s] + SumFunctionOnSet(f, A \ {s})
    BY <1>1, <1>2, SumRemove
  <1>7. CASE Funds(s)
    <2>1. A' = A \cup {s} /\ s \notin A /\ released' = released /\ balance' = balance + TotalAmount
      BY <1>0, <1>7 DEF Funds, ActiveOnes
    <2>2. released[s] = 0
      BY <1>0, <1>7, WeightSumNone DEF Funds, BooksOf
    <2>3. SumFunctionOnSet(f, A \cup {s}) = f[s] + SumFunctionOnSet(f, A)
      <3>1. \A t \in A \cup {s} : f[t] \in Int
        BY <1>1, <1>2
      <3> HIDE DEF f, A
      <3> QED
        BY <1>1, <2>1, <3>1, SumAdd
    <2>4. f[s] = TotalAmount
      BY <1>0, <1>2, <2>2
    <2> QED
      BY <1>0, <1>5, <2>1, <2>3, <2>4
  <1>8. CASE Refunds(s)
    <2>1. /\ A' = A \ {s} /\ s \in A /\ released' = released
          /\ balance' = balance - Monus(Remaining(s), 0)
      BY <1>0, <1>8 DEF Refunds, Open, ActiveOnes
    <2>2. Monus(Remaining(s), 0) = f[s]
      BY <1>0, <1>2, <1>4 DEF Monus, Remaining
    <2> HIDE DEF f, A
    <2>3. balance' = SumFunctionOnSet(f, A \ {s})
      BY <1>0, <1>2, <1>5, <1>6, <2>1, <2>2
    <2> QED
      BY <2>1, <2>3 DEF f, A
  <1>9. ASSUME NEW ms \in SUBSET Milestones, Settles(s, ms)
        PROVE  balance' = SumFunctionOnSet(h, A')
    <2>1. /\ s \in A /\ released' = [released EXCEPT ![s] = @ + WeightSum(ms)]
          /\ balance' = balance - WeightSum(ms) /\ ms \cap Settled[s] = {}
          /\ Settled'[s] = Settled[s] \cup ms
      BY <1>9 DEF Settles, Open, ActiveOnes, Settled
    <2>2. WeightSum(ms) \in Nat
      BY WeightSumNat
    <2>3. /\ h[s] = f[s] - WeightSum(ms) /\ h[s] \in Int
          /\ \A t \in A \ {s} : h[t] = f[t]
      <3>1. h[s] = TotalAmount - (released[s] + WeightSum(ms))
        BY <1>0, <1>3, <2>1
      <3>2. ASSUME NEW t \in A \ {s} PROVE h[t] = f[t]
        <4>1. t \in Shipments /\ t # s
          BY <1>1
        <4>2. released'[t] = released[t]
          BY <1>0, <2>1, <4>1
        <4> HIDE DEF f, h
        <4> QED
          BY <1>2, <1>3, <4>1, <4>2
      <3> HIDE DEF f, h
      <3> QED
        BY <1>0, <1>2, <2>2, <3>1, <3>2
    <2>4. CASE UNCHANGED status
      <3>1. A' = A
        BY <2>4 DEF ActiveOnes
      <3> HIDE DEF f, h, A
      <3>2. SumFunctionOnSet(h, A) = SumFunctionOnSet(f, A) + (h[s] - f[s])
        BY <1>1, <1>2, <2>1, <2>3, SumChange
      <3>3. balance = SumFunctionOnSet(f, A)
        BY DEF f, A
      <3> QED
        BY <1>2, <1>5, <2>1, <2>2, <2>3, <3>1, <3>2, <3>3
    <2>5. CASE Completes(s)
      <3>1. A' = A \ {s}
        BY <1>0, <2>5 DEF Completes, ActiveOnes
      <3>2. Settled'[s] = Milestones
        BY <2>5 DEF Completes, AllMilestonesDone, Settled
      <3>3. WeightSum(Settled[s]) + WeightSum(ms) = TotalAmount
        <4>1. WeightSum(Settled[s] \cup ms) = WeightSum(Settled[s]) + WeightSum(ms)
          BY <2>1, SettledPart, WeightSumUnion
        <4> QED
          BY <2>1, <3>2, <4>1, WeightsWithinDeposit
      <3>4. f[s] = WeightSum(ms)
        BY <1>0, <1>2, <1>4, <2>2, <3>3
      <3> HIDE DEF f, h, A
      <3>5. SumFunctionOnSet(h, A \ {s}) = SumFunctionOnSet(f, A \ {s})
        BY <1>1, <2>3, SumCongruence
      <3> QED
        BY <1>0, <1>5, <1>6, <2>1, <2>2, <3>1, <3>4, <3>5
    <2> QED
      BY <1>9, <2>4, <2>5 DEF Settles
  <1> QED
    BY <1>7, <1>8, <1>9

(* The contract's token balance is, at every moment, exactly what the open
   shipments report to have left in escrow: no path leaves a token behind for
   nobody or owes one that is not there.  Without bonds, and with shares that
   need no rounding. *)
THEOREM EscrowStaysBacked ==
    ASSUME IsFiniteSet(Shipments), PercentsWhole, NoDust, ExactTerms, Bond = 0
    PROVE  Spec => []EscrowBacked
  <1>1. Init => EscrowBacked
    <2>1. Init => balance = 0 /\ ActiveOnes = {}
      BY DEF Init, ActiveOnes
    <2> QED
      BY <2>1, BackedSum, SumEmpty
  <1>2. TypeOK /\ TypeOK' /\ FundsInv /\ EscrowBacked /\ [Next]_vars => EscrowBacked'
    <2> SUFFICES ASSUME TypeOK, TypeOK', FundsInv, EscrowBacked, [Next]_vars PROVE EscrowBacked'
      OBVIOUS
    <2>1. Scoping /\ Books /\ ExactState
      BY StandingNow DEF FundsInv
    <2>2. balance = SumFunctionOnSet(Left(released), ActiveOnes)
      BY BackedSum
    <2>3. CASE Still
      BY <2>2, <2>3, BackedSumNext DEF Still, ActiveOnes
    <2>4. ASSUME NEW s \in Shipments,
                 Funds(s) \/ Refunds(s) \/ \E ms \in SUBSET Milestones : Settles(s, ms)
          PROVE  EscrowBacked'
      BY <2>1, <2>2, <2>4, BackedKept, BackedSumNext
    <2> QED
      BY <2>1, <2>3, <2>4, StepFunds
  <1> QED
    BY <1>1, <1>2, BooksStayExact, TypeCorrect, PTL DEF Spec

-----------------------------------------------------------------------------
(* The refinement of EscrowPromise, step by step. *)

LEMMA WeightOfIsSum ==
    ASSUME NEW ms
    PROVE  Escrow!WeightOf(ms) = WeightSum(ms)
  BY DEF SumFunctionOnSet, FoldFunctionOnSet, MapThenFoldSet, Escrow!WeightOf,
     Escrow!MapThenSumSet, Escrow!MapThenFoldSet, WeightSum, Weights

LEMMA StartsAsPromised == Init => Escrow!Start
  BY DEF Init, Everywhere, Settled, Escrow!Start

LEMMA FundsAsPromised ==
    ASSUME NoDust, PercentsWhole, Bond = 0, NEW s \in Shipments, Funds(s)
    PROVE  Escrow!Fund(s)
  <1>1. Escrow!WeightOf(Milestones) = TotalAmount
    BY WeightOfIsSum, WeightsWithinDeposit
  <1> QED
    BY <1>1 DEF Funds, Escrow!Fund

LEMMA RefundsAsPromised ==
    ASSUME NoDust, PercentsWhole, TypeOK, Books, NEW s \in Shipments, Refunds(s)
    PROVE  Escrow!CloseWithRefund(s)
  <1>0. released[s] = WeightSum(Settled[s]) /\ TotalAmount \in Nat
    BY SizeAssumption DEF Books, BooksOf
  <1>1. WeightSum(Settled[s]) \in Nat /\ WeightSum(Settled[s]) <= TotalAmount
    BY SettledPart, ReleasedWithinDeposit
  <1> DEFINE rest == Milestones \ Settled[s]
  <1>2. WeightSum(rest) = TotalAmount - WeightSum(Settled[s])
    <2>1. /\ rest \in SUBSET Milestones /\ Settled[s] \in SUBSET Milestones
          /\ Settled[s] \cap rest = {} /\ Settled[s] \cup rest = Milestones
      BY SettledPart
    <2> HIDE DEF rest
    <2>2. WeightSum(Settled[s] \cup rest) = WeightSum(Settled[s]) + WeightSum(rest)
      BY <2>1, WeightSumUnion
    <2>3. WeightSum(rest) \in Nat /\ WeightSum(Milestones) = TotalAmount
      BY <2>1, WeightSumNat, WeightsWithinDeposit
    <2>4. WeightSum(Milestones) = WeightSum(Settled[s]) + WeightSum(rest)
      BY <2>1, <2>2
    <2> QED
      BY <1>1, <2>3, <2>4
  <1>3. Monus(Remaining(s), 0) = Escrow!WeightOf(Escrow!Unsettled(s))
    <2>1. Escrow!Unsettled(s) = rest
      BY DEF Escrow!Unsettled
    <2>2. Monus(Remaining(s), 0) = TotalAmount - WeightSum(Settled[s])
      BY <1>0, <1>1 DEF Monus, Remaining
    <2> HIDE DEF rest
    <2> QED
      BY <1>2, <2>1, <2>2, WeightOfIsSum
  <1> QED
    BY <1>3 DEF Refunds, Open, Escrow!CloseWithRefund

LEMMA SettlesAsPromised ==
    ASSUME Bond = 0, TypeOK, DoneMeansClosed, DoneMeansClosed', NEW s \in Shipments,
           NEW ms \in SUBSET Milestones, Settles(s, ms)
    PROVE  Escrow!Settle(s) \/ UNCHANGED Escrow!promiseVars
  <1>0. /\ status \in [Shipments -> Statuses] /\ balance \in Nat
        /\ status[s] = "Active" /\ ms \subseteq Milestones \ Settled[s]
        /\ Settled' = [Settled EXCEPT ![s] = @ \cup ms] /\ Settled'[s] = Settled[s] \cup ms
        /\ balance' = balance - WeightSum(ms)
    BY DEF TypeOK, ShipmentTyped, MoneyTyped, Settles, Open, Settled
  <1>1. ~AllMilestonesDone(mstatus[s])
    BY <1>0 DEF DoneMeansClosed
  <1>2. Settled[s] # Milestones
    BY <1>1 DEF Settled, AllMilestonesDone
  <1>3. AllMilestonesDone(mstatus'[s]) <=> ms = Milestones \ Settled[s]
    <2>1. AllMilestonesDone(mstatus'[s]) <=> Settled'[s] = Milestones
      BY DEF Settled, AllMilestonesDone
    <2> QED
      BY <1>0, <2>1, SettledPart
  <1>4. status' = IF ms = Milestones \ Settled[s] THEN [status EXCEPT ![s] = "Completed"] ELSE status
    <2>1. CASE UNCHANGED status
      <3>1. ~AllMilestonesDone(mstatus'[s])
        BY <1>0, <2>1 DEF DoneMeansClosed
      <3> QED
        BY <1>3, <2>1, <3>1
    <2>2. CASE Completes(s)
      BY <1>3, <2>2 DEF Completes
    <2> QED
      BY <2>1, <2>2 DEF Settles
  <1>5. CASE ms = {}
    <2>1. Settled' = Settled
      BY <1>0, <1>5 DEF Settled
    <2>2. status' = status
      BY <1>2, <1>4, <1>5, SettledPart
    <2>3. balance' = balance
      BY <1>0, <1>5, WeightSumNone
    <2> QED
      BY <2>1, <2>2, <2>3 DEF Escrow!promiseVars
  <1>6. CASE ms # {}
    <2>1. Escrow!Unsettled(s) = Milestones \ Settled[s]
      BY DEF Escrow!Unsettled
    <2>2. balance' = balance - Escrow!WeightOf(ms)
      BY <1>0, WeightOfIsSum
    <2> QED
      BY <1>0, <1>4, <1>6, <2>1, <2>2 DEF Escrow!Settle
  <1> QED
    BY <1>5, <1>6

(* The contract implements the promise to the two parties: through every
   interleaving of confirmations, disputes, rulings, appeals and closings each
   milestone's weight leaves the pool once, the shipment completes with its
   last milestone, and closing early returns the weights not yet paid. *)
THEOREM PromiseImplemented ==
    ASSUME PercentsWhole, NoDust, ExactTerms, Bond = 0, DisputeTimeout = 0
    PROVE  Spec => EscrowPromiseKept
  <1> DEFINE Step == \E s \in Shipments :
                 Escrow!Fund(s) \/ Escrow!Settle(s) \/ Escrow!CloseWithRefund(s)
  <1>1. Spec => []DoneMeansClosed
    BY NothingLeftOpen
  <1>2. /\ TypeOK /\ TypeOK' /\ FundsInv /\ DoneMeansClosed /\ DoneMeansClosed' /\ [Next]_vars
        => [Step]_(Escrow!promiseVars)
    <2> SUFFICES ASSUME TypeOK, TypeOK', FundsInv, DoneMeansClosed, DoneMeansClosed', [Next]_vars
                 PROVE  Step \/ UNCHANGED Escrow!promiseVars
      OBVIOUS
    <2>1. Books /\ ExactState
      BY StandingNow DEF FundsInv
    <2>2. CASE Still
      BY <2>2 DEF Still, Escrow!promiseVars
    <2>3. ASSUME NEW s \in Shipments, Funds(s) \/ Refunds(s) PROVE Step
      BY <2>1, <2>3, FundsAsPromised, RefundsAsPromised
    <2>4. ASSUME NEW s \in Shipments, NEW ms \in SUBSET Milestones, Settles(s, ms)
          PROVE  Step \/ UNCHANGED Escrow!promiseVars
      BY <2>4, SettlesAsPromised
    <2> QED
      BY <2>1, <2>2, <2>3, <2>4, StepFunds
  <1>3. Init => Escrow!Start
    BY StartsAsPromised
  <1> QED
    BY <1>1, <1>2, <1>3, BooksStayExact, TypeCorrect, PTL
    DEF Spec, EscrowPromiseKept, Escrow!Promise
=============================================================================
