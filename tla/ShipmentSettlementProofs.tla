---------------------- MODULE ShipmentSettlementProofs ----------------------
(***************************************************************************)
(* No milestone's weight is paid twice: SettledOnce, for every number of   *)
(* shipments and milestones and every configuration whose windows are in   *)
(* the order SafeWindows names.                                            *)
(***************************************************************************)
EXTENDS ShipmentEscrowProofs

Settling(s, m) == PaidOnlyWhenFinal(s, m) /\ RulingOutOfReach(s, m)

(* The step leaves what the invariant says of this milestone alone, except that
   it may drop the records of its last dispute. *)
Untouched(t, k) ==
    /\ paid'[t][k] = paid[t][k] /\ mstatus'[t][k] = mstatus[t][k]
    /\ proofLedger'[t][k] = proofLedger[t][k] /\ releaseAfter'[t][k] = releaseAfter[t][k]
    /\ pendingSplit'[t][k] = pendingSplit[t][k]
    /\ \/ /\ contested'[t][k] = contested[t][k] /\ resolvedAt'[t][k] = resolvedAt[t][k]
          /\ appealed'[t][k] = appealed[t][k]
       \/ contested'[t][k] = 0 /\ resolvedAt'[t][k] = None

(* The invariant of a milestone survives a step that leaves it alone. *)
LEMMA Framed ==
    ASSUME NEW t \in Shipments, NEW k \in Milestones, TypeOK, TypeOK', Settling(t, k),
           now' >= now, Untouched(t, k)
    PROVE  Settling(t, k)'
  <1>1. resolvedAt[t][k] \in Nat /\ now \in Nat /\ now' \in Nat /\ AppealWindow \in Nat
    BY WindowAssumption, SizeAssumption DEF TypeOK, AdminTyped, DisputeTyped, PerMilestone
  <1>2. PaidOnlyWhenFinal(t, k)'
    BY DEF Settling, PaidOnlyWhenFinal, Gross, Untouched
  <1>3. RulingOutOfReach(t, k)'
    BY <1>1 DEF Settling, RulingOutOfReach, Unappealable, Untouched, None
  <1> QED
    BY <1>2, <1>3 DEF Settling

Valued(s, m) ==
    /\ now \in Nat \ {0} /\ AppealWindow \in Nat /\ ConfirmCooldown \in Nat
    /\ AutoWindow \in Nat /\ FinalityDelay \in Nat /\ Holdback \in Nat
    /\ proofLedger[s][m] \in Nat /\ releaseAfter[s][m] \in Nat
    /\ resolvedAt[s][m] \in Nat /\ paid[s][m] \in Nat /\ Gross(m) \in Nat
    /\ appealed[s][m] \in BOOLEAN /\ mstatus[s][m] \in MilestoneStatuses

(* The values a milestone's records can have, in one fact for the provers. *)
LEMMA MilestoneValues ==
    ASSUME TypeOK, NEW s \in Shipments, NEW m \in Milestones
    PROVE  Valued(s, m)
  BY GrossNat, WindowAssumption, SizeAssumption
  DEF Valued, TypeOK, AdminTyped, DisputeTyped, MilestoneTyped, MoneyTyped, PerMilestone

(* Under safe windows a split is always parked. *)
LEMMA SplitParks ==
    ASSUME SafeWindows, NEW s \in Shipments, NEW m \in Milestones, Valued(s, m),
           ResolveDisputeSplit(s, m)
    PROVE  /\ Park(s, m, SplitDelay(s, m))
           /\ pendingSplit' = [pendingSplit EXCEPT ![s][m] = DisputedAmount(s, m)]
           /\ resolvedAt' = [resolvedAt EXCEPT ![s][m] = now]
           /\ UNCHANGED <<now, contested, appealed, proofLedger>>
  <1>1. SplitDelay(s, m) > 0
    BY DEF SplitDelay, SafeWindows, Valued
  <1> QED
    BY <1>1 DEF ResolveDisputeSplit

(* ... and a ruling for the supplier too: no ruling pays at once. *)
LEMMA RulingParks ==
    ASSUME SafeWindows, NEW s \in Shipments, NEW m \in Milestones, NEW approve \in BOOLEAN,
           Valued(s, m), contested[s][m] = 0, ResolveDispute(s, m, approve)
    PROVE  /\ \/ Park(s, m, FinalityDelay)
              \/ SetStatus(s, m, "Pending") /\ PayOut(s, m, 0, Bond, 0, 0) /\ UNCHANGED releaseAfter
           /\ contested' = [contested EXCEPT ![s][m] = 0]
           /\ pendingSplit' = [pendingSplit EXCEPT ![s][m] = NoSplit]
           /\ resolvedAt' = [resolvedAt EXCEPT ![s][m] = now]
           /\ UNCHANGED <<now, appealed, proofLedger>>
  <1>1. FinalityDelay > 0
    BY DEF SafeWindows, Valued
  <1> QED
    BY <1>1 DEF ResolveDispute, proofVars

(* Pruning drops a ruling and its scope together, or leaves both. *)
LEMMA PruneAt ==
    ASSUME NEW s \in Shipments, NEW prune \in BOOLEAN,
           resolvedAt \in PerMilestone(Nat), appealed \in PerMilestone(BOOLEAN),
           NEW scopes \in PerMilestone(0 .. 99),
           PruneAuxiliary(s, prune, resolvedAt, scopes),
           NEW t \in Shipments, NEW k \in Milestones
    PROVE  \/ resolvedAt'[t][k] = None /\ contested'[t][k] = 0
           \/ /\ resolvedAt'[t][k] = resolvedAt[t][k] /\ appealed'[t][k] = appealed[t][k]
              /\ contested'[t][k] = scopes[t][k]
  BY DEF PruneAuxiliary, Pruned, PerMilestone, None

(* A proof is submitted after the last ruling, and dated by it. *)
LEMMA SubmitProofSettles ==
    ASSUME SafeWindows, NEW s \in Shipments, NEW m \in Milestones, TypeOK, TypeOK',
           SettlementInv, SubmitProof(s, m), NEW t \in Shipments, NEW k \in Milestones
    PROVE  Settling(t, k)'
  <1>1. Settling(t, k) /\ Settling(s, m) /\ Valued(s, m)
    BY MilestoneValues DEF SettlementInv, Settling
  <1>2. CASE t = s /\ k = m
    <2>1. /\ mstatus[s][m] = "Pending"
      BY DEF SubmitProof
    <2>2. /\ mstatus'[s][m] = "ProofSubmitted" /\ proofLedger'[s][m] = now
          /\ UNCHANGED <<now, paid, contested, pendingSplit, resolvedAt, appealed>>
      BY DEF SubmitProof, SetStatus, TypeOK, MilestoneTyped, moneyVars, rulingVars, PerMilestone
    <2> QED
      BY <1>1, <1>2, <2>1, <2>2
      DEF Valued, Settling, PaidOnlyWhenFinal, RulingOutOfReach, Unappealable, SafeWindows, Gross
  <1>3. CASE ~(t = s /\ k = m)
    <2>1. Untouched(t, k) /\ now' = now
      BY <1>3
      DEF Untouched, SubmitProof, SetStatus, TypeOK, MilestoneTyped, moneyVars, rulingVars,
          PerMilestone
    <2> QED
      BY <1>1, <2>1, Framed DEF Valued
  <1> QED
    BY <1>2, <1>3

(* By the confirmation cooldown the last ruling is out of reach. *)
LEMMA ConfirmMilestoneSettles ==
    ASSUME SafeWindows, NEW s \in Shipments, NEW m \in Milestones, TypeOK, TypeOK',
           SettlementInv, ConfirmMilestone(s, m), NEW t \in Shipments, NEW k \in Milestones
    PROVE  Settling(t, k)'
  <1>1. Settling(t, k) /\ Settling(s, m) /\ Valued(s, m)
    BY MilestoneValues DEF SettlementInv, Settling
  <1>2. CASE t = s /\ k = m
    <2>1. /\ mstatus[s][m] = "ProofSubmitted"
          /\ now >= proofLedger[s][m] + ConfirmCooldown
      BY <1>1 DEF ConfirmMilestone, MayConfirm, CooledDown, SafeWindows, Valued
    <2>2. /\ mstatus'[s][m] = "Confirmed" /\ paid'[s][m] = paid[s][m] + Gross(m)
          /\ UNCHANGED <<now, proofLedger, contested, pendingSplit, resolvedAt, appealed>>
      BY DEF ConfirmMilestone, SetStatus, PayOut, TypeOK, MilestoneTyped, MoneyTyped, proofVars,
          rulingVars, PerMilestone
    <2> QED
      BY <1>1, <1>2, <2>1, <2>2
      DEF Valued, Settling, PaidOnlyWhenFinal, RulingOutOfReach, Unappealable, SafeWindows, Gross
  <1>3. CASE ~(t = s /\ k = m)
    <2>1. Untouched(t, k) /\ now' = now
      BY <1>3
      DEF Untouched, ConfirmMilestone, SetStatus, PayOut, TypeOK, MilestoneTyped, MoneyTyped,
          proofVars, rulingVars, PerMilestone
    <2> QED
      BY <1>1, <2>1, Framed DEF Valued
  <1> QED
    BY <1>2, <1>3

(* So it is when the payment is held back first. *)
LEMMA HoldMilestoneSettles ==
    ASSUME SafeWindows, NEW s \in Shipments, NEW m \in Milestones, TypeOK, TypeOK',
           SettlementInv, HoldMilestone(s, m), NEW t \in Shipments, NEW k \in Milestones
    PROVE  Settling(t, k)'
  <1>1. Settling(t, k) /\ Settling(s, m) /\ Valued(s, m)
    BY MilestoneValues DEF SettlementInv, Settling
  <1>2. CASE t = s /\ k = m
    <2>1. /\ mstatus[s][m] = "ProofSubmitted"
          /\ now >= proofLedger[s][m] + ConfirmCooldown
      BY <1>1 DEF HoldMilestone, MayConfirm, CooledDown, SafeWindows, Valued
    <2>2. /\ mstatus'[s][m] = "ConfirmedHeld"
          /\ UNCHANGED <<now, paid, proofLedger, contested, pendingSplit, resolvedAt, appealed>>
      BY DEF HoldMilestone, SetStatus, TypeOK, MilestoneTyped, proofVars, rulingVars,
         moneyVars, PerMilestone
    <2> QED
      BY <1>1, <1>2, <2>1, <2>2
      DEF Valued, Settling, PaidOnlyWhenFinal, RulingOutOfReach, Unappealable, SafeWindows, Gross
  <1>3. CASE ~(t = s /\ k = m)
    <2>1. Untouched(t, k) /\ now' = now
      BY <1>3
      DEF Untouched, HoldMilestone, SetStatus, TypeOK, MilestoneTyped, proofVars, rulingVars,
          moneyVars, PerMilestone
    <2> QED
      BY <1>1, <2>1, Framed DEF Valued
  <1> QED
    BY <1>2, <1>3

(* A held payment is a confirmation whose ruling was out of reach already. *)
LEMMA ReleaseHeldPaymentSettles ==
    ASSUME SafeWindows, NEW s \in Shipments, NEW m \in Milestones, TypeOK, TypeOK',
           SettlementInv, ReleaseHeldPayment(s, m), NEW t \in Shipments, NEW k \in Milestones
    PROVE  Settling(t, k)'
  <1>1. Settling(t, k) /\ Settling(s, m) /\ Valued(s, m)
    BY MilestoneValues DEF SettlementInv, Settling
  <1>2. CASE t = s /\ k = m
    <2>1. /\ mstatus[s][m] = "ConfirmedHeld"
      BY DEF ReleaseHeldPayment
    <2>2. /\ mstatus'[s][m] = "Confirmed" /\ paid'[s][m] = paid[s][m] + Gross(m)
          /\ UNCHANGED <<now, contested, pendingSplit, resolvedAt, appealed>>
      BY DEF ReleaseHeldPayment, SetStatus, PayOut, TypeOK, MilestoneTyped, MoneyTyped,
         rulingVars, PerMilestone
    <2> QED
      BY <1>1, <1>2, <2>1, <2>2
      DEF Valued, Settling, PaidOnlyWhenFinal, RulingOutOfReach, Unappealable, SafeWindows, Gross
  <1>3. CASE ~(t = s /\ k = m)
    <2>1. Untouched(t, k) /\ now' = now
      BY <1>3
      DEF Untouched, ReleaseHeldPayment, SetStatus, PayOut, TypeOK, MilestoneTyped, MoneyTyped,
          proofVars, rulingVars, PerMilestone
    <2> QED
      BY <1>1, <2>1, Framed DEF Valued
  <1> QED
    BY <1>2, <1>3

(* The review window is as long as the appeal window at least. *)
LEMMA ClaimAutoConfirmationSettles ==
    ASSUME SafeWindows, NEW s \in Shipments, NEW m \in Milestones, TypeOK, TypeOK',
           SettlementInv, ClaimAutoConfirmation(s, m), NEW t \in Shipments, NEW k \in Milestones
    PROVE  Settling(t, k)'
  <1>1. Settling(t, k) /\ Settling(s, m) /\ Valued(s, m)
    BY MilestoneValues DEF SettlementInv, Settling
  <1>2. CASE t = s /\ k = m
    <2>1. /\ mstatus[s][m] = "ProofSubmitted"
          /\ now >= proofLedger[s][m] + AutoWindow /\ AutoWindow > AppealWindow
      BY <1>1 DEF ClaimAutoConfirmation, AutoConfirmed, SafeWindows, Valued
    <2>2. /\ mstatus'[s][m] = "Confirmed" /\ paid'[s][m] = paid[s][m] + Gross(m)
          /\ UNCHANGED <<now, contested, pendingSplit, resolvedAt, appealed>>
      BY DEF ClaimAutoConfirmation, SetStatus, PayOut, TypeOK, MilestoneTyped, MoneyTyped,
         rulingVars, PerMilestone
    <2> QED
      BY <1>1, <1>2, <2>1, <2>2
      DEF Valued, Settling, PaidOnlyWhenFinal, RulingOutOfReach, Unappealable, SafeWindows, Gross
  <1>3. CASE ~(t = s /\ k = m)
    <2>1. Untouched(t, k) /\ now' = now
      BY <1>3
      DEF Untouched, ClaimAutoConfirmation, SetStatus, PayOut, TypeOK, MilestoneTyped,
          MoneyTyped, rulingVars, PerMilestone
    <2> QED
      BY <1>1, <2>1, Framed DEF Valued
  <1> QED
    BY <1>2, <1>3

(* A new dispute forgets the last ruling. *)
LEMMA RaiseDisputeSettles ==
    ASSUME SafeWindows, NEW s \in Shipments, NEW m \in Milestones, TypeOK, TypeOK',
           SettlementInv, RaiseDispute(s, m), NEW t \in Shipments, NEW k \in Milestones
    PROVE  Settling(t, k)'
  <1>1. Settling(t, k) /\ Settling(s, m) /\ Valued(s, m)
    BY MilestoneValues DEF SettlementInv, Settling
  <1>2. CASE t = s /\ k = m
    <2>1. /\ mstatus[s][m] \in {"ProofSubmitted", "ConfirmedHeld"}
      BY DEF RaiseDispute, MayDispute
    <2>2. /\ mstatus'[s][m] = "Disputed" /\ resolvedAt'[s][m] = None
          /\ UNCHANGED <<now, paid, contested, pendingSplit>>
      BY DEF RaiseDispute, OpenDispute, ForgetRuling, SetStatus, TypeOK, MilestoneTyped,
          DisputeTyped, moneyVars, PerMilestone
    <2> QED
      BY <1>1, <1>2, <2>1, <2>2
      DEF Valued, Settling, PaidOnlyWhenFinal, RulingOutOfReach, Unappealable, SafeWindows,
          Gross, None
  <1>3. CASE ~(t = s /\ k = m)
    <2>1. Untouched(t, k) /\ now' = now
      <3> USE DEF RaiseDispute, OpenDispute, ForgetRuling, SetStatus
      <3>1. mstatus'[t][k] = mstatus[t][k] /\ releaseAfter'[t][k] = releaseAfter[t][k]
        BY <1>3 DEF TypeOK, MilestoneTyped, PerMilestone
      <3>2. resolvedAt'[t][k] = resolvedAt[t][k] /\ appealed'[t][k] = appealed[t][k]
        BY <1>3 DEF TypeOK, DisputeTyped, PerMilestone
      <3>3. UNCHANGED <<now, paid, contested, pendingSplit, proofLedger>>
        BY DEF proofVars, moneyVars
      <3> QED
        BY <3>1, <3>2, <3>3 DEF Untouched
    <2> QED
      BY <1>1, <2>1, Framed DEF Valued
  <1> QED
    BY <1>2, <1>3

(* A withdrawn dispute has no ruling to appeal. *)
LEMMA WithdrawDisputeSettles ==
    ASSUME SafeWindows, NEW s \in Shipments, NEW m \in Milestones, TypeOK, TypeOK',
           SettlementInv, WithdrawDispute(s, m), NEW t \in Shipments, NEW k \in Milestones
    PROVE  Settling(t, k)'
  <1>1. Settling(t, k) /\ Settling(s, m) /\ Valued(s, m)
    BY MilestoneValues DEF SettlementInv, Settling
  <1>2. CASE t = s /\ k = m
    <2>1. /\ mstatus[s][m] = "Disputed"
      BY DEF WithdrawDispute
    <2>2. /\ mstatus'[s][m] = "ProofSubmitted"
          /\ UNCHANGED <<now, paid, contested, pendingSplit, resolvedAt, appealed>>
      BY DEF WithdrawDispute, SetStatus, TypeOK, MilestoneTyped, moneyVars, rulingVars, PerMilestone
    <2> QED
      BY <1>1, <1>2, <2>1, <2>2
      DEF Valued, Settling, PaidOnlyWhenFinal, RulingOutOfReach, Unappealable, SafeWindows, Gross
  <1>3. CASE ~(t = s /\ k = m)
    <2>1. Untouched(t, k) /\ now' = now
      BY <1>3
      DEF Untouched, WithdrawDispute, SetStatus, TypeOK, MilestoneTyped, proofVars, moneyVars,
          rulingVars, PerMilestone
    <2> QED
      BY <1>1, <2>1, Framed DEF Valued
  <1> QED
    BY <1>2, <1>3

(* Only an unpaid ruling can still be appealed. *)
LEMMA AppealDisputeSettles ==
    ASSUME SafeWindows, NEW s \in Shipments, NEW m \in Milestones, NEW other, TypeOK, TypeOK',
           SettlementInv, AppealDispute(s, m, other), NEW t \in Shipments, NEW k \in Milestones
    PROVE  Settling(t, k)'
  <1>1. Settling(t, k) /\ Settling(s, m) /\ Valued(s, m)
    BY MilestoneValues DEF SettlementInv, Settling
  <1>2. CASE t = s /\ k = m
    <2>1. /\ ~Unappealable(s, m)
      BY <1>1 DEF AppealDispute, MayAppeal, Unappealable, Valued
    <2>2. /\ mstatus'[s][m] = "Disputed"
          /\ resolvedAt'[s][m] = None /\ pendingSplit'[s][m] = NoSplit
          /\ UNCHANGED <<now, paid, contested>>
      BY DEF AppealDispute, SetStatus, TypeOK, MilestoneTyped, DisputeTyped, moneyVars, PerMilestone
    <2> QED
      BY <1>1, <1>2, <2>1, <2>2
      DEF Valued, Settling, PaidOnlyWhenFinal, RulingOutOfReach, Unappealable, SafeWindows,
          Gross, None
  <1>3. CASE ~(t = s /\ k = m)
    <2>1. Untouched(t, k) /\ now' = now
      <3> USE DEF AppealDispute, SetStatus
      <3>1. mstatus'[t][k] = mstatus[t][k] /\ releaseAfter'[t][k] = releaseAfter[t][k]
        BY <1>3 DEF TypeOK, MilestoneTyped, PerMilestone
      <3>2. /\ resolvedAt'[t][k] = resolvedAt[t][k] /\ appealed'[t][k] = appealed[t][k]
            /\ pendingSplit'[t][k] = pendingSplit[t][k]
        BY <1>3 DEF TypeOK, DisputeTyped, PerMilestone
      <3>3. UNCHANGED <<now, paid, contested, proofLedger>>
        BY DEF proofVars, moneyVars
      <3> QED
        BY <3>1, <3>2, <3>3 DEF Untouched
    <2> QED
      BY <1>1, <2>1, Framed DEF Valued
  <1> QED
    BY <1>2, <1>3

(* A dispute settled by default had no ruling. *)
LEMMA ResolveDisputeTimeoutSettles ==
    ASSUME SafeWindows, NEW s \in Shipments, NEW m \in Milestones, TypeOK, TypeOK',
           SettlementInv, ResolveDisputeTimeout(s, m), NEW t \in Shipments, NEW k \in Milestones
    PROVE  Settling(t, k)'
  <1>1. Settling(t, k) /\ Settling(s, m) /\ Valued(s, m)
    BY MilestoneValues DEF SettlementInv, Settling
  <1>2. CASE t = s /\ k = m
    <2>1. /\ mstatus[s][m] = "Disputed"
          /\ DisputedAmount(s, m) = Gross(m)
      BY <1>1 DEF ResolveDisputeTimeout, TimedOut, DisputedAmount, Settling, PaidOnlyWhenFinal
    <2>2. /\ mstatus'[s][m] = "Resolved" /\ contested'[s][m] = 0
          /\ paid'[s][m] = paid[s][m] + DisputedAmount(s, m)
          /\ UNCHANGED <<now, pendingSplit, resolvedAt, appealed>>
      BY DEF ResolveDisputeTimeout, SetStatus, PayOut, TypeOK, MilestoneTyped,
         DisputeTyped, MoneyTyped, PerMilestone
    <2> QED
      BY <1>1, <1>2, <2>1, <2>2
      DEF Valued, Settling, PaidOnlyWhenFinal, RulingOutOfReach, Unappealable, SafeWindows, Gross
  <1>3. CASE ~(t = s /\ k = m)
    <2>1. Untouched(t, k) /\ now' = now
      BY <1>3
      DEF Untouched, ResolveDisputeTimeout, SetStatus, PayOut, TypeOK, MilestoneTyped,
          DisputeTyped, MoneyTyped, proofVars, PerMilestone
    <2> QED
      BY <1>1, <2>1, Framed DEF Valued
  <1> QED
    BY <1>2, <1>3

(* A ruling for the supplier is parked past its appeal window. *)
LEMMA ResolveDisputeSettles ==
    ASSUME SafeWindows, NEW s \in Shipments, NEW m \in Milestones, NEW approve \in BOOLEAN,
           TypeOK, TypeOK',
           SettlementInv, ResolveDispute(s, m, approve), NEW t \in Shipments, NEW k \in Milestones
    PROVE  Settling(t, k)'
  <1>1. Settling(t, k) /\ Settling(s, m) /\ Valued(s, m)
    BY MilestoneValues DEF SettlementInv, Settling
  <1>2. CASE t = s /\ k = m
    <2>1. /\ mstatus[s][m] = "Disputed" /\ contested[s][m] = 0
      BY <1>1 DEF ResolveDispute, Rule, Settling, PaidOnlyWhenFinal
    <2>2. \/ mstatus'[s][m] = "ResolvedPendingFinality" /\ releaseAfter'[s][m] = now + FinalityDelay
          \/ mstatus'[s][m] = "Pending"
      <3>1. CASE Park(s, m, FinalityDelay)
        BY <3>1 DEF Park, SetStatus, TypeOK, MilestoneTyped, PerMilestone
      <3>2. CASE SetStatus(s, m, "Pending")
        BY <3>2 DEF SetStatus, TypeOK, MilestoneTyped, PerMilestone
      <3> QED
        BY <1>1, <2>1, <3>1, <3>2, RulingParks
    <2>3. paid'[s][m] = paid[s][m]
      BY <1>1, <2>1, RulingParks
      DEF Park, PayOut, Valued, TypeOK, MoneyTyped, PerMilestone, moneyVars
    <2>4. /\ contested'[s][m] = 0 /\ pendingSplit'[s][m] = NoSplit /\ resolvedAt'[s][m] = now
          /\ UNCHANGED <<now, appealed>>
      BY <1>1, <2>1, RulingParks DEF TypeOK, DisputeTyped, PerMilestone
    <2> QED
      BY <1>1, <1>2, <2>1, <2>2, <2>3, <2>4
      DEF Valued, Settling, PaidOnlyWhenFinal, RulingOutOfReach, Unappealable, SafeWindows, Gross
  <1>3. CASE ~(t = s /\ k = m)
    <2>1. Untouched(t, k) /\ now' = now
      <3>0. contested[s][m] = 0
        BY <1>1 DEF Settling, PaidOnlyWhenFinal
      <3>1. paid'[t][k] = paid[t][k]
        BY <1>1, <1>3, <3>0, RulingParks DEF Park, PayOut, TypeOK, MoneyTyped, moneyVars,
           PerMilestone
      <3>2. mstatus'[t][k] = mstatus[t][k] /\ releaseAfter'[t][k] = releaseAfter[t][k]
        <4>1. CASE Park(s, m, FinalityDelay)
          BY <1>3, <4>1 DEF Park, SetStatus, TypeOK, MilestoneTyped, PerMilestone
        <4>2. CASE SetStatus(s, m, "Pending") /\ UNCHANGED releaseAfter
          BY <1>3, <4>2 DEF SetStatus, TypeOK, MilestoneTyped, PerMilestone
        <4> QED
          BY <1>1, <3>0, <4>1, <4>2, RulingParks
      <3> QED
        BY <1>1, <1>3, <3>0, <3>1, <3>2, RulingParks DEF Untouched, TypeOK, DisputeTyped,
           PerMilestone
    <2> QED
      BY <1>1, <2>1, Framed DEF Valued
  <1> QED
    BY <1>2, <1>3

(* So is a split. *)
LEMMA ResolveDisputeSplitSettles ==
    ASSUME SafeWindows, NEW s \in Shipments, NEW m \in Milestones, TypeOK, TypeOK',
           SettlementInv, ResolveDisputeSplit(s, m), NEW t \in Shipments, NEW k \in Milestones
    PROVE  Settling(t, k)'
  <1>1. Settling(t, k) /\ Settling(s, m) /\ Valued(s, m)
    BY MilestoneValues DEF SettlementInv, Settling
  <1>2. CASE t = s /\ k = m
    <2>1. /\ mstatus[s][m] = "Disputed" /\ DisputedAmount(s, m) = Gross(m)
          /\ SplitDelay(s, m) > AppealWindow /\ SplitDelay(s, m) \in Nat
      BY <1>1, SplitDelayNat
      DEF ResolveDisputeSplit, Rule, DisputedAmount, SplitDelay, Settling, PaidOnlyWhenFinal,
          SafeWindows, Valued
    <2>2. /\ mstatus'[s][m] = "ResolvedPendingFinality" /\ resolvedAt'[s][m] = now
          /\ releaseAfter'[s][m] = now + SplitDelay(s, m)
          /\ pendingSplit'[s][m] = DisputedAmount(s, m)
          /\ UNCHANGED <<now, paid, contested, appealed>>
      BY <1>1, <2>1, SplitParks
      DEF Valued, Park, SetStatus, TypeOK, MilestoneTyped, DisputeTyped, moneyVars, PerMilestone
    <2> QED
      BY <1>1, <1>2, <2>1, <2>2
      DEF Valued, Settling, PaidOnlyWhenFinal, RulingOutOfReach, Unappealable, SafeWindows, Gross
  <1>3. CASE ~(t = s /\ k = m)
    <2>1. Untouched(t, k) /\ now' = now
      <3>1. mstatus'[t][k] = mstatus[t][k] /\ releaseAfter'[t][k] = releaseAfter[t][k]
        BY <1>1, <1>3, SplitParks DEF Park, SetStatus, TypeOK, MilestoneTyped, PerMilestone
      <3>2. resolvedAt'[t][k] = resolvedAt[t][k] /\ pendingSplit'[t][k] = pendingSplit[t][k]
        BY <1>1, <1>3, SplitParks DEF TypeOK, DisputeTyped, PerMilestone
      <3>3. UNCHANGED <<now, paid, contested, appealed, proofLedger>>
        BY <1>1, SplitParks DEF Park, moneyVars
      <3> QED
        BY <3>1, <3>2, <3>3 DEF Untouched
    <2> QED
      BY <1>1, <2>1, Framed DEF Valued
  <1> QED
    BY <1>2, <1>3

(* A parked ruling is paid when its appeal window is over. *)
LEMMA FinalizeDisputeResolutionSettles ==
    ASSUME SafeWindows, NEW s \in Shipments, NEW m \in Milestones, TypeOK, TypeOK',
           SettlementInv, FinalizeDisputeResolution(s, m), NEW t \in Shipments, NEW k \in Milestones
    PROVE  Settling(t, k)'
  <1>1. Settling(t, k) /\ Settling(s, m) /\ Valued(s, m)
    BY MilestoneValues DEF SettlementInv, Settling
  <1>2. CASE t = s /\ k = m
    <2>1. /\ mstatus[s][m] = "ResolvedPendingFinality" /\ now >= releaseAfter[s][m]
      BY DEF FinalizeDisputeResolution
    <2>2. /\ mstatus'[s][m] = "Resolved" /\ pendingSplit'[s][m] = NoSplit
          /\ paid'[s][m] = paid[s][m] + Gross(m)
          /\ contested'[s][m] = 0
          /\ \/ resolvedAt'[s][m] = None
             \/ resolvedAt'[s][m] = resolvedAt[s][m] /\ appealed'[s][m] = appealed[s][m]
          /\ UNCHANGED now
      <3>1. PICK prune \in BOOLEAN, scopes \in {contested, [contested EXCEPT ![s][m] = 0]} :
                PruneAuxiliary(s, prune, resolvedAt, scopes)
        BY DEF FinalizeDisputeResolution, AllMilestonesDone
      <3>2. scopes \in PerMilestone(0 .. 99) /\ (scopes[s][m] = contested[s][m] \/ scopes[s][m] = 0)
        <4>1. CASE scopes = contested
          BY <4>1 DEF TypeOK, DisputeTyped
        <4>2. CASE scopes = [contested EXCEPT ![s][m] = 0]
          BY <4>2 DEF TypeOK, DisputeTyped, PerMilestone
        <4> QED
          BY <3>1, <4>1, <4>2
      <3>3. \/ resolvedAt'[s][m] = None /\ contested'[s][m] = 0
            \/ /\ resolvedAt'[s][m] = resolvedAt[s][m] /\ appealed'[s][m] = appealed[s][m]
               /\ contested'[s][m] = scopes[s][m]
        BY <3>1, <3>2, PruneAt DEF TypeOK, DisputeTyped
      <3>4. contested[s][m] = 0 /\ pendingSplit[s][m] \in {NoSplit, Gross(m)}
        BY <1>1 DEF Settling, PaidOnlyWhenFinal
      <3> QED
        BY <3>2, <3>3, <3>4
        DEF FinalizeDisputeResolution, SetStatus, PayOut, TypeOK, MilestoneTyped, DisputeTyped,
            MoneyTyped, PerMilestone
    <2> QED
      BY <1>1, <1>2, <2>1, <2>2
      DEF Valued, Settling, PaidOnlyWhenFinal, RulingOutOfReach, Unappealable, SafeWindows,
          Gross, None
  <1>3. CASE ~(t = s /\ k = m)
    <2>1. Untouched(t, k) /\ now' = now
      <3>1. PICK prune \in BOOLEAN, scopes \in {contested, [contested EXCEPT ![s][m] = 0]} :
                PruneAuxiliary(s, prune, resolvedAt, scopes)
        BY DEF FinalizeDisputeResolution, AllMilestonesDone
      <3>2. scopes \in PerMilestone(0 .. 99) /\ (scopes[t][k] = contested[t][k] \/ scopes[t][k] = 0)
        <4>1. CASE scopes = contested
          BY <4>1 DEF TypeOK, DisputeTyped
        <4>2. CASE scopes = [contested EXCEPT ![s][m] = 0]
          BY <4>2 DEF TypeOK, DisputeTyped, PerMilestone
        <4> QED
          BY <3>1, <4>1, <4>2
      <3>3. \/ resolvedAt'[t][k] = None /\ contested'[t][k] = 0
            \/ /\ resolvedAt'[t][k] = resolvedAt[t][k] /\ appealed'[t][k] = appealed[t][k]
               /\ contested'[t][k] = scopes[t][k]
        BY <3>1, <3>2, PruneAt DEF TypeOK, DisputeTyped
      <3>4. contested[t][k] = 0
        BY <1>1 DEF Settling, PaidOnlyWhenFinal
      <3> QED
        BY <1>3, <3>2, <3>3, <3>4
        DEF Untouched, FinalizeDisputeResolution, SetStatus, PayOut, TypeOK, MilestoneTyped,
            DisputeTyped, MoneyTyped, PerMilestone
    <2> QED
      BY <1>1, <2>1, Framed DEF Valued
  <1> QED
    BY <1>2, <1>3

(* Milestones of a batch are confirmed like any other, each once. *)
LEMMA BatchSettles ==
    ASSUME SafeWindows, NEW s \in Shipments, NEW list \in BatchLists, TypeOK, TypeOK',
           SettlementInv, BatchConfirmMilestones(s, list),
           NEW t \in Shipments, NEW k \in Milestones
    PROVE  Settling(t, k)'
  <1> DEFINE listed == {list[i] : i \in DOMAIN list}
  <1>1. Settling(t, k) /\ Valued(t, k)
    BY MilestoneValues DEF SettlementInv, Settling
  <1>2. CASE t = s /\ k \in listed
    <2>1. mstatus[s][k] = "ProofSubmitted" /\ now >= proofLedger[s][k] + ConfirmCooldown
      BY <1>1, <1>2 DEF BatchConfirmMilestones, CooledDown, SafeWindows, Valued
    <2>2. mstatus'[s][k] = "Confirmed"
      BY <1>2 DEF BatchConfirmMilestones, TypeOK, MilestoneTyped, PerMilestone
    <2>3. paid'[s][k] = paid[s][k] + Occurrences(list, k) * Gross(k)
      BY DEF BatchConfirmMilestones, TypeOK, MoneyTyped, PerMilestone
    <2>4. Occurrences(list, k) * Gross(k) <= Gross(k)
      <3>1. Occurrences(list, k) = 0 \/ Occurrences(list, k) = 1
        BY DEF SafeWindows
      <3> QED
        BY <1>1, <3>1 DEF Valued
    <2>5. UNCHANGED <<now, contested, pendingSplit, resolvedAt, appealed>>
      BY DEF BatchConfirmMilestones, rulingVars
    <2>6. paid'[s][k] <= Gross(k)
      BY <1>1, <1>2, <2>1, <2>3, <2>4, OccurrencesNat
      DEF Valued, Settling, PaidOnlyWhenFinal
    <2> QED
      BY <1>1, <1>2, <2>1, <2>2, <2>5, <2>6
      DEF Valued, Settling, PaidOnlyWhenFinal, RulingOutOfReach, Unappealable, SafeWindows, Gross
  <1>3. CASE ~(t = s /\ k \in listed)
    <2>1. mstatus'[t][k] = mstatus[t][k]
      BY <1>3 DEF BatchConfirmMilestones, TypeOK, MilestoneTyped, PerMilestone
    <2>2. paid'[t][k] = paid[t][k]
      <3>1. CASE t # s
        BY <3>1 DEF BatchConfirmMilestones, TypeOK, MoneyTyped, PerMilestone
      <3>2. CASE t = s
        <4>1. {i \in DOMAIN list : list[i] = k} = {}
          BY <1>3, <3>2
        <4>2. Occurrences(list, k) = 0
          BY <4>1, FS_EmptySet DEF Occurrences
        <4>3. paid'[s][k] = paid[s][k] + Occurrences(list, k) * Gross(k)
          BY DEF BatchConfirmMilestones, TypeOK, MoneyTyped, PerMilestone
        <4> QED
          BY <1>1, <3>2, <4>2, <4>3 DEF Valued
      <3> QED
        BY <3>1, <3>2
    <2>3. UNCHANGED <<now, releaseAfter, proofLedger, contested, pendingSplit, resolvedAt,
       appealed>>
      BY DEF BatchConfirmMilestones, proofVars, rulingVars
    <2> QED
      BY <1>1, <2>1, <2>2, <2>3, Framed DEF Untouched, Valued
  <1> QED
    BY <1>2, <1>3

(* Funding and the hand-off to the backup arbiter leave every milestone alone. *)
LEMMA CreateShipmentSettles ==
    ASSUME NEW s \in Shipments, CreateShipment(s), NEW t \in Shipments, NEW k \in Milestones
    PROVE  Untouched(t, k) /\ now' = now
  BY DEF CreateShipment, Untouched, proofVars, rulingVars

LEMMA HandOffSettles ==
    ASSUME NEW s \in Shipments, NEW m \in Milestones, HandOffToBackup(s, m),
           NEW t \in Shipments, NEW k \in Milestones
    PROVE  Untouched(t, k) /\ now' = now
  BY DEF HandOffToBackup, Untouched, proofVars, rulingVars, moneyVars

(* So does closing early, which may drop the records of its disputes. *)
LEMMA CloseEarlySettles ==
    ASSUME TypeOK, NEW s \in Shipments, NEW final, NEW prune \in BOOLEAN, CloseEarly(s, final),
           PruneAuxiliary(s, prune, resolvedAt, contested),
           NEW t \in Shipments, NEW k \in Milestones
    PROVE  Untouched(t, k) /\ now' = now
  <1>1. \/ resolvedAt'[t][k] = None /\ contested'[t][k] = 0
        \/ /\ resolvedAt'[t][k] = resolvedAt[t][k] /\ appealed'[t][k] = appealed[t][k]
           /\ contested'[t][k] = contested[t][k]
    BY PruneAt DEF TypeOK, DisputeTyped
  <1> QED
    BY <1>1 DEF CloseEarly, Untouched

(* The four ways of closing early do just that. *)
LEMMA ClosingSettles ==
    ASSUME TypeOK, NEW s \in Shipments, NEW t \in Shipments, NEW k \in Milestones,
           \/ CancelShipment(s) \/ SupplierCancel(s) \/ EmergencyRecover(s)
           \/ \E m \in Milestones : ClaimDeadlineRefund(s, m)
    PROVE  Untouched(t, k) /\ now' = now
  BY CloseEarlySettles
  DEF CancelShipment, SupplierCancel, EmergencyRecover, ClaimDeadlineRefund

(* Neither the admin nor another module touches a milestone. *)
LEMMA AdminSettles ==
    ASSUME AdminStep \/ UNCHANGED vars, NEW t \in Shipments, NEW k \in Milestones
    PROVE  Untouched(t, k) /\ now' = now
  BY DEF AdminStep, vars, Untouched, proofVars, rulingVars, moneyVars

(* A closed ledger only moves the clock. *)
LEMMA TickSettles ==
    ASSUME Tick, TypeOK, NEW t \in Shipments, NEW k \in Milestones
    PROVE  Untouched(t, k) /\ now' >= now
  BY ClockNat DEF Tick, TypeOK, Untouched, proofVars, rulingVars, moneyVars

(* Before the first call nothing is paid and nothing is ruled. *)
LEMMA SettlementInit == Init => SettlementInv
  BY GrossNat
  DEF Init, Everywhere, SettlementInv, PaidOnlyWhenFinal, RulingOutOfReach, Unappealable, None

(* Every step keeps the strengthened invariant. *)
LEMMA SettlementNext ==
    SafeWindows /\ TypeOK /\ TypeOK' /\ SettlementInv /\ [Next]_vars => SettlementInv'
  <1> SUFFICES ASSUME SafeWindows, TypeOK, TypeOK', SettlementInv, [Next]_vars,
                      NEW t \in Shipments, NEW k \in Milestones
               PROVE  Settling(t, k)'
    BY DEF SettlementInv, Settling
  <1>1. Settling(t, k)
    BY DEF SettlementInv, Settling
  <1>2. ASSUME NEW s \in Shipments, NEW m \in Milestones, MilestoneStep(s, m)
        PROVE  Settling(t, k)'
    <2>1. CASE HandOffToBackup(s, m) \/ ClaimDeadlineRefund(s, m)
      <3>1. Untouched(t, k) /\ now' = now
        BY <2>1, HandOffSettles, ClosingSettles
      <3> QED
        BY <1>1, <3>1, ClockNat, Framed DEF TypeOK
    <2>2. CASE \/ \E percent \in ContestedPercents : RaisePartialDispute(s, m, percent)
               \/ \E oracle \in Oracles : ReportConditionBreach(s, m, oracle)
      BY <2>2 DEF SafeWindows
    <2> QED
      BY <1>2, <2>1, <2>2, SubmitProofSettles, ConfirmMilestoneSettles, HoldMilestoneSettles,
         ReleaseHeldPaymentSettles, ClaimAutoConfirmationSettles, RaiseDisputeSettles,
         WithdrawDisputeSettles, ResolveDisputeSettles, ResolveDisputeSplitSettles,
         FinalizeDisputeResolutionSettles, AppealDisputeSettles, ResolveDisputeTimeoutSettles
      DEF MilestoneStep
  <1>3. ASSUME NEW s \in Shipments, ShipmentStep(s) PROVE Settling(t, k)'
    <2>1. CASE \E list \in BatchLists : BatchConfirmMilestones(s, list)
      BY <2>1, BatchSettles
    <2>2. CASE ~ \E list \in BatchLists : BatchConfirmMilestones(s, list)
      <3>1. Untouched(t, k) /\ now' = now
        BY <1>3, <2>2, CreateShipmentSettles, ClosingSettles DEF ShipmentStep
      <3> QED
        BY <1>1, <3>1, ClockNat, Framed DEF TypeOK
    <2> QED
      BY <2>1, <2>2
  <1>4. CASE AdminStep \/ Tick \/ UNCHANGED vars
    <2>1. Untouched(t, k) /\ now' >= now
      BY <1>4, AdminSettles, TickSettles, ClockNat DEF TypeOK
    <2> QED
      BY <1>1, <2>1, Framed
  <1> QED
    BY <1>2, <1>3, <1>4 DEF Next

(* The strengthened invariant: a weight is unpaid until its milestone is final,
   and by then its last ruling is out of reach of an appeal. *)
THEOREM SettlementInvariant == ASSUME SafeWindows PROVE Spec => []SettlementInv
  <1>1. SafeWindows
    OBVIOUS
  <1>2. TypeOK /\ TypeOK' /\ SettlementInv /\ [Next]_vars => SettlementInv'
    BY <1>1, SettlementNext
  <1> QED
    BY <1>2, SettlementInit, TypeCorrect, PTL DEF Spec

(* A milestone's weight leaves the escrow at most once, whatever the order of
   confirmations, disputes, rulings, appeals and timeouts, as long as payments
   wait longer than an appeal may. *)
THEOREM WeightSettledOnce == ASSUME SafeWindows PROVE Spec => []SettledOnce
  <1>1. TypeOK /\ SettlementInv => SettledOnce
    <2> SUFFICES ASSUME TypeOK, SettlementInv, NEW s \in Shipments, NEW m \in Milestones
                 PROVE  paid[s][m] <= Gross(m)
      BY DEF SettledOnce
    <2>1. PaidOnlyWhenFinal(s, m) /\ Valued(s, m)
      BY MilestoneValues DEF SettlementInv
    <2> QED
      BY <2>1 DEF PaidOnlyWhenFinal, Valued
  <1> QED
    BY <1>1, SettlementInvariant, TypeCorrect, PTL
=============================================================================
