----------------------- MODULE ShipmentEscrowProofs -----------------------
(***************************************************************************)
(* Type correctness of ShipmentEscrow: what its operators return, one      *)
(* lemma per action, and the invariant they add up to.                     *)
(***************************************************************************)
EXTENDS ShipmentEscrow, SumTheorems

(* A weight is a natural number. *)
LEMMA GrossNat == \A m \in Milestones : Gross(m) \in Nat
  <1> SUFFICES ASSUME NEW m \in Milestones PROVE Gross(m) \in Nat
    OBVIOUS
  <1>1. TotalAmount \in Nat /\ Percent[m] \in Nat
    BY SizeAssumption
  <1>2. TotalAmount * Percent[m] \in Nat
    BY <1>1
  <1> QED
    BY <1>2 DEF Gross

(* What a batch pays: its recursion adds up the weights along the list. *)
PaysUpTo(u, list) ==
    u = [n \in 0 .. Len(list) |-> IF n = 0 THEN 0 ELSE u[n - 1] + Gross(list[n])]

LEMMA BatchPaymentDefined ==
    ASSUME NEW list \in BatchLists
    PROVE  BatchPayment[list] = (CHOOSE u : PaysUpTo(u, list))[Len(list)]
  BY DEF BatchPayment, PaysUpTo

LEMMA PaysUpToSum ==
    ASSUME NEW list \in Seq(Milestones)
    PROVE  PaysUpTo([n \in 0 .. Len(list) |->
                        SumFunctionOnSet([i \in 1 .. Len(list) |-> Gross(list[i])], 1 .. n)], list)
  <1> DEFINE terms == [i \in 1 .. Len(list) |-> Gross(list[i])]
             u == [n \in 0 .. Len(list) |-> SumFunctionOnSet(terms, 1 .. n)]
             body == [n \in 0 .. Len(list) |-> IF n = 0 THEN 0 ELSE u[n - 1] + Gross(list[n])]
  <1>1. Len(list) \in Nat /\ \A i \in 1 .. Len(list) : list[i] \in Milestones
    OBVIOUS
  <1>2. \A i \in 1 .. Len(list) : terms[i] = Gross(list[i]) /\ terms[i] \in Int
    BY <1>1, GrossNat
  <1> HIDE DEF terms
  <1>3. ASSUME NEW n \in 0 .. Len(list) PROVE u[n] = body[n]
    <2>1. CASE n = 0
      <3>1. 1 .. 0 = {}
        OBVIOUS
      <3> QED
        BY <2>1, <3>1, SumEmpty
    <2>2. CASE n # 0
      <3>1. /\ n \in 1 .. Len(list) /\ n - 1 \in 0 .. Len(list) /\ n \in Int /\ n - 1 \in Int
            /\ 1 .. n = (1 .. (n - 1)) \cup {n} /\ n \notin 1 .. (n - 1)
            /\ 1 .. n \subseteq 1 .. Len(list)
        BY <1>1, <2>2
      <3>2. IsFiniteSet(1 .. (n - 1)) /\ \A i \in (1 .. (n - 1)) \cup {n} : terms[i] \in Int
        <4>1. 1 \in Int /\ n - 1 \in Int
          BY <3>1
        <4>2. (1 .. (n - 1)) \cup {n} \subseteq 1 .. Len(list)
          BY <3>1
        <4>3. \A i \in (1 .. (n - 1)) \cup {n} : terms[i] \in Int
          BY ONLY <1>2, <4>2
        <4> QED
          BY <4>1, <4>3, FS_Interval
      <3>3. SumFunctionOnSet(terms, 1 .. n) = terms[n] + SumFunctionOnSet(terms, 1 .. (n - 1))
        BY <3>1, <3>2, SumAdd
      <3>4. SumFunctionOnSet(terms, 1 .. (n - 1)) \in Int
        BY <3>2, SumInt
      <3>5. u[n] = SumFunctionOnSet(terms, 1 .. n) /\ u[n - 1] = SumFunctionOnSet(terms, 1 .. (n - 1))
        BY <3>1
      <3>6. body[n] = u[n - 1] + Gross(list[n])
        BY <2>2
      <3> HIDE DEF u, body
      <3> QED
        BY <1>2, <3>1, <3>3, <3>4, <3>5, <3>6
    <2> QED
      BY <2>1, <2>2
  <1>4. u = body
    BY <1>3
  <1>5. PaysUpTo(u, list)
    <2>1. body = [n \in 0 .. Len(list) |-> IF n = 0 THEN 0 ELSE u[n - 1] + Gross(list[n])]
      OBVIOUS
    <2> HIDE DEF u, body
    <2> QED
      BY <1>4, <2>1 DEF PaysUpTo
  <1> QED
    BY <1>5 DEF terms

LEMMA PaysUpToUnique ==
    ASSUME NEW list, Len(list) \in Nat, NEW u, PaysUpTo(u, list), NEW v, PaysUpTo(v, list)
    PROVE  u[Len(list)] = v[Len(list)]
  <1> DEFINE H == {n \in 0 .. Len(list) : u[n] # v[n]}
  <1> SUFFICES ASSUME H # {} PROVE FALSE
    BY Len(list) \in 0 .. Len(list)
  <1>1. PICK n \in H : \A k \in H : n <= k
    <2>1. H \in SUBSET Nat
      OBVIOUS
    <2> HIDE DEF H
    <2> QED
      BY <2>1, LeastNumber
  <1>2. u[n] = (IF n = 0 THEN 0 ELSE u[n - 1] + Gross(list[n]))
    BY DEF PaysUpTo
  <1>3. v[n] = (IF n = 0 THEN 0 ELSE v[n - 1] + Gross(list[n]))
    BY DEF PaysUpTo
  <1>4. n # 0
    BY <1>2, <1>3
  <1>5. u[n - 1] = v[n - 1]
    BY <1>1, <1>4
  <1> QED
    BY <1>2, <1>3, <1>4, <1>5

LEMMA BatchPaymentIsSum ==
    ASSUME NEW list \in BatchLists
    PROVE  BatchPayment[list] =
               SumFunctionOnSet([i \in 1 .. Len(list) |-> Gross(list[i])], 1 .. Len(list))
  <1>1. list \in Seq(Milestones) /\ Len(list) \in Nat
    BY ActorAssumption
  <1> DEFINE terms == [i \in 1 .. Len(list) |-> Gross(list[i])]
             u == [n \in 0 .. Len(list) |-> SumFunctionOnSet(terms, 1 .. n)]
             v == CHOOSE w : PaysUpTo(w, list)
  <1>2. PaysUpTo(u, list)
    BY <1>1, PaysUpToSum
  <1>3. u[Len(list)] = SumFunctionOnSet(terms, 1 .. Len(list))
    BY <1>1
  <1> HIDE DEF terms, u
  <1>4. PaysUpTo(v, list)
    BY <1>2
  <1>5. BatchPayment[list] = v[Len(list)]
    BY BatchPaymentDefined
  <1> HIDE DEF v
  <1>6. v[Len(list)] = u[Len(list)]
    BY <1>1, <1>2, <1>4, PaysUpToUnique
  <1> QED
    BY <1>3, <1>5, <1>6 DEF terms

LEMMA BatchPaymentNat == \A list \in BatchLists : BatchPayment[list] \in Nat
  <1> SUFFICES ASSUME NEW list \in BatchLists PROVE BatchPayment[list] \in Nat
    OBVIOUS
  <1> DEFINE S == 1 .. Len(list)
             terms == [i \in S |-> Gross(list[i])]
  <1>1. Len(list) \in Nat /\ \A i \in S : list[i] \in Milestones
    BY ActorAssumption
  <1>2. IsFiniteSet(S)
    <2>1. 1 \in Int /\ Len(list) \in Int
      BY <1>1
    <2> QED
      BY <2>1, FS_Interval
  <1>3. \A i \in S : terms[i] \in Nat
    BY <1>1, GrossNat
  <1>4. BatchPayment[list] = SumFunctionOnSet(terms, S)
    BY BatchPaymentIsSum
  <1> HIDE DEF S, terms
  <1>5. SumFunctionOnSet(terms, S) \in Nat
    BY <1>2, <1>3, SumNat
  <1> QED
    BY <1>4, <1>5

(* A fresh contract has the type of its storage. *)
LEMMA InitTyped == Init => TypeOK
  <1> USE DEF Init, Everywhere, PerMilestone, None, NoSplit
  <1> SUFFICES ASSUME Init PROVE TypeOK
    OBVIOUS
  <1>1. AdminTyped
    <2>1. now \in 1 .. MaxLedger
      BY SizeAssumption
    <2> QED
      BY <2>1 DEF AdminTyped
  <1>2. ShipmentTyped
    BY ActorAssumption DEF ShipmentTyped, Statuses
  <1>3. MilestoneTyped
    BY DEF MilestoneTyped, MilestoneStatuses
  <1>4. DisputeTyped
    BY DEF DisputeTyped
  <1>5. IndexTyped
    BY DEF IndexTyped
  <1>6. MoneyTyped
    BY DEF MoneyTyped
  <1> QED
    BY <1>1, <1>2, <1>3, <1>4, <1>5, <1>6 DEF TypeOK

(* A percentage of a weight, and the rest of it, are natural numbers. *)
LEMMA PercentNat ==
    ASSUME NEW weight \in Nat, NEW percent \in 0 .. 99
    PROVE  (weight * percent) \div 100 \in Nat /\ (weight * (100 - percent)) \div 100 \in Nat
  <1>1. weight * percent \in Nat /\ weight * (100 - percent) \in Nat
    OBVIOUS
  <1> QED
    BY <1>1

(* The late penalty is an integer. *)
LEMMA PenaltyInt ==
    ASSUME NEW s \in Shipments, NEW m \in Milestones, MilestoneTyped
    PROVE  LatePenalty(s, m) \in Int
  <1>1. Deadline[m] \in Nat /\ proofLedger[s][m] \in Nat /\ PenaltyBps \in Nat
    BY WindowAssumption DEF MilestoneTyped, PerMilestone
  <1>2. Gross(m) * (PenaltyBps * (proofLedger[s][m] - Deadline[m])) \in Int
    BY <1>1, GrossNat
  <1> QED
    BY <1>2, GrossNat DEF LatePenalty

(* So is what a ruling pays, and it is never negative. *)
LEMMA DisputedNat ==
    ASSUME NEW s \in Shipments, NEW m \in Milestones, DisputeTyped
    PROVE  DisputedAmount(s, m) \in Nat
  BY GrossNat, PercentNat DEF DisputedAmount, DisputeTyped, PerMilestone

(* A split is parked for a number of ledgers. *)
LEMMA SplitDelayNat ==
    ASSUME NEW s \in Shipments, NEW m \in Milestones
    PROVE  SplitDelay(s, m) \in Nat
  BY WindowAssumption DEF SplitDelay

(* An index occurs in a batch a number of times. *)
LEMMA OccurrencesNat ==
    ASSUME NEW list \in BatchLists, NEW m \in Milestones
    PROVE  Occurrences(list, m) \in Nat
  <1>1. list \in Seq(Milestones) /\ DOMAIN list = 1 .. Len(list) /\ Len(list) \in Nat
    BY ActorAssumption
  <1>2. IsFiniteSet(1 .. Len(list))
    BY <1>1, FS_Interval
  <1>3. IsFiniteSet({i \in DOMAIN list : list[i] = m})
    BY <1>1, <1>2, FS_Subset
  <1> QED
    BY <1>3, FS_CardinalityType DEF Occurrences

(* Updating one milestone keeps the type of a per-milestone record. *)
LEMMA UpdateTyped ==
    ASSUME NEW T, NEW f \in PerMilestone(T), NEW s \in Shipments, NEW m \in Milestones,
           NEW v \in T
    PROVE  [f EXCEPT ![s][m] = v] \in PerMilestone(T)
  BY DEF PerMilestone

(* So does pruning a shipment. *)
LEMMA PrunedTyped ==
    ASSUME NEW T, NEW f \in PerMilestone(T), NEW s \in Shipments, NEW none \in T,
           NEW prune \in BOOLEAN
    PROVE  Pruned(f, s, none, prune) \in PerMilestone(T)
  BY DEF PerMilestone, Pruned

(* The clock is a natural number. *)
LEMMA ClockNat == AdminTyped => now \in Nat
  BY SizeAssumption DEF AdminTyped

(* The completion check keeps the type of the index and of the statistics. *)
LEMMA CompletionTyped ==
    ASSUME NEW s \in Shipments, NEW ms, IndexTyped, CompleteIfDone(s, ms)
    PROVE  /\ statusIndex' \in [Statuses -> [Shipments -> Nat]]
           /\ completedShipments' \in Nat
  BY DEF IndexTyped, CompleteIfDone, MoveStatusIndex, Monus, Statuses

(* So does closing early. *)
LEMMA ClosingTyped ==
    ASSUME NEW s \in Shipments, NEW final \in Statuses, IndexTyped, CloseEarly(s, final)
    PROVE  /\ statusIndex' \in [Statuses -> [Shipments -> Nat]]
           /\ completedShipments' \in Nat
  BY DEF IndexTyped, CloseEarly, MoveStatusIndex, Monus, Statuses

(* Funding and proofs. *)

(* Funding keeps the type of every variable. *)
LEMMA CreateShipmentTyped ==
    ASSUME NEW s \in Shipments, TypeOK, CreateShipment(s)
    PROVE  TypeOK'
  <1> USE DEF TypeOK, CreateShipment
  <1>1. AdminTyped'
    BY DEF AdminTyped, adminVars
  <1>2. ShipmentTyped'
    BY DEF ShipmentTyped, Statuses, AdminTyped
  <1>3. MilestoneTyped'
    BY DEF MilestoneTyped, proofVars
  <1>4. DisputeTyped'
    BY DEF DisputeTyped, rulingVars
  <1>5. IndexTyped'
    BY DEF IndexTyped, Statuses
  <1>6. MoneyTyped'
    BY SizeAssumption, WindowAssumption DEF MoneyTyped
  <1> QED
    BY <1>1, <1>2, <1>3, <1>4, <1>5, <1>6

(* Submitting a proof keeps the type of every variable. *)
LEMMA SubmitProofTyped ==
    ASSUME NEW s \in Shipments, NEW m \in Milestones, TypeOK, SubmitProof(s, m)
    PROVE  TypeOK'
  <1> USE DEF TypeOK, SubmitProof
  <1>1. AdminTyped'
    BY DEF AdminTyped, adminVars
  <1>2. ShipmentTyped'
    BY DEF ShipmentTyped, partyVars
  <1>3. MilestoneTyped'
    BY DEF MilestoneTyped, AdminTyped, SetStatus, PerMilestone, MilestoneStatuses
  <1>4. DisputeTyped'
    BY DEF DisputeTyped, PerMilestone, rulingVars
  <1>5. IndexTyped' /\ MoneyTyped'
    BY DEF IndexTyped, MoneyTyped, indexVars, moneyVars
  <1> QED
    BY <1>1, <1>2, <1>3, <1>4, <1>5

(* Confirmation. *)

(* Confirming and paying a milestone keeps the type of every variable. *)
LEMMA ConfirmMilestoneTyped ==
    ASSUME NEW s \in Shipments, NEW m \in Milestones, TypeOK, ConfirmMilestone(s, m)
    PROVE  TypeOK'
  <1> USE DEF TypeOK, ConfirmMilestone
  <1>1. AdminTyped'
    BY DEF AdminTyped, adminVars
  <1>2. ShipmentTyped'
    BY DEF ShipmentTyped, CompleteIfDone, Statuses, partyVars
  <1>3. MilestoneTyped'
    BY DEF MilestoneTyped, SetStatus, PerMilestone, MilestoneStatuses, proofVars, None
  <1>4. DisputeTyped'
    BY DEF DisputeTyped, PerMilestone, rulingVars
  <1>5. IndexTyped'
    BY DEF IndexTyped, CompleteIfDone, MoveStatusIndex, Monus, Statuses
  <1>6. MoneyTyped'
    BY GrossNat, PenaltyInt DEF MoneyTyped, PayOut, Monus, PerMilestone
  <1> QED
    BY <1>1, <1>2, <1>3, <1>4, <1>5, <1>6

(* Confirming a milestone into its holdback keeps the type of every variable. *)
LEMMA HoldMilestoneTyped ==
    ASSUME NEW s \in Shipments, NEW m \in Milestones, TypeOK, HoldMilestone(s, m)
    PROVE  TypeOK'
  <1> USE DEF TypeOK, HoldMilestone
  <1>1. AdminTyped'
    BY DEF AdminTyped, adminVars
  <1>2. ShipmentTyped'
    BY DEF ShipmentTyped, partyVars
  <1>3. MilestoneTyped'
    BY WindowAssumption DEF MilestoneTyped, AdminTyped, SetStatus, PerMilestone,
       MilestoneStatuses, proofVars
  <1>4. DisputeTyped'
    BY DEF DisputeTyped, PerMilestone, rulingVars
  <1>5. IndexTyped' /\ MoneyTyped'
    BY DEF IndexTyped, MoneyTyped, indexVars, moneyVars
  <1> QED
    BY <1>1, <1>2, <1>3, <1>4, <1>5

(* Releasing a held payment keeps the type of every variable. *)
LEMMA ReleaseHeldPaymentTyped ==
    ASSUME NEW s \in Shipments, NEW m \in Milestones, TypeOK, ReleaseHeldPayment(s, m)
    PROVE  TypeOK'
  <1> USE DEF TypeOK, ReleaseHeldPayment
  <1>1. AdminTyped'
    BY DEF AdminTyped, adminVars
  <1>2. ShipmentTyped'
    BY DEF ShipmentTyped, CompleteIfDone, Statuses, partyVars
  <1>3. MilestoneTyped'
    BY DEF MilestoneTyped, SetStatus, PerMilestone, MilestoneStatuses, proofVars, None
  <1>4. DisputeTyped'
    BY DEF DisputeTyped, PerMilestone, rulingVars
  <1>5. IndexTyped'
    BY DEF IndexTyped, CompleteIfDone, MoveStatusIndex, Monus, Statuses
  <1>6. MoneyTyped'
    BY GrossNat DEF MoneyTyped, PayOut, Monus, PerMilestone
  <1> QED
    BY <1>1, <1>2, <1>3, <1>4, <1>5, <1>6

(* Confirming a batch keeps the type of every variable. *)
LEMMA BatchConfirmTyped ==
    ASSUME NEW s \in Shipments, NEW list \in BatchLists, TypeOK, BatchConfirmMilestones(s, list)
    PROVE  TypeOK'
  <1> USE DEF TypeOK, BatchConfirmMilestones
  <1>1. AdminTyped'
    BY DEF AdminTyped, adminVars
  <1>2. ShipmentTyped'
    BY DEF ShipmentTyped, CompleteIfDone, Statuses, partyVars
  <1>3. MilestoneTyped'
    BY DEF MilestoneTyped, SetStatus, PerMilestone, MilestoneStatuses, proofVars, None
  <1>4. DisputeTyped'
    BY DEF DisputeTyped, PerMilestone, rulingVars
  <1>5. IndexTyped'
    BY DEF IndexTyped, CompleteIfDone, MoveStatusIndex, Monus, Statuses
  <1>6. \A m \in Milestones : Occurrences(list, m) * Gross(m) \in Nat
    BY OccurrencesNat, GrossNat
  <1>7. MoneyTyped'
    BY BatchPaymentNat, <1>6 DEF MoneyTyped, Monus, PerMilestone
  <1> QED
    BY <1>1, <1>2, <1>3, <1>4, <1>5, <1>6, <1>7

(* Claiming an automatic confirmation keeps the type of every variable. *)
LEMMA ClaimAutoConfirmationTyped ==
    ASSUME NEW s \in Shipments, NEW m \in Milestones, TypeOK, ClaimAutoConfirmation(s, m)
    PROVE  TypeOK'
  <1> USE DEF TypeOK, ClaimAutoConfirmation
  <1>1. AdminTyped'
    BY DEF AdminTyped, adminVars
  <1>2. ShipmentTyped'
    BY DEF ShipmentTyped, CompleteIfDone, Statuses, partyVars
  <1>3. MilestoneTyped'
    BY DEF MilestoneTyped, SetStatus, PerMilestone, MilestoneStatuses, proofVars, None
  <1>4. DisputeTyped'
    BY DEF DisputeTyped, PerMilestone, rulingVars
  <1>5. IndexTyped'
    BY DEF IndexTyped, CompleteIfDone, MoveStatusIndex, Monus, Statuses
  <1>6. MoneyTyped'
    BY GrossNat, PenaltyInt DEF MoneyTyped, PayOut, Monus, PerMilestone
  <1> QED
    BY <1>1, <1>2, <1>3, <1>4, <1>5, <1>6

(* Disputes. *)

(* Raising a dispute keeps the type of every variable. *)
LEMMA RaiseDisputeTyped ==
    ASSUME NEW s \in Shipments, NEW m \in Milestones, TypeOK, RaiseDispute(s, m)
    PROVE  TypeOK'
  <1> USE DEF TypeOK, RaiseDispute
  <1>1. AdminTyped'
    BY DEF AdminTyped, adminVars
  <1>2. ShipmentTyped'
    BY DEF ShipmentTyped, OpenDispute, partyVars
  <1>3. MilestoneTyped'
    BY DEF MilestoneTyped, OpenDispute, SetStatus, PerMilestone, MilestoneStatuses, proofVars, None
  <1>4. DisputeTyped'
    BY DEF DisputeTyped, AdminTyped, OpenDispute, ForgetRuling, PerMilestone, None, rulingVars
  <1>5. IndexTyped'
    BY DEF IndexTyped, OpenDispute, PerMilestone, indexVars
  <1>6. MoneyTyped'
    BY DEF MoneyTyped, moneyVars
  <1> QED
    BY <1>1, <1>2, <1>3, <1>4, <1>5, <1>6

(* Contesting part of a milestone keeps the type of every variable. *)
LEMMA RaisePartialDisputeTyped ==
    ASSUME NEW s \in Shipments, NEW m \in Milestones, NEW percent \in ContestedPercents, TypeOK,
           RaisePartialDispute(s, m, percent)
    PROVE  TypeOK'
  <1> USE DEF TypeOK, RaisePartialDispute
  <1>1. AdminTyped'
    BY DEF AdminTyped, adminVars
  <1>2. ShipmentTyped'
    BY DEF ShipmentTyped, OpenDispute, partyVars
  <1>3. MilestoneTyped'
    BY DEF MilestoneTyped, OpenDispute, SetStatus, PerMilestone, MilestoneStatuses, proofVars, None
  <1>4. percent \in 1 .. 99
    BY WindowAssumption
  <1>5. DisputeTyped'
    <2>1. contested' \in PerMilestone(0 .. 99)
      BY <1>4 DEF DisputeTyped, PerMilestone
    <2> QED
      BY <2>1 DEF DisputeTyped, AdminTyped, OpenDispute, ForgetRuling, PerMilestone, None
  <1>6. IndexTyped'
    BY DEF IndexTyped, OpenDispute, PerMilestone, indexVars
  <1>7. (Gross(m) * (100 - percent)) \div 100 \in Nat
    BY <1>4, GrossNat, PercentNat
  <1>8. MoneyTyped'
    BY <1>7 DEF MoneyTyped, PayOut, Monus, PerMilestone
  <1> QED
    BY <1>1, <1>2, <1>3, <1>4, <1>5, <1>6, <1>7, <1>8

(* Reporting a condition breach keeps the type of every variable. *)
LEMMA ReportConditionBreachTyped ==
    ASSUME NEW s \in Shipments, NEW m \in Milestones, NEW oracle \in Oracles, TypeOK,
           ReportConditionBreach(s, m, oracle)
    PROVE  TypeOK'
  <1> USE DEF TypeOK
  <1>1. AdminTyped' /\ MoneyTyped'
    BY DEF ReportConditionBreach, AdminTyped, MoneyTyped, adminVars, moneyVars
  <1>2. /\ UNCHANGED <<status, arbiter, createdAt, lastResolved, proofLedger, submittedAt,
                       evidence, resolvedAt, appealed, contested, pendingSplit, ruledBy,
                       statusIndex, completedShipments>>
        /\ reports' \in PerMilestone(SUBSET Oracles)
    BY DEF ReportConditionBreach, DisputeTyped, PerMilestone, partyVars, proofVars, rulingVars
  <1>3. \/ OpenDispute(s, m)
        \/ UNCHANGED <<openDisputes, mstatus, releaseAfter, openedAt, activeDisputes>>
    BY DEF ReportConditionBreach
  <1>4. ShipmentTyped'
    BY <1>2, <1>3 DEF ShipmentTyped, OpenDispute
  <1>5. MilestoneTyped'
    <2>1. CASE OpenDispute(s, m)
      <3>1. "Disputed" \in MilestoneStatuses /\ None \in Nat
        BY DEF MilestoneStatuses, None
      <3> QED
        BY <1>2, <2>1, <3>1, UpdateTyped DEF MilestoneTyped, OpenDispute, SetStatus
    <2> QED
      BY <1>2, <1>3, <2>1 DEF MilestoneTyped
  <1>6. DisputeTyped'
    <2>1. CASE OpenDispute(s, m)
      <3>1. openedAt' \in PerMilestone(Nat)
        BY <2>1, ClockNat, UpdateTyped DEF DisputeTyped, OpenDispute
      <3> QED
        BY <1>2, <3>1 DEF DisputeTyped
    <2> QED
      BY <1>2, <1>3, <2>1 DEF DisputeTyped
  <1>7. IndexTyped'
    <2>1. CASE OpenDispute(s, m)
      BY <1>2, <2>1 DEF IndexTyped, OpenDispute, PerMilestone
    <2> QED
      BY <1>2, <1>3, <2>1 DEF IndexTyped
  <1> QED
    BY <1>1, <1>4, <1>5, <1>6, <1>7

(* Withdrawing a dispute keeps the type of every variable. *)
LEMMA WithdrawDisputeTyped ==
    ASSUME NEW s \in Shipments, NEW m \in Milestones, TypeOK, WithdrawDispute(s, m)
    PROVE  TypeOK'
  <1> USE DEF TypeOK, WithdrawDispute
  <1>1. AdminTyped'
    BY DEF AdminTyped, adminVars
  <1>2. ShipmentTyped'
    BY DEF ShipmentTyped, Delist, Monus, partyVars
  <1>3. MilestoneTyped'
    BY DEF MilestoneTyped, SetStatus, PerMilestone, MilestoneStatuses, proofVars, None
  <1>4. DisputeTyped'
    BY DEF DisputeTyped, PerMilestone, rulingVars
  <1>5. IndexTyped'
    BY DEF IndexTyped, Delist, PerMilestone
  <1>6. MoneyTyped'
    BY DEF MoneyTyped, moneyVars
  <1> QED
    BY <1>1, <1>2, <1>3, <1>4, <1>5, <1>6

(* A ruling for or against keeps the type of every variable. *)
LEMMA ResolveDisputeTyped ==
    ASSUME NEW s \in Shipments, NEW m \in Milestones, NEW approve \in BOOLEAN, TypeOK,
           ResolveDispute(s, m, approve)
    PROVE  TypeOK'
  <1> USE DEF TypeOK
  <1>1. AdminTyped'
    BY DEF ResolveDispute, AdminTyped, adminVars
  <1>2. ShipmentTyped'
    BY DEF ResolveDispute, Rule, ShipmentTyped, AdminTyped, CloseDispute, Delist, Monus,
           CompleteIfDone, Statuses, partyVars
  <1>3. \/ Park(s, m, FinalityDelay)
        \/ \E st \in {"Resolved", "Pending"}, weight \in {DisputedAmount(s, m), 0} :
              /\ SetStatus(s, m, st)
              /\ PayOut(s, m, weight, Bond, weight, 0)
              /\ UNCHANGED releaseAfter
    BY DEF ResolveDispute
  <1>4. MilestoneTyped'
    <2>1. UNCHANGED proofVars
      BY DEF ResolveDispute
    <2>2. {"ResolvedPendingFinality", "Resolved", "Pending"} \subseteq MilestoneStatuses
      BY DEF MilestoneStatuses
    <2>3. CASE Park(s, m, FinalityDelay)
      <3>1. now + FinalityDelay \in Nat
        BY WindowAssumption DEF AdminTyped
      <3> QED
        BY <2>1, <2>2, <2>3, <3>1, UpdateTyped DEF MilestoneTyped, Park, SetStatus, proofVars
    <2>4. CASE \E st \in {"Resolved", "Pending"} : SetStatus(s, m, st) /\ UNCHANGED releaseAfter
      <3>1. mstatus' \in PerMilestone(MilestoneStatuses)
        <4>1. PICK st \in {"Resolved", "Pending"} : SetStatus(s, m, st)
          BY <2>4
        <4>2. st \in MilestoneStatuses
          BY <2>2
        <4> QED
          BY <4>1, <4>2, UpdateTyped DEF MilestoneTyped, SetStatus
      <3> QED
        BY <2>1, <2>4, <3>1 DEF MilestoneTyped, proofVars
    <2> QED
      BY <1>3, <2>3, <2>4
  <1>5. DisputeTyped'
    BY DEF ResolveDispute, Rule, DisputeTyped, AdminTyped, ShipmentTyped, PerMilestone, NoSplit
  <1>6. IndexTyped'
    BY CompletionTyped DEF ResolveDispute, Rule, IndexTyped, CloseDispute, Delist, PerMilestone
  <1>7. MoneyTyped'
    BY <1>3, WindowAssumption, DisputedNat
    DEF MoneyTyped, Park, PayOut, Monus, PerMilestone, moneyVars
  <1> QED
    BY <1>1, <1>2, <1>4, <1>5, <1>6, <1>7

(* A split ruling keeps the type of every variable. *)
LEMMA ResolveDisputeSplitTyped ==
    ASSUME NEW s \in Shipments, NEW m \in Milestones, TypeOK, ResolveDisputeSplit(s, m)
    PROVE  TypeOK'
  <1> USE DEF TypeOK
  <1>1. AdminTyped'
    BY DEF ResolveDisputeSplit, AdminTyped, PruneAuxiliary
  <1>2. ShipmentTyped'
    BY DEF ResolveDisputeSplit, Rule, ShipmentTyped, AdminTyped, CloseDispute, Delist, Monus,
           CompleteIfDone, Statuses, partyVars
  <1>3. \/ /\ Park(s, m, SplitDelay(s, m))
           /\ UNCHANGED evidence
        \/ /\ SetStatus(s, m, "Resolved")
           /\ PayOut(s, m, DisputedAmount(s, m), Bond, DisputedAmount(s, m), 0)
           /\ evidence' \in {evidence, Pruned(evidence, s, 0, TRUE)}
           /\ UNCHANGED releaseAfter
    BY DEF ResolveDisputeSplit, PruneAuxiliary, Pruned
  <1>4. MilestoneTyped'
    <2>1. UNCHANGED <<proofLedger, submittedAt>>
      BY DEF ResolveDisputeSplit
    <2>2. {"ResolvedPendingFinality", "Resolved"} \subseteq MilestoneStatuses
      BY DEF MilestoneStatuses
    <2>3. CASE Park(s, m, SplitDelay(s, m)) /\ UNCHANGED evidence
      <3>1. now + SplitDelay(s, m) \in Nat
        BY SplitDelayNat DEF AdminTyped
      <3> QED
        BY <2>1, <2>2, <2>3, <3>1, UpdateTyped DEF MilestoneTyped, Park, SetStatus
    <2>4. CASE /\ SetStatus(s, m, "Resolved") /\ UNCHANGED releaseAfter
               /\ evidence' \in {evidence, Pruned(evidence, s, 0, TRUE)}
      BY <2>1, <2>2, <2>4, UpdateTyped, PrunedTyped DEF MilestoneTyped, SetStatus
    <2> QED
      BY <1>3, <2>3, <2>4
  <1>5. DisputeTyped'
    <2>1. ruledBy' \in PerMilestone(Arbiters \cup {NoArbiter})
      BY DEF ResolveDisputeSplit, Rule, ShipmentTyped, DisputeTyped, PerMilestone
    <2>2. CASE SplitDelay(s, m) > 0
      <3>1. /\ UNCHANGED <<openedAt, appealed, contested, reports>>
            /\ pendingSplit' = [pendingSplit EXCEPT ![s][m] = DisputedAmount(s, m)]
            /\ resolvedAt' = [resolvedAt EXCEPT ![s][m] = now]
        BY <2>2 DEF ResolveDisputeSplit
      <3>2. pendingSplit' \in PerMilestone(Nat \cup {NoSplit})
        BY <3>1, DisputedNat, UpdateTyped DEF DisputeTyped
      <3>3. resolvedAt' \in PerMilestone(Nat)
        BY <3>1, ClockNat, UpdateTyped DEF DisputeTyped
      <3> QED
        BY <2>1, <3>1, <3>2, <3>3 DEF DisputeTyped
    <2>3. CASE ~(SplitDelay(s, m) > 0)
      <3> DEFINE rulings == [resolvedAt EXCEPT ![s][m] = now]
                 scopes == [contested EXCEPT ![s][m] = 0]
                 prune == AllMilestonesDone(mstatus'[s])
      <3>1. PruneAuxiliary(s, prune, rulings, scopes) /\ UNCHANGED pendingSplit
        BY <2>3 DEF ResolveDisputeSplit
      <3>2. prune \in BOOLEAN
        BY DEF AllMilestonesDone
      <3>3. rulings \in PerMilestone(Nat) /\ scopes \in PerMilestone(0 .. 99)
        <4>1. now \in Nat /\ 0 \in 0 .. 99
          BY ClockNat
        <4> QED
          BY <4>1, UpdateTyped DEF DisputeTyped
      <3> HIDE DEF rulings, scopes, prune
      <3> QED
        <4>1. openedAt' \in PerMilestone(Nat) /\ resolvedAt' \in PerMilestone(Nat)
          BY <3>1, <3>2, <3>3, PrunedTyped DEF DisputeTyped, PruneAuxiliary, None
        <4>2. contested' \in PerMilestone(0 .. 99)
          <5>1. 0 \in 0 .. 99
            OBVIOUS
          <5> QED
            BY <3>1, <3>2, <3>3, <5>1, PrunedTyped DEF PruneAuxiliary
        <4>3. appealed' \in PerMilestone(BOOLEAN)
          BY <3>1, <3>2 DEF DisputeTyped, PruneAuxiliary, Pruned, PerMilestone
        <4>4. reports' \in PerMilestone(SUBSET Oracles)
          BY <3>1, <3>2, PrunedTyped DEF DisputeTyped, PruneAuxiliary
        <4> QED
          BY <2>1, <3>1, <4>1, <4>2, <4>3, <4>4 DEF DisputeTyped
    <2> QED
      BY <2>2, <2>3
  <1>6. IndexTyped'
    BY CompletionTyped DEF ResolveDisputeSplit, Rule, IndexTyped, CloseDispute, Delist,
       PerMilestone
  <1>7. MoneyTyped'
    <2>1. CASE Park(s, m, SplitDelay(s, m))
      BY <2>1 DEF MoneyTyped, Park, moneyVars
    <2>2. CASE PayOut(s, m, DisputedAmount(s, m), Bond, DisputedAmount(s, m), 0)
      BY <2>2, WindowAssumption, DisputedNat DEF MoneyTyped, PayOut, Monus, PerMilestone
    <2> QED
      BY <1>3, <2>1, <2>2
  <1> QED
    BY <1>1, <1>2, <1>4, <1>5, <1>6, <1>7

(* Paying a parked ruling keeps the type of every variable. *)
LEMMA FinalizeDisputeResolutionTyped ==
    ASSUME NEW s \in Shipments, NEW m \in Milestones, TypeOK, FinalizeDisputeResolution(s, m)
    PROVE  TypeOK'
  <1> USE DEF TypeOK, FinalizeDisputeResolution
  <1>1. AdminTyped'
    BY DEF AdminTyped, PruneAuxiliary
  <1>2. ShipmentTyped'
    BY DEF ShipmentTyped, CompleteIfDone, Statuses, partyVars
  <1>3. MilestoneTyped'
    BY DEF MilestoneTyped, SetStatus, PerMilestone, MilestoneStatuses, None, PruneAuxiliary, Pruned
  <1>4. DisputeTyped'
    BY DEF DisputeTyped, PerMilestone, NoSplit, None, PruneAuxiliary, Pruned
  <1>5. IndexTyped'
    BY DEF IndexTyped, CompleteIfDone, MoveStatusIndex, Monus, Statuses
  <1>6. MoneyTyped'
    BY WindowAssumption, GrossNat
    DEF MoneyTyped, DisputeTyped, NoSplit, PayOut, Monus, PerMilestone
  <1> QED
    BY <1>1, <1>2, <1>3, <1>4, <1>5, <1>6

(* Appealing a ruling keeps the type of every variable. *)
LEMMA AppealDisputeTyped ==
    ASSUME NEW s \in Shipments, NEW m \in Milestones, NEW other \in Arbiters, TypeOK,
           AppealDispute(s, m, other)
    PROVE  TypeOK'
  <1> USE DEF TypeOK, AppealDispute
  <1>1. AdminTyped'
    BY DEF AdminTyped, adminVars
  <1>2. ShipmentTyped'
    BY DEF ShipmentTyped
  <1>3. MilestoneTyped'
    BY DEF MilestoneTyped, SetStatus, PerMilestone, MilestoneStatuses, proofVars, None
  <1>4. DisputeTyped'
    BY DEF DisputeTyped, PerMilestone, None, NoSplit
  <1>5. IndexTyped' /\ MoneyTyped'
    BY DEF IndexTyped, MoneyTyped, indexVars, moneyVars
  <1> QED
    BY <1>1, <1>2, <1>3, <1>4, <1>5

(* Handing a dispute to the backup arbiter keeps the type of every variable. *)
LEMMA HandOffToBackupTyped ==
    ASSUME NEW s \in Shipments, NEW m \in Milestones, TypeOK, HandOffToBackup(s, m)
    PROVE  TypeOK'
  <1> USE DEF TypeOK, HandOffToBackup
  <1>1. AdminTyped'
    BY DEF AdminTyped, adminVars
  <1>2. ShipmentTyped'
    BY ActorAssumption DEF ShipmentTyped
  <1>3. MilestoneTyped'
    BY DEF MilestoneTyped, proofVars
  <1>4. DisputeTyped'
    BY DEF DisputeTyped, AdminTyped, PerMilestone, rulingVars
  <1>5. IndexTyped' /\ MoneyTyped'
    BY DEF IndexTyped, MoneyTyped, indexVars, moneyVars
  <1> QED
    BY <1>1, <1>2, <1>3, <1>4, <1>5

(* Settling a dispute by default keeps the type of every variable. *)
LEMMA ResolveDisputeTimeoutTyped ==
    ASSUME NEW s \in Shipments, NEW m \in Milestones, TypeOK, ResolveDisputeTimeout(s, m)
    PROVE  TypeOK'
  <1> USE DEF TypeOK, ResolveDisputeTimeout
  <1>1. AdminTyped'
    BY DEF AdminTyped, adminVars
  <1>2. ShipmentTyped'
    BY DEF ShipmentTyped, AdminTyped, CloseDispute, Delist, Monus, CompleteIfDone, Statuses,
       partyVars
  <1>3. MilestoneTyped'
    BY DEF MilestoneTyped, SetStatus, PerMilestone, MilestoneStatuses, proofVars, None
  <1>4. DisputeTyped'
    BY DEF DisputeTyped, PerMilestone, None
  <1>5. IndexTyped'
    BY CompletionTyped DEF IndexTyped, CloseDispute, Delist, PerMilestone
  <1>6. MoneyTyped'
    BY DisputedNat DEF MoneyTyped, PayOut, Monus, PerMilestone
  <1> QED
    BY <1>1, <1>2, <1>3, <1>4, <1>5, <1>6

(* Closing early. *)

(* The buyer's cancellation keeps the type of every variable. *)
LEMMA CancelShipmentTyped ==
    ASSUME NEW s \in Shipments, TypeOK, CancelShipment(s)
    PROVE  TypeOK'
  <1> USE DEF TypeOK, CancelShipment
  <1>1. AdminTyped'
    BY DEF AdminTyped, CloseEarly, PruneAuxiliary
  <1>2. ShipmentTyped'
    BY DEF ShipmentTyped, CloseEarly, Statuses, partyVars
  <1>3. MilestoneTyped'
    BY DEF MilestoneTyped, CloseEarly, PruneAuxiliary, Pruned, PerMilestone
  <1>4. DisputeTyped'
    BY DEF DisputeTyped, CloseEarly, PruneAuxiliary, Pruned, PerMilestone, None
  <1>5. IndexTyped'
    BY ClosingTyped DEF IndexTyped, PurgeDisputes, PerMilestone, Statuses
  <1>6. MoneyTyped'
    BY SizeAssumption DEF MoneyTyped, CloseEarly, Remaining, Monus
  <1> QED
    BY <1>1, <1>2, <1>3, <1>4, <1>5, <1>6

(* The supplier's cancellation keeps the type of every variable. *)
LEMMA SupplierCancelTyped ==
    ASSUME NEW s \in Shipments, TypeOK, SupplierCancel(s)
    PROVE  TypeOK'
  <1> USE DEF TypeOK, SupplierCancel
  <1>1. AdminTyped'
    BY DEF AdminTyped, CloseEarly, PruneAuxiliary
  <1>2. ShipmentTyped'
    BY DEF ShipmentTyped, CloseEarly, Statuses, partyVars
  <1>3. MilestoneTyped'
    BY DEF MilestoneTyped, CloseEarly, PruneAuxiliary, Pruned, PerMilestone
  <1>4. DisputeTyped'
    BY DEF DisputeTyped, CloseEarly, PruneAuxiliary, Pruned, PerMilestone, None
  <1>5. IndexTyped'
    BY ClosingTyped DEF IndexTyped, PurgeDisputes, PerMilestone, Statuses
  <1>6. MoneyTyped'
    BY SizeAssumption DEF MoneyTyped, CloseEarly, Remaining, Monus
  <1> QED
    BY <1>1, <1>2, <1>3, <1>4, <1>5, <1>6

(* Claiming the refund of a missed deadline keeps the type of every variable. *)
LEMMA ClaimDeadlineRefundTyped ==
    ASSUME NEW s \in Shipments, NEW m \in Milestones, TypeOK, ClaimDeadlineRefund(s, m)
    PROVE  TypeOK'
  <1> USE DEF TypeOK, ClaimDeadlineRefund
  <1>1. AdminTyped'
    BY DEF AdminTyped, CloseEarly, PruneAuxiliary
  <1>2. ShipmentTyped'
    BY DEF ShipmentTyped, CloseEarly, Statuses, partyVars
  <1>3. MilestoneTyped'
    BY DEF MilestoneTyped, CloseEarly, PruneAuxiliary, Pruned, PerMilestone
  <1>4. DisputeTyped'
    BY DEF DisputeTyped, CloseEarly, PruneAuxiliary, Pruned, PerMilestone, None
  <1>5. IndexTyped'
    BY ClosingTyped DEF IndexTyped, PurgeDisputes, PerMilestone, Statuses
  <1>6. MoneyTyped'
    BY SizeAssumption DEF MoneyTyped, CloseEarly, Remaining, Monus
  <1> QED
    BY <1>1, <1>2, <1>3, <1>4, <1>5, <1>6

(* Emergency recovery keeps the type of every variable. *)
LEMMA EmergencyRecoverTyped ==
    ASSUME NEW s \in Shipments, TypeOK, EmergencyRecover(s)
    PROVE  TypeOK'
  <1> USE DEF TypeOK, EmergencyRecover
  <1>1. AdminTyped'
    BY DEF AdminTyped, CloseEarly, PruneAuxiliary
  <1>2. ShipmentTyped'
    BY DEF ShipmentTyped, CloseEarly, Statuses, partyVars
  <1>3. MilestoneTyped'
    BY DEF MilestoneTyped, CloseEarly, PruneAuxiliary, Pruned, PerMilestone
  <1>4. DisputeTyped'
    BY DEF DisputeTyped, CloseEarly, PruneAuxiliary, Pruned, PerMilestone, None
  <1>5. IndexTyped'
    BY ClosingTyped DEF IndexTyped, PurgeDisputes, PerMilestone, Statuses
  <1>6. MoneyTyped'
    BY SizeAssumption DEF MoneyTyped, CloseEarly, Remaining, Monus
  <1> QED
    BY <1>1, <1>2, <1>3, <1>4, <1>5, <1>6

(* The admin and the clock. *)

(* An act of the admin keeps the type of every variable. *)
LEMMA AdminStepTyped ==
    ASSUME TypeOK, AdminStep
    PROVE  TypeOK'
  <1> USE DEF TypeOK, AdminStep
  <1>1. AdminTyped'
    BY ActorAssumption
    DEF AdminTyped, SetComplianceHold, ClearComplianceHold, SetPaused, SetOperationPaused
  <1>2. ShipmentTyped' /\ MilestoneTyped'
    BY DEF ShipmentTyped, MilestoneTyped, partyVars, proofVars
  <1>3. DisputeTyped' /\ IndexTyped' /\ MoneyTyped'
    BY DEF DisputeTyped, IndexTyped, MoneyTyped, rulingVars, indexVars, moneyVars
  <1> QED
    BY <1>1, <1>2, <1>3

(* A closed ledger keeps the type of every variable. *)
LEMMA TickTyped ==
    ASSUME TypeOK, Tick
    PROVE  TypeOK'
  <1> USE DEF TypeOK, Tick
  <1>1. AdminTyped'
    BY SizeAssumption DEF AdminTyped, adminVars
  <1>2. ShipmentTyped' /\ MilestoneTyped'
    BY DEF ShipmentTyped, MilestoneTyped, partyVars, proofVars
  <1>3. DisputeTyped' /\ IndexTyped' /\ MoneyTyped'
    BY DEF DisputeTyped, IndexTyped, MoneyTyped, rulingVars, indexVars, moneyVars
  <1> QED
    BY <1>1, <1>2, <1>3

(* A step of another module keeps the type of every variable. *)
LEMMA StutterTyped ==
    ASSUME TypeOK, UNCHANGED vars
    PROVE  TypeOK'
  <1> USE DEF TypeOK, vars
  <1>1. AdminTyped'
    BY DEF AdminTyped, adminVars
  <1>2. ShipmentTyped' /\ MilestoneTyped'
    BY DEF ShipmentTyped, MilestoneTyped, partyVars, proofVars
  <1>3. DisputeTyped' /\ IndexTyped' /\ MoneyTyped'
    BY DEF DisputeTyped, IndexTyped, MoneyTyped, rulingVars, indexVars, moneyVars
  <1> QED
    BY <1>1, <1>2, <1>3

(* Every step keeps every variable in the shape of its storage entry. *)
LEMMA NextTyped == TypeOK /\ [Next]_vars => TypeOK'
  <1> SUFFICES ASSUME TypeOK, [Next]_vars PROVE TypeOK'
    OBVIOUS
  <1>1. ASSUME NEW s \in Shipments, NEW m \in Milestones, MilestoneStep(s, m)
        PROVE  TypeOK'
    BY <1>1, SubmitProofTyped, ConfirmMilestoneTyped, HoldMilestoneTyped,
       ReleaseHeldPaymentTyped, ClaimAutoConfirmationTyped, RaiseDisputeTyped,
       RaisePartialDisputeTyped, ReportConditionBreachTyped, WithdrawDisputeTyped,
       ResolveDisputeTyped, ResolveDisputeSplitTyped, FinalizeDisputeResolutionTyped,
       AppealDisputeTyped, HandOffToBackupTyped, ResolveDisputeTimeoutTyped,
       ClaimDeadlineRefundTyped
    DEF MilestoneStep
  <1>2. ASSUME NEW s \in Shipments, ShipmentStep(s) PROVE TypeOK'
    BY <1>2, CreateShipmentTyped, BatchConfirmTyped, CancelShipmentTyped,
       SupplierCancelTyped, EmergencyRecoverTyped
    DEF ShipmentStep
  <1> QED
    BY <1>1, <1>2, AdminStepTyped, TickTyped, StutterTyped DEF Next

(* No sequence of calls drives a counter below zero, the token balance into debt
   or a record into a shape the code does not store. *)
THEOREM TypeCorrect == Spec => []TypeOK
  BY InitTyped, NextTyped, PTL DEF Spec
==========================================================================
