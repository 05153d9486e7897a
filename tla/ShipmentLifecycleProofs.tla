---------------------- MODULE ShipmentLifecycleProofs ----------------------
(***************************************************************************)
(* The life of a shipment and of its disputes: how a call can move a       *)
(* shipment's status and a milestone's dispute records, and the            *)
(* invariants and action properties of ShipmentEscrow that follow.         *)
(***************************************************************************)
EXTENDS ShipmentEscrowProofs

-----------------------------------------------------------------------------
(* What one call does to the status of the shipment it is about. *)

Stays(s) ==
    /\ UNCHANGED <<status, statusIndex, completedShipments>>
    /\ mstatus'[s] = mstatus[s] \/ ~AllMilestonesDone(mstatus'[s]) \/ DisputeTimeout > 0
Opens(s) ==
    /\ status[s] = "None"
    /\ status' = [status EXCEPT ![s] = "Active"]
    /\ statusIndex' = [statusIndex EXCEPT !["Active"][s] = @ + 1]
    /\ UNCHANGED <<mstatus, activeDisputes, completedShipments, paid, refunded>>
Completes(s) ==
    /\ AllMilestonesDone(mstatus'[s])
    /\ status' = [status EXCEPT ![s] = "Completed"]
    /\ MoveStatusIndex(s, "Active", "Completed")
    /\ completedShipments' = completedShipments + 1
Closes(s) ==
    /\ UNCHANGED <<mstatus, completedShipments>>
    /\ \E final \in {"Cancelled", "Expired"} :
          /\ status' = [status EXCEPT ![s] = final]
          /\ MoveStatusIndex(s, "Active", final)

(* The records of every other shipment stay as they are. *)
OthersKept(s) ==
    \A t \in Shipments \ {s} :
        /\ mstatus'[t] = mstatus[t] /\ activeDisputes'[t] = activeDisputes[t]
        /\ paid'[t] = paid[t] /\ refunded'[t] = refunded[t]

(* The completion check closes a shipment exactly when the statuses it is shown
   are all done. *)
LEMMA CompletionMoves ==
    ASSUME NEW s \in Shipments, NEW m \in Milestones, CompleteIfDone(s, mstatus'[s])
    PROVE  Stays(s) \/ Completes(s)
  BY DEF CompleteIfDone, Stays, Completes

(* A call about a milestone needs an open shipment, and keeps it open, completes
   it, or expires it. *)
LEMMA MilestoneMoves ==
    ASSUME TypeOK, NEW s \in Shipments, NEW m \in Milestones, MilestoneStep(s, m)
    PROVE  Open(s) /\ OthersKept(s) /\ (Stays(s) \/ Completes(s) \/ Closes(s))
  <1>0. /\ mstatus \in PerMilestone(MilestoneStatuses) /\ activeDisputes \in PerMilestone(Nat)
        /\ paid \in PerMilestone(Nat) /\ refunded \in [Shipments -> Int]
    BY DEF TypeOK, MilestoneTyped, IndexTyped, MoneyTyped
  <1> USE DEF OthersKept, PerMilestone, SetStatus, indexVars, moneyVars
  <1>1. CASE SubmitProof(s, m)
    <2>1. ~AllMilestonesDone(mstatus'[s])
      BY <1>0, <1>1 DEF SubmitProof, AllMilestonesDone
    <2> QED
      BY <1>0, <1>1, <2>1 DEF SubmitProof, Stays
  <1>2. CASE ConfirmMilestone(s, m)
    BY <1>0, <1>2, CompletionMoves DEF ConfirmMilestone, MayConfirm, PayOut
  <1>3. CASE HoldMilestone(s, m)
    <2>1. ~AllMilestonesDone(mstatus'[s])
      BY <1>0, <1>3 DEF HoldMilestone, AllMilestonesDone
    <2> QED
      BY <1>0, <1>3, <2>1 DEF HoldMilestone, MayConfirm, Stays
  <1>4. CASE ReleaseHeldPayment(s, m)
    BY <1>0, <1>4, CompletionMoves DEF ReleaseHeldPayment, PayOut
  <1>5. CASE ClaimAutoConfirmation(s, m)
    BY <1>0, <1>5, CompletionMoves DEF ClaimAutoConfirmation, PayOut
  <1>6. CASE RaiseDispute(s, m)
    <2>1. ~AllMilestonesDone(mstatus'[s])
      BY <1>0, <1>6 DEF RaiseDispute, OpenDispute, AllMilestonesDone
    <2> QED
      BY <1>0, <1>6, <2>1 DEF RaiseDispute, MayDispute, OpenDispute, Stays
  <1>7. ASSUME NEW percent \in ContestedPercents, RaisePartialDispute(s, m, percent)
        PROVE  Open(s) /\ OthersKept(s) /\ Stays(s)
    <2>1. ~AllMilestonesDone(mstatus'[s])
      BY <1>0, <1>7 DEF RaisePartialDispute, OpenDispute, AllMilestonesDone
    <2> QED
      BY <1>0, <1>7, <2>1 DEF RaisePartialDispute, MayDispute, OpenDispute, PayOut, Stays
  <1>8. ASSUME NEW oracle \in Oracles, ReportConditionBreach(s, m, oracle)
        PROVE  Open(s) /\ OthersKept(s) /\ Stays(s)
    <2>1. OpenDispute(s, m) \/ UNCHANGED <<mstatus, activeDisputes>>
      BY <1>8 DEF ReportConditionBreach
    <2>2. /\ Open(s)
          /\ UNCHANGED <<status, statusIndex, completedShipments, paid, refunded>>
      BY <1>8 DEF ReportConditionBreach
    <2>3. CASE OpenDispute(s, m)
      <3>1. ~AllMilestonesDone(mstatus'[s])
        BY <1>0, <2>3 DEF OpenDispute, AllMilestonesDone
      <3> QED
        BY <1>0, <2>2, <2>3, <3>1 DEF OpenDispute, Stays
    <2> QED
      BY <2>1, <2>2, <2>3 DEF Stays
  <1>9. CASE WithdrawDispute(s, m)
    <2>1. ~AllMilestonesDone(mstatus'[s])
      BY <1>0, <1>9 DEF WithdrawDispute, AllMilestonesDone
    <2> QED
      BY <1>0, <1>9, <2>1 DEF WithdrawDispute, Delist, Stays
  <1>10. CASE \E approve \in BOOLEAN : ResolveDispute(s, m, approve)
    BY <1>0, <1>10, CompletionMoves DEF ResolveDispute, Rule, CloseDispute, Delist, Park, PayOut
  <1>11. CASE ResolveDisputeSplit(s, m)
    <2>1. CASE SplitDelay(s, m) > 0
      <3>1. ~AllMilestonesDone(mstatus'[s])
        <4>1. mstatus' = [mstatus EXCEPT ![s][m] = "ResolvedPendingFinality"]
          BY <1>11, <2>1 DEF ResolveDisputeSplit, Park
        <4> QED
          BY <1>0, <4>1 DEF AllMilestonesDone
      <3> QED
        BY <1>0, <1>11, <2>1, <3>1 DEF ResolveDisputeSplit, Rule, CloseDispute, Delist, Park, Stays
    <2>2. CASE ~(SplitDelay(s, m) > 0)
      BY <1>0, <1>11, <2>2, CompletionMoves
      DEF ResolveDisputeSplit, Rule, CloseDispute, Delist, PayOut
    <2> QED
      BY <2>1, <2>2
  <1>12. CASE FinalizeDisputeResolution(s, m)
    BY <1>0, <1>12, CompletionMoves DEF FinalizeDisputeResolution, PayOut
  <1>13. CASE \E other \in Arbiters : AppealDispute(s, m, other)
    <2>1. ~AllMilestonesDone(mstatus'[s])
      BY <1>0, <1>13 DEF AppealDispute, AllMilestonesDone
    <2> QED
      BY <1>0, <1>13, <2>1 DEF AppealDispute, MayAppeal, Stays
  <1>14. CASE HandOffToBackup(s, m)
    BY <1>0, <1>14 DEF HandOffToBackup, TimedOut, Stays
  <1>15. CASE ResolveDisputeTimeout(s, m)
    <2>1. ~AllMilestonesDone(mstatus[s])
      BY <1>15 DEF ResolveDisputeTimeout, TimedOut, AllMilestonesDone
    <2> QED
      BY <1>0, <1>15, <2>1
      DEF ResolveDisputeTimeout, TimedOut, CompleteIfDone, CloseDispute, Delist, PayOut, Stays
  <1>16. CASE ClaimDeadlineRefund(s, m)
    BY <1>0, <1>16 DEF ClaimDeadlineRefund, CloseEarly, Closes
  <1> QED
    BY <1>1, <1>2, <1>3, <1>4, <1>5, <1>6, <1>7, <1>8, <1>9, <1>10, <1>11, <1>12, <1>13,
       <1>14, <1>15, <1>16 DEF MilestoneStep

(* A call about a whole shipment funds it, or needs it open. *)
LEMMA ShipmentMoves ==
    ASSUME TypeOK, NEW s \in Shipments, ShipmentStep(s)
    PROVE  /\ OthersKept(s)
           /\ Opens(s) \/ (Open(s) /\ (Stays(s) \/ Completes(s) \/ Closes(s)))
  <1>0. /\ mstatus \in PerMilestone(MilestoneStatuses) /\ activeDisputes \in PerMilestone(Nat)
        /\ paid \in PerMilestone(Nat) /\ refunded \in [Shipments -> Int]
        /\ NumMilestones \in Nat \ {0} /\ 0 \in Milestones
    BY SizeAssumption DEF TypeOK, MilestoneTyped, IndexTyped, MoneyTyped, Milestones
  <1> USE DEF OthersKept, PerMilestone, indexVars, moneyVars
  <1>1. CASE CreateShipment(s)
    BY <1>1 DEF CreateShipment, Opens
  <1>2. CASE \E list \in BatchLists : BatchConfirmMilestones(s, list)
    BY <1>0, <1>2, CompletionMoves DEF BatchConfirmMilestones
  <1>3. CASE CancelShipment(s)
    BY <1>0, <1>3 DEF CancelShipment, CloseEarly, PurgeDisputes, Closes
  <1>4. CASE SupplierCancel(s)
    BY <1>0, <1>4 DEF SupplierCancel, CloseEarly, PurgeDisputes, Closes
  <1>5. CASE EmergencyRecover(s)
    BY <1>0, <1>5 DEF EmergencyRecover, CloseEarly, Closes
  <1> QED
    BY <1>1, <1>2, <1>3, <1>4, <1>5 DEF ShipmentStep

(* Calls of the admin and the passing of time move no shipment. *)
Idle == UNCHANGED <<status, statusIndex, completedShipments, mstatus, activeDisputes,
                    openDisputes, releaseAfter, pendingSplit, resolvedAt, appealed,
                    paid, refunded>>
LEMMA AdminIsIdle == AdminStep \/ Tick \/ UNCHANGED vars => Idle
  BY DEF AdminStep, Tick, vars, Idle, rulingVars, indexVars, moneyVars

(* Every step is a call about some shipment, or moves none. *)
LEMMA StepMoves ==
    ASSUME TypeOK, [Next]_vars
    PROVE  \/ Idle
           \/ \E s \in Shipments :
                 /\ OthersKept(s)
                 /\ Opens(s) \/ (Open(s) /\ (Stays(s) \/ Completes(s) \/ Closes(s)))
  BY MilestoneMoves, ShipmentMoves, AdminIsIdle DEF Next

-----------------------------------------------------------------------------
(* What follows for a shipment's status. *)

(* A settled shipment is settled for good: no call, whoever makes it and in
   whatever order, moves a milestone, a token or the status of a shipment that
   was completed, cancelled or has expired. *)
THEOREM ClosedForGood == Spec => ClosedIsFinal
  <1>1. TypeOK /\ [Next]_vars =>
          [\A s \in Shipments : status[s] \notin {"None", "Active"}
             => /\ status'[s] = status[s] /\ mstatus'[s] = mstatus[s]
                /\ paid'[s] = paid[s] /\ refunded'[s] = refunded[s]]_vars
    <2> SUFFICES ASSUME TypeOK, [Next]_vars,
                        NEW t \in Shipments, status[t] \notin {"None", "Active"}
                 PROVE  /\ status'[t] = status[t] /\ mstatus'[t] = mstatus[t]
                        /\ paid'[t] = paid[t] /\ refunded'[t] = refunded[t]
      OBVIOUS
    <2>1. CASE Idle
      BY <2>1 DEF Idle
    <2>2. ASSUME NEW s \in Shipments, OthersKept(s),
                 Opens(s) \/ (Open(s) /\ (Stays(s) \/ Completes(s) \/ Closes(s)))
          PROVE  /\ status'[t] = status[t] /\ mstatus'[t] = mstatus[t]
                 /\ paid'[t] = paid[t] /\ refunded'[t] = refunded[t]
      <3>1. t # s
        BY <2>2 DEF Opens, Open
      <3>2. status'[t] = status[t]
        BY <2>2, <3>1 DEF Opens, Stays, Completes, Closes, TypeOK, ShipmentTyped
      <3> QED
        BY <2>2, <3>1, <3>2 DEF OthersKept
    <2> QED
      BY <2>1, <2>2, StepMoves
  <1> QED
    BY <1>1, TypeCorrect, PTL DEF Spec, ClosedIsFinal

(* No call about a shipment or a milestone passes the pause. *)
LEMMA CallsNeedUnpaused ==
    /\ \A s \in Shipments, m \in Milestones : MilestoneStep(s, m) => ~paused
    /\ \A s \in Shipments : ShipmentStep(s) => ~paused
  <1> USE DEF NotPaused, NotPausedFor
  <1>1. ASSUME NEW s \in Shipments, NEW m \in Milestones, MilestoneStep(s, m) PROVE ~paused
    BY <1>1 DEF MilestoneStep, SubmitProof, ConfirmMilestone, HoldMilestone, MayConfirm,
       ReleaseHeldPayment, ClaimAutoConfirmation, RaiseDispute, RaisePartialDispute, MayDispute,
       ReportConditionBreach, WithdrawDispute, ResolveDispute, ResolveDisputeSplit, Rule,
       FinalizeDisputeResolution, AppealDispute, MayAppeal, HandOffToBackup,
       ResolveDisputeTimeout, TimedOut, ClaimDeadlineRefund
  <1>2. ASSUME NEW s \in Shipments, ShipmentStep(s) PROVE ~paused
    BY <1>2 DEF ShipmentStep, CreateShipment, BatchConfirmMilestones, CancelShipment,
       SupplierCancel, EmergencyRecover
  <1> QED
    BY <1>1, <1>2

(* A paused contract stands still: no entry point that moves a shipment, a
   dispute or a token forgets to ask for the pause. *)
THEOREM PauseHolds == Spec => PauseStopsAll
  <1>1. [Next]_vars =>
          [paused => UNCHANGED <<status, mstatus, openDisputes, activeDisputes, reports, balance>>]_vars
    <2> SUFFICES ASSUME [Next]_vars, paused
                 PROVE  UNCHANGED <<status, mstatus, openDisputes, activeDisputes, reports, balance>>
      OBVIOUS
    <2>1. AdminStep \/ Tick \/ UNCHANGED vars
      BY CallsNeedUnpaused DEF Next
    <2> QED
      BY <2>1 DEF AdminStep, Tick, vars, indexVars, moneyVars
  <1> QED
    BY <1>1, PTL DEF Spec, PauseStopsAll

(* The statistics stay exact: every shipment is in the index of its own status
   once and in no other, and completed shipments are counted once each. *)
THEOREM IndexStaysExact == Spec => []StatusIndexExact
  <1> DEFINE Done == {s \in Shipments : status[s] = "Completed"}
             Inv == StatusIndexExact /\ IsFiniteSet(Done)
  <1>1. Init => Inv
    <2> SUFFICES ASSUME Init PROVE Inv
      OBVIOUS
    <2>1. Done = {}
      BY DEF Init
    <2> QED
      BY <2>1, FS_EmptySet DEF Init, StatusIndexExact
  <1>2. TypeOK /\ Inv /\ [Next]_vars => Inv'
    <2> SUFFICES ASSUME TypeOK, Inv, [Next]_vars PROVE Inv'
      OBVIOUS
    <2>0. /\ status \in [Shipments -> Statuses]
          /\ statusIndex \in [Statuses -> [Shipments -> Nat]]
          /\ completedShipments \in Nat
      BY DEF TypeOK, ShipmentTyped, IndexTyped
    <2>1. CASE UNCHANGED <<status, statusIndex, completedShipments>>
      BY <2>1 DEF StatusIndexExact
    <2>2. ASSUME NEW s \in Shipments, Opens(s) PROVE Inv'
      <3>1. Done' = Done
        BY <2>0, <2>2 DEF Opens
      <3>2. \A t \in Shipments, st \in Statuses :
              statusIndex'[st][t] = IF st = status'[t] /\ st # "None" THEN 1 ELSE 0
        BY <2>0, <2>2 DEF Opens, StatusIndexExact, Statuses
      <3> QED
        BY <2>2, <3>1, <3>2 DEF Opens, StatusIndexExact
    <2>3. ASSUME NEW s \in Shipments, Open(s), Completes(s) PROVE Inv'
      <3>1. Done' = Done \cup {s} /\ s \notin Done
        BY <2>0, <2>3 DEF Completes, Open
      <3>2. Cardinality(Done') = Cardinality(Done) + 1 /\ IsFiniteSet(Done')
        BY <3>1, FS_AddElement
      <3>3. \A t \in Shipments, st \in Statuses :
              statusIndex'[st][t] = IF st = status'[t] /\ st # "None" THEN 1 ELSE 0
        BY <2>0, <2>3 DEF Completes, Open, MoveStatusIndex, Monus, StatusIndexExact, Statuses
      <3> QED
        BY <2>3, <3>2, <3>3 DEF Completes, StatusIndexExact
    <2>4. ASSUME NEW s \in Shipments, Open(s), Closes(s) PROVE Inv'
      <3>0. PICK final \in {"Cancelled", "Expired"} :
              /\ status' = [status EXCEPT ![s] = final]
              /\ MoveStatusIndex(s, "Active", final)
        BY <2>4 DEF Closes
      <3>1. Done' = Done
        BY <2>0, <2>4, <3>0 DEF Open
      <3>2. \A t \in Shipments, st \in Statuses :
              statusIndex'[st][t] = IF st = status'[t] /\ st # "None" THEN 1 ELSE 0
        BY <2>0, <2>4, <3>0 DEF Open, MoveStatusIndex, Monus, StatusIndexExact, Statuses
      <3> QED
        BY <2>4, <3>1, <3>2 DEF Closes, StatusIndexExact
    <2> QED
      BY <2>1, <2>2, <2>3, <2>4, StepMoves DEF Idle, Stays
  <1> QED
    BY <1>1, <1>2, TypeCorrect, PTL DEF Spec

(* No shipment is completed with a milestone still to be settled. *)
THEOREM CompletionJustified == Spec => []CompletedMeansDone
  <1>1. Init => CompletedMeansDone
    BY DEF Init, CompletedMeansDone
  <1>2. TypeOK /\ CompletedMeansDone /\ [Next]_vars => CompletedMeansDone'
    <2> SUFFICES ASSUME TypeOK, CompletedMeansDone, [Next]_vars,
                        NEW t \in Shipments, status'[t] = "Completed"
                 PROVE  AllMilestonesDone(mstatus'[t])
      BY DEF CompletedMeansDone
    <2>0. status \in [Shipments -> Statuses]
      BY DEF TypeOK, ShipmentTyped
    <2>1. CASE Idle
      BY <2>1 DEF Idle, CompletedMeansDone
    <2>2. ASSUME NEW s \in Shipments, OthersKept(s),
                 Opens(s) \/ (Open(s) /\ (Stays(s) \/ Completes(s) \/ Closes(s)))
          PROVE  AllMilestonesDone(mstatus'[t])
      <3>1. CASE t = s
        BY <2>0, <2>2, <3>1 DEF Opens, Open, Stays, Completes, Closes
      <3>2. CASE t # s
        <4>1. status[t] = "Completed" /\ mstatus'[t] = mstatus[t]
          BY <2>0, <2>2, <3>2 DEF Opens, Stays, Completes, Closes, OthersKept
        <4> QED
          BY <4>1 DEF CompletedMeansDone
      <3> QED
        BY <3>1, <3>2
    <2> QED
      BY <2>1, <2>2, StepMoves
  <1> QED
    BY <1>1, <1>2, TypeCorrect, PTL DEF Spec

(* Where no dispute can time out, the call that settles the last milestone
   closes the shipment: none is left open with nothing to do. *)
THEOREM NothingLeftOpen == DisputeTimeout = 0 => (Spec => []DoneMeansClosed)
  <1> DEFINE Fresh == \A s \in Shipments, m \in Milestones :
                          status[s] = "None" => mstatus[s][m] = "Pending"
             Inv == DoneMeansClosed /\ Fresh
  <1>0. 0 \in Milestones
    BY SizeAssumption DEF Milestones
  <1> SUFFICES ASSUME DisputeTimeout = 0 PROVE Spec => []DoneMeansClosed
    OBVIOUS
  <1>1. Init => Inv
    BY DEF Init, Everywhere, DoneMeansClosed
  <1>2. TypeOK /\ Inv /\ [Next]_vars => Inv'
    <2> SUFFICES ASSUME TypeOK, Inv, [Next]_vars, NEW t \in Shipments
                 PROVE  /\ status'[t] = "Active" => ~AllMilestonesDone(mstatus'[t])
                        /\ status'[t] = "None" =>
                               \A m \in Milestones : mstatus'[t][m] = "Pending"
      BY DEF DoneMeansClosed
    <2>0. status \in [Shipments -> Statuses]
      BY DEF TypeOK, ShipmentTyped
    <2>1. CASE Idle
      BY <2>1 DEF Idle, DoneMeansClosed
    <2>2. ASSUME NEW s \in Shipments, OthersKept(s),
                 Opens(s) \/ (Open(s) /\ (Stays(s) \/ Completes(s) \/ Closes(s)))
          PROVE  /\ status'[t] = "Active" => ~AllMilestonesDone(mstatus'[t])
                 /\ status'[t] = "None" =>
                        \A m \in Milestones : mstatus'[t][m] = "Pending"
      <3>1. CASE t # s
        <4>1. status'[t] = status[t] /\ mstatus'[t] = mstatus[t]
          BY <2>0, <2>2, <3>1 DEF Opens, Stays, Completes, Closes, OthersKept
        <4> QED
          BY <4>1 DEF DoneMeansClosed
      <3>2. CASE t = s /\ Opens(s)
        <4>1. ~AllMilestonesDone(mstatus[s])
          BY <1>0, <3>2 DEF Opens, AllMilestonesDone
        <4> QED
          BY <2>0, <3>2, <4>1 DEF Opens
      <3>3. CASE t = s /\ Open(s) /\ (Stays(s) \/ Completes(s) \/ Closes(s))
        BY <2>0, <3>3 DEF Open, Stays, Completes, Closes, DoneMeansClosed
      <3> QED
        BY <2>2, <3>1, <3>2, <3>3
    <2> QED
      BY <2>1, <2>2, StepMoves
  <1> QED
    BY <1>1, <1>2, TypeCorrect, PTL DEF Spec

-----------------------------------------------------------------------------
(* What follows for a milestone's release ledger and its last ruling. *)

Paced(s, m) ==
    /\ releaseAfter[s][m] # None <=>
           mstatus[s][m] \in {"ConfirmedHeld", "ResolvedPendingFinality"}
    /\ pendingSplit[s][m] # NoSplit => mstatus[s][m] = "ResolvedPendingFinality"

(* No call about a milestone leaves a release ledger behind, or loses one. *)
LEMMA MilestonePaced ==
    ASSUME TypeOK, ReleaseLedgerWhilePending, NEW s \in Shipments, NEW m \in Milestones,
           MilestoneStep(s, m), NEW t \in Shipments, NEW k \in Milestones
    PROVE  Paced(t, k)'
  <1>0. /\ Paced(t, k) /\ Paced(s, m)
        /\ mstatus \in PerMilestone(MilestoneStatuses) /\ releaseAfter \in PerMilestone(Nat)
        /\ pendingSplit \in PerMilestone(Nat \cup {NoSplit}) /\ now \in Nat \ {0}
    BY SizeAssumption
    DEF ReleaseLedgerWhilePending, Paced, TypeOK, MilestoneTyped, DisputeTyped, AdminTyped
  <1>a. {Holdback, FinalityDelay, AppealWindow} \subseteq Nat
    BY WindowAssumption
  <1> USE DEF Paced, PerMilestone, SetStatus, None
  <1>1. CASE SubmitProof(s, m)
    BY <1>0, <1>1 DEF SubmitProof, rulingVars
  <1>2. CASE ConfirmMilestone(s, m)
    BY <1>0, <1>2 DEF ConfirmMilestone, MayConfirm, rulingVars
  <1>3. CASE HoldMilestone(s, m)
    BY <1>0, <1>a, <1>3 DEF HoldMilestone, MayConfirm, rulingVars
  <1>4. CASE ReleaseHeldPayment(s, m)
    BY <1>0, <1>4 DEF ReleaseHeldPayment, rulingVars
  <1>5. CASE ClaimAutoConfirmation(s, m)
    BY <1>0, <1>5 DEF ClaimAutoConfirmation, rulingVars
  <1>6. CASE RaiseDispute(s, m)
    BY <1>0, <1>6 DEF RaiseDispute, MayDispute, OpenDispute
  <1>7. CASE \E percent \in ContestedPercents : RaisePartialDispute(s, m, percent)
    BY <1>0, <1>7 DEF RaisePartialDispute, MayDispute, OpenDispute
  <1>8. CASE \E oracle \in Oracles : ReportConditionBreach(s, m, oracle)
    <2>1. /\ UNCHANGED pendingSplit
          /\ \/ /\ mstatus[s][m] \in {"Pending", "ProofSubmitted", "ConfirmedHeld"}
                /\ OpenDispute(s, m)
             \/ UNCHANGED <<mstatus, releaseAfter>>
      BY <1>8 DEF ReportConditionBreach, rulingVars
    <2>2. CASE OpenDispute(s, m) /\ mstatus[s][m] # "ResolvedPendingFinality"
      <3>1. /\ mstatus' = [mstatus EXCEPT ![s][m] = "Disputed"]
            /\ releaseAfter' = [releaseAfter EXCEPT ![s][m] = 0]
        BY <2>2 DEF OpenDispute
      <3> QED
        BY <1>0, <2>1, <2>2, <3>1
    <2>3. CASE UNCHANGED <<mstatus, releaseAfter>>
      BY <1>0, <2>1, <2>3
    <2> QED
      BY <2>1, <2>2, <2>3
  <1>9. CASE WithdrawDispute(s, m)
    BY <1>0, <1>9 DEF WithdrawDispute, rulingVars
  <1>10. CASE \E approve \in BOOLEAN : ResolveDispute(s, m, approve)
    BY <1>0, <1>a, <1>10 DEF ResolveDispute, Rule, Park
  <1>11. CASE ResolveDisputeSplit(s, m)
    <2>1. SplitDelay(s, m) \in Nat
      BY SplitDelayNat DEF TypeOK
    <2> QED
      BY <1>0, <1>11, <2>1 DEF ResolveDisputeSplit, Rule, Park
  <1>12. CASE FinalizeDisputeResolution(s, m)
    BY <1>0, <1>12 DEF FinalizeDisputeResolution
  <1>13. CASE \E other \in Arbiters : AppealDispute(s, m, other)
    BY <1>0, <1>13 DEF AppealDispute
  <1>14. CASE HandOffToBackup(s, m)
    BY <1>0, <1>14 DEF HandOffToBackup, rulingVars
  <1>15. CASE ResolveDisputeTimeout(s, m)
    BY <1>0, <1>15 DEF ResolveDisputeTimeout, TimedOut
  <1>16. CASE ClaimDeadlineRefund(s, m)
    BY <1>0, <1>16 DEF ClaimDeadlineRefund, CloseEarly
  <1> QED
    BY <1>1, <1>2, <1>3, <1>4, <1>5, <1>6, <1>7, <1>8, <1>9, <1>10, <1>11, <1>12, <1>13,
       <1>14, <1>15, <1>16 DEF MilestoneStep

(* Nor does a call about a whole shipment. *)
LEMMA ShipmentPaced ==
    ASSUME TypeOK, ReleaseLedgerWhilePending, NEW s \in Shipments, ShipmentStep(s),
           NEW t \in Shipments, NEW k \in Milestones
    PROVE  Paced(t, k)'
  <1>0. Paced(t, k) /\ mstatus \in PerMilestone(MilestoneStatuses)
    BY DEF ReleaseLedgerWhilePending, Paced, TypeOK, MilestoneTyped
  <1>1. CASE CreateShipment(s)
    BY <1>0, <1>1 DEF CreateShipment, rulingVars, Paced
  <1>2. CASE \E list \in BatchLists : BatchConfirmMilestones(s, list)
    BY <1>0, <1>2 DEF BatchConfirmMilestones, rulingVars, Paced, PerMilestone
  <1>3. CASE CancelShipment(s) \/ SupplierCancel(s) \/ EmergencyRecover(s)
    BY <1>0, <1>3 DEF CancelShipment, SupplierCancel, EmergencyRecover, CloseEarly, Paced
  <1> QED
    BY <1>1, <1>2, <1>3 DEF ShipmentStep

(* A step keeps release ledgers and parked splits with the payments that wait. *)
LEMMA StepPaced == TypeOK /\ ReleaseLedgerWhilePending /\ [Next]_vars => ReleaseLedgerWhilePending'
  <1> SUFFICES ASSUME TypeOK, ReleaseLedgerWhilePending, [Next]_vars,
                      NEW t \in Shipments, NEW k \in Milestones
               PROVE  Paced(t, k)'
    BY DEF ReleaseLedgerWhilePending, Paced
  <1>1. CASE AdminStep \/ Tick \/ UNCHANGED vars
    BY <1>1, AdminIsIdle DEF Idle, ReleaseLedgerWhilePending, Paced
  <1> QED
    BY <1>1, MilestonePaced, ShipmentPaced DEF Next

(* Whatever interrupts a held confirmation or a parked ruling, a release ledger
   is set exactly while a payment waits for it, and a split is stored only while
   its ruling is parked. *)
THEOREM ReleaseTimely == Spec => []ReleaseLedgerWhilePending
  <1>1. Init => ReleaseLedgerWhilePending
    BY DEF Init, Everywhere, ReleaseLedgerWhilePending, None, NoSplit
  <1> QED
    BY <1>1, StepPaced, TypeCorrect, PTL DEF Spec

(* The second ruling ends the argument: after an appeal was ruled on, no call
   takes the milestone out of its resolution again. *)
THEOREM AppealEndsIt == Spec => AppealRulingFinal
  <1> DEFINE Final(st) == st \in {"ResolvedPendingFinality", "Resolved"}
  <1>1. TypeOK /\ [Next]_vars =>
          [\A s \in Shipments, m \in Milestones :
              appealed[s][m] /\ Final(mstatus[s][m]) => Final(mstatus'[s][m])]_vars
    <2> SUFFICES ASSUME TypeOK, [Next]_vars, NEW t \in Shipments, NEW k \in Milestones,
                        appealed[t][k], Final(mstatus[t][k])
                 PROVE  Final(mstatus'[t][k])
      OBVIOUS
    <2>0. mstatus \in PerMilestone(MilestoneStatuses)
      BY DEF TypeOK, MilestoneTyped
    <2>1. CASE AdminStep \/ Tick \/ UNCHANGED vars
      BY <2>1, AdminIsIdle DEF Idle
    <2>2. ASSUME NEW s \in Shipments, ShipmentStep(s) PROVE Final(mstatus'[t][k])
      <3>1. CASE \E list \in BatchLists : BatchConfirmMilestones(s, list)
        BY <2>0, <3>1 DEF BatchConfirmMilestones, PerMilestone
      <3>2. CASE ~\E list \in BatchLists : BatchConfirmMilestones(s, list)
        BY <2>2, <3>2 DEF ShipmentStep, CreateShipment, CancelShipment, SupplierCancel,
                          EmergencyRecover, CloseEarly
      <3> QED
        BY <3>1, <3>2
    <2>3. ASSUME NEW s \in Shipments, NEW m \in Milestones, MilestoneStep(s, m)
          PROVE  Final(mstatus'[t][k])
      <3> USE <2>0 DEF PerMilestone, SetStatus
      <3>1. CASE SubmitProof(s, m) \/ ConfirmMilestone(s, m) \/ HoldMilestone(s, m)
        BY <3>1 DEF SubmitProof, ConfirmMilestone, HoldMilestone, MayConfirm
      <3>2. CASE ReleaseHeldPayment(s, m) \/ ClaimAutoConfirmation(s, m)
        BY <3>2 DEF ReleaseHeldPayment, ClaimAutoConfirmation
      <3>3. CASE RaiseDispute(s, m) \/ WithdrawDispute(s, m) \/ ResolveDisputeTimeout(s, m)
        BY <3>3 DEF RaiseDispute, MayDispute, OpenDispute, WithdrawDispute,
                    ResolveDisputeTimeout, TimedOut
      <3>4. CASE \E percent \in ContestedPercents : RaisePartialDispute(s, m, percent)
        BY <3>4 DEF RaisePartialDispute, MayDispute, OpenDispute
      <3>5. CASE \E oracle \in Oracles : ReportConditionBreach(s, m, oracle)
        <4>1. \/ /\ mstatus[s][m] \in {"Pending", "ProofSubmitted", "ConfirmedHeld"}
                 /\ OpenDispute(s, m)
              \/ UNCHANGED mstatus
          BY <3>5 DEF ReportConditionBreach
        <4> QED
          BY <4>1 DEF OpenDispute
      <3>6. CASE \E approve \in BOOLEAN : ResolveDispute(s, m, approve)
        BY <3>6 DEF ResolveDispute, Rule, Park
      <3>7. CASE ResolveDisputeSplit(s, m)
        BY <3>7 DEF ResolveDisputeSplit, Rule, Park
      <3>8. CASE FinalizeDisputeResolution(s, m)
        BY <3>8 DEF FinalizeDisputeResolution
      <3>9. CASE HandOffToBackup(s, m) \/ ClaimDeadlineRefund(s, m)
        BY <3>9 DEF HandOffToBackup, ClaimDeadlineRefund, CloseEarly
      <3>10. CASE \E other \in Arbiters : AppealDispute(s, m, other)
        BY <3>10 DEF AppealDispute, MayAppeal
      <3> QED
        BY <2>3, <3>1, <3>2, <3>3, <3>4, <3>5, <3>6, <3>7, <3>8, <3>9,
           <3>10 DEF MilestoneStep
    <2> QED
      BY <2>1, <2>2, <2>3 DEF Next
  <1> QED
    BY <1>1, TypeCorrect, PTL DEF Spec, AppealRulingFinal

-----------------------------------------------------------------------------
(* What follows for a milestone in dispute. *)

Quiet(s, m) == mstatus[s][m] = "Disputed" => resolvedAt[s][m] = None

(* How a call about a milestone moves it in or out of dispute, and the counter
   with it. *)
Enters(s, m) ==
    /\ mstatus[s][m] # "Disputed" /\ mstatus'[s][m] = "Disputed"
    /\ openDisputes' = [openDisputes EXCEPT ![s] = @ + 1]
Leaves(s, m) ==
    /\ mstatus[s][m] = "Disputed" /\ mstatus'[s][m] # "Disputed"
    /\ openDisputes' = [openDisputes EXCEPT ![s] = Monus(@, 1)]
Remains(s, m) ==
    /\ mstatus[s][m] = "Disputed" <=> mstatus'[s][m] = "Disputed"
    /\ UNCHANGED openDisputes

(* Every way into dispute counts it once and every way out uncounts it, as long
   as an appeal cannot find the milestone in dispute already. *)
LEMMA DisputeMoves ==
    ASSUME TypeOK, NEW s \in Shipments, NEW m \in Milestones, MilestoneStep(s, m),
           Quiet(s, m) \/ AppealWindow = 0
    PROVE  /\ mstatus' = [mstatus EXCEPT ![s][m] = mstatus'[s][m]]
           /\ Enters(s, m) \/ Leaves(s, m) \/ Remains(s, m)
  <1>0. mstatus \in PerMilestone(MilestoneStatuses)
    BY DEF TypeOK, MilestoneTyped
  <1> DEFINE Goal == /\ mstatus' = [mstatus EXCEPT ![s][m] = mstatus'[s][m]]
                     /\ Enters(s, m) \/ Leaves(s, m) \/ Remains(s, m)
  <1> SUFFICES Goal
    OBVIOUS
  <1> USE <1>0 DEF PerMilestone, SetStatus, Enters, Leaves, Remains
  <1>1. CASE SubmitProof(s, m) \/ ConfirmMilestone(s, m) \/ HoldMilestone(s, m)
    BY <1>1 DEF SubmitProof, ConfirmMilestone, HoldMilestone, MayConfirm
  <1>2. CASE ReleaseHeldPayment(s, m) \/ ClaimAutoConfirmation(s, m)
    BY <1>2 DEF ReleaseHeldPayment, ClaimAutoConfirmation
  <1>3. CASE RaiseDispute(s, m)
    BY <1>3 DEF RaiseDispute, MayDispute, OpenDispute
  <1>4. CASE \E percent \in ContestedPercents : RaisePartialDispute(s, m, percent)
    <2>1. mstatus[s][m] # "Disputed" /\ OpenDispute(s, m)
      BY <1>4 DEF RaisePartialDispute, MayDispute
    <2> QED
      BY <2>1 DEF OpenDispute
  <1>5. CASE \E oracle \in Oracles : ReportConditionBreach(s, m, oracle)
    <2>1. \/ /\ mstatus[s][m] \in {"Pending", "ProofSubmitted", "ConfirmedHeld"}
             /\ OpenDispute(s, m)
          \/ UNCHANGED <<mstatus, openDisputes>>
      BY <1>5 DEF ReportConditionBreach
    <2>2. CASE OpenDispute(s, m) /\ mstatus[s][m] # "Disputed"
      BY <2>2 DEF OpenDispute
    <2>3. CASE UNCHANGED <<mstatus, openDisputes>>
      BY <2>3
    <2> QED
      BY <2>1, <2>2, <2>3
  <1>6. CASE WithdrawDispute(s, m)
    BY <1>6 DEF WithdrawDispute, Delist
  <1>7. CASE \E approve \in BOOLEAN : ResolveDispute(s, m, approve)
    BY <1>7 DEF ResolveDispute, Rule, CloseDispute, Delist, Park
  <1>8. CASE ResolveDisputeSplit(s, m)
    BY <1>8 DEF ResolveDisputeSplit, Rule, CloseDispute, Delist, Park
  <1>9. CASE FinalizeDisputeResolution(s, m)
    BY <1>9 DEF FinalizeDisputeResolution
  <1>10. CASE \E other \in Arbiters : AppealDispute(s, m, other)
    <2>1. mstatus[s][m] # "Disputed"
      <3>1. AppealWindow > 0 /\ resolvedAt[s][m] # None
        BY <1>10 DEF AppealDispute, MayAppeal
      <3> QED
        BY <3>1 DEF Quiet
    <2>2. /\ mstatus' = [mstatus EXCEPT ![s][m] = "Disputed"]
          /\ openDisputes' = [openDisputes EXCEPT ![s] = @ + 1]
      BY <1>10 DEF AppealDispute
    <2> QED
      BY <2>1, <2>2
  <1>11. CASE HandOffToBackup(s, m) \/ ClaimDeadlineRefund(s, m)
    BY <1>11 DEF HandOffToBackup, ClaimDeadlineRefund, CloseEarly
  <1>12. CASE ResolveDisputeTimeout(s, m)
    BY <1>12 DEF ResolveDisputeTimeout, TimedOut, CloseDispute, Delist
  <1> QED
    BY <1>1, <1>2, <1>3, <1>4, <1>5, <1>6, <1>7, <1>8, <1>9, <1>10, <1>11, <1>12
    DEF MilestoneStep

(* Without an oracle group, a ruling is forgotten before its milestone is in
   dispute again. *)
LEMMA MilestoneQuiet ==
    ASSUME Oracles = {}, TypeOK, NEW s \in Shipments, NEW m \in Milestones,
           MilestoneStep(s, m), NEW t \in Shipments, NEW k \in Milestones, Quiet(t, k)
    PROVE  Quiet(t, k)'
  <1>0. /\ mstatus \in PerMilestone(MilestoneStatuses)
        /\ resolvedAt \in PerMilestone(Nat)
    BY DEF TypeOK, MilestoneTyped, DisputeTyped
  <1> USE <1>0 DEF PerMilestone, SetStatus, Quiet, None
  <1>1. CASE SubmitProof(s, m) \/ ConfirmMilestone(s, m) \/ HoldMilestone(s, m)
    <2>1. /\ resolvedAt' = resolvedAt
          /\ \E st \in {"ProofSubmitted", "Confirmed", "ConfirmedHeld"} :
                mstatus' = [mstatus EXCEPT ![s][m] = st]
      BY <1>1 DEF SubmitProof, ConfirmMilestone, HoldMilestone, rulingVars
    <2> QED
      BY <2>1
  <1>2. CASE ReleaseHeldPayment(s, m) \/ ClaimAutoConfirmation(s, m)
    <2>1. resolvedAt' = resolvedAt /\ mstatus' = [mstatus EXCEPT ![s][m] = "Confirmed"]
      BY <1>2 DEF ReleaseHeldPayment, ClaimAutoConfirmation, rulingVars
    <2> QED
      BY <2>1
  <1>3. CASE RaiseDispute(s, m)
    BY <1>3 DEF RaiseDispute, OpenDispute, ForgetRuling
  <1>4. CASE \E percent \in ContestedPercents : RaisePartialDispute(s, m, percent)
    BY <1>4 DEF RaisePartialDispute, OpenDispute, ForgetRuling
  <1>5. CASE WithdrawDispute(s, m) \/ HandOffToBackup(s, m) \/ ResolveDisputeTimeout(s, m)
    BY <1>5 DEF WithdrawDispute, HandOffToBackup, ResolveDisputeTimeout, rulingVars
  <1>6. CASE \E approve \in BOOLEAN : ResolveDispute(s, m, approve)
    BY <1>6 DEF ResolveDispute, Park
  <1>7. CASE ResolveDisputeSplit(s, m)
    BY <1>7 DEF ResolveDisputeSplit, Park, PruneAuxiliary, Pruned
  <1>8. CASE FinalizeDisputeResolution(s, m)
    BY <1>8 DEF FinalizeDisputeResolution, PruneAuxiliary, Pruned
  <1>9. CASE \E other \in Arbiters : AppealDispute(s, m, other)
    BY <1>9 DEF AppealDispute
  <1>10. CASE ClaimDeadlineRefund(s, m)
    BY <1>10 DEF ClaimDeadlineRefund, CloseEarly, PruneAuxiliary, Pruned
  <1> QED
    BY <1>1, <1>2, <1>3, <1>4, <1>5, <1>6, <1>7, <1>8, <1>9, <1>10 DEF MilestoneStep

(* A call about a whole shipment opens and counts no dispute, and keeps what a
   disputed milestone says of its last ruling or drops it. *)
LEMMA ShipmentQuiet ==
    ASSUME TypeOK, NEW s \in Shipments, ShipmentStep(s),
           NEW t \in Shipments, NEW k \in Milestones
    PROVE  /\ UNCHANGED openDisputes
           /\ mstatus'[t][k] = "Disputed" <=> mstatus[t][k] = "Disputed"
           /\ Quiet(t, k) => Quiet(t, k)'
  <1>0. /\ mstatus \in PerMilestone(MilestoneStatuses)
        /\ resolvedAt \in PerMilestone(Nat)
    BY DEF TypeOK, MilestoneTyped, DisputeTyped
  <1> USE <1>0 DEF PerMilestone, Quiet, None
  <1>1. CASE CreateShipment(s)
    BY <1>1 DEF CreateShipment, rulingVars
  <1>2. CASE \E list \in BatchLists : BatchConfirmMilestones(s, list)
    BY <1>2 DEF BatchConfirmMilestones, rulingVars
  <1>3. CASE CancelShipment(s) \/ SupplierCancel(s) \/ EmergencyRecover(s)
    BY <1>3 DEF CancelShipment, SupplierCancel, EmergencyRecover, CloseEarly,
                PruneAuxiliary, Pruned
  <1> QED
    BY <1>1, <1>2, <1>3 DEF ShipmentStep

(* Without an oracle group, no earlier ruling stands while a milestone is in
   dispute: none can be appealed, and no split waits to be paid beside it. *)
THEOREM RulingsEnded == Oracles = {} => (Spec => []NoRulingDuringDispute)
  <1> SUFFICES ASSUME Oracles = {} PROVE Spec => []NoRulingDuringDispute
    OBVIOUS
  <1> DEFINE Inv == ReleaseLedgerWhilePending /\ NoRulingDuringDispute
  <1>1. Init => Inv
    BY DEF Init, Everywhere, ReleaseLedgerWhilePending, NoRulingDuringDispute, None, NoSplit
  <1>2. TypeOK /\ Inv /\ [Next]_vars => Inv'
    <2> SUFFICES ASSUME TypeOK, Inv, [Next]_vars PROVE Inv'
      OBVIOUS
    <2>1. ReleaseLedgerWhilePending'
      BY StepPaced
    <2>2. ASSUME NEW t \in Shipments, NEW k \in Milestones PROVE Quiet(t, k)'
      <3>1. Quiet(t, k)
        BY DEF NoRulingDuringDispute, Quiet
      <3>2. CASE AdminStep \/ Tick \/ UNCHANGED vars
        BY <3>1, <3>2, AdminIsIdle DEF Idle, Quiet
      <3> QED
        BY <3>1, <3>2, MilestoneQuiet, ShipmentQuiet DEF Next
    <2>3. NoRulingDuringDispute'
      BY <2>1, <2>2 DEF ReleaseLedgerWhilePending, NoRulingDuringDispute, Quiet
    <2> QED
      BY <2>1, <2>3
  <1> QED
    BY <1>1, <1>2, TypeCorrect, PTL DEF Spec

InDispute(s) == {m \in Milestones : mstatus[s][m] = "Disputed"}

(* One milestone entering or leaving the set of disputes changes its size by
   one, and the counter follows. *)
LEMMA CounterFollows ==
    ASSUME TypeOK, OpenDisputesCounted, NEW s \in Shipments, NEW m \in Milestones,
           mstatus' = [mstatus EXCEPT ![s][m] = mstatus'[s][m]],
           Enters(s, m) \/ Leaves(s, m) \/ Remains(s, m)
    PROVE  OpenDisputesCounted'
  <1>0. /\ mstatus \in PerMilestone(MilestoneStatuses)
        /\ openDisputes \in [Shipments -> Nat]
    BY DEF TypeOK, MilestoneTyped, ShipmentTyped
  <1>1. IsFiniteSet(InDispute(s))
    <2>1. IsFiniteSet(Milestones)
      <3>1. 0 \in Int /\ NumMilestones - 1 \in Int
        BY SizeAssumption
      <3> QED
        BY <3>1, FS_Interval DEF Milestones
    <2> QED
      BY <2>1, FS_Subset DEF InDispute
  <1>2. openDisputes[s] = Cardinality(InDispute(s)) /\ openDisputes[s] \in Nat
    BY <1>0 DEF OpenDisputesCounted, InDispute
  <1>3. openDisputes'[s] = Cardinality(InDispute(s)')
    <2>1. CASE Enters(s, m)
      <3>1. InDispute(s)' = InDispute(s) \cup {m} /\ m \notin InDispute(s)
        BY <1>0, <2>1 DEF InDispute, Enters, PerMilestone
      <3>2. Cardinality(InDispute(s)') = Cardinality(InDispute(s)) + 1
        BY <1>1, <3>1, FS_AddElement
      <3> QED
        BY <1>0, <1>2, <2>1, <3>2 DEF Enters
    <2>2. CASE Leaves(s, m)
      <3>1. InDispute(s)' = InDispute(s) \ {m} /\ m \in InDispute(s)
        BY <1>0, <2>2 DEF InDispute, Leaves, PerMilestone
      <3>2. Cardinality(InDispute(s)') = Cardinality(InDispute(s)) - 1
        BY <1>1, <3>1, FS_RemoveElement
      <3>3. Cardinality(InDispute(s)') \in Nat
        BY <1>1, <3>1, FS_RemoveElement, FS_CardinalityType
      <3> QED
        BY <1>0, <1>2, <2>2, <3>2, <3>3 DEF Leaves, Monus
    <2>3. CASE Remains(s, m)
      <3>1. InDispute(s)' = InDispute(s)
        BY <1>0, <2>3 DEF InDispute, Remains, PerMilestone
      <3> QED
        BY <1>2, <2>3, <3>1 DEF Remains
    <2> QED
      BY <2>1, <2>2, <2>3
  <1>4. ASSUME NEW t \in Shipments, t # s
        PROVE  openDisputes'[t] = Cardinality(InDispute(t)')
    <2>1. openDisputes'[t] = openDisputes[t] /\ mstatus'[t] = mstatus[t]
      BY <1>0, <1>4 DEF Enters, Leaves, Remains, PerMilestone
    <2>2. InDispute(t)' = InDispute(t)
      BY <2>1 DEF InDispute
    <2> QED
      BY <2>1, <2>2 DEF OpenDisputesCounted, InDispute
  <1> QED
    BY <1>3, <1>4 DEF OpenDisputesCounted, InDispute

(* The counter raise_dispute compares with the limit is the number of disputes,
   whatever mixture of rulings, appeals, withdrawals and timeouts went before,
   for a shipment without an oracle group or a contract without appeals. *)
THEOREM CounterExact == Oracles = {} \/ AppealWindow = 0 => (Spec => []OpenDisputesCounted)
  <1> SUFFICES ASSUME Oracles = {} \/ AppealWindow = 0 PROVE Spec => []OpenDisputesCounted
    OBVIOUS
  <1> DEFINE Unruled == \A s \in Shipments, m \in Milestones : Quiet(s, m) \/ AppealWindow = 0
             Inv == OpenDisputesCounted /\ Unruled
  <1>1. Init => Inv
    <2> SUFFICES ASSUME Init PROVE Inv
      OBVIOUS
    <2>1. ASSUME NEW s \in Shipments PROVE InDispute(s) = {}
      BY DEF Init, Everywhere, InDispute
    <2>2. OpenDisputesCounted
      BY <2>1, FS_EmptySet DEF Init, InDispute, OpenDisputesCounted
    <2> QED
      BY <2>2 DEF Init, Everywhere, Quiet
  <1>2. TypeOK /\ Inv /\ [Next]_vars => Inv'
    <2> SUFFICES ASSUME TypeOK, Inv, [Next]_vars PROVE Inv'
      OBVIOUS
    <2>1. CASE AdminStep \/ Tick \/ UNCHANGED vars
      BY <2>1, AdminIsIdle DEF Idle, OpenDisputesCounted, Quiet
    <2>2. ASSUME NEW s \in Shipments, NEW m \in Milestones, MilestoneStep(s, m) PROVE Inv'
      <3>1. OpenDisputesCounted'
        BY <2>2, DisputeMoves, CounterFollows
      <3>2. Unruled'
        BY <2>2, MilestoneQuiet
      <3> QED
        BY <3>1, <3>2
    <2>3. ASSUME NEW s \in Shipments, ShipmentStep(s) PROVE Inv'
      <3>1. ASSUME NEW t \in Shipments
            PROVE  openDisputes'[t] = Cardinality(InDispute(t)')
        <4>1. InDispute(t)' = InDispute(t)
          BY <2>3, ShipmentQuiet DEF InDispute
        <4>2. 0 \in Milestones
          BY SizeAssumption DEF Milestones
        <4>3. UNCHANGED openDisputes
          BY <2>3, <4>2, ShipmentQuiet
        <4> QED
          BY <4>1, <4>3 DEF OpenDisputesCounted, InDispute
      <3>2. Unruled'
        BY <2>3, ShipmentQuiet
      <3> QED
        BY <3>1, <3>2 DEF OpenDisputesCounted, InDispute
    <2> QED
      BY <2>1, <2>2, <2>3 DEF Next
  <1> QED
    BY <1>1, <1>2, TypeCorrect, PTL DEF Spec

-----------------------------------------------------------------------------
(* What follows for the ActiveDisputes list. *)

Listed(s, m) ==
    /\ status[s] = "None" => mstatus[s][m] = "Pending" /\ activeDisputes[s][m] = 0
    /\ status[s] = "Active" =>
          /\ activeDisputes[s][m] <= 1
          /\ activeDisputes[s][m] = 1 => mstatus[s][m] = "Disputed"
          /\ mstatus[s][m] = "Disputed" /\ ~appealed[s][m] => activeDisputes[s][m] = 1

(* A milestone that enters dispute was not listed, and is listed once. *)
LEMMA NewDisputeListed ==
    ASSUME TypeOK, NEW s \in Shipments, NEW m \in Milestones, Open(s), OpenDispute(s, m),
           mstatus[s][m] # "Disputed", UNCHANGED status,
           appealed' = appealed \/ appealed' = [appealed EXCEPT ![s][m] = FALSE],
           Listed(s, m), NEW t \in Shipments, NEW k \in Milestones, Listed(t, k)
    PROVE  Listed(t, k)'
  <1>0. /\ mstatus \in PerMilestone(MilestoneStatuses) /\ activeDisputes \in PerMilestone(Nat)
        /\ status \in [Shipments -> Statuses] /\ appealed \in PerMilestone(BOOLEAN)
    BY DEF TypeOK, MilestoneTyped, DisputeTyped, IndexTyped, ShipmentTyped
  <1>1. activeDisputes[s][m] = 0
    <2>1. activeDisputes[s][m] \in Nat
      BY <1>0 DEF PerMilestone
    <2>2. activeDisputes[s][m] <= 1 /\ activeDisputes[s][m] # 1
      BY DEF Listed, Open
    <2> QED
      BY <2>1, <2>2
  <1>2. CASE t = s /\ k = m
    <2>1. activeDisputes'[t][k] = 1 /\ mstatus'[t][k] = "Disputed" /\ status'[t] = "Active"
      BY <1>0, <1>1, <1>2 DEF OpenDispute, SetStatus, Open, PerMilestone
    <2> QED
      BY <2>1 DEF Listed
  <1>3. CASE ~(t = s /\ k = m)
    <2>1. /\ activeDisputes'[t][k] = activeDisputes[t][k] /\ mstatus'[t][k] = mstatus[t][k]
          /\ appealed'[t][k] = appealed[t][k] /\ status'[t] = status[t]
      BY <1>0, <1>3 DEF OpenDispute, SetStatus, PerMilestone
    <2> QED
      BY <2>1 DEF Listed
  <1> QED
    BY <1>2, <1>3

(* A call about a milestone lists a dispute once, takes an ended one out, and
   loses none: auxiliary records are dropped only with the shipment's status. *)
LEMMA MilestoneListed ==
    ASSUME TypeOK, NEW s \in Shipments, NEW m \in Milestones, MilestoneStep(s, m),
           Listed(s, m), NEW t \in Shipments, NEW k \in Milestones, Listed(t, k)
    PROVE  Listed(t, k)'
  <1>0. /\ mstatus \in PerMilestone(MilestoneStatuses) /\ activeDisputes \in PerMilestone(Nat)
        /\ status \in [Shipments -> Statuses] /\ appealed \in PerMilestone(BOOLEAN)
        /\ activeDisputes[s][m] \in Nat /\ activeDisputes[t][k] \in Nat
    BY DEF TypeOK, MilestoneTyped, DisputeTyped, IndexTyped, ShipmentTyped, PerMilestone
  <1> USE <1>0 DEF PerMilestone, SetStatus, Listed, indexVars
  <1>1. CASE SubmitProof(s, m)
    <2>1. /\ Open(s) /\ mstatus[s][m] # "Disputed"
          /\ UNCHANGED <<status, activeDisputes, appealed>>
          /\ mstatus' = [mstatus EXCEPT ![s][m] = "ProofSubmitted"]
      BY <1>1 DEF SubmitProof, rulingVars
    <2> QED
      BY <2>1 DEF Open
  <1>2. CASE ConfirmMilestone(s, m) \/ ReleaseHeldPayment(s, m) \/ ClaimAutoConfirmation(s, m)
    <2>1. /\ mstatus[s][m] # "Disputed" /\ Open(s)
          /\ mstatus' = [mstatus EXCEPT ![s][m] = "Confirmed"]
          /\ UNCHANGED <<activeDisputes, appealed>> /\ CompleteIfDone(s, mstatus'[s])
      BY <1>2 DEF ConfirmMilestone, ReleaseHeldPayment, ClaimAutoConfirmation, MayConfirm,
                  rulingVars
    <2>2. status'[t] = status[t] \/ status'[t] = "Completed"
      BY <2>1 DEF CompleteIfDone
    <2> QED
      BY <2>1, <2>2 DEF Open
  <1>3. CASE HoldMilestone(s, m)
    BY <1>3 DEF HoldMilestone, MayConfirm, rulingVars
  <1>4. CASE RaiseDispute(s, m)
    <2>1. /\ Open(s) /\ OpenDispute(s, m) /\ mstatus[s][m] # "Disputed" /\ UNCHANGED status
          /\ appealed' = [appealed EXCEPT ![s][m] = FALSE]
      BY <1>4 DEF RaiseDispute, MayDispute, ForgetRuling
    <2> QED
      BY <2>1, NewDisputeListed
  <1>5. ASSUME NEW percent \in ContestedPercents, RaisePartialDispute(s, m, percent)
        PROVE  Listed(t, k)'
    <2>1. /\ Open(s) /\ OpenDispute(s, m) /\ mstatus[s][m] # "Disputed" /\ UNCHANGED status
          /\ appealed' = [appealed EXCEPT ![s][m] = FALSE]
      BY <1>5 DEF RaisePartialDispute, MayDispute, ForgetRuling
    <2> QED
      BY <2>1, NewDisputeListed
  <1>6. ASSUME NEW oracle \in Oracles, ReportConditionBreach(s, m, oracle)
        PROVE  Listed(t, k)'
    <2>1. /\ Open(s) /\ UNCHANGED <<status, appealed>>
          /\ \/ /\ mstatus[s][m] \in {"Pending", "ProofSubmitted", "ConfirmedHeld"}
                /\ OpenDispute(s, m)
             \/ UNCHANGED <<mstatus, activeDisputes>>
      BY <1>6 DEF ReportConditionBreach, rulingVars
    <2>2. CASE OpenDispute(s, m) /\ mstatus[s][m] # "Disputed"
      BY <2>1, <2>2, NewDisputeListed
    <2>3. CASE UNCHANGED <<mstatus, activeDisputes>>
      BY <2>1, <2>3
    <2> QED
      BY <2>1, <2>2, <2>3
  <1>7. CASE WithdrawDispute(s, m)
    BY <1>7 DEF WithdrawDispute, Open, Delist, rulingVars
  <1>8. CASE \E approve \in BOOLEAN : ResolveDispute(s, m, approve)
    <2>1. /\ Open(s)
          /\ activeDisputes' = [activeDisputes EXCEPT ![s][m] = 0]
          /\ UNCHANGED appealed /\ CompleteIfDone(s, mstatus'[s])
          /\ \E st \in {"ResolvedPendingFinality", "Resolved", "Pending"} :
                mstatus' = [mstatus EXCEPT ![s][m] = st]
      BY <1>8 DEF ResolveDispute, Rule, CloseDispute, Delist, Park
    <2>2. status'[t] = status[t] \/ status'[t] = "Completed"
      BY <2>1 DEF CompleteIfDone
    <2> QED
      BY <2>1, <2>2 DEF Open
  <1>9. CASE ResolveDisputeSplit(s, m)
    <2>1. /\ Open(s)
          /\ activeDisputes' = [activeDisputes EXCEPT ![s][m] = 0]
          /\ \E st \in {"ResolvedPendingFinality", "Resolved"} :
                mstatus' = [mstatus EXCEPT ![s][m] = st]
      BY <1>9 DEF ResolveDisputeSplit, Rule, CloseDispute, Delist, Park
    <2>2. \/ UNCHANGED <<status, appealed>>
          \/ status' = [status EXCEPT ![s] = "Completed"] /\ (t # s => appealed'[t] = appealed[t])
      BY <1>9 DEF ResolveDisputeSplit, CompleteIfDone, PruneAuxiliary, Pruned
    <2> QED
      BY <2>1, <2>2 DEF Open
  <1>10. CASE FinalizeDisputeResolution(s, m)
    <2>1. /\ Open(s) /\ mstatus[s][m] # "Disputed"
          /\ UNCHANGED activeDisputes
          /\ mstatus' = [mstatus EXCEPT ![s][m] = "Resolved"]
      BY <1>10 DEF FinalizeDisputeResolution
    <2>2. \/ UNCHANGED <<status, appealed>>
          \/ status' = [status EXCEPT ![s] = "Completed"] /\ (t # s => appealed'[t] = appealed[t])
      BY <1>10 DEF FinalizeDisputeResolution, CompleteIfDone, PruneAuxiliary, Pruned
    <2> QED
      BY <2>1, <2>2 DEF Open
  <1>11. CASE \E other \in Arbiters : AppealDispute(s, m, other)
    <2>1. /\ Open(s) /\ UNCHANGED <<status, activeDisputes>>
          /\ mstatus' = [mstatus EXCEPT ![s][m] = "Disputed"]
          /\ appealed' = [appealed EXCEPT ![s][m] = TRUE]
      BY <1>11 DEF AppealDispute, MayAppeal
    <2> QED
      BY <2>1 DEF Open
  <1>12. CASE HandOffToBackup(s, m)
    BY <1>12 DEF HandOffToBackup, rulingVars
  <1>13. CASE ResolveDisputeTimeout(s, m)
    <2>1. /\ Open(s) /\ ~AllMilestonesDone(mstatus[s])
          /\ activeDisputes' = [activeDisputes EXCEPT ![s][m] = 0]
          /\ mstatus' = [mstatus EXCEPT ![s][m] = "Resolved"] /\ UNCHANGED appealed
      BY <1>13 DEF ResolveDisputeTimeout, TimedOut, CloseDispute, Delist, AllMilestonesDone
    <2>2. UNCHANGED status
      BY <1>13, <2>1 DEF ResolveDisputeTimeout, CompleteIfDone
    <2> QED
      BY <2>1, <2>2 DEF Open
  <1>14. CASE ClaimDeadlineRefund(s, m)
    BY <1>14 DEF ClaimDeadlineRefund, CloseEarly, Open, PruneAuxiliary, Pruned
  <1> QED
    BY <1>1, <1>2, <1>3, <1>4, <1>5, <1>6, <1>7, <1>8, <1>9, <1>10, <1>11, <1>12, <1>13,
       <1>14 DEF MilestoneStep

(* Nor does a call about a whole shipment list or lose a dispute of a shipment
   that stays open. *)
LEMMA ShipmentListed ==
    ASSUME TypeOK, NEW s \in Shipments, ShipmentStep(s),
           NEW t \in Shipments, NEW k \in Milestones, Listed(t, k)
    PROVE  Listed(t, k)'
  <1>0. /\ mstatus \in PerMilestone(MilestoneStatuses) /\ activeDisputes \in PerMilestone(Nat)
        /\ status \in [Shipments -> Statuses] /\ appealed \in PerMilestone(BOOLEAN)
        /\ activeDisputes[t][k] \in Nat
    BY DEF TypeOK, MilestoneTyped, DisputeTyped, IndexTyped, ShipmentTyped, PerMilestone
  <1> USE <1>0 DEF PerMilestone, Listed, indexVars
  <1>1. CASE CreateShipment(s)
    BY <1>1 DEF CreateShipment, rulingVars
  <1>2. ASSUME NEW list \in BatchLists, BatchConfirmMilestones(s, list) PROVE Listed(t, k)'
    <2>1. /\ Open(s) /\ UNCHANGED <<activeDisputes, appealed>>
          /\ mstatus'[t][k] = mstatus[t][k]
             \/ (mstatus[t][k] = "ProofSubmitted" /\ mstatus'[t][k] = "Confirmed")
          /\ CompleteIfDone(s, mstatus'[s])
      BY <1>2 DEF BatchConfirmMilestones, rulingVars
    <2>2. status'[t] = status[t] \/ status'[t] = "Completed"
      BY <2>1 DEF CompleteIfDone
    <2>3. status[t] = "None" => mstatus'[t][k] = mstatus[t][k]
      BY <2>1
    <2> QED
      BY <2>1, <2>2, <2>3
  <1>3. CASE CancelShipment(s) \/ SupplierCancel(s)
    BY <1>3 DEF CancelShipment, SupplierCancel, CloseEarly, PurgeDisputes, Open,
                PruneAuxiliary, Pruned
  <1>4. CASE EmergencyRecover(s)
    BY <1>4 DEF EmergencyRecover, CloseEarly, Open, PruneAuxiliary, Pruned
  <1> QED
    BY <1>1, <1>2, <1>3, <1>4 DEF ShipmentStep

(* On an open shipment the ActiveDisputes list, from which the buyer's cap is
   counted, names a milestone at most once, only while it is in dispute, and
   misses none but an appealed one. *)
THEOREM ListExact == Spec => []ActiveDisputesListed
  <1> DEFINE Inv == \A s \in Shipments, m \in Milestones : Listed(s, m)
  <1>1. Init => Inv
    BY DEF Init, Everywhere, Listed
  <1>2. TypeOK /\ Inv /\ [Next]_vars => Inv'
    <2> SUFFICES ASSUME TypeOK, Inv, [Next]_vars, NEW t \in Shipments, NEW k \in Milestones
                 PROVE  Listed(t, k)'
      OBVIOUS
    <2>1. CASE AdminStep \/ Tick \/ UNCHANGED vars
      BY <2>1, AdminIsIdle DEF Idle, Listed
    <2> QED
      BY <2>1, MilestoneListed, ShipmentListed DEF Next
  <1>3. Inv => ActiveDisputesListed
    BY DEF Listed, ActiveDisputesListed
  <1> QED
    BY <1>1, <1>2, <1>3, TypeCorrect, PTL DEF Spec

-----------------------------------------------------------------------------
(* What follows for the buyer's cap, across shipments. *)

Exposed(s, m) ==
    /\ status[s] = "Active" /\ mstatus[s][m] = "Disputed"
    /\ Cardinality(reports[s][m]) < BreachThreshold
ExposedDisputes == {d \in Shipments \X Milestones : Exposed(d[1], d[2])}

(* Breach reports of a shipment that stays open are only added to. *)
LEMMA ReportsKept ==
    ASSUME TypeOK, NEW s \in Shipments, NEW m \in Milestones, MilestoneStep(s, m),
           NEW t \in Shipments, NEW k \in Milestones, status'[t] = "Active"
    PROVE  reports[t][k] \subseteq reports'[t][k]
  <1>0. /\ reports \in PerMilestone(SUBSET Oracles) /\ status \in [Shipments -> Statuses]
    BY DEF TypeOK, DisputeTyped, ShipmentTyped
  <1> USE <1>0 DEF PerMilestone
  <1>1. CASE \E oracle \in Oracles : ReportConditionBreach(s, m, oracle)
    <2>1. \E oracle \in Oracles : reports' = [reports EXCEPT ![s][m] = @ \cup {oracle}]
      BY <1>1 DEF ReportConditionBreach
    <2> QED
      BY <2>1
  <1>2. CASE ResolveDisputeSplit(s, m)
    <2>1. UNCHANGED reports \/ (status'[s] = "Completed" /\ (t # s => reports'[t] = reports[t]))
      BY <1>2 DEF ResolveDisputeSplit, CompleteIfDone, PruneAuxiliary, Pruned
    <2> QED
      BY <2>1
  <1>3. CASE FinalizeDisputeResolution(s, m)
    <2>1. UNCHANGED reports \/ (status'[s] = "Completed" /\ (t # s => reports'[t] = reports[t]))
      BY <1>3 DEF FinalizeDisputeResolution, CompleteIfDone, PruneAuxiliary, Pruned
    <2> QED
      BY <2>1
  <1>4. CASE ClaimDeadlineRefund(s, m)
    BY <1>4 DEF ClaimDeadlineRefund, PruneAuxiliary, Pruned
  <1>5. CASE /\ ~\E oracle \in Oracles : ReportConditionBreach(s, m, oracle)
             /\ ~ResolveDisputeSplit(s, m) /\ ~FinalizeDisputeResolution(s, m)
             /\ ~ClaimDeadlineRefund(s, m)
    <2>1. UNCHANGED reports
      BY <1>5 DEF MilestoneStep, SubmitProof, ConfirmMilestone, HoldMilestone,
                  ReleaseHeldPayment, ClaimAutoConfirmation, RaiseDispute,
                  RaisePartialDispute, WithdrawDispute, ResolveDispute, AppealDispute,
                  HandOffToBackup, ResolveDisputeTimeout
    <2> QED
      BY <2>1
  <1> QED
    BY <1>1, <1>2, <1>3, <1>4, <1>5

(* Where nothing can be appealed, a milestone enters dispute by its buyer, who
   is checked against the cap, or by reports that reach the threshold. *)
LEMMA EnteringIsChecked ==
    ASSUME AppealWindow = 0, TypeOK, NEW s \in Shipments, NEW m \in Milestones,
           MilestoneStep(s, m), NEW t \in Shipments, NEW k \in Milestones,
           mstatus[t][k] # "Disputed", mstatus'[t][k] = "Disputed"
    PROVE  /\ t = s /\ k = m
           /\ MayDispute(s, m) \/ Cardinality(reports'[s][m]) >= BreachThreshold
  <1>0. /\ mstatus \in PerMilestone(MilestoneStatuses)
        /\ mstatus' = [mstatus EXCEPT ![s][m] = mstatus'[s][m]]
    BY DisputeMoves DEF TypeOK, MilestoneTyped
  <1>1. t = s /\ k = m
    BY <1>0 DEF PerMilestone
  <1> USE <1>0, <1>1 DEF PerMilestone, SetStatus
  <1>2. CASE RaiseDispute(s, m)
    BY <1>2 DEF RaiseDispute
  <1>3. CASE \E percent \in ContestedPercents : RaisePartialDispute(s, m, percent)
    BY <1>3 DEF RaisePartialDispute
  <1>4. CASE \E oracle \in Oracles : ReportConditionBreach(s, m, oracle)
    BY <1>4 DEF ReportConditionBreach
  <1>5. CASE SubmitProof(s, m) \/ ConfirmMilestone(s, m) \/ HoldMilestone(s, m)
    BY <1>5 DEF SubmitProof, ConfirmMilestone, HoldMilestone
  <1>6. CASE ReleaseHeldPayment(s, m) \/ ClaimAutoConfirmation(s, m) \/ WithdrawDispute(s, m)
    BY <1>6 DEF ReleaseHeldPayment, ClaimAutoConfirmation, WithdrawDispute
  <1>7. CASE (\E approve \in BOOLEAN : ResolveDispute(s, m, approve)) \/ ResolveDisputeSplit(s, m)
    BY <1>7 DEF ResolveDispute, ResolveDisputeSplit, Park
  <1>8. CASE FinalizeDisputeResolution(s, m) \/ ResolveDisputeTimeout(s, m)
    BY <1>8 DEF FinalizeDisputeResolution, ResolveDisputeTimeout
  <1>9. CASE HandOffToBackup(s, m) \/ ClaimDeadlineRefund(s, m)
    BY <1>9 DEF HandOffToBackup, ClaimDeadlineRefund, CloseEarly
  <1>10. CASE \E other \in Arbiters : AppealDispute(s, m, other)
    BY <1>10 DEF AppealDispute, MayAppeal
  <1> QED
    BY <1>2, <1>3, <1>4, <1>5, <1>6, <1>7, <1>8, <1>9, <1>10 DEF MilestoneStep

(* Where nothing can be appealed, no milestone is ever marked as appealed. *)
LEMMA NeverAppealed ==
    ASSUME AppealWindow = 0, TypeOK, [Next]_vars, appealed = Everywhere(FALSE)
    PROVE  appealed' = Everywhere(FALSE)
  <1> USE DEF Everywhere
  <1>1. CASE AdminStep \/ Tick \/ UNCHANGED vars
    BY <1>1, AdminIsIdle DEF Idle
  <1>2. ASSUME NEW s \in Shipments, ShipmentStep(s) PROVE appealed' = appealed
    <2>1. CASE CreateShipment(s) \/ \E list \in BatchLists : BatchConfirmMilestones(s, list)
      BY <2>1 DEF CreateShipment, BatchConfirmMilestones, rulingVars
    <2>2. CASE CancelShipment(s) \/ SupplierCancel(s) \/ EmergencyRecover(s)
      <3>1. \E prune \in BOOLEAN : appealed' = Pruned(appealed, s, FALSE, prune)
        BY <2>2 DEF CancelShipment, SupplierCancel, EmergencyRecover, PruneAuxiliary
      <3> QED
        BY <3>1 DEF Pruned
    <2> QED
      BY <1>2, <2>1, <2>2 DEF ShipmentStep
  <1>3. ASSUME NEW s \in Shipments, NEW m \in Milestones, MilestoneStep(s, m)
        PROVE  appealed' = appealed
    <2>1. CASE SubmitProof(s, m) \/ ConfirmMilestone(s, m) \/ HoldMilestone(s, m)
               \/ ReleaseHeldPayment(s, m) \/ ClaimAutoConfirmation(s, m)
      BY <2>1 DEF SubmitProof, ConfirmMilestone, HoldMilestone, ReleaseHeldPayment,
                  ClaimAutoConfirmation, rulingVars
    <2>2. CASE RaiseDispute(s, m) \/ \E percent \in ContestedPercents : RaisePartialDispute(s, m, percent)
      BY <2>2 DEF RaiseDispute, RaisePartialDispute, ForgetRuling
    <2>3. CASE WithdrawDispute(s, m) \/ HandOffToBackup(s, m) \/ ResolveDisputeTimeout(s, m)
      BY <2>3 DEF WithdrawDispute, HandOffToBackup, ResolveDisputeTimeout, rulingVars
    <2>4. CASE \E oracle \in Oracles : ReportConditionBreach(s, m, oracle)
      BY <2>4 DEF ReportConditionBreach, rulingVars
    <2>5. CASE \E approve \in BOOLEAN : ResolveDispute(s, m, approve)
      BY <2>5 DEF ResolveDispute
    <2>6. CASE ResolveDisputeSplit(s, m)
      BY <2>6 DEF ResolveDisputeSplit, PruneAuxiliary, Pruned
    <2>7. CASE FinalizeDisputeResolution(s, m)
      BY <2>7 DEF FinalizeDisputeResolution, PruneAuxiliary, Pruned
    <2>8. CASE ClaimDeadlineRefund(s, m)
      BY <2>8 DEF ClaimDeadlineRefund, PruneAuxiliary, Pruned
    <2>9. CASE \E other \in Arbiters : AppealDispute(s, m, other)
      BY <2>9 DEF AppealDispute, MayAppeal
    <2> QED
      BY <1>3, <2>1, <2>2, <2>3, <2>4, <2>5, <2>6, <2>7, <2>8, <2>9 DEF MilestoneStep
  <1> QED
    BY <1>1, <1>2, <1>3 DEF Next

(* One element more makes a finite set larger by one at most. *)
LEMMA OneMore ==
    ASSUME NEW S, IsFiniteSet(S), NEW x
    PROVE  IsFiniteSet(S \cup {x}) /\ Cardinality(S \cup {x}) <= Cardinality(S) + 1
  <1>1. Cardinality(S) \in Nat
    BY FS_CardinalityType
  <1>2. CASE x \in S
    <2>1. S \cup {x} = S
      BY <1>2
    <2>2. Cardinality(S) <= Cardinality(S) + 1
      BY <1>1
    <2> QED
      BY <2>1, <2>2, Zenon
  <1>3. CASE x \notin S
    <2>1. IsFiniteSet(S \cup {x}) /\ Cardinality(S \cup {x}) = Cardinality(S) + 1
      BY <1>3, FS_AddElement
    <2> QED
      BY <1>1, <2>1
  <1> QED
    BY <1>2, <1>3

(* The buyer's cap holds across all shipments, whatever reports open disputes
   beside the buyer's own, for finitely many shipments and oracles and a
   contract without appeals. *)
THEOREM CapHolds ==
    ASSUME IsFiniteSet(Shipments), IsFiniteSet(Oracles), AppealWindow = 0
    PROVE  Spec => []BuyerCapHolds
  <1> DEFINE Capped == BuyerCap > 0 => Cardinality(ExposedDisputes) <= BuyerCap
             List == \A s \in Shipments, m \in Milestones : Listed(s, m)
             Inv == Capped /\ List /\ appealed = Everywhere(FALSE)
  <1>0. IsFiniteSet(Shipments \X Milestones)
    <2>1. 0 \in Int /\ NumMilestones - 1 \in Int
      BY SizeAssumption
    <2>2. IsFiniteSet(Milestones)
      BY <2>1, FS_Interval DEF Milestones
    <2> QED
      BY <2>2, FS_Product
  <1>1. Init => Inv
    <2> SUFFICES ASSUME Init PROVE Inv
      OBVIOUS
    <2>1. ExposedDisputes = {}
      BY DEF Init, Everywhere, ExposedDisputes, Exposed
    <2>2. List
      BY DEF Init, Everywhere, Listed
    <2> QED
      BY <2>1, <2>2, FS_EmptySet, WindowAssumption DEF Init
  <1>2. TypeOK /\ TypeOK' /\ Inv /\ [Next]_vars => Inv'
    <2> SUFFICES ASSUME TypeOK, TypeOK', Inv, [Next]_vars PROVE Inv'
      OBVIOUS
    <2>1. List'
      <3> SUFFICES ASSUME NEW t \in Shipments, NEW k \in Milestones PROVE Listed(t, k)'
        OBVIOUS
      <3>0. Listed(t, k)
        OBVIOUS
      <3>1. CASE AdminStep \/ Tick \/ UNCHANGED vars
        BY <3>0, <3>1, AdminIsIdle DEF Idle, Listed
      <3> QED
        BY <3>0, <3>1, MilestoneListed, ShipmentListed DEF Next
    <2>2. appealed' = Everywhere(FALSE)
      BY NeverAppealed
    <2>3. ExposedDisputes' \subseteq ExposedDisputes => Capped'
      <3> SUFFICES ASSUME ExposedDisputes' \subseteq ExposedDisputes, BuyerCap > 0
                   PROVE  Cardinality(ExposedDisputes') <= BuyerCap
        OBVIOUS
      <3>1. IsFiniteSet(ExposedDisputes)
        BY <1>0, FS_Subset DEF ExposedDisputes
      <3>2. Cardinality(ExposedDisputes') <= Cardinality(ExposedDisputes)
        BY <3>1, FS_Subset
      <3>3. Cardinality(ExposedDisputes) \in Nat /\ Cardinality(ExposedDisputes') \in Nat
        BY <3>1, FS_Subset, FS_CardinalityType
      <3> QED
        BY <3>2, <3>3, WindowAssumption
    <2>4. CASE AdminStep \/ Tick \/ UNCHANGED vars
      <3>1. UNCHANGED <<status, mstatus, reports>>
        BY <2>4 DEF AdminStep, Tick, vars
      <3>2. ExposedDisputes' \subseteq ExposedDisputes
        BY <3>1 DEF ExposedDisputes, Exposed
      <3> QED
        BY <2>1, <2>2, <2>3, <3>2
    <2>5. ASSUME NEW s \in Shipments, ShipmentStep(s) PROVE Inv'
      <3>1. ASSUME NEW t \in Shipments, NEW k \in Milestones, Exposed(t, k)'
            PROVE  Exposed(t, k)
        <4>1. mstatus[t][k] = "Disputed"
          BY <2>5, <3>1, ShipmentQuiet DEF Exposed
        <4>2. status[t] = "Active" /\ reports'[t][k] = reports[t][k]
          <5>0. /\ status \in [Shipments -> Statuses] /\ status'[t] = "Active"
                /\ Listed(t, k)
            BY <3>1 DEF TypeOK, ShipmentTyped, Exposed
          <5>1. CASE CreateShipment(s)
            BY <4>1, <5>0, <5>1 DEF CreateShipment, Listed
          <5>2. CASE \E list \in BatchLists : BatchConfirmMilestones(s, list)
            BY <5>0, <5>2 DEF BatchConfirmMilestones, CompleteIfDone
          <5>3. CASE CancelShipment(s) \/ SupplierCancel(s) \/ EmergencyRecover(s)
            <6>1. /\ \E final \in {"Cancelled", "Expired"} : status' = [status EXCEPT ![s] = final]
                  /\ \E prune \in BOOLEAN : reports' = Pruned(reports, s, {}, prune)
              BY <5>3 DEF CancelShipment, SupplierCancel, EmergencyRecover, CloseEarly,
                          PruneAuxiliary
            <6>2. t # s /\ status'[t] = status[t]
              BY <5>0, <6>1
            <6> QED
              BY <5>0, <6>1, <6>2 DEF Pruned
          <5> QED
            BY <2>5, <5>1, <5>2, <5>3 DEF ShipmentStep
        <4> QED
          BY <3>1, <4>1, <4>2 DEF Exposed
      <3> QED
        BY <2>1, <2>2, <2>3, <3>1 DEF ExposedDisputes
    <2>6. ASSUME NEW s \in Shipments, NEW m \in Milestones, MilestoneStep(s, m) PROVE Inv'
      <3>1. ASSUME NEW t \in Shipments, NEW k \in Milestones, Exposed(t, k)'
            PROVE  Exposed(t, k) \/ (t = s /\ k = m /\ MayDispute(s, m))
        <4>1. status[t] = "Active"
          BY <2>6, <3>1, MilestoneMoves
          DEF Exposed, Open, Stays, Completes, Closes, TypeOK, ShipmentTyped
        <4>2. IsFiniteSet(reports'[t][k]) /\ reports[t][k] \subseteq reports'[t][k]
          <5>1. reports'[t][k] \subseteq Oracles
            BY DEF TypeOK, DisputeTyped, PerMilestone
          <5>2. IsFiniteSet(reports'[t][k])
            BY <5>1, FS_Subset
          <5> QED
            BY <2>6, <3>1, <5>2, ReportsKept DEF Exposed
        <4>3. /\ Cardinality(reports[t][k]) <= Cardinality(reports'[t][k])
              /\ Cardinality(reports[t][k]) \in Nat /\ Cardinality(reports'[t][k]) \in Nat
          BY <4>2, FS_Subset, FS_CardinalityType
        <4>4. Cardinality(reports[t][k]) < BreachThreshold
          BY <3>1, <4>3, WindowAssumption DEF Exposed
        <4>5. CASE mstatus[t][k] = "Disputed"
          BY <4>1, <4>4, <4>5 DEF Exposed
        <4>6. CASE mstatus[t][k] # "Disputed"
          <5>1. /\ t = s /\ k = m
                /\ MayDispute(s, m) \/ Cardinality(reports'[s][m]) >= BreachThreshold
            BY <2>6, <3>1, <4>6, EnteringIsChecked DEF Exposed
          <5> QED
            BY <3>1, <4>3, <5>1, WindowAssumption DEF Exposed
        <4> QED
          BY <4>5, <4>6
      <3>2. CASE ~MayDispute(s, m)
        BY <2>1, <2>2, <2>3, <3>1, <3>2 DEF ExposedDisputes
      <3>3. CASE MayDispute(s, m) /\ BuyerCap > 0
        <4>1. ExposedDisputes \subseteq BuyerOpenDisputes
          BY DEF ExposedDisputes, Exposed, BuyerOpenDisputes, Listed, Everywhere
        <4>2. IsFiniteSet(BuyerOpenDisputes)
          BY <1>0, FS_Subset DEF BuyerOpenDisputes
        <4>3. Cardinality(BuyerOpenDisputes) < BuyerCap
          BY <3>3 DEF MayDispute
        <4>4. ExposedDisputes' \subseteq BuyerOpenDisputes \cup {<<s, m>>}
          BY <3>1, <4>1 DEF ExposedDisputes
        <4>5. /\ IsFiniteSet(BuyerOpenDisputes \cup {<<s, m>>})
              /\ Cardinality(BuyerOpenDisputes \cup {<<s, m>>}) <= Cardinality(BuyerOpenDisputes) + 1
          BY <4>2, OneMore
        <4>6. Cardinality(ExposedDisputes') <= Cardinality(BuyerOpenDisputes \cup {<<s, m>>})
          BY <4>4, <4>5, FS_Subset
        <4>7. /\ Cardinality(ExposedDisputes') \in Nat
              /\ Cardinality(BuyerOpenDisputes \cup {<<s, m>>}) \in Nat
              /\ Cardinality(BuyerOpenDisputes) \in Nat
          BY <4>2, <4>4, <4>5, FS_Subset, FS_CardinalityType
        <4>8. Capped'
          BY <4>3, <4>5, <4>6, <4>7, WindowAssumption
        <4> QED
          BY <2>1, <2>2, <4>8
      <3>4. CASE ~(BuyerCap > 0)
        BY <2>1, <2>2, <3>4
      <3> QED
        BY <3>2, <3>3, <3>4
    <2> QED
      BY <2>4, <2>5, <2>6 DEF Next
  <1>3. Inv => BuyerCapHolds
    <2> SUFFICES ASSUME Capped, BuyerCap > 0
                 PROVE  Cardinality({d \in Shipments \X Milestones :
                            LET s == d[1] m == d[2] IN
                            /\ status[s] = "Active" /\ mstatus[s][m] = "Disputed"
                            /\ Cardinality(reports[s][m]) < BreachThreshold}) <= BuyerCap
      BY DEF BuyerCapHolds
    <2>1. ExposedDisputes = {d \in Shipments \X Milestones :
                            LET s == d[1] m == d[2] IN
                            /\ status[s] = "Active" /\ mstatus[s][m] = "Disputed"
                            /\ Cardinality(reports[s][m]) < BreachThreshold}
      BY DEF ExposedDisputes, Exposed
    <2> QED
      BY <2>1
  <1> QED
    BY <1>1, <1>2, <1>3, TypeCorrect, PTL DEF Spec
=============================================================================
