-------------------------- MODULE MCShipmentEscrow --------------------------
(* Values of ShipmentEscrow's functional constants for TLC, and the view its
   larger runs fingerprint states by. *)
EXTENDS EscrowRefinement, TLC

MCEqualShares == [m \in Milestones |-> 100 \div NumMilestones]
MCNoDeadline == [m \in Milestones |-> 0]
MCDueFirst == [m \in Milestones |-> IF m = 0 THEN 1 ELSE 0]
MCRefundFirst == [m \in Milestones |-> IF m = 0 THEN 2 ELSE 0]
MCAllAtOnce == {[i \in 1 .. NumMilestones |-> i - 1]}

MCSymmetry == Permutations(Shipments) \cup Permutations(Oracles)

(* What the next steps can depend on.  Left out: TotalEscrowed and the history
   variables, which no action reads, and each ledger whose only reader is a
   window that is off in the configuration. *)
When(read, v) == IF read THEN v ELSE <<>>
LiveState ==
    <<now, adminVars, status, arbiter, openDisputes, mstatus, proofLedger, evidence,
      releaseAfter, resolvedAt, appealed, contested, pendingSplit, reports,
      indexVars, released, balance,
      When(DisputeTimeout > 0, openedAt), When(DisputeCooldown > 0, lastResolved),
      When(ResponseDeadline > 0, submittedAt), When(RecoveryThreshold < MaxLedger, createdAt)>>

(* ... and the history the properties about money read. *)
MoneyState == <<LiveState, paid, refunded>>
=============================================================================
