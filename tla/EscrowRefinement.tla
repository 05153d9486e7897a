-------------------------- MODULE EscrowRefinement --------------------------
(* ShipmentEscrow seen as EscrowPromise: a milestone is settled when its
   status is final, the pool is the contract's token balance. *)
EXTENDS ShipmentEscrow

Settled == [s \in Shipments |->
               {m \in Milestones : mstatus[s][m] \in {"Confirmed", "Resolved"}}]

Escrow == INSTANCE EscrowPromise WITH
    Weight <- [m \in Milestones |-> Gross(m)],
    phase <- status, settled <- Settled, pool <- balance

(* With no payout before a ruling or a confirmation can no longer be appealed,
   the contract keeps the promise of EscrowPromise: no interleaving of
   confirmations, disputes, appeals and cancellations pays a weight twice,
   keeps one back at completion or touches a closed shipment's funds. *)
EscrowPromiseKept == Escrow!Promise
=============================================================================
