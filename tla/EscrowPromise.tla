--------------------------- MODULE EscrowPromise ---------------------------
(***************************************************************************)
(* What the escrow promises the two parties of a shipment, whatever path   *)
(* its milestones take: the deposit is in the pool from funding on, each   *)
(* milestone's weight leaves it once, the shipment completes with its last *)
(* milestone, and closing early returns what is left and ends everything.  *)
(***************************************************************************)
EXTENDS Integers, FiniteSetsExt

CONSTANTS Shipments, Milestones, Weight

VARIABLES
    phase,      \* "None", "Active", "Completed", "Cancelled" or "Expired"
    settled,    \* the milestones of each shipment whose weight has left
    pool        \* tokens held for all shipments

promiseVars == <<phase, settled, pool>>

WeightOf(ms) == MapThenSumSet(LAMBDA m : Weight[m], ms)
Unsettled(s) == Milestones \ settled[s]

Start ==
    /\ phase = [s \in Shipments |-> "None"]
    /\ settled = [s \in Shipments |-> {}]
    /\ pool = 0

Fund(s) ==
    /\ phase[s] = "None"
    /\ phase' = [phase EXCEPT ![s] = "Active"]
    /\ pool' = pool + WeightOf(Milestones)
    /\ UNCHANGED settled

(* Some milestones settle in one step; the last ones complete the shipment. *)
Settle(s) ==
    /\ phase[s] = "Active"
    /\ \E ms \in (SUBSET Unsettled(s)) \ {{}} :
          /\ settled' = [settled EXCEPT ![s] = @ \cup ms]
          /\ pool' = pool - WeightOf(ms)
          /\ phase' = IF ms = Unsettled(s) THEN [phase EXCEPT ![s] = "Completed"] ELSE phase

CloseWithRefund(s) ==
    /\ phase[s] = "Active"
    /\ \E final \in {"Cancelled", "Expired"} : phase' = [phase EXCEPT ![s] = final]
    /\ pool' = pool - WeightOf(Unsettled(s))
    /\ UNCHANGED settled

Promise == Start /\ [][\E s \in Shipments : Fund(s) \/ Settle(s) \/ CloseWithRefund(s)]_promiseVars
=============================================================================
