------------------------------ MODULE Treasury ------------------------------
(* One token of the settlement contract seen from its balance: what is in
   escrow, what buyers keep in their vaults, what suppliers have locked as
   collateral, and what the admin may withdraw as dust
   (contracts/chainsetttle/src/lib.rs).

   A shipment is as many units as it has milestones, each milestone one unit and
   an equal percentage.  Fees, bonuses, holdbacks and advances are left out, and
   of the disputes all but a whole payment awarded to the supplier:
   ShipmentEscrow has the escrow's own accounts in detail.  A transfer that the
   balance cannot pay fails, and its call with it. *)
EXTENDS Naturals, Sequences, FiniteSets, FiniteSetsExt

CONSTANTS
    Buyers,
    Milestones,     \* the milestones of every shipment
    Amounts,        \* amounts deposited, withdrawn and locked
    SlashBps, FullBps,\* collateral forfeited per missed deadline, of FullBps
    MaxShipments,   \* bound on the shipments created outside the standing order
    MaxVault,       \* bound on what is deposited in vaults
    MaxLocked,      \* bound on the collateral of a shipment
    Intervals,      \* intervals of standing orders, in ledgers
    MaxOccurrences,
    NoOrder,
    MaxDay          \* bound on the ledger sequence

StandingOrders == [buyer : Buyers, every : Intervals, times : 1..MaxOccurrences,
                   runs : Nat, next : Nat, cancelled : BOOLEAN]

ASSUME TreasuryAssumption ==
    /\ Amounts \subseteq Nat \ {0} /\ SlashBps \in 0..FullBps /\ FullBps \in Nat \ {0}
    /\ Intervals \subseteq Nat \ {0} /\ MaxOccurrences \in Nat \ {0}
    /\ NoOrder \notin StandingOrders

VARIABLES
    day,                        \* env.ledger().sequence()
    balance,                    \* the contract's balance of the token
    totalEscrowed, totalVaulted,
    vault,                      \* VaultBalance(buyer, token)
    ships,                      \* shipments, in the order of creation
    order,                      \* a standing order
    held, ruled, swept, lastRun \* history: see the properties

moneyVars == <<balance, totalEscrowed, totalVaulted, vault, swept, ruled>>
trVars == <<day, moneyVars, ships, order, held, lastRun>>

Price == Cardinality(Milestones)
Ids == 1..Len(ships)
Active(s) == ships[s].status = "Active"
Unreleased(s) == Cardinality(ships[s].open)
Least(m, n) == IF m < n THEN m ELSE n

-----------------------------------------------------------------------------
(* Vaults. *)

VaultDeposit(b, n) ==
    /\ totalVaulted + n <= MaxVault
    /\ balance' = balance + n
    /\ vault' = [vault EXCEPT ![b] = @ + n] /\ totalVaulted' = totalVaulted + n
    /\ UNCHANGED <<day, totalEscrowed, swept, ruled, ships, order, held, lastRun>>

VaultWithdraw(b, n) ==
    /\ n <= vault[b] /\ n <= balance
    /\ vault' = [vault EXCEPT ![b] = @ - n] /\ totalVaulted' = totalVaulted - n
    /\ balance' = balance - n
    /\ UNCHANGED <<day, totalEscrowed, swept, ruled, ships, order, held, lastRun>>

(* Mutant: the buyer's balance is debited, the total is not. *)
DebitBalanceOnly(b, n) ==
    /\ n <= vault[b]
    /\ vault' = [vault EXCEPT ![b] = @ - n] /\ UNCHANGED totalVaulted

DebitVault(b, n) ==
    /\ n <= vault[b]
    /\ vault' = [vault EXCEPT ![b] = @ - n] /\ totalVaulted' = totalVaulted - n

(* refund_to_buyer: "amount" goes to the refund recipient, into the vault when
   the shipment was funded from one, and otherwise out of the contract. *)
RefundToBuyer(s, amount) ==
    IF ships[s].fromVault
    THEN /\ vault' = [vault EXCEPT ![ships[s].recipient] = @ + amount]
         /\ totalVaulted' = totalVaulted + amount /\ UNCHANGED balance
    ELSE /\ amount <= balance /\ balance' = balance - amount
         /\ UNCHANGED <<vault, totalVaulted>>

-----------------------------------------------------------------------------
(* Creation.  The collateral comes from the supplier and is counted in neither
   of the two totals. *)

Enter(b, fromVault, locked) ==
    /\ ships' = Append(ships, [buyer |-> b, recipient |-> b, fromVault |-> fromVault,
          open |-> Milestones, slashed |-> {}, locked |-> locked, share |-> 0, status |-> "Active"])
    /\ held' = Append(held, locked)
    /\ totalEscrowed' = totalEscrowed + Price
    /\ IF fromVault
       THEN DebitVault(b, Price) /\ balance' = balance + locked
       ELSE balance' = balance + Price + locked /\ UNCHANGED <<vault, totalVaulted>>
    /\ UNCHANGED <<day, swept, ruled>>

CreateShipment(b, fromVault, locked) ==
    /\ Len(ships) < MaxShipments
    /\ Enter(b, fromVault, locked)
    /\ UNCHANGED <<order, lastRun>>

(* Funded by transfer_from: the payer may be any of the shipment's buyers, of
   whom b is the primary one, and the vault cannot be used. *)
CreateWithAllowance(b, others, from, locked) ==
    /\ Len(ships) < MaxShipments
    /\ from \in {b} \cup others
    /\ Enter(b, FALSE, locked)
    /\ UNCHANGED <<order, lastRun>>

SetRefundRecipient(s, b) ==
    /\ Active(s)
    /\ ships' = [ships EXCEPT ![s].recipient = b]
    /\ UNCHANGED <<day, moneyVars, order, held, lastRun>>

-----------------------------------------------------------------------------
(* Standing orders: anyone may run one that is due, out of its buyer's vault. *)

CreateStandingOrder(b, every, times) ==
    /\ order = NoOrder
    /\ order' = [buyer |-> b, every |-> every, times |-> times, runs |-> 0,
                 next |-> day, cancelled |-> FALSE]
    /\ UNCHANGED <<day, moneyVars, ships, held, lastRun>>

(* Mutant: the next run is due one interval after the last due ledger. *)
RunOnSchedule == [order EXCEPT !.runs = @ + 1, !.next = @ + order.every]

OrderAfterRun == [order EXCEPT !.runs = @ + 1, !.next = day + order.every]

ExecuteStandingOrder ==
    /\ order # NoOrder /\ ~order.cancelled
    /\ order.runs < order.times /\ day >= order.next
    /\ Enter(order.buyer, TRUE, 0)
    /\ order' = OrderAfterRun
    /\ lastRun' = Append(lastRun, day)

CancelStandingOrder(b) ==
    /\ order # NoOrder /\ order.buyer = b /\ ~order.cancelled
    /\ order' = [order EXCEPT !.cancelled = TRUE]
    /\ UNCHANGED <<day, moneyVars, ships, held, lastRun>>

-----------------------------------------------------------------------------
(* Collateral while the shipment runs. *)

TopUpCollateral(s, n) ==
    /\ Active(s) /\ ships[s].locked + n <= MaxLocked
    /\ balance' = balance + n
    /\ ships' = [ships EXCEPT ![s].locked = @ + n]
    /\ held' = [held EXCEPT ![s] = @ + n]
    /\ UNCHANGED <<day, totalEscrowed, totalVaulted, vault, swept, ruled, order, lastRun>>

(* Opting in remembers the collateral of the moment as the base of the shares. *)
SetIncrementalCollateral(s, on) ==
    /\ Active(s) /\ ships[s].open = Milestones
    /\ on => ships[s].locked > 0
    /\ ships' = [ships EXCEPT ![s].share = IF on THEN ships[s].locked ELSE 0]
    /\ UNCHANGED <<day, moneyVars, order, held, lastRun>>

(* The part of the base that goes back with one more confirmed milestone. *)
CollateralShare(s) == Least(ships[s].share \div Price, ships[s].locked)

(* Mutant: the forfeited part stays on the books. *)
SlashKeepsBooks(s, m) ==
    LET slash == Least((ships[s].locked * SlashBps) \div FullBps, ships[s].locked) IN
    /\ Active(s) /\ m \in ships[s].open \ ships[s].slashed /\ slash > 0
    /\ RefundToBuyer(s, slash)
    /\ ships' = [ships EXCEPT ![s].slashed = @ \cup {m}]
    /\ held' = [held EXCEPT ![s] = @ - slash]
    /\ UNCHANGED <<day, totalEscrowed, swept, ruled, order, lastRun>>

(* The deadline of a milestone passes without a proof: any time may be late. *)
SlashCollateralForMiss(s, m) ==
    LET slash == Least((ships[s].locked * SlashBps) \div FullBps, ships[s].locked) IN
    /\ Active(s) /\ m \in ships[s].open \ ships[s].slashed /\ slash > 0
    /\ RefundToBuyer(s, slash)
    /\ ships' = [ships EXCEPT ![s].locked = @ - slash, ![s].slashed = @ \cup {m}]
    /\ held' = [held EXCEPT ![s] = @ - slash]
    /\ UNCHANGED <<day, totalEscrowed, swept, ruled, order, lastRun>>

-----------------------------------------------------------------------------
(* Settlement.  "share" is released to the supplier with the payment, and
   "back" is the rest of the collateral, returned with the last milestone. *)

PaySupplier(s, m, share, back) ==
    /\ Active(s) /\ m \in ships[s].open
    /\ 1 + share + back <= balance /\ balance' = balance - (1 + share + back)
    /\ ships' = [ships EXCEPT ![s].open = @ \ {m}, ![s].locked = @ - share,
          ![s].status = IF ships[s].open = {m} THEN "Completed" ELSE @]
    /\ held' = [held EXCEPT ![s] = @ - (share + back)]
    /\ UNCHANGED <<day, totalVaulted, vault, swept, order, lastRun>>

(* confirm_milestone returns the collateral with the milestone that completes
   the shipment; the stored amount is left as it is. *)
ConfirmMilestone(s, m) ==
    /\ PaySupplier(s, m, CollateralShare(s),
          IF ships[s].open = {m} THEN ships[s].locked - CollateralShare(s) ELSE 0)
    /\ totalEscrowed' = totalEscrowed - 1 /\ UNCHANGED ruled

(* release_held_payment, batch_confirm_milestones and claim_auto_confirmation
   release the share and complete the shipment, but return nothing more. *)
ReleaseMilestone(s, m) ==
    /\ PaySupplier(s, m, CollateralShare(s), 0)
    /\ totalEscrowed' = totalEscrowed - 1 /\ UNCHANGED ruled

(* resolve_dispute pays the supplier without a share of the collateral, and does
   not lower the total in escrow. *)
RuleForSupplier(s, m) ==
    PaySupplier(s, m, 0, 0) /\ ruled' = ruled + 1 /\ UNCHANGED totalEscrowed

-----------------------------------------------------------------------------
(* Early ends. *)

Close(s, status, locked) ==
    /\ ships' = [ships EXCEPT ![s].status = status]
    /\ totalEscrowed' = totalEscrowed - Unreleased(s)
    /\ held' = [held EXCEPT ![s] = @ - locked]
    /\ UNCHANGED <<day, swept, ruled, order, lastRun>>

(* Everything, collateral included, to the buyer; a fee for the supplier aside. *)
CloseForBuyer(s) ==
    /\ Active(s)
    /\ RefundToBuyer(s, Unreleased(s) + ships[s].locked)
    /\ Close(s, "Cancelled", ships[s].locked)

CancelShipment(s) == CloseForBuyer(s)
CancelForBlacklistedSupplier(s) == CloseForBuyer(s)

(* The rest of the escrow, and "locked" of the collateral, leave the contract,
   whatever the shipment was funded from. *)
CloseOutwards(s, status, locked) ==
    /\ Active(s) /\ Unreleased(s) + locked <= balance
    /\ balance' = balance - (Unreleased(s) + locked)
    /\ Close(s, status, locked)
    /\ UNCHANGED <<totalVaulted, vault>>

(* To the buyer, to the treasury; and without looking at the collateral, to
   the buyer and to the admin. *)
ClaimDeadlineRefund(s) == CloseOutwards(s, "Expired", ships[s].locked)
SweepUnclaimedRefund(s) == CloseOutwards(s, "Expired", ships[s].locked)
SupplierCancel(s) == CloseOutwards(s, "Cancelled", 0)
RecoverEscrow(s) == CloseOutwards(s, "Cancelled", 0)

-----------------------------------------------------------------------------
(* Whatever is in neither total is dust, locked collateral included. *)
WithdrawDust ==
    LET dust == balance - (totalEscrowed + totalVaulted) IN
    /\ balance > totalEscrowed + totalVaulted
    /\ balance' = balance - dust /\ swept' = swept + dust
    /\ UNCHANGED <<day, totalEscrowed, totalVaulted, vault, ruled, ships, order, held, lastRun>>

NextDay ==
    /\ day < MaxDay /\ day' = day + 1
    /\ UNCHANGED <<moneyVars, ships, order, held, lastRun>>

TreasuryInit ==
    /\ day = 0 /\ balance = 0 /\ totalEscrowed = 0 /\ totalVaulted = 0 /\ swept = 0 /\ ruled = 0
    /\ vault = [b \in Buyers |-> 0]
    /\ ships = <<>> /\ held = <<>> /\ order = NoOrder /\ lastRun = <<>>

EscrowNext ==
    \/ WithdrawDust
    \/ \E b \in Buyers :
          \/ \E n \in Amounts : VaultDeposit(b, n) \/ VaultWithdraw(b, n)
          \/ \E n \in {0} \cup Amounts :
                \/ \E fromVault \in BOOLEAN : CreateShipment(b, fromVault, n)
                \/ \E from \in Buyers : CreateWithAllowance(b, Buyers, from, n)
          \/ \E s \in Ids : SetRefundRecipient(s, b)
    \/ \E s \in Ids :
          \/ \E n \in Amounts : TopUpCollateral(s, n)
          \/ \E on \in BOOLEAN : SetIncrementalCollateral(s, on)
          \/ \E m \in Milestones :
                \/ SlashCollateralForMiss(s, m) \/ ConfirmMilestone(s, m) \/ ReleaseMilestone(s, m)
                \/ RuleForSupplier(s, m)
          \/ CancelShipment(s) \/ CancelForBlacklistedSupplier(s) \/ SupplierCancel(s)
          \/ ClaimDeadlineRefund(s) \/ SweepUnclaimedRefund(s) \/ RecoverEscrow(s)

OrderNext ==
    \/ NextDay \/ ExecuteStandingOrder
    \/ \E b \in Buyers :
          \/ \E n \in Amounts : VaultDeposit(b, n)
          \/ \E every \in Intervals, times \in 1..MaxOccurrences : CreateStandingOrder(b, every, times)
          \/ CancelStandingOrder(b)
    \/ \E s \in Ids : CancelForBlacklistedSupplier(s)

TreasuryNext == EscrowNext \/ OrderNext
TreasurySpec == TreasuryInit /\ [][TreasuryNext]_trVars

-----------------------------------------------------------------------------
(* Properties.  held[s] is the collateral of s that the contract has been given
   and has not paid out, ruled what rulings awarded, swept what was withdrawn as
   dust, lastRun the ledgers at which the standing order ran. *)

Total(f) == MapThenSumSet(LAMBDA x : f[x], DOMAIN f)
InEscrow == MapThenSumSet(LAMBDA s : IF Active(s) THEN Unreleased(s) ELSE 0, Ids)

(* Every token is accounted for: the vaults add up; the total in escrow exceeds
   what active shipments have there by the awards of rulings, and by nothing
   else; an active shipment's stored collateral is what is really held for it;
   and the balance lacks nothing but what was withdrawn as dust. *)
TreasuryExact ==
    /\ totalVaulted = Total(vault)
    /\ totalEscrowed = InEscrow + ruled
    /\ \A s \in Ids : Active(s) => ships[s].locked = held[s]
    /\ balance + swept = InEscrow + totalVaulted + Total(held)

(* A standing order never runs ahead of its pace, not even to catch up: at most
   the agreed number of runs, any two of them an interval apart. *)
OrderPaced == order # NoOrder =>
    /\ Len(lastRun) <= order.times
    /\ \A i \in 2..Len(lastRun) : lastRun[i] >= lastRun[i - 1] + order.every
=============================================================================
