---------------------------- MODULE LoanManager ----------------------------
(***************************************************************************)
(* The lending pool of contracts/loan_manager: depositors lend the debt    *)
(* token, borrowers take it against collateral, anybody liquidates a       *)
(* position whose health factor is below 1, and what a drained position    *)
(* cannot repay is written off across the depositors.                      *)
(*                                                                         *)
(* The prices a call resolves are any two of Prices: which source they     *)
(* come from, and that they are positive and in range, is PriceFeed's.     *)
(* Values are scaled down: PriceScale and Bps stand for 10^8 and 10^4.     *)
(* The market's pair of tokens stays the one first set.                    *)
(***************************************************************************)
EXTENDS Integers, Sequences, FiniteSets, SequencesExt, Functions

CONSTANTS
    Accounts,           \* addresses that lend, borrow and liquidate
    Prices,             \* oracle prices of the two tokens
    PriceScale, Bps,    \* PRICE_SCALE, BPS_DENOMINATOR
    TargetNum, TargetDen, \* health factor a partial liquidation restores
    Thresholds,         \* liquidation thresholds an admin sets
    MaxThreshold,       \* MAX_LIQ_THRESHOLD_BPS
    DefaultParams,      \* LiqParams::default
    ParamChoices,       \* parameters an admin tries to set
    MaxBonus,           \* MAX_CONFIGURABLE_BONUS_BPS
    Amounts,            \* amounts callers pass
    MaxDeposits,        \* bound on TotalDeposits
    MaxCollateral       \* bound on one position's collateral

LiqParams == [base : Nat, max : Nat, cap : Nat]

ASSUME LoanAssumption ==
    /\ Prices \subseteq Nat \ {0} /\ PriceScale \in Nat \ {0} /\ Bps \in Nat \ {0}
    /\ TargetNum \in Nat \ {0} /\ TargetDen \in Nat \ {0}
    /\ Thresholds \subseteq Nat /\ MaxThreshold \in Nat /\ MaxBonus \in Nat
    /\ DefaultParams \in LiqParams /\ ParamChoices \subseteq LiqParams
    /\ DefaultParams.base <= DefaultParams.max
    /\ Amounts \subseteq Nat /\ MaxDeposits \in Nat /\ MaxCollateral \in Nat

NoMarket == 0      \* the market's threshold is positive once it is set

VARIABLES
    paused,
    threshold,      \* Market.liq_threshold_bps, or NoMarket
    params,         \* LiqParams
    depositors,     \* the ordered registry of depositors
    deposit,        \* DepositorBalance
    totalDeposits, totalBorrowed,
    position,       \* Position: collateral and debt units (absent: both 0)
    debtHeld, collHeld  \* the contract's balances of the two tokens

poolVars == <<depositors, deposit, totalDeposits>>
tokenVars == <<debtHeld, collHeld>>
adminVars == <<paused, threshold, params>>
vars == <<adminVars, poolVars, totalBorrowed, position, tokenVars>>

Least(a, b) == IF a <= b THEN a ELSE b
Most(a, b) == IF a >= b THEN a ELSE b

-----------------------------------------------------------------------------
(* The arithmetic of liquidation.rs.  Prices are positive, so the zero-price
   branches of the two conversions are not taken.                           *)
Value(units, price) == (units * price) \div PriceScale
Units(value, price) == (value * PriceScale) \div price

Healthy(collValue, debtValue, thr) == collValue * thr >= debtValue * Bps

(* Bonus from base at health factor 1 to max at 1/2 and below, capped. *)
DynamicBonus(num, den, p) ==
    LET span == p.max - p.base
        depth == Least((den - num) * 2, den * 2)
        bonus == IF den <= 0 \/ num >= den \/ span = 0
                   THEN p.base ELSE p.base + (span * depth) \div den
    IN  Least(Most(p.base, Least(bonus, p.base + span)), p.cap)

(* The repayment asked for, as a value.  The one that restores the target
   solves (C - r*g/B)*thr / ((D - r)*B) = target for r; where no r does,
   everything is asked for. *)
TargetValue(mode, collValue, debtValue, priceDebt, thr, gross) ==
    LET denom == TargetNum * Bps * Bps - TargetDen * gross * thr
        inner == TargetNum * Bps * debtValue - TargetDen * thr * collValue
    IN  CASE mode.kind = "full" -> debtValue
          [] mode.kind = "specified" -> Value(mode.units, priceDebt)
          [] mode.kind = "target" /\ denom <= 0 -> debtValue
          [] mode.kind = "target" /\ denom > 0 -> (Bps * Most(inner, 0)) \div denom

NoPlan == [repay |-> 0, seize |-> 0, bad |-> 0]

(* What one liquidation repays, seizes and writes off. *)
ComputePlan(pos, priceColl, priceDebt, thr, p, mode) ==
    LET collValue == Value(pos.collateral, priceColl)
        debtValue == Value(pos.debt, priceDebt)
        gross == Bps + DynamicBonus(collValue * thr, debtValue * Bps, p)
        target == TargetValue(mode, collValue, debtValue, priceDebt, thr, gross)
        affordable == (collValue * Bps + gross - 1) \div gross
        repayValue == Least(Least(target, debtValue), affordable)
        repay == Least(Units(repayValue, priceDebt), pos.debt)
        seizeValue == (repayValue * gross) \div Bps
        seize == Least(Units(seizeValue, priceColl), pos.collateral)
        drained == collValue > 0 /\ seizeValue >= collValue
    IN  IF debtValue * Bps <= 0 \/ Healthy(collValue, debtValue, thr)
          THEN NoPlan
        ELSE IF repay = 0
          THEN [repay |-> 0, seize |-> 0, bad |-> pos.debt]
        ELSE [repay |-> repay, seize |-> seize,
              bad |-> IF drained THEN pos.debt - repay ELSE 0]

-----------------------------------------------------------------------------
(* Writing off a loss: every depositor in registry order gives up a share
   in proportion to his balance, rounded down; what rounding leaves is taken
   from the first balances that can bear it. *)
Take(acc, d, cut) ==
    [left |-> acc.left - cut, deposit |-> [acc.deposit EXCEPT ![d] = @ - cut]]

(* Faulty: the rounding residual is nobody's loss. *)
ResidualDropped(first) == first

(* Faulty: no share is computed, the first in the registry bear it all. *)
FirstComeFirstHit(loss) == [left |-> loss, deposit |-> deposit]

ProportionalPass(loss) ==
    LET Share(acc, d) == (deposit[d] * loss) \div totalDeposits
        Step(acc, d) == Take(acc, d, Least(Least(Share(acc, d), deposit[d]), acc.left))
    IN  FoldLeft(Step, [left |-> loss, deposit |-> deposit], depositors)

ResidualPass(first) ==
    LET Step(acc, d) == Take(acc, d, Least(acc.deposit[d], acc.left))
    IN  FoldLeft(Step, first, depositors)

WriteOff(loss) == ResidualPass(ProportionalPass(loss))

(* socialize_bad_debt; without a depositor base the hole stays in the pool. *)
SocializeBadDebt(loss) ==
    IF loss = 0 THEN UNCHANGED poolVars
    ELSE IF totalDeposits <= 0 \/ depositors = <<>>
      THEN totalDeposits' = 0 /\ UNCHANGED <<depositors, deposit>>
    ELSE LET after == WriteOff(loss)
         IN  /\ deposit' = after.deposit
             /\ totalDeposits' = totalDeposits - (loss - after.left)
             /\ UNCHANGED depositors

-----------------------------------------------------------------------------
Open == ~paused /\ threshold # NoMarket
FreeLiquidity == totalDeposits - totalBorrowed

Init ==
    /\ paused = FALSE /\ threshold = NoMarket /\ params = DefaultParams
    /\ depositors = <<>> /\ deposit = [a \in Accounts |-> 0]
    /\ totalDeposits = 0 /\ totalBorrowed = 0
    /\ position = [a \in Accounts |-> [collateral |-> 0, debt |-> 0]]
    /\ debtHeld = 0 /\ collHeld = 0

SetMarket(thr) ==
    /\ thr > 0 /\ thr <= MaxThreshold
    /\ threshold' = thr
    /\ UNCHANGED <<paused, params, poolVars, totalBorrowed, position, tokenVars>>

SetLiqParams(p) ==
    /\ p.base <= MaxBonus /\ p.max <= MaxBonus /\ p.cap <= MaxBonus
    /\ p.base <= p.max
    /\ params' = p
    /\ UNCHANGED <<paused, threshold, poolVars, totalBorrowed, position, tokenVars>>

SetPaused(p) ==
    /\ paused' = p
    /\ UNCHANGED <<threshold, params, poolVars, totalBorrowed, position, tokenVars>>

Deposit(d, amount) ==
    /\ Open /\ amount > 0
    /\ totalDeposits + amount <= MaxDeposits
    /\ debtHeld' = debtHeld + amount
    /\ deposit' = [deposit EXCEPT ![d] = @ + amount]
    /\ depositors' = IF \E i \in DOMAIN depositors : depositors[i] = d
                       THEN depositors ELSE Append(depositors, d)
    /\ totalDeposits' = totalDeposits + amount
    /\ UNCHANGED <<adminVars, totalBorrowed, position, collHeld>>

Withdraw(d, amount) ==
    /\ Open /\ amount > 0
    /\ deposit[d] >= amount
    /\ FreeLiquidity >= amount
    /\ debtHeld >= amount
    /\ debtHeld' = debtHeld - amount
    /\ deposit' = [deposit EXCEPT ![d] = @ - amount]
    /\ totalDeposits' = totalDeposits - amount
    /\ UNCHANGED <<adminVars, depositors, totalBorrowed, position, collHeld>>

DepositCollateral(a, amount) ==
    /\ Open /\ amount > 0
    /\ position[a].collateral + amount <= MaxCollateral
    /\ collHeld' = collHeld + amount
    /\ position' = [position EXCEPT ![a].collateral = @ + amount]
    /\ UNCHANGED <<adminVars, poolVars, totalBorrowed, debtHeld>>

Borrow(a, amount, priceColl, priceDebt) ==
    /\ Open /\ amount > 0
    /\ FreeLiquidity >= amount
    /\ Healthy(Value(position[a].collateral, priceColl),
               Value(position[a].debt + amount, priceDebt), threshold)
    /\ debtHeld >= amount
    /\ debtHeld' = debtHeld - amount
    /\ position' = [position EXCEPT ![a].debt = @ + amount]
    /\ totalBorrowed' = totalBorrowed + amount
    /\ UNCHANGED <<adminVars, poolVars, collHeld>>

(* Faulty: the amount is not capped by the debt. *)
RepayUncapped(a, amount) ==
    /\ Open /\ amount > 0 /\ position[a].debt > 0
    /\ debtHeld' = debtHeld + amount
    /\ position' = [position EXCEPT ![a].debt = @ - amount]
    /\ totalBorrowed' = totalBorrowed - amount
    /\ UNCHANGED <<adminVars, poolVars, collHeld>>

Repay(a, amount) ==
    LET paid == Least(amount, position[a].debt)
    IN  /\ Open /\ amount > 0
        /\ paid > 0
        /\ debtHeld' = debtHeld + paid
        /\ position' = [position EXCEPT ![a].debt = @ - paid]
        /\ totalBorrowed' = totalBorrowed - paid
        /\ UNCHANGED <<adminVars, poolVars, collHeld>>

WithdrawCollateral(a, amount, priceColl, priceDebt) ==
    /\ Open /\ amount > 0
    /\ position[a].collateral >= amount
    /\ position[a].debt > 0 =>
         Healthy(Value(position[a].collateral - amount, priceColl),
                 Value(position[a].debt, priceDebt), threshold)
    /\ collHeld >= amount
    /\ collHeld' = collHeld - amount
    /\ position' = [position EXCEPT ![a].collateral = @ - amount]
    /\ UNCHANGED <<adminVars, poolVars, totalBorrowed, debtHeld>>

(* Faulty: the part written off stays in the total of outstanding debt. *)
LiquidateKeepsBadDebt(liquidator, a, mode, priceColl, priceDebt) ==
    LET plan == ComputePlan(position[a], priceColl, priceDebt, threshold, params, mode)
    IN  /\ Open /\ liquidator # a
        /\ position[a].debt > 0
        /\ plan.repay > 0 \/ plan.bad > 0
        /\ debtHeld' = debtHeld + plan.repay
        /\ collHeld' = collHeld - plan.seize
        /\ position' = [position EXCEPT
             ![a] = [collateral |-> @.collateral - plan.seize,
                     debt |-> @.debt - plan.repay - plan.bad]]
        /\ totalBorrowed' = totalBorrowed - plan.repay
        /\ SocializeBadDebt(plan.bad)
        /\ UNCHANGED adminVars

Liquidate(liquidator, a, mode, priceColl, priceDebt) ==
    LET plan == ComputePlan(position[a], priceColl, priceDebt, threshold, params, mode)
    IN  /\ Open /\ liquidator # a
        /\ position[a].debt > 0
        /\ plan.repay > 0 \/ plan.bad > 0
        /\ collHeld >= plan.seize
        /\ debtHeld' = debtHeld + plan.repay
        /\ collHeld' = collHeld - plan.seize
        /\ position' = [position EXCEPT
             ![a] = [collateral |-> @.collateral - plan.seize,
                     debt |-> @.debt - plan.repay - plan.bad]]
        /\ totalBorrowed' = totalBorrowed - (plan.repay + plan.bad)
        /\ SocializeBadDebt(plan.bad)
        /\ UNCHANGED adminVars

-----------------------------------------------------------------------------
Modes == {[kind |-> "full", units |-> 0], [kind |-> "target", units |-> 0]}
           \cup [kind : {"specified"}, units : Amounts \ {0}]

Next ==
    \/ \E thr \in Thresholds : SetMarket(thr)
    \/ \E p \in ParamChoices : SetLiqParams(p)
    \/ \E p \in BOOLEAN : SetPaused(p)
    \/ \E a \in Accounts, amount \in Amounts :
         \/ Deposit(a, amount)
         \/ Withdraw(a, amount)
         \/ DepositCollateral(a, amount)
         \/ Repay(a, amount)
         \/ \E pc, pd \in Prices :
              \/ Borrow(a, amount, pc, pd)
              \/ WithdrawCollateral(a, amount, pc, pd)
    \/ \E a, l \in Accounts, mode \in Modes, pc, pd \in Prices :
         Liquidate(l, a, mode, pc, pd)

Spec == Init /\ [][Next]_vars

-----------------------------------------------------------------------------
(* Type correctness: no balance, total, claim or position goes below zero,
   though every subtraction in the code is one of signed integers. *)
PositionsOK ==
    /\ threshold \in Nat /\ params \in LiqParams /\ params.base <= params.max
    /\ position \in [Accounts -> [collateral : Nat, debt : Nat]]
PoolOK ==
    /\ paused \in BOOLEAN
    /\ depositors \in Seq(Accounts) /\ IsInjective(depositors)
    /\ deposit \in [Accounts -> Nat]
    /\ {totalDeposits, totalBorrowed, debtHeld, collHeld} \subseteq Nat
LoanTypeOK == PositionsOK /\ PoolOK

Total(f) == FoldFunction(LAMBDA x, y : x + y, 0, f)
Debts == [a \in Accounts |-> position[a].debt]
Collaterals == [a \in Accounts |-> position[a].collateral]

(* The two totals are the sums of what they total, through every rounding of
   a write-off, and whoever has a claim is in the registry that shares losses. *)
BooksBalance ==
    /\ totalDeposits = Total(deposit)
    /\ totalBorrowed = Total(Debts)
    /\ \A a \in Accounts : deposit[a] > 0 => \E i \in DOMAIN depositors : depositors[i] = a

(* The contract holds exactly the liquidity it believes to be free, and all
   collateral: nobody's deposit or collateral is ever paid out to another. *)
PoolBacked ==
    /\ debtHeld = totalDeposits - totalBorrowed
    /\ collHeld = Total(Collaterals)

(* A loss is shared: when debt is written off, the depositors together lose
   exactly that much, and each no less than his share rounded down and no
   more than the rounding residual beyond it. *)
LossShared ==
    LET loss == (totalBorrowed - totalBorrowed') - (debtHeld' - debtHeld)
        Cut(a) == deposit[a] - deposit'[a]
        Share(a) == (deposit[a] * loss) \div totalDeposits
        Residual == loss - Total([a \in Accounts |-> Share(a)])
    IN  (totalBorrowed' < totalBorrowed /\ loss > 0) =>
            /\ totalDeposits - totalDeposits' = loss
            /\ \A a \in Accounts : Share(a) <= Cut(a) /\ Cut(a) <= Share(a) + Residual
LossesShared == [][LossShared]_vars

(* A position that is written off has been drained: "Remaining borrower debt
   written off through bad-debt socialization.  Zero when the position stays
   alive" (liquidation.rs, LiquidationPlan).  Stated of collateral that is
   worth something at every price. *)
WriteOffDrains ==
    [][\A a \in Accounts :
         (/\ position'[a].debt < position[a].debt
          /\ position[a].debt - position'[a].debt > debtHeld' - debtHeld
          /\ \A price \in Prices : Value(position[a].collateral, price) > 0)
             => position'[a].collateral = 0]_vars
=============================================================================
