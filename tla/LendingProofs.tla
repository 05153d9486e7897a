--------------------------- MODULE LendingProofs ----------------------------
(* The lending pool and the price feed it relies on.  The arithmetic of one
   liquidation, for all prices, thresholds and bonus parameters; no position,
   balance or total ever below zero and the books exact through every write-off;
   every resolved price, average included, in the range of valid answers. *)
EXTENDS LoanManager, PriceFeed, SequenceTheorems, SumTheorems

LEMMA ProductNat ==
    ASSUME NEW x \in Nat, NEW y \in Nat
    PROVE  x * y \in Nat
  OBVIOUS

LEMMA QuotientNat ==
    ASSUME NEW x \in Nat, NEW y \in Nat \ {0}
    PROVE  x \div y \in Nat
  OBVIOUS

LEMMA Monotone ==
    ASSUME NEW p \in Int, NEW q \in Int, NEW t \in Nat, p <= q
    PROVE  p * t <= q * t
  OBVIOUS

LEMMA LeastNat ==
    ASSUME NEW x \in Nat, NEW y \in Nat
    PROVE  Least(x, y) \in Nat /\ Least(x, y) <= x /\ Least(x, y) <= y
  BY DEF Least

LEMMA ConversionsNat ==
    ASSUME NEW x \in Nat, NEW price \in Prices
    PROVE  Value(x, price) \in Nat /\ Units(x, price) \in Nat
  <1>1. price \in Nat \ {0} /\ PriceScale \in Nat \ {0}
    BY LoanAssumption
  <1>2. x * price \in Nat /\ x * PriceScale \in Nat
    BY <1>1, ProductNat
  <1> QED
    BY <1>1, <1>2, QuotientNat DEF Value, Units

(* The bonus is a natural number within the penalty cap. *)
LEMMA BonusCapped ==
    ASSUME NEW num \in Nat, NEW den \in Nat,
           NEW p \in LiqParams, p.base <= p.max
    PROVE  DynamicBonus(num, den, p) \in Nat /\ DynamicBonus(num, den, p) <= p.cap
  <1> DEFINE span == p.max - p.base
             depth == Least((den - num) * 2, den * 2)
             bonus == IF den <= 0 \/ num >= den \/ span = 0
                        THEN p.base ELSE p.base + (span * depth) \div den
  <1>1. p.base \in Nat /\ p.max \in Nat /\ p.cap \in Nat /\ span \in Nat
    BY DEF LiqParams
  <1>2. bonus \in Nat
    <2>1. CASE den <= 0 \/ num >= den \/ span = 0
      BY <1>1, <2>1
    <2>2. CASE ~ (den <= 0 \/ num >= den \/ span = 0)
      <3>1. depth \in Nat /\ den \in Nat \ {0}
        BY <2>2 DEF Least
      <3> HIDE DEF depth, span
      <3>2. (span * depth) \div den \in Nat
        BY <1>1, <3>1, ProductNat, QuotientNat
      <3> QED
        BY <1>1, <2>2, <3>2
    <2> QED
      BY <2>1, <2>2
  <1>3. DynamicBonus(num, den, p) = Least(Most(p.base, Least(bonus, p.base + span)), p.cap)
    BY DEF DynamicBonus
  <1> HIDE DEF bonus, span
  <1> QED
    BY <1>1, <1>2, <1>3 DEF Least, Most

LEMMA TargetNat ==
    ASSUME NEW mode \in Modes, NEW collValue \in Nat, NEW debtValue \in Nat,
           NEW priceDebt \in Prices, NEW thr \in Nat, NEW gross \in Nat
    PROVE  TargetValue(mode, collValue, debtValue, priceDebt, thr, gross) \in Nat
  <1> DEFINE denom == TargetNum * Bps * Bps - TargetDen * gross * thr
             inner == TargetNum * Bps * debtValue - TargetDen * thr * collValue
  <1>1. mode.kind \in {"full", "target", "specified"} /\ mode.units \in Nat
    <2>1. CASE mode \in {[kind |-> "full", units |-> 0], [kind |-> "target", units |-> 0]}
      BY <2>1
    <2>2. CASE mode \in [kind : {"specified"}, units : Amounts \ {0}]
      BY <2>2, LoanAssumption
    <2> QED
      BY <2>1, <2>2 DEF Modes
  <1>2. TargetNum \in Nat /\ TargetDen \in Nat /\ Bps \in Nat
    BY LoanAssumption
  <1>3. denom \in Int /\ inner \in Int
    BY <1>2
  <1>4. Value(mode.units, priceDebt) \in Nat
    BY <1>1, ConversionsNat
  <1>5. TargetValue(mode, collValue, debtValue, priceDebt, thr, gross) =
          CASE mode.kind = "full" -> debtValue
            [] mode.kind = "specified" -> Value(mode.units, priceDebt)
            [] mode.kind = "target" /\ denom <= 0 -> debtValue
            [] mode.kind = "target" /\ denom > 0 -> (Bps * Most(inner, 0)) \div denom
    BY DEF TargetValue
  <1> HIDE DEF denom, inner
  <1>6. CASE mode.kind = "target" /\ denom > 0
    <2>1. Most(inner, 0) \in Nat /\ denom \in Nat \ {0}
      BY <1>3, <1>6 DEF Most
    <2>2. (Bps * Most(inner, 0)) \div denom \in Nat
      BY <1>2, <2>1, ProductNat, QuotientNat
    <2> QED
      BY <1>5, <1>6, <2>2
  <1>7. CASE ~ (mode.kind = "target" /\ denom > 0)
    BY <1>1, <1>3, <1>4, <1>5, <1>7
  <1> QED
    BY <1>6, <1>7

(* Rounding down loses less than one. *)
LEMMA RoundedDown ==
    ASSUME NEW x \in Nat, NEW y \in Nat \ {0}
    PROVE  (x \div y) * y <= x /\ x <= (x \div y + 1) * y
  OBVIOUS

LEMMA Cancelled ==
    ASSUME NEW x \in Nat, NEW y \in Nat, NEW t \in Nat \ {0}, x * t <= y * t
    PROVE  x <= y
  OBVIOUS

(* The worth of a seizure against that of a repayment, through the roundings of
   the two conversions, of the bonus and of the units repaid. *)
LEMMA WorthChain ==
    ASSUME NEW seized \in Nat, NEW pc \in Nat, NEW sv \in Nat, NEW scale \in Nat,
           NEW rv \in Nat, NEW whole \in Nat, NEW gross \in Nat, NEW most \in Nat,
           NEW units \in Nat, NEW pd \in Nat,
           seized * pc <= sv * scale, sv * whole <= rv * gross,
           rv * scale <= units * pd, gross <= most
    PROVE  (seized * pc) * whole <= (units * pd) * most
  <1>1. (seized * pc) * whole <= (sv * scale) * whole
    BY ProductNat, Monotone
  <1>2. (sv * scale) * whole = (sv * whole) * scale
    OBVIOUS
  <1>3. (sv * whole) * scale <= (rv * gross) * scale
    BY ProductNat, Monotone
  <1>4. (rv * gross) * scale = (rv * scale) * gross
    OBVIOUS
  <1>5. (rv * scale) * gross <= (units * pd) * gross
    BY ProductNat, Monotone
  <1>6. (units * pd) * gross <= (units * pd) * most
    <2>1. units * pd \in Nat
      BY ProductNat
    <2>2. gross * (units * pd) <= most * (units * pd)
      BY <2>1, Monotone
    <2> QED
      BY <2>1, <2>2
  <1> DEFINE a == (seized * pc) * whole
             b == (sv * whole) * scale
             c == (rv * scale) * gross
             d == (units * pd) * gross
             e == (units * pd) * most
  <1>7. a \in Int /\ b \in Int /\ c \in Int /\ d \in Int /\ e \in Int
    BY ProductNat
  <1>8. a <= b /\ b <= c /\ c <= d /\ d <= e
    BY <1>1, <1>2, <1>3, <1>4, <1>5, <1>6
  <1> HIDE DEF a, b, c, d, e
  <1>9. a <= e
    BY <1>7, <1>8
  <1> QED
    BY <1>9 DEF a, e

(* One liquidation never seizes more collateral than there is and never
   repays and writes off more than the debt; and what it seizes is worth no more
   than what it repays, counted up to the next unit, plus the penalty cap.  The
   first and third guarantee of compute_plan, and what its second (the bonus is
   within the cap) is for, for all values of its arguments. *)
THEOREM PlanBounded ==
    ASSUME NEW pos \in [collateral : Nat, debt : Nat],
           NEW pc \in Prices, NEW pd \in Prices, NEW thr \in Nat,
           NEW p \in LiqParams, p.base <= p.max, NEW mode \in Modes
    PROVE  LET plan == ComputePlan(pos, pc, pd, thr, p, mode)
           IN  /\ plan.repay \in Nat /\ plan.seize \in Nat /\ plan.bad \in Nat
               /\ plan.seize <= pos.collateral
               /\ plan.repay + plan.bad <= pos.debt
               /\ (plan.seize * pc) * Bps <= ((plan.repay + 1) * pd) * (Bps + p.cap)
  <1> DEFINE collValue == Value(pos.collateral, pc)
             debtValue == Value(pos.debt, pd)
             gross == Bps + DynamicBonus(collValue * thr, debtValue * Bps, p)
             target == TargetValue(mode, collValue, debtValue, pd, thr, gross)
             affordable == (collValue * Bps + gross - 1) \div gross
             repayValue == Least(Least(target, debtValue), affordable)
             repay == Least(Units(repayValue, pd), pos.debt)
             seizeValue == (repayValue * gross) \div Bps
             seize == Least(Units(seizeValue, pc), pos.collateral)
             drained == collValue > 0 /\ seizeValue >= collValue
  <1>1. Bps \in Nat \ {0} /\ pos.collateral \in Nat /\ pos.debt \in Nat
    BY LoanAssumption
  <1>2. collValue \in Nat /\ debtValue \in Nat
    BY <1>1, ConversionsNat
  <1> HIDE DEF collValue, debtValue
  <1>3. collValue * thr \in Nat /\ debtValue * Bps \in Nat /\ collValue * Bps \in Nat
    BY <1>1, <1>2, ProductNat
  <1>4. gross \in Nat \ {0} /\ p.cap \in Nat /\ gross <= Bps + p.cap
    <2> DEFINE bonus == DynamicBonus(collValue * thr, debtValue * Bps, p)
    <2>1. bonus \in Nat /\ bonus <= p.cap /\ p.cap \in Nat
      BY <1>3, BonusCapped DEF LiqParams
    <2> HIDE DEF bonus
    <2>2. Bps + bonus \in Nat \ {0} /\ Bps + bonus <= Bps + p.cap
      BY <1>1, <2>1
    <2> QED
      BY <2>1, <2>2 DEF bonus
  <1> HIDE DEF gross
  <1>5. target \in Nat
    BY <1>2, <1>4, TargetNat
  <1>6. affordable \in Nat
    <2>1. collValue * Bps + gross - 1 \in Nat
      BY <1>3, <1>4
    <2> QED
      BY <1>4, <2>1, QuotientNat
  <1> HIDE DEF target, affordable
  <1>7. repayValue \in Nat
    BY <1>2, <1>5, <1>6, LeastNat
  <1>12. repayValue <= debtValue
    BY <1>2, <1>5, <1>6 DEF Least
  <1>13. repay \in Nat /\ repayValue * PriceScale <= (repay + 1) * pd
    <2> DEFINE v == repayValue
               u == Units(v, pd)
    <2>1. v \in Nat /\ u \in Nat /\ pd \in Nat \ {0} /\ PriceScale \in Nat \ {0}
      BY <1>7, ConversionsNat, LoanAssumption
    <2>2. v <= Value(pos.debt, pd)
      BY <1>12 DEF debtValue
    <2> HIDE DEF v
    <2>3. u * pd <= v * PriceScale /\ v * PriceScale <= (u + 1) * pd
      BY <2>1, ProductNat, RoundedDown DEF Units
    <2>4. v * PriceScale <= pos.debt * pd
      <3> DEFINE w == Value(pos.debt, pd)
      <3>1. w \in Nat /\ w * PriceScale <= pos.debt * pd
        BY <1>1, <2>1, ProductNat, ConversionsNat, RoundedDown DEF Value
      <3> HIDE DEF w
      <3>2. v * PriceScale <= w * PriceScale
        BY <2>1, <2>2, <3>1, Monotone DEF w
      <3> QED
        BY <1>1, <2>1, <3>1, <3>2
    <2> HIDE DEF u
    <2>5. u <= pos.debt
      <3>1. u * pd <= pos.debt * pd
        BY <1>1, <2>1, <2>3, <2>4
      <3> QED
        BY <1>1, <2>1, <3>1, Cancelled
    <2>6. Least(u, pos.debt) = u
      BY <2>5 DEF Least
    <2> QED
      BY <2>1, <2>3, <2>6 DEF u, v
  <1> HIDE DEF repayValue
  <1>8. repay \in Nat /\ repay <= pos.debt
    BY <1>1, <1>7, ConversionsNat, LeastNat
  <1>9. seizeValue \in Nat
    BY <1>1, <1>4, <1>7, ProductNat, QuotientNat
  <1>14. seizeValue * Bps <= repayValue * gross
    BY <1>1, <1>4, <1>7, ProductNat, RoundedDown
  <1> HIDE DEF seizeValue
  <1>15. seize * pc <= seizeValue * PriceScale
    <2> DEFINE u == Units(seizeValue, pc)
    <2>1. u \in Nat /\ pc \in Nat \ {0} /\ PriceScale \in Nat \ {0}
      BY <1>9, ConversionsNat, LoanAssumption
    <2>2. u * pc <= seizeValue * PriceScale
      BY <1>9, <2>1, ProductNat, RoundedDown DEF Units
    <2> HIDE DEF u
    <2>3. Least(u, pos.collateral) <= u /\ Least(u, pos.collateral) \in Nat
      BY <1>1, <2>1, LeastNat
    <2> DEFINE z == Least(u, pos.collateral)
    <2> HIDE DEF z
    <2>4. z * pc <= u * pc
      BY <2>1, <2>3, Monotone DEF z
    <2>5. z * pc \in Nat /\ u * pc \in Nat /\ seizeValue * PriceScale \in Nat
      BY <1>9, <2>1, <2>3, ProductNat DEF z
    <2>6. z * pc <= seizeValue * PriceScale
      BY <2>2, <2>4, <2>5
    <2> QED
      BY <2>6 DEF z, u
  <1>10. seize \in Nat /\ seize <= pos.collateral
    BY <1>1, <1>9, ConversionsNat, LeastNat
  <1>11. ComputePlan(pos, pc, pd, thr, p, mode) =
           IF debtValue * Bps <= 0 \/ Healthy(collValue, debtValue, thr)
             THEN [repay |-> 0, seize |-> 0, bad |-> 0]
           ELSE IF repay = 0
             THEN [repay |-> 0, seize |-> 0, bad |-> pos.debt]
           ELSE [repay |-> repay, seize |-> seize,
                 bad |-> IF drained THEN pos.debt - repay ELSE 0]
    BY DEF ComputePlan, NoPlan, collValue, debtValue, gross, target, affordable,
           repayValue, seizeValue
  <1>16. (seize * pc) * Bps <= ((repay + 1) * pd) * (Bps + p.cap)
    <2> HIDE DEF repay, seize
    <2>1. /\ seize \in Nat /\ repay + 1 \in Nat /\ Bps + p.cap \in Nat /\ gross \in Nat
          /\ pc \in Nat /\ pd \in Nat /\ PriceScale \in Nat /\ Bps \in Nat
      BY <1>1, <1>4, <1>8, <1>10, LoanAssumption
    <2> QED
      BY <1>4, <1>7, <1>9, <1>13, <1>14, <1>15, <2>1, WorthChain
  <1>17. \A k \in Nat : (0 * pc) * Bps <= ((k + 1) * pd) * (Bps + p.cap)
    <2> SUFFICES ASSUME NEW k \in Nat PROVE (0 * pc) * Bps <= ((k + 1) * pd) * (Bps + p.cap)
      OBVIOUS
    <2>1. pc \in Nat /\ pd \in Nat /\ Bps + p.cap \in Nat /\ k + 1 \in Nat
      BY <1>1, <1>4, LoanAssumption
    <2>2. (0 * pc) * Bps = 0
      BY <1>1, <2>1
    <2>3. ((k + 1) * pd) * (Bps + p.cap) \in Nat
      BY <2>1, ProductNat
    <2> QED
      BY <2>2, <2>3
  <1> HIDE DEF repay, seize, drained
  <1> DEFINE plan == ComputePlan(pos, pc, pd, thr, p, mode)
  <1>18. /\ plan.repay \in Nat /\ plan.seize \in Nat /\ plan.bad \in Nat
         /\ plan.seize <= pos.collateral /\ plan.repay + plan.bad <= pos.debt
         /\ plan.seize = 0 \/ (plan.seize = seize /\ plan.repay = repay)
    BY <1>1, <1>8, <1>10, <1>11
  <1> HIDE DEF plan
  <1>19. (plan.seize * pc) * Bps <= ((plan.repay + 1) * pd) * (Bps + p.cap)
    <2>1. CASE plan.seize = 0
      BY <1>17, <1>18, <2>1
    <2>2. CASE plan.seize = seize /\ plan.repay = repay
      BY <1>16, <2>2
    <2> QED
      BY <1>18, <2>1, <2>2
  <1> QED
    BY <1>18, <1>19 DEF plan

-----------------------------------------------------------------------------
LEMMA LoanInitially == Init => PositionsOK
  BY LoanAssumption DEF Init, PositionsOK, NoMarket

LEMMA LiquidationKeepsPositions ==
    ASSUME PositionsOK, NEW l \in Accounts, NEW a \in Accounts, NEW mode \in Modes,
           NEW pc \in Prices, NEW pd \in Prices, Liquidate(l, a, mode, pc, pd)
    PROVE  PositionsOK'
  <1> DEFINE plan == ComputePlan(position[a], pc, pd, threshold, params, mode)
  <1>1. position[a] \in [collateral : Nat, debt : Nat]
    BY DEF PositionsOK
  <1>2. /\ plan.repay \in Nat /\ plan.seize \in Nat /\ plan.bad \in Nat
        /\ plan.seize <= position[a].collateral
        /\ plan.repay + plan.bad <= position[a].debt
    BY <1>1, PlanBounded DEF PositionsOK
  <1>3. /\ position' = [position EXCEPT
             ![a] = [collateral |-> @.collateral - plan.seize,
                     debt |-> @.debt - plan.repay - plan.bad]]
        /\ UNCHANGED <<threshold, params>>
    BY DEF Liquidate, adminVars
  <1> HIDE DEF plan
  <1>4. [collateral |-> position[a].collateral - plan.seize,
         debt |-> position[a].debt - plan.repay - plan.bad] \in [collateral : Nat, debt : Nat]
    BY <1>1, <1>2
  <1> QED
    BY <1>3, <1>4 DEF PositionsOK

LEMMA PositionCallsKeep ==
    ASSUME PositionsOK, NEW a \in Accounts, NEW amount \in Amounts,
           \/ DepositCollateral(a, amount)
           \/ Repay(a, amount)
           \/ \E pc, pd \in Prices : Borrow(a, amount, pc, pd) \/ WithdrawCollateral(a, amount, pc, pd)
    PROVE  PositionsOK'
  <1>1. position[a] \in [collateral : Nat, debt : Nat] /\ amount \in Nat
    BY LoanAssumption DEF PositionsOK
  <1>2. PICK r \in [collateral : Nat, debt : Nat] : position' = [position EXCEPT ![a] = r]
    <2>1. CASE DepositCollateral(a, amount)
      <3> DEFINE r == [position[a] EXCEPT !.collateral = @ + amount]
      <3>1. r \in [collateral : Nat, debt : Nat]
        BY <1>1
      <3>2. position' = [position EXCEPT ![a] = r]
        BY <2>1 DEF DepositCollateral
      <3> QED
        BY <3>1, <3>2
    <2>2. CASE Repay(a, amount)
      <3> DEFINE paid == Least(amount, position[a].debt)
                 r == [position[a] EXCEPT !.debt = @ - paid]
      <3>1. paid \in Nat /\ paid <= position[a].debt
        BY <1>1, LeastNat
      <3>2. position' = [position EXCEPT ![a] = r]
        BY <2>2 DEF Repay
      <3>3. r \in [collateral : Nat, debt : Nat]
        <4> HIDE DEF paid
        <4> QED
          BY <1>1, <3>1
      <3> QED
        BY <3>2, <3>3
    <2>3. CASE \E pc, pd \in Prices : Borrow(a, amount, pc, pd)
      <3> DEFINE r == [position[a] EXCEPT !.debt = @ + amount]
      <3>1. r \in [collateral : Nat, debt : Nat]
        BY <1>1
      <3>2. position' = [position EXCEPT ![a] = r]
        BY <2>3 DEF Borrow
      <3> QED
        BY <3>1, <3>2
    <2>4. CASE \E pc, pd \in Prices : WithdrawCollateral(a, amount, pc, pd)
      <3> DEFINE r == [position[a] EXCEPT !.collateral = @ - amount]
      <3>1. position[a].collateral >= amount
        BY <2>4 DEF WithdrawCollateral
      <3>2. r \in [collateral : Nat, debt : Nat]
        BY <1>1, <3>1
      <3>3. position' = [position EXCEPT ![a] = r]
        BY <2>4 DEF WithdrawCollateral
      <3> QED
        BY <3>2, <3>3
    <2> QED
      BY <2>1, <2>2, <2>3, <2>4
  <1>3. UNCHANGED <<threshold, params>>
    BY DEF DepositCollateral, Repay, Borrow, WithdrawCollateral, adminVars
  <1> QED
    BY <1>2, <1>3 DEF PositionsOK

LEMMA OtherCallsKeep ==
    ASSUME PositionsOK,
           \/ \E thr \in Thresholds : SetMarket(thr)
           \/ \E p \in ParamChoices : SetLiqParams(p)
           \/ \E p \in BOOLEAN : SetPaused(p)
           \/ \E a \in Accounts, amount \in Amounts : Deposit(a, amount) \/ Withdraw(a, amount)
           \/ UNCHANGED vars
    PROVE  PositionsOK'
  <1>1. position' = position
    BY DEF SetMarket, SetLiqParams, SetPaused, Deposit, Withdraw, vars
  <1>2. threshold' \in Nat
    BY LoanAssumption DEF PositionsOK, SetMarket, SetLiqParams, SetPaused, Deposit, Withdraw,
                          adminVars, vars
  <1>3. params' \in LiqParams /\ params'.base <= params'.max
    BY LoanAssumption DEF PositionsOK, SetMarket, SetLiqParams, SetPaused, Deposit, Withdraw,
                          adminVars, vars
  <1> QED
    BY <1>1, <1>2, <1>3 DEF PositionsOK

LEMMA PositionsStep ==
    ASSUME PositionsOK, [Next]_vars
    PROVE  PositionsOK'
  <1>1. CASE \E a, l \in Accounts, mode \in Modes, pc, pd \in Prices :
               Liquidate(l, a, mode, pc, pd)
    BY <1>1, LiquidationKeepsPositions, Zenon
  <1>2. CASE \E a \in Accounts, amount \in Amounts :
               \/ DepositCollateral(a, amount)
               \/ Repay(a, amount)
               \/ \E pc, pd \in Prices :
                    Borrow(a, amount, pc, pd) \/ WithdrawCollateral(a, amount, pc, pd)
    BY <1>2, PositionCallsKeep, Zenon
  <1>3. CASE \/ \E thr \in Thresholds : SetMarket(thr)
             \/ \E p \in ParamChoices : SetLiqParams(p)
             \/ \E p \in BOOLEAN : SetPaused(p)
             \/ \E a \in Accounts, amount \in Amounts : Deposit(a, amount) \/ Withdraw(a, amount)
             \/ UNCHANGED vars
    BY <1>3, OtherCallsKeep, Zenon
  <1> QED
    BY <1>1, <1>2, <1>3 DEF Next

(* No position's collateral or debt is ever negative, and the parameters a
   liquidation reads are always ordered: whatever the prices, thresholds,
   parameters and sequence of calls. *)
THEOREM PositionsSound == Spec => []PositionsOK
  <1>1. Init => PositionsOK
    BY LoanInitially
  <1>2. PositionsOK /\ [Next]_vars => PositionsOK'
    BY PositionsStep
  <1> QED
    BY <1>1, <1>2, PTL DEF Spec

-----------------------------------------------------------------------------
(* Writing off a loss.  Both passes over the registry take a cut from a deposit
   and from what is left of the loss; what is proved of them is proved of every
   prefix of the registry. *)

Progress == [left : Int, deposit : [Accounts -> Int]]

Shares(loss) == [a \in Accounts |-> (deposit[a] * loss) \div totalDeposits]

(* One step of each pass. *)
ShareStep(acc, d, loss) ==
    Take(acc, d, Least(Least((deposit[d] * loss) \div totalDeposits, deposit[d]), acc.left))
RestStep(acc, d) == Take(acc, d, Least(acc.deposit[d], acc.left))

LEMMA LeastInt ==
    ASSUME NEW x \in Int, NEW y \in Int
    PROVE  Least(x, y) \in Int /\ Least(x, y) <= x /\ Least(x, y) <= y
  BY DEF Least

LEMMA TakeTyped ==
    ASSUME NEW acc \in Progress, NEW d \in Accounts, NEW cut \in Int
    PROVE  Take(acc, d, cut) \in Progress
  <1>1. acc.left - cut \in Int /\ [acc.deposit EXCEPT ![d] = @ - cut] \in [Accounts -> Int]
    BY DEF Progress
  <1> QED
    BY <1>1 DEF Take, Progress

(* The progress of the first pass, depositor by depositor. *)
LEMMA SharePrefixes ==
    ASSUME depositors \in Seq(Accounts), deposit \in [Accounts -> Nat], NEW loss \in Nat,
           totalDeposits \in Nat \ {0}
    PROVE  \E v : /\ v[0] = [left |-> loss, deposit |-> deposit]
                  /\ \A n \in 1 .. Len(depositors) : v[n] = ShareStep(v[n - 1], depositors[n], loss)
                  /\ ProportionalPass(loss) = v[Len(depositors)]
  <1> DEFINE S == DOMAIN depositors
             base == [left |-> loss, deposit |-> deposit]
             step == [p \in Progress \X Accounts |-> ShareStep(p[1], p[2], loss)]
             Folds(g) == g = [T \in SUBSET S |-> IF T = {} THEN base
                                ELSE ShareStep(g[T \ {Max(T)}], depositors[Max(T)], loss)]
             k == CHOOSE g : Folds(g)
             v == [n \in 0 .. Len(depositors) |-> k[1 .. n]]
  <1>1. Len(depositors) \in Nat /\ S = 1 .. Len(depositors)
    BY LenProperties
  <1>2. \A i \in S : depositors[i] \in Accounts
    BY <1>1
  <1>3. base \in Progress
    BY DEF Progress
  <1>4. step \in [Progress \X Accounts -> Progress]
    <2> SUFFICES ASSUME NEW acc \in Progress, NEW d \in Accounts
                 PROVE  ShareStep(acc, d, loss) \in Progress
      OBVIOUS
    <2>1. (deposit[d] * loss) \div totalDeposits \in Int /\ deposit[d] \in Int /\ acc.left \in Int
      <3>1. deposit[d] * loss \in Nat
        BY ProductNat
      <3> QED
        BY <3>1, QuotientNat DEF Progress
    <2>2. Least(Least((deposit[d] * loss) \div totalDeposits, deposit[d]), acc.left) \in Int
      BY <2>1, LeastInt
    <2> QED
      BY <2>2, TakeTyped DEF ShareStep
  <1>5. ProportionalPass(loss) = k[S]
    BY DEF ProportionalPass, ShareStep, FoldLeft, MapThenFoldSet
  <1>6. HasGreatest(S)
    BY <1>1, IndicesHaveGreatest
  <1> HIDE DEF S, base
  <1>7. PICK h : FoldsTo(h, step, base, depositors, S)
    <2> HIDE DEF step
    <2> QED
      BY <1>6, FoldExists
  <1>8. \A T \in SUBSET S : h[T] \in Progress
    <2> HIDE DEF step
    <2> QED
      BY <1>2, <1>3, <1>4, <1>6, <1>7, FoldTyped
  <1>9. Folds(h)
    <2>1. ASSUME NEW T \in SUBSET S, T # {}
          PROVE  step[<<h[T \ {Max(T)}], depositors[Max(T)]>>]
                   = ShareStep(h[T \ {Max(T)}], depositors[Max(T)], loss)
      <3>1. Max(T) \in T
        BY <1>6, <2>1 DEF HasGreatest
      <3>2. h[T \ {Max(T)}] \in Progress /\ depositors[Max(T)] \in Accounts
        BY <1>2, <1>8, <3>1
      <3> QED
        BY <3>2
    <2>2. h = [T \in SUBSET S |-> IF T = {} THEN base
                                  ELSE step[<<h[T \ {Max(T)}], depositors[Max(T)]>>]]
      BY <1>7 DEF FoldsTo
    <2> HIDE DEF step
    <2> QED
      BY <2>1, <2>2
  <1>10. Folds(k)
    <2> HIDE DEF Folds
    <2> QED
      BY <1>9
  <1>11. \A T \in SUBSET S : k[T] = IF T = {} THEN base
                                    ELSE ShareStep(k[T \ {Max(T)}], depositors[Max(T)], loss)
    <2> DEFINE body == [T \in SUBSET S |-> IF T = {} THEN base
                                ELSE ShareStep(k[T \ {Max(T)}], depositors[Max(T)], loss)]
    <2>1. k = body
      BY <1>10
    <2>2. \A T \in SUBSET S : body[T] = IF T = {} THEN base
                                ELSE ShareStep(k[T \ {Max(T)}], depositors[Max(T)], loss)
      OBVIOUS
    <2> HIDE DEF k
    <2> QED
      BY <2>1, <2>2
  <1> HIDE DEF k, Folds
  <1>12. v[0] = base
    <2>1. 1 .. 0 = {} /\ {} \in SUBSET S
      OBVIOUS
    <2>2. v[0] = k[1 .. 0]
      BY <1>1
    <2> QED
      BY <1>11, <2>1, <2>2
  <1>13. ASSUME NEW n \in 1 .. Len(depositors)
         PROVE  v[n] = ShareStep(v[n - 1], depositors[n], loss)
    <2>1. n \in Nat \ {0} /\ 1 .. n \in SUBSET S
      BY <1>1
    <2>2. Max(1 .. n) = n /\ (1 .. n) \ {n} = 1 .. n - 1 /\ 1 .. n # {}
      BY <2>1, MaxPrefix
    <2>3. k[1 .. n] = ShareStep(k[1 .. n - 1], depositors[n], loss)
      BY <1>11, <2>1, <2>2
    <2>4. v[n] = k[1 .. n] /\ v[n - 1] = k[1 .. n - 1]
      BY <1>1
    <2> QED
      BY <2>3, <2>4
  <1>14. v[Len(depositors)] = k[S]
    BY <1>1
  <1> HIDE DEF v
  <1> QED
    BY <1>5, <1>12, <1>13, <1>14 DEF base

(* The same of the second pass, from wherever the first left off. *)
LEMMA RestPrefixes ==
    ASSUME depositors \in Seq(Accounts), NEW base \in Progress
    PROVE  \E v : /\ v[0] = base
                  /\ \A n \in 1 .. Len(depositors) : v[n] = RestStep(v[n - 1], depositors[n])
                  /\ ResidualPass(base) = v[Len(depositors)]
  <1> DEFINE S == DOMAIN depositors
             step == [p \in Progress \X Accounts |-> RestStep(p[1], p[2])]
             Folds(g) == g = [T \in SUBSET S |-> IF T = {} THEN base
                                ELSE RestStep(g[T \ {Max(T)}], depositors[Max(T)])]
             k == CHOOSE g : Folds(g)
             v == [n \in 0 .. Len(depositors) |-> k[1 .. n]]
  <1>1. Len(depositors) \in Nat /\ S = 1 .. Len(depositors)
    BY LenProperties
  <1>2. \A i \in S : depositors[i] \in Accounts
    BY <1>1
  <1>4. step \in [Progress \X Accounts -> Progress]
    <2> SUFFICES ASSUME NEW acc \in Progress, NEW d \in Accounts
                 PROVE  RestStep(acc, d) \in Progress
      OBVIOUS
    <2>1. acc.deposit[d] \in Int /\ acc.left \in Int
      BY DEF Progress
    <2>2. Least(acc.deposit[d], acc.left) \in Int
      BY <2>1, LeastInt
    <2> QED
      BY <2>2, TakeTyped DEF RestStep
  <1>5. ResidualPass(base) = k[S]
    BY DEF ResidualPass, RestStep, FoldLeft, MapThenFoldSet
  <1>6. HasGreatest(S)
    BY <1>1, IndicesHaveGreatest
  <1> HIDE DEF S
  <1>7. PICK h : FoldsTo(h, step, base, depositors, S)
    <2> HIDE DEF step
    <2> QED
      BY <1>6, FoldExists
  <1>8. \A T \in SUBSET S : h[T] \in Progress
    <2> HIDE DEF step
    <2> QED
      BY <1>2, <1>4, <1>6, <1>7, FoldTyped
  <1>9. Folds(h)
    <2>1. ASSUME NEW T \in SUBSET S, T # {}
          PROVE  step[<<h[T \ {Max(T)}], depositors[Max(T)]>>]
                   = RestStep(h[T \ {Max(T)}], depositors[Max(T)])
      <3>1. Max(T) \in T
        BY <1>6, <2>1 DEF HasGreatest
      <3>2. h[T \ {Max(T)}] \in Progress /\ depositors[Max(T)] \in Accounts
        BY <1>2, <1>8, <3>1
      <3> QED
        BY <3>2
    <2>2. h = [T \in SUBSET S |-> IF T = {} THEN base
                                  ELSE step[<<h[T \ {Max(T)}], depositors[Max(T)]>>]]
      BY <1>7 DEF FoldsTo
    <2> HIDE DEF step
    <2> QED
      BY <2>1, <2>2
  <1>10. Folds(k)
    <2> HIDE DEF Folds
    <2> QED
      BY <1>9
  <1>11. \A T \in SUBSET S : k[T] = IF T = {} THEN base
                                    ELSE RestStep(k[T \ {Max(T)}], depositors[Max(T)])
    <2> DEFINE body == [T \in SUBSET S |-> IF T = {} THEN base
                                ELSE RestStep(k[T \ {Max(T)}], depositors[Max(T)])]
    <2>1. k = body
      BY <1>10
    <2>2. \A T \in SUBSET S : body[T] = IF T = {} THEN base
                                ELSE RestStep(k[T \ {Max(T)}], depositors[Max(T)])
      OBVIOUS
    <2> HIDE DEF k
    <2> QED
      BY <2>1, <2>2
  <1> HIDE DEF k, Folds
  <1>12. v[0] = base
    <2>1. 1 .. 0 = {} /\ {} \in SUBSET S
      OBVIOUS
    <2>2. v[0] = k[1 .. 0]
      BY <1>1
    <2> QED
      BY <1>11, <2>1, <2>2
  <1>13. ASSUME NEW n \in 1 .. Len(depositors)
         PROVE  v[n] = RestStep(v[n - 1], depositors[n])
    <2>1. n \in Nat \ {0} /\ 1 .. n \in SUBSET S
      BY <1>1
    <2>2. Max(1 .. n) = n /\ (1 .. n) \ {n} = 1 .. n - 1 /\ 1 .. n # {}
      BY <2>1, MaxPrefix
    <2>3. k[1 .. n] = RestStep(k[1 .. n - 1], depositors[n])
      BY <1>11, <2>1, <2>2
    <2>4. v[n] = k[1 .. n] /\ v[n - 1] = k[1 .. n - 1]
      BY <1>1
    <2> QED
      BY <2>3, <2>4
  <1>14. v[Len(depositors)] = k[S]
    BY <1>1
  <1> HIDE DEF v
  <1> QED
    BY <1>5, <1>12, <1>13, <1>14

Visited(n) == {depositors[i] : i \in 1 .. n}

(* Each further depositor of a registry without repetitions is a new one. *)
LEMMA VisitedGrows ==
    ASSUME depositors \in Seq(Accounts), IsInjective(depositors), IsFiniteSet(Accounts)
    PROVE  /\ Visited(0) = {}
           /\ Visited(Len(depositors)) = {depositors[i] : i \in DOMAIN depositors}
           /\ \A n \in 1 .. Len(depositors) :
                /\ depositors[n] \in Accounts
                /\ depositors[n] \notin Visited(n - 1)
                /\ Visited(n) = Visited(n - 1) \cup {depositors[n]}
           /\ \A n \in 0 .. Len(depositors) :
                Visited(n) \in SUBSET Accounts /\ IsFiniteSet(Visited(n))
  <1>1. Len(depositors) \in Nat /\ DOMAIN depositors = 1 .. Len(depositors)
        /\ \A i \in 1 .. Len(depositors) : depositors[i] \in Accounts
    OBVIOUS
  <1>2. \A i, j \in 1 .. Len(depositors) : depositors[i] = depositors[j] => i = j
    BY <1>1 DEF IsInjective
  <1>3. Visited(0) = {}
    BY DEF Visited
  <1>4. Visited(Len(depositors)) = {depositors[i] : i \in DOMAIN depositors}
    BY <1>1 DEF Visited
  <1>5. ASSUME NEW n \in 1 .. Len(depositors)
        PROVE  /\ depositors[n] \notin Visited(n - 1)
               /\ Visited(n) = Visited(n - 1) \cup {depositors[n]}
    <2>1. 1 .. n = 1 .. (n - 1) \cup {n} /\ n \notin 1 .. n - 1
          /\ \A i \in 1 .. n - 1 : i \in 1 .. Len(depositors)
      BY <1>1
    <2> QED
      BY <1>2, <2>1 DEF Visited
  <1>6. ASSUME NEW n \in 0 .. Len(depositors)
        PROVE  Visited(n) \in SUBSET Accounts /\ IsFiniteSet(Visited(n))
    <2>1. Visited(n) \in SUBSET Accounts
      <3>1. \A i \in 1 .. n : i \in 1 .. Len(depositors)
        BY <1>1
      <3> QED
        BY <1>1, <3>1 DEF Visited
    <2> QED
      BY <2>1, FS_Subset
  <1> QED
    BY <1>1, <1>3, <1>4, <1>5, <1>6

LEMMA QuotientBelow ==
    ASSUME NEW x \in Nat, NEW s \in Nat \ {0}
    PROVE  x \div s \in Nat /\ s * (x \div s) <= x
  OBVIOUS

LEMMA ProductOrder ==
    ASSUME NEW s \in Nat \ {0}, NEW x \in Int, NEW y \in Int, s * x <= s * y
    PROVE  x <= y
  <1> SUFFICES ASSUME y + 1 <= x PROVE FALSE
    OBVIOUS
  <1>1. (y + 1) * s <= x * s
    BY Monotone
  <1>2. (y + 1) * s = s * y + s /\ x * s = s * x
    OBVIOUS
  <1>3. s * y \in Int /\ s * x \in Int
    OBVIOUS
  <1> QED
    BY <1>1, <1>2, <1>3

(* A share is at most the deposit it is a share of. *)
LEMMA SharesSmall ==
    ASSUME deposit \in [Accounts -> Nat], totalDeposits \in Nat \ {0},
           NEW loss \in Nat, loss <= totalDeposits
    PROVE  /\ Shares(loss) \in [Accounts -> Nat]
           /\ \A a \in Accounts :
                /\ Shares(loss)[a] <= deposit[a]
                /\ totalDeposits * Shares(loss)[a] <= loss * deposit[a]
                /\ deposit[a] = 0 => Shares(loss)[a] = 0
  <1> SUFFICES ASSUME NEW a \in Accounts
               PROVE  LET x == (deposit[a] * loss) \div totalDeposits
                      IN  x \in Nat /\ x <= deposit[a] /\ totalDeposits * x <= loss * deposit[a]
                          /\ (deposit[a] = 0 => x = 0)
    BY DEF Shares
  <1> DEFINE x == (deposit[a] * loss) \div totalDeposits
  <1>1. deposit[a] \in Nat
    OBVIOUS
  <1>2. deposit[a] * loss \in Nat /\ deposit[a] * loss = loss * deposit[a]
    BY <1>1, ProductNat
  <1>3. x \in Nat /\ totalDeposits * x <= deposit[a] * loss
    BY <1>2, QuotientBelow
  <1>4. loss * deposit[a] <= totalDeposits * deposit[a]
    BY <1>1, Monotone
  <1>5. deposit[a] = 0 => x = 0
    <2> SUFFICES ASSUME deposit[a] = 0 PROVE x = 0
      OBVIOUS
    <2>1. deposit[a] * loss = 0
      OBVIOUS
    <2> QED
      BY <2>1
  <1> HIDE DEF x
  <1>6. totalDeposits * x \in Int /\ totalDeposits * deposit[a] \in Int /\ loss * deposit[a] \in Int
    BY <1>1, <1>3
  <1>7. totalDeposits * x <= totalDeposits * deposit[a]
    BY <1>2, <1>3, <1>4, <1>6
  <1>8. x <= deposit[a]
    BY <1>1, <1>3, <1>7, ProductOrder
  <1> QED
    BY <1>2, <1>3, <1>5, <1>8 DEF x

(* No depositors lose more by their shares than there is to lose. *)
LEMMA SharesFit ==
    ASSUME deposit \in [Accounts -> Nat], totalDeposits \in Nat \ {0},
           NEW loss \in Nat, loss <= totalDeposits, IsFiniteSet(Accounts),
           totalDeposits = SumFunctionOnSet(deposit, Accounts), NEW S \in SUBSET Accounts
    PROVE  SumFunctionOnSet(Shares(loss), S) \in Nat /\ SumFunctionOnSet(Shares(loss), S) <= loss
  <1> DEFINE sh == Shares(loss)
             scaled == [a \in Accounts |-> totalDeposits * sh[a]]
             owed == [a \in Accounts |-> loss * deposit[a]]
  <1>1. sh \in [Accounts -> Nat] /\ \A a \in Accounts : totalDeposits * sh[a] <= loss * deposit[a]
    BY SharesSmall
  <1> HIDE DEF sh
  <1>2. \A a \in Accounts : sh[a] \in Int /\ sh[a] \in Nat /\ deposit[a] \in Int
    BY <1>1
  <1>3. \A a \in Accounts : scaled[a] \in Int /\ owed[a] \in Int /\ scaled[a] <= owed[a]
                            /\ scaled[a] = totalDeposits * sh[a] /\ owed[a] = loss * deposit[a]
    BY <1>1, <1>2
  <1> HIDE DEF scaled, owed
  <1>4. SumFunctionOnSet(scaled, Accounts) <= SumFunctionOnSet(owed, Accounts)
    BY <1>3, SumMonotone
  <1>5. SumFunctionOnSet(scaled, Accounts) = totalDeposits * SumFunctionOnSet(sh, Accounts)
    BY <1>2, <1>3, SumScaled
  <1>6. SumFunctionOnSet(owed, Accounts) = loss * totalDeposits
    BY <1>2, <1>3, SumScaled
  <1>7. SumFunctionOnSet(sh, Accounts) \in Int
    BY <1>2, SumInt
  <1>8. loss * totalDeposits = totalDeposits * loss
    OBVIOUS
  <1>9. SumFunctionOnSet(sh, Accounts) <= loss
    BY <1>4, <1>5, <1>6, <1>7, <1>8, ProductOrder
  <1>10. IsFiniteSet(S) /\ IsFiniteSet(Accounts \ S)
    BY FS_Subset
  <1>11. S \cup (Accounts \ S) = Accounts /\ S \cap (Accounts \ S) = {}
    OBVIOUS
  <1>12. SumFunctionOnSet(sh, S) \in Nat /\ SumFunctionOnSet(sh, Accounts \ S) \in Nat
    BY <1>2, <1>10, SumNat
  <1>13. SumFunctionOnSet(sh, S \cup (Accounts \ S))
           = SumFunctionOnSet(sh, S) + SumFunctionOnSet(sh, Accounts \ S)
    BY <1>2, <1>10, <1>11, SumUnion
  <1>14. SumFunctionOnSet(sh, Accounts)
           = SumFunctionOnSet(sh, S) + SumFunctionOnSet(sh, Accounts \ S)
    BY <1>11, <1>13, Zenon
  <1>15. SumFunctionOnSet(sh, S) <= loss
    BY <1>7, <1>9, <1>12, <1>14
  <1> QED
    BY <1>12, <1>15 DEF sh

(* The first pass takes everybody's share and leaves what rounding left. *)
LEMMA FirstPass ==
    ASSUME depositors \in Seq(Accounts), IsInjective(depositors), deposit \in [Accounts -> Nat],
           totalDeposits \in Nat \ {0}, NEW loss \in Nat, loss <= totalDeposits,
           IsFiniteSet(Accounts), totalDeposits = SumFunctionOnSet(deposit, Accounts),
           \A a \in Accounts : deposit[a] > 0 => \E i \in DOMAIN depositors : depositors[i] = a
    PROVE  ProportionalPass(loss) =
             [left |-> loss - SumFunctionOnSet(Shares(loss), Accounts),
              deposit |-> [a \in Accounts |-> deposit[a] - Shares(loss)[a]]]
  <1> DEFINE sh == Shares(loss)
             len == Len(depositors)
             After(S) == [left |-> loss - SumFunctionOnSet(sh, S),
                          deposit |-> [a \in Accounts |-> IF a \in S THEN deposit[a] - sh[a]
                                                                     ELSE deposit[a]]]
  <1>1. PICK v : /\ v[0] = [left |-> loss, deposit |-> deposit]
                 /\ \A n \in 1 .. len : v[n] = ShareStep(v[n - 1], depositors[n], loss)
                 /\ ProportionalPass(loss) = v[len]
    BY SharePrefixes
  <1>2. /\ sh \in [Accounts -> Nat]
        /\ \A a \in Accounts : sh[a] <= deposit[a] /\ (deposit[a] = 0 => sh[a] = 0)
    BY SharesSmall
  <1>3. \A S \in SUBSET Accounts : SumFunctionOnSet(sh, S) \in Nat /\ SumFunctionOnSet(sh, S) <= loss
    BY SharesFit
  <1>4. /\ Visited(0) = {}
        /\ Visited(len) = {depositors[i] : i \in DOMAIN depositors}
        /\ \A n \in 1 .. len : /\ depositors[n] \in Accounts
                               /\ depositors[n] \notin Visited(n - 1)
                               /\ Visited(n) = Visited(n - 1) \cup {depositors[n]}
        /\ \A n \in 0 .. len : Visited(n) \in SUBSET Accounts /\ IsFiniteSet(Visited(n))
    BY VisitedGrows
  <1>5. len \in Nat
    OBVIOUS
  <1>6. \A a \in Accounts : (deposit[a] * loss) \div totalDeposits = sh[a]
    BY DEF Shares
  <1> HIDE DEF sh, len
  <1> DEFINE G == {n \in 0 .. len : v[n] = After(Visited(n))}
  <1>7. 0 \in G
    <2>1. SumFunctionOnSet(sh, {}) = 0
      BY SumEmpty
    <2>2. After({}) = [left |-> loss, deposit |-> deposit]
      BY <2>1
    <2>3. v[0] = After(Visited(0))
      <3> HIDE DEF After
      <3> QED
        BY <1>1, <1>4, <2>2
    <2> QED
      BY <1>5, <2>3
  <1>8. ASSUME NEW n \in 1 .. len, n - 1 \in G
        PROVE  n \in G
    <2> DEFINE S == Visited(n - 1)
               d == depositors[n]
    <2>1. n - 1 \in 0 .. len /\ n \in 0 .. len
      BY <1>5
    <2>2. d \in Accounts /\ d \notin S /\ Visited(n) = S \cup {d} /\ S \in SUBSET Accounts
          /\ IsFiniteSet(S) /\ S \cup {d} \in SUBSET Accounts
      BY <1>4, <2>1
    <2>3. v[n] = ShareStep(After(S), d, loss)
      BY <1>1, <1>8
    <2> HIDE DEF S, d
    <2>4. SumFunctionOnSet(sh, S \cup {d}) = sh[d] + SumFunctionOnSet(sh, S)
      <3>1. \A x \in S \cup {d} : sh[x] \in Int
        BY <1>2, <2>2
      <3> QED
        BY <2>2, <3>1, SumAdd
    <2>5. /\ SumFunctionOnSet(sh, S) \in Nat /\ SumFunctionOnSet(sh, S \cup {d}) \in Nat
          /\ SumFunctionOnSet(sh, S \cup {d}) <= loss
          /\ sh[d] \in Nat /\ deposit[d] \in Nat /\ sh[d] <= deposit[d]
      BY <1>2, <1>3, <2>2
    <2>6. Least(Least((deposit[d] * loss) \div totalDeposits, deposit[d]), After(S).left) = sh[d]
      <3>1. (deposit[d] * loss) \div totalDeposits = sh[d]
        BY <1>6, <2>2
      <3>2. After(S).left = loss - SumFunctionOnSet(sh, S)
        OBVIOUS
      <3>3. sh[d] <= loss - SumFunctionOnSet(sh, S)
        BY <2>4, <2>5
      <3>4. Least(sh[d], deposit[d]) = sh[d] /\ Least(sh[d], loss - SumFunctionOnSet(sh, S)) = sh[d]
        BY <2>5, <3>3 DEF Least
      <3> QED
        BY <3>1, <3>2, <3>4
    <2>7. v[n] = Take(After(S), d, sh[d])
      BY <2>3, <2>6 DEF ShareStep
    <2>8. After(S).left - sh[d] = After(S \cup {d}).left
      BY <2>4, <2>5
    <2>9. [After(S).deposit EXCEPT ![d] = @ - sh[d]] = After(S \cup {d}).deposit
      BY <2>2, <2>5
    <2>10. Take(After(S), d, sh[d]) = After(S \cup {d})
      BY <2>8, <2>9 DEF Take
    <2> QED
      BY <2>1, <2>2, <2>7, <2>10 DEF S
  <1>9. \A k \in 0 .. len : k \in G
    <2> HIDE DEF G
    <2> QED
      BY <1>5, <1>7, <1>8, PrefixInduction
  <1>10. v[len] = After(Visited(len))
    BY <1>5, <1>9
  <1> DEFINE S == Visited(len)
  <1>11. S \in SUBSET Accounts /\ \A a \in Accounts \ S : deposit[a] = 0 /\ sh[a] = 0
    <2>1. S \in SUBSET Accounts
      BY <1>4, <1>5
    <2>2. ASSUME NEW a \in Accounts \ S PROVE deposit[a] = 0
      BY <1>4, <2>2
    <2> QED
      BY <1>2, <2>1, <2>2
  <1> HIDE DEF S
  <1>12. SumFunctionOnSet(sh, Accounts) = SumFunctionOnSet(sh, S)
    <2>1. \A x \in S : sh[x] \in Int
      BY <1>2, <1>11
    <2> QED
      BY <1>11, <2>1, SumOverPart
  <1>13. After(S).deposit = [a \in Accounts |-> deposit[a] - sh[a]]
    BY <1>2, <1>11
  <1>14. After(S) = [left |-> loss - SumFunctionOnSet(sh, Accounts),
                     deposit |-> [a \in Accounts |-> deposit[a] - sh[a]]]
    BY <1>12, <1>13
  <1> QED
    BY <1>1, <1>10, <1>14 DEF S, sh

(* The second pass takes all that is left, never twice the same. *)
LEMMA SecondPass ==
    ASSUME depositors \in Seq(Accounts), IsInjective(depositors), IsFiniteSet(Accounts),
           NEW f \in [Accounts -> Nat], NEW r \in Nat, r <= SumFunctionOnSet(f, Accounts),
           \A a \in Accounts : f[a] > 0 => \E i \in DOMAIN depositors : depositors[i] = a
    PROVE  LET after == ResidualPass([left |-> r, deposit |-> f])
           IN  /\ after.left = 0
               /\ after.deposit \in [Accounts -> Nat]
               /\ SumFunctionOnSet(after.deposit, Accounts) = SumFunctionOnSet(f, Accounts) - r
               /\ \A a \in Accounts : after.deposit[a] <= f[a] /\ f[a] - after.deposit[a] <= r
  <1> DEFINE len == Len(depositors)
             base == [left |-> r, deposit |-> f]
             Good(acc) ==
               /\ acc = [left |-> acc.left, deposit |-> acc.deposit]
               /\ acc.left \in Nat /\ acc.left <= r
               /\ acc.deposit \in [Accounts -> Nat]
               /\ SumFunctionOnSet(acc.deposit, Accounts)
                    = SumFunctionOnSet(f, Accounts) - (r - acc.left)
               /\ \A a \in Accounts : /\ acc.deposit[a] <= f[a]
                                      /\ f[a] - acc.deposit[a] <= r - acc.left
             Spent(acc, S) == acc.left = 0 \/ \A a \in S : acc.deposit[a] = 0
  <1>0. base \in Progress
    BY DEF Progress
  <1>1. PICK v : /\ v[0] = base
                 /\ \A n \in 1 .. len : v[n] = RestStep(v[n - 1], depositors[n])
                 /\ ResidualPass(base) = v[len]
    <2> HIDE DEF base
    <2> QED
      BY <1>0, RestPrefixes
  <1>2. /\ Visited(0) = {}
        /\ Visited(len) = {depositors[i] : i \in DOMAIN depositors}
        /\ \A n \in 1 .. len : /\ depositors[n] \in Accounts
                               /\ depositors[n] \notin Visited(n - 1)
                               /\ Visited(n) = Visited(n - 1) \cup {depositors[n]}
        /\ \A n \in 0 .. len : Visited(n) \in SUBSET Accounts /\ IsFiniteSet(Visited(n))
    BY VisitedGrows
  <1>3. len \in Nat
    OBVIOUS
  <1>4. SumFunctionOnSet(f, Accounts) \in Nat
    BY SumNat
  <1> HIDE DEF len
  <1> DEFINE G == {n \in 0 .. len : Good(v[n]) /\ Spent(v[n], Visited(n))}
  <1>5. 0 \in G
    <2>1. Good(base)
      BY <1>4
    <2>2. Spent(base, {})
      OBVIOUS
    <2> HIDE DEF Good, Spent, base
    <2>3. Good(v[0]) /\ Spent(v[0], Visited(0))
      BY <1>1, <1>2, <2>1, <2>2, Zenon
    <2>4. 0 \in 0 .. len
      BY <1>3
    <2> QED
      BY <2>3, <2>4, Zenon
  <1>6. ASSUME NEW acc, Good(acc), NEW S \in SUBSET Accounts, Spent(acc, S), NEW d \in Accounts
        PROVE  Good(RestStep(acc, d)) /\ Spent(RestStep(acc, d), S \cup {d})
    <2> DEFINE cut == Least(acc.deposit[d], acc.left)
               dep == [acc.deposit EXCEPT ![d] = @ - cut]
    <2>1. acc.left \in Nat /\ acc.deposit \in [Accounts -> Nat] /\ acc.deposit[d] \in Nat
          /\ acc.left <= r
      BY <1>6
    <2>2. cut \in Nat /\ cut <= acc.left /\ cut <= acc.deposit[d]
          /\ (cut = acc.left \/ cut = acc.deposit[d])
      BY <2>1 DEF Least
    <2>3. RestStep(acc, d) = [left |-> acc.left - cut, deposit |-> dep]
      BY DEF RestStep, Take
    <2> HIDE DEF cut
    <2>4. /\ dep \in [Accounts -> Nat] /\ dep[d] = acc.deposit[d] - cut
          /\ \A a \in Accounts \ {d} : dep[a] = acc.deposit[a]
      BY <2>1, <2>2
    <2> HIDE DEF dep
    <2>5. SumFunctionOnSet(dep, Accounts) = SumFunctionOnSet(acc.deposit, Accounts) + (dep[d] - acc.deposit[d])
      <3>1. \A x \in Accounts : acc.deposit[x] \in Int
        BY <2>1
      <3>2. dep[d] \in Int
        BY <2>4
      <3> DEFINE old == acc.deposit
      <3>3. (\A x \in Accounts \ {d} : dep[x] = old[x]) /\ \A x \in Accounts : old[x] \in Int
        BY <2>4, <3>1
      <3> HIDE DEF old
      <3>4. SumFunctionOnSet(dep, Accounts) = SumFunctionOnSet(old, Accounts) + (dep[d] - old[d])
        BY <3>2, <3>3, SumChange
      <3> QED
        BY <3>4 DEF old
    <2>6. SumFunctionOnSet(dep, Accounts) = SumFunctionOnSet(f, Accounts) - (r - (acc.left - cut))
      <3>1. SumFunctionOnSet(acc.deposit, Accounts) = SumFunctionOnSet(f, Accounts) - (r - acc.left)
        BY <1>6
      <3> DEFINE total == SumFunctionOnSet(f, Accounts)
                 before == SumFunctionOnSet(acc.deposit, Accounts)
      <3>2. total \in Int /\ before = total - (r - acc.left) /\ dep[d] = acc.deposit[d] - cut
            /\ SumFunctionOnSet(dep, Accounts) = before + (dep[d] - acc.deposit[d])
        BY <1>4, <2>4, <2>5, <3>1
      <3> HIDE DEF total, before
      <3>3. SumFunctionOnSet(dep, Accounts) = total - (r - (acc.left - cut))
        BY <2>1, <2>2, <3>2
      <3> QED
        BY <3>3 DEF total
    <2>7. ASSUME NEW a \in Accounts
          PROVE  dep[a] <= f[a] /\ f[a] - dep[a] <= r - (acc.left - cut)
      <3>1. acc.deposit[a] <= f[a] /\ f[a] - acc.deposit[a] <= r - acc.left
            /\ acc.deposit[a] \in Nat /\ f[a] \in Nat
        BY <1>6, <2>1
      <3>2. CASE a = d
        BY <2>1, <2>2, <2>4, <3>1, <3>2
      <3>3. CASE a # d
        BY <2>1, <2>2, <2>4, <3>1, <3>3
      <3> QED
        BY <3>2, <3>3
    <2>8. acc.left - cut = 0 \/ \A a \in S \cup {d} : dep[a] = 0
      <3>1. CASE acc.left = cut
        BY <2>1, <3>1
      <3>2. CASE acc.left # cut
        <4>1. cut = acc.deposit[d] /\ acc.left # 0 /\ dep[d] = 0
          BY <2>1, <2>2, <2>4, <3>2
        <4>2. \A a \in S : acc.deposit[a] = 0
          BY <1>6, <4>1
        <4>3. \A a \in S \cup {d} : dep[a] = 0
          BY <2>4, <4>1, <4>2
        <4> QED
          BY <4>3
      <3> QED
        BY <3>1, <3>2
    <2>9. acc.left - cut \in Nat /\ acc.left - cut <= r
      BY <2>1, <2>2
    <2> QED
      BY <2>3, <2>4, <2>6, <2>7, <2>8, <2>9
  <1> HIDE DEF Good, Spent
  <1>7. ASSUME NEW n \in 1 .. len, n - 1 \in G
        PROVE  n \in G
    <2>1. n - 1 \in 0 .. len /\ n \in 0 .. len
      BY <1>3
    <2>2. v[n] = RestStep(v[n - 1], depositors[n]) /\ depositors[n] \in Accounts
          /\ Visited(n) = Visited(n - 1) \cup {depositors[n]} /\ Visited(n - 1) \in SUBSET Accounts
      BY <1>1, <1>2, <2>1
    <2>3. Good(v[n - 1]) /\ Spent(v[n - 1], Visited(n - 1))
      BY <1>7
    <2>4. Good(v[n]) /\ Spent(v[n], Visited(n))
      <3> DEFINE u == v[n - 1]
                 S == Visited(n - 1)
                 d == depositors[n]
      <3>1. Good(u) /\ Spent(u, S) /\ S \in SUBSET Accounts /\ d \in Accounts
        BY <2>2, <2>3
      <3>2. v[n] = RestStep(u, d) /\ Visited(n) = S \cup {d}
        BY <2>2
      <3> HIDE DEF u, S, d
      <3>3. Good(RestStep(u, d)) /\ Spent(RestStep(u, d), S \cup {d})
        BY <1>6, <3>1
      <3> QED
        BY <3>2, <3>3, Zenon
    <2> QED
      BY <2>1, <2>4
  <1>8. \A k \in 0 .. len : k \in G
    <2> HIDE DEF G
    <2> QED
      BY <1>3, <1>5, <1>7, PrefixInduction
  <1>9. Good(v[len]) /\ Spent(v[len], Visited(len))
    BY <1>3, <1>8
  <1> DEFINE after == v[len]
  <1>10. /\ after.left \in Nat /\ after.left <= r
         /\ after.deposit \in [Accounts -> Nat]
         /\ SumFunctionOnSet(after.deposit, Accounts)
              = SumFunctionOnSet(f, Accounts) - (r - after.left)
         /\ \A a \in Accounts : /\ after.deposit[a] <= f[a]
                                /\ f[a] - after.deposit[a] <= r - after.left
    BY <1>9 DEF Good
  <1> HIDE DEF after
  <1>11. after.left = 0
    <2> SUFFICES ASSUME after.left # 0 PROVE FALSE
      OBVIOUS
    <2>1. \A a \in Visited(len) : after.deposit[a] = 0
      BY <1>9 DEF Spent, after
    <2>2. ASSUME NEW a \in Accounts PROVE after.deposit[a] = 0
      <3>1. CASE f[a] = 0
        BY <1>10, <3>1
      <3>2. CASE f[a] # 0
        <4>1. a \in Visited(len)
          BY <1>2, <3>2
        <4> QED
          BY <2>1, <4>1
      <3> QED
        BY <3>1, <3>2
    <2>3. SumFunctionOnSet(after.deposit, Accounts) = 0
      BY <2>2, SumZero
    <2> QED
      BY <1>4, <1>10, <2>3
  <1>12. ResidualPass(base) = after
    BY <1>1 DEF after
  <1>13. /\ SumFunctionOnSet(after.deposit, Accounts) = SumFunctionOnSet(f, Accounts) - r
         /\ \A a \in Accounts : after.deposit[a] <= f[a] /\ f[a] - after.deposit[a] <= r
    BY <1>4, <1>10, <1>11
  <1> QED
    BY <1>10, <1>11, <1>12, <1>13 DEF base

(* Writing a loss off takes exactly the loss, from nobody less than his share
   nor more than the rounding residual beyond it: socialize_bad_debt, for every
   registry, every balances and every loss the pool can bear. *)
THEOREM WriteOffExact ==
    ASSUME depositors \in Seq(Accounts), IsInjective(depositors), deposit \in [Accounts -> Nat],
           totalDeposits \in Nat \ {0}, NEW loss \in Nat, loss <= totalDeposits,
           IsFiniteSet(Accounts), totalDeposits = SumFunctionOnSet(deposit, Accounts),
           \A a \in Accounts : deposit[a] > 0 => \E i \in DOMAIN depositors : depositors[i] = a
    PROVE  LET after == WriteOff(loss)
               residual == loss - SumFunctionOnSet(Shares(loss), Accounts)
           IN  /\ after.left = 0
               /\ after.deposit \in [Accounts -> Nat]
               /\ SumFunctionOnSet(after.deposit, Accounts) = totalDeposits - loss
               /\ \A a \in Accounts :
                    /\ Shares(loss)[a] <= deposit[a] - after.deposit[a]
                    /\ deposit[a] - after.deposit[a] <= Shares(loss)[a] + residual
  <1> DEFINE sh == Shares(loss)
             r == loss - SumFunctionOnSet(sh, Accounts)
             f == [a \in Accounts |-> deposit[a] - sh[a]]
             minus == [a \in Accounts |-> -1 * sh[a]]
             after == WriteOff(loss)
  <1>1. ProportionalPass(loss) = [left |-> r, deposit |-> f]
    BY FirstPass
  <1>2. /\ sh \in [Accounts -> Nat]
        /\ \A a \in Accounts : sh[a] <= deposit[a]
    BY SharesSmall
  <1>3. SumFunctionOnSet(sh, Accounts) \in Nat /\ SumFunctionOnSet(sh, Accounts) <= loss
    BY SharesFit
  <1>4. after = ResidualPass([left |-> r, deposit |-> f])
    BY <1>1 DEF WriteOff
  <1> HIDE DEF sh, after
  <1>5. f \in [Accounts -> Nat] /\ r \in Nat /\ \A a \in Accounts : f[a] = deposit[a] - sh[a]
    BY <1>2, <1>3
  <1>6. SumFunctionOnSet(f, Accounts) = totalDeposits - SumFunctionOnSet(sh, Accounts)
    <2>1. \A a \in Accounts : f[a] \in Int /\ sh[a] \in Int /\ deposit[a] = f[a] + sh[a]
      BY <1>2, <1>5
    <2> HIDE DEF f
    <2>2. SumFunctionOnSet(deposit, Accounts)
            = SumFunctionOnSet(f, Accounts) + SumFunctionOnSet(sh, Accounts)
      BY <2>1, SumPlus
    <2>3. SumFunctionOnSet(f, Accounts) \in Int
      BY <2>1, SumInt
    <2> QED
      BY <1>3, <2>2, <2>3
  <1>7. \A a \in Accounts : f[a] > 0 => \E i \in DOMAIN depositors : depositors[i] = a
    <2>1. \A a \in Accounts : f[a] > 0 => deposit[a] > 0
      BY <1>2, <1>5
    <2> QED
      BY <2>1
  <1>8. r <= SumFunctionOnSet(f, Accounts)
    BY <1>3, <1>6
  <1> HIDE DEF f, r
  <1>9. /\ after.left = 0
        /\ after.deposit \in [Accounts -> Nat]
        /\ SumFunctionOnSet(after.deposit, Accounts) = SumFunctionOnSet(f, Accounts) - r
        /\ \A a \in Accounts : after.deposit[a] <= f[a] /\ f[a] - after.deposit[a] <= r
    BY <1>4, <1>5, <1>7, <1>8, SecondPass
  <1>10. SumFunctionOnSet(after.deposit, Accounts) = totalDeposits - loss
    BY <1>3, <1>6, <1>9 DEF r
  <1>11. ASSUME NEW a \in Accounts
         PROVE  /\ sh[a] <= deposit[a] - after.deposit[a]
                /\ deposit[a] - after.deposit[a] <= sh[a] + r
    <2>1. f[a] = deposit[a] - sh[a] /\ after.deposit[a] <= f[a] /\ f[a] - after.deposit[a] <= r
          /\ sh[a] \in Nat /\ deposit[a] \in Nat /\ after.deposit[a] \in Nat
      BY <1>2, <1>5, <1>9
    <2> QED
      BY <1>5, <2>1
  <1> QED
    BY <1>9, <1>10, <1>11 DEF sh, r, after

-----------------------------------------------------------------------------
(* The books.  The totals are stated as sums over Accounts; that a total is one
   of its own domain is the library's definition. *)

LEMMA TotalIsSum ==
    ASSUME NEW f
    PROVE  Total(f) = SumFunctionOnSet(f, DOMAIN f)
  BY DEF Total, FoldFunction, SumFunctionOnSet

SumsBalance ==
    /\ totalDeposits = SumFunctionOnSet(deposit, Accounts)
    /\ totalBorrowed = SumFunctionOnSet(Debts, Accounts)
    /\ collHeld = SumFunctionOnSet(Collaterals, Accounts)
    /\ debtHeld = totalDeposits - totalBorrowed
    /\ \A a \in Accounts : deposit[a] > 0 => \E i \in DOMAIN depositors : depositors[i] = a

LoanInv == PositionsOK /\ PoolOK /\ SumsBalance

LEMMA SumsAreTotals ==
    ASSUME PoolOK
    PROVE  SumsBalance <=> (BooksBalance /\ PoolBacked)
  <1>1. DOMAIN deposit = Accounts /\ DOMAIN Debts = Accounts /\ DOMAIN Collaterals = Accounts
    BY DEF PoolOK, Debts, Collaterals
  <1>2. /\ Total(deposit) = SumFunctionOnSet(deposit, Accounts)
        /\ Total(Debts) = SumFunctionOnSet(Debts, Accounts)
        /\ Total(Collaterals) = SumFunctionOnSet(Collaterals, Accounts)
    BY <1>1, TotalIsSum
  <1> QED
    BY <1>2 DEF SumsBalance, BooksBalance, PoolBacked

LEMMA PartBelowSum ==
    ASSUME NEW S, IsFiniteSet(S), NEW f, \A x \in S : f[x] \in Nat, NEW a \in S
    PROVE  f[a] <= SumFunctionOnSet(f, S)
  <1>1. IsFiniteSet(S \ {a})
    BY FS_Subset
  <1>2. SumFunctionOnSet(f, S \ {a}) \in Nat
    BY <1>1, SumNat
  <1>3. SumFunctionOnSet(f, S) = f[a] + SumFunctionOnSet(f, S \ {a})
    BY SumRemove
  <1>4. f[a] \in Nat
    OBVIOUS
  <1> QED
    BY <1>2, <1>3, <1>4

(* A change of one position changes the two totals by as much. *)
LEMMA PositionChange ==
    ASSUME PositionsOK, IsFiniteSet(Accounts), NEW a \in Accounts,
           NEW r \in [collateral : Nat, debt : Nat], position' = [position EXCEPT ![a] = r]
    PROVE  /\ SumFunctionOnSet(Debts, Accounts)'
                = SumFunctionOnSet(Debts, Accounts) + (r.debt - position[a].debt)
           /\ SumFunctionOnSet(Collaterals, Accounts)'
                = SumFunctionOnSet(Collaterals, Accounts) + (r.collateral - position[a].collateral)
           /\ SumFunctionOnSet(Debts, Accounts)' \in Nat
           /\ SumFunctionOnSet(Collaterals, Accounts)' \in Nat
           /\ position[a].debt <= SumFunctionOnSet(Debts, Accounts)
           /\ position[a].collateral <= SumFunctionOnSet(Collaterals, Accounts)
  <1> DEFINE d == [x \in Accounts |-> position[x].debt]
             c == [x \in Accounts |-> position[x].collateral]
             e == [x \in Accounts |-> position'[x].debt]
             k == [x \in Accounts |-> position'[x].collateral]
  <1>1. position \in [Accounts -> [collateral : Nat, debt : Nat]]
    BY DEF PositionsOK
  <1>2. \A x \in Accounts : d[x] \in Nat /\ c[x] \in Nat /\ d[x] \in Int /\ c[x] \in Int
    BY <1>1
  <1>3. \A x \in Accounts : position'[x] = IF x = a THEN r ELSE position[x]
    BY <1>1
  <1>4. e[a] = r.debt /\ k[a] = r.collateral /\ d[a] = position[a].debt
        /\ c[a] = position[a].collateral /\ r.debt \in Nat /\ r.collateral \in Nat
        /\ \A x \in Accounts \ {a} : e[x] = d[x] /\ k[x] = c[x]
    BY <1>3
  <1> HIDE DEF d, c, e, k
  <1>5. \A x \in Accounts : e[x] \in Nat /\ k[x] \in Nat
    BY <1>2, <1>4
  <1>6. e[a] \in Int /\ k[a] \in Int
    BY <1>5
  <1>7. SumFunctionOnSet(e, Accounts) = SumFunctionOnSet(d, Accounts) + (e[a] - d[a])
    BY <1>2, <1>4, <1>6, SumChange
  <1>8. SumFunctionOnSet(k, Accounts) = SumFunctionOnSet(c, Accounts) + (k[a] - c[a])
    BY <1>2, <1>4, <1>6, SumChange
  <1>9. SumFunctionOnSet(e, Accounts) \in Nat /\ SumFunctionOnSet(k, Accounts) \in Nat
    BY <1>5, SumNat
  <1>10. d[a] <= SumFunctionOnSet(d, Accounts) /\ c[a] <= SumFunctionOnSet(c, Accounts)
    BY <1>2, PartBelowSum
  <1>11. Debts = d /\ Collaterals = c /\ Debts' = e /\ Collaterals' = k
    BY DEF Debts, Collaterals, d, c, e, k
  <1>12. /\ SumFunctionOnSet(Debts, Accounts) = SumFunctionOnSet(d, Accounts)
         /\ SumFunctionOnSet(Collaterals, Accounts) = SumFunctionOnSet(c, Accounts)
         /\ SumFunctionOnSet(Debts, Accounts)' = SumFunctionOnSet(e, Accounts)
         /\ SumFunctionOnSet(Collaterals, Accounts)' = SumFunctionOnSet(k, Accounts)
    BY <1>11
  <1> QED
    BY <1>4, <1>7, <1>8, <1>9, <1>10, <1>12

(* A change of one deposit changes the total of deposits by as much. *)
LEMMA DepositChange ==
    ASSUME deposit \in [Accounts -> Nat], IsFiniteSet(Accounts), NEW a \in Accounts,
           NEW x \in Nat, deposit' = [deposit EXCEPT ![a] = x]
    PROVE  /\ deposit' \in [Accounts -> Nat]
           /\ SumFunctionOnSet(deposit, Accounts)' = SumFunctionOnSet(deposit, Accounts) + (x - deposit[a])
           /\ SumFunctionOnSet(deposit, Accounts)' \in Nat
  <1> DEFINE e == deposit'
  <1>1. e \in [Accounts -> Nat] /\ e[a] = x /\ \A y \in Accounts \ {a} : e[y] = deposit[y]
    OBVIOUS
  <1>2. SumFunctionOnSet(deposit, Accounts)' = SumFunctionOnSet(e, Accounts)
    OBVIOUS
  <1> HIDE DEF e
  <1>3. (\A y \in Accounts : deposit[y] \in Int /\ e[y] \in Nat) /\ e[a] \in Int
    BY <1>1
  <1>4. SumFunctionOnSet(e, Accounts) = SumFunctionOnSet(deposit, Accounts) + (e[a] - deposit[a])
    BY <1>1, <1>3, SumChange
  <1>5. SumFunctionOnSet(e, Accounts) \in Nat
    BY <1>3, SumNat
  <1>6. deposit' \in [Accounts -> Nat]
    BY <1>1 DEF e
  <1> QED
    BY <1>1, <1>2, <1>4, <1>5, <1>6

(* No more can be lost than was borrowed, and no more was borrowed than there
   are deposits: so the pool always bears the loss it is asked to. *)
LEMMA LossBorne ==
    ASSUME LoanInv, IsFiniteSet(Accounts), NEW loss \in Nat, loss <= totalBorrowed,
           SocializeBadDebt(loss)
    PROVE  /\ depositors' = depositors
           /\ deposit' \in [Accounts -> Nat]
           /\ totalDeposits' = totalDeposits - loss
           /\ totalDeposits' \in Nat
           /\ totalDeposits' = SumFunctionOnSet(deposit, Accounts)'
           /\ \A a \in Accounts : deposit'[a] <= deposit[a]
           /\ loss > 0 =>
                \A a \in Accounts :
                   /\ Shares(loss)[a] <= deposit[a] - deposit'[a]
                   /\ deposit[a] - deposit'[a]
                        <= Shares(loss)[a] + (loss - SumFunctionOnSet(Shares(loss), Accounts))
  <1>1. /\ depositors \in Seq(Accounts) /\ IsInjective(depositors)
        /\ deposit \in [Accounts -> Nat]
        /\ totalDeposits \in Nat /\ totalBorrowed \in Nat /\ debtHeld \in Nat
        /\ debtHeld = totalDeposits - totalBorrowed
        /\ totalDeposits = SumFunctionOnSet(deposit, Accounts)
        /\ \A a \in Accounts : deposit[a] > 0 => \E i \in DOMAIN depositors : depositors[i] = a
    BY DEF LoanInv, PoolOK, SumsBalance
  <1>2. CASE loss = 0
    <2>1. UNCHANGED <<depositors, deposit, totalDeposits>>
      BY <1>2 DEF SocializeBadDebt, poolVars
    <2>2. SumFunctionOnSet(deposit, Accounts)' = SumFunctionOnSet(deposit, Accounts)
      BY <2>1
    <2>3. \A a \in Accounts : deposit'[a] <= deposit[a]
      BY <1>1, <2>1
    <2> QED
      BY <1>1, <1>2, <2>1, <2>2, <2>3
  <1>3. CASE loss > 0
    <2>1. totalDeposits \in Nat \ {0} /\ loss <= totalDeposits
      BY <1>1, <1>3
    <2>2. depositors # <<>>
      <3> SUFFICES ASSUME depositors = <<>> PROVE FALSE
        OBVIOUS
      <3>1. DOMAIN depositors = {}
        OBVIOUS
      <3>2. \A a \in Accounts : deposit[a] = 0
        BY <1>1, <3>1
      <3>3. SumFunctionOnSet(deposit, Accounts) = 0
        BY <3>2, SumZero
      <3> QED
        BY <1>1, <2>1, <3>3
    <2> DEFINE after == WriteOff(loss)
    <2>3. /\ deposit' = after.deposit
          /\ totalDeposits' = totalDeposits - (loss - after.left)
          /\ depositors' = depositors
      BY <1>3, <2>1, <2>2 DEF SocializeBadDebt
    <2>4. /\ after.left = 0
          /\ after.deposit \in [Accounts -> Nat]
          /\ SumFunctionOnSet(after.deposit, Accounts) = totalDeposits - loss
          /\ \A a \in Accounts :
                /\ Shares(loss)[a] <= deposit[a] - after.deposit[a]
                /\ deposit[a] - after.deposit[a]
                     <= Shares(loss)[a] + (loss - SumFunctionOnSet(Shares(loss), Accounts))
      BY <1>1, <2>1, WriteOffExact
    <2> HIDE DEF after
    <2>5. totalDeposits' = totalDeposits - loss /\ totalDeposits - loss \in Nat
      BY <1>1, <2>1, <2>3, <2>4
    <2>6. SumFunctionOnSet(deposit, Accounts)' = SumFunctionOnSet(after.deposit, Accounts)
      BY <2>3
    <2>7. Shares(loss) \in [Accounts -> Nat]
      BY <1>1, <2>1, SharesSmall
    <2>8. ASSUME NEW a \in Accounts PROVE deposit'[a] <= deposit[a]
      <3>1. Shares(loss)[a] \in Nat /\ deposit[a] \in Nat /\ after.deposit[a] \in Nat
            /\ Shares(loss)[a] <= deposit[a] - after.deposit[a]
        BY <1>1, <2>4, <2>7
      <3>2. deposit'[a] = after.deposit[a]
        BY <2>3
      <3> QED
        BY <3>1, <3>2
    <2>9. /\ deposit' \in [Accounts -> Nat]
          /\ \A a \in Accounts :
                   /\ Shares(loss)[a] <= deposit[a] - deposit'[a]
                   /\ deposit[a] - deposit'[a]
                        <= Shares(loss)[a] + (loss - SumFunctionOnSet(Shares(loss), Accounts))
      BY <2>3, <2>4
    <2>10. totalDeposits' = SumFunctionOnSet(deposit, Accounts)'
      BY <2>4, <2>5, <2>6
    <2> QED
      BY <2>3, <2>5, <2>8, <2>9, <2>10
  <1> QED
    BY <1>2, <1>3

(* The bookkeeping conclusion of a step, from what the step does to each part. *)
LEMMA AdminKeepsBooks ==
    ASSUME LoanInv, UNCHANGED <<poolVars, totalBorrowed, position, tokenVars>>, paused' \in BOOLEAN
    PROVE  PoolOK' /\ SumsBalance'
  <1>1. /\ UNCHANGED <<depositors, deposit, totalDeposits, totalBorrowed, position, debtHeld, collHeld>>
    BY DEF poolVars, tokenVars
  <1>2. PoolOK'
    BY <1>1 DEF LoanInv, PoolOK
  <1>3. SumsBalance'
    BY <1>1 DEF LoanInv, SumsBalance, Debts, Collaterals
  <1> QED
    BY <1>2, <1>3

LEMMA AppendKeepsRegistry ==
    ASSUME depositors \in Seq(Accounts), IsInjective(depositors), NEW d \in Accounts,
           ~ \E i \in DOMAIN depositors : depositors[i] = d
    PROVE  /\ Append(depositors, d) \in Seq(Accounts) /\ IsInjective(Append(depositors, d))
           /\ \A i \in DOMAIN depositors :
                i \in DOMAIN Append(depositors, d) /\ Append(depositors, d)[i] = depositors[i]
           /\ \E i \in DOMAIN Append(depositors, d) : Append(depositors, d)[i] = d
  <1> DEFINE s == Append(depositors, d)
             n == Len(depositors)
  <1>1. n \in Nat /\ DOMAIN depositors = 1 .. n
    OBVIOUS
  <1>2. s \in Seq(Accounts) /\ DOMAIN s = 1 .. n + 1 /\ s[n + 1] = d
        /\ \A i \in 1 .. n : s[i] = depositors[i]
    OBVIOUS
  <1>3. \A i, j \in 1 .. n : depositors[i] = depositors[j] => i = j
    BY <1>1 DEF IsInjective
  <1> HIDE DEF s, n
  <1>4. ASSUME NEW i \in 1 .. n + 1, NEW j \in 1 .. n + 1, s[i] = s[j]
        PROVE  i = j
    <2>1. (i \in 1 .. n \/ i = n + 1) /\ (j \in 1 .. n \/ j = n + 1)
      BY <1>1
    <2>2. CASE i \in 1 .. n /\ j \in 1 .. n
      BY <1>2, <1>3, <1>4, <2>2
    <2>3. CASE i \in 1 .. n /\ j = n + 1
      BY <1>1, <1>2, <1>4, <2>3
    <2>4. CASE i = n + 1 /\ j \in 1 .. n
      BY <1>1, <1>2, <1>4, <2>4
    <2> QED
      BY <2>1, <2>2, <2>3, <2>4
  <1>5. IsInjective(s)
    BY <1>2, <1>4 DEF IsInjective
  <1>6. n + 1 \in 1 .. n + 1 /\ \A i \in 1 .. n : i \in 1 .. n + 1
    BY <1>1
  <1> QED
    BY <1>1, <1>2, <1>5, <1>6 DEF s

LEMMA DepositKeepsBooks ==
    ASSUME LoanInv, IsFiniteSet(Accounts), NEW a \in Accounts, NEW amount \in Amounts,
           Deposit(a, amount)
    PROVE  PoolOK' /\ SumsBalance'
  <1>1. amount \in Nat /\ amount > 0
    BY LoanAssumption DEF Deposit
  <1>2. /\ depositors \in Seq(Accounts) /\ IsInjective(depositors)
        /\ deposit \in [Accounts -> Nat] /\ paused \in BOOLEAN
        /\ totalDeposits \in Nat /\ totalBorrowed \in Nat /\ debtHeld \in Nat /\ collHeld \in Nat
        /\ debtHeld = totalDeposits - totalBorrowed
        /\ totalDeposits = SumFunctionOnSet(deposit, Accounts)
        /\ \A x \in Accounts : deposit[x] > 0 => \E i \in DOMAIN depositors : depositors[i] = x
    BY DEF LoanInv, PoolOK, SumsBalance
  <1>3. /\ debtHeld' = debtHeld + amount
        /\ deposit' = [deposit EXCEPT ![a] = deposit[a] + amount]
        /\ depositors' = IF \E i \in DOMAIN depositors : depositors[i] = a
                       THEN depositors ELSE Append(depositors, a)
        /\ totalDeposits' = totalDeposits + amount
        /\ UNCHANGED <<paused, totalBorrowed, position, collHeld>>
    BY DEF Deposit, adminVars
  <1>4. deposit[a] \in Nat /\ deposit[a] + amount \in Nat
    BY <1>1, <1>2
  <1>5. /\ deposit' \in [Accounts -> Nat]
        /\ SumFunctionOnSet(deposit, Accounts)'
             = SumFunctionOnSet(deposit, Accounts) + ((deposit[a] + amount) - deposit[a])
    BY <1>2, <1>3, <1>4, DepositChange
  <1>6. totalDeposits' = SumFunctionOnSet(deposit, Accounts)'
    BY <1>1, <1>2, <1>3, <1>4, <1>5
  <1>7. /\ depositors' \in Seq(Accounts) /\ IsInjective(depositors)'
        /\ \A i \in DOMAIN depositors : i \in DOMAIN depositors' /\ depositors'[i] = depositors[i]
        /\ \E i \in DOMAIN depositors' : depositors'[i] = a
    <2>1. CASE \E i \in DOMAIN depositors : depositors[i] = a
      BY <1>2, <1>3, <2>1 DEF IsInjective
    <2>2. CASE ~ \E i \in DOMAIN depositors : depositors[i] = a
      <3>1. depositors' = Append(depositors, a)
        BY <1>3, <2>2
      <3>2. IsInjective(depositors)' <=> IsInjective(Append(depositors, a))
        BY <3>1 DEF IsInjective
      <3> QED
        BY <1>2, <2>2, <3>1, <3>2, AppendKeepsRegistry
    <2> QED
      BY <2>1, <2>2
  <1>8. ASSUME NEW x \in Accounts, deposit'[x] > 0
        PROVE  \E i \in DOMAIN depositors' : depositors'[i] = x
    <2>1. CASE x = a
      BY <1>7, <2>1
    <2>2. CASE x # a
      <3>1. deposit[x] > 0
        BY <1>2, <1>3, <1>8, <2>2
      <3>2. PICK i \in DOMAIN depositors : depositors[i] = x
        BY <1>2, <3>1
      <3> QED
        BY <1>7, <3>2
    <2> QED
      BY <2>1, <2>2
  <1>9. PoolOK'
    <2>1. debtHeld' \in Nat /\ totalDeposits' \in Nat /\ totalBorrowed' \in Nat /\ collHeld' \in Nat
          /\ paused' \in BOOLEAN
      <3>1. debtHeld' = debtHeld + amount /\ totalDeposits' = totalDeposits + amount
            /\ paused' = paused /\ totalBorrowed' = totalBorrowed /\ collHeld' = collHeld
        BY <1>3
      <3> QED
        BY <1>1, <1>2, <3>1
    <2> QED
      BY <1>5, <1>7, <2>1 DEF PoolOK
  <1>10. UNCHANGED <<Debts, Collaterals>>
    BY <1>3 DEF Debts, Collaterals
  <1>11. SumsBalance'
    <2>1. totalBorrowed = SumFunctionOnSet(Debts, Accounts) /\ collHeld = SumFunctionOnSet(Collaterals, Accounts)
      BY DEF LoanInv, SumsBalance
    <2>2. debtHeld' = totalDeposits' - totalBorrowed'
      BY <1>1, <1>2, <1>3
    <2>3. totalBorrowed' = SumFunctionOnSet(Debts, Accounts)' /\ collHeld' = SumFunctionOnSet(Collaterals, Accounts)'
      BY <1>3, <1>10, <2>1
    <2> QED
      BY <1>6, <1>8, <2>2, <2>3 DEF SumsBalance
  <1> QED
    BY <1>9, <1>11

LEMMA WithdrawKeepsBooks ==
    ASSUME LoanInv, IsFiniteSet(Accounts), NEW a \in Accounts, NEW amount \in Amounts,
           Withdraw(a, amount)
    PROVE  PoolOK' /\ SumsBalance'
  <1>1. amount \in Nat /\ amount <= deposit[a] /\ amount <= debtHeld
    BY LoanAssumption DEF Withdraw, LoanInv, PoolOK
  <1>2. /\ depositors \in Seq(Accounts) /\ IsInjective(depositors)
        /\ deposit \in [Accounts -> Nat] /\ paused \in BOOLEAN
        /\ totalDeposits \in Nat /\ totalBorrowed \in Nat /\ debtHeld \in Nat /\ collHeld \in Nat
        /\ debtHeld = totalDeposits - totalBorrowed
        /\ totalDeposits = SumFunctionOnSet(deposit, Accounts)
        /\ \A x \in Accounts : deposit[x] > 0 => \E i \in DOMAIN depositors : depositors[i] = x
    BY DEF LoanInv, PoolOK, SumsBalance
  <1>3. /\ debtHeld' = debtHeld - amount
        /\ deposit' = [deposit EXCEPT ![a] = deposit[a] - amount]
        /\ totalDeposits' = totalDeposits - amount
        /\ UNCHANGED <<paused, depositors, totalBorrowed, position, collHeld>>
    BY DEF Withdraw, adminVars
  <1>4. deposit[a] \in Nat /\ deposit[a] - amount \in Nat
    BY <1>1, <1>2
  <1>5. /\ deposit' \in [Accounts -> Nat]
        /\ SumFunctionOnSet(deposit, Accounts)'
             = SumFunctionOnSet(deposit, Accounts) + ((deposit[a] - amount) - deposit[a])
        /\ SumFunctionOnSet(deposit, Accounts)' \in Nat
    BY <1>2, <1>3, <1>4, DepositChange
  <1>6. totalDeposits' = SumFunctionOnSet(deposit, Accounts)'
    BY <1>1, <1>2, <1>3, <1>4, <1>5
  <1>7. ASSUME NEW x \in Accounts, deposit'[x] > 0
        PROVE  \E i \in DOMAIN depositors' : depositors'[i] = x
    <2>1. deposit[x] > 0
      BY <1>1, <1>2, <1>3, <1>4, <1>7
    <2> QED
      BY <1>2, <1>3, <2>1
  <1>8. PoolOK'
    <2>1. debtHeld' \in Nat /\ totalDeposits' \in Nat /\ totalBorrowed' \in Nat /\ collHeld' \in Nat
      BY <1>1, <1>2, <1>3, <1>5, <1>6
    <2>2. IsInjective(depositors)'
      BY <1>2, <1>3 DEF IsInjective
    <2> QED
      BY <1>2, <1>3, <1>5, <2>1, <2>2 DEF PoolOK
  <1>9. UNCHANGED <<Debts, Collaterals>>
    BY <1>3 DEF Debts, Collaterals
  <1>10. SumsBalance'
    <2>1. totalBorrowed = SumFunctionOnSet(Debts, Accounts) /\ collHeld = SumFunctionOnSet(Collaterals, Accounts)
      BY DEF LoanInv, SumsBalance
    <2>2. debtHeld' = totalDeposits' - totalBorrowed'
      BY <1>1, <1>2, <1>3
    <2>3. totalBorrowed' = SumFunctionOnSet(Debts, Accounts)' /\ collHeld' = SumFunctionOnSet(Collaterals, Accounts)'
      BY <1>3, <1>9, <2>1
    <2> QED
      BY <1>6, <1>7, <2>2, <2>3 DEF SumsBalance
  <1> QED
    BY <1>8, <1>10

(* A call that changes one position and moves as many tokens, deposits aside. *)
LEMMA PositionCallKeepsBooks ==
    ASSUME LoanInv, IsFiniteSet(Accounts), NEW a \in Accounts,
           NEW r \in [collateral : Nat, debt : Nat], position' = [position EXCEPT ![a] = r],
           UNCHANGED <<paused, poolVars>>,
           totalBorrowed' = totalBorrowed + (r.debt - position[a].debt),
           debtHeld' = debtHeld - (r.debt - position[a].debt), debtHeld' \in Nat,
           collHeld' = collHeld + (r.collateral - position[a].collateral)
    PROVE  PoolOK' /\ SumsBalance'
  <1>1. UNCHANGED <<depositors, deposit, totalDeposits>>
    BY DEF poolVars
  <1>2. /\ totalDeposits \in Nat /\ totalBorrowed \in Nat /\ debtHeld \in Nat /\ collHeld \in Nat
        /\ debtHeld = totalDeposits - totalBorrowed
        /\ totalBorrowed = SumFunctionOnSet(Debts, Accounts)
        /\ collHeld = SumFunctionOnSet(Collaterals, Accounts)
    BY DEF LoanInv, PoolOK, SumsBalance
  <1>3. position[a] \in [collateral : Nat, debt : Nat] /\ PositionsOK
    BY DEF LoanInv, PositionsOK
  <1>4. /\ SumFunctionOnSet(Debts, Accounts)'
                = SumFunctionOnSet(Debts, Accounts) + (r.debt - position[a].debt)
        /\ SumFunctionOnSet(Collaterals, Accounts)'
                = SumFunctionOnSet(Collaterals, Accounts) + (r.collateral - position[a].collateral)
        /\ SumFunctionOnSet(Debts, Accounts)' \in Nat
        /\ SumFunctionOnSet(Collaterals, Accounts)' \in Nat
    BY <1>3, PositionChange
  <1>5. /\ totalBorrowed' = SumFunctionOnSet(Debts, Accounts)'
        /\ collHeld' = SumFunctionOnSet(Collaterals, Accounts)'
    BY <1>2, <1>4
  <1>6. debtHeld' = totalDeposits' - totalBorrowed'
    <2>1. r.debt \in Nat /\ position[a].debt \in Nat
      BY <1>3
    <2> QED
      BY <1>1, <1>2, <2>1
  <1>7. SumFunctionOnSet(deposit, Accounts)' = SumFunctionOnSet(deposit, Accounts)
    BY <1>1
  <1>8. PoolOK'
    <2>1. totalBorrowed' \in Nat /\ collHeld' \in Nat /\ totalDeposits' \in Nat
      BY <1>1, <1>2, <1>4, <1>5
    <2>2. IsInjective(depositors)' /\ paused' \in BOOLEAN
          /\ depositors' \in Seq(Accounts) /\ deposit' \in [Accounts -> Nat]
      BY <1>1 DEF IsInjective, LoanInv, PoolOK
    <2> QED
      BY <2>1, <2>2 DEF PoolOK
  <1>9. SumsBalance'
    BY <1>1, <1>5, <1>6, <1>7 DEF LoanInv, SumsBalance
  <1> QED
    BY <1>8, <1>9

LEMMA PositionCallsKeepBooks ==
    ASSUME LoanInv, IsFiniteSet(Accounts), NEW a \in Accounts, NEW amount \in Amounts,
           \/ DepositCollateral(a, amount)
           \/ Repay(a, amount)
           \/ \E pc, pd \in Prices : Borrow(a, amount, pc, pd) \/ WithdrawCollateral(a, amount, pc, pd)
    PROVE  PoolOK' /\ SumsBalance'
  <1> DEFINE P == [collateral : Nat, debt : Nat]
             c == position[a].collateral
             d == position[a].debt
  <1>1. position[a] \in P /\ c \in Nat /\ d \in Nat /\ amount \in Nat
        /\ position \in [Accounts -> P]
    BY LoanAssumption DEF LoanInv, PositionsOK
  <1>2. debtHeld \in Nat /\ collHeld \in Nat /\ totalBorrowed \in Nat
    BY DEF LoanInv, PoolOK
  <1>3. CASE DepositCollateral(a, amount)
    <2> DEFINE r == [collateral |-> c + amount, debt |-> d]
    <2>0. [position[a] EXCEPT !.collateral = @ + amount] = r
      BY <1>1
    <2>1. position' = [position EXCEPT ![a] = r] /\ UNCHANGED <<paused, poolVars, totalBorrowed, debtHeld>>
          /\ collHeld' = collHeld + amount
      <3>1. position' = [position EXCEPT ![a] = [position[a] EXCEPT !.collateral = @ + amount]]
        BY <1>3 DEF DepositCollateral
      <3>2. UNCHANGED <<paused, poolVars, totalBorrowed, debtHeld>> /\ collHeld' = collHeld + amount
        BY <1>3 DEF DepositCollateral, adminVars
      <3> HIDE DEF r
      <3> QED
        BY <2>0, <3>1, <3>2
    <2>2. r \in P /\ r.debt = d /\ r.collateral = c + amount
      BY <1>1
    <2> HIDE DEF r
    <2>3. /\ totalBorrowed' = totalBorrowed + (r.debt - d)
          /\ debtHeld' = debtHeld - (r.debt - d) /\ debtHeld' \in Nat
          /\ collHeld' = collHeld + (r.collateral - c)
      <3> HIDE DEF c, d
      <3> QED
        BY <1>1, <1>2, <2>1, <2>2
    <2> QED
      BY <2>1, <2>2, <2>3, PositionCallKeepsBooks
  <1>4. CASE Repay(a, amount)
    <2> DEFINE paid == Least(amount, d)
               r == [collateral |-> c, debt |-> d - paid]
    <2>0. [position[a] EXCEPT !.debt = @ - paid] = r
      BY <1>1
    <2>1. position' = [position EXCEPT ![a] = r] /\ UNCHANGED <<paused, poolVars, collHeld>>
          /\ debtHeld' = debtHeld + paid /\ totalBorrowed' = totalBorrowed - paid
      <3>1. position' = [position EXCEPT ![a] = [position[a] EXCEPT !.debt = @ - paid]]
        BY <1>4 DEF Repay
      <3>2. UNCHANGED <<paused, poolVars, collHeld>>
            /\ debtHeld' = debtHeld + paid /\ totalBorrowed' = totalBorrowed - paid
        BY <1>4 DEF Repay, adminVars
      <3> HIDE DEF r, paid
      <3> QED
        BY <2>0, <3>1, <3>2
    <2>2. paid \in Nat /\ paid <= d
      BY <1>1, LeastNat
    <2>3. r \in P /\ r.debt = d - paid /\ r.collateral = c
      <3> HIDE DEF paid
      <3> QED
        BY <1>1, <2>2
    <2> HIDE DEF r, paid
    <2>4. /\ totalBorrowed' = totalBorrowed + (r.debt - d)
          /\ debtHeld' = debtHeld - (r.debt - d) /\ debtHeld' \in Nat
          /\ collHeld' = collHeld + (r.collateral - c)
      <3> HIDE DEF c, d
      <3> QED
        BY <1>1, <1>2, <2>1, <2>2, <2>3
    <2> QED
      BY <2>1, <2>3, <2>4, PositionCallKeepsBooks
  <1>5. CASE \E pc, pd \in Prices : Borrow(a, amount, pc, pd)
    <2> DEFINE r == [collateral |-> c, debt |-> d + amount]
    <2>1. position' = [position EXCEPT ![a] = r] /\ UNCHANGED <<paused, poolVars, collHeld>>
          /\ debtHeld' = debtHeld - amount /\ totalBorrowed' = totalBorrowed + amount
          /\ debtHeld >= amount
      BY <1>1, <1>5 DEF Borrow, adminVars
    <2>2. r \in P /\ r.debt = d + amount /\ r.collateral = c
      BY <1>1
    <2> HIDE DEF r
    <2>3. /\ totalBorrowed' = totalBorrowed + (r.debt - d)
          /\ debtHeld' = debtHeld - (r.debt - d) /\ debtHeld' \in Nat
          /\ collHeld' = collHeld + (r.collateral - c)
      <3> HIDE DEF c, d
      <3> QED
        BY <1>1, <1>2, <2>1, <2>2
    <2> QED
      BY <2>1, <2>2, <2>3, PositionCallKeepsBooks
  <1>6. CASE \E pc, pd \in Prices : WithdrawCollateral(a, amount, pc, pd)
    <2> DEFINE r == [collateral |-> c - amount, debt |-> d]
    <2>1. position' = [position EXCEPT ![a] = r] /\ UNCHANGED <<paused, poolVars, totalBorrowed, debtHeld>>
          /\ collHeld' = collHeld - amount /\ c >= amount
      BY <1>1, <1>6 DEF WithdrawCollateral, adminVars
    <2>2. r \in P /\ r.debt = d /\ r.collateral = c - amount
      BY <1>1, <2>1
    <2> HIDE DEF r
    <2>3. /\ totalBorrowed' = totalBorrowed + (r.debt - d)
          /\ debtHeld' = debtHeld - (r.debt - d) /\ debtHeld' \in Nat
          /\ collHeld' = collHeld + (r.collateral - c)
      <3> HIDE DEF c, d
      <3> QED
        BY <1>1, <1>2, <2>1, <2>2
    <2> QED
      BY <2>1, <2>2, <2>3, PositionCallKeepsBooks
  <1> QED
    BY <1>3, <1>4, <1>5, <1>6

(* What one liquidation does to the books and to the depositors. *)
LEMMA LiquidationStep ==
    ASSUME LoanInv, IsFiniteSet(Accounts), NEW l \in Accounts, NEW a \in Accounts,
           NEW mode \in Modes, NEW pc \in Prices, NEW pd \in Prices, Liquidate(l, a, mode, pc, pd)
    PROVE  /\ PoolOK' /\ SumsBalance'
           /\ \E loss \in Nat :
                /\ loss <= totalBorrowed
                /\ loss = (totalBorrowed - totalBorrowed') - (debtHeld' - debtHeld)
                /\ SocializeBadDebt(loss)
  <1> DEFINE P == [collateral : Nat, debt : Nat]
             c == position[a].collateral
             d == position[a].debt
             plan == ComputePlan(position[a], pc, pd, threshold, params, mode)
             r == [collateral |-> c - plan.seize, debt |-> d - plan.repay - plan.bad]
  <1>1. position[a] \in P /\ c \in Nat /\ d \in Nat /\ position \in [Accounts -> P] /\ PositionsOK
    BY DEF LoanInv, PositionsOK
  <1>2. /\ plan.repay \in Nat /\ plan.seize \in Nat /\ plan.bad \in Nat
        /\ plan.seize <= c /\ plan.repay + plan.bad <= d
    BY <1>1, PlanBounded DEF PositionsOK
  <1>3. /\ debtHeld' = debtHeld + plan.repay
        /\ collHeld' = collHeld - plan.seize
        /\ position' = [position EXCEPT ![a] = r]
        /\ totalBorrowed' = totalBorrowed - (plan.repay + plan.bad)
        /\ SocializeBadDebt(plan.bad)
        /\ paused' = paused
    BY DEF Liquidate, adminVars
  <1> HIDE DEF plan
  <1>4. r \in P /\ r.debt = d - plan.repay - plan.bad /\ r.collateral = c - plan.seize
    BY <1>1, <1>2
  <1> HIDE DEF r
  <1>5. /\ SumFunctionOnSet(Debts, Accounts)' = SumFunctionOnSet(Debts, Accounts) + (r.debt - d)
        /\ SumFunctionOnSet(Collaterals, Accounts)'
                = SumFunctionOnSet(Collaterals, Accounts) + (r.collateral - c)
        /\ SumFunctionOnSet(Debts, Accounts)' \in Nat
        /\ SumFunctionOnSet(Collaterals, Accounts)' \in Nat
        /\ d <= SumFunctionOnSet(Debts, Accounts)
    BY <1>1, <1>3, <1>4, PositionChange
  <1>6. /\ totalDeposits \in Nat /\ totalBorrowed \in Nat /\ debtHeld \in Nat /\ collHeld \in Nat
        /\ debtHeld = totalDeposits - totalBorrowed
        /\ totalBorrowed = SumFunctionOnSet(Debts, Accounts)
        /\ collHeld = SumFunctionOnSet(Collaterals, Accounts)
    BY DEF LoanInv, PoolOK, SumsBalance
  <1> HIDE DEF c, d
  <1>7. plan.bad <= totalBorrowed
    BY <1>1, <1>2, <1>5, <1>6
  <1>8. /\ depositors' = depositors
        /\ deposit' \in [Accounts -> Nat]
        /\ totalDeposits' = totalDeposits - plan.bad
        /\ totalDeposits' \in Nat
        /\ totalDeposits' = SumFunctionOnSet(deposit, Accounts)'
        /\ \A x \in Accounts : deposit'[x] <= deposit[x]
    BY <1>2, <1>3, <1>7, LossBorne
  <1>9. /\ totalBorrowed' = SumFunctionOnSet(Debts, Accounts)'
        /\ collHeld' = SumFunctionOnSet(Collaterals, Accounts)'
    BY <1>1, <1>2, <1>3, <1>4, <1>5, <1>6
  <1>10. debtHeld' = totalDeposits' - totalBorrowed'
    BY <1>2, <1>3, <1>6, <1>8
  <1>11. ASSUME NEW x \in Accounts, deposit'[x] > 0
         PROVE  \E i \in DOMAIN depositors' : depositors'[i] = x
    <2>1. deposit[x] \in Nat /\ deposit'[x] \in Nat /\ deposit'[x] <= deposit[x]
      BY <1>8 DEF LoanInv, PoolOK
    <2>2. deposit[x] > 0
      BY <1>11, <2>1
    <2>3. \E i \in DOMAIN depositors : depositors[i] = x
      BY <2>2 DEF LoanInv, SumsBalance
    <2> QED
      BY <1>8, <2>3
  <1>12. PoolOK'
    <2>1. totalBorrowed' \in Nat /\ collHeld' \in Nat /\ debtHeld' \in Nat
      BY <1>2, <1>3, <1>5, <1>6, <1>9
    <2>2. IsInjective(depositors)' /\ paused' \in BOOLEAN /\ depositors' \in Seq(Accounts)
      BY <1>3, <1>8 DEF IsInjective, LoanInv, PoolOK
    <2> QED
      BY <1>8, <2>1, <2>2 DEF PoolOK
  <1>13. SumsBalance'
    BY <1>8, <1>9, <1>10, <1>11 DEF SumsBalance
  <1>14. plan.bad = (totalBorrowed - totalBorrowed') - (debtHeld' - debtHeld)
    BY <1>2, <1>3, <1>6
  <1> QED
    BY <1>2, <1>3, <1>7, <1>12, <1>13, <1>14

LEMMA LoanInitial ==
    ASSUME Init, IsFiniteSet(Accounts)
    PROVE  LoanInv
  <1>1. PositionsOK
    BY LoanInitially
  <1>2. /\ depositors = <<>> /\ deposit = [a \in Accounts |-> 0]
        /\ totalDeposits = 0 /\ totalBorrowed = 0 /\ debtHeld = 0 /\ collHeld = 0 /\ paused = FALSE
        /\ position = [a \in Accounts |-> [collateral |-> 0, debt |-> 0]]
    BY DEF Init
  <1>3. IsInjective(<<>>) /\ <<>> \in Seq(Accounts)
    BY DEF IsInjective
  <1>4. PoolOK
    <2>1. deposit \in [Accounts -> Nat]
      BY <1>2
    <2>2. depositors \in Seq(Accounts) /\ IsInjective(depositors)
      BY <1>2, <1>3
    <2>3. totalDeposits \in Nat /\ totalBorrowed \in Nat /\ debtHeld \in Nat /\ collHeld \in Nat
      BY <1>2
    <2>4. paused \in BOOLEAN
      BY DEF Init
    <2> QED
      BY <2>1, <2>2, <2>3, <2>4 DEF PoolOK
  <1>5. \A a \in Accounts : deposit[a] = 0 /\ Debts[a] = 0 /\ Collaterals[a] = 0
    BY <1>2 DEF Debts, Collaterals
  <1>6. /\ SumFunctionOnSet(deposit, Accounts) = 0
        /\ SumFunctionOnSet(Debts, Accounts) = 0
        /\ SumFunctionOnSet(Collaterals, Accounts) = 0
    BY <1>5, SumZero
  <1>7. SumsBalance
    BY <1>2, <1>5, <1>6 DEF SumsBalance
  <1> QED
    BY <1>1, <1>4, <1>7 DEF LoanInv

LEMMA LoanPreserved ==
    ASSUME LoanInv, [Next]_vars, IsFiniteSet(Accounts)
    PROVE  LoanInv'
  <1>1. PositionsOK'
    BY PositionsStep DEF LoanInv
  <1>2. PoolOK' /\ SumsBalance'
    <2>1. CASE \E a, l \in Accounts, mode \in Modes, pc, pd \in Prices :
                 Liquidate(l, a, mode, pc, pd)
      BY <2>1, LiquidationStep, Zenon
    <2>2. CASE \E a \in Accounts, amount \in Amounts :
                 \/ DepositCollateral(a, amount)
                 \/ Repay(a, amount)
                 \/ \E pc, pd \in Prices :
                      Borrow(a, amount, pc, pd) \/ WithdrawCollateral(a, amount, pc, pd)
      BY <2>2, PositionCallsKeepBooks, Zenon
    <2>3. CASE \E a \in Accounts, amount \in Amounts : Deposit(a, amount)
      BY <2>3, DepositKeepsBooks, Zenon
    <2>4. CASE \E a \in Accounts, amount \in Amounts : Withdraw(a, amount)
      BY <2>4, WithdrawKeepsBooks, Zenon
    <2>5. CASE \/ \E thr \in Thresholds : SetMarket(thr)
               \/ \E p \in ParamChoices : SetLiqParams(p)
               \/ \E p \in BOOLEAN : SetPaused(p)
               \/ UNCHANGED vars
      <3>1. UNCHANGED <<poolVars, totalBorrowed, position, tokenVars>>
        BY <2>5 DEF SetMarket, SetLiqParams, SetPaused, vars
      <3>2. paused' \in BOOLEAN
        BY <2>5 DEF SetMarket, SetLiqParams, SetPaused, vars, adminVars, LoanInv, PoolOK
      <3> QED
        BY <3>1, <3>2, AdminKeepsBooks
    <2> QED
      BY <2>1, <2>2, <2>3, <2>4, <2>5 DEF Next
  <1> QED
    BY <1>1, <1>2 DEF LoanInv

(* The inductive invariant of the pool: positions and parameters in order, the
   registry without repetitions, and totals and holdings equal to sums. *)
THEOREM LoanInvariant == IsFiniteSet(Accounts) /\ Spec => []LoanInv
  <1> SUFFICES ASSUME IsFiniteSet(Accounts) PROVE Spec => []LoanInv
    OBVIOUS
  <1>1. Init => LoanInv
    BY LoanInitial
  <1>2. LoanInv /\ [Next]_vars => LoanInv'
    BY LoanPreserved
  <1> QED
    BY <1>1, <1>2, PTL DEF Spec

(* No balance, total, claim or position of the pool is ever below zero, though
   every subtraction in the code is one of signed integers. *)
THEOREM LoanTypeCorrect == IsFiniteSet(Accounts) /\ Spec => []LoanTypeOK
  <1>1. LoanInv => LoanTypeOK
    BY DEF LoanInv, LoanTypeOK
  <1> QED
    BY <1>1, LoanInvariant, PTL

(* The totals are the sums of what they total: whatever rounding a write-off
   does, no unit is lost or made. *)
THEOREM BooksAlwaysBalance == IsFiniteSet(Accounts) /\ Spec => []BooksBalance
  <1>1. LoanInv => BooksBalance
    BY SumsAreTotals DEF LoanInv
  <1> QED
    BY <1>1, LoanInvariant, PTL

(* The contract holds exactly the liquidity it believes to be free, and all the
   collateral of its borrowers. *)
THEOREM PoolAlwaysBacked == IsFiniteSet(Accounts) /\ Spec => []PoolBacked
  <1>1. LoanInv => PoolBacked
    BY SumsAreTotals DEF LoanInv
  <1> QED
    BY <1>1, LoanInvariant, PTL

(* Whatever is written off is shared: exactly that much leaves the deposits,
   from nobody less than his share rounded down, from nobody more than the
   rounding residual beyond it. *)
THEOREM LossesAlwaysShared == IsFiniteSet(Accounts) /\ Spec => LossesShared
  <1>1. ASSUME LoanInv, [Next]_vars, IsFiniteSet(Accounts)
        PROVE  [LossShared]_vars
    <2>1. CASE \E a, l \in Accounts, mode \in Modes, pc, pd \in Prices :
                 Liquidate(l, a, mode, pc, pd)
      <3> DEFINE loss == (totalBorrowed - totalBorrowed') - (debtHeld' - debtHeld)
                 share == [a \in Accounts |-> (deposit[a] * loss) \div totalDeposits]
      <3>1. loss \in Nat /\ loss <= totalBorrowed /\ SocializeBadDebt(loss)
        BY <1>1, <2>1, LiquidationStep, Zenon
      <3>2. share = Shares(loss)
        BY DEF Shares
      <3>3. Total(share) = SumFunctionOnSet(Shares(loss), Accounts)
        <4>1. DOMAIN share = Accounts
          OBVIOUS
        <4> HIDE DEF share, loss
        <4> QED
          BY <3>2, <4>1, TotalIsSum
      <3> HIDE DEF loss
      <3>4. CASE loss > 0
        <4>1. /\ totalDeposits' = totalDeposits - loss
              /\ \A a \in Accounts :
                   /\ Shares(loss)[a] <= deposit[a] - deposit'[a]
                   /\ deposit[a] - deposit'[a]
                        <= Shares(loss)[a] + (loss - SumFunctionOnSet(Shares(loss), Accounts))
          BY <1>1, <3>1, <3>4, LossBorne
        <4>2. totalDeposits - totalDeposits' = loss
          <5>1. totalDeposits \in Nat
            BY <1>1 DEF LoanInv, PoolOK
          <5> QED
            BY <3>1, <4>1, <5>1
        <4>3. \A a \in Accounts : Shares(loss)[a] = (deposit[a] * loss) \div totalDeposits
          BY DEF Shares
        <4>4. \A a \in Accounts :
                   /\ (deposit[a] * loss) \div totalDeposits <= deposit[a] - deposit'[a]
                   /\ deposit[a] - deposit'[a]
                        <= (deposit[a] * loss) \div totalDeposits + (loss - Total(share))
          BY <3>3, <4>1, <4>3, Zenon
        <4> QED
          BY <4>2, <4>4 DEF LossShared, loss, share
      <3>5. CASE ~ (loss > 0)
        BY <3>5 DEF LossShared, loss
      <3> QED
        BY <3>4, <3>5
    <2>2. CASE \E a \in Accounts, amount \in Amounts : Repay(a, amount)
      <3>1. PICK a \in Accounts, amount \in Amounts : Repay(a, amount)
        BY <2>2
      <3> DEFINE paid == Least(amount, position[a].debt)
      <3>2. paid \in Nat
        BY <1>1, LoanAssumption, LeastNat DEF LoanInv, PositionsOK
      <3>3. debtHeld' = debtHeld + paid /\ totalBorrowed' = totalBorrowed - paid
        BY <3>1 DEF Repay
      <3> HIDE DEF paid
      <3>4. debtHeld \in Nat /\ totalBorrowed \in Nat
        BY <1>1 DEF LoanInv, PoolOK
      <3>5. ~ ((totalBorrowed - totalBorrowed') - (debtHeld' - debtHeld) > 0)
        BY <3>2, <3>3, <3>4
      <3> QED
        BY <3>5 DEF LossShared
    <2>3. CASE \/ \E thr \in Thresholds : SetMarket(thr)
               \/ \E p \in ParamChoices : SetLiqParams(p)
               \/ \E p \in BOOLEAN : SetPaused(p)
               \/ \E a \in Accounts, amount \in Amounts :
                    \/ Deposit(a, amount)
                    \/ Withdraw(a, amount)
                    \/ DepositCollateral(a, amount)
                    \/ \E pc, pd \in Prices :
                         Borrow(a, amount, pc, pd) \/ WithdrawCollateral(a, amount, pc, pd)
      <3>1. totalBorrowed \in Nat /\ Amounts \subseteq Nat
        BY <1>1, LoanAssumption DEF LoanInv, PoolOK
      <3>2. ~ (totalBorrowed' < totalBorrowed)
        BY <2>3, <3>1 DEF SetMarket, SetLiqParams, SetPaused, Deposit, Withdraw, DepositCollateral,
                          Borrow, WithdrawCollateral
      <3> QED
        BY <3>2 DEF LossShared
    <2>4. CASE UNCHANGED vars
      BY <2>4
    <2> QED
      BY <1>1, <2>1, <2>2, <2>3, <2>4 DEF Next
  <1>2. IsFiniteSet(Accounts) /\ LoanInv /\ [Next]_vars => [LossShared]_vars
    BY <1>1
  <1> SUFFICES ASSUME IsFiniteSet(Accounts) PROVE Spec => LossesShared
    OBVIOUS
  <1>3. LoanInv /\ [Next]_vars => [LossShared]_vars
    BY <1>2
  <1>4. Spec => []LoanInv
    BY LoanInvariant
  <1> QED
    BY <1>3, <1>4, PTL DEF Spec, LossesShared

-----------------------------------------------------------------------------
(* The price feed.  The average divides what the accumulator gained since a
   snapshot by the time since; GrowthBounded bounds that gain, one observation
   after the other. *)

LEMMA Distributes ==
    ASSUME NEW p \in Int, NEW x \in Int, NEW y \in Int
    PROVE  p * (x + y) = p * x + p * y
  OBVIOUS

LEMMA ElementOf ==
    ASSUME NEW S, NEW s \in Seq(S), NEW i \in 1 .. Len(s)
    PROVE  s[i] \in S
  OBVIOUS

LEMMA Constants ==
    /\ MinPrice \in Nat /\ MaxPrice \in Nat /\ MinSpan \in Nat /\ MinSpan # 0
    /\ \A p \in RawPrices : p \in Int /\ (p > 0 => p \in MinPrice .. MaxPrice)
  BY FeedAssumption

(* A quotient lies between two bounds its dividend observes. *)
LEMMA QuotientBounded ==
    ASSUME NEW d \in Int, NEW s \in Nat \ {0}, NEW lo \in Nat, NEW hi \in Nat,
           lo * s <= d, d <= hi * s
    PROVE  d \div s \in Int /\ lo <= d \div s /\ d \div s <= hi
  <1> DEFINE q == d \div s
             r == d % s
  <1>1. q \in Int /\ r \in 0 .. s - 1 /\ d = s * q + r
    OBVIOUS
  <1> HIDE DEF q, r
  <1>2. lo <= q
    <2> SUFFICES ASSUME q + 1 <= lo PROVE FALSE
      BY <1>1
    <2>1. (q + 1) * s <= lo * s
      BY <1>1, Monotone
    <2>2. (q + 1) * s = s * q + s
      BY <1>1
    <2> QED
      BY <1>1, <2>1, <2>2
  <1>3. q <= hi
    <2> SUFFICES ASSUME hi + 1 <= q PROVE FALSE
      BY <1>1
    <2>1. (hi + 1) * s <= q * s
      BY <1>1, Monotone
    <2>2. (hi + 1) * s = hi * s + s /\ q * s = s * q
      BY <1>1
    <2> QED
      BY <1>1, <2>1, <2>2
  <1> QED
    BY <1>1, <1>2, <1>3 DEF q

LEMMA LeastIndex ==
    ASSUME NEW S, S \subseteq Nat, S # {}
    PROVE  \E x \in S : \A y \in S : x <= y
  <1> DEFINE R == {p \in Nat \X Nat : p[1] < p[2]}
  <1>1. IsWellFoundedOn(R, Nat)
    BY NatLessThanWellFounded DEF OpToRel
  <1> HIDE DEF R
  <1>2. PICK x \in S : \A y \in S : ~ (<<y, x>> \in R)
    BY <1>1, WFMin, Zenon
  <1>3. \A y \in S : <<y, x>> \notin R => x <= y
    BY SMT DEF R
  <1> QED
    BY <1>2, <1>3

-----------------------------------------------------------------------------
(* A valid answer of an oracle is in range. *)
LEMMA DirectInRange ==
    ASSUME NEW answer \in [{"primary", "secondary"} -> RawAnswers],
           DirectPrice(answer) # NoPrice
    PROVE  DirectPrice(answer) \in MinPrice .. MaxPrice
  <1>1. \A o \in {"primary", "secondary"} :
            ValidAnswer(answer[o]) => answer[o].price \in MinPrice .. MaxPrice
    <2> SUFFICES ASSUME NEW o \in {"primary", "secondary"}, ValidAnswer(answer[o])
                 PROVE  answer[o].price \in MinPrice .. MaxPrice
      OBVIOUS
    <2>1. answer[o] \in RawAnswers /\ answer[o].price > 0
      BY DEF ValidAnswer
    <2>2. answer[o].price \in RawPrices
      BY <2>1 DEF RawAnswers, Down, NoPrice
    <2> QED
      BY <2>1, <2>2, Constants
  <1> QED
    BY <1>1 DEF DirectPrice

(* What the accumulator has gained since a snapshot, carried on to now. *)
LEMMA GainBounded ==
    ASSUME FeedTypeOK, Unseeded, GrowthBounded, NEW i \in 1 .. Len(snapshots)
    PROVE  /\ Accumulated \in Nat
           /\ clock - snapshots[i].ts \in Nat
           /\ MinPrice * (clock - snapshots[i].ts) <= Accumulated - snapshots[i].cum
           /\ Accumulated - snapshots[i].cum <= MaxPrice * (clock - snapshots[i].ts)
  <1> DEFINE t == clock - lastTs
             age == lastTs - snapshots[i].ts
  <1>a. snapshots \in Seq([ts : Nat, cum : Nat])
    BY DEF FeedTypeOK
  <1>b. snapshots[i] \in [ts : Nat, cum : Nat]
    BY <1>a, ElementOf, Zenon
  <1>c. snapshots[i].ts \in Nat /\ snapshots[i].cum \in Nat
    BY <1>b
  <1>d. MinPrice \in Nat /\ MaxPrice \in Nat
    BY Constants
  <1>1. /\ snapshots[i].ts \in Nat /\ snapshots[i].cum \in Nat
        /\ t \in Nat /\ age \in Nat /\ clock - snapshots[i].ts = age + t
        /\ cumulative \in Nat /\ MinPrice \in Nat /\ MaxPrice \in Nat
    <2>1. /\ clock \in Nat /\ lastTs \in Nat /\ lastTs <= clock /\ cumulative \in Nat
          /\ snapshots[i].ts <= lastTs
      BY DEF FeedTypeOK, GrowthBounded
    <2> DEFINE x == snapshots[i].ts
    <2>2. x \in Nat /\ x <= lastTs
      BY <1>c, <2>1
    <2> HIDE DEF x
    <2>3. clock - lastTs \in Nat /\ lastTs - x \in Nat /\ clock - x = (lastTs - x) + (clock - lastTs)
      BY <2>1, <2>2
    <2> QED
      BY <1>c, <1>d, <2>1, <2>3 DEF x
  <1>2. snapshots # <<>>
    BY DEF FeedTypeOK
  <1>3. lastPrice \in MinPrice .. MaxPrice /\ lastPrice \in Nat
    BY <1>2, FeedAssumption DEF FeedTypeOK, Unseeded
  <1>4. MinPrice * t <= lastPrice * t /\ lastPrice * t <= MaxPrice * t
    <2>1. MinPrice \in Int /\ MaxPrice \in Int /\ lastPrice \in Int /\ t \in Nat
      BY <1>d, <1>1, <1>3
    <2>2. MinPrice <= lastPrice /\ lastPrice <= MaxPrice
      BY <1>d, <1>3
    <2> HIDE DEF t, age
    <2>3. MinPrice * t <= lastPrice * t
      BY <2>1, <2>2, Monotone, Zenon
    <2>4. lastPrice * t <= MaxPrice * t
      BY <2>1, <2>2, Monotone, Zenon
    <2> QED
      BY <2>3, <2>4, Zenon
  <1>5. /\ MinPrice * age <= cumulative - snapshots[i].cum
        /\ cumulative - snapshots[i].cum <= MaxPrice * age
    BY DEF GrowthBounded
  <1>6. /\ MinPrice * (age + t) = MinPrice * age + MinPrice * t
        /\ MaxPrice * (age + t) = MaxPrice * age + MaxPrice * t
    BY <1>1, Distributes
  <1>7. Accumulated = cumulative + lastPrice * t /\ lastPrice * t \in Nat
    BY <1>1, <1>3 DEF Accumulated
  <1>8. /\ MinPrice * age \in Int /\ MinPrice * t \in Int
        /\ MaxPrice * age \in Int /\ MaxPrice * t \in Int
    BY <1>1
  <1> HIDE DEF t, age
  <1>9. /\ MinPrice * (age + t) <= Accumulated - snapshots[i].cum
        /\ Accumulated - snapshots[i].cum <= MaxPrice * (age + t)
    <2> DEFINE a == MinPrice * age
               b == MinPrice * t
               c == MaxPrice * age
               d == MaxPrice * t
               e == lastPrice * t
    <2>1. /\ a \in Int /\ b \in Int /\ c \in Int /\ d \in Int /\ e \in Nat
          /\ b <= e /\ e <= d /\ Accumulated = cumulative + e
          /\ a <= cumulative - snapshots[i].cum /\ cumulative - snapshots[i].cum <= c
      BY <1>4, <1>5, <1>7, <1>8
    <2> HIDE DEF a, b, c, d, e
    <2> DEFINE y == snapshots[i].cum
    <2>x. y \in Int /\ cumulative \in Int /\ a <= cumulative - y /\ cumulative - y <= c
      BY <1>1, <2>1
    <2> HIDE DEF y
    <2>2. a + b <= Accumulated - y /\ Accumulated - y <= c + d
      BY ONLY <2>1, <2>x
    <2> QED
      BY <1>6, <2>2 DEF a, b, c, d, y
  <1> QED
    BY <1>1, <1>7, <1>9

(* The average is in range. *)
LEMMA TwapInRange ==
    ASSUME FeedTypeOK, Unseeded, GrowthBounded, TwapPrice # NoPrice
    PROVE  TwapPrice \in MinPrice .. MaxPrice
  <1> DEFINE i == CHOOSE j \in 1 .. Len(snapshots) : IsStart(j)
  <1>1. Len(snapshots) \in Nat /\ Len(snapshots) >= 2
    BY DEF FeedTypeOK, TwapPrice
  <1>2. \E j \in 1 .. Len(snapshots) : IsStart(j)
    <2>1. CASE \A j \in 1 .. Len(snapshots) : ~InWindow(j)
      BY <1>1, <2>1 DEF IsStart
    <2>2. CASE \E j \in 1 .. Len(snapshots) : InWindow(j)
      <3> DEFINE In == {j \in 1 .. Len(snapshots) : InWindow(j)}
      <3>1. \E j \in In : \A k \in In : j <= k
        <4>1. In \subseteq Nat /\ In # {}
          BY <1>1, <2>2
        <4> HIDE DEF In
        <4> QED
          BY <4>1, LeastIndex, Zenon
      <3>2. PICK j \in In : \A k \in In : j <= k
        BY <3>1
      <3> QED
        BY <1>1, <3>2 DEF IsStart
    <2> QED
      BY <2>1, <2>2
  <1>3. i \in 1 .. Len(snapshots) /\ Start = snapshots[i]
    BY <1>2 DEF Start
  <1> HIDE DEF i
  <1>4. Span \in Nat /\ Span # 0 /\ Delta \in Int
    <2>1. Accumulated \in Nat /\ clock - snapshots[i].ts \in Nat
      BY <1>3, GainBounded
    <2>2. Span \in Nat /\ ~ (Span < MinSpan)
      BY <1>3, <2>1 DEF Span, TwapPrice
    <2>3. snapshots[i] \in [ts : Nat, cum : Nat]
      BY <1>3, ElementOf, Zenon DEF FeedTypeOK
    <2>4. Delta \in Int
      BY <1>3, <2>1, <2>3 DEF Delta
    <2> QED
      BY <2>2, <2>4, Constants
  <1>5. MinPrice * Span <= Delta /\ Delta <= MaxPrice * Span
    BY <1>3, GainBounded DEF Span, Delta
  <1>6. TwapPrice = Delta \div Span
    BY DEF TwapPrice
  <1> QED
    BY <1>4, <1>5, <1>6, QuotientBounded, Constants

-----------------------------------------------------------------------------
(* What a snapshot must satisfy for the accumulator's value c at time t. *)
SnapshotOK(s, c, t) ==
    /\ s \in [ts : Nat, cum : Nat]
    /\ s.ts <= t
    /\ MinPrice * (t - s.ts) <= c - s.cum
    /\ c - s.cum <= MaxPrice * (t - s.ts)

(* The ring buffer after a snapshot holds old snapshots and the new one. *)
LEMMA RingMembers ==
    ASSUME NEW S, NEW ring \in Seq(S), NEW s \in S
    PROVE  /\ Keep(Append(ring, s)) \in Seq(S)
           /\ \A i \in 1 .. Len(Keep(Append(ring, s))) :
                 \/ Keep(Append(ring, s))[i] = s
                 \/ \E j \in 1 .. Len(ring) : Keep(Append(ring, s))[i] = ring[j]
  <1> DEFINE long == Append(ring, s)
  <1>1. long \in Seq(S) /\ Len(long) = Len(ring) + 1 /\ Len(ring) \in Nat
    OBVIOUS
  <1>2. \A i \in 1 .. Len(long) : long[i] = s \/ \E j \in 1 .. Len(ring) : long[i] = ring[j]
    OBVIOUS
  <1> HIDE DEF long
  <1>3. long # <<>>
    BY <1>1
  <1>4. Tail(long) \in Seq(S) /\ Len(Tail(long)) = Len(long) - 1
    BY <1>1, <1>3
  <1>5. \A i \in 1 .. Len(Tail(long)) : Tail(long)[i] = long[i + 1] /\ i + 1 \in 1 .. Len(long)
    BY <1>1, <1>3, <1>4
  <1>6. CASE Keep(long) = long
    BY <1>1, <1>2, <1>6 DEF long
  <1>7. CASE Keep(long) = Tail(long)
    <2>1. \A i \in 1 .. Len(Tail(long)) :
            Tail(long)[i] = s \/ \E j \in 1 .. Len(ring) : Tail(long)[i] = ring[j]
      BY <1>2, <1>5
    <2> QED
      BY <1>4, <1>7, <2>1 DEF long
  <1> QED
    BY <1>6, <1>7 DEF Keep

LEMMA FeedInitially == FeedInit => FeedInv
  BY Constants DEF FeedInit, FeedInv, FeedTypeOK, Unseeded, GrowthBounded, PriceInRange, NoPrice

(* Recording an observation keeps the growth bounded. *)
LEMMA RecordKeepsGrowth ==
    ASSUME FeedInv, NEW price \in MinPrice .. MaxPrice, RecordObservation(price)
    PROVE  /\ lastTs' = clock /\ lastPrice' = price
           /\ cumulative' \in Nat /\ lastSnapshotTs' \in Nat
           /\ snapshots' \in Seq([ts : Nat, cum : Nat])
           /\ \A i \in 1 .. Len(snapshots') : SnapshotOK(snapshots'[i], cumulative', clock)
  <1> USE DEF FeedInv
  <1>1. lastTs' = clock /\ lastPrice' = price
    BY DEF RecordObservation
  <1>2. /\ clock \in Nat /\ lastTs \in Nat /\ lastTs <= clock
        /\ cumulative \in Nat /\ lastSnapshotTs \in Nat
        /\ snapshots \in Seq([ts : Nat, cum : Nat])
    BY DEF FeedTypeOK
  <1>3. CASE lastPrice = NoPrice \/ lastTs >= clock
    <2>1. UNCHANGED <<cumulative, lastSnapshotTs, snapshots>>
      BY <1>3 DEF RecordObservation
    <2>2. snapshots = <<>> \/ lastTs = clock
      BY <1>2, <1>3 DEF Unseeded
    <2>3. \A i \in 1 .. Len(snapshots) : SnapshotOK(snapshots[i], cumulative, clock)
      <3> SUFFICES ASSUME NEW i \in 1 .. Len(snapshots)
                   PROVE  SnapshotOK(snapshots[i], cumulative, clock)
        OBVIOUS
      <3>1. lastTs = clock
        BY <1>2, <2>2
      <3>2. snapshots[i] \in [ts : Nat, cum : Nat]
        BY <1>2, ElementOf, Zenon
      <3> QED
        BY <3>1, <3>2 DEF GrowthBounded, SnapshotOK
    <2> QED
      BY <1>1, <1>2, <2>1, <2>3
  <1>4. CASE ~ (lastPrice = NoPrice \/ lastTs >= clock)
    <2> DEFINE new == [ts |-> clock, cum |-> Accumulated]
    <2>1. cumulative' = Accumulated
      BY <1>4 DEF RecordObservation
    <2>2. Accumulated \in Nat
      <3>1. lastPrice \in Nat /\ clock - lastTs \in Nat
        BY <1>2, <1>4, Constants DEF FeedTypeOK
      <3> QED
        BY <1>2, <3>1 DEF Accumulated
    <2>3. \A i \in 1 .. Len(snapshots) : SnapshotOK(snapshots[i], Accumulated, clock)
      <3> SUFFICES ASSUME NEW i \in 1 .. Len(snapshots)
                   PROVE  SnapshotOK(snapshots[i], Accumulated, clock)
        OBVIOUS
      <3>1. snapshots[i] \in [ts : Nat, cum : Nat]
        BY <1>2, ElementOf, Zenon
      <3>2. snapshots[i].ts <= clock
        BY <1>2, <3>1 DEF GrowthBounded
      <3> QED
        BY <3>1, <3>2, GainBounded DEF SnapshotOK
    <2>4. new \in [ts : Nat, cum : Nat] /\ SnapshotOK(new, Accumulated, clock)
      <3>1. clock - new.ts = 0 /\ Accumulated - new.cum = 0 /\ new \in [ts : Nat, cum : Nat]
        BY <1>2, <2>2
      <3>2. MinPrice * 0 = 0 /\ MaxPrice * 0 = 0
        BY Constants
      <3>3. new.ts <= clock
        BY <1>2
      <3> HIDE DEF new
      <3> QED
        BY <3>1, <3>2, <3>3 DEF SnapshotOK
    <2>5. CASE SnapshotDue
      <3>1. snapshots' = Keep(Append(snapshots, new)) /\ lastSnapshotTs' = clock
        BY <1>4, <2>5 DEF RecordObservation
      <3> HIDE DEF new
      <3>2. /\ snapshots' \in Seq([ts : Nat, cum : Nat])
            /\ \A i \in 1 .. Len(snapshots') :
                  snapshots'[i] = new \/ \E j \in 1 .. Len(snapshots) : snapshots'[i] = snapshots[j]
        <4> DEFINE S == [ts : Nat, cum : Nat]
        <4>1. snapshots \in Seq(S) /\ new \in S
          BY <1>2, <2>4
        <4> HIDE DEF S
        <4>2. /\ Keep(Append(snapshots, new)) \in Seq(S)
              /\ \A i \in 1 .. Len(Keep(Append(snapshots, new))) :
                    \/ Keep(Append(snapshots, new))[i] = new
                    \/ \E j \in 1 .. Len(snapshots) :
                         Keep(Append(snapshots, new))[i] = snapshots[j]
          BY ONLY <4>1, RingMembers
        <4> QED
          BY <3>1, <4>2 DEF S
      <3>3. \A i \in 1 .. Len(snapshots') : SnapshotOK(snapshots'[i], Accumulated, clock)
        BY <2>3, <2>4, <3>2, Zenon
      <3> QED
        BY <1>1, <1>2, <2>1, <2>2, <3>1, <3>2, <3>3
    <2>6. CASE ~SnapshotDue
      <3>1. UNCHANGED <<lastSnapshotTs, snapshots>>
        BY <1>4, <2>6 DEF RecordObservation
      <3> QED
        BY <1>1, <1>2, <2>1, <2>2, <2>3, <3>1
    <2> QED
      BY <2>5, <2>6
  <1> QED
    BY <1>3, <1>4

LEMMA ResolveDirectKeeps == FeedInv /\ ResolveDirect => FeedInv'
  <1> SUFFICES ASSUME FeedInv, ResolveDirect PROVE FeedInv'
    OBVIOUS
  <1>1. PICK answer \in [{"primary", "secondary"} -> RawAnswers] :
            /\ DirectPrice(answer) # NoPrice
            /\ RecordObservation(DirectPrice(answer))
            /\ resolved' = DirectPrice(answer)
            /\ clock' = clock
    BY DEF ResolveDirect
  <1> DEFINE price == DirectPrice(answer)
  <1>2. price \in MinPrice .. MaxPrice
    BY <1>1, DirectInRange
  <1>3. RecordObservation(price) /\ resolved' = price /\ clock' = clock
    BY <1>1
  <1> HIDE DEF price
  <1>4. /\ lastTs' = clock /\ lastPrice' = price
        /\ cumulative' \in Nat /\ lastSnapshotTs' \in Nat
        /\ snapshots' \in Seq([ts : Nat, cum : Nat])
        /\ \A i \in 1 .. Len(snapshots') : SnapshotOK(snapshots'[i], cumulative', clock)
    BY <1>2, <1>3, RecordKeepsGrowth
  <1>5. clock \in Nat /\ price \in Nat /\ price # NoPrice
    <2>1. clock \in Nat
      BY DEF FeedInv, FeedTypeOK
    <2>2. price \in Nat /\ price # NoPrice
      BY <1>2, FeedAssumption DEF NoPrice
    <2> QED
      BY <2>1, <2>2
  <1>6. FeedTypeOK'
    BY <1>2, <1>3, <1>4, <1>5 DEF FeedTypeOK
  <1>7. Unseeded' /\ PriceInRange'
    BY <1>2, <1>3, <1>4, <1>5, Constants DEF Unseeded, PriceInRange, NoPrice
  <1>8. GrowthBounded'
    BY <1>4 DEF GrowthBounded, SnapshotOK
  <1> QED
    BY <1>6, <1>7, <1>8 DEF FeedInv

LEMMA ResolveTwapKeeps == FeedInv /\ ResolveTwap => FeedInv'
  <1> SUFFICES ASSUME FeedInv, ResolveTwap PROVE FeedInv'
    OBVIOUS
  <1>1. /\ TwapPrice # NoPrice /\ resolved' = TwapPrice /\ UNCHANGED <<clock, twapVars>>
    BY DEF ResolveTwap
  <1>2. TwapPrice \in MinPrice .. MaxPrice
    BY <1>1, TwapInRange DEF FeedInv
  <1>3. UNCHANGED <<clock, lastTs, lastPrice, cumulative, lastSnapshotTs, snapshots>>
    BY <1>1 DEF twapVars
  <1>4. FeedTypeOK' /\ PriceInRange'
    BY <1>1, <1>2, <1>3, Constants DEF FeedInv, FeedTypeOK, PriceInRange
  <1>5. Unseeded' /\ GrowthBounded'
    BY <1>3 DEF FeedInv, Unseeded, GrowthBounded
  <1> QED
    BY <1>4, <1>5 DEF FeedInv

LEMMA ElapseKeeps == FeedInv /\ (Elapse \/ UNCHANGED feedVars) => FeedInv'
  <1> SUFFICES ASSUME FeedInv, Elapse \/ UNCHANGED feedVars PROVE FeedInv'
    OBVIOUS
  <1>1. UNCHANGED <<lastTs, lastPrice, cumulative, lastSnapshotTs, snapshots>>
    BY DEF Elapse, feedVars, twapVars
  <1>2. clock' \in {clock, clock + 1} /\ resolved' \in {NoPrice, resolved}
    BY DEF Elapse, feedVars
  <1>3. FeedTypeOK' /\ PriceInRange'
    BY <1>1, <1>2 DEF FeedInv, FeedTypeOK, PriceInRange, NoPrice
  <1>4. Unseeded' /\ GrowthBounded'
    BY <1>1 DEF FeedInv, Unseeded, GrowthBounded
  <1> QED
    BY <1>3, <1>4 DEF FeedInv

(* Every price the chain resolves lies in the range of the oracles' valid
   answers, for all windows, cadences and histories. *)
THEOREM FeedInRange == FeedSpec => []PriceInRange
  <1>1. FeedInit => FeedInv
    BY FeedInitially
  <1>2. FeedInv /\ [FeedNext]_feedVars => FeedInv'
    BY ResolveDirectKeeps, ResolveTwapKeeps, ElapseKeeps DEF FeedNext
  <1>3. FeedInv => PriceInRange
    BY DEF FeedInv
  <1> QED
    BY <1>1, <1>2, <1>3, PTL DEF FeedSpec

-----------------------------------------------------------------------------
(* Snapshots lie at least an interval apart and the buffer never overflows. *)
RingSpaced ==
    /\ Len(snapshots) <= MaxSnapshots
    /\ snapshots # <<>> => lastSnapshotTs = snapshots[Len(snapshots)].ts
    /\ \A i, j \in 1 .. Len(snapshots) :
         i <= j => snapshots[j].ts - snapshots[i].ts >= (j - i) * SnapshotInterval

SpacedRing(ring) ==
    \A i, j \in 1 .. Len(ring) : i <= j => ring[j].ts - ring[i].ts >= (j - i) * SnapshotInterval

LEMMA AppendedRing ==
    ASSUME NEW S, NEW ring \in Seq(S), NEW s \in S
    PROVE  /\ Append(ring, s) \in Seq(S) /\ Append(ring, s) # <<>>
           /\ Len(ring) \in Nat /\ Len(Append(ring, s)) = Len(ring) + 1
           /\ Append(ring, s)[Len(ring) + 1] = s
           /\ \A i \in 1 .. Len(ring) : Append(ring, s)[i] = ring[i] /\ ring[i] \in S
  OBVIOUS

LEMMA AppendSpaced ==
    ASSUME NEW ring \in Seq([ts : Nat, cum : Nat]), SpacedRing(ring), NEW s \in [ts : Nat, cum : Nat],
           ring # <<>> => s.ts >= ring[Len(ring)].ts + SnapshotInterval
    PROVE  SpacedRing(Append(ring, s))
  <1> DEFINE long == Append(ring, s)
             n == Len(ring)
  <1>1. n \in Nat /\ Len(long) = n + 1 /\ long[n + 1] = s /\ SnapshotInterval \in Nat
        /\ \A i \in 1 .. n : long[i] = ring[i] /\ ring[i] \in [ts : Nat, cum : Nat]
    <2> DEFINE S == [ts : Nat, cum : Nat]
    <2>1. ring \in Seq(S) /\ s \in S
      OBVIOUS
    <2>2. SnapshotInterval \in Nat
      BY FeedAssumption
    <2> HIDE DEF S
    <2>3. n \in Nat /\ Len(long) = n + 1 /\ long[n + 1] = s
          /\ \A i \in 1 .. n : long[i] = ring[i] /\ ring[i] \in S
      BY <2>1, AppendedRing
    <2> QED
      BY <2>2, <2>3 DEF S
  <1>2. n > 0 => s.ts >= ring[n].ts + SnapshotInterval
    OBVIOUS
  <1>3. \A i, j \in 1 .. n : i <= j => ring[j].ts - ring[i].ts >= (j - i) * SnapshotInterval
    BY DEF SpacedRing
  <1>4. s.ts \in Nat /\ \A i \in 1 .. n : ring[i].ts \in Nat
    BY <1>1
  <1> HIDE DEF long, n
  <1>5. ASSUME NEW i \in 1 .. n + 1, NEW j \in 1 .. n + 1, i <= j
        PROVE  long[j].ts - long[i].ts >= (j - i) * SnapshotInterval
    <2>1. CASE j \in 1 .. n
      <3>1. i \in 1 .. n
        BY <1>1, <1>5, <2>1
      <3> QED
        BY <1>1, <1>3, <1>5, <2>1, <3>1
    <2>2. CASE i = n + 1
      <3>1. j = i /\ (j - i) * SnapshotInterval = 0
        BY <1>1, <1>5, <2>2
      <3>2. long[j].ts - long[i].ts = 0
        BY <1>1, <1>4, <2>2, <3>1
      <3> QED
        BY <3>1, <3>2
    <2>3. CASE i \in 1 .. n /\ j = n + 1
      <3>1. n \in 1 .. n /\ i <= n /\ n > 0
        BY <1>1, <2>3
      <3>2. ring[n].ts - ring[i].ts >= (n - i) * SnapshotInterval
        BY <1>3, <2>3, <3>1
      <3>3. (j - i) * SnapshotInterval = (n - i) * SnapshotInterval + SnapshotInterval
        <4>1. (j - i) = (n - i) + 1 /\ n - i \in Int
          BY <1>1, <2>3
        <4> QED
          BY <1>1, <4>1
      <3>4. long[j].ts = s.ts /\ long[i].ts = ring[i].ts
        BY <1>1, <2>3
      <3>5. s.ts >= ring[n].ts + SnapshotInterval /\ ring[n].ts \in Nat /\ ring[i].ts \in Nat
        BY <1>2, <1>4, <2>3, <3>1
      <3>6. (n - i) * SnapshotInterval \in Int
        BY <1>1, <2>3
      <3> QED
        <4> DEFINE gap == (n - i) * SnapshotInterval
                   x == s.ts
                   y == ring[n].ts
                   z == ring[i].ts
        <4>1. /\ gap \in Int /\ x \in Nat /\ y \in Nat /\ z \in Nat /\ SnapshotInterval \in Nat
              /\ y - z >= gap /\ x >= y + SnapshotInterval
          BY <1>1, <1>4, <3>2, <3>5, <3>6
        <4> HIDE DEF gap, x, y, z
        <4>2. x - z >= gap + SnapshotInterval
          BY <4>1
        <4> QED
          BY <3>3, <3>4, <4>2 DEF gap, x, z
    <2> QED
      BY <1>1, <2>1, <2>2, <2>3
  <1> QED
    BY <1>1, <1>5 DEF SpacedRing, long

LEMMA TailSpaced ==
    ASSUME NEW ring \in Seq([ts : Nat, cum : Nat]), SpacedRing(ring), ring # <<>>
    PROVE  /\ SpacedRing(Tail(ring))
           /\ Len(Tail(ring)) = Len(ring) - 1
           /\ Tail(ring) # <<>> => Tail(ring)[Len(Tail(ring))] = ring[Len(ring)]
  <1> DEFINE short == Tail(ring)
             n == Len(ring)
  <1>1. n \in Nat /\ n > 0 /\ Len(short) = n - 1 /\ \A i \in 1 .. n - 1 : short[i] = ring[i + 1]
    OBVIOUS
  <1>2. \A i, j \in 1 .. n : i <= j => ring[j].ts - ring[i].ts >= (j - i) * SnapshotInterval
    BY DEF SpacedRing
  <1>3. short # <<>> => Len(short) > 0
    OBVIOUS
  <1> HIDE DEF short, n
  <1>4. ASSUME NEW i \in 1 .. n - 1, NEW j \in 1 .. n - 1, i <= j
        PROVE  short[j].ts - short[i].ts >= (j - i) * SnapshotInterval
    <2>1. i + 1 \in 1 .. n /\ j + 1 \in 1 .. n /\ i + 1 <= j + 1 /\ (j + 1) - (i + 1) = j - i
      BY <1>1, <1>4
    <2>2. ring[j + 1].ts - ring[i + 1].ts >= ((j + 1) - (i + 1)) * SnapshotInterval
      BY <1>2, <2>1
    <2> QED
      BY <1>1, <2>1, <2>2
  <1>5. short # <<>> => short[Len(short)] = ring[n]
    BY <1>1, <1>3
  <1> QED
    BY <1>1, <1>4, <1>5 DEF SpacedRing, short, n

LEMMA RecordKeepsSpacing ==
    ASSUME FeedTypeOK, Unseeded, GrowthBounded, RingSpaced, NEW price, RecordObservation(price)
    PROVE  RingSpaced'
  <1>1. /\ clock \in Nat /\ snapshots \in Seq([ts : Nat, cum : Nat]) /\ Len(snapshots) \in Nat
        /\ SnapshotInterval \in Nat /\ MaxSnapshots \in Nat
    BY FeedAssumption DEF FeedTypeOK
  <1>2. SpacedRing(snapshots)
    BY DEF RingSpaced, SpacedRing
  <1>3. CASE UNCHANGED <<lastSnapshotTs, snapshots>>
    BY <1>3 DEF RingSpaced
  <1>4. CASE ~ UNCHANGED <<lastSnapshotTs, snapshots>>
    <2> DEFINE new == [ts |-> clock, cum |-> Accumulated]
               long == Append(snapshots, new)
    <2>1. snapshots' = Keep(long) /\ lastSnapshotTs' = clock /\ SnapshotDue
          /\ lastPrice # NoPrice
      BY <1>4 DEF RecordObservation
    <2>2. new \in [ts : Nat, cum : Nat] /\ new.ts = clock
      <3>1. Accumulated \in Nat
        <4>1. lastPrice \in Nat /\ clock - lastTs \in Nat /\ cumulative \in Nat
          BY <2>1, Constants DEF FeedTypeOK
        <4> QED
          BY <4>1 DEF Accumulated
      <3> QED
        BY <1>1, <3>1
    <2> HIDE DEF new
    <2>3. snapshots # <<>> => new.ts >= snapshots[Len(snapshots)].ts + SnapshotInterval
      BY <2>1, <2>2 DEF SnapshotDue, RingSpaced
    <2>4. /\ SpacedRing(long) /\ long \in Seq([ts : Nat, cum : Nat]) /\ long # <<>>
          /\ Len(long) = Len(snapshots) + 1 /\ long[Len(long)] = new
      <3>1. SpacedRing(long)
        BY <1>1, <1>2, <2>2, <2>3, AppendSpaced
      <3> QED
        <4> DEFINE S == [ts : Nat, cum : Nat]
        <4>1. snapshots \in Seq(S) /\ new \in S
          BY <1>1, <2>2
        <4> HIDE DEF S
        <4>2. /\ long \in Seq(S) /\ long # <<>> /\ Len(long) = Len(snapshots) + 1
              /\ long[Len(snapshots) + 1] = new
          BY <4>1, AppendedRing
        <4> HIDE DEF long
        <4> QED
          BY <3>1, <4>2 DEF S
    <2> HIDE DEF long
    <2>5. CASE Len(long) > MaxSnapshots
      <3>1. snapshots' = Tail(long)
        BY <2>1, <2>5 DEF Keep
      <3>2. /\ SpacedRing(Tail(long)) /\ Len(Tail(long)) = Len(long) - 1
            /\ Tail(long) # <<>> => Tail(long)[Len(Tail(long))] = long[Len(long)]
        BY <2>4, TailSpaced
      <3>3. Len(snapshots) <= MaxSnapshots
        BY DEF RingSpaced
      <3>4. Len(snapshots') <= MaxSnapshots
        BY <1>1, <2>4, <3>1, <3>2, <3>3
      <3>5. snapshots' # <<>> => lastSnapshotTs' = snapshots'[Len(snapshots')].ts
        BY <2>1, <2>2, <2>4, <3>1, <3>2
      <3>6. \A i, j \in 1 .. Len(snapshots') :
              i <= j => snapshots'[j].ts - snapshots'[i].ts >= (j - i) * SnapshotInterval
        BY <3>1, <3>2 DEF SpacedRing
      <3> QED
        BY <3>4, <3>5, <3>6 DEF RingSpaced
    <2>6. CASE ~ (Len(long) > MaxSnapshots)
      <3>1. snapshots' = long
        BY <2>1, <2>6 DEF Keep
      <3>2. Len(snapshots') <= MaxSnapshots
        BY <1>1, <2>4, <2>6, <3>1
      <3>3. snapshots' # <<>> => lastSnapshotTs' = snapshots'[Len(snapshots')].ts
        BY <2>1, <2>2, <2>4, <3>1
      <3>4. \A i, j \in 1 .. Len(snapshots') :
              i <= j => snapshots'[j].ts - snapshots'[i].ts >= (j - i) * SnapshotInterval
        BY <2>4, <3>1 DEF SpacedRing
      <3> QED
        BY <3>2, <3>3, <3>4 DEF RingSpaced
    <2> QED
      BY <2>5, <2>6
  <1> QED
    BY <1>3, <1>4

(* A full ring buffer of the price feed reaches back over the whole averaging
   window, so dropping its oldest entry never shortens an average. *)
THEOREM RingAlwaysCovers == FeedSpec => []RingCoversWindow
  <1>1. FeedInit => FeedInv /\ RingSpaced
    <2> SUFFICES ASSUME FeedInit PROVE FeedInv /\ RingSpaced
      OBVIOUS
    <2>1. FeedInv
      BY FeedInitially
    <2>2. snapshots = <<>> /\ Len(<<>>) = 0 /\ 1 .. 0 = {} /\ MaxSnapshots \in Nat
      BY FeedAssumption DEF FeedInit
    <2> QED
      BY <2>1, <2>2 DEF RingSpaced
  <1>2. (FeedInv /\ RingSpaced) /\ [FeedNext]_feedVars => (FeedInv /\ RingSpaced)'
    <2> SUFFICES ASSUME FeedInv, RingSpaced, [FeedNext]_feedVars PROVE (FeedInv /\ RingSpaced)'
      OBVIOUS
    <2>1. FeedInv'
      BY ResolveDirectKeeps, ResolveTwapKeeps, ElapseKeeps DEF FeedNext
    <2>2. CASE ResolveDirect
      <3>1. PICK price : RecordObservation(price)
        BY <2>2 DEF ResolveDirect
      <3> QED
        BY <2>1, <3>1, RecordKeepsSpacing DEF FeedInv
    <2>3. CASE ResolveTwap \/ Elapse \/ UNCHANGED feedVars
      <3>1. UNCHANGED <<lastSnapshotTs, snapshots>>
        BY <2>3 DEF ResolveTwap, Elapse, feedVars, twapVars
      <3>2. RingSpaced'
        BY <3>1 DEF RingSpaced
      <3> QED
        BY <2>1, <3>2
    <2> QED
      BY <2>2, <2>3 DEF FeedNext
  <1>3. FeedInv /\ RingSpaced => RingCoversWindow
    <2> SUFFICES ASSUME FeedInv, RingSpaced, Len(snapshots) = MaxSnapshots
                 PROVE  snapshots[Len(snapshots)].ts - snapshots[1].ts >= Window
      BY DEF RingCoversWindow
    <2>1. 1 \in 1 .. Len(snapshots) /\ Len(snapshots) \in 1 .. Len(snapshots) /\ 1 <= Len(snapshots)
      BY FeedAssumption
    <2>2. snapshots[Len(snapshots)].ts - snapshots[1].ts >= (Len(snapshots) - 1) * SnapshotInterval
      BY <2>1 DEF RingSpaced
    <2>3. snapshots[1].ts \in Nat /\ snapshots[Len(snapshots)].ts \in Nat
      <3> DEFINE S == [ts : Nat, cum : Nat]
      <3>1. snapshots \in Seq(S)
        BY DEF FeedInv, FeedTypeOK
      <3> HIDE DEF S
      <3>2. snapshots[1] \in S /\ snapshots[Len(snapshots)] \in S
        BY <2>1, <3>1, ElementOf
      <3> QED
        BY <3>2 DEF S
    <2>4. (MaxSnapshots - 1) * SnapshotInterval >= Window
      BY RingAssumption
    <2>5. (MaxSnapshots - 1) * SnapshotInterval \in Int /\ Window \in Int
      BY FeedAssumption
    <2> QED
      BY <2>2, <2>3, <2>4, <2>5
  <1> QED
    BY <1>1, <1>2, <1>3, PTL DEF FeedSpec
=============================================================================
