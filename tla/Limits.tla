------------------------------- MODULE Limits -------------------------------
(* The rate limits of the settlement contract (contracts/chainsetttle/src/lib.rs):
   the circuit breaker over everything paid out, the outflow limit of a payee,
   the spending limit of a buyer, the limit on shipments created per supplier
   and the one on a supplier's cancellations.

   Each is a gauge: a limit, the length of its window, and the usage counted
   since the window was opened.  A limit of 0 switches the gauge off.  Calls are
   reduced to what they charge to which gauges; a call one gauge refuses is
   rolled back whole, so it charges none. *)
EXTENDS Naturals, FiniteSets, Functions

CONSTANTS
    Payees, Payers,     \* suppliers paid; buyers committing escrow
    Everyone,           \* the subject of the circuit breaker
    Caps, Spans,        \* limits and window lengths configured
    Cooldowns,          \* cooldowns of the cancellation limit
    Sums,               \* amounts paid or committed by a call
    MaxHeight,          \* bound on the ledger sequence
    MaxSettings         \* bound on the configurations of a behaviour

ASSUME LimitAssumption ==
    /\ Caps \cup Spans \cup Cooldowns \cup Sums \subseteq Nat
    /\ 0 \notin Sums /\ {MaxHeight, MaxSettings} \subseteq Nat

Breaker == <<"breaker", Everyone>>
Outflow(s) == <<"outflow", s>>
Spending(b) == <<"spending", b>>
Creation(s) == <<"creation", s>>
Cancels(s) == <<"cancel", s>>
Gauges == {Breaker} \cup {Outflow(s) : s \in Payees} \cup {Spending(b) : b \in Payers}
            \cup {Creation(s) : s \in Payees} \cup {Cancels(s) : s \in Payees}

VARIABLES
    height,         \* env.ledger().sequence()
    gauge,          \* configuration and usage of each gauge
    exempt,         \* RateLimitExempt
    cooldown,       \* the cooldown configured for each supplier's cancellations
    coolUntil,      \* SupplierCancelCooldownUntil
    flow,           \* history: charged per ledger since the gauge was configured
                    \* (with a window of 0 each charge opens its own, nothing is kept)
    barred,         \* history: where the cooldown earned last should end
    settings        \* configurations so far

limitVars == <<height, gauge, exempt, cooldown, coolUntil, flow, barred, settings>>
cancelVars == <<cooldown, coolUntil, barred>>

Unused == [k \in 0..MaxHeight |-> 0]

LimitTick ==
    /\ height < MaxHeight /\ height' = height + 1
    /\ UNCHANGED <<gauge, exempt, flow, cancelVars, settings>>

-----------------------------------------------------------------------------
(* Charging a gauge. *)

On(g) == gauge[g].limit # 0

(* The window is over; a creation window opens with the first creation in it. *)
Lapsed(g) ==
    \/ gauge[g].used = 0 /\ g \in {Creation(s) : s \in Payees}
    \/ height >= gauge[g].start + gauge[g].window

UsedNow(g) == IF Lapsed(g) THEN 0 ELSE gauge[g].used

Admits(g, n) == On(g) => UsedNow(g) + n <= gauge[g].limit

(* Mutant: usage is reset, the window is not opened anew. *)
ChargedInOldWindow(g, n) == [gauge[g] EXCEPT !.used = UsedNow(g) + n]

Charged(g, n) ==
    [gauge[g] EXCEPT !.start = IF Lapsed(g) THEN height ELSE @, !.used = UsedNow(g) + n]

(* Charge costs[g] to each gauge g of a call, or to none. *)
Charge(costs) ==
    LET hit == {g \in DOMAIN costs : On(g)}
    IN  /\ \A g \in hit : Admits(g, costs[g])
        /\ gauge' = [g \in Gauges |-> IF g \in hit THEN Charged(g, costs[g]) ELSE gauge[g]]
        /\ flow' = [g \in Gauges |->
              IF g \in hit /\ gauge[g].window > 0 THEN [flow[g] EXCEPT ![height] = @ + costs[g]]
                                                  ELSE flow[g]]

(* Every call that pays a supplier: the breaker is asked first, then the payee's
   own limit. *)
Payment(s, n) ==
    /\ Charge([g \in {Breaker, Outflow(s)} |-> n])
    /\ UNCHANGED <<height, exempt, cancelVars, settings>>

(* create_shipment: the buyer's commitment and the supplier's creation count. *)
CommitShipment(b, s, n) ==
    /\ Charge([g \in {Spending(b)} \cup (IF s \in exempt THEN {} ELSE {Creation(s)}) |->
                  IF g = Spending(b) THEN n ELSE 1])
    /\ UNCHANGED <<height, exempt, cancelVars, settings>>

(* top_up_escrow, and the buyer's payment for an added milestone. *)
TopUpEscrow(b, n) ==
    /\ Charge([g \in {Spending(b)} |-> n])
    /\ UNCHANGED <<height, exempt, cancelVars, settings>>

CancelAsSupplier(s) ==
    /\ coolUntil[s] <= height
    /\ Charge([g \in {Cancels(s)} |-> 1])
    /\ UNCHANGED <<height, exempt, cancelVars, settings>>

(* One cancellation too many: the cooldown is stored and the call panics, which
   undoes the store. *)
CancelRefused(s) ==
    /\ coolUntil[s] <= height /\ ~Admits(Cancels(s), 1)
    /\ barred' = [barred EXCEPT ![s] = height + cooldown[s]]
    /\ UNCHANGED <<height, gauge, exempt, flow, cooldown, coolUntil, settings>>

-----------------------------------------------------------------------------
(* Configuration, by the admin at any time. *)

Setting == settings < MaxSettings /\ settings' = settings + 1

Configured(g, limit, window) ==
    /\ Setting
    /\ gauge' = [gauge EXCEPT ![g].limit = limit, ![g].window = window]
    /\ flow' = [flow EXCEPT ![g] = Unused]

(* set_circuit_breaker, set_address_outflow_limit: the window starts over. *)
Restarted(g, limit, window) ==
    /\ Setting
    /\ gauge' = [gauge EXCEPT ![g] = [limit |-> limit, window |-> window, start |-> height, used |-> 0]]
    /\ flow' = [flow EXCEPT ![g] = Unused]

SetCircuitBreaker(limit, window) ==
    Restarted(Breaker, limit, window) /\ UNCHANGED <<height, exempt, cancelVars>>

SetAddressOutflowLimit(s, limit, window) ==
    Restarted(Outflow(s), limit, window) /\ UNCHANGED <<height, exempt, cancelVars>>

(* execute_param_change of circuit_breaker_limit: the usage stays. *)
ChangeBreakerLimit(limit) ==
    /\ Configured(Breaker, limit, gauge[Breaker].window)
    /\ UNCHANGED <<height, exempt, cancelVars>>

SetBuyerSpendingLimit(b, limit, window) ==
    Configured(Spending(b), limit, window) /\ UNCHANGED <<height, exempt, cancelVars>>

(* One configuration for all suppliers; the usage of each stays. *)
SetCreationRateLimit(limit, window) ==
    /\ Setting /\ (limit # 0 => window # 0)
    /\ gauge' = [g \in Gauges |-> IF g \in {Creation(s) : s \in Payees}
                                  THEN [gauge[g] EXCEPT !.limit = limit, !.window = window]
                                  ELSE gauge[g]]
    /\ flow' = [g \in Gauges |-> IF g \in {Creation(s) : s \in Payees} THEN Unused ELSE flow[g]]
    /\ UNCHANGED <<height, exempt, cancelVars>>

AddRateLimitExemption(s) ==
    exempt' = exempt \cup {s} /\ UNCHANGED <<height, gauge, flow, cancelVars, settings>>
RemoveRateLimitExemption(s) ==
    exempt' = exempt \ {s} /\ UNCHANGED <<height, gauge, flow, cancelVars, settings>>

SetSupplierCancelCooldown(s, limit, window, n) ==
    /\ Configured(Cancels(s), limit, window)
    /\ cooldown' = [cooldown EXCEPT ![s] = n] /\ barred' = [barred EXCEPT ![s] = 0]
    /\ UNCHANGED <<height, exempt, coolUntil>>

-----------------------------------------------------------------------------
LimitsInit ==
    /\ height = 0 /\ exempt = {}
    /\ gauge = [g \in Gauges |-> [limit |-> 0, window |-> 0, start |-> 0, used |-> 0]]
    /\ cooldown = [s \in Payees |-> 0] /\ coolUntil = [s \in Payees |-> 0]
    /\ barred = [s \in Payees |-> 0] /\ settings = 0 /\ flow = [g \in Gauges |-> Unused]

OutflowNext ==
    \/ LimitTick
    \/ \E s \in Payees, n \in Sums : Payment(s, n)
    \/ \E limit \in Caps, window \in Spans :
          \/ SetCircuitBreaker(limit, window)
          \/ \E s \in Payees : SetAddressOutflowLimit(s, limit, window)
    \/ \E limit \in Caps : ChangeBreakerLimit(limit)

CommitmentNext ==
    \/ LimitTick
    \/ \E b \in Payers, n \in Sums :
          \/ TopUpEscrow(b, n)
          \/ \E s \in Payees : CommitShipment(b, s, n)
    \/ \E limit \in Caps, window \in Spans :
          \/ SetCreationRateLimit(limit, window)
          \/ \E b \in Payers : SetBuyerSpendingLimit(b, limit, window)
    \/ \E s \in Payees : AddRateLimitExemption(s) \/ RemoveRateLimitExemption(s)

CancelNext ==
    \/ LimitTick
    \/ \E s \in Payees :
          \/ CancelAsSupplier(s) \/ CancelRefused(s)
          \/ \E limit \in Caps, window \in Spans, n \in Cooldowns :
                SetSupplierCancelCooldown(s, limit, window, n)

LimitsNext == OutflowNext \/ CommitmentNext \/ CancelNext
LimitsSpec == LimitsInit /\ [][LimitsNext]_limitVars

-----------------------------------------------------------------------------
(* Windows open where the first charge after the last one falls, so two bursts
   around a boundary may both pass, but never a third: over any stretch of
   ledgers as long as a gauge's window no more than twice its limit is charged,
   whatever was counted when it was configured. *)
BurstBounded == \A g \in {x \in Gauges : On(x) /\ gauge[x].window > 0} :
    \A first \in 0..MaxHeight :
        LET stretch == {k \in 0..MaxHeight : k >= first /\ k < first + gauge[g].window}
        IN  SumFunctionOnSet(flow[g], stretch) <= 2 * gauge[g].limit

(* A supplier refused for cancelling too often cancels nothing more until the
   configured cooldown has elapsed (the doc comment of
   set_supplier_cancel_cooldown). *)
CooldownHonoured ==
    [][\A s \in Payees : CancelAsSupplier(s) => height >= barred[s]]_limitVars
=============================================================================
