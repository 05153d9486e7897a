# ChainSettle escrow: TLA+ models and proofs

ChainSettle (`contracts/chainsetttle`) is a Soroban smart contract that holds a
buyer's payment for a shipment in escrow and releases it milestone by milestone.
A second contract (`contracts/loan_manager`) lends a debt token against collateral.  This
directory holds the formal models of the repository: what is modelled, how it is
checked with TLC, what is proved with TLAPS and what is left.

Line numbers below are those of `contracts/chainsetttle/src/lib.rs` unless
another file is named.

## 1. The system

### Execution model

A contract call is a transaction: it runs alone, and a panic rolls back every
storage write and token transfer it made.  So there is no interleaving *inside* an
entry point; the behaviours that make this system hard are interleavings of
*calls* by different parties (buyer, supplier, arbiter, backup arbiter, oracles,
admin, anyone), spread over ledgers, through windows that open and close with the
ledger number and the timestamp, over about five hundred storage keys and one token
balance that all shipments share.

### Components

| Component | State | Operations | Correct when | Status |
| --- | --- | --- | --- | --- |
| Escrow, proofs, confirmation | `Shipment`, `Milestone`, `TotalEscrowed`, token balance | `create_shipment` 7543, `submit_proof` 9789, `confirm_milestone` 10617, `release_held_payment` 11097, `batch_confirm_milestones` 11313, `claim_auto_confirmation` 14303 | each weight leaves once; a shipment never draws on another's deposit; completes with its last milestone | `ShipmentEscrow` |
| Disputes | dispute keys (`DisputeOpenedAt`, `DisputeResolvedAtLedger`, `DisputeAppealed`, `DisputeContestedPercent`, `PendingSplit`), `open_dispute_count`, `ActiveDisputes` | `raise_dispute` 11528, `raise_partial_dispute` 11784, `withdraw_dispute` 20551, `resolve_dispute` 12083, `resolve_dispute_split` 12539, `finalize_dispute_resolution` 12982, `appeal_dispute` 13176, `resolve_dispute_timeout` 14693 | counters and lists agree with the milestones; a ruling is paid once, appealed at most once; nobody's silence blocks | `ShipmentEscrow` |
| Oracle groups | `ConditionBreachReports`, attestations | `report_condition_breach` 15948, `attest` 15662, group management 15390 | threshold met once opens one dispute | breach reports in `ShipmentEscrow` |
| Early closing | status, remainder | `cancel_shipment` 13538, `supplier_cancel` 13684, `claim_deadline_refund` 16046, `emergency_recover` 14608; also `claim_expired_refund` 15783, refund sweep 16167, blacklisted-supplier cancel 4410 | the unsettled remainder goes back once, nothing moves afterwards | first four in `ShipmentEscrow`, with sweep and blacklisted-supplier cancel in `Treasury` |
| Pause and compliance | `Paused`, `OperationPaused`, `ComplianceHold`; also pause notice, per-shipment pause 18005, emergency freeze 2543 | `pause` 2443, `set_operation_paused` 2481, `set_compliance_hold` 18180, ballots on the freeze | what is paused does not move | first three in `ShipmentEscrow`, freeze in `Multisig`, per-shipment pause in `Consents` |
| Indexes and statistics | `ShipmentsByStatus`, `ContractStats`; also buyer, supplier, arbiter, metadata indexes, archive 18593 | every settling call | each shipment in the list of its status | status index in `ShipmentEscrow` |
| Mediation, arbiter pool, panels | proposals and acceptances 14979, pool and recent arbiters 6922, panel and votes 7138, 17205 | propose, accept; add, slash, recuse; `assign_dispute_panel`, `cast_dispute_vote` | no stale acceptance settles; seats and verdicts are fair | `Arbitration`, `Consents` |
| Collateral, vaults, standing orders, dust | collateral 4209-4620, `VaultBalance` 3621-3690, `StandingOrder` 3818-3985, `TotalEscrowed`, `TotalVaulted` | lock, top up, slash, return; deposit, withdraw, fund; run an order; `withdraw_treasury_dust` 3573 | the running totals and the one balance agree; an order keeps its pace | `Treasury` |
| Milestone shape | merge, split 4734-5180, append 8575, records under an index 5541; rebalance 9246 | propose, accept | records follow their milestone, worth is kept | `MilestoneTerms` |
| Governance | multisig 2207-2960, 3359; timelock 17088, recovery 17820, roles 2347, admin handover 14555 | propose, approve, execute, cancel | decided once, by enough, not too early | `Multisig`, `Timelocks` |
| Limits | circuit breaker 19871, outflow 20740, spending and creation limits 8906-9016, cancellations 9137-9230; also TVL 16966, depeg 16894 | charged by payments and creations | windows do not leak at their boundary | the first four in `Limits` |
| Agreements | rotation 14213, amendments, extensions 6637, expiry 15805, substitution 16713, pause 18024, party transfer 13972; also shipment split 23733, earliest proof ledgers 24034 | propose, accept, refuse | only what both sides agreed to, as they then were, takes effect | all but the last two (section 6) in `Consents` |
| Blacklist | flag, appeal, auto-blacklist 6003 | set, clear, appeal | | not modelled |
| Fees | tiers, recipients 21023 | every payment | parts add up | not modelled (waiver ballot in `Multisig`, dust in `Treasury`) |
| Custody log, paged migration | `custody_log.rs`, `paged_migration.rs` | record, verify; start, chunk, abort | the verdict on the chain; each item once | `CustodyLog`, `PagedMigration` |
| Queries, metadata, observers, events, tiers, reputation | | read only, or scores | | not modelled |
| Loan manager | positions, deposits, market, price observations in `loan_manager/src` | deposit, borrow, repay, liquidate; resolve a price | books balance, losses shared, prices in range | `LoanManager`, `PriceFeed` |

Interaction is by shared storage: every component reads and writes the `Shipment`
record, the active-disputes list and the contract's token balance.  There are no
callbacks besides the token contract's `transfer`.  The protocols around a
shipment (ballots, agreements, panels, limits) meet the escrow only where one of
their decisions is carried out.  `custody_log.rs`, `paged_migration.rs` and
`supplier_voluntary_refund.rs` are not declared as modules of the crate, so the
compiled contract does not contain them; the first two are modelled as the
libraries they are.  The two contracts do not call each other.

### What is hard here

* **Windows that must be in order.** Confirmation cooldown, review
  (auto-confirmation) window, holdback, dispute filing window, finality delay,
  appeal window, dispute timeout are set by different setters.  Nothing checks that a payment waits
  for the appeal window to pass.
* **Bookkeeping by hand.** `open_dispute_count`, `ActiveDisputes`,
  `ShipmentsByStatus`, `released_amount` and `TotalEscrowed` are each updated in
  every entry point that should.
* **Per-shipment fields with per-milestone meaning**: one `arbiter` for all
  milestones, one `last_dispute_resolved_ledger`.
* **One token balance** for all deposits, bonds, pools and collateral.
* **Silence**: a buyer who never confirms, an arbiter who never rules.
* **Consents that outlive what they were given for**: a proposal waits under a
  key while its terms are renewed, the parties change, or a dispute ends.
* **Records under an index** that must move when milestones are merged, split or
  added.
* **Rounding**: supermajorities, weights of a larger total, liquidations and
  write-offs.

`PROJECT.json` lists these hazards one by one with their lines.

## 2. The modules

| Module | Role |
| --- | --- |
| `ShipmentEscrow` | the core: state, one action per entry point, properties, faulty variants |
| `EscrowPromise` | abstract specification: deposits, settled weights, pool |
| `EscrowRefinement` | `ShipmentEscrow` implements `EscrowPromise` (refinement mapping) |
| `MCShipmentEscrow` | values of functional constants, views and symmetry for TLC |
| `ShipmentEscrowProofs` | lemmas on the operators, type correctness (TLAPS) |
| `ShipmentSettlementProofs` | no weight is paid twice (TLAPS) |
| `ShipmentLifecycleProofs` | statuses, rulings, counters, the dispute list and the buyer's cap (TLAPS) |
| `ShipmentFundsProofs` | the books of every shipment, the shared balance, and the refinement of `EscrowPromise` (TLAPS) |
| `SumTheorems` | lemmas on sums over finite sets and on folds over sequences, for the modules below and above (TLAPS) |
| `Treasury` | one token of the contract: escrow, vaults, collateral, dust, standing orders |
| `Consents` | what the parties change by agreement, while the parties themselves change |
| `MilestoneTerms` | merge, split and append of milestones and the records under an index |
| `Arbitration` | arbiter pool, round robin, panels and votes |
| `Limits` | circuit breaker and rate limits as gauges with windows |
| `Multisig` | ballots, admin actions, admin handover |
| `Timelocks` | parameter queue, recoveries, lapsing roles |
| `GovernanceProofs` | the invariants of the two (TLAPS) |
| `CustodyLog` | the hand-over log and its verification |
| `PagedMigration` | the resumable migration |
| `ProtocolProofs` | the invariants of `PagedMigration`, `CustodyLog`, `Treasury`, `Consents`, `Limits`, `Arbitration` and `MilestoneTerms` (TLAPS) |
| `MCProtocols` | the nine modules above for TLC, one part of one of them per behaviour |
| `LoanManager`, `PriceFeed` | the lending pool; the failover price feed |
| `LendingProofs` | the liquidation, the pool's books, the write-off, the feed and its ring (TLAPS) |
| `MCLoanManager` | pool and feed for TLC |

`LoanManager` and `PriceFeed` are put together by assume and guarantee: the pool
takes any prices from a set of positive ones, and the feed is shown to resolve
nothing else.  `MCProtocols` runs one part at a time because the parts share no
state their properties depend on; a product would only multiply the states.

### State of `ShipmentEscrow` and the code

| Variable | Code |
| --- | --- |
| `now` | `env.ledger().sequence()` and `timestamp()`, which advance together |
| `paused`, `operationPaused`, `complianceHold` | `Paused`, `OperationPaused(op)`, `ComplianceHold(id)` |
| `status`, `arbiter`, `openDisputes`, `lastResolved`, `createdAt`, `released` | fields of `Shipment` (`"None"`: no record) |
| `mstatus`, `proofLedger`, `releaseAfter` | fields of `Milestone` (absent ledger: 0) |
| `submittedAt`, `evidence` | `V1ProofSubmittedAt`, the length of the evidence list |
| `openedAt`, `resolvedAt`, `appealed`, `contested`, `pendingSplit`, `reports` | `DisputeOpenedAt`, `DisputeResolvedAtLedger`, `DisputeAppealed`, `DisputeContestedPercent`, `PendingSplit`, `ConditionBreachReports` |
| `activeDisputes` | how often `ActiveDisputes` lists the milestone |
| `statusIndex`, `completedShipments` | `ShipmentsByStatus`, `ContractStats.completed_shipments` |
| `totalEscrowed`, `balance` | `TotalEscrowed(token)`, the contract's token balance |
| `paid`, `refunded`, `ruledBy` | history variables: no action reads them |

Each action is one entry point.  Its guards are the entry point's panics, in
conjunction: a call that panics changes nothing.  Operators shared by several
actions (`PayOut`, `CompleteIfDone`, `OpenDispute`, `CloseDispute`, `CloseEarly`,
`PruneAuxiliary`) stand for code the entry points share, or repeat.  `confirm_milestone` is two actions,
`ConfirmMilestone` and `HoldMilestone`, one for each value of the holdback;
`resolve_dispute_timeout` is `HandOffToBackup` and `ResolveDisputeTimeout`.

What the code does and one might not expect is kept: `batch_confirm_milestones`
pays a repeated index twice and ignores holdback, review window, compliance hold
and penalty; `release_held_payment` pays the full gross whatever the penalty;
`report_condition_breach` leaves an older ruling appealable; `appeal_dispute`
neither relists the dispute nor renews its timeout; the timeout checks completion
before it stores the milestone; a parked partial ruling is finalized at full gross.

### State of the other modules and the code

| Module | Variables and what they stand for |
| --- | --- |
| `Treasury` | `balance`, `totalEscrowed`, `totalVaulted`, `vault`: the token balance, `TotalEscrowed`, `TotalVaulted`, `VaultBalance`; `ships`: per shipment what the books need (status, milestones released, collateral, refund recipient); `order`: a `StandingOrder`; `held`, `ruled`, `swept`, `lastRun`: history |
| `Consents` | `buyers`, `supplier`: fields of `Shipment`; `offer`: the stored proposal of each of seven kinds; `inForce`: the terms agreed last; `deadline`, `adjusted`, `expiresAt`, `extended`, `pausedAt`, `asks`: the ledgers and counters agreements change; `given`, `effect`: history |
| `MilestoneTerms` | `list`, `total`, `weights`: `Shipment.milestones`, `total_amount`, `MilestoneSplits`; `keyed`: for the keys of `per_milestone_keys` and for `ShipmentBolHash`, the milestone each record was made for; `disputes`: the shipment's `ActiveDisputes`; `merge`, `split`, `append`: pending proposals |
| `Arbitration` | `pool`, `poolIdx`, `unavailable`, `slashed`, `recent`: the pool and its guards; `panel`, `escalated`, `votes`: the panel of the shipment, the escalation and the votes of a milestone; `rulings`: whether a milestone's dispute was ruled or appealed (`DisputeResolvedAtLedger`, `DisputeAppealed`); `drawn`, `verdict`, `cast`, `seated`: history |
| `Limits` | `gauge`: limit, window, start and usage of each limiter; `coolUntil`: `SupplierCancelCooldownUntil`; `flow`, `barred`: history |
| `Multisig` | `pending`: open ballots of every kind; `counter`: the proposal counters (freeze and unfreeze share one); `actionApprovals`: `AdminApprovals`; `wasm`, `frozen`, `waiver`: what ballots change; `decided`, `closed`: history |
| `Timelocks` | `queue`: `PendingParamChange`; `proposal`: `PendingRecovery`; `granted`, `expiry`: `UserRole`, `RoleExpiry`; `asked`, `enacted`, `paidOut`, `lastGrant`: history |
| `CustodyLog`, `PagedMigration` | the log and its limit; the progress record, with `touched`, how often each item was treated, as history |
| `LoanManager` | `position`, `deposit`, `depositors`, totals, `threshold`, `params`: the storage of the pool; `debtHeld`, `collHeld`: its balances of the two tokens |
| `PriceFeed` | `lastTs`, `lastPrice`, `cumulative`, `snapshots`, `lastSnapshotTs`: `TwapState`; `resolved`: the answer of the last call |

### Abstractions

* A milestone's *weight* is its share of the deposit.  The division of a payment
  among supplier, payees, platform, logistics, referrer and arbiter, and of a
  refund between buyers and cancellation fee, is left out: the whole payment is one
  outflow, so statements are about the escrow and not about who receives.
* A shipment opts into nothing: no advances, co-buyer, inspection, oracle
  attestation, grades, partial quantities, retainage, warranty, collateral, bonus
  pool, panel or mediator, so that their guards are true and their transfers zero.
* The fast-track exemption from the cooldown is not granted.  `effective` windows and per-shipment
  overrides are the constants themselves.
* All shipments have one buyer and one configuration.  Settings do not change during
  a run: the constants of a configuration stand for the admin's choice.
* The rule that picks a pool arbiter on appeal is a free choice among
  the pool members other than the present arbiter.
* `correct_proof` replaces a hash the model does not carry: a stuttering step.

The other modules abstract as follows.

* `Treasury` counts milestones as units of one price; timed-out, split and partial
  disputes are left to the core.  A ruling does not lower `TotalEscrowed`, here as
  in the code, so `TreasuryExact` says by exactly how much the total is too large.
* `Consents` has one shipment with one milestone, and agreed terms are model
  values: the new arbiter or the amendment themselves decide nothing in it.
* `MilestoneTerms` sorts the keys `per_milestone_keys` lists into two classes, those that
  keep a milestone from being merged or split and the rest.  The one key under an index
  that it does not list and that a live call stores, `ShipmentBolHash`, is a class of its
  own, which nothing moves.  Of the vectors with one
  entry per milestone it has the payout weights only.  Buyer and supplier are two sides.
* `Arbitration` leaves the shuffle of a draw open: a panel is any that some order
  of the pool gives.  The shipment is created without a panel of its own.  What a
  verdict says of the votes behind it, it takes from history: the votes of the
  present dispute only (`cast`), and whose dispute the panel was drawn for (`seated`).
* `Limits` reduces a call to what it charges to which gauge.
* `Multisig` takes codes, partners and waiver terms as model values; `Whole`
  stands for 10,000 basis points.
* `LoanManager` scales 10^8 and 10^4 down to `PriceScale` and `Bps`; saturation of
  `i128` is not reached.  `PriceFeed` lets an oracle answer any price with any
  timestamp, or fail.

## 3. What is checked

The first eight runs use `MCShipmentEscrow`, `loans` and `writeoff` use
`MCLoanManager`, `protocols` and `cooldown` use `MCProtocols`; two workers, each
about two and a half minutes at most.  Deadlock checking is off: with the clock at its bound and
every shipment closed, or every ballot used, the system does stop.

| Run | Instance | Shows |
| --- | --- | --- |
| `lifecycle` | 1 shipment x 2 milestones, every dispute feature on, no finality delay; 1.2 million states | bookkeeping agrees (`OpenDisputesCounted`, `NoRulingDuringDispute`, `ReleaseLedgerWhilePending`, `ActiveDisputesListed`, `StatusIndexExact`, `CompletedMeansDone`), windows and final states hold (`AutoConfirmationStands`, `AppealRulingFinal`, `ClosedIsFinal`), `TypeOK` |
| `settlement` | 1 x 2, safe windows, batch, all early closings; 1.4 million states | `SettledOnce` and its strengthening, `DoneMeansClosed`, refinement `EscrowPromiseKept` |
| `portfolio` | 2 x 1, shared balance and cap, admin, oracles, timeout, deadline refund; 1.0 million states | `EscrowBacked`, `WithinDeposit`, `BuyerCapHolds`, `PauseStopsAll` |
| `liveness` | 1 x 1, fairness, holdback, review window, appeal, backup, timeout | `EveryProofAnswered` |
| `timeout_last` | violation | `DoneMeansClosed` fails when the last milestone times out |
| `appeal_arbiter` | violation | `AppealHeardByAnother` fails with two appeals |
| `parked_cancel` | violation | `ParkedFundsStay` fails on cancellation |
| `penalty_refund` | violation | `WithinDeposit` fails after a late penalty |
| `loans` | 3 accounts, two prices, deposits up to 4, collateral up to 3; a feed of two oracles over 8 seconds | `BooksBalance`, `PoolBacked`, `LossesShared` through every rounding of a write-off; `PriceInRange`, `RingCoversWindow`; `LoanTypeOK` |
| `protocols` | the parts listed below | fifteen properties, one to three per part |
| `writeoff` | violation | `WriteOffDrains` fails when a repayment rounds down to nothing |
| `cooldown` | violation | `CooldownHonoured` fails: a refusal stores the cooldown and rolls it back |

The parts of `protocols` and what each is for:

| Part | Instance | Property |
| --- | --- | --- |
| ballots | 3 keys, thresholds 2 and 1 (one configuration lists a key twice), 2 ballots, shares 5 and 8 of 10 | `CarriedByEnough`, `DecidedOnce` |
| handover | nomination, acceptance, revocation | the two above, over a changing admin |
| params, recovery, roles | 2 parameters, locks 0 and 1, 4 ledgers | `TimelockHonoured`; `RecoveredOnce`; `RoleIsLatestGrant` |
| escrow, orders | 2 buyers, 2 milestones, vault and collateral up to 4 | `TreasuryExact`; `OrderPaced` |
| custody | logs of up to 4 entries, 3 types | `ChainVerdictExact`: the one-pass verdict equals its definition by pairs of transfers |
| migration | 3 or 4 items, chunks of 0, 2 and 3, 2 runs | `EachItemOnce` |
| pool, draw, vote | 6 addresses, pool of 5, a party among them, panels of 3 and 5; two milestones' disputes draw panels, one's are voted on, ruled and appealed | `PanelFair`; `SeatsDecide` |
| seven kinds of agreement | 3 people, two buyers and a supplier who may hand their roles on, also to one another; 4 ledgers | `BothSidesAgree` |
| terms | 2 milestones, up to 4; with and without payout weights | `RecordsFollow` (keys that are listed), `AppendKeepsWorth` |
| outflow, commitments, cancels | limits 0 and 2, windows 0 and 2, 3 ledgers | `BurstBounded` |

Each property of a passing run has a mutant, `SeatsDecide` two (a fresh panel that finds the old tally;
a voter who is not remembered), in `PROJECT.json`: an operator marked
`Faulty` or `Mutant` beside the definition it spoils, that changes one mapped definition as a plausible bug
would, and that makes the property fail.

### Bounds

* Two milestones are needed for what happens *across* milestones (the shared
  arbiter, counter, completion by the last one, a cancellation with one milestone
  paid); nothing in the code relates three.  Two shipments are needed for the shared balance, cap and
  switches.
* `MaxLedger` (3 to 6) bounds the clock, windows are 1 to 3 ledgers: long enough
  that each window opens, is used on its last ledger, and closes before the end, with time for
  a second round after an appeal.
* `TotalAmount = 4` in equal shares: divisions are exact, so that
  `EscrowBacked` can be an equality.  `Bond = 0` for the same reason in every run (see the hazard
  at line 12195).
* The evidence limit (1 or 2) bounds how often a rejected milestone is resubmitted.
* `AdminActs` and `PausableOps` limit which admin acts a run explores.
* In `loans`, three accounts are a borrower, a liquidator and a third depositor
  with whom a loss is shared; prices 1 and 3 at scale 2 make every conversion
  round.  The feed's `MaxTime` of 8 is two windows of 4: the ring of 3 fills, drops its
  oldest entry and is used after a gap.
* In `protocols`, two of a thing suffice where one displaces another (ballots,
  parameters, proposals, milestones); three keys are the fewest among which one
  can vote twice in place of another; a panel of three has the smallest majority that
  is not unanimous.  In the part `vote` panels are drawn for both milestones and votes
  are cast on one: of the other only that it replaces the panel matters.  A milestone's
  identity is one of `2 * MaxCount + 1`, as many as can be in use in the list and the records together.
  `MaxHeight`, `LastLedger`, `MaxDay` and `MaxLedger` let each
  window lapse once and open again.  `MaxBallots`, `MaxRuns`, `MaxOffers`, `MaxBusy`,
  `MaxChanges`, `MaxRecords` and `MaxSettings` bound how often something is started,
  pending or changed.

### Views and symmetry

`lifecycle` uses the view `LiveState`, which leaves out `totalEscrowed` and the
history variables, which no action reads, and each ledger (`openedAt`,
`lastResolved`, `submittedAt`, `createdAt`) whose only reader is a window that is off in
that configuration.  Two states with one view have the same successors up to the
view.  Of what `lifecycle` checks, only `TypeOK` and `ClosedIsFinal` mention left-out variables
(`paid`, `refunded` and the types); they are evaluated on the states TLC reaches first.
`settlement` and `portfolio` use `MoneyState`, which adds `paid` and `refunded`,
so their properties are functions of the view (`EscrowPromise` too: its variables are
`status`, `mstatus` and `balance`).
`portfolio` also uses the symmetry of shipments and of oracles: both sets are
compared for equality only, and no temporal liveness is checked there.

### Fairness

`FairSpec` assumes weak fairness of `Tick` (ledgers close) and, per milestone, of
the entry points that *anyone* may call once a window is over:
`claim_auto_confirmation`, `release_held_payment`,
`finalize_dispute_resolution`, `resolve_dispute_timeout`.  The contract schedules nothing itself; the
supplier (or a keeper) has an interest in each of these calls and needs nobody's consent.
Neither the buyer, nor an arbiter, nor the admin is assumed to act.  The clock is bounded, so
`EveryProofAnswered` excuses a window that ends beyond `MaxLedger`
(`PastHorizon`); the bound of 6 leaves room for a dispute, its timeout, the
backup arbiter's timeout and an appeal.

## 4. What is proved

Every safety property the passing runs check is a theorem but one
(`AutoConfirmationStands`, below), and so are the action properties and the
refinement of `EscrowPromise`.  Each holds for every value of the constants that
satisfies the assumptions its module names, and under the hypotheses its statement
lists.

### The core

From `SizeAssumption`, `WindowAssumption` and `ActorAssumption`:

* `TypeCorrect == Spec => []TypeOK` (`ShipmentEscrowProofs`).  `TypeOK` is
  inductive.  One lemma per action; each shows the six conjuncts of `TypeOK`
  apart.  Not only shape: `balance` and the counters stay natural numbers.
* `WeightSettledOnce == ASSUME SafeWindows PROVE Spec => []SettledOnce`
  (`ShipmentSettlementProofs`), through
  `SettlementInvariant == ASSUME SafeWindows PROVE Spec => []SettlementInv`.

`SettledOnce` is not inductive: that a milestone is paid at most once depends on
no appeal reopening it after it was paid.  `SettlementInv` says why that cannot
happen: a weight is unpaid unless its milestone is final (`PaidOnlyWhenFinal`),
and a final or held milestone, a proof, a parked ruling each have a last ruling
that was given on appeal, is absent, or whose appeal window ends before the payment may
happen (`RulingOutOfReach`).  A proof submitted after a ruling is confirmed a
cooldown later, a parked ruling is paid a delay later: hence the assumption
`SafeWindows` (finality delay, confirmation cooldown and review window longer than the appeal
window, no partial disputes, no breach reports, no batch with a repeated index).
Each clause is needed: without it a hazard of `PROJECT.json` is a behaviour
that pays twice.  One lemma per action proves `SettlementInv` for the milestone the
action is about, `Framed` for the others.

`ShipmentLifecycleProofs` proves what the runs `lifecycle`, `settlement` and `portfolio`
check of statuses, disputes and indexes.  Three lemmas carry it; each goes through
the entry points one by one and says what a call can do to the shipment it is about:

* `StepMoves`: it needs an open shipment (or funds a new one), leaves every other
  shipment alone, and keeps its own open, completes it with all milestones done, or
  closes it early with its milestones as they are.  From it `ClosedForGood`,
  `CompletionJustified`, `IndexStaysExact` (with the set of completed shipments finite)
  and, where disputes do not time out, `NothingLeftOpen` (with
  "not funded, so all pending").
* `StepPaced` for release ledgers and parked splits, hence `ReleaseTimely`.
* `DisputeMoves`: a milestone enters dispute with the counter going up, leaves it with
  the counter going down, or neither.  This needs that an appeal never finds the milestone
  in dispute already (`Quiet`), which a dispute opened by oracle reports can break:
  `CounterExact` assumes no oracle group or no appeals, `RulingsEnded` no
  oracle group.  The assumptions are those of the runs, and the hazard of
  `raise_dispute` (line 11660) is what happens without them.

`ListExact` is inductive with "a shipment that was not funded has nothing listed".
`CapHolds` builds on it: without appeals every dispute is in the list, so the buyer's
exposed disputes are among those the cap was compared with, plus the new one; reports only
grow while a shipment is open, so a dispute the oracles account for stays theirs.
It assumes finitely many shipments and oracles, as `u64` identifiers and a stored list are.
`AppealEndsIt` and `PauseHolds` are action properties, from the guards of all entry points.

`ShipmentFundsProofs` proves what is said of money.  `FundsInv` adds to
`SettlementInv` the books of every shipment (`Books`): each milestone that is final was
paid exactly its weight and the others nothing, `released` is the weight of the final
ones, and a shipment closed early, and no other, was refunded the rest of the deposit.
`StepFunds` shows what each entry point does in these terms: it settles a set of
milestones of one shipment (`Settles`), refunds one, or touches no money.  From it

* `BooksStayExact` (`FundsInv` always) and `DepositIsCeiling` (`WithinDeposit`):
  payments and refund of a shipment stay within its deposit;
* `EscrowStaysBacked` (`EscrowBacked`): the one balance is what the open
  shipments have left;
* `PromiseImplemented` (`EscrowPromiseKept`): every step is a `Fund`, a
  `Settle`, a `CloseWithRefund` of `EscrowPromise` or a stutter, for any number of
  milestones and shipments.

Their hypotheses are what the statements need, and each has its reason in the code.
`PercentsWhole`: shares add up to 100, as creation demands.  `ExactTerms`: no late
penalty (the run `penalty_refund` breaks `WithinDeposit` with one), no partial dispute
(hazard at 20583), no timeout for the buyer (14820), no index listed twice in a batch
(11357), and either no appeals or `SafeWindows`.  `NoDust`: shares divide without
rest; otherwise the rest stays in the contract and the balance exceeds what is owed.
`Bond = 0`: a bond is returned oftener than it is posted (12195).  `PromiseImplemented`
needs `DisputeTimeout = 0` too: the run `timeout_last` shows the shipment that stays
open with all milestones done.

### Sums

`SumTheorems` has what the theorems on money rest on: a sum over a finite set is
determined by its members, grows by the member added, changes by the change of one
member, splits over a partition, is monotone, scales, and goes along an injection; and
the same for folds along a sequence (`FoldValue` and what follows it), for `FoldSeq`,
`FoldLeft` and `FoldFunction`.  The library states induction
over finite sets with an operator parameter, which the provers cannot instantiate, so
each lemma argues by a smallest counterexample instead: the strict subset ordering on
the subsets of a finite set is well founded (`SmallestSubset`), and from that follow least numbers
(`LeastNumber`) and prefixes (`PrefixInduction`).  What `batch_confirm_milestones` pays,
a recursive function, is a sum by the same argument (`BatchPaymentIsSum`).

### Governance and migration

* `DecisionsCarried` and `BallotsFinal`.  `GovernanceInv` adds to
  the two properties that no open ballot counts a voter twice (`OneVoteEach`) and
  that every identifier on file was issued (`IdsIssued`): without the first a length
  of an approval list says nothing of a number of keys, without the second a new
  ballot might take the place of an old one.  That the code's
  `(n * bps + 9_999) / 10_000` is the least number reaching the share is lemma
  `RequiredIsPromised`, integer arithmetic for every `Whole`.
* `ChangesWait`, `RecoveriesSound`, `RolesSound`, from `ParamInv`
  (what is queued is what was asked last, due when it was asked plus the lock of
  that moment), `RecoveryInv` and `RoleInv` (stored grant and expiry are those of
  the latest call).
* `MigrationSound`: `EachItemOnce` is inductive with the types (`MigrationInv`).

### The protocols around a shipment

* `TreasuryAlwaysExact`, for finitely many buyers and milestones.  `BooksInv` says
  that `totalVaulted` is the sum of the vaults, `totalEscrowed` that of the running
  shipments plus what rulings left counted, and the balance, with what was swept as
  dust, both of these plus the collateral; and that the collateral stored is what is held
  (`LocksHeld`).  Each call moves the sums by the change of the one or two shipments
  and vaults it is about (`ShipChanged`, `VaultChanged`).
* `OrderAlwaysPaced`, from `OrderInv`: the next run is due an interval after the last,
  and the runs counted are those that happened.
* `EffectsAreConsented` (`BothSidesAgree`): an agreement takes effect with the consent of
  both sides to exactly its terms.  A consent is kept by person and by the side that
  person was on when giving it, and only those to the present terms count.  The property
  alone is not inductive: an offer on file must be backed by the consents it records
  (`OfferBacked`), which survives the transfer of a role because the side is kept, and a
  pause offer on file must mean what it meant when it was made (`PauseMeant`).  A
  later expiry and a pause are weaker, as the code is: the sides are compared when the second
  person approves, so the property speaks of them while those who agreed are still
  parties, and of a pause while there is one buyer.  The comments promise more than that;
  section 6 has what happens outside these conditions.
* `BurstsAlwaysBounded`.  `GaugeFits`, per gauge: what was admitted since the window
  began is at most what is counted as used; over any stretch that began earlier
  and ends at the window's start, at most the limit.  A stretch that straddles the
  start is the sum of one of each: twice the limit, which is what a
  fixed window really promises.
* `PanelsAlwaysFair`, from `ArbInv`: no slashed arbiter is in
  the pool, and those met recently are all different.  That the round robin meets every
  arbiter wherever it starts is the uniqueness of remainders (`RemainderUnique`); what a
  selection along the walk keeps is a fold (`KeepProperties`).
* `SeatsAlwaysDecide` (`SeatsDecide`): the code counts entries of a stored tally, the property
  people of the panel who voted in this dispute.  `ArbInv` says when the two agree: in
  any tally no arbiter has two entries (`OneVoteEach`), and while the panel in force was
  drawn for a milestone's present dispute, its tally holds votes of that panel cast in
  that dispute and no others.  The agreeing entries then map one to one into
  the agreeing members (`AsManyHolders`).  Each way a dispute opens must either empty
  the tally or give up the claim (`DisputeAnew`, `AppealKeeps`): an appeal and a panel drawn
  for another milestone do the latter, with the consequences in section 6.
* `CustodyVerdictSound`: the state of the one-pass scan after each prefix means what
  the definition by pairs says of that prefix (`Meaning`); prefix induction does the rest.
* `RecordsAlwaysFollow`, for the keys `per_milestone_keys` lists.  `PlacesOK` adds to
  `RecordsFollow` that the milestones have different identities, that nothing is stored
  under those keys beyond the last of them, and that the milestone confirmed last is
  still confirmed, and so never merged away.  `Rearranged` is what merge, split and
  append have in common: every index has a source, and everything comes from where its
  milestone came from; `RearrangedKeeps` shows that this is enough.
  `FreshIdsExist` counts the identities in use (`FewValues`), those of hashes left behind
  included, so that the model's choice of new ones is never vacuous.
* `AppendsKeepWorth`, an action property, from the same invariant with the money
  (`MoneyOK`): weights rounded up are worth no less of the larger total (`CeilingCovers`).

### Lending

* `PlanBounded`, `PositionsSound`: a liquidation plan repays at most the debt, seizes at
  most the collateral and writes off at most what remains, so that no position goes below
  zero; and the collateral seized is worth at most the repayment, counted up to the next
  unit of the debt token, times one plus the penalty cap:
  `(seize * pc) * Bps <= ((repay + 1) * pd) * (Bps + cap)`.  The next unit is needed: the
  plan seizes for the repayment's worth and then rounds the units repaid down.
* `WriteOffExact`: after each prefix of the registry, the first pass has taken from every depositor met
  his share rounded down and the second never more than what is left, so that exactly
  the loss is taken; it needs the loss to be at most the deposits.
* `LoanTypeCorrect`, `BooksAlwaysBalance`, `PoolAlwaysBacked`, `LossesAlwaysShared`, for
  finitely many accounts, from `LoanInv`: positions sound (`PositionsOK`), a registry without
  repetitions that has every account with a deposit (`PoolOK`), and totals and holdings equal to
  their sums (`SumsBalance`).  A loss is part of a debt, debts are part of the
  deposits, so the loss is bearable: the code's branch for a pool without depositors is unreachable.
* `FeedInRange`, from `FeedInv`: between any two observations
  the accumulated price grows by at least `MinPrice` and at most `MaxPrice` per
  second (`GrowthBounded`), so that their quotient is in range.
* `RingAlwaysCovers`: snapshots are an interval apart (`RingSpaced`), so a
  full ring spans the window by `RingAssumption`, the relation a comment of the code
  states between its constants.

### What is only model-checked

`AutoConfirmationStands`: it holds of the run's windows and not of all, since the appeal of
an older ruling may reopen a milestone whose review window is over.
`EveryProofAnswered` is liveness under fairness, outside the proof system's reach as
`ENABLED` is.  `AppealHeardByAnother`, `ParkedFundsStay`, `WriteOffDrains` and
`CooldownHonoured` are refuted, as are `DoneMeansClosed` and `WithinDeposit` outside
the hypotheses of their theorems.  That `LossShared` and `AppendKeepsWorth` are taken at
all by some step, and that no theorem's hypotheses are contradictory, is what the
runs show: they are instances of the same modules.

## 5. Plan

Done, in this order: the core with its abstract promise and two theorems; the lending
pool and its price feed; the treasury; arbitration and agreements; milestone terms;
governance; custody log and paged migration; limits; the theorems of section 4, those on
money and on the protocols last.

Left, most important first:

1. Theorems: what `AutoConfirmationStands` needs of the windows; `WithinDeposit` as an
   inequality with late penalties that are credited before a closing.
2. The fee division and the options of a confirmation (grades, partial quantities,
   retainage, bonus pools) as operators over bounded inputs.
3. The effect of a mediated settlement on the escrow; records created and removed between
   two pages of a migration.
4. Blacklist and its appeal.

## 6. Not modelled, and seen on the way

Events, queries, metadata, notes, observers, delegates and TTL extension: no guard
of a modelled operation reads them.  Reputation, tiers and timeliness: scores.
Authorisation (`require_auth`) beyond who may call: the model lets a call happen
whenever its caller may make it.  Overflow: amounts are `i128` and checked by the
compiler's overflow checks, ledgers are `u32` far from their limit.
`supplier_voluntary_refund.rs`: not part of the compiled crate.

The agreements on a shipment split (23733, 23799) and on an earliest proof ledger (24034,
24084): they read the shipment with `storage::get_shipment`, that is under
`V1Shipment` (`storage.rs` 82-86), while `create_shipment` and every other live call store it
under `Shipment` (8160).  No call that succeeds writes `V1Shipment`, so these calls always
panic.  `MilestoneNotBeforeProposal` is hence never stored.  Nor are
`VoluntaryRefund` and `DisputeEvidenceEnvelope`, which no compiled call writes: of the keys under an
index that `per_milestone_keys` omits, only `ShipmentBolHash` can be there to be left behind.

`PagedMigration` fixes the number of records when a migration starts.  It does not have what
ordinary calls might create or remove between two pages.

Behaviours of the models that comments of the code speak against.  TLC reaches each of
them; the properties leave them out by name:

* *Votes of a replaced panel.*  The panel is stored per shipment, votes per milestone.  Let
  a dispute of milestone 1 go to the panel {a1, a2, a3} and a1 vote; a
  dispute of milestone 2 goes to another panel, which replaces the first and clears the
  votes of milestone 2 only (7337-7340).  One like vote of the new panel now closes milestone
  1's dispute, although a quorum is a majority of the panel (17199-17201).
  `SeatsDecide` is about panels drawn for what they decide.
* *An appeal before the panel.*  `appeal_dispute` says that the appeal "is heard by the single
  reassigned arbiter" (13293) but removes only the escalation flag.  Panel and
  tally stay, and `cast_dispute_vote` never looks at the flag: a tally begun before the
  ruling and one more vote close the appeal.
* *A pause by two buyers.*  "No effect until the other party approves" (18023): the approver
  of a pause or a resumption need only be another address than the requester (18085,
  18097), so two co-buyers decide without the supplier.
* *An expiry by two suppliers.*  The approver has to be "the *other* side so both buyer and supplier
  consent" (15882): a proposer who is not the supplier at approval counts as a buyer.  A
  supplier who proposes, hands the role over, and is approved by his successor extends
  the expiry without a buyer.
* *The bill of lading stays behind.*  `per_milestone_keys` "must follow a milestone when its
  index changes" (5539) but does not list `ShipmentBolHash` (1750).  After a merge, or a split
  of an earlier milestone, the hash is under an index that is another milestone's, where it
  cannot be replaced (6560-6563).

Seen while reading the code, and stated by no property, because no document says
what should happen or because the module leaves the data out:

* An approved deadline extension counts from the current ledger when the
  milestone has no `MilestoneDeadline` entry (6718-6723): it may shorten the
  deadline in force, and substitution (16739) and late penalties ignore it.
* `approve_milestone_merge` (4782-4925) shortens none of `MilestoneSplits`,
  `TimestampDeadlines`, quantities, proof submitters and inspections, and a pending
  merge or split keeps an index that another agreement has moved.
* A mediation proposal outlives the dispute it was made for.
* A panel's decision stores no `DisputeResolvedAtLedger` and so cannot be appealed,
  unlike a ruling.
* `propose_admin_action` (3380-3444) runs the operation of the caller whose
  approval completes the threshold.  The approval of a key removed since still counts.
* `execute_param_change` (17122) stores a fee without the cap its setter enforces.
* Collateral stays behind on completions other than through `confirm_milestone`.
* `claim_deadline_refund` and `supplier_cancel` ignore the refund recipient of a
  shipment funded from a vault.
* A late penalty is forgotten by the holdback branch (10744), and the dust of
  floor divisions (19523) stays in the contract.
