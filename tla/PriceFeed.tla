------------------------------ MODULE PriceFeed ------------------------------
(***************************************************************************)
(* The failover chain of contracts/loan_manager/src/oracle.rs for one      *)
(* asset: a valid answer of the primary oracle, else of the secondary,     *)
(* else the time-weighted average of the answers recorded before.  An      *)
(* oracle is external: each call may return any price with any timestamp,  *)
(* or fail.  A call that finds no price source panics and changes nothing. *)
(* The count of fallbacks, a diagnostic, is left out.                      *)
(***************************************************************************)
EXTENDS Integers, Sequences

CONSTANTS
    RawPrices,          \* prices an oracle may report, invalid ones included
    MinPrice, MaxPrice, \* the range of the positive ones
    Configured,         \* oracles configured: a subset of {"primary", "secondary"}
    Staleness,          \* MAX_PRICE_STALENESS_SECS
    FutureSkew,         \* MAX_FUTURE_SKEW_SECS
    Window,             \* TWAP_WINDOW_SECS
    MinSpan,            \* TWAP_MIN_SPAN_SECS
    SnapshotInterval,   \* TWAP_SNAPSHOT_INTERVAL_SECS
    MaxSnapshots,       \* TWAP_MAX_SNAPSHOTS
    MaxTime             \* bound on the clock

ASSUME FeedAssumption ==
    /\ RawPrices \subseteq Int /\ MinPrice \in Nat \ {0} /\ MaxPrice \in Nat
    /\ \A p \in RawPrices : p > 0 => MinPrice <= p /\ p <= MaxPrice
    /\ {Staleness, FutureSkew, Window, MaxTime} \subseteq Nat
    /\ MinSpan \in Nat \ {0} /\ SnapshotInterval \in Nat \ {0}
    /\ MaxSnapshots \in Nat \ {0}
(* "Ring-buffer capacity for TWAP snapshots: window/interval + slack" *)
ASSUME RingAssumption == (MaxSnapshots - 1) * SnapshotInterval >= Window

VARIABLES
    clock,              \* env.ledger().timestamp()
    lastTs, lastPrice,  \* TwapState; lastPrice = 0: not seeded
    cumulative,
    lastSnapshotTs,
    snapshots,          \* ring buffer of [ts, cum], oldest first
    resolved            \* what the last call resolved (history)

twapVars == <<lastTs, lastPrice, cumulative, lastSnapshotTs, snapshots>>
feedVars == <<clock, twapVars, resolved>>

NoPrice == 0
Down == [price |-> NoPrice, ts |-> 0]     \* the call fails
(* Timestamps at and just past the two limits of ValidAnswer. *)
Stamps == {clock - Staleness - 1, clock - Staleness, clock + FutureSkew, clock + FutureSkew + 1}
RawAnswers == {Down} \cup [price : RawPrices, ts : Stamps \cap Nat]

ValidAnswer(answer) ==
    /\ answer.price > 0
    /\ answer.ts <= clock + FutureSkew
    /\ clock - answer.ts <= Staleness

(* The first configured oracle with a valid answer decides. *)
DirectPrice(answer) ==
    IF "primary" \in Configured /\ ValidAnswer(answer["primary"])
      THEN answer["primary"].price
    ELSE IF "secondary" \in Configured /\ ValidAnswer(answer["secondary"])
      THEN answer["secondary"].price
    ELSE NoPrice

-----------------------------------------------------------------------------
(* record_observation: the time since the last observation counts at the
   price that held until now; a snapshot is due once per interval. *)
Accumulated == cumulative + lastPrice * (clock - lastTs)
(* Faulty: every observation leaves a snapshot. *)
AlwaysDue == TRUE

SnapshotDue == snapshots = <<>> \/ clock >= lastSnapshotTs + SnapshotInterval
Keep(ring) == IF Len(ring) > MaxSnapshots THEN Tail(ring) ELSE ring

RecordObservation(price) ==
    /\ lastTs' = clock
    /\ lastPrice' = price
    /\ IF lastPrice = NoPrice \/ lastTs >= clock
         THEN UNCHANGED <<cumulative, lastSnapshotTs, snapshots>>
         ELSE /\ cumulative' = Accumulated
              /\ IF SnapshotDue
                   THEN /\ snapshots' = Keep(Append(snapshots, [ts |-> clock, cum |-> Accumulated]))
                        /\ lastSnapshotTs' = clock
                   ELSE UNCHANGED <<lastSnapshotTs, snapshots>>

(* The average starts at the oldest snapshot inside the window, or at the
   last one when all have left it. *)
InWindow(i) == snapshots[i].ts >= clock - Window
IsStart(i) ==
    \/ InWindow(i) /\ \A j \in 1 .. i - 1 : ~InWindow(j)
    \/ i = Len(snapshots) /\ \A j \in 1 .. Len(snapshots) : ~InWindow(j)
Start == snapshots[CHOOSE i \in 1 .. Len(snapshots) : IsStart(i)]

Span == clock - Start.ts
(* Faulty: the accumulator is not carried on to the present. *)
DeltaAtLastTs == cumulative - Start.cum

Delta == Accumulated - Start.cum

(* NoPrice stands for the panic "no valid price source". *)
TwapPrice ==
    IF lastPrice <= 0 \/ Len(snapshots) < 2 THEN NoPrice
    ELSE IF Span < MinSpan \/ Delta <= 0 THEN NoPrice
    ELSE Delta \div Span

-----------------------------------------------------------------------------
FeedInit ==
    /\ clock = 0
    /\ lastTs = 0 /\ lastPrice = NoPrice /\ cumulative = 0
    /\ lastSnapshotTs = 0 /\ snapshots = <<>>
    /\ resolved = NoPrice

(* resolve_price, on behalf of any call that needs the asset's price:
   borrow, withdraw_collateral, liquidate, record_price and the views. *)
ResolveDirect ==
    \E answer \in [{"primary", "secondary"} -> RawAnswers] :
        /\ DirectPrice(answer) # NoPrice
        /\ RecordObservation(DirectPrice(answer))
        /\ resolved' = DirectPrice(answer)
        /\ UNCHANGED clock

ResolveTwap ==
    \E answer \in [{"primary", "secondary"} -> RawAnswers] :
        /\ DirectPrice(answer) = NoPrice
        /\ TwapPrice # NoPrice
        /\ resolved' = TwapPrice
        /\ UNCHANGED <<clock, twapVars>>

Elapse ==
    /\ clock < MaxTime
    /\ clock' = clock + 1
    /\ resolved' = NoPrice
    /\ UNCHANGED twapVars

FeedNext == ResolveDirect \/ ResolveTwap \/ Elapse

FeedSpec == FeedInit /\ [][FeedNext]_feedVars

-----------------------------------------------------------------------------
(* Whatever the failover chain resolves, average included, lies in the range
   of the valid answers: what the lending pool assumes of its prices. *)
PriceInRange == resolved # NoPrice => MinPrice <= resolved /\ resolved <= MaxPrice

(* The ring buffer holds the whole window: a full buffer reaches back at
   least that far, so dropping its oldest entry never shortens the average. *)
RingCoversWindow ==
    Len(snapshots) = MaxSnapshots =>
        snapshots[Len(snapshots)].ts - snapshots[1].ts >= Window

-----------------------------------------------------------------------------
(* Why the average is in range.  Between a snapshot and the last observation
   the accumulator grew by at least MinPrice and at most MaxPrice a second. *)
FeedTypeOK ==
    /\ clock \in Nat /\ lastTs \in Nat /\ lastTs <= clock
    /\ lastPrice = NoPrice \/ lastPrice \in MinPrice .. MaxPrice
    /\ cumulative \in Nat
    /\ snapshots \in Seq([ts : Nat, cum : Nat])
    /\ resolved \in Int
    /\ lastSnapshotTs \in Nat
Unseeded == lastPrice = NoPrice => snapshots = <<>>
GrowthBounded ==
    \A i \in 1 .. Len(snapshots) :
        /\ snapshots[i].ts <= lastTs
        /\ MinPrice * (lastTs - snapshots[i].ts) <= cumulative - snapshots[i].cum
        /\ cumulative - snapshots[i].cum <= MaxPrice * (lastTs - snapshots[i].ts)
FeedInv == FeedTypeOK /\ Unseeded /\ GrowthBounded /\ PriceInRange
=============================================================================
