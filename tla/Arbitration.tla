---------------------------- MODULE Arbitration -----------------------------
(* Who decides a dispute of one shipment (contracts/chainsetttle/src/lib.rs):
   the arbiter pool and its round robin, recusal, and the panels drawn from
   the pool with their votes.

   The shipment stays active and is created without a panel; its disputes open
   and end, and a ruling may be appealed, windows apart.  What a decision pays is
   in ShipmentEscrow. *)
EXTENDS Naturals, Sequences, FiniteSets, SequencesExt, FiniteSetsExt

CONSTANTS
    Addresses,      \* addresses that may enter the pool
    ShipmentParties,\* the buyers and the supplier of the shipment
    Blacklisted,
    Fickle,         \* the arbiters that come and go or change their availability
    FirstPool,      \* the pool at the start
    Indices,        \* milestones of the shipment
    HistorySizes,   \* settings of ArbiterRepetitionHistorySize
    PanelSizes,     \* panel sizes asked for
    Unset           \* no escalation configured, nothing drawn, nothing decided

ASSUME ArbitrationAssumption ==
    /\ FirstPool \in Seq(Addresses) /\ IsInjective(FirstPool)
    /\ Fickle \subseteq Addresses /\ Unset \notin Addresses \cup Indices
    /\ HistorySizes \subseteq Nat /\ PanelSizes # {} /\ \A n \in PanelSizes : n \in Nat /\ n >= 3

VARIABLES
    pool, poolIdx,          \* arbiters_pool, arb_pool_idx
    unavailable, slashed,   \* ArbiterUnavailable, ArbiterSlashed
    historySize, recent,    \* ArbiterRepetitionHistorySize, SupplierRecentArbiters
    arbiter, fromPool,      \* the shipment's arbiter; use_pool_arb
    escalation,             \* PanelEscalation: the panel size, or Unset
    disputed,               \* the milestones with an open dispute
    panel,                  \* ArbiterPanel, one for the shipment
    escalated, votes,       \* PanelEscalated, DisputeVotes, per milestone
    rulings,                \* DisputeResolvedAtLedger, DisputeAppealed: "ruled", "appealed"
    drawn, verdict,         \* history: the draw, the panel's decision of the latest step
    cast, seated            \* history: the votes on the present dispute of each
                            \* milestone; the one whose dispute the panel was drawn for

poolVars == <<pool, poolIdx, slashed>>
guardVars == <<historySize, recent>>
seatVars == <<arbiter, fromPool>>
disputeVars == <<disputed, escalated, votes, rulings, cast>>
panelVars == <<escalation, panel, seated, disputeVars>>
arbVars == <<poolVars, unavailable, guardVars, seatVars, panelVars, drawn, verdict>>

(* No panel is drawn in this step and none decides. *)
Quiet == drawn' = Unset /\ verdict' = Unset
-----------------------------------------------------------------------------
(* The pool.  Adding again is a no-op, a batch is all or nothing, and whatever
   shortens the pool starts the round robin again. *)

AddArbiter(a) ==
    /\ a \notin slashed
    /\ pool' = IF a \in Range(pool) THEN pool ELSE Append(pool, a)
    /\ Quiet /\ UNCHANGED <<poolIdx, slashed, unavailable, guardVars, seatVars, panelVars>>

BatchAddArbiters(batch) ==
    /\ batch # <<>> /\ IsInjective(batch)
    /\ Range(batch) \cap (Range(pool) \cup Blacklisted \cup slashed) = {}
    /\ pool' = pool \o batch
    /\ Quiet /\ UNCHANGED <<poolIdx, slashed, unavailable, guardVars, seatVars, panelVars>>

(* The members of a sequence that are in a set, in their order. *)
Keep(s, S) == FoldLeft(LAMBDA kept, a : IF a \in S THEN Append(kept, a) ELSE kept, <<>>, s)

Leave(a) == pool' = Keep(pool, Addresses \ {a}) /\ poolIdx' = 0

RemoveArbiter(a) ==
    /\ Leave(a)
    /\ Quiet /\ UNCHANGED <<slashed, unavailable, guardVars, seatVars, panelVars>>

(* slash_arbiter: an overturned ruling too many. *)
SlashArbiter(a) ==
    /\ Leave(a) /\ slashed' = slashed \cup {a}
    /\ Quiet /\ UNCHANGED <<unavailable, guardVars, seatVars, panelVars>>

ReinstateArbiter(a) ==
    /\ slashed' = slashed \ {a}
    /\ Quiet /\ UNCHANGED <<pool, poolIdx, unavailable, guardVars, seatVars, panelVars>>

SetAvailability(a, available) ==
    /\ unavailable' = IF available THEN unavailable \ {a} ELSE unavailable \cup {a}
    /\ Quiet /\ UNCHANGED <<poolVars, guardVars, seatVars, panelVars>>

SetHistorySize(n) ==
    /\ historySize' = n
    /\ Quiet /\ UNCHANGED <<poolVars, unavailable, recent, seatVars, panelVars>>

-----------------------------------------------------------------------------
(* select_pool_arbiters: first the arbiters the supplier has not met recently,
   in the order of the walk; then the recent ones, the oldest first. *)

Met(known) == IF historySize > 0 THEN known ELSE <<>>

Upto(s, n) == SubSeq(s, 1, IF n < Len(s) THEN n ELSE Len(s))

(* Mutant: the fallback pass forgets the exclusions and the availability. *)
FallbackUnfiltered(known, exclude, n) == Upto(Keep(Met(known), Range(pool)), n)

Fallback(known, exclude, n) == Upto(Keep(Met(known), Range(pool) \ (exclude \cup unavailable)), n)

Select(walk, known, exclude, n) ==
    LET fresh == Upto(Keep(walk, Addresses \ (exclude \cup Range(Met(known)) \cup unavailable)), n)
    IN  fresh \o Fallback(known, exclude, n - Len(fresh))

(* record_supplier_arbiters: repeats move to the recent end, the latest stay. *)
Remember(known, chosen) ==
    LET all == Keep(known, Addresses \ Range(chosen)) \o chosen
    IN  IF historySize = 0 THEN known
        ELSE SubSeq(all, IF Len(all) > historySize THEN Len(all) - historySize + 1 ELSE 1, Len(all))

-----------------------------------------------------------------------------
(* The single arbiter. *)

Rotated(start) == [i \in 1..Len(pool) |-> pool[((start + i - 1) % Len(pool)) + 1]]
Position(a) == (CHOOSE i \in 1..Len(pool) : pool[i] = a) - 1

(* recuse_arbiter: the next of the pool that is another one, available or not. *)
RecuseArbiter ==
    /\ \E i \in 1..Len(pool) : pool[i] # arbiter
    /\ LET next == Keep(Rotated(poolIdx), Addresses \ {arbiter})[1]
       IN  arbiter' = next /\ poolIdx' = (Position(next) + 1) % Len(pool)
    /\ Quiet /\ UNCHANGED <<pool, slashed, fromPool, unavailable, guardVars, panelVars>>

-----------------------------------------------------------------------------
(* Panels.  The pool is shuffled before it is walked; the parties, skipped by
   the walk, are left out of the shuffle. *)

Draws(known, n) ==
    {Select(walk, known, ShipmentParties, n) : walk \in SetToSeqs(Range(pool) \ ShipmentParties)}

Seat(known, n, members) ==
    drawn' = [size |-> n, seats |-> Len(members), members |-> Range(members),
              recents |-> Range(Met(known)),
              eligible |-> Range(pool) \ (ShipmentParties \cup unavailable \cup slashed)]

SetPanelEscalation(setting) ==
    /\ escalation' = setting
    /\ Quiet /\ UNCHANGED <<poolVars, unavailable, guardVars, seatVars, panel, seated, disputeVars>>

AssignDisputePanel(m, n) ==
    /\ m \in disputed /\ votes[m] = <<>>
    /\ \E members \in Draws(recent, n) :
          /\ Len(members) = n
          /\ panel' = Range(members) /\ seated' = m
          /\ recent' = Remember(recent, members) /\ Seat(recent, n, members)
    /\ UNCHANGED <<poolVars, unavailable, historySize, seatVars, escalation, disputeVars>>
    /\ verdict' = Unset

(* Mutant: a fresh panel finds the old tally. *)
KeptTally(m) == votes

FreshTally(m) == [votes EXCEPT ![m] = <<>>]

(* A new dispute or hearing: the panel in force was not drawn for it. *)
Unseat(m) == seated' = IF seated = m THEN Unset ELSE seated

(* maybe_escalate_to_panel: a big dispute goes to a panel if one can be drawn;
   "known" are the arbiters the supplier has met by now. *)
MaybeEscalate(m, big, known) ==
    \/ /\ ~big \/ escalation = Unset
       /\ escalated' = [escalated EXCEPT ![m] = FALSE] /\ recent' = known
       /\ drawn' = Unset /\ Unseat(m) /\ UNCHANGED <<panel, votes>>
    \/ /\ big /\ escalation # Unset
       /\ \E members \in Draws(known, escalation) :
            /\ Seat(known, escalation, members)
            /\ escalated' = [escalated EXCEPT ![m] = (Len(members) = escalation)]
            /\ IF escalated'[m]
               THEN /\ panel' = Range(members) /\ seated' = m /\ votes' = FreshTally(m)
                    /\ recent' = Remember(known, members)
               ELSE recent' = known /\ Unseat(m) /\ UNCHANGED <<panel, votes>>

(* raise_dispute.  A shipment created for an arbiter of the pool gets one at its
   first dispute, by round robin; nobody is excluded from being that one. *)
RaiseDispute(m, big) ==
    LET picked == Select(Rotated(poolIdx % Len(pool)), recent, {}, 1) IN
    /\ m \notin disputed
    /\ disputed' = disputed \cup {m}
    /\ rulings' = [rulings EXCEPT ![m] = "none"] /\ cast' = [cast EXCEPT ![m] = {}]
    /\ IF fromPool
       THEN /\ pool # <<>> /\ picked # <<>>
            /\ arbiter' = picked[1] /\ fromPool' = FALSE
            /\ poolIdx' = (Position(picked[1]) + 1) % Len(pool)
            /\ MaybeEscalate(m, big, Remember(recent, picked))
       ELSE /\ MaybeEscalate(m, big, recent)
            /\ UNCHANGED <<arbiter, fromPool, poolIdx>>
    /\ UNCHANGED <<pool, slashed, unavailable, historySize, escalation>>
    /\ verdict' = Unset

Majority(size) == (size \div 2) + 1

(* Mutant: nobody is remembered to have voted. *)
VotedForgotten(m) == {}

Voted(m) == {v.arbiter : v \in Range(votes[m])}

(* The panel in force votes, and its majority, counted over everything in the
   tally, closes the dispute. *)
CastDisputeVote(a, m, approve) ==
    LET vote == [arbiter |-> a, approve |-> approve]
        tally == Append(votes[m], vote)
        agreeing == {i \in DOMAIN tally : tally[i].approve = approve}
        holders == {v.arbiter : v \in {w \in cast[m] \cup {vote} : w.approve = approve}} \cap panel
    IN
    /\ a \in panel /\ m \in disputed /\ a \notin Voted(m)
    /\ IF Cardinality(agreeing) >= Majority(Cardinality(panel))
       THEN /\ votes' = [votes EXCEPT ![m] = <<>>] /\ cast' = [cast EXCEPT ![m] = {}]
            /\ escalated' = [escalated EXCEPT ![m] = FALSE]
            /\ disputed' = disputed \ {m}
            /\ verdict' = [holders |-> holders, size |-> Cardinality(panel), own |-> seated = m]
       ELSE /\ votes' = [votes EXCEPT ![m] = tally] /\ cast' = [cast EXCEPT ![m] = @ \cup {vote}]
            /\ verdict' = Unset /\ UNCHANGED <<escalated, disputed>>
    /\ UNCHANGED <<poolVars, unavailable, guardVars, seatVars, escalation, panel, seated, rulings>>
    /\ drawn' = Unset

(* resolve_dispute is refused once the dispute has gone to a panel ... *)
ResolveByArbiter(m) ==
    /\ m \in disputed /\ ~escalated[m]
    /\ disputed' = disputed \ {m}
    /\ rulings' = [rulings EXCEPT ![m] = IF @ = "appealed" THEN @ ELSE "ruled"]
    /\ Quiet
    /\ UNCHANGED <<poolVars, unavailable, guardVars, seatVars, escalation, panel, seated,
                   escalated, votes, cast>>

(* ... but a withdrawal, a timeout or a mediation ends it, and none of them
   forgets the votes or the escalation. *)
EndOtherwise(m) ==
    /\ m \in disputed /\ disputed' = disputed \ {m}
    /\ Quiet
    /\ UNCHANGED <<poolVars, unavailable, guardVars, seatVars, escalation, panel, seated,
                   escalated, votes, rulings, cast>>

(* appeal_dispute: another arbiter of the pool hears it; a tally begun before
   the ruling stays, as does the panel. *)
AppealDispute(m) ==
    LET next == Select(pool, recent, {arbiter}, 1) IN
    /\ rulings[m] = "ruled" /\ next # <<>>
    /\ arbiter' = next[1] /\ recent' = Remember(recent, next)
    /\ rulings' = [rulings EXCEPT ![m] = "appealed"] /\ cast' = [cast EXCEPT ![m] = {}]
    /\ disputed' = disputed \cup {m} /\ escalated' = [escalated EXCEPT ![m] = FALSE]
    /\ Unseat(m)
    /\ Quiet /\ UNCHANGED <<poolVars, unavailable, historySize, fromPool, escalation, panel, votes>>

-----------------------------------------------------------------------------
ArbitrationInit ==
    /\ pool = FirstPool /\ poolIdx = 0 /\ unavailable = {} /\ slashed = {}
    /\ historySize \in HistorySizes /\ recent = <<>>
    /\ arbiter = Unset /\ fromPool \in BOOLEAN
    /\ escalation = Unset /\ disputed = {} /\ panel = {}
    /\ escalated = [m \in Indices |-> FALSE] /\ votes = [m \in Indices |-> <<>>]
    /\ rulings = [m \in Indices |-> "none"]
    /\ drawn = Unset /\ verdict = Unset /\ cast = [m \in Indices |-> {}] /\ seated = Unset

Availability == \E a \in Fickle, available \in BOOLEAN : SetAvailability(a, available)

(* The pool and the single arbiter; the draws; the votes. *)
PoolNext ==
    \/ RecuseArbiter \/ Availability
    \/ \E n \in HistorySizes : SetHistorySize(n)
    \/ \E a \in Fickle :
          \/ AddArbiter(a) \/ RemoveArbiter(a) \/ SlashArbiter(a) \/ ReinstateArbiter(a)
          \/ \E b \in Addresses : BatchAddArbiters(<<a, b>>)
    \/ \E m \in Indices : RaiseDispute(m, FALSE) \/ ResolveByArbiter(m)

DrawNext ==
    \/ Availability
    \/ \E n \in HistorySizes : SetHistorySize(n)
    \/ \E setting \in PanelSizes \cup {Unset} : SetPanelEscalation(setting)
    \/ \E a \in Fickle : RemoveArbiter(a) \/ SlashArbiter(a)
    \/ LET m == CHOOSE i \in Indices : TRUE IN
          \/ \E big \in BOOLEAN : RaiseDispute(m, big)
          \/ \E n \in PanelSizes : AssignDisputePanel(m, n)
          \/ EndOtherwise(m)

(* Votes on the milestones of M; a panel may be drawn for any. *)
VoteNext(M) ==
    \/ \E setting \in {Min(PanelSizes), Unset} : SetPanelEscalation(setting)
    \/ \E m \in Indices :
          \/ \E big \in BOOLEAN : RaiseDispute(m, big)
          \/ AssignDisputePanel(m, Min(PanelSizes))
          \/ EndOtherwise(m)
    \/ \E m \in M :
          \/ \E a \in Addresses, approve \in BOOLEAN : CastDisputeVote(a, m, approve)
          \/ ResolveByArbiter(m) \/ AppealDispute(m)

ArbitrationNext == PoolNext \/ DrawNext \/ VoteNext(Indices)
ArbitrationSpec == ArbitrationInit /\ [][ArbitrationNext]_arbVars

-----------------------------------------------------------------------------
(* Properties. *)

(* A panel is drawn fairly and whenever it can be: its members are different,
   in the pool, available and no party of the dispute; one the supplier has met
   recently sits on it only if all the others do too; and the draw comes out
   short only when the pool really has too few. *)
PanelFair == drawn # Unset =>
    LET members == drawn.members IN
    /\ Cardinality(members) = drawn.seats /\ members \subseteq drawn.eligible
    /\ members \cap drawn.recents # {} => drawn.eligible \ drawn.recents \subseteq members
    /\ drawn.seats = Min({drawn.size, Cardinality(drawn.eligible)})

(* cast_dispute_vote: a panel drawn for the dispute it decides decides it by the
   votes more than half of its members gave in that very dispute, whatever was
   voted in earlier disputes of the milestone or by panels it replaced.  A panel
   drawn for another milestone, or before an appeal, finds and counts the tally
   begun before: of it nothing is claimed. *)
SeatsDecide == verdict # Unset /\ verdict.own => 2 * Cardinality(verdict.holders) > verdict.size
=============================================================================
