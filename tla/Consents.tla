------------------------------ MODULE Consents ------------------------------
(* What the parties of a running shipment change by agreement (contracts/
   chainsetttle/src/lib.rs): arbiter rotation, amendments, mediation, deadline
   and expiry extensions, substitute suppliers and pauses - while the parties
   themselves may hand their roles over.  Merges, splits and additions of
   milestones are in MilestoneTerms.  Earliest proof ledgers and shipment splits
   are left out: their calls read V1Shipment, which nothing writes, and panic.

   One shipment with one milestone, active until mediation settles it.  Kinds
   of agreement share nothing but the parties, the milestone and the clock, so
   a behaviour may be confined to some kinds. *)
EXTENDS Naturals, Sequences, FiniteSets, Functions

CONSTANTS
    People,         \* addresses: the parties and those who may succeed them
    FirstBuyers, FirstSupplier, Arbiter,
    Terms,          \* what may be proposed
    SumsTo100,      \* the amendments that keep the percentages at 100
    NoOffer, NoTerms, NoEffect,
    FirstExpiry, FirstDeadline, Steps, MaxExtension,    \* ledgers; 0 is no maximum
    MaxRequests,    \* MaxExtensionRequestsPerMilestone, 0 is no maximum
    PauseNotice,    \* PauseMinNoticeLedgers
    LastLedger      \* bound on the clock and on agreed ledgers

ASSUME ConsentAssumption ==
    /\ FirstBuyers \in Seq(People) /\ FirstSupplier \in People /\ SumsTo100 \subseteq Terms
    /\ {FirstExpiry, FirstDeadline, MaxExtension, MaxRequests, PauseNotice, LastLedger} \subseteq Nat
    /\ Steps \subseteq Nat \ {0} /\ FirstDeadline > 0

VARIABLES
    buyers, supplier,       \* Shipment.buyers, Shipment.supplier
    stage,                  \* the milestone: "Pending", "Disputed" or "Done"
    clock,
    deadline,               \* Milestone.deadline_ledger
    adjusted,               \* MilestoneDeadline, or NoTerms
    expiresAt, extended,       \* expires_at_ledger, TotalExpiryExtended
    pausedAt,               \* ShipmentPausedAt, or NoTerms
    asks,                   \* ExtensionRequestCount
    offer,                  \* the stored proposal of each kind, or NoOffer
    inForce,                \* what was agreed last, by kind
    given, effect           \* history: consents to the offer; what took effect now

partyVars == <<buyers, supplier>>
dueVars == <<deadline, adjusted>>
timeVars == <<clock, dueVars, expiresAt, extended, pausedAt>>
dealVars == <<offer, inForce, given, effect>>
consentVars == <<partyVars, stage, timeVars, asks, dealVars>>

Timed == {"extension", "substitute", "pause", "expiry"}
AllKinds == Timed \cup {"rotation", "amendment", "mediation"}

IsBuyer(a) == a \in Range(buyers)
IsParty(a) == IsBuyer(a) \/ a = supplier
Running == stage # "Done"

ConsentInit ==
    /\ buyers = FirstBuyers /\ supplier = FirstSupplier
    /\ stage = "Pending" /\ clock = 1 /\ asks = 0
    /\ deadline = FirstDeadline /\ adjusted = NoTerms
    /\ expiresAt = FirstExpiry /\ extended = 0 /\ pausedAt = NoTerms
    /\ offer = [k \in AllKinds |-> NoOffer] /\ inForce = [k \in AllKinds |-> NoTerms]
    /\ given = [k \in AllKinds |-> {}] /\ effect = NoEffect

-----------------------------------------------------------------------------
(* Proposals and what becomes of them. *)

Consent(a, side) == [who |-> a, side |-> side]

(* The consents of every side a is on, and the one code that asks for the
   buyers first takes a's to be. *)
BothHats(a) == {Consent(a, s) : s \in {x \in {"buyer", "supplier"} :
                   (x = "buyer" /\ IsBuyer(a)) \/ (x = "supplier" /\ a = supplier)}}
OneHat(a) == {Consent(a, IF IsBuyer(a) THEN "buyer" ELSE "supplier")}

(* The consents so far to these terms: others do not count for them. *)
Counted(kind, terms) == IF offer[kind] # NoOffer /\ offer[kind].terms = terms THEN given[kind] ELSE {}

(* A proposal that stands in the place of any before it. *)
Offer(kind, proposal, consents) ==
    /\ offer' = [offer EXCEPT ![kind] = proposal]
    /\ given' = [given EXCEPT ![kind] = consents]
    /\ effect' = NoEffect /\ UNCHANGED inForce

(* One that keeps what was agreed to about the same terms. *)
Store(kind, proposal, consents) == Offer(kind, proposal, Counted(kind, proposal.terms) \cup consents)

Drop(kind) ==
    /\ offer' = [offer EXCEPT ![kind] = NoOffer]
    /\ given' = [given EXCEPT ![kind] = {}]
    /\ effect' = NoEffect /\ UNCHANGED inForce

Apply(kind, terms, consents) ==
    /\ offer' = [offer EXCEPT ![kind] = NoOffer]
    /\ given' = [given EXCEPT ![kind] = {}]
    /\ inForce' = [inForce EXCEPT ![kind] = terms]
    /\ effect' = [kind |-> kind, terms |-> terms, consents |-> Counted(kind, terms) \cup consents]

Blank(terms) == [terms |-> terms, buyer |-> FALSE, supplier |-> FALSE]

(* Mutant: new terms inherit what was agreed to about the old ones. *)
RenewedKeepsFlags(kind, terms) ==
    IF offer[kind] # NoOffer THEN [offer[kind] EXCEPT !.terms = terms] ELSE Blank(terms)

(* The stored offer when it names the same terms, an offer nobody agreed to
   otherwise. *)
Renewed(kind, terms) ==
    IF offer[kind] # NoOffer /\ offer[kind].terms = terms THEN offer[kind] ELSE Blank(terms)

FlagOne(p, a) == IF IsBuyer(a) THEN [p EXCEPT !.buyer = TRUE] ELSE [p EXCEPT !.supplier = TRUE]

(* propose_arbiter_rotation, propose_amendment: proposing what the other side
   proposed applies it. *)
ProposeMatched(kind, a, terms) ==
    LET p == FlagOne(Renewed(kind, terms), a)
    IN
    /\ Running /\ IsParty(a)
    /\ kind = "amendment" => stage = "Pending"
    /\ IF p.buyer /\ p.supplier
       THEN (kind = "amendment" => terms \in SumsTo100) /\ Apply(kind, terms, OneHat(a))
       ELSE Store(kind, p, OneHat(a))
    /\ UNCHANGED <<partyVars, stage, timeVars, asks>>

ProposeArbiterRotation(a, terms) == ProposeMatched("rotation", a, terms)
ProposeAmendment(a, terms) == ProposeMatched("amendment", a, terms)

(* Both live in temporary storage, which forgets them. *)
ForgetMatched(kind) ==
    /\ offer[kind] # NoOffer /\ Drop(kind)
    /\ UNCHANGED <<partyVars, stage, timeVars, asks>>

(* The mediator suggests, both sides accept, either may decline. *)
ProposeMediation(terms) ==
    /\ stage = "Disputed" /\ Offer("mediation", Blank(terms), {})
    /\ UNCHANGED <<partyVars, stage, timeVars, asks>>

AcceptMediation(a) ==
    LET p == FlagOne(offer["mediation"], a)
        terms == offer["mediation"].terms
    IN
    /\ stage = "Disputed" /\ IsParty(a) /\ offer["mediation"] # NoOffer
    /\ IF p.buyer /\ p.supplier
       THEN Apply("mediation", terms, OneHat(a)) /\ stage' = "Done"
       ELSE Store("mediation", p, OneHat(a)) /\ UNCHANGED stage
    /\ UNCHANGED <<partyVars, timeVars, asks>>

DeclineMediation(a) ==
    /\ IsParty(a) /\ Drop("mediation") /\ UNCHANGED <<partyVars, stage, timeVars, asks>>

-----------------------------------------------------------------------------
(* Ledgers. *)

RequestExtension(extra) ==
    /\ Running /\ offer["extension"] = NoOffer
    /\ MaxRequests > 0 => asks < MaxRequests
    /\ asks' = asks + 1
    /\ Offer("extension", [terms |-> extra], {Consent(supplier, "supplier")})
    /\ UNCHANGED <<partyVars, stage, timeVars>>

(* The extension counts from the adjusted deadline; a milestone that has none
   yet gets one counted from now. *)
ApproveExtension(a) ==
    LET extra == offer["extension"].terms IN
    /\ Running /\ IsBuyer(a) /\ offer["extension"] # NoOffer
    /\ adjusted' = (IF adjusted = NoTerms THEN clock ELSE adjusted) + extra
    /\ Apply("extension", extra, {Consent(a, "buyer")})
    /\ UNCHANGED <<partyVars, stage, clock, deadline, expiresAt, extended, pausedAt, asks>>

DenyExtension(a) ==
    /\ Running /\ IsBuyer(a) /\ offer["extension"] # NoOffer
    /\ Drop("extension") /\ UNCHANGED <<partyVars, stage, timeVars, asks>>

Overdue == stage = "Pending" /\ clock > deadline

ProposeSubstitute(a, successor) ==
    /\ IsBuyer(a) /\ Overdue /\ successor # supplier
    /\ Offer("substitute", [terms |-> successor], {Consent(a, "buyer")})
    /\ UNCHANGED <<partyVars, stage, timeVars, asks>>

ApproveSubstitute ==
    LET successor == offer["substitute"].terms IN
    /\ Overdue /\ offer["substitute"] # NoOffer
    /\ Apply("substitute", successor, {Consent(Arbiter, "arbiter")})
    /\ UNCHANGED <<partyVars, stage, timeVars, asks>>

Due == IF adjusted = NoTerms THEN deadline ELSE adjusted
NoticeGiven == stage = "Pending" /\ Due >= clock => Due - clock >= PauseNotice

RequestPause(a) ==
    /\ Running /\ IsParty(a) /\ pausedAt = NoTerms /\ NoticeGiven
    /\ Offer("pause", [by |-> a, terms |-> "pause"], BothHats(a))
    /\ UNCHANGED <<partyVars, stage, timeVars, asks>>

ApprovePause(a) ==
    /\ Running /\ IsParty(a) /\ pausedAt = NoTerms
    /\ offer["pause"] # NoOffer /\ offer["pause"].terms = "pause" /\ offer["pause"].by # a
    /\ pausedAt' = clock
    /\ Apply("pause", "pause", BothHats(a))
    /\ UNCHANGED <<partyVars, stage, clock, dueVars, expiresAt, extended, asks>>

(* bump_shipment_deadlines_for_pause: what is due moves by the time paused. *)
BumpDeadlines(span) ==
    /\ deadline' = deadline + span
    /\ adjusted' = IF adjusted = NoTerms THEN NoTerms ELSE adjusted + span
    /\ expiresAt' = expiresAt + span

(* The first call asks, another party's call resumes. *)
ResumeShipment(a) ==
    /\ IsParty(a) /\ pausedAt # NoTerms
    /\ offer["pause"] # NoOffer => offer["pause"].by # a
    /\ IF offer["pause"] = NoOffer
       THEN /\ Offer("pause", [by |-> a, terms |-> "resume"], BothHats(a))
            /\ UNCHANGED <<dueVars, expiresAt, pausedAt>>
       ELSE /\ Apply("pause", "resume", BothHats(a))
            /\ BumpDeadlines(clock - pausedAt)
            /\ pausedAt' = NoTerms
    /\ UNCHANGED <<partyVars, stage, clock, extended, asks>>

Extendable(ledger) ==
    /\ Running /\ pausedAt = NoTerms /\ clock < expiresAt /\ ledger > expiresAt
    /\ MaxExtension > 0 => extended + (ledger - expiresAt) <= MaxExtension

ProposeExpiry(a, ledger) ==
    /\ IsParty(a) /\ Extendable(ledger)
    /\ Offer("expiry", [by |-> a, terms |-> ledger, base |-> expiresAt], BothHats(a))
    /\ UNCHANGED <<partyVars, stage, timeVars, asks>>

(* The other side approves: a buyer when the proposer is the supplier now. *)
ApproveExpiry(a) ==
    LET p == offer["expiry"] IN
    /\ p # NoOffer /\ p.by # a
    /\ IF p.by = supplier THEN IsBuyer(a) ELSE a = supplier
    /\ Extendable(p.terms) /\ expiresAt = p.base
    /\ expiresAt' = p.terms /\ extended' = extended + (p.terms - expiresAt)
    /\ Apply("expiry", p.terms, BothHats(a))
    /\ UNCHANGED <<partyVars, stage, clock, dueVars, pausedAt, asks>>

-----------------------------------------------------------------------------
(* The parties, the milestone and the clock. *)

TransferBuyer(a, successor) ==
    /\ IsBuyer(a) /\ stage = "Pending"
    /\ LET i == CHOOSE j \in DOMAIN buyers : buyers[j] = a /\ \A k \in 1..(j - 1) : buyers[k] # a
       IN  buyers' = [buyers EXCEPT ![i] = successor]
    /\ effect' = NoEffect
    /\ UNCHANGED <<supplier, stage, timeVars, asks, offer, inForce, given>>

TransferSupplier(successor) ==
    /\ stage = "Pending" /\ supplier' = successor
    /\ effect' = NoEffect
    /\ UNCHANGED <<buyers, stage, timeVars, asks, offer, inForce, given>>

(* Proofs, disputes and their endings, abstracted to whether the milestone can
   be amended or mediated. *)
MilestoneMoves ==
    /\ stage \in {"Pending", "Disputed"}
    /\ stage' \in {"Pending", "Disputed"} \ {stage}
    /\ effect' = NoEffect
    /\ UNCHANGED <<partyVars, timeVars, asks, offer, inForce, given>>

LedgerCloses ==
    /\ clock < LastLedger /\ clock' = clock + 1 /\ effect' = NoEffect
    /\ UNCHANGED <<partyVars, stage, dueVars, expiresAt, extended, pausedAt, asks, offer, inForce, given>>

RotationStep ==
    \/ \E a \in People, t \in Terms : ProposeArbiterRotation(a, t)
    \/ ForgetMatched("rotation")

AmendmentStep ==
    \/ \E a \in People, t \in Terms : ProposeAmendment(a, t)
    \/ ForgetMatched("amendment")

MediationStep ==
    \/ \E t \in Terms : ProposeMediation(t)
    \/ \E a \in People : AcceptMediation(a) \/ DeclineMediation(a)

ExtensionStep ==
    \/ \E extra \in Steps : RequestExtension(extra)
    \/ \E a \in People : ApproveExtension(a) \/ DenyExtension(a)

SubstituteStep ==
    \/ \E a, successor \in People : ProposeSubstitute(a, successor)
    \/ ApproveSubstitute

PauseStep == \E a \in People : RequestPause(a) \/ ApprovePause(a) \/ ResumeShipment(a)

ExpiryStep ==
    \/ \E a \in People, d \in Steps : expiresAt + d <= LastLedger /\ ProposeExpiry(a, expiresAt + d)
    \/ \E a \in People : ApproveExpiry(a)

PartyStep ==
    \/ \E a, successor \in People : TransferBuyer(a, successor)
    \/ \E successor \in People : TransferSupplier(successor)

(* Behaviours in which only the kinds of K are negotiated. *)
ConsentNext(K) ==
    \/ "rotation" \in K /\ RotationStep
    \/ "amendment" \in K /\ AmendmentStep
    \/ "mediation" \in K /\ MediationStep
    \/ "extension" \in K /\ ExtensionStep
    \/ "substitute" \in K /\ SubstituteStep
    \/ "pause" \in K /\ PauseStep
    \/ "expiry" \in K /\ ExpiryStep
    \/ PartyStep
    \/ MilestoneMoves
    \/ K \cap Timed # {} /\ LedgerCloses

ConsentSpec == ConsentInit /\ [][ConsentNext(AllKinds)]_consentVars

-----------------------------------------------------------------------------
(* The sides whose consent is behind what takes effect now, each as its giver
   held it then. *)
Agreed == {c.side : c \in effect.consents}
Givers == {c.who : c \in effect.consents}

OneBuyer == \A a, b \in Range(buyers) : a = b

(* Those who agreed are both sides, unless one of them is no party any more. *)
BothSidesNow == (\A a \in Givers : IsParty(a)) => supplier \in Givers /\ \E a \in Givers : IsBuyer(a)

(* What the parties agree to takes effect with the consent of both sides to
   exactly those terms, in the roles they held then, however proposals replace
   one another and roles are handed over: of a buyer and the supplier, or a buyer
   and the arbiter for a substitute supplier.  A later expiry takes both sides as
   far as those who agreed are still parties; a pause and a resumption, for which
   the code asks another party, as far as there is also but one buyer. *)
BothSidesAgree ==
    effect # NoEffect =>
        /\ effect.kind = "substitute" => {"buyer", "arbiter"} \subseteq Agreed
        /\ effect.kind = "expiry" => BothSidesNow
        /\ effect.kind = "pause" /\ OneBuyer => BothSidesNow
        /\ effect.kind \notin {"substitute", "expiry", "pause"} => {"buyer", "supplier"} \subseteq Agreed
==============================================================================
