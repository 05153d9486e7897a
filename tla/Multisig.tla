------------------------------ MODULE Multisig ------------------------------
(* Governance of the settlement contract (contracts/chainsetttle/src/lib.rs):
   the admin key and its two-step handover, the multi-signature configuration,
   and everything its members decide by ballot - contract upgrades, the
   emergency freeze and its lifting, fee waivers, generic admin actions.

   Each call is authorised by its caller, so the caller is the parameter "a".
   The audit log, events and storage lifetimes are left out. *)
EXTENDS Naturals, Sequences, FiniteSets, Functions

CONSTANTS
    Accounts,       \* the addresses that may hold a governance key
    NoAccount,      \* no pending nomination
    Hashes,         \* contract code hashes
    Partners,       \* addresses a fee waiver may be granted to
    Waivers,        \* waiver terms (basis points and expiry)
    NoWaiver,
    ActionIds,      \* identifiers of generic admin actions
    Configs,        \* the multi-signature configurations tried
    NoConfig,
    Whole,          \* 10_000 basis points
    Shares,         \* supermajority settings tried
    DefaultShare,   \* DEFAULT_EMERGENCY_FREEZE_SUPERMAJORITY_BPS
    MaxBallots      \* bound on the ballots opened in a behaviour

ASSUME GovernanceAssumption ==
    /\ NoAccount \notin Accounts /\ NoConfig \notin Configs
    /\ Configs \subseteq [admins : Seq(Accounts), threshold : Nat]
    /\ Whole \in Nat \ {0} /\ DefaultShare \in 1..Whole

VARIABLES
    admin, pendingAdmin,    \* Admin, PendingAdmin
    config,                 \* MultiAdminConfig
    share,                  \* EmergencyFreezeSupermajorityBps
    counter,                \* the three proposal counters
    pending,                \* open ballots: <<kind, id>> -> payload and approvals
    actionApprovals,        \* AdminApprovals(action_id)
    wasm, frozen, waiver,   \* the installed code, EmergencyFrozen, FeeWaiver(partner)
    decided, closed   \* history: see the properties

ballotVars == <<counter, pending, closed>>
effectVars == <<wasm, frozen, waiver>>
keyVars == <<admin, pendingAdmin>>
msVars == <<keyVars, config, share, ballotVars, actionApprovals, effectVars, decided>>

Kinds == {"upgrade", "freeze", "unfreeze", "waiver"}
Counters == {"upgrade", "freeze", "waiver"}

-----------------------------------------------------------------------------
(* Who may vote, and how many votes carry a ballot. *)

Member(a) == config # NoConfig /\ a \in Range(config.admins)

(* Mutant: a supermajority rounded down. *)
SupermajorityFloor(total, bps) == IF (total * bps) \div Whole > 1 THEN (total * bps) \div Whole ELSE 1

SupermajorityRequired(total, bps) ==
    LET required == (total * bps + (Whole - 1)) \div Whole
    IN  IF required > 1 THEN required ELSE 1

Required(kind) ==
    IF kind \in {"freeze", "unfreeze"}
    THEN SupermajorityRequired(Len(config.admins), share)
    ELSE config.threshold

(* What the configuration promises, independently of the code's arithmetic:
   the least number of voters that is at least the share of the seats. *)
Promised(kind) ==
    IF kind \in {"freeze", "unfreeze"}
    THEN CHOOSE n \in 1..(Len(config.admins) + 1) :
            /\ n * Whole >= Len(config.admins) * share
            /\ \A m \in 1..(n - 1) : m * Whole < Len(config.admins) * share
    ELSE config.threshold

Record(kind, voters) ==
    decided' = [voters |-> Range(voters), promised |-> Promised(kind)]

-----------------------------------------------------------------------------
(* What a carried ballot does, by kind. *)

ExecuteUpgradeProposal(ballot) == wasm' = ballot.payload /\ UNCHANGED <<frozen, waiver>>
ExecuteFreezeProposal == frozen' = TRUE /\ UNCHANGED <<wasm, waiver>>
ExecuteUnfreezeProposal == frozen' = FALSE /\ UNCHANGED <<wasm, waiver>>
ExecuteWaiverProposal(ballot) ==
    /\ waiver' = [waiver EXCEPT ![ballot.payload.partner] = ballot.payload.terms]
    /\ UNCHANGED <<wasm, frozen>>

Execute(kind, ballot) ==
    \/ kind = "upgrade" /\ ExecuteUpgradeProposal(ballot)
    \/ kind = "freeze" /\ ExecuteFreezeProposal
    \/ kind = "unfreeze" /\ ExecuteUnfreezeProposal
    \/ kind = "waiver" /\ ExecuteWaiverProposal(ballot)

(* Mutant: the proposal is left in storage once it is decided. *)
KeptOnFile(key) == pending

Discarded(key) == [k \in DOMAIN pending \ {key} |-> pending[k]]

(* Store a ballot that has just gained a vote; decide it when it carries. *)
Poll(key, ballot) ==
    IF Len(ballot.approvals) >= Required(key[1])
    THEN /\ pending' = Discarded(key)
         /\ closed' = closed \cup {key}
         /\ Execute(key[1], ballot)
         /\ Record(key[1], ballot.approvals)
    ELSE /\ pending' = [k \in DOMAIN pending \cup {key} |-> IF k = key THEN ballot ELSE pending[k]]
         /\ UNCHANGED <<closed, effectVars, decided>>

(* Open a ballot under the next identifier of its counter; the proposer votes. *)
Propose(kind, count, a, payload) ==
    /\ Member(a)
    /\ counter["upgrade"] + counter["freeze"] + counter["waiver"] < MaxBallots
    /\ counter' = [counter EXCEPT ![count] = @ + 1]
    /\ Poll(<<kind, counter[count] + 1>>, [payload |-> payload, approvals |-> <<a>>])
    /\ UNCHANGED <<keyVars, config, share, actionApprovals>>

(* Mutant: a second approval by the same key is counted. *)
ApproveTwice(kind, a, id) ==
    /\ Member(a) /\ <<kind, id>> \in DOMAIN pending
    /\ Poll(<<kind, id>>, [pending[<<kind, id>>] EXCEPT !.approvals = Append(@, a)])
    /\ UNCHANGED <<keyVars, config, share, counter, actionApprovals>>

Approve(kind, a, id) ==
    /\ Member(a) /\ <<kind, id>> \in DOMAIN pending
    /\ a \notin Range(pending[<<kind, id>>].approvals)
    /\ Poll(<<kind, id>>, [pending[<<kind, id>>] EXCEPT !.approvals = Append(@, a)])
    /\ UNCHANGED <<keyVars, config, share, counter, actionApprovals>>

-----------------------------------------------------------------------------
(* Upgrades.  The single-key path is closed once a configuration exists. *)

Upgrade(a, hash) ==
    /\ a = admin /\ config = NoConfig
    /\ wasm' = hash
    /\ UNCHANGED <<keyVars, config, share, ballotVars, actionApprovals, frozen, waiver, decided>>

ProposeUpgrade(a, hash) == Propose("upgrade", "upgrade", a, hash)
ApproveUpgrade(a, id) == Approve("upgrade", a, id)

CancelUpgrade(a, id) ==
    /\ Member(a) /\ <<"upgrade", id>> \in DOMAIN pending
    /\ pending' = Discarded(<<"upgrade", id>>)
    /\ closed' = closed \cup {<<"upgrade", id>>}
    /\ UNCHANGED <<keyVars, config, share, counter, actionApprovals, effectVars, decided>>

-----------------------------------------------------------------------------
(* The emergency freeze.  Both directions draw identifiers from one counter;
   without a configuration the admin acts alone. *)

FreezeAlone(a, on) ==
    /\ config = NoConfig /\ a = admin
    /\ frozen' = on
    /\ UNCHANGED <<keyVars, config, share, ballotVars, actionApprovals, wasm, waiver, decided>>

ProposeFreeze(a) == FreezeAlone(a, TRUE) \/ Propose("freeze", "freeze", a, NoAccount)
ApproveFreeze(a, id) == Approve("freeze", a, id)
ProposeUnfreeze(a) == FreezeAlone(a, FALSE) \/ Propose("unfreeze", "freeze", a, NoAccount)
ApproveUnfreeze(a, id) == Approve("unfreeze", a, id)

SetFreezeSupermajority(a, bps) ==
    /\ a = admin /\ bps \in 1..Whole
    /\ share' = bps
    /\ UNCHANGED <<keyVars, config, ballotVars, actionApprovals, effectVars, decided>>

-----------------------------------------------------------------------------
(* Fee waivers: ballots only, there is no single-admin path. *)

ProposeWaiver(a, partner, terms) ==
    Propose("waiver", "waiver", a, [partner |-> partner, terms |-> terms])
ApproveWaiver(a, id) == Approve("waiver", a, id)

-----------------------------------------------------------------------------
(* Generic admin actions: the identifier alone collects the approvals, the
   operation that runs is the one named by the caller who completes them. *)

ProposeAdminAction(a, x) ==
    /\ Member(a) /\ a \notin Range(actionApprovals[x])
    /\ LET approvals == Append(actionApprovals[x], a) IN
       IF Len(approvals) >= config.threshold
       THEN /\ actionApprovals' = [actionApprovals EXCEPT ![x] = <<>>]
            /\ Record("action", approvals)
       ELSE /\ actionApprovals' = [actionApprovals EXCEPT ![x] = approvals]
            /\ UNCHANGED decided
    /\ UNCHANGED <<keyVars, config, share, ballotVars, effectVars>>

-----------------------------------------------------------------------------
(* The admin key. *)

InitializeMultisig(a, c) ==
    /\ a = admin
    /\ Len(c.admins) >= 1 /\ c.threshold >= 1 /\ c.threshold <= Len(c.admins)
    /\ config' = c
    /\ UNCHANGED <<keyVars, share, ballotVars, actionApprovals, effectVars, decided>>

NominateAdmin(a, nominee) ==
    /\ a = admin
    /\ pendingAdmin' = nominee
    /\ UNCHANGED <<admin, config, share, ballotVars, actionApprovals, effectVars, decided>>

AcceptAdmin(a) ==
    /\ pendingAdmin = a
    /\ admin' = a /\ pendingAdmin' = NoAccount
    /\ UNCHANGED <<config, share, ballotVars, actionApprovals, effectVars, decided>>

RevokeNomination(a) ==
    /\ a = admin /\ pendingAdmin' = NoAccount
    /\ UNCHANGED <<admin, config, share, ballotVars, actionApprovals, effectVars, decided>>

-----------------------------------------------------------------------------
MultisigInit ==
    /\ admin \in Accounts /\ pendingAdmin = NoAccount
    /\ config = NoConfig /\ share = DefaultShare
    /\ counter = [c \in Counters |-> 0] /\ pending = <<>> /\ closed = {}
    /\ actionApprovals = [x \in ActionIds |-> <<>>]
    /\ wasm \in Hashes /\ frozen = FALSE /\ waiver = [p \in Partners |-> NoWaiver]
    /\ decided = [voters |-> {}, promised |-> 0]

BallotNext ==
    \E a \in Accounts :
        \/ \E h \in Hashes : Upgrade(a, h) \/ ProposeUpgrade(a, h)
        \/ \E id \in 1..MaxBallots :
              \/ ApproveUpgrade(a, id) \/ CancelUpgrade(a, id)
              \/ ApproveFreeze(a, id) \/ ApproveUnfreeze(a, id) \/ ApproveWaiver(a, id)
        \/ ProposeFreeze(a) \/ ProposeUnfreeze(a)
        \/ \E bps \in Shares : SetFreezeSupermajority(a, bps)
        \/ \E p \in Partners, w \in Waivers : ProposeWaiver(a, p, w)
        \/ \E x \in ActionIds : ProposeAdminAction(a, x)
        \/ \E c \in Configs : InitializeMultisig(a, c)

HandoverNext ==
    \E a \in Accounts :
        \/ \E nominee \in Accounts : NominateAdmin(a, nominee)
        \/ AcceptAdmin(a) \/ RevokeNomination(a)

MultisigNext == BallotNext \/ HandoverNext
MultisigSpec == MultisigInit /\ [][MultisigNext]_msVars

-----------------------------------------------------------------------------
(* Properties. *)

(* Every decision, of any kind, is carried by as many different keys as the
   configuration in force asks for: no sequence of proposals, second approvals,
   reconfigurations and shared counters lets fewer keys decide. *)
CarriedByEnough == Cardinality(decided.voters) >= decided.promised

(* An executed or cancelled ballot is gone for good: its identifier never
   collects another approval, and is never issued again. *)
DecidedOnce ==
    /\ DOMAIN pending \cap closed = {}
    /\ \A key \in closed : key[2] <= counter[IF key[1] = "unfreeze" THEN "freeze" ELSE key[1]]
=============================================================================
