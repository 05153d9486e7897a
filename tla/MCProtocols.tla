---------------------------- MODULE MCProtocols -----------------------------
(* The protocols around a shipment for TLC.  They share no state that their
   properties depend on, so a behaviour runs one part of one of them, named by
   "part", and leaves the others where they started. *)
EXTENDS Multisig, Timelocks, Treasury, CustodyLog, PagedMigration, Arbitration,
        Consents, MilestoneTerms, Limits

CONSTANTS
    a1, a2, a3, a4, a5, a6, t1,
    Parts       \* the parts a run looks at

VARIABLE part

MCConfigs == {[admins |-> <<a1, a2, a3>>, threshold |-> 2], [admins |-> <<a2, a2>>, threshold |-> 1]}
MCPool == <<a1, a2, a3, a4, a5>>
MCBuyers == <<a1, a2>>
MCPercents == <<40, 60>>
MCWeights == {<<>>, <<3500, 6500>>}

Multisigs == {"ballots", "handover"}
Timelocked == {"params", "recovery", "roles"}
Treasuries == {"escrow", "orders"}
Arbitrations == {"pool", "draw", "vote"}
Limited == {"outflow", "commitments", "cancels"}
(* Votes of one milestone are enough to meet the panels of another. *)
OneIndex == CHOOSE i \in Indices : TRUE

AllParts == Multisigs \cup Timelocked \cup Treasuries \cup {"custody", "migration"}
              \cup Arbitrations \cup AllKinds \cup {"terms"} \cup Limited

(* The ballots are held under one admin, the votes among arbiters without a
   history; what a part does not run starts in one state. *)
MCInit ==
    /\ part \in Parts
    /\ MultisigInit /\ TimelockInit /\ TreasuryInit /\ CustodyInit /\ MigrationInit
    /\ ArbitrationInit /\ ConsentInit /\ TermsInit /\ LimitsInit
    /\ part # "handover" => admin = a1
    /\ part \notin {"pool", "draw"} => historySize = 0 /\ ~fromPool
    /\ part # "terms" => weights = <<>>

AllButMultisig == <<tlVars, trVars, custodyVars, migrationVars, arbVars, consentVars, termsVars, limitVars>>
AllButTimelocks == <<msVars, trVars, custodyVars, migrationVars, arbVars, consentVars, termsVars, limitVars>>
AllButTreasury == <<msVars, tlVars, custodyVars, migrationVars, arbVars, consentVars, termsVars, limitVars>>
AllButCustody == <<msVars, tlVars, trVars, migrationVars, arbVars, consentVars, termsVars, limitVars>>
AllButMigration == <<msVars, tlVars, trVars, custodyVars, arbVars, consentVars, termsVars, limitVars>>
AllButArbitration == <<msVars, tlVars, trVars, custodyVars, migrationVars, consentVars, termsVars, limitVars>>
AllButConsents == <<msVars, tlVars, trVars, custodyVars, migrationVars, arbVars, termsVars, limitVars>>
AllButLimits == <<msVars, tlVars, trVars, custodyVars, migrationVars, arbVars, consentVars, termsVars>>
AllButTerms == <<msVars, tlVars, trVars, custodyVars, migrationVars, arbVars, consentVars, limitVars>>

MCNext ==
    /\ UNCHANGED part
    /\ \/ part = "ballots" /\ BallotNext /\ UNCHANGED AllButMultisig
       \/ part = "handover" /\ HandoverNext /\ UNCHANGED AllButMultisig
       \/ part = "params" /\ ParamNext /\ UNCHANGED AllButTimelocks
       \/ part = "recovery" /\ RecoveryNext /\ UNCHANGED AllButTimelocks
       \/ part = "roles" /\ RoleNext /\ UNCHANGED AllButTimelocks
       \/ part = "escrow" /\ EscrowNext /\ UNCHANGED AllButTreasury
       \/ part = "orders" /\ OrderNext /\ UNCHANGED AllButTreasury
       \/ part = "custody" /\ CustodyNext /\ UNCHANGED AllButCustody
       \/ part = "migration" /\ MigrationNext /\ UNCHANGED AllButMigration
       \/ part = "pool" /\ PoolNext /\ UNCHANGED AllButArbitration
       \/ part = "draw" /\ DrawNext /\ UNCHANGED AllButArbitration
       \/ part = "vote" /\ VoteNext({OneIndex}) /\ UNCHANGED AllButArbitration
       \/ part \in AllKinds /\ ConsentNext({part}) /\ UNCHANGED AllButConsents
       \/ part = "terms" /\ TermsNext /\ UNCHANGED AllButTerms
       \/ part = "outflow" /\ OutflowNext /\ UNCHANGED AllButLimits
       \/ part = "commitments" /\ CommitmentNext /\ UNCHANGED AllButLimits
       \/ part = "cancels" /\ CancelNext /\ UNCHANGED AllButLimits

MCSpec == MCInit /\ [][MCNext]_<<part, AllButTerms, termsVars>>
=============================================================================
