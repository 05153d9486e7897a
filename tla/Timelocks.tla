----------------------------- MODULE Timelocks ------------------------------
(* The delayed decisions of the settlement contract and its time-bound roles
   (contracts/chainsetttle/src/lib.rs): parameter changes behind a timelock,
   emergency recoveries behind a delay, role grants that lapse.

   The caller is always the contract admin; the pause switch, the audit log and
   the events are left out.  Parameters change only through the queue here: their
   direct setters are guarded by a role and share no state with the queue. *)
EXTENDS Naturals

CONSTANTS
    Params,         \* queued parameters: fee_config, max_shipment_value, ...
    Values,         \* values proposed for them
    Locks,          \* settings of timelock_duration and recovery_delay_ledgers
    Shipments,      \* the shipments that may be recovered
    Threshold,      \* RECOVERY_THRESHOLD_LEDGERS
    Roles, Holders, \* granular roles and the addresses they are granted to
    Nothing,        \* an absent entry
    MaxLedger       \* bound on the ledger sequence

ASSUME TimelockAssumption ==
    /\ Locks \subseteq Nat /\ Threshold \in Nat /\ MaxLedger \in Nat /\ Values \subseteq Nat
    /\ Nothing \notin Nat \cup [value : Values, at : 0..MaxLedger, wait : Locks \cup {0}]

VARIABLES
    ledger,                     \* env.ledger().sequence()
    timelock, queue, parameter, \* TimelockDuration, PendingParamChange, the parameters
    asked, enacted,             \* history: latest proposal, latest change
    delay, proposal, status,    \* RecoveryDelayLedgers, PendingRecovery, shipment status
    paidOut,                    \* history: recoveries that paid a shipment's escrow out
    granted, expiry, lastGrant  \* UserRole, RoleExpiry; history: the latest grant

paramVars == <<timelock, queue, parameter, asked, enacted>>
recoveryVars == <<delay, proposal, status, paidOut>>
roleVars == <<granted, expiry, lastGrant>>
tlVars == <<ledger, paramVars, recoveryVars, roleVars>>

Tick ==
    /\ ledger < MaxLedger /\ ledger' = ledger + 1
    /\ UNCHANGED <<paramVars, recoveryVars, roleVars>>

-----------------------------------------------------------------------------
(* Parameter changes. *)

SetTimelockDuration(n) ==
    /\ timelock' = n
    /\ UNCHANGED <<ledger, queue, parameter, asked, enacted, recoveryVars, roleVars>>

(* Mutant: a proposal that replaces a queued one inherits its due ledger. *)
ProposeInheritsDue(p, v) ==
    /\ queue' = [queue EXCEPT ![p] = [value |-> v,
          due |-> IF @ = Nothing THEN ledger + timelock ELSE @.due]]
    /\ asked' = [asked EXCEPT ![p] = [value |-> v, at |-> ledger, wait |-> timelock]]
    /\ UNCHANGED <<ledger, timelock, parameter, enacted, recoveryVars, roleVars>>

(* Queue a change; a change already queued for the parameter is replaced. *)
ProposeParamChange(p, v) ==
    /\ queue' = [queue EXCEPT ![p] = [value |-> v, due |-> ledger + timelock]]
    /\ asked' = [asked EXCEPT ![p] = [value |-> v, at |-> ledger, wait |-> timelock]]
    /\ UNCHANGED <<ledger, timelock, parameter, enacted, recoveryVars, roleVars>>

ExecuteParamChange(p) ==
    /\ queue[p] # Nothing /\ ledger >= queue[p].due
    /\ parameter' = [parameter EXCEPT ![p] = queue[p].value]
    /\ enacted' = [param |-> p, value |-> queue[p].value, at |-> ledger, proposal |-> asked[p]]
    /\ queue' = [queue EXCEPT ![p] = Nothing]
    /\ asked' = [asked EXCEPT ![p] = Nothing]
    /\ UNCHANGED <<ledger, timelock, recoveryVars, roleVars>>

CancelParamChange(p) ==
    /\ queue[p] # Nothing
    /\ queue' = [queue EXCEPT ![p] = Nothing]
    /\ asked' = [asked EXCEPT ![p] = Nothing]
    /\ UNCHANGED <<ledger, timelock, parameter, enacted, recoveryVars, roleVars>>

ParamNext ==
    \/ Tick
    \/ \E n \in Locks : SetTimelockDuration(n)
    \/ \E p \in Params, v \in Values : ProposeParamChange(p, v)
    \/ \E p \in Params : ExecuteParamChange(p) \/ CancelParamChange(p)

-----------------------------------------------------------------------------
(* Emergency recovery of a shipment that has been left behind (created at
   ledger 0).  Closing it otherwise - completion, cancellation - may happen at
   any moment, also while a recovery is proposed. *)

SetRecoveryDelay(n) ==
    /\ delay' = n
    /\ UNCHANGED <<ledger, proposal, status, paidOut, paramVars, roleVars>>

Recoverable(s) == status[s] = "Active" /\ ledger > Threshold

(* Mutant: a shipment found recoverable when the recovery was proposed is not
   looked at again. *)
RecoverUnchecked(s) ==
    /\ ledger > Threshold
    /\ status' = [status EXCEPT ![s] = "Cancelled"]
    /\ paidOut' = [paidOut EXCEPT ![s] = @ + 1]

(* do_emergency_recover: pay the remaining escrow to the admin and close. *)
Recover(s) ==
    /\ Recoverable(s)
    /\ status' = [status EXCEPT ![s] = "Cancelled"]
    /\ paidOut' = [paidOut EXCEPT ![s] = @ + 1]

(* The single-step entry point does not look at the delay, and leaves a
   proposal for the shipment where it is. *)
EmergencyRecover(s) ==
    /\ Recover(s)
    /\ UNCHANGED <<ledger, delay, proposal, paramVars, roleVars>>

ProposeRecovery(s) ==
    /\ Recoverable(s)
    /\ IF delay = 0
       THEN Recover(s) /\ UNCHANGED proposal
       ELSE /\ proposal' = [proposal EXCEPT ![s] = ledger + delay]
            /\ UNCHANGED <<status, paidOut>>
    /\ UNCHANGED <<ledger, delay, paramVars, roleVars>>

ExecuteRecovery(s) ==
    /\ proposal[s] # Nothing /\ ledger >= proposal[s]
    /\ proposal' = [proposal EXCEPT ![s] = Nothing]
    /\ Recover(s)
    /\ UNCHANGED <<ledger, delay, paramVars, roleVars>>

CancelRecovery(s) ==
    /\ proposal[s] # Nothing
    /\ proposal' = [proposal EXCEPT ![s] = Nothing]
    /\ UNCHANGED <<ledger, delay, status, paidOut, paramVars, roleVars>>

(* The shipment's own life, seen from here: it stops being active and its
   escrow is paid to the parties. *)
ShipmentCloses(s) ==
    /\ status[s] = "Active"
    /\ status' = [status EXCEPT ![s] = "Completed"]
    /\ UNCHANGED <<ledger, delay, proposal, paidOut, paramVars, roleVars>>

RecoveryNext ==
    \/ Tick
    \/ \E n \in Locks : SetRecoveryDelay(n)
    \/ \E s \in Shipments :
          \/ EmergencyRecover(s) \/ ProposeRecovery(s) \/ ExecuteRecovery(s)
          \/ CancelRecovery(s) \/ ShipmentCloses(s)

-----------------------------------------------------------------------------
(* Roles.  A grant without an expiry removes the expiry of the grant before. *)

(* Mutant: a permanent grant leaves the expiry of the grant it replaces. *)
GrantKeepsExpiry(r, h, until) ==
    /\ until # Nothing => until > ledger
    /\ granted' = granted \cup {<<r, h>>}
    /\ expiry' = IF until = Nothing THEN expiry ELSE [expiry EXCEPT ![<<r, h>>] = until]
    /\ lastGrant' = [lastGrant EXCEPT ![<<r, h>>] = [held |-> TRUE, until |-> until]]
    /\ UNCHANGED <<ledger, paramVars, recoveryVars>>

GrantRole(r, h, until) ==
    /\ until # Nothing => until > ledger
    /\ granted' = granted \cup {<<r, h>>}
    /\ expiry' = [expiry EXCEPT ![<<r, h>>] = until]
    /\ lastGrant' = [lastGrant EXCEPT ![<<r, h>>] = [held |-> TRUE, until |-> until]]
    /\ UNCHANGED <<ledger, paramVars, recoveryVars>>

RevokeRole(r, h) ==
    /\ granted' = granted \ {<<r, h>>}
    /\ expiry' = [expiry EXCEPT ![<<r, h>>] = Nothing]
    /\ lastGrant' = [lastGrant EXCEPT ![<<r, h>>] = [held |-> FALSE, until |-> Nothing]]
    /\ UNCHANGED <<ledger, paramVars, recoveryVars>>

HasRole(r, h) == <<r, h>> \in granted /\ (expiry[<<r, h>>] # Nothing => ledger < expiry[<<r, h>>])

RoleNext ==
    \/ Tick
    \/ \E r \in Roles, h \in Holders :
          \/ RevokeRole(r, h)
          \/ \E until \in {Nothing} \cup (1..MaxLedger) : GrantRole(r, h, until)

-----------------------------------------------------------------------------
TimelockInit ==
    /\ ledger = 0
    /\ timelock = 0 /\ queue = [p \in Params |-> Nothing] /\ parameter = [p \in Params |-> Nothing]
    /\ asked = [p \in Params |-> Nothing] /\ enacted = Nothing
    /\ delay = 0 /\ proposal = [s \in Shipments |-> Nothing]
    /\ status = [s \in Shipments |-> "Active"] /\ paidOut = [s \in Shipments |-> 0]
    /\ granted = {} /\ expiry = [x \in Roles \X Holders |-> Nothing]
    /\ lastGrant = [x \in Roles \X Holders |-> [held |-> FALSE, until |-> Nothing]]

TimelockNext == ParamNext \/ RecoveryNext \/ RoleNext
TimelockSpec == TimelockInit /\ [][TimelockNext]_tlVars

-----------------------------------------------------------------------------
(* Properties. *)

(* A parameter changes only to the value proposed last for it, and only once
   the wait in force at that last proposal has passed since: replacing a queued
   change starts the wait again, and cancelling it means it never comes. *)
TimelockHonoured ==
    enacted # Nothing =>
        /\ enacted.proposal # Nothing
        /\ enacted.proposal.value = enacted.value
        /\ enacted.at >= enacted.proposal.at + enacted.proposal.wait

(* A shipment's escrow is recovered at most once and only while the shipment is
   active, whatever recoveries were proposed, left behind by the single-step
   path or overtaken by the shipment's own completion. *)
RecoveredOnce == \A s \in Shipments :
    paidOut[s] = IF status[s] = "Cancelled" THEN 1 ELSE 0

(* A role is held exactly as the latest grant or revocation of it says: no
   expiry of an earlier grant shortens or outlives a later one. *)
RoleIsLatestGrant == \A r \in Roles, h \in Holders :
    HasRole(r, h) <=>
        /\ lastGrant[<<r, h>>].held
        /\ lastGrant[<<r, h>>].until = Nothing \/ ledger < lastGrant[<<r, h>>].until
=============================================================================
