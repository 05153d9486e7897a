-------------------------- MODULE GovernanceProofs --------------------------
(* Governance for every set of keys, configuration, supermajority, parameter,
   wait, shipment, role and ledger: a decision is carried by as many different
   keys as promised and a decided ballot never comes back; no change comes before
   its wait, no recovery twice, no role beyond its latest grant. *)
EXTENDS Multisig, Timelocks, FiniteSetTheorems, FunctionTheorems, SequenceTheorems, TLAPS

Payloads == Hashes \cup {NoAccount} \cup [partner : Partners, terms : Waivers]
Ballots == [payload : Payloads, approvals : Seq(Accounts)]
CounterOf(kind) == IF kind = "unfreeze" THEN "freeze" ELSE kind

(* No key appears twice among the approvals. *)
Distinct(voters) == \A i, j \in 1..Len(voters) : voters[i] = voters[j] => i = j

GovernanceTyped ==
    /\ config \in Configs \cup {NoConfig} /\ share \in 1..Whole
    /\ counter \in [Counters -> Nat]
    /\ actionApprovals \in [ActionIds -> Seq(Accounts)]
    /\ \A key \in DOMAIN pending : key \in Kinds \X Nat /\ pending[key] \in Ballots
    /\ closed \subseteq Kinds \X Nat

OneVoteEach ==
    /\ \A key \in DOMAIN pending : Distinct(pending[key].approvals)
    /\ \A x \in ActionIds : Distinct(actionApprovals[x])

IdsIssued == \A key \in DOMAIN pending : key[2] <= counter[CounterOf(key[1])]

GovernanceInv == GovernanceTyped /\ OneVoteEach /\ IdsIssued /\ DecidedOnce /\ CarriedByEnough

-----------------------------------------------------------------------------
(* Counting votes. *)

(* Distinct approvals are as many keys as the list is long. *)
LEMMA VotersCounted ==
    ASSUME NEW voters \in Seq(Accounts), Distinct(voters)
    PROVE  Cardinality(Range(voters)) = Len(voters)
<1>. DEFINE n == Len(voters)
<1>1. n \in Nat /\ voters \in [1..n -> Accounts] /\ DOMAIN voters = 1..n
  BY LenProperties
<1>2. Range(voters) = {voters[i] : i \in 1..n}
  BY <1>1 DEF Range
<1>3. voters \in [1..n -> Range(voters)]
  BY <1>1, <1>2
<1>4. voters \in Bijection(1..n, Range(voters))
  BY <1>2, <1>3 DEF Distinct, Bijection, Injection, Surjection, IsInjective
<1>5. ExistsBijection(1..n, Range(voters))
  BY <1>4 DEF ExistsBijection
<1>. QED BY <1>1, <1>5, FS_CountingElements

(* An approval by a key not yet on the list keeps it distinct. *)
LEMMA NewVote ==
    ASSUME NEW voters \in Seq(Accounts), Distinct(voters), NEW a \in Accounts, a \notin Range(voters)
    PROVE  Append(voters, a) \in Seq(Accounts) /\ Distinct(Append(voters, a))
<1>. DEFINE n == Len(voters)
            longer == Append(voters, a)
<1>1. /\ longer \in Seq(Accounts) /\ Len(longer) = n + 1 /\ n \in Nat
      /\ \A i \in 1..n : longer[i] = voters[i]
      /\ longer[n + 1] = a
  BY AppendProperties, LenProperties
<1>2. \A i \in 1..n : voters[i] # a
  BY LenProperties DEF Range
<1>3. ASSUME NEW i \in 1..(n + 1), NEW j \in 1..(n + 1), longer[i] = longer[j]
      PROVE  i = j
  <2>1. CASE i \in 1..n /\ j \in 1..n
    BY <1>1, <1>3, <2>1 DEF Distinct
  <2>2. CASE i = n + 1 \/ j = n + 1
    BY <1>1, <1>2, <1>3, <2>2
  <2>. QED BY <1>1, <2>1, <2>2
<1>. QED BY <1>1, <1>3 DEF Distinct

LEMMA TimesMonotone ==
    ASSUME NEW x \in Nat, NEW y \in Nat, NEW w \in Nat, x <= y
    PROVE  x * w <= y * w
<1>1. PICK d \in Nat : y = x + d
  <2>1. y - x \in Nat /\ y = x + (y - x)
    OBVIOUS
  <2>. QED BY <2>1
<1>2. y * w = x * w + d * w /\ d * w \in Nat /\ x * w \in Nat
  BY <1>1
<1>. QED BY <1>2

(* The rounded-up quotient is the least multiple of w that reaches t. *)
LEMMA RoundedUp ==
    ASSUME NEW t \in Nat, NEW w \in Nat \ {0}, NEW q, q = (t + (w - 1)) \div w
    PROVE  q \in Nat /\ t <= q * w /\ (q >= 1 => (q - 1) * w < t)
<1>. DEFINE s == t + (w - 1)
<1>1. s \in Nat /\ q = s \div w
  OBVIOUS
<1>2. /\ q \in Nat /\ s % w \in 0..(w - 1)
      /\ s = w * q + (s % w)
  <2>. HIDE DEF s
  <2>. QED BY <1>1
<1>3. q * w = w * q /\ (q >= 1 => (q - 1) * w = w * q - w)
  BY <1>2
<1>4. w * q \in Nat /\ s % w \in Nat /\ s % w < w
  BY <1>2
<1>. QED BY <1>2, <1>3, <1>4

(* The code's ceiling and the promise agree: as many votes as required are as
   many as promised. *)
LEMMA RequiredIsPromised ==
    ASSUME config \in Configs, share \in 1..Whole,
           NEW kind, NEW n \in Nat, n >= Required(kind)
    PROVE  n >= Promised(kind)
<1>. DEFINE seats == Len(config.admins)
            t == seats * share
            q == (t + (Whole - 1)) \div Whole
            needed == IF q > 1 THEN q ELSE 1
            Least(m) == m * Whole >= t /\ \A k \in 1..(m - 1) : k * Whole < t
<1>1. CASE kind \notin {"freeze", "unfreeze"}
  BY <1>1 DEF Required, Promised
<1>2. CASE kind \in {"freeze", "unfreeze"}
  <2>1. config.admins \in Seq(Accounts) /\ seats \in Nat
    BY GovernanceAssumption, LenProperties
  <2>2. Whole \in Nat \ {0} /\ share \in Nat /\ share <= Whole
    BY GovernanceAssumption
  <2>3. t \in Nat /\ t <= seats * Whole
    <3>1. share * seats <= Whole * seats
      BY <2>1, <2>2, TimesMonotone
    <3>2. share * seats = seats * share /\ Whole * seats = seats * Whole
      BY <2>1, <2>2
    <3>. QED BY <2>1, <2>2, <3>1, <3>2
  <2>4. q \in Nat /\ t <= q * Whole /\ (q >= 1 => (q - 1) * Whole < t)
    <3>. HIDE DEF t
    <3>. QED BY <2>2, <2>3, RoundedUp
  <2>5. needed \in Nat /\ needed >= 1 /\ needed * Whole >= t
    <3>. HIDE DEF q, t
    <3>1. CASE q > 1
      BY <2>4, <3>1
    <3>2. CASE q <= 1
      <4>1. q * Whole <= 1 * Whole
        BY <2>2, <2>4, <3>2, TimesMonotone
      <4>2. needed = 1
        BY <2>4, <3>2
      <4>. QED BY <2>2, <2>3, <2>4, <4>1, <4>2
    <3>. QED BY <2>4, <3>1, <3>2
  <2>6. ASSUME NEW k \in Nat, k * Whole < t, k >= 1
        PROVE  k < needed
    <3>. HIDE DEF needed, t
    <3>1. CASE k >= needed
      BY <2>2, <2>3, <2>5, <2>6, <3>1, TimesMonotone
    <3>. QED BY <2>5, <3>1
  <2>7. ASSUME NEW k \in Nat, k >= 1, k < needed
        PROVE  k * Whole < t
    <3>. HIDE DEF t
    <3>1. q > 1 /\ needed = q
      BY <2>4, <2>7
    <3>. HIDE DEF q, needed
    <3>2. k <= q - 1 /\ q - 1 \in Nat
      BY <2>4, <2>7, <3>1
    <3>3. k * Whole <= (q - 1) * Whole
      BY <2>2, <3>2, TimesMonotone
    <3>. QED BY <2>2, <2>3, <2>4, <3>1, <3>2, <3>3
  <2>8. needed <= seats + 1
    <3>. HIDE DEF needed, t
    <3>1. CASE needed > seats + 1
      <4>1. (seats + 1) * Whole < t
        BY <2>1, <2>7, <3>1
      <4>2. seats * Whole <= (seats + 1) * Whole
        BY <2>1, <2>2, TimesMonotone
      <4>. QED BY <2>1, <2>2, <2>3, <4>1, <4>2
    <3>. QED BY <2>1, <2>5, <3>1
  <2>9. needed \in 1..(seats + 1) /\ Least(needed)
    <3>. HIDE DEF needed, t
    <3>. QED BY <2>1, <2>5, <2>7, <2>8
  <2>10. Promised(kind) = CHOOSE m \in 1..(seats + 1) : Least(m)
    BY <1>2 DEF Promised
  <2>11. Promised(kind) \in 1..(seats + 1) /\ Least(Promised(kind))
    <3>. HIDE DEF Least, needed, seats
    <3>. QED BY <2>9, <2>10
  <2>12. Promised(kind) <= needed
    <3>1. CASE Promised(kind) > needed
      <4>1. needed \in 1..(Promised(kind) - 1)
        BY <2>1, <2>5, <2>11, <3>1
      <4>2. needed * Whole < t
        BY <2>11, <4>1
      <4>. HIDE DEF needed, t
      <4>. QED BY <2>2, <2>3, <2>5, <4>2
    <3>. QED BY <2>1, <2>5, <2>11, <3>1
  <2>13. Required(kind) = needed
    BY <1>2 DEF Required, SupermajorityRequired
  <2>. HIDE DEF needed, seats
  <2>. QED BY <2>1, <2>5, <2>11, <2>12, <2>13
<1>. QED BY <1>1, <1>2

-----------------------------------------------------------------------------
(* Steps. *)

(* What a poll must be given: a member's ballot, issued and not yet closed. *)
Votable(key, ballot) ==
    /\ config \in Configs
    /\ key \in Kinds \X Nat /\ key \notin closed
    /\ ballot \in Ballots /\ Distinct(ballot.approvals)

(* A decision by a long enough list of different keys is carried by enough. *)
LEMMA RecordKeeps ==
    ASSUME config \in Configs, share \in 1..Whole, NEW kind, NEW voters \in Seq(Accounts),
           Distinct(voters), Len(voters) >= Required(kind), Record(kind, voters)
    PROVE  CarriedByEnough'
<1>1. Cardinality(Range(voters)) = Len(voters) /\ Len(voters) \in Nat
  BY VotersCounted, LenProperties
<1>2. Len(voters) >= Promised(kind)
  BY <1>1, RequiredIsPromised
<1>3. decided'.voters = Range(voters) /\ decided'.promised = Promised(kind)
  BY DEF Record
<1>. QED BY <1>1, <1>2, <1>3 DEF CarriedByEnough

(* Polling an issued, open ballot keeps the invariant, given what the caller
   does to the rest of the state. *)
LEMMA PollKeeps ==
    ASSUME GovernanceInv, NEW key, NEW ballot, Votable(key, ballot), Poll(key, ballot),
           UNCHANGED <<config, share, actionApprovals>>,
           counter' \in [Counters -> Nat], \A c \in Counters : counter[c] <= counter'[c],
           key[2] <= counter'[CounterOf(key[1])]
    PROVE  GovernanceInv'
<1>1. /\ config \in Configs /\ key \in Kinds \X Nat /\ key \notin closed
      /\ ballot \in Ballots /\ Distinct(ballot.approvals)
  BY DEF Votable
<1>2. \A k \in Kinds \X Nat : CounterOf(k[1]) \in Counters /\ k[2] \in Nat
  BY DEF Kinds, Counters, CounterOf
<1>3. ASSUME NEW k \in Kinds \X Nat, k[2] <= counter[CounterOf(k[1])]
      PROVE  k[2] <= counter'[CounterOf(k[1])]
  <2>1. /\ CounterOf(k[1]) \in Counters /\ k[2] \in Nat
        /\ counter[CounterOf(k[1])] \in Nat /\ counter'[CounterOf(k[1])] \in Nat
        /\ counter[CounterOf(k[1])] <= counter'[CounterOf(k[1])]
    BY <1>2 DEF GovernanceInv, GovernanceTyped
  <2>. QED BY <1>3, <2>1
<1>4. CASE Len(ballot.approvals) >= Required(key[1])
  <2>1. /\ pending' = Discarded(key) /\ closed' = closed \cup {key}
        /\ Record(key[1], ballot.approvals)
    BY <1>4 DEF Poll
  <2>2. CarriedByEnough'
    BY <1>1, <1>4, <2>1, RecordKeeps DEF GovernanceInv, GovernanceTyped, Ballots
  <2>3. DOMAIN pending' = DOMAIN pending \ {key} /\ \A k \in DOMAIN pending' : pending'[k] = pending[k]
    BY <2>1 DEF Discarded
  <2>4. GovernanceTyped' /\ OneVoteEach'
    BY <1>1, <2>1, <2>3 DEF GovernanceInv, GovernanceTyped, OneVoteEach
  <2>5. IdsIssued'
    BY <1>3, <2>3 DEF GovernanceInv, GovernanceTyped, IdsIssued
  <2>6. DecidedOnce'
    BY <1>1, <1>3, <2>1, <2>3 DEF GovernanceInv, GovernanceTyped, DecidedOnce, CounterOf
  <2>. QED BY <2>2, <2>4, <2>5, <2>6 DEF GovernanceInv
<1>5. CASE ~(Len(ballot.approvals) >= Required(key[1]))
  <2>1. /\ pending' = [k \in DOMAIN pending \cup {key} |-> IF k = key THEN ballot ELSE pending[k]]
        /\ UNCHANGED <<closed, decided>>
    BY <1>5 DEF Poll
  <2>2. /\ DOMAIN pending' = DOMAIN pending \cup {key} /\ pending'[key] = ballot
        /\ \A k \in DOMAIN pending : k # key => pending'[k] = pending[k]
    BY <2>1
  <2>3. GovernanceTyped' /\ OneVoteEach'
    BY <1>1, <2>1, <2>2 DEF GovernanceInv, GovernanceTyped, OneVoteEach
  <2>4. IdsIssued'
    BY <1>1, <1>3, <2>2 DEF GovernanceInv, GovernanceTyped, IdsIssued
  <2>5. DecidedOnce'
    BY <1>1, <1>3, <2>1, <2>2 DEF GovernanceInv, GovernanceTyped, DecidedOnce, CounterOf
  <2>6. CarriedByEnough'
    BY <2>1 DEF GovernanceInv, CarriedByEnough
  <2>. QED BY <2>3, <2>4, <2>5, <2>6 DEF GovernanceInv
<1>. QED BY <1>4, <1>5

(* A member means there is a configuration. *)
LEMMA MemberConfigured ==
    ASSUME GovernanceInv, NEW a, Member(a)
    PROVE  config \in Configs
  BY DEF GovernanceInv, GovernanceTyped, Member

(* A proposal is issued under an identifier above every closed one. *)
LEMMA ProposeKeeps ==
    ASSUME GovernanceInv, NEW kind \in Kinds, NEW a \in Accounts, NEW payload \in Payloads,
           Propose(kind, CounterOf(kind), a, payload)
    PROVE  GovernanceInv'
<1>. DEFINE count == CounterOf(kind)
            key == <<kind, counter[count] + 1>>
            ballot == [payload |-> payload, approvals |-> <<a>>]
<1>1. count \in Counters /\ counter \in [Counters -> Nat] /\ counter[count] \in Nat
  BY DEF GovernanceInv, GovernanceTyped, Kinds, Counters, CounterOf
<1>2. counter' = [counter EXCEPT ![count] = counter[count] + 1]
  BY DEF Propose
<1>3. /\ counter' \in [Counters -> Nat] /\ counter'[count] = counter[count] + 1
      /\ \A c \in Counters : counter[c] <= counter'[c]
  <2>. HIDE DEF count
  <2>. QED BY <1>1, <1>2
<1>4. key \notin closed
  <2>1. ASSUME key \in closed
        PROVE  counter[count] + 1 <= counter[count]
    BY <2>1 DEF GovernanceInv, DecidedOnce, CounterOf
  <2>. QED BY <1>1, <2>1
<1>5. ballot \in Ballots /\ Distinct(ballot.approvals)
  BY DEF Ballots, Distinct
<1>6. Votable(key, ballot)
  BY <1>1, <1>4, <1>5, MemberConfigured DEF Votable, Propose
<1>7. Poll(key, ballot) /\ UNCHANGED <<config, share, actionApprovals>>
  BY DEF Propose
<1>8. key[2] <= counter'[CounterOf(key[1])]
  BY <1>1, <1>3
<1>. HIDE DEF key, ballot
<1>. QED BY <1>3, <1>6, <1>7, <1>8, PollKeeps

(* An approval adds a key not counted yet to an open ballot. *)
LEMMA ApproveKeeps ==
    ASSUME GovernanceInv, NEW kind \in Kinds, NEW a \in Accounts, NEW id, Approve(kind, a, id)
    PROVE  GovernanceInv'
<1>. DEFINE key == <<kind, id>>
            voters == pending[key].approvals
            ballot == [pending[key] EXCEPT !.approvals = Append(voters, a)]
<1>1. /\ key \in DOMAIN pending /\ key \in Kinds \X Nat /\ pending[key] \in Ballots
      /\ Distinct(voters) /\ key \notin closed /\ key[2] <= counter[CounterOf(key[1])]
  BY DEF Approve, GovernanceInv, GovernanceTyped, OneVoteEach, DecidedOnce, IdsIssued
<1>2. Append(voters, a) \in Seq(Accounts) /\ Distinct(Append(voters, a))
  <2>1. voters \in Seq(Accounts) /\ a \notin Range(voters)
    BY <1>1 DEF Approve, Ballots
  <2>. HIDE DEF voters
  <2>. QED BY <1>1, <2>1, NewVote
<1>3. ballot \in Ballots /\ Distinct(ballot.approvals)
  <2>. HIDE DEF voters, key
  <2>. QED BY <1>1, <1>2 DEF Ballots
<1>4. Votable(key, ballot)
  BY <1>1, <1>3, MemberConfigured DEF Votable, Approve
<1>5. Poll(key, ballot) /\ UNCHANGED <<config, share, actionApprovals, counter>>
  BY DEF Approve
<1>6. counter \in [Counters -> Nat]
  BY DEF GovernanceInv, GovernanceTyped
<1>. HIDE DEF key, ballot
<1>. QED BY <1>1, <1>4, <1>5, <1>6, PollKeeps

(* A withdrawn upgrade is closed, like a decided one. *)
LEMMA CancelKeeps ==
    ASSUME GovernanceInv, NEW a \in Accounts, NEW id, CancelUpgrade(a, id)
    PROVE  GovernanceInv'
<1>. DEFINE key == <<"upgrade", id>>
<1>1. /\ key \in DOMAIN pending /\ closed' = closed \cup {key} /\ pending' = Discarded(key)
      /\ UNCHANGED <<config, share, counter, actionApprovals, decided>>
  BY DEF CancelUpgrade
<1>2. DOMAIN pending' = DOMAIN pending \ {key} /\ \A k \in DOMAIN pending' : pending'[k] = pending[k]
  BY <1>1 DEF Discarded
<1>3. key \in Kinds \X Nat /\ key[2] <= counter[CounterOf(key[1])]
  BY <1>1 DEF GovernanceInv, GovernanceTyped, IdsIssued
<1>4. GovernanceTyped' /\ OneVoteEach' /\ IdsIssued'
  BY <1>1, <1>2, <1>3 DEF GovernanceInv, GovernanceTyped, OneVoteEach, IdsIssued
<1>5. DecidedOnce' /\ CarriedByEnough'
  BY <1>1, <1>2, <1>3 DEF GovernanceInv, DecidedOnce, CarriedByEnough, CounterOf
<1>. QED BY <1>4, <1>5 DEF GovernanceInv

(* The generic action counts its approvals like a ballot. *)
LEMMA AdminActionKeeps ==
    ASSUME GovernanceInv, NEW a \in Accounts, NEW x \in ActionIds, ProposeAdminAction(a, x)
    PROVE  GovernanceInv'
<1>. DEFINE approvals == Append(actionApprovals[x], a)
<1>1. /\ actionApprovals[x] \in Seq(Accounts) /\ Distinct(actionApprovals[x])
      /\ a \notin Range(actionApprovals[x])
  BY DEF ProposeAdminAction, GovernanceInv, GovernanceTyped, OneVoteEach
<1>2. approvals \in Seq(Accounts) /\ Distinct(approvals)
  BY <1>1, NewVote
<1>3. config \in Configs /\ share \in 1..Whole
  BY MemberConfigured DEF ProposeAdminAction, GovernanceInv, GovernanceTyped
<1>4. UNCHANGED <<config, share, counter, pending, closed>>
  BY DEF ProposeAdminAction, ballotVars
<1>5. CarriedByEnough'
  <2>1. CASE Len(approvals) >= config.threshold
    <3>1. Record("action", approvals) /\ Required("action") = config.threshold
      BY <2>1 DEF ProposeAdminAction, Required
    <3>. QED BY <1>2, <1>3, <2>1, <3>1, RecordKeeps
  <2>2. CASE ~(Len(approvals) >= config.threshold)
    BY <2>2 DEF ProposeAdminAction, GovernanceInv, CarriedByEnough
  <2>. QED BY <2>1, <2>2
<1>6. \E s \in Seq(Accounts) : Distinct(s) /\ actionApprovals' = [actionApprovals EXCEPT ![x] = s]
  <2>1. <<>> \in Seq(Accounts) /\ Distinct(<<>>)
    BY DEF Distinct
  <2>2. \/ actionApprovals' = [actionApprovals EXCEPT ![x] = <<>>]
        \/ actionApprovals' = [actionApprovals EXCEPT ![x] = approvals]
    BY DEF ProposeAdminAction
  <2>. QED BY <1>2, <2>1, <2>2
<1>7. GovernanceTyped' /\ OneVoteEach'
  BY <1>4, <1>6 DEF GovernanceInv, GovernanceTyped, OneVoteEach
<1>8. IdsIssued' /\ DecidedOnce'
  BY <1>4 DEF GovernanceInv, IdsIssued, DecidedOnce
<1>. QED BY <1>5, <1>7, <1>8 DEF GovernanceInv

(* Nothing else touches the ballots: configuration, share and keys may change
   at any time. *)
LEMMA OthersKeep ==
    ASSUME GovernanceInv, UNCHANGED <<ballotVars, actionApprovals, decided>>,
           config' \in Configs \cup {NoConfig}, share' \in 1..Whole
    PROVE  GovernanceInv'
  BY DEF GovernanceInv, GovernanceTyped, OneVoteEach, IdsIssued, DecidedOnce, CarriedByEnough,
         ballotVars

LEMMA GovernanceStep == GovernanceInv /\ [MultisigNext]_msVars => GovernanceInv'
<1>. SUFFICES ASSUME GovernanceInv, [MultisigNext]_msVars PROVE GovernanceInv'
  OBVIOUS
<1>1. CASE UNCHANGED msVars
  BY <1>1, OthersKeep DEF msVars, GovernanceInv, GovernanceTyped
<1>2. CASE HandoverNext
  BY <1>2, OthersKeep DEF HandoverNext, NominateAdmin, AcceptAdmin, RevokeNomination,
     GovernanceInv, GovernanceTyped
<1>3. CASE BallotNext
  <2>. SUFFICES ASSUME NEW a \in Accounts,
          \/ \E h \in Hashes : Upgrade(a, h) \/ ProposeUpgrade(a, h)
          \/ \E id \in 1..MaxBallots :
                \/ ApproveUpgrade(a, id) \/ CancelUpgrade(a, id)
                \/ ApproveFreeze(a, id) \/ ApproveUnfreeze(a, id) \/ ApproveWaiver(a, id)
          \/ ProposeFreeze(a) \/ ProposeUnfreeze(a)
          \/ \E bps \in Shares : SetFreezeSupermajority(a, bps)
          \/ \E p \in Partners, w \in Waivers : ProposeWaiver(a, p, w)
          \/ \E x \in ActionIds : ProposeAdminAction(a, x)
          \/ \E c \in Configs : InitializeMultisig(a, c)
       PROVE GovernanceInv'
    BY <1>3 DEF BallotNext
  <2>1. ASSUME NEW h \in Hashes, Upgrade(a, h) PROVE GovernanceInv'
    BY <2>1, OthersKeep DEF Upgrade, GovernanceInv, GovernanceTyped
  <2>2. ASSUME NEW h \in Hashes, ProposeUpgrade(a, h) PROVE GovernanceInv'
    BY <2>2, ProposeKeeps DEF ProposeUpgrade, Kinds, Payloads, CounterOf
  <2>3. ASSUME NEW id \in 1..MaxBallots,
               \/ ApproveUpgrade(a, id) \/ ApproveFreeze(a, id)
               \/ ApproveUnfreeze(a, id) \/ ApproveWaiver(a, id)
        PROVE  GovernanceInv'
    BY <2>3, ApproveKeeps DEF ApproveUpgrade, ApproveFreeze, ApproveUnfreeze, ApproveWaiver, Kinds
  <2>4. ASSUME NEW id \in 1..MaxBallots, CancelUpgrade(a, id) PROVE GovernanceInv'
    BY <2>4, CancelKeeps
  <2>5. ASSUME NEW on, FreezeAlone(a, on) PROVE GovernanceInv'
    BY <2>5, OthersKeep DEF FreezeAlone, GovernanceInv, GovernanceTyped
  <2>6. ASSUME ProposeFreeze(a) \/ ProposeUnfreeze(a) PROVE GovernanceInv'
    BY <2>5, <2>6, ProposeKeeps DEF ProposeFreeze, ProposeUnfreeze, Kinds, Payloads, CounterOf
  <2>7. ASSUME NEW bps \in Shares, SetFreezeSupermajority(a, bps) PROVE GovernanceInv'
    BY <2>7, OthersKeep DEF SetFreezeSupermajority, GovernanceInv, GovernanceTyped
  <2>8. ASSUME NEW p \in Partners, NEW w \in Waivers, ProposeWaiver(a, p, w) PROVE GovernanceInv'
    BY <2>8, ProposeKeeps DEF ProposeWaiver, Kinds, Payloads, CounterOf
  <2>9. ASSUME NEW x \in ActionIds, ProposeAdminAction(a, x) PROVE GovernanceInv'
    BY <2>9, AdminActionKeeps
  <2>10. ASSUME NEW c \in Configs, InitializeMultisig(a, c) PROVE GovernanceInv'
    BY <2>10, OthersKeep DEF InitializeMultisig, GovernanceInv, GovernanceTyped
  <2>. QED BY <2>1, <2>2, <2>3, <2>4, <2>6, <2>7, <2>8, <2>9, <2>10
<1>. QED BY <1>1, <1>2, <1>3 DEF MultisigNext

LEMMA GovernanceInitially == MultisigInit => GovernanceInv
<1>. SUFFICES ASSUME MultisigInit PROVE GovernanceInv
  OBVIOUS
<1>1. DOMAIN pending = {} /\ closed = {}
  BY DEF MultisigInit
<1>2. GovernanceTyped
  BY <1>1, GovernanceAssumption DEF MultisigInit, GovernanceTyped
<1>3. OneVoteEach /\ IdsIssued /\ DecidedOnce
  BY <1>1 DEF MultisigInit, OneVoteEach, IdsIssued, DecidedOnce, Distinct
<1>4. CarriedByEnough
  BY FS_EmptySet DEF MultisigInit, CarriedByEnough
<1>. QED BY <1>2, <1>3, <1>4 DEF GovernanceInv

-----------------------------------------------------------------------------
(* THEOREM: every decision is carried by as many different keys as the
   configuration in force promises - for the supermajority too, whose ceiling
   the code computes in integers. *)
THEOREM DecisionsCarried == MultisigSpec => []CarriedByEnough
<1>1. GovernanceInv => CarriedByEnough
  BY DEF GovernanceInv
<1>. QED BY <1>1, GovernanceInitially, GovernanceStep, PTL DEF MultisigSpec

(* THEOREM: an executed or cancelled ballot never collects another approval and
   its identifier is never issued again. *)
THEOREM BallotsFinal == MultisigSpec => []DecidedOnce
<1>1. GovernanceInv => DecidedOnce
  BY DEF GovernanceInv
<1>. QED BY <1>1, GovernanceInitially, GovernanceStep, PTL DEF MultisigSpec

-----------------------------------------------------------------------------
(* The delayed decisions: one inductive invariant per part; a step of one part
   leaves the variables of the other two alone. *)

(* Parameter changes: every queued change is the latest proposal for its
   parameter, due once that proposal's own wait is over. *)
Proposals == [value : Values, at : 0..MaxLedger, wait : Locks \cup {0}]

ParamInv ==
    /\ ledger \in 0..MaxLedger /\ timelock \in Locks \cup {0}
    /\ DOMAIN queue = Params /\ DOMAIN asked = Params
    /\ \A p \in Params : queue[p] # Nothing =>
          /\ asked[p] \in Proposals
          /\ queue[p].value = asked[p].value
          /\ queue[p].due = asked[p].at + asked[p].wait
    /\ TimelockHonoured

(* A proposal, new or replacing one, is queued for its own wait. *)
LEMMA ProposalKeeps ==
    ASSUME ParamInv, NEW p \in Params, NEW v \in Values, ProposeParamChange(p, v)
    PROVE  ParamInv'
<1>. DEFINE change == [value |-> v, due |-> ledger + timelock]
            record == [value |-> v, at |-> ledger, wait |-> timelock]
<1>1. /\ queue' = [queue EXCEPT ![p] = change] /\ asked' = [asked EXCEPT ![p] = record]
      /\ UNCHANGED <<ledger, timelock, enacted>>
  BY DEF ProposeParamChange
<1>2. record \in Proposals /\ change.value = record.value /\ change.due = record.at + record.wait
  BY DEF ParamInv, Proposals
<1>. HIDE DEF change, record
<1>3. ASSUME NEW q \in Params, queue'[q] # Nothing
      PROVE  /\ asked'[q] \in Proposals
             /\ queue'[q].value = asked'[q].value
             /\ queue'[q].due = asked'[q].at + asked'[q].wait
  <2>1. CASE q = p
    BY <1>1, <1>2, <2>1 DEF ParamInv
  <2>2. CASE q # p
    BY <1>1, <1>3, <2>2 DEF ParamInv
  <2>. QED BY <2>1, <2>2
<1>. QED BY <1>1, <1>3 DEF ParamInv, TimelockHonoured

(* A change is executed as it was proposed last, its wait over. *)
LEMMA ExecutionKeeps ==
    ASSUME ParamInv, NEW p \in Params, ExecuteParamChange(p)
    PROVE  ParamInv'
<1>1. /\ asked[p] \in Proposals /\ queue[p].value = asked[p].value
      /\ queue[p].due = asked[p].at + asked[p].wait
  BY DEF ExecuteParamChange, ParamInv
<1>2. asked[p] # Nothing
  BY <1>1, TimelockAssumption DEF Proposals
<1>3. /\ enacted'.proposal = asked[p] /\ enacted'.value = queue[p].value /\ enacted'.at = ledger
      /\ ledger >= queue[p].due
  BY DEF ExecuteParamChange
<1>4. TimelockHonoured'
  BY <1>1, <1>2, <1>3 DEF TimelockHonoured
<1>5. \A q \in Params : queue'[q] # Nothing => q # p /\ queue'[q] = queue[q] /\ asked'[q] = asked[q]
  BY DEF ExecuteParamChange, ParamInv
<1>. QED BY <1>4, <1>5 DEF ExecuteParamChange, ParamInv

LEMMA ParamStep == ParamInv /\ [TimelockNext]_tlVars => ParamInv'
<1>. SUFFICES ASSUME ParamInv, [TimelockNext]_tlVars PROVE ParamInv'
  OBVIOUS
<1>1. CASE Tick
  BY <1>1, TimelockAssumption DEF Tick, ParamInv, paramVars, TimelockHonoured
<1>2. CASE \E n \in Locks : SetTimelockDuration(n)
  BY <1>2 DEF SetTimelockDuration, ParamInv, TimelockHonoured
<1>3. CASE \E p \in Params, v \in Values : ProposeParamChange(p, v)
  BY <1>3, ProposalKeeps
<1>4. CASE \E p \in Params : ExecuteParamChange(p)
  BY <1>4, ExecutionKeeps
<1>5. CASE \E p \in Params : CancelParamChange(p)
  BY <1>5 DEF CancelParamChange, ParamInv, TimelockHonoured
<1>6. CASE UNCHANGED <<ledger, paramVars>>
  BY <1>6 DEF paramVars, ParamInv, TimelockHonoured
<1>7. RecoveryNext => Tick \/ UNCHANGED <<ledger, paramVars>>
  BY DEF RecoveryNext, SetRecoveryDelay, EmergencyRecover, ProposeRecovery,
         ExecuteRecovery, CancelRecovery, ShipmentCloses
<1>8. RoleNext => Tick \/ UNCHANGED <<ledger, paramVars>>
  BY DEF RoleNext, GrantRole, RevokeRole
<1>. QED
  BY <1>1, <1>2, <1>3, <1>4, <1>5, <1>6, <1>7, <1>8 DEF TimelockNext, ParamNext, tlVars

-----------------------------------------------------------------------------
(* Recoveries. *)
RecoveryInv ==
    /\ DOMAIN status = Shipments /\ DOMAIN paidOut = Shipments
    /\ RecoveredOnce

(* A recovery pays a shipment nothing was recovered from before. *)
LEMMA RecoverKeeps ==
    ASSUME RecoveryInv, NEW s \in Shipments, Recover(s)
    PROVE  RecoveryInv'
<1>1. paidOut[s] = 0 /\ paidOut'[s] = 1 /\ status'[s] = "Cancelled"
  BY DEF Recover, Recoverable, RecoveryInv, RecoveredOnce
<1>2. \A t \in Shipments : t # s => paidOut'[t] = paidOut[t] /\ status'[t] = status[t]
  BY DEF Recover, RecoveryInv
<1>. QED BY <1>1, <1>2 DEF Recover, RecoveryInv, RecoveredOnce

LEMMA RecoveryStep == RecoveryInv /\ [TimelockNext]_tlVars => RecoveryInv'
<1>. SUFFICES ASSUME RecoveryInv, [TimelockNext]_tlVars PROVE RecoveryInv'
  OBVIOUS
<1>1. CASE UNCHANGED <<status, paidOut>>
  BY <1>1 DEF RecoveryInv, RecoveredOnce
<1>2. CASE \E s \in Shipments : Recover(s)
  BY <1>2, RecoverKeeps
<1>3. CASE \E s \in Shipments : ShipmentCloses(s)
  BY <1>3 DEF ShipmentCloses, RecoveryInv, RecoveredOnce
<1>4. RecoveryNext =>
        \/ UNCHANGED <<status, paidOut>>
        \/ \E s \in Shipments : Recover(s) \/ ShipmentCloses(s)
  BY DEF RecoveryNext, Tick, recoveryVars, SetRecoveryDelay, EmergencyRecover, ProposeRecovery,
         ExecuteRecovery, CancelRecovery
<1>5. ParamNext \/ RoleNext => UNCHANGED <<status, paidOut>>
  BY DEF ParamNext, RoleNext, Tick, recoveryVars, SetTimelockDuration, ProposeParamChange,
         ExecuteParamChange, CancelParamChange, GrantRole, RevokeRole
<1>. QED BY <1>1, <1>2, <1>3, <1>4, <1>5 DEF TimelockNext, tlVars, recoveryVars

-----------------------------------------------------------------------------
(* Roles: the stored grant and expiry are those of the latest decision. *)
RoleInv ==
    /\ DOMAIN expiry = Roles \X Holders /\ DOMAIN lastGrant = Roles \X Holders
    /\ \A x \in Roles \X Holders :
          /\ x \in granted <=> lastGrant[x].held
          /\ lastGrant[x].held => expiry[x] = lastGrant[x].until

LEMMA RoleStep == RoleInv /\ [TimelockNext]_tlVars => RoleInv'
<1>. SUFFICES ASSUME RoleInv, [TimelockNext]_tlVars PROVE RoleInv'
  OBVIOUS
<1>1. CASE UNCHANGED roleVars
  BY <1>1 DEF RoleInv, roleVars
<1>2. ASSUME NEW r \in Roles, NEW h \in Holders, NEW until, GrantRole(r, h, until)
      PROVE  RoleInv'
  <2>. DEFINE x == <<r, h>>
  <2>1. /\ x \in granted' /\ lastGrant'[x] = [held |-> TRUE, until |-> until] /\ expiry'[x] = until
    BY <1>2 DEF GrantRole, RoleInv
  <2>2. \A y \in Roles \X Holders : y # x =>
          /\ y \in granted' <=> y \in granted
          /\ lastGrant'[y] = lastGrant[y] /\ expiry'[y] = expiry[y]
    BY <1>2 DEF GrantRole, RoleInv
  <2>. QED BY <1>2, <2>1, <2>2 DEF GrantRole, RoleInv
<1>3. ASSUME NEW r \in Roles, NEW h \in Holders, RevokeRole(r, h)
      PROVE  RoleInv'
  <2>. DEFINE x == <<r, h>>
  <2>1. x \notin granted' /\ lastGrant'[x] = [held |-> FALSE, until |-> Nothing]
    BY <1>3 DEF RevokeRole, RoleInv
  <2>2. \A y \in Roles \X Holders : y # x =>
          /\ y \in granted' <=> y \in granted
          /\ lastGrant'[y] = lastGrant[y] /\ expiry'[y] = expiry[y]
    BY <1>3 DEF RevokeRole, RoleInv
  <2>. QED BY <1>3, <2>1, <2>2 DEF RevokeRole, RoleInv
<1>4. RoleNext => UNCHANGED roleVars \/ \E r \in Roles, h \in Holders :
        RevokeRole(r, h) \/ \E until \in {Nothing} \cup (1..MaxLedger) : GrantRole(r, h, until)
  BY DEF RoleNext, Tick, roleVars
<1>5. ParamNext \/ RecoveryNext => UNCHANGED roleVars
  BY DEF ParamNext, RecoveryNext, Tick, SetTimelockDuration, ProposeParamChange,
         ExecuteParamChange, CancelParamChange, SetRecoveryDelay, EmergencyRecover,
         ProposeRecovery, ExecuteRecovery, CancelRecovery, ShipmentCloses
<1>. QED BY <1>1, <1>2, <1>3, <1>4, <1>5 DEF TimelockNext, tlVars

-----------------------------------------------------------------------------
(* THEOREM: no parameter changes before the wait of its latest proposal is over,
   whatever is proposed again, cancelled or reconfigured meanwhile. *)
THEOREM ChangesWait == TimelockSpec => []TimelockHonoured
<1>1. TimelockInit => ParamInv
  BY TimelockAssumption DEF TimelockInit, ParamInv, TimelockHonoured
<1>2. ParamInv => TimelockHonoured
  BY DEF ParamInv
<1>. QED BY <1>1, <1>2, ParamStep, PTL DEF TimelockSpec

(* THEOREM: no shipment's escrow is recovered twice or after it was closed. *)
THEOREM RecoveriesSound == TimelockSpec => []RecoveredOnce
<1>1. TimelockInit => RecoveryInv
  BY DEF TimelockInit, RecoveryInv, RecoveredOnce
<1>2. RecoveryInv => RecoveredOnce
  BY DEF RecoveryInv
<1>. QED BY <1>1, <1>2, RecoveryStep, PTL DEF TimelockSpec

(* THEOREM: a role is held exactly as its latest grant or revocation says. *)
THEOREM RolesSound == TimelockSpec => []RoleIsLatestGrant
<1>1. TimelockInit => RoleInv
  BY DEF TimelockInit, RoleInv
<1>2. RoleInv => RoleIsLatestGrant
  BY DEF RoleInv, RoleIsLatestGrant, HasRole
<1>. QED BY <1>1, <1>2, RoleStep, PTL DEF TimelockSpec
=============================================================================
