--------------------------- MODULE MilestoneTerms ---------------------------
(* Merging, splitting and adding milestones of a running shipment by agreement
   of buyer and supplier (contracts/chainsetttle/src/lib.rs), and what that
   does to everything stored under a milestone's index.

   Indices are one more than the code's.  A milestone has an identity the code
   does not store, to tell whose record a record is.  The keys that
   per_milestone_keys lists fall in two classes: "advance" for those that keep a
   milestone from being merged or split, "note" for the rest.  "bol", the hash of
   the bill of lading, is stored under an index as well but not listed there.
   Vectors of one entry per milestone other than the payout weights are left
   out. *)
EXTENDS Naturals, Sequences, FiniteSets, SequencesExt

CONSTANTS
    FirstPercents,      \* the milestones at the start
    FirstTotal,         \* total_amount at the start
    FirstWeights,       \* settings of MilestoneSplits at the start, <<>> for none
    NewAmounts,         \* amounts of added milestones
    MinPercent,         \* MinMilestonePercent
    MaxCount,           \* MaxMilestoneCount
    MaxRecords, MaxOffers, MaxBusy,     \* bounds: records, proposals and milestones no longer
    MaxChanges,         \* pending at a time, agreements applied
    Nobody              \* no record, no proposal, no confirmed milestone

ASSUME TermsAssumption ==
    /\ FirstPercents \in Seq(Nat) /\ FirstPercents # <<>> /\ Len(FirstPercents) <= MaxCount
    /\ \A w \in FirstWeights : w \in Seq(Nat) /\ (w = <<>> \/ Len(w) = Len(FirstPercents))
    /\ NewAmounts \subseteq Nat \ {0} /\ FirstTotal \in Nat \ {0} /\ MinPercent # 0
    /\ {MinPercent, MaxCount, MaxRecords, MaxOffers, MaxBusy, MaxChanges} \subseteq Nat

Sides == {"buyer", "supplier"}
Moved == {"advance", "note"}
Keys == Moved \cup {"bol"}
Slots == 1..MaxCount
MilestoneIds == 1..(2 * MaxCount + 1)

VARIABLES
    list,               \* Shipment.milestones
    total, deposited,        \* total_amount; the shipment's tokens in the contract
    weights,            \* MilestoneSplits in basis points, <<>> when not set
    keyed,              \* the records under an index: the milestone each was made for
    disputes,           \* the shipment's ActiveDisputes
    lastConfirmed,      \* last_confirmed_milestone_index and the milestone meant
    merge, split, append,   \* the pending proposals
    changes             \* agreements applied, bounded by MaxChanges

dealTerms == <<merge, split, append, changes>>
indexVars == <<keyed, disputes, lastConfirmed>>
moneyTerms == <<total, deposited, weights>>
termsVars == <<list, moneyTerms, indexVars, dealTerms>>

TermsInit ==
    /\ list = [i \in DOMAIN FirstPercents |-> [id |-> i, percent |-> FirstPercents[i], status |-> "Pending"]]
    /\ total = FirstTotal /\ deposited = FirstTotal /\ weights \in FirstWeights
    /\ keyed = [k \in Keys |-> [i \in Slots |-> Nobody]]
    /\ disputes = {} /\ lastConfirmed = Nobody
    /\ merge = Nobody /\ split = Nobody /\ append = Nobody /\ changes = 0

-----------------------------------------------------------------------------
(* What is stored under a milestone's index.  The keys of per_milestone_keys
   follow it, the others stay under the index. *)

(* shift_milestone_storage_down: the entries of the removed index are lost, but
   for the later of two adjusted deadlines. *)
ShiftDown(f, removed, oldLen) ==
    [i \in Slots |-> IF i < removed \/ i > oldLen THEN f[i]
                     ELSE IF i < oldLen THEN f[i + 1] ELSE Nobody]

(* Mutant: entries move up in ascending order, over the ones not moved yet. *)
ShiftUpAscending(f, first, oldLen, shift) ==
    [i \in Slots |-> IF i >= first + shift /\ i <= oldLen + shift
                     THEN f[first + ((i - first) % shift)] ELSE f[i]]

(* shift_milestone_storage_up: from the last entry down; copies stay behind
   until clear_milestone_storage. *)
ShiftUp(f, first, oldLen, shift) ==
    [i \in Slots |-> IF i >= first + shift /\ i <= oldLen + shift THEN f[i - shift] ELSE f[i]]

Cleared(f, from, to) == [i \in Slots |-> IF i \in from..to THEN Nobody ELSE f[i]]

(* shift_active_disputes_up *)
DisputesUp(after, shift) ==
    {IF d.index > after THEN [d EXCEPT !.index = @ + shift] ELSE d : d \in disputes}

InUse == {m.id : m \in Range(list)} \cup {keyed[k][i] : k \in Keys, i \in Slots}
           \cup {d.id : d \in disputes}
FreshIds(n) == CHOOSE s \in [1..n -> MilestoneIds \ InUse] : IsInjective(s)

Unencumbered(i) == list[i].status = "Pending" /\ keyed["advance"][i] = Nobody

-----------------------------------------------------------------------------
(* Merging a milestone with the next.  The payout weights are not touched. *)

Mergeable(first) == first + 1 <= Len(list) /\ Unencumbered(first) /\ Unencumbered(first + 1)

(* Bound: no more than MaxOffers proposals wait at a time. *)
RoomFor(mine) == Cardinality({q \in 1..3 : q # mine /\ <<merge, split, append>>[q] # Nobody}) < MaxOffers

ProposeMerge(side, first) ==
    /\ Mergeable(first) /\ RoomFor(1)
    /\ merge' = [by |-> side, first |-> first]
    /\ UNCHANGED <<list, moneyTerms, indexVars, split, append, changes>>

ApproveMerge(side) ==
    LET first == merge.first
        second == first + 1
        merged == [list[first] EXCEPT !.percent = @ + list[second].percent]
    IN
    /\ changes < MaxChanges
    /\ merge # Nobody /\ side # merge.by /\ Mergeable(first)
    /\ list' = [RemoveAt(list, second) EXCEPT ![first] = merged]
    /\ keyed' = [k \in Keys |-> IF k \in Moved THEN ShiftDown(keyed[k], second, Len(list))
                                               ELSE keyed[k]]
    /\ disputes' = {IF d.index > second THEN [d EXCEPT !.index = @ - 1] ELSE d : d \in disputes}
    /\ lastConfirmed' = IF lastConfirmed # Nobody /\ lastConfirmed.index > second
                        THEN [lastConfirmed EXCEPT !.index = @ - 1] ELSE lastConfirmed
    /\ merge' = Nobody /\ changes' = changes + 1
    /\ UNCHANGED <<moneyTerms, split, append>>

-----------------------------------------------------------------------------
(* Splitting a milestone into parts. *)

SumOf(s) == FoldSeq(LAMBDA x, y : x + y, 0, s)

(* apportion_split_weight: the parts share the weight by percentage, the last
   takes what rounding leaves. *)
Apportioned(weight, parts) ==
    LET upto(n) == IF n = Len(parts) THEN weight
                   ELSE (weight * SumOf(SubSeq(parts, 1, n))) \div SumOf(parts)
    IN  [n \in DOMAIN parts |-> upto(n) - (IF n = 1 THEN 0 ELSE upto(n - 1))]

ReplaceBySeq(s, i, new) == SubSeq(s, 1, i - 1) \o new \o SubSeq(s, i + 1, Len(s))

(* milestone_split_distribution *)
Distributed(i, parts) == IF weights = <<>> THEN <<>>
                         ELSE ReplaceBySeq(weights, i, Apportioned(weights[i], parts))

(* validate_milestone_split *)
ValidSplit(i, parts) ==
    /\ i <= Len(list) /\ Len(parts) >= 2 /\ Unencumbered(i)
    /\ \A n \in DOMAIN parts : parts[n] >= MinPercent
    /\ SumOf(parts) = list[i].percent
    /\ Len(list) + Len(parts) - 1 <= MaxCount
    /\ weights # <<>> => /\ i <= Len(weights)
                         /\ 0 \notin Range(Apportioned(weights[i], parts))

ProposeSplit(side, i, parts) ==
    /\ ValidSplit(i, parts) /\ RoomFor(2)
    /\ split' = [by |-> side, index |-> i, parts |-> parts]
    /\ UNCHANGED <<list, moneyTerms, indexVars, merge, append, changes>>

(* The first part keeps what is stored for the milestone, the others get none
   of it; records of later milestones move with them. *)
ApproveSplit(side) ==
    LET i == split.index
        parts == split.parts
        shift == Len(parts) - 1
        ids == <<list[i].id>> \o FreshIds(shift)
        made == [n \in DOMAIN parts |-> [list[i] EXCEPT !.id = ids[n], !.percent = parts[n]]]
    IN
    /\ changes < MaxChanges
    /\ split # Nobody /\ side # split.by /\ ValidSplit(i, parts)
    /\ list' = ReplaceBySeq(list, i, made)
    /\ keyed' = [k \in Keys |->
           IF k \in Moved THEN Cleared(ShiftUp(keyed[k], i + 1, Len(list), shift), i + 1, i + shift)
                          ELSE keyed[k]]
    /\ weights' = Distributed(i, parts)
    /\ disputes' = DisputesUp(i, shift)
    /\ lastConfirmed' = IF lastConfirmed # Nobody /\ lastConfirmed.index > i
                        THEN [lastConfirmed EXCEPT !.index = @ + shift] ELSE lastConfirmed
    /\ split' = Nobody /\ changes' = changes + 1
    /\ UNCHANGED <<total, deposited, merge, append>>

-----------------------------------------------------------------------------
(* Adding a milestone at the end. *)

(* milestone_full_gross_payment *)
Worth(i) == IF i <= Len(weights) THEN (total * weights[i]) \div 10000
                                 ELSE (total * list[i].percent) \div 100

(* Mutant: the weights of earlier milestones are rounded down. *)
WeightRoundedDown(i, newTotal) == (Worth(i) * 10000) \div newTotal

WeightAfter(i, newTotal) == (Worth(i) * 10000 + newTotal - 1) \div newTotal

Kept(newTotal) == [i \in DOMAIN list |-> WeightAfter(i, newTotal)]

Appendable(amount) == Len(list) + 1 <= MaxCount /\ SumOf(Kept(total + amount)) < 10000

(* A buyer pays when proposing. *)
ProposeAppend(side, amount) ==
    /\ append = Nobody /\ Appendable(amount) /\ RoomFor(3)
    /\ append' = [by |-> side, amount |-> amount]
    /\ deposited' = IF side = "buyer" THEN deposited + amount ELSE deposited
    /\ UNCHANGED <<list, total, weights, indexVars, merge, split, changes>>

AcceptAppend(side) ==
    LET amount == append.amount
        kept == Kept(total + amount)
        percents == [i \in DOMAIN list |-> kept[i] \div 100]
        n == Len(list) + 1
    IN
    /\ changes < MaxChanges
    /\ append # Nobody /\ side # append.by /\ Appendable(amount)
    /\ deposited' = IF append.by = "buyer" THEN deposited ELSE deposited + amount
    /\ total' = total + amount
    /\ keyed' = [k \in Keys |-> IF k \in Moved THEN Cleared(keyed[k], n, n) ELSE keyed[k]]
    /\ list' = Append([i \in DOMAIN list |-> [list[i] EXCEPT !.percent = percents[i]]],
                      [id |-> FreshIds(1)[1], percent |-> 100 - SumOf(percents), status |-> "Pending"])
    /\ weights' = Append(kept, 10000 - SumOf(kept))
    /\ append' = Nobody /\ changes' = changes + 1
    /\ UNCHANGED <<disputes, lastConfirmed, merge, split>>

CancelAppend ==
    /\ append # Nobody /\ append' = Nobody
    /\ deposited' = IF append.by = "buyer" THEN deposited - append.amount ELSE deposited
    /\ UNCHANGED <<list, total, weights, indexVars, merge, split, changes>>

-----------------------------------------------------------------------------
(* The rest of a milestone's life, as far as it writes under its index. *)

MilestoneStatus(i, s) == list' = [list EXCEPT ![i].status = s]

WriteRecord(k, i) ==
    /\ Cardinality({x \in Keys \X Slots : keyed[x[1]][x[2]] # Nobody}) < MaxRecords
    /\ keyed[k][i] = Nobody /\ keyed' = [keyed EXCEPT ![k][i] = list[i].id]
    /\ UNCHANGED <<list, moneyTerms, disputes, lastConfirmed, dealTerms>>

(* attach_bol_hash: once under an index. *)
AttachBol(i) == list[i].status # "Pending" /\ WriteRecord("bol", i)

SubmitProof(i) ==
    /\ Cardinality({j \in DOMAIN list : list[j].status # "Pending"}) < MaxBusy
    /\ list[i].status = "Pending" /\ MilestoneStatus(i, "ProofSubmitted")
    /\ UNCHANGED <<moneyTerms, indexVars, dealTerms>>

Confirm(i) ==
    /\ list[i].status = "ProofSubmitted" /\ MilestoneStatus(i, "Confirmed")
    /\ lastConfirmed' = [index |-> i, id |-> list[i].id]
    /\ UNCHANGED <<moneyTerms, keyed, disputes, dealTerms>>

OpenDispute(i) ==
    /\ list[i].status = "ProofSubmitted" /\ MilestoneStatus(i, "Disputed")
    /\ disputes' = disputes \cup {[index |-> i, id |-> list[i].id]}
    /\ UNCHANGED <<moneyTerms, keyed, lastConfirmed, dealTerms>>

CloseDispute(i) ==
    /\ list[i].status = "Disputed" /\ MilestoneStatus(i, "Resolved")
    /\ disputes' = {d \in disputes : d.index # i}
    /\ UNCHANGED <<moneyTerms, keyed, lastConfirmed, dealTerms>>

(* Ways to cut a percentage into two or three parts. *)
PartsOf(p) == {<<p \div 2, p - p \div 2>>, <<p \div 3, p \div 3, p - 2 * (p \div 3)>>}

TermsNext ==
    \/ \E side \in Sides, i \in DOMAIN list : ProposeMerge(side, i)
    \/ \E side \in Sides, i \in DOMAIN list :
           \E parts \in PartsOf(list[i].percent) : ProposeSplit(side, i, parts)
    \/ \E side \in Sides, amount \in NewAmounts : ProposeAppend(side, amount)
    \/ \E side \in Sides : ApproveMerge(side) \/ ApproveSplit(side) \/ AcceptAppend(side)
    \/ CancelAppend
    \/ \E i \in DOMAIN list :
           \/ \E k \in Moved : WriteRecord(k, i)
           \/ AttachBol(i) \/ SubmitProof(i) \/ Confirm(i) \/ OpenDispute(i) \/ CloseDispute(i)

TermsSpec == TermsInit /\ [][TermsNext]_termsVars

-----------------------------------------------------------------------------
Owner(i) == IF i <= Len(list) THEN list[i].id ELSE Nobody

(* Whatever is merged, split or added, every record under a key that
   per_milestone_keys lists, every active dispute and the last confirmation
   still belong to the milestone they were made for.  The hash of a bill of lading,
   which is not listed, does not follow, and nothing is claimed of it. *)
RecordsFollow ==
    /\ \A k \in Moved, i \in Slots : keyed[k][i] # Nobody => keyed[k][i] = Owner(i)
    /\ \A d \in disputes : d.id = Owner(d.index) /\ list[d.index].status = "Disputed"
    /\ \A i \in DOMAIN list : list[i].status = "Disputed" => \E d \in disputes : d.index = i
    /\ lastConfirmed # Nobody => lastConfirmed.id = Owner(lastConfirmed.index)

(* An added milestone is paid for in full and makes no earlier milestone worth
   less. *)
AppendKeepsWorth ==
    [][Len(list') = Len(list) + 1 /\ total' > total =>
         /\ deposited' >= total'
         /\ \A i \in DOMAIN list : Worth(i)' >= Worth(i)]_termsVars
=============================================================================
