--------------------------- MODULE MCLoanManager ---------------------------
(* The lending pool and its price feed for TLC.  They share no state: the pool
   takes any price the feed may resolve.  A behaviour of the instance is one of
   the pool or one of the feed, which is as much as their product would show. *)
EXTENDS LoanManager, PriceFeed, TLC

VARIABLE part
mcVars == <<part, vars, feedVars>>

MCInit == part \in {"pool", "feed"} /\ Init /\ FeedInit
MCNext ==
    \/ part = "pool" /\ Next /\ UNCHANGED <<part, feedVars>>
    \/ part = "feed" /\ FeedNext /\ UNCHANGED <<part, vars>>
MCSpec == MCInit /\ [][MCNext]_mcVars

(* Bonus 5% to 15%, capped at 20%, with Bps = 20 for 100%. *)
MCDefault == [base |-> 1, max |-> 3, cap |-> 4]
MCParamChoices == {MCDefault, [base |-> 4, max |-> 5, cap |-> 3], [base |-> 2, max |-> 1, cap |-> 3]}
MCSymmetry == Permutations(Accounts)
=============================================================================
