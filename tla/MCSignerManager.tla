--------------------------- MODULE MCSignerManager ---------------------------
(* Values of the constants for TLC; each .cfg picks the inputs of one run. *)
EXTENDS SignerManager, FiniteSetsExt

CONSTANTS alice, bob, deployer

\* The counted sums of ClarityMap are sums.
ASSUME SumsAgree ==
    \A m \in [1 .. 3 -> 0 .. 3], K \in SUBSET (1 .. 3) :
        SumOver(m, K) = MapThenSumSet(LAMBDA k : m[k], K)

\* Rewards that two fees and a max-fee divide unevenly.
UnevenRewards == {[s \in Stakers |-> IF s = alice THEN 5 ELSE 2]}
OneOrBoth == {[s \in Stakers |-> IF s = alice THEN 3 ELSE 0],
              [s \in Stakers |-> 2]}
=============================================================================
