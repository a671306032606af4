-------------------------------- MODULE MCForm --------------------------------
(* Values of the constants for TLC. *)
EXTENDS RegisterForm, FiniteSets, TLC

CONSTANTS mainnet, testnet, registry, fork, node1, node2, alice, known, k1, k2

\* The same network and contract by another API, and another network: choosing
\* a network resets the rest to what it has by default.
MCDefault == [network |-> mainnet, apiUrl |-> node1, claimsContract |-> registry]
OtherApi == [MCDefault EXCEPT !.apiUrl = node2]
OtherNetwork == [network |-> testnet, apiUrl |-> node2, claimsContract |-> fork]
MCConfigs == {MCDefault, OtherApi, OtherNetwork}

\* The fee, the trait and the position differ from one to the next.
MCFee == [c \in Configs |-> IF c = OtherNetwork THEN 1 ELSE 3]
MCTrait == [c \in Configs |-> [m \in Managers |->
               IF m = known /\ c = MCDefault THEN "supported" ELSE "not-found"]]
MCBond == [c \in Configs |-> [s \in Stakers |-> IF c = MCDefault THEN known ELSE None]]
MCStake == [c \in Configs |-> [s \in Stakers |-> None]]
\* Bound: the form and what is in flight are of two configurations at a time.
TwoConfigurations ==
    LET inFlight == {calls[id].config : id \in {id \in CallIds : ~Free(id)}}
    IN  Cardinality({config} \cup inFlight \cup ({feeLoad} \ {None})) <= 2
Interchangeable == Permutations(CallIds)
=============================================================================
