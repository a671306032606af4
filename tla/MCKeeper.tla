------------------------------- MODULE MCKeeper -------------------------------
(* Constants of the run of KeeperCalls.                                      *)
EXTENDS KeeperCalls
CONSTANTS c1, c2, c3, c4, c5, w1, sm1, sm2, alice, bob, carol, dora, secret, claimsContract

MCManagerOf == [i \in Items |-> IF i = c3 THEN sm2 ELSE sm1]

\* c1 and c3 are one staker's, under two signer-managers, and w1 too.
MCStakerOf ==
  [i \in Items |-> CASE i \in {c1, c3, w1} -> alice
                     [] i = c2 -> bob
                     [] i = c4 -> carol
                     [] OTHER -> dora]
MCRequestIdOf == [i \in Withdrawals |-> 7]

MCRegistered ==
  [p \in {"claims", "withdrawals"} |-> IF p = "claims" THEN <<c1, c3, c2, c4>> ELSE <<w1>>]
=============================================================================
