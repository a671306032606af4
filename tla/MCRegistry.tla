------------------------------ MODULE MCRegistry ------------------------------
(* Values of the constants for TLC; each .cfg picks the inputs of one run. *)
EXTENDS RewardClaimRegistry

CONSTANTS alice, bob, carol, sm1, sm2

MCPrincipals == {alice, bob, carol} \cup SignerManagers

Stake(signer, first) ==
    [bond |-> None, stake |-> [signer |-> signer, firstRewardCycle |-> first, bondIndex |-> None]]
\* A bond next to a stake under another signer-manager: the bond is preferred.
BondAndStake(signer, first, index, other) ==
    [bond |-> [signer |-> signer, firstRewardCycle |-> first, bondIndex |-> index],
     stake |-> [signer |-> other, firstRewardCycle |-> 0, bondIndex |-> None]]
NoPosition == [bond |-> None, stake |-> None]

EntryOf(staker, start, one, num) ==
    [staker |-> staker, startRewardCycle |-> start, oneClaimPerRewardCycle |-> one,
     numClaims |-> num]
SettlementOf(staker, id) == [staker |-> staker, requestId |-> id]

-----------------------------------------------------------------------------
\* registry_claims: two stakers, single and batched claims, both cadences.
OneStake == {Stake(sm1, 0)}
ClaimEntries ==
    {EntryOf(alice, 0, FALSE, 2), EntryOf(alice, 0, TRUE, 2), EntryOf(bob, 0, FALSE, 1)}
PairBatches == {<<alice>>, <<alice, bob>>}
RepeatBatches == {<<bob, alice>>}

\* registry_escrow: fees that change, admins that pay nothing, batches that
\* register and cancel.
EscrowRegisterBatches == {<<EntryOf(bob, 0, FALSE, 2), EntryOf(alice, 0, FALSE, 1)>>}
EscrowCancelBatches == {<<bob, alice>>}
EscrowAdminChanges == {<<bob, TRUE>>, <<carol, FALSE>>}

\* registry_list: registrations come and go in any order, of one staker whose
\* position moves between signer-managers among them.
Moves == {Stake(sm1, 0), BondAndStake(sm2, 0, 1, sm1), NoPosition}
ListEntries ==
    {EntryOf(alice, 0, FALSE, 2), EntryOf(alice, 1, TRUE, 1), EntryOf(bob, 0, FALSE, 1)}
AliceBatch == {<<alice>>}

\* registry_withdrawals
WithdrawalEntries == {EntryOf(alice, 0, FALSE, 2), EntryOf(bob, 0, FALSE, 1)}
WithdrawalSettleBatches ==
    {<<SettlementOf(alice, 1)>>, <<SettlementOf(alice, 1), SettlementOf(alice, 1)>>,
     <<SettlementOf(bob, 2), SettlementOf(alice, 2)>>}

=============================================================================
