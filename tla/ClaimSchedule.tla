---------------------------- MODULE ClaimSchedule ----------------------------
(***************************************************************************)
(* The arithmetic of reward-claim-registry.clar.  A reward cycle r spans    *)
(* two distribution cycles, its first half 2r and its second half 2r + 1.  *)
(* A registration claims one distribution cycle at a time and burns one    *)
(* installment of its escrow per claim.                                    *)
(***************************************************************************)
EXTENDS Integers

RewardCycle(distribution) == distribution \div 2

\* Cycles between two claims: two when at most one claim runs per reward cycle.
ClaimStep(oneClaimPerRewardCycle) == IF oneClaimPerRewardCycle THEN 2 ELSE 1

InitialNextClaimDistribution(startRewardCycle, oneClaimPerRewardCycle) ==
    2 * startRewardCycle + (ClaimStep(oneClaimPerRewardCycle) - 1)

\* Faulty: the one-per-reward-cycle cadence is ignored.
NextClaimByOne(claimDistribution, oneClaimPerRewardCycle, current) ==
    claimDistribution + 1

\* Faulty: jumps over a second half that has not elapsed.
JumpsEarly(claimDistribution, oneClaimPerRewardCycle, current) ==
    LET rewardCycle == RewardCycle(claimDistribution)
    IN  IF oneClaimPerRewardCycle THEN claimDistribution + 2
        ELSE IF current > 2 * rewardCycle THEN 2 * (rewardCycle + 1)
        ELSE claimDistribution + 1

NextClaimAfter(claimDistribution, oneClaimPerRewardCycle, current) ==
    LET rewardCycle == RewardCycle(claimDistribution)
        secondHalf  == 2 * rewardCycle + 1
    IN  IF oneClaimPerRewardCycle THEN claimDistribution + 2
        ELSE IF current > secondHalf THEN 2 * (rewardCycle + 1)
        ELSE claimDistribution + 1

\* Faulty: rounds the installment up.
BurnRoundedUp(prepaid, remaining) ==
    IF remaining <= 1 THEN prepaid ELSE (prepaid + remaining - 1) \div remaining

\* The installment burned by one claim: the last claim burns what is left.
BurnAmount(prepaid, remaining) ==
    IF remaining <= 1 THEN prepaid ELSE prepaid \div remaining

\* pox-5 calculate-rewards has covered the distribution to claim.  computed is
\* the last distribution it covered, -1 when it has never run.
RewardsCalculated(claimDistribution, computed) == computed >= claimDistribution

Elapsed(claimDistribution, current) == claimDistribution < current

IsDue(claimDistribution, current, computed) ==
    /\ Elapsed(claimDistribution, current)
    /\ RewardsCalculated(claimDistribution, computed)
=============================================================================
