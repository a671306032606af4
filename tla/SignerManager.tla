---------------------------- MODULE SignerManager ----------------------------
(***************************************************************************)
(* signer-manager.clar, the reference signer-manager: it pulls its stakers' *)
(* sBTC rewards out of pox-5, keeps a fee, and pays each staker in sBTC or  *)
(* through an sBTC withdrawal to Bitcoin, which sBTC later accepts or       *)
(* rejects.  Every public function is one action; one that errs rolls its  *)
(* transaction back and is no step.                                        *)
(***************************************************************************)
EXTENDS ClarityMap, FiniteSets, Naturals

CONSTANTS
    None,              \* Clarity's none
    Stakers, Admins,   \* Admins: who may ever become an admin
    Deployer,
    RewardCycles, BondIndexes,
    MaxBips,           \* MAX_BIPS, 10000
    DustLimit,         \* least amount sbtc-withdrawal refuses
    Fees,              \* update-fees: values of fees-bips
    MaxFees,           \* max-fee of a staker's pox-addr
    Rewards,           \* what calculate-rewards may give each staker
    EmptyPulls,        \* pox-5 accepts a claim-rewards that moves nothing
    \* Bounds of the model
    MaxCalculated, MaxRequests

\* A reward cycle and the bond the rewards are for, None for STX-only stakes.
Scope == [rewardCycle : RewardCycles, bondIndex : BondIndexes \cup {None}]
RequestIds == 1 .. MaxRequests

ASSUME ManagerAssumption ==
    /\ Deployer \in Admins /\ None \notin BondIndexes
    /\ IsFiniteSet(Stakers) /\ IsFiniteSet(RewardCycles) /\ IsFiniteSet(BondIndexes)
    /\ MaxBips \in Nat \ {0} /\ DustLimit \in Nat /\ MaxCalculated \in Nat /\ MaxRequests \in Nat
    /\ Fees \subseteq Nat /\ MaxFees \subseteq Nat /\ Rewards \subseteq [Stakers -> Nat]
    /\ EmptyPulls \in BOOLEAN

VARIABLES
    \* Data-vars and maps of the contract
    admins, feesBips, feeBipsForCycle, earnedFees, poxAddrs,
    withdrawalRequests, withdrawalLiability, unclaimedStakerRewards,
    \* sBTC: the contract's balance, the stakers' balances, the requests
    balance, wallet, sbtc,
    \* pox-5: rewards not pulled yet (with the part rounding gives to nobody),
    \* each staker's pulled share, and how often calculate-rewards ran
    owed, roundingOwed, share, calculated,
    \* History: what each staker earned net of fees, the unused fee budgets
    \* minted to the contract, what was swept, the fees in force at the pulls a
    \* share comes from, and the fees charged
    net, refunds, swept, pulledUnder, charges

adminVars == <<admins, feesBips>>
requestVars == <<withdrawalRequests, withdrawalLiability, sbtc>>
poxVars == <<owed, roundingOwed, share, calculated>>
historyVars == <<net, refunds, swept, pulledUnder, charges>>
vars == <<admins, feesBips, feeBipsForCycle, earnedFees, poxAddrs,
          withdrawalRequests, withdrawalLiability, unclaimedStakerRewards,
          balance, wallet, sbtc, owed, roundingOwed, share, calculated,
          net, refunds, swept, pulledUnder, charges>>

TotalOf(amounts) == SumOver(amounts, Stakers)
CostOf(id) == sbtc[id].amount + sbtc[id].maxFee

-----------------------------------------------------------------------------
(* Rewards *)

\* The STX-only rewards of a cycle and those of the bonds named.
Pulled(rewardCycle, bondPeriods) ==
    {scope \in Scope : scope.rewardCycle = rewardCycle
                       /\ scope.bondIndex \in bondPeriods \cup {None}}

\* Faulty: each pull overwrites the fee of the cycle.
OverwriteFees(snapshot, scopes, fee) ==
    [scope \in DOMAIN snapshot \cup scopes |-> IF scope \in scopes THEN fee ELSE snapshot[scope]]

\* map-insert: the first fee of a cycle stays.
SnapshotFees(snapshot, scopes, fee) ==
    [scope \in DOMAIN snapshot \cup scopes |->
        IF scope \in DOMAIN snapshot THEN snapshot[scope] ELSE fee]

ClaimRewards(rewardCycle, bondPeriods) ==
    LET scopes == Pulled(rewardCycle, bondPeriods)
        total  == SumOver([scope \in Scope |-> TotalOf(owed[scope]) + roundingOwed[scope]], scopes)
    IN  /\ total > 0 \/ EmptyPulls
        /\ unclaimedStakerRewards' = unclaimedStakerRewards + total
        /\ feeBipsForCycle' = SnapshotFees(feeBipsForCycle, scopes, feesBips)
        /\ balance' = balance + total
        /\ share' = [scope \in Scope |->
               IF scope \in scopes
               THEN [s \in Stakers |-> share[scope][s] + owed[scope][s]]
               ELSE share[scope]]
        /\ owed' = [scope \in Scope |->
               IF scope \in scopes THEN [s \in Stakers |-> 0] ELSE owed[scope]]
        /\ roundingOwed' = [scope \in Scope |-> IF scope \in scopes THEN 0 ELSE roundingOwed[scope]]
        /\ pulledUnder' = [scope \in Scope |-> [s \in Stakers |->
               pulledUnder[scope][s] \cup
                   (IF scope \in scopes /\ owed[scope][s] > 0 THEN {feesBips} ELSE {})]]
        /\ UNCHANGED <<adminVars, requestVars, earnedFees, poxAddrs, wallet, calculated,
                       net, refunds, swept, charges>>

GetFeeBipsForCycle(scope) ==
    IF scope \in DOMAIN feeBipsForCycle THEN feeBipsForCycle[scope] ELSE 0

NextRequestId == Cardinality(DOMAIN sbtc) + 1

\* Through Bitcoin: amount and max-fee leave the balance into the request.
PayOnBitcoin(staker, earned) ==
    LET maxFee == poxAddrs[staker]
    IN  /\ earned >= maxFee
        /\ earned - maxFee > DustLimit
        /\ NextRequestId <= MaxRequests
        /\ sbtc' = MapSet(sbtc, NextRequestId,
               [amount |-> earned - maxFee, maxFee |-> maxFee, status |-> "pending",
                staker |-> staker])
        /\ withdrawalRequests' = MapSet(withdrawalRequests, NextRequestId, staker)
        /\ withdrawalLiability' = withdrawalLiability + (earned - maxFee) + maxFee
        /\ wallet' = wallet

PayInSbtc(staker, earned) ==
    /\ wallet' = [wallet EXCEPT ![staker] = @ + earned]
    /\ UNCHANGED requestVars

\* Faulty: the fee is released twice.
ReleasedFeeTwice(gross, fees) == gross + fees

\* Both the payout and the fee leave the unclaimed rewards.
Released(gross, fees) == gross

ClaimStakerRewards(staker, scope) ==
    LET gross  == share[scope][staker]
        fees   == (gross * GetFeeBipsForCycle(scope)) \div MaxBips
        earned == gross - fees
    IN  /\ earned > 0
        /\ unclaimedStakerRewards >= gross
        /\ balance >= earned
        /\ earnedFees' = earnedFees + fees
        /\ unclaimedStakerRewards' = unclaimedStakerRewards - Released(gross, fees)
        /\ balance' = balance - earned
        /\ IF staker \in DOMAIN poxAddrs
           THEN PayOnBitcoin(staker, earned)
           ELSE PayInSbtc(staker, earned)
        /\ share' = [share EXCEPT ![scope][staker] = 0]
        /\ net' = [net EXCEPT ![staker] = @ + earned]
        /\ pulledUnder' = [pulledUnder EXCEPT ![scope][staker] = {}]
        /\ charges' = charges \cup {[scope |-> scope, under |-> pulledUnder[scope][staker],
                                    rate |-> GetFeeBipsForCycle(scope)]}
        /\ UNCHANGED <<adminVars, feeBipsForCycle, poxAddrs, owed, roundingOwed, calculated,
                       refunds, swept>>

-----------------------------------------------------------------------------
(* Withdrawals that sBTC has decided *)

Retired(requests, id) == MapDelete(requests, id)

\* Faulty: a reclaim needs a decision of sBTC, whichever.
ReclaimableIfDecided(status) == status # "pending"

Reclaimable(status) == status = "rejected"

ReclaimFailedWithdrawal(id) ==
    /\ id \in DOMAIN withdrawalRequests
    /\ Reclaimable(sbtc[id].status)
    /\ withdrawalLiability >= CostOf(id) /\ balance >= CostOf(id)
    /\ withdrawalRequests' = Retired(withdrawalRequests, id)
    /\ withdrawalLiability' = withdrawalLiability - CostOf(id)
    /\ balance' = balance - CostOf(id)
    /\ wallet' = [wallet EXCEPT ![withdrawalRequests[id]] = @ + CostOf(id)]
    /\ UNCHANGED <<adminVars, feeBipsForCycle, earnedFees, poxAddrs, unclaimedStakerRewards,
                   sbtc, poxVars, historyVars>>

SettleAcceptedWithdrawal(id) ==
    /\ id \in DOMAIN withdrawalRequests
    /\ sbtc[id].status = "accepted"
    /\ withdrawalLiability >= CostOf(id)
    /\ withdrawalRequests' = Retired(withdrawalRequests, id)
    /\ withdrawalLiability' = withdrawalLiability - CostOf(id)
    /\ UNCHANGED <<adminVars, feeBipsForCycle, earnedFees, poxAddrs, unclaimedStakerRewards,
                   balance, wallet, sbtc, poxVars, historyVars>>

-----------------------------------------------------------------------------
(* Admin functions *)

UpdateAdmin(caller, admin, enabled) ==
    /\ caller \in admins
    /\ admins' = IF enabled THEN admins \cup {admin} ELSE admins \ {admin}
    /\ UNCHANGED <<feesBips, feeBipsForCycle, earnedFees, poxAddrs, unclaimedStakerRewards,
                   requestVars, balance, wallet, poxVars, historyVars>>

UpdateFees(caller, newFees) ==
    /\ caller \in admins
    /\ newFees < MaxBips
    /\ feesBips' = newFees
    /\ UNCHANGED <<admins, feeBipsForCycle, earnedFees, poxAddrs, unclaimedStakerRewards,
                   requestVars, balance, wallet, poxVars, historyVars>>

WithdrawFees(caller, amount) ==
    /\ caller \in admins
    /\ amount <= earnedFees
    /\ balance >= amount
    /\ earnedFees' = earnedFees - amount
    /\ balance' = balance - amount
    /\ UNCHANGED <<adminVars, feeBipsForCycle, poxAddrs, unclaimedStakerRewards, requestVars,
                   wallet, poxVars, historyVars>>

\* Faulty: rewards that nobody has claimed yet may be swept.
ReservedWithoutUnclaimed == earnedFees + withdrawalLiability

Reserved == earnedFees + withdrawalLiability + unclaimedStakerRewards

SweepFeeRefunds(caller) ==
    /\ caller \in admins
    /\ balance > Reserved
    /\ balance' = Reserved
    /\ swept' = swept + (balance - Reserved)
    /\ UNCHANGED <<adminVars, feeBipsForCycle, earnedFees, poxAddrs, unclaimedStakerRewards,
                   requestVars, wallet, poxVars, net, refunds, pulledUnder, charges>>

-----------------------------------------------------------------------------
(* pox-5 and sBTC: external code, but for the callback validate-stake! *)

\* pox-5 calls back when a staker stakes, with or without a pox-addr.
ValidateStake(staker, maxFee) ==
    /\ poxAddrs' = IF maxFee = None THEN MapDelete(poxAddrs, staker)
                   ELSE MapSet(poxAddrs, staker, maxFee)
    /\ UNCHANGED <<adminVars, feeBipsForCycle, earnedFees, unclaimedStakerRewards, requestVars,
                   balance, wallet, poxVars, historyVars>>

\* Rewards of a scope for each staker; rounding may leave one unit to nobody.
CalculateRewards(scope, rewards, rounding) ==
    /\ calculated < MaxCalculated
    /\ calculated' = calculated + 1
    /\ owed' = [owed EXCEPT ![scope] = [s \in Stakers |-> @[s] + rewards[s]]]
    /\ roundingOwed' = [roundingOwed EXCEPT ![scope] = @ + rounding]
    /\ UNCHANGED <<adminVars, feeBipsForCycle, earnedFees, poxAddrs, unclaimedStakerRewards,
                   requestVars, balance, wallet, share, historyVars>>

\* The Bitcoin fee was actualFee; the rest of its budget is minted back.
AcceptWithdrawal(id, actualFee) ==
    /\ sbtc[id].status = "pending"
    /\ actualFee <= sbtc[id].maxFee
    /\ sbtc' = [sbtc EXCEPT ![id].status = "accepted"]
    /\ balance' = balance + (sbtc[id].maxFee - actualFee)
    /\ refunds' = refunds + (sbtc[id].maxFee - actualFee)
    /\ UNCHANGED <<adminVars, feeBipsForCycle, earnedFees, poxAddrs, unclaimedStakerRewards,
                   withdrawalRequests, withdrawalLiability, wallet, poxVars, net, swept,
                   pulledUnder, charges>>

RejectWithdrawal(id) ==
    /\ sbtc[id].status = "pending"
    /\ sbtc' = [sbtc EXCEPT ![id].status = "rejected"]
    /\ balance' = balance + CostOf(id)
    /\ UNCHANGED <<adminVars, feeBipsForCycle, earnedFees, poxAddrs, unclaimedStakerRewards,
                   withdrawalRequests, withdrawalLiability, wallet, poxVars, historyVars>>

-----------------------------------------------------------------------------
NoShares == [scope \in Scope |-> [s \in Stakers |-> 0]]

Init ==
    /\ admins = {Deployer} /\ feesBips = 0 /\ feeBipsForCycle = EmptyMap
    /\ earnedFees = 0 /\ poxAddrs = EmptyMap
    /\ withdrawalRequests = EmptyMap /\ withdrawalLiability = 0 /\ unclaimedStakerRewards = 0
    /\ balance = 0 /\ wallet = [s \in Stakers |-> 0] /\ sbtc = EmptyMap
    /\ owed = NoShares /\ share = NoShares /\ calculated = 0
    /\ roundingOwed = [scope \in Scope |-> 0]
    /\ net = [s \in Stakers |-> 0] /\ refunds = 0 /\ swept = 0
    /\ pulledUnder = [scope \in Scope |-> [s \in Stakers |-> {}]]
    /\ charges = {}

Public ==
    \/ \E r \in RewardCycles, bonds \in SUBSET BondIndexes : ClaimRewards(r, bonds)
    \/ \E s \in Stakers, scope \in Scope : ClaimStakerRewards(s, scope)
    \/ \E id \in DOMAIN sbtc : ReclaimFailedWithdrawal(id)
    \/ \E id \in DOMAIN sbtc : SettleAcceptedWithdrawal(id)
    \/ \E a, b \in Admins, enabled \in BOOLEAN : UpdateAdmin(a, b, enabled)
    \/ \E a \in Admins, fee \in Fees : UpdateFees(a, fee)
    \/ \E a \in Admins, amount \in 1 .. earnedFees : WithdrawFees(a, amount)
    \/ \E a \in Admins : SweepFeeRefunds(a)

External ==
    \/ \E s \in Stakers, maxFee \in MaxFees \cup {None} : ValidateStake(s, maxFee)
    \/ \E scope \in Scope, rewards \in Rewards, rounding \in {0, 1} :
          CalculateRewards(scope, rewards, rounding)
    \/ \E id \in DOMAIN sbtc : \E fee \in 0 .. sbtc[id].maxFee : AcceptWithdrawal(id, fee)
    \/ \E id \in DOMAIN sbtc : RejectWithdrawal(id)

Next == Public \/ External

Spec == Init /\ [][Next]_vars

-----------------------------------------------------------------------------
(* Properties *)

Live(status) == {id \in DOMAIN withdrawalRequests : sbtc[id].status = status}
CostOfAll(ids) == SumOver([id \in DOMAIN sbtc |-> CostOf(id)], ids)

\* Every data-var, map and balance has its type.
TypeOK ==
    /\ admins \subseteq Admins /\ feesBips \in Nat /\ earnedFees \in Nat
    /\ IsMap(feeBipsForCycle, Scope, Nat) /\ IsMap(poxAddrs, Stakers, MaxFees)
    /\ IsMap(withdrawalRequests, RequestIds, Stakers)
    /\ withdrawalLiability \in Nat /\ unclaimedStakerRewards \in Nat /\ balance \in Nat
    /\ wallet \in [Stakers -> Nat] /\ net \in [Stakers -> Nat]
    /\ IsMap(sbtc, RequestIds, [amount : Nat, maxFee : Nat, staker : Stakers,
                                status : {"pending", "accepted", "rejected"}])
    /\ owed \in [Scope -> [Stakers -> Nat]] /\ share \in [Scope -> [Stakers -> Nat]]
    /\ roundingOwed \in [Scope -> Nat] /\ calculated \in 0 .. MaxCalculated
    /\ refunds \in Nat /\ swept \in Nat

\* No amount is below zero, and the contract's balance is what it owes: fees to
\* its admins, pulled rewards to its stakers, rejected withdrawals to theirs, and
\* the unused fee budgets that nobody has swept.  A sweep takes nothing else.
\* withdrawal-liability is the cost of the requests that are not retired, so
\* nothing underflows it.
EverySatoshiOwed ==
    /\ TypeOK
    /\ withdrawalLiability = CostOfAll(DOMAIN withdrawalRequests)
    /\ swept <= refunds
    /\ balance = earnedFees + unclaimedStakerRewards + CostOfAll(Live("rejected"))
                     + (refunds - swept)

\* What a staker earned was paid in sBTC or on Bitcoin, or is in a request that
\* can still be paid or reclaimed: never lost, never paid twice.
StakersMadeWhole ==
    \A s \in Stakers :
        net[s] = wallet[s] + CostOfAll({id \in DOMAIN sbtc :
                     /\ sbtc[id].staker = s
                     /\ sbtc[id].status = "accepted" \/ id \in DOMAIN withdrawalRequests})

\* The pulled shares are within unclaimed-staker-rewards: the claim of one staker
\* never takes what another needs.
SharesReserved ==
    SumOver([scope \in Scope |-> TotalOf(share[scope])], Scope) <= unclaimedStakerRewards

\* Stakers who claim the same rewards pay the same fee: an admin cannot change it
\* between their claims.
SameFeeForEveryStaker ==
    \A c, d \in charges : c.scope = d.scope => c.rate = d.rate

\* signer-manager.clar:7: a fee, once set, is deducted from rewards calculated
\* after it.  A staker whose whole share was pulled under one fee pays that fee.
NewRewardsPayTheNewFee ==
    \A c \in charges : Cardinality(c.under) = 1 => c.rate \in c.under
=============================================================================
