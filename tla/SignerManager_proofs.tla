------------------------- MODULE SignerManager_proofs -------------------------
(***************************************************************************)
(* The signer-manager's books, for every set of stakers, cycles, bonds,     *)
(* fees and rewards.                                                       *)
(*   One fee per scope: two claims of a scope pay the same fee because both *)
(* pay the snapshot and a snapshot never changes; a claim pays the snapshot *)
(* and not the default of an absent one because a share that can be claimed *)
(* was pulled, and the pull took the snapshot.                             *)
(*   Solvency: the shares stay within unclaimed-staker-rewards because a    *)
(* pull adds at least what it shares out; the balance is what is owed       *)
(* because every action moves an amount between two parts of the equation; *)
(* both rest on what the requests are (RequestsInv): an id is new to both   *)
(* maps when it is made, and a decision leaves the cost of a request alone. *)
(***************************************************************************)
EXTENDS SignerManager, Shared_proofs

FeeTypes ==
    /\ feesBips \in Nat
    /\ IsMap(feeBipsForCycle, Scope, Nat)
    /\ owed \in [Scope -> [Stakers -> Nat]]
    /\ share \in [Scope -> [Stakers -> Nat]]

SharesHaveAFee ==
    \A scope \in Scope, s \in Stakers : share[scope][s] > 0 => scope \in DOMAIN feeBipsForCycle

ChargesAreSnapshots ==
    \A c \in charges : c.scope \in DOMAIN feeBipsForCycle /\ c.rate = feeBipsForCycle[c.scope]

FeeInv == FeeTypes /\ SharesHaveAFee /\ ChargesAreSnapshots

-----------------------------------------------------------------------------
\* No share is reserved at the start.
LEMMA InitFeeInv == Init => FeeInv
BY DEF Init, FeeInv, FeeTypes, SharesHaveAFee, ChargesAreSnapshots, NoShares, EmptyMap, IsMap

(* A pull keeps every fee it finds and gives one to every scope it pays.    *)
LEMMA ClaimRewardsKeeps ==
    ASSUME FeeInv, NEW r \in RewardCycles, NEW bonds \in SUBSET BondIndexes, ClaimRewards(r, bonds)
    PROVE  FeeInv'
<1> DEFINE scopes == Pulled(r, bonds)
<1>1. /\ feeBipsForCycle' = SnapshotFees(feeBipsForCycle, scopes, feesBips)
      /\ share' = [scope \in Scope |->
             IF scope \in scopes
             THEN [s \in Stakers |-> share[scope][s] + owed[scope][s]]
             ELSE share[scope]]
      /\ owed' = [scope \in Scope |->
             IF scope \in scopes THEN [s \in Stakers |-> 0] ELSE owed[scope]]
      /\ UNCHANGED <<feesBips, charges>>
  BY DEF ClaimRewards, adminVars
<1>2. scopes \subseteq Scope
  BY DEF Pulled
<1> HIDE DEF scopes
<1>3. /\ DOMAIN feeBipsForCycle' = DOMAIN feeBipsForCycle \cup scopes
      /\ \A scope \in DOMAIN feeBipsForCycle : feeBipsForCycle'[scope] = feeBipsForCycle[scope]
      /\ IsMap(feeBipsForCycle', Scope, Nat)
  BY <1>1, <1>2 DEF SnapshotFees, FeeInv, FeeTypes, IsMap
<1>4. FeeTypes'
  <2>1. owed' \in [Scope -> [Stakers -> Nat]]
    BY <1>1 DEF FeeInv, FeeTypes
  <2>2. share' \in [Scope -> [Stakers -> Nat]]
    BY <1>1 DEF FeeInv, FeeTypes
  <2> QED BY <1>1, <1>3, <2>1, <2>2 DEF FeeInv, FeeTypes
<1>5. SharesHaveAFee'
  BY <1>1, <1>3 DEF FeeInv, SharesHaveAFee
<1>6. ChargesAreSnapshots'
  BY <1>1, <1>3 DEF FeeInv, ChargesAreSnapshots
<1> QED BY <1>4, <1>5, <1>6 DEF FeeInv

(* A claim that pays anything pays the snapshot. *)
LEMMA ClaimStakerRewardsKeeps ==
    ASSUME FeeInv, NEW staker \in Stakers, NEW scope \in Scope, ClaimStakerRewards(staker, scope)
    PROVE  FeeInv'
<1> DEFINE gross == share[scope][staker]
           rate  == GetFeeBipsForCycle(scope)
<1>1. gross \in Nat /\ rate \in Nat
  BY DEF FeeInv, FeeTypes, IsMap, GetFeeBipsForCycle
<1>2. gross - ((gross * rate) \div MaxBips) > 0
  BY DEF ClaimStakerRewards
<1>3. gross > 0
  <2> HIDE DEF gross, rate
  <2>1. CASE gross = 0
    <3>1. gross * rate = 0
      BY <1>1, <2>1
    <3>2. 0 \div MaxBips = 0
      BY ManagerAssumption
    <3> QED BY <1>2, <2>1, <3>1, <3>2
  <2> QED BY <1>1, <2>1
<1>4. scope \in DOMAIN feeBipsForCycle /\ rate = feeBipsForCycle[scope]
  BY <1>3 DEF FeeInv, SharesHaveAFee, GetFeeBipsForCycle
<1>5. /\ UNCHANGED <<feesBips, feeBipsForCycle, owed>>
      /\ share' = [share EXCEPT ![scope][staker] = 0]
      /\ charges' = charges \cup {[scope |-> scope, under |-> pulledUnder[scope][staker],
                                   rate |-> rate]}
  BY DEF ClaimStakerRewards, adminVars
<1>6. FeeTypes'
  BY <1>5 DEF FeeInv, FeeTypes
<1>7. SharesHaveAFee'
  BY <1>5 DEF FeeInv, FeeTypes, SharesHaveAFee
<1>8. ChargesAreSnapshots'
  BY <1>4, <1>5 DEF FeeInv, ChargesAreSnapshots
<1> QED BY <1>6, <1>7, <1>8 DEF FeeInv

LEMMA CalculateRewardsKeeps ==
    ASSUME FeeInv, NEW scope \in Scope, NEW rewards \in Rewards, NEW rounding \in {0, 1},
           CalculateRewards(scope, rewards, rounding)
    PROVE  FeeInv'
<1>1. /\ owed' = [owed EXCEPT ![scope] = [s \in Stakers |-> owed[scope][s] + rewards[s]]]
      /\ UNCHANGED <<feesBips, feeBipsForCycle, share, charges>>
  BY DEF CalculateRewards, adminVars, historyVars
<1>2. owed' \in [Scope -> [Stakers -> Nat]]
  BY <1>1, ManagerAssumption DEF FeeInv, FeeTypes
<1> QED BY <1>1, <1>2 DEF FeeInv, FeeTypes, SharesHaveAFee, ChargesAreSnapshots

(* Every other action leaves the fees and the shares alone. *)
LEMMA FeeInvFrame ==
    ASSUME FeeInv, feesBips' \in Nat, UNCHANGED <<feeBipsForCycle, owed, share, charges>>
    PROVE  FeeInv'
BY DEF FeeInv, FeeTypes, SharesHaveAFee, ChargesAreSnapshots

LEMMA NextKeepsFeeInv == FeeInv /\ [Next]_vars => FeeInv'
<1> SUFFICES ASSUME FeeInv, [Next]_vars PROVE FeeInv'
  OBVIOUS
<1>n. feesBips \in Nat
  BY DEF FeeInv, FeeTypes
<1>1. CASE Public
  <2>1. ASSUME NEW r \in RewardCycles, NEW bonds \in SUBSET BondIndexes, ClaimRewards(r, bonds)
        PROVE  FeeInv'
    BY <2>1, ClaimRewardsKeeps
  <2>2. ASSUME NEW s \in Stakers, NEW scope \in Scope, ClaimStakerRewards(s, scope)
        PROVE  FeeInv'
    BY <2>2, ClaimStakerRewardsKeeps
  <2>3. ASSUME NEW id, ReclaimFailedWithdrawal(id)
        PROVE  FeeInv'
    BY <1>n, <2>3, FeeInvFrame DEF ReclaimFailedWithdrawal, adminVars, poxVars, historyVars
  <2>4. ASSUME NEW id, SettleAcceptedWithdrawal(id)
        PROVE  FeeInv'
    BY <1>n, <2>4, FeeInvFrame DEF SettleAcceptedWithdrawal, adminVars, poxVars, historyVars
  <2>5. ASSUME NEW a, NEW b, NEW enabled, UpdateAdmin(a, b, enabled)
        PROVE  FeeInv'
    BY <1>n, <2>5, FeeInvFrame DEF UpdateAdmin, poxVars, historyVars
  <2>6. ASSUME NEW a, NEW fee \in Fees, UpdateFees(a, fee)
        PROVE  FeeInv'
    BY <2>6, FeeInvFrame, ManagerAssumption DEF UpdateFees, poxVars, historyVars
  <2>7. ASSUME NEW a, NEW amount, WithdrawFees(a, amount)
        PROVE  FeeInv'
    BY <1>n, <2>7, FeeInvFrame DEF WithdrawFees, adminVars, poxVars, historyVars
  <2>8. ASSUME NEW a, SweepFeeRefunds(a)
        PROVE  FeeInv'
    BY <1>n, <2>8, FeeInvFrame DEF SweepFeeRefunds, adminVars, poxVars
  <2> QED BY <1>1, <2>1, <2>2, <2>3, <2>4, <2>5, <2>6, <2>7, <2>8 DEF Public
<1>2. CASE External
  <2>1. ASSUME NEW s, NEW maxFee, ValidateStake(s, maxFee)
        PROVE  FeeInv'
    BY <1>n, <2>1, FeeInvFrame DEF ValidateStake, adminVars, poxVars, historyVars
  <2>2. ASSUME NEW scope \in Scope, NEW rewards \in Rewards, NEW rounding \in {0, 1},
               CalculateRewards(scope, rewards, rounding)
        PROVE  FeeInv'
    BY <2>2, CalculateRewardsKeeps
  <2>3. ASSUME NEW id, NEW fee, AcceptWithdrawal(id, fee)
        PROVE  FeeInv'
    BY <1>n, <2>3, FeeInvFrame DEF AcceptWithdrawal, adminVars, poxVars
  <2>4. ASSUME NEW id, RejectWithdrawal(id)
        PROVE  FeeInv'
    BY <1>n, <2>4, FeeInvFrame DEF RejectWithdrawal, adminVars, poxVars, historyVars
  <2> QED BY <1>2, <2>1, <2>2, <2>3, <2>4 DEF External
<1>3. CASE UNCHANGED vars
  BY <1>n, <1>3, FeeInvFrame DEF vars
<1> QED BY <1>1, <1>2, <1>3 DEF Next

-----------------------------------------------------------------------------
(* Stakers who claim the same rewards pay the same fee, whatever the admins *)
(* set between their claims.                                               *)
THEOREM OneFeePerScope == Spec => []SameFeeForEveryStaker
<1>1. FeeInv => SameFeeForEveryStaker
  BY DEF FeeInv, ChargesAreSnapshots, SameFeeForEveryStaker
<1> QED BY InitFeeInv, NextKeepsFeeInv, <1>1, PTL DEF Spec

-----------------------------------------------------------------------------
(* Requests *)
Request == [amount : Nat, maxFee : Nat, staker : Stakers,
            status : {"pending", "accepted", "rejected"}]

\* sBTC numbers requests from 1; the contract keeps an entry, for the same staker,
\* of every request it has not retired, and retires decided ones only.
RequestsInv ==
    /\ \E n \in 0 .. MaxRequests : DOMAIN sbtc = 1 .. n
    /\ DOMAIN withdrawalRequests \subseteq DOMAIN sbtc
    /\ \A id \in DOMAIN sbtc :
          sbtc[id].status = "pending" => id \in DOMAIN withdrawalRequests
    /\ \A id \in DOMAIN withdrawalRequests : withdrawalRequests[id] = sbtc[id].staker

TypeInv == TypeOK /\ RequestsInv

\* The cost of each request, as a map: what the sums of the books are over.
CostsOf(requests) == [id \in DOMAIN requests |-> requests[id].amount + requests[id].maxFee]

(* Scopes and the sums over the stakers of one scope are finite. *)
LEMMA ScopeFinite == IsFiniteSet(Scope)
<1> DEFINE B == BondIndexes \cup {None}
           P == RewardCycles \X B
           f == [p \in P |-> [rewardCycle |-> p[1], bondIndex |-> p[2]]]
<1>1. IsFiniteSet(B)
  BY ManagerAssumption, FS_AddElement
<1>2. IsFiniteSet(P)
  <2> HIDE DEF B
  <2> QED BY <1>1, ManagerAssumption, FS_Product
<1>3. f \in Surjection(P, Scope)
  <2>1. f \in [P -> Scope]
    BY DEF Scope
  <2>2. ASSUME NEW scope \in Scope PROVE \E p \in P : f[p] = scope
    <3>1. <<scope.rewardCycle, scope.bondIndex>> \in P
      BY DEF Scope
    <3>2. f[<<scope.rewardCycle, scope.bondIndex>>] = scope
      BY <3>1 DEF Scope
    <3> QED BY <3>1, <3>2
  <2> HIDE DEF f, P
  <2> QED BY <2>1, <2>2 DEF Surjection
<1> HIDE DEF f, P
<1> QED BY <1>2, <1>3, FS_Surjection

LEMMA TotalType ==
    ASSUME NEW amounts \in [Stakers -> Nat]
    PROVE  TotalOf(amounts) \in Nat
BY ManagerAssumption, SumType DEF TotalOf

(* What is known of the requests. *)
LEMMA RequestFacts ==
    ASSUME TypeOK, RequestsInv
    PROVE  /\ IsFiniteSet(DOMAIN sbtc)
           /\ NextRequestId \in Nat \ {0} /\ NextRequestId \notin DOMAIN sbtc
           /\ DOMAIN sbtc \cup {NextRequestId} = 1 .. NextRequestId
           /\ sbtc \in [DOMAIN sbtc -> Request]
           /\ CostsOf(sbtc) \in [DOMAIN sbtc -> Nat]
           /\ \A id \in DOMAIN sbtc : CostsOf(sbtc)[id] = CostOf(id) /\ CostOf(id) \in Nat
<1>1. PICK n \in 0 .. MaxRequests : DOMAIN sbtc = 1 .. n
  BY DEF RequestsInv
<1>n. n \in Nat
  BY <1>1, ManagerAssumption
<1>2. IsFiniteSet(1 .. n) /\ Cardinality(1 .. n) = n
  BY <1>n, FS_Interval
<1>3. NextRequestId = n + 1
  BY <1>1, <1>2 DEF NextRequestId
<1>4. sbtc \in [DOMAIN sbtc -> Request]
  BY DEF TypeOK, IsMap, Request
<1>5. \A id \in DOMAIN sbtc : CostOf(id) \in Nat
  BY <1>4 DEF CostOf, Request
<1>6. CostsOf(sbtc) = [id \in DOMAIN sbtc |-> CostOf(id)]
  BY DEF CostsOf, CostOf
<1> QED BY <1>1, <1>n, <1>2, <1>3, <1>4, <1>5, <1>6

LEMMA CostOfAllIs ==
    /\ \A ids : CostOfAll(ids) = SumOver(CostsOf(sbtc), ids)
    /\ CostOfAll(DOMAIN withdrawalRequests)' = SumOver(CostsOf(sbtc'), DOMAIN withdrawalRequests')
    /\ CostOfAll(Live("rejected"))' =
          SumOver(CostsOf(sbtc'), {id \in DOMAIN withdrawalRequests' : sbtc'[id].status = "rejected"})
<1> QED BY DEF CostOfAll, CostOf, CostsOf, Live

-----------------------------------------------------------------------------
(* The amounts of a claim *)
LEMMA ClaimAmounts ==
    ASSUME TypeOK, NEW staker \in Stakers, NEW scope \in Scope, ClaimStakerRewards(staker, scope)
    PROVE  LET gross  == share[scope][staker]
               fees   == (gross * GetFeeBipsForCycle(scope)) \div MaxBips
           IN  gross \in Nat /\ fees \in Nat /\ gross - fees \in Nat
<1> DEFINE gross == share[scope][staker]
           rate == GetFeeBipsForCycle(scope)
           fees == (gross * rate) \div MaxBips
<1>1. gross \in Nat /\ rate \in Nat
  BY DEF TypeOK, IsMap, GetFeeBipsForCycle
<1>2. fees \in Nat
  <2> HIDE DEF gross, rate
  <2>1. gross * rate \in Nat
    BY <1>1
  <2> DEFINE p == gross * rate
  <2> HIDE DEF p
  <2>2. p \div MaxBips \in Nat
    BY <2>1, ManagerAssumption DEF p
  <2> QED BY <2>2 DEF p
<1>3. gross - fees > 0
  BY DEF ClaimStakerRewards
<1> HIDE DEF gross, fees
<1> QED BY <1>1, <1>2, <1>3 DEF gross, fees

-----------------------------------------------------------------------------
(* Types *)
LEMMA InitTypeInv == Init => TypeInv
<1> SUFFICES ASSUME Init PROVE TypeInv
  OBVIOUS
<1> USE DEF Init
<1>1. TypeOK
  BY ManagerAssumption DEF TypeOK, EmptyMap, IsMap, NoShares
<1>2. RequestsInv
  <2>1. 0 \in 0 .. MaxRequests /\ DOMAIN EmptyMap = 1 .. 0
    BY ManagerAssumption DEF EmptyMap
  <2> QED BY <2>1 DEF RequestsInv, EmptyMap
<1> QED BY <1>1, <1>2 DEF TypeInv

LEMMA PullTypes ==
    ASSUME TypeInv, NEW r \in RewardCycles, NEW bonds \in SUBSET BondIndexes, ClaimRewards(r, bonds)
    PROVE  TypeInv'
<1> DEFINE scopes == Pulled(r, bonds)
           m == [scope \in Scope |-> TotalOf(owed[scope]) + roundingOwed[scope]]
           total == SumOver(m, scopes)
<1>1. /\ unclaimedStakerRewards' = unclaimedStakerRewards + total
      /\ feeBipsForCycle' = SnapshotFees(feeBipsForCycle, scopes, feesBips)
      /\ balance' = balance + total
      /\ share' = [scope \in Scope |->
             IF scope \in scopes
             THEN [s \in Stakers |-> share[scope][s] + owed[scope][s]]
             ELSE share[scope]]
      /\ owed' = [scope \in Scope |->
             IF scope \in scopes THEN [s \in Stakers |-> 0] ELSE owed[scope]]
      /\ roundingOwed' = [scope \in Scope |-> IF scope \in scopes THEN 0 ELSE roundingOwed[scope]]
      /\ UNCHANGED <<adminVars, requestVars, earnedFees, poxAddrs, wallet, calculated,
                     net, refunds, swept>>
  BY DEF ClaimRewards
<1>2. scopes \subseteq Scope /\ IsFiniteSet(scopes)
  <2>1. scopes \subseteq Scope
    BY DEF Pulled
  <2> QED BY <2>1, ScopeFinite, FS_Subset
<1> HIDE DEF scopes
<1>3. total \in Nat
  <2>1. \A scope \in Scope : TotalOf(owed[scope]) \in Nat /\ roundingOwed[scope] \in Nat
    BY TotalType DEF TypeInv, TypeOK
  <2>2. \A scope \in scopes : m[scope] \in Nat
    BY <1>2, <2>1
  <2> HIDE DEF m
  <2> QED BY <1>2, <2>2, SumType
<1> HIDE DEF total
<1>4. IsMap(feeBipsForCycle', Scope, Nat)
  BY <1>1, <1>2 DEF SnapshotFees, TypeInv, TypeOK, IsMap
<1>5. owed' \in [Scope -> [Stakers -> Nat]] /\ share' \in [Scope -> [Stakers -> Nat]]
      /\ roundingOwed' \in [Scope -> Nat]
  BY <1>1 DEF TypeInv, TypeOK
<1>6. TypeOK'
  BY <1>1, <1>3, <1>4, <1>5 DEF TypeInv, TypeOK, adminVars, requestVars
<1>7. RequestsInv'
  BY <1>1 DEF TypeInv, RequestsInv, requestVars
<1> QED BY <1>6, <1>7 DEF TypeInv

(* A new request has the next id and its own entry in withdrawal-requests. *)
LEMMA RequestTypes ==
    ASSUME TypeInv, NEW staker \in Stakers, staker \in DOMAIN poxAddrs, NEW earned \in Nat,
           PayOnBitcoin(staker, earned)
    PROVE  /\ IsMap(withdrawalRequests', RequestIds, Stakers) /\ withdrawalLiability' \in Nat
           /\ IsMap(sbtc', RequestIds, Request)
           /\ RequestsInv'
<1> DEFINE maxFee == poxAddrs[staker]
           id == NextRequestId
           request == [amount |-> earned - maxFee, maxFee |-> maxFee, status |-> "pending",
                       staker |-> staker]
<1>1. maxFee \in Nat
  BY ManagerAssumption DEF TypeInv, TypeOK, IsMap
<1>2. request \in Request
  BY <1>1 DEF Request, PayOnBitcoin
<1>3. /\ id \in RequestIds /\ id \in 0 .. MaxRequests /\ id \notin DOMAIN sbtc
      /\ DOMAIN sbtc \cup {id} = 1 .. id
  BY RequestFacts, ManagerAssumption DEF TypeInv, RequestIds, PayOnBitcoin
<1>4. /\ sbtc' = MapSet(sbtc, id, request)
      /\ withdrawalRequests' = MapSet(withdrawalRequests, id, staker)
      /\ withdrawalLiability' = withdrawalLiability + (earned - maxFee) + maxFee
      /\ earned >= maxFee
  BY DEF PayOnBitcoin
<1> HIDE DEF id, request, maxFee
<1>5. IsMap(withdrawalRequests', RequestIds, Stakers) /\ IsMap(sbtc', RequestIds, Request)
  BY <1>2, <1>3, <1>4, MapSetType DEF TypeInv, TypeOK, Request
<1>6. withdrawalLiability' \in Nat
  BY <1>1, <1>4 DEF TypeInv, TypeOK
<1>7. RequestsInv'
  <2>1. /\ DOMAIN sbtc' = DOMAIN sbtc \cup {id} /\ sbtc'[id] = request
        /\ \A x \in DOMAIN sbtc : sbtc'[x] = sbtc[x]
        /\ DOMAIN withdrawalRequests' = DOMAIN withdrawalRequests \cup {id}
        /\ withdrawalRequests'[id] = staker
        /\ \A x \in DOMAIN withdrawalRequests \ {id} : withdrawalRequests'[x] = withdrawalRequests[x]
    <3>1. /\ DOMAIN sbtc' = DOMAIN sbtc \cup {id} /\ sbtc'[id] = request
          /\ \A x \in DOMAIN sbtc \ {id} : sbtc'[x] = sbtc[x]
      BY <1>4 DEF MapSet
    <3>2. /\ DOMAIN withdrawalRequests' = DOMAIN withdrawalRequests \cup {id}
          /\ withdrawalRequests'[id] = staker
          /\ \A x \in DOMAIN withdrawalRequests \ {id} : withdrawalRequests'[x] = withdrawalRequests[x]
      BY <1>4 DEF MapSet
    <3> QED BY <1>3, <3>1, <3>2
  <2>2. DOMAIN sbtc' = 1 .. id
    BY <1>3, <2>1
  <2>3. request.staker = staker
    BY DEF request
  <2> QED BY <1>3, <2>1, <2>2, <2>3 DEF TypeInv, RequestsInv
<1> QED BY <1>5, <1>6, <1>7

LEMMA ClaimTypes ==
    ASSUME TypeInv, NEW staker \in Stakers, NEW scope \in Scope, ClaimStakerRewards(staker, scope)
    PROVE  TypeInv'
<1> DEFINE gross == share[scope][staker]
           fees == (gross * GetFeeBipsForCycle(scope)) \div MaxBips
           earned == gross - fees
<1>1. gross \in Nat /\ fees \in Nat /\ earned \in Nat
  BY ClaimAmounts DEF TypeInv
<1>2. /\ unclaimedStakerRewards >= gross /\ balance >= earned
      /\ earnedFees' = earnedFees + fees
      /\ unclaimedStakerRewards' = unclaimedStakerRewards - gross
      /\ balance' = balance - earned
      /\ IF staker \in DOMAIN poxAddrs
         THEN PayOnBitcoin(staker, earned)
         ELSE PayInSbtc(staker, earned)
      /\ share' = [share EXCEPT ![scope][staker] = 0]
      /\ net' = [net EXCEPT ![staker] = net[staker] + earned]
      /\ UNCHANGED <<adminVars, feeBipsForCycle, poxAddrs, owed, roundingOwed, calculated,
                     refunds, swept>>
  BY DEF ClaimStakerRewards, Released
<1> HIDE DEF gross, fees, earned
<1>3. /\ IsMap(withdrawalRequests', RequestIds, Stakers) /\ withdrawalLiability' \in Nat
      /\ IsMap(sbtc', RequestIds, Request)
      /\ RequestsInv'
      /\ wallet' \in [Stakers -> Nat]
  <2>1. CASE staker \in DOMAIN poxAddrs
    BY <1>1, <1>2, <2>1, RequestTypes DEF PayOnBitcoin, TypeInv, TypeOK
  <2>2. CASE staker \notin DOMAIN poxAddrs
    <3>1. wallet' = [wallet EXCEPT ![staker] = wallet[staker] + earned] /\ UNCHANGED requestVars
      BY <1>2, <2>2 DEF PayInSbtc
    <3> QED BY <1>1, <3>1 DEF TypeInv, TypeOK, RequestsInv, requestVars, Request
  <2> QED BY <2>1, <2>2
<1>4. /\ earnedFees' \in Nat /\ unclaimedStakerRewards' \in Nat /\ balance' \in Nat
      /\ net' \in [Stakers -> Nat] /\ share' \in [Scope -> [Stakers -> Nat]]
  BY <1>1, <1>2 DEF TypeInv, TypeOK
<1> QED BY <1>2, <1>3, <1>4 DEF TypeInv, TypeOK, adminVars, Request

LEMMA StepTypes == TypeInv /\ [Next]_vars => TypeInv'
<1> SUFFICES ASSUME TypeInv, [Next]_vars PROVE TypeInv'
  OBVIOUS
<1>t. TypeOK /\ RequestsInv
  BY DEF TypeInv
<1>1. CASE Public
  <2>1. ASSUME NEW r \in RewardCycles, NEW bonds \in SUBSET BondIndexes, ClaimRewards(r, bonds)
        PROVE  TypeInv'
    BY <2>1, PullTypes
  <2>2. ASSUME NEW s \in Stakers, NEW scope \in Scope, ClaimStakerRewards(s, scope)
        PROVE  TypeInv'
    BY <2>2, ClaimTypes
  <2>3. ASSUME NEW id \in DOMAIN sbtc, ReclaimFailedWithdrawal(id)
        PROVE  TypeInv'
    <3>1. CostOf(id) \in Nat
      BY <1>t, RequestFacts
    <3>2. IsMap(withdrawalRequests', RequestIds, Stakers)
          /\ DOMAIN withdrawalRequests' = DOMAIN withdrawalRequests \ {id}
          /\ \A x \in DOMAIN withdrawalRequests \ {id} : withdrawalRequests'[x] = withdrawalRequests[x]
      BY <1>t, <2>3, MapDeleteType, MapDeleteDef DEF ReclaimFailedWithdrawal, Retired, TypeOK
    <3>3. /\ withdrawalLiability' \in Nat /\ balance' \in Nat /\ wallet' \in [Stakers -> Nat]
      BY <1>t, <2>3, <3>1 DEF ReclaimFailedWithdrawal, TypeOK, IsMap
    <3>4. TypeOK'
      BY <1>t, <2>3, <3>2, <3>3
         DEF ReclaimFailedWithdrawal, TypeOK, adminVars, poxVars, historyVars
    <3>5. sbtc[id].status = "rejected" /\ sbtc' = sbtc
      BY <2>3 DEF ReclaimFailedWithdrawal, Reclaimable
    <3>6. RequestsInv'
      BY <1>t, <3>2, <3>5 DEF RequestsInv
    <3> QED BY <3>4, <3>6 DEF TypeInv
  <2>4. ASSUME NEW id \in DOMAIN sbtc, SettleAcceptedWithdrawal(id)
        PROVE  TypeInv'
    <3>1. CostOf(id) \in Nat
      BY <1>t, RequestFacts
    <3>2. IsMap(withdrawalRequests', RequestIds, Stakers)
          /\ DOMAIN withdrawalRequests' = DOMAIN withdrawalRequests \ {id}
          /\ \A x \in DOMAIN withdrawalRequests \ {id} : withdrawalRequests'[x] = withdrawalRequests[x]
      BY <1>t, <2>4, MapDeleteType, MapDeleteDef DEF SettleAcceptedWithdrawal, Retired, TypeOK
    <3>3. withdrawalLiability' \in Nat
      BY <1>t, <2>4, <3>1 DEF SettleAcceptedWithdrawal, TypeOK
    <3>4. TypeOK'
      BY <1>t, <2>4, <3>2, <3>3
         DEF SettleAcceptedWithdrawal, TypeOK, adminVars, poxVars, historyVars
    <3>5. sbtc[id].status = "accepted" /\ sbtc' = sbtc
      BY <2>4 DEF SettleAcceptedWithdrawal
    <3>6. RequestsInv'
      BY <1>t, <3>2, <3>5 DEF RequestsInv
    <3> QED BY <3>4, <3>6 DEF TypeInv
  <2>5. ASSUME NEW a \in Admins, NEW b \in Admins, NEW enabled \in BOOLEAN, UpdateAdmin(a, b, enabled)
        PROVE  TypeInv'
    BY <1>t, <2>5 DEF UpdateAdmin, TypeInv, TypeOK, RequestsInv, requestVars, poxVars, historyVars
  <2>6. ASSUME NEW a \in Admins, NEW fee \in Fees, UpdateFees(a, fee)
        PROVE  TypeInv'
    BY <1>t, <2>6, ManagerAssumption
       DEF UpdateFees, TypeInv, TypeOK, RequestsInv, requestVars, poxVars, historyVars
  <2>7. ASSUME NEW a \in Admins, NEW amount \in 1 .. earnedFees, WithdrawFees(a, amount)
        PROVE  TypeInv'
    <3>1. earnedFees' \in Nat /\ balance' \in Nat
      BY <1>t, <2>7 DEF WithdrawFees, TypeOK
    <3> QED BY <1>t, <2>7, <3>1
            DEF WithdrawFees, TypeInv, TypeOK, RequestsInv, adminVars, requestVars, poxVars,
                historyVars
  <2>8. ASSUME NEW a \in Admins, SweepFeeRefunds(a)
        PROVE  TypeInv'
    <3>1. balance' \in Nat /\ swept' \in Nat
      BY <1>t, <2>8 DEF SweepFeeRefunds, Reserved, TypeOK
    <3> QED BY <1>t, <2>8, <3>1
            DEF SweepFeeRefunds, TypeInv, TypeOK, RequestsInv, adminVars, requestVars, poxVars
  <2> QED BY <1>1, <2>1, <2>2, <2>3, <2>4, <2>5, <2>6, <2>7, <2>8 DEF Public
<1>2. CASE External
  <2>1. ASSUME NEW s \in Stakers, NEW maxFee \in MaxFees \cup {None}, ValidateStake(s, maxFee)
        PROVE  TypeInv'
    <3>1. IsMap(poxAddrs', Stakers, MaxFees)
      BY <1>t, <2>1, MapSetType, MapDeleteType DEF ValidateStake, TypeOK
    <3> QED BY <1>t, <2>1, <3>1
            DEF ValidateStake, TypeInv, TypeOK, RequestsInv, adminVars, requestVars, poxVars,
                historyVars
  <2>2. ASSUME NEW scope \in Scope, NEW rewards \in Rewards, NEW rounding \in {0, 1},
               CalculateRewards(scope, rewards, rounding)
        PROVE  TypeInv'
    <3>1. /\ owed' \in [Scope -> [Stakers -> Nat]] /\ roundingOwed' \in [Scope -> Nat]
          /\ calculated' \in 0 .. MaxCalculated
      BY <1>t, <2>2, ManagerAssumption DEF CalculateRewards, TypeOK
    <3> QED BY <1>t, <2>2, <3>1
            DEF CalculateRewards, TypeInv, TypeOK, RequestsInv, adminVars, requestVars, historyVars
  <2>3. ASSUME NEW id \in DOMAIN sbtc, NEW fee \in 0 .. sbtc[id].maxFee, AcceptWithdrawal(id, fee)
        PROVE  TypeInv'
    <3>1. sbtc[id] \in Request
      BY <1>t, RequestFacts
    <3>2. balance' \in Nat /\ refunds' \in Nat
      BY <1>t, <2>3, <3>1 DEF AcceptWithdrawal, TypeOK, Request
    <3>3. /\ DOMAIN sbtc' = DOMAIN sbtc /\ sbtc'[id] = [sbtc[id] EXCEPT !.status = "accepted"]
          /\ \A x \in DOMAIN sbtc \ {id} : sbtc'[x] = sbtc[x]
          /\ IsMap(sbtc', RequestIds, Request)
      BY <1>t, <2>3, <3>1 DEF AcceptWithdrawal, TypeOK, IsMap, Request
    <3>4. /\ \A x \in DOMAIN sbtc : sbtc'[x].staker = sbtc[x].staker
          /\ \A x \in DOMAIN sbtc : sbtc'[x].status = "pending" => sbtc[x].status = "pending"
      BY <3>1, <3>3 DEF Request
    <3>5. RequestsInv'
      BY <1>t, <2>3, <3>3, <3>4 DEF AcceptWithdrawal, RequestsInv
    <3> QED BY <1>t, <2>3, <3>2, <3>3, <3>5
            DEF AcceptWithdrawal, TypeInv, TypeOK, adminVars, poxVars, Request
  <2>4. ASSUME NEW id \in DOMAIN sbtc, RejectWithdrawal(id)
        PROVE  TypeInv'
    <3>1. sbtc[id] \in Request /\ CostOf(id) \in Nat
      BY <1>t, RequestFacts
    <3>2. balance' \in Nat
      BY <1>t, <2>4, <3>1 DEF RejectWithdrawal, TypeOK
    <3>3. /\ DOMAIN sbtc' = DOMAIN sbtc /\ sbtc'[id] = [sbtc[id] EXCEPT !.status = "rejected"]
          /\ \A x \in DOMAIN sbtc \ {id} : sbtc'[x] = sbtc[x]
          /\ IsMap(sbtc', RequestIds, Request)
      BY <1>t, <2>4, <3>1 DEF RejectWithdrawal, TypeOK, IsMap, Request
    <3>4. /\ \A x \in DOMAIN sbtc : sbtc'[x].staker = sbtc[x].staker
          /\ \A x \in DOMAIN sbtc : sbtc'[x].status = "pending" => sbtc[x].status = "pending"
      BY <3>1, <3>3 DEF Request
    <3>5. RequestsInv'
      BY <1>t, <2>4, <3>3, <3>4 DEF RejectWithdrawal, RequestsInv
    <3> QED BY <1>t, <2>4, <3>2, <3>3, <3>5
            DEF RejectWithdrawal, TypeInv, TypeOK, adminVars, poxVars, historyVars, Request
  <2> QED BY <1>2, <2>1, <2>2, <2>3, <2>4 DEF External
<1>3. CASE UNCHANGED vars
  BY <1>t, <1>3 DEF vars, TypeInv, TypeOK, RequestsInv
<1> QED BY <1>1, <1>2, <1>3 DEF Next

-----------------------------------------------------------------------------
(* Shares *)
ShareTotals(shares) == [scope \in Scope |-> SumOver(shares[scope], Stakers)]

LEMMA SharesReservedIs ==
    /\ SharesReserved <=> SumOver(ShareTotals(share), Scope) <= unclaimedStakerRewards
    /\ SharesReserved' <=> SumOver(ShareTotals(share'), Scope) <= unclaimedStakerRewards'
BY DEF SharesReserved, ShareTotals, TotalOf

LEMMA ShareTotalsType ==
    ASSUME NEW shares \in [Scope -> [Stakers -> Nat]]
    PROVE  \A scope \in Scope : ShareTotals(shares)[scope] \in Nat
<1> SUFFICES ASSUME NEW scope \in Scope PROVE SumOver(shares[scope], Stakers) \in Nat
  BY DEF ShareTotals
<1>1. \A s \in Stakers : shares[scope][s] \in Nat
  OBVIOUS
<1> QED BY <1>1, ManagerAssumption, SumType

(* A pull adds to the reserve the rewards of its scopes, rounding included, *)
(* and to the shares the rewards alone.                                    *)
LEMMA PullReserves ==
    ASSUME TypeInv, SharesReserved, NEW r \in RewardCycles, NEW bonds \in SUBSET BondIndexes,
           ClaimRewards(r, bonds)
    PROVE  SharesReserved'
<1> DEFINE scopes == Pulled(r, bonds)
           rest == Scope \ scopes
           earned == ShareTotals(owed)
           m == [scope \in Scope |-> TotalOf(owed[scope]) + roundingOwed[scope]]
           before == ShareTotals(share)
           after == ShareTotals(share')
<1>1. /\ unclaimedStakerRewards' = unclaimedStakerRewards + SumOver(m, scopes)
      /\ share' = [scope \in Scope |->
             IF scope \in scopes
             THEN [s \in Stakers |-> share[scope][s] + owed[scope][s]]
             ELSE share[scope]]
  BY DEF ClaimRewards
<1>2. scopes \subseteq Scope /\ IsFiniteSet(Scope) /\ IsFiniteSet(scopes) /\ IsFiniteSet(rest)
  <2>1. scopes \subseteq Scope
    BY DEF Pulled
  <2> QED BY <2>1, ScopeFinite, FS_Subset
<1>t. /\ owed \in [Scope -> [Stakers -> Nat]] /\ share \in [Scope -> [Stakers -> Nat]]
      /\ share' \in [Scope -> [Stakers -> Nat]] /\ roundingOwed \in [Scope -> Nat]
      /\ unclaimedStakerRewards \in Nat
  BY PullTypes DEF TypeInv, TypeOK
<1>3. \A scope \in Scope : before[scope] \in Nat /\ after[scope] \in Nat /\ earned[scope] \in Nat
  BY <1>t, ShareTotalsType
<1>4. \A scope \in Scope : m[scope] = earned[scope] + roundingOwed[scope]
  BY DEF ShareTotals, TotalOf
<1> HIDE DEF scopes
<1>5. ASSUME NEW scope \in scopes
      PROVE  after[scope] = before[scope] + earned[scope]
  <2>1. \A s \in Stakers : share[scope][s] \in Nat /\ owed[scope][s] \in Nat
                           /\ share'[scope][s] = share[scope][s] + owed[scope][s]
    BY <1>1, <1>2, <1>t
  <2>2. SumOver(share'[scope], Stakers) = SumOver(share[scope], Stakers) + SumOver(owed[scope], Stakers)
    BY <2>1, ManagerAssumption, SumPlus
  <2> QED BY <1>2, <2>2 DEF ShareTotals
<1>6. ASSUME NEW scope \in rest
      PROVE  after[scope] = before[scope]
  BY <1>1 DEF ShareTotals
<1> HIDE DEF m, before, after, earned, rest
<1>7. SumOver(after, scopes) = SumOver(before, scopes) + SumOver(earned, scopes)
  BY <1>2, <1>3, <1>5, SumPlus
<1>8. SumOver(after, rest) = SumOver(before, rest)
  BY <1>6, SumSame
<1>9. scopes \cup rest = Scope /\ scopes \cap rest = {}
  BY <1>2 DEF rest
<1>10. /\ SumOver(after, scopes \cup rest) = SumOver(after, scopes) + SumOver(after, rest)
       /\ SumOver(before, scopes \cup rest) = SumOver(before, scopes) + SumOver(before, rest)
  BY <1>2, <1>3, <1>9, SumUnion
<1>11. SumOver(earned, scopes) <= SumOver(m, scopes)
  <2>1. \A scope \in scopes : earned[scope] \in Nat /\ m[scope] \in Nat /\ earned[scope] <= m[scope]
    BY <1>2, <1>3, <1>4, <1>t
  <2> QED BY <1>2, <2>1, SumMonotone
<1>12. /\ SumOver(before, scopes) \in Nat /\ SumOver(before, rest) \in Nat
       /\ SumOver(earned, scopes) \in Nat /\ SumOver(m, scopes) \in Nat
  <2>1. \A scope \in scopes : before[scope] \in Nat /\ earned[scope] \in Nat /\ m[scope] \in Nat
    BY <1>2, <1>3, <1>4, <1>t
  <2>2. \A scope \in rest : before[scope] \in Nat
    BY <1>3 DEF rest
  <2> QED BY <1>2, <2>1, <2>2, SumType
<1>13. SumOver(before, Scope) <= unclaimedStakerRewards
  BY SharesReservedIs DEF before
<1>14. /\ SumOver(after, Scope) = SumOver(before, scopes) + SumOver(earned, scopes) + SumOver(before, rest)
       /\ SumOver(before, Scope) = SumOver(before, scopes) + SumOver(before, rest)
  BY <1>7, <1>8, <1>9, <1>10
<1>15. SumOver(after, Scope) <= unclaimedStakerRewards'
  BY <1>1, <1>11, <1>12, <1>13, <1>14, <1>t
<1> QED BY <1>15, SharesReservedIs DEF after

(* A claim takes the staker's share from the shares and from the reserve. *)
LEMMA ClaimReserves ==
    ASSUME TypeInv, SharesReserved, NEW staker \in Stakers, NEW scope \in Scope,
           ClaimStakerRewards(staker, scope)
    PROVE  SharesReserved'
<1> DEFINE gross == share[scope][staker]
           before == ShareTotals(share)
           after == ShareTotals(share')
<1>1. /\ unclaimedStakerRewards' = unclaimedStakerRewards - gross
      /\ share' = [share EXCEPT ![scope][staker] = 0]
  BY DEF ClaimStakerRewards, Released
<1>t. /\ share \in [Scope -> [Stakers -> Nat]] /\ share' \in [Scope -> [Stakers -> Nat]]
      /\ unclaimedStakerRewards \in Nat /\ gross \in Nat
  BY ClaimTypes DEF TypeInv, TypeOK
<1>2. \A k \in Scope : before[k] \in Nat /\ after[k] \in Nat
  BY <1>t, ShareTotalsType
<1>3. \A k \in Scope \ {scope} : before[k] = after[k]
  BY <1>1, <1>t DEF ShareTotals
<1>4. after[scope] = before[scope] - gross
  <2>1. /\ \A s \in Stakers : share[scope][s] \in Nat /\ share'[scope][s] \in Nat
        /\ \A s \in Stakers \ {staker} : share[scope][s] = share'[scope][s]
        /\ share'[scope][staker] = 0
    BY <1>1, <1>t
  <2>2. SumOver(share'[scope], Stakers) =
           SumOver(share[scope], Stakers) - share[scope][staker] + share'[scope][staker]
    BY <2>1, ManagerAssumption, SumChange
  <2>3. SumOver(share[scope], Stakers) \in Nat
    BY <1>2 DEF ShareTotals
  <2>4. SumOver(share'[scope], Stakers) = SumOver(share[scope], Stakers) - gross
    BY <1>t, <2>1, <2>2, <2>3
  <2> QED BY <2>4 DEF ShareTotals
<1> HIDE DEF before, after, gross
<1>5. SumOver(after, Scope) = SumOver(before, Scope) - before[scope] + after[scope]
  BY <1>2, <1>3, ScopeFinite, SumChange
<1>6. SumOver(before, Scope) \in Nat
  BY <1>2, ScopeFinite, SumType
<1>7. SumOver(before, Scope) <= unclaimedStakerRewards
  BY SharesReservedIs DEF before
<1>8. SumOver(after, Scope) <= unclaimedStakerRewards'
  BY <1>1, <1>2, <1>4, <1>5, <1>6, <1>7, <1>t
<1> QED BY <1>8, SharesReservedIs DEF after

LEMMA InitShares == Init => SharesReserved
<1> SUFFICES ASSUME Init PROVE SharesReserved
  OBVIOUS
<1> DEFINE m == ShareTotals(share)
           none == [scope \in Scope |-> 0]
<1>1. \A scope \in Scope : m[scope] = 0
  <2> SUFFICES ASSUME NEW scope \in Scope PROVE SumOver(share[scope], Stakers) = 0
    BY DEF ShareTotals
  <2>1. \A s \in Stakers : share[scope][s] = 0
    BY DEF Init, NoShares
  <2>2. Units(share[scope], Stakers) = {}
    BY <2>1 DEF Units
  <2> QED BY <2>2, FS_EmptySet DEF SumOver
<1> HIDE DEF m
<1>2. Units(m, Scope) = {}
  BY <1>1 DEF Units
<1>3. SumOver(m, Scope) = 0
  BY <1>2, FS_EmptySet DEF SumOver
<1> QED BY <1>3, SharesReservedIs DEF Init, m

LEMMA StepShares == TypeInv /\ SharesReserved /\ [Next]_vars => SharesReserved'
<1> SUFFICES ASSUME TypeInv, SharesReserved, [Next]_vars PROVE SharesReserved'
  OBVIOUS
<1>f. UNCHANGED <<share, unclaimedStakerRewards>> => SharesReserved'
  BY SharesReservedIs
<1>1. ASSUME NEW r \in RewardCycles, NEW bonds \in SUBSET BondIndexes, ClaimRewards(r, bonds)
      PROVE  SharesReserved'
  BY <1>1, PullReserves
<1>2. ASSUME NEW s \in Stakers, NEW scope \in Scope, ClaimStakerRewards(s, scope)
      PROVE  SharesReserved'
  BY <1>2, ClaimReserves
<1>3. ASSUME NEW id, ReclaimFailedWithdrawal(id) \/ SettleAcceptedWithdrawal(id)
      PROVE  SharesReserved'
  BY <1>f, <1>3 DEF ReclaimFailedWithdrawal, SettleAcceptedWithdrawal, poxVars
<1>4. ASSUME NEW a, NEW b, NEW enabled, UpdateAdmin(a, b, enabled)
      PROVE  SharesReserved'
  BY <1>f, <1>4 DEF UpdateAdmin, poxVars
<1>5. ASSUME NEW a, NEW n, UpdateFees(a, n) \/ WithdrawFees(a, n)
      PROVE  SharesReserved'
  BY <1>f, <1>5 DEF UpdateFees, WithdrawFees, poxVars
<1>6. ASSUME NEW a, SweepFeeRefunds(a)
      PROVE  SharesReserved'
  BY <1>f, <1>6 DEF SweepFeeRefunds, poxVars
<1>7. CASE External
  BY <1>f, <1>7 DEF External, ValidateStake, CalculateRewards, AcceptWithdrawal, RejectWithdrawal,
                    poxVars
<1>8. CASE UNCHANGED vars
  BY <1>f, <1>8 DEF vars
<1> QED BY <1>1, <1>2, <1>3, <1>4, <1>5, <1>6, <1>7, <1>8 DEF Next, Public

-----------------------------------------------------------------------------
(* Money *)
\* Of the requests not retired (live): the rejected ones; those a staker was paid
\* by or can still be paid by.  Books and Payouts are EverySatoshiOwed, types
\* apart, and StakersMadeWhole, written with them.
Rejected(requests, live) == {id \in live : requests[id].status = "rejected"}

PaidOrLive(requests, live, s) ==
    {id \in DOMAIN requests :
        requests[id].staker = s /\ (requests[id].status = "accepted" \/ id \in live)}

Books ==
    /\ withdrawalLiability = SumOver(CostsOf(sbtc), DOMAIN withdrawalRequests)
    /\ swept <= refunds
    /\ balance = earnedFees + unclaimedStakerRewards
                     + SumOver(CostsOf(sbtc), Rejected(sbtc, DOMAIN withdrawalRequests))
                     + (refunds - swept)

Payouts ==
    \A s \in Stakers :
        net[s] = wallet[s] + SumOver(CostsOf(sbtc), PaidOrLive(sbtc, DOMAIN withdrawalRequests, s))

LEMMA BooksAre ==
    /\ EverySatoshiOwed <=> TypeOK /\ Books
    /\ StakersMadeWhole <=> Payouts
<1>1. CostsOf(sbtc) = [id \in DOMAIN sbtc |-> CostOf(id)]
  BY DEF CostsOf, CostOf
<1>2. Live("rejected") = Rejected(sbtc, DOMAIN withdrawalRequests)
  BY DEF Live, Rejected
<1> QED BY <1>1, <1>2 DEF EverySatoshiOwed, StakersMadeWhole, Books, Payouts, CostOfAll, PaidOrLive

LEMMA CostsType ==
    ASSUME NEW requests, IsMap(requests, RequestIds, Request)
    PROVE  /\ IsFiniteSet(DOMAIN requests)
           /\ \A K \in SUBSET DOMAIN requests : IsFiniteSet(K) /\ SumOver(CostsOf(requests), K) \in Nat
           /\ \A id \in DOMAIN requests :
                 /\ CostsOf(requests)[id] \in Nat
                 /\ CostsOf(requests)[id] = requests[id].amount + requests[id].maxFee
<1>1. IsFiniteSet(RequestIds)
  BY ManagerAssumption, FS_Interval DEF RequestIds
<1>2. \A id \in DOMAIN requests :
         /\ CostsOf(requests)[id] \in Nat
         /\ CostsOf(requests)[id] = requests[id].amount + requests[id].maxFee
  BY DEF IsMap, CostsOf, Request
<1>3. IsFiniteSet(DOMAIN requests)
  BY <1>1, FS_Subset DEF IsMap
<1>4. ASSUME NEW K \in SUBSET DOMAIN requests
      PROVE  IsFiniteSet(K) /\ SumOver(CostsOf(requests), K) \in Nat
  <2>1. IsFiniteSet(K)
    BY <1>3, FS_Subset
  <2> QED BY <1>2, <2>1, SumType
<1> QED BY <1>2, <1>3, <1>4

(* A change of status changes no cost. *)
LEMMA StatusKeepsCosts ==
    ASSUME NEW requests, NEW id \in DOMAIN requests, NEW status,
           IsMap(requests, RequestIds, Request)
    PROVE  CostsOf([requests EXCEPT ![id].status = status]) = CostsOf(requests)
<1> DEFINE after == [requests EXCEPT ![id].status = status]
<1>1. requests[id] \in Request
  BY DEF IsMap
<1>2. \A x \in DOMAIN requests : after[x].amount = requests[x].amount /\ after[x].maxFee = requests[x].maxFee
  BY <1>1 DEF Request
<1>3. DOMAIN after = DOMAIN requests
  OBVIOUS
<1> QED BY <1>2, <1>3 DEF CostsOf

(* A claim pays the staker, or puts the same amount into a request. *)
LEMMA ClaimBooks ==
    ASSUME TypeInv, Books, Payouts, NEW staker \in Stakers, NEW scope \in Scope,
           ClaimStakerRewards(staker, scope)
    PROVE  Books' /\ Payouts'
<1> DEFINE gross == share[scope][staker]
           fees == (gross * GetFeeBipsForCycle(scope)) \div MaxBips
           earned == gross - fees
<1>1. gross \in Nat /\ fees \in Nat /\ earned \in Nat
  BY ClaimAmounts DEF TypeInv
<1>2. /\ earnedFees' = earnedFees + fees
      /\ unclaimedStakerRewards' = unclaimedStakerRewards - gross
      /\ balance' = balance - earned
      /\ IF staker \in DOMAIN poxAddrs THEN PayOnBitcoin(staker, earned) ELSE PayInSbtc(staker, earned)
      /\ net' = [net EXCEPT ![staker] = @ + earned]
      /\ refunds' = refunds /\ swept' = swept
  BY DEF ClaimStakerRewards, Released
<1>3. gross = earned + fees
  <2> HIDE DEF gross, fees
  <2> QED BY <1>1
<1> HIDE DEF gross, fees, earned
<1>t. /\ earnedFees \in Nat /\ unclaimedStakerRewards \in Nat /\ balance \in Nat
      /\ refunds \in Nat /\ swept \in Nat /\ withdrawalLiability \in Nat
      /\ net \in [Stakers -> Nat] /\ wallet \in [Stakers -> Nat]
      /\ IsMap(sbtc, RequestIds, Request) /\ DOMAIN withdrawalRequests \subseteq DOMAIN sbtc
  BY DEF TypeInv, TypeOK, RequestsInv, Request
<1>4. CASE staker \notin DOMAIN poxAddrs
  <2>1. wallet' = [wallet EXCEPT ![staker] = @ + earned] /\ UNCHANGED requestVars
    BY <1>2, <1>4 DEF PayInSbtc
  <2>2. SumOver(CostsOf(sbtc), Rejected(sbtc, DOMAIN withdrawalRequests)) \in Nat
    BY <1>t, CostsType DEF Rejected
  <2>3. \A s \in Stakers :
           SumOver(CostsOf(sbtc), PaidOrLive(sbtc, DOMAIN withdrawalRequests, s)) \in Nat
    BY <1>t, CostsType DEF PaidOrLive
  <2>4. Books'
    BY <1>1, <1>2, <1>3, <1>t, <2>1, <2>2 DEF Books, requestVars
  <2>5. Payouts'
    <3> SUFFICES ASSUME NEW s \in Stakers
                 PROVE  net'[s] = wallet'[s]
                          + SumOver(CostsOf(sbtc), PaidOrLive(sbtc, DOMAIN withdrawalRequests, s))
      BY <2>1 DEF Payouts, requestVars
    <3>1. net[s] = wallet[s]
                     + SumOver(CostsOf(sbtc), PaidOrLive(sbtc, DOMAIN withdrawalRequests, s))
      BY DEF Payouts
    <3>2. CASE s = staker
      BY <1>1, <1>2, <1>t, <2>1, <2>3, <3>1, <3>2
    <3>3. CASE s # staker
      BY <1>2, <1>t, <2>1, <3>1, <3>3
    <3> QED BY <3>2, <3>3
  <2> QED BY <2>4, <2>5
<1>5. CASE staker \in DOMAIN poxAddrs
  <2> DEFINE maxFee == poxAddrs[staker]
             id == NextRequestId
             request == [amount |-> earned - maxFee, maxFee |-> maxFee, status |-> "pending",
                         staker |-> staker]
             live == DOMAIN withdrawalRequests
             before == CostsOf(sbtc)
             after == CostsOf(sbtc')
  <2>p. PayOnBitcoin(staker, earned)
    BY <1>2, <1>5
  <2>1. maxFee \in Nat
    BY <1>5, ManagerAssumption DEF TypeInv, TypeOK, IsMap
  <2>2. /\ sbtc' = MapSet(sbtc, id, request)
        /\ withdrawalRequests' = MapSet(withdrawalRequests, id, staker)
        /\ withdrawalLiability' = withdrawalLiability + (earned - maxFee) + maxFee
        /\ wallet' = wallet /\ earned >= maxFee
    BY <2>p DEF PayOnBitcoin
  <2>3. id \notin DOMAIN sbtc
    BY RequestFacts DEF TypeInv
  <2>4. IsMap(sbtc', RequestIds, Request)
    BY <1>1, <1>5, <2>p, RequestTypes
  <2> HIDE DEF id
  <2>5. /\ DOMAIN sbtc' = DOMAIN sbtc \cup {id} /\ sbtc'[id] = request
        /\ \A x \in DOMAIN sbtc : sbtc'[x] = sbtc[x]
        /\ DOMAIN withdrawalRequests' = live \cup {id}
    <3> HIDE DEF request, maxFee
    <3>1. /\ DOMAIN sbtc' = DOMAIN sbtc \cup {id} /\ sbtc'[id] = request
          /\ \A x \in DOMAIN sbtc \ {id} : sbtc'[x] = sbtc[x]
      BY <2>2 DEF MapSet
    <3>2. DOMAIN withdrawalRequests' = live \cup {id}
      BY <2>2 DEF MapSet
    <3> QED BY <2>3, <3>1, <3>2
  <2>6. after[id] = earned /\ \A x \in DOMAIN sbtc : after[x] = before[x]
    BY <1>1, <2>1, <2>2, <2>5 DEF CostsOf
  <2>7. /\ \A K \in SUBSET DOMAIN sbtc : SumOver(after, K) = SumOver(before, K)
        /\ \A K \in SUBSET DOMAIN sbtc : SumOver(after, K \cup {id}) = SumOver(before, K) + earned
        /\ \A K \in SUBSET DOMAIN sbtc : SumOver(before, K) \in Nat
    <3> SUFFICES ASSUME NEW K \in SUBSET DOMAIN sbtc
                 PROVE  /\ SumOver(after, K) = SumOver(before, K)
                        /\ SumOver(after, K \cup {id}) = SumOver(before, K) + earned
                        /\ SumOver(before, K) \in Nat
      OBVIOUS
    <3>1. IsFiniteSet(K) /\ SumOver(before, K) \in Nat
      BY <1>t, CostsType
    <3> HIDE DEF before, after
    <3>2. SumOver(after, K) = SumOver(before, K)
      BY <2>6, SumSame
    <3>3. \A x \in K \cup {id} : after[x] \in Nat
      BY <2>4, <2>5, CostsType DEF after
    <3>4. id \notin K
      BY <2>3
    <3>5. SumOver(after, K \cup {id}) = SumOver(after, K) + after[id]
      BY <3>1, <3>3, <3>4, SumAdd
    <3> QED BY <2>6, <3>1, <3>2, <3>5
  <2>8. Rejected(sbtc', live \cup {id}) = Rejected(sbtc, live)
    BY <1>t, <2>5 DEF Rejected
  <2>9. PaidOrLive(sbtc', live \cup {id}, staker) = PaidOrLive(sbtc, live, staker) \cup {id}
    BY <1>t, <2>3, <2>5 DEF PaidOrLive
  <2>10. \A s \in Stakers \ {staker} :
            PaidOrLive(sbtc', live \cup {id}, s) = PaidOrLive(sbtc, live, s)
    BY <1>t, <2>3, <2>5 DEF PaidOrLive
  <2>11. /\ Rejected(sbtc, live) \in SUBSET DOMAIN sbtc
         /\ \A s \in Stakers : PaidOrLive(sbtc, live, s) \in SUBSET DOMAIN sbtc
    BY <1>t DEF Rejected, PaidOrLive
  <2> HIDE DEF request, before, after
  <2>12. Books'
    <3>1. withdrawalLiability' = SumOver(after, live \cup {id})
      BY <1>1, <1>t, <2>1, <2>2, <2>7 DEF Books, before, maxFee
    <3>2. balance' = earnedFees' + unclaimedStakerRewards'
                       + SumOver(after, Rejected(sbtc, live)) + (refunds' - swept')
      BY <1>1, <1>2, <1>3, <1>t, <2>7, <2>11 DEF Books, before
    <3> QED BY <1>2, <2>5, <2>8, <3>1, <3>2 DEF Books, after
  <2>13. Payouts'
    <3> SUFFICES ASSUME NEW s \in Stakers
                 PROVE  net'[s] = wallet'[s] + SumOver(after, PaidOrLive(sbtc', live \cup {id}, s))
      BY <2>5 DEF Payouts, after
    <3>1. net[s] = wallet[s] + SumOver(before, PaidOrLive(sbtc, live, s))
      BY DEF Payouts, before
    <3>2. SumOver(before, PaidOrLive(sbtc, live, s)) \in Nat
      BY <2>7, <2>11
    <3>3. CASE s = staker
      <4>1. SumOver(after, PaidOrLive(sbtc', live \cup {id}, s)) =
                SumOver(before, PaidOrLive(sbtc, live, s)) + earned
        BY <2>7, <2>9, <2>11, <3>3
      <4> QED BY <1>1, <1>2, <1>t, <2>2, <3>1, <3>2, <3>3, <4>1
    <3>4. CASE s # staker
      <4>1. SumOver(after, PaidOrLive(sbtc', live \cup {id}, s)) =
                SumOver(before, PaidOrLive(sbtc, live, s))
        BY <2>7, <2>10, <2>11, <3>4
      <4> QED BY <1>2, <1>t, <2>2, <3>1, <3>4, <4>1
    <3> QED BY <3>3, <3>4
  <2> QED BY <2>12, <2>13
<1> QED BY <1>4, <1>5

(* A request retired takes its cost out of the liability.  Reclaimed, it was *)
(* held by the contract since its rejection, and the staker gets it in sBTC. *)
LEMMA ReclaimBooks ==
    ASSUME TypeInv, Books, Payouts, NEW id \in DOMAIN sbtc, ReclaimFailedWithdrawal(id)
    PROVE  Books' /\ Payouts'
<1> DEFINE live == DOMAIN withdrawalRequests
           costs == CostsOf(sbtc)
           staker == sbtc[id].staker
<1>t. /\ earnedFees \in Nat /\ unclaimedStakerRewards \in Nat /\ balance \in Nat
      /\ refunds \in Nat /\ swept \in Nat /\ withdrawalLiability \in Nat
      /\ net \in [Stakers -> Nat] /\ wallet \in [Stakers -> Nat] /\ staker \in Stakers
      /\ IsMap(sbtc, RequestIds, Request) /\ live \subseteq DOMAIN sbtc
  BY DEF TypeInv, TypeOK, RequestsInv, Request, IsMap
<1>1. /\ id \in live /\ sbtc[id].status = "rejected" /\ sbtc' = sbtc
      /\ withdrawalRequests[id] = staker
      /\ withdrawalLiability' = withdrawalLiability - costs[id]
      /\ balance' = balance - costs[id]
      /\ wallet' = [wallet EXCEPT ![staker] = @ + costs[id]]
      /\ DOMAIN withdrawalRequests' = live \ {id}
      /\ UNCHANGED <<earnedFees, unclaimedStakerRewards, refunds, swept, net>>
  BY DEF ReclaimFailedWithdrawal, Reclaimable, Retired, MapDelete, TypeInv, RequestsInv, CostsOf,
         CostOf, historyVars
<1>2. \A K \in SUBSET DOMAIN sbtc :
         /\ SumOver(costs, K) \in Nat
         /\ id \in K => SumOver(costs, K) = SumOver(costs, K \ {id}) + costs[id]
  <2> SUFFICES ASSUME NEW K \in SUBSET DOMAIN sbtc
               PROVE  /\ SumOver(costs, K) \in Nat
                      /\ id \in K => SumOver(costs, K) = SumOver(costs, K \ {id}) + costs[id]
    OBVIOUS
  <2>1. IsFiniteSet(K) /\ SumOver(costs, K) \in Nat /\ \A x \in K : costs[x] \in Nat
    BY <1>t, CostsType
  <2> HIDE DEF costs
  <2>2. id \in K => SumOver(costs, K) = SumOver(costs, K \ {id}) + costs[id]
    BY <2>1, SumRemove
  <2> QED BY <2>1, <2>2
<1>3. /\ Rejected(sbtc, live \ {id}) = Rejected(sbtc, live) \ {id}
      /\ id \in Rejected(sbtc, live) /\ Rejected(sbtc, live) \subseteq DOMAIN sbtc
  BY <1>1, <1>t DEF Rejected
<1>4. /\ PaidOrLive(sbtc, live \ {id}, staker) = PaidOrLive(sbtc, live, staker) \ {id}
      /\ id \in PaidOrLive(sbtc, live, staker)
      /\ \A s \in Stakers \ {staker} : PaidOrLive(sbtc, live \ {id}, s) = PaidOrLive(sbtc, live, s)
      /\ \A s \in Stakers : PaidOrLive(sbtc, live, s) \in SUBSET DOMAIN sbtc
  BY <1>1, <1>t DEF PaidOrLive
<1>c. costs[id] \in Nat
  BY <1>t, CostsType
<1>5. /\ SumOver(costs, live) = SumOver(costs, live \ {id}) + costs[id]
      /\ SumOver(costs, live \ {id}) \in Nat
      /\ SumOver(costs, Rejected(sbtc, live)) = SumOver(costs, Rejected(sbtc, live) \ {id}) + costs[id]
      /\ SumOver(costs, Rejected(sbtc, live) \ {id}) \in Nat
  <2>1. live \ {id} \in SUBSET DOMAIN sbtc /\ Rejected(sbtc, live) \ {id} \in SUBSET DOMAIN sbtc
    BY <1>t, <1>3
  <2> QED BY <1>1, <1>2, <1>3, <1>t, <2>1
<1> HIDE DEF costs, staker
<1>6. Books'
  <2>1. withdrawalLiability' = SumOver(costs, live \ {id})
    BY <1>1, <1>5, <1>t, <1>c DEF Books, costs
  <2>2. balance' = earnedFees' + unclaimedStakerRewards'
                     + SumOver(costs, Rejected(sbtc, live) \ {id}) + (refunds' - swept')
    BY <1>1, <1>5, <1>t, <1>c DEF Books, costs
  <2> QED BY <1>1, <1>3, <2>1, <2>2 DEF Books, costs
<1>7. Payouts'
  <2> SUFFICES ASSUME NEW s \in Stakers
               PROVE  net[s] = wallet'[s] + SumOver(costs, PaidOrLive(sbtc, live \ {id}, s))
    BY <1>1 DEF Payouts, costs
  <2>1. net[s] = wallet[s] + SumOver(costs, PaidOrLive(sbtc, live, s))
    BY DEF Payouts, costs
  <2>2. CASE s = staker
    <3>1. /\ SumOver(costs, PaidOrLive(sbtc, live, s)) =
                SumOver(costs, PaidOrLive(sbtc, live, s) \ {id}) + costs[id]
          /\ SumOver(costs, PaidOrLive(sbtc, live, s) \ {id}) \in Nat
      BY <1>2, <1>4, <2>2
    <3>2. wallet[s] \in Nat /\ wallet'[s] = wallet[s] + costs[id]
      BY <1>1, <1>t, <2>2
    <3>3. PaidOrLive(sbtc, live \ {id}, s) = PaidOrLive(sbtc, live, s) \ {id}
      BY <1>4, <2>2
    <3>4. SumOver(costs, PaidOrLive(sbtc, live \ {id}, s)) =
              SumOver(costs, PaidOrLive(sbtc, live, s) \ {id})
      BY <3>3
    <3> DEFINE kept == SumOver(costs, PaidOrLive(sbtc, live, s) \ {id})
    <3>5. /\ kept \in Nat /\ SumOver(costs, PaidOrLive(sbtc, live \ {id}, s)) = kept
          /\ net[s] = wallet[s] + (kept + costs[id])
      BY <2>1, <3>1, <3>4
    <3> HIDE DEF kept
    <3> QED BY <1>c, <3>2, <3>5
  <2>3. CASE s # staker
    BY <1>1, <1>4, <1>t, <2>1, <2>3
  <2> QED BY <2>2, <2>3
<1> QED BY <1>6, <1>7

(* Settled, it was accepted: it had left the balance, and the staker is paid. *)
LEMMA SettleBooks ==
    ASSUME TypeInv, Books, Payouts, NEW id \in DOMAIN sbtc, SettleAcceptedWithdrawal(id)
    PROVE  Books' /\ Payouts'
<1> DEFINE live == DOMAIN withdrawalRequests
           costs == CostsOf(sbtc)
<1>t. /\ withdrawalLiability \in Nat
      /\ IsMap(sbtc, RequestIds, Request) /\ live \subseteq DOMAIN sbtc
  BY DEF TypeInv, TypeOK, RequestsInv, Request, IsMap
<1>1. /\ id \in live /\ sbtc[id].status = "accepted" /\ sbtc' = sbtc
      /\ withdrawalLiability' = withdrawalLiability - costs[id]
      /\ DOMAIN withdrawalRequests' = live \ {id}
      /\ UNCHANGED <<earnedFees, unclaimedStakerRewards, refunds, swept, net, balance, wallet>>
  BY DEF SettleAcceptedWithdrawal, Retired, MapDelete, CostsOf, CostOf, historyVars
<1>2. /\ SumOver(costs, live) = SumOver(costs, live \ {id}) + costs[id]
      /\ SumOver(costs, live \ {id}) \in Nat /\ costs[id] \in Nat
  <2>1. /\ IsFiniteSet(live) /\ \A x \in live : costs[x] \in Nat
        /\ SumOver(costs, live \ {id}) \in Nat
    BY <1>t, CostsType
  <2> HIDE DEF costs
  <2> QED BY <1>1, <2>1, SumRemove
<1>3. /\ Rejected(sbtc, live \ {id}) = Rejected(sbtc, live)
      /\ \A s : PaidOrLive(sbtc, live \ {id}, s) = PaidOrLive(sbtc, live, s)
  BY <1>1 DEF Rejected, PaidOrLive
<1> HIDE DEF costs
<1>4. withdrawalLiability' = SumOver(costs, live \ {id})
  BY <1>1, <1>2, <1>t DEF Books, costs
<1>5. Books'
  BY <1>1, <1>3, <1>4 DEF Books, costs
<1>6. Payouts'
  BY <1>1, <1>3 DEF Payouts
<1> QED BY <1>5, <1>6

(* A decision of sBTC: accepted, the unused fee comes back; rejected, the cost. *)
LEMMA AcceptBooks ==
    ASSUME TypeInv, Books, Payouts, NEW id \in DOMAIN sbtc, NEW fee \in 0 .. sbtc[id].maxFee,
           AcceptWithdrawal(id, fee)
    PROVE  Books' /\ Payouts'
<1> DEFINE live == DOMAIN withdrawalRequests
           unused == sbtc[id].maxFee - fee
<1>t. /\ earnedFees \in Nat /\ unclaimedStakerRewards \in Nat /\ balance \in Nat
      /\ refunds \in Nat /\ swept \in Nat
      /\ IsMap(sbtc, RequestIds, Request) /\ live \subseteq DOMAIN sbtc /\ sbtc[id] \in Request
  BY DEF TypeInv, TypeOK, RequestsInv, Request, IsMap
<1>1. /\ sbtc[id].status = "pending" /\ id \in live
      /\ sbtc' = [sbtc EXCEPT ![id].status = "accepted"]
      /\ balance' = balance + unused /\ refunds' = refunds + unused
      /\ UNCHANGED <<earnedFees, unclaimedStakerRewards, swept, net, wallet, withdrawalRequests,
                     withdrawalLiability>>
  BY DEF AcceptWithdrawal, TypeInv, RequestsInv
<1>2. unused \in Nat
  BY <1>t DEF Request
<1>3. CostsOf(sbtc') = CostsOf(sbtc)
  BY <1>1, <1>t, StatusKeepsCosts
<1>4. /\ DOMAIN sbtc' = DOMAIN sbtc /\ sbtc'[id].status = "accepted"
      /\ sbtc'[id].staker = sbtc[id].staker
      /\ \A x \in DOMAIN sbtc \ {id} : sbtc'[x] = sbtc[x]
  BY <1>1, <1>t DEF Request
<1>5. /\ Rejected(sbtc', live) = Rejected(sbtc, live)
      /\ \A s : PaidOrLive(sbtc', live, s) = PaidOrLive(sbtc, live, s)
  BY <1>1, <1>4, <1>t DEF Rejected, PaidOrLive
<1>6. SumOver(CostsOf(sbtc), Rejected(sbtc, live)) \in Nat
  BY <1>t, CostsType DEF Rejected
<1> HIDE DEF unused
<1>7. Books'
  BY <1>1, <1>2, <1>3, <1>5, <1>6, <1>t DEF Books
<1>8. Payouts'
  BY <1>1, <1>3, <1>5 DEF Payouts
<1> QED BY <1>7, <1>8

LEMMA RejectBooks ==
    ASSUME TypeInv, Books, Payouts, NEW id \in DOMAIN sbtc, RejectWithdrawal(id)
    PROVE  Books' /\ Payouts'
<1> DEFINE live == DOMAIN withdrawalRequests
           costs == CostsOf(sbtc)
<1>t. /\ earnedFees \in Nat /\ unclaimedStakerRewards \in Nat /\ balance \in Nat
      /\ refunds \in Nat /\ swept \in Nat
      /\ IsMap(sbtc, RequestIds, Request) /\ live \subseteq DOMAIN sbtc /\ sbtc[id] \in Request
  BY DEF TypeInv, TypeOK, RequestsInv, Request, IsMap
<1>1. /\ sbtc[id].status = "pending" /\ id \in live
      /\ sbtc' = [sbtc EXCEPT ![id].status = "rejected"]
      /\ balance' = balance + costs[id]
      /\ UNCHANGED <<earnedFees, unclaimedStakerRewards, swept, refunds, net, wallet,
                     withdrawalRequests, withdrawalLiability>>
  BY DEF RejectWithdrawal, TypeInv, RequestsInv, CostsOf, CostOf, historyVars
<1>3. CostsOf(sbtc') = costs
  BY <1>1, <1>t, StatusKeepsCosts
<1>4. /\ DOMAIN sbtc' = DOMAIN sbtc /\ sbtc'[id].status = "rejected"
      /\ sbtc'[id].staker = sbtc[id].staker
      /\ \A x \in DOMAIN sbtc \ {id} : sbtc'[x] = sbtc[x]
  BY <1>1, <1>t DEF Request
<1>5. /\ Rejected(sbtc', live) = Rejected(sbtc, live) \cup {id}
      /\ id \notin Rejected(sbtc, live)
      /\ \A s : PaidOrLive(sbtc', live, s) = PaidOrLive(sbtc, live, s)
  BY <1>1, <1>4, <1>t DEF Rejected, PaidOrLive
<1>6. /\ costs[id] \in Nat /\ SumOver(costs, Rejected(sbtc, live)) \in Nat
      /\ SumOver(costs, Rejected(sbtc, live) \cup {id}) =
            SumOver(costs, Rejected(sbtc, live)) + costs[id]
  <2> DEFINE R == Rejected(sbtc, live)
  <2>1. /\ IsFiniteSet(R) /\ SumOver(costs, R) \in Nat
        /\ \A x \in R \cup {id} : costs[x] \in Nat
    BY <1>t, CostsType DEF Rejected
  <2>2. id \notin R
    BY <1>5
  <2> HIDE DEF R, costs
  <2>3. SumOver(costs, R \cup {id}) = SumOver(costs, R) + costs[id]
    BY <2>1, <2>2, SumAdd
  <2> QED BY <2>1, <2>3 DEF R
<1> HIDE DEF costs
<1>7. Books'
  <2>1. balance' = earnedFees' + unclaimedStakerRewards'
                     + SumOver(costs, Rejected(sbtc, live) \cup {id}) + (refunds' - swept')
    BY <1>1, <1>6, <1>t DEF Books, costs
  <2>2. withdrawalLiability' = SumOver(costs, live) /\ swept' <= refunds'
    BY <1>1 DEF Books, costs
  <2> QED BY <1>1, <1>3, <1>5, <2>1, <2>2 DEF Books
<1>8. Payouts'
  BY <1>1, <1>3, <1>5 DEF Payouts, costs
<1> QED BY <1>7, <1>8

(* What a sweep takes is refunds only: the rejected requests are part of the *)
(* liability, so the reserve covers every other part of the balance.         *)
LEMMA SweepBooks ==
    ASSUME TypeInv, Books, Payouts, NEW caller \in Admins, SweepFeeRefunds(caller)
    PROVE  Books' /\ Payouts'
<1> DEFINE live == DOMAIN withdrawalRequests
           costs == CostsOf(sbtc)
<1>t. /\ earnedFees \in Nat /\ unclaimedStakerRewards \in Nat /\ balance \in Nat
      /\ refunds \in Nat /\ swept \in Nat /\ withdrawalLiability \in Nat
      /\ IsMap(sbtc, RequestIds, Request) /\ live \subseteq DOMAIN sbtc
  BY DEF TypeInv, TypeOK, RequestsInv, Request, IsMap
<1>1. /\ balance > earnedFees + withdrawalLiability + unclaimedStakerRewards
      /\ balance' = earnedFees + withdrawalLiability + unclaimedStakerRewards
      /\ swept' = swept + (balance - (earnedFees + withdrawalLiability + unclaimedStakerRewards))
      /\ UNCHANGED <<sbtc, withdrawalRequests, withdrawalLiability, earnedFees,
                     unclaimedStakerRewards, refunds, net, wallet>>
  BY DEF SweepFeeRefunds, Reserved, requestVars
<1>2. /\ SumOver(costs, Rejected(sbtc, live)) <= SumOver(costs, live)
      /\ SumOver(costs, Rejected(sbtc, live)) \in Nat
  <2>1. /\ IsFiniteSet(live) /\ Rejected(sbtc, live) \subseteq live
        /\ \A x \in live : costs[x] \in Nat
        /\ SumOver(costs, Rejected(sbtc, live)) \in Nat
    BY <1>t, CostsType DEF Rejected
  <2> HIDE DEF costs
  <2>2. SumOver(costs, Rejected(sbtc, live)) <= SumOver(costs, live)
    BY <2>1, SumMonotone
  <2> QED BY <2>1, <2>2
<1> DEFINE rejected == SumOver(costs, Rejected(sbtc, live))
<1>3. /\ withdrawalLiability = SumOver(costs, live)
      /\ balance = earnedFees + unclaimedStakerRewards + rejected + (refunds - swept)
  BY DEF Books
<1> HIDE DEF rejected
<1>4. /\ balance' = earnedFees + unclaimedStakerRewards + rejected + (refunds - swept')
      /\ swept' <= refunds
  BY <1>1, <1>2, <1>3, <1>t DEF rejected
<1>5. Books'
  BY <1>1, <1>3, <1>4 DEF Books, rejected
<1>6. Payouts'
  BY <1>1 DEF Payouts
<1> QED BY <1>5, <1>6

(* A pull brings the balance what the unclaimed rewards owe; fees leave both. *)
LEMMA PullBooks ==
    ASSUME TypeInv, Books, Payouts, NEW r \in RewardCycles, NEW bonds \in SUBSET BondIndexes,
           ClaimRewards(r, bonds)
    PROVE  Books' /\ Payouts'
<1> DEFINE m == [scope \in Scope |-> TotalOf(owed[scope]) + roundingOwed[scope]]
           total == SumOver(m, Pulled(r, bonds))
           rejected == SumOver(CostsOf(sbtc), Rejected(sbtc, DOMAIN withdrawalRequests))
<1>1. /\ unclaimedStakerRewards' = unclaimedStakerRewards + total
      /\ balance' = balance + total
      /\ UNCHANGED <<requestVars, earnedFees, wallet, net, refunds, swept>>
  BY DEF ClaimRewards
<1>2. total \in Nat
  <2>1. Pulled(r, bonds) \subseteq Scope
    BY DEF Pulled
  <2>2. IsFiniteSet(Pulled(r, bonds))
    BY <2>1, ScopeFinite, FS_Subset
  <2>3. \A scope \in Scope : TotalOf(owed[scope]) \in Nat /\ roundingOwed[scope] \in Nat
    BY TotalType DEF TypeInv, TypeOK
  <2>4. \A scope \in Pulled(r, bonds) : m[scope] \in Nat
    BY <2>1, <2>3
  <2> HIDE DEF m
  <2> QED BY <2>2, <2>4, SumType
<1>3. /\ IsMap(sbtc, RequestIds, Request) /\ DOMAIN withdrawalRequests \subseteq DOMAIN sbtc
      /\ earnedFees \in Nat /\ unclaimedStakerRewards \in Nat /\ balance \in Nat
      /\ refunds \in Nat /\ swept \in Nat
  BY DEF TypeInv, TypeOK, RequestsInv, Request
<1>4. rejected \in Nat
  BY <1>3, CostsType DEF Rejected
<1>5. balance = earnedFees + unclaimedStakerRewards + rejected + (refunds - swept)
  BY DEF Books
<1> HIDE DEF total, rejected
<1>6. balance' = earnedFees + unclaimedStakerRewards' + rejected + (refunds - swept)
  BY <1>1, <1>2, <1>3, <1>4, <1>5
<1>7. Books'
  BY <1>1, <1>6 DEF Books, requestVars, rejected
<1>8. Payouts'
  BY <1>1 DEF Payouts, requestVars
<1> QED BY <1>7, <1>8

LEMMA WithdrawFeesBooks ==
    ASSUME TypeInv, Books, Payouts, NEW caller \in Admins, NEW amount \in 1 .. earnedFees,
           WithdrawFees(caller, amount)
    PROVE  Books' /\ Payouts'
<1> DEFINE rejected == SumOver(CostsOf(sbtc), Rejected(sbtc, DOMAIN withdrawalRequests))
<1>1. /\ earnedFees' = earnedFees - amount /\ balance' = balance - amount
      /\ UNCHANGED <<requestVars, unclaimedStakerRewards, wallet, net, refunds, swept>>
  BY DEF WithdrawFees, historyVars
<1>2. /\ IsMap(sbtc, RequestIds, Request) /\ DOMAIN withdrawalRequests \subseteq DOMAIN sbtc
      /\ earnedFees \in Nat /\ unclaimedStakerRewards \in Nat /\ balance \in Nat
      /\ refunds \in Nat /\ swept \in Nat /\ amount \in Nat
  BY DEF TypeInv, TypeOK, RequestsInv, Request
<1>3. rejected \in Nat
  BY <1>2, CostsType DEF Rejected
<1>4. balance = earnedFees + unclaimedStakerRewards + rejected + (refunds - swept)
  BY DEF Books
<1> HIDE DEF rejected
<1>5. balance' = earnedFees' + unclaimedStakerRewards + rejected + (refunds - swept)
  BY <1>1, <1>2, <1>3, <1>4
<1>6. Books'
  BY <1>1, <1>5 DEF Books, requestVars, rejected
<1>7. Payouts'
  BY <1>1 DEF Payouts, requestVars
<1> QED BY <1>6, <1>7

LEMMA BooksFrame ==
    ASSUME Books, Payouts,
           UNCHANGED <<requestVars, balance, wallet, earnedFees, unclaimedStakerRewards, net,
                       refunds, swept>>
    PROVE  Books' /\ Payouts'
<1>1. Books'
  BY DEF Books, requestVars
<1>2. Payouts'
  BY DEF Payouts, requestVars
<1> QED BY <1>1, <1>2

LEMMA InitBooks == Init => Books /\ Payouts
<1> SUFFICES ASSUME Init PROVE Books /\ Payouts
  OBVIOUS
<1>1. DOMAIN sbtc = {} /\ DOMAIN withdrawalRequests = {}
  BY DEF Init, EmptyMap
<1>2. /\ Rejected(sbtc, DOMAIN withdrawalRequests) = {}
      /\ \A s : PaidOrLive(sbtc, DOMAIN withdrawalRequests, s) = {}
  BY <1>1 DEF Rejected, PaidOrLive
<1>3. SumOver(CostsOf(sbtc), {}) = 0
  BY SumEmpty
<1>4. /\ SumOver(CostsOf(sbtc), DOMAIN withdrawalRequests) = 0
      /\ SumOver(CostsOf(sbtc), Rejected(sbtc, DOMAIN withdrawalRequests)) = 0
      /\ \A s : SumOver(CostsOf(sbtc), PaidOrLive(sbtc, DOMAIN withdrawalRequests, s)) = 0
  BY <1>1, <1>2, <1>3
<1>5. Books
  BY <1>4 DEF Books, Init
<1>6. Payouts
  BY <1>4 DEF Payouts, Init
<1> QED BY <1>5, <1>6

LEMMA StepBooks == TypeInv /\ Books /\ Payouts /\ [Next]_vars => Books' /\ Payouts'
<1> SUFFICES ASSUME TypeInv, Books, Payouts, [Next]_vars PROVE Books' /\ Payouts'
  OBVIOUS
<1>1. CASE Public
  <2>1. ASSUME NEW r \in RewardCycles, NEW bonds \in SUBSET BondIndexes, ClaimRewards(r, bonds)
        PROVE  Books' /\ Payouts'
    BY <2>1, PullBooks
  <2>2. ASSUME NEW s \in Stakers, NEW scope \in Scope, ClaimStakerRewards(s, scope)
        PROVE  Books' /\ Payouts'
    BY <2>2, ClaimBooks
  <2>3. ASSUME NEW id \in DOMAIN sbtc, ReclaimFailedWithdrawal(id)
        PROVE  Books' /\ Payouts'
    BY <2>3, ReclaimBooks
  <2>4. ASSUME NEW id \in DOMAIN sbtc, SettleAcceptedWithdrawal(id)
        PROVE  Books' /\ Payouts'
    BY <2>4, SettleBooks
  <2>5. ASSUME NEW a \in Admins, NEW b \in Admins, NEW enabled \in BOOLEAN, UpdateAdmin(a, b, enabled)
        PROVE  Books' /\ Payouts'
    BY <2>5, BooksFrame DEF UpdateAdmin, historyVars
  <2>6. ASSUME NEW a \in Admins, NEW fee \in Fees, UpdateFees(a, fee)
        PROVE  Books' /\ Payouts'
    BY <2>6, BooksFrame DEF UpdateFees, historyVars
  <2>7. ASSUME NEW a \in Admins, NEW amount \in 1 .. earnedFees, WithdrawFees(a, amount)
        PROVE  Books' /\ Payouts'
    BY <2>7, WithdrawFeesBooks
  <2>8. ASSUME NEW a \in Admins, SweepFeeRefunds(a)
        PROVE  Books' /\ Payouts'
    BY <2>8, SweepBooks
  <2> QED BY <1>1, <2>1, <2>2, <2>3, <2>4, <2>5, <2>6, <2>7, <2>8 DEF Public
<1>2. CASE External
  <2>1. ASSUME NEW s \in Stakers, NEW maxFee \in MaxFees \cup {None}, ValidateStake(s, maxFee)
        PROVE  Books' /\ Payouts'
    BY <2>1, BooksFrame DEF ValidateStake, historyVars
  <2>2. ASSUME NEW scope \in Scope, NEW rewards \in Rewards, NEW rounding \in {0, 1},
               CalculateRewards(scope, rewards, rounding)
        PROVE  Books' /\ Payouts'
    BY <2>2, BooksFrame DEF CalculateRewards, historyVars
  <2>3. ASSUME NEW id \in DOMAIN sbtc, NEW fee \in 0 .. sbtc[id].maxFee, AcceptWithdrawal(id, fee)
        PROVE  Books' /\ Payouts'
    BY <2>3, AcceptBooks
  <2>4. ASSUME NEW id \in DOMAIN sbtc, RejectWithdrawal(id)
        PROVE  Books' /\ Payouts'
    BY <2>4, RejectBooks
  <2> QED BY <1>2, <2>1, <2>2, <2>3, <2>4 DEF External
<1>3. CASE UNCHANGED vars
  BY <1>3, BooksFrame DEF vars, requestVars
<1> QED BY <1>1, <1>2, <1>3 DEF Next

-----------------------------------------------------------------------------
(* Every public function and every decision of sBTC keeps the types, and the *)
(* requests that are not retired are requests of sBTC for the same stakers;   *)
(* an undecided one is never retired.                                         *)
THEOREM RequestsInvariant == Spec => []TypeInv
BY InitTypeInv, StepTypes, PTL DEF Spec

(* The contract's balance is always what it owes, and an admin's sweep takes *)
(* nothing but the unused fee budgets, whatever sBTC decides between.         *)
THEOREM BooksBalance == Spec => []EverySatoshiOwed
<1>1. TypeInv /\ Books => EverySatoshiOwed
  BY BooksAre DEF TypeInv
<1> QED BY <1>1, InitTypeInv, StepTypes, InitBooks, StepBooks, PTL DEF Spec

(* What a staker earned is paid once, or in a request that can still be paid *)
(* or reclaimed.                                                              *)
THEOREM NoStakerShort == Spec => []StakersMadeWhole
BY BooksAre, InitTypeInv, StepTypes, InitBooks, StepBooks, PTL DEF Spec

(* No claim takes from unclaimed-staker-rewards what another staker needs. *)
THEOREM SharesCovered == Spec => []SharesReserved
BY InitTypeInv, StepTypes, InitShares, StepShares, PTL DEF Spec
=============================================================================
