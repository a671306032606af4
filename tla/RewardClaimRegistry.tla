------------------------- MODULE RewardClaimRegistry -------------------------
(***************************************************************************)
(* The reward-claim-registry.clar contract: prepaid reward claims for       *)
(* stakers, the index of L1 withdrawals those claims start, and the calls   *)
(* into untrusted signer-managers in the middle of both.                   *)
(*                                                                         *)
(* A Stacks transaction runs alone, so a public function that calls no      *)
(* signer-manager is one action.  A batch, and a function that calls a      *)
(* signer-manager, is a transaction of several steps: tx says where it is.  *)
(* While the signer-manager runs (InFlight) it may call back into every     *)
(* public function and into pox-5 and the sBTC contracts.                  *)
(***************************************************************************)
EXTENDS ClaimSchedule, FiniteSets, Sequences, LinkedList

CONSTANTS
    Principals,              \* who may send a transaction or hold STX
    Stakers,                 \* principals with pox-5 positions
    SignerManagers,          \* signer-manager contracts, untrusted
    Deployer,                \* the first admin
    RequestIds,              \* sbtc-registry withdrawal request ids
    BondIndexes,             \* pox-5 bond periods
    PoxEntries,              \* what pox-5 may report of one staker
    Fees,                    \* values of fee-per-claim, in micro-STX
    InitialFee,
    MaxClaimInstallments,    \* MAX_CLAIM_INSTALLMENTS, 192
    WithdrawalMinBurnAge,    \* WITHDRAWAL_MIN_BURN_AGE, 7
    PendingTicks,            \* length of PENDING_TICKS, 100
    DistributionLength,      \* Bitcoin blocks in a distribution cycle
    InitialStx,              \* STX every principal starts with
    \* Inputs of the public functions
    Senders,                 \* the principals that send transactions
    AdminChanges,            \* update-admin: the admin and enabled
    Entries,                 \* register-for-claims
    TopUps,                  \* add-claims: num-claims
    RegisterBatches, CancelBatches, ClaimBatches, SettleBatches,
    \* Bounds of the model
    MaxBurnHeight,           \* last Bitcoin block
    MaxRemaining             \* remaining-claims above which nobody tops up

Key == [staker : Stakers, signerManager : SignerManagers]
WithdrawalKey == [staker : Stakers, signerManager : SignerManagers, requestId : RequestIds]
KeyOf(staker, signerManager) == [staker |-> staker, signerManager |-> signerManager]
WithdrawalKeyOf(key, requestId) ==
    [staker |-> key.staker, signerManager |-> key.signerManager, requestId |-> requestId]

Position == [signer : SignerManagers, firstRewardCycle : Nat, bondIndex : BondIndexes \cup {None}]
Entry == [staker : Stakers, startRewardCycle : Nat, oneClaimPerRewardCycle : BOOLEAN, numClaims : Nat]
Settlement == [staker : Stakers, requestId : RequestIds]
Registration ==
    [bondIndex : BondIndexes \cup {None}, remainingClaims : Nat, oneClaimPerRewardCycle : BOOLEAN,
     nextClaimDistribution : Nat, prepaidUstx : Nat, sponsor : Principals]

ASSUME PrincipalsAssumption ==
    Stakers \subseteq Principals /\ SignerManagers \subseteq Principals /\ Deployer \in Principals
ASSUME NoneAssumption ==
    None \notin Key /\ None \notin WithdrawalKey /\ None \notin RequestIds
    /\ None \notin Position
ASSUME InputsAssumption ==
    /\ PoxEntries \subseteq [bond : Position \cup {None}, stake : Position \cup {None}]
    /\ Fees \subseteq Nat /\ InitialFee \in Fees
    /\ Senders \subseteq Principals /\ AdminChanges \subseteq Principals \X BOOLEAN
    /\ Entries \subseteq Entry /\ TopUps \subseteq Nat
    /\ RegisterBatches \subseteq Seq(Entry) /\ CancelBatches \subseteq Seq(Stakers)
    /\ ClaimBatches \subseteq Seq(Stakers) /\ SettleBatches \subseteq Seq(Settlement)
ASSUME BoundsAssumption ==
    /\ MaxClaimInstallments \in Nat /\ WithdrawalMinBurnAge \in Nat /\ PendingTicks \in Nat \ {0}
    /\ DistributionLength \in Nat \ {0} /\ InitialStx \in Nat
    /\ MaxBurnHeight \in Nat /\ MaxRemaining \in Nat

VARIABLES
    \* Data-vars and maps of the contract
    registrations, registrationLL, maxProcessed,
    pendingWithdrawals, withdrawalLL,
    feePerClaim, admins, signerManagerCallActive,
    \* The STX ledger: principals' balances, the contract's, and what was burned
    \* of each sponsor's escrow
    stx, escrow, burned,
    \* The transaction in progress
    tx,
    \* Bitcoin height, pox-5's last compute height and positions, sbtc-registry
    burnHeight, computeHeight, pox, sbtc,
    \* History: what each registration bought and claimed, and the withdrawals
    \* handed to a signer-manager for settlement
    history, settled

registrationVars == <<registrations, registrationLL, maxProcessed, history>>
withdrawalVars == <<pendingWithdrawals, withdrawalLL, settled>>
adminVars == <<feePerClaim, admins>>
ledgerVars == <<stx, escrow, burned>>
callVars == <<signerManagerCallActive, tx>>
externalVars == <<burnHeight, computeHeight, pox, sbtc>>
vars == <<registrations, registrationLL, maxProcessed, history,
          pendingWithdrawals, withdrawalLL, settled, feePerClaim, admins,
          stx, escrow, burned, signerManagerCallActive, tx,
          burnHeight, computeHeight, pox, sbtc>>

-----------------------------------------------------------------------------
(* Transactions *)

Idle == [phase |-> "idle"]
Registering(sender, sm, todo) ==
    [phase |-> "registers", sender |-> sender, signerManager |-> sm, todo |-> todo]
Cancelling(sender, sm, todo) ==
    [phase |-> "cancels", sender |-> sender, signerManager |-> sm, todo |-> todo]
\* current and computed are pox-5's answers, read once when the call starts.
Claiming(sm, todo, current, computed) ==
    [phase |-> "claims", signerManager |-> sm, todo |-> todo, current |-> current,
     computed |-> computed]
Settling(sm, todo) == [phase |-> "settles", signerManager |-> sm, todo |-> todo]
\* Inside claim-rewards ("pull") or claim-staker-rewards ("claim"); registration
\* is the copy read before the call and written back after it.
InClaimCall(t, phase, registration) ==
    [phase |-> phase, signerManager |-> t.signerManager, todo |-> t.todo, current |-> t.current,
     computed |-> t.computed, registration |-> registration]
\* Inside settle-accepted-withdrawal or reclaim-failed-withdrawal.
InSettleCall(t) == [phase |-> "settle", signerManager |-> t.signerManager, todo |-> t.todo]

Computed == Nat \cup {-1}
Transactions ==
    {Idle}
    \cup [phase : {"registers"}, sender : Principals, signerManager : SignerManagers,
          todo : Seq(Entry)]
    \cup [phase : {"cancels"}, sender : Principals, signerManager : SignerManagers,
          todo : Seq(Stakers)]
    \cup [phase : {"claims"}, signerManager : SignerManagers, todo : Seq(Stakers),
          current : Nat, computed : Computed]
    \cup [phase : {"pull", "claim"}, signerManager : SignerManagers,
          todo : Seq(Stakers) \ {<<>>}, current : Nat, computed : Computed,
          registration : Registration]
    \cup [phase : {"settles"}, signerManager : SignerManagers, todo : Seq(Settlement)]
    \cup [phase : {"settle"}, signerManager : SignerManagers,
          todo : Seq(Settlement) \ {<<>>}]

InFlight == tx.phase \in {"pull", "claim", "settle"}

\* A public function starts when no transaction runs, or from the signer-manager
\* that the running one has called.
Callable == tx.phase = "idle" \/ InFlight

-----------------------------------------------------------------------------
(* pox-5 and sbtc-registry, as the contract reads them *)

DistributionIndex(height) == height \div DistributionLength
CurrentDistribution == DistributionIndex(burnHeight)

\* -1 when calculate-rewards has never run.
LastRewardsComputeDistribution ==
    IF computeHeight = 0 THEN -1 ELSE DistributionIndex(computeHeight)

\* A live bond membership is preferred over an STX-only stake.
GetPosition(staker) ==
    IF pox[staker].bond # None THEN pox[staker].bond ELSE pox[staker].stake

StatusOf(requestId) == IF requestId \in DOMAIN sbtc THEN sbtc[requestId] ELSE "unknown"

\* Faulty: a resolved withdrawal is indexed again.
IsKnownWithdrawal(requestId) == requestId \in DOMAIN sbtc

IsTrackableWithdrawal(requestId) == StatusOf(requestId) = "pending"

IsResolved(requestId) == StatusOf(requestId) \in {"accepted", "rejected"}

WithdrawalReadyToList(requestId, storedHeight) ==
    burnHeight >= storedHeight + WithdrawalMinBurnAge /\ IsResolved(requestId)

-----------------------------------------------------------------------------
(* Authorisation *)

\* Faulty: calls are accepted while a signer-manager runs.
NoReentrancyCheck == TRUE

ValidateNoReentrancy == ~signerManagerCallActive

\* contract-caller and tx-sender are the same admin: a signer-manager that is
\* running is the caller of whatever it calls.
AuthorizeAdmin(caller) ==
    /\ caller \in admins
    /\ tx.phase = "idle" \/ (InFlight /\ caller = tx.signerManager)

SetFeePerClaim(caller, newFee) ==
    /\ AuthorizeAdmin(caller)
    /\ feePerClaim' = newFee
    /\ UNCHANGED <<registrationVars, withdrawalVars, admins, ledgerVars, callVars, externalVars>>

UpdateAdmin(caller, admin, enabled) ==
    /\ AuthorizeAdmin(caller)
    /\ admins' = IF enabled THEN admins \cup {admin} ELSE admins \ {admin}
    /\ UNCHANGED <<registrationVars, withdrawalVars, feePerClaim, ledgerVars, callVars,
                   externalVars>>

-----------------------------------------------------------------------------
(* register-for-claims, add-claims and cancel-registration *)

EscrowAmount(sender, numClaims) == IF sender \in admins THEN 0 ELSE numClaims * feePerClaim

\* Faulty: the transfer's error is ignored.
AlwaysEscrows(sender, numClaims) == TRUE

\* stx-transfer? fails when the sender cannot pay.
CanEscrow(sender, numClaims) == stx[sender] >= EscrowAmount(sender, numClaims)

EscrowRegistrationFee(sender, numClaims) ==
    /\ stx' = [stx EXCEPT ![sender] = @ - EscrowAmount(sender, numClaims)]
    /\ escrow' = escrow + EscrowAmount(sender, numClaims)
    /\ burned' = burned

AcceptsRegistration(sender, sm, entry) ==
    LET position == GetPosition(entry.staker)
    IN  /\ position # None
        /\ entry.numClaims > 0
        /\ entry.numClaims <= MaxClaimInstallments
        /\ KeyOf(entry.staker, sm) \notin DOMAIN registrations
        /\ sm = position.signer
        /\ entry.startRewardCycle >= position.firstRewardCycle
        /\ CanEscrow(sender, entry.numClaims)

RegisterForClaimsImpl(sender, sm, entry) ==
    LET key == KeyOf(entry.staker, sm)
    IN  /\ registrations' = MapSet(registrations, key,
               [bondIndex |-> GetPosition(entry.staker).bondIndex,
                remainingClaims |-> entry.numClaims,
                oneClaimPerRewardCycle |-> entry.oneClaimPerRewardCycle,
                nextClaimDistribution |->
                    InitialNextClaimDistribution(entry.startRewardCycle,
                                                 entry.oneClaimPerRewardCycle),
                prepaidUstx |-> EscrowAmount(sender, entry.numClaims),
                sponsor |-> sender])
        /\ registrationLL' = ListAppend(registrationLL, key)
        /\ EscrowRegistrationFee(sender, entry.numClaims)
        /\ maxProcessed' = maxProcessed
        /\ history' = MapSet(history, key,
               [bought |-> entry.numClaims, served |-> {},
                oneClaimPerRewardCycle |-> entry.oneClaimPerRewardCycle])

RegisterForClaims(sender, sm, entry) ==
    /\ Callable
    /\ ValidateNoReentrancy
    /\ AcceptsRegistration(sender, sm, entry)
    /\ RegisterForClaimsImpl(sender, sm, entry)
    /\ UNCHANGED <<withdrawalVars, adminVars, callVars, externalVars>>

ToppedUp(registration, numClaims, paid) ==
    [registration EXCEPT !.remainingClaims = @ + numClaims, !.prepaidUstx = @ + paid]

AddClaims(sender, key, numClaims) ==
    /\ Callable
    /\ ValidateNoReentrancy
    /\ numClaims > 0
    /\ numClaims <= MaxClaimInstallments
    /\ key \in DOMAIN registrations
    /\ sender = registrations[key].sponsor
    /\ CanEscrow(sender, numClaims)
    /\ registrations[key].remainingClaims + numClaims <= MaxRemaining
    /\ registrations' = MapSet(registrations, key,
           ToppedUp(registrations[key], numClaims, EscrowAmount(sender, numClaims)))
    /\ EscrowRegistrationFee(sender, numClaims)
    /\ history' = [history EXCEPT ![key].bought = @ + numClaims]
    /\ UNCHANGED <<registrationLL, maxProcessed, withdrawalVars, adminVars, callVars, externalVars>>

\* The principal that gets the unspent escrow back.
\* Faulty: it goes to whoever cancels.
RefundToSender(sender, registration) == sender

RefundTo(sender, registration) == registration.sponsor

MayCancel(sender, key) ==
    /\ key \in DOMAIN registrations
    /\ sender = key.staker \/ sender = registrations[key].sponsor

\* The map entry and the list node go before the refund; an item of a batch
\* whose refund failed would keep that.  The refund never fails: see
\* EscrowBacksPrepaid.
CancelRegistrationImpl(sender, key) ==
    LET refund == registrations[key].prepaidUstx
        to == RefundTo(sender, registrations[key])
    IN  /\ registrations' = MapDelete(registrations, key)
        /\ registrationLL' = ListRemove(registrationLL, key)
        /\ IF refund <= escrow
           THEN /\ escrow' = escrow - refund
                /\ stx' = [stx EXCEPT ![to] = @ + refund]
           ELSE UNCHANGED <<escrow, stx>>
        /\ UNCHANGED <<burned, maxProcessed, history>>

CancelRegistration(sender, key) ==
    /\ Callable
    /\ ValidateNoReentrancy
    /\ MayCancel(sender, key)
    /\ CancelRegistrationImpl(sender, key)
    /\ UNCHANGED <<withdrawalVars, adminVars, callVars, externalVars>>

-----------------------------------------------------------------------------
(* Batches.  An item that fails is skipped.  tx holds one transaction: a    *)
(* batch that a signer-manager starts is refused by ValidateNoReentrancy.  *)

DropItem(t) == [t EXCEPT !.todo = Tail(@)]

RegisterManyForClaims(sender, sm, entries) ==
    /\ Callable
    /\ ValidateNoReentrancy
    /\ tx' = Registering(sender, sm, entries)
    /\ UNCHANGED <<registrationVars, withdrawalVars, adminVars, ledgerVars,
                   signerManagerCallActive, externalVars>>

CountRegistrations ==
    /\ tx.phase = "registers"
    /\ tx.todo # <<>>
    /\ IF AcceptsRegistration(tx.sender, tx.signerManager, Head(tx.todo))
       THEN RegisterForClaimsImpl(tx.sender, tx.signerManager, Head(tx.todo))
       ELSE UNCHANGED <<registrationVars, ledgerVars>>
    /\ tx' = DropItem(tx)
    /\ UNCHANGED <<withdrawalVars, adminVars, signerManagerCallActive, externalVars>>

CancelManyRegistrations(sender, sm, stakers) ==
    /\ Callable
    /\ ValidateNoReentrancy
    /\ tx' = Cancelling(sender, sm, stakers)
    /\ UNCHANGED <<registrationVars, withdrawalVars, adminVars, ledgerVars,
                   signerManagerCallActive, externalVars>>

CountCancellations ==
    /\ tx.phase = "cancels"
    /\ tx.todo # <<>>
    /\ LET key == KeyOf(Head(tx.todo), tx.signerManager)
       IN  IF MayCancel(tx.sender, key)
           THEN CancelRegistrationImpl(tx.sender, key)
           ELSE UNCHANGED <<registrationVars, ledgerVars>>
    /\ tx' = DropItem(tx)
    /\ UNCHANGED <<withdrawalVars, adminVars, signerManagerCallActive, externalVars>>

BatchDone ==
    /\ tx.phase \in {"registers", "cancels", "claims", "settles"}
    /\ tx.todo = <<>>
    /\ tx' = Idle
    /\ UNCHANGED <<registrationVars, withdrawalVars, adminVars, ledgerVars,
                   signerManagerCallActive, externalVars>>

-----------------------------------------------------------------------------
(* process-reward-claim(s) *)

\* Faulty: the latest claim's distribution replaces the maximum.
RaiseToLatest(existing, distribution) == distribution

RaiseTo(existing, distribution) == IF distribution > existing THEN distribution ELSE existing

RecordMaxProcessedDistribution(staker, distribution) ==
    maxProcessed' =
        MapSet(maxProcessed, staker,
               IF staker \in DOMAIN maxProcessed
               THEN RaiseTo(maxProcessed[staker], distribution)
               ELSE distribution)

\* Faulty: the fee of an installment is burned without being deducted.
AdvancedWithoutDebit(registration, current) ==
    [registration EXCEPT
        !.remainingClaims = @ - 1,
        !.nextClaimDistribution =
            NextClaimAfter(@, registration.oneClaimPerRewardCycle, current)]

Advanced(registration, current) ==
    [registration EXCEPT
        !.remainingClaims = @ - 1,
        !.prepaidUstx = @ - BurnAmount(registration.prepaidUstx, registration.remainingClaims),
        !.nextClaimDistribution =
            NextClaimAfter(@, registration.oneClaimPerRewardCycle, current)]

\* Burn one installment, then drop the registration or write the advanced copy.
\* stx-burn? fails when the contract holds less: the maximum stays recorded and
\* the item is skipped.
AdvanceRegistration(key, registration, current) ==
    LET burn == BurnAmount(registration.prepaidUstx, registration.remainingClaims)
    IN  /\ RecordMaxProcessedDistribution(key.staker, registration.nextClaimDistribution)
        /\ IF burn > escrow
           THEN UNCHANGED <<registrations, registrationLL, history, escrow, burned>>
           ELSE /\ escrow' = escrow - burn
                /\ burned' = [burned EXCEPT ![registration.sponsor] = @ + burn]
                /\ history' = [history EXCEPT ![key].served =
                                  @ \cup {registration.nextClaimDistribution}]
                /\ IF registration.remainingClaims <= 1
                   THEN /\ registrations' = MapDelete(registrations, key)
                        /\ registrationLL' = ListRemove(registrationLL, key)
                   ELSE /\ registrations' = MapSet(registrations, key,
                                                   Advanced(registration, current))
                        /\ registrationLL' = registrationLL
        /\ stx' = stx

\* pox-5 is asked once, however many stakers the batch holds.
ProcessRewardClaims(sm, stakers) ==
    /\ Callable
    /\ ValidateNoReentrancy
    /\ tx' = Claiming(sm, stakers, CurrentDistribution, LastRewardsComputeDistribution)
    /\ UNCHANGED <<registrationVars, withdrawalVars, adminVars, ledgerVars,
                   signerManagerCallActive, externalVars>>

\* The key of the item a batch is at.
ClaimKey(t) == KeyOf(Head(t.todo), t.signerManager)

\* The batch without its first item, outside any call.
NextClaim(t) == Claiming(t.signerManager, Tail(t.todo), t.current, t.computed)

SkipClaim ==
    /\ tx.phase = "claims"
    /\ tx.todo # <<>>
    /\ ClaimKey(tx) \in DOMAIN registrations =>
          ~IsDue(registrations[ClaimKey(tx)].nextClaimDistribution, tx.current, tx.computed)
    /\ tx' = DropItem(tx)
    /\ UNCHANGED <<registrationVars, withdrawalVars, adminVars, ledgerVars,
                   signerManagerCallActive, externalVars>>

\* needsPull: pox-5's get-earned is positive for the signer-manager, the reward
\* cycle and the bond index.
CountClaim(needsPull) ==
    /\ tx.phase = "claims"
    /\ tx.todo # <<>>
    /\ ClaimKey(tx) \in DOMAIN registrations
    /\ IsDue(registrations[ClaimKey(tx)].nextClaimDistribution, tx.current, tx.computed)
    /\ signerManagerCallActive' = TRUE
    /\ tx' = InClaimCall(tx, IF needsPull THEN "pull" ELSE "claim", registrations[ClaimKey(tx)])
    /\ UNCHANGED <<registrationVars, withdrawalVars, adminVars, ledgerVars, externalVars>>

\* claim-rewards returns ok: claim-staker-rewards is called at once, and the
\* guard is cleared and set again with no code in between.
PullSucceeds ==
    /\ tx.phase = "pull"
    /\ tx' = [tx EXCEPT !.phase = "claim"]
    /\ UNCHANGED <<registrationVars, withdrawalVars, adminVars, ledgerVars,
                   signerManagerCallActive, externalVars>>

\* The guard after the signer-manager returned.
\* Faulty: it is cleared by a successful return only.
ClearedOnSuccess(succeeded) == ~succeeded

GuardAfterReturn(succeeded) == FALSE

\* Faulty: a failed pull leaves the registration where it is.
PullFailsStalls ==
    /\ tx.phase = "pull"
    /\ signerManagerCallActive' = GuardAfterReturn(FALSE)
    /\ tx' = NextClaim(tx)
    /\ UNCHANGED <<registrationVars, ledgerVars, withdrawalVars, adminVars, externalVars>>

PullFails ==
    /\ tx.phase = "pull"
    /\ AdvanceRegistration(ClaimKey(tx), tx.registration, tx.current)
    /\ signerManagerCallActive' = GuardAfterReturn(FALSE)
    /\ tx' = NextClaim(tx)
    /\ UNCHANGED <<withdrawalVars, adminVars, externalVars>>

\* Faulty: a request that is already indexed is appended again.
AppendsIndexed(key, requestId) ==
    LET fullKey == WithdrawalKeyOf(key, requestId)
    IN  /\ IF IsTrackableWithdrawal(requestId)
           THEN /\ pendingWithdrawals' = MapSet(pendingWithdrawals, fullKey, burnHeight)
                /\ withdrawalLL' = ListAppend(withdrawalLL, fullKey)
           ELSE UNCHANGED <<pendingWithdrawals, withdrawalLL>>
        /\ settled' = settled

AppendPendingWithdrawal(key, requestId) ==
    LET fullKey == WithdrawalKeyOf(key, requestId)
    IN  /\ IF IsTrackableWithdrawal(requestId) /\ fullKey \notin DOMAIN pendingWithdrawals
           THEN /\ pendingWithdrawals' = MapSet(pendingWithdrawals, fullKey, burnHeight)
                /\ withdrawalLL' = ListAppend(withdrawalLL, fullKey)
           ELSE UNCHANGED <<pendingWithdrawals, withdrawalLL>>
        /\ settled' = settled

\* claim-staker-rewards returns: with a withdrawal request of any id, or with
\* None for a direct payout and for an error.  The registration advances.
ClaimReturns(withdrawalRequest) ==
    /\ tx.phase = "claim"
    /\ IF withdrawalRequest # None
       THEN AppendPendingWithdrawal(ClaimKey(tx), withdrawalRequest)
       ELSE UNCHANGED withdrawalVars
    /\ AdvanceRegistration(ClaimKey(tx), tx.registration, tx.current)
    /\ signerManagerCallActive' = GuardAfterReturn(TRUE)
    /\ tx' = NextClaim(tx)
    /\ UNCHANGED <<adminVars, externalVars>>

-----------------------------------------------------------------------------
(* settle-pending-withdrawal(s) *)

SettlePendingWithdrawals(sm, items) ==
    /\ Callable
    /\ ValidateNoReentrancy
    /\ tx' = Settling(sm, items)
    /\ UNCHANGED <<registrationVars, withdrawalVars, adminVars, ledgerVars,
                   signerManagerCallActive, externalVars>>

SettleKey(t) ==
    WithdrawalKeyOf(KeyOf(Head(t.todo).staker, t.signerManager), Head(t.todo).requestId)

RemovePendingWithdrawal(key) ==
    /\ pendingWithdrawals' = MapDelete(pendingWithdrawals, key)
    /\ withdrawalLL' = ListRemove(withdrawalLL, key)

\* Not indexed or not decided by sBTC: nothing happens.  Unknown to sBTC: the id
\* is pruned.
CountSettlement ==
    /\ tx.phase = "settles"
    /\ tx.todo # <<>>
    /\ SettleKey(tx) \in DOMAIN pendingWithdrawals => ~IsResolved(SettleKey(tx).requestId)
    /\ IF SettleKey(tx) \in DOMAIN pendingWithdrawals /\ StatusOf(SettleKey(tx).requestId) = "unknown"
       THEN RemovePendingWithdrawal(SettleKey(tx)) /\ settled' = settled
       ELSE UNCHANGED withdrawalVars
    /\ tx' = DropItem(tx)
    /\ UNCHANGED <<registrationVars, adminVars, ledgerVars, signerManagerCallActive, externalVars>>

\* Accepted or rejected: the signer-manager settles or reclaims.
CallSettle ==
    /\ tx.phase = "settles"
    /\ tx.todo # <<>>
    /\ SettleKey(tx) \in DOMAIN pendingWithdrawals
    /\ IsResolved(SettleKey(tx).requestId)
    /\ signerManagerCallActive' = TRUE
    /\ tx' = InSettleCall(tx)
    /\ settled' = settled \cup {SettleKey(tx)}
    /\ UNCHANGED <<registrationVars, pendingWithdrawals, withdrawalLL, adminVars, ledgerVars,
                   externalVars>>

\* Whatever the signer-manager answers, the withdrawal leaves the index.
SettleReturns(succeeded) ==
    /\ tx.phase = "settle"
    /\ RemovePendingWithdrawal(SettleKey(tx))
    /\ settled' = settled
    /\ signerManagerCallActive' = GuardAfterReturn(succeeded)
    /\ tx' = Settling(tx.signerManager, Tail(tx.todo))
    /\ UNCHANGED <<registrationVars, adminVars, ledgerVars, externalVars>>

-----------------------------------------------------------------------------
(* The chain and the contracts around the registry: external code.  What a *)
(* signer-manager does in pox-5 or sBTC before it returns an error is kept: *)
(* another transaction could have done it just before this one.            *)

BurnBlock ==
    /\ tx.phase = "idle"
    /\ burnHeight < MaxBurnHeight
    /\ burnHeight' = burnHeight + 1
    /\ UNCHANGED <<registrationVars, withdrawalVars, adminVars, ledgerVars, callVars,
                   computeHeight, pox, sbtc>>

\* pox-5 calculate-rewards: anyone may run it, a signer-manager too.
CalculateRewards(height) ==
    /\ Callable
    /\ height \in computeHeight + 1 .. burnHeight
    /\ computeHeight' = height
    /\ UNCHANGED <<registrationVars, withdrawalVars, adminVars, ledgerVars, callVars,
                   burnHeight, pox, sbtc>>

\* A staker opens, moves or closes its positions.
ChangePosition(staker, entry) ==
    /\ tx.phase = "idle"
    /\ pox' = [pox EXCEPT ![staker] = entry]
    /\ UNCHANGED <<registrationVars, withdrawalVars, adminVars, ledgerVars, callVars,
                   burnHeight, computeHeight, sbtc>>

\* sBTC numbers its requests; a claim may start one while it runs.
InitiateWithdrawal(requestId) ==
    /\ Callable
    /\ requestId \notin DOMAIN sbtc
    /\ sbtc' = MapSet(sbtc, requestId, "pending")
    /\ UNCHANGED <<registrationVars, withdrawalVars, adminVars, ledgerVars, callVars,
                   burnHeight, computeHeight, pox>>

ResolveWithdrawal(requestId, status) ==
    /\ tx.phase = "idle"
    /\ StatusOf(requestId) = "pending"
    /\ sbtc' = [sbtc EXCEPT ![requestId] = status]
    /\ UNCHANGED <<registrationVars, withdrawalVars, adminVars, ledgerVars, callVars,
                   burnHeight, computeHeight, pox>>

-----------------------------------------------------------------------------
(* The read-only, paginated functions *)

IsPending(registration) ==
    IsDue(registration.nextClaimDistribution, CurrentDistribution, LastRewardsComputeDistribution)

DueKeys == {key \in DOMAIN registrations : IsPending(registrations[key])}

GetPendingClaims(cursor) == Page(registrationLL, DueKeys, cursor, PendingTicks)

GetRegistrations(cursor) == Page(registrationLL, DOMAIN registrations, cursor, PendingTicks)

ReadyKeys ==
    {key \in DOMAIN pendingWithdrawals :
        WithdrawalReadyToList(key.requestId, pendingWithdrawals[key])}

GetPendingWithdrawals(cursor) == Page(withdrawalLL, ReadyKeys, cursor, PendingTicks)

GetWithdrawals(cursor) == Page(withdrawalLL, DOMAIN pendingWithdrawals, cursor, PendingTicks)

\* The caller passes `next' on until it is none, and keeps the rows.
NextPage(GetPage(_), read) ==
    IF read.next = None
    THEN read
    ELSE LET page == GetPage(read.next) IN [rows |-> read.rows \o page.rows, next |-> page.next]

\* The rows of at most n + 1 pages.
Paginate(GetPage(_), n) ==
    LET read[i \in 0 .. n] == IF i = 0 THEN GetPage(None) ELSE NextPage(GetPage, read[i - 1])
    IN  read[n].rows

-----------------------------------------------------------------------------
Init ==
    /\ registrations = EmptyMap /\ registrationLL = EmptyList
    /\ maxProcessed = EmptyMap /\ history = EmptyMap
    /\ pendingWithdrawals = EmptyMap /\ withdrawalLL = EmptyList /\ settled = {}
    /\ feePerClaim = InitialFee /\ admins = {Deployer}
    /\ stx = [p \in Principals |-> InitialStx] /\ escrow = 0
    /\ burned = [p \in Principals |-> 0]
    /\ signerManagerCallActive = FALSE /\ tx = Idle
    /\ burnHeight = 0 /\ computeHeight = 0
    /\ pox \in [Stakers -> PoxEntries] /\ sbtc = EmptyMap

\* The public functions.
Call ==
    \/ \E p \in Senders, fee \in Fees : SetFeePerClaim(p, fee)
    \/ \E p \in Senders, change \in AdminChanges : UpdateAdmin(p, change[1], change[2])
    \/ \E p \in Senders, sm \in SignerManagers, entry \in Entries : RegisterForClaims(p, sm, entry)
    \/ \E p \in Senders, key \in Key, n \in TopUps : AddClaims(p, key, n)
    \/ \E p \in Senders, key \in Key : CancelRegistration(p, key)
    \/ \E p \in Senders, sm \in SignerManagers, entries \in RegisterBatches :
          RegisterManyForClaims(p, sm, entries)
    \/ \E p \in Senders, sm \in SignerManagers, stakers \in CancelBatches :
          CancelManyRegistrations(p, sm, stakers)
    \/ \E sm \in SignerManagers, stakers \in ClaimBatches : ProcessRewardClaims(sm, stakers)
    \/ \E sm \in SignerManagers, items \in SettleBatches : SettlePendingWithdrawals(sm, items)

\* The steps of the transaction in progress.
Step ==
    \/ CountRegistrations
    \/ CountCancellations
    \/ BatchDone
    \/ SkipClaim
    \/ \E needsPull \in BOOLEAN : CountClaim(needsPull)
    \/ PullSucceeds
    \/ PullFails
    \/ \E request \in RequestIds \cup {None} : ClaimReturns(request)
    \/ CountSettlement
    \/ CallSettle
    \/ \E succeeded \in BOOLEAN : SettleReturns(succeeded)

External ==
    \/ BurnBlock
    \/ \E height \in 1 .. MaxBurnHeight : CalculateRewards(height)
    \/ \E staker \in Stakers, entry \in PoxEntries : ChangePosition(staker, entry)
    \/ \E id \in RequestIds : InitiateWithdrawal(id)
    \/ \E id \in RequestIds, status \in {"accepted", "rejected"} : ResolveWithdrawal(id, status)

Next == Call \/ Step \/ External

Spec == Init /\ [][Next]_vars

\* A transaction runs to its end within its block, and a signer-manager returns.
FairSpec == Spec /\ WF_vars(Step)

-----------------------------------------------------------------------------
(* Properties *)

RegistrationTypes ==
    /\ IsMap(registrations, Key, Registration)
    /\ IsList(registrationLL, Key)
    /\ IsMap(maxProcessed, Stakers, Nat)
    /\ IsMap(history, Key, [bought : Nat, served : SUBSET Nat, oneClaimPerRewardCycle : BOOLEAN])
WithdrawalTypes ==
    /\ IsMap(pendingWithdrawals, WithdrawalKey, Nat)
    /\ IsList(withdrawalLL, WithdrawalKey)
    /\ settled \subseteq WithdrawalKey
AdminTypes == feePerClaim \in Fees /\ admins \subseteq Principals
LedgerTypes ==
    stx \in [Principals -> Nat] /\ escrow \in Nat /\ burned \in [Principals -> Nat]
CallTypes == signerManagerCallActive \in BOOLEAN /\ tx \in Transactions
ExternalTypes ==
    /\ burnHeight \in Nat /\ computeHeight \in Nat
    /\ pox \in [Stakers -> PoxEntries]
    /\ IsMap(sbtc, RequestIds, {"pending", "accepted", "rejected"})

\* Every data-var, map, ledger entry and transaction frame has its type.
TypeOK ==
    /\ RegistrationTypes
    /\ WithdrawalTypes
    /\ AdminTypes
    /\ LedgerTypes
    /\ CallTypes
    /\ ExternalTypes

\* The registration list (ll-append, ll-remove) is a well-formed doubly-linked
\* list and holds exactly the registered keys, each once.
RegistrationListSound ==
    /\ WellFormed(registrationLL)
    /\ DOMAIN registrationLL.links = DOMAIN registrations

\* The same of the withdrawal list and the pending-withdrawals map.
WithdrawalListSound ==
    /\ WellFormed(withdrawalLL)
    /\ DOMAIN withdrawalLL.links = DOMAIN pendingWithdrawals

\* The reentrancy guard is set exactly while a signer-manager runs: a path that
\* forgot to clear it would close the registry for good.
GuardMatchesCall == signerManagerCallActive <=> InFlight

\* The registration copied before a signer-manager call is still the stored one
\* when the call returns and the copy is written back.
NoStaleAdvance ==
    tx.phase \in {"pull", "claim"} =>
        /\ ClaimKey(tx) \in DOMAIN registrations
        /\ registrations[ClaimKey(tx)] = tx.registration

\* prepaid-ustx of each registration.
Prepaid == [key \in DOMAIN registrations |-> registrations[key].prepaidUstx]

\* The contract's STX balance is the sum of prepaid-ustx, so no burn and no
\* refund ever fails half-way.
EscrowBacksPrepaid == escrow = SumOver(Prepaid, DOMAIN registrations)

\* Every sponsor's STX is in its wallet, in the escrow of its registrations, or
\* burned for a claim of one of its registrations: never another's.
SponsorsMadeWhole ==
    \A p \in Principals :
        stx[p] + burned[p]
            + SumOver(Prepaid, {key \in DOMAIN registrations : registrations[key].sponsor = p})
        = InitialStx

\* Every installment bought is still due or was used for one claim.
InstallmentsConserved ==
    \A key \in DOMAIN registrations :
        /\ key \in DOMAIN history
        /\ registrations[key].remainingClaims > 0
        /\ history[key].bought =
               registrations[key].remainingClaims + Cardinality(history[key].served)

\* A claim ran only for a distribution cycle that had elapsed and that
\* calculate-rewards had covered.  A registration moves past what it claimed,
\* and with one-claim-per-reward-cycle it claims each reward cycle once, in its
\* second half.
CadenceRespected ==
    \A key \in DOMAIN history :
        /\ \A d \in history[key].served :
              d < CurrentDistribution /\ d <= LastRewardsComputeDistribution
        /\ key \in DOMAIN registrations =>
              \A d \in history[key].served : d < registrations[key].nextClaimDistribution
        /\ history[key].oneClaimPerRewardCycle =>
              \A d, e \in history[key].served :
                 d % 2 = 1 /\ (RewardCycle(d) = RewardCycle(e) => d = e)

\* From its first claim on a registration skips no reward cycle, however late its
\* claims come: next-claim-after leaves out only the first halves, with
\* one-claim-per-reward-cycle, and else a second half that has elapsed and whose
\* first half was claimed.
NoRewardCycleSkipped ==
    \A key \in DOMAIN registrations :
        LET served == history[key].served
            oneClaim == registrations[key].oneClaimPerRewardCycle
        IN  \A d \in served : \A e \in d .. registrations[key].nextClaimDistribution - 1 :
               \/ e \in served
               \/ oneClaim /\ e % 2 = 0
               \/ ~oneClaim /\ e % 2 = 1 /\ e - 1 \in served /\ Elapsed(e, CurrentDistribution)

\* max-processed-distribution bounds every claim of the staker, whichever
\* signer-manager made it and in whatever order.
MaxProcessedBoundsServed ==
    \A key \in DOMAIN history : \A d \in history[key].served :
        key.staker \in DOMAIN maxProcessed /\ d <= maxProcessed[key.staker]

\* A withdrawal handed to its signer-manager, after sBTC has decided it, leaves
\* the index with that call and never comes back, so it is settled once.
SettledOnce ==
    \A key \in settled :
        /\ StatusOf(key.requestId) \in {"accepted", "rejected"}
        /\ key \in DOMAIN pendingWithdrawals => tx.phase = "settle" /\ SettleKey(tx) = key

\* A claim never takes more than its share of the escrow: what is left per
\* remaining installment does not drop.
ClaimsNeverOvercharge ==
    [][\A key \in DOMAIN registrations \cap DOMAIN registrations' :
          LET old == registrations[key]
              new == registrations'[key]
          IN  new.remainingClaims = old.remainingClaims - 1 =>
                 new.prepaidUstx * old.remainingClaims >= old.prepaidUstx * new.remainingClaims]_vars

\* get-pending-claims, page after page, lists every due registration once and
\* nothing else.
PendingClaimsListed ==
    LET rows == Paginate(GetPendingClaims, Cardinality(DOMAIN registrations))
    IN  {rows[i] : i \in 1 .. Len(rows)} = DueKeys /\ Len(rows) = Cardinality(DueKeys)

\* get-pending-withdrawals, page after page, lists every withdrawal that is old
\* enough and decided once and nothing else.
ReadyWithdrawalsListed ==
    LET rows == Paginate(GetPendingWithdrawals, Cardinality(DOMAIN pendingWithdrawals))
    IN  {rows[i] : i \in 1 .. Len(rows)} = ReadyKeys /\ Len(rows) = Cardinality(ReadyKeys)

\* Always advance: a claim whose signer-manager was called moves its
\* registration on, whatever the signer-manager answers.
ClaimCallsAdvance ==
    \A key \in Key, d \in 0 .. DistributionIndex(MaxBurnHeight) :
        (tx.phase \in {"pull", "claim"} /\ ClaimKey(tx) = key
            /\ tx.registration.nextClaimDistribution = d)
        ~> (key \in DOMAIN registrations => registrations[key].nextClaimDistribution > d)

\* The linked list behaves as a queue of the registered keys.
RegistrationQueue ==
    INSTANCE KeyQueue WITH Keys <- Key, members <- DOMAIN registrations,
                           queue <- WholeWalk(registrationLL)
ListIsQueue == RegistrationQueue!Spec
=============================================================================
