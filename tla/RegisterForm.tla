----------------------------- MODULE RegisterForm -----------------------------
(***************************************************************************)
(* The claims page of the web application: register-form.tsx with the      *)
(* configuration of claims-config-provider.tsx and the reads of            *)
(* claims-api.ts.  A handler runs to its next await without interruption.  *)
(* What follows the await is an action of its own, `...Answered` or        *)
(* `...Fails`: it uses the values its closure captured (a call's fields)   *)
(* on a form that the user, the wallet and other answers may have changed. *)
(*                                                                         *)
(* Left out: notes and errors shown, the amount typed as escrow (it stands *)
(* for the number of claims it buys), the contents of a registration.      *)
(***************************************************************************)
EXTENDS Naturals

CONSTANTS
    None,             \* null, or an empty input
    \* A new configuration is another object even when nothing in it changes
    Configs, DefaultConfig,
    Stakers, Managers,
    Contracts,        \* the managers that are contract principals
    Accounts,         \* the stakers whose wallet the user has
    TypedCycles, TypedCounts,
    MaxClaimInstallments,
    \* What the chain of a configuration answers
    Fee, Trait, Bond, Stake,
    CallIds           \* bound of the model: calls in flight

Blocking == {"not-found", "not-implemented"}

ASSUME FormAssumption ==
    /\ DefaultConfig \in Configs
    \* A configuration is these three; any of them can be set alone
    /\ \A c \in Configs :
          c = [network |-> c.network, apiUrl |-> c.apiUrl, claimsContract |-> c.claimsContract]
    /\ Contracts \subseteq Managers /\ Accounts \subseteq Stakers
    /\ None \notin Configs \cup Stakers \cup Managers /\ None \notin Blocking \cup {"supported"}
    /\ TypedCycles \subseteq {"integer", "malformed"} /\ TypedCounts \subseteq Nat
    /\ MaxClaimInstallments \in Nat \ {0} /\ None \notin Nat
    /\ Fee \in [Configs -> Nat]
    /\ Trait \in [Configs -> [Managers -> {"supported"} \cup Blocking]]
    \* The signer of a bond membership, and that of a stake
    /\ Bond \in [Configs -> [Stakers -> Contracts \cup {None}]]
    /\ Stake \in [Configs -> [Stakers -> Contracts \cup {None}]]

Deployed == {c \in Configs : c.claimsContract # None}

VARIABLES
    config,
    account,          \* the connected wallet's stxAddress
    staker, signerManager, startCycle, claimCount,
    cadenceChosen,    \* oneClaimPerCycle is not null
    feePerClaim, feeScope,
    feeLoad,          \* configuration the fee load in flight was started for
    traitCheck, traitCheckScope, checkingTrait,
    registration,     \* what the registration shown was read for
    confirmingCancel,
    loadingDefaults, loadingRegistration, submitting,
    calls             \* the other calls in flight

inputVars == <<signerManager, startCycle, claimCount, cadenceChosen>>
feeVars == <<feePerClaim, feeScope, feeLoad>>
traitVars == <<traitCheck, traitCheckScope, checkingTrait>>
registrationVars == <<registration, confirmingCancel>>
flagVars == <<loadingDefaults, loadingRegistration, submitting>>
vars == <<config, account, staker, inputVars, feeVars, traitVars, registrationVars,
          flagVars, calls>>

\* One call: what it asks, what follows its answer, and the values its closure
\* holds.  `joined`: it also waits for the fee load in flight.
Idle == [kind |-> "idle", next |-> "nothing", config |-> DefaultConfig, account |-> None,
         staker |-> None, signerManager |-> None, startCycle |-> None,
         numClaims |-> None, feePerClaim |-> None, joined |-> FALSE]

Free(id) == calls[id] = Idle
Calling(id, call) == calls' = [calls EXCEPT ![id] = call]
Finished(id) == Calling(id, Idle)

-----------------------------------------------------------------------------
(* claims-api.ts: what an answer says *)

FetchFeePerClaim(c) == Fee[c]

FetchTraitCheck(c, manager) == Trait[c][manager]

\* A bond membership comes before a stake.
FetchPosition(c, s) == IF Bond[c][s] # None THEN Bond[c][s] ELSE Stake[c][s]

\* The registration found is known by what was asked for.
FetchRegistration(call) == <<call.staker, call.signerManager>>

-----------------------------------------------------------------------------
(* What a rendering derives from the state *)

\* Faulty: a check of this manager counts on every network.
KeyWithoutNetwork(c, manager) == <<manager>>

\* The API that answered is no part of it, although it is part of the fee's scope.
TraitCheckScopeKey(c, manager) == <<c.network, c.claimsContract, manager>>

TraitCheckIsCurrent == traitCheckScope = TraitCheckScopeKey(config, signerManager)

SignerManagerVerified ==
    ~checkingTrait /\ TraitCheckIsCurrent /\ traitCheck = "supported" /\ signerManager # None

NumClaims ==
    IF claimCount \in {None, 0} THEN None
    ELSE IF claimCount > MaxClaimInstallments THEN MaxClaimInstallments ELSE claimCount

\* The values that the handlers of this rendering hold, less those a handler
\* does not use.
Rendered ==
    [kind |-> "idle", next |-> "nothing", config |-> config, account |-> account,
     staker |-> staker, signerManager |-> signerManager, startCycle |-> startCycle,
     numClaims |-> NumClaims, feePerClaim |-> feePerClaim, joined |-> FALSE]

-----------------------------------------------------------------------------
(* The fee per claim: one load at a time, whose promise later callers share *)

\* feeLoadRef is not cleared with the rest: the load in flight is joined even
\* when it was started for another configuration.
FeeEffect(c) ==
    /\ feePerClaim' = None /\ feeScope' = None
    /\ feeLoad' = IF c \in Deployed /\ feeLoad = None THEN c ELSE feeLoad

FeeIsCached == feePerClaim # None /\ feeScope = config

\* loadFeePerClaim() of loadDefaults.
LoadFeePerClaim ==
    IF config \notin Deployed
    THEN feePerClaim' = None /\ feeScope' = None /\ UNCHANGED feeLoad
    ELSE /\ feeLoad' = IF FeeIsCached \/ feeLoad # None THEN feeLoad ELSE config
         /\ UNCHANGED <<feePerClaim, feeScope>>

WaitsForFee == config \in Deployed /\ ~FeeIsCached

RetryFee ==
    /\ config \in Deployed /\ feePerClaim = None /\ feeLoad = None
    /\ feeLoad' = config
    /\ UNCHANGED <<config, account, staker, inputVars, feePerClaim, feeScope, traitVars,
                   registrationVars, flagVars, calls>>

\* Faulty: the answer counts for the configuration of the day it arrives.
ScopeOnArrival == config

ScopeOfFeeLoad == feeLoad

FeeLoaded ==
    /\ feeLoad' = None
    /\ calls' = [id \in CallIds |-> [calls[id] EXCEPT !.joined = FALSE]]
    /\ UNCHANGED <<config, account, staker, inputVars, traitVars, registrationVars, flagVars>>

FeeAnswered ==
    /\ feeLoad # None
    /\ feePerClaim' = FetchFeePerClaim(feeLoad) /\ feeScope' = ScopeOfFeeLoad
    /\ FeeLoaded

FeeFails ==
    /\ feeLoad # None
    /\ feePerClaim' = None /\ feeScope' = None
    /\ FeeLoaded

-----------------------------------------------------------------------------
(* Configuration, wallet and inputs *)

ClearForStakerChange ==
    /\ signerManager' = None /\ startCycle' = None /\ claimCount' = None
    /\ cadenceChosen' = FALSE
    /\ traitCheck' = None /\ traitCheckScope' = None /\ checkingTrait' = FALSE
    /\ registration' = None /\ confirmingCancel' = FALSE

\* The developer settings, also when the provider reads them after mounting.
ChangeConfig(c) ==
    /\ config' = c
    /\ FeeEffect(c)
    /\ IF c # config
       THEN ClearForStakerChange
       ELSE UNCHANGED <<inputVars, traitVars, registrationVars>>
    /\ UNCHANGED <<account, staker, flagVars, calls>>

ConnectWallet(a) ==
    /\ account = None
    /\ account' = a
    /\ staker' = IF staker = None THEN a ELSE staker
    /\ UNCHANGED <<config, inputVars, feeVars, traitVars, registrationVars, flagVars, calls>>

Disconnect ==
    /\ account # None
    /\ account' = None
    /\ UNCHANGED <<config, staker, inputVars, feeVars, traitVars, registrationVars, flagVars,
                   calls>>

EnterStaker(s) ==
    /\ s # staker
    /\ staker' = s
    /\ ClearForStakerChange
    /\ UNCHANGED <<config, account, feeVars, flagVars, calls>>

EnterSignerManager(m) ==
    /\ ~SignerManagerVerified /\ m # signerManager
    /\ signerManager' = m
    /\ traitCheck' = None /\ traitCheckScope' = None
    /\ registration' = None /\ confirmingCancel' = FALSE
    /\ UNCHANGED <<config, account, staker, startCycle, claimCount, cadenceChosen, feeVars,
                   checkingTrait, flagVars, calls>>

EnterStartCycle(cycle) ==
    /\ registration = None /\ cycle # startCycle
    /\ startCycle' = cycle
    /\ UNCHANGED <<config, account, staker, signerManager, claimCount, cadenceChosen, feeVars,
                   traitVars, registrationVars, flagVars, calls>>

ChooseCadence ==
    /\ registration = None /\ ~cadenceChosen
    /\ cadenceChosen' = TRUE
    /\ UNCHANGED <<config, account, staker, signerManager, startCycle, claimCount, feeVars,
                   traitVars, registrationVars, flagVars, calls>>

EnterClaimCount(n) ==
    /\ n # claimCount
    /\ claimCount' = n
    /\ UNCHANGED <<config, account, staker, signerManager, startCycle, cadenceChosen, feeVars,
                   traitVars, registrationVars, flagVars, calls>>

-----------------------------------------------------------------------------
(* Checking a signer-manager: traitCheck and its scope change together *)

CanCheck(c, manager) == c \in Deployed /\ manager \in Contracts

ForgetTrait == traitCheck' = None /\ traitCheckScope' = None

\* The rest of checkSignerManagerTrait, with the closure of the call.
TraitSettles(id) ==
    LET call == calls[id]
    IN  /\ traitCheck' = FetchTraitCheck(call.config, call.signerManager)
        /\ traitCheckScope' = TraitCheckScopeKey(call.config, call.signerManager)
        /\ checkingTrait' = FALSE

-----------------------------------------------------------------------------
(* The wallet *)

\* submitContractCall: without a wallet it only asks to connect one.
Submit(id, function, closure) ==
    IF closure.account # None /\ closure.config \in Deployed
    THEN /\ Calling(id, [closure EXCEPT !.kind = "wallet", !.next = function])
         /\ submitting' = TRUE
    ELSE Finished(id) /\ UNCHANGED submitting

Register(id) ==
    /\ Free(id) /\ registration = None /\ ~submitting /\ ~checkingTrait
    /\ ~(TraitCheckIsCurrent /\ traitCheck \in Blocking)
    /\ None \notin {staker, signerManager, startCycle, NumClaims} /\ cadenceChosen
    /\ \/ /\ TraitCheckIsCurrent /\ traitCheck = "supported"
          /\ startCycle = "integer"
          /\ Submit(id, "register-for-claims", Rendered)
          /\ UNCHANGED traitVars
       \/ /\ ~(TraitCheckIsCurrent /\ traitCheck = "supported")
          /\ IF CanCheck(config, signerManager)
             THEN /\ Calling(id, [Rendered EXCEPT !.kind = "trait", !.next = "register"])
                  /\ checkingTrait' = TRUE
                  /\ UNCHANGED <<traitCheck, traitCheckScope>>
             ELSE ForgetTrait /\ UNCHANGED <<calls, checkingTrait>>
          /\ UNCHANGED submitting
    /\ UNCHANGED <<config, account, staker, inputVars, feeVars, registrationVars,
                   loadingDefaults, loadingRegistration>>

\* handleRegister goes on after its check.
RegisterChecked(id) ==
    /\ calls[id].kind = "trait" /\ calls[id].next = "register"
    /\ TraitSettles(id)
    /\ IF traitCheck' = "supported" /\ calls[id].startCycle = "integer"
       THEN Submit(id, "register-for-claims", calls[id])
       ELSE Finished(id) /\ UNCHANGED submitting
    /\ UNCHANGED <<config, account, staker, inputVars, feeVars, registrationVars,
                   loadingDefaults, loadingRegistration>>

AddClaims(id) ==
    /\ Free(id) /\ registration # None /\ ~confirmingCancel /\ ~submitting
    /\ None \notin {staker, signerManager, NumClaims}
    /\ Submit(id, "add-claims", [Rendered EXCEPT !.startCycle = None])
    /\ UNCHANGED <<config, account, staker, inputVars, feeVars, traitVars, registrationVars,
                   loadingDefaults, loadingRegistration>>

SetConfirmingCancel(shown) ==
    /\ registration # None /\ ~submitting /\ confirmingCancel # shown
    /\ confirmingCancel' = shown
    /\ UNCHANGED <<config, account, staker, inputVars, feeVars, traitVars, registration,
                   flagVars, calls>>

ConfirmCancel(id) ==
    /\ Free(id) /\ registration # None /\ confirmingCancel /\ ~submitting
    /\ account # None /\ account = staker /\ signerManager # None
    /\ Submit(id, "cancel-registration",
              [Rendered EXCEPT !.startCycle = None, !.numClaims = None, !.feePerClaim = None])
    /\ UNCHANGED <<config, account, staker, inputVars, feeVars, traitVars, registrationVars,
                   loadingDefaults, loadingRegistration>>

\* Refused or failed, or a registration: only the flag falls.
WalletDone(id) ==
    /\ calls[id].kind = "wallet"
    /\ submitting' = FALSE
    /\ Finished(id)
    /\ UNCHANGED <<config, account, staker, inputVars, feeVars, traitVars, registrationVars,
                   loadingDefaults, loadingRegistration>>

-----------------------------------------------------------------------------
(* Loading the stake *)

LoadDefaults(id) ==
    /\ Free(id) /\ ~loadingDefaults /\ ~loadingRegistration /\ staker # None
    /\ loadingDefaults' = TRUE
    /\ registration' = None /\ confirmingCancel' = FALSE
    /\ LoadFeePerClaim
    /\ Calling(id, [Idle EXCEPT !.kind = "position", !.next = "defaults", !.config = config,
                                !.staker = staker, !.joined = WaitsForFee])
    /\ UNCHANGED <<config, account, staker, inputVars, traitVars, loadingRegistration,
                   submitting>>

PositionFound(id) ==
    /\ calls[id].kind = "position" /\ ~calls[id].joined
    /\ LET call == calls[id]
           signer == FetchPosition(call.config, call.staker)
       IN  /\ signer # None
           /\ signerManager' = signer /\ startCycle' = "integer"
           /\ IF CanCheck(call.config, signer)
              THEN /\ Calling(id, [call EXCEPT !.kind = "trait", !.signerManager = signer])
                   /\ checkingTrait' = TRUE
                   /\ UNCHANGED <<traitCheck, traitCheckScope, loadingDefaults>>
              ELSE /\ Finished(id)
                   /\ ForgetTrait
                   /\ loadingDefaults' = FALSE
                   /\ UNCHANGED checkingTrait
    /\ UNCHANGED <<config, account, staker, claimCount, cadenceChosen, feeVars,
                   registrationVars, loadingRegistration, submitting>>

NoPosition(id) ==
    /\ calls[id].kind = "position" /\ ~calls[id].joined
    /\ FetchPosition(calls[id].config, calls[id].staker) = None
    /\ signerManager' = None /\ startCycle' = None
    /\ loadingDefaults' = FALSE
    /\ Finished(id)
    /\ UNCHANGED <<config, account, staker, claimCount, cadenceChosen, feeVars, traitVars,
                   registrationVars, loadingRegistration, submitting>>

\* Promise.all gives up on the fee when the position cannot be read.
PositionFails(id) ==
    /\ calls[id].kind = "position"
    /\ loadingDefaults' = FALSE
    /\ Finished(id)
    /\ UNCHANGED <<config, account, staker, inputVars, feeVars, traitVars, registrationVars,
                   loadingRegistration, submitting>>

DefaultsChecked(id) ==
    /\ calls[id].kind = "trait" /\ calls[id].next = "defaults"
    /\ TraitSettles(id)
    /\ loadingDefaults' = FALSE
    /\ Finished(id)
    /\ UNCHANGED <<config, account, staker, inputVars, feeVars, registrationVars,
                   loadingRegistration, submitting>>

TraitFails(id) ==
    /\ calls[id].kind = "trait"
    /\ ForgetTrait /\ checkingTrait' = FALSE
    /\ loadingDefaults' = (loadingDefaults /\ calls[id].next # "defaults")
    /\ Finished(id)
    /\ UNCHANGED <<config, account, staker, inputVars, feeVars, registrationVars,
                   loadingRegistration, submitting>>

-----------------------------------------------------------------------------
(* Loading the registration *)

Reading(c, s, m) ==
    [Idle EXCEPT !.kind = "registration", !.config = c, !.staker = s, !.signerManager = m]

LoadRegistration(id) ==
    /\ Free(id) /\ ~loadingDefaults /\ ~loadingRegistration
    /\ staker # None /\ signerManager # None /\ config \in Deployed
    /\ loadingRegistration' = TRUE /\ confirmingCancel' = FALSE
    /\ Calling(id, Reading(config, staker, signerManager))
    /\ UNCHANGED <<config, account, staker, inputVars, feeVars, traitVars, registration,
                   loadingDefaults, submitting>>

\* get-registration finds a row.
RegistrationFound(id) ==
    /\ calls[id].kind = "registration"
    /\ registration' = FetchRegistration(calls[id])
    /\ cadenceChosen' = TRUE
    /\ loadingRegistration' = FALSE
    /\ Finished(id)
    /\ UNCHANGED <<config, account, staker, signerManager, startCycle, claimCount, feeVars,
                   traitVars, confirmingCancel, loadingDefaults, submitting>>

\* It finds none, or the read fails.
NoRegistration(id) ==
    /\ calls[id].kind = "registration"
    /\ registration' = None
    /\ loadingRegistration' = FALSE
    /\ Finished(id)
    /\ UNCHANGED <<config, account, staker, inputVars, feeVars, traitVars, confirmingCancel,
                   loadingDefaults, submitting>>

\* The wallet sent add-claims: the handler loads what it added to.
ClaimsAdded(id) ==
    /\ calls[id].kind = "wallet" /\ calls[id].next = "add-claims"
    /\ submitting' = FALSE
    /\ claimCount' = None
    /\ loadingRegistration' = TRUE /\ confirmingCancel' = FALSE
    /\ Calling(id, Reading(calls[id].config, calls[id].staker, calls[id].signerManager))
    /\ UNCHANGED <<config, account, staker, signerManager, startCycle, cadenceChosen, feeVars,
                   traitVars, registration, loadingDefaults>>

\* The wallet sent cancel-registration.
Canceled(id) ==
    /\ calls[id].kind = "wallet" /\ calls[id].next = "cancel-registration"
    /\ submitting' = FALSE
    /\ registration' = None /\ confirmingCancel' = FALSE
    /\ Finished(id)
    /\ UNCHANGED <<config, account, staker, inputVars, feeVars, traitVars, loadingDefaults,
                   loadingRegistration>>

-----------------------------------------------------------------------------
\* After the effects of the first rendering.
Init ==
    /\ config = DefaultConfig /\ account = None
    /\ staker = None /\ signerManager = None /\ startCycle = None /\ claimCount = None
    /\ cadenceChosen = FALSE
    /\ feePerClaim = None /\ feeScope = None
    /\ feeLoad = IF DefaultConfig \in Deployed THEN DefaultConfig ELSE None
    /\ traitCheck = None /\ traitCheckScope = None /\ checkingTrait = FALSE
    /\ registration = None /\ confirmingCancel = FALSE
    /\ loadingDefaults = FALSE /\ loadingRegistration = FALSE /\ submitting = FALSE
    /\ calls = [id \in CallIds |-> Idle]

Input ==
    \/ \E c \in Configs : ChangeConfig(c)
    \/ \E a \in Accounts : ConnectWallet(a)
    \/ Disconnect
    \/ \E s \in Stakers \cup {None} : EnterStaker(s)
    \/ \E m \in Managers \cup {None} : EnterSignerManager(m)
    \/ \E cycle \in TypedCycles \cup {None} : EnterStartCycle(cycle)
    \/ ChooseCadence
    \/ \E n \in TypedCounts \cup {None} : EnterClaimCount(n)
    \/ \E shown \in BOOLEAN : SetConfirmingCancel(shown)

Button(id) ==
    \/ Register(id) \/ AddClaims(id) \/ ConfirmCancel(id)
    \/ LoadDefaults(id) \/ LoadRegistration(id)

Answer(id) ==
    \/ PositionFound(id) \/ NoPosition(id) \/ PositionFails(id)
    \/ RegisterChecked(id) \/ DefaultsChecked(id) \/ TraitFails(id)
    \/ RegistrationFound(id) \/ NoRegistration(id)
    \/ WalletDone(id) \/ ClaimsAdded(id) \/ Canceled(id)

Next ==
    \/ Input \/ RetryFee \/ FeeAnswered \/ FeeFails
    \/ \E id \in CallIds : Button(id) \/ Answer(id)

Spec == Init /\ [][Next]_vars

-----------------------------------------------------------------------------
Call ==
    [kind : {"idle", "position", "trait", "registration", "wallet"},
     next : {"nothing", "defaults", "register", "register-for-claims", "add-claims",
             "cancel-registration"},
     config : Configs, account : Accounts \cup {None}, staker : Stakers \cup {None},
     signerManager : Managers \cup {None}, startCycle : {"integer", "malformed", None},
     numClaims : 1 .. MaxClaimInstallments \cup {None}, feePerClaim : Nat \cup {None},
     joined : BOOLEAN]

\* Every variable has the type of its state in register-form.tsx; no call asks
\* for more claims than one transaction takes (MAX_CLAIM_INSTALLMENTS).
TypeOK ==
    /\ config \in Configs /\ account \in Accounts \cup {None}
    /\ staker \in Stakers \cup {None} /\ signerManager \in Managers \cup {None}
    /\ startCycle \in {"integer", "malformed", None} /\ claimCount \in Nat \cup {None}
    /\ cadenceChosen \in BOOLEAN
    /\ feePerClaim \in Nat \cup {None} /\ feeScope \in Configs \cup {None}
    /\ feeLoad \in Deployed \cup {None}
    /\ traitCheck \in {"supported", None} \cup Blocking
    /\ \/ traitCheckScope = None
       \/ \E c \in Configs, m \in Contracts : traitCheckScope = TraitCheckScopeKey(c, m)
    /\ checkingTrait \in BOOLEAN /\ confirmingCancel \in BOOLEAN
    /\ registration \in (Stakers \X Managers) \cup {None}
    /\ loadingDefaults \in BOOLEAN /\ loadingRegistration \in BOOLEAN /\ submitting \in BOOLEAN
    /\ calls \in [CallIds -> Call]

\* Some API of the configuration's network reports that the manager supports
\* the trait of its claims contract.
SupportedFor(c, manager) ==
    \E d \in Configs :
        /\ d.network = c.network /\ d.claimsContract = c.claimsContract
        /\ Trait[d][manager] = "supported"

\* Whatever was edited, switched or answered between the check of a
\* signer-manager and the register-for-claims that rests on it, the wallet is
\* asked to register a manager of which an API of the request's own network
\* reported that it supports the trait of the request's own contract.  It need
\* not be the API now configured: traitCheckScopeKey leaves the API out, so that
\* after a change of the API alone a late answer of the old one still counts.
RegisteredManagerSupportsTrait ==
    \A id \in CallIds :
        (calls[id].kind = "wallet" /\ calls[id].next = "register-for-claims")
            => SupportedFor(calls[id].config, calls[id].signerManager)

\* A fee that loadFeePerClaim would reuse for a configuration was read from that
\* configuration's registry, however the loads and the switches interleave.
CachedFeeIsOfItsScope == feeScope # None => feePerClaim = Fee[feeScope]

\* "Escrow is calculated from the on-chain fee per claim (get-fee-per-claim)": a
\* request that names an escrow computes it with the fee of its own network.
EscrowUsesTheFeeOfItsNetwork ==
    \A id \in CallIds :
        (calls[id].kind = "wallet" /\ calls[id].next \in {"register-for-claims", "add-claims"}
            /\ calls[id].feePerClaim # None)
        => calls[id].feePerClaim = Fee[calls[id].config]
=============================================================================
