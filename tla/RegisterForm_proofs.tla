------------------------- MODULE RegisterForm_proofs -------------------------
(***************************************************************************)
(* The claims page never asks the wallet to register a signer-manager that *)
(* no API of the request's network reported to support the trait, and      *)
(* never reuses a fee for another network.                                 *)
(*                                                                         *)
(* The property about open requests is not inductive: a request follows    *)
(* from a check shown (`TraitKnown`) or from one in flight, whose closure  *)
(* must name a manager and a configuration it may be made for (`CallOK`).  *)
(***************************************************************************)
EXTENDS RegisterForm, TLAPS

\* What the closure of a call in flight holds.
CallOK(call) ==
    /\ call.kind = "position" => call.staker \in Stakers
    /\ call.kind = "trait" => call.config \in Deployed /\ call.signerManager \in Contracts
    /\ (call.kind = "registration" \/ (call.kind = "wallet" /\ call.next = "add-claims"))
           => call.staker \in Stakers /\ call.signerManager \in Managers
    /\ (call.kind = "wallet" /\ call.next = "register-for-claims")
           => SupportedFor(call.config, call.signerManager)

CallsOK == \A id \in CallIds : CallOK(calls[id])

\* A check shown as supported was answered within its scope.
TraitKnown ==
    traitCheck = "supported" =>
        \E c \in Configs, m \in Contracts :
            traitCheckScope = TraitCheckScopeKey(c, m) /\ Trait[c][m] = "supported"

FormOK ==
    /\ config \in Configs /\ account \in Accounts \cup {None}
    /\ staker \in Stakers \cup {None} /\ signerManager \in Managers \cup {None}
    /\ startCycle \in {"integer", "malformed", None} /\ claimCount \in Nat \cup {None}
    /\ cadenceChosen \in BOOLEAN
FeeOK ==
    /\ feePerClaim \in Nat \cup {None} /\ feeScope \in Configs \cup {None}
    /\ feeLoad \in Deployed \cup {None}
    /\ CachedFeeIsOfItsScope
TraitOK ==
    /\ traitCheck \in {"supported", None} \cup Blocking
    /\ \/ traitCheckScope = None
       \/ \E c \in Configs, m \in Contracts : traitCheckScope = TraitCheckScopeKey(c, m)
    /\ checkingTrait \in BOOLEAN
    /\ TraitKnown
RegistrationOK ==
    /\ confirmingCancel \in BOOLEAN
    /\ registration \in (Stakers \X Managers) \cup {None}
FlagsOK ==
    loadingDefaults \in BOOLEAN /\ loadingRegistration \in BOOLEAN /\ submitting \in BOOLEAN
CallsInv == calls \in [CallIds -> Call] /\ CallsOK

Inv == FormOK /\ FeeOK /\ TraitOK /\ RegistrationOK /\ FlagsOK /\ CallsInv

-----------------------------------------------------------------------------
LEMMA DeployedAreConfigs == Deployed \subseteq Configs
BY DEF Deployed

LEMMA IdleIsCall == Idle \in Call /\ CallOK(Idle)
BY FormAssumption DEF Idle, Call, CallOK

LEMMA ReadingIsCall ==
    ASSUME NEW c \in Configs, NEW s \in Stakers, NEW m \in Managers
    PROVE  Reading(c, s, m) \in Call /\ CallOK(Reading(c, s, m))
BY IdleIsCall DEF Reading, Call, CallOK

\* One call starts, goes on or ends.
LEMMA CallChanges ==
    ASSUME CallsInv, NEW id \in CallIds, NEW call \in Call, CallOK(call), Calling(id, call)
    PROVE  CallsInv'
<1>1. calls' \in [CallIds -> Call]
  BY DEF CallsInv, Calling
<1>2. ASSUME NEW other \in CallIds PROVE CallOK(calls'[other])
  <2>1. calls'[other] = IF other = id THEN call ELSE calls[other]
    BY DEF CallsInv, Calling
  <2>2. CallOK(calls[other])
    BY DEF CallsInv, CallsOK
  <2> QED BY <2>1, <2>2
<1> QED BY <1>1, <1>2 DEF CallsInv, CallsOK

LEMMA CallFinishes ==
    ASSUME CallsInv, NEW id \in CallIds, Finished(id)
    PROVE  CallsInv'
BY IdleIsCall, CallChanges DEF Finished

LEMMA CallsUnchanged == CallsInv /\ UNCHANGED calls => CallsInv'
BY DEF CallsInv, CallsOK

\* What a rendering hands to its handlers has the type of a call's closure.
LEMMA RenderedTyped ==
    ASSUME FormOK, FeeOK,
           NEW kind \in {"position", "trait", "registration", "wallet"},
           NEW next \in {"defaults", "register", "register-for-claims", "add-claims",
                         "cancel-registration"}
    PROVE  /\ Rendered \in Call
           /\ Rendered.config = config /\ Rendered.staker = staker
           /\ Rendered.signerManager = signerManager
           /\ LET call == [Rendered EXCEPT !.kind = kind, !.next = next]
              IN  /\ call \in Call
                  /\ call.kind = kind /\ call.next = next /\ call.config = config
                  /\ call.staker = staker /\ call.signerManager = signerManager
<1>1. NumClaims \in 1 .. MaxClaimInstallments \cup {None}
  BY FormAssumption DEF NumClaims, FormOK
<1>2. Rendered \in Call
  BY <1>1 DEF Rendered, Call, FormOK, FeeOK
<1>3. /\ Rendered.config = config /\ Rendered.staker = staker
      /\ Rendered.signerManager = signerManager
  BY DEF Rendered
<1>4. [Rendered EXCEPT !.kind = kind, !.next = next] \in Call
  BY <1>2 DEF Call
<1> QED BY <1>2, <1>3, <1>4 DEF Call

\* A handler that ends in submitContractCall.
LEMMA SubmitKeepsCalls ==
    ASSUME CallsInv, submitting \in BOOLEAN, NEW id \in CallIds, NEW closure \in Call,
           NEW function \in {"register-for-claims", "add-claims", "cancel-registration"},
           function = "add-claims" =>
               closure.staker \in Stakers /\ closure.signerManager \in Managers,
           function = "register-for-claims" =>
               SupportedFor(closure.config, closure.signerManager),
           Submit(id, function, closure)
    PROVE  CallsInv' /\ submitting' \in BOOLEAN
<1> DEFINE request == [closure EXCEPT !.kind = "wallet", !.next = function]
<1>1. request \in Call
  BY DEF Call
<1>2. /\ request.kind = "wallet" /\ request.next = function
      /\ request.config = closure.config /\ request.staker = closure.staker
      /\ request.signerManager = closure.signerManager
  BY DEF Call
<1>3. CallOK(request)
  BY <1>2 DEF CallOK
<1>4. CASE Calling(id, request) /\ submitting' = TRUE
  BY <1>1, <1>3, <1>4, CallChanges
<1>5. CASE Finished(id) /\ UNCHANGED submitting
  BY <1>5, CallFinishes
<1> QED BY <1>4, <1>5 DEF Submit

LEMMA FeeSteps ==
    ASSUME Inv, RetryFee \/ FeeAnswered \/ FeeFails
    PROVE  Inv'
<1> USE DEF Inv, FormOK, TraitOK, TraitKnown, RegistrationOK, FlagsOK, inputVars, traitVars,
            registrationVars, flagVars
<1>1. CASE RetryFee
  <2>1. FeeOK'
    BY <1>1 DEF RetryFee, FeeOK, CachedFeeIsOfItsScope
  <2>2. CallsInv'
    BY <1>1, CallsUnchanged DEF RetryFee
  <2> QED BY <1>1, <2>1, <2>2 DEF RetryFee
<1>2. ASSUME FeeLoaded PROVE CallsInv'
  <2>1. ASSUME NEW id \in CallIds
        PROVE  calls'[id] \in Call /\ CallOK(calls'[id])
    <3>1. calls[id] \in Call /\ CallOK(calls[id])
      BY DEF CallsInv, CallsOK
    <3>2. calls'[id] = [calls[id] EXCEPT !.joined = FALSE]
      BY <1>2 DEF FeeLoaded
    <3>3. ASSUME NEW call \in Call, CallOK(call)
          PROVE  /\ [call EXCEPT !.joined = FALSE] \in Call
                 /\ CallOK([call EXCEPT !.joined = FALSE])
      <4> DEFINE answered == [call EXCEPT !.joined = FALSE]
      <4>1. answered \in Call
        BY DEF Call
      <4>2. /\ answered.kind = call.kind /\ answered.next = call.next
            /\ answered.config = call.config /\ answered.staker = call.staker
            /\ answered.signerManager = call.signerManager
        BY DEF Call
      <4> QED BY <3>3, <4>1, <4>2 DEF CallOK
    <3> QED BY <3>1, <3>2, <3>3
  <2>2. calls' = [id \in CallIds |-> calls'[id]]
    BY <1>2 DEF FeeLoaded
  <2> QED BY <2>1, <2>2 DEF CallsInv, CallsOK
<1>3. CASE FeeAnswered
  <2>1. FeeOK'
    BY <1>3, FormAssumption, DeployedAreConfigs
    DEF FeeAnswered, FeeLoaded, ScopeOfFeeLoad, FetchFeePerClaim, FeeOK, CachedFeeIsOfItsScope
  <2> QED BY <1>2, <1>3, <2>1 DEF FeeAnswered, FeeLoaded
<1>4. CASE FeeFails
  <2>1. FeeOK'
    BY <1>4 DEF FeeFails, FeeLoaded, FeeOK, CachedFeeIsOfItsScope
  <2> QED BY <1>2, <1>4, <2>1 DEF FeeFails, FeeLoaded
<1> QED BY <1>1, <1>3, <1>4

LEMMA InputSteps ==
    ASSUME Inv, Input
    PROVE  Inv'
<1> USE FormAssumption
    DEF Inv, FormOK, FeeOK, CachedFeeIsOfItsScope, TraitOK, TraitKnown, RegistrationOK,
        FlagsOK, inputVars, feeVars, traitVars, registrationVars, flagVars
<1>1. CallsInv'
  BY CallsUnchanged
  DEF Input, ChangeConfig, ConnectWallet, Disconnect, EnterStaker, EnterSignerManager,
      EnterStartCycle, ChooseCadence, EnterClaimCount, SetConfirmingCancel
<1>2. ASSUME NEW c \in Configs, ChangeConfig(c) PROVE Inv'
  <2>1. FeeOK'
    BY <1>2 DEF ChangeConfig, FeeEffect
  <2>2. CASE c # config
    BY <1>1, <1>2, <2>1, <2>2 DEF ChangeConfig, ClearForStakerChange
  <2>3. CASE c = config
    BY <1>1, <1>2, <2>1, <2>3 DEF ChangeConfig
  <2> QED BY <2>2, <2>3
<1>3. ASSUME NEW a \in Accounts, ConnectWallet(a) PROVE Inv'
  BY <1>1, <1>3 DEF ConnectWallet
<1>4. CASE Disconnect
  BY <1>1, <1>4 DEF Disconnect
<1>5. ASSUME NEW s \in Stakers \cup {None}, EnterStaker(s) PROVE Inv'
  BY <1>1, <1>5 DEF EnterStaker, ClearForStakerChange
<1>6. ASSUME NEW m \in Managers \cup {None}, EnterSignerManager(m) PROVE Inv'
  <2>1. FormOK'
    BY <1>6 DEF EnterSignerManager
  <2>2. FeeOK' /\ FlagsOK'
    BY <1>6 DEF EnterSignerManager
  <2>3. RegistrationOK'
    BY <1>6 DEF EnterSignerManager
  <2>4. TraitOK'
    BY <1>6 DEF EnterSignerManager
  <2> QED BY <1>1, <2>1, <2>2, <2>3, <2>4
<1>7. ASSUME NEW cycle \in TypedCycles \cup {None}, EnterStartCycle(cycle) PROVE Inv'
  BY <1>1, <1>7 DEF EnterStartCycle
<1>8. CASE ChooseCadence
  BY <1>1, <1>8 DEF ChooseCadence
<1>9. ASSUME NEW n \in TypedCounts \cup {None}, EnterClaimCount(n) PROVE Inv'
  BY <1>1, <1>9 DEF EnterClaimCount
<1>10. ASSUME NEW shown \in BOOLEAN, SetConfirmingCancel(shown) PROVE Inv'
  BY <1>1, <1>10 DEF SetConfirmingCancel
<1> QED BY <1>2, <1>3, <1>4, <1>5, <1>6, <1>7, <1>8, <1>9, <1>10 DEF Input

\* Where a rendering shows a check of its own scope as supported, the manager is.
LEMMA CurrentCheckHolds ==
    ASSUME TraitOK, TraitCheckIsCurrent, traitCheck = "supported"
    PROVE  SupportedFor(config, signerManager)
<1>1. PICK c \in Configs, m \in Contracts :
          traitCheckScope = TraitCheckScopeKey(c, m) /\ Trait[c][m] = "supported"
  BY DEF TraitOK, TraitKnown
<1>2. c.network = config.network /\ c.claimsContract = config.claimsContract /\ m = signerManager
  BY <1>1 DEF TraitCheckIsCurrent, TraitCheckScopeKey
<1> QED BY <1>1, <1>2 DEF SupportedFor

\* An answer about a signer-manager is shown with the scope it is about.
LEMMA TraitSettled ==
    ASSUME CallsInv, NEW id \in CallIds, calls[id].kind = "trait", TraitSettles(id)
    PROVE  TraitOK'
<1>1. /\ calls[id].config \in Configs /\ calls[id].signerManager \in Contracts
  BY FormAssumption DEF CallsInv, CallsOK, CallOK, Deployed
<1>2. Trait[calls[id].config][calls[id].signerManager] \in {"supported"} \cup Blocking
  BY <1>1, FormAssumption
<1> QED BY <1>1, <1>2 DEF TraitSettles, FetchTraitCheck, TraitOK, TraitKnown

LEMMA ButtonSteps ==
    ASSUME Inv, NEW id \in CallIds, Button(id)
    PROVE  Inv'
<1> USE DEF Inv, inputVars, feeVars, traitVars, registrationVars
<1>1. Free(id) /\ FormOK' /\ CallsInv /\ submitting \in BOOLEAN
  BY DEF Button, Register, AddClaims, ConfirmCancel, LoadDefaults, LoadRegistration, FormOK,
         FlagsOK
<1>2. CASE Register(id)
  <2>1. FeeOK' /\ RegistrationOK'
    BY <1>2 DEF Register, FeeOK, CachedFeeIsOfItsScope, RegistrationOK
  <2>2. CASE TraitCheckIsCurrent /\ traitCheck = "supported"
    <3>1. Submit(id, "register-for-claims", Rendered) /\ UNCHANGED traitVars
      BY <1>2, <2>2 DEF Register
    <3>2. Rendered \in Call /\ Rendered.config = config /\ Rendered.signerManager = signerManager
      BY RenderedTyped
    <3>3. CallsInv' /\ submitting' \in BOOLEAN
      BY <1>1, <2>2, <3>1, <3>2, CurrentCheckHolds, SubmitKeepsCalls
    <3> QED BY <1>1, <1>2, <2>1, <3>1, <3>3 DEF Register, FlagsOK, TraitOK, TraitKnown
  <2>3. CASE ~(TraitCheckIsCurrent /\ traitCheck = "supported")
    <3>1. submitting' \in BOOLEAN
      BY <1>1, <1>2, <2>3 DEF Register
    <3>2. CASE CanCheck(config, signerManager)
      <4>1. Calling(id, [Rendered EXCEPT !.kind = "trait", !.next = "register"])
        BY <1>2, <2>3, <3>2 DEF Register
      <4> DEFINE check == [Rendered EXCEPT !.kind = "trait", !.next = "register"]
      <4>2. check \in Call /\ CallOK(check)
        BY <3>2, RenderedTyped DEF CanCheck, CallOK
      <4>3. CallsInv'
        BY <1>1, <4>1, <4>2, CallChanges
      <4>4. TraitOK'
        BY <1>2, <2>3, <3>2 DEF Register, TraitOK, TraitKnown
      <4> QED BY <1>1, <1>2, <2>1, <3>1, <4>3, <4>4 DEF Register, FlagsOK
    <3>3. CASE ~CanCheck(config, signerManager)
      <4>1. ForgetTrait /\ UNCHANGED <<calls, checkingTrait>>
        BY <1>2, <2>3, <3>3 DEF Register
      <4>2. TraitOK' /\ CallsInv'
        BY <4>1, CallsUnchanged, FormAssumption DEF ForgetTrait, TraitOK, TraitKnown
      <4> QED BY <1>1, <1>2, <2>1, <3>1, <4>2 DEF Register, FlagsOK
    <3> QED BY <3>2, <3>3
  <2> QED BY <2>2, <2>3
<1>3. CASE AddClaims(id)
  <2>1. staker \in Stakers /\ signerManager \in Managers
    BY <1>3 DEF AddClaims, FormOK
  <2> DEFINE closure == [Rendered EXCEPT !.startCycle = None]
  <2>2. Submit(id, "add-claims", closure)
    BY <1>3 DEF AddClaims
  <2>3. Rendered \in Call /\ Rendered.staker = staker /\ Rendered.signerManager = signerManager
    BY RenderedTyped
  <2>4. closure \in Call /\ closure.staker = staker /\ closure.signerManager = signerManager
    BY <2>3 DEF Call
  <2> HIDE DEF closure
  <2>5. CallsInv' /\ submitting' \in BOOLEAN
    BY <1>1, <2>1, <2>2, <2>4, SubmitKeepsCalls
  <2> QED BY <1>1, <1>3, <2>5
          DEF AddClaims, FeeOK, CachedFeeIsOfItsScope, TraitOK, TraitKnown, RegistrationOK, FlagsOK
<1>4. CASE ConfirmCancel(id)
  <2> DEFINE closure == [Rendered EXCEPT !.startCycle = None, !.numClaims = None,
                                         !.feePerClaim = None]
  <2>1. Submit(id, "cancel-registration", closure)
    BY <1>4 DEF ConfirmCancel
  <2>2. Rendered \in Call
    BY RenderedTyped
  <2>3. closure \in Call
    BY <2>2 DEF Call
  <2> HIDE DEF closure
  <2>4. CallsInv' /\ submitting' \in BOOLEAN
    BY <1>1, <2>1, <2>3, SubmitKeepsCalls
  <2> QED BY <1>1, <1>4, <2>4
          DEF ConfirmCancel, FeeOK, CachedFeeIsOfItsScope, TraitOK, TraitKnown, RegistrationOK,
              FlagsOK
<1>5. CASE LoadDefaults(id)
  <2> DEFINE call == [Idle EXCEPT !.kind = "position", !.next = "defaults", !.config = config,
                                  !.staker = staker, !.joined = WaitsForFee]
  <2>1. call \in Call /\ CallOK(call)
    <3>1. config \in Configs /\ staker \in Stakers
      BY <1>5 DEF LoadDefaults, FormOK
    <3>2. WaitsForFee \in BOOLEAN
      BY DEF WaitsForFee
    <3> QED BY <3>1, <3>2, IdleIsCall DEF Call, CallOK
  <2>2. CallsInv'
    BY <1>1, <1>5, <2>1, CallChanges DEF LoadDefaults
  <2>3. FeeOK'
    BY <1>5 DEF LoadDefaults, LoadFeePerClaim, FormOK, FeeOK, CachedFeeIsOfItsScope
  <2> QED BY <1>1, <1>5, <2>2, <2>3 DEF LoadDefaults, TraitOK, TraitKnown, RegistrationOK, FlagsOK
<1>6. CASE LoadRegistration(id)
  <2>1. CallsInv'
    <3>1. config \in Configs /\ staker \in Stakers /\ signerManager \in Managers
      BY <1>6 DEF LoadRegistration, FormOK
    <3> QED BY <1>1, <1>6, <3>1, ReadingIsCall, CallChanges DEF LoadRegistration
  <2>2. FeeOK' /\ RegistrationOK' /\ FlagsOK'
    BY <1>6 DEF LoadRegistration, FeeOK, CachedFeeIsOfItsScope, RegistrationOK, FlagsOK
  <2>3. TraitOK'
    BY <1>6 DEF LoadRegistration, TraitOK, TraitKnown
  <2> QED BY <1>1, <2>1, <2>2, <2>3
<1> QED BY <1>2, <1>3, <1>4, <1>5, <1>6 DEF Button

LEMMA AnswerSteps ==
    ASSUME Inv, NEW id \in CallIds, Answer(id)
    PROVE  Inv'
<1> USE DEF Inv, inputVars, feeVars, traitVars, registrationVars
<1>1. CallsInv /\ calls[id] \in Call /\ CallOK(calls[id])
  BY DEF CallsInv, CallsOK
<1>2. FeeOK'
  BY DEF Answer, PositionFound, NoPosition, PositionFails, RegisterChecked, DefaultsChecked,
         TraitFails, RegistrationFound, NoRegistration, WalletDone, ClaimsAdded, Canceled,
         FeeOK, CachedFeeIsOfItsScope
<1>3. CASE PositionFound(id)
  <2> DEFINE signer == FetchPosition(calls[id].config, calls[id].staker)
             check == [calls[id] EXCEPT !.kind = "trait", !.signerManager = signer]
  <2>1. signer \in Contracts
    BY <1>1, <1>3, FormAssumption DEF PositionFound, FetchPosition, CallOK, Call
  <2>2. signerManager' \in Managers /\ FormOK'
    BY <1>3, <2>1, FormAssumption DEF PositionFound, FormOK
  <2>3. CASE CanCheck(calls[id].config, signer)
    <3>1. Calling(id, check) /\ UNCHANGED <<traitCheck, traitCheckScope, loadingDefaults>>
          /\ checkingTrait' = TRUE
      BY <1>3, <2>3 DEF PositionFound
    <3>2. check \in Call
      BY <1>1, <2>1, FormAssumption DEF Call
    <3>3. /\ check.kind = "trait" /\ check.config = calls[id].config
          /\ check.signerManager = signer
      BY <1>1 DEF Call
    <3>4. CallOK(check)
      BY <2>1, <2>3, <3>3 DEF CallOK, CanCheck
    <3>5. CallsInv'
      BY <1>1, <3>1, <3>2, <3>4, CallChanges
    <3> QED BY <1>2, <1>3, <2>2, <3>1, <3>5
            DEF PositionFound, TraitOK, TraitKnown, RegistrationOK, FlagsOK
  <2>4. CASE ~CanCheck(calls[id].config, signer)
    <3>1. Finished(id) /\ ForgetTrait /\ loadingDefaults' = FALSE /\ UNCHANGED checkingTrait
      BY <1>3, <2>4 DEF PositionFound
    <3>2. CallsInv'
      BY <1>1, <3>1, CallFinishes
    <3>3. TraitOK'
      BY <3>1, FormAssumption DEF ForgetTrait, TraitOK, TraitKnown
    <3> QED BY <1>2, <1>3, <2>2, <3>1, <3>2, <3>3 DEF PositionFound, RegistrationOK, FlagsOK
  <2> QED BY <2>3, <2>4
<1>4. CASE NoPosition(id) \/ PositionFails(id)
  <2>1. CallsInv'
    BY <1>1, <1>4, CallFinishes DEF NoPosition, PositionFails
  <2>2. FormOK' /\ FlagsOK' /\ RegistrationOK'
    BY <1>4 DEF NoPosition, PositionFails, FormOK, RegistrationOK, FlagsOK
  <2>3. TraitOK'
    BY <1>4 DEF NoPosition, PositionFails, TraitOK, TraitKnown
  <2> QED BY <1>2, <2>1, <2>2, <2>3
<1>5. CASE RegisterChecked(id)
  <2>1. TraitOK'
    BY <1>1, <1>5, TraitSettled DEF RegisterChecked
  <2>2. CASE traitCheck' = "supported" /\ calls[id].startCycle = "integer"
    <3>1. SupportedFor(calls[id].config, calls[id].signerManager)
      BY <1>1, <1>5, <2>2
      DEF RegisterChecked, TraitSettles, FetchTraitCheck, SupportedFor, Call
    <3>2. Submit(id, "register-for-claims", calls[id])
      BY <1>5, <2>2 DEF RegisterChecked
    <3>3. CallsInv' /\ submitting' \in BOOLEAN
      BY <1>1, <3>1, <3>2, SubmitKeepsCalls DEF FlagsOK
    <3> QED BY <1>2, <1>5, <2>1, <3>3 DEF RegisterChecked, FormOK, RegistrationOK, FlagsOK
  <2>3. CASE ~(traitCheck' = "supported" /\ calls[id].startCycle = "integer")
    <3>1. CallsInv' /\ UNCHANGED submitting
      BY <1>1, <1>5, <2>3, CallFinishes DEF RegisterChecked
    <3> QED BY <1>2, <1>5, <2>1, <3>1 DEF RegisterChecked, FormOK, RegistrationOK, FlagsOK
  <2> QED BY <2>2, <2>3
<1>6. CASE DefaultsChecked(id)
  <2>1. TraitOK' /\ CallsInv'
    BY <1>1, <1>6, TraitSettled, CallFinishes DEF DefaultsChecked
  <2> QED BY <1>2, <1>6, <2>1 DEF DefaultsChecked, FormOK, RegistrationOK, FlagsOK
<1>7. CASE TraitFails(id)
  <2>1. CallsInv'
    BY <1>1, <1>7, CallFinishes DEF TraitFails
  <2>2. TraitOK'
    BY <1>7, FormAssumption DEF TraitFails, ForgetTrait, TraitOK, TraitKnown
  <2> QED BY <1>2, <1>7, <2>1, <2>2 DEF TraitFails, FormOK, RegistrationOK, FlagsOK
<1>8. CASE RegistrationFound(id) \/ NoRegistration(id)
  <2>1. CallsInv'
    BY <1>1, <1>8, CallFinishes DEF RegistrationFound, NoRegistration
  <2>2. RegistrationOK'
    BY <1>1, <1>8 DEF RegistrationFound, NoRegistration, FetchRegistration, RegistrationOK, CallOK,
                         Call
  <2>3. FormOK' /\ FlagsOK'
    BY <1>8 DEF RegistrationFound, NoRegistration, FormOK, FlagsOK
  <2>4. TraitOK'
    BY <1>8 DEF RegistrationFound, NoRegistration, TraitOK, TraitKnown
  <2> QED BY <1>2, <2>1, <2>2, <2>3, <2>4
<1>9. CASE WalletDone(id) \/ Canceled(id)
  <2>1. CallsInv'
    BY <1>1, <1>9, CallFinishes DEF WalletDone, Canceled
  <2>2. FormOK' /\ FlagsOK' /\ RegistrationOK'
    BY <1>9 DEF WalletDone, Canceled, FormOK, RegistrationOK, FlagsOK
  <2>3. TraitOK'
    BY <1>9 DEF WalletDone, Canceled, TraitOK, TraitKnown
  <2> QED BY <1>2, <2>1, <2>2, <2>3
<1>10. CASE ClaimsAdded(id)
  <2>1. /\ calls[id].config \in Configs /\ calls[id].staker \in Stakers
        /\ calls[id].signerManager \in Managers
    BY <1>1, <1>10 DEF ClaimsAdded, CallOK, Call
  <2>2. CallsInv'
    BY <1>1, <1>10, <2>1, ReadingIsCall, CallChanges DEF ClaimsAdded
  <2>3. FormOK' /\ FlagsOK'
    BY <1>10 DEF ClaimsAdded, FormOK, FlagsOK
  <2>4. TraitOK' /\ RegistrationOK'
    BY <1>10 DEF ClaimsAdded, TraitOK, TraitKnown, RegistrationOK
  <2> QED BY <1>2, <2>2, <2>3, <2>4
<1> QED BY <1>3, <1>4, <1>5, <1>6, <1>7, <1>8, <1>9, <1>10 DEF Answer

-----------------------------------------------------------------------------
\* The invariant of the page, for all configurations, stakers, managers and
\* numbers of calls in flight.
THEOREM FormInvariant == Spec => []Inv
<1>1. Init => Inv
  <2> SUFFICES ASSUME Init PROVE Inv
    OBVIOUS
  <2>1. FormOK /\ RegistrationOK /\ FlagsOK
    BY FormAssumption DEF Init, FormOK, RegistrationOK, FlagsOK
  <2>2. FeeOK
    BY FormAssumption DEF Init, FeeOK, CachedFeeIsOfItsScope
  <2>3. TraitOK
    BY FormAssumption DEF Init, TraitOK, TraitKnown
  <2>4. CallsInv
    BY IdleIsCall DEF Init, CallsInv, CallsOK
  <2> QED BY <2>1, <2>2, <2>3, <2>4 DEF Inv
<1>2. Inv /\ [Next]_vars => Inv'
  <2> SUFFICES ASSUME Inv, [Next]_vars PROVE Inv'
    OBVIOUS
  <2>1. CASE Input
    BY <2>1, InputSteps
  <2>2. CASE RetryFee \/ FeeAnswered \/ FeeFails
    BY <2>2, FeeSteps
  <2>3. ASSUME NEW id \in CallIds, Button(id) PROVE Inv'
    BY <2>3, ButtonSteps
  <2>4. ASSUME NEW id \in CallIds, Answer(id) PROVE Inv'
    BY <2>4, AnswerSteps
  <2>5. CASE UNCHANGED vars
    BY <2>5, CallsUnchanged
    DEF vars, inputVars, feeVars, traitVars, registrationVars, flagVars, Inv, FormOK, FeeOK,
        CachedFeeIsOfItsScope, TraitOK, TraitKnown, RegistrationOK, FlagsOK
  <2> QED BY <2>1, <2>2, <2>3, <2>4, <2>5 DEF Next
<1> QED BY <1>1, <1>2, PTL DEF Spec

\* Type correctness.
THEOREM FormTypes == Spec => []TypeOK
<1>1. Inv => TypeOK
  BY DEF Inv, FormOK, FeeOK, TraitOK, RegistrationOK, FlagsOK, CallsInv, TypeOK
<1> QED BY <1>1, FormInvariant, PTL

\* handleRegister and checkSignerManagerTrait: whatever happens between a check
\* and the request that rests on it, an API of the request's network reported that
\* the manager supports the trait of the request's contract.
THEOREM RegistrationIsChecked == Spec => []RegisteredManagerSupportsTrait
<1>1. Inv => RegisteredManagerSupportsTrait
  BY DEF Inv, CallsInv, CallsOK, CallOK, RegisteredManagerSupportsTrait
<1> QED BY <1>1, FormInvariant, PTL

\* loadFeePerClaim: a fee is never reused for a configuration it was not read from.
THEOREM CachedFeeIsRight == Spec => []CachedFeeIsOfItsScope
<1>1. Inv => CachedFeeIsOfItsScope
  BY DEF Inv, FeeOK
<1> QED BY <1>1, FormInvariant, PTL
=============================================================================
