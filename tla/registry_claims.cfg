SPECIFICATION Spec
CONSTANTS
    None = None
    alice = alice
    bob = bob
    carol = carol
    sm1 = sm1
    sm2 = sm2
    Principals <- MCPrincipals
    Stakers = {alice, bob}
    SignerManagers = {sm1}
    Deployer = bob
    RequestIds = {}
    BondIndexes = {1}
    PoxEntries <- OneStake
    Fees = {3}
    InitialFee = 3
    MaxClaimInstallments = 4
    WithdrawalMinBurnAge = 1
    PendingTicks = 1
    DistributionLength = 1
    InitialStx = 9
    Senders = {alice, carol}
    AdminChanges = {}
    Entries <- ClaimEntries
    TopUps = {1}
    RegisterBatches = {}
    CancelBatches = {}
    ClaimBatches <- PairBatches
    SettleBatches = {}
    MaxBurnHeight = 4
    MaxRemaining = 3
INVARIANTS
    GuardMatchesCall
    NoStaleAdvance
    InstallmentsConserved
    CadenceRespected
    NoRewardCycleSkipped
    PendingClaimsListed
