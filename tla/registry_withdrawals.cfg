SPECIFICATION FairSpec
CONSTANTS
    None = None
    alice = alice
    bob = bob
    carol = carol
    sm1 = sm1
    sm2 = sm2
    Principals <- MCPrincipals
    Stakers = {alice, bob}
    SignerManagers = {sm1}
    Deployer = carol
    RequestIds = {1, 2}
    BondIndexes = {1}
    PoxEntries <- OneStake
    Fees = {3}
    InitialFee = 3
    MaxClaimInstallments = 4
    WithdrawalMinBurnAge = 1
    PendingTicks = 1
    DistributionLength = 1
    InitialStx = 6
    Senders = {alice}
    AdminChanges = {}
    Entries <- WithdrawalEntries
    TopUps = {}
    RegisterBatches = {}
    CancelBatches = {}
    ClaimBatches <- PairBatches
    SettleBatches <- WithdrawalSettleBatches
    MaxBurnHeight = 3
    MaxRemaining = 3
INVARIANTS
    TypeOK
    WithdrawalListSound
    SettledOnce
    ReadyWithdrawalsListed
PROPERTIES
    ClaimCallsAdvance
