SPECIFICATION Spec
CONSTANTS
    None = None
    alice = alice
    bob = bob
    carol = carol
    sm1 = sm1
    sm2 = sm2
    Principals <- MCPrincipals
    Stakers = {alice, bob}
    SignerManagers = {sm1}
    Deployer = carol
    RequestIds = {}
    BondIndexes = {1}
    PoxEntries <- OneStake
    Fees = {1, 2}
    InitialFee = 2
    MaxClaimInstallments = 4
    WithdrawalMinBurnAge = 1
    PendingTicks = 1
    DistributionLength = 1
    InitialStx = 5
    Senders = {bob, carol}
    AdminChanges <- EscrowAdminChanges
    Entries = {}
    TopUps = {1}
    RegisterBatches <- EscrowRegisterBatches
    CancelBatches <- EscrowCancelBatches
    ClaimBatches <- RepeatBatches
    SettleBatches = {}
    MaxBurnHeight = 1
    MaxRemaining = 3
INVARIANTS
    EscrowBacksPrepaid
    SponsorsMadeWhole
PROPERTIES
    ClaimsNeverOvercharge
