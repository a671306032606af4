SPECIFICATION Spec
CONSTANTS
    None = None
    alice = alice
    bob = bob
    carol = carol
    sm1 = sm1
    sm2 = sm2
    Principals <- MCPrincipals
    Stakers = {alice, bob}
    SignerManagers = {sm1, sm2}
    Deployer = carol
    RequestIds = {}
    BondIndexes = {1}
    PoxEntries <- Moves
    Fees = {0}
    InitialFee = 0
    MaxClaimInstallments = 4
    WithdrawalMinBurnAge = 1
    PendingTicks = 1
    DistributionLength = 1
    InitialStx = 9
    Senders = {carol}
    AdminChanges = {}
    Entries <- ListEntries
    TopUps = {}
    RegisterBatches = {}
    CancelBatches = {}
    ClaimBatches <- AliceBatch
    SettleBatches = {}
    MaxBurnHeight = 2
    MaxRemaining = 3
INVARIANTS
    RegistrationListSound
    MaxProcessedBoundsServed
PROPERTIES
    ListIsQueue
