SPECIFICATION Spec
CONSTANTS
    None = None
    alice = alice
    bob = bob
    deployer = deployer
    Stakers = {alice, bob}
    Admins = {deployer}
    Deployer = deployer
    RewardCycles = {1}
    BondIndexes = {}
    MaxBips = 10
    DustLimit = 0
    Fees = {0, 3}
    MaxFees = {}
    Rewards <- OneOrBoth
    EmptyPulls = FALSE
    MaxCalculated = 2
    MaxRequests = 0
INVARIANTS
    NewRewardsPayTheNewFee
