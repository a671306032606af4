SPECIFICATION Spec
CONSTANTS
    None = None
    mainnet = mainnet
    testnet = testnet
    registry = registry
    fork = fork
    node1 = node1
    node2 = node2
    alice = alice
    known = known
    Configs <- MCConfigs
    DefaultConfig <- MCDefault
    Stakers = {alice}
    Managers = {known}
    Contracts = {known}
    Accounts = {alice}
    TypedCycles = {}
    TypedCounts = {2}
    MaxClaimInstallments = 1
    Fee <- MCFee
    Trait <- MCTrait
    Bond <- MCBond
    Stake <- MCStake
    k1 = k1
    k2 = k2
    CallIds = {k1, k2}
SYMMETRY Interchangeable
INVARIANTS
    RegisteredManagerSupportsTrait
    CachedFeeIsOfItsScope
CONSTRAINT TwoConfigurations
