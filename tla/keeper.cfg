SPECIFICATION CallsSpec
CONSTANTS
  None = None
  c1 = c1
  c2 = c2
  c3 = c3
  c4 = c4
  c5 = c5
  w1 = w1
  sm1 = sm1
  sm2 = sm2
  alice = alice
  bob = bob
  carol = carol
  dora = dora
  secret = secret
  claimsContract = claimsContract
  Claims = {c1, c2, c3, c4, c5}
  Withdrawals = {w1}
  Managers = {sm1, sm2}
  ManagerOf <- MCManagerOf
  Registered <- MCRegistered
  StakerOf <- MCStakerOf
  RequestIdOf <- MCRequestIdOf
  Bonded = {c2}
  Registry = claimsContract
  PrivateKey = secret
  ChainId = 1
  PageTicks = 2
  MaxBatch = 2
  MaxEvents = 1
  MaxFaults = 1
INVARIANTS NoNonceGap BatchesCoverView
PROPERTIES ImplementsKeeper AcknowledgedIsKept CatchesUp
