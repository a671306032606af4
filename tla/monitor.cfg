SPECIFICATION CallsSpec
CONSTANTS
  s1 = s1
  s2 = s2
  bad = bad
  o1 = o1
  o2 = o2
  Scripts = {s1, s2, bad}
  Unparsable = {bad}
  Configured = {s1}
  Outs = {o1, o2}
  ScriptOf <- MCScriptOf
  LockTime <- MCLockTime
  MaxIds = 1
  MaxU64 = 5
  CacheSize = 1
  StartRegistry <- MCRegistry
  StartChain <- MCChain
  MaxEvents = 3
  MaxFaults = 1
INVARIANTS SyncedAreMonitored
PROPERTIES ImplementsMonitor RequestsAreExact DepositsReachEmily
