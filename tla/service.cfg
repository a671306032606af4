SPECIFICATION Spec
CONSTANTS
  s1 = s1
  s2 = s2
  Scripts = {s1, s2}
  Aliases = {"deposit.demo"}
  MaxTime = 2
  Sources <- MCSources
  Registered = {s2}
  MaxFaults = 2
INVARIANTS ValidatedSettingsSuffice
PROPERTIES LookupsCoverTheTip NothingImportedTwice OutputsAreSeen
