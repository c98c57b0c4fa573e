SPECIFICATION Spec
CONSTANTS
  Jobs = {"a", "b"}
  Names = {"api"}
  Ips = {"ip4", "short6", "long6"}
  V6 = {"short6", "long6"}
  Respelled <- Misreadings
  Ports = {443, 80}
  Any = 0
  None = "none"
  Allow <- TwoLists
  TTL = 1
  MaxLookup = 1
  MaxTime = 3
  MaxChanges = 1
INVARIANTS
  AllowHonoured
  CacheTruthful
CHECK_DEADLOCK FALSE
