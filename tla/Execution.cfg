SPECIFICATION FairSpec
CONSTANTS
  Contents = {"c1", "c2", "text"}
  Invalid = {"text"}
  Hosts = {"h1", "h2"}
  Versions = {"v1", "v2"}
  VersionOf <- TwoVersions
  Jobs = {"local", "pulled", "direct"}
  HostOf <- ThreeHostOf
  Leftover <- LeftGarbage
  Garbage = "garbage"
  Cap = 1
  MaxFaults = 1
  Paths = {"hello", "tmp"}
  Temporary = {"tmp"}
  PathOf <- ThreePathOf
  Direct = {"direct"}
  Pin <- ThreePin
  Spin = {"local"}
  Calls = {"local", "direct"}
  Deadline = 1
  Together <- InPairs
  MaxRewrites = 1
INVARIANTS
  CacheSound
  FailsOnlyOverForeign
  PinnedUnlessMoved
PROPERTIES
  ExecutionsEnd
CHECK_DEADLOCK FALSE
