SPECIFICATION FairSpec
CONSTANTS
  MaxRetries = 1
  Beds = {"cold", "hot"}
  MaxInFlight = 2
INVARIANTS StateIsTruthful ScanIsAccounted CacheIsCurrent
PROPERTIES BootComesUp LinkFollowsStation
