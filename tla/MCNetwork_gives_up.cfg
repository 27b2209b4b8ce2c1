SPECIFICATION FairSpec
CONSTANTS
  MaxRetries = 1
  Beds = {"cold"}
  MaxInFlight = 1
PROPERTY GaveUpFallsBack
