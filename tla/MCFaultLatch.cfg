SPECIFICATION FairSpec
CONSTANTS
  Clients = {httpd, button}
  OverTemp = {ptc_overtemp}
  ArmedTrip = {link_lost}
INVARIANTS FlashLatchHolds HazardIsDurable
PROPERTIES InhibitIsPermanent LatchKeepsPromise DeferredPersistLands
