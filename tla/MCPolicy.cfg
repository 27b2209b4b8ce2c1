SPECIFICATION FairSpec
CONSTANTS
  Clients = {c1, c2}
  Buttons <- AllButtons
  MaxLevel = 2
  TimeoutMin = 2
  TimeoutMax = 3
  DryPeriods = 2
  LocalPeriods = 2
  MaxTickGap = 1
INVARIANTS FaultMeansOff OffMeansCold HeatIsRenewed
PROPERTIES ChangeIsRevised LinkLossNeedsLease HeatKeepsPromise HeatEnds
