SPECIFICATION FairSpec
CONSTANTS
  Modulus = 26
  Period = 3
  BodyMax = 4
  WdtTimeout = 8
  StormMax = 1
INVARIANTS TickIsDue WatchdogSparesHealthy WakeIsPrompt
PROPERTIES NoBurst HungHeatEnds
