SPECIFICATION Spec
CONSTANTS
  Clients = {c1}
  Buttons <- AllButtons
  MaxLevel = 2
  TimeoutMin = 1
  TimeoutMax = 3
  DryPeriods = 2
  LocalPeriods = 2
  MaxTickGap = 1
PROPERTY NewerFaultIsRevised
