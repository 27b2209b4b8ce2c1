SPECIFICATION Spec
CONSTANTS
  Order <- ThreeKeys
  Capped <- Targets
  Groups <- Modes
  MaxLevel = 2
  Default = 2
  Ceilings = {1, 2}
  TopCeiling = 2
  MayFail = {"read", "write"}
INVARIANTS NothingForgotten NoLostWake
PROPERTY RememberedIsApplicable
