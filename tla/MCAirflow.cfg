SPECIFICATION Spec
CONSTANTS
  LatchC = 40
  ReleaseC = 37
  Window = 2
  Blind = Blind
  Temps <- ThreeTemps
INVARIANTS PurgeIsOwed GateIsAccounted
PROPERTIES NeverOnTemperatureAlone
