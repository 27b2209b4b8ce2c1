SPECIFICATION Spec
CONSTANTS
  k1 = k1
  k2 = k2
  k3 = k3
  Keys <- ThreeKeys
  Slots = 2
  MaxRevision = 4
SYMMETRY Symmetric
INVARIANTS AppliedOnce RetryRecovers
PROPERTIES CommandsKeepPromise
