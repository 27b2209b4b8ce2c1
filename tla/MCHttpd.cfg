SPECIFICATION FairHttpdSpec
CONSTANTS
  Keys = {k1}
  Slots = 1
  MaxRevision = 3
  Streams = {c1, c2}
  MaxClients = 1
INVARIANTS SlotsAccounted SentIsReceived
PROPERTY StreamCatchesUp
