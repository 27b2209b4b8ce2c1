SPECIFICATION FairDeviceSpec
CONSTANTS
  Slot = {ota_0, ota_1}
  Debounce = 2
  LongTicks = 2
  Items = {offset}
  Limit = 1
  Default = 0
INVARIANTS OwnFirmwareRuns PressIsAnswered ReportedIsKept
PROPERTIES EventsAreEarned RecoversFromBadImage
