SPECIFICATION FairSpec
CONSTANTS
  Images <- MCImages
  Size <- MCSize
  Brands = {"avm", "tcom"}
  MaxFaults = 1
  Firmware <- MCFirmware
  Clicks = 2
INVARIANTS
  InSync
PROPERTIES
  AcceptedIsWhole
  FlashedAsAsked
  SessionEnds
CHECK_DEADLOCK FALSE
