SPECIFICATION FairSpec
CONSTANTS
  Base = 2
  MaxVarIntBytes = 6
  SignBit = 16
  MaxPacketSize = 8
  Thresholds = {0, 2}
  Requests = {"ping", "pack"}
  Faults = {"refuse", "stop", "close", "garble", "cancel"}
INVARIANTS NoSplice
PROPERTIES UpIsChannel DownIsChannel ConnectEnds
CHECK_DEADLOCK FALSE
