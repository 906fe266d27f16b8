SPECIFICATION FairSpec
CONSTANTS
  PackIDs = {p1}
  MaxOffers = 2
  MaxPops = 1
  MaxActive = 1
  HeadlessResourcePacks = TRUE
  Cancellable = {"Configuration"}
  PeerFaults = {"stalled", "gone"}
INVARIANTS TypeOK ConversationsAreWellFormed DownloadsBounded StatusUsesWirePhase QuietAfterStop
PROPERTIES NoStaleReply StopReturns ReaderNotDelayed AcceptedIsAnswered
\* Everything stops when the session is over.
CHECK_DEADLOCK FALSE
