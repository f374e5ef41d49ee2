SPECIFICATION FairSpec
CONSTANTS
  Lead <- AnyLead
  Duration <- AnyDuration
  MaxDelay = 2
  MaxTime = 7
  MaxFaults = 2
  MaxStops = 2
\* A completed auction leaves nothing to do.
CHECK_DEADLOCK FALSE
INVARIANTS
  AnnouncedOnceInOrder
  ActiveAuctionArmed
PROPERTIES
  ActiveAuctionCompletes
  ArmedAuctionStarts
