SPECIFICATION Spec
CONSTANTS
  Lead <- ShortLead
  Duration <- AnyDuration
  MaxDelay = 2
  MaxTime = 7
  MaxFaults = 0
  MaxStops = 1
CHECK_DEADLOCK FALSE
INVARIANT UpcomingAuctionArmed
