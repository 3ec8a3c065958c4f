\* Two tasks publish into one directory: two moves, or an export and a renamed move.
SPECIFICATION FairSpec
CONSTANTS
  Tasks = {1, 2}
  Jobs <- Pairs
  Retries = 1
  Policy = "fail"
  MaxPlaces = 5
  MaxFaults = 1
  MaxCrashes = 1
  MaxRetries = 1
  MaxPasses = 2
INVARIANT NothingLost PublishedOnce
PROPERTY NothingOverwritten CleanedWhenOver WorkersFinish
CHECK_DEADLOCK FALSE
