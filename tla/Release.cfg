SPECIFICATION FairReleaseSpec
CONSTANTS
  Series <- MCSeries
  Platforms <- MCPlatforms
INVARIANTS
  PublishedIsChecked
  LatestIsNewest
PROPERTIES
  AnnouncedInTheEnd
CHECK_DEADLOCK TRUE
