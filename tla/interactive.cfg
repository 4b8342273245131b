SPECIFICATION FairSpec
CONSTANTS
  MinDelay = 2
  Refresh = 3
  Startup = 8
  MaxWork = 4
  ConnectBy = 3
  ArmPoses <- MCArmPoses
  WorldPoses <- MCWorldPoses
  Points <- MCPoints
  Contacts <- MCContacts
INVARIANTS TypeOK TimerRunsWhenNeeded RateLimited MarkersMatch
PROPERTY LastDragShown
