SPECIFICATION FairSpec
CONSTANTS
  CallTime = 1
  LinkTime = 3
  MaxFails = 3
INVARIANTS TypeOK CommandsArrive BrieflyUnheld ReleasedAtEnd
PROPERTIES HandedOver Terminates CatchArrives
