SPECIFICATION Spec
CONSTANTS
  Requests <- MCRequests
  Poses <- MCPoses
  Publishers <- MCPublishers
  Moves <- MCMoves
  Tol = 7
  Step = 3
  Gravity = 2
  Far = 24
  MaxCorrector = 24
  MaxCount = 2
INVARIANTS TypeOK ReleaseObeyed CarriedUntilTol
PROPERTY NearBlockIsTaken
