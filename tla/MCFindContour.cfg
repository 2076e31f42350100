CONSTANTS
  Rank = 2
  NBin <- MCNBin
  Periodic <- MCPeriodic
  Values <- MCValues

SPECIFICATION Spec
INVARIANT TypeOK
INVARIANT IndexRestored
INVARIANT TasksMatchReference
