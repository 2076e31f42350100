CONSTANTS
  NActions = 8
  Deps <- MCDeps
  Pilots = {4, 5, 6, 7, 8}
  Stride <- MCStride
  Inputs = {1, 2}
  DomainDecomp = {}
  Biases = {4}
  UpdateIfBegin = {5}
  UpdateIfEnd = {7, 8}
  MaxStep = 3
  MaxCycles = 2
  OldNatoms = 0

SPECIFICATION MCFairSpec
INVARIANT TypeOK
INVARIANT ForcesExact
INVARIANT CalculatedAfterDeps
INVARIANT OldForcesExact
INVARIANT OldCalculatedAfterDeps
PROPERTIES
  ImplementsSchedule
  OldImplementsSchedule
