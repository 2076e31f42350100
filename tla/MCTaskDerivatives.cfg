CONSTANTS
  Mcv = m
  St = st
  m = m
  st = st
  NAtoms = 3
  NBlocks = 4
  NComp = 2
  CompBlocks <- MCCompBlocks
  BoxNoPbc <- MCBoxNoPbc
  G <- MCG
  Pos <- MCPos
  NTasks = 2
  NArgs = 3
  FD <- MCFD
  ArgLists <- MCArgLists
SPECIFICATION MCSpec
INVARIANTS
  SparsePatternSound
  VirialFromDistinctAtoms
  ChainRuleExact
  NonChainDerivativesExact
