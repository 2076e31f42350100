CONSTANTS
  x = x
  y = y
  av = av
  Acts <- MCActs
  NComp <- MCNComp
  NDer <- MCNDer
  IsAverage <- MCIsAverage
  NVals <- MCNVals
  Rank0 <- MCRank0
  Constant <- MCConstant
  Ones <- MCOnes
  NArgs = 4
  ArgStart = 0
  Words <- MCWords
SPECIFICATION MCSpec
INVARIANT ForcesConsumeExactly
