CONSTANTS
  mdcode = mdcode
  gromacs = gromacs
  Engines <- MCEngines
  DefaultEngine = mdcode
  NatomsValues = {0, 2}
  DatLines <- MCDatLines
  OldMaxClears = 2
SPECIFICATION MCSpec
PROPERTY ClearKeepsMDInputs
