CONSTANTS
  Calls = {c1, c2}
  MaxTime = 2
  Chars <- MCChars
  Globs <- MCGlobs
  Locations <- MCLocations
  Seeds <- MCSeeds
  MaxJobs = 2
  MaxRows = 4
  Results <- MCResults
  Sizes <- MCSizes
  MaxStatements = 2
  Width = 32
  MicroWidth = 1048576
  FractionDigits = 2
  KeyOrder <- MCKeyOrder

SPECIFICATION Spec
CHECK_DEADLOCK FALSE

INVARIANT LoadsOwnData
INVARIANT StagedFilesGo
INVARIANT TransfersReported
INVARIANT InsertedIsPrefix
INVARIANT FetchedInOrder
INVARIANT NoSilentLoss
INVARIANT EndIsComplete
INVARIANT FinalBeforeLast
INVARIANT TransportsAgree
INVARIANT IntervalsReadBack
INVARIANT ParamsBound
INVARIANT OptionsArrive
