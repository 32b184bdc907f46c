SPECIFICATION FairSpec
CONSTANTS
  NumNodes = 3
  NumSketches = 2
  Pairs <- AllPairs
  BackupInMem = TRUE
  Saves = TRUE
  PointResumes = FALSE
INVARIANTS
  TypeOK
  AnswerIsCorrect
  DSUIsCurrent
  SupernodesRestored
PROPERTY
  QueryReturns
