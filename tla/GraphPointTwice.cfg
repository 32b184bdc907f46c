SPECIFICATION Spec
CONSTANTS
  NumNodes = 3
  NumSketches = 2
  Pairs <- AllPairs
  BackupInMem = TRUE
  Saves = FALSE
  PointResumes = TRUE
INVARIANTS
  AnswerIsCorrect
