SPECIFICATION Spec
CONSTANTS
  NumNodes = 4
  NumSketches = 3
  Pairs <- CyclePairs
  BackupInMem = FALSE
  Saves = FALSE
  PointResumes = FALSE
INVARIANTS
  AnswerIsCorrect
  SupernodesRestored
  RootSketchesAreCuts
  ParallelMergeSafe
  EnoughSketches
  BackupIsThere
