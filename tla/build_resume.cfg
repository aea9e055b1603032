SPECIFICATION Spec
CONSTANTS
  N = 2
  Tasks = {1, 2}
  TitleIn <- OddTitles
  Engines <- HuggingFace
  NoResume = FALSE
  Faults = {"stage", "commit", "mark", "save", "clean", "checkout"}
  Interrupts = TRUE
  MaxRuns = 2
INVARIANTS TypeOK MergedHasCommit CompleteMeansAllMerged EveryMarkPaidByACommit
PROPERTIES LedgerPromise
CHECK_DEADLOCK FALSE
