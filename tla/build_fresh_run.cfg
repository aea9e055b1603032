SPECIFICATION FairSpec
CONSTANTS
  N = 3
  Tasks = {2, 3}
  TitleIn <- OddTitles
  Engines <- ClaudeThenHF
  NoResume = TRUE
  Faults = {"list", "setup"}
  Interrupts = FALSE
  MaxRuns = 2
INVARIANTS FreshRunChecksEveryBox
PROPERTIES RevertedWorkNeverCommitted RunEnds
CHECK_DEADLOCK FALSE
