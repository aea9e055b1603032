SPECIFICATION Spec
CONSTANTS
  N = 2
  Tasks = {1, 2}
  TitleIn <- OwnTitles
  Engines <- Claude
  NoResume = FALSE
  Faults = {}
  Interrupts = FALSE
  MaxRuns = 2
INVARIANTS SkipsOnlyMergedWork
CHECK_DEADLOCK FALSE
