SPECIFICATION Spec
CONSTANTS
  N = 2
  Tasks = {1, 2}
  TitleIn <- OwnTitles
  Engines <- Claude
  NoResume = FALSE
  Faults = {}
  Interrupts = FALSE
  MaxRuns = 1
PROPERTIES CommitsAreVerified
CHECK_DEADLOCK FALSE
