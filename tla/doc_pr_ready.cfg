SPECIFICATION Spec
CONSTANTS
  Specs = {1, 2}
  Boxes <- TwoAndOne
  Main = main
  AutoBuild = auto_build
  SpecOne = spec_1
  SpecTwo = spec_2
  SpecBranch <- TwoSpecBranches
  Parts = {part_a, part_b}
  NoPr = NoPr
  Cap = 8
  LocCap = 400
  Continuous = FALSE
  Faults = {}
  MaxCycles = 1
PROPERTIES ReadyByOwnSpec
CHECK_DEADLOCK FALSE
