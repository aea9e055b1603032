SPECIFICATION Spec
CONSTANTS
  Specs = {1, 2}
  Boxes <- TwoAndTwo
  Main = main
  AutoBuild = auto_build
  SpecOne = spec_1
  SpecTwo = spec_2
  SpecBranch <- TwoSpecBranches
  Parts = {part_a, part_b}
  NoPr = NoPr
  Cap = 1
  LocCap = 3
  Continuous = TRUE
  Faults = {"checkout", "probe", "push", "count", "forge"}
  MaxCycles = 2
SYMMETRY SameParts
INVARIANTS TypeOK PrNumberIsOurs RunKeepsItsWork WorkIsUnderReview
PROPERTIES ReviewPromise
CHECK_DEADLOCK FALSE
