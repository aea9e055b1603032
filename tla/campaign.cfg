SPECIFICATION Spec
CONSTANTS
  a = a
  b = b
  c = c
  f1 = f1
  f2 = f2
  f3 = f3
  f4 = f4
  Specs = {a, b, c}
  Files = {f1, f2, f3, f4}
  Place <- Places
  Lines <- TheLines
  Tasks <- TheTasks
  TitleIn <- TheTitles
  Hints <- TheHints
  Stem <- OwnStems
  Template = 1
  Budgets <- TheBudgets
  MaxDepth = 3
  Options <- SomeOptions
  Hosts <- SomeHosts
  Found <- SomeFound
  Sizes <- SomeSizes
  Ledgers <- SomeLedgers
  Faults = {}
INVARIANTS TypeOK ExitZeroMeansBuilt KeysSeenBeforeCycle NoCallAfterExecuteLimit PiecesTileTheSpec SuccessClosesEveryBox
PROPERTIES CampaignEnds
CHECK_DEADLOCK FALSE
