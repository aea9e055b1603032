SPECIFICATION Spec
CONSTANTS
  f1 = f1
  f2 = f2
  Files = {f1}
  Calls <- SomeCalls
  Repos <- SomeRepos
  Leaves = {"unsafe"}
  MaxKids = 2
  MaxRounds = 2
INVARIANTS TypeOK TimedOutGroupIsGone PassIsEarned QuietPassIsClean TestsCannotSlipUnsafe
PROPERTIES VerificationEnds
CHECK_DEADLOCK FALSE
