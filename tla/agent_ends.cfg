SPECIFICATION Spec
CONSTANTS
  MaxOut = 2
  MaxErr = 1
  Capacity = 1
  MaxInterrupts = 2
INVARIANTS TypeOK NoAgentLeft WatchdogMeansTimeout OutcomeIsTheAgents
PROPERTIES RunReturns NoPipeDeadlock
CHECK_DEADLOCK FALSE
