SPECIFICATION Spec
CONSTANTS
  Steps <- AllSteps
  Tools <- AllTools
  Journalled <- WithLog
  Runs <- HowOften
  Plan <- RunOf
  Fatals <- OneOrTwo
  Late = {}
  LogMayFail = TRUE
  MaxFailures = 1
  NoTool = NoTool
  NoStep = NoStep
  NoLine <- EmptyLog
INVARIANTS NamesTheStep
CHECK_DEADLOCK FALSE
