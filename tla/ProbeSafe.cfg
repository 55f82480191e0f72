SPECIFICATION Spec
CONSTANTS
  Steps <- AllSteps
  Tools <- AllTools
  Journalled <- WithLog
  Runs <- HowOften
  Plan <- RunOf
  Fatals <- OneOrTwo
  Late = {}
  LogMayFail = FALSE
  MaxFailures = 1
  NoTool = NoTool
  NoStep = NoStep
  NoLine <- EmptyLog
INVARIANTS TypeOK NamesTheStep Just OneNewStep
PROPERTIES Diagnosed
CHECK_DEADLOCK FALSE
