SPECIFICATION Spec
CONSTANTS
  Steps <- AllSteps
  Tools <- AllTools
  Journalled <- WithLog
  Runs <- HowOften
  Plan <- RunOf
  Fatals <- OneOrTwo
  Late <- Submissions
  LogMayFail = FALSE
  MaxFailures = 1
  NoTool = NoTool
  NoStep = NoStep
  NoLine <- EmptyLog
INVARIANTS Just
CHECK_DEADLOCK FALSE
