SPECIFICATION FairSpec
CONSTANTS
  None = None
  a = a
  b = b
  Original = Original
  Local = Local
  Done = Done
  Paths = {a, b}
  Cases <- CasesVal
  Tasks <- IntakeTasks
  Workers = {Local}
  Pids = {p1, p2}
  Inputs <- InputsVal
  Outputs = {Done}
  MaxTokens = 4
  MaxTimes = 2
  MaxStamps = 2
INVARIANTS
  TypeOK
  SucceededIsStored
  RecordedOnce
  RepeatAccepted
PROPERTY
  CallsReturn
CHECK_DEADLOCK FALSE
