SPECIFICATION Spec
CONSTANTS
  None = None
  acme = acme
  alias = alias
  other = other
  blob1 = blob1
  blob2 = blob2
  f1 = f1
  f2 = f2
  c1 = c1
  Processes = {p1, p2}
  FileName <- FileNameVal
  Fields <- FieldsVal
  Cutoff <- CutoffVal
  Offset <- OffsetVal
  NaPolicy <- NaPolicyVal
  Supported <- SupportedVal
  Acceptable <- AcceptableVal
  Requests <- RequestsRace
  Sources <- SourcesRace
  Files = {f1}
  Imported <- ImportedVal
  Evidence <- EvidenceRace
  ReviewForms <- ReviewFormsVal
  MaxTimes = 2
  MaxBodies = 2
  MaxVersions = 2
  MaxMappings = 2
SYMMETRY Symmetry
INVARIANT EqualDigestEqualStatus
CHECK_DEADLOCK FALSE
