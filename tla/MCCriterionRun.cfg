SPECIFICATION Spec
CONSTANTS
  None = None
  acme = acme
  alias = alias
  other = other
  blob1 = blob1
  blob2 = blob2
  f1 = f1
  f2 = f2
  c1 = c1
  Processes = {p1}
  FileName <- FileNameVal
  Fields <- FieldsVal
  Cutoff <- CutoffVal
  Offset <- OffsetVal
  NaPolicy <- NaPolicyVal
  Supported <- SupportedVal
  Acceptable <- AcceptableVal
  Requests <- RequestsVal
  Sources <- SourcesVal
  Files = {f1, f2}
  Imported <- ImportedVal
  Evidence <- EvidenceVal
  ReviewForms <- ReviewFormsVal
  MaxTimes = 1
  MaxBodies = 2
  MaxVersions = 2
  MaxMappings = 2
INVARIANTS
  TypeOK
  SucceededIsSupported
  Reproducible
  PublishedKeepsVerifying
CHECK_DEADLOCK FALSE
