SPECIFICATION Spec
CONSTANTS
  None = None
  acme = acme
  alias = alias
  blob1 = blob1
  f1 = f1
  f2 = f2
  c1 = c1
  unit = unit
  ann = ann
  Processes = {p1, p2}
  FileName <- FileNameVal
  Fields <- FieldsVal
  Cutoff <- CutoffVal
  Offset <- OffsetVal
  NaPolicy = None
  Supported = None
  Acceptable = None
  Source <- SourceVal
  Content <- ContentVal
  Criteria <- CriteriaVal
  Requests <- RequestsVal
  Files = {f1, f2}
  Imported <- ImportedVal
  Evidence <- EvidenceVal
  ReviewForms <- ReviewFormsVal
  Candidates <- CandidatesVal
  Responses <- ResponsesVal
  OverlayForms <- OverlayFormsVal
  MaxTimes = 1
  MaxBodies = 2
  MaxVersions = 1
  MaxResults = 1
SYMMETRY Symmetry
INVARIANTS
  TypeOK
  LevelIsRequalified
  PublishedKeepsTracing
  OutputIsOnRecord
  AuthorizedAsPublished
  AuthorizationStaysTrusted
PROPERTIES
  LevelHearsEveryReview
CHECK_DEADLOCK FALSE
