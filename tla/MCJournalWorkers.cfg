SPECIFICATION WorkersSpec
SYMMETRY Symmetry
CONSTANTS
  None = None
  Tasks = {t1, t2}
  Workers = {w1}
  Pids = {p1, p2}
  Inputs = {i1, i2}
  Outputs = {o1}
  MaxTokens = 3
INVARIANTS
  WorkersTypeOK
  RowMatchesAttempt
  LiveHolderNotFenced
  LocalCommitAccepted
PROPERTIES
  TerminalImmutable
  ImplementsOnceOnly
