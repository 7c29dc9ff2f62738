CONSTANTS
  m0 = m0
  m1 = m1
  t1 = t1
  t2 = t2
  Tasks = {m0, m1, t1, t2}
  Gateway = gateway
  Workers = {gateway}
  Pids = {p1, p2}
  input = input
  artifact = artifact
  Inputs <- InputsMC
  Outputs <- OutputsMC
  InputDigest <- DigestMC
  Tokens <- TokensMC
  Usages <- UsagesMC
  Scopes <- ScopesMC
  Auths <- AuthsMC
  History <- HistoryMC
  None = None
  MaxTokens = 4
SPECIFICATION Spec
SYMMETRY Symmetry
INVARIANTS TypeOK AskedUnderReservation LedgerFollowsJournal SpendWithinCaps
PROPERTIES FitsTheLedger RowsSettleOnce
