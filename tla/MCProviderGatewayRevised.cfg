CONSTANTS
  m0 = m0
  m1 = m1
  t1 = t1
  t2 = t2
  Tasks = {t1, t2}
  Gateway = gateway
  Workers = {gateway}
  Pids = {p1, p2}
  input = input
  artifact = artifact
  Inputs <- InputsMC
  Outputs <- OutputsMC
  InputDigest <- DigestMC
  Tokens <- TokensMC
  Usages <- UsagesMC
  Scopes <- ScopesMC
  Auths <- Revised
  History <- NoHistory
  None = None
  MaxTokens = 2
SPECIFICATION Spec
SYMMETRY Symmetry
PROPERTIES FitsTheLedger
