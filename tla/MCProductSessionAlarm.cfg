CONSTANTS
  Tasks = {t1}
  Workers = {w1}
  Pids = {p1, p2}
  ok = ok
  bad = bad
  input = input
  Inputs <- InputsMC
  Outputs <- EnvelopesMC
  Good <- GoodMC
  InputDigest <- DigestMC
  None = None
  MaxTokens = 1
SPECIFICATION Spec
SYMMETRY Symmetry
INVARIANTS NoFalseSealAlarm
