SPECIFICATION Spec
SYMMETRY Symmetry
CONSTANTS
  q1 = q1
  m1 = m1
  None = None
  Tasks = {q1, r1, m1}
  Proposals = {q1}
  Reviews = {r1}
  Dimensions = {d1}
  CandidatesOf <- MCCandidatesOf
  PublishTask <- MCPublishTask
  InputDigest <- MCInputDigest
  Workers = {w1}
  Worker = w1
  Pids = {p1, p2}
  Inputs = {i1}
  Outputs = {o1}
  MaxTokens = 4
PROPERTY
  RefreshMonotone
