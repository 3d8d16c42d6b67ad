SPECIFICATION FairClaims
CONSTANTS
  w1 = w1
  w2 = w2
  r1 = r1
  r2 = r2
  e1 = e1
  e2 = e2
  v1 = v1
  v2 = v2
  v3 = v3
  x = x
  y = y
  c1 = c1
  c2 = c2
  c3 = c3
  q1 = q1
  q2 = q2
  p1 = p1
  p2 = p2
  None = None
  Workers = {w1, w2}
  Requests = {r1, r2}
  expiresAt <- MCExpiresAt
  MaxTime = 2
  MaxCrashes = 1
  Engines = {e1, e2}
  validatorIds = {v1, v2, v3}
  Faulty = {v3}
  Claims = {x, y}
  Threshold = 2
  Workflows <- MCWorkflows
  Labels = {v1, v2, v3}
  MaxSignatures = 3
  MaxDeaths = 1
  Clients = {c1, c2, c3}
  Fingerprints = {q1, q2}
  Responses = {p1, p2}
  MaxResends = 3
CHECK_DEADLOCK FALSE
INVARIANTS
  CommittedAsClaimed
  OneAnswer
  AppliedIsFinal
  ToldTheSame
  AnswersAgree
PROPERTIES
  EveryClaimEnds
