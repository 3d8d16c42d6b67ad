SPECIFICATION FairServices
CONSTANTS
  None = None
  w1 = w1
  w2 = w2
  k1 = k1
  k2 = k2
  s1 = s1
  s2 = s2
  x1 = x1
  x2 = x2
  c1 = c1
  c2 = c2
  i1 = i1
  a1 = a1
  a2 = a2
  e1 = e1
  p1 = p1
  p2 = p2
  p3 = p3
  b1 = b1
  v1 = v1
  g1 = g1
  g2 = g2
  r1 = r1
  r2 = r2
  t1 = t1
  t2 = t2
  d1 = d1
  d2 = d2
  d3 = d3
  Workers = {w1, w2}
  Keys = {k1, k2}
  items <- MCItems
  MaxCrashes = 2
  Senders = {s1, s2}
  Contents = {x1, x2}
  maxAttempts = 2
  MaxLosses = 1
  Reconcilers = {c1, c2}
  CheckIds = {i1}
  AssetIds = {a1, a2}
  supply <- MCSupply
  MaxDeaths = 1
  ControlIds = {e1}
  operators = {p1}
  admins = {p2, p3}
  Submitters = {b1}
  Values = {v1}
  MaxFailures = 1
  Executors = {g1, g2}
  Approvers = {p1, p2, p3}
  requiredApprovals = 2
  MaxClock = 2
  MaxSignings = 3
  Recorders = {r1, r2}
  Chains = {t1, t2}
  AuditIds = {d1, d2, d3}
  MaxCuts = 1
CHECK_DEADLOCK FALSE
INVARIANTS
  NothingSkipped
  DeliveriesAreSound
  StrayMintIsRecorded
  MeasuresHaveEvidence
  TrailIsTrue
  SignaturesAreSound
  HistoryIsWhole
PROPERTIES
  DutiesAreDone
