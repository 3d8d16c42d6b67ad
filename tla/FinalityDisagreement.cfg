SPECIFICATION Spec
CONSTANTS
  b1 = b1
  b2 = b2
  b3 = b3
  v1 = v1
  v2 = v2
  x = x
  y = y
  o1 = o1
  o2 = o2
  None = None
  Observers = {o1, o2}
  Blocks = {b1, b2, b3}
  Reverted = {b3}
  Networks <- MCNetworks
  MaxDepth = 2
  MaxReorg = 2
  MaxAttempts = 2
  Validators <- MCValidators
  Faulty = {v2}
  Claims = {x, y}
  claimsOf <- MCClaimsOf
  Threshold = 2
CHECK_DEADLOCK FALSE
SYMMETRY Symmetry
INVARIANT DisagreementIsUncertain
