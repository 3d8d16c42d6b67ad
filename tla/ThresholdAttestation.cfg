SPECIFICATION Spec
CONSTANTS
  v1 = v1
  v2 = v2
  v3 = v3
  s1 = s1
  s2 = s2
  x = x
  y = y
  None = None
  Validators = {v1, v2, v3}
  Faulty = {v3}
  SetIds = {s1, s2}
  Contents = {x, y}
  Candidates <- MCCandidates
  Attestations <- MCAttestations
  MaxSignatures = 2
  MaxTime = 2
CHECK_DEADLOCK FALSE
SYMMETRY Symmetry
INVARIANTS
  SatisfiedIsFinal
  OneSetJudges
