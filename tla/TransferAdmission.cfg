SPECIFICATION AdmissionSpec
CONSTANTS
  None = None
  i1 = i1
  i2 = i2
  l1 = l1
  c1 = c1
  c2 = c2
  v1 = v1
  v2 = v2
  u1 = u1
  u2 = u2
  f1 = f1
  n1 = n1
  n2 = n2
  a1 = a1
  r1 = r1
  h1 = h1
  k1 = k1
  k2 = k2
  d1 = d1
  d2 = d2
  Identities = {i1, i2}
  Locators = {l1}
  Challenges = {c1, c2}
  Callers = {v1, v2}
  MaxBindings = 3
  MaxTime = 2
  Versions = {u1, u2}
  Definitions <- MCDefinitions
  Inputs <- MCInputs
  Preflights = {f1}
  NetworkIds = {n1, n2}
  AssetIds = {a1}
  RepresentationIds = {r1}
  ChainIds = {h1}
  Capabilities = {k1, k2}
  Discoveries = {d1, d2}
CHECK_DEADLOCK FALSE
INVARIANTS
  OneActiveBinding
  DecisionsAreReproducible
  EffectiveIsEvidenced
