SPECIFICATION LedgerSpec
CONSTANTS
  w1 = w1
  w2 = w2
  o1 = o1
  o2 = o2
  a1 = a1
  a2 = a2
  e1 = e1
  built = built
  jsonb = jsonb
  None = None
  Writers <- MCWriters
  Ops <- MCOps
  Assets <- MCAssets
  Evidence <- MCEvidence
  Amounts = {1, 2}
  Layouts = {jsonb, built}
SYMMETRY Symmetry
INVARIANTS
  SupplyIsBacked
  OneEffectPerOperation
  AcceptedIsStored
