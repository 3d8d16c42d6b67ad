SPECIFICATION ContractsSpec
CONSTANTS
  o1 = o1
  o2 = o2
  a1 = a1
  t1 = t1
  t2 = t2
  None = None
  Ops = {o1, o2}
  Assets = {a1}
  Amounts = {1, 2}
  Addresses = {1, 2, 3}
  Faulty = {3}
  Windows <- MCWindows
  MaxTime = 2
  MaxSignatures = 2
  Reserve = 2
  Operations = {o1, o2}
  Terms = {t1, t2}
  MaxIntents = 2
  MaxAttestations = 1
  MaxLedgerTime = 2
CHECK_DEADLOCK FALSE
SYMMETRY Symmetry
INVARIANTS
  ExecutedAsObserved
  OutflowIsObserved
  ReleasedAsAttested
