SPECIFICATION Spec
CONSTANTS
  o1 = o1
  c1 = c1
  c2 = c2
  k0 = k0
  k1 = k1
  k2 = k2
  a1 = a1
  r1 = r1
  r2 = r2
  None = None
  CreatedKey = k0
  Ops <- MCOps
  Clients <- MCClients
  Keys <- MCKeys
  Targets <- MCTargets
  Versions <- MCVersions
  AttemptKeys <- MCAttemptKeys
  Attempts <- MCAttempts
SYMMETRY Symmetry
INVARIANTS
  ChainIntact
  OneTransitionPerKey
  AcknowledgedIsRecorded
  PolicyGate
PROPERTIES
  ImplementsOperationLog
