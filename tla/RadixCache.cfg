SPECIFICATION Spec
CONSTANTS
  None = None
  Clients = {c1, c2}
  Pages = {1, 2, 3, 4, 5}
  Inputs <- MCInputs
  MaxClock = 5
INVARIANT TypeOK
INVARIANT RefsCountHolders
INVARIANT CountersExact
INVARIANT EvictDelivers
PROPERTY ImplementsPrefixCache
PROPERTY HeldStays
CHECK_DEADLOCK FALSE
