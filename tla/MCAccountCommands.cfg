SPECIFICATION FairSpec
CONSTANTS
  p1 = p1
  p2 = p2
  k1 = k1
  k2 = k2
  none = none
  None = none
  Procs <- MCProcs
  Spaces <- MCSpaces
  Root = 1
  Home = 2
  Other = 3
  Grants <- MCGrants
  Keys <- MCKeys
  Casts <- MCCasts
  Ceiling = 0
  MaxChanges = 2
  MaxRuns = 2
INVARIANTS
  CommitsAreAuthorized
  GoverningSpaceHolds
  RefusalsAreDue
  ChildSpacesAreComplete
PROPERTIES
  TransactionsEnd
