SPECIFICATION FairSpec
CONSTANTS
  k1 = k1
  k2 = k2
  k3 = k3
  k4 = k4
  None = None
  Procs = {p1, p2}
  Keys = {k1, k2, k3, k4}
  Casts <- MCCasts
  SourceIds = {1, 2, 3}
  Activities = {a1}
  Classes = {0, 1}
  SpaceClass = 0
  MaxScalars = 2
INVARIANTS
  EvidenceStands
  ChainsAreLinear
  
  EffectsAreAsAsked
  RetriesAreAnswered
  SuggestionsAreProposable
PROPERTIES
  CommandsEnd
CHECK_DEADLOCK FALSE
