\* Two locks with punctual masters and one fault anywhere.
SPECIFICATION FairSpec
CONSTANTS
  Node = {n1, n2}
  NoNode = NoNode
  Expiration = 3
  Period = 2
  Punctual = TRUE
  MaxFaults = 1
INVARIANTS
  TypeOK
  LeaseBehindMaster
  MutualExclusion
PROPERTIES
  AlwaysAMaster
  StoppedLetsGo
