\* Two workers, three pushes to a blog of three pages, two faults anywhere.
SPECIFICATION FairSpec
CONSTANTS
  Worker = {w1, w2}
  MaxPushes = 3
  Pages <- MCPages
  NoJob = NoJob
  MaxFaults = 2
INVARIANTS
  TypeOK
  FreshEnough
  WholeSite
PROPERTIES
  NoStepBack
  EventuallyRendered
CHECK_DEADLOCK FALSE
