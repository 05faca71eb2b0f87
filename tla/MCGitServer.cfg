\* Three requests at a time, two pushes, two faults anywhere.
SPECIFICATION FairSpec
CONSTANTS
  Request = {r1, r2, r3}
  MaxPushes = 2
  MaxFaults = 2
INVARIANTS
  TypeOK
  EveryPushPosted
  
PROPERTIES
  SettledStays
  
