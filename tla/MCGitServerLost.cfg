\* Two first requests for one repository, one of which is cancelled.
SPECIFICATION FairSpec
CONSTANTS
  Request = {r1, r2}
  MaxPushes = 1
  MaxFaults = 1
PROPERTY PushedStays
