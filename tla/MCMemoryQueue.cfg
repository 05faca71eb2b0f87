\* Two workers that may be late, a channel of two, one post more than it holds.
SPECIFICATION FairSpec
CONSTANTS
  Worker = {w1, w2}
  Capacity = 2
  TTR = 1
  MaxPosts = 4
  NoJob = NoJob
INVARIANTS
  TypeOK
  OnePlace
  NothingLost
PROPERTIES
  EventuallyFinished
  ImplementsWorkQueue
