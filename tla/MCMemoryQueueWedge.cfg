\* The omnibus binary: one worker, and a channel that fills up.
SPECIFICATION FairSpec
CONSTANTS
  Worker = {w1}
  Capacity = 1
  TTR = 1
  MaxPosts = 2
  NoJob = NoJob
PROPERTY PutBackEnds
