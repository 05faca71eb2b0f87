\* One git server that posts three jobs, two workers that respect the TTR, and
\* two faults anywhere.
SPECIFICATION FairSpec
CONSTANTS
  Poster = {p1}
  Worker = {w1, w2}
  MaxPosts = 3
  TTR = 2
  MaxFaults = 2
  Punctual = TRUE
  NoJob = NoJob
  FinishedMark = FinishedMark
  ExpiredMark = ExpiredMark
INVARIANTS
  TypeOK
  UniqueEntries
  NothingLost
  ExclusiveRun
  FinishedStaysGone
PROPERTIES
  EventuallyFinished
  ImplementsWorkQueue
