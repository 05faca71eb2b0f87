\* The same queue with workers that may still run a job when its TTR is over.
SPECIFICATION Spec
CONSTANTS
  Poster = {p1}
  Worker = {w1, w2}
  MaxPosts = 2
  TTR = 1
  MaxFaults = 0
  Punctual = FALSE
  NoJob = NoJob
  FinishedMark = FinishedMark
  ExpiredMark = ExpiredMark
INVARIANT FinishedStaysGone
