\* Two locks whose ticks may be late for any time.
SPECIFICATION Spec
CONSTANTS
  Node = {n1, n2}
  NoNode = NoNode
  Expiration = 2
  Period = 1
  Punctual = FALSE
  MaxFaults = 0
INVARIANT SignalIsCurrent
