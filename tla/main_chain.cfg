CONSTANTS
  g = g
  a = a
  b = b
  e = e
  c = c
  j = j
  d = d
  f = f
  h = h
  k = k
  m = m
  o = o
  Blocks = {g, a, b, e, c, j, d, f, h, k, m, o}
  None = None
  Time <- MCTime
  Work <- MCWork
  Fee <- MCFee
  Fields <- MCFields
  Ours <- MCOurs
  Modes = {TRUE, FALSE}
  Start = 8
  BigPeriod = 2
  PERIOD = 2
  QUARTER = 0
  WAIT = 1
  Word = 64
  MaxNow = 11
SPECIFICATION Spec
CHECK_DEADLOCK FALSE
INVARIANT ChainOnPath TopIsHeaviest Conserved LedgerIsReplay OursSorted NorefsExact
