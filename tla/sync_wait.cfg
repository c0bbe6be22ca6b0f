CONSTANTS
  g = g
  p = p
  x = x
  Blocks = {g, p, x}
  Links <- MCLinks
  Threads = {t1, t2}
  None = None
  MaxTrouble = 1
SPECIFICATION FairSpec
CHECK_DEADLOCK FALSE
INVARIANT NoneForgotten
PROPERTY AllEnter
