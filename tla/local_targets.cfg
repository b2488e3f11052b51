SPECIFICATION Spec
CONSTANTS
  t1 = t1
  t2 = t2
  t3 = t3
  default = default
  other = other
  absent = absent
  Threads <- TwoThreads
  Paths <- TwoPaths
  Missing <- NonePath
  CountSpace = 8
  MaxOpens = 2
  MaxPlain = 0
  MaxExits = 0
INVARIANTS
  OneTargetAtATime
