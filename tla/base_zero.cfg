SPECIFICATION BaseSpec
CONSTANTS
  Handlers = {t1}
  NodeRefs = {n1}
  RecordRefs = {r1}
  ContextSpace = 3
  MaxObjects = 4
  MaxCalls = 4
  MaxChanges = 0
INVARIANTS
  ZeroNeverUsed
CHECK_DEADLOCK FALSE
