\* Two overlapping streams of one task: does each end with its own run?
CONSTANTS
  Requests = {r1, r2}
  Nobody = nobody
  TaskIds = {t1}
  NoId = noId
  MaxItems = 2
  AgentFaults = {}
SPECIFICATION Spec
INVARIANTS
  StreamEndsWithOwnRun
CHECK_DEADLOCK FALSE
