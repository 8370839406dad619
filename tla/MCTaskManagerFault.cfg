\* An agent that may raise: is the task left in WORKING?
CONSTANTS
  Requests = {r1, r2}
  Nobody = nobody
  TaskIds = {t1}
  NoId = noId
  MaxItems = 2
  AgentFaults = {"raise"}
SPECIFICATION Spec
INVARIANTS
  QuietTaskSettled
CHECK_DEADLOCK FALSE
