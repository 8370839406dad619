\* Every call ends when requests overlap, under the fairness of the event loop.
CONSTANTS
  Requests = {r1, r2}
  Nobody = nobody
  TaskIds = {t1}
  NoId = noId
  MaxItems = 1
  AgentFaults = {"raise"}
SPECIFICATION FairSpec
PROPERTIES
  EveryCallEnds
CHECK_DEADLOCK FALSE
