\* Hosts that hold conversations of several turns with a failing agent.
CONSTANTS
  Clis = {h1, h2}
  Requests = {r1, r2, r3}
  Nobody = nobody
  TaskIds = {t1, t2}
  NoId = noId
  MaxItems = 2
  AgentFaults = {"raise"}
SPECIFICATION FairCliSpec
INVARIANTS
  CliTypeOK
  CliInv
  OneRunPerTask
  VerdictIsOwn
  TurnsAlternate
  PausedTaskIsKept
  StreamEndsWithOwnRun
  ReplyIsOwnResult
PROPERTIES
  FinalIsStored
  HostReturns
CHECK_DEADLOCK FALSE
