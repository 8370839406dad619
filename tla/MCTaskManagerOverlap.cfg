\* Requests of several clients that overlap on the same task.
CONSTANTS
  Requests = {r1, r2}
  Nobody = nobody
  TaskIds = {t1, t2}
  NoId = noId
  MaxItems = 2
  AgentFaults = {"raise", "exhaust"}
SPECIFICATION Spec
SYMMETRY Symmetry
INVARIANTS
  IInv
  StoreInv
  SubscribersExact
  DeliveredInOrder
  OwnUpdatesComplete
  AnnouncedIsStored
  QuestionBeforeAnswers
  NoOrphanWaiter
  SettledUnlessFailed
PROPERTIES
  TasksOnlyGrow
  ImplementsTopic
CHECK_DEADLOCK FALSE
