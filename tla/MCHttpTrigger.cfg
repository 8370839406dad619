\* Two requests with every body, method, params and model answer.
CONSTANTS
  Requests = {r1, r2}
  NoId = noId
SPECIFICATION FairSpec
INVARIANTS
  StreamTellsOneStory
  JsonRpcUnlessStreamed
  HInv
PROPERTIES
  EveryRequestAnswered
CHECK_DEADLOCK FALSE
