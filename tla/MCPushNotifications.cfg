\* Two runs with two notifications each, one restart of the server.
CONSTANTS
  Runs = {r1, r2}
  PostTimeout = 1
  Freshness = 2
  MaxUpdates = 2
  MaxRestarts = 1
SPECIFICATION FairSpec
INVARIANTS
  PInv
  OvertakenWasAbandoned
  AtMostOnce
PROPERTIES
  GoodOnesAreTaken
  PostsEnd
