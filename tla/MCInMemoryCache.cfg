\* Two threads create the cache and use two keys over three ticks.
CONSTANTS
  Threads = {th1, th2}
  Keys = {k1, k2}
  Values = {v1, v2}
  Ttls = {0, 1}
  Absent = absent
  Never = never
  Nobody = nobody
  NoLock = noLock
  MaxTime = 2
SPECIFICATION Spec
INVARIANTS
  CInv
  Singleton
  ReadyIsInitialized
  ExpiryHasValue
PROPERTIES
  ImplementsCache
