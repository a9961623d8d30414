\* Three reads, one of which outlives the shutdown, and a crash; every await ends.
SPECIFICATION FairSpec
CONSTANTS
  Reads = {r1, r2, r3}
  Detached = {r3}
  Lifespan = Lifespan
  Nobody = Nobody
  MaxCrashes = 1
INVARIANT PoolIsOne
PROPERTIES ReadersKeepTheirBrowser HandsOutLiveBrowser ShutdownIsClean ReadsEnd
CHECK_DEADLOCK FALSE
