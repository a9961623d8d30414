\* Two reads and nothing that crashes.
SPECIFICATION Spec
CONSTANTS
  Reads = {r1, r2}
  Detached = {}
  Lifespan = Lifespan
  Nobody = Nobody
  MaxCrashes = 0
INVARIANT ContextsAreClosed
CHECK_DEADLOCK FALSE
