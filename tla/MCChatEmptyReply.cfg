\* Two calls are enough: one that caches an empty reply, one that repeats it.
CONSTANTS
  r1 = r1  r2 = r2
  Requests = {r1, r2}
  NoRequest = NoRequest
  WithOrderId = {r2}
  MaxCalls = 2
  StepLimit = 4
SPECIFICATION Spec
INVARIANT CachedRepliesHaveText
CHECK_DEADLOCK FALSE
