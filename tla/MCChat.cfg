\* Three calls of two requests, one of which names an order, or of none.
CONSTANTS
  r1 = r1  r2 = r2
  Requests = {r1, r2}
  NoRequest = NoRequest
  WithOrderId = {r2}
  MaxCalls = 3
  StepLimit = 5
SPECIFICATION FairSpec
INVARIANTS CleanHistory ToolCallsEnd ChatInv
PROPERTIES KeepsPromise CallsEnd
CHECK_DEADLOCK FALSE
