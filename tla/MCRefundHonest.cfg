\* The sandbox as coded: two API calls beside two batches that compete for leases.
SPECIFICATION Spec
CONSTANTS
  a1 = a1  q1 = q1  q2 = q2  w1 = w1  w2 = w2  r1 = r1
  Apps = {a1}
  Refs = {r1}
  NoRef = NoRef
  Requests = {q1, q2}
  Workers = {w1, w2}
  Holders = {q1, q2, w1, w2}
  NoToken = NoToken
  MaxAttempts = 2
  MaxResubmissions = 1
  SelfContradicting = FALSE
SYMMETRY SlotSymmetry
INVARIANTS JobMatchesExecution ExecutionInv HonestBooksAgree PostsAreLicensed
PROPERTIES NeverRegresses LiveLeaseRespected
CHECK_DEADLOCK FALSE
