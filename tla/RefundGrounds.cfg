\* One batch and one administrator against the sandbox as coded.
SPECIFICATION GroundsSpec
CONSTANTS
  a1 = a1  q1 = q1  w1 = w1  r1 = r1
  Apps = {a1}
  Refs = {r1}
  NoRef = NoRef
  Requests = {q1}
  Workers = {w1}
  Holders = {q1, w1}
  NoToken = NoToken
  MaxAttempts = 2
  MaxResubmissions = 1
  SelfContradicting = FALSE
INVARIANT PersistentlyNotFound
CHECK_DEADLOCK FALSE
