\* A provider that may contradict a verdict it has already published.
SPECIFICATION FairSpec
CONSTANTS
  a1 = a1  q1 = q1  w1 = w1  r1 = r1  r2 = r2
  Apps = {a1}
  Refs = {r1, r2}
  NoRef = NoRef
  Requests = {q1}
  Workers = {w1}
  Holders = {q1, w1}
  NoToken = NoToken
  MaxAttempts = 2
  MaxResubmissions = 1
  SelfContradicting = TRUE
INVARIANTS OutcomeWasPublished DisputeIsQueued
PROPERTIES KeepsPromise InFlightResolves
CHECK_DEADLOCK FALSE
