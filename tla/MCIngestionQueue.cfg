CONSTANTS
  Tasks = {t1}
  Attempts = {a1, a2, a3, a4}
  NoAttempt = NoAttempt
  Callers = {c1, c2}
  Publishers = {p1, p2}
  NoPublisher = NoPublisher
  MaxRetries = 1
SPECIFICATION Spec
SYMMETRY Slots
INVARIANTS OutboxTellsOutcome RetriesCountFailures QueueInv
PROPERTIES LiveLeaseEndsWithHolder KeepsPromise
CHECK_DEADLOCK FALSE
