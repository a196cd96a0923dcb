CONSTANTS
  Tasks = {t1}
  Attempts = {a1, a2}
  NoAttempt = NoAttempt
  Callers = {c1}
  Publishers = {p1, p2}
  NoPublisher = NoPublisher
  MaxRetries = 1
SPECIFICATION FairSpec
PROPERTIES TasksSettle EventsPublished
CHECK_DEADLOCK FALSE
