CONSTANTS
  u1 = u1
  Orders = {o1}
  Owner <- OneOwner
  Total <- TwoCents
  RefundableOrders = {o1}
  Requests = {r1}
  Amounts = {14}
  Apps = {x1}
  NoApp = NoApp
  Submitters = {s1}
  Reviewers = {}
  NoReviewer = NoReviewer
SPECIFICATION Spec
SYMMETRY Ids
INVARIANTS ConflictMeansDifferent
CHECK_DEADLOCK FALSE
