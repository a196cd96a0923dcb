CONSTANTS
  u1 = u1
  Orders = {o1, o2}
  Owner <- OneOwner
  Total <- TwoCents
  RefundableOrders = {o1, o2}
  Requests = {r1, r2}
  Amounts = {10, 30}
  Apps = {x1, x2}
  NoApp = NoApp
  Submitters = {s1, s2}
  Reviewers = {v1, v2}
  NoReviewer = NoReviewer
SPECIFICATION Spec
SYMMETRY Ids
INVARIANTS OneOpenPerOrder LostOnlyToRejection AppInv RulingsStand RepliesStand
PROPERTIES KeepsCases
CHECK_DEADLOCK FALSE
