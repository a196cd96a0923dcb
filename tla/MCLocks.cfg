\* A claim beside two writers, or two claims that sweep beside one, over two refunds.
CONSTANTS
  Transactions = {t1, t2, t3}
  Count = 2
  Events = {e1}
  NoLock = NoLock
SPECIFICATION Spec
INVARIANTS NoCircularWait
SYMMETRY TransactionSymmetry
