SPECIFICATION FairSpec
\* The user logs in and out in one tab, two requests of another overlap.
CONSTANTS
  p1 = p1  p2 = p2  r1 = r1  r2 = r2
  MaxPairs = 2
  NoPair = NoPair
  NoPage = NoPage
  Pages = {p1, p2}
  Requests = {r1, r2}
  PageOf <- MCPageOf
  InUse = {p2}
  MaxLost = 1
INVARIANTS SessionInv CookiesCatchUp NoEagerRefresh
PROPERTIES KeepsPromise RequestsEnd
