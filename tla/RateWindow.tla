----------------------------- MODULE RateWindow -----------------------------
(***************************************************************************)
(* consume_rate_limit: one Redis counter per user, which starts with the   *)
(* first request of a window and disappears when the window is over.       *)
(***************************************************************************)
EXTENDS Naturals

CONSTANTS
  Counted,  \* users with a counter
  Limit,    \* rate_limit_requests
  Window    \* rate_limit_window_seconds, in ticks of the clock

ASSUME LimitAssumption == Limit \in Nat \ {0}
ASSUME WindowAssumption == Window \in Nat \ {0}

VARIABLE counter   \* the key of each user: its number and its time to live

\* Numbers above the limit are not told apart.
Absent == [count |-> 0, ttl |-> 0]
Counter == {Absent} \cup [count : 1..(Limit + 1), ttl : 1..Window]

Incremented(c) == [c EXCEPT !.count = IF @ > Limit THEN @ ELSE @ + 1]

\* Mutant: EXPIRE without NX.
ExpiringAnew(c) == [c EXCEPT !.ttl = Window]

\* EXPIRE NX.
Expiring(c) == IF c.ttl = 0 THEN [c EXCEPT !.ttl = Window] ELSE c

\* MULTI, INCR, EXPIRE NX, EXEC.
Consumed(c) == Expiring(Incremented(c))

\* Refused requests are counted too.
Consume(u) == counter' = [counter EXCEPT ![u] = Consumed(@)]

Allowed(u) == Incremented(counter[u]).count <= Limit

Aged(c) == CASE c.ttl = 0 -> c
             [] c.ttl = 1 -> Absent
             [] OTHER     -> [c EXCEPT !.ttl = @ - 1]

\* Time passes for all keys.
Tick ==
  /\ \E u \in Counted : counter[u].ttl > 0
  /\ counter' = [u \in Counted |-> Aged(counter[u])]
=============================================================================
