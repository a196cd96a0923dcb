--------------------------- MODULE RefundSandbox ---------------------------
(***************************************************************************)
(* The payment provider of refund_sandbox_app.py: one durable row per      *)
(* idempotency key and at most one event per row.  A request that timed    *)
(* out at the caller may still be on the network and arrive later.         *)
(***************************************************************************)
EXTENDS RefundRecords

CONSTANT
  SelfContradicting  \* FALSE for the sandbox as coded; TRUE lets the provider
                     \* publish a verdict after a different one

ASSUME SelfContradictingAssumption == SelfContradicting \in BOOLEAN

VARIABLES
  provider,     \* sandbox_refunds: the row of each key, NONE when absent
  events,       \* sandbox_refund_events: the verdicts published per key
  delayed       \* keys whose timed-out POST /refunds is still under way

sandboxVars == <<provider, events, delayed>>

SandboxTypeOK ==
  /\ provider \in [Apps -> Answer \cup {NoExecution}]
  /\ events \in [Apps -> SUBSET Verdict]
  /\ delayed \in SUBSET Apps

SandboxInit ==
  /\ provider = [a \in Apps |-> NoExecution]
  /\ events = [a \in Apps |-> {}]
  /\ delayed = {}

\* Mutant: ON CONFLICT DO UPDATE, a repeated request reopens the row.
RowAfterRepeatedPost(row) == Accepted

\* POST /refunds: INSERT ... ON CONFLICT (idempotency_key) DO NOTHING.
RowAfterPost(row) == IF row.status = "NONE" THEN Accepted ELSE row

SandboxExecute(a) ==
  /\ provider' = [provider EXCEPT ![a] = RowAfterPost(@)]
  /\ UNCHANGED events

\* A POST whose answer the caller never sees: lost, done, or still to arrive.
PostOutcomeUnknown(a) ==
  \/ UNCHANGED sandboxVars
  \/ SandboxExecute(a) /\ UNCHANGED delayed
  \/ delayed' = delayed \cup {a} /\ UNCHANGED <<provider, events>>

DelayedPostArrives(a) ==
  /\ a \in delayed
  /\ SandboxExecute(a)
  /\ delayed' = delayed \ {a}

\* POST /refunds/{key}/settle on a PROCESSING row; on a settled row it only
\* returns the stored event or answers 409.
Settle(a, v) ==
  /\ provider[a].status = "PROCESSING"
  /\ provider' = [provider EXCEPT ![a] = v]
  /\ events' = [events EXCEPT ![a] = @ \cup {v}]
  /\ UNCHANGED delayed

\* Environment: a provider that changes its mind, which the sandbox refuses
\* to do but TERMINAL_CONFLICT exists for.
Reverse(a, v) ==
  /\ SelfContradicting
  /\ provider[a].status \in Terminal
  /\ v \notin events[a]
  /\ provider' = [provider EXCEPT ![a] = v]
  /\ events' = [events EXCEPT ![a] = @ \cup {v}]
  /\ UNCHANGED delayed

SandboxNext ==
  \E a \in Apps :
    \/ DelayedPostArrives(a)
    \/ \E v \in Verdict : Settle(a, v) \/ Reverse(a, v)
=============================================================================
