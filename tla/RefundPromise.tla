--------------------------- MODULE RefundPromise ---------------------------
(***************************************************************************)
(* What the refund subsystem promises, without transactions, leases,       *)
(* retries or lost requests: a refund is opened once, submitted once as    *)
(* far as the ledger can tell, and settles once, on a verdict the provider *)
(* published; a human is asked about a refund only while its outcome is    *)
(* open, or when a published verdict contradicts the recorded one.         *)
(***************************************************************************)
CONSTANTS
  Apps,        \* refund applications
  Verdict,     \* what a provider may decide
  Undecided    \* no outcome recorded yet

VARIABLES
  stage,       \* none, opened, submitted or settled
  outcome,     \* the recorded verdict
  verdicts,    \* what the provider has published
  attention    \* refunds waiting for an administrator

promiseVars == <<stage, outcome, verdicts, attention>>

PromiseInit ==
  /\ stage = [a \in Apps |-> "none"]
  /\ outcome = [a \in Apps |-> Undecided]
  /\ verdicts = [a \in Apps |-> {}]
  /\ attention = {}

Open(a) ==
  /\ stage[a] = "none"
  /\ stage' = [stage EXCEPT ![a] = "opened"]
  /\ UNCHANGED <<outcome, verdicts, attention>>

Submit(a) ==
  /\ stage[a] = "opened"
  /\ stage' = [stage EXCEPT ![a] = "submitted"]
  /\ UNCHANGED <<outcome, verdicts, attention>>

Publish(a, v) ==
  /\ stage[a] \in {"submitted", "settled"}
  /\ verdicts' = [verdicts EXCEPT ![a] = @ \cup {v}]
  /\ UNCHANGED <<stage, outcome, attention>>

SettleOn(a, v) ==
  /\ stage[a] = "submitted"
  /\ v \in verdicts[a]
  /\ stage' = [stage EXCEPT ![a] = "settled"]
  /\ outcome' = [outcome EXCEPT ![a] = v]
  /\ attention' = attention \ {a}
  /\ UNCHANGED verdicts

Escalate(S) ==
  /\ \A a \in S : stage[a] = "submitted"
  /\ attention' = attention \cup S
  /\ UNCHANGED <<stage, outcome, verdicts>>

Dispute(a) ==
  /\ stage[a] = "settled"
  /\ \E v \in verdicts[a] : v # outcome[a]
  /\ attention' = attention \cup {a}
  /\ UNCHANGED <<stage, outcome, verdicts>>

Dismiss(a) ==
  /\ attention' = attention \ {a}
  /\ UNCHANGED <<stage, outcome, verdicts>>

PromiseNext ==
  \/ \E a \in Apps :
       \/ Open(a) \/ Submit(a) \/ Dispute(a) \/ Dismiss(a)
       \/ \E v \in Verdict : Publish(a, v) \/ SettleOn(a, v)
  \/ \E S \in SUBSET Apps : Escalate(S)

PromiseSpec == PromiseInit /\ [][PromiseNext]_promiseVars
=============================================================================
