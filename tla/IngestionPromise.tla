-------------------------- MODULE IngestionPromise --------------------------
(***************************************************************************)
(* What the import queue promises, without attempts, callers, leases or    *)
(* crashes: a task waits, is settled once per try, and may be put back     *)
(* after a failure; each settlement adds one notice to a log; a notice is  *)
(* confirmed only after it has been sent.                                  *)
(***************************************************************************)
EXTENDS Naturals, Sequences

CONSTANTS Tasks, MaxRetries

VARIABLES
  state,      \* of each task
  retries,    \* how often each task was put back
  log,        \* the notices, [task, type], oldest first
  sent,       \* the positions in the log that were sent at least once
  confirmed   \* those that will not be sent again by a new publisher

promiseVars == <<state, retries, log, sent, confirmed>>

Outcomes == {"SUCCEEDED", "FAILED"}

PromiseInit ==
  /\ state = [t \in Tasks |-> "NONE"]
  /\ retries = [t \in Tasks |-> 0]
  /\ log = << >>
  /\ sent = {}
  /\ confirmed = {}

Open(t) ==
  /\ state[t] = "NONE"
  /\ state' = [state EXCEPT ![t] = "WAITING"]
  /\ UNCHANGED <<retries, log, sent, confirmed>>

SettleTask(t, outcome) ==
  /\ state[t] = "WAITING"
  /\ state' = [state EXCEPT ![t] = outcome]
  /\ log' = Append(log, [task |-> t, type |-> outcome])
  /\ UNCHANGED <<retries, sent, confirmed>>

PutBack(t) ==
  /\ state[t] = "FAILED" /\ retries[t] < MaxRetries
  /\ state' = [state EXCEPT ![t] = "WAITING"]
  /\ retries' = [retries EXCEPT ![t] = @ + 1]
  /\ UNCHANGED <<log, sent, confirmed>>

Send(i) ==
  /\ sent' = sent \cup {i}
  /\ UNCHANGED <<state, retries, log, confirmed>>

Confirm(i) ==
  /\ i \in sent \ confirmed
  /\ confirmed' = confirmed \cup {i}
  /\ UNCHANGED <<state, retries, log, sent>>

PromiseNext ==
  \/ \E t \in Tasks : Open(t) \/ PutBack(t)
                        \/ \E outcome \in Outcomes : SettleTask(t, outcome)
  \/ \E i \in DOMAIN log : Send(i) \/ Confirm(i)

PromiseSpec == PromiseInit /\ [][PromiseNext]_promiseVars
=============================================================================
