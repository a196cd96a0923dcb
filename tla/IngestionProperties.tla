------------------------ MODULE IngestionProperties ------------------------
(***************************************************************************)
(* What the import queue must guarantee, and how it implements             *)
(* IngestionPromise.                                                       *)
(***************************************************************************)
EXTENDS IngestionTasks

EventsOf(t, type) == {i \in Events : outbox[i].task = t /\ outbox[i].type = type}

\* An attempt that was taken over never reports: every event but the last of a
\* task belongs to an earlier failure, and the events tell exactly what the row
\* tells.  A settled task's event carries the attempt in the row, no attempt has
\* two events, and nothing follows a success.
OutboxTellsOutcome ==
  /\ \A t \in Tasks, i \in Events :
       outbox[i].task = t /\ outbox[i].attempt = task[t].attempt
         => task[t].status = outbox[i].type
  /\ \A t \in Tasks, s \in Settled : task[t].status = s
       => \E i \in EventsOf(t, s) : outbox[i].attempt = task[t].attempt
  /\ \A t \in Tasks : task[t].status # "SUCCEEDED" => EventsOf(t, "SUCCEEDED") = {}
  /\ \A i, j \in Events : outbox[i].attempt = outbox[j].attempt => i = j

\* A retry answers exactly one failure: however many callers hold the same failed
\* snapshot, and however often a run was taken over, the retry count is the
\* number of failures reported and put back.
RetriesCountFailures ==
  \A t \in Tasks :
    Cardinality(EventsOf(t, "FAILED"))
      = task[t].retries + (IF task[t].status = "FAILED" THEN 1 ELSE 0)

\* No event is confirmed that the publish callback has not sent.
PublishedWasDelivered == \A i \in Events : outbox[i].published => i \in delivered

\* A publisher whose lease expired cannot confirm, or end, the lease of its
\* successor: an unexpired lease ends only when its holder confirms the event.
LiveLeaseEndsWithHolder ==
  [][\A i \in Events :
       outbox[i].holder # NoPublisher /\ ~outbox[i].stale
         => \/ outbox'[i].holder = outbox[i].holder
            \/ /\ publisher[outbox[i].holder] = [pc |-> "mark", event |-> i]
               /\ publisher'[outbox[i].holder] = IdlePublisher
               /\ outbox'[i].published]_vars

\* Called again and again, the workers settle every task, whatever they lose.
TasksSettle == \A t \in Tasks :
  task[t].status = "PENDING" ~> task[t].status \in Settled

\* Called again and again, the publishers confirm every event, whatever they lose.
EventsPublished == \A i \in 1..MaxEvents :
  i \in Events ~> i \in Events /\ outbox[i].published

-----------------------------------------------------------------------------
(* The inductive invariant.                                                 *)

AttemptsKnown == \A t \in Tasks :
  task[t].attempt = NoAttempt <=> task[t].status \in {"NONE", "PENDING"}

AttemptsDistinct == \A t, u \in Tasks :
  task[t].attempt = task[u].attempt /\ task[t].attempt # NoAttempt => t = u

EventsOwned == \A t \in Tasks, i \in Events :
  outbox[i].attempt = task[t].attempt => outbox[i].task = t

SentBeforeMark == \A p \in Publishers :
  publisher[p].pc = "mark" => publisher[p].event \in delivered

\* What OutboxTellsOutcome and PublishedWasDelivered rest on: an attempt runs for
\* one task and reports for that task only, and a publisher about to confirm an
\* event has sent it.
QueueInv ==
  /\ TypeOK
  /\ OutboxTellsOutcome /\ AttemptsKnown /\ AttemptsDistinct /\ EventsOwned
  /\ PublishedWasDelivered /\ SentBeforeMark

-----------------------------------------------------------------------------
(* The refinement: attempts, leases and callers disappear.                  *)

Promise == INSTANCE IngestionPromise WITH
  state <- [t \in Tasks |-> IF task[t].status \in {"PENDING", "RUNNING"}
                              THEN "WAITING" ELSE task[t].status],
  retries <- [t \in Tasks |-> task[t].retries],
  log <- [i \in Events |-> [task |-> outbox[i].task, type |-> outbox[i].type]],
  sent <- delivered,
  confirmed <- {i \in Events : outbox[i].published}

\* Claims, take-overs, late reports, leases and losses are invisible outside:
\* every step of the queue is one of the promise, or none.
KeepsPromise == Promise!PromiseSpec
=============================================================================
