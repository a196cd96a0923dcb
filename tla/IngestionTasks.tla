--------------------------- MODULE IngestionTasks ---------------------------
(***************************************************************************)
(* The import queue of agent-core: document tasks that workers claim, run  *)
(* and report, failures that are put back within a limit, runs that are    *)
(* taken over when they last too long, and an outbox whose events          *)
(* publishers lease, send and confirm.                                     *)
(*                                                                         *)
(* An action is one transaction or one call of the work or publish         *)
(* callback.  Between two of them a caller keeps what it has read, and may *)
(* be lost.  Time is the flag "stale" of a run or a lease: its start lies  *)
(* before the cut-off the reclaiming caller passes.                        *)
(***************************************************************************)
EXTENDS Naturals, Sequences, FiniteSets

CONSTANTS
  Tasks,        \* task ids
  Attempts,     \* attempt ids (uuid4)
  NoAttempt,    \* a NULL attempt_id
  Callers,      \* slots for workers and for whoever retries failures
  Publishers,   \* slots for publish calls: one publish_attempt_id per call
  NoPublisher,  \* a NULL publish_attempt_id
  MaxRetries    \* max_retries, as every caller passes it

ASSUME TasksAssumption == Tasks # {}
ASSUME NoAttemptAssumption == NoAttempt \notin Attempts
ASSUME NoPublisherAssumption == NoPublisher \notin Publishers
ASSUME MaxRetriesAssumption == MaxRetries \in Nat \ {0}

VARIABLES
  task,       \* ingestion_tasks
  outbox,     \* ingestion_task_outbox, in the order the events were committed
  caller,     \* what each caller is doing, for which task and attempt
  publisher,  \* what each publisher is doing, and the event it has claimed
  delivered   \* history: the events the publish callback has sent

vars == <<task, outbox, caller, publisher, delivered>>

Settled == {"SUCCEEDED", "FAILED"}
TaskStatus == {"NONE", "PENDING", "RUNNING"} \cup Settled

Task == [status : TaskStatus, attempt : Attempts \cup {NoAttempt},
         retries : 0..MaxRetries, stale : BOOLEAN]
Event == [task : Tasks, attempt : Attempts, type : Settled, published : BOOLEAN,
          holder : Publishers \cup {NoPublisher}, stale : BOOLEAN]

IdleCaller == [pc |-> "idle", task |-> CHOOSE t \in Tasks : TRUE, attempt |-> NoAttempt]
Caller == {IdleCaller} \cup
  [pc : {"work", "succeed", "fail", "retry"}, task : Tasks, attempt : Attempts]

IdlePublisher == [pc |-> "idle", event |-> 0]

Events == DOMAIN outbox

\* Rows and callers are what the schema and the functions allow; a publisher
\* past its claim works on an event of the outbox, and retries stay in bounds.
TypeOK ==
  /\ task \in [Tasks -> Task]
  /\ outbox \in Seq(Event)
  /\ caller \in [Callers -> Caller]
  /\ publisher \in [Publishers -> [pc : {"idle", "claim", "publish", "mark"},
                                   event : {0} \cup Events]]
  /\ \A p \in Publishers : publisher[p].pc \in {"publish", "mark"}
                             => publisher[p].event \in Events
  /\ delivered \subseteq Events

NoTask == [status |-> "NONE", attempt |-> NoAttempt, retries |-> 0, stale |-> FALSE]

Init ==
  /\ task = [t \in Tasks |-> NoTask]
  /\ outbox = << >>
  /\ caller = [c \in Callers |-> IdleCaller]
  /\ publisher = [p \in Publishers |-> IdlePublisher]
  /\ delivered = {}

taskVars == <<task, outbox, caller>>
publishVars == <<publisher, delivered>>

-----------------------------------------------------------------------------
(* Creating, claiming and running a task.                                   *)

Doing(c, pc) == caller[c].pc = pc
CallerAt(c, pc, t, a) ==
  caller' = [caller EXCEPT ![c] = [pc |-> pc, task |-> t, attempt |-> a]]
CallerReturns(c) == caller' = [caller EXCEPT ![c] = IdleCaller]

\* A uuid4 is new: no row and no caller refers to it.
Unused(a) ==
  /\ \A t \in Tasks : task[t].attempt # a
  /\ \A i \in Events : outbox[i].attempt # a
  /\ \A c \in Callers : caller[c].attempt # a

CreateTask(t) ==
  /\ task[t].status = "NONE"
  /\ task' = [task EXCEPT ![t].status = "PENDING"]
  /\ UNCHANGED <<outbox, caller, publishVars>>

\* claim_ingestion_task, and claim_next_ingestion_task: the next one may be any
\* pending task, since SKIP LOCKED passes over what another claim has locked.
ClaimTask(c, t, a) ==
  /\ Doing(c, "idle")
  /\ task[t].status = "PENDING"
  /\ Unused(a)
  /\ task' = [task EXCEPT ![t].status = "RUNNING", ![t].attempt = a,
                          ![t].stale = FALSE]
  /\ CallerAt(c, "work", t, a)
  /\ UNCHANGED <<outbox, publishVars>>

\* The work callback returns or raises.
WorkEnds(c, pc) ==
  /\ Doing(c, "work")
  /\ CallerAt(c, pc, caller[c].task, caller[c].attempt)
  /\ UNCHANGED <<task, outbox, publishVars>>

\* Mutant: the completing UPDATE does not compare attempt_id.
OwnsAnyRun(c) == task[caller[c].task].status = "RUNNING"

\* The condition of the two completing UPDATEs.
OwnsRun(c) ==
  /\ task[caller[c].task].status = "RUNNING"
  /\ task[caller[c].task].attempt = caller[c].attempt

NewEvent(t, a, type) ==
  [task |-> t, attempt |-> a, type |-> type, published |-> FALSE,
   holder |-> NoPublisher, stale |-> FALSE]

\* Mutant: the status is committed before the event is written, in another
\* transaction that may be lost.
SettleWithoutEvent(c, status) ==
  /\ task' = [task EXCEPT ![caller[c].task].status = status]
  /\ \/ outbox' = Append(outbox, NewEvent(caller[c].task, caller[c].attempt, status))
     \/ UNCHANGED outbox

\* The status change and its event, in one transaction.
Settle(c, status) ==
  /\ task' = [task EXCEPT ![caller[c].task].status = status]
  /\ outbox' = Append(outbox, NewEvent(caller[c].task, caller[c].attempt, status))

Succeed(c) ==
  /\ Doing(c, "succeed")
  /\ IF OwnsRun(c) THEN Settle(c, "SUCCEEDED") ELSE UNCHANGED <<task, outbox>>
  /\ CallerReturns(c)
  /\ UNCHANGED publishVars

\* The caller gets the failed snapshot back and may ask for a retry with it.
Fail(c) ==
  /\ Doing(c, "fail")
  /\ IF OwnsRun(c)
       THEN Settle(c, "FAILED")
            /\ CallerAt(c, "retry", caller[c].task, caller[c].attempt)
       ELSE UNCHANGED <<task, outbox>> /\ CallerReturns(c)
  /\ UNCHANGED publishVars

-----------------------------------------------------------------------------
(* Retrying a failure and taking over a run that lasts too long.            *)

\* get_ingestion_task by somebody who looks for failures.
ReadFailure(c, t) ==
  /\ Doing(c, "idle")
  /\ task[t].status = "FAILED"
  /\ CallerAt(c, "retry", t, task[t].attempt)
  /\ UNCHANGED <<task, outbox, publishVars>>

MayRetry(c) ==
  /\ task[caller[c].task].status = "FAILED"
  /\ task[caller[c].task].retries < MaxRetries
  /\ task[caller[c].task].attempt = caller[c].attempt

\* Mutant: attempt_id = NULL is forgotten.
RequeuedKeepingAttempt(row) == [row EXCEPT !.status = "PENDING", !.stale = FALSE]

Requeued(row) == [row EXCEPT !.status = "PENDING", !.attempt = NoAttempt,
                             !.stale = FALSE]

Retried(row) == [Requeued(row) EXCEPT !.retries = row.retries + 1]

Retry(c) ==
  LET t == caller[c].task IN
  /\ Doing(c, "retry")
  /\ IF MayRetry(c)
       THEN task' = [task EXCEPT ![t] = Retried(@)]
       ELSE UNCHANGED task
  /\ CallerReturns(c)
  /\ UNCHANGED <<outbox, publishVars>>

TaskGoesStale(t) ==
  /\ task[t].status = "RUNNING" /\ ~task[t].stale
  /\ task' = [task EXCEPT ![t].stale = TRUE]
  /\ UNCHANGED <<outbox, caller, publishVars>>

\* Mutant: the take-over looks for the wrong state.
ReclaimPendingTask(t) ==
  /\ task[t].status = "PENDING" /\ task[t].stale
  /\ task' = [task EXCEPT ![t] = Requeued(@)]
  /\ UNCHANGED <<outbox, caller, publishVars>>

\* Mutant: a take-over counts as a retry.
ReclaimTaskCounted(t) ==
  /\ task[t].status = "RUNNING" /\ task[t].stale
  /\ task' = [task EXCEPT ![t] = Retried(@)]
  /\ UNCHANGED <<outbox, caller, publishVars>>

\* reclaim_stale_ingestion_task: not a retry, retry_count stays.
ReclaimTask(t) ==
  /\ task[t].status = "RUNNING" /\ task[t].stale
  /\ task' = [task EXCEPT ![t] = Requeued(@)]
  /\ UNCHANGED <<outbox, caller, publishVars>>

\* The process dies, the coroutine is cancelled or a transaction fails.
CallerLost(c) ==
  /\ ~Doing(c, "idle")
  /\ CallerReturns(c)
  /\ UNCHANGED <<task, outbox, publishVars>>

-----------------------------------------------------------------------------
(* publish_next_ingestion_event_once.                                       *)

AtStep(p, pc) == publisher[p].pc = pc
GoToStep(p, pc) == publisher' = [publisher EXCEPT ![p].pc = pc]
PublisherReturns(p) == publisher' = [publisher EXCEPT ![p] = IdlePublisher]

Released(e) == [e EXCEPT !.holder = NoPublisher, !.stale = FALSE]

\* Mutant: leases of lost publishers are never given back.
NeverExpired(e) == FALSE

\* The condition of reclaim_stale_ingestion_events.
Expired(e) == ~e.published /\ e.holder # NoPublisher /\ e.stale

\* It gives back every expired lease at once.
ReclaimEvents(p) ==
  /\ AtStep(p, "idle")
  /\ outbox' = [i \in Events |-> IF Expired(outbox[i]) THEN Released(outbox[i])
                                                      ELSE outbox[i]]
  /\ GoToStep(p, "claim")
  /\ UNCHANGED <<task, caller, delivered>>

LeasedTo(e, p) == [e EXCEPT !.holder = p, !.stale = FALSE]

Candidate(e) == ~e.published /\ e.holder = NoPublisher

\* claim_next_ingestion_event.  It takes the oldest candidate, but rows locked by
\* another claim are skipped and created_at is the start of a transaction, so
\* that "oldest" may be any of those committed here.
ClaimEvent(p, i) ==
  /\ AtStep(p, "claim")
  /\ i \in Events
  /\ Candidate(outbox[i])
  /\ outbox' = [outbox EXCEPT ![i] = LeasedTo(@, p)]
  /\ publisher' = [publisher EXCEPT ![p] = [pc |-> "publish", event |-> i]]
  /\ UNCHANGED <<task, caller, delivered>>

NothingToPublish(p) ==
  /\ AtStep(p, "claim")
  /\ \A i \in Events : ~Candidate(outbox[i])
  /\ PublisherReturns(p)
  /\ UNCHANGED <<taskVars, delivered>>

\* The publish callback returns.
Publish(p) ==
  /\ AtStep(p, "publish")
  /\ delivered' = delivered \cup {publisher[p].event}
  /\ GoToStep(p, "mark")
  /\ UNCHANGED taskVars

\* It raises; the event may have left all the same.
PublishFails(p) ==
  /\ AtStep(p, "publish")
  /\ delivered' \in {delivered, delivered \cup {publisher[p].event}}
  /\ PublisherReturns(p)
  /\ UNCHANGED taskVars

\* Mutant: the confirmation does not compare publish_attempt_id.
StillLeasedToAnyone(p) == ~outbox[publisher[p].event].published

\* The condition of mark_ingestion_event_published.
StillLeased(p) ==
  LET e == outbox[publisher[p].event] IN ~e.published /\ e.holder = p

MarkPublished(p) ==
  /\ AtStep(p, "mark")
  /\ IF StillLeased(p)
       THEN outbox' = [outbox EXCEPT ![publisher[p].event] =
                         [Released(@) EXCEPT !.published = TRUE]]
       ELSE UNCHANGED outbox
  /\ PublisherReturns(p)
  /\ UNCHANGED <<task, caller, delivered>>

EventGoesStale(i) ==
  /\ i \in Events
  /\ outbox[i].holder # NoPublisher /\ ~outbox[i].stale
  /\ outbox' = [outbox EXCEPT ![i].stale = TRUE]
  /\ UNCHANGED <<task, caller, publishVars>>

PublisherLost(p) ==
  /\ ~AtStep(p, "idle")
  /\ PublisherReturns(p)
  /\ UNCHANGED <<taskVars, delivered>>

-----------------------------------------------------------------------------
TaskStep(t) == CreateTask(t) \/ TaskGoesStale(t) \/ ReclaimTask(t)

CallerStep(c) ==
  \/ \E t \in Tasks, a \in Attempts : ClaimTask(c, t, a)
  \/ \E pc \in {"succeed", "fail"} : WorkEnds(c, pc)
  \/ Succeed(c) \/ Fail(c)
  \/ \E t \in Tasks : ReadFailure(c, t)
  \/ Retry(c) \/ CallerLost(c)

PublisherStep(p) ==
  \/ ReclaimEvents(p)
  \/ \E i \in Events : ClaimEvent(p, i)
  \/ NothingToPublish(p) \/ Publish(p) \/ PublishFails(p)
  \/ MarkPublished(p) \/ PublisherLost(p)

Next ==
  \/ \E t \in Tasks : TaskStep(t)
  \/ \E c \in Callers : CallerStep(c)
  \/ \E p \in Publishers : PublisherStep(p)
  \/ \E i \in Events : EventGoesStale(i)

Spec == Init /\ [][Next]_vars

-----------------------------------------------------------------------------
(* The functions are called again and again by schedulers outside; an       *)
(* attempt that gets the chance to report in time again and again does so.  *)

TimelyWork(c) ==
  OwnsRun(c) /\ \E pc \in {"succeed", "fail"} : WorkEnds(c, pc)
TimelyReport(c) == OwnsRun(c) /\ (Succeed(c) \/ Fail(c))

WorkersScheduled ==
  /\ SF_vars(\E c \in Callers, t \in Tasks, a \in Attempts : ClaimTask(c, t, a))
  /\ SF_vars(\E c \in Callers : TimelyWork(c))
  /\ SF_vars(\E c \in Callers : TimelyReport(c))
  /\ \A c \in Callers : WF_vars(~Doing(c, "idle") /\ CallerStep(c))
  /\ \A t \in Tasks : WF_vars(TaskGoesStale(t)) /\ WF_vars(ReclaimTask(t))

TimelyPublish(p) == AtStep(p, "publish") /\ StillLeased(p) /\ Publish(p)
TimelyMark(p) == AtStep(p, "mark") /\ StillLeased(p) /\ MarkPublished(p)

\* Each task leaves at most one success or last failure, and MaxRetries others.
MaxEvents == Cardinality(Tasks) * (MaxRetries + 1)

PublishersScheduled ==
  /\ SF_vars(\E p \in Publishers, i \in Events : ClaimEvent(p, i))
  /\ SF_vars(\E p \in Publishers : TimelyPublish(p))
  /\ SF_vars(\E p \in Publishers : TimelyMark(p))
  /\ \A p \in Publishers : WF_vars(PublisherStep(p))
  /\ \A i \in 1..MaxEvents : WF_vars(EventGoesStale(i))

FairSpec == Spec /\ WorkersScheduled /\ PublishersScheduled
=============================================================================
