-------------------------- MODULE IngestionProofs --------------------------
(***************************************************************************)
(* The invariants, the lease property and the refinement of the import     *)
(* queue, for every set of tasks, attempts, callers and publishers.        *)
(***************************************************************************)
EXTENDS IngestionProperties, FiniteSetTheorems, SequenceTheorems, TLAPS

-----------------------------------------------------------------------------
(* The outbox as a sequence.                                                *)

\* Appending an event.
LEMMA AppendFacts ==
  ASSUME NEW S, NEW s \in Seq(S), NEW e \in S
  PROVE  /\ Append(s, e) \in Seq(S)
         /\ Len(s) + 1 \notin DOMAIN s
         /\ DOMAIN Append(s, e) = DOMAIN s \cup {Len(s) + 1}
         /\ \A i \in DOMAIN s : Append(s, e)[i] = s[i]
         /\ Append(s, e)[Len(s) + 1] = e
OBVIOUS

\* Rewriting the rows of a sequence one by one leaves a sequence.
LEMMA RewriteFacts ==
  ASSUME NEW S, NEW s \in Seq(S), NEW f, f \in [DOMAIN s -> S]
  PROVE  f \in Seq(S) /\ DOMAIN f = DOMAIN s
<1>1. Len(s) \in Nat /\ DOMAIN s = 1..Len(s)
  BY LenProperties
<1>2. f \in [1..Len(s) -> S]
  BY <1>1
<1>3. QED
  BY <1>1, <1>2, SeqDef

\* What a step of the publishing side leaves alone: which events there are, whose
\* they are and what they tell.
SameEvents ==
  /\ outbox' \in Seq(Event) /\ DOMAIN outbox' = DOMAIN outbox
  /\ \A i \in Events : /\ outbox'[i].task = outbox[i].task
                       /\ outbox'[i].attempt = outbox[i].attempt
                       /\ outbox'[i].type = outbox[i].type
  /\ UNCHANGED <<task, caller>>

\* Releasing, leasing and confirming an event rewrites its lease only.
LEMMA EventUpdates ==
  ASSUME NEW e \in Event, NEW p \in Publishers
  PROVE  /\ Released(e) \in Event
         /\ LeasedTo(e, p) \in Event
         /\ [e EXCEPT !.stale = TRUE] \in Event
         /\ [Released(e) EXCEPT !.published = TRUE] \in Event
         /\ \A f \in {Released(e), LeasedTo(e, p), [e EXCEPT !.stale = TRUE],
                      [Released(e) EXCEPT !.published = TRUE]} :
              f.task = e.task /\ f.attempt = e.attempt /\ f.type = e.type
BY DEF Event, Released, LeasedTo

-----------------------------------------------------------------------------
(* The publishing side.                                                     *)

\* A publisher's step keeps the events.
LEMMA PublisherKeepsEvents ==
  ASSUME TypeOK, NEW p \in Publishers, PublisherStep(p)
  PROVE  SameEvents
<1>0. outbox \in Seq(Event) /\ \A i \in Events : outbox[i] \in Event
  <2>1. outbox \in Seq(Event)
    BY DEF TypeOK
  <2>2. QED
    BY <2>1, LenProperties DEF Events
<1>a. ASSUME UNCHANGED taskVars PROVE SameEvents
  BY <1>0, <1>a DEF SameEvents, taskVars, Events
<1>1. CASE ReclaimEvents(p)
  <2>1. outbox' \in [DOMAIN outbox -> Event]
    BY <1>0, <1>1, EventUpdates DEF ReclaimEvents, Events
  <2>2. \A i \in Events : outbox'[i] \in {outbox[i], Released(outbox[i])}
    BY <1>1 DEF ReclaimEvents
  <2>3. QED
    BY <1>0, <1>1, <2>1, <2>2, RewriteFacts, EventUpdates
       DEF ReclaimEvents, SameEvents, Events
<1>2. ASSUME NEW i \in Events, ClaimEvent(p, i) PROVE SameEvents
  <2>1. outbox' = [outbox EXCEPT ![i] = LeasedTo(outbox[i], p)]
    BY <1>0, <1>2 DEF ClaimEvent, Events
  <2>2. LeasedTo(outbox[i], p) \in Event
    BY <1>0, EventUpdates
  <2>3. outbox' \in [DOMAIN outbox -> Event]
    BY <1>0, <2>1, <2>2 DEF Events
  <2>4. \A j \in Events : outbox'[j] = outbox[j] \/ outbox'[j] = LeasedTo(outbox[j], p)
    BY <1>0, <2>1 DEF Events
  <2>5. outbox' \in Seq(Event) /\ DOMAIN outbox' = DOMAIN outbox
    BY <1>0, <2>3, RewriteFacts
  <2>6. \A j \in Events : /\ outbox'[j].task = outbox[j].task
                          /\ outbox'[j].attempt = outbox[j].attempt
                          /\ outbox'[j].type = outbox[j].type
    <3>1. TAKE j \in Events
    <3>2. LeasedTo(outbox[j], p).task = outbox[j].task
          /\ LeasedTo(outbox[j], p).attempt = outbox[j].attempt
          /\ LeasedTo(outbox[j], p).type = outbox[j].type
      BY <1>0 DEF Event, LeasedTo
    <3>3. QED
      BY <2>4, <3>2
  <2>7. QED
    BY <1>2, <2>5, <2>6 DEF ClaimEvent, SameEvents
<1>3. CASE MarkPublished(p)
  <2> DEFINE i == publisher[p].event
  <2>1. i \in Events
    BY <1>3 DEF MarkPublished, AtStep, TypeOK
  <2>2. CASE ~StillLeased(p)
    BY <1>0, <1>3, <2>2 DEF MarkPublished, SameEvents, Events
  <2>3. CASE StillLeased(p)
    <3>1. outbox' = [outbox EXCEPT ![i] = [Released(outbox[i]) EXCEPT !.published = TRUE]]
      BY <1>0, <1>3, <2>1, <2>3 DEF MarkPublished, Events
    <3>2. [Released(outbox[i]) EXCEPT !.published = TRUE] \in Event
      BY <1>0, <2>1, EventUpdates
    <3>3. outbox' \in [DOMAIN outbox -> Event]
      BY <1>0, <3>1, <3>2 DEF Events
    <3>4. \A j \in Events : outbox'[j]
            \in {outbox[j], [Released(outbox[j]) EXCEPT !.published = TRUE]}
      BY <1>0, <3>1 DEF Events
    <3>5. QED
      BY <1>0, <1>3, <3>3, <3>4, RewriteFacts, EventUpdates
         DEF MarkPublished, SameEvents, Events
  <2>4. QED
    BY <2>2, <2>3
<1>4. CASE NothingToPublish(p) \/ Publish(p) \/ PublishFails(p) \/ PublisherLost(p)
  BY <1>4, <1>a DEF NothingToPublish, Publish, PublishFails, PublisherLost
<1>5. QED
  BY <1>1, <1>2, <1>3, <1>4 DEF PublisherStep

\* So does the passing of time.
LEMMA StalingKeepsEvents ==
  ASSUME TypeOK, NEW i \in Events, EventGoesStale(i)
  PROVE  SameEvents
<1>0. outbox \in Seq(Event) /\ \A j \in Events : outbox[j] \in Event
  <2>1. outbox \in Seq(Event)
    BY DEF TypeOK
  <2>2. QED
    BY <2>1, LenProperties DEF Events
<1>1. [outbox[i] EXCEPT !.stale = TRUE] \in Event
  BY <1>0 DEF Event
<1>2. outbox' = [outbox EXCEPT ![i] = [outbox[i] EXCEPT !.stale = TRUE]]
  BY <1>0 DEF EventGoesStale, Events
<1>3. outbox' \in [DOMAIN outbox -> Event]
  BY <1>0, <1>1, <1>2 DEF Events
<1>4. \A j \in Events : outbox'[j] = outbox[j]
        \/ outbox'[j] = [outbox[j] EXCEPT !.stale = TRUE]
  BY <1>0, <1>2 DEF Events
<1>5. \A j \in Events : /\ outbox'[j].task = outbox[j].task
                        /\ outbox'[j].attempt = outbox[j].attempt
                        /\ outbox'[j].type = outbox[j].type
  BY <1>0, <1>4 DEF Event
<1>6. QED
  BY <1>0, <1>3, <1>5, RewriteFacts DEF SameEvents, EventGoesStale

-----------------------------------------------------------------------------
(* Tasks, attempts and their events.                                        *)

TaskInv == OutboxTellsOutcome /\ AttemptsKnown /\ AttemptsDistinct /\ EventsOwned

\* The rows of a typed state.
LEMMA Rows ==
  ASSUME TypeOK
  PROVE  /\ \A t \in Tasks : task[t] \in Task
         /\ outbox \in Seq(Event) /\ \A i \in Events : outbox[i] \in Event
         /\ \A c \in Callers : caller[c].task \in Tasks
         /\ \A c \in Callers : caller[c].pc # "idle" => caller[c].attempt \in Attempts
<1>1. (CHOOSE t \in Tasks : TRUE) \in Tasks
  BY TasksAssumption
<1>2. outbox \in Seq(Event)
  BY DEF TypeOK
<1>3. \A i \in Events : outbox[i] \in Event
  BY <1>2, LenProperties DEF Events
<1>4. \A c \in Callers : caller[c] \in Caller
  BY DEF TypeOK
<1>5. \A c \in Callers : caller[c].task \in Tasks
         /\ (caller[c].pc # "idle" => caller[c].attempt \in Attempts)
  BY <1>1, <1>4 DEF Caller, IdleCaller
<1>6. QED
  BY <1>2, <1>3, <1>5 DEF TypeOK

\* Leases do not matter to what the events tell.
LEMMA PublishingKeepsTaskInv ==
  ASSUME TaskInv, SameEvents
  PROVE  TaskInv'
<1>1. task' = task /\ Events' = Events
  BY DEF SameEvents, Events
<1>2. \A i \in Events : /\ outbox'[i].task = outbox[i].task
                        /\ outbox'[i].attempt = outbox[i].attempt
                        /\ outbox'[i].type = outbox[i].type
  BY DEF SameEvents
<1>3. \A t \in Tasks, s \in Settled : EventsOf(t, s)' = EventsOf(t, s)
  BY <1>1, <1>2 DEF EventsOf
<1>4. EventsOwned' /\ AttemptsKnown' /\ AttemptsDistinct'
  BY <1>1, <1>2 DEF TaskInv, EventsOwned, AttemptsKnown, AttemptsDistinct
<1>5. \A t \in Tasks, s \in Settled : task'[t].status = s
        => \E i \in EventsOf(t, s)' : outbox'[i].attempt = task'[t].attempt
  BY <1>1, <1>2, <1>3 DEF TaskInv, OutboxTellsOutcome, EventsOf
<1>6. \A t \in Tasks : task'[t].status # "SUCCEEDED" => EventsOf(t, "SUCCEEDED")' = {}
  BY <1>1, <1>3 DEF TaskInv, OutboxTellsOutcome, Settled
<1>7. QED
  BY <1>1, <1>2, <1>4, <1>5, <1>6 DEF TaskInv, OutboxTellsOutcome

\* Putting a task (back) into the queue, when it has not succeeded.
LEMMA QueueingKeepsTaskInv ==
  ASSUME TypeOK, TaskInv, UNCHANGED outbox, NEW t \in Tasks, NEW row \in Task,
         task[t].status # "SUCCEEDED",
         row.status = "PENDING", row.attempt = NoAttempt,
         task' = [task EXCEPT ![t] = row]
  PROVE  TaskInv'
<1>1. Events' = Events /\ \A u \in Tasks, s \in Settled : EventsOf(u, s)' = EventsOf(u, s)
  BY DEF Events, EventsOf
<1>2. task'[t] = row /\ \A u \in Tasks : u # t => task'[u] = task[u]
  BY DEF TypeOK
<1>3. \A i \in Events : outbox[i].attempt # NoAttempt
  BY Rows, NoAttemptAssumption DEF Event
<1>4. AttemptsKnown' /\ AttemptsDistinct' /\ EventsOwned'
  BY <1>1, <1>2, <1>3 DEF TaskInv, AttemptsKnown, AttemptsDistinct, EventsOwned
<1>5. ASSUME NEW u \in Tasks, NEW s \in Settled, task'[u].status = s
      PROVE  \E i \in EventsOf(u, s)' : outbox'[i].attempt = task'[u].attempt
  <2>1. u # t
    BY <1>2, <1>5 DEF Settled
  <2>2. QED
    BY <1>1, <1>2, <1>5, <2>1 DEF TaskInv, OutboxTellsOutcome
<1>6. \A u \in Tasks : task'[u].status # "SUCCEEDED" => EventsOf(u, "SUCCEEDED")' = {}
  BY <1>1, <1>2 DEF TaskInv, OutboxTellsOutcome, Settled
<1>7. \A u \in Tasks, i \in Events :
        outbox[i].task = u /\ outbox[i].attempt = task'[u].attempt
          => task'[u].status = outbox[i].type
  BY <1>2, <1>3 DEF TaskInv, OutboxTellsOutcome
<1>8. QED
  BY <1>1, <1>4, <1>5, <1>6, <1>7 DEF TaskInv, OutboxTellsOutcome

\* Only time passes for a task.
LEMMA StalingKeepsTaskInv ==
  ASSUME TypeOK, TaskInv, NEW t \in Tasks, TaskGoesStale(t)
  PROVE  TaskInv'
<1>1. Events' = Events /\ \A u \in Tasks, s \in Settled : EventsOf(u, s)' = EventsOf(u, s)
  BY DEF Events, EventsOf, TaskGoesStale
<1>2. \A u \in Tasks : task'[u].status = task[u].status /\ task'[u].attempt = task[u].attempt
  BY Rows DEF TaskGoesStale, TypeOK, Task
<1>3. outbox' = outbox
  BY DEF TaskGoesStale
<1>4. AttemptsKnown' /\ AttemptsDistinct' /\ EventsOwned'
  BY <1>1, <1>2, <1>3 DEF TaskInv, AttemptsKnown, AttemptsDistinct, EventsOwned
<1>5. \A u \in Tasks, s \in Settled : task'[u].status = s
        => \E i \in EventsOf(u, s)' : outbox'[i].attempt = task'[u].attempt
  BY <1>1, <1>2, <1>3 DEF TaskInv, OutboxTellsOutcome
<1>6. \A u \in Tasks : task'[u].status # "SUCCEEDED" => EventsOf(u, "SUCCEEDED")' = {}
  BY <1>1, <1>2 DEF TaskInv, OutboxTellsOutcome, Settled
<1>7. QED
  BY <1>1, <1>2, <1>3, <1>4, <1>5, <1>6 DEF TaskInv, OutboxTellsOutcome

\* A claim draws an attempt nobody else has.
LEMMA ClaimKeepsTaskInv ==
  ASSUME TypeOK, TaskInv, NEW c \in Callers, NEW t \in Tasks, NEW a \in Attempts,
         ClaimTask(c, t, a)
  PROVE  TaskInv'
<1>1. Events' = Events /\ \A u \in Tasks, s \in Settled : EventsOf(u, s)' = EventsOf(u, s)
  BY DEF Events, EventsOf, ClaimTask
<1>2. /\ task'[t].status = "RUNNING" /\ task'[t].attempt = a
      /\ \A u \in Tasks : u # t => task'[u] = task[u]
  BY Rows DEF ClaimTask, TypeOK, Task
<1>3. /\ outbox' = outbox /\ task[t].status = "PENDING"
      /\ \A i \in Events : outbox[i].attempt # a
      /\ \A u \in Tasks : task[u].attempt # a
      /\ a # NoAttempt
  BY NoAttemptAssumption DEF ClaimTask, Unused
<1>4. AttemptsKnown' /\ AttemptsDistinct' /\ EventsOwned'
  BY <1>1, <1>2, <1>3 DEF TaskInv, AttemptsKnown, AttemptsDistinct, EventsOwned
<1>5. ASSUME NEW u \in Tasks, NEW s \in Settled, task'[u].status = s
      PROVE  \E i \in EventsOf(u, s)' : outbox'[i].attempt = task'[u].attempt
  <2>1. u # t
    BY <1>2, <1>5 DEF Settled
  <2>2. QED
    BY <1>1, <1>2, <1>3, <1>5, <2>1 DEF TaskInv, OutboxTellsOutcome
<1>6. \A u \in Tasks : task'[u].status # "SUCCEEDED" => EventsOf(u, "SUCCEEDED")' = {}
  BY <1>1, <1>2, <1>3 DEF TaskInv, OutboxTellsOutcome, Settled
<1>7. \A u \in Tasks, i \in Events :
        outbox[i].task = u /\ outbox[i].attempt = task'[u].attempt
          => task'[u].status = outbox[i].type
  BY <1>2, <1>3 DEF TaskInv, OutboxTellsOutcome
<1>8. QED
  BY <1>1, <1>3, <1>4, <1>5, <1>6, <1>7 DEF TaskInv, OutboxTellsOutcome

\* What a report of the run's owner changes: its task's status, and one new event
\* at the end of the outbox.
LEMMA SettleEffect ==
  ASSUME TypeOK, NEW c \in Callers, NEW status \in Settled,
         caller[c].pc # "idle", OwnsRun(c), Settle(c, status),
         NEW t, t = caller[c].task, NEW a, a = caller[c].attempt,
         NEW n, n = Len(outbox) + 1
  PROVE  /\ t \in Tasks /\ a \in Attempts
         /\ task[t].status = "RUNNING" /\ task[t].attempt = a
         /\ task'[t].status = status /\ task'[t].attempt = a
         /\ \A u \in Tasks : u # t => task'[u] = task[u]
         /\ \A u \in Tasks : task'[u].retries = task[u].retries
         /\ n \notin Events /\ Events' = Events \cup {n}
         /\ \A i \in Events : outbox'[i] = outbox[i]
         /\ outbox'[n] = NewEvent(t, a, status)
         /\ outbox'[n].task = t /\ outbox'[n].attempt = a /\ outbox'[n].type = status
         /\ \A u \in Tasks, s \in Settled :
              EventsOf(u, s)' = IF u = t /\ s = status THEN EventsOf(u, s) \cup {n}
                                                       ELSE EventsOf(u, s)
<1>1. t \in Tasks /\ a \in Attempts /\ task[t].status = "RUNNING" /\ task[t].attempt = a
  BY Rows DEF OwnsRun
<1>2. /\ task'[t].status = status /\ task'[t].attempt = a
      /\ \A u \in Tasks : u # t => task'[u] = task[u]
      /\ \A u \in Tasks : task'[u].retries = task[u].retries
  BY <1>1, Rows DEF Settle, TypeOK, Task
<1>3. NewEvent(t, a, status) \in Event
  BY <1>1 DEF NewEvent, Event
<1>4. /\ n \notin Events /\ Events' = Events \cup {n}
      /\ \A i \in Events : outbox'[i] = outbox[i]
      /\ outbox'[n] = NewEvent(t, a, status)
  BY <1>3, Rows, AppendFacts DEF Settle, Events
<1>5. outbox'[n].task = t /\ outbox'[n].attempt = a /\ outbox'[n].type = status
  BY <1>4 DEF NewEvent
<1>6. \A u \in Tasks, s \in Settled :
        EventsOf(u, s)' = IF u = t /\ s = status THEN EventsOf(u, s) \cup {n}
                                                 ELSE EventsOf(u, s)
  BY <1>4, <1>5 DEF EventsOf
<1>7. QED
  BY <1>1, <1>2, <1>4, <1>5, <1>6

\* The attempt that owns the run reports it: the first and only event it leaves.
LEMMA SettleKeepsTaskInv ==
  ASSUME TypeOK, TaskInv, NEW c \in Callers, NEW status \in Settled,
         caller[c].pc # "idle", OwnsRun(c), Settle(c, status)
  PROVE  TaskInv'
<1> DEFINE t == caller[c].task
           a == caller[c].attempt
           n == Len(outbox) + 1
<1>1. t \in Tasks /\ a \in Attempts /\ task[t].status = "RUNNING" /\ task[t].attempt = a
  BY SettleEffect
<1>2. /\ task'[t].status = status /\ task'[t].attempt = a
      /\ \A u \in Tasks : u # t => task'[u] = task[u]
  BY SettleEffect
<1>4. /\ n \notin Events /\ Events' = Events \cup {n}
      /\ \A i \in Events : outbox'[i] = outbox[i]
  BY SettleEffect
<1>5. outbox'[n].task = t /\ outbox'[n].attempt = a /\ outbox'[n].type = status
  BY SettleEffect
<1>6. \A i \in Events : outbox[i].attempt # a
  <2>1. \A i \in Events : outbox[i].attempt = a => outbox[i].task = t
    BY <1>1 DEF TaskInv, EventsOwned
  <2>2. \A i \in Events : outbox[i].attempt = a => outbox[i].type = "RUNNING"
    BY <1>1, <2>1 DEF TaskInv, OutboxTellsOutcome
  <2>3. QED
    BY <2>2, Rows DEF Event, Settled
<1>7. \A u \in Tasks : u # t => task[u].attempt # a
  BY <1>1, NoAttemptAssumption DEF TaskInv, AttemptsDistinct
<1>8. \A u \in Tasks, s \in Settled :
        EventsOf(u, s)' = IF u = t /\ s = status THEN EventsOf(u, s) \cup {n}
                                                 ELSE EventsOf(u, s)
  BY SettleEffect
<1>9. AttemptsKnown' /\ AttemptsDistinct'
  BY <1>1, <1>2 DEF TaskInv, AttemptsKnown, AttemptsDistinct, Settled
<1>10. EventsOwned'
  BY <1>1, <1>2, <1>4, <1>5, <1>7 DEF TaskInv, EventsOwned
<1>11. ASSUME NEW u \in Tasks, NEW s \in Settled, task'[u].status = s
       PROVE  \E i \in EventsOf(u, s)' : outbox'[i].attempt = task'[u].attempt
  <2>1. CASE u = t
    BY <1>2, <1>5, <1>8, <1>11, <2>1
  <2>2. CASE u # t
    <3>1. PICK i \in EventsOf(u, s) : outbox[i].attempt = task[u].attempt
      BY <1>2, <1>11, <2>2 DEF TaskInv, OutboxTellsOutcome
    <3>2. i \in Events
      BY <3>1 DEF EventsOf
    <3>3. QED
      BY <1>2, <1>4, <1>8, <2>2, <3>1, <3>2
  <2>3. QED
    BY <2>1, <2>2
<1>12. \A u \in Tasks : task'[u].status # "SUCCEEDED" => EventsOf(u, "SUCCEEDED")' = {}
  BY <1>1, <1>2, <1>8 DEF TaskInv, OutboxTellsOutcome, Settled
<1>13. \A u \in Tasks, i \in Events' :
         outbox'[i].task = u /\ outbox'[i].attempt = task'[u].attempt
           => task'[u].status = outbox'[i].type
  BY <1>1, <1>2, <1>4, <1>5, <1>6 DEF TaskInv, OutboxTellsOutcome
<1>14. \A i, j \in Events' : outbox'[i].attempt = outbox'[j].attempt => i = j
  BY <1>4, <1>5, <1>6 DEF TaskInv, OutboxTellsOutcome
<1>15. QED
  BY <1>9, <1>10, <1>11, <1>12, <1>13, <1>14 DEF TaskInv, OutboxTellsOutcome

\* The row a retry writes.
LEMMA RetryRow ==
  ASSUME NEW row \in Task
  PROVE  /\ Requeued(row) \in Task /\ Requeued(row).retries = row.retries
         /\ Requeued(row).status = "PENDING"
         /\ row.retries < MaxRetries => Retried(row) \in Task
         /\ Retried(row).status = "PENDING" /\ Retried(row).attempt = NoAttempt
         /\ Retried(row).retries = row.retries + 1
<1>1. Requeued(row) \in Task /\ Requeued(row).retries = row.retries
      /\ Requeued(row).status = "PENDING" /\ Requeued(row).attempt = NoAttempt
  BY DEF Requeued, Task, TaskStatus
<1>2. row.retries \in 0..MaxRetries
  BY DEF Task
<1>3. row.retries < MaxRetries => row.retries + 1 \in 0..MaxRetries
  BY <1>2, MaxRetriesAssumption
<1>4. QED
  BY <1>1, <1>3 DEF Task, Retried

\* Every step keeps the tasks, the attempts and the events together.
LEMMA NextKeepsTaskInv ==
  ASSUME TypeOK, TaskInv, [Next]_vars
  PROVE  TaskInv'
<1>0. ASSUME UNCHANGED <<task, outbox>> PROVE TaskInv'
  BY <1>0 DEF TaskInv, OutboxTellsOutcome, AttemptsKnown, AttemptsDistinct, EventsOwned,
              EventsOf, Events
<1>1. ASSUME NEW t \in Tasks, TaskStep(t) PROVE TaskInv'
  <2>1. CASE CreateTask(t)
    <3>1. task' = [task EXCEPT ![t] = [task[t] EXCEPT !.status = "PENDING"]]
      BY <2>1 DEF CreateTask, TypeOK
    <3>2. task[t].attempt = NoAttempt /\ task[t].status = "NONE"
      BY <2>1 DEF CreateTask, TaskInv, AttemptsKnown
    <3>3. [task[t] EXCEPT !.status = "PENDING"] \in Task
      BY Rows DEF Task, TaskStatus
    <3>4. /\ [task[t] EXCEPT !.status = "PENDING"].status = "PENDING"
          /\ [task[t] EXCEPT !.status = "PENDING"].attempt = NoAttempt
      BY <3>2, Rows DEF Task
    <3>5. QED
      BY <2>1, <3>1, <3>2, <3>3, <3>4, QueueingKeepsTaskInv DEF CreateTask
  <2>2. CASE TaskGoesStale(t)
    BY <2>2, StalingKeepsTaskInv
  <2>3. CASE ReclaimTask(t)
    <3>1. Requeued(task[t]) \in Task /\ Requeued(task[t]).status = "PENDING"
          /\ Requeued(task[t]).attempt = NoAttempt
      BY Rows DEF Requeued, Task, TaskStatus
    <3>2. QED
      BY <2>3, <3>1, QueueingKeepsTaskInv DEF ReclaimTask
  <2>4. QED
    BY <1>1, <2>1, <2>2, <2>3 DEF TaskStep
<1>2. ASSUME NEW c \in Callers, CallerStep(c) PROVE TaskInv'
  <2>1. ASSUME NEW t \in Tasks, NEW a \in Attempts, ClaimTask(c, t, a) PROVE TaskInv'
    BY <2>1, ClaimKeepsTaskInv
  <2>2. CASE Succeed(c)
    BY <2>2, <1>0, SettleKeepsTaskInv DEF Succeed, Doing, Settled
  <2>3. CASE Fail(c)
    BY <2>3, <1>0, SettleKeepsTaskInv DEF Fail, Doing, Settled
  <2>4. CASE Retry(c)
    <3> DEFINE t == caller[c].task
               row == Retried(task[t])
    <3>1. CASE MayRetry(c)
      <4>1. t \in Tasks /\ task[t] \in Task
        BY Rows
      <4>2. row \in Task /\ row.status = "PENDING" /\ row.attempt = NoAttempt
        BY <3>1, <4>1, RetryRow DEF MayRetry
      <4>3. task' = [task EXCEPT ![t] = row]
        BY <2>4, <3>1, <4>1 DEF Retry, TypeOK
      <4>4. QED
        BY <2>4, <3>1, <4>1, <4>2, <4>3, QueueingKeepsTaskInv DEF Retry, MayRetry
    <3>2. CASE ~MayRetry(c)
      BY <2>4, <3>2, <1>0 DEF Retry
    <3>3. QED
      BY <3>1, <3>2
  <2>5. CASE \/ \E pc \in {"succeed", "fail"} : WorkEnds(c, pc)
             \/ \E t \in Tasks : ReadFailure(c, t)
             \/ CallerLost(c)
    BY <2>5, <1>0 DEF WorkEnds, ReadFailure, CallerLost
  <2>6. QED
    BY <1>2, <2>1, <2>2, <2>3, <2>4, <2>5 DEF CallerStep
<1>3. ASSUME NEW p \in Publishers, PublisherStep(p) PROVE TaskInv'
  BY <1>3, PublisherKeepsEvents, PublishingKeepsTaskInv
<1>4. ASSUME NEW i \in Events, EventGoesStale(i) PROVE TaskInv'
  BY <1>4, StalingKeepsEvents, PublishingKeepsTaskInv
<1>5. CASE UNCHANGED vars
  BY <1>5, <1>0 DEF vars
<1>6. QED
  BY <1>1, <1>2, <1>3, <1>4, <1>5 DEF Next

-----------------------------------------------------------------------------
(* Types, and what publishers know.                                         *)

\* The part of the type invariant a worker's step can disturb.
TaskSideType == /\ task \in [Tasks -> Task]
                /\ outbox \in Seq(Event)
                /\ caller \in [Callers -> Caller]

\* A caller that goes on, or returns, is a caller.
LEMMA CallerMoves ==
  ASSUME TypeOK, NEW c \in Callers
  PROVE  /\ CallerReturns(c) => caller' \in [Callers -> Caller]
         /\ \A pc \in {"work", "succeed", "fail", "retry"}, t \in Tasks, a \in Attempts :
              CallerAt(c, pc, t, a) => caller' \in [Callers -> Caller]
BY DEF TypeOK, Caller, CallerReturns, CallerAt

\* Reporting leaves a task row and an event.
LEMMA SettleType ==
  ASSUME TypeOK, NEW c \in Callers, NEW status \in Settled,
         caller[c].pc # "idle", Settle(c, status)
  PROVE  task' \in [Tasks -> Task] /\ outbox' \in Seq(Event) /\ Events \subseteq Events'
<1> DEFINE t == caller[c].task
<1>1. t \in Tasks /\ caller[c].attempt \in Attempts
  BY Rows
<1>2. [task[t] EXCEPT !.status = status] \in Task
  BY <1>1, Rows DEF Task, TaskStatus
<1>3. task' \in [Tasks -> Task]
  BY <1>1, <1>2 DEF Settle, TypeOK
<1>4. NewEvent(t, caller[c].attempt, status) \in Event
  BY <1>1 DEF NewEvent, Event
<1>5. QED
  BY <1>3, <1>4, Rows, AppendFacts DEF Settle, Events

\* The worker's side keeps its types and forgets no event.
LEMMA TaskSideKeepsTypes ==
  ASSUME TypeOK, TaskInv,
         \/ \E t \in Tasks : TaskStep(t)
         \/ \E c \in Callers : CallerStep(c)
  PROVE  TaskSideType' /\ Events \subseteq Events' /\ UNCHANGED publishVars
<1> USE DEF TaskSideType
<1>0. task \in [Tasks -> Task] /\ outbox \in Seq(Event) /\ caller \in [Callers -> Caller]
  BY DEF TypeOK
<1>1. ASSUME NEW t \in Tasks, TaskStep(t)
      PROVE  TaskSideType' /\ Events \subseteq Events' /\ UNCHANGED publishVars
  <2>1. /\ [task[t] EXCEPT !.status = "PENDING"] \in Task
        /\ [task[t] EXCEPT !.stale = TRUE] \in Task
        /\ Requeued(task[t]) \in Task
    BY Rows DEF Task, TaskStatus, Requeued
  <2>2. task' \in [Tasks -> Task] /\ UNCHANGED <<outbox, caller, publishVars>>
    BY <1>0, <1>1, <2>1 DEF TaskStep, CreateTask, TaskGoesStale, ReclaimTask
  <2>3. QED
    BY <1>0, <2>2 DEF Events
<1>2. ASSUME NEW c \in Callers, CallerStep(c)
      PROVE  TaskSideType' /\ Events \subseteq Events' /\ UNCHANGED publishVars
  <2>1. ASSUME NEW t \in Tasks, NEW a \in Attempts, ClaimTask(c, t, a)
        PROVE  TaskSideType' /\ Events \subseteq Events' /\ UNCHANGED publishVars
    <3>1. task' = [task EXCEPT ![t] = [task[t] EXCEPT !.status = "RUNNING",
                                                       !.attempt = a, !.stale = FALSE]]
      BY <2>1, Rows DEF ClaimTask, TypeOK, Task
    <3>2. [task[t] EXCEPT !.status = "RUNNING", !.attempt = a, !.stale = FALSE] \in Task
      BY Rows DEF Task, TaskStatus
    <3>3. task' \in [Tasks -> Task]
      BY <1>0, <3>1, <3>2
    <3>4. QED
      BY <1>0, <2>1, <3>3, CallerMoves DEF ClaimTask, Events
  <2>2. CASE \E pc \in {"succeed", "fail"} : WorkEnds(c, pc)
    BY <1>0, <2>2, Rows, CallerMoves DEF WorkEnds, Doing, Events
  <2>3. CASE Succeed(c)
    <3>1. UNCHANGED <<task, outbox>> \/ Settle(c, "SUCCEEDED")
      BY <2>3 DEF Succeed
    <3>2. QED
      BY <1>0, <2>3, <3>1, SettleType, CallerMoves DEF Succeed, Doing, Settled, Events
  <2>4. CASE Fail(c)
    <3>1. UNCHANGED <<task, outbox>> \/ Settle(c, "FAILED")
      BY <2>4 DEF Fail
    <3>2. caller' \in [Callers -> Caller] /\ caller[c].pc # "idle"
      BY <2>4, Rows, CallerMoves DEF Fail, Doing
    <3>3. QED
      BY <1>0, <2>4, <3>1, <3>2, SettleType DEF Fail, Settled, Events
  <2>5. ASSUME NEW t \in Tasks, ReadFailure(c, t)
        PROVE  TaskSideType' /\ Events \subseteq Events' /\ UNCHANGED publishVars
    <3>1. task[t].attempt \in Attempts
      BY <2>5, Rows DEF ReadFailure, TaskInv, AttemptsKnown, Task
    <3>2. QED
      BY <1>0, <2>5, <3>1, CallerMoves DEF ReadFailure, Events
  <2>6. CASE Retry(c)
    <3>1. caller[c].task \in Tasks /\ task[caller[c].task] \in Task
      BY Rows
    <3>2. MayRetry(c) => Retried(task[caller[c].task]) \in Task
      BY <3>1, RetryRow DEF MayRetry
    <3>3. task' \in [Tasks -> Task]
      BY <1>0, <2>6, <3>1, <3>2 DEF Retry
    <3>4. QED
      BY <1>0, <2>6, <3>3, CallerMoves DEF Retry, Events
  <2>7. CASE CallerLost(c)
    BY <1>0, <2>7, CallerMoves DEF CallerLost, Events
  <2>8. QED
    BY <1>2, <2>1, <2>2, <2>3, <2>4, <2>5, <2>6, <2>7 DEF CallerStep
<1>3. QED
  BY <1>1, <1>2

\* It neither rewrites an event nor confirms one.
LEMMA ReportsUnpublished ==
  ASSUME TypeOK, PublishedWasDelivered,
         \/ \E t \in Tasks : TaskStep(t)
         \/ \E c \in Callers : CallerStep(c)
  PROVE  /\ \A i \in Events : outbox'[i] = outbox[i]
         /\ \A i \in Events' : outbox'[i].published => i \in delivered
<1>1. ASSUME UNCHANGED outbox
      PROVE  /\ \A i \in Events : outbox'[i] = outbox[i]
             /\ \A i \in Events' : outbox'[i].published => i \in delivered
  BY <1>1 DEF PublishedWasDelivered, Events
<1>2. ASSUME NEW c \in Callers, NEW status \in Settled,
             caller[c].pc # "idle", Settle(c, status)
      PROVE  /\ \A i \in Events : outbox'[i] = outbox[i]
             /\ \A i \in Events' : outbox'[i].published => i \in delivered
  <2> DEFINE e == NewEvent(caller[c].task, caller[c].attempt, status)
  <2>1. e \in Event /\ ~e.published
    BY <1>2, Rows DEF NewEvent, Event
  <2>2. /\ Events' = Events \cup {Len(outbox) + 1}
        /\ \A i \in Events : outbox'[i] = outbox[i]
        /\ outbox'[Len(outbox) + 1] = e
    BY <1>2, <2>1, Rows, AppendFacts DEF Settle, Events
  <2>3. QED
    BY <2>1, <2>2 DEF PublishedWasDelivered
<1>3. QED
  <2>1. ASSUME NEW t \in Tasks, TaskStep(t) PROVE UNCHANGED outbox
    BY <2>1 DEF TaskStep, CreateTask, TaskGoesStale, ReclaimTask
  <2>2. ASSUME NEW c \in Callers, CallerStep(c)
        PROVE  \/ UNCHANGED outbox
               \/ caller[c].pc # "idle" /\ \E status \in Settled : Settle(c, status)
    BY <2>2 DEF CallerStep, ClaimTask, WorkEnds, Succeed, Fail, ReadFailure, Retry,
       CallerLost, Doing, Settled
  <2>3. QED
    BY <1>1, <1>2, <2>1, <2>2

\* The part of the invariant a publisher's step can disturb.
PublisherInv ==
  /\ publisher \in [Publishers -> [pc : {"idle", "claim", "publish", "mark"},
                                   event : {0} \cup Events]]
  /\ \A p \in Publishers : publisher[p].pc \in {"publish", "mark"}
                             => publisher[p].event \in Events
  /\ delivered \subseteq Events
  /\ PublishedWasDelivered /\ SentBeforeMark

\* A publisher confirms only what it has sent.
LEMMA PublisherKeepsInv ==
  ASSUME TypeOK, PublisherInv, NEW p \in Publishers, PublisherStep(p)
  PROVE  PublisherInv'
<1>0. Events' = Events
  BY PublisherKeepsEvents DEF SameEvents, Events
<1>1. CASE ReclaimEvents(p)
  <2>1. \A i \in Events : outbox'[i].published = outbox[i].published
    BY <1>1, Rows DEF ReclaimEvents, Released, Event
  <2>2. QED
    BY <1>0, <1>1, <2>1 DEF ReclaimEvents, AtStep, GoToStep, PublisherInv,
       PublishedWasDelivered, SentBeforeMark
<1>2. ASSUME NEW i \in Events, ClaimEvent(p, i) PROVE PublisherInv'
  <2>1. \A j \in Events : outbox'[j].published = outbox[j].published
    BY <1>2, Rows DEF ClaimEvent, LeasedTo, Event
  <2>2. QED
    BY <1>0, <1>2, <2>1 DEF ClaimEvent, PublisherInv, PublishedWasDelivered,
       SentBeforeMark
<1>3. CASE Publish(p) \/ PublishFails(p)
  <2>1. publisher[p].event \in Events
    BY <1>3 DEF Publish, PublishFails, AtStep, PublisherInv
  <2>2. QED
    BY <1>0, <1>3, <2>1 DEF Publish, PublishFails, AtStep, GoToStep, PublisherReturns,
       IdlePublisher, PublisherInv, PublishedWasDelivered, SentBeforeMark, taskVars
<1>4. CASE MarkPublished(p)
  <2>1. publisher[p].event \in Events /\ publisher[p].event \in delivered
    BY <1>4 DEF MarkPublished, AtStep, PublisherInv, SentBeforeMark
  <2>2. \A i \in Events : i # publisher[p].event => outbox'[i] = outbox[i]
    <3>1. outbox' = outbox
          \/ outbox' = [outbox EXCEPT ![publisher[p].event] =
                          [Released(outbox[publisher[p].event]) EXCEPT !.published = TRUE]]
      BY <1>4 DEF MarkPublished
    <3>2. QED
      BY <2>1, <3>1 DEF Events
  <2>3. QED
    BY <1>0, <1>4, <2>1, <2>2 DEF MarkPublished, PublisherReturns, IdlePublisher,
       PublisherInv, PublishedWasDelivered, SentBeforeMark
<1>5. CASE NothingToPublish(p) \/ PublisherLost(p)
  BY <1>0, <1>5 DEF NothingToPublish, PublisherLost, PublisherReturns, IdlePublisher,
     PublisherInv, PublishedWasDelivered, SentBeforeMark, taskVars
<1>6. QED
  BY <1>1, <1>2, <1>3, <1>4, <1>5 DEF PublisherStep

-----------------------------------------------------------------------------
(* The invariant.                                                           *)

\* An empty queue satisfies it.
LEMMA InitQueueInv == Init => QueueInv
<1> SUFFICES ASSUME Init PROVE QueueInv
  OBVIOUS
<1>1. outbox \in Seq(Event) /\ Events = {}
  BY DEF Init, Events
<1>2. TypeOK
  BY <1>1, MaxRetriesAssumption DEF Init, TypeOK, NoTask, Task, TaskStatus, Caller,
     IdlePublisher
<1>3. OutboxTellsOutcome /\ AttemptsKnown /\ AttemptsDistinct /\ EventsOwned
  BY <1>1 DEF Init, NoTask, OutboxTellsOutcome, EventsOf, AttemptsKnown,
     AttemptsDistinct, EventsOwned, Settled
<1>4. PublishedWasDelivered /\ SentBeforeMark
  BY <1>1 DEF Init, IdlePublisher, PublishedWasDelivered, SentBeforeMark
<1>5. QED
  BY <1>2, <1>3, <1>4 DEF QueueInv

\* Every step keeps it.
LEMMA NextQueueInv == QueueInv /\ [Next]_vars => QueueInv'
<1> SUFFICES ASSUME QueueInv, [Next]_vars PROVE QueueInv'
  OBVIOUS
<1>0. TypeOK /\ TaskInv /\ PublisherInv
  BY DEF QueueInv, TaskInv, PublisherInv, TypeOK
<1>1. TaskInv'
  BY <1>0, NextKeepsTaskInv
<1>2. TaskSideType' /\ PublisherInv'
  <2>1. CASE \/ \E t \in Tasks : TaskStep(t)
             \/ \E c \in Callers : CallerStep(c)
    <3>1. TaskSideType' /\ Events \subseteq Events' /\ UNCHANGED publishVars
      BY <1>0, <2>1, TaskSideKeepsTypes
    <3>2. \A i \in Events' : outbox'[i].published => i \in delivered
      BY <1>0, <2>1, ReportsUnpublished DEF PublisherInv
    <3>3. QED
      BY <1>0, <3>1, <3>2 DEF publishVars, PublisherInv, PublishedWasDelivered,
         SentBeforeMark
  <2>2. ASSUME NEW p \in Publishers, PublisherStep(p)
        PROVE  TaskSideType' /\ PublisherInv'
    BY <1>0, <2>2, PublisherKeepsEvents, PublisherKeepsInv
       DEF SameEvents, TaskSideType, TypeOK
  <2>3. ASSUME NEW i \in Events, EventGoesStale(i)
        PROVE  TaskSideType' /\ PublisherInv'
    <3>1. SameEvents
      BY <1>0, <2>3, StalingKeepsEvents
    <3>2. \A j \in Events : outbox'[j].published = outbox[j].published
      BY <1>0, <2>3, Rows DEF EventGoesStale, Event
    <3>3. QED
      BY <1>0, <2>3, <3>1, <3>2 DEF SameEvents, TaskSideType, TypeOK, EventGoesStale,
         publishVars, PublisherInv, PublishedWasDelivered, SentBeforeMark, Events
  <2>4. CASE UNCHANGED vars
    BY <1>0, <2>4 DEF vars, TaskSideType, PublisherInv, PublishedWasDelivered,
       SentBeforeMark, Events, TypeOK
  <2>5. QED
    BY <2>1, <2>2, <2>3, <2>4 DEF Next
<1>3. QED
  BY <1>1, <1>2 DEF QueueInv, TaskInv, TaskSideType, PublisherInv, TypeOK

\* The invariant of every execution.
THEOREM QueueInvariant == Spec => []QueueInv
<1>1. QED
  BY InitQueueInv, NextQueueInv, PTL DEF Spec

\* Rows, callers, publishers and events are always what the schema allows.
THEOREM QueueTypeCorrect == Spec => []TypeOK
<1>1. QueueInv => TypeOK
  BY DEF QueueInv
<1>2. QED
  BY <1>1, QueueInvariant, PTL

\* An attempt that was taken over never reports, and the outbox tells exactly what
\* the task rows tell.
THEOREM OutboxAgrees == Spec => []OutboxTellsOutcome
<1>1. QueueInv => OutboxTellsOutcome
  BY DEF QueueInv
<1>2. QED
  BY <1>1, QueueInvariant, PTL

\* No event is confirmed that was never sent.
THEOREM DeliveredAtLeastOnce == Spec => []PublishedWasDelivered
<1>1. QueueInv => PublishedWasDelivered
  BY DEF QueueInv
<1>2. QED
  BY <1>1, QueueInvariant, PTL

-----------------------------------------------------------------------------
(* Counting failures.                                                       *)

Failed(t) == IF task[t].status = "FAILED" THEN 1 ELSE 0

\* The outbox is finite, so its failures can be counted.
LEMMA FiniteEvents ==
  ASSUME TypeOK, NEW t \in Tasks
  PROVE  IsFiniteSet(EventsOf(t, "FAILED")) /\ Cardinality(EventsOf(t, "FAILED")) \in Nat
<1>1. Len(outbox) \in Nat /\ Events = 1..Len(outbox)
  BY Rows, LenProperties DEF Events
<1>2. IsFiniteSet(Events)
  BY <1>1, FS_Interval
<1>3. EventsOf(t, "FAILED") \in SUBSET Events
  BY DEF EventsOf
<1>4. QED
  BY <1>2, <1>3, FS_Subset, FS_CardinalityType

\* A step that keeps events, counts and the failed states keeps the balance.
LEMMA BalanceKept ==
  ASSUME RetriesCountFailures,
         \A t \in Tasks : EventsOf(t, "FAILED")' = EventsOf(t, "FAILED"),
         \A t \in Tasks : task'[t].retries = task[t].retries /\ Failed(t)' = Failed(t)
  PROVE  RetriesCountFailures'
BY DEF RetriesCountFailures, Failed

\* A failure reported adds one event and is not yet retried.
LEMMA SettleKeepsBalance ==
  ASSUME TypeOK, RetriesCountFailures, NEW c \in Callers, NEW status \in Settled,
         caller[c].pc # "idle", OwnsRun(c), Settle(c, status)
  PROVE  RetriesCountFailures'
<1>0. PICK t \in Tasks : t = caller[c].task
  BY Rows
<1>n. PICK n \in Nat : n = Len(outbox) + 1
  BY Rows, LenProperties
<1>1. /\ t \in Tasks /\ task[t].status = "RUNNING" /\ task'[t].status = status
      /\ \A u \in Tasks : u # t => task'[u] = task[u]
      /\ \A u \in Tasks : task'[u].retries = task[u].retries
      /\ n \notin Events
  BY <1>0, <1>n, SettleEffect
<1>2. \A u \in Tasks, s \in Settled :
        EventsOf(u, s)' = IF u = t /\ s = status THEN EventsOf(u, s) \cup {n}
                                                 ELSE EventsOf(u, s)
  BY <1>0, <1>n, SettleEffect
<1>3. CASE status = "SUCCEEDED"
  <2>1. \A u \in Tasks : EventsOf(u, "FAILED")' = EventsOf(u, "FAILED")
    BY <1>2, <1>3 DEF Settled
  <2>2. \A u \in Tasks : Failed(u)' = Failed(u)
    BY <1>1, <1>3 DEF Failed
  <2>3. QED
    BY <1>1, <2>1, <2>2, BalanceKept
<1>4. CASE status = "FAILED"
  <2>1. n \notin EventsOf(t, "FAILED")
    BY <1>1 DEF EventsOf
  <2>3. Cardinality(EventsOf(t, "FAILED") \cup {n}) = Cardinality(EventsOf(t, "FAILED")) + 1
    BY <1>1, <2>1, FiniteEvents, FS_AddElement
  <2>4. \A u \in Tasks : u # t => EventsOf(u, "FAILED")' = EventsOf(u, "FAILED")
    BY <1>2 DEF Settled
  <2>5. Cardinality(EventsOf(t, "FAILED")) = task[t].retries + 0
    BY <1>1 DEF RetriesCountFailures
  <2>6. ASSUME NEW u \in Tasks
        PROVE  Cardinality(EventsOf(u, "FAILED")')
                 = task'[u].retries + (IF task'[u].status = "FAILED" THEN 1 ELSE 0)
    <3>1. CASE u = t
      <4>1. task[t].retries \in Nat
        BY <1>1, Rows, MaxRetriesAssumption DEF Task
      <4>2. Cardinality(EventsOf(u, "FAILED")') = task[t].retries + 1
        <5>1. EventsOf(u, "FAILED")' = EventsOf(t, "FAILED") \cup {n}
          BY <1>2, <1>4, <3>1 DEF Settled
        <5>2. Cardinality(EventsOf(u, "FAILED")') = Cardinality(EventsOf(t, "FAILED") \cup {n})
          BY <5>1, Zenon
        <5>3. Cardinality(EventsOf(t, "FAILED")) = task[t].retries
          BY <2>5, <4>1
        <5>4. QED
          BY <2>3, <5>2, <5>3, Zenon
      <4>3. QED
        BY <1>1, <1>4, <3>1, <4>2
    <3>2. CASE u # t
      BY <1>1, <2>4, <3>2 DEF RetriesCountFailures
    <3>3. QED
      BY <3>1, <3>2
  <2>7. QED
    BY <2>6 DEF RetriesCountFailures
<1>5. QED
  BY <1>3, <1>4 DEF Settled

\* A retry answers the failure it finds.
LEMMA RetryKeepsBalance ==
  ASSUME TypeOK, RetriesCountFailures, NEW c \in Callers, Retry(c), MayRetry(c)
  PROVE  RetriesCountFailures'
<1> DEFINE t == caller[c].task
<1>1. t \in Tasks /\ task[t] \in Task
  BY Rows
<1>2. task' = [task EXCEPT ![t] = Retried(task[t])]
  BY <1>1 DEF Retry
<1>3. /\ task[t].status = "FAILED" /\ task[t].retries \in Nat
      /\ task'[t].status = "PENDING" /\ task'[t].retries = task[t].retries + 1
      /\ \A u \in Tasks : u # t => task'[u] = task[u]
  BY <1>1, <1>2, RetryRow, MaxRetriesAssumption DEF MayRetry, TypeOK, Task
<1>4. \A u \in Tasks : EventsOf(u, "FAILED")' = EventsOf(u, "FAILED")
  BY DEF Retry, EventsOf, Events
<1>5. QED
  BY <1>1, <1>3, <1>4 DEF RetriesCountFailures

\* Every failure reported is either the current state of its task or was answered
\* by exactly one retry.
THEOREM FailuresCounted == Spec => []RetriesCountFailures
<1>1. Init => RetriesCountFailures
  BY FS_EmptySet DEF Init, NoTask, RetriesCountFailures, EventsOf, Events
<1>2. QueueInv /\ RetriesCountFailures /\ [Next]_vars => RetriesCountFailures'
  <2> SUFFICES ASSUME QueueInv, RetriesCountFailures, [Next]_vars
               PROVE  RetriesCountFailures'
    OBVIOUS
  <2>0. TypeOK
    BY DEF QueueInv
  <2>1. ASSUME UNCHANGED outbox,
               \A t \in Tasks : task'[t].retries = task[t].retries /\ Failed(t)' = Failed(t)
        PROVE  RetriesCountFailures'
    <3>1. \A t \in Tasks : EventsOf(t, "FAILED")' = EventsOf(t, "FAILED")
      BY <2>1 DEF EventsOf, Events
    <3>2. QED
      BY <2>1, <3>1, BalanceKept
  <2>2. ASSUME NEW t \in Tasks, TaskStep(t) PROVE RetriesCountFailures'
    <3>1. /\ \A u \in Tasks : u # t => task'[u] = task[u]
          /\ task[t].status \in {"NONE", "RUNNING"} /\ task[t] \in Task
          /\ UNCHANGED outbox
          /\ \/ task'[t] = Requeued(task[t])
             \/ task'[t] = [task[t] EXCEPT !.stale = TRUE]
             \/ task'[t] = [task[t] EXCEPT !.status = "PENDING"]
      BY <2>0, <2>2, Rows DEF TaskStep, CreateTask, TaskGoesStale, ReclaimTask, TypeOK
    <3>2. task'[t].retries = task[t].retries /\ task'[t].status # "FAILED"
      <4>1. CASE task'[t] = Requeued(task[t])
        BY <3>1, <4>1, RetryRow
      <4>2. CASE task'[t] = [task[t] EXCEPT !.stale = TRUE]
        BY <3>1, <4>2 DEF Task
      <4>3. CASE task'[t] = [task[t] EXCEPT !.status = "PENDING"]
        BY <3>1, <4>3 DEF Task
      <4>4. QED
        BY <3>1, <4>1, <4>2, <4>3
    <3>3. QED
      BY <2>1, <3>1, <3>2 DEF Failed
  <2>3. ASSUME NEW c \in Callers, CallerStep(c) PROVE RetriesCountFailures'
    <3>1. ASSUME UNCHANGED <<task, outbox>> PROVE RetriesCountFailures'
      BY <3>1, <2>1 DEF Failed
    <3>2. ASSUME NEW t \in Tasks, NEW a \in Attempts, ClaimTask(c, t, a)
          PROVE  RetriesCountFailures'
      <4>1. \A u \in Tasks : task'[u].retries = task[u].retries /\ Failed(u)' = Failed(u)
        BY <2>0, <3>2, Rows DEF ClaimTask, Failed, TypeOK, Task
      <4>2. QED
        BY <2>1, <3>2, <4>1 DEF ClaimTask
    <3>3. CASE Succeed(c)
      BY <2>0, <3>1, <3>3, SettleKeepsBalance DEF Succeed, Doing, Settled
    <3>4. CASE Fail(c)
      BY <2>0, <3>1, <3>4, SettleKeepsBalance DEF Fail, Doing, Settled
    <3>5. CASE Retry(c)
      <4>1. CASE MayRetry(c)
        BY <2>0, <3>5, <4>1, RetryKeepsBalance
      <4>2. CASE ~MayRetry(c)
        BY <3>1, <3>5, <4>2 DEF Retry
      <4>3. QED
        BY <4>1, <4>2
    <3>6. CASE \/ \E pc \in {"succeed", "fail"} : WorkEnds(c, pc)
               \/ \E t \in Tasks : ReadFailure(c, t)
               \/ CallerLost(c)
      BY <3>1, <3>6 DEF WorkEnds, ReadFailure, CallerLost
    <3>7. QED
      BY <2>3, <3>2, <3>3, <3>4, <3>5, <3>6 DEF CallerStep
  <2>4. ASSUME SameEvents PROVE RetriesCountFailures'
    <3>1. \A t \in Tasks : EventsOf(t, "FAILED")' = EventsOf(t, "FAILED")
      BY <2>4 DEF SameEvents, EventsOf, Events
    <3>2. QED
      BY <2>4, <3>1, BalanceKept DEF SameEvents, Failed
  <2>5. ASSUME NEW p \in Publishers, PublisherStep(p) PROVE RetriesCountFailures'
    BY <2>0, <2>4, <2>5, PublisherKeepsEvents
  <2>6. ASSUME NEW i \in Events, EventGoesStale(i) PROVE RetriesCountFailures'
    BY <2>0, <2>4, <2>6, StalingKeepsEvents
  <2>7. CASE UNCHANGED vars
    BY <2>1, <2>7 DEF vars, Failed
  <2>8. QED
    BY <2>2, <2>3, <2>5, <2>6, <2>7 DEF Next
<1>3. QED
  BY <1>1, <1>2, QueueInvariant, PTL DEF Spec

-----------------------------------------------------------------------------
(* How long the outbox gets.                                                *)

\* The events of before a step are there after it.
SameReports ==
  /\ Events' = Events
  /\ \A i \in Events : /\ outbox'[i].task = outbox[i].task
                       /\ outbox'[i].attempt = outbox[i].attempt
                       /\ outbox'[i].type = outbox[i].type

\* Only the owner of a run adds an event.
LEMMA ReportsAdded ==
  ASSUME TypeOK, [Next]_vars
  PROVE  \/ SameReports
         \/ \E c \in Callers, status \in Settled :
              caller[c].pc # "idle" /\ OwnsRun(c) /\ Settle(c, status)
<1>1. ASSUME UNCHANGED outbox PROVE SameReports
  BY <1>1 DEF SameReports, Events
<1>2. ASSUME NEW t \in Tasks, TaskStep(t) PROVE SameReports
  BY <1>1, <1>2 DEF TaskStep, CreateTask, TaskGoesStale, ReclaimTask
<1>3. ASSUME NEW c \in Callers, CallerStep(c), ~(Succeed(c) /\ OwnsRun(c)), ~(Fail(c) /\ OwnsRun(c))
      PROVE  SameReports
  BY <1>1, <1>3 DEF CallerStep, ClaimTask, WorkEnds, Succeed, Fail, ReadFailure, Retry, CallerLost
<1>4. ASSUME NEW c \in Callers, OwnsRun(c), Succeed(c) \/ Fail(c)
      PROVE  \E status \in Settled : caller[c].pc # "idle" /\ Settle(c, status)
  BY <1>4 DEF Succeed, Fail, Doing, Settled
<1>5. ASSUME NEW p \in Publishers, PublisherStep(p) PROVE SameReports
  BY <1>5, PublisherKeepsEvents DEF SameEvents, SameReports, Events
<1>6. ASSUME NEW i \in Events, EventGoesStale(i) PROVE SameReports
  BY <1>6, StalingKeepsEvents DEF SameEvents, SameReports, Events
<1>7. CASE UNCHANGED vars
  BY <1>1, <1>7 DEF vars
<1>8. QED
  BY <1>2, <1>3, <1>4, <1>5, <1>6, <1>7 DEF Next

\* No step touches the row of a task that has succeeded.
SuccessStays == \A t \in Tasks : task[t].status = "SUCCEEDED" => task'[t] = task[t]

LEMMA SuccessStep ==
  ASSUME TypeOK, [Next]_vars
  PROVE  SuccessStays
<1>0. task \in [Tasks -> Task]
  BY DEF TypeOK
<1>1. ASSUME UNCHANGED task PROVE SuccessStays
  BY <1>1 DEF SuccessStays
<1>2. ASSUME NEW t \in Tasks, NEW row, task[t].status # "SUCCEEDED",
             task' = [task EXCEPT ![t] = row]
      PROVE  SuccessStays
  BY <1>0, <1>2 DEF SuccessStays
<1>3. ASSUME NEW t \in Tasks, TaskStep(t) PROVE SuccessStays
  BY <1>0, <1>2, <1>3 DEF TaskStep, CreateTask, TaskGoesStale, ReclaimTask
<1>4. ASSUME NEW c \in Callers, CallerStep(c) PROVE SuccessStays
  <2>1. caller[c].task \in Tasks
    BY Rows
  <2>2. ASSUME NEW t \in Tasks, NEW a \in Attempts, ClaimTask(c, t, a) PROVE SuccessStays
    BY <1>0, <2>2 DEF ClaimTask, SuccessStays
  <2>3. ASSUME NEW status \in Settled, OwnsRun(c), Settle(c, status) PROVE SuccessStays
    BY <1>0, <2>1, <2>3 DEF OwnsRun, Settle, SuccessStays
  <2>4. CASE Succeed(c) \/ Fail(c)
    BY <1>1, <2>3, <2>4 DEF Succeed, Fail, Settled
  <2>5. CASE Retry(c)
    BY <1>1, <1>2, <2>1, <2>5 DEF Retry, MayRetry
  <2>6. CASE \/ \E pc \in {"succeed", "fail"} : WorkEnds(c, pc)
             \/ \E t \in Tasks : ReadFailure(c, t)
             \/ CallerLost(c)
    BY <1>1, <2>6 DEF WorkEnds, ReadFailure, CallerLost
  <2>7. QED
    BY <1>4, <2>2, <2>4, <2>5, <2>6 DEF CallerStep
<1>5. ASSUME NEW p \in Publishers, PublisherStep(p) PROVE SuccessStays
  BY <1>1, <1>5, PublisherKeepsEvents DEF SameEvents
<1>6. ASSUME NEW i \in Events, EventGoesStale(i) PROVE SuccessStays
  BY <1>1, <1>6, StalingKeepsEvents DEF SameEvents
<1>7. CASE UNCHANGED vars
  BY <1>1, <1>7 DEF vars
<1>8. QED
  BY <1>3, <1>4, <1>5, <1>6, <1>7 DEF Next

\* A success that was reported stands: no take-over, late report or retry of the
\* same task, however old the snapshot it comes with, opens it again.
THEOREM SuccessIsFinal == Spec => [][SuccessStays]_vars
<1>1. TypeOK /\ [Next]_vars => [SuccessStays]_vars
  BY SuccessStep
<1>2. QED
  BY <1>1, QueueTypeCorrect, PTL DEF Spec

\* A success event belongs to the attempt in the row.
SuccessInRow ==
  \A t \in Tasks : \A i \in EventsOf(t, "SUCCEEDED") : outbox[i].attempt = task[t].attempt

LEMMA SuccessInRowStep ==
  ASSUME TypeOK, TaskInv, SuccessInRow, [Next]_vars
  PROVE  SuccessInRow'
<1> SUFFICES ASSUME NEW t \in Tasks, NEW i \in EventsOf(t, "SUCCEEDED")'
             PROVE  outbox'[i].attempt = task'[t].attempt
  BY DEF SuccessInRow
<1>1. ASSUME i \in EventsOf(t, "SUCCEEDED"), outbox'[i].attempt = outbox[i].attempt
      PROVE  outbox'[i].attempt = task'[t].attempt
  <2>1. task[t].status = "SUCCEEDED"
    BY <1>1 DEF TaskInv, OutboxTellsOutcome
  <2>2. task'[t] = task[t]
    BY <2>1, SuccessStep DEF SuccessStays
  <2>3. QED
    BY <1>1, <2>2 DEF SuccessInRow
<1>2. CASE SameReports
  BY <1>1, <1>2 DEF SameReports, EventsOf
<1>3. ASSUME NEW c \in Callers, NEW status \in Settled,
             caller[c].pc # "idle", OwnsRun(c), Settle(c, status)
      PROVE  outbox'[i].attempt = task'[t].attempt
  <2>1. PICK u \in Tasks : u = caller[c].task
    BY Rows
  <2>2. PICK n : n = Len(outbox) + 1
    OBVIOUS
  <2>3. /\ task'[u].attempt = caller[c].attempt
        /\ Events' = Events \cup {n} /\ \A j \in Events : outbox'[j] = outbox[j]
        /\ outbox'[n].task = u /\ outbox'[n].attempt = caller[c].attempt
    BY <1>3, <2>1, <2>2, SettleEffect
  <2>4. CASE i \in Events
    BY <1>1, <2>3, <2>4 DEF EventsOf
  <2>5. CASE i = n
    BY <2>3, <2>5 DEF EventsOf
  <2>6. QED
    BY <2>3, <2>4, <2>5 DEF EventsOf
<1>4. QED
  BY <1>2, <1>3, ReportsAdded

\* The events of a task, and those of them up to one of them.
Reports(t) == {i \in Events : outbox[i].task = t}
Number(i) == Cardinality({j \in Reports(outbox[i].task) : j <= i})

\* A task leaves MaxRetries failures that were put back, and one more event.
LEMMA ReportsBounded ==
  ASSUME QueueInv, RetriesCountFailures, SuccessInRow, NEW t \in Tasks
  PROVE  IsFiniteSet(Reports(t)) /\ Cardinality(Reports(t)) <= MaxRetries + 1
<1> DEFINE F == EventsOf(t, "FAILED")
           S == EventsOf(t, "SUCCEEDED")
<1>0. TypeOK /\ OutboxTellsOutcome
  BY DEF QueueInv
<1>1. Reports(t) = F \cup S /\ F \cap S = {}
  BY <1>0, Rows DEF Reports, EventsOf, Event, Settled
<1>2. IsFiniteSet(F) /\ Cardinality(F) \in Nat
  BY <1>0, FiniteEvents
<1>3. task[t].retries \in 0..MaxRetries /\ MaxRetries \in Nat
  BY <1>0, Rows, MaxRetriesAssumption DEF Task
<1>4. Cardinality(F) = task[t].retries + (IF task[t].status = "FAILED" THEN 1 ELSE 0)
  BY DEF RetriesCountFailures
<1>5. CASE S = {}
  <2>1. Reports(t) = F
    BY <1>1, <1>5
  <2>2. Cardinality(F) <= MaxRetries + 1
    <3> HIDE DEF F
    <3>1. QED
      BY <1>3, <1>4
  <2>3. QED
    BY <1>2, <2>1, <2>2
<1>6. CASE S # {}
  <2>1. PICK i \in S : TRUE
    BY <1>6
  <2>2. task[t].status = "SUCCEEDED"
    BY <1>0, <1>6 DEF OutboxTellsOutcome
  <2>3. S = {i}
    BY <1>0, <2>1 DEF SuccessInRow, OutboxTellsOutcome, EventsOf
  <2>4. Reports(t) = F \cup {i} /\ i \notin F
    BY <1>1, <2>3
  <2>5. IsFiniteSet(F \cup {i}) /\ Cardinality(F \cup {i}) = Cardinality(F) + 1
    BY <1>2, <2>4, FS_AddElement
  <2>6. Cardinality(F) <= MaxRetries
    <3> HIDE DEF F
    <3>1. QED
      BY <1>3, <1>4, <2>2
  <2>7. QED
    <3> HIDE DEF F
    <3>1. QED
      BY <1>2, <1>3, <2>4, <2>5, <2>6
<1>7. QED
  BY <1>5, <1>6

\* The events of a task are numbered from 1, each with a number of its own.
LEMMA ReportsNumbered ==
  ASSUME QueueInv, RetriesCountFailures, SuccessInRow, NEW i \in Events
  PROVE  /\ outbox[i].task \in Tasks
         /\ Number(i) \in 1..(MaxRetries + 1)
         /\ \A k \in Events : outbox[k].task = outbox[i].task /\ i < k => Number(i) < Number(k)
<1>0. TypeOK /\ Events \subseteq Nat
  <2>1. TypeOK
    BY DEF QueueInv
  <2>2. QED
    BY <2>1, Rows, LenProperties DEF Events
<1>1. outbox[i].task \in Tasks
  BY <1>0, Rows DEF Event
<1> DEFINE t == outbox[i].task
           Upto(k) == {j \in Reports(t) : j <= k}
<1>2. IsFiniteSet(Reports(t)) /\ Cardinality(Reports(t)) <= MaxRetries + 1
  BY <1>1, ReportsBounded
<1>3. \A k \in Events : /\ IsFiniteSet(Upto(k)) /\ Cardinality(Upto(k)) \in Nat
                        /\ Cardinality(Upto(k)) <= Cardinality(Reports(t))
  BY <1>2, FS_Subset, FS_CardinalityType
<1>4. Cardinality(Upto(i)) # 0
  <2>1. i \in Upto(i)
    BY <1>0 DEF Reports
  <2>2. QED
    BY <1>3, <2>1, FS_EmptySet
<1>5. Cardinality(Reports(t)) \in Nat /\ MaxRetries \in Nat
  BY <1>2, FS_CardinalityType, MaxRetriesAssumption
<1>6. Number(i) \in 1..(MaxRetries + 1)
  <2>1. Number(i) = Cardinality(Upto(i))
    BY DEF Number
  <2> HIDE DEF Upto
  <2>2. QED
    BY <1>2, <1>3, <1>4, <1>5, <2>1
<1>7. ASSUME NEW k \in Events, outbox[k].task = t, i < k PROVE Number(i) < Number(k)
  <2>1. Number(i) = Cardinality(Upto(i)) /\ Number(k) = Cardinality(Upto(k))
    BY <1>7 DEF Number
  <2>2. Upto(i) \in SUBSET Upto(k)
    <3>1. Reports(t) \subseteq Nat /\ i \in Nat /\ k \in Nat
      BY <1>0, <1>7 DEF Reports
    <3>2. \A j \in Nat : j <= i => j <= k
      BY <1>7, <3>1
    <3>3. QED
      BY <3>1, <3>2
  <2>3. k \in Upto(k) /\ k \notin Upto(i)
    BY <1>0, <1>7 DEF Reports
  <2> HIDE DEF Upto
  <2>4. /\ Cardinality(Upto(i)) <= Cardinality(Upto(k))
        /\ Cardinality(Upto(i)) # Cardinality(Upto(k))
    BY <1>3, <1>7, <2>2, <2>3, FS_Subset
  <2>5. QED
    BY <1>3, <1>7, <2>1, <2>4
<1>8. QED
  BY <1>1, <1>6, <1>7

\* The import queue of finitely many tasks writes a bounded number of events,
\* whatever is claimed, taken over, reported late or lost: MaxEvents, so that
\* the fairness of the publishers and EventsPublished speak of every event.
THEOREM OutboxBounded ==
  ASSUME IsFiniteSet(Tasks)
  PROVE  Spec => [](Len(outbox) <= MaxEvents)
<1>1. QueueInv /\ RetriesCountFailures /\ SuccessInRow => Len(outbox) <= MaxEvents
  <2> SUFFICES ASSUME QueueInv, RetriesCountFailures, SuccessInRow
               PROVE  Len(outbox) <= MaxEvents
    OBVIOUS
  <2>1. Len(outbox) \in Nat /\ Events = 1..Len(outbox)
    <3>1. TypeOK
      BY DEF QueueInv
    <3>2. QED
      BY <3>1, Rows, LenProperties DEF Events
  <2> DEFINE Numbers == 1..(MaxRetries + 1)
             f == [i \in Events |-> <<outbox[i].task, Number(i)>>]
  <2>2. f \in [Events -> Tasks \X Numbers]
    <3>1. ASSUME NEW i \in Events PROVE <<outbox[i].task, Number(i)>> \in Tasks \X Numbers
      BY ReportsNumbered
    <3>2. QED
      BY <3>1
  <2>3. ASSUME NEW i \in Events, NEW k \in Events, f[i] = f[k] PROVE i = k
    <3>1. outbox[i].task = outbox[k].task /\ Number(i) = Number(k)
      BY <2>3
    <3>2. Number(i) \in Nat /\ i \in Nat /\ k \in Nat
      BY <2>1, ReportsNumbered
    <3>3. ~(i < k) /\ ~(k < i)
      BY <3>1, <3>2, ReportsNumbered
    <3>4. QED
      BY <3>2, <3>3
  <2>4. f \in Injection(Events, Tasks \X Numbers)
    BY <2>2, <2>3 DEF Injection, IsInjective
  <2>5. /\ IsFiniteSet(Numbers) /\ Cardinality(Numbers) = MaxRetries + 1
    BY MaxRetriesAssumption, FS_Interval
  <2>6. /\ IsFiniteSet(Tasks \X Numbers)
        /\ Cardinality(Tasks \X Numbers) = MaxEvents
    BY <2>5, FS_Product DEF MaxEvents
  <2>7. Cardinality(Events) <= Cardinality(Tasks \X Numbers)
    BY <2>4, <2>6, FS_Injection
  <2>8. Cardinality(Events) = Len(outbox)
    BY <2>1, FS_Interval
  <2>9. QED
    BY <2>6, <2>7, <2>8
<1>2. Init => SuccessInRow
  BY DEF Init, SuccessInRow, EventsOf, Events
<1>3. QueueInv /\ SuccessInRow /\ [Next]_vars => SuccessInRow'
  BY SuccessInRowStep DEF QueueInv, TaskInv
<1>4. QED
  BY <1>1, <1>2, <1>3, FailuresCounted, QueueInvariant, PTL DEF Spec

-----------------------------------------------------------------------------
(* Leases.                                                                  *)

\* An unexpired lease is not touched by another publisher.
LEMMA PublisherRespectsLeases ==
  ASSUME TypeOK, NEW p \in Publishers, PublisherStep(p), NEW i \in Events,
         outbox[i].holder # NoPublisher, ~outbox[i].stale,
         outbox'[i].holder # outbox[i].holder
  PROVE  /\ publisher[outbox[i].holder] = [pc |-> "mark", event |-> i]
         /\ publisher'[outbox[i].holder] = IdlePublisher
         /\ outbox'[i].published
<1>0. outbox[i] \in Event
  BY Rows
<1>1. ~ReclaimEvents(p)
  BY DEF ReclaimEvents, Expired
<1>2. ASSUME NEW j \in Events, ClaimEvent(p, j) PROVE FALSE
  <2>1. i # j
    BY <1>2 DEF ClaimEvent, Candidate
  <2>2. outbox'[i] = outbox[i]
    BY <1>2, <2>1, Rows DEF ClaimEvent, Events
  <2>3. QED
    BY <2>2
<1>3. ~(NothingToPublish(p) \/ Publish(p) \/ PublishFails(p) \/ PublisherLost(p))
  BY DEF NothingToPublish, Publish, PublishFails, PublisherLost, taskVars
<1>4. MarkPublished(p)
  BY <1>1, <1>2, <1>3 DEF PublisherStep
<1>5. StillLeased(p)
  BY <1>4 DEF MarkPublished
<1>6. outbox' = [outbox EXCEPT ![publisher[p].event] =
                   [Released(outbox[publisher[p].event]) EXCEPT !.published = TRUE]]
  BY <1>4, <1>5 DEF MarkPublished
<1>7. i = publisher[p].event
  BY <1>6 DEF Events
<1>8. outbox[i].holder = p
  BY <1>5, <1>7 DEF StillLeased
<1>9. outbox'[i].published
  <2>1. outbox'[i] = [Released(outbox[i]) EXCEPT !.published = TRUE]
    BY <1>6, <1>7 DEF Events
  <2>2. QED
    BY <1>0, <2>1 DEF Released, Event
<1>10. publisher[p] = [pc |-> "mark", event |-> i]
  BY <1>4, <1>7 DEF MarkPublished, AtStep, TypeOK
<1>11. publisher'[p] = IdlePublisher
  BY <1>4 DEF MarkPublished, PublisherReturns, TypeOK
<1>12. QED
  BY <1>8, <1>9, <1>10, <1>11

\* A late publisher cannot end, or confirm under, the lease of its successor.
THEOREM LeasesHold == Spec => LiveLeaseEndsWithHolder
<1> DEFINE Kept(i) ==
      outbox[i].holder # NoPublisher /\ ~outbox[i].stale
        => \/ outbox'[i].holder = outbox[i].holder
           \/ /\ publisher[outbox[i].holder] = [pc |-> "mark", event |-> i]
              /\ publisher'[outbox[i].holder] = IdlePublisher
              /\ outbox'[i].published
<1>1. ASSUME QueueInv, Next, NEW i \in Events PROVE Kept(i)
  <2>0. TypeOK /\ PublishedWasDelivered
    BY <1>1 DEF QueueInv
  <2>1. CASE (\E t \in Tasks : TaskStep(t)) \/ (\E c \in Callers : CallerStep(c))
    BY <2>0, <2>1, ReportsUnpublished
  <2>2. ASSUME NEW p \in Publishers, PublisherStep(p) PROVE Kept(i)
    BY <2>0, <2>2, PublisherRespectsLeases
  <2>3. ASSUME NEW j \in Events, EventGoesStale(j) PROVE Kept(i)
    BY <2>0, <2>3, Rows DEF EventGoesStale, Event
  <2>4. QED
    BY <1>1, <2>1, <2>2, <2>3 DEF Next
<1>2. QueueInv /\ [Next]_vars
        => [\A i \in Events : Kept(i)]_vars
  BY <1>1
<1> HIDE DEF Kept
<1>3. Spec => [][\A i \in Events : Kept(i)]_vars
  BY <1>2, QueueInvariant, PTL DEF Spec
<1>4. QED
  BY <1>3 DEF LiveLeaseEndsWithHolder, Kept

-----------------------------------------------------------------------------
(* The refinement.                                                          *)

State(t) == IF task[t].status \in {"PENDING", "RUNNING"} THEN "WAITING"
                                                         ELSE task[t].status
Notice(i) == [task |-> outbox[i].task, type |-> outbox[i].type]
Confirmed == {i \in Events : outbox[i].published}

\* What a step of the task side must leave alone to be invisible.
LEMMA InvisibleStep ==
  ASSUME \A t \in Tasks : State(t)' = State(t) /\ task'[t].retries = task[t].retries,
         Events' = Events, \A i \in Events : Notice(i)' = Notice(i),
         Confirmed' = Confirmed, delivered' = delivered
  PROVE  UNCHANGED Promise!promiseVars
BY DEF Promise!promiseVars, State, Notice, Confirmed

\* An unchanged outbox tells and confirms the same.
LEMMA SameOutbox ==
  ASSUME UNCHANGED outbox
  PROVE  /\ Events' = Events /\ Confirmed' = Confirmed
         /\ \A i \in Events : Notice(i)' = Notice(i)
         /\ [i \in Events |-> Notice(i)]' = [i \in Events |-> Notice(i)]
BY DEF Events, Confirmed, Notice

\* The promise in terms of the queue.
LEMMA OpenMaps ==
  ASSUME TypeOK, NEW t \in Tasks, CreateTask(t)
  PROVE  Promise!PromiseNext
<1>1. /\ State(t) = "NONE" /\ State(t)' = "WAITING"
      /\ \A u \in Tasks : u # t => task'[u] = task[u]
      /\ \A u \in Tasks : task'[u].retries = task[u].retries
  BY Rows DEF CreateTask, State, TypeOK, Task
<1>2. UNCHANGED <<outbox, delivered>>
  BY DEF CreateTask, publishVars
<1>3. Promise!Open(t)
  BY <1>1, <1>2, SameOutbox DEF Promise!Open, State, Notice, Confirmed
<1>4. QED
  BY <1>3 DEF Promise!PromiseNext

\* A retry is a put-back.
LEMMA RetryMaps ==
  ASSUME TypeOK, NEW c \in Callers, Retry(c), MayRetry(c)
  PROVE  Promise!PromiseNext
<1>1. PICK t \in Tasks : t = caller[c].task /\ task[t] \in Task
  BY Rows
<1>2. task' = [task EXCEPT ![t] = Retried(task[t])]
  BY <1>1 DEF Retry
<1>3. /\ task[t].status = "FAILED" /\ task[t].retries < MaxRetries
      /\ task'[t].status = "PENDING" /\ task'[t].retries = task[t].retries + 1
      /\ \A u \in Tasks : u # t => task'[u] = task[u]
  BY <1>1, <1>2, RetryRow DEF MayRetry, TypeOK
<1>4. UNCHANGED <<outbox, delivered>>
  BY DEF Retry, publishVars
<1>5. Promise!PutBack(t)
  BY <1>1, <1>3, <1>4, SameOutbox DEF Promise!PutBack, Notice, Confirmed
<1>6. QED
  BY <1>5 DEF Promise!PromiseNext

\* A report by the owner of the run is the settlement and its notice.
LEMMA SettleMaps ==
  ASSUME TypeOK, NEW c \in Callers, NEW status \in Settled, caller[c].pc # "idle",
         OwnsRun(c), Settle(c, status), UNCHANGED delivered
  PROVE  Promise!PromiseNext
<1> DEFINE t == caller[c].task
           e == NewEvent(t, caller[c].attempt, status)
           log == [i \in Events |-> Notice(i)]
<1>1. t \in Tasks /\ task[t] \in Task /\ caller[c].attempt \in Attempts
  BY Rows
<1>2. /\ task[t].status = "RUNNING" /\ task'[t].status = status
      /\ \A u \in Tasks : u # t => task'[u] = task[u]
      /\ \A u \in Tasks : task'[u].retries = task[u].retries
  BY <1>1, Rows DEF OwnsRun, Settle, TypeOK, Task
<1>3. e \in Event /\ ~e.published /\ e.task = t /\ e.type = status
  BY <1>1 DEF NewEvent, Event
<1>4. /\ Len(outbox) \in Nat /\ Events = 1..Len(outbox)
      /\ Events' = Events \cup {Len(outbox) + 1}
      /\ Len(outbox) + 1 \notin Events
      /\ \A i \in Events : outbox'[i] = outbox[i]
      /\ outbox'[Len(outbox) + 1] = e
  BY <1>3, Rows, AppendFacts, LenProperties DEF Settle, Events
<1>5. Confirmed' = Confirmed
  BY <1>3, <1>4 DEF Confirmed
<1>6. log' = Append(log, [task |-> t, type |-> status])
  <2>1. \A i \in Events : Notice(i) \in [task : Tasks, type : Settled]
    BY Rows DEF Notice, Event
  <2>2. log \in Seq([task : Tasks, type : Settled]) /\ Len(log) = Len(outbox)
    <3>1. log \in [1..Len(outbox) -> [task : Tasks, type : Settled]]
      BY <1>4, <2>1
    <3>2. QED
      BY <1>4, <3>1, SeqDef, LenProperties
  <2>3. [task |-> t, type |-> status] \in [task : Tasks, type : Settled]
    BY <1>1
  <2>4. Append(log, [task |-> t, type |-> status])
          = [i \in 1..Len(outbox) + 1 |-> IF i \in Events THEN Notice(i)
                                          ELSE [task |-> t, type |-> status]]
    BY <1>4, <2>2, <2>3
  <2>5. Events' = 1..Len(outbox) + 1
    BY <1>4
  <2>6. \A i \in Events' : Notice(i)' = IF i \in Events THEN Notice(i)
                                        ELSE [task |-> t, type |-> status]
    BY <1>3, <1>4 DEF Notice
  <2>7. log' = [i \in Events' |-> Notice(i)']
    OBVIOUS
  <2>8. QED
    BY <2>4, <2>5, <2>6, <2>7
<1>7. Promise!SettleTask(t, status)
  BY <1>1, <1>2, <1>5, <1>6 DEF Promise!SettleTask, Notice, Confirmed, Settled
<1>8. QED
  BY <1>1, <1>7 DEF Promise!PromiseNext, Promise!Outcomes, Settled

\* Sending maps to Send, an effective confirmation to Confirm, the rest to nothing.
LEMMA PublisherMaps ==
  ASSUME QueueInv, NEW p \in Publishers, PublisherStep(p)
  PROVE  Promise!PromiseNext \/ UNCHANGED Promise!promiseVars
<1> DEFINE i == publisher[p].event
<1>0. TypeOK /\ PublishedWasDelivered /\ SentBeforeMark
  BY DEF QueueInv
<1>1. /\ task' = task /\ Events' = Events
      /\ \A j \in Events : Notice(j)' = Notice(j)
  BY <1>0, PublisherKeepsEvents DEF SameEvents, Events, Notice
<1>2. \A t \in Tasks : State(t)' = State(t) /\ task'[t].retries = task[t].retries
  BY <1>1 DEF State
<1>3. CASE UNCHANGED outbox /\ UNCHANGED delivered
  BY <1>1, <1>2, <1>3, SameOutbox, InvisibleStep
<1>4. CASE (Publish(p) \/ PublishFails(p)) /\ delivered' = delivered \cup {i}
  <2>1. i \in Events
    BY <1>0, <1>4 DEF Publish, PublishFails, AtStep, TypeOK
  <2>2. UNCHANGED <<task, outbox>>
    BY <1>4 DEF Publish, PublishFails, taskVars
  <2>3. Promise!Send(i)
    BY <1>4, <2>2, SameOutbox DEF Promise!Send, Notice, Confirmed
  <2>4. QED
    BY <2>1, <2>3 DEF Promise!PromiseNext
<1>5. CASE MarkPublished(p) /\ StillLeased(p)
  <2>1. i \in Events /\ i \in delivered /\ ~outbox[i].published
    BY <1>0, <1>5 DEF MarkPublished, StillLeased, AtStep, TypeOK, SentBeforeMark
  <2>2. outbox' = [outbox EXCEPT ![i] = [Released(outbox[i]) EXCEPT !.published = TRUE]]
    BY <1>5 DEF MarkPublished
  <2>3. outbox'[i].published /\ \A j \in Events : j # i => outbox'[j] = outbox[j]
    BY <1>0, <2>1, <2>2, Rows DEF Released, Event, Events
  <2>4. Confirmed' = Confirmed \cup {i} /\ i \notin Confirmed
    BY <1>1, <2>1, <2>3 DEF Confirmed
  <2>5. UNCHANGED delivered
    BY <1>5 DEF MarkPublished
  <2>6. PICK j \in Events : j = i
    BY <2>1
  <2>7. Promise!Confirm(j)
    BY <1>1, <2>1, <2>4, <2>5, <2>6 DEF Promise!Confirm, Notice, Confirmed
  <2>8. QED
    BY <2>7 DEF Promise!PromiseNext
<1>6. CASE ReclaimEvents(p)
  <2>1. \A j \in Events : outbox'[j].published = outbox[j].published
    BY <1>0, <1>6, Rows DEF ReclaimEvents, Released, Event
  <2>2. Confirmed' = Confirmed /\ delivered' = delivered
    BY <1>1, <1>6, <2>1 DEF Confirmed, ReclaimEvents
  <2>3. QED
    BY <1>1, <1>2, <2>2, InvisibleStep
<1>7. ASSUME NEW j \in Events, ClaimEvent(p, j)
      PROVE  Promise!PromiseNext \/ UNCHANGED Promise!promiseVars
  <2>1. \A k \in Events : outbox'[k].published = outbox[k].published
    BY <1>0, <1>7, Rows DEF ClaimEvent, LeasedTo, Event
  <2>2. Confirmed' = Confirmed /\ delivered' = delivered
    BY <1>1, <1>7, <2>1 DEF Confirmed, ClaimEvent
  <2>3. QED
    BY <1>1, <1>2, <2>2, InvisibleStep
<1>8. QED
  BY <1>3, <1>4, <1>5, <1>6, <1>7 DEF PublisherStep, NothingToPublish, Publish,
     PublishFails, MarkPublished, PublisherLost, taskVars

\* The initial state maps to the initial state of the promise.
LEMMA InitMapsToPromise == Init => Promise!PromiseInit
<1> SUFFICES ASSUME Init PROVE Promise!PromiseInit
  OBVIOUS
<1>1. outbox = << >> /\ Events = {} /\ delivered = {}
  BY DEF Init, Events
<1>2. \A t \in Tasks : task[t].status = "NONE" /\ task[t].retries = 0
  BY DEF Init, NoTask
<1>3. [i \in Events |-> Notice(i)] = << >>
  BY <1>1
<1>4. QED
  BY <1>1, <1>2, <1>3 DEF Promise!PromiseInit, Notice

\* Every step maps to a step of the promise or to none.
LEMMA StepMapsToPromise ==
  QueueInv /\ [Next]_vars => [Promise!PromiseNext]_Promise!promiseVars
<1> SUFFICES ASSUME QueueInv, [Next]_vars
             PROVE  Promise!PromiseNext \/ UNCHANGED Promise!promiseVars
  OBVIOUS
<1>0. TypeOK
  BY DEF QueueInv
<1>1. ASSUME UNCHANGED <<outbox, delivered>>,
             \A t \in Tasks : State(t)' = State(t) /\ task'[t].retries = task[t].retries
      PROVE  UNCHANGED Promise!promiseVars
  BY <1>1, SameOutbox, InvisibleStep
<1>2. ASSUME NEW t \in Tasks, TaskStep(t)
      PROVE  Promise!PromiseNext \/ UNCHANGED Promise!promiseVars
  <2>1. CASE CreateTask(t)
    BY <1>0, <2>1, OpenMaps
  <2>2. CASE TaskGoesStale(t) \/ ReclaimTask(t)
    <3>0. /\ \A u \in Tasks : u # t => task'[u] = task[u]
          /\ task[t].status = "RUNNING" /\ task[t] \in Task
          /\ task'[t] = Requeued(task[t]) \/ task'[t] = [task[t] EXCEPT !.stale = TRUE]
      BY <1>0, <2>2, Rows DEF TaskGoesStale, ReclaimTask, TypeOK
    <3>a. task'[t].status \in {"PENDING", "RUNNING"} /\ task'[t].retries = task[t].retries
      BY <3>0, RetryRow DEF Task
    <3>1. \A u \in Tasks : State(u)' = State(u) /\ task'[u].retries = task[u].retries
      BY <3>0, <3>a DEF State
    <3>2. QED
      BY <1>1, <2>2, <3>1 DEF TaskGoesStale, ReclaimTask, publishVars
  <2>3. QED
    BY <1>2, <2>1, <2>2 DEF TaskStep
<1>3. ASSUME NEW c \in Callers, CallerStep(c)
      PROVE  Promise!PromiseNext \/ UNCHANGED Promise!promiseVars
  <2>1. ASSUME UNCHANGED <<task, outbox, delivered>>
        PROVE  UNCHANGED Promise!promiseVars
    BY <1>1, <2>1 DEF State
  <2>2. ASSUME NEW t \in Tasks, NEW a \in Attempts, ClaimTask(c, t, a)
        PROVE  UNCHANGED Promise!promiseVars
    <3>1. \A u \in Tasks : State(u)' = State(u) /\ task'[u].retries = task[u].retries
      BY <1>0, <2>2, Rows DEF ClaimTask, State, TypeOK, Task
    <3>2. QED
      BY <1>1, <2>2, <3>1 DEF ClaimTask, publishVars
  <2>3. CASE Succeed(c)
    BY <1>0, <2>1, <2>3, SettleMaps DEF Succeed, Doing, Settled, publishVars
  <2>4. CASE Fail(c)
    BY <1>0, <2>1, <2>4, SettleMaps DEF Fail, Doing, Settled, publishVars
  <2>5. CASE Retry(c)
    BY <1>0, <2>1, <2>5, RetryMaps DEF Retry, publishVars
  <2>6. CASE \/ \E pc \in {"succeed", "fail"} : WorkEnds(c, pc)
             \/ \E t \in Tasks : ReadFailure(c, t)
             \/ CallerLost(c)
    BY <2>1, <2>6 DEF WorkEnds, ReadFailure, CallerLost, publishVars
  <2>7. QED
    BY <1>3, <2>2, <2>3, <2>4, <2>5, <2>6 DEF CallerStep
<1>4. ASSUME NEW p \in Publishers, PublisherStep(p)
      PROVE  Promise!PromiseNext \/ UNCHANGED Promise!promiseVars
  BY <1>4, PublisherMaps
<1>5. ASSUME NEW i \in Events, EventGoesStale(i)
      PROVE  UNCHANGED Promise!promiseVars
  <2>1. /\ task' = task /\ Events' = Events /\ delivered' = delivered
        /\ \A j \in Events : Notice(j)' = Notice(j)
    BY <1>0, <1>5, StalingKeepsEvents
       DEF SameEvents, Events, Notice, EventGoesStale, publishVars
  <2>2. \A j \in Events : outbox'[j].published = outbox[j].published
    BY <1>0, <1>5, Rows DEF EventGoesStale, Event
  <2>3. Confirmed' = Confirmed
    BY <2>1, <2>2 DEF Confirmed
  <2>4. QED
    BY <2>1, <2>3, InvisibleStep DEF State
<1>6. CASE UNCHANGED vars
  BY <1>6, <1>1 DEF vars, State
<1>7. QED
  BY <1>2, <1>3, <1>4, <1>5, <1>6 DEF Next

\* The queue with its attempts, leases and losses implements the promise: each task
\* settled once per try, one notice per settlement, confirmed only when sent.
THEOREM QueueKeepsPromise == Spec => KeepsPromise
BY InitMapsToPromise, StepMapsToPromise, QueueInvariant, PTL
   DEF Spec, KeepsPromise, Promise!PromiseSpec
=============================================================================
