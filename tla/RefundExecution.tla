-------------------------- MODULE RefundExecution --------------------------
(***************************************************************************)
(* From an approved refund application to a recorded outcome: the execute  *)
(* call, the customer's and the operator's result queries, the provider's  *)
(* webhook, the scheduled compensation batch with its leases, and the      *)
(* administrator's manual queue.                                           *)
(*                                                                         *)
(* An action is one database transaction or one provider request.  Between *)
(* two of them a call keeps what it has read in call[c]; it may be lost at *)
(* any of those points (process crash, database error, timeout).           *)
(***************************************************************************)
EXTENDS RefundSandbox

CONSTANTS
  Requests,        \* slots for API calls and one-off reconciliation runs
  Workers,         \* slots for compensation batches
  MaxResubmissions \* bound on administrator resubmissions per application

Calls == Requests \cup Workers

ASSUME CallsAssumption == Calls \subseteq Holders /\ Requests \cap Workers = {}
ASSUME MaxResubmissionsAssumption == MaxResubmissions \in Nat

VARIABLES
  application,  \* refund_applications.status, from manual approval on
  exec,         \* refund_executions
  job,          \* refund_recovery_jobs
  received,     \* refund_webhook_events: the events recorded per key
  disputed,     \* the audit trail ends in RESULT_CONFLICT, not in
                \* CONFLICT_ACKNOWLEDGED
  call,         \* what each call slot is doing and holds in memory
  posts,        \* history: POST /refunds requests sent per application
  licences      \* history: RESUBMISSION_AUTHORIZED audit rows

dbVars == <<application, exec, job, received, disputed>>
vars == <<sandboxVars, dbVars, call, posts, licences>>

-----------------------------------------------------------------------------
(* A call: op is the service function it runs, pc its next step, res the   *)
(* provider answer it holds.  NOT_FOUND is get_result's None.              *)

Operation == {"none", "execute", "recover", "compensate", "resubmit"}
Step == {"idle", "create", "fetch", "claim", "post", "query", "apply", "finish"}

NoAnswer == [status |-> "NOT_FOUND", ref |-> NoRef]
QueryError == [status |-> "PROVIDER_ERROR", ref |-> NoRef]

IdleCalls == [op : {"none"}, app : Apps, pc : {"idle"}, res : {NoAnswer}]
BusyCalls == [op : Operation \ {"none"}, app : Apps, pc : Step \ {"idle"},
              res : Answer \cup {NoAnswer, QueryError}]

Idle(a) == [op |-> "none", app |-> a, pc |-> "idle", res |-> NoAnswer]
SomeApp == CHOOSE a \in Apps : TRUE

At(c, pc) == call[c].pc = pc
Start(c, op, a, pc) ==
  call' = [call EXCEPT ![c] = [op |-> op, app |-> a, pc |-> pc, res |-> NoAnswer]]
GoTo(c, pc) == call' = [call EXCEPT ![c].pc = pc]
GoWith(c, pc, r) == call' = [call EXCEPT ![c].pc = pc, ![c].res = r]
Return(c) == call' = [call EXCEPT ![c] = Idle(SomeApp)]

\* Every row, event, request and call is one the schema and the services allow;
\* attempts stay within refund_recovery_max_attempts.
TypeOK ==
  /\ SandboxTypeOK
  /\ application \in [Apps -> {"PENDING_MANUAL_APPROVAL", "APPROVED", "REJECTED"}]
  /\ exec \in [Apps -> Execution]
  /\ job \in [Apps -> Job]
  /\ received \in [Apps -> SUBSET Verdict]
  /\ disputed \in [Apps -> BOOLEAN]
  /\ call \in [Calls -> IdleCalls \cup BusyCalls]
  /\ posts \in [Apps -> Nat]
  /\ licences \in [Apps -> 0..MaxResubmissions]

Init ==
  /\ SandboxInit
  /\ application = [a \in Apps |-> "PENDING_MANUAL_APPROVAL"]
  /\ exec = [a \in Apps |-> NoExecution]
  /\ job = [a \in Apps |-> NoJob]
  /\ received = [a \in Apps |-> {}]
  /\ disputed = [a \in Apps |-> FALSE]
  /\ call = [c \in Calls |-> Idle(SomeApp)]
  /\ posts = [a \in Apps |-> 0]
  /\ licences = [a \in Apps |-> 0]

-----------------------------------------------------------------------------
(* Approval, and the effect of a provider result on the database.          *)

Approved(a) == application[a] = "APPROVED"

Review(a, decision) ==
  /\ application[a] = "PENDING_MANUAL_APPROVAL"
  /\ application' = [application EXCEPT ![a] = decision]
  /\ UNCHANGED <<sandboxVars, exec, job, received, disputed, call, posts, licences>>

\* A status change of refund_executions together with its trigger.
Transition(a, status) ==
  /\ exec' = [exec EXCEPT ![a].status = status]
  /\ job' = [job EXCEPT ![a] = JobOnTransition(@, status)]

\* _apply_refund_sandbox_result_on_connection.
ApplyResult(a, r) ==
  /\ exec' = [exec EXCEPT ![a] = ExecAfter(@, r)]
  /\ job' = [job EXCEPT ![a] = JobAfter(@, exec[a], r)]
  /\ disputed' = [disputed EXCEPT ![a] = @ \/ Conflicts(exec[a], r)]

-----------------------------------------------------------------------------
(* POST /v1/refund-applications/{id}/execute: run_refund_sandbox.           *)

StartExecute(c, a) ==
  /\ At(c, "idle")
  /\ Approved(a)
  /\ Start(c, "execute", a, "create")
  /\ UNCHANGED <<sandboxVars, dbVars, posts, licences>>

CreateExecution(c) ==
  LET a == call[c].app IN
  /\ At(c, "create")
  /\ IF Approved(a) /\ exec[a].status = "NONE"
       THEN Transition(a, "PENDING")
       ELSE UNCHANGED <<exec, job>>
  /\ GoTo(c, "fetch")
  /\ UNCHANGED <<sandboxVars, application, received, disputed, posts, licences>>

FetchExecution(c) ==
  /\ At(c, "fetch")
  /\ IF exec[call[c].app].status = "PENDING" THEN GoTo(c, "claim") ELSE Return(c)
  /\ UNCHANGED <<sandboxVars, dbVars, posts, licences>>

\* Mutant: the caller ignores whether the conditional UPDATE hit a row.
ClaimExecutionUnchecked(c) ==
  LET a == call[c].app IN
  /\ At(c, "claim")
  /\ IF exec[a].status = "PENDING" THEN Transition(a, "RUNNING") ELSE UNCHANGED <<exec, job>>
  /\ GoTo(c, "post")
  /\ UNCHANGED <<sandboxVars, application, received, disputed, posts, licences>>

ClaimExecution(c) ==
  LET a == call[c].app IN
  /\ At(c, "claim")
  /\ IF exec[a].status = "PENDING"
       THEN Transition(a, "RUNNING") /\ GoTo(c, "post")
       ELSE UNCHANGED <<exec, job>> /\ Return(c)
  /\ UNCHANGED <<sandboxVars, application, received, disputed, posts, licences>>

\* adapter.execute answers; a resubmission goes on to finish its lease.
PostRefund(c) ==
  LET a == call[c].app IN
  /\ At(c, "post")
  /\ SandboxExecute(a)
  /\ posts' = [posts EXCEPT ![a] = @ + 1]
  /\ GoWith(c, IF call[c].op = "resubmit" THEN "finish" ELSE "apply", provider'[a])
  /\ UNCHANGED <<delayed, dbVars, licences>>

\* adapter.execute raises: the outcome is unknown.
PostFails(c) ==
  LET a == call[c].app IN
  /\ At(c, "post")
  /\ PostOutcomeUnknown(a)
  /\ posts' = [posts EXCEPT ![a] = @ + 1]
  /\ IF call[c].op = "resubmit" THEN GoWith(c, "finish", QueryError) ELSE Return(c)
  /\ UNCHANGED <<dbVars, licences>>

-----------------------------------------------------------------------------
(* recover_refund_sandbox and reconcile_refund_sandbox: look the key up,    *)
(* never submit.  query and apply are also the steps of the other calls.    *)

StartRecover(c, a) ==
  /\ At(c, "idle")
  /\ exec[a].status \in InFlight
  /\ Start(c, "recover", a, "query")
  /\ UNCHANGED <<sandboxVars, dbVars, posts, licences>>

Fenced(c) == call[c].op \in {"compensate", "resubmit"}

QueryFinds(c) ==
  LET row == provider[call[c].app] IN
  /\ At(c, "query")
  /\ row.status # "NONE"
  /\ GoWith(c, IF Fenced(c) THEN "finish" ELSE "apply", row)
  /\ UNCHANGED <<sandboxVars, dbVars, posts, licences>>

QueryFindsNothing(c) ==
  /\ At(c, "query")
  /\ provider[call[c].app].status = "NONE"
  /\ CASE call[c].op = "compensate" -> GoTo(c, "finish")
       [] call[c].op = "resubmit" -> GoTo(c, "post")
       [] OTHER -> Return(c)
  /\ UNCHANGED <<sandboxVars, dbVars, posts, licences>>

QueryFails(c) ==
  /\ At(c, "query")
  /\ IF Fenced(c) THEN GoWith(c, "finish", QueryError) ELSE Return(c)
  /\ UNCHANGED <<sandboxVars, dbVars, posts, licences>>

\* _apply_refund_sandbox_result in a transaction of its own.
ApplyAnswer(c) ==
  /\ At(c, "apply")
  /\ ApplyResult(call[c].app, call[c].res)
  /\ Return(c)
  /\ UNCHANGED <<sandboxVars, application, received, posts, licences>>

-----------------------------------------------------------------------------
(* POST /v1/refund-webhooks/sandbox: apply_refund_webhook_result.  Before   *)
(* the claim the answer is 503 and nothing is saved; a recorded event is    *)
(* acknowledged again without effect.                                       *)

ReceiveWebhook(a, v) ==
  /\ v \in events[a]
  /\ exec[a].status \notin {"NONE", "PENDING"}
  /\ v \notin received[a]
  /\ received' = [received EXCEPT ![a] = @ \cup {v}]
  /\ ApplyResult(a, v)
  /\ UNCHANGED <<sandboxVars, application, call, posts, licences>>

-----------------------------------------------------------------------------
(* The compensation batch: claim_refund_recovery, get_result (the query     *)
(* steps above) and finish_refund_recovery.                                 *)

Swept == [a \in Apps |-> IF Exhausted(job[a]) THEN ExhaustedJob(job[a]) ELSE job[a]]

ClaimRecovery(w, a) ==
  /\ At(w, "idle")
  /\ Claimable(Swept[a], exec[a])
  /\ job' = [Swept EXCEPT ![a] = Leased(@, w, @.attempts + 1)]
  /\ Start(w, "compensate", a, "query")
  /\ UNCHANGED <<sandboxVars, application, exec, received, disputed, posts, licences>>

\* The same transaction when it leases nothing: no candidate, or all of them
\* locked and skipped.
SweepExhausted(w) ==
  /\ At(w, "idle")
  /\ \E a \in Apps : Exhausted(job[a])
  /\ job' = Swept
  /\ UNCHANGED <<sandboxVars, application, exec, received, disputed, call, posts, licences>>

Deferral(res) ==
  CASE res.status = "NOT_FOUND" -> "NOT_FOUND"
    [] res.status = "PROVIDER_ERROR" -> "PROVIDER_ERROR"
    [] OTHER -> "STILL_PROCESSING"

\* The effect of a finish under a valid lease on the execution and its job.
FinishedExec(e, res) == IF res \in Answer THEN ExecAfter(e, res) ELSE e

\* Mutant: no early return when the result settled the execution.
FinishedJobAlwaysDeferred(j, e, res) ==
  DeferredJob(IF res \in Answer THEN JobAfter(j, e, res) ELSE j, Deferral(res))

FinishedJob(j, e, res) ==
  LET applied == IF res \in Answer THEN JobAfter(j, e, res) ELSE j IN
  IF FinishedExec(e, res).status \in Terminal
    THEN applied
    ELSE DeferredJob(applied, Deferral(res))

FinishRecovery(c) ==
  LET a == call[c].app
      res == call[c].res
  IN
  /\ At(c, "finish")
  /\ HeldBy(job[a], c)
  /\ exec' = [exec EXCEPT ![a] = FinishedExec(@, res)]
  /\ job' = [job EXCEPT ![a] = FinishedJob(@, exec[a], res)]
  /\ disputed' = [disputed EXCEPT ![a] = @ \/ (res \in Answer /\ Conflicts(exec[a], res))]
  /\ Return(c)
  /\ UNCHANGED <<sandboxVars, application, received, posts, licences>>

\* The lease expired, was taken over or was closed by the trigger.
FinishFenced(c) ==
  /\ At(c, "finish")
  /\ ~HeldBy(job[call[c].app], c)
  /\ Return(c)
  /\ UNCHANGED <<sandboxVars, dbVars, posts, licences>>

-----------------------------------------------------------------------------
(* The administrator's operations on the manual queue.                      *)

Resume(a) ==
  /\ exec[a].status \in InFlight
  /\ job[a].status = "MANUAL_REQUIRED"
  /\ job' = [job EXCEPT ![a] = ResumedJob(@)]
  /\ UNCHANGED <<sandboxVars, application, exec, received, disputed, call, posts, licences>>

Resubmittable(a) ==
  /\ Approved(a)
  /\ exec[a] = [status |-> "RUNNING", ref |-> NoRef]
  /\ job[a].status = "MANUAL_REQUIRED"
  /\ job[a].code = "NOT_FOUND"

Resubmit(c, a) ==
  /\ At(c, "idle")
  /\ Resubmittable(a)
  /\ licences[a] < MaxResubmissions
  /\ job' = [job EXCEPT ![a] = [Leased(@, c, 1) EXCEPT !.code = "NONE"]]
  /\ licences' = [licences EXCEPT ![a] = @ + 1]
  /\ Start(c, "resubmit", a, "query")
  /\ UNCHANGED <<sandboxVars, application, exec, received, disputed, posts>>

AcknowledgeConflict(a) ==
  /\ exec[a].status \in Terminal
  /\ IsConflictJob(job[a])
  /\ job' = [job EXCEPT ![a].status = "COMPLETED"]
  /\ disputed' = [disputed EXCEPT ![a] = FALSE]
  /\ UNCHANGED <<sandboxVars, application, exec, received, call, posts, licences>>

-----------------------------------------------------------------------------
(* Time, loss and the provider.                                             *)

\* A READY job becomes due, or a lease runs out.
TimerElapses(a) ==
  /\ job[a].status \in {"READY", "LEASED"}
  /\ ~job[a].elapsed
  /\ job' = [job EXCEPT ![a].elapsed = TRUE]
  /\ UNCHANGED <<sandboxVars, application, exec, received, disputed, call, posts, licences>>

\* A call dies between two steps: its process stops, or its transaction fails
\* and rolls back.  A request it was sending may have left.
CallLost(c) ==
  LET a == call[c].app IN
  /\ ~At(c, "idle")
  /\ Return(c)
  /\ \/ UNCHANGED <<sandboxVars, posts>>
     \/ /\ At(c, "post")
        /\ PostOutcomeUnknown(a)
        /\ posts' = [posts EXCEPT ![a] = @ + 1]
  /\ UNCHANGED <<dbVars, licences>>

ProviderStep == SandboxNext /\ UNCHANGED <<dbVars, call, posts, licences>>

-----------------------------------------------------------------------------
CallStep(c) ==
  \/ CreateExecution(c) \/ FetchExecution(c) \/ ClaimExecution(c)
  \/ PostRefund(c) \/ PostFails(c)
  \/ QueryFinds(c) \/ QueryFindsNothing(c) \/ QueryFails(c)
  \/ ApplyAnswer(c) \/ FinishRecovery(c) \/ FinishFenced(c)

Next ==
  \/ \E a \in Apps :
       \/ \E decision \in {"APPROVED", "REJECTED"} : Review(a, decision)
       \/ \E c \in Requests : StartExecute(c, a) \/ StartRecover(c, a) \/ Resubmit(c, a)
       \/ \E w \in Workers : ClaimRecovery(w, a)
       \/ \E v \in Verdict : ReceiveWebhook(a, v)
       \/ Resume(a) \/ AcknowledgeConflict(a) \/ TimerElapses(a)
  \/ \E w \in Workers : SweepExhausted(w)
  \/ \E c \in Calls : CallStep(c) \/ CallLost(c)
  \/ ProviderStep

Spec == Init /\ [][Next]_vars

-----------------------------------------------------------------------------
(* Fairness: the batch is run again and again by an outside scheduler, a    *)
(* call that is not lost goes on, and clocks advance.  Nothing is assumed   *)
(* of customers, administrators, webhooks or the provider.  SF per          *)
(* application: the candidate query orders by next_attempt_at.              *)

Scheduling ==
  /\ \A a \in Apps : SF_vars(\E w \in Workers : ClaimRecovery(w, a))
  /\ WF_vars(\E w \in Workers : SweepExhausted(w))
  /\ \A w \in Workers : WF_vars(CallStep(w))
  /\ \A a \in Apps : WF_vars(TimerElapses(a))

FairSpec == Spec /\ Scheduling
=============================================================================
