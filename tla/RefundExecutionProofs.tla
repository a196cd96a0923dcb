----------------------- MODULE RefundExecutionProofs -----------------------
(***************************************************************************)
(* Proofs about the execution of refunds: the inductive invariant and what *)
(* follows from it, what a single step may do to the rows, the refinement  *)
(* of RefundPromise, and the count of submissions.                         *)
(***************************************************************************)
EXTENDS RefundProperties, FiniteSetTheorems, TLAPS

\* What the assumptions on the constants give every proof below.
LEMMA ConstantFacts ==
  /\ SomeApp \in Apps
  /\ NoToken \notin Calls
  /\ Calls \subseteq Holders
BY AppsAssumption, CallsAssumption, NoTokenAssumption DEF SomeApp, Calls

-----------------------------------------------------------------------------
(* Facts about single rows.                                                 *)

\* Applying a provider answer leaves an execution row.
LEMMA ExecAfterType ==
  ASSUME NEW e \in Execution, NEW r \in Answer
  PROVE  ExecAfter(e, r) \in Execution
BY DEF Execution, ExecutionStatus, InFlight, Terminal, Reference, Answer, Verdict,
       Accepted, ExecAfter, Applies

\* Applying or ignoring a provider answer leaves a job row.
LEMMA JobAfterType ==
  ASSUME NEW e \in Execution, NEW j \in Job, NEW r \in Answer
  PROVE  JobAfter(j, e, r) \in Job
<1>1. OpenJob(j) \in Job
  <2>1. NoJob \in Job
    BY MaxAttemptsAssumption DEF NoJob, Job, JobStatus, ErrorCode
  <2>2. [NoJob EXCEPT !.status = "READY"] \in Job
    BY <2>1 DEF Job, JobStatus
  <2>3. QED
    BY <2>2 DEF OpenJob
<1>2. CloseJob(j) \in Job
  BY DEF CloseJob, Job, JobStatus, ErrorCode
<1>3. ConflictJob(j) \in Job
  BY DEF ConflictJob, Job, JobStatus, ErrorCode
<1>4. QED
  BY <1>1, <1>2, <1>3 DEF JobAfter, JobOnTransition

\* Applying a result keeps an execution and its job together, and raises a
\* conflict job exactly on a conflict.
LEMMA JobAfterFits ==
  ASSUME NEW e \in Execution, NEW j \in Job, NEW r \in Answer,
         JobFits(j, e), e.status \in InFlight \cup Terminal
  PROVE  /\ JobFits(JobAfter(j, e, r), ExecAfter(e, r))
         /\ IsConflictJob(JobAfter(j, e, r)) <=> IsConflictJob(j) \/ Conflicts(e, r)
<1> DEFINE f == ExecAfter(e, r)
           k == JobAfter(j, e, r)
<1> USE DEF InFlight, Terminal
<1>1. CASE e.status \in InFlight /\ r.status \in Terminal
  <2>1. Applies(e, r) /\ ~Conflicts(e, r) /\ f.status = r.status
    BY <1>1 DEF Applies, ExecAfter, Conflicts
  <2>2. j.status # "NONE" /\ ~IsConflictJob(j)
    BY <1>1 DEF JobFits
  <2>3. k = [j EXCEPT !.status = "COMPLETED", !.token = NoToken,
                      !.elapsed = FALSE, !.code = "NONE"]
    BY <1>1, <2>1, <2>2 DEF JobAfter, JobOnTransition, CloseJob
  <2>4. k.status = "COMPLETED" /\ k.token = NoToken
    BY <2>3 DEF Job
  <2>5. QED
    BY <1>1, <2>1, <2>2, <2>4 DEF JobFits, IsConflictJob
<1>2. CASE e.status = "RUNNING" /\ r.status = "PROCESSING"
  <2>1. Applies(e, r) /\ ~Conflicts(e, r) /\ f.status = "PROCESSING"
    BY <1>2 DEF Applies, ExecAfter, Conflicts
  <2>2. k = j
    BY <1>2, <2>1 DEF JobAfter, JobOnTransition, OpenJob, JobFits
  <2>3. QED
    BY <1>2, <2>1, <2>2 DEF JobFits
<1>3. CASE ~Applies(e, r) /\ Conflicts(e, r)
  <2>1. f = e /\ k = ConflictJob(j)
    BY <1>3 DEF ExecAfter, JobAfter
  <2>2. k.status = "MANUAL_REQUIRED" /\ k.code = "TERMINAL_CONFLICT" /\ k.token = NoToken
    BY <2>1 DEF ConflictJob, Job
  <2>3. e.status \in Terminal
    BY <1>3 DEF Conflicts
  <2>4. QED
    BY <1>3, <2>1, <2>2, <2>3 DEF JobFits, IsConflictJob
<1>4. CASE ~Applies(e, r) /\ ~Conflicts(e, r)
  BY <1>4 DEF ExecAfter, JobAfter
<1>5. QED
  BY <1>1, <1>2, <1>3, <1>4 DEF Applies

\* A published verdict (or an acceptance) leaves a published outcome behind.
LEMMA ExecAfterOutcome ==
  ASSUME NEW e \in Execution, NEW r \in Answer, NEW ev \in SUBSET Verdict,
         OutcomeFits(e, ev), r \in Verdict => r \in ev
  PROVE  OutcomeFits(ExecAfter(e, r), ev)
<1> USE DEF InFlight, Terminal
<1>1. CASE ~Applies(e, r)
  BY <1>1 DEF ExecAfter
<1>2. CASE Applies(e, r) /\ r = Accepted
  BY <1>2 DEF ExecAfter, Accepted, Applies, OutcomeFits, Execution
<1>3. CASE Applies(e, r) /\ r \in Verdict
  <2>1. e.ref = NoRef
    BY <1>3 DEF Applies, OutcomeFits, Verdict
  <2>2. ExecAfter(e, r) = r
    BY <1>3, <2>1, NoRefAssumption DEF ExecAfter, Verdict
  <2>3. r.status # "SUCCEEDED" => r.ref = NoRef
    BY <1>3 DEF Verdict
  <2>4. QED
    BY <1>3, <2>2, <2>3 DEF OutcomeFits
<1>4. QED
  BY <1>1, <1>2, <1>3 DEF Answer

\* Two results taken from one honest row cannot conflict.
LEMMA HonestNoConflict ==
  ASSUME NEW e \in Execution, NEW r \in Answer, NEW row, NEW ev,
         ev \subseteq {row}, e.status \in Terminal => e \in ev,
         r \in Verdict => r \in ev
  PROVE  ~Conflicts(e, r)
BY DEF Conflicts, Answer, Accepted, Terminal

\* The sweep of an exhausted job keeps it in step with its execution.
LEMMA ExhaustedFits ==
  ASSUME NEW e \in Execution, NEW j \in Job, JobFits(j, e), Exhausted(j)
  PROVE  /\ ExhaustedJob(j) \in Job
         /\ JobFits(ExhaustedJob(j), e)
         /\ ~IsConflictJob(j) /\ ~IsConflictJob(ExhaustedJob(j))
<1> DEFINE k == ExhaustedJob(j)
<1>1. k \in Job
  BY DEF ExhaustedJob, Job, JobStatus, ErrorCode
<1>2. k.status = "MANUAL_REQUIRED" /\ k.token = NoToken /\ k.code = "ATTEMPTS_EXHAUSTED"
  BY DEF ExhaustedJob, Job
<1>3. j.status \in {"READY", "LEASED"}
  BY DEF Exhausted
<1>4. e.status \in InFlight
  BY <1>3 DEF JobFits, IsConflictJob, Execution, ExecutionStatus, InFlight, Terminal
<1>5. QED
  BY <1>1, <1>2, <1>3, <1>4 DEF JobFits, IsConflictJob, InFlight, Terminal

\* Leasing the job of a refund in flight keeps the two rows in step.
LEMMA LeasedFits ==
  ASSUME NEW e \in Execution, NEW j \in Job, NEW h \in Holders, NEW n \in 0..MaxAttempts,
         e.status \in InFlight
  PROVE  /\ Leased(j, h, n) \in Job
         /\ JobFits(Leased(j, h, n), e)
         /\ ~IsConflictJob(Leased(j, h, n))
<1> DEFINE k == Leased(j, h, n)
<1>1. k \in Job
  BY DEF Leased, Job, JobStatus
<1>2. k.status = "LEASED" /\ k.token = h
  BY DEF Leased, Job
<1>3. QED
  BY <1>1, <1>2, NoTokenAssumption DEF JobFits, IsConflictJob, InFlight, Terminal

\* Resuming the job of a refund in flight keeps the two rows in step.
LEMMA ResumedFits ==
  ASSUME NEW e \in Execution, NEW j \in Job, e.status \in InFlight
  PROVE  /\ ResumedJob(j) \in Job
         /\ JobFits(ResumedJob(j), e)
         /\ ~IsConflictJob(ResumedJob(j))
<1> DEFINE k == ResumedJob(j)
<1>0. 0 \in 0..MaxAttempts
  BY MaxAttemptsAssumption
<1>1. k \in Job
  BY <1>0 DEF ResumedJob, Job, JobStatus, ErrorCode
<1>2. k.status = "READY" /\ k.token = NoToken
  BY DEF ResumedJob, Job
<1>3. QED
  BY <1>1, <1>2 DEF JobFits, IsConflictJob, InFlight, Terminal

\* Giving a lease back keeps the two rows in step.
LEMMA DeferredFits ==
  ASSUME NEW e \in Execution, NEW j \in Job, NEW code \in ErrorCode,
         e.status \in InFlight, code # "TERMINAL_CONFLICT"
  PROVE  /\ DeferredJob(j, code) \in Job
         /\ JobFits(DeferredJob(j, code), e)
         /\ ~IsConflictJob(DeferredJob(j, code))
<1> DEFINE k == DeferredJob(j, code)
<1>1. k \in Job
  BY DEF DeferredJob, Job, JobStatus
<1>2. /\ k.status \in {"READY", "MANUAL_REQUIRED"}
      /\ k.token = NoToken /\ k.code = code
  BY DEF DeferredJob, Job
<1>3. QED
  BY <1>1, <1>2 DEF JobFits, IsConflictJob, InFlight, Terminal

\* A finish under a valid lease keeps the rows together, settled or deferred.
LEMMA FinishedFits ==
  ASSUME NEW e \in Execution, NEW j \in Job, NEW h \in Holders,
         NEW res \in Answer \cup {NoAnswer, QueryError},
         JobFits(j, e), HeldBy(j, h)
  PROVE  /\ FinishedExec(e, res) \in Execution
         /\ FinishedJob(j, e, res) \in Job
         /\ JobFits(FinishedJob(j, e, res), FinishedExec(e, res))
         /\ e.status \in InFlight /\ ~IsConflictJob(j)
         /\ ~IsConflictJob(FinishedJob(j, e, res))
<1> DEFINE f == FinishedExec(e, res)
           applied == IF res \in Answer THEN JobAfter(j, e, res) ELSE j
<1>1. j.status = "LEASED" /\ ~IsConflictJob(j)
  BY DEF HeldBy, IsConflictJob
<1>2. e.status \in InFlight
  BY <1>1 DEF JobFits, IsConflictJob, Execution, ExecutionStatus, InFlight, Terminal
<1>3. f \in Execution /\ f.status \in InFlight \cup Terminal
  <2>1. CASE res \in Answer
    <3>1. f = ExecAfter(e, res) /\ f \in Execution
      BY <2>1, ExecAfterType DEF FinishedExec
    <3>2. f.status = res.status \/ f = e
      BY <3>1 DEF ExecAfter
    <3>3. res.status \in InFlight \cup Terminal
      BY <2>1 DEF Answer, Verdict, Accepted, InFlight, Terminal
    <3>4. QED
      BY <3>1, <3>2, <3>3, <1>2
  <2>2. CASE res \notin Answer
    BY <2>2, <1>2 DEF FinishedExec
  <2>3. QED
    BY <2>1, <2>2
<1>4. applied \in Job
  BY JobAfterType
<1>5. CASE f.status \in Terminal
  <2>1. res \in Answer
    BY <1>2, <1>5 DEF FinishedExec, InFlight, Terminal
  <2>2. FinishedJob(j, e, res) = JobAfter(j, e, res) /\ f = ExecAfter(e, res)
    BY <1>5, <2>1 DEF FinishedJob, FinishedExec
  <2>3. ~Conflicts(e, res)
    BY <1>2 DEF Conflicts, InFlight, Terminal
  <2>4. QED
    BY <1>1, <1>2, <1>3, <1>4, <2>1, <2>2, <2>3, JobAfterFits
<1>6. CASE f.status \notin Terminal
  <2>1. FinishedJob(j, e, res) = DeferredJob(applied, Deferral(res))
    BY <1>6 DEF FinishedJob
  <2>2. Deferral(res) \in ErrorCode /\ Deferral(res) # "TERMINAL_CONFLICT"
    BY DEF Deferral, ErrorCode
  <2>3. QED
    BY <1>1, <1>2, <1>3, <1>4, <1>6, <2>1, <2>2, DeferredFits
<1>7. QED
  BY <1>5, <1>6

-----------------------------------------------------------------------------
(* Type correctness.                                                        *)

\* The empty database is well typed.
LEMMA InitType == Init => TypeOK
<1> SUFFICES ASSUME Init PROVE TypeOK
  OBVIOUS
<1> USE ConstantFacts DEF Init, SandboxInit
<1>1. SandboxTypeOK
  BY DEF SandboxTypeOK
<1>2. NoExecution \in Execution
  BY DEF NoExecution, Execution, ExecutionStatus, Reference
<1>3. NoJob \in Job
  BY MaxAttemptsAssumption DEF NoJob, Job, JobStatus, ErrorCode
<1>4. Idle(SomeApp) \in IdleCalls
  BY DEF Idle, IdleCalls
<1>5. QED
  BY <1>1, <1>2, <1>3, <1>4, MaxResubmissionsAssumption DEF TypeOK

CallTypeOK == call \in [Calls -> IdleCalls \cup BusyCalls]
AnyAnswer == Answer \cup {NoAnswer, QueryError}

\* The fields of a call slot.
LEMMA SlotTypes ==
  ASSUME CallTypeOK, NEW c \in Calls
  PROVE  /\ call[c].app \in Apps
         /\ call[c].res \in AnyAnswer
         /\ ~At(c, "idle") => call[c] \in BusyCalls
BY DEF CallTypeOK, At, IdleCalls, BusyCalls, AnyAnswer

\* A call that returns leaves well-typed slots.
LEMMA ReturnType ==
  ASSUME CallTypeOK, NEW c \in Calls, Return(c) PROVE CallTypeOK'
<1>1. Idle(SomeApp) \in IdleCalls
  BY ConstantFacts DEF Idle, IdleCalls
<1>2. QED
  BY <1>1 DEF Return, CallTypeOK

\* A call that starts leaves well-typed slots.
LEMMA StartType ==
  ASSUME CallTypeOK, NEW c \in Calls, NEW op \in Operation \ {"none"},
         NEW a \in Apps, NEW pc \in Step \ {"idle"}, Start(c, op, a, pc)
  PROVE  CallTypeOK'
BY DEF Start, CallTypeOK, BusyCalls

\* A call that moves on with an answer leaves well-typed slots.
LEMMA GoWithType ==
  ASSUME CallTypeOK, NEW c \in Calls, NEW pc \in Step \ {"idle"},
         NEW r \in AnyAnswer, ~At(c, "idle"), GoWith(c, pc, r)
  PROVE  CallTypeOK'
<1>1. call[c] \in BusyCalls
  BY SlotTypes
<1>2. [call[c] EXCEPT !.pc = pc, !.res = r] \in BusyCalls
  BY <1>1 DEF BusyCalls, AnyAnswer
<1>3. call' = [call EXCEPT ![c] = [call[c] EXCEPT !.pc = pc, !.res = r]]
  BY <1>1 DEF GoWith, BusyCalls, CallTypeOK
<1>4. QED
  BY <1>2, <1>3 DEF CallTypeOK

\* A call that moves on leaves well-typed slots.
LEMMA GoToType ==
  ASSUME CallTypeOK, NEW c \in Calls, NEW pc \in Step \ {"idle"},
         ~At(c, "idle"), GoTo(c, pc)
  PROVE  CallTypeOK'
<1>1. call[c] \in BusyCalls
  BY SlotTypes
<1>2. [call[c] EXCEPT !.pc = pc] \in BusyCalls
  BY <1>1 DEF BusyCalls
<1>3. QED
  BY <1>2 DEF CallTypeOK, GoTo

\* Provider requests keep the provider's rows well typed.
LEMMA SandboxTypes ==
  ASSUME SandboxTypeOK, NEW a \in Apps
  PROVE  /\ SandboxExecute(a) /\ UNCHANGED delayed => SandboxTypeOK'
         /\ SandboxExecute(a) => provider'[a] \in Answer
         /\ PostOutcomeUnknown(a) => SandboxTypeOK'
         /\ DelayedPostArrives(a) => SandboxTypeOK'
         /\ \A v \in Verdict : Settle(a, v) \/ Reverse(a, v) => SandboxTypeOK'
<1> USE DEF SandboxTypeOK, Answer
<1>1. RowAfterPost(provider[a]) \in Answer
  BY DEF RowAfterPost, NoExecution
<1>2. SandboxExecute(a) => /\ provider' \in [Apps -> Answer \cup {NoExecution}]
                           /\ provider'[a] \in Answer /\ UNCHANGED events
  BY <1>1 DEF SandboxExecute
<1>3. SandboxExecute(a) /\ UNCHANGED delayed => SandboxTypeOK'
  BY <1>2
<1>4. PostOutcomeUnknown(a) => SandboxTypeOK'
  BY <1>2 DEF PostOutcomeUnknown, sandboxVars
<1>5. DelayedPostArrives(a) => SandboxTypeOK'
  BY <1>2 DEF DelayedPostArrives
<1>6. \A v \in Verdict : Settle(a, v) \/ Reverse(a, v) => SandboxTypeOK'
  BY DEF Settle, Reverse
<1>7. QED
  BY <1>2, <1>3, <1>4, <1>5, <1>6

-----------------------------------------------------------------------------
(* Frames: what an action must show about the rows and slots it touches.    *)

\* A step that touches nothing of an application keeps its rows in step.
LEMMA RowFrame ==
  ASSUME NEW b \in Apps, RowInv(b),
         exec'[b] = exec[b], job'[b] = job[b], disputed'[b] = disputed[b],
         provider'[b] = provider[b], events'[b] = events[b],
         b \in delayed' => b \in delayed \/ Submitted(b),
         posts'[b] > 0 => posts[b] > 0 \/ Approved(b),
         Approved(b) => Approved(b)'
  PROVE  RowInv(b)'
BY DEF RowInv, Submitted

\* Events accumulate, and neither a submission nor an approval is undone.
Progress ==
  \A a \in Apps :
    /\ events[a] \subseteq events'[a]
    /\ Submitted(a) => Submitted(a)'
    /\ Approved(a) => Approved(a)'

\* A call that does not move keeps what it remembers true, for facts about a row only grow.
LEMMA SlotFrame ==
  ASSUME NEW c \in Calls, CallTypeOK, SlotInv(c), Progress, call'[c] = call[c]
  PROVE  SlotInv(c)'
<1>1. call[c].app \in Apps
  BY SlotTypes
<1>2. QED
  BY <1>1 DEF SlotInv, Progress

\* An action that leaves every row alone.
LEMMA QuietStep ==
  ASSUME ExecutionInv, UNCHANGED <<sandboxVars, exec, job, disputed, application, posts>>
  PROVE  /\ \A a \in Apps : RowInv(a)'
         /\ Progress
<1>1. ASSUME NEW b \in Apps PROVE RowInv(b)'
  BY RowFrame DEF ExecutionInv, sandboxVars, Approved
<1>2. Progress
  BY DEF Progress, sandboxVars, Submitted, Approved
<1>3. QED
  BY <1>1, <1>2

\* A result for a submitted execution, applied or ignored, with its published
\* verdict: the shared core of ApplyAnswer, ReceiveWebhook and FinishRecovery.
LEMMA ResultStep ==
  ASSUME ExecutionInv, NEW a \in Apps, NEW r \in Answer, Submitted(a),
         r \in Verdict => r \in events[a], ApplyResult(a, r),
         UNCHANGED <<sandboxVars, application, posts>>
  PROVE  /\ exec' \in [Apps -> Execution] /\ job' \in [Apps -> Job]
         /\ disputed' \in [Apps -> BOOLEAN]
         /\ \A b \in Apps : RowInv(b)'
         /\ Progress
<1> DEFINE e == exec[a]
           j == job[a]
<1>0. TypeOK /\ e \in Execution /\ j \in Job /\ RowInv(a) /\ events[a] \in SUBSET Verdict
  BY DEF ExecutionInv, TypeOK, SandboxTypeOK
<1>1. /\ exec' = [exec EXCEPT ![a] = ExecAfter(e, r)]
      /\ job' = [job EXCEPT ![a] = JobAfter(j, e, r)]
      /\ disputed' = [disputed EXCEPT ![a] = disputed[a] \/ Conflicts(e, r)]
  BY DEF ApplyResult
<1>2. ExecAfter(e, r) \in Execution /\ JobAfter(j, e, r) \in Job
  BY <1>0, ExecAfterType, JobAfterType
<1>3. /\ exec' \in [Apps -> Execution] /\ job' \in [Apps -> Job]
      /\ disputed' \in [Apps -> BOOLEAN]
  BY <1>0, <1>1, <1>2 DEF TypeOK
<1>4. /\ exec'[a] = ExecAfter(e, r) /\ job'[a] = JobAfter(j, e, r)
      /\ disputed'[a] <=> disputed[a] \/ Conflicts(e, r)
  BY <1>0, <1>1 DEF TypeOK
<1>5. \A b \in Apps \ {a} : exec'[b] = exec[b] /\ job'[b] = job[b] /\ disputed'[b] = disputed[b]
  BY <1>0, <1>1 DEF TypeOK
<1>6. e.status \in InFlight \cup Terminal
  BY DEF Submitted
<1>7. Submitted(a)'
  <2>1. ExecAfter(e, r).status \in InFlight \cup Terminal
    BY <1>6 DEF ExecAfter, Applies, InFlight, Terminal
  <2>2. QED
    BY <2>1, <1>4 DEF Submitted
<1>8. RowInv(a)'
  <2>1. JobFits(job[a], exec[a])' /\ (disputed[a] <=> IsConflictJob(job[a]))'
    BY <1>0, <1>4, <1>6, JobAfterFits DEF RowInv
  <2>2. OutcomeFits(exec[a], events[a])'
    BY <1>0, <1>4, ExecAfterOutcome DEF RowInv, sandboxVars
  <2>3. ~SelfContradicting => (events[a] \subseteq {provider[a]} \cap Verdict /\ ~disputed[a])'
    <3>1. ~SelfContradicting => ~Conflicts(e, r)
      <4> SUFFICES ASSUME ~SelfContradicting PROVE ~Conflicts(e, r)
        OBVIOUS
      <4>1. events[a] \subseteq {provider[a]} /\ (e.status \in Terminal => e \in events[a])
        BY <1>0 DEF RowInv, OutcomeFits
      <4>2. QED
        BY <4>1, <1>0, HonestNoConflict
    <3>2. QED
      BY <1>0, <1>4, <3>1 DEF RowInv, sandboxVars
  <2>4. Approved(a)'
    BY <1>0, <1>6 DEF RowInv, Approved, InFlight, Terminal
  <2>5. QED
    BY <1>0, <1>7, <2>1, <2>2, <2>3, <2>4 DEF RowInv, sandboxVars
<1>9. ASSUME NEW b \in Apps \ {a} PROVE RowInv(b)'
  BY <1>5, RowFrame DEF ExecutionInv, sandboxVars, Approved
<1>10. Progress
  BY <1>5, <1>7 DEF Progress, Submitted, Approved, sandboxVars
<1>11. QED
  BY <1>3, <1>8, <1>9, <1>10

\* An action on jobs alone, which raises no dispute.
LEMMA JobStep ==
  ASSUME ExecutionInv, UNCHANGED <<sandboxVars, exec, application, posts>>,
         \A b \in Apps :
           /\ JobFits(job'[b], exec[b])
           /\ disputed'[b] <=> IsConflictJob(job'[b])
           /\ disputed'[b] => disputed[b]
  PROVE  /\ \A b \in Apps : RowInv(b)'
         /\ Progress
<1>1. ASSUME NEW b \in Apps PROVE RowInv(b)'
  <2>1. RowInv(b)
    BY DEF ExecutionInv
  <2>2. JobFits(job[b], exec[b])' /\ (disputed[b] <=> IsConflictJob(job[b]))'
    OBVIOUS
  <2>3. ~SelfContradicting =>
          (events[b] \subseteq {provider[b]} \cap Verdict /\ ~disputed[b])'
    BY <2>1 DEF RowInv, sandboxVars
  <2>4. Submitted(b)' = Submitted(b) /\ Approved(b)' = Approved(b)
    BY DEF Submitted, Approved
  <2>5. QED
    BY <2>1, <2>2, <2>3, <2>4 DEF RowInv, sandboxVars
<1>2. Progress
  BY DEF Progress, sandboxVars, Submitted, Approved
<1>3. QED
  BY <1>1, <1>2

\* A request of ours reaches the provider, now or later, or is lost.
LEMMA PostStep ==
  ASSUME ExecutionInv, NEW a \in Apps, Submitted(a),
         provider' = [provider EXCEPT ![a] = RowAfterPost(@)] \/ UNCHANGED provider,
         delayed' \subseteq delayed \cup {a},
         \A b \in Apps \ {a} : posts'[b] = posts[b],
         UNCHANGED <<events, exec, job, disputed, application>>
  PROVE  /\ \A b \in Apps : RowInv(b)'
         /\ Progress
<1>0. provider \in [Apps -> Answer \cup {NoExecution}]
  BY DEF ExecutionInv, TypeOK, SandboxTypeOK
<1>1. Submitted(a)' /\ Approved(a)' /\ RowInv(a)
  BY DEF Submitted, Approved, ExecutionInv, RowInv, InFlight, Terminal
<1>2. RowInv(a)'
  <2>1. CASE provider'[a] = provider[a]
    BY <1>1, <2>1 DEF RowInv
  <2>2. CASE provider'[a] = RowAfterPost(provider[a])
    <3>1. CASE provider[a].status = "NONE"
      <4>1. provider'[a] = Accepted
        BY <2>2, <3>1 DEF RowAfterPost
      <4>2. provider[a] \notin Verdict
        BY <3>1 DEF Verdict
      <4>3. QED
        BY <1>1, <4>1, <4>2 DEF RowInv, Accepted, Terminal
    <3>2. CASE provider[a].status # "NONE"
      BY <1>1, <2>2, <3>2 DEF RowAfterPost, RowInv
    <3>3. QED
      BY <3>1, <3>2
  <2>3. QED
    BY <1>0, <2>1, <2>2
<1>3. ASSUME NEW b \in Apps \ {a} PROVE RowInv(b)'
  <2>1. provider'[b] = provider[b]
    BY <1>0
  <2>2. QED
    BY <2>1, RowFrame DEF ExecutionInv, Approved
<1>4. Progress
  BY DEF Progress, Submitted, Approved
<1>5. QED
  BY <1>2, <1>3, <1>4

\* A status change along the execute path, with its trigger.
LEMMA TransitionStep ==
  ASSUME ExecutionInv, NEW a \in Apps, Approved(a),
         NEW status \in {"PENDING", "RUNNING"}, Transition(a, status),
         exec[a].status = (IF status = "PENDING" THEN "NONE" ELSE "PENDING"),
         UNCHANGED <<sandboxVars, application, disputed, posts>>
  PROVE  /\ exec' \in [Apps -> Execution] /\ job' \in [Apps -> Job]
         /\ \A b \in Apps : RowInv(b)'
         /\ Progress
         /\ status = "RUNNING" => Submitted(a)'
<1>0. TypeOK /\ RowInv(a) /\ job[a] \in Job /\ exec[a] \in Execution
  BY DEF ExecutionInv, TypeOK
<1>1. /\ exec' = [exec EXCEPT ![a].status = status]
      /\ job' = [job EXCEPT ![a] = JobOnTransition(job[a], status)]
  BY DEF Transition
<1>2. job[a].status = "NONE" /\ ~IsConflictJob(job[a]) /\ job[a].token = NoToken
  BY <1>0 DEF RowInv, JobFits, IsConflictJob
<1>3. /\ JobOnTransition(job[a], status) \in Job
      /\ JobOnTransition(job[a], status).token = NoToken
      /\ JobOnTransition(job[a], status).status = IF status = "RUNNING" THEN "READY" ELSE "NONE"
  <2>1. CASE status = "PENDING"
    BY <1>0, <1>2, <2>1 DEF JobOnTransition, InFlight, Terminal
  <2>2. CASE status = "RUNNING"
    <3>1. JobOnTransition(job[a], status) = [NoJob EXCEPT !.status = "READY"]
      BY <1>2, <2>2 DEF JobOnTransition, OpenJob, InFlight, Terminal
    <3>2. NoJob \in Job
      BY MaxAttemptsAssumption DEF NoJob, Job, JobStatus, ErrorCode
    <3>3. QED
      BY <3>1, <3>2, <2>2 DEF NoJob, Job, JobStatus
  <2>3. QED
    BY <2>1, <2>2
<1>4. exec' \in [Apps -> Execution] /\ job' \in [Apps -> Job]
  BY <1>0, <1>1, <1>3 DEF TypeOK, Execution, ExecutionStatus, InFlight
<1>5. /\ exec'[a].status = status /\ exec'[a].ref = exec[a].ref
      /\ job'[a] = JobOnTransition(job[a], status)
  BY <1>0, <1>1 DEF TypeOK, Execution
<1>6. \A b \in Apps \ {a} : exec'[b] = exec[b] /\ job'[b] = job[b]
  BY <1>0, <1>1 DEF TypeOK
<1>7. ~Submitted(a) /\ (status = "RUNNING" => Submitted(a)')
  BY <1>5 DEF Submitted, InFlight, Terminal
<1>8. RowInv(a)'
  <2>1. JobFits(job[a], exec[a])' /\ ~IsConflictJob(job[a])'
    BY <1>3, <1>5 DEF JobFits, IsConflictJob, InFlight, Terminal
  <2>2. OutcomeFits(exec[a], events[a])'
    BY <1>0, <1>5 DEF RowInv, OutcomeFits, Terminal
  <2>3. QED
    BY <1>0, <1>2, <1>7, <2>1, <2>2 DEF RowInv, sandboxVars, Approved
<1>9. ASSUME NEW b \in Apps \ {a} PROVE RowInv(b)'
  BY <1>6, RowFrame DEF ExecutionInv, sandboxVars, Approved
<1>10. Progress
  BY <1>6, <1>7 DEF Progress, Submitted, Approved, sandboxVars
<1>11. QED
  BY <1>4, <1>7, <1>8, <1>9, <1>10

-----------------------------------------------------------------------------
(* The call slots after a step, by what the step does to the calling slot.  *)

\* A call ends: its slot holds nothing.
LEMMA ReturnSlots ==
  ASSUME ExecutionInv, NEW c \in Calls, Progress, Return(c)
  PROVE  CallTypeOK' /\ \A d \in Calls : SlotInv(d)'
<1>0. CallTypeOK
  BY DEF ExecutionInv, TypeOK, CallTypeOK
<1>1. call'[c] = Idle(SomeApp) /\ \A d \in Calls \ {c} : call'[d] = call[d]
  BY <1>0 DEF Return, CallTypeOK
<1>2. SlotInv(c)'
  <2>1. NoAnswer \notin Verdict
    BY DEF NoAnswer, Verdict
  <2>2. QED
    BY <1>1, <2>1 DEF SlotInv, Idle
<1>3. ASSUME NEW d \in Calls \ {c} PROVE SlotInv(d)'
  BY <1>0, <1>1, SlotFrame DEF ExecutionInv
<1>4. QED
  BY <1>0, <1>2, <1>3, ReturnType

\* A call begins.
LEMMA StartSlots ==
  ASSUME ExecutionInv, NEW c \in Calls, Progress, NEW a \in Apps,
         NEW op \in Operation \ {"none"}, NEW pc \in {"create", "query"},
         Start(c, op, a, pc), Approved(a), pc = "query" => Submitted(a)
  PROVE  CallTypeOK' /\ \A d \in Calls : SlotInv(d)'
<1>0. CallTypeOK /\ pc \in Step \ {"idle"}
  BY DEF ExecutionInv, TypeOK, CallTypeOK, Step
<1>1. /\ call'[c] = [op |-> op, app |-> a, pc |-> pc, res |-> NoAnswer]
      /\ \A d \in Calls \ {c} : call'[d] = call[d]
  BY <1>0 DEF Start, CallTypeOK
<1>2. SlotInv(c)'
  <2>1. NoAnswer \notin Verdict
    BY DEF NoAnswer, Verdict
  <2>2. Approved(a)' /\ (pc = "query" => Submitted(a)')
    BY DEF Progress
  <2>3. QED
    BY <1>1, <2>1, <2>2 DEF SlotInv, Submitted, Approved
<1>3. ASSUME NEW d \in Calls \ {c} PROVE SlotInv(d)'
  BY <1>0, <1>1, SlotFrame DEF ExecutionInv
<1>4. QED
  BY <1>0, <1>2, <1>3, StartType

\* A call goes on with an answer in hand.
LEMMA GoWithSlots ==
  ASSUME ExecutionInv, NEW c \in Calls, Progress, ~At(c, "idle"),
         NEW pc \in Step \ {"idle"}, NEW r \in AnyAnswer, GoWith(c, pc, r),
         r \in Verdict => r \in events'[call[c].app],
         pc = "apply" => r \in Answer,
         pc \in {"post", "query", "apply", "finish"} => Submitted(call[c].app)'
  PROVE  CallTypeOK' /\ \A d \in Calls : SlotInv(d)'
<1>0. CallTypeOK
  BY DEF ExecutionInv, TypeOK, CallTypeOK
<1>1. call[c] \in BusyCalls /\ call[c].app \in Apps
  BY <1>0, SlotTypes
<1>2. /\ call'[c].pc = pc /\ call'[c].res = r /\ call'[c].app = call[c].app
      /\ \A d \in Calls \ {c} : call'[d] = call[d]
  BY <1>0, <1>1 DEF GoWith, CallTypeOK, BusyCalls
<1>3. SlotInv(c)'
  <2>1. Approved(call[c].app)'
    BY <1>1, <1>2 DEF ExecutionInv, SlotInv, At, Progress, Approved
  <2>2. QED
    BY <1>2, <2>1 DEF SlotInv, Submitted, Approved
<1>4. ASSUME NEW d \in Calls \ {c} PROVE SlotInv(d)'
  BY <1>0, <1>2, SlotFrame DEF ExecutionInv
<1>5. QED
  BY <1>0, <1>3, <1>4, GoWithType

\* A call goes on with what it has.
LEMMA GoToSlots ==
  ASSUME ExecutionInv, NEW c \in Calls, Progress, ~At(c, "idle"),
         NEW pc \in Step \ {"idle", "apply"}, GoTo(c, pc),
         pc \in {"post", "query", "finish"} => Submitted(call[c].app)'
  PROVE  CallTypeOK' /\ \A d \in Calls : SlotInv(d)'
<1>0. CallTypeOK
  BY DEF ExecutionInv, TypeOK, CallTypeOK
<1>1. call[c] \in BusyCalls /\ call[c].app \in Apps
  BY <1>0, SlotTypes
<1>2. /\ call'[c].pc = pc /\ call'[c].res = call[c].res /\ call'[c].app = call[c].app
      /\ \A d \in Calls \ {c} : call'[d] = call[d]
  BY <1>0, <1>1 DEF GoTo, CallTypeOK, BusyCalls
<1>3. SlotInv(c)'
  <2>1. SlotInv(c) /\ events[call[c].app] \subseteq events'[call[c].app]
    BY <1>1 DEF ExecutionInv, Progress
  <2>2. Approved(call[c].app)'
    BY <1>1, <1>2, <2>1 DEF SlotInv, At, Progress, Approved
  <2>3. QED
    BY <1>2, <2>1, <2>2 DEF SlotInv, Submitted, Approved
<1>4. ASSUME NEW d \in Calls \ {c} PROVE SlotInv(d)'
  BY <1>0, <1>2, SlotFrame DEF ExecutionInv
<1>5. QED
  BY <1>0, <1>3, <1>4, GoToType

\* No call moves.
LEMMA StillSlots ==
  ASSUME ExecutionInv, Progress, UNCHANGED call
  PROVE  CallTypeOK' /\ \A d \in Calls : SlotInv(d)'
BY SlotFrame DEF ExecutionInv, TypeOK, CallTypeOK

-----------------------------------------------------------------------------
(* Every action preserves ExecutionInv.                                     *)

\* The parts of ExecutionInv' the lemmas above do not speak of.
RestTypeOK ==
  /\ SandboxTypeOK
  /\ application \in [Apps -> {"PENDING_MANUAL_APPROVAL", "APPROVED", "REJECTED"}]
  /\ exec \in [Apps -> Execution]
  /\ job \in [Apps -> Job]
  /\ received \in [Apps -> SUBSET Verdict]
  /\ disputed \in [Apps -> BOOLEAN]
  /\ posts \in [Apps -> Nat]
  /\ licences \in [Apps -> 0..MaxResubmissions]

\* The type invariant splits into rows and calls.
LEMMA TypeParts == TypeOK <=> RestTypeOK /\ CallTypeOK
BY DEF TypeOK, RestTypeOK, CallTypeOK

\* A step of a call alone keeps the rows' types.
LEMMA SamePostsTypes ==
  ASSUME RestTypeOK, UNCHANGED <<sandboxVars, dbVars, posts, licences>>
  PROVE  RestTypeOK'
BY DEF RestTypeOK, SandboxTypeOK, sandboxVars, dbVars

\* The shape of every preservation proof below.
LEMMA Assembled ==
  ASSUME RestTypeOK', CallTypeOK', \A a \in Apps : RowInv(a)',
         \A c \in Calls : SlotInv(c)'
  PROVE  ExecutionInv'
BY DEF ExecutionInv, TypeOK, RestTypeOK, CallTypeOK

\* The review of an application preserves the invariant.
LEMMA ReviewStep ==
  ASSUME ExecutionInv, NEW a \in Apps, NEW decision \in {"APPROVED", "REJECTED"},
         Review(a, decision)
  PROVE  ExecutionInv'
<1>0. RestTypeOK
  BY TypeParts DEF ExecutionInv
<1>1. /\ application[a] = "PENDING_MANUAL_APPROVAL"
      /\ application' = [application EXCEPT ![a] = decision]
  BY DEF Review
<1>2. \A b \in Apps : Approved(b) => Approved(b)'
  BY <1>0, <1>1 DEF Approved, RestTypeOK
<1>3. ASSUME NEW b \in Apps PROVE RowInv(b)'
  BY <1>2, RowFrame DEF ExecutionInv, Review, sandboxVars
<1>4. Progress
  BY <1>2 DEF Review, Progress, Submitted, sandboxVars
<1>5. RestTypeOK'
  BY <1>0, <1>1 DEF RestTypeOK, Review, SandboxTypeOK, sandboxVars
<1>6. UNCHANGED call
  BY DEF Review
<1>7. QED
  BY <1>3, <1>4, <1>5, <1>6, StillSlots, Assembled

\* The start of an execute call preserves the invariant.
LEMMA StartExecuteStep ==
  ASSUME ExecutionInv, NEW c \in Calls, NEW a \in Apps, StartExecute(c, a)
  PROVE  ExecutionInv'
<1>1. RestTypeOK'
  BY TypeParts, SamePostsTypes DEF ExecutionInv, StartExecute
<1>2. (\A b \in Apps : RowInv(b)') /\ Progress
  BY QuietStep DEF StartExecute, dbVars
<1>3. CallTypeOK' /\ \A d \in Calls : SlotInv(d)'
  BY <1>2, StartSlots DEF StartExecute, Operation
<1>4. QED
  BY <1>1, <1>2, <1>3, Assembled

\* The start of a result query preserves the invariant.
LEMMA StartRecoverStep ==
  ASSUME ExecutionInv, NEW c \in Calls, NEW a \in Apps, StartRecover(c, a)
  PROVE  ExecutionInv'
<1>1. RestTypeOK'
  BY TypeParts, SamePostsTypes DEF ExecutionInv, StartRecover
<1>2. (\A b \in Apps : RowInv(b)') /\ Progress
  BY QuietStep DEF StartRecover, dbVars
<1>3. Submitted(a) /\ Approved(a)
  BY DEF StartRecover, Submitted, ExecutionInv, RowInv, InFlight
<1>4. CallTypeOK' /\ \A d \in Calls : SlotInv(d)'
  BY <1>2, <1>3, StartSlots DEF StartRecover, Operation
<1>5. QED
  BY <1>1, <1>2, <1>4, Assembled

\* Creating the execution preserves the invariant.
LEMMA CreateExecutionStep ==
  ASSUME ExecutionInv, NEW c \in Calls, CreateExecution(c)
  PROVE  ExecutionInv'
<1>0. RestTypeOK /\ CallTypeOK
  BY TypeParts DEF ExecutionInv
<1>a. PICK a \in Apps : a = call[c].app
  BY <1>0, SlotTypes
<1>1. /\ exec' \in [Apps -> Execution] /\ job' \in [Apps -> Job]
      /\ \A b \in Apps : RowInv(b)'
      /\ Progress
  <2>1. CASE Approved(a) /\ exec[a].status = "NONE"
    BY <1>0, <1>a, <2>1, TransitionStep DEF CreateExecution
  <2>2. CASE ~(Approved(a) /\ exec[a].status = "NONE")
    BY <1>0, <1>a, <2>2, QuietStep DEF CreateExecution, RestTypeOK
  <2>3. QED
    BY <2>1, <2>2
<1>2. RestTypeOK'
  BY <1>0, <1>1 DEF RestTypeOK, CreateExecution, SandboxTypeOK, sandboxVars
<1>3. CallTypeOK' /\ \A d \in Calls : SlotInv(d)'
  <2>1. ~At(c, "idle") /\ GoTo(c, "fetch")
    BY DEF CreateExecution, At
  <2>2. QED
    BY <1>1, <2>1, GoToSlots DEF Step
<1>4. QED
  BY <1>1, <1>2, <1>3, Assembled

\* Reading the execution back preserves the invariant.
LEMMA FetchExecutionStep ==
  ASSUME ExecutionInv, NEW c \in Calls, FetchExecution(c)
  PROVE  ExecutionInv'
<1>1. RestTypeOK'
  BY TypeParts, SamePostsTypes DEF ExecutionInv, FetchExecution
<1>2. (\A b \in Apps : RowInv(b)') /\ Progress
  BY QuietStep DEF FetchExecution, dbVars
<1>3. CallTypeOK' /\ \A d \in Calls : SlotInv(d)'
  <2>1. CASE GoTo(c, "claim")
    BY <1>2, <2>1, GoToSlots DEF FetchExecution, At, Step
  <2>2. CASE Return(c)
    BY <1>2, <2>2, ReturnSlots
  <2>3. QED
    BY <2>1, <2>2 DEF FetchExecution
<1>4. QED
  BY <1>1, <1>2, <1>3, Assembled

\* Claiming the execution, which opens its job, preserves the invariant.
LEMMA ClaimExecutionStep ==
  ASSUME ExecutionInv, NEW c \in Calls, ClaimExecution(c)
  PROVE  ExecutionInv'
<1>0. RestTypeOK /\ CallTypeOK /\ ~At(c, "idle")
  BY TypeParts DEF ExecutionInv, ClaimExecution, At
<1>a. PICK a \in Apps : a = call[c].app
  BY <1>0, SlotTypes
<1>1. Approved(a)
  BY <1>a DEF ExecutionInv, SlotInv, ClaimExecution, At
<1>2. CASE exec[a].status = "PENDING"
  <2>1. Transition(a, "RUNNING") /\ GoTo(c, "post")
    BY <1>a, <1>2 DEF ClaimExecution
  <2>2. /\ exec' \in [Apps -> Execution] /\ job' \in [Apps -> Job]
        /\ \A b \in Apps : RowInv(b)'
        /\ Progress /\ Submitted(a)'
    BY <1>0, <1>1, <1>2, <2>1, TransitionStep DEF ClaimExecution
  <2>3. RestTypeOK'
    BY <1>0, <2>2 DEF RestTypeOK, ClaimExecution, SandboxTypeOK, sandboxVars
  <2>4. CallTypeOK' /\ \A d \in Calls : SlotInv(d)'
    <3>1. call'[c].app = a
      BY <1>0, <1>a, <2>1 DEF GoTo, CallTypeOK, BusyCalls, IdleCalls
    <3>2. QED
      BY <1>0, <2>1, <2>2, <3>1, GoToSlots DEF Step, Submitted
  <2>5. QED
    BY <2>2, <2>3, <2>4, Assembled
<1>3. CASE exec[a].status # "PENDING"
  <2>1. UNCHANGED <<exec, job>> /\ Return(c)
    BY <1>a, <1>3 DEF ClaimExecution
  <2>2. (\A b \in Apps : RowInv(b)') /\ Progress
    BY <2>1, QuietStep DEF ClaimExecution
  <2>3. RestTypeOK'
    BY <1>0, <2>1 DEF RestTypeOK, ClaimExecution, SandboxTypeOK, sandboxVars
  <2>4. CallTypeOK' /\ \A d \in Calls : SlotInv(d)'
    BY <2>1, <2>2, ReturnSlots
  <2>5. QED
    BY <2>2, <2>3, <2>4, Assembled
<1>4. QED
  BY <1>2, <1>3

\* What a step of call c may rely on about its application.
LEMMA SlotFacts ==
  ASSUME ExecutionInv, NEW c \in Calls, ~At(c, "idle")
  PROVE  /\ RestTypeOK /\ CallTypeOK
         /\ call[c].app \in Apps /\ call[c].res \in AnyAnswer
         /\ Approved(call[c].app)
         /\ call[c].pc \in {"post", "query", "apply", "finish"} => Submitted(call[c].app)
         /\ call[c].res \in Verdict => call[c].res \in events[call[c].app]
         /\ call[c].pc = "apply" => call[c].res \in Answer
         /\ RowInv(call[c].app)
<1>1. RestTypeOK /\ CallTypeOK /\ SlotInv(c)
  BY TypeParts DEF ExecutionInv
<1>2. call[c].app \in Apps /\ call[c].res \in AnyAnswer
  BY <1>1, SlotTypes
<1>3. QED
  BY <1>1, <1>2 DEF SlotInv, At, ExecutionInv

\* A request the provider answers preserves the invariant.
LEMMA PostRefundStep ==
  ASSUME ExecutionInv, NEW c \in Calls, PostRefund(c)
  PROVE  ExecutionInv'
<1>0. ~At(c, "idle") /\ call[c].pc = "post"
  BY DEF PostRefund, At
<1>1. PICK a \in Apps : a = call[c].app
  BY <1>0, SlotFacts
<1>2. /\ SandboxExecute(a) /\ UNCHANGED delayed
      /\ posts' = [posts EXCEPT ![a] = posts[a] + 1]
      /\ UNCHANGED <<dbVars, licences>>
  BY <1>1 DEF PostRefund
<1>3. PICK pc \in {"finish", "apply"} : GoWith(c, pc, provider'[a])
  BY <1>1 DEF PostRefund
<1>4. Submitted(a) /\ RestTypeOK
  BY <1>0, <1>1, SlotFacts
<1>5. (\A b \in Apps : RowInv(b)') /\ Progress
  BY <1>2, <1>4, PostStep DEF SandboxExecute, RestTypeOK, dbVars
<1>6. provider'[a] \in Answer /\ RestTypeOK'
  BY <1>2, <1>4, SandboxTypes DEF RestTypeOK, dbVars
<1>7. CallTypeOK' /\ \A d \in Calls : SlotInv(d)'
  <2>1. provider'[a] \in Verdict => provider'[a] \in events'[a]
    BY <1>5 DEF RowInv, Verdict, Terminal
  <2>2. call'[c].app = a
    BY <1>0, <1>1, <1>3, SlotFacts DEF GoWith, CallTypeOK, BusyCalls, IdleCalls
  <2>3. Submitted(call[c].app)'
    BY <1>2, <1>4, <2>2 DEF Submitted, dbVars
  <2>4. QED
    BY <1>0, <1>1, <1>3, <1>5, <1>6, <2>1, <2>3, GoWithSlots DEF AnyAnswer, Step
<1>8. QED
  BY <1>5, <1>6, <1>7, Assembled

\* A request whose outcome the caller never learns, sent or not.
LEMMA UnknownPost ==
  ASSUME ExecutionInv, NEW a \in Apps, Submitted(a), PostOutcomeUnknown(a),
         posts' = [posts EXCEPT ![a] = @ + 1], UNCHANGED <<dbVars, licences>>
  PROVE  RestTypeOK' /\ (\A b \in Apps : RowInv(b)') /\ Progress
<1>1. RestTypeOK
  BY TypeParts DEF ExecutionInv
<1>2. (\A b \in Apps : RowInv(b)') /\ Progress
  BY <1>1, PostStep
     DEF PostOutcomeUnknown, SandboxExecute, sandboxVars, RestTypeOK, dbVars
<1>3. RestTypeOK'
  BY <1>1, SandboxTypes DEF RestTypeOK, dbVars
<1>4. QED
  BY <1>2, <1>3

\* A request whose outcome stays unknown preserves the invariant.
LEMMA PostFailsStep ==
  ASSUME ExecutionInv, NEW c \in Calls, PostFails(c)
  PROVE  ExecutionInv'
<1>0. ~At(c, "idle") /\ call[c].pc = "post"
  BY DEF PostFails, At
<1>1. PICK a \in Apps : a = call[c].app
  BY <1>0, SlotFacts
<1>2. RestTypeOK' /\ (\A b \in Apps : RowInv(b)') /\ Progress
  BY <1>0, <1>1, SlotFacts, UnknownPost DEF PostFails
<1>3. CallTypeOK' /\ \A d \in Calls : SlotInv(d)'
  <2>1. CASE Return(c)
    BY <1>2, <2>1, ReturnSlots
  <2>2. CASE GoWith(c, "finish", QueryError)
    <3>1. call'[c].app = a
      BY <1>0, <1>1, <2>2, SlotFacts DEF GoWith, CallTypeOK, BusyCalls, IdleCalls
    <3>2. Submitted(call[c].app)'
      BY <1>0, <1>1, <3>1, SlotFacts DEF Submitted, PostFails, dbVars
    <3>3. QueryError \in AnyAnswer /\ QueryError \notin Verdict
      BY DEF AnyAnswer, QueryError, Verdict
    <3>4. QED
      BY <1>0, <1>2, <2>2, <3>2, <3>3, GoWithSlots DEF Step
  <2>3. QED
    BY <2>1, <2>2 DEF PostFails
<1>4. QED
  BY <1>2, <1>3, Assembled

\* The death of a call preserves the invariant.
LEMMA CallLostStep ==
  ASSUME ExecutionInv, NEW c \in Calls, CallLost(c)
  PROVE  ExecutionInv'
<1>0. ~At(c, "idle")
  BY DEF CallLost
<1>1. PICK a \in Apps : a = call[c].app
  BY <1>0, SlotFacts
<1>2. RestTypeOK' /\ (\A b \in Apps : RowInv(b)') /\ Progress
  <2>1. CASE UNCHANGED <<sandboxVars, posts>>
    <3>1. RestTypeOK'
      BY <1>0, <2>1, SlotFacts, SamePostsTypes DEF CallLost
    <3>2. QED
      BY <2>1, <3>1, QuietStep DEF CallLost, dbVars
  <2>2. CASE At(c, "post") /\ PostOutcomeUnknown(a) /\ posts' = [posts EXCEPT ![a] = @ + 1]
    BY <1>0, <1>1, <2>2, SlotFacts, UnknownPost DEF CallLost, At
  <2>3. QED
    BY <1>1, <2>1, <2>2 DEF CallLost
<1>3. CallTypeOK' /\ \A d \in Calls : SlotInv(d)'
  BY <1>2, ReturnSlots DEF CallLost
<1>4. QED
  BY <1>2, <1>3, Assembled

\* The three outcomes of a result query preserve the invariant.
LEMMA QueryStep ==
  ASSUME ExecutionInv, NEW c \in Calls,
         QueryFinds(c) \/ QueryFindsNothing(c) \/ QueryFails(c)
  PROVE  ExecutionInv'
<1>0. ~At(c, "idle") /\ call[c].pc = "query"
  BY DEF QueryFinds, QueryFindsNothing, QueryFails, At
<1>1. PICK a \in Apps : a = call[c].app
  BY <1>0, SlotFacts
<1>2. UNCHANGED <<sandboxVars, dbVars, posts, licences>>
  BY DEF QueryFinds, QueryFindsNothing, QueryFails
<1>3. RestTypeOK' /\ (\A b \in Apps : RowInv(b)') /\ Progress
  BY <1>0, <1>2, SlotFacts, SamePostsTypes, QuietStep DEF dbVars
<1>4. CallTypeOK' /\ \A d \in Calls : SlotInv(d)'
  <2>1. CASE Return(c)
    BY <1>3, <2>1, ReturnSlots
  <2>2. ASSUME NEW pc \in {"apply", "finish", "post"}, NEW r \in AnyAnswer,
               GoWith(c, pc, r), r \in Verdict => r \in events[a],
               pc = "apply" => r \in Answer
        PROVE  CallTypeOK' /\ \A d \in Calls : SlotInv(d)'
    <3>1. call'[c].app = a
      BY <1>0, <1>1, <2>2, SlotFacts DEF GoWith, CallTypeOK, BusyCalls, IdleCalls
    <3>2. Submitted(call[c].app)'
      BY <1>0, <1>1, <1>2, <3>1, SlotFacts DEF Submitted, dbVars
    <3>3. QED
      BY <1>0, <1>1, <1>2, <1>3, <2>2, <3>2, GoWithSlots DEF Step, sandboxVars
  <2>3. CASE QueryFinds(c) /\ ~Return(c)
    <3>1. provider[a] \in Answer /\ (provider[a] \in Verdict => provider[a] \in events[a])
      BY <1>0, <1>1, <2>3, SlotFacts
         DEF QueryFinds, RestTypeOK, SandboxTypeOK, NoExecution, RowInv, Verdict, Terminal
    <3>2. QED
      BY <1>1, <2>2, <2>3, <3>1 DEF QueryFinds, AnyAnswer
  <2>4. CASE QueryFails(c) /\ ~Return(c)
    <3>1. QueryError \in AnyAnswer /\ QueryError \notin Verdict
      BY DEF AnyAnswer, QueryError, Verdict
    <3>2. QED
      BY <2>2, <2>4, <3>1 DEF QueryFails
  <2>5. CASE QueryFindsNothing(c) /\ ~Return(c)
    <3>1. PICK pc \in {"finish", "post"} : GoTo(c, pc)
      BY <2>5 DEF QueryFindsNothing
    <3>2. call'[c].app = a
      BY <1>0, <1>1, <3>1, SlotFacts DEF GoTo, CallTypeOK, BusyCalls, IdleCalls
    <3>3. Submitted(call[c].app)'
      BY <1>0, <1>1, <1>2, <3>2, SlotFacts DEF Submitted, dbVars
    <3>4. QED
      BY <1>0, <1>3, <3>1, <3>3, GoToSlots DEF Step
  <2>6. QED
    BY <2>1, <2>3, <2>4, <2>5
<1>5. QED
  BY <1>3, <1>4, Assembled

\* Applying an answer held in memory preserves the invariant.
LEMMA ApplyAnswerStep ==
  ASSUME ExecutionInv, NEW c \in Calls, ApplyAnswer(c)
  PROVE  ExecutionInv'
<1>0. ~At(c, "idle") /\ call[c].pc = "apply"
  BY DEF ApplyAnswer, At
<1>1. PICK a \in Apps : a = call[c].app
  BY <1>0, SlotFacts
<1>2. PICK r \in Answer : r = call[c].res
  BY <1>0, SlotFacts
<1>3. /\ exec' \in [Apps -> Execution] /\ job' \in [Apps -> Job]
      /\ disputed' \in [Apps -> BOOLEAN]
      /\ \A b \in Apps : RowInv(b)'
      /\ Progress
  BY <1>0, <1>1, <1>2, SlotFacts, ResultStep DEF ApplyAnswer
<1>4. RestTypeOK'
  BY <1>0, <1>3, SlotFacts DEF RestTypeOK, ApplyAnswer, SandboxTypeOK, sandboxVars
<1>5. CallTypeOK' /\ \A d \in Calls : SlotInv(d)'
  BY <1>3, ReturnSlots DEF ApplyAnswer
<1>6. QED
  BY <1>3, <1>4, <1>5, Assembled

\* Recording and applying a webhook event preserves the invariant.
LEMMA ReceiveWebhookStep ==
  ASSUME ExecutionInv, NEW a \in Apps, NEW v \in Verdict, ReceiveWebhook(a, v)
  PROVE  ExecutionInv'
<1>0. RestTypeOK
  BY TypeParts DEF ExecutionInv
<1>1. Submitted(a)
  BY <1>0 DEF ReceiveWebhook, Submitted, RestTypeOK, Execution, ExecutionStatus
<1>2. /\ exec' \in [Apps -> Execution] /\ job' \in [Apps -> Job]
      /\ disputed' \in [Apps -> BOOLEAN]
      /\ \A b \in Apps : RowInv(b)'
      /\ Progress
  BY <1>1, ResultStep DEF ReceiveWebhook, Answer
<1>3. RestTypeOK'
  BY <1>0, <1>2 DEF RestTypeOK, ReceiveWebhook, SandboxTypeOK, sandboxVars
<1>4. CallTypeOK' /\ \A d \in Calls : SlotInv(d)'
  BY <1>2, StillSlots DEF ReceiveWebhook
<1>5. QED
  BY <1>2, <1>3, <1>4, Assembled

\* The exhausted jobs swept into the manual queue still fit their executions.
LEMMA SweptFits ==
  ASSUME ExecutionInv
  PROVE  /\ Swept \in [Apps -> Job]
         /\ \A b \in Apps : /\ JobFits(Swept[b], exec[b])
                            /\ IsConflictJob(Swept[b]) <=> IsConflictJob(job[b])
<1>1. ASSUME NEW b \in Apps
      PROVE  /\ Swept[b] \in Job
             /\ JobFits(Swept[b], exec[b])
             /\ IsConflictJob(Swept[b]) <=> IsConflictJob(job[b])
  <2>1. exec[b] \in Execution /\ job[b] \in Job /\ JobFits(job[b], exec[b])
    BY DEF ExecutionInv, TypeOK, RowInv
  <2>2. CASE Exhausted(job[b])
    BY <2>1, <2>2, ExhaustedFits DEF Swept
  <2>3. CASE ~Exhausted(job[b])
    BY <2>1, <2>3 DEF Swept
  <2>4. QED
    BY <2>2, <2>3
<1>2. QED
  BY <1>1 DEF Swept

\* The sweep of all exhausted jobs preserves the invariant.
LEMMA SweepExhaustedStep ==
  ASSUME ExecutionInv, NEW w \in Workers, SweepExhausted(w)
  PROVE  ExecutionInv'
<1>0. RestTypeOK
  BY TypeParts DEF ExecutionInv
<1>1. job' = Swept
  BY DEF SweepExhausted
<1>2. (\A b \in Apps : RowInv(b)') /\ Progress
  <2>1. ASSUME NEW b \in Apps
        PROVE  /\ JobFits(job'[b], exec[b])
               /\ disputed'[b] <=> IsConflictJob(job'[b])
               /\ disputed'[b] => disputed[b]
    BY <1>1, SweptFits DEF ExecutionInv, RowInv, SweepExhausted
  <2>2. QED
    BY <2>1, JobStep DEF SweepExhausted
<1>3. RestTypeOK'
  BY <1>0, <1>1, SweptFits DEF RestTypeOK, SweepExhausted, SandboxTypeOK, sandboxVars
<1>4. CallTypeOK' /\ \A d \in Calls : SlotInv(d)'
  BY <1>2, StillSlots DEF SweepExhausted
<1>5. QED
  BY <1>2, <1>3, <1>4, Assembled

\* A lease on the job of an execution in flight.
LEMMA LeaseStep ==
  ASSUME ExecutionInv, NEW a \in Apps, NEW base \in [Apps -> Job], NEW k \in Job,
         exec[a].status \in InFlight,
         \A b \in Apps : /\ JobFits(base[b], exec[b])
                         /\ IsConflictJob(base[b]) <=> IsConflictJob(job[b]),
         JobFits(k, exec[a]), ~IsConflictJob(k),
         job' = [base EXCEPT ![a] = k],
         UNCHANGED <<sandboxVars, exec, application, posts, disputed>>
  PROVE  job' \in [Apps -> Job] /\ (\A b \in Apps : RowInv(b)') /\ Progress
<1>1. ASSUME NEW b \in Apps
      PROVE  /\ JobFits(job'[b], exec[b])
             /\ disputed'[b] <=> IsConflictJob(job'[b])
             /\ disputed'[b] => disputed[b]
  <2>1. disputed[b] <=> IsConflictJob(job[b])
    BY DEF ExecutionInv, RowInv
  <2>2. CASE b = a
    <3>1. job'[b] = k /\ ~IsConflictJob(job[b])
      BY <2>2 DEF ExecutionInv, RowInv, JobFits
    <3>2. QED
      BY <2>1, <2>2, <3>1
  <2>3. CASE b # a
    <3>1. job'[b] = base[b]
      BY <2>3
    <3>2. QED
      BY <2>1, <3>1
  <2>4. QED
    BY <2>2, <2>3
<1>2. QED
  BY <1>1, JobStep

\* Sweep and lease in one transaction preserve the invariant.
LEMMA ClaimRecoveryStep ==
  ASSUME ExecutionInv, NEW w \in Workers, NEW a \in Apps, ClaimRecovery(w, a)
  PROVE  ExecutionInv'
<1> DEFINE n == job[a].attempts + 1
           k == Leased(job[a], w, n)
<1>0. RestTypeOK /\ exec[a] \in Execution /\ job[a] \in Job /\ w \in Calls /\ w \in Holders
  BY TypeParts, ConstantFacts DEF ExecutionInv, RestTypeOK, Calls
<1>1. Swept[a] = job[a]
  <2>1. Swept[a].status \in {"READY", "LEASED"}
    BY DEF ClaimRecovery, Claimable
  <2>2. ~Exhausted(job[a])
    BY <1>0, <2>1 DEF Swept, ExhaustedJob, Job
  <2>3. QED
    BY <2>2 DEF Swept
<1>2. exec[a].status \in InFlight /\ job[a].attempts < MaxAttempts
  BY <1>1 DEF ClaimRecovery, Claimable
<1>3. n \in 0..MaxAttempts
  BY <1>0, <1>2, MaxAttemptsAssumption DEF Job
<1>4. job' = [Swept EXCEPT ![a] = k]
  BY <1>1 DEF ClaimRecovery
<1>5. k \in Job /\ JobFits(k, exec[a]) /\ ~IsConflictJob(k)
  BY <1>0, <1>2, <1>3, LeasedFits
<1>6. job' \in [Apps -> Job] /\ (\A b \in Apps : RowInv(b)') /\ Progress
  <2>1. UNCHANGED <<sandboxVars, exec, application, posts, disputed>>
    BY DEF ClaimRecovery
  <2>2. QED
    BY <1>2, <1>4, <1>5, <2>1, SweptFits, LeaseStep
<1>7. RestTypeOK'
  BY <1>0, <1>6 DEF RestTypeOK, ClaimRecovery, SandboxTypeOK, sandboxVars
<1>8. CallTypeOK' /\ \A d \in Calls : SlotInv(d)'
  <2>1. Submitted(a) /\ Approved(a)
    BY <1>2 DEF Submitted, ExecutionInv, RowInv, InFlight
  <2>2. QED
    BY <1>0, <1>6, <2>1, StartSlots DEF ClaimRecovery, Operation
<1>9. QED
  BY <1>6, <1>7, <1>8, Assembled

\* Authorising a resubmission preserves the invariant.
LEMMA ResubmitStep ==
  ASSUME ExecutionInv, NEW c \in Calls, NEW a \in Apps, Resubmit(c, a)
  PROVE  ExecutionInv'
<1> DEFINE l == Leased(job[a], c, 1)
           k == [l EXCEPT !.code = "NONE"]
<1>0. RestTypeOK /\ exec[a] \in Execution /\ job[a] \in Job /\ c \in Holders
  BY TypeParts, ConstantFacts DEF ExecutionInv, RestTypeOK
<1>1. exec[a].status \in InFlight /\ Approved(a)
  BY DEF Resubmit, Resubmittable, InFlight
<1>2. l \in Job /\ JobFits(l, exec[a]) /\ ~IsConflictJob(l)
  BY <1>0, <1>1, LeasedFits, MaxAttemptsAssumption
<1>3. k \in Job /\ k.status = l.status /\ k.token = l.token /\ k.code = "NONE"
  BY <1>2 DEF Job, ErrorCode
<1>4. JobFits(k, exec[a]) /\ ~IsConflictJob(k)
  BY <1>2, <1>3 DEF JobFits, IsConflictJob
<1>5. job' \in [Apps -> Job] /\ (\A b \in Apps : RowInv(b)') /\ Progress
  <2>1. UNCHANGED <<sandboxVars, exec, application, posts, disputed>>
    BY DEF Resubmit
  <2>2. job' = [job EXCEPT ![a] = k]
    BY DEF Resubmit
  <2>3. \A b \in Apps : JobFits(job[b], exec[b])
    BY DEF ExecutionInv, RowInv
  <2>4. job \in [Apps -> Job]
    BY <1>0 DEF RestTypeOK
  <2>5. QED
    BY <1>1, <1>3, <1>4, <2>1, <2>2, <2>3, <2>4, LeaseStep
<1>6. RestTypeOK'
  <2>1. licences' \in [Apps -> 0..MaxResubmissions]
    BY <1>0, MaxResubmissionsAssumption DEF Resubmit, RestTypeOK
  <2>2. QED
    BY <1>0, <1>5, <2>1 DEF RestTypeOK, Resubmit, SandboxTypeOK, sandboxVars
<1>7. CallTypeOK' /\ \A d \in Calls : SlotInv(d)'
  BY <1>1, <1>5, StartSlots DEF Resubmit, Operation, Submitted
<1>8. QED
  BY <1>5, <1>6, <1>7, Assembled

\* A finish under a valid lease preserves the invariant.
LEMMA FinishRecoveryStep ==
  ASSUME ExecutionInv, NEW c \in Calls, FinishRecovery(c)
  PROVE  ExecutionInv'
<1>0. ~At(c, "idle")
  BY DEF FinishRecovery, At
<1>1. PICK a \in Apps : a = call[c].app
  BY <1>0, SlotFacts
<1>2. PICK res \in AnyAnswer : res = call[c].res
  BY <1>0, SlotFacts
<1> DEFINE e == exec[a]
           j == job[a]
           f == FinishedExec(e, res)
           k == FinishedJob(j, e, res)
<1>3. /\ RestTypeOK /\ RowInv(a) /\ e \in Execution /\ j \in Job
      /\ events[a] \in SUBSET Verdict
      /\ res \in Verdict => res \in events[a]
  BY <1>0, <1>1, <1>2, SlotFacts DEF RestTypeOK, SandboxTypeOK
<1>4. /\ f \in Execution /\ k \in Job
      /\ JobFits(k, f)
      /\ e.status \in InFlight /\ ~IsConflictJob(j) /\ ~IsConflictJob(k)
  BY <1>1, <1>3, FinishedFits, ConstantFacts DEF FinishRecovery, AnyAnswer, RowInv
<1>5. /\ exec' = [exec EXCEPT ![a] = f]
      /\ job' = [job EXCEPT ![a] = k]
  BY <1>1, <1>2, <1>3 DEF FinishRecovery, RestTypeOK
<1>6. UNCHANGED disputed
  <2>1. ~Conflicts(e, res)
    BY <1>4 DEF Conflicts, InFlight, Terminal
  <2>2. disputed' = [disputed EXCEPT ![a] = disputed[a] \/ (res \in Answer /\ Conflicts(e, res))]
    BY <1>1, <1>2 DEF FinishRecovery
  <2>3. (disputed[a] \/ (res \in Answer /\ Conflicts(e, res))) = disputed[a]
    BY <1>3, <2>1 DEF RestTypeOK
  <2>4. QED
    BY <1>3, <2>2, <2>3 DEF RestTypeOK
<1>7. exec'[a] = f /\ job'[a] = k
  BY <1>3, <1>5 DEF RestTypeOK
<1>8. \A b \in Apps \ {a} : exec'[b] = exec[b] /\ job'[b] = job[b]
  BY <1>3, <1>5 DEF RestTypeOK
<1>9. UNCHANGED <<sandboxVars, application, received, posts, licences>>
  BY DEF FinishRecovery
<1>10. f.status \in InFlight \cup Terminal
  <2>1. CASE res \in Answer
    BY <1>4, <2>1 DEF FinishedExec, ExecAfter, Answer, Verdict, Accepted, InFlight, Terminal
  <2>2. CASE res \notin Answer
    BY <1>4, <2>2 DEF FinishedExec
  <2>3. QED
    BY <2>1, <2>2
<1>11. RowInv(a)'
  <2>1. JobFits(job[a], exec[a])' /\ ~IsConflictJob(job[a])'
    BY <1>4, <1>7
  <2>2. OutcomeFits(exec[a], events[a])'
    <3>1. OutcomeFits(f, events[a])
      BY <1>3, ExecAfterOutcome DEF FinishedExec, RowInv
    <3>2. QED
      BY <3>1, <1>7, <1>9 DEF sandboxVars
  <2>3. Submitted(a)'
    BY <1>7, <1>10 DEF Submitted
  <2>4. Approved(a)' /\ ~disputed'[a]
    BY <1>3, <1>4, <1>6, <1>9 DEF RowInv, Approved, InFlight
  <2>5. QED
    BY <1>3, <1>6, <1>9, <2>1, <2>2, <2>3, <2>4 DEF RowInv, sandboxVars
<1>12. ASSUME NEW b \in Apps \ {a} PROVE RowInv(b)'
  BY <1>6, <1>8, <1>9, RowFrame DEF ExecutionInv, sandboxVars, Approved
<1>13. Progress
  BY <1>7, <1>8, <1>9, <1>10 DEF Progress, Submitted, Approved, sandboxVars
<1>14. RestTypeOK'
  BY <1>3, <1>4, <1>5, <1>6, <1>9 DEF RestTypeOK, SandboxTypeOK, sandboxVars
<1>15. CallTypeOK' /\ \A d \in Calls : SlotInv(d)'
  BY <1>13, ReturnSlots DEF FinishRecovery
<1>16. QED
  BY <1>11, <1>12, <1>13, <1>14, <1>15, Assembled

\* A finish whose lease is gone preserves the invariant.
LEMMA FinishFencedStep ==
  ASSUME ExecutionInv, NEW c \in Calls, FinishFenced(c)
  PROVE  ExecutionInv'
<1>1. RestTypeOK'
  BY TypeParts, SamePostsTypes DEF ExecutionInv, FinishFenced
<1>2. (\A b \in Apps : RowInv(b)') /\ Progress
  BY QuietStep DEF FinishFenced, dbVars
<1>3. CallTypeOK' /\ \A d \in Calls : SlotInv(d)'
  BY <1>2, ReturnSlots DEF FinishFenced
<1>4. QED
  BY <1>1, <1>2, <1>3, Assembled

\* Resuming a manual item preserves the invariant.
LEMMA ResumeStep ==
  ASSUME ExecutionInv, NEW a \in Apps, Resume(a)
  PROVE  ExecutionInv'
<1> DEFINE k == ResumedJob(job[a])
<1>0. RestTypeOK /\ exec[a] \in Execution /\ job[a] \in Job
  BY TypeParts DEF ExecutionInv, RestTypeOK
<1>1. k \in Job /\ JobFits(k, exec[a]) /\ ~IsConflictJob(k)
  BY <1>0, ResumedFits DEF Resume
<1>2. job' \in [Apps -> Job] /\ (\A b \in Apps : RowInv(b)') /\ Progress
  <2>1. UNCHANGED <<sandboxVars, exec, application, posts, disputed>>
    BY DEF Resume
  <2>2. job' = [job EXCEPT ![a] = k] /\ exec[a].status \in InFlight
    BY DEF Resume
  <2>3. \A b \in Apps : JobFits(job[b], exec[b])
    BY DEF ExecutionInv, RowInv
  <2>4. job \in [Apps -> Job]
    BY <1>0 DEF RestTypeOK
  <2>5. QED
    BY <1>1, <2>1, <2>2, <2>3, <2>4, LeaseStep
<1>3. RestTypeOK'
  BY <1>0, <1>2 DEF RestTypeOK, Resume, SandboxTypeOK, sandboxVars
<1>4. CallTypeOK' /\ \A d \in Calls : SlotInv(d)'
  BY <1>2, StillSlots DEF Resume
<1>5. QED
  BY <1>2, <1>3, <1>4, Assembled

\* The passing of time preserves the invariant.
LEMMA TimerElapsesStep ==
  ASSUME ExecutionInv, NEW a \in Apps, TimerElapses(a)
  PROVE  ExecutionInv'
<1> DEFINE k == [job[a] EXCEPT !.elapsed = TRUE]
<1>0. RestTypeOK /\ exec[a] \in Execution /\ job[a] \in Job /\ JobFits(job[a], exec[a])
  BY TypeParts DEF ExecutionInv, RestTypeOK, RowInv
<1>1. k \in Job /\ k.status = job[a].status /\ k.token = job[a].token /\ k.code = job[a].code
  BY <1>0 DEF Job
<1>2. JobFits(k, exec[a]) /\ ~IsConflictJob(k) /\ exec[a].status \in InFlight
  BY <1>0, <1>1 DEF JobFits, IsConflictJob, TimerElapses, Execution, ExecutionStatus,
                    InFlight, Terminal
<1>3. job' \in [Apps -> Job] /\ (\A b \in Apps : RowInv(b)') /\ Progress
  <2>1. UNCHANGED <<sandboxVars, exec, application, posts, disputed>>
    BY DEF TimerElapses
  <2>2. job' = [job EXCEPT ![a] = k]
    BY <1>0 DEF TimerElapses, RestTypeOK
  <2>3. \A b \in Apps : JobFits(job[b], exec[b])
    BY DEF ExecutionInv, RowInv
  <2>4. job \in [Apps -> Job]
    BY <1>0 DEF RestTypeOK
  <2>5. QED
    BY <1>1, <1>2, <2>1, <2>2, <2>3, <2>4, LeaseStep
<1>4. RestTypeOK'
  BY <1>0, <1>3 DEF RestTypeOK, TimerElapses, SandboxTypeOK, sandboxVars
<1>5. CallTypeOK' /\ \A d \in Calls : SlotInv(d)'
  BY <1>3, StillSlots DEF TimerElapses
<1>6. QED
  BY <1>3, <1>4, <1>5, Assembled

\* Acknowledging a conflict preserves the invariant.
LEMMA AcknowledgeConflictStep ==
  ASSUME ExecutionInv, NEW a \in Apps, AcknowledgeConflict(a)
  PROVE  ExecutionInv'
<1> DEFINE k == [job[a] EXCEPT !.status = "COMPLETED"]
<1>0. /\ RestTypeOK /\ exec[a] \in Execution /\ job[a] \in Job
      /\ \A b \in Apps : RowInv(b)
  BY TypeParts DEF ExecutionInv, RestTypeOK
<1>1. job' = [job EXCEPT ![a] = k] /\ disputed' = [disputed EXCEPT ![a] = FALSE]
  BY <1>0 DEF AcknowledgeConflict, RestTypeOK
<1>2. k \in Job /\ k.status = "COMPLETED" /\ k.token = job[a].token
  BY <1>0 DEF Job, JobStatus
<1>3. job[a].token = NoToken
  BY <1>0 DEF RowInv, JobFits, AcknowledgeConflict, IsConflictJob
<1>4. (\A b \in Apps : RowInv(b)') /\ Progress
  <2>1. ASSUME NEW b \in Apps
        PROVE  /\ JobFits(job'[b], exec[b])
               /\ disputed'[b] <=> IsConflictJob(job'[b])
               /\ disputed'[b] => disputed[b]
    <3>1. CASE b = a
      <4>1. job'[b] = k /\ disputed'[b] = FALSE
        BY <1>0, <1>1, <3>1 DEF RestTypeOK
      <4>2. QED
        BY <1>2, <1>3, <3>1, <4>1
           DEF AcknowledgeConflict, JobFits, IsConflictJob, InFlight, Terminal
    <3>2. CASE b # a
      <4>1. job'[b] = job[b] /\ disputed'[b] = disputed[b]
        BY <1>0, <1>1, <3>2 DEF RestTypeOK
      <4>2. QED
        BY <1>0, <4>1 DEF RowInv
    <3>3. QED
      BY <3>1, <3>2
  <2>2. QED
    BY <2>1, JobStep DEF AcknowledgeConflict
<1>5. RestTypeOK'
  BY <1>0, <1>1, <1>2 DEF RestTypeOK, AcknowledgeConflict, SandboxTypeOK, sandboxVars
<1>6. CallTypeOK' /\ \A d \in Calls : SlotInv(d)'
  BY <1>4, StillSlots DEF AcknowledgeConflict
<1>7. QED
  BY <1>4, <1>5, <1>6, Assembled

\* The provider decides, or changes its mind.
LEMMA VerdictStep ==
  ASSUME ExecutionInv, NEW a \in Apps, NEW v \in Verdict,
         Settle(a, v) \/ Reverse(a, v),
         UNCHANGED <<exec, job, disputed, application, posts>>
  PROVE  (\A b \in Apps : RowInv(b)') /\ Progress
<1>0. RestTypeOK /\ RowInv(a)
  BY TypeParts DEF ExecutionInv
<1>1. /\ provider' = [provider EXCEPT ![a] = v]
      /\ events' = [events EXCEPT ![a] = events[a] \cup {v}]
      /\ UNCHANGED delayed
      /\ provider[a].status \in {"PROCESSING"} \cup Terminal
      /\ ~SelfContradicting => provider[a].status = "PROCESSING"
  BY DEF Settle, Reverse
<1>2. /\ provider'[a] = v /\ events'[a] = events[a] \cup {v}
      /\ \A b \in Apps \ {a} : provider'[b] = provider[b] /\ events'[b] = events[b]
  BY <1>0, <1>1 DEF RestTypeOK, SandboxTypeOK
<1>3. Submitted(a)
  BY <1>0, <1>1 DEF RowInv, Terminal
<1>4. ~SelfContradicting => events[a] = {}
  BY <1>0, <1>1 DEF RowInv, Verdict
<1>5. RowInv(a)'
  <2>1. OutcomeFits(exec[a], events[a])'
    BY <1>0, <1>2 DEF RowInv, OutcomeFits
  <2>2. ~SelfContradicting => (events[a] \subseteq {provider[a]} \cap Verdict /\ ~disputed[a])'
    BY <1>0, <1>2, <1>4 DEF RowInv
  <2>3. Submitted(a)' /\ (exec[a].status # "NONE" \/ posts[a] > 0 => Approved(a))'
    BY <1>0, <1>3 DEF RowInv, Submitted, Approved
  <2>4. JobFits(job[a], exec[a])' /\ (disputed[a] <=> IsConflictJob(job[a]))'
    BY <1>0 DEF RowInv
  <2>5. QED
    BY <1>2, <2>1, <2>2, <2>3, <2>4 DEF RowInv
<1>6. ASSUME NEW b \in Apps \ {a} PROVE RowInv(b)'
  BY <1>1, <1>2, RowFrame DEF ExecutionInv, Approved
<1>7. Progress
  BY <1>2 DEF Progress, Submitted, Approved
<1>8. QED
  BY <1>5, <1>6, <1>7

\* Late requests, settlements and reversals preserve the invariant.
LEMMA ProviderStepStep ==
  ASSUME ExecutionInv, ProviderStep
  PROVE  ExecutionInv'
<1>0. RestTypeOK
  BY TypeParts DEF ExecutionInv
<1>1. PICK a \in Apps : \/ DelayedPostArrives(a)
                        \/ \E v \in Verdict : Settle(a, v) \/ Reverse(a, v)
  BY DEF ProviderStep, SandboxNext
<1>2. UNCHANGED <<dbVars, call, posts, licences>>
  BY DEF ProviderStep
<1>3. (\A b \in Apps : RowInv(b)') /\ Progress
  <2>1. CASE DelayedPostArrives(a)
    <3>1. Submitted(a)
      BY <2>1 DEF DelayedPostArrives, ExecutionInv, RowInv
    <3>2. QED
      BY <1>2, <2>1, <3>1, PostStep DEF DelayedPostArrives, SandboxExecute, dbVars
  <2>2. CASE \E v \in Verdict : Settle(a, v) \/ Reverse(a, v)
    BY <1>2, <2>2, VerdictStep DEF dbVars
  <2>3. QED
    BY <1>1, <2>1, <2>2
<1>4. RestTypeOK'
  <2>1. SandboxTypeOK'
    BY <1>0, <1>1, SandboxTypes DEF RestTypeOK
  <2>2. QED
    BY <1>0, <1>2, <2>1 DEF RestTypeOK, dbVars
<1>5. CallTypeOK' /\ \A d \in Calls : SlotInv(d)'
  BY <1>2, <1>3, StillSlots
<1>6. QED
  BY <1>3, <1>4, <1>5, Assembled

-----------------------------------------------------------------------------
(* The invariant and what follows from it.                                  *)

\* The empty database satisfies the invariant.
LEMMA InitInv == Init => ExecutionInv
<1> SUFFICES ASSUME Init PROVE ExecutionInv
  OBVIOUS
<1>1. TypeOK
  BY InitType
<1>2. ASSUME NEW a \in Apps PROVE RowInv(a)
  BY DEF Init, SandboxInit, RowInv, JobFits, IsConflictJob, OutcomeFits, Submitted,
         NoExecution, NoJob, InFlight, Terminal
<1>3. ASSUME NEW c \in Calls PROVE SlotInv(c)
  <2>1. NoAnswer \notin Verdict
    BY DEF NoAnswer, Verdict
  <2>2. QED
    BY <2>1 DEF Init, SlotInv, Idle
<1>4. QED
  BY <1>1, <1>2, <1>3 DEF ExecutionInv

\* Every step preserves the invariant.
LEMMA StepInv == ExecutionInv /\ [Next]_vars => ExecutionInv'
<1> SUFFICES ASSUME ExecutionInv, [Next]_vars PROVE ExecutionInv'
  OBVIOUS
<1>0. Requests \subseteq Calls /\ Workers \subseteq Calls
  BY DEF Calls
<1>1. CASE UNCHANGED vars
  <2>1. RestTypeOK'
    BY <1>1, TypeParts, SamePostsTypes DEF ExecutionInv, vars
  <2>2. (\A b \in Apps : RowInv(b)') /\ Progress
    BY <1>1, QuietStep DEF vars, dbVars
  <2>3. QED
    BY <1>1, <2>1, <2>2, StillSlots, Assembled DEF vars
<1>2. ASSUME NEW a \in Apps, NEW decision \in {"APPROVED", "REJECTED"}, Review(a, decision)
      PROVE  ExecutionInv'
  BY <1>2, ReviewStep
<1>3. ASSUME NEW a \in Apps, NEW c \in Requests,
             StartExecute(c, a) \/ StartRecover(c, a) \/ Resubmit(c, a)
      PROVE  ExecutionInv'
  BY <1>0, <1>3, StartExecuteStep, StartRecoverStep, ResubmitStep
<1>4. ASSUME NEW a \in Apps, NEW w \in Workers, ClaimRecovery(w, a)
      PROVE  ExecutionInv'
  BY <1>4, ClaimRecoveryStep
<1>5. ASSUME NEW a \in Apps, NEW v \in Verdict, ReceiveWebhook(a, v)
      PROVE  ExecutionInv'
  BY <1>5, ReceiveWebhookStep
<1>6. ASSUME NEW a \in Apps, Resume(a) \/ AcknowledgeConflict(a) \/ TimerElapses(a)
      PROVE  ExecutionInv'
  BY <1>6, ResumeStep, AcknowledgeConflictStep, TimerElapsesStep
<1>7. ASSUME NEW w \in Workers, SweepExhausted(w) PROVE ExecutionInv'
  BY <1>7, SweepExhaustedStep
<1>8. ASSUME NEW c \in Calls, CallStep(c) PROVE ExecutionInv'
  BY <1>8, CreateExecutionStep, FetchExecutionStep, ClaimExecutionStep, PostRefundStep,
     PostFailsStep, QueryStep, ApplyAnswerStep, FinishRecoveryStep, FinishFencedStep
     DEF CallStep
<1>9. ASSUME NEW c \in Calls, CallLost(c) PROVE ExecutionInv'
  BY <1>9, CallLostStep
<1>10. CASE ProviderStep
  BY <1>10, ProviderStepStep
<1>11. QED
  BY <1>1, <1>2, <1>3, <1>4, <1>5, <1>6, <1>7, <1>8, <1>9, <1>10 DEF Next

\* Every reachable state keeps each execution, its job, its dispute mark, the
\* provider's row and the answers held in memory consistent, for any number of
\* applications, callers, batches and retries.
THEOREM ExecutionInvariant == Spec => []ExecutionInv
BY InitInv, StepInv, PTL DEF Spec

\* Rows, leases and calls stay within their types; attempts never pass
\* refund_recovery_max_attempts.
THEOREM TypeCorrect == Spec => []TypeOK
<1>1. ExecutionInv => TypeOK
  BY DEF ExecutionInv
<1>2. QED
  BY <1>1, ExecutionInvariant, PTL

\* The recovery queue and the executions never come apart.
THEOREM QueueMatches == Spec => []JobMatchesExecution
<1>1. ExecutionInv => JobMatchesExecution
  BY DEF ExecutionInv, RowInv, JobMatchesExecution
<1>2. QED
  BY <1>1, ExecutionInvariant, PTL

\* Only what the provider published is ever recorded as an outcome.
THEOREM OutcomesPublished == Spec => []OutcomeWasPublished
<1>1. ExecutionInv => OutcomeWasPublished
  BY DEF ExecutionInv, RowInv, OutcomeFits, OutcomeWasPublished
<1>2. QED
  BY <1>1, ExecutionInvariant, PTL

\* With the sandbox as coded the two books agree and nothing is disputed.
THEOREM HonestBooks == Spec => []HonestBooksAgree
<1>1. ExecutionInv => HonestBooksAgree
  BY DEF ExecutionInv, RowInv, OutcomeFits, HonestBooksAgree
<1>2. QED
  BY <1>1, ExecutionInvariant, PTL

\* An unacknowledged conflict is in the manual queue, and only such a one.
THEOREM DisputesQueued == Spec => []DisputeIsQueued
<1>1. ExecutionInv => DisputeIsQueued
  BY DEF ExecutionInv, RowInv, DisputeIsQueued
<1>2. QED
  BY <1>1, ExecutionInvariant, PTL

-----------------------------------------------------------------------------
(* Steps by their effect on the rows.                                       *)

\* The status change of an execution not yet submitted.
Submits(a) ==
  /\ \/ exec[a].status = "NONE" /\ Transition(a, "PENDING")
     \/ exec[a].status = "PENDING" /\ Transition(a, "RUNNING")
  /\ UNCHANGED events

\* A published result reaches a submitted execution.
Published(a, r) ==
  /\ Submitted(a)
  /\ r \in Verdict => r \in events[a]

Records(a, r) ==
  /\ Published(a, r)
  /\ exec' = [exec EXCEPT ![a] = ExecAfter(@, r)]
  /\ job' = [job EXCEPT ![a] = JobAfter(@, exec[a], r)]
  /\ UNCHANGED events

\* The holder of a lease finishes.
Finishes(c) ==
  /\ FinishRecovery(c)
  /\ call[c].app \in Apps
  /\ call[c].res \in Answer => Published(call[c].app, call[c].res)

\* An administrator takes a job out of the manual queue.
Relieves(a) ==
  /\ job[a].status = "MANUAL_REQUIRED"
  /\ \E k \in Job : /\ k.status \notin {"MANUAL_REQUIRED", "NONE"}
                   /\ job' = [job EXCEPT ![a] = k]
  /\ UNCHANGED <<exec, events>>

Elapses(a) == TimerElapses(a) /\ UNCHANGED <<exec, events>>

\* A claim transaction, with or without a candidate.
Claims ==
  /\ \/ job' = Swept
     \/ \E a \in Apps, w \in Workers :
          /\ Claimable(Swept[a], exec[a])
          /\ job' = [Swept EXCEPT ![a] = Leased(@, w, @.attempts + 1)]
  /\ UNCHANGED <<exec, events>>

Publishes(a) ==
  /\ Submitted(a)
  /\ \E v \in Verdict : events' = [events EXCEPT ![a] = @ \cup {v}]
  /\ UNCHANGED <<exec, job>>

Unmoved == UNCHANGED <<exec, job, events>>

\* There is no other way to change an execution, a job or a publication.
LEMMA StepKinds ==
  ASSUME ExecutionInv, [Next]_vars
  PROVE  \/ Unmoved \/ Claims
         \/ \E a \in Apps : \/ Submits(a) \/ Relieves(a) \/ Elapses(a) \/ Publishes(a)
                            \/ \E r \in Answer : Records(a, r)
         \/ \E c \in Calls : Finishes(c)
<1>0. RestTypeOK /\ Requests \subseteq Calls /\ Workers \subseteq Calls
  BY TypeParts DEF ExecutionInv, Calls
<1>1. ASSUME NEW c \in Calls, CreateExecution(c) \/ ClaimExecution(c)
      PROVE  Unmoved \/ \E a \in Apps : Submits(a)
  <2>1. call[c].app \in Apps
    BY <1>1, SlotFacts DEF CreateExecution, ClaimExecution, At
  <2>2. QED
    BY <1>1, <2>1 DEF CreateExecution, ClaimExecution, Unmoved, Submits, sandboxVars
<1>2. ASSUME NEW c \in Calls, ApplyAnswer(c)
      PROVE  \E a \in Apps : \E r \in Answer : Records(a, r)
  <2>1. /\ call[c].app \in Apps /\ call[c].res \in Answer /\ Submitted(call[c].app)
        /\ call[c].res \in Verdict => call[c].res \in events[call[c].app]
    BY <1>2, SlotFacts DEF ApplyAnswer, At
  <2>2. Records(call[c].app, call[c].res)
    BY <1>2, <2>1 DEF ApplyAnswer, ApplyResult, Records, Published, sandboxVars
  <2>3. QED
    BY <2>1, <2>2
<1>3. ASSUME NEW a \in Apps, NEW v \in Verdict, ReceiveWebhook(a, v)
      PROVE  Records(a, v) /\ v \in Answer
  <2>1. Submitted(a)
    BY <1>0, <1>3 DEF ReceiveWebhook, Submitted, RestTypeOK, Execution, ExecutionStatus
  <2>2. QED
    BY <1>3, <2>1 DEF ReceiveWebhook, ApplyResult, Records, Published, Answer, sandboxVars
<1>4. ASSUME NEW c \in Calls, FinishRecovery(c) PROVE Finishes(c)
  BY <1>4, SlotFacts DEF FinishRecovery, Finishes, Published, At
<1>5. ASSUME NEW c \in Calls,
             \/ FetchExecution(c) \/ PostRefund(c) \/ PostFails(c) \/ QueryFinds(c)
             \/ QueryFindsNothing(c) \/ QueryFails(c) \/ FinishFenced(c) \/ CallLost(c)
      PROVE  Unmoved
  BY <1>5 DEF Unmoved, FetchExecution, PostRefund, PostFails, QueryFinds,
     QueryFindsNothing, QueryFails, FinishFenced, CallLost, dbVars, sandboxVars,
     PostOutcomeUnknown, SandboxExecute
<1>6. ASSUME NEW a \in Apps, NEW c \in Calls, StartExecute(c, a) \/ StartRecover(c, a)
      PROVE  Unmoved
  BY <1>6 DEF Unmoved, StartExecute, StartRecover, dbVars, sandboxVars
<1>7. ASSUME NEW a \in Apps,
             \/ \E c \in Requests : Resubmit(c, a)
             \/ Resume(a) \/ AcknowledgeConflict(a)
      PROVE  Relieves(a)
  <2>0. /\ job \in [Apps -> Job] /\ job[a] \in Job
        /\ 0 \in 0..MaxAttempts /\ 1 \in 0..MaxAttempts
    BY <1>0, MaxAttemptsAssumption DEF RestTypeOK
  <2>1. ASSUME NEW c \in Requests, Resubmit(c, a) PROVE Relieves(a)
    <3> DEFINE l == Leased(job[a], c, 1)
               k == [l EXCEPT !.code = "NONE"]
    <3>1. l \in Job /\ l.status = "LEASED"
      BY <1>0, <2>0, ConstantFacts DEF Leased, Job, JobStatus
    <3>2. k \in Job /\ k.status = "LEASED"
      BY <3>1 DEF Job, ErrorCode
    <3>3. QED
      BY <2>1, <3>2 DEF Resubmit, Resubmittable, Relieves, sandboxVars
  <2>2. CASE Resume(a)
    <3>1. ResumedJob(job[a]) \in Job /\ ResumedJob(job[a]).status = "READY"
      BY <2>0 DEF ResumedJob, Job, JobStatus, ErrorCode
    <3>2. QED
      BY <2>2, <3>1 DEF Resume, Relieves, sandboxVars
  <2>3. CASE AcknowledgeConflict(a)
    <3>1. /\ [job[a] EXCEPT !.status = "COMPLETED"] \in Job
          /\ [job[a] EXCEPT !.status = "COMPLETED"].status = "COMPLETED"
      BY <2>0 DEF Job, JobStatus
    <3>2. QED
      BY <2>0, <2>3, <3>1 DEF AcknowledgeConflict, IsConflictJob, Relieves, sandboxVars
  <2>4. QED
    BY <1>7, <2>1, <2>2, <2>3
<1>8. ASSUME NEW w \in Workers, SweepExhausted(w) \/ \E a \in Apps : ClaimRecovery(w, a)
      PROVE  Claims
  BY <1>8 DEF ClaimRecovery, SweepExhausted, Claims, sandboxVars
<1>9. ASSUME NEW a \in Apps, TimerElapses(a) PROVE Elapses(a)
  BY <1>9 DEF TimerElapses, Elapses, sandboxVars
<1>10. ASSUME NEW a \in Apps, NEW decision \in {"APPROVED", "REJECTED"}, Review(a, decision)
       PROVE  Unmoved
  BY <1>10 DEF Review, Unmoved, sandboxVars
<1>11. ASSUME ProviderStep PROVE Unmoved \/ \E a \in Apps : Publishes(a)
  <2>1. PICK a \in Apps : \/ DelayedPostArrives(a)
                          \/ \E v \in Verdict : Settle(a, v) \/ Reverse(a, v)
    BY <1>11 DEF ProviderStep, SandboxNext
  <2>2. UNCHANGED <<exec, job>>
    BY <1>11 DEF ProviderStep, dbVars
  <2>3. CASE DelayedPostArrives(a)
    BY <2>2, <2>3 DEF DelayedPostArrives, SandboxExecute, Unmoved
  <2>4. CASE \E v \in Verdict : Settle(a, v) \/ Reverse(a, v)
    <3>1. Submitted(a)
      BY <2>4 DEF Settle, Reverse, Terminal, ExecutionInv, RowInv
    <3>2. QED
      BY <2>2, <2>4, <3>1 DEF Settle, Reverse, Publishes
  <2>5. QED
    BY <2>1, <2>3, <2>4
<1>12. CASE UNCHANGED vars
  BY <1>12 DEF Unmoved, vars, dbVars, sandboxVars
<1>13. CASE \E c \in Calls : CallStep(c) \/ CallLost(c)
  BY <1>1, <1>2, <1>4, <1>5, <1>13 DEF CallStep
<1>14. CASE \E a \in Apps :
              \/ \E decision \in {"APPROVED", "REJECTED"} : Review(a, decision)
              \/ \E c \in Requests : StartExecute(c, a) \/ StartRecover(c, a) \/ Resubmit(c, a)
              \/ \E w \in Workers : ClaimRecovery(w, a)
              \/ \E v \in Verdict : ReceiveWebhook(a, v)
              \/ Resume(a) \/ AcknowledgeConflict(a) \/ TimerElapses(a)
  BY <1>0, <1>3, <1>6, <1>7, <1>8, <1>9, <1>10, <1>14
<1>15. QED
  BY <1>8, <1>11, <1>12, <1>13, <1>14 DEF Next

-----------------------------------------------------------------------------
(* No regression.                                                           *)

Advances(a) ==
  /\ Rank(exec'[a].status) >= Rank(exec[a].status)
  /\ exec[a].status \in Terminal => exec'[a] = exec[a]

\* Every step leaves every execution where it is or moves it forward.
LEMMA StepAdvances ==
  ASSUME ExecutionInv, [Next]_vars
  PROVE  \A b \in Apps : Advances(b)
<1>0. exec \in [Apps -> Execution]
  BY DEF ExecutionInv, TypeOK
<1>1. \A b \in Apps : Rank(exec[b].status) \in Nat
  BY <1>0 DEF Rank
<1>2. ASSUME NEW b \in Apps, exec'[b] = exec[b] PROVE Advances(b)
  BY <1>1, <1>2 DEF Advances
<1>3. CASE UNCHANGED exec
  BY <1>2, <1>3
<1>4. ASSUME NEW a \in Apps, Submits(a) PROVE \A b \in Apps : Advances(b)
  <2>1. PICK status \in {"PENDING", "RUNNING"} :
          /\ Transition(a, status)
          /\ exec[a].status = IF status = "PENDING" THEN "NONE" ELSE "PENDING"
    BY <1>4 DEF Submits
  <2>2. /\ exec'[a].status = status
        /\ \A b \in Apps \ {a} : exec'[b] = exec[b]
    BY <1>0, <2>1 DEF Transition, Execution
  <2>3. Advances(a)
    BY <2>1, <2>2 DEF Advances, Rank, Terminal
  <2>4. QED
    BY <1>2, <2>2, <2>3
<1>5. ASSUME NEW a \in Apps, NEW r \in Answer, exec' = [exec EXCEPT ![a] = ExecAfter(@, r)]
      PROVE  \A b \in Apps : Advances(b)
  <2>1. /\ exec'[a] = ExecAfter(exec[a], r)
        /\ \A b \in Apps \ {a} : exec'[b] = exec[b]
    BY <1>0, <1>5
  <2>2. CASE ~Applies(exec[a], r)
    BY <1>2, <2>1, <2>2 DEF ExecAfter
  <2>3. CASE Applies(exec[a], r)
    <3>1. exec'[a].status = r.status
      BY <2>1, <2>3 DEF ExecAfter
    <3>2. Advances(a)
      BY <2>3, <3>1 DEF Applies, Advances, Rank, Terminal, InFlight
    <3>3. QED
      BY <1>2, <2>1, <3>2
  <2>4. QED
    BY <2>2, <2>3
<1>6. ASSUME NEW c \in Calls, Finishes(c) PROVE \A b \in Apps : Advances(b)
  <2>1. PICK a \in Apps : a = call[c].app
    BY <1>6 DEF Finishes
  <2>2. CASE call[c].res \in Answer
    BY <1>5, <1>6, <2>1, <2>2 DEF Finishes, FinishRecovery, FinishedExec
  <2>3. CASE call[c].res \notin Answer
    BY <1>0, <1>3, <1>6, <2>1, <2>3 DEF Finishes, FinishRecovery, FinishedExec
  <2>4. QED
    BY <2>2, <2>3
<1>7. QED
  BY <1>3, <1>4, <1>5, <1>6, StepKinds
     DEF Unmoved, Claims, Relieves, Elapses, Publishes, Records

\* No result, late, repeated or out of order, moves an execution back, and a
\* terminal row is final: the conditions of the three conditional UPDATEs are
\* enough, whoever runs them.
THEOREM NoRegression == Spec => NeverRegresses
<1>1. ExecutionInv /\ [Next]_vars =>
        [\A a \in Apps :
           /\ Rank(exec'[a].status) >= Rank(exec[a].status)
           /\ exec[a].status \in Terminal => exec'[a] = exec[a]]_vars
  BY StepAdvances DEF Advances
<1>2. QED
  BY <1>1, ExecutionInvariant, PTL DEF Spec, NeverRegresses

-----------------------------------------------------------------------------
(* Leases.                                                                  *)

\* How a lease may end.
Released(a, c) ==
  \/ At(c, "finish") /\ call[c].app = a /\ call'[c].pc = "idle"
  \/ exec[a].status \in InFlight /\ exec'[a].status \in Terminal

\* A step that takes an unexpired lease away is its holder's finish or a settlement.
LEMMA StepReleases ==
  ASSUME ExecutionInv, [Next]_vars, NEW b \in Apps, NEW h \in Calls,
         job[b].token = h, ~job[b].elapsed, job'[b].token # h
  PROVE  Released(b, h)
<1>0. /\ exec \in [Apps -> Execution] /\ job \in [Apps -> Job]
      /\ job[b] \in Job /\ exec[b] \in Execution /\ JobFits(job[b], exec[b])
  BY DEF ExecutionInv, TypeOK, RowInv
<1>1. job[b].status = "LEASED" /\ exec[b].status \in InFlight
  <2>1. job[b].status = "LEASED"
    BY <1>0, ConstantFacts DEF JobFits
  <2>2. QED
    BY <1>0, <2>1 DEF JobFits, IsConflictJob, Execution, ExecutionStatus, InFlight, Terminal
<1>2. job'[b] # job[b]
  OBVIOUS
<1>3. ~Unmoved
  BY <1>2 DEF Unmoved
<1>4. ~Claims
  <2>1. ~Exhausted(job[b]) /\ Swept[b] = job[b]
    BY <1>0, <1>1 DEF Exhausted, Swept
  <2>2. ASSUME Claims PROVE FALSE
    <3>1. PICK a \in Apps, w \in Workers :
            /\ Claimable(Swept[a], exec[a])
            /\ job' = [Swept EXCEPT ![a] = Leased(@, w, @.attempts + 1)]
      BY <1>2, <2>1, <2>2 DEF Claims
    <3>2. a = b
      BY <1>2, <2>1, <3>1 DEF Swept
    <3>3. QED
      BY <2>1, <3>1, <3>2 DEF Claimable
  <2>3. QED
    BY <2>2
<1>5. ASSUME NEW a \in Apps, Submits(a) PROVE FALSE
  <2>1. a # b /\ \E status : job' = [job EXCEPT ![a] = JobOnTransition(@, status)]
    BY <1>1, <1>5 DEF Submits, Transition, InFlight
  <2>2. QED
    BY <1>0, <1>2, <2>1
<1>6. ASSUME NEW a \in Apps, Relieves(a) PROVE FALSE
  BY <1>0, <1>1, <1>2, <1>6 DEF Relieves
<1>7. ASSUME NEW a \in Apps, Elapses(a) PROVE FALSE
  BY <1>0, <1>7 DEF Elapses, TimerElapses, Job
<1>8. ASSUME NEW a \in Apps, Publishes(a) PROVE FALSE
  BY <1>2, <1>8 DEF Publishes
<1>9. ASSUME NEW a \in Apps, NEW r \in Answer, Records(a, r) PROVE Released(b, h)
  <2>1. a = b
    BY <1>0, <1>2, <1>9 DEF Records
  <2>2. exec'[b] = ExecAfter(exec[b], r) /\ job'[b] = JobAfter(job[b], exec[b], r)
    BY <1>0, <1>9, <2>1 DEF Records
  <2>3. ~Conflicts(exec[b], r)
    BY <1>1 DEF Conflicts, InFlight, Terminal
  <2>4. Applies(exec[b], r) /\ r.status # "PROCESSING"
    BY <1>1, <1>2, <2>2, <2>3 DEF JobAfter, JobOnTransition, OpenJob, Terminal, InFlight
  <2>5. r.status \in Terminal /\ exec'[b].status = r.status
    BY <2>2, <2>4 DEF Applies, ExecAfter
  <2>6. QED
    BY <1>1, <2>5 DEF Released
<1>10. ASSUME NEW d \in Calls, Finishes(d) PROVE Released(b, h)
  <2>1. call[d].app = b
    BY <1>0, <1>2, <1>10 DEF Finishes, FinishRecovery
  <2>2. d = h /\ At(h, "finish")
    BY <1>10, <2>1 DEF Finishes, FinishRecovery, HeldBy
  <2>3. call'[h].pc = "idle"
    BY <1>10, <2>2 DEF Finishes, FinishRecovery, Return, Idle, ExecutionInv, TypeOK
  <2>4. QED
    BY <2>1, <2>2, <2>3 DEF Released
<1>11. QED
  BY <1>3, <1>4, <1>5, <1>6, <1>7, <1>8, <1>9, <1>10, StepKinds

\* A lease that has not expired is not taken away: it ends by its holder's
\* finish or with the refund settled, whatever other batches, webhooks and
\* administrators do meanwhile.
THEOREM LeasesRespected == Spec => LiveLeaseRespected
<1>1. ExecutionInv /\ [Next]_vars =>
        [\A a \in Apps, c \in Calls :
           job[a].token = c /\ ~job[a].elapsed /\ job'[a].token # c =>
             \/ At(c, "finish") /\ call[c].app = a /\ call'[c].pc = "idle"
             \/ exec[a].status \in InFlight /\ exec'[a].status \in Terminal]_vars
  BY StepReleases DEF Released
<1>2. QED
  BY <1>1, ExecutionInvariant, PTL DEF Spec, LiveLeaseRespected

-----------------------------------------------------------------------------
(* Refinement: the step a detailed step takes in RefundPromise.             *)

Attention == {a \in Apps : job[a].status = "MANUAL_REQUIRED"}

\* A step that leaves executions and publications alone is one of the
\* promise's manual-queue steps or no step at all.
LEMMA QueueMaps ==
  ASSUME UNCHANGED <<exec, events>>,
         \/ Attention' = Attention
         \/ \E S \in SUBSET Apps : /\ \A a \in S : exec[a].status \in InFlight
                                   /\ Attention' = Attention \cup S
         \/ \E a \in Apps : Attention' = Attention \ {a}
  PROVE  [Promise!PromiseNext]_(Promise!promiseVars)
<1>1. CASE Attention' = Attention
  BY <1>1 DEF Promise!promiseVars, Attention
<1>2. ASSUME NEW S \in SUBSET Apps, \A a \in S : exec[a].status \in InFlight,
             Attention' = Attention \cup S
      PROVE  Promise!PromiseNext
  <2>1. \A a \in S : StageOf(exec[a]) = "submitted"
    BY <1>2 DEF StageOf, InFlight
  <2>2. Promise!Escalate(S)
    BY <1>2, <2>1 DEF Promise!Escalate, Attention
  <2>3. QED
    BY <2>2 DEF Promise!PromiseNext
<1>3. ASSUME NEW a \in Apps, Attention' = Attention \ {a}
      PROVE  Promise!PromiseNext
  <2>1. Promise!Dismiss(a)
    BY <1>3 DEF Promise!Dismiss, Attention
  <2>2. QED
    BY <2>1 DEF Promise!PromiseNext
<1>4. QED
  BY <1>1, <1>2, <1>3

\* The steps that create or submit a refund are steps of the promise.
LEMMA SubmitsMaps ==
  ASSUME ExecutionInv, NEW a \in Apps, Submits(a)
  PROVE  Promise!PromiseNext
<1>0. /\ exec \in [Apps -> Execution] /\ job \in [Apps -> Job]
      /\ exec[a] \in Execution /\ job[a].status = "NONE"
  BY DEF ExecutionInv, TypeOK, RowInv, JobFits, Submits
<1>1. PICK status \in {"PENDING", "RUNNING"} :
        /\ Transition(a, status)
        /\ exec[a].status = IF status = "PENDING" THEN "NONE" ELSE "PENDING"
  BY DEF Submits
<1>2. /\ exec'[a].status = status
      /\ \A b \in Apps \ {a} : exec'[b] = exec[b] /\ job'[b] = job[b]
      /\ job'[a] = JobOnTransition(job[a], status)
  BY <1>0, <1>1 DEF Transition, Execution
<1>3. job'[a].status # "MANUAL_REQUIRED"
  BY <1>0, <1>2 DEF JobOnTransition, OpenJob, NoJob, InFlight, Terminal
<1>4. Attention' = Attention
  BY <1>0, <1>2, <1>3 DEF Attention
<1>5. [b \in Apps |-> OutcomeOf(exec'[b])] = [b \in Apps |-> OutcomeOf(exec[b])]
  BY <1>1, <1>2 DEF OutcomeOf, Terminal
<1>6. UNCHANGED events
  BY DEF Submits
<1>7. CASE status = "PENDING"
  <2>1. StageOf(exec[a]) = "none" /\ StageOf(exec'[a]) = "opened"
    BY <1>1, <1>2, <1>7 DEF StageOf, InFlight
  <2>2. [b \in Apps |-> StageOf(exec'[b])]
          = [[b \in Apps |-> StageOf(exec[b])] EXCEPT ![a] = "opened"]
    BY <1>2, <2>1
  <2>3. Promise!Open(a)
    BY <1>4, <1>5, <1>6, <2>1, <2>2 DEF Promise!Open, Attention
  <2>4. QED
    BY <2>3 DEF Promise!PromiseNext
<1>8. CASE status = "RUNNING"
  <2>1. StageOf(exec[a]) = "opened" /\ StageOf(exec'[a]) = "submitted"
    BY <1>1, <1>2, <1>8 DEF StageOf, InFlight
  <2>2. [b \in Apps |-> StageOf(exec'[b])]
          = [[b \in Apps |-> StageOf(exec[b])] EXCEPT ![a] = "submitted"]
    BY <1>2, <2>1
  <2>3. Promise!Submit(a)
    BY <1>4, <1>5, <1>6, <2>1, <2>2 DEF Promise!Submit, Attention
  <2>4. QED
    BY <2>3 DEF Promise!PromiseNext
<1>9. QED
  BY <1>7, <1>8

\* A published verdict that settles an execution in flight, and so its job.
LEMMA SettleMaps ==
  ASSUME ExecutionInv, NEW a \in Apps, NEW v \in Verdict, v \in events[a],
         exec[a].status \in InFlight, UNCHANGED events,
         exec' = [exec EXCEPT ![a] = v],
         \A b \in Apps \ {a} : job'[b] = job[b],
         job'[a].status # "MANUAL_REQUIRED"
  PROVE  Promise!PromiseNext
<1>0. exec \in [Apps -> Execution]
  BY DEF ExecutionInv, TypeOK
<1>1. exec'[a] = v /\ \A b \in Apps \ {a} : exec'[b] = exec[b]
  BY <1>0
<1>2. /\ StageOf(exec[a]) = "submitted" /\ StageOf(exec'[a]) = "settled"
      /\ OutcomeOf(exec'[a]) = v
  BY <1>1 DEF StageOf, OutcomeOf, Verdict, InFlight, Terminal
<1>3. /\ [b \in Apps |-> StageOf(exec'[b])]
           = [[b \in Apps |-> StageOf(exec[b])] EXCEPT ![a] = "settled"]
      /\ [b \in Apps |-> OutcomeOf(exec'[b])]
           = [[b \in Apps |-> OutcomeOf(exec[b])] EXCEPT ![a] = v]
  <2>1. ASSUME NEW b \in Apps
        PROVE  /\ StageOf(exec'[b]) = IF b = a THEN "settled" ELSE StageOf(exec[b])
               /\ OutcomeOf(exec'[b]) = IF b = a THEN v ELSE OutcomeOf(exec[b])
    BY <1>1, <1>2
  <2>2. QED
    BY <2>1, Zenon
<1>4. Attention' = Attention \ {a}
  BY DEF Attention
<1>5. Promise!SettleOn(a, v)
  BY <1>2, <1>3, <1>4 DEF Promise!SettleOn, Attention
<1>6. QED
  BY <1>5 DEF Promise!PromiseNext

\* What applying a published verdict makes of an execution in flight.
LEMMA VerdictRecorded ==
  ASSUME ExecutionInv, NEW a \in Apps, NEW r \in Answer,
         Applies(exec[a], r), r.status \in Terminal
  PROVE  r \in Verdict /\ ExecAfter(exec[a], r) = r
<1>1. r \in Verdict
  BY DEF Answer, Accepted, Terminal
<1>2. exec[a].ref = NoRef
  BY DEF ExecutionInv, RowInv, OutcomeFits, Applies, InFlight
<1>3. QED
  BY <1>1, <1>2, NoRefAssumption DEF ExecAfter, Verdict

\* A result recorded, ignored or disputed.
LEMMA RecordsMaps ==
  ASSUME ExecutionInv, NEW a \in Apps, NEW r \in Answer, Records(a, r)
  PROVE  [Promise!PromiseNext]_(Promise!promiseVars)
<1> DEFINE e == exec[a]
           j == job[a]
<1>0. /\ exec \in [Apps -> Execution] /\ job \in [Apps -> Job]
      /\ e \in Execution /\ j \in Job /\ JobFits(j, e) /\ OutcomeFits(e, events[a])
      /\ Submitted(a) /\ UNCHANGED events /\ (r \in Verdict => r \in events[a])
  BY DEF ExecutionInv, TypeOK, RowInv, Records, Published
<1>1. /\ exec' = [exec EXCEPT ![a] = ExecAfter(e, r)]
      /\ job' = [job EXCEPT ![a] = JobAfter(j, e, r)]
      /\ job'[a] = JobAfter(j, e, r)
      /\ \A b \in Apps \ {a} : exec'[b] = exec[b] /\ job'[b] = job[b]
  BY <1>0 DEF Records
<1>2. CASE Applies(e, r) /\ r.status \in Terminal
  <2>1. r \in Verdict /\ ExecAfter(e, r) = r
    BY <1>2, VerdictRecorded
  <2>2. e.status \in InFlight /\ j.status # "NONE" /\ ~IsConflictJob(j)
    BY <1>0, <1>2 DEF Applies, JobFits, InFlight, Terminal
  <2>3. job'[a].status = "COMPLETED"
    BY <1>0, <1>1, <1>2, <2>2 DEF JobAfter, JobOnTransition, CloseJob, Job
  <2>4. QED
    BY <1>0, <1>1, <2>1, <2>2, <2>3, SettleMaps
<1>3. CASE Applies(e, r) /\ r.status \notin Terminal
  <2>1. e.status = "RUNNING" /\ r.status = "PROCESSING"
    BY <1>3 DEF Applies
  <2>2. r = Accepted
    BY <2>1 DEF Answer, Verdict
  <2>3. exec'[a].status = "PROCESSING"
    BY <1>0, <1>1, <1>3, <2>1 DEF ExecAfter
  <2>4. job' = job
    <3>1. j.status # "NONE"
      BY <1>0, <2>1 DEF JobFits, InFlight
    <3>2. JobAfter(j, e, r) = j
      BY <1>3, <2>1, <3>1 DEF JobAfter, JobOnTransition, OpenJob
    <3>3. QED
      BY <1>0, <1>1, <3>2
  <2>5. /\ [b \in Apps |-> StageOf(exec'[b])] = [b \in Apps |-> StageOf(exec[b])]
        /\ [b \in Apps |-> OutcomeOf(exec'[b])] = [b \in Apps |-> OutcomeOf(exec[b])]
    <3>1. ASSUME NEW b \in Apps
          PROVE  StageOf(exec'[b]) = StageOf(exec[b]) /\ OutcomeOf(exec'[b]) = OutcomeOf(exec[b])
      BY <1>1, <2>1, <2>3 DEF StageOf, OutcomeOf, InFlight, Terminal
    <3>2. QED
      BY <3>1
  <2>6. QED
    BY <1>0, <2>4, <2>5 DEF Promise!promiseVars
<1>4. CASE ~Applies(e, r) /\ Conflicts(e, r)
  <2>1. exec' = exec
    BY <1>0, <1>1, <1>4 DEF ExecAfter
  <2>2. StageOf(e) = "settled" /\ OutcomeOf(e) = e /\ e.status \in Terminal
    BY <1>4 DEF Conflicts, StageOf, OutcomeOf, InFlight, Terminal
  <2>3. r \in events[a] /\ r # OutcomeOf(e)
    <3>1. r.status \in Terminal /\ r # e
      BY <1>4 DEF Conflicts, Terminal
    <3>2. QED
      BY <1>0, <2>2, <3>1 DEF Answer, Accepted, Terminal
  <2>4. job'[a].status = "MANUAL_REQUIRED"
    BY <1>0, <1>1, <1>4 DEF JobAfter, ConflictJob, Job
  <2>5. Attention' = Attention \cup {a}
    BY <1>1, <2>4 DEF Attention
  <2>6. Promise!Dispute(a)
    BY <1>0, <2>1, <2>2, <2>3, <2>5 DEF Promise!Dispute, Attention
  <2>7. QED
    BY <2>6 DEF Promise!PromiseNext
<1>5. CASE ~Applies(e, r) /\ ~Conflicts(e, r)
  <2>1. exec' = exec /\ job' = job
    BY <1>0, <1>1, <1>5 DEF ExecAfter, JobAfter
  <2>2. QED
    BY <1>0, <2>1, QueueMaps DEF Attention
<1>6. QED
  BY <1>2, <1>3, <1>4, <1>5

\* The publication of a verdict is a step of the promise.
LEMMA PublishesMaps ==
  ASSUME ExecutionInv, NEW a \in Apps, Publishes(a)
  PROVE  Promise!PromiseNext
<1>1. PICK v \in Verdict : events' = [events EXCEPT ![a] = @ \cup {v}]
  BY DEF Publishes
<1>2. StageOf(exec[a]) \in {"submitted", "settled"}
  BY DEF Publishes, Submitted, StageOf, InFlight, Terminal
<1>3. UNCHANGED <<exec, job>>
  BY DEF Publishes
<1>4. Promise!Publish(a, v)
  BY <1>1, <1>2, <1>3 DEF Promise!Publish
<1>5. QED
  BY <1>4 DEF Promise!PromiseNext

\* The manual queue after a claim: the exhausted jobs have joined it.
LEMMA ClaimsMaps ==
  ASSUME ExecutionInv, Claims
  PROVE  [Promise!PromiseNext]_(Promise!promiseVars)
<1> DEFINE S == {b \in Apps : Exhausted(job[b])}
<1>0. \A b \in Apps : /\ job[b] \in Job /\ exec[b] \in Execution /\ JobFits(job[b], exec[b])
                      /\ Swept[b] \in Job
  BY SweptFits DEF ExecutionInv, TypeOK, RowInv
<1>1. \A b \in S : exec[b].status \in InFlight
  BY <1>0 DEF Exhausted, JobFits, IsConflictJob, Execution, ExecutionStatus, InFlight, Terminal
<1>2. \A b \in Apps :
        Swept[b].status = "MANUAL_REQUIRED" <=> b \in S \/ job[b].status = "MANUAL_REQUIRED"
  BY <1>0 DEF Swept, ExhaustedJob, Job
<1>3. Attention' = Attention \cup S
  <2>1. CASE job' = Swept
    BY <1>2, <2>1 DEF Attention
  <2>2. ASSUME NEW a \in Apps, NEW w \in Workers, Claimable(Swept[a], exec[a]),
               job' = [Swept EXCEPT ![a] = Leased(@, w, @.attempts + 1)]
        PROVE  Attention' = Attention \cup S
    <3>1. /\ job'[a] = Leased(Swept[a], w, Swept[a].attempts + 1)
          /\ \A b \in Apps \ {a} : job'[b] = Swept[b]
      BY <2>2, SweptFits
    <3>2. job'[a].status = "LEASED"
      BY <1>0, <3>1 DEF Leased, Job
    <3>3. job[a].status # "MANUAL_REQUIRED" /\ a \notin S
      BY <1>0, <1>2, <2>2 DEF Claimable
    <3>4. QED
      BY <1>2, <3>1, <3>2, <3>3 DEF Attention
  <2>3. QED
    BY <2>1, <2>2 DEF Claims
<1>4. UNCHANGED <<exec, events>>
  BY DEF Claims
<1>5. QED
  BY <1>1, <1>3, <1>4, QueueMaps

\* A finish under a valid lease is a step of the promise or a stutter.
LEMMA FinishesMaps ==
  ASSUME ExecutionInv, NEW c \in Calls, Finishes(c)
  PROVE  [Promise!PromiseNext]_(Promise!promiseVars)
<1>1. PICK a \in Apps : a = call[c].app
  BY DEF Finishes
<1>2. PICK res \in AnyAnswer : res = call[c].res
  BY SlotFacts DEF Finishes, FinishRecovery, At
<1> DEFINE e == exec[a]
           j == job[a]
           f == FinishedExec(e, res)
           k == FinishedJob(j, e, res)
<1>3. /\ exec \in [Apps -> Execution] /\ job \in [Apps -> Job] /\ e \in Execution
      /\ j \in Job /\ JobFits(j, e) /\ HeldBy(j, c) /\ c \in Holders /\ UNCHANGED events
      /\ res \in Answer => Published(a, res)
  BY <1>1, <1>2, ConstantFacts
     DEF ExecutionInv, TypeOK, RowInv, Finishes, FinishRecovery, sandboxVars
<1>4. /\ exec' = [exec EXCEPT ![a] = f] /\ job' = [job EXCEPT ![a] = k]
      /\ exec'[a] = f /\ job'[a] = k
      /\ \A b \in Apps \ {a} : exec'[b] = exec[b] /\ job'[b] = job[b]
  BY <1>1, <1>2, <1>3 DEF Finishes, FinishRecovery
<1>5. /\ k \in Job /\ f \in Execution /\ JobFits(k, f) /\ ~IsConflictJob(k)
      /\ e.status \in InFlight
  BY <1>3, FinishedFits DEF AnyAnswer
<1>6. j.status = "LEASED"
  BY <1>3 DEF HeldBy
<1>7. CASE f.status \in Terminal
  <2>1. res \in Answer /\ f = ExecAfter(e, res)
    BY <1>5, <1>7 DEF FinishedExec, InFlight, Terminal
  <2>2. Applies(e, res) /\ res.status \in Terminal
    BY <1>5, <1>7, <2>1 DEF ExecAfter, InFlight, Terminal
  <2>3. res \in Verdict /\ f = res
    BY <2>1, <2>2, VerdictRecorded
  <2>4. res \in events[a] /\ k.status # "MANUAL_REQUIRED"
    BY <1>3, <1>5, <1>7, <2>1, <2>3 DEF Published, JobFits, IsConflictJob, InFlight, Terminal
  <2>5. QED
    BY <1>3, <1>4, <1>5, <2>3, <2>4, SettleMaps
<1>8. CASE f.status \notin Terminal
  <2>1. f.status \in InFlight
    BY <1>5, <1>8 DEF FinishedExec, ExecAfter, Applies, InFlight, Terminal
  <2>2. /\ [b \in Apps |-> StageOf(exec'[b])] = [b \in Apps |-> StageOf(exec[b])]
        /\ [b \in Apps |-> OutcomeOf(exec'[b])] = [b \in Apps |-> OutcomeOf(exec[b])]
    <3>1. ASSUME NEW b \in Apps
          PROVE  StageOf(exec'[b]) = StageOf(exec[b]) /\ OutcomeOf(exec'[b]) = OutcomeOf(exec[b])
      BY <1>4, <1>5, <2>1 DEF StageOf, OutcomeOf, InFlight, Terminal
    <3>2. QED
      BY <3>1
  <2>3. StageOf(exec[a]) = "submitted"
    BY <1>5 DEF StageOf, InFlight
  <2>4. CASE k.status = "MANUAL_REQUIRED"
    <3>1. Attention' = Attention \cup {a}
      BY <1>4, <2>4 DEF Attention
    <3>2. Promise!Escalate({a})
      BY <1>3, <2>2, <2>3, <3>1 DEF Promise!Escalate, Attention
    <3>3. QED
      BY <3>2 DEF Promise!PromiseNext
  <2>5. CASE k.status # "MANUAL_REQUIRED"
    <3>1. Attention' = Attention
      BY <1>4, <1>6, <2>5 DEF Attention
    <3>2. QED
      BY <1>3, <2>2, <3>1 DEF Promise!promiseVars, Attention
  <2>6. QED
    BY <2>4, <2>5
<1>9. QED
  BY <1>7, <1>8

\* An administrator's decision and the passing of time, on the queue.
LEMMA OneJobMaps ==
  ASSUME ExecutionInv, NEW a \in Apps, Relieves(a) \/ Elapses(a)
  PROVE  [Promise!PromiseNext]_(Promise!promiseVars)
<1>0. job \in [Apps -> Job] /\ job[a] \in Job
  BY DEF ExecutionInv, TypeOK
<1>1. CASE Relieves(a)
  <2>1. Attention' = Attention \ {a} /\ UNCHANGED <<exec, events>>
    BY <1>0, <1>1 DEF Relieves, Attention
  <2>2. QED
    BY <2>1, QueueMaps
<1>2. CASE Elapses(a)
  <2>1. /\ job' = [job EXCEPT ![a] = [job[a] EXCEPT !.elapsed = TRUE]]
        /\ [job[a] EXCEPT !.elapsed = TRUE].status = job[a].status
        /\ UNCHANGED <<exec, events>>
    BY <1>0, <1>2 DEF Elapses, TimerElapses, Job
  <2>2. Attention' = Attention
    BY <1>0, <2>1 DEF Attention
  <2>3. QED
    BY <2>1, <2>2, QueueMaps
<1>3. QED
  BY <1>1, <1>2

\* Every step is a step of the promise or a stutter.
LEMMA StepMaps == ExecutionInv /\ [Next]_vars => [Promise!PromiseNext]_(Promise!promiseVars)
<1> SUFFICES ASSUME ExecutionInv, [Next]_vars
             PROVE  [Promise!PromiseNext]_(Promise!promiseVars)
  OBVIOUS
<1>1. CASE Unmoved
  BY <1>1 DEF Unmoved, Promise!promiseVars
<1>2. QED
  BY <1>1, StepKinds, ClaimsMaps, SubmitsMaps, OneJobMaps, PublishesMaps, RecordsMaps,
     FinishesMaps

\* The initial states are the promise's.
LEMMA InitMaps == Init => Promise!PromiseInit
<1> SUFFICES ASSUME Init PROVE Promise!PromiseInit
  OBVIOUS
<1>1. StageOf(NoExecution) = "none" /\ OutcomeOf(NoExecution) = NoExecution
  BY DEF StageOf, OutcomeOf, NoExecution, InFlight, Terminal
<1>2. ASSUME NEW a \in Apps
      PROVE  /\ StageOf(exec[a]) = "none" /\ OutcomeOf(exec[a]) = NoExecution
             /\ job[a].status # "MANUAL_REQUIRED"
  <2>1. exec[a] = NoExecution /\ job[a] = NoJob
    BY DEF Init
  <2>2. QED
    BY <1>1, <2>1 DEF NoJob
<1>3. events = [a \in Apps |-> {}]
  BY DEF Init, SandboxInit
<1>4. QED
  BY <1>2, <1>3 DEF Promise!PromiseInit

\* The transactions, leases, retries and lost requests implement the promise:
\* one submission stage, one settlement on a published verdict, and a human
\* asked only about open or contradicted refunds.
THEOREM PromiseKept == Spec => KeepsPromise
BY InitMaps, StepMaps, ExecutionInvariant, PTL DEF Spec, KeepsPromise, Promise!PromiseSpec

-----------------------------------------------------------------------------
(* Submissions.                                                             *)

\* A call about to send POST /refunds: a claimed execute, or a resubmission
\* from its authorisation on.
Submitting(s, a) ==
  /\ s.app = a
  /\ s.pc = "post" \/ (s.op = "resubmit" /\ s.pc = "query")
Senders(a) == {c \in Calls : Submitting(call[c], a)}
Share(s, a) == IF Submitting(s, a) THEN 1 ELSE 0
Unclaimed(a) == IF exec[a].status \in {"NONE", "PENDING"} THEN 1 ELSE 0

\* The first submission and each authorisation is spent once: it is with an
\* execution nobody has claimed, with a call about to post, or already posted.
LicenceInv ==
  \A a \in Apps :
    /\ IsFiniteSet(Senders(a))
    /\ posts[a] + Cardinality(Senders(a)) + Unclaimed(a) <= 1 + licences[a]

\* Nobody but call c moves.
OnlyMoves(c) == \A d \in Calls \ {c} : call'[d] = call[d]

\* What a step of call c adds to posts, senders and unclaimed executions, it
\* takes from them or from a new licence.
Balanced(c, a) ==
  posts'[a] + Share(call'[c], a) + Unclaimed(a)' + licences[a]
    <= posts[a] + Share(call[c], a) + Unclaimed(a) + licences'[a]

\* The number of senders changes with the slot that moves.
LEMMA SendersMove ==
  ASSUME NEW c \in Calls, NEW a, OnlyMoves(c), IsFiniteSet(Senders(a))
  PROVE  /\ IsFiniteSet(Senders(a)') /\ Cardinality(Senders(a)) \in Nat
         /\ Cardinality(Senders(a)') \in Nat
         /\ Cardinality(Senders(a)') + Share(call[c], a)
              = Cardinality(Senders(a)) + Share(call'[c], a)
<1> DEFINE S == Senders(a)
           T == Senders(a)'
           Others == S \ {c}
<1>1. /\ IsFiniteSet(Others) /\ Cardinality(S) \in Nat /\ Cardinality(Others) \in Nat
      /\ Cardinality(Others) + Share(call[c], a) = Cardinality(S)
  <2>1. c \in S <=> Submitting(call[c], a)
    BY DEF Senders
  <2>2. IsFiniteSet(Others) /\ Cardinality(S) \in Nat /\ Cardinality(Others) \in Nat
    BY FS_RemoveElement, FS_CardinalityType
  <2>3. Cardinality(Others) = IF c \in S THEN Cardinality(S) - 1 ELSE Cardinality(S)
    BY FS_RemoveElement
  <2>4. QED
    BY <2>1, <2>2, <2>3 DEF Share
<1>2. T = IF Submitting(call'[c], a) THEN Others \cup {c} ELSE Others
  BY DEF Senders, OnlyMoves
<1>3. /\ IsFiniteSet(Others \cup {c})
      /\ Cardinality(Others \cup {c}) = Cardinality(Others) + 1
  BY <1>1, FS_AddElement
<1>4. QED
  BY <1>1, <1>2, <1>3 DEF Share

\* A balanced step keeps the licences.
LEMMA BalanceKept ==
  ASSUME TypeOK, TypeOK', LicenceInv, NEW c \in Calls, OnlyMoves(c),
         \A a \in Apps : Balanced(c, a)
  PROVE  LicenceInv'
<1> SUFFICES ASSUME NEW a \in Apps
             PROVE  /\ IsFiniteSet(Senders(a)')
                    /\ posts'[a] + Cardinality(Senders(a)') + Unclaimed(a)' <= 1 + licences'[a]
  BY DEF LicenceInv
<1>1. /\ posts[a] \in Nat /\ posts'[a] \in Nat /\ licences[a] \in Nat /\ licences'[a] \in Nat
      /\ Unclaimed(a) \in Nat /\ Unclaimed(a)' \in Nat
      /\ Share(call[c], a) \in Nat /\ Share(call'[c], a) \in Nat
  BY MaxResubmissionsAssumption DEF TypeOK, Unclaimed, Share
<1>2. /\ IsFiniteSet(Senders(a))
      /\ posts[a] + Cardinality(Senders(a)) + Unclaimed(a) <= 1 + licences[a]
  BY DEF LicenceInv
<1>3. /\ IsFiniteSet(Senders(a)') /\ Cardinality(Senders(a)) \in Nat
      /\ Cardinality(Senders(a)') \in Nat
      /\ Cardinality(Senders(a)') + Share(call[c], a)
           = Cardinality(Senders(a)) + Share(call'[c], a)
  BY <1>2, SendersMove
<1>4. posts'[a] + Share(call'[c], a) + Unclaimed(a)' + licences[a]
        <= posts[a] + Share(call[c], a) + Unclaimed(a) + licences'[a]
  BY DEF Balanced
<1> HIDE DEF Senders, Share, Unclaimed
<1>5. QED
  BY <1>1, <1>2, <1>3, <1>4

\* An execution that was claimed stays claimed.
LEMMA ClaimStands ==
  ASSUME ExecutionInv, [Next]_vars, NEW a \in Apps
  PROVE  Unclaimed(a) \in {0, 1} /\ Unclaimed(a)' \in {0, 1} /\ Unclaimed(a)' <= Unclaimed(a)
<1>1. Advances(a) /\ exec[a] \in Execution
  BY StepAdvances DEF ExecutionInv, TypeOK
<1>2. exec[a].status \notin {"NONE", "PENDING"} => Rank(exec[a].status) >= 2
  BY DEF Rank
<1>3. exec'[a].status \in {"NONE", "PENDING"} => Rank(exec'[a].status) <= 1
  BY DEF Rank
<1>4. Rank(exec[a].status) \in Nat /\ Rank(exec'[a].status) \in Nat
  BY DEF Rank
<1>5. QED
  BY <1>1, <1>2, <1>3, <1>4 DEF Advances, Unclaimed

\* A step that sends nothing, authorises nothing and makes no call a sender.
LEMMA IdleBalance ==
  ASSUME ExecutionInv, [Next]_vars, NEW c \in Calls, UNCHANGED <<posts, licences>>,
         \A a \in Apps : Submitting(call'[c], a) => Submitting(call[c], a)
  PROVE  \A a \in Apps : Balanced(c, a)
<1> SUFFICES ASSUME NEW a \in Apps PROVE Balanced(c, a)
  OBVIOUS
<1>1. posts[a] \in Nat /\ licences[a] \in Nat /\ posts'[a] = posts[a] /\ licences'[a] = licences[a]
  BY DEF ExecutionInv, TypeOK
<1>2. Unclaimed(a) \in {0, 1} /\ Unclaimed(a)' \in {0, 1} /\ Unclaimed(a)' <= Unclaimed(a)
  BY ClaimStands
<1>3. Share(call'[c], a) <= Share(call[c], a) /\ Share(call[c], a) \in {0, 1}
      /\ Share(call'[c], a) \in {0, 1}
  BY DEF Share
<1> HIDE DEF Unclaimed, Share
<1>4. QED
  BY <1>1, <1>2, <1>3 DEF Balanced

\* Calls that take a step without sending: a claim turns an unclaimed
\* execution into a sender, every other step makes none.
LEMMA QuietCallBalance ==
  ASSUME ExecutionInv, [Next]_vars, NEW c \in Calls,
         \/ CreateExecution(c) \/ FetchExecution(c) \/ QueryFinds(c)
         \/ QueryFindsNothing(c) \/ QueryFails(c) \/ ApplyAnswer(c)
         \/ FinishRecovery(c) \/ FinishFenced(c)
  PROVE  OnlyMoves(c) /\ \A a \in Apps : Balanced(c, a)
<1>1. UNCHANGED <<posts, licences>>
  BY DEF CreateExecution, FetchExecution, QueryFinds, QueryFindsNothing, QueryFails,
     ApplyAnswer, FinishRecovery, FinishFenced
<1>2. call \in [Calls -> IdleCalls \cup BusyCalls] /\ ~At(c, "idle") /\ call[c] \in BusyCalls
  <2>1. ~At(c, "idle")
    BY DEF CreateExecution, FetchExecution, QueryFinds, QueryFindsNothing, QueryFails,
       ApplyAnswer, FinishRecovery, FinishFenced, At
  <2>2. QED
    BY <2>1, SlotFacts, SlotTypes DEF CallTypeOK
<1>3. ASSUME Return(c)
      PROVE  OnlyMoves(c) /\ \A a \in Apps : ~Submitting(call'[c], a)
  BY <1>2, <1>3 DEF Return, Idle, OnlyMoves, Submitting
<1>4. ASSUME NEW pc \in {"fetch", "claim", "apply", "finish"},
             GoTo(c, pc) \/ \E r : GoWith(c, pc, r)
      PROVE  OnlyMoves(c) /\ \A a \in Apps : ~Submitting(call'[c], a)
  <2>1. call'[c].pc = pc
    BY <1>2, <1>4 DEF GoTo, GoWith, BusyCalls
  <2>2. OnlyMoves(c)
    BY <1>2, <1>4 DEF GoTo, GoWith, OnlyMoves
  <2>3. QED
    BY <2>1, <2>2 DEF Submitting
<1>5. ASSUME GoTo(c, "post"), call[c].op = "resubmit", At(c, "query")
      PROVE  OnlyMoves(c) /\ \A a \in Apps : Submitting(call'[c], a) => Submitting(call[c], a)
  <2>1. call'[c].app = call[c].app /\ OnlyMoves(c)
    BY <1>2, <1>5 DEF GoTo, BusyCalls, OnlyMoves
  <2>2. QED
    BY <1>5, <2>1 DEF Submitting, At
<1>6. OnlyMoves(c) /\ \A a \in Apps : Submitting(call'[c], a) => Submitting(call[c], a)
  <2>1. CASE CreateExecution(c)
    BY <1>4, <2>1 DEF CreateExecution
  <2>2. CASE FetchExecution(c)
    BY <1>3, <1>4, <2>2 DEF FetchExecution
  <2>3. CASE QueryFinds(c) \/ QueryFails(c)
    BY <1>3, <1>4, <2>3 DEF QueryFinds, QueryFails
  <2>4. CASE QueryFindsNothing(c)
    <3>1. GoTo(c, "finish") \/ Return(c) \/ (call[c].op = "resubmit" /\ GoTo(c, "post"))
      BY <2>4 DEF QueryFindsNothing
    <3>2. QED
      BY <1>3, <1>4, <1>5, <2>4, <3>1 DEF QueryFindsNothing
  <2>5. CASE ApplyAnswer(c) \/ FinishRecovery(c) \/ FinishFenced(c)
    BY <1>3, <2>5 DEF ApplyAnswer, FinishRecovery, FinishFenced
  <2>6. QED
    BY <2>1, <2>2, <2>3, <2>4, <2>5
<1>7. QED
  BY <1>1, <1>6, IdleBalance

\* The claim: the execution is claimed and its caller becomes the sender.
LEMMA ClaimBalance ==
  ASSUME ExecutionInv, [Next]_vars, NEW c \in Calls, ClaimExecution(c)
  PROVE  OnlyMoves(c) /\ \A a \in Apps : Balanced(c, a)
<1>1. /\ call \in [Calls -> IdleCalls \cup BusyCalls] /\ call[c].pc = "claim"
      /\ call[c] \in BusyCalls /\ call[c].app \in Apps /\ exec \in [Apps -> Execution]
      /\ UNCHANGED <<posts, licences>>
  BY SlotFacts, SlotTypes DEF ClaimExecution, At, CallTypeOK, RestTypeOK
<1>2. CASE exec[call[c].app].status = "PENDING"
  <2>1. OnlyMoves(c) /\ call'[c].app = call[c].app
    BY <1>1, <1>2 DEF ClaimExecution, GoTo, BusyCalls, OnlyMoves
  <2>2. /\ exec'[call[c].app].status = "RUNNING"
        /\ \A a \in Apps \ {call[c].app} : exec'[a] = exec[a]
    BY <1>1, <1>2 DEF ClaimExecution, Transition, Execution
  <2>3. ASSUME NEW a \in Apps PROVE Balanced(c, a)
    <3>1. posts[a] \in Nat /\ licences[a] \in Nat /\ posts'[a] = posts[a] /\ licences'[a] = licences[a]
      BY <1>1 DEF ExecutionInv, TypeOK
    <3>2. CASE a = call[c].app
      <4>1. Unclaimed(a) = 1 /\ Unclaimed(a)' = 0
        BY <1>2, <2>2, <3>2 DEF Unclaimed
      <4>2. Share(call'[c], a) \in {0, 1} /\ Share(call[c], a) \in {0, 1}
        BY DEF Share
      <4> HIDE DEF Unclaimed, Share
      <4>3. QED
        BY <3>1, <4>1, <4>2 DEF Balanced
    <3>3. CASE a # call[c].app
      <4>1. Unclaimed(a)' = Unclaimed(a) /\ Unclaimed(a) \in {0, 1}
        BY <2>2, <3>3 DEF Unclaimed
      <4>2. Share(call'[c], a) = 0 /\ Share(call[c], a) = 0
        BY <2>1, <3>3 DEF Share, Submitting
      <4> HIDE DEF Unclaimed, Share
      <4>3. QED
        BY <3>1, <4>1, <4>2 DEF Balanced
    <3>4. QED
      BY <3>2, <3>3
  <2>4. QED
    BY <2>1, <2>3
<1>3. CASE exec[call[c].app].status # "PENDING"
  <2>1. OnlyMoves(c) /\ \A a \in Apps : ~Submitting(call'[c], a)
    BY <1>1, <1>3 DEF ClaimExecution, Return, Idle, OnlyMoves, Submitting
  <2>2. QED
    BY <1>1, <2>1, IdleBalance
<1>4. QED
  BY <1>2, <1>3

\* A request that leaves, answered or not, ends its sender.
LEMMA SentBalance ==
  ASSUME ExecutionInv, [Next]_vars, NEW c \in Calls, At(c, "post"),
         posts' = [posts EXCEPT ![call[c].app] = @ + 1], UNCHANGED licences,
         \A a \in Apps : ~Submitting(call'[c], a)
  PROVE  \A a \in Apps : Balanced(c, a)
<1> SUFFICES ASSUME NEW a \in Apps PROVE Balanced(c, a)
  OBVIOUS
<1>1. /\ posts \in [Apps -> Nat] /\ licences[a] \in Nat /\ licences'[a] = licences[a]
  BY DEF ExecutionInv, TypeOK
<1>2. posts'[a] = IF a = call[c].app THEN posts[a] + 1 ELSE posts[a]
  BY <1>1
<1>3. call[c].pc = "post"
  BY DEF At
<1>4. call[c].app = a => Share(call[c], a) = 1
  BY <1>3 DEF Share, Submitting
<1>5. Share(call'[c], a) = 0 /\ Share(call[c], a) \in {0, 1}
  BY DEF Share
<1>6. Unclaimed(a) \in {0, 1} /\ Unclaimed(a)' \in {0, 1} /\ Unclaimed(a)' <= Unclaimed(a)
  BY ClaimStands
<1>7. posts[a] \in Nat
  BY <1>1
<1> HIDE DEF Unclaimed, Share
<1>8. QED
  BY <1>1, <1>2, <1>4, <1>5, <1>6, <1>7 DEF Balanced

\* Sending, with or without an answer, and the loss of a call at any point.
LEMMA SendBalance ==
  ASSUME ExecutionInv, [Next]_vars, NEW c \in Calls,
         PostRefund(c) \/ PostFails(c) \/ CallLost(c)
  PROVE  OnlyMoves(c) /\ \A a \in Apps : Balanced(c, a)
<1>1. ~At(c, "idle") /\ UNCHANGED licences
  BY DEF PostRefund, PostFails, CallLost, At
<1>2. call \in [Calls -> IdleCalls \cup BusyCalls] /\ call[c] \in BusyCalls
  BY <1>1, SlotFacts, SlotTypes DEF CallTypeOK
<1>3. \/ Return(c)
      \/ \E pc \in {"apply", "finish"} : \E r : GoWith(c, pc, r)
  BY DEF PostRefund, PostFails, CallLost
<1>4. OnlyMoves(c) /\ \A a \in Apps : ~Submitting(call'[c], a)
  <2>1. CASE Return(c)
    BY <1>2, <2>1 DEF Return, Idle, OnlyMoves, Submitting
  <2>2. ASSUME NEW pc \in {"apply", "finish"}, NEW r, GoWith(c, pc, r)
        PROVE  OnlyMoves(c) /\ \A a \in Apps : ~Submitting(call'[c], a)
    <3>1. call'[c].pc = pc
      BY <1>2, <2>2 DEF GoWith, BusyCalls
    <3>2. OnlyMoves(c)
      BY <1>2, <2>2 DEF GoWith, OnlyMoves
    <3>3. QED
      BY <3>1, <3>2 DEF Submitting
  <2>3. QED
    BY <1>3, <2>1, <2>2
<1>5. \/ UNCHANGED posts
      \/ At(c, "post") /\ posts' = [posts EXCEPT ![call[c].app] = @ + 1]
  BY DEF PostRefund, PostFails, CallLost
<1>6. CASE UNCHANGED posts
  BY <1>1, <1>4, <1>6, IdleBalance
<1>7. CASE At(c, "post") /\ posts' = [posts EXCEPT ![call[c].app] = @ + 1]
  BY <1>1, <1>4, <1>7, SentBalance
<1>8. QED
  BY <1>4, <1>5, <1>6, <1>7

\* Calls that start: only the resubmission starts as a sender, on its licence.
LEMMA StartBalance ==
  ASSUME ExecutionInv, [Next]_vars, NEW c \in Calls, NEW a \in Apps,
         StartExecute(c, a) \/ StartRecover(c, a) \/ ClaimRecovery(c, a) \/ Resubmit(c, a)
  PROVE  OnlyMoves(c) /\ \A b \in Apps : Balanced(c, b)
<1>1. call \in [Calls -> IdleCalls \cup BusyCalls] /\ call[c] \in IdleCalls /\ UNCHANGED posts
  BY DEF ExecutionInv, TypeOK, StartExecute, StartRecover, ClaimRecovery, Resubmit, At,
     BusyCalls
<1>2. CASE StartExecute(c, a) \/ StartRecover(c, a) \/ ClaimRecovery(c, a)
  <2>1. /\ OnlyMoves(c) /\ \A b \in Apps : ~Submitting(call'[c], b)
        /\ UNCHANGED <<posts, licences>>
    BY <1>1, <1>2 DEF StartExecute, StartRecover, ClaimRecovery, Start, OnlyMoves, Submitting
  <2>2. QED
    BY <2>1, IdleBalance
<1>3. CASE Resubmit(c, a)
  <2>1. OnlyMoves(c) /\ call'[c].app = a
    BY <1>1, <1>3 DEF Resubmit, Start, OnlyMoves
  <2>2. licences' = [licences EXCEPT ![a] = @ + 1]
    BY <1>3 DEF Resubmit
  <2>3. ASSUME NEW b \in Apps PROVE Balanced(c, b)
    <3>1. /\ posts[b] \in Nat /\ posts'[b] = posts[b] /\ licences[b] \in Nat
          /\ licences'[b] = IF b = a THEN licences[b] + 1 ELSE licences[b]
      BY <1>1, <2>2, MaxResubmissionsAssumption DEF ExecutionInv, TypeOK
    <3>2. Unclaimed(b) \in {0, 1} /\ Unclaimed(b)' \in {0, 1} /\ Unclaimed(b)' <= Unclaimed(b)
      BY ClaimStands
    <3>3. /\ Share(call[c], b) \in {0, 1} /\ Share(call'[c], b) \in {0, 1}
          /\ b # a => Share(call'[c], b) = 0
      BY <2>1 DEF Share, Submitting
    <3> HIDE DEF Unclaimed, Share
    <3>4. QED
      BY <3>1, <3>2, <3>3 DEF Balanced
  <2>4. QED
    BY <2>1, <2>3
<1>4. QED
  BY <1>2, <1>3

\* Steps without a call.
LEMMA StillLicensed ==
  ASSUME ExecutionInv, [Next]_vars, LicenceInv, UNCHANGED <<call, posts, licences>>
  PROVE  LicenceInv'
<1> SUFFICES ASSUME NEW a \in Apps
             PROVE  /\ IsFiniteSet(Senders(a)')
                    /\ posts'[a] + Cardinality(Senders(a)') + Unclaimed(a)' <= 1 + licences'[a]
  BY DEF LicenceInv
<1>1. Senders(a)' = Senders(a) /\ posts'[a] = posts[a] /\ licences'[a] = licences[a]
  BY DEF Senders
<1>2. /\ IsFiniteSet(Senders(a))
      /\ posts[a] + Cardinality(Senders(a)) + Unclaimed(a) <= 1 + licences[a]
  BY DEF LicenceInv
<1>3. posts[a] \in Nat /\ licences[a] \in Nat /\ Cardinality(Senders(a)) \in Nat
  BY <1>2, FS_CardinalityType, MaxResubmissionsAssumption DEF ExecutionInv, TypeOK
<1>4. Unclaimed(a) \in {0, 1} /\ Unclaimed(a)' \in {0, 1} /\ Unclaimed(a)' <= Unclaimed(a)
  BY ClaimStands
<1> HIDE DEF Senders, Unclaimed
<1>5. QED
  BY <1>1, <1>2, <1>3, <1>4

\* No step spends a submission twice.
LEMMA LicenceStep ==
  ASSUME ExecutionInv, ExecutionInv', LicenceInv, [Next]_vars
  PROVE  LicenceInv'
<1>0. TypeOK /\ TypeOK' /\ Requests \subseteq Calls /\ Workers \subseteq Calls
  BY DEF ExecutionInv, Calls
<1>1. ASSUME NEW c \in Calls, OnlyMoves(c), \A a \in Apps : Balanced(c, a)
      PROVE  LicenceInv'
  BY <1>0, <1>1, BalanceKept
<1>2. ASSUME NEW c \in Calls, CallStep(c) \/ CallLost(c) PROVE LicenceInv'
  BY <1>1, <1>2, QuietCallBalance, ClaimBalance, SendBalance DEF CallStep
<1>3. ASSUME NEW a \in Apps, NEW c \in Calls,
             StartExecute(c, a) \/ StartRecover(c, a) \/ ClaimRecovery(c, a) \/ Resubmit(c, a)
      PROVE  LicenceInv'
  BY <1>1, <1>3, StartBalance
<1>4. ASSUME NEW a \in Apps,
             \/ \E decision \in {"APPROVED", "REJECTED"} : Review(a, decision)
             \/ \E v \in Verdict : ReceiveWebhook(a, v)
             \/ Resume(a) \/ AcknowledgeConflict(a) \/ TimerElapses(a)
      PROVE  LicenceInv'
  <2>1. UNCHANGED <<call, posts, licences>>
    BY <1>4 DEF Review, ReceiveWebhook, Resume, AcknowledgeConflict, TimerElapses
  <2>2. QED
    BY <2>1, StillLicensed
<1>5. CASE (\E w \in Workers : SweepExhausted(w)) \/ ProviderStep \/ UNCHANGED vars
  <2>1. UNCHANGED <<call, posts, licences>>
    BY <1>5 DEF SweepExhausted, ProviderStep, vars
  <2>2. QED
    BY <2>1, StillLicensed
<1>6. CASE Next
  BY <1>0, <1>2, <1>3, <1>4, <1>5, <1>6 DEF Next
<1>7. QED
  BY <1>5, <1>6

\* Nothing has been spent at the start.
LEMMA InitLicence == Init => LicenceInv
<1> SUFFICES ASSUME Init, NEW a \in Apps
             PROVE  /\ IsFiniteSet(Senders(a))
                    /\ posts[a] + Cardinality(Senders(a)) + Unclaimed(a) <= 1 + licences[a]
  BY DEF LicenceInv
<1>1. Senders(a) = {}
  BY DEF Init, Senders, Submitting, Idle
<1>2. posts[a] = 0 /\ licences[a] = 0 /\ Unclaimed(a) \in {0, 1}
  BY DEF Init, Unclaimed
<1>3. IsFiniteSet(Senders(a)) /\ Cardinality(Senders(a)) = 0
  BY <1>1, FS_EmptySet
<1> HIDE DEF Senders, Unclaimed
<1>4. QED
  BY <1>2, <1>3

\* The provider is asked to pay at most once per approved application and once
\* more per recorded authorisation, however many calls race, fail or are lost.
THEOREM LicensedSubmissions == Spec => []PostsAreLicensed
<1>1. ExecutionInv /\ LicenceInv => PostsAreLicensed
  <2> SUFFICES ASSUME ExecutionInv, LicenceInv, NEW a \in Apps
               PROVE  /\ posts[a] <= 1 + licences[a]
                      /\ posts[a] > 0 \/ provider[a].status # "NONE" => Approved(a)
    BY DEF PostsAreLicensed
  <2>1. /\ IsFiniteSet(Senders(a))
        /\ posts[a] + Cardinality(Senders(a)) + Unclaimed(a) <= 1 + licences[a]
    BY DEF LicenceInv
  <2>2. posts[a] \in Nat /\ licences[a] \in Nat /\ Cardinality(Senders(a)) \in Nat
    BY <2>1, FS_CardinalityType, MaxResubmissionsAssumption DEF ExecutionInv, TypeOK
  <2>3. Unclaimed(a) \in {0, 1}
    BY DEF Unclaimed
  <2>4. posts[a] <= 1 + licences[a]
    <3> HIDE DEF Senders, Unclaimed
    <3>1. QED
      BY <2>1, <2>2, <2>3
  <2>5. posts[a] > 0 \/ provider[a].status # "NONE" => Approved(a)
    BY DEF ExecutionInv, RowInv, Submitted, InFlight, Terminal
  <2>6. QED
    BY <2>4, <2>5
<1>2. QED
  BY <1>1, InitLicence, LicenceStep, ExecutionInvariant, PTL DEF Spec

-----------------------------------------------------------------------------
(* What the recorded events and the disputes rest on.                       *)

\* Events are recorded for settled executions and are the provider's own; a
\* dispute rests on an event that differs from the recorded outcome.
Evidence(a) ==
  /\ received[a] # {} => exec[a].status \in Terminal
  /\ received[a] \subseteq events[a]
  /\ disputed[a] => exec[a].status \in Terminal /\ \E v \in events[a] : v # exec[a]
EvidenceInv == \A a \in Apps : Evidence(a)

\* A recorded event is the outcome, or has opened a dispute.
EventCounts(a) == \A v \in received'[a] \ received[a] : exec'[a] = v \/ disputed'[a]

\* Nothing takes back what the provider has published.
LEMMA EventsGrow ==
  ASSUME ExecutionInv, [Next]_vars
  PROVE  \A b \in Apps : events[b] \subseteq events'[b]
<1>0. events \in [Apps -> SUBSET Verdict]
  BY TypeParts DEF ExecutionInv, RestTypeOK, SandboxTypeOK
<1>1. ASSUME NEW a \in Apps, Publishes(a) PROVE \A b \in Apps : events[b] \subseteq events'[b]
  BY <1>0, <1>1 DEF Publishes
<1>2. UNCHANGED events \/ \E a \in Apps : Publishes(a)
  BY StepKinds DEF Unmoved, Claims, Submits, Relieves, Elapses, Records, Finishes,
     FinishRecovery, sandboxVars
<1>3. QED
  BY <1>1, <1>2

\* Where the events recorded and the disputes come from.
LEMMA EvidenceMoves ==
  ASSUME ExecutionInv, [Next]_vars
  PROVE  \/ UNCHANGED <<received, disputed>>
         \/ \E a \in Apps : UNCHANGED received /\ disputed' = [disputed EXCEPT ![a] = FALSE]
         \/ \E a \in Apps, v \in Verdict : ReceiveWebhook(a, v)
         \/ \E c \in Calls : ApplyAnswer(c) \/ FinishRecovery(c)
<1> DEFINE Kept == UNCHANGED <<received, disputed>>
<1>1. ASSUME NEW c \in Calls, CallStep(c) \/ CallLost(c), ~ApplyAnswer(c), ~FinishRecovery(c)
      PROVE  Kept
  BY <1>1 DEF CallStep, CreateExecution, ClaimExecution, FetchExecution, PostRefund,
     PostFails, QueryFinds, QueryFindsNothing, QueryFails, FinishFenced, CallLost, dbVars
<1>2. ASSUME ProviderStep PROVE Kept
  BY <1>2 DEF ProviderStep, dbVars
<1>3. ASSUME NEW a \in Apps, AcknowledgeConflict(a)
      PROVE  UNCHANGED received /\ disputed' = [disputed EXCEPT ![a] = FALSE]
  BY <1>3 DEF AcknowledgeConflict
<1>4. ASSUME NEW a \in Apps, Resume(a) \/ TimerElapses(a) PROVE Kept
  BY <1>4 DEF Resume, TimerElapses
<1>5. ASSUME NEW a \in Apps, NEW c \in Requests,
             StartExecute(c, a) \/ StartRecover(c, a) \/ Resubmit(c, a)
      PROVE  Kept
  BY <1>5 DEF StartExecute, StartRecover, Resubmit, dbVars
<1>6. ASSUME NEW a \in Apps, NEW decision \in {"APPROVED", "REJECTED"}, Review(a, decision)
      PROVE  Kept
  BY <1>6 DEF Review
<1>7. ASSUME NEW w \in Workers, SweepExhausted(w) \/ \E a \in Apps : ClaimRecovery(w, a)
      PROVE  Kept
  BY <1>7 DEF SweepExhausted, ClaimRecovery
<1>8. CASE UNCHANGED vars
  BY <1>8 DEF vars, dbVars
<1>9. CASE Next
  BY <1>1, <1>2, <1>3, <1>4, <1>5, <1>6, <1>7, <1>9 DEF Next
<1>10. QED
  BY <1>8, <1>9

\* A contradiction is between the recorded outcome and a published verdict.
LEMMA ConflictFounded ==
  ASSUME ExecutionInv, [Next]_vars, NEW a \in Apps, NEW r \in Answer,
         Published(a, r), Conflicts(exec[a], r)
  PROVE  exec'[a].status \in Terminal /\ \E v \in events'[a] : v # exec'[a]
<1>1. exec[a].status \in Terminal /\ exec'[a] = exec[a]
  BY StepAdvances DEF Advances, Conflicts
<1>2. r.status \in Terminal /\ r # exec[a]
  BY DEF Conflicts, Terminal
<1>3. r \in events[a]
  BY <1>2 DEF Published, Answer, Accepted, Terminal
<1>4. QED
  BY <1>1, <1>2, <1>3, EventsGrow

\* A verdict taken in is the outcome afterwards, or contradicts it.
LEMMA VerdictTaken ==
  ASSUME ExecutionInv, NEW a \in Apps, NEW v \in Verdict, Submitted(a)
  PROVE  /\ ExecAfter(exec[a], v).status \in Terminal
         /\ ExecAfter(exec[a], v) = v \/ Conflicts(exec[a], v)
<1>0. v \in Answer /\ v.status \in Terminal /\ (v.status = "FAILED" => v.ref = NoRef)
  BY DEF Answer, Verdict, Terminal
<1>1. CASE exec[a].status \in InFlight
  <2>1. Applies(exec[a], v)
    BY <1>0, <1>1 DEF Applies
  <2>2. QED
    BY <1>0, <2>1, VerdictRecorded
<1>2. CASE exec[a].status \in Terminal
  <2>1. ExecAfter(exec[a], v) = exec[a]
    BY <1>2 DEF ExecAfter, Applies, InFlight, Terminal
  <2>2. exec[a] \in Verdict
    <3>1. exec[a] \in events[a] /\ events[a] \in SUBSET Verdict
      BY <1>2, TypeParts DEF ExecutionInv, RowInv, OutcomeFits, RestTypeOK, SandboxTypeOK
    <3>2. QED
      BY <3>1
  <2>3. CASE ~Conflicts(exec[a], v)
    <3>1. v.status = exec[a].status /\ (v.status = "SUCCEEDED" => v.ref = exec[a].ref)
      BY <1>0, <1>2, <2>3 DEF Conflicts
    <3>2. v = exec[a]
      BY <2>2, <3>1 DEF Verdict
    <3>3. QED
      BY <1>2, <2>1, <3>2
  <2>4. QED
    BY <1>2, <2>1, <2>3
<1>3. QED
  BY <1>1, <1>2 DEF Submitted

\* Every step keeps the evidence, and no event is recorded without effect.
LEMMA EvidenceStep ==
  ASSUME ExecutionInv, EvidenceInv, [Next]_vars, NEW b \in Apps
  PROVE  Evidence(b)' /\ EventCounts(b)
<1>0. /\ exec \in [Apps -> Execution] /\ received \in [Apps -> SUBSET Verdict]
      /\ disputed \in [Apps -> BOOLEAN]
  BY DEF ExecutionInv, TypeOK
<1>1. events[b] \subseteq events'[b] /\ (exec[b].status \in Terminal => exec'[b] = exec[b])
  BY EventsGrow, StepAdvances DEF Advances
<1>2. ASSUME received'[b] = received[b], ~disputed'[b] \/ disputed'[b] = disputed[b]
      PROVE  Evidence(b)' /\ EventCounts(b)
  BY <1>1, <1>2 DEF EvidenceInv, Evidence, EventCounts
<1>3. ASSUME NEW a \in Apps, UNCHANGED received, disputed' = [disputed EXCEPT ![a] = FALSE]
      PROVE  Evidence(b)' /\ EventCounts(b)
  BY <1>0, <1>2, <1>3
<1>4. ASSUME NEW a \in Apps, NEW r \in Answer, Published(a, r), received'[b] = received[b],
             disputed' = [disputed EXCEPT ![a] = @ \/ Conflicts(exec[a], r)]
      PROVE  Evidence(b)' /\ EventCounts(b)
  <2>1. CASE a = b /\ Conflicts(exec[a], r)
    <3>1. exec'[b].status \in Terminal /\ \E v \in events'[b] : v # exec'[b]
      BY <1>4, <2>1, ConflictFounded
    <3>2. QED
      BY <1>1, <1>4, <3>1 DEF EvidenceInv, Evidence, EventCounts
  <2>2. CASE ~(a = b /\ Conflicts(exec[a], r))
    <3>1. disputed'[b] = disputed[b]
      BY <1>0, <1>4, <2>2
    <3>2. QED
      BY <1>2, <1>4, <3>1
  <2>3. QED
    BY <2>1, <2>2
<1>5. ASSUME NEW c \in Calls, ApplyAnswer(c) PROVE Evidence(b)' /\ EventCounts(b)
  <2>1. /\ call[c].app \in Apps /\ call[c].res \in Answer /\ Submitted(call[c].app)
        /\ call[c].res \in Verdict => call[c].res \in events[call[c].app]
    BY <1>5, SlotFacts DEF ApplyAnswer, At
  <2>2. Published(call[c].app, call[c].res)
    BY <2>1 DEF Published
  <2>3. QED
    BY <1>4, <1>5, <2>1, <2>2 DEF ApplyAnswer, ApplyResult
<1>6. ASSUME NEW c \in Calls, FinishRecovery(c) PROVE Evidence(b)' /\ EventCounts(b)
  <2>1. /\ call[c].app \in Apps
        /\ call[c].res \in Answer => Published(call[c].app, call[c].res)
    BY <1>6, SlotFacts DEF FinishRecovery, Published, At
  <2>2. CASE call[c].res \in Answer
    BY <1>4, <1>6, <2>1, <2>2 DEF FinishRecovery
  <2>3. CASE call[c].res \notin Answer
    BY <1>0, <1>2, <1>6, <2>1, <2>3 DEF FinishRecovery
  <2>4. QED
    BY <2>2, <2>3
<1>7. ASSUME NEW a \in Apps, NEW v \in Verdict, ReceiveWebhook(a, v)
      PROVE  Evidence(b)' /\ EventCounts(b)
  <2>0. v \in Answer /\ v \in events[a] /\ Published(a, v)
    BY <1>0, <1>7 DEF ReceiveWebhook, Answer, Published, Submitted, Execution, ExecutionStatus
  <2>1. CASE a # b
    BY <1>0, <1>2, <1>7, <2>1 DEF ReceiveWebhook, ApplyResult
  <2>2. CASE a = b
    <3>1. /\ exec'[b] = ExecAfter(exec[b], v) /\ received'[b] = received[b] \cup {v}
          /\ disputed'[b] = (disputed[b] \/ Conflicts(exec[b], v))
      BY <1>0, <1>7, <2>2 DEF ReceiveWebhook, ApplyResult
    <3>2. exec'[b].status \in Terminal /\ (exec'[b] = v \/ Conflicts(exec[b], v))
      BY <2>0, <2>2, <3>1, VerdictTaken DEF Published
    <3>3. received'[b] \subseteq events'[b]
      BY <1>1, <2>0, <2>2, <3>1 DEF EvidenceInv, Evidence
    <3>4. ASSUME disputed'[b] PROVE \E u \in events'[b] : u # exec'[b]
      <4>1. CASE Conflicts(exec[b], v)
        BY <2>0, <2>2, <4>1, ConflictFounded
      <4>2. CASE ~Conflicts(exec[b], v)
        BY <1>1, <3>1, <3>4, <4>2 DEF EvidenceInv, Evidence
      <4>3. QED
        BY <4>1, <4>2
    <3>5. Evidence(b)'
      BY <3>2, <3>3, <3>4 DEF Evidence
    <3>6. EventCounts(b)
      BY <3>1, <3>2 DEF EventCounts
    <3>7. QED
      BY <3>5, <3>6
  <2>3. QED
    BY <2>1, <2>2
<1>8. CASE UNCHANGED <<received, disputed>>
  BY <1>2, <1>8
<1>9. QED
  BY <1>3, <1>5, <1>6, <1>7, <1>8, EvidenceMoves

\* The empty tables carry no evidence.
LEMMA InitEvidence == Init => EvidenceInv
BY DEF Init, EvidenceInv, Evidence

\* Whenever an event is on record its refund is settled; whenever a refund is
\* disputed the provider has published a verdict other than the recorded one:
\* no repetition, reordering or crash alone ever raises a TERMINAL_CONFLICT.
THEOREM EvidenceHeld == Spec => []EvidenceInv
<1>1. ExecutionInv /\ EvidenceInv /\ [Next]_vars => EvidenceInv'
  BY EvidenceStep DEF EvidenceInv
<1>2. QED
  BY <1>1, InitEvidence, ExecutionInvariant, PTL DEF Spec

\* An event is never recorded and lost: in the transaction that records it, it
\* is (or becomes) the outcome, or the refund is disputed.
THEOREM EventsCount == Spec => [][\A a \in Apps : EventCounts(a)]_vars
<1>1. ExecutionInv /\ EvidenceInv /\ [Next]_vars => [\A a \in Apps : EventCounts(a)]_vars
  BY EvidenceStep
<1>2. QED
  BY <1>1, EvidenceHeld, ExecutionInvariant, PTL DEF Spec

-----------------------------------------------------------------------------
(* Lookups are counted.                                                     *)

\* A job nobody opened has had no lookup; one that asks for a human about a
\* refund in flight has had them all.
LookupsUsedUp(j) ==
  /\ j.status = "NONE" => j.attempts = 0
  /\ j.status = "MANUAL_REQUIRED" /\ ~IsConflictJob(j) => j.attempts = MaxAttempts
LookupsInv == \A a \in Apps : LookupsUsedUp(job[a])

\* A job is leased, or leased again after its lease ran out.
LeaseBegins(j, k) == k.status = "LEASED" /\ (j.status # "LEASED" \/ (j.elapsed /\ ~k.elapsed))

\* Each lease costs one attempt, and only an administrator gives attempts back.
LookupCounted(j, k) ==
  /\ LeaseBegins(j, k) => k.attempts = j.attempts + 1 \/ j.status = "MANUAL_REQUIRED"
  /\ k.attempts < j.attempts => j.status = "MANUAL_REQUIRED"

\* Rows as they are and as a step leaves them.
Counts(j, k) == LookupsUsedUp(k) /\ LookupCounted(j, k)

\* A row left alone.
LEMMA SameCounts ==
  ASSUME NEW j \in Job, LookupsUsedUp(j)
  PROVE  Counts(j, j)
<1>1. j.attempts \in 0..MaxAttempts /\ MaxAttempts \in Nat
  BY MaxAttemptsAssumption DEF Job
<1>2. QED
  BY <1>1 DEF Counts, LookupCounted, LeaseBegins

\* What a result does to the row of a refund leaves its attempts alone and
\* never leases it.
LEMMA JobAfterCounts ==
  ASSUME NEW j \in Job, NEW e \in Execution, NEW r \in Answer, JobFits(j, e), LookupsUsedUp(j)
  PROVE  /\ JobAfter(j, e, r).attempts = j.attempts
         /\ JobAfter(j, e, r).status = "LEASED" => JobAfter(j, e, r) = j
         /\ LookupsUsedUp(JobAfter(j, e, r))
<1>1. CASE ~Applies(e, r) /\ ~Conflicts(e, r)
  BY <1>1 DEF JobAfter
<1>2. CASE ~Applies(e, r) /\ Conflicts(e, r)
  BY <1>2 DEF JobAfter, ConflictJob, LookupsUsedUp, IsConflictJob, Job
<1>3. CASE Applies(e, r)
  <2>1. e.status \in InFlight /\ j.status # "NONE"
    BY <1>3 DEF Applies, InFlight, JobFits
  <2>2. CASE r.status \in Terminal
    BY <1>3, <2>1, <2>2 DEF JobAfter, JobOnTransition, CloseJob, LookupsUsedUp,
       IsConflictJob, Job
  <2>3. CASE r.status \notin Terminal
    BY <1>3, <2>1, <2>3 DEF JobAfter, JobOnTransition, OpenJob
  <2>4. QED
    BY <2>2, <2>3
<1>4. QED
  BY <1>1, <1>2, <1>3

\* A finish defers the job with its attempts, or escalates it once they are
\* used up.
LEMMA FinishedCounts ==
  ASSUME NEW j \in Job, NEW e \in Execution, NEW res \in AnyAnswer, JobFits(j, e),
         LookupsUsedUp(j), j.status = "LEASED"
  PROVE  Counts(j, FinishedJob(j, e, res))
<1> DEFINE applied == IF res \in Answer THEN JobAfter(j, e, res) ELSE j
           k == FinishedJob(j, e, res)
<1>0. j.attempts \in 0..MaxAttempts /\ MaxAttempts \in Nat
  BY MaxAttemptsAssumption DEF Job
<1>1. /\ applied.attempts = j.attempts /\ LookupsUsedUp(applied)
      /\ applied.status = "LEASED" => applied = j
  BY JobAfterCounts
<1>2. applied \in Job
  BY JobAfterType
<1> HIDE DEF applied
<1>3. CASE k = applied
  BY <1>0, <1>1, <1>3 DEF Counts, LookupCounted, LeaseBegins
<1>4. CASE k = DeferredJob(applied, Deferral(res))
  <2>1. /\ k.attempts = j.attempts
        /\ k.status = IF j.attempts >= MaxAttempts THEN "MANUAL_REQUIRED" ELSE "READY"
    BY <1>1, <1>2, <1>4 DEF DeferredJob, Job
  <2>2. k.status = "MANUAL_REQUIRED" => k.attempts = MaxAttempts
    BY <1>0, <2>1
  <2>3. QED
    BY <1>0, <2>1, <2>2 DEF Counts, LookupsUsedUp, LookupCounted, LeaseBegins
<1>5. QED
  BY <1>3, <1>4 DEF FinishedJob, applied

\* A claim transaction sweeps the exhausted jobs and counts the one it leases.
LEMMA ClaimCounts ==
  ASSUME ExecutionInv, LookupsInv, Claims, NEW b \in Apps
  PROVE  Counts(job[b], job'[b])
<1>0. /\ job[b] \in Job /\ Swept[b] \in Job /\ job[b].attempts \in 0..MaxAttempts
      /\ MaxAttempts \in Nat /\ LookupsUsedUp(job[b])
  BY SweptFits, MaxAttemptsAssumption DEF ExecutionInv, TypeOK, Job, LookupsInv
<1>1. Counts(job[b], Swept[b])
  <2>1. CASE Exhausted(job[b])
    <3>1. /\ Swept[b].attempts = job[b].attempts /\ Swept[b].status = "MANUAL_REQUIRED"
          /\ job[b].attempts = MaxAttempts
      BY <1>0, <2>1 DEF Swept, ExhaustedJob, Exhausted, Job
    <3>2. QED
      BY <1>0, <3>1 DEF Counts, LookupsUsedUp, LookupCounted, LeaseBegins
  <2>2. CASE ~Exhausted(job[b])
    BY <1>0, <2>2, SameCounts DEF Swept
  <2>3. QED
    BY <2>1, <2>2
<1>2. ASSUME NEW a \in Apps, NEW w \in Workers, Claimable(Swept[a], exec[a]),
             job' = [Swept EXCEPT ![a] = Leased(@, w, @.attempts + 1)]
      PROVE  Counts(job[b], job'[b])
  <2>1. CASE a # b
    BY <1>1, <1>2, <2>1 DEF Swept
  <2>2. CASE a = b
    <3>1. Swept[b] = job[b]
      BY <1>0, <1>2, <2>2 DEF Swept, ExhaustedJob, Claimable, Job
    <3>2. job'[b] = Leased(job[b], w, job[b].attempts + 1)
      BY <1>2, <2>2, <3>1 DEF Swept
    <3>3. job'[b].status = "LEASED" /\ job'[b].attempts = job[b].attempts + 1
      BY <1>0, <3>2 DEF Leased, Job
    <3>4. QED
      BY <1>0, <3>3 DEF Counts, LookupsUsedUp, LookupCounted
  <2>3. QED
    BY <2>1, <2>2
<1>3. QED
  BY <1>1, <1>2 DEF Claims

\* Every step counts the lookups it starts.
LEMMA LookupsStep ==
  ASSUME ExecutionInv, LookupsInv, [Next]_vars, NEW b \in Apps
  PROVE  Counts(job[b], job'[b])
<1>0. /\ job \in [Apps -> Job] /\ job[b] \in Job /\ LookupsUsedUp(job[b])
      /\ exec[b] \in Execution /\ JobFits(job[b], exec[b])
      /\ job[b].attempts \in 0..MaxAttempts /\ MaxAttempts \in Nat
  BY MaxAttemptsAssumption DEF ExecutionInv, TypeOK, RowInv, LookupsInv, Job
<1>1. CASE job'[b] = job[b]
  BY <1>0, <1>1, SameCounts
<1>2. ASSUME NEW a \in Apps, Submits(a) PROVE Counts(job[b], job'[b])
  <2>1. PICK status \in {"PENDING", "RUNNING"} :
          job' = [job EXCEPT ![a] = JobOnTransition(@, status)]
    BY <1>2 DEF Submits, Transition
  <2>2. CASE a = b
    <3>1. job'[b] = JobOnTransition(job[b], status)
      BY <1>0, <2>1, <2>2
    <3>2. exec[b].status \in {"NONE", "PENDING"}
      BY <1>2, <2>2 DEF Submits
    <3>3. job[b].status = "NONE" /\ job[b].attempts = 0
      BY <1>0, <3>2 DEF JobFits, LookupsUsedUp
    <3>4. job'[b] = job[b] \/ (job'[b].status = "READY" /\ job'[b].attempts = 0)
      BY <3>1, <3>3 DEF JobOnTransition, OpenJob, InFlight, Terminal, NoJob
    <3>5. QED
      BY <1>1, <3>3, <3>4 DEF Counts, LookupsUsedUp, LookupCounted, LeaseBegins
  <2>3. QED
    BY <1>0, <1>1, <2>1, <2>2
<1>3. ASSUME NEW a \in Apps, Relieves(a) PROVE Counts(job[b], job'[b])
  <2>1. CASE a = b
    BY <1>0, <1>3, <2>1 DEF Relieves, Counts, LookupsUsedUp, LookupCounted
  <2>2. QED
    BY <1>0, <1>1, <1>3, <2>1 DEF Relieves
<1>4. ASSUME NEW a \in Apps, Elapses(a) PROVE Counts(job[b], job'[b])
  <2>1. CASE a = b
    <3>1. /\ job'[b].status = job[b].status /\ job'[b].attempts = job[b].attempts
          /\ job'[b].elapsed /\ job[b].status \in {"READY", "LEASED"}
      BY <1>0, <1>4, <2>1 DEF Elapses, TimerElapses, Job
    <3>2. QED
      BY <1>0, <3>1 DEF Counts, LookupsUsedUp, LookupCounted, LeaseBegins
  <2>2. QED
    BY <1>0, <1>1, <1>4, <2>1 DEF Elapses, TimerElapses
<1>5. ASSUME NEW a \in Apps, NEW r \in Answer, Records(a, r) PROVE Counts(job[b], job'[b])
  <2>1. CASE a = b
    <3>1. job'[b] = JobAfter(job[b], exec[b], r)
      BY <1>0, <1>5, <2>1 DEF Records
    <3>2. /\ job'[b].attempts = job[b].attempts /\ LookupsUsedUp(job'[b])
          /\ job'[b].status = "LEASED" => job'[b] = job[b]
      BY <1>0, <3>1, JobAfterCounts
    <3>3. QED
      BY <1>0, <1>1, <3>2 DEF Counts, LookupCounted, LeaseBegins
  <2>2. QED
    BY <1>0, <1>1, <1>5, <2>1 DEF Records
<1>6. ASSUME NEW c \in Calls, Finishes(c) PROVE Counts(job[b], job'[b])
  <2>1. call[c].res \in AnyAnswer
    BY <1>6, SlotFacts DEF Finishes, FinishRecovery, At
  <2>2. CASE call[c].app = b
    <3>1. /\ job'[b] = FinishedJob(job[b], exec[b], call[c].res)
          /\ job[b].status = "LEASED"
      BY <1>0, <1>6, <2>2 DEF Finishes, FinishRecovery, HeldBy
    <3>2. QED
      BY <1>0, <2>1, <3>1, FinishedCounts
  <2>3. QED
    BY <1>0, <1>1, <1>6, <2>2 DEF Finishes, FinishRecovery
<1>7. QED
  BY <1>1, <1>2, <1>3, <1>4, <1>5, <1>6, ClaimCounts, StepKinds DEF Unmoved, Publishes

\* The empty queue has counted nothing.
LEMMA InitLookups == Init => LookupsInv
<1> SUFFICES ASSUME Init, NEW a \in Apps PROVE LookupsUsedUp(job[a])
  BY DEF LookupsInv
<1>1. job[a] = NoJob
  BY DEF Init
<1>2. QED
  BY <1>1 DEF NoJob, LookupsUsedUp

\* A human is asked about a refund in flight only after all its lookups, and so
\* a resubmission is authorised only then: refund_recovery_max_attempts leases
\* have come and gone since the job was opened or last resumed.
THEOREM LookupsComeFirst == Spec => []LookupsInv
<1>1. ExecutionInv /\ LookupsInv /\ [Next]_vars => LookupsInv'
  BY LookupsStep DEF LookupsInv, Counts
<1>2. QED
  BY <1>1, InitLookups, ExecutionInvariant, PTL DEF Spec

\* No lease is free: each one taken, by whichever batch, costs an attempt, and
\* no step but an administrator's gives attempts back.  So between two
\* administrators' steps a job is leased at most refund_recovery_max_attempts
\* times.
THEOREM LookupsCounted == Spec => [][\A a \in Apps : LookupCounted(job[a], job'[a])]_vars
<1>1. ExecutionInv /\ LookupsInv /\ [Next]_vars
        => [\A a \in Apps : LookupCounted(job[a], job'[a])]_vars
  BY LookupsStep DEF Counts
<1>2. QED
  BY <1>1, LookupsComeFirst, ExecutionInvariant, PTL DEF Spec
=============================================================================
