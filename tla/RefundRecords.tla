--------------------------- MODULE RefundRecords ---------------------------
(***************************************************************************)
(* The rows the refund subsystem keeps and the conditional updates on      *)
(* them: refund_executions, refund_recovery_jobs, and the verdicts the     *)
(* payment provider answers with.  No variables: RefundExecution applies   *)
(* these operators inside its transactions.                                *)
(*                                                                         *)
(* Amount and currency are left out: they are copied from the approved     *)
(* application when the execution is created and never written again.      *)
(* Time is left out too: a row's next_attempt_at (READY) or                *)
(* lease_expires_at (LEASED) is the one flag "elapsed".                    *)
(***************************************************************************)
EXTENDS Naturals

CONSTANTS
  Apps,         \* refund applications, and so idempotency keys 'refund:' || id
  Refs,         \* provider references a successful settlement may carry
  NoRef,        \* a NULL provider_reference
  Holders,      \* whoever may hold a lease: one uuid token per call
  NoToken,      \* a NULL lease_token
  MaxAttempts   \* refund_recovery_max_attempts

ASSUME AppsAssumption == Apps # {}
ASSUME NoRefAssumption == NoRef \notin Refs
ASSUME NoTokenAssumption == NoToken \notin Holders
ASSUME MaxAttemptsAssumption == MaxAttempts \in Nat \ {0}

InFlight == {"RUNNING", "PROCESSING"}
Terminal == {"SUCCEEDED", "FAILED"}
ExecutionStatus == {"NONE", "PENDING"} \cup InFlight \cup Terminal

JobStatus == {"NONE", "READY", "LEASED", "COMPLETED", "MANUAL_REQUIRED"}

\* PROVIDER_ERROR stands for PROVIDER_TIMEOUT and PROVIDER_UNAVAILABLE.
ErrorCode == {"NONE", "NOT_FOUND", "STILL_PROCESSING", "PROVIDER_ERROR",
              "ATTEMPTS_EXHAUSTED", "TERMINAL_CONFLICT"}

Reference == Refs \cup {NoRef}
Execution == [status : ExecutionStatus, ref : Reference]
Job == [status : JobStatus, attempts : 0..MaxAttempts,
        token : Holders \cup {NoToken}, elapsed : BOOLEAN, code : ErrorCode]

NoExecution == [status |-> "NONE", ref |-> NoRef]
NoJob == [status |-> "NONE", attempts |-> 0, token |-> NoToken,
          elapsed |-> FALSE, code |-> "NONE"]

-----------------------------------------------------------------------------
(* Provider results.  A verdict is a terminal one; only a success carries a *)
(* reference.                                                               *)

Verdict == {[status |-> "FAILED", ref |-> NoRef]}
             \cup {[status |-> "SUCCEEDED", ref |-> r] : r \in Refs}
Accepted == [status |-> "PROCESSING", ref |-> NoRef]
Answer == Verdict \cup {Accepted}

-----------------------------------------------------------------------------
(* Applying a result to an execution.                                       *)

\* Mutant: the UPDATE without its status condition.
AppliesAlways(e, r) == TRUE

\* The condition of the three conditional UPDATEs.
Applies(e, r) ==
  \/ e.status \in InFlight /\ r.status \in Terminal
  \/ e.status = "RUNNING" /\ r.status = "PROCESSING"

\* Mutant: provider_reference is never written.
ExecAfterWithoutReference(e, r) ==
  IF Applies(e, r) THEN [e EXCEPT !.status = r.status] ELSE e

\* What they write: a failure keeps the reference, a blank one is ignored.
ExecAfter(e, r) ==
  IF Applies(e, r)
    THEN [status |-> r.status,
          ref |-> IF r.status = "FAILED" \/ r.ref = NoRef THEN e.ref ELSE r.ref]
    ELSE e

\* An ignored result that contradicts the terminal state already recorded.
Conflicts(e, r) ==
  /\ e.status \in Terminal
  /\ \/ r.status \in Terminal /\ r.status # e.status
     \/ r.status = "SUCCEEDED" /\ e.status = "SUCCEEDED" /\ r.ref # e.ref

IsConflictJob(j) == j.status = "MANUAL_REQUIRED" /\ j.code = "TERMINAL_CONFLICT"

\* Mutant: ON CONFLICT (execution_id) DO NOTHING.
ConflictJobInsertOnly(j) ==
  IF j.status = "NONE"
    THEN [j EXCEPT !.status = "MANUAL_REQUIRED", !.code = "TERMINAL_CONFLICT"]
    ELSE j

\* record_ignored_refund_result: the upsert that queues the contradiction.
ConflictJob(j) ==
  [j EXCEPT !.status = "MANUAL_REQUIRED", !.code = "TERMINAL_CONFLICT",
            !.token = NoToken, !.elapsed = FALSE]

\* The trigger on refund_executions: a status change opens or closes the job.
OpenJob(j) == IF j.status = "NONE" THEN [NoJob EXCEPT !.status = "READY"] ELSE j

\* Mutant: the trigger leaves the job of a settled execution alone.
CloseJobNever(j) == j

\* An unacknowledged conflict stays open.
CloseJob(j) ==
  IF j.status = "NONE" \/ IsConflictJob(j)
    THEN j
    ELSE [j EXCEPT !.status = "COMPLETED", !.token = NoToken,
                   !.elapsed = FALSE, !.code = "NONE"]

JobOnTransition(j, status) ==
  IF status \in Terminal THEN CloseJob(j)
  ELSE IF status \in InFlight THEN OpenJob(j) ELSE j

\* The job row once result r has been applied to, or ignored by, execution e.
JobAfter(j, e, r) ==
  IF Applies(e, r) THEN JobOnTransition(j, r.status)
  ELSE IF Conflicts(e, r) THEN ConflictJob(j) ELSE j

-----------------------------------------------------------------------------
(* The lease on a job.                                                      *)

\* Mutant: the finish does not compare the token.
HeldByAnyone(j, h) == j.status = "LEASED" /\ ~j.elapsed

\* The row finish_refund_recovery locks: this token, not yet expired.
HeldBy(j, h) == j.status = "LEASED" /\ j.token = h /\ ~j.elapsed

Leased(j, h, attempts) ==
  [j EXCEPT !.status = "LEASED", !.token = h, !.attempts = attempts,
            !.elapsed = FALSE]

\* The first statement of a claim: jobs whose attempts are used up.
Exhausted(j) ==
  /\ j.attempts >= MaxAttempts
  /\ j.status = "READY" \/ (j.status = "LEASED" /\ j.elapsed)

\* Mutant: the exhausted job keeps its lease columns.
ExhaustedKeepsToken(j) ==
  [j EXCEPT !.status = "MANUAL_REQUIRED", !.code = "ATTEMPTS_EXHAUSTED"]

ExhaustedJob(j) ==
  [j EXCEPT !.status = "MANUAL_REQUIRED", !.token = NoToken,
            !.elapsed = FALSE, !.code = "ATTEMPTS_EXHAUSTED"]

\* Mutant: an expired lease is not a candidate.
ClaimableOnlyReady(j, e) ==
  /\ e.status \in InFlight
  /\ j.attempts < MaxAttempts
  /\ j.status = "READY"
  /\ j.elapsed

\* The second statement: the candidates among the others.
Claimable(j, e) ==
  /\ e.status \in InFlight
  /\ j.attempts < MaxAttempts
  /\ j.status \in {"READY", "LEASED"}
  /\ j.elapsed

\* A finish that leaves the execution in flight gives the lease back.
DeferredJob(j, code) ==
  [j EXCEPT !.status = IF j.attempts >= MaxAttempts THEN "MANUAL_REQUIRED"
                                                     ELSE "READY",
            !.token = NoToken, !.elapsed = FALSE, !.code = code]

ResumedJob(j) ==
  [j EXCEPT !.status = "READY", !.attempts = 0, !.token = NoToken,
            !.elapsed = TRUE, !.code = "NONE"]
=============================================================================
