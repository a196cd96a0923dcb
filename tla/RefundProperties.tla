------------------------- MODULE RefundProperties --------------------------
(***************************************************************************)
(* What RefundExecution is checked against, and the inductive invariant    *)
(* its proofs rest on.                                                     *)
(***************************************************************************)
EXTENDS RefundExecution

Submitted(a) == exec[a].status \in InFlight \cup Terminal

-----------------------------------------------------------------------------
(* Safety.                                                                  *)

\* The job row an execution row must have beside it.
JobFits(j, e) ==
  /\ e.status \in {"NONE", "PENDING"} => j.status = "NONE"
  /\ e.status \in InFlight =>
       j.status \in {"READY", "LEASED", "MANUAL_REQUIRED"} /\ ~IsConflictJob(j)
  /\ e.status \in Terminal => j.status = "COMPLETED" \/ IsConflictJob(j)
  /\ j.status = "LEASED" <=> j.token # NoToken

\* The recovery queue never loses a refund: one in flight has an open job (or
\* a manual item that is not a conflict), a settled one has a closed job or an
\* unacknowledged conflict, and a lease token is there exactly under a lease
\* (refund_capture_transition and refund_recovery_lease_check, whatever the
\* order of webhooks, batches and administrators).
JobMatchesExecution == \A a \in Apps : JobFits(job[a], exec[a])

\* Whatever path a result took (execute's answer, a query, a webhook, a stale
\* copy held across a crash of someone else), a recorded outcome is one the
\* provider published for that key, with its reference.
OutcomeWasPublished ==
  \A a \in Apps : exec[a].status \in Terminal => exec[a] \in events[a]

\* Against the sandbox as coded the two books agree: a recorded outcome is the
\* provider's row and no conflict is ever raised.
HonestBooksAgree ==
  ~SelfContradicting =>
    \A a \in Apps :
      /\ exec[a].status \in Terminal => exec[a] = provider[a]
      /\ ~disputed[a]

\* A conflict the audit trail has not seen acknowledged is in the manual
\* queue, and the queue shows a conflict only for such a trail: neither the
\* trigger nor a lease holder nor a repeated event drops or revives it.
DisputeIsQueued ==
  \A a \in Apps : disputed[a] <=> IsConflictJob(job[a])

\* The provider is asked to pay once per application, plus once per recorded
\* administrator authorisation, and never for one that was not approved.
PostsAreLicensed ==
  \A a \in Apps :
    /\ posts[a] <= 1 + licences[a]
    /\ posts[a] > 0 \/ provider[a].status # "NONE" => Approved(a)

-----------------------------------------------------------------------------
(* Action properties.                                                       *)

Rank(status) ==
  CASE status = "NONE" -> 0 [] status = "PENDING" -> 1 [] status = "RUNNING" -> 2
    [] status = "PROCESSING" -> 3 [] OTHER -> 4

\* No late, repeated or reordered result moves an execution back, and a
\* terminal row is never written again.
NeverRegresses ==
  [][\A a \in Apps :
       /\ Rank(exec'[a].status) >= Rank(exec[a].status)
       /\ exec[a].status \in Terminal => exec'[a] = exec[a]]_vars

\* A lease that has not expired ends only by its holder's finish or because
\* the execution settled under it: a former holder, another batch or an
\* administrator cannot take it away.
LiveLeaseRespected ==
  [][\A a \in Apps, c \in Calls :
       job[a].token = c /\ ~job[a].elapsed /\ job'[a].token # c =>
         \/ At(c, "finish") /\ call[c].app = a /\ call'[c].pc = "idle"
         \/ exec[a].status \in InFlight /\ exec'[a].status \in Terminal]_vars

-----------------------------------------------------------------------------
(* Liveness, under Scheduling.                                              *)

\* However many batches crash and queries fail, a submitted refund settles or
\* reaches the manual queue.
InFlightResolves ==
  \A a \in Apps :
    exec[a].status \in InFlight ~>
      exec[a].status \in Terminal \/ job[a].status = "MANUAL_REQUIRED"

-----------------------------------------------------------------------------
(* Refinement.                                                              *)

StageOf(e) ==
  CASE e.status = "NONE" -> "none" [] e.status = "PENDING" -> "opened"
    [] e.status \in InFlight -> "submitted" [] OTHER -> "settled"
OutcomeOf(e) == IF e.status \in Terminal THEN e ELSE NoExecution

Promise == INSTANCE RefundPromise WITH
  Undecided <- NoExecution,
  stage <- [a \in Apps |-> StageOf(exec[a])],
  outcome <- [a \in Apps |-> OutcomeOf(exec[a])],
  verdicts <- events,
  attention <- {a \in Apps : job[a].status = "MANUAL_REQUIRED"}

\* The transactions, leases and retries implement RefundPromise.
KeepsPromise == Promise!PromiseSpec

-----------------------------------------------------------------------------
(* The inductive invariant.                                                 *)

\* A settled execution carries a published verdict; no other has a reference.
OutcomeFits(e, ev) ==
  /\ e.status \in Terminal => e \in ev
  /\ e.status # "SUCCEEDED" => e.ref = NoRef

\* The rows of one application: execution, job and dispute go together; what
\* the provider holds was submitted by us and its verdict is published; an
\* honest provider publishes nothing else; nothing precedes the approval.
RowInv(a) ==
  /\ JobFits(job[a], exec[a])
  /\ disputed[a] <=> IsConflictJob(job[a])
  /\ OutcomeFits(exec[a], events[a])
  /\ provider[a].status # "NONE" \/ a \in delayed => Submitted(a)
  /\ provider[a].status \in Terminal => provider[a] \in events[a]
  /\ ~SelfContradicting => events[a] \subseteq {provider[a]} \cap Verdict /\ ~disputed[a]
  /\ exec[a].status # "NONE" \/ posts[a] > 0 => Approved(a)

\* What a call holds in memory was true when it was read.
SlotInv(c) ==
  /\ call[c].res \in Verdict => call[c].res \in events[call[c].app]
  /\ call[c].pc = "apply" => call[c].res \in Answer
  /\ call[c].pc \in {"post", "query", "apply", "finish"} => Submitted(call[c].app)
  /\ call[c].pc # "idle" => Approved(call[c].app)

\* The conjunction that Init establishes and every step preserves; the checked
\* invariants above follow from it.
ExecutionInv ==
  /\ TypeOK
  /\ \A a \in Apps : RowInv(a)
  /\ \A c \in Calls : SlotInv(c)
=============================================================================
