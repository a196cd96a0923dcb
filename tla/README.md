# Verification of the e-commerce agent system

TLA+ modules, TLC runs and TLAPS proofs about the program in `src/`. They cover six
parts: refund applications, from a customer's submission to an administrator's
decision; the part that moves money, from an approved application to a recorded
outcome; the import queue with its outbox; a chat thread with its checkpoint; the
knowledge base with its cache and the rate limit; and web sessions with their refresh
tokens. Paths below are relative to `src/apps/agent-core/app` unless they start with
`web/`, `packages/` or `docs/`.

## 1. Inventory

| Part | State it keeps | Operations | What makes it hard |
| --- | --- | --- | --- |
| Refund applications (`services/refund.py`, `api/routes/orders.py`, `api/routes/refunds.py`) | `refund_applications`, unique per (user, request id) and per order while not rejected | submit, confirm, review | two unique keys behind one INSERT, retries, a rejection between two reads |
| Refund execution (`services/refund.py`) | `refund_executions`, one row per application | create, claim, submit to the provider, query, apply a result | every step is a transaction of its own; the process may die between any two; answers are applied late |
| Recovery jobs (`services/refund_recovery.py`, trigger in `packages/database/.../20260919090000_refund_audit_and_recovery`) | `refund_recovery_jobs`: status, attempts, lease, last error code | claim with sweep, finish, resume, resubmit, acknowledge | leases that expire under a slow holder, the trigger closing a job under its holder, a manual queue |
| Payment sandbox (`refund_sandbox_app.py`, `services/refund_sandbox.py`) | `sandbox_refunds`, `sandbox_refund_events` | execute, get_result, settle, deliver | a timed-out POST may still arrive |
| Webhook (`services/refund_webhook.py`, `api/routes/refund_webhooks.py`) | `refund_webhook_events` | verify, deduplicate, apply | early, duplicate, reordered and contradicting events |
| Audit trail (`services/refund_audit.py`, the same trigger) | `refund_audit_events`, append-only | append | must be written with the change it records |
| Authentication (`api/routes/auth.py`) | `refresh_tokens` | login, refresh (rotation), logout | two refreshes with one token |
| Web session (`web/lib/authenticated-fetch.ts`, `web/lib/server-auth.ts`) | cookies, one shared refresh, a session generation | fetch with retry, refresh, logout | a server-side and a browser-side refresh racing |
| Chat (`services/chat.py`, `agents/support_graph.py`) | checkpointed thread: messages, completed requests, pending intent | one graph run per message | repeated request ids, tool loop, intent carried across turns |
| Ingestion tasks and outbox (`tasks.py`) | `ingestion_tasks`, `ingestion_task_outbox` | claim, succeed, fail, retry, reclaim; claim, publish, mark, reclaim | stale attempts, at-least-once publication |
| Knowledge search (`api/routes/rag.py`, `core/redis.py`, `rag/`) | chunks, cache entries, rate counters | search, import, invalidate, count | a search storing an old answer after an invalidation |
| Web interface (`web/components/*`) | component state, session storage | lookup, submit, confirm, execute, recover | answers that arrive after the user moved on |
| Order queries, LLM adapter, settings, health, exception handlers, UI packages | none that changes, or none of their own | reads, wiring | - |

How they interact: the web interface calls the Next.js backend-for-frontend,
which forwards to FastAPI with the access token. An execute or recover call runs
in the API process; the compensation batch is a separate process
(`refund_reconciliation_cli.py --scheduled`) that an outside scheduler starts
again and again; the webhook is called by the provider. These three meet only in
PostgreSQL, through conditional UPDATEs, row locks and the trigger
`refund_capture_transition`; the provider is reached over HTTP outside any
transaction.

What each part must guarantee:
- applications: one open application per order, a retry returns the first one, a decision is taken once;
- execution: one submission unless an administrator authorises another, an outcome the provider published, no way back from it;
- recovery: no submitted refund is forgotten, a lease has one effective holder, contradictions reach a human;
- tokens: a refresh token is exchanged once; the cookies are not left with a spent one unless an answer was lost;
- chat: a request id has one answer, kept over retries, overlaps and restarts; tool calls are answered;
- tasks: one attempt completes a task, each completion leaves one event, every event is published;
- search: an answer, cached or not, is one its reader may see, stale ones go away, and all vectors are of one model;
- interface: what is shown belongs to the order that was chosen last.

The places where these can fail unnoticed are listed, with their lines, under
"hazards" in `PROJECT.json`.

## 2. Modules

| Module | What it is |
| --- | --- |
| `RefundRecords` | The rows and the conditional updates on them, as operators: `Applies`/`ExecAfter` (the three UPDATEs that apply a result), `Conflicts`/`ConflictJob` (`record_ignored_refund_result`), `OpenJob`/`CloseJob` (the trigger), `Exhausted`, `Claimable`, `Leased`, `HeldBy`, `DeferredJob`, `ResumedJob` (the statements of the recovery service). |
| `RefundSandbox` | The provider: its row per key, its published verdicts, and requests still on the network. |
| `RefundExecution` | The composition: calls, batches, webhook, administrator, time, crashes. One action per transaction or provider request. |
| `RefundProperties` | The properties, the refinement mapping and the inductive invariant. |
| `RefundPromise` | The abstract specification: a refund is opened once, submitted, settled once on a published verdict; a human is involved only while the outcome is open or when a verdict contradicts it. |
| `RefundGrounds` | `RefundExecution` with a history of the error codes of the current round, for the grounds of a resubmission. |
| `MCRefund` | The model-checking instance (slot symmetry). |
| `RefundExecutionProofs` | The TLAPS proofs of the refund part. |
| `RefundLocks`, `MCLocks` | The row locks of the transactions that `RefundExecution` takes for one step each, with their properties and invariant; its model-checking instance. |
| `RefundLockProofs` | The TLAPS proofs about the locks. |
| `RefundApplications` | Submissions with their INSERT and reads, confirmation, review. |
| `RefundCases` | Its abstract specification: an order has at most one open case, which is filed, confirmed, and approved or refused; a refusal makes room for another. |
| `ApplicationProperties` | The properties, the inductive invariant and the refinement mapping. |
| `MCApplication` | The model-checking instances. |
| `ApplicationProofs` | The TLAPS proofs of this part. |
| `RefundSystem` | Applications and executions as one database, with the amounts copied and asked of the provider. Only proved about. |
| `RefundSystemProofs` | Its proofs: the whole implements both parts, and what it adds to them. |
| `IngestionTasks` | The import queue of `tasks.py`: tasks, workers, retries, take-overs, the outbox and its publishers. |
| `IngestionPromise` | Its abstract specification: a task waits, is settled once per try, may be put back after a failure; each settlement adds one notice, confirmed only after it was sent. |
| `IngestionProperties` | The properties, the inductive invariant and the refinement mapping. |
| `MCIngestion` | The model-checking instance. |
| `IngestionProofs` | The TLAPS proofs of the import queue. |
| `ChatThread` | One thread of the support chat: the calls, the lock of the process, the graph, the checkpoint, crashes. |
| `ChatPromise` | Its abstract specification: a request id gets at most one answer, which never changes, and a call returns the answer of its request. |
| `ChatProperties`, `MCChat`, `ChatProofs` | Properties and inductive invariant; the model-checking instance; the TLAPS proofs. |
| `KnowledgeImport` | The chunks, the advisory lock of the imports, the invalidation of the cache. |
| `RateWindow` | The counter of a user's window in Redis. |
| `KnowledgeSearch` | The composition: searches with their limit and cache beside the imports. |
| `KnowledgeProperties`, `MCKnowledge`, `KnowledgeProofs` | As above. |
| `RefreshTokens` | The token rows and the calls to `/api/auth/*` that spend them, one action per transaction or request. |
| `SessionPages` | The composition with the browser: cookies, pages, their shared refresh and logout, requests retried once. |
| `RotationPromise` | The abstract specification of the tokens: a login has one token at a time, which is exchanged at most once, or revoked. |
| `SessionProperties`, `MCSession`, `SessionProofs` | As above. |

The last three parts share no state with each other or with the rest; the chat route
calls `consume_rate_limit` in front of `ChatThread` in the same way as the search does. The import queue shares no state with refunds. Refund applications and refund
executions meet in the status of an application: `RefundExecution` starts at
PENDING_MANUAL_APPROVAL and takes the decision as one step, `RefundApplications` shows
how it comes about and that it stands. Executions never write to applications, so the
two are separate specifications, checked one by one; `RefundSystem` composes them, and
its proofs show that each behaves in the whole as it does alone.

### Refund applications

| Variable | Code |
| --- | --- |
| `app` | the rows of `refund_applications`; `NONE` is a row not yet inserted |
| `asked` | history: the amount in the request that created the row, before the column rounded it |
| `submission` | per slot a call of `submit_refund_application`: its request, its next step, then its answer |
| `review` | per administrator a call of `review_refund`, the same |

A submission is `StartSubmission` (the order is one's own and `assess_refund` passes),
`Insert` or `InsertRefused` (the two unique indexes), `ReadByRequest`, `ReadByOrder`.
`Confirm` is one UPDATE. A review is `StartReview`, `Decide`, `ReadDecision`.
`SubmissionLost` and `ReviewLost` end a call at any step. An answer stays in its slot
until the slot is used again, so that `RepliesStand` and `RulingsStand` can say that
answers remain true, whatever others do afterwards. A call that died after its INSERT
or its UPDATE is one whose answer nobody reads: `created` or `won` without more.

Abstractions:
- amounts are in tenths of a cent (`Cent` = 10): the payload is any decimal, the column DECIMAL(12,2), and `ToCents` is its rounding. Half a cent is representable; finer digits would round the same way;
- order, total and status of an order are constants: nothing in the program changes them. The currency only decides whether a request is answered 422, before anything is written;
- a request that fails `assess_refund`, and a confirmation or a review that names no application, change nothing and are not steps;
- `ON CONFLICT DO NOTHING` waits for a concurrent transaction that holds the key, so the INSERT is one action; the UPDATEs re-evaluate their condition on the locked row. Each read is a transaction of its own and sees what is committed;
- an application id is a fresh uuid: any id without a row.

### Refund part

State and code:

| Variable | Code |
| --- | --- |
| `application`, `exec`, `job`, `received` | the rows of `refund_applications` (from manual approval on), `refund_executions`, `refund_recovery_jobs`, `refund_webhook_events` |
| `disputed` | the last conflict entry of the audit trail is `RESULT_CONFLICT`, not `CONFLICT_ACKNOWLEDGED` |
| `provider`, `events`, `delayed` | `sandbox_refunds`, `sandbox_refund_events`, POST requests under way after their caller gave up |
| `call` | the local variables of a running service call: which function (`op`), its next step (`pc`), the provider answer it holds (`res`) |
| `posts`, `licences` | history: provider submissions, `RESUBMISSION_AUTHORIZED` rows |

The steps of a call follow the code's awaits. `run_refund_sandbox` is
`StartExecute` (approved?), `CreateExecution`, `FetchExecution`,
`ClaimExecution`, `PostRefund`/`PostFails`, `ApplyAnswer`. `recover_refund_sandbox`
and `reconcile_refund_sandbox` have the same control and share `StartRecover`,
`Query...`, `ApplyAnswer`. A batch is `ClaimRecovery` (or `SweepExhausted` when it
finds no candidate), `Query...`, `FinishRecovery`/`FinishFenced`. `Resubmit` leads
through the query, possibly the post, to a finish. `CallLost` is the death of a
call at any of these points: the process stops, or the transaction fails and
rolls back; a request it was sending may have left.

Abstractions, and why they do not hide anything the properties speak of:
- amount, currency, payload hash and audit columns are written once and never decide a branch that the modelled callers can reach. For the amount, `RefundSystem` puts it back and `OnePayloadAsked` and `AskedFrozen` prove it; the currency is copied by the same statements;
- time is one flag per job, `elapsed`: a READY job is due, or a LEASED one has expired. It may turn true at any moment, so every length of a delay or a lease is covered; the arithmetic of the back-off is not;
- a lease token is the identity of the call slot that drew it. A slot that returned and starts again reuses it, but a call finishes before its slot is reused and the old token has then no bearer left;
- `PROVIDER_ERROR` merges `PROVIDER_TIMEOUT` and `PROVIDER_UNAVAILABLE`, which the code treats alike; answers with a wrong key or without a reference never come from this provider and are left out;
- a webhook event is identified with its verdict; an event id reused for another content (answered 400) and signature checks, which act before any state is touched, are left out; a duplicate delivery changes nothing and is a stuttering step;
- a transaction is one action. Inside one, the statements read under READ COMMITTED with row locks (`FOR NO KEY UPDATE` on the execution, then the job; conditional UPDATEs re-evaluate their condition on the locked row), so each behaves as if alone at the point of its locks. That they do not wait for each other in a circle is shown by `RefundLocks`.

`SelfContradicting = FALSE` is the sandbox as coded: `settle` refuses to change a
settled row. `TRUE` adds `Reverse`, a provider that publishes a different verdict
later; the code's `TERMINAL_CONFLICT` path exists only for such a provider.

Applications and executions together (`RefundSystem`):

| Variable | Code |
| --- | --- |
| those of both specifications | `application` is the column both share: `StatusOf` the rows of `app` |
| `due` | `refund_executions.amount`, copied by the INSERT from the application |
| `inhand` | per call the order, customer and amount it holds: `run_refund_sandbox` reads the application first (`Unread`) and the execution's amount later, `resubmit_missing_refund` reads all in one statement |
| `sent` | history: the contents of the requests sent to the provider, per application |

A step is one of `RefundApplications` or one of `RefundExecution`; the second leaves the
application rows alone. `Copied`, `Held` and `Carried` say what becomes of the amounts in
it. No execution looks at an application before its approval or rejection, so every
earlier status is PENDING_MANUAL_APPROVAL in the shared column.

Row locks (`RefundLocks`):

| Variable | Code |
| --- | --- |
| `step` | per open transaction its next statement and the refund it is at |
| `held`, `wanted` | the row locks it has, and the one a statement of it waits for |

A writer locks an execution (`WriteExecution`, after the event id when it is a webhook,
`Deliver`) and then its job, by the trigger or a statement of its own (`WriteJob`). A
claim goes the other way: it locks the exhausted jobs (`SweepJob`), then their executions
for the foreign key of the audit entries (`SweepAudit`), and takes its candidate with
`SKIP LOCKED` (`TakeCandidate`). `Audit` is the foreign key in the other transactions.
Abstractions:
- what is written is left out, so any of these transactions may meet any row, and may end at any point (`End`): a commit, a rollback, a death;
- PostgreSQL is external: `Excludes` is its conflict table, and a lock is granted when nobody holds one that excludes it. Waiting behind another waiter is left out; it would delay but, on a row nobody holds, not block;
- the UPDATEs of an execution change no key column and take FOR NO KEY UPDATE (`provider_reference` is in no unique index); an event id is locked by its INSERT;
- refunds are numbered in the order in which the sweep's UPDATE visits their jobs. Two sweeps that ran with different plans could visit them in different orders; the code states no order there, and the model assumes one;
- the creation of an execution locks the application row first, which no other of these transactions touches, and then inserts a row no other can see.

### Import queue

| Variable | Code |
| --- | --- |
| `task` | the rows of `ingestion_tasks`; `NONE` is a row not yet inserted |
| `outbox` | the rows of `ingestion_task_outbox` in commit order; an event's index is its id, `holder` its `publish_attempt_id` |
| `caller` | a running `run_ingestion_task_once` / `run_next_ingestion_task_once` with the claimed snapshot, or somebody holding a failed snapshot for `retry_ingestion_task` |
| `publisher` | a running `publish_next_ingestion_event_once` and the event it leased |
| `delivered` | history: the events the publish callback has sent |

A run is `ClaimTask`, `WorkEnds`, then `Succeed` or `Fail`: the completing UPDATE
with its condition (`OwnsRun`) and, in the same transaction, the event (`Settle`).
`Retry` and `ReclaimTask` are the two ways back to PENDING. A publish call is
`ReclaimEvents`, `ClaimEvent` or `NothingToPublish`, `Publish` or `PublishFails`,
`MarkPublished`. `CallerLost` and `PublisherLost` end a call between any two steps.

Abstractions:
- claiming by id and claiming the next are one action: the next task may be any pending one, because `SKIP LOCKED` passes over rows another claim holds and `created_at` is the start of a transaction, not its commit. The same holds for events;
- time is the flag `stale`: the start lies before the cut-off the caller passes. It may turn true at any moment, also under a worker that is alive;
- a fresh uuid is an attempt id that no row and no caller refers to, so that a finite pool suffices. A publish lease token is the slot of the call that drew it; a call ends before its slot is used again, and its old token has then no bearer;
- the payload repeats the other columns and is left out; the work and publish callbacks and whoever schedules the calls are outside `tasks.py` and may do anything: succeed, fail, be lost, take too long, send an event and still raise;
- `max_retries` is the same for every caller; `max_retries <= 0`, which the code answers with an exception, is ruled out by an assumption.

### Chat

| Variable | Code |
| --- | --- |
| `call` | the HTTP calls in order of arrival: request id, what became of them, the reply |
| `queue`, `run` | `ChatService._checkpoint_lock`: who waits for it; the invocation that holds it, with the next node, the supersteps taken and `response` |
| `thread` | the graph's state in memory: `messages`, `pending_intent`, `citations`, `completed_requests` |
| `saved` | the latest checkpoint of the thread in PostgreSQL |

A call is `Arrive`, `Acquire` (which loads the checkpoint and routes), one action per
node with the conditional edge that follows it (`Normalize`, `Reuse`, `Retrieve`,
`Answer`, `Identify`, `CallTool`/`OrderReply`, `RunTools`) and `Return`. `Fail` is an
exception at any of these points, the recursion limit included; `Crash` is the death of
the process with all its calls.

Abstractions:
- LangGraph is external, modelled from how `support_graph.py` and `chat.py` use it: the writes of a node and its edge apply together, a checkpoint is written in the background (`Persist`) and is complete before `ainvoke` returns, `add_messages` replaces a message that has the same id, a new input starts at the entry point and drops what an unfinished invocation had planned;
- a text is named by the call whose model produced it; what a model or the router decides is any choice the graph distinguishes, an empty text among them. The prompt with the retrieved chunks is built exactly when there are citations, and is left out;
- as coded, "a tool has been called" is looked up in the whole history of the thread, not in the current turn (`LookedUp`, `agents/support_graph.py:276`; see section 6);
- one thread, although the lock serves all of them: calls of other threads would only delay it. Calls without a thread id keep no state.

### Knowledge base

| Variable | Code |
| --- | --- |
| `chunks` | `agent_core.knowledge_chunks`: a file stands for its chunks, which are written together with one visibility and one embedding model |
| `importer` | running imports of `ingestion_cli.py`: inside the locked transaction (`writing`), or in `invalidate_rag_cache` (`scanning`) with the keys still to be deleted |
| `cache` | the keys `rag:v1:*` of one query, limit, model and dimension: one per set of visibilities |
| `counter` | the rate-limit keys, with their time to live |
| `search` | running searches: user, next step, hits |

An import is `BeginImport` (lock and model check), `Commit`, `DeleteKey`..., `EndImport`,
or `StopImport` anywhere. A search is `StartSearch` (counted, or refused) or
`StartUncounted`, `CacheHit` or `CacheMiss`, `SearchSemantic`, `SearchKeyword`,
`StoreAnswer`, or `SearchFails`. The two reads of the chunks are statements of their own
and an import may commit between them.

Abstractions:
- every Redis command may fail, and the code goes on without it: a failed count admits the request, a failed read is a miss, a failed SET stores nothing, a failed SCAN ends the invalidation silently;
- SCAN returns at least the keys that were there when it started, and perhaps later ones;
- a repeated import does not change a stored chunk (`ON CONFLICT DO NOTHING`), so an increment with a different visibility leaves the old one (`ChunkAfter`); its id depends on file and content only;
- expiry of a cache entry is an action that may happen at any time and, under fairness, happens; windows of the rate limit count ticks, because their length is what `BlockedIsReleased` is about. Numbers above the limit are not told apart;
- `Near` and `Matching` are the files the two branches find; ranks, scores and the cut at the limit are left out. The keyword branch ignores the embedding model, as coded;
- history: the visibility of a citation when it was read, and `outdatedBy`, the imports that have committed since an entry was cached and are still invalidating.

### Web sessions

| Variable | Code |
| --- | --- |
| `row` | `refresh_tokens`, and whether the access token issued beside is still accepted; history: the login a pair stems from and the page that asked for it |
| `call` | per page and route, a call of `/api/auth/*` on its way through the web server and the service: `sent`, `locked` (the row is held), `checking` (`/api/auth/me` has exchanged and asks again), `answered` |
| `jar` | the cookies of the browser, shared by its pages |
| `view` | what the app shell of a page shows; `restoring` is waiting for `/api/auth/me` |
| `request` | calls of `authenticatedFetch`, with the cookies they went with and whether their page's generation has changed since |
| `lost` | history: answers that were lost |

The service is `Login`, `Identify`, `RefreshRefused`, `LockToken`, `Rotate`, `Rollback`,
`IdentifyAgain`, `Logout`; the browser `AskIdentity`, `SubmitLogin`, `ClickLogout`,
`Reload`, then per request `Send`, `Answered`, `RetryAtOnce`, `WaitForRefresh`,
`RejectedAgain`. `WaitForRefresh` and `RejectedAgain` start the shared refresh and the
shared logout or join them. `Arrive` sets the cookies and tells the page; `Lose` tells
it that no answer comes.

Abstractions:
- the lifetime of a refresh token is not state: a refusal (`RefreshRefused`) is possible whenever the service is asked, for expiry, an unknown token or an error alike. The expiry of an access token is (`Expire`), because the retry logic depends on it;
- cookies and page change in one step, since a `Set-Cookie` is applied when the response arrives; a call whose connection breaks while the server still works is answered and then lost;
- one user and one browser: rows of different users never meet. Roles and passwords are pure checks and left out, and so are the paths for `NODE_ENV=test`.

## 3. Runs

`sessions` and `locks` check for deadlock. The other runs use `CHECK_DEADLOCK FALSE`, because the
system really may stop there: when every application is rejected, or settled and nobody
calls, when every call of a thread has ended, or when the pool of attempt ids or
application ids of an instance is used up.

| Run | Instance | Question |
| --- | --- | --- |
| `honest` | 1 refund, 2 API calls, 2 batches, 2 attempts, 1 resubmission | Do the rows stay in step with each other and with the provider, is nothing submitted without a licence, does nothing move back, can only its holder end a lease that has not expired? |
| `conflicts` | 1 refund, 2 references, 1 call, 1 batch, 2 attempts, a provider that contradicts itself, fairness | Is a recorded outcome always a published one, is every contradiction queued, does the whole implement `RefundPromise`, does a submitted refund settle or reach the manual queue? |
| `resubmission_grounds` | 1 refund, 1 administrator, 1 batch | Violation: see section 6. |
| `locks` | 3 transactions, 2 refunds, 1 webhook event | Can transactions on refunds wait for each other in a circle? |
| `applications` | 2 orders of 2 cents, 2 request ids, amounts of 1 and 3 cents, 2 submitters, 2 administrators | Can an order have two open applications? When does a submission find nothing? Is a decision final? Do answers stay true when a request id is used for both orders? Does the whole implement `RefundCases`? |
| `retry_of_fraction` | 1 order, 1 request id, an amount of 1.4 cents | Violation: see section 6. |
| `import_queue` | 1 task, 2 callers, 2 publishers, 4 attempt ids, 1 retry | Can an attempt that was taken over report, or one failure be answered twice? Is an event confirmed unsent, or by a publisher that lost its lease? Does the queue implement `IngestionPromise`? |
| `import_liveness` | 1 task, 1 caller, 2 publishers, 2 attempt ids, 1 retry, fairness | Does every task settle and every event get confirmed? |
| `chat` | 3 calls with either of 2 request ids or none, 5 supersteps, fairness | Is a request answered once, is the history left clean, does every call end, does a thread implement `ChatPromise`? |
| `chat_empty_reply` | 2 calls, 4 supersteps | Violation: see section 6. |
| `knowledge` | 2 imports, 1 search, 2 users with different roles, 2 files, 2 models, a limit of 1 and a window of 2 ticks, fairness | Do imports keep one model? Can a cached answer be seen by the wrong role, or outlive its invalidation? Does the cache come to agree with the chunks, and is a refused user admitted again? |
| `sessions` | 2 pages of one browser, 2 requests in one, login and logout in the other, 2 pairs, 1 lost answer, fairness | Is a token exchanged once, are spent cookies replaced, does a late 401 refresh again, does every request end, do the tokens implement `RotationPromise`? |

The type invariant of each part is a conjunct of its inductive invariant
(`ExecutionInv`, `AppInv`, `QueueInv`, `ChatInv`, `KnowledgeInv`, `SessionInv`), which
its run checks; that of the row locks is proved only.

Of the refund part:
- `JobMatchesExecution`: no refund in flight without an open job, no settled one with an open job, a token exactly under a lease.
- `OutcomeWasPublished`, `HonestBooksAgree`: our books against the provider's.
- `DisputeIsQueued`: the audit trail against the manual queue.
- `PostsAreLicensed`: submissions against approvals and authorisations.
- `NeverRegresses`, `LiveLeaseRespected`: what no step may do.
- `InFlightResolves`: liveness. `KeepsPromise`: refinement.
- `NoCircularWait`: the locks of all open transactions together, whatever statements they are at. Its inductive invariant `LocksInv` is left to the proof.

Of refund applications:
- `OneOpenPerOrder`: all rows of an order, and of a customer and request id, together.
- `RepliesStand`, `RulingsStand`: answers against what the rows say now.
- `LostOnlyToRejection`: an answer 503 against the refusals that can cause it.
- `ConflictMeansDifferent`: an answer 409 against the history of requests. It holds for whole cents, which is proved, and a run shows that it fails for others.
- `KeepsCases`: refinement. `AppInv`: the inductive invariant of the proofs.

Of the import queue:
- `OutboxTellsOutcome`: the events against the task rows. No attempt has two events, nothing follows a success, an attempt that was taken over leaves none.
- `RetriesCountFailures`: the retry counter against the failures reported, over any number of take-overs and of callers with the same failed snapshot.
- `LiveLeaseEndsWithHolder`: leases against what publishers did.
- `TasksSettle`, `EventsPublished`: liveness. `KeepsPromise`: refinement.
- `QueueInv`: the inductive invariant of the proofs, with `PublishedWasDelivered`: no event is confirmed that was not sent.

Of the chat:
- `CleanHistory`: the messages against `completed_requests`, over retries of a request that was cut off anywhere.
- `ToolCallsEnd`: which calls can leave a tool call without results in the history, where every later prompt would carry it.
- `CallsEnd`: liveness. `KeepsPromise`: refinement. `ChatInv`: the inductive invariant.

Of the knowledge base:
- `OneEmbeddingModel`: the vectors of all chunks together, over overlapping imports.
- `AnswersWithinScope`: answers, from the cache too, against what their reader may see.
- `InvalidationReachesAll`: the entries an invalidation has left against those it still has to delete.
- `CacheHeals`, `BlockedIsReleased`: liveness. `KnowledgeInv`: the inductive invariant.

Of the sessions:
- `CookiesCatchUp`: the cookies against the token rows.
- `NoEagerRefresh`: a shared refresh against the pair the last one brought.
- `RequestsEnd`: liveness. `KeepsPromise`: refinement. `SessionInv`: the inductive invariant.

Bounds. Two calls of each kind suffice for every pairwise race the code guards
against (two claims of one execution, an expired holder against its successor, a
resubmission against a late request); two attempts give a first and a last one,
three a middle one. `MaxResubmissions` bounds only a history of authorisations.
Two references are needed for two contradicting successes. Refunds interact
only through the sweep, which closes every exhausted job at once; with one refund and
two batches it already closes the job of a holder that is still at work, and the proofs
cover any number of refunds.

Three open transactions are a claim beside two writers, two claims beside a writer, or
three claims; two refunds give the sweep an order to keep and its candidate a second
execution; the proof covers any number.

Two request ids allow two rows for one customer, hence one that was rejected and its
successor. Two submitters give every race of two INSERTs and of an INSERT between
another's INSERT and its reads; two administrators the race of two decisions. Amounts are
chosen below and above what the order allows. A fraction of a cent is in
`retry_of_fraction`; a second customer is in no instance, since rows of different
customers never meet, and the proofs cover any number of customers, orders and amounts.
Two application ids suffice for the two rows that a customer with two request ids can
have. Orders and request ids are interchangeable (`Ids`).

In the import queue two callers give the late worker and its successor, or two
retries of one failure, and two publishers the late confirmation; four attempt ids
leave one task its two tries and two runs that were taken over. For liveness, two attempt
ids are enough, as an id that nobody refers to any more is free again; two publishers
may take each other's leases. Tasks meet only in the
outbox's order, on which nothing depends, and the proofs cover any number of them.

Three chat calls give a first attempt, its retry and a call of another request between
or beside them. Five supersteps (`StepLimit`) give one round of tools with its answer
and one superstep more; the default limit of LangGraph is 25 (newer versions more), and
nothing depends on its value: a run that reaches it raises.

Two imports overlap, or one follows the other's failure; two roles have keys of which
one's scope contains the other's; two files are a rebuild's removed and added one. One
search at a time suffices, since searches meet in the cache only, where an entry is
stored in one step; the proofs cover any number. A window of two ticks can be renewed in
its middle, which is what would keep a user out.

Two pages share cookies, two requests of a page share a refresh; the second page logs
in and out. Two pairs (`MaxPairs`) give one rotation or two logins, and one answer may be
lost (`MaxLost`); the proofs cover any number. Only one page logs in and out (`InUse`),
for the size of the instance only.

Fairness (`Scheduling`). The code never loops by itself: it counts on an outside
scheduler to run the batch again and again, as the runbook
(`docs/refund-sandbox-runbook.md`, section 4) says. Hence weak fairness on the
sweep, on the steps of a batch call and on the clocks; a batch call may still be
lost at every step, and every query may fail. Claims get strong fairness per
refund: a claim is enabled only between finishes, and the candidate query orders by
`next_attempt_at`, so a due refund is not overtaken for ever. Nothing is assumed of
customers, administrators, webhooks or the provider.

The import queue has no loop of its own either: `tasks.py` offers functions that act
once. `WorkersScheduled` and `PublishersScheduled` say that somebody calls them again
and again. Strong fairness says that some claim succeeds again and again while
there is something to claim, and that some caller reports while the run is still its own
(`TimelyWork`, `TimelyReport`), some publisher sends and confirms while the lease is
(`TimelyPublish`, `TimelyMark`): the cut-off is long enough again and again. It is not
assumed of each task, event, caller or publisher. Without it every run could be taken over
before it ends, for ever, as take-overs are not counted. It must speak of sending in time,
not only of confirming in time: two publishers could otherwise send an event in turn,
each after its lease had passed to the other. Take-overs and clocks get weak fairness.
Nothing is assumed of retries, nor that a callback ever succeeds: a task that settles
may settle as FAILED. `MaxEvents` bounds the events whose clocks may run; it is the
exact maximum, one per try of each task.

The chat has weak fairness on what the process does by itself (`Work`): models, tools and
PostgreSQL answer or fail, since each has a timeout, and the recursion limit ends a loop
of tools. The knowledge base has it on expiry and on the clock alone (`Clocks`): nobody
need search or import, and no invalidation need succeed. The sessions have it on the
refresh and logout calls a request may wait for and on the answers to the requests
themselves (`Progress`), an error being an answer; nothing is assumed of users or of
`/api/auth/me`.

## 4. Proofs

`tlapm M.tla` for each `M` of `RefundExecutionProofs`, `RefundLockProofs`,
`ApplicationProofs`, `RefundSystemProofs`, `IngestionProofs`, `ChatProofs`, `KnowledgeProofs` and
`SessionProofs`.

### Refund part

For any set of
applications, references and calls, any number of attempts and resubmissions, and
both kinds of provider, under the assumptions named in the modules (the null values
are not members of the sets they extend, there is an application, the call slots are
lease holders, at least one attempt is allowed):

| Theorem | States |
| --- | --- |
| `ExecutionInvariant` | `Spec => []ExecutionInv` |
| `TypeCorrect`, `QueueMatches`, `OutcomesPublished`, `HonestBooks`, `DisputesQueued` | the type invariant and the four safety invariants |
| `LicensedSubmissions` | `Spec => []PostsAreLicensed` |
| `NoRegression`, `LeasesRespected` | the two action properties |
| `EvidenceHeld`, `EventsCount` | a recorded event belongs to a settled refund, and is its outcome or has opened a dispute; a dispute rests on a published verdict other than the outcome |
| `LookupsComeFirst`, `LookupsCounted` | a human is asked about a refund in flight only after all `MaxAttempts` lookups; every lease costs an attempt, and only an administrator gives attempts back |
| `PromiseKept` | `Spec => KeepsPromise`, the refinement |

None of the safety invariants is inductive alone. Whether an outcome was published
depends on what calls hold in memory when they apply it, and that on what the
provider's row was when they read it; whether a job fits its execution depends on
nobody posting or querying for an execution that was never claimed. `ExecutionInv`
adds these facts: per application `RowInv` (execution, job, dispute, provider row,
publications and approval go together) and per call `SlotInv` (a verdict in memory
is published, a call past the claim works on a submitted execution of an approved
application). `SlotInv` survives the steps of others because what it says of the
rows only ever becomes more true: that is the lemma `SlotFrame`. The proofs first
show each row operator to keep a row's part of the invariant (`JobAfterFits`,
`DeferredFits`, ...), then have one lemma per action. After that the steps are classified
by what they do to executions, jobs and publications (`StepKinds`); the action
properties, the refinement and the four facts about events and lookups follow from that
classification.

`PostsAreLicensed` needs an invariant of its own, `LicenceInv`: the first submission and
each authorisation is with an execution nobody has claimed, or with a call about to post
(a claimed execute, or a resubmission from its authorisation on), or already posted. Each
step of a call is shown to balance (`Balanced`): the claim turns the unclaimed execution
into a sender, the request turns the sender into a post, and a call that is lost before
it posts gives its share up.

`EvidenceInv` is inductive with `ExecutionInv`: a step that adds to `received` or raises
`disputed` applies or refuses a verdict, and `SlotInv` says that the verdict was
published. So a late, repeated or reordered answer cannot open a conflict by itself, only
a provider that published two verdicts can. `LookupsInv` counts the attempts of the
current round. It is the half of the docstring at `services/refund_recovery.py:191` that
the code keeps ("补查耗尽", the lookups are used up); the other half ("持续 NOT_FOUND",
not found throughout) is the first finding of section 6.

Of the row locks, for any number of transactions, refunds and events: `LocksInvariant`
(`Spec => []LocksInv`) and `NoDeadlock` (`Spec => []NoCircularWait`). An event comes
before all executions, these before all jobs, and jobs are ordered as the sweep visits
them (`Rank`). Whoever asks for a lock it may have to wait for holds lower rows only
(`UpwardInv`), which rests on how far each statement has got (`ReachInv`). The audit
entries break that order, as they go from a job back to its execution; but they only
share the execution, and nobody takes it FOR UPDATE (`ShareInv`), so they never wait.
Among any waiting transactions, one that waits for the highest row waits for none of the
others.

### Applications and executions together

For any sets of both parts. The assumptions of `RefundApplications` about the constants
it is instantiated with are named `SystemConstants` and stand as a hypothesis of each
theorem, since no run extends `RefundSystem` and would evaluate them:

| Theorem | States |
| --- | --- |
| `ApplicationsKept`, `ExecutionsKept` | `SystemSpec => Applications!Spec`, `SystemSpec => Spec`: every theorem of the two parts holds of the whole |
| `SystemInvariant` | `SystemSpec => []SystemInv` |
| `OnePayloadAsked` | all requests for an application have its order, customer and amount |
| `AskedWithin` | the provider is asked only with an administrator's approval on record, for the order's owner and at most its total |
| `OnePayment` | at most one application of an order is ever asked for |
| `AskedFrozen` | neither the application nor the amount due changes once the provider was asked |

`ExecutionsKept` needs that a step of the applications is, in the shared column, a review
or nothing (`ColumnStep`); `ApplicationsKept` is immediate, since executions write no
application. `PayloadInv` then follows the amount: from an approved row, which no longer
changes (`RowsStand`), into the execution (`due`), into the call (`inhand`, as soon as it
has read it) and to the provider (`sent`). So a retry or a resubmission asks for the same
however much later it comes, the sandbox's answer 409 never comes, and `RefundRecords` may
leave amounts out. `OnePayment` joins `OneOpenPerOrder` with `ExecutionInv`: what was
asked for is approved, and of the applications of an order one at most is not rejected.
`AskedWithin` uses `DecisionsAreSigned` and the bounds of `RowInv`.

The whole is not among the runs: its states are the product of those of the two parts,
and an instance that TLC finishes has none of their races left. Its steps are those of
the two parts, which the runs check.

### Refund applications

For any set of orders, requests and application ids, any amounts, submitters and
reviewers, where totals are whole cents and the null values are no ids:

| Theorem | States |
| --- | --- |
| `ApplicationInvariant` | `Spec => []AppInv` |
| `OneOpen`, `RepliesHold`, `LostToRejection`, `RulingsHold` | the safety invariants |
| `RetriesAccepted` | `ConflictMeansDifferent`, if requests carry whole cents only |
| `CasesKept` | `Spec => KeepsCases`, the refinement |
| `RowsStand` | no row is lost or changes customer, order, request or amount, and a decided one does not change at all |
| `DecisionsAreSigned` | an approval or rejection names its administrator |

The answers are what makes an invariant necessary. That a read by order finds nothing
only after a refusal depends on the row the INSERT met, which no call remembers:
`RefusalInv` says that it is still there, perhaps rejected, since rows are never
deleted and keep their customer, order and request. `RowInv` ties a stored amount to
the one asked for, `WinnerKnown` a won UPDATE to the row it left. The rows' part
survives an INSERT because `TakenRequest` and `TakenOrder` failed for it, and the
rest because `Confirm` and `Decide` never revive a rejected row. `CasesKept` rests on
`OneOpenPerOrder`: only then is the open application of an order a function of the
state, and `CaseOf` well defined.

### Import queue

For any set of tasks (not empty), attempt ids, callers and publishers and any limit of
at least one retry, where the null values are no ids:

| Theorem | States |
| --- | --- |
| `QueueInvariant` | `Spec => []QueueInv` |
| `QueueTypeCorrect`, `OutboxAgrees`, `DeliveredAtLeastOnce`, `FailuresCounted` | the type invariant and the three safety invariants |
| `LeasesHold` | the action property |
| `QueueKeepsPromise` | `Spec => KeepsPromise`, the refinement |
| `SuccessIsFinal` | no step touches the row of a task that has succeeded |
| `OutboxBounded` | finitely many tasks write at most `MaxEvents` events |

`OutboxTellsOutcome` is not inductive alone. When a worker reports, no event may carry
its attempt yet: that holds because an event with the attempt in a task's row tells
that row's status, which is RUNNING. But it must also be the right task's event
(`EventsOwned`), the attempt must run for one task only (`AttemptsDistinct`), and a
claim must leave no old attempt in a row that is put back (`AttemptsKnown`). A
publisher confirms an event it has sent (`SentBeforeMark`). `QueueInv` is the
conjunction. `FailuresCounted` is proved on top of it, with lemmas on the cardinality
of a task's failure events when one event is appended. `OutboxBounded` numbers the
events of a task: at most `MaxRetries` of its failures are answered by a retry and a
success ends it, so the events map one-to-one into pairs of a task and a number up to
`MaxRetries + 1`. `EventsPublished` and the fairness of the publishers range over
`1..MaxEvents`; the theorem shows that they leave no event out.

### Chat

For any set of request ids, any subset that names an order, any number of calls and any
recursion limit:

| Theorem | States |
| --- | --- |
| `ChatInvariant` | `Spec => []ChatInv` |
| `ChatTypes`, `HistoryStaysClean`, `ToolCallsAreAnswered` | the type invariant and the two safety invariants |
| `ChatKeepsPromise` | `Spec => KeepsPromise`, the refinement |
| `RetriesGetTheSame` | calls of one request that return give the same text and citations |
| `AnsweredStaysQuiet` | a call of an answered request adds nothing to the history |
| `HistoryOnlyGrows` | the durable history changes only by growing at its end |

`CleanHistory` speaks of the state in memory and of the checkpoint, and a step that
appends a final text keeps it only if the request was not completed before and its
question is there: that is `RunInv`, which ties each node to what must hold in front of
it. The nodes say so only because routing at `Acquire` looked at the checkpoint and
nobody else has changed the thread since: `LockInv` (one holder) and `AheadInv` (memory
and checkpoint differ in the holder's request at most). `CallInv` makes a reply that was
sent the durable one. In the refinement `Persist` and `Return` are the steps that answer
a request; the abstract `Returned` step follows from `CallInv`. `HistoryOnlyGrows` needs one more
invariant, `HistoryAhead`: the messages in memory continue the saved ones.

### Knowledge base

For any sets of files, models, batches, importers, searches and users, any limit and
window of at least one:

| Theorem | States |
| --- | --- |
| `KnowledgeInvariant` | `Spec => []KnowledgeInv` |
| `KnowledgeTypes`, `OneModelStored`, `ScopesHold`, `InvalidationsComplete` | the type invariant and the three safety invariants |
| `OnlyRebuildsReplace` | only the commit of a rebuild replaces or removes a stored chunk, or changes the model of a table that has vectors |
| `WindowsStand` | a rate-limit window under way is not prolonged, and its number falls only when it ends |

That stored vectors are of one model depends on what an import saw when it began:
`LockInv` says that one import is in its transaction and that what its check found is
still so. `ScopeInv` says of the cache what `AnswersWithinScope` says of answers; it needs
that the key contains the visibilities. `InvalidationReachesAll` is inductive with the
types, thanks to the history `outdatedBy`.

### Web sessions

For any set of pages, requests, pages in use, any number of pairs and of lost answers:

| Theorem | States |
| --- | --- |
| `SessionInvariant` | `Spec => []SessionInv` |
| `CookiesAlwaysCatchUp`, `NeverEager` | the two safety invariants |
| `TokensKeepPromise` | `Spec => KeepsPromise`, the refinement |
| `LogoutIsFinal` | a login without a live token never gets one again, and no late answer brings one of its tokens to the cookies |
| `PairsStand` | a pair keeps its login and page, a revoked token stays revoked, an expired access token stays expired |

`CookiesCatchUp` needs that whoever spends the token of the cookies brings new ones: the
transaction holds the row (`LockInv`), and the pair it issues is live and known to nobody
else until it arrives (`GiftInv`), so that no other call revokes it on its way.
`NoEagerRefresh` needs `GenerationInv`: a request whose generation is unchanged, while the
cookies hold what its page's refresh brought, went with exactly that pair, so its 401
means that the pair is stale. `RowInv` gives a login one live token, and with it the
refinement mapping `CurrentOf` its value. One lemma (`ServedKeepsInv`) shows what every
step of the service leaves of the invariant; the browser's steps have one each. `LogoutIsFinal` uses `GiftInv` once more: what an
answer brings to the cookies is live, so it is of no login that has ended.

### Only model-checked

The liveness properties `InFlightResolves`, `TasksSettle`, `EventsPublished`, `CallsEnd`,
`CacheHeals`, `BlockedIsReleased` and `RequestsEnd` (out of the prover's reach), and the
history of `RefundGrounds`, which is there for its counterexample. Every other property
of the passing runs is proved.

## 5. Not modelled

Every part and its reason is listed in `PROJECT.json`. In short: pure reads, text
processing, encodings, signatures and password hashing, the language model, and
presentation are left out. The Next.js routes outside `/api/auth` forward a request and
keep nothing. The refund interface (`web/components`) has state of its own, the lookup
generation and the stored request id; a retry of that id is what `RefundApplications`
models from the service's side. The chat interface repeats a request id after an
interrupted stream, which is `Arrive` with the same id.

Left open by the code and therefore by the models:
- take-overs of a run are not counted, so a task whose work kills its process is run again without limit;
- events of one task may be sent in another order than they were written, since two publishers may hold them at once;
- a logout that meets a refresh revokes the token it was sent, not the one just issued: that stays live, and if the answer of the refresh arrives later, the cookies are back (`web/app/api/auth/logout/route.ts:6`). A logout that was sent the live token is final (`LogoutIsFinal`);
- of two refreshes with one token the loser answers by clearing the cookies, so a page that refreshed may be logged out by `/api/auth/me` of another one;
- the rate limit counts fixed windows, so twice the limit may pass around a boundary, and admits everything while Redis fails, as `docs/learning/v0.9-backend.md` says;
- a repeated import keeps the visibility a chunk was first stored with;
- a search may put an old answer into the cache after the invalidation, for the length of its expiry (`docs/learning/v0.7-backend.md:24` names this race): `CacheHeals` states that it is not longer;
- a tool call without results that a failed call has left stays in the history.

## 6. Findings

Grounds of a resubmission. `resubmit_missing_refund` says in its docstring that only a refund whose lookups are
used up and which was *persistently* NOT_FOUND may be resubmitted, and the runbook
repeats it. The UPDATE tests `last_error_code='NOT_FOUND'` only, the code of the last
lookup. The run `resubmission_grounds` shows a first lookup that ends in
PROVIDER_ERROR and a second, last one in NOT_FOUND, after which the resubmission is
open. The durable key of the sandbox keeps this harmless here: `HonestBooksAgree`
holds in the same model.

A retry with a fraction of a cent. `submit_refund_application` compares the stored
amount, which DECIMAL(12,2) has rounded, with the amount of the request, which is any
decimal. The run `retry_of_fraction` repeats a request over 0.014 and is told that its
request id was used for another application; `docs/business-flow.md` promises the
original application. `RetriesAccepted` proves that whole cents are all it takes.

An empty reply that is cached. `generate_response` returns on an empty text before it
touches `completed_requests`; `generate_order_response` (`agents/support_graph.py:284`)
does not look. The run `chat_empty_reply` shows an order turn whose model answers with an
empty text: the call fails with `EmptyChatResponseError`, and so does every retry of its
request id, answered from `completed_requests`. `docs/learning/v0.4-backend.md:43` says
that an empty reply must not be cached.

Four smaller observations, without a run of their own. `generate_order_response`
(`agents/support_graph.py:276`) clears `pending_intent` when any message of the thread is
a tool result: once an order has been looked up in a thread, the wait for an order id ends
with the next answer of the order branch, looked up or not, although
`docs/learning/v0.6-backend.md:65` says that an ordinary answer for which no order tool ran
does not pass for the end of the order flow. And of applications: a positive amount that the
column rounds to 0.00 passes `assess_refund`; a review before the customer's
confirmation is answered as if another approver had decided (`api/routes/refunds.py:140`);
and the read by order (`api/routes/orders.py:257`) assumes that the request ids differ,
while another call with the same id may have got in since the INSERT, after a
rejection. None of these breaks `OneOpenPerOrder`, `RepliesStand` or `RulingsStand`.

## 7. Plan

Done, in this order: the refund core; `RefundApplications`; the import queue; the chat
thread; the knowledge base with its cache and rate limit; refresh tokens and pages; each
with its runs, mutants and proofs; the row locks of the refund transactions; the
composition of applications and executions; further invariants and action properties of
every part (section 4).

Left:
1. `RefundFlow`: the refund interface's lookup generations and stored request id.
2. Ranking operators against a reference definition.
3. Proofs: the history of `RefundGrounds`, with the codes of a round as they are; lemmas
   shared by several proofs in one place.
