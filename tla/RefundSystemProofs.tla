------------------------- MODULE RefundSystemProofs -------------------------
(***************************************************************************)
(* Proofs about applications and executions together: the whole implements *)
(* both parts, so that everything proved of one part holds of the whole;   *)
(* and what the provider is asked to pay for an order.                     *)
(***************************************************************************)
EXTENDS RefundSystem, RefundExecutionProofs

\* The whole, as the steps of refund applications see it.
THEOREM ApplicationsKept ==
  ASSUME SystemConstants PROVE SystemSpec => Applications!Spec
<1>1. SystemInit => Applications!Init
  BY DEF SystemInit
<1>2. [SystemNext]_systemVars => [Applications!Next]_(Applications!vars)
  BY DEF SystemNext, ApplicationStep, ExecutionStep, systemVars, applicationVars, Applications!vars
<1> QED
  BY <1>1, <1>2, PTL DEF SystemSpec, Applications!Spec

\* What the proofs about refund applications found invariant.
LEMMA ApplicationsInvariant ==
  ASSUME SystemConstants PROVE SystemSpec => []Applications!AppInv
<1>1. Applications!Spec => []Applications!AppInv
  BY Applications!ApplicationInvariant DEF SystemConstants
<1> QED
  BY <1>1, ApplicationsKept, PTL

\* The rows of refund applications, as their own proofs know them.
LEMMA RowsStay ==
  ASSUME SystemConstants, Applications!AppInv, [SystemNext]_systemVars
  PROVE  Applications!RowsKept
<1>1. [Applications!Next]_(Applications!vars)
  BY DEF SystemNext, ApplicationStep, ExecutionStep, systemVars, applicationVars, Applications!vars
<1> QED
  BY <1>1, Applications!TableKept DEF SystemConstants

-----------------------------------------------------------------------------
(* The shared column.                                                       *)

\* A step on applications is for the executions a review or nothing at all.
LEMMA ColumnStep ==
  ASSUME SystemConstants, Applications!AppInv, SharedColumn, ApplicationStep
  PROVE  \/ UNCHANGED vars
         \/ \E a \in Apps : \E d \in {"APPROVED", "REJECTED"} : Review(a, d)
<1> USE DEF ApplicationStep
<1>1. Applications!TableStep
  BY Applications!StepOnTable DEF SystemConstants
<1>2. app \in [Apps -> Applications!Row]
  BY DEF Applications!AppInv, Applications!TypeOK
<1>3. ASSUME \A x \in Apps : StatusOf(x)' = StatusOf(x) PROVE UNCHANGED vars
  BY <1>3 DEF SharedColumn, vars, dbVars
<1>4. CASE UNCHANGED <<app, asked>>
  BY <1>3, <1>4 DEF StatusOf
<1>5. ASSUME NEW s \in Submitters, NEW x \in Apps, Applications!Insert(s, x) PROVE UNCHANGED vars
  BY <1>2, <1>3, <1>5 DEF Applications!Insert, Applications!NewRow, StatusOf
<1>6. ASSUME NEW u \in Applications!Users, NEW x \in Apps, Applications!Confirm(u, x)
      PROVE  UNCHANGED vars
  BY <1>2, <1>3, <1>6 DEF Applications!Confirm, Applications!Confirmable, Applications!Row, StatusOf
<1>7. ASSUME NEW v \in Reviewers, Applications!Decide(v), ~Applications!Reviewable(review[v].app)
      PROVE  UNCHANGED vars
  BY <1>3, <1>7 DEF Applications!Decide, StatusOf
<1>8. ASSUME NEW v \in Reviewers, Applications!Decide(v), Applications!Reviewable(review[v].app)
      PROVE  \E a \in Apps : \E d \in {"APPROVED", "REJECTED"} : Review(a, d)
  <2>1. review[v].app \in Apps /\ review[v].decision \in {"APPROVED", "REJECTED"}
    BY <1>8, Applications!ReviewTyped
       DEF SystemConstants, Applications!AppInv, Applications!Decide, Applications!ReviewAt,
           Applications!Decision
  <2>2. PICK a \in Apps : a = review[v].app
    BY <2>1
  <2>3. PICK d \in {"APPROVED", "REJECTED"} : d = review[v].decision
    BY <2>1
  <2>4. /\ StatusOf(a) = "PENDING_MANUAL_APPROVAL" /\ StatusOf(a)' = d
        /\ \A x \in Apps \ {a} : StatusOf(x)' = StatusOf(x)
    BY <1>2, <1>8, <2>2, <2>3 DEF Applications!Decide, Applications!Reviewable, Applications!Row,
       StatusOf
  <2>5. Review(a, d)
    BY <2>4 DEF SharedColumn, Review
  <2> QED
    BY <2>5
<1> QED
  BY <1>1, <1>4, <1>5, <1>6, <1>7, <1>8 DEF Applications!TableStep

LEMMA ColumnKept == ASSUME SharedColumn, [SystemNext]_systemVars PROVE SharedColumn'
BY DEF SharedColumn, StatusOf, SystemNext, ApplicationStep, ExecutionStep, systemVars,
   applicationVars, vars, dbVars

LEMMA InitColumn == SystemInit => SharedColumn
BY DEF SystemInit, Init, Applications!Init, Applications!NoRow, SharedColumn, StatusOf

LEMMA ColumnShared == SystemSpec => []SharedColumn
BY ColumnKept, InitColumn, PTL DEF SystemSpec

\* The whole, as the steps on executions see it: an application that is filed,
\* confirmed or found again changes nothing, and a decision is a review.
THEOREM ExecutionsKept ==
  ASSUME SystemConstants PROVE SystemSpec => Spec
<1>1. SystemInit => Init
  BY DEF SystemInit
<1>2. Applications!AppInv /\ SharedColumn /\ [SystemNext]_systemVars => [Next]_vars
  <2> SUFFICES ASSUME Applications!AppInv, SharedColumn, [SystemNext]_systemVars
               PROVE  [Next]_vars
    OBVIOUS
  <2>1. CASE ApplicationStep
    BY <2>1, ColumnStep DEF Next
  <2>2. CASE ExecutionStep
    BY <2>2 DEF ExecutionStep
  <2>3. CASE UNCHANGED systemVars
    BY <2>3 DEF systemVars
  <2> QED
    BY <2>1, <2>2, <2>3 DEF SystemNext
<1> QED
  BY <1>1, <1>2, ApplicationsInvariant, ColumnShared, PTL DEF SystemSpec, Spec

-----------------------------------------------------------------------------
(* What a step does to one call.                                            *)

\* A call begins: only an execute call and a resubmission read a payload.
Opens(c) ==
  /\ At(c, "idle") /\ call'[c].app \in Apps
  /\ \/ call'[c].op = "execute" /\ call'[c].pc = "create"
     \/ call'[c].op \in {"recover", "compensate"} /\ call'[c].pc = "query"
     \/ /\ call'[c].op = "resubmit" /\ call'[c].pc = "query"
        /\ exec[call'[c].app].status # "NONE"

\* A call goes on.
Proceeds(c) ==
  /\ call'[c].op = call[c].op /\ call'[c].app = call[c].app
  /\ \/ At(c, "create") /\ call'[c].pc = "fetch" /\ exec'[call[c].app].status # "NONE"
     \/ At(c, "fetch") /\ call'[c].pc = "claim"
     \/ At(c, "claim") /\ call'[c].pc = "post"
     \/ At(c, "query") /\ call'[c].pc = "post" /\ call[c].op = "resubmit"
     \/ call[c].pc \in {"query", "post"} /\ call'[c].pc \in {"apply", "finish"}

SlotMoves(c) ==
  \/ call'[c] = call[c]
  \/ call'[c].pc = "idle" /\ call'[c].op = "none"
  \/ Opens(c) \/ Proceeds(c)

\* There is no other way for a call to change.
LEMMA CallMoves == ASSUME ExecutionInv, [Next]_vars PROVE \A c \in Calls : SlotMoves(c)
<1>0. /\ call \in [Calls -> IdleCalls \cup BusyCalls] /\ Requests \subseteq Calls
      /\ Workers \subseteq Calls /\ exec \in [Apps -> Execution]
  BY DEF ExecutionInv, TypeOK, Calls
<1>1. CASE UNCHANGED call
  BY <1>1 DEF SlotMoves
<1>2. ASSUME NEW c \in Calls, Return(c) PROVE \A d \in Calls : SlotMoves(d)
  BY <1>0, <1>2 DEF Return, Idle, SlotMoves
<1>3. ASSUME NEW c \in Calls, CallStep(c) PROVE \A d \in Calls : SlotMoves(d)
  <2>0. call[c].app \in Apps /\ (call[c].pc # "idle" => Approved(call[c].app))
    BY <1>0 DEF IdleCalls, BusyCalls, ExecutionInv, SlotInv
  <2>1. CASE CreateExecution(c)
    <3>1. exec'[call[c].app].status # "NONE"
      BY <1>0, <2>0, <2>1 DEF CreateExecution, Transition, At, Execution
    <3> QED
      BY <1>0, <2>1, <3>1 DEF CreateExecution, GoTo, SlotMoves, Proceeds, At, IdleCalls, BusyCalls
  <2>2. CASE FetchExecution(c)
    BY <1>0, <1>2, <2>2 DEF FetchExecution, GoTo, SlotMoves, Proceeds, At, IdleCalls, BusyCalls
  <2>3. CASE ClaimExecution(c)
    BY <1>0, <1>2, <2>3 DEF ClaimExecution, GoTo, SlotMoves, Proceeds, At, IdleCalls, BusyCalls
  <2>4. CASE PostRefund(c)
    BY <1>0, <2>4 DEF PostRefund, GoWith, SlotMoves, Proceeds, At, IdleCalls, BusyCalls
  <2>5. CASE PostFails(c)
    BY <1>0, <1>2, <2>5 DEF PostFails, GoWith, SlotMoves, Proceeds, At, IdleCalls, BusyCalls
  <2>6. CASE QueryFinds(c)
    BY <1>0, <2>6 DEF QueryFinds, GoWith, SlotMoves, Proceeds, At, IdleCalls, BusyCalls
  <2>7. CASE QueryFindsNothing(c)
    <3>1. CASE call[c].op = "compensate"
      BY <1>0, <2>7, <3>1 DEF QueryFindsNothing, GoTo, SlotMoves, Proceeds, At, IdleCalls, BusyCalls
    <3>2. CASE call[c].op = "resubmit"
      BY <1>0, <2>7, <3>2 DEF QueryFindsNothing, GoTo, SlotMoves, Proceeds, At, IdleCalls, BusyCalls
    <3>3. CASE call[c].op \notin {"compensate", "resubmit"}
      BY <1>2, <2>7, <3>3 DEF QueryFindsNothing
    <3> QED
      BY <3>1, <3>2, <3>3
  <2>8. CASE QueryFails(c)
    BY <1>0, <1>2, <2>8 DEF QueryFails, GoWith, SlotMoves, Proceeds, At, IdleCalls, BusyCalls
  <2>9. CASE ApplyAnswer(c) \/ FinishRecovery(c) \/ FinishFenced(c)
    BY <1>2, <2>9 DEF ApplyAnswer, FinishRecovery, FinishFenced
  <2> QED
    BY <1>3, <2>1, <2>2, <2>3, <2>4, <2>5, <2>6, <2>7, <2>8, <2>9 DEF CallStep
<1>4. ASSUME NEW a \in Apps, NEW c \in Calls,
             StartExecute(c, a) \/ StartRecover(c, a) \/ ClaimRecovery(c, a) \/ Resubmit(c, a)
      PROVE  \A d \in Calls : SlotMoves(d)
  BY <1>0, <1>4 DEF StartExecute, StartRecover, ClaimRecovery, Resubmit, Resubmittable, Start,
     SlotMoves, Opens
<1>5. ASSUME NEW c \in Calls, CallLost(c) PROVE Return(c)
  BY <1>5 DEF CallLost
<1>6. ASSUME NEW a \in Apps,
             \/ \E decision \in {"APPROVED", "REJECTED"} : Review(a, decision)
             \/ \E v \in Verdict : ReceiveWebhook(a, v)
             \/ Resume(a) \/ AcknowledgeConflict(a) \/ TimerElapses(a)
      PROVE  UNCHANGED call
  BY <1>6 DEF Review, ReceiveWebhook, Resume, AcknowledgeConflict, TimerElapses
<1>7. CASE (\E w \in Workers : SweepExhausted(w)) \/ ProviderStep \/ UNCHANGED vars
  BY <1>1, <1>7 DEF SweepExhausted, ProviderStep, vars
<1>8. CASE Next
  BY <1>0, <1>1, <1>2, <1>3, <1>4, <1>5, <1>6, <1>7, <1>8 DEF Next
<1> QED
  BY <1>7, <1>8

-----------------------------------------------------------------------------
(* Payloads.                                                                *)

\* An approved application is never written again.
LEMMA ApprovedFixed ==
  ASSUME SystemConstants, SystemInv, [SystemNext]_systemVars
  PROVE  \A x \in Apps : Approved(x) => app'[x] = app[x] /\ Approved(x)'
<1> SUFFICES ASSUME NEW x \in Apps, Approved(x) PROVE app'[x] = app[x] /\ Approved(x)'
  OBVIOUS
<1>1. app[x].status = "APPROVED"
  BY DEF SystemInv, SharedColumn, StatusOf, Approved
<1>2. app'[x] = app[x]
  BY <1>1, RowsStay DEF SystemInv, Applications!RowsKept, Applications!Exists, Applications!Decision
<1>3. SharedColumn'
  BY ColumnKept DEF SystemInv
<1> QED
  BY <1>1, <1>2, <1>3 DEF SharedColumn, StatusOf, Approved

\* The row of an application is a payload.
LEMMA PayloadTyped ==
  ASSUME Applications!AppInv
  PROVE  \A x \in Apps : Payload(x) \in Payloads /\ Unread(x) \in Payloads
                        /\ app[x].amount \in Nat
BY DEF Applications!AppInv, Applications!TypeOK, Applications!Row, Payload, Unread, Payloads

LEMMA ApplicationPayload ==
  ASSUME SystemConstants, SystemInv, ApplicationStep PROVE PayloadInv'
<1>0. /\ UNCHANGED <<exec, call, due, inhand, sent>>
      /\ \A x \in Apps : Approved(x) => app'[x] = app[x] /\ Approved(x)'
  BY ApprovedFixed DEF ApplicationStep, payloadVars, SystemNext
<1>1. \A x \in Apps : Approved(x) => Payload(x)' = Payload(x) /\ Unread(x)' = Unread(x)
  BY <1>0 DEF Payload, Unread
<1>2. \A x \in Apps : exec[x].status # "NONE" \/ Submitted(x) => Approved(x)
  BY DEF SystemInv, ExecutionInv, RowInv, Submitted, InFlight, Terminal
<1>3. \A c \in Calls : call[c].app \in Apps /\ (call[c].pc # "idle" => Approved(call[c].app))
  BY DEF SystemInv, ExecutionInv, SlotInv, TypeOK, IdleCalls, BusyCalls
<1>4. \A c \in Calls : call[c].op = "resubmit" => call[c].pc # "idle"
  BY DEF SystemInv, ExecutionInv, TypeOK, IdleCalls, BusyCalls
<1>5. \A c \in Calls : HandInv(c)'
  BY <1>0, <1>1, <1>3, <1>4 DEF SystemInv, PayloadInv, HandInv
<1>6. OnePayload'
  BY <1>0, <1>1, <1>2 DEF SystemInv, PayloadInv, OnePayload
<1>7. inhand' \in [Calls -> Payloads] /\ due' \in [Apps -> Nat]
  BY <1>0 DEF SystemInv, PayloadInv
<1> QED
  BY <1>0, <1>2, <1>5, <1>6, <1>7 DEF SystemInv, PayloadInv, Submitted

\* A submitted execution stays submitted.
LEMMA SubmittedStays ==
  ASSUME ExecutionInv, [Next]_vars, NEW x \in Apps, Submitted(x) PROVE Submitted(x)'
<1>1. Advances(x) /\ exec'[x] \in Execution
  BY StepAdvances, StepInv DEF ExecutionInv, TypeOK
<1> QED
  BY <1>1 DEF Advances, Rank, Submitted, InFlight, Terminal, Execution, ExecutionStatus

\* What a call holds after a step on executions.
LEMMA HandStep ==
  ASSUME SystemInv, ExecutionStep, NEW c \in Calls
  PROVE  HandInv(c)' /\ inhand'[c] \in Payloads
<1>0. /\ [Next]_vars /\ inhand'[c] = HeldAfter(c) /\ UNCHANGED app
      /\ due' = [x \in Apps |->
           IF exec[x].status = "NONE" /\ exec'[x].status # "NONE" THEN app[x].amount ELSE due[x]]
  BY DEF ExecutionStep, Held, Copied, applicationVars
<1>1. SlotMoves(c)
  BY <1>0, CallMoves DEF SystemInv
<1>2. /\ HandInv(c) /\ inhand[c] \in Payloads /\ due \in [Apps -> Nat]
      /\ \A x \in Apps : exec[x].status # "NONE" => due[x] = app[x].amount
  BY DEF SystemInv, PayloadInv
<1>3. \A x \in Apps : exec[x].status # "NONE" => exec'[x].status # "NONE"
  <2>1. \A x \in Apps : Advances(x)
    BY <1>0, StepAdvances DEF SystemInv
  <2> QED
    BY <2>1 DEF Advances, Rank
<1>4. /\ call[c] \in IdleCalls \cup BusyCalls /\ call[c].app \in Apps
      /\ \A x \in Apps : Payload(x) \in Payloads /\ Unread(x) \in Payloads
                        /\ app[x].amount \in Nat
  BY PayloadTyped DEF SystemInv, ExecutionInv, TypeOK, IdleCalls, BusyCalls
<1>5. \A x \in Apps : Payload(x)' = Payload(x) /\ Unread(x)' = Unread(x)
                     /\ [Unread(x) EXCEPT !.amount = app[x].amount] = Payload(x)
  BY <1>0 DEF Payload, Unread
<1>6. CASE call'[c] = call[c]
  <2>1. inhand'[c] = inhand[c]
    BY <1>0, <1>4, <1>6 DEF HeldAfter, Begins, At, IdleCalls, BusyCalls
  <2> QED
    BY <1>2, <1>3, <1>4, <1>5, <1>6, <2>1 DEF HandInv
<1>7. CASE call'[c].pc = "idle" /\ call'[c].op = "none"
  <2>1. inhand'[c] = inhand[c]
    BY <1>0, <1>7 DEF HeldAfter, Begins
  <2> QED
    BY <1>2, <1>7, <2>1 DEF HandInv
<1>8. CASE Opens(c)
  <2> DEFINE x == call'[c].app
  <2>1. x \in Apps /\ At(c, "idle")
    BY <1>8 DEF Opens
  <2>2. CASE call'[c].op = "execute" /\ call'[c].pc = "create"
    <3>1. inhand'[c] = Unread(x)
      BY <1>0, <2>1, <2>2 DEF HeldAfter, Begins
    <3> QED
      BY <1>4, <1>5, <2>1, <2>2, <3>1 DEF HandInv
  <2>3. CASE call'[c].op \in {"recover", "compensate"} /\ call'[c].pc = "query"
    <3>1. inhand'[c] = inhand[c]
      BY <1>0, <2>1, <2>3 DEF HeldAfter, Begins, At
    <3> QED
      BY <1>2, <2>3, <3>1 DEF HandInv
  <2>4. CASE call'[c].op = "resubmit" /\ call'[c].pc = "query" /\ exec[x].status # "NONE"
    <3>1. inhand'[c] = [Unread(x) EXCEPT !.amount = due[x]]
      BY <1>0, <2>1, <2>4 DEF HeldAfter, Begins
    <3>2. inhand'[c] = Payload(x)
      BY <1>2, <1>5, <2>1, <2>4, <3>1
    <3> QED
      BY <1>4, <1>5, <2>1, <2>4, <3>2 DEF HandInv
  <2> QED
    BY <1>8, <2>2, <2>3, <2>4 DEF Opens
<1>9. CASE Proceeds(c)
  <2> DEFINE x == call[c].app
  <2>0. x \in Apps /\ call'[c].app = x /\ call'[c].op = call[c].op /\ ~At(c, "idle")
    BY <1>4, <1>9 DEF Proceeds, At
  <2>1. CASE At(c, "fetch") /\ call'[c].pc = "claim"
    <3>1. inhand'[c] = [inhand[c] EXCEPT !.amount = due[x]]
      BY <1>0, <2>0, <2>1 DEF HeldAfter, Begins, At
    <3>2. inhand'[c] = Payload(x)
      BY <1>2, <1>5, <2>0, <2>1, <3>1 DEF HandInv, At
    <3>3. call'[c].op # "resubmit"
      BY <1>2, <2>0, <2>1 DEF HandInv, At
    <3> QED
      BY <1>4, <1>5, <2>0, <2>1, <3>2, <3>3 DEF HandInv
  <2>2. CASE ~(At(c, "fetch") /\ call'[c].pc = "claim")
    <3>1. inhand'[c] = inhand[c]
      BY <1>0, <2>0, <2>2 DEF HeldAfter, Begins
    <3> QED
      BY <1>2, <1>3, <1>4, <1>5, <1>9, <2>0, <2>2, <3>1 DEF HandInv, Proceeds, At
  <2> QED
    BY <2>1, <2>2
<1> QED
  BY <1>1, <1>6, <1>7, <1>8, <1>9 DEF SlotMoves

LEMMA ExecutionPayload ==
  ASSUME SystemConstants, SystemInv, ExecutionStep PROVE PayloadInv'
<1>0. /\ UNCHANGED app /\ Copied /\ Held /\ Carried
  BY DEF ExecutionStep, applicationVars
<1>1. /\ due' \in [Apps -> Nat]
      /\ \A x \in Apps : exec'[x].status # "NONE" => due'[x] = app'[x].amount
  BY <1>0, PayloadTyped DEF Copied, SystemInv, PayloadInv
<1>2. inhand' \in [Calls -> Payloads] /\ \A c \in Calls : HandInv(c)'
  BY <1>0, HandStep DEF Held
<1>3. \A c \in Calls, x \in Apps : Sends(c, x) => inhand[c] = Payload(x) /\ Submitted(x)
  BY DEF Sends, At, SystemInv, PayloadInv, HandInv, ExecutionInv, SlotInv
<1>4. \A x \in Apps : Payload(x)' = Payload(x)
  BY <1>0 DEF Payload
<1>5. \A x \in Apps : sent'[x] \subseteq sent[x] \cup {Payload(x)}
                     /\ (sent'[x] # {} => sent[x] # {} \/ Submitted(x))
  BY <1>0, <1>3 DEF Carried
<1>6. \A x \in Apps : sent'[x] # {} => Submitted(x)'
  BY <1>5, SubmittedStays DEF ExecutionStep, SystemInv, PayloadInv
<1> QED
  BY <1>1, <1>2, <1>4, <1>5, <1>6 DEF SystemInv, PayloadInv, OnePayload

LEMMA InitPayload == ASSUME SystemConstants, SystemInit PROVE PayloadInv
<1>1. Applications!AppInv
  BY Applications!InitInvariant DEF SystemInit, SystemConstants
<1>2. SomeApp \in Apps
  BY ConstantFacts
<1> QED
  BY <1>1, <1>2, PayloadTyped
     DEF SystemInit, Init, Idle, NoExecution, PayloadInv, HandInv, OnePayload

\* Applications, executions, calls and what is asked of the provider agree, whatever
\* customers, administrators, batches and the provider do.
THEOREM SystemInvariant ==
  ASSUME SystemConstants PROVE SystemSpec => []SystemInv
<1>1. SystemInit => PayloadInv
  BY InitPayload
<1>2. SystemInv /\ [SystemNext]_systemVars => PayloadInv'
  <2> SUFFICES ASSUME SystemInv, [SystemNext]_systemVars PROVE PayloadInv'
    OBVIOUS
  <2>1. CASE UNCHANGED systemVars
    <3>1. UNCHANGED <<app, exec, call, application, due, inhand, sent>>
      BY <2>1 DEF systemVars, vars, dbVars, applicationVars, payloadVars
    <3> QED
      BY <3>1 DEF SystemInv, PayloadInv, HandInv, OnePayload, Payload, Unread, Submitted,
         Payloads, Applications!Users
  <2> QED
    BY <2>1, ApplicationPayload, ExecutionPayload DEF SystemNext
<1>3. ExecutionInv /\ Applications!AppInv /\ SharedColumn /\ PayloadInv => SystemInv
  BY DEF SystemInv
<1>4. SystemSpec => []ExecutionInv
  BY ExecutionsKept, ExecutionInvariant, PTL
<1> QED
  BY <1>1, <1>2, <1>3, <1>4, ApplicationsInvariant, ColumnShared, PTL DEF SystemSpec

-----------------------------------------------------------------------------
(* What the provider is asked to pay.                                       *)

\* The provider is asked about approved applications with an execution.
LEMMA AskedApproved ==
  ASSUME SystemInv, NEW x \in Apps, Asked(x)
  PROVE  Approved(x) /\ app[x].status = "APPROVED" /\ exec[x].status # "NONE"
<1>1. Submitted(x)
  BY DEF Asked, SystemInv, PayloadInv, ExecutionInv, RowInv
<1>2. exec[x].status # "NONE" /\ Approved(x)
  BY <1>1 DEF Submitted, InFlight, Terminal, SystemInv, ExecutionInv, RowInv
<1> QED
  BY <1>2 DEF SystemInv, SharedColumn, StatusOf, Approved

\* All requests for a key have the same content, so that the sandbox never answers
\* 409 and RefundSandbox may leave the content out.
THEOREM OnePayloadAsked ==
  ASSUME SystemConstants PROVE SystemSpec => []OnePayload
<1>1. SystemInv => OnePayload
  BY DEF SystemInv, PayloadInv
<1> QED
  BY <1>1, SystemInvariant, PTL

\* Money is asked for only as an administrator decided: within the order's total and
\* for its owner.
THEOREM AskedWithin ==
  ASSUME SystemConstants PROVE SystemSpec => []AskedWithinOrder
<1>1. SystemInv /\ Applications!DecisionsSigned => AskedWithinOrder
  <2> SUFFICES ASSUME SystemInv, Applications!DecisionsSigned, NEW x \in Apps, Asked(x)
               PROVE  /\ app[x].status = "APPROVED" /\ app[x].reviewer \in Reviewers
                      /\ app[x].user = Owner[app[x].order]
                      /\ app[x].amount <= Total[app[x].order]
    BY DEF AskedWithinOrder
  <2>1. app[x].status = "APPROVED"
    BY AskedApproved
  <2> QED
    BY <2>1 DEF Applications!DecisionsSigned, Applications!Decision, SystemInv,
       Applications!AppInv, Applications!RowInv, Applications!Exists
<1>2. Applications!Spec => []Applications!DecisionsSigned
  BY Applications!DecisionsAreSigned DEF SystemConstants
<1> QED
  BY <1>1, <1>2, SystemInvariant, ApplicationsKept, PTL

\* Two applications of an order are never both paid: the index on open applications
\* and the finality of decisions are enough, without a lock between the two parts.
THEOREM OnePayment ==
  ASSUME SystemConstants PROVE SystemSpec => []OnePaymentPerOrder
<1>1. SystemInv => OnePaymentPerOrder
  <2> SUFFICES ASSUME SystemInv, NEW x \in Apps, NEW y \in Apps, Asked(x), Asked(y),
                      app[x].order = app[y].order, x # y
               PROVE  FALSE
    BY DEF OnePaymentPerOrder
  <2>1. app[x].status = "APPROVED" /\ app[y].status = "APPROVED"
    BY AskedApproved
  <2> QED
    BY <2>1 DEF SystemInv, Applications!AppInv, Applications!OneOpenPerOrder,
       Applications!NonRejected
<1> QED
  BY <1>1, SystemInvariant, PTL

\* Nothing the provider was asked about changes under it.
THEOREM AskedFrozen ==
  ASSUME SystemConstants PROVE SystemSpec => AskedStaysFrozen
<1>1. SystemInv /\ [SystemNext]_systemVars =>
        [\A x \in Apps : Asked(x) => app'[x] = app[x] /\ due'[x] = due[x]]_systemVars
  <2> SUFFICES ASSUME SystemInv, [SystemNext]_systemVars, NEW x \in Apps, Asked(x)
               PROVE  app'[x] = app[x] /\ due'[x] = due[x]
    OBVIOUS
  <2>1. app'[x] = app[x]
    BY AskedApproved, ApprovedFixed
  <2>2. due'[x] = due[x]
    BY AskedApproved
       DEF SystemNext, ApplicationStep, ExecutionStep, Copied, systemVars, payloadVars,
           SystemInv, PayloadInv
  <2> QED
    BY <2>1, <2>2
<1> QED
  BY <1>1, SystemInvariant, PTL DEF SystemSpec, AskedStaysFrozen
=============================================================================
