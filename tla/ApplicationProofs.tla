-------------------------- MODULE ApplicationProofs --------------------------
(***************************************************************************)
(* Proofs about refund applications: the inductive invariant, the safety   *)
(* properties that follow from it, and the refinement of RefundCases.      *)
(***************************************************************************)
EXTENDS ApplicationProperties, TLAPS

USE DEF Cent

-----------------------------------------------------------------------------
(* Rounding to cents.                                                       *)

\* A positive amount of at most a whole number of cents is stored as a number of
\* cents that is not larger.
LEMMA RoundingFits ==
  ASSUME NEW a \in Int, NEW total \in Nat, a > 0, a <= total, total % Cent = 0
  PROVE  ToCents(a) \in Nat /\ ToCents(a) % Cent = 0 /\ ToCents(a) <= total
<1>1. PICK q \in Int : (a + 5) \div 10 = q /\ 10 * q <= a + 5 /\ a + 5 < 10 * q + 10
  BY SMT
<1>2. PICK k \in Int : total = 10 * k
  BY SMT
<1>3. ToCents(a) = 10 * q
  BY <1>1, SMT DEF ToCents
<1>4. q >= 0 /\ q <= k
  BY <1>1, <1>2, SMT
<1> QED
  BY <1>2, <1>3, <1>4, SMT

-----------------------------------------------------------------------------
(* Initial states.                                                          *)

LEMMA InitInvariant == Init => AppInv
<1> SUFFICES ASSUME Init PROVE AppInv
  OBVIOUS
<1> USE DEF Init
<1>1. NoRow \in Row
  BY OrdersAssumption DEF NoRow, Row, Status, Users
<1>2. TypeOK
  <2>1. app \in [Apps -> Row]
    BY <1>1
  <2>2. \A x \in Apps : app[x].amount % Cent = 0
    <3>1. \A x \in Apps : app[x].amount = 0
      BY DEF NoRow
    <3> QED
      BY <3>1, SMT
  <2>3. submission \in [Submitters -> Submission] /\ review \in [Reviewers -> Review]
    BY DEF Submission, Review
  <2>4. asked \in [Apps -> Int]
    OBVIOUS
  <2> QED
    BY <2>1, <2>2, <2>3, <2>4 DEF TypeOK
<1>3. \A x \in Apps : ~Exists(x) /\ ~NonRejected(x)
  BY DEF Exists, NonRejected, NoRow
<1>4. OneOpenPerOrder /\ \A x \in Apps : RowInv(x)
  BY <1>3 DEF OneOpenPerOrder, RowInv
<1>5. /\ RepliesStand /\ LostOnlyToRejection /\ \A s \in Submitters : RefusalInv(s)
  BY DEF RepliesStand, ReplyStands, LostOnlyToRejection, RefusalInv, AtStep, NoSubmission
<1>6. RulingsStand /\ \A v \in Reviewers : ReviewsKnown(v) /\ WinnerKnown(v)
  BY DEF RulingsStand, RulingStands, ReviewsKnown, WinnerKnown, ReviewAt, NoReview
<1> QED
  BY <1>2, <1>4, <1>5, <1>6 DEF AppInv

-----------------------------------------------------------------------------
(* What a step does to the rows.                                            *)

\* A row that exists keeps what it was filed with, and a decided one everything.
RowsKept ==
  \A x \in Apps : Exists(x) =>
    /\ Exists(x)'
    /\ app'[x].user = app[x].user /\ app'[x].order = app[x].order
    /\ app'[x].request = app[x].request /\ app'[x].amount = app[x].amount
    /\ asked'[x] = asked[x]
    /\ app[x].status \in Decision => app'[x] = app[x]

\* The only steps that touch the table.
TableStep ==
  \/ UNCHANGED <<app, asked>>
  \/ \E s \in Submitters, x \in Apps : Insert(s, x)
  \/ \E u \in Users, x \in Apps : Confirm(u, x)
  \/ \E v \in Reviewers : Decide(v)

LEMMA StepOnTable == ASSUME [Next]_vars PROVE TableStep
<1>1. CASE UNCHANGED vars
  BY <1>1 DEF vars, TableStep
<1>2. ASSUME NEW s \in Submitters, SubmitterStep(s) PROVE TableStep
  BY <1>2 DEF SubmitterStep, StartSubmission, InsertRefused, ReadByRequest, ReadByOrder,
     SubmissionLost, TableStep
<1>3. ASSUME NEW v \in Reviewers, ReviewerStep(v) PROVE TableStep
  BY <1>3 DEF ReviewerStep, StartReview, ReadDecision, ReviewLost, TableStep
<1>4. ASSUME NEW u \in Users, NEW x \in Apps, Confirm(u, x) PROVE TableStep
  BY <1>4 DEF TableStep
<1> QED
  BY <1>1, <1>2, <1>3, <1>4 DEF Next

\* What a review in progress decides on.
LEMMA ReviewTyped ==
  ASSUME TypeOK, NEW v \in Reviewers, review[v].pc # "idle"
  PROVE  review[v].app \in Apps /\ review[v].decision \in Decision
BY DEF TypeOK, Review, NoReview

\* What a submission in progress asks for.
LEMMA SubmissionTyped ==
  ASSUME TypeOK, NEW s \in Submitters, submission[s].pc # "idle"
  PROVE  /\ submission[s].order \in Orders /\ submission[s].request \in Requests
         /\ submission[s].amount \in Amounts
         /\ submission[s].pc \in SubmissionStep \cup Answered
         /\ Customer(s) \in Users
BY DEF TypeOK, Submission, NoSubmission, Customer, Users

\* An answer that names an application.
LEMMA AnswerTyped ==
  ASSUME TypeOK, NEW s \in Submitters, submission[s].pc # "idle",
         NEW pc \in Answered, NEW x \in Apps, Answer(s, pc, x)
  PROVE  /\ submission' \in [Submitters -> Submission]
         /\ submission'[s].pc = pc /\ submission'[s].app = x
         /\ submission'[s].order = submission[s].order
         /\ submission'[s].request = submission[s].request
         /\ submission'[s].amount = submission[s].amount
         /\ \A t \in Submitters \ {s} : submission'[t] = submission[t]
<1> DEFINE Asking == [pc : SubmissionStep \cup Answered, order : Orders,
                      request : Requests, amount : Amounts, app : Apps \cup {NoApp}]
           Given == [submission[s] EXCEPT !.pc = pc, !.app = x]
<1>1. submission \in [Submitters -> Submission] /\ submission[s] \in Asking
  BY DEF TypeOK, Submission, NoSubmission
<1>2. Given \in Asking /\ Given.pc = pc /\ Given.app = x
      /\ Given.order = submission[s].order /\ Given.request = submission[s].request
      /\ Given.amount = submission[s].amount
  BY <1>1
<1>3. submission' = [submission EXCEPT ![s] = Given]
  BY <1>1 DEF Answer
<1>4. Given \in Submission
  BY <1>2 DEF Submission
<1> HIDE DEF Given, Asking
<1> QED
  BY <1>1, <1>2, <1>3, <1>4

LEMMA TableKept == ASSUME AppInv, [Next]_vars PROVE RowsKept
<1> USE DEF AppInv, TypeOK
<1>1. CASE UNCHANGED <<app, asked>>
  BY <1>1 DEF RowsKept, Exists
<1>2. ASSUME NEW s \in Submitters, NEW x \in Apps, Insert(s, x) PROVE RowsKept
  BY <1>2 DEF Insert, RowsKept, Exists
<1>3. ASSUME NEW u \in Users, NEW x \in Apps, Confirm(u, x) PROVE RowsKept
  BY <1>3 DEF Confirm, Confirmable, RowsKept, Exists, Decision, Row
<1>4. ASSUME NEW v \in Reviewers, Decide(v) PROVE RowsKept
  <2>1. review[v].app \in Apps /\ review[v].decision \in Decision
    BY <1>4, ReviewTyped DEF Decide, ReviewAt
  <2> QED
    BY <1>4, <2>1 DEF Decide, Reviewable, RowsKept, Exists, Decision, Row
<1> QED
  BY <1>1, <1>2, <1>3, <1>4, StepOnTable DEF TableStep

-----------------------------------------------------------------------------
(* The invariant, conjunct by conjunct.                                     *)

\* The row an INSERT writes.
LEMMA NewRowFits ==
  ASSUME AppInv, NEW s \in Submitters, AtStep(s, "insert")
  PROVE  /\ NewRow(s) \in Row /\ NewRow(s).amount % Cent = 0
         /\ NewRow(s).amount <= Total[NewRow(s).order]
         /\ NewRow(s).user = Owner[NewRow(s).order]
<1>1. /\ submission[s].order \in Orders /\ submission[s].request \in Requests
      /\ submission[s].amount \in Amounts /\ Customer(s) \in Users
  BY SubmissionTyped DEF AppInv, AtStep
<1>2. submission[s].amount > 0 /\ submission[s].amount <= Total[submission[s].order]
  BY DEF AppInv, RefusalInv, Eligible
<1>3. /\ ToCents(submission[s].amount) \in Nat
      /\ ToCents(submission[s].amount) % Cent = 0
      /\ ToCents(submission[s].amount) <= Total[submission[s].order]
  BY <1>1, <1>2, RoundingFits, AmountsAssumption
<1> QED
  BY <1>1, <1>3 DEF NewRow, Row, Status, Customer

LEMMA TypeStep == ASSUME AppInv, [Next]_vars PROVE TypeOK'
<1> USE DEF TypeOK
<1>t. TypeOK
  BY DEF AppInv
<1>1. app' \in [Apps -> Row] /\ asked' \in [Apps -> Int]
      /\ \A x \in Apps : app'[x].amount % Cent = 0
  <2>1. CASE UNCHANGED <<app, asked>>
    BY <1>t, <2>1
  <2>2. ASSUME NEW s \in Submitters, NEW x \in Apps, Insert(s, x) PROVE <1>1!:
    <3>1. NewRow(s) \in Row /\ NewRow(s).amount % Cent = 0
      BY <2>2, NewRowFits DEF Insert
    <3>2. submission[s].amount \in Int
      BY <1>t, <2>2, SubmissionTyped, AmountsAssumption DEF Insert, AtStep
    <3> QED
      BY <1>t, <2>2, <3>1, <3>2 DEF Insert
  <2>3. ASSUME NEW u \in Users, NEW x \in Apps, Confirm(u, x) PROVE <1>1!:
    BY <1>t, <2>3 DEF Confirm, Row, Status
  <2>4. ASSUME NEW v \in Reviewers, Decide(v) PROVE <1>1!:
    <3>1. review[v].app \in Apps /\ review[v].decision \in Decision
      BY <1>t, <2>4, ReviewTyped DEF Decide, ReviewAt
    <3> QED
      BY <1>t, <2>4, <3>1 DEF Decide, Row, Status
  <2> QED
    BY <2>1, <2>2, <2>3, <2>4, StepOnTable DEF TableStep
<1>2. submission' \in [Submitters -> Submission]
  <2>1. CASE UNCHANGED submission
    BY <1>t, <2>1
  <2>2. ASSUME NEW s \in Submitters, SubmitterStep(s) PROVE <1>2!:
    <3> USE DEF Submission, SubmissionStep, Answered
    <3>1. CASE \E o \in Orders, r \in Requests, a \in Amounts : StartSubmission(s, o, r, a)
      BY <1>t, <3>1 DEF StartSubmission
    <3>2. CASE \E x \in Apps : Insert(s, x)
      <4>1. AtStep(s, "insert") /\ \E x \in Apps : Answer(s, "created", x)
        BY <3>2 DEF Insert
      <4> QED
        BY <1>t, <4>1, AnswerTyped DEF AtStep
    <3>3. CASE InsertRefused(s)
      BY <1>t, <3>3, SubmissionTyped DEF InsertRefused, GoToStep, AtStep, NoSubmission
    <3>4. CASE ReadByRequest(s)
      <4>1. AtStep(s, "by_request")
        BY <3>4 DEF ReadByRequest
      <4>2. \/ \E x \in Apps : Answer(s, "original", x)
            \/ GoToStep(s, "conflict") \/ GoToStep(s, "by_order")
        BY <3>4 DEF ReadByRequest, FoundByRequest
      <4> QED
        BY <1>t, <4>1, <4>2, SubmissionTyped, AnswerTyped DEF GoToStep, AtStep, NoSubmission
    <3>5. CASE ReadByOrder(s)
      <4>1. AtStep(s, "by_order")
        BY <3>5 DEF ReadByOrder
      <4>2. (\E x \in Apps : Answer(s, "open", x)) \/ GoToStep(s, "unavailable")
        BY <3>5 DEF ReadByOrder, FoundByOrder
      <4> QED
        BY <1>t, <4>1, <4>2, SubmissionTyped, AnswerTyped DEF GoToStep, AtStep, NoSubmission
    <3>6. CASE SubmissionLost(s)
      BY <1>t, <3>6 DEF SubmissionLost
    <3> QED
      BY <2>2, <3>1, <3>2, <3>3, <3>4, <3>5, <3>6 DEF SubmitterStep
  <2>3. ASSUME NEW v \in Reviewers, ReviewerStep(v) PROVE UNCHANGED submission
    BY <2>3 DEF ReviewerStep, StartReview, Decide, ReadDecision, ReviewLost
  <2>4. ASSUME NEW u \in Users, NEW x \in Apps, Confirm(u, x) PROVE UNCHANGED submission
    BY <2>4 DEF Confirm
  <2> QED
    BY <2>1, <2>2, <2>3, <2>4 DEF Next, vars
<1>3. review' \in [Reviewers -> Review]
  <2>1. CASE UNCHANGED review
    BY <1>t, <2>1
  <2>2. ASSUME NEW v \in Reviewers, ReviewerStep(v) PROVE <1>3!:
    <3> USE DEF Review
    <3>1. CASE \E x \in Apps, d \in Decision : StartReview(v, x, d)
      BY <1>t, <3>1 DEF StartReview
    <3>2. CASE Decide(v)
      BY <1>t, <3>2, ReviewTyped DEF Decide, ReviewAt, ReviewGoesTo, NoReview
    <3>3. CASE ReadDecision(v)
      BY <1>t, <3>3, ReviewTyped DEF ReadDecision, ReviewAt, ReviewGoesTo, NoReview
    <3>4. CASE ReviewLost(v)
      BY <1>t, <3>4 DEF ReviewLost
    <3> QED
      BY <2>2, <3>1, <3>2, <3>3, <3>4 DEF ReviewerStep
  <2>3. ASSUME NEW s \in Submitters, SubmitterStep(s) PROVE UNCHANGED review
    BY <2>3 DEF SubmitterStep, StartSubmission, Insert, InsertRefused, ReadByRequest,
       ReadByOrder, SubmissionLost
  <2>4. ASSUME NEW u \in Users, NEW x \in Apps, Confirm(u, x) PROVE UNCHANGED review
    BY <2>4 DEF Confirm
  <2> QED
    BY <2>1, <2>2, <2>3, <2>4 DEF Next, vars
<1> QED
  BY <1>1, <1>2, <1>3

LEMMA OpenStep == ASSUME AppInv, [Next]_vars PROVE OneOpenPerOrder'
<1> USE DEF AppInv, TypeOK
<1>o. OneOpenPerOrder
  OBVIOUS
<1>1. CASE UNCHANGED <<app, asked>>
  BY <1>o, <1>1 DEF OneOpenPerOrder, Exists, NonRejected
<1>2. ASSUME NEW s \in Submitters, NEW x \in Apps, Insert(s, x) PROVE OneOpenPerOrder'
  <2>1. app'[x] = NewRow(s) /\ \A y \in Apps \ {x} : app'[y] = app[y]
    BY <1>2 DEF Insert
  <2>2. \A y \in Apps \ {x} :
          /\ ~(NonRejected(y) /\ app[y].order = NewRow(s).order)
          /\ ~(Exists(y) /\ app[y].request = NewRow(s).request
                 /\ app[y].user = NewRow(s).user)
    <3>1. \A y \in Apps : NonRejected(y) /\ app[y].order = NewRow(s).order
            => app[y].user = NewRow(s).user
      BY DEF RowInv, NonRejected, Exists, NewRow, Customer
    <3> QED
      BY <1>2, <3>1 DEF Insert, TakenRequest, TakenOrder, NewRow
  <2> QED
    BY <1>o, <2>1, <2>2 DEF OneOpenPerOrder, Exists, NonRejected
<1>3. ASSUME NEW u \in Users, NEW x \in Apps, Confirm(u, x) PROVE OneOpenPerOrder'
  <2>1. /\ NonRejected(x) /\ Exists(x)
        /\ app'[x] = [app[x] EXCEPT !.status = "PENDING_MANUAL_APPROVAL"]
        /\ \A y \in Apps \ {x} : app'[y] = app[y]
    BY <1>3 DEF Confirm, Confirmable, NonRejected, Exists
  <2> QED
    BY <1>o, <2>1 DEF OneOpenPerOrder, Exists, NonRejected, Row
<1>4. ASSUME NEW v \in Reviewers, Decide(v) PROVE OneOpenPerOrder'
  <2>1. review[v].app \in Apps /\ review[v].decision \in Decision
    BY <1>4, ReviewTyped DEF Decide, ReviewAt
  <2>2. CASE ~Reviewable(review[v].app)
    BY <1>o, <1>4, <2>2 DEF Decide, OneOpenPerOrder, Exists, NonRejected
  <2>3. CASE Reviewable(review[v].app)
    <3>1. \A y \in Apps :
            /\ app'[y].order = app[y].order /\ app'[y].user = app[y].user
            /\ app'[y].request = app[y].request
            /\ Exists(y)' => Exists(y) /\ (NonRejected(y)' => NonRejected(y))
      BY <1>4, <2>1, <2>3 DEF Decide, Reviewable, NonRejected, Exists, Row
    <3>2. \A y \in Apps : NonRejected(y)' => Exists(y)'
      BY DEF NonRejected, Exists
    <3> QED
      BY <1>o, <3>1, <3>2 DEF OneOpenPerOrder
  <2> QED
    BY <2>2, <2>3
<1> QED
  BY <1>1, <1>2, <1>3, <1>4, StepOnTable DEF TableStep

LEMMA RowStep == ASSUME AppInv, [Next]_vars PROVE \A x \in Apps : RowInv(x)'
<1> SUFFICES ASSUME NEW x \in Apps, Exists(x)' PROVE RowInv(x)'
  BY DEF RowInv
<1>1. CASE Exists(x)
  BY <1>1, TableKept DEF RowsKept, AppInv, RowInv
<1>2. CASE ~Exists(x)
  <2>1. PICK s \in Submitters : Insert(s, x)
    <3>1. ASSUME NEW s \in Submitters, NEW y \in Apps, Insert(s, y), y # x PROVE FALSE
      BY <1>2, <3>1 DEF Insert, Exists, AppInv, TypeOK
    <3>2. ASSUME NEW u \in Users, NEW y \in Apps, Confirm(u, y) PROVE FALSE
      BY <1>2, <3>2 DEF Confirm, Confirmable, Exists, AppInv, TypeOK
    <3>3. ASSUME NEW v \in Reviewers, Decide(v) PROVE FALSE
      BY <1>2, <3>3 DEF Decide, Reviewable, Exists, AppInv, TypeOK
    <3>4. CASE UNCHANGED <<app, asked>>
      BY <1>2, <3>4 DEF Exists
    <3> QED
      BY <3>1, <3>2, <3>3, <3>4, StepOnTable DEF TableStep
  <2>2. app'[x] = NewRow(s) /\ asked'[x] = submission[s].amount
    BY <2>1 DEF Insert, AppInv, TypeOK
  <2>3. submission[s].amount \in Amounts
    BY <2>1, SubmissionTyped DEF AppInv, Insert, AtStep
  <2>4. NewRow(s).amount = ToCents(submission[s].amount)
    BY DEF NewRow
  <2> QED
    BY <2>1, <2>2, <2>3, <2>4, NewRowFits DEF Insert, RowInv
<1> QED
  BY <1>1, <1>2

-----------------------------------------------------------------------------
(* Submissions.                                                             *)

\* What the invariant says of one submission.
SlotInv(s) ==
  /\ ReplyStands(s) /\ (AtStep(s, "unavailable") => RejectedFor(s)) /\ RefusalInv(s)

\* What was known of the rows stays known.
LEMMA KnownStays ==
  ASSUME AppInv, RowsKept, NEW s \in Submitters, NEW t \in Submitters,
         submission'[t].order = submission[s].order,
         submission'[t].request = submission[s].request,
         submission'[t].amount = submission[s].amount
  PROVE  /\ OrderKnown(s) => OrderKnown(t)'
         /\ RequestKnown(s) => RequestKnown(t)'
         /\ RequestDiffers(s) => RequestDiffers(t)'
         /\ RejectedFor(s) => RejectedFor(t)'
<1>1. Customer(t)' = Customer(s)
  BY DEF Customer
<1>2. OrderKnown(s) => OrderKnown(t)'
  BY <1>1 DEF RowsKept, OrderKnown
<1>3. RequestKnown(s) => RequestKnown(t)'
  BY <1>1 DEF RowsKept, RequestKnown
<1>4. RequestDiffers(s) => RequestDiffers(t)'
  BY <1>1 DEF RowsKept, RequestDiffers, Matches
<1>5. RejectedFor(s) => RejectedFor(t)'
  BY DEF RowsKept, RejectedFor, Decision, Exists
<1> QED
  BY <1>2, <1>3, <1>4, <1>5

\* Steps of others do not disturb a submission.
LEMMA SlotKept ==
  ASSUME AppInv, RowsKept, NEW s \in Submitters, submission'[s] = submission[s]
  PROVE  SlotInv(s)'
<1>1. ReplyStands(s)'
  BY DEF AppInv, RepliesStand, ReplyStands, RowsKept, Customer
<1>2. AtStep(s, "unavailable")' => RejectedFor(s)'
  BY KnownStays DEF AppInv, LostOnlyToRejection, AtStep
<1>3. RefusalInv(s)'
  <2>1. RefusalInv(s)
    BY DEF AppInv
  <2>2. AtStep(s, "insert")' => Eligible(submission[s].order, submission[s].amount)'
    BY <2>1 DEF RefusalInv, AtStep, Eligible
  <2> QED
    BY <2>1, <2>2, KnownStays DEF RefusalInv, AtStep
<1> QED
  BY <1>1, <1>2, <1>3 DEF SlotInv

LEMMA SlotMoves ==
  ASSUME AppInv, RowsKept, NEW s \in Submitters, SubmitterStep(s)
  PROVE  SlotInv(s)'
<1> USE DEF AtStep
<1>t. TypeOK /\ submission \in [Submitters -> Submission] /\ RefusalInv(s)
  BY DEF AppInv, TypeOK
<1>1. CASE \E o \in Orders, r \in Requests, a \in Amounts : StartSubmission(s, o, r, a)
  <2>1. /\ submission'[s].pc = "insert"
        /\ Eligible(submission'[s].order, submission'[s].amount)
    BY <1>t, <1>1 DEF StartSubmission
  <2> QED
    BY <2>1 DEF SlotInv, ReplyStands, RefusalInv, Eligible
<1>2. ASSUME NEW x \in Apps, Insert(s, x) PROVE SlotInv(s)'
  <2>1. /\ submission'[s].pc = "created" /\ submission'[s].app = x
        /\ submission'[s].order = submission[s].order
        /\ submission'[s].request = submission[s].request
        /\ submission'[s].amount = submission[s].amount
    BY <1>t, <1>2, AnswerTyped DEF Insert, Answered
  <2>2. app'[x] = NewRow(s) /\ asked'[x] = submission[s].amount
    BY <1>2 DEF Insert, AppInv, TypeOK
  <2>3. ReplyStands(s)'
    BY <2>1, <2>2 DEF ReplyStands, NewRow, Exists, Customer
  <2> QED
    BY <2>1, <2>3 DEF SlotInv, RefusalInv
<1>3. CASE InsertRefused(s)
  <2>1. /\ submission'[s].pc = "by_request"
        /\ submission'[s].order = submission[s].order
        /\ submission'[s].request = submission[s].request
        /\ submission'[s].amount = submission[s].amount
    BY <1>t, <1>3 DEF InsertRefused, GoToStep, Submission, NoSubmission
  <2>2. RequestKnown(s) \/ OrderKnown(s)
    BY <1>3 DEF InsertRefused, TakenRequest, TakenOrder, RequestKnown, OrderKnown,
       NonRejected, Exists
  <2>3. RequestKnown(s)' \/ OrderKnown(s)'
    BY <2>1, <2>2, KnownStays
  <2> QED
    BY <2>1, <2>3 DEF SlotInv, ReplyStands, RefusalInv
<1>4. CASE ReadByRequest(s)
  <2>1. submission[s].pc = "by_request" /\ UNCHANGED <<app, asked>>
    BY <1>4 DEF ReadByRequest
  <2>2. CASE \E x \in Apps : /\ x \in FoundByRequest(Customer(s), submission[s].request)
                             /\ Matches(x, s) /\ Answer(s, "original", x)
    <3>1. PICK x \in Apps : /\ x \in FoundByRequest(Customer(s), submission[s].request)
                            /\ Matches(x, s) /\ Answer(s, "original", x)
      BY <2>2
    <3>2. /\ submission'[s].pc = "original" /\ submission'[s].app = x
          /\ submission'[s].order = submission[s].order
          /\ submission'[s].request = submission[s].request
          /\ submission'[s].amount = submission[s].amount
      BY <1>t, <2>1, <3>1, AnswerTyped DEF Answered
    <3>3. /\ Exists(x) /\ app[x].user = Customer(s)
          /\ app[x].request = submission[s].request
          /\ app[x].order = submission[s].order /\ app[x].amount = submission[s].amount
      BY <3>1 DEF FoundByRequest, Matches
    <3>4. ReplyStands(s)'
      BY <2>1, <3>2, <3>3 DEF ReplyStands, Exists, Customer
    <3> QED
      BY <3>2, <3>4 DEF SlotInv, RefusalInv
  <2>3. CASE \E x \in Apps : /\ x \in FoundByRequest(Customer(s), submission[s].request)
                             /\ ~Matches(x, s) /\ GoToStep(s, "conflict")
    <3>1. RequestDiffers(s)
      BY <2>3 DEF FoundByRequest, RequestDiffers
    <3>2. /\ submission'[s].pc = "conflict"
          /\ submission'[s].order = submission[s].order
          /\ submission'[s].request = submission[s].request
          /\ submission'[s].amount = submission[s].amount
      BY <1>t, <2>1, <2>3 DEF GoToStep, Submission, NoSubmission
    <3>3. RequestDiffers(s)'
      BY <3>1, <3>2, KnownStays
    <3> QED
      BY <3>2, <3>3 DEF SlotInv, ReplyStands, RefusalInv
  <2>4. CASE /\ FoundByRequest(Customer(s), submission[s].request) = {}
             /\ GoToStep(s, "by_order")
    <3>1. ~RequestKnown(s)
      BY <2>4 DEF FoundByRequest, RequestKnown
    <3>2. OrderKnown(s)
      BY <1>t, <2>1, <3>1 DEF RefusalInv
    <3>3. /\ submission'[s].pc = "by_order"
          /\ submission'[s].order = submission[s].order
          /\ submission'[s].request = submission[s].request
          /\ submission'[s].amount = submission[s].amount
      BY <1>t, <2>1, <2>4 DEF GoToStep, Submission, NoSubmission
    <3>4. OrderKnown(s)'
      BY <3>2, <3>3, KnownStays
    <3> QED
      BY <3>3, <3>4 DEF SlotInv, ReplyStands, RefusalInv
  <2> QED
    BY <1>4, <2>2, <2>3, <2>4 DEF ReadByRequest, FoundByRequest
<1>5. CASE ReadByOrder(s)
  <2>1. submission[s].pc = "by_order" /\ UNCHANGED <<app, asked>>
    BY <1>5 DEF ReadByOrder
  <2>2. CASE \E x \in Apps : /\ x \in FoundByOrder(Customer(s), submission[s].order)
                             /\ Answer(s, "open", x)
    <3>1. PICK x \in Apps : /\ x \in FoundByOrder(Customer(s), submission[s].order)
                            /\ Answer(s, "open", x)
      BY <2>2
    <3>2. /\ submission'[s].pc = "open" /\ submission'[s].app = x
          /\ submission'[s].order = submission[s].order
      BY <1>t, <2>1, <3>1, AnswerTyped DEF Answered
    <3>3. /\ Exists(x) /\ app[x].user = Customer(s)
          /\ app[x].order = submission[s].order
      BY <3>1 DEF FoundByOrder, NonRejected, Exists
    <3>4. ReplyStands(s)'
      BY <2>1, <3>2, <3>3 DEF ReplyStands, Exists, Customer
    <3> QED
      BY <3>2, <3>4 DEF SlotInv, RefusalInv
  <2>3. CASE /\ FoundByOrder(Customer(s), submission[s].order) = {}
             /\ GoToStep(s, "unavailable")
    <3>1. RejectedFor(s)
      BY <1>t, <2>1, <2>3 DEF RefusalInv, OrderKnown, FoundByOrder, NonRejected, Exists,
         RejectedFor
    <3>2. /\ submission'[s].pc = "unavailable"
          /\ submission'[s].order = submission[s].order
          /\ submission'[s].request = submission[s].request
          /\ submission'[s].amount = submission[s].amount
      BY <1>t, <2>1, <2>3 DEF GoToStep, Submission, NoSubmission
    <3>3. RejectedFor(s)'
      BY <3>1, <3>2, KnownStays
    <3> QED
      BY <3>2, <3>3 DEF SlotInv, ReplyStands, RefusalInv
  <2> QED
    BY <1>5, <2>2, <2>3 DEF ReadByOrder, FoundByOrder
<1>6. CASE SubmissionLost(s)
  <2>1. submission'[s].pc = "idle"
    BY <1>t, <1>6 DEF SubmissionLost, NoSubmission
  <2> QED
    BY <2>1 DEF SlotInv, ReplyStands, RefusalInv
<1> QED
  BY <1>1, <1>2, <1>3, <1>4, <1>5, <1>6 DEF SubmitterStep

LEMMA SubmissionsStep == ASSUME AppInv, [Next]_vars PROVE \A s \in Submitters : SlotInv(s)'
<1> SUFFICES ASSUME NEW s \in Submitters PROVE SlotInv(s)'
  OBVIOUS
<1>1. CASE submission'[s] = submission[s]
  BY <1>1, TableKept, SlotKept
<1>2. CASE submission'[s] # submission[s]
  <2>1. SubmitterStep(s)
    <3>1. ASSUME NEW t \in Submitters, SubmitterStep(t), t # s PROVE FALSE
      BY <1>2, <3>1 DEF AppInv, TypeOK, SubmitterStep, StartSubmission, Insert, InsertRefused,
         ReadByRequest, ReadByOrder, SubmissionLost, Answer, GoToStep
    <3>2. ASSUME NEW v \in Reviewers, ReviewerStep(v) PROVE FALSE
      BY <1>2, <3>2 DEF ReviewerStep, StartReview, Decide, ReadDecision, ReviewLost
    <3>3. ASSUME NEW u \in Users, NEW x \in Apps, Confirm(u, x) PROVE FALSE
      BY <1>2, <3>3 DEF Confirm
    <3> QED
      BY <1>2, <3>1, <3>2, <3>3 DEF Next, vars
  <2> QED
    BY <2>1, TableKept, SlotMoves
<1> QED
  BY <1>1, <1>2

-----------------------------------------------------------------------------
(* Reviews.                                                                 *)

\* What the invariant says of one review.
RulingInv(v) == RulingStands(v) /\ ReviewsKnown(v) /\ WinnerKnown(v)

LEMMA RulingKept ==
  ASSUME AppInv, RowsKept, NEW v \in Reviewers, review'[v] = review[v]
  PROVE  RulingInv(v)'
<1> USE DEF AppInv, TypeOK, ReviewAt
<1>1. CASE review[v].pc = "idle"
  BY <1>1 DEF RulingInv, RulingStands, ReviewsKnown, WinnerKnown
<1>2. CASE review[v].pc # "idle"
  <2>1. review[v].app \in Apps /\ review[v].decision \in Decision /\ Exists(review[v].app)
    BY <1>2, ReviewTyped DEF ReviewsKnown
  <2>2. Exists(review[v].app)'
    BY <2>1 DEF RowsKept
  <2>3. CASE review[v].pc \in {"won", "decided", "repeated"}
    <3>1. /\ app[review[v].app].status = review[v].decision
          /\ review[v].pc # "repeated" => app[review[v].app].reviewer = v
      BY <2>3 DEF RulingsStand, RulingStands, WinnerKnown
    <3>2. app'[review[v].app] = app[review[v].app]
      BY <2>1, <3>1 DEF RowsKept
    <3> QED
      BY <2>2, <3>1, <3>2 DEF RulingInv, RulingStands, ReviewsKnown, WinnerKnown, Exists
  <2>4. CASE review[v].pc \notin {"won", "decided", "repeated"}
    BY <2>2, <2>4 DEF RulingInv, RulingStands, ReviewsKnown, WinnerKnown, Exists
  <2> QED
    BY <2>3, <2>4
<1> QED
  BY <1>1, <1>2

LEMMA RulingMoves ==
  ASSUME AppInv, RowsKept, NEW v \in Reviewers, ReviewerStep(v)
  PROVE  RulingInv(v)'
<1> USE DEF ReviewAt, ReviewGoesTo
<1>t. /\ TypeOK /\ review \in [Reviewers -> Review] /\ app \in [Apps -> Row]
      /\ RulingStands(v) /\ ReviewsKnown(v) /\ WinnerKnown(v)
  BY DEF AppInv, TypeOK, RulingsStand
<1>1. ASSUME NEW x \in Apps, NEW d \in Decision, StartReview(v, x, d) PROVE RulingInv(v)'
  <2>1. review'[v].pc = "update" /\ review'[v].app = x /\ UNCHANGED app /\ Exists(x)
    BY <1>t, <1>1 DEF StartReview
  <2> QED
    BY <2>1 DEF RulingInv, RulingStands, ReviewsKnown, WinnerKnown, Exists
<1>2. CASE Decide(v)
  <2>1. /\ review[v].pc = "update"
        /\ review[v].app \in Apps /\ review[v].decision \in Decision
        /\ Exists(review[v].app)
    BY <1>t, <1>2, ReviewTyped DEF Decide, ReviewsKnown
  <2>2. CASE Reviewable(review[v].app)
    <3>1. /\ review'[v].pc = "won" /\ review'[v].app = review[v].app
          /\ review'[v].decision = review[v].decision
      BY <1>t, <1>2, <2>1, <2>2 DEF Decide, Review, NoReview
    <3>2. /\ app'[review[v].app].status = review[v].decision
          /\ app'[review[v].app].reviewer = v
      BY <1>t, <1>2, <2>1, <2>2 DEF Decide, Row
    <3> QED
      BY <2>1, <3>1, <3>2 DEF RulingInv, RulingStands, ReviewsKnown, WinnerKnown, Exists,
         Decision
  <2>3. CASE ~Reviewable(review[v].app)
    <3>1. review'[v].pc = "lost" /\ review'[v].app = review[v].app /\ UNCHANGED app
      BY <1>t, <1>2, <2>1, <2>3 DEF Decide, Review, NoReview
    <3> QED
      BY <2>1, <3>1 DEF RulingInv, RulingStands, ReviewsKnown, WinnerKnown, Exists
  <2> QED
    BY <2>2, <2>3
<1>3. CASE ReadDecision(v)
  <2>1. /\ review[v].app \in Apps /\ Exists(review[v].app) /\ UNCHANGED app
        /\ review[v].pc \in {"won", "lost"}
    BY <1>t, <1>3, ReviewTyped DEF ReadDecision, ReviewsKnown
  <2>2. /\ review'[v].app = review[v].app /\ review'[v].decision = review[v].decision
        /\ review'[v].pc \in {"decided", "repeated", "conflict"}
        /\ review'[v].pc = "decided" => review[v].pc = "won"
        /\ review'[v].pc = "repeated" =>
             app[review[v].app].status = review[v].decision
    BY <1>t, <1>3, <2>1 DEF ReadDecision, Review, NoReview
  <2> QED
    BY <1>t, <2>1, <2>2 DEF RulingInv, RulingStands, ReviewsKnown, WinnerKnown, Exists
<1>4. CASE ReviewLost(v)
  <2>1. review'[v].pc = "idle"
    BY <1>t, <1>4 DEF ReviewLost, NoReview
  <2> QED
    BY <2>1 DEF RulingInv, RulingStands, ReviewsKnown, WinnerKnown
<1> QED
  BY <1>1, <1>2, <1>3, <1>4 DEF ReviewerStep

LEMMA ReviewsStep == ASSUME AppInv, [Next]_vars PROVE \A v \in Reviewers : RulingInv(v)'
<1> SUFFICES ASSUME NEW v \in Reviewers PROVE RulingInv(v)'
  OBVIOUS
<1>1. CASE review'[v] = review[v]
  BY <1>1, TableKept, RulingKept
<1>2. CASE review'[v] # review[v]
  <2>1. ReviewerStep(v)
    <3>1. ASSUME NEW w \in Reviewers, ReviewerStep(w), w # v PROVE FALSE
      BY <1>2, <3>1 DEF AppInv, TypeOK, ReviewerStep, StartReview, Decide, ReadDecision,
         ReviewLost, ReviewGoesTo
    <3>2. ASSUME NEW s \in Submitters, SubmitterStep(s) PROVE FALSE
      BY <1>2, <3>2 DEF SubmitterStep, StartSubmission, Insert, InsertRefused, ReadByRequest,
         ReadByOrder, SubmissionLost
    <3>3. ASSUME NEW u \in Users, NEW x \in Apps, Confirm(u, x) PROVE FALSE
      BY <1>2, <3>3 DEF Confirm
    <3> QED
      BY <1>2, <3>1, <3>2, <3>3 DEF Next, vars
  <2> QED
    BY <2>1, TableKept, RulingMoves
<1> QED
  BY <1>1, <1>2

-----------------------------------------------------------------------------
(* The theorems.                                                            *)

LEMMA InvariantStep == ASSUME AppInv, [Next]_vars PROVE AppInv'
<1>1. TypeOK' /\ OneOpenPerOrder' /\ \A x \in Apps : RowInv(x)'
  BY TypeStep, OpenStep, RowStep
<1>2. RepliesStand' /\ LostOnlyToRejection' /\ \A s \in Submitters : RefusalInv(s)'
  BY SubmissionsStep DEF SlotInv, RepliesStand, LostOnlyToRejection
<1>3. RulingsStand' /\ \A v \in Reviewers : ReviewsKnown(v)' /\ WinnerKnown(v)'
  BY ReviewsStep DEF RulingInv, RulingsStand
<1> QED
  BY <1>1, <1>2, <1>3 DEF AppInv

\* Every state of the table, the submissions and the reviews satisfies the
\* inductive invariant.
THEOREM ApplicationInvariant == Spec => []AppInv
<1>1. Init => AppInv
  BY InitInvariant
<1>2. AppInv /\ [Next]_vars => AppInv'
  BY InvariantStep
<1> QED
  BY <1>1, <1>2, PTL DEF Spec

\* An order never has two applications that are not rejected, nor a user two with
\* one request id.
THEOREM OneOpen == Spec => []OneOpenPerOrder
<1>1. AppInv => OneOpenPerOrder
  BY DEF AppInv
<1> QED
  BY <1>1, ApplicationInvariant, PTL

\* What a submission was told about an application stays true.
THEOREM RepliesHold == Spec => []RepliesStand
<1>1. AppInv => RepliesStand
  BY DEF AppInv
<1> QED
  BY <1>1, ApplicationInvariant, PTL

\* Nothing is found after a refused INSERT only if the application that refused it
\* was rejected meanwhile.
THEOREM LostToRejection == Spec => []LostOnlyToRejection
<1>1. AppInv => LostOnlyToRejection
  BY DEF AppInv
<1> QED
  BY <1>1, ApplicationInvariant, PTL

\* What a reviewer was told stays true, and only one of them wins.
THEOREM RulingsHold == Spec => []RulingsStand
<1>1. AppInv => RulingsStand
  BY DEF AppInv
<1> QED
  BY <1>1, ApplicationInvariant, PTL

\* Every decision is signed by the administrator who took it.
DecisionsSigned ==
  \A x \in Apps : app[x].status \in Decision => app[x].reviewer \in Reviewers

LEMMA SignedStep == ASSUME AppInv, DecisionsSigned, [Next]_vars PROVE DecisionsSigned'
<1>0. app \in [Apps -> Row]
  BY DEF AppInv, TypeOK
<1>1. CASE UNCHANGED <<app, asked>>
  BY <1>1 DEF DecisionsSigned
<1>2. ASSUME NEW s \in Submitters, NEW x \in Apps, Insert(s, x) PROVE DecisionsSigned'
  BY <1>0, <1>2 DEF Insert, NewRow, DecisionsSigned, Decision
<1>3. ASSUME NEW u \in Users, NEW x \in Apps, Confirm(u, x) PROVE DecisionsSigned'
  BY <1>0, <1>3 DEF Confirm, DecisionsSigned, Decision, Row
<1>4. ASSUME NEW v \in Reviewers, Decide(v) PROVE DecisionsSigned'
  <2>1. review[v].app \in Apps
    BY <1>4, ReviewTyped DEF AppInv, Decide, ReviewAt
  <2>2. \A x \in Apps : \/ app'[x].status = app[x].status /\ app'[x].reviewer = app[x].reviewer
                       \/ app'[x].reviewer = v
    BY <1>0, <1>4, <2>1 DEF Decide, Row
  <2> QED
    BY <2>2 DEF DecisionsSigned
<1> QED
  BY <1>1, <1>2, <1>3, <1>4, StepOnTable DEF TableStep

\* No application is approved or rejected without the name of an administrator:
\* reviewed_by_user_id may be NULL only while the decision is open.
THEOREM DecisionsAreSigned == Spec => []DecisionsSigned
<1>1. Init => DecisionsSigned
  <2> SUFFICES ASSUME Init, NEW x \in Apps PROVE app[x].status \notin Decision
    BY DEF DecisionsSigned
  <2>1. app[x].status = "NONE"
    BY DEF Init, NoRow
  <2> QED
    BY <2>1 DEF Decision
<1>2. AppInv /\ DecisionsSigned /\ [Next]_vars => DecisionsSigned'
  BY SignedStep
<1> QED
  BY <1>1, <1>2, ApplicationInvariant, PTL DEF Spec

\* What a customer filed is what an administrator decides on, and a decision is
\* final: no step changes the customer, order, request or amount of a row, and none
\* touches a decided one.
THEOREM RowsStand == Spec => [][RowsKept]_vars
<1>1. AppInv /\ [Next]_vars => [RowsKept]_vars
  BY TableKept
<1> QED
  BY <1>1, ApplicationInvariant, PTL DEF Spec

\* If requests carry whole cents, a retry of the same request is never refused.
THEOREM RetriesAccepted ==
  ASSUME \A a \in Amounts : ToCents(a) = a
  PROVE  Spec => []ConflictMeansDifferent
<1>1. AppInv => ConflictMeansDifferent
  <2> SUFFICES ASSUME AppInv, NEW s \in Submitters, AtStep(s, "conflict")
               PROVE  \E x \in Apps :
                        /\ Exists(x) /\ app[x].user = Customer(s)
                        /\ app[x].request = submission[s].request
                        /\ \/ app[x].order # submission[s].order
                           \/ asked[x] # submission[s].amount
    BY DEF ConflictMeansDifferent
  <2>1. RequestDiffers(s)
    BY DEF AppInv, RefusalInv
  <2>2. \A x \in Apps : Exists(x) => app[x].amount = asked[x]
    BY DEF AppInv, RowInv
  <2> QED
    BY <2>1, <2>2 DEF RequestDiffers, Matches
<1> QED
  BY <1>1, ApplicationInvariant, PTL

-----------------------------------------------------------------------------
(* The refinement.                                                          *)

OpenCase(x) ==
  [stage |-> StageOf(app[x].status), app |-> x, amount |-> app[x].amount]

\* The case of an order is its only open application.
CaseFacts == \A o \in Orders :
  /\ OpenFor(o) = {} => CaseOf(o) = Cases!NoCase
  /\ \A x \in OpenFor(o) : CaseOf(o) = OpenCase(x)

LEMMA CaseFactsHold == AppInv => CaseFacts
<1> SUFFICES ASSUME AppInv, NEW o \in Orders
             PROVE  /\ OpenFor(o) = {} => CaseOf(o) = Cases!NoCase
                    /\ \A x \in OpenFor(o) : CaseOf(o) = OpenCase(x)
  BY DEF CaseFacts
<1>1. OpenFor(o) = {} => CaseOf(o) = Cases!NoCase
  BY DEF CaseOf, Cases!NoCase
<1>2. ASSUME NEW x \in OpenFor(o) PROVE CaseOf(o) = OpenCase(x)
  <2>1. \A y \in OpenFor(o) : y = x
    BY <1>2 DEF AppInv, OneOpenPerOrder, OpenFor
  <2>2. (CHOOSE y \in OpenFor(o) : TRUE) = x
    BY <1>2, <2>1
  <2> QED
    BY <1>2, <2>2 DEF CaseOf, OpenCase
<1> QED
  BY <1>1, <1>2

LEMMA CaseFactsNext == AppInv' => CaseFacts'
BY CaseFactsHold, PTL

\* An order none of whose applications changes keeps its case.
LEMMA OtherCasesKept ==
  ASSUME AppInv, AppInv', NEW x \in Apps, NEW o \in Orders,
         app[x].order # o \/ ~NonRejected(x), app'[x].order # o \/ ~NonRejected(x)',
         \A y \in Apps \ {x} : app'[y] = app[y]
  PROVE  CaseOf(o)' = CaseOf(o)
<1>1. OpenFor(o)' = OpenFor(o)
  BY DEF OpenFor, NonRejected
<1>2. CASE OpenFor(o) = {}
  BY <1>1, <1>2, CaseFactsHold, CaseFactsNext DEF CaseFacts, Cases!NoCase
<1>3. ASSUME NEW y \in OpenFor(o) PROVE CaseOf(o)' = CaseOf(o)
  <2>1. y \in Apps \ {x}
    BY DEF OpenFor
  <2>2. OpenCase(y)' = OpenCase(y)
    BY <2>1 DEF OpenCase, StageOf
  <2> QED
    BY <1>1, <2>2, CaseFactsHold, CaseFactsNext DEF CaseFacts
<1> QED
  BY <1>2, <1>3

\* The refinement mapping of a step that leaves the table alone.
LEMMA TableUnchanged ==
  ASSUME UNCHANGED app PROVE UNCHANGED Cases!caseVars
BY DEF Cases!caseVars, CaseOf, OpenFor, NonRejected, StageOf

RefusedApps == {x \in Apps : app[x].status = "REJECTED"}
CaseTable == [o \in Orders |-> CaseOf(o)]

LEMMA CaseStep ==
  ASSUME NEW o \in Orders, CaseTable'[o] # CaseTable[o],
         \/ \E x \in Apps : Cases!File(o, x)
         \/ Cases!Advance(o, "filed", "confirmed")
         \/ Cases!Advance(o, "confirmed", "approved")
         \/ Cases!Refuse(o)
  PROVE  Cases!CaseNext
BY Zenon DEF Cases!CaseNext, CaseTable

LEMMA InsertFiles ==
  ASSUME AppInv, AppInv', NEW s \in Submitters, NEW x \in Apps, Insert(s, x)
  PROVE  Cases!CaseNext
<1>a. /\ submission[s].order \in Orders /\ NewRow(s) \in Row
      /\ NewRow(s).order = submission[s].order
      /\ NewRow(s).amount <= Total[NewRow(s).order]
  BY SubmissionTyped, NewRowFits DEF Insert, AtStep, AppInv, NewRow
<1>o. PICK o \in Orders : o = submission[s].order
  BY <1>a
<1>b. PICK a \in Nat : a = NewRow(s).amount
  BY <1>a DEF Row
<1>1. /\ a <= Total[o] /\ NewRow(s).order = o
      /\ Total[o] \in Nat /\ Customer(s) = Owner[o]
  BY <1>a, <1>o, <1>b, AmountsAssumption DEF Customer
<1>2. /\ app'[x] = NewRow(s) /\ \A y \in Apps \ {x} : app'[y] = app[y]
      /\ app[x].status = "NONE" /\ app \in [Apps -> Row]
  BY DEF Insert, AppInv, TypeOK
<1>3. OpenFor(o) = {}
  BY <1>1, <1>o DEF OpenFor, Insert, TakenOrder, AppInv, RowInv, NonRejected, Exists
<1>4. x \in OpenFor(o)' /\ OpenCase(x)' = [stage |-> "filed", app |-> x, amount |-> a]
  <2>1. app'[x].order = o /\ app'[x].amount = a
        /\ app'[x].status = "AWAITING_CUSTOMER_CONFIRMATION"
    BY <1>1, <1>2, <1>b DEF NewRow
  <2> QED
    BY <2>1 DEF OpenFor, NonRejected, OpenCase, StageOf
<1>5. CaseOf(o) = Cases!NoCase /\ CaseOf(o)' = [stage |-> "filed", app |-> x, amount |-> a]
  BY <1>1, <1>3, <1>4, CaseFactsHold, CaseFactsNext DEF CaseFacts
<1>6. \A p \in Orders \ {o} : CaseOf(p)' = CaseOf(p)
  <2> SUFFICES ASSUME NEW p \in Orders \ {o} PROVE CaseOf(p)' = CaseOf(p)
    OBVIOUS
  <2>1. ~NonRejected(x) /\ app'[x].order # p
    BY <1>1, <1>2 DEF NonRejected
  <2> QED
    BY <1>2, <2>1, OtherCasesKept
<1>7. CaseTable' = [CaseTable EXCEPT ![o] = [stage |-> "filed", app |-> x, amount |-> a]]
  BY <1>1, <1>5, <1>6 DEF CaseTable
<1>8. RefusedApps' = RefusedApps /\ x \notin RefusedApps
  BY <1>2 DEF RefusedApps, NewRow
<1>9. \A p \in Orders : CaseTable[p] # Cases!NoCase => CaseTable[p].app # x
  <2> SUFFICES ASSUME NEW p \in Orders, CaseOf(p) # Cases!NoCase PROVE CaseOf(p).app # x
    BY DEF CaseTable
  <2>1. PICK y \in OpenFor(p) : CaseOf(p) = OpenCase(y)
    BY CaseFactsHold DEF CaseFacts
  <2>2. y # x
    BY <1>2, <2>1 DEF OpenFor, NonRejected
  <2> QED
    BY <2>1, <2>2 DEF OpenCase
<1>10. CaseTable[o] = Cases!NoCase
  BY <1>1, <1>5 DEF CaseTable
<1>11. a \in 0..Total[o]
  BY <1>1
<1>12. Cases!File(o, x)
  BY <1>7, <1>8, <1>9, <1>10, <1>11 DEF Cases!File, CaseTable, RefusedApps
<1>13. CaseTable'[o] # CaseTable[o]
  BY <1>5 DEF CaseTable, Cases!NoCase
<1> QED
  BY <1>12, <1>13, CaseStep

\* An open application whose status changes advances its case.
LEMMA StatusAdvances ==
  ASSUME AppInv, AppInv', NEW x \in Apps, NEW o \in Orders, app[x].order = o,
         NonRejected(x), NonRejected(x)',
         app'[x].order = app[x].order, app'[x].amount = app[x].amount,
         \A y \in Apps \ {x} : app'[y] = app[y]
  PROVE  /\ CaseTable[o] = OpenCase(x)
         /\ CaseTable' = [CaseTable EXCEPT ![o] =
              [stage |-> StageOf(app'[x].status), app |-> x, amount |-> app[x].amount]]
         /\ RefusedApps' = RefusedApps
<1>1. x \in OpenFor(o) /\ x \in OpenFor(o)'
  BY DEF OpenFor
<1>2. CaseOf(o) = OpenCase(x) /\ CaseOf(o)' = OpenCase(x)'
  BY <1>1, CaseFactsHold, CaseFactsNext DEF CaseFacts
<1>3. \A p \in Orders \ {o} : CaseOf(p)' = CaseOf(p)
  BY OtherCasesKept
<1>4. OpenCase(x)' =
        [stage |-> StageOf(app'[x].status), app |-> x, amount |-> app[x].amount]
  BY DEF OpenCase, StageOf
<1>5. RefusedApps' = RefusedApps
  BY DEF RefusedApps, NonRejected
<1> QED
  BY <1>2, <1>3, <1>4, <1>5 DEF CaseTable

\* An advanced case, in terms of its application and its amount.
LEMMA AdvanceSeen ==
  ASSUME NEW o \in Orders, NEW from, NEW to, NEW x, NEW k,
         CaseTable[o] = [stage |-> from, app |-> x, amount |-> k],
         CaseTable' = [CaseTable EXCEPT ![o] = [stage |-> to, app |-> x, amount |-> k]],
         RefusedApps' = RefusedApps
  PROVE  Cases!Advance(o, from, to)
<1>1. CaseTable[o].stage = from /\ CaseTable[o].app = x /\ CaseTable[o].amount = k
  OBVIOUS
<1>2. CaseTable' = [CaseTable EXCEPT ![o] =
        [stage |-> to, app |-> CaseTable[o].app, amount |-> CaseTable[o].amount]]
  BY <1>1
<1> QED
  BY <1>1, <1>2, Zenon DEF Cases!Advance, CaseTable, RefusedApps

LEMMA ConfirmAdvances ==
  ASSUME AppInv, AppInv', NEW u \in Users, NEW x \in Apps, Confirm(u, x)
  PROVE  Cases!CaseNext \/ UNCHANGED Cases!caseVars
<1>1. app[x] \in Row /\ app \in [Apps -> Row]
  BY DEF AppInv, TypeOK
<1>2. /\ app'[x].order = app[x].order /\ app'[x].amount = app[x].amount
      /\ app'[x].status = "PENDING_MANUAL_APPROVAL"
      /\ \A y \in Apps \ {x} : app'[y] = app[y]
  BY <1>1 DEF Confirm, Row
<1>3. PICK o \in Orders : o = app[x].order
  BY <1>1 DEF Row
<1>4. /\ app[x].status \in {"AWAITING_CUSTOMER_CONFIRMATION", "PENDING_MANUAL_APPROVAL"}
      /\ NonRejected(x) /\ NonRejected(x)'
  BY <1>2 DEF Confirm, Confirmable, NonRejected
<1>5. /\ CaseTable[o] = OpenCase(x)
      /\ CaseTable' = [CaseTable EXCEPT ![o] =
           [stage |-> "confirmed", app |-> x, amount |-> app[x].amount]]
      /\ RefusedApps' = RefusedApps
  BY <1>2, <1>3, <1>4, StatusAdvances DEF StageOf
<1>6. CASE app[x].status = "AWAITING_CUSTOMER_CONFIRMATION"
  <2>1. CaseTable[o] = [stage |-> "filed", app |-> x, amount |-> app[x].amount]
    BY <1>5, <1>6 DEF OpenCase, StageOf
  <2>k. PICK k \in Nat : k = app[x].amount
    BY <1>1 DEF Row
  <2>2. Cases!Advance(o, "filed", "confirmed")
    BY <1>5, <2>1, <2>k, AdvanceSeen
  <2>3. CaseTable[o].stage = "filed" /\ CaseTable'[o].stage = "confirmed"
    BY <1>3, <1>5, <2>1 DEF CaseTable
  <2>4. CaseTable'[o] # CaseTable[o]
    BY <2>3
  <2> QED
    BY <1>3, <2>2, <2>4, CaseStep, Zenon
<1>7. CASE app[x].status = "PENDING_MANUAL_APPROVAL"
  <2>1. app'[x] = app[x]
    BY <1>1, <1>7 DEF Confirm, Row
  <2>2. app' = app
    BY <1>1, <1>2, <2>1 DEF Confirm
  <2> QED
    BY <2>2, TableUnchanged
<1> QED
  BY <1>4, <1>6, <1>7

LEMMA DecideAdvances ==
  ASSUME AppInv, AppInv', NEW v \in Reviewers, Decide(v)
  PROVE  Cases!CaseNext \/ UNCHANGED Cases!caseVars
<1>1. app \in [Apps -> Row] /\ review[v].app \in Apps /\ review[v].decision \in Decision
  BY ReviewTyped DEF AppInv, TypeOK, Decide, ReviewAt
<1>2. CASE ~Reviewable(review[v].app)
  BY <1>2, TableUnchanged DEF Decide
<1>3. CASE Reviewable(review[v].app)
  <2>x. PICK x \in Apps : x = review[v].app
    BY <1>1
  <2>o. PICK o \in Orders : o = app[x].order
    BY <1>1 DEF Row
  <2>1. /\ app'[x].order = app[x].order /\ app'[x].amount = app[x].amount
        /\ app'[x].status = review[v].decision
        /\ \A y \in Apps \ {x} : app'[y] = app[y]
        /\ app[x].status = "PENDING_MANUAL_APPROVAL" /\ NonRejected(x)
    BY <1>1, <1>3, <2>x DEF Decide, Reviewable, NonRejected, Row
  <2>2. CASE review[v].decision = "APPROVED"
    <3>1. NonRejected(x)'
      BY <2>1, <2>2 DEF NonRejected
    <3>2. /\ CaseTable[o] = OpenCase(x)
          /\ CaseTable' = [CaseTable EXCEPT ![o] =
               [stage |-> "approved", app |-> x, amount |-> app[x].amount]]
          /\ RefusedApps' = RefusedApps
      BY <2>o, <2>1, <2>2, <3>1, StatusAdvances DEF StageOf
    <3>3. CaseTable[o] = [stage |-> "confirmed", app |-> x, amount |-> app[x].amount]
      BY <2>1, <3>2 DEF OpenCase, StageOf
    <3>k. PICK k \in Nat : k = app[x].amount
      BY <1>1 DEF Row
    <3>4. Cases!Advance(o, "confirmed", "approved")
      BY <3>2, <3>3, <3>k, AdvanceSeen
    <3>5. CaseTable[o].stage = "confirmed" /\ CaseTable'[o].stage = "approved"
      BY <2>o, <3>2, <3>3 DEF CaseTable
    <3>6. CaseTable'[o] # CaseTable[o]
      BY <3>5
    <3> QED
      BY <2>o, <3>4, <3>6, CaseStep, Zenon
  <2>3. CASE review[v].decision = "REJECTED"
    <3>1. ~NonRejected(x)'
      BY <2>1, <2>3 DEF NonRejected
    <3>2. x \in OpenFor(o)
      BY <2>o, <2>1 DEF OpenFor
    <3>3. CaseOf(o) = [stage |-> "confirmed", app |-> x, amount |-> app[x].amount]
      BY <2>1, <3>2, CaseFactsHold DEF CaseFacts, OpenCase, StageOf
    <3>4. OpenFor(o)' = {}
      <4>1. \A y \in Apps \ {x} : ~(NonRejected(y) /\ app[y].order = o)
        BY <2>o, <2>1 DEF AppInv, OneOpenPerOrder
      <4> QED
        BY <2>1, <3>1, <4>1 DEF OpenFor, NonRejected
    <3>5. CaseOf(o)' = Cases!NoCase
      BY <3>4, CaseFactsNext DEF CaseFacts, Cases!NoCase
    <3>6. \A p \in Orders \ {o} : CaseOf(p)' = CaseOf(p)
      BY <2>o, <2>1, <3>1, OtherCasesKept
    <3>7. CaseTable' = [CaseTable EXCEPT ![o] = Cases!NoCase]
      BY <3>5, <3>6 DEF CaseTable
    <3>8. RefusedApps' = RefusedApps \cup {x}
      BY <2>1, <2>3 DEF RefusedApps
    <3>9. /\ CaseTable[o] = [stage |-> "confirmed", app |-> x, amount |-> app[x].amount]
      BY <3>3 DEF CaseTable
    <3>10. Cases!Refuse(o)
      BY <3>7, <3>8, <3>9 DEF Cases!Refuse, CaseTable, RefusedApps
    <3>11. CaseTable'[o] # CaseTable[o]
      BY <3>3, <3>5 DEF CaseTable, Cases!NoCase
    <3> QED
      BY <2>o, <3>10, <3>11, CaseStep
  <2> QED
    BY <1>1, <2>2, <2>3 DEF Decision
<1> QED
  BY <1>2, <1>3

\* Refund applications implement RefundCases: submissions, retries, reads and lost
\* calls are invisible, everything else is one step of one order's case.
THEOREM CasesKept == Spec => KeepsCases
<1>1. Init => Cases!CaseInit
  <2> SUFFICES ASSUME Init PROVE Cases!CaseInit
    OBVIOUS
  <2>1. \A x \in Apps : app[x].status = "NONE"
    BY DEF Init, NoRow
  <2>2. \A o \in Orders : OpenFor(o) = {}
    BY <2>1 DEF OpenFor, NonRejected
  <2> QED
    BY <2>1, <2>2, InitInvariant, CaseFactsHold DEF CaseFacts, Cases!CaseInit
<1>2. AppInv /\ AppInv' /\ [Next]_vars => [Cases!CaseNext]_(Cases!caseVars)
  <2> SUFFICES ASSUME AppInv, AppInv', [Next]_vars
               PROVE  Cases!CaseNext \/ UNCHANGED Cases!caseVars
    OBVIOUS
  <2>1. CASE UNCHANGED <<app, asked>>
    BY <2>1, TableUnchanged
  <2>2. CASE \E s \in Submitters, x \in Apps : Insert(s, x)
    BY <2>2, InsertFiles
  <2>3. CASE \E u \in Users, x \in Apps : Confirm(u, x)
    BY <2>3, ConfirmAdvances
  <2>4. CASE \E v \in Reviewers : Decide(v)
    BY <2>4, DecideAdvances
  <2> QED
    BY <2>1, <2>2, <2>3, <2>4, StepOnTable DEF TableStep
<1> QED
  BY <1>1, <1>2, ApplicationInvariant, PTL DEF Spec, KeepsCases, Cases!CaseSpec
=============================================================================
