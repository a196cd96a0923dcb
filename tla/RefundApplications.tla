------------------------- MODULE RefundApplications -------------------------
(***************************************************************************)
(* Refund applications, from the customer's submission to the decision of  *)
(* an administrator.  A submission is one INSERT that two unique indexes   *)
(* may refuse, and up to two reads that explain the refusal; a review is   *)
(* one conditional UPDATE and one read.  Each is a transaction of its own. *)
(*                                                                         *)
(* What a call answers stays in its slot until the slot is used again, so  *)
(* that invariants can speak of answers long after they were given.        *)
(*                                                                         *)
(* Amounts are in tenths of a cent: a request may carry any decimal, the   *)
(* column is DECIMAL(12,2).                                                *)
(***************************************************************************)
EXTENDS Integers

CONSTANTS
  Orders, Owner, Total,  \* orders, the user and the total amount of each
  RefundableOrders,      \* those PAID, SHIPPED or DELIVERED
  Requests,              \* request ids, chosen by the customers' browsers
  Amounts,               \* amounts a request may carry
  Apps,                  \* application ids (uuid4)
  NoApp,                 \* no application in an answer
  Submitters,            \* slots for submissions
  Reviewers,             \* slots for reviews, one administrator each
  NoReviewer             \* a NULL reviewed_by_user_id

Cent == 10

ASSUME OrdersAssumption ==
  Orders # {} /\ Requests # {} /\ RefundableOrders \subseteq Orders
ASSUME AmountsAssumption ==
  Amounts \subseteq Int /\ Total \in [Orders -> Nat]
    /\ \A o \in Orders : Total[o] % Cent = 0
ASSUME NullsAssumption == NoApp \notin Apps /\ NoReviewer \notin Reviewers

Users == {Owner[o] : o \in Orders}

VARIABLES
  app,        \* refund_applications, and rows that do not exist yet
  asked,      \* history: the amount the creating request carried
  submission, \* per submitter: what it asks, where it is, what it answered
  review      \* per reviewer, the same

vars == <<app, asked, submission, review>>

Decision == {"APPROVED", "REJECTED"}
Status == {"NONE", "AWAITING_CUSTOMER_CONFIRMATION",
           "PENDING_MANUAL_APPROVAL"} \cup Decision

NoRow == [status |-> "NONE", user |-> Owner[CHOOSE o \in Orders : TRUE],
          order |-> CHOOSE o \in Orders : TRUE,
          request |-> CHOOSE r \in Requests : TRUE,
          amount |-> 0, reviewer |-> NoReviewer]
Row == [status : Status, user : Users, order : Orders, request : Requests,
        amount : Nat, reviewer : Reviewers \cup {NoReviewer}]

Answered == {"created", "original", "open", "conflict", "unavailable"}
SubmissionStep == {"insert", "by_request", "by_order"}
NoSubmission == [pc |-> "idle"]
Submission == {NoSubmission} \cup
  [pc : SubmissionStep \cup Answered, order : Orders, request : Requests,
   amount : Amounts, app : Apps \cup {NoApp}]

NoReview == [pc |-> "idle"]
Review == {NoReview} \cup
  [pc : {"update", "won", "lost", "decided", "repeated", "conflict"},
   app : Apps, decision : Decision]

\* Rows, submissions and reviews are what the schema and the routes allow; the
\* stored amounts are whole cents.
TypeOK ==
  /\ app \in [Apps -> Row]
  /\ \A x \in Apps : app[x].amount % Cent = 0
  /\ asked \in [Apps -> Int]
  /\ submission \in [Submitters -> Submission]
  /\ review \in [Reviewers -> Review]

Init ==
  /\ app = [x \in Apps |-> NoRow]
  /\ asked = [x \in Apps |-> 0]
  /\ submission = [s \in Submitters |-> NoSubmission]
  /\ review = [v \in Reviewers |-> NoReview]

Exists(x) == app[x].status # "NONE"
NonRejected(x) == app[x].status \notin {"NONE", "REJECTED"}

-----------------------------------------------------------------------------
(* Submission.                                                              *)

AtStep(s, pc) == submission[s].pc = pc

\* The routes load the order by its owner, so that the customer is its user.
Customer(s) == Owner[submission[s].order]

GoToStep(s, pc) == submission' = [submission EXCEPT ![s].pc = pc]
Answer(s, pc, x) ==
  submission' = [submission EXCEPT ![s].pc = pc, ![s].app = x]

\* Mutant: the amount is not compared with the order's total.
EligibleAbove(o, a) == a > 0 /\ o \in RefundableOrders

\* assess_refund, on an order of one's own in its currency.
Eligible(o, a) == a > 0 /\ a <= Total[o] /\ o \in RefundableOrders

StartSubmission(s, o, r, a) ==
  /\ submission[s].pc \notin SubmissionStep
  /\ Eligible(o, a)
  /\ submission' = [submission EXCEPT ![s] =
       [pc |-> "insert", order |-> o, request |-> r, amount |-> a, app |-> NoApp]]
  /\ UNCHANGED <<app, asked, review>>

\* DECIMAL(12,2) rounds to whole cents, halves up (all amounts are positive).
ToCents(a) == ((a + Cent \div 2) \div Cent) * Cent

FoundByRequest(u, r) ==
  {x \in Apps : Exists(x) /\ app[x].user = u /\ app[x].request = r}

\* The two unique indexes that can refuse an INSERT.
TakenRequest(u, r) ==
  \E x \in Apps : Exists(x) /\ app[x].user = u /\ app[x].request = r
TakenOrder(u, o) ==
  \E x \in Apps : NonRejected(x) /\ app[x].user = u /\ app[x].order = o

NewRow(s) ==
  [status |-> "AWAITING_CUSTOMER_CONFIRMATION", user |-> Customer(s),
   order |-> submission[s].order, request |-> submission[s].request,
   amount |-> ToCents(submission[s].amount), reviewer |-> NoReviewer]

\* try_create_refund_application.
Insert(s, x) ==
  /\ AtStep(s, "insert")
  /\ app[x].status = "NONE"
  /\ ~TakenRequest(Customer(s), submission[s].request)
  /\ ~TakenOrder(Customer(s), submission[s].order)
  /\ app' = [app EXCEPT ![x] = NewRow(s)]
  /\ asked' = [asked EXCEPT ![x] = submission[s].amount]
  /\ Answer(s, "created", x)
  /\ UNCHANGED review

\* ON CONFLICT DO NOTHING
InsertRefused(s) ==
  /\ AtStep(s, "insert")
  /\ \/ TakenRequest(Customer(s), submission[s].request)
     \/ TakenOrder(Customer(s), submission[s].order)
  /\ GoToStep(s, "by_request")
  /\ UNCHANGED <<app, asked, review>>

\* Mutant: only the amounts are compared.
MatchesAmount(x, s) == app[x].amount = submission[s].amount

\* matches_existing_refund_application: the stored row against the request.
Matches(x, s) ==
  app[x].order = submission[s].order /\ app[x].amount = submission[s].amount

ReadByRequest(s) ==
  LET found == FoundByRequest(Customer(s), submission[s].request) IN
  /\ AtStep(s, "by_request")
  /\ \/ \E x \in found : IF Matches(x, s) THEN Answer(s, "original", x)
                                          ELSE GoToStep(s, "conflict")
     \/ found = {} /\ GoToStep(s, "by_order")
  /\ UNCHANGED <<app, asked, review>>

\* Mutant: an approved application no longer counts.
FoundUndecided(u, o) ==
  {x \in Apps : Exists(x) /\ app[x].status \notin Decision
                  /\ app[x].user = u /\ app[x].order = o}

FoundByOrder(u, o) ==
  {x \in Apps : NonRejected(x) /\ app[x].user = u /\ app[x].order = o}

\* The application found is answered as it is: a second submission for an order
\* is told about the first one, whatever it asked for itself.
ReadByOrder(s) ==
  LET found == FoundByOrder(Customer(s), submission[s].order) IN
  /\ AtStep(s, "by_order")
  /\ \/ \E x \in found : Answer(s, "open", x)
     \/ found = {} /\ GoToStep(s, "unavailable")
  /\ UNCHANGED <<app, asked, review>>

\* The process stops or a statement fails.
SubmissionLost(s) ==
  /\ submission[s].pc \in SubmissionStep
  /\ submission' = [submission EXCEPT ![s] = NoSubmission]
  /\ UNCHANGED <<app, asked, review>>

-----------------------------------------------------------------------------
(* Confirmation and review.                                                 *)

\* Mutant: the UPDATE does not look at the status.
ConfirmableAlways(u, x) == Exists(x) /\ app[x].user = u

Confirmable(u, x) ==
  /\ app[x].user = u
  /\ app[x].status \in {"AWAITING_CUSTOMER_CONFIRMATION", "PENDING_MANUAL_APPROVAL"}

\* confirm_refund_application: asking again changes nothing.
Confirm(u, x) ==
  /\ Confirmable(u, x)
  /\ app' = [app EXCEPT ![x].status = "PENDING_MANUAL_APPROVAL"]
  /\ UNCHANGED <<asked, submission, review>>

ReviewAt(v, pc) == review[v].pc = pc
ReviewGoesTo(v, pc) == review' = [review EXCEPT ![v].pc = pc]

StartReview(v, x, d) ==
  /\ review[v].pc \notin {"update", "won", "lost"}
  /\ Exists(x)
  /\ review' = [review EXCEPT ![v] = [pc |-> "update", app |-> x, decision |-> d]]
  /\ UNCHANGED <<app, asked, submission>>

\* Mutant: the UPDATE does not look at the status.
ReviewableAlways(x) == Exists(x)

\* Mutant: nobody waits for the customer.
ReviewableUnconfirmed(x) ==
  app[x].status \in {"AWAITING_CUSTOMER_CONFIRMATION", "PENDING_MANUAL_APPROVAL"}

Reviewable(x) == app[x].status = "PENDING_MANUAL_APPROVAL"

\* try_review_refund_application.
Decide(v) ==
  LET x == review[v].app IN
  /\ ReviewAt(v, "update")
  /\ IF Reviewable(x)
       THEN /\ app' = [app EXCEPT ![x].status = review[v].decision,
                                  ![x].reviewer = v]
            /\ ReviewGoesTo(v, "won")
       ELSE UNCHANGED app /\ ReviewGoesTo(v, "lost")
  /\ UNCHANGED <<asked, submission>>

\* fetch_refund_application_by_id: the answer tells what the row says now.
ReadDecision(v) ==
  LET status == app[review[v].app].status IN
  /\ \/ ReviewAt(v, "won") /\ ReviewGoesTo(v, "decided")
     \/ /\ ReviewAt(v, "lost")
        /\ IF status = review[v].decision THEN ReviewGoesTo(v, "repeated")
                                          ELSE ReviewGoesTo(v, "conflict")
  /\ UNCHANGED <<app, asked, submission>>

ReviewLost(v) ==
  /\ review[v].pc \in {"update", "won", "lost"}
  /\ review' = [review EXCEPT ![v] = NoReview]
  /\ UNCHANGED <<app, asked, submission>>

-----------------------------------------------------------------------------
SubmitterStep(s) ==
  \/ \E o \in Orders, r \in Requests, a \in Amounts : StartSubmission(s, o, r, a)
  \/ \E x \in Apps : Insert(s, x)
  \/ InsertRefused(s) \/ ReadByRequest(s) \/ ReadByOrder(s) \/ SubmissionLost(s)

ReviewerStep(v) ==
  \/ \E x \in Apps, d \in Decision : StartReview(v, x, d)
  \/ Decide(v) \/ ReadDecision(v) \/ ReviewLost(v)

Next ==
  \/ \E s \in Submitters : SubmitterStep(s)
  \/ \E u \in Users, x \in Apps : Confirm(u, x)
  \/ \E v \in Reviewers : ReviewerStep(v)

Spec == Init /\ [][Next]_vars
=============================================================================
