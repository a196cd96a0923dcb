----------------------- MODULE ApplicationProperties -----------------------
(***************************************************************************)
(* What refund applications must guarantee, and how they implement         *)
(* RefundCases.                                                            *)
(***************************************************************************)
EXTENDS RefundApplications

\* However submissions, confirmations and refusals interleave, an order never has
\* two applications that are not rejected, and a request id names one application
\* of its user: a rejected application does not come back behind its successor.
OneOpenPerOrder ==
  \A x, y \in Apps : x # y =>
    /\ ~(NonRejected(x) /\ NonRejected(y) /\ app[x].order = app[y].order)
    /\ ~(Exists(x) /\ Exists(y) /\ app[x].request = app[y].request
           /\ app[x].user = app[y].user)

ReplyStands(s) ==
  LET call == submission[s]
      row  == app[call.app]
  IN  call.pc \in {"created", "original", "open"} =>
        /\ call.app \in Apps /\ Exists(call.app)
        /\ row.user = Customer(s) /\ row.order = call.order
        /\ call.pc = "created" => asked[call.app] = call.amount
        /\ call.pc # "open" => row.request = call.request
        /\ call.pc = "original" => row.amount = call.amount

\* What a submission was told stays true: the application it was told about is
\* its customer's, for its order; a created one was made from this very request;
\* one found by the request id asks for the same amount.
RepliesStand == \A s \in Submitters : ReplyStands(s)

\* A request id is refused only when its user has used it for something else: a
\* retry of the same request is never answered with a conflict.
ConflictMeansDifferent ==
  \A s \in Submitters : AtStep(s, "conflict") =>
    \E x \in Apps :
      /\ Exists(x) /\ app[x].user = Customer(s)
      /\ app[x].request = submission[s].request
      /\ \/ app[x].order # submission[s].order
         \/ asked[x] # submission[s].amount

RejectedFor(s) ==
  \E x \in Apps : app[x].status = "REJECTED" /\ app[x].order = submission[s].order

\* A submission that finds neither its request nor an open application has met
\* one that was rejected in between.
LostOnlyToRejection ==
  \A s \in Submitters : AtStep(s, "unavailable") => RejectedFor(s)

RulingStands(v) ==
  /\ review[v].pc \in {"decided", "repeated"} =>
       app[review[v].app].status = review[v].decision
  /\ review[v].pc \in {"won", "decided"} => app[review[v].app].reviewer = v

\* What a reviewer was told stays true: the row shows the decision for ever, the
\* reviewer who won is the one recorded, so that two winners are impossible.
RulingsStand == \A v \in Reviewers : RulingStands(v)

-----------------------------------------------------------------------------
(* The inductive invariant.                                                 *)

\* What the row of an application says of its customer, order and request.
RowInv(x) ==
  Exists(x) =>
    /\ app[x].user = Owner[app[x].order] /\ app[x].amount <= Total[app[x].order]
    /\ asked[x] \in Amounts /\ app[x].amount = ToCents(asked[x])

OrderKnown(s) ==
  \E x \in Apps : /\ Exists(x) /\ app[x].user = Customer(s)
                  /\ app[x].order = submission[s].order

RequestKnown(s) ==
  \E x \in Apps : /\ Exists(x) /\ app[x].user = Customer(s)
                  /\ app[x].request = submission[s].request

RequestDiffers(s) ==
  \E x \in Apps : /\ Exists(x) /\ app[x].user = Customer(s)
                  /\ app[x].request = submission[s].request
                  /\ ~Matches(x, s)

\* A refused INSERT has met a row that is still there, if rejected meanwhile.
RefusalInv(s) ==
  /\ AtStep(s, "insert") => Eligible(submission[s].order, submission[s].amount)
  /\ AtStep(s, "by_request") => RequestKnown(s) \/ OrderKnown(s)
  /\ AtStep(s, "by_order") => OrderKnown(s)
  /\ AtStep(s, "conflict") => RequestDiffers(s)

ReviewsKnown(v) == review[v].pc # "idle" => Exists(review[v].app)

\* A reviewer who won has decided before the answer is read.
WinnerKnown(v) ==
  ReviewAt(v, "won") => app[review[v].app].status = review[v].decision

\* What OneOpenPerOrder, RepliesStand and RulingsStand rest on.
AppInv ==
  /\ TypeOK /\ OneOpenPerOrder
  /\ \A x \in Apps : RowInv(x)
  /\ RepliesStand /\ LostOnlyToRejection
  /\ \A s \in Submitters : RefusalInv(s)
  /\ RulingsStand
  /\ \A v \in Reviewers : ReviewsKnown(v) /\ WinnerKnown(v)

-----------------------------------------------------------------------------
(* The refinement: the open application of an order is its case.            *)

OpenFor(o) == {x \in Apps : NonRejected(x) /\ app[x].order = o}

StageOf(status) ==
  CASE status = "AWAITING_CUSTOMER_CONFIRMATION" -> "filed"
    [] status = "PENDING_MANUAL_APPROVAL"        -> "confirmed"
    [] OTHER                                     -> "approved"

CaseOf(o) ==
  IF OpenFor(o) = {} THEN [stage |-> "none"]
  ELSE LET x == CHOOSE x \in OpenFor(o) : TRUE IN
       [stage |-> StageOf(app[x].status), app |-> x, amount |-> app[x].amount]

Cases == INSTANCE RefundCases WITH
  case <- [o \in Orders |-> CaseOf(o)],
  refused <- {x \in Apps : app[x].status = "REJECTED"}

\* Every step of a submission, confirmation or review is one step of its order's
\* case, or invisible.
KeepsCases == Cases!CaseSpec
=============================================================================
