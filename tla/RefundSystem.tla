---------------------------- MODULE RefundSystem ----------------------------
(***************************************************************************)
(* Applications and executions together, as one database: RefundExecution  *)
(* beside RefundApplications.  Its column "application" is the status of   *)
(* the rows of "app", and a step belongs to one of the two.                *)
(*                                                                         *)
(* What RefundRecords leaves out is put back: the amount copied into       *)
(* refund_executions, the order, user and amount a call holds in memory,   *)
(* and those that reach the provider.                                      *)
(***************************************************************************)
EXTENDS Integers, RefundProperties

CONSTANTS
  Orders, Owner, Total, RefundableOrders, RequestIds, Amounts, NoApp,
  Submitters, Reviewers, NoReviewer  \* as in RefundApplications

VARIABLES
  app, asked, submission, review,    \* of RefundApplications
  due,      \* refund_executions.amount
  inhand,   \* per call: the order, user and amount it will ask for
  sent      \* history: what POST /refunds requests asked for, per application

Applications == INSTANCE ApplicationProofs WITH Requests <- RequestIds

SystemConstants ==
  /\ Orders # {} /\ RequestIds # {} /\ RefundableOrders \subseteq Orders
  /\ Amounts \subseteq Int /\ Total \in [Orders -> Nat]
  /\ \A o \in Orders : Total[o] % Applications!Cent = 0
  /\ NoApp \notin Apps /\ NoReviewer \notin Reviewers

applicationVars == <<app, asked, submission, review>>
payloadVars == <<due, inhand, sent>>
systemVars == <<vars, applicationVars, payloadVars>>

-----------------------------------------------------------------------------
(* The shared column.                                                       *)

\* No execution looks at an application before an administrator decides on it.
StatusOf(x) ==
  IF app[x].status \in {"APPROVED", "REJECTED"} THEN app[x].status
                                                ELSE "PENDING_MANUAL_APPROVAL"

SharedColumn == application = [x \in Apps |-> StatusOf(x)]

-----------------------------------------------------------------------------
(* What is asked of the provider.                                           *)

Payload(x) == [order |-> app[x].order, user |-> app[x].user, amount |-> app[x].amount]
Unread(x) == [order |-> app[x].order, user |-> app[x].user, amount |-> 0]

\* INSERT INTO refund_executions ... SELECT requested_amount.
Copied ==
  due' = [x \in Apps |->
    IF exec[x].status = "NONE" /\ exec'[x].status # "NONE" THEN app[x].amount ELSE due[x]]

Begins(c, op) == At(c, "idle") /\ call'[c].op = op

\* execute reads the application first and the execution later, a resubmission
\* reads both in one statement.
HeldAfter(c) ==
  LET x == call'[c].app IN
  CASE Begins(c, "execute")  -> Unread(x)
    [] Begins(c, "resubmit") -> [Unread(x) EXCEPT !.amount = due[x]]
    [] At(c, "fetch") /\ call'[c].pc = "claim" ->
         [inhand[c] EXCEPT !.amount = due[call[c].app]]
    [] OTHER -> inhand[c]

Held == inhand' = [c \in Calls |-> HeldAfter(c)]

Sends(c, x) ==
  At(c, "post") /\ call[c].app = x /\ call'[c].pc # "post" /\ posts'[x] # posts[x]

Carried ==
  sent' = [x \in Apps |-> sent[x] \cup {inhand[c] : c \in {d \in Calls : Sends(d, x)}}]

-----------------------------------------------------------------------------
SystemInit ==
  /\ Init /\ Applications!Init
  /\ due = [x \in Apps |-> 0]
  /\ inhand = [c \in Calls |-> Unread(SomeApp)]
  /\ sent = [x \in Apps |-> {}]

ApplicationStep ==
  /\ Applications!Next
  /\ application' = [x \in Apps |-> StatusOf(x)']
  /\ UNCHANGED <<sandboxVars, exec, job, received, disputed, call, posts, licences, payloadVars>>

ExecutionStep ==
  /\ Next
  /\ UNCHANGED <<application, applicationVars>>
  /\ Copied /\ Held /\ Carried

SystemNext == ApplicationStep \/ ExecutionStep

SystemSpec == SystemInit /\ [][SystemNext]_systemVars

-----------------------------------------------------------------------------
(* What the whole promises.                                                 *)

Asked(x) == sent[x] # {} \/ provider[x].status # "NONE"

\* Whoever submits, retries, dies or resubmits, every request for an application
\* carries the order, customer and amount of its row: the sandbox's answer 409, "the
\* same key with another content", never comes.
OnePayload == \A x \in Apps : sent[x] \subseteq {Payload(x)}

\* The provider is asked for money only with the decision of an administrator, for
\* at most the total of the order, to the order's owner.
AskedWithinOrder ==
  \A x \in Apps : Asked(x) =>
    /\ app[x].status = "APPROVED" /\ app[x].reviewer \in Reviewers
    /\ app[x].user = Owner[app[x].order] /\ app[x].amount <= Total[app[x].order]

\* Of all applications there are and ever were for an order, the provider is asked
\* to pay for one at most: retries, rejected predecessors and refused conflicts
\* never add up.
OnePaymentPerOrder ==
  \A x, y \in Apps : Asked(x) /\ Asked(y) /\ app[x].order = app[y].order => x = y

\* Once the provider has been asked, neither the application nor the amount due
\* changes: what RefundRecords leaves out is constant.
AskedStaysFrozen ==
  [][\A x \in Apps : Asked(x) => app'[x] = app[x] /\ due'[x] = due[x]]_systemVars

-----------------------------------------------------------------------------
(* The inductive invariant.                                                 *)

Payloads == [order : Orders, user : Applications!Users, amount : Nat]

\* A call holds what the rows say as soon as it has read them.
HandInv(c) ==
  LET x == call[c].app IN
  /\ call[c].pc \in {"create", "fetch"} => call[c].op = "execute" /\ inhand[c] = Unread(x)
  /\ call[c].pc = "fetch" => exec[x].status # "NONE"
  /\ call[c].pc \in {"claim", "post"} \/ call[c].op = "resubmit" => inhand[c] = Payload(x)

\* What was copied from an approved application, read by a call or asked of the
\* provider agrees with its row.
PayloadInv ==
  /\ due \in [Apps -> Nat] /\ inhand \in [Calls -> Payloads]
  /\ \A x \in Apps : exec[x].status # "NONE" => due[x] = app[x].amount
  /\ \A c \in Calls : HandInv(c)
  /\ \A x \in Apps : sent[x] # {} => Submitted(x)
  /\ OnePayload

SystemInv == ExecutionInv /\ Applications!AppInv /\ SharedColumn /\ PayloadInv
=============================================================================
