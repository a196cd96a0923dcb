----------------------------- MODULE RefundCases -----------------------------
(***************************************************************************)
(* What applying for a refund promises, without requests, retries, indexes *)
(* or reads: an order has at most one open case; the amount its customer   *)
(* confirms is the one that was filed, fits the order, and is the one an   *)
(* administrator decides on; a refusal ends the case for good and makes    *)
(* room for another; an approval stands.                                   *)
(***************************************************************************)
EXTENDS Integers

CONSTANTS Orders, Total, Apps

VARIABLES
  case,     \* of each order: the open case and its stage, or NoCase
  refused   \* the applications that were refused

caseVars == <<case, refused>>

NoCase == [stage |-> "none"]

CaseInit == case = [o \in Orders |-> NoCase] /\ refused = {}

File(o, x) ==
  /\ case[o] = NoCase
  /\ x \notin refused /\ \A p \in Orders : case[p] # NoCase => case[p].app # x
  /\ \E a \in 0..Total[o] :
       case' = [case EXCEPT ![o] = [stage |-> "filed", app |-> x, amount |-> a]]
  /\ UNCHANGED refused

Advance(o, from, to) ==
  /\ case[o].stage = from
  /\ case' = [case EXCEPT ![o] = [stage |-> to, app |-> case[o].app,
                                  amount |-> case[o].amount]]
  /\ UNCHANGED refused

Refuse(o) ==
  /\ case[o].stage = "confirmed"
  /\ refused' = refused \cup {case[o].app}
  /\ case' = [case EXCEPT ![o] = NoCase]

\* Each step is one of a single order's case.
CaseNext == \E o \in Orders :
  /\ case'[o] # case[o]
  /\ \/ \E x \in Apps : File(o, x)
     \/ Advance(o, "filed", "confirmed") \/ Advance(o, "confirmed", "approved")
     \/ Refuse(o)

CaseSpec == CaseInit /\ [][CaseNext]_caseVars
=============================================================================
