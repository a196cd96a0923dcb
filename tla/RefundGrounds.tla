--------------------------- MODULE RefundGrounds ---------------------------
(***************************************************************************)
(* On what grounds an administrator may have a missing refund sent again.  *)
(* RefundExecution with one history variable: the error codes its finished *)
(* lookups recorded in the current round of attempts.                      *)
(***************************************************************************)
EXTENDS RefundExecution

VARIABLE answers  \* history: codes of the lookups finished since the round began

GroundsInit == Init /\ answers = [a \in Apps |-> {}]

\* A round begins when the job is opened, resumed or resubmitted; a finish that
\* defers the job adds the code it writes to last_error_code.
AnswersAfter(a) ==
  IF job'[a].attempts = 0 \/ licences'[a] > licences[a] THEN {}
  ELSE answers[a] \cup
         {code \in {job'[a].code} : /\ job[a].status = "LEASED"
                                    /\ job'[a].status \in {"READY", "MANUAL_REQUIRED"}
                                    /\ code # "ATTEMPTS_EXHAUSTED"}

GroundsNext == Next /\ answers' = [a \in Apps |-> AnswersAfter(a)]

GroundsSpec == GroundsInit /\ [][GroundsNext]_<<vars, answers>>

\* resubmit_missing_refund's docstring and the runbook: only a refund whose
\* lookups are used up and that was NOT_FOUND throughout may be resubmitted.
PersistentlyNotFound ==
  \A a \in Apps : Resubmittable(a) => answers[a] = {"NOT_FOUND"}
=============================================================================
