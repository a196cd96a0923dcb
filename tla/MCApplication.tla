---------------------------- MODULE MCApplication ----------------------------
(***************************************************************************)
(* The model-checking instances of the refund applications: orders of two  *)
(* cents each and of one customer, which are interchangeable.              *)
(***************************************************************************)
EXTENDS ApplicationProperties, TLC

CONSTANT u1

OneOwner == [o \in Orders |-> u1]
TwoCents == [o \in Orders |-> 2 * Cent]

Ids == Permutations(Apps) \cup Permutations(Submitters) \cup Permutations(Reviewers)
         \cup Permutations(Requests) \cup Permutations(Orders)
=============================================================================
