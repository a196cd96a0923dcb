------------------------------ MODULE MCRefund ------------------------------
(***************************************************************************)
(* Model-checking instance: call slots of one kind are interchangeable.    *)
(***************************************************************************)
EXTENDS RefundProperties, TLC

SlotSymmetry == Permutations(Requests) \cup Permutations(Workers)
=============================================================================
