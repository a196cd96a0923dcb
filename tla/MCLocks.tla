------------------------------ MODULE MCLocks -------------------------------
(***************************************************************************)
(* Model-checking instance: transactions are interchangeable.              *)
(***************************************************************************)
EXTENDS RefundLocks, TLC

TransactionSymmetry == Permutations(Transactions)
=============================================================================
