----------------------------- MODULE MCIngestion -----------------------------
(***************************************************************************)
(* The model-checking instance of the import queue.  Attempt ids, callers  *)
(* and publishers are interchangeable.                                     *)
(***************************************************************************)
EXTENDS IngestionProperties, TLC

Slots == Permutations(Attempts) \cup Permutations(Callers)
           \cup Permutations(Publishers)
=============================================================================
