------------------------------- MODULE MCChat -------------------------------
(***************************************************************************)
(* The model-checking instance of a chat thread.                           *)
(***************************************************************************)
EXTENDS ChatProperties
=============================================================================
