----------------------------- MODULE MCSession -----------------------------
(* Two tabs of one browser. *)
EXTENDS SessionProperties, TLC

CONSTANTS p1, p2, r1, r2

MCPageOf == r1 :> p1 @@ r2 :> p1
=============================================================================
