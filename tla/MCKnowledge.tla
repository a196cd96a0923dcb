----------------------------- MODULE MCKnowledge -----------------------------
(***************************************************************************)
(* The model-checking instance of the knowledge base.                      *)
(***************************************************************************)
EXTENDS KnowledgeProperties, TLC
CONSTANTS u1, u2, f1, f2, m1, m2

MCRoleOf == u1 :> "CUSTOMER" @@ u2 :> "SUPPORT"

Imported(f, visibility, model, rebuild) ==
  [files |-> {f}, visibility |-> visibility, model |-> model, rebuild |-> rebuild]

MCBatches ==
  {Imported(f1, "PUBLIC", m1, FALSE), Imported(f2, "SUPPORT", m1, FALSE),
   Imported(f1, "SUPPORT", m2, TRUE)}
=============================================================================
