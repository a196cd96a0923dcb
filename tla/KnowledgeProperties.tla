------------------------- MODULE KnowledgeProperties -------------------------
(***************************************************************************)
(* What the knowledge base, its cache and the rate limit must guarantee    *)
(* while imports and searches overlap, die and lose Redis.                 *)
(***************************************************************************)
EXTENDS KnowledgeSearch

\* The vectors in the table come from one embedding model, whatever imports with
\* different settings run at once.
OneEmbeddingModel == Cardinality(StoredModels) <= 1

\* An answer, computed or taken from the cache another user has filled, cites
\* only what was visible to the asking user's role when it was read.
AnswersWithinScope ==
  \A s \in Searches : \A hit \in search[s].hits : hit.visibility \in Scope(s)

\* An invalidation that ends by itself leaves no answer that was cached before
\* the commit it follows: while one is left, its key is still to be deleted.
InvalidationReachesAll ==
  \A k \in Keys : cache[k] # NoEntry =>
    \A i \in cache[k].outdatedBy : importer[i].pc = "scanning" /\ k \in importer[i].left

-----------------------------------------------------------------------------
(* Liveness.                                                                *)

Current(k) == Fused(SemanticHits(k), KeywordHits(k))

\* However searches and invalidations overlapped, and even if one was lost: once
\* no import commits any more, the cache comes to agree with the chunks for good.
CacheHeals ==
  <>[](\A i \in Importers : importer[i].pc # "writing")
    => <>[](\A k \in Keys : cache[k] # NoEntry => cache[k].hits = Current(k))

\* A user who was refused is not refused for ever, however often he tries.
BlockedIsReleased ==
  \A u \in Counted : counter[u].count > Limit ~> counter[u].count <= Limit

-----------------------------------------------------------------------------
(* The inductive invariant.                                                 *)

Writing(i) == importer[i].pc = "writing"

\* One import holds the lock; what its check found is still so when it commits.
LockInv ==
  /\ \A i, j \in Importers : Writing(i) /\ Writing(j) => i = j
  /\ \A i \in Importers : Writing(i) /\ ~importer[i].batch.rebuild
       => StoredModels \subseteq {importer[i].batch.model}
  /\ \A m, n \in StoredModels : m = n

\* What is under a key may be seen by those who use it.
ScopeInv ==
  \A k \in Keys : cache[k] # NoEntry =>
    \A hit \in cache[k].hits : hit.visibility \in k

KnowledgeInv ==
  /\ TypeOK
  /\ LockInv
  /\ ScopeInv
  /\ AnswersWithinScope
  /\ InvalidationReachesAll
=============================================================================
