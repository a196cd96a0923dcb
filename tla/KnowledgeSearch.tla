--------------------------- MODULE KnowledgeSearch ---------------------------
(***************************************************************************)
(* GET /v1/rag/search beside the imports: the rate limit, the cache, the   *)
(* two reads of the chunks, which are statements of their own, and the     *)
(* answer put into the cache.  Every command to Redis may fail, and the    *)
(* search goes on without it.                                              *)
(***************************************************************************)
EXTENDS KnowledgeImport, RateWindow

CONSTANTS
  Searches,       \* searches that may overlap
  Users, NoUser,
  RoleOf,         \* users.role
  ServingModel,   \* rag_embedding_model of the process that searches
  Near, Matching  \* the files within the semantic distance, those with the words

ASSUME SearchAssumption ==
  /\ NoUser \notin Users
  /\ Counted \subseteq Users
  /\ RoleOf \in [Users -> Roles]
  /\ ServingModel \in Models
  /\ Near \subseteq Files /\ Matching \subseteq Files

VARIABLE search

vars == <<chunks, importer, cache, counter, search>>

NoSearch == [pc |-> "idle", user |-> NoUser, hits |-> {}]
Search ==
  {NoSearch}
  \cup [pc : {"lookup", "semantic", "keyword", "store", "answered"}, user : Users,
        hits : SUBSET Citation]

\* Every variable has its type; a counter has a time to live.
TypeOK ==
  /\ chunks \in [Files -> Chunk \cup {NoChunk}]
  /\ importer \in [Importers -> Import]
  /\ cache \in [Keys -> Entry \cup {NoEntry}]
  /\ counter \in [Counted -> Counter]
  /\ search \in [Searches -> Search]

Init ==
  /\ chunks = [f \in Files |-> NoChunk]
  /\ importer = [i \in Importers |-> NoImport]
  /\ cache = [k \in Keys |-> NoEntry]
  /\ counter = [u \in Counted |-> Absent]
  /\ search = [s \in Searches |-> NoSearch]

Scope(s) == VisibleTo[RoleOf[search[s].user]]
Key(s) == KeyFor(RoleOf[search[s].user])

Goto(s, pc, hits) == search' = [search EXCEPT ![s].pc = pc, ![s].hits = hits]

\* A request of a user, counted and admitted or answered 429.
StartSearch(s, u) ==
  /\ u \in Counted
  /\ search[s].pc \in {"idle", "answered"}
  /\ Consume(u)
  /\ search' = [search EXCEPT ![s] =
       IF Allowed(u) THEN [pc |-> "lookup", user |-> u, hits |-> {}] ELSE NoSearch]
  /\ UNCHANGED <<chunks, importer, cache>>

\* Redis fails, or another user asks: no counter is touched.
StartUncounted(s, u) ==
  /\ search[s].pc \in {"idle", "answered"}
  /\ search' = [search EXCEPT ![s] = [pc |-> "lookup", user |-> u, hits |-> {}]]
  /\ UNCHANGED <<chunks, importer, cache, counter>>

CacheHit(s) ==
  /\ search[s].pc = "lookup"
  /\ cache[Key(s)] # NoEntry
  /\ Goto(s, "answered", cache[Key(s)].hits)
  /\ UNCHANGED <<chunks, importer, cache, counter>>

\* No key, an unreadable value, or Redis fails.
CacheMiss(s) ==
  /\ search[s].pc = "lookup"
  /\ Goto(s, "semantic", {})
  /\ UNCHANGED <<chunks, importer, cache, counter>>

\* Mutant: the statement has no visibility IN (...).
AllOf(files, scope) ==
  {[file |-> f, visibility |-> chunks[f].visibility] :
     f \in {g \in files : chunks[g] # NoChunk}}

\* The stored chunks of some files that a scope lets see.
VisibleOf(files, scope) ==
  {[file |-> f, visibility |-> chunks[f].visibility] :
     f \in {g \in files : chunks[g] # NoChunk /\ chunks[g].visibility \in scope}}

\* search_similar_knowledge_chunks, for vectors of the serving model.
SemanticHits(scope) ==
  VisibleOf({f \in Near : chunks[f] # NoChunk /\ chunks[f].model = ServingModel}, scope)

SearchSemantic(s) ==
  /\ search[s].pc = "semantic"
  /\ Goto(s, "keyword", SemanticHits(Scope(s)))
  /\ UNCHANGED <<chunks, importer, cache, counter>>

\* search_knowledge_chunks_by_keyword, whatever model the chunk was stored with.
KeywordHits(scope) == VisibleOf(Matching, scope)

\* fuse_search_results, which keeps the first hit of a chunk.
Fused(semantic, keyword) ==
  semantic \cup {hit \in keyword : \A other \in semantic : other.file # hit.file}

SearchKeyword(s) ==
  /\ search[s].pc = "keyword"
  /\ Goto(s, "store", Fused(search[s].hits, KeywordHits(Scope(s))))
  /\ UNCHANGED <<chunks, importer, cache, counter>>

\* SET with an expiry; Redis may fail.
StoreAnswer(s) ==
  /\ search[s].pc = "store"
  /\ \/ cache' = [cache EXCEPT ![Key(s)] = [hits |-> search[s].hits, outdatedBy |-> {}]]
     \/ cache' = cache
  /\ Goto(s, "answered", search[s].hits)
  /\ UNCHANGED <<chunks, importer, counter>>

\* The embedding or the database fails, or the client is gone.
SearchFails(s) ==
  /\ search[s].pc \in {"lookup", "semantic", "keyword", "store"}
  /\ search' = [search EXCEPT ![s] = NoSearch]
  /\ UNCHANGED <<chunks, importer, cache, counter>>

SearchStep(s) ==
  \/ \E u \in Users : StartSearch(s, u) \/ StartUncounted(s, u)
  \/ CacheHit(s)
  \/ CacheMiss(s)
  \/ SearchSemantic(s)
  \/ SearchKeyword(s)
  \/ StoreAnswer(s)
  \/ SearchFails(s)

\* Mutant: the key is set without an expiry.
ExpireNever(k) == FALSE

\* Redis removes a key whose time is over.
Expire(k) ==
  /\ cache[k] # NoEntry
  /\ cache' = [cache EXCEPT ![k] = NoEntry]
  /\ UNCHANGED <<chunks, importer, counter, search>>

Next ==
  \/ \E i \in Importers : ImportStep(i) /\ UNCHANGED <<counter, search>>
  \/ \E s \in Searches : SearchStep(s)
  \/ \E k \in Keys : Expire(k)
  \/ Tick /\ UNCHANGED <<chunks, importer, cache, search>>

Spec == Init /\ [][Next]_vars

\* Redis keeps time.
Clocks ==
  /\ \A k \in Keys : WF_vars(Expire(k))
  /\ WF_vars(Tick /\ UNCHANGED <<chunks, importer, cache, search>>)

FairSpec == Spec /\ Clocks
=============================================================================
