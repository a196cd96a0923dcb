--------------------------- MODULE KnowledgeProofs ---------------------------
(***************************************************************************)
(* Proofs about the knowledge base: its inductive invariant KnowledgeInv,  *)
(* for any files, models, importers, users and overlapping searches.       *)
(***************************************************************************)
EXTENDS KnowledgeProperties, FiniteSetTheorems, TLAPS

-----------------------------------------------------------------------------
(* The operators.                                                           *)

LEMMA ChunkTypes ==
  ASSUME TypeOK, NEW f \in Files, chunks[f] # NoChunk
  PROVE  chunks[f] \in Chunk /\ chunks[f].visibility \in Visibilities
                             /\ chunks[f].model \in Models
  BY DEF TypeOK, Chunk

LEMMA VisibleHits ==
  ASSUME TypeOK, NEW files \in SUBSET Files, NEW scope
  PROVE  /\ VisibleOf(files, scope) \in SUBSET Citation
         /\ \A hit \in VisibleOf(files, scope) : hit.visibility \in scope
<1>1. ASSUME NEW hit \in VisibleOf(files, scope)
      PROVE  hit \in Citation /\ hit.visibility \in scope
  <2>1. PICK f \in files : /\ chunks[f] # NoChunk /\ chunks[f].visibility \in scope
                           /\ hit = [file |-> f, visibility |-> chunks[f].visibility]
    BY <1>1 DEF VisibleOf
  <2>. QED
    BY <2>1, ChunkTypes DEF Citation
<1>. QED
  BY <1>1

LEMMA SearchHits ==
  ASSUME TypeOK, NEW scope
  PROVE  /\ SemanticHits(scope) \in SUBSET Citation
         /\ \A hit \in SemanticHits(scope) : hit.visibility \in scope
         /\ KeywordHits(scope) \in SUBSET Citation
         /\ \A hit \in KeywordHits(scope) : hit.visibility \in scope
<1>. DEFINE near == {f \in Near : chunks[f] # NoChunk /\ chunks[f].model = ServingModel}
<1>1. near \in SUBSET Files /\ Matching \in SUBSET Files
  BY SearchAssumption
<1>. HIDE DEF near
<1>2. /\ VisibleOf(near, scope) \in SUBSET Citation
      /\ \A hit \in VisibleOf(near, scope) : hit.visibility \in scope
  BY <1>1, VisibleHits
<1>3. /\ VisibleOf(Matching, scope) \in SUBSET Citation
      /\ \A hit \in VisibleOf(Matching, scope) : hit.visibility \in scope
  BY <1>1, VisibleHits
<1>. QED
  BY <1>2, <1>3 DEF SemanticHits, KeywordHits, near

LEMMA FusedHits ==
  ASSUME NEW semantic \in SUBSET Citation, NEW keyword \in SUBSET Citation, NEW scope,
         \A hit \in semantic \cup keyword : hit.visibility \in scope
  PROVE  /\ Fused(semantic, keyword) \in SUBSET Citation
         /\ \A hit \in Fused(semantic, keyword) : hit.visibility \in scope
  BY DEF Fused

\* Who asks, under which key.
LEMMA AskerFacts ==
  ASSUME TypeOK, NEW s \in Searches, search[s].pc # "idle"
  PROVE  /\ search[s] \in [pc : {"lookup", "semantic", "keyword", "store", "answered"},
                           user : Users, hits : SUBSET Citation]
         /\ Key(s) \in Keys /\ Scope(s) = Key(s)
  BY SearchAssumption DEF TypeOK, Search, NoSearch, Key, Scope, Keys, KeyFor

LEMMA CounterTypes ==
  ASSUME NEW c \in Counter
  PROVE  Consumed(c) \in Counter /\ Aged(c) \in Counter
<1>. USE LimitAssumption, WindowAssumption DEF Counter, Absent
<1>1. Incremented(c) \in [count : 1..(Limit + 1), ttl : 0..Window]
  BY DEF Incremented
<1>2. Consumed(c) \in [count : 1..(Limit + 1), ttl : 1..Window]
  BY <1>1 DEF Consumed, Expiring
<1>3. CASE c.ttl = 0
  <2>1. Aged(c) = c
    BY <1>3 DEF Aged
  <2>. QED
    BY <1>2, <2>1
<1>4. CASE c.ttl = 1
  <2>1. Aged(c) = Absent
    BY <1>4 DEF Aged
  <2>. QED
    BY <1>2, <2>1
<1>5. CASE c.ttl # 0 /\ c.ttl # 1
  <2>1. c \in [count : 1..(Limit + 1), ttl : 1..Window] /\ c.ttl - 1 \in 1..Window
    BY <1>5
  <2>2. Aged(c) = [c EXCEPT !.ttl = c.ttl - 1]
    BY <1>5 DEF Aged
  <2>. QED
    BY <1>2, <2>1, <2>2
<1>. QED
  BY <1>2, <1>3, <1>4, <1>5

LEMMA CachedEntry ==
  ASSUME TypeOK, NEW k \in Keys, cache[k] # NoEntry
  PROVE  cache[k] \in Entry
  BY DEF TypeOK

LEMMA EntryMarks ==
  ASSUME TypeOK, NEW k \in Keys, NEW i \in Importers
  PROVE  /\ Outdated(cache[k], i) \in Entry \cup {NoEntry}
         /\ Excused(cache[k], i) \in Entry \cup {NoEntry}
         /\ Outdated(cache[k], i) # NoEntry =>
              /\ cache[k] # NoEntry
              /\ Outdated(cache[k], i).hits = cache[k].hits
              /\ Outdated(cache[k], i).outdatedBy = cache[k].outdatedBy \cup {i}
         /\ Excused(cache[k], i) # NoEntry =>
              /\ cache[k] # NoEntry
              /\ Excused(cache[k], i).hits = cache[k].hits
              /\ Excused(cache[k], i).outdatedBy = cache[k].outdatedBy \ {i}
<1>1. CASE cache[k] = NoEntry
  BY <1>1 DEF Outdated, Excused
<1>2. CASE cache[k] # NoEntry
  <2>1. cache[k] \in Entry
    BY <1>2, CachedEntry
  <2>2. /\ Outdated(cache[k], i) = [cache[k] EXCEPT !.outdatedBy = cache[k].outdatedBy \cup {i}]
        /\ Excused(cache[k], i) = [cache[k] EXCEPT !.outdatedBy = cache[k].outdatedBy \ {i}]
    BY <1>2 DEF Outdated, Excused
  <2>. QED
    BY <1>2, <2>1, <2>2 DEF Entry
<1>. QED
  BY <1>1, <1>2

LEMMA ChunkAfterType ==
  ASSUME TypeOK, NEW batch \in Batches, NEW f \in Files
  PROVE  /\ ChunkAfter(batch, f) \in Chunk \cup {NoChunk}
         /\ ChunkAfter(batch, f) # NoChunk =>
              \/ ChunkAfter(batch, f).model = batch.model
              \/ ~batch.rebuild /\ ChunkAfter(batch, f) = chunks[f]
<1>1. batch \in Batch
  BY ImportAssumption
<1>2. [visibility |-> batch.visibility, model |-> batch.model] \in Chunk
  BY <1>1 DEF Batch, Chunk
<1>. QED
  BY <1>2 DEF ChunkAfter, TypeOK

\* The batch of an import that holds the lock.
LEMMA WritingFacts ==
  ASSUME TypeOK, NEW i \in Importers, Writing(i)
  PROVE  importer[i].batch \in Batches
  BY DEF TypeOK, Import, NoImport, Writing

LEMMA ScanningFacts ==
  ASSUME TypeOK, NEW i \in Importers, importer[i].pc = "scanning"
  PROVE  importer[i].left \in SUBSET Keys /\ importer[i].batch = NoBatch
  BY DEF TypeOK, Import, NoImport

-----------------------------------------------------------------------------
(* The initial states, and the steps of an import.                          *)

LEMMA KnowledgeInit == Init => KnowledgeInv
<1>. SUFFICES ASSUME Init PROVE KnowledgeInv
  OBVIOUS
<1>. USE DEF Init
<1>1. TypeOK
  BY DEF TypeOK, Import, NoImport, Search, NoSearch, Counter, Absent
<1>2. StoredModels = {}
  BY DEF StoredModels
<1>3. LockInv
  BY <1>2 DEF LockInv, Writing, NoImport
<1>. QED
  BY <1>1, <1>3 DEF KnowledgeInv, ScopeInv, AnswersWithinScope, InvalidationReachesAll, NoSearch

\* A step that leaves the searches alone leaves the askers' scopes alone.
LEMMA ScopesUnchanged ==
  ASSUME UNCHANGED search, AnswersWithinScope
  PROVE  AnswersWithinScope'
  BY DEF AnswersWithinScope, Scope

LEMMA StepBegin ==
  ASSUME KnowledgeInv, UNCHANGED <<counter, search>>,
         NEW i \in Importers, NEW batch \in Batches, BeginImport(i, batch)
  PROVE  KnowledgeInv'
<1>. DEFINE import == [pc |-> "writing", batch |-> batch, left |-> {}]
<1>1. importer' = [importer EXCEPT ![i] = import] /\ UNCHANGED <<chunks, cache>>
  BY DEF BeginImport
<1>2. TypeOK /\ LockInv /\ ScopeInv /\ AnswersWithinScope /\ InvalidationReachesAll
  BY DEF KnowledgeInv
<1>3. importer[i].pc = "idle" /\ \A j \in Importers : importer[j].pc # "writing"
  BY DEF BeginImport, LockFree
<1>4. import \in Import
  BY DEF Import
<1>5. importer' \in [Importers -> Import]
  BY <1>1, <1>2, <1>4 DEF TypeOK
<1>6. TypeOK'
  BY <1>1, <1>2, <1>5 DEF TypeOK
<1>7. importer'[i] = import /\ \A j \in Importers : j # i => importer'[j] = importer[j]
  BY <1>1, <1>2 DEF TypeOK
<1>8. StoredModels' = StoredModels
  BY <1>1 DEF StoredModels
<1>9. LockInv'
  <2>1. ~batch.rebuild => StoredModels \subseteq {batch.model}
    BY DEF BeginImport
  <2>. QED
    BY <1>2, <1>3, <1>7, <1>8, <2>1 DEF LockInv, Writing
<1>10. ScopeInv' /\ AnswersWithinScope'
  BY <1>1, <1>2, ScopesUnchanged DEF ScopeInv
<1>11. InvalidationReachesAll'
  BY <1>1, <1>2, <1>3, <1>7 DEF InvalidationReachesAll
<1>. QED
  BY <1>6, <1>9, <1>10, <1>11 DEF KnowledgeInv

LEMMA StepCommit ==
  ASSUME KnowledgeInv, UNCHANGED <<counter, search>>, NEW i \in Importers, Commit(i)
  PROVE  KnowledgeInv'
<1>. DEFINE import == [pc |-> "scanning", batch |-> NoBatch, left |-> Scanned]
            batch == importer[i].batch
<1>1. /\ Writing(i)
      /\ chunks' = [f \in Files |-> ChunkAfter(batch, f)]
      /\ importer' = [importer EXCEPT ![i] = import]
      /\ cache' = [k \in Keys |-> Outdated(cache[k], i)]
  BY DEF Commit, Writing
<1>2. TypeOK /\ LockInv /\ ScopeInv /\ AnswersWithinScope /\ InvalidationReachesAll
  BY DEF KnowledgeInv
<1>3. batch \in Batches
  BY <1>1, <1>2, WritingFacts
<1>4. import \in Import /\ Scanned \in SUBSET Keys
  BY DEF Import, Scanned
<1>5. importer'[i] = import /\ \A j \in Importers : j # i => importer'[j] = importer[j]
  BY <1>1, <1>2 DEF TypeOK
<1>6. TypeOK'
  <2>1. importer' \in [Importers -> Import]
    BY <1>1, <1>2, <1>4 DEF TypeOK
  <2>2. chunks' \in [Files -> Chunk \cup {NoChunk}]
    BY <1>1, <1>2, <1>3, ChunkAfterType
  <2>3. cache' \in [Keys -> Entry \cup {NoEntry}]
    BY <1>1, <1>2, EntryMarks
  <2>. QED
    BY <1>2, <2>1, <2>2, <2>3 DEF TypeOK
<1>7. LockInv'
  <2>1. \A j \in Importers : ~Writing(j)'
    BY <1>1, <1>2, <1>5 DEF LockInv, Writing
  <2>2. \A m \in StoredModels' : m = batch.model
    <3>1. SUFFICES ASSUME NEW f \in Files, chunks'[f] # NoChunk
                   PROVE  chunks'[f].model = batch.model
      BY DEF StoredModels
    <3>2. chunks'[f] = ChunkAfter(batch, f)
      BY <1>1
    <3>3. CASE chunks'[f].model = batch.model
      BY <3>3
    <3>4. CASE ~batch.rebuild /\ chunks'[f] = chunks[f]
      <4>1. chunks[f].model \in StoredModels
        BY <3>1, <3>4 DEF StoredModels
      <4>2. StoredModels \subseteq {batch.model}
        BY <1>1, <1>2, <3>4 DEF LockInv
      <4>. QED
        BY <3>4, <4>1, <4>2
    <3>. QED
      BY <1>2, <1>3, <3>1, <3>2, <3>3, <3>4, ChunkAfterType
  <2>. QED
    BY <2>1, <2>2 DEF LockInv
<1>8. \A k \in Keys : cache'[k] # NoEntry =>
        /\ cache[k] # NoEntry
        /\ cache'[k].hits = cache[k].hits
        /\ cache'[k].outdatedBy = cache[k].outdatedBy \cup {i}
  BY <1>1, <1>2, EntryMarks
<1>9. ScopeInv'
  BY <1>2, <1>8 DEF ScopeInv
<1>10. InvalidationReachesAll'
  <2>. SUFFICES ASSUME NEW k \in Keys, cache'[k] # NoEntry, NEW j \in cache'[k].outdatedBy
                PROVE  importer'[j].pc = "scanning" /\ k \in importer'[j].left
    BY DEF InvalidationReachesAll
  <2>1. cache[k] # NoEntry /\ (j = i \/ j \in cache[k].outdatedBy)
    BY <1>8
  <2>2. CASE j = i
    BY <1>5, <2>1, <2>2 DEF Scanned
  <2>3. CASE j # i
    <3>1. j \in cache[k].outdatedBy /\ cache[k] \in Entry
      BY <1>2, <2>1, <2>3, CachedEntry
    <3>2. j \in Importers /\ importer[j].pc = "scanning" /\ k \in importer[j].left
      BY <1>2, <2>1, <3>1 DEF InvalidationReachesAll, Entry
    <3>. QED
      BY <1>5, <2>3, <3>2
  <2>. QED
    BY <2>2, <2>3
<1>. QED
  BY <1>2, <1>6, <1>7, <1>9, <1>10, ScopesUnchanged DEF KnowledgeInv

\* An import that does not write leaves the lock and what was checked alone.
LEMMA LockKept ==
  ASSUME TypeOK, LockInv, UNCHANGED chunks, NEW i \in Importers, NEW import,
         importer' = [importer EXCEPT ![i] = import], import.pc # "writing"
  PROVE  LockInv'
<1>1. StoredModels' = StoredModels
  BY DEF StoredModels
<1>2. \A j \in Importers : Writing(j)' => Writing(j) /\ importer'[j] = importer[j]
  BY DEF Writing, TypeOK
<1>. QED
  BY <1>1, <1>2 DEF LockInv, Writing

LEMMA StepDelete ==
  ASSUME KnowledgeInv, UNCHANGED <<counter, search>>,
         NEW i \in Importers, NEW k \in Keys, DeleteKey(i, k)
  PROVE  KnowledgeInv'
<1>. DEFINE import == [importer[i] EXCEPT !.left = importer[i].left \ {k}]
<1>1. /\ importer[i].pc = "scanning"
      /\ cache' = [cache EXCEPT ![k] = NoEntry]
      /\ importer' = [importer EXCEPT ![i] = import]
      /\ UNCHANGED chunks
  BY DEF DeleteKey
<1>2. TypeOK /\ LockInv /\ ScopeInv /\ AnswersWithinScope /\ InvalidationReachesAll
  BY DEF KnowledgeInv
<1>3. importer[i] \in [pc : {"scanning"}, batch : {NoBatch}, left : SUBSET Keys]
  BY <1>1, <1>2 DEF TypeOK, Import, NoImport
<1>4. /\ import \in Import /\ import.pc = "scanning"
      /\ import.left = importer[i].left \ {k}
  BY <1>3 DEF Import
<1>. HIDE DEF import
<1>5. importer'[i] = import /\ \A j \in Importers : j # i => importer'[j] = importer[j]
  BY <1>1, <1>2 DEF TypeOK
<1>6. importer' \in [Importers -> Import]
  BY <1>1, <1>2, <1>4 DEF TypeOK
<1>7. TypeOK'
  BY <1>1, <1>2, <1>6 DEF TypeOK
<1>8. LockInv'
  BY <1>1, <1>2, <1>4, LockKept
<1>9. \A q \in Keys : cache'[q] # NoEntry => q # k /\ cache'[q] = cache[q]
  BY <1>1, <1>2 DEF TypeOK
<1>10. ScopeInv'
  BY <1>2, <1>9 DEF ScopeInv
<1>11. InvalidationReachesAll'
  BY <1>1, <1>2, <1>4, <1>5, <1>9 DEF InvalidationReachesAll
<1>. QED
  BY <1>2, <1>7, <1>8, <1>10, <1>11, ScopesUnchanged DEF KnowledgeInv

LEMMA StepEnd ==
  ASSUME KnowledgeInv, UNCHANGED <<counter, search>>, NEW i \in Importers, EndImport(i)
  PROVE  KnowledgeInv'
<1>1. /\ importer[i].pc = "scanning" /\ importer[i].left = {}
      /\ importer' = [importer EXCEPT ![i] = NoImport]
      /\ UNCHANGED <<chunks, cache>>
  BY DEF EndImport
<1>2. TypeOK /\ LockInv /\ ScopeInv /\ AnswersWithinScope /\ InvalidationReachesAll
  BY DEF KnowledgeInv
<1>3. NoImport \in Import /\ NoImport.pc # "writing"
  BY DEF Import, NoImport
<1>4. importer' \in [Importers -> Import]
  BY <1>1, <1>2, <1>3 DEF TypeOK
<1>5. TypeOK'
  BY <1>1, <1>2, <1>4 DEF TypeOK
<1>6. LockInv'
  BY <1>1, <1>2, <1>3, LockKept
<1>7. ScopeInv'
  BY <1>1, <1>2 DEF ScopeInv
<1>8. InvalidationReachesAll'
  <2>1. \A j \in Importers : j # i => importer'[j] = importer[j]
    BY <1>1, <1>2 DEF TypeOK
  <2>2. \A k \in Keys : cache[k] # NoEntry => i \notin cache[k].outdatedBy
    BY <1>1, <1>2 DEF InvalidationReachesAll
  <2>3. \A k \in Keys : cache[k] # NoEntry => cache[k].outdatedBy \subseteq Importers
    BY <1>2, CachedEntry DEF Entry
  <2>. QED
    BY <1>1, <1>2, <2>1, <2>2, <2>3 DEF InvalidationReachesAll
<1>. QED
  BY <1>2, <1>5, <1>6, <1>7, <1>8, <1>1, ScopesUnchanged DEF KnowledgeInv

LEMMA StepStop ==
  ASSUME KnowledgeInv, UNCHANGED <<counter, search>>, NEW i \in Importers, StopImport(i)
  PROVE  KnowledgeInv'
<1>1. /\ importer' = [importer EXCEPT ![i] = NoImport]
      /\ cache' = [k \in Keys |-> Excused(cache[k], i)]
      /\ UNCHANGED chunks
  BY DEF StopImport
<1>2. TypeOK /\ LockInv /\ ScopeInv /\ AnswersWithinScope /\ InvalidationReachesAll
  BY DEF KnowledgeInv
<1>3. NoImport \in Import /\ NoImport.pc # "writing"
  BY DEF Import, NoImport
<1>4. importer' \in [Importers -> Import]
  BY <1>1, <1>2, <1>3 DEF TypeOK
<1>5. cache' \in [Keys -> Entry \cup {NoEntry}]
  BY <1>1, <1>2, EntryMarks
<1>6. TypeOK'
  BY <1>1, <1>2, <1>4, <1>5 DEF TypeOK
<1>7. LockInv'
  BY <1>1, <1>2, <1>3, LockKept
<1>8. \A k \in Keys : cache'[k] # NoEntry =>
        /\ cache[k] # NoEntry
        /\ cache'[k].hits = cache[k].hits
        /\ cache'[k].outdatedBy = cache[k].outdatedBy \ {i}
  BY <1>1, <1>2, EntryMarks
<1>9. ScopeInv'
  BY <1>2, <1>8 DEF ScopeInv
<1>10. InvalidationReachesAll'
  <2>1. \A j \in Importers : j # i => importer'[j] = importer[j]
    BY <1>1, <1>2 DEF TypeOK
  <2>2. \A k \in Keys : cache[k] # NoEntry => cache[k].outdatedBy \subseteq Importers
    BY <1>2, CachedEntry DEF Entry
  <2>. QED
    BY <1>2, <1>8, <2>1, <2>2 DEF InvalidationReachesAll
<1>. QED
  BY <1>2, <1>6, <1>7, <1>9, <1>10, ScopesUnchanged DEF KnowledgeInv

-----------------------------------------------------------------------------
(* The steps of a search, of Redis and of the clock.                        *)

\* What a search may become when neither chunks nor imports change.
LEMMA SearchTo ==
  ASSUME KnowledgeInv, UNCHANGED <<chunks, importer>>, counter' \in [Counted -> Counter],
         cache' \in [Keys -> Entry \cup {NoEntry}],
         ScopeInv', InvalidationReachesAll',
         NEW s \in Searches, NEW next \in Search, search' = [search EXCEPT ![s] = next],
         next # NoSearch =>
           \A hit \in next.hits : hit.visibility \in VisibleTo[RoleOf[next.user]]
  PROVE  KnowledgeInv'
<1>1. TypeOK /\ LockInv /\ AnswersWithinScope
  BY DEF KnowledgeInv
<1>2. search' \in [Searches -> Search]
  BY <1>1 DEF TypeOK
<1>3. TypeOK'
  BY <1>1, <1>2 DEF TypeOK
<1>4. LockInv'
  <2>1. StoredModels' = StoredModels
    BY DEF StoredModels
  <2>. QED
    BY <1>1, <2>1 DEF LockInv, Writing
<1>5. AnswersWithinScope'
  <2>1. search'[s] = next /\ \A q \in Searches : q # s => search'[q] = search[q]
    BY <1>1 DEF TypeOK
  <2>2. \A hit \in next.hits : hit.visibility \in VisibleTo[RoleOf[next.user]]
    BY DEF NoSearch
  <2>. QED
    BY <1>1, <2>1, <2>2 DEF AnswersWithinScope, Scope
<1>. QED
  BY <1>3, <1>4, <1>5 DEF KnowledgeInv

\* A search that leaves the cache alone too.
LEMMA SearchOnly ==
  ASSUME KnowledgeInv, UNCHANGED <<chunks, importer, cache>>,
         counter' \in [Counted -> Counter],
         NEW s \in Searches, NEW next \in Search, search' = [search EXCEPT ![s] = next],
         next # NoSearch =>
           \A hit \in next.hits : hit.visibility \in VisibleTo[RoleOf[next.user]]
  PROVE  KnowledgeInv'
<1>1. ScopeInv' /\ InvalidationReachesAll'
  BY DEF KnowledgeInv, ScopeInv, InvalidationReachesAll
<1>2. cache' \in [Keys -> Entry \cup {NoEntry}]
  BY DEF KnowledgeInv, TypeOK
<1>. QED
  BY <1>1, <1>2, SearchTo

\* A search under way goes on with hits within its scope.
LEMMA SearchGoesOn ==
  ASSUME KnowledgeInv, UNCHANGED <<chunks, importer, cache, counter>>,
         NEW s \in Searches, search[s].pc # "idle",
         NEW pc \in {"lookup", "semantic", "keyword", "store", "answered"},
         NEW hits \in SUBSET Citation, \A hit \in hits : hit.visibility \in Scope(s),
         Goto(s, pc, hits)
  PROVE  KnowledgeInv'
<1>. DEFINE next == [search[s] EXCEPT !.pc = pc, !.hits = hits]
<1>1. TypeOK
  BY DEF KnowledgeInv
<1>2. search[s] \in [pc : {"lookup", "semantic", "keyword", "store", "answered"},
                    user : Users, hits : SUBSET Citation]
  BY <1>1, AskerFacts
<1>3. next \in Search /\ next.hits = hits /\ next.user = search[s].user
  BY <1>2 DEF Search
<1>4. search' = [search EXCEPT ![s] = next]
  BY DEF Goto
<1>. HIDE DEF next
<1>5. \A hit \in next.hits : hit.visibility \in VisibleTo[RoleOf[next.user]]
  BY <1>3 DEF Scope
<1>6. counter' \in [Counted -> Counter]
  BY <1>1 DEF TypeOK
<1>. QED
  BY <1>3, <1>4, <1>5, <1>6, SearchOnly

LEMMA StepSearch ==
  ASSUME KnowledgeInv, NEW s \in Searches, SearchStep(s)
  PROVE  KnowledgeInv'
<1>0. TypeOK /\ LockInv /\ ScopeInv /\ AnswersWithinScope /\ InvalidationReachesAll
  BY DEF KnowledgeInv
<1>1. NoSearch \in Search
  BY DEF Search
<1>2. ASSUME NEW u \in Users, StartSearch(s, u) PROVE KnowledgeInv'
  <2>. DEFINE next == IF Allowed(u) THEN [pc |-> "lookup", user |-> u, hits |-> {}]
                                    ELSE NoSearch
  <2>1. next \in Search /\ next.hits = {}
    BY <1>1 DEF Search, NoSearch
  <2>2. search' = [search EXCEPT ![s] = next] /\ UNCHANGED <<chunks, importer, cache>>
    BY <1>2 DEF StartSearch
  <2>3. counter' \in [Counted -> Counter]
    BY <1>0, <1>2, CounterTypes DEF StartSearch, Consume, TypeOK
  <2>. HIDE DEF next
  <2>. QED
    BY <2>1, <2>2, <2>3, SearchOnly
<1>3. ASSUME NEW u \in Users, StartUncounted(s, u) PROVE KnowledgeInv'
  <2>. DEFINE next == [pc |-> "lookup", user |-> u, hits |-> {}]
  <2>1. next \in Search /\ next.hits = {}
    BY DEF Search
  <2>2. search' = [search EXCEPT ![s] = next] /\ UNCHANGED <<chunks, importer, cache, counter>>
    BY <1>3 DEF StartUncounted
  <2>3. counter' \in [Counted -> Counter]
    BY <1>0, <2>2 DEF TypeOK
  <2>. HIDE DEF next
  <2>. QED
    BY <2>1, <2>2, <2>3, SearchOnly
<1>4. CASE CacheHit(s)
  <2>1. search[s].pc # "idle" /\ cache[Key(s)] # NoEntry
    BY <1>4 DEF CacheHit
  <2>2. Key(s) \in Keys /\ Scope(s) = Key(s)
    BY <1>0, <2>1, AskerFacts
  <2>3. cache[Key(s)].hits \in SUBSET Citation
    BY <1>0, <2>1, <2>2, CachedEntry DEF Entry
  <2>4. \A hit \in cache[Key(s)].hits : hit.visibility \in Scope(s)
    BY <1>0, <2>1, <2>2 DEF ScopeInv
  <2>5. Goto(s, "answered", cache[Key(s)].hits) /\ UNCHANGED <<chunks, importer, cache, counter>>
    BY <1>4 DEF CacheHit
  <2>. QED
    BY <2>1, <2>3, <2>4, <2>5, SearchGoesOn
<1>5. CASE CacheMiss(s)
  BY <1>5, SearchGoesOn DEF CacheMiss
<1>6. CASE SearchSemantic(s)
  <2>1. /\ search[s].pc # "idle" /\ Goto(s, "keyword", SemanticHits(Scope(s)))
        /\ UNCHANGED <<chunks, importer, cache, counter>>
    BY <1>6 DEF SearchSemantic
  <2>2. /\ SemanticHits(Scope(s)) \in SUBSET Citation
        /\ \A hit \in SemanticHits(Scope(s)) : hit.visibility \in Scope(s)
    BY <1>0, SearchHits
  <2>. QED
    BY <2>1, <2>2, SearchGoesOn
<1>7. CASE SearchKeyword(s)
  <2>. DEFINE hits == Fused(search[s].hits, KeywordHits(Scope(s)))
  <2>1. /\ search[s].pc # "idle" /\ Goto(s, "store", hits)
        /\ UNCHANGED <<chunks, importer, cache, counter>>
    BY <1>7 DEF SearchKeyword
  <2>2. /\ KeywordHits(Scope(s)) \in SUBSET Citation
        /\ \A hit \in KeywordHits(Scope(s)) : hit.visibility \in Scope(s)
    BY <1>0, SearchHits
  <2>3. /\ search[s].hits \in SUBSET Citation
        /\ \A hit \in search[s].hits : hit.visibility \in Scope(s)
    BY <1>0, <2>1, AskerFacts DEF AnswersWithinScope
  <2>4. hits \in SUBSET Citation /\ \A hit \in hits : hit.visibility \in Scope(s)
    BY <2>2, <2>3, FusedHits
  <2>. HIDE DEF hits
  <2>. QED
    BY <2>1, <2>4, SearchGoesOn
<1>8. CASE StoreAnswer(s)
  <2>. DEFINE entry == [hits |-> search[s].hits, outdatedBy |-> {}]
              next == [search[s] EXCEPT !.pc = "answered", !.hits = search[s].hits]
  <2>1. /\ search[s].pc # "idle" /\ search' = [search EXCEPT ![s] = next]
        /\ UNCHANGED <<chunks, importer, counter>>
        /\ cache' = [cache EXCEPT ![Key(s)] = entry] \/ cache' = cache
    BY <1>8 DEF StoreAnswer, Goto
  <2>2. /\ search[s] \in [pc : {"lookup", "semantic", "keyword", "store", "answered"},
                          user : Users, hits : SUBSET Citation]
        /\ Key(s) \in Keys /\ Scope(s) = Key(s)
    BY <1>0, <2>1, AskerFacts
  <2>3. entry \in Entry /\ entry.hits = search[s].hits /\ entry.outdatedBy = {}
    BY <2>2 DEF Entry
  <2>4. /\ next \in Search /\ next.hits = search[s].hits /\ next.user = search[s].user
    BY <2>2 DEF Search
  <2>5. \A hit \in search[s].hits : hit.visibility \in Scope(s)
    BY <1>0 DEF AnswersWithinScope
  <2>. HIDE DEF entry, next
  <2>6. cache' \in [Keys -> Entry \cup {NoEntry}]
    BY <1>0, <2>1, <2>2, <2>3 DEF TypeOK
  <2>7. \A k \in Keys : cache'[k] # cache[k] => k = Key(s) /\ cache'[k] = entry
    BY <1>0, <2>1, <2>2 DEF TypeOK
  <2>8. ScopeInv'
    BY <1>0, <2>2, <2>3, <2>5, <2>7 DEF ScopeInv
  <2>9. InvalidationReachesAll'
    BY <1>0, <2>1, <2>3, <2>7 DEF InvalidationReachesAll
  <2>10. \A hit \in next.hits : hit.visibility \in VisibleTo[RoleOf[next.user]]
    BY <2>4, <2>5 DEF Scope
  <2>11. counter' \in [Counted -> Counter]
    BY <1>0, <2>1 DEF TypeOK
  <2>. QED
    BY <2>1, <2>4, <2>6, <2>8, <2>9, <2>10, <2>11, SearchTo
<1>9. CASE SearchFails(s)
  <2>1. search' = [search EXCEPT ![s] = NoSearch] /\ UNCHANGED <<chunks, importer, cache, counter>>
    BY <1>9 DEF SearchFails
  <2>2. counter' \in [Counted -> Counter]
    BY <1>0, <2>1 DEF TypeOK
  <2>. QED
    BY <1>1, <2>1, <2>2, SearchOnly
<1>. QED
  BY <1>2, <1>3, <1>4, <1>5, <1>6, <1>7, <1>8, <1>9 DEF SearchStep

LEMMA StepExpire ==
  ASSUME KnowledgeInv, NEW k \in Keys, Expire(k)
  PROVE  KnowledgeInv'
<1>0. TypeOK /\ LockInv /\ ScopeInv /\ AnswersWithinScope /\ InvalidationReachesAll
  BY DEF KnowledgeInv
<1>1. cache' = [cache EXCEPT ![k] = NoEntry] /\ UNCHANGED <<chunks, importer, counter, search>>
  BY DEF Expire
<1>2. TypeOK'
  BY <1>0, <1>1 DEF TypeOK
<1>3. \A q \in Keys : cache'[q] # NoEntry => cache'[q] = cache[q]
  BY <1>0, <1>1 DEF TypeOK
<1>4. StoredModels' = StoredModels
  BY <1>1 DEF StoredModels
<1>5. LockInv'
  BY <1>0, <1>1, <1>4 DEF LockInv, Writing
<1>6. ScopeInv' /\ InvalidationReachesAll'
  BY <1>0, <1>1, <1>3 DEF ScopeInv, InvalidationReachesAll
<1>. QED
  BY <1>0, <1>1, <1>2, <1>5, <1>6, ScopesUnchanged DEF KnowledgeInv

LEMMA StepTick ==
  ASSUME KnowledgeInv, Tick, UNCHANGED <<chunks, importer, cache, search>>
  PROVE  KnowledgeInv'
<1>0. TypeOK /\ LockInv /\ ScopeInv /\ AnswersWithinScope /\ InvalidationReachesAll
  BY DEF KnowledgeInv
<1>1. counter' = [u \in Counted |-> Aged(counter[u])]
  BY DEF Tick
<1>2. counter' \in [Counted -> Counter]
  BY <1>0, <1>1, CounterTypes DEF TypeOK
<1>3. TypeOK'
  BY <1>0, <1>2 DEF TypeOK
<1>4. StoredModels' = StoredModels
  BY DEF StoredModels
<1>5. LockInv' /\ ScopeInv' /\ InvalidationReachesAll'
  BY <1>0, <1>4 DEF LockInv, Writing, ScopeInv, InvalidationReachesAll
<1>. QED
  BY <1>0, <1>3, <1>5, ScopesUnchanged DEF KnowledgeInv

LEMMA KnowledgeNext == KnowledgeInv /\ [Next]_vars => KnowledgeInv'
<1>. SUFFICES ASSUME KnowledgeInv, [Next]_vars PROVE KnowledgeInv'
  OBVIOUS
<1>1. ASSUME NEW i \in Importers, ImportStep(i), UNCHANGED <<counter, search>>
      PROVE  KnowledgeInv'
  <2>1. ASSUME NEW batch \in Batches, BeginImport(i, batch) PROVE KnowledgeInv'
    BY <1>1, <2>1, StepBegin
  <2>2. CASE Commit(i)
    BY <1>1, <2>2, StepCommit
  <2>3. ASSUME NEW k \in Keys, DeleteKey(i, k) PROVE KnowledgeInv'
    BY <1>1, <2>3, StepDelete
  <2>4. CASE EndImport(i)
    BY <1>1, <2>4, StepEnd
  <2>5. CASE StopImport(i)
    BY <1>1, <2>5, StepStop
  <2>. QED
    BY <1>1, <2>1, <2>2, <2>3, <2>4, <2>5 DEF ImportStep
<1>2. ASSUME NEW s \in Searches, SearchStep(s) PROVE KnowledgeInv'
  BY <1>2, StepSearch
<1>3. ASSUME NEW k \in Keys, Expire(k) PROVE KnowledgeInv'
  BY <1>3, StepExpire
<1>4. CASE Tick /\ UNCHANGED <<chunks, importer, cache, search>>
  BY <1>4, StepTick
<1>5. CASE UNCHANGED vars
  <2>1. /\ UNCHANGED chunks /\ UNCHANGED importer /\ UNCHANGED cache
        /\ UNCHANGED counter /\ UNCHANGED search
    BY <1>5 DEF vars
  <2>2. StoredModels' = StoredModels
    BY <2>1 DEF StoredModels
  <2>3. TypeOK' /\ ScopeInv' /\ AnswersWithinScope' /\ InvalidationReachesAll'
    BY <2>1, ScopesUnchanged DEF KnowledgeInv, TypeOK, ScopeInv, InvalidationReachesAll
  <2>4. LockInv'
    BY <2>1, <2>2 DEF KnowledgeInv, LockInv, Writing
  <2>. QED
    BY <2>3, <2>4 DEF KnowledgeInv
<1>. QED
  BY <1>1, <1>2, <1>3, <1>4, <1>5 DEF Next

-----------------------------------------------------------------------------
(* The theorems.                                                            *)

\* The inductive invariant of the knowledge base: write_policy_chunks and
\* search_rag, with any number of runs of each at once.
THEOREM KnowledgeInvariant == Spec => []KnowledgeInv
  BY KnowledgeInit, KnowledgeNext, PTL DEF Spec

\* Every variable has its type: consume_rate_limit never leaves a counter
\* without a time to live.
THEOREM KnowledgeTypes == Spec => []TypeOK
<1>1. KnowledgeInv => TypeOK
  BY DEF KnowledgeInv
<1>. QED
  BY <1>1, KnowledgeInvariant, PTL

\* The advisory lock keeps the vectors of the table to one embedding model.
THEOREM OneModelStored == Spec => []OneEmbeddingModel
<1>1. LockInv => OneEmbeddingModel
  <2>. SUFFICES ASSUME LockInv PROVE OneEmbeddingModel
    OBVIOUS
  <2>1. CASE StoredModels = {}
    BY <2>1, FS_EmptySet DEF OneEmbeddingModel
  <2>2. CASE StoredModels # {}
    <3>1. PICK m \in StoredModels : TRUE
      BY <2>2
    <3>2. StoredModels = {m}
      BY <3>1 DEF LockInv
    <3>. QED
      BY <3>2, FS_Singleton DEF OneEmbeddingModel
  <2>. QED
    BY <2>1, <2>2
<1>2. KnowledgeInv => OneEmbeddingModel
  BY <1>1 DEF KnowledgeInv
<1>. QED
  BY <1>2, KnowledgeInvariant, PTL

\* No answer of search_rag, cached or not, cites what its user's role may not see.
THEOREM ScopesHold == Spec => []AnswersWithinScope
<1>1. KnowledgeInv => AnswersWithinScope
  BY DEF KnowledgeInv
<1>. QED
  BY <1>1, KnowledgeInvariant, PTL

\* An invalidate_rag_cache that ends by itself misses no answer cached before
\* the commit it follows.
THEOREM InvalidationsComplete == Spec => []InvalidationReachesAll
<1>1. KnowledgeInv => InvalidationReachesAll
  BY DEF KnowledgeInv
<1>. QED
  BY <1>1, KnowledgeInvariant, PTL

-----------------------------------------------------------------------------
(* What only a rebuild may do.                                              *)

\* The transaction of a rebuild commits.
Rebuilds == \E i \in Importers : Commit(i) /\ importer[i].batch.rebuild

\* A stored chunk stays as it is, and a table with vectors takes none of another
\* embedding model.
OthersOnlyAdd ==
  ~Rebuilds =>
    /\ \A f \in Files : chunks[f] # NoChunk => chunks'[f] = chunks[f]
    /\ StoredModels # {} => StoredModels' = StoredModels

LEMMA AdditionsOnly == KnowledgeInv /\ [Next]_vars => OthersOnlyAdd
<1>. SUFFICES ASSUME KnowledgeInv, [Next]_vars PROVE OthersOnlyAdd
  OBVIOUS
<1>0. TypeOK /\ LockInv
  BY DEF KnowledgeInv
<1>1. ASSUME UNCHANGED chunks PROVE OthersOnlyAdd
  BY <1>1 DEF OthersOnlyAdd, StoredModels
<1>2. ASSUME NEW i \in Importers, Commit(i) PROVE OthersOnlyAdd
  <2>. DEFINE batch == importer[i].batch
  <2>1. SUFFICES ASSUME ~batch.rebuild
                 PROVE  /\ \A f \in Files : chunks[f] # NoChunk => chunks'[f] = chunks[f]
                        /\ StoredModels # {} => StoredModels' = StoredModels
    BY <1>2 DEF OthersOnlyAdd, Rebuilds
  <2>2. Writing(i) /\ \A f \in Files : chunks'[f] = ChunkAfter(batch, f)
    BY <1>2 DEF Commit, Writing
  <2>3. batch \in Batches
    BY <1>0, <2>2, WritingFacts
  <2>4. \A f \in Files : chunks[f] # NoChunk => chunks'[f] = chunks[f]
    BY <2>1, <2>2 DEF ChunkAfter
  <2>5. ASSUME StoredModels # {} PROVE StoredModels' = StoredModels
    <3>1. StoredModels = {batch.model}
      BY <1>0, <2>1, <2>2, <2>5 DEF LockInv
    <3>2. StoredModels \subseteq StoredModels'
      BY <2>4 DEF StoredModels
    <3>3. ASSUME NEW f \in Files, chunks'[f] # NoChunk PROVE chunks'[f].model = batch.model
      <4>1. \/ chunks'[f].model = batch.model
            \/ chunks'[f] = chunks[f]
        BY <1>0, <2>2, <2>3, <3>3, ChunkAfterType
      <4>2. CASE chunks'[f] = chunks[f]
        BY <3>1, <3>3, <4>2 DEF StoredModels
      <4>. QED
        BY <4>1, <4>2
    <3>4. StoredModels' \subseteq {batch.model}
      BY <3>3 DEF StoredModels
    <3>. QED
      BY <3>1, <3>2, <3>4
  <2>. QED
    BY <2>4, <2>5
<1>3. ASSUME NEW i \in Importers, ImportStep(i), ~Commit(i) PROVE UNCHANGED chunks
  BY <1>3 DEF ImportStep, BeginImport, DeleteKey, EndImport, StopImport
<1>4. ASSUME NEW s \in Searches, SearchStep(s) PROVE UNCHANGED chunks
  BY <1>4 DEF SearchStep, StartSearch, StartUncounted, CacheHit, CacheMiss, SearchSemantic,
     SearchKeyword, StoreAnswer, SearchFails
<1>5. ASSUME NEW k \in Keys, Expire(k) PROVE UNCHANGED chunks
  BY <1>5 DEF Expire
<1>6. CASE UNCHANGED vars
  BY <1>1, <1>6 DEF vars
<1>. QED
  BY <1>1, <1>2, <1>3, <1>4, <1>5, <1>6 DEF Next

\* Whatever imports run at once, die or are started with other settings: only
\* the commit of a rebuild replaces or removes a stored chunk, or brings vectors
\* of another model into a table that has some.
THEOREM OnlyRebuildsReplace == Spec => [][OthersOnlyAdd]_vars
<1>1. KnowledgeInv /\ [Next]_vars => [OthersOnlyAdd]_vars
  BY AdditionsOnly
<1>. QED
  BY <1>1, KnowledgeInvariant, PTL DEF Spec

-----------------------------------------------------------------------------
(* The rate limit.                                                          *)

\* A window under way is not prolonged, and its number only grows until it ends.
WindowStands ==
  \A u \in Counted :
    /\ counter[u].ttl > 0 => counter'[u].ttl <= counter[u].ttl
    /\ counter'[u].count < counter[u].count => counter[u].ttl = 1 /\ counter'[u] = Absent

\* What a request and a tick do to one counter.
LEMMA CounterMoves ==
  ASSUME NEW c \in Counter, NEW d \in {c, Consumed(c), Aged(c)}
  PROVE  /\ c.ttl > 0 => d.ttl <= c.ttl
         /\ d.count < c.count => c.ttl = 1 /\ d = Absent
<1>. USE LimitAssumption, WindowAssumption
<1>0. c.count \in 0..(Limit + 1) /\ c.ttl \in 0..Window /\ (c.ttl = 0 => c = Absent)
  BY DEF Counter, Absent
<1>1. CASE d = c
  BY <1>0, <1>1
<1>2. CASE d = Consumed(c)
  <2>1. /\ Incremented(c).ttl = c.ttl
        /\ Incremented(c).count = IF c.count > Limit THEN c.count ELSE c.count + 1
    BY DEF Incremented, Counter, Absent
  <2>2. /\ d.count = Incremented(c).count
        /\ d.ttl = IF c.ttl = 0 THEN Window ELSE c.ttl
    BY <1>2, <2>1 DEF Consumed, Expiring, Incremented, Counter, Absent
  <2>. QED
    BY <1>0, <2>1, <2>2
<1>3. CASE d = Aged(c)
  <2>1. CASE c.ttl = 0
    BY <1>0, <1>3, <2>1 DEF Aged
  <2>2. CASE c.ttl = 1
    BY <1>3, <2>2 DEF Aged, Absent
  <2>3. CASE c.ttl # 0 /\ c.ttl # 1
    <3>1. d = [c EXCEPT !.ttl = c.ttl - 1]
      BY <1>3, <2>3 DEF Aged
    <3>2. d.count = c.count /\ d.ttl = c.ttl - 1
      BY <2>3, <3>1 DEF Counter, Absent
    <3>. QED
      BY <1>0, <3>2
  <2>. QED
    BY <2>1, <2>2, <2>3
<1>. QED
  BY <1>1, <1>2, <1>3

LEMMA WindowStep == TypeOK /\ [Next]_vars => WindowStands
<1>. SUFFICES ASSUME TypeOK, [Next]_vars PROVE WindowStands
  OBVIOUS
<1>1. counter \in [Counted -> Counter]
  BY DEF TypeOK
<1>2. \A u \in Counted : counter'[u] \in {counter[u], Consumed(counter[u]), Aged(counter[u])}
  <2>1. ASSUME NEW s \in Searches, SearchStep(s)
        PROVE  UNCHANGED counter \/ \E u \in Counted : Consume(u)
    BY <2>1 DEF SearchStep, StartSearch, StartUncounted, CacheHit, CacheMiss,
       SearchSemantic, SearchKeyword, StoreAnswer, SearchFails
  <2>2. UNCHANGED counter \/ (\E u \in Counted : Consume(u)) \/ Tick
    BY <2>1 DEF Next, Expire, vars
  <2>. QED
    BY <1>1, <2>2 DEF Consume, Tick
<1>. QED
  BY <1>1, <1>2, CounterMoves DEF WindowStands

\* However often a blocked user tries, the window he is in is not prolonged
\* (EXPIRE NX), and no request lowers or forgets his number before it is over.
THEOREM WindowsStand == Spec => [][WindowStands]_vars
<1>1. TypeOK /\ [Next]_vars => [WindowStands]_vars
  BY WindowStep
<1>. QED
  BY <1>1, KnowledgeTypes, PTL DEF Spec
=============================================================================
