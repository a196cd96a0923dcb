--------------------------- MODULE KnowledgeImport ---------------------------
(***************************************************************************)
(* Imports into the knowledge base: the chunks in PostgreSQL, the advisory *)
(* lock that separates the imports, and the invalidation of the cached     *)
(* searches that follows each commit.                                      *)
(*                                                                         *)
(* A file stands for its chunks: their ids depend on its name and content, *)
(* they are stored together, with one visibility and one embedding model.  *)
(***************************************************************************)
EXTENDS Naturals, FiniteSets

CONSTANTS
  Files,
  Visibilities,   \* of the allowed ones, those the imports use
  Models,         \* embedding models in the settings of the processes
  Batches,        \* what may be imported: files, their visibility, the model
  Importers,      \* runs of ingestion_cli that may overlap
  Roles,          \* roles of the users who search
  NoChunk, NoBatch, NoEntry

\* What each role may see.
VisibleTo ==
  [CUSTOMER |-> {"PUBLIC"},
   SUPPORT  |-> {"PUBLIC", "SUPPORT"},
   ADMIN    |-> {"PUBLIC", "SUPPORT", "ADMIN"}]

Chunk == [visibility : Visibilities, model : Models]
Batch == [files : SUBSET Files, visibility : Visibilities, model : Models,
          rebuild : BOOLEAN]

\* Mutant: the cache key leaves the visibilities out.
KeyOfQueryAlone(role) == {}

\* The cache key, for one query, limit, model and dimension.
KeyFor(role) == VisibleTo[role]

Keys == {KeyFor(role) : role \in Roles}

\* A citation, with (history) the visibility under which it was read.
Citation == [file : Files, visibility : Visibilities]

\* A cached answer, and (history) the imports that committed since it was cached
\* and have not ended.
Entry == [hits : SUBSET Citation, outdatedBy : SUBSET Importers]

ASSUME ImportAssumption ==
  /\ Visibilities \subseteq {"PUBLIC", "SUPPORT", "ADMIN"}
  /\ Roles \subseteq {"CUSTOMER", "SUPPORT", "ADMIN"}
  /\ Batches \subseteq Batch
  /\ NoChunk \notin Chunk /\ NoBatch \notin Batch /\ NoEntry \notin Entry

VARIABLES
  chunks,     \* agent_core.knowledge_chunks
  importer,   \* where each import stands; left are the keys SCAN has to return
  cache       \* the keys rag:v1:* in Redis

NoImport == [pc |-> "idle", batch |-> NoBatch, left |-> {}]
Import ==
  {NoImport}
  \cup [pc : {"writing"}, batch : Batches, left : {{}}]
  \cup [pc : {"scanning"}, batch : {NoBatch}, left : SUBSET Keys]

StoredModels == {chunks[f].model : f \in {g \in Files : chunks[g] # NoChunk}}

\* Mutant: no import waits for another.
NeverLocked == TRUE

\* pg_advisory_xact_lock.
LockFree == \A i \in Importers : importer[i].pc # "writing"

\* The transaction begins: the lock, then for an increment the check of the
\* stored models, which ends the import if there is another one.
BeginImport(i, batch) ==
  /\ importer[i].pc = "idle"
  /\ LockFree
  /\ batch.rebuild \/ StoredModels \subseteq {batch.model}
  /\ importer' = [importer EXCEPT ![i] = [pc |-> "writing", batch |-> batch, left |-> {}]]
  /\ UNCHANGED <<chunks, cache>>

\* DELETE, if it is a rebuild, and INSERT ... ON CONFLICT (chunk_id) DO NOTHING.
ChunkAfter(batch, f) ==
  IF f \in batch.files /\ (batch.rebuild \/ chunks[f] = NoChunk)
    THEN [visibility |-> batch.visibility, model |-> batch.model]
    ELSE IF batch.rebuild THEN NoChunk ELSE chunks[f]

Outdated(entry, i) ==
  IF entry = NoEntry THEN NoEntry ELSE [entry EXCEPT !.outdatedBy = @ \cup {i}]

Excused(entry, i) ==
  IF entry = NoEntry THEN NoEntry ELSE [entry EXCEPT !.outdatedBy = @ \ {i}]

\* Mutant: SCAN runs before the commit, when nothing is outdated yet.
ScannedEarly == {}

\* SCAN returns at least the keys that are there when it starts.
Scanned == {k \in Keys : cache[k] # NoEntry}

\* The transaction commits, and the invalidation starts.
Commit(i) ==
  /\ importer[i].pc = "writing"
  /\ chunks' = [f \in Files |-> ChunkAfter(importer[i].batch, f)]
  /\ importer' = [importer EXCEPT ![i] =
       [pc |-> "scanning", batch |-> NoBatch, left |-> Scanned]]
  /\ cache' = [k \in Keys |-> Outdated(cache[k], i)]

\* SCAN returns a key, perhaps one set since it started, and it is deleted.
DeleteKey(i, k) ==
  /\ importer[i].pc = "scanning" /\ importer[i].left # {}
  /\ cache' = [cache EXCEPT ![k] = NoEntry]
  /\ importer' = [importer EXCEPT ![i].left = @ \ {k}]
  /\ UNCHANGED chunks

EndImport(i) ==
  /\ importer[i].pc = "scanning" /\ importer[i].left = {}
  /\ importer' = [importer EXCEPT ![i] = NoImport]
  /\ UNCHANGED <<chunks, cache>>

\* The process dies or a statement fails: an open transaction is rolled back.
\* If it is Redis that fails, the invalidation ends where it is, unnoticed.
StopImport(i) ==
  /\ importer[i].pc # "idle"
  /\ importer' = [importer EXCEPT ![i] = NoImport]
  /\ cache' = [k \in Keys |-> Excused(cache[k], i)]
  /\ UNCHANGED chunks

ImportStep(i) ==
  \/ \E batch \in Batches : BeginImport(i, batch)
  \/ Commit(i)
  \/ \E k \in Keys : DeleteKey(i, k)
  \/ EndImport(i)
  \/ StopImport(i)
=============================================================================
