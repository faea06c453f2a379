---------------------------- MODULE SourceChunks ----------------------------
(***************************************************************************)
(* Source RAG: a run looks its question up among the stored chunks of      *)
(* earlier sources, fetches what it needs, and at the end indexes its      *)
(* fresh documents (rag/*, agent/pipeline/rag_nodes.py).                   *)
(*                                                                         *)
(* Indexing runs in a worker thread that the run stops waiting for after   *)
(* RAG_TIMEOUT_S; the thread cannot be stopped.  All threads of the        *)
(* process share one store object; the Qdrant server outlives the process. *)
(* A request to the server may fail with or without having been executed.  *)
(*                                                                         *)
(* The text of a page is its version, divided into Length[version] pieces. *)
(***************************************************************************)
EXTENDS Integers, FiniteSets, SequencesExt

CONSTANTS
  Run,        \* the runs of the graph
  Page,       \* pages: sources with an id
  Length,     \* the number of pieces of each version's text
  FieldCount, \* the payload indexes of the collection
  TopK,       \* RAG_TOP_K
  FinalTopK,  \* RERANK_TOP_K, or again RAG_TOP_K when nothing is reranked
  MinChunks,  \* RAG_MIN_CHUNKS
  Batch,      \* RAG_EMBED_BATCH_SIZE
  MaxDocs,    \* bound: the documents one run fetches
  MaxFaults   \* bound: the failures and crashes of a behaviour

Version == DOMAIN Length
Pieces == {Length[v] : v \in Version}
Piece == UNION {1..n : n \in Pieces}

ASSUME ChunksAssumption ==
  /\ Length \in Seq(Nat \ {0}) /\ Length # <<>>
  /\ FieldCount \in Nat \ {0} /\ TopK \in Nat \ {0} /\ FinalTopK \in Nat \ {0}
  /\ MinChunks \in Nat \ {0} /\ Batch \in Nat \ {0}
  /\ MaxDocs \in Nat /\ MaxFaults \in Nat

VARIABLES
  live,      \* the version of each page on the web
  exists,    \* the collection is there
  indexes,   \* how many of its payload indexes are
  points,    \* the stored chunks
  ready,     \* SourceChunkStore._ready
  pc,        \* where each run is
  docs,      \* its source_documents
  thread,    \* where its indexing thread is
  todo,      \* the chunks the thread has still to write
  written,   \* and the number it has written
  reported,  \* what index() returned
  faults     \* failures so far

server == <<exists, indexes, points>>
vars == <<live, server, ready, pc, docs, thread, todo, written, reported, faults>>

\* chunk_id_for: the page and the index
ChunkId == Page \X Piece

\* What is stored under an id: a piece of the page's text in some version, or nothing
Absent == [ver |-> 0, piece |-> 0]
Text == [ver : Version, piece : Piece]

\* A document fetched from the web holds the whole text of its page; one that was made from a
\* stored chunk (chunk_to_document) holds that piece.
Whole(p) == [page |-> p, ver |-> live[p], piece |-> 0]
StoredDoc(id) == [page |-> id[1], ver |-> points[id].ver, piece |-> points[id].piece]
Doc == [page : Page, ver : Version, piece : {0} \cup Piece]
Chunk == [page : Page, index : Piece, ver : Version, piece : Piece]

Id(chunk) == <<chunk.page, chunk.index>>

\* split_text: the windows of a text, in order
Split(ver) == 1..Length[ver]

\* chunk_document
Chunks(doc) ==
  LET chunk(i, piece) == [page |-> doc.page, index |-> i, ver |-> doc.ver, piece |-> piece]
  IN IF doc.piece = 0 THEN [i \in Split(doc.ver) |-> chunk(i, i)] ELSE <<chunk(1, doc.piece)>>

\* Variant: whatever has text is indexed
IndexableAll(d) == DOMAIN d

\* indexable: not the documents that came out of the store
Indexable(d) == {i \in DOMAIN d : d[i].piece = 0}

AllChunks(d) == FlattenSeq([i \in DOMAIN d |-> IF i \in Indexable(d) THEN Chunks(d[i]) ELSE <<>>])

TypeOK ==
  /\ live \in [Page -> Version]
  /\ exists \in BOOLEAN /\ ready \in BOOLEAN
  /\ indexes \in 0..FieldCount
  /\ points \in [ChunkId -> Text \cup {Absent}]
  /\ pc \in [Run -> {"new", "research", "waiting", "over", "gone"}]
  /\ docs \in [Run -> Seq(Doc)]
  /\ thread \in [Run -> {"none", "ensure", "exists", "create", "fields", "upsert", "done", "failed"}]
  /\ todo \in [Run -> Seq(Chunk)]
  /\ written \in [Run -> Nat]
  /\ reported \in [Run -> Nat]
  /\ faults \in 0..MaxFaults
  \* nothing is stored and nothing is indexed in a collection that is not there
  /\ ~exists => indexes = 0 /\ \A id \in ChunkId : points[id] = Absent

Init ==
  /\ live = [p \in Page |-> 1]
  /\ exists = FALSE /\ indexes = 0
  /\ points = [id \in ChunkId |-> Absent]
  /\ ready = FALSE
  /\ pc = [r \in Run |-> "new"]
  /\ docs = [r \in Run |-> <<>>]
  /\ thread = [r \in Run |-> "none"]
  /\ todo = [r \in Run |-> <<>>]
  /\ written = [r \in Run |-> 0]
  /\ reported = [r \in Run |-> 0]
  /\ faults = 0

-----------------------------------------------------------------------------
(* The web *)

Publish(p) ==
  /\ live[p] + 1 \in Version
  /\ live' = [live EXCEPT ![p] = @ + 1]
  /\ UNCHANGED <<server, ready, pc, docs, thread, todo, written, reported, faults>>

-----------------------------------------------------------------------------
(* Retrieval *)

Least(a, b) == IF a < b THEN a ELSE b
Greatest(a, b) == IF a < b THEN b ELSE a

\* SourceChunkStore.search: the best chunks of the legs that the mode has
Candidates ==
  {S \in SUBSET {id \in ChunkId : points[id] # Absent} :
     IsFiniteSet(S) /\ Cardinality(S) <= Greatest(TopK, FinalTopK)}

\* rerank: the model's order, or the given one, decides which are kept.
Kept(S) == {T \in SUBSET S : Cardinality(T) = Least(Cardinality(S), FinalTopK)}

\* _scored: any of them may reach the threshold.
Relevant(S) == SUBSET S

\* source_rag_node after retrieve: enough relevant chunks are the run's documents.
Found(relevant) ==
  IF Cardinality(relevant) >= MinChunks
  THEN SetToSeq({StoredDoc(id) : id \in relevant})
  ELSE <<>>

Starts(r, d) ==
  /\ pc[r] = "new"
  /\ pc' = [pc EXCEPT ![r] = "research"]
  /\ docs' = [docs EXCEPT ![r] = d]
  /\ UNCHANGED <<live, server, ready, thread, todo, written, reported, faults>>

\* _retrieve_sync; a collection that is not there has no candidates.  The two requests of the fallback
\* fusion (_hybrid_points) are read as one.
Retrieve(r) ==
  \E S \in Candidates : \E T \in Kept(S) : \E relevant \in Relevant(T) : Starts(r, Found(relevant))

\* rag_gate_router passes by the store, or retrieval fails or takes too long.
NotRetrieved(r) == Starts(r, <<>>)

\* The first search, the gap search and the retry
Fetch(r, p) ==
  /\ pc[r] = "research"
  /\ Cardinality(Indexable(docs[r])) < MaxDocs
  /\ docs' = [docs EXCEPT ![r] = Append(@, Whole(p))]
  /\ UNCHANGED <<live, server, ready, pc, thread, todo, written, reported, faults>>

-----------------------------------------------------------------------------
(* index_sources_node and SourceIndexer.index *)

Ends(r, n) ==
  /\ pc' = [pc EXCEPT ![r] = "over"]
  /\ reported' = [reported EXCEPT ![r] = n]
  /\ UNCHANGED <<live, server, ready, docs, thread, todo, written, faults>>

Ingest(r) ==
  /\ pc[r] = "research"
  /\ Indexable(docs[r]) # {}
  /\ pc' = [pc EXCEPT ![r] = "waiting"]
  /\ thread' = [thread EXCEPT ![r] = "ensure"]
  /\ todo' = [todo EXCEPT ![r] = AllChunks(docs[r])]
  /\ UNCHANGED <<live, server, ready, docs, written, reported, faults>>

\* RAG_INGEST is off, or there is nothing to index.
SkipIngest(r) == pc[r] = "research" /\ Ends(r, 0)

\* Variant: an exception reports what was written before it
ReturnPartly(r) ==
  /\ pc[r] = "waiting" /\ thread[r] \in {"done", "failed"}
  /\ Ends(r, written[r])

Return(r) ==
  /\ pc[r] = "waiting" /\ thread[r] \in {"done", "failed"}
  /\ Ends(r, IF thread[r] = "done" THEN written[r] ELSE 0)

\* Variant: the call runs in the event loop, where no timer can interrupt it
GiveUpAfterwards(r) == Return(r)

\* wait_for: the timer fires; the thread goes on.
GiveUp(r) == pc[r] = "waiting" /\ Ends(r, 0)

-----------------------------------------------------------------------------
(* The thread: SourceChunkStore.upsert with ensure_collection *)

Goes(r, to) == thread' = [thread EXCEPT ![r] = to]

\* Variant: the flag is set before the work is done
EnsureAtOnce(r) ==
  /\ thread[r] = "ensure"
  /\ ready' = TRUE
  /\ IF ready THEN Goes(r, "upsert") ELSE Goes(r, "exists")
  /\ UNCHANGED <<live, server, pc, docs, todo, written, reported, faults>>

\* The flag is read without a lock.  (So is SourceIndexer._store: two first threads may build a store
\* each, whose flags are one here; a second flag only has the collection looked for again.)
Ensure(r) ==
  /\ thread[r] = "ensure"
  /\ IF ready THEN Goes(r, "upsert") ELSE Goes(r, "exists")
  /\ UNCHANGED <<live, server, ready, pc, docs, todo, written, reported, faults>>

CheckExists(r) ==
  /\ thread[r] = "exists"
  /\ IF exists THEN ready' = TRUE /\ Goes(r, "upsert")
               ELSE ready' = ready /\ Goes(r, "create")
  /\ UNCHANGED <<live, server, pc, docs, todo, written, reported, faults>>

\* Variant: a collection that another thread has just created is finished as if it were one's own
CreateOrJoin(r) ==
  /\ thread[r] = "create"
  /\ exists' = TRUE
  /\ Goes(r, "fields")
  /\ UNCHANGED <<live, indexes, points, ready, pc, docs, todo, written, reported, faults>>

\* create_collection raises when another thread was faster.
Create(r) ==
  /\ thread[r] = "create"
  /\ exists' = TRUE
  /\ IF exists THEN Goes(r, "failed") ELSE Goes(r, "fields")
  /\ UNCHANGED <<live, indexes, points, ready, pc, docs, todo, written, reported, faults>>

CreateIndex(r) ==
  /\ thread[r] = "fields"
  /\ indexes' = indexes + 1
  /\ IF indexes' = FieldCount THEN ready' = TRUE /\ Goes(r, "upsert")
                              ELSE ready' = ready /\ Goes(r, "fields")
  /\ UNCHANGED <<live, exists, points, pc, docs, todo, written, reported, faults>>

Part(r) == SubSeq(todo[r], 1, Least(Batch, Len(todo[r])))

\* The points after an upsert of the chunks: the same id is overwritten, the last one wins.
Upserted(chunks) ==
  [id \in ChunkId |->
     IF \E k \in DOMAIN chunks : Id(chunks[k]) = id
     THEN LET last == CHOOSE k \in DOMAIN chunks :
                        Id(chunks[k]) = id /\ \A j \in DOMAIN chunks : Id(chunks[j]) = id => j <= k
          IN [ver |-> chunks[last].ver, piece |-> chunks[last].piece]
     ELSE points[id]]

Upsert(r) ==
  /\ thread[r] = "upsert" /\ todo[r] # <<>>
  /\ points' = Upserted(Part(r))
  /\ written' = [written EXCEPT ![r] = @ + Len(Part(r))]
  /\ todo' = [todo EXCEPT ![r] = SubSeq(@, Len(Part(r)) + 1, Len(@))]
  /\ Goes(r, IF todo'[r] = <<>> THEN "done" ELSE "upsert")
  /\ UNCHANGED <<live, exists, indexes, ready, pc, docs, reported, faults>>

-----------------------------------------------------------------------------
(* Faults *)

Fails(r) ==
  /\ faults < MaxFaults
  /\ faults' = faults + 1
  /\ Goes(r, "failed")
  /\ UNCHANGED <<live, ready, pc, docs, todo, written, reported>>

\* A request, or the embedding before it, fails.
RequestFails(r) ==
  /\ thread[r] \in {"exists", "create", "fields", "upsert"}
  /\ Fails(r)
  /\ UNCHANGED server

\* The server executes a request, and its answer does not come in time (QDRANT_TIMEOUT_S).
CreateUnanswered(r) ==
  /\ thread[r] = "create"
  /\ Fails(r)
  /\ exists' = TRUE
  /\ UNCHANGED <<indexes, points>>

IndexUnanswered(r) ==
  /\ thread[r] = "fields"
  /\ Fails(r)
  /\ indexes' = indexes + 1
  /\ UNCHANGED <<exists, points>>

UpsertUnanswered(r) ==
  /\ thread[r] = "upsert"
  /\ Fails(r)
  /\ points' = Upserted(Part(r))
  /\ UNCHANGED <<exists, indexes>>

\* The process ends, with its runs and threads; runs that have not begun belong to the next one.
Crash ==
  /\ faults < MaxFaults
  /\ faults' = faults + 1
  /\ ready' = FALSE
  /\ pc' = [r \in Run |-> IF pc[r] \in {"research", "waiting"} THEN "gone" ELSE pc[r]]
  /\ thread' = [r \in Run |-> "none"]
  /\ UNCHANGED <<live, server, docs, todo, written, reported>>

-----------------------------------------------------------------------------
Work(r) ==
  \/ Ensure(r) \/ CheckExists(r) \/ Create(r) \/ CreateIndex(r) \/ Upsert(r)
  \/ RequestFails(r) \/ CreateUnanswered(r) \/ IndexUnanswered(r) \/ UpsertUnanswered(r)

Next ==
  \/ \E p \in Page : Publish(p)
  \/ \E r \in Run :
       \/ Retrieve(r) \/ NotRetrieved(r) \/ (\E p \in Page : Fetch(r, p))
       \/ Ingest(r) \/ SkipIngest(r) \/ Return(r) \/ GiveUp(r)
       \/ Work(r)
  \/ Crash

\* The event loop runs what is ready and its timers fire.  Nothing is assumed of threads and server.
Fairness ==
  \A r \in Run : WF_vars(NotRetrieved(r)) /\ WF_vars(Ingest(r) \/ SkipIngest(r)) /\ WF_vars(GiveUp(r))

Spec == Init /\ [][Next]_vars /\ Fairness

-----------------------------------------------------------------------------
(* Properties *)

\* Whatever was retrieved, re-indexed and overwritten by whom, chunk i of a page is the i-th piece
\* of a text of that page (chunk_id_for, indexable).
ChunksInPlace ==
  \A id \in ChunkId : points[id] # Absent =>
    points[id].piece = id[2] /\ id[2] <= Length[points[id].ver]

\* The store as an archive of pages: what runs find in it are pieces of texts that some run saw
\* whole, each in its place, and nothing that was stored is lost (chunk_id_for, indexable, upsert).
Archive == INSTANCE PageArchive WITH
  archive <- points,
  seen    <- [r \in Run |-> {docs[r][i] : i \in DOMAIN docs[r]}]

StoreIsArchive == Archive!Spec

\* Without a lock around ensure_collection, no thread writes before there is a collection, and no
\* two threads believe they created it.
CollectionIsMadeOnce ==
  /\ ready \/ (\E r \in Run : thread[r] \in {"fields", "upsert", "done"}) => exists
  /\ \A r, s \in Run : thread[r] = "fields" /\ thread[s] = "fields" => r = s

\* What a run reports as indexed is all there: every chunk of every fresh document, however many
\* other threads, late ones included, wrote at the same time (index, upsert).
ReportedIsStored ==
  \A r \in Run : pc[r] = "over" /\ reported[r] > 0 =>
    LET chunks == AllChunks(docs[r])
    IN reported[r] = Len(chunks) /\ \A k \in DOMAIN chunks : points[Id(chunks[k])] # Absent

\* Indexing never holds a run up for good: it ends even when its thread does not (wait_for).
RunsEnd == \A r \in Run : <>(pc[r] \in {"over", "gone"})

\* store.py:101: the collection and its payload indexes are created if missing.  A ready store
\* whose indexes nobody is creating has them all.
ReadyHasIndexes ==
  ready /\ (\A r \in Run : thread[r] # "fields") => indexes = FieldCount
=============================================================================
