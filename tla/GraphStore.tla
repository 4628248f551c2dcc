----------------------------- MODULE GraphStore -----------------------------
(***************************************************************************)
(* The persistent retrieval store (store.Ladybug) and the live reindex of   *)
(* the program: the graph database on disk, its two search indexes, the     *)
(* mutex around its one connection, the goroutine that writes an index      *)
(* under a deadline, and the loop that reindexes when the operator signals. *)
(*                                                                         *)
(* A note stands for a file of the vault and the chunk it holds, with its   *)
(* content: an edited file is another note.  The database is external: a    *)
(* transaction is atomic, an index lists what was stored when it was built, *)
(* and a query returns only what is still stored.                           *)
(***************************************************************************)
CONSTANTS
    Notes,    \* the notes the vault may hold
    Callers   \* the goroutines that query the store

VARIABLES
    vault,    \* the notes in the vault directory
    \* the database:
    table,    \* the chunk table: none, without or with a column for embeddings
    chunks,   \* the chunks stored
    embedded, \* those of them with an embedding
    graph,    \* the notes of the structured graph
    fts,      \* whether there is a full-text index
    vec,      \* what the vector index lists
    \* the process:
    up,       \* where it stands
    embedder, \* whether it has an embedder
    dim,      \* whether the store knows the dimension of its embeddings
    poisoned,
    hup,      \* the channel of SIGHUP, of capacity one
    job,      \* the reindex under way
    writer,   \* the goroutine that writes
    call,     \* the query each caller has under way on the connection
    \* history, read by no action:
    edited,   \* whether the vault was edited since the last signal or start
    last,     \* whether the last index succeeded
    missed,   \* whether the process did not find the chunk table that there is
    bare      \* the chunks such a process has stored without an embedding

diskVars == <<table, chunks, embedded, graph, fts, vec>>
missing  == <<missed, bare>>
history  == <<edited, last, missing>>
storeVars == <<vault, diskVars, up, embedder, dim, poisoned, hup, job, writer, call, history>>

\* A vector index: none, or one that lists a set of chunks; a reindex; and its writer.
Indexes == [built: BOOLEAN, of: SUBSET Notes]
Jobs    == [at: {"idle", "read", "index", "wait"}, todo: SUBSET Notes, docs: SUBSET Notes]
Writers == [at: {"none", "write", "fts", "vec", "ok", "failed"}, docs: SUBSET Notes,
            new: SUBSET Notes, vectors: SUBSET Notes]

NoIndex   == [built |-> FALSE, of |-> {}]
Index(of) == [built |-> TRUE, of |-> of]

NoJob    == [at |-> "idle", todo |-> {}, docs |-> {}]
NoWriter == [at |-> "none", docs |-> {}, new |-> {}, vectors |-> {}]
Quiet    == [c \in Callers |-> "none"]

\* The types of the variables; what has an embedding is stored, and only in a table
\* with a column for it.
StoreTypeOK ==
    /\ vault \in SUBSET Notes
    /\ table \in {"none", "plain", "vectors"}
    /\ chunks \in SUBSET Notes /\ embedded \in SUBSET chunks /\ graph \in SUBSET Notes
    /\ table # "vectors" => embedded = {}
    /\ fts \in BOOLEAN /\ vec \in Indexes
    /\ up \in {"down", "starting", "serving", "exiting"}
    /\ embedder \in BOOLEAN /\ dim \in BOOLEAN /\ poisoned \in BOOLEAN /\ hup \in BOOLEAN
    /\ job \in Jobs /\ writer \in Writers
    /\ call \in [Callers -> {"none", "keyword", "semantic"}]
    /\ edited \in BOOLEAN /\ last \in BOOLEAN /\ missed \in BOOLEAN /\ bare \in SUBSET chunks

StoreInit ==
    /\ vault \in SUBSET Notes
    /\ table = "none" /\ chunks = {} /\ embedded = {} /\ graph = {}
    /\ fts = FALSE /\ vec = NoIndex
    /\ up = "down" /\ embedder = FALSE /\ dim = FALSE /\ poisoned = FALSE
    /\ hup = FALSE /\ job = NoJob /\ writer = NoWriter /\ call = Quiet
    /\ edited = FALSE /\ last = FALSE /\ missed = FALSE /\ bare = {}

-----------------------------------------------------------------------------
(* The process *)

\* What loadDim may find: the table, or none, which is what chunkTableExists takes a
\* query that failed or a row that it cannot read for.  (A row of the table's columns that
\* cannot be read is skipped, which comes to the same without an embedder, and ends the
\* program with one.)
Findable == {table, "none"}

\* Variant with a bug: the dimension comes from embedding, never from the table.
LoadDim_Forgotten(found) == FALSE
\* loadDim: the store knows the dimension when it finds a table with embeddings.
LoadDim(found) == found = "vectors"

\* NewLadybug refuses a table without embeddings when there is an embedder.
Opens(withEmbedder, found) == ~(withEmbedder /\ found = "plain")

\* The program opens the store and reads the vault for its first index.
Start(withEmbedder) ==
    /\ up = "down"
    /\ \E found \in Findable :
        /\ Opens(withEmbedder, found)
        /\ dim' = LoadDim(found)
        /\ missed' = (found # table)
    /\ up' = "starting"
    /\ embedder' = withEmbedder
    /\ job' = [at |-> "read", todo |-> Notes, docs |-> {}]
    /\ edited' = FALSE
    /\ UNCHANGED <<vault, diskVars, poisoned, hup, writer, call, last, bare>>

\* The process ends, at any time; the database keeps what was committed.
Dies ==
    /\ up # "down"
    /\ up' = "down" /\ embedder' = FALSE /\ dim' = FALSE /\ poisoned' = FALSE
    /\ hup' = FALSE /\ job' = NoJob /\ writer' = NoWriter /\ call' = Quiet
    /\ missed' = FALSE
    /\ UNCHANGED <<vault, diskVars, edited, last, bare>>

\* The operator edits the vault.
Edit ==
    /\ \E n \in Notes : vault' = IF n \in vault THEN vault \ {n} ELSE vault \cup {n}
    /\ edited' = TRUE
    /\ UNCHANGED <<diskVars, up, embedder, dim, poisoned, hup, job, writer, call, last, missing>>

\* Variant with a bug: a signal that comes during a reindex is lost.
Pending_Unbuffered == hup \/ job.at = "idle"
Pending == TRUE

\* The operator signals; the channel holds one signal.
Signal ==
    /\ up = "serving"
    /\ hup' = Pending
    /\ edited' = FALSE
    /\ UNCHANGED <<vault, diskVars, up, embedder, dim, poisoned, job, writer, call, last, missing>>

-----------------------------------------------------------------------------
(* Indexing *)

\* The mutex is held by an index, until it returns, and by each query.
Locked == job.at \in {"index", "wait"} \/ \E c \in Callers : call[c] # "none"

\* The index under way returns: at the start the bot serves or the program ends, later
\* it goes on serving.
Returns(ok) ==
    /\ job' = NoJob
    /\ up' = IF up # "starting" THEN up ELSE IF ok THEN "serving" ELSE "exiting"
    /\ last' = ok

\* The loop takes the signal and reads the vault.
Reindex ==
    /\ up = "serving"
    /\ hup /\ job = NoJob
    /\ hup' = FALSE
    /\ job' = [at |-> "read", todo |-> Notes, docs |-> {}]
    /\ UNCHANGED <<vault, diskVars, up, embedder, dim, poisoned, writer, call, history>>

\* VaultDocs reads one file after the other, while they may be edited.
ReadNote(n) ==
    /\ job.at = "read" /\ n \in job.todo
    /\ job' = [job EXCEPT !.todo = @ \ {n}, !.docs = IF n \in vault THEN @ \cup {n} ELSE @]
    /\ UNCHANGED <<vault, diskVars, up, embedder, dim, poisoned, hup, writer, call, history>>

ReadFails ==
    /\ job.at = "read"
    /\ Returns(FALSE)
    /\ UNCHANGED <<vault, diskVars, embedder, dim, poisoned, hup, writer, call, edited, missing>>

\* Index takes the mutex, and fails at once when the store is poisoned.
BeginIndex ==
    /\ job.at = "read" /\ job.todo = {}
    /\ ~Locked
    /\ \/ /\ poisoned
          /\ Returns(FALSE)
       \/ /\ ~poisoned
          /\ job' = [job EXCEPT !.at = "index"]
          /\ UNCHANGED <<up, last>>
    /\ UNCHANGED <<vault, diskVars, embedder, dim, poisoned, hup, writer, call, edited, missing>>

\* What may be staged, the only chunks that are embedded: those whose hash is not stored
\* yet.  storedHashes of a store that knows no dimension asks for the table again, and
\* takes one that is not found for an empty one.
Deltas == {job.docs \ chunks} \cup (IF dim THEN {} ELSE {job.docs})

\* ensureChunkTable, which creates the table where there is none; then the write begins.
BeginWrite(new) ==
    /\ table' = IF table # "none" THEN table ELSE IF dim' THEN "vectors" ELSE "plain"
    /\ writer' = [at |-> "write", docs |-> job.docs, new |-> new,
                  vectors |-> IF embedder THEN new ELSE {}]
    /\ job' = [job EXCEPT !.at = "wait"]
    /\ UNCHANGED <<up, last>>

\* embedTexts, which learns the dimension, and the write.  Reading the hashes, embedding
\* and creating the table may each fail.
Embed ==
    /\ job.at = "index"
    /\ \/ /\ Returns(FALSE)
          /\ UNCHANGED <<dim, table, writer>>
       \/ \E new \in Deltas :
            /\ dim' = (dim \/ (embedder /\ new # {}))
            /\ \/ /\ Returns(FALSE)
                  /\ UNCHANGED <<table, writer>>
               \/ BeginWrite(new)
    /\ UNCHANGED <<vault, chunks, embedded, graph, fts, vec, embedder, poisoned, hup, call,
                   edited, missing>>

\* upsertChunks indexes the embeddings by the chunks it writes, when the dimension is
\* known: without them, the process panics.
Panic ==
    /\ writer.at = "write"
    /\ dim /\ ~(writer.new \subseteq writer.vectors)
    /\ Dies

\* upsertChunks and pruneChunks.
Stored == (chunks \cup writer.new) \cap writer.docs

\* The chunks that a process which missed the table leaves without an embedding.
Bare == IF dim THEN bare \ writer.new
        ELSE IF missed THEN bare \cup (writer.new \ chunks)
        ELSE bare

\* The transaction, which fails when embeddings are written to a table without a column
\* for them, and may fail for another reason.
Write ==
    /\ writer.at = "write"
    /\ dim => writer.new \subseteq writer.vectors
    /\ \/ /\ dim /\ writer.new # {} => table = "vectors"
          /\ chunks' = Stored
          /\ embedded' = (embedded \cup (IF dim THEN writer.new ELSE {})) \cap Stored
          /\ bare' = Bare \cap Stored
          /\ graph' = writer.docs
          /\ writer' = [writer EXCEPT !.at = "fts"]
       \/ /\ writer' = [writer EXCEPT !.at = "failed"]
          /\ UNCHANGED <<chunks, embedded, bare, graph>>
    /\ UNCHANGED <<vault, table, fts, vec, up, embedder, dim, poisoned, hup, job, call, edited,
                   last, missed>>

\* rebuildIndexes, outside the transaction.  A failure to drop or to create the
\* full-text index is ignored.
BuildFts ==
    /\ writer.at = "fts"
    /\ fts' \in BOOLEAN
    /\ writer' = [writer EXCEPT !.at = IF dim THEN "vec" ELSE "ok"]
    /\ UNCHANGED <<vault, table, chunks, embedded, graph, vec, up, embedder, dim, poisoned, hup,
                   job, call, history>>

BuildVec ==
    /\ writer.at = "vec"
    /\ \/ /\ table = "vectors"
          /\ vec' = Index(embedded)
          /\ writer' = [writer EXCEPT !.at = "ok"]
       \/ /\ vec' \in {NoIndex, vec}
          /\ writer' = [writer EXCEPT !.at = "failed"]
    /\ UNCHANGED <<vault, table, chunks, embedded, graph, fts, up, embedder, dim, poisoned, hup,
                   job, call, history>>

\* The write came through in time.
Finish ==
    /\ job.at = "wait" /\ writer.at \in {"ok", "failed"}
    /\ Returns(writer.at = "ok")
    /\ writer' = NoWriter
    /\ UNCHANGED <<vault, diskVars, embedder, dim, poisoned, hup, call, edited, missing>>

\* Variant with a bug: the write is waited for without a deadline.
TimesOut_Never == FALSE
TimesOut == job.at = "wait"

\* The deadline of runWriteWithDeadline: Index returns, the goroutine that writes is
\* left where it is, and the store is poisoned.
Deadline ==
    /\ TimesOut
    /\ poisoned' = TRUE
    /\ Returns(FALSE)
    /\ UNCHANGED <<vault, diskVars, embedder, dim, hup, writer, call, edited, missing>>

-----------------------------------------------------------------------------
(* Queries *)

\* Variant with a bug: a poisoned store is queried.
Usable_Always == TRUE
Usable == ~poisoned

\* A method that finds the store poisoned fails without a query.
FailsFast == up = "serving" /\ ~Locked /\ ~Usable

\* A method takes the mutex and queries the connection.
BeginQuery(c, leg) ==
    /\ up = "serving"
    /\ ~Locked
    /\ Usable
    /\ call[c] = "none"
    /\ call' = [call EXCEPT ![c] = leg]
    /\ UNCHANGED <<vault, diskVars, up, embedder, dim, poisoned, hup, job, writer, history>>

\* Variant with a bug: the mutex stays held.
EndQuery_Holding(c) == call[c] # "none" /\ UNCHANGED storeVars
EndQuery(c) ==
    /\ call[c] # "none"
    /\ call' = [call EXCEPT ![c] = "none"]
    /\ UNCHANGED <<vault, diskVars, up, embedder, dim, poisoned, hup, job, writer, history>>

StoreStep ==
    \/ \E e \in BOOLEAN : Start(e)
    \/ \E n \in Notes : ReadNote(n)
    \/ \E c \in Callers : EndQuery(c) \/ \E leg \in {"keyword", "semantic"} : BeginQuery(c, leg)
    \/ Dies \/ Edit \/ Signal \/ Reindex \/ ReadFails \/ BeginIndex \/ Embed
    \/ Panic \/ Write \/ BuildFts \/ BuildVec \/ Finish \/ Deadline

StoreSpec == StoreInit /\ [][StoreStep]_storeVars

-----------------------------------------------------------------------------
(* Properties *)

\* The connection is not safe for concurrent use: at no time are two calls under way on
\* it, the write that missed its deadline included (comments of Ladybug and of poisoned).
OneCallOnConnection ==
    /\ \A c, d \in Callers : call[c] # "none" /\ call[d] # "none" => c = d
    /\ writer.at \in {"write", "fts", "vec"} => \A c \in Callers : call[c] = "none"

\* Where embeddings are kept, every chunk stored has one, over restarts with and without
\* an embedder, failed writes and crashes: the delta would never make up for one that is
\* missing.  The exception is what a process stored that did not find the table when it
\* opened it (Index, upsertChunks, chunkTableExists).
EveryChunkHasVector == table = "vectors" => embedded = chunks \ bare

\* A store with an embedder whose semantic search can only find nothing is empty, or the
\* process did not find its table (loadDim, chunkTableExists).
SilentOnlyWhenEmpty == up = "serving" /\ embedder /\ ~dim /\ ~missed => chunks = {}

\* When the vault is as it was at the last signal and nothing is under way, the index
\* that succeeded last shows it, to the structured and to the semantic search, however
\* signals, edits, reads of files and restarts came (reindex loop of the program); the
\* semantic search misses no more than the chunks that are bare.
SignalledIsServed ==
    up = "serving" /\ last /\ ~hup /\ job = NoJob /\ ~edited =>
        chunks = vault /\ graph = vault /\ (dim => vec = Index(vault \ bare))

\* Comment of upsertChunks: a known dimension means that every chunk was embedded, an
\* unknown one that none was.
VectorsForAllOrNone ==
    writer.at = "write" => writer.vectors = IF dim THEN writer.new ELSE {}
=============================================================================
