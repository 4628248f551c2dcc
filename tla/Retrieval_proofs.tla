-------------------------- MODULE Retrieval_proofs --------------------------
(***************************************************************************)
(* What holds of the graph store for every vault and any number of          *)
(* callers, and of retrieval, which only moves the store as it moves by     *)
(* itself.                                                                 *)
(***************************************************************************)
EXTENDS Retrieval, TLAPS

-----------------------------------------------------------------------------
(* The inductive invariant *)

Writing == {"write", "fts", "vec"}

\* An index holds the connection alone until it returns; a write that outlives it has
\* poisoned the store, so that no call follows.
ConnInv ==
    /\ OneCallOnConnection
    /\ \A c \in Callers : call[c] # "none" => job.at \notin {"index", "wait"}
    /\ job.at = "index" => ~poisoned /\ writer.at = "none"
    /\ job.at = "wait" => ~poisoned /\ writer.at # "none"
    /\ writer.at # "none" => job.at = "wait" \/ poisoned
    /\ poisoned => job.at # "wait"
    /\ writer.at # "none" => up # "down" /\ table # "none"
    /\ up = "down" => ~poisoned /\ writer.at = "none" /\ job = NoJob /\ call = Quiet

\* What is stored and is not bare has an embedding exactly where the table has a column
\* for it, which the store knows unless it missed the table; with an embedder it knows
\* otherwise only what it is about to store.
VectorInv ==
    /\ EveryChunkHasVector
    /\ table = "none" => chunks = {}
    /\ up # "down" /\ table = "vectors" => dim \/ missed
    /\ up # "down" /\ embedder /\ ~dim /\ ~missed => chunks = {}
    /\ writer.at = "write" /\ embedder /\ ~dim => writer.new = {}
    /\ writer.at = "write" => writer.docs \subseteq chunks \cup writer.new

\* Of a vault that was not edited since, a file that was read is known; what is written
\* is what was read, and once it is written it is what is stored.
ReadInv ==
    /\ job.at # "idle" /\ ~hup /\ ~edited => job.docs = vault \ job.todo
    /\ job.at \in {"index", "wait"} => job.todo = {}
    /\ job.at = "wait" => writer.docs = job.docs
    /\ writer.at \in {"fts", "vec", "ok"} => chunks = writer.docs /\ graph = writer.docs
    /\ writer.at = "ok" /\ dim => vec = Index(chunks \ bare) /\ table = "vectors"
    /\ poisoned => ~last

IInv == StoreTypeOK /\ ConnInv /\ VectorInv /\ ReadInv /\ SignalledIsServed

-----------------------------------------------------------------------------
(* Types *)

LEMMA ConstantTypes ==
    /\ NoIndex \in Indexes /\ NoJob \in Jobs /\ NoWriter \in Writers
    /\ Quiet \in [Callers -> {"none", "keyword", "semantic"}]
<1>1. NoIndex \in Indexes
  <2>1. FALSE \in BOOLEAN
    OBVIOUS
  <2> QED
    BY <2>1 DEF NoIndex, Indexes
<1> QED
  BY <1>1 DEF NoJob, NoWriter, Quiet, Jobs, Writers

LEMMA BuiltIsIndex ==
    ASSUME NEW S \in SUBSET Notes
    PROVE  Index(S) \in Indexes
<1>1. TRUE \in BOOLEAN
  OBVIOUS
<1> QED
  BY <1>1 DEF Index, Indexes

\* What Returns leaves.
LEMMA ReturnTypes ==
    ASSUME NEW ok \in BOOLEAN, up \in {"down", "starting", "serving", "exiting"}, Returns(ok)
    PROVE  /\ job' \in Jobs /\ last' \in BOOLEAN
           /\ up' \in {"down", "starting", "serving", "exiting"}
BY ConstantTypes DEF Returns

LEMMA StepKeepsTypes ==
    ASSUME StoreTypeOK, [StoreStep]_storeVars
    PROVE  StoreTypeOK'
<1> USE ConstantTypes DEF StoreTypeOK, missing
<1>1. ASSUME NEW e \in BOOLEAN, Start(e)
      PROVE  StoreTypeOK'
  <2>1. dim' \in BOOLEAN /\ missed' \in BOOLEAN
    BY <1>1 DEF Start, LoadDim
  <2>2. job' \in Jobs
    BY <1>1 DEF Start, Jobs
  <2> QED
    BY <1>1, <2>1, <2>2 DEF Start, diskVars
<1>2. ASSUME NEW n \in Notes, ReadNote(n)
      PROVE  StoreTypeOK'
  <2>1. job' \in Jobs
    BY <1>2 DEF ReadNote, Jobs
  <2> QED
    BY <1>2, <2>1 DEF ReadNote, diskVars, history
<1>3. ASSUME NEW c \in Callers, EndQuery(c)
      PROVE  StoreTypeOK'
  BY <1>3 DEF EndQuery, diskVars, history
<1>4. ASSUME NEW c \in Callers, NEW leg \in {"keyword", "semantic"}, BeginQuery(c, leg)
      PROVE  StoreTypeOK'
  BY <1>4 DEF BeginQuery, diskVars, history
<1>5. CASE Dies \/ Panic
  BY <1>5 DEF Dies, Panic, diskVars, history
<1>6. CASE Edit
  <2>1. PICK n \in Notes : vault' = IF n \in vault THEN vault \ {n} ELSE vault \cup {n}
    BY <1>6 DEF Edit
  <2>2. vault' \in SUBSET Notes
    BY <2>1
  <2> QED
    BY <1>6, <2>2 DEF Edit, diskVars
<1>7. CASE Signal
  BY <1>7 DEF Signal, Pending, diskVars
<1>8. CASE Reindex
  <2>1. job' \in Jobs
    BY <1>8 DEF Reindex, Jobs
  <2> QED
    BY <1>8, <2>1 DEF Reindex, diskVars, history
<1>9. CASE ReadFails
  BY <1>9, ReturnTypes DEF ReadFails, diskVars
<1>10. CASE BeginIndex
  <2>1. CASE Returns(FALSE)
    BY <1>10, <2>1, ReturnTypes DEF BeginIndex, diskVars
  <2>2. CASE job' = [job EXCEPT !.at = "index"] /\ UNCHANGED <<up, last>>
    <3>1. job' \in Jobs
      BY <2>2 DEF Jobs
    <3> QED
      BY <1>10, <2>2, <3>1 DEF BeginIndex, diskVars
  <2> QED
    BY <1>10, <2>1, <2>2 DEF BeginIndex
<1>11. CASE Embed
  <2>1. Deltas \subseteq SUBSET Notes
    BY DEF Deltas, Jobs
  <2>2. dim' \in BOOLEAN /\ UNCHANGED embedded
    BY <1>11 DEF Embed
  <2>3. table' \in {"none", "plain", "vectors"} /\ (table' # "vectors" => embedded = {})
    <3>1. CASE UNCHANGED table
      BY <3>1
    <3>2. ASSUME NEW new, BeginWrite(new)
          PROVE  table' \in {"none", "plain", "vectors"} /\ (table' # "vectors" => embedded = {})
      BY <3>2 DEF BeginWrite
    <3> QED
      BY <1>11, <3>1, <3>2 DEF Embed
  <2>4. CASE Returns(FALSE) /\ UNCHANGED writer
    BY <1>11, <2>2, <2>3, <2>4, ReturnTypes DEF Embed
  <2>5. ASSUME NEW new \in Deltas, BeginWrite(new)
        PROVE  StoreTypeOK'
    <3>1. writer' \in Writers
      BY <2>1, <2>5 DEF BeginWrite, Jobs, Writers
    <3>2. job' \in Jobs
      BY <2>5 DEF BeginWrite, Jobs
    <3> QED
      BY <1>11, <2>2, <2>3, <2>5, <3>1, <3>2 DEF Embed, BeginWrite
  <2> QED
    BY <1>11, <2>4, <2>5 DEF Embed
<1>12. CASE Write
  <2>1. writer' \in Writers
    BY <1>12 DEF Write, Writers
  <2>2. chunks' \in SUBSET Notes /\ embedded' \in SUBSET chunks' /\ graph' \in SUBSET Notes
    BY <1>12 DEF Write, Stored, Writers
  <2>3. table' # "vectors" => embedded' = {}
    BY <1>12 DEF Write
  <2> QED
    BY <1>12, <2>1, <2>2, <2>3 DEF Write, history
<1>13. CASE BuildFts
  <2>1. writer' \in Writers
    BY <1>13 DEF BuildFts, Writers
  <2>2. fts' \in BOOLEAN
    BY <1>13 DEF BuildFts
  <2> QED
    BY <1>13, <2>1, <2>2 DEF BuildFts, history
<1>14. CASE BuildVec
  <2>1. writer' \in Writers
    BY <1>14 DEF BuildVec, Writers
  <2>2. vec' \in Indexes
    BY <1>14, BuiltIsIndex DEF BuildVec
  <2> QED
    BY <1>14, <2>1, <2>2 DEF BuildVec, history
<1>15. CASE Finish \/ Deadline
  <2>1. PICK ok \in BOOLEAN : Returns(ok)
    BY <1>15 DEF Finish, Deadline
  <2> QED
    BY <1>15, <2>1, ReturnTypes DEF Finish, Deadline, diskVars
<1>16. CASE UNCHANGED storeVars
  BY <1>16 DEF storeVars, diskVars, history
<1> QED
  BY <1>1, <1>2, <1>3, <1>4, <1>5, <1>6, <1>7, <1>8, <1>9, <1>10, <1>11, <1>12, <1>13, <1>14,
     <1>15, <1>16 DEF StoreStep

-----------------------------------------------------------------------------
(* The connection *)

\* A mutex that is free, of a store that is not poisoned, leaves the connection free.
LEMMA FreeConnection ==
    ASSUME ConnInv, ~Locked, ~poisoned
    PROVE  writer.at = "none" /\ \A c \in Callers : call[c] = "none"
BY DEF ConnInv, Locked

LEMMA StepKeepsConn ==
    ASSUME StoreTypeOK, StoreTypeOK', ConnInv, [StoreStep]_storeVars
    PROVE  ConnInv'
<1> USE DEF ConnInv, OneCallOnConnection
<1>1. ASSUME NEW e \in BOOLEAN, Start(e)
      PROVE  ConnInv'
  BY <1>1 DEF Start, diskVars, Quiet
<1>2. ASSUME NEW n \in Notes, ReadNote(n)
      PROVE  ConnInv'
  BY <1>2 DEF ReadNote, diskVars, StoreTypeOK, Jobs, NoJob
<1>3. ASSUME NEW c \in Callers, EndQuery(c)
      PROVE  ConnInv'
  BY <1>3 DEF EndQuery, diskVars, Quiet, StoreTypeOK
<1>4. ASSUME NEW c \in Callers, NEW leg \in {"keyword", "semantic"}, BeginQuery(c, leg)
      PROVE  ConnInv'
  <2>1. writer.at = "none" /\ \A d \in Callers : call[d] = "none"
    BY <1>4, FreeConnection DEF BeginQuery, Usable
  <2>2. \A d \in Callers : d # c => call'[d] = "none"
    BY <1>4, <2>1 DEF BeginQuery, StoreTypeOK
  <2> QED
    BY <1>4, <2>1, <2>2 DEF BeginQuery, diskVars, Locked
<1>5. CASE Dies \/ Panic
  BY <1>5 DEF Dies, Panic, NoWriter, NoJob, Quiet
<1>6. CASE Edit \/ Signal
  BY <1>6 DEF Edit, Signal, diskVars
<1>7. CASE Reindex
  BY <1>7 DEF Reindex, diskVars, NoJob
<1>8. CASE ReadFails
  BY <1>8 DEF ReadFails, Returns, diskVars, NoJob
<1>9. CASE BeginIndex
  <2>1. CASE Returns(FALSE)
    BY <1>9, <2>1 DEF BeginIndex, Returns, diskVars, NoJob
  <2>2. CASE ~poisoned /\ job' = [job EXCEPT !.at = "index"] /\ UNCHANGED <<up, last>>
    <3>1. writer.at = "none" /\ \A c \in Callers : call[c] = "none"
      BY <1>9, <2>2, FreeConnection DEF BeginIndex
    <3>2. job'.at = "index" /\ up # "down"
      BY <1>9, <2>2 DEF BeginIndex, StoreTypeOK, Jobs, NoJob
    <3> QED
      BY <1>9, <2>2, <3>1, <3>2 DEF BeginIndex, diskVars
  <2> QED
    BY <1>9, <2>1, <2>2 DEF BeginIndex
<1>10. CASE Embed
  <2>1. ~poisoned /\ writer.at = "none" /\ up # "down" /\ \A c \in Callers : call[c] = "none"
    BY <1>10 DEF Embed, NoJob
  <2>2. CASE Returns(FALSE) /\ UNCHANGED writer
    BY <1>10, <2>1, <2>2 DEF Embed, Returns, NoJob
  <2>3. ASSUME NEW new, BeginWrite(new)
        PROVE  ConnInv'
    <3>1. job'.at = "wait" /\ writer'.at = "write" /\ table' # "none" /\ UNCHANGED up
      BY <2>3 DEF BeginWrite, StoreTypeOK, Jobs
    <3> QED
      BY <1>10, <2>1, <3>1 DEF Embed
  <2> QED
    BY <1>10, <2>2, <2>3 DEF Embed
<1>11. CASE Write \/ BuildFts \/ BuildVec
  <2>1. writer.at \in Writing
    BY <1>11 DEF Write, BuildFts, BuildVec, Writing
  <2>2. writer'.at \in {"fts", "vec", "ok", "failed"}
    BY <1>11 DEF Write, BuildFts, BuildVec, StoreTypeOK, Writers
  <2>3. UNCHANGED <<table, up, poisoned, job, call>>
    BY <1>11 DEF Write, BuildFts, BuildVec
  <2> QED
    BY <2>1, <2>2, <2>3 DEF Writing
<1>12. CASE Finish
  BY <1>12 DEF Finish, Returns, diskVars, NoJob, NoWriter
<1>13. CASE Deadline
  BY <1>13 DEF Deadline, TimesOut, Returns, diskVars, NoJob
<1>14. CASE UNCHANGED storeVars
  BY <1>14 DEF storeVars, diskVars
<1> QED
  BY <1>1, <1>2, <1>3, <1>4, <1>5, <1>6, <1>7, <1>8, <1>9, <1>10, <1>11, <1>12, <1>13, <1>14
     DEF StoreStep

-----------------------------------------------------------------------------
(* The embeddings *)

LEMMA StepKeepsVectors ==
    ASSUME StoreTypeOK, StoreTypeOK', ConnInv, VectorInv, [StoreStep]_storeVars
    PROVE  VectorInv'
<1> USE DEF VectorInv, EveryChunkHasVector, missing
<1>1. ASSUME NEW e \in BOOLEAN, Start(e)
      PROVE  VectorInv'
  <2>1. writer.at = "none"
    BY <1>1 DEF Start, ConnInv
  <2>2. PICK found \in Findable :
            Opens(e, found) /\ dim' = LoadDim(found) /\ missed' = (found # table)
    BY <1>1 DEF Start
  <2>3. table = "vectors" => dim' \/ missed'
    BY <2>2 DEF LoadDim
  <2>4. e /\ ~dim' /\ ~missed' => chunks = {}
    BY <2>2 DEF Opens, LoadDim, StoreTypeOK
  <2> QED
    BY <1>1, <2>1, <2>3, <2>4 DEF Start, diskVars
<1>2. CASE Dies \/ Panic
  BY <1>2 DEF Dies, Panic, NoWriter, diskVars
<1>3. CASE Embed
  <2>1. writer.at = "none" /\ up # "down"
    BY <1>3 DEF Embed, ConnInv, NoJob
  <2>2. CASE Returns(FALSE) /\ UNCHANGED <<table, writer>>
    BY <1>3, <2>1, <2>2 DEF Embed
  <2>3. ASSUME NEW new \in Deltas, dim' = (dim \/ (embedder /\ new # {})), BeginWrite(new)
        PROVE  VectorInv'
    <3>1. job.docs \subseteq chunks \cup new
      BY DEF Deltas
    <3>2. table' = "vectors" => embedded = chunks \ bare /\ (dim' \/ missed)
      BY <2>1, <2>3 DEF BeginWrite, StoreTypeOK
    <3>3. table' # "none"
      BY <2>3 DEF BeginWrite
    <3>4. /\ writer'.at = "write" /\ writer'.docs = job.docs /\ writer'.new = new
          /\ embedder /\ ~dim' => new = {}
      BY <2>3 DEF BeginWrite
    <3> QED
      BY <1>3, <2>1, <2>3, <3>1, <3>2, <3>3, <3>4 DEF Embed
  <2> QED
    BY <1>3, <2>2, <2>3 DEF Embed
<1>4. CASE Write
  <2>1. up # "down" /\ table # "none"
    BY <1>4 DEF Write, ConnInv
  <2>2. writer'.at \in {"fts", "failed"}
    BY <1>4 DEF Write, StoreTypeOK, Writers
  <2>3. CASE /\ chunks' = Stored
             /\ embedded' = (embedded \cup (IF dim THEN writer.new ELSE {})) \cap Stored
             /\ bare' = Bare \cap Stored
    <3>1. table = "vectors" => embedded' = chunks' \ bare'
      <4>1. CASE dim
        BY <2>3, <4>1 DEF Stored, Bare
      <4>2. CASE ~dim
        BY <2>1, <2>3, <4>2 DEF Stored, Bare, StoreTypeOK
      <4> QED
        BY <4>1, <4>2
    <3>2. embedder /\ ~dim /\ ~missed => chunks' = {}
      BY <1>4, <2>1, <2>3 DEF Stored, Write
    <3> QED
      BY <1>4, <2>1, <2>2, <3>1, <3>2 DEF Write
  <2>4. CASE UNCHANGED <<chunks, embedded, bare>>
    BY <1>4, <2>1, <2>2, <2>4 DEF Write
  <2> QED
    BY <1>4, <2>3, <2>4 DEF Write
<1>5. CASE BuildFts \/ BuildVec
  <2>1. writer'.at # "write" /\ UNCHANGED <<table, chunks, embedded, up, embedder, dim, missing>>
    BY <1>5 DEF BuildFts, BuildVec, StoreTypeOK, Writers, history
  <2> QED
    BY <2>1
<1>6. CASE Finish \/ Deadline \/ ReadFails \/ BeginIndex
  <2>1. up' = "down" => up = "down"
    BY <1>6 DEF Finish, Deadline, ReadFails, BeginIndex, Returns
  <2>2. writer' = writer \/ writer'.at = "none"
    <3>1. CASE Finish
      BY <3>1 DEF Finish, NoWriter
    <3>2. CASE Deadline \/ ReadFails \/ BeginIndex
      BY <3>2 DEF Deadline, ReadFails, BeginIndex
    <3> QED
      BY <1>6, <3>1, <3>2
  <2>3. up = "down" => up' = "down"
    BY <1>6 DEF Finish, Deadline, ReadFails, BeginIndex, Returns
  <2>4. UNCHANGED <<diskVars, embedder, dim, missing>>
    BY <1>6 DEF Finish, Deadline, ReadFails, BeginIndex
  <2> QED
    BY <2>1, <2>2, <2>3, <2>4 DEF diskVars
<1>7. CASE UNCHANGED <<table, chunks, embedded, writer, up, embedder, dim, missing>>
  BY <1>7
<1>8. ASSUME NEW c \in Callers,
             EndQuery(c) \/ \E leg \in {"keyword", "semantic"} : BeginQuery(c, leg)
      PROVE  UNCHANGED <<table, chunks, embedded, writer, up, embedder, dim, missing>>
  BY <1>8 DEF EndQuery, BeginQuery, diskVars, history
<1>9. ASSUME (\E n \in Notes : ReadNote(n)) \/ Edit \/ Signal \/ Reindex \/ UNCHANGED storeVars
      PROVE  UNCHANGED <<table, chunks, embedded, writer, up, embedder, dim, missing>>
  BY <1>9 DEF ReadNote, Edit, Signal, Reindex, storeVars, diskVars, history
<1> QED
  BY <1>1, <1>2, <1>3, <1>4, <1>5, <1>6, <1>7, <1>8, <1>9 DEF StoreStep

-----------------------------------------------------------------------------
(* What is read, written and served *)

LEMMA StepKeepsReads ==
    ASSUME StoreTypeOK, StoreTypeOK', ConnInv, VectorInv, ReadInv, [StoreStep]_storeVars
    PROVE  ReadInv'
<1> USE DEF ReadInv, missing
<1>1. ASSUME NEW e \in BOOLEAN, Start(e)
      PROVE  ReadInv'
  <2>1. writer.at = "none" /\ ~poisoned
    BY <1>1 DEF Start, ConnInv
  <2>2. job'.at = "read" /\ job'.docs = vault \ job'.todo
    BY <1>1 DEF Start, StoreTypeOK
  <2> QED
    BY <1>1, <2>1, <2>2 DEF Start
<1>2. ASSUME NEW n \in Notes, ReadNote(n)
      PROVE  ReadInv'
  <2>1. job'.at = "read" /\ job.at = "read"
    BY <1>2 DEF ReadNote, StoreTypeOK, Jobs
  <2>2. job.docs = vault \ job.todo => job'.docs = vault \ job'.todo
    BY <1>2 DEF ReadNote, StoreTypeOK, Jobs
  <2> QED
    BY <1>2, <2>1, <2>2 DEF ReadNote, diskVars, history
<1>3. CASE Dies \/ Panic
  BY <1>3 DEF Dies, Panic, NoWriter, NoJob
<1>4. CASE Edit \/ Signal
  BY <1>4 DEF Edit, Signal, Pending, diskVars
<1>5. CASE Reindex
  <2>1. job'.at = "read" /\ job'.docs = vault \ job'.todo
    BY <1>5 DEF Reindex, StoreTypeOK
  <2>2. writer'.at # "none" => poisoned
    BY <1>5 DEF Reindex, ConnInv, NoJob
  <2> QED
    BY <1>5, <2>1, <2>2 DEF Reindex, diskVars, history
<1>6. CASE ReadFails
  BY <1>6 DEF ReadFails, Returns, diskVars, NoJob
<1>7. CASE BeginIndex
  <2>1. CASE Returns(FALSE)
    BY <1>7, <2>1 DEF BeginIndex, Returns, diskVars, NoJob
  <2>2. CASE job' = [job EXCEPT !.at = "index"] /\ UNCHANGED <<up, last>>
    <3>1. job'.at = "index" /\ job'.docs = job.docs /\ job'.todo = {} /\ job.todo = {} /\ job.at = "read"
      BY <1>7, <2>2 DEF BeginIndex, StoreTypeOK, Jobs
    <3> QED
      BY <1>7, <2>2, <3>1 DEF BeginIndex, diskVars
  <2> QED
    BY <1>7, <2>1, <2>2 DEF BeginIndex
<1>8. CASE Embed
  <2>1. writer.at = "none" /\ ~poisoned /\ job.at = "index" /\ UNCHANGED <<vault, chunks, graph, vec, poisoned, hup, edited>>
    BY <1>8 DEF Embed, ConnInv
  <2>2. CASE Returns(FALSE) /\ UNCHANGED writer
    BY <2>1, <2>2 DEF Returns, NoJob
  <2>3. ASSUME NEW new, BeginWrite(new)
        PROVE  ReadInv'
    <3>1. job'.at = "wait" /\ job'.docs = job.docs /\ job'.todo = job.todo /\ UNCHANGED last
      BY <2>3 DEF BeginWrite, StoreTypeOK, Jobs
    <3>2. writer'.at = "write" /\ writer'.docs = job.docs
      BY <2>3 DEF BeginWrite
    <3> QED
      BY <2>1, <3>1, <3>2
  <2> QED
    BY <1>8, <2>2, <2>3 DEF Embed
<1>9. CASE Write
  <2>1. writer'.docs = writer.docs /\ writer'.at \in {"fts", "failed"}
    BY <1>9 DEF Write, StoreTypeOK, Writers
  <2>2. writer'.at = "fts" => chunks' = writer.docs /\ graph' = writer.docs
    <3>1. Stored = writer.docs
      BY <1>9 DEF Write, Stored, VectorInv
    <3> QED
      BY <1>9, <3>1 DEF Write, StoreTypeOK, Writers
  <2> QED
    BY <1>9, <2>1, <2>2 DEF Write, history
<1>10. CASE BuildFts
  <2>1. writer'.docs = writer.docs /\ writer.at = "fts" /\ writer'.at \in {"vec", "ok"}
        /\ (writer'.at = "ok" => ~dim)
    BY <1>10 DEF BuildFts, StoreTypeOK, Writers
  <2> QED
    BY <1>10, <2>1 DEF BuildFts, history
<1>11. CASE BuildVec
  <2>1. writer'.docs = writer.docs /\ writer.at = "vec" /\ writer'.at \in {"ok", "failed"}
    BY <1>11 DEF BuildVec, StoreTypeOK, Writers
  <2>2. writer'.at = "ok" => vec' = Index(chunks \ bare) /\ table = "vectors"
    BY <1>11 DEF BuildVec, StoreTypeOK, Writers, VectorInv, EveryChunkHasVector
  <2> QED
    BY <1>11, <2>1, <2>2 DEF BuildVec, history
<1>12. CASE Finish
  BY <1>12 DEF Finish, Returns, diskVars, NoJob, NoWriter, ConnInv
<1>13. CASE Deadline
  BY <1>13 DEF Deadline, Returns, diskVars, NoJob
<1>14. ASSUME \/ UNCHANGED storeVars
              \/ \E c \in Callers :
                    EndQuery(c) \/ \E leg \in {"keyword", "semantic"} : BeginQuery(c, leg)
       PROVE  ReadInv'
  BY <1>14 DEF EndQuery, BeginQuery, storeVars, diskVars, history
<1> QED
  BY <1>1, <1>2, <1>3, <1>4, <1>5, <1>6, <1>7, <1>8, <1>9, <1>10, <1>11, <1>12, <1>13, <1>14
     DEF StoreStep

\* What is served changes only while something is under way, or the process is new.
LEMMA StepKeepsSignalled ==
    ASSUME StoreTypeOK, StoreTypeOK', ConnInv, ReadInv, ReadInv', SignalledIsServed, [StoreStep]_storeVars
    PROVE  SignalledIsServed'
<1> USE DEF SignalledIsServed, missing
<1>1. ASSUME NEW e \in BOOLEAN, Start(e)
      PROVE  SignalledIsServed'
  BY <1>1 DEF Start
<1>2. CASE Dies \/ Panic \/ Edit
  BY <1>2 DEF Dies, Panic, Edit
<1>3. CASE Signal
  BY <1>3 DEF Signal, Pending
<1>4. ASSUME NEW n \in Notes, ReadNote(n)
      PROVE  SignalledIsServed'
  <2>1. job'.at = "read"
    BY <1>4 DEF ReadNote, StoreTypeOK, Jobs
  <2> QED
    BY <2>1 DEF NoJob
<1>5. CASE Reindex
  BY <1>5 DEF Reindex, NoJob
<1>6. CASE ReadFails \/ Deadline
  BY <1>6 DEF ReadFails, Deadline, Returns
<1>7. CASE BeginIndex
  <2>1. CASE job' = [job EXCEPT !.at = "index"]
    <3>1. job'.at = "index"
      BY <2>1 DEF StoreTypeOK, Jobs
    <3> QED
      BY <3>1 DEF NoJob
  <2> QED
    BY <1>7, <2>1 DEF BeginIndex, Returns
<1>8. CASE Embed
  <2>1. CASE job' = [job EXCEPT !.at = "wait"]
    <3>1. job'.at = "wait"
      BY <2>1 DEF StoreTypeOK, Jobs
    <3> QED
      BY <3>1 DEF NoJob
  <2> QED
    BY <1>8, <2>1 DEF Embed, BeginWrite, Returns
<1>9. CASE Write \/ BuildFts \/ BuildVec
  <2>1. job.at = "wait" \/ poisoned
    BY <1>9 DEF Write, BuildFts, BuildVec, ConnInv
  <2>2. UNCHANGED <<job, last, poisoned>>
    BY <1>9 DEF Write, BuildFts, BuildVec, history
  <2> QED
    BY <2>1, <2>2 DEF ReadInv, NoJob
<1>10. CASE Finish
  <2>1. CASE writer.at = "ok"
    <3>1. ~hup /\ ~edited => chunks = vault /\ graph = vault
      BY <1>10, <2>1 DEF Finish, ReadInv
    <3>2. dim => vec = Index(chunks \ bare)
      BY <2>1 DEF ReadInv
    <3> QED
      BY <1>10, <3>1, <3>2 DEF Finish, diskVars
  <2>2. CASE writer.at # "ok"
    BY <1>10, <2>2 DEF Finish, Returns
  <2> QED
    BY <2>1, <2>2
<1>11. ASSUME \/ UNCHANGED storeVars
              \/ \E c \in Callers :
                    EndQuery(c) \/ \E leg \in {"keyword", "semantic"} : BeginQuery(c, leg)
       PROVE  SignalledIsServed'
  BY <1>11 DEF EndQuery, BeginQuery, storeVars, diskVars, history
<1> QED
  BY <1>1, <1>2, <1>3, <1>4, <1>5, <1>6, <1>7, <1>8, <1>9, <1>10, <1>11 DEF StoreStep

LEMMA StoreInvariant == StoreSpec => []IInv
<1>1. StoreInit => IInv
  <2> SUFFICES ASSUME StoreInit PROVE IInv
    OBVIOUS
  <2>1. StoreTypeOK
    BY ConstantTypes DEF StoreInit, StoreTypeOK
  <2>2. ConnInv /\ VectorInv /\ ReadInv /\ SignalledIsServed
    BY DEF StoreInit, ConnInv, OneCallOnConnection, VectorInv, EveryChunkHasVector, ReadInv,
       SignalledIsServed, NoJob, NoWriter, Quiet
  <2> QED
    BY <2>1, <2>2 DEF IInv
<1>2. IInv /\ [StoreStep]_storeVars => IInv'
  <2> SUFFICES ASSUME IInv, [StoreStep]_storeVars PROVE IInv'
    OBVIOUS
  <2> QED
    BY StepKeepsTypes, StepKeepsConn, StepKeepsVectors, StepKeepsReads, StepKeepsSignalled DEF IInv
<1> QED
  BY <1>1, <1>2, PTL DEF StoreSpec

-----------------------------------------------------------------------------
(* Retrieval *)

LEMMA StepMovesStore == [Next]_vars => [StoreStep]_storeVars
<1> SUFFICES ASSUME [Next]_vars PROVE [StoreStep]_storeVars
    OBVIOUS
<1>1. ASSUME NEW cfg \in Configs, StartWith(cfg)
      PROVE  StoreStep
  <2>1. cfg.embedder \in BOOLEAN
    BY ConfigsAssumption
  <2> QED
    BY <1>1, <2>1 DEF StartWith, StoreStep
<1>2. ASSUME NEW c \in Callers, Ask(c) \/ EmbedQuery(c)
      PROVE  UNCHANGED storeVars
    BY <1>2 DEF Ask, EmbedQuery
<1>3. ASSUME NEW c \in Callers, Keyword(c) \/ Semantic(c)
      PROVE  StoreStep \/ UNCHANGED storeVars
    BY <1>3 DEF Keyword, Semantic, StoreStep
<1>4. CASE StoreMoves \/ End
    BY <1>4 DEF StoreMoves, End, StoreStep
<1>5. CASE UNCHANGED vars
    BY <1>5 DEF vars
<1> QED
    BY <1>1, <1>2, <1>3, <1>4, <1>5 DEF Next

\* Whatever the planner asks, in whatever mode the bot was started, the store moves only
\* as the store by itself may (calls of Planner on Index).
THEOREM RetrievalImplementsStore == Spec => StoreSpec
<1>1. Init => StoreInit
  BY DEF Init
<1> QED
  BY <1>1, StepMovesStore, PTL DEF Spec, StoreSpec

LEMMA RetrievalInvariant == Spec => []IInv
BY RetrievalImplementsStore, StoreInvariant, PTL

\* At no time are two calls under way on the connection, however many goroutines query
\* and whenever a write hangs past its deadline (mutex and poisoned of Ladybug).
THEOREM OneCallAtATime == Spec => []OneCallOnConnection
<1>1. IInv => OneCallOnConnection
  BY DEF IInv, ConnInv
<1> QED
  BY <1>1, RetrievalInvariant, PTL

\* No chunk is ever stored without its embedding where embeddings are kept, over any
\* sequence of starts, failures and crashes, but by a process whose lookup of the table
\* failed when it started (Index, upsertChunks, chunkTableExists).
THEOREM VectorsForEveryChunk == Spec => []EveryChunkHasVector
<1>1. IInv => EveryChunkHasVector
  BY DEF IInv, VectorInv
<1> QED
  BY <1>1, RetrievalInvariant, PTL

\* Semantic search is silent only in an empty store, unless the lookup of the table failed
\* when the process started (loadDim, NewLadybug, chunkTableExists).
THEOREM SilenceIsEmptiness == Spec => []SilentOnlyWhenEmpty
<1>1. IInv => SilentOnlyWhenEmpty
  BY DEF IInv, VectorInv, SilentOnlyWhenEmpty
<1> QED
  BY <1>1, RetrievalInvariant, PTL

\* The vault of the last signal is the one that is served once its reindex succeeded
\* (reindex loop of the program, VaultDocs, Index).
THEOREM SignalledServed == Spec => []SignalledIsServed
<1>1. IInv => SignalledIsServed
  BY DEF IInv
<1> QED
  BY <1>1, RetrievalInvariant, PTL

-----------------------------------------------------------------------------
(* The planner *)

\* How the legs of c may end.
LEMMA LegTypes ==
    ASSUME TypeOK, NEW c \in Callers, NEW ok \in BOOLEAN, NEW next \in Stages, LegEnds(c, ok, next)
    PROVE  /\ plan' \in [Callers -> [at: Stages, ok: BOOLEAN]]
           /\ plan'[c].at = next /\ (plan'[c].ok <=> plan[c].ok \/ ok)
           /\ \A d \in Callers \ {c} : plan'[d] = plan[d]
<1>1. plan[c] \in [at: Stages, ok: BOOLEAN]
  BY DEF TypeOK
<1>2. (plan[c].ok \/ ok) \in BOOLEAN
  OBVIOUS
<1>3. [at |-> next, ok |-> plan[c].ok \/ ok] \in [at: Stages, ok: BOOLEAN]
  BY <1>2
<1>4. plan' \in [Callers -> [at: Stages, ok: BOOLEAN]]
  BY <1>3 DEF TypeOK, LegEnds
<1>5. plan'[c] = [at |-> next, ok |-> plan[c].ok \/ ok]
  BY DEF TypeOK, LegEnds
<1>6. \A d \in Callers \ {c} : plan'[d] = plan[d]
  BY DEF TypeOK, LegEnds
<1>7. plan'[c].at = next
  BY <1>5
<1>8. plan'[c].ok = (plan[c].ok \/ ok)
  BY <1>5
<1> QED
  BY <1>4, <1>6, <1>7, <1>8

\* A query that failed had no leg that succeeded, and neither has one that is about to
\* fail: the keyword leg is the first of two, or follows a semantic one that failed.  One
\* that was answered had one.
PlanInv ==
    \A c \in Callers : /\ plan[c].at \in {"failed", "keyword"} => ~plan[c].ok
                       /\ plan[c].at = "answered" => plan[c].ok

\* How c's query may move.
Moved(c) ==
    /\ plan' \in [Callers -> [at: Stages, ok: BOOLEAN]]
    /\ \A d \in Callers \ {c} : plan'[d] = plan[d] /\ call'[d] = call[d]
    /\ call'[c] \in {"none", plan'[c].at}
    /\ (PlanInv => (plan'[c].at \in {"failed", "keyword"} => ~plan'[c].ok))
    /\ (PlanInv => (plan'[c].at = "answered" => plan'[c].ok))

LEMMA AskMoves ==
    ASSUME TypeOK, NEW c \in Callers, Ask(c)
    PROVE  Moved(c)
<1>1. call[c] = "none"
  BY DEF Ask, TypeOK, StoreTypeOK, Ended
<1>2. FALSE \in BOOLEAN
  OBVIOUS
<1>3. [at |-> First, ok |-> FALSE] \in [at: Stages, ok: BOOLEAN]
  BY <1>2 DEF First, Stages
<1>4. UNCHANGED call
  BY DEF Ask, storeVars
<1>5. /\ plan' \in [Callers -> [at: Stages, ok: BOOLEAN]]
      /\ \A d \in Callers \ {c} : plan'[d] = plan[d]
      /\ plan'[c] = [at |-> First, ok |-> FALSE]
  BY <1>3 DEF Ask, TypeOK
<1>6. First # "answered"
  BY DEF First
<1> QED
  BY <1>1, <1>4, <1>5, <1>6 DEF Moved

LEMMA LegMoves ==
    ASSUME TypeOK, NEW c \in Callers, NEW ok \in BOOLEAN, NEW next \in Stages, LegEnds(c, ok, next),
           call'[c] = "none", \A d \in Callers \ {c} : call'[d] = call[d],
           PlanInv /\ next \in {"failed", "keyword"} => ~ok /\ ~plan[c].ok,
           next = "answered" => ok \/ plan[c].ok
    PROVE  Moved(c)
BY LegTypes DEF Moved

LEMMA Nexts ==
    ASSUME NEW c, NEW ok
    PROVE  AfterKeyword(c, ok) \in Stages /\ AfterSemantic(c, ok) \in Stages
BY DEF AfterKeyword, AfterSemantic, Stages, Ended

LEMMA KeywordMoves ==
    ASSUME TypeOK, StoreTypeOK', NEW c \in Callers, Keyword(c)
    PROVE  Moved(c)
<1>1. plan[c].at = "keyword"
  BY DEF Keyword
<1>2. ASSUME NEW ok \in BOOLEAN, LegEnds(c, ok, AfterKeyword(c, ok)), call'[c] = "none",
             \A d \in Callers \ {c} : call'[d] = call[d]
      PROVE  Moved(c)
  <2>1. PlanInv /\ AfterKeyword(c, ok) \in {"failed", "keyword"} => ~ok /\ ~plan[c].ok
    BY <1>1 DEF PlanInv, AfterKeyword
  <2>2. AfterKeyword(c, ok) = "answered" => ok
    BY DEF AfterKeyword
  <2> QED
    BY <1>2, <2>1, <2>2, Nexts, LegMoves
<1>3. CASE call[c] = "none" /\ LegEnds(c, FALSE, AfterKeyword(c, FALSE)) /\ UNCHANGED storeVars
  BY <1>2, <1>3 DEF storeVars
<1>4. CASE BeginQuery(c, "keyword") /\ UNCHANGED plan
  BY <1>1, <1>4 DEF BeginQuery, Moved, TypeOK, StoreTypeOK, PlanInv
<1>5. ASSUME NEW ok \in BOOLEAN, EndQuery(c), LegEnds(c, ok, AfterKeyword(c, ok))
      PROVE  Moved(c)
  <2>1. call'[c] = "none" /\ \A d \in Callers \ {c} : call'[d] = call[d]
    BY <1>5 DEF EndQuery, TypeOK, StoreTypeOK
  <2> QED
    BY <1>2, <1>5, <2>1
<1> QED
  BY <1>3, <1>4, <1>5 DEF Keyword

LEMMA EmbedQueryMoves ==
    ASSUME TypeOK, NEW c \in Callers, EmbedQuery(c)
    PROVE  Moved(c)
<1>1. plan[c].at = "embed" /\ UNCHANGED call
  BY DEF EmbedQuery, storeVars
<1>2. call[c] = "none"
  BY <1>1 DEF TypeOK, StoreTypeOK
<1>3. CASE plan' = [plan EXCEPT ![c].at = "semantic"]
  <2>1. plan[c] \in [at: Stages, ok: BOOLEAN]
    BY DEF TypeOK
  <2>2. [plan[c] EXCEPT !.at = "semantic"] \in [at: Stages, ok: BOOLEAN]
    BY <2>1 DEF Stages
  <2>3. /\ plan' \in [Callers -> [at: Stages, ok: BOOLEAN]]
        /\ \A d \in Callers \ {c} : plan'[d] = plan[d]
        /\ plan'[c].at = "semantic"
    BY <1>3, <2>1, <2>2 DEF TypeOK
  <2> QED
    BY <1>1, <1>2, <2>3 DEF Moved
<1>4. CASE LegEnds(c, FALSE, AfterSemantic(c, FALSE))
  <2>1. /\ AfterSemantic(c, FALSE) \in {"failed", "keyword"} => ~plan[c].ok
        /\ AfterSemantic(c, FALSE) = "answered" => plan[c].ok
    BY DEF AfterSemantic
  <2> QED
    BY <1>1, <1>2, <1>4, <2>1, Nexts, LegMoves
<1> QED
  BY <1>3, <1>4 DEF EmbedQuery

LEMMA SemanticMoves ==
    ASSUME TypeOK, StoreTypeOK', NEW c \in Callers, Semantic(c)
    PROVE  Moved(c)
<1>1. plan[c].at = "semantic"
  BY DEF Semantic
<1>2. ASSUME NEW ok \in BOOLEAN, LegEnds(c, ok, AfterSemantic(c, ok)), call'[c] = "none",
             \A d \in Callers \ {c} : call'[d] = call[d]
      PROVE  Moved(c)
  <2>1. /\ AfterSemantic(c, ok) \in {"failed", "keyword"} => ~ok /\ ~plan[c].ok
        /\ AfterSemantic(c, ok) = "answered" => ok \/ plan[c].ok
    BY DEF AfterSemantic
  <2> QED
    BY <1>2, <2>1, Nexts, LegMoves
<1>3. CASE call[c] = "none" /\ LegEnds(c, FALSE, AfterSemantic(c, FALSE)) /\ UNCHANGED storeVars
  BY <1>2, <1>3 DEF storeVars
<1>4. CASE ~Locked /\ LegEnds(c, TRUE, AfterSemantic(c, TRUE)) /\ UNCHANGED storeVars
  BY <1>2, <1>4 DEF storeVars, Locked
<1>5. CASE BeginQuery(c, "semantic") /\ UNCHANGED plan
  BY <1>1, <1>5 DEF BeginQuery, Moved, TypeOK, StoreTypeOK, PlanInv
<1>6. ASSUME NEW ok \in BOOLEAN, EndQuery(c), LegEnds(c, ok, AfterSemantic(c, ok))
      PROVE  Moved(c)
  <2>1. call'[c] = "none" /\ \A d \in Callers \ {c} : call'[d] = call[d]
    BY <1>6 DEF EndQuery, TypeOK, StoreTypeOK
  <2> QED
    BY <1>2, <1>6, <2>1
<1> QED
  BY <1>3, <1>4, <1>5, <1>6 DEF Semantic

LEMMA StepKeepsPlans ==
    ASSUME TypeOK, PlanInv, [Next]_vars
    PROVE  TypeOK' /\ PlanInv'
<1>1. StoreTypeOK'
  BY StepMovesStore, StepKeepsTypes DEF TypeOK
<1>2. ASSUME NEW c \in Callers, Moved(c), UNCHANGED mode
      PROVE  TypeOK' /\ PlanInv'
  BY <1>1, <1>2 DEF TypeOK, PlanInv, Moved
<1>3. ASSUME NEW cfg \in Configs, StartWith(cfg)
      PROVE  TypeOK' /\ PlanInv'
  <2>1. mode' \in {"keyword", "semantic", "hybrid"}
    BY <1>3, ConfigsAssumption DEF StartWith
  <2> QED
    BY <1>1, <1>3, <2>1 DEF StartWith, Start, TypeOK, PlanInv
<1>4. CASE StoreMoves
  <2>1. UNCHANGED call
    BY <1>4 DEF StoreMoves, ReadNote, Edit, Signal, Reindex, ReadFails, BeginIndex, Embed, Write,
                BuildFts, BuildVec, Finish, Deadline
  <2> QED
    BY <1>1, <1>4, <2>1 DEF StoreMoves, TypeOK, PlanInv
<1>5. CASE End
  <2>1. Idle \in [at: Stages, ok: BOOLEAN]
    <3>1. FALSE \in BOOLEAN
      OBVIOUS
    <3> QED
      BY <3>1 DEF Idle, Stages, Ended
  <2>2. call' = Quiet /\ plan' = [c \in Callers |-> Idle] /\ UNCHANGED mode
    BY <1>5 DEF End, Dies, Panic, Gone
  <2>3. plan' \in [Callers -> [at: Stages, ok: BOOLEAN]] /\ \A c \in Callers : call'[c] = "none"
    BY <2>1, <2>2 DEF Quiet
  <2>4. \A c \in Callers : plan'[c].at = "idle"
    BY <2>2 DEF Idle
  <2> QED
    BY <1>1, <2>2, <2>3, <2>4 DEF TypeOK, PlanInv
<1>6. CASE UNCHANGED vars
  BY <1>1, <1>6 DEF vars, storeVars, TypeOK, PlanInv
<1>7. ASSUME NEW c \in Callers, Ask(c) \/ Keyword(c) \/ EmbedQuery(c) \/ Semantic(c)
      PROVE  TypeOK' /\ PlanInv'
  <2>1. UNCHANGED mode
    BY <1>7 DEF Ask, Keyword, EmbedQuery, Semantic
  <2>2. Moved(c)
    BY <1>1, <1>7, AskMoves, KeywordMoves, EmbedQueryMoves, SemanticMoves
  <2> QED
    BY <1>2, <2>1, <2>2
<1> QED
  BY <1>3, <1>4, <1>5, <1>6, <1>7 DEF Next

LEMMA PlansInvariant == Spec => [](TypeOK /\ PlanInv)
<1>1. Init => TypeOK /\ PlanInv
  <2> SUFFICES ASSUME Init PROVE TypeOK /\ PlanInv
    OBVIOUS
  <2>1. StoreTypeOK
    BY ConstantTypes DEF Init, StoreInit, StoreTypeOK
  <2>2. FALSE \in BOOLEAN
    OBVIOUS
  <2>3. Idle \in [at: Stages, ok: BOOLEAN] /\ Idle.at = "idle"
    BY <2>2 DEF Idle, Stages, Ended
  <2>4. \A c \in Callers : plan[c] = Idle /\ call[c] = "none"
    BY DEF Init, StoreInit, Quiet
  <2>5. plan \in [Callers -> [at: Stages, ok: BOOLEAN]]
    BY <2>3 DEF Init
  <2> QED
    BY <2>1, <2>3, <2>4, <2>5 DEF Init, TypeOK, PlanInv
<1> QED
  BY <1>1, StepKeepsPlans, PTL DEF Spec

\* The types are kept, and only a caller whose query is at a leg uses the connection.
THEOREM RetrievalTypeCorrect == Spec => []TypeOK
BY PlansInvariant, PTL

\* A retrieval that failed had no leg that succeeded, and one that did not fail had one, in
\* every mode (Planner.Retrieve).
THEOREM RetrievalFailsWhole == Spec => []FailsIffAllDo
<1>1. PlanInv => FailsIffAllDo
  BY DEF PlanInv, FailsIffAllDo
<1> QED
  BY <1>1, PlansInvariant, PTL
=============================================================================
