----------------------------- MODULE Retrieval ------------------------------
(***************************************************************************)
(* The query step (retrieval.Planner) over the graph store: a query takes   *)
(* one or two legs, each a call of the store between which the store may be *)
(* reindexed, and the semantic one after a call of the embedding service.   *)
(***************************************************************************)
EXTENDS GraphStore

CONSTANT
    Configs \* the retrieval modes the bot may be started with, and its embedder

ASSUME ConfigsAssumption ==
    Configs \subseteq [mode: {"keyword", "semantic", "hybrid"}, embedder: BOOLEAN]

VARIABLES
    mode,   \* the mode the bot was started with
    plan    \* each caller's query: the leg it is at, and whether one succeeded

vars == <<storeVars, mode, plan>>

Idle == [at |-> "idle", ok |-> FALSE]
Ended == {"idle", "answered", "failed"}
Stages == Ended \cup {"keyword", "embed", "semantic"}

\* The types of the variables; an idle caller queries nothing.
TypeOK ==
    /\ StoreTypeOK
    /\ mode \in {"keyword", "semantic", "hybrid"}
    /\ plan \in [Callers -> [at: Stages, ok: BOOLEAN]]
    /\ \A c \in Callers : call[c] \in {"none", plan[c].at}

Init ==
    /\ StoreInit
    /\ mode = "keyword"
    /\ plan = [c \in Callers |-> Idle]

-----------------------------------------------------------------------------
(* The planner *)

\* The leg after the keyword leg of c ended: hybrid goes on with the semantic one.
AfterKeyword(c, ok) ==
    IF mode = "hybrid" THEN "embed" ELSE IF ok THEN "answered" ELSE "failed"

\* Variant with a bug: hybrid fails when its last leg does.
AfterSemantic_LastLeg(c, ok) ==
    IF ok THEN "answered" ELSE IF mode = "semantic" THEN "keyword" ELSE "failed"
\* The leg after the semantic leg of c ended: semantic falls back on an error, hybrid
\* fails only when both legs did.
AfterSemantic(c, ok) ==
    IF ok \/ plan[c].ok THEN "answered" ELSE IF mode = "semantic" THEN "keyword" ELSE "failed"

LegEnds(c, ok, next) == plan' = [plan EXCEPT ![c] = [at |-> next, ok |-> plan[c].ok \/ ok]]

\* Retrieve: the first leg of the mode.
First == IF mode = "semantic" THEN "embed" ELSE "keyword"
Ask(c) ==
    /\ up = "serving"
    /\ plan[c].at \in Ended
    /\ plan' = [plan EXCEPT ![c] = [at |-> First, ok |-> FALSE]]
    /\ UNCHANGED <<storeVars, mode>>

\* The keyword leg: the call of the store fails fast, or begins and ends.
Keyword(c) ==
    /\ plan[c].at = "keyword"
    /\ \/ /\ call[c] = "none" /\ FailsFast
          /\ LegEnds(c, FALSE, AfterKeyword(c, FALSE))
          /\ UNCHANGED storeVars
       \/ /\ BeginQuery(c, "keyword")
          /\ UNCHANGED plan
       \/ /\ EndQuery(c)
          /\ \/ LegEnds(c, FALSE, AfterKeyword(c, FALSE))
             \/ fts /\ LegEnds(c, TRUE, AfterKeyword(c, TRUE))
    /\ UNCHANGED mode

\* The query is embedded, by a call that may fail.
EmbedQuery(c) ==
    /\ plan[c].at = "embed"
    /\ up = "serving"
    /\ \/ plan' = [plan EXCEPT ![c].at = "semantic"]
       \/ LegEnds(c, FALSE, AfterSemantic(c, FALSE))
    /\ UNCHANGED <<storeVars, mode>>

\* The semantic leg: nothing is found without a query when the dimension is unknown.
Semantic(c) ==
    /\ plan[c].at = "semantic"
    /\ \/ /\ call[c] = "none" /\ FailsFast
          /\ LegEnds(c, FALSE, AfterSemantic(c, FALSE))
          /\ UNCHANGED storeVars
       \/ /\ up = "serving" /\ ~Locked /\ Usable /\ ~dim
          /\ LegEnds(c, TRUE, AfterSemantic(c, TRUE))
          /\ UNCHANGED storeVars
       \/ /\ dim
          /\ BeginQuery(c, "semantic")
          /\ UNCHANGED plan
       \/ /\ EndQuery(c)
          /\ \/ LegEnds(c, FALSE, AfterSemantic(c, FALSE))
             \/ vec.built /\ LegEnds(c, TRUE, AfterSemantic(c, TRUE))
    /\ UNCHANGED mode

-----------------------------------------------------------------------------
(* The store and the process *)

\* Queries die with the process.
Gone == plan' = [c \in Callers |-> Idle]

StartWith(cfg) ==
    /\ Start(cfg.embedder)
    /\ mode' = cfg.mode
    /\ UNCHANGED plan

StoreMoves ==
    /\ \/ \E n \in Notes : ReadNote(n)
       \/ Edit \/ Signal \/ Reindex \/ ReadFails \/ BeginIndex \/ Embed
       \/ Write \/ BuildFts \/ BuildVec \/ Finish \/ Deadline
    /\ UNCHANGED <<mode, plan>>

End == (Dies \/ Panic) /\ Gone /\ UNCHANGED mode

Next ==
    \/ \E cfg \in Configs : StartWith(cfg)
    \/ \E c \in Callers : Ask(c) \/ Keyword(c) \/ EmbedQuery(c) \/ Semantic(c)
    \/ StoreMoves \/ End

Spec == Init /\ [][Next]_vars

\* The scheduler runs every goroutine, and a waiting one gets the mutex in the end; the
\* calls of the embedding service have a deadline, and a query of the database returns.
\* Nothing is assumed of the goroutine that writes: a call of the database may hang.
Fairness ==
    /\ WF_vars(StoreMoves /\ (Embed \/ Finish \/ Deadline))
    /\ \A c \in Callers : WF_vars(EmbedQuery(c)) /\ SF_vars(Keyword(c)) /\ SF_vars(Semantic(c))

LiveSpec == Spec /\ Fairness

-----------------------------------------------------------------------------
(* Properties *)

\* A retrieval that ends fails when every leg did, rather than find nothing, and only then
\* (comments of Planner and of hybrid).
FailsIffAllDo ==
    \A c \in Callers : plan[c].at \in {"failed", "answered"} =>
        (plan[c].at = "failed" <=> ~plan[c].ok)

\* A query ends, answered or not, even when the write of an index hangs (comment of
\* writeTimeout), unless the process does.
QueriesEnd == \A c \in Callers : (plan[c].at \notin Ended) ~> (plan[c].at \in Ended)
=============================================================================
