------------------------------- MODULE Engine -------------------------------
(***************************************************************************)
(* How one question is answered (core.Engine.Answer): retrieve, cap the    *)
(* material, refuse at once when there is nothing to answer from, else run *)
(* the agent's loop of metered model calls and tool calls to an answer, a  *)
(* refusal or a failure.                                                   *)
(*                                                                         *)
(* The questions of different messages are answered at the same time and   *)
(* share nothing here.  The retriever, the model, the meter and the tools  *)
(* are services: their calls may fail, and those of the model and of tools *)
(* may never return; the run's deadline bounds both.  Of the agent library *)
(* only what the engine asks of it is modelled: at most MaxSteps model     *)
(* calls, a deadline over model and tool calls, a failing tool reported to *)
(* the model.  The wording of prompts, and how history is chosen, is left  *)
(* out: a question follows something, a reply or history, or does not.     *)
(***************************************************************************)
EXTENDS Members, Toolset, Functions

CONSTANTS
    MaxSteps,       \* maxToolIterations: model calls per question
    ContextTokens,  \* the cap on the material
    Findings        \* bound of the model: the sizes of the chunks a retrieval may
                    \* find, best first

ASSUME EngineAssumption ==
    /\ MaxSteps \in Nat \ {0}
    /\ ContextTokens \in Nat \ {0}
    /\ Findings \subseteq Seq(Nat)

VARIABLES
    run,        \* where the answering of each message stands
    steps,      \* the model calls each run has made
    follows,    \* the message replies to something, or continues a conversation
    asked,      \* the tool each run calls, while it does
    material    \* how many chunks of what was found reach the model

engineVars == <<run, steps, follows, asked, material>>

NoTool == "none"
Ended == {"answered", "refused", "capacity", "failed"}
InRun == {"ready", "model", "tool"}

\* The types of the engine's variables.
EngineTypeOK ==
    /\ run \in [Msgs -> {"idle", "retrieve"} \cup InRun \cup Ended]
    /\ steps \in [Msgs -> 0..MaxSteps]
    /\ follows \in [Msgs -> BOOLEAN]
    /\ asked \in [Msgs -> Names \cup {NoTool}]
    /\ material \in [Msgs -> Nat]

EngineInit ==
    /\ run = [m \in Msgs |-> "idle"]
    /\ steps = [m \in Msgs |-> 0]
    /\ follows = [m \in Msgs |-> FALSE]
    /\ asked = [m \in Msgs |-> NoTool]
    /\ material = [m \in Msgs |-> 0]

Move(m, place) == run' = [run EXCEPT ![m] = place]

-----------------------------------------------------------------------------
(* Material *)

\* The tokens of the first k chunks.
Tokens(sizes, k) == FoldFunctionOnSet(+, 0, sizes, 1..k)

\* capContext: as many of the best chunks as fit together.
Fitting(sizes) == {0} \cup {k \in 1..Len(sizes) : Tokens(sizes, k) <= ContextTokens}
Capped(sizes) == CHOOSE k \in Fitting(sizes) : \A j \in Fitting(sizes) : j <= k

\* Variant with a bug: the chunks are counted before they are capped.
Nothing_Uncapped(m, sizes) == sizes = <<>> /\ Definitions = {} /\ ~follows[m]
\* No chunk, no tool that could find something, and nothing to talk about.
Nothing(m, sizes) == Capped(sizes) = 0 /\ Definitions = {} /\ ~follows[m]

-----------------------------------------------------------------------------
(* Answer *)

StartAnswer(m, following) ==
    /\ run[m] = "idle"
    /\ Move(m, "retrieve")
    /\ follows' = [follows EXCEPT ![m] = following]
    /\ UNCHANGED <<steps, asked, material>>

RetrieveFails(m) ==
    /\ run[m] = "retrieve"
    /\ Move(m, "failed")
    /\ UNCHANGED <<steps, follows, asked, material>>

\* The chunks are there: the question is refused without a model call, or its run
\* begins.
Retrieve(m, sizes) ==
    /\ run[m] = "retrieve"
    /\ Move(m, IF Nothing(m, sizes) THEN "refused" ELSE "ready")
    /\ material' = [material EXCEPT ![m] = Capped(sizes)]
    /\ UNCHANGED <<steps, follows, asked>>

\* meteredChat: the call is made, or refused for the spend ceiling.
CallModel(m) ==
    /\ run[m] = "ready"
    /\ \/ Move(m, "model") /\ steps' = [steps EXCEPT ![m] = @ + 1]
       \/ Move(m, "capacity") /\ UNCHANGED steps
    /\ UNCHANGED <<follows, asked, material>>

ModelFails(m) ==
    /\ run[m] = "model"
    /\ Move(m, "failed")
    /\ UNCHANGED <<steps, follows, asked, material>>

\* The model's text is an answer, or a refusal when it leads with the sentinel
\* (parseRefusal).
ModelReplies(m) ==
    /\ run[m] = "model"
    /\ \E r \in {"answered", "refused"} : Move(m, r)
    /\ UNCHANGED <<steps, follows, asked, material>>

\* ReasonStepLimit: the loop has made its last model call.
LastStep(m) == steps[m] = MaxSteps

\* The model asks for a tool, by whatever name.  After the last step the question
\* is refused, whether or not the library still calls the tool.
ModelAsks(m, t) ==
    /\ run[m] = "model"
    /\ \/ Move(m, "tool") /\ asked' = [asked EXCEPT ![m] = t]
       \/ LastStep(m) /\ Move(m, "refused") /\ UNCHANGED asked
    /\ UNCHANGED <<steps, follows, material>>

\* AgentTools.Call returns: a result, the error of an own tool as its text, that
\* of a server's tool by its kind, a name nobody advertises as unknown.  All of it
\* goes back to the model.
ToolReturns(m) ==
    /\ run[m] = "tool"
    /\ Move(m, IF LastStep(m) THEN "refused" ELSE "ready")
    /\ asked' = [asked EXCEPT ![m] = NoTool]
    /\ UNCHANGED <<steps, follows, material>>

\* Variant with a bug: the deadline bounds the model's calls only.
Bounded_Model == {"ready", "model"}
\* What the deadline bounds: every model and tool call of the run.
Bounded == InRun

\* answerDeadline passes.
Deadline(m) ==
    /\ run[m] \in Bounded
    /\ Move(m, "failed")
    /\ asked' = [asked EXCEPT ![m] = NoTool]
    /\ UNCHANGED <<steps, follows, material>>

EngineStep(m) ==
    \/ RetrieveFails(m)
    \/ \E sizes \in Findings : Retrieve(m, sizes)
    \/ CallModel(m) \/ ModelFails(m) \/ ModelReplies(m)
    \/ \E t \in Names : ModelAsks(m, t)
    \/ ToolReturns(m) \/ Deadline(m)

\* The steps that do not wait for the model or a tool: a retrieval ends (its calls
\* have timeouts), a call is begun, the deadline is a timer.
EngineGoesOn(m) ==
    \/ RetrieveFails(m)
    \/ \E sizes \in Findings : Retrieve(m, sizes)
    \/ CallModel(m) \/ Deadline(m)

\* Answer returned: what was said is no longer held.
AnswerReturns(m) ==
    /\ run[m] \in Ended
    /\ Move(m, "idle")
    /\ steps' = [steps EXCEPT ![m] = 0]
    /\ follows' = [follows EXCEPT ![m] = FALSE]
    /\ material' = [material EXCEPT ![m] = 0]
    /\ UNCHANGED asked

\* The process dies.
EngineRestart ==
    /\ run' = [m \in Msgs |-> "idle"]
    /\ steps' = [m \in Msgs |-> 0]
    /\ follows' = [m \in Msgs |-> FALSE]
    /\ asked' = [m \in Msgs |-> NoTool]
    /\ material' = [m \in Msgs |-> 0]

=============================================================================
