-------------------------------- MODULE Bot --------------------------------
(***************************************************************************)
(* The running program (ServeCmd.Run): it connects the tool servers, drops *)
(* the backlog, and then serves: every update the transport takes runs the *)
(* handler, which asks the engine, and the reply goes back through the     *)
(* transport.  The handler's pc[m] = "engine" is refined into the engine's *)
(* own steps; the rest of the handler is as it is in module Handler.       *)
(*                                                                         *)
(* The process may die at any step and be started again by its operator.   *)
(* A stop by signal is a crash too: the library does not join the handlers *)
(* under way.                                                              *)
(***************************************************************************)
EXTENDS Handler, Engine, Transport

VARIABLES life  \* how far the process has come

botVars == <<vars, engineVars, toolVars, transportVars, life>>

BotTypeOK ==
    /\ TypeOK /\ EngineTypeOK /\ ToolTypeOK /\ TransportTypeOK
    /\ life \in {"connecting", "serving", "down"}

BotInit ==
    /\ Init /\ EngineInit /\ ToolInit /\ TransportInit
    /\ life = "connecting"

-----------------------------------------------------------------------------
(* Starting *)

Connecting ==
    /\ life = "connecting"
    /\ \/ Dial
       \/ ~Connected /\ \E advertised \in Advertises[Current] : List(advertised)
    /\ UNCHANGED <<vars, engineVars, transportVars, life>>

\* registry.Connect fails, and ServeCmd.Run with it.
GiveUp ==
    /\ life = "connecting"
    /\ ConnectFails
    /\ life' = "down"
    /\ UNCHANGED <<vars, engineVars, transportVars>>

\* Adapter.Run.
StartServing ==
    /\ life = "connecting"
    /\ Connected
    /\ DropBacklog
    /\ life' = "serving"
    /\ UNCHANGED <<vars, engineVars, toolVars>>

\* The operator starts the program again.
StartAgain ==
    /\ life = "down"
    /\ life' = "connecting"
    /\ ToolRestart
    /\ UNCHANGED <<vars, engineVars, transportVars>>

-----------------------------------------------------------------------------
(* Serving *)

UserPosts(m) == Post(m) /\ UNCHANGED <<vars, engineVars, toolVars, life>>

IgnoreUpdate(m) ==
    /\ life = "serving"
    /\ Drop(m)
    /\ UNCHANGED <<vars, engineVars, toolVars, life>>

\* dispatch: the update's goroutine calls the handler.
TakeUpdate(m) ==
    /\ life = "serving"
    /\ Take(m)
    /\ Receive(m)
    /\ UNCHANGED <<engineVars, toolVars, life>>

HandlerStep(m) ==
    /\ pc[m] # "engine"
    /\ Proceed(m)
    /\ UNCHANGED <<engineVars, toolVars, transportVars, life>>

\* engine.Answer is called, with or without something the message follows.
AskEngine(m) ==
    /\ pc[m] = "engine"
    /\ \E following \in BOOLEAN : StartAnswer(m, following)
    /\ UNCHANGED <<vars, toolVars, transportVars, life>>

EngineMoves(m) ==
    /\ EngineStep(m)
    /\ UNCHANGED <<vars, toolVars, transportVars, life>>

\* The handler turns a refused model call into the at-capacity reply, and any other
\* error into one of its own.
OutcomeOf(ended) ==
    CASE ended = "answered"                 -> "answered"
      [] ended \in {"refused", "capacity"}  -> "refused"
      [] OTHER                              -> "error"

EngineAnswers(m) ==
    /\ AnswerReturns(m)
    /\ EngineRun(m, OutcomeOf(run[m]))
    /\ UNCHANGED <<toolVars, transportVars, life>>

\* The replies that may carry text: a nudge is a text or a reaction, a silent reply
\* and a handler's error send nothing.
MayCarryText(r) ==
    CASE r = "nudge"              -> BOOLEAN
      [] r \in {"silent", "error"} -> {FALSE}
      [] OTHER                    -> {TRUE}

Reply(m) ==
    /\ pc[m] = "done"
    /\ \E words \in MayCarryText(reply[m]) : BeginSend(m, words)
    /\ UNCHANGED <<vars, engineVars, toolVars, life>>

Deliver(m) ==
    /\ Send(m)
    /\ UNCHANGED <<vars, engineVars, toolVars, life>>

-----------------------------------------------------------------------------
\* The process dies with everything it holds in memory.
Crash ==
    /\ life # "down"
    /\ Restart /\ EngineRestart /\ ToolRestart /\ TransportRestart
    /\ life' = "down"

BotPassesTime == PassTime /\ UNCHANGED <<engineVars, toolVars, transportVars, life>>

\* All is said; the process may still crash.
AllSaid ==
    /\ \A m \in Msgs : update[m] = "dropped" \/ sending[m] = "over"
    /\ UNCHANGED botVars

BotNext ==
    \/ Connecting \/ GiveUp \/ StartServing \/ StartAgain
    \/ \E m \in Msgs :
          \/ UserPosts(m) \/ IgnoreUpdate(m) \/ TakeUpdate(m)
          \/ HandlerStep(m) \/ AskEngine(m) \/ EngineMoves(m) \/ EngineAnswers(m)
          \/ Reply(m) \/ Deliver(m)
    \/ Crash \/ BotPassesTime \/ AllSaid

\* The steps of m's goroutine that wait for nobody outside: the model and the tools
\* may never return, their deadline is a timer.
GoesOn(m) ==
    \/ HandlerStep(m) \/ AskEngine(m)
    \/ EngineGoesOn(m) /\ UNCHANGED <<vars, toolVars, transportVars, life>>
    \/ EngineAnswers(m) \/ Reply(m) \/ Deliver(m)

\* A goroutine that can take a step takes it in the end.  Nobody promises that the
\* process is started, connects, or takes an update.
BotSpec == BotInit /\ [][BotNext]_botVars /\ \A m \in Msgs : WF_botVars(GoesOn(m))

-----------------------------------------------------------------------------
(* Properties *)

VerdictOf(r) ==
    CASE r = "answer" -> "answered" [] r \in {"silent", "error"} -> "silent" [] OTHER -> "declined"

StatusOf(m) ==
    IF update[m] # "taken" THEN IF update[m] = "dropped" THEN "missed" ELSE "unseen"
    ELSE IF sending[m] = "over" THEN "over"
    ELSE IF pc[m] = "done" THEN VerdictOf(reply[m]) ELSE "asked"

Promise == INSTANCE Service WITH
    status     <- [m \in Msgs |-> StatusOf(m)],
    shown      <- copies,
    remembered <- {m \in Msgs : KeptOf(m) # {}}

\* The program keeps the promise of module Service, through the gate, the engine's
\* loop, the fallbacks of a send, deadlines and crashes: one verdict per message, a
\* reply shown at most twice, nothing remembered but answers, and every message that
\* was taken comes to an end though the model or a tool never returns.
KeepsPromise == Promise!ServiceSpec

\* A tool call of the model that reaches a server reaches one that is connected, and
\* that the operator lets serve the tool (ServerConfig.permits), by whatever name the
\* model asked and whichever servers advertise it.
ToolCallsPermitted ==
    \A m \in Msgs : run[m] = "tool" /\ asked[m] \in Definitions \ OwnTools =>
        LET s == RoutedTo(asked[m])
        IN  /\ life = "serving" /\ Connected
            /\ asked[m] \in Allow[s] \/ (Allow[s] = {} /\ asked[m] \notin Deny[s])

\* Whatever the cap took away, the model is never asked with nothing at all: no
\* material, no tool and nothing that the question follows (Answer, "nothing to
\* ground on").
NeverAskedBare ==
    \A m \in Msgs : run[m] \in InRun =>
        material[m] # 0 \/ Definitions # {} \/ follows[m]

\* A start-up that fails half way leaves no session of a server open, and neither
\* does the end of the process (Registry.Connect, Registry.Close).
NoSessionLeft == life = "down" => sessions = 0 /\ ~dialed
=============================================================================
