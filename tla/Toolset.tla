------------------------------ MODULE Toolset ------------------------------
(***************************************************************************)
(* The tools of the answering model: the registry of MCP servers           *)
(* (tools.Registry), connected when the program starts, and the structured *)
(* tools of the program itself beside it (tools.WithEnumerate).            *)
(*                                                                         *)
(* A server is a process of its own: whether it starts, what it advertises *)
(* and whether a listing fails half way is up to it.  The model may ask    *)
(* for any name, an invented one too.  Descriptions and schemas are passed *)
(* through and left out, as is the order tools are advertised in.          *)
(***************************************************************************)
EXTENDS Naturals, Sequences

CONSTANTS
    Servers,    \* the configured servers, in order
    Names,      \* the names of tools
    OwnTools,   \* the structured tools the configuration turns on
    Allow,      \* the allow-list of each server; empty is no allow-list
    Deny,       \* the deny-list of each server
    Advertises  \* bound of the model: what each server may turn out to advertise

Hosts == {Servers[i] : i \in 1..Len(Servers)}

ASSUME ToolsetAssumption ==
    /\ Servers \in Seq(Hosts)
    /\ \A i, j \in 1..Len(Servers) : Servers[i] = Servers[j] => i = j
    /\ OwnTools \subseteq Names
    /\ Allow \in [Hosts -> SUBSET Names]
    /\ Deny \in [Hosts -> SUBSET Names]
    /\ Advertises \in [Hosts -> SUBSET SUBSET Names]

VARIABLES
    sessions,   \* how many servers the registry holds a session of, in order
    dialed,     \* the server being listed holds a session of its own
    routes      \* the server that serves each registered tool

toolVars == <<sessions, dialed, routes>>

\* The types of the registry.
ToolTypeOK ==
    /\ sessions \in 0..Len(Servers)
    /\ dialed \in BOOLEAN
    /\ DOMAIN routes \subseteq Names
    /\ \A t \in DOMAIN routes : routes[t] \in Hosts

NoRoutes == [t \in {} |-> Servers[1]]

ToolInit == sessions = 0 /\ dialed = FALSE /\ routes = NoRoutes

-----------------------------------------------------------------------------
(* Connecting, one server after the other *)

Connected == sessions = Len(Servers)
Current   == Servers[sessions + 1]

\* Variant with a bug: a deny-list is heeded only beside an allow-list.
Permits_AllowOnly(s, t) == t \in Allow[s] \/ Allow[s] = {}
\* An allow-list is exclusive; a deny-list counts only without one.
Permits(s, t) == IF Allow[s] # {} THEN t \in Allow[s] ELSE t \notin Deny[s]

Dial ==
    /\ ~Connected /\ ~dialed
    /\ dialed' = TRUE
    /\ UNCHANGED <<sessions, routes>>

\* routes with the tools s serves: the last server wins a name.
Routed(s, tools) ==
    [t \in DOMAIN routes \cup tools |-> IF t \in tools THEN s ELSE routes[t]]

\* The listing ends and the permitted tools are registered.
List(advertised) ==
    /\ dialed
    /\ advertised \in Advertises[Current]
    /\ routes' = Routed(Current, {t \in advertised : Permits(Current, t)})
    /\ sessions' = sessions + 1
    /\ dialed' = FALSE

\* Variant with a bug: only the sessions already recorded are closed.
ConnectFails_Recorded ==
    /\ ~Connected
    /\ sessions' = 0
    /\ UNCHANGED <<dialed, routes>>
\* A server does not start, or a page of its listing fails: its own session is
\* closed, then those of the servers before it.  Registry.Close leaves the routes.
ConnectFails ==
    /\ ~Connected
    /\ sessions' = 0 /\ dialed' = FALSE
    /\ UNCHANGED routes

\* The process is gone, and its registry and sessions with it.
ToolRestart == sessions' = 0 /\ dialed' = FALSE /\ routes' = NoRoutes

-----------------------------------------------------------------------------
(* Calling *)

\* The tools advertised to the model, the program's own included.
Definitions == OwnTools \cup DOMAIN routes

\* composite.Call: the program's own tools come first.
RoutedTo(t) == IF t \in OwnTools THEN "program" ELSE routes[t]

=============================================================================
