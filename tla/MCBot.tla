------------------------------- MODULE MCBot -------------------------------
(* Instances of the running program for TLC: the chats of MCHandler, and two tool *)
(* servers of which each offers a tool the operator does not want from it.        *)
EXTENDS Bot, MCHandler

TwoServers == <<"calc", "web">>
CalcAdds   == [calc |-> {"add"}, web |-> {}]
WebDenied  == [calc |-> {}, web |-> {"fetch"}]
MayOffer   == [calc |-> {{"fetch"}}, web |-> {{}, {"add", "fetch"}}]

\* Module MCHandler has the instance with a second namespace.
OneNamespace == <<ns1>>

\* Nothing is found, one chunk that fits the cap, one that does not.
SmallFindings == {<<>>, <<1>>, <<2>>}

\* An opt-in or a withdrawal beside a message of any kind.
BesideAny == [m \in Msgs |-> IF m = m1 THEN Kinds ELSE {"grant", "remove"}]
=============================================================================
