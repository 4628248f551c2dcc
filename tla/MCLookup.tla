------------------------------ MODULE MCLookup ------------------------------
(* An instance of the structured lookup for TLC: notes that share a value in  *)
(* several spellings, that name it by an alias, that are dated alike, and that *)
(* carry a value which is infinite or no number.                              *)
EXTENDS Lookup, TLC

KeyOf == "Trains" :> "trains" @@ "trains" :> "trains" @@ "rail" :> "rail" @@
         "2" :> "2" @@ "!" :> "" @@ "" :> ""

Note(title, aliases, theme, players, kind, key) ==
    [title |-> title, aliases |-> aliases, dims |-> [theme |-> theme, players |-> players],
     fields |-> [date |-> [kind |-> kind, key |-> key]]]

NotesOf ==
    {Note("Trains", <<"rail">>, <<>>, <<>>, "number", 1),
     Note("rail", <<"Trains", "!">>, <<"rail", "trains">>, <<"2">>, "number", NaN),
     Note("", <<"2">>, <<"Trains", "trains">>, <<"2">>, "number", 1),
     Note("", <<>>, <<"!", "rail">>, <<"2">>, "number", Infinity),
     Note("!", <<"2">>, <<"trains">>, <<"2">>, "date", 1),
     Note("2", <<"rail">>, <<"rail">>, <<"2">>, "unreadable", 0)}

F(dimension, value) == [dimension |-> dimension, value |-> value]

Primaries == {F("theme", "rail"), F("theme", "Trains"), F("players", "2"), F("", ""),
              F("theme", ""), F("", "rail"), F("author", "rail")}
Ands == {<<>>, <<F("players", "2")>>, <<F("theme", "rail")>>, <<F("theme", "")>>}
Orders == {<<"", "asc", 1>>, <<"date", "", 0>>, <<"date", "desc", 1>>, <<"date", "asc", 1>>,
           <<"date", "up", 0>>, <<"date", "asc", -1>>, <<"title", "", 0>>}

RequestsOf ==
    {[primary |-> f, and |-> a, sort |-> o[1], direction |-> o[2], limit |-> o[3]] :
        f \in Primaries, a \in Ands, o \in Orders}

TheWalk == <<2, 1>>

\* A graph that an index failed to replace is asked by no property, and what the next
\* rebuild makes of the vault does not depend on it: which one stands is no difference.
Seen == <<vault, memory, IF Writable(VaultDocs(vault)) THEN graph ELSE EmptyGraph, call, stood>>
=============================================================================
