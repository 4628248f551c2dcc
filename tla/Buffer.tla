------------------------------- MODULE Buffer -------------------------------
(***************************************************************************)
(* The conversation buffer (internal/memory): the last Retain turns of each *)
(* conversation, in memory only.  Every operation holds the buffer's mutex. *)
(***************************************************************************)
EXTENDS Members, Naturals, Sequences

CONSTANTS
    Convos,     \* conversations: the group chats and the direct ones
    Retain      \* turns retained per conversation; 0 disables the buffer

ASSUME BufferAssumption == Retain \in Nat

VARIABLE convos     \* the turns of each conversation, oldest first

Turn == [msg: Msgs, bot: BOOLEAN]

UserTurn(m) == [msg |-> m, bot |-> FALSE]
BotTurn(m)  == [msg |-> m, bot |-> TRUE]

\* The types of the buffer, and its bound.
BufferTypeOK ==
    /\ convos \in [Convos -> Seq(Turn)]
    /\ \A c \in Convos : Len(convos[c]) <= Retain

BufferInit == convos = [c \in Convos |-> <<>>]

\* Variant with a bug: one turn too many is retained.
Evicted_OffByOne(s) == IF Len(s) > Retain + 1 THEN Tail(s) ELSE s
\* The last Retain turns of s.
Evicted(s) == IF Len(s) > Retain THEN SubSeq(s, Len(s) - Retain + 1, Len(s)) ELSE s

AppendTurn(c, t) ==
    convos' = IF Retain = 0 THEN convos
              ELSE [convos EXCEPT ![c] = Evicted(Append(@, t))]

\* A turn that is not u's own; the bot's are never purged.
Stays(u, t) == t.bot \/ Sender[t.msg] # u

\* What the loop over the turns of s has kept after each of them.
KeptTurns(u, s) ==
    LET kept[i \in 0..Len(s)] ==
            IF i = 0 THEN <<>>
            ELSE IF Stays(u, s[i]) THEN Append(kept[i-1], s[i]) ELSE kept[i-1]
    IN  kept

Without(u, s) == KeptTurns(u, s)[Len(s)]

\* A withdrawal clears the user everywhere they have spoken.
PurgeUser(u) == convos' = [c \in Convos |-> Without(u, convos[c])]
=============================================================================
