----------------------------- MODULE Selection ------------------------------
(***************************************************************************)
(* Which turns of a conversation a question is asked with (Buffer.Select). *)
(* Of a retained turn only what the selection looks at is modelled: whether *)
(* the asker said it, whether it is within the window, and how many terms   *)
(* of the question it shares.                                               *)
(***************************************************************************)
EXTENDS Naturals, Sequences, FiniteSets

\* The last turns that are always injected.
recencyFloor == 3

\* The asker is in the middle of the conversation.
MidConversation(turns) == \E i \in DOMAIN turns : turns[i].own /\ turns[i].recent

\* The last k turns, as positions in the buffer.
Newest(turns, k) == {i \in DOMAIN turns : i > Len(turns) - k}

Floor(turns, injectN) == Newest(turns, IF recencyFloor > injectN THEN injectN ELSE recencyFloor)

\* The older turns that share a term with the question.
Related(turns, injectN) == {i \in DOMAIN turns \ Floor(turns, injectN) : turns[i].score > 0}

\* The stable sort, highest score first.
Ahead(turns, i, j) ==
    turns[i].score > turns[j].score \/ (turns[i].score = turns[j].score /\ i < j)

\* The floor, and the related turns that find room beside it.
Chosen(turns, injectN) ==
    LET related == Related(turns, injectN)
        room    == injectN - Cardinality(Floor(turns, injectN))
    IN  Floor(turns, injectN)
        \cup {j \in related : Cardinality({i \in related : Ahead(turns, i, j)}) < room}

\* The positions Select returns, in the order of the buffer: none for a message that
\* stands alone.
Select(turns, isReply, injectN) ==
    IF injectN > 0 /\ (isReply \/ MidConversation(turns)) THEN Chosen(turns, injectN) ELSE {}

-----------------------------------------------------------------------------
(* What the comment of Select says of it *)

\* The last three turns always, as far as the limit goes; then the most relevant of
\* the others, the earlier one first, and none that is not relevant.
IsBestSelection(turns, limit, C) ==
    LET newest == {i \in DOMAIN turns : i + 3 > Len(turns) /\ i + limit > Len(turns)}
        Beats(i, j) == \/ turns[i].score > turns[j].score
                       \/ turns[i].score = turns[j].score /\ i < j
    IN  /\ newest \subseteq C /\ Cardinality(C) <= limit
        /\ \A i \in C \ newest : turns[i].score > 0
        /\ \A j \in DOMAIN turns \ C : turns[j].score > 0 =>
              Cardinality(C) = limit /\ \A i \in C \ newest : Beats(i, j)
=============================================================================
