------------------------------ MODULE MCHandler ------------------------------
(* Instances of the message handler for TLC: one group chat, one direct chat. *)
EXTENDS Handler, FiniteSets

S == INSTANCE Selection

CONSTANTS u1, u2, m1, m2, m3, group, dm, ns1, ns2

SmallAllowance == [t \in TierNames |-> IF t \in {"unlimited", "admin"} THEN Unlimited ELSE 1]

OneSender  == [m \in Msgs |-> u1]
OneGroup  == [m \in Msgs |-> group]
OneDm     == [u \in Users |-> dm]

\* A group message and a withdrawal of one user, and any message of theirs.
AroundWithdrawal == [m \in Msgs |-> CASE m = m1 -> GroupKinds
                                      [] m = m2 -> {"remove"}
                                      [] OTHER  -> Kinds]

\* The group keeps its turns in the first of the recorded namespaces; the second
\* is one the configuration has dropped.
TwoNamespaces == <<ns1, ns2>>
GroupNs == [m \in Msgs |-> ns1]

NoEarlierTier == [u \in Users |-> NoTier]

-----------------------------------------------------------------------------
(* Selection of the injected turns, against what its comment says of it *)

Turns(scores) == [i \in DOMAIN scores |-> [own |-> FALSE, recent |-> FALSE, score |-> scores[i]]]

ASSUME SelectionIsBest ==
    \A len \in 0..5, limit \in 1..5 : \A scores \in [1..len -> 0..2] :
        {C \in SUBSET (1..len) : S!IsBestSelection(Turns(scores), limit, C)}
            = {S!Select(Turns(scores), TRUE, limit)}

\* A message that is no reply stands alone unless its sender spoke within the window.
ASSUME SelectionNeedsFollowUp ==
    \A own, recent \in [1..2 -> BOOLEAN], isReply \in BOOLEAN, limit \in 0..2 :
        LET turns == [i \in 1..2 |-> [own |-> own[i], recent |-> recent[i], score |-> 0]]
        IN  S!Select(turns, isReply, limit) = {} <=>
                limit = 0 \/ (~isReply /\ \A i \in 1..2 : ~own[i] \/ ~recent[i])
=============================================================================
