------------------------------ MODULE Service ------------------------------
(***************************************************************************)
(* What the bot promises of each message, whatever goes on inside: it is   *)
(* taken or missed; one that was taken is settled once, and its reply is   *)
(* shown at most twice; only a message that is answered is remembered, and *)
(* only until someone has it forgotten.  A crash loses what was under way. *)
(***************************************************************************)
EXTENDS Naturals, Members

VARIABLES
    status,     \* how far each message has come
    shown,      \* how often its reply has been shown
    remembered  \* the messages long-term memory holds something of

serviceVars == <<status, shown, remembered>>

\* How a message is settled.
Verdicts == {"answered", "declined", "silent"}
UnderWay == {"asked"} \cup Verdicts

ServiceInit ==
    /\ status = [m \in Msgs |-> "unseen"]
    /\ shown = [m \in Msgs |-> 0]
    /\ remembered = {}

Becomes(m, s) == status' = [status EXCEPT ![m] = s]

\* Messages the bot does not take: they came while it was away, or are not for it.
Miss(M) ==
    /\ \A m \in M : status[m] = "unseen"
    /\ status' = [m \in Msgs |-> IF m \in M THEN "missed" ELSE status[m]]
    /\ UNCHANGED <<shown, remembered>>

Take(m) ==
    /\ status[m] = "unseen"
    /\ Becomes(m, "asked")
    /\ UNCHANGED <<shown, remembered>>

\* An answer is remembered before it is given.
Remember(m) ==
    /\ status[m] = "asked"
    /\ remembered' = remembered \cup {m}
    /\ UNCHANGED <<status, shown>>

\* A withdrawal forgets any of its user's messages.
ForgetSome(M) ==
    /\ remembered' = remembered \ M
    /\ UNCHANGED <<status, shown>>

Settle(m, verdict) ==
    /\ status[m] \in {"unseen", "asked"}
    /\ m \in remembered => verdict = "answered"
    /\ Becomes(m, verdict)
    /\ UNCHANGED <<shown, remembered>>

\* A send that reaches the chat, the last one or not.
Show(m) ==
    /\ status[m] \in Verdicts \ {"silent"}
    /\ shown[m] < 2
    /\ shown' = [shown EXCEPT ![m] = @ + 1]
    /\ UNCHANGED status \/ Becomes(m, "over")
    /\ UNCHANGED remembered

\* Nothing more is sent, whether or not anything arrived.
Leave(m) ==
    /\ status[m] \in Verdicts
    /\ Becomes(m, "over")
    /\ UNCHANGED <<shown, remembered>>

Crash ==
    /\ status' = [m \in Msgs |-> IF status[m] \in UnderWay THEN "over" ELSE status[m]]
    /\ UNCHANGED <<shown, remembered>>

ServiceNext ==
    \/ \E M \in SUBSET Msgs : Miss(M) \/ ForgetSome(M)
    \/ \E m \in Msgs : \/ Take(m) \/ Remember(m) \/ Show(m) \/ Leave(m)
                       \/ \E verdict \in Verdicts : Settle(m, verdict)
    \/ Crash

ServiceRuns == ServiceInit /\ [][ServiceNext]_serviceVars

\* What was taken comes to an end.
EndsAll == \A m \in Msgs : status[m] \in UnderWay ~> status[m] = "over"

ServiceSpec == ServiceRuns /\ EndsAll
=============================================================================
