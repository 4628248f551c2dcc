------------------------------- MODULE MCGate -------------------------------
(* Instances of the gate for TLC. *)
EXTENDS Gate, TLC

CONSTANTS u1, u2, m1, m2

\* Small allowances with the order of the real ones (5, 30, 120, none, none).
SmallAllowance == [t \in TierNames |->
                     CASE t = "throttled" -> 1
                       [] t = "default"   -> 2
                       [] t = "trusted"   -> 3
                       [] OTHER           -> Unlimited]

\* One message of each of two users.
SmallSender == [m \in {m1, m2} |-> IF m = m1 THEN u1 ELSE u2]

OneSender == [m \in {m1, m2} |-> u1]

\* The users are alike, each with their messages: a permutation that takes each
\* message's sender to the sender of its image maps the instance onto itself.
AlikeUsers == {p \in Permutations(Users \cup Msgs) :
                 \A m \in Msgs : p[m] \in Msgs /\ p[Sender[m]] = Sender[p[m]]}

NoEarlierTier == [u \in Users |-> NoTier]
=============================================================================
