----------------------------- MODULE MCCallbacks -----------------------------
(* Instances of the buttons for TLC: an admin and another user, who click. *)
EXTENDS Callbacks

CONSTANTS u1, u2, m1, c1, c2, t1, t2

SmallAllowance == [t \in TierNames |-> 1]

FirstIsAdmin == [u \in Users |-> IF u = u1 THEN "admin" ELSE NoTier]

AdminsMessage == [m \in Msgs |-> u1]

EitherClicks == [c \in Clicks |-> IF c = c1 THEN u1 ELSE u2]

\* The admin is offered a promotion of the other user and a demotion of herself.
SmallProposals == {Act("set_tier", u2, "admin"), Act("set_tier", u1, "default")}

\* Buttons of an earlier build: a verb that is gone, a tier that is gone.
OldButtons == {Act("gone", NoUser, NoTier), Act("set_tier", u2, "gold")}
=============================================================================
