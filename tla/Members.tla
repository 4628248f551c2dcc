------------------------------ MODULE Members ------------------------------
(***************************************************************************)
(* The people and the traffic every other module talks about: who the      *)
(* users are, which inbound messages exist and who sent each.  The bot      *)
(* handles every inbound update in a goroutine of its own, so a message     *)
(* also names the goroutine that handles it.                                *)
(***************************************************************************)
CONSTANTS
    Users,      \* user ids
    Msgs,       \* inbound messages, each with its own handler goroutine
    Sender      \* the user each message comes from

ASSUME SenderAssumption == Sender \in [Msgs -> Users]
=============================================================================
