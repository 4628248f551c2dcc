----------------------------- MODULE Transport -----------------------------
(***************************************************************************)
(* The Telegram adapter (telegram.Adapter): what becomes of an update      *)
(* between the user's chat and the handler, and of the reply on its way    *)
(* back.                                                                   *)
(*                                                                         *)
(* Telegram queues what users send while the bot polls and while it does   *)
(* not.  The library polls and starts a goroutine per update; an update    *)
(* delivered twice would be another member of Msgs.  A send is a remote    *)
(* call: one that fails may have been delivered all the same, one that is  *)
(* rejected (bad request) was not.  The rendering itself, reactions, and   *)
(* the minting of buttons (module Callbacks) are left out.                 *)
(***************************************************************************)
EXTENDS Naturals, Members

VARIABLES
    update,     \* where each inbound message is
    sending,    \* which form of the reply to each message is sent next
    copies      \* how often the reply to each message has reached its chat

transportVars == <<update, sending, copies>>

Forms == {"html", "plain", "raw"}

\* The types of the transport's variables.
TransportTypeOK ==
    /\ update \in [Msgs -> {"unsent", "queued", "taken", "dropped"}]
    /\ sending \in [Msgs -> {"idle", "over"} \cup Forms]
    /\ copies \in [Msgs -> Nat]

TransportInit ==
    /\ update = [m \in Msgs |-> "unsent"]
    /\ sending = [m \in Msgs |-> "idle"]
    /\ copies = [m \in Msgs |-> 0]

-----------------------------------------------------------------------------
(* Updates *)

\* A user sends a message, whether or not the bot runs.
Post(m) ==
    /\ update[m] = "unsent"
    /\ update' = [update EXCEPT ![m] = "queued"]
    /\ UNCHANGED <<sending, copies>>

\* Run, before it polls: DeleteWebhook drops what came in while the bot was away,
\* or fails with a warning and drops nothing.
DropBacklog ==
    /\ \/ update' = [m \in Msgs |-> IF update[m] = "queued" THEN "dropped" ELSE update[m]]
       \/ UNCHANGED update
    /\ UNCHANGED <<sending, copies>>

\* toInbound: the update is for the handler.
Take(m) ==
    /\ update[m] = "queued"
    /\ update' = [update EXCEPT ![m] = "taken"]
    /\ UNCHANGED <<sending, copies>>

\* toInbound: no text, or no chat or topic the bot answers in.
Drop(m) ==
    /\ update[m] = "queued"
    /\ update' = [update EXCEPT ![m] = "dropped"]
    /\ UNCHANGED <<sending, copies>>

-----------------------------------------------------------------------------
(* sendTo *)

SendNext(m, form) == sending' = [sending EXCEPT ![m] = form]

\* The handler has returned: nothing to send, or a text that renders or does not.
BeginSend(m, words) ==
    /\ sending[m] = "idle"
    /\ IF words THEN SendNext(m, "html") \/ SendNext(m, "raw") ELSE SendNext(m, "over")
    /\ UNCHANGED <<update, copies>>

\* How a send ends, and whether the message arrived.
Results == [ok : {TRUE}, rejected : {FALSE}, arrived : {TRUE}]
           \cup [ok : {FALSE}, rejected : {FALSE}, arrived : BOOLEAN]
           \cup [ok : {FALSE}, rejected : {TRUE}, arrived : {FALSE}]

\* Variant with a bug: the raw text is sent after any failure of the plain one.
After_RawAlways(form, result) ==
    CASE form = "html" /\ ~result.ok   -> "plain"
      [] form = "plain" /\ ~result.ok  -> "raw"
      [] OTHER                         -> "over"
\* The plain form follows any failure of the rendered one, the raw text only a
\* rejected plain one.
After(form, result) ==
    CASE form = "html" /\ ~result.ok        -> "plain"
      [] form = "plain" /\ result.rejected  -> "raw"
      [] OTHER                              -> "over"

Send(m) ==
    /\ sending[m] \in Forms
    /\ \E result \in Results :
          /\ SendNext(m, After(sending[m], result))
          /\ copies' = [copies EXCEPT ![m] = IF result.arrived THEN @ + 1 ELSE @]
    /\ UNCHANGED update

\* The process is gone: no send goes on, and none starts for a message that was
\* taken.
TransportRestart ==
    /\ sending' = [m \in Msgs |-> IF update[m] = "taken" THEN "over" ELSE sending[m]]
    /\ UNCHANGED <<update, copies>>
=============================================================================
