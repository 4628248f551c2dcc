------------------------------ MODULE Handler ------------------------------
(***************************************************************************)
(* The bot's message handler (runtime.NewHandler, dmConsentFlow) over the  *)
(* consent gate, the conversation buffer and long-term memory.  Every      *)
(* message runs in a goroutine of its own and pc[m] is where it stands, so *)
(* the steps of different messages interleave wherever the code does not   *)
(* hold a lock: a withdrawal can fall between any two steps of an answer.  *)
(*                                                                         *)
(* kind of a message:                                                      *)
(*   directed, ambient   a group message, to the bot or not                *)
(*   query               an admin's direct message, answered by the engine *)
(*   grant, remove       "/consent" and "/consent remove" in a DM (the     *)
(*                       opt-in button grants like "/consent")             *)
(*   status              any other direct message, "/start" of an admin    *)
(*                       included                                          *)
(*                                                                         *)
(* Long-term memory is configured; metrics, wording and the choice of the  *)
(* injected history are left out.                                          *)
(***************************************************************************)
EXTENDS Gate, Buffer, LongMemory

CONSTANTS
    Admins,     \* the users whose DMs the engine answers
    ChatOf,     \* the group chat of each message sent to a group
    DmOf,       \* the direct chat of each user
    MayBe,      \* bound of the model: the kinds each message can turn out to be
    MayFail     \* bound of the model: the log entries whose append may fail

ASSUME HandlerAssumption ==
    /\ Admins \subseteq Users
    /\ ChatOf \in [Msgs -> Convos]
    /\ DmOf \in [Users -> Convos]
    /\ MayBe \in [Msgs -> SUBSET {"directed", "ambient", "query", "grant", "remove", "status"}]
    /\ MayFail \in SUBSET {"quarantine", "human", "bot", "system"}

VARIABLES
    pc,         \* where the handler of each message stands
    kind,       \* what each message is, once received
    outcome,    \* how the engine's answer to each message ended
    reply,      \* the reply each handler returned
    logs,       \* what was recorded of each message: quarantine log, transcript
    \* history, read by no action:
    unchecked,  \* users whose consent could not be read after a turn was buffered
    standing    \* withdrawals that neither a grant of their user nor a stale write
                \* of the gate has undone

handlerVars == <<pc, kind, outcome, reply, logs, unchecked, standing>>
vars == <<gateVars, convos, memVars, handlerVars>>

Kinds      == {"directed", "ambient", "query", "grant", "remove", "status"}
GroupKinds == {"directed", "ambient"}

Places == {"new", "gate", "select", "engine", "keep", "answered", "check", "purge",
           "close", "decline", "forget", "withdraw", "erase", "done"}

Replies == {"none", "answer", "refused", "error", "silent", "nudge", "refuse", "ratelimited",
            "granted", "erased", "erasefailed", "consenterror", "status"}

HandlerTypeOK ==
    /\ pc \in [Msgs -> Places]
    /\ kind \in [Msgs -> Kinds]
    /\ outcome \in [Msgs -> {"none", "answered", "refused", "error"}]
    /\ reply \in [Msgs -> Replies]
    /\ logs \in [Msgs -> SUBSET {"quarantine", "human", "bot", "system"}]
    /\ unchecked \in SUBSET Users
    /\ standing \in SUBSET Msgs

\* The types of the handler, and of what it works on.
TypeOK == GateTypeOK /\ BufferTypeOK /\ MemTypeOK /\ HandlerTypeOK

Init ==
    /\ GateInit /\ BufferInit /\ MemInit
    /\ pc = [m \in Msgs |-> "new"]
    /\ kind = [m \in Msgs |-> "status"]
    /\ outcome = [m \in Msgs |-> "none"]
    /\ reply = [m \in Msgs |-> "none"]
    /\ logs = [m \in Msgs |-> {}]
    /\ unchecked = {} /\ standing = {}

Goto(m, place) == pc' = [pc EXCEPT ![m] = place]

Finish(m, r) ==
    /\ Goto(m, "done")
    /\ reply' = [reply EXCEPT ![m] = r]

\* Message m turns out to be of kind k.
Become(m, k) ==
    /\ pc[m] = "new"
    /\ k \in MayBe[m]
    /\ kind' = [kind EXCEPT ![m] = k]

\* What the appends of the entries to the logs leave written.
Written(entries) == {entries \ lost : lost \in SUBSET (entries \cap MayFail)}

\* Where the turns of m's conversation are buffered.
ConvoOf(m) == IF kind[m] = "query" THEN DmOf[Sender[m]] ELSE ChatOf[m]

-----------------------------------------------------------------------------
(* A group message *)

\* The handler reads the withdrawal count before the gate reads consent.
ReceiveGroup(m, k) ==
    /\ Become(m, k)
    /\ ReadWithdrawals(m)
    /\ Goto(m, "gate")
    /\ UNCHANGED <<gateVars, convos, outcome, reply, logs, unchecked, standing>>

AtGate(m) ==
    /\ pc[m] = "gate"
    /\ \/ CheckGet(m, kind[m] = "directed")
       \/ CheckNudge(m)
       \/ CheckPut(m)
    /\ standing' = {d \in standing : Sender[d] \notin clobbered'}
    /\ UNCHANGED <<convos, memVars, pc, kind, outcome, reply, logs, unchecked>>

Consented == {"serve", "logonly", "ratelimited"}

\* A refused, nudged or ignored message is answered at once and leaves nothing.
Dismiss(m) ==
    /\ pc[m] = "gate"
    /\ call[m].stage = "done"
    /\ call[m].decision \notin Consented
    /\ Finish(m, call[m].decision)
    /\ UNCHANGED <<gateVars, convos, memVars, kind, outcome, logs, unchecked, standing>>

\* A consented message goes to the quarantine log and the transcript, each append
\* failing on its own with a warning.
LogConsented(m) ==
    /\ pc[m] = "gate"
    /\ call[m].stage = "done"
    /\ call[m].decision \in Consented
    /\ \E written \in Written({"quarantine", "human"}) :
          logs' = [logs EXCEPT ![m] = @ \cup written]
    /\ Goto(m, "select")
    /\ UNCHANGED <<gateVars, convos, memVars, kind, outcome, reply, unchecked, standing>>

\* rememberUser, after the history was selected.  A message that is not answered
\* goes on to the consent check.
RememberUser(m) ==
    /\ pc[m] = "select"
    /\ AppendTurn(ConvoOf(m), UserTurn(m))
    /\ Goto(m, IF kind[m] = "query" \/ call[m].decision = "serve" THEN "engine" ELSE "check")
    /\ UNCHANGED <<gateVars, memVars, kind, outcome, reply, logs, unchecked, standing>>

\* Where the handler goes when the answer is there: only the group path checks
\* consent again.
AfterAnswer(m, o) == IF kind[m] = "query" THEN "close" ELSE "check"

\* The engine answers, refuses (out of scope, or over budget) or fails.  An answer
\* to a group message is kept in long-term memory before the engine returns it.
EngineRun(m, o) ==
    /\ pc[m] = "engine"
    /\ outcome' = [outcome EXCEPT ![m] = o]
    /\ Goto(m, IF o # "answered" THEN AfterAnswer(m, o)
               ELSE IF kind[m] = "query" THEN "answered" ELSE "keep")
    /\ UNCHANGED <<gateVars, convos, memVars, kind, reply, logs, unchecked, standing>>

Keep(m) ==
    /\ pc[m] = "keep"
    /\ KeepBegin(m) \/ KeepMessage(m) \/ KeepAnswer(m)
    /\ Goto(m, IF turn'[m] = "over" THEN "answered" ELSE "keep")
    /\ UNCHANGED <<gateVars, convos, kind, outcome, reply, logs, unchecked, standing>>

\* rememberBot; the answer has text.
RememberBot(m) ==
    /\ pc[m] = "answered"
    /\ AppendTurn(ConvoOf(m), BotTurn(m))
    /\ Goto(m, AfterAnswer(m, "answered"))
    /\ UNCHANGED <<gateVars, memVars, kind, outcome, reply, logs, unchecked, standing>>

\* Variant with a bug: consent is not read again after the turn was buffered.
CheckConsent_Skipped(m) ==
    /\ pc[m] = "check"
    /\ Goto(m, "close")
    /\ UNCHANGED <<gateVars, convos, memVars, kind, outcome, reply, logs, unchecked, standing>>
\* purgeIfWithdrawn reads the consent after the turn was buffered.  A failed read
\* leaves the buffer as it is.
CheckConsent(m) ==
    LET withdrew == store[Sender[m]].consent # "granted"
    IN  /\ pc[m] = "check"
        /\ \/ /\ Goto(m, IF withdrew THEN "purge" ELSE "close")
              /\ UNCHANGED unchecked
           \/ /\ Goto(m, "close")
              /\ unchecked' = IF withdrew THEN unchecked \cup {Sender[m]} ELSE unchecked
        /\ UNCHANGED <<gateVars, convos, memVars, kind, outcome, reply, logs, standing>>

PurgeAfterCheck(m) ==
    /\ pc[m] = "purge"
    /\ PurgeUser(Sender[m])
    /\ unchecked' = unchecked \ {Sender[m]}
    /\ Goto(m, "close")
    /\ UNCHANGED <<gateVars, memVars, kind, outcome, reply, logs, standing>>

\* The last entry of the transcript, if the message has one: the bot's reply to a
\* served message unless the engine failed, or a marker for a rate-limited one.
LastEntry(m) ==
    CASE kind[m] \in GroupKinds /\ call[m].decision = "serve" /\ outcome[m] # "error" -> {"bot"}
      [] kind[m] \in GroupKinds /\ call[m].decision = "ratelimited" -> {"system"}
      [] OTHER -> {}

Close(m) ==
    /\ pc[m] = "close"
    /\ \E written \in Written(LastEntry(m)) : logs' = [logs EXCEPT ![m] = @ \cup written]
    /\ Finish(m, CASE outcome[m] = "answered" -> "answer"
                   [] outcome[m] = "refused"  -> "refused"
                   [] outcome[m] = "error"    -> "error"
                   [] outcome[m] = "none" /\ call[m].decision = "ratelimited" -> "ratelimited"
                   [] OTHER -> "silent")
    /\ UNCHANGED <<gateVars, convos, memVars, kind, outcome, unchecked, standing>>

-----------------------------------------------------------------------------
(* A direct message *)

\* An admin's query goes to the engine past the gate, without long-term memory.
ReceiveQuery(m) ==
    /\ Become(m, "query")
    /\ Sender[m] \in Admins
    /\ Goto(m, "select")
    /\ UNCHANGED <<gateVars, convos, memVars, outcome, reply, logs, unchecked, standing>>

\* "/consent": one store transaction, which may fail.
ReceiveGrant(m) ==
    LET u == Sender[m]
    IN  /\ Become(m, "grant")
        /\ \/ /\ SetConsent(u, "granted")
              /\ Finish(m, "granted")
              /\ standing' = {d \in standing : Sender[d] # u}
           \/ /\ Finish(m, "consenterror")
              /\ UNCHANGED <<gateVars, standing>>
        /\ UNCHANGED <<convos, memVars, outcome, logs, unchecked>>

\* Any other DM reads the consent and shows it, or offers the opt-in button.
ReceiveStatus(m) ==
    /\ Become(m, "status")
    /\ \E r \in {"status", "consenterror"} : Finish(m, r)
    /\ UNCHANGED <<gateVars, convos, memVars, outcome, logs, unchecked, standing>>

ReceiveRemove(m) ==
    /\ Become(m, "remove")
    /\ Goto(m, "decline")
    /\ UNCHANGED <<gateVars, convos, memVars, outcome, reply, logs, unchecked, standing>>

\* "/consent remove" records the decline first; if that fails nothing else is done.
Decline(m) ==
    LET u == Sender[m]
    IN  /\ pc[m] = "decline"
        /\ \/ /\ SetConsent(u, "declined")
              /\ Goto(m, "forget")
              /\ standing' = standing \cup {m}
              /\ UNCHANGED reply
           \/ /\ Finish(m, "consenterror")
              /\ UNCHANGED <<gateVars, standing>>
        /\ UNCHANGED <<convos, memVars, kind, outcome, logs, unchecked>>

\* The conversation buffer forgets the user.
Forget(m) ==
    /\ pc[m] = "forget"
    /\ PurgeUser(Sender[m])
    /\ unchecked' = unchecked \ {Sender[m]}
    /\ Goto(m, "withdraw")
    /\ UNCHANGED <<gateVars, memVars, kind, outcome, reply, logs, standing>>

StartErase(m) ==
    /\ pc[m] = "withdraw"
    /\ Withdraw(m)
    /\ Goto(m, "erase")
    /\ UNCHANGED <<gateVars, convos, kind, outcome, reply, logs, unchecked, standing>>

Erase(m) ==
    /\ pc[m] = "erase"
    /\ DeleteNext(m)
    /\ UNCHANGED <<gateVars, convos, handlerVars>>

\* The reply says whether everything went.
FinishErase(m) ==
    /\ pc[m] = "erase"
    /\ EraseReturn(m)
    /\ Finish(m, IF Erased(m) THEN "erased" ELSE "erasefailed")
    /\ UNCHANGED <<gateVars, convos, kind, outcome, logs, unchecked, standing>>

-----------------------------------------------------------------------------
\* The process dies and starts again: the access-control store, the memory service
\* and the logs survive; the buffer, the gate's map and every handler do not.
Restart ==
    /\ GateRestart /\ MemRestart
    /\ convos' = [c \in Convos |-> <<>>]
    /\ pc' = [m \in Msgs |-> IF pc[m] = "new" THEN "new" ELSE "done"]
    /\ unchecked' = {}
    /\ UNCHANGED <<kind, outcome, reply, logs, standing>>

\* Time passes: rate windows and cooldowns end.
PassTime == Tick /\ UNCHANGED <<convos, memVars, handlerVars>>

Receive(m) ==
    \/ \E k \in GroupKinds : ReceiveGroup(m, k)
    \/ ReceiveQuery(m) \/ ReceiveGrant(m) \/ ReceiveStatus(m) \/ ReceiveRemove(m)

\* A step of a handler under way.
Proceed(m) ==
    \/ AtGate(m) \/ Dismiss(m) \/ LogConsented(m) \/ RememberUser(m)
    \/ \E o \in {"answered", "refused", "error"} : EngineRun(m, o)
    \/ Keep(m) \/ RememberBot(m) \/ CheckConsent(m) \/ PurgeAfterCheck(m) \/ Close(m)
    \/ Decline(m) \/ Forget(m) \/ StartErase(m) \/ Erase(m) \/ FinishErase(m)

AllDone == (\A m \in Msgs : pc[m] = "done") /\ UNCHANGED vars

Next == (\E m \in Msgs : Receive(m) \/ Proceed(m)) \/ PassTime \/ Restart \/ AllDone

\* What the handler does, without saying that it goes on.
HandlerRuns == Init /\ [][Next]_vars

\* A goroutine that can take a step takes it in the end.
Spec == HandlerRuns /\ \A m \in Msgs : WF_vars(Proceed(m))

-----------------------------------------------------------------------------
(* Properties *)

\* Where a turn of message m may still be purged by m's own handler.
MayPurge(m) == kind[m] \in GroupKinds /\ pc[m] \in {"engine", "keep", "answered", "check", "purge"}

GroupTurns(u) == {m \in Msgs : /\ Sender[m] = u
                               /\ kind[m] \in GroupKinds
                               /\ \E c \in Convos : \E i \in 1..Len(convos[c]) :
                                     convos[c][i] = UserTurn(m)}

\* A turn buffered around a withdrawal does not stay: once no handler of the user
\* has its purge ahead, the buffer holds no group turn of a user whose consent is
\* off, unless the consent could not be read (purgeIfWithdrawn, dmConsentFlow).
BufferForgets ==
    \A u \in Users :
        /\ store[u].consent # "granted"
        /\ u \notin unchecked
        /\ \A m \in Msgs : (Sender[m] = u => pc[m] # "forget" /\ ~MayPurge(m))
        => GroupTurns(u) = {}

Remembered(u) == UNION {Of(u, ltm[ns]) : ns \in Namespaces}

\* When the reply says everything was erased, long-term memory holds nothing of the
\* user until they opt in again, or a stale write of the gate undoes the withdrawal.
ErasedReplyHolds ==
    \A d \in standing : reply[d] = "erased" => Remembered(Sender[d]) = {}

\* The records long-term memory holds of message m.
KeptOf(m) == {i \in UNION {ltm[ns] : ns \in Namespaces} : i.msg = m}

\* What a group message may leave behind: a log entry, a buffered turn, a record in
\* long-term memory.
Trace(m) == logs[m] # {} \/ m \in GroupTurns(Sender[m]) \/ KeptOf(m) # {}

\* A group message of a user who never opted in, or one that the gate turned away,
\* leaves nothing, however its handler and the user's other messages interleave
\* (NewHandler, "record nothing without consent").
NoTraceWithoutConsent ==
    \A m \in Msgs : kind[m] \in GroupKinds /\ Trace(m) =>
        /\ Sender[m] \in optedIn
        /\ reply[m] \notin {"nudge", "refuse"}
=============================================================================
