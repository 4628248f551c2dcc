---------------------------- MODULE LongMemory ----------------------------
(***************************************************************************)
(* Long-term memory: how the engine keeps an answered turn (core.Memory)   *)
(* and how a withdrawal erases a user (runtime.Eraser).                    *)
(*                                                                         *)
(* A turn reads its sender's withdrawal count before the consent gate and  *)
(* is kept only if the count is the same when it is answered.  Keeping is  *)
(* two appends to the memory store under the read half of one RWMutex;     *)
(* Withdraw counts under the write half, so it waits for every turn that   *)
(* is being kept, and the eraser deletes after it.  The memory store is a  *)
(* service: each of its calls is atomic and may fail.                      *)
(***************************************************************************)
EXTENDS Members, Naturals, Sequences

CONSTANTS
    NsOrder,    \* the recorded namespaces, in the order the eraser takes them
    NsOf        \* the namespace of the chat a message comes from

Namespaces == {NsOrder[i] : i \in 1..Len(NsOrder)}

ASSUME MemAssumption ==
    /\ NsOrder \in Seq(Namespaces)
    /\ NsOf \in [Msgs -> Namespaces]

VARIABLES
    withdrawn,  \* core.Memory's withdrawal counts; memory only
    turn,       \* where each message stands in long-term memory
    seen,       \* the withdrawal count each message read before the gate
    erase,      \* where the Erase that a withdrawal message runs stands
    next,       \* the place in NsOrder each Erase takes next
    failed,     \* the namespaces each Erase could not delete from
    ltm,        \* what the memory service holds, by namespace
    \* history, read by no action:
    epoch,      \* withdrawals ever counted of each user, over every run of the bot
    born,       \* the epoch in which each message read the count
    since       \* the epoch each Erase began

turnVars  == <<turn, seen, born>>
eraseVars == <<erase, next, failed, since>>
memVars   == <<withdrawn, turnVars, eraseVars, ltm, epoch>>

\* A turn holds the read lock while it is being kept: before its first append
\* ("keeping") and between its two appends ("half").
TurnStages  == {"none", "admitted", "keeping", "half", "over"}
EraseStages == {"none", "deleting", "done", "lost"}

\* One record of the service: a part of a turn, and the epoch of that turn.
Item == [msg: Msgs, part: {"message", "answer"}, epoch: Nat]

\* The types of the long-term memory's variables.
MemTypeOK ==
    /\ withdrawn \in [Users -> Nat]
    /\ turn \in [Msgs -> TurnStages]
    /\ seen \in [Msgs -> Nat]
    /\ erase \in [Msgs -> EraseStages]
    /\ next \in [Msgs -> 1..Len(NsOrder) + 1]
    /\ failed \in [Msgs -> SUBSET Namespaces]
    /\ ltm \in [Namespaces -> SUBSET Item]
    /\ epoch \in [Users -> Nat]
    /\ born \in [Msgs -> Nat]
    /\ since \in [Msgs -> Nat]

MemInit ==
    /\ withdrawn = [u \in Users |-> 0]
    /\ turn = [m \in Msgs |-> "none"]
    /\ seen = [m \in Msgs |-> 0]
    /\ erase = [m \in Msgs |-> "none"]
    /\ next = [m \in Msgs |-> 1]
    /\ failed = [m \in Msgs |-> {}]
    /\ ltm = [ns \in Namespaces |-> {}]
    /\ epoch = [u \in Users |-> 0]
    /\ born = [m \in Msgs |-> 0]
    /\ since = [m \in Msgs |-> 0]

Keeping(m) == turn[m] \in {"keeping", "half"}

MoveTurn(m, stage) ==
    /\ turn' = [turn EXCEPT ![m] = stage]
    /\ UNCHANGED <<seen, born>>

-----------------------------------------------------------------------------
(* A turn *)

\* Eraser.Withdrawals, before the gate.
ReadWithdrawals(m) ==
    LET u == Sender[m]
    IN  /\ turn[m] = "none"
        /\ turn' = [turn EXCEPT ![m] = "admitted"]
        /\ seen' = [seen EXCEPT ![m] = withdrawn[u]]
        /\ born' = [born EXCEPT ![m] = epoch[u]]
        /\ UNCHANGED <<withdrawn, eraseVars, ltm, epoch>>

\* Variant with a bug: the count is not compared under the lock.
KeepBegin_Unchecked(m) ==
    /\ turn[m] = "admitted"
    /\ MoveTurn(m, "keeping")
    /\ UNCHANGED <<withdrawn, eraseVars, ltm, epoch>>
\* turn.keep takes the read lock and compares the count: Withdraw holds the
\* write lock for a single step, so the read lock is free between steps.
KeepBegin(m) ==
    /\ turn[m] = "admitted"
    /\ MoveTurn(m, IF withdrawn[Sender[m]] = seen[m] THEN "keeping" ELSE "over")
    /\ UNCHANGED <<withdrawn, eraseVars, ltm, epoch>>

\* One append to the namespace of the message's chat.
Store(m, part) ==
    ltm' = [ltm EXCEPT ![NsOf[m]] = @ \cup {[msg |-> m, part |-> part, epoch |-> born[m]]}]

\* The asker's message; if the append fails the answer is not kept either.
KeepMessage(m) ==
    /\ turn[m] = "keeping"
    /\ \/ Store(m, "message") /\ MoveTurn(m, "half")
       \/ UNCHANGED ltm /\ MoveTurn(m, "over")
    /\ UNCHANGED <<withdrawn, eraseVars, epoch>>

\* The answer; the read lock is released whether or not the append fails.
KeepAnswer(m) ==
    /\ turn[m] = "half"
    /\ Store(m, "answer") \/ UNCHANGED ltm
    /\ MoveTurn(m, "over")
    /\ UNCHANGED <<withdrawn, eraseVars, epoch>>

-----------------------------------------------------------------------------
(* Eraser.Erase, run by a withdrawal message for its sender *)

\* The count of a withdrawal, and the start of its Erase.
Count(m) ==
    LET u == Sender[m]
    IN  /\ withdrawn' = [withdrawn EXCEPT ![u] = @ + 1]
        /\ epoch' = [epoch EXCEPT ![u] = @ + 1]
        /\ since' = [since EXCEPT ![m] = epoch[u] + 1]
        /\ erase' = [erase EXCEPT ![m] = "deleting"]
        /\ UNCHANGED <<turnVars, next, failed, ltm>>

\* Variant with a bug: waits for every turn that was admitted, kept in the end or not.
Withdraw_Draining(m) ==
    /\ erase[m] = "none"
    /\ \A o \in Msgs : turn[o] \in {"none", "over"}
    /\ Count(m)
\* Memory.Withdraw: waits for the turns being kept, of any user.
Withdraw(m) ==
    /\ erase[m] = "none"
    /\ ~ \E o \in Msgs : Keeping(o)
    /\ Count(m)

Of(u, items) == {i \in items : Sender[i.msg] = u}

\* DeleteSubject in the next namespace; every namespace is tried, whatever
\* happened in the ones before.
DeleteNext(m) ==
    LET ns == NsOrder[next[m]]
    IN  /\ erase[m] = "deleting"
        /\ next[m] <= Len(NsOrder)
        /\ next' = [next EXCEPT ![m] = @ + 1]
        /\ \/ /\ ltm' = [ltm EXCEPT ![ns] = @ \ Of(Sender[m], @)]
              /\ UNCHANGED failed
           \/ /\ failed' = [failed EXCEPT ![m] = @ \cup {ns}]
              /\ UNCHANGED ltm
        /\ UNCHANGED <<withdrawn, turnVars, erase, since, epoch>>

EraseReturn(m) ==
    /\ erase[m] = "deleting"
    /\ next[m] > Len(NsOrder)
    /\ erase' = [erase EXCEPT ![m] = "done"]
    /\ UNCHANGED <<withdrawn, turnVars, next, failed, since, ltm, epoch>>

\* Variant with a bug: a namespace that failed is not reported.
Erased_Ignoring(m) == TRUE
\* Erased(results): every namespace was deleted from.
Erased(m) == failed[m] = {}

\* The process dies and starts again: the service keeps what it holds; the counts
\* start from zero, and no turn or erase under way survives.
MemRestart ==
    /\ withdrawn' = [u \in Users |-> 0]
    /\ turn' = [m \in Msgs |-> IF turn[m] = "none" THEN "none" ELSE "over"]
    /\ erase' = [m \in Msgs |-> IF erase[m] = "deleting" THEN "lost" ELSE erase[m]]
    /\ UNCHANGED <<seen, born, next, failed, since, ltm, epoch>>

MemStep(m) ==
    \/ ReadWithdrawals(m) \/ KeepBegin(m) \/ KeepMessage(m) \/ KeepAnswer(m)
    \/ Withdraw(m) \/ DeleteNext(m) \/ EraseReturn(m)

MemNext == MemRestart \/ \E m \in Msgs : MemStep(m)

MemSpec == MemInit /\ [][MemNext]_memVars

-----------------------------------------------------------------------------
(* Properties *)

\* The namespaces m's erase has been through and deleted from.
Cleared(m) == {NsOrder[i] : i \in 1..next[m] - 1} \ failed[m]

\* Nothing kept before an erase outlives it: in a namespace the erase has deleted
\* from, every record left of the user belongs to a turn that read the count after
\* the erase's own Withdraw, whatever turns were under way, whichever namespaces
\* failed, and across restarts (Memory.Withdraw and Eraser.Erase).
ErasedMeansGone ==
    \A m \in Msgs : erase[m] # "none" =>
        \A ns \in Cleared(m) : \A i \in Of(Sender[m], ltm[ns]) : i.epoch >= since[m]
=============================================================================
