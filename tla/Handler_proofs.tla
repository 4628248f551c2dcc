--------------------------- MODULE Handler_proofs ---------------------------
(***************************************************************************)
(* What long-term memory promises by itself; and the handler implements    *)
(* the gate and long-term memory: every step of it is a step of each, or   *)
(* leaves it alone.  So what is proved of them alone holds of the whole    *)
(* handler.  What the handler does between them follows: no trace without  *)
(* consent, a buffer that forgets, and a reply that says the truth; and,   *)
(* last, a question is asked with the turns that its selection promises.   *)
(***************************************************************************)
EXTENDS Handler, Selection, Gate_proofs, FiniteSetTheorems

-----------------------------------------------------------------------------
(* Long-term memory: what an erase deleted stays deleted, whichever deletions fail *)
(* and however often the process restarts.                                         *)

Live(m) == turn[m] \in {"admitted", "keeping", "half"}

\* The counts start again with the process and the epochs do not: for a turn of
\* this process the two differ by the same amount now as when they were read.
CountTracksEpoch ==
    \A m \in Msgs : Live(m) =>
        epoch[Sender[m]] + seen[m] = withdrawn[Sender[m]] + born[m]

\* A turn that holds the read lock read the count after the last withdrawal.
KeepingIsCurrent == \A m \in Msgs : Keeping(m) => born[m] = epoch[Sender[m]]

\* An erase belongs to a withdrawal that was counted, and one that has not started
\* has deleted nothing.
EraseWasCounted ==
    \A m \in Msgs : /\ since[m] <= epoch[Sender[m]]
                    /\ erase[m] = "none" => next[m] = 1

MemInv == MemTypeOK /\ CountTracksEpoch /\ KeepingIsCurrent /\ EraseWasCounted /\ ErasedMeansGone

-----------------------------------------------------------------------------
(* Types *)

LEMMA MemInitTypeOK == MemInit => MemTypeOK
<1> SUFFICES ASSUME MemInit PROVE MemTypeOK
  OBVIOUS
<1>1. Len(NsOrder) \in Nat
  BY MemAssumption
<1> QED
  BY <1>1 DEF MemInit, MemTypeOK, TurnStages, EraseStages

LEMMA StoreTypeOK ==
    ASSUME MemTypeOK, NEW m \in Msgs, NEW part \in {"message", "answer"}, Store(m, part)
    PROVE  ltm' \in [Namespaces -> SUBSET Item]
<1>1. [msg |-> m, part |-> part, epoch |-> born[m]] \in Item /\ NsOf[m] \in Namespaces
  BY MemAssumption DEF Item, MemTypeOK
<1> QED
  BY <1>1 DEF Store, MemTypeOK

LEMMA MemNextTypeOK == MemTypeOK /\ [MemNext]_memVars => MemTypeOK'
<1> SUFFICES ASSUME MemTypeOK, [MemNext]_memVars PROVE MemTypeOK'
  OBVIOUS
<1>0. Len(NsOrder) \in Nat /\ Sender \in [Msgs -> Users]
  BY MemAssumption, SenderAssumption
<1> USE <1>0 DEF MemTypeOK, TurnStages, EraseStages, MoveTurn, turnVars, eraseVars
<1>1. ASSUME NEW m \in Msgs, ReadWithdrawals(m) PROVE MemTypeOK'
  BY <1>1 DEF ReadWithdrawals
<1>2. ASSUME NEW m \in Msgs, KeepBegin(m) PROVE MemTypeOK'
  BY <1>2 DEF KeepBegin
<1>3. ASSUME NEW m \in Msgs, KeepMessage(m) PROVE MemTypeOK'
  <2>1. ltm' \in [Namespaces -> SUBSET Item]
    BY <1>3, StoreTypeOK DEF KeepMessage
  <2> QED
    BY <1>3, <2>1 DEF KeepMessage
<1>4. ASSUME NEW m \in Msgs, KeepAnswer(m) PROVE MemTypeOK'
  <2>1. ltm' \in [Namespaces -> SUBSET Item]
    BY <1>4, StoreTypeOK DEF KeepAnswer
  <2> QED
    BY <1>4, <2>1 DEF KeepAnswer
<1>5. ASSUME NEW m \in Msgs, Withdraw(m) PROVE MemTypeOK'
  BY <1>5 DEF Withdraw, Count
<1>6. ASSUME NEW m \in Msgs, DeleteNext(m) PROVE MemTypeOK'
  <2>1. /\ NsOrder[next[m]] \in Namespaces
        /\ next[m] + 1 \in 1..Len(NsOrder) + 1
    BY <1>6 DEF DeleteNext, Namespaces
  <2>2. ltm' \in [Namespaces -> SUBSET Item]
    BY <1>6, <2>1 DEF DeleteNext, Of
  <2>3. failed' \in [Msgs -> SUBSET Namespaces]
    <3>1. failed[m] \cup {NsOrder[next[m]]} \in SUBSET Namespaces
      BY <2>1
    <3>2. CASE failed' = [failed EXCEPT ![m] = failed[m] \cup {NsOrder[next[m]]}]
      BY <3>1, <3>2
    <3>3. CASE UNCHANGED failed
      BY <3>3
    <3> QED
      BY <1>6, <3>2, <3>3 DEF DeleteNext
  <2>4. next' \in [Msgs -> 1..Len(NsOrder) + 1]
    BY <1>6, <2>1 DEF DeleteNext
  <2> QED
    BY <1>6, <2>2, <2>3, <2>4 DEF DeleteNext
<1>7. ASSUME NEW m \in Msgs, EraseReturn(m) PROVE MemTypeOK'
  BY <1>7 DEF EraseReturn
<1>8. CASE MemRestart
  BY <1>8 DEF MemRestart
<1>9. CASE UNCHANGED memVars
  BY <1>9 DEF memVars
<1> QED
  BY <1>1, <1>2, <1>3, <1>4, <1>5, <1>6, <1>7, <1>8, <1>9 DEF MemNext, MemStep

-----------------------------------------------------------------------------
(* Turns and withdrawals *)

\* A turn under way and the withdrawals of its sender.
LEMMA NextTurns ==
    MemInv /\ [MemNext]_memVars => CountTracksEpoch' /\ KeepingIsCurrent' /\ EraseWasCounted'
<1> SUFFICES ASSUME MemInv, [MemNext]_memVars
             PROVE  CountTracksEpoch' /\ KeepingIsCurrent' /\ EraseWasCounted'
  OBVIOUS
<1>0. Sender \in [Msgs -> Users] /\ Len(NsOrder) \in Nat
  BY SenderAssumption, MemAssumption
<1> USE <1>0 DEF MemInv, MemTypeOK, CountTracksEpoch, KeepingIsCurrent, EraseWasCounted, Live,
                 Keeping, TurnStages, EraseStages, MoveTurn, turnVars, eraseVars
<1>1. ASSUME NEW m \in Msgs, ReadWithdrawals(m)
      PROVE  CountTracksEpoch' /\ KeepingIsCurrent' /\ EraseWasCounted'
  BY <1>1 DEF ReadWithdrawals
<1>2. ASSUME NEW m \in Msgs, KeepBegin(m)
      PROVE  CountTracksEpoch' /\ KeepingIsCurrent' /\ EraseWasCounted'
  <2>1. CASE withdrawn[Sender[m]] = seen[m]
    \* The counts agree, so the epochs do.
    <3>1. born[m] = epoch[Sender[m]]
      BY <1>2, <2>1 DEF KeepBegin
    <3> QED
      BY <1>2, <2>1, <3>1 DEF KeepBegin
  <2>2. CASE withdrawn[Sender[m]] # seen[m]
    BY <1>2, <2>2 DEF KeepBegin
  <2> QED
    BY <2>1, <2>2
<1>3. ASSUME NEW m \in Msgs, KeepMessage(m)
      PROVE  CountTracksEpoch' /\ KeepingIsCurrent' /\ EraseWasCounted'
  BY <1>3 DEF KeepMessage
<1>4. ASSUME NEW m \in Msgs, KeepAnswer(m)
      PROVE  CountTracksEpoch' /\ KeepingIsCurrent' /\ EraseWasCounted'
  BY <1>4 DEF KeepAnswer
<1>5. ASSUME NEW m \in Msgs, Withdraw(m)
      PROVE  CountTracksEpoch' /\ KeepingIsCurrent' /\ EraseWasCounted'
  <2>1. ASSUME NEW o \in Msgs, Live(o)'
        PROVE  epoch'[Sender[o]] + seen'[o] = withdrawn'[Sender[o]] + born'[o]
    <3>1. Live(o) /\ seen'[o] = seen[o] /\ born'[o] = born[o]
      BY <1>5, <2>1 DEF Withdraw, Count
    <3>2. CASE Sender[o] = Sender[m]
      <4>1. /\ epoch'[Sender[o]] = epoch[Sender[o]] + 1
            /\ withdrawn'[Sender[o]] = withdrawn[Sender[o]] + 1
        BY <1>5, <3>2 DEF Withdraw, Count
      <4>2. /\ epoch[Sender[o]] \in Nat /\ withdrawn[Sender[o]] \in Nat
            /\ seen[o] \in Nat /\ born[o] \in Nat
        OBVIOUS
      <4>3. epoch[Sender[o]] + seen[o] = withdrawn[Sender[o]] + born[o]
        BY <3>1
      <4> QED
        BY ONLY <3>1, <4>1, <4>2, <4>3
    <3>3. CASE Sender[o] # Sender[m]
      BY <1>5, <3>1, <3>3 DEF Withdraw, Count
    <3> QED
      BY <3>2, <3>3
  \* The write lock: no turn is being kept.
  <2>2. KeepingIsCurrent'
    BY <1>5 DEF Withdraw, Count
  <2>3. EraseWasCounted'
    BY <1>5 DEF Withdraw, Count
  <2> QED
    BY <2>1, <2>2, <2>3
<1>6. ASSUME NEW m \in Msgs, DeleteNext(m)
      PROVE  CountTracksEpoch' /\ KeepingIsCurrent' /\ EraseWasCounted'
  BY <1>6 DEF DeleteNext
<1>7. ASSUME NEW m \in Msgs, EraseReturn(m)
      PROVE  CountTracksEpoch' /\ KeepingIsCurrent' /\ EraseWasCounted'
  BY <1>7 DEF EraseReturn
<1>8. CASE MemRestart
  BY <1>8 DEF MemRestart
<1>9. CASE UNCHANGED memVars
  BY <1>9 DEF memVars
<1> QED
  BY <1>1, <1>2, <1>3, <1>4, <1>5, <1>6, <1>7, <1>8, <1>9 DEF MemNext, MemStep

-----------------------------------------------------------------------------
(* Erased means gone *)

\* An erase deletes from recorded namespaces only.
LEMMA ClearedRecorded ==
    ASSUME MemTypeOK, NEW m \in Msgs
    PROVE  Cleared(m) \subseteq Namespaces
<1>1. Len(NsOrder) \in Nat /\ next[m] \in 1..Len(NsOrder) + 1
  BY MemAssumption DEF MemTypeOK
<1>2. \A i \in 1..next[m] - 1 : i \in 1..Len(NsOrder)
  BY <1>1
<1> QED
  BY <1>2 DEF Cleared, Namespaces

\* Nothing is stored, and no erase begins or moves on: what was gone stays gone.
LEMMA GoneStutter ==
    ASSUME ErasedMeansGone, MemTypeOK, UNCHANGED <<next, failed, since>>,
           \A ns \in Namespaces : ltm'[ns] \subseteq ltm[ns],
           \A m \in Msgs : erase[m] = "none" => erase'[m] = "none"
    PROVE  ErasedMeansGone'
<1>1. \A m \in Msgs : Cleared(m)' = Cleared(m) /\ Cleared(m) \subseteq Namespaces
  BY ClearedRecorded DEF Cleared
<1> QED
  BY <1>1 DEF ErasedMeansGone, Of

\* An append of a turn that holds the lock: the turn is younger than every erase of
\* its sender.
LEMMA GoneStore ==
    ASSUME MemInv, NEW m \in Msgs, Keeping(m), NEW part \in {"message", "answer"},
           Store(m, part), UNCHANGED <<erase, next, failed, since>>
    PROVE  ErasedMeansGone'
<1> SUFFICES ASSUME NEW d \in Msgs, erase[d] # "none", NEW ns \in Cleared(d),
                    NEW i \in Of(Sender[d], ltm'[ns])
             PROVE  i.epoch >= since[d]
  BY DEF ErasedMeansGone, Cleared
<1>1. ns \in Namespaces
  BY ClearedRecorded DEF MemInv
<1>2. CASE i \in ltm[ns]
  BY <1>2 DEF MemInv, ErasedMeansGone, Of
<1>3. CASE i \notin ltm[ns]
  <2>1. i = [msg |-> m, part |-> part, epoch |-> born[m]]
    BY <1>1, <1>3 DEF Store, Of, MemInv, MemTypeOK
  <2>2. Sender[d] = Sender[m] /\ i.epoch = epoch[Sender[d]]
    BY <2>1 DEF Of, MemInv, KeepingIsCurrent
  <2>3. since[d] <= epoch[Sender[d]] /\ since[d] \in Nat /\ epoch[Sender[d]] \in Nat
    BY SenderAssumption DEF MemInv, EraseWasCounted, MemTypeOK
  <2> QED
    BY <2>2, <2>3
<1> QED
  BY <1>2, <1>3

\* The deletion in the next namespace.
LEMMA GoneDelete ==
    ASSUME MemInv, NEW m \in Msgs, DeleteNext(m)
    PROVE  ErasedMeansGone'
<1> DEFINE here == NsOrder[next[m]]
<1>0. /\ Len(NsOrder) \in Nat
      /\ next[m] \in 1..Len(NsOrder)
      /\ next' = [next EXCEPT ![m] = next[m] + 1]
      /\ UNCHANGED <<erase, since>>
  BY MemAssumption DEF DeleteNext, MemInv, MemTypeOK, eraseVars
<1>1. /\ next' \in [Msgs -> Nat] /\ next \in [Msgs -> Nat]
      /\ next'[m] - 1 = next[m]
      /\ \A d \in Msgs \ {m} : next'[d] = next[d]
  BY <1>0 DEF MemInv, MemTypeOK
<1>2. {NsOrder[i] : i \in 1..next'[m] - 1} = {NsOrder[i] : i \in 1..next[m] - 1} \cup {here}
  BY <1>0, <1>1
<1>3. \A d \in Msgs \ {m} : Cleared(d)' \subseteq Cleared(d)
  BY <1>0, <1>1 DEF Cleared, DeleteNext, MemInv, MemTypeOK
<1>4. here \in Namespaces /\ \A d \in Msgs : Cleared(d) \subseteq Namespaces
  BY <1>0, ClearedRecorded DEF Namespaces, MemInv
<1>5. \A ns \in Namespaces : ltm'[ns] \subseteq ltm[ns]
  BY <1>4 DEF DeleteNext, MemInv, MemTypeOK
<1>6. CASE failed' = [failed EXCEPT ![m] = failed[m] \cup {here}]
  <2>1. Cleared(m)' \subseteq Cleared(m)
    BY <1>2, <1>6 DEF Cleared, MemInv, MemTypeOK
  <2> QED
    BY <1>0, <1>3, <1>4, <1>5, <2>1 DEF ErasedMeansGone, Of, MemInv
<1>7. CASE ltm' = [ltm EXCEPT ![here] = ltm[here] \ Of(Sender[m], ltm[here])]
           /\ UNCHANGED failed
  <2>1. Cleared(m)' \subseteq Cleared(m) \cup {here}
    BY <1>2, <1>7 DEF Cleared
  <2>2. Of(Sender[m], ltm'[here]) = {}
    BY <1>4, <1>7 DEF Of, MemInv, MemTypeOK
  <2>3. ASSUME NEW d \in Msgs, erase'[d] # "none", NEW ns \in Cleared(d)',
               NEW i \in Of(Sender[d], ltm'[ns])
        PROVE  i.epoch >= since'[d]
    <3>1. ns \in Cleared(d)
      BY <1>3, <2>1, <2>2, <2>3
    <3>2. i \in Of(Sender[d], ltm[ns])
      BY <1>4, <1>5, <2>3, <3>1 DEF Of
    <3> QED
      BY <1>0, <2>3, <3>1, <3>2 DEF ErasedMeansGone, MemInv
  <2> QED
    BY <2>3 DEF ErasedMeansGone
<1> QED
  BY <1>6, <1>7 DEF DeleteNext

LEMMA NextGone == MemInv /\ [MemNext]_memVars => ErasedMeansGone'
<1> SUFFICES ASSUME MemInv, [MemNext]_memVars PROVE ErasedMeansGone'
  OBVIOUS
<1> USE DEF MoveTurn, turnVars, eraseVars
<1>1. ASSUME NEW m \in Msgs, ReadWithdrawals(m) PROVE ErasedMeansGone'
  BY <1>1, GoneStutter DEF ReadWithdrawals, MemInv
<1>2. ASSUME NEW m \in Msgs, KeepBegin(m) PROVE ErasedMeansGone'
  BY <1>2, GoneStutter DEF KeepBegin, MemInv
<1>3. ASSUME NEW m \in Msgs, KeepMessage(m) PROVE ErasedMeansGone'
  <2>1. Keeping(m)
    BY <1>3 DEF KeepMessage, Keeping
  <2>2. CASE UNCHANGED ltm
    BY <1>3, <2>2, GoneStutter DEF KeepMessage, MemInv
  <2>3. CASE Store(m, "message")
    BY <1>3, <2>1, <2>3, GoneStore DEF KeepMessage
  <2> QED
    BY <1>3, <2>2, <2>3 DEF KeepMessage
<1>4. ASSUME NEW m \in Msgs, KeepAnswer(m) PROVE ErasedMeansGone'
  <2>1. Keeping(m)
    BY <1>4 DEF KeepAnswer, Keeping
  <2>2. CASE UNCHANGED ltm
    BY <1>4, <2>2, GoneStutter DEF KeepAnswer, MemInv
  <2>3. CASE Store(m, "answer")
    BY <1>4, <2>1, <2>3, GoneStore DEF KeepAnswer
  <2> QED
    BY <1>4, <2>2, <2>3 DEF KeepAnswer
<1>5. ASSUME NEW m \in Msgs, Withdraw(m) PROVE ErasedMeansGone'
  \* The erase that starts has cleared nothing yet.
  <2>1. next[m] = 1 /\ UNCHANGED <<next, failed, ltm>>
    BY <1>5 DEF Withdraw, Count, MemInv, EraseWasCounted
  <2>2. Cleared(m)' = {} /\ \A d \in Msgs : Cleared(d)' = Cleared(d)
    BY <2>1 DEF Cleared
  <2>3. \A d \in Msgs \ {m} : erase'[d] = erase[d] /\ since'[d] = since[d]
    BY <1>5 DEF Withdraw, Count, MemInv, MemTypeOK
  <2> QED
    BY <2>1, <2>2, <2>3 DEF ErasedMeansGone, MemInv
<1>6. ASSUME NEW m \in Msgs, DeleteNext(m) PROVE ErasedMeansGone'
  BY <1>6, GoneDelete
<1>7. ASSUME NEW m \in Msgs, EraseReturn(m) PROVE ErasedMeansGone'
  BY <1>7, GoneStutter DEF EraseReturn, MemInv, MemTypeOK
<1>8. CASE MemRestart
  BY <1>8, GoneStutter DEF MemRestart, MemInv, MemTypeOK
<1>9. CASE UNCHANGED memVars
  BY <1>9, GoneStutter DEF memVars, MemInv
<1> QED
  BY <1>1, <1>2, <1>3, <1>4, <1>5, <1>6, <1>7, <1>8, <1>9 DEF MemNext, MemStep

LEMMA InitMemInv == MemInit => MemInv
<1> SUFFICES ASSUME MemInit PROVE MemInv
  OBVIOUS
<1>1. CountTracksEpoch /\ KeepingIsCurrent /\ ErasedMeansGone
  BY DEF MemInit, CountTracksEpoch, Live, KeepingIsCurrent, Keeping, ErasedMeansGone
<1>2. EraseWasCounted
  BY SenderAssumption DEF MemInit, EraseWasCounted
<1> QED
  BY <1>1, <1>2, MemInitTypeOK DEF MemInv

\* The strengthened invariant holds in every reachable state.
LEMMA MemInvariance == MemSpec => []MemInv
<1>1. MemInv /\ [MemNext]_memVars => MemInv'
  BY MemNextTypeOK, NextTurns, NextGone DEF MemInv
<1> QED
  BY InitMemInv, <1>1, PTL DEF MemSpec

-----------------------------------------------------------------------------
(* Nothing is ahead of its user's withdrawals *)

\* The records of long-term memory.
Held == UNION {ltm[ns] : ns \in Namespaces}

\* Neither a turn nor a record is of an epoch that has not begun.
Timely ==
    /\ \A m \in Msgs : born[m] <= epoch[Sender[m]]
    /\ \A i \in Held : i.msg \in Msgs /\ i.epoch \in Nat /\ i.epoch <= epoch[Sender[i.msg]]

\* Records come in only as their turn is kept.
LEMMA HeldGrows ==
    ASSUME MemTypeOK, NEW m \in Msgs, MemStep(m), NEW i \in Held', i \notin Held
    PROVE  Keeping(m) /\ i.msg = m /\ i.epoch = born[m]
<1>1. PICK ns \in Namespaces : i \in ltm'[ns] /\ i \notin ltm[ns]
  BY DEF Held
<1>2. ~DeleteNext(m)
  <2> SUFFICES ASSUME DeleteNext(m) PROVE FALSE
    OBVIOUS
  <2>1. ltm'[ns] \subseteq ltm[ns]
    BY DEF DeleteNext, MemTypeOK
  <2> QED
    BY <1>1, <2>1
<1>3. Keeping(m) /\ (Store(m, "message") \/ Store(m, "answer"))
  BY <1>1, <1>2 DEF MemStep, ReadWithdrawals, KeepBegin, KeepMessage, KeepAnswer, Withdraw, Count,
     EraseReturn, Keeping
<1>4. ASSUME NEW part, Store(m, part) PROVE i.msg = m /\ i.epoch = born[m]
  <2> DEFINE item == [msg |-> m, part |-> part, epoch |-> born[m]]
  <2>1. ltm' = [ltm EXCEPT ![NsOf[m]] = ltm[NsOf[m]] \cup {item}] /\ DOMAIN ltm = Namespaces
    BY <1>4 DEF Store, MemTypeOK
  <2>2. item.msg = m /\ item.epoch = born[m]
    OBVIOUS
  <2> HIDE DEF item
  <2>3. i = item
    BY <1>1, <2>1
  <2> QED
    BY <2>2, <2>3
<1> QED
  BY <1>3, <1>4

LEMMA TimelyInit == MemInit => Timely
<1> SUFFICES ASSUME MemInit PROVE Timely
  OBVIOUS
<1>1. Held = {}
  BY DEF MemInit, Held
<1> QED
  BY <1>1, SenderAssumption DEF MemInit, Timely

LEMMA TimelyStep == MemTypeOK /\ Timely /\ [MemNext]_memVars => Timely'
<1> SUFFICES ASSUME MemTypeOK, Timely, [MemNext]_memVars PROVE Timely'
  OBVIOUS
<1>0. /\ Sender \in [Msgs -> Users]
      /\ epoch \in [Users -> Nat] /\ born \in [Msgs -> Nat]
  BY SenderAssumption DEF MemTypeOK
<1>1. ASSUME NEW m \in Msgs, MemStep(m) PROVE Timely'
  <2>1. \A u \in Users : epoch'[u] \in Nat /\ epoch[u] <= epoch'[u]
    <3>1. UNCHANGED epoch \/ epoch' = [epoch EXCEPT ![Sender[m]] = epoch[Sender[m]] + 1]
      BY <1>1 DEF MemStep, ReadWithdrawals, KeepBegin, KeepMessage, KeepAnswer, Withdraw, Count,
         DeleteNext, EraseReturn
    <3> QED
      BY <1>0, <3>1
  <2>2. \A o \in Msgs : born'[o] = born[o] \/ born'[o] = epoch[Sender[o]]
    BY <1>0, <1>1 DEF MemStep, ReadWithdrawals, KeepBegin, KeepMessage, KeepAnswer, MoveTurn,
       Withdraw, Count, DeleteNext, EraseReturn, turnVars
  <2>3. \A o \in Msgs : born'[o] <= epoch'[Sender[o]]
    BY <1>0, <2>1, <2>2 DEF Timely
  <2>4. ASSUME NEW i \in Held'
        PROVE  i.msg \in Msgs /\ i.epoch \in Nat /\ i.epoch <= epoch'[Sender[i.msg]]
    <3>1. CASE i \in Held
      BY <1>0, <2>1, <3>1 DEF Timely
    <3>2. CASE i \notin Held
      <4>1. i.msg = m /\ i.epoch = born[m]
        BY <1>1, <3>2, HeldGrows
      <4> QED
        BY <1>0, <2>1, <4>1 DEF Timely
    <3> QED
      BY <3>1, <3>2
  <2> QED
    BY <2>3, <2>4 DEF Timely
<1>2. CASE MemRestart \/ UNCHANGED memVars
  <2>1. UNCHANGED <<born, epoch, ltm>>
    BY <1>2 DEF MemRestart, memVars, turnVars
  <2> QED
    BY <2>1 DEF Timely, Held
<1> QED
  BY <1>1, <1>2 DEF MemNext

LEMMA TimelyHolds == MemSpec => []Timely
<1>1. MemSpec => []MemTypeOK
  BY MemInvariance, PTL DEF MemInv
<1> QED
  BY <1>1, TimelyInit, TimelyStep, PTL DEF MemSpec

-----------------------------------------------------------------------------
(* The theorems *)

\* Long-term memory's variables keep their types (core.Memory, runtime.Eraser).
THEOREM MemTypeCorrect == MemSpec => []MemTypeOK
BY MemInvariance, PTL DEF MemInv

\* Whatever turns were under way when a user withdrew, whichever namespaces could
\* not be deleted from, and however often the bot restarts, nothing kept before the
\* withdrawal is ever again in a namespace its erase has deleted from
\* (Memory.Withdraw, turn.keep, Eraser.Erase).
THEOREM ErasedStaysGone == MemSpec => []ErasedMeansGone
BY MemInvariance, PTL DEF MemInv

-----------------------------------------------------------------------------
(* The handler implements the gate and long-term memory *)

\* No step of the handler does to the gate what the gate itself does not do.
LEMMA HandlerGateStep == [Next]_vars => [GateNext]_gateVars
<1> SUFFICES ASSUME [Next]_vars, ~ UNCHANGED gateVars PROVE GateNext
  BY Zenon
<1>0. Sender \in [Msgs -> Users]
  BY SenderAssumption
<1>1. ASSUME NEW m \in Msgs, Receive(m) PROVE GateNext
  <2>1. ReceiveGrant(m)
    BY <1>1 DEF Receive, ReceiveGroup, ReceiveQuery, ReceiveStatus, ReceiveRemove
  <2>2. SetConsent(Sender[m], "granted")
    BY <2>1 DEF ReceiveGrant
  <2> QED
    BY <1>0, <2>2 DEF GateNext
<1>2. ASSUME NEW m \in Msgs, Proceed(m) PROVE GateNext
  <2>1. AtGate(m) \/ Decline(m)
    BY <1>2 DEF Proceed, Dismiss, LogConsented, RememberUser, EngineRun, Keep, RememberBot,
                CheckConsent, PurgeAfterCheck, Close, Forget, StartErase, Erase, FinishErase
  <2>2. CASE AtGate(m)
    BY <2>2 DEF AtGate, GateNext
  <2>3. CASE Decline(m)
    BY <1>0, <2>3 DEF Decline, GateNext
  <2> QED
    BY <2>1, <2>2, <2>3
<1>3. CASE PassTime
  BY <1>3 DEF PassTime, GateNext
<1>4. CASE Restart
  BY <1>4 DEF Restart, GateNext
<1>5. ~AllDone /\ ~UNCHANGED vars
  BY DEF AllDone, vars
<1> QED
  BY <1>1, <1>2, <1>3, <1>4, <1>5 DEF Next

\* Nor to long-term memory.
LEMMA HandlerMemStep == [Next]_vars => [MemNext]_memVars
<1> SUFFICES ASSUME [Next]_vars, ~ UNCHANGED memVars PROVE MemNext
  BY Zenon
<1>1. ASSUME NEW m \in Msgs, Receive(m) PROVE MemNext
  <2>1. \E k \in GroupKinds : ReceiveGroup(m, k)
    BY <1>1 DEF Receive, ReceiveGrant, ReceiveQuery, ReceiveStatus, ReceiveRemove
  <2> QED
    BY <2>1 DEF ReceiveGroup, MemNext, MemStep
<1>2. ASSUME NEW m \in Msgs, Proceed(m) PROVE MemNext
  <2>1. Keep(m) \/ StartErase(m) \/ Erase(m) \/ FinishErase(m)
    BY <1>2 DEF Proceed, AtGate, Dismiss, LogConsented, RememberUser, EngineRun, RememberBot,
                CheckConsent, PurgeAfterCheck, Close, Decline, Forget
  <2> QED
    BY <2>1 DEF Keep, StartErase, Erase, FinishErase, MemNext, MemStep
<1>3. CASE Restart
  BY <1>3 DEF Restart, MemNext
<1>4. ~PassTime /\ ~AllDone /\ ~UNCHANGED vars
  BY DEF PassTime, AllDone, vars
<1> QED
  BY <1>1, <1>2, <1>3, <1>4 DEF Next

\* Every run of the handler is a run of the gate and a run of long-term memory.
THEOREM HandlerImplements == HandlerRuns => GateSpec /\ MemSpec
<1>1. Init => GateInit /\ MemInit
  BY DEF Init
<1> QED
  BY <1>1, HandlerGateStep, HandlerMemStep, PTL DEF HandlerRuns, GateSpec, MemSpec

\* In the whole handler, messages of every kind and restarts included, no record is
\* granted and nothing is answered or logged for a user who never opted in
\* (NewHandler, dmConsentFlow, Gate.Check).
THEOREM HandlerNeverInfers == HandlerRuns => []ConsentNeverInferred
BY HandlerImplements, ConsentNotInferred, PTL

\* In the whole handler, whatever answers were under way when a user withdrew,
\* nothing kept before the withdrawal is in a namespace its erase deleted from
\* (answerRemembering, turn.keep, dmConsentFlow, Eraser.Erase).
THEOREM HandlerErasesForGood == HandlerRuns => []ErasedMeansGone
BY HandlerImplements, ErasedStaysGone, PTL

-----------------------------------------------------------------------------
(* The conversation buffer *)

\* A set of naturals with 0 and every successor is Nat: the induction the proofs below
\* use, as the set of a least counterexample is empty.
LEMMA UpFromZero ==
    ASSUME NEW T \in SUBSET Nat, 0 \in T, \A n \in T : n + 1 \in T
    PROVE  T = Nat
<1> SUFFICES ASSUME Nat \ T # {} PROVE FALSE
  OBVIOUS
<1>1. PICK n \in Nat \ T : \A k \in Nat \ T : ~(<<k, n>> \in OpToRel(<, Nat))
  <2> HIDE DEF OpToRel
  <2>1. Nat \ T \subseteq Nat
    OBVIOUS
  <2> QED
    BY <2>1, WFMin, NatLessThanWellFounded
<1>2. \A k \in Nat \ T : ~(k < n)
  BY <1>1 DEF OpToRel
<1>3. n # 0
  OBVIOUS
<1>4. n - 1 \in Nat /\ n - 1 < n /\ (n - 1) + 1 = n
  BY <1>3
<1>5. n - 1 \in T
  BY <1>2, <1>4
<1> QED
  BY <1>4, <1>5

\* One round of purgeLocked's loop, f being what it kept before.
KeepOne(u, s, f, i) ==
    IF i = 0 THEN <<>> ELSE IF Stays(u, s[i]) THEN Append(f[i-1], s[i]) ELSE f[i-1]

\* The loop can run for any number of rounds.
LEMMA LoopRuns ==
    ASSUME NEW u, NEW s
    PROVE  \A n \in Nat : \E f : f = [i \in 0..n |-> KeepOne(u, s, f, i)]
<1> DEFINE T == {n \in Nat : \E f : f = [i \in 0..n |-> KeepOne(u, s, f, i)]}
<1>1. 0 \in T
  <2>1. [i \in 0..0 |-> <<>>] = [i \in 0..0 |-> KeepOne(u, s, [k \in 0..0 |-> <<>>], i)]
    BY DEF KeepOne
  <2> QED
    BY <2>1
<1>2. ASSUME NEW n \in T PROVE n + 1 \in T
  <2>1. PICK f : f = [i \in 0..n |-> KeepOne(u, s, f, i)]
    OBVIOUS
  <2> DEFINE g == [i \in 0..n+1 |-> IF i = n + 1 THEN KeepOne(u, s, f, n + 1) ELSE f[i]]
  <2>2. ASSUME NEW i \in 0..n+1 PROVE g[i] = KeepOne(u, s, g, i)
    <3>1. CASE i = n + 1
      BY <3>1 DEF KeepOne
    <3>2. CASE i # n + 1
      <4>1. i \in 0..n /\ (i # 0 => i - 1 \in 0..n /\ i - 1 \in 0..n+1 /\ i - 1 # n + 1)
        BY <3>2
      <4>2. f[i] = KeepOne(u, s, f, i)
        BY <2>1, <4>1
      <4>3. g[i] = f[i] /\ (i # 0 => g[i-1] = f[i-1])
        BY <3>2, <4>1
      <4> QED
        BY <4>2, <4>3 DEF KeepOne
    <3> QED
      BY <3>1, <3>2
  <2>3. g = [i \in 0..n+1 |-> KeepOne(u, s, g, i)]
    BY <2>2
  <2>4. n + 1 \in Nat
    OBVIOUS
  <2> HIDE DEF g
  <2> QED
    BY <2>3, <2>4
<1> HIDE DEF T
<1>3. T = Nat
  BY <1>1, <1>2, UpFromZero DEF T
<1> QED
  BY <1>3 DEF T

\* So its rounds are those of KeptTurns.
LEMMA KeptTurnsRounds ==
    ASSUME NEW u, NEW s, Len(s) \in Nat
    PROVE  \A i \in 0..Len(s) : KeptTurns(u, s)[i] = KeepOne(u, s, KeptTurns(u, s), i)
<1>1. KeptTurns(u, s) = [i \in 0..Len(s) |-> KeepOne(u, s, KeptTurns(u, s), i)]
  <2>1. \E f : f = [i \in 0..Len(s) |->
                      IF i = 0 THEN <<>>
                      ELSE IF Stays(u, s[i]) THEN Append(f[i-1], s[i]) ELSE f[i-1]]
    <3>1. PICK f : f = [i \in 0..Len(s) |-> KeepOne(u, s, f, i)]
      BY LoopRuns
    <3>2. f = [i \in 0..Len(s) |->
                  IF i = 0 THEN <<>>
                  ELSE IF Stays(u, s[i]) THEN Append(f[i-1], s[i]) ELSE f[i-1]]
      BY <3>1 DEF KeepOne
    <3> QED
      BY <3>2
  <2> DEFINE k == KeptTurns(u, s)
  <2>2. k = [i \in 0..Len(s) |->
                IF i = 0 THEN <<>>
                ELSE IF Stays(u, s[i]) THEN Append(k[i-1], s[i]) ELSE k[i-1]]
    BY <2>1 DEF KeptTurns
  <2> HIDE DEF k
  <2>3. k = [i \in 0..Len(s) |-> KeepOne(u, s, k, i)]
    BY <2>2 DEF KeepOne
  <2> QED
    BY <2>3 DEF k
<1> SUFFICES ASSUME NEW f, f = [i \in 0..Len(s) |-> KeepOne(u, s, f, i)]
             PROVE  \A i \in 0..Len(s) : f[i] = KeepOne(u, s, f, i)
  BY <1>1
<1> QED
  OBVIOUS

\* What a purge leaves is no longer than what was there, and made of turns that were
\* there and are not the user's.
LEMMA WithoutKeeps ==
    ASSUME NEW u, NEW s \in Seq(Turn)
    PROVE  /\ Without(u, s) \in Seq(Turn)
           /\ Len(Without(u, s)) <= Len(s)
           /\ \A j \in 1..Len(Without(u, s)) :
                 /\ Stays(u, Without(u, s)[j])
                 /\ \E i \in 1..Len(s) : s[i] = Without(u, s)[j]
<1> DEFINE kept == KeptTurns(u, s)
           Fine(n) == /\ kept[n] \in Seq(Turn)
                      /\ Len(kept[n]) <= n
                      /\ \A j \in 1..Len(kept[n]) :
                            /\ Stays(u, kept[n][j])
                            /\ \E i \in 1..Len(s) : s[i] = kept[n][j]
           T == {n \in Nat : n <= Len(s) => Fine(n)}
<1>1. \A i \in 0..Len(s) : kept[i] = KeepOne(u, s, kept, i)
  BY KeptTurnsRounds
<1> HIDE DEF kept
<1>2. 0 \in T
  <2>1. kept[0] = <<>>
    BY <1>1 DEF KeepOne
  <2>2. Fine(0)
    BY <2>1
  <2> QED
    BY <2>2
<1>3. ASSUME NEW n \in T PROVE n + 1 \in T
  <2> SUFFICES ASSUME n + 1 <= Len(s) PROVE Fine(n + 1)
    OBVIOUS
  <2>1. n \in Nat /\ n <= Len(s) /\ n + 1 \in 1..Len(s) /\ (n + 1) - 1 = n
    OBVIOUS
  <2>2. Fine(n) /\ s[n + 1] \in Turn
    BY <2>1
  <2>3. kept[n + 1] = IF Stays(u, s[n + 1]) THEN Append(kept[n], s[n + 1]) ELSE kept[n]
    BY <1>1, <2>1 DEF KeepOne
  <2>4. CASE Stays(u, s[n + 1])
    <3>1. /\ kept[n + 1] \in Seq(Turn)
          /\ Len(kept[n + 1]) = Len(kept[n]) + 1
          /\ \A j \in 1..Len(kept[n]) + 1 :
                kept[n + 1][j] = IF j <= Len(kept[n]) THEN kept[n][j] ELSE s[n + 1]
      BY <2>2, <2>3, <2>4
    <3>2. ASSUME NEW j \in 1..Len(kept[n + 1])
          PROVE  Stays(u, kept[n + 1][j]) /\ \E i \in 1..Len(s) : s[i] = kept[n + 1][j]
      BY <2>1, <2>2, <2>4, <3>1
    <3> QED
      BY <2>1, <2>2, <3>1, <3>2
  <2>5. CASE ~Stays(u, s[n + 1])
    BY <2>1, <2>2, <2>3, <2>5
  <2> QED
    BY <2>4, <2>5
<1> HIDE DEF T
<1>4. T = Nat
  BY <1>2, <1>3, UpFromZero DEF T
<1>5. Fine(Len(s))
  BY <1>4 DEF T
<1> QED
  BY <1>5 DEF Without, kept

\* A turn of message m is in the buffer.
Buffered(m) == \E c \in Convos : \E i \in 1..Len(convos[c]) : convos[c][i] = UserTurn(m)

\* A purge keeps the buffer's types and leaves no turn of the user.
LEMMA PurgeBuffer ==
    ASSUME BufferTypeOK, NEW u, PurgeUser(u)
    PROVE  /\ BufferTypeOK'
           /\ \A m \in Msgs : Buffered(m)' => Buffered(m) /\ Sender[m] # u
<1>1. ASSUME NEW c \in Convos
      PROVE  /\ convos'[c] \in Seq(Turn)
             /\ Len(convos'[c]) <= Retain
             /\ \A j \in 1..Len(convos'[c]) :
                   /\ Stays(u, convos'[c][j])
                   /\ \E i \in 1..Len(convos[c]) : convos[c][i] = convos'[c][j]
  <2>1. convos[c] \in Seq(Turn) /\ convos'[c] = Without(u, convos[c])
    BY DEF BufferTypeOK, PurgeUser
  <2>2. Len(convos[c]) <= Retain /\ Len(convos[c]) \in Nat /\ Len(convos'[c]) \in Nat
    BY <2>1, WithoutKeeps DEF BufferTypeOK
  <2> QED
    BY <2>1, <2>2, WithoutKeeps, BufferAssumption
<1>2. BufferTypeOK'
  BY <1>1 DEF BufferTypeOK, PurgeUser
<1>3. ASSUME NEW m \in Msgs, Buffered(m)' PROVE Buffered(m) /\ Sender[m] # u
  BY <1>1, <1>3 DEF Buffered, Stays, UserTurn
<1> QED
  BY <1>2, <1>3

\* So does an append, which brings its own turn only.
LEMMA AppendBuffer ==
    ASSUME BufferTypeOK, NEW c, NEW t \in Turn, AppendTurn(c, t)
    PROVE  /\ BufferTypeOK'
           /\ \A m \in Msgs : Buffered(m)' => Buffered(m) \/ t = UserTurn(m)
<1>1. ASSUME NEW s \in Seq(Turn)
      PROVE  LET new == Evicted(Append(s, t))
             IN  /\ Len(s) <= Retain /\ Retain # 0 => new \in Seq(Turn) /\ Len(new) <= Retain
                 /\ \A j \in 1..Len(new) : new[j] = t \/ \E i \in 1..Len(s) : s[i] = new[j]
  <2> DEFINE long == Append(s, t)
  <2>1. /\ long \in Seq(Turn) /\ Len(long) = Len(s) + 1 /\ Len(s) \in Nat
        /\ \A j \in 1..Len(long) : long[j] = IF j <= Len(s) THEN s[j] ELSE t
    OBVIOUS
  <2> HIDE DEF long
  <2>2. CASE Len(long) <= Retain
    BY <2>1, <2>2, BufferAssumption DEF Evicted, long
  <2>3. CASE Len(long) > Retain
    <3> DEFINE from == Len(long) - Retain + 1
               new  == SubSeq(long, from, Len(long))
    <3>1. from \in 1..Len(long) + 1 /\ Len(long) - from + 1 = Retain
      BY <2>1, <2>3, BufferAssumption
    <3>2. /\ new \in Seq(Turn) /\ Len(new) = Retain
          /\ \A j \in 1..Retain : from + j - 1 \in 1..Len(long) /\ new[j] = long[from + j - 1]
      BY <2>1, <3>1, BufferAssumption
    <3>3. Evicted(long) = new
      BY <2>3 DEF Evicted
    <3> HIDE DEF new, from
    <3>4. ASSUME NEW j \in 1..Len(new) PROVE new[j] = t \/ \E i \in 1..Len(s) : s[i] = new[j]
      BY <2>1, <3>2
    <3>5. Len(new) <= Retain
      BY <3>2, BufferAssumption
    <3> QED
      BY <3>2, <3>3, <3>4, <3>5 DEF long
  <2> QED
    BY <2>1, <2>2, <2>3, BufferAssumption
<1>2. CASE Retain = 0 \/ c \notin Convos
  BY <1>2 DEF AppendTurn, BufferTypeOK, Buffered
<1>3. CASE Retain # 0 /\ c \in Convos
  <2>1. convos' = [convos EXCEPT ![c] = Evicted(Append(convos[c], t))]
    BY <1>3 DEF AppendTurn
  <2>2. convos[c] \in Seq(Turn) /\ Len(convos[c]) <= Retain
    BY <1>3 DEF BufferTypeOK
  <2>3. /\ convos'[c] \in Seq(Turn) /\ Len(convos'[c]) <= Retain
        /\ \A j \in 1..Len(convos'[c]) :
              convos'[c][j] = t \/ \E i \in 1..Len(convos[c]) : convos[c][i] = convos'[c][j]
    <3>1. convos'[c] = Evicted(Append(convos[c], t))
      BY <1>3, <2>1 DEF BufferTypeOK
    <3> QED
      BY <1>1, <1>3, <2>2, <3>1
  <2>4. \A b \in Convos \ {c} : convos'[b] = convos[b]
    BY <2>1 DEF BufferTypeOK
  <2>5. BufferTypeOK'
    BY <1>3, <2>1, <2>3, <2>4 DEF BufferTypeOK
  <2>6. ASSUME NEW m \in Msgs, Buffered(m)' PROVE Buffered(m) \/ t = UserTurn(m)
    <3>1. PICK b \in Convos : \E j \in 1..Len(convos'[b]) : convos'[b][j] = UserTurn(m)
      BY <2>6 DEF Buffered
    <3>2. CASE b = c
      BY <1>3, <2>3, <3>1, <3>2 DEF Buffered
    <3>3. CASE b # c
      BY <2>4, <3>1, <3>3 DEF Buffered
    <3> QED
      BY <3>2, <3>3
  <2> QED
    BY <2>5, <2>6
<1> QED
  BY <1>2, <1>3

-----------------------------------------------------------------------------
(* Types *)

LEMMA InitTypes == Init => TypeOK
<1> SUFFICES ASSUME Init PROVE TypeOK
  OBVIOUS
<1>1. GateTypeOK /\ MemTypeOK
  BY GateInitType, MemInitTypeOK DEF Init
<1>2. HandlerTypeOK
  BY DEF Init, HandlerTypeOK, Places, Kinds, Replies
<1>3. BufferTypeOK
  BY BufferAssumption DEF Init, BufferInit, BufferTypeOK
<1> QED
  BY <1>1, <1>2, <1>3 DEF TypeOK

\* The handler of one message moves on; its reply, if it gives one, is a reply.
LEMMA MoveTypes ==
    ASSUME HandlerTypeOK, NEW m \in Msgs, NEW place \in Places, Goto(m, place)
    PROVE  pc' \in [Msgs -> Places]
BY DEF HandlerTypeOK, Goto

LEMMA FinishTypes ==
    ASSUME HandlerTypeOK, NEW m \in Msgs, NEW r \in Replies, Finish(m, r)
    PROVE  pc' \in [Msgs -> Places] /\ reply' \in [Msgs -> Replies]
BY DEF HandlerTypeOK, Finish, Goto, Places

LEMMA BecomeTypes ==
    ASSUME HandlerTypeOK, NEW m \in Msgs, NEW k, Become(m, k)
    PROVE  kind' \in [Msgs -> Kinds] /\ k \in Kinds
<1>1. k \in Kinds
  BY HandlerAssumption DEF Become, Kinds
<1> QED
  BY <1>1 DEF Become, HandlerTypeOK

\* Receiving a message keeps the handler's types.
LEMMA ReceiveTypes ==
    ASSUME HandlerTypeOK, NEW m \in Msgs, Receive(m)
    PROVE  HandlerTypeOK'
<1>0. Sender[m] \in Users
  BY SenderAssumption
<1>1. ASSUME NEW k \in GroupKinds, ReceiveGroup(m, k) PROVE HandlerTypeOK'
  BY <1>1, BecomeTypes, MoveTypes DEF ReceiveGroup, HandlerTypeOK, Places
<1>2. CASE ReceiveQuery(m)
  BY <1>2, BecomeTypes, MoveTypes DEF ReceiveQuery, HandlerTypeOK, Places
<1>3. CASE ReceiveGrant(m)
  BY <1>3, BecomeTypes, FinishTypes DEF ReceiveGrant, HandlerTypeOK, Replies
<1>4. CASE ReceiveStatus(m)
  BY <1>4, BecomeTypes, FinishTypes DEF ReceiveStatus, HandlerTypeOK, Replies
<1>5. CASE ReceiveRemove(m)
  BY <1>5, BecomeTypes, MoveTypes DEF ReceiveRemove, HandlerTypeOK, Places
<1> QED
  BY <1>1, <1>2, <1>3, <1>4, <1>5 DEF Receive

\* A step of a handler keeps them.
LEMMA ProceedTypes ==
    ASSUME GateTypeOK, HandlerTypeOK, NEW m \in Msgs, Proceed(m)
    PROVE  HandlerTypeOK'
<1>0. Sender[m] \in Users
  BY SenderAssumption
<1>1. CASE AtGate(m) \/ Erase(m)
  BY <1>1 DEF AtGate, Erase, handlerVars, HandlerTypeOK
<1>2. CASE Dismiss(m)
  <2>1. call[m].decision \in Replies
    BY <1>2 DEF Dismiss, GateTypeOK, Decisions, Consented, Replies
  <2> QED
    BY <1>2, <2>1, FinishTypes DEF Dismiss, HandlerTypeOK
<1>3. CASE LogConsented(m)
  <2>1. logs' \in [Msgs -> SUBSET {"quarantine", "human", "bot", "system"}]
    BY <1>3 DEF LogConsented, Written, HandlerTypeOK
  <2> QED
    BY <1>3, <2>1, MoveTypes DEF LogConsented, HandlerTypeOK, Places
<1>4. CASE RememberUser(m) \/ RememberBot(m) \/ Keep(m)
  <2>1. AfterAnswer(m, "answered") \in Places
    BY DEF AfterAnswer, Places
  <2> QED
    BY <1>4, <2>1, MoveTypes DEF RememberUser, RememberBot, Keep, HandlerTypeOK, Places
<1>5. ASSUME NEW o \in {"answered", "refused", "error"}, EngineRun(m, o) PROVE HandlerTypeOK'
  <2>1. outcome' \in [Msgs -> {"none", "answered", "refused", "error"}]
    BY <1>5 DEF EngineRun, HandlerTypeOK
  <2>2. AfterAnswer(m, o) \in Places
    BY DEF AfterAnswer, Places
  <2> QED
    BY <1>5, <2>1, <2>2, MoveTypes DEF EngineRun, HandlerTypeOK, Places
<1>6. CASE CheckConsent(m) \/ PurgeAfterCheck(m) \/ Forget(m) \/ StartErase(m)
  BY <1>0, <1>6, MoveTypes
     DEF CheckConsent, PurgeAfterCheck, Forget, StartErase, HandlerTypeOK, Places
<1>7. CASE Close(m)
  <2>1. logs' \in [Msgs -> SUBSET {"quarantine", "human", "bot", "system"}]
    BY <1>7 DEF Close, Written, LastEntry, HandlerTypeOK
  <2> QED
    BY <1>7, <2>1, FinishTypes DEF Close, HandlerTypeOK, Replies
<1>8. CASE Decline(m)
  BY <1>8, MoveTypes, FinishTypes DEF Decline, HandlerTypeOK, Places, Replies
<1>9. CASE FinishErase(m)
  BY <1>9, FinishTypes DEF FinishErase, HandlerTypeOK, Replies
<1> QED
  BY <1>1, <1>2, <1>3, <1>4, <1>5, <1>6, <1>7, <1>8, <1>9 DEF Proceed

LEMMA TurnTypes == \A m \in Msgs : UserTurn(m) \in Turn /\ BotTurn(m) \in Turn
BY DEF UserTurn, BotTurn, Turn

\* What a step may do to the buffer: a turn of a message comes in only as its handler
\* remembers it.
LEMMA BufferMoves ==
    ASSUME BufferTypeOK, NEW m \in Msgs, Receive(m) \/ Proceed(m)
    PROVE  /\ BufferTypeOK'
           /\ \A o \in Msgs : Buffered(o)' => Buffered(o) \/ (o = m /\ RememberUser(m))
<1>1. CASE UNCHANGED convos
  BY <1>1 DEF BufferTypeOK, Buffered
<1>2. CASE RememberUser(m)
  <2>1. AppendTurn(ConvoOf(m), UserTurn(m))
    BY <1>2 DEF RememberUser
  <2>2. \A o \in Msgs : UserTurn(m) = UserTurn(o) => o = m
    BY DEF UserTurn
  <2> QED
    BY <1>2, <2>1, <2>2, AppendBuffer, TurnTypes
<1>3. CASE RememberBot(m)
  <2>1. AppendTurn(ConvoOf(m), BotTurn(m))
    BY <1>3 DEF RememberBot
  <2>2. \A o \in Msgs : BotTurn(m) # UserTurn(o)
    BY DEF UserTurn, BotTurn
  <2> QED
    BY <2>1, <2>2, AppendBuffer, TurnTypes
<1>4. CASE PurgeAfterCheck(m) \/ Forget(m)
  BY <1>4, PurgeBuffer DEF PurgeAfterCheck, Forget
<1>5. ASSUME Receive(m) PROVE UNCHANGED convos
  BY <1>5 DEF Receive, ReceiveGroup, ReceiveQuery, ReceiveGrant, ReceiveStatus, ReceiveRemove
<1>6. ASSUME Proceed(m)
      PROVE  \/ UNCHANGED convos
             \/ RememberUser(m) \/ RememberBot(m) \/ PurgeAfterCheck(m) \/ Forget(m)
  BY <1>6 DEF Proceed, AtGate, Dismiss, LogConsented, EngineRun, Keep, CheckConsent, Close,
              Decline, StartErase, Erase, FinishErase
<1> QED
  BY <1>1, <1>2, <1>3, <1>4, <1>5, <1>6

LEMMA RestartEmpties == Restart => BufferTypeOK' /\ \A m \in Msgs : ~Buffered(m)'
<1> SUFFICES ASSUME Restart PROVE BufferTypeOK' /\ \A m \in Msgs : ~Buffered(m)'
  OBVIOUS
<1>1. convos' = [c \in Convos |-> <<>>]
  BY DEF Restart
<1> QED
  BY <1>1, BufferAssumption DEF BufferTypeOK, Buffered

LEMMA NextTypes == TypeOK /\ [Next]_vars => TypeOK'
<1> SUFFICES ASSUME TypeOK, [Next]_vars PROVE TypeOK'
  OBVIOUS
<1>0. GateTypeOK /\ BufferTypeOK /\ MemTypeOK /\ HandlerTypeOK
  BY DEF TypeOK
<1>1. GateTypeOK' /\ MemTypeOK'
  BY <1>0, HandlerGateStep, HandlerMemStep, GateNextType, MemNextTypeOK
<1> SUFFICES HandlerTypeOK' /\ BufferTypeOK'
  BY <1>1 DEF TypeOK
<1>2. ASSUME NEW m \in Msgs, Receive(m) \/ Proceed(m) PROVE HandlerTypeOK' /\ BufferTypeOK'
  BY <1>0, <1>2, ReceiveTypes, ProceedTypes, BufferMoves
<1>3. CASE Restart
  <2>1. HandlerTypeOK'
    BY <1>0, <1>3 DEF Restart, HandlerTypeOK, Places
  <2> QED
    BY <1>3, <2>1, RestartEmpties
<1>4. CASE PassTime \/ AllDone \/ UNCHANGED vars
  BY <1>0, <1>4 DEF PassTime, AllDone, vars, handlerVars, HandlerTypeOK, BufferTypeOK
<1> QED
  BY <1>2, <1>3, <1>4 DEF Next

\* The handler keeps its types, those of the gate and of long-term memory, and the
\* bound of the buffer, whatever the messages are and in whatever order their steps
\* are taken.
THEOREM HandlerTypeCorrect == HandlerRuns => []TypeOK
BY InitTypes, NextTypes, PTL DEF HandlerRuns

-----------------------------------------------------------------------------
(* What long-term memory holds of a message *)

LEMMA StoreKeeps ==
    ASSUME MemTypeOK, NEW m \in Msgs, NEW part, Store(m, part)
    PROVE  /\ KeptOf(m)' # {}
           /\ \A o \in Msgs \ {m} : KeptOf(o)' = KeptOf(o)
<1> DEFINE ns == NsOf[m]
           item == [msg |-> m, part |-> part, epoch |-> born[m]]
<1>1. ns \in Namespaces
  BY MemAssumption
<1>2. ltm' = [ltm EXCEPT ![ns] = ltm[ns] \cup {item}] /\ DOMAIN ltm = Namespaces
  BY DEF Store, MemTypeOK
<1>3. item \in KeptOf(m)'
  <2>1. item \in ltm'[ns]
    BY <1>1, <1>2
  <2> QED
    BY <1>1, <2>1 DEF KeptOf
<1>4. ASSUME NEW o \in Msgs \ {m} PROVE KeptOf(o)' = KeptOf(o)
  <2>1. \A n \in Namespaces : \A i : i.msg = o => (i \in ltm'[n] <=> i \in ltm[n])
    <3>1. item.msg # o
      OBVIOUS
    <3> QED
      BY <1>2, <3>1
  <2> QED
    BY <2>1 DEF KeptOf
<1> QED
  BY <1>3, <1>4

LEMMA DeleteKeepsNoMore ==
    ASSUME MemTypeOK, NEW m \in Msgs, DeleteNext(m)
    PROVE  \A o \in Msgs : KeptOf(o)' \subseteq KeptOf(o)
<1>1. \A n \in Namespaces : ltm'[n] \subseteq ltm[n]
  BY DEF DeleteNext, MemTypeOK
<1> QED
  BY <1>1 DEF KeptOf

LEMMA KeptStays == UNCHANGED ltm => \A o \in Msgs : KeptOf(o)' = KeptOf(o)
BY DEF KeptOf

LEMMA KeptFewer ==
    ASSUME MemTypeOK, NEW m \in Msgs, Receive(m) \/ Proceed(m)
    PROVE  \A o \in Msgs : KeptOf(o)' \subseteq KeptOf(o) \/ (o = m /\ Keep(m))
<1>1. CASE UNCHANGED ltm
  BY <1>1, KeptStays
<1>2. CASE Keep(m)
  <2>1. UNCHANGED ltm \/ Store(m, "message") \/ Store(m, "answer")
    BY <1>2 DEF Keep, KeepBegin, KeepMessage, KeepAnswer
  <2> QED
    BY <1>2, <2>1, KeptStays, StoreKeeps
<1>3. CASE Erase(m)
  BY <1>3, DeleteKeepsNoMore DEF Erase
<1>4. ASSUME Receive(m) PROVE UNCHANGED ltm
  BY <1>4 DEF Receive, ReceiveGroup, ReadWithdrawals, ReceiveQuery, ReceiveGrant, ReceiveStatus,
     ReceiveRemove, memVars
<1>5. ASSUME Proceed(m) PROVE UNCHANGED ltm \/ Keep(m) \/ Erase(m)
  BY <1>5 DEF Proceed, AtGate, Dismiss, LogConsented, RememberUser, EngineRun, RememberBot,
     CheckConsent, PurgeAfterCheck, Close, Decline, Forget, StartErase, FinishErase, Withdraw,
     Count, EraseReturn, memVars
<1> QED
  BY <1>1, <1>2, <1>3, <1>4, <1>5

-----------------------------------------------------------------------------
(* No trace without consent *)

\* Nothing is left of message m.
Traceless(m) == logs[m] = {} /\ ~Buffered(m) /\ KeptOf(m) = {}

\* Where a message stands that the gate let through, and one that withdraws.
Handling    == {"select", "engine", "keep", "answered", "check", "purge", "close"}
Withdrawing == {"decline", "forget", "withdraw", "erase"}

\* The property alone is not inductive: it rests on where a message stands, and on the
\* decision that let it there.
TraceOK(m) ==
    /\ pc[m] \in {"new", "gate"} => Traceless(m)
    /\ pc[m] # "done" => reply[m] = "none"
    /\ kind[m] \in GroupKinds /\ pc[m] \in Handling =>
          call[m].stage = "done" /\ call[m].decision \in Consented
    /\ pc[m] \in Withdrawing => kind[m] = "remove"
    /\ kind[m] \in GroupKinds /\ ~Traceless(m) =>
          Sender[m] \in optedIn /\ reply[m] \notin {"nudge", "refuse"}

TraceInv == \A m \in Msgs : TraceOK(m)

\* Who has opted in once, has.
LEMMA OptedInGrows == [GateNext]_gateVars => optedIn \subseteq optedIn'
BY DEF GateNext, SetConsent, SetTier, CheckGet, CheckNudge, CheckPut, Return, Tick, GateRestart,
       gateVars

\* What a step of m's handler does not touch of another message.
LEMMA OthersStay ==
    ASSUME TypeOK, NEW m \in Msgs, Receive(m) \/ Proceed(m), NEW o \in Msgs, o # m
    PROVE  /\ pc'[o] = pc[o] /\ kind'[o] = kind[o] /\ reply'[o] = reply[o]
           /\ logs'[o] = logs[o] /\ call'[o] = call[o]
           /\ Traceless(o) => Traceless(o)'
<1>0. GateTypeOK /\ BufferTypeOK /\ MemTypeOK /\ HandlerTypeOK
  BY DEF TypeOK
<1> USE <1>0 DEF HandlerTypeOK
<1>1. ASSUME Receive(m)
      PROVE  /\ pc'[o] = pc[o] /\ kind'[o] = kind[o] /\ reply'[o] = reply[o]
             /\ UNCHANGED <<logs, call>>
  BY <1>1 DEF Receive, ReceiveGroup, ReceiveQuery, ReceiveGrant, ReceiveStatus, ReceiveRemove,
     Become, Finish, Goto, SetConsent, gateVars
<1>2. ASSUME Proceed(m)
      PROVE  pc'[o] = pc[o] /\ UNCHANGED kind /\ reply'[o] = reply[o] /\ logs'[o] = logs[o]
  BY <1>2 DEF Proceed, AtGate, Dismiss, LogConsented, RememberUser, EngineRun, Keep, RememberBot,
     CheckConsent, PurgeAfterCheck, Close, Decline, Forget, StartErase, Erase, FinishErase,
     Finish, Goto, handlerVars
<1>3. ASSUME Proceed(m) PROVE call'[o] = call[o]
  <2>1. UNCHANGED call \/ AtGate(m)
    BY <1>3 DEF Proceed, Dismiss, LogConsented, RememberUser, EngineRun, Keep, RememberBot,
       CheckConsent, PurgeAfterCheck, Close, Decline, SetConsent, Forget, StartErase, Erase,
       FinishErase, gateVars
  <2>2. CASE AtGate(m)
    BY <2>2 DEF AtGate, CheckGet, CheckNudge, CheckPut, Decide, GateTypeOK
  <2> QED
    BY <2>1, <2>2
<1>4. (Buffered(o)' => Buffered(o)) /\ KeptOf(o)' \subseteq KeptOf(o)
  BY BufferMoves, KeptFewer
<1> QED
  BY <1>1, <1>2, <1>3, <1>4 DEF Traceless

\* A message that is received: nothing is left of it yet.
LEMMA ReceiveTrace ==
    ASSUME TypeOK, NEW m \in Msgs, TraceOK(m), Receive(m)
    PROVE  TraceOK(m)'
<1>0. BufferTypeOK /\ MemTypeOK /\ HandlerTypeOK
  BY DEF TypeOK
<1>1. /\ pc[m] = "new" /\ pc'[m] \in {"gate", "select", "decline", "done"}
      /\ pc'[m] = "select" => kind'[m] = "query"
      /\ pc'[m] = "decline" => kind'[m] = "remove"
      /\ pc'[m] # "done" => UNCHANGED reply
      /\ UNCHANGED logs
  BY <1>0 DEF Receive, ReceiveGroup, ReceiveQuery, ReceiveGrant, ReceiveStatus, ReceiveRemove,
     Become, Goto, Finish, HandlerTypeOK
<1>2. Traceless(m)'
  <2>1. ~RememberUser(m) /\ ~Keep(m)
    BY <1>1 DEF RememberUser, Keep
  <2>2. (Buffered(m)' => Buffered(m)) /\ KeptOf(m)' \subseteq KeptOf(m)
    BY <1>0, <2>1, BufferMoves, KeptFewer
  <2>3. Traceless(m) /\ logs' = logs
    BY <1>1 DEF TraceOK
  <2> QED
    BY <2>2, <2>3 DEF Traceless
<1> QED
  BY <1>1, <1>2 DEF TraceOK, Handling, Withdrawing, GroupKinds

\* A step that its handler takes.
LEMMA ProceedTrace ==
    ASSUME TypeOK, GateInv, NEW m \in Msgs, TraceOK(m), Proceed(m)
    PROVE  TraceOK(m)'
<1>0. /\ GateTypeOK /\ BufferTypeOK /\ MemTypeOK /\ HandlerTypeOK
      /\ call[m].decision \in Consented => Sender[m] \in optedIn
  BY DEF TypeOK, GateInv, ConsentNeverInferred, Consented
<1> USE <1>0 DEF HandlerTypeOK, GroupKinds, Withdrawing
<1>1. \/ Traceless(m) => Traceless(m)'
      \/ RememberUser(m) \/ Keep(m) \/ LogConsented(m) \/ Close(m)
  <2>1. \/ UNCHANGED logs
        \/ LogConsented(m) \/ Close(m)
    BY DEF Proceed, AtGate, Dismiss, RememberUser, EngineRun, Keep, RememberBot, CheckConsent,
       PurgeAfterCheck, Decline, Forget, StartErase, Erase, FinishErase, handlerVars
  <2> QED
    BY <2>1, BufferMoves, KeptFewer DEF Traceless
<1>2. CASE AtGate(m)
  <2>1. UNCHANGED <<pc, kind, reply, logs, optedIn>> /\ pc[m] = "gate"
    BY <1>2 DEF AtGate, CheckGet, CheckNudge, CheckPut
  <2>2. ~RememberUser(m) /\ ~Keep(m) /\ ~Close(m)
    BY <2>1 DEF RememberUser, Keep, Close
  <2>3. ~LogConsented(m)
    BY <2>1, <1>0 DEF LogConsented, Goto
  <2>4. Traceless(m) /\ Traceless(m)'
    BY <1>1, <2>1, <2>2, <2>3 DEF TraceOK
  <2> QED
    BY <2>1, <2>4 DEF TraceOK, Handling
<1>3. CASE Dismiss(m)
  <2>1. Traceless(m)' /\ pc'[m] = "done"
    BY <1>1, <1>3 DEF TraceOK, Dismiss, Finish, Goto, RememberUser, Keep, LogConsented, Close
  <2> QED
    BY <2>1 DEF TraceOK, Handling
<1>4. CASE LogConsented(m)
  <2>1. /\ pc'[m] = "select" /\ reply[m] = "none"
        /\ call[m].stage = "done" /\ call[m].decision \in Consented
        /\ UNCHANGED <<kind, reply, gateVars>>
    BY <1>4 DEF TraceOK, LogConsented, Goto
  <2> QED
    BY <2>1 DEF TraceOK, Handling, gateVars
\* Where the decision has let it, the handler goes on under it until it is done.
<1>5. CASE \/ RememberUser(m) \/ Keep(m) \/ RememberBot(m) \/ CheckConsent(m)
           \/ PurgeAfterCheck(m) \/ \E o \in {"answered", "refused", "error"} : EngineRun(m, o)
  <2>1. /\ pc[m] \in Handling /\ pc'[m] \in Handling
        /\ UNCHANGED <<kind, reply, gateVars>>
    BY <1>5 DEF RememberUser, Keep, RememberBot, CheckConsent, PurgeAfterCheck, EngineRun,
       AfterAnswer, Goto, Handling
  <2>2. reply[m] = "none"
    BY <2>1 DEF TraceOK, Handling
  <2> QED
    BY <2>1, <2>2 DEF TraceOK, Handling, gateVars
<1>6. CASE Close(m)
  <2>1. /\ pc[m] = "close" /\ pc'[m] = "done"
        /\ UNCHANGED <<kind, gateVars>>
        /\ reply'[m] \notin {"nudge", "refuse"}
    BY <1>6 DEF Close, Finish, Goto
  <2> QED
    BY <2>1 DEF TraceOK, Handling, gateVars
<1>7. CASE Decline(m) \/ Forget(m) \/ StartErase(m) \/ Erase(m) \/ FinishErase(m)
  <2>1. /\ pc[m] \in Withdrawing /\ pc'[m] \in Withdrawing \cup {"done"}
        /\ pc'[m] = "done" \/ UNCHANGED reply
        /\ UNCHANGED kind
    BY <1>7 DEF Decline, Forget, StartErase, Erase, FinishErase, Finish, Goto, handlerVars
  <2> QED
    BY <2>1 DEF TraceOK, Handling
<1> QED
  BY <1>2, <1>3, <1>4, <1>5, <1>6, <1>7 DEF Proceed

LEMMA NextTrace == TypeOK /\ GateInv /\ TraceInv /\ [Next]_vars => TraceInv'
<1> SUFFICES ASSUME TypeOK, GateInv, TraceInv, [Next]_vars, NEW o \in Msgs
             PROVE  TraceOK(o)'
  BY DEF TraceInv
<1>0. TraceOK(o) /\ optedIn \subseteq optedIn'
  BY HandlerGateStep, OptedInGrows DEF TraceInv
<1>1. ASSUME NEW m \in Msgs, Receive(m) \/ Proceed(m) PROVE TraceOK(o)'
  <2>1. CASE o = m
    BY <1>0, <1>1, <2>1, ReceiveTrace, ProceedTrace
  <2>2. CASE o # m
    BY <1>0, <1>1, <2>2, OthersStay DEF TraceOK
  <2> QED
    BY <2>1, <2>2
<1>2. CASE Restart
  <2>1. /\ pc'[o] \in {"new", "done"} /\ (pc'[o] = "new" => pc[o] = "new")
        /\ UNCHANGED <<kind, reply, logs, ltm>>
    BY <1>2 DEF Restart, MemRestart, TypeOK, HandlerTypeOK
  <2>2. Traceless(o) => Traceless(o)'
    BY <1>2, <2>1, RestartEmpties, KeptStays DEF Traceless
  <2> QED
    BY <1>0, <2>1, <2>2 DEF TraceOK, Handling, Withdrawing
<1>3. CASE PassTime \/ AllDone \/ UNCHANGED vars
  <2>1. UNCHANGED <<pc, kind, reply, logs, call, convos, ltm>>
    BY <1>3 DEF PassTime, Tick, AllDone, vars, handlerVars, gateVars, memVars
  <2>2. Traceless(o) => Traceless(o)'
    BY <2>1, KeptStays DEF Traceless, Buffered
  <2> QED
    BY <1>0, <2>1, <2>2 DEF TraceOK
<1> QED
  BY <1>1, <1>2, <1>3 DEF Next

LEMMA InitTrace == Init => TraceInv
<1> SUFFICES ASSUME Init, NEW m \in Msgs PROVE TraceOK(m)
  BY DEF TraceInv
<1>1. /\ pc[m] = "new" /\ kind[m] = "status" /\ reply[m] = "none" /\ logs[m] = {}
      /\ \A c \in Convos : convos[c] = <<>>
      /\ KeptOf(m) = {}
  BY DEF Init, BufferInit, MemInit, KeptOf
<1> QED
  BY <1>1 DEF TraceOK, Traceless, Buffered, Handling, Withdrawing, GroupKinds

LEMMA TraceInvariance == HandlerRuns => []TraceInv
<1>1. HandlerRuns => []GateInv
  BY HandlerImplements, GateInvariance, PTL
<1> QED
  BY <1>1, HandlerTypeCorrect, InitTrace, NextTrace, PTL DEF HandlerRuns

\* A group message of a user who never opted in, or that the gate nudged or refused,
\* leaves nothing in the logs, the buffer or long-term memory, for any number of users
\* and messages and however their handlers interleave, writes of stale records, failing
\* appends and restarts included (NewHandler, "record nothing without consent").
THEOREM NoConsentNoTrace == HandlerRuns => []NoTraceWithoutConsent
<1>1. TraceInv => NoTraceWithoutConsent
  BY DEF TraceInv, TraceOK, Traceless, Buffered, NoTraceWithoutConsent, Trace, GroupTurns
<1> QED
  BY <1>1, TraceInvariance, PTL

-----------------------------------------------------------------------------
(* The buffer forgets *)

\* The handler of m has a purge of its sender ahead.
Purging(m) == pc[m] = "forget" \/ MayPurge(m)

\* Why a group turn of a user may be in the buffer.
Excused(u) ==
    \/ store[u].consent = "granted"
    \/ u \in unchecked
    \/ \E m \in Msgs : Sender[m] = u /\ Purging(m)

BufferInv == \A m \in Msgs : Buffered(m) /\ kind[m] \in GroupKinds => Excused(Sender[m])

\* A purge ahead stays ahead until it is made, or found to be unnecessary, or given up.
LEMMA PurgeAhead ==
    ASSUME HandlerTypeOK, NEW m \in Msgs, Purging(m), Receive(m) \/ Proceed(m)
    PROVE  Purging(m)' \/ PurgeUser(Sender[m]) \/ Excused(Sender[m])'
<1> USE DEF HandlerTypeOK, MayPurge, GroupKinds
<1>1. pc[m] # "new"
  BY DEF Purging
<1>2. CASE Forget(m) \/ PurgeAfterCheck(m)
  BY <1>2 DEF Forget, PurgeAfterCheck
<1>3. CASE CheckConsent(m)
  BY <1>3, SenderAssumption DEF CheckConsent, Goto, Purging, Excused, gateVars
<1>4. CASE Keep(m) \/ RememberBot(m) \/ \E o \in {"answered", "refused", "error"} : EngineRun(m, o)
  BY <1>4 DEF Keep, RememberBot, EngineRun, AfterAnswer, Goto, Purging
<1>5. ~Receive(m)
  BY <1>1 DEF Receive, ReceiveGroup, ReceiveQuery, ReceiveGrant, ReceiveStatus, ReceiveRemove,
     Become
<1>6. \/ Forget(m) \/ PurgeAfterCheck(m) \/ CheckConsent(m) \/ Keep(m) \/ RememberBot(m)
      \/ \E o \in {"answered", "refused", "error"} : EngineRun(m, o)
  BY <1>5 DEF Proceed, Purging, AtGate, Dismiss, LogConsented, RememberUser, Close, Decline,
     StartErase, Erase, FinishErase
<1> QED
  BY <1>2, <1>3, <1>4, <1>6

\* Consent is withdrawn only by a handler that purges next; the gate writes back no
\* record that is not granted.
LEMMA WithdrawnPurges ==
    ASSUME GateInv, HandlerTypeOK, NEW m \in Msgs, Receive(m) \/ Proceed(m),
           NEW u \in Users, store[u].consent = "granted"
    PROVE  store'[u].consent = "granted" \/ (Sender[m] = u /\ Purging(m)')
<1>0. GateTypeOK /\ CopiesAreGranted /\ Sender[m] \in Users
  BY SenderAssumption DEF GateInv
<1>1. CASE UNCHANGED store
  BY <1>1
<1>2. CASE SetConsent(Sender[m], "granted")
  BY <1>0, <1>2 DEF SetConsent, Rec, GateTypeOK
<1>3. CASE Goto(m, "forget") /\ SetConsent(Sender[m], "declined")
  <2>1. pc'[m] = "forget"
    BY <1>3 DEF Goto, HandlerTypeOK
  <2> QED
    BY <1>0, <1>3, <2>1 DEF SetConsent, Rec, GateTypeOK, Purging
<1>4. CASE CheckPut(m)
  <2>1. Windowed(call[m].rec).consent = "granted"
    BY <1>0, <1>4, WindowedKeeps DEF CheckPut, CopiesAreGranted, GateTypeOK
  <2> DEFINE back == Windowed(call[m].rec)
  <2>2. store' = store \/ store' = [store EXCEPT ![Sender[m]] =
                                      Rec(back.tier, back.consent, back.count + 1, back.start)]
    BY <1>4, Zenon DEF CheckPut
  <2>3. back.consent = "granted"
    BY <2>1
  <2> HIDE DEF back
  <2>4. store \in [Users -> Record]
    BY <1>0 DEF GateTypeOK
  <2>5. Rec(back.tier, back.consent, back.count + 1, back.start).consent = "granted"
    BY <2>3 DEF Rec
  <2> HIDE DEF Rec
  <2>6. store'[u] = store[u] \/ store'[u].consent = "granted"
    BY <1>0, <2>2, <2>4, <2>5
  <2> QED
    BY <2>6
<1>5. \/ UNCHANGED store
      \/ SetConsent(Sender[m], "granted")
      \/ Goto(m, "forget") /\ SetConsent(Sender[m], "declined")
      \/ CheckPut(m)
  <2>1. CASE Receive(m)
    BY <2>1 DEF Receive, ReceiveGroup, ReceiveQuery, ReceiveGrant, ReceiveStatus, ReceiveRemove,
       gateVars
  <2>2. CASE Proceed(m)
    BY <2>2 DEF Proceed, AtGate, CheckGet, CheckNudge, Dismiss, LogConsented, RememberUser,
       EngineRun, Keep, RememberBot, CheckConsent, PurgeAfterCheck, Close, Decline, Forget,
       StartErase, Erase, FinishErase, gateVars
  <2> QED
    BY <2>1, <2>2
<1> QED
  BY <1>1, <1>2, <1>3, <1>4, <1>5

\* A failed check is made good only by a purge.
LEMMA UncheckedStays ==
    ASSUME HandlerTypeOK, NEW m \in Msgs, Receive(m) \/ Proceed(m), NEW u \in unchecked
    PROVE  u \in unchecked' \/ (u = Sender[m] /\ PurgeUser(u))
<1>1. CASE Receive(m)
  BY <1>1 DEF Receive, ReceiveGroup, ReceiveQuery, ReceiveGrant, ReceiveStatus, ReceiveRemove
<1>2. CASE Forget(m) \/ PurgeAfterCheck(m)
  BY <1>2 DEF Forget, PurgeAfterCheck
<1>3. CASE Proceed(m) /\ ~Forget(m) /\ ~PurgeAfterCheck(m)
  BY <1>3 DEF Proceed, AtGate, Dismiss, LogConsented, RememberUser, EngineRun, Keep, RememberBot,
     CheckConsent, Close, Decline, StartErase, Erase, FinishErase, handlerVars
<1> QED
  BY <1>1, <1>2, <1>3

\* So an excuse lasts, or the user's turns go.
LEMMA ExcuseLasts ==
    ASSUME TypeOK, GateInv, NEW m \in Msgs, Receive(m) \/ Proceed(m),
           NEW u \in Users, Excused(u)
    PROVE  Excused(u)' \/ PurgeUser(u)
<1>0. HandlerTypeOK
  BY DEF TypeOK
<1>1. CASE store[u].consent = "granted"
  BY <1>0, <1>1, WithdrawnPurges DEF Excused
<1>2. CASE u \in unchecked
  BY <1>0, <1>2, UncheckedStays DEF Excused
<1>3. ASSUME NEW p \in Msgs, Sender[p] = u, Purging(p) PROVE Excused(u)' \/ PurgeUser(u)
  <2>1. CASE p = m
    BY <1>0, <1>3, <2>1, PurgeAhead DEF Excused
  <2>2. CASE p # m
    BY <1>3, <2>2, OthersStay DEF Excused, Purging, MayPurge
  <2> QED
    BY <2>1, <2>2
<1> QED
  BY <1>1, <1>2, <1>3 DEF Excused

LEMMA NextBuffer == TypeOK /\ GateInv /\ TraceInv /\ BufferInv /\ [Next]_vars => BufferInv'
<1> SUFFICES ASSUME TypeOK, GateInv, TraceInv, BufferInv, [Next]_vars,
                    NEW o \in Msgs, Buffered(o)', kind'[o] \in GroupKinds
             PROVE  Excused(Sender[o])'
  BY DEF BufferInv
<1>0. /\ BufferTypeOK /\ HandlerTypeOK /\ Sender[o] \in Users
      /\ Buffered(o) /\ kind[o] \in GroupKinds => Excused(Sender[o])
  BY SenderAssumption DEF TypeOK, BufferInv
<1>1. ASSUME NEW m \in Msgs, Receive(m) \/ Proceed(m) PROVE Excused(Sender[o])'
  <2>1. CASE o = m /\ RememberUser(m)
    BY <1>0, <2>1 DEF RememberUser, Goto, Excused, Purging, MayPurge, HandlerTypeOK, GroupKinds
  <2>2. CASE ~(o = m /\ RememberUser(m))
    <3>1. Buffered(o)
      BY <1>0, <1>1, <2>2, BufferMoves
    <3>2. kind[o] \in GroupKinds
      <4>1. CASE o # m
        BY <1>1, <4>1, OthersStay
      <4>2. CASE o = m
        <5>1. pc[m] # "new"
          BY <3>1, <4>2 DEF TraceInv, TraceOK, Traceless
        <5>2. Proceed(m)
          BY <1>1, <5>1 DEF Receive, ReceiveGroup, ReceiveQuery, ReceiveGrant, ReceiveStatus,
             ReceiveRemove, Become
        <5>3. UNCHANGED kind
          BY <5>2 DEF Proceed, AtGate, Dismiss, LogConsented, RememberUser, EngineRun, Keep,
             RememberBot, CheckConsent, PurgeAfterCheck, Close, Decline, Forget, StartErase,
             Erase, FinishErase, handlerVars
        <5> QED
          BY <4>2, <5>3
      <4> QED
        BY <4>1, <4>2
    <3>3. Excused(Sender[o])
      BY <1>0, <3>1, <3>2
    <3>4. ~PurgeUser(Sender[o])
      BY <1>0, PurgeBuffer
    <3> QED
      BY <1>0, <1>1, <3>3, <3>4, ExcuseLasts
  <2> QED
    BY <2>1, <2>2
<1>2. ~Restart
  BY RestartEmpties
<1>3. CASE PassTime \/ AllDone \/ UNCHANGED vars
  <2>1. UNCHANGED <<pc, kind, store, unchecked, convos>>
    BY <1>3 DEF PassTime, Tick, AllDone, vars, handlerVars, gateVars
  <2> QED
    BY <1>0, <2>1 DEF Buffered, Excused, Purging, MayPurge
<1> QED
  BY <1>1, <1>2, <1>3 DEF Next

LEMMA InitBuffer == Init => BufferInv
BY DEF Init, BufferInit, BufferInv, Buffered

\* The buffer holds no group turn of a user who is not opted in once no handler of theirs
\* has its purge ahead, unless the consent could not be read: for any number of users,
\* messages and conversations, whatever turns a withdrawal races (rememberUser,
\* purgeIfWithdrawn, dmConsentFlow, Buffer.PurgeUser).
THEOREM WithdrawnLeavesBuffer == HandlerRuns => []BufferForgets
<1>1. HandlerRuns => []GateInv
  BY HandlerImplements, GateInvariance, PTL
<1>2. BufferInv => BufferForgets
  BY DEF BufferInv, Buffered, Excused, Purging, BufferForgets, GroupTurns
<1> QED
  BY <1>1, <1>2, HandlerTypeCorrect, TraceInvariance, InitBuffer, NextBuffer, PTL DEF HandlerRuns

-----------------------------------------------------------------------------
(* What the reply to a withdrawal says *)

\* The turn of m may yet be kept in long-term memory.
MayKeep(m) ==
    \/ /\ pc[m] = "gate"
       /\ \/ call[m].stage = "rate"
          \/ call[m].stage = "done" /\ call[m].decision \in Consented
    \/ pc[m] \in Handling /\ kind[m] # "query"

\* How far the erase of a withdrawal has come, and what its reply says of it.
PlaceOK(m) ==
    /\ pc[m] = "new" => call[m].stage = "idle"
    /\ pc[m] = "keep" => kind[m] # "query"
    /\ pc[m] \notin {"erase", "done"} => erase[m] = "none"
    /\ reply[m] = "erased" => erase[m] = "done" /\ failed[m] = {} /\ next[m] > Len(NsOrder)

\* Everything of its sender is older than the erase of withdrawal d.
OlderThan(d) ==
    /\ \A m \in Msgs : Sender[m] = Sender[d] /\ MayKeep(m) => born[m] < since[d]
    /\ \A i \in Held : Sender[i.msg] = Sender[d] => i.epoch < since[d]

\* A withdrawal that stands: its user is declined, so the gate lets no new message of
\* theirs through, and what was let through before is older than the erase.
StandOK(d) ==
    d \in standing =>
        /\ store[Sender[d]].consent = "declined"
        /\ erase[d] # "none" => OlderThan(d)

PlaceInv == \A m \in Msgs : PlaceOK(m)
StandInv == \A d \in Msgs : StandOK(d)

\* What a step of m's handler does to the erases: its own only, and only while it is
\* there.
LEMMA EraseMoves ==
    ASSUME TypeOK, NEW m \in Msgs, Receive(m) \/ Proceed(m)
    PROVE  /\ \A o \in Msgs \ {m} : /\ erase'[o] = erase[o] /\ failed'[o] = failed[o]
                                    /\ next'[o] = next[o] /\ since'[o] = since[o]
           /\ ~StartErase(m) => UNCHANGED since
           /\ ~StartErase(m) /\ ~Erase(m) /\ ~FinishErase(m) => UNCHANGED eraseVars
<1>0. MemTypeOK
  BY DEF TypeOK
<1>1. CASE StartErase(m)
  BY <1>0, <1>1 DEF StartErase, Erase, Withdraw, Count, MemTypeOK
<1>2. CASE Erase(m)
  BY <1>0, <1>2 DEF StartErase, Erase, DeleteNext, MemTypeOK
<1>3. CASE FinishErase(m)
  BY <1>0, <1>3 DEF FinishErase, StartErase, EraseReturn, MemTypeOK
<1>4. CASE Receive(m)
  BY <1>4 DEF Receive, ReceiveGroup, ReadWithdrawals, ReceiveQuery, ReceiveGrant, ReceiveStatus,
     ReceiveRemove, memVars, eraseVars
<1>5. CASE Proceed(m) /\ ~StartErase(m) /\ ~Erase(m) /\ ~FinishErase(m)
  BY <1>5 DEF Proceed, AtGate, Dismiss, LogConsented, RememberUser, EngineRun, Keep, KeepBegin,
     KeepMessage, KeepAnswer, RememberBot, CheckConsent, PurgeAfterCheck, Close, Decline, Forget,
     memVars, eraseVars
<1> QED
  BY <1>1, <1>2, <1>3, <1>4, <1>5

\* The gate lets no message of a declined user through: whoever may still be kept was on
\* the way before.
LEMMA NoNewKeepers ==
    ASSUME TypeOK, PlaceInv, NEW m \in Msgs, Receive(m) \/ Proceed(m),
           store[Sender[m]].consent = "declined", MayKeep(m)'
    PROVE  MayKeep(m) /\ UNCHANGED born
<1>0. GateTypeOK /\ HandlerTypeOK /\ PlaceOK(m)
  BY DEF TypeOK, PlaceInv
<1> USE <1>0 DEF HandlerTypeOK
<1>1. ~Receive(m)
  <2>1. ASSUME NEW k \in GroupKinds, ReceiveGroup(m, k) PROVE ~MayKeep(m)'
    BY <1>0, <2>1 DEF ReceiveGroup, Become, Goto, gateVars, PlaceOK, MayKeep, Handling, Consented
  <2>2. ReceiveQuery(m) \/ ReceiveGrant(m) \/ ReceiveStatus(m) \/ ReceiveRemove(m) => ~MayKeep(m)'
    BY <1>0 DEF ReceiveQuery, ReceiveGrant, ReceiveStatus, ReceiveRemove, Become, Finish, Goto,
       MayKeep, Handling
  <2> QED
    BY <2>1, <2>2 DEF Receive
<1>2. CASE AtGate(m)
  <2>1. ASSUME NEW directed, CheckGet(m, directed)
        PROVE  call'[m].stage = "done" /\ call'[m].decision \notin Consented
    BY <1>0, <2>1 DEF CheckGet, AfterGet, Unsettled, Settled, Decide, GateTypeOK, Consented
  <2>2. ASSUME CheckNudge(m) PROVE call'[m].stage = "done" /\ call'[m].decision \notin Consented
    BY <1>0, <2>2 DEF CheckNudge, Decide, GateTypeOK, Consented
  <2>3. pc[m] = "gate" /\ UNCHANGED <<pc, kind, born>>
    BY <1>2 DEF AtGate, memVars, turnVars
  <2>4. CheckPut(m)
    BY <1>2, <2>1, <2>2, <2>3 DEF AtGate, MayKeep, Handling
  <2> QED
    BY <2>3, <2>4 DEF CheckPut, MayKeep
<1>3. CASE LogConsented(m)
  BY <1>3 DEF LogConsented, MayKeep, memVars, turnVars
<1>4. CASE \/ RememberUser(m) \/ Keep(m) \/ RememberBot(m) \/ CheckConsent(m)
           \/ PurgeAfterCheck(m) \/ \E o \in {"answered", "refused", "error"} : EngineRun(m, o)
  <2>1. pc[m] \in Handling /\ UNCHANGED kind
    BY <1>4 DEF RememberUser, Keep, RememberBot, CheckConsent, PurgeAfterCheck, EngineRun, Handling
  <2>2. UNCHANGED memVars \/ Keep(m)
    BY <1>4 DEF RememberUser, RememberBot, CheckConsent, PurgeAfterCheck, EngineRun
  <2>3. UNCHANGED born
    BY <2>2 DEF Keep, KeepBegin, KeepMessage, KeepAnswer, MoveTurn, memVars, turnVars
  <2>4. pc'[m] # "gate"
    BY <1>4 DEF RememberUser, Keep, RememberBot, CheckConsent, PurgeAfterCheck, EngineRun,
       AfterAnswer, Goto
  <2> QED
    BY <2>1, <2>3, <2>4 DEF MayKeep, Handling
<1>5. CASE \/ Dismiss(m) \/ Close(m) \/ Decline(m) \/ Forget(m) \/ StartErase(m) \/ Erase(m)
           \/ FinishErase(m)
  <2>1. pc'[m] \in Withdrawing \cup {"done"}
    BY <1>5 DEF Dismiss, Close, Decline, Forget, StartErase, Erase, FinishErase, Finish, Goto,
       handlerVars, Withdrawing
  <2> QED
    BY <2>1 DEF MayKeep, Handling, Withdrawing
<1> QED
  BY <1>1, <1>2, <1>3, <1>4, <1>5 DEF Proceed

LEMMA ReceivePlace ==
    ASSUME TypeOK, NEW m \in Msgs, PlaceOK(m), TraceOK(m), Receive(m)
    PROVE  PlaceOK(m)'
<1>0. HandlerTypeOK
  BY DEF TypeOK
<1>1. /\ pc[m] = "new" /\ pc'[m] \notin {"new", "keep"}
      /\ reply'[m] # "erased"
  BY <1>0 DEF Receive, ReceiveGroup, ReceiveQuery, ReceiveGrant, ReceiveStatus, ReceiveRemove,
     Become, Finish, Goto, HandlerTypeOK, TraceOK
<1>2. UNCHANGED eraseVars
  BY <1>1, EraseMoves DEF StartErase, Erase, FinishErase
<1> QED
  BY <1>1, <1>2 DEF PlaceOK, eraseVars

LEMMA ProceedPlace ==
    ASSUME TypeOK, NEW m \in Msgs, PlaceOK(m), TraceOK(m), Proceed(m)
    PROVE  PlaceOK(m)'
<1>0. MemTypeOK /\ HandlerTypeOK
  BY DEF TypeOK
<1> USE <1>0 DEF HandlerTypeOK
<1>1. CASE StartErase(m) \/ Erase(m) \/ FinishErase(m)
  <2>1. pc[m] \in {"withdraw", "erase"} /\ reply[m] = "none"
    BY <1>1 DEF StartErase, Erase, FinishErase, TraceOK
  <2>2. CASE StartErase(m)
    BY <2>1, <2>2 DEF StartErase, Goto, PlaceOK
  <2>3. CASE Erase(m)
    BY <2>1, <2>3 DEF Erase, handlerVars, PlaceOK
  <2>4. CASE FinishErase(m)
    BY <2>1, <2>4 DEF FinishErase, EraseReturn, Erased, Finish, Goto, PlaceOK, MemTypeOK
  <2> QED
    BY <1>1, <2>2, <2>3, <2>4
<1>2. CASE ~StartErase(m) /\ ~Erase(m) /\ ~FinishErase(m)
  <2>1. UNCHANGED eraseVars
    BY <1>2, EraseMoves
  <2>2. /\ pc[m] # "new" /\ pc[m] # "erase" /\ pc'[m] # "new"
        /\ pc[m] # "done"
    BY <1>2 DEF Proceed, AtGate, Dismiss, LogConsented, RememberUser, EngineRun, Keep, RememberBot,
       CheckConsent, PurgeAfterCheck, Close, Decline, Forget, AfterAnswer, Finish, Goto
  <2>3. pc'[m] = "keep" => kind'[m] # "query"
    BY <1>2 DEF Proceed, AtGate, Dismiss, LogConsented, RememberUser, EngineRun, Keep, RememberBot,
       CheckConsent, PurgeAfterCheck, Close, Decline, Forget, AfterAnswer, Finish, Goto, PlaceOK
  <2>4. reply'[m] # "erased"
    <3>1. reply[m] = "none"
      BY <2>2 DEF TraceOK
    <3>2. CASE Dismiss(m)
      <4>1. call[m].decision # "erased"
        BY DEF TypeOK, GateTypeOK, Decisions
      <4> QED
        BY <3>2, <4>1 DEF Dismiss, Finish
    <3>3. CASE ~Dismiss(m)
      BY <1>2, <3>1, <3>3 DEF Proceed, AtGate, LogConsented, RememberUser, EngineRun, Keep,
         RememberBot, CheckConsent, PurgeAfterCheck, Close, Decline, Forget, Finish
    <3> QED
      BY <3>2, <3>3
  <2> QED
    BY <2>1, <2>2, <2>3, <2>4 DEF PlaceOK, eraseVars
<1> QED
  BY <1>1, <1>2

LEMMA NextPlace == TypeOK /\ TraceInv /\ PlaceInv /\ [Next]_vars => PlaceInv'
<1> SUFFICES ASSUME TypeOK, TraceInv, PlaceInv, [Next]_vars, NEW o \in Msgs
             PROVE  PlaceOK(o)'
  BY DEF PlaceInv
<1>0. PlaceOK(o) /\ TraceOK(o)
  BY DEF PlaceInv, TraceInv
<1>1. ASSUME NEW m \in Msgs, Receive(m) \/ Proceed(m) PROVE PlaceOK(o)'
  <2>1. CASE o = m
    BY <1>0, <1>1, <2>1, ReceivePlace, ProceedPlace
  <2>2. CASE o # m
    BY <1>0, <1>1, <2>2, OthersStay, EraseMoves DEF PlaceOK
  <2> QED
    BY <2>1, <2>2
<1>2. CASE Restart
  <2>1. /\ pc'[o] \in {"new", "done"} /\ (pc'[o] = "new" => pc[o] = "new")
        /\ call'[o].stage = "idle"
        /\ erase'[o] = IF erase[o] = "deleting" THEN "lost" ELSE erase[o]
        /\ UNCHANGED <<kind, reply, failed, next>>
    BY <1>2 DEF Restart, GateRestart, MemRestart, NoCall, TypeOK, HandlerTypeOK
  <2> QED
    BY <1>0, <2>1 DEF PlaceOK
<1>3. CASE PassTime \/ AllDone \/ UNCHANGED vars
  <2>1. UNCHANGED <<pc, kind, reply, call, erase, failed, next>>
    BY <1>3 DEF PassTime, Tick, AllDone, vars, handlerVars, gateVars, memVars, eraseVars
  <2> QED
    BY <1>0, <2>1 DEF PlaceOK
<1> QED
  BY <1>1, <1>2, <1>3 DEF Next

\* A withdrawal stands only while its user is declined.
LEMMA StandingDeclined ==
    ASSUME TypeOK, GateInv, StandInv, NEW m \in Msgs, Receive(m) \/ Proceed(m),
           NEW d \in standing'
    PROVE  /\ store'[Sender[d]].consent = "declined"
           /\ d \in standing \/ (d = m /\ Decline(m) /\ Goto(m, "forget"))
<1>0. /\ GateTypeOK /\ HandlerTypeOK /\ CopiesAreGranted
      /\ Sender \in [Msgs -> Users]
  BY SenderAssumption DEF TypeOK, GateInv
<1>1. CASE UNCHANGED store /\ standing' \subseteq standing
  BY <1>0, <1>1 DEF StandInv, StandOK, HandlerTypeOK
<1>2. CASE /\ SetConsent(Sender[m], "granted")
           /\ standing' = {x \in standing : Sender[x] # Sender[m]}
  <2>1. \A u \in Users : u # Sender[m] => store'[u] = store[u]
    BY <1>0, <1>2 DEF SetConsent, GateTypeOK
  <2> QED
    BY <1>0, <1>2, <2>1 DEF StandInv, StandOK, HandlerTypeOK
<1>3. CASE /\ Decline(m) /\ Goto(m, "forget") /\ SetConsent(Sender[m], "declined")
           /\ standing' = standing \cup {m}
  <2>1. /\ store'[Sender[m]].consent = "declined"
        /\ \A u \in Users : u # Sender[m] => store'[u] = store[u]
    BY <1>0, <1>3 DEF SetConsent, Rec, GateTypeOK
  <2> QED
    BY <1>0, <1>3, <2>1 DEF StandInv, StandOK, HandlerTypeOK
\* The stale write says granted: where it changes a record, no withdrawal stands.
<1>4. CASE AtGate(m) /\ CheckPut(m)
  <2>1. /\ d \in standing /\ Sender[d] \notin clobbered'
        /\ store[Sender[d]].consent = "declined"
    BY <1>0, <1>4 DEF AtGate, StandInv, StandOK, HandlerTypeOK
  <2>2. Windowed(call[m].rec).consent = "granted"
    BY <1>0, <1>4, WindowedKeeps DEF CheckPut, CopiesAreGranted, GateTypeOK
  <2>3. CASE UNCHANGED store
    BY <2>1, <2>3
  <2>4. CASE store' # store
    <3>1. /\ \A u \in Users : u # Sender[m] => store'[u] = store[u]
          /\ "granted" # store[Sender[m]].consent => Sender[m] \in clobbered'
      BY <1>0, <1>4, <2>2, <2>4 DEF CheckPut, GateTypeOK
    <3>2. Sender[d] # Sender[m] /\ Sender[d] \in Users
      BY <1>0, <2>1, <3>1 DEF HandlerTypeOK
    <3> QED
      BY <2>1, <3>1, <3>2
  <2> QED
    BY <2>3, <2>4
<1>5. \/ UNCHANGED store /\ standing' \subseteq standing
      \/ /\ SetConsent(Sender[m], "granted")
         /\ standing' = {x \in standing : Sender[x] # Sender[m]}
      \/ /\ Decline(m) /\ Goto(m, "forget") /\ SetConsent(Sender[m], "declined")
         /\ standing' = standing \cup {m}
      \/ AtGate(m) /\ CheckPut(m)
  <2>1. CASE Receive(m)
    BY <2>1 DEF Receive, ReceiveGroup, ReceiveQuery, ReceiveGrant, ReceiveStatus, ReceiveRemove,
       gateVars
  <2>2. CASE AtGate(m)
    BY <2>2 DEF AtGate, CheckGet, CheckNudge
  <2>3. CASE Decline(m)
    BY <2>3 DEF Decline, gateVars
  <2>4. CASE Proceed(m) /\ ~AtGate(m) /\ ~Decline(m)
    BY <2>4 DEF Proceed, Dismiss, LogConsented, RememberUser, EngineRun, Keep, RememberBot,
       CheckConsent, PurgeAfterCheck, Close, Forget, StartErase, Erase, FinishErase, handlerVars,
       gateVars
  <2> QED
    BY <2>1, <2>2, <2>3, <2>4
<1> QED
  BY <1>1, <1>2, <1>3, <1>4, <1>5

LEMMA DeleteHoldsLess ==
    ASSUME MemTypeOK, NEW m \in Msgs, DeleteNext(m)
    PROVE  Held' \subseteq Held
<1>1. \A n \in Namespaces : ltm'[n] \subseteq ltm[n]
  BY DEF DeleteNext, MemTypeOK
<1> QED
  BY <1>1 DEF Held

LEMMA BornStays ==
    ASSUME MemTypeOK, NEW m \in Msgs, Receive(m) \/ Proceed(m), NEW o \in Msgs, o # m
    PROVE  born'[o] = born[o]
<1>1. CASE Receive(m)
  BY <1>1 DEF Receive, ReceiveGroup, ReadWithdrawals, ReceiveQuery, ReceiveGrant, ReceiveStatus,
     ReceiveRemove, memVars, turnVars, MemTypeOK
<1>2. CASE Proceed(m)
  BY <1>2 DEF Proceed, AtGate, Dismiss, LogConsented, RememberUser, EngineRun, Keep, KeepBegin,
     KeepMessage, KeepAnswer, MoveTurn, RememberBot, CheckConsent, PurgeAfterCheck, Close, Decline,
     Forget, StartErase, Withdraw, Count, Erase, DeleteNext, FinishErase, EraseReturn, memVars,
     turnVars
<1> QED
  BY <1>1, <1>2

\* What long-term memory gains, it gains of a turn that may be kept.
LEMMA HeldMoves ==
    ASSUME TypeOK, PlaceInv, NEW m \in Msgs, Receive(m) \/ Proceed(m), NEW i \in Held',
           i \notin Held
    PROVE  MayKeep(m) /\ i.msg = m /\ i.epoch = born[m]
<1>0. MemTypeOK /\ PlaceOK(m)
  BY DEF TypeOK, PlaceInv
<1>1. ltm' # ltm
  BY DEF Held
<1>2. ~Receive(m)
  BY <1>1 DEF Receive, ReceiveGroup, ReadWithdrawals, ReceiveQuery, ReceiveGrant, ReceiveStatus,
     ReceiveRemove, memVars
<1>3. Keep(m) \/ Erase(m)
  BY <1>1, <1>2 DEF Proceed, AtGate, Dismiss, LogConsented, RememberUser, EngineRun, RememberBot,
     CheckConsent, PurgeAfterCheck, Close, Decline, Forget, StartErase, Withdraw, Count,
     FinishErase, EraseReturn, memVars
<1>4. MemStep(m)
  BY <1>3 DEF Keep, Erase, MemStep
<1>5. Keeping(m) /\ i.msg = m /\ i.epoch = born[m]
  BY <1>0, <1>4, HeldGrows
<1>6. Keep(m)
  <2>1. ~Erase(m)
    BY <1>0, <1>5, DeleteHoldsLess DEF Erase
  <2> QED
    BY <1>3, <2>1
<1> QED
  BY <1>0, <1>5, <1>6 DEF Keep, PlaceOK, MayKeep, Handling

LEMMA StandStep ==
    ASSUME TypeOK, GateInv, PlaceInv, Timely, StandInv, NEW m \in Msgs, Receive(m) \/ Proceed(m),
           NEW d \in Msgs
    PROVE  StandOK(d)'
<1> SUFFICES ASSUME d \in standing' PROVE StandOK(d)'
  BY DEF StandOK
<1>0. /\ MemTypeOK /\ HandlerTypeOK /\ Sender \in [Msgs -> Users] /\ PlaceOK(d)
  BY SenderAssumption DEF TypeOK, PlaceInv
<1>1. /\ store'[Sender[d]].consent = "declined"
      /\ d \in standing \/ (d = m /\ Decline(m) /\ Goto(m, "forget"))
  BY StandingDeclined
<1> SUFFICES ASSUME erase'[d] # "none" PROVE OlderThan(d)'
  BY <1>1 DEF StandOK
\* The withdrawal is counted: everything there is of its user is older than the count.
<1>2. CASE d = m /\ StartErase(m)
  <2>1. /\ since'[d] = epoch[Sender[d]] + 1
        /\ UNCHANGED <<ltm, born>>
    BY <1>0, <1>2 DEF StartErase, Withdraw, Count, MemTypeOK, turnVars
  <2>2. \A o \in Msgs : born[o] <= epoch[Sender[o]] /\ born[o] \in Nat /\ epoch[Sender[o]] \in Nat
    BY <1>0 DEF Timely, MemTypeOK
  <2>3. \A o \in Msgs : Sender[o] = Sender[d] => born'[o] < since'[d]
    BY <2>1, <2>2
  <2>4. \A i \in Held' : Sender[i.msg] = Sender[d] => i.epoch < since'[d]
    <3>1. \A i \in Held : /\ i.msg \in Msgs /\ i.epoch \in Nat /\ i.epoch <= epoch[Sender[i.msg]]
                          /\ epoch[Sender[i.msg]] \in Nat
      BY <1>0 DEF Timely, MemTypeOK
    <3>2. Held' = Held
      BY <2>1 DEF Held
    <3> QED
      BY <2>1, <3>1, <3>2
  <2> QED
    BY <2>3, <2>4 DEF OlderThan
<1>3. CASE ~(d = m /\ StartErase(m))
  <2>1. since'[d] = since[d]
    BY <1>0, <1>3, EraseMoves
  <2>2. erase[d] # "none" /\ d \in standing
    <3>1. ASSUME erase[d] = "none" PROVE FALSE
      <4>1. d = m /\ (Erase(m) \/ FinishErase(m))
        BY <1>0, <1>3, <3>1, EraseMoves DEF eraseVars
      <4> QED
        BY <3>1, <4>1 DEF Erase, FinishErase, DeleteNext, EraseReturn
    <3>2. ASSUME d = m, Decline(m) PROVE FALSE
      BY <3>1, <3>2, <1>0 DEF Decline, PlaceOK
    <3> QED
      BY <1>1, <3>1, <3>2
  <2>3. OlderThan(d) /\ store[Sender[d]].consent = "declined"
    BY <2>2 DEF StandInv, StandOK
  <2>4. ASSUME NEW o \in Msgs, Sender[o] = Sender[d], MayKeep(o)' PROVE born'[o] < since'[d]
    <3>1. CASE o = m
      BY <2>1, <2>3, <2>4, <3>1, NoNewKeepers DEF OlderThan
    <3>2. CASE o # m
      <4>1. MayKeep(o)
        BY <2>4, <3>2, OthersStay DEF MayKeep
      <4>2. born'[o] = born[o]
        BY <1>0, <3>2, BornStays
      <4> QED
        BY <2>1, <2>3, <2>4, <4>1, <4>2 DEF OlderThan
    <3> QED
      BY <3>1, <3>2
  <2>5. ASSUME NEW i \in Held', Sender[i.msg] = Sender[d] PROVE i.epoch < since'[d]
    <3>1. CASE i \in Held
      BY <2>1, <2>3, <2>5, <3>1 DEF OlderThan
    <3>2. CASE i \notin Held
      BY <2>1, <2>3, <2>5, <3>2, HeldMoves DEF OlderThan
    <3> QED
      BY <3>1, <3>2
  <2> QED
    BY <2>4, <2>5 DEF OlderThan
<1> QED
  BY <1>2, <1>3

LEMMA NextStand ==
    TypeOK /\ GateInv /\ PlaceInv /\ Timely /\ StandInv /\ [Next]_vars => StandInv'
<1> SUFFICES ASSUME TypeOK, GateInv, PlaceInv, Timely, StandInv, [Next]_vars, NEW d \in Msgs
             PROVE  StandOK(d)'
  BY DEF StandInv
<1>0. StandOK(d)
  BY DEF StandInv
<1>1. ASSUME NEW m \in Msgs, Receive(m) \/ Proceed(m) PROVE StandOK(d)'
  BY <1>1, StandStep
<1>2. CASE Restart
  <2>1. /\ UNCHANGED <<store, standing, since, born, ltm>>
        /\ erase'[d] # "none" => erase[d] # "none"
        /\ \A m \in Msgs : pc'[m] \in {"new", "done"}
    BY <1>2 DEF Restart, GateRestart, MemRestart, TypeOK, HandlerTypeOK
  <2>2. \A m \in Msgs : ~MayKeep(m)'
    BY <2>1 DEF MayKeep, Handling
  <2> QED
    BY <1>0, <2>1, <2>2 DEF StandOK, OlderThan, Held
<1>3. CASE PassTime \/ AllDone \/ UNCHANGED vars
  <2>1. UNCHANGED <<pc, kind, call, store, standing, erase, since, born, ltm>>
    BY <1>3 DEF PassTime, Tick, AllDone, vars, handlerVars, gateVars, memVars, turnVars, eraseVars
  <2> QED
    BY <1>0, <2>1 DEF StandOK, OlderThan, Held, MayKeep
<1> QED
  BY <1>1, <1>2, <1>3 DEF Next

LEMMA InitStand == Init => PlaceInv /\ StandInv
<1> SUFFICES ASSUME Init PROVE PlaceInv /\ StandInv
  OBVIOUS
<1>1. PlaceInv
  BY DEF Init, GateInit, NoCall, MemInit, PlaceInv, PlaceOK
<1>2. StandInv
  BY DEF Init, StandInv, StandOK
<1> QED
  BY <1>1, <1>2

\* A withdrawal whose reply says that everything was erased has left nothing of its user
\* in long-term memory, and nothing comes back until they opt in again or a stale write of
\* the gate undoes it: for any number of users, messages and namespaces, whatever answers
\* are under way, and across failures and restarts (dmConsentFlow, Eraser.Erase,
\* Memory.Withdraw, turn.keep).
THEOREM ErasedSaysTheTruth == HandlerRuns => []ErasedReplyHolds
<1>1. ASSUME TypeOK, PlaceInv, StandInv, ErasedMeansGone,
             NEW d \in standing, reply[d] = "erased"
      PROVE  Remembered(Sender[d]) = {}
  <2>0. d \in Msgs /\ MemTypeOK
    BY <1>1 DEF TypeOK, HandlerTypeOK
  <2>1. erase[d] = "done" /\ failed[d] = {} /\ next[d] > Len(NsOrder)
    BY <1>1, <2>0 DEF PlaceInv, PlaceOK
  <2>2. Cleared(d) = Namespaces
    <3>1. next[d] = Len(NsOrder) + 1 /\ Len(NsOrder) \in Nat
      BY <2>0, <2>1, MemAssumption DEF MemTypeOK
    <3>2. 1..next[d] - 1 = 1..Len(NsOrder)
      BY <3>1
    <3> QED
      BY <2>1, <3>2 DEF Cleared, Namespaces
  <2>3. ASSUME NEW ns \in Namespaces, NEW i \in Of(Sender[d], ltm[ns]) PROVE FALSE
    <3>1. i.epoch >= since[d]
      BY <1>1, <2>0, <2>1, <2>2 DEF ErasedMeansGone
    <3>2. i \in Held /\ Sender[i.msg] = Sender[d]
      BY DEF Held, Of
    <3>3. i.epoch < since[d]
      BY <1>1, <2>0, <2>1, <3>2 DEF StandInv, StandOK, OlderThan
    <3>4. i.epoch \in Nat /\ since[d] \in Nat
      BY <2>0 DEF MemTypeOK, Of, Item
    <3> QED
      BY <3>1, <3>3, <3>4
  <2> QED
    BY <2>3 DEF Remembered
<1>2. TypeOK /\ PlaceInv /\ StandInv /\ ErasedMeansGone => ErasedReplyHolds
  BY <1>1 DEF ErasedReplyHolds
<1>3. HandlerRuns => []GateInv /\ []Timely
  BY HandlerImplements, GateInvariance, TimelyHolds, PTL
<1>4. HandlerRuns => []PlaceInv
  BY HandlerTypeCorrect, TraceInvariance, InitStand, NextPlace, PTL DEF HandlerRuns
<1>5. HandlerRuns => []StandInv
  BY HandlerTypeCorrect, <1>3, <1>4, InitStand, NextStand, PTL DEF HandlerRuns
<1> QED
  BY <1>2, <1>4, <1>5, HandlerTypeCorrect, HandlerErasesForGood, PTL

-----------------------------------------------------------------------------
(* Which turns a question is asked with *)

\* A retained turn, as far as the selection looks at it.
Retained == [own : BOOLEAN, recent : BOOLEAN, score : Nat]

\* The related turns that are ahead of one.
AheadOf(turns, R, j) == {i \in R : Ahead(turns, i, j)}

\* The related turns with fewer than room ahead of them.
Foremost(turns, R, room) == {j \in R : Cardinality(AheadOf(turns, R, j)) < room}

\* Highest score first, then the earlier turn: a strict order of the turns.
LEMMA AheadOrders ==
    ASSUME NEW turns \in Seq(Retained)
    PROVE  /\ \A i, j \in 1..Len(turns) : i # j => Ahead(turns, i, j) \/ Ahead(turns, j, i)
           /\ \A i, j \in 1..Len(turns) : ~(Ahead(turns, i, j) /\ Ahead(turns, j, i))
           /\ \A i, j, k \in 1..Len(turns) :
                 Ahead(turns, i, j) /\ Ahead(turns, j, k) => Ahead(turns, i, k)
<1>1. \A i \in 1..Len(turns) : turns[i].score \in Nat /\ i \in Nat
  <2>1. \A i \in 1..Len(turns) : turns[i] \in Retained /\ i \in Nat
    OBVIOUS
  <2>2. \A t \in Retained : t.score \in Nat
    BY DEF Retained
  <2> QED
    BY <2>1, <2>2, Zenon
<1>2. \A i, j \in 1..Len(turns) : Ahead(turns, i, j) <=>
          turns[i].score > turns[j].score \/ (turns[i].score = turns[j].score /\ i < j)
  BY DEF Ahead
<1>3. \A i, j \in 1..Len(turns) : i # j => Ahead(turns, i, j) \/ Ahead(turns, j, i)
  BY <1>1, <1>2
<1>4. \A i, j \in 1..Len(turns) : ~(Ahead(turns, i, j) /\ Ahead(turns, j, i))
  BY <1>1, <1>2
<1>5. ASSUME NEW i \in 1..Len(turns), NEW j \in 1..Len(turns), NEW k \in 1..Len(turns),
             Ahead(turns, i, j), Ahead(turns, j, k)
      PROVE  Ahead(turns, i, k)
  BY <1>1, <1>2, <1>5
<1> QED
  BY <1>3, <1>4, <1>5

\* They are room at most; room, if any is left out, and then they are ahead of it.
LEMMA RoomIsFilled ==
    ASSUME NEW turns \in Seq(Retained), NEW R \in SUBSET (1..Len(turns)), NEW room \in Nat,
           NEW T, T = Foremost(turns, R, room)
    PROVE  /\ IsFiniteSet(T) /\ Cardinality(T) <= room
           /\ \A j \in R : j \notin T => Cardinality(T) = room
           /\ \A i, j \in R : i \in T /\ j \notin T => Ahead(turns, i, j)
<1> DEFINE A(j) == AheadOf(turns, R, j)
           rank(j) == Cardinality(A(j))
<1>1. IsFiniteSet(R)
  <2>1. 1 \in Int /\ Len(turns) \in Int
    OBVIOUS
  <2>2. IsFiniteSet(1..Len(turns))
    BY <2>1, FS_Interval, Zenon
  <2> QED
    BY <2>2, FS_Subset, Zenon
<1>2. T \in SUBSET R /\ \A j \in R : A(j) \in SUBSET R
  BY DEF AheadOf, Foremost
<1>3. IsFiniteSet(T) /\ \A j \in R : IsFiniteSet(A(j)) /\ rank(j) \in Nat
  BY <1>1, <1>2, FS_Subset, FS_CardinalityType
<1>4. \A i, j : i \in A(j) <=> i \in R /\ Ahead(turns, i, j)
  BY DEF AheadOf
<1> HIDE DEF A
<1>5. \A j \in R : j \in T <=> rank(j) < room
  BY DEF A, Foremost
<1>6. \A i, j \in R : i \in A(j) => rank(i) < rank(j)
  <2> SUFFICES ASSUME NEW i \in R, NEW j \in R, i \in A(j) PROVE rank(i) < rank(j)
    OBVIOUS
  <2>1. A(i) \in SUBSET A(j) /\ i \notin A(i)
    BY <1>2, <1>4, AheadOrders
  <2>2. rank(i) <= rank(j) /\ (rank(i) = rank(j) => A(i) = A(j))
    BY <1>3, <2>1, FS_Subset
  <2> QED
    BY <1>3, <2>1, <2>2
<1> HIDE DEF rank
<1>7. \A i, j \in R : i # j => i \in A(j) \/ j \in A(i)
  BY <1>4, AheadOrders
<1>8. Cardinality(T) <= room
  <2> DEFINE g == [j \in T |-> rank(j)]
  <2>0. \A j \in T : rank(j) \in 0..room-1
    BY <1>2, <1>3, <1>5
  <2>1. g \in [T -> 0..room-1]
    BY <2>0, Zenon
  <2>2. \A i, j \in T : g[i] = g[j] => i = j
    BY <1>2, <1>3, <1>6, <1>7
  <2>3. g \in Injection(T, 0..room-1)
    BY <2>1, <2>2 DEF Injection, IsInjective
  <2>4. IsFiniteSet(0..room-1) /\ Cardinality(0..room-1) = room
    BY FS_Interval
  <2> HIDE DEF g
  <2>5. Cardinality(T) <= Cardinality(0..room-1)
    BY <2>3, <2>4, FS_Injection
  <2> QED
    BY <2>4, <2>5
<1>9. ASSUME NEW j \in R \ T PROVE \A i \in T : i \in A(j)
  <2> SUFFICES ASSUME NEW i \in T, i \notin A(j) PROVE FALSE
    OBVIOUS
  <2>1. rank(i) < room /\ ~(rank(j) < room) /\ rank(i) \in Nat /\ rank(j) \in Nat
    BY <1>2, <1>3, <1>5
  <2>2. rank(j) < rank(i)
    BY <1>2, <1>6, <1>7
  <2> QED
    BY <2>1, <2>2
<1>10. ASSUME NEW x \in R \ T PROVE Cardinality(T) = room
  <2> DEFINE ranks == {rank(j) : j \in R \ T}
  <2>1. PICK n \in ranks : \A k \in ranks : n <= k
    <3>1. ranks \in SUBSET Nat /\ ranks # {}
      BY <1>3
    <3> QED
      BY <3>1, LeastNumber
  <2>2. PICK y \in R \ T : n = rank(y)
    BY <2>1
  <2>3. A(y) \in SUBSET T
    <3> SUFFICES ASSUME NEW i \in A(y), i \notin T PROVE FALSE
      OBVIOUS
    <3>1. i \in R \ T /\ rank(i) < rank(y)
      BY <1>2, <1>4, <1>6
    <3>2. rank(y) <= rank(i)
      BY <2>1, <2>2, <3>1
    <3> QED
      BY <1>3, <3>1, <3>2
  <2>4. rank(y) <= Cardinality(T)
    BY <1>3, <2>3, FS_Subset DEF rank
  <2>5. ~(rank(y) < room) /\ rank(y) \in Nat /\ Cardinality(T) \in Nat
    BY <1>3, <1>5, FS_CardinalityType
  <2> QED
    BY <1>8, <2>4, <2>5
<1> QED
  BY <1>2, <1>3, <1>4, <1>8, <1>9, <1>10

\* The last turns that are always injected, as many as the limit allows.
LEMMA FloorIs ==
    ASSUME NEW turns \in Seq(Retained), NEW limit \in Nat \ {0}
    PROVE  LET F == Floor(turns, limit)
           IN  /\ F = {i \in DOMAIN turns : i + 3 > Len(turns) /\ i + limit > Len(turns)}
               /\ F \in SUBSET (1..Len(turns))
               /\ IsFiniteSet(F) /\ Cardinality(F) \in Nat /\ Cardinality(F) <= limit
<1> DEFINE n == Len(turns)
           k == IF 3 > limit THEN limit ELSE 3
           F == Floor(turns, limit)
<1>1. n \in Nat /\ DOMAIN turns = 1..n
  OBVIOUS
<1>2. F = {i \in DOMAIN turns : i > n - k}
  BY DEF Floor, Newest, recencyFloor
<1> HIDE DEF n, F
<1>3. \A i \in 1..n : i > n - k <=> i + 3 > n /\ i + limit > n
  BY <1>1
<1>4. F = {i \in DOMAIN turns : i + 3 > n /\ i + limit > n}
  BY <1>1, <1>2, <1>3
<1>5. k \in Nat /\ k <= limit
  OBVIOUS
<1> HIDE DEF k
<1>6. F \in SUBSET (1..n) /\ F \in SUBSET (n - k + 1..n)
  BY <1>1, <1>2, <1>5
<1>7. IsFiniteSet(n - k + 1..n) /\ Cardinality(n - k + 1..n) = k
  BY <1>1, <1>5, FS_Interval
<1>8. IsFiniteSet(F) /\ Cardinality(F) <= k
  BY <1>6, <1>7, FS_Subset
<1>9. Cardinality(F) \in Nat
  BY <1>8, FS_CardinalityType
<1> QED
  BY <1>4, <1>5, <1>6, <1>8, <1>9 DEF n, F

\* What is chosen is such a selection.
LEMMA ChosenIsBest ==
    ASSUME NEW turns \in Seq(Retained), NEW limit \in Nat \ {0}
    PROVE  LET C == Chosen(turns, limit)
           IN  C \in SUBSET DOMAIN turns /\ IsBestSelection(turns, limit, C)
<1> DEFINE n == Len(turns)
           F == Floor(turns, limit)
           R == Related(turns, limit)
           room == limit - Cardinality(F)
           T == Foremost(turns, R, room)
           C == Chosen(turns, limit)
<1>1. n \in Nat /\ DOMAIN turns = 1..n
  OBVIOUS
<1>2. /\ F = {i \in DOMAIN turns : i + 3 > n /\ i + limit > n}
      /\ F \in SUBSET (1..n)
      /\ IsFiniteSet(F) /\ Cardinality(F) \in Nat /\ Cardinality(F) <= limit
  BY FloorIs, Zenon
<1>3. C = F \cup T
  BY Zenon DEF Chosen, AheadOf, Foremost
<1>4. \A i : i \in R <=> i \in DOMAIN turns /\ i \notin F /\ turns[i].score > 0
  BY DEF Related
<1> HIDE DEF F, R, C
<1>5. room \in Nat
  BY <1>2
<1>6. R \in SUBSET (1..n)
  BY <1>1, <1>4
<1>7. /\ IsFiniteSet(T) /\ Cardinality(T) <= room
      /\ \A j \in R : j \notin T => Cardinality(T) = room
      /\ \A i, j \in R : i \in T /\ j \notin T => Ahead(turns, i, j)
  <2>1. T = Foremost(turns, R, room)
    OBVIOUS
  <2> HIDE DEF room, T
  <2> QED
    BY <1>5, <1>6, <2>1, RoomIsFilled, Zenon
<1>8. T \in SUBSET R
  BY DEF Foremost
<1> HIDE DEF T
<1>9. Cardinality(T) \in Nat
  BY <1>7, FS_CardinalityType
<1>10. F \cap T = {} /\ C \ F = T /\ F \subseteq C
  BY <1>3, <1>4, <1>8
<1>11. Cardinality(C) = Cardinality(F) + Cardinality(T)
  <2>1. Cardinality(F \cap T) = 0
    BY <1>10, FS_EmptySet
  <2>2. Cardinality(C) = Cardinality(F) + Cardinality(T) - Cardinality(F \cap T)
    BY <1>2, <1>3, <1>7, FS_Union
  <2> QED
    BY <1>2, <1>9, <2>1, <2>2
<1>12. Cardinality(C) <= limit /\ (Cardinality(T) = room => Cardinality(C) = limit)
  BY <1>2, <1>7, <1>9, <1>11
<1>13. C \in SUBSET DOMAIN turns
  BY <1>1, <1>2, <1>3, <1>6, <1>8
<1>14. \A i \in C \ F : turns[i].score > 0
  BY <1>4, <1>8, <1>10
<1>15. ASSUME NEW j \in DOMAIN turns \ C, turns[j].score > 0
       PROVE  Cardinality(C) = limit /\ \A i \in C \ F : Ahead(turns, i, j)
  <2>1. j \in R \ T
    BY <1>3, <1>4, <1>15
  <2> QED
    BY <1>7, <1>8, <1>10, <1>12, <2>1
<1>16. IsBestSelection(turns, limit, C)
  <2>1. {i \in DOMAIN turns : i + 3 > Len(turns) /\ i + limit > Len(turns)} = F
    BY <1>2
  <2> QED
    BY <1>10, <1>12, <1>14, <1>15, <2>1, Zenon DEF IsBestSelection, Ahead
<1> QED
  BY <1>13, <1>16 DEF C

\* There is one: of two, neither has a turn that the other has not.
LEMMA OneBestSelection ==
    ASSUME NEW turns \in Seq(Retained), NEW limit \in Nat \ {0},
           NEW C \in SUBSET DOMAIN turns, NEW D \in SUBSET DOMAIN turns,
           IsBestSelection(turns, limit, C), IsBestSelection(turns, limit, D)
    PROVE  C \subseteq D
<1> DEFINE F == {i \in DOMAIN turns : i + 3 > Len(turns) /\ i + limit > Len(turns)}
           Best(B) == /\ F \subseteq B /\ Cardinality(B) <= limit
                      /\ \A i \in B \ F : turns[i].score > 0
                      /\ \A j \in DOMAIN turns \ B : turns[j].score > 0 =>
                            Cardinality(B) = limit /\ \A i \in B \ F : Ahead(turns, i, j)
<1>1. Best(C) /\ Best(D)
  BY Zenon DEF IsBestSelection, Ahead
<1>2. DOMAIN turns = 1..Len(turns) /\ Len(turns) \in Nat
  OBVIOUS
<1>3. IsFiniteSet(C) /\ IsFiniteSet(D) /\ Cardinality(C) \in Nat
  <2>1. 1 \in Int /\ Len(turns) \in Int
    BY <1>2
  <2>2. IsFiniteSet(DOMAIN turns)
    BY <1>2, <2>1, FS_Interval
  <2> QED
    BY <2>2, FS_Subset, FS_CardinalityType, Zenon
<1> HIDE DEF F
<1> SUFFICES ASSUME NEW c \in C, c \notin D PROVE FALSE
  OBVIOUS
<1>4. c \notin F /\ c \in DOMAIN turns /\ turns[c].score > 0
  BY <1>1
<1>5. Cardinality(D) = limit /\ \A i \in D \ F : Ahead(turns, i, c)
  BY <1>1, <1>4
<1>6. CASE D \subseteq C
  <2>1. Cardinality(D) <= Cardinality(C) /\ (Cardinality(C) = Cardinality(D) => C = D)
    BY <1>3, <1>6, FS_Subset
  <2> QED
    BY <1>1, <1>3, <1>5, <2>1
<1>7. CASE ~(D \subseteq C)
  <2>1. PICK d \in D : d \notin C
    BY <1>7
  <2>2. d \notin F /\ d \in DOMAIN turns /\ turns[d].score > 0
    BY <1>1, <2>1
  <2>3. Ahead(turns, c, d) /\ Ahead(turns, d, c)
    BY <1>1, <1>4, <1>5, <2>1, <2>2
  <2> QED
    BY <1>2, <1>4, <2>2, <2>3, AheadOrders
<1> QED
  BY <1>6, <1>7

\* Whatever is retained, a follow-up is asked with the last three turns, as far as the limit
\* goes, and the most relevant of the others, earlier ones first, and no other set of turns
\* is that (Buffer.Select).
THEOREM SelectsTheBest ==
    ASSUME NEW turns \in Seq(Retained), NEW limit \in Nat \ {0}, NEW isReply \in BOOLEAN,
           isReply \/ MidConversation(turns)
    PROVE  \A C \in SUBSET DOMAIN turns :
               IsBestSelection(turns, limit, C) <=> C = Select(turns, isReply, limit)
<1> DEFINE B == Chosen(turns, limit)
<1>1. Select(turns, isReply, limit) = B
  BY DEF Select
<1>2. B \in SUBSET DOMAIN turns /\ IsBestSelection(turns, limit, B)
  BY ChosenIsBest, Zenon
<1> HIDE DEF B
<1>3. ASSUME NEW C \in SUBSET DOMAIN turns, IsBestSelection(turns, limit, C) PROVE C = B
  <2>1. C \subseteq B /\ B \subseteq C
    BY <1>2, <1>3, OneBestSelection, Zenon
  <2> QED
    BY <2>1
<1> QED
  BY <1>1, <1>2, <1>3
=============================================================================
