----------------------------- MODULE Bot_proofs -----------------------------
(***************************************************************************)
(* The whole program: it implements the handler, whose theorems so hold of *)
(* it, and the safety part of the abstract service; and its types and what *)
(* it promises of tools and material hold for any servers, lists and       *)
(* bounds.                                                                 *)
(***************************************************************************)
EXTENDS Bot, Handler_proofs

-----------------------------------------------------------------------------
(* The program implements the handler *)

LEMMA EngineOutcomes == \A ended : OutcomeOf(ended) \in {"answered", "refused", "error"}
BY DEF OutcomeOf

\* No step of the program does to the handler what the handler itself does not do.
LEMMA BotHandlerStep == [BotNext]_botVars => [Next]_vars
<1> SUFFICES ASSUME [BotNext]_botVars PROVE [Next]_vars
  OBVIOUS
<1>1. CASE Connecting \/ GiveUp \/ StartServing \/ StartAgain \/ AllSaid \/ UNCHANGED botVars
  BY <1>1 DEF Connecting, GiveUp, StartServing, StartAgain, AllSaid, botVars
<1>2. ASSUME NEW m \in Msgs,
             UserPosts(m) \/ IgnoreUpdate(m) \/ AskEngine(m) \/ EngineMoves(m) \/ Reply(m) \/ Deliver(m)
      PROVE  UNCHANGED vars
  BY <1>2 DEF UserPosts, IgnoreUpdate, AskEngine, EngineMoves, Reply, Deliver
<1>3. ASSUME NEW m \in Msgs, TakeUpdate(m) \/ HandlerStep(m) PROVE Next
  BY <1>3 DEF TakeUpdate, HandlerStep, Next
<1>4. ASSUME NEW m \in Msgs, EngineAnswers(m) PROVE Next
  <2>1. Proceed(m)
    BY <1>4, EngineOutcomes DEF EngineAnswers, Proceed
  <2> QED
    BY <2>1 DEF Next
<1>5. CASE Crash
  BY <1>5 DEF Crash, Next
<1>6. CASE BotPassesTime
  BY <1>6 DEF BotPassesTime, Next
<1> QED
  BY <1>1, <1>2, <1>3, <1>4, <1>5, <1>6 DEF BotNext

\* Every run of the program is a run of the handler.
THEOREM BotImplementsHandler == BotSpec => HandlerRuns
<1>1. BotInit => Init
  BY DEF BotInit
<1> QED
  BY <1>1, BotHandlerStep, PTL DEF BotSpec, HandlerRuns

\* In the whole program, crashes, failed starts and an engine that answers step by step
\* included, nothing is served or logged for a user who never opted in.
THEOREM BotNeverInfers == BotSpec => []ConsentNeverInferred
BY BotImplementsHandler, HandlerNeverInfers, PTL

\* In the whole program, what a withdrawal has erased stays erased.
THEOREM BotErasesForGood == BotSpec => []ErasedMeansGone
BY BotImplementsHandler, HandlerErasesForGood, PTL

\* In the whole program, who never opted in leaves no trace, who withdrew leaves nothing
\* in the buffer, and who is told that everything was erased has nothing remembered.
THEOREM BotKeepsConsent ==
    BotSpec => [](NoTraceWithoutConsent /\ BufferForgets /\ ErasedReplyHolds)
BY BotImplementsHandler, NoConsentNoTrace, WithdrawnLeavesBuffer, ErasedSaysTheTruth, PTL

-----------------------------------------------------------------------------
(* The program keeps the promise of module Service *)

\* The handlers are those of the updates that were taken.
TakenIsHandled == \A m \in Msgs : pc[m] = "new" <=> update[m] # "taken"

\* A reply is sent when its handler is done, and only if it has words.
SentWhenDone == \A m \in Msgs :
    /\ sending[m] # "idle" => pc[m] = "done"
    /\ sending[m] \in Forms => reply[m] \notin {"silent", "error"}

\* How often a reply may have been shown before its next form is sent.
MayHaveShown(form) ==
    CASE form \in {"idle", "html"} -> 0 [] form \in {"plain", "raw"} -> 1 [] OTHER -> 2

ShownBound == \A m \in Msgs : copies[m] <= MayHaveShown(sending[m])

\* Where the handler of a message stands that has been remembered.
Answering == {"keep", "answered", "check", "purge", "close"}

KeptIsAnswered == \A m \in Msgs :
    /\ pc[m] \in {"keep", "answered"} => outcome[m] = "answered"
    /\ KeptOf(m) # {} =>
          /\ outcome[m] = "answered"
          /\ \/ pc[m] \in Answering
             \/ pc[m] = "done" /\ (reply[m] = "answer" \/ sending[m] = "over")

PromiseInv == TakenIsHandled /\ SentWhenDone /\ ShownBound /\ KeptIsAnswered

\* What a step of m's handler may do to what the promise is about.
Footprint(m) ==
    /\ pc[m] \notin {"new", "done"} /\ pc'[m] # "new"
    /\ pc' = [pc EXCEPT ![m] = pc'[m]]
    /\ reply' = [reply EXCEPT ![m] = reply'[m]]
    /\ outcome' = [outcome EXCEPT ![m] = outcome'[m]]
    /\ pc'[m] \in {"keep", "answered"} => outcome'[m] = "answered"
    /\ KeptOf(m)' # {} =>
          /\ outcome'[m] = "answered"
          /\ pc'[m] \in Answering \/ (pc'[m] = "done" /\ reply'[m] = "answer")
    /\ \/ \A o \in Msgs : KeptOf(o)' = KeptOf(o)
       \/ /\ pc'[m] # "done"
          /\ \/ \A o \in Msgs : KeptOf(o)' \subseteq KeptOf(o)
             \/ KeptOf(m)' # {} /\ \A o \in Msgs \ {m} : KeptOf(o)' = KeptOf(o)

LEMMA ProceedFootprint ==
    ASSUME HandlerTypeOK, MemTypeOK, KeptIsAnswered, NEW m \in Msgs, Proceed(m)
    PROVE  Footprint(m)
<1> USE DEF HandlerTypeOK
<1>0. /\ pc[m] \in {"keep", "answered"} => outcome[m] = "answered"
      /\ KeptOf(m) # {} => /\ outcome[m] = "answered"
                           /\ pc[m] \in Answering \cup {"done"}
  BY DEF KeptIsAnswered
<1>1. CASE AtGate(m)
  BY <1>0, <1>1, KeptStays DEF AtGate, memVars, handlerVars, Footprint, Answering
<1>2. CASE Dismiss(m) \/ LogConsented(m) \/ RememberUser(m)
  BY <1>0, <1>2, KeptStays DEF Dismiss, LogConsented, RememberUser, memVars, Finish, Goto,
     Footprint, Answering
<1>3. ASSUME NEW o \in {"answered", "refused", "error"}, EngineRun(m, o) PROVE Footprint(m)
  <2>1. /\ pc[m] = "engine" /\ outcome' = [outcome EXCEPT ![m] = o]
        /\ UNCHANGED <<reply, ltm>>
    BY <1>3 DEF EngineRun, memVars
  <2>2. \/ o # "answered" /\ (Goto(m, "close") \/ Goto(m, "check"))
        \/ o = "answered" /\ (Goto(m, "answered") \/ Goto(m, "keep"))
    BY <1>3 DEF EngineRun, AfterAnswer, Goto
  <2>3. KeptOf(m) = {}
    BY <1>0, <2>1 DEF Answering
  <2> QED
    BY <2>1, <2>2, <2>3, KeptStays DEF Goto, Footprint
<1>4. CASE Keep(m)
  <2>1. /\ pc[m] = "keep" /\ pc'[m] \in {"keep", "answered"}
        /\ pc' = [pc EXCEPT ![m] = pc'[m]] /\ UNCHANGED <<reply, outcome>>
    BY <1>4 DEF Keep, Goto
  <2>2. \/ UNCHANGED ltm
        \/ Store(m, "message") \/ Store(m, "answer")
    BY <1>4 DEF Keep, KeepBegin, KeepMessage, KeepAnswer
  <2>3. \/ \A o \in Msgs : KeptOf(o)' = KeptOf(o)
        \/ KeptOf(m)' # {} /\ \A o \in Msgs \ {m} : KeptOf(o)' = KeptOf(o)
    BY <2>2, KeptStays, StoreKeeps
  <2> QED
    BY <1>0, <2>1, <2>3 DEF Footprint, Answering
<1>5. CASE RememberBot(m) \/ CheckConsent(m) \/ PurgeAfterCheck(m)
  BY <1>0, <1>5, KeptStays DEF RememberBot, CheckConsent, PurgeAfterCheck, AfterAnswer, memVars,
     Goto, Footprint, Answering
<1>6. CASE Close(m)
  <2>1. pc[m] = "close" /\ UNCHANGED <<outcome, ltm>>
    BY <1>6 DEF Close, memVars
  <2>2. /\ Goto(m, "done")
        /\ reply' = [reply EXCEPT ![m] = reply'[m]]
        /\ outcome[m] = "answered" => reply'[m] = "answer"
    BY <1>6 DEF Close, Finish, Goto
  <2> QED
    BY <1>0, <2>1, <2>2, KeptStays DEF Goto, Footprint
<1>7. CASE Decline(m) \/ Forget(m)
  BY <1>0, <1>7, KeptStays DEF Decline, Forget, memVars, Finish, Goto, Footprint, Answering
<1>8. CASE StartErase(m) \/ FinishErase(m)
  <2>1. UNCHANGED ltm
    BY <1>8 DEF StartErase, FinishErase, Withdraw, Count, EraseReturn
  <2> QED
    BY <1>0, <1>8, <2>1, KeptStays DEF StartErase, FinishErase, Finish, Goto, Footprint, Answering
<1>9. CASE Erase(m)
  BY <1>0, <1>9, DeleteKeepsNoMore DEF Erase, handlerVars, Footprint, Answering
<1> QED
  BY <1>1, <1>2, <1>3, <1>4, <1>5, <1>6, <1>7, <1>8, <1>9 DEF Proceed

\* What a handler that begins may do to it.
LEMMA ReceiveFootprint ==
    ASSUME HandlerTypeOK, NEW m \in Msgs, Receive(m)
    PROVE  /\ pc[m] = "new" /\ pc'[m] \in {"gate", "select", "decline", "done"}
           /\ pc' = [pc EXCEPT ![m] = pc'[m]]
           /\ reply' = [reply EXCEPT ![m] = reply'[m]]
           /\ UNCHANGED <<outcome, ltm>>
<1> USE DEF HandlerTypeOK, Become, Goto
<1>1. ASSUME NEW k \in GroupKinds, ReceiveGroup(m, k)
      PROVE  /\ pc[m] = "new" /\ pc' = [pc EXCEPT ![m] = "gate"]
             /\ UNCHANGED <<reply, outcome, ltm>>
  BY <1>1 DEF ReceiveGroup, ReadWithdrawals
<1>2. CASE ReceiveQuery(m)
  BY <1>2 DEF ReceiveQuery, memVars
<1>3. CASE ReceiveGrant(m)
  BY <1>3 DEF ReceiveGrant, memVars, Finish
<1>4. CASE ReceiveStatus(m)
  BY <1>4 DEF ReceiveStatus, memVars, Finish
<1>5. CASE ReceiveRemove(m)
  BY <1>5 DEF ReceiveRemove, memVars
<1> QED
  BY <1>1, <1>2, <1>3, <1>4, <1>5 DEF Receive

BotTypes == HandlerTypeOK /\ MemTypeOK /\ TransportTypeOK

LEMMA BotInitPromise == BotInit => BotTypes /\ PromiseInv
<1> SUFFICES ASSUME BotInit PROVE BotTypes /\ PromiseInv
  OBVIOUS
<1>1. MemTypeOK /\ HandlerTypeOK
  BY InitTypes DEF BotInit, TypeOK
<1>2. TransportTypeOK
  BY DEF BotInit, TransportInit, TransportTypeOK
<1>3. \A m \in Msgs : KeptOf(m) = {}
  BY DEF BotInit, Init, MemInit, KeptOf
<1>4. \A m \in Msgs : /\ pc[m] = "new" /\ update[m] = "unsent"
                      /\ sending[m] = "idle" /\ copies[m] = 0
  BY DEF BotInit, Init, TransportInit
<1>5. TakenIsHandled /\ SentWhenDone
  BY <1>4 DEF TakenIsHandled, SentWhenDone, Forms
<1>6. ShownBound /\ KeptIsAnswered
  BY <1>3, <1>4 DEF ShownBound, MayHaveShown, KeptIsAnswered
<1> QED
  BY <1>1, <1>2, <1>5, <1>6 DEF BotTypes, PromiseInv

\* A step of a handler that leaves the transport alone.
LEMMA FootprintPromise ==
    ASSUME BotTypes, PromiseInv, NEW m \in Msgs, Footprint(m), UNCHANGED transportVars
    PROVE  PromiseInv'
<1> USE DEF BotTypes, HandlerTypeOK, TransportTypeOK, transportVars, PromiseInv, Footprint
<1>1. \A o \in Msgs : o # m =>
         /\ pc'[o] = pc[o] /\ reply'[o] = reply[o] /\ outcome'[o] = outcome[o]
         /\ KeptOf(o)' # {} => KeptOf(o) # {}
  OBVIOUS
<1>2. TakenIsHandled'
  BY <1>1 DEF TakenIsHandled
<1>3. sending[m] = "idle"
  BY DEF SentWhenDone
<1>4. SentWhenDone'
  BY <1>1, <1>3 DEF SentWhenDone, Forms
<1>5. ShownBound'
  BY DEF ShownBound, MayHaveShown
<1>6. KeptIsAnswered'
  <2> SUFFICES ASSUME NEW o \in Msgs
                 PROVE  /\ pc'[o] \in {"keep", "answered"} => outcome'[o] = "answered"
                        /\ KeptOf(o)' # {} =>
                              /\ outcome'[o] = "answered"
                              /\ \/ pc'[o] \in Answering
                                 \/ /\ pc'[o] = "done"
                                    /\ reply'[o] = "answer" \/ sending'[o] = "over"
    BY DEF KeptIsAnswered
  <2>2. CASE o = m
    BY <2>2
  <2>3. CASE o # m
    BY <1>1, <2>3 DEF KeptIsAnswered
  <2> QED
    BY <2>2, <2>3
<1> QED
  BY <1>2, <1>4, <1>5, <1>6

LEMMA TakePromise ==
    ASSUME BotTypes, PromiseInv, NEW m \in Msgs, TakeUpdate(m)
    PROVE  PromiseInv'
<1> USE DEF BotTypes, HandlerTypeOK, TransportTypeOK, PromiseInv
<1>1. /\ pc[m] = "new" /\ pc'[m] \in {"gate", "select", "decline", "done"}
      /\ pc' = [pc EXCEPT ![m] = pc'[m]]
      /\ reply' = [reply EXCEPT ![m] = reply'[m]]
      /\ UNCHANGED <<outcome, ltm>>
  BY ReceiveFootprint DEF TakeUpdate
<1>2. \A o \in Msgs : KeptOf(o)' = KeptOf(o)
  BY <1>1, KeptStays
<1>3. update' = [update EXCEPT ![m] = "taken"] /\ UNCHANGED <<sending, copies>>
  BY DEF TakeUpdate, Take
<1>4. TakenIsHandled'
  BY <1>1, <1>3 DEF TakenIsHandled
<1>5. SentWhenDone'
  BY <1>1, <1>3 DEF SentWhenDone, Forms
<1>6. ShownBound'
  BY <1>3 DEF ShownBound, MayHaveShown
<1>7. KeptIsAnswered'
  BY <1>1, <1>2, <1>3 DEF KeptIsAnswered, Answering
<1> QED
  BY <1>4, <1>5, <1>6, <1>7

\* The queue of updates moves, and nothing of a message that was taken.
LEMMA QueuePromise ==
    ASSUME BotTypes, PromiseInv, UNCHANGED <<vars, sending, copies>>,
           update' \in [Msgs -> {"unsent", "queued", "taken", "dropped"}],
           \A o \in Msgs : update'[o] = "taken" <=> update[o] = "taken"
    PROVE  PromiseInv'
<1>1. UNCHANGED <<pc, reply, outcome, ltm>>
  BY DEF vars, handlerVars, memVars
<1>2. \A o \in Msgs : KeptOf(o)' = KeptOf(o)
  BY <1>1, KeptStays
<1>3. TakenIsHandled' /\ SentWhenDone' /\ ShownBound'
  BY <1>1 DEF PromiseInv, TakenIsHandled, SentWhenDone, ShownBound
<1>4. KeptIsAnswered'
  BY <1>1, <1>2 DEF PromiseInv, KeptIsAnswered
<1> QED
  BY <1>3, <1>4 DEF PromiseInv

\* A form of a reply is sent, or the first one chosen.
LEMMA SendPromise ==
    ASSUME BotTypes, PromiseInv, NEW m \in Msgs, Reply(m) \/ Deliver(m)
    PROVE  PromiseInv'
<1> USE DEF BotTypes, HandlerTypeOK, TransportTypeOK, PromiseInv, SendNext
<1>1. UNCHANGED <<pc, reply, outcome, ltm, update>>
  BY DEF Reply, Deliver, BeginSend, Send, vars, handlerVars, memVars
<1>2. \A o \in Msgs : KeptOf(o)' = KeptOf(o)
  BY <1>1, KeptStays
<1>3. /\ pc[m] = "done" /\ sending'[m] # "idle"
      /\ sending' = [sending EXCEPT ![m] = sending'[m]]
      /\ sending'[m] \in Forms => reply[m] \notin {"silent", "error"}
      /\ sending[m] # "over"
  <2>1. CASE Reply(m)
    BY <2>1 DEF Reply, BeginSend, MayCarryText, Forms
  <2>2. CASE Deliver(m)
    BY <2>2 DEF Deliver, Send, After, SentWhenDone, Forms
  <2> QED
    BY <2>1, <2>2
<1>4. /\ copies' = [copies EXCEPT ![m] = copies'[m]]
      /\ copies'[m] <= MayHaveShown(sending'[m])
  <2>1. CASE Reply(m)
    BY <2>1 DEF Reply, BeginSend, ShownBound, MayHaveShown
  <2>2. CASE Deliver(m)
    <3>1. PICK result \in Results :
             /\ sending'[m] = After(sending[m], result)
             /\ copies' = [copies EXCEPT ![m] = IF result.arrived THEN @ + 1 ELSE @]
      BY <2>2 DEF Deliver, Send
    <3>2. /\ result.arrived \in BOOLEAN /\ (result.rejected => ~result.arrived)
          /\ result.ok => result.arrived
      BY DEF Results
    <3>3. sending[m] \in Forms /\ copies[m] \in Nat /\ copies[m] <= MayHaveShown(sending[m])
      BY <2>2 DEF Deliver, Send, ShownBound
    <3>4. IF result.arrived THEN MayHaveShown(sending[m]) + 1 <= MayHaveShown(After(sending[m], result))
          ELSE MayHaveShown(sending[m]) <= MayHaveShown(After(sending[m], result))
      BY <3>2, <3>3 DEF MayHaveShown, After, Forms
    <3> QED
      BY <3>1, <3>3, <3>4 DEF MayHaveShown
  <2> QED
    BY <2>1, <2>2
<1>5. TakenIsHandled' /\ SentWhenDone'
  BY <1>1, <1>3 DEF TakenIsHandled, SentWhenDone
<1>6. ShownBound'
  BY <1>3, <1>4 DEF ShownBound
<1>7. KeptIsAnswered'
  BY <1>1, <1>2, <1>3 DEF KeptIsAnswered
<1> QED
  BY <1>5, <1>6, <1>7

LEMMA CrashPromise == ASSUME BotTypes, PromiseInv, Crash PROVE PromiseInv'
<1> USE DEF BotTypes, HandlerTypeOK, TransportTypeOK, PromiseInv
<1>1. /\ pc' = [o \in Msgs |-> IF pc[o] = "new" THEN "new" ELSE "done"]
      /\ sending' = [o \in Msgs |-> IF update[o] = "taken" THEN "over" ELSE sending[o]]
      /\ UNCHANGED <<reply, outcome, ltm, update, copies>>
  BY DEF Crash, Restart, MemRestart, TransportRestart
<1>2. \A o \in Msgs : KeptOf(o)' = KeptOf(o)
  BY <1>1, KeptStays
<1>3. TakenIsHandled' /\ SentWhenDone'
  BY <1>1 DEF TakenIsHandled, SentWhenDone, Forms
<1>4. ShownBound'
  BY <1>1 DEF ShownBound, MayHaveShown, Forms
<1>5. KeptIsAnswered'
  BY <1>1, <1>2 DEF TakenIsHandled, KeptIsAnswered, Answering
<1> QED
  BY <1>3, <1>4, <1>5

LEMMA BotStepPromise ==
    ASSUME BotTypes, PromiseInv, [BotNext]_botVars
    PROVE  PromiseInv'
<1>1. CASE Connecting \/ GiveUp \/ StartAgain \/ AllSaid \/ BotPassesTime \/ UNCHANGED botVars
  <2>1. UNCHANGED <<pc, reply, outcome, ltm, update, sending, copies>>
    BY <1>1 DEF Connecting, GiveUp, StartAgain, AllSaid, BotPassesTime, PassTime, botVars, vars,
       handlerVars, memVars, transportVars
  <2>2. \A o \in Msgs : KeptOf(o)' = KeptOf(o)
    BY <2>1, KeptStays
  <2> QED
    BY <2>1, <2>2 DEF PromiseInv, TakenIsHandled, SentWhenDone, ShownBound, KeptIsAnswered
<1>2. CASE StartServing
  BY <1>2, QueuePromise DEF StartServing, DropBacklog, BotTypes, TransportTypeOK
<1>3. ASSUME NEW m \in Msgs, UserPosts(m) \/ IgnoreUpdate(m) PROVE PromiseInv'
  BY <1>3, QueuePromise DEF UserPosts, IgnoreUpdate, Post, Drop, BotTypes, TransportTypeOK
<1>4. ASSUME NEW m \in Msgs, TakeUpdate(m) PROVE PromiseInv'
  BY <1>4, TakePromise
<1>5. ASSUME NEW m \in Msgs, HandlerStep(m) \/ EngineAnswers(m) PROVE PromiseInv'
  <2>1. Proceed(m) /\ UNCHANGED transportVars
    BY <1>5, EngineOutcomes DEF HandlerStep, EngineAnswers, Proceed
  <2>2. Footprint(m)
    BY <2>1, ProceedFootprint DEF BotTypes, PromiseInv
  <2> QED
    BY <2>1, <2>2, FootprintPromise
<1>6. ASSUME NEW m \in Msgs, AskEngine(m) \/ EngineMoves(m) PROVE PromiseInv'
  BY <1>6, QueuePromise DEF AskEngine, EngineMoves, transportVars, BotTypes, TransportTypeOK
<1>7. ASSUME NEW m \in Msgs, Reply(m) \/ Deliver(m) PROVE PromiseInv'
  BY <1>7, SendPromise
<1>8. CASE Crash
  BY <1>8, CrashPromise
<1> QED
  BY <1>1, <1>2, <1>3, <1>4, <1>5, <1>6, <1>7, <1>8 DEF BotNext

LEMMA TransportTypes == TransportTypeOK /\ [BotNext]_botVars => TransportTypeOK'
<1> SUFFICES ASSUME TransportTypeOK, [BotNext]_botVars PROVE TransportTypeOK'
  OBVIOUS
<1> USE DEF TransportTypeOK
<1>1. CASE \/ Connecting \/ GiveUp \/ StartAgain \/ AllSaid \/ BotPassesTime
           \/ UNCHANGED botVars
  BY <1>1 DEF Connecting, GiveUp, StartAgain, AllSaid, BotPassesTime, botVars, transportVars
<1>2. CASE StartServing
  BY <1>2 DEF StartServing, DropBacklog
<1>3. ASSUME NEW m \in Msgs, UserPosts(m) \/ IgnoreUpdate(m) \/ TakeUpdate(m)
      PROVE  TransportTypeOK'
  BY <1>3 DEF UserPosts, IgnoreUpdate, TakeUpdate, Post, Drop, Take
<1>4. ASSUME NEW m \in Msgs, HandlerStep(m) \/ AskEngine(m) \/ EngineMoves(m) \/ EngineAnswers(m)
      PROVE  TransportTypeOK'
  BY <1>4 DEF HandlerStep, AskEngine, EngineMoves, EngineAnswers, transportVars
<1>5. ASSUME NEW m \in Msgs, Reply(m) PROVE TransportTypeOK'
  BY <1>5 DEF Reply, BeginSend, SendNext, Forms
<1>6. ASSUME NEW m \in Msgs, Deliver(m) PROVE TransportTypeOK'
  <2>1. \A form, result : After(form, result) \in {"over"} \cup Forms
    BY DEF After, Forms
  <2> QED
    BY <1>6, <2>1 DEF Deliver, Send, SendNext
<1>7. CASE Crash
  BY <1>7 DEF Crash, TransportRestart
<1> QED
  BY <1>1, <1>2, <1>3, <1>4, <1>5, <1>6, <1>7 DEF BotNext

\* What the abstract service sees of the program.
StatusNow == [m \in Msgs |-> StatusOf(m)]
RememberedNow == {m \in Msgs : KeptOf(m) # {}}

LEMMA StatusStays ==
    (\A o \in Msgs : StatusOf(o)' = StatusOf(o)) => StatusNow' = StatusNow
BY DEF StatusNow

LEMMA StatusMoves ==
    ASSUME NEW m \in Msgs, NEW s, StatusOf(m)' = s,
           \A o \in Msgs \ {m} : StatusOf(o)' = StatusOf(o)
    PROVE  StatusNow' = [StatusNow EXCEPT ![m] = s]
BY DEF StatusNow

LEMMA RememberedStays ==
    (\A o \in Msgs : KeptOf(o)' = KeptOf(o)) => RememberedNow' = RememberedNow
BY DEF RememberedNow

ServiceMoves == Promise!ServiceNext \/ UNCHANGED Promise!serviceVars

LEMMA SeenTheSame ==
    UNCHANGED <<StatusNow, copies, RememberedNow>> => ServiceMoves
BY DEF ServiceMoves, Promise!serviceVars, StatusNow, RememberedNow

LEMMA SeenForgetting ==
    ASSUME RememberedNow' \subseteq RememberedNow, UNCHANGED <<StatusNow, copies>>
    PROVE  ServiceMoves
<1> DEFINE M == RememberedNow \ RememberedNow'
<1>1. M \in SUBSET Msgs /\ RememberedNow' = RememberedNow \ M
  BY DEF RememberedNow
<1>2. Promise!ForgetSome(M)
  BY <1>1 DEF Promise!ForgetSome, StatusNow, RememberedNow
<1> QED
  BY <1>1, <1>2 DEF ServiceMoves, Promise!ServiceNext

LEMMA SeenRemembering ==
    ASSUME NEW m \in Msgs, StatusOf(m) = "asked", UNCHANGED <<StatusNow, copies>>,
           RememberedNow' = RememberedNow \cup {m}
    PROVE  ServiceMoves
<1>1. Promise!Remember(m)
  BY DEF Promise!Remember, StatusNow, RememberedNow
<1> QED
  BY <1>1 DEF ServiceMoves, Promise!ServiceNext

LEMMA SeenTaking ==
    ASSUME NEW m \in Msgs, StatusOf(m) = "unseen", UNCHANGED <<copies, RememberedNow>>,
           StatusNow' = [StatusNow EXCEPT ![m] = "asked"]
    PROVE  ServiceMoves
<1>1. Promise!Take(m)
  BY DEF Promise!Take, Promise!Becomes, StatusNow, RememberedNow
<1> QED
  BY <1>1 DEF ServiceMoves, Promise!ServiceNext

LEMMA SeenSettling ==
    ASSUME NEW m \in Msgs, NEW verdict \in {"answered", "declined", "silent"},
           StatusOf(m) \in {"unseen", "asked"}, KeptOf(m) # {} => verdict = "answered",
           UNCHANGED <<copies, RememberedNow>>,
           StatusNow' = [StatusNow EXCEPT ![m] = verdict]
    PROVE  ServiceMoves
<1>1. Promise!Settle(m, verdict)
  BY DEF Promise!Settle, Promise!Becomes, StatusNow, RememberedNow
<1> QED
  BY <1>1 DEF ServiceMoves, Promise!ServiceNext, Promise!Verdicts

LEMMA SeenMissing ==
    ASSUME NEW M \in SUBSET Msgs, \A m \in M : StatusOf(m) = "unseen" /\ StatusOf(m)' = "missed",
           \A m \in Msgs \ M : StatusOf(m)' = StatusOf(m), UNCHANGED <<copies, RememberedNow>>
    PROVE  ServiceMoves
<1>1. Promise!Miss(M)
  BY DEF Promise!Miss, StatusNow, RememberedNow
<1> QED
  BY <1>1 DEF ServiceMoves, Promise!ServiceNext

LEMMA SeenSending ==
    ASSUME NEW m \in Msgs, StatusOf(m) \in {"answered", "declined", "silent"},
           UNCHANGED RememberedNow,
           \/ /\ UNCHANGED copies
              /\ StatusNow' = [StatusNow EXCEPT ![m] = "over"]
           \/ /\ StatusOf(m) # "silent" /\ copies[m] < 2
              /\ copies' = [copies EXCEPT ![m] = @ + 1]
              /\ UNCHANGED StatusNow \/ StatusNow' = [StatusNow EXCEPT ![m] = "over"]
    PROVE  ServiceMoves
<1>1. Promise!Leave(m) \/ Promise!Show(m)
  BY DEF Promise!Leave, Promise!Show, Promise!Verdicts, Promise!Becomes, StatusNow, RememberedNow
<1> QED
  BY <1>1 DEF ServiceMoves, Promise!ServiceNext

LEMMA SeenCrashing ==
    ASSUME UNCHANGED <<copies, RememberedNow>>,
           \A m \in Msgs : StatusOf(m)' =
               IF StatusOf(m) \in {"asked", "answered", "declined", "silent"} THEN "over" ELSE StatusOf(m)
    PROVE  ServiceMoves
<1>1. Promise!Crash
  BY DEF Promise!Crash, Promise!UnderWay, Promise!Verdicts, StatusNow, RememberedNow
<1> QED
  BY <1>1 DEF ServiceMoves, Promise!ServiceNext

LEMMA AlwaysAVerdict == \A r : VerdictOf(r) \in {"answered", "declined", "silent"}
BY DEF VerdictOf

\* A handler that goes on is seen to settle its message, to remember it, to forget
\* some, or not at all.
LEMMA FootprintSeen ==
    ASSUME BotTypes, PromiseInv, NEW m \in Msgs, Footprint(m), UNCHANGED transportVars
    PROVE  ServiceMoves
<1> USE DEF BotTypes, HandlerTypeOK, TransportTypeOK, transportVars, PromiseInv, Footprint
<1>1. /\ StatusOf(m) = "asked" /\ update[m] = "taken" /\ sending[m] = "idle"
      /\ KeptOf(m)' # {} /\ pc'[m] = "done" => reply'[m] = "answer"
  BY DEF StatusOf, TakenIsHandled, SentWhenDone, Answering
<1>2. \A o \in Msgs \ {m} : StatusOf(o)' = StatusOf(o)
  BY DEF StatusOf
<1>3. CASE pc'[m] = "done"
  <2>1. \A o \in Msgs : KeptOf(o)' = KeptOf(o)
    BY <1>3
  <2>2. UNCHANGED RememberedNow
    BY <2>1, RememberedStays
  <2>3. StatusOf(m)' = VerdictOf(reply'[m])
    BY <1>1, <1>3 DEF StatusOf
  <2>4. StatusNow' = [StatusNow EXCEPT ![m] = VerdictOf(reply'[m])]
    BY <1>2, <2>3, StatusMoves
  <2>5. KeptOf(m) # {} => VerdictOf(reply'[m]) = "answered"
    BY <1>1, <1>3, <2>1 DEF VerdictOf
  <2> QED
    BY <1>1, <2>2, <2>4, <2>5, AlwaysAVerdict, SeenSettling
<1>4. CASE pc'[m] # "done"
  <2>1. StatusOf(m)' = StatusOf(m)
    BY <1>1, <1>4 DEF StatusOf
  <2>2. UNCHANGED StatusNow
    <3>1. \A o \in Msgs : StatusOf(o)' = StatusOf(o)
      BY <1>2, <2>1
    <3> QED
      BY <3>1, StatusStays
  <2>3. CASE \A o \in Msgs : KeptOf(o)' \subseteq KeptOf(o)
    <3>1. RememberedNow' \subseteq RememberedNow
      BY <2>3 DEF RememberedNow
    <3> QED
      BY <2>2, <3>1, SeenForgetting
  <2>4. CASE KeptOf(m)' # {} /\ \A o \in Msgs \ {m} : KeptOf(o)' = KeptOf(o)
    <3>1. RememberedNow' = RememberedNow \cup {m}
      BY <2>4 DEF RememberedNow
    <3> QED
      BY <1>1, <2>2, <3>1, SeenRemembering
  <2> QED
    BY <2>3, <2>4
<1> QED
  BY <1>3, <1>4

LEMMA TakeSeen ==
    ASSUME BotTypes, PromiseInv, NEW m \in Msgs, TakeUpdate(m)
    PROVE  ServiceMoves
<1> USE DEF BotTypes, HandlerTypeOK, TransportTypeOK, PromiseInv
<1>1. /\ pc[m] = "new" /\ pc'[m] \in {"gate", "select", "decline", "done"}
      /\ pc' = [pc EXCEPT ![m] = pc'[m]]
      /\ reply' = [reply EXCEPT ![m] = reply'[m]]
      /\ UNCHANGED <<outcome, ltm>>
  BY ReceiveFootprint DEF TakeUpdate
<1>2. /\ update[m] = "queued" /\ update' = [update EXCEPT ![m] = "taken"]
      /\ UNCHANGED <<sending, copies>>
  BY DEF TakeUpdate, Take
<1>3. /\ StatusOf(m) = "unseen" /\ sending[m] = "idle" /\ KeptOf(m) = {}
      /\ UNCHANGED RememberedNow
  BY <1>1, <1>2, KeptStays, RememberedStays
     DEF StatusOf, SentWhenDone, KeptIsAnswered, Answering
<1>4. \A o \in Msgs \ {m} : StatusOf(o)' = StatusOf(o)
  BY <1>1, <1>2 DEF StatusOf
<1>5. CASE pc'[m] = "done"
  <2>1. StatusOf(m)' = VerdictOf(reply'[m])
    BY <1>2, <1>3, <1>5 DEF StatusOf
  <2>2. StatusNow' = [StatusNow EXCEPT ![m] = VerdictOf(reply'[m])]
    BY <1>4, <2>1, StatusMoves
  <2> QED
    BY <1>2, <1>3, <2>2, AlwaysAVerdict, SeenSettling
<1>6. CASE pc'[m] # "done"
  <2>1. StatusOf(m)' = "asked"
    BY <1>2, <1>3, <1>6 DEF StatusOf
  <2>2. StatusNow' = [StatusNow EXCEPT ![m] = "asked"]
    BY <1>4, <2>1, StatusMoves
  <2> QED
    BY <1>2, <1>3, <2>2, SeenTaking
<1> QED
  BY <1>5, <1>6

LEMMA SendSeen ==
    ASSUME BotTypes, PromiseInv, NEW m \in Msgs, Reply(m) \/ Deliver(m)
    PROVE  ServiceMoves
<1> USE DEF BotTypes, HandlerTypeOK, TransportTypeOK, PromiseInv, SendNext
<1>1. UNCHANGED <<pc, reply, ltm, update>>
  BY DEF Reply, Deliver, BeginSend, Send, vars, handlerVars, memVars
<1>2. UNCHANGED RememberedNow
  BY <1>1, KeptStays, RememberedStays
<1>3. /\ pc[m] = "done" /\ sending[m] # "over"
      /\ sending' = [sending EXCEPT ![m] = sending'[m]]
  BY DEF Reply, BeginSend, Deliver, Send, SentWhenDone, Forms
<1>4. StatusOf(m) = VerdictOf(reply[m])
  BY <1>3 DEF StatusOf, TakenIsHandled
<1>5. StatusOf(m)' = IF sending'[m] = "over" THEN "over" ELSE StatusOf(m)
  BY <1>1, <1>3, <1>4 DEF StatusOf, TakenIsHandled
<1>6. \A o \in Msgs \ {m} : StatusOf(o)' = StatusOf(o)
  BY <1>1, <1>3 DEF StatusOf
<1>7. CASE UNCHANGED copies
  <2>1. CASE sending'[m] = "over"
    BY <1>2, <1>4, <1>5, <1>6, <1>7, <2>1, StatusMoves, AlwaysAVerdict, SeenSending
  <2>2. CASE sending'[m] # "over"
    BY <1>2, <1>5, <1>6, <1>7, <2>2, StatusStays, SeenTheSame
  <2> QED
    BY <2>1, <2>2
<1>8. CASE ~ UNCHANGED copies
  <2>1. Deliver(m)
    BY <1>8 DEF Reply, BeginSend
  <2>2. copies' = [copies EXCEPT ![m] = @ + 1]
    BY <1>8, <2>1 DEF Deliver, Send
  <2>3. copies[m] < 2
    BY <2>1 DEF Deliver, Send, ShownBound, MayHaveShown, Forms
  <2>4. StatusOf(m) # "silent"
    BY <1>4, <2>1 DEF Deliver, Send, SentWhenDone, VerdictOf
  <2>5. UNCHANGED StatusNow \/ StatusNow' = [StatusNow EXCEPT ![m] = "over"]
    BY <1>5, <1>6, StatusStays, StatusMoves
  <2> QED
    BY <1>2, <1>4, <2>2, <2>3, <2>4, <2>5, AlwaysAVerdict, SeenSending
<1> QED
  BY <1>7, <1>8

\* Updates that were not taken are dropped.
LEMMA DropSeen ==
    ASSUME BotTypes, UNCHANGED <<vars, sending, copies>>,
           NEW M \in SUBSET Msgs, \A o \in M : update[o] = "queued",
           update' = [o \in Msgs |-> IF o \in M THEN "dropped" ELSE update[o]]
    PROVE  ServiceMoves
<1>1. UNCHANGED <<pc, reply, ltm, RememberedNow>>
  BY KeptStays, RememberedStays DEF vars, handlerVars, memVars
<1>2. \A o \in M : StatusOf(o) = "unseen" /\ StatusOf(o)' = "missed"
  BY DEF StatusOf
<1>3. \A o \in Msgs \ M : StatusOf(o)' = StatusOf(o)
  BY <1>1 DEF StatusOf
<1> QED
  BY <1>1, <1>2, <1>3, SeenMissing

LEMMA CrashSeen == ASSUME BotTypes, PromiseInv, Crash PROVE ServiceMoves
<1> USE DEF BotTypes, HandlerTypeOK, TransportTypeOK, PromiseInv
<1>1. /\ sending' = [o \in Msgs |-> IF update[o] = "taken" THEN "over" ELSE sending[o]]
      /\ UNCHANGED <<ltm, update, copies>>
  BY DEF Crash, Restart, MemRestart, TransportRestart
<1>2. UNCHANGED RememberedNow
  BY <1>1, KeptStays, RememberedStays
<1>3. ASSUME NEW o \in Msgs
      PROVE  StatusOf(o)' = IF StatusOf(o) \in {"asked", "answered", "declined", "silent"}
                            THEN "over" ELSE StatusOf(o)
  <2>1. CASE update[o] = "taken"
    BY <1>1, <2>1, AlwaysAVerdict DEF StatusOf
  <2>2. CASE update[o] # "taken"
    BY <1>1, <2>2 DEF StatusOf
  <2> QED
    BY <2>1, <2>2
<1> QED
  BY <1>1, <1>2, <1>3, SeenCrashing

\* Every step of the program is one of the service, or not seen.
LEMMA BotStepSeen ==
    ASSUME BotTypes, PromiseInv, [BotNext]_botVars
    PROVE  ServiceMoves
<1>1. ASSUME UNCHANGED <<pc, reply, ltm, update, sending, copies>> PROVE ServiceMoves
  <2>1. \A o \in Msgs : StatusOf(o)' = StatusOf(o)
    BY <1>1 DEF StatusOf
  <2> QED
    BY <1>1, <2>1, KeptStays, RememberedStays, StatusStays, SeenTheSame
<1>2. CASE Connecting \/ GiveUp \/ StartAgain \/ AllSaid \/ BotPassesTime \/ UNCHANGED botVars
  BY <1>1, <1>2 DEF Connecting, GiveUp, StartAgain, AllSaid, BotPassesTime, PassTime, botVars,
     vars, handlerVars, memVars, transportVars
<1>3. CASE StartServing
  <2>1. CASE UNCHANGED update
    BY <1>1, <1>3, <2>1 DEF StartServing, DropBacklog, vars, handlerVars, memVars
  <2>2. CASE ~ UNCHANGED update
    <3> DEFINE M == {o \in Msgs : update[o] = "queued"}
    <3>1. update' = [o \in Msgs |-> IF o \in M THEN "dropped" ELSE update[o]]
      BY <1>3, <2>2 DEF StartServing, DropBacklog
    <3>2. UNCHANGED <<vars, sending, copies>> /\ M \in SUBSET Msgs
      BY <1>3 DEF StartServing, DropBacklog
    <3>3. \A o \in M : update[o] = "queued"
      OBVIOUS
    <3> HIDE DEF M
    <3> QED
      BY <3>1, <3>2, <3>3, DropSeen
  <2> QED
    BY <2>1, <2>2
<1>4. ASSUME NEW m \in Msgs, UserPosts(m) PROVE ServiceMoves
  <2>1. \A o \in Msgs : StatusOf(o)' = StatusOf(o)
    BY <1>4 DEF UserPosts, Post, StatusOf, vars, handlerVars, BotTypes, TransportTypeOK
  <2>2. UNCHANGED <<ltm, copies>>
    BY <1>4 DEF UserPosts, Post, vars, memVars
  <2> QED
    BY <2>1, <2>2, KeptStays, RememberedStays, StatusStays, SeenTheSame
<1>5. ASSUME NEW m \in Msgs, IgnoreUpdate(m) PROVE ServiceMoves
  <2> DEFINE M == {m}
  <2>1. /\ UNCHANGED <<vars, sending, copies>> /\ \A o \in M : update[o] = "queued"
        /\ update' = [o \in Msgs |-> IF o \in M THEN "dropped" ELSE update[o]]
    BY <1>5 DEF IgnoreUpdate, Drop, BotTypes, TransportTypeOK
  <2>2. M \in SUBSET Msgs
    OBVIOUS
  <2> HIDE DEF M
  <2> QED
    BY <2>1, <2>2, DropSeen
<1>6. ASSUME NEW m \in Msgs, TakeUpdate(m) PROVE ServiceMoves
  BY <1>6, TakeSeen
<1>7. ASSUME NEW m \in Msgs, HandlerStep(m) \/ EngineAnswers(m) PROVE ServiceMoves
  <2>1. Proceed(m) /\ UNCHANGED transportVars
    BY <1>7, EngineOutcomes DEF HandlerStep, EngineAnswers, Proceed
  <2>2. Footprint(m)
    BY <2>1, ProceedFootprint DEF BotTypes, PromiseInv
  <2> QED
    BY <2>1, <2>2, FootprintSeen
<1>8. ASSUME NEW m \in Msgs, AskEngine(m) \/ EngineMoves(m) PROVE ServiceMoves
  BY <1>1, <1>8 DEF AskEngine, EngineMoves, vars, handlerVars, memVars, transportVars
<1>9. ASSUME NEW m \in Msgs, Reply(m) \/ Deliver(m) PROVE ServiceMoves
  BY <1>9, SendSeen
<1>10. CASE Crash
  BY <1>10, CrashSeen
<1> QED
  BY <1>2, <1>3, <1>4, <1>5, <1>6, <1>7, <1>8, <1>9, <1>10 DEF BotNext

LEMMA BotTypesHold == BotSpec => []BotTypes
<1>1. BotSpec => []TransportTypeOK
  BY BotInitPromise, TransportTypes, PTL DEF BotSpec, BotTypes
<1> QED
  BY <1>1, BotImplementsHandler, HandlerTypeCorrect, PTL DEF BotTypes, TypeOK

LEMMA PromiseInvHolds == BotSpec => []PromiseInv
BY BotTypesHold, BotInitPromise, BotStepPromise, PTL DEF BotSpec

LEMMA BotInitSeen == BotInit => Promise!ServiceInit
<1> SUFFICES ASSUME BotInit PROVE Promise!ServiceInit
  OBVIOUS
<1>1. \A m \in Msgs : KeptOf(m) = {} /\ update[m] = "unsent"
  BY DEF BotInit, Init, MemInit, KeptOf, TransportInit
<1>2. \A m \in Msgs : StatusOf(m) = "unseen"
  BY <1>1 DEF StatusOf
<1> QED
  BY <1>1, <1>2 DEF Promise!ServiceInit, BotInit, TransportInit

\* The program keeps the safety part of KeepsPromise (module Service): one verdict per
\* message, a reply shown at most twice, nothing remembered but answers; for any users,
\* servers and limits, and whatever the model, the tools, the sends and the operator do.
THEOREM PromiseKept == BotSpec => Promise!ServiceRuns
<1>1. BotTypes /\ PromiseInv /\ [BotNext]_botVars => [Promise!ServiceNext]_(Promise!serviceVars)
  BY BotStepSeen DEF ServiceMoves
<1> QED
  BY <1>1, BotTypesHold, PromiseInvHolds, BotInitSeen, PTL DEF BotSpec, Promise!ServiceRuns

-----------------------------------------------------------------------------
(* Tools and material *)

\* Every registered tool is served by a server it is permitted of, also when a start
\* has failed and the routes are left.
RoutesPermitted == \A t \in DOMAIN routes : Permits(routes[t], t)

\* The engine and the handlers run only while the program serves, all servers connected;
\* one that is down holds no session.
LifeInOrder ==
    /\ life = "serving" => Connected
    /\ life = "down" => sessions = 0 /\ ~dialed
    /\ \A m \in Msgs : run[m] # "idle" \/ pc[m] \notin {"new", "done"} => life = "serving"

RunTypes ==
    /\ run \in [Msgs -> {"idle", "retrieve"} \cup InRun \cup Ended]
    /\ DOMAIN material = Msgs

ToolInv == ToolTypeOK /\ RunTypes /\ RoutesPermitted /\ LifeInOrder /\ NeverAskedBare

LEMMA ToolInvInit == BotInit => ToolInv
<1> SUFFICES ASSUME BotInit PROVE ToolInv
  OBVIOUS
<1>1. ToolTypeOK /\ RoutesPermitted
  <2>1. sessions = 0 /\ dialed = FALSE /\ DOMAIN routes = {}
    BY DEF BotInit, ToolInit, NoRoutes
  <2>2. Len(Servers) \in Nat
    BY ToolsetAssumption
  <2>3. sessions \in 0..Len(Servers)
    BY <2>1, <2>2
  <2>4. dialed \in BOOLEAN
    BY <2>1, Zenon
  <2> QED
    BY <2>1, <2>3, <2>4 DEF ToolTypeOK, RoutesPermitted
<1>2. RunTypes /\ LifeInOrder /\ NeverAskedBare
  BY DEF BotInit, EngineInit, RunTypes, LifeInOrder, NeverAskedBare, Init, InRun
<1> QED
  BY <1>1, <1>2 DEF ToolInv

\* The list of one server is registered.
LEMMA ListPermits ==
    ASSUME ToolInv, ~Connected, NEW advertised, List(advertised)
    PROVE  ToolTypeOK' /\ RoutesPermitted'
<1> USE DEF ToolInv, ToolTypeOK
<1>1. sessions + 1 \in 1..Len(Servers) /\ Current \in Hosts
  BY ToolsetAssumption DEF Connected, Current, Hosts
<1> DEFINE tools == {t \in advertised : Permits(Current, t)}
<1>2. advertised \subseteq Names
  BY <1>1, ToolsetAssumption DEF List
<1>3. /\ DOMAIN routes' = DOMAIN routes \cup tools
      /\ \A t \in DOMAIN routes' : routes'[t] = IF t \in tools THEN Current ELSE routes[t]
      /\ sessions' = sessions + 1 /\ dialed' = FALSE
  BY DEF List, Routed
<1>5. (\A t \in tools : Permits(Current, t)) /\ tools \subseteq advertised
  OBVIOUS
<1> HIDE DEF tools
<1>4. ToolTypeOK'
  <2>1. sessions' \in 0..Len(Servers)
    BY <1>1, <1>3, ToolsetAssumption
  <2>2. DOMAIN routes' \subseteq Names /\ \A t \in DOMAIN routes' : routes'[t] \in Hosts
    BY <1>1, <1>2, <1>3, <1>5
  <2> QED
    BY <1>3, <2>1, <2>2
<1>6. RoutesPermitted'
  BY <1>3, <1>5 DEF RoutesPermitted, Permits
<1> QED
  BY <1>4, <1>6

\* Where the registry does not change, nothing of it changes.
LEMMA ToolsStay ==
    UNCHANGED toolVars => /\ ToolTypeOK' = ToolTypeOK /\ RoutesPermitted' = RoutesPermitted
                          /\ Connected' = Connected /\ Definitions' = Definitions
BY DEF toolVars, ToolTypeOK, RoutesPermitted, Permits, Connected, Definitions

LEMMA EngineMovesInv ==
    ASSUME ToolInv, NEW m \in Msgs, EngineMoves(m)
    PROVE  ToolInv'
<1> USE DEF ToolInv, RunTypes
<1>1. /\ ToolTypeOK' /\ RoutesPermitted' /\ Connected' = Connected /\ Definitions' = Definitions
      /\ UNCHANGED <<pc, life, sessions, dialed>>
  BY ToolsStay DEF EngineMoves, toolVars, vars, handlerVars
<1>2. /\ run[m] # "idle"
      /\ run' = [run EXCEPT ![m] = run'[m]]
      /\ run'[m] \in InRun \cup Ended
      /\ UNCHANGED follows /\ DOMAIN material' = DOMAIN material
  BY DEF EngineMoves, EngineStep, RetrieveFails, Retrieve, CallModel, ModelFails, ModelReplies,
     ModelAsks, ToolReturns, Deadline, Bounded, Move, InRun, Ended
<1>3. LifeInOrder'
  BY <1>1, <1>2 DEF LifeInOrder
<1>4. NeverAskedBare'
  <2>1. CASE \E sizes \in Findings : Retrieve(m, sizes)
    <3>1. PICK sizes \in Findings : Retrieve(m, sizes)
      BY <2>1
    <3>2. run'[m] \in InRun => Capped(sizes) # 0 \/ Definitions # {} \/ follows[m]
      BY <1>2, <3>1 DEF Retrieve, Nothing, Move, InRun
    <3>3. material' = [material EXCEPT ![m] = Capped(sizes)]
      BY <3>1 DEF Retrieve
    <3> QED
      BY <1>1, <1>2, <3>2, <3>3 DEF NeverAskedBare
  <2>2. CASE ~ \E sizes \in Findings : Retrieve(m, sizes)
    <3>1. UNCHANGED material /\ (run'[m] \in InRun => run[m] \in InRun)
      BY <2>2 DEF EngineMoves, EngineStep, RetrieveFails, CallModel, ModelFails, ModelReplies,
         ModelAsks, ToolReturns, Deadline, Bounded, Move, InRun
    <3> QED
      BY <1>1, <1>2, <3>1 DEF NeverAskedBare
  <2> QED
    BY <2>1, <2>2
<1>5. RunTypes'
  BY <1>2
<1> QED
  BY <1>1, <1>3, <1>4, <1>5

\* Starting and stopping, where no message is under way.
LEMMA LifeMovesInv ==
    ASSUME ToolInv, BotTypes, Connecting \/ GiveUp \/ StartServing \/ StartAgain \/ Crash
    PROVE  ToolInv'
<1> USE DEF ToolInv, BotTypes
<1>0. Len(Servers) \in Nat
  BY ToolsetAssumption
<1>1. CASE Crash
  <2>1. /\ run' = [m \in Msgs |-> "idle"] /\ DOMAIN material' = Msgs
        /\ \A m \in Msgs : pc'[m] \in {"new", "done"}
        /\ sessions' = 0 /\ dialed' = FALSE /\ DOMAIN routes' = {} /\ life' = "down"
    BY <1>1 DEF Crash, Restart, EngineRestart, ToolRestart, NoRoutes
  <2>2. ToolTypeOK'
    <3>1. sessions' \in 0..Len(Servers)
      BY <1>0, <2>1
    <3>2. dialed' \in BOOLEAN
      BY <2>1, Zenon
    <3> QED
      BY <2>1, <3>1, <3>2 DEF ToolTypeOK
  <2>3. RunTypes' /\ RoutesPermitted' /\ LifeInOrder' /\ NeverAskedBare'
    BY <2>1 DEF RunTypes, RoutesPermitted, LifeInOrder, NeverAskedBare, InRun
  <2> QED
    BY <2>2, <2>3
<1>2. ASSUME UNCHANGED <<vars, engineVars>>, life # "serving", ToolTypeOK', RoutesPermitted',
             life' = "serving" => Connected', life' = "down" => sessions' = 0 /\ ~dialed'
      PROVE  ToolInv'
  <2>1. UNCHANGED <<run, pc, material>>
    BY <1>2 DEF vars, handlerVars, engineVars
  <2>2. \A m \in Msgs : run[m] = "idle" /\ pc[m] \in {"new", "done"}
    BY <1>2 DEF LifeInOrder
  <2> QED
    BY <1>2, <2>1, <2>2 DEF RunTypes, LifeInOrder, NeverAskedBare, InRun
<1>3. CASE Connecting
  <2>1. ToolTypeOK' /\ RoutesPermitted'
    <3>1. CASE Dial
      <4>1. UNCHANGED <<sessions, routes>> /\ dialed' = TRUE
        BY <3>1 DEF Dial
      <4>2. dialed' \in BOOLEAN
        BY <4>1, Zenon
      <4> QED
        BY <4>1, <4>2 DEF ToolTypeOK, RoutesPermitted, Permits
    <3>2. CASE ~Connected /\ \E advertised \in Advertises[Current] : List(advertised)
      BY <3>2, ListPermits
    <3> QED
      BY <1>3, <3>1, <3>2 DEF Connecting
  <2>2. UNCHANGED <<vars, engineVars, life>> /\ life = "connecting"
    BY <1>3 DEF Connecting
  <2> QED
    BY <1>2, <2>1, <2>2
<1>4. CASE GiveUp
  <2>1. /\ UNCHANGED <<vars, engineVars, routes>> /\ life = "connecting" /\ life' = "down"
        /\ sessions' = 0 /\ dialed' = FALSE
    BY <1>4 DEF GiveUp, ConnectFails
  <2>2. sessions' \in 0..Len(Servers)
    BY <1>0, <2>1
  <2>3. dialed' \in BOOLEAN
    BY <2>1, Zenon
  <2>4. ToolTypeOK' /\ RoutesPermitted'
    BY <2>1, <2>2, <2>3 DEF ToolTypeOK, RoutesPermitted, Permits
  <2> QED
    BY <1>2, <2>1, <2>4
<1>5. CASE StartServing
  <2>1. /\ UNCHANGED <<vars, engineVars, toolVars>> /\ life = "connecting" /\ life' = "serving"
        /\ Connected
    BY <1>5 DEF StartServing
  <2> QED
    BY <1>2, <2>1, ToolsStay
<1>6. CASE StartAgain
  <2>1. /\ UNCHANGED <<vars, engineVars>> /\ life = "down" /\ life' = "connecting"
        /\ sessions' = 0 /\ dialed' = FALSE /\ DOMAIN routes' = {}
    BY <1>6 DEF StartAgain, ToolRestart, NoRoutes
  <2>2. sessions' \in 0..Len(Servers)
    BY <1>0, <2>1
  <2>3. dialed' \in BOOLEAN
    BY <2>1, Zenon
  <2>4. ToolTypeOK' /\ RoutesPermitted'
    BY <2>1, <2>2, <2>3 DEF ToolTypeOK, RoutesPermitted
  <2> QED
    BY <1>2, <2>1, <2>4
<1> QED
  BY <1>1, <1>3, <1>4, <1>5, <1>6

\* Handlers and sends; the registry stays.
LEMMA ServingInv ==
    ASSUME ToolInv, UNCHANGED <<toolVars, life>>, RunTypes',
           \A m \in Msgs : run'[m] # "idle" \/ pc'[m] \notin {"new", "done"} => life = "serving",
           \A m \in Msgs : run'[m] \in InRun =>
               run[m] \in InRun /\ material'[m] = material[m] /\ follows'[m] = follows[m]
    PROVE  ToolInv'
<1>1. /\ ToolTypeOK' /\ RoutesPermitted' /\ Connected' = Connected /\ Definitions' = Definitions
      /\ UNCHANGED <<sessions, dialed, life>>
  BY ToolsStay DEF ToolInv, toolVars
<1>2. LifeInOrder'
  BY <1>1 DEF ToolInv, LifeInOrder
<1>3. NeverAskedBare'
  BY <1>1 DEF ToolInv, NeverAskedBare
<1> QED
  BY <1>1, <1>2, <1>3 DEF ToolInv

LEMMA ToolInvStep ==
    ASSUME ToolInv, BotTypes, PromiseInv, [BotNext]_botVars
    PROVE  ToolInv'
<1> USE DEF ToolInv, BotTypes, HandlerTypeOK, RunTypes, LifeInOrder
<1>1. CASE Connecting \/ GiveUp \/ StartServing \/ StartAgain \/ Crash
  BY <1>1, LifeMovesInv
<1>2. ASSUME UNCHANGED <<run, material, follows, pc, toolVars, life>> PROVE ToolInv'
  BY <1>2, ServingInv
<1>3. CASE AllSaid \/ BotPassesTime \/ UNCHANGED botVars
  BY <1>2, <1>3 DEF AllSaid, BotPassesTime, PassTime, botVars, vars, handlerVars, engineVars
<1>4. ASSUME NEW m \in Msgs, UserPosts(m) \/ IgnoreUpdate(m) \/ Reply(m) \/ Deliver(m)
      PROVE  ToolInv'
  BY <1>2, <1>4 DEF UserPosts, IgnoreUpdate, Reply, Deliver, vars, handlerVars, engineVars
<1>5. ASSUME NEW m \in Msgs, TakeUpdate(m) PROVE ToolInv'
  <2>1. /\ pc' = [pc EXCEPT ![m] = pc'[m]] /\ life = "serving"
        /\ UNCHANGED <<run, material, follows, toolVars, life>>
    BY <1>5, ReceiveFootprint DEF TakeUpdate, engineVars
  <2> QED
    BY <2>1, ServingInv
<1>6. ASSUME NEW m \in Msgs, HandlerStep(m) \/ EngineAnswers(m) PROVE ToolInv'
  <2>1. Proceed(m) /\ UNCHANGED <<toolVars, life>>
    BY <1>6, EngineOutcomes DEF HandlerStep, EngineAnswers, Proceed
  <2>2. pc[m] \notin {"new", "done"} /\ pc' = [pc EXCEPT ![m] = pc'[m]]
    BY <2>1, ProceedFootprint DEF PromiseInv, Footprint
  <2>3. CASE HandlerStep(m)
    BY <2>1, <2>2, <2>3, ServingInv DEF HandlerStep, engineVars
  <2>4. CASE EngineAnswers(m)
    <3>1. /\ run' = [run EXCEPT ![m] = "idle"] /\ DOMAIN material' = DOMAIN material
          /\ \A o \in Msgs : o # m => material'[o] = material[o] /\ follows'[o] = follows[o]
      BY <2>4 DEF EngineAnswers, AnswerReturns, Move
    <3>2. RunTypes'
      BY <3>1
    <3>3. \A o \in Msgs : run'[o] \in InRun =>
             run[o] \in InRun /\ material'[o] = material[o] /\ follows'[o] = follows[o]
      BY <3>1 DEF InRun
    <3>4. \A o \in Msgs : run'[o] # "idle" \/ pc'[o] \notin {"new", "done"} => life = "serving"
      BY <2>2, <3>1
    <3> QED
      BY <2>1, <3>2, <3>3, <3>4, ServingInv
  <2> QED
    BY <1>6, <2>3, <2>4
<1>7. ASSUME NEW m \in Msgs, AskEngine(m) PROVE ToolInv'
  <2>1. /\ pc[m] = "engine" /\ UNCHANGED <<pc, toolVars, life, material>>
        /\ run' = [run EXCEPT ![m] = "retrieve"]
        /\ \A o \in Msgs : o # m => follows'[o] = follows[o]
    BY <1>7 DEF AskEngine, StartAnswer, Move, vars, handlerVars
  <2>2. RunTypes'
    BY <2>1
  <2>3. \A o \in Msgs : run'[o] \in InRun =>
           run[o] \in InRun /\ material'[o] = material[o] /\ follows'[o] = follows[o]
    BY <2>1 DEF InRun
  <2>4. \A o \in Msgs : run'[o] # "idle" \/ pc'[o] \notin {"new", "done"} => life = "serving"
    BY <2>1
  <2> QED
    BY <2>1, <2>2, <2>3, <2>4, ServingInv
<1>8. ASSUME NEW m \in Msgs, EngineMoves(m) PROVE ToolInv'
  BY <1>8, EngineMovesInv
<1> QED
  BY <1>1, <1>3, <1>4, <1>5, <1>6, <1>7, <1>8 DEF BotNext

LEMMA ToolInvHolds == BotSpec => []ToolInv
BY BotTypesHold, PromiseInvHolds, ToolInvInit, ToolInvStep, PTL DEF BotSpec

\* A call that reaches a server reaches one that is connected and that the operator
\* lets serve the tool, for any servers and lists and whatever each advertises
\* (Registry.Connect, ServerConfig.permits).
THEOREM OnlyPermittedCalls == BotSpec => []ToolCallsPermitted
<1>1. ToolInv => ToolCallsPermitted
  <2> SUFFICES ASSUME ToolInv, NEW m \in Msgs, run[m] = "tool", asked[m] \in Definitions \ OwnTools
               PROVE  LET s == RoutedTo(asked[m])
                      IN  /\ life = "serving" /\ Connected
                          /\ asked[m] \in Allow[s] \/ (Allow[s] = {} /\ asked[m] \notin Deny[s])
    BY DEF ToolCallsPermitted
  <2>1. life = "serving" /\ Connected
    BY DEF ToolInv, LifeInOrder
  <2>2. RoutedTo(asked[m]) = routes[asked[m]] /\ asked[m] \in DOMAIN routes
    BY DEF RoutedTo, Definitions
  <2> QED
    BY <2>1, <2>2 DEF ToolInv, RoutesPermitted, Permits
<1> QED
  BY <1>1, ToolInvHolds, PTL

\* The model is never asked with nothing to answer from, whatever the cap takes away
\* (Engine.Answer).
THEOREM NotAskedBare == BotSpec => []NeverAskedBare
BY ToolInvHolds, PTL DEF ToolInv

\* A start that fails and a process that ends leave no session open
\* (Registry.Connect, Registry.Close).
THEOREM SessionsClosed == BotSpec => []NoSessionLeft
<1>1. ToolInv => NoSessionLeft
  BY DEF ToolInv, LifeInOrder, NoSessionLeft
<1> QED
  BY <1>1, ToolInvHolds, PTL

-----------------------------------------------------------------------------
(* Types *)

\* A set of numbers with a bound has a largest one.
LEMMA LargestNumber ==
    ASSUME NEW n \in Nat, NEW S \in SUBSET 0..n, S # {}
    PROVE  \E k \in S : \A j \in S : j <= k
<1> DEFINE B == {b \in Nat : \A j \in S : j <= b}
<1>1. n \in B
  OBVIOUS
<1>2. PICK k \in B : \A b \in B : k <= b
  <2>1. B \in SUBSET Nat /\ B # {}
    BY <1>1
  <2> HIDE DEF B
  <2> QED
    BY <2>1, LeastNumber
<1>3. k \in S
  <2> SUFFICES ASSUME k \notin S PROVE FALSE
    OBVIOUS
  <2>1. k # 0
    <3>1. PICK j \in S : TRUE
      OBVIOUS
    <3> QED
      BY <1>2, <3>1
  <2>2. k - 1 \in B
    <3>1. k - 1 \in Nat
      BY <2>1
    <3>2. ASSUME NEW j \in S PROVE j <= k - 1
      BY <1>2
    <3> QED
      BY <3>1, <3>2
  <2> QED
    BY <1>2, <2>2
<1> QED
  BY <1>2, <1>3

\* The cap keeps some of the chunks.
LEMMA CappedIsCount ==
    ASSUME NEW sizes \in Seq(Nat)
    PROVE  Capped(sizes) \in 0..Len(sizes)
<1>1. Len(sizes) \in Nat /\ Fitting(sizes) \in SUBSET 0..Len(sizes) /\ Fitting(sizes) # {}
  BY DEF Fitting
<1>2. \E k \in Fitting(sizes) : \A j \in Fitting(sizes) : j <= k
  BY <1>1, LargestNumber
<1>3. Capped(sizes) \in Fitting(sizes)
  BY <1>2 DEF Capped
<1> QED
  BY <1>1, <1>3

\* A run that may call the model again has calls left; one that has not begun its loop
\* has made none.
StepsLeft == \A m \in Msgs :
    /\ run[m] \in {"idle", "retrieve"} => steps[m] = 0
    /\ run[m] = "ready" => steps[m] < MaxSteps

EngineInv == EngineTypeOK /\ StepsLeft

\* The process begins, and ends, with no run under way.
LEMMA NoRunInv ==
    ASSUME EngineInit \/ EngineRestart
    PROVE  /\ EngineInit => EngineInv
           /\ EngineRestart => EngineInv'
<1>1. 0 \in 0..MaxSteps /\ 0 < MaxSteps /\ 0 \in Nat
  BY EngineAssumption
<1>2. ASSUME EngineInit PROVE EngineInv
  BY <1>1, <1>2 DEF EngineInit, EngineInv, EngineTypeOK, StepsLeft
<1>3. ASSUME EngineRestart PROVE EngineInv'
  BY <1>1, <1>3 DEF EngineRestart, EngineInv, EngineTypeOK, StepsLeft
<1> QED
  BY <1>2, <1>3

LEMMA EngineStepInv ==
    ASSUME EngineInv, NEW m \in Msgs, EngineStep(m)
    PROVE  EngineInv'
<1> USE DEF EngineInv, EngineTypeOK, StepsLeft, Move
<1>0. /\ MaxSteps \in Nat /\ steps[m] \in 0..MaxSteps
      /\ \A o \in Msgs : steps[o] \in 0..MaxSteps
  BY EngineAssumption
<1>1. CASE RetrieveFails(m) \/ ModelFails(m)
  BY <1>1 DEF RetrieveFails, ModelFails, Ended
<1>2. ASSUME NEW sizes \in Findings, Retrieve(m, sizes) PROVE EngineInv'
  <2>1. Capped(sizes) \in Nat
    BY EngineAssumption, CappedIsCount
  <2>2. run[m] = "retrieve" /\ steps[m] = 0 /\ 0 < MaxSteps
    BY <1>2, EngineAssumption DEF Retrieve
  <2>3. /\ \/ run' = [run EXCEPT ![m] = "refused"] \/ run' = [run EXCEPT ![m] = "ready"]
        /\ material' = [material EXCEPT ![m] = Capped(sizes)]
        /\ UNCHANGED <<steps, follows, asked>>
    BY <1>2 DEF Retrieve
  <2> QED
    BY <2>1, <2>2, <2>3 DEF InRun, Ended
<1>3. CASE CallModel(m)
  <2>1. run[m] = "ready" /\ steps[m] < MaxSteps /\ UNCHANGED <<follows, asked, material>>
    BY <1>3 DEF CallModel
  <2>2. CASE run' = [run EXCEPT ![m] = "model"] /\ steps' = [steps EXCEPT ![m] = @ + 1]
    <3>1. steps[m] + 1 \in 0..MaxSteps
      BY <1>0, <2>1
    <3> QED
      BY <2>1, <2>2, <3>1 DEF InRun
  <2>3. CASE run' = [run EXCEPT ![m] = "capacity"] /\ UNCHANGED steps
    BY <2>1, <2>3 DEF Ended
  <2> QED
    BY <1>3, <2>2, <2>3 DEF CallModel
<1>4. CASE ModelReplies(m)
  BY <1>4 DEF ModelReplies, Ended
<1>5. ASSUME NEW t \in Names, ModelAsks(m, t) PROVE EngineInv'
  BY <1>5 DEF ModelAsks, InRun, Ended
<1>6. CASE ToolReturns(m)
  <2>1. \/ run' = [run EXCEPT ![m] = "refused"]
        \/ steps[m] # MaxSteps /\ run' = [run EXCEPT ![m] = "ready"]
    BY <1>6 DEF ToolReturns, LastStep
  <2>2. steps[m] # MaxSteps => steps[m] < MaxSteps
    BY <1>0
  <2> QED
    BY <1>6, <2>1, <2>2 DEF ToolReturns, InRun, Ended
<1>7. CASE Deadline(m)
  BY <1>7 DEF Deadline, Ended
<1> QED
  BY <1>1, <1>2, <1>3, <1>4, <1>5, <1>6, <1>7 DEF EngineStep

LEMMA BotEngineStep ==
    ASSUME EngineInv, [BotNext]_botVars
    PROVE  EngineInv'
<1>1. ASSUME UNCHANGED engineVars PROVE EngineInv'
  BY <1>1 DEF EngineInv, EngineTypeOK, StepsLeft, engineVars
<1>2. CASE \/ Connecting \/ GiveUp \/ StartServing \/ StartAgain \/ BotPassesTime \/ AllSaid
           \/ UNCHANGED botVars
  BY <1>1, <1>2 DEF Connecting, GiveUp, StartServing, StartAgain, BotPassesTime, AllSaid, botVars
<1>3. ASSUME NEW m \in Msgs,
             \/ UserPosts(m) \/ IgnoreUpdate(m) \/ TakeUpdate(m) \/ HandlerStep(m)
             \/ Reply(m) \/ Deliver(m)
      PROVE  EngineInv'
  BY <1>1, <1>3 DEF UserPosts, IgnoreUpdate, TakeUpdate, HandlerStep, Reply, Deliver
<1>4. ASSUME NEW m \in Msgs, AskEngine(m) PROVE EngineInv'
  BY <1>4 DEF AskEngine, StartAnswer, Move, EngineInv, EngineTypeOK, StepsLeft
<1>5. ASSUME NEW m \in Msgs, EngineMoves(m) PROVE EngineInv'
  BY <1>5, EngineStepInv DEF EngineMoves
<1>6. ASSUME NEW m \in Msgs, EngineAnswers(m) PROVE EngineInv'
  <2>1. 0 \in 0..MaxSteps /\ 0 \in Nat
    BY EngineAssumption
  <2> QED
    BY <1>6, <2>1 DEF EngineAnswers, AnswerReturns, Move, EngineInv, EngineTypeOK, StepsLeft
<1>7. CASE Crash
  BY <1>7, NoRunInv DEF Crash
<1> QED
  BY <1>2, <1>3, <1>4, <1>5, <1>6, <1>7 DEF BotNext

LifeTypeOK == life \in {"connecting", "serving", "down"}

LEMMA LifeStep == LifeTypeOK /\ [BotNext]_botVars => LifeTypeOK'
BY DEF LifeTypeOK, BotNext, Connecting, GiveUp, StartServing, StartAgain, UserPosts, IgnoreUpdate,
   TakeUpdate, HandlerStep, AskEngine, EngineMoves, EngineAnswers, Reply, Deliver, Crash,
   BotPassesTime, AllSaid, botVars

\* The types of the whole program; no question is asked of the model more than MaxSteps
\* times, whatever the model and the tools say (ReasonStepLimit).
THEOREM BotTypeCorrect == BotSpec => []BotTypeOK
<1>1. BotInit => EngineInv /\ LifeTypeOK
  BY NoRunInv DEF BotInit, LifeTypeOK
<1>2. BotSpec => []EngineInv
  BY <1>1, BotEngineStep, PTL DEF BotSpec
<1>3. BotSpec => []LifeTypeOK
  BY <1>1, LifeStep, PTL DEF BotSpec
<1>4. BotSpec => []TypeOK
  BY BotImplementsHandler, HandlerTypeCorrect, PTL
<1>5. /\ EngineInv /\ LifeTypeOK /\ TypeOK /\ ToolInv /\ BotTypes => BotTypeOK
  BY DEF EngineInv, LifeTypeOK, ToolInv, BotTypes, BotTypeOK
<1> QED
  BY <1>2, <1>3, <1>4, <1>5, ToolInvHolds, BotTypesHold, PTL

\* In the whole program, crashes and restarts included, an undecided user is nudged once
\* per cooldown, and no stretch of one window serves a user more than twice the largest
\* allowance, overlapping Checks of that user excepted.
THEOREM BotGateHolds == BotSpec => NudgeOncePerCooldown /\ []RateBound
<1>1. BotSpec => GateSpec
  BY BotImplementsHandler, HandlerImplements, PTL
<1> QED
  BY <1>1, NudgedOncePerCooldown, RateLimited, PTL
=============================================================================
