---------------------------- MODULE Gate_proofs ----------------------------
(***************************************************************************)
(* Proofs about the consent gate, for any number of users and messages,    *)
(* although Check writes back a record that may be stale: consent is never *)
(* inferred, nobody who has answered is nudged, others are nudged once per *)
(* cooldown, and the rate limit holds over windows, tiers and restarts.    *)
(***************************************************************************)
EXTENDS Gate, TLAPS, WellFoundedInduction

\* Neither property is inductive: both rest on what the records may hold that a
\* Check has read and may still write back.  Only a granted record is written back,
\* so the write can restore an old "granted" but never invent one, and it never
\* takes a record back to "unknown".
CopiesAreGranted ==
    \A m \in Msgs : call[m].stage = "rate" =>
        call[m].rec.consent = "granted" /\ Sender[m] \in optedIn

\* A user who has answered has a record that says so, though maybe the wrong way.
AnswersStay ==
    \A u \in Users : wanted[u].consent # "unknown" => store[u].consent # "unknown"

\* A Check is about to nudge only a user who had not answered when it read them.
NudgesUnanswered == \A m \in Msgs : call[m].stage = "nudge" => ~call[m].answered

GateInv ==
    /\ GateTypeOK
    /\ ConsentNeverInferred
    /\ CopiesAreGranted
    /\ AnswersStay
    /\ NudgesUnanswered
    /\ NeverNudgedOnceAnswered

CallType == [stage: {"idle", "nudge", "rate", "done"}, rec: Record,
             decision: Decisions, answered: BOOLEAN]

-----------------------------------------------------------------------------
(* The operators the gate is built from *)

LEMMA RecType ==
    ASSUME NEW t \in TierNames \cup {NoTier}, NEW c \in Consents, NEW n \in Nat,
           NEW start \in Times
    PROVE  Rec(t, c, n, start) \in Record
BY DEF Rec, Record

LEMMA CountedType ==
    ASSUME NEW rec \in Record
    PROVE  Rec(rec.tier, rec.consent, rec.count + 1, rec.start) \in Record
<1>1. /\ rec.tier \in TierNames \cup {NoTier} /\ rec.consent \in Consents
      /\ rec.count + 1 \in Nat /\ rec.start \in Times
  BY DEF Record
<1> QED
  BY <1>1, RecType

LEMMA ClockInTimes == GateTypeOK => clock \in Times /\ 0 \in Times
BY GateAssumption DEF GateTypeOK, Times

LEMMA ZeroType == ZeroRecord \in Record
<1>1. 0 \in Times /\ 0 \in Nat /\ NoTier \in TierNames \cup {NoTier} /\ "unknown" \in Consents
  BY GateAssumption DEF Times, Consents
<1> QED
  BY <1>1, RecType DEF ZeroRecord

\* Renewing the window keeps the tier and the consent.
LEMMA WindowedKeeps ==
    ASSUME GateTypeOK, NEW rec \in Record
    PROVE  /\ Windowed(rec) \in Record
           /\ Windowed(rec).tier = rec.tier
           /\ Windowed(rec).consent = rec.consent
BY ClockInTimes DEF Windowed, Rec, Record

\* The outcome of a read, by the consent read.
LEMMA AfterGetCases ==
    ASSUME NEW rec \in Record, NEW directed \in BOOLEAN
    PROVE  /\ AfterGet(rec, directed).stage \in {"nudge", "rate", "done"}
           /\ AfterGet(rec, directed).decision \in {"silent", "logonly"}
           /\ AfterGet(rec, directed).stage = "rate" => rec.consent = "granted"
           /\ AfterGet(rec, directed).stage = "nudge" => rec.consent = "unknown"
           /\ AfterGet(rec, directed).decision = "logonly" => rec.consent = "granted"
<1>1. \/ AfterGet(rec, directed) = Unsettled("rate") /\ rec.consent = "granted"
      \/ AfterGet(rec, directed) = Settled("logonly") /\ rec.consent = "granted"
      \/ AfterGet(rec, directed) = Unsettled("nudge") /\ rec.consent = "unknown"
      \/ AfterGet(rec, directed) = Settled("silent")
  <2>1. CASE rec.consent = "granted" /\ directed
    BY <2>1, Zenon DEF AfterGet
  <2>2. CASE rec.consent = "granted" /\ ~directed
    BY <2>2, Zenon DEF AfterGet
  <2>3. CASE rec.consent = "unknown" /\ directed
    BY <2>3, Zenon DEF AfterGet
  <2>4. CASE rec.consent # "granted" /\ ~(rec.consent = "unknown" /\ directed)
    BY <2>4, Zenon DEF AfterGet
  <2> QED
    BY <2>1, <2>2, <2>3, <2>4
<1> QED
  BY <1>1 DEF Settled, Unsettled

LEMMA NoCallType == NoCall \in CallType
BY ZeroType DEF NoCall, CallType, Decisions

\* The call of a message once its Check has decided.
LEMMA DecideCall ==
    ASSUME GateTypeOK, NEW m \in Msgs, NEW d \in Decisions, Decide(m, d)
    PROVE  /\ call' \in [Msgs -> CallType]
           /\ call'[m].stage = "done"
           /\ call'[m].decision = d
           /\ call'[m].answered = call[m].answered
           /\ \A o \in Msgs \ {m} : call'[o] = call[o]
<1>1. call \in [Msgs -> CallType]
  BY DEF GateTypeOK, CallType
<1>2. [stage |-> "done", rec |-> ZeroRecord, decision |-> d, answered |-> call[m].answered]
         \in CallType
  BY <1>1, ZeroType DEF CallType
<1> QED
  BY <1>1, <1>2 DEF Decide

-----------------------------------------------------------------------------
(* Types *)

LEMMA GateInitType == GateInit => GateTypeOK
<1> SUFFICES ASSUME GateInit PROVE GateTypeOK
  OBVIOUS
<1>1. store \in [Users -> Record]
  <2>1. ASSUME NEW u \in Users PROVE store[u] \in Record
    <3>1. /\ 0 \in Times /\ 0 \in Nat
          /\ EarlierTier[u] \in TierNames \cup {NoTier}
      BY GateAssumption DEF Times
    <3>2. CASE u \in optedIn
      BY <3>1, <3>2, RecType DEF GateInit, Consents
    <3>3. CASE u \notin optedIn
      BY <3>1, <3>3, RecType DEF GateInit, Consents
    <3> QED
      BY <3>2, <3>3
  <2> QED
    BY <2>1 DEF GateInit
<1>2. wanted \in [Users -> [consent: Consents, tier: TierNames \cup {NoTier}]]
  BY <1>1, GateAssumption DEF GateInit, Record
<1>3. call \in [Msgs -> CallType]
  BY NoCallType DEF GateInit
<1>4. /\ nudged \in [Users -> Times] /\ lastNudge \in [Users -> Times]
      /\ clock \in 1..MaxClock
      /\ serves \in [Users -> [Times -> Nat]]
  BY GateAssumption DEF GateInit, Times
<1> QED
  BY <1>1, <1>2, <1>3, <1>4 DEF GateInit, GateTypeOK, CallType

\* What Check leaves alone keeps its type.
LEMMA GateNextType == GateTypeOK /\ [GateNext]_gateVars => GateTypeOK'
<1> SUFFICES ASSUME GateTypeOK, [GateNext]_gateVars PROVE GateTypeOK'
  OBVIOUS
<1>0. Sender \in [Msgs -> Users] /\ clock \in Times /\ 0 \in Times
  BY SenderAssumption, ClockInTimes
<1>1. ASSUME NEW u \in Users, NEW c \in {"granted", "declined"}, SetConsent(u, c)
      PROVE  GateTypeOK'
  <2>1. Rec(store[u].tier, c, store[u].count, store[u].start) \in Record
    BY RecType DEF GateTypeOK, Record, Consents
  <2>2. store' \in [Users -> Record]
    BY <1>1, <2>1 DEF SetConsent, GateTypeOK
  <2>3. wanted' \in [Users -> [consent: Consents, tier: TierNames \cup {NoTier}]]
    BY <1>1 DEF SetConsent, GateTypeOK, Consents
  <2>4. optedIn' \in SUBSET Users /\ clobbered' \in SUBSET Users
    BY <1>1 DEF SetConsent, GateTypeOK
  <2> QED
    BY <1>1, <2>2, <2>3, <2>4 DEF SetConsent, GateTypeOK
<1>2. ASSUME NEW u \in Users, NEW t \in RequestedTiers, SetTier(u, t) PROVE GateTypeOK'
  <2>1. t \in TierNames \cup {NoTier}
    BY <1>2 DEF SetTier, ValidTier
  <2>2. Rec(t, store[u].consent, store[u].count, store[u].start) \in Record
    BY <2>1, RecType DEF GateTypeOK, Record
  <2>3. store' \in [Users -> Record]
    BY <1>2, <2>2 DEF SetTier, GateTypeOK
  <2>4. wanted' \in [Users -> [consent: Consents, tier: TierNames \cup {NoTier}]]
    BY <1>2, <2>1 DEF SetTier, GateTypeOK
  <2> QED
    BY <1>2, <2>3, <2>4 DEF SetTier, GateTypeOK
<1>3. ASSUME NEW m \in Msgs, NEW directed \in BOOLEAN, CheckGet(m, directed)
      PROVE  GateTypeOK'
  <2>1. call' \in [Msgs -> CallType]
    <3> DEFINE to == AfterGet(store[Sender[m]], directed)
               cl == [stage |-> to.stage, decision |-> to.decision,
                      rec |-> IF to.stage = "rate" THEN store[Sender[m]] ELSE ZeroRecord,
                      answered |-> to.stage = "nudge" /\ wanted[Sender[m]].consent # "unknown"]
    <3>1. CASE Decide(m, "refuse")
      BY <3>1, DecideCall DEF Decisions
    <3>2. CASE call' = [call EXCEPT ![m] = cl]
      <4>1. store[Sender[m]] \in Record
        BY <1>0 DEF GateTypeOK
      <4>2. /\ to.stage \in {"nudge", "rate", "done"}
            /\ to.decision \in {"silent", "logonly"}
        BY <4>1, AfterGetCases
      <4>3. (IF to.stage = "rate" THEN store[Sender[m]] ELSE ZeroRecord) \in Record
        BY <4>1, ZeroType
      <4>4. (to.stage = "nudge" /\ wanted[Sender[m]].consent # "unknown") \in BOOLEAN
        BY Zenon
      <4> HIDE DEF to
      <4>5. cl \in CallType
        BY <4>2, <4>3, <4>4 DEF CallType, Decisions
      <4> HIDE DEF cl
      <4> QED
        BY <3>2, <4>5 DEF GateTypeOK, CallType
    <3> QED
      BY <1>3, <3>1, <3>2 DEF CheckGet
  <2>2. overlapped' \in SUBSET Users
    BY <1>0, <1>3 DEF CheckGet, GateTypeOK
  <2> QED
    BY <1>3, <2>1, <2>2 DEF CheckGet, GateTypeOK, CallType
<1>4. ASSUME NEW m \in Msgs, CheckNudge(m) PROVE GateTypeOK'
  <2>1. LiveNudges \in [Users -> Times]
    BY <1>0 DEF LiveNudges, GateTypeOK
  <2>2. nudged' \in [Users -> Times]
    BY <1>0, <1>4, <2>1 DEF CheckNudge, GateTypeOK
  <2>3. call' \in [Msgs -> CallType]
    <3>1. \E d \in {"nudge", "silent"} : Decide(m, d)
      BY <1>4 DEF CheckNudge
    <3> QED
      BY <3>1, DecideCall DEF Decisions
  <2>4. lastNudge' \in [Users -> Times]
    BY <1>0, <1>4 DEF CheckNudge, GateTypeOK
  <2> QED
    BY <1>4, <2>2, <2>3, <2>4 DEF CheckNudge, GateTypeOK, CallType
<1>5. ASSUME NEW m \in Msgs, CheckPut(m) PROVE GateTypeOK'
  <2> DEFINE rec == Windowed(call[m].rec)
  <2>1. rec \in Record
    BY WindowedKeeps DEF GateTypeOK
  <2>2. Rec(rec.tier, rec.consent, rec.count + 1, rec.start) \in Record
    BY <2>1, CountedType
  <2> HIDE DEF rec
  <2>3. store' \in [Users -> Record]
    BY <1>0, <1>5, <2>2 DEF CheckPut, GateTypeOK, rec
  <2>4. call' \in [Msgs -> CallType]
    <3>1. \E d \in {"ratelimited", "serve", "refuse"} : Decide(m, d)
      BY <1>5 DEF CheckPut
    <3> QED
      BY <3>1, DecideCall DEF Decisions
  <2>5. clobbered' \in SUBSET Users
    BY <1>0, <1>5 DEF CheckPut, GateTypeOK
  <2>6. serves' \in [Users -> [Times -> Nat]]
    <3>1. OneMore(serves[Sender[m]]) \in [Times -> Nat]
      <4>1. serves[Sender[m]] \in [Times -> Nat]
        BY <1>0 DEF GateTypeOK
      <4>2. \A t \in Times : serves[Sender[m]][t] \in Nat
        BY <4>1
      <4> QED
        BY <4>2 DEF OneMore
    <3> QED
      BY <1>0, <1>5, <3>1 DEF CheckPut, GateTypeOK
  <2> QED
    BY <1>5, <2>3, <2>4, <2>5, <2>6 DEF CheckPut, GateTypeOK, CallType
<1>6. ASSUME NEW m \in Msgs, Return(m) PROVE GateTypeOK'
  BY <1>6, NoCallType DEF Return, GateTypeOK, CallType
<1>7. CASE Tick
  BY <1>7, GateAssumption DEF Tick, GateTypeOK
<1>8. CASE GateRestart
  BY <1>0, <1>8, NoCallType DEF GateRestart, GateTypeOK, CallType
<1>9. CASE UNCHANGED gateVars
  BY <1>9 DEF gateVars, GateTypeOK
<1> QED
  BY <1>1, <1>2, <1>3, <1>4, <1>5, <1>6, <1>7, <1>8, <1>9 DEF GateNext

-----------------------------------------------------------------------------
(* The consent invariants *)

Admitted(d) == d \in {"serve", "logonly", "ratelimited"}

\* What the rest of the invariant asks of one call, given who opted in.
CallOK(c, u) ==
    /\ c.stage = "rate" => c.rec.consent = "granted" /\ u \in optedIn
    /\ c.stage = "nudge" => ~c.answered
    /\ c.decision = "nudge" => ~c.answered
    /\ Admitted(c.decision) => u \in optedIn

\* What it asks of one user's record.
UserOK(u) ==
    /\ store[u].consent = "granted" => u \in optedIn
    /\ wanted[u].consent # "unknown" => store[u].consent # "unknown"

LEMMA GateInvParts ==
    GateInv <=> /\ GateTypeOK
                /\ \A u \in Users : UserOK(u)
                /\ \A m \in Msgs : CallOK(call[m], Sender[m])
BY DEF GateInv, ConsentNeverInferred, CopiesAreGranted, AnswersStay, NudgesUnanswered,
       NeverNudgedOnceAnswered, UserOK, CallOK, Admitted

LEMMA GateInitInv == GateInit => GateInv
<1> SUFFICES ASSUME GateInit PROVE GateInv
  OBVIOUS
<1>1. \A u \in Users : UserOK(u)
  BY DEF GateInit, UserOK, Rec
<1>2. \A m \in Msgs : CallOK(call[m], Sender[m])
  BY DEF GateInit, CallOK, Admitted, NoCall
<1> QED
  BY <1>1, <1>2, GateInitType, GateInvParts

LEMMA GateNextUsers == GateInv /\ [GateNext]_gateVars => \A u \in Users : UserOK(u)'
<1> SUFFICES ASSUME GateInv, [GateNext]_gateVars, NEW v \in Users PROVE UserOK(v)'
  OBVIOUS
<1>0. /\ GateTypeOK /\ UserOK(v)
      /\ \A m \in Msgs : CallOK(call[m], Sender[m])
      /\ Sender \in [Msgs -> Users]
  BY GateInvParts, SenderAssumption
<1>1. ASSUME NEW u \in Users, NEW c \in {"granted", "declined"}, SetConsent(u, c)
      PROVE  UserOK(v)'
  BY <1>0, <1>1 DEF SetConsent, UserOK, Rec, GateTypeOK
<1>2. ASSUME NEW u \in Users, NEW t \in RequestedTiers, SetTier(u, t) PROVE UserOK(v)'
  BY <1>0, <1>2 DEF SetTier, UserOK, Rec, GateTypeOK
\* The stale write: the copy says granted, and its user did opt in.
<1>3. ASSUME NEW m \in Msgs, CheckPut(m) PROVE UserOK(v)'
  <2>1. /\ call[m].rec \in Record /\ call[m].rec.consent = "granted"
        /\ Sender[m] \in optedIn /\ Sender[m] \in Users
    BY <1>0, <1>3 DEF CheckPut, CallOK, GateTypeOK
  <2>2. Windowed(call[m].rec).consent = "granted"
    BY <1>0, <2>1, WindowedKeeps
  <2>3. /\ UNCHANGED <<wanted, optedIn>>
        /\ store'[v] = store[v] \/ (v = Sender[m] /\ store'[v].consent = "granted")
    BY <1>0, <1>3, <2>1, <2>2 DEF CheckPut, Rec, GateTypeOK
  <2> QED
    BY <1>0, <2>1, <2>3 DEF UserOK
<1>4. ASSUME UNCHANGED <<store, wanted, optedIn>> PROVE UserOK(v)'
  BY <1>0, <1>4 DEF UserOK
<1>5. ASSUME NEW m \in Msgs, NEW directed \in BOOLEAN, CheckGet(m, directed)
      PROVE  UserOK(v)'
  BY <1>4, <1>5 DEF CheckGet
<1>6. ASSUME NEW m \in Msgs, CheckNudge(m) \/ Return(m) PROVE UserOK(v)'
  BY <1>4, <1>6 DEF CheckNudge, Return
<1>7. CASE Tick \/ GateRestart \/ UNCHANGED gateVars
  BY <1>4, <1>7 DEF Tick, GateRestart, gateVars
<1> QED
  BY <1>1, <1>2, <1>3, <1>5, <1>6, <1>7 DEF GateNext

LEMMA GateNextCalls ==
    GateInv /\ [GateNext]_gateVars => \A m \in Msgs : CallOK(call[m], Sender[m])'
<1> SUFFICES ASSUME GateInv, [GateNext]_gateVars, NEW o \in Msgs
             PROVE  CallOK(call[o], Sender[o])'
  OBVIOUS
<1>0. /\ GateTypeOK /\ \A u \in Users : UserOK(u)
      /\ \A m \in Msgs : CallOK(call[m], Sender[m])
      /\ Sender \in [Msgs -> Users]
  BY GateInvParts, SenderAssumption
\* Nobody ever stops having opted in, so a call that is left alone stays as good.
<1>1. ASSUME call'[o] = call[o], optedIn \subseteq optedIn'
      PROVE  CallOK(call[o], Sender[o])'
  BY <1>0, <1>1 DEF CallOK
<1>2. ASSUME NEW u \in Users, NEW c \in {"granted", "declined"}, SetConsent(u, c)
      PROVE  CallOK(call[o], Sender[o])'
  BY <1>1, <1>2 DEF SetConsent
<1>3. ASSUME NEW u \in Users, NEW t \in RequestedTiers, SetTier(u, t)
      PROVE  CallOK(call[o], Sender[o])'
  BY <1>1, <1>3 DEF SetTier
\* A decision: a nudge only of who had not answered, an answer only to who opted in.
<1>4. ASSUME NEW m \in Msgs, NEW d \in Decisions, Decide(m, d), UNCHANGED optedIn,
             d = "nudge" => ~call[m].answered,
             Admitted(d) => Sender[m] \in optedIn
      PROVE  CallOK(call[o], Sender[o])'
  <2>1. CASE o = m
    BY <1>0, <1>4, <2>1, DecideCall DEF CallOK
  <2>2. CASE o # m
    BY <1>0, <1>1, <1>4, <2>2, DecideCall
  <2> QED
    BY <2>1, <2>2
<1>5. ASSUME NEW m \in Msgs, NEW directed \in BOOLEAN, CheckGet(m, directed)
      PROVE  CallOK(call[o], Sender[o])'
  <2> DEFINE u == Sender[m]
             to == AfterGet(store[u], directed)
  <2>1. u \in Users /\ store[u] \in Record /\ UserOK(u) /\ UNCHANGED optedIn
    BY <1>0, <1>5 DEF CheckGet, GateTypeOK
  <2>2. CASE Decide(m, "refuse")
    BY <1>4, <2>1, <2>2 DEF Admitted, Decisions
  <2>3. CASE call' = [call EXCEPT ![m] =
                         [stage |-> to.stage, decision |-> to.decision,
                          rec |-> IF to.stage = "rate" THEN store[u] ELSE ZeroRecord,
                          answered |-> to.stage = "nudge" /\ wanted[u].consent # "unknown"]]
    <3>1. CASE o # m
      BY <1>1, <2>1, <2>3, <3>1 DEF GateTypeOK
    <3>2. CASE o = m
      <4>1. /\ to.decision \in {"silent", "logonly"}
            /\ to.stage = "rate" => store[u].consent = "granted"
            /\ to.stage = "nudge" => store[u].consent = "unknown"
            /\ to.decision = "logonly" => store[u].consent = "granted"
        BY <2>1, AfterGetCases
      <4>2. /\ call'[o].stage = to.stage /\ call'[o].decision = to.decision
            /\ to.stage = "rate" => call'[o].rec = store[u]
            /\ call'[o].answered = (to.stage = "nudge" /\ wanted[u].consent # "unknown")
        BY <1>0, <2>3, <3>2 DEF GateTypeOK
      <4> HIDE DEF to
      <4>3. call'[o].stage = "nudge" => ~call'[o].answered
        BY <2>1, <4>1, <4>2, Zenon DEF UserOK
      <4> QED
        BY <2>1, <3>2, <4>1, <4>2, <4>3 DEF CallOK, Admitted, UserOK
    <3> QED
      BY <3>1, <3>2
  <2> QED
    BY <1>5, <2>2, <2>3 DEF CheckGet
<1>6. ASSUME NEW m \in Msgs, CheckNudge(m) PROVE CallOK(call[o], Sender[o])'
  <2>1. PICK d \in {"nudge", "silent"} : Decide(m, d)
    BY <1>6 DEF CheckNudge
  <2>2. ~call[m].answered /\ UNCHANGED optedIn
    BY <1>0, <1>6 DEF CheckNudge, CallOK
  <2> QED
    BY <1>4, <2>1, <2>2 DEF Admitted, Decisions
<1>7. ASSUME NEW m \in Msgs, CheckPut(m) PROVE CallOK(call[o], Sender[o])'
  <2>1. PICK d \in {"ratelimited", "serve", "refuse"} : Decide(m, d)
    BY <1>7 DEF CheckPut
  <2>2. Sender[m] \in optedIn /\ UNCHANGED optedIn
    BY <1>0, <1>7 DEF CheckPut, CallOK
  <2> QED
    BY <1>4, <2>1, <2>2 DEF Admitted, Decisions
<1>8. ASSUME NEW c, c = NoCall, call'[o] = c PROVE CallOK(call[o], Sender[o])'
  BY <1>8 DEF NoCall, CallOK, Admitted
<1>9. ASSUME NEW m \in Msgs, Return(m) PROVE CallOK(call[o], Sender[o])'
  <2>1. call'[o] = NoCall \/ call'[o] = call[o]
    BY <1>0, <1>9 DEF Return, GateTypeOK
  <2> QED
    BY <1>1, <1>8, <1>9, <2>1 DEF Return
<1>10. CASE GateRestart
  BY <1>8, <1>10 DEF GateRestart
<1>11. CASE Tick \/ UNCHANGED gateVars
  BY <1>1, <1>11 DEF Tick, gateVars
<1> QED
  BY <1>2, <1>3, <1>5, <1>6, <1>7, <1>9, <1>10, <1>11 DEF GateNext

LEMMA GateNextInv == GateInv /\ [GateNext]_gateVars => GateInv'
<1> SUFFICES ASSUME GateInv, [GateNext]_gateVars PROVE GateInv'
  OBVIOUS
<1>1. GateTypeOK' /\ (\A u \in Users : UserOK(u)') /\ \A m \in Msgs : CallOK(call[m], Sender[m])'
  BY GateNextType, GateNextUsers, GateNextCalls, GateInvParts
<1> QED
  BY <1>1 DEF GateInv, ConsentNeverInferred, CopiesAreGranted, AnswersStay, NudgesUnanswered,
              NeverNudgedOnceAnswered, UserOK, CallOK, Admitted

LEMMA GateInvariance == GateSpec => []GateInv
BY GateInitInv, GateNextInv, PTL DEF GateSpec

-----------------------------------------------------------------------------
(* One timestamp per user *)

\* The map holds when the user was last nudged, or nothing once a cooldown has passed
\* since, whoever's nudge swept it.
NudgeInv ==
    \A u \in Users :
        /\ lastNudge[u] <= clock
        /\ Cooldown # 0 => \/ nudged[u] = lastNudge[u]
                           \/ nudged[u] = 0 /\ clock - lastNudge[u] >= Cooldown

\* What a nudge or a silence makes of the times, whoever it is for.
LEMMA CheckNudgeTimes ==
    ASSUME GateTypeOK, NEW m \in Msgs, CheckNudge(m)
    PROVE  LET u == Sender[m]
               live == [v \in Users |-> IF nudged[v] # 0 /\ clock - nudged[v] >= Cooldown
                                        THEN 0 ELSE nudged[v]]
           IN  /\ clock' = clock
               /\ \/ /\ Cooldown = 0 \/ live[u] = 0
                     /\ call'[m].decision = "nudge"
                     /\ lastNudge' = [lastNudge EXCEPT ![u] = clock]
                     /\ Cooldown # 0 => nudged' = [live EXCEPT ![u] = clock]
                  \/ /\ ~(Cooldown = 0 \/ live[u] = 0)
                     /\ call'[m].decision = "silent"
                     /\ lastNudge' = lastNudge
                     /\ nudged' = live
<1>0. Sender[m] \in Users
  BY SenderAssumption
<1>1. CASE Cooldown = 0 \/ LiveNudges[Sender[m]] = 0
  <2>1. Decide(m, "nudge") /\ UNCHANGED clock
    BY <1>1 DEF CheckNudge
  <2>2. call'[m].decision = "nudge"
    BY <2>1, DecideCall DEF Decisions
  <2>3. lastNudge' = [lastNudge EXCEPT ![Sender[m]] = clock]
    BY <1>1 DEF CheckNudge
  <2>4. Cooldown # 0 => nudged' = [v \in Users |-> IF v = Sender[m] THEN clock ELSE LiveNudges[v]]
    BY <1>1 DEF CheckNudge
  <2> QED
    BY <1>0, <1>1, <2>1, <2>2, <2>3, <2>4 DEF LiveNudges
<1>2. CASE ~(Cooldown = 0 \/ LiveNudges[Sender[m]] = 0)
  <2>1. Decide(m, "silent") /\ UNCHANGED <<clock, lastNudge>>
    BY <1>2 DEF CheckNudge
  <2>2. call'[m].decision = "silent"
    BY <2>1, DecideCall DEF Decisions
  <2>3. nudged' = [v \in Users |-> LiveNudges[v]]
    BY <1>2 DEF CheckNudge
  <2> QED
    BY <1>0, <1>2, <2>1, <2>2, <2>3 DEF LiveNudges
<1> QED
  BY <1>1, <1>2

LEMMA NudgeInvStep == GateTypeOK /\ NudgeInv /\ [GateNext]_gateVars => NudgeInv'
<1> SUFFICES ASSUME GateTypeOK, NudgeInv, [GateNext]_gateVars PROVE NudgeInv'
  OBVIOUS
<1>0. /\ clock \in Nat /\ Cooldown \in Nat
      /\ \A u \in Users : lastNudge[u] \in Nat /\ nudged[u] \in Nat
  BY GateAssumption DEF GateTypeOK, Times
<1>1. ASSUME NEW m \in Msgs, CheckNudge(m) PROVE NudgeInv'
  <2> SUFFICES ASSUME NEW v \in Users
               PROVE  /\ lastNudge'[v] <= clock'
                      /\ Cooldown # 0 => \/ nudged'[v] = lastNudge'[v]
                                         \/ nudged'[v] = 0 /\ clock' - lastNudge'[v] >= Cooldown
    BY DEF NudgeInv
  <2> DEFINE live == [w \in Users |-> IF nudged[w] # 0 /\ clock - nudged[w] >= Cooldown
                                      THEN 0 ELSE nudged[w]]
  <2>1. /\ clock' = clock
        /\ \/ /\ lastNudge' = [lastNudge EXCEPT ![Sender[m]] = clock]
              /\ Cooldown # 0 => nudged' = [live EXCEPT ![Sender[m]] = clock]
           \/ lastNudge' = lastNudge /\ nudged' = live
    BY <1>1, CheckNudgeTimes
  <2>2. /\ lastNudge[v] <= clock
        /\ Cooldown # 0 => \/ nudged[v] = lastNudge[v]
                           \/ nudged[v] = 0 /\ clock - lastNudge[v] >= Cooldown
    BY DEF NudgeInv
  <2>3. lastNudge \in [Users -> Times] /\ Sender[m] \in Users
    BY SenderAssumption DEF GateTypeOK
  <2>4. CASE lastNudge' = lastNudge /\ nudged' = live
    BY <1>0, <2>1, <2>2, <2>4
  <2>5. CASE /\ lastNudge' = [lastNudge EXCEPT ![Sender[m]] = clock]
             /\ Cooldown # 0 => nudged' = [live EXCEPT ![Sender[m]] = clock]
    <3>1. CASE v = Sender[m]
      BY <1>0, <2>1, <2>3, <2>5, <3>1
    <3>2. CASE v # Sender[m]
      BY <1>0, <2>1, <2>2, <2>3, <2>5, <3>2
    <3> QED
      BY <3>1, <3>2
  <2> QED
    BY <2>1, <2>4, <2>5
<1>2. CASE Tick
  BY <1>0, <1>2 DEF Tick, NudgeInv
<1>3. CASE GateRestart
  BY <1>0, <1>3 DEF GateRestart, NudgeInv
<1>4. CASE UNCHANGED <<nudged, lastNudge, clock>>
  BY <1>4 DEF NudgeInv
<1> QED
  BY <1>1, <1>2, <1>3, <1>4 DEF GateNext, SetConsent, SetTier, CheckGet, CheckPut, Return, gateVars

\* Only its own nudge step takes a Check from there to its end.
LEMMA NudgeEnds ==
    ASSUME GateTypeOK, [GateNext]_gateVars, NEW m \in Msgs,
           call[m].stage = "nudge", call'[m].stage = "done"
    PROVE  CheckNudge(m)
<1>0. \A o \in Msgs : call[o].stage # "nudge" => o # m
  OBVIOUS
<1>1. ASSUME NEW o \in Msgs, o # m, \/ CheckNudge(o) \/ CheckPut(o) \/ Return(o)
                                    \/ \E directed \in BOOLEAN : CheckGet(o, directed)
      PROVE  FALSE
  <2>1. call'[m] = call[m]
    BY <1>1 DEF CheckNudge, CheckPut, Return, CheckGet, Decide, GateTypeOK
  <2> QED
    BY <2>1
<1>2. ASSUME CheckPut(m) \/ Return(m) \/ \E directed \in BOOLEAN : CheckGet(m, directed)
      PROVE  FALSE
  BY <1>2 DEF CheckPut, Return, CheckGet
<1>3. CASE UNCHANGED call
  BY <1>3
<1>4. CASE GateRestart
  BY <1>4 DEF GateRestart, NoCall
<1> QED
  BY <1>1, <1>2, <1>3, <1>4 DEF GateNext, SetConsent, SetTier, Tick, gateVars

LEMMA NudgeDecides ==
    ASSUME GateTypeOK, NudgeInv, NEW m \in Msgs, CheckNudge(m)
    PROVE  call'[m].decision = "nudge"
              <=> (lastNudge[Sender[m]] = 0 \/ clock - lastNudge[Sender[m]] >= Cooldown)
<1> DEFINE u == Sender[m]
           live == [v \in Users |-> IF nudged[v] # 0 /\ clock - nudged[v] >= Cooldown
                                    THEN 0 ELSE nudged[v]]
<1>1. /\ u \in Users /\ clock \in Nat /\ Cooldown \in Nat
      /\ lastNudge[u] \in Nat /\ nudged[u] \in Nat
  BY SenderAssumption, GateAssumption DEF GateTypeOK, Times
<1>2. /\ lastNudge[u] <= clock
      /\ Cooldown # 0 => \/ nudged[u] = lastNudge[u]
                         \/ nudged[u] = 0 /\ clock - lastNudge[u] >= Cooldown
  BY <1>1 DEF NudgeInv
<1>3. call'[m].decision = "nudge" <=> (Cooldown = 0 \/ live[u] = 0)
  BY CheckNudgeTimes
<1>4. Cooldown = 0 \/ live[u] = 0 <=> (lastNudge[u] = 0 \/ clock - lastNudge[u] >= Cooldown)
  BY <1>1, <1>2
<1> QED
  BY <1>3, <1>4

-----------------------------------------------------------------------------
(* The largest allowance *)

\* A set of numbers that is not empty has a least one.
LEMMA LeastNumber ==
    ASSUME NEW S \in SUBSET Nat, S # {}
    PROVE  \E n \in S : \A k \in S : n <= k
<1>1. PICK n \in S : \A k \in S : ~(<<k, n>> \in OpToRel(<, Nat))
  <2> HIDE DEF OpToRel
  <2> QED
    BY WFMin, NatLessThanWellFounded
<1>2. \A k \in S : ~(k < n)
  BY <1>1 DEF OpToRel
<1> QED
  BY <1>2

\* Five tiers have a largest allowance.
LEMMA TopIsLargest ==
    /\ TopAllowance \in Nat
    /\ \A k \in Allowances : k <= TopAllowance
<1>1. /\ Allowances \subseteq Nat /\ 0 \in Allowances
      /\ \A t \in TierNames : Allowance[t] \in Nat \/ Allowance[t] = Unlimited
  BY GateAssumption DEF Allowances, ReachableTiers
<1> DEFINE limit(t) == IF Allowance[t] = Unlimited THEN 0 ELSE Allowance[t]
           B == {n \in Nat : \A k \in Allowances : k <= n}
<1>2. /\ limit("throttled") \in Nat /\ limit("default") \in Nat /\ limit("trusted") \in Nat
      /\ limit("unlimited") \in Nat /\ limit("admin") \in Nat
  BY <1>1 DEF TierNames
<1> DEFINE all == limit("throttled") + limit("default") + limit("trusted")
                    + limit("unlimited") + limit("admin")
<1>3. all \in B
  <2>1. ASSUME NEW k \in Allowances
        PROVE  \/ k = 0
               \/ \E t \in TierNames : k = limit(t)
    BY GateAssumption DEF Allowances, ReachableTiers
  <2>2. ASSUME NEW k \in Allowances
        PROVE  \/ k = 0 \/ k = limit("throttled") \/ k = limit("default")
               \/ k = limit("trusted") \/ k = limit("unlimited") \/ k = limit("admin")
    BY <2>1 DEF TierNames
  <2> HIDE DEF limit
  <2> QED
    BY <1>2, <2>2
<1>4. PICK n \in B : \A b \in B : n <= b
  <2>1. B \in SUBSET Nat /\ B # {}
    BY <1>3
  <2> QED
    BY <2>1, LeastNumber
<1>5. n \in Allowances
  <2> SUFFICES ASSUME n \notin Allowances PROVE FALSE
    OBVIOUS
  <2>1. n # 0 /\ n \in Nat
    BY <1>1
  <2>2. n - 1 \in B
    <3>1. n - 1 \in Nat
      BY <2>1
    <3>2. ASSUME NEW k \in Allowances PROVE k <= n - 1
      BY <1>1, <2>1
    <3> QED
      BY <3>1, <3>2
  <2> QED
    BY <1>4, <2>1, <2>2
<1>6. n \in Nat /\ \A k \in Allowances : k <= n
  OBVIOUS
<1> QED
  BY <1>1, <1>5, <1>6 DEF TopAllowance

-----------------------------------------------------------------------------
(* One rate window after the other *)

\* f counts what was served up to each tick: it only grows, and stands still from now on.
Accrued(f, now) == \A a, b \in Times : /\ a <= b => f[a] <= f[b]
                                       /\ a >= now => f[a] = f[now]

\* The tick RateWindow ticks before tick s, as far back as time goes.
Before(s) == IF s > RateWindow THEN s - RateWindow ELSE 0

\* The window that opened at tick s: no more than its count n and than an allowance was
\* served in it, nothing after its end, and no more than an allowance in the RateWindow
\* ticks before it.
WindowHolds(f, s, n, now) ==
    /\ s <= now
    /\ s = 0 => f[now] = 0
    /\ s # 0 => /\ f[now] - f[s-1] <= n
                /\ f[now] - f[s-1] <= TopAllowance
                /\ f[s-1] - f[Before(s)] <= TopAllowance
                /\ \A t \in Times : t >= s + RateWindow - 1 => f[t] = f[now]

\* No stretch of RateWindow ticks holds more than two allowances.
BoundHolds(f) ==
    \A t \in 1..MaxClock :
        f[IF t + RateWindow - 1 <= MaxClock THEN t + RateWindow - 1 ELSE MaxClock] - f[t-1]
            <= 2 * TopAllowance

\* f with one query more, now.
Plus(f, now) == [t \in Times |-> IF t >= now THEN f[t] + 1 ELSE f[t]]

LEMMA WindowTicks ==
    ASSUME NEW f \in [Times -> Nat], NEW now \in 1..MaxClock, now + 1 \in 1..MaxClock,
           NEW s \in Times, NEW n \in Nat,
           Accrued(f, now)
    PROVE  /\ Accrued(f, now + 1)
           /\ WindowHolds(f, s, n, now) => WindowHolds(f, s, n, now + 1)
<1>1. f[now + 1] = f[now] /\ \A a \in Times : a >= now + 1 => f[a] = f[now]
  BY DEF Accrued, Times
<1>2. Accrued(f, now + 1)
  BY <1>1 DEF Accrued, Times
<1>3. WindowHolds(f, s, n, now) => WindowHolds(f, s, n, now + 1)
  BY <1>1 DEF WindowHolds, Times
<1> QED
  BY <1>2, <1>3

\* A query more counts from now on.
LEMMA PlusAccrues ==
    ASSUME NEW f \in [Times -> Nat], NEW now \in 1..MaxClock, Accrued(f, now)
    PROVE  /\ Plus(f, now) \in [Times -> Nat]
           /\ Accrued(Plus(f, now), now)
           /\ \A t \in Times : t < now => Plus(f, now)[t] = f[t]
           /\ \A t \in Times : t >= now => Plus(f, now)[t] = f[now] + 1
<1>1. \A t \in Times : f[t] \in Nat /\ t \in Nat
  BY DEF Times
<1>2. \A t \in Times : Plus(f, now)[t] = IF t >= now THEN f[t] + 1 ELSE f[t]
  BY DEF Plus
<1>3. \A t \in Times : t >= now => f[t] = f[now]
  BY DEF Accrued, Times
<1>4. Plus(f, now) \in [Times -> Nat]
  BY <1>1 DEF Plus
<1>5. \A a, b \in Times : a <= b => f[a] <= f[b]
  BY DEF Accrued
<1>6. now \in Times
  BY DEF Times
<1> QED
  BY <1>1, <1>2, <1>3, <1>4, <1>5, <1>6 DEF Accrued

\* A query within the open window.
LEMMA ServeWithin ==
    ASSUME NEW f \in [Times -> Nat], NEW now \in 1..MaxClock, NEW s \in Times, NEW n \in Nat,
           Accrued(f, now), WindowHolds(f, s, n, now), s # 0, now - s < RateWindow
    PROVE  /\ WindowHolds(f, s, n + 1, now)
           /\ n < TopAllowance => WindowHolds(Plus(f, now), s, n + 1, now)
<1>0. /\ now \in Times /\ s - 1 \in Times /\ Before(s) \in Times /\ s - 1 < now /\ Before(s) < now
      /\ s \in Nat /\ now \in Nat /\ s <= now
      /\ RateWindow \in Nat /\ RateWindow > 0
  BY GateAssumption DEF WindowHolds, Before, Times
<1>1. \A t \in Times : f[t] \in Nat /\ t \in Nat
  BY DEF Times
<1>2. WindowHolds(f, s, n + 1, now)
  BY <1>0, <1>1 DEF WindowHolds
<1>3. ASSUME n < TopAllowance PROVE WindowHolds(Plus(f, now), s, n + 1, now)
  <2> DEFINE g == Plus(f, now)
  <2>0. /\ \A t \in Times : t < now => g[t] = f[t]
        /\ \A t \in Times : t >= now => g[t] = f[now] + 1
    BY PlusAccrues, Zenon
  <2> HIDE DEF g
  <2>1. g[now] = f[now] + 1 /\ g[s-1] = f[s-1] /\ g[Before(s)] = f[Before(s)]
    <3>1. now >= now
      BY <1>0
    <3> QED
      BY <1>0, <2>0, <3>1
  <2>2. \A t \in Times : t >= s + RateWindow - 1 => g[t] = g[now]
    <3>1. \A t \in Times : t >= s + RateWindow - 1 => t >= now
      BY <1>0, <1>1
    <3> QED
      BY <2>0, <2>1, <3>1
  <2>3. /\ f[now] - f[s-1] <= n /\ f[s-1] - f[Before(s)] <= TopAllowance
        /\ f[now] \in Nat /\ f[s-1] \in Nat /\ f[Before(s)] \in Nat
    BY <1>0, <1>1 DEF WindowHolds
  <2>4. /\ g[now] - g[s-1] <= n + 1 /\ g[s-1] - g[Before(s)] <= TopAllowance
        /\ g[now] - g[s-1] <= TopAllowance
    BY <1>3, <2>1, <2>3, TopIsLargest
  <2>5. WindowHolds(g, s, n + 1, now)
    BY <1>0, <2>2, <2>4 DEF WindowHolds
  <2> QED
    BY <2>5 DEF g
<1> QED
  BY <1>2, <1>3

\* A query that opens a window: nothing was served since the one before it ended.
LEMMA ServeAnew ==
    ASSUME NEW f \in [Times -> Nat], NEW now \in 1..MaxClock, NEW s \in Times, NEW n \in Nat,
           Accrued(f, now), WindowHolds(f, s, n, now), s = 0 \/ now - s >= RateWindow
    PROVE  /\ WindowHolds(f, now, 1, now)
           /\ 0 < TopAllowance => WindowHolds(Plus(f, now), now, 1, now)
<1>0. /\ now \in Times /\ now - 1 \in Times /\ Before(now) \in Times
      /\ Before(now) <= now - 1 /\ s \in Nat /\ now \in Nat /\ now # 0
      /\ RateWindow \in Nat /\ RateWindow > 0 /\ TopAllowance \in Nat
  BY GateAssumption, TopIsLargest DEF Before, Times
<1>1. \A t \in Times : f[t] \in Nat /\ t \in Nat
  BY DEF Times
<1>2. \A a, b \in Times : a <= b => f[a] <= f[b]
  BY DEF Accrued
<1>3. /\ f[now-1] \in Nat /\ f[now] \in Nat /\ f[Before(now)] \in Nat
      /\ f[Before(now)] <= f[now-1] /\ f[now-1] <= f[now]
  <2>1. f[now-1] \in Nat /\ f[now] \in Nat /\ f[Before(now)] \in Nat
    BY <1>0, <1>1
  <2>2. now - 1 <= now
    BY <1>0
  <2> QED
    BY <1>0, <1>2, <2>1, <2>2
<1>4. f[now-1] = f[now] /\ f[now-1] - f[Before(now)] <= TopAllowance
  <2>1. CASE s = 0
    <3>1. f[now] = 0
      BY <2>1 DEF WindowHolds
    <3> QED
      BY <1>0, <1>3, <3>1
  <2>2. CASE s # 0 /\ now - s >= RateWindow
    <3>1. now - 1 >= s + RateWindow - 1
      BY <1>0, <2>2
    <3>2. f[now-1] = f[now]
      BY <1>0, <2>2, <3>1 DEF WindowHolds
    <3>3. s - 1 \in Times /\ Before(now) >= s - 1
      BY <1>0, <2>2, GateAssumption DEF Before, Times
    <3>4. f[s-1] <= f[Before(now)] /\ f[s-1] \in Nat
      BY <1>0, <1>1, <1>2, <3>3
    <3>5. f[now] - f[s-1] <= TopAllowance
      BY <2>2 DEF WindowHolds
    <3> QED
      BY <1>0, <1>3, <3>2, <3>4, <3>5
  <2> QED
    BY <2>1, <2>2
<1>5. \A t \in Times : t >= now => f[t] = f[now]
  BY <1>0 DEF Accrued
<1>6. \A t \in Times : t >= now + RateWindow - 1 => t >= now
  BY <1>0, <1>1
<1>7. WindowHolds(f, now, 1, now)
  <2>1. \A t \in Times : t >= now + RateWindow - 1 => f[t] = f[now]
    BY <1>5, <1>6
  <2> QED
    BY <1>0, <1>3, <1>4, <2>1 DEF WindowHolds
<1>8. ASSUME 0 < TopAllowance PROVE WindowHolds(Plus(f, now), now, 1, now)
  <2> DEFINE g == Plus(f, now)
  <2>0. /\ \A t \in Times : t < now => g[t] = f[t]
        /\ \A t \in Times : t >= now => g[t] = f[now] + 1
    BY PlusAccrues, Zenon
  <2> HIDE DEF g
  <2>1. now - 1 < now /\ Before(now) < now /\ now >= now
    <3>1. Before(now) \in Nat
      BY <1>0, <1>1
    <3> QED
      BY <1>0, <3>1
  <2>2. g[now] = f[now] + 1 /\ g[now-1] = f[now-1] /\ g[Before(now)] = f[Before(now)]
    BY <1>0, <2>0, <2>1
  <2>3. \A t \in Times : t >= now + RateWindow - 1 => g[t] = g[now]
    BY <1>6, <2>0, <2>2
  <2>4. g[now] - g[now-1] <= 1 /\ g[now-1] - g[Before(now)] <= TopAllowance
    BY <1>3, <1>4, <2>2
  <2>5. g[now] - g[now-1] <= TopAllowance /\ now <= now
    BY <1>0, <1>3, <1>4, <1>8, <2>2
  <2>6. WindowHolds(g, now, 1, now)
    BY <1>0, <2>3, <2>4, <2>5 DEF WindowHolds
  <2> QED
    BY <2>6 DEF g
<1> QED
  BY <1>7, <1>8

\* Where a query more is counted, the bound follows from the open window and what came
\* before it.
LEMMA BoundWithMore ==
    ASSUME NEW f \in [Times -> Nat], NEW now \in 1..MaxClock, NEW s \in Times, NEW n \in Nat,
           Accrued(f, now), BoundHolds(f), s # 0, now - s < RateWindow,
           WindowHolds(Plus(f, now), s, n, now)
    PROVE  BoundHolds(Plus(f, now))
<1> DEFINE g == Plus(f, now)
           end(t) == IF t + RateWindow - 1 <= MaxClock THEN t + RateWindow - 1 ELSE MaxClock
<1>0. /\ now \in Times /\ s - 1 \in Times /\ Before(s) \in Times
      /\ s \in Nat /\ now \in Nat /\ s <= now
      /\ RateWindow \in Nat /\ RateWindow > 0 /\ TopAllowance \in Nat
      /\ MaxClock \in Nat /\ MaxClock > 0
  BY GateAssumption, TopIsLargest DEF WindowHolds, Before, Times
<1>1. /\ g \in [Times -> Nat] /\ Accrued(g, now)
      /\ \A t \in Times : t < now => g[t] = f[t]
      /\ \A t \in Times : t >= now => g[t] = f[now] + 1
  BY PlusAccrues, Zenon
<1>2. g[now] - g[s-1] <= TopAllowance /\ g[s-1] - g[Before(s)] <= TopAllowance
  BY DEF WindowHolds
<1> HIDE DEF g
<1>3. /\ \A t \in Times : f[t] \in Nat /\ g[t] \in Nat /\ t \in Nat
      /\ \A a, b \in Times : a <= b => g[a] <= g[b]
      /\ \A t \in Times : t >= now => f[t] = f[now]
      /\ \A t \in Times : t >= now => g[t] = g[now]
  <2>1. \A t \in Times : f[t] \in Nat /\ g[t] \in Nat /\ t \in Nat
    BY <1>1 DEF Times
  <2>2. /\ \A a, b \in Times : a <= b => g[a] <= g[b]
        /\ \A t \in Times : t >= now => f[t] = f[now]
        /\ \A t \in Times : t >= now => g[t] = g[now]
    BY <1>0, <1>1 DEF Accrued
  <2> QED
    BY <2>1, <2>2
<1> SUFFICES ASSUME NEW t \in 1..MaxClock PROVE g[end(t)] - g[t-1] <= 2 * TopAllowance
  BY DEF BoundHolds, g
<1>4. /\ end(t) \in Times /\ t - 1 \in Times /\ t \in Nat
      /\ end(t) <= t + RateWindow - 1 /\ t - 1 < end(t)
  BY <1>0 DEF Times
<1>5. f[end(t)] - f[t-1] <= 2 * TopAllowance
  BY DEF BoundHolds
<1> HIDE DEF end
<1>6. /\ end(t) \in Nat /\ t - 1 \in Nat
      /\ f[end(t)] \in Nat /\ f[t-1] \in Nat /\ g[end(t)] \in Nat /\ g[t-1] \in Nat
      /\ g[now] \in Nat /\ g[s-1] \in Nat /\ g[Before(s)] \in Nat
  BY <1>0, <1>3, <1>4
<1>7. CASE end(t) < now
  <2>1. t - 1 < now
    BY <1>0, <1>4, <1>6, <1>7
  <2>2. g[end(t)] = f[end(t)] /\ g[t-1] = f[t-1]
    BY <1>1, <1>4, <1>7, <2>1
  <2> QED
    BY <1>5, <2>2
<1>8. CASE t - 1 >= now
  <2>1. end(t) >= now
    BY <1>0, <1>4, <1>6, <1>8
  <2>2. g[end(t)] = g[now] /\ g[t-1] = g[now]
    BY <1>3, <1>4, <1>8, <2>1
  <2> QED
    BY <1>0, <1>6, <2>2
<1>9. CASE end(t) >= now /\ t - 1 < now
  <2>1. g[end(t)] = g[now]
    BY <1>3, <1>4, <1>9
  <2>2. CASE t > s
    <3>0. s - 1 <= t - 1
      BY <1>0, <1>4, <2>2
    <3>1. g[s-1] <= g[t-1]
      BY <1>0, <1>3, <1>4, <3>0
    <3> QED
      BY <1>0, <1>2, <1>6, <2>1, <3>1
  <2>3. CASE t <= s
    <3>1. Before(s) <= t - 1
      BY <1>0, <1>4, <1>6, <1>9, <2>3 DEF Before
    <3>2. g[Before(s)] <= g[t-1]
      BY <1>0, <1>3, <1>4, <3>1
    <3> QED
      BY <1>0, <1>2, <1>6, <2>1, <3>2
  <2> QED
    BY <1>0, <1>4, <2>2, <2>3
<1> QED
  BY <1>0, <1>6, <1>7, <1>8, <1>9

\* A Check about to write back a record of a user whose Checks never overlapped holds
\* the count and the window that are stored, and is the only one that does.  A tier, in
\* the store or in a copy, is one a user can come to have.
HasTier(rec) == rec.tier \in ReachableTiers \cup {NoTier}

RateUser(u) ==
    /\ HasTier(store[u])
    /\ Accrued(serves[u], clock)
    /\ u \notin overlapped =>
          /\ WindowHolds(serves[u], store[u].start, store[u].count, clock)
          /\ BoundHolds(serves[u])

RateCall(m) ==
    call[m].stage = "rate" =>
       /\ HasTier(call[m].rec)
       /\ Sender[m] \notin overlapped =>
             /\ call[m].rec.count = store[Sender[m]].count
             /\ call[m].rec.start = store[Sender[m]].start
             /\ \A o \in Msgs \ {m} : Sender[o] = Sender[m] => call[o].stage # "rate"

RateInv ==
    /\ \A u \in Users : RateUser(u)
    /\ \A m \in Msgs : RateCall(m)

LEMMA WindowedCases ==
    ASSUME NEW rec \in Record
    PROVE  \/ /\ rec.start = 0 \/ clock - rec.start >= RateWindow
              /\ Windowed(rec).tier = rec.tier
              /\ Windowed(rec).count = 0 /\ Windowed(rec).start = clock
           \/ /\ ~(rec.start = 0 \/ clock - rec.start >= RateWindow)
              /\ Windowed(rec) = rec
BY DEF Windowed, Rec

\* Nobody is served beyond the largest allowance.
LEMMA UnderAllowance ==
    ASSUME NEW rec \in Record, HasTier(rec), ~OverAllowance(rec),
           AllowanceFor(ResolveTier(rec)) # Unlimited
    PROVE  rec.count < TopAllowance
<1> DEFINE t == ResolveTier(rec)
<1>1. t \in ReachableTiers /\ t \in TierNames
  <2>1. ReachableTiers \subseteq TierNames /\ DefTier \in ReachableTiers
    BY GateAssumption DEF ReachableTiers
  <2>2. NoTier \notin TierNames
    BY DEF NoTier, TierNames
  <2> QED
    BY <2>1, <2>2 DEF ResolveTier, HasTier
<1> HIDE DEF t
<1>2. AllowanceFor(t) = Allowance[t]
  BY <1>1 DEF AllowanceFor
<1>3. Allowance[t] # Unlimited /\ ~(rec.count >= Allowance[t])
  BY <1>2, Zenon DEF OverAllowance, t
<1>4. Allowance[t] \in Allowances /\ Allowance[t] \in Nat
  BY <1>1, <1>3, GateAssumption DEF Allowances
<1>5. Allowance[t] <= TopAllowance /\ TopAllowance \in Nat /\ rec.count \in Nat
  BY <1>4, TopIsLargest DEF Record
<1> QED
  BY <1>3, <1>4, <1>5

\* What CheckPut makes of the record and the count of queries served.
LEMMA PutCases ==
    ASSUME GateTypeOK, NEW m \in Msgs, CheckPut(m), HasTier(call[m].rec)
    PROVE  LET u   == Sender[m]
               rec == Windowed(call[m].rec)
           IN  /\ UNCHANGED <<clock, overlapped>>
               /\ rec \in Record /\ HasTier(rec)
               /\ \/ UNCHANGED <<store, serves>>
                  \/ /\ store' = [store EXCEPT ![u] = Rec(rec.tier, rec.consent,
                                                          rec.count + 1, rec.start)]
                     /\ \/ serves' = serves
                        \/ /\ rec.count < TopAllowance
                           /\ serves' = [serves EXCEPT ![u] = Plus(serves[u], clock)]
<1> DEFINE u   == Sender[m]
           rec == Windowed(call[m].rec)
<1>1. rec \in Record /\ HasTier(rec)
  <2>1. call[m].rec \in Record
    BY DEF GateTypeOK
  <2>2. rec \in Record /\ rec.tier = call[m].rec.tier
    BY <2>1, WindowedKeeps
  <2> QED
    BY <2>2 DEF HasTier
<1>2. UNCHANGED <<clock, overlapped>>
  BY DEF CheckPut
<1>3. \/ UNCHANGED <<store, serves>>
      \/ /\ ~OverAllowance(rec)
         /\ store' = [store EXCEPT ![u] = Rec(rec.tier, rec.consent, rec.count + 1, rec.start)]
         /\ serves' = IF AllowanceFor(ResolveTier(rec)) = Unlimited THEN serves
                      ELSE [serves EXCEPT ![u] = OneMore(@)]
  BY DEF CheckPut
<1>4. ASSUME ~OverAllowance(rec), AllowanceFor(ResolveTier(rec)) # Unlimited
      PROVE  rec.count < TopAllowance
  BY <1>1, <1>4, UnderAllowance
<1>5. OneMore(serves[u]) = Plus(serves[u], clock)
  BY DEF OneMore, Plus
<1> HIDE DEF rec
<1>6. serves \in [Users -> [Times -> Nat]] /\ u \in Users
  BY SenderAssumption DEF GateTypeOK
<1>7. [serves EXCEPT ![u] = OneMore(@)] = [serves EXCEPT ![u] = Plus(serves[u], clock)]
  BY <1>5, <1>6
<1>8. \/ UNCHANGED <<store, serves>>
      \/ /\ store' = [store EXCEPT ![u] = Rec(rec.tier, rec.consent, rec.count + 1, rec.start)]
         /\ \/ serves' = serves
            \/ /\ rec.count < TopAllowance
               /\ serves' = [serves EXCEPT ![u] = Plus(serves[u], clock)]
  BY <1>3, <1>4, <1>7
<1> QED
  BY <1>1, <1>2, <1>8 DEF rec

\* One query served, within its window or opening one.
LEMMA PutKeepsRate ==
    ASSUME NEW f \in [Times -> Nat], NEW now \in 1..MaxClock, NEW copy \in Record,
           clock = now,
           Accrued(f, now), BoundHolds(f), WindowHolds(f, copy.start, copy.count, now)
    PROVE  LET rec == Windowed(copy)
           IN  /\ WindowHolds(f, rec.start, rec.count + 1, now)
               /\ rec.count < TopAllowance =>
                     /\ WindowHolds(Plus(f, now), rec.start, rec.count + 1, now)
                     /\ BoundHolds(Plus(f, now))
<1> DEFINE rec == Windowed(copy)
<1>0. /\ copy.start \in Times /\ copy.count \in Nat /\ copy.start \in Nat
      /\ now \in Nat /\ now # 0 /\ now \in Times
      /\ RateWindow \in Nat /\ RateWindow > 0
  BY GateAssumption DEF Record, Times
<1>1. CASE /\ copy.start = 0 \/ clock - copy.start >= RateWindow
           /\ rec.count = 0 /\ rec.start = clock
  <2>1. /\ WindowHolds(f, now, 1, now)
        /\ 0 < TopAllowance => WindowHolds(Plus(f, now), now, 1, now)
    BY <1>0, <1>1, ServeAnew
  <2>2. now - now < RateWindow
    BY <1>0
  <2>3. WindowHolds(Plus(f, now), now, 1, now) => BoundHolds(Plus(f, now))
    BY <1>0, <2>2, BoundWithMore
  <2>4. rec.count + 1 = 1 /\ rec.start = now
    BY <1>1
  <2> QED
    BY <1>1, <2>1, <2>3, <2>4
<1>2. CASE ~(copy.start = 0 \/ clock - copy.start >= RateWindow) /\ rec = copy
  <2>1. copy.start # 0 /\ now - copy.start < RateWindow
    BY <1>0, <1>2
  <2>2. /\ WindowHolds(f, copy.start, copy.count + 1, now)
        /\ copy.count < TopAllowance =>
              WindowHolds(Plus(f, now), copy.start, copy.count + 1, now)
    BY <1>0, <2>1, ServeWithin
  <2>3. copy.count + 1 \in Nat
    BY <1>0
  <2>4. WindowHolds(Plus(f, now), copy.start, copy.count + 1, now) => BoundHolds(Plus(f, now))
    BY <1>0, <2>1, <2>3, BoundWithMore
  <2> QED
    BY <1>2, <2>2, <2>4
<1> QED
  BY <1>1, <1>2, WindowedCases

LEMMA RateUserStep ==
    ASSUME GateTypeOK, RateInv, [GateNext]_gateVars, NEW v \in Users
    PROVE  RateUser(v)'
<1>0. /\ RateUser(v) /\ store[v] \in Record /\ serves[v] \in [Times -> Nat]
      /\ clock \in 1..MaxClock /\ Sender \in [Msgs -> Users]
  BY SenderAssumption DEF RateInv, GateTypeOK
<1>1. ASSUME HasTier(store'[v]), store'[v].start = store[v].start, store'[v].count = store[v].count,
             UNCHANGED <<clock, serves>>, overlapped \subseteq overlapped'
      PROVE  RateUser(v)'
  BY <1>0, <1>1 DEF RateUser
<1>2. ASSUME NEW u \in Users, NEW c \in {"granted", "declined"}, SetConsent(u, c)
      PROVE  RateUser(v)'
  <2>1. /\ store'[v].tier = store[v].tier
        /\ store'[v].start = store[v].start /\ store'[v].count = store[v].count
    BY <1>2 DEF SetConsent, GateTypeOK, Rec
  <2> QED
    BY <1>0, <1>1, <1>2, <2>1 DEF SetConsent, HasTier, RateUser
<1>3. ASSUME NEW u \in Users, NEW t \in RequestedTiers, SetTier(u, t) PROVE RateUser(v)'
  <2>1. /\ store'[v].tier \in {store[v].tier, t}
        /\ store'[v].start = store[v].start /\ store'[v].count = store[v].count
    BY <1>3 DEF SetTier, GateTypeOK, Rec
  <2>2. t \in ReachableTiers
    BY <1>3 DEF SetTier, ValidTier, ReachableTiers
  <2> QED
    BY <1>0, <1>1, <1>3, <2>1, <2>2 DEF SetTier, HasTier, RateUser
<1>4. ASSUME NEW m \in Msgs, CheckPut(m) PROVE RateUser(v)'
  <2> DEFINE u   == Sender[m]
             rec == Windowed(call[m].rec)
  <2>0. /\ call[m].rec \in Record /\ u \in Users
        /\ HasTier(call[m].rec)
        /\ u \notin overlapped => /\ call[m].rec.count = store[u].count
                                  /\ call[m].rec.start = store[u].start
    BY <1>0, <1>4 DEF GateTypeOK, CheckPut, RateInv, RateCall
  <2>1. /\ UNCHANGED <<clock, overlapped>>
        /\ rec \in Record /\ HasTier(rec)
        /\ \/ UNCHANGED <<store, serves>>
           \/ /\ store' = [store EXCEPT ![u] = Rec(rec.tier, rec.consent,
                                                   rec.count + 1, rec.start)]
              /\ \/ serves' = serves
                 \/ /\ rec.count < TopAllowance
                    /\ serves' = [serves EXCEPT ![u] = Plus(serves[u], clock)]
    BY <1>4, <2>0, PutCases
  <2>2. CASE v # u \/ UNCHANGED <<store, serves>>
    <3>1. store'[v] = store[v] /\ serves'[v] = serves[v] /\ UNCHANGED <<clock, overlapped>>
      BY <2>0, <2>1, <2>2 DEF GateTypeOK
    <3> QED
      BY <1>0, <3>1 DEF RateUser
  <2>3. CASE /\ v = u
             /\ store' = [store EXCEPT ![u] = Rec(rec.tier, rec.consent, rec.count + 1, rec.start)]
             /\ \/ serves' = serves
                \/ /\ rec.count < TopAllowance
                   /\ serves' = [serves EXCEPT ![u] = Plus(serves[u], clock)]
    <3> HIDE DEF rec
    <3>1. /\ store'[v].tier = rec.tier /\ store'[v].count = rec.count + 1
          /\ store'[v].start = rec.start
      BY <2>0, <2>3 DEF GateTypeOK, Rec
    <3>2. HasTier(store'[v])
      BY <2>1, <3>1 DEF HasTier
    <3>3. \/ serves'[v] = serves[v]
          \/ rec.count < TopAllowance /\ serves'[v] = Plus(serves[v], clock)
      BY <2>0, <2>3 DEF GateTypeOK
    <3>4. Accrued(Plus(serves[v], clock), clock)
      BY <1>0, PlusAccrues DEF RateUser
    <3>5. Accrued(serves'[v], clock)
      BY <1>0, <3>3, <3>4 DEF RateUser
    <3>6. ASSUME v \notin overlapped
          PROVE  /\ WindowHolds(serves'[v], rec.start, rec.count + 1, clock)
                 /\ BoundHolds(serves'[v])
      <4>1. WindowHolds(serves[v], call[m].rec.start, call[m].rec.count, clock)
            /\ BoundHolds(serves[v]) /\ Accrued(serves[v], clock)
        BY <1>0, <2>0, <2>3, <3>6 DEF RateUser
      <4>2. /\ WindowHolds(serves[v], rec.start, rec.count + 1, clock)
            /\ rec.count < TopAllowance =>
                  /\ WindowHolds(Plus(serves[v], clock), rec.start, rec.count + 1, clock)
                  /\ BoundHolds(Plus(serves[v], clock))
        BY <1>0, <2>0, <4>1, PutKeepsRate DEF rec
      <4> QED
        BY <3>3, <4>1, <4>2
    <3> QED
      BY <2>1, <3>1, <3>2, <3>5, <3>6 DEF RateUser
  <2> QED
    BY <2>1, <2>2, <2>3
<1>5. CASE Tick
  <2>1. clock + 1 \in 1..MaxClock /\ clock' = clock + 1 /\ UNCHANGED <<store, serves, overlapped>>
    BY <1>0, <1>5, GateAssumption DEF Tick
  <2>2. store[v].start \in Times /\ store[v].count \in Nat
    BY <1>0 DEF Record
  <2>3. /\ Accrued(serves[v], clock + 1)
        /\ WindowHolds(serves[v], store[v].start, store[v].count, clock) =>
              WindowHolds(serves[v], store[v].start, store[v].count, clock + 1)
    BY <1>0, <2>1, <2>2, WindowTicks DEF RateUser
  <2> QED
    BY <1>0, <2>1, <2>3 DEF RateUser
<1>6. ASSUME UNCHANGED <<clock, store, serves>>, overlapped \subseteq overlapped'
      PROVE  RateUser(v)'
  BY <1>0, <1>6 DEF RateUser
<1>7. ASSUME NEW m \in Msgs, NEW directed \in BOOLEAN, CheckGet(m, directed)
      PROVE  RateUser(v)'
  BY <1>6, <1>7 DEF CheckGet
<1>8. CASE (\E m \in Msgs : CheckNudge(m) \/ Return(m)) \/ GateRestart \/ UNCHANGED gateVars
  BY <1>6, <1>8 DEF CheckNudge, Return, GateRestart, gateVars
<1> QED
  BY <1>2, <1>3, <1>4, <1>5, <1>7, <1>8 DEF GateNext

LEMMA RateCallStep ==
    ASSUME GateTypeOK, RateInv, [GateNext]_gateVars, NEW o \in Msgs
    PROVE  RateCall(o)'
<1>0. /\ \A m \in Msgs : RateCall(m)
      /\ \A u \in Users : HasTier(store[u])
      /\ call \in [Msgs -> CallType] /\ store \in [Users -> Record]
      /\ Sender \in [Msgs -> Users] /\ Sender[o] \in Users
  BY SenderAssumption DEF RateInv, RateUser, GateTypeOK, CallType
\* A step that takes no Check to its write, and leaves the counts of o's sender alone.
<1>1. ASSUME \A m \in Msgs : call'[m].stage = "rate" => call'[m] = call[m],
             \/ call'[o].stage # "rate"
             \/ /\ store'[Sender[o]].count = store[Sender[o]].count
                /\ store'[Sender[o]].start = store[Sender[o]].start,
             UNCHANGED overlapped
      PROVE  RateCall(o)'
  <2> SUFFICES ASSUME call'[o].stage = "rate"
               PROVE  /\ HasTier(call'[o].rec)
                      /\ Sender[o] \notin overlapped =>
                            /\ call'[o].rec.count = store'[Sender[o]].count
                            /\ call'[o].rec.start = store'[Sender[o]].start
                            /\ \A m \in Msgs \ {o} : Sender[m] = Sender[o]
                                                        => call'[m].stage # "rate"
    BY <1>1 DEF RateCall, HasTier
  <2>1. call'[o] = call[o]
    BY <1>1
  <2>2. RateCall(o) /\ call[o].stage = "rate"
    BY <1>0, <2>1
  <2>3. \A m \in Msgs : call'[m].stage = "rate" => call[m].stage = "rate"
    BY <1>1
  <2> QED
    BY <1>1, <2>1, <2>2, <2>3 DEF RateCall
<1>2. ASSUME NEW u \in Users, NEW c \in {"granted", "declined"}, SetConsent(u, c)
      PROVE  RateCall(o)'
  <2>1. /\ store'[Sender[o]].start = store[Sender[o]].start
        /\ store'[Sender[o]].count = store[Sender[o]].count
    BY <1>0, <1>2 DEF SetConsent, Rec
  <2> QED
    BY <1>1, <1>2, <2>1 DEF SetConsent
<1>3. ASSUME NEW u \in Users, NEW t \in RequestedTiers, SetTier(u, t) PROVE RateCall(o)'
  <2>1. /\ store'[Sender[o]].start = store[Sender[o]].start
        /\ store'[Sender[o]].count = store[Sender[o]].count
    BY <1>0, <1>3 DEF SetTier, Rec
  <2> QED
    BY <1>1, <1>3, <2>1 DEF SetTier
<1>4. ASSUME NEW m \in Msgs, NEW d \in Decisions, Decide(m, d)
      PROVE  \A n \in Msgs : call'[n].stage = "rate" => call'[n] = call[n]
  <2>1. call'[m].stage = "done" /\ \A n \in Msgs \ {m} : call'[n] = call[n]
    BY <1>4, DecideCall
  <2> QED
    BY <2>1
<1>5. ASSUME NEW m \in Msgs, NEW directed \in BOOLEAN, CheckGet(m, directed)
      PROVE  RateCall(o)'
  <2> DEFINE u  == Sender[m]
             to == AfterGet(store[u], directed)
             cl == [stage |-> to.stage, decision |-> to.decision,
                    rec |-> IF to.stage = "rate" THEN store[u] ELSE ZeroRecord,
                    answered |-> to.stage = "nudge" /\ wanted[u].consent # "unknown"]
  <2>0. UNCHANGED store /\ u \in Users
    BY <1>0, <1>5 DEF CheckGet
  <2>1. CASE Decide(m, "refuse") /\ UNCHANGED overlapped
    BY <1>1, <1>4, <2>0, <2>1 DEF Decisions
  <2>2. CASE /\ call' = [call EXCEPT ![m] = cl]
             /\ overlapped' = IF to.stage = "rate" /\ Rivals(m) # {}
                              THEN overlapped \cup {u} ELSE overlapped
    <3>1. call'[m].stage = to.stage /\ \A n \in Msgs \ {m} : call'[n] = call[n]
      BY <1>0, <2>2
    <3>2. CASE to.stage # "rate"
      <4>1. UNCHANGED overlapped /\ \A n \in Msgs : call'[n].stage = "rate" => call'[n] = call[n]
        BY <2>2, <3>1, <3>2
      <4> QED
        BY <1>1, <2>0, <4>1
    <3>3. CASE to.stage = "rate"
      <4>1. call'[m].rec = store[u]
        BY <1>0, <2>2, <3>3
      <4> HIDE DEF to
      <4> SUFFICES ASSUME call'[o].stage = "rate"
                   PROVE  /\ HasTier(call'[o].rec)
                          /\ Sender[o] \notin overlapped' =>
                                /\ call'[o].rec.count = store'[Sender[o]].count
                                /\ call'[o].rec.start = store'[Sender[o]].start
                                /\ \A n \in Msgs \ {o} : Sender[n] = Sender[o]
                                                            => call'[n].stage # "rate"
        BY DEF RateCall, HasTier
      <4>2. CASE o = m
        <5>1. HasTier(call'[o].rec)
          BY <1>0, <2>0, <4>1, <4>2
        <5>2. u \notin overlapped' => Rivals(m) = {}
          BY <2>2, <3>3
        <5>3. u \notin overlapped' => \A n \in Msgs \ {m} : Sender[n] = u => call[n].stage # "rate"
          BY <5>2 DEF Rivals
        <5> QED
          BY <2>0, <3>1, <4>1, <4>2, <5>1, <5>3
      <4>3. CASE o # m
        <5>1. call'[o] = call[o] /\ call[o].stage = "rate" /\ RateCall(o)
          BY <1>0, <3>1, <4>3
        <5>2. Sender[o] = u => u \in overlapped'
          <6>1. Sender[o] = u => o \in Rivals(m)
            BY <4>3, <5>1 DEF Rivals
          <6> QED
            BY <2>2, <3>3, <6>1
        <5>3. overlapped \subseteq overlapped'
          BY <2>2
        <5>4. HasTier(call'[o].rec)
          BY <5>1 DEF RateCall
        <5>5. ASSUME Sender[o] \notin overlapped'
              PROVE  /\ call'[o].rec.count = store'[Sender[o]].count
                     /\ call'[o].rec.start = store'[Sender[o]].start
                     /\ \A n \in Msgs \ {o} : Sender[n] = Sender[o] => call'[n].stage # "rate"
          <6>1. Sender[o] # u /\ Sender[o] \notin overlapped
            BY <5>2, <5>3, <5>5
          <6>2. /\ call[o].rec.count = store[Sender[o]].count
                /\ call[o].rec.start = store[Sender[o]].start
                /\ \A n \in Msgs \ {o} : Sender[n] = Sender[o] => call[n].stage # "rate"
            BY <5>1, <6>1 DEF RateCall
          <6>3. \A n \in Msgs \ {o} : Sender[n] = Sender[o] => call'[n] = call[n]
            BY <3>1, <6>1
          <6> QED
            BY <2>0, <5>1, <6>2, <6>3
        <5> QED
          BY <5>4, <5>5
      <4> QED
        BY <4>2, <4>3
    <3> QED
      BY <3>2, <3>3
  <2> QED
    BY <1>5, <2>1, <2>2 DEF CheckGet
<1>6. ASSUME NEW m \in Msgs, CheckNudge(m) PROVE RateCall(o)'
  <2>1. PICK d \in {"nudge", "silent"} : Decide(m, d)
    BY <1>6 DEF CheckNudge
  <2>2. UNCHANGED <<store, overlapped>>
    BY <1>6 DEF CheckNudge
  <2> QED
    BY <1>1, <1>4, <2>1, <2>2 DEF Decisions
\* The write changes the record of a user of whom, but for overlaps, no other Check
\* holds a copy.
<1>7. ASSUME NEW m \in Msgs, CheckPut(m) PROVE RateCall(o)'
  <2>1. PICK d \in {"ratelimited", "serve", "refuse"} : Decide(m, d)
    BY <1>7 DEF CheckPut
  <2>2. /\ UNCHANGED overlapped /\ call[m].stage = "rate"
        /\ \A u \in Users : u # Sender[m] => store'[u] = store[u]
    BY <1>0, <1>7 DEF CheckPut
  <2>3. /\ call'[m].stage = "done"
        /\ \A n \in Msgs \ {m} : call'[n] = call[n]
    BY <2>1, DecideCall DEF Decisions
  <2>4. CASE o = m
    BY <2>3, <2>4 DEF RateCall
  <2>5. CASE Sender[o] # Sender[m]
    BY <1>0, <1>1, <1>4, <2>1, <2>2, <2>5 DEF Decisions
  <2>6. CASE o # m /\ Sender[o] = Sender[m]
    <3> SUFFICES ASSUME call'[o].stage = "rate"
                 PROVE  HasTier(call'[o].rec) /\ Sender[o] \in overlapped'
      BY DEF RateCall, HasTier
    <3>1. call'[o] = call[o] /\ RateCall(o)
      BY <1>0, <2>3, <2>6
    <3>2. m \in Msgs \ {o} /\ Sender[m] = Sender[o] /\ call[m].stage = "rate"
      BY <2>2, <2>6
    <3> QED
      BY <2>2, <3>1, <3>2 DEF RateCall
  <2> QED
    BY <2>4, <2>5, <2>6
<1>8. ASSUME \A m \in Msgs : call'[m] = NoCall \/ call'[m] = call[m], UNCHANGED <<store, overlapped>>
      PROVE  RateCall(o)'
  <2>1. \A m \in Msgs : call'[m].stage = "rate" => call'[m] = call[m]
    BY <1>8 DEF NoCall
  <2> QED
    BY <1>1, <1>8, <2>1
<1>9. ASSUME NEW m \in Msgs, Return(m) PROVE RateCall(o)'
  <2>1. \A n \in Msgs : call'[n] = NoCall \/ call'[n] = call[n]
    BY <1>0, <1>9 DEF Return
  <2> QED
    BY <1>8, <1>9, <2>1 DEF Return
<1>10. CASE GateRestart
  BY <1>8, <1>10 DEF GateRestart
<1>11. CASE Tick \/ UNCHANGED gateVars
  BY <1>8, <1>11 DEF Tick, gateVars
<1> QED
  BY <1>2, <1>3, <1>5, <1>6, <1>7, <1>9, <1>10, <1>11 DEF GateNext

LEMMA RateInitially == GateInit => RateInv
<1> SUFFICES ASSUME GateInit PROVE RateInv
  OBVIOUS
<1>1. ASSUME NEW u \in Users PROVE RateUser(u)
  <2>1. /\ store[u].tier = EarlierTier[u] /\ store[u].start = 0 /\ store[u].count = 0
        /\ serves[u] = [t \in Times |-> 0] /\ clock = 1
    BY DEF GateInit, Rec
  <2>2. HasTier(store[u])
    BY <2>1, GateAssumption DEF HasTier, ReachableTiers, Range
  <2>3. clock \in Times /\ \A t \in Times : serves[u][t] = 0
    BY <2>1, GateAssumption DEF Times
  <2>4. Accrued(serves[u], clock) /\ WindowHolds(serves[u], 0, 0, clock)
    BY <2>1, <2>3 DEF Accrued, WindowHolds
  <2>5. BoundHolds(serves[u])
    <3> SUFFICES ASSUME NEW t \in 1..MaxClock
                 PROVE  serves[u][IF t + RateWindow - 1 <= MaxClock THEN t + RateWindow - 1
                                  ELSE MaxClock] - serves[u][t-1] <= 2 * TopAllowance
      BY DEF BoundHolds
    <3>1. /\ (IF t + RateWindow - 1 <= MaxClock THEN t + RateWindow - 1 ELSE MaxClock) \in Times
          /\ t - 1 \in Times
      BY GateAssumption DEF Times
    <3> QED
      BY <2>3, <3>1, TopIsLargest
  <2> QED
    BY <2>1, <2>2, <2>4, <2>5 DEF RateUser
<1>2. ASSUME NEW m \in Msgs PROVE RateCall(m)
  BY DEF GateInit, RateCall, NoCall
<1> QED
  BY <1>1, <1>2 DEF RateInv

LEMMA RateInvStep == GateTypeOK /\ RateInv /\ [GateNext]_gateVars => RateInv'
<1> SUFFICES ASSUME GateTypeOK, RateInv, [GateNext]_gateVars PROVE RateInv'
  OBVIOUS
<1>1. \A u \in Users : RateUser(u)'
  BY RateUserStep
<1>2. \A m \in Msgs : RateCall(m)'
  BY RateCallStep
<1> QED
  BY <1>1, <1>2 DEF RateInv

-----------------------------------------------------------------------------
(* The theorems *)

\* The gate's records, copies and decisions keep their types: no tier without a rank
\* is ever stored, by SetTier or by the write of Gate.Check.
THEOREM GateTypeCorrect == GateSpec => []GateTypeOK
BY GateInvariance, PTL DEF GateInv

\* Consent is never inferred, for any number of users and messages: a record says
\* granted, and a message is answered or logged, only if its user opted in at some
\* time, although Gate.Check may write back a record that others have changed.
THEOREM ConsentNotInferred == GateSpec => []ConsentNeverInferred
BY GateInvariance, PTL DEF GateInv

\* Whoever answered, yes or no, before a Check read their record is not nudged by it:
\* a stale write can bring back the other answer, never "unknown" (Gate.Check).
THEOREM AnsweredNotNudged == GateSpec => []NeverNudgedOnceAnswered
BY GateInvariance, PTL DEF GateInv

\* The nudge map with its sweeps is one timestamp per user: an undecided user is nudged
\* exactly when a cooldown has passed since the last nudge to them, for any number of
\* users whose nudges sweep the map (Gate.nudge).
THEOREM NudgedOncePerCooldown == GateSpec => NudgeOncePerCooldown
<1>1. GateInit => NudgeInv
  <2> SUFFICES ASSUME GateInit PROVE NudgeInv
    OBVIOUS
  <2>1. clock = 1 /\ \A u \in Users : lastNudge[u] = 0 /\ nudged[u] = 0
    BY DEF GateInit
  <2>2. ASSUME NEW u \in Users
        PROVE  lastNudge[u] <= clock /\ nudged[u] = lastNudge[u]
    BY <2>1
  <2> QED
    BY <2>2, Zenon DEF NudgeInv
<1>2. GateTypeOK /\ NudgeInv /\ [GateNext]_gateVars =>
        [\A m \in Msgs :
           call[m].stage = "nudge" /\ call'[m].stage = "done" =>
             LET last == lastNudge[Sender[m]]
             IN  call'[m].decision = "nudge" <=> (last = 0 \/ clock - last >= Cooldown)]_gateVars
  BY NudgeEnds, NudgeDecides
<1> QED
  BY <1>1, <1>2, NudgeInvStep, GateTypeCorrect, PTL DEF GateSpec, NudgeOncePerCooldown

\* No stretch of RateWindow ticks serves a user more than twice the largest allowance a
\* tier of theirs can have, however their tier and consent change and however often the
\* bot restarts, unless two Checks of theirs overlapped (Gate.Check).
THEOREM RateLimited == GateSpec => []RateBound
<1>1. RateInv => RateBound
  <2> SUFFICES ASSUME RateInv, NEW u \in Users \ overlapped, NEW t \in 1..MaxClock
               PROVE  ServedIn(u, t, t + RateWindow - 1) <= 2 * TopAllowance
    BY DEF RateBound
  <2>1. BoundHolds(serves[u])
    BY DEF RateInv, RateUser
  <2> QED
    BY <2>1 DEF BoundHolds, ServedIn
<1> QED
  BY <1>1, RateInitially, RateInvStep, GateTypeCorrect, PTL DEF GateSpec
=============================================================================
