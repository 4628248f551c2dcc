-------------------------- MODULE Callbacks_proofs --------------------------
(***************************************************************************)
(* Buttons, for any number of users, tokens, clicks and messages: a click   *)
(* step is a step of the gate, the types hold, an action runs at most once, *)
(* authority comes only from those who have it, and clicks learn the truth. *)
(***************************************************************************)
EXTENDS Callbacks, Gate_proofs

-----------------------------------------------------------------------------
(* Actions and tokens *)

LEMMA AskedType ==
    ASSUME NEW a \in Asked
    PROVE  /\ a \in Action
           /\ ValidParams(a) /\ a.verb = "set_tier" =>
                 a.user \in Users /\ a.tier \in RequestedTiers
<1>1. a \in Action
  BY CallbackAssumption DEF Asked, OptIn, DismissIt, Act, Action, Verbs
<1>2. a.tier \in RequestedTiers \cup {NoTier}
  BY <1>1 DEF Action
<1>3. NoTier \notin TierNames
  BY DEF NoTier, TierNames
<1> QED
  BY <1>1, <1>2, <1>3 DEF ValidParams, ValidTier, Action

LEMMA TokenType ==
    ASSUME NEW state \in {"none", "fresh", "consumed"}, NEW a \in Asked, NEW e \in Nat
    PROVE  /\ Token(state, a, e) \in TokenRecord
           /\ Token(state, a, e).state = state
           /\ Token(state, a, e).action = a
           /\ Token(state, a, e).expires = e
BY DEF Token, TokenRecord

LEMMA AbsentType == Absent \in TokenRecord /\ Absent.state = "none" /\ Absent.expires = 0
BY TokenType DEF Absent, Asked

\* What minting tokens for a reply does to each token.
LEMMA MintEffect ==
    ASSUME TypeOK, NEW acts \in Seq(Asked), Mint(acts)
    PROVE  /\ pending' \in [Tokens -> TokenRecord]
           /\ expiry' \in [Tokens -> Nat]
           /\ shown' \in SUBSET Tokens
           /\ \A t \in Tokens : \/ pending'[t] = pending[t] /\ expiry'[t] = expiry[t]
                                \/ /\ expiry[t] = 0 /\ expiry'[t] # 0
                                   /\ pending'[t].state = "fresh"
                                   /\ pending'[t].expires = expiry'[t]
           /\ \A t \in shown' : t \in shown \/ expiry'[t] # 0
           /\ UNCHANGED <<gateVars, clickVars, ran, appointed>>
<1>1. PICK n \in 0..Len(acts) : \E tok \in [1..n -> Unused] : Stored(acts, n, tok)
  BY DEF Mint
<1>2. PICK tok \in [1..n -> Unused] : Stored(acts, n, tok)
  BY <1>1
<1>3. \A t \in Range(tok) : t \in Tokens /\ expiry[t] = 0
  BY DEF Range, Unused
<1>4. clock + TTL \in Nat /\ clock + TTL # 0
  BY CallbackAssumption, GateAssumption DEF TypeOK, GateTypeOK
<1>5. ASSUME NEW t \in Range(tok) PROVE ActionOf(t, acts, tok) \in Asked
  <2>1. PICK i \in DOMAIN tok : tok[i] = t
    BY DEF Range
  <2>2. (CHOOSE j \in DOMAIN tok : tok[j] = t) \in DOMAIN tok
    BY <2>1
  <2>3. DOMAIN tok \subseteq 1..Len(acts)
    OBVIOUS
  <2> QED
    BY <2>2, <2>3 DEF ActionOf
<1>6. ASSUME NEW t \in Range(tok)
      PROVE  /\ Token("fresh", ActionOf(t, acts, tok), clock + TTL) \in TokenRecord
             /\ Token("fresh", ActionOf(t, acts, tok), clock + TTL).state = "fresh"
             /\ Token("fresh", ActionOf(t, acts, tok), clock + TTL).expires = clock + TTL
  BY <1>4, <1>5, TokenType
<1>7. pending' \in [Tokens -> TokenRecord] /\ expiry' \in [Tokens -> Nat]
  BY <1>2, <1>4, <1>6 DEF TypeOK, Stored
<1>8. shown' \in SUBSET Tokens /\ \A t \in shown' : t \in shown \/ expiry'[t] # 0
  BY <1>2, <1>3, <1>4 DEF TypeOK, Stored
<1>9. ASSUME NEW t \in Tokens
      PROVE  \/ pending'[t] = pending[t] /\ expiry'[t] = expiry[t]
             \/ /\ expiry[t] = 0 /\ expiry'[t] # 0
                /\ pending'[t].state = "fresh" /\ pending'[t].expires = expiry'[t]
  BY <1>2, <1>3, <1>4, <1>6 DEF Stored
<1>10. UNCHANGED <<gateVars, clickVars, ran, appointed>>
  BY DEF Mint
<1> QED
  BY <1>7, <1>8, <1>9, <1>10

\* Both ways to put actions on buttons mint tokens for actions that were asked for.
LEMMA OfferMints ==
    ASSUME \/ \E u \in Users : OfferOptIn(u)
           \/ \E p \in Proposals, u \in Users, surface \in {"dm", "group"} :
                 Propose(p, u, surface)
    PROVE  \E acts \in Seq(Asked) : Mint(acts)
<1>1. <<OptIn>> \in Seq(Asked)
  BY DEF Asked
<1>2. \A p \in Proposals : <<p, DismissIt>> \in Seq(Asked)
  BY DEF Asked
<1> QED
  BY <1>1, <1>2 DEF OfferOptIn, Propose

-----------------------------------------------------------------------------
(* A click is a step of the gate, and the types *)

LEMMA ExecuteSteps ==
    ASSUME TypeOK, NEW c \in Clicks, Execute(c)
    PROVE  \/ UNCHANGED gateVars
           \/ \E u \in Users, t \in RequestedTiers : SetTier(u, t)
           \/ \E u \in Users : SetConsent(u, "granted")
<1>1. doing[c] \in Asked /\ Clicker[c] \in Users
  BY CallbackAssumption DEF TypeOK
<1> QED
  BY <1>1, AskedType DEF Execute, Effect

LEMMA GateStepOfNext == TypeOK /\ [Next]_vars => [GateNext]_gateVars
<1> SUFFICES ASSUME TypeOK, [Next]_vars PROVE [GateNext]_gateVars
  OBVIOUS
<1>1. CASE \/ \E u \in Users : OfferOptIn(u)
           \/ \E p \in Proposals, u \in Users, surface \in {"dm", "group"} :
                 Propose(p, u, surface)
  <2>1. PICK acts \in Seq(Asked) : Mint(acts)
    BY <1>1, OfferMints
  <2> QED
    BY <2>1, MintEffect
<1>2. ASSUME NEW c \in Clicks, ClickStep(c) PROVE [GateNext]_gateVars
  <2>1. CASE Execute(c)
    BY <2>1, ExecuteSteps DEF GateNext
  <2> QED
    BY <1>2, <2>1 DEF ClickStep, Resolve, Authorize
<1>3. CASE GateStep
  BY <1>3 DEF GateStep, GateNext
<1>4. CASE Sweep \/ PassTime \/ Restart \/ UNCHANGED vars
  BY <1>4 DEF Sweep, PassTime, Restart, GateNext, vars
<1> QED
  BY <1>1, <1>2, <1>3, <1>4 DEF Next

ButtonsOK ==
    /\ pending \in [Tokens -> TokenRecord]
    /\ shown \in SUBSET Tokens
    /\ stage \in [Clicks -> Stages]
    /\ token \in [Clicks -> Tokens]
    /\ doing \in [Clicks -> Asked]
    /\ notice \in [Clicks -> Notices]
    /\ expiry \in [Tokens -> Nat]
    /\ ran \in [Tokens -> Nat]
    /\ appointed \in SUBSET Users

LEMMA TypeParts == TypeOK <=> GateTypeOK /\ ButtonsOK
BY DEF TypeOK, ButtonsOK

LEMMA InitType == Init => TypeOK
<1> SUFFICES ASSUME Init PROVE TypeOK
  OBVIOUS
<1>1. GateTypeOK
  BY GateInitType DEF Init
<1>2. PICK left \in [Tokens -> Leftovers \cup {DismissIt}] :
        pending = [t \in Tokens |-> IF left[t] = DismissIt THEN Absent
                                    ELSE Token("fresh", left[t], TTL)]
  BY DEF Init
<1>3. pending \in [Tokens -> TokenRecord]
  <2>1. \A t \in Tokens : left[t] \in Asked
    BY DEF Asked
  <2>2. \A t \in Tokens : Token("fresh", left[t], TTL) \in TokenRecord
    BY <2>1, TokenType, CallbackAssumption
  <2> QED
    BY <1>2, <2>2, AbsentType
<1>4. \A t \in Tokens : pending[t].expires \in Nat
  BY <1>3 DEF TokenRecord
<1>5. (CHOOSE t \in Tokens : TRUE) \in Tokens /\ DismissIt \in Asked
  BY CallbackAssumption DEF Asked
<1>6. ButtonsOK
  BY <1>3, <1>4, <1>5 DEF Init, ButtonsOK, Stages, Notices
<1> QED
  BY <1>1, <1>6, TypeParts

LEMMA NextType == TypeOK /\ [Next]_vars => TypeOK'
<1> SUFFICES ASSUME TypeOK, [Next]_vars PROVE TypeOK'
  OBVIOUS
<1>0. ButtonsOK
  BY TypeParts
<1>1. GateTypeOK'
  BY GateStepOfNext, GateNextType, TypeParts
<1> SUFFICES ButtonsOK'
  BY <1>1 DEF TypeOK, ButtonsOK
<1>2. CASE \/ \E u \in Users : OfferOptIn(u)
           \/ \E p \in Proposals, u \in Users, surface \in {"dm", "group"} :
                 Propose(p, u, surface)
  <2>1. PICK acts \in Seq(Asked) : Mint(acts)
    BY <1>2, OfferMints
  <2> QED
    BY <1>0, <2>1, MintEffect DEF ButtonsOK, clickVars
<1>3. ASSUME NEW c \in Clicks, NEW t \in Tokens, Resolve(c, t) PROVE ButtonsOK'
  <2>1. /\ pending[t].action \in Asked
        /\ Token("consumed", pending[t].action, pending[t].expires) \in TokenRecord
    BY <1>0, TokenType DEF ButtonsOK, TokenRecord
  <2> QED
    BY <1>0, <1>3, <2>1 DEF Resolve, Answer, Verdict, ButtonsOK, Stages, Notices
<1>4. ASSUME NEW c \in Clicks, Authorize(c) PROVE ButtonsOK'
  BY <1>0, <1>4 DEF Authorize, Answer, ButtonsOK, Stages, Notices
<1>5. ASSUME NEW c \in Clicks, Execute(c) PROVE ButtonsOK'
  <2>1. doing[c] \in Asked /\ Clicker[c] \in Users
    BY <1>0, CallbackAssumption DEF ButtonsOK
  <2>2. appointed' \in SUBSET Users
    BY <1>0, <1>5, <2>1, AskedType DEF Execute, Effect, ButtonsOK
  <2>3. ran' \in [Tokens -> Nat]
    BY <1>0, <1>5 DEF Execute, ButtonsOK
  <2> QED
    BY <1>0, <1>5, <2>2, <2>3 DEF Execute, Answer, ButtonsOK, Stages, Notices
<1>6. CASE Sweep
  BY <1>0, <1>6, AbsentType DEF Sweep, ButtonsOK, clickVars
<1>7. CASE GateStep \/ PassTime \/ UNCHANGED vars
  BY <1>0, <1>7 DEF GateStep, PassTime, vars, clickVars, ButtonsOK
<1>8. CASE Restart
  BY <1>0, <1>8 DEF Restart, ButtonsOK, Stages
<1> QED
  BY <1>2, <1>3, <1>4, <1>5, <1>6, <1>7, <1>8 DEF Next, ClickStep

-----------------------------------------------------------------------------
(* An action runs at most once *)

\* A token that was clicked or has run was minted and is not fresh any more; while a
\* click of it is under way it has not run, and no other click got it.
TokenOK(t) ==
    /\ pending[t].state = "fresh" => expiry[t] # 0
    /\ t \in shown => expiry[t] # 0
    /\ ran[t] # 0 => pending[t].state # "fresh" /\ expiry[t] # 0
    /\ ran[t] <= 1

ClickOK(c) ==
    UnderWay(c) =>
        /\ pending[token[c]].state # "fresh" /\ expiry[token[c]] # 0
        /\ ran[token[c]] = 0
        /\ \A d \in Clicks : UnderWay(d) /\ token[d] = token[c] => d = c

OnceInv ==
    /\ TypeOK
    /\ \A t \in Tokens : TokenOK(t)
    /\ \A c \in Clicks : ClickOK(c)

LEMMA InitOnce == Init => OnceInv
<1> SUFFICES ASSUME Init PROVE OnceInv
  OBVIOUS
<1>1. TypeOK
  BY InitType
<1>2. \A c \in Clicks : ClickOK(c)
  BY DEF Init, ClickOK, UnderWay
<1>3. PICK left \in [Tokens -> Leftovers \cup {DismissIt}] :
        pending = [t \in Tokens |-> IF left[t] = DismissIt THEN Absent
                                    ELSE Token("fresh", left[t], TTL)]
  BY DEF Init
<1>4. ASSUME NEW t \in Tokens, pending[t].state = "fresh" PROVE pending[t].expires # 0
  <2>1. left[t] \in Asked
    BY DEF Asked
  <2>2. /\ Token("fresh", left[t], TTL).expires = TTL
        /\ TTL # 0
    BY <2>1, TokenType, CallbackAssumption
  <2>3. pending[t] = Token("fresh", left[t], TTL)
    BY <1>3, <1>4, AbsentType
  <2> QED
    BY <2>2, <2>3
<1>5. ASSUME NEW t \in Tokens PROVE TokenOK(t)
  <2>1. expiry[t] = pending[t].expires /\ ran[t] = 0
    BY DEF Init
  <2>2. t \in shown => pending[t].state = "fresh"
    BY DEF Init
  <2> QED
    BY <1>4, <2>1, <2>2 DEF TokenOK
<1> QED
  BY <1>1, <1>2, <1>5 DEF OnceInv

LEMMA NextOnce == OnceInv /\ [Next]_vars => OnceInv'
<1> SUFFICES ASSUME OnceInv, [Next]_vars PROVE OnceInv'
  OBVIOUS
<1>0. /\ TypeOK /\ ButtonsOK
      /\ \A t \in Tokens : TokenOK(t)
      /\ \A c \in Clicks : ClickOK(c)
  BY TypeParts DEF OnceInv
<1>1. TypeOK'
  BY <1>0, NextType
<1> SUFFICES (\A t \in Tokens : TokenOK(t)') /\ (\A c \in Clicks : ClickOK(c)')
  BY <1>1 DEF OnceInv
<1>2. CASE \/ \E u \in Users : OfferOptIn(u)
           \/ \E p \in Proposals, u \in Users, surface \in {"dm", "group"} :
                 Propose(p, u, surface)
  <2>1. PICK acts \in Seq(Asked) : Mint(acts)
    BY <1>2, OfferMints
  <2>2. /\ \A t \in Tokens : \/ pending'[t] = pending[t] /\ expiry'[t] = expiry[t]
                             \/ /\ expiry[t] = 0 /\ expiry'[t] # 0
                                /\ pending'[t].state = "fresh"
        /\ \A t \in shown' : t \in shown \/ expiry'[t] # 0
        /\ UNCHANGED <<ran, stage, token>>
    BY <1>0, <2>1, MintEffect DEF clickVars
  <2>3. ASSUME NEW t \in Tokens PROVE TokenOK(t)'
    BY <1>0, <2>2 DEF TokenOK
  <2>4. ASSUME NEW c \in Clicks PROVE ClickOK(c)'
    BY <1>0, <2>2 DEF ClickOK, UnderWay, ButtonsOK
  <2> QED
    BY <2>3, <2>4
<1>3. ASSUME NEW c \in Clicks, NEW t \in Tokens, Resolve(c, t)
      PROVE  (\A s \in Tokens : TokenOK(s)') /\ (\A d \in Clicks : ClickOK(d)')
  <2>1. CASE /\ Verdict(t) = "resolved"
             /\ pending' = [pending EXCEPT ![t] = Token("consumed", @.action, @.expires)]
             /\ stage' = [stage EXCEPT ![c] = "resolved"]
    <3>1. pending[t].state = "fresh"
      BY <1>0, <2>1 DEF Verdict, ButtonsOK, TokenRecord
    <3>2. pending'[t].state = "consumed"
      BY <1>0, <2>1, TokenType DEF ButtonsOK, TokenRecord
    <3>3. /\ \A s \in Tokens : s # t => pending'[s] = pending[s]
          /\ token' = [token EXCEPT ![c] = t]
          /\ UNCHANGED <<shown, expiry, ran>>
      BY <1>0, <1>3, <2>1 DEF Resolve, ButtonsOK
    <3>4. /\ ran[t] = 0 /\ expiry[t] # 0
          /\ \A d \in Clicks : UnderWay(d) => token[d] # t
      BY <1>0, <3>1 DEF TokenOK, ClickOK
    <3>5. ASSUME NEW s \in Tokens PROVE TokenOK(s)'
      BY <1>0, <3>2, <3>3, <3>4 DEF TokenOK
    <3>6. ASSUME NEW d \in Clicks PROVE ClickOK(d)'
      BY <1>0, <2>1, <3>2, <3>3, <3>4 DEF ClickOK, UnderWay, ButtonsOK
    <3> QED
      BY <3>5, <3>6
  <2>2. CASE UNCHANGED pending /\ stage' = [stage EXCEPT ![c] = "answered"]
    <3>1. /\ \A d \in Clicks : UnderWay(d)' => UnderWay(d) /\ token'[d] = token[d]
          /\ UNCHANGED <<shown, expiry, ran>>
      BY <1>0, <1>3, <2>2 DEF Resolve, UnderWay, ButtonsOK
    <3> QED
      BY <1>0, <2>2, <3>1 DEF TokenOK, ClickOK
  <2> QED
    BY <1>3, <2>1, <2>2 DEF Resolve, Answer
<1>4. ASSUME NEW c \in Clicks, Authorize(c)
      PROVE  (\A s \in Tokens : TokenOK(s)') /\ (\A d \in Clicks : ClickOK(d)')
  <2>1. /\ \A d \in Clicks : UnderWay(d)' => UnderWay(d)
        /\ UNCHANGED <<pending, shown, token, expiry, ran>>
    BY <1>0, <1>4 DEF Authorize, Answer, UnderWay, ButtonsOK
  <2> QED
    BY <1>0, <2>1 DEF TokenOK, ClickOK
<1>5. ASSUME NEW c \in Clicks, Execute(c)
      PROVE  (\A s \in Tokens : TokenOK(s)') /\ (\A d \in Clicks : ClickOK(d)')
  <2>1. /\ UnderWay(c) /\ token[c] \in Tokens /\ ran[token[c]] = 0
        /\ pending[token[c]].state # "fresh" /\ expiry[token[c]] # 0
        /\ \A d \in Clicks : UnderWay(d) /\ token[d] = token[c] => d = c
    BY <1>0, <1>5 DEF Execute, UnderWay, ClickOK, ButtonsOK
  <2>2. /\ \A d \in Clicks : UnderWay(d)' => UnderWay(d) /\ d # c
        /\ UNCHANGED <<pending, shown, token, expiry>>
    BY <1>0, <1>5 DEF Execute, Answer, UnderWay, ButtonsOK
  <2>3. ran' = ran \/ ran' = [ran EXCEPT ![token[c]] = @ + 1]
    BY <1>5 DEF Execute
  <2>4. /\ ran'[token[c]] \in {0, 1}
        /\ \A s \in Tokens : s # token[c] => ran'[s] = ran[s]
    BY <1>0, <2>1, <2>3 DEF ButtonsOK
  <2>5. ASSUME NEW s \in Tokens PROVE TokenOK(s)'
    BY <1>0, <2>1, <2>2, <2>4 DEF TokenOK
  <2>6. ASSUME NEW d \in Clicks PROVE ClickOK(d)'
    BY <1>0, <2>1, <2>2, <2>4 DEF ClickOK, ButtonsOK
  <2> QED
    BY <2>5, <2>6
<1>6. CASE Sweep
  <2>1. /\ \A t \in Tokens : pending'[t] = pending[t] \/ pending'[t] = Absent
        /\ UNCHANGED <<shown, stage, token, expiry, ran>>
    BY <1>0, <1>6 DEF Sweep, clickVars
  <2>2. Absent.state # "fresh"
    BY AbsentType
  <2>3. ASSUME NEW t \in Tokens PROVE TokenOK(t)'
    BY <1>0, <2>1, <2>2 DEF TokenOK
  <2>4. ASSUME NEW c \in Clicks PROVE ClickOK(c)'
    BY <1>0, <2>1, <2>2 DEF ClickOK, UnderWay, ButtonsOK
  <2> QED
    BY <2>3, <2>4
<1>7. CASE GateStep \/ PassTime \/ UNCHANGED vars
  <2>1. UNCHANGED <<pending, shown, stage, token, expiry, ran>>
    BY <1>7 DEF GateStep, PassTime, vars, clickVars
  <2> QED
    BY <1>0, <2>1 DEF TokenOK, ClickOK, UnderWay
<1>8. CASE Restart
  <2>1. /\ \A c \in Clicks : UnderWay(c)' => UnderWay(c)
        /\ UNCHANGED <<pending, shown, token, expiry, ran>>
    BY <1>0, <1>8 DEF Restart, UnderWay, ButtonsOK
  <2> QED
    BY <1>0, <2>1 DEF TokenOK, ClickOK
<1> QED
  BY <1>2, <1>3, <1>4, <1>5, <1>6, <1>7, <1>8 DEF Next, ClickStep

LEMMA OnceInvariance == Spec => []OnceInv
BY InitOnce, NextOnce, PTL DEF Spec

-----------------------------------------------------------------------------
(* Authority comes from those who have it *)

\* A copy the gate will write back is no more an admin's than the record was, and
\* whoever was authorized to set tiers had been appointed.
CopyOK(m) == call[m].stage = "rate" /\ IsAdmin(call[m].rec) => Sender[m] \in appointed

SubjectOK(c) == stage[c] = "authorized" /\ doing[c].verb = "set_tier" => Clicker[c] \in appointed

AuthorityInv ==
    /\ TypeOK
    /\ AuthorityFromAdmins
    /\ \A m \in Msgs : CopyOK(m)
    /\ \A c \in Clicks : SubjectOK(c)

\* A record with the same tier has the same authority.
LEMMA SameTier ==
    ASSUME NEW r, NEW s, r.tier = s.tier
    PROVE  IsAdmin(r) <=> IsAdmin(s)
BY DEF IsAdmin, ResolveTier

LEMMA RecTier ==
    ASSUME NEW t, NEW c, NEW n, NEW st
    PROVE  Rec(t, c, n, st).tier = t
BY DEF Rec

LEMMA WindowedTier ==
    ASSUME NEW r
    PROVE  Windowed(r).tier = r.tier
BY DEF Windowed, Rec

\* Only the tier an admin is given makes one.
LEMMA AdminTier ==
    ASSUME NEW r, r.tier \in TierNames, IsAdmin(r)
    PROVE  r.tier = "admin"
<1>1. NoTier \notin TierNames
  BY DEF NoTier, TierNames
<1>2. Rank[r.tier] >= Rank["admin"] /\ "admin" \in TierNames
  BY <1>1 DEF IsAdmin, AtLeast, ResolveTier, TierNames
<1>3. Rank["admin"] = 4
  BY DEF Rank, TierNames
<1> QED
  BY <1>2, <1>3 DEF Rank, TierNames

\* What a step of the gate other than SetTier does to the tiers in the store and in
\* the copies.
LEMMA GateTiers ==
    ASSUME TypeOK,
           \/ \E u \in Users, c \in Consents : SetConsent(u, c)
           \/ \E m \in Msgs : CheckGet(m, TRUE) \/ CheckNudge(m) \/ CheckPut(m)
           \/ Tick \/ GateRestart \/ UNCHANGED gateVars
    PROVE  /\ \A u \in Users : \/ store'[u].tier = store[u].tier
                               \/ \E m \in Msgs : /\ Sender[m] = u /\ call[m].stage = "rate"
                                                  /\ store'[u].tier = call[m].rec.tier
           /\ \A m \in Msgs : call'[m].stage = "rate" =>
                 \/ call[m].stage = "rate" /\ call'[m].rec = call[m].rec
                 \/ call'[m].rec = store[Sender[m]]
<1>0. /\ store \in [Users -> Record]
      /\ call \in [Msgs -> CallType]
      /\ Sender \in [Msgs -> Users]
  BY SenderAssumption DEF TypeOK, GateTypeOK, CallType
<1>1. ASSUME NEW u \in Users, NEW c \in Consents, SetConsent(u, c)
      PROVE  /\ \A v \in Users : store'[v].tier = store[v].tier
             /\ call' = call
  BY <1>0, <1>1, RecTier DEF SetConsent
<1>2. ASSUME NEW m \in Msgs, CheckGet(m, TRUE)
      PROVE  /\ store' = store
             /\ \A o \in Msgs : call'[o].stage = "rate" =>
                   \/ call'[o] = call[o]
                   \/ call'[o].rec = store[Sender[o]]
  <2>1. \A o \in Msgs : o # m => call'[o] = call[o]
    BY <1>0, <1>2 DEF CheckGet, Decide, CallType
  <2>2. ASSUME call'[m].stage = "rate" PROVE call'[m].rec = store[Sender[m]]
    <3>1. ~Decide(m, "refuse")
      BY <1>0, <2>2 DEF Decide, CallType
    <3> DEFINE to == AfterGet(store[Sender[m]], TRUE)
               cl == [stage |-> to.stage, decision |-> to.decision,
                      rec |-> IF to.stage = "rate" THEN store[Sender[m]] ELSE ZeroRecord,
                      answered |-> to.stage = "nudge" /\ wanted[Sender[m]].consent # "unknown"]
    <3>2. call' = [call EXCEPT ![m] = cl]
      BY <1>2, <3>1 DEF CheckGet
    <3>3. call'[m] = cl
      BY <1>0, <3>2
    <3> HIDE DEF to
    <3> QED
      BY <2>2, <3>3
  <2> QED
    BY <1>2, <2>1, <2>2 DEF CheckGet
<1>3. ASSUME NEW m \in Msgs, CheckNudge(m)
      PROVE  store' = store /\ \A o \in Msgs : call'[o].stage = "rate" => call'[o] = call[o]
  BY <1>0, <1>3 DEF CheckNudge, Decide, CallType
<1>4. ASSUME NEW m \in Msgs, CheckPut(m)
      PROVE  /\ \A u \in Users : \/ store'[u].tier = store[u].tier
                                 \/ /\ Sender[m] = u /\ call[m].stage = "rate"
                                    /\ store'[u].tier = call[m].rec.tier
             /\ \A o \in Msgs : call'[o].stage = "rate" => call'[o] = call[o]
  <2>1. \A o \in Msgs : call'[o].stage = "rate" => call'[o] = call[o]
    BY <1>0, <1>4 DEF CheckPut, Decide, CallType
  <2>2. CASE UNCHANGED store
    BY <2>1, <2>2
  <2>3. CASE store' = [store EXCEPT ![Sender[m]] =
                         Rec(Windowed(call[m].rec).tier, Windowed(call[m].rec).consent,
                             Windowed(call[m].rec).count + 1, Windowed(call[m].rec).start)]
    <3>1. \A u \in Users : u # Sender[m] => store'[u] = store[u]
      BY <1>0, <2>3
    <3>2. store'[Sender[m]].tier = call[m].rec.tier
      BY <1>0, <2>3, RecTier, WindowedTier
    <3>3. call[m].stage = "rate"
      BY <1>4 DEF CheckPut
    <3> QED
      BY <2>1, <3>1, <3>2, <3>3
  <2> QED
    BY <1>4, <2>2, <2>3 DEF CheckPut
<1>5. CASE Tick \/ UNCHANGED gateVars
  BY <1>5 DEF Tick, gateVars
<1>6. CASE GateRestart
  BY <1>6 DEF GateRestart, NoCall
<1> QED
  BY <1>1, <1>2, <1>3, <1>4, <1>5, <1>6

\* Such a step keeps the authority invariant, whatever it does to the clicks, as long
\* as no click becomes authorized.
LEMMA GateKeepsAuthority ==
    ASSUME AuthorityInv,
           \/ \E u \in Users, c \in Consents : SetConsent(u, c)
           \/ \E m \in Msgs : CheckGet(m, TRUE) \/ CheckNudge(m) \/ CheckPut(m)
           \/ Tick \/ GateRestart \/ UNCHANGED gateVars,
           UNCHANGED <<doing, appointed>>,
           \A c \in Clicks : stage'[c] = "authorized" => stage[c] = "authorized"
    PROVE  /\ AuthorityFromAdmins'
           /\ \A m \in Msgs : CopyOK(m)'
           /\ \A c \in Clicks : SubjectOK(c)'
<1>1. /\ \A u \in Users : \/ store'[u].tier = store[u].tier
                          \/ \E m \in Msgs : /\ Sender[m] = u /\ call[m].stage = "rate"
                                             /\ store'[u].tier = call[m].rec.tier
      /\ \A m \in Msgs : call'[m].stage = "rate" =>
            \/ call[m].stage = "rate" /\ call'[m].rec = call[m].rec
            \/ call'[m].rec = store[Sender[m]]
  BY GateTiers DEF AuthorityInv
<1>2. ASSUME NEW u \in Users, IsAdmin(store'[u]) PROVE u \in appointed
  <2>1. CASE store'[u].tier = store[u].tier
    BY <1>2, <2>1, SameTier DEF AuthorityInv, AuthorityFromAdmins
  <2>2. ASSUME NEW m \in Msgs, Sender[m] = u, call[m].stage = "rate",
               store'[u].tier = call[m].rec.tier
        PROVE  u \in appointed
    BY <1>2, <2>2, SameTier DEF AuthorityInv, CopyOK
  <2> QED
    BY <1>1, <2>1, <2>2
<1>3. AuthorityFromAdmins'
  BY <1>2 DEF AuthorityFromAdmins, IsAdmin, ResolveTier
<1>4. ASSUME NEW m \in Msgs PROVE CopyOK(m)'
  BY <1>1, SenderAssumption DEF AuthorityInv, AuthorityFromAdmins, CopyOK, IsAdmin, ResolveTier
<1>5. ASSUME NEW c \in Clicks PROVE SubjectOK(c)'
  BY DEF AuthorityInv, SubjectOK
<1> QED
  BY <1>3, <1>4, <1>5

LEMMA InitAuthority == Init => AuthorityInv
<1> SUFFICES ASSUME Init PROVE AuthorityInv
  OBVIOUS
<1>1. \A m \in Msgs : CopyOK(m)
  BY DEF Init, GateInit, NoCall, CopyOK
<1> QED
  BY <1>1, InitType DEF Init, AuthorityInv, AuthorityFromAdmins, SubjectOK

LEMMA NextAuthority == AuthorityInv /\ [Next]_vars => AuthorityInv'
<1> SUFFICES ASSUME AuthorityInv, [Next]_vars PROVE AuthorityInv'
  OBVIOUS
<1>0. TypeOK /\ ButtonsOK
  BY TypeParts DEF AuthorityInv
<1>1. TypeOK'
  BY <1>0, NextType
<1> SUFFICES /\ AuthorityFromAdmins'
             /\ \A m \in Msgs : CopyOK(m)'
             /\ \A c \in Clicks : SubjectOK(c)'
  BY <1>1 DEF AuthorityInv
<1>2. CASE \/ \E u \in Users : OfferOptIn(u)
           \/ \E p \in Proposals, u \in Users, surface \in {"dm", "group"} :
                 Propose(p, u, surface)
  <2>1. PICK acts \in Seq(Asked) : Mint(acts)
    BY <1>2, OfferMints
  <2>2. UNCHANGED <<gateVars, stage, doing, appointed>>
    BY <2>1, <1>0, MintEffect DEF clickVars
  <2> QED
    BY <2>2, GateKeepsAuthority
<1>3. ASSUME NEW c \in Clicks, NEW t \in Tokens, Resolve(c, t)
      PROVE  /\ AuthorityFromAdmins'
             /\ \A m \in Msgs : CopyOK(m)'
             /\ \A d \in Clicks : SubjectOK(d)'
  <2>1. UNCHANGED <<store, call, appointed>>
    BY <1>3 DEF Resolve, gateVars
  <2>2. ASSUME NEW d \in Clicks, stage'[d] = "authorized"
        PROVE  stage[d] = "authorized" /\ doing'[d] = doing[d]
    BY <1>0, <1>3, <2>2 DEF Resolve, Answer, ButtonsOK
  <2> QED
    BY <2>1, <2>2 DEF AuthorityInv, AuthorityFromAdmins, CopyOK, SubjectOK, IsAdmin, ResolveTier
\* A click is authorized for set_tier only while its subject is an admin.
<1>4. ASSUME NEW c \in Clicks, Authorize(c)
      PROVE  /\ AuthorityFromAdmins'
             /\ \A m \in Msgs : CopyOK(m)'
             /\ \A d \in Clicks : SubjectOK(d)'
  <2>1. UNCHANGED <<store, call, doing, appointed>>
    BY <1>4 DEF Authorize, gateVars
  <2>2. \A d \in Clicks : d # c => stage'[d] = stage[d]
    BY <1>0, <1>4 DEF Authorize, Answer, ButtonsOK
  <2>3. ASSUME stage'[c] = "authorized", doing[c].verb = "set_tier" PROVE Clicker[c] \in appointed
    <3>1. Authorized(Clicker[c], "set_tier")
      BY <1>0, <1>4, <2>3 DEF Authorize, Answer, ButtonsOK
    <3> QED
      BY <3>1, CallbackAssumption
      DEF AuthorityInv, AuthorityFromAdmins, IsAdmin, Authorized, MinTier
  <2> QED
    BY <2>1, <2>2, <2>3
    DEF AuthorityInv, AuthorityFromAdmins, CopyOK, SubjectOK, IsAdmin, ResolveTier
<1>5. ASSUME NEW c \in Clicks, Execute(c)
      PROVE  /\ AuthorityFromAdmins'
             /\ \A m \in Msgs : CopyOK(m)'
             /\ \A d \in Clicks : SubjectOK(d)'
  <2>0. /\ \A d \in Clicks : stage'[d] = "authorized" => stage[d] = "authorized"
        /\ doing' = doing
    BY <1>0, <1>5 DEF Execute, Answer, ButtonsOK
  <2>1. CASE UNCHANGED <<gateVars, appointed>>
    BY <2>0, <2>1, GateKeepsAuthority
  <2>2. CASE doing[c].verb = "consent_grant" /\ Effect(Clicker[c], doing[c])
    BY <2>0, <2>2, CallbackAssumption, GateKeepsAuthority DEF Effect, Consents
  <2>3. CASE /\ doing[c].verb = "set_tier" /\ ValidParams(doing[c])
             /\ Effect(Clicker[c], doing[c])
    <3> DEFINE a == doing[c]
    <3>1. /\ a.user \in Users /\ Clicker[c] \in appointed
          /\ SetTier(a.user, a.tier)
          /\ appointed' = IF a.tier = "admin" /\ Clicker[c] \in appointed
                          THEN appointed \cup {a.user} ELSE appointed
      BY <1>0, <1>5, <2>3, AskedType DEF Execute, Effect, AuthorityInv, SubjectOK, ButtonsOK
    <3> HIDE DEF a
    <3>2. /\ store \in [Users -> Record]
          /\ store' = [store EXCEPT ![a.user] = Rec(a.tier, @.consent, @.count, @.start)]
          /\ call' = call /\ a.tier \in TierNames
      BY <1>0, <3>1 DEF SetTier, ValidTier, TypeOK, GateTypeOK
    <3>3. ASSUME NEW u \in Users, IsAdmin(store'[u]) PROVE u \in appointed'
      <4>1. CASE u = a.user
        <5>1. store'[u].tier = a.tier
          BY <3>1, <3>2, <4>1, RecTier
        <5>2. a.tier = "admin"
          BY <3>2, <3>3, <5>1, AdminTier
        <5> QED
          BY <3>1, <4>1, <5>2
      <4>2. CASE u # a.user
        <5>1. store'[u] = store[u]
          BY <3>2, <4>2
        <5> QED
          BY <3>1, <3>3, <5>1 DEF AuthorityInv, AuthorityFromAdmins
      <4> QED
        BY <4>1, <4>2
    <3>4. AuthorityFromAdmins'
      BY <3>3 DEF AuthorityFromAdmins, IsAdmin, ResolveTier
    <3>5. appointed \subseteq appointed'
      BY <3>1
    <3>6. \A m \in Msgs : CopyOK(m)'
      BY <3>2, <3>5 DEF AuthorityInv, CopyOK, IsAdmin, ResolveTier
    <3>7. \A d \in Clicks : SubjectOK(d)'
      BY <2>0, <3>5 DEF AuthorityInv, SubjectOK
    <3> QED
      BY <3>4, <3>6, <3>7
  <2> QED
    BY <1>5, <2>1, <2>2, <2>3 DEF Execute, Effect
<1>6. CASE Sweep
  BY <1>6, GateKeepsAuthority DEF Sweep, clickVars
<1>7. CASE GateStep
  BY <1>7, GateKeepsAuthority DEF GateStep, clickVars
<1>8. CASE PassTime \/ UNCHANGED vars
  BY <1>8, GateKeepsAuthority DEF PassTime, vars, clickVars
<1>9. CASE Restart
  <2>1. \A c \in Clicks : stage'[c] = "authorized" => stage[c] = "authorized"
    BY <1>0, <1>9 DEF Restart, ButtonsOK
  <2> QED
    BY <1>9, <2>1, GateKeepsAuthority DEF Restart
<1> QED
  BY <1>2, <1>3, <1>4, <1>5, <1>6, <1>7, <1>8, <1>9 DEF Next, ClickStep

LEMMA AuthorityInvariance == Spec => []AuthorityInv
BY InitAuthority, NextAuthority, PTL DEF Spec

-----------------------------------------------------------------------------
(* What a click is told *)

\* A stored record expires when its token does, a token without one has expired, and
\* one that is consumed was consumed by a click that was told of no other outcome.
Ended == {"completed", "expired", "error"}

RecordHonest(t) ==
    /\ pending[t].state # "none" => pending[t].expires = expiry[t]
    /\ pending[t].state = "none" => clock > expiry[t]
    /\ pending[t].state = "consumed" =>
          \E d \in Clicks : token[d] = t /\ stage[d] # "idle" /\ notice[d] \notin Ended

\* A click that has not been answered was told nothing.
ClickHonest(c) == stage[c] # "answered" => notice[c] = "none"

HonestInv ==
    /\ \A t \in Tokens : RecordHonest(t)
    /\ \A c \in Clicks : ClickHonest(c)

LEMMA InitHonest == Init => HonestInv
<1> SUFFICES ASSUME Init PROVE HonestInv
  OBVIOUS
<1>1. ASSUME NEW c \in Clicks PROVE ClickHonest(c)
  BY DEF Init, ClickHonest
<1>2. PICK left \in [Tokens -> Leftovers \cup {DismissIt}] :
        pending = [t \in Tokens |-> IF left[t] = DismissIt THEN Absent
                                    ELSE Token("fresh", left[t], TTL)]
  BY DEF Init
<1>3. ASSUME NEW t \in Tokens PROVE RecordHonest(t)
  <2>1. expiry[t] = pending[t].expires /\ clock = 1
    BY DEF Init, GateInit
  <2>2. left[t] \in Asked
    BY DEF Asked
  <2>3. Token("fresh", left[t], TTL).state = "fresh"
    BY <2>2, TokenType, CallbackAssumption
  <2>4. \/ pending[t].state = "none" /\ pending[t].expires = 0
        \/ pending[t].state = "fresh"
    BY <1>2, <2>3, AbsentType
  <2> QED
    BY <2>1, <2>4 DEF RecordHonest
<1> QED
  BY <1>1, <1>3 DEF HonestInv

\* A step that leaves the records, and lets no click forget what it did.
LEMMA RecordsKept ==
    ASSUME HonestInv, NEW t \in Tokens,
           pending'[t] = pending[t], expiry'[t] = expiry[t], clock' = clock,
           \A d \in Clicks : stage[d] # "idle" /\ notice[d] \notin Ended =>
              stage'[d] # "idle" /\ notice'[d] \notin Ended /\ token'[d] = token[d]
    PROVE  RecordHonest(t)'
<1>1. RecordHonest(t)
  BY DEF HonestInv
<1>2. ASSUME pending[t].state = "consumed"
      PROVE  \E d \in Clicks : token'[d] = t /\ stage'[d] # "idle" /\ notice'[d] \notin Ended
  <2>1. PICK d \in Clicks : token[d] = t /\ stage[d] # "idle" /\ notice[d] \notin Ended
    BY <1>1, <1>2 DEF RecordHonest
  <2> QED
    BY <2>1
<1> QED
  BY <1>1, <1>2 DEF RecordHonest, Ended

LEMMA NextHonest == TypeOK /\ HonestInv /\ [Next]_vars => HonestInv'
<1> SUFFICES ASSUME TypeOK, HonestInv, [Next]_vars PROVE HonestInv'
  OBVIOUS
<1>0. /\ ButtonsOK /\ clock \in Nat
      /\ \A t \in Tokens : RecordHonest(t) /\ expiry[t] \in Nat
      /\ \A c \in Clicks : ClickHonest(c)
  BY TypeParts DEF HonestInv, ButtonsOK, GateTypeOK
\* No click changes but in its stage, and clock and records stay.
<1>1. ASSUME UNCHANGED <<pending, token, notice, expiry, clock>>,
             \A d \in Clicks : /\ stage[d] # "idle" => stage'[d] # "idle"
                               /\ stage'[d] = "answered" <=> stage[d] = "answered"
      PROVE  HonestInv'
  <2>1. \A t \in Tokens : RecordHonest(t)'
    BY <1>1, RecordsKept
  <2>2. \A c \in Clicks : ClickHonest(c)'
    BY <1>0, <1>1 DEF ClickHonest
  <2> QED
    BY <2>1, <2>2 DEF HonestInv
<1>2. CASE \/ \E u \in Users : OfferOptIn(u)
           \/ \E p \in Proposals, u \in Users, surface \in {"dm", "group"} :
                 Propose(p, u, surface)
  <2>1. PICK acts \in Seq(Asked) : Mint(acts)
    BY <1>2, OfferMints
  <2>2. /\ \A t \in Tokens : \/ pending'[t] = pending[t] /\ expiry'[t] = expiry[t]
                             \/ /\ pending'[t].state = "fresh"
                                /\ pending'[t].expires = expiry'[t]
        /\ UNCHANGED <<clock, stage, token, notice>>
    BY <2>1, MintEffect DEF clickVars, gateVars
  <2>3. ASSUME NEW t \in Tokens PROVE RecordHonest(t)'
    <3>1. CASE pending'[t] = pending[t] /\ expiry'[t] = expiry[t]
      BY <2>2, <3>1, RecordsKept
    <3>2. CASE pending'[t].state = "fresh" /\ pending'[t].expires = expiry'[t]
      BY <3>2 DEF RecordHonest
    <3> QED
      BY <2>2, <3>1, <3>2
  <2>4. \A c \in Clicks : ClickHonest(c)'
    BY <1>0, <2>2 DEF ClickHonest
  <2> QED
    BY <2>3, <2>4 DEF HonestInv
<1>3. ASSUME NEW c \in Clicks, NEW t \in Tokens, Resolve(c, t) PROVE HonestInv'
  <2>1. /\ \A d \in Clicks : d # c => /\ token'[d] = token[d] /\ stage'[d] = stage[d]
                                      /\ notice'[d] = notice[d]
        /\ stage[c] = "idle" /\ notice[c] = "none"
        /\ token'[c] = t /\ stage'[c] \in {"resolved", "answered"}
        /\ stage'[c] = "resolved" => notice'[c] = "none"
        /\ UNCHANGED <<clock, expiry>>
    BY <1>0, <1>3 DEF Resolve, Answer, ClickHonest, ButtonsOK, gateVars
  <2>2. \A d \in Clicks : stage[d] # "idle" /\ notice[d] \notin Ended =>
           stage'[d] # "idle" /\ notice'[d] \notin Ended /\ token'[d] = token[d]
    BY <2>1
  <2>3. \A s \in Tokens : s # t => pending'[s] = pending[s]
    BY <1>0, <1>3 DEF Resolve, ButtonsOK
  <2>4. RecordHonest(t)'
    <3>1. CASE UNCHANGED pending
      BY <2>1, <2>2, <3>1, RecordsKept
    <3>2. CASE /\ Verdict(t) = "resolved"
               /\ pending' = [pending EXCEPT ![t] = Token("consumed", @.action, @.expires)]
               /\ stage' = [stage EXCEPT ![c] = "resolved"]
      <4>1. pending[t].state = "fresh"
        BY <1>0, <3>2 DEF Verdict, ButtonsOK, TokenRecord
      <4>2. /\ pending'[t].state = "consumed"
            /\ pending'[t].expires = pending[t].expires
        BY <1>0, <3>2, TokenType DEF ButtonsOK, TokenRecord
      <4>3. stage'[c] = "resolved"
        BY <1>0, <3>2 DEF ButtonsOK
      <4>4. token'[c] = t /\ stage'[c] # "idle" /\ notice'[c] \notin Ended
        BY <2>1, <4>3 DEF Ended
      <4> QED
        BY <1>0, <2>1, <4>1, <4>2, <4>4 DEF RecordHonest, Ended
    <3> QED
      BY <1>3, <3>1, <3>2 DEF Resolve
  <2>5. ASSUME NEW s \in Tokens PROVE RecordHonest(s)'
    <3>1. CASE s = t
      BY <2>4, <3>1
    <3>2. CASE s # t
      BY <2>1, <2>2, <2>3, <3>2, RecordsKept
    <3> QED
      BY <3>1, <3>2
  <2>6. \A d \in Clicks : ClickHonest(d)'
    BY <1>0, <2>1 DEF ClickHonest
  <2> QED
    BY <2>5, <2>6 DEF HonestInv
<1>4. ASSUME NEW c \in Clicks, Authorize(c) \/ Execute(c) PROVE HonestInv'
  <2>1. /\ \A d \in Clicks : d # c => stage'[d] = stage[d] /\ notice'[d] = notice[d]
        /\ stage[c] # "answered" /\ stage'[c] \in {"authorized", "answered"}
        /\ stage'[c] = "authorized" => notice'[c] = notice[c]
        /\ stage'[c] = "answered" =>
              notice'[c] \in {"unknown", "denied", "invalid", "failed", "done"}
        /\ UNCHANGED <<pending, token, expiry>>
    BY <1>0, <1>4 DEF Authorize, Execute, Answer, ButtonsOK
  <2>2. UNCHANGED clock
    BY <1>4 DEF Authorize, Execute, Effect, SetTier, SetConsent, gateVars
  <2>3. \A d \in Clicks : stage[d] # "idle" /\ notice[d] \notin Ended =>
           stage'[d] # "idle" /\ notice'[d] \notin Ended /\ token'[d] = token[d]
    BY <2>1 DEF Ended
  <2>4. \A t \in Tokens : RecordHonest(t)'
    BY <2>1, <2>2, <2>3, RecordsKept
  <2>5. \A d \in Clicks : ClickHonest(d)'
    BY <1>0, <2>1 DEF ClickHonest
  <2> QED
    BY <2>4, <2>5 DEF HonestInv
<1>5. CASE Sweep
  <2>1. UNCHANGED <<clock, stage, token, notice, expiry>>
    BY <1>5 DEF Sweep, clickVars, gateVars
  <2>2. ASSUME NEW t \in Tokens PROVE RecordHonest(t)'
    <3>1. CASE ~Stale(t)
      <4>1. pending'[t] = pending[t]
        BY <1>5, <3>1 DEF Sweep
      <4> QED
        BY <2>1, <4>1, RecordsKept
    <3>2. CASE Stale(t)
      <4>1. pending'[t].state = "none"
        BY <1>5, <3>2, AbsentType DEF Sweep
      <4>2. clock > expiry[t]
        BY <1>0, <3>2 DEF Stale, RecordHonest
      <4> QED
        BY <2>1, <4>1, <4>2 DEF RecordHonest
    <3> QED
      BY <3>1, <3>2
  <2>3. \A c \in Clicks : ClickHonest(c)'
    BY <1>0, <2>1 DEF ClickHonest
  <2> QED
    BY <2>2, <2>3 DEF HonestInv
<1>6. CASE PassTime
  <2>1. clock' = clock + 1 /\ UNCHANGED <<pending, stage, token, notice, expiry>>
    BY <1>6 DEF PassTime, Tick, clickVars
  <2>2. ASSUME NEW t \in Tokens PROVE RecordHonest(t)'
    <3>1. clock > expiry[t] => clock + 1 > expiry[t]
      BY <1>0
    <3> QED
      BY <1>0, <2>1, <3>1 DEF RecordHonest
  <2>3. \A c \in Clicks : ClickHonest(c)'
    BY <1>0, <2>1 DEF ClickHonest
  <2> QED
    BY <2>2, <2>3 DEF HonestInv
<1>7. CASE GateStep
  <2>1. UNCHANGED <<clock, pending, stage, token, notice, expiry>>
    BY <1>7 DEF GateStep, CheckGet, CheckNudge, CheckPut, clickVars
  <2> QED
    BY <1>1, <2>1
<1>8. CASE Restart
  <2>1. UNCHANGED <<clock, pending, token, notice, expiry>>
    BY <1>8 DEF Restart, GateRestart
  <2>2. \A d \in Clicks : /\ stage[d] # "idle" => stage'[d] # "idle"
                          /\ stage'[d] = "answered" <=> stage[d] = "answered"
    BY <1>0, <1>8 DEF Restart, ButtonsOK
  <2> QED
    BY <1>1, <2>1, <2>2
<1>9. CASE UNCHANGED vars
  BY <1>1, <1>9 DEF vars, clickVars, gateVars
<1> QED
  BY <1>2, <1>3, <1>4, <1>5, <1>6, <1>7, <1>8, <1>9 DEF Next, ClickStep

LEMMA HonestInvariance == Spec => [](OnceInv /\ HonestInv)
<1>1. OnceInv => TypeOK
  BY DEF OnceInv
<1> QED
  BY <1>1, InitHonest, NextHonest, OnceInvariance, PTL DEF Spec

\* A click is first told something by the transaction that resolves its token.
LEMMA ClickStarts ==
    ASSUME TypeOK, [Next]_vars, NEW c \in Clicks, stage[c] = "idle", stage'[c] # "idle"
    PROVE  \E t \in Tokens : Resolve(c, t)
<1>0. ButtonsOK
  BY TypeParts
<1>1. CASE \/ \E u \in Users : OfferOptIn(u)
           \/ \E p \in Proposals, u \in Users, surface \in {"dm", "group"} :
                 Propose(p, u, surface)
  <2>1. PICK acts \in Seq(Asked) : Mint(acts)
    BY <1>1, OfferMints
  <2>2. stage' = stage
    BY <2>1, MintEffect DEF clickVars
  <2> QED
    BY <2>2
<1>2. ASSUME NEW d \in Clicks, d # c, ClickStep(d) PROVE FALSE
  BY <1>0, <1>2 DEF ClickStep, Resolve, Authorize, Execute, Answer, ButtonsOK
<1>3. ASSUME Authorize(c) \/ Execute(c) PROVE FALSE
  BY <1>3 DEF Authorize, Execute
<1>4. CASE Sweep \/ GateStep \/ PassTime \/ Restart \/ UNCHANGED vars
  BY <1>0, <1>4 DEF Sweep, GateStep, PassTime, Restart, vars, clickVars, ButtonsOK
<1> QED
  BY <1>1, <1>2, <1>3, <1>4 DEF Next, ClickStep

LEMMA ResolveTellsTruth ==
    ASSUME OnceInv, HonestInv, NEW c \in Clicks, NEW t \in Tokens, Resolve(c, t)
    PROVE  /\ token'[c] = t
           /\ notice'[c] = "expired" => clock > expiry[t]
           /\ stage'[c] = "resolved" => clock <= expiry[t] /\ ran[t] = 0
           /\ notice'[c] = "completed" =>
                 \E d \in Clicks : /\ token[d] = t
                                   /\ stage[d] # "idle"
                                   /\ notice[d] \notin {"completed", "expired", "error"}
<1>0. /\ ButtonsOK /\ clock \in Nat /\ expiry[t] \in Nat
      /\ RecordHonest(t) /\ TokenOK(t) /\ ClickHonest(c)
      /\ pending[t].state \in {"none", "fresh", "consumed"}
  BY TypeParts DEF OnceInv, HonestInv, ButtonsOK, GateTypeOK, TokenRecord
<1>1. token'[c] = t /\ notice[c] = "none"
  BY <1>0 DEF Resolve, ButtonsOK, ClickHonest
<1>2. \/ Verdict(t) = "resolved" /\ stage'[c] = "resolved" /\ notice'[c] = "none"
      \/ Verdict(t) # "resolved" /\ stage'[c] = "answered" /\ notice'[c] = Verdict(t)
      \/ stage'[c] = "answered" /\ notice'[c] = "error"
  BY <1>0, <1>1 DEF Resolve, Answer, ButtonsOK
<1>3. /\ Verdict(t) = "expired" => clock > expiry[t]
      /\ Verdict(t) = "resolved" => pending[t].state = "fresh" /\ clock <= expiry[t]
      /\ Verdict(t) = "completed" => pending[t].state = "consumed"
      /\ Verdict(t) \in {"expired", "resolved", "completed"}
  BY <1>0 DEF Verdict, RecordHonest
<1>4. Verdict(t) = "resolved" => ran[t] = 0
  BY <1>0, <1>3 DEF TokenOK
<1>5. Verdict(t) = "completed" =>
         \E d \in Clicks : token[d] = t /\ stage[d] # "idle" /\ notice[d] \notin Ended
  BY <1>0, <1>3 DEF RecordHonest
<1> QED
  BY <1>1, <1>2, <1>3, <1>4, <1>5 DEF Ended

-----------------------------------------------------------------------------
(* The theorems *)

\* The token records, the clicks and the gate keep their types (internal/pending,
\* resolveCallback).
THEOREM ButtonsTypeCorrect == Spec => []TypeOK
BY OnceInvariance, PTL DEF OnceInv

\* However many clicks race for a button, and whatever expires, is swept, fails or is
\* lost in a crash between their transactions, its action takes effect at most once
\* (resolveRecord, executeAction).
THEOREM ActionsRunOnce == Spec => []RunsOnce
<1>1. OnceInv => RunsOnce
  BY DEF OnceInv, TokenOK, RunsOnce
<1> QED
  BY <1>1, OnceInvariance, PTL

\* For any number of users and clicks, admin authority is only ever handed on by
\* those who have had it, the gate's stale writes included (Gate.Authorize,
\* executeAction, SetTierVerb).
THEOREM AuthorityHandedOn == Spec => []AuthorityFromAdmins
BY AuthorityInvariance, PTL DEF AuthorityInv

\* Every run of the buttons is a run of the gate.
THEOREM ButtonsImplementGate == Spec => GateSpec
<1>1. Init => GateInit
  BY DEF Init
<1> QED
  BY <1>1, ButtonsTypeCorrect, GateStepOfNext, PTL DEF Spec, GateSpec

\* So with buttons too, nobody is recorded as granted who never opted in.
THEOREM ButtonsNeverInfer == Spec => []ConsentNeverInferred
BY ButtonsImplementGate, ConsentNotInferred, PTL

\* What a click is told of its button is right, for any number of clicks that race with
\* the clock, the sweeper and a crash: "expired" only after its lifetime, "already
\* completed" only once another click has had the action (resolveRecord, Sweep).
THEOREM ButtonsTellTruth == Spec => ButtonTellsTruth
<1>1. OnceInv /\ HonestInv /\ [Next]_vars =>
        [\A c \in Clicks : stage[c] = "idle" /\ stage'[c] # "idle" =>
          LET t == token'[c]
          IN  /\ notice'[c] = "expired" => clock > expiry[t]
              /\ stage'[c] = "resolved" => clock <= expiry[t] /\ ran[t] = 0
              /\ notice'[c] = "completed" =>
                    \E d \in Clicks : /\ token[d] = t
                                      /\ stage[d] # "idle"
                                      /\ notice[d] \notin {"completed", "expired", "error"}]_vars
  BY ClickStarts, ResolveTellsTruth DEF OnceInv
<1> QED
  BY <1>1, HonestInvariance, PTL DEF Spec, ButtonTellsTruth
=============================================================================
