----------------------------- MODULE Callbacks -----------------------------
(***************************************************************************)
(* Buttons: the callback token store (internal/pending), the proposals that *)
(* put actions on buttons (Registry.RenderProposal) and the clicks that run *)
(* them (resolveCallback, executeAction), over the gate whose tiers are the  *)
(* authority to run them.                                                  *)
(*                                                                         *)
(* Every click runs in a goroutine of its own: it consumes its token in one *)
(* store transaction, reads its subject's tier in another, and runs its     *)
(* verb in a third.  Other clicks, messages in the consent gate, the sweeper *)
(* and a crash can come between any two of them.                           *)
(*                                                                         *)
(* A token is random, so no two Puts return the same; a button carries only  *)
(* its token, so a user can click only tokens that were shown.              *)
(***************************************************************************)
EXTENDS Gate, FiniteSets, Sequences

CONSTANTS
    Tokens,     \* the callback tokens that can be minted
    Clicks,     \* button clicks, each with its own handler goroutine
    Clicker,    \* the user each click comes from
    TTL,        \* how long a token lives, in ticks
    Proposals,  \* the actions a proposer may suggest
    Leftovers   \* the actions an earlier build may have left on a button

Verbs   == {"echo", "dismiss", "consent_grant", "set_tier"}
NoUser  == "nobody"

\* A button's action; "gone" stands for every verb that is not registered.
Action  == [verb: Verbs \cup {"gone"}, user: Users \cup {NoUser},
            tier: RequestedTiers \cup {NoTier}]

Act(verb, user, tier) == [verb |-> verb, user |-> user, tier |-> tier]

OptIn     == Act("consent_grant", NoUser, NoTier)
DismissIt == Act("dismiss", NoUser, NoTier)

Asked == Proposals \cup Leftovers \cup {OptIn, DismissIt}

ASSUME CallbackAssumption ==
    /\ Clicker \in [Clicks -> Users]
    /\ TTL \in Nat \ {0}
    /\ NoUser \notin Users
    /\ Proposals \subseteq Action
    /\ Leftovers \subseteq Action
    /\ Tokens # {}

VARIABLES
    pending,    \* the record of each token: none, fresh or consumed; persistent
    shown,      \* the tokens that are on a button of some message
    stage,      \* where each click stands
    token,      \* the token each click carries
    doing,      \* the action each click resolved its token to
    notice,     \* what each click was told
    \* history, read by no action:
    expiry,     \* when each token minted expires, 0 for one that never was
    ran,        \* how often each token's action took effect
    appointed   \* users who were admins at the start or whom an admin made one

clickVars == <<stage, token, doing, notice>>
vars == <<gateVars, pending, shown, clickVars, expiry, ran, appointed>>

Stages  == {"idle", "resolved", "authorized", "answered", "lost"}
Notices == {"none", "done", "completed", "expired", "error", "unknown", "denied",
            "invalid", "failed"}

TokenRecord == [state: {"none", "fresh", "consumed"}, action: Asked, expires: Nat]

Token(state, action, expires) == [state |-> state, action |-> action, expires |-> expires]

Absent == Token("none", DismissIt, 0)

\* The types of the callback variables.
TypeOK ==
    /\ GateTypeOK
    /\ pending \in [Tokens -> TokenRecord]
    /\ shown \in SUBSET Tokens
    /\ stage \in [Clicks -> Stages]
    /\ token \in [Clicks -> Tokens]
    /\ doing \in [Clicks -> Asked]
    /\ notice \in [Clicks -> Notices]
    /\ expiry \in [Tokens -> Nat]
    /\ ran \in [Tokens -> Nat]
    /\ appointed \in SUBSET Users

-----------------------------------------------------------------------------
(* Authority and the verbs *)

Rank == [t \in TierNames |->
           IF t = "throttled" THEN 0 ELSE IF t = "default" THEN 1 ELSE
           IF t = "trusted" THEN 2 ELSE IF t = "unlimited" THEN 3 ELSE 4]

\* Every tier that can be stored or resolved to has a rank.
AtLeast(have, want) == Rank[have] >= Rank[want]

MinTier(verb) == IF verb = "set_tier" THEN "admin" ELSE "throttled"

IsAdmin(rec) == AtLeast(ResolveTier(rec), "admin")

\* Variant with a bug: having been shown the button is authority enough.
Authorized_Shown(u, verb) == TRUE
\* Gate.Authorize: the tier the store holds now.
Authorized(u, verb) == AtLeast(ResolveTier(store[u]), MinTier(verb))

\* Verb.Validate.
ValidParams(a) == a.verb = "set_tier" => a.user # NoUser /\ ValidTier(a.tier)

\* The bot may start on a token store of an earlier run.
Init ==
    /\ GateInit
    /\ \E left \in [Tokens -> Leftovers \cup {DismissIt}] :
          pending = [t \in Tokens |-> IF left[t] = DismissIt THEN Absent
                                      ELSE Token("fresh", left[t], TTL)]
    /\ shown = {t \in Tokens : pending[t].state = "fresh"}
    /\ stage = [c \in Clicks |-> "idle"]
    /\ token = [c \in Clicks |-> CHOOSE t \in Tokens : TRUE]
    /\ doing = [c \in Clicks |-> DismissIt]
    /\ notice = [c \in Clicks |-> "none"]
    /\ expiry = [t \in Tokens |-> pending[t].expires]
    /\ ran = [t \in Tokens |-> 0]
    /\ appointed = {u \in Users : IsAdmin(store[u])}

-----------------------------------------------------------------------------
(* Buttons *)

Unused == {t \in Tokens : expiry[t] = 0}

\* The action that goes with token t when tok are the tokens minted for acts.
ActionOf(t, acts, tok) == acts[CHOOSE i \in DOMAIN tok : tok[i] = t]

\* The first n of acts are stored under tokens tok; only a reply whose actions all
\* are has buttons.
Stored(acts, n, tok) ==
    /\ pending' = [t \in Tokens |->
                     IF t \in Range(tok) THEN Token("fresh", ActionOf(t, acts, tok), clock + TTL)
                     ELSE pending[t]]
    /\ expiry' = [t \in Tokens |-> IF t \in Range(tok) THEN clock + TTL ELSE expiry[t]]
    /\ shown' = IF n = Len(acts) THEN shown \cup Range(tok) ELSE shown

\* A reply's actions get a token each, in order; if one cannot be stored the reply
\* goes out without buttons, and the tokens before it are never shown.
Mint(acts) ==
    /\ \E n \in 0..Len(acts) : \E tok \in [1..n -> Unused] :
          /\ \A i, j \in 1..n : tok[i] = tok[j] => i = j
          /\ Stored(acts, n, tok)
    /\ UNCHANGED <<gateVars, clickVars, ran, appointed>>

\* The DM consent flow offers the opt-in button to a user who has not opted in.
OfferOptIn(u) ==
    /\ store[u].consent # "granted"
    /\ Mint(<<OptIn>>)

\* RenderProposal offers a valid action with a way to dismiss it; a privileged one
\* only in a direct message, to somebody who can approve it.
Propose(p, u, surface) ==
    /\ p.verb \in Verbs
    /\ ValidParams(p)
    /\ MinTier(p.verb) = "admin" => surface = "dm" /\ Authorized(u, p.verb)
    /\ Mint(<<p, DismissIt>>)

\* Variant with a bug: the sweep leaves the tombstones.
Stale_Unclicked(t) == pending[t].state = "fresh" /\ clock > pending[t].expires
\* Variant with a bug: the lifetime ends a tick early for the sweep.
Stale_Early(t) == pending[t].state # "none" /\ clock >= pending[t].expires
\* A record past its lifetime, clicked or not.
Stale(t) == pending[t].state # "none" /\ clock > pending[t].expires

\* The sweeper's pass; one that fails changes nothing.
Sweep ==
    /\ \E t \in Tokens : Stale(t)
    /\ pending' = [t \in Tokens |-> IF Stale(t) THEN Absent ELSE pending[t]]
    /\ UNCHANGED <<gateVars, shown, clickVars, expiry, ran, appointed>>

-----------------------------------------------------------------------------
(* A click *)

Answer(c, n) ==
    /\ stage' = [stage EXCEPT ![c] = "answered"]
    /\ notice' = [notice EXCEPT ![c] = n]

\* Variant with a bug: a clicked button is dead until it expires, then fresh again.
Verdict_TTLFirst(t) ==
    IF pending[t].state = "none" THEN "expired"
    ELSE IF pending[t].state = "consumed" /\ clock <= pending[t].expires THEN "completed"
    ELSE "resolved"
\* resolveRecord: consumed before expired.
Verdict(t) ==
    IF pending[t].state = "consumed" THEN "completed"
    ELSE IF pending[t].state = "none" \/ clock > pending[t].expires THEN "expired"
    ELSE "resolved"

\* Store.Resolve, one transaction; an error consumes nothing.
Resolve(c, t) ==
    /\ stage[c] = "idle"
    /\ t \in shown
    /\ token' = [token EXCEPT ![c] = t]
    /\ \/ /\ Verdict(t) = "resolved"
          /\ pending' = [pending EXCEPT ![t] = Token("consumed", @.action, @.expires)]
          /\ stage' = [stage EXCEPT ![c] = "resolved"]
          /\ doing' = [doing EXCEPT ![c] = pending[t].action]
          /\ UNCHANGED notice
       \/ /\ Verdict(t) # "resolved"
          /\ Answer(c, Verdict(t))
          /\ UNCHANGED <<pending, doing>>
       \/ /\ Answer(c, "error")
          /\ UNCHANGED <<pending, doing>>
    /\ UNCHANGED <<gateVars, shown, expiry, ran, appointed>>

\* The verb is looked up and its tier compared with the subject's; a failed read
\* denies.
Authorize(c) ==
    LET verb == doing[c].verb
    IN  /\ stage[c] = "resolved"
        /\ \/ verb \notin Verbs /\ Answer(c, "unknown")
           \/ /\ verb \in Verbs /\ Authorized(Clicker[c], verb)
              /\ stage' = [stage EXCEPT ![c] = "authorized"]
              /\ UNCHANGED notice
           \/ verb \in Verbs /\ Answer(c, "denied")
        /\ UNCHANGED <<gateVars, pending, shown, token, doing, expiry, ran, appointed>>

\* The effect of a verb's Execute for subject u.
Effect(u, a) ==
    \/ /\ a.verb = "set_tier"
       /\ SetTier(a.user, a.tier)
       /\ appointed' = IF a.tier = "admin" /\ u \in appointed THEN appointed \cup {a.user}
                       ELSE appointed
    \/ /\ a.verb = "consent_grant"
       /\ SetConsent(u, "granted")
       /\ UNCHANGED appointed
    \/ /\ a.verb \in {"echo", "dismiss"}
       /\ UNCHANGED <<gateVars, appointed>>

\* Validate, then Execute, which commits or fails; the token stays consumed.
Execute(c) ==
    /\ stage[c] = "authorized"
    /\ \/ /\ ~ValidParams(doing[c])
          /\ Answer(c, "invalid")
          /\ UNCHANGED <<gateVars, ran, appointed>>
       \/ /\ ValidParams(doing[c])
          /\ Answer(c, "failed")
          /\ UNCHANGED <<gateVars, ran, appointed>>
       \/ /\ ValidParams(doing[c])
          /\ Effect(Clicker[c], doing[c])
          /\ Answer(c, "done")
          /\ ran' = [ran EXCEPT ![token[c]] = @ + 1]
    /\ UNCHANGED <<pending, shown, token, doing, expiry>>

-----------------------------------------------------------------------------

\* A message to the bot in the consent gate, which may write a tier it has read
\* before.
GateStep ==
    /\ \E m \in Msgs : CheckGet(m, TRUE) \/ CheckNudge(m) \/ CheckPut(m)
    /\ UNCHANGED <<pending, shown, clickVars, expiry, ran, appointed>>

PassTime == Tick /\ UNCHANGED <<pending, shown, clickVars, expiry, ran, appointed>>

\* The process dies and starts again: both stores survive, clicks under way do not.
Restart ==
    /\ GateRestart
    /\ stage' = [c \in Clicks |-> IF stage[c] \in {"resolved", "authorized"} THEN "lost"
                                  ELSE stage[c]]
    /\ UNCHANGED <<pending, shown, token, doing, notice, expiry, ran, appointed>>

ClickStep(c) == (\E t \in Tokens : Resolve(c, t)) \/ Authorize(c) \/ Execute(c)

Next ==
    \/ \E u \in Users : OfferOptIn(u)
    \/ \E p \in Proposals, u \in Users, surface \in {"dm", "group"} : Propose(p, u, surface)
    \/ \E c \in Clicks : ClickStep(c)
    \/ Sweep \/ GateStep \/ PassTime \/ Restart

\* The store runs its sweeper for as long as it is open.
Spec == Init /\ [][Next]_vars /\ WF_vars(Sweep)

-----------------------------------------------------------------------------
(* Properties *)

\* A button acts at most once, whoever clicks it and however often, across expiry,
\* sweeps, failures and crashes between the click's transactions (resolveRecord,
\* executeAction; ADR 0009, "single-use").
RunsOnce == \A t \in Tokens : ran[t] <= 1

\* Nobody comes to have admin authority but by the hand of somebody who had it:
\* through buttons shown to others, clicks that race with a change of tier, buttons
\* of an earlier build, and the gate's stale writes (Gate.Authorize, executeAction).
AuthorityFromAdmins == \A u \in Users : IsAdmin(store[u]) => u \in appointed

UnderWay(c) == stage[c] \in {"resolved", "authorized"}

\* What a click learns of its button is right: "expired" only when its lifetime is
\* over, an action only within it and if it has not run, "already completed" only
\* when another click got the action (resolveRecord, Sweep).
ButtonTellsTruth ==
    [][\A c \in Clicks : stage[c] = "idle" /\ stage'[c] # "idle" =>
          LET t == token'[c]
          IN  /\ notice'[c] = "expired" => clock > expiry[t]
              /\ stage'[c] = "resolved" => clock <= expiry[t] /\ ran[t] = 0
              /\ notice'[c] = "completed" =>
                    \E d \in Clicks : /\ token[d] = t
                                      /\ stage[d] # "idle"
                                      /\ notice[d] \notin {"completed", "expired", "error"}]_vars

\* The store stays bounded: every token whose lifetime is over leaves it in the end,
\* clicked or not, restarts included (comments of Store.Sweep and RunSweeper).
StaleTokensGo ==
    \A t \in Tokens : (expiry[t] # 0 /\ clock > expiry[t]) ~> pending[t].state = "none"
=============================================================================
