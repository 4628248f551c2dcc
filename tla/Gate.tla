-------------------------------- MODULE Gate --------------------------------
(***************************************************************************)
(* The consent gate and the access-control store behind it (internal/acl). *)
(*                                                                         *)
(* Gate.Check is not atomic: it reads the user's record (store.Get), works *)
(* on its copy, and may write the whole copy back (store.Put).  SetConsent *)
(* and SetTier are one store transaction each (store.Update).  call[m] is  *)
(* the stack of the Check that runs for message m: the stage it is at, the *)
(* record it read and, at the end, its decision.                           *)
(*                                                                         *)
(* Times are ticks of a clock that starts at 1; 0 is Go's zero time.  A    *)
(* tick is long against the few instructions between reading the clock and *)
(* using it, so each step reads the clock and uses it at once.             *)
(***************************************************************************)
EXTENDS Members, Integers, Functions

CONSTANTS
    Allowance,      \* queries per rate window, by tier
    DefTier,        \* the instance's default tier
    EarlierTier,    \* the tier each user was given in an earlier run of the bot
    RequestedTiers, \* the tiers somebody may ask SetTier for, valid or not
    RateWindow,     \* length of a rate window, in ticks
    Cooldown,       \* nudge cooldown in ticks; 0 turns it off
    MaxClock        \* bound of the model: the clock stops here

TierNames == {"throttled", "default", "trusted", "unlimited", "admin"}
Consents  == {"unknown", "granted", "declined"}
Decisions == {"serve", "logonly", "nudge", "refuse", "ratelimited", "silent"}
NoTier    == ""
Unlimited == -1

ASSUME GateAssumption ==
    /\ Allowance \in [TierNames -> Nat \cup {Unlimited}]
    /\ DefTier \in TierNames
    /\ EarlierTier \in [Users -> TierNames \cup {NoTier}]
    /\ RateWindow \in Nat \ {0}
    /\ Cooldown \in Nat
    /\ MaxClock \in Nat \ {0}

VARIABLES
    store,      \* the persistent record of each user
    nudged,     \* when each user was last nudged, 0 for no entry; memory only
    clock,
    call,       \* the Check running for each message; history in its field
                \* answered: the user had answered when it was about to nudge
    \* history, read by no action:
    wanted,     \* the consent and the tier last set for each user
    optedIn,    \* users who opted in at some time
    clobbered,  \* users whose consent a stale Put replaced by an older one
    overlapped, \* users who had two rate-limited Checks under way at once
    lastNudge,  \* when each user was last nudged in this run of the bot
    serves      \* queries under an allowance that were served up to each tick

gateVars == <<store, nudged, clock, call,
              wanted, optedIn, clobbered, overlapped, lastNudge, serves>>

Times == 0..MaxClock

Record == [tier: TierNames \cup {NoTier}, consent: Consents, count: Nat, start: Times]

Rec(tier, consent, count, start) ==
    [tier |-> tier, consent |-> consent, count |-> count, start |-> start]

\* A first-seen user: store.Get and store.Update both start from it.
ZeroRecord == Rec(NoTier, "unknown", 0, 0)

NoCall == [stage |-> "idle", rec |-> ZeroRecord, decision |-> "silent", answered |-> FALSE]

\* The types of the gate's variables.  The store holds only tiers that have a
\* rank (SetTier refuses the others), and no rate window of the future.
GateTypeOK ==
    /\ store \in [Users -> Record]
    /\ nudged \in [Users -> Times]
    /\ clock \in 1..MaxClock
    /\ call \in [Msgs -> [stage: {"idle", "nudge", "rate", "done"}, rec: Record,
                          decision: Decisions, answered: BOOLEAN]]
    /\ wanted \in [Users -> [consent: Consents, tier: TierNames \cup {NoTier}]]
    /\ optedIn \in SUBSET Users
    /\ clobbered \in SUBSET Users
    /\ overlapped \in SUBSET Users
    /\ lastNudge \in [Users -> Times]
    /\ serves \in [Users -> [Times -> Nat]]

\* The bot may start on a store of an earlier run, where some users opted in or
\* were given a tier.
GateInit ==
    /\ optedIn \in SUBSET Users
    /\ store = [u \in Users |->
                  Rec(EarlierTier[u], IF u \in optedIn THEN "granted" ELSE "unknown", 0, 0)]
    /\ wanted = [u \in Users |-> [consent |-> store[u].consent, tier |-> EarlierTier[u]]]
    /\ nudged = [u \in Users |-> 0]
    /\ clock = 1
    /\ call = [m \in Msgs |-> NoCall]
    /\ clobbered = {}
    /\ overlapped = {}
    /\ lastNudge = [u \in Users |-> 0]
    /\ serves = [u \in Users |-> [t \in Times |-> 0]]

-----------------------------------------------------------------------------
(* Tier policy *)

\* A tier set on the record wins over the instance's default.
ResolveTier(rec) == IF rec.tier = NoTier THEN DefTier ELSE rec.tier

\* An unknown tier has the default tier's allowance.
AllowanceFor(t) == IF t \in TierNames THEN Allowance[t] ELSE Allowance["default"]

\* Variant with a bug: SetTier takes any label.
ValidTier_Any(t) == TRUE
ValidTier(t) == t \in TierNames

\* Variant with a bug: every query opens a window.
Windowed_Always(rec) == Rec(rec.tier, rec.consent, 0, clock)
\* rec with its rate window renewed, when it never had one or has used it up.
Windowed(rec) ==
    IF rec.start = 0 \/ clock - rec.start >= RateWindow
    THEN Rec(rec.tier, rec.consent, 0, clock) ELSE rec

OverAllowance(rec) ==
    LET allow == AllowanceFor(ResolveTier(rec))
    IN  allow # Unlimited /\ rec.count >= allow

-----------------------------------------------------------------------------
(* Consent and tier, one transaction each *)

SetConsent(u, c) ==
    /\ store' = [store EXCEPT ![u] = Rec(@.tier, c, @.count, @.start)]
    /\ wanted' = [wanted EXCEPT ![u] = [consent |-> c, tier |-> @.tier]]
    /\ optedIn' = IF c = "granted" THEN optedIn \cup {u} ELSE optedIn
    /\ clobbered' = clobbered \ {u}
    /\ UNCHANGED <<nudged, clock, call, overlapped, lastNudge, serves>>

SetTier(u, t) ==
    /\ ValidTier(t)
    /\ store' = [store EXCEPT ![u] = Rec(t, @.consent, @.count, @.start)]
    /\ wanted' = [wanted EXCEPT ![u] = [consent |-> @.consent, tier |-> t]]
    /\ UNCHANGED <<nudged, clock, call, optedIn, clobbered, overlapped, lastNudge, serves>>

-----------------------------------------------------------------------------
(* Check: read, then (directed only) nudge or rate-limit, then write back *)

Unsettled(stage) == [stage |-> stage, decision |-> "silent"]
Settled(d) == [stage |-> "done", decision |-> d]

\* Variant with a bug: a decline is no answer.
AfterGet_NudgeDeclined(rec, directed) ==
    CASE rec.consent = "granted" /\ directed  -> Unsettled("rate")
      [] rec.consent = "granted" /\ ~directed -> Settled("logonly")
      [] rec.consent # "granted" /\ directed  -> Unsettled("nudge")
      [] OTHER                                -> Settled("silent")
\* Variant with a bug: ambient chatter is logged whoever it comes from.
AfterGet_Ambient(rec, directed) ==
    CASE rec.consent = "granted" /\ directed  -> Unsettled("rate")
      [] ~directed                            -> Settled("logonly")
      [] rec.consent = "unknown" /\ directed  -> Unsettled("nudge")
      [] OTHER                                -> Settled("silent")
\* What Check does on the record it read.
AfterGet(rec, directed) ==
    CASE rec.consent = "granted" /\ directed  -> Unsettled("rate")
      [] rec.consent = "granted" /\ ~directed -> Settled("logonly")
      [] rec.consent = "unknown" /\ directed  -> Unsettled("nudge")
      [] OTHER                                -> Settled("silent")

\* Check returns decision d; its copy of the record is gone.
Decide(m, d) == call' = [call EXCEPT ![m] = [stage |-> "done", rec |-> ZeroRecord,
                                             decision |-> d, answered |-> @.answered]]

\* Other Checks of m's sender that have read the record and will write it back.
Rivals(m) == {o \in Msgs \ {m} : Sender[o] = Sender[m] /\ call[o].stage = "rate"}

\* store.Get; a failure refuses.
CheckGet(m, directed) ==
    LET u  == Sender[m]
        to == AfterGet(store[u], directed)
    IN  /\ call[m].stage = "idle"
        /\ \/ /\ call' = [call EXCEPT ![m] =
                            [stage |-> to.stage, decision |-> to.decision,
                             rec |-> IF to.stage = "rate" THEN store[u] ELSE ZeroRecord,
                             answered |-> to.stage = "nudge" /\ wanted[u].consent # "unknown"]]
              /\ overlapped' = IF to.stage = "rate" /\ Rivals(m) # {}
                               THEN overlapped \cup {u} ELSE overlapped
           \/ /\ Decide(m, "refuse")
              /\ UNCHANGED overlapped
        /\ UNCHANGED <<store, nudged, clock, wanted, optedIn, clobbered, lastNudge, serves>>

\* Variant with a bug: the sweep empties the map.
LiveNudges_Clear == [u \in Users |-> 0]
\* The nudge map without the windows that have passed.
LiveNudges == [u \in Users |->
                 IF nudged[u] # 0 /\ clock - nudged[u] >= Cooldown THEN 0 ELSE nudged[u]]

\* Gate.nudge, under the gate's mutex.
CheckNudge(m) ==
    LET u    == Sender[m]
        d    == IF Cooldown = 0 \/ LiveNudges[u] = 0 THEN "nudge" ELSE "silent"
    IN  /\ call[m].stage = "nudge"
        /\ nudged' = IF Cooldown = 0 THEN nudged
                     ELSE [v \in Users |-> IF v = u /\ d = "nudge" THEN clock ELSE LiveNudges[v]]
        /\ Decide(m, d)
        /\ lastNudge' = IF d = "nudge" THEN [lastNudge EXCEPT ![u] = clock] ELSE lastNudge
        /\ UNCHANGED <<store, clock, wanted, optedIn, clobbered, overlapped, serves>>

\* One query more, now.
OneMore(upTo) == [t \in Times |-> IF t >= clock THEN upTo[t] + 1 ELSE upTo[t]]

\* The rate limit on the copy read by CheckGet, and the write of the whole copy.
\* A failed write refuses.
CheckPut(m) ==
    LET u   == Sender[m]
        rec == Windowed(call[m].rec)
    IN  /\ call[m].stage = "rate"
        /\ \/ /\ OverAllowance(rec)
              /\ Decide(m, "ratelimited")
              /\ UNCHANGED <<store, clobbered, serves>>
           \/ /\ ~OverAllowance(rec)
              /\ Decide(m, "serve")
              /\ store' = [store EXCEPT ![u] = Rec(rec.tier, rec.consent, rec.count + 1, rec.start)]
              /\ clobbered' = IF rec.consent # store[u].consent
                              THEN clobbered \cup {u} ELSE clobbered
              /\ serves' = IF AllowanceFor(ResolveTier(rec)) = Unlimited THEN serves
                           ELSE [serves EXCEPT ![u] = OneMore(@)]
           \/ /\ ~OverAllowance(rec)
              /\ Decide(m, "refuse")
              /\ UNCHANGED <<store, clobbered, serves>>
        /\ UNCHANGED <<nudged, clock, wanted, optedIn, overlapped, lastNudge>>

\* The handler is done with the decision.
Return(m) ==
    /\ call[m].stage = "done"
    /\ call' = [call EXCEPT ![m] = NoCall]
    /\ UNCHANGED <<store, nudged, clock, wanted, optedIn, clobbered, overlapped,
                   lastNudge, serves>>

Tick ==
    /\ clock < MaxClock
    /\ clock' = clock + 1
    /\ UNCHANGED <<store, nudged, call, wanted, optedIn, clobbered, overlapped,
                   lastNudge, serves>>

\* The process dies and starts again: the store survives, the nudge map and every
\* Check under way do not.
GateRestart ==
    /\ nudged' = [u \in Users |-> 0]
    /\ lastNudge' = [u \in Users |-> 0]
    /\ call' = [m \in Msgs |-> NoCall]
    /\ UNCHANGED <<store, clock, wanted, optedIn, clobbered, overlapped, serves>>

GateNext ==
    \/ \E u \in Users, c \in {"granted", "declined"} : SetConsent(u, c)
    \/ \E u \in Users, t \in RequestedTiers : SetTier(u, t)
    \/ \E m \in Msgs, directed \in BOOLEAN : CheckGet(m, directed)
    \/ \E m \in Msgs : CheckNudge(m) \/ CheckPut(m) \/ Return(m)
    \/ Tick
    \/ GateRestart

GateSpec == GateInit /\ [][GateNext]_gateVars

-----------------------------------------------------------------------------
(* Properties *)

\* Consent is never inferred: a record says granted, and a message is served,
\* logged or rate-limited, only for a user who opted in at some time, however
\* stale the record a Check writes back (package comment of internal/acl).
ConsentNeverInferred ==
    /\ \A u \in Users : store[u].consent = "granted" => u \in optedIn
    /\ \A m \in Msgs :
          call[m].decision \in {"serve", "logonly", "ratelimited"} => Sender[m] \in optedIn

\* A Check that starts after the user has answered, yes or no, never nudges them,
\* whatever stale record has been written in between (Gate.Check, ADR 0025).
NeverNudgedOnceAnswered ==
    \A m \in Msgs : call[m].decision = "nudge" => ~call[m].answered

\* The map with its sweep of passed windows behaves as one timestamp per user: an
\* undecided user's directed message is nudged exactly when a cooldown has passed
\* since the last nudge to them, whoever else is nudged meanwhile (Gate.nudge).
NudgeOncePerCooldown ==
    [][\A m \in Msgs :
          call[m].stage = "nudge" /\ call'[m].stage = "done" =>
             LET last == lastNudge[Sender[m]]
             IN  call'[m].decision = "nudge"
                    <=> (last = 0 \/ clock - last >= Cooldown)]_gateVars

\* The tiers a user can come to have, and the largest allowance among those that have
\* one.
ReachableTiers == {DefTier} \cup (Range(EarlierTier) \cap TierNames)
                            \cup (RequestedTiers \cap TierNames)
Allowances == {0} \cup {Allowance[t] : t \in {x \in ReachableTiers : Allowance[x] # Unlimited}}
TopAllowance == CHOOSE n \in Allowances : \A k \in Allowances : k <= n

\* The queries of u that were served from tick first to tick last, as far as time goes.
ServedIn(u, first, last) ==
    serves[u][IF last <= MaxClock THEN last ELSE MaxClock] - serves[u][first - 1]

\* A fixed window admits at most its allowance, so no stretch of RateWindow ticks
\* holds more than twice the largest allowance, across window ends, tier changes,
\* consent changes and restarts; unless two Checks of the user overlapped, when
\* one writes back the count the other had read (Gate.Check).
RateBound ==
    \A u \in Users \ overlapped : \A t \in 1..MaxClock :
        ServedIn(u, t, t + RateWindow - 1) <= 2 * TopAllowance

\* What Store.Update's and SetTier's comments promise: concurrent writers of a
\* record do not clobber one another, so the store holds the consent and the tier
\* last set.
UpdatesSurvive ==
    \A u \in Users : /\ store[u].consent = wanted[u].consent
                     /\ store[u].tier = wanted[u].tier
=============================================================================
