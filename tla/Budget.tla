------------------------------- MODULE Budget -------------------------------
(***************************************************************************)
(* The global spend ceiling: budget.Meter, its persisted state, and the    *)
(* metered chat model that checks it before each model call and records the *)
(* call's tokens after (runtime.meteredChat).                              *)
(*                                                                         *)
(* A caller is an agent run, which makes its model calls one at a time; the *)
(* runs of different messages overlap.  Every meter operation holds its     *)
(* mutex, but the mutex is not held during the call: what the check saw is  *)
(* stale when the usage is recorded.  Saving may fail, and the process may  *)
(* die at any point.                                                       *)
(*                                                                         *)
(* Times are ticks of a clock that starts at 1 and never goes back.        *)
(***************************************************************************)
EXTENDS Integers, FiniteSets

CONSTANTS
    Callers,    \* the agent runs that may be under way at the same time
    Ceiling,    \* tokens per period
    Period,     \* ticks per period
    MaxTokens,  \* the most tokens one call uses
    Usages,     \* the usages a call may report, in tokens
    MaxClock,   \* bound of the model: the clock stops here
    MaxCharged  \* bound of the model: tokens recorded in one tick

ASSUME BudgetAssumption ==
    /\ IsFiniteSet(Callers)
    /\ Ceiling \in Nat \ {0}
    /\ Period \in Nat \ {0}
    /\ MaxTokens \in Nat
    /\ Usages \subseteq {n \in Int : n <= MaxTokens}
    /\ MaxClock \in Nat \ {0}
    /\ MaxCharged \in Nat

VARIABLES
    meter,      \* the start of the current period and the tokens spent in it
    disk,       \* the persisted state, and whether there is one
    flight,     \* where each caller is
    clock,
    \* history, read by no action:
    charged,    \* tokens recorded up to each tick
    unsaved,    \* the last record of the current period could not be saved
    lost        \* recorded tokens were lost with the process

vars == <<meter, disk, flight, clock, charged, unsaved, lost>>

State == [start: 1..MaxClock, spent: Nat]

\* The types of the meter's variables.
TypeOK ==
    /\ meter \in State
    /\ disk \in [state: State, found: BOOLEAN]
    /\ flight \in [Callers -> {"idle", "calling", "refused"}]
    /\ clock \in 1..MaxClock
    /\ charged \in [0..MaxClock -> Nat]
    /\ unsaved \in BOOLEAN
    /\ lost \in BOOLEAN

Fresh(now) == [start |-> now, spent |-> 0]

Init ==
    /\ meter = Fresh(1)
    /\ disk = [state |-> Fresh(1), found |-> FALSE]
    /\ flight = [c \in Callers |-> "idle"]
    /\ clock = 1
    /\ charged = [t \in 0..MaxClock |-> 0]
    /\ unsaved = FALSE
    /\ lost = FALSE

-----------------------------------------------------------------------------

\* Variant with a bug: a period lasts one tick too long.
Elapsed_Late(st) == clock - st.start > Period
Elapsed(st) == clock - st.start >= Period

\* rollLocked: a new period once the current one has elapsed.
Rolled(st) == IF Elapsed(st) THEN Fresh(clock) ELSE st

\* Store.Save, which may fail.
Save(st) == {[state |-> st, found |-> TRUE]}
TrySave(st) == Save(st) \cup {disk}

\* The states the disk can be left in by a roll: only a roll saves.
AfterRoll == IF Elapsed(meter) THEN TrySave(Rolled(meter)) ELSE {disk}

\* Variant with a bug: the ceiling itself is still within budget.
Within_Equal(st) == st.spent <= Ceiling
\* The comparison of Allow, after the roll.
Within(st) == st.spent < Ceiling

\* meteredChat.Chat up to the call: Allow, then the call or a refusal.
Begin(c) ==
    /\ flight[c] # "calling"
    /\ meter' = Rolled(meter)
    /\ disk' \in AfterRoll
    /\ flight' = [flight EXCEPT ![c] = IF Within(Rolled(meter)) THEN "calling" ELSE "refused"]
    /\ unsaved' = (unsaved /\ ~Elapsed(meter))
    /\ UNCHANGED <<clock, charged, lost>>

\* The call fails: nothing is recorded.
Fail(c) ==
    /\ flight[c] = "calling"
    /\ flight' = [flight EXCEPT ![c] = "idle"]
    /\ UNCHANGED <<meter, disk, clock, charged, unsaved, lost>>

\* Variant with a bug: a call that reports less than nothing gives tokens back.
Counted_Signed(n) == n
\* A negative count is zero.
Counted(n) == IF n < 0 THEN 0 ELSE n

\* st with a call's n tokens.
Added(st, n) == [start |-> st.start, spent |-> st.spent + Counted(n)]

\* Variant with a bug: the state is saved before the tokens are added.
Saved_Before(st, n) == st
\* What Record saves: the state with the tokens added.
Saved(st, n) == Added(st, n)

\* The tokens recorded up to tick t, and from tick first to tick last.
ChargedBy(t) == IF t < 0 THEN 0 ELSE IF t > MaxClock THEN charged[MaxClock] ELSE charged[t]
ChargedIn(first, last) == ChargedBy(last) - ChargedBy(first - 1)

\* The call returns and Record adds its n tokens to the period that is current
\* then; a failed save is only logged.
Finish(c, n) ==
    LET st == Rolled(meter)
    IN  /\ flight[c] = "calling"
        /\ ChargedIn(clock, clock) + Counted(n) <= MaxCharged
        /\ flight' = [flight EXCEPT ![c] = "idle"]
        /\ meter' = Added(st, n)
        /\ charged' = [t \in 0..MaxClock |-> IF t >= clock THEN charged[t] + Counted(n)
                                             ELSE charged[t]]
        /\ \/ disk' \in Save(Saved(st, n)) /\ unsaved' = FALSE
           \/ disk' \in AfterRoll          /\ unsaved' = TRUE
        /\ UNCHANGED <<clock, lost>>

\* Remaining rolls like the others.
Remaining ==
    /\ meter' = Rolled(meter)
    /\ disk' \in AfterRoll
    /\ unsaved' = (unsaved /\ ~Elapsed(meter))
    /\ UNCHANGED <<flight, clock, charged, lost>>

Tick ==
    /\ clock < MaxClock
    /\ clock' = clock + 1
    /\ UNCHANGED <<meter, disk, flight, charged, unsaved, lost>>

\* Variant with a bug: a restarted meter starts afresh.
Loaded_Fresh == Fresh(clock)
\* New: the persisted state, or a first period that is not saved yet.
Loaded == IF disk.found THEN disk.state ELSE Fresh(clock)

\* The process dies and starts again; calls under way are lost unrecorded.
Restart ==
    /\ meter' = Loaded
    /\ flight' = [c \in Callers |-> "idle"]
    /\ lost' = (lost \/ unsaved)
    /\ unsaved' = FALSE
    /\ UNCHANGED <<disk, clock, charged>>

Next ==
    \/ \E c \in Callers : Begin(c) \/ Fail(c) \/ \E n \in Usages : Finish(c, n)
    \/ Remaining \/ Tick \/ Restart

Spec == Init /\ [][Next]_vars

-----------------------------------------------------------------------------
(* Properties *)

MostSpent == Ceiling - 1 + Cardinality(Callers) * MaxTokens

\* The ceiling is overspent by no more than the calls under way when it was
\* reached, calls that began in an earlier period included, in memory and on disk,
\* across restarts (comment of Meter.Record).
OverspendBound ==
    /\ meter.spent <= MostSpent
    /\ disk.state.spent <= MostSpent

\* No stretch of one period's length is charged more than two periods' worth, over
\* rolls, failed saves and restarts: neither a restart nor a crash loop gives a
\* spent period back, as long as what was recorded had been saved (package comment
\* of internal/budget).
WindowBound ==
    ~lost => \A t \in 1..MaxClock : ChargedIn(t, t + Period - 1) <= 2 * MostSpent

\* A call is refused only over what the current period spent: within the last
\* Period ticks the whole ceiling was charged, restarts and failed saves included,
\* so an old period is never held against a new one (Allow, rollLocked).
RefusedOnlyWhenSpent ==
    [][\A c \in Callers :
          flight[c] # "refused" /\ flight'[c] = "refused" =>
             ChargedIn(clock - Period + 1, clock) >= Ceiling]_vars

\* The meter restarts with what the period had spent, in whatever order calls,
\* rolls and failures came before, unless the period's last record was not saved
\* (package comment of internal/budget: the meter is persisted).
RestartKeepsSpend ==
    [][meter'.start = meter.start /\ ~unsaved => meter'.spent >= meter.spent]_vars
=============================================================================
