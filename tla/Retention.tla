----------------------------- MODULE Retention -----------------------------
(***************************************************************************)
(* The record of the namespaces long-term memory was kept in               *)
(* (internal/namespaces), the start that updates it (newLongMemory) and the *)
(* purge that deletes what retention expired (runtime.RunPurge).           *)
(*                                                                         *)
(* The record is one file, written whole.  The process may die at any time, *)
(* and the configuration may name other namespaces at the next start; the  *)
(* erase command of the program starts in the same way, with the bot       *)
(* stopped.  The memory service is external: it stamps a record when it is *)
(* appended, and deletes what is older than a cut.                         *)
(*                                                                         *)
(* A purge takes less than a tick.  Its readings of the wall clock may be a *)
(* little behind the timer that woke it.                                   *)
(***************************************************************************)
EXTENDS Integers

CONSTANTS
    Namespaces, \* the namespaces a configuration may name
    Configs,    \* the sets of namespaces the bot may be configured with
    Turns,      \* the turns that may be kept; one user in one chat each namespace
    Window,     \* length of a session's window, in ticks
    Retain,     \* the retention period, in ticks
    Delay,      \* purgeDelay
    Behind,     \* how far a purge's reading of the clock may be behind
    AnswerTime, \* the longest a turn takes from its start to being kept
    MaxClock    \* bound of the model: the clock stops here

ASSUME RetentionAssumption ==
    /\ Configs \subseteq SUBSET Namespaces
    /\ Window \in Nat \ {0}
    /\ Retain \in Nat \ {0} /\ Retain % Window = 0
    /\ Delay \in Nat /\ Delay < Window
    /\ Behind \in Nat /\ Behind <= Delay
    /\ AnswerTime \in Nat
    /\ MaxClock \in Nat

VARIABLES
    file,       \* the record on disk
    rec,        \* the record in memory
    up,         \* where the process stands
    config,     \* the namespaces it was started with
    began,      \* when it was started
    purger,     \* the drop time each namespace's purger was made with
    due,        \* the namespaces this purge has still to go through
    forget,     \* the namespace that is being forgotten, if any
    wake,       \* when the next purge runs, 0 while one is under way
    turn,       \* the turns and, once kept, their records in the service
    clock,
    \* history, read by no action:
    missed,     \* namespaces whose last purge failed, or that had none since the start
    gone        \* since when each namespace is missing from the configuration

recordVars == <<file, rec>>
startVars  == <<up, config, began, purger>>
purgeVars  == <<due, forget, wake>>
vars == <<recordVars, startVars, purgeVars, turn, clock, missed, gone>>

\* The entry of a namespace: none, configured (Go's zero time), or since when it is
\* dropped.
Absent     == -1
Configured == 0
Entry      == Int

TurnRecord == [stage: {"new", "open", "kept", "gone"}, ns: Namespaces, born: Nat, at: Nat]

\* The types of the variables; a purge is never more than a window away.
TypeOK ==
    /\ file \in [Namespaces -> Entry]
    /\ rec \in [Namespaces -> Entry]
    /\ up \in {"down", "starting", "serving"}
    /\ config \in SUBSET Namespaces
    /\ began \in Nat
    /\ purger \in [Namespaces -> Entry]
    /\ due \in SUBSET Namespaces
    /\ forget \in SUBSET Namespaces
    /\ wake \in Nat /\ wake <= clock + Window
    /\ turn \in [Turns -> TurnRecord]
    /\ clock \in Nat
    /\ missed \in SUBSET Namespaces
    /\ gone \in [Namespaces -> Nat]

NoEntry == [ns \in Namespaces |-> Absent]

Init ==
    /\ file = NoEntry /\ rec = NoEntry /\ purger = NoEntry
    /\ up = "down" /\ config = {} /\ began = 0
    /\ due = {} /\ forget = {} /\ wake = 0
    /\ turn \in [Turns -> {[stage |-> "new", ns |-> ns, born |-> 0, at |-> 0] : ns \in Namespaces}]
    /\ clock = Window
    /\ missed = {}
    /\ gone = [ns \in Namespaces |-> 0]

-----------------------------------------------------------------------------
(* Windows *)

\* The start of the window t falls in.
WindowStart(t) == t - (t % Window)

\* Where a purge at t cuts.
PurgeCut(t) == WindowStart(t) - Retain

\* Variant with a bug: the purge that follows within the delay of a boundary is skipped.
UntilPurge_Next(t) == WindowStart(t) + Window + Delay - t
UntilPurge(t) == WindowStart(t - Delay) + Window + Delay - t

\* What a purge may read from the clock.
Readings == {clock - behind : behind \in 0..Behind}

-----------------------------------------------------------------------------
(* Starting *)

\* save writes a new file and renames it into place; it may fail before or after the
\* rename.
SaveFails(new) == file' \in {file, new}

\* Variant with a bug: a namespace configured again keeps its drop time.
Listed_StillDropped(cfg) ==
    [ns \in Namespaces |-> IF ns \in cfg /\ file[ns] = Absent THEN Configured ELSE file[ns]]
\* Open and Configured: the record on disk, with the namespaces of cfg as configured.
Listed(cfg) == [ns \in Namespaces |-> IF ns \in cfg THEN Configured ELSE file[ns]]

\* newLongMemory up to the save of the configured namespaces; an error ends the
\* process.
Start(cfg) ==
    /\ up = "down"
    /\ config' = cfg
    /\ began' = clock
    /\ rec' = Listed(cfg)
    /\ \/ /\ file' = Listed(cfg)
          /\ up' = "starting"
          /\ purger' = [ns \in Namespaces |-> IF ns \in cfg THEN Configured ELSE Absent]
          /\ missed' = Namespaces
       \/ /\ SaveFails(Listed(cfg))
          /\ UNCHANGED <<up, purger, missed>>
    /\ gone' = [ns \in Namespaces |-> IF file'[ns] = Configured THEN 0 ELSE gone[ns]]
    /\ UNCHANGED <<purgeVars, turn, clock>>

\* The namespaces on record that have no purger yet.
Unpurged == {ns \in Namespaces : rec[ns] # Absent /\ purger[ns] = Absent}

\* Variant with a bug: every start renews the drop time.
DroppedAt_Renewed(ns) == began
\* Dropped: when ns was first found missing from the configuration.
DroppedAt(ns) == IF rec[ns] = Configured THEN began ELSE rec[ns]

\* A namespace on record that the configuration does not name is dropped, and gets a
\* purger; an error ends the process.
Drop(ns) ==
    LET marked == [rec EXCEPT ![ns] = DroppedAt(ns)]
    IN  /\ up = "starting"
        /\ ns \in Unpurged
        /\ \/ /\ rec' = marked
              /\ file' = IF marked = rec THEN file ELSE marked
              /\ purger' = [purger EXCEPT ![ns] = DroppedAt(ns)]
              /\ gone' = [gone EXCEPT ![ns] = IF @ = 0 THEN began ELSE @]
              /\ UNCHANGED up
           \/ /\ marked # rec
              /\ SaveFails(marked)
              /\ up' = "down"
              /\ UNCHANGED <<rec, purger, gone>>
        /\ UNCHANGED <<config, began, purgeVars, turn, clock, missed>>

\* The bot serves, and the first purge begins at once.
Serve ==
    /\ up = "starting"
    /\ Unpurged = {}
    /\ up' = "serving"
    /\ due' = {ns \in Namespaces : purger[ns] # Absent}
    /\ UNCHANGED <<recordVars, config, began, purger, forget, wake, turn, clock, missed, gone>>

\* The process dies.  Another starts later than anything this one kept.
Crash ==
    /\ up # "down"
    /\ clock < MaxClock
    /\ clock' = clock + 1
    /\ up' = "down"
    /\ due' = {} /\ forget' = {} /\ wake' = 0
    /\ turn' = [t \in Turns |-> IF turn[t].stage = "open" THEN [turn[t] EXCEPT !.stage = "gone"]
                                ELSE turn[t]]
    /\ UNCHANGED <<recordVars, config, began, purger, missed, gone>>

-----------------------------------------------------------------------------
(* Turns *)

Ask(t) ==
    /\ up = "serving"
    /\ turn[t].stage = "new"
    /\ turn[t].ns \in config
    /\ turn' = [turn EXCEPT ![t].stage = "open", ![t].born = clock]
    /\ UNCHANGED <<recordVars, startVars, purgeVars, clock, missed, gone>>

\* Both records of a turn are appended at once, or neither.
KeepTurn(t) ==
    /\ turn[t].stage = "open"
    /\ \/ turn' = [turn EXCEPT ![t].stage = "kept", ![t].at = clock]
       \/ turn' = [turn EXCEPT ![t].stage = "gone"]
    /\ UNCHANGED <<recordVars, startVars, purgeVars, clock, missed, gone>>

-----------------------------------------------------------------------------
(* The purge *)

\* DeleteBefore: every kept turn of ns older than the cut, or, when it fails, some.
Expired(ns, cut) == {t \in Turns : turn[t].stage = "kept" /\ turn[t].ns = ns /\ turn[t].at < cut}
Delete(del) == turn' = [t \in Turns |-> IF t \in del THEN [turn[t] EXCEPT !.stage = "gone"]
                                        ELSE turn[t]]

\* A dropped namespace whose drop the cut has passed.
Forgettable(ns, cut) == purger[ns] \notin {Absent, Configured} /\ cut >= purger[ns]

\* NamespacePurge.Purge up to the end of DeleteBefore.
Purge(ns) ==
    /\ ns \in due
    /\ forget = {}
    /\ due' = due \ {ns}
    /\ \E now \in Readings :
          LET cut == PurgeCut(now)
          IN  \/ /\ Delete(Expired(ns, cut))
                 /\ forget' = IF Forgettable(ns, cut) THEN {ns} ELSE {}
                 /\ missed' = missed \ {ns}
              \/ /\ \E some \in SUBSET Expired(ns, cut) : Delete(some)
                 /\ missed' = missed \cup {ns}
                 /\ UNCHANGED forget
    /\ UNCHANGED <<recordVars, startVars, wake, clock, gone>>

\* Forget, which undoes its change in memory when the save fails; for a namespace that
\* is not on record there is nothing to do.
Forget(ns) ==
    LET new == [rec EXCEPT ![ns] = Absent]
    IN  /\ ns \in forget
        /\ forget' = {}
        /\ \/ /\ rec' = new
              /\ file' = IF rec[ns] = Absent THEN file ELSE new
              /\ UNCHANGED missed
           \/ /\ rec[ns] # Absent
              /\ SaveFails(new)
              /\ missed' = missed \cup {ns}
              /\ UNCHANGED rec
        /\ UNCHANGED <<startVars, due, wake, turn, clock, gone>>

Serving == up = "serving" /\ due = {} /\ forget = {}

\* RunPurge waits for the next window.
Sleep ==
    /\ Serving
    /\ wake = 0
    /\ \E now \in Readings : wake' = clock + UntilPurge(now)
    /\ UNCHANGED <<recordVars, startVars, due, forget, turn, clock, missed, gone>>

Wake ==
    /\ Serving
    /\ wake # 0 /\ clock >= wake
    /\ wake' = 0
    /\ due' = {ns \in Namespaces : purger[ns] # Absent}
    /\ UNCHANGED <<recordVars, startVars, forget, turn, clock, missed, gone>>

\* Time passes, but not over a purge that is due or an answer at its deadline.
Tick ==
    /\ clock < MaxClock
    /\ up = "serving" => wake # 0 /\ clock < wake
    /\ \A t \in Turns : turn[t].stage = "open" => clock - turn[t].born < AnswerTime
    /\ clock' = clock + 1
    /\ UNCHANGED <<recordVars, startVars, purgeVars, turn, missed, gone>>

\* The bound of the model.
TheEnd == clock = MaxClock /\ UNCHANGED vars

Next ==
    \/ \E cfg \in Configs : Start(cfg)
    \/ \E ns \in Namespaces : Drop(ns) \/ Purge(ns) \/ Forget(ns)
    \/ \E t \in Turns : Ask(t) \/ KeepTurn(t)
    \/ Serve \/ Crash \/ Sleep \/ Wake \/ Tick \/ TheEnd

Spec == Init /\ [][Next]_vars

-----------------------------------------------------------------------------
(* Properties *)

Kept == {t \in Turns : turn[t].stage = "kept"}

\* Long-term memory is never out of reach: a namespace that holds something is on the
\* record of the next start, and while the bot serves it is among those a withdrawal
\* erases from and has a purger, over changes of the configuration, failed saves and
\* crashes (package comment of internal/namespaces; comment of Forget).
HeldIsOnRecord ==
    \A t \in Kept : /\ file[turn[t].ns] # Absent
                    /\ up = "serving" => rec[turn[t].ns] # Absent /\ purger[turn[t].ns] # Absent

\* How long a purge can be late: a window, the delay, and the clock's error.
Late == Window + Delay + Behind

\* While the bot sleeps until the next purge, no record is older than retention and
\* that where the last purge went through, whenever the bot was started and however
\* far behind its clock was read (untilPurge).  The comment of PurgeCut gives a window only;
\* a purge comes the delay after its boundary.
ExpiredGoesInTime ==
    up = "serving" /\ wake # 0 =>
        \A t \in Kept : turn[t].ns \notin missed => clock <= turn[t].at + Retain + Late

\* A dropped namespace is forgotten in the same time from when it was first found
\* missing, however often the bot was started since (comment of NamespacePurge).
DroppedIsForgotten ==
    up = "serving" /\ wake # 0 =>
        \A ns \in Namespaces \ missed :
            gone[ns] # 0 /\ clock >= gone[ns] + Retain + Late => rec[ns] = Absent
=============================================================================
