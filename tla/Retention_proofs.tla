-------------------------- MODULE Retention_proofs --------------------------
(***************************************************************************)
(* What holds of the namespace record and the retention purge for every    *)
(* value of the constants: what is kept is on record, and what has expired *)
(* or was dropped goes in time.                                            *)
(***************************************************************************)
EXTENDS Retention, TLAPS

USE RetentionAssumption DEF Absent, Configured, Entry

-----------------------------------------------------------------------------
(* Types *)

\* A reading of the clock is an integer, and so is what is computed from it; the wait
\* for the next purge is at most a window.
LEMMA Waits ==
    ASSUME NEW t \in Int
    PROVE  /\ WindowStart(t) \in Int
           /\ PurgeCut(t) \in Int
           /\ UntilPurge(t) \in 1..Window
<1>1. Window \in Int /\ Window > 0 /\ Delay \in Int /\ Retain \in Int
  OBVIOUS
<1>2. ASSUME NEW x \in Int
      PROVE  x % Window \in 0..Window - 1
  BY <1>1
<1>3. WindowStart(t) \in Int /\ PurgeCut(t) \in Int
  BY <1>1, <1>2 DEF WindowStart, PurgeCut
<1>4. UntilPurge(t) = Window - ((t - Delay) % Window)
  BY <1>1, <1>2 DEF UntilPurge, WindowStart
<1>5. (t - Delay) % Window \in 0..Window - 1
  BY <1>1, <1>2
<1> QED
  BY <1>1, <1>3, <1>4, <1>5

LEMMA ReadingIsInt ==
    ASSUME clock \in Nat, NEW now \in Readings
    PROVE  now \in Int
BY DEF Readings

LEMMA StepKeepsTypes ==
    ASSUME TypeOK, [Next]_vars
    PROVE  TypeOK'
<1> USE DEF TypeOK
<1>1. ASSUME NEW cfg \in Configs, Start(cfg)
      PROVE  TypeOK'
  <2>1. Listed(cfg) \in [Namespaces -> Entry]
    BY DEF Listed
  <2>2. file' \in [Namespaces -> Entry]
    BY <1>1, <2>1 DEF Start, SaveFails
  <2>3. [ns \in Namespaces |-> IF ns \in cfg THEN Configured ELSE Absent] \in [Namespaces -> Entry]
    OBVIOUS
  <2> QED
    BY <1>1, <2>1, <2>2, <2>3 DEF Start, purgeVars
<1>2. ASSUME NEW ns \in Namespaces, Drop(ns)
      PROVE  TypeOK'
  <2>1. DroppedAt(ns) \in Int
    BY DEF DroppedAt
  <2>2. [rec EXCEPT ![ns] = DroppedAt(ns)] \in [Namespaces -> Entry]
    BY <2>1
  <2>3. file' \in [Namespaces -> Entry] /\ rec' \in [Namespaces -> Entry]
    BY <1>2, <2>2 DEF Drop, SaveFails
  <2>4. purger' \in [Namespaces -> Entry] /\ gone' \in [Namespaces -> Nat]
    BY <1>2, <2>1 DEF Drop
  <2> QED
    BY <1>2, <2>3, <2>4 DEF Drop, purgeVars
<1>3. ASSUME NEW ns \in Namespaces, Purge(ns)
      PROVE  TypeOK'
  <2>1. turn' \in [Turns -> TurnRecord]
    BY <1>3 DEF Purge, Delete, TurnRecord
  <2>2. forget' \in SUBSET Namespaces /\ missed' \in SUBSET Namespaces
    BY <1>3 DEF Purge
  <2> QED
    BY <1>3, <2>1, <2>2 DEF Purge, recordVars, startVars
<1>4. ASSUME NEW ns \in Namespaces, Forget(ns)
      PROVE  TypeOK'
  <2>1. [rec EXCEPT ![ns] = Absent] \in [Namespaces -> Entry]
    OBVIOUS
  <2>2. file' \in [Namespaces -> Entry] /\ rec' \in [Namespaces -> Entry]
    BY <1>4, <2>1 DEF Forget, SaveFails
  <2> QED
    BY <1>4, <2>2 DEF Forget, startVars
<1>5. ASSUME NEW t \in Turns, Ask(t) \/ KeepTurn(t)
      PROVE  TypeOK'
  BY <1>5 DEF Ask, KeepTurn, TurnRecord, recordVars, startVars, purgeVars
<1>6. CASE Serve
  BY <1>6 DEF Serve, recordVars
<1>7. CASE Crash
  BY <1>7 DEF Crash, recordVars, TurnRecord
<1>8. CASE Sleep
  <2>1. PICK now \in Readings : wake' = clock + UntilPurge(now)
    BY <1>8 DEF Sleep
  <2>2. UntilPurge(now) \in 1..Window
    BY ReadingIsInt, Waits
  <2> QED
    BY <1>8, <2>1, <2>2 DEF Sleep, recordVars, startVars
<1>9. CASE Wake
  BY <1>9 DEF Wake, recordVars, startVars
<1>10. CASE Tick
  BY <1>10 DEF Tick, recordVars, startVars, purgeVars
<1>11. CASE TheEnd \/ UNCHANGED vars
  BY <1>11 DEF TheEnd, vars, recordVars, startVars, purgeVars
<1> QED
  BY <1>1, <1>2, <1>3, <1>4, <1>5, <1>6, <1>7, <1>8, <1>9, <1>10, <1>11 DEF Next

\* The types are kept, and a purge is never more than a window away: whatever the
\* configurations, failures and crashes (newLongMemory, Record, RunPurge).
THEOREM RetentionTypeCorrect == Spec => []TypeOK
<1>1. Init => TypeOK
  <2> SUFFICES ASSUME Init PROVE TypeOK
    OBVIOUS
  <2> QED
    BY DEF Init, TypeOK, NoEntry, TurnRecord
<1>2. TypeOK /\ [Next]_vars => TypeOK'
  BY StepKeepsTypes
<1> QED
  BY <1>1, <1>2, PTL DEF Spec

-----------------------------------------------------------------------------
(* Nothing that is kept is ever out of reach *)

\* A namespace that stands in r as dropped, and since when.
DroppedIn(r, ns) == r[ns] # Absent /\ r[ns] # Configured

\* The record r knows every namespace that holds something, and nothing was kept in one
\* after r says that it was dropped.
Covers(r) ==
    \A t \in Kept : /\ r[turn[t].ns] # Absent
                    /\ DroppedIn(r, turn[t].ns) => turn[t].at < r[turn[t].ns]

\* A process starts later than anything the one before it kept.
KeptBefore ==
    /\ up # "down" => began <= clock
    /\ \A t \in Kept : /\ turn[t].at <= clock
                       /\ up = "down" => turn[t].at < clock
                       /\ up = "starting" => turn[t].at < began

\* The configured namespaces are on record as such, in memory and on disk.
ConfiguredIsListed ==
    up # "down" => \A ns \in config : /\ rec[ns] = Configured
                                      /\ file[ns] = Configured
                                      /\ purger[ns] = Configured

\* Every namespace on record has a purger once the bot serves, made with a drop time
\* after which nothing was kept.
PurgersReach ==
    /\ up = "serving" => \A ns \in Namespaces : rec[ns] # Absent => purger[ns] # Absent
    /\ up # "down" => \A t \in Kept : DroppedIn(purger, turn[t].ns) => turn[t].at < purger[turn[t].ns]

\* A namespace that is being forgotten is not configured and holds nothing.
ForgottenIsEmpty ==
    \A ns \in forget : /\ up = "serving"
                       /\ ns \notin config
                       /\ \A t \in Kept : turn[t].ns # ns

\* Purges and turns are under way only while the bot serves, turns only in the
\* configured namespaces.
OnlyServing ==
    /\ due # {} => up = "serving"
    /\ \A t \in Turns : turn[t].stage = "open" => up = "serving" /\ turn[t].ns \in config

RecordInv ==
    /\ TypeOK
    /\ Covers(file)
    /\ up # "down" => Covers(rec)
    /\ KeptBefore
    /\ ConfiguredIsListed
    /\ PurgersReach
    /\ ForgottenIsEmpty
    /\ OnlyServing

USE DEF DroppedIn

LEMMA RecordInvInit == Init => RecordInv
<1> SUFFICES ASSUME Init PROVE RecordInv
  OBVIOUS
<1>1. TypeOK
  BY DEF Init, TypeOK, NoEntry, TurnRecord
<1>2. \A t \in Turns : turn[t].stage = "new"
  BY DEF Init
<1>3. Kept = {}
  BY <1>2 DEF Kept
<1>4. up = "down" /\ due = {} /\ forget = {}
  BY DEF Init
<1> QED
  BY <1>1, <1>2, <1>3, <1>4 DEF RecordInv, Covers, KeptBefore, ConfiguredIsListed, PurgersReach,
     ForgottenIsEmpty, OnlyServing

\* A record with the configured namespaces listed, a namespace marked as dropped, or
\* an empty one removed still covers what is kept.
LEMMA StartPreserves ==
    ASSUME RecordInv, NEW cfg \in Configs, Start(cfg)
    PROVE  RecordInv'
<1> USE DEF RecordInv
<1>1. TypeOK'
  BY StepKeepsTypes DEF Next
<1>2. turn' = turn /\ Kept' = Kept /\ clock' = clock
  BY DEF Start, Kept
<1>3. up = "down" /\ due = {} /\ forget = {}
  BY DEF Start, OnlyServing, ForgottenIsEmpty
<1>4. due' = {} /\ forget' = {}
  BY <1>3 DEF Start, purgeVars
<1>5. \A ns \in Namespaces : Listed(cfg)[ns] = IF ns \in cfg THEN Configured ELSE file[ns]
  BY DEF Listed
<1>6. \A t \in Kept : turn[t].ns \in Namespaces
  BY DEF Kept, TypeOK, TurnRecord
<1>7. Covers(Listed(cfg))
  BY <1>5, <1>6 DEF Covers
<1>8. Covers(file)' /\ Covers(rec)'
  <2>1. file' \in {file, Listed(cfg)} /\ rec' = Listed(cfg)
    BY DEF Start, SaveFails
  <2> QED
    BY <1>2, <1>7, <2>1 DEF Covers
<1>9. KeptBefore'
  BY <1>2, <1>3 DEF KeptBefore, Start, TypeOK
<1>10. \A t \in Turns : turn[t].stage # "open"
  BY <1>3 DEF OnlyServing
<1>11. cfg \subseteq Namespaces
  OBVIOUS
<1>12. CASE up' = "starting"
  <2>1. /\ config' = cfg /\ rec' = Listed(cfg) /\ file' = Listed(cfg)
        /\ purger' = [ns \in Namespaces |-> IF ns \in cfg THEN Configured ELSE Absent]
    BY <1>3, <1>12 DEF Start
  <2>2. ConfiguredIsListed'
    BY <1>5, <1>11, <2>1 DEF ConfiguredIsListed
  <2>3. PurgersReach'
    BY <1>2, <1>6, <1>12, <2>1 DEF PurgersReach
  <2> QED
    BY <1>1, <1>2, <1>4, <1>8, <1>9, <1>10, <2>2, <2>3 DEF ForgottenIsEmpty, OnlyServing
<1>13. CASE up' = "down"
  BY <1>1, <1>2, <1>4, <1>8, <1>9, <1>10, <1>13 DEF ConfiguredIsListed, PurgersReach,
     ForgottenIsEmpty, OnlyServing
<1> QED
  BY <1>3, <1>12, <1>13 DEF Start

LEMMA DropPreserves ==
    ASSUME RecordInv, NEW ns \in Namespaces, Drop(ns)
    PROVE  RecordInv'
<1> USE DEF RecordInv
<1> DEFINE marked == [rec EXCEPT ![ns] = DroppedAt(ns)]
<1>1. TypeOK'
  BY StepKeepsTypes DEF Next
<1>2. turn' = turn /\ Kept' = Kept /\ clock' = clock /\ began' = began /\ config' = config
  BY DEF Drop, Kept
<1>3. up = "starting" /\ rec[ns] # Absent /\ purger[ns] = Absent
  BY DEF Drop, Unpurged
<1>4. due' = {} /\ forget' = {} /\ \A t \in Turns : turn[t].stage # "open"
  BY <1>3 DEF Drop, purgeVars, OnlyServing, ForgottenIsEmpty
<1>5. ns \notin config
  BY <1>3 DEF ConfiguredIsListed
<1>6. \A t \in Kept : turn[t].ns \in Namespaces /\ turn[t].at \in Nat /\ turn[t].at < began
  BY <1>3 DEF KeptBefore, Kept, TypeOK, TurnRecord
<1>7. \A t \in Kept : turn[t].ns = ns => DroppedAt(ns) # Absent /\ turn[t].at < DroppedAt(ns)
  BY <1>3, <1>6 DEF DroppedAt, Covers, TypeOK
<1>8. \A x \in Namespaces : marked[x] = IF x = ns THEN DroppedAt(ns) ELSE rec[x]
  BY DEF TypeOK
<1>9. Covers(marked)
  BY <1>3, <1>6, <1>7, <1>8 DEF Covers
<1>10. file' \in {file, marked} /\ rec' \in {rec, marked} /\ up' \in {"starting", "down"}
  BY <1>3 DEF Drop, SaveFails
<1>11. Covers(file)' /\ Covers(rec)'
  BY <1>2, <1>3, <1>9, <1>10 DEF Covers
<1>12. KeptBefore'
  BY <1>2, <1>3, <1>6, <1>10 DEF KeptBefore, TypeOK
<1>13. ConfiguredIsListed'
  <2>1. \A x \in Namespaces : x # ns => purger'[x] = purger[x]
    BY DEF Drop, TypeOK
  <2> QED
    BY <1>2, <1>3, <1>5, <1>8, <1>10, <2>1 DEF ConfiguredIsListed, TypeOK
<1>14. PurgersReach'
  <2>1. purger' \in {purger, [purger EXCEPT ![ns] = DroppedAt(ns)]}
    BY DEF Drop
  <2> QED
    BY <1>2, <1>3, <1>6, <1>7, <1>10, <2>1 DEF PurgersReach, TypeOK
<1> QED
  BY <1>1, <1>2, <1>4, <1>11, <1>12, <1>13, <1>14 DEF ForgottenIsEmpty, OnlyServing

LEMMA PurgePreserves ==
    ASSUME RecordInv, NEW ns \in Namespaces, Purge(ns)
    PROVE  RecordInv'
<1> USE DEF RecordInv
<1>1. TypeOK'
  BY StepKeepsTypes DEF Next
<1>2. /\ file' = file /\ rec' = rec /\ up' = up /\ config' = config /\ began' = began
      /\ purger' = purger /\ clock' = clock
  BY DEF Purge, recordVars, startVars
<1>3. up = "serving" /\ due' \subseteq due /\ forget = {}
  BY DEF Purge, OnlyServing
<1>4. PICK del \in SUBSET Turns : Delete(del)
  BY DEF Purge, Expired
<1>5. /\ \A t \in Turns : turn'[t].stage = turn[t].stage \/ turn'[t].stage = "gone"
      /\ \A t \in Turns : turn'[t].stage # "gone" => turn'[t] = turn[t]
  BY <1>4 DEF Delete, TypeOK, TurnRecord
<1>6. Kept' \subseteq Kept /\ \A t \in Kept' : turn'[t] = turn[t]
  BY <1>5 DEF Kept
<1>7. Covers(file)' /\ Covers(rec)'
  BY <1>2, <1>3, <1>6 DEF Covers
<1>8. KeptBefore' /\ ConfiguredIsListed' /\ PurgersReach'
  BY <1>2, <1>3, <1>6 DEF KeptBefore, ConfiguredIsListed, PurgersReach
<1>9. OnlyServing'
  BY <1>2, <1>3, <1>5 DEF OnlyServing
<1>10. ForgottenIsEmpty'
  <2>1. SUFFICES ASSUME NEW x \in forget'
                 PROVE  x \notin config /\ \A t \in Kept' : turn'[t].ns # x
    BY <1>2, <1>3 DEF ForgottenIsEmpty
  <2>2. PICK now \in Readings :
           /\ Delete(Expired(ns, PurgeCut(now)))
           /\ x = ns /\ Forgettable(ns, PurgeCut(now))
    BY <1>3, <2>1 DEF Purge
  <2>3. x \notin config
    BY <1>3, <2>2 DEF Forgettable, ConfiguredIsListed
  <2>4. ASSUME NEW t \in Kept', turn'[t].ns = x
        PROVE  FALSE
    <3>1. t \in Kept /\ turn[t].ns = ns /\ turn'[t].stage = "kept"
      BY <1>6, <2>2, <2>4 DEF Kept
    <3>2. t \notin Expired(ns, PurgeCut(now))
      BY <2>2, <3>1 DEF Delete, Kept, TypeOK, TurnRecord
    <3>3. ~(turn[t].at < PurgeCut(now))
      BY <3>1, <3>2 DEF Expired, Kept
    <3>4. turn[t].at < purger[ns] /\ PurgeCut(now) >= purger[ns]
      BY <1>3, <2>2, <3>1 DEF Forgettable, PurgersReach
    <3>5. turn[t].at \in Int /\ purger[ns] \in Int /\ PurgeCut(now) \in Int
      <4>1. clock \in Nat
        BY DEF TypeOK
      <4>2. PurgeCut(now) \in Int
        BY <4>1, ReadingIsInt, Waits
      <4> QED
        BY <3>1, <4>2 DEF TypeOK, TurnRecord, Kept
    <3> QED
      BY <3>3, <3>4, <3>5
  <2> QED
    BY <2>3, <2>4
<1> QED
  BY <1>1, <1>7, <1>8, <1>9, <1>10

LEMMA ForgetPreserves ==
    ASSUME RecordInv, NEW ns \in Namespaces, Forget(ns)
    PROVE  RecordInv'
<1> USE DEF RecordInv
<1> DEFINE new == [rec EXCEPT ![ns] = Absent]
<1>1. TypeOK'
  BY StepKeepsTypes DEF Next
<1>2. /\ up' = up /\ config' = config /\ began' = began /\ purger' = purger
      /\ turn' = turn /\ Kept' = Kept /\ clock' = clock /\ due' = due /\ forget' = {}
  BY DEF Forget, startVars, Kept
<1>3. up = "serving" /\ ns \notin config /\ \A t \in Kept : turn[t].ns # ns
  BY DEF Forget, ForgottenIsEmpty
<1>4. file' \in {file, new} /\ rec' \in {rec, new}
  BY DEF Forget, SaveFails
<1>5. \A x \in Namespaces : x # ns => new[x] = rec[x]
  BY DEF TypeOK
<1>6. \A t \in Kept : turn[t].ns \in Namespaces
  BY DEF Kept, TypeOK, TurnRecord
<1>7. Covers(new)
  BY <1>3, <1>5, <1>6 DEF Covers
<1>8. Covers(file)' /\ Covers(rec)'
  BY <1>2, <1>3, <1>4, <1>7 DEF Covers
<1>9. ConfiguredIsListed'
  BY <1>2, <1>3, <1>4, <1>5 DEF ConfiguredIsListed, TypeOK
<1>10. PurgersReach'
  <2>1. \A x \in Namespaces : rec'[x] # Absent => rec[x] # Absent
    BY <1>4, <1>5 DEF TypeOK
  <2> QED
    BY <1>2, <2>1 DEF PurgersReach
<1> QED
  BY <1>1, <1>2, <1>8, <1>9, <1>10 DEF KeptBefore, ForgottenIsEmpty, OnlyServing

LEMMA TurnPreserves ==
    ASSUME RecordInv, NEW t \in Turns, Ask(t) \/ KeepTurn(t)
    PROVE  RecordInv'
<1> USE DEF RecordInv
<1>1. TypeOK'
  BY StepKeepsTypes DEF Next
<1>2. /\ file' = file /\ rec' = rec /\ up' = up /\ config' = config /\ began' = began
      /\ purger' = purger /\ clock' = clock /\ due' = due /\ forget' = forget
  BY DEF Ask, KeepTurn, recordVars, startVars, purgeVars
<1>3. /\ up = "serving" /\ turn[t].ns \in config
      /\ turn'[t].ns = turn[t].ns /\ \A o \in Turns \ {t} : turn'[o] = turn[o]
  BY DEF Ask, KeepTurn, OnlyServing, TypeOK, TurnRecord
<1>4. \A o \in Kept' : o = t \/ (o \in Kept /\ turn'[o] = turn[o])
  BY <1>3 DEF Kept
<1>5. t \in Kept' => turn'[t].at = clock
  BY DEF Ask, KeepTurn, Kept, TypeOK, TurnRecord
<1>6. rec[turn[t].ns] = Configured /\ file[turn[t].ns] = Configured /\ purger[turn[t].ns] = Configured
  BY <1>3 DEF ConfiguredIsListed
<1>7. Covers(file)' /\ Covers(rec)'
  BY <1>2, <1>3, <1>4, <1>6 DEF Covers
<1>8. KeptBefore'
  BY <1>2, <1>3, <1>4, <1>5 DEF KeptBefore, TypeOK
<1>9. ConfiguredIsListed' /\ PurgersReach'
  BY <1>2, <1>3, <1>4, <1>6 DEF ConfiguredIsListed, PurgersReach
<1>10. ForgottenIsEmpty'
  BY <1>2, <1>3, <1>4 DEF ForgottenIsEmpty
<1>11. OnlyServing'
  BY <1>2, <1>3 DEF OnlyServing
<1> QED
  BY <1>1, <1>2, <1>7, <1>8, <1>9, <1>10, <1>11

LEMMA CrashPreserves ==
    ASSUME RecordInv, Crash
    PROVE  RecordInv'
<1> USE DEF RecordInv
<1>1. TypeOK'
  BY StepKeepsTypes DEF Next
<1>2. /\ file' = file /\ up' = "down" /\ clock' = clock + 1 /\ due' = {} /\ forget' = {}
  BY DEF Crash, recordVars
<1>3. \A t \in Turns : turn'[t].stage # "open" /\ (turn'[t].stage # "gone" => turn'[t] = turn[t])
  BY DEF Crash, TypeOK, TurnRecord
<1>4. Kept' \subseteq Kept /\ \A t \in Kept' : turn'[t] = turn[t]
  BY <1>3 DEF Kept
<1>5. Covers(file)'
  BY <1>2, <1>4 DEF Covers
<1>6. KeptBefore'
  BY <1>2, <1>4 DEF KeptBefore, TypeOK, TurnRecord, Kept
<1> QED
  BY <1>1, <1>2, <1>3, <1>5, <1>6 DEF ConfiguredIsListed, PurgersReach, ForgottenIsEmpty, OnlyServing

LEMMA RecordInvStep == RecordInv /\ [Next]_vars => RecordInv'
<1> SUFFICES ASSUME RecordInv, [Next]_vars PROVE RecordInv'
  OBVIOUS
<1>1. TypeOK'
  BY StepKeepsTypes DEF RecordInv
<1>2. CASE Serve
  <2>1. /\ rec' = rec /\ file' = file /\ config' = config /\ began' = began /\ purger' = purger
        /\ turn' = turn /\ Kept' = Kept /\ clock' = clock /\ forget' = forget
        /\ up = "starting" /\ up' = "serving" /\ Unpurged = {}
    BY <1>2 DEF Serve, recordVars, Kept
  <2>2. PurgersReach'
    BY <2>1 DEF RecordInv, PurgersReach, Unpurged
  <2>3. ForgottenIsEmpty' /\ OnlyServing'
    BY <2>1 DEF RecordInv, ForgottenIsEmpty, OnlyServing
  <2> QED
    BY <1>1, <2>1, <2>2, <2>3 DEF RecordInv, Covers, KeptBefore, ConfiguredIsListed
<1>3. CASE Sleep \/ Wake \/ Tick \/ TheEnd \/ UNCHANGED vars
  <2>1. /\ file' = file /\ rec' = rec /\ up' = up /\ config' = config /\ began' = began
        /\ purger' = purger /\ turn' = turn /\ Kept' = Kept /\ forget' = forget
        /\ clock' \in {clock, clock + 1}
        /\ due' # {} => up = "serving"
    BY <1>3 DEF Sleep, Wake, Tick, TheEnd, Serving, vars, recordVars, startVars, purgeVars, Kept,
       RecordInv, OnlyServing
  <2>2. KeptBefore'
    BY <2>1 DEF RecordInv, KeptBefore, TypeOK, TurnRecord, Kept
  <2> QED
    BY <1>1, <2>1, <2>2 DEF RecordInv, Covers, ConfiguredIsListed, PurgersReach, ForgottenIsEmpty,
       OnlyServing
<1> QED
  BY <1>2, <1>3, StartPreserves, DropPreserves, PurgePreserves, ForgetPreserves, TurnPreserves,
     CrashPreserves DEF Next

\* For every set of namespaces and every order of starts, saves that fail, purges and
\* crashes: what is kept lies in a namespace that the record on disk names and, while
\* the bot serves, that a withdrawal erases from and a purge goes through (Record,
\* newLongMemory, NamespacePurge.Purge).
THEOREM HeldStaysOnRecord == Spec => []HeldIsOnRecord
<1>1. RecordInv => HeldIsOnRecord
  BY DEF RecordInv, HeldIsOnRecord, Covers, PurgersReach, Kept, TypeOK, TurnRecord
<1> QED
  BY <1>1, RecordInvInit, RecordInvStep, PTL DEF Spec

-----------------------------------------------------------------------------
(* Windows *)

LEMMA NextMultiple ==
    ASSUME NEW w \in Nat, NEW a \in Int, NEW b \in Int, a + 1 <= b
    PROVE  w * a + w <= w * b
<1>1. b - a - 1 \in Nat /\ b = a + 1 + (b - a - 1)
  OBVIOUS
<1>2. PICK d \in Nat : b = a + 1 + d
  BY <1>1
<1>3. w * b = w * a + w + w * d
  BY <1>2
<1>4. w * d \in Nat /\ w * a \in Int
  OBVIOUS
<1> QED
  BY <1>3, <1>4

\* A later time is in no earlier window.
LEMMA WindowStartGrows ==
    ASSUME NEW s \in Int, NEW t \in Int, s <= t
    PROVE  WindowStart(s) <= WindowStart(t)
<1> DEFINE a == s \div Window
           b == t \div Window
<1>1. /\ a \in Int /\ s = Window * a + (s % Window) /\ s % Window \in 0..Window - 1
      /\ b \in Int /\ t = Window * b + (t % Window) /\ t % Window \in 0..Window - 1
  OBVIOUS
<1> HIDE DEF a, b
<1>2. Window * a \in Int /\ Window * b \in Int
  BY <1>1
<1>3. ASSUME b + 1 <= a PROVE FALSE
  <2>1. Window * b + Window <= Window * a
    BY <1>1, <1>3, NextMultiple
  <2> QED
    BY <1>1, <1>2, <2>1
<1>4. CASE a = b
  BY <1>1, <1>2, <1>4 DEF WindowStart
<1>5. CASE a + 1 <= b
  <2>1. Window * a + Window <= Window * b
    BY <1>1, <1>5, NextMultiple
  <2> QED
    BY <1>1, <1>2, <2>1 DEF WindowStart
<1> QED
  BY <1>1, <1>3, <1>4, <1>5

\* Whatever a purge reads from the clock, its cut is no earlier than that of the earliest
\* reading, and the wait it leads to ends soon after that reading's window.
LEMMA PurgeTimes ==
    ASSUME TypeOK, NEW now \in Readings
    PROVE  /\ now \in Int /\ PurgeCut(now) \in Int /\ WindowStart(clock - Behind) \in Int
           /\ WindowStart(clock - Behind) <= PurgeCut(now) + Retain
           /\ WindowStart(clock - Behind) <= clock
           /\ clock + UntilPurge(now) \in Nat
           /\ clock < clock + UntilPurge(now)
           /\ clock + UntilPurge(now) <= WindowStart(clock - Behind) + Late
<1>1. PICK behind \in 0..Behind : now = clock - behind
  BY DEF Readings
<1>2. /\ clock \in Nat /\ now \in Int /\ clock - Behind \in Int /\ now - Delay \in Int
      /\ clock - Behind <= now /\ now - Delay <= clock - Behind
  BY <1>1 DEF TypeOK
<1>3. /\ WindowStart(clock - Behind) <= WindowStart(now)
      /\ WindowStart(now - Delay) <= WindowStart(clock - Behind)
  BY <1>2, WindowStartGrows
<1>4. /\ WindowStart(now) \in Int /\ WindowStart(now - Delay) \in Int
      /\ WindowStart(clock - Behind) \in Int
  BY <1>2, Waits
<1>5. UntilPurge(now) \in 1..Window
  BY <1>2, Waits
<1>6. (clock - Behind) % Window \in 0..Window - 1
  BY <1>2
<1>7. WindowStart(clock - Behind) <= clock - Behind
  BY <1>2, <1>6 DEF WindowStart
<1>8. clock + UntilPurge(now) = WindowStart(now - Delay) + Window + Delay + behind
  BY <1>1, <1>2, <1>4 DEF UntilPurge
<1> QED
  BY <1>1, <1>2, <1>3, <1>4, <1>5, <1>7, <1>8 DEF PurgeCut, Late

-----------------------------------------------------------------------------
(* Drop times *)

\* No record holds a drop time of the future, nor one later than when the namespace was
\* first found missing; what a configuration names is not missing.
DropTimes(r, at) ==
    \A ns \in Namespaces :
        /\ DroppedIn(r, ns) => r[ns] <= at
        /\ gone[ns] # 0 /\ r[ns] # Absent => r[ns] # Configured /\ r[ns] <= gone[ns]

DropInv ==
    /\ DropTimes(file, clock)
    /\ up = "starting" => file = rec
    /\ up # "down" =>
          /\ DropTimes(rec, began)
          /\ \A ns \in Namespaces :
                gone[ns] # 0 /\ rec[ns] # Absent /\ purger[ns] # Absent => purger[ns] = rec[ns]

LEMMA DropInvStart ==
    ASSUME RecordInv, DropInv, NEW cfg \in Configs, Start(cfg)
    PROVE  DropInv'
<1>0. TypeOK /\ up = "down" /\ UNCHANGED clock /\ began' = clock
  BY DEF RecordInv, Start
<1>1. \A ns \in Namespaces : Listed(cfg)[ns] = IF ns \in cfg THEN Configured ELSE file[ns]
  BY DEF Listed
<1>2. file' \in {file, Listed(cfg)} /\ rec' = Listed(cfg)
  BY DEF Start, SaveFails
<1>3. /\ \A ns \in Namespaces : gone'[ns] = IF file'[ns] = Configured THEN 0 ELSE gone[ns]
      /\ up' # "down" => file' = Listed(cfg)
  BY <1>0 DEF Start
<1>4. DropTimes(file, clock)'
  BY <1>0, <1>1, <1>2, <1>3 DEF DropInv, DropTimes
<1>5. ASSUME up' # "down" PROVE DropTimes(rec, began)'
  BY <1>0, <1>2, <1>3, <1>4, <1>5 DEF DropTimes
<1>6. ASSUME up' # "down", NEW ns \in Namespaces, gone'[ns] # 0, purger'[ns] # Absent PROVE FALSE
  BY <1>0, <1>1, <1>3, <1>6 DEF Start
<1> QED
  BY <1>2, <1>3, <1>4, <1>5, <1>6 DEF DropInv

LEMMA DropInvDrop ==
    ASSUME RecordInv, DropInv, NEW ns \in Namespaces, Drop(ns)
    PROVE  DropInv'
<1> DEFINE marked == [rec EXCEPT ![ns] = DroppedAt(ns)]
<1>0. /\ TypeOK /\ up = "starting" /\ began <= clock /\ UNCHANGED <<clock, began>>
      /\ rec[ns] # Absent /\ purger[ns] = Absent
      /\ DropTimes(file, clock) /\ DropTimes(rec, began) /\ file = rec
  BY DEF RecordInv, KeptBefore, Drop, Unpurged, DropInv
<1>1. /\ DroppedAt(ns) \in Int /\ DroppedAt(ns) <= began
      /\ gone[ns] # 0 => DroppedAt(ns) # Configured /\ DroppedAt(ns) <= gone[ns]
      /\ began # 0 => DroppedAt(ns) # Configured
  BY <1>0 DEF DroppedAt, DropTimes, TypeOK
<1>2. \A x \in Namespaces : marked[x] = IF x = ns THEN DroppedAt(ns) ELSE rec[x]
  BY <1>0 DEF TypeOK
<1>3. DropTimes(marked, began)
  BY <1>0, <1>1, <1>2 DEF DropTimes, TypeOK
<1>4. DropTimes(marked, clock)
  BY <1>0, <1>1, <1>2, <1>3 DEF DropTimes, TypeOK
<1> HIDE DEF marked
<1>5. CASE up' = "down"
  <2>1. file' \in {file, marked} /\ UNCHANGED gone
    BY <1>0, <1>5 DEF Drop, SaveFails, marked
  <2> QED
    BY <1>0, <1>4, <1>5, <2>1 DEF DropInv, DropTimes
<1>6. CASE up' # "down"
  <2>1. /\ rec' = marked /\ file' = marked
        /\ \A x \in Namespaces : x # ns => purger'[x] = purger[x] /\ gone'[x] = gone[x]
        /\ purger'[ns] = DroppedAt(ns)
        /\ gone'[ns] = IF gone[ns] = 0 THEN began ELSE gone[ns]
    BY <1>0, <1>6 DEF Drop, marked, TypeOK
  <2>2. DropTimes(rec, began)'
    BY <1>0, <1>1, <1>2, <1>3, <2>1 DEF DropTimes, TypeOK
  <2>3. DropTimes(file, clock)'
    BY <1>0, <1>1, <1>2, <2>1, <2>2 DEF DropTimes, TypeOK
  <2> QED
    BY <1>0, <1>1, <1>2, <2>1, <2>2, <2>3 DEF DropInv
<1> QED
  BY <1>5, <1>6

LEMMA DropInvForget ==
    ASSUME RecordInv, DropInv, NEW ns \in Namespaces, Forget(ns)
    PROVE  DropInv'
<1> DEFINE new == [rec EXCEPT ![ns] = Absent]
<1>0. /\ TypeOK /\ up = "serving" /\ began <= clock /\ UNCHANGED <<clock, began, purger, up, gone>>
      /\ DropTimes(file, clock) /\ DropTimes(rec, began)
  BY DEF RecordInv, ForgottenIsEmpty, KeptBefore, Forget, startVars, DropInv
<1>1. \A x \in Namespaces : new[x] = IF x = ns THEN Absent ELSE rec[x]
  BY <1>0 DEF TypeOK
<1>2. DropTimes(new, began)
  BY <1>0, <1>1 DEF DropTimes
<1>3. DropTimes(new, clock)
  BY <1>0, <1>1, <1>2 DEF DropTimes, TypeOK
<1>4. file' \in {file, new} /\ rec' \in {rec, new}
  BY DEF Forget, SaveFails
<1> HIDE DEF new
<1> QED
  BY <1>0, <1>1, <1>2, <1>3, <1>4 DEF DropInv, DropTimes

LEMMA DropInvStep == RecordInv /\ DropInv /\ [Next]_vars => DropInv'
<1> SUFFICES ASSUME RecordInv, DropInv, [Next]_vars PROVE DropInv'
  OBVIOUS
<1>0. TypeOK
  BY DEF RecordInv
<1>1. ASSUME UNCHANGED <<recordVars, began, purger, gone>>, clock' \in {clock, clock + 1},
             up' = "starting" => up = "starting", up' # "down" => up # "down"
      PROVE  DropInv'
  BY <1>0, <1>1 DEF DropInv, DropTimes, recordVars, TypeOK
<1>2. CASE Serve \/ Crash \/ Sleep \/ Wake \/ Tick \/ TheEnd \/ UNCHANGED vars
  BY <1>1, <1>2 DEF Serve, Crash, Sleep, Wake, Tick, TheEnd, vars, startVars
<1>3. ASSUME NEW ns \in Namespaces, Purge(ns) PROVE DropInv'
  BY <1>1, <1>3 DEF Purge, startVars
<1>4. ASSUME NEW t \in Turns, Ask(t) \/ KeepTurn(t) PROVE DropInv'
  BY <1>1, <1>4 DEF Ask, KeepTurn, startVars
<1> QED
  BY <1>2, <1>3, <1>4, DropInvStart, DropInvDrop, DropInvForget DEF Next

LEMMA DropInvInit == Init => DropInv
BY DEF Init, NoEntry, DropInv, DropTimes

-----------------------------------------------------------------------------
(* A purge is never too late *)

\* The next purge comes before anything it should have deleted or forgotten is too old;
\* while a purge is under way, what it has been through is as fresh as its earliest
\* reading of the clock asks.
InTime(limit) ==
    /\ \A t \in Kept : turn[t].ns \notin missed \cup due => limit <= turn[t].at + Retain
    /\ \A ns \in Namespaces \ (missed \cup due \cup forget) :
          gone[ns] # 0 /\ rec[ns] # Absent => limit < gone[ns] + Retain

TimeInv ==
    /\ up # "serving" => wake = 0
    /\ wake # 0 => due = {} /\ forget = {} /\ clock <= wake /\ InTime(wake - Late)
    /\ up = "serving" /\ wake = 0 => InTime(WindowStart(clock - Behind))
    /\ \A x, y \in forget : x = y

\* When a purge begins, all of it is due.
LEMMA AllDue ==
    ASSUME RecordInv, Covers(rec), Serve \/ Wake
    PROVE  /\ \A t \in Kept' : turn'[t].ns \in due'
           /\ \A ns \in Namespaces : rec'[ns] # Absent => ns \in due'
<1>1. \A t \in Kept : turn[t].ns \in Namespaces
  BY DEF RecordInv, TypeOK, TurnRecord, Kept
<1>2. UNCHANGED <<rec, turn>> /\ Kept' = Kept
  BY DEF Serve, Wake, recordVars, Kept
<1>3. \A ns \in Namespaces : rec[ns] # Absent => purger[ns] # Absent
  BY DEF Serve, Wake, Serving, Unpurged, RecordInv, PurgersReach
<1>4. due' = {ns \in Namespaces : purger[ns] # Absent}
  BY DEF Serve, Wake
<1> QED
  BY <1>1, <1>2, <1>3, <1>4 DEF Covers

LEMMA TimePurge ==
    ASSUME RecordInv, DropInv, TimeInv, NEW ns \in Namespaces, Purge(ns)
    PROVE  TimeInv'
<1>0. TypeOK /\ up = "serving" /\ wake = 0 /\ InTime(WindowStart(clock - Behind)) /\ forget = {}
  BY DEF RecordInv, OnlyServing, TimeInv, Purge
<1>1. UNCHANGED <<up, wake, clock, rec, purger, gone>> /\ due' = due \ {ns} /\ forget' \in {{}, {ns}}
  BY DEF Purge, recordVars, startVars
<1>2. PICK now \in Readings :
         \/ /\ Delete(Expired(ns, PurgeCut(now)))
            /\ forget' = IF Forgettable(ns, PurgeCut(now)) THEN {ns} ELSE {}
            /\ missed' = missed \ {ns}
         \/ /\ \E some \in SUBSET Expired(ns, PurgeCut(now)) : Delete(some)
            /\ missed' = missed \cup {ns}
            /\ UNCHANGED forget
  BY DEF Purge
<1>3. /\ PurgeCut(now) \in Int /\ WindowStart(clock - Behind) \in Int
      /\ WindowStart(clock - Behind) <= PurgeCut(now) + Retain
  BY <1>0, PurgeTimes
<1>4. PICK del \in SUBSET Expired(ns, PurgeCut(now)) :
         /\ Delete(del)
         /\ ns \notin missed' => del = Expired(ns, PurgeCut(now))
  BY <1>2
<1>5. ASSUME NEW t \in Kept'
      PROVE  /\ t \in Kept /\ turn'[t] = turn[t] /\ t \notin del
             /\ turn[t].stage = "kept" /\ turn[t].at \in Nat
  BY <1>0, <1>4, <1>5 DEF Delete, Kept, TypeOK, TurnRecord
<1>6. ASSUME NEW t \in Kept', turn'[t].ns \notin missed' \cup due'
      PROVE  WindowStart(clock - Behind) <= turn'[t].at + Retain
  <2>1. CASE turn[t].ns = ns
    <3>1. t \notin Expired(ns, PurgeCut(now))
      BY <1>4, <1>5, <1>6, <2>1
    <3>2. PurgeCut(now) <= turn[t].at
      BY <1>3, <1>5, <2>1, <3>1 DEF Expired, Kept
    <3> QED
      BY <1>3, <1>5, <3>2
  <2>2. CASE turn[t].ns # ns
    <3>1. turn[t].ns \notin missed \cup due
      BY <1>1, <1>2, <1>5, <1>6, <2>2
    <3> QED
      BY <1>0, <1>5, <3>1 DEF InTime
  <2> QED
    BY <2>1, <2>2
<1>7. ASSUME NEW x \in Namespaces \ (missed' \cup due' \cup forget'),
             gone[x] # 0, rec[x] # Absent
      PROVE  WindowStart(clock - Behind) < gone[x] + Retain
  <2>1. CASE x = ns
    <3>1. ~Forgettable(ns, PurgeCut(now))
      BY <1>2, <1>7, <2>1
    <3>2. /\ rec[ns] # Configured /\ rec[ns] <= gone[ns] /\ purger[ns] = rec[ns]
          /\ rec[ns] \in Int /\ gone[ns] \in Nat
      BY <1>0, <1>7, <2>1 DEF RecordInv, PurgersReach, DropInv, DropTimes, TypeOK
    <3>3. PurgeCut(now) < purger[ns]
      BY <1>3, <1>7, <2>1, <3>1, <3>2 DEF Forgettable
    <3> QED
      BY <1>3, <2>1, <3>2, <3>3
  <2>2. CASE x # ns
    BY <1>0, <1>1, <1>2, <1>7, <2>2 DEF InTime
  <2> QED
    BY <2>1, <2>2
<1>8. InTime(WindowStart(clock - Behind))'
  BY <1>1, <1>6, <1>7 DEF InTime
<1> QED
  BY <1>0, <1>1, <1>8 DEF TimeInv

LEMMA TimeForget ==
    ASSUME RecordInv, TimeInv, NEW ns \in Namespaces, Forget(ns)
    PROVE  TimeInv'
<1>0. TypeOK /\ up = "serving" /\ wake = 0 /\ InTime(WindowStart(clock - Behind)) /\ forget = {ns}
  BY DEF RecordInv, ForgottenIsEmpty, TimeInv, Forget
<1>1. UNCHANGED <<up, wake, clock, gone, due, turn>> /\ Kept' = Kept /\ forget' = {}
  BY DEF Forget, startVars, Kept
<1>2. /\ missed \subseteq missed'
      /\ ns \in missed' \/ rec'[ns] = Absent
      /\ \A x \in Namespaces : x # ns => rec'[x] = rec[x]
  BY <1>0 DEF Forget, TypeOK
<1>3. InTime(WindowStart(clock - Behind))'
  BY <1>0, <1>1, <1>2 DEF InTime
<1> QED
  BY <1>0, <1>1, <1>3 DEF TimeInv

LEMMA TimeSleep ==
    ASSUME RecordInv, TimeInv, Sleep
    PROVE  TimeInv'
<1>0. /\ TypeOK /\ up = "serving" /\ due = {} /\ forget = {} /\ wake = 0
      /\ InTime(WindowStart(clock - Behind))
      /\ UNCHANGED <<up, clock, rec, gone, missed, due, forget, turn>> /\ Kept' = Kept
  BY DEF RecordInv, TimeInv, Sleep, Serving, recordVars, startVars, Kept
<1>1. PICK now \in Readings : wake' = clock + UntilPurge(now)
  BY DEF Sleep
<1>2. /\ wake' \in Nat /\ clock < wake' /\ WindowStart(clock - Behind) \in Int
      /\ wake' <= WindowStart(clock - Behind) + Late
  BY <1>0, <1>1, PurgeTimes
<1>3. Late \in Nat
  BY DEF Late
<1>4. \A t \in Kept : turn[t].at \in Nat
  BY <1>0 DEF TypeOK, TurnRecord, Kept
<1>5. InTime(wake - Late)'
  BY <1>0, <1>2, <1>3, <1>4 DEF InTime, TypeOK
<1> QED
  BY <1>0, <1>2, <1>5 DEF TimeInv, TypeOK

LEMMA TimeKeep ==
    ASSUME RecordInv, TimeInv, NEW t \in Turns, Ask(t) \/ KeepTurn(t)
    PROVE  TimeInv'
<1>0. /\ TypeOK /\ up = "serving"
      /\ UNCHANGED <<up, clock, rec, gone, missed, due, forget, wake>>
  BY DEF RecordInv, OnlyServing, Ask, KeepTurn, recordVars, startVars, purgeVars
<1>1. \A o \in Kept' : (o = t /\ turn'[o].at = clock) \/ (o \in Kept /\ turn'[o] = turn[o])
  BY <1>0 DEF Ask, KeepTurn, TypeOK, TurnRecord, Kept
<1>2. CASE wake = 0
  <2>1. WindowStart(clock - Behind) \in Int /\ WindowStart(clock - Behind) <= clock
    <3>1. clock \in Readings
      BY <1>0 DEF Readings, TypeOK
    <3> QED
      BY <1>0, <3>1, PurgeTimes
  <2>2. InTime(WindowStart(clock - Behind))'
    BY <1>0, <1>1, <1>2, <2>1 DEF InTime, TimeInv, TypeOK
  <2> QED
    BY <1>0, <1>2, <2>2 DEF TimeInv
<1>3. CASE wake # 0
  <2>1. wake - Late <= clock + Retain /\ wake - Late \in Int
    BY <1>0 DEF TypeOK, Late
  <2>2. InTime(wake - Late)'
    BY <1>0, <1>1, <1>3, <2>1 DEF InTime, TimeInv, TypeOK
  <2> QED
    BY <1>0, <1>3, <2>2 DEF TimeInv
<1> QED
  BY <1>2, <1>3

LEMMA TimeInvStep == RecordInv /\ DropInv /\ TimeInv /\ [Next]_vars => TimeInv'
<1> SUFFICES ASSUME RecordInv, DropInv, TimeInv, [Next]_vars PROVE TimeInv'
  OBVIOUS
<1>0. TypeOK
  BY DEF RecordInv
<1>1. CASE Serve \/ Wake
  <2>1. Covers(rec) /\ up' = "serving" /\ wake' = 0 /\ forget' = forget
    BY <1>1 DEF RecordInv, Serve, Wake, Serving, TimeInv, recordVars, startVars
  <2>2. InTime(WindowStart(clock - Behind))'
    BY <1>1, <2>1, AllDue DEF InTime
  <2> QED
    BY <2>1, <2>2 DEF TimeInv
<1>2. ASSUME NEW cfg \in Configs, Start(cfg) PROVE TimeInv'
  BY <1>2 DEF Start, purgeVars, TimeInv
<1>3. ASSUME NEW ns \in Namespaces, Drop(ns) PROVE TimeInv'
  BY <1>3 DEF Drop, purgeVars, TimeInv
<1>4. CASE Crash
  BY <1>4 DEF Crash, TimeInv
<1>5. CASE Tick
  <2>1. /\ UNCHANGED <<up, wake, rec, gone, missed, due, forget, turn>> /\ Kept' = Kept
        /\ clock' = clock + 1 /\ (up = "serving" => wake # 0 /\ clock < wake)
    BY <1>5 DEF Tick, recordVars, startVars, purgeVars, Kept
  <2> QED
    BY <1>0, <2>1 DEF TimeInv, InTime, TypeOK
<1>6. CASE TheEnd \/ UNCHANGED vars
  <2>1. /\ UNCHANGED <<up, wake, rec, gone, missed, due, forget, turn, clock>> /\ Kept' = Kept
    BY <1>6 DEF TheEnd, vars, recordVars, startVars, purgeVars, Kept
  <2> QED
    BY <2>1 DEF TimeInv, InTime
<1> QED
  BY <1>1, <1>2, <1>3, <1>4, <1>5, <1>6, TimePurge, TimeForget, TimeSleep, TimeKeep DEF Next

LEMMA TimeInvariance == Spec => [](RecordInv /\ TimeInv)
<1>1. Init => TimeInv
  BY DEF Init, TimeInv
<1> QED
  BY <1>1, RecordInvInit, RecordInvStep, DropInvInit, DropInvStep, TimeInvStep, PTL DEF Spec

\* While the bot sleeps, no record is older than the retention period, a window, the delay
\* and the clock's error together, where the last purge went through: for every retention,
\* window, delay and clock error, however often the bot was started (PurgeCut, untilPurge,
\* RunPurge).
THEOREM ExpiredGoes == Spec => []ExpiredGoesInTime
<1>1. RecordInv /\ TimeInv => ExpiredGoesInTime
  <2> SUFFICES ASSUME RecordInv, TimeInv, wake # 0, NEW t \in Kept, turn[t].ns \notin missed
               PROVE  clock <= turn[t].at + Retain + Late
    BY DEF ExpiredGoesInTime
  <2>1. turn[t].at \in Nat /\ clock \in Nat /\ wake \in Nat /\ Late \in Nat
    BY DEF RecordInv, TypeOK, TurnRecord, Kept, Late
  <2>2. clock <= wake /\ wake - Late <= turn[t].at + Retain
    BY DEF TimeInv, InTime
  <2> QED
    BY <2>1, <2>2
<1> QED
  BY <1>1, TimeInvariance, PTL

\* And a dropped namespace is off the record that long after it was first found missing
\* (NamespacePurge, Record.Dropped, Record.Forget).
THEOREM DroppedGoes == Spec => []DroppedIsForgotten
<1>1. RecordInv /\ TimeInv => DroppedIsForgotten
  <2> SUFFICES ASSUME RecordInv, TimeInv, wake # 0, NEW ns \in Namespaces \ missed,
                      gone[ns] # 0, clock >= gone[ns] + Retain + Late, rec[ns] # Absent
               PROVE  FALSE
    BY DEF DroppedIsForgotten
  <2>1. gone[ns] \in Nat /\ clock \in Nat /\ wake \in Nat /\ Late \in Nat
    BY DEF RecordInv, TypeOK, Late
  <2>2. clock <= wake /\ wake - Late < gone[ns] + Retain
    BY DEF TimeInv, InTime
  <2> QED
    BY <2>1, <2>2
<1> QED
  BY <1>1, TimeInvariance, PTL
=============================================================================
