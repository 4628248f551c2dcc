--------------------------- MODULE Budget_proofs ---------------------------
(***************************************************************************)
(* Proofs about the spend meter, for any number of callers, ceiling, period *)
(* and call size: type correctness, how far the ceiling is overspent in a   *)
(* period and in any stretch of its length, what a restart gives back, and  *)
(* that refusals are earned.                                                *)
(***************************************************************************)
EXTENDS Budget, FiniteSetTheorems, TLAPS

\* The callers whose call is under way.
InFlight == {c \in Callers : flight[c] = "calling"}

\* The bound is not inductive: it must say that once the ceiling is reached the
\* room left is enough for the calls under way, which nobody checks again.
RoomForFlight ==
    meter.spent >= Ceiling =>
        meter.spent + Cardinality(InFlight) * MaxTokens <= MostSpent

IInv == TypeOK /\ OverspendBound /\ RoomForFlight

-----------------------------------------------------------------------------
(* Counting callers *)

\* The number of callers is a natural number, and no more than all are in flight.
LEMMA FlightSize ==
    /\ Cardinality(Callers) \in Nat
    /\ Cardinality(InFlight) \in Nat
    /\ Cardinality(InFlight) <= Cardinality(Callers)
    /\ IsFiniteSet(InFlight)
<1>1. InFlight \subseteq Callers
  BY DEF InFlight
<1> QED
  BY <1>1, BudgetAssumption, FS_Subset, FS_CardinalityType

\* A call that ends leaves one fewer in flight.
LEMMA FlightEnds ==
    ASSUME TypeOK, NEW c \in Callers, flight[c] = "calling",
           flight' = [flight EXCEPT ![c] = "idle"]
    PROVE  /\ Cardinality(InFlight') \in Nat
           /\ Cardinality(InFlight) = Cardinality(InFlight') + 1
<1>1. c \in InFlight
  BY DEF InFlight
<1>2. InFlight' = InFlight \ {c}
  BY DEF InFlight, TypeOK
<1>3. /\ Cardinality(InFlight') \in Nat
      /\ Cardinality(InFlight') = Cardinality(InFlight) - 1
  BY <1>1, <1>2, FlightSize, FS_RemoveElement, FS_CardinalityType
<1> QED
  BY <1>3, FlightSize

\* Multiplication over the bound, for the provers.
LEMMA Room ==
    ASSUME NEW k \in Nat, NEW n \in Nat, NEW t \in Nat, k + 1 <= n
    PROVE  k * t + t <= n * t
<1>1. (k + 1) * t = k * t + t
  OBVIOUS
<1>2. PICK d \in Nat : n = (k + 1) + d
  <2>1. n - (k + 1) \in Nat /\ n = (k + 1) + (n - (k + 1))
    OBVIOUS
  <2> QED
    BY <2>1
<1>3. n * t = (k + 1) * t + d * t
  BY <1>2
<1>4. d * t >= 0 /\ d * t \in Nat
  OBVIOUS
<1>5. k * t \in Nat /\ n * t \in Nat
  OBVIOUS
<1> QED
  BY <1>1, <1>3, <1>4, <1>5

\* The bound is a number, no less than what is spent below the ceiling.
LEMMA MostSpentNat ==
    /\ MostSpent \in Nat
    /\ Ceiling - 1 <= MostSpent
<1>1. Cardinality(Callers) * MaxTokens \in Nat
  BY FlightSize, BudgetAssumption
<1> QED
  BY <1>1, BudgetAssumption DEF MostSpent

-----------------------------------------------------------------------------
(* The pieces of a step *)

\* A roll yields a state of the meter that spends no more than before.
LEMMA RollSpends ==
    ASSUME TypeOK
    PROVE  /\ Rolled(meter) \in State
           /\ Rolled(meter) = meter \/ Rolled(meter).spent = 0
BY DEF TypeOK, Rolled, Fresh, State

\* What a roll leaves on disk.
LEMMA RollDisk ==
    ASSUME TypeOK, OverspendBound, disk' \in AfterRoll
    PROVE  /\ disk' \in [state: State, found: BOOLEAN]
           /\ disk'.state.spent <= MostSpent
<1>1. CASE disk' = disk
  BY <1>1 DEF TypeOK, OverspendBound
<1>2. CASE Elapsed(meter) /\ disk' = [state |-> Rolled(meter), found |-> TRUE]
  <2>1. Rolled(meter) = Fresh(clock)
    BY <1>2 DEF Rolled
  <2>2. Fresh(clock) \in State /\ Fresh(clock).spent = 0
    BY DEF Fresh, State, TypeOK
  <2> QED
    BY <1>2, <2>1, <2>2, MostSpentNat
<1> QED
  BY <1>1, <1>2 DEF AfterRoll, TrySave, Save

\* The tokens counted are a natural number no greater than MaxTokens.
LEMMA CountedRange ==
    ASSUME NEW n \in Usages
    PROVE  Counted(n) \in Nat /\ Counted(n) <= MaxTokens
BY BudgetAssumption DEF Counted

-----------------------------------------------------------------------------
(* The invariant *)

LEMMA InitIInv == Init => IInv
<1> SUFFICES ASSUME Init PROVE IInv
  OBVIOUS
<1>1. 1 \in 1..MaxClock
  BY BudgetAssumption
<1>2. TypeOK
  BY <1>1 DEF Init, TypeOK, State, Fresh
<1>3. OverspendBound /\ RoomForFlight
  BY BudgetAssumption, MostSpentNat DEF Init, Fresh, OverspendBound, RoomForFlight
<1> QED
  BY <1>2, <1>3 DEF IInv

LEMMA NextTypeOK == IInv /\ [Next]_vars => TypeOK'
<1> SUFFICES ASSUME IInv, [Next]_vars PROVE TypeOK'
  OBVIOUS
<1> USE DEF IInv
<1>1. ASSUME NEW c \in Callers, Begin(c) PROVE TypeOK'
  <2>1. flight' \in [Callers -> {"idle", "calling", "refused"}]
    BY <1>1 DEF Begin, TypeOK
  <2>2. unsaved' \in BOOLEAN
    BY <1>1, Zenon DEF Begin
  <2>3. UNCHANGED <<clock, charged, lost>> /\ meter' \in State
    BY <1>1, RollSpends DEF Begin
  <2>4. disk' \in [state: State, found: BOOLEAN]
    BY <1>1, RollDisk DEF Begin
  <2> QED
    BY <2>1, <2>2, <2>3, <2>4 DEF TypeOK
<1>2. ASSUME NEW c \in Callers, Fail(c) PROVE TypeOK'
  BY <1>2 DEF Fail, TypeOK
<1>3. ASSUME NEW c \in Callers, NEW n \in Usages, Finish(c, n) PROVE TypeOK'
  <2>1. Rolled(meter) \in State /\ Counted(n) \in Nat
    BY RollSpends, CountedRange
  <2>2. meter' \in State
    BY <1>3, <2>1 DEF Finish, Added, State
  <2>3. disk' \in [state: State, found: BOOLEAN]
    <3>1. CASE disk' \in AfterRoll
      BY <3>1, RollDisk
    <3>2. CASE disk' = [state |-> meter', found |-> TRUE]
      BY <2>2, <3>2
    <3> QED
      BY <1>3, <3>1, <3>2 DEF Finish, Save, Saved
  <2>4. charged' \in [0..MaxClock -> Nat]
    BY <1>3, <2>1 DEF Finish, TypeOK
  <2>5. unsaved' \in BOOLEAN
    BY <1>3, Zenon DEF Finish
  <2>6. flight' \in [Callers -> {"idle", "calling", "refused"}]
    BY <1>3 DEF Finish, TypeOK
  <2>7. UNCHANGED <<clock, lost>>
    BY <1>3 DEF Finish
  <2> QED
    BY <2>2, <2>3, <2>4, <2>5, <2>6, <2>7 DEF TypeOK
<1>4. CASE Remaining
  <2>1. unsaved' \in BOOLEAN /\ lost' \in BOOLEAN
    BY <1>4, Zenon DEF Remaining, TypeOK
  <2>2. UNCHANGED <<flight, clock, charged>> /\ meter' \in State
    BY <1>4, RollSpends DEF Remaining
  <2>3. disk' \in [state: State, found: BOOLEAN]
    BY <1>4, RollDisk DEF Remaining
  <2> QED
    BY <2>1, <2>2, <2>3 DEF TypeOK
<1>5. CASE Tick
  BY <1>5, BudgetAssumption DEF Tick, TypeOK
<1>6. CASE Restart
  <2>1. lost' \in BOOLEAN /\ unsaved' \in BOOLEAN
    BY <1>6, Zenon DEF Restart
  <2>2. meter' \in State /\ flight' \in [Callers -> {"idle", "calling", "refused"}]
    BY <1>6 DEF Restart, Loaded, Fresh, TypeOK, State
  <2>3. UNCHANGED <<disk, clock, charged>>
    BY <1>6 DEF Restart
  <2> QED
    BY <2>1, <2>2, <2>3 DEF TypeOK
<1>7. CASE UNCHANGED vars
  BY <1>7 DEF vars, TypeOK
<1> QED
  BY <1>1, <1>2, <1>3, <1>4, <1>5, <1>6, <1>7 DEF Next

LEMMA NextBound == IInv /\ [Next]_vars => OverspendBound' /\ RoomForFlight'
<1> SUFFICES ASSUME IInv, [Next]_vars PROVE OverspendBound' /\ RoomForFlight'
  OBVIOUS
<1> USE DEF IInv
<1>0. /\ MostSpent' = MostSpent
      /\ meter.spent \in Nat
      /\ Rolled(meter).spent \in Nat
      /\ Rolled(meter).spent <= MostSpent
  BY RollSpends, MostSpentNat DEF MostSpent, TypeOK, State, OverspendBound
<1>1. ASSUME NEW c \in Callers, Begin(c) PROVE OverspendBound' /\ RoomForFlight'
  <2>1. OverspendBound'
    BY <1>0, <1>1, RollDisk DEF Begin, OverspendBound
  <2>2. CASE Rolled(meter).spent < Ceiling
    BY <1>0, <1>1, <2>1, <2>2, BudgetAssumption DEF Begin, RoomForFlight
  <2>3. CASE ~(Rolled(meter).spent < Ceiling)
    <3>1. meter' = meter
      BY <1>1, <2>3, RollSpends, BudgetAssumption DEF Begin
    <3>2. InFlight' = InFlight
      BY <1>1, <2>3 DEF Begin, Within, InFlight, TypeOK
    <3>3. RoomForFlight'
      BY <1>0, <3>1, <3>2 DEF RoomForFlight
    <3> QED
      BY <2>1, <3>3
  <2> QED
    BY <2>1, <2>2, <2>3
<1>2. ASSUME NEW c \in Callers, Fail(c) PROVE OverspendBound' /\ RoomForFlight'
  <2>1. UNCHANGED <<meter, disk>>
    BY <1>2 DEF Fail
  <2>2. /\ Cardinality(InFlight') \in Nat
        /\ Cardinality(InFlight) = Cardinality(InFlight') + 1
    BY <1>2, FlightEnds DEF Fail
  <2>3. Cardinality(InFlight') * MaxTokens <= Cardinality(InFlight) * MaxTokens
    <3>1. Cardinality(InFlight') * MaxTokens + MaxTokens <= Cardinality(InFlight) * MaxTokens
      BY <2>2, Room, FlightSize, BudgetAssumption
    <3>2. Cardinality(InFlight') * MaxTokens \in Nat /\ Cardinality(InFlight) * MaxTokens \in Nat
      BY <2>2, FlightSize, BudgetAssumption
    <3> QED
      BY <3>1, <3>2, BudgetAssumption
  <2>4. Cardinality(InFlight') * MaxTokens \in Nat /\ Cardinality(InFlight) * MaxTokens \in Nat
    BY <2>2, FlightSize, BudgetAssumption
  <2> QED
    BY <1>0, <2>1, <2>3, <2>4, MostSpentNat, BudgetAssumption DEF OverspendBound, RoomForFlight
<1>3. ASSUME NEW c \in Callers, NEW n \in Usages, Finish(c, n)
      PROVE  OverspendBound' /\ RoomForFlight'
  <2>1. /\ meter'.spent = Rolled(meter).spent + Counted(n)
        /\ Saved(Rolled(meter), n).spent = meter'.spent
    BY <1>3 DEF Finish, Saved, Added
  <2>2. /\ Cardinality(InFlight') \in Nat
        /\ Cardinality(InFlight) = Cardinality(InFlight') + 1
    BY <1>3, FlightEnds DEF Finish
  <2>3. /\ Cardinality(InFlight') * MaxTokens \in Nat
        /\ Cardinality(InFlight) * MaxTokens \in Nat
        /\ Cardinality(Callers) * MaxTokens \in Nat
    BY <2>2, FlightSize, BudgetAssumption
  <2>4. meter'.spent + Cardinality(InFlight') * MaxTokens <= MostSpent
    <3>1. CASE Rolled(meter).spent < Ceiling
      <4>1. Cardinality(InFlight') * MaxTokens + MaxTokens <= Cardinality(Callers) * MaxTokens
        BY <2>2, Room, FlightSize, BudgetAssumption
      <4> QED
        BY <1>0, <2>1, <2>3, <3>1, <4>1, CountedRange, BudgetAssumption DEF MostSpent
    <3>2. CASE ~(Rolled(meter).spent < Ceiling)
      <4>1. Rolled(meter) = meter
        BY <3>2, RollSpends, BudgetAssumption
      <4>2. meter.spent + Cardinality(InFlight) * MaxTokens <= MostSpent
        BY <1>0, <3>2, <4>1, BudgetAssumption DEF RoomForFlight
      <4>3. Cardinality(InFlight') * MaxTokens + MaxTokens <= Cardinality(InFlight) * MaxTokens
        BY <2>2, Room, FlightSize, BudgetAssumption
      <4> QED
        BY <1>0, <2>1, <2>3, <4>1, <4>2, <4>3, CountedRange, MostSpentNat, BudgetAssumption
    <3> QED
      BY <3>1, <3>2
  <2>5. meter'.spent <= MostSpent
    BY <1>0, <2>1, <2>3, <2>4, CountedRange, MostSpentNat
  <2>6. disk'.state.spent <= MostSpent
    BY <1>3, <2>1, <2>5, RollDisk DEF Finish, Save
  <2> QED
    BY <1>0, <2>4, <2>5, <2>6 DEF OverspendBound, RoomForFlight
<1>4. CASE Remaining
  <2>1. OverspendBound'
    BY <1>0, <1>4, RollDisk DEF Remaining, OverspendBound
  <2>2. InFlight' = InFlight
    BY <1>4 DEF Remaining, InFlight
  <2> QED
    BY <1>0, <1>4, <2>1, <2>2, RollSpends, BudgetAssumption DEF Remaining, RoomForFlight
<1>5. CASE Tick
  <2>1. UNCHANGED <<meter, disk, InFlight>>
    BY <1>5 DEF Tick, InFlight
  <2> QED
    BY <1>0, <2>1 DEF OverspendBound, RoomForFlight
<1>6. CASE Restart
  <2>1. Cardinality(InFlight') = 0
    <3>1. InFlight' = {}
      BY <1>6 DEF Restart, InFlight
    <3> QED
      BY <3>1, FS_EmptySet
  <2>2. meter'.spent <= MostSpent /\ meter'.spent \in Nat /\ disk' = disk
    BY <1>6, MostSpentNat DEF Restart, Loaded, Fresh, OverspendBound, TypeOK, State
  <2>3. 0 * MaxTokens = 0
    BY BudgetAssumption
  <2> QED
    BY <1>0, <2>1, <2>2, <2>3, MostSpentNat DEF OverspendBound, RoomForFlight
<1>7. CASE UNCHANGED vars
  <2>1. UNCHANGED <<meter, disk, InFlight>>
    BY <1>7 DEF vars, InFlight
  <2> QED
    BY <1>0, <2>1 DEF OverspendBound, RoomForFlight
<1> QED
  BY <1>1, <1>2, <1>3, <1>4, <1>5, <1>6, <1>7 DEF Next

\* The strengthened invariant holds in every reachable state.
LEMMA Invariance == Spec => []IInv
<1>1. IInv /\ [Next]_vars => IInv'
  BY NextTypeOK, NextBound DEF IInv
<1> QED
  BY InitIInv, <1>1, PTL DEF Spec

-----------------------------------------------------------------------------
(* The theorems *)

\* The meter's variables keep their types, whatever calls report and whichever
\* saves fail (Meter.Allow, Record, New).
THEOREM TypeCorrect == Spec => []TypeOK
BY Invariance, PTL DEF IInv

\* However many agent runs call the model at once, and whatever periods, failed
\* saves and restarts come between, the spend of a period exceeds the ceiling by
\* at most the calls in flight: comment of Meter.Record, for every ceiling, period,
\* call size and number of callers.
THEOREM OverspendBounded == Spec => []OverspendBound
BY Invariance, PTL DEF IInv

-----------------------------------------------------------------------------
(* Restarts *)

\* What the process knows is on disk, unless nothing was spent or the last record
\* of the period could not be saved.
OnDisk == ~unsaved => meter.spent = 0 \/ (disk.found /\ disk.state = meter)

LEMMA OnDiskStep == TypeOK /\ OnDisk /\ [Next]_vars => OnDisk'
<1> SUFFICES ASSUME TypeOK, OnDisk, [Next]_vars PROVE OnDisk'
  OBVIOUS
\* A roll, alone or before the check of Allow.
<1>1. ASSUME meter' = Rolled(meter), disk' \in AfterRoll,
             unsaved' = (unsaved /\ ~Elapsed(meter))
      PROVE  OnDisk'
  <2>1. CASE Elapsed(meter)
    BY <1>1, <2>1 DEF Rolled, Fresh, OnDisk
  <2>2. CASE ~Elapsed(meter)
    <3>1. meter' = meter /\ disk' = disk
      BY <1>1, <2>2 DEF Rolled, AfterRoll
    <3> QED
      BY <1>1, <2>2, <3>1, Zenon DEF OnDisk
  <2> QED
    BY <2>1, <2>2
<1>2. ASSUME NEW c \in Callers, Begin(c) PROVE OnDisk'
  BY <1>1, <1>2, Zenon DEF Begin
<1>3. ASSUME NEW c \in Callers, Fail(c) PROVE OnDisk'
  BY <1>3, Zenon DEF Fail, OnDisk
<1>4. ASSUME NEW c \in Callers, NEW n \in Usages, Finish(c, n) PROVE OnDisk'
  <2>1. CASE disk' = [state |-> meter', found |-> TRUE]
    BY <2>1 DEF OnDisk
  <2>2. CASE unsaved' = TRUE
    BY <2>2 DEF OnDisk
  <2> QED
    BY <1>4, <2>1, <2>2, Zenon DEF Finish, Save, Saved
<1>5. CASE Remaining
  BY <1>1, <1>5, Zenon DEF Remaining
<1>6. CASE Tick
  BY <1>6, Zenon DEF Tick, OnDisk
<1>7. CASE Restart
  BY <1>7 DEF Restart, Loaded, Fresh, OnDisk
<1>8. CASE UNCHANGED vars
  BY <1>8, Zenon DEF vars, OnDisk
<1> QED
  BY <1>2, <1>3, <1>4, <1>5, <1>6, <1>7, <1>8 DEF Next

LEMMA KeepsSpendStep ==
    ASSUME TypeOK, OnDisk, [Next]_vars, meter'.start = meter.start, ~unsaved
    PROVE  meter'.spent >= meter.spent
<1>0. meter.spent \in Nat /\ meter.start \in Nat /\ clock \in Nat
  BY DEF TypeOK, State
\* A period that has elapsed started before now, so a roll changes the start.
<1>1. ASSUME Rolled(meter).start = meter.start PROVE Rolled(meter) = meter
  BY <1>0, <1>1, BudgetAssumption DEF Rolled, Elapsed, Fresh
<1>2. CASE meter' = Rolled(meter)
  BY <1>0, <1>1, <1>2
<1>3. ASSUME NEW c \in Callers, NEW n \in Usages, Finish(c, n)
      PROVE  meter'.spent >= meter.spent
  <2>1. meter'.start = Rolled(meter).start
    BY <1>3 DEF Finish, Added
  <2>2. meter'.spent = meter.spent + Counted(n)
    BY <1>1, <1>3, <2>1 DEF Finish, Added
  <2> QED
    BY <1>0, <2>2, CountedRange
<1>4. CASE Restart
  BY <1>0, <1>4 DEF Restart, Loaded, OnDisk, Fresh, TypeOK, State
<1>5. CASE UNCHANGED meter
  BY <1>0, <1>5
<1> QED
  BY <1>2, <1>3, <1>4, <1>5 DEF Next, Begin, Fail, Remaining, Tick, vars

\* A restart gives no spend back, over every order of calls, rolls, failed saves and
\* crashes, unless the period's last record had not been saved (package comment of
\* internal/budget: the meter is persisted so a restart cannot reset it).
THEOREM SpendSurvivesRestart == Spec => RestartKeepsSpend
<1>1. Init => OnDisk
  BY DEF Init, Fresh, OnDisk
<1>2. TypeOK /\ OnDisk /\ [Next]_vars =>
        [meter'.start = meter.start /\ ~unsaved => meter'.spent >= meter.spent]_vars
  BY KeepsSpendStep
<1> QED
  BY <1>1, <1>2, OnDiskStep, TypeCorrect, PTL DEF Spec, RestartKeepsSpend

-----------------------------------------------------------------------------
(* The tokens charged, tick by tick *)

\* f counts what was recorded up to each tick; Upto is its value at any number.
Upto(f, t) == IF t < 0 THEN 0 ELSE IF t > MaxClock THEN f[MaxClock] ELSE f[t]

\* f starts from nothing, only grows, and stands still from now on.
RunningTotal(f, now) ==
    /\ f[0] = 0
    /\ \A a, b \in 0..MaxClock : /\ a <= b => f[a] <= f[b]
                                 /\ a >= now => f[a] = f[now]

\* Whatever a state says is spent was charged since its period started.
Backed(f, now, st) ==
    /\ st.start <= now
    /\ st.spent <= Upto(f, now) - Upto(f, st.start - 1)

\* Nothing is charged yet in this tick, and no more than a period's worth before.
Quiet(f, now) ==
    /\ Upto(f, now) = Upto(f, now - 1)
    /\ Upto(f, now) - Upto(f, now - Period) <= MostSpent

\* Whatever was charged since the period started is in the state, and the Period ticks
\* up to its start hold no more than one period's worth.
Covered(f, now, st) ==
    IF now - st.start >= Period THEN Quiet(f, now)
    ELSE /\ Upto(f, now) - Upto(f, st.start - 1) <= st.spent
         /\ Upto(f, st.start - 1) - Upto(f, st.start - Period) <= MostSpent

Bound(f) == \A t \in 1..MaxClock : Upto(f, t + Period - 1) - Upto(f, t - 1) <= 2 * MostSpent

\* The disk holds the current period, or one that was over before it started.
Behind(d, st) ==
    d.found => \/ d.state.start = st.start /\ d.state.spent <= st.spent
               \/ d.state.start + Period <= st.start

Ledger ==
    /\ RunningTotal(charged, clock)
    /\ Backed(charged, clock, meter)
    /\ Backed(charged, clock, disk.state)
    /\ Behind(disk, meter)
    /\ ~lost => Covered(charged, clock, meter) /\ Bound(charged)

\* f with n tokens more, now.
More(f, now, n) == [t \in 0..MaxClock |-> IF t >= now THEN f[t] + n ELSE f[t]]

LEMMA UptoFacts ==
    ASSUME NEW f \in [0..MaxClock -> Nat], NEW now \in 1..MaxClock, RunningTotal(f, now)
    PROVE  /\ \A x \in Int : Upto(f, x) \in Nat
           /\ \A x, y \in Int : x <= y => Upto(f, x) <= Upto(f, y)
           /\ \A x \in Int : x >= now => Upto(f, x) = Upto(f, now)
<1>0. MaxClock \in Nat /\ MaxClock > 0 /\ now \in Nat /\ now <= MaxClock /\ now > 0
  BY BudgetAssumption
<1>1. /\ \A a \in 0..MaxClock : f[a] \in Nat
      /\ \A a, b \in 0..MaxClock : a <= b => f[a] <= f[b]
      /\ \A a \in 0..MaxClock : a >= now => f[a] = f[now]
  <2>1. now \in 0..MaxClock
    BY <1>0
  <2> QED
    BY <2>1 DEF RunningTotal
<1>2. \A x \in Int : Upto(f, x) \in Nat
  BY <1>0, <1>1 DEF Upto
<1>3. ASSUME NEW x \in Int, NEW y \in Int, x <= y PROVE Upto(f, x) <= Upto(f, y)
  <2>1. CASE x < 0
    BY <1>2, <2>1 DEF Upto
  <2>2. CASE x >= 0 /\ y <= MaxClock
    BY <1>0, <1>1, <1>3, <2>2 DEF Upto
  <2>3. CASE x > MaxClock
    BY <1>0, <1>1, <1>3, <2>3 DEF Upto
  <2>4. CASE x >= 0 /\ x <= MaxClock /\ y > MaxClock
    BY <1>0, <1>1, <1>3, <2>4 DEF Upto
  <2> QED
    BY <1>0, <2>1, <2>2, <2>3, <2>4
<1>4. ASSUME NEW x \in Int, x >= now PROVE Upto(f, x) = Upto(f, now)
  BY <1>0, <1>1, <1>4 DEF Upto
<1> QED
  BY <1>2, <1>3, <1>4

LEMMA MoreFacts ==
    ASSUME NEW f \in [0..MaxClock -> Nat], NEW now \in 1..MaxClock, RunningTotal(f, now),
           NEW n \in Nat
    PROVE  /\ More(f, now, n) \in [0..MaxClock -> Nat]
           /\ RunningTotal(More(f, now, n), now)
           /\ \A x \in Int : Upto(More(f, now, n), x) = IF x >= now THEN Upto(f, x) + n
                                                        ELSE Upto(f, x)
<1> DEFINE g == More(f, now, n)
<1>0. MaxClock \in Nat /\ MaxClock > 0 /\ now \in Nat /\ now <= MaxClock /\ now > 0
  BY BudgetAssumption
<1>1. /\ \A a \in 0..MaxClock : f[a] \in Nat
      /\ \A a, b \in 0..MaxClock : a <= b => f[a] <= f[b]
      /\ \A a \in 0..MaxClock : a >= now => f[a] = f[now]
      /\ f[0] = 0
  <2>1. now \in 0..MaxClock
    BY <1>0
  <2> QED
    BY <2>1 DEF RunningTotal
<1>2. \A a \in 0..MaxClock : g[a] = IF a >= now THEN f[a] + n ELSE f[a]
  BY DEF More
<1>3. g \in [0..MaxClock -> Nat]
  BY <1>1 DEF More
<1> HIDE DEF g
<1>4. ASSUME NEW x \in Int PROVE Upto(g, x) = IF x >= now THEN Upto(f, x) + n ELSE Upto(f, x)
  BY <1>0, <1>1, <1>2 DEF Upto
<1>5. RunningTotal(g, now)
  <2>1. ASSUME NEW a \in 0..MaxClock, NEW b \in 0..MaxClock, a <= b PROVE g[a] <= g[b]
    BY <1>0, <1>1, <1>2, <2>1
  <2>2. ASSUME NEW a \in 0..MaxClock, a >= now PROVE g[a] = g[now]
    <3>1. now \in 0..MaxClock /\ now >= now
      BY <1>0
    <3> QED
      BY <1>1, <1>2, <2>2, <3>1
  <2>3. g[0] = 0
    BY <1>0, <1>1, <1>2
  <2> QED
    BY <2>1, <2>2, <2>3 DEF RunningTotal
<1> QED
  BY <1>3, <1>4, <1>5 DEF g

\* A state's bounds are numbers.
LEMMA StateNumbers ==
    ASSUME NEW st \in State
    PROVE  /\ st.start \in Nat /\ st.start > 0 /\ st.spent \in Nat
           /\ st.start - 1 \in Int /\ st.start - Period \in Int
           /\ Period \in Nat /\ Period > 0
BY BudgetAssumption DEF State

\* What more is charged now leaves every state backed, and one that has it counted too.
LEMMA BackedMore ==
    ASSUME NEW f \in [0..MaxClock -> Nat], NEW now \in 1..MaxClock, RunningTotal(f, now),
           NEW n \in Nat, NEW st \in State, Backed(f, now, st)
    PROVE  /\ Backed(More(f, now, n), now, st)
           /\ Backed(More(f, now, n), now, [start |-> st.start, spent |-> st.spent + n])
<1> DEFINE g == More(f, now, n)
<1>0. now \in Int /\ now >= now /\ st.start - 1 \in Int /\ st.spent \in Nat /\ st.start \in Nat
  BY StateNumbers
<1>1. st.start <= now /\ st.spent <= Upto(f, now) - Upto(f, st.start - 1)
  BY DEF Backed
<1>2. ~(st.start - 1 >= now)
  BY <1>0, <1>1
<1>3. Upto(g, now) = Upto(f, now) + n /\ Upto(g, st.start - 1) = Upto(f, st.start - 1)
  BY <1>0, <1>2, MoreFacts
<1>4. Upto(f, now) \in Nat /\ Upto(f, st.start - 1) \in Nat
  BY <1>0, UptoFacts
<1> HIDE DEF g
<1> QED
  BY <1>0, <1>1, <1>3, <1>4 DEF Backed, g

LEMMA CoveredMore ==
    ASSUME NEW f \in [0..MaxClock -> Nat], NEW now \in 1..MaxClock, RunningTotal(f, now),
           NEW n \in Nat, NEW st \in State, Covered(f, now, st), st.start <= now,
           now - st.start < Period
    PROVE  Covered(More(f, now, n), now, [start |-> st.start, spent |-> st.spent + n])
<1> DEFINE g == More(f, now, n)
           s == st.start
<1>0. /\ now \in Int /\ now >= now /\ s - 1 \in Int /\ s - Period \in Int /\ s \in Nat
      /\ st.spent \in Nat /\ Period \in Nat /\ Period > 0
  BY StateNumbers
<1>1. /\ Upto(f, now) - Upto(f, s - 1) <= st.spent
      /\ Upto(f, s - 1) - Upto(f, s - Period) <= MostSpent
  BY <1>0 DEF Covered
<1>2. ~(s - 1 >= now) /\ ~(s - Period >= now)
  BY <1>0
<1>3. /\ Upto(g, now) = Upto(f, now) + n /\ Upto(g, s - 1) = Upto(f, s - 1)
      /\ Upto(g, s - Period) = Upto(f, s - Period)
  BY <1>0, <1>2, MoreFacts
<1>4. Upto(f, now) \in Nat /\ Upto(f, s - 1) \in Nat
  BY <1>0, UptoFacts
<1> HIDE DEF g
<1>5. Upto(g, now) - Upto(g, s - 1) <= st.spent + n
  BY <1>0, <1>1, <1>3, <1>4
<1>6. Upto(g, s - 1) - Upto(g, s - Period) <= MostSpent
  BY <1>1, <1>3
<1>7. ~(now - s >= Period)
  BY <1>0
<1> QED
  BY <1>5, <1>6, <1>7 DEF Covered, g

\* Where more is charged, the bound follows from the current period and what came
\* before it.
LEMMA BoundMore ==
    ASSUME NEW f \in [0..MaxClock -> Nat], NEW now \in 1..MaxClock, RunningTotal(f, now),
           NEW n \in Nat, Bound(f),
           NEW st \in State, st.start <= now, now - st.start < Period, st.spent <= MostSpent,
           Covered(More(f, now, n), now, st)
    PROVE  Bound(More(f, now, n))
<1> DEFINE g == More(f, now, n)
           s == st.start
<1>0. /\ now \in Nat /\ s - 1 \in Int /\ s - Period \in Int /\ s \in Nat
      /\ st.spent \in Nat /\ Period \in Nat /\ Period > 0 /\ MostSpent \in Nat
  BY StateNumbers, MostSpentNat
<1>1. /\ Upto(g, now) - Upto(g, s - 1) <= st.spent
      /\ Upto(g, s - 1) - Upto(g, s - Period) <= MostSpent
  BY <1>0 DEF Covered
<1>2. /\ g \in [0..MaxClock -> Nat] /\ RunningTotal(g, now)
      /\ \A x \in Int : Upto(g, x) = IF x >= now THEN Upto(f, x) + n ELSE Upto(f, x)
  BY MoreFacts, Zenon
<1> HIDE DEF g
<1>3. /\ \A x \in Int : Upto(f, x) \in Nat /\ Upto(g, x) \in Nat
      /\ \A x, y \in Int : x <= y => Upto(g, x) <= Upto(g, y)
      /\ \A x \in Int : x >= now => Upto(g, x) = Upto(g, now)
      /\ \A x \in Int : x >= now => Upto(f, x) = Upto(f, now)
  BY <1>2, UptoFacts
<1> SUFFICES ASSUME NEW t \in 1..MaxClock
             PROVE  Upto(g, t + Period - 1) - Upto(g, t - 1) <= 2 * MostSpent
  BY DEF Bound, g
<1>4. Upto(f, t + Period - 1) - Upto(f, t - 1) <= 2 * MostSpent
  BY DEF Bound
<1> DEFINE last  == t + Period - 1
           first == t - 1
           open  == s - 1
           early == s - Period
<1>5. /\ last \in Int /\ first \in Int /\ t \in Nat /\ first < last
      /\ open \in Int /\ early \in Int
      /\ t >= s => open <= first
      /\ (t < s /\ last >= now) => early <= first
  BY <1>0
<1>6. Upto(f, last) - Upto(f, first) <= 2 * MostSpent
  BY <1>4
<1> SUFFICES Upto(g, last) - Upto(g, first) <= 2 * MostSpent
  OBVIOUS
<1>7. Upto(g, now) - Upto(g, open) <= st.spent /\ Upto(g, open) - Upto(g, early) <= MostSpent
  BY <1>1
<1> HIDE DEF first, last, open, early
<1>8. /\ Upto(f, last) \in Nat /\ Upto(f, first) \in Nat
      /\ Upto(g, last) \in Nat /\ Upto(g, first) \in Nat /\ Upto(g, now) \in Nat
      /\ Upto(g, open) \in Nat /\ Upto(g, early) \in Nat
  <2>1. now \in Int /\ \A x \in Int : Upto(f, x) \in Nat /\ Upto(g, x) \in Nat
    BY <1>0, <1>3
  <2> QED
    BY <1>5, <2>1, Zenon
<1>9. CASE last < now
  <2>1. ~(last >= now) /\ ~(first >= now)
    BY <1>0, <1>5, <1>9
  <2>2. Upto(g, last) = Upto(f, last) /\ Upto(g, first) = Upto(f, first)
    BY <1>2, <1>5, <2>1
  <2> QED
    BY <1>6, <2>2
<1>10. CASE first >= now
  <2>1. last >= now
    BY <1>0, <1>5, <1>10
  <2>2. Upto(g, last) = Upto(g, now) /\ Upto(g, first) = Upto(g, now)
    BY <1>3, <1>5, <1>10, <2>1
  <2> QED
    BY <1>0, <1>8, <2>2
<1>11. CASE first < now /\ last >= now
  <2>1. Upto(g, last) = Upto(g, now)
    BY <1>3, <1>5, <1>11
  <2>2. CASE t >= s
    <3>1. open <= first
      BY <1>5, <2>2
    <3>2. Upto(g, open) <= Upto(g, first)
      BY <1>0, <1>3, <1>5, <3>1
    <3> QED
      BY <1>0, <1>7, <1>8, <2>1, <3>2
  <2>3. CASE t < s
    <3>1. early <= first
      BY <1>5, <1>11, <2>3
    <3>2. Upto(g, early) <= Upto(g, first)
      BY <1>0, <1>3, <1>5, <3>1
    <3> QED
      BY <1>0, <1>7, <1>8, <2>1, <3>2
  <2> QED
    BY <1>0, <1>5, <2>2, <2>3
<1> QED
  BY <1>0, <1>5, <1>9, <1>10, <1>11

\* Time passes.
LEMMA LedgerTicks ==
    ASSUME NEW f \in [0..MaxClock -> Nat], NEW now \in 1..MaxClock, now + 1 \in 1..MaxClock,
           RunningTotal(f, now)
    PROVE  /\ RunningTotal(f, now + 1)
           /\ \A st \in State : Backed(f, now, st) => Backed(f, now + 1, st)
           /\ \A st \in State : Covered(f, now, st) /\ st.start <= now /\ st.spent <= MostSpent
                                   => Covered(f, now + 1, st)
<1>0. /\ now \in Nat /\ now + 1 \in Int /\ now - 1 \in Int /\ now \in Int /\ now + 1 > now
      /\ now - 1 < now
      /\ Period \in Nat /\ Period > 0 /\ MostSpent \in Nat
      /\ now - Period \in Int /\ now + 1 - Period \in Int
  BY BudgetAssumption, MostSpentNat
<1>1. RunningTotal(f, now + 1)
  <2>1. \A a \in 0..MaxClock : a >= now + 1 => a >= now
    BY <1>0
  <2>2. now \in 0..MaxClock /\ now + 1 \in 0..MaxClock /\ now + 1 >= now
    BY <1>0
  <2> QED
    BY <2>1, <2>2 DEF RunningTotal
<1>2. /\ \A x \in Int : Upto(f, x) \in Nat
      /\ \A x, y \in Int : x <= y => Upto(f, x) <= Upto(f, y)
      /\ Upto(f, now + 1) = Upto(f, now)
  <2>1. now + 1 >= now
    BY <1>0
  <2> QED
    BY <1>0, <2>1, UptoFacts
<1>3. ASSUME NEW st \in State, Backed(f, now, st) PROVE Backed(f, now + 1, st)
  <2>1. st.start \in Nat
    BY StateNumbers
  <2> QED
    BY <1>0, <1>2, <1>3, <2>1 DEF Backed
<1>4. ASSUME NEW st \in State, Covered(f, now, st), st.start <= now, st.spent <= MostSpent
      PROVE  Covered(f, now + 1, st)
  <2> DEFINE s    == st.start
             succ == now + 1
             here == now - Period
             next == succ - Period
  <2>0. /\ s \in Nat /\ st.spent \in Nat /\ s - 1 \in Int /\ succ - 1 = now
        /\ here \in Int /\ next \in Int /\ here <= next /\ succ \in Int
        /\ now - s >= Period => succ - s >= Period
        /\ succ - s >= Period => s - 1 <= next
    BY <1>0, StateNumbers
  <2> HIDE DEF here, next, succ
  <2>1. /\ Upto(f, here) <= Upto(f, next)
        /\ Upto(f, now) \in Nat /\ Upto(f, s - 1) \in Nat
        /\ Upto(f, here) \in Nat /\ Upto(f, next) \in Nat
    BY <1>0, <1>2, <2>0
  <2>2. Upto(f, succ) = Upto(f, now)
    BY <1>2 DEF succ
  <2>3. ASSUME Upto(f, now) - Upto(f, next) <= MostSpent PROVE Quiet(f, succ)
    BY <2>0, <2>2, <2>3 DEF Quiet, next
  <2>4. CASE now - s >= Period
    <3>1. Upto(f, now) - Upto(f, here) <= MostSpent
      BY <1>4, <2>4 DEF Covered, Quiet, here
    <3>2. Upto(f, now) - Upto(f, next) <= MostSpent
      BY <1>0, <2>1, <3>1
    <3> QED
      BY <2>0, <2>3, <2>4, <3>2 DEF Covered, succ
  <2>5. CASE ~(now - s >= Period) /\ succ - s >= Period
    <3>1. Upto(f, now) - Upto(f, s - 1) <= st.spent
      BY <1>4, <2>5 DEF Covered
    <3>2. Upto(f, s - 1) <= Upto(f, next)
      BY <1>2, <2>0, <2>5
    <3>3. Upto(f, now) - Upto(f, next) <= MostSpent
      BY <1>0, <1>4, <2>0, <2>1, <3>1, <3>2
    <3> QED
      BY <2>3, <2>5, <3>3 DEF Covered, succ
  <2>6. CASE ~(now - s >= Period) /\ ~(succ - s >= Period)
    BY <1>4, <2>2, <2>6 DEF Covered, succ
  <2> QED
    BY <2>4, <2>5, <2>6
<1> QED
  BY <1>1, <1>3, <1>4

\* A period that is over, or in which nothing was spent, leaves this tick quiet; and a
\* quiet tick can start a period or find an old one.
LEMMA QuietWhen ==
    ASSUME NEW f \in [0..MaxClock -> Nat], NEW now \in 1..MaxClock, RunningTotal(f, now),
           NEW st \in State, st.start <= now, Covered(f, now, st),
           st.spent = 0 \/ now - st.start >= Period
    PROVE  Quiet(f, now)
<1> DEFINE s == st.start
<1>0. /\ now \in Int /\ now - 1 \in Int /\ s - 1 \in Int /\ s - Period \in Int
      /\ now - Period \in Int /\ s \in Nat /\ Period \in Nat /\ Period > 0 /\ MostSpent \in Nat
  BY StateNumbers, MostSpentNat
<1>1. CASE now - s >= Period
  BY <1>1 DEF Covered
<1>2. CASE st.spent = 0 /\ ~(now - s >= Period)
  <2>1. /\ Upto(f, now) - Upto(f, s - 1) <= 0
        /\ Upto(f, s - 1) - Upto(f, s - Period) <= MostSpent
    BY <1>2 DEF Covered
  <2>2. s - 1 <= now - 1 /\ now - 1 <= now /\ s - Period <= now - Period
    BY <1>0
  <2>3. /\ Upto(f, s - 1) <= Upto(f, now - 1) /\ Upto(f, now - 1) <= Upto(f, now)
        /\ Upto(f, s - Period) <= Upto(f, now - Period)
        /\ Upto(f, now) \in Nat /\ Upto(f, now - 1) \in Nat /\ Upto(f, s - 1) \in Nat
        /\ Upto(f, s - Period) \in Nat /\ Upto(f, now - Period) \in Nat
    <3>1. /\ \A x \in Int : Upto(f, x) \in Nat
          /\ \A x, y \in Int : x <= y => Upto(f, x) <= Upto(f, y)
      BY UptoFacts
    <3>2. Upto(f, s - 1) <= Upto(f, now - 1) /\ Upto(f, now - 1) <= Upto(f, now)
      BY <1>0, <2>2, <3>1, Zenon
    <3>3. Upto(f, s - Period) <= Upto(f, now - Period)
      BY <1>0, <2>2, <3>1, Zenon
    <3> QED
      BY <1>0, <3>1, <3>2, <3>3, Zenon
  <2>4. Upto(f, now) = Upto(f, now - 1) /\ Upto(f, now) - Upto(f, now - Period) <= MostSpent
    <3> DEFINE a == Upto(f, s - Period)
               b == Upto(f, now - Period)
               c == Upto(f, s - 1)
               d == Upto(f, now - 1)
               e == Upto(f, now)
    <3>1. /\ a \in Nat /\ b \in Nat /\ c \in Nat /\ d \in Nat /\ e \in Nat /\ MostSpent \in Nat
          /\ e - c <= 0 /\ c - a <= MostSpent /\ c <= d /\ d <= e /\ a <= b
      BY <1>0, <2>1, <2>3, Zenon
    <3> HIDE DEF a, b, c, d, e
    <3>2. e = d /\ e - b <= MostSpent
      BY <3>1
    <3> QED
      BY <3>2 DEF b, d, e
  <2> QED
    BY <2>4 DEF Quiet
<1> QED
  BY <1>1, <1>2

LEMMA QuietCovers ==
    ASSUME NEW f \in [0..MaxClock -> Nat], NEW now \in 1..MaxClock, RunningTotal(f, now),
           Quiet(f, now)
    PROVE  /\ Covered(f, now, Fresh(now))
           /\ \A st \in State : now - st.start >= Period => Covered(f, now, st)
<1>0. /\ now \in Int /\ now - 1 \in Int /\ now - Period \in Int
      /\ Period \in Nat /\ Period > 0
  BY BudgetAssumption
<1>1. Upto(f, now) \in Nat /\ Upto(f, now - 1) \in Nat
  BY <1>0, UptoFacts
<1>2. ~(now - now >= Period)
  BY <1>0
<1>3. /\ Upto(f, now) - Upto(f, now - 1) <= 0
      /\ Upto(f, now - 1) - Upto(f, now - Period) <= MostSpent
  BY <1>1 DEF Quiet
<1>4. Covered(f, now, Fresh(now))
  BY <1>2, <1>3 DEF Covered, Fresh
<1> QED
  BY <1>4 DEF Covered

-----------------------------------------------------------------------------
(* The ledger through a step *)

LEMMA LedgerTypes ==
    ASSUME TypeOK
    PROVE  /\ charged \in [0..MaxClock -> Nat] /\ clock \in 1..MaxClock /\ clock \in Nat
           /\ meter \in State /\ disk.state \in State /\ disk.found \in BOOLEAN
           /\ Fresh(clock) \in State
BY DEF TypeOK, Fresh, State

\* What holds of the period that is current after a roll.
LEMMA RolledLedger ==
    ASSUME TypeOK, OverspendBound, Ledger
    PROVE  LET st == Rolled(meter)
           IN  /\ st \in State /\ st.spent <= MostSpent
               /\ st.start <= clock /\ clock - st.start < Period
               /\ Backed(charged, clock, st)
               /\ Behind(disk, st)
               /\ ~lost => Covered(charged, clock, st)
<1>0. /\ meter.start \in Nat /\ clock \in Nat /\ Period \in Nat /\ Period > 0
      /\ meter \in State /\ disk.state.start \in Nat
  BY LedgerTypes, StateNumbers
<1>1. CASE Elapsed(meter)
  <2>1. Rolled(meter) = Fresh(clock) /\ clock - meter.start >= Period
    BY <1>1 DEF Rolled, Elapsed
  <2>2. /\ Fresh(clock) \in State
        /\ Fresh(clock).start = clock /\ Fresh(clock).spent = 0
    BY LedgerTypes DEF Fresh
  <2>3. Backed(charged, clock, Fresh(clock))
    <3>1. clock - 1 \in Int /\ clock \in Int /\ clock - 1 <= clock
      BY <1>0
    <3>2. /\ Upto(charged, clock - 1) <= Upto(charged, clock)
          /\ Upto(charged, clock - 1) \in Nat /\ Upto(charged, clock) \in Nat
      BY <3>1, LedgerTypes, UptoFacts DEF Ledger
    <3> QED
      BY <1>0, <2>2, <3>2 DEF Backed
  <2>4. Behind(disk, Fresh(clock))
    <3>1. meter.start + Period <= clock
      BY <1>0, <2>1
    <3>2. disk.found => disk.state.start + Period <= clock
      <4>1. disk.found => \/ disk.state.start = meter.start
                          \/ disk.state.start + Period <= meter.start
        BY DEF Ledger, Behind
      <4> QED
        BY <1>0, <3>1, <4>1
    <3> QED
      BY <2>2, <3>2 DEF Behind
  <2>5. ~lost => Covered(charged, clock, Fresh(clock))
    <3>1. ~lost => Quiet(charged, clock)
      BY <2>1 DEF Ledger, Covered
    <3> QED
      BY <3>1, LedgerTypes, QuietCovers DEF Ledger
  <2>6. clock - clock < Period /\ clock <= clock /\ 0 <= MostSpent
    BY <1>0, MostSpentNat
  <2> QED
    BY <2>1, <2>2, <2>3, <2>4, <2>5, <2>6
<1>2. CASE ~Elapsed(meter)
  <2>1. Rolled(meter) = meter /\ clock - meter.start < Period
    BY <1>0, <1>2 DEF Rolled, Elapsed
  <2>2. meter.start <= clock /\ meter.spent <= MostSpent
    BY DEF Ledger, Backed, OverspendBound
  <2> QED
    BY <1>0, <2>1, <2>2 DEF Ledger
<1> QED
  BY <1>1, <1>2

\* A roll, alone or before the check of Allow.
LEMMA LedgerRoll ==
    ASSUME TypeOK, OverspendBound, Ledger,
           meter' = Rolled(meter), disk' \in AfterRoll, UNCHANGED <<clock, charged, lost>>
    PROVE  Ledger'
<1> DEFINE st == Rolled(meter)
<1>1. /\ Backed(charged, clock, st) /\ Behind(disk, st)
      /\ ~lost => Covered(charged, clock, st)
  BY RolledLedger
<1>2. disk' = disk \/ (disk'.state = st /\ disk'.found)
  BY DEF AfterRoll, TrySave, Save
<1>3. Backed(charged, clock, disk'.state)
  BY <1>1, <1>2 DEF Ledger
<1>4. Behind(disk', st)
  <2>1. st.spent \in Nat
    BY RolledLedger, StateNumbers
  <2> HIDE DEF st
  <2> QED
    BY <1>1, <1>2, <2>1 DEF Behind
<1> QED
  BY <1>1, <1>3, <1>4 DEF Ledger

\* A call's tokens.
LEMMA LedgerFinish ==
    ASSUME TypeOK, OverspendBound, OverspendBound', Ledger,
           NEW c \in Callers, NEW n \in Usages, Finish(c, n)
    PROVE  Ledger'
<1> DEFINE st == Rolled(meter)
           k  == Counted(n)
           f  == More(charged, clock, k)
           up == [start |-> st.start, spent |-> st.spent + k]
<1>1. /\ st \in State /\ st.start <= clock /\ clock - st.start < Period
      /\ Backed(charged, clock, st) /\ Behind(disk, st)
      /\ ~lost => Covered(charged, clock, st)
  BY RolledLedger
<1>2. /\ k \in Nat /\ charged \in [0..MaxClock -> Nat] /\ clock \in 1..MaxClock
      /\ RunningTotal(charged, clock) /\ disk.state \in State
  BY LedgerTypes, CountedRange DEF Ledger
<1>3. /\ meter' = up /\ charged' = f /\ UNCHANGED <<clock, lost>>
      /\ disk' = [state |-> up, found |-> TRUE] \/ disk' \in AfterRoll
  BY DEF Finish, Added, Saved, Save, More
<1>4. disk' = disk \/ (disk'.state = up /\ disk'.found) \/ (disk'.state = st /\ disk'.found)
  BY <1>3 DEF AfterRoll, TrySave, Save
<1>5. up.start = st.start /\ up.spent = st.spent + k
  OBVIOUS
<1>6. up \in State
  BY <1>1, <1>2, <1>5 DEF State
<1> HIDE DEF st, k
<1>7. RunningTotal(f, clock) /\ Backed(f, clock, up) /\ Backed(f, clock, st)
  BY <1>1, <1>2, MoreFacts, BackedMore
<1>8. Backed(f, clock, disk.state)
  BY <1>2, BackedMore DEF Ledger
<1>9. ~lost => Covered(f, clock, up)
  BY <1>1, <1>2, CoveredMore
<1>10. st.spent \in Nat /\ st.start \in Nat
  BY <1>1, StateNumbers
<1> HIDE DEF f, up
<1>11. Behind(disk', up)
  <2>1. st.spent <= up.spent /\ up.spent <= up.spent
    BY <1>2, <1>5, <1>10
  <2>2. CASE disk' = disk
    <3>1. disk.state.spent \in Nat
      BY <1>2, StateNumbers
    <3>2. disk.state.spent <= st.spent => disk.state.spent <= up.spent
      BY <1>2, <1>5, <1>10, <3>1
    <3> QED
      BY <1>1, <1>5, <2>2, <3>2 DEF Behind
  <2>3. CASE disk'.state = up \/ disk'.state = st
    BY <1>5, <2>1, <2>3 DEF Behind
  <2> QED
    BY <1>4, <2>2, <2>3
<1>12. Backed(f, clock, disk'.state)
  BY <1>4, <1>7, <1>8
<1>13. ~lost => Bound(f)
  <2>1. up.spent <= MostSpent
    <3>1. meter'.spent <= MostSpent'
      BY DEF OverspendBound
    <3>2. MostSpent' = MostSpent
      BY DEF MostSpent
    <3> QED
      BY <1>3, <3>1, <3>2
  <2>2. up.start <= clock /\ clock - up.start < Period
    BY <1>1, <1>5
  <2>3. ~lost => Bound(charged)
    BY DEF Ledger
  <2> QED
    BY <1>2, <1>6, <1>9, <2>1, <2>2, <2>3, BoundMore DEF f
<1> QED
  BY <1>3, <1>7, <1>9, <1>11, <1>12, <1>13 DEF Ledger

\* A restart: what is on disk is the current period, or the current period has spent
\* nothing that is not already covered.
LEMMA LedgerRestart ==
    ASSUME TypeOK, OverspendBound, OnDisk, Ledger, Restart
    PROVE  Ledger'
<1>1. /\ meter' = Loaded /\ UNCHANGED <<disk, clock, charged>>
      /\ ~lost' => ~lost /\ ~unsaved
  BY Zenon DEF Restart
<1>2. /\ charged \in [0..MaxClock -> Nat] /\ clock \in 1..MaxClock /\ clock \in Nat
      /\ RunningTotal(charged, clock) /\ meter \in State /\ disk.state \in State
      /\ meter.start <= clock /\ meter.start \in Nat /\ disk.state.start \in Nat
      /\ meter.spent \in Nat /\ disk.state.spent \in Nat
  BY LedgerTypes, StateNumbers DEF Ledger, Backed
<1>3. ASSUME ~lost, ~unsaved PROVE Covered(charged, clock, Loaded)
  <2>1. Covered(charged, clock, meter)
    BY <1>3 DEF Ledger
  <2>2. meter.spent = 0 \/ (disk.found /\ disk.state = meter)
    BY <1>3 DEF OnDisk
  <2>3. CASE disk.found /\ disk.state = meter
    BY <2>1, <2>3 DEF Loaded
  <2>4. CASE meter.spent = 0
    <3>1. Quiet(charged, clock)
      BY <1>2, <2>1, <2>4, QuietWhen
    <3>2. /\ Covered(charged, clock, Fresh(clock))
          /\ \A st \in State : clock - st.start >= Period => Covered(charged, clock, st)
      BY <1>2, <3>1, QuietCovers
    <3>3. CASE ~disk.found
      BY <3>2, <3>3 DEF Loaded
    <3>4. CASE disk.found /\ disk.state.start = meter.start /\ disk.state.spent <= meter.spent
      <4>1. disk.state.spent = meter.spent
        BY <1>2, <2>4, <3>4
      <4>2. disk.state = meter
        BY <1>2, <3>4, <4>1 DEF State
      <4> QED
        BY <2>3, <3>4, <4>2
    <3>5. CASE disk.found /\ disk.state.start + Period <= meter.start
      <4>1. clock - disk.state.start >= Period
        BY <1>2, <3>5, BudgetAssumption
      <4> QED
        BY <1>2, <3>2, <3>5, <4>1 DEF Loaded
    <3> QED
      BY <3>3, <3>4, <3>5 DEF Ledger, Behind
  <2> QED
    BY <2>2, <2>3, <2>4
<1>4. Backed(charged, clock, Loaded)
  <2>1. CASE disk.found
    BY <2>1 DEF Loaded, Ledger
  <2>2. CASE ~disk.found
    <3>1. clock - 1 \in Int /\ clock \in Int /\ clock - 1 <= clock
      BY <1>2
    <3>2. /\ Upto(charged, clock - 1) <= Upto(charged, clock)
          /\ Upto(charged, clock - 1) \in Nat /\ Upto(charged, clock) \in Nat
      BY <1>2, <3>1, UptoFacts
    <3>3. Loaded.start = clock /\ Loaded.spent = 0
      BY <2>2 DEF Loaded, Fresh
    <3> QED
      BY <1>2, <3>2, <3>3 DEF Backed
  <2> QED
    BY <2>1, <2>2
<1>5. Behind(disk, Loaded)
  <2>1. disk.found => Loaded = disk.state
    BY DEF Loaded
  <2> QED
    BY <1>2, <2>1 DEF Behind
<1>6. ~lost' => Covered(charged, clock, Loaded) /\ Bound(charged)
  BY <1>1, <1>3 DEF Ledger
<1> QED
  BY <1>1, <1>2, <1>4, <1>5, <1>6 DEF Ledger

LEMMA LedgerStep ==
    TypeOK /\ OverspendBound /\ OverspendBound' /\ OnDisk /\ Ledger /\ [Next]_vars => Ledger'
<1> SUFFICES ASSUME TypeOK, OverspendBound, OverspendBound', OnDisk, Ledger, [Next]_vars
             PROVE  Ledger'
  OBVIOUS
<1>1. ASSUME NEW c \in Callers, Begin(c) PROVE Ledger'
  BY <1>1, LedgerRoll DEF Begin
<1>2. CASE Remaining
  BY <1>2, LedgerRoll DEF Remaining
<1>3. ASSUME NEW c \in Callers, NEW n \in Usages, Finish(c, n) PROVE Ledger'
  BY <1>3, LedgerFinish
<1>4. ASSUME UNCHANGED <<meter, disk, clock, charged, lost>> PROVE Ledger'
  BY <1>4 DEF Ledger
<1>5. ASSUME NEW c \in Callers, Fail(c) PROVE Ledger'
  BY <1>4, <1>5 DEF Fail
<1>6. CASE Tick
  <2>1. /\ clock' = clock + 1 /\ clock + 1 \in 1..MaxClock
        /\ UNCHANGED <<meter, disk, charged, lost>>
    BY <1>6, LedgerTypes, BudgetAssumption DEF Tick
  <2>2. meter.start <= clock /\ meter.spent <= MostSpent
    BY DEF Ledger, Backed, OverspendBound
  <2>3. /\ RunningTotal(charged, clock + 1)
        /\ Backed(charged, clock + 1, meter) /\ Backed(charged, clock + 1, disk.state)
        /\ ~lost => Covered(charged, clock + 1, meter)
    BY <2>1, <2>2, LedgerTypes, LedgerTicks DEF Ledger
  <2> QED
    BY <2>1, <2>3 DEF Ledger
<1>7. CASE Restart
  BY <1>7, LedgerRestart
<1>8. CASE UNCHANGED vars
  BY <1>4, <1>8 DEF vars
<1> QED
  BY <1>1, <1>2, <1>3, <1>5, <1>6, <1>7, <1>8 DEF Next

LEMMA LedgerInitially == Init => Ledger
<1> SUFFICES ASSUME Init PROVE Ledger
  OBVIOUS
<1>0. /\ meter = Fresh(1) /\ disk.state = Fresh(1) /\ ~disk.found /\ clock = 1
      /\ charged = [t \in 0..MaxClock |-> 0]
      /\ MaxClock \in Nat /\ MaxClock > 0 /\ Period \in Nat /\ Period > 0
  BY BudgetAssumption DEF Init
<1>1. \A t \in 0..MaxClock : charged[t] = 0
  BY <1>0
<1>2. \A x \in Int : Upto(charged, x) = 0
  BY <1>0, <1>1 DEF Upto
<1>3. RunningTotal(charged, 1)
  <2>1. 0 \in 0..MaxClock /\ 1 \in 0..MaxClock
    BY <1>0
  <2> QED
    BY <1>1, <2>1 DEF RunningTotal
<1>4. Backed(charged, 1, Fresh(1))
  BY <1>2 DEF Backed, Fresh
<1>5. Covered(charged, 1, Fresh(1))
  <2>1. ~(1 - 1 >= Period)
    BY <1>0
  <2>2. 1 - Period \in Int
    BY <1>0
  <2> QED
    BY <1>2, <2>1, <2>2, MostSpentNat DEF Covered, Fresh
<1>6. Bound(charged)
  <2> SUFFICES ASSUME NEW t \in 1..MaxClock
               PROVE  Upto(charged, t + Period - 1) - Upto(charged, t - 1) <= 2 * MostSpent
    BY DEF Bound
  <2>1. t + Period - 1 \in Int /\ t - 1 \in Int
    BY <1>0
  <2>2. Upto(charged, t + Period - 1) = 0 /\ Upto(charged, t - 1) = 0
    BY <1>2, <2>1
  <2> QED
    BY <2>2, MostSpentNat
<1> QED
  BY <1>0, <1>3, <1>4, <1>5, <1>6 DEF Ledger, Behind

LEMMA LedgerInvariance == Spec => [](TypeOK /\ OverspendBound /\ OnDisk /\ Ledger)
<1>1. Init => OnDisk
  BY DEF Init, Fresh, OnDisk
<1> QED
  BY <1>1, LedgerInitially, LedgerStep, OnDiskStep, TypeCorrect, OverspendBounded, PTL DEF Spec

\* A refusal is over what is in the current period, and that was charged since its start.
LEMMA RefusedStep ==
    ASSUME TypeOK, OverspendBound, Ledger, [Next]_vars, NEW c \in Callers,
           flight[c] # "refused", flight'[c] = "refused"
    PROVE  ChargedIn(clock - Period + 1, clock) >= Ceiling
<1>1. Begin(c)
  <2>1. ASSUME NEW d \in Callers, d # c, Begin(d) PROVE FALSE
    BY <2>1 DEF Begin, TypeOK
  <2>2. ASSUME NEW d \in Callers, Fail(d) \/ \E n \in Usages : Finish(d, n) PROVE FALSE
    BY <2>2 DEF Fail, Finish, TypeOK
  <2>3. CASE Remaining \/ Tick \/ Restart \/ UNCHANGED vars
    BY <2>3 DEF Remaining, Tick, Restart, vars
  <2> QED
    BY <2>1, <2>2, <2>3 DEF Next
<1> DEFINE st == Rolled(meter)
<1>2. /\ st \in State /\ st.start <= clock /\ clock - st.start < Period
      /\ Backed(charged, clock, st)
  BY RolledLedger
<1>3. ~(st.spent < Ceiling)
  BY <1>1 DEF Begin, Within, TypeOK
<1> HIDE DEF st
<1> DEFINE old  == clock - Period
           open == st.start - 1
<1>4. /\ st.spent \in Nat /\ Ceiling \in Nat /\ clock \in Int
      /\ old \in Int /\ open \in Int /\ old <= open
      /\ clock - Period + 1 - 1 = old
  <2>1. /\ st.spent \in Nat /\ st.start \in Nat /\ Period \in Nat
    BY <1>2, StateNumbers, Zenon
  <2>2. clock \in Int /\ Ceiling \in Nat
    BY LedgerTypes, BudgetAssumption
  <2> QED
    BY <1>2, <2>1, <2>2
<1>5. st.spent <= Upto(charged, clock) - Upto(charged, open)
  BY <1>2 DEF Backed
<1>6. ChargedIn(clock - Period + 1, clock) = Upto(charged, clock) - Upto(charged, old)
  BY <1>4 DEF ChargedIn, ChargedBy, Upto
<1> HIDE DEF old, open
<1>7. /\ Upto(charged, old) <= Upto(charged, open)
      /\ Upto(charged, old) \in Nat /\ Upto(charged, open) \in Nat
      /\ Upto(charged, clock) \in Nat
  BY <1>4, UptoFacts, LedgerTypes DEF Ledger
<1> QED
  BY <1>3, <1>4, <1>5, <1>6, <1>7

\* No stretch of one period's length is charged more than two periods' worth, over rolls,
\* failed saves and restarts, as long as no recorded token was lost with the process
\* (package comment of internal/budget).
THEOREM SpendRateBounded == Spec => []WindowBound
<1>1. Ledger => WindowBound
  BY DEF Ledger, Bound, WindowBound, ChargedIn, ChargedBy, Upto
<1> QED
  BY <1>1, LedgerInvariance, PTL

\* A call is refused only when the last Period ticks were charged the whole ceiling:
\* neither a roll, a restart nor a failed save holds an old period against a new one
\* (Allow, rollLocked).
THEOREM RefusalsAreEarned == Spec => RefusedOnlyWhenSpent
<1>1. TypeOK /\ OverspendBound /\ Ledger /\ [Next]_vars =>
        [\A c \in Callers :
            flight[c] # "refused" /\ flight'[c] = "refused" =>
               ChargedIn(clock - Period + 1, clock) >= Ceiling]_vars
  BY RefusedStep
<1> QED
  BY <1>1, LedgerInvariance, PTL DEF Spec, RefusedOnlyWhenSpent
=============================================================================
