---------------------------- MODULE FanOutProofs ----------------------------
(***************************************************************************)
(* A concurrent block of any width, under any budget, cost and order of    *)
(* completion.  The counters the code keeps (slots, reservations, units in *)
(* flight) are tied to where the units are; from that follow the bound on  *)
(* what the block spends and the reasons it stops for.                     *)
(***************************************************************************)
EXTENDS FanOut, FiniteSetTheorems, TLAPS

Running == {i \in Units : unit[i] = "running"}
Unsettled == {i \in Units : unit[i] \in {"running", "reported"}}
Holding == {i \in Units : unit[i] \in {"running", "reported", "settled"}}

\* Where the parent holds a slot for a unit it has not started yet.
Asking == {"admitting", "sleeping", "woken"}

Typed ==
    /\ block \in Blocks
    /\ parent \in {"acquiring", "admitting", "sleeping", "woken", "waiting", "returned"}
    /\ next \in 1..N + 1 /\ slots \in Int /\ inFlight \in Int
    /\ unit \in [Units -> {"new", "running", "reported", "settled", "finished"}]
    /\ result \in [Units -> Errors]
    /\ cut \in BOOLEAN /\ cancelled \in BOOLEAN /\ late \in BOOLEAN
    /\ winner \in Units \cup {NoUnit}
    /\ spent \in Nat /\ reserved \in Nat
    /\ outcome \in Outcomes

\* Units start in declaration order, and while one is being admitted there is
\* one to admit.
InOrder ==
    /\ \A i \in Units : unit[i] = "new" <=> i >= next
    /\ parent \in Asking => next <= N

\* limiter: a slot per unit that has not released, and the parent's own.
SlotsHeld ==
    slots = Cardinality(Holding) + IF parent \in Asking THEN 1 ELSE 0

\* blockBudget: an allowance for each unit that has not settled.
AllowancesHeld ==
    IF Metered THEN /\ inFlight = Cardinality(Unsettled)
                    /\ reserved = block.reserve * Cardinality(Unsettled)
    ELSE inFlight = 0 /\ reserved = 0

\* What is spent, and what the units at work may yet spend.
Covered ==
    Metered /\ Cheap =>
        spent + block.reserve * Cardinality(Running) < block.ceiling + block.reserve

\* A unit that has not reported has no result; a branch that cut the others off
\* has one, and no try: branch is the first of a block to have one, but for a
\* panic or an abort; a race has a winner once a unit of it has succeeded, and starts all.
Reports ==
    /\ \A i \in Units : unit[i] \in {"new", "running"} => result[i] = "none"
    /\ block.kind = "in_parallel" /\ cut => \E i \in Units : result[i] # "none"
    /\ block.kind = "in_parallel" /\ (\E i \in Units : result[i] # "none") => Blamed
    /\ block.kind = "race" =>
          (winner # NoUnit <=> \E i \in Units : unit[i] \notin {"new", "running"} /\ result[i] = "none")
    /\ block.kind = "race" /\ parent \in {"waiting", "returned"} => next = N + 1
    /\ parent = "returned" => \A i \in Units : unit[i] \in {"new", "finished"}

Inv == /\ Typed /\ InOrder /\ SlotsHeld /\ AllowancesHeld /\ Covered /\ Reports
       /\ StopsForAReason /\ WorstBranchCounts

-----------------------------------------------------------------------------
(* Numbers and sets.                                                       *)

\* The constants, as the proofs use them.
LEMMA Constants ==
    /\ N \in Nat \ {0} /\ Costs \subseteq Nat
    /\ \A b \in Blocks : /\ b.kind \in {"in_parallel", "across", "race"}
                         /\ b.limit \in Nat /\ b.ceiling \in Nat /\ b.reserve \in Nat
                         /\ b.failFast \in BOOLEAN
BY FanOutAssumption DEF BlockType

\* Allowances add up one by one.
LEMMA Allowances ==
    ASSUME NEW r \in Nat, NEW m \in Nat, NEW n \in Nat
    PROVE  /\ r * m \in Nat /\ r * 0 = 0 /\ r * (m + 1) = r * m + r
           /\ m <= n => r * m <= r * n
<1>1. r * m \in Nat /\ r * 0 = 0 /\ r * (m + 1) = r * m + r
  OBVIOUS
<1>2. ASSUME m <= n PROVE r * m <= r * n
  <2>1. PICK d \in Nat : n = m + d
    <3>1. n - m \in Nat /\ n = m + (n - m)
      BY <1>2
    <3> QED
      BY <3>1
  <2>2. r * (m + d) = r * m + r * d /\ r * d \in Nat /\ r * m \in Nat
    OBVIOUS
  <2> QED
    BY <2>1, <2>2
<1> QED
  BY <1>1, <1>2

\* The sets the counters count are finite.
LEMMA Counted ==
    /\ IsFiniteSet(Units)
    /\ IsFiniteSet(Running) /\ IsFiniteSet(Unsettled) /\ IsFiniteSet(Holding)
    /\ Cardinality(Running) \in Nat /\ Cardinality(Unsettled) \in Nat
    /\ Cardinality(Holding) \in Nat
    /\ Cardinality(Running) <= Cardinality(Unsettled)
    /\ Cardinality(Unsettled) <= Cardinality(Holding)
<1>1. IsFiniteSet(Units)
  BY Constants, FS_Interval DEF Units
<1>2. Running \subseteq Unsettled /\ Unsettled \subseteq Holding /\ Holding \subseteq Units
  BY DEF Running, Unsettled, Holding
<1>3. IsFiniteSet(Holding)
  BY <1>1, <1>2, FS_Subset
<1>4. IsFiniteSet(Unsettled) /\ Cardinality(Unsettled) <= Cardinality(Holding)
  BY <1>2, <1>3, FS_Subset
<1>5. IsFiniteSet(Running) /\ Cardinality(Running) <= Cardinality(Unsettled)
  BY <1>2, <1>4, FS_Subset
<1> QED
  BY <1>1, <1>3, <1>4, <1>5, FS_CardinalityType

\* A unit that starts works, is unsettled and holds its slot.
LEMMA StartCounts ==
    ASSUME Typed, NEW i \in Units, unit[i] = "new", unit' = [unit EXCEPT ![i] = "running"]
    PROVE  /\ Cardinality(Running') = Cardinality(Running) + 1
           /\ Cardinality(Unsettled') = Cardinality(Unsettled) + 1
           /\ Cardinality(Holding') = Cardinality(Holding) + 1
<1>1. /\ i \notin Running /\ i \notin Unsettled /\ i \notin Holding
      /\ Running' = Running \cup {i} /\ Unsettled' = Unsettled \cup {i}
      /\ Holding' = Holding \cup {i}
  BY DEF Typed, Running, Unsettled, Holding
<1> QED
  BY <1>1, Counted, FS_AddElement

\* One whose work ends is still unsettled.
LEMMA WorkCounts ==
    ASSUME Typed, NEW i \in Units, unit[i] = "running", unit' = [unit EXCEPT ![i] = "reported"]
    PROVE  /\ Cardinality(Running') = Cardinality(Running) - 1
           /\ Unsettled' = Unsettled /\ Holding' = Holding
<1>1. i \in Running /\ Running' = Running \ {i} /\ Unsettled' = Unsettled /\ Holding' = Holding
  BY DEF Typed, Running, Unsettled, Holding
<1> QED
  BY <1>1, Counted, FS_RemoveElement

\* One that settles keeps its slot.
LEMMA SettleCounts ==
    ASSUME Typed, NEW i \in Units, unit[i] = "reported", unit' = [unit EXCEPT ![i] = "settled"]
    PROVE  /\ Cardinality(Unsettled') = Cardinality(Unsettled) - 1
           /\ Running' = Running /\ Holding' = Holding
<1>1. i \in Unsettled /\ Unsettled' = Unsettled \ {i} /\ Running' = Running /\ Holding' = Holding
  BY DEF Typed, Running, Unsettled, Holding
<1> QED
  BY <1>1, Counted, FS_RemoveElement

\* And gives it back last.
LEMMA ReleaseCounts ==
    ASSUME Typed, NEW i \in Units, unit[i] = "settled", unit' = [unit EXCEPT ![i] = "finished"]
    PROVE  /\ Cardinality(Holding') = Cardinality(Holding) - 1
           /\ Running' = Running /\ Unsettled' = Unsettled
<1>1. i \in Holding /\ Holding' = Holding \ {i} /\ Running' = Running /\ Unsettled' = Unsettled
  BY DEF Typed, Running, Unsettled, Holding
<1> QED
  BY <1>1, Counted, FS_RemoveElement

-----------------------------------------------------------------------------
(* The parent.                                                             *)

\* newLimiter's acquire.
LEMMA AcquireStep ==
    ASSUME Inv, Acquire
    PROVE  Inv'
<1>1. /\ parent = "acquiring" /\ next <= N /\ slots' = slots + 1 /\ parent' = "admitting"
      /\ UNCHANGED <<block, next, unit, result, cut, winner, cancelled, late, spent, reserved,
                     inFlight, outcome>>
  BY DEF Acquire
<1>2. Typed' /\ InOrder'
  BY <1>1, Constants DEF Inv, Typed, InOrder, Asking
<1>3. SlotsHeld'
  BY <1>1, Counted DEF Inv, Typed, SlotsHeld, Asking, Holding
<1>4. AllowancesHeld' /\ Covered'
  BY <1>1 DEF Inv, AllowancesHeld, Covered, Metered, Cheap, Unsettled, Running
<1>5. Reports'
  BY <1>1 DEF Inv, Reports, Blamed
<1>6. StopsForAReason' /\ WorstBranchCounts'
  BY <1>1 DEF StopsForAReason, WorstBranchCounts, Blamed
<1> QED
  BY <1>2, <1>3, <1>4, <1>5, <1>6 DEF Inv

\* A unit is not admitted, for a reason (runBranches, stopAdmitting).
LEMMA StopStep ==
    ASSUME Inv, parent \in {"admitting", "woken"}, Stop, block.kind # "race",
           \/ late
           \/ Metered /\ spent >= block.ceiling
           \/ block.kind = "in_parallel" /\ (cut \/ cancelled),
           UNCHANGED <<block, result, cut, winner, cancelled, late, spent, reserved, inFlight,
                       outcome>>
    PROVE  Inv'
<1>1. slots' = slots - 1 /\ parent' = "waiting" /\ UNCHANGED <<unit, next>>
  BY DEF Stop
<1>2. Typed' /\ InOrder'
  BY <1>1 DEF Inv, Typed, InOrder, Asking
<1>3. SlotsHeld'
  BY <1>1, Counted DEF Inv, Typed, SlotsHeld, Asking, Holding
<1>4. AllowancesHeld' /\ Covered'
  BY <1>1 DEF Inv, AllowancesHeld, Covered, Metered, Cheap, Unsettled, Running
<1>5. Reports'
  BY <1>1 DEF Inv, Reports, Blamed
<1>6. StopsForAReason'
  <2>1. (Metered /\ spent >= block.ceiling)' <=> Metered /\ spent >= block.ceiling
    BY DEF Metered
  <2>2. cut /\ block.kind = "in_parallel" => \E i \in Units : result[i] # "none"
    BY DEF Inv, Reports, Blamed
  <2>3. \/ late
        \/ Metered /\ spent >= block.ceiling
        \/ block.kind = "in_parallel" /\ (cancelled \/ (cut /\ \E i \in Units : result[i] # "none"))
    BY <2>2
  <2> QED
    BY <2>1, <2>3 DEF StopsForAReason
<1>7. WorstBranchCounts'
  BY <1>1 DEF WorstBranchCounts
<1> QED
  BY <1>2, <1>3, <1>4, <1>5, <1>6, <1>7 DEF Inv

\* One that is admitted, in all but the budget.
LEMMA StartStep ==
    ASSUME Inv, parent \in {"admitting", "woken"}, Start, reserved' \in Nat, inFlight' \in Int,
           AllowancesHeld', Covered',
           UNCHANGED <<block, result, cut, winner, cancelled, late, spent, outcome>>
    PROVE  Inv'
<1>1. /\ unit' = [unit EXCEPT ![next] = "running"]
      /\ next' = next + 1 /\ parent' = "acquiring" /\ UNCHANGED slots
  BY DEF Start
<1>2. next \in Units /\ unit[next] = "new"
  BY Constants DEF Inv, Typed, InOrder, Asking, Units
<1>3. Typed'
  BY <1>1, <1>2, Constants DEF Inv, Typed, Units
<1>4. InOrder'
  BY <1>1, <1>2, Constants DEF Inv, Typed, InOrder, Asking, Units
<1>5. SlotsHeld'
  <2>1. Cardinality(Holding') = Cardinality(Holding) + 1
    BY <1>1, <1>2, StartCounts DEF Inv
  <2>2. slots = Cardinality(Holding) + 1
    BY DEF Inv, SlotsHeld, Asking
  <2> QED
    BY <1>1, <2>1, <2>2, Counted DEF SlotsHeld, Asking
<1>6. Reports'
  BY <1>1, <1>2 DEF Inv, Typed, Reports, Blamed
<1>7. StopsForAReason' /\ WorstBranchCounts'
  BY <1>1 DEF StopsForAReason, WorstBranchCounts, Blamed
<1> QED
  BY <1>3, <1>4, <1>5, <1>6, <1>7 DEF Inv

\* runBranches' admit.
LEMMA AdmitBranchStep ==
    ASSUME Inv, AdmitBranch
    PROVE  Inv'
<1>1. /\ parent = "admitting" /\ block.kind # "across"
      /\ UNCHANGED <<block, result, cut, winner, cancelled, late, spent, reserved, inFlight, outcome>>
  BY DEF AdmitBranch
<1>2. CASE block.kind = "in_parallel" /\ (cut \/ cancelled \/ late)
  <2>1. Stop
    BY <1>2 DEF AdmitBranch
  <2>2. block.kind # "race"
    BY <1>2
  <2> QED
    BY <1>1, <1>2, <2>1, <2>2, StopStep
<1>3. CASE ~(block.kind = "in_parallel" /\ (cut \/ cancelled \/ late))
  <2>1. Start
    BY <1>3 DEF AdmitBranch
  <2>2. ~Metered /\ ~Metered'
    BY <1>1 DEF Metered
  <2>3. AllowancesHeld' /\ Covered'
    BY <1>1, <2>2 DEF Inv, AllowancesHeld, Covered
  <2>4. reserved' \in Nat /\ inFlight' \in Int
    BY <1>1 DEF Inv, Typed
  <2> QED
    BY <1>1, <2>1, <2>3, <2>4, StartStep
<1> QED
  BY <1>2, <1>3

\* blockBudget.admit: a unit admitted while spend and reservations are under
\* the ceiling keeps all that may be spent within one reservation of it; and
\* reservations fill a ceiling only while somebody holds one.
LEMMA AdmitCellStep ==
    ASSUME Inv, AdmitCell
    PROVE  Inv'
<1> DEFINE r == block.reserve
           m == Cardinality(Running)
           n == Cardinality(Unsettled)
<1>1. /\ parent \in {"admitting", "woken"} /\ Metered
      /\ UNCHANGED <<block, result, cut, winner, cancelled, late, spent, outcome>>
  BY DEF AdmitCell
<1>2. block.kind = "across" /\ Metered'
  BY <1>1 DEF Metered
<1>3. /\ r \in Nat /\ m \in Nat /\ n \in Nat /\ m <= n /\ spent \in Nat /\ block.ceiling \in Nat
      /\ inFlight = n /\ reserved = r * n
  BY <1>1, Constants, Counted DEF Inv, Typed, AllowancesHeld
<1>4. CASE spent >= block.ceiling
  <2>1. Stop /\ UNCHANGED <<reserved, inFlight>>
    BY <1>4 DEF AdmitCell
  <2> QED
    BY <1>1, <1>2, <1>4, <2>1, StopStep
<1>5. CASE ~(spent >= block.ceiling) /\ spent + reserved < block.ceiling
  <2>1. Start /\ reserved' = reserved + r /\ inFlight' = inFlight + 1
    BY <1>5 DEF AdmitCell
  <2>2. next \in Units /\ unit[next] = "new" /\ unit' = [unit EXCEPT ![next] = "running"]
    BY <1>1, <2>1, Constants DEF Inv, Typed, InOrder, Asking, Units, Start
  <2>3. Cardinality(Running') = m + 1 /\ Cardinality(Unsettled') = n + 1
    BY <2>2, StartCounts DEF Inv
  <2>4. /\ r * m \in Nat /\ r * n \in Nat /\ r * m <= r * n
        /\ r * (m + 1) = r * m + r /\ r * (n + 1) = r * n + r
    BY <1>3, Allowances
  <2>5. AllowancesHeld'
    BY <1>1, <1>2, <1>3, <2>1, <2>3, <2>4 DEF AllowancesHeld
  <2>6. spent + r * (m + 1) < block.ceiling + r
    BY <1>3, <1>5, <2>4
  <2>7. Covered'
    BY <1>1, <2>3, <2>6 DEF Covered
  <2>8. reserved' \in Nat /\ inFlight' \in Int
    <3> HIDE DEF r, m, n
    <3>1. reserved \in Nat /\ inFlight \in Nat
      BY <1>3, <2>4
    <3> QED
      BY <1>3, <2>1, <3>1
  <2> QED
    BY <1>1, <2>1, <2>5, <2>7, <2>8, StartStep
<1>6. CASE ~(spent >= block.ceiling) /\ ~(spent + reserved < block.ceiling) /\ inFlight = 0
  <2> HIDE DEF r, n
  <2>1. n = 0
    BY <1>3, <1>6
  <2>2. reserved = r * 0 /\ r * 0 = 0
    BY <1>3, <2>1, Allowances
  <2>3. FALSE
    BY <1>3, <1>6, <2>2
  <2> QED
    BY <2>3
<1>7. CASE ~(spent >= block.ceiling) /\ ~(spent + reserved < block.ceiling) /\ inFlight # 0
  <2>1. parent' = "sleeping" /\ UNCHANGED <<next, slots, unit, reserved, inFlight>>
    BY <1>7 DEF AdmitCell
  <2>2. Typed' /\ InOrder'
    BY <1>1, <2>1 DEF Inv, Typed, InOrder, Asking
  <2>3. SlotsHeld'
    BY <1>1, <2>1 DEF Inv, SlotsHeld, Asking, Holding
  <2>4. AllowancesHeld' /\ Covered'
    BY <1>1, <2>1 DEF Inv, AllowancesHeld, Covered, Metered, Cheap, Unsettled, Running
  <2>5. Reports'
    BY <1>1, <2>1 DEF Inv, Reports, Blamed
  <2>6. StopsForAReason' /\ WorstBranchCounts'
    BY <2>1 DEF StopsForAReason, WorstBranchCounts, Blamed
  <2> QED
    BY <2>2, <2>3, <2>4, <2>5, <2>6 DEF Inv
<1> QED
  BY <1>4, <1>5, <1>6, <1>7

\* stopAdmitting: the deadline is asked first.
LEMMA AdmitAnyCellStep ==
    ASSUME Inv, AdmitAnyCell
    PROVE  Inv'
<1>1. /\ parent = "admitting" /\ block.kind = "across" /\ (late \/ ~Metered)
      /\ UNCHANGED <<block, result, cut, winner, cancelled, late, spent, reserved, inFlight, outcome>>
  BY DEF AdmitAnyCell
<1>2. CASE late
  <2>1. Stop
    BY <1>2 DEF AdmitAnyCell
  <2> QED
    BY <1>1, <1>2, <2>1, StopStep
<1>3. CASE ~late
  <2>1. Start
    BY <1>3 DEF AdmitAnyCell
  <2>2. ~Metered /\ ~Metered'
    BY <1>1, <1>3 DEF Metered
  <2>3. AllowancesHeld' /\ Covered'
    BY <1>1, <2>2 DEF Inv, AllowancesHeld, Covered
  <2>4. reserved' \in Nat /\ inFlight' \in Int
    BY <1>1 DEF Inv, Typed
  <2> QED
    BY <1>1, <2>1, <2>3, <2>4, StartStep
<1> QED
  BY <1>2, <1>3

\* The loop ends.
LEMMA AllStartedStep ==
    ASSUME Inv, AllStarted
    PROVE  Inv'
<1>1. /\ parent = "acquiring" /\ next = N + 1 /\ parent' = "waiting"
      /\ UNCHANGED <<block, next, slots, unit, result, cut, winner, cancelled, late, spent, reserved,
                     inFlight, outcome>>
  BY DEF AllStarted
<1>2. Typed' /\ InOrder'
  BY <1>1 DEF Inv, Typed, InOrder, Asking
<1>3. SlotsHeld'
  BY <1>1 DEF Inv, SlotsHeld, Asking, Holding
<1>4. AllowancesHeld' /\ Covered'
  BY <1>1 DEF Inv, AllowancesHeld, Covered, Metered, Cheap, Unsettled, Running
<1>5. Reports'
  BY <1>1 DEF Inv, Reports, Blamed
<1>6. StopsForAReason' /\ WorstBranchCounts'
  BY <1>1, Constants DEF StopsForAReason, WorstBranchCounts, Blamed
<1> QED
  BY <1>2, <1>3, <1>4, <1>5, <1>6 DEF Inv

\* joinWorst of the units' classes: none only of none, and a failure only when
\* nothing errored.
LEMMA Joined ==
    ASSUME NEW class, class \in [Units -> Outcomes],
           NEW worst, worst = JoinWorst({class[i] : i \in Units} \ {"none"})
    PROVE  /\ worst \in Outcomes
           /\ worst = "none" <=> \A i \in Units : class[i] = "none"
           /\ worst = "failed" => \A i \in Units : class[i] # "errored"
<1> DEFINE S == {class[i] : i \in Units} \ {"none"}
<1>1. S = {} <=> \A i \in Units : class[i] = "none"
  OBVIOUS
<1>2. "errored" \in S <=> \E i \in Units : class[i] = "errored"
  OBVIOUS
<1>3. worst = IF S = {} THEN "none" ELSE IF "errored" \in S THEN "errored" ELSE "failed"
  BY DEF JoinWorst
<1> QED
  BY <1>1, <1>2, <1>3 DEF Outcomes

\* combineBranchErrors.  Every unit of a race was started, so one without an
\* error won it.
LEMMA ReturnStep ==
    ASSUME Inv, Return
    PROVE  Inv'
<1> DEFINE class == [i \in Units |-> Class(i)]
           worst == JoinWorst({class[i] : i \in Units} \ {"none"})
<1>1. /\ parent = "waiting" /\ parent' = "returned"
      /\ \A i \in Units : unit[i] \in {"new", "finished"}
      /\ UNCHANGED <<block, next, slots, unit, result, cut, winner, cancelled, late, spent, reserved,
                     inFlight>>
  BY DEF Return
<1>2. outcome' = IF block.kind = "race" /\ winner # NoUnit THEN "none" ELSE worst
  BY DEF Return
<1>3. class \in [Units -> Outcomes]
  BY DEF Inv, Typed, Errors, Outcomes, Class
<1>4. /\ worst \in Outcomes
      /\ worst = "none" <=> \A i \in Units : class[i] = "none"
      /\ worst = "failed" => \A i \in Units : class[i] # "errored"
  <2> HIDE DEF class
  <2> QED
    BY <1>3, Joined
<1>5. /\ worst = "none" <=> \A i \in Units : result[i] = "none"
      /\ worst = "failed" => \A i \in Units : result[i] \in {"none", "failed"}
  <2>1. \A i \in Units : /\ class[i] = "none" <=> result[i] = "none"
                         /\ class[i] # "errored" => result[i] \in {"none", "failed"}
    BY DEF Inv, Typed, Errors, Outcomes, Class
  <2> HIDE DEF class, worst
  <2> QED
    BY <1>4, <2>1
<1>6. block.kind = "race" => (winner # NoUnit <=> \E i \in Units : result[i] = "none")
  <2> SUFFICES ASSUME block.kind = "race"
               PROVE  winner # NoUnit <=> \E i \in Units : result[i] = "none"
    OBVIOUS
  <2>1. \A i \in Units : unit[i] # "new"
    BY <1>1, Constants DEF Inv, Typed, Reports, InOrder, Units
  <2> QED
    BY <1>1, <2>1 DEF Inv, Reports, Blamed
<1>7. Typed' /\ InOrder'
  BY <1>1, <1>2, <1>4 DEF Inv, Typed, InOrder, Outcomes, Asking
<1>8. SlotsHeld'
  BY <1>1 DEF Inv, SlotsHeld, Asking, Holding
<1>9. AllowancesHeld' /\ Covered'
  BY <1>1 DEF Inv, AllowancesHeld, Covered, Metered, Cheap, Unsettled, Running
<1>10. Reports'
  BY <1>1 DEF Inv, Reports, Blamed
<1>11. StopsForAReason'
  BY <1>1 DEF StopsForAReason
<1>12. WorstBranchCounts'
  <2> HIDE DEF worst
  <2>1. /\ outcome' = "none" <=> \/ block.kind = "race" /\ \E i \in Units : result[i] = "none"
                                 \/ \A i \in Units : result[i] = "none"
        /\ outcome' = "failed" => \A i \in Units : result[i] \in {"none", "failed"}
    BY <1>2, <1>5, <1>6
  <2>2. block.kind = "in_parallel" /\ outcome' # "none" => Blamed
    BY <2>1 DEF Inv, Reports, Blamed
  <2>3. Blamed' <=> Blamed
    BY <1>1 DEF Blamed
  <2> QED
    BY <1>1, <2>1, <2>2, <2>3 DEF WorstBranchCounts
<1> QED
  BY <1>7, <1>8, <1>9, <1>10, <1>11, <1>12 DEF Inv

-----------------------------------------------------------------------------
(* A unit.                                                                 *)

\* Its work ends: what it spent is no more than what was covered for it.
LEMMA WorkStep ==
    ASSUME Inv, NEW i \in Units, Work(i)
    PROVE  Inv'
<1> DEFINE r == block.reserve
           m == Cardinality(Running)
<1>1. /\ unit[i] = "running" /\ unit' = [unit EXCEPT ![i] = "reported"]
      /\ UNCHANGED <<block, parent, next, slots, cancelled, late, reserved, inFlight, outcome>>
  BY DEF Work
<1>2. PICK e \in Errors, c \in Costs :
          /\ spent' = spent + c
          /\ LET own == IF Tolerated(i, e) THEN "none" ELSE e
             IN  /\ result' = [result EXCEPT ![i] = own]
                 /\ cut' = (cut \/ IF block.kind = "race" THEN own = "none"
                                   ELSE block.kind = "in_parallel" /\ block.failFast /\ own # "none")
                 /\ winner' = IF block.kind = "race" /\ own = "none" /\ winner = NoUnit THEN i
                              ELSE winner
  BY DEF Work
<1> DEFINE own == IF Tolerated(i, e) THEN "none" ELSE e
<1>3. own \in Errors
  BY DEF Errors, Outcomes
<1>4. /\ result' = [result EXCEPT ![i] = own]
      /\ cut' = (cut \/ IF block.kind = "race" THEN own = "none"
                        ELSE block.kind = "in_parallel" /\ block.failFast /\ own # "none")
      /\ winner' = IF block.kind = "race" /\ own = "none" /\ winner = NoUnit THEN i ELSE winner
  BY <1>2
<1>5. spent' = spent + c /\ c \in Nat
  BY <1>2, Constants
<1> HIDE DEF own
<1>6. /\ Cardinality(Running') = m - 1 /\ Unsettled' = Unsettled /\ Holding' = Holding
  BY <1>1, WorkCounts DEF Inv
<1>7. parent # "returned"
  BY <1>1 DEF Inv, Reports, Blamed
<1>8. Typed'
  BY <1>1, <1>3, <1>4, <1>5, Constants DEF Inv, Typed
<1>9. InOrder'
  BY <1>1 DEF Inv, Typed, InOrder, Asking
<1>10. SlotsHeld'
  BY <1>1, <1>6 DEF Inv, SlotsHeld, Asking
<1>11. AllowancesHeld'
  BY <1>1, <1>6 DEF Inv, AllowancesHeld, Metered
<1>12. Covered'
  <2> SUFFICES ASSUME Metered, Cheap
               PROVE  spent' + r * (m - 1) < block.ceiling + r
    BY <1>1, <1>6 DEF Covered, Metered, Cheap
  <2>1. spent + r * m < block.ceiling + r /\ c <= r
    BY <1>2 DEF Inv, Covered, Cheap
  <2>2. m # 0
    BY <1>1, Counted, FS_EmptySet DEF Running
  <2>3. m \in Nat /\ m - 1 \in Nat /\ r \in Nat /\ spent \in Nat /\ block.ceiling \in Nat
    BY <2>2, Counted, Constants DEF Inv, Typed
  <2>4. m - 1 + 1 = m
    BY <2>3
  <2>5. r * m = r * (m - 1) + r /\ r * (m - 1) \in Nat
    <3> HIDE DEF r, m
    <3>1. r * (m - 1 + 1) = r * (m - 1) + r /\ r * (m - 1) \in Nat
      BY <2>3, Allowances
    <3> QED
      BY <2>4, <3>1
  <2> HIDE DEF r, m
  <2> QED
    BY <1>5, <2>1, <2>3, <2>5
<1>13. Reports'
  <2>1. \A j \in Units : unit'[j] \in {"new", "running"} => result'[j] = "none"
    BY <1>1, <1>4 DEF Inv, Typed, Reports, Blamed
  <2>2. block.kind = "in_parallel" /\ cut' => \E j \in Units : result'[j] # "none"
    <3> SUFFICES ASSUME block.kind = "in_parallel", cut'
                 PROVE  \E j \in Units : result'[j] # "none"
      OBVIOUS
    <3>1. CASE own # "none"
      BY <1>4, <3>1 DEF Inv, Typed
    <3>2. CASE own = "none"
      <4>1. cut
        BY <1>4, <3>2
      <4>2. PICK j \in Units : result[j] # "none"
        BY <4>1 DEF Inv, Reports, Blamed
      <4>3. j # i
        BY <1>1, <4>2 DEF Inv, Reports, Blamed
      <4> QED
        BY <1>4, <4>2, <4>3 DEF Inv, Typed
    <3> QED
      BY <3>1, <3>2
  <2>3. block.kind = "race" => (winner' # NoUnit <=>
            \E j \in Units : unit'[j] \notin {"new", "running"} /\ result'[j] = "none")
    <3> SUFFICES ASSUME block.kind = "race"
                 PROVE  winner' # NoUnit <=>
                            \E j \in Units : unit'[j] \notin {"new", "running"} /\ result'[j] = "none"
      OBVIOUS
    <3>1. winner # NoUnit <=> \E j \in Units : unit[j] \notin {"new", "running"} /\ result[j] = "none"
      BY DEF Inv, Reports, Blamed
    <3>2. i # NoUnit
      BY Constants DEF Units, NoUnit
    <3>3. \A j \in Units : j # i => unit'[j] = unit[j] /\ result'[j] = result[j]
      BY <1>1, <1>4 DEF Inv, Typed
    <3>4. unit'[i] = "reported" /\ result'[i] = own
      BY <1>1, <1>4 DEF Inv, Typed
    <3>5. CASE own = "none"
      BY <1>4, <3>2, <3>4, <3>5
    <3>6. CASE own # "none"
      BY <1>1, <1>4, <3>1, <3>3, <3>4, <3>6
    <3> QED
      BY <3>5, <3>6
  <2>4. block.kind = "in_parallel" /\ (\E j \in Units : result'[j] # "none") => Blamed'
    <3> SUFFICES ASSUME block.kind = "in_parallel", NEW j \in Units, result'[j] # "none"
                 PROVE  Blamed'
      OBVIOUS
    <3>1. result[i] = "none" /\ result'[i] = own
      BY <1>1, <1>4 DEF Inv, Typed, Reports, Blamed
    <3>2. \A k \in Units : result[k] # "none" => result'[k] = result[k]
      BY <1>4, <3>1 DEF Inv, Typed
    <3>3. Blamed => Blamed'
      BY <1>1, <3>2 DEF Blamed
    <3>4. CASE \E k \in Units : result[k] # "none"
      BY <3>3, <3>4 DEF Inv, Reports, Blamed
    <3>5. CASE own # "none" /\ ~\E k \in Units : result[k] # "none"
      <4>1. ~cut
        BY <3>5 DEF Inv, Reports, Blamed
      <4>2. cancelled \/ own = "panicked" \/ i \notin block.tries
        BY <3>5, <4>1 DEF own, Tolerated
      <4> QED
        BY <1>1, <3>1, <3>5, <4>2 DEF Blamed
    <3>6. own # "none" \/ \E k \in Units : result[k] # "none"
      BY <1>4 DEF Inv, Typed
    <3> QED
      BY <3>4, <3>5, <3>6
  <2> QED
    BY <1>1, <1>7, <2>1, <2>2, <2>3, <2>4 DEF Inv, Reports, Blamed
<1>14. StopsForAReason'
  <2> SUFFICES ASSUME parent = "waiting", next <= N
               PROVE  \/ late
                      \/ Metered /\ spent' >= block.ceiling
                      \/ /\ block.kind = "in_parallel"
                         /\ cancelled \/ (cut' /\ \E j \in Units : result'[j] # "none")
    BY <1>1 DEF StopsForAReason, Metered
  <2>1. \/ late
        \/ Metered /\ spent >= block.ceiling
        \/ block.kind = "in_parallel" /\ (cancelled \/ cut)
    BY DEF Inv, StopsForAReason
  <2>2. spent >= block.ceiling => spent' >= block.ceiling
    BY <1>5, Constants DEF Inv, Typed
  <2>3. cut => cut'
    BY <1>4
  <2>4. block.kind = "in_parallel" /\ cut' => \E j \in Units : result'[j] # "none"
    BY <1>1, <1>13 DEF Reports
  <2> QED
    BY <2>1, <2>2, <2>3, <2>4
<1>15. WorstBranchCounts'
  BY <1>1, <1>7 DEF WorstBranchCounts
<1> QED
  BY <1>8, <1>9, <1>10, <1>11, <1>12, <1>13, <1>14, <1>15 DEF Inv

\* blockBudget.settle gives back the allowance the unit was admitted with.
LEMMA SettleStep ==
    ASSUME Inv, NEW i \in Units, Settle(i)
    PROVE  Inv'
<1> DEFINE r == block.reserve
           n == Cardinality(Unsettled)
<1>1. /\ unit[i] = "reported" /\ unit' = [unit EXCEPT ![i] = "settled"]
      /\ parent' = IF parent = "sleeping" THEN "woken" ELSE parent
      /\ UNCHANGED <<block, next, slots, result, cut, winner, cancelled, late, spent, outcome>>
  BY DEF Settle
<1>2. IF Metered THEN reserved' = reserved - r /\ inFlight' = inFlight - 1
      ELSE UNCHANGED <<reserved, inFlight>>
  BY DEF Settle
<1>3. Cardinality(Unsettled') = n - 1 /\ Running' = Running /\ Holding' = Holding
  BY <1>1, SettleCounts DEF Inv
<1>4. Metered' <=> Metered
  BY <1>1 DEF Metered
<1>5. AllowancesHeld' /\ reserved' \in Nat /\ inFlight' \in Int
  <2>1. CASE Metered
    <3>1. n # 0
      BY <1>1, Counted, FS_EmptySet DEF Unsettled
    <3>2. n \in Nat /\ n - 1 \in Nat /\ r \in Nat /\ n - 1 + 1 = n
      BY <3>1, Counted, Constants DEF Inv, Typed
    <3>3. inFlight = n /\ reserved = r * n
      BY <2>1 DEF Inv, AllowancesHeld
    <3>4. r * n = r * (n - 1) + r /\ r * (n - 1) \in Nat
      <4> HIDE DEF r, n
      <4>1. r * (n - 1 + 1) = r * (n - 1) + r /\ r * (n - 1) \in Nat
        BY <3>2, Allowances
      <4> QED
        BY <3>2, <4>1
    <3>5. inFlight' = n - 1 /\ reserved' = r * (n - 1)
      <4> HIDE DEF r, n
      <4> QED
        BY <1>2, <2>1, <3>2, <3>3, <3>4
    <3> QED
      BY <1>1, <1>3, <1>4, <2>1, <3>2, <3>4, <3>5 DEF AllowancesHeld
  <2>2. CASE ~Metered
    BY <1>2, <1>4, <2>2 DEF Inv, Typed, AllowancesHeld
  <2> QED
    BY <2>1, <2>2
<1>6. Typed'
  BY <1>1, <1>5 DEF Inv, Typed
<1>7. InOrder'
  BY <1>1 DEF Inv, Typed, InOrder, Asking
<1>8. SlotsHeld'
  BY <1>1, <1>3 DEF Inv, SlotsHeld, Asking
<1>9. Covered'
  BY <1>1, <1>3 DEF Inv, Covered, Metered, Cheap
<1>10. Reports'
  BY <1>1 DEF Inv, Typed, Reports, Blamed
<1>11. StopsForAReason' /\ WorstBranchCounts'
  BY <1>1, <1>4 DEF Inv, StopsForAReason, WorstBranchCounts, Blamed
<1> QED
  BY <1>5, <1>6, <1>7, <1>8, <1>9, <1>10, <1>11 DEF Inv

\* limiter's release.
LEMMA ReleaseStep ==
    ASSUME Inv, NEW i \in Units, Release(i)
    PROVE  Inv'
<1>1. /\ unit[i] = "settled" /\ unit' = [unit EXCEPT ![i] = "finished"] /\ slots' = slots - 1
      /\ UNCHANGED <<block, parent, next, result, cut, winner, cancelled, late, spent, reserved,
                     inFlight, outcome>>
  BY DEF Release
<1>2. Cardinality(Holding') = Cardinality(Holding) - 1 /\ Running' = Running /\ Unsettled' = Unsettled
  BY <1>1, ReleaseCounts DEF Inv
<1>3. Typed'
  BY <1>1 DEF Inv, Typed
<1>4. InOrder'
  BY <1>1 DEF Inv, Typed, InOrder, Asking
<1>5. SlotsHeld'
  BY <1>1, <1>2, Counted DEF Inv, SlotsHeld, Asking
<1>6. AllowancesHeld' /\ Covered'
  BY <1>1, <1>2 DEF Inv, AllowancesHeld, Covered, Metered, Cheap
<1>7. Reports'
  BY <1>1 DEF Inv, Typed, Reports, Blamed
<1>8. StopsForAReason' /\ WorstBranchCounts'
  BY <1>1 DEF Inv, StopsForAReason, WorstBranchCounts, Blamed, Metered
<1> QED
  BY <1>3, <1>4, <1>5, <1>6, <1>7, <1>8 DEF Inv

-----------------------------------------------------------------------------
(* What happens meanwhile.                                                 *)

\* An abort, or the deadline.
LEMMA MeanwhileStep ==
    ASSUME Inv, Abort \/ Timeout
    PROVE  Inv'
<1>1. /\ cancelled' \in BOOLEAN /\ late' \in BOOLEAN /\ (cancelled => cancelled') /\ (late => late')
      /\ UNCHANGED <<block, parent, next, slots, unit, result, cut, winner, spent, reserved, inFlight,
                     outcome>>
  BY DEF Inv, Typed, Abort, Timeout
<1>2. Typed' /\ InOrder'
  BY <1>1 DEF Inv, Typed, InOrder, Asking
<1>3. SlotsHeld'
  BY <1>1 DEF Inv, SlotsHeld, Asking, Holding
<1>4. AllowancesHeld' /\ Covered'
  BY <1>1 DEF Inv, AllowancesHeld, Covered, Metered, Cheap, Unsettled, Running
<1>5. Reports'
  BY <1>1 DEF Inv, Reports, Blamed
<1>6. StopsForAReason' /\ WorstBranchCounts'
  BY <1>1 DEF Inv, StopsForAReason, WorstBranchCounts, Blamed, Metered
<1> QED
  BY <1>2, <1>3, <1>4, <1>5, <1>6 DEF Inv

\* A step that changes nothing.
LEMMA StutterStep ==
    ASSUME Inv, UNCHANGED vars
    PROVE  Inv'
<1> USE DEF vars
<1>1. Typed' /\ InOrder'
  BY DEF Inv, Typed, InOrder, Asking
<1>2. SlotsHeld'
  BY DEF Inv, SlotsHeld, Asking, Holding
<1>3. AllowancesHeld' /\ Covered'
  BY DEF Inv, AllowancesHeld, Covered, Metered, Cheap, Unsettled, Running
<1>4. Reports'
  BY DEF Inv, Reports, Blamed
<1>5. StopsForAReason' /\ WorstBranchCounts'
  BY DEF Inv, StopsForAReason, WorstBranchCounts, Blamed, Metered
<1> QED
  BY <1>1, <1>2, <1>3, <1>4, <1>5 DEF Inv

\* A block as it starts: nothing is spent, reserved or held.
LEMMA InitInv ==
    ASSUME Init
    PROVE  Inv
<1>1. Typed
  <2>1. 1 \in 1..N + 1
    BY Constants
  <2>2. /\ unit \in [Units -> {"new", "running", "reported", "settled", "finished"}]
        /\ result \in [Units -> Errors]
    BY DEF Init, Errors, Outcomes
  <2>3. winner \in Units \cup {NoUnit} /\ outcome \in Outcomes
    BY DEF Init, Outcomes
  <2>4. cut \in BOOLEAN /\ cancelled \in BOOLEAN /\ late \in BOOLEAN
    BY Zenon DEF Init
  <2>5. next \in 1..N + 1 /\ slots \in Int /\ inFlight \in Int /\ spent \in Nat /\ reserved \in Nat
    BY <2>1 DEF Init
  <2>6. block \in Blocks /\ parent \in {"acquiring", "admitting", "sleeping", "woken", "waiting", "returned"}
    BY DEF Init
  <2> QED
    BY <2>2, <2>3, <2>4, <2>5, <2>6, Zenon DEF Typed
<1>2. InOrder
  BY Constants DEF Init, InOrder, Asking, Units
<1>3. Running = {} /\ Unsettled = {} /\ Holding = {}
  BY DEF Init, Running, Unsettled, Holding
<1>4. Cardinality(Running) = 0 /\ Cardinality(Unsettled) = 0 /\ Cardinality(Holding) = 0
  BY <1>3, FS_EmptySet
<1>5. block.reserve \in Nat /\ block.ceiling \in Nat /\ block.reserve * 0 = 0
  BY Constants, Allowances DEF Init
<1>6. SlotsHeld
  BY <1>4 DEF Init, SlotsHeld, Asking
<1>7. AllowancesHeld
  BY <1>4, <1>5 DEF Init, AllowancesHeld
<1>8. Covered
  BY <1>4, <1>5 DEF Init, Covered, Metered
<1>9. Reports
  BY Constants DEF Init, Reports, Units, NoUnit
<1>10. StopsForAReason /\ WorstBranchCounts
  BY DEF Init, StopsForAReason, WorstBranchCounts
<1> QED
  BY <1>1, <1>2, <1>6, <1>7, <1>8, <1>9, <1>10 DEF Inv

\* The counters agree with the units in every state of a block.
THEOREM Invariance == Spec => []Inv
<1>1. Init => Inv
  BY InitInv
<1>2. Inv /\ [Next]_vars => Inv'
  <2> SUFFICES ASSUME Inv, [Next]_vars
               PROVE  Inv'
    OBVIOUS
  <2>1. CASE Acquire
    BY <2>1, AcquireStep
  <2>2. CASE AdmitBranch
    BY <2>2, AdmitBranchStep
  <2>3. CASE AdmitCell
    BY <2>3, AdmitCellStep
  <2>4. CASE AdmitAnyCell
    BY <2>4, AdmitAnyCellStep
  <2>5. CASE AllStarted
    BY <2>5, AllStartedStep
  <2>6. CASE Return
    BY <2>6, ReturnStep
  <2>7. CASE Abort \/ Timeout
    BY <2>7, MeanwhileStep
  <2>8. ASSUME NEW i \in Units, Unit(i) PROVE Inv'
    <3>1. CASE Work(i)
      BY <3>1, WorkStep
    <3>2. CASE Settle(i)
      BY <3>2, SettleStep
    <3>3. CASE Release(i)
      BY <3>3, ReleaseStep
    <3> QED
      BY <2>8, <3>1, <3>2, <3>3 DEF Unit
  <2>9. CASE UNCHANGED vars
    BY <2>9, StutterStep
  <2> QED
    BY <2>1, <2>2, <2>3, <2>4, <2>5, <2>6, <2>7, <2>8, <2>9 DEF Next, Parent
<1> QED
  BY <1>1, <1>2, PTL DEF Spec

\* Every variable keeps its type: no slot or unit in flight is counted twice or
\* given back twice, and no allowance comes back that was not taken.
THEOREM TypeCorrect == Spec => []TypeOK
<1>1. Inv => TypeOK
  <2> SUFFICES ASSUME Inv
               PROVE  TypeOK
    OBVIOUS
  <2>1. Cardinality(Holding) <= N
    <3>1. Holding \subseteq Units
      BY DEF Holding
    <3>2. Cardinality(Units) = N
      BY Constants, FS_Interval DEF Units
    <3> QED
      BY <3>1, <3>2, Counted, FS_Subset
  <2>2. parent \in Asking => Cardinality(Holding) + 1 <= N
    <3> SUFFICES ASSUME parent \in Asking
                 PROVE  Cardinality(Holding) + 1 <= N
      OBVIOUS
    <3>1. next \in Units /\ next \notin Holding
      BY Constants DEF Inv, Typed, InOrder, Asking, Units, Holding
    <3>2. Holding \cup {next} \subseteq Units
      BY <3>1 DEF Holding
    <3>3. Cardinality(Holding \cup {next}) = Cardinality(Holding) + 1
      BY <3>1, Counted, FS_AddElement
    <3>4. Cardinality(Units) = N
      BY Constants, FS_Interval DEF Units
    <3> QED
      BY <3>2, <3>3, <3>4, Counted, FS_Subset
  <2>3. slots \in 0..N
    BY <2>1, <2>2, Counted, Constants DEF Inv, SlotsHeld, Asking
  <2>4. inFlight \in 0..N
    BY <2>1, Counted, Constants DEF Inv, AllowancesHeld
  <2> QED
    BY <2>3, <2>4 DEF Inv, Typed, TypeOK
<1> QED
  BY <1>1, Invariance, PTL

\* The promise of budget.go:29-31: while no unit spends more than was reserved
\* for it, a block of any width overshoots its ceiling by less than one unit.
THEOREM BudgetKept == Spec => []BudgetHolds
<1>1. Inv => BudgetHolds
  <2> SUFFICES ASSUME Inv, Metered, Cheap
               PROVE  spent < block.ceiling + block.reserve
    BY DEF BudgetHolds
  <2> DEFINE w == block.reserve * Cardinality(Running)
  <2>1. w \in Nat /\ spent \in Nat /\ block.ceiling \in Nat /\ block.reserve \in Nat
    BY Counted, Constants, Allowances DEF Inv, Typed
  <2>2. spent + w < block.ceiling + block.reserve
    BY DEF Inv, Covered
  <2> HIDE DEF w
  <2> QED
    BY <2>1, <2>2
<1> QED
  BY <1>1, Invariance, PTL

\* stopAdmitting and runBranches leave a unit out only for a reason that still
\* stands when the block waits for the ones it started.
THEOREM StopsOnlyForAReason == Spec => []StopsForAReason
<1>1. Inv => StopsForAReason
  BY DEF Inv
<1> QED
  BY <1>1, Invariance, PTL

\* combineBranchErrors and joinWorst swallow no failure and invent none.
THEOREM WorstCounts == Spec => []WorstBranchCounts
<1>1. Inv => WorstBranchCounts
  BY DEF Inv
<1> QED
  BY <1>1, Invariance, PTL

=============================================================================
