--------------------------- MODULE PlanWalkProofs ---------------------------
(***************************************************************************)
(* A plan of any length, with any routes, retried, crashed and resumed any *)
(* number of times.  The passes on record are one path through the plan;   *)
(* a resume walks it pass by pass, and runs a step only at its end.        *)
(***************************************************************************)
EXTENDS PlanWalk, FiniteSetTheorems, TLAPS

Pass == [index: Steps, visit: Nat, outcome: Keys \cup {NoKey}]

\* Where the plan goes from a pass on record.
After(d) == IF d.outcome \in DOMAIN Route[d.index] THEN Route[d.index][d.outcome] ELSE d.index + 1

\* Where it is after the first k passes of the path p.
PlaceAt(p, k) == IF k = 0 THEN 1 ELSE After(p[k])

\* The pass after m others is where they lead to, and its number is what the
\* count of its step comes to.
Link(p, q, m) ==
    /\ p[m + 1].index = PlaceAt(p, m)
    /\ q[m + 1] = [q[m] EXCEPT ![p[m + 1].index] = @ + 1]
    /\ p[m + 1].visit = q[m + 1][p[m + 1].index]

\* A path p of n passes, with q that counts them step by step.
Steady(n, p, q) ==
    /\ n \in Nat /\ p \in [1..n -> Pass] /\ q \in [0..n -> [Steps -> Nat]]
    /\ \A i \in Steps : q[0][i] = 0
    /\ \A m \in 0..n - 1 : Link(p, q, m)
    /\ \A l \in 0..n : \A m \in l..n : \A i \in Steps : q[l][i] <= q[m][i]

\* The record is the passes of such a path.
Path(n, p, q) == Steady(n, p, q) /\ done = {p[m] : m \in 1..n}

Passing == pc \in {"attempting", "backoff", "observing", "ensuring", "routing"} /\ index # Job
Replaying == Passing /\ disp = "resumed"
Fresh == Passing /\ disp # "resumed"

\* The walk is k passes down the path: between two passes of it, at the pass it
\* replays, or at one that comes after them all.
Along(n, p, q, k) ==
    /\ pc = "between" => passes = q[k] /\ index = PlaceAt(p, k)
    /\ Replaying => /\ k > 0 /\ passes = q[k] /\ index = p[k].index
                    /\ verdict = p[k].outcome /\ err = "none"
    /\ Fresh => /\ k = n /\ index = PlaceAt(p, n)
                /\ passes = [q[n] EXCEPT ![index] = @ + 1]

OnThePath ==
    \E n \in Nat : \E p \in [1..n -> Pass] : \E q \in [0..n -> [Steps -> Nat]] :
        Path(n, p, q) /\ \E k \in 0..n : Along(n, p, q, k)

\* A replayed pass goes straight to its route, and what the cache restored
\* routes nowhere.
Dispositions ==
    /\ pc \in {"attempting", "backoff"} => index # Job
    /\ Replaying => pc = "routing"
    /\ Passing /\ disp = "cacheHit" => index \in Cacheable
    /\ Passing => visits[index] < passes[index]

\* The passes on record that executed step i and were walked in this attempt,
\* the one under way excepted.
Walked(i) ==
    {d \in done : /\ d.index = i /\ d.outcome # NoKey
                  /\ d.visit <= passes[i] /\ (Passing /\ i = index => d.visit < passes[i])}

\* Each of them spent a visit.
VisitsSpent ==
    pc = "between" \/ Passing => \A i \in Steps : Cardinality(Walked(i)) <= visits[i]

Inv == TypeOK /\ IsFiniteSet(done) /\ OnThePath /\ Dispositions /\ VisitsSpent /\ LoopBudget

-----------------------------------------------------------------------------
(* A path.                                                                 *)

\* The constants, as the proofs use them.
LEMMA Constants ==
    /\ N \in Nat \ {0} /\ MaxResumes \in Nat /\ NoKey \notin Keys
    /\ MaxVisits \in [Steps -> Nat]
    /\ \A i \in Steps : /\ DOMAIN Route[i] \subseteq Keys
                        /\ \A k \in DOMAIN Route[i] : Route[i][k] \in 1..Job
    /\ \A i \in Cacheable : DOMAIN Route[i] = {}
BY PlanWalkAssumption

\* A pass leaves the plan somewhere.
LEMMA AfterPlace ==
    ASSUME NEW d \in Pass
    PROVE  After(d) \in 1..Job
BY Constants DEF Pass, After, Steps, Job

\* The pass after m others: where they lead to, with the number its step has come to.
FollowsOn(p, q, m) ==
    /\ p[m + 1] \in Pass /\ p[m + 1].index \in Steps
    /\ p[m + 1].index = PlaceAt(p, m)
    /\ p[m + 1].visit = q[m][p[m + 1].index] + 1
    /\ q[m] \in [Steps -> Nat] /\ q[m + 1] \in [Steps -> Nat]
    /\ q[m + 1] = [q[m] EXCEPT ![p[m + 1].index] = @ + 1]
    /\ q[m + 1][p[m + 1].index] = q[m][p[m + 1].index] + 1 /\ q[m][p[m + 1].index] \in Nat

\* What a path is made of: its passes follow on from each other, the counts
\* grow, and the record has nothing else.
LEMMA PathFacts ==
    ASSUME NEW n \in Nat, NEW p \in [1..n -> Pass], NEW q \in [0..n -> [Steps -> Nat]],
           Path(n, p, q)
    PROVE  /\ \A m \in Nat : m < n => FollowsOn(p, q, m) /\ p[m + 1] \in done
           /\ \A l, m \in Nat : l <= m /\ m <= n => \A i \in Steps :
                 q[l][i] <= q[m][i] /\ q[l][i] \in Nat /\ q[m][i] \in Nat
           /\ \A d \in done : \E m \in Nat : m < n /\ d = p[m + 1]
<1>1. ASSUME NEW m \in Nat, m < n PROVE FollowsOn(p, q, m) /\ p[m + 1] \in done
  <2>1. m \in 0..n - 1 /\ m \in 0..n /\ m + 1 \in 1..n /\ m + 1 \in 0..n
    BY <1>1
  <2>2. /\ p[m + 1].index = PlaceAt(p, m) /\ q[m + 1] = [q[m] EXCEPT ![p[m + 1].index] = @ + 1]
        /\ p[m + 1].visit = q[m + 1][p[m + 1].index]
    BY <2>1, Zenon DEF Path, Steady, Link
  <2>3. p[m + 1] \in done
    BY <2>1 DEF Path, Steady
  <2>4. p[m + 1] \in Pass /\ p[m + 1].index \in Steps
    BY <2>1 DEF Pass
  <2>5. q[m] \in [Steps -> Nat] /\ q[m + 1] \in [Steps -> Nat]
    BY <2>1
  <2>6. /\ p[m + 1].visit = q[m][p[m + 1].index] + 1
        /\ q[m + 1][p[m + 1].index] = q[m][p[m + 1].index] + 1 /\ q[m][p[m + 1].index] \in Nat
    BY <2>2, <2>4, <2>5
  <2> QED
    BY <2>2, <2>3, <2>4, <2>5, <2>6, Zenon DEF FollowsOn
<1>2. ASSUME NEW l \in Nat, NEW m \in Nat, l <= m, m <= n, NEW i \in Steps
      PROVE  q[l][i] <= q[m][i] /\ q[l][i] \in Nat /\ q[m][i] \in Nat
  <2>1. l \in 0..n /\ m \in l..n /\ m \in 0..n
    BY <1>2
  <2>2. q[l][i] <= q[m][i]
    BY <2>1 DEF Path, Steady
  <2>3. q[l] \in [Steps -> Nat] /\ q[m] \in [Steps -> Nat]
    BY <2>1
  <2> QED
    BY <2>2, <2>3
<1>3. ASSUME NEW d \in done PROVE \E m \in Nat : m < n /\ d = p[m + 1]
  <2>1. PICK m \in 1..n : d = p[m]
    BY DEF Path, Steady
  <2>2. m - 1 \in Nat /\ m - 1 < n /\ m - 1 + 1 = m
    BY <2>1
  <2> QED
    BY <2>1, <2>2
<1> QED
  BY <1>1, <1>2, <1>3

\* A pass on record has its place on the path.
LEMMA PassOfPath ==
    ASSUME NEW n \in Nat, NEW p \in [1..n -> Pass], NEW q \in [0..n -> [Steps -> Nat]],
           Path(n, p, q), NEW d \in done
    PROVE  \E m \in Nat : /\ m < n /\ d = p[m + 1] /\ d \in Pass /\ d.index \in Steps
                           /\ d.visit = q[m][d.index] + 1
                           /\ q[m + 1][d.index] = q[m][d.index] + 1 /\ q[m][d.index] \in Nat
<1>1. PICK m \in Nat : m < n /\ d = p[m + 1]
  BY PathFacts, Zenon
<1>2. FollowsOn(p, q, m)
  BY <1>1, PathFacts, Zenon
<1>3. /\ p[m + 1] \in Pass /\ p[m + 1].index \in Steps
      /\ p[m + 1].visit = q[m][p[m + 1].index] + 1
      /\ q[m + 1][p[m + 1].index] = q[m][p[m + 1].index] + 1
      /\ q[m][p[m + 1].index] \in Nat
  BY <1>2, Zenon DEF FollowsOn
<1> QED
  BY <1>1, <1>3

\* The path visits a step for the v-th time once: the pass on record under the
\* first number not yet walked is the next of the path.
LEMMA NextOfPath ==
    ASSUME NEW n \in Nat, NEW p \in [1..n -> Pass], NEW q \in [0..n -> [Steps -> Nat]],
           Path(n, p, q), NEW k \in 0..n, NEW d \in done,
           d.index = PlaceAt(p, k), d.visit = q[k][d.index] + 1
    PROVE  k < n /\ d = p[k + 1]
<1>1. /\ \A m \in Nat : m < n => FollowsOn(p, q, m) /\ p[m + 1] \in done
      /\ \A l, m \in Nat : l <= m /\ m <= n => \A i \in Steps :
            q[l][i] <= q[m][i] /\ q[l][i] \in Nat /\ q[m][i] \in Nat
      /\ \A e \in done : \E m \in Nat : m < n /\ e = p[m + 1]
  BY PathFacts, Zenon
<1>2. PICK m \in Nat : /\ m < n /\ d = p[m + 1] /\ d.index \in Steps
                       /\ d.visit = q[m][d.index] + 1
                       /\ q[m + 1][d.index] = q[m][d.index] + 1 /\ q[m][d.index] \in Nat
  BY PassOfPath, Zenon
<1>3. d.index \in Steps /\ d.visit = q[m][d.index] + 1 /\ q[m + 1][d.index] = q[m][d.index] + 1
  BY <1>2
<1>4. k <= m
  <2> SUFFICES ASSUME m + 1 <= k
               PROVE  FALSE
    BY <1>2
  <2>1. q[m + 1][d.index] <= q[k][d.index] /\ q[m + 1][d.index] \in Nat /\ q[k][d.index] \in Nat
    BY <1>1, <1>2, <1>3
  <2> QED
    BY <1>3, <2>1
<1>5. k \in Nat /\ k < n
  BY <1>2, <1>4
<1>6. m = k
  <2> SUFFICES ASSUME k + 1 <= m
               PROVE  FALSE
    BY <1>2, <1>4, <1>5
  <2>1. q[k + 1][d.index] = q[k][d.index] + 1
    <3>1. FollowsOn(p, q, k)
      BY <1>1, <1>5
    <3>2. p[k + 1].index = PlaceAt(p, k) /\ q[k + 1][p[k + 1].index] = q[k][p[k + 1].index] + 1
      BY <3>1, Zenon DEF FollowsOn
    <3> QED
      BY <3>2
  <2>2. q[k + 1][d.index] <= q[m][d.index] /\ q[k + 1][d.index] \in Nat /\ q[m][d.index] \in Nat
    BY <1>1, <1>2, <1>3, <1>5
  <2> QED
    BY <1>3, <2>1, <2>2
<1> QED
  BY <1>2, <1>5, <1>6

\* No pass on record has a number beyond the count of the whole path, and every
\* number is at least one.
LEMMA PathNumbers ==
    ASSUME NEW n \in Nat, NEW p \in [1..n -> Pass], NEW q \in [0..n -> [Steps -> Nat]],
           Path(n, p, q), NEW d \in done
    PROVE  d \in Pass /\ d.index \in Steps /\ d.visit >= 1 /\ d.visit <= q[n][d.index]
<1>1. /\ \A m \in Nat : m < n => FollowsOn(p, q, m) /\ p[m + 1] \in done
      /\ \A l, m \in Nat : l <= m /\ m <= n => \A i \in Steps :
            q[l][i] <= q[m][i] /\ q[l][i] \in Nat /\ q[m][i] \in Nat
      /\ \A e \in done : \E m \in Nat : m < n /\ e = p[m + 1]
  BY PathFacts, Zenon
<1>2. PICK m \in Nat : /\ m < n /\ d = p[m + 1] /\ d \in Pass /\ d.index \in Steps
                       /\ d.visit = q[m][d.index] + 1
                       /\ q[m + 1][d.index] = q[m][d.index] + 1 /\ q[m][d.index] \in Nat
  BY PassOfPath, Zenon
<1>3. /\ d \in Pass /\ d.index \in Steps /\ d.visit = q[m][d.index] + 1
      /\ q[m + 1][d.index] = q[m][d.index] + 1 /\ q[m][d.index] \in Nat
  BY <1>2
<1>4. q[m + 1][d.index] <= q[n][d.index] /\ q[m + 1][d.index] \in Nat /\ q[n][d.index] \in Nat
  BY <1>1, <1>2, <1>3
<1> QED
  BY <1>3, <1>4

\* There is one pass on record for each step and number.
LEMMA OnePass ==
    ASSUME NEW n \in Nat, NEW p \in [1..n -> Pass], NEW q \in [0..n -> [Steps -> Nat]],
           Path(n, p, q), NEW k \in 0..n, k > 0
    PROVE  \A d \in done : d.index = p[k].index /\ d.visit = q[k][d.index] => d = p[k]
<1> SUFFICES ASSUME NEW d \in done, d.index = p[k].index, d.visit = q[k][d.index]
             PROVE  d = p[k]
  OBVIOUS
<1>1. PICK m \in Nat : k = m + 1 /\ m < n /\ m \in 0..n
  <2>1. k - 1 \in Nat /\ k = k - 1 + 1 /\ k - 1 < n /\ k - 1 \in 0..n
    OBVIOUS
  <2> QED
    BY <2>1
<1>2. FollowsOn(p, q, m)
  BY <1>1, PathFacts, Zenon
<1>3. p[m + 1].index = PlaceAt(p, m) /\ q[m + 1][p[m + 1].index] = q[m][p[m + 1].index] + 1
  BY <1>2, Zenon DEF FollowsOn
<1>4. d.index = PlaceAt(p, m) /\ d.visit = q[m][d.index] + 1
  BY <1>1, <1>3
<1>5. d = p[m + 1]
  BY <1>1, <1>4, NextOfPath, Zenon
<1> QED
  BY <1>1, <1>5

\* The pass d comes after the n of the path, and is put on record.
Continues(n, p, q, d) ==
    /\ Path(n, p, q) /\ d.index = PlaceAt(p, n) /\ d.visit = q[n][d.index] + 1
    /\ done' = done \cup {d}

\* And makes the path that one longer.
Continued(n, q, d, p2, q2) ==
    /\ Path(n + 1, p2, q2)' /\ PlaceAt(p2, n + 1) = After(d)
    /\ q2[n + 1] = [q[n] EXCEPT ![d.index] = @ + 1]

\* A path with one more pass at its end is a path.
LEMMA LongerPath ==
    ASSUME NEW n \in Nat, NEW p \in [1..n -> Pass], NEW q \in [0..n -> [Steps -> Nat]],
           NEW d \in Pass, Continues(n, p, q, d)
    PROVE  \E p2 \in [1..n + 1 -> Pass], q2 \in [0..n + 1 -> [Steps -> Nat]] :
               Continued(n, q, d, p2, q2)
<1>0. /\ Path(n, p, q) /\ d.index = PlaceAt(p, n) /\ d.visit = q[n][d.index] + 1
      /\ done' = done \cup {d}
  BY Zenon DEF Continues
<1> USE <1>0
<1>1. d.index \in Steps /\ q[n] \in [Steps -> Nat] /\ n + 1 \in Nat
  BY DEF Pass
<1>2. PICK c \in [Steps -> Nat] : /\ c = [q[n] EXCEPT ![d.index] = @ + 1] /\ c[d.index] = d.visit
                                  /\ \A i \in Steps : q[n][i] <= c[i]
  <2> DEFINE f == [q[n] EXCEPT ![d.index] = @ + 1]
  <2>1. f \in [Steps -> Nat] /\ f[d.index] = d.visit /\ \A i \in Steps : q[n][i] <= f[i]
    BY <1>1
  <2> QED
    BY <2>1
<1>3. PICK p2 \in [1..n + 1 -> Pass] : (\A m \in 1..n : p2[m] = p[m]) /\ p2[n + 1] = d
  <2> DEFINE f == [m \in 1..n + 1 |-> IF m = n + 1 THEN d ELSE p[m]]
  <2>1. f \in [1..n + 1 -> Pass] /\ (\A m \in 1..n : f[m] = p[m]) /\ f[n + 1] = d
    OBVIOUS
  <2> QED
    BY <2>1
<1>4. PICK q2 \in [0..n + 1 -> [Steps -> Nat]] : (\A m \in 0..n : q2[m] = q[m]) /\ q2[n + 1] = c
  <2> DEFINE f == [m \in 0..n + 1 |-> IF m = n + 1 THEN c ELSE q[m]]
  <2>1. f \in [0..n + 1 -> [Steps -> Nat]] /\ (\A m \in 0..n : f[m] = q[m]) /\ f[n + 1] = c
    OBVIOUS
  <2> QED
    BY <2>1
<1>5. p2[n + 1] = d /\ q2[n + 1] = c
  BY <1>3, <1>4
<1>6. \A m \in 0..n : PlaceAt(p2, m) = PlaceAt(p, m)
  BY <1>3 DEF PlaceAt
<1>7. PlaceAt(p2, n + 1) = After(d)
  BY <1>5 DEF PlaceAt
<1>8. \A i \in Steps : q2[0][i] = 0
  <2>1. q2[0] = q[0]
    BY <1>4
  <2>2. \A i \in Steps : q[0][i] = 0
    BY DEF Path, Steady
  <2> QED
    BY <2>1, <2>2
<1>9. ASSUME NEW m \in 0..(n + 1) - 1
      PROVE  Link(p2, q2, m)
  <2>1. CASE m = n
    <3>1. p2[m + 1] = d /\ q2[m + 1] = c /\ q2[m] = q[n] /\ PlaceAt(p2, m) = PlaceAt(p, n)
      BY <1>4, <1>5, <1>6, <2>1
    <3>2. c = [q[n] EXCEPT ![d.index] = @ + 1]
      BY <1>2
    <3> QED
      BY <1>2, <3>1, <3>2 DEF Link
  <2>2. CASE m # n
    <3>1. m \in 0..n - 1 /\ m \in 0..n /\ m + 1 \in 1..n /\ m + 1 \in 0..n
      BY <2>2
    <3>2. /\ p2[m + 1] = p[m + 1] /\ q2[m + 1] = q[m + 1] /\ q2[m] = q[m]
          /\ PlaceAt(p2, m) = PlaceAt(p, m)
      BY <1>3, <1>4, <1>6, <3>1
    <3>3. Link(p, q, m)
      BY <3>1, Zenon DEF Path, Steady
    <3> QED
      BY <3>2, <3>3 DEF Link
  <2> QED
    BY <2>1, <2>2
<1>10. ASSUME NEW l \in 0..n + 1, NEW m \in l..n + 1, NEW i \in Steps
       PROVE  q2[l][i] <= q2[m][i]
  <2>1. CASE m # n + 1
    <3>1. l \in 0..n /\ m \in l..n /\ m \in 0..n
      BY <2>1
    <3>2. q[l][i] <= q[m][i]
      BY <3>1 DEF Path, Steady
    <3> QED
      BY <1>4, <3>1, <3>2
  <2>2. CASE m = n + 1 /\ l # n + 1
    <3>1. l \in 0..n /\ n \in l..n
      BY <2>2
    <3>2. q[l][i] <= q[n][i] /\ q[n][i] <= c[i]
      BY <1>2, <3>1 DEF Path, Steady
    <3>3. q[l] \in [Steps -> Nat]
      BY <3>1
    <3>4. q[l][i] \in Nat /\ q[n][i] \in Nat /\ c[i] \in Nat
      BY <1>1, <1>2, <3>3
    <3>5. q[l][i] <= c[i]
      BY <3>2, <3>4
    <3> QED
      BY <1>4, <1>5, <2>2, <3>1, <3>5
  <2>3. CASE m = n + 1 /\ l = n + 1
    <3>1. c[i] <= c[i]
      BY <1>2
    <3> QED
      BY <1>5, <2>3, <3>1
  <2> QED
    BY <2>1, <2>2, <2>3
<1>11. done' = {p2[m] : m \in 1..n + 1}
  <2>1. done = {p[m] : m \in 1..n}
    BY DEF Path, Steady
  <2>2. \A m : m \in 1..n + 1 <=> m \in 1..n \/ m = n + 1
    OBVIOUS
  <2> QED
    BY <1>3, <1>5, <2>1, <2>2
<1>12. Path(n + 1, p2, q2)'
  <2>1. n + 1 \in Nat /\ p2 \in [1..n + 1 -> Pass] /\ q2 \in [0..n + 1 -> [Steps -> Nat]]
    BY <1>1, <1>3, <1>4
  <2>2. \A m \in 0..(n + 1) - 1 : Link(p2, q2, m)
    BY <1>9
  <2>3. \A l \in 0..n + 1 : \A m \in l..n + 1 : \A i \in Steps : q2[l][i] <= q2[m][i]
    BY <1>10, Zenon
  <2>4. Steady(n + 1, p2, q2)
    BY <1>8, <2>1, <2>2, <2>3, Zenon DEF Steady
  <2> QED
    BY <1>11, <2>4 DEF Path
<1>13. Continued(n, q, d, p2, q2)
  BY <1>2, <1>5, <1>7, <1>12 DEF Continued
<1> QED
  BY <1>13

-----------------------------------------------------------------------------
(* The kinds of step the walk takes.                                       *)

\* The record does not change.
LEMMA SameRecord ==
    ASSUME Inv, UNCHANGED done
    PROVE  IsFiniteSet(done)' /\ LoopBudget'
<1>1. IsFiniteSet(done)'
  BY DEF Inv
<1>2. LoopBudget'
  BY DEF Inv, LoopBudget
<1> QED
  BY <1>1, <1>2

\* Off the path: the plan is over, or the process is gone.
LEMMA OffStep ==
    ASSUME Inv, TypeOK', UNCHANGED done, ~Passing',
           pc' \notin {"between", "attempting", "backoff"}
    PROVE  Inv'
<1>1. PICK n \in Nat : \E p \in [1..n -> Pass] : \E q \in [0..n -> [Steps -> Nat]] : Path(n, p, q)
  BY Zenon DEF Inv, OnThePath
<1>2. PICK p \in [1..n -> Pass], q \in [0..n -> [Steps -> Nat]] : Path(n, p, q)
  BY <1>1, Zenon
<1>3. Path(n, p, q)'
  BY <1>2 DEF Path
<1>4. Along(n, p, q, 0)'
  BY DEF Along, Fresh, Replaying
<1>5. 0 \in 0..n
  OBVIOUS
<1>6. OnThePath'
  BY <1>3, <1>4, <1>5, Zenon DEF OnThePath
<1>7. Dispositions' /\ VisitsSpent'
  BY DEF Dispositions, VisitsSpent, Replaying
<1> QED
  BY <1>6, <1>7, SameRecord DEF Inv

\* On the spot: the pass under way goes on, or the walk waits.
LEMMA KeepStep ==
    ASSUME Inv, TypeOK', UNCHANGED <<index, visits, passes, disp, done>>,
           pc' = "between" => pc = "between",
           Passing' => Passing,
           pc' \in {"attempting", "backoff"} => pc \in {"attempting", "backoff"},
           Replaying => UNCHANGED <<pc, err, verdict>> \/ ~Passing'
    PROVE  Inv'
<1>1. PICK n \in Nat : \E p \in [1..n -> Pass] : \E q \in [0..n -> [Steps -> Nat]] :
           Path(n, p, q) /\ \E k \in 0..n : Along(n, p, q, k)
  BY Zenon DEF Inv, OnThePath
<1>2. PICK p \in [1..n -> Pass], q \in [0..n -> [Steps -> Nat]], k \in 0..n :
           Path(n, p, q) /\ Along(n, p, q, k)
  BY <1>1, Zenon
<1>3. Path(n, p, q)'
  BY <1>2 DEF Path
<1>4. /\ Replaying' => Replaying /\ UNCHANGED <<pc, err, verdict>>
      /\ Fresh' => Fresh
  BY DEF Replaying, Fresh
<1>5. Along(n, p, q, k)'
  BY <1>2, <1>4 DEF Along
<1>6. OnThePath'
  BY <1>3, <1>5, Zenon DEF OnThePath
<1>7. Dispositions'
  BY <1>4 DEF Inv, Dispositions
<1>8. VisitsSpent'
  <2> SUFFICES ASSUME pc' = "between" \/ Passing', NEW i \in Steps
               PROVE  Cardinality(Walked(i)') <= visits[i]
    BY DEF VisitsSpent
  <2>1. Walked(i)' = Walked(i)
    BY DEF Walked, Passing
  <2>2. pc = "between" \/ Passing
    OBVIOUS
  <2> QED
    BY <2>1, <2>2 DEF Inv, VisitsSpent
<1> QED
  BY <1>6, <1>7, <1>8, SameRecord DEF Inv

\* EndWalk leaves the path for the job's own hooks.
LEMMA EndStep ==
    ASSUME Inv, NEW e \in Errors, EndWalk(e),
           UNCHANGED <<passes, att, cancelled, late, done, resumes, status>>,
           visits' \in [Steps -> Nat], \A i \in Steps : visits'[i] <= passes[i]
    PROVE  Inv'
<1>1. /\ index' = Job /\ pc' \in {"observing", "routing"} /\ err' = e /\ verdict' = NoKey
      /\ disp' = "ran" /\ hookErr' = "none"
  BY DEF EndWalk, AfterWork
<1>2. TypeOK'
  BY <1>1, Constants DEF Inv, TypeOK, Errors, Places, Job
<1>3. ~Passing'
  BY <1>1, Constants DEF Passing, Job
<1> QED
  BY <1>1, <1>2, <1>3, OffStep

\* jobDeadlinePassed and recordChainSucceeded.
LEMMA OverStep ==
    ASSUME Inv, DeadlinePassed \/ PlanDone
    PROVE  Inv'
<1>1. PICK e \in Errors : EndWalk(e)
  BY DEF DeadlinePassed, PlanDone, Errors
<1>2. UNCHANGED <<visits, passes, att, cancelled, late, done, resumes, status>>
  BY DEF DeadlinePassed, PlanDone
<1>3. visits' \in [Steps -> Nat] /\ \A i \in Steps : visits'[i] <= passes[i]
  BY <1>2 DEF Inv, TypeOK
<1> QED
  BY <1>1, <1>2, <1>3, EndStep

\* retryWithTimeout and the hooks: the pass stays where it is.
LEMMA WorkStep ==
    ASSUME Inv, Attempt \/ Backoff \/ RunMatchedHook \/ RunEnsure
    PROVE  Inv'
<1>1. /\ pc \in {"attempting", "backoff", "observing", "ensuring"}
      /\ pc' \in {"attempting", "backoff", "observing", "ensuring", "routing"}
      /\ pc' \in {"attempting", "backoff"} => pc \in {"attempting", "backoff"}
      /\ UNCHANGED <<index, visits, passes, disp, cancelled, late, done, resumes, status>>
  BY DEF Attempt, Backoff, RunMatchedHook, RunEnsure, AfterWork
<1>2. err' \in Errors /\ hookErr' \in Errors /\ att' \in Nat
  BY DEF Attempt, Backoff, RunMatchedHook, RunEnsure, Inv, TypeOK, Errors
<1>3. verdict' \in Keys \cup {NoKey}
  <2>1. CASE Attempt
    <3>1. index \in Steps
      BY <2>1, Constants DEF Attempt, Inv, TypeOK, Dispositions, Steps, Job
    <3>2. Verdicts[index] \subseteq Keys
      BY <3>1 DEF Keys
    <3>3. UNCHANGED verdict \/ verdict' \in Verdicts[index]
      BY <2>1 DEF Attempt
    <3> QED
      BY <3>2, <3>3 DEF Inv, TypeOK
  <2>2. CASE Backoff \/ RunMatchedHook \/ RunEnsure
    BY <2>2 DEF Backoff, RunMatchedHook, RunEnsure, Inv, TypeOK
  <2> QED
    BY <2>1, <2>2
<1>4. TypeOK'
  BY <1>1, <1>2, <1>3 DEF Inv, TypeOK, Places
<1>5. Passing' => Passing
  BY <1>1 DEF Passing
<1>6. ~Replaying
  BY <1>1 DEF Inv, Dispositions
<1> QED
  BY <1>1, <1>4, <1>5, <1>6, KeepStep

\* RunJob's end, and a crash.
LEMMA GoneStep ==
    ASSUME Inv, FinishRun \/ Crash
    PROVE  Inv'
<1>1. /\ pc' \in {"ended", "dead"} /\ status' \in {"running", "succeeded", "failed", "aborted"}
      /\ UNCHANGED <<index, visits, passes, att, err, verdict, disp, hookErr, cancelled, late, done,
                     resumes>>
  BY DEF FinishRun, Crash, Inv, TypeOK
<1>2. TypeOK'
  BY <1>1 DEF Inv, TypeOK, Places
<1>3. ~Passing'
  BY <1>1 DEF Passing
<1> QED
  BY <1>1, <1>2, <1>3, OffStep

\* An abort, a shutdown, the deadline; or nothing.
LEMMA MeanwhileStep ==
    ASSUME Inv, Timeout \/ (\E why \in Events : Cancel(why)) \/ UNCHANGED vars
    PROVE  Inv'
<1>1. /\ UNCHANGED <<pc, index, visits, passes, att, err, verdict, disp, hookErr, done, resumes,
                     status>>
      /\ cancelled' \in {"no", "abort", "shutdown"} /\ late' \in BOOLEAN
  BY DEF Timeout, Cancel, vars, Inv, TypeOK
<1>2. TypeOK'
  BY <1>1 DEF Inv, TypeOK
<1>3. Passing' => Passing
  BY <1>1 DEF Passing
<1> QED
  BY <1>1, <1>2, <1>3, KeepStep

\* A resume starts again at the head of the path, with nothing walked.
LEMMA ResumeStep ==
    ASSUME Inv, Resume
    PROVE  Inv'
<1>1. /\ pc' = "between" /\ index' = 1 /\ resumes' = resumes + 1 /\ resumes < MaxResumes
      /\ visits' = [i \in Steps |-> 0] /\ passes' = [i \in Steps |-> 0] /\ att' = 0
      /\ err' = "none" /\ verdict' = NoKey /\ disp' = "ran" /\ hookErr' = "none"
      /\ cancelled' = "no" /\ late' = FALSE /\ status' = "running" /\ UNCHANGED done
  BY DEF Resume
<1>2. TypeOK'
  <2>1. /\ visits' \in [Steps -> Nat] /\ passes' \in [Steps -> Nat]
        /\ \A i \in Steps : visits'[i] <= passes'[i]
    BY <1>1
  <2>2. index' \in 1..Job /\ resumes' \in 0..MaxResumes
    BY <1>1, Constants DEF Inv, TypeOK, Job
  <2>3. late' \in BOOLEAN
    BY <1>1, Zenon
  <2> QED
    BY <1>1, <2>1, <2>2, <2>3 DEF Inv, TypeOK, Places, Errors
<1>3. PICK n \in Nat : \E p \in [1..n -> Pass] : \E q \in [0..n -> [Steps -> Nat]] : Path(n, p, q)
  BY Zenon DEF Inv, OnThePath
<1>4. PICK p \in [1..n -> Pass], q \in [0..n -> [Steps -> Nat]] : Path(n, p, q)
  BY <1>3, Zenon
<1>5. ~Passing'
  BY <1>1 DEF Passing
<1>6. passes' = q[0]
  <2>1. q[0] \in [Steps -> Nat] /\ \A i \in Steps : q[0][i] = 0
    BY <1>4 DEF Path, Steady
  <2> QED
    BY <1>1, <2>1
<1>7. Along(n, p, q, 0)'
  BY <1>1, <1>5, <1>6 DEF Along, Fresh, Replaying, PlaceAt
<1>8. Path(n, p, q)'
  BY <1>1, <1>4 DEF Path
<1>9. OnThePath'
  <2>1. 0 \in 0..n
    OBVIOUS
  <2> QED
    BY <1>7, <1>8, <2>1, Zenon DEF OnThePath
<1>10. Dispositions'
  BY <1>1, <1>5 DEF Dispositions, Replaying
<1>11. VisitsSpent'
  <2> SUFFICES ASSUME NEW i \in Steps
               PROVE  Cardinality(Walked(i)') <= visits'[i]
    BY DEF VisitsSpent
  <2>1. ASSUME NEW d \in done PROVE d.visit >= 1 /\ d.visit \in Nat
    <3>1. d \in Pass /\ d.visit >= 1
      BY <1>4, PathNumbers, Zenon
    <3> QED
      BY <3>1 DEF Pass
  <2>2. Walked(i)' = {}
    BY <1>1, <2>1 DEF Walked
  <2> QED
    BY <1>1, <2>2, FS_EmptySet
<1> QED
  BY <1>1, <1>2, <1>9, <1>10, <1>11, SameRecord DEF Inv

-----------------------------------------------------------------------------
(* Down the path.                                                          *)

\* A pass begins: what it will have walked is what was walked before it.
LEMMA PassBegins ==
    ASSUME Inv, pc = "between", index \in Steps, Passing', UNCHANGED <<index, visits, done>>,
           passes' = [passes EXCEPT ![index] = @ + 1]
    PROVE  VisitsSpent' /\ visits'[index'] < passes'[index']
<1>1. passes \in [Steps -> Nat] /\ visits \in [Steps -> Nat] /\ visits[index] <= passes[index]
  BY DEF Inv, TypeOK
<1>2. passes'[index] = passes[index] + 1 /\ \A i \in Steps : i # index => passes'[i] = passes[i]
  BY <1>1
<1>3. ~Passing
  BY DEF Passing
<1>4. ASSUME NEW i \in Steps PROVE Walked(i)' = Walked(i)
  <2>1. \A d \in done : d.visit \in Nat
    BY DEF Inv, TypeOK
  <2>2. CASE i = index
    <3>1. \A d \in done : d.visit <= passes[i] <=> d.visit <= passes'[i] /\ d.visit < passes'[i]
      BY <1>1, <1>2, <2>1, <2>2
    <3> QED
      BY <1>3, <2>2, <3>1 DEF Walked
  <2>3. CASE i # index
    BY <1>2, <1>3, <2>3 DEF Walked
  <2> QED
    BY <2>2, <2>3
<1>5. VisitsSpent'
  BY <1>4 DEF Inv, VisitsSpent
<1>6. visits'[index'] < passes'[index']
  BY <1>1, <1>2
<1> QED
  BY <1>5, <1>6

\* skipCompleted replays the next pass of the path, and no other.
LEMMA ReplayStep ==
    ASSUME Inv, Replay
    PROVE  Inv'
<1>1. /\ pc = "between" /\ index # Job /\ disp' = "resumed" /\ err' = "none" /\ pc' = "routing"
      /\ passes' = [passes EXCEPT ![index] = @ + 1]
      /\ UNCHANGED <<index, visits, att, hookErr, cancelled, late, done, resumes, status>>
  BY DEF Replay
<1>2. PICK d \in done : d.index = index /\ d.visit = passes[index] + 1 /\ verdict' = d.outcome
  BY DEF Replay, Recorded
<1>3. index \in Steps
  BY <1>1, Constants DEF Inv, TypeOK, Steps, Job
<1>4. Passing' /\ Replaying' /\ ~Fresh'
  BY <1>1 DEF Passing, Replaying, Fresh, Job
<1>5. VisitsSpent' /\ visits'[index'] < passes'[index']
  BY <1>1, <1>3, <1>4, PassBegins
<1>6. TypeOK'
  <2>1. passes' \in [Steps -> Nat] /\ \A i \in Steps : visits'[i] <= passes'[i]
    BY <1>1, <1>3 DEF Inv, TypeOK
  <2>2. verdict' \in Keys \cup {NoKey}
    BY <1>2 DEF Inv, TypeOK
  <2> QED
    BY <1>1, <2>1, <2>2 DEF Inv, TypeOK, Places, Errors
<1>7. OnThePath'
  <2>1. PICK n \in Nat : \E p \in [1..n -> Pass] : \E q \in [0..n -> [Steps -> Nat]] :
             Path(n, p, q) /\ \E k \in 0..n : Along(n, p, q, k)
    BY Zenon DEF Inv, OnThePath
  <2>2. PICK p \in [1..n -> Pass], q \in [0..n -> [Steps -> Nat]], k \in 0..n :
             Path(n, p, q) /\ Along(n, p, q, k)
    BY <2>1, Zenon
  <2>3. passes = q[k] /\ index = PlaceAt(p, k)
    BY <1>1, <2>2 DEF Along
  <2>4. d.index = PlaceAt(p, k) /\ d.visit = q[k][d.index] + 1
    BY <1>2, <2>3
  <2>5. k < n /\ d = p[k + 1]
    BY <2>2, <2>4, NextOfPath, Zenon
  <2>6. k \in Nat /\ k + 1 \in 0..n /\ k + 1 > 0
    BY <2>5
  <2>7. FollowsOn(p, q, k)
    BY <2>2, <2>5, <2>6, PathFacts, Zenon
  <2>8. q[k + 1] = [q[k] EXCEPT ![p[k + 1].index] = @ + 1]
    BY <2>7, Zenon DEF FollowsOn
  <2>9. passes' = q[k + 1]
    BY <1>1, <1>2, <2>3, <2>5, <2>8
  <2>10. Along(n, p, q, k + 1)'
    BY <1>1, <1>2, <1>4, <2>5, <2>6, <2>9 DEF Along
  <2>11. Path(n, p, q)'
    BY <1>1, <2>2 DEF Path
  <2> QED
    BY <2>6, <2>10, <2>11, Zenon DEF OnThePath
<1>8. Dispositions'
  BY <1>1, <1>5 DEF Dispositions
<1> QED
  BY <1>1, <1>5, <1>6, <1>7, <1>8, SameRecord DEF Inv

\* A step runs afresh only at the end of the path.
LEMMA StartStepStep ==
    ASSUME Inv, StartStep
    PROVE  Inv'
<1>1. /\ pc = "between" /\ index # Job /\ Recorded(index, passes[index] + 1) = {}
      /\ passes' = [passes EXCEPT ![index] = @ + 1]
      /\ att' = 1 /\ verdict' = NoKey /\ hookErr' = "none"
      /\ UNCHANGED <<index, visits, cancelled, late, done, resumes, status>>
  BY DEF StartStep
<1>2. /\ err' \in {"none", "errored"} /\ pc' \in {"attempting", "observing", "routing"}
      /\ disp' \in {"ran", "guardSkipped", "cacheHit"}
      /\ disp' = "cacheHit" => index \in Cacheable
  BY DEF StartStep, AfterWork
<1>3. index \in Steps
  BY <1>1, Constants DEF Inv, TypeOK, Steps, Job
<1>4. Passing' /\ ~Replaying' /\ Fresh'
  BY <1>1, <1>2 DEF Passing, Replaying, Fresh, Job
<1>5. VisitsSpent' /\ visits'[index'] < passes'[index']
  BY <1>1, <1>3, <1>4, PassBegins
<1>6. TypeOK'
  <2>1. passes' \in [Steps -> Nat] /\ \A i \in Steps : visits'[i] <= passes'[i]
    BY <1>1, <1>3 DEF Inv, TypeOK
  <2> QED
    BY <1>1, <1>2, <2>1 DEF Inv, TypeOK, Places, Errors
<1>7. OnThePath'
  <2>1. PICK n \in Nat : \E p \in [1..n -> Pass] : \E q \in [0..n -> [Steps -> Nat]] :
             Path(n, p, q) /\ \E k \in 0..n : Along(n, p, q, k)
    BY Zenon DEF Inv, OnThePath
  <2>2. PICK p \in [1..n -> Pass], q \in [0..n -> [Steps -> Nat]], k \in 0..n :
             Path(n, p, q) /\ Along(n, p, q, k)
    BY <2>1, Zenon
  <2>3. passes = q[k] /\ index = PlaceAt(p, k)
    BY <1>1, <2>2 DEF Along
  <2>4. k = n
    <3> SUFFICES ASSUME k < n
                 PROVE  FALSE
      OBVIOUS
    <3>1. k \in Nat
      OBVIOUS
    <3>2. FollowsOn(p, q, k) /\ p[k + 1] \in done
      BY <2>2, <3>1, PathFacts, Zenon
    <3>3. p[k + 1].index = index /\ p[k + 1].visit = q[k][p[k + 1].index] + 1
      BY <2>3, <3>2, Zenon DEF FollowsOn
    <3>4. p[k + 1].visit = passes[index] + 1
      BY <2>3, <3>3
    <3> QED
      BY <1>1, <3>2, <3>3, <3>4 DEF Recorded
  <2>5. Along(n, p, q, n)'
    BY <1>1, <1>2, <1>4, <2>3, <2>4 DEF Along
  <2>6. Path(n, p, q)'
    BY <1>1, <2>2 DEF Path
  <2>7. n \in 0..n
    OBVIOUS
  <2> QED
    BY <2>5, <2>6, <2>7, Zenon DEF OnThePath
<1>8. Dispositions'
  BY <1>1, <1>2, <1>4, <1>5 DEF Dispositions
<1> QED
  BY <1>1, <1>5, <1>6, <1>7, <1>8, SameRecord DEF Inv

\* One more element is at most one more to count.
LEMMA OneMore ==
    ASSUME NEW S, IsFiniteSet(S), NEW x, NEW T, T \subseteq S \cup {x}
    PROVE  Cardinality(T) <= Cardinality(S) + 1 /\ Cardinality(T) \in Nat
<1>1. IsFiniteSet(S \cup {x}) /\ Cardinality(S \cup {x}) <= Cardinality(S) + 1
  <2>1. /\ IsFiniteSet(S \cup {x})
        /\ Cardinality(S \cup {x}) = IF x \in S THEN Cardinality(S) ELSE Cardinality(S) + 1
    BY FS_AddElement
  <2>2. Cardinality(S) \in Nat
    BY FS_CardinalityType
  <2> QED
    BY <2>1, <2>2
<1>2. IsFiniteSet(T) /\ Cardinality(T) <= Cardinality(S \cup {x})
  BY <1>1, FS_Subset
<1> QED
  BY <1>1, <1>2, FS_CardinalityType

\* The visit a pass spends is within the passes.
LEMMA VisitsTyped ==
    ASSUME Inv, pc = "routing", index \in Steps,
           NEW v, v = IF SpendsVisit THEN visits[index] + 1 ELSE visits[index],
           visits' = [visits EXCEPT ![index] = v]
    PROVE  /\ visits' \in [Steps -> Nat] /\ visits'[index] = v /\ v \in Nat
           /\ \A i \in Steps : visits'[i] <= passes[i]
           /\ \A i \in Steps : i # index => visits'[i] = visits[i]
<1>1. Passing
  BY Constants DEF Passing, Steps, Job
<1>2. visits \in [Steps -> Nat] /\ passes \in [Steps -> Nat] /\ visits[index] < passes[index]
  BY <1>1 DEF Inv, TypeOK, Dispositions
<1>3. v \in Nat /\ v <= passes[index]
  BY <1>2
<1>4. visits' \in [Steps -> Nat] /\ visits'[index] = v
  BY <1>2, <1>3
<1>5. \A i \in Steps : i # index => visits'[i] = visits[i]
  BY <1>2
<1>6. \A i \in Steps : visits[i] <= passes[i]
  BY DEF Inv, TypeOK
<1>7. \A i \in Steps : visits'[i] <= passes[i]
  BY <1>3, <1>4, <1>5, <1>6
<1> QED
  BY <1>3, <1>4, <1>5, <1>7

\* A replayed pass leads where it led when it was made, and spends the visit it
\* spent then.
LEMMA ReplayedRoutes ==
    ASSUME Inv, pc = "routing", index \in Steps, disp = "resumed",
           NEW v, v = IF SpendsVisit THEN visits[index] + 1 ELSE visits[index],
           visits' = [visits EXCEPT ![index] = v], UNCHANGED <<passes, done>>,
           index' = IF Routes THEN Route[index][OutcomeKey] ELSE index + 1,
           pc' = "between"
    PROVE  OnThePath' /\ VisitsSpent' /\ index' \in 1..Job
<1>1. Passing /\ Replaying /\ ~Passing'
  BY Constants DEF Passing, Replaying, Steps, Job
<1>2. PICK n \in Nat : \E p \in [1..n -> Pass] : \E q \in [0..n -> [Steps -> Nat]] :
           Path(n, p, q) /\ \E k \in 0..n : Along(n, p, q, k)
  BY Zenon DEF Inv, OnThePath
<1>3. PICK p \in [1..n -> Pass], q \in [0..n -> [Steps -> Nat]], k \in 0..n :
           Path(n, p, q) /\ Along(n, p, q, k)
  BY <1>2, Zenon
<1>4. k > 0 /\ passes = q[k] /\ index = p[k].index /\ verdict = p[k].outcome
  BY <1>1, <1>3 DEF Along
<1>5. p[k] \in Pass
  BY <1>4
<1>6. index' = After(p[k])
  <2>1. verdict = NoKey => index' = index + 1 /\ NoKey \notin DOMAIN Route[index]
    BY Constants DEF Routes
  <2>2. verdict # NoKey => (Routes <=> verdict \in DOMAIN Route[index]) /\ OutcomeKey = verdict
    BY DEF Routes, OutcomeKey
  <2> QED
    BY <1>4, <2>1, <2>2 DEF After
<1>7. index' = PlaceAt(p, k)
  BY <1>4, <1>6 DEF PlaceAt
<1>8. index' \in 1..Job
  BY <1>5, <1>6, AfterPlace
<1>9. Along(n, p, q, k)'
  BY <1>1, <1>4, <1>7 DEF Along, Fresh, Replaying
<1>10. Path(n, p, q)'
  BY <1>3 DEF Path
<1>11. OnThePath'
  BY <1>9, <1>10, Zenon DEF OnThePath
<1>12. ASSUME NEW i \in Steps PROVE Cardinality(Walked(i)') <= visits'[i]
  <2>1. Cardinality(Walked(i)) <= visits[i]
    BY <1>1 DEF Inv, VisitsSpent
  <2>2. CASE i # index
    <3>1. Walked(i)' = Walked(i)
      BY <1>1, <2>2 DEF Walked
    <3>2. visits'[i] = visits[i]
      BY <2>2 DEF Inv, TypeOK
    <3> QED
      BY <2>1, <3>1, <3>2
  <2>3. CASE i = index
    <3>1. ASSUME NEW d \in done, d.index = index, d.visit = passes[index] PROVE d = p[k]
      <4>1. d.index = p[k].index /\ d.visit = q[k][d.index]
        BY <1>4, <3>1
      <4>2. \A e \in done : e.index = p[k].index /\ e.visit = q[k][e.index] => e = p[k]
        <5>1. Path(n, p, q)
          BY <1>3
        <5>2. k > 0
          BY <1>4
        <5> QED
          BY <5>1, <5>2, OnePass, ZenonT(60)
      <4> QED
        BY <4>1, <4>2
    <3>2. \A d \in done : d.visit \in Nat
      BY DEF Inv, TypeOK
    <3>3. passes[index] \in Nat /\ visits[index] \in Nat /\ visits'[index] = v
      BY DEF Inv, TypeOK
    <3>4. \A d \in done :
              d.visit <= passes[index] <=> d.visit < passes[index] \/ d.visit = passes[index]
      BY <3>2, <3>3
    <3>5. IsFiniteSet(Walked(i))
      BY FS_Subset DEF Inv, Walked
    <3>6. CASE verdict = NoKey
      <4>1. Walked(i)' = Walked(i)
        BY <1>1, <1>4, <2>3, <3>1, <3>4, <3>6 DEF Walked
      <4>2. v = visits[index]
        BY <3>6 DEF SpendsVisit
      <4> QED
        BY <2>1, <2>3, <3>3, <4>1, <4>2
    <3>7. CASE verdict # NoKey
      <4>1. Walked(i)' \subseteq Walked(i) \cup {p[k]}
        BY <1>1, <2>3, <3>1, <3>4 DEF Walked
      <4>2. v = visits[index] + 1
        BY <3>7 DEF SpendsVisit
      <4>3. Cardinality(Walked(i)') <= Cardinality(Walked(i)) + 1 /\ Cardinality(Walked(i)') \in Nat
        BY <3>5, <4>1, OneMore
      <4>4. Cardinality(Walked(i)) \in Nat
        BY <3>5, FS_CardinalityType
      <4>5. \A a, b, c \in Nat : a <= b + 1 /\ b <= c => a <= c + 1
        OBVIOUS
      <4>6. Cardinality(Walked(i)') <= visits[index] + 1
        BY <2>1, <2>3, <3>3, <4>3, <4>4, <4>5
      <4> QED
        BY <2>3, <3>3, <4>2, <4>6
    <3> QED
      BY <3>6, <3>7
  <2> QED
    BY <2>2, <2>3
<1>13. VisitsSpent'
  BY <1>12 DEF VisitsSpent
<1> QED
  BY <1>8, <1>11, <1>13

\* A new pass goes on record at the end of the path, with the outcome that leads
\* a replay where it leads now; and it routes back only within its visits.
LEMMA FreshRoutes ==
    ASSUME Inv, pc = "routing", index \in Steps, disp # "resumed",
           NEW v, v = IF SpendsVisit THEN visits[index] + 1 ELSE visits[index],
           visits' = [visits EXCEPT ![index] = v], UNCHANGED passes, ~(Routes /\ Exhausted(v)),
           done' = done \cup
               {[index |-> index, visit |-> passes[index], outcome |-> RecordableOutcome]},
           index' = IF Routes THEN Route[index][OutcomeKey] ELSE index + 1,
           pc' = "between"
    PROVE  /\ OnThePath' /\ VisitsSpent' /\ LoopBudget' /\ IsFiniteSet(done)' /\ index' \in 1..Job
           /\ done' \subseteq Pass
<1> DEFINE out == RecordableOutcome
           new == [index |-> index, visit |-> passes[index], outcome |-> out]
<1>1. Passing /\ Fresh /\ ~Passing'
  BY Constants DEF Passing, Fresh, Steps, Job
<1>2. passes \in [Steps -> Nat] /\ visits \in [Steps -> Nat] /\ done \subseteq Pass
  BY DEF Inv, TypeOK, Pass
<1>3. out \in Keys \cup {NoKey}
  BY DEF RecordableOutcome, OutcomeKey, Keys, Inv, TypeOK
<1>4. new \in Pass /\ new.index = index /\ new.visit = passes[index] /\ new.outcome = out
  BY <1>2, <1>3 DEF Pass
<1>5. done' = done \cup {new}
  OBVIOUS
<1>6. /\ out # NoKey => SpendsVisit
      /\ out \in DOMAIN Route[index] => Routes /\ OutcomeKey = out
      /\ Routes => OutcomeKey = out /\ out \in DOMAIN Route[index]
  <2>1. disp = "cacheHit" => DOMAIN Route[index] = {}
    BY <1>1, Constants DEF Inv, Dispositions
  <2>2. NoKey \notin DOMAIN Route[index]
    BY Constants
  <2> QED
    BY <2>1, <2>2 DEF RecordableOutcome, SpendsVisit, Routes
<1> HIDE DEF out, new
<1>7. index' = After(new)
  BY <1>4, <1>6 DEF After
<1>8. index' \in 1..Job
  BY <1>4, <1>7, AfterPlace
<1>9. PICK n \in Nat : \E p \in [1..n -> Pass] : \E q \in [0..n -> [Steps -> Nat]] :
           Path(n, p, q) /\ \E k \in 0..n : Along(n, p, q, k)
  BY Zenon DEF Inv, OnThePath
<1>10. PICK p \in [1..n -> Pass], q \in [0..n -> [Steps -> Nat]], k \in 0..n :
           Path(n, p, q) /\ Along(n, p, q, k)
  BY <1>9, Zenon
<1>11. index = PlaceAt(p, n) /\ passes = [q[n] EXCEPT ![index] = @ + 1]
  BY <1>1, <1>10 DEF Along
<1>12. q[n] \in [Steps -> Nat] /\ passes[index] = q[n][index] + 1
  BY <1>11
<1>13. OnThePath'
  <2>1. PICK d \in Pass : d = new
    BY <1>4
  <2>2. PICK p2 \in [1..n + 1 -> Pass], q2 \in [0..n + 1 -> [Steps -> Nat]] :
             Continued(n, q, d, p2, q2)
    <3>1. d.index = PlaceAt(p, n) /\ d.visit = q[n][d.index] + 1
      BY <1>4, <1>11, <1>12, <2>1
    <3>2. Path(n, p, q) /\ done' = done \cup {d}
      BY <1>5, <1>10, <2>1
    <3>3. Continues(n, p, q, d)
      BY <3>1, <3>2, Zenon DEF Continues
    <3> QED
      BY <3>3, LongerPath, Zenon
  <2>3. passes' = q2[n + 1] /\ index' = PlaceAt(p2, n + 1)
    <3>1. PlaceAt(p2, n + 1) = After(d) /\ q2[n + 1] = [q[n] EXCEPT ![d.index] = @ + 1]
      BY <2>2 DEF Continued
    <3> QED
      BY <1>4, <1>7, <1>11, <2>1, <3>1
  <2>4. Along(n + 1, p2, q2, n + 1)'
    BY <1>1, <2>3 DEF Along, Fresh, Replaying
  <2>5. n + 1 \in Nat /\ n + 1 \in 0..n + 1
    OBVIOUS
  <2>6. Path(n + 1, p2, q2)'
    BY <2>2, Zenon DEF Continued
  <2> QED
    BY <2>4, <2>5, <2>6, Zenon DEF OnThePath
<1>14. ASSUME NEW d \in done, d.index = index PROVE d.visit < passes[index] /\ d.visit \in Nat
  <2>1. d \in Pass /\ d.visit <= q[n][d.index]
    BY <1>10, PathNumbers, Zenon
  <2>2. d.visit \in Nat
    BY <2>1 DEF Pass
  <2> QED
    BY <1>12, <1>14, <2>1, <2>2
<1>15. IsFiniteSet(done')
  <2>1. IsFiniteSet(done)
    BY DEF Inv
  <2>2. IsFiniteSet(done \cup {new})
    BY <2>1, FS_AddElement
  <2> QED
    BY <1>5, <2>2
<1>j. PICK j \in Steps : j = index
  OBVIOUS
<1> DEFINE executed == {d \in done' : d.index = j /\ d.outcome # NoKey}
<1>16. executed = Walked(j)' /\ Cardinality(executed) <= v /\ v \in Nat
  <2>1. executed = Walked(j)'
    <3>1. \A d \in done' : d.index = j => d.visit <= passes[j]
      BY <1>2, <1>4, <1>5, <1>14, <1>j
    <3> QED
      BY <1>1, <3>1 DEF Walked
  <2>2. IsFiniteSet(Walked(j)) /\ Cardinality(Walked(j)) <= visits[j]
    BY <1>1, FS_Subset DEF Inv, VisitsSpent, Walked
  <2>3. Cardinality(Walked(j)) \in Nat /\ visits[j] \in Nat /\ v \in Nat
    BY <1>2, <1>j, <2>2, FS_CardinalityType
  <2>4. executed \subseteq Walked(j) \cup {new}
    <3> SUFFICES ASSUME NEW d \in done, d.index = j, d.outcome # NoKey
                 PROVE  d \in Walked(j)
      BY <1>5
    <3>1. d.visit < passes[j] /\ d.visit \in Nat /\ passes[j] \in Nat
      BY <1>2, <1>14, <1>j
    <3> QED
      BY <3>1 DEF Walked
  <2>5. CASE out = NoKey
    <3>1. executed \subseteq Walked(j)
      BY <1>4, <2>4, <2>5
    <3>2. Cardinality(executed) <= Cardinality(Walked(j)) /\ Cardinality(executed) \in Nat
      BY <2>2, <3>1, FS_Subset, FS_CardinalityType
    <3>3. visits[j] <= v
      BY <1>j, <2>3
    <3> QED
      BY <2>1, <2>2, <2>3, <3>2, <3>3
  <2>6. CASE out # NoKey
    <3>1. Cardinality(executed) <= Cardinality(Walked(j)) + 1 /\ Cardinality(executed) \in Nat
      BY <2>2, <2>4, OneMore
    <3>2. v = visits[j] + 1
      BY <1>6, <1>j, <2>6
    <3>3. \A a, b, c \in Nat : a <= b + 1 /\ b <= c => a <= c + 1
      OBVIOUS
    <3>4. Cardinality(executed) <= visits[j] + 1
      BY <2>2, <2>3, <3>1, <3>3
    <3> QED
      BY <2>1, <2>3, <3>2, <3>4
  <2> QED
    BY <2>5, <2>6
<1>17. VisitsSpent'
  <2> SUFFICES ASSUME NEW i \in Steps
               PROVE  Cardinality(Walked(i)') <= visits'[i]
    BY DEF VisitsSpent
  <2>1. CASE i = index
    <3>1. visits'[index] = v
      BY <1>2
    <3> QED
      BY <1>16, <1>j, <2>1, <3>1
  <2>2. CASE i # index
    <3>1. Walked(i)' = Walked(i)
      BY <1>1, <1>4, <1>5, <2>2 DEF Walked
    <3>2. visits'[i] = visits[i]
      BY <1>2, <2>2
    <3> QED
      BY <1>1, <3>1, <3>2 DEF Inv, VisitsSpent
  <2> QED
    BY <2>1, <2>2
<1>18. LoopBudget'
  <2> SUFFICES ASSUME NEW i \in Steps,
                      NEW back, back = {d \in done' : /\ d.index = i /\ d.outcome \in DOMAIN Route[i]
                                                      /\ Route[i][d.outcome] <= i},
                      back # {}
               PROVE  Cardinality(back) < MaxVisits[i]
    BY DEF LoopBudget
  <2>1. CASE new \notin back
    <3>1. back = {d \in done : /\ d.index = i /\ d.outcome \in DOMAIN Route[i]
                               /\ Route[i][d.outcome] <= i}
      BY <1>5, <2>1
    <3> QED
      BY <3>1 DEF Inv, LoopBudget
  <2>2. CASE new \in back
    <3>1. i = index /\ out \in DOMAIN Route[index] /\ Route[index][out] <= index
      BY <1>4, <2>2
    <3>2. Routes /\ OutcomeKey = out
      BY <1>6, <3>1
    <3>3. ~(v >= MaxVisits[index])
      BY <3>1, <3>2 DEF Exhausted
    <3>4. back \subseteq executed
      BY <1>j, <3>1, Constants
    <3>5. IsFiniteSet(executed)
      BY <1>15, FS_Subset
    <3>6. /\ Cardinality(back) <= Cardinality(executed)
          /\ Cardinality(back) \in Nat /\ Cardinality(executed) \in Nat
      BY <3>4, <3>5, FS_Subset, FS_CardinalityType
    <3>7. MaxVisits[index] \in Nat
      BY Constants
    <3>8. \A a, b, c, d \in Nat : a <= b /\ b <= c /\ ~(c >= d) => a < d
      OBVIOUS
    <3> QED
      BY <1>16, <3>1, <3>3, <3>6, <3>7, <3>8
  <2> QED
    BY <2>1, <2>2
<1>19. done' \subseteq Pass
  BY <1>2, <1>4, <1>5
<1> QED
  BY <1>8, <1>13, <1>15, <1>17, <1>18, <1>19

\* planWalk.runStep's routing.
LEMMA RouteStepStep ==
    ASSUME Inv, RouteStep
    PROVE  Inv'
<1> DEFINE v == IF SpendsVisit THEN visits[index] + 1 ELSE visits[index]
<1>1. /\ pc = "routing" /\ index # Job /\ visits' = [visits EXCEPT ![index] = v]
      /\ UNCHANGED <<passes, att, cancelled, late, resumes, status>>
  BY DEF RouteStep
<1>2. \/ /\ UNCHANGED done
         /\ \E e \in {"failed", err} : EndWalk(e)
      \/ /\ ~(Routes /\ Exhausted(v))
         /\ done' = IF disp = "resumed" THEN done ELSE done \cup
                {[index |-> index, visit |-> passes[index], outcome |-> RecordableOutcome]}
         /\ index' = IF Routes THEN Route[index][OutcomeKey] ELSE index + 1
         /\ err' = "none" /\ verdict' = NoKey /\ disp' = "ran" /\ hookErr' = "none"
         /\ pc' = "between"
  BY DEF RouteStep
<1>3. index \in Steps
  BY <1>1, Constants DEF Inv, TypeOK, Steps, Job
<1>4. visits' \in [Steps -> Nat] /\ \A i \in Steps : visits'[i] <= passes[i]
  BY <1>1, <1>3, VisitsTyped
<1> HIDE DEF v
<1>5. CASE UNCHANGED done /\ \E e \in {"failed", err} : EndWalk(e)
  <2>1. PICK e \in Errors : EndWalk(e)
    BY <1>5 DEF Inv, TypeOK, Errors
  <2> QED
    BY <1>1, <1>4, <1>5, <2>1, EndStep
<1>6. CASE /\ ~(Routes /\ Exhausted(v))
           /\ done' = IF disp = "resumed" THEN done ELSE done \cup
                {[index |-> index, visit |-> passes[index], outcome |-> RecordableOutcome]}
           /\ index' = IF Routes THEN Route[index][OutcomeKey] ELSE index + 1
           /\ err' = "none" /\ verdict' = NoKey /\ disp' = "ran" /\ hookErr' = "none"
           /\ pc' = "between"
  <2>1. /\ OnThePath' /\ VisitsSpent' /\ LoopBudget' /\ IsFiniteSet(done)' /\ index' \in 1..Job
        /\ done' \subseteq Pass
    <3>1. CASE disp = "resumed"
      <4>1. UNCHANGED done
        BY <1>6, <3>1
      <4>2. OnThePath' /\ VisitsSpent' /\ index' \in 1..Job
        BY <1>1, <1>3, <1>6, <3>1, <4>1, ReplayedRoutes DEF v
      <4>3. done' \subseteq Pass
        BY <4>1 DEF Inv, TypeOK, Pass
      <4> QED
        BY <4>1, <4>2, <4>3, SameRecord
    <3>2. CASE disp # "resumed"
      <4>1. done' = done \cup
                {[index |-> index, visit |-> passes[index], outcome |-> RecordableOutcome]}
        BY <1>6, <3>2
      <4> QED
        BY <1>1, <1>3, <1>6, <3>2, <4>1, FreshRoutes DEF v
    <3> QED
      BY <3>1, <3>2
  <2>2. TypeOK'
    BY <1>1, <1>4, <1>6, <2>1 DEF Inv, TypeOK, Places, Errors, Pass
  <2>3. Dispositions'
    BY <1>6 DEF Dispositions, Replaying, Passing
  <2> QED
    BY <2>1, <2>2, <2>3 DEF Inv
<1> QED
  BY <1>2, <1>5, <1>6

\* A run as it starts: nothing is on record, and the path is empty.
LEMMA InitInv ==
    ASSUME Init
    PROVE  Inv
<1>1. /\ pc = "between" /\ index = 1
      /\ visits = [i \in Steps |-> 0] /\ passes = [i \in Steps |-> 0] /\ done = {}
  BY DEF Init
<1>2. TypeOK
  <2>1. index \in 1..Job /\ resumes \in 0..MaxResumes /\ att \in Nat
    BY Constants DEF Init, Job
  <2>2. late \in BOOLEAN
    BY Zenon DEF Init
  <2>3. /\ visits \in [Steps -> Nat] /\ passes \in [Steps -> Nat]
        /\ \A i \in Steps : visits[i] <= passes[i]
    BY <1>1
  <2> QED
    BY <2>1, <2>2, <2>3 DEF Init, TypeOK, Places, Errors
<1>3. ~Passing
  BY <1>1 DEF Passing
<1>4. OnThePath
  <2>1. PICK p \in [1..0 -> Pass] : TRUE
    <3>1. [m \in 1..0 |-> 0] \in [1..0 -> Pass]
      OBVIOUS
    <3> QED
      BY <3>1
  <2>2. PICK q \in [0..0 -> [Steps -> Nat]] : q[0] = passes
    <3> DEFINE f == [m \in 0..0 |-> passes]
    <3>1. f \in [0..0 -> [Steps -> Nat]] /\ f[0] = passes
      BY <1>1
    <3> QED
      BY <3>1
  <2>3. Steady(0, p, q)
    <3>1. \A i \in Steps : q[0][i] = 0
      BY <1>1, <2>2
    <3>2. 0..0 - 1 = {}
      OBVIOUS
    <3>3. \A l \in 0..0 : \A m \in l..0 : \A i \in Steps : q[l][i] <= q[m][i]
      BY <1>1, <2>2
    <3>4. \A m \in 0..0 - 1 : Link(p, q, m)
      BY <3>2
    <3>5. 0 \in Nat
      OBVIOUS
    <3> QED
      BY <3>1, <3>3, <3>4, <3>5, Zenon DEF Steady
  <2>4. Path(0, p, q)
    BY <1>1, <2>3 DEF Path
  <2>5. Along(0, p, q, 0)
    BY <1>1, <1>3, <2>2 DEF Along, Fresh, Replaying, PlaceAt
  <2>6. 0 \in Nat /\ 0 \in 0..0
    OBVIOUS
  <2> QED
    BY <2>4, <2>5, <2>6, Zenon DEF OnThePath
<1>5. Dispositions
  BY <1>1, <1>3 DEF Dispositions, Replaying
<1>6. VisitsSpent
  <2> SUFFICES ASSUME NEW i \in Steps
               PROVE  Cardinality(Walked(i)) <= visits[i]
    BY DEF VisitsSpent
  <2>1. Walked(i) = {}
    BY <1>1 DEF Walked
  <2> QED
    BY <1>1, <2>1, FS_EmptySet
<1>7. IsFiniteSet(done) /\ LoopBudget
  BY <1>1, FS_EmptySet DEF LoopBudget
<1> QED
  BY <1>2, <1>4, <1>5, <1>6, <1>7 DEF Inv

\* The invariant holds of every run and every resume of it.
THEOREM Invariance == Spec => []Inv
<1>1. Init => Inv
  BY InitInv
<1>2. Inv /\ [Next]_vars => Inv'
  <2> SUFFICES ASSUME Inv, [Next]_vars
               PROVE  Inv'
    OBVIOUS
  <2>1. CASE DeadlinePassed \/ PlanDone
    BY <2>1, OverStep
  <2>2. CASE Replay
    BY <2>2, ReplayStep
  <2>3. CASE StartStep
    BY <2>3, StartStepStep
  <2>4. CASE Attempt \/ Backoff \/ RunMatchedHook \/ RunEnsure
    BY <2>4, WorkStep
  <2>5. CASE RouteStep
    BY <2>5, RouteStepStep
  <2>6. CASE FinishRun \/ Crash
    BY <2>6, GoneStep
  <2>7. CASE Resume
    BY <2>7, ResumeStep
  <2>8. CASE Timeout \/ (\E why \in Events : Cancel(why)) \/ UNCHANGED vars
    BY <2>8, MeanwhileStep
  <2> QED
    BY <2>1, <2>2, <2>3, <2>4, <2>5, <2>6, <2>7, <2>8 DEF Next, Walk
<1> QED
  BY <1>1, <1>2, PTL DEF Spec

\* Every variable keeps its type, and no step is visited more often than passed.
THEOREM TypeCorrect == Spec => []TypeOK
<1>1. Inv => TypeOK
  BY DEF Inv
<1> QED
  BY <1>1, Invariance, PTL

\* Whatever path a run took, and wherever it was stopped, its resume replays the
\* whole of it before a step runs afresh (skipCompleted).
THEOREM PathReplayed == Spec => []ReplaysItsPath
<1>1. Inv => ReplaysItsPath
  <2> SUFFICES ASSUME Inv, pc \in {"attempting", "backoff"}, NEW d \in done
               PROVE  d.visit <= passes[d.index]
    BY DEF ReplaysItsPath
  <2>1. Fresh
    BY DEF Inv, Dispositions, Fresh, Passing, Replaying
  <2>2. PICK n \in Nat : \E p \in [1..n -> Pass] : \E q \in [0..n -> [Steps -> Nat]] :
             Path(n, p, q) /\ \E k \in 0..n : Along(n, p, q, k)
    BY Zenon DEF Inv, OnThePath
  <2>3. PICK p \in [1..n -> Pass], q \in [0..n -> [Steps -> Nat]], k \in 0..n :
             Path(n, p, q) /\ Along(n, p, q, k)
    BY <2>2, Zenon
  <2>4. passes = [q[n] EXCEPT ![index] = @ + 1]
    BY <2>1, <2>3 DEF Along
  <2>5. d \in Pass /\ d.index \in Steps /\ d.visit <= q[n][d.index]
    BY <2>3, PathNumbers, Zenon
  <2>6. q[n] \in [Steps -> Nat] /\ d.visit \in Nat
    BY <2>5 DEF Pass
  <2>7. q[n][d.index] <= passes[d.index] /\ q[n][d.index] \in Nat /\ passes[d.index] \in Nat
    BY <2>4, <2>5, <2>6
  <2> QED
    BY <2>5, <2>6, <2>7
<1> QED
  BY <1>1, Invariance, PTL

\* Over all its attempts a run routes back from a step fewer times than its
\* max_visits (walk.go:254).
THEOREM BudgetSurvives == Spec => []LoopBudget
<1>1. Inv => LoopBudget
  BY DEF Inv
<1> QED
  BY <1>1, Invariance, PTL

-----------------------------------------------------------------------------
(* What routes.  A step that has both verdicts and hooks is the exception  *)
(* that the run FalselyGreen shows: its hooks fail after it has decided.   *)

HooksDecideNothing == \A i \in Steps \cap Hooked : Verdicts[i] = {}

\* A verdict in hand is that of a pass without an error.
Decided ==
    /\ pc \in {"attempting", "backoff", "observing", "ensuring"} => verdict = NoKey
    /\ pc = "routing" /\ verdict # NoKey => err = "none"

\* A verdict is given by the last thing a step without hooks does.
LEMMA DecidedStep ==
    ASSUME HooksDecideNothing, Inv, Decided, [Next]_vars
    PROVE  Decided'
<1>1. CASE DeadlinePassed \/ PlanDone \/ RouteStep \/ Resume
  <2>1. verdict' = NoKey
    BY <1>1 DEF DeadlinePassed, PlanDone, RouteStep, Resume, EndWalk
  <2> QED
    BY <2>1 DEF Decided
<1>2. CASE Replay
  BY <1>2 DEF Replay, Decided
<1>3. CASE StartStep
  BY <1>3 DEF StartStep, Decided
<1>4. CASE Attempt
  <2>1. pc = "attempting" /\ verdict = NoKey
    BY <1>4 DEF Attempt, Decided
  <2>2. index \in Steps
    BY <2>1, Constants DEF Inv, TypeOK, Dispositions, Steps, Job
  <2>3. CASE verdict' = NoKey
    BY <2>3 DEF Decided
  <2>4. CASE verdict' # NoKey
    <3>1. err' = "none" /\ pc' = AfterWork(index) /\ Verdicts[index] # {}
      BY <1>4, <2>1, <2>4 DEF Attempt
    <3>2. pc' = "routing"
      BY <2>2, <3>1 DEF HooksDecideNothing, AfterWork
    <3> QED
      BY <3>1, <3>2 DEF Decided
  <2> QED
    BY <2>3, <2>4
<1>5. CASE Backoff \/ RunMatchedHook \/ RunEnsure
  <2>1. verdict' = NoKey
    BY <1>5 DEF Backoff, RunMatchedHook, RunEnsure, Decided
  <2> QED
    BY <2>1 DEF Decided
<1>6. CASE FinishRun \/ Crash
  BY <1>6 DEF FinishRun, Crash, Decided
<1>7. CASE Timeout \/ (\E why \in Events : Cancel(why)) \/ UNCHANGED vars
  <2>1. UNCHANGED <<pc, verdict, err>>
    BY <1>7 DEF Timeout, Cancel, vars
  <2> QED
    BY <2>1 DEF Decided
<1> QED
  BY <1>1, <1>2, <1>3, <1>4, <1>5, <1>6, <1>7 DEF Next, Walk

\* outcomeKey and toleratedByTry: in a plan where no step has both verdicts and
\* hooks, an errored or aborted pass never routes, whenever the abort comes.
THEOREM ErroredStays ==
    ASSUME HooksDecideNothing
    PROVE  Spec => ErroredNeverRoutes
<1> DEFINE A == pc = "routing" /\ index # Job /\ pc' = "between" =>
                    /\ Classify(err) # "aborted"
                    /\ Classify(err) = "errored" => index \in Tries /\ index' = index + 1
<1>1. Init => Decided
  BY DEF Init, Decided
<1>2. Inv /\ Decided /\ [Next]_vars => Decided'
  BY DecidedStep
<1>3. Inv /\ Decided /\ [Next]_vars => [A]_vars
  <2> SUFFICES ASSUME Inv, Decided, Next, pc = "routing", index # Job, pc' = "between"
               PROVE  /\ Classify(err) # "aborted"
                      /\ Classify(err) = "errored" => index \in Tries /\ index' = index + 1
    OBVIOUS
  <2>1. RouteStep
    BY DEF Next, Walk, DeadlinePassed, PlanDone, Replay, StartStep, Attempt, Backoff,
           RunMatchedHook, RunEnsure, FinishRun, Timeout, Crash, Resume, Cancel, Live
  <2>2. /\ ~(~Routes /\ err # "none" /\ ~Tolerated)
        /\ index' = IF Routes THEN Route[index][OutcomeKey] ELSE index + 1
    BY <2>1 DEF RouteStep, EndWalk, AfterWork
  <2>3. index \in Steps /\ err \in Errors
    BY Constants DEF Inv, TypeOK, Steps, Job
  <2>4. NoKey \notin DOMAIN Route[index]
    BY <2>3, Constants
  <2>5. Routes => Classify(err) \in {"succeeded", "failed"}
    BY <2>3, <2>4 DEF Decided, Routes, OutcomeKey, Classify, Errors
  <2> QED
    BY <2>2, <2>5 DEF Tolerated, Classify
<1> QED
  BY <1>1, <1>2, <1>3, Invariance, PTL DEF Spec, ErroredNeverRoutes

=============================================================================
