---------------------------- MODULE InputsProofs ----------------------------
(***************************************************************************)
(* What the version tables keep through polls, deliveries, refreshes,      *)
(* builds and crashes, for any jobs, resources, versions and workers: a    *)
(* version a check filed stays where it is (WindowKept), so that what a    *)
(* job's cursor has covered stays covered and no set is taken twice        *)
(* (TakenOnce); a version's green stays with it (GateHolds); a webhook     *)
(* resource's checked version only goes forward (CheckedNeverRewinds); and *)
(* a job that alone takes a resource as it comes passes over none of its   *)
(* versions (NothingSkipped).                                              *)
(***************************************************************************)
EXTENDS Inputs, FiniteSetTheorems, WellFoundedInduction, TLAPS

\* The resources whose checks list their whole window, oldest first.
Windowed == Resources \ (AfterCursor \cup Webhooks \cup Backfills)

\* The resources whose versions, once a check filed them, stay where they are:
\* every one if nothing is pruned, else those with a window.
Steady == IF HistoryLimit = 0 THEN Resources ELSE Windowed

History == [Versions -> [order: Nat, checked: BOOLEAN]]
Prefix(S) == \A v \in S, u \in Versions : u < v => u \in S

\* A history h: what a check filed has an order; the first version there is
\* comes first of what checks filed.
Sound(h) == \A v \in Versions : h[v].checked => h[v].order > 0
FirstFirst(h) ==
    \A v, m \in Versions : h[v].checked /\ (\A u \in Versions : m <= u) =>
        h[m].checked /\ h[m].order <= h[v].order

Typed ==
    /\ hist \in [Resources -> History]
    /\ checked \in [Resources -> Versions \cup {None}]
    /\ green \in [Jobs -> [Resources -> [Versions -> Build]]]
    /\ mark \in [Jobs -> [Resources -> Nat]]
    /\ published \in [Resources -> SUBSET Versions]
    /\ \A d \in handling : d.r \in Webhooks /\ d.v \in Versions
    /\ obs \in [Resources -> Observations]

\* What checks filed is out there.
Filing ==
    /\ \A r \in Resources : Sound(hist[r])
    /\ \A r \in Windowed : FirstFirst(hist[r])
    /\ \A r \in Resources \ Webhooks, v \in Versions : hist[r][v].checked => v \in published[r]
    /\ \A r \in Resources \ Backfills : Prefix(published[r])

\* What the poll has in hand.
InHand ==
    /\ ppc \in {"checked", "seeding"} =>
          /\ pres \in Resources \ Webhooks
          /\ obs[pres].versions # {} /\ obs[pres].versions \subseteq published[pres]
          /\ pres \notin AfterCursor \cup Backfills => Prefix(obs[pres].versions)
    /\ ppc = "delivered" => pres \in Webhooks

\* A run: it has a job, a cursor while it resolves, and an input set once it
\* has resolved.
RunOk(w) ==
    /\ bpc[w] # "idle" => bjob[w] \in Jobs
    /\ bpc[w] = "idle" => ~brec[w]
    /\ IF Bound(w) THEN bset[w] \in [Gets[bjob[w]] -> Versions] ELSE bset[w] = NoSet
    /\ bpc[w] = "locked" =>
          bcursor[w] \in [Every[bjob[w]] -> [mark: Nat, orders: [Versions -> Nat]]]

\* Two runs of one job do not hold its lock.
LockHeld ==
    \A v, w \in Workers : bpc[v] \in Locked /\ bpc[w] \in Locked /\ bjob[v] = bjob[w] => v = w

Builds ==
    /\ bpc \in [Workers -> {"idle", "refreshing", "building", "interrupted"} \cup Locked]
    /\ bjob \in [Workers -> Jobs \cup {NoJob}]
    /\ brec \in [Workers -> BOOLEAN]
    /\ bput \in [Workers -> Build]
    /\ DOMAIN bset = Workers /\ DOMAIN bcursor = Workers
    /\ \A w \in Workers : RunOk(w)
    /\ LockHeld

GreenFiled ==
    \A j \in Jobs, r \in Resources, v \in Versions : green[j][r][v] # NoBuild => hist[r][v].order > 0

\* What a run is bound to was green, and stays so where nothing is pruned.
Vouched(w) ==
    HistoryLimit = 0 /\ Bound(w) =>
        \A r \in Constrained(bjob[w]) : \A u \in Passed[bjob[w]][r] : green[u][r][bset[w][r]] # NoBuild

Gated == \A w \in Workers : Vouched(w)

\* The sets a job took of versions checks had filed: they stay at or below its
\* cursor.
Behind(j) == {t \in taken[j] : t.filed}
StaysBehind(j) ==
    Every[j] \subseteq Steady =>
        \A t \in Behind(j) :
            /\ Every[j] # {} /\ t.set \in [Every[j] -> Versions]
            /\ \A r \in Every[j] : hist[r][t.set[r]].checked /\ hist[r][t.set[r]].order <= mark[j][r]

\* The cursor a run of it has loaded covers them.
CursorCovers(w) ==
    bpc[w] = "locked" /\ Every[bjob[w]] \subseteq Steady =>
        \A t \in Behind(bjob[w]), r \in Every[bjob[w]] : Covered(bcursor[w][r], t.set[r])

\* The set it then chose is none of them.
SetIsNew(w) ==
    bpc[w] \in {"resolved", "recorded"} /\ Every[bjob[w]] \subseteq Steady =>
        \/ Every[bjob[w]] = {}
        \/ \E r \in Every[bjob[w]] : \A t \in Behind(bjob[w]) : t.set[r] # bset[w][r]

Taking ==
    /\ DOMAIN taken = Jobs
    /\ \A j \in Jobs : StaysBehind(j)
    /\ \A w \in Workers : CursorCovers(w) /\ SetIsNew(w)

Delivered ==
    HistoryLimit = 0 /\ Webhooks \subseteq Polled => \A r \in Webhooks :
        /\ checked[r] # None => hist[r][checked[r]].checked
        /\ obs[r].dirty => obs[r].latest # None
        /\ obs[r].previous # None => hist[r][obs[r].previous].checked
        /\ obs[r].latest # None => /\ hist[r][obs[r].latest].checked
                                   /\ obs[r].previous # None =>
                                        hist[r][obs[r].previous].order <= hist[r][obs[r].latest].order

Inv == Typed /\ Filing /\ InHand /\ Builds /\ GreenFiled /\ Gated /\ Taking /\ Delivered

-----------------------------------------------------------------------------
(* Least and greatest elements.                                            *)

\* A set of numbers that is not empty has a least one.
LEMMA LeastOf ==
    ASSUME NEW T \in SUBSET Nat, T # {}
    PROVE  \E x \in T : \A y \in T : x <= y
<1> DEFINE R == {ss \in Nat \X Nat : ss[1] < ss[2]}
<1>1. IsWellFoundedOn(R, Nat)
  BY NatLessThanWellFounded DEF OpToRel
<1>2. PICK x \in T : \A y \in T : ~ (<<y, x>> \in R)
  <2> HIDE DEF R
  <2> QED
    BY <1>1, WFMin
<1>3. \A y \in T : ~ (y < x)
  BY <1>2
<1> QED
  BY <1>3

\* Of finitely many versions one is placed last: the one with most others at or
\* below it.
LEMMA GreatestOf ==
    ASSUME NEW S, IsFiniteSet(S), S # {}, NEW f, \A v \in S : f[v] \in Nat
    PROVE  \E v \in S : \A u \in S : f[u] <= f[v]
<1> DEFINE below(v) == {u \in S : f[u] <= f[v]}
           left(v) == Cardinality(S) - Cardinality(below(v))
           T == {left(v) : v \in S}
<1>1. \A v \in S : IsFiniteSet(below(v)) /\ left(v) \in Nat /\ Cardinality(below(v)) \in Nat
  <2> SUFFICES ASSUME NEW v \in S
               PROVE  IsFiniteSet(below(v)) /\ left(v) \in Nat /\ Cardinality(below(v)) \in Nat
    OBVIOUS
  <2>1. below(v) \in SUBSET S
    OBVIOUS
  <2>2. IsFiniteSet(below(v)) /\ Cardinality(below(v)) <= Cardinality(S)
    BY <2>1, FS_Subset
  <2>3. Cardinality(below(v)) \in Nat /\ Cardinality(S) \in Nat
    BY <2>2, FS_CardinalityType
  <2> QED
    BY <2>2, <2>3
<1>2. PICK v \in S : \A u \in S : left(v) <= left(u)
  <2>1. T \in SUBSET Nat /\ T # {}
    BY <1>1
  <2>2. PICK x \in T : \A y \in T : x <= y
    BY <2>1, LeastOf
  <2> QED
    BY <2>2
<1>3. ASSUME NEW u \in S, ~ (f[u] <= f[v])
      PROVE  FALSE
  <2>1. below(v) \in SUBSET below(u) /\ u \in below(u) /\ u \notin below(v)
    BY <1>3
  <2>2. Cardinality(below(v)) <= Cardinality(below(u)) /\ Cardinality(below(v)) # Cardinality(below(u))
    BY <1>1, <2>1, FS_Subset
  <2>3. Cardinality(S) \in Nat
    BY FS_CardinalityType
  <2>4. left(v) <= left(u) /\ Cardinality(below(u)) \in Nat /\ Cardinality(below(v)) \in Nat
    BY <1>1, <1>2
  <2>5. \A a, b, c \in Nat : a - b <= a - c /\ b <= c => b = c
    OBVIOUS
  <2> QED
    BY <2>2, <2>3, <2>4, <2>5
<1> QED
  BY <1>3

-----------------------------------------------------------------------------
(* One resource's history.                                                 *)

\* Sets of versions are finite.
LEMMA Few ==
    ASSUME NEW S \in SUBSET Versions
    PROVE  IsFiniteSet(S) /\ Cardinality(S) \in Nat
BY VersionsAssumption, FS_Subset, FS_CardinalityType

\* The highest order of some versions, 0 for none, is a number and the highest.
LEMMA HighestOf ==
    ASSUME NEW h \in History, NEW T \in SUBSET Versions
    PROVE  LET top == Max({h[v].order : v \in T} \cup {0})
           IN  /\ top \in Nat /\ \A v \in T : h[v].order <= top
               /\ top = 0 \/ \E v \in T : h[v].order = top
<1> DEFINE f == [v \in T |-> h[v].order]
           S == {h[v].order : v \in T} \cup {0}
<1>1. \A v \in T : f[v] \in Nat
  BY DEF History
<1>2. \E x \in S : \A y \in S : x >= y
  <2>1. CASE T = {}
    BY <2>1
  <2>2. CASE T # {}
    <3>1. PICK v \in T : \A u \in T : f[u] <= f[v]
      BY <1>1, <2>2, Few, GreatestOf
    <3>2. f[v] \in S /\ \A y \in S : f[v] >= y
      BY <1>1, <3>1
    <3> QED
      BY <3>2
  <2> QED
    BY <2>1, <2>2
<1>3. Max(S) \in S /\ \A y \in S : Max(S) >= y
  BY <1>2 DEF Max
<1>4. Max(S) \in Nat /\ \A v \in T : h[v].order <= Max(S)
  BY <1>1, <1>3
<1>5. Max(S) = 0 \/ \E v \in T : h[v].order = Max(S)
  BY <1>3
<1> QED
  BY <1>4, <1>5

\* No order is above the highest (history.go: MAX(check_order)).
LEMMA TopIsHighest ==
    ASSUME NEW h \in History
    PROVE  /\ Top(h) \in Nat /\ \A v \in Versions : h[v].order <= Top(h)
           /\ Top(h) = 0 \/ \E v \in Versions : h[v].order = Top(h)
BY HighestOf DEF Top

\* The newest of a report is one of it.
LEMMA MaxOf ==
    ASSUME NEW S \in SUBSET Versions, S # {}
    PROVE  Max(S) \in S
<1> DEFINE f == [v \in S |-> v]
<1>1. \A v \in S : f[v] \in Nat
  BY VersionsAssumption
<1>2. PICK v \in S : \A u \in S : f[u] <= f[v]
  BY <1>1, Few, GreatestOf
<1>3. \A u \in S : v >= u
  BY <1>1, <1>2
<1> QED
  BY <1>3 DEF Max

\* So is the one placed highest in a history.
LEMMA NewestOf ==
    ASSUME NEW h \in History, NEW S \in SUBSET Versions, S # {}
    PROVE  Newest(h, S) \in S /\ \A u \in S : h[u].order <= h[Newest(h, S)].order
<1> DEFINE f == [v \in S |-> h[v].order]
<1>1. \A v \in S : f[v] \in Nat
  BY DEF History
<1>2. PICK v \in S : \A u \in S : f[u] <= f[v]
  BY <1>1, Few, GreatestOf
<1>3. \A u \in S : h[u].order <= h[v].order
  BY <1>2
<1> QED
  BY <1>3 DEF Newest

\* What a report is filed as: behind all that is there, in its own order
\* (history.go, insertNewVersions).
LEMMA Inserted ==
    ASSUME NEW h \in History, NEW report \in SUBSET Versions
    PROVE  LET k == InsertNewVersions(h, report)
           IN  /\ k \in History
               /\ \A v \in Versions : h[v].checked \/ v \notin report => k[v] = h[v]
               /\ \A v \in report : k[v].checked
               /\ \A v \in report : ~h[v].checked => k[v].order > Top(h)
               /\ \A u, v \in report : ~h[u].checked /\ ~h[v].checked /\ u <= v =>
                                          /\ k[u].order <= k[v].order
                                          /\ u # v => k[u].order < k[v].order
<1> DEFINE k == InsertNewVersions(h, report)
           rank(v) == Cardinality({u \in Fresh(h, report) : u <= v})
<1>1. Top(h) \in Nat /\ \A v \in Versions : h[v].order <= Top(h)
  BY TopIsHighest
<1>2. ASSUME NEW v \in Fresh(h, report)
      PROVE  rank(v) \in Nat /\ rank(v) > 0
  <2>1. {u \in Fresh(h, report) : u <= v} \in SUBSET Versions
    BY DEF Fresh
  <2>2. v \in {u \in Fresh(h, report) : u <= v}
    BY VersionsAssumption DEF Fresh
  <2> QED
    BY <2>1, <2>2, Few, FS_EmptySet
<1>3. ASSUME NEW u \in Fresh(h, report), NEW v \in Fresh(h, report), u <= v
      PROVE  rank(u) <= rank(v) /\ (u # v => rank(u) < rank(v))
  <2> DEFINE upto(y) == {x \in Fresh(h, report) : x <= y}
  <2>1. Fresh(h, report) \in SUBSET Nat
    BY VersionsAssumption DEF Fresh
  <2>2. upto(v) \in SUBSET Versions /\ rank(u) = Cardinality(upto(u)) /\ rank(v) = Cardinality(upto(v))
    BY DEF Fresh
  <2>3. upto(u) \in SUBSET upto(v) /\ (u # v => upto(u) # upto(v))
    <3>1. v \in upto(v) /\ (u # v => v \notin upto(u))
      BY <1>3, <2>1
    <3>2. upto(u) \in SUBSET upto(v)
      BY <1>3, <2>1
    <3> QED
      BY <3>1, <3>2
  <2> HIDE DEF upto
  <2>4. /\ IsFiniteSet(upto(v)) /\ rank(u) <= rank(v)
        /\ rank(u) = rank(v) => upto(u) = upto(v)
    BY <2>2, <2>3, Few, FS_Subset
  <2>5. rank(u) \in Nat /\ rank(v) \in Nat
    BY <1>2
  <2> HIDE DEF rank
  <2> QED
    BY <2>3, <2>4, <2>5
<1>4. \A v \in Versions : k[v] = IF v \in Fresh(h, report)
                                 THEN [order |-> Top(h) + rank(v), checked |-> TRUE] ELSE h[v]
  BY DEF InsertNewVersions
<1> HIDE DEF rank
<1> HIDE DEF k
<1>5. ASSUME NEW v \in Fresh(h, report)
      PROVE  k[v].checked /\ k[v].order = Top(h) + rank(v) /\ k[v] \in [order: Nat, checked: BOOLEAN]
  <2>1. v \in Versions
    BY DEF Fresh
  <2>2. k[v] = [order |-> Top(h) + rank(v), checked |-> TRUE]
    BY <1>4, <2>1
  <2>3. Top(h) + rank(v) \in Nat
    BY <1>1, <1>2
  <2> QED
    BY <2>2, <2>3
<1>6. \A v \in Versions : k[v] \in [order: Nat, checked: BOOLEAN]
  <2> SUFFICES ASSUME NEW v \in Versions PROVE k[v] \in [order: Nat, checked: BOOLEAN]
    OBVIOUS
  <2>1. h[v] \in [order: Nat, checked: BOOLEAN]
    BY DEF History
  <2> QED
    BY <1>4, <1>5, <2>1
<1>7. k \in History
  BY <1>6 DEF k, InsertNewVersions, History
<1>8. \A v \in Versions : h[v].checked \/ v \notin report => k[v] = h[v]
  BY <1>4 DEF Fresh
<1>9. \A v \in report : k[v].checked
  BY <1>5, <1>8 DEF Fresh
<1>10. \A v \in report : ~h[v].checked => k[v].order > Top(h)
  BY <1>1, <1>2, <1>5 DEF Fresh
<1>11. \A u, v \in report : ~h[u].checked /\ ~h[v].checked /\ u <= v =>
          k[u].order <= k[v].order /\ (u # v => k[u].order < k[v].order)
  <2> SUFFICES ASSUME NEW u \in report, NEW v \in report, ~h[u].checked, ~h[v].checked, u <= v
               PROVE  k[u].order <= k[v].order /\ (u # v => k[u].order < k[v].order)
    OBVIOUS
  <2>1. u \in Fresh(h, report) /\ v \in Fresh(h, report)
    BY DEF Fresh
  <2> QED
    BY <1>1, <1>2, <1>3, <1>5, <2>1
<1> QED
  BY <1>7, <1>8, <1>9, <1>10, <1>11 DEF k

\* What a prune keeps: a version as it was, or nothing of it; everything without
\* a limit, and all that lies at or above something the report lists
\* (history.go, pruneVersions).
LEMMA Pruned ==
    ASSUME NEW h \in History, NEW report \in SUBSET Versions, report # {}
    PROVE  LET k == PruneVersions(h, report)
           IN  /\ k \in History
               /\ \A v \in Versions : k[v] = h[v] \/ k[v] = Absent
               /\ HistoryLimit = 0 => k = h
               /\ \A v \in Versions : (\E u \in report : h[u].order <= h[v].order) => k[v] = h[v]
<1> DEFINE k == PruneVersions(h, report)
           S == {h[v].order : v \in report}
           newer(v) == {u \in Filed(h) : h[u].order > h[v].order}
<1>1. \A v \in Versions : h[v] \in [order: Nat, checked: BOOLEAN] /\ h[v].order \in Nat
  BY DEF History
<1>2. Absent \in [order: Nat, checked: BOOLEAN]
  BY DEF Absent
<1>3. Min(S) \in S /\ \A y \in S : Min(S) <= y
  <2>1. S \in SUBSET Nat /\ S # {}
    BY <1>1
  <2>2. \E x \in S : \A y \in S : x <= y
    <3> HIDE DEF S
    <3> QED
      BY <2>1, LeastOf
  <2> QED
    BY <2>2 DEF Min
<1>4. CASE HistoryLimit = 0
  BY <1>4 DEF PruneVersions
<1>5. CASE HistoryLimit # 0
  <2>1. k = [v \in Versions |-> IF h[v].order >= Min(S) \/ Cardinality(newer(v)) < HistoryLimit
                                THEN h[v] ELSE Absent]
    BY <1>5 DEF PruneVersions
  <2> HIDE DEF k, newer
  <2>2. \A v \in Versions : k[v] = h[v] \/ k[v] = Absent
    BY <2>1
  <2>3. \A v \in Versions : h[v].order >= Min(S) => k[v] = h[v]
    BY <2>1
  <2>4. \A v \in Versions : (\E u \in report : h[u].order <= h[v].order) => h[v].order >= Min(S)
    <3> SUFFICES ASSUME NEW v \in Versions, NEW u \in report, h[u].order <= h[v].order
                 PROVE  h[v].order >= Min(S)
      OBVIOUS
    <3>1. h[u].order \in S
      OBVIOUS
    <3>2. Min(S) <= h[u].order /\ Min(S) \in Nat
      BY <1>1, <1>3, <3>1
    <3>3. h[u].order \in Nat /\ h[v].order \in Nat
      BY <1>1
    <3> HIDE DEF S
    <3> QED
      BY <3>2, <3>3
  <2>5. k \in History
    <3>1. \A v \in Versions : k[v] \in [order: Nat, checked: BOOLEAN]
      BY <1>1, <1>2, <2>2
    <3>2. k = [v \in Versions |-> k[v]]
      BY <2>1
    <3> QED
      BY <3>1, <3>2 DEF History
  <2> QED
    BY <1>5, <2>2, <2>3, <2>4, <2>5 DEF k
<1> QED
  BY <1>4, <1>5

\* What a run files by itself: behind all there is, and not as checked
\* (history.go, ensureVersion).
Added(h, k) ==
    /\ k \in History
    /\ \A v \in Versions : \/ k[v] = h[v]
                           \/ h[v].order = 0 /\ k[v].order > 0 /\ ~k[v].checked

\* ensureVersion leaves every known version where it is and places the one it is given.
LEMMA Ensured ==
    ASSUME NEW h \in History, NEW v \in Versions
    PROVE  Added(h, EnsureVersion(h, v)) /\ EnsureVersion(h, v)[v].order > 0
<1>1. Top(h) \in Nat
  BY TopIsHighest
<1>2. \A u \in Versions : h[u] \in [order: Nat, checked: BOOLEAN] /\ h[u].order \in Nat
  BY DEF History
<1>3. CASE h[v].order > 0
  BY <1>3 DEF EnsureVersion, Added
<1>4. CASE ~ (h[v].order > 0)
  <2> DEFINE e == [order |-> Top(h) + 1, checked |-> FALSE]
             k == [h EXCEPT ![v] = e]
  <2>1. e \in [order: Nat, checked: BOOLEAN] /\ e.order > 0 /\ ~e.checked
    BY <1>1
  <2>2. EnsureVersion(h, v) = k
    BY <1>4 DEF EnsureVersion
  <2> HIDE DEF e
  <2>3. k \in History
    BY <2>1 DEF History
  <2>4. k[v] = e /\ \A u \in Versions : u # v => k[u] = h[u]
    BY DEF History
  <2>5. h[v].order = 0
    BY <1>2, <1>4
  <2> HIDE DEF k
  <2> QED
    BY <2>1, <2>2, <2>3, <2>4, <2>5 DEF Added
<1> QED
  BY <1>3, <1>4

\* The same for all a green build passed.
LEMMA EnsuredAll ==
    ASSUME NEW h \in History, NEW S \in SUBSET Versions
    PROVE  Added(h, EnsureAll(h, S)) /\ \A v \in S : EnsureAll(h, S)[v].order > 0
<1> DEFINE new == {v \in S : h[v].order = 0}
           rank(v) == Cardinality({u \in new : u <= v})
           e(v) == [order |-> Top(h) + rank(v), checked |-> FALSE]
           k == EnsureAll(h, S)
<1>1. Top(h) \in Nat
  BY TopIsHighest
<1>2. \A u \in Versions : h[u] \in [order: Nat, checked: BOOLEAN] /\ h[u].order \in Nat
  BY DEF History
<1>3. ASSUME NEW v \in new
      PROVE  e(v) \in [order: Nat, checked: BOOLEAN] /\ e(v).order > 0 /\ ~e(v).checked
  <2>0. new \in SUBSET Versions /\ v \in Nat
    BY VersionsAssumption
  <2>1. {u \in new : u <= v} \in SUBSET Versions /\ v \in {u \in new : u <= v}
    <3>1. v <= v
      BY <2>0
    <3> QED
      BY <2>0, <3>1
  <2>2. rank(v) \in Nat /\ rank(v) > 0
    BY <2>1, Few, FS_EmptySet
  <2>3. Top(h) + rank(v) \in Nat /\ Top(h) + rank(v) > 0
    BY <1>1, <2>2
  <2> HIDE DEF rank
  <2> QED
    BY <2>3
<1>4. k = [v \in Versions |-> IF v \in new THEN e(v) ELSE h[v]]
  BY DEF EnsureAll
<1> HIDE DEF e, k
<1>5. \A v \in Versions : k[v] = IF v \in new THEN e(v) ELSE h[v]
  BY <1>4
<1>6. k \in History
  <2>1. \A v \in Versions : k[v] \in [order: Nat, checked: BOOLEAN]
    BY <1>2, <1>3, <1>5
  <2>2. k = [v \in Versions |-> k[v]]
    BY <1>4
  <2> QED
    BY <2>1, <2>2 DEF History
<1>7. \A v \in Versions : k[v] = h[v] \/ (h[v].order = 0 /\ k[v].order > 0 /\ ~k[v].checked)
  BY <1>3, <1>5
<1>8. \A v \in S : k[v].order > 0
  BY <1>2, <1>3, <1>5
<1> QED
  BY <1>6, <1>7, <1>8 DEF Added, k

\* What RecordVersions makes of a history: what checks had filed stays, or is
\* pruned; without a limit, or where the report begins at the first version
\* there is, it stays.
LEMMA Reported ==
    ASSUME NEW h \in History, Sound(h), NEW report \in SUBSET Versions, report # {}
    PROVE  LET k == PruneVersions(InsertNewVersions(h, report), report)
           IN  /\ k \in History /\ Sound(k)
               /\ \A v \in Versions : k[v].checked => h[v].checked \/ v \in report
               /\ HistoryLimit = 0 =>
                     /\ \A v \in Versions : /\ h[v].checked => k[v] = h[v]
                                            /\ h[v].order > 0 => k[v].order > 0
                     /\ \A v \in report : k[v].checked
                     /\ \A u \in Versions, v \in report : h[u].checked /\ ~h[v].checked =>
                           k[u].order <= k[v].order
               /\ FirstFirst(h) /\ Prefix(report) =>
                     /\ FirstFirst(k)
                     /\ \A v \in Versions : h[v].checked => k[v] = h[v]
<1> DEFINE i == InsertNewVersions(h, report)
           k == PruneVersions(i, report)
<1>1. /\ i \in History
      /\ \A v \in Versions : h[v].checked \/ v \notin report => i[v] = h[v]
      /\ \A v \in report : i[v].checked
      /\ \A v \in report : ~h[v].checked => i[v].order > Top(h)
      /\ \A u, v \in report : ~h[u].checked /\ ~h[v].checked /\ u <= v => i[u].order <= i[v].order
  BY Inserted
<1>2. Top(h) \in Nat /\ \A v \in Versions : h[v].order <= Top(h)
  BY TopIsHighest
<1> HIDE DEF i
<1>3. /\ k \in History
      /\ \A v \in Versions : k[v] = i[v] \/ k[v] = Absent
      /\ HistoryLimit = 0 => k = i
      /\ \A v \in Versions : (\E u \in report : i[u].order <= i[v].order) => k[v] = i[v]
  BY <1>1, Pruned
<1> HIDE DEF k
<1>4. \A v \in Versions : h[v].order \in Nat /\ i[v].order \in Nat /\ k[v].order \in Nat
  BY <1>1, <1>3 DEF History
<1>5. ~Absent.checked
  BY DEF Absent
<1>6. \A v \in Versions : k[v].checked => k[v] = i[v]
  BY <1>3, <1>5
<1>7. \A v \in Versions : i[v].checked => h[v].checked \/ v \in report
  BY <1>1
<1>8. \A v \in report : ~h[v].checked => \A u \in Versions : h[u].order < i[v].order
  BY <1>1, <1>2, <1>4
<1>9. \A v \in Versions : i[v].checked => i[v].order > 0
  <2> SUFFICES ASSUME NEW v \in Versions, i[v].checked PROVE i[v].order > 0
    OBVIOUS
  <2>1. CASE h[v].checked
    BY <1>1, <2>1 DEF Sound
  <2>2. CASE ~h[v].checked
    BY <1>4, <1>7, <1>8, <2>2
  <2> QED
    BY <2>1, <2>2
<1>10. k \in History /\ Sound(k) /\ \A v \in Versions : k[v].checked => h[v].checked \/ v \in report
  BY <1>3, <1>6, <1>7, <1>9 DEF Sound
<1>11. ASSUME HistoryLimit = 0
       PROVE  /\ \A v \in Versions : /\ h[v].checked => k[v] = h[v]
                                     /\ h[v].order > 0 => k[v].order > 0
              /\ \A v \in report : k[v].checked
              /\ \A u \in Versions, v \in report : h[u].checked /\ ~h[v].checked =>
                    k[u].order <= k[v].order
  <2>1. k = i
    BY <1>3, <1>11
  <2>2. \A v \in Versions : h[v].checked => k[v] = h[v]
    BY <1>1, <2>1
  <2>3. ASSUME NEW v \in Versions, h[v].order > 0
        PROVE  k[v].order > 0
    <3>1. CASE v \in report /\ ~h[v].checked
      BY <1>4, <1>8, <2>1, <3>1
    <3>2. CASE v \notin report \/ h[v].checked
      BY <1>1, <2>1, <2>3, <3>2
    <3> QED
      BY <3>1, <3>2
  <2>4. ASSUME NEW u \in Versions, NEW v \in report, h[u].checked, ~h[v].checked
        PROVE  k[u].order <= k[v].order
    <3>1. k[u].order = h[u].order /\ h[u].order < k[v].order
      BY <1>8, <2>1, <2>2, <2>4
    <3> QED
      BY <1>4, <3>1
  <2> QED
    BY <1>1, <2>1, <2>2, <2>3, <2>4
<1>12. ASSUME FirstFirst(h), Prefix(report)
       PROVE  /\ FirstFirst(k)
              /\ \A v \in Versions : h[v].checked => k[v] = h[v]
  <2>1. PICK m \in Versions : \A u \in Versions : m <= u
    <3>1. Versions \in SUBSET Nat /\ Versions # {}
      BY VersionsAssumption
    <3> QED
      BY <3>1, LeastOf
  <2>2. \A n \in Versions : (\A u \in Versions : n <= u) => n = m
    BY <2>1, VersionsAssumption
  <2>3. m \in report
    <3>1. PICK v \in report : TRUE
      OBVIOUS
    <3>2. m = v \/ m < v
      BY <2>1, VersionsAssumption
    <3> QED
      BY <1>12, <3>2 DEF Prefix
  <2>4. \A v \in Versions : h[v].checked => h[m].checked /\ h[m].order <= h[v].order
    BY <1>12, <2>1 DEF FirstFirst
  <2>5. ASSUME NEW v \in Versions, i[v].checked
        PROVE  i[m].checked /\ i[m].order <= i[v].order
    <3>1. i[m].checked
      BY <1>1, <2>3
    <3>2. CASE h[m].checked /\ h[v].checked
      BY <1>1, <2>4, <3>1, <3>2
    <3>3. CASE h[m].checked /\ ~h[v].checked
      <4>1. i[m].order = h[m].order /\ v \in report
        BY <1>1, <1>7, <2>5, <3>3
      <4>2. h[m].order < i[v].order
        BY <1>8, <3>3, <4>1
      <4> QED
        BY <1>4, <3>1, <4>1, <4>2
    <3>4. CASE ~h[m].checked
      <4>1. ~h[v].checked /\ v \in report /\ m <= v
        BY <1>7, <2>1, <2>4, <2>5, <3>4
      <4> QED
        BY <1>1, <2>3, <3>1, <3>4, <4>1
    <3> QED
      BY <3>2, <3>3, <3>4
  <2>6. \A v \in Versions : i[v].checked => k[v] = i[v]
    BY <1>3, <2>3, <2>5
  <2>7. \A v \in Versions : h[v].checked => i[v] = h[v]
    BY <1>1
  <2>8. \A v \in Versions : h[v].checked => k[v] = h[v]
    BY <2>6, <2>7
  <2>9. ASSUME NEW v \in Versions, k[v].checked
        PROVE  k[m].checked /\ k[m].order <= k[v].order
    <3>1. k[v] = i[v]
      BY <1>6, <2>9
    <3>2. i[m].checked /\ i[m].order <= i[v].order
      BY <2>5, <2>9, <3>1
    <3> QED
      BY <2>6, <3>1, <3>2
  <2>10. FirstFirst(k)
    BY <2>2, <2>9 DEF FirstFirst
  <2> QED
    BY <2>8, <2>10
<1> QED
  BY <1>10, <1>11, <1>12 DEF k, i

\* What a run files by itself moves nothing a check filed.
LEMMA AddedKeeps ==
    ASSUME NEW h \in History, Sound(h), NEW k, Added(h, k)
    PROVE  /\ k \in History /\ Sound(k)
           /\ \A v \in Versions : /\ h[v].checked => k[v] = h[v]
                                  /\ k[v].checked => h[v].checked /\ k[v] = h[v]
                                  /\ h[v].order > 0 => k[v].order > 0
           /\ FirstFirst(h) => FirstFirst(k)
<1>1. \A v \in Versions : h[v].order \in Nat
  BY DEF History
<1>2. \A v \in Versions : /\ h[v].checked => k[v] = h[v]
                          /\ k[v].checked => h[v].checked /\ k[v] = h[v]
                          /\ h[v].order > 0 => k[v].order > 0
  BY <1>1 DEF Added, Sound
<1>3. Sound(k)
  BY <1>2 DEF Sound
<1>4. FirstFirst(h) => FirstFirst(k)
  <2> SUFFICES ASSUME FirstFirst(h), NEW v \in Versions, NEW m \in Versions, k[v].checked,
                      \A u \in Versions : m <= u
               PROVE  k[m].checked /\ k[m].order <= k[v].order
    BY DEF FirstFirst
  <2>1. h[v].checked /\ k[v] = h[v]
    BY <1>2
  <2>2. h[m].checked /\ h[m].order <= h[v].order
    BY <2>1 DEF FirstFirst
  <2> QED
    BY <1>2, <2>1, <2>2
<1> QED
  BY <1>2, <1>3, <1>4 DEF Added

-----------------------------------------------------------------------------
(* What every step does to the tables.                                     *)

\* A version a check filed stays where it is, a green record stays while
\* nothing is pruned, and what is new to a check's history is out there.
StoreStep ==
    /\ hist' \in [Resources -> History]
    /\ green' \in [Jobs -> [Resources -> [Versions -> Build]]]
    /\ \A r \in Resources : Sound(hist'[r])
    /\ \A r \in Windowed : FirstFirst(hist'[r])
    /\ \A r \in Resources \ Webhooks, v \in Versions :
          hist'[r][v].checked => hist[r][v].checked \/ v \in published[r]
    /\ \A r \in Steady, v \in Versions : hist[r][v].checked => hist'[r][v] = hist[r][v]
    /\ \A j \in Jobs, r \in Resources, v \in Versions :
          green'[j][r][v] # NoBuild => hist'[r][v].order > 0
    /\ HistoryLimit = 0 => \A j \in Jobs, r \in Resources, v \in Versions :
          green[j][r][v] # NoBuild => green'[j][r][v] # NoBuild

\* A step that touches neither the history nor the records of green builds.
LEMMA SameStore ==
    ASSUME Inv, UNCHANGED <<hist, green>>
    PROVE  StoreStep
BY DEF StoreStep, Inv, Typed, Filing, GreenFiled

\* A report is filed (history.go, RecordVersions).
LEMMA ReportStored ==
    ASSUME Inv, NEW r \in Resources, NEW report \in SUBSET Versions, report # {},
           r \notin Webhooks => report \subseteq published[r],
           r \in Windowed => Prefix(report),
           RecordVersions(r, report)
    PROVE  StoreStep
<1> DEFINE h == hist[r]
           k == PruneVersions(InsertNewVersions(h, report), report)
<1>1. /\ hist \in [Resources -> History]
      /\ green \in [Jobs -> [Resources -> [Versions -> Build]]]
      /\ \A q \in Resources : Sound(hist[q])
      /\ \A q \in Windowed : FirstFirst(hist[q])
  BY DEF Inv, Typed, Filing
<1>2. h \in History /\ Sound(h)
  BY <1>1
<1> HIDE DEF h
<1>3. /\ k \in History /\ Sound(k)
      /\ \A v \in Versions : k[v].checked => h[v].checked \/ v \in report
      /\ HistoryLimit = 0 =>
            /\ \A v \in Versions : /\ h[v].checked => k[v] = h[v]
                                   /\ h[v].order > 0 => k[v].order > 0
      /\ FirstFirst(h) /\ Prefix(report) =>
            /\ FirstFirst(k)
            /\ \A v \in Versions : h[v].checked => k[v] = h[v]
  BY <1>2, Reported
<1>4. /\ hist' = [hist EXCEPT ![r] = k]
      /\ green' = [j \in Jobs |-> [green[j] EXCEPT ![r] =
                     [v \in Versions |-> IF v \in Filed(k) THEN @[v] ELSE NoBuild]]]
  BY DEF RecordVersions, SetHistory, h
<1> HIDE DEF k
<1>5. hist' \in [Resources -> History] /\ hist'[r] = k /\ \A q \in Resources : q # r => hist'[q] = hist[q]
  BY <1>1, <1>3, <1>4
<1>6. ASSUME NEW j \in Jobs
      PROVE  /\ green'[j] \in [Resources -> [Versions -> Build]]
             /\ \A q \in Resources : q # r => green'[j][q] = green[j][q]
             /\ \A v \in Versions : green'[j][r][v] = IF v \in Filed(k) THEN green[j][r][v] ELSE NoBuild
  <2>1. green[j] \in [Resources -> [Versions -> Build]]
    BY <1>1
  <2>2. green'[j] = [green[j] EXCEPT ![r] =
                       [v \in Versions |-> IF v \in Filed(k) THEN green[j][r][v] ELSE NoBuild]]
    BY <1>4
  <2>3. NoBuild \in Build
    BY DEF NoBuild, Build
  <2>4. [v \in Versions |-> IF v \in Filed(k) THEN green[j][r][v] ELSE NoBuild] \in [Versions -> Build]
    BY <2>1, <2>3
  <2> QED
    BY <2>1, <2>2, <2>4
<1>7. green' \in [Jobs -> [Resources -> [Versions -> Build]]]
  <2>1. green' = [j \in Jobs |-> green'[j]]
    BY <1>4
  <2> QED
    BY <1>6, <2>1
<1>8. \A q \in Resources : Sound(hist'[q])
  BY <1>1, <1>3, <1>5
<1>9. r \in Windowed => FirstFirst(h) /\ Prefix(report)
  BY <1>1 DEF h
<1>10. \A q \in Windowed : FirstFirst(hist'[q])
  BY <1>1, <1>3, <1>5, <1>9 DEF Windowed
<1>11. \A q \in Resources \ Webhooks, v \in Versions :
          hist'[q][v].checked => hist[q][v].checked \/ v \in published[q]
  BY <1>3, <1>5 DEF h
<1>12. \A q \in Steady, v \in Versions : hist[q][v].checked => hist'[q][v] = hist[q][v]
  <2> SUFFICES ASSUME NEW q \in Steady, NEW v \in Versions, hist[q][v].checked
               PROVE  hist'[q][v] = hist[q][v]
    OBVIOUS
  <2>1. q \in Resources /\ (HistoryLimit # 0 => q \in Windowed)
    BY DEF Steady, Windowed
  <2>2. CASE q # r
    BY <1>5, <2>1, <2>2
  <2>3. CASE q = r
    BY <1>3, <1>5, <1>9, <2>1, <2>3 DEF h
  <2> QED
    BY <2>2, <2>3
<1>13. \A v \in Filed(k) : k[v].order > 0
  BY DEF Filed
<1>14. \A j \in Jobs, q \in Resources, v \in Versions :
          green'[j][q][v] # NoBuild => hist'[q][v].order > 0
  <2> SUFFICES ASSUME NEW j \in Jobs, NEW q \in Resources, NEW v \in Versions,
                      green'[j][q][v] # NoBuild
               PROVE  hist'[q][v].order > 0
    OBVIOUS
  <2>1. CASE q # r
    BY <1>5, <1>6, <2>1 DEF Inv, GreenFiled
  <2>2. CASE q = r
    BY <1>5, <1>6, <1>13, <2>2
  <2> QED
    BY <2>1, <2>2
<1>15. ASSUME HistoryLimit = 0, NEW j \in Jobs, NEW q \in Resources, NEW v \in Versions,
              green[j][q][v] # NoBuild
       PROVE  green'[j][q][v] # NoBuild
  <2>1. CASE q # r
    BY <1>6, <1>15, <2>1
  <2>2. CASE q = r
    <3>1. h[v].order > 0
      BY <1>15, <2>2 DEF Inv, GreenFiled, h
    <3>2. v \in Filed(k)
      BY <1>3, <1>15, <3>1 DEF Filed
    <3> QED
      BY <1>6, <1>15, <2>2, <3>2
  <2> QED
    BY <2>1, <2>2
<1> QED
  BY <1>5, <1>7, <1>8, <1>10, <1>11, <1>12, <1>14, <1>15 DEF StoreStep

\* A run files what it takes, puts or passed (history.go, ensureVersion).
LEMMA AddedStored ==
    ASSUME Inv, hist' = [r \in Resources |-> hist'[r]],
           \A r \in Resources : Added(hist[r], hist'[r]),
           green' \in [Jobs -> [Resources -> [Versions -> Build]]],
           \A j \in Jobs, r \in Resources, v \in Versions :
              /\ green'[j][r][v] = green[j][r][v] \/ hist'[r][v].order > 0
              /\ green[j][r][v] # NoBuild => green'[j][r][v] # NoBuild
    PROVE  StoreStep
<1>1. \A r \in Resources : hist[r] \in History /\ Sound(hist[r])
  BY DEF Inv, Typed, Filing
<1>2. ASSUME NEW r \in Resources
      PROVE  /\ hist'[r] \in History /\ Sound(hist'[r])
             /\ \A v \in Versions : /\ hist[r][v].checked => hist'[r][v] = hist[r][v]
                                    /\ hist'[r][v].checked => hist[r][v].checked
                                    /\ hist[r][v].order > 0 => hist'[r][v].order > 0
             /\ FirstFirst(hist[r]) => FirstFirst(hist'[r])
  BY <1>1, AddedKeeps
<1>3. hist' \in [Resources -> History]
  BY <1>2
<1>4. \A r \in Windowed : FirstFirst(hist'[r])
  BY <1>2 DEF Windowed, Inv, Filing
<1>5. \A r \in Steady : r \in Resources
  BY DEF Steady, Windowed
<1>6. \A j \in Jobs, r \in Resources, v \in Versions : green'[j][r][v] # NoBuild => hist'[r][v].order > 0
  BY <1>2 DEF Inv, GreenFiled
<1> QED
  BY <1>2, <1>3, <1>4, <1>5, <1>6 DEF StoreStep

\* A run past its claim is of a job, and with an input set has a version for each
\* of the job's gets.
LEMMA RunOf ==
    ASSUME Inv, NEW w \in Workers, bpc[w] # "idle"
    PROVE  /\ bjob[w] \in Jobs /\ Gets[bjob[w]] \subseteq Resources
           /\ Every[bjob[w]] \subseteq Gets[bjob[w]] /\ Puts[bjob[w]] \subseteq Resources
           /\ Bound(w) => bset[w] \in [Gets[bjob[w]] -> Versions]
<1>1. bjob[w] \in Jobs /\ (Bound(w) => bset[w] \in [Gets[bjob[w]] -> Versions])
  BY DEF Inv, Builds, RunOk
<1> QED
  BY <1>1, PollingAssumption, InputsAssumption

\* A poll and a delivery file what they report.
LEMMA PollStore ==
    ASSUME Inv, PollingNext
    PROVE  StoreStep
<1>1. CASE RecordHistory
  <2>1. ppc = "checked" /\ RecordVersions(pres, obs[pres].versions)
    BY <1>1 DEF RecordHistory
  <2>2. /\ pres \in Resources /\ obs[pres].versions # {}
        /\ obs[pres].versions \subseteq published[pres]
        /\ pres \in Windowed => Prefix(obs[pres].versions)
    BY <2>1 DEF Inv, InHand, Windowed
  <2>3. obs[pres].versions \in SUBSET Versions
    BY <2>2 DEF Inv, Typed
  <2> QED
    BY <2>1, <2>2, <2>3, ReportStored
<1>2. ASSUME NEW d \in handling, RecordDelivery(d)
      PROVE  StoreStep
  <2>1. d.r \in Webhooks /\ d.v \in Versions
    BY DEF Inv, Typed
  <2>2. d.r \in Resources /\ d.r \notin Windowed
    BY <2>1, PollingAssumption DEF Windowed
  <2>3. CASE UNCHANGED <<hist, green>>
    BY <2>3, SameStore
  <2>4. CASE RecordVersions(d.r, {d.v})
    BY <2>1, <2>2, <2>4, ReportStored
  <2> QED
    BY <1>2, <2>3, <2>4 DEF RecordDelivery
<1>3. CASE UNCHANGED <<hist, green>>
  BY <1>3, SameStore
<1>4. CASE \/ StartPoll \/ SeedColdStart \/ ReadDeliveries \/ AffectedJobs
           \/ StartRelease \/ StartAdvance \/ EndPoll
  BY <1>3, <1>4 DEF StartPoll, SeedColdStart, ReadDeliveries, AffectedJobs, StartRelease,
     StartAdvance, EndPoll, storeVars
<1>5. CASE \E r \in Resources : CheckResource(r) \/ ReadChecked(r) \/ Advance(r) \/ CheckFails(r)
  BY <1>3, <1>5 DEF CheckResource, ReadChecked, Advance, CheckFails, storeVars
<1>6. CASE \E j \in Jobs : EnqueueAffected(j) \/ ReleaseConstrained(j) \/ Manual(j)
  BY <1>3, <1>6 DEF EnqueueAffected, ReleaseConstrained, Manual, storeVars
<1>7. CASE \E r \in Resources, v \in Versions : Publish(r, v) \/ Receive(r, v)
  BY <1>3, <1>7 DEF Publish, Receive, storeVars
<1>8. CASE \E p \in BOOLEAN : SetPaused(p)
  BY <1>3, <1>8 DEF SetPaused, storeVars
<1> QED
  BY <1>1, <1>2, <1>4, <1>5, <1>6, <1>7, <1>8 DEF PollingNext, PollCycle, World

\* A run's refresh files what its check reports.
LEMMA RefreshStore ==
    ASSUME Inv, NEW w \in Workers, NEW r \in Resources, Refresh(w, r)
    PROVE  StoreStep
<1>1. CASE UNCHANGED <<hist, green>>
  BY <1>1, SameStore
<1>2. CASE Report(r) # {} /\ RecordVersions(r, Report(r))
  <2>1. Report(r) \subseteq published[r]
    BY DEF Report
  <2>2. published[r] \subseteq Versions
    BY DEF Inv, Typed
  <2>3. r \in Windowed => Prefix(Report(r))
    BY DEF Windowed, Report, Inv, Filing
  <2> QED
    BY <1>2, <2>1, <2>2, <2>3, ReportStored
<1> QED
  BY <1>1, <1>2 DEF Refresh

\* What a build takes is filed if it was not (cursor.go, take).
LEMMA TakeStore ==
    ASSUME Inv, NEW w \in Workers, TakeVersions(w)
    PROVE  /\ StoreStep
           /\ \A r \in Resources : hist'[r] = IF r \in Every[bjob[w]]
                                              THEN EnsureVersion(hist[r], bset[w][r]) ELSE hist[r]
           /\ \A r \in Resources : Added(hist[r], hist'[r])
           /\ \A r \in Every[bjob[w]] : hist'[r][bset[w][r]].order > 0
<1> DEFINE E == Every[bjob[w]]
<1>1. /\ bpc[w] = "recorded" /\ green' = green
      /\ hist' = [r \in Resources |-> IF r \in E THEN EnsureVersion(hist[r], bset[w][r]) ELSE hist[r]]
  BY DEF TakeVersions, At
<1>2. Bound(w) /\ bpc[w] # "idle"
  BY <1>1 DEF Bound
<1>3. E \subseteq Resources /\ \A r \in E : bset[w][r] \in Versions
  BY <1>2, RunOf
<1> HIDE DEF E
<1>4. \A r \in Resources : hist'[r] = IF r \in E THEN EnsureVersion(hist[r], bset[w][r]) ELSE hist[r]
  BY <1>1
<1>5. \A r \in Resources : hist[r] \in History
  BY DEF Inv, Typed
<1>6. ASSUME NEW r \in Resources
      PROVE  Added(hist[r], hist'[r]) /\ (r \in E => hist'[r][bset[w][r]].order > 0)
  <2>1. CASE r \in E
    BY <1>3, <1>4, <1>5, <2>1, Ensured
  <2>2. CASE r \notin E
    BY <1>4, <1>5, <2>2 DEF Added
  <2> QED
    BY <2>1, <2>2
<1>7. green \in [Jobs -> [Resources -> [Versions -> Build]]]
  BY DEF Inv, Typed
<1>8. hist' = [r \in Resources |-> hist'[r]]
  BY <1>1
<1>9. StoreStep
  BY <1>1, <1>6, <1>7, <1>8, AddedStored
<1> QED
  BY <1>3, <1>4, <1>6, <1>9 DEF E

\* So is what a put publishes (put.go).
LEMMA PutStore ==
    ASSUME Inv, NEW w \in Workers, NEW r \in Resources, NEW v \in Versions, Put(w, r, v)
    PROVE  StoreStep
<1>1. hist' = [hist EXCEPT ![r] = EnsureVersion(hist[r], v)] /\ green' = green
  BY DEF Put, RecordVersionOrder
<1>2. hist \in [Resources -> History] /\ green \in [Jobs -> [Resources -> [Versions -> Build]]]
  BY DEF Inv, Typed
<1>3. Added(hist[r], EnsureVersion(hist[r], v))
  BY <1>2, Ensured
<1>4. \A q \in Resources : Added(hist[q], hist'[q])
  BY <1>1, <1>2, <1>3 DEF Added
<1>5. hist' = [q \in Resources |-> hist'[q]]
  BY <1>1, <1>2
<1> QED
  BY <1>1, <1>2, <1>4, <1>5, AddedStored

\* And all a green build passed (versions.go, RecordPassedVersions).
LEMMA PassStore ==
    ASSUME Inv, NEW w \in Workers, BuildEnds(w)
    PROVE  StoreStep
<1>1. CASE UNCHANGED <<hist, green>>
  BY <1>1, SameStore
<1>2. CASE RecordPassedVersions(bjob[w], {<<r, bset[w][r]>> : r \in Gets[bjob[w]]} \cup bput[w])
  <2> DEFINE j == bjob[w]
             passed == {<<r, bset[w][r]>> : r \in Gets[j]} \cup bput[w]
             mine(r) == {v \in Versions : <<r, v>> \in passed}
  <2>1. Bound(w) /\ bpc[w] # "idle"
    BY DEF BuildEnds, At, Bound
  <2>2. j \in Jobs /\ Gets[j] \subseteq Resources /\ bset[w] \in [Gets[j] -> Versions]
    BY <2>1, RunOf
  <2>3. passed \in Build
    BY <2>2 DEF Inv, Builds, Build
  <2>4. /\ hist \in [Resources -> History]
        /\ green \in [Jobs -> [Resources -> [Versions -> Build]]]
    BY DEF Inv, Typed
  <2>5. /\ hist' = [r \in Resources |-> EnsureAll(hist[r], mine(r))]
        /\ green' = [green EXCEPT ![j] = [r \in Resources |-> [v \in Versions |->
                       IF <<r, v>> \in passed THEN passed ELSE green[j][r][v]]]]
    BY <1>2 DEF RecordPassedVersions
  <2> HIDE DEF j, passed
  <2>6. ASSUME NEW r \in Resources
        PROVE  Added(hist[r], hist'[r]) /\ \A v \in mine(r) : hist'[r][v].order > 0
    <3>1. hist[r] \in History /\ mine(r) \in SUBSET Versions
      BY <2>4
    <3>2. hist'[r] = EnsureAll(hist[r], mine(r))
      BY <2>5
    <3> HIDE DEF mine
    <3> QED
      BY <3>1, <3>2, EnsuredAll
  <2>7. hist' = [r \in Resources |-> hist'[r]]
    BY <2>5
  <2>8. DOMAIN green' = Jobs /\ \A i \in Jobs : i # j => green'[i] = green[i]
    BY <2>4, <2>5
  <2>9. green'[j] = [r \in Resources |-> [v \in Versions |->
                       IF <<r, v>> \in passed THEN passed ELSE green[j][r][v]]]
    BY <2>2, <2>4, <2>5 DEF j
  <2>10. \A r \in Resources, v \in Versions :
            green'[j][r][v] = IF <<r, v>> \in passed THEN passed ELSE green[j][r][v]
    BY <2>9
  <2>11. green'[j] \in [Resources -> [Versions -> Build]]
    BY <2>2, <2>3, <2>4, <2>9 DEF j
  <2>12. green' \in [Jobs -> [Resources -> [Versions -> Build]]]
    <3>1. green' = [i \in Jobs |-> green'[i]]
      BY <2>4, <2>5
    <3> QED
      BY <2>4, <2>8, <2>11, <3>1
  <2>13. ASSUME NEW i \in Jobs, NEW r \in Resources, NEW v \in Versions
         PROVE  /\ green'[i][r][v] = green[i][r][v] \/ hist'[r][v].order > 0
                /\ green[i][r][v] # NoBuild => green'[i][r][v] # NoBuild
    <3>1. CASE i = j /\ <<r, v>> \in passed
      <4>1. v \in mine(r) /\ passed # NoBuild
        BY <3>1 DEF NoBuild
      <4> QED
        BY <2>6, <2>10, <3>1, <4>1
    <3>2. CASE i # j \/ <<r, v>> \notin passed
      BY <2>8, <2>10, <3>2
    <3> QED
      BY <3>1, <3>2
  <2> QED
    BY <2>6, <2>7, <2>12, <2>13, AddedStored
<1> QED
  BY <1>1, <1>2 DEF BuildEnds

\* Every step keeps what the tables promise.
LEMMA StoreKept ==
    ASSUME Inv, [Next]_vars
    PROVE  StoreStep
<1>1. CASE PollingNext /\ Aside
  BY <1>1, PollStore
<1>2. CASE UNCHANGED <<hist, green>>
  BY <1>2, SameStore
<1>3. CASE Crash
  BY <1>2, <1>3 DEF Crash, storeVars
<1>4. ASSUME NEW w \in Workers, Run(w)
      PROVE  StoreStep
  <2>1. CASE \/ \E j \in Jobs : Claim(w, j)
             \/ LockCursor(w) \/ Resolve(w) \/ ResolveNothing(w) \/ ResumeRecorded(w)
             \/ RecordInputs(w) \/ StartBuild(w) \/ Resume(w)
    BY <1>2, <2>1 DEF Claim, LockCursor, Resolve, ResolveNothing, ResumeRecorded, RecordInputs,
       StartBuild, Resume, storeVars, pollingVars
  <2> QED
    BY <1>4, <2>1, RefreshStore, TakeStore, PassStore DEF Run
<1>5. ASSUME NEW w \in Workers, Publishes(w)
      PROVE  StoreStep
  BY <1>5, PutStore DEF Publishes
<1>6. CASE UNCHANGED vars
  BY <1>2, <1>6 DEF vars, pollingVars, storeVars
<1> QED
  BY <1>1, <1>3, <1>4, <1>5, <1>6 DEF Next

-----------------------------------------------------------------------------
(* The poll cycle, the deliveries and the world.                           *)

PollInv == Typed /\ Filing /\ InHand /\ Delivered

\* More may be published, in order where the resource keeps one.
Grows ==
    /\ published' \in [Resources -> SUBSET Versions]
    /\ \A r \in Resources : published[r] \subseteq published'[r]
    /\ \A r \in Resources \ Backfills : Prefix(published'[r])

\* Every step but the outside world's publishing leaves what is published alone.
LEMMA SameGrows ==
    ASSUME Inv, published' = published
    PROVE  Grows
BY DEF Inv, Typed, Filing, Grows

\* How the store moves keeps what is known of the filed history.
LEMMA FilingKept ==
    ASSUME Inv, StoreStep, Grows
    PROVE  Filing'
<1>1. \A r \in Resources \ Webhooks, v \in Versions : hist'[r][v].checked => v \in published'[r]
  BY DEF Inv, Filing, StoreStep, Grows
<1> QED
  BY <1>1 DEF Filing, StoreStep, Grows

\* Where nothing is pruned what a check filed stays.
LEMMA Stays ==
    ASSUME StoreStep, HistoryLimit = 0, NEW r \in Resources, NEW v \in Versions, hist[r][v].checked
    PROVE  hist'[r][v] = hist[r][v]
BY DEF StoreStep, Steady

\* What holds of the webhook resources a step does not write stays.
LEMMA DeliveredKept ==
    ASSUME Inv, StoreStep, NEW r \in Webhooks, HistoryLimit = 0, Webhooks \subseteq Polled,
           checked'[r] = checked[r], obs'[r] = obs[r]
    PROVE  /\ checked'[r] # None => hist'[r][checked'[r]].checked
           /\ obs'[r].dirty => obs'[r].latest # None
           /\ obs'[r].previous # None => hist'[r][obs'[r].previous].checked
           /\ obs'[r].latest # None =>
                 /\ hist'[r][obs'[r].latest].checked
                 /\ obs'[r].previous # None =>
                       hist'[r][obs'[r].previous].order <= hist'[r][obs'[r].latest].order
<1>1. r \in Resources
  BY PollingAssumption
<1>2. /\ checked[r] \in Versions \cup {None} /\ obs[r].latest \in Versions \cup {None}
      /\ obs[r].previous \in Versions \cup {None}
  BY <1>1 DEF Inv, Typed, Observations
<1>3. /\ checked[r] # None => hist[r][checked[r]].checked
      /\ obs[r].dirty => obs[r].latest # None
      /\ obs[r].previous # None => hist[r][obs[r].previous].checked
      /\ obs[r].latest # None =>
            /\ hist[r][obs[r].latest].checked
            /\ obs[r].previous # None =>
                  hist[r][obs[r].previous].order <= hist[r][obs[r].latest].order
  BY DEF Inv, Delivered
<1>4. \A v \in Versions : hist[r][v].checked => hist'[r][v] = hist[r][v]
  BY <1>1, Stays
<1> QED
  BY <1>2, <1>3, <1>4

\* A step that leaves the observations, the baselines and the cursors alone.
LEMMA PollQuiet ==
    ASSUME Inv, StoreStep, Grows, obs' = obs, mark' \in [Jobs -> [Resources -> Nat]],
           checked' \in [Resources -> Versions \cup {None}],
           Webhooks \subseteq Polled => \A r \in Webhooks : checked'[r] = checked[r],
           handling' \subseteq handling \/ \A d \in handling' : d.r \in Webhooks /\ d.v \in Versions,
           \/ UNCHANGED <<ppc, pres>>
           \/ ppc' \notin {"checked", "seeding", "delivered"}
    PROVE  PollInv'
<1>1. Filing'
  BY FilingKept
<1>2. \A d \in handling' : d.r \in Webhooks /\ d.v \in Versions
  BY DEF Inv, Typed
<1>3. Typed'
  BY <1>2 DEF Typed, Inv, StoreStep, Grows
<1>4. InHand'
  <2>1. CASE ppc' \notin {"checked", "seeding", "delivered"}
    BY <2>1 DEF InHand
  <2>2. CASE UNCHANGED <<ppc, pres>>
    BY <2>2 DEF InHand, Inv, Grows
  <2> QED
    BY <2>1, <2>2
<1>5. Delivered'
  <2> SUFFICES ASSUME HistoryLimit = 0, Webhooks \subseteq Polled, NEW r \in Webhooks
               PROVE  (/\ checked[r] # None => hist[r][checked[r]].checked
                       /\ obs[r].dirty => obs[r].latest # None
                       /\ obs[r].previous # None => hist[r][obs[r].previous].checked
                       /\ obs[r].latest # None =>
                             /\ hist[r][obs[r].latest].checked
                             /\ obs[r].previous # None =>
                                   hist[r][obs[r].previous].order <= hist[r][obs[r].latest].order)'
    BY DEF Delivered, Polled
  <2>1. checked'[r] = checked[r] /\ obs'[r] = obs[r]
    OBVIOUS
  <2> QED
    BY <2>1, DeliveredKept
<1> QED
  BY <1>1, <1>3, <1>4, <1>5 DEF PollInv

\* A step that observes one resource.
LEMMA PollObserves ==
    ASSUME Inv, StoreStep, published' = published, handling' = handling,
           NEW r \in Resources, NEW o \in Observations, obs' = [obs EXCEPT ![r] = o],
           checked' \in [Resources -> Versions \cup {None}],
           mark' \in [Jobs -> [Resources -> Nat]],
           \A q \in Webhooks : checked'[q] = checked[q],
           \/ ppc' \notin {"checked", "seeding", "delivered"}
           \/ ppc' = "delivered" /\ pres' \in Webhooks
           \/ /\ ppc' \in {"checked", "seeding"} /\ pres' = r /\ r \in Resources \ Webhooks
              /\ o.versions # {} /\ o.versions \subseteq published[r]
              /\ r \notin AfterCursor \cup Backfills => Prefix(o.versions),
           r \in Webhooks /\ HistoryLimit = 0 /\ Webhooks \subseteq Polled =>
              /\ o.dirty => o.latest # None
              /\ o.previous # None => hist'[r][o.previous].checked
              /\ o.latest # None =>
                    /\ hist'[r][o.latest].checked
                    /\ o.previous # None => hist'[r][o.previous].order <= hist'[r][o.latest].order
    PROVE  PollInv'
<1>1. Grows /\ Filing'
  BY SameGrows, FilingKept
<1>2. obs \in [Resources -> Observations]
  BY DEF Inv, Typed
<1>3. /\ obs' \in [Resources -> Observations] /\ obs'[r] = o
      /\ \A q \in Resources : q # r => obs'[q] = obs[q]
  BY <1>2
<1>4. Typed'
  BY <1>1, <1>3 DEF Typed, Inv, StoreStep, Grows
<1>5. InHand'
  BY <1>3 DEF InHand
<1>6. Delivered'
  <2> SUFFICES ASSUME HistoryLimit = 0, Webhooks \subseteq Polled, NEW q \in Webhooks
               PROVE  (/\ checked[q] # None => hist[q][checked[q]].checked
                       /\ obs[q].dirty => obs[q].latest # None
                       /\ obs[q].previous # None => hist[q][obs[q].previous].checked
                       /\ obs[q].latest # None =>
                             /\ hist[q][obs[q].latest].checked
                             /\ obs[q].previous # None =>
                                   hist[q][obs[q].previous].order <= hist[q][obs[q].latest].order)'
    BY DEF Delivered, Polled
  <2>1. q \in Resources
    BY PollingAssumption
  <2>2. CASE q # r
    BY <1>3, <2>1, <2>2, DeliveredKept
  <2>3. CASE q = r
    <3>1. checked[q] \in Versions \cup {None}
      BY <2>1 DEF Inv, Typed
    <3>2. checked[q] # None => hist[q][checked[q]].checked
      BY DEF Inv, Delivered
    <3>3. checked'[q] # None => hist'[q][checked'[q]].checked
      BY <2>1, <3>1, <3>2, Stays
    <3> QED
      BY <1>3, <2>3, <3>3
  <2> QED
    BY <2>2, <2>3
<1> QED
  BY <1>1, <1>4, <1>5, <1>6 DEF PollInv

\* No observation is one; and an observation is of its type.
LEMMA ObsTypes ==
    ASSUME Inv
    PROVE  /\ NoObs \in Observations
           /\ NoObs.latest = None /\ NoObs.previous = None /\ ~NoObs.dirty
           /\ obs \in [Resources -> Observations]
           /\ checked \in [Resources -> Versions \cup {None}]
           /\ mark \in [Jobs -> [Resources -> Nat]]
           /\ \A r \in Resources : /\ Report(r) \subseteq published[r]
                                   /\ Report(r) \in SUBSET Versions
BY DEF NoObs, Observations, Inv, Typed, Report

\* The poller asks a resource for its versions (trigger.go, checkResource).
LEMMA CheckResourcePoll ==
    ASSUME Inv, StoreStep, NEW r \in Resources, CheckResource(r)
    PROVE  PollInv'
<1>1. /\ ppc = "observing" /\ r \notin Webhooks
      /\ published' = published /\ handling' = handling /\ checked' = checked /\ mark' = mark
  BY DEF CheckResource, storeVars
<1>2. CASE Report(r) # {}
  <2> DEFINE o == [latest |-> Max(Report(r)), previous |-> checked[r], versions |-> Report(r),
                   dirty |-> checked[r] \notin {None, Max(Report(r))},
                   coldStart |-> checked[r] = None]
  <2>1. obs' = [obs EXCEPT ![r] = o] /\ ppc' = "checked" /\ pres' = r
    BY <1>2 DEF CheckResource
  <2>2. Max(Report(r)) \in Versions
    BY <1>2, MaxOf, ObsTypes
  <2>3. o \in Observations
    BY <2>2, ObsTypes DEF Observations
  <2>4. o.versions = Report(r)
    OBVIOUS
  <2>5. r \notin AfterCursor \cup Backfills => Prefix(Report(r))
    BY <1>1 DEF Report, Inv, Filing
  <2> HIDE DEF o
  <2> QED
    BY <1>1, <1>2, <2>1, <2>3, <2>4, <2>5, ObsTypes, PollObserves
<1>3. CASE Report(r) = {}
  <2> DEFINE p == [latest |-> checked[r], previous |-> checked[r], versions |-> {},
                   dirty |-> FALSE, coldStart |-> FALSE]
             o == IF checked[r] = None THEN NoObs ELSE p
  <2>1. obs' = [obs EXCEPT ![r] = o] /\ ppc' = ppc
    BY <1>3 DEF CheckResource
  <2>2. p \in Observations
    BY ObsTypes DEF Observations
  <2>3. o \in Observations
    BY <2>2, ObsTypes
  <2> HIDE DEF o
  <2> QED
    BY <1>1, <2>1, <2>3, ObsTypes, PollObserves
<1> QED
  BY <1>2, <1>3

\* The report in hand is filed, and a cold start goes on to seed the baseline.
LEMMA RecordHistoryPoll ==
    ASSUME Inv, StoreStep, RecordHistory
    PROVE  PollInv'
<1>1. /\ ppc = "checked" /\ published' = published /\ handling' = handling
      /\ checked' = checked /\ mark' = mark
  BY DEF RecordHistory
<1>2. pres \in Resources \ Webhooks
  BY <1>1 DEF Inv, InHand
<1>3. CASE obs[pres].coldStart
  <2>1. ppc' = "seeding" /\ pres' = pres /\ obs' = [obs EXCEPT ![pres] = obs[pres]]
    BY <1>3, ObsTypes DEF RecordHistory
  <2>2. PICK r \in Resources : r = pres
    BY <1>2
  <2>3. obs[r] \in Observations
    BY ObsTypes
  <2>4. /\ obs[r].versions # {} /\ obs[r].versions \subseteq published[r]
        /\ r \notin AfterCursor \cup Backfills => Prefix(obs[r].versions)
    BY <1>1, <2>2 DEF Inv, InHand
  <2> QED
    BY <1>1, <1>2, <2>1, <2>2, <2>3, <2>4, ObsTypes, PollObserves
<1>4. CASE ~obs[pres].coldStart
  <2>1. PICK r \in Resources : r = pres
    BY <1>2
  <2> DEFINE b == obs[r].dirty \/ Fresh(hist[r], obs[r].versions) # {}
             o == [obs[r] EXCEPT !.dirty = b]
  <2>2. obs' = [obs EXCEPT ![r] = o] /\ ppc' = "observing"
    BY <1>4, <2>1 DEF RecordHistory
  <2>3. b \in BOOLEAN
    OBVIOUS
  <2> HIDE DEF b
  <2>4. o \in Observations
    BY <2>3, ObsTypes DEF Observations
  <2> HIDE DEF o
  <2> QED
    BY <1>1, <1>2, <2>1, <2>2, <2>4, ObsTypes, PollObserves
<1> QED
  BY <1>3, <1>4

\* A cold start marks a number (cursor.go, coldStartMark), and no cursor goes back.
LEMMA Seeds ==
    ASSUME Inv, SeedColdStart
    PROVE  /\ mark' \in [Jobs -> [Resources -> Nat]]
           /\ \A j \in Jobs, r \in Resources : mark[j][r] <= mark'[j][r]
<1> DEFINE order == ColdStartMark(hist[pres], obs[pres].latest)
<1>1. pres \in Resources
  BY DEF Inv, InHand, SeedColdStart
<1>2. hist[pres] \in History
  BY <1>1 DEF Inv, Typed
<1>3. order \in Nat
  <2>1. Filed(hist[pres]) \ {obs[pres].latest} \in SUBSET Versions
    BY DEF Filed
  <2>2. Max({hist[pres][v].order : v \in Filed(hist[pres]) \ {obs[pres].latest}} \cup {0}) \in Nat
    BY <1>2, <2>1, HighestOf
  <2>3. Top(hist[pres]) \in Nat
    BY <1>2, TopIsHighest
  <2> QED
    BY <2>2, <2>3 DEF ColdStartMark
<1>4. mark \in [Jobs -> [Resources -> Nat]]
  BY ObsTypes
<1>5. mark' = [j \in Jobs |-> IF pres \in Gets[j]
                 THEN [mark[j] EXCEPT ![pres] = Forward(mark[j][pres], order)] ELSE mark[j]]
  BY DEF SeedColdStart
<1> HIDE DEF order
<1>6. \A n \in Nat : Forward(n, order) \in Nat /\ n <= Forward(n, order)
  BY <1>3 DEF Forward
<1>7. ASSUME NEW j \in Jobs
      PROVE  /\ mark'[j] \in [Resources -> Nat]
             /\ \A r \in Resources : mark[j][r] <= mark'[j][r]
  <2>1. mark[j] \in [Resources -> Nat] /\ mark[j][pres] \in Nat
    BY <1>1, <1>4
  <2>2. CASE pres \in Gets[j]
    <3> DEFINE f == Forward(mark[j][pres], order)
    <3>1. mark'[j] = [mark[j] EXCEPT ![pres] = f]
      BY <1>5, <2>2
    <3>2. f \in Nat /\ mark[j][pres] <= f
      BY <1>6, <2>1
    <3> HIDE DEF f
    <3>3. mark'[j] \in [Resources -> Nat] /\ mark'[j][pres] = f
          /\ \A r \in Resources : r # pres => mark'[j][r] = mark[j][r]
      BY <1>1, <2>1, <3>1, <3>2
    <3>4. \A n \in Nat : n <= n
      OBVIOUS
    <3> QED
      BY <2>1, <3>2, <3>3, <3>4
  <2>3. CASE pres \notin Gets[j]
    <3>1. mark'[j] = mark[j]
      BY <1>5, <2>3
    <3>2. \A n \in Nat : n <= n
      OBVIOUS
    <3> QED
      BY <2>1, <3>1, <3>2
  <2> QED
    BY <2>2, <2>3
<1>8. mark' = [j \in Jobs |-> mark'[j]]
  BY <1>5
<1> QED
  BY <1>7, <1>8

\* A first observation sets the baseline to what it saw.
LEMMA SeedColdStartPoll ==
    ASSUME Inv, StoreStep, SeedColdStart
    PROVE  PollInv'
<1>1. /\ ppc = "seeding" /\ published' = published /\ handling' = handling
      /\ checked' = [checked EXCEPT ![pres] = obs[pres].latest]
      /\ obs' = [obs EXCEPT ![pres].dirty = TRUE] /\ ppc' = "observing"
  BY DEF SeedColdStart, RecordCheckedVersion
<1>2. PICK r \in Resources : r = pres /\ r \notin Webhooks
  BY <1>1 DEF Inv, InHand
<1> DEFINE o == [obs[r] EXCEPT !.dirty = TRUE]
<1>3. o \in Observations /\ obs[r].latest \in Versions \cup {None}
  BY ObsTypes DEF Observations
<1>4. obs' = [obs EXCEPT ![r] = o]
  BY <1>1, <1>2
<1>5. checked' \in [Resources -> Versions \cup {None}] /\ \A q \in Webhooks : checked'[q] = checked[q]
  BY <1>1, <1>2, <1>3, ObsTypes, PollingAssumption
<1>6. mark' \in [Jobs -> [Resources -> Nat]]
  BY Seeds
<1> HIDE DEF o
<1> QED
  BY <1>1, <1>2, <1>3, <1>4, <1>5, <1>6, PollObserves

\* A webhook resource's observation starts from the baseline it reads, and the
\* deliveries are read in a later step.
LEMMA ReadCheckedPoll ==
    ASSUME Inv, StoreStep, NEW r \in Resources, ReadChecked(r)
    PROVE  PollInv'
<1> DEFINE o == [NoObs EXCEPT !.previous = checked[r]]
<1>1. /\ r \in Webhooks /\ published' = published /\ handling' = handling
      /\ checked' = checked /\ mark' = mark /\ hist' = hist
      /\ ppc' = "delivered" /\ pres' = r /\ obs' = [obs EXCEPT ![r] = o]
  BY DEF ReadChecked, storeVars
<1>2. o \in Observations /\ o.previous = checked[r] /\ o.latest = None /\ ~o.dirty
  BY ObsTypes DEF Observations, NoObs
<1>3. HistoryLimit = 0 /\ Webhooks \subseteq Polled =>
         (o.previous # None => hist'[r][o.previous].checked)
  BY <1>1, <1>2 DEF Inv, Delivered
<1> HIDE DEF o
<1> QED
  BY <1>1, <1>2, <1>3, ObsTypes, PollObserves

\* The deliveries are read: the newest is an order no lower than the baseline's,
\* wherever the baseline has gone since it was read.
LEMMA ReadDeliveriesPoll ==
    ASSUME Inv, StoreStep, ReadDeliveries
    PROVE  PollInv'
<1>1. /\ ppc = "delivered" /\ published' = published /\ handling' = handling
      /\ checked' = checked /\ mark' = mark /\ hist' = hist /\ ppc' = "observing"
  BY DEF ReadDeliveries, storeVars
<1>2. PICK r \in Resources : r = pres /\ r \in Webhooks
  BY <1>1, PollingAssumption DEF Inv, InHand
<1> DEFINE known == ResourceVersions(r)
           latest == Newest(hist[r], known)
           previous == obs[r].previous
           p == [latest |-> latest, previous |-> previous, versions |-> {},
                 dirty |-> previous # latest, coldStart |-> FALSE]
           o == IF known = {} THEN NoObs ELSE p
<1>3. obs' = [obs EXCEPT ![r] = o]
  BY <1>2 DEF ReadDeliveries
<1>4. hist[r] \in History /\ Sound(hist[r]) /\ previous \in Versions \cup {None}
  BY ObsTypes DEF Inv, Typed, Filing, Observations
<1>5. /\ known \in SUBSET Versions /\ \A v \in known : hist[r][v].checked
      /\ \A v \in Versions : hist[r][v].checked => v \in known
  BY <1>4 DEF ResourceVersions, Filed, Sound
<1>6. known # {} => latest \in known /\ \A u \in known : hist[r][u].order <= hist[r][latest].order
  <2> HIDE DEF known
  <2> QED
    BY <1>4, <1>5, NewestOf
<1> HIDE DEF known, latest
<1>7. known # {} => latest \in Versions /\ latest # None
  BY <1>5, <1>6, VersionsAssumption DEF None
<1>8. known # {} => p \in Observations
  BY <1>4, <1>7 DEF Observations
<1>9. o \in Observations
  BY <1>8, ObsTypes
<1>10. ASSUME HistoryLimit = 0, Webhooks \subseteq Polled
       PROVE  /\ o.dirty => o.latest # None
              /\ o.previous # None => hist'[r][o.previous].checked
              /\ o.latest # None =>
                    /\ hist'[r][o.latest].checked
                    /\ o.previous # None => hist'[r][o.previous].order <= hist'[r][o.latest].order
  <2>1. CASE known = {}
    BY <2>1, ObsTypes
  <2>2. CASE known # {}
    <3>1. o = p
      BY <2>2
    <3>2. o.latest = latest /\ o.previous = previous
      BY <3>1
    <3>3. previous # None => hist[r][previous].checked
      BY <1>2, <1>10 DEF Inv, Delivered
    <3>4. previous # None => previous \in known
      BY <1>4, <1>5, <3>3
    <3> HIDE DEF o, p, previous
    <3> QED
      BY <1>1, <1>5, <1>6, <1>7, <2>2, <3>2, <3>3, <3>4
  <2> QED
    BY <2>1, <2>2
<1> HIDE DEF o
<1> QED
  BY <1>1, <1>3, <1>9, <1>10, ObsTypes, PollObserves

\* A write of the baseline that leaves the observations alone.
LEMMA AdvancePoll ==
    ASSUME Inv, StoreStep, NEW r \in Resources, Advance(r)
    PROVE  PollInv'
<1>1. /\ hist' = hist /\ published' = published /\ handling' = handling /\ mark' = mark
      /\ ppc' = ppc /\ pres' = pres /\ obs' = obs
  BY DEF Advance
<1> DEFINE latest == obs[r].latest
           new == IF r \in Webhooks
                  THEN IF obs[r].dirty /\ checked[r] = obs[r].previous THEN latest ELSE checked[r]
                  ELSE latest
<1>2. latest \in Versions \cup {None} /\ checked[r] \in Versions \cup {None}
  BY ObsTypes DEF Observations
<1>3. checked' = [checked EXCEPT ![r] = new]
  BY ObsTypes DEF Advance, RecordCheckedVersion, CompareAndSetCheckedVersion
<1>4. new \in Versions \cup {None}
  BY <1>2
<1>5. r \in Webhooks /\ HistoryLimit = 0 /\ Webhooks \subseteq Polled =>
         (new # None => hist[r][new].checked)
  BY DEF Inv, Delivered
<1> HIDE DEF new
<1>6. /\ checked' \in [Resources -> Versions \cup {None}] /\ checked'[r] = new
      /\ \A q \in Resources : q # r => checked'[q] = checked[q]
  BY <1>3, <1>4, ObsTypes
<1>7. Grows /\ Filing'
  BY <1>1, SameGrows, FilingKept
<1>8. Typed'
  BY <1>1, <1>6, <1>7 DEF Typed, Inv, StoreStep, Grows
<1>9. InHand'
  BY <1>1 DEF InHand, Inv
<1>10. Delivered'
  <2> SUFFICES ASSUME HistoryLimit = 0, Webhooks \subseteq Polled, NEW q \in Webhooks
               PROVE  (/\ checked[q] # None => hist[q][checked[q]].checked
                       /\ obs[q].dirty => obs[q].latest # None
                       /\ obs[q].previous # None => hist[q][obs[q].previous].checked
                       /\ obs[q].latest # None =>
                             /\ hist[q][obs[q].latest].checked
                             /\ obs[q].previous # None =>
                                   hist[q][obs[q].previous].order <= hist[q][obs[q].latest].order)'
    BY DEF Delivered, Polled
  <2>1. q \in Resources
    BY PollingAssumption
  <2>2. checked'[q] # None => hist'[q][checked'[q]].checked
    BY <1>1, <1>5, <1>6, <2>1 DEF Inv, Delivered
  <2> QED
    BY <1>1, <2>2 DEF Inv, Delivered
<1> QED
  BY <1>7, <1>8, <1>9, <1>10 DEF PollInv

\* All observations are dropped: the end of a poll, or of the process.
LEMMA NoObsPoll ==
    ASSUME Inv, StoreStep, obs' = [r \in Resources |-> NoObs], ppc' = "idle",
           published' = published, handling' \subseteq handling, checked' = checked, mark' = mark
    PROVE  PollInv'
<1>1. Grows /\ Filing'
  BY SameGrows, FilingKept
<1>2. obs' \in [Resources -> Observations] /\ \A r \in Resources : obs'[r] = NoObs
  BY ObsTypes
<1>3. Typed'
  BY <1>1, <1>2 DEF Typed, Inv, StoreStep, Grows
<1>4. InHand'
  BY DEF InHand
<1>5. Delivered'
  <2> SUFFICES ASSUME HistoryLimit = 0, Webhooks \subseteq Polled, NEW q \in Webhooks
               PROVE  (/\ checked[q] # None => hist[q][checked[q]].checked
                       /\ obs[q].dirty => obs[q].latest # None
                       /\ obs[q].previous # None => hist[q][obs[q].previous].checked
                       /\ obs[q].latest # None =>
                             /\ hist[q][obs[q].latest].checked
                             /\ obs[q].previous # None =>
                                   hist[q][obs[q].previous].order <= hist[q][obs[q].latest].order)'
    BY DEF Delivered, Polled
  <2>1. q \in Resources
    BY PollingAssumption
  <2>2. checked[q] \in Versions \cup {None}
    BY <2>1, ObsTypes
  <2>3. checked[q] # None => hist[q][checked[q]].checked
    BY DEF Inv, Delivered
  <2>4. checked'[q] # None => hist'[q][checked'[q]].checked
    BY <2>1, <2>2, <2>3, Stays
  <2> QED
    BY <1>2, <2>1, <2>4, ObsTypes
<1> QED
  BY <1>1, <1>3, <1>4, <1>5 DEF PollInv

\* What a delivery's transaction does to its resource.
LEMMA DeliveryEffect ==
    ASSUME Inv, NEW d \in handling, RecordDelivery(d)
    PROVE  /\ d.r \in Webhooks /\ d.r \in Resources /\ d.v \in Versions
           /\ checked' = [checked EXCEPT ![d.r] = checked'[d.r]]
           /\ \/ checked'[d.r] = checked[d.r]
              \/ /\ checked'[d.r] = d.v
                 /\ HistoryLimit = 0 =>
                       /\ hist'[d.r][d.v].checked
                       /\ \A u \in Versions : hist[d.r][u].checked =>
                             hist'[d.r][u].order <= hist'[d.r][d.v].order
<1>1. d.r \in Webhooks /\ d.r \in Resources /\ d.v \in Versions
  BY PollingAssumption DEF Inv, Typed
<1>2. checked \in [Resources -> Versions \cup {None}]
  BY ObsTypes
<1>3. CASE checked' = checked
  <2>1. checked = [checked EXCEPT ![d.r] = checked[d.r]]
    BY <1>2
  <2> QED
    BY <1>1, <1>3, <2>1
<1>4. CASE /\ Fresh(hist[d.r], {d.v}) # {} /\ RecordVersions(d.r, {d.v})
           /\ RecordCheckedVersion(d.r, d.v)
  <2>1. checked' = [checked EXCEPT ![d.r] = d.v] /\ checked'[d.r] = d.v
    BY <1>1, <1>2, <1>4 DEF RecordCheckedVersion
  <2> DEFINE h == hist[d.r]
             k == PruneVersions(InsertNewVersions(h, {d.v}), {d.v})
  <2>2. h \in History /\ Sound(h) /\ hist \in [Resources -> History]
    BY <1>1 DEF Inv, Typed, Filing
  <2>3. hist'[d.r] = k
    BY <1>1, <1>4, <2>2 DEF RecordVersions, SetHistory
  <2>4. ~h[d.v].checked
    BY <1>4 DEF Fresh
  <2> HIDE DEF h
  <2>5. HistoryLimit = 0 =>
           /\ \A v \in {d.v} : k[v].checked
           /\ \A u \in Versions, v \in {d.v} : h[u].checked /\ ~h[v].checked =>
                 k[u].order <= k[v].order
    <3>1. {d.v} \in SUBSET Versions /\ {d.v} # {}
      BY <1>1
    <3> QED
      BY <2>2, <3>1, Reported
  <2> HIDE DEF k
  <2>6. HistoryLimit = 0 => /\ k[d.v].checked
                            /\ \A u \in Versions : h[u].checked => k[u].order <= k[d.v].order
    BY <2>4, <2>5
  <2> QED
    BY <1>1, <2>1, <2>3, <2>6 DEF h
<1> QED
  BY <1>3, <1>4 DEF RecordDelivery

\* A delivery is filed: it is placed above all, so a poll in progress that read an
\* older baseline can only find that the baseline has moved.
LEMMA RecordDeliveryPoll ==
    ASSUME Inv, StoreStep, NEW d \in handling, RecordDelivery(d)
    PROVE  PollInv'
<1>1. /\ published' = published /\ handling' \subseteq handling /\ mark' = mark
      /\ ppc' = ppc /\ pres' = pres /\ obs' = obs
  BY DEF RecordDelivery, pollVars
<1>2. PICK r \in Resources : r = d.r
  BY DeliveryEffect
<1>3. /\ d.v \in Versions
      /\ checked' = [checked EXCEPT ![r] = checked'[r]]
      /\ checked'[r] = checked[r] \/ (checked'[r] = d.v /\ (HistoryLimit = 0 => hist'[r][d.v].checked))
  BY <1>2, DeliveryEffect
<1>4. checked[r] \in Versions \cup {None}
  BY ObsTypes
<1> DEFINE c == checked'[r]
<1>5. c \in Versions \cup {None}
  BY <1>3, <1>4
<1>6. checked' = [checked EXCEPT ![r] = c]
  BY <1>3
<1>7. c = checked[r] \/ (c = d.v /\ (HistoryLimit = 0 => hist'[r][c].checked))
  BY <1>3
<1>8. c = checked'[r]
  OBVIOUS
<1> HIDE DEF c
<1>9. checked' \in [Resources -> Versions \cup {None}] /\ \A q \in Resources : q # r => checked'[q] = checked[q]
  BY <1>5, <1>6, ObsTypes
<1>10. Grows /\ Filing'
  BY <1>1, SameGrows, FilingKept
<1>11. Typed'
  BY <1>1, <1>9, <1>10 DEF Typed, Inv, StoreStep, Grows
<1>12. InHand'
  BY <1>1 DEF InHand, Inv
<1>13. Delivered'
  <2> SUFFICES ASSUME HistoryLimit = 0, Webhooks \subseteq Polled, NEW q \in Webhooks
               PROVE  (/\ checked[q] # None => hist[q][checked[q]].checked
                       /\ obs[q].dirty => obs[q].latest # None
                       /\ obs[q].previous # None => hist[q][obs[q].previous].checked
                       /\ obs[q].latest # None =>
                             /\ hist[q][obs[q].latest].checked
                             /\ obs[q].previous # None =>
                                   hist[q][obs[q].previous].order <= hist[q][obs[q].latest].order)'
    BY DEF Delivered, Polled
  <2>1. q \in Resources
    BY PollingAssumption
  <2>2. CASE checked'[q] = checked[q]
    BY <1>1, <2>2, DeliveredKept
  <2>3. CASE checked'[q] # checked[q]
    <3>1. q = r /\ hist'[q][checked'[q]].checked
      BY <1>7, <1>8, <1>9, <2>1, <2>3
    <3>2. /\ obs[q].latest \in Versions \cup {None} /\ obs[q].previous \in Versions \cup {None}
      BY <2>1, ObsTypes DEF Observations
    <3>3. \A v \in Versions : hist[q][v].checked => hist'[q][v] = hist[q][v]
      BY <2>1, Stays
    <3>4. /\ obs[q].dirty => obs[q].latest # None
          /\ obs[q].previous # None => hist[q][obs[q].previous].checked
          /\ obs[q].latest # None =>
                /\ hist[q][obs[q].latest].checked
                /\ obs[q].previous # None =>
                      hist[q][obs[q].previous].order <= hist[q][obs[q].latest].order
      BY DEF Inv, Delivered
    <3> QED
      BY <1>1, <3>1, <3>2, <3>3, <3>4
  <2> QED
    BY <2>2, <2>3
<1> QED
  BY <1>10, <1>11, <1>12, <1>13 DEF PollInv

\* What is published next: the next in order, except where older ones may
\* turn up.
LEMMA PublishGrows ==
    ASSUME Inv, NEW r \in Resources, NEW v \in Versions,
           published' = [published EXCEPT ![r] = @ \cup {v}],
           r \in Backfills \/ \A u \in Versions : u < v => u \in published[r]
    PROVE  Grows
<1>1. published \in [Resources -> SUBSET Versions]
  BY DEF Inv, Typed
<1>2. /\ published' \in [Resources -> SUBSET Versions]
      /\ published'[r] = published[r] \cup {v}
      /\ \A q \in Resources : q # r => published'[q] = published[q]
  BY <1>1
<1>3. \A q \in Resources \ Backfills : Prefix(published'[q])
  BY <1>2 DEF Inv, Filing, Prefix
<1> QED
  BY <1>2, <1>3 DEF Grows

\* Every step of the poll, the deliveries and the world.
LEMMA PollStep ==
    ASSUME Inv, StoreStep, PollingNext
    PROVE  PollInv'
<1>1. CASE \/ StartPoll \/ AffectedJobs \/ StartRelease \/ StartAdvance
           \/ \E r \in Resources : CheckFails(r)
           \/ \E j \in Jobs : EnqueueAffected(j) \/ ReleaseConstrained(j) \/ Manual(j)
           \/ \E p \in BOOLEAN : SetPaused(p)
  <2>1. /\ checked' = checked /\ mark' = mark /\ published' = published /\ handling' = handling
        /\ obs' = obs /\ pres' = pres
        /\ ppc' = ppc \/ ppc' \notin {"checked", "seeding", "delivered"}
    BY <1>1 DEF StartPoll, AffectedJobs, StartRelease, StartAdvance, CheckFails, EnqueueAffected,
       ReleaseConstrained, Manual, SetPaused, storeVars, pollVars
  <2> QED
    BY <2>1, SameGrows, ObsTypes, PollQuiet
<1>2. CASE EndPoll
  <2>1. /\ obs' = [r \in Resources |-> NoObs] /\ ppc' = "idle" /\ published' = published
        /\ handling' = handling /\ checked' = checked /\ mark' = mark
    BY <1>2 DEF EndPoll, storeVars
  <2> QED
    BY <2>1, NoObsPoll
<1>3. ASSUME NEW r \in Resources, NEW v \in Versions, Publish(r, v)
      PROVE  PollInv'
  <2>1. /\ checked' = checked /\ mark' = mark /\ handling' = handling
        /\ obs' = obs /\ pres' = pres /\ ppc' = ppc
    BY <1>3 DEF Publish, storeVars, pollVars
  <2>2. Grows
    BY <1>3, PublishGrows DEF Publish
  <2> QED
    BY <2>1, <2>2, ObsTypes, PollQuiet
<1>4. ASSUME NEW r \in Resources, NEW v \in Versions, Receive(r, v)
      PROVE  PollInv'
  <2>1. /\ checked' = checked /\ mark' = mark /\ published' = published
        /\ obs' = obs /\ pres' = pres /\ ppc' = ppc
    BY <1>4 DEF Receive, storeVars, pollVars
  <2>2. \A d \in handling' : d.r \in Webhooks /\ d.v \in Versions
    BY <1>4 DEF Receive, Inv, Typed
  <2> QED
    BY <2>1, <2>2, SameGrows, ObsTypes, PollQuiet
<1> QED
  BY <1>1, <1>2, <1>3, <1>4, CheckResourcePoll, RecordHistoryPoll, SeedColdStartPoll, ReadCheckedPoll,
     ReadDeliveriesPoll, AdvancePoll, RecordDeliveryPoll DEF PollingNext, PollCycle, World

-----------------------------------------------------------------------------
(* The runs, as the poller sees them.                                      *)

\* A take moves cursors forward only.
LEMMA Takes ==
    ASSUME Inv, StoreStep, NEW w \in Workers, TakeVersions(w)
    PROVE  /\ mark' \in [Jobs -> [Resources -> Nat]]
           /\ \A j \in Jobs, r \in Resources : mark[j][r] <= mark'[j][r]
           /\ \A r \in Every[bjob[w]] : hist'[r][bset[w][r]].order <= mark'[bjob[w]][r]
<1> DEFINE j == bjob[w]
           E == Every[j]
           f(r) == Forward(mark[j][r], hist'[r][bset[w][r]].order)
<1>1. bpc[w] = "recorded"
  BY DEF TakeVersions, At
<1>2. j \in Jobs /\ E \subseteq Resources /\ \A r \in E : bset[w][r] \in Versions
  BY <1>1, RunOf DEF Bound
<1>3. mark \in [Jobs -> [Resources -> Nat]]
  BY ObsTypes
<1>4. mark' = [mark EXCEPT ![j] = [r \in Resources |-> IF r \in E THEN f(r) ELSE mark[j][r]]]
  BY DEF TakeVersions
<1> HIDE DEF j, E
<1>5. \A r \in E : hist'[r][bset[w][r]].order \in Nat /\ mark[j][r] \in Nat
  BY <1>2, <1>3 DEF StoreStep, History
<1>6. \A r \in E : f(r) \in Nat /\ mark[j][r] <= f(r) /\ hist'[r][bset[w][r]].order <= f(r)
  BY <1>5 DEF Forward
<1> HIDE DEF f
<1> DEFINE m == [r \in Resources |-> IF r \in E THEN f(r) ELSE mark[j][r]]
<1>7. m \in [Resources -> Nat]
  BY <1>2, <1>3, <1>6
<1>8. \A n \in Nat : n <= n
  OBVIOUS
<1>9. \A r \in Resources : m[r] = IF r \in E THEN f(r) ELSE mark[j][r]
  OBVIOUS
<1>10. mark' = [mark EXCEPT ![j] = m]
  BY <1>4
<1> HIDE DEF m
<1>11. /\ mark' \in [Jobs -> [Resources -> Nat]] /\ mark'[j] = m
       /\ \A i \in Jobs : i # j => mark'[i] = mark[i]
  BY <1>2, <1>3, <1>7, <1>10
<1>12. ASSUME NEW i \in Jobs, NEW r \in Resources
       PROVE  mark[i][r] <= mark'[i][r]
  <2>1. mark[i][r] \in Nat
    BY <1>3
  <2>2. CASE i = j /\ r \in E
    BY <1>6, <1>9, <1>11, <2>2
  <2>3. CASE i # j \/ r \notin E
    BY <1>8, <1>9, <1>11, <2>1, <2>3
  <2> QED
    BY <2>2, <2>3
<1>13. \A r \in E : hist'[r][bset[w][r]].order <= mark'[j][r]
  BY <1>2, <1>6, <1>9, <1>11
<1> QED
  BY <1>11, <1>12, <1>13 DEF j, E

\* A run's steps keep what the poll relies on.
LEMMA RunPoll ==
    ASSUME Inv, StoreStep, NEW w \in Workers, Run(w) \/ Publishes(w)
    PROVE  PollInv'
<1>1. CASE \/ \E j \in Jobs : Claim(w, j)
           \/ \E r \in Resources : Refresh(w, r)
           \/ LockCursor(w) \/ Resolve(w) \/ ResolveNothing(w) \/ ResumeRecorded(w)
           \/ RecordInputs(w) \/ BuildEnds(w) \/ Resume(w)
  <2>1. /\ checked' = checked /\ mark' = mark /\ published' = published /\ handling' = handling
        /\ obs' = obs /\ pres' = pres /\ ppc' = ppc
    BY <1>1 DEF Claim, Refresh, LockCursor, Resolve, ResolveNothing, ResumeRecorded, RecordInputs,
       BuildEnds, Resume, pollingVars, storeVars, pollVars
  <2> QED
    BY <2>1, SameGrows, ObsTypes, PollQuiet
<1>2. CASE TakeVersions(w)
  <2>1. /\ checked' = checked /\ published' = published /\ handling' = handling
        /\ obs' = obs /\ pres' = pres /\ ppc' = ppc
    BY <1>2 DEF TakeVersions, pollVars
  <2> QED
    BY <1>2, <2>1, Takes, SameGrows, ObsTypes, PollQuiet
<1>3. CASE StartBuild(w)
  <2>1. /\ mark' = mark /\ published' = published /\ handling' = handling
        /\ obs' = obs /\ pres' = pres /\ ppc' = ppc /\ bpc[w] = "taken"
        /\ checked' = [r \in Resources |->
              IF r \in Gets[bjob[w]] \ Polled THEN bset[w][r] ELSE checked[r]]
    BY <1>3 DEF StartBuild, pollVars, At
  <2>2. bset[w] \in [Gets[bjob[w]] -> Versions]
    BY <2>1, RunOf DEF Bound
  <2>3. checked' \in [Resources -> Versions \cup {None}]
    BY <2>1, <2>2, ObsTypes
  <2>4. Webhooks \subseteq Polled => \A r \in Webhooks : checked'[r] = checked[r]
    BY <2>1, PollingAssumption
  <2> QED
    BY <2>1, <2>3, <2>4, SameGrows, ObsTypes, PollQuiet
<1>4. ASSUME NEW r \in Resources, NEW v \in Versions, Put(w, r, v)
      PROVE  PollInv'
  <2>1. /\ checked' = checked /\ mark' = mark /\ handling' = handling
        /\ obs' = obs /\ pres' = pres /\ ppc' = ppc
    BY <1>4 DEF Put, pollVars
  <2>2. Grows
    BY <1>4, PublishGrows DEF Put
  <2> QED
    BY <2>1, <2>2, ObsTypes, PollQuiet
<1> QED
  BY <1>1, <1>2, <1>3, <1>4 DEF Run, Publishes

\* A crash loses the observations and the deliveries being handled, and no record.
LEMMA CrashPoll ==
    ASSUME Inv, StoreStep, Crash
    PROVE  PollInv'
<1>1. /\ obs' = [r \in Resources |-> NoObs] /\ ppc' = "idle" /\ published' = published
      /\ handling' = {} /\ checked' = checked /\ mark' = mark
  BY DEF Crash, storeVars
<1> QED
  BY <1>1, NoObsPoll

\* Cursors go forward only.
LEMMA MarksForward ==
    ASSUME Inv, StoreStep, [Next]_vars
    PROVE  \A j \in Jobs, r \in Resources : mark[j][r] <= mark'[j][r]
<1>1. CASE mark' = mark
  <2>1. \A n \in Nat : n <= n
    OBVIOUS
  <2> QED
    BY <1>1, <2>1, ObsTypes
<1>2. CASE PollingNext
  <2>1. \/ mark' = mark
        \/ SeedColdStart
    BY <1>2 DEF PollingNext, PollCycle, World, StartPoll, RecordHistory, ReadDeliveries, AffectedJobs,
       StartRelease, StartAdvance, EndPoll, CheckResource, ReadChecked, Advance, EnqueueAffected,
       ReleaseConstrained, CheckFails, Publish, Receive, SetPaused, Manual, RecordDelivery, storeVars
  <2> QED
    BY <1>1, <2>1, Seeds
<1>3. CASE Crash \/ UNCHANGED vars
  BY <1>1, <1>3 DEF Crash, vars, pollingVars, storeVars
<1>4. ASSUME NEW w \in Workers, Run(w) \/ Publishes(w)
      PROVE  mark' = mark \/ TakeVersions(w)
  BY <1>4 DEF Run, Publishes, Claim, Refresh, LockCursor, Resolve, ResolveNothing, ResumeRecorded,
     RecordInputs, StartBuild, BuildEnds, Resume, Put, pollingVars, storeVars
<1> QED
  BY <1>1, <1>2, <1>3, <1>4, Takes DEF Next

-----------------------------------------------------------------------------
(* The runs.                                                               *)

RunInv == Builds /\ Gated /\ Taking

\* What is green for a run stays green for it.
LEMMA VouchedKept ==
    ASSUME Inv, StoreStep, NEW w \in Workers, bpc[w] # "idle",
           HistoryLimit = 0 /\ Bound(w)' => Bound(w) /\ bset'[w] = bset[w],
           bjob'[w] = bjob[w]
    PROVE  Vouched(w)'
<1> SUFFICES ASSUME HistoryLimit = 0, Bound(w)', NEW r \in Constrained(bjob[w]),
                    NEW u \in Passed[bjob[w]][r]
             PROVE  green'[u][r][bset'[w][r]] # NoBuild
  BY DEF Vouched, Constrained
<1>1. bjob[w] \in Jobs /\ Bound(w) /\ bset'[w] = bset[w] /\ bset[w] \in [Gets[bjob[w]] -> Versions]
  BY RunOf
<1>2. r \in Resources /\ Passed[bjob[w]][r] # {}
  BY DEF Constrained
<1>3. r \in Gets[bjob[w]] /\ u \in Jobs
  BY <1>1, <1>2, PollingAssumption
<1>4. green[u][r][bset[w][r]] # NoBuild
  BY <1>1 DEF Inv, Gated, Vouched
<1> QED
  BY <1>1, <1>2, <1>3, <1>4 DEF StoreStep

\* A run a step leaves alone, with what its job has taken while it holds the lock.
LEMMA RunKept ==
    ASSUME Inv, StoreStep, NEW v \in Workers,
           bpc'[v] = bpc[v], bjob'[v] = bjob[v], bset'[v] = bset[v], bcursor'[v] = bcursor[v],
           brec'[v] = brec[v], bpc[v] \in Locked => taken'[bjob[v]] = taken[bjob[v]]
    PROVE  RunOk(v)' /\ Vouched(v)' /\ CursorCovers(v)' /\ SetIsNew(v)'
<1>1. RunOk(v) /\ CursorCovers(v) /\ SetIsNew(v)
  BY DEF Inv, Builds, Taking
<1>2. Bound(v)' <=> Bound(v)
  BY DEF Bound
<1>3. RunOk(v)'
  BY <1>1, <1>2 DEF RunOk
<1>4. Vouched(v)'
  <2>1. CASE bpc[v] = "idle"
    <3>1. ~Bound(v)'
      BY <1>1, <1>2, <2>1 DEF RunOk, Bound
    <3> QED
      BY <3>1 DEF Vouched
  <2>2. CASE bpc[v] # "idle"
    BY <1>2, <2>2, VouchedKept
  <2> QED
    BY <2>1, <2>2
<1>5. bpc[v] \in Locked => Behind(bjob[v])' = Behind(bjob[v])
  BY DEF Behind
<1>6. CursorCovers(v)'
  BY <1>1, <1>5 DEF CursorCovers, Locked, Steady, Windowed
<1>7. SetIsNew(v)'
  BY <1>1, <1>5 DEF SetIsNew, Locked, Steady, Windowed
<1> QED
  BY <1>3, <1>4, <1>6, <1>7

\* What was taken stays behind the cursor.
LEMMA BehindKept ==
    ASSUME Inv, StoreStep, taken' = taken, \A j \in Jobs, r \in Resources : mark[j][r] <= mark'[j][r],
           mark' \in [Jobs -> [Resources -> Nat]]
    PROVE  DOMAIN taken' = Jobs /\ \A j \in Jobs : StaysBehind(j)'
<1>1. DOMAIN taken' = Jobs
  BY DEF Inv, Taking
<1>2. ASSUME NEW j \in Jobs, Every[j] \subseteq Steady, NEW t \in Behind(j)
      PROVE  /\ Every[j] # {} /\ t.set \in [Every[j] -> Versions]
             /\ \A r \in Every[j] : /\ hist'[r][t.set[r]].checked
                                    /\ hist'[r][t.set[r]].order <= mark'[j][r]
  <2>1. /\ Every[j] # {} /\ t.set \in [Every[j] -> Versions]
        /\ \A r \in Every[j] : hist[r][t.set[r]].checked /\ hist[r][t.set[r]].order <= mark[j][r]
    BY <1>2 DEF Inv, Taking, StaysBehind
  <2>2. Every[j] \subseteq Resources
    BY PollingAssumption, InputsAssumption
  <2>3. ASSUME NEW r \in Every[j]
        PROVE  hist'[r][t.set[r]].checked /\ hist'[r][t.set[r]].order <= mark'[j][r]
    <3>1. hist'[r][t.set[r]] = hist[r][t.set[r]]
      BY <1>2, <2>1 DEF StoreStep
    <3>2. /\ hist[r][t.set[r]].order \in Nat /\ mark[j][r] \in Nat /\ mark'[j][r] \in Nat
          /\ mark[j][r] <= mark'[j][r] /\ hist[r][t.set[r]].order <= mark[j][r]
      BY <2>1, <2>2, ObsTypes DEF Inv, Typed, History
    <3>3. \A a, b, c \in Nat : a <= b /\ b <= c => a <= c
      OBVIOUS
    <3> QED
      BY <2>1, <3>1, <3>2, <3>3
  <2> QED
    BY <2>1, <2>3
<1>3. \A j \in Jobs : Behind(j)' = Behind(j)
  BY DEF Behind
<1>4. \A j \in Jobs : StaysBehind(j)'
  BY <1>2, <1>3 DEF StaysBehind, Steady, Windowed
<1> QED
  BY <1>1, <1>4

\* A step that leaves all runs alone.
LEMMA RunQuiet ==
    ASSUME Inv, StoreStep, PollInv', \A j \in Jobs, r \in Resources : mark[j][r] <= mark'[j][r],
           UNCHANGED <<bpc, bjob, bset, bcursor, brec, taken>>, bput' \in [Workers -> Build]
    PROVE  RunInv'
<1>1. \A v \in Workers : RunOk(v)' /\ Vouched(v)' /\ CursorCovers(v)' /\ SetIsNew(v)'
  BY RunKept
<1>2. mark' \in [Jobs -> [Resources -> Nat]]
  BY DEF PollInv, Typed
<1>3. DOMAIN taken' = Jobs /\ \A j \in Jobs : StaysBehind(j)'
  BY <1>2, BehindKept
<1>4. Builds'
  BY <1>1 DEF Builds, LockHeld, Inv
<1> QED
  BY <1>1, <1>3, <1>4 DEF RunInv, Gated, Taking

\* A step of one run w.
LEMMA RunMoves ==
    ASSUME Inv, StoreStep, PollInv', \A j \in Jobs, r \in Resources : mark[j][r] <= mark'[j][r],
           taken' = taken, NEW w \in Workers,
           \A v \in Workers : v # w =>
              /\ bpc'[v] = bpc[v] /\ bjob'[v] = bjob[v] /\ bset'[v] = bset[v]
              /\ bcursor'[v] = bcursor[v] /\ brec'[v] = brec[v],
           bpc' \in [Workers -> {"idle", "refreshing", "building", "interrupted"} \cup Locked],
           bjob' \in [Workers -> Jobs \cup {NoJob}], brec' \in [Workers -> BOOLEAN],
           bput' \in [Workers -> Build],
           DOMAIN bset' = Workers /\ DOMAIN bcursor' = Workers,
           bpc'[w] \in Locked =>
              /\ bjob'[w] = bjob[w]
              /\ bpc[w] \in Locked \/ \A v \in Workers : bpc[v] \in Locked => bjob[v] # bjob[w],
           RunOk(w)', Vouched(w)', CursorCovers(w)', SetIsNew(w)'
    PROVE  RunInv'
<1>1. \A v \in Workers : v # w => RunOk(v)' /\ Vouched(v)' /\ CursorCovers(v)' /\ SetIsNew(v)'
  BY RunKept
<1>2. mark' \in [Jobs -> [Resources -> Nat]]
  BY DEF PollInv, Typed
<1>3. DOMAIN taken' = Jobs /\ \A j \in Jobs : StaysBehind(j)'
  BY <1>2, BehindKept
<1>4. LockHeld'
  <2> SUFFICES ASSUME NEW u \in Workers, NEW v \in Workers, bpc'[u] \in Locked, bpc'[v] \in Locked,
                      bjob'[u] = bjob'[v]
               PROVE  u = v
    BY DEF LockHeld, Locked
  <2>1. LockHeld
    BY DEF Inv, Builds
  <2> QED
    BY <2>1 DEF LockHeld
<1>5. Builds'
  BY <1>1, <1>4 DEF Builds, Locked
<1> QED
  BY <1>1, <1>3, <1>5 DEF RunInv, Gated, Taking

\* The types of the runs' state, as the steps use them.
LEMMA RunTypes ==
    ASSUME Inv
    PROVE  /\ bpc \in [Workers -> {"idle", "refreshing", "building", "interrupted"} \cup Locked]
           /\ bjob \in [Workers -> Jobs \cup {NoJob}]
           /\ brec \in [Workers -> BOOLEAN] /\ bput \in [Workers -> Build]
           /\ DOMAIN bset = Workers /\ DOMAIN bcursor = Workers
           /\ \A w \in Workers : RunOk(w) /\ Vouched(w) /\ CursorCovers(w) /\ SetIsNew(w)
BY DEF Inv, Builds, Gated, Taking

\* A run that ends leaves nothing.
LEMMA DoneRun ==
    ASSUME Inv, StoreStep, PollInv', \A j \in Jobs, r \in Resources : mark[j][r] <= mark'[j][r],
           taken' = taken, NEW w \in Workers, Done(w)
    PROVE  RunInv'
<1>1. /\ bpc' = [bpc EXCEPT ![w] = "idle"] /\ bjob' = [bjob EXCEPT ![w] = NoJob]
      /\ bcursor' = [bcursor EXCEPT ![w] = NoCursor] /\ bset' = [bset EXCEPT ![w] = NoSet]
      /\ brec' = [brec EXCEPT ![w] = FALSE] /\ bput' = [bput EXCEPT ![w] = NoBuild]
  BY DEF Done, Go
<1>2. /\ bpc'[w] = "idle" /\ bset'[w] = NoSet /\ ~brec'[w]
      /\ \A v \in Workers : v # w =>
              /\ bpc'[v] = bpc[v] /\ bjob'[v] = bjob[v] /\ bset'[v] = bset[v]
              /\ bcursor'[v] = bcursor[v] /\ brec'[v] = brec[v]
  BY <1>1, RunTypes
<1>3. /\ bpc' \in [Workers -> {"idle", "refreshing", "building", "interrupted"} \cup Locked]
      /\ bjob' \in [Workers -> Jobs \cup {NoJob}] /\ brec' \in [Workers -> BOOLEAN]
      /\ DOMAIN bset' = Workers /\ DOMAIN bcursor' = Workers
  BY <1>1, RunTypes
<1>4. bput' \in [Workers -> Build]
  BY <1>1, RunTypes DEF NoBuild, Build
<1>5. ~Bound(w)'
  BY <1>2 DEF Bound
<1>6. RunOk(w)' /\ Vouched(w)' /\ CursorCovers(w)' /\ SetIsNew(w)'
  BY <1>2, <1>5 DEF RunOk, Vouched, CursorCovers, SetIsNew
<1>7. bpc'[w] \notin Locked
  BY <1>2 DEF Locked
<1> QED
  BY <1>2, <1>3, <1>4, <1>6, <1>7, RunMoves

\* A worker claims a build of a job.
LEMMA ClaimRun ==
    ASSUME Inv, StoreStep, PollInv', \A j \in Jobs, r \in Resources : mark[j][r] <= mark'[j][r],
           NEW w \in Workers, NEW j \in Jobs, Claim(w, j)
    PROVE  RunInv'
<1>1. /\ bpc[w] = "idle" /\ bpc' = [bpc EXCEPT ![w] = "refreshing"] /\ bjob' = [bjob EXCEPT ![w] = j]
      /\ bcursor' = bcursor /\ bset' = bset /\ brec' = brec /\ bput' = bput /\ taken' = taken
  BY DEF Claim, At, Go
<1>2. /\ bpc'[w] = "refreshing" /\ bjob'[w] = j
      /\ \A v \in Workers : v # w => bpc'[v] = bpc[v] /\ bjob'[v] = bjob[v]
  BY <1>1, RunTypes
<1>3. /\ bpc' \in [Workers -> {"idle", "refreshing", "building", "interrupted"} \cup Locked]
      /\ bjob' \in [Workers -> Jobs \cup {NoJob}]
  BY <1>1, RunTypes
<1>4. ~brec[w] /\ bset[w] = NoSet
  BY <1>1, RunTypes DEF RunOk, Bound
<1>5. ~Bound(w)'
  BY <1>1, <1>2, <1>4 DEF Bound
<1>6. RunOk(w)' /\ Vouched(w)' /\ CursorCovers(w)' /\ SetIsNew(w)'
  BY <1>1, <1>2, <1>4, <1>5 DEF RunOk, Vouched, CursorCovers, SetIsNew
<1>7. bpc'[w] \notin Locked
  BY <1>2 DEF Locked
<1> QED
  BY <1>1, <1>2, <1>3, <1>6, <1>7, RunTypes, RunMoves

\* The cursor is loaded under the lock: it covers all the job has taken.
LEMMA LockRun ==
    ASSUME Inv, StoreStep, PollInv', \A j \in Jobs, r \in Resources : mark[j][r] <= mark'[j][r],
           NEW w \in Workers, LockCursor(w)
    PROVE  RunInv'
<1> DEFINE j == bjob[w]
           E == Every[j]
           c == [r \in E |-> [mark |-> mark[j][r], orders |-> [v \in Versions |-> hist[r][v].order]]]
<1>1. /\ bpc[w] = "refreshing" /\ bpc' = [bpc EXCEPT ![w] = "locked"] /\ bjob' = bjob
      /\ bcursor' = [bcursor EXCEPT ![w] = c]
      /\ bset' = bset /\ brec' = brec /\ bput' = bput /\ taken' = taken
      /\ \A v \in Workers : bpc[v] \in Locked => bjob[v] # bjob[w]
  BY DEF LockCursor, At, Go
<1>2. j \in Jobs /\ E \subseteq Resources
  BY <1>1, RunOf
<1>3. \A r \in E : mark[j][r] \in Nat /\ [v \in Versions |-> hist[r][v].order] \in [Versions -> Nat]
  BY <1>2, ObsTypes DEF Inv, Typed, History
<1>4. c \in [E -> [mark: Nat, orders: [Versions -> Nat]]]
  BY <1>3
<1>5. \A r \in E : c[r].mark = mark[j][r] /\ \A v \in Versions : c[r].orders[v] = hist[r][v].order
  OBVIOUS
<1> HIDE DEF c
<1>6. /\ bpc'[w] = "locked" /\ bcursor'[w] = c
      /\ \A v \in Workers : v # w => bpc'[v] = bpc[v] /\ bcursor'[v] = bcursor[v]
  BY <1>1, RunTypes
<1>7. /\ bpc' \in [Workers -> {"idle", "refreshing", "building", "interrupted"} \cup Locked]
      /\ DOMAIN bcursor' = Workers
  BY <1>1, RunTypes DEF Locked
<1>8. Bound(w)' <=> Bound(w)
  BY <1>1, <1>6 DEF Bound
<1>9. RunOk(w)'
  BY <1>1, <1>2, <1>4, <1>6, <1>8, RunTypes DEF RunOk
<1>10. Vouched(w)'
  BY <1>1, <1>8, VouchedKept
<1>11. CursorCovers(w)'
  <2> SUFFICES ASSUME E \subseteq Steady, NEW t \in Behind(j), NEW r \in E
               PROVE  Covered(c[r], t.set[r])
    BY <1>1, <1>6 DEF CursorCovers, Behind, Steady, Windowed
  <2>1. t.set[r] \in Versions /\ hist[r][t.set[r]].checked /\ hist[r][t.set[r]].order <= mark[j][r]
    BY <1>2 DEF Inv, Taking, StaysBehind
  <2>2. hist[r][t.set[r]].order > 0
    BY <1>2, <2>1 DEF Inv, Filing, Sound
  <2> QED
    BY <1>5, <2>1, <2>2 DEF Covered
<1>12. SetIsNew(w)'
  BY <1>6 DEF SetIsNew
<1> QED
  BY <1>1, <1>6, <1>7, <1>9, <1>10, <1>11, <1>12, RunTypes, RunMoves

\* The resolved set is written on the run under the job's lock: from here a
\* resumed build finds it.
LEMMA RecordInputsRun ==
    ASSUME Inv, StoreStep, PollInv', \A j \in Jobs, r \in Resources : mark[j][r] <= mark'[j][r],
           NEW w \in Workers, RecordInputs(w)
    PROVE  RunInv'
<1>1. /\ bpc[w] = "resolved" /\ bpc' = [bpc EXCEPT ![w] = "recorded"] /\ bjob' = bjob
      /\ bcursor' = bcursor /\ bset' = bset /\ brec' = [brec EXCEPT ![w] = TRUE]
      /\ bput' = bput /\ taken' = taken
  BY DEF RecordInputs, At, Go
<1>2. /\ bpc'[w] = "recorded"
      /\ \A v \in Workers : v # w => bpc'[v] = bpc[v] /\ brec'[v] = brec[v]
  BY <1>1, RunTypes
<1>3. /\ bpc' \in [Workers -> {"idle", "refreshing", "building", "interrupted"} \cup Locked]
      /\ brec' \in [Workers -> BOOLEAN]
  BY <1>1, RunTypes DEF Locked
<1>4. Bound(w) /\ Bound(w)'
  BY <1>1, <1>2 DEF Bound
<1>5. RunOk(w)'
  BY <1>1, <1>2, <1>4, RunTypes DEF RunOk
<1>6. Vouched(w)'
  BY <1>1, <1>4, VouchedKept
<1>7. SetIsNew(w)' /\ CursorCovers(w)'
  BY <1>1, <1>2, RunTypes DEF SetIsNew, CursorCovers, Behind, Steady, Windowed
<1>8. bpc[w] \in Locked
  BY <1>1 DEF Locked
<1> QED
  BY <1>1, <1>2, <1>3, <1>5, <1>6, <1>7, <1>8, RunTypes, RunMoves

\* A run goes on with the set it has.
LEMMA GoesOn ==
    ASSUME Inv, StoreStep, PollInv', \A j \in Jobs, r \in Resources : mark[j][r] <= mark'[j][r],
           NEW w \in Workers, NEW place, Bound(w), bpc[w] \in Locked, place \in {"taken", "building"},
           bpc' = [bpc EXCEPT ![w] = place], DOMAIN bcursor' = Workers,
           \A v \in Workers : v # w => bcursor'[v] = bcursor[v],
           UNCHANGED <<bjob, bset, brec, bput, taken>>
    PROVE  RunInv'
<1>1. bpc'[w] = place /\ \A v \in Workers : v # w => bpc'[v] = bpc[v]
  BY RunTypes
<1>2. bpc' \in [Workers -> {"idle", "refreshing", "building", "interrupted"} \cup Locked]
  BY RunTypes DEF Locked
<1>3. Bound(w)' /\ bpc[w] # "idle" /\ bjob[w] \in Jobs
  BY <1>1, RunOf DEF Bound, Locked
<1>4. RunOk(w)'
  BY <1>1, <1>3, RunTypes DEF RunOk
<1>5. Vouched(w)'
  BY <1>3, VouchedKept
<1>6. CursorCovers(w)' /\ SetIsNew(w)'
  BY <1>1 DEF CursorCovers, SetIsNew
<1> QED
  BY <1>1, <1>2, <1>4, <1>5, <1>6, RunTypes, RunMoves

\* A resumed build that finds its set on record keeps it, and reads no cursor.
LEMMA ResumeRecordedRun ==
    ASSUME Inv, StoreStep, PollInv', \A j \in Jobs, r \in Resources : mark[j][r] <= mark'[j][r],
           NEW w \in Workers, ResumeRecorded(w)
    PROVE  RunInv'
<1>1. bpc[w] = "locked" /\ brec[w] /\ taken' = taken
  BY DEF ResumeRecorded, At
<1>2. CASE Done(w)
  BY <1>1, <1>2, DoneRun
<1>3. CASE /\ Go(w, "taken") /\ bcursor' = [bcursor EXCEPT ![w] = NoCursor]
           /\ UNCHANGED <<bjob, btodo, bset, bwaiting, brec, bput>>
  <2>1. Bound(w) /\ bpc[w] \in Locked
    BY <1>1 DEF Bound, Locked
  <2>2. /\ bpc' = [bpc EXCEPT ![w] = "taken"] /\ DOMAIN bcursor' = Workers
        /\ \A v \in Workers : v # w => bcursor'[v] = bcursor[v]
    BY <1>3, RunTypes DEF Go
  <2> QED
    BY <1>1, <1>3, <2>1, <2>2, GoesOn
<1> QED
  BY <1>2, <1>3 DEF ResumeRecorded

\* The lock is let go and the steps start.
LEMMA StartRun ==
    ASSUME Inv, StoreStep, PollInv', \A j \in Jobs, r \in Resources : mark[j][r] <= mark'[j][r],
           NEW w \in Workers, StartBuild(w)
    PROVE  RunInv'
<1>1. /\ bpc[w] = "taken" /\ bpc' = [bpc EXCEPT ![w] = "building"]
      /\ UNCHANGED <<bjob, bset, brec, bput, taken>> /\ bcursor' = bcursor
  BY DEF StartBuild, At, Go
<1>2. Bound(w) /\ bpc[w] \in Locked
  BY <1>1 DEF Bound, Locked
<1> QED
  BY <1>1, <1>2, RunTypes, GoesOn

\* A restart takes an interrupted build up again, with the set it had recorded if any.
LEMMA ResumeRun ==
    ASSUME Inv, StoreStep, PollInv', \A j \in Jobs, r \in Resources : mark[j][r] <= mark'[j][r],
           NEW w \in Workers, Resume(w)
    PROVE  RunInv'
<1>1. /\ bpc[w] = "interrupted" /\ bpc' = [bpc EXCEPT ![w] = "refreshing"]
      /\ UNCHANGED <<bjob, bput, taken>> /\ bcursor' = bcursor
      /\ \/ UNCHANGED <<bset, brec>>
         \/ bset' = [bset EXCEPT ![w] = NoSet] /\ brec' = [brec EXCEPT ![w] = FALSE]
  BY DEF Resume, At, Go
<1>2. /\ bpc' \in [Workers -> {"idle", "refreshing", "building", "interrupted"} \cup Locked]
      /\ bpc'[w] = "refreshing" /\ \A v \in Workers : v # w => bpc'[v] = bpc[v]
  BY <1>1, RunTypes
<1>3. /\ brec' \in [Workers -> BOOLEAN] /\ DOMAIN bset' = Workers
      /\ \A v \in Workers : v # w => bset'[v] = bset[v] /\ brec'[v] = brec[v]
      /\ (bset'[w] = bset[w] /\ brec'[w] = brec[w]) \/ (bset'[w] = NoSet /\ ~brec'[w])
  BY <1>1, RunTypes
<1>4. (Bound(w)' <=> brec'[w]) /\ (Bound(w) <=> brec[w]) /\ bpc[w] # "idle"
  BY <1>1, <1>2 DEF Bound
<1>5. RunOk(w)'
  BY <1>1, <1>2, <1>3, <1>4, RunTypes DEF RunOk
<1>6. Vouched(w)'
  BY <1>1, <1>3, <1>4, VouchedKept
<1>7. CursorCovers(w)' /\ SetIsNew(w)' /\ bpc'[w] \notin Locked
  BY <1>2 DEF CursorCovers, SetIsNew, Locked
<1> QED
  BY <1>1, <1>2, <1>3, <1>5, <1>6, <1>7, RunTypes, RunMoves

\* A get that resolves is bound to something eligible.
LEMMA Chosen ==
    ASSUME Inv, NEW r \in Resources, NEW S \in SUBSET Versions, S # {}
    PROVE  /\ LatestOf(r, S) \in S /\ OldestOf(r, S) \in S
           /\ \A u \in S : Place(r, OldestOf(r, S)) <= Place(r, u)
<1> DEFINE f == [v \in S |-> Place(r, v)]
<1>1. \A v \in S : Place(r, v) \in Nat
  BY VersionsAssumption DEF Place, Inv, Typed, History
<1>2. \A v \in S : f[v] \in Nat /\ f[v] = Place(r, v)
  BY <1>1
<1> HIDE DEF f
<1>3. PICK v \in S : \A u \in S : f[u] <= f[v]
  BY <1>2, Few, GreatestOf
<1>4. LatestOf(r, S) \in S
  BY <1>2, <1>3 DEF LatestOf
<1> DEFINE T == {Place(r, u) : u \in S}
<1>5. T \in SUBSET Nat /\ T # {}
  BY <1>1
<1>6. PICK x \in T : \A y \in T : x <= y
  <2> HIDE DEF T
  <2> QED
    BY <1>5, LeastOf
<1>7. PICK u \in S : x = Place(r, u)
  BY <1>6
<1>8. \A y \in S : Place(r, u) <= Place(r, y)
  BY <1>6, <1>7
<1>9. OldestOf(r, S) \in S /\ \A y \in S : Place(r, OldestOf(r, S)) <= Place(r, y)
  BY <1>8 DEF OldestOf
<1> QED
  BY <1>4, <1>9

\* The version a cursor holds on to is one of those it is given (inputsets.go).
LEMMA HeldOne ==
    ASSUME NEW c \in [mark: Nat, orders: [Versions -> Nat]], NEW S \in SUBSET Versions, S # {},
           \A v \in S : Covered(c, v)
    PROVE  HeldVersion(c, S) \in S
<1> DEFINE f == [v \in S |-> c.orders[v]]
<1>1. \A v \in S : f[v] \in Nat /\ f[v] = c.orders[v]
  OBVIOUS
<1> HIDE DEF f
<1>2. PICK v \in S : \A u \in S : f[u] <= f[v]
  BY <1>1, Few, GreatestOf
<1>3. Covered(c, v) /\ \A u \in S : Covered(c, u) => c.orders[u] <= c.orders[v]
  BY <1>1, <1>2
<1> QED
  BY <1>3 DEF HeldVersion

\* The set a run resolves has for each get an eligible version (inputsets.go).
LEMMA FirstEligible ==
    ASSUME Inv, NEW w \in Workers, bpc[w] = "locked", ~Fails(w), ~Idles(w), NEW r \in Gets[bjob[w]]
    PROVE  FirstSet(w)[r] \in Eligible(bjob[w], r)
<1> DEFINE E == Eligible(bjob[w], r)
<1>1. r \in Resources
  BY RunOf
<1>2. E \in SUBSET Versions
  BY <1>1 DEF Eligible, GreenVersions, ResourceVersions, Filed, Inv, Typed
<1>3. CASE r \notin Every[bjob[w]]
  <2>1. E # {}
    BY <1>3 DEF Fails
  <2>2. FirstSet(w)[r] = LatestOf(r, E)
    BY <1>3 DEF FirstSet
  <2> QED
    BY <1>1, <1>2, <2>1, <2>2, Chosen
<1>4. CASE r \in Every[bjob[w]]
  <2>1. /\ Unconsumed(w, r) = {v \in E : ~Covered(bcursor[w][r], v)}
        /\ Held(w, r) = {v \in E : Covered(bcursor[w][r], v)}
    BY DEF Unconsumed, Held
  <2>2. CASE Unconsumed(w, r) # {}
    <3>1. FirstSet(w)[r] = OldestOf(r, Unconsumed(w, r))
      BY <1>4, <2>2 DEF FirstSet
    <3> QED
      BY <1>1, <1>2, <2>1, <2>2, <3>1, Chosen
  <2>3. CASE Unconsumed(w, r) = {}
    <3>1. FirstSet(w)[r] = HeldVersion(bcursor[w][r], Held(w, r))
      BY <1>4, <2>3 DEF FirstSet
    <3>2. Held(w, r) # {} /\ Held(w, r) \in SUBSET Versions
      BY <1>2, <1>4, <2>1, <2>3 DEF Idles
    <3>3. bcursor[w][r] \in [mark: Nat, orders: [Versions -> Nat]]
      BY <1>4, RunTypes DEF RunOk
    <3> QED
      BY <2>1, <3>1, <3>2, <3>3, HeldOne
  <2> QED
    BY <2>2, <2>3
<1> QED
  BY <1>3, <1>4

\* Under the lock a run is bound to green versions where passed: asks for them,
\* and to at least one version it has not taken.
LEMMA ResolveRun ==
    ASSUME Inv, StoreStep, PollInv', \A j \in Jobs, r \in Resources : mark[j][r] <= mark'[j][r],
           NEW w \in Workers, Resolve(w)
    PROVE  RunInv'
<1> DEFINE j == bjob[w]
           E == Every[j]
           s == FirstSet(w)
<1>1. /\ bpc[w] = "locked" /\ ~Fails(w) /\ ~Idles(w) /\ bpc' = [bpc EXCEPT ![w] = "resolved"]
      /\ bset' = [bset EXCEPT ![w] = s] /\ bcursor' = [bcursor EXCEPT ![w] = NoCursor]
      /\ bjob' = bjob /\ brec' = brec /\ bput' = bput /\ taken' = taken /\ hist' = hist /\ green' = green
  BY DEF Resolve, At, Go, pollingVars, storeVars
<1>2. j \in Jobs /\ Gets[j] \subseteq Resources /\ E \subseteq Gets[j]
  BY <1>1, RunOf
<1>3. \A r \in Resources : Eligible(j, r) \in SUBSET Versions
  BY DEF Eligible, GreenVersions, ResourceVersions, Filed, Inv, Typed
<1>4. \A r \in Gets[j] : s[r] \in Eligible(j, r)
  BY <1>1, FirstEligible
<1>5. ASSUME NEW r \in E, Unconsumed(w, r) # {}
      PROVE  ~Covered(bcursor[w][r], s[r])
  <2>1. r \in Gets[j] /\ r \in Resources
    BY <1>2
  <2>2. Unconsumed(w, r) = {v \in Eligible(j, r) : ~Covered(bcursor[w][r], v)}
    BY DEF Unconsumed
  <2>3. s[r] = OldestOf(r, Unconsumed(w, r))
    BY <1>5, <2>1 DEF FirstSet
  <2>4. s[r] \in Unconsumed(w, r)
    BY <1>3, <1>5, <2>1, <2>2, <2>3, Chosen
  <2> QED
    BY <2>2, <2>4
<1>6. s = [r \in Gets[j] |-> s[r]]
  BY DEF FirstSet
<1> HIDE DEF s
<1>7. s \in [Gets[j] -> Versions]
  BY <1>2, <1>3, <1>4, <1>6
<1>8. /\ bpc'[w] = "resolved" /\ bset'[w] = s
       /\ \A v \in Workers : v # w => bpc'[v] = bpc[v] /\ bset'[v] = bset[v] /\ bcursor'[v] = bcursor[v]
  BY <1>1, RunTypes
<1>9. /\ bpc' \in [Workers -> {"idle", "refreshing", "building", "interrupted"} \cup Locked]
       /\ DOMAIN bset' = Workers /\ DOMAIN bcursor' = Workers
  BY <1>1, RunTypes DEF Locked
<1>10. Bound(w)'
  BY <1>8 DEF Bound
<1>11. RunOk(w)'
  BY <1>1, <1>2, <1>7, <1>8, <1>10 DEF RunOk
<1>12. Vouched(w)'
  <2> SUFFICES ASSUME NEW r \in Constrained(j), NEW u \in Passed[j][r]
               PROVE  green[u][r][s[r]] # NoBuild
    BY <1>1, <1>8 DEF Vouched, Constrained
  <2>1. r \in Resources /\ Passed[j][r] # {} /\ r \in Gets[j]
    BY <1>2, PollingAssumption DEF Constrained
  <2>2. s[r] \in GreenVersions(r, Passed[j][r])
    BY <1>4, <2>1 DEF Eligible
  <2> QED
    BY <2>2 DEF GreenVersions
<1>13. SetIsNew(w)'
  <2> SUFFICES ASSUME E \subseteq Steady, E # {}
               PROVE  \E r \in E : \A t \in Behind(j) : t.set[r] # s[r]
    BY <1>1, <1>8 DEF SetIsNew, Behind, Steady, Windowed
  <2>1. PICK r \in E : Unconsumed(w, r) # {}
    BY <1>1 DEF Idles
  <2>2. ~Covered(bcursor[w][r], s[r])
    BY <1>5, <2>1
  <2>3. \A t \in Behind(j) : Covered(bcursor[w][r], t.set[r])
    BY <1>1, RunTypes DEF CursorCovers
  <2> QED
    BY <2>2, <2>3
<1>14. CursorCovers(w)' /\ bpc[w] \in Locked
  BY <1>1, <1>8 DEF CursorCovers, Locked
<1> QED
  BY <1>1, <1>8, <1>9, <1>11, <1>12, <1>13, <1>14, RunTypes, RunMoves

\* A take: nobody else holds the job's lock, so what others have loaded and
\* chosen is of other jobs.
LEMMA TakeRun ==
    ASSUME Inv, StoreStep, PollInv', \A j \in Jobs, r \in Resources : mark[j][r] <= mark'[j][r],
           NEW w \in Workers, TakeVersions(w)
    PROVE  RunInv'
<1> DEFINE j == bjob[w]
           E == Every[j]
           n == [set |-> EverySet(w), filed |-> \A r \in E : hist[r][bset[w][r]].checked]
<1>1. /\ bpc[w] = "recorded" /\ bpc' = [bpc EXCEPT ![w] = "taken"]
      /\ UNCHANGED <<bjob, bcursor, bset, brec, bput>>
      /\ taken' = [taken EXCEPT ![j] = IF E = {} THEN taken[j] ELSE taken[j] \cup {n}]
  BY DEF TakeVersions, At, Go
<1>2. bpc[w] \in Locked /\ Bound(w) /\ bpc[w] # "idle"
  BY <1>1 DEF Locked, Bound
<1>3. /\ j \in Jobs /\ E \subseteq Resources /\ E \subseteq Gets[j]
      /\ bset[w] \in [Gets[j] -> Versions]
  BY <1>2, RunOf
<1>4. DOMAIN taken = Jobs
  BY DEF Inv, Taking
<1> HIDE DEF n
<1>5. /\ DOMAIN taken' = Jobs /\ \A i \in Jobs : i # j => taken'[i] = taken[i]
      /\ taken'[j] = IF E = {} THEN taken[j] ELSE taken[j] \cup {n}
  BY <1>1, <1>3, <1>4
<1>6. /\ bpc'[w] = "taken" /\ \A v \in Workers : v # w => bpc'[v] = bpc[v]
      /\ bpc' \in [Workers -> {"idle", "refreshing", "building", "interrupted"} \cup Locked]
  BY <1>1, RunTypes DEF Locked
<1>7. LockHeld
  BY DEF Inv, Builds
<1>8. \A v \in Workers : v # w => RunOk(v)' /\ Vouched(v)' /\ CursorCovers(v)' /\ SetIsNew(v)'
  <2> SUFFICES ASSUME NEW v \in Workers, v # w
               PROVE  RunOk(v)' /\ Vouched(v)' /\ CursorCovers(v)' /\ SetIsNew(v)'
    OBVIOUS
  <2>1. bpc[v] \in Locked => bjob[v] \in Jobs /\ bjob[v] # j
    BY <1>2, <1>7, RunTypes DEF LockHeld, RunOk, Locked
  <2> QED
    BY <1>1, <1>5, <1>6, <2>1, RunKept
<1>9. Bound(w)'
  BY <1>6 DEF Bound
<1>10. RunOk(w)'
  BY <1>1, <1>2, <1>3, <1>6, <1>9 DEF RunOk
<1>11. Vouched(w)'
  BY <1>1, <1>2, VouchedKept
<1>12. CursorCovers(w)' /\ SetIsNew(w)'
  BY <1>6 DEF CursorCovers, SetIsNew
<1>13. LockHeld'
  BY <1>1, <1>2, <1>6, <1>7 DEF LockHeld, Locked
<1>14. ASSUME NEW i \in Jobs, Every[i] \subseteq Steady, NEW t \in taken'[i], t.filed
       PROVE  /\ Every[i] # {} /\ t.set \in [Every[i] -> Versions]
              /\ \A r \in Every[i] : /\ hist'[r][t.set[r]].checked
                                     /\ hist'[r][t.set[r]].order <= mark'[i][r]
  <2>1. CASE t \in taken[i]
    <3>1. /\ Every[i] # {} /\ t.set \in [Every[i] -> Versions]
          /\ \A r \in Every[i] : hist[r][t.set[r]].checked /\ hist[r][t.set[r]].order <= mark[i][r]
      BY <1>14, <2>1 DEF Inv, Taking, StaysBehind, Behind
    <3>2. Every[i] \subseteq Resources
      BY PollingAssumption, InputsAssumption
    <3>3. ASSUME NEW r \in Every[i]
          PROVE  hist'[r][t.set[r]].checked /\ hist'[r][t.set[r]].order <= mark'[i][r]
      <4>1. hist'[r][t.set[r]] = hist[r][t.set[r]]
        BY <1>14, <3>1 DEF StoreStep
      <4>2. /\ hist[r][t.set[r]].order \in Nat /\ mark[i][r] \in Nat /\ mark'[i][r] \in Nat
            /\ mark[i][r] <= mark'[i][r] /\ hist[r][t.set[r]].order <= mark[i][r]
        BY <3>1, <3>2, ObsTypes DEF Inv, PollInv, Typed, History
      <4>3. \A a, b, c \in Nat : a <= b /\ b <= c => a <= c
        OBVIOUS
      <4> QED
        BY <3>1, <4>1, <4>2, <4>3
    <3> QED
      BY <3>1, <3>3
  <2>2. CASE t \notin taken[i]
    <3>1. i = j /\ E # {} /\ t = n
      BY <1>5, <2>2
    <3>2. t.set = EverySet(w) /\ \A r \in E : hist[r][bset[w][r]].checked
      BY <1>14, <3>1 DEF n
    <3>3. EverySet(w) \in [E -> Versions] /\ \A r \in E : EverySet(w)[r] = bset[w][r]
      BY <1>3 DEF EverySet
    <3>4. \A r \in E : hist'[r][bset[w][r]] = hist[r][bset[w][r]]
      BY <1>3, <1>14, <3>1, <3>2 DEF StoreStep
    <3>5. \A r \in E : hist'[r][bset[w][r]].order <= mark'[j][r]
      BY Takes
    <3> QED
      BY <3>1, <3>2, <3>3, <3>4, <3>5
  <2> QED
    BY <2>1, <2>2
<1>15. \A i \in Jobs : StaysBehind(i)'
  BY <1>14 DEF StaysBehind, Behind, Steady, Windowed
<1>16. Builds'
  BY <1>1, <1>6, <1>8, <1>10, <1>13, RunTypes DEF Builds, Locked
<1> QED
  BY <1>5, <1>8, <1>11, <1>12, <1>15, <1>16 DEF RunInv, Gated, Taking

\* A crash leaves the runs on record, and nobody with a lock.
LEMMA CrashRun ==
    ASSUME Inv, StoreStep, PollInv', \A j \in Jobs, r \in Resources : mark[j][r] <= mark'[j][r], Crash
    PROVE  RunInv'
<1>1. /\ bpc' = [w \in Workers |-> IF bpc[w] = "idle" THEN "idle" ELSE "interrupted"]
      /\ bcursor' = [w \in Workers |-> NoCursor]
      /\ bset' = [w \in Workers |-> IF brec[w] THEN bset[w] ELSE NoSet]
      /\ bput' = [w \in Workers |-> NoBuild]
      /\ bjob' = bjob /\ brec' = brec /\ taken' = taken
  BY DEF Crash
<1>2. \A w \in Workers : /\ bpc'[w] = IF bpc[w] = "idle" THEN "idle" ELSE "interrupted"
                         /\ bset'[w] = IF brec[w] THEN bset[w] ELSE NoSet
  BY <1>1
<1>3. bput' \in [Workers -> Build]
  BY <1>1 DEF NoBuild, Build
<1>4. ASSUME NEW w \in Workers
      PROVE  RunOk(w)' /\ Vouched(w)' /\ CursorCovers(w)' /\ SetIsNew(w)'
  <2>1. (Bound(w)' <=> brec[w]) /\ (brec[w] => Bound(w))
    BY <1>1, <1>2 DEF Bound
  <2>2. RunOk(w)'
    BY <1>1, <1>2, <2>1, RunTypes DEF RunOk
  <2>3. CursorCovers(w)' /\ SetIsNew(w)'
    BY <1>2 DEF CursorCovers, SetIsNew
  <2>4. Vouched(w)'
    <3>1. CASE bpc[w] = "idle"
      <4>1. ~Bound(w)'
        BY <2>1, <3>1, RunTypes DEF RunOk
      <4> QED
        BY <4>1 DEF Vouched
    <3>2. CASE bpc[w] # "idle"
      BY <1>1, <1>2, <2>1, <3>2, VouchedKept
    <3> QED
      BY <3>1, <3>2
  <2> QED
    BY <2>2, <2>3, <2>4
<1>5. mark' \in [Jobs -> [Resources -> Nat]]
  BY DEF PollInv, Typed
<1>6. DOMAIN taken' = Jobs /\ \A j \in Jobs : StaysBehind(j)'
  BY <1>1, <1>5, BehindKept
<1>7. LockHeld'
  BY <1>2 DEF LockHeld, Locked
<1>8. bpc' \in [Workers -> {"idle", "refreshing", "building", "interrupted"} \cup Locked]
  BY <1>1
<1>9. Builds'
  BY <1>1, <1>3, <1>4, <1>7, <1>8, RunTypes DEF Builds, Locked
<1> QED
  BY <1>4, <1>6, <1>9 DEF RunInv, Gated, Taking

\* Every step of a run keeps the runs.
LEMMA RunStep ==
    ASSUME Inv, StoreStep, PollInv', \A j \in Jobs, r \in Resources : mark[j][r] <= mark'[j][r],
           NEW w \in Workers, Run(w) \/ Publishes(w)
    PROVE  RunInv'
<1>1. ASSUME NEW r \in Resources, Refresh(w, r)
      PROVE  RunInv'
  <2>1. UNCHANGED <<bpc, bjob, bset, bcursor, brec, taken>> /\ bput' = bput
    BY <1>1 DEF Refresh
  <2> QED
    BY <2>1, RunTypes, RunQuiet
<1>2. ASSUME NEW r \in Resources, NEW v \in Versions, Put(w, r, v)
      PROVE  RunInv'
  <2>1. /\ UNCHANGED <<bpc, bjob, bset, bcursor, brec, taken>>
        /\ bput' = [bput EXCEPT ![w] = @ \cup {<<r, v>>}]
    BY <1>2 DEF Put
  <2>2. bput' \in [Workers -> Build]
    BY <2>1, RunTypes DEF Build
  <2> QED
    BY <2>1, <2>2, RunQuiet
<1>3. CASE ResolveNothing(w) \/ BuildEnds(w)
  BY <1>3, DoneRun DEF ResolveNothing, BuildEnds
<1> QED
  BY <1>1, <1>2, <1>3, ClaimRun, LockRun, ResolveRun, ResumeRecordedRun, RecordInputsRun, TakeRun,
     StartRun, ResumeRun DEF Run, Publishes

\* Every step of the poller, the deliveries, the builds and a crash keeps the invariant.
LEMMA StepInv == Inv /\ [Next]_vars => Inv'
<1> SUFFICES ASSUME Inv, [Next]_vars
             PROVE  Inv'
  OBVIOUS
<1>1. StoreStep /\ \A j \in Jobs, r \in Resources : mark[j][r] <= mark'[j][r]
  BY StoreKept, MarksForward
<1>2. CASE PollingNext /\ Aside
  <2>1. PollInv'
    BY <1>1, <1>2, PollStep
  <2>2. UNCHANGED <<bpc, bjob, bset, bcursor, brec, taken>> /\ bput' = bput
    BY <1>2 DEF Aside, buildVars
  <2>3. RunInv'
    BY <1>1, <2>1, <2>2, RunTypes, RunQuiet
  <2> QED
    BY <1>1, <2>1, <2>3 DEF Inv, PollInv, RunInv, StoreStep, GreenFiled
<1>3. CASE Crash
  <2>1. PollInv' /\ RunInv'
    BY <1>1, <1>3, CrashPoll, CrashRun
  <2> QED
    BY <1>1, <2>1 DEF Inv, PollInv, RunInv, StoreStep, GreenFiled
<1>4. ASSUME NEW w \in Workers, Run(w) \/ Publishes(w)
      PROVE  Inv'
  <2>1. PollInv' /\ RunInv'
    BY <1>1, <1>4, RunPoll, RunStep
  <2> QED
    BY <1>1, <2>1 DEF Inv, PollInv, RunInv, StoreStep, GreenFiled
<1>5. CASE UNCHANGED vars
  <2>1. /\ UNCHANGED <<bpc, bjob, bset, bcursor, brec, taken>> /\ bput' = bput
        /\ checked' = checked /\ mark' = mark /\ published' = published /\ handling' = handling
        /\ obs' = obs /\ pres' = pres /\ ppc' = ppc
    BY <1>5 DEF vars, buildVars, pollingVars, storeVars, pollVars
  <2>2. PollInv'
    BY <1>1, <2>1, SameGrows, ObsTypes, PollQuiet
  <2>3. RunInv'
    BY <1>1, <2>1, <2>2, RunTypes, RunQuiet
  <2> QED
    BY <1>1, <2>2, <2>3 DEF Inv, PollInv, RunInv, StoreStep, GreenFiled
<1> QED
  BY <1>2, <1>3, <1>4, <1>5 DEF Next

\* An empty store with nothing in hand satisfies the invariant.
LEMMA InitInv == Init => Inv
<1> SUFFICES ASSUME Init
             PROVE  Inv
  OBVIOUS
<1>1. /\ hist = [r \in Resources |-> [v \in Versions |-> Absent]]
      /\ checked = [r \in Resources |-> None]
      /\ green = [j \in Jobs |-> [r \in Resources |-> [v \in Versions |-> NoBuild]]]
      /\ mark = [j \in Jobs |-> [r \in Resources |-> 0]]
      /\ published = [r \in Resources |-> {}] /\ handling = {} /\ ppc = "idle"
      /\ obs = [r \in Resources |-> NoObs]
  BY DEF Init, PollingInit, VersionsInit
<1>2. Absent \in [order: Nat, checked: BOOLEAN] /\ ~Absent.checked
  BY DEF Absent
<1>3. NoBuild \in Build
  BY DEF NoBuild, Build
<1>4. NoObs \in Observations /\ NoObs.latest = None /\ NoObs.previous = None /\ ~NoObs.dirty
  BY DEF NoObs, Observations
<1>5. [v \in Versions |-> Absent] \in History
  BY <1>2 DEF History
<1>6. Typed
  BY <1>1, <1>3, <1>4, <1>5 DEF Typed
<1>7. \A r \in Resources, v \in Versions : ~hist[r][v].checked
  BY <1>1, <1>2
<1>8. Filing
  BY <1>1, <1>7 DEF Filing, Sound, FirstFirst, Prefix, Windowed
<1>9. InHand
  BY <1>1 DEF InHand
<1>10. Delivered
  BY <1>1, <1>4, PollingAssumption DEF Delivered
<1>11. GreenFiled
  BY <1>1 DEF GreenFiled
<1>12. /\ bpc = [w \in Workers |-> "idle"] /\ bjob = [w \in Workers |-> NoJob]
       /\ bcursor = [w \in Workers |-> NoCursor] /\ bset = [w \in Workers |-> NoSet]
       /\ brec = [w \in Workers |-> FALSE] /\ bput = [w \in Workers |-> NoBuild]
       /\ taken = [j \in Jobs |-> {}]
  BY DEF Init
<1>13. \A w \in Workers : bpc[w] = "idle" /\ ~brec[w] /\ bset[w] = NoSet /\ ~Bound(w)
  BY <1>12 DEF Bound
<1>14. Builds
  <2>1. /\ bpc \in [Workers -> {"idle", "refreshing", "building", "interrupted"} \cup Locked]
        /\ bjob \in [Workers -> Jobs \cup {NoJob}] /\ brec \in [Workers -> BOOLEAN]
        /\ bput \in [Workers -> Build]
        /\ DOMAIN bset = Workers /\ DOMAIN bcursor = Workers
    BY <1>3, <1>12
  <2>2. \A w \in Workers : RunOk(w)
    BY <1>13 DEF RunOk
  <2>3. LockHeld
    BY <1>13 DEF LockHeld, Locked
  <2> QED
    BY <2>1, <2>2, <2>3 DEF Builds
<1>15. Gated
  BY <1>13 DEF Gated, Vouched
<1>16. Taking
  BY <1>12, <1>13 DEF Taking, StaysBehind, Behind, CursorCovers, SetIsNew
<1> QED
  BY <1>6, <1>8, <1>9, <1>10, <1>11, <1>14, <1>15, <1>16 DEF Inv

-----------------------------------------------------------------------------
(* The theorems.                                                           *)

\* The tables, the poll and the runs agree, whatever polls, deliveries, builds
\* and crashes come in which order.
THEOREM Invariance == Spec => []Inv
BY InitInv, StepInv, PTL DEF Spec

\* What a check still lists is never lost from history or moved, by a prune, a
\* poll, a refresh or a build (history.go:153-161), as long as the check lists
\* its window oldest first or nothing is pruned.
THEOREM WindowStays ==
    ASSUME HistoryLimit = 0 \/ Backfills = {}
    PROVE  Spec => WindowKept
<1> DEFINE A == \A r \in Resources \ (AfterCursor \cup Webhooks) : \A v \in ResourceVersions(r) :
                   hist'[r][v] = hist[r][v]
<1>1. Inv /\ [Next]_vars => A
  <2> SUFFICES ASSUME Inv, [Next]_vars, NEW r \in Resources \ (AfterCursor \cup Webhooks),
                      NEW v \in ResourceVersions(r)
               PROVE  hist'[r][v] = hist[r][v]
    OBVIOUS
  <2>1. r \in Steady
    BY DEF Steady, Windowed
  <2>2. v \in Versions /\ hist[r][v].checked
    BY DEF ResourceVersions, Filed
  <2>3. StoreStep
    BY StoreKept
  <2> QED
    BY <2>1, <2>2, <2>3 DEF StoreStep
<1>2. Inv /\ [Next]_vars => [A]_vars
  BY <1>1
<1> HIDE DEF A
<1>3. Spec => [][A]_vars
  BY <1>2, Invariance, PTL DEF Spec
<1> QED
  BY <1>3 DEF WindowKept, A

\* No two builds of a job take the same set of versions checks have filed
\* (pipeline/backlog.go:20-39), where what a check filed stays filed: without a
\* limit on history, or with version: every on resources that list their window.
THEOREM TakenAtMostOnce ==
    ASSUME \A j \in Jobs : Every[j] \subseteq Steady
    PROVE  Spec => TakenOnce
<1> DEFINE A == \A w \in Workers : At(w, "recorded") /\ bpc'[w] = "taken" =>
                   [set |-> EverySet(w), filed |-> TRUE] \notin taken[bjob[w]]
<1>1. Inv => A
  <2> SUFFICES ASSUME Inv, NEW w \in Workers, bpc[w] = "recorded",
                      [set |-> EverySet(w), filed |-> TRUE] \in taken[bjob[w]]
               PROVE  FALSE
    BY DEF At
  <2> DEFINE j == bjob[w]
             t == [set |-> EverySet(w), filed |-> TRUE]
  <2>1. j \in Jobs /\ Every[j] \subseteq Steady
    BY RunOf
  <2>2. t \in Behind(j) /\ \A r \in Every[j] : t.set[r] = bset[w][r]
    BY DEF Behind, EverySet
  <2> HIDE DEF t
  <2>3. Every[j] # {}
    BY <2>1, <2>2 DEF Inv, Taking, StaysBehind
  <2>4. PICK r \in Every[j] : \A s \in Behind(j) : s.set[r] # bset[w][r]
    BY <2>1, <2>3, RunTypes DEF SetIsNew
  <2> QED
    BY <2>2, <2>4
<1>2. Inv /\ [Next]_vars => [A]_vars
  BY <1>1
<1> HIDE DEF A
<1>3. Spec => [][A]_vars
  BY <1>2, Invariance, PTL DEF Spec
<1> QED
  BY <1>3 DEF TakenOnce, A

\* A build never runs with a version some job its passed: names has not been
\* green on (docs/infra.md:945), where nothing is pruned.
THEOREM GateKept ==
    ASSUME HistoryLimit = 0
    PROVE  Spec => []GateHolds
<1>1. Inv => GateHolds
  <2> SUFFICES ASSUME Inv, NEW w \in Workers, bset[w] # NoSet, NEW r \in Constrained(bjob[w]),
                      NEW u \in Passed[bjob[w]][r]
               PROVE  green[u][r][bset[w][r]] # NoBuild
    BY DEF GateHolds
  <2>1. RunOk(w) /\ Vouched(w)
    BY RunTypes
  <2>2. Bound(w)
    BY <2>1 DEF RunOk
  <2> QED
    BY <2>1, <2>2 DEF Vouched
<1> QED
  BY <1>1, Invariance, PTL

\* Who writes a webhook resource's checked version: its own delivery, or the
\* poll that read it.
LEMMA CheckedBy ==
    ASSUME Inv, [Next]_vars, Webhooks \subseteq Polled, NEW r \in Webhooks
    PROVE  \/ checked'[r] = checked[r]
           \/ Advance(r)
           \/ \E d \in handling : RecordDelivery(d) /\ d.r = r
<1>1. r \in Resources /\ DOMAIN checked = Resources
  BY PollingAssumption, ObsTypes
<1>2. CASE checked' = checked
  BY <1>2
<1>3. CASE PollingNext
  <2>1. CASE SeedColdStart
    <3>1. checked' = [checked EXCEPT ![pres] = obs[pres].latest] /\ pres \notin Webhooks
      BY <2>1 DEF SeedColdStart, RecordCheckedVersion, Inv, InHand
    <3> QED
      BY <1>1, <3>1
  <2>2. ASSUME NEW q \in Resources, Advance(q), q # r
        PROVE  checked'[r] = checked[r]
    BY <1>1, <2>2 DEF Advance, RecordCheckedVersion, CompareAndSetCheckedVersion
  <2>3. ASSUME NEW d \in handling, RecordDelivery(d), d.r # r
        PROVE  checked'[r] = checked[r]
    BY <1>1, <2>3 DEF RecordDelivery, RecordCheckedVersion
  <2>4. \/ checked' = checked
        \/ SeedColdStart
        \/ \E q \in Resources : Advance(q)
        \/ \E d \in handling : RecordDelivery(d)
    BY <1>3 DEF PollingNext, PollCycle, World, StartPoll, RecordHistory, ReadDeliveries, AffectedJobs,
       StartRelease, StartAdvance, EndPoll, CheckResource, ReadChecked, EnqueueAffected,
       ReleaseConstrained, CheckFails, Publish, Receive, SetPaused, Manual, storeVars
  <2> QED
    BY <2>1, <2>2, <2>3, <2>4
<1>4. CASE Crash \/ UNCHANGED vars
  BY <1>2, <1>4 DEF Crash, vars, pollingVars, storeVars
<1>5. ASSUME NEW w \in Workers, Run(w) \/ Publishes(w)
      PROVE  checked'[r] = checked[r]
  <2>1. CASE StartBuild(w)
    BY <1>1, <2>1 DEF StartBuild
  <2> QED
    BY <1>5, <2>1 DEF Run, Publishes, Claim, Refresh, LockCursor, Resolve, ResolveNothing,
       ResumeRecorded, RecordInputs, TakeVersions, BuildEnds, Resume, Put, pollingVars, storeVars
<1> QED
  BY <1>3, <1>4, <1>5 DEF Next

\* A webhook resource's checked version never goes back to an older delivery
\* (trigger.go:473), whatever deliveries land in a poll or race each other, where
\* nothing is pruned and the resource is polled.
THEOREM BaselineForward ==
    ASSUME HistoryLimit = 0, Webhooks \subseteq Polled
    PROVE  Spec => CheckedNeverRewinds
<1> DEFINE A == \A r \in Webhooks : checked[r] # None =>
                   hist'[r][checked'[r]].order >= hist'[r][checked[r]].order
<1>1. Inv /\ [Next]_vars => A
  <2> SUFFICES ASSUME Inv, [Next]_vars, NEW r \in Webhooks, checked[r] # None
               PROVE  hist'[r][checked'[r]].order >= hist'[r][checked[r]].order
    OBVIOUS
  <2>1. r \in Resources /\ checked[r] \in Versions /\ hist[r][checked[r]].checked
    BY PollingAssumption, ObsTypes DEF Inv, Delivered
  <2>2. StoreStep /\ Inv'
    BY StoreKept, StepInv
  <2>3. hist'[r][checked[r]].order \in Nat
    BY <2>1, <2>2 DEF StoreStep, History
  <2>4. CASE checked'[r] = checked[r]
    BY <2>3, <2>4
  <2>5. CASE Advance(r) /\ checked'[r] # checked[r]
    <3>1. hist' = hist /\ obs[r].dirty /\ checked[r] = obs[r].previous /\ checked'[r] = obs[r].latest
      BY <2>1, <2>5, ObsTypes DEF Advance, CompareAndSetCheckedVersion
    <3>2. obs[r].latest # None
      BY <3>1 DEF Inv, Delivered
    <3>3. hist[r][obs[r].previous].order <= hist[r][obs[r].latest].order
      BY <3>1, <3>2 DEF Inv, Delivered
    <3>4. obs[r].latest \in Versions
      BY <2>1, <3>2, ObsTypes DEF Observations
    <3>5. hist[r][obs[r].latest].order \in Nat
      BY <2>1, <3>4 DEF Inv, Typed, History
    <3> QED
      BY <2>3, <3>1, <3>3, <3>5
  <2>6. ASSUME NEW d \in handling, RecordDelivery(d), d.r = r, checked'[r] # checked[r]
        PROVE  hist'[r][checked'[r]].order >= hist'[r][checked[r]].order
    <3>1. /\ checked'[r] = d.v /\ d.v \in Versions
          /\ \A u \in Versions : hist[r][u].checked => hist'[r][u].order <= hist'[r][d.v].order
      BY <2>6, DeliveryEffect
    <3>2. hist'[r][d.v].order \in Nat
      BY <2>1, <2>2, <3>1 DEF StoreStep, History
    <3> QED
      BY <2>1, <2>3, <3>1, <3>2
  <2> QED
    BY <2>4, <2>5, <2>6, CheckedBy
<1>2. Inv /\ [Next]_vars => [A]_vars
  BY <1>1
<1> HIDE DEF A
<1>3. Spec => [][A]_vars
  BY <1>2, Invariance, PTL DEF Spec
<1> QED
  BY <1>3 DEF CheckedNeverRewinds, A

-----------------------------------------------------------------------------
(* What a job's cursor passes.                                             *)

\* What the job has taken, or a cold start marked as taken for it.
Came(j, r) == seeded[j][r] \cup {t.set[r] : t \in taken[j]}

\* No check has filed anything: a run resolves from a check of its own.
Bare(h) == \A v \in Versions : ~h[v].checked

\* A history h, a mark m in it and the versions C that came: all filed up to
\* the mark came; what a run filed by itself came, unless no check has filed
\* anything yet, and then what came is up to the mark, and what is filed is in
\* order, with all before it come.
Told(h, m, C) ==
    /\ m <= Top(h)
    /\ \A u \in Filed(h) : h[u].order <= m => u \in C
    /\ \A u, v \in Filed(h) : h[u].order = h[v].order => u = v
    /\ ~Bare(h) => \A u \in Filed(h) : h[u].checked \/ u \in C
    /\ Bare(h) => /\ \A u \in Versions \cap C : h[u].order > 0 /\ h[u].order <= m
                  /\ \A u \in Filed(h) :
                        h[u].order <= u /\ \A x \in Versions : x < u => x \in C

\* All that a run bound to v would pass over has come.
Ahead(h, C, v) ==
    \A u \in Versions \ {v} :
        IF h[v].checked THEN h[u].order > 0 /\ h[u].order < h[v].order => u \in C
        ELSE (u < v => u \in C) /\ (h[u].checked => u < v)

\* v has a place in the history k that comes after h.
Placed(h, k, v) ==
    IF h[v].order > 0 THEN k = h
    ELSE /\ k[v].order = Top(h) + 1 /\ ~k[v].checked
         /\ \A u \in Versions \ {v} : k[u] = h[u]

\* ensureVersion places a version last.
LEMMA EnsuredLast ==
    ASSUME NEW h \in History, NEW v \in Versions
    PROVE  /\ Placed(h, EnsureVersion(h, v), v) /\ EnsureVersion(h, v) \in History
           /\ EnsureAll(h, {v}) = EnsureVersion(h, v)
<1>1. EnsureVersion(h, v) \in History
  BY Ensured DEF Added
<1>2. h = [u \in Versions |-> h[u]]
  BY DEF History
<1>3. CASE h[v].order > 0
  <2>1. {u \in {v} : h[u].order = 0} = {}
    BY <1>3 DEF History
  <2>2. EnsureAll(h, {v}) = h
    BY <1>2, <2>1 DEF EnsureAll
  <2> QED
    BY <1>1, <1>3, <2>2 DEF Placed, EnsureVersion
<1>4. CASE ~(h[v].order > 0)
  <2> DEFINE e == [order |-> Top(h) + 1, checked |-> FALSE]
  <2>1. EnsureVersion(h, v) = [h EXCEPT ![v] = e]
    BY <1>4 DEF EnsureVersion
  <2>2. {u \in {v} : h[u].order = 0} = {v}
    BY <1>4 DEF History
  <2>3. {u \in {v} : u <= v} = {v} /\ Cardinality({v}) = 1
    BY VersionsAssumption, FS_Singleton
  <2>4. EnsureAll(h, {v}) = [u \in Versions |-> IF u \in {v}
                               THEN [order |-> Top(h) + Cardinality({x \in {v} : x <= u}), checked |-> FALSE]
                               ELSE h[u]]
    BY <2>2 DEF EnsureAll
  <2>5. \A u \in Versions : EnsureAll(h, {v})[u] = IF u = v THEN e ELSE h[u]
    BY <2>3, <2>4
  <2>6. \A u \in Versions : EnsureVersion(h, v)[u] = IF u = v THEN e ELSE h[u]
    BY <1>2, <2>1
  <2>7. EnsureVersion(h, v) = [u \in Versions |-> EnsureVersion(h, v)[u]]
    BY <1>2, <2>1
  <2>8. EnsureAll(h, {v}) = [u \in Versions |-> EnsureAll(h, {v})[u]]
    BY <2>4
  <2>9. EnsureAll(h, {v}) = EnsureVersion(h, v)
    BY <2>5, <2>6, <2>7, <2>8
  <2>10. e.order = Top(h) + 1 /\ ~e.checked
    OBVIOUS
  <2> HIDE DEF e
  <2>11. Placed(h, EnsureVersion(h, v), v)
    BY <1>4, <2>6, <2>10 DEF Placed
  <2> QED
    BY <1>1, <2>9, <2>11
<1> QED
  BY <1>3, <1>4

\* It moves nothing a check filed, and nothing that was filed at all.
LEMMA PlacedKeeps ==
    ASSUME NEW h \in History, Sound(h), NEW k \in History, NEW v \in Versions, Placed(h, k, v),
           NEW C, NEW D, C \subseteq D
    PROVE  /\ Bare(k) <=> Bare(h)
           /\ \A u \in Versions : /\ k[u].checked <=> h[u].checked
                                  /\ h[u].order > 0 => k[u] = h[u]
                                  /\ u # v => k[u] = h[u]
           /\ k[v].order > 0
           /\ Top(h) <= Top(k) /\ k[v].order <= Top(k)
           /\ \A x \in Versions : Ahead(h, C, x) => Ahead(k, D, x)
<1>1. /\ Top(h) \in Nat /\ \A u \in Versions : h[u].order <= Top(h) /\ h[u].order \in Nat
      /\ Top(h) = 0 \/ \E u \in Versions : h[u].order = Top(h)
      /\ Top(k) \in Nat /\ \A u \in Versions : k[u].order <= Top(k) /\ k[u].order \in Nat
  BY TopIsHighest DEF History
<1>2. CASE h[v].order > 0
  <2>1. k = h
    BY <1>2 DEF Placed
  <2>2. \A x \in Versions : Ahead(h, C, x) => Ahead(h, D, x)
    BY DEF Ahead
  <2> QED
    BY <1>1, <1>2, <2>1, <2>2
<1>3. CASE ~(h[v].order > 0)
  <2>1. k[v].order = Top(h) + 1 /\ ~k[v].checked /\ \A u \in Versions : u # v => k[u] = h[u]
    BY <1>3 DEF Placed
  <2>2. ~h[v].checked
    BY <1>3 DEF Sound
  <2>3. \A u \in Versions : (k[u].checked <=> h[u].checked)
    BY <2>1, <2>2
  <2>4. Bare(k) <=> Bare(h)
    BY <2>3 DEF Bare
  <2>5. k[v].order > 0 /\ k[v].order <= Top(k) /\ Top(h) <= Top(k)
    BY <1>1, <2>1
  <2>6. ASSUME NEW x \in Versions, Ahead(h, C, x), NEW u \in Versions \ {x}
        PROVE  IF k[x].checked THEN k[u].order > 0 /\ k[u].order < k[x].order => u \in D
               ELSE (u < x => u \in D) /\ (k[u].checked => u < x)
    <3>1. CASE k[x].checked
      <4>1. h[x].checked /\ k[x] = h[x]
        BY <2>1, <2>2, <2>3, <3>1
      <4>2. u = v => ~(k[u].order < k[x].order)
        BY <1>1, <2>1, <4>1
      <4> QED
        BY <2>1, <2>6, <3>1, <4>1, <4>2 DEF Ahead
    <3>2. CASE ~k[x].checked
      BY <2>3, <2>6, <3>2 DEF Ahead
    <3> QED
      BY <3>1, <3>2
  <2>7. \A x \in Versions : Ahead(h, C, x) => Ahead(k, D, x)
    BY <2>6 DEF Ahead
  <2> QED
    BY <1>3, <2>1, <2>3, <2>4, <2>5, <2>7
<1> QED
  BY <1>2, <1>3

\* A run files what came already, or, before any check has, what is next.
LEMMA PassTold ==
    ASSUME NEW h \in History, Sound(h), NEW k \in History, NEW v \in Versions, Placed(h, k, v),
           NEW m \in Nat, NEW C, Told(h, m, C),
           h[v].order > 0 \/ v \in C \/ (Bare(h) /\ Ahead(h, C, v))
    PROVE  Told(k, m, C)
<1>1. CASE h[v].order > 0
  BY <1>1 DEF Placed
<1>2. CASE ~(h[v].order > 0)
  <2>1. k[v].order = Top(h) + 1 /\ ~k[v].checked /\ \A u \in Versions : u # v => k[u] = h[u]
    BY <1>2 DEF Placed
  <2>2. /\ Top(h) \in Nat /\ \A u \in Versions : h[u].order <= Top(h) /\ h[u].order \in Nat
        /\ Top(h) = 0 \/ \E u \in Versions : h[u].order = Top(h)
        /\ \A u \in Versions : k[u].order \in Nat
    BY TopIsHighest DEF History
  <2>3. /\ Bare(k) <=> Bare(h)
        /\ Top(h) <= Top(k) /\ Top(k) \in Nat
    BY PlacedKeeps, TopIsHighest
  <2>4. \A u \in Filed(k) : u \in Versions /\ (u # v => u \in Filed(h) /\ k[u] = h[u])
    BY <2>1 DEF Filed
  <2>5. m <= Top(k)
    BY <2>2, <2>3 DEF Told
  <2>6. \A u \in Filed(k) : k[u].order <= m => u \in C
    <3> SUFFICES ASSUME NEW u \in Filed(k), k[u].order <= m PROVE u \in C
      OBVIOUS
    <3>1. u # v
      BY <2>1, <2>2 DEF Told
    <3> QED
      BY <2>4, <3>1 DEF Told
  <2>7. \A u, x \in Filed(k) : k[u].order = k[x].order => u = x
    <3> SUFFICES ASSUME NEW u \in Filed(k), NEW x \in Filed(k), k[u].order = k[x].order, u # x
                 PROVE  FALSE
      OBVIOUS
    <3>1. \A y \in Versions : y # v => k[y].order <= Top(h)
      BY <2>1, <2>2
    <3>2. u # v /\ x # v
      BY <2>1, <2>2, <2>4, <3>1
    <3> QED
      BY <2>4, <3>2 DEF Told
  <2>8. ~Bare(k) => \A u \in Filed(k) : k[u].checked \/ u \in C
    BY <1>2, <2>3, <2>4 DEF Told
  <2>9. ASSUME Bare(k)
        PROVE  /\ \A u \in Versions \cap C : k[u].order > 0 /\ k[u].order <= m
               /\ \A u \in Filed(k) : k[u].order <= u /\ \A x \in Versions : x < u => x \in C
    <3>1. Bare(h)
      BY <2>3, <2>9
    <3>2. v \notin C
      BY <1>2, <3>1 DEF Told
    <3>3. Ahead(h, C, v) /\ ~h[v].checked
      BY <1>2, <3>1, <3>2 DEF Bare
    <3>4. \A u \in Versions : u < v => u \in C
      BY <3>3, VersionsAssumption DEF Ahead
    <3>5. \A u \in Versions : h[u].order > 0 => h[u].order <= u /\ \A x \in Versions : x < u => x \in C
      BY <3>1 DEF Told, Filed
    <3>6. \A u \in Versions : h[u].order > 0 => u < v
      <4> SUFFICES ASSUME NEW u \in Versions, h[u].order > 0 PROVE u < v
        OBVIOUS
      <4>1. u # v /\ ~(v < u)
        BY <1>2, <3>2, <3>5
      <4> QED
        BY <4>1, VersionsAssumption
    <3>7. Top(h) < v
      <4>1. CASE Top(h) = 0
        BY <4>1, VersionsAssumption
      <4>2. CASE Top(h) # 0
        <5>1. PICK u \in Versions : h[u].order = Top(h)
          BY <2>2, <4>2
        <5>2. h[u].order > 0 /\ u \in Nat /\ v \in Nat
          BY <2>2, <4>2, <5>1, VersionsAssumption
        <5>3. h[u].order <= u /\ u < v
          BY <3>5, <3>6, <5>2
        <5> QED
          BY <2>2, <5>1, <5>2, <5>3
      <4> QED
        BY <4>1, <4>2
    <3>8. k[v].order <= v
      BY <2>1, <2>2, <3>7, VersionsAssumption
    <3>9. \A u \in Filed(k) : k[u].order <= u /\ \A x \in Versions : x < u => x \in C
      BY <2>4, <3>4, <3>5, <3>8 DEF Filed
    <3>10. \A u \in Versions \cap C : k[u].order > 0 /\ k[u].order <= m
      BY <2>1, <3>1, <3>2 DEF Told
    <3> QED
      BY <3>9, <3>10
  <2> QED
    BY <2>5, <2>6, <2>7, <2>8, <2>9 DEF Told
<1> QED
  BY <1>1, <1>2

\* A take moves the mark to what it takes, and passes nothing that has not come.
LEMMA TakeTold ==
    ASSUME NEW h \in History, Sound(h), NEW k \in History, NEW v \in Versions, Placed(h, k, v),
           NEW m \in Nat, NEW C, Told(h, m, C), Ahead(h, C, v)
    PROVE  Told(k, Forward(m, k[v].order), C \cup {v})
<1> DEFINE n == Forward(m, k[v].order)
           D == C \cup {v}
<1>1. /\ Top(h) \in Nat /\ \A u \in Versions : h[u].order <= Top(h) /\ h[u].order \in Nat
      /\ Top(h) = 0 \/ \E u \in Versions : h[u].order = Top(h)
      /\ Top(k) \in Nat /\ \A u \in Versions : k[u].order <= Top(k) /\ k[u].order \in Nat
  BY TopIsHighest DEF History
<1>2. /\ Bare(k) <=> Bare(h)
      /\ \A u \in Versions : /\ k[u].checked <=> h[u].checked
                             /\ h[u].order > 0 => k[u] = h[u]
                             /\ u # v => k[u] = h[u]
      /\ k[v].order > 0 /\ Top(h) <= Top(k) /\ k[v].order <= Top(k)
  BY PlacedKeeps
<1>3. ~(h[v].order > 0) => k[v].order = Top(h) + 1
  BY DEF Placed
<1>4. n \in Nat /\ m <= n /\ k[v].order <= n /\ (n = m \/ n = k[v].order)
  BY <1>1 DEF Forward
<1> HIDE DEF n
<1>5. n <= Top(k)
  BY <1>1, <1>2, <1>4 DEF Told
<1>6. \A u \in Versions : k[u].order > 0 /\ u # v => u \in Filed(h) /\ k[u] = h[u]
  BY <1>2 DEF Filed
<1>7. \A u, x \in Filed(k) : k[u].order = k[x].order => u = x
  <2> SUFFICES ASSUME NEW u \in Filed(k), NEW x \in Filed(k), k[u].order = k[x].order, u # x
               PROVE  FALSE
    OBVIOUS
  <2>1. u \in Versions /\ x \in Versions /\ k[u].order > 0 /\ k[x].order > 0
    BY DEF Filed
  <2>2. CASE h[v].order > 0
    <3>1. u \in Filed(h) /\ x \in Filed(h) /\ k[u] = h[u] /\ k[x] = h[x]
      BY <1>2, <2>1, <2>2 DEF Filed
    <3> QED
      BY <3>1 DEF Told
  <2>3. CASE ~(h[v].order > 0)
    <3>1. \A y \in Versions : y # v => k[y].order <= Top(h)
      BY <1>1, <1>2
    <3>2. u # v /\ x # v
      BY <1>1, <1>3, <2>1, <2>3, <3>1
    <3> QED
      BY <1>6, <2>1, <3>2 DEF Told
  <2> QED
    BY <2>2, <2>3
<1>8. \A u \in Versions : h[u].order > 0 /\ Bare(h) => h[u].order <= u /\ \A x \in Versions : x < u => x \in C
  BY DEF Told, Filed
<1>9. \A u \in Versions \cap C : Bare(h) => h[u].order > 0 /\ h[u].order <= m
  BY DEF Told
\* Behind what is taken now, everything has come.
<1>10. ASSUME NEW u \in Versions, u # v, h[u].order > 0, h[u].order <= k[v].order
       PROVE  u \in C \/ h[u].order <= m
  <2>1. CASE h[v].checked
    <3>1. k[v] = h[v] /\ h[v].order > 0
      BY <1>2, <2>1 DEF Sound
    <3>2. h[u].order # h[v].order
      BY <1>10, <3>1 DEF Told, Filed
    <3>3. h[u].order < h[v].order
      BY <1>1, <1>10, <3>1, <3>2
    <3> QED
      BY <1>10, <2>1, <3>3 DEF Ahead
  <2>2. CASE ~h[v].checked
    <3>1. CASE u < v
      BY <1>10, <2>2, <3>1 DEF Ahead
    <3>2. CASE ~(u < v)
      <4>1. v < u /\ ~h[u].checked
        BY <1>10, <2>2, <3>2, VersionsAssumption DEF Ahead
      <4>2. CASE ~Bare(h)
        BY <1>10, <4>1, <4>2 DEF Told, Filed
      <4>3. CASE Bare(h)
        <5>1. v \in C
          BY <1>8, <1>10, <4>1, <4>3
        <5>2. h[v].order > 0 /\ h[v].order <= m /\ k[v] = h[v]
          BY <1>2, <1>9, <4>3, <5>1
        <5> QED
          BY <1>1, <1>10, <5>2
      <4> QED
        BY <4>2, <4>3
    <3> QED
      BY <3>1, <3>2
  <2> QED
    BY <2>1, <2>2
<1>11. \A u \in Filed(k) : k[u].order <= n => u \in D
  <2> SUFFICES ASSUME NEW u \in Filed(k), k[u].order <= n, u # v PROVE u \in C
    OBVIOUS
  <2>1. u \in Versions /\ u \in Filed(h) /\ k[u] = h[u] /\ h[u].order > 0
    BY <1>6 DEF Filed
  <2>2. h[u].order <= m => u \in C
    BY <2>1 DEF Told
  <2> QED
    BY <1>4, <1>10, <2>1, <2>2
<1>12. ~Bare(k) => \A u \in Filed(k) : k[u].checked \/ u \in D
  BY <1>2, <1>6 DEF Told, Filed
<1>13. ASSUME Bare(k)
       PROVE  /\ \A u \in Versions \cap D : k[u].order > 0 /\ k[u].order <= n
              /\ \A u \in Filed(k) : k[u].order <= u /\ \A x \in Versions : x < u => x \in D
  <2>1. Bare(h) /\ ~h[v].checked
    BY <1>2, <1>13 DEF Bare
  <2>2. \A u \in Versions \cap D : k[u].order > 0 /\ k[u].order <= n
    <3> SUFFICES ASSUME NEW u \in Versions \cap D PROVE k[u].order > 0 /\ k[u].order <= n
      OBVIOUS
    <3>1. CASE u = v
      BY <1>2, <1>4, <3>1
    <3>2. CASE u # v
      <4>1. h[u].order > 0 /\ h[u].order <= m /\ k[u] = h[u]
        BY <1>2, <1>9, <2>1, <3>2
      <4> QED
        BY <1>1, <1>4, <4>1
    <3> QED
      BY <3>1, <3>2
  <2>3. \A x \in Versions : x < v => x \in C
    BY <2>1, VersionsAssumption DEF Ahead
  <2>4. k[v].order <= v
    <3>1. CASE h[v].order > 0
      BY <1>2, <1>8, <2>1, <3>1
    <3>2. CASE ~(h[v].order > 0)
      <4>1. \A u \in Versions : h[u].order > 0 => u < v
        <5> SUFFICES ASSUME NEW u \in Versions, h[u].order > 0 PROVE u < v
          OBVIOUS
        <5>1. v \notin C
          BY <1>9, <2>1, <3>2
        <5>2. u # v /\ ~(v < u)
          BY <1>8, <2>1, <3>2, <5>1
        <5> QED
          BY <5>2, VersionsAssumption
      <4>2. Top(h) < v
        <5>1. CASE Top(h) = 0
          BY <5>1, VersionsAssumption
        <5>2. CASE Top(h) # 0
          <6>1. PICK u \in Versions : h[u].order = Top(h)
            BY <1>1, <5>2
          <6>2. h[u].order > 0 /\ u \in Nat /\ v \in Nat
            BY <1>1, <5>2, <6>1, VersionsAssumption
          <6>3. h[u].order <= u /\ u < v
            BY <1>8, <2>1, <4>1, <6>2
          <6> QED
            BY <1>1, <6>1, <6>2, <6>3
        <5> QED
          BY <5>1, <5>2
      <4> QED
        BY <1>1, <1>3, <3>2, <4>2, VersionsAssumption
    <3> QED
      BY <3>1, <3>2
  <2>5. \A u \in Filed(k) : k[u].order <= u /\ \A x \in Versions : x < u => x \in D
    <3> SUFFICES ASSUME NEW u \in Filed(k)
                 PROVE  k[u].order <= u /\ \A x \in Versions : x < u => x \in D
      OBVIOUS
    <3>1. CASE u = v
      BY <2>3, <2>4, <3>1
    <3>2. CASE u # v
      BY <1>6, <1>8, <2>1, <3>2 DEF Filed
    <3> QED
      BY <3>1, <3>2
  <2> QED
    BY <2>2, <2>5
<1> QED
  BY <1>5, <1>7, <1>11, <1>12, <1>13 DEF Told, n

\* A report of a whole window files after the mark all that no check had filed,
\* and leaves nothing else behind that has not come.
LEMMA ReportTold ==
    ASSUME NEW h \in History, Sound(h), FirstFirst(h),
           NEW report \in SUBSET Versions, report # {}, Prefix(report),
           NEW m \in Nat, NEW C, Told(h, m, C),
           \A u \in Filed(h) : h[u].checked \/ u \in C \/ u \in report
    PROVE  LET k == PruneVersions(InsertNewVersions(h, report), report)
           IN  /\ Told(k, m, C) /\ ~Bare(k)
               /\ \A u \in Versions : h[u].checked \/ u \in report => k[u].checked
               /\ \A x \in Versions : Ahead(h, C, x) => Ahead(k, C, x)
<1> DEFINE i == InsertNewVersions(h, report)
           k == PruneVersions(i, report)
<1>1. /\ i \in History
      /\ \A v \in Versions : h[v].checked \/ v \notin report => i[v] = h[v]
      /\ \A v \in report : i[v].checked
      /\ \A v \in report : ~h[v].checked => i[v].order > Top(h)
      /\ \A u, v \in report : ~h[u].checked /\ ~h[v].checked /\ u <= v =>
            i[u].order <= i[v].order /\ (u # v => i[u].order < i[v].order)
  BY Inserted
<1>2. /\ k \in History
      /\ \A v \in Versions : h[v].checked => k[v] = h[v]
      /\ \A v \in Versions : k[v].checked => h[v].checked \/ v \in report
  BY Reported
<1> HIDE DEF i
<1>3. /\ \A v \in Versions : k[v] = i[v] \/ k[v] = Absent
      /\ \A v \in Versions : (\E u \in report : i[u].order <= i[v].order) => k[v] = i[v]
  BY <1>1, Pruned
<1> HIDE DEF k
<1>4. /\ Top(h) \in Nat /\ \A u \in Versions : h[u].order <= Top(h) /\ h[u].order \in Nat
      /\ Top(h) = 0 \/ \E u \in Versions : h[u].order = Top(h)
      /\ Top(k) \in Nat /\ \A u \in Versions : k[u].order <= Top(k) /\ k[u].order \in Nat
      /\ \A u \in Versions : i[u].order \in Nat
  BY <1>1, <1>2, TopIsHighest DEF History
<1>5. Absent.order = 0 /\ ~Absent.checked
  BY DEF Absent
<1>6. \A v \in report : k[v] = i[v] /\ k[v].checked
  <2> SUFFICES ASSUME NEW v \in report PROVE k[v] = i[v]
    BY <1>1
  <2>1. i[v].order <= i[v].order
    BY <1>4
  <2> QED
    BY <1>3, <2>1
<1>7. \A u \in Versions : h[u].checked \/ u \in report => k[u].checked
  BY <1>2, <1>6
<1>8. ~Bare(k)
  BY <1>6 DEF Bare
\* What is filed now was filed before, or is new and behind all there was.
<1>9. \A u \in Filed(k) : \/ u \in Filed(h) /\ k[u] = h[u] /\ (h[u].checked \/ u \notin report)
                          \/ /\ u \in report /\ ~h[u].checked /\ k[u].checked
                             /\ k[u] = i[u] /\ k[u].order > Top(h)
  <2> SUFFICES ASSUME NEW u \in Filed(k)
               PROVE  \/ u \in Filed(h) /\ k[u] = h[u] /\ (h[u].checked \/ u \notin report)
                      \/ /\ u \in report /\ ~h[u].checked /\ k[u].checked
                         /\ k[u] = i[u] /\ k[u].order > Top(h)
    OBVIOUS
  <2>1. u \in Versions /\ k[u].order > 0 /\ k[u] = i[u]
    BY <1>3, <1>5 DEF Filed
  <2>2. CASE h[u].checked \/ u \notin report
    BY <1>1, <2>1, <2>2 DEF Filed
  <2>3. CASE ~h[u].checked /\ u \in report
    BY <1>1, <1>6, <2>1, <2>3
  <2> QED
    BY <2>2, <2>3
<1>10. m <= Top(k)
  <2>1. m <= Top(h)
    BY DEF Told
  <2>2. CASE \E u \in report : ~h[u].checked
    <3>1. PICK u \in report : k[u].order > Top(h)
      BY <1>1, <1>6, <2>2
    <3> QED
      BY <1>4, <2>1, <3>1
  <2>3. CASE \A u \in report : h[u].checked
    <3>1. PICK u \in report : TRUE
      OBVIOUS
    <3>2. i[u] = h[u] /\ h[u].order <= Top(h)
      BY <1>1, <1>4, <2>3
    <3>3. CASE Top(h) = 0
      BY <1>4, <2>1, <3>3
    <3>4. CASE Top(h) # 0
      <4>1. PICK x \in Versions : h[x].order = Top(h)
        BY <1>4, <3>4
      <4>2. i[x] = h[x]
        BY <1>1, <2>3
      <4>3. k[x] = h[x]
        BY <1>3, <3>2, <4>1, <4>2
      <4> QED
        BY <1>4, <2>1, <4>1, <4>3
    <3> QED
      BY <3>3, <3>4
  <2> QED
    BY <2>2, <2>3
<1>11. \A u \in Filed(k) : k[u].order <= m => u \in C
  <2> SUFFICES ASSUME NEW u \in Filed(k), k[u].order <= m PROVE u \in C
    OBVIOUS
  <2>1. u \in Versions /\ ~(k[u].order > Top(h))
    BY <1>4 DEF Told, Filed
  <2>2. u \in Filed(h) /\ k[u] = h[u]
    BY <1>9, <2>1
  <2> QED
    BY <2>2 DEF Told
<1>12. \A u, v \in Filed(k) : k[u].order = k[v].order => u = v
  <2> SUFFICES ASSUME NEW u \in Filed(k), NEW v \in Filed(k), k[u].order = k[v].order, u # v
               PROVE  FALSE
    OBVIOUS
  <2>1. u \in Versions /\ v \in Versions /\ u \in Nat /\ v \in Nat
    BY VersionsAssumption DEF Filed
  <2>2. \A x \in Filed(h) : ~(h[x].order > Top(h))
    BY <1>4 DEF Filed
  <2>3. CASE u \in Filed(h) /\ k[u] = h[u]
    <3>1. v \in Filed(h) /\ k[v] = h[v]
      BY <1>9, <2>2, <2>3
    <3> QED
      BY <2>3, <3>1 DEF Told
  <2>4. CASE u \in report /\ ~h[u].checked /\ k[u] = i[u] /\ k[u].order > Top(h)
    <3>1. v \in report /\ ~h[v].checked /\ k[v] = i[v]
      BY <1>9, <2>2, <2>4
    <3>2. u <= v \/ v <= u
      BY <2>1
    <3>3. i[u].order < i[v].order \/ i[v].order < i[u].order
      BY <1>1, <2>4, <3>1, <3>2
    <3> QED
      BY <1>4, <2>1, <2>4, <3>1, <3>3
  <2> QED
    BY <1>9, <2>3, <2>4
<1>13. \A u \in Filed(k) : k[u].checked \/ u \in C
  BY <1>9
<1>14. Told(k, m, C)
  BY <1>8, <1>10, <1>11, <1>12, <1>13 DEF Told
<1>15. ASSUME NEW x \in Versions, Ahead(h, C, x), NEW u \in Versions \ {x}
       PROVE  IF k[x].checked THEN k[u].order > 0 /\ k[u].order < k[x].order => u \in C
              ELSE (u < x => u \in C) /\ (k[u].checked => u < x)
  <2>1. u \in Nat /\ x \in Nat
    BY VersionsAssumption
  <2>2. CASE h[x].checked
    <3>1. k[x] = h[x] /\ h[x].order <= Top(h)
      BY <1>2, <1>4, <2>2
    <3>2. k[u].order > 0 /\ k[u].order < k[x].order => u \in Filed(h) /\ k[u] = h[u]
      <4> SUFFICES ASSUME k[u].order > 0, k[u].order < k[x].order
                   PROVE  u \in Filed(h) /\ k[u] = h[u]
        OBVIOUS
      <4>1. u \in Filed(k) /\ ~(k[u].order > Top(h))
        BY <1>4, <3>1 DEF Filed
      <4> QED
        BY <1>9, <4>1
    <3> QED
      BY <1>15, <2>2, <3>1, <3>2 DEF Ahead, Filed
  <2>3. CASE ~h[x].checked /\ x \in report
    <3>1. k[x].checked /\ k[x] = i[x]
      BY <1>6, <2>3
    <3>2. ASSUME k[u].order > 0, k[u].order < k[x].order
          PROVE  u \in C
      <4>1. u \in Filed(k)
        BY <3>2 DEF Filed
      <4>2. CASE u \in Filed(h) /\ (h[u].checked \/ u \notin report)
        <5>1. CASE h[u].checked
          BY <1>15, <2>3, <5>1 DEF Ahead
        <5>2. CASE ~h[u].checked
          BY <4>2, <5>2
        <5> QED
          BY <5>1, <5>2
      <4>3. CASE u \in report /\ ~h[u].checked /\ k[u] = i[u]
        <5>1. x <= u => i[x].order <= i[u].order
          BY <1>1, <2>3, <4>3
        <5>2. ~(x <= u)
          BY <1>4, <3>1, <3>2, <4>3, <5>1
        <5> QED
          BY <1>15, <2>1, <2>3, <5>2 DEF Ahead
      <4> QED
        BY <1>9, <4>1, <4>2, <4>3
    <3> QED
      BY <3>1, <3>2
  <2>4. CASE ~h[x].checked /\ x \notin report
    <3>1. ~k[x].checked
      BY <1>2, <2>4
    <3>2. u \in report => u < x
      BY <2>1, <2>4 DEF Prefix
    <3>3. k[u].checked => u < x
      BY <1>2, <1>15, <2>4, <3>2 DEF Ahead
    <3> QED
      BY <1>15, <2>4, <3>1, <3>3 DEF Ahead
  <2> QED
    BY <2>2, <2>3, <2>4
<1>16. \A x \in Versions : Ahead(h, C, x) => Ahead(k, C, x)
  BY <1>15 DEF Ahead
<1> QED
  BY <1>7, <1>8, <1>14, <1>16 DEF k, i

\* The mark of a cold start is in the history.
LEMMA ColdStartLow ==
    ASSUME NEW h \in History, NEW latest
    PROVE  ColdStartMark(h, latest) \in Nat /\ ColdStartMark(h, latest) <= Top(h)
<1> DEFINE T == Filed(h) \ {latest}
           low == Max({h[v].order : v \in T} \cup {0})
<1>1. T \in SUBSET Versions
  BY DEF Filed
<1> HIDE DEF T
<1>2. low \in Nat /\ (low = 0 \/ \E v \in T : h[v].order = low)
  BY <1>1, HighestOf
<1>3. Top(h) \in Nat /\ \A v \in Versions : h[v].order <= Top(h)
  BY TopIsHighest
<1> HIDE DEF low
<1>4. low <= Top(h)
  BY <1>1, <1>2, <1>3
<1>5. ColdStartMark(h, latest) = IF h[latest].order = Top(h) THEN low ELSE Top(h)
  BY DEF ColdStartMark, low, T
<1> QED
  BY <1>2, <1>3, <1>4, <1>5

\* j is the one job that takes r as it comes: r's checks list their whole window,
\* nobody puts it, and the other jobs that get it wait for another to pass it.
Fed(j, r) ==
    /\ r \in Windowed
    /\ \A k \in Jobs \ {j} : r \in Gets[k] => Passed[k][r] # {}
    /\ \A k \in Jobs : r \notin Puts[k]

\* A version that is out there, and in the report the poller has in hand.
Listed(r, v) == v \in published[r] /\ (ppc = "checked" /\ pres = r => v \in obs[r].versions)

\* What a run filed by itself, and j has not taken.
Unseen(j, r) == {u \in Filed(hist[r]) : ~hist[r][u].checked /\ u \notin Came(j, r)}

\* What a run of another job may file again and never file first.
Safe(h, C, v) == v \in C \/ h[v].checked \/ (Bare(h) /\ h[v].order > 0)

\* A run of j: its cursor covers what came, and what it is bound to passes over
\* nothing; if that was not taken by then (a run that was resumed), it is filed
\* by a check, or by the run before any check files another.
Own(j, r, w) ==
    bjob[w] = j =>
        /\ bpc[w] = "locked" => \A u \in Versions : Covered(bcursor[w][r], u) => u \in Came(j, r)
        /\ Bound(w) =>
              /\ Ahead(hist[r], Came(j, r), bset[w][r]) /\ bset[w][r] \in published[r]
              /\ bpc[w] \notin {"resolved", "recorded"} /\ bset[w][r] \notin Came(j, r) =>
                    /\ Listed(r, bset[w][r])
                    /\ bpc[w] \in {"taken", "building"} =>
                          Bare(hist[r]) \/ hist[r][bset[w][r]].checked

Other(j, r, w) ==
    bjob[w] # j /\ Bound(w) /\ r \in Gets[bjob[w]] => Safe(hist[r], Came(j, r), bset[w][r])

Story(j, r) ==
    /\ Told(hist[r], mark[j][r], Came(j, r))
    /\ \A w \in Workers : Own(j, r, w) /\ Other(j, r, w)
    /\ \A w \in Workers, v \in Versions : <<r, v>> \notin bput[w]
    /\ \A u \in Unseen(j, r) : Listed(r, u)
    /\ ppc = "seeding" /\ pres = r => ~Bare(hist[r])

\* What a step makes of the tables.
Follows(j, r) ==
    /\ Told(hist[r], mark[j][r], Came(j, r))'
    /\ Came(j, r) \subseteq Came(j, r)'
    /\ Bare(hist[r])' => Bare(hist[r])
    /\ \A v \in Versions : Ahead(hist[r], Came(j, r), v) => Ahead(hist'[r], Came(j, r)', v)
    /\ \A v \in Versions : Safe(hist[r], Came(j, r), v) => Safe(hist'[r], Came(j, r)', v)
    /\ \A v \in Versions : hist[r][v].checked => hist'[r][v].checked
    /\ \A v \in Versions : Listed(r, v) /\ Bare(hist[r]) => Bare(hist[r])' \/ hist'[r][v].checked
    /\ \A u \in Unseen(j, r)' : Listed(r, u)

\* The tables as these proofs use them.
LEMMA StoryTypes ==
    ASSUME Inv, NEW j \in Jobs, NEW r \in Every[j], Fed(j, r)
    PROVE  /\ r \in Resources /\ r \in Gets[j] /\ r \notin Webhooks /\ r \in Windowed
           /\ hist[r] \in History /\ Sound(hist[r]) /\ FirstFirst(hist[r])
           /\ mark[j][r] \in Nat
           /\ published[r] \in SUBSET Versions /\ Prefix(published[r])
           /\ Report(r) = published[r]
           /\ \A v \in Versions : hist[r][v].checked => v \in published[r]
<1>1. r \in Windowed /\ r \in Resources /\ r \in Gets[j]
  BY PollingAssumption, InputsAssumption DEF Fed, Windowed
<1>2. r \notin Webhooks /\ r \notin Backfills /\ r \notin AfterCursor
  BY <1>1 DEF Windowed
<1> QED
  BY <1>1, <1>2 DEF Inv, Typed, Filing, Report

\* A step that leaves the history, the mark and what came alone.
LEMMA SameFollows ==
    ASSUME Inv, NEW j \in Jobs, NEW r \in Every[j], Fed(j, r), Story(j, r),
           hist'[r] = hist[r], mark'[j][r] = mark[j][r], Came(j, r)' = Came(j, r)
    PROVE  Follows(j, r)
<1>1. Unseen(j, r)' = Unseen(j, r)
  BY DEF Unseen
<1>2. Told(hist'[r], mark'[j][r], Came(j, r)')
  BY DEF Story
<1> QED
  BY <1>1, <1>2 DEF Follows, Story

\* A run files one version of r, if it is not filed.
LEMMA PlacedFollows ==
    ASSUME Inv, NEW j \in Jobs, NEW r \in Every[j], Fed(j, r), Story(j, r), hist'[r] \in History,
           NEW v \in Versions, Placed(hist[r], hist'[r], v),
           Told(hist'[r], mark'[j][r], Came(j, r)'), Came(j, r) \subseteq Came(j, r)',
           hist[r][v].order > 0 \/ v \in Came(j, r)' \/ Listed(r, v)
    PROVE  Follows(j, r)
<1>1. hist[r] \in History /\ Sound(hist[r])
  BY StoryTypes
<1>2. /\ Bare(hist'[r]) <=> Bare(hist[r])
      /\ \A u \in Versions : /\ hist'[r][u].checked <=> hist[r][u].checked
                             /\ hist[r][u].order > 0 => hist'[r][u] = hist[r][u]
                             /\ u # v => hist'[r][u] = hist[r][u]
      /\ \A x \in Versions : Ahead(hist[r], Came(j, r), x) => Ahead(hist'[r], Came(j, r)', x)
  BY <1>1, PlacedKeeps
<1>3. \A u \in Unseen(j, r)' : Listed(r, u)
  <2> SUFFICES ASSUME NEW u \in Unseen(j, r)' PROVE Listed(r, u)
    OBVIOUS
  <2>1. /\ u \in Versions /\ hist'[r][u].order > 0 /\ ~hist'[r][u].checked
        /\ u \notin Came(j, r)' /\ u \notin Came(j, r)
    BY DEF Unseen, Filed
  <2>2. CASE hist[r][u].order > 0
    <3>1. u \in Unseen(j, r)
      BY <1>2, <2>1, <2>2 DEF Unseen, Filed
    <3> QED
      BY <3>1 DEF Story
  <2>3. CASE ~(hist[r][u].order > 0)
    BY <1>2, <2>1, <2>3
  <2> QED
    BY <2>2, <2>3
<1>4. \A x \in Versions : Safe(hist[r], Came(j, r), x) => Safe(hist'[r], Came(j, r)', x)
  BY <1>2 DEF Safe
<1> QED
  BY <1>2, <1>3, <1>4 DEF Follows

\* A report of r is filed.
LEMMA ReportFollows ==
    ASSUME Inv, NEW j \in Jobs, NEW r \in Every[j], Fed(j, r), Story(j, r),
           NEW report \in SUBSET Versions, report # {}, Prefix(report),
           \A u \in Versions : Listed(r, u) => u \in report,
           RecordVersions(r, report), mark'[j][r] = mark[j][r], Came(j, r)' = Came(j, r)
    PROVE  Follows(j, r) /\ ~Bare(hist[r])'
<1> DEFINE h == hist[r]
           k == PruneVersions(InsertNewVersions(h, report), report)
           C == Came(j, r)
<1>1. h \in History /\ Sound(h) /\ FirstFirst(h) /\ mark[j][r] \in Nat /\ r \in Resources
  BY StoryTypes
<1>2. hist' = [hist EXCEPT ![r] = k]
  BY DEF RecordVersions, SetHistory
<1>3. hist'[r] = k
  BY <1>1, <1>2 DEF Inv, Typed
<1>4. \A u \in Filed(h) : h[u].checked \/ u \in C \/ u \in report
  <2> SUFFICES ASSUME NEW u \in Filed(h), ~h[u].checked, u \notin C PROVE u \in report
    OBVIOUS
  <2>1. u \in Unseen(j, r) /\ u \in Versions
    BY DEF Unseen, Filed
  <2> QED
    BY <2>1 DEF Story
<1>5. Told(h, mark[j][r], C)
  BY DEF Story
<1> HIDE DEF C
<1>6. /\ Told(k, mark[j][r], C) /\ ~Bare(k)
      /\ \A u \in Versions : h[u].checked \/ u \in report => k[u].checked
      /\ \A x \in Versions : Ahead(h, C, x) => Ahead(k, C, x)
  BY <1>1, <1>4, <1>5, ReportTold
<1> HIDE DEF k
<1>7. \A x \in Versions : Safe(h, C, x) => Safe(k, C, x)
  <2> SUFFICES ASSUME NEW x \in Versions, Safe(h, C, x), x \notin C, ~h[x].checked PROVE k[x].checked
    BY <1>6 DEF Safe
  <2>1. x \in Filed(h)
    BY DEF Safe, Filed
  <2> QED
    BY <1>4, <1>6, <2>1
<1>8. Unseen(j, r)' = {}
  BY <1>3, <1>6 DEF Unseen, Told, C
<1> QED
  BY <1>3, <1>6, <1>7, <1>8 DEF Follows, C

\* A build takes what it is bound to.
LEMMA TakeFollows ==
    ASSUME Inv, NEW j \in Jobs, NEW r \in Every[j], Fed(j, r), Story(j, r),
           NEW w \in Workers, TakeVersions(w)
    PROVE  Follows(j, r) /\ (bjob[w] = j => bset[w][r] \in Came(j, r)')
<1> DEFINE i == bjob[w]
           v == bset[w][r]
           C == Came(j, r)
<1>1. /\ bpc[w] = "recorded" /\ bpc[w] # "idle" /\ Bound(w) /\ seeded' = seeded
      /\ mark' = [mark EXCEPT ![i] = [q \in Resources |->
            IF q \in Every[i] THEN Forward(mark[i][q], hist'[q][bset[w][q]].order) ELSE mark[i][q]]]
      /\ taken' = [taken EXCEPT ![i] = IF Every[i] = {} THEN taken[i] ELSE taken[i] \cup
            {[set |-> EverySet(w), filed |-> \A q \in Every[i] : hist[q][bset[w][q]].checked]}]
  BY DEF TakeVersions, At, Bound
<1>2. /\ i \in Jobs /\ Every[i] \subseteq Gets[i] /\ Gets[i] \subseteq Resources
      /\ bset[w] \in [Gets[i] -> Versions]
  BY <1>1, RunOf
<1>3. /\ r \in Resources /\ hist[r] \in History /\ Sound(hist[r]) /\ mark[j][r] \in Nat
      /\ mark \in [Jobs -> [Resources -> Nat]] /\ DOMAIN taken = Jobs
  BY StoryTypes DEF Inv, Typed, Taking
<1>4. /\ hist'[r] = IF r \in Every[i] THEN EnsureVersion(hist[r], v) ELSE hist[r]
      /\ hist'[r] \in History
  BY <1>3, TakeStore DEF StoreStep
<1>5. Told(hist[r], mark[j][r], C) /\ Own(j, r, w) /\ Other(j, r, w)
  BY DEF Story
<1>6. CASE i = j
  <2>1. v \in Versions /\ r \in Every[i]
    BY <1>2, <1>6
  <2>2. Placed(hist[r], hist'[r], v)
    BY <1>3, <1>4, <2>1, EnsuredLast
  <2>3. mark'[j][r] = Forward(mark[j][r], hist'[r][v].order)
    BY <1>1, <1>3, <1>6
  <2>4. Came(j, r)' = C \cup {v}
    <3>1. \E t : taken'[j] = taken[j] \cup {t} /\ t.set[r] = v
      <4> DEFINE t == [set |-> EverySet(w), filed |-> \A q \in Every[i] : hist[q][bset[w][q]].checked]
      <4>1. taken'[j] = taken[j] \cup {t}
        BY <1>1, <1>2, <1>3, <1>6
      <4>2. t.set[r] = v
        BY <1>6 DEF EverySet
      <4> QED
        BY <4>1, <4>2
    <3>2. PICK t : taken'[j] = taken[j] \cup {t} /\ t.set[r] = v
      BY <3>1
    <3> QED
      BY <1>1, <3>2 DEF Came
  <2>5. Ahead(hist[r], C, v)
    BY <1>1, <1>5, <1>6 DEF Own
  <2> HIDE DEF C, v
  <2>6. Told(hist'[r], Forward(mark[j][r], hist'[r][v].order), C \cup {v})
    BY <1>3, <1>4, <1>5, <2>1, <2>2, <2>5, TakeTold
  <2>7. Told(hist'[r], mark'[j][r], Came(j, r)')
    BY <2>3, <2>4, <2>6
  <2>8. Came(j, r) \subseteq Came(j, r)' /\ v \in Came(j, r)'
    BY <2>4 DEF C
  <2>9. Follows(j, r)
    BY <1>4, <2>1, <2>2, <2>7, <2>8, PlacedFollows
  <2> QED
    BY <2>8, <2>9 DEF v
<1>7. CASE i # j
  <2>1. mark'[j][r] = mark[j][r] /\ taken'[j] = taken[j]
    BY <1>1, <1>3, <1>7
  <2>2. Came(j, r)' = C
    BY <1>1, <2>1 DEF Came
  <2>3. CASE r \notin Every[i]
    BY <1>4, <1>7, <2>1, <2>2, <2>3, SameFollows
  <2>4. CASE r \in Every[i]
    <3>1. v \in Versions /\ r \in Gets[i]
      BY <1>2, <2>4
    <3>2. Placed(hist[r], hist'[r], v)
      BY <1>3, <1>4, <2>4, <3>1, EnsuredLast
    <3>3. v \in C \/ hist[r][v].order > 0
      BY <1>1, <1>3, <1>5, <1>7, <3>1 DEF Other, Safe, Sound
    <3> HIDE DEF C, v
    <3>4. Told(hist'[r], mark[j][r], C)
      BY <1>3, <1>4, <1>5, <3>1, <3>2, <3>3, PassTold
    <3>5. /\ Told(hist'[r], mark'[j][r], Came(j, r)') /\ Came(j, r) \subseteq Came(j, r)'
          /\ v \in Came(j, r)' \/ hist[r][v].order > 0
      BY <2>1, <2>2, <3>3, <3>4 DEF C
    <3> QED
      BY <1>4, <1>7, <3>1, <3>2, <3>5, PlacedFollows
  <2> QED
    BY <2>3, <2>4
<1> QED
  BY <1>6, <1>7

\* A build that ends green files what it was bound to.
LEMMA PassFollows ==
    ASSUME Inv, NEW j \in Jobs, NEW r \in Every[j], Fed(j, r), Story(j, r),
           NEW w \in Workers, BuildEnds(w)
    PROVE  Follows(j, r)
<1> DEFINE i == bjob[w]
           v == bset[w][r]
           C == Came(j, r)
<1>1. /\ bpc[w] = "building" /\ bpc[w] # "idle" /\ Bound(w) /\ mark' = mark /\ taken' = taken /\ seeded' = seeded
  BY DEF BuildEnds, At, Bound
<1>2. i \in Jobs /\ Gets[i] \subseteq Resources /\ bset[w] \in [Gets[i] -> Versions]
  BY <1>1, RunOf
<1>3. r \in Resources /\ hist[r] \in History /\ Sound(hist[r]) /\ mark[j][r] \in Nat
  BY StoryTypes
<1>4. Told(hist[r], mark[j][r], C) /\ Own(j, r, w) /\ Other(j, r, w)
  BY DEF Story
<1>5. Came(j, r)' = C /\ mark'[j][r] = mark[j][r]
  BY <1>1 DEF Came
<1>6. hist'[r] \in History
  BY <1>3, PassStore DEF StoreStep
<1>7. CASE hist'[r] = hist[r]
  BY <1>5, <1>7, SameFollows
<1>8. CASE hist'[r] # hist[r]
  <2> DEFINE passed == {<<q, bset[w][q]>> : q \in Gets[i]} \cup bput[w]
  <2>1. hist'[r] = EnsureAll(hist[r], {x \in Versions : <<r, x>> \in passed})
    BY <1>3, <1>8 DEF BuildEnds, RecordPassedVersions
  <2>2. \A x \in Versions : <<r, x>> \in passed <=> r \in Gets[i] /\ x = v
    BY DEF Story
  <2>3. {x \in Versions : <<r, x>> \in passed} = IF r \in Gets[i] THEN {v} ELSE {}
    BY <1>2, <2>2
  <2>4. r \in Gets[i]
    <3>1. EnsureAll(hist[r], {}) = [x \in Versions |-> hist[r][x]]
      BY DEF EnsureAll
    <3>2. EnsureAll(hist[r], {}) = hist[r]
      BY <1>3, <3>1 DEF History
    <3> QED
      BY <1>8, <2>1, <2>3, <3>2
  <2>5. v \in Versions
    BY <1>2, <2>4
  <2>6. hist'[r] = EnsureAll(hist[r], {v})
    BY <2>1, <2>3, <2>4
  <2>7. Placed(hist[r], hist'[r], v)
    BY <1>3, <2>5, <2>6, EnsuredLast
  <2>8. /\ hist[r][v].order > 0 \/ v \in C \/ (Bare(hist[r]) /\ Ahead(hist[r], C, v))
        /\ hist[r][v].order > 0 \/ v \in C \/ Listed(r, v)
    <3>1. CASE i = j
      BY <1>1, <1>3, <1>4, <2>5, <3>1 DEF Own, Sound
    <3>2. CASE i # j
      BY <1>1, <1>3, <1>4, <2>4, <2>5, <3>2 DEF Other, Safe, Sound
    <3> QED
      BY <3>1, <3>2
  <2> HIDE DEF C, v, passed
  <2>9. Told(hist'[r], mark[j][r], C)
    BY <1>3, <1>4, <1>6, <2>5, <2>7, <2>8, PassTold
  <2>10. /\ Told(hist'[r], mark'[j][r], Came(j, r)') /\ Came(j, r) \subseteq Came(j, r)'
         /\ hist[r][v].order > 0 \/ v \in Came(j, r)' \/ Listed(r, v)
    BY <1>5, <2>8, <2>9 DEF C
  <2> QED
    BY <1>6, <2>5, <2>7, <2>10, PlacedFollows
<1> QED
  BY <1>7, <1>8

\* A cold start marks as come what is filed up to its mark.
LEMMA SeedFollows ==
    ASSUME Inv, NEW j \in Jobs, NEW r \in Every[j], Fed(j, r), Story(j, r),
           SeedColdStart, Aside, pres = r
    PROVE  Follows(j, r)
<1> DEFINE h == hist[r]
           C == Came(j, r)
           n == mark'[j][r]
           order == ColdStartMark(hist[pres], obs[pres].latest)
<1>1. ppc = "seeding" /\ hist' = hist /\ taken' = taken
  BY DEF SeedColdStart, Aside
<1>2. r \in Resources /\ r \in Gets[j] /\ h \in History /\ mark[j][r] \in Nat
  BY StoryTypes
<1>3. ~Bare(h) /\ Told(h, mark[j][r], C)
  BY <1>1 DEF Story
<1>4. order \in Nat /\ order <= Top(h)
  BY <1>2, ColdStartLow
<1>5. mark' = [k \in Jobs |-> IF pres \in Gets[k]
                 THEN [mark[k] EXCEPT ![pres] = Forward(mark[k][pres], order)] ELSE mark[k]]
  BY DEF SeedColdStart
<1> HIDE DEF order
<1>6. mark[j] \in [Resources -> Nat]
  BY DEF Inv, Typed
<1>7. n = Forward(mark[j][r], order)
  BY <1>2, <1>5, <1>6
<1>8. n <= Top(h)
  BY <1>3, <1>4, <1>7 DEF Forward, Told
<1>9. seeded' = [k \in Jobs |-> [q \in Resources |-> seeded[k][q] \cup
         {v \in Filed(hist[q]) : q = pres /\ q \in Gets[k] /\ hist[q][v].order <= mark'[k][q]}]]
  BY <1>1 DEF Aside
<1>10. Came(j, r)' = C \cup {v \in Filed(h) : h[v].order <= n}
  <2>1. seeded'[j][r] = seeded[j][r] \cup {v \in Filed(h) : h[v].order <= n}
    BY <1>2, <1>9
  <2> QED
    BY <1>1, <2>1 DEF Came
<1> DEFINE D == Came(j, r)'
<1>11. C \subseteq D /\ \A v \in Filed(h) : h[v].order <= n => v \in D
  BY <1>10
<1> HIDE DEF C, D, n
<1>12. Told(h, n, D)
  BY <1>3, <1>8, <1>11 DEF Told
<1>13. \A x \in Versions : Ahead(h, C, x) => Ahead(h, D, x)
  BY <1>11 DEF Ahead
<1>14. \A x \in Versions : Safe(h, C, x) => Safe(h, D, x)
  BY <1>11 DEF Safe
<1>15. Unseen(j, r)' = {}
  BY <1>1, <1>3, <1>12 DEF Unseen, Told, D
<1> QED
  BY <1>1, <1>11, <1>12, <1>13, <1>14, <1>15 DEF Follows, C, D, n

\* What a step of the poller, the deliveries or the world adds to what came.
LEMMA AsideCame ==
    ASSUME Inv, NEW j \in Jobs, NEW r \in Every[j], Fed(j, r), Story(j, r), Aside,
           mark'[j][r] = mark[j][r]
    PROVE  Came(j, r)' = Came(j, r)
<1>1. r \in Resources /\ taken' = taken
  BY StoryTypes DEF Aside
<1>2. CASE ppc # "seeding"
  BY <1>1, <1>2 DEF Aside, Came
<1>3. CASE ppc = "seeding"
  <2>1. seeded' = [k \in Jobs |-> [q \in Resources |-> seeded[k][q] \cup
           {v \in Filed(hist[q]) : q = pres /\ q \in Gets[k] /\ hist[q][v].order <= mark'[k][q]}]]
    BY <1>3 DEF Aside
  <2>2. seeded'[j][r] = seeded[j][r] \cup
           {v \in Filed(hist[r]) : r = pres /\ r \in Gets[j] /\ hist[r][v].order <= mark'[j][r]}
    BY <1>1, <2>1
  <2>3. {v \in Filed(hist[r]) : r = pres /\ r \in Gets[j] /\ hist[r][v].order <= mark'[j][r]} \subseteq Came(j, r)
    BY DEF Story, Told
  <2> QED
    BY <1>1, <2>2, <2>3 DEF Came
<1> QED
  BY <1>2, <1>3

\* The poller's steps, the deliveries and the world.
LEMMA PollFollows ==
    ASSUME Inv, NEW j \in Jobs, NEW r \in Every[j], Fed(j, r), Story(j, r), PollingNext, Aside
    PROVE  Follows(j, r) /\ (RecordHistory /\ pres = r => ~Bare(hist[r])')
<1>1. /\ r \in Resources /\ r \notin Webhooks /\ r \in Windowed
      /\ hist \in [Resources -> History] /\ mark \in [Jobs -> [Resources -> Nat]]
      /\ obs \in [Resources -> Observations]
  BY StoryTypes DEF Inv, Typed
<1>2. CASE RecordHistory
  <2>1. /\ ppc = "checked" /\ RecordVersions(pres, obs[pres].versions) /\ mark' = mark
    BY <1>2 DEF RecordHistory
  <2>2. Came(j, r)' = Came(j, r)
    BY <2>1, AsideCame
  <2>3. CASE pres = r
    <3>1. /\ obs[r].versions # {} /\ Prefix(obs[r].versions) /\ obs[r].versions \in SUBSET Versions
      BY <1>1, <2>1, <2>3 DEF Inv, InHand, Windowed, Observations
    <3>2. \A u \in Versions : Listed(r, u) => u \in obs[r].versions
      BY <2>1, <2>3 DEF Listed
    <3> QED
      BY <2>1, <2>2, <2>3, <3>1, <3>2, ReportFollows
  <2>4. CASE pres # r
    <3>1. hist'[r] = hist[r]
      BY <1>1, <2>1, <2>4 DEF RecordVersions, SetHistory
    <3> QED
      BY <2>1, <2>2, <2>4, <3>1, SameFollows
  <2> QED
    BY <2>3, <2>4
<1>3. CASE ~RecordHistory /\ hist'[r] = hist[r] /\ mark' = mark
  <2>1. Came(j, r)' = Came(j, r)
    BY <1>3, AsideCame
  <2> QED
    BY <1>3, <2>1, SameFollows
<1>4. CASE ~RecordHistory /\ SeedColdStart
  <2>1. CASE pres = r
    BY <1>4, <2>1, SeedFollows
  <2>2. CASE pres # r
    <3>1. hist' = hist
      BY <1>4 DEF SeedColdStart
    <3>2. mark'[j][r] = mark[j][r]
      <4> DEFINE order == ColdStartMark(hist[pres], obs[pres].latest)
      <4>1. mark' = [k \in Jobs |-> IF pres \in Gets[k]
                       THEN [mark[k] EXCEPT ![pres] = Forward(mark[k][pres], order)] ELSE mark[k]]
        BY <1>4 DEF SeedColdStart
      <4> HIDE DEF order
      <4> QED
        BY <1>1, <2>2, <4>1
    <3>3. Came(j, r)' = Came(j, r)
      BY <3>2, AsideCame
    <3> QED
      BY <1>4, <3>1, <3>2, <3>3, SameFollows
  <2> QED
    BY <2>1, <2>2
<1>5. ASSUME NEW d \in handling, RecordDelivery(d), ~RecordHistory
      PROVE  hist'[r] = hist[r] /\ mark' = mark
  <2>1. d.r \in Webhooks
    BY DEF Inv, Typed
  <2> QED
    BY <1>1, <1>5, <2>1 DEF RecordDelivery, RecordVersions, SetHistory
<1>6. \/ RecordHistory \/ SeedColdStart \/ \E d \in handling : RecordDelivery(d)
      \/ hist' = hist /\ mark' = mark
  BY DEF PollingNext, PollCycle, World, StartPoll, ReadDeliveries, AffectedJobs, StartRelease,
     StartAdvance, EndPoll, CheckResource, ReadChecked, Advance, EnqueueAffected, ReleaseConstrained,
     CheckFails, Publish, Receive, SetPaused, Manual, storeVars
<1> QED
  BY <1>2, <1>3, <1>4, <1>5, <1>6

\* A run's steps and a crash.
LEMMA RunFollows ==
    ASSUME Inv, NEW j \in Jobs, NEW r \in Every[j], Fed(j, r), Story(j, r),
           \/ Crash \/ UNCHANGED vars
           \/ \E w \in Workers : Run(w) \/ Publishes(w)
    PROVE  Follows(j, r)
<1>1. /\ r \in Resources /\ r \notin Webhooks /\ hist \in [Resources -> History]
      /\ published[r] \in SUBSET Versions /\ Prefix(published[r]) /\ Report(r) = published[r]
  BY StoryTypes DEF Inv, Typed
<1>2. CASE hist'[r] = hist[r] /\ mark' = mark /\ taken' = taken /\ seeded' = seeded
  <2>1. Came(j, r)' = Came(j, r)
    BY <1>2 DEF Came
  <2> QED
    BY <1>2, <2>1, SameFollows
<1>3. CASE Crash \/ UNCHANGED vars
  BY <1>2, <1>3 DEF Crash, vars, pollingVars, storeVars
<1>4. ASSUME NEW w \in Workers, NEW q \in Resources, Refresh(w, q)
      PROVE  Follows(j, r)
  <2>1. mark' = mark /\ taken' = taken /\ seeded' = seeded
    BY <1>4 DEF Refresh
  <2>2. Came(j, r)' = Came(j, r)
    BY <2>1 DEF Came
  <2>3. CASE q # r \/ UNCHANGED hist
    <3>1. hist'[r] = hist[r]
      BY <1>1, <1>4, <2>3 DEF Refresh, RecordVersions, SetHistory
    <3> QED
      BY <1>2, <2>1, <3>1
  <2>4. CASE q = r /\ Report(r) # {} /\ RecordVersions(r, Report(r))
    <3>1. \A u \in Versions : Listed(r, u) => u \in Report(r)
      BY <1>1 DEF Listed
    <3> QED
      BY <1>1, <2>1, <2>2, <2>4, <3>1, ReportFollows
  <2> QED
    BY <1>4, <2>3, <2>4 DEF Refresh
<1>5. ASSUME NEW w \in Workers, NEW q \in Resources, NEW v \in Versions, Put(w, q, v)
      PROVE  Follows(j, r)
  <2>1. /\ bpc[w] = "building" /\ q \in Puts[bjob[w]]
        /\ mark' = mark /\ taken' = taken /\ seeded' = seeded
        /\ hist' = [hist EXCEPT ![q] = EnsureVersion(hist[q], v)]
    BY <1>5 DEF Put, At, RecordVersionOrder
  <2>2. bjob[w] \in Jobs
    BY <2>1, RunOf
  <2>3. q # r
    BY <2>1, <2>2 DEF Fed
  <2>4. hist'[r] = hist[r]
    BY <1>1, <2>1, <2>3
  <2> QED
    BY <1>2, <2>1, <2>4
<1>6. ASSUME NEW w \in Workers, \/ \E i \in Jobs : Claim(w, i)
                                \/ LockCursor(w) \/ Resolve(w) \/ ResolveNothing(w) \/ ResumeRecorded(w)
                                \/ RecordInputs(w) \/ StartBuild(w) \/ Resume(w)
      PROVE  Follows(j, r)
  <2>1. hist' = hist /\ mark' = mark /\ taken' = taken /\ seeded' = seeded
    BY <1>6 DEF Claim, LockCursor, Resolve, ResolveNothing, ResumeRecorded, RecordInputs, StartBuild,
       Resume, pollingVars, storeVars
  <2> QED
    BY <1>2, <2>1
<1> QED
  BY <1>3, <1>4, <1>5, <1>6, TakeFollows, PassFollows DEF Run, Publishes

\* What is listed stays listed.
LEMMA ListedKept ==
    ASSUME Inv, [Next]_vars, NEW j \in Jobs, NEW r \in Every[j], Fed(j, r)
    PROVE  \A v \in Versions : Listed(r, v) => Listed(r, v)'
<1>1. /\ r \in Resources /\ Report(r) = published[r]
      /\ published \in [Resources -> SUBSET Versions] /\ obs \in [Resources -> Observations]
  BY StoryTypes DEF Inv, Typed
<1>2. CASE published[r] \subseteq published'[r] /\ (ppc' # "checked" \/ UNCHANGED <<ppc, pres, obs>>)
  BY <1>2 DEF Listed
<1>3. CASE PollingNext
  <2>1. ASSUME NEW q \in Resources, CheckResource(q)
        PROVE  \A v \in Versions : Listed(r, v) => Listed(r, v)'
    <3>1. published' = published /\ ppc = "observing"
      BY <2>1 DEF CheckResource
    <3>2. CASE Report(q) = {}
      BY <1>2, <2>1, <3>1, <3>2 DEF CheckResource
    <3>3. CASE Report(q) # {}
      <4>1. pres' = q /\ (q = r => obs'[r].versions = Report(r))
        BY <1>1, <2>1, <3>3 DEF CheckResource
      <4> QED
        BY <1>1, <3>1, <4>1 DEF Listed
    <3> QED
      BY <3>2, <3>3
  <2>2. ASSUME NEW q \in Resources, NEW v \in Versions, Publish(q, v)
        PROVE  published[r] \subseteq published'[r] /\ UNCHANGED <<ppc, pres, obs>>
    BY <1>1, <2>2 DEF Publish, pollVars
  <2>3. CASE ~(\E q \in Resources : CheckResource(q) \/ \E v \in Versions : Publish(q, v))
    <3>1. published' = published
      BY <1>3, <2>3 DEF PollingNext, PollCycle, World, StartPoll, RecordHistory, SeedColdStart,
         ReadDeliveries, AffectedJobs, StartRelease, StartAdvance, EndPoll, ReadChecked, Advance,
         EnqueueAffected, ReleaseConstrained, CheckFails, Receive, SetPaused, Manual, RecordDelivery
    <3>2. ppc' # "checked" \/ UNCHANGED <<ppc, pres, obs>>
      BY <1>3, <2>3 DEF PollingNext, PollCycle, World, StartPoll, RecordHistory, SeedColdStart,
         ReadDeliveries, AffectedJobs, StartRelease, StartAdvance, EndPoll, ReadChecked, Advance,
         EnqueueAffected, ReleaseConstrained, CheckFails, Receive, SetPaused, Manual, RecordDelivery, pollVars
    <3> QED
      BY <1>2, <3>1, <3>2
  <2> QED
    BY <1>2, <2>1, <2>2, <2>3
<1>4. ASSUME NEW w \in Workers, Run(w)
      PROVE  published' = published /\ UNCHANGED <<ppc, pres, obs>>
  BY <1>4 DEF Run, Claim, Refresh, LockCursor, Resolve, ResolveNothing, ResumeRecorded,
     RecordInputs, TakeVersions, StartBuild, BuildEnds, Resume, pollingVars, pollVars
<1>5. ASSUME NEW w \in Workers, Publishes(w)
      PROVE  published[r] \subseteq published'[r] /\ UNCHANGED <<ppc, pres, obs>>
  BY <1>1, <1>5 DEF Publishes, Put, pollVars
<1>6. CASE Crash
  BY <1>2, <1>6 DEF Crash
<1>7. CASE UNCHANGED vars
  BY <1>2, <1>7 DEF vars, pollingVars, pollVars
<1> QED
  BY <1>2, <1>3, <1>4, <1>5, <1>6, <1>7 DEF Next

\* What is published stays published.
LEMMA PublishedKept ==
    ASSUME Inv, [Next]_vars, NEW r \in Resources
    PROVE  published[r] \subseteq published'[r]
<1>1. published \in [Resources -> SUBSET Versions]
  BY DEF Inv, Typed
<1>2. ASSUME NEW q \in Resources, NEW v \in Versions, published' = [published EXCEPT ![q] = @ \cup {v}]
      PROVE  published[r] \subseteq published'[r]
  BY <1>1, <1>2
<1>3. CASE PollingNext
  <2>1. published' = published \/ \E q \in Resources, v \in Versions : Publish(q, v)
    BY <1>3 DEF PollingNext, PollCycle, World, StartPoll, RecordHistory, SeedColdStart, CheckResource,
       ReadDeliveries, AffectedJobs, StartRelease, StartAdvance, EndPoll, ReadChecked, Advance,
       EnqueueAffected, ReleaseConstrained, CheckFails, Receive, SetPaused, Manual, RecordDelivery
  <2> QED
    BY <1>2, <2>1 DEF Publish
<1>4. ASSUME NEW w \in Workers, Run(w)
      PROVE  published' = published
  BY <1>4 DEF Run, Claim, Refresh, LockCursor, Resolve, ResolveNothing, ResumeRecorded,
     RecordInputs, TakeVersions, StartBuild, BuildEnds, Resume, pollingVars
<1>5. ASSUME NEW w \in Workers, Publishes(w)
      PROVE  published[r] \subseteq published'[r]
  BY <1>2, <1>5 DEF Publishes, Put
<1>6. CASE Crash \/ UNCHANGED vars
  BY <1>6 DEF Crash, vars, pollingVars
<1> QED
  BY <1>3, <1>4, <1>5, <1>6 DEF Next

\* A run that goes on: what it is bound to stays what it may take.
LEMMA RunGoes ==
    ASSUME Inv, [Next]_vars, NEW j \in Jobs, NEW r \in Every[j], Fed(j, r), Story(j, r), Follows(j, r),
           NEW w \in Workers, bjob'[w] = bjob[w],
           Bound(w)' => Bound(w) /\ bset'[w] = bset[w],
           bpc'[w] = "locked" =>
              \/ bpc[w] = "locked" /\ bcursor'[w] = bcursor[w]
              \/ bjob[w] = j => \A u \in Versions : Covered(bcursor'[w][r], u) => u \in Came(j, r),
           Bound(w)' /\ bpc'[w] \notin {"resolved", "recorded"} =>
              \/ /\ bpc[w] \notin {"resolved", "recorded"}
                 /\ bpc'[w] \in {"taken", "building"} => bpc[w] \in {"taken", "building"}
              \/ bjob[w] = j /\ bset[w][r] \notin Came(j, r)' =>
                    /\ Listed(r, bset[w][r])'
                    /\ bpc'[w] \in {"taken", "building"} =>
                          Bare(hist[r])' \/ hist'[r][bset[w][r]].checked
    PROVE  Own(j, r, w)' /\ Other(j, r, w)'
<1>1. /\ r \in Resources /\ r \in Gets[j] /\ published[r] \subseteq published'[r]
      /\ \A v \in Versions : Listed(r, v) => Listed(r, v)'
  BY StoryTypes, PublishedKept, ListedKept
<1>2. Own(j, r, w) /\ Other(j, r, w)
  BY DEF Story
<1>3. Bound(w) /\ r \in Gets[bjob[w]] => bset[w][r] \in Versions
  BY RunTypes DEF RunOk
<1>4. ASSUME bjob[w] = j, bpc'[w] = "locked"
      PROVE  \A u \in Versions : Covered(bcursor'[w][r], u) => u \in Came(j, r)'
  <2>1. \A u \in Versions : Covered(bcursor'[w][r], u) => u \in Came(j, r)
    BY <1>2, <1>4 DEF Own
  <2> QED
    BY <2>1 DEF Follows
<1>5. ASSUME bjob[w] = j, Bound(w)'
      PROVE  /\ Ahead(hist'[r], Came(j, r)', bset'[w][r]) /\ bset'[w][r] \in published'[r]
             /\ bpc'[w] \notin {"resolved", "recorded"} /\ bset'[w][r] \notin Came(j, r)' =>
                   /\ Listed(r, bset[w][r])'
                   /\ bpc'[w] \in {"taken", "building"} =>
                         Bare(hist'[r]) \/ hist'[r][bset'[w][r]].checked
  <2> DEFINE v == bset[w][r]
  <2>1. Bound(w) /\ bset'[w] = bset[w] /\ v \in Versions
    BY <1>1, <1>3, <1>5
  <2>2. /\ Ahead(hist[r], Came(j, r), v) /\ v \in published[r]
        /\ bpc[w] \notin {"resolved", "recorded"} /\ v \notin Came(j, r) =>
              /\ Listed(r, v)
              /\ bpc[w] \in {"taken", "building"} => Bare(hist[r]) \/ hist[r][v].checked
    BY <1>2, <1>5, <2>1 DEF Own
  <2>3. Ahead(hist'[r], Came(j, r)', v) /\ v \in published'[r]
    BY <1>1, <2>1, <2>2 DEF Follows
  <2>4. ASSUME bpc'[w] \notin {"resolved", "recorded"}, v \notin Came(j, r)'
        PROVE  /\ Listed(r, v)'
               /\ bpc'[w] \in {"taken", "building"} => Bare(hist'[r]) \/ hist'[r][v].checked
    <3>1. CASE /\ bpc[w] \notin {"resolved", "recorded"}
               /\ bpc'[w] \in {"taken", "building"} => bpc[w] \in {"taken", "building"}
      <4>1. v \notin Came(j, r)
        BY <2>4 DEF Follows
      <4>2. Listed(r, v) /\ (bpc'[w] \in {"taken", "building"} => Bare(hist[r]) \/ hist[r][v].checked)
        BY <2>2, <3>1, <4>1
      <4>3. /\ hist[r][v].checked => hist'[r][v].checked
            /\ Bare(hist[r]) => Bare(hist'[r]) \/ hist'[r][v].checked
        BY <2>1, <4>2 DEF Follows
      <4>4. Listed(r, v)'
        BY <1>1, <2>1, <4>2 DEF Listed
      <4> QED
        BY <4>2, <4>3, <4>4
    <3>2. CASE ~(/\ bpc[w] \notin {"resolved", "recorded"}
                 /\ bpc'[w] \in {"taken", "building"} => bpc[w] \in {"taken", "building"})
      BY <1>5, <2>4, <3>2
    <3> QED
      BY <3>1, <3>2
  <2> QED
    BY <2>1, <2>3, <2>4
<1>6. ASSUME bjob[w] # j, Bound(w)', r \in Gets[bjob[w]]
      PROVE  Safe(hist'[r], Came(j, r)', bset'[w][r])
  <2>1. Bound(w) /\ bset'[w] = bset[w] /\ bset[w][r] \in Versions
    BY <1>3, <1>6
  <2>2. Safe(hist[r], Came(j, r), bset[w][r])
    BY <1>2, <1>6, <2>1 DEF Other
  <2> QED
    BY <2>1, <2>2 DEF Follows
<1>7. Own(j, r, w)'
  BY <1>4, <1>5 DEF Own
<1> QED
  BY <1>6, <1>7 DEF Other

\* A run that has nothing, and is not resolving, is in nobody's way.
LEMMA RunGone ==
    ASSUME NEW j, NEW r, NEW w, ~Bound(w)', bpc'[w] # "locked"
    PROVE  Own(j, r, w)' /\ Other(j, r, w)'
BY DEF Own, Other

\* What a run of j binds of r passes over nothing.
LEMMA ResolveAhead ==
    ASSUME Inv, NEW j \in Jobs, NEW r \in Every[j], Fed(j, r), Passed[j][r] = {}, Story(j, r),
           NEW w \in Workers, Resolve(w), bjob[w] = j
    PROVE  Ahead(hist[r], Came(j, r), FirstSet(w)[r]) /\ FirstSet(w)[r] \in published[r]
<1> DEFINE h == hist[r]
           C == Came(j, r)
           E == Eligible(j, r)
           v == FirstSet(w)[r]
<1>1. bpc[w] = "locked" /\ ~Fails(w) /\ ~Idles(w)
  BY DEF Resolve, At
<1>2. /\ r \in Resources /\ r \in Gets[j] /\ h \in History /\ Sound(h)
      /\ published[r] \in SUBSET Versions /\ Prefix(published[r])
      /\ \A u \in Versions : h[u].checked => u \in published[r]
  BY StoryTypes
<1>3. Told(h, mark[j][r], C) /\ \A u \in Versions : Covered(bcursor[w][r], u) => u \in C
  BY <1>1 DEF Story, Own
<1>4. E = IF Bare(h) THEN published[r] ELSE {u \in Filed(h) : h[u].checked}
  BY <1>2 DEF Eligible, ResourceVersions, Filed, Bare, Sound
<1>5. E \subseteq published[r] /\ E \in SUBSET Versions
  BY <1>2, <1>4 DEF Filed
<1>6. \A u \in Versions : h[u].order \in Nat /\ u \in Nat /\ u > 0
  BY <1>2, VersionsAssumption DEF History
<1>7. /\ Unconsumed(w, r) = {u \in E : ~Covered(bcursor[w][r], u)}
      /\ Held(w, r) = {u \in E : Covered(bcursor[w][r], u)}
  BY DEF Unconsumed, Held
<1>8. v \in E
  BY <1>1, <1>2, FirstEligible
<1>9. \A u \in E : u \in C \/ Place(r, v) <= Place(r, u)
  <2> SUFFICES ASSUME NEW u \in E, u \notin C PROVE Place(r, v) <= Place(r, u)
    OBVIOUS
  <2>1. u \in Unconsumed(w, r)
    BY <1>3, <1>5, <1>7
  <2>2. v = OldestOf(r, Unconsumed(w, r))
    BY <1>2, <2>1 DEF FirstSet
  <2> QED
    BY <1>2, <1>5, <1>7, <2>1, <2>2, Chosen
<1>10. v \in Versions /\ v \in published[r]
  BY <1>5, <1>8
<1> HIDE DEF v, C, E
<1>11. ASSUME ~Bare(h) PROVE Ahead(h, C, v)
  <2>1. h[v].checked
    BY <1>4, <1>8, <1>11
  <2>2. ASSUME NEW u \in Versions, h[u].order > 0, h[u].order < h[v].order
        PROVE  u \in C
    <3>1. CASE h[u].checked
      <4>1. u \in E
        BY <1>4, <1>11, <2>2, <3>1 DEF Filed
      <4>2. Place(r, v) = h[v].order /\ Place(r, u) = h[u].order
        BY <1>2, <1>10, <2>1, <2>2 DEF Place, Sound
      <4> QED
        BY <1>6, <1>9, <1>10, <2>2, <4>1, <4>2
    <3>2. CASE ~h[u].checked
      BY <1>3, <1>11, <2>2, <3>2 DEF Told, Filed
    <3> QED
      BY <3>1, <3>2
  <2> QED
    BY <1>10, <2>1, <2>2 DEF Ahead
<1>12. ASSUME Bare(h) PROVE Ahead(h, C, v)
  <2>1. \A u \in Versions : ~h[u].checked
    BY <1>12 DEF Bare
  <2>2. ASSUME NEW u \in Versions, u < v
        PROVE  u \in C
    <3>1. u \in E
      BY <1>2, <1>4, <1>10, <1>12, <2>2 DEF Prefix
    <3>2. CASE h[v].order > 0
      BY <1>3, <1>10, <1>12, <2>2, <3>2 DEF Told, Filed
    <3>3. CASE ~(h[v].order > 0)
      <4>1. Place(r, v) = v
        BY <3>3 DEF Place
      <4>2. Place(r, u) <= u
        <5>1. h[u].order > 0 => h[u].order <= u
          BY <1>3, <1>12, <2>2 DEF Told, Filed
        <5> QED
          BY <1>6, <2>2, <5>1 DEF Place
      <4>3. Place(r, u) \in Nat
        BY <1>6, <2>2 DEF Place
      <4> QED
        BY <1>6, <1>9, <1>10, <2>2, <3>1, <4>1, <4>2, <4>3
    <3> QED
      BY <3>2, <3>3
  <2> QED
    BY <1>10, <2>1, <2>2 DEF Ahead
<1> QED
  BY <1>10, <1>11, <1>12 DEF C, v

\* A run that resolves: of j, it passes over nothing; of another job, it is bound
\* to what another passed, which is filed.
LEMMA ResolveStory ==
    ASSUME Inv, [Next]_vars, NEW j \in Jobs, NEW r \in Every[j], Fed(j, r), Passed[j][r] = {},
           Story(j, r), Follows(j, r), NEW w \in Workers, Resolve(w)
    PROVE  Own(j, r, w)' /\ Other(j, r, w)'
<1> DEFINE i == bjob[w]
           s == FirstSet(w)
<1>1. /\ bpc[w] = "locked" /\ bpc' = [bpc EXCEPT ![w] = "resolved"] /\ ~Fails(w) /\ ~Idles(w)
      /\ bset' = [bset EXCEPT ![w] = s]
      /\ bjob' = bjob /\ hist' = hist /\ published' = published /\ taken' = taken /\ seeded' = seeded
  BY DEF Resolve, At, Go, pollingVars, storeVars
<1>2. bpc'[w] = "resolved" /\ bset'[w] = s
  BY <1>1, RunTypes
<1>3. Came(j, r)' = Came(j, r)
  BY <1>1 DEF Came
<1>4. i \in Jobs
  BY <1>1, RunOf
<1>5. Own(j, r, w)'
  <2>1. i = j => Ahead(hist[r], Came(j, r), s[r]) /\ s[r] \in published[r]
    BY ResolveAhead
  <2> HIDE DEF s
  <2> QED
    BY <1>1, <1>2, <1>3, <2>1 DEF Own
<1>6. ASSUME i # j, r \in Gets[i]
      PROVE  Safe(hist[r], Came(j, r), s[r])
  <2>1. Passed[i][r] # {} /\ r \in Resources /\ Sound(hist[r])
    BY <1>4, <1>6, StoryTypes DEF Fed
  <2>2. s[r] \in Filed(hist[r])
    <3>1. GreenVersions(r, Passed[i][r]) \in SUBSET Filed(hist[r])
      BY DEF GreenVersions
    <3>2. Eligible(i, r) = GreenVersions(r, Passed[i][r])
      BY <2>1 DEF Eligible
    <3>3. s[r] \in Eligible(i, r)
      BY <1>1, <1>6, FirstEligible
    <3> QED
      BY <3>1, <3>2, <3>3
  <2> HIDE DEF s
  <2> QED
    BY <2>2 DEF Safe, Story, Told, Filed
<1> HIDE DEF s
<1>7. Other(j, r, w)'
  BY <1>1, <1>2, <1>3, <1>6 DEF Other
<1> QED
  BY <1>5, <1>7

\* A run whose state a step leaves alone goes on.
LEMMA OtherRun ==
    ASSUME Inv, [Next]_vars, NEW j \in Jobs, NEW r \in Every[j], Fed(j, r), Story(j, r), Follows(j, r),
           NEW w \in Workers, bpc'[w] = bpc[w], bjob'[w] = bjob[w], bset'[w] = bset[w],
           bcursor'[w] = bcursor[w], brec'[w] = brec[w]
    PROVE  Own(j, r, w)' /\ Other(j, r, w)'
<1>1. Bound(w)' <=> Bound(w)
  BY DEF Bound
<1> QED
  BY <1>1, RunGoes

\* A step of a run leaves the others alone.
LEMMA OneMoves ==
    ASSUME Inv, NEW w \in Workers, Run(w) \/ Publishes(w), NEW v \in Workers, v # w
    PROVE  /\ bpc'[v] = bpc[v] /\ bjob'[v] = bjob[v] /\ bset'[v] = bset[v]
           /\ bcursor'[v] = bcursor[v] /\ brec'[v] = brec[v]
<1>1. CASE \/ \E r \in Resources : Refresh(w, r)
           \/ LockCursor(w) \/ Resolve(w) \/ ResumeRecorded(w) \/ RecordInputs(w) \/ TakeVersions(w)
           \/ StartBuild(w) \/ Resume(w) \/ Publishes(w)
  BY <1>1, RunTypes DEF Refresh, LockCursor, Resolve, ResumeRecorded, RecordInputs, TakeVersions,
     StartBuild, Resume, Publishes, Put, Done, Go
<1>2. CASE ResolveNothing(w) \/ BuildEnds(w) \/ \E j \in Jobs : Claim(w, j)
  BY <1>2, RunTypes DEF ResolveNothing, BuildEnds, Claim, Done, Go
<1> QED
  BY <1>1, <1>2 DEF Run

\* A run's own step.
LEMMA OwnStep ==
    ASSUME Inv, [Next]_vars, NEW j \in Jobs, NEW r \in Every[j], Fed(j, r), Passed[j][r] = {},
           Story(j, r), Follows(j, r), NEW w \in Workers, Run(w) \/ Publishes(w)
    PROVE  Own(j, r, w)' /\ Other(j, r, w)'
<1>1. Own(j, r, w) /\ Other(j, r, w) /\ Told(hist[r], mark[j][r], Came(j, r))
  BY DEF Story
<1>2. ASSUME Done(w)
      PROVE  Own(j, r, w)' /\ Other(j, r, w)'
  <2>1. bpc'[w] = "idle" /\ ~brec'[w]
    BY <1>2, RunTypes DEF Done, Go
  <2>2. ~Bound(w)'
    BY <2>1 DEF Bound
  <2> QED
    BY <2>1, <2>2, RunGone
<1>3. ASSUME NEW i \in Jobs, Claim(w, i)
      PROVE  Own(j, r, w)' /\ Other(j, r, w)'
  <2>1. bpc[w] = "idle" /\ bpc'[w] = "refreshing" /\ brec' = brec
    BY <1>3, RunTypes DEF Claim, At, Go
  <2>2. ~Bound(w)'
    BY <2>1, RunTypes DEF Bound, RunOk
  <2> QED
    BY <2>1, <2>2, RunGone
<1>4. CASE Publishes(w) \/ \E q \in Resources : Refresh(w, q)
  <2>1. bpc' = bpc /\ bjob' = bjob /\ bset' = bset /\ bcursor' = bcursor /\ brec' = brec
    BY <1>4 DEF Publishes, Put, Refresh
  <2> QED
    BY <2>1, OtherRun
<1>5. CASE LockCursor(w)
  <2>1. /\ bpc[w] = "refreshing" /\ bjob' = bjob /\ bset' = bset /\ brec' = brec
        /\ bpc' = [bpc EXCEPT ![w] = "locked"]
        /\ bcursor' = [bcursor EXCEPT ![w] = [q \in Every[bjob[w]] |->
              [mark |-> mark[bjob[w]][q], orders |-> [v \in Versions |-> hist[q][v].order]]]]
    BY <1>5 DEF LockCursor, At, Go
  <2>2. bpc'[w] = "locked" /\ (Bound(w)' <=> Bound(w))
    BY <2>1, RunTypes DEF Bound
  <2>3. ASSUME bjob[w] = j, NEW u \in Versions, Covered(bcursor'[w][r], u)
        PROVE  u \in Came(j, r)
    <3>1. bcursor'[w][r].mark = mark[j][r] /\ bcursor'[w][r].orders[u] = hist[r][u].order
      BY <2>1, <2>3, RunTypes
    <3> QED
      BY <1>1, <2>3, <3>1 DEF Covered, Told, Filed
  <2> QED
    BY <2>1, <2>2, <2>3, RunGoes
<1>6. CASE ResumeRecorded(w) /\ ~Done(w)
  <2>1. /\ bpc[w] = "locked" /\ brec[w] /\ bpc' = [bpc EXCEPT ![w] = "taken"]
        /\ \A q \in Gets[bjob[w]] : bset[w][q] \in Eligible(bjob[w], q)
        /\ bjob' = bjob /\ bset' = bset /\ brec' = brec /\ hist' = hist
    BY <1>6 DEF ResumeRecorded, Holds, At, Go, pollingVars, storeVars
  <2>2. bpc'[w] = "taken" /\ Bound(w) /\ Bound(w)'
    BY <2>1, RunTypes DEF Bound
  <2>3. ASSUME bjob[w] = j, bset[w][r] \notin Came(j, r)'
        PROVE  Listed(r, bset[w][r])' /\ (Bare(hist[r])' \/ hist'[r][bset[w][r]].checked)
    <3>1. r \in Gets[j] /\ Sound(hist[r]) /\ bset[w][r] \notin Came(j, r)
      BY <2>3, StoryTypes DEF Follows
    <3>2. Listed(r, bset[w][r]) /\ bset[w][r] \in Versions
      BY <1>1, <2>1, <2>2, <2>3, <3>1, RunTypes DEF Own, RunOk
    <3>3. Listed(r, bset[w][r])'
      BY <2>1, <3>2, ListedKept DEF Listed
    <3>4. Bare(hist[r]) \/ hist[r][bset[w][r]].checked
      BY <2>1, <2>3, <3>1 DEF Eligible, ResourceVersions, Filed, Bare, Sound
    <3> QED
      BY <2>1, <3>3, <3>4
  <2> QED
    BY <2>1, <2>2, <2>3, RunGoes
<1>7. CASE RecordInputs(w)
  <2>1. /\ bpc[w] = "resolved" /\ bpc'[w] = "recorded" /\ bjob' = bjob /\ bset' = bset
    BY <1>7, RunTypes DEF RecordInputs, At, Go
  <2>2. Bound(w)
    BY <2>1 DEF Bound
  <2> QED
    BY <2>1, <2>2, RunGoes
<1>8. CASE TakeVersions(w)
  <2>1. bpc[w] = "recorded" /\ bpc'[w] = "taken" /\ bjob' = bjob /\ bset' = bset
    BY <1>8, RunTypes DEF TakeVersions, At, Go
  <2>2. Bound(w) /\ (bjob[w] = j => bset[w][r] \in Came(j, r)')
    BY <1>8, <2>1, TakeFollows DEF Bound
  <2> QED
    BY <2>1, <2>2, RunGoes
<1>9. CASE StartBuild(w)
  <2>1. bpc[w] = "taken" /\ bpc'[w] = "building" /\ bjob' = bjob /\ bset' = bset
    BY <1>9, RunTypes DEF StartBuild, At, Go
  <2>2. Bound(w)
    BY <2>1 DEF Bound
  <2> QED
    BY <2>1, <2>2, RunGoes
<1>10. CASE Resume(w)
  <2>1. /\ bpc[w] = "interrupted" /\ bpc'[w] = "refreshing" /\ bjob' = bjob
        /\ (bset'[w] = bset[w] /\ brec'[w] = brec[w]) \/ ~brec'[w]
    BY <1>10, RunTypes DEF Resume, At, Go
  <2>2. Bound(w)' => Bound(w) /\ bset'[w] = bset[w]
    BY <2>1 DEF Bound
  <2> QED
    BY <2>1, <2>2, RunGoes
<1> QED
  BY <1>2, <1>3, <1>4, <1>5, <1>6, <1>7, <1>8, <1>9, <1>10, ResolveStory
     DEF Run, ResolveNothing, BuildEnds

\* A crash leaves a run what it has on record.
LEMMA CrashStory ==
    ASSUME Inv, [Next]_vars, NEW j \in Jobs, NEW r \in Every[j], Fed(j, r), Story(j, r), Follows(j, r),
           NEW w \in Workers, Crash
    PROVE  Own(j, r, w)' /\ Other(j, r, w)'
<1>1. /\ bpc'[w] \in {"idle", "interrupted"} /\ bset'[w] = IF brec[w] THEN bset[w] ELSE NoSet
      /\ brec' = brec /\ bjob' = bjob /\ ppc' = "idle" /\ published' = published
  BY DEF Crash
<1>2. Bound(w)' <=> brec[w]
  BY <1>1 DEF Bound
<1>3. CASE ~brec[w]
  BY <1>1, <1>2, <1>3, RunGone
<1>4. CASE brec[w]
  <2>1. Bound(w) /\ bset'[w] = bset[w]
    BY <1>1, <1>4 DEF Bound
  <2>2. bjob[w] = j => Listed(r, bset[w][r])'
    BY <1>1, <2>1 DEF Listed, Story, Own
  <2> QED
    BY <1>1, <2>1, <2>2, RunGoes
<1> QED
  BY <1>3, <1>4

\* Nothing of r is put.
LEMMA NoPuts ==
    ASSUME Inv, [Next]_vars, NEW j \in Jobs, NEW r \in Every[j], Fed(j, r),
           \A w \in Workers, v \in Versions : <<r, v>> \notin bput[w]
    PROVE  \A w \in Workers, v \in Versions : <<r, v>> \notin bput'[w]
<1>1. ASSUME NEW w \in Workers, Publishes(w)
      PROVE  \A u \in Workers, v \in Versions : <<r, v>> \notin bput'[u]
  <2>1. PICK q \in Resources, x \in Versions : Put(w, q, x)
    BY <1>1 DEF Publishes
  <2>2. bpc[w] = "building" /\ q \in Puts[bjob[w]] /\ bput' = [bput EXCEPT ![w] = @ \cup {<<q, x>>}]
    BY <2>1 DEF Put, At
  <2>3. q # r
    BY <2>2, RunOf DEF Fed
  <2> QED
    BY <2>2, <2>3, RunTypes
<1>2. ASSUME NEW w \in Workers, Run(w)
      PROVE  bput' = bput \/ bput' = [bput EXCEPT ![w] = NoBuild]
  BY <1>2 DEF Run, Claim, Refresh, LockCursor, Resolve, ResolveNothing, ResumeRecorded,
     RecordInputs, TakeVersions, StartBuild, BuildEnds, Resume, Done
<1>3. ASSUME NEW w \in Workers, Run(w)
      PROVE  \A u \in Workers, v \in Versions : <<r, v>> \notin bput'[u]
  BY <1>2, <1>3, RunTypes DEF NoBuild
<1>4. CASE Crash
  BY <1>4 DEF Crash, NoBuild
<1>5. CASE Aside \/ UNCHANGED vars
  BY <1>5 DEF Aside, vars, buildVars
<1> QED
  BY <1>1, <1>3, <1>4, <1>5 DEF Next

\* A cold start follows what it marks: by then the report is filed.
LEMMA SeedsAfterFiling ==
    ASSUME Inv, [Next]_vars, NEW j \in Jobs, NEW r \in Every[j], Fed(j, r), Story(j, r), Follows(j, r)
    PROVE  ppc' = "seeding" /\ pres' = r => ~Bare(hist[r])'
<1>1. CASE ppc' = ppc /\ pres' = pres
  BY <1>1 DEF Story, Follows
<1>2. CASE PollingNext /\ Aside
  <2>1. CASE RecordHistory
    BY <1>2, <2>1, PollFollows DEF RecordHistory
  <2>2. CASE ~RecordHistory
    <3>1. ppc' # "seeding" \/ (ppc' = ppc /\ pres' = pres)
      BY <1>2, <2>2 DEF PollingNext, PollCycle, World, StartPoll, SeedColdStart, CheckResource,
         ReadDeliveries, AffectedJobs, StartRelease, StartAdvance, EndPoll, ReadChecked, Advance,
         EnqueueAffected, ReleaseConstrained, CheckFails, Publish, Receive, SetPaused, Manual,
         RecordDelivery, pollVars
    <3> QED
      BY <1>1, <3>1
  <2> QED
    BY <2>1, <2>2
<1>3. ASSUME NEW w \in Workers, Run(w) \/ Publishes(w)
      PROVE  ppc' = ppc /\ pres' = pres
  BY <1>3 DEF Run, Claim, Refresh, LockCursor, Resolve, ResolveNothing, ResumeRecorded,
     RecordInputs, TakeVersions, StartBuild, BuildEnds, Resume, Publishes, Put, pollingVars, pollVars
<1>4. CASE Crash
  BY <1>4 DEF Crash
<1>5. CASE UNCHANGED vars
  BY <1>1, <1>5 DEF vars, pollingVars, pollVars
<1> QED
  BY <1>1, <1>2, <1>3, <1>4, <1>5 DEF Next

\* Every step keeps the story of a job that takes r as it comes.
LEMMA StoryStep ==
    ASSUME Inv, [Next]_vars, NEW j \in Jobs, NEW r \in Every[j], Fed(j, r), Passed[j][r] = {},
           Story(j, r)
    PROVE  Story(j, r)'
<1>1. Follows(j, r)
  BY PollFollows, RunFollows DEF Next
<1>2. \A w \in Workers : Own(j, r, w)' /\ Other(j, r, w)'
  <2>1. CASE UNCHANGED buildVars
    BY <1>1, <2>1, OtherRun DEF buildVars
  <2>2. CASE Crash
    BY <1>1, <2>2, CrashStory
  <2>3. ASSUME NEW w \in Workers, Run(w) \/ Publishes(w), NEW v \in Workers
        PROVE  Own(j, r, v)' /\ Other(j, r, v)'
    <3>1. CASE v = w
      BY <1>1, <2>3, <3>1, OwnStep
    <3>2. CASE v # w
      <4>1. /\ bpc'[v] = bpc[v] /\ bjob'[v] = bjob[v] /\ bset'[v] = bset[v]
            /\ bcursor'[v] = bcursor[v] /\ brec'[v] = brec[v]
        BY <2>3, <3>2, OneMoves
      <4> QED
        BY <1>1, <4>1, OtherRun
    <3> QED
      BY <3>1, <3>2
  <2> QED
    BY <2>1, <2>2, <2>3 DEF Next, Aside, vars
<1>3. \A w \in Workers, v \in Versions : <<r, v>> \notin bput'[w]
  BY NoPuts DEF Story
<1>4. \A u \in Unseen(j, r)' : Listed(r, u)'
  <2> SUFFICES ASSUME NEW u, u \in Unseen(j, r)' PROVE Listed(r, u)'
    OBVIOUS
  <2>1. u \in Versions
    BY DEF Unseen, Filed
  <2> QED
    BY <1>1, <2>1, ListedKept DEF Follows
<1>5. ppc' = "seeding" /\ pres' = r => ~Bare(hist[r])'
  BY <1>1, SeedsAfterFiling
<1>6. Told(hist[r], mark[j][r], Came(j, r))'
  BY <1>1 DEF Follows
<1> QED
  BY <1>2, <1>3, <1>4, <1>5, <1>6 DEF Story

\* Nothing is filed at first.
LEMMA StoryInit ==
    ASSUME Init, NEW j \in Jobs, NEW r \in Every[j]
    PROVE  Story(j, r)
<1>1. r \in Resources
  BY PollingAssumption, InputsAssumption
<1>2. /\ \A v \in Versions : hist[r][v].order = 0 /\ ~hist[r][v].checked
      /\ mark[j][r] = 0 /\ hist[r] \in History /\ ppc = "idle"
  BY <1>1, InitInv DEF Inv, Typed, Init, PollingInit, VersionsInit, Absent
<1>3. Top(hist[r]) = 0 /\ Filed(hist[r]) = {}
  BY <1>2, TopIsHighest DEF Filed
<1>4. Came(j, r) = {}
  BY <1>1 DEF Came, Init
<1>5. Told(hist[r], mark[j][r], Came(j, r)) /\ Unseen(j, r) = {}
  BY <1>2, <1>3, <1>4 DEF Told, Unseen, Bare
<1>6. \A w \in Workers : bpc[w] = "idle" /\ ~Bound(w) /\ bput[w] = {}
  BY DEF Init, Bound, NoBuild
<1> QED
  BY <1>2, <1>5, <1>6 DEF Story, Own, Other

\* No version is passed over because a later one was taken first
\* (cursor.go:35-45), for a job that alone takes a resource as it comes: the
\* checks of r list their whole window, no build puts a version of it, and the
\* other jobs that get it wait for one to pass.  Without this a build of another
\* job files what it fetched ahead of the checks, and the cursor moves past it.
THEOREM NothingPassedOver ==
    ASSUME \A j \in Jobs : \A r \in Every[j] : Passed[j][r] = {} => Fed(j, r)
    PROVE  Spec => []NothingSkipped
<1> DEFINE S == \A j \in Jobs : \A r \in Every[j] : Passed[j][r] = {} => Story(j, r)
<1>1. Init => S
  BY StoryInit
<1>2. Inv /\ S /\ [Next]_vars => S'
  BY StoryStep
<1>3. S => NothingSkipped
  BY DEF Story, Told, Came, NothingSkipped, ResourceVersions
<1> HIDE DEF S
<1> QED
  BY <1>1, <1>2, <1>3, Invariance, PTL DEF Spec
=============================================================================
