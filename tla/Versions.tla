------------------------------ MODULE Versions ------------------------------
(***************************************************************************)
(* What the store knows of resource versions (internal/store/sqlite):      *)
(* resource_versions (history), resource_checks (the poller's baseline),   *)
(* job_versions (what each job was green against) and job_version_cursor   *)
(* (how far each job has taken a version: every get).  One operator per    *)
(* statement or transaction; a conjunct x' = ... stands for its write.     *)
(*                                                                         *)
(* A version is a number, its place in what the outside world publishes:   *)
(* a check lists what it reports oldest first, so a report is a set here.  *)
(***************************************************************************)
EXTENDS Integers, FiniteSets, FiniteSetsExt

CONSTANTS
    Jobs, Resources,
    Versions,      \* a set of numbers
    HistoryLimit   \* version_history: how many scrolled-away versions are kept, 0 for all

ASSUME VersionsAssumption ==
    Versions \subseteq Nat \ {0} /\ IsFiniteSet(Versions) /\ HistoryLimit \in Nat

VARIABLES
    hist,     \* [resource][version]: its check_order, and whether a check filed it
    checked,  \* [resource]: the version last recorded as checked, or None
    green,    \* [job][resource][version]: the build that vouches for it, or NoBuild
    mark      \* [job][resource]: the highest check_order the job has taken

None == 0
Absent == [order |-> 0, checked |-> FALSE]

\* A build id is compared and nothing else; here it is the set of all that the
\* build passed, and a build that passes the same again takes over all its rows.
Build == SUBSET (Resources \X Versions)
NoBuild == {}

VersionsTypeOK ==
    /\ hist \in [Resources -> [Versions -> [order: Nat, checked: BOOLEAN]]]
    /\ checked \in [Resources -> Versions \cup {None}]
    /\ green \in [Jobs -> [Resources -> [Versions -> Build]]]
    /\ mark \in [Jobs -> [Resources -> Nat]]

VersionsInit ==
    /\ hist = [r \in Resources |-> [v \in Versions |-> Absent]]
    /\ checked = [r \in Resources |-> None]
    /\ green = [j \in Jobs |-> [r \in Resources |-> [v \in Versions |-> NoBuild]]]
    /\ mark = [j \in Jobs |-> [r \in Resources |-> 0]]

-----------------------------------------------------------------------------
(* One resource's history h.                                               *)

Filed(h) == {v \in Versions : h[v].order > 0}
Top(h) == Max({h[v].order : v \in Versions} \cup {0})
Newest(h, S) == CHOOSE v \in S : \A u \in S : h[u].order <= h[v].order

\* What a report would change: versions not filed, or filed by a run only.
Fresh(h, report) == {v \in report : ~h[v].checked}

InsertNewVersions(h, report) ==
    [v \in Versions |->
        IF v \in Fresh(h, report)
        THEN [order |-> Top(h) + Cardinality({u \in Fresh(h, report) : u <= v}),
              checked |-> TRUE]
        ELSE h[v]]

\* Mutant: the cap alone, whatever the report still holds.
PruneToCap(h, report) ==
    LET newer(v) == {u \in Filed(h) : h[u].order > h[v].order}
    IN  IF HistoryLimit = 0 THEN h
        ELSE [v \in Versions |-> IF Cardinality(newer(v)) < HistoryLimit THEN h[v] ELSE Absent]

\* The newest HistoryLimit stay, and all from the report's lowest order up.
PruneVersions(h, report) ==
    LET newer(v) == {u \in Filed(h) : h[u].order > h[v].order}
        floor == Min({h[v].order : v \in report})
    IN  IF HistoryLimit = 0 THEN h
        ELSE [v \in Versions |->
                IF h[v].order >= floor \/ Cardinality(newer(v)) < HistoryLimit
                THEN h[v] ELSE Absent]

EnsureVersion(h, v) ==
    IF h[v].order > 0 THEN h
    ELSE [h EXCEPT ![v] = [order |-> Top(h) + 1, checked |-> FALSE]]

-----------------------------------------------------------------------------
(* Writes.                                                                 *)

\* A pruned version's green records go with it.
SetHistory(r, h) ==
    /\ hist' = [hist EXCEPT ![r] = h]
    /\ green' = [j \in Jobs |-> [green[j] EXCEPT ![r] =
          [v \in Versions |-> IF v \in Filed(h) THEN @[v] ELSE NoBuild]]]

RecordVersions(r, report) ==
    SetHistory(r, PruneVersions(InsertNewVersions(hist[r], report), report))

RecordVersionOrder(r, v) == hist' = [hist EXCEPT ![r] = EnsureVersion(@, v)]

RecordCheckedVersion(r, v) == checked' = [checked EXCEPT ![r] = v]

CompareAndSetCheckedVersion(r, expected, next) ==
    checked' = [checked EXCEPT ![r] = IF @ = expected THEN next ELSE @]

\* Only ever forward.
Forward(old, order) == IF order > old THEN order ELSE old

\* ensureVersion for each of a set.
EnsureAll(h, S) ==
    LET new == {v \in S : h[v].order = 0}
    IN  [v \in Versions |->
            IF v \in new
            THEN [order |-> Top(h) + Cardinality({u \in new : u <= v}), checked |-> FALSE]
            ELSE h[v]]

\* Every version a green build fetched or put is filed, and the build vouches
\* for it in place of any earlier one.
RecordPassedVersions(j, passed) ==
    /\ hist' = [r \in Resources |-> EnsureAll(hist[r], {v \in Versions : <<r, v>> \in passed})]
    /\ green' = [green EXCEPT ![j] = [r \in Resources |-> [v \in Versions |->
                    IF <<r, v>> \in passed THEN passed ELSE @[r][v]]]]

-----------------------------------------------------------------------------
(* Reads.                                                                  *)

\* Oldest first is the order of hist[r].
ResourceVersions(r) == {v \in Filed(hist[r]) : hist[r][v].checked}

GreenVersions(r, upstream) ==
    {v \in Filed(hist[r]) : \A u \in upstream : green[u][r][v] # NoBuild}

\* One build of u vouches for every version wanted.
HasPassedVersionSet(u, want) ==
    \/ DOMAIN want = {}
    \/ \E r \in DOMAIN want : \A q \in DOMAIN want :
          /\ green[u][q][want[q]] # NoBuild
          /\ green[u][q][want[q]] = green[u][r][want[r]]
=============================================================================
