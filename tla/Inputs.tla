------------------------------- MODULE Inputs -------------------------------
(***************************************************************************)
(* What a build is made of: each run of a job refreshes its resources,     *)
(* reads how far the job has come and what history holds, binds a version  *)
(* to every get, takes it, and goes green against it or does not           *)
(* (internal/pipeline: refresh, cursor, inputsets, backlog, passed), while *)
(* the poller and the receiver of Polling feed it.                         *)
(*                                                                         *)
(*   idle -Claim-> refreshing -LockCursor-> locked -Resolve-> resolved     *)
(*     -RecordInputs-> recorded -TakeVersions-> taken -StartBuild->        *)
(*     building -BuildEnds-> idle                                          *)
(***************************************************************************)
EXTENDS Polling

CONSTANTS
    Every,    \* [job]: the resources it gets with version: every (the rest: latest)
    Puts,     \* [job]: the resources its plan puts
    Workers   \* drain workers, which may build one job side by side

ASSUME InputsAssumption ==
    /\ Puts \in [Jobs -> SUBSET Resources]
    /\ \A j \in Jobs : Every[j] \subseteq Gets[j]

VARIABLES
    bpc,      \* where each worker's run is
    bjob,     \* the job it runs
    btodo,    \* the resources it has still to refresh
    bcursor,  \* versionCursor: the marks and orders it loaded
    bset,     \* the input set: a version for each get
    bwaiting, \* whether more sets wait behind it
    brec,     \* run_inputs: whether the set is on record
    bput,     \* the versions its puts have published
    taken,    \* history: [job]: what its every-gets have taken: each set, and
              \* whether checks had filed all its versions by then
    seeded    \* history: [job][resource]: versions a cold start marked taken

buildVars == <<bpc, bjob, btodo, bcursor, bset, bwaiting, brec, bput>>
vars == <<pollingVars, buildVars, taken, seeded>>

NoJob == "none"
NoSet == << >>
NoCursor == << >>
Locked == {"locked", "resolved", "recorded", "taken"}
\* With an input set: resolved, or on record.
Bound(w) == brec[w] \/ bpc[w] \in {"resolved", "recorded", "taken", "building"}

TypeOK ==
    /\ PollingTypeOK
    /\ bpc \in [Workers -> {"idle", "refreshing", "building", "interrupted"} \cup Locked]
    /\ bjob \in [Workers -> Jobs \cup {NoJob}]
    /\ btodo \in [Workers -> SUBSET Resources]
    /\ \A w \in Workers : IF Bound(w) THEN bset[w] \in [Gets[bjob[w]] -> Versions]
                           ELSE bset[w] = NoSet
    /\ bwaiting \in [Workers -> BOOLEAN] /\ brec \in [Workers -> BOOLEAN]
    /\ bput \in [Workers -> Build]

Init ==
    /\ PollingInit
    /\ bpc = [w \in Workers |-> "idle"]
    /\ bjob = [w \in Workers |-> NoJob]
    /\ btodo = [w \in Workers |-> {}]
    /\ bcursor = [w \in Workers |-> NoCursor]
    /\ bset = [w \in Workers |-> NoSet]
    /\ bwaiting = [w \in Workers |-> FALSE]
    /\ brec = [w \in Workers |-> FALSE]
    /\ bput = [w \in Workers |-> NoBuild]
    /\ taken = [j \in Jobs |-> {}]
    /\ seeded = [j \in Jobs |-> [r \in Resources |-> {}]]

At(w, place) == bpc[w] = place
Go(w, place) == bpc' = [bpc EXCEPT ![w] = place]

\* The run is over: its locals go.
Done(w) ==
    /\ Go(w, "idle")
    /\ bjob' = [bjob EXCEPT ![w] = NoJob]
    /\ btodo' = [btodo EXCEPT ![w] = {}]
    /\ bcursor' = [bcursor EXCEPT ![w] = NoCursor]
    /\ bset' = [bset EXCEPT ![w] = NoSet]
    /\ bwaiting' = [bwaiting EXCEPT ![w] = FALSE]
    /\ brec' = [brec EXCEPT ![w] = FALSE]
    /\ bput' = [bput EXCEPT ![w] = NoBuild]

-----------------------------------------------------------------------------
Claim(w, j) ==
    /\ At(w, "idle") /\ ~paused /\ pending # << >> /\ j = Head(pending)
    /\ pending' = Tail(pending)
    /\ Go(w, "refreshing")
    /\ bjob' = [bjob EXCEPT ![w] = j]
    /\ btodo' = [btodo EXCEPT ![w] = Gets[j]]
    /\ UNCHANGED <<storeVars, published, paused, handling, pollVars, bcursor, bset, bwaiting,
                   brec, bput, taken, seeded>>

\* refreshOneResource: what the check reports is filed and the baseline left
\* alone; best-effort, and nothing for a resource a poller keeps on a worker
\* acquired on demand.
Refresh(w, r) ==
    /\ At(w, "refreshing") /\ r \in btodo[w]
    /\ btodo' = [btodo EXCEPT ![w] = @ \ {r}]
    /\ \/ Report(r) # {} /\ RecordVersions(r, Report(r))
       \/ (Report(r) = {} \/ "check" \in Events) /\ UNCHANGED <<hist, green>>
    /\ UNCHANGED <<checked, mark, published, paused, pending, handling, pollVars, bpc, bjob,
                   bcursor, bset, bwaiting, brec, bput, taken, seeded>>

\* Mutant: two runs of a job may read its cursor before either takes.
LoadCursorUnlocked(w) ==
    /\ At(w, "refreshing") /\ btodo[w] = {}
    /\ Go(w, "locked")
    /\ bcursor' = [bcursor EXCEPT ![w] = [r \in Every[bjob[w]] |->
          [mark |-> mark[bjob[w]][r], orders |-> [v \in Versions |-> hist[r][v].order]]]]
    /\ UNCHANGED <<pollingVars, bjob, btodo, bset, bwaiting, brec, bput, taken, seeded>>

\* lockJobCursor, then loadVersionCursor.
LockCursor(w) ==
    /\ At(w, "refreshing") /\ btodo[w] = {}
    /\ \A v \in Workers : bpc[v] \in Locked => bjob[v] # bjob[w]
    /\ Go(w, "locked")
    /\ bcursor' = [bcursor EXCEPT ![w] = [r \in Every[bjob[w]] |->
          [mark |-> mark[bjob[w]][r], orders |-> [v \in Versions |-> hist[r][v].order]]]]
    /\ UNCHANGED <<pollingVars, bjob, btodo, bset, bwaiting, brec, bput, taken, seeded>>

-----------------------------------------------------------------------------
(* resolveInputSets.                                                       *)

\* Mutant: passed: decided when the job was queued, and not asked again.
RawHistory(j, r) == IF ResourceVersions(r) # {} THEN ResourceVersions(r) ELSE published[r]

\* loadResourceHistory: green versions for a gated get, else what checks have
\* filed, else what a check of its own reports.
Eligible(j, r) ==
    IF Passed[j][r] # {} THEN GreenVersions(r, Passed[j][r])
    ELSE IF ResourceVersions(r) # {} THEN ResourceVersions(r)
    ELSE published[r]

\* Oldest first by check_order, or by the check's own order if none is filed.
Place(r, v) == IF hist[r][v].order > 0 THEN hist[r][v].order ELSE v
LatestOf(r, S) == CHOOSE v \in S : \A u \in S : Place(r, u) <= Place(r, v)

\* Mutant: the newest version not taken yet.
NewestFirst(r, S) == LatestOf(r, S)

OldestOf(r, S) == CHOOSE v \in S : \A u \in S : Place(r, v) <= Place(r, u)

\* versionCursor.has and heldVersion, by what the cursor loaded.
Covered(c, v) == c.orders[v] > 0 /\ c.orders[v] <= c.mark
HeldVersion(c, S) ==
    CHOOSE v \in S : Covered(c, v) /\ \A u \in S : Covered(c, u) => c.orders[u] <= c.orders[v]

Unconsumed(w, r) == {v \in Eligible(bjob[w], r) : ~Covered(bcursor[w][r], v)}
Held(w, r) == {v \in Eligible(bjob[w], r) : Covered(bcursor[w][r], v)}

\* A latest get with nothing to choose from fails the run; an every get that
\* can bind nothing, or no every get with anything new, leaves it idle.
Fails(w) == \E r \in Gets[bjob[w]] \ Every[bjob[w]] : Eligible(bjob[w], r) = {}
Idles(w) ==
    LET E == Every[bjob[w]]
    IN  /\ E # {}
        /\ \/ \A r \in E : Unconsumed(w, r) = {}
           \/ \E r \in E : Unconsumed(w, r) = {} /\ Held(w, r) = {}

\* assembleOneSet, for the set this run builds.
FirstSet(w) ==
    [r \in Gets[bjob[w]] |->
        IF r \notin Every[bjob[w]] THEN LatestOf(r, Eligible(bjob[w], r))
        ELSE IF Unconsumed(w, r) # {} THEN OldestOf(r, Unconsumed(w, r))
        ELSE HeldVersion(bcursor[w][r], Held(w, r))]

\* oneBuild: the first set, and whether others wait behind it.
Resolve(w) ==
    /\ At(w, "locked") /\ ~brec[w] /\ ~Fails(w) /\ ~Idles(w)
    /\ bset' = [bset EXCEPT ![w] = FirstSet(w)]
    /\ bwaiting' = [bwaiting EXCEPT ![w] =
          \E r \in Every[bjob[w]] : Cardinality(Unconsumed(w, r)) > 1]
    /\ bcursor' = [bcursor EXCEPT ![w] = NoCursor]
    /\ Go(w, "resolved")
    /\ UNCHANGED <<pollingVars, bjob, btodo, brec, bput, taken, seeded>>

\* Nothing to build, or a failure before anything is taken.
ResolveNothing(w) ==
    /\ At(w, "locked") /\ ~brec[w]
    /\ Fails(w) \/ Idles(w) \/ "plan" \in Events
    /\ Done(w)
    /\ UNCHANGED <<pollingVars, taken, seeded>>

\* holds: a resource with no history of its own holds nothing.
Holds(j, r, v) == v \in Eligible(j, r) /\ (Passed[j][r] # {} \/ ResourceVersions(r) # {})

\* resumeInputSets: the set on record, if history still has its versions; a
\* resume takes nothing.
ResumeRecorded(w) ==
    /\ At(w, "locked") /\ brec[w]
    /\ IF \A r \in Gets[bjob[w]] : Holds(bjob[w], r, bset[w][r])
       THEN /\ Go(w, "taken") /\ bcursor' = [bcursor EXCEPT ![w] = NoCursor]
            /\ UNCHANGED <<bjob, btodo, bset, bwaiting, brec, bput>>
       ELSE Done(w)
    /\ UNCHANGED <<pollingVars, taken, seeded>>

-----------------------------------------------------------------------------
(* takeBuild, as the build is created and whatever it then does.           *)

RecordInputs(w) ==
    /\ At(w, "resolved")
    /\ brec' = [brec EXCEPT ![w] = TRUE]
    /\ Go(w, "recorded")
    /\ UNCHANGED <<pollingVars, bjob, btodo, bcursor, bset, bwaiting, bput, taken, seeded>>

EverySet(w) == [r \in Every[bjob[w]] |-> bset[w][r]]

\* cursor.take of each every get: RecordVersionOrder, RecordConsumedMark.
TakeVersions(w) ==
    /\ At(w, "recorded")
    /\ LET j == bjob[w]
           E == Every[j]
           h == [r \in Resources |-> IF r \in E THEN EnsureVersion(hist[r], bset[w][r]) ELSE hist[r]]
       IN  /\ hist' = h
           /\ mark' = [mark EXCEPT ![j] = [r \in Resources |->
                 IF r \in E THEN Forward(@[r], h[r][bset[w][r]].order) ELSE @[r]]]
           /\ taken' = [taken EXCEPT ![j] = IF E = {} THEN @ ELSE @ \cup
                 {[set |-> EverySet(w), filed |-> \A r \in E : hist[r][bset[w][r]].checked]}]
    /\ Go(w, "taken")
    /\ UNCHANGED <<checked, green, published, paused, pending, handling, pollVars, bjob, btodo,
                   bcursor, bset, bwaiting, brec, bput, seeded>>

\* Mutant: what waits behind this build is not queued again.
StartWithoutBacklog(w) ==
    /\ At(w, "taken")
    /\ bwaiting' = [bwaiting EXCEPT ![w] = FALSE]
    /\ Go(w, "building")
    /\ UNCHANGED <<storeVars, published, paused, pending, handling, pollVars, bjob, btodo, bcursor,
                   bset, brec, bput, taken, seeded>>

\* The backlog is queued and the lock let go; then the gets fetch, and a
\* resource nothing polls has the fetched version for its checked one.
StartBuild(w) ==
    /\ At(w, "taken")
    /\ pending' = IF bwaiting[w] THEN EnqueueJob(bjob[w], pending) ELSE pending
    /\ bwaiting' = [bwaiting EXCEPT ![w] = FALSE]
    /\ Go(w, "building")
    /\ checked' = [r \in Resources |->
          IF r \in Gets[bjob[w]] \ Polled THEN bset[w][r] ELSE checked[r]]
    /\ UNCHANGED <<hist, green, mark, published, paused, handling, pollVars, bjob, btodo, bcursor,
                   bset, brec, bput, taken, seeded>>

\* A put publishes a version and files its order; no check has reported it.
Put(w, r, v) ==
    /\ At(w, "building") /\ r \in Puts[bjob[w]] /\ \A p \in bput[w] : p[1] # r
    /\ v \notin published[r] /\ \A u \in Versions : u < v => u \in published[r]
    /\ published' = [published EXCEPT ![r] = @ \cup {v}]
    /\ RecordVersionOrder(r, v)
    /\ bput' = [bput EXCEPT ![w] = @ \cup {<<r, v>>}]
    /\ UNCHANGED <<checked, green, mark, paused, pending, handling, pollVars, bpc, bjob, btodo,
                   bcursor, bset, bwaiting, brec, taken, seeded>>

\* Green is per build, and recorded only when all of it succeeded.
BuildEnds(w) ==
    /\ At(w, "building")
    /\ \/ RecordPassedVersions(bjob[w], {<<r, bset[w][r]>> : r \in Gets[bjob[w]]} \cup bput[w])
       \/ UNCHANGED <<hist, green>>
    /\ Done(w)
    /\ UNCHANGED <<checked, mark, published, paused, pending, handling, pollVars, taken, seeded>>

-----------------------------------------------------------------------------
(* The process dies and comes back: the poll and the deliveries in hand    *)
(* are gone, and each run in flight is claimed again as the run it was.    *)

Crash ==
    /\ "crash" \in Events
    /\ ppc' = "idle" /\ ptodo' = {} /\ pres' = NoResource /\ queued' = {}
    /\ obs' = [r \in Resources |-> NoObs]
    /\ handling' = {}
    /\ bpc' = [w \in Workers |-> IF bpc[w] = "idle" THEN "idle" ELSE "interrupted"]
    /\ btodo' = [w \in Workers |-> {}]
    /\ bcursor' = [w \in Workers |-> NoCursor]
    /\ bset' = [w \in Workers |-> IF brec[w] THEN bset[w] ELSE NoSet]
    /\ bwaiting' = [w \in Workers |-> FALSE]
    /\ bput' = [w \in Workers |-> NoBuild]
    /\ UNCHANGED <<storeVars, published, paused, pending, bjob, brec, taken, seeded>>

\* Its record vouches for it, or it is a new run instead.
Resume(w) ==
    /\ At(w, "interrupted") /\ ~paused
    /\ Go(w, "refreshing")
    /\ btodo' = [btodo EXCEPT ![w] = Gets[bjob[w]]]
    /\ \/ UNCHANGED <<bset, brec>>
       \/ bset' = [bset EXCEPT ![w] = NoSet] /\ brec' = [brec EXCEPT ![w] = FALSE]
    /\ UNCHANGED <<pollingVars, bjob, bcursor, bwaiting, bput, taken, seeded>>

-----------------------------------------------------------------------------
\* What a step of Polling leaves alone, and the history of its cold starts.
Aside ==
    /\ seeded' = IF ppc # "seeding" THEN seeded
                 ELSE [j \in Jobs |-> [r \in Resources |-> seeded[j][r] \cup
                         {v \in Filed(hist[r]) : r = pres /\ r \in Gets[j] /\ hist[r][v].order <= mark'[j][r]}]]
    /\ UNCHANGED <<buildVars, taken>>

Run(w) ==
    \/ \E j \in Jobs : Claim(w, j)
    \/ \E r \in Resources : Refresh(w, r)
    \/ LockCursor(w) \/ Resolve(w) \/ ResolveNothing(w) \/ ResumeRecorded(w)
    \/ RecordInputs(w) \/ TakeVersions(w) \/ StartBuild(w) \/ BuildEnds(w)
    \/ Resume(w)

Publishes(w) == \E r \in Resources, v \in Versions : Put(w, r, v)

Next == (PollingNext /\ Aside) \/ Crash \/ \E w \in Workers : Run(w) \/ Publishes(w)

Spec == Init /\ [][Next]_vars

-----------------------------------------------------------------------------
(* Safety.                                                                 *)

\* "every takes each version once" (docs/resources.md:1259): no two builds of
\* a job take the same set of versions checks have filed, whatever the poller,
\* a delivery or a restart queues it for and however many runs of it resolve
\* side by side (pipeline/backlog.go:20-39).
TakenOnce ==
    [][\A w \in Workers : At(w, "recorded") /\ bpc'[w] = "taken" =>
          [set |-> EverySet(w), filed |-> TRUE] \notin taken[bjob[w]]]_vars

\* The cursor is one number per job and resource (cursor.go:35-45): every
\* version at or below it was taken by a build, or seeded by a cold start; none
\* is passed over because a later one was taken first.
NothingSkipped ==
    \A j \in Jobs : \A r \in Every[j] : Passed[j][r] = {} =>
        \A v \in ResourceVersions(r) : hist[r][v].order <= mark[j][r] =>
            v \in seeded[j][r] \/ \E t \in taken[j] : t.set[r] = v

\* passed: (docs/infra.md:945, "Per version, not per job"): a build never runs
\* with a version some named job has not been green on, whatever was green
\* when it was queued.
GateHolds ==
    \A w \in Workers : bset[w] # NoSet =>
        \A r \in Constrained(bjob[w]) : \A u \in Passed[bjob[w]][r] :
            bset[w][r] \in Filed(hist[r]) => green[u][r][bset[w][r]] # NoBuild

\* A check that lists its whole window never loses from history what it still
\* lists, or sees it move, whatever the cap and whoever filed last
\* (history.go:153-161: otherwise the table oscillates between halves).
WindowKept ==
    [][\A r \in Resources \ (AfterCursor \cup Webhooks) : \A v \in ResourceVersions(r) :
          hist'[r][v] = hist[r][v]]_vars

\* "writing back what observe read would rewind past it" (trigger.go:473): a
\* webhook resource's checked version never goes back to an older delivery.
CheckedNeverRewinds ==
    [][\A r \in Webhooks : checked[r] # None =>
          hist'[r][checked'[r]].order >= hist'[r][checked[r]].order]_vars

-----------------------------------------------------------------------------
(* Liveness: the poll loop ticks, runs go on, a handler that decided       *)
(* records; nobody is made to publish, pause or send.                      *)
Fairness ==
    /\ WF_vars(PollCycle /\ Aside)
    /\ \A w \in Workers : WF_vars(Run(w))
    /\ WF_vars((\E d \in handling : RecordDelivery(d)) /\ Aside)

FairSpec == Spec /\ Fairness

\* What an every get of j may take of r: out there and polled, delivered, or
\* green upstream.
Offered(j, r, v) ==
    IF Passed[j][r] # {} THEN v \in GreenVersions(r, Passed[j][r])
    ELSE v \in published[r] \cup ResourceVersions(r)

\* No trigger is lost (docs/infra.md:744, "never at-most-once"; :958, "A held-
\* back job is not a lost trigger"): unless the pipeline stays paused, every
\* version a triggering every get is offered ends up taken, delivered under a
\* pause and released by an upstream included.
NoTriggerLost ==
    <>[]~paused =>
        \A j \in Jobs : \A r \in Every[j] \cap Triggers[j] : \A v \in Versions :
            Offered(j, r, v) ~> (0 < hist[r][v].order /\ hist[r][v].order <= mark[j][r])

=============================================================================
