------------------------------- MODULE Polling ------------------------------
(***************************************************************************)
(* How a new version becomes a queued job: the poll loop and the webhook   *)
(* receiver beside it (internal/trigger), over the tables of Versions.     *)
(* Of TriggerQueue's rows only the pending ordinary ones matter here, a    *)
(* sequence of jobs that EnqueueJob adds each job to once.                 *)
(*                                                                         *)
(* A step is one store call, or several nobody can tell from one.          *)
(***************************************************************************)
EXTENDS Versions, Sequences

CONSTANTS
    Gets,         \* [job]: the resources its plan gets
    Triggers,     \* [job]: those with trigger: true
    Passed,       \* [job][resource]: the jobs its passed: names
    Webhooks,     \* the webhook resources
    Outside,      \* the resources somebody else publishes to
    AfterCursor,  \* resources whose check reports only what follows its cursor
    Backfills,    \* resources that may list an older version after a newer one
    Events        \* what happens besides: of "manual", "pause", and what may go wrong,
                  \* of "check", "plan" and "crash"

ASSUME PollingAssumption ==
    /\ Gets \in [Jobs -> SUBSET Resources]
    /\ Passed \in [Jobs -> [Resources -> SUBSET Jobs]]
    /\ Outside \cup Webhooks \subseteq Resources /\ Outside \cap Webhooks = {}
    /\ \A j \in Jobs : /\ Triggers[j] \subseteq Gets[j]
                       /\ \A r \in Resources : Passed[j][r] # {} => r \in Gets[j]

VARIABLES
    published,  \* [resource]: the versions that exist out there
    paused,     \* the pipeline's pause
    pending,    \* the jobs with a pending row, oldest first
    handling,   \* webhook deliveries between their dispatch decision and their transaction
    ppc,        \* where the poll cycle is
    ptodo,      \* what this phase of it has still to go through
    pres,       \* the resource it is observing
    obs,        \* [resource]: what it has observed
    queued      \* the jobs it has enqueued

storeVars == <<hist, checked, green, mark>>
pollVars == <<ppc, ptodo, pres, obs, queued>>
pollingVars == <<storeVars, published, paused, pending, handling, pollVars>>

NoResource == "none"
Observations ==
    [latest: Versions \cup {None}, previous: Versions \cup {None},
     versions: SUBSET Versions, dirty: BOOLEAN, coldStart: BOOLEAN]
NoObs == [latest |-> None, previous |-> None, versions |-> {}, dirty |-> FALSE,
          coldStart |-> FALSE]

\* config.PolledResourceNames: a trigger or a passed: makes a resource polled.
Polled == {r \in Resources : \E j \in Jobs : r \in Triggers[j] \/ Passed[j][r] # {}}
Constrained(j) == {r \in Resources : Passed[j][r] # {}}

\* One pending row per job.
EnqueueJob(j, q) == IF j \in Range(q) THEN q ELSE Append(q, j)

PollingTypeOK ==
    /\ VersionsTypeOK
    /\ published \in [Resources -> SUBSET Versions]
    /\ paused \in BOOLEAN /\ pending \in Seq(Jobs)
    /\ handling \in SUBSET [r: Webhooks, v: Versions, held: BOOLEAN, jobs: SUBSET Jobs]
    /\ ppc \in {"idle", "observing", "checked", "seeding", "delivered",
                "enqueueing", "releasing", "advancing"}
    /\ ptodo \in SUBSET (Resources \cup Jobs) /\ pres \in Resources \cup {NoResource}
    /\ obs \in [Resources -> Observations]
    /\ queued \in SUBSET Jobs

PollingInit ==
    /\ VersionsInit
    /\ published = [r \in Resources |-> {}]
    /\ paused = FALSE /\ pending = << >> /\ handling = {}
    /\ ppc = "idle" /\ ptodo = {} /\ pres = NoResource /\ queued = {}
    /\ obs = [r \in Resources |-> NoObs]

-----------------------------------------------------------------------------
(* The world: what checks find, what is paused, who triggers by hand.      *)

Publish(r, v) ==
    /\ r \in Outside /\ v \notin published[r]
    /\ r \in Backfills \/ \A u \in Versions : u < v => u \in published[r]
    /\ published' = [published EXCEPT ![r] = @ \cup {v}]
    /\ UNCHANGED <<storeVars, paused, pending, handling, pollVars>>

\* A check's answer: its whole window, or what its cursor has not seen.
Report(r) ==
    IF r \in Webhooks THEN {}
    ELSE IF r \in AfterCursor THEN {v \in published[r] : v > checked[r]}
    ELSE published[r]

SetPaused(p) ==
    /\ "pause" \in Events
    /\ paused' = p /\ paused # p
    /\ UNCHANGED <<storeVars, published, pending, handling, pollVars>>

\* handleTrigger: a person asks for a build.
Manual(j) ==
    /\ "manual" \in Events /\ ~paused
    /\ pending' = EnqueueJob(j, pending)
    /\ UNCHANGED <<storeVars, published, paused, handling, pollVars>>

-----------------------------------------------------------------------------
(* passed: at trigger time.                                                *)

\* candidateSetFor: per resource, the newest version green in all its jobs.
Candidates(j, R) == [r \in R |-> Newest(hist[r], GreenVersions(r, Passed[j][r]))]
Complete(j, R) == \A r \in R : GreenVersions(r, Passed[j][r]) # {}

\* jobReadyFor: each upstream job has passed its candidates in one build.
JobReadyFor(j) ==
    \A u \in UNION {Passed[j][r] : r \in Resources} :
        LET R == {r \in Resources : u \in Passed[j][r]}
        IN  Complete(j, R) /\ HasPassedVersionSet(u, Candidates(j, R))

JobAlreadyRanThese(j) ==
    Complete(j, Constrained(j)) /\ HasPassedVersionSet(j, Candidates(j, Constrained(j)))

-----------------------------------------------------------------------------
(* The poll cycle.                                                         *)

\* A pause is asked once per cycle.
StartPoll ==
    /\ ppc = "idle" /\ ~paused
    /\ ppc' = "observing" /\ ptodo' = Polled
    /\ UNCHANGED <<storeVars, published, paused, pending, handling, pres, obs, queued>>

\* checkResource: the baseline is read, the check runs, nothing is written yet.
\* One that reports nothing stands by the recorded version.
CheckResource(r) ==
    /\ ppc = "observing" /\ r \in ptodo \ Webhooks
    /\ IF Report(r) # {}
       THEN /\ obs' = [obs EXCEPT ![r] =
                  [latest |-> Max(Report(r)), previous |-> checked[r], versions |-> Report(r),
                   dirty |-> checked[r] \notin {None, Max(Report(r))},
                   coldStart |-> checked[r] = None]]
            /\ ppc' = "checked" /\ pres' = r /\ UNCHANGED ptodo
       ELSE /\ obs' = [obs EXCEPT ![r] = IF checked[r] = None THEN NoObs ELSE
                  [latest |-> checked[r], previous |-> checked[r], versions |-> {},
                   dirty |-> FALSE, coldStart |-> FALSE]]
            /\ ptodo' = ptodo \ {r} /\ UNCHANGED <<ppc, pres>>
    /\ UNCHANGED <<storeVars, published, paused, pending, handling, queued>>

\* Left out of this poll's observations, and so never advanced.
CheckFails(r) ==
    /\ ppc = "observing" /\ r \in ptodo \ Webhooks /\ "check" \in Events
    /\ ptodo' = ptodo \ {r}
    /\ UNCHANGED <<storeVars, published, paused, pending, handling, ppc, pres, obs, queued>>

\* recordHistory: what was new to history makes the resource dirty, whatever
\* its head; a first-ever report has its backlog to seed.
RecordHistory ==
    /\ ppc = "checked"
    /\ RecordVersions(pres, obs[pres].versions)
    /\ IF obs[pres].coldStart
       THEN ppc' = "seeding" /\ UNCHANGED <<ptodo, pres, obs>>
       ELSE /\ obs' = [obs EXCEPT ![pres].dirty =
                          @ \/ Fresh(hist[pres], obs[pres].versions) # {}]
            /\ ppc' = "observing" /\ ptodo' = ptodo \ {pres} /\ pres' = NoResource
    /\ UNCHANGED <<checked, mark, published, paused, pending, handling, queued>>

\* coldStartMark: the highest order below the newest's.
ColdStartMark(h, latest) ==
    IF h[latest].order = Top(h) THEN Max({h[v].order : v \in Filed(h) \ {latest}} \cup {0})
    ELSE Top(h)

\* seedColdStart: every job that gets the resource has taken the backlog, and
\* the baseline is recorded with it.
SeedColdStart ==
    /\ ppc = "seeding"
    /\ LET order == ColdStartMark(hist[pres], obs[pres].latest)
           readers == {j \in Jobs : pres \in Gets[j]}
       IN  mark' = [j \in Jobs |-> IF j \in readers
                       THEN [mark[j] EXCEPT ![pres] = Forward(@, order)] ELSE mark[j]]
    /\ RecordCheckedVersion(pres, obs[pres].latest)
    /\ obs' = [obs EXCEPT ![pres].dirty = TRUE]
    /\ ppc' = "observing" /\ ptodo' = ptodo \ {pres} /\ pres' = NoResource
    /\ UNCHANGED <<hist, green, published, paused, pending, handling, queued>>

\* observeDeliveries: the checked version first, then the newest delivery.
ReadChecked(r) ==
    /\ ppc = "observing" /\ r \in ptodo \cap Webhooks
    /\ obs' = [obs EXCEPT ![r] = [NoObs EXCEPT !.previous = checked[r]]]
    /\ ppc' = "delivered" /\ pres' = r
    /\ UNCHANGED <<storeVars, published, paused, pending, handling, ptodo, queued>>

ReadDeliveries ==
    /\ ppc = "delivered"
    /\ LET known == ResourceVersions(pres)
           latest == Newest(hist[pres], known)
           previous == obs[pres].previous
       IN  obs' = [obs EXCEPT ![pres] = IF known = {} THEN NoObs ELSE
                      [latest |-> latest, previous |-> previous, versions |-> {},
                       dirty |-> previous # latest, coldStart |-> FALSE]]
    /\ ppc' = "observing" /\ ptodo' = ptodo \ {pres} /\ pres' = NoResource
    /\ UNCHANGED <<storeVars, published, paused, pending, handling, queued>>

Observed == {r \in Resources : obs[r].latest # None}
Dirty == {r \in Observed : obs[r].dirty}

\* affectedJobs: the jobs a dirty resource triggers, if their passed: holds.
AffectedJobs ==
    /\ ppc = "observing" /\ ptodo = {}
    /\ ppc' = "enqueueing"
    /\ ptodo' = {j \in Jobs : Triggers[j] \cap Dirty # {} /\ JobReadyFor(j)}
    /\ UNCHANGED <<storeVars, published, paused, pending, handling, pres, obs, queued>>

EnqueueAffected(j) ==
    /\ ppc = "enqueueing" /\ j \in ptodo
    /\ pending' = EnqueueJob(j, pending)
    /\ queued' = queued \cup {j} /\ ptodo' = ptodo \ {j}
    /\ UNCHANGED <<storeVars, published, paused, handling, ppc, pres, obs>>

StartRelease ==
    /\ ppc = "enqueueing" /\ ptodo = {}
    /\ ppc' = "releasing"
    /\ ptodo' = {j \in Jobs : Constrained(j) # {}} \ queued
    /\ UNCHANGED <<storeVars, published, paused, pending, handling, pres, obs, queued>>

\* releaseConstrainedJobs, on every poll: what an upstream went green on since.
ReleaseConstrained(j) ==
    /\ ppc = "releasing" /\ j \in ptodo
    /\ pending' = IF JobReadyFor(j) /\ ~JobAlreadyRanThese(j) THEN EnqueueJob(j, pending) ELSE pending
    /\ ptodo' = ptodo \ {j}
    /\ UNCHANGED <<storeVars, published, paused, handling, ppc, pres, obs, queued>>

StartAdvance ==
    /\ ppc = "releasing" /\ ptodo = {}
    /\ ppc' = "advancing"
    /\ ptodo' = Observed
    /\ UNCHANGED <<storeVars, published, paused, pending, handling, pres, obs, queued>>

\* Mutant: the observed version is written back whatever came meanwhile.
AdvanceBlindly(r) ==
    /\ ppc = "advancing" /\ r \in ptodo
    /\ RecordCheckedVersion(r, obs[r].latest)
    /\ ptodo' = ptodo \ {r}
    /\ UNCHANGED <<hist, green, mark, published, paused, pending, handling, ppc, pres, obs,
                   queued>>

\* Only now, with every affected job queued, does the baseline move; a webhook
\* resource's only from what this poll read, and only if it was dirty.
Advance(r) ==
    /\ ppc = "advancing" /\ r \in ptodo
    /\ IF r \notin Webhooks THEN RecordCheckedVersion(r, obs[r].latest)
       ELSE IF obs[r].dirty THEN CompareAndSetCheckedVersion(r, obs[r].previous, obs[r].latest)
       ELSE UNCHANGED checked
    /\ ptodo' = ptodo \ {r}
    /\ UNCHANGED <<hist, green, mark, published, paused, pending, handling, ppc, pres, obs,
                   queued>>

EndPoll ==
    /\ ppc = "advancing" /\ ptodo = {}
    /\ ppc' = "idle" /\ queued' = {}
    /\ obs' = [r \in Resources |-> NoObs]
    /\ UNCHANGED <<storeVars, published, paused, pending, handling, ptodo, pres>>

-----------------------------------------------------------------------------
(* Webhook deliveries.                                                     *)

\* deliveryDispatch, once the delivery is verified and accepted: what it would
\* queue, or nothing yet under a pause.  A sender may send one twice.
Receive(r, v) ==
    /\ r \in Webhooks /\ \A d \in handling : <<d.r, d.v>> # <<r, v>>
    /\ handling' = handling \cup
          {[r |-> r, v |-> v, held |-> paused,
            jobs |-> IF paused THEN {} ELSE {j \in Jobs : r \in Triggers[j] /\ JobReadyFor(j)}]}
    /\ UNCHANGED <<storeVars, published, paused, pending, pollVars>>

\* Mutant: a delivery under a pause is recorded as checked all the same.
RecordHeldToo(d) ==
    /\ d \in handling
    /\ handling' = handling \ {d}
    /\ IF Fresh(hist[d.r], {d.v}) = {} THEN UNCHANGED <<hist, green, checked, pending>>
       ELSE /\ RecordVersions(d.r, {d.v})
            /\ RecordCheckedVersion(d.r, d.v)
            /\ pending' = FoldSet(EnqueueJob, pending, d.jobs)
    /\ UNCHANGED <<mark, published, paused, pollVars>>

\* RecordDelivery, one transaction: the version, and unless it is held the
\* checked version and the queue rows.  A duplicate adds nothing.
RecordDelivery(d) ==
    /\ d \in handling
    /\ handling' = handling \ {d}
    /\ IF Fresh(hist[d.r], {d.v}) = {} THEN UNCHANGED <<hist, green, checked, pending>>
       ELSE /\ RecordVersions(d.r, {d.v})
            /\ IF d.held THEN UNCHANGED <<checked, pending>>
               ELSE RecordCheckedVersion(d.r, d.v) /\ pending' = FoldSet(EnqueueJob, pending, d.jobs)
    /\ UNCHANGED <<mark, published, paused, pollVars>>

-----------------------------------------------------------------------------
PollCycle ==
    \/ StartPoll \/ RecordHistory \/ SeedColdStart \/ ReadDeliveries \/ AffectedJobs
    \/ StartRelease \/ StartAdvance \/ EndPoll
    \/ \E r \in Resources : CheckResource(r) \/ ReadChecked(r) \/ Advance(r)
    \/ \E j \in Jobs : EnqueueAffected(j) \/ ReleaseConstrained(j)

World ==
    \/ \E r \in Resources : CheckFails(r) \/ \E v \in Versions : Publish(r, v) \/ Receive(r, v)
    \/ \E p \in BOOLEAN : SetPaused(p)
    \/ \E j \in Jobs : Manual(j)

PollingNext == PollCycle \/ World \/ \E d \in handling : RecordDelivery(d)
=============================================================================
