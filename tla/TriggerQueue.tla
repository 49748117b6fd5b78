---------------------------- MODULE TriggerQueue ----------------------------
(***************************************************************************)
(* The state database one pipeline's builds are decided from: the          *)
(* trigger_queue and runs tables, the circuit breaker, the pause switches  *)
(* and the mirrored admission limits (internal/store/sqlite).  Every       *)
(* operator of this module is one store method, and one method is one      *)
(* statement or one transaction, hence one atomic step.                    *)
(*                                                                         *)
(* queue and runs are partial functions: a deleted row leaves the domain.  *)
(* Ids grow forever (AUTOINCREMENT; a run's id is minted when it starts),  *)
(* so nextRow and nextRun are never taken back, and the order of run ids   *)
(* is the order of their started_at.                                       *)
(*                                                                         *)
(* Timestamps.  The code compares two of them: a run's finished_at with    *)
(* its row's started_at, to tell a run that ended since its row was        *)
(* claimed from one an earlier restart closed.  A stamp is modelled by     *)
(* the incarnation of the daemon that wrote it (epoch); the recovery that  *)
(* opens incarnation e+1 still stamps e, as it runs before any claim of    *)
(* e+1.  A clock that steps back between two processes is not modelled.    *)
(***************************************************************************)
EXTENDS Naturals, FiniteSets

CONSTANTS
    Jobs,           \* the job names a row may carry
    Groups,         \* serial group names
    Configs,        \* the configurations the pipeline is ever set to
    JobsOf,         \* configuration -> the jobs it describes
    GroupsOf,       \* configuration -> job -> its serial groups
    InFlightOf,     \* configuration -> job -> its effective max_in_flight
    MaxFailuresOf,  \* configuration -> job -> max_consecutive_failures
    Switches,       \* the pauses there are: the pipeline's own, PauseAll's
    RunHistory,     \* run_history:, 0 for no limit
    QueueHistory,   \* finished queue rows kept per job, 0 for no limit
    MaxRows,        \* bound on the queue rows ever inserted
    MaxRuns,        \* bound on the runs ever started
    MaxEpoch        \* bound on the incarnations of the daemon

ASSUME ConfigAssumption ==
    /\ JobsOf \in [Configs -> SUBSET Jobs]
    /\ GroupsOf \in [Configs -> [Jobs -> SUBSET Groups]]
    /\ InFlightOf \in [Configs -> [Jobs -> Nat \ {0}]]
    /\ MaxFailuresOf \in [Configs -> [Jobs -> Nat]]

ASSUME BoundAssumption ==
    /\ MaxRows \in Nat /\ MaxRuns \in Nat /\ MaxEpoch \in Nat
    /\ RunHistory \in Nat /\ QueueHistory \in Nat

VARIABLES
    queue,    \* trigger_queue: row id -> row
    nextRow,  \* the id the next insert takes
    runs,     \* runs: run id -> run
    nextRun,  \* the id the next minted run takes
    breaker,  \* job_breaker: job -> consecutive failures, held
    paused,   \* the switches that are thrown
    mirror,   \* the configuration SyncJobLimits last mirrored
    epoch     \* the incarnation of the daemon: the stamp of its writes

storeVars == <<queue, nextRow, runs, nextRun, breaker, paused, mirror, epoch>>

RowIds == 1 .. MaxRows
RunIds == 1 .. MaxRuns
NoRun  == 0     \* a NULL rerun_of or run_id

Unfinished  == {"pending", "running"}
RunEnds     == {"succeeded", "failed", "aborted"}
QueueStatus == Unfinished \cup RunEnds \cup {"skipped"}
RunStatus   == {"running"} \cup RunEnds

Row == [job: Jobs, manual: BOOLEAN, rerunOf: RunIds \cup {NoRun},
        run: RunIds \cup {NoRun}, status: QueueStatus, started: 0 .. MaxEpoch]
Run == [job: Jobs, status: RunStatus, finished: 0 .. MaxEpoch]

StoreTypeOK ==
    /\ DOMAIN queue \subseteq RowIds /\ queue \in [DOMAIN queue -> Row]
    /\ nextRow \in 1 .. MaxRows + 1
    /\ DOMAIN runs \subseteq RunIds /\ runs \in [DOMAIN runs -> Run]
    /\ nextRun \in 1 .. MaxRuns + 1
    /\ breaker \in [Jobs -> [consecutive: Nat, held: BOOLEAN]]
    /\ paused \in SUBSET Switches
    /\ mirror \in Configs
    /\ epoch \in 0 .. MaxEpoch

StoreInit ==
    /\ queue = [i \in {} |-> {}] /\ nextRow = 1
    /\ runs = [r \in {} |-> {}] /\ nextRun = 1
    /\ breaker = [j \in Jobs |-> [consecutive |-> 0, held |-> FALSE]]
    /\ paused = {}
    /\ mirror \in Configs
    /\ epoch = 0

-----------------------------------------------------------------------------
(* The queue.                                                              *)

Pending == {i \in DOMAIN queue : queue[i].status = "pending"}
Running == {i \in DOMAIN queue : queue[i].status = "running"}

\* What the two partial unique indexes range over.
Unstarted(i)  == queue[i].status = "pending" /\ queue[i].run = NoRun
Ordinary(j)   == {i \in DOMAIN queue : Unstarted(i) /\ queue[i].rerunOf = NoRun
                                       /\ queue[i].job = j}
RerunRows(r)  == {i \in DOMAIN queue : Unstarted(i) /\ queue[i].rerunOf = r}

NewRow(j, manual, rerunOf) ==
    [job |-> j, manual |-> manual, rerunOf |-> rerunOf, run |-> NoRun,
     status |-> "pending", started |-> 0]

Insert(new) ==
    /\ nextRow \in RowIds
    /\ queue' = [i \in DOMAIN queue \cup {nextRow} |->
                    IF i = nextRow THEN new ELSE queue[i]]
    /\ nextRow' = nextRow + 1

\* An automatic trigger: ON CONFLICT DO NOTHING.
EnqueueJob(j) ==
    IF Ordinary(j) # {} THEN UNCHANGED <<queue, nextRow>>
                        ELSE Insert(NewRow(j, FALSE, NoRun))

\* A person's trigger: a pending row an automatic one left becomes manual.
EnqueueManualJob(j) ==
    IF Ordinary(j) # {}
    THEN /\ queue' = [i \in DOMAIN queue |->
                        IF i \in Ordinary(j) THEN [queue[i] EXCEPT !.manual = TRUE]
                                             ELSE queue[i]]
         /\ UNCHANGED nextRow
    ELSE Insert(NewRow(j, TRUE, NoRun))

\* A person's retry of a recorded run, a row of its own.
EnqueueRerunJob(j, r) ==
    IF RerunRows(r) # {} THEN UNCHANGED <<queue, nextRow>>
                         ELSE Insert(NewRow(j, TRUE, r))

\* A job the mirrored limits do not describe is admitted one at a time.
InFlightLimit(c, j) == IF j \in JobsOf[c] THEN InFlightOf[c][j] ELSE 1
SerialGroups(c, j)  == IF j \in JobsOf[c] THEN GroupsOf[c][j] ELSE {}

\* Mutant: the group clause is missing.
ClaimableInAnyGroup(i) ==
    /\ i \in Pending
    /\ Cardinality({k \in Running : queue[k].job = queue[i].job})
          < InFlightLimit(mirror, queue[i].job)

\* Mutant: the limit is compared with <=.
ClaimableOnePast(i) ==
    /\ i \in Pending
    /\ Cardinality({k \in Running : queue[k].job = queue[i].job})
          <= InFlightLimit(mirror, queue[i].job)
    /\ \A k \in Running : SerialGroups(mirror, queue[k].job)
                             \cap SerialGroups(mirror, queue[i].job) = {}

\* What the UPDATE's subselect admits: below the job's limit, and sharing no
\* serial group with anything running, its own job included.
Claimable(i) ==
    /\ i \in Pending
    /\ Cardinality({k \in Running : queue[k].job = queue[i].job})
          < InFlightLimit(mirror, queue[i].job)
    /\ \A k \in Running : SerialGroups(mirror, queue[k].job)
                             \cap SerialGroups(mirror, queue[i].job) = {}

\* The oldest claimable row goes to running, in the statement that chose it.
ClaimNextJob(i) ==
    /\ i \in DOMAIN queue
    /\ Claimable(i)
    /\ \A k \in DOMAIN queue : Claimable(k) => i <= k
    /\ queue' = [queue EXCEPT ![i] = [@ EXCEPT !.status = "running", !.started = epoch]]

\* By id and with no guard on the status: a row that is gone is no error.
CompleteJob(i, status) ==
    queue' = [k \in DOMAIN queue |->
                IF k = i THEN [queue[k] EXCEPT !.status = status] ELSE queue[k]]

\* Mutant: the row is not asked whether it is still waiting.
AbortClaimedToo(j) ==
    queue' = [i \in DOMAIN queue |->
                IF i \in Pending \cup Running /\ queue[i].job = j
                THEN [queue[i] EXCEPT !.status = "aborted"] ELSE queue[i]]

\* Every pending row of the job, its retries and its resumes too.
AbortQueuedJob(j) ==
    queue' = [i \in DOMAIN queue |->
                IF i \in Pending /\ queue[i].job = j
                THEN [queue[i] EXCEPT !.status = "aborted"] ELSE queue[i]]

-----------------------------------------------------------------------------
(* Runs.                                                                   *)

\* One transaction records the run and names it on the row that started it.
StartRun(j, row) ==
    /\ nextRun \in RunIds
    /\ runs' = [r \in DOMAIN runs \cup {nextRun} |->
                  IF r = nextRun
                  THEN [job |-> j, status |-> "running", finished |-> 0]
                  ELSE runs[r]]
    /\ nextRun' = nextRun + 1
    /\ queue' = [i \in DOMAIN queue |->
                   IF i = row THEN [queue[i] EXCEPT !.run = nextRun] ELSE queue[i]]

ResumeRun(r) ==
    runs' = [runs EXCEPT ![r] = [@ EXCEPT !.status = "running", !.finished = 0]]

\* Mutant: a failure is stored under a name the tables do not know.
FinishRunErrored(r, status) ==
    runs' = [k \in DOMAIN runs |->
               IF k = r THEN [runs[k] EXCEPT !.finished = epoch,
                                !.status = IF status = "failed" THEN "errored" ELSE status]
                        ELSE runs[k]]

\* By id: an id that names no run is no error.
FinishRun(r, status) ==
    runs' = [k \in DOMAIN runs |->
               IF k = r THEN [runs[k] EXCEPT !.status = status, !.finished = epoch]
                        ELSE runs[k]]

-----------------------------------------------------------------------------
(* Recovery at startup: one transaction of five statements, each reading   *)
(* what the ones before it left.                                           *)

\* Mutant: a row is asked nothing about its run.
EndedUnasked == {}

\* 1. The run's word is final for a row whose run ended since its claim.
EndedSinceClaim ==
    {i \in Running : /\ queue[i].run \in DOMAIN runs
                     /\ runs[queue[i].run].status # "running"
                     /\ runs[queue[i].run].finished >= queue[i].started}

SameWork(i, k) == queue[i].job = queue[k].job /\ queue[i].rerunOf = queue[k].rerunOf

\* Mutant: a build that had a run yields too.
SupersededWithRun ==
    {i \in Running : \E p \in Pending : SameWork(p, i) /\ queue[p].run = NoRun}

\* 2. A row that never got as far as a run yields to a pending one.
Superseded ==
    {i \in Running : /\ queue[i].run = NoRun
                     /\ \E p \in Pending : SameWork(p, i) /\ queue[p].run = NoRun}

\* Mutant: every stale row goes back to pending.
CollapsedNever == {}

\* 3. Those that are left collapse into the oldest of their kind.
Collapsed ==
    {i \in Running \ Superseded :
        /\ queue[i].run = NoRun
        /\ \E k \in Running \ Superseded :
              k < i /\ queue[k].run = NoRun /\ SameWork(k, i)}

\* 4. What still reads running waits again; 5. no run is in flight any more.
ResetStaleRunning ==
    /\ queue' = [i \in DOMAIN queue \ (Superseded \cup Collapsed) |->
                   IF i \in EndedSinceClaim
                   THEN [queue[i] EXCEPT !.status = runs[queue[i].run].status]
                   ELSE IF i \in Running
                   THEN [queue[i] EXCEPT !.status = "pending", !.started = 0]
                   ELSE queue[i]]
    /\ runs' = [r \in DOMAIN runs |->
                  IF runs[r].status = "running"
                  THEN [runs[r] EXCEPT !.status = "aborted", !.finished = epoch]
                  ELSE runs[r]]

-----------------------------------------------------------------------------
(* Retention, at the end of every build of a job: two transactions.        *)

\* The runs pruneRunRows deletes: finished, past the newest RunHistory of the
\* job, not the caller's own, and not one a pending row is to resume.
Reaped(j, keep) ==
    {r \in DOMAIN runs :
        /\ RunHistory > 0
        /\ runs[r].job = j
        /\ runs[r].status # "running"
        /\ r # keep
        /\ Cardinality({k \in DOMAIN runs : runs[k].job = j /\ k > r}) >= RunHistory
        /\ \A i \in Pending : queue[i].run # r}

\* Mutant: run_id has no ON DELETE clause.
PruneDangling(j, keep) ==
    LET gone == Reaped(j, keep)
        cascaded == {i \in DOMAIN queue : queue[i].rerunOf \in gone}
    IN  /\ runs' = [r \in DOMAIN runs \ gone |-> runs[r]]
        /\ queue' = [i \in DOMAIN queue \ cascaded |-> queue[i]]

\* Deleting a run cascades through the foreign keys: rerun_of deletes the row,
\* run_id is set to NULL.
PruneRuns(j, keep) ==
    LET gone == Reaped(j, keep)
        cascaded == {i \in DOMAIN queue : queue[i].rerunOf \in gone}
    IN  /\ runs' = [r \in DOMAIN runs \ gone |-> runs[r]]
        /\ queue' = [i \in DOMAIN queue \ cascaded |->
                       IF queue[i].run \in gone THEN [queue[i] EXCEPT !.run = NoRun]
                                                ELSE queue[i]]

\* The rows pruneTriggerQueue deletes: a job's finished rows past the newest
\* QueueHistory of them.
OldRows(j) ==
    LET done == {i \in DOMAIN queue : queue[i].job = j /\ queue[i].status \notin Unfinished}
    IN  {i \in done : /\ QueueHistory > 0
                      /\ Cardinality({k \in done : k > i}) >= QueueHistory}

PruneTriggerQueue(j) == queue' = [i \in DOMAIN queue \ OldRows(j) |-> queue[i]]

-----------------------------------------------------------------------------
(* The circuit breaker, the pauses and the admission limits.               *)

ResetJobFailures(j) ==
    breaker' = [breaker EXCEPT ![j] = [consecutive |-> 0, held |-> FALSE]]

\* The count and the hold land in one statement; 0 is no ceiling.
RecordJobOutcome(j, succeeded, max) ==
    IF succeeded
    THEN ResetJobFailures(j)
    ELSE breaker' = [breaker EXCEPT ![j] =
            [consecutive |-> @.consecutive + 1,
             held |-> @.held \/ (max > 0 /\ @.consecutive + 1 >= max)]]

IsJobHeld(j) == breaker[j].held

Pause(s)   == s \notin paused /\ paused' = paused \cup {s}
Unpause(s) == s \in paused /\ paused' = paused \ {s}
Paused     == paused # {}

SyncJobLimits(c) == mirror' = c

-----------------------------------------------------------------------------
(* What the schema promises of every state.                                *)

SameKey(i, k) ==
    /\ queue[i].rerunOf = queue[k].rerunOf
    /\ queue[i].rerunOf # NoRun \/ queue[i].job = queue[k].job

\* idx_trigger_queue_pending_job and idx_trigger_queue_pending_rerun
\* (schema.go:334-339): a job has at most one ordinary pending row, a retried
\* run at most one pending retry.  No statement above asks the index, so a
\* recovery, a prune or an upsert that would break it is a failed statement
\* in the code and a violation here.
PendingIndexes ==
    \A i, k \in DOMAIN queue :
        (Unstarted(i) /\ Unstarted(k) /\ SameKey(i, k)) => i = k

\* The foreign keys of trigger_queue: a row names no run that is gone.
ForeignKeys ==
    \A i \in DOMAIN queue : {queue[i].run, queue[i].rerunOf} \subseteq DOMAIN runs \cup {NoRun}
=============================================================================
