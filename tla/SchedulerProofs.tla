--------------------------- MODULE SchedulerProofs ---------------------------
(***************************************************************************)
(* Safety of the store's statements and of the drain, for any number of    *)
(* jobs, rows, workers and configurations.                                 *)
(*                                                                         *)
(* The statements keep their own schema: no insert, upsert, claim,         *)
(* recovery or prune, applied to tables that satisfy the partial unique    *)
(* indexes and the foreign keys, leaves tables that do not.  In the code   *)
(* such a statement would fail; here it cannot happen.                     *)
(*                                                                         *)
(* The inductive invariant Inv adds to the tables' own who holds what: a   *)
(* row leaves pending only through the claim of one worker, and only that  *)
(* worker closes it.                                                       *)
(***************************************************************************)
EXTENDS Scheduler, TLAPS

TablesTyped ==
    /\ DOMAIN queue \subseteq RowIds /\ queue \in [DOMAIN queue -> Row]
    /\ nextRow \in 1 .. MaxRows + 1
    /\ DOMAIN runs \subseteq RunIds /\ runs \in [DOMAIN runs -> Run]
    /\ nextRun \in 1 .. MaxRuns + 1

\* AUTOINCREMENT, and an id minted per run: an id in use was handed out before.
IdsHandedOut ==
    /\ \A i \in DOMAIN queue : i < nextRow
    /\ \A r \in DOMAIN runs : r < nextRun

\* A retry is a row of the retried run's own job.
RetriesOfTheirJob ==
    \A i \in DOMAIN queue :
        queue[i].rerunOf \in DOMAIN runs => runs[queue[i].rerunOf].job = queue[i].job

\* What every statement preserves.
TableInv == TablesTyped /\ IdsHandedOut /\ ForeignKeys /\ RetriesOfTheirJob /\ PendingIndexes

-----------------------------------------------------------------------------
(* Rows.                                                                   *)

\* NewRow makes a row (queue.go:27-71, the three INSERTs).
LEMMA NewRowType ==
    ASSUME NEW j \in Jobs, NEW m \in BOOLEAN, NEW r \in RunIds \cup {NoRun}
    PROVE  NewRow(j, m, r) \in Row
BY BoundAssumption DEF NewRow, Row, QueueStatus, Unfinished, RunIds, NoRun

\* Every column an UPDATE of queue.go assigns leaves a row, and leaves its job
\* and the run it retries alone.
LEMMA RowUpdates ==
    ASSUME NEW row \in Row
    PROVE  /\ [row EXCEPT !.manual = TRUE] \in Row
           /\ \A s \in QueueStatus : [row EXCEPT !.status = s] \in Row
           /\ \A r \in RunIds \cup {NoRun} : [row EXCEPT !.run = r] \in Row
           /\ \A s \in QueueStatus, e \in 0 .. MaxEpoch :
                 [row EXCEPT !.status = s, !.started = e] \in Row
<1>1. [row EXCEPT !.manual = TRUE] \in Row
  BY DEF Row
<1>2. \A s \in QueueStatus : [row EXCEPT !.status = s] \in Row
  BY DEF Row
<1>3. \A r \in RunIds \cup {NoRun} : [row EXCEPT !.run = r] \in Row
  BY DEF Row
<1>4. \A s \in QueueStatus, e \in 0 .. MaxEpoch :
         [row EXCEPT !.status = s, !.started = e] \in Row
  BY DEF Row
<1> QED
  BY <1>1, <1>2, <1>3, <1>4

\* Tables whose rows are old rows, of the same job and retry, none of them
\* opened anew, satisfy what the old ones did.
LEMMA NothingReopened ==
    ASSUME TableInv, TablesTyped',
           nextRow <= nextRow', nextRun <= nextRun',
           DOMAIN queue' \subseteq DOMAIN queue,
           \A i \in DOMAIN queue' :
              /\ queue'[i].job = queue[i].job
              /\ queue'[i].rerunOf = queue[i].rerunOf
              /\ queue'[i].rerunOf \in DOMAIN runs' \cup {NoRun}
              /\ queue'[i].run \in DOMAIN runs' \cup {NoRun}
              /\ Unstarted(i)' => Unstarted(i),
           \A r \in DOMAIN runs' :
              /\ r < nextRun'
              /\ r \in DOMAIN runs => runs'[r].job = runs[r].job
    PROVE  TableInv'
<1>1. IdsHandedOut'
  <2>1. \A i \in DOMAIN queue' : i \in Nat /\ i < nextRow /\ nextRow <= nextRow'
    BY BoundAssumption DEF TableInv, TablesTyped, IdsHandedOut, RowIds
  <2>2. nextRow \in Nat /\ nextRow' \in Nat
    BY BoundAssumption DEF TableInv, TablesTyped
  <2> QED
    BY <2>1, <2>2 DEF IdsHandedOut
<1>2. ForeignKeys'
  BY DEF ForeignKeys
<1>3. RetriesOfTheirJob'
  <2> SUFFICES ASSUME NEW i \in DOMAIN queue', queue'[i].rerunOf \in DOMAIN runs'
               PROVE  runs'[queue'[i].rerunOf].job = queue'[i].job
    BY DEF RetriesOfTheirJob
  <2>1. i \in DOMAIN queue /\ queue'[i].rerunOf = queue[i].rerunOf
    OBVIOUS
  <2>2. queue[i].rerunOf # NoRun
    BY <2>1, BoundAssumption DEF TablesTyped, RunIds, NoRun
  <2>3. queue[i].rerunOf \in DOMAIN runs
    BY <2>1, <2>2 DEF TableInv, ForeignKeys
  <2> QED
    BY <2>1, <2>3 DEF TableInv, RetriesOfTheirJob
<1>4. PendingIndexes'
  <2> SUFFICES ASSUME NEW i \in DOMAIN queue', NEW k \in DOMAIN queue',
                      Unstarted(i)', Unstarted(k)', SameKey(i, k)'
               PROVE  i = k
    BY DEF PendingIndexes
  <2>1. SameKey(i, k)
    BY DEF SameKey
  <2> QED
    BY <2>1 DEF TableInv, PendingIndexes
<1> QED
  BY <1>1, <1>2, <1>3, <1>4 DEF TableInv

\* A step that writes neither table.
LEMMA ReadOnlySafe ==
    ASSUME TableInv, UNCHANGED <<queue, nextRow, runs, nextRun>>
    PROVE  TableInv'
BY DEF TableInv, TablesTyped, IdsHandedOut, ForeignKeys, RetriesOfTheirJob, PendingIndexes,
       Unstarted, SameKey

-----------------------------------------------------------------------------
(* Enqueueing.                                                             *)

\* An insert whose key no pending row has (queue.go:27-71).
LEMMA InsertSafe ==
    ASSUME TableInv, NEW j \in Jobs, NEW m \in BOOLEAN, NEW r \in DOMAIN runs \cup {NoRun},
           Insert(NewRow(j, m, r)), UNCHANGED <<runs, nextRun>>,
           r \in DOMAIN runs => runs[r].job = j /\ RerunRows(r) = {},
           r = NoRun => Ordinary(j) = {}
    PROVE  TableInv'
<1> DEFINE new == NewRow(j, m, r)
<1>1. new \in Row
  BY NewRowType DEF TableInv, TablesTyped
<1>2. /\ nextRow \in RowIds /\ nextRow' = nextRow + 1
      /\ DOMAIN queue' = DOMAIN queue \cup {nextRow}
      /\ \A i \in DOMAIN queue' : queue'[i] = IF i = nextRow THEN new ELSE queue[i]
  BY DEF Insert
<1>3. nextRow \notin DOMAIN queue
  BY <1>2, BoundAssumption DEF TableInv, IdsHandedOut, RowIds
<1>4. TablesTyped'
  <2>1. queue' \in [DOMAIN queue' -> Row]
    BY <1>1, <1>2 DEF Insert, TableInv, TablesTyped
  <2> QED
    BY <1>2, <2>1, BoundAssumption DEF TableInv, TablesTyped, RowIds
<1>5. IdsHandedOut'
  BY <1>2, BoundAssumption DEF TableInv, TablesTyped, IdsHandedOut, RowIds
<1>6. new.job = j /\ new.rerunOf = r /\ new.run = NoRun /\ new.status = "pending"
  BY DEF NewRow
<1> HIDE DEF new
<1>7. ForeignKeys'
  BY <1>2, <1>6 DEF TableInv, ForeignKeys
<1>8. RetriesOfTheirJob'
  BY <1>2, <1>6 DEF TableInv, RetriesOfTheirJob
<1>9. PendingIndexes'
  <2>1. \A i \in DOMAIN queue : Unstarted(i) =>
           ~(/\ queue[i].rerunOf = r
             /\ r # NoRun \/ queue[i].job = j)
    BY DEF RerunRows, Ordinary
  <2>2. \A i \in DOMAIN queue : i # nextRow /\ queue'[i] = queue[i]
    BY <1>2, <1>3
  <2> SUFFICES ASSUME NEW i \in DOMAIN queue', NEW k \in DOMAIN queue', i # k,
                      Unstarted(i)', Unstarted(k)', SameKey(i, k)'
               PROVE  FALSE
    BY DEF PendingIndexes
  <2>3. CASE i = nextRow
    BY <1>2, <1>6, <2>1, <2>2, <2>3 DEF SameKey, Unstarted
  <2>4. CASE k = nextRow
    BY <1>2, <1>6, <2>1, <2>2, <2>4 DEF SameKey, Unstarted
  <2>5. CASE i # nextRow /\ k # nextRow
    BY <1>2, <2>2, <2>5 DEF SameKey, Unstarted, TableInv, PendingIndexes
  <2> QED
    BY <2>3, <2>4, <2>5
<1> QED
  BY <1>4, <1>5, <1>7, <1>8, <1>9 DEF TableInv

\* queue.go:27-42.
LEMMA EnqueueJobSafe ==
    ASSUME TableInv, NEW j \in Jobs, EnqueueJob(j), UNCHANGED <<runs, nextRun>>
    PROVE  TableInv'
<1>0. NoRun \notin DOMAIN runs
  BY BoundAssumption DEF TableInv, TablesTyped, RunIds, NoRun
<1>1. CASE Ordinary(j) # {}
  <2>1. UNCHANGED <<queue, nextRow, runs, nextRun>>
    BY <1>1 DEF EnqueueJob
  <2> QED
    BY <2>1, ReadOnlySafe
<1>2. CASE Ordinary(j) = {}
  BY <1>0, <1>2, InsertSafe DEF EnqueueJob
<1> QED
  BY <1>1, <1>2

\* queue.go:45-57.
LEMMA EnqueueManualJobSafe ==
    ASSUME TableInv, NEW j \in Jobs, EnqueueManualJob(j), UNCHANGED <<runs, nextRun>>
    PROVE  TableInv'
<1>0. NoRun \notin DOMAIN runs
  BY BoundAssumption DEF TableInv, TablesTyped, RunIds, NoRun
<1>1. CASE Ordinary(j) # {}
  <2> DEFINE marked(i) == [queue[i] EXCEPT !.manual = TRUE]
  <2>1. \A i \in DOMAIN queue :
           /\ queue[i] \in Row /\ marked(i) \in Row
           /\ marked(i).job = queue[i].job /\ marked(i).rerunOf = queue[i].rerunOf
           /\ marked(i).run = queue[i].run /\ marked(i).status = queue[i].status
    <3> TAKE i \in DOMAIN queue
    <3>1. queue[i] \in Row
      BY DEF TableInv, TablesTyped
    <3>2. marked(i) \in Row
      BY <3>1, RowUpdates
    <3> QED
      BY <3>1, <3>2 DEF Row
  <2>2. /\ queue' = [i \in DOMAIN queue |-> IF i \in Ordinary(j) THEN marked(i) ELSE queue[i]]
        /\ nextRow' = nextRow
    BY <1>1, Zenon DEF EnqueueManualJob
  <2> HIDE DEF marked
  <2>3. DOMAIN queue' = DOMAIN queue /\ queue' \in [DOMAIN queue' -> Row]
    BY <2>1, <2>2
  <2>4. TablesTyped'
    BY <2>2, <2>3 DEF TableInv, TablesTyped
  <2>5. \A i \in DOMAIN queue :
           /\ queue'[i].job = queue[i].job /\ queue'[i].rerunOf = queue[i].rerunOf
           /\ queue'[i].run = queue[i].run /\ queue'[i].status = queue[i].status
    BY <2>1, <2>2
  <2>6. nextRow <= nextRow' /\ nextRun <= nextRun'
    BY <2>2, BoundAssumption DEF TableInv, TablesTyped
  <2> QED
    BY <2>3, <2>4, <2>5, <2>6, NothingReopened DEF Unstarted, TableInv, ForeignKeys, IdsHandedOut
<1>2. CASE Ordinary(j) = {}
  BY <1>0, <1>2, InsertSafe DEF EnqueueManualJob
<1> QED
  BY <1>1, <1>2

\* queue.go:60-71.
LEMMA EnqueueRerunJobSafe ==
    ASSUME TableInv, NEW r \in DOMAIN runs, EnqueueRerunJob(runs[r].job, r),
           UNCHANGED <<runs, nextRun>>
    PROVE  TableInv'
<1>0. r # NoRun /\ runs[r].job \in Jobs
  BY BoundAssumption DEF TableInv, TablesTyped, RunIds, NoRun, Run
<1>1. CASE RerunRows(r) # {}
  <2>1. UNCHANGED <<queue, nextRow, runs, nextRun>>
    BY <1>1 DEF EnqueueRerunJob
  <2> QED
    BY <2>1, ReadOnlySafe
<1>2. CASE RerunRows(r) = {}
  BY <1>0, <1>2, InsertSafe DEF EnqueueRerunJob
<1> QED
  BY <1>1, <1>2

\* What an enqueue does to the rows there were: nothing a drain can see.
LEMMA EnqueueEffect ==
    ASSUME TableInv, NEW j, NEW r,
           EnqueueJob(j) \/ EnqueueManualJob(j) \/ EnqueueRerunJob(j, r)
    PROVE  /\ nextRow \in Nat /\ nextRow' \in Nat /\ nextRow <= nextRow'
           /\ DOMAIN queue \subseteq DOMAIN queue'
           /\ \A i \in DOMAIN queue' :
                 \/ i = nextRow /\ queue'[i].status = "pending"
                 \/ /\ i \in DOMAIN queue
                    /\ queue'[i].job = queue[i].job
                    /\ queue'[i].status = queue[i].status
<1>1. nextRow \in Nat
  BY BoundAssumption DEF TableInv, TablesTyped
<1>2. \A i \in DOMAIN queue : queue[i] \in Row
  BY DEF TableInv, TablesTyped
<1>3. CASE UNCHANGED <<queue, nextRow>>
  BY <1>1, <1>3
<1>4. ASSUME NEW m, NEW o, Insert(NewRow(j, m, o))
      PROVE  /\ nextRow' = nextRow + 1
             /\ DOMAIN queue' = DOMAIN queue \cup {nextRow}
             /\ \A i \in DOMAIN queue' :
                   queue'[i] = IF i = nextRow THEN NewRow(j, m, o) ELSE queue[i]
             /\ NewRow(j, m, o).status = "pending"
  BY <1>4 DEF Insert, NewRow
<1>5. CASE \E m, o : Insert(NewRow(j, m, o))
  <2>1. PICK m, o : Insert(NewRow(j, m, o))
    BY <1>5
  <2> QED
    BY <1>1, <1>4, <2>1
<1>6. CASE Ordinary(j) # {} /\ EnqueueManualJob(j)
  <2> DEFINE marked(i) == [queue[i] EXCEPT !.manual = TRUE]
  <2>1. \A i \in DOMAIN queue : marked(i).job = queue[i].job /\ marked(i).status = queue[i].status
    BY <1>2 DEF Row
  <2>2. /\ queue' = [i \in DOMAIN queue |-> IF i \in Ordinary(j) THEN marked(i) ELSE queue[i]]
        /\ nextRow' = nextRow
    BY <1>6, Zenon DEF EnqueueManualJob
  <2> HIDE DEF marked
  <2> QED
    BY <1>1, <2>1, <2>2
<1> QED
  BY <1>3, <1>5, <1>6 DEF EnqueueJob, EnqueueManualJob, EnqueueRerunJob

-----------------------------------------------------------------------------
(* Claiming and closing.                                                   *)

\* Rows rewritten in place, none of them to pending.
LEMMA ClosedSafe ==
    ASSUME TableInv, TablesTyped', UNCHANGED <<nextRow, nextRun>>,
           DOMAIN queue' \subseteq DOMAIN queue, DOMAIN runs' = DOMAIN runs,
           \A i \in DOMAIN queue' :
              /\ queue'[i].job = queue[i].job
              /\ queue'[i].rerunOf = queue[i].rerunOf
              /\ queue'[i].run = queue[i].run
              /\ queue'[i].status = "pending" => queue[i].status = "pending",
           \A r \in DOMAIN runs : runs'[r].job = runs[r].job
    PROVE  TableInv'
<1>1. nextRow <= nextRow' /\ nextRun <= nextRun'
  BY BoundAssumption DEF TableInv, TablesTyped
<1>2. \A i \in DOMAIN queue' : Unstarted(i)' => Unstarted(i)
  BY DEF Unstarted
<1> QED
  BY <1>1, <1>2, NothingReopened DEF TableInv, ForeignKeys, IdsHandedOut

\* queue.go:90-153.
LEMMA ClaimNextJobSafe ==
    ASSUME TableInv, NEW i, ClaimNextJob(i), epoch \in 0 .. MaxEpoch,
           UNCHANGED <<nextRow, runs, nextRun>>
    PROVE  TableInv'
<1> DEFINE taken == [queue[i] EXCEPT !.status = "running", !.started = epoch]
<1>1. i \in DOMAIN queue /\ queue[i] \in Row
  BY DEF ClaimNextJob, TableInv, TablesTyped
<1>2. taken \in Row
  BY <1>1, RowUpdates DEF QueueStatus, Unfinished
<1>3. taken.job = queue[i].job /\ taken.rerunOf = queue[i].rerunOf
      /\ taken.run = queue[i].run /\ taken.status = "running"
  BY <1>1 DEF Row
<1>4. queue' = [queue EXCEPT ![i] = taken]
  BY DEF ClaimNextJob
<1> HIDE DEF taken
<1>5. TablesTyped'
  BY <1>2, <1>4 DEF TableInv, TablesTyped
<1> QED
  BY <1>3, <1>4, <1>5, ClosedSafe DEF TableInv, TablesTyped

\* Any set of rows moved to a status other than pending.
LEMMA StatusSafe ==
    ASSUME TableInv, NEW S, NEW s \in QueueStatus \ {"pending"},
           queue' = [k \in DOMAIN queue |->
                       IF k \in S THEN [queue[k] EXCEPT !.status = s] ELSE queue[k]],
           UNCHANGED <<nextRow, runs, nextRun>>
    PROVE  TableInv'
<1> DEFINE moved(k) == [queue[k] EXCEPT !.status = s]
<1>1. \A k \in DOMAIN queue :
         /\ queue[k] \in Row /\ moved(k) \in Row
         /\ moved(k).job = queue[k].job /\ moved(k).rerunOf = queue[k].rerunOf
         /\ moved(k).run = queue[k].run /\ moved(k).status = s
  <2> TAKE k \in DOMAIN queue
  <2>1. queue[k] \in Row
    BY DEF TableInv, TablesTyped
  <2>2. moved(k) \in Row
    BY <2>1, RowUpdates
  <2> QED
    BY <2>1, <2>2 DEF Row
<1>2. queue' = [k \in DOMAIN queue |-> IF k \in S THEN moved(k) ELSE queue[k]]
  OBVIOUS
<1> HIDE DEF moved
<1>3. TablesTyped'
  BY <1>1, <1>2 DEF TableInv, TablesTyped
<1> QED
  BY <1>1, <1>2, <1>3, ClosedSafe

\* queue.go:160-171.
LEMMA CompleteJobSafe ==
    ASSUME TableInv, NEW i, NEW s \in QueueStatus \ {"pending"}, CompleteJob(i, s),
           UNCHANGED <<nextRow, runs, nextRun>>
    PROVE  TableInv'
<1>1. queue' = [k \in DOMAIN queue |->
                  IF k \in {i} THEN [queue[k] EXCEPT !.status = s] ELSE queue[k]]
  BY DEF CompleteJob
<1> QED
  BY <1>1, StatusSafe

\* queue.go:174-189.
LEMMA AbortQueuedJobSafe ==
    ASSUME TableInv, NEW j, AbortQueuedJob(j), UNCHANGED <<nextRow, runs, nextRun>>
    PROVE  TableInv'
<1> DEFINE S == {i \in Pending : queue[i].job = j}
<1>1. queue' = [i \in DOMAIN queue |->
                  IF i \in S THEN [queue[i] EXCEPT !.status = "aborted"] ELSE queue[i]]
  BY DEF AbortQueuedJob
<1>2. "aborted" \in QueueStatus \ {"pending"}
  BY DEF QueueStatus, RunEnds
<1> HIDE DEF S
<1> QED
  BY <1>1, <1>2, StatusSafe

-----------------------------------------------------------------------------
(* Runs.                                                                   *)

\* runs.go:72-118.
LEMMA StartRunSafe ==
    ASSUME TableInv, NEW j \in Jobs, NEW row, StartRun(j, row), UNCHANGED nextRow
    PROVE  TableInv'
<1> DEFINE named(i) == [queue[i] EXCEPT !.run = nextRun]
           fresh == [job |-> j, status |-> "running", finished |-> 0]
<1>1. nextRun \in RunIds /\ nextRun' = nextRun + 1 /\ nextRun # NoRun
  BY BoundAssumption DEF StartRun, RunIds, NoRun
<1>2. \A i \in DOMAIN queue :
         /\ queue[i] \in Row /\ named(i) \in Row
         /\ named(i).job = queue[i].job /\ named(i).rerunOf = queue[i].rerunOf
         /\ named(i).run = nextRun /\ named(i).status = queue[i].status
  <2> TAKE i \in DOMAIN queue
  <2>1. queue[i] \in Row
    BY DEF TableInv, TablesTyped
  <2>2. named(i) \in Row
    BY <1>1, <2>1, RowUpdates
  <2> QED
    BY <2>1, <2>2 DEF Row
<1>3. fresh \in Run
  BY BoundAssumption DEF Run, RunStatus
<1>4. queue' = [i \in DOMAIN queue |-> IF i = row THEN named(i) ELSE queue[i]]
  BY DEF StartRun
<1>5. /\ DOMAIN runs' = DOMAIN runs \cup {nextRun}
      /\ runs' = [r \in DOMAIN runs \cup {nextRun} |-> IF r = nextRun THEN fresh ELSE runs[r]]
  BY DEF StartRun
<1> HIDE DEF named, fresh
<1>6. TablesTyped'
  <2>1. queue' \in [DOMAIN queue' -> Row] /\ DOMAIN queue' = DOMAIN queue
    BY <1>2, <1>4
  <2>2. runs' \in [DOMAIN runs' -> Run]
    BY <1>3, <1>5 DEF TableInv, TablesTyped
  <2>3. nextRun' \in 1 .. MaxRuns + 1
    BY <1>1, BoundAssumption DEF RunIds
  <2> QED
    BY <1>1, <1>5, <2>1, <2>2, <2>3 DEF TableInv, TablesTyped
<1>7. \A r \in DOMAIN runs : r < nextRun /\ r \in Nat /\ nextRun \in Nat
  BY <1>1, BoundAssumption DEF TableInv, TablesTyped, IdsHandedOut, RunIds
<1>8. \A r \in DOMAIN runs' : r < nextRun' /\ (r \in DOMAIN runs => runs'[r].job = runs[r].job)
  BY <1>1, <1>5, <1>7, BoundAssumption DEF RunIds
<1>9. nextRow <= nextRow' /\ nextRun <= nextRun'
  BY <1>1, BoundAssumption DEF TableInv, TablesTyped, RunIds
<1>10. \A i \in DOMAIN queue' :
         /\ queue'[i].job = queue[i].job /\ queue'[i].rerunOf = queue[i].rerunOf
         /\ queue'[i].rerunOf \in DOMAIN runs' \cup {NoRun}
         /\ queue'[i].run \in DOMAIN runs' \cup {NoRun}
         /\ Unstarted(i)' => Unstarted(i)
  BY <1>1, <1>2, <1>4, <1>5 DEF TableInv, ForeignKeys, Unstarted
<1> QED
  BY <1>4, <1>6, <1>8, <1>9, <1>10, NothingReopened

\* An update of one run's columns, by id.
LEMMA RunUpdateSafe ==
    ASSUME TableInv, NEW S, NEW s \in RunStatus, NEW e \in 0 .. MaxEpoch,
           runs' = [k \in DOMAIN runs |->
                      IF k \in S THEN [runs[k] EXCEPT !.status = s, !.finished = e] ELSE runs[k]],
           UNCHANGED <<queue, nextRow, nextRun>>
    PROVE  TableInv'
<1> DEFINE updated(k) == [runs[k] EXCEPT !.status = s, !.finished = e]
<1>1. \A k \in DOMAIN runs : /\ runs[k] \in Run /\ updated(k) \in Run
                              /\ updated(k).job = runs[k].job
  BY DEF TableInv, TablesTyped, Run
<1>2. runs' = [k \in DOMAIN runs |-> IF k \in S THEN updated(k) ELSE runs[k]]
  OBVIOUS
<1> HIDE DEF updated
<1>3. TablesTyped'
  BY <1>1, <1>2 DEF TableInv, TablesTyped
<1> QED
  BY <1>1, <1>2, <1>3, ClosedSafe

\* runs.go:144-164.
LEMMA ResumeRunSafe ==
    ASSUME TableInv, NEW r \in DOMAIN runs, ResumeRun(r), UNCHANGED <<queue, nextRow, nextRun>>
    PROVE  TableInv'
<1>1. runs' = [k \in DOMAIN runs |->
                 IF k \in {r} THEN [runs[k] EXCEPT !.status = "running", !.finished = 0]
                              ELSE runs[k]]
  BY DEF ResumeRun
<1>2. "running" \in RunStatus /\ 0 \in 0 .. MaxEpoch
  BY BoundAssumption DEF RunStatus
<1> QED
  BY <1>1, <1>2, RunUpdateSafe

\* runs.go:177-186.
LEMMA FinishRunSafe ==
    ASSUME TableInv, NEW r, NEW s \in RunEnds, FinishRun(r, s), epoch \in 0 .. MaxEpoch,
           UNCHANGED <<queue, nextRow, nextRun>>
    PROVE  TableInv'
<1>1. runs' = [k \in DOMAIN runs |->
                 IF k \in {r} THEN [runs[k] EXCEPT !.status = s, !.finished = epoch]
                              ELSE runs[k]]
  BY DEF FinishRun
<1> QED
  BY <1>1, RunUpdateSafe DEF RunStatus

-----------------------------------------------------------------------------
(* Recovery and retention.                                                 *)

\* queue.go:221-305: what goes back to pending has a key of its own, because
\* its rivals were superseded, collapsed, or are builds to resume.
LEMMA ResetStaleRunningSafe ==
    ASSUME TableInv, ResetStaleRunning, epoch \in 0 .. MaxEpoch,
           UNCHANGED <<nextRow, nextRun>>
    PROVE  TableInv'
<1> DEFINE dropped == Superseded \cup Collapsed
           settled(i) == [queue[i] EXCEPT !.status = runs[queue[i].run].status]
           requeued(i) == [queue[i] EXCEPT !.status = "pending", !.started = 0]
           closed(r) == [runs[r] EXCEPT !.status = "aborted", !.finished = epoch]
<1>1. \A i \in DOMAIN queue :
         /\ queue[i] \in Row /\ requeued(i) \in Row
         /\ requeued(i).job = queue[i].job /\ requeued(i).rerunOf = queue[i].rerunOf
         /\ requeued(i).run = queue[i].run /\ requeued(i).status = "pending"
  <2> TAKE i \in DOMAIN queue
  <2>1. queue[i] \in Row
    BY DEF TableInv, TablesTyped
  <2>0. "pending" \in QueueStatus /\ 0 \in 0 .. MaxEpoch
    BY BoundAssumption DEF QueueStatus, Unfinished
  <2>2. requeued(i) \in Row
    BY <2>0, <2>1, RowUpdates
  <2> QED
    BY <2>1, <2>2 DEF Row
<1>2. \A i \in EndedSinceClaim :
         /\ queue[i].run \in DOMAIN runs /\ i \in Running /\ settled(i) \in Row
         /\ settled(i).job = queue[i].job /\ settled(i).rerunOf = queue[i].rerunOf
         /\ settled(i).run = queue[i].run /\ settled(i).status # "pending"
  <2> TAKE i \in EndedSinceClaim
  <2>1. queue[i] \in Row /\ queue[i].run \in DOMAIN runs /\ i \in Running
    BY DEF TableInv, TablesTyped, EndedSinceClaim, Running
  <2>2. runs[queue[i].run].status \in RunEnds
    BY <2>1 DEF TableInv, TablesTyped, EndedSinceClaim, Run, RunStatus
  <2>3. settled(i) \in Row
    BY <2>1, <2>2, RowUpdates DEF QueueStatus
  <2> QED
    BY <2>1, <2>2, <2>3 DEF Row, RunEnds
<1>3. \A r \in DOMAIN runs : runs[r] \in Run /\ closed(r) \in Run /\ closed(r).job = runs[r].job
  BY DEF TableInv, TablesTyped, Run, RunStatus, RunEnds
<1>4. queue' = [i \in DOMAIN queue \ dropped |->
                  IF i \in EndedSinceClaim THEN settled(i)
                  ELSE IF i \in Running THEN requeued(i) ELSE queue[i]]
  BY DEF ResetStaleRunning
<1>5. runs' = [r \in DOMAIN runs |-> IF runs[r].status = "running" THEN closed(r) ELSE runs[r]]
  BY DEF ResetStaleRunning
<1> HIDE DEF settled, requeued, closed, dropped
<1>6. TablesTyped'
  <2>1. DOMAIN queue' \subseteq DOMAIN queue /\ queue' \in [DOMAIN queue' -> Row]
    BY <1>1, <1>2, <1>4
  <2>2. DOMAIN runs' = DOMAIN runs /\ runs' \in [DOMAIN runs' -> Run]
    BY <1>3, <1>5
  <2> QED
    BY <2>1, <2>2 DEF TableInv, TablesTyped
<1>7. \A i \in DOMAIN queue' :
         /\ i \in DOMAIN queue /\ i \notin dropped
         /\ queue'[i].job = queue[i].job /\ queue'[i].rerunOf = queue[i].rerunOf
         /\ queue'[i].run = queue[i].run
         /\ queue'[i].status = "pending" => i \in Pending \cup Running
  BY <1>1, <1>2, <1>4 DEF Pending
<1>8. DOMAIN runs' = DOMAIN runs /\ \A r \in DOMAIN runs : runs'[r].job = runs[r].job
  BY <1>3, <1>5
<1>9. IdsHandedOut'
  BY <1>7, <1>8 DEF TableInv, IdsHandedOut
<1>10. ForeignKeys'
  BY <1>7, <1>8 DEF TableInv, ForeignKeys
<1>11. RetriesOfTheirJob'
  BY <1>7, <1>8 DEF TableInv, RetriesOfTheirJob
<1>12. PendingIndexes'
  <2> SUFFICES ASSUME NEW i \in DOMAIN queue', NEW k \in DOMAIN queue', i # k,
                      Unstarted(i)', Unstarted(k)', SameKey(i, k)'
               PROVE  FALSE
    BY DEF PendingIndexes
  <2>1. /\ i \in DOMAIN queue \ dropped /\ queue[i].run = NoRun /\ i \in Pending \cup Running
        /\ k \in DOMAIN queue \ dropped /\ queue[k].run = NoRun /\ k \in Pending \cup Running
    BY <1>7 DEF Unstarted
  <2>2. SameKey(i, k)
    BY <1>7 DEF SameKey
  <2>3. SameWork(i, k) /\ SameWork(k, i)
    <3>1. CASE queue[i].rerunOf = NoRun
      BY <2>2, <3>1 DEF SameKey, SameWork
    <3>2. CASE queue[i].rerunOf # NoRun
      BY <2>1, <2>2, <3>2 DEF SameKey, SameWork, TableInv, ForeignKeys, RetriesOfTheirJob
    <3> QED
      BY <3>1, <3>2
  <2>4. CASE i \in Pending /\ k \in Pending
    BY <2>1, <2>2, <2>4 DEF TableInv, PendingIndexes, Unstarted, Pending
  <2>5. CASE i \in Pending /\ k \in Running
    BY <2>1, <2>3, <2>5 DEF dropped, Superseded
  <2>6. CASE i \in Running /\ k \in Pending
    BY <2>1, <2>3, <2>6 DEF dropped, Superseded
  <2>7. CASE i \in Running /\ k \in Running
    <3>1. i \in Nat /\ k \in Nat
      BY <2>1, BoundAssumption DEF TableInv, TablesTyped, RowIds
    <3>2. i < k \/ k < i
      BY <3>1
    <3> QED
      BY <2>1, <2>3, <2>7, <3>2 DEF dropped, Collapsed
  <2> QED
    BY <2>1, <2>4, <2>5, <2>6, <2>7
<1> QED
  BY <1>6, <1>9, <1>10, <1>11, <1>12 DEF TableInv

\* retention.go:77-123 and 186-215: a pending row's run is never reaped, so the
\* SET NULL of run_id opens no row anew.
LEMMA PruneRunsSafe ==
    ASSUME TableInv, NEW j, NEW keep, PruneRuns(j, keep), UNCHANGED <<nextRow, nextRun>>
    PROVE  TableInv'
<1> DEFINE gone == Reaped(j, keep)
           cascaded == {i \in DOMAIN queue : queue[i].rerunOf \in gone}
           unnamed(i) == [queue[i] EXCEPT !.run = NoRun]
<1>1. \A i \in DOMAIN queue :
         /\ queue[i] \in Row /\ unnamed(i) \in Row
         /\ unnamed(i).job = queue[i].job /\ unnamed(i).rerunOf = queue[i].rerunOf
         /\ unnamed(i).run = NoRun /\ unnamed(i).status = queue[i].status
  <2> TAKE i \in DOMAIN queue
  <2>1. queue[i] \in Row
    BY DEF TableInv, TablesTyped
  <2>2. unnamed(i) \in Row
    BY <2>1, RowUpdates
  <2> QED
    BY <2>1, <2>2 DEF Row
<1>2. runs' = [r \in DOMAIN runs \ gone |-> runs[r]]
  BY DEF PruneRuns
<1>3. queue' = [i \in DOMAIN queue \ cascaded |->
                  IF queue[i].run \in gone THEN unnamed(i) ELSE queue[i]]
  BY DEF PruneRuns
<1>4. \A i \in Pending : queue[i].run \notin gone
  BY DEF Reaped
<1> HIDE DEF gone, unnamed
<1>5. TablesTyped'
  <2>1. DOMAIN queue' \subseteq DOMAIN queue /\ queue' \in [DOMAIN queue' -> Row]
    BY <1>1, <1>3
  <2>2. DOMAIN runs' \subseteq DOMAIN runs /\ runs' \in [DOMAIN runs' -> Run]
    BY <1>2 DEF TableInv, TablesTyped
  <2> QED
    BY <2>1, <2>2 DEF TableInv, TablesTyped
<1>6. \A i \in DOMAIN queue' :
         /\ i \in DOMAIN queue
         /\ queue'[i].job = queue[i].job /\ queue'[i].rerunOf = queue[i].rerunOf
         /\ queue'[i].rerunOf \in DOMAIN runs' \cup {NoRun}
         /\ queue'[i].run \in DOMAIN runs' \cup {NoRun}
         /\ Unstarted(i)' => Unstarted(i)
  BY <1>1, <1>2, <1>3, <1>4 DEF TableInv, ForeignKeys, Unstarted, Pending
<1>7. \A r \in DOMAIN runs' : r < nextRun' /\ (r \in DOMAIN runs => runs'[r].job = runs[r].job)
  BY <1>2 DEF TableInv, IdsHandedOut
<1>8. nextRow <= nextRow' /\ nextRun <= nextRun'
  BY BoundAssumption DEF TableInv, TablesTyped
<1> QED
  BY <1>3, <1>5, <1>6, <1>7, <1>8, NothingReopened

\* retention.go:383-404.
LEMMA PruneTriggerQueueSafe ==
    ASSUME TableInv, NEW j, PruneTriggerQueue(j), UNCHANGED <<nextRow, runs, nextRun>>
    PROVE  TableInv'
<1>1. queue' = [i \in DOMAIN queue \ OldRows(j) |-> queue[i]]
  BY DEF PruneTriggerQueue
<1>2. DOMAIN queue' \subseteq DOMAIN queue /\ queue' \in [DOMAIN queue' -> Row]
  BY <1>1 DEF TableInv, TablesTyped
<1>3. TablesTyped'
  BY <1>2 DEF TableInv, TablesTyped
<1> QED
  BY <1>1, <1>2, <1>3, ClosedSafe

\* An empty database satisfies the schema.
LEMMA EmptyTables ==
    ASSUME StoreInit
    PROVE  TableInv
BY BoundAssumption DEF StoreInit, TableInv, TablesTyped, IdsHandedOut, ForeignKeys,
       RetriesOfTheirJob, PendingIndexes

-----------------------------------------------------------------------------
(* The drain.                                                              *)

OthersTyped ==
    /\ breaker \in [Jobs -> [consecutive: Nat, held: BOOLEAN]]
    /\ paused \in SUBSET Switches
    /\ mirror \in Configs
    /\ epoch \in 0 .. MaxEpoch
    /\ mode \in {"down", "serving", "stopping"}
    /\ served \in Configs
    /\ forced \in SUBSET Jobs /\ marking \in SUBSET Jobs /\ dropping \in SUBSET Jobs
    /\ pc \in [Workers -> Places]
    /\ claim \in [Workers -> Claims \cup {NoClaim}]
    /\ force \in [Workers -> BOOLEAN]
    /\ ceiling \in [Workers -> Nat]
    /\ run \in [Workers -> RunIds \cup {NoRun}]
    /\ cause \in [Workers -> {"none", "abort", "drain"}]
    /\ err \in [Workers -> {"none", "failure", "panic", "canceled"}]
    /\ built \in SUBSET RowIds

\* A worker that holds a row, and one that has just closed it, know which.
Holding == Owning \cup {"recording"}

Knows(w) == claim[w] \in Claims /\ claim[w].id < nextRow

\* The row a worker holds is running, for the job the claim says.
Has(w) == /\ queue[claim[w].id].status = "running"
          /\ queue[claim[w].id].job = claim[w].job

\* Retention that reaps no run, and a configuration that stays.
NothingReaped == RunHistory = 0
OneConfig == \A c, d \in Configs : c = d

Ownership ==
    /\ mode = "down" => \A w \in Workers : pc[w] = "off"
    /\ \A w \in Workers : pc[w] \in Holding => Knows(w)
    /\ \A w \in Workers : pc[w] \in Owning /\ claim[w].id \in DOMAIN queue => Has(w)
    /\ NothingReaped => \A w \in Workers : pc[w] \in Owning => claim[w].id \in DOMAIN queue
    /\ \A v, w \in Workers :
          pc[v] \in Owning /\ pc[w] \in Owning /\ claim[v].id = claim[w].id => v = w
    /\ mode = "serving" => \A i \in Running : \E w \in Workers : Owns(w, i)

\* Two rows held at once are of jobs that share no serial group.
GroupsApart ==
    NothingReaped /\ OneConfig =>
        \A v, w \in Workers :
            pc[v] \in Owning /\ pc[w] \in Owning /\ v # w =>
                SerialGroups(served, claim[v].job) \cap SerialGroups(served, claim[w].job) = {}

Inv == TableInv /\ OthersTyped /\ Ownership /\ GroupsApart

-----------------------------------------------------------------------------
\* A step that claims nothing: what is held afterwards was held before, its
\* row is still there if it was, and no row reads running that did not.
LEMMA HoldersKept ==
    ASSUME Inv, OthersTyped',
           nextRow \in Nat, nextRow' \in Nat, nextRow <= nextRow',
           mode' = "down" => \A w \in Workers : pc'[w] = "off",
           OneConfig => served' = served,
           \A w \in Workers : pc'[w] \in Owning => pc[w] \in Owning /\ claim'[w] = claim[w],
           \A w \in Workers : pc'[w] \in Holding => pc[w] \in Holding /\ claim'[w] = claim[w],
           \A i \in DOMAIN queue' : i < nextRow =>
              /\ i \in DOMAIN queue
              /\ queue'[i].job = queue[i].job,
           \A w \in Workers : pc'[w] \in Owning /\ claim[w].id \in DOMAIN queue' =>
              queue'[claim[w].id].status = queue[claim[w].id].status,
           NothingReaped => \A w \in Workers :
              pc'[w] \in Owning /\ claim[w].id \in DOMAIN queue => claim[w].id \in DOMAIN queue',
           mode' = "serving" => \A i \in Running' :
              /\ mode = "serving" /\ i \in Running
              /\ \A w \in Workers : Owns(w, i) => pc'[w] \in Owning
    PROVE  Ownership' /\ GroupsApart'
<1>1. \A w \in Workers : pc'[w] \in Holding => Knows(w)'
  <2> SUFFICES ASSUME NEW w \in Workers, pc'[w] \in Holding PROVE Knows(w)'
    OBVIOUS
  <2>1. claim'[w] = claim[w] /\ claim[w] \in Claims /\ claim[w].id < nextRow
    BY DEF Inv, Ownership, Knows
  <2>2. claim[w].id \in Nat
    BY <2>1, BoundAssumption DEF Claims, RowIds
  <2> QED
    BY <2>1, <2>2 DEF Knows
<1>2. \A w \in Workers : pc'[w] \in Owning => claim[w].id < nextRow
  BY DEF Inv, Ownership, Knows, Holding
<1>3. \A w \in Workers : pc'[w] \in Owning /\ claim'[w].id \in DOMAIN queue' => Has(w)'
  BY <1>2 DEF Inv, Ownership, Has
<1>4. NothingReaped => \A w \in Workers : pc'[w] \in Owning => claim'[w].id \in DOMAIN queue'
  BY DEF Inv, Ownership
<1>5. \A v, w \in Workers :
         pc'[v] \in Owning /\ pc'[w] \in Owning /\ claim'[v].id = claim'[w].id => v = w
  BY DEF Inv, Ownership
<1>6. mode' = "serving" => \A i \in Running' : \E w \in Workers : Owns(w, i)'
  <2> SUFFICES ASSUME mode' = "serving", NEW i \in Running'
               PROVE  \E w \in Workers : Owns(w, i)'
    OBVIOUS
  <2>1. PICK w \in Workers : Owns(w, i)
    BY DEF Inv, Ownership
  <2>2. pc'[w] \in Owning /\ claim'[w] = claim[w]
    BY <2>1
  <2> QED
    BY <2>1, <2>2 DEF Owns
<1>7. GroupsApart'
  <2> SUFFICES ASSUME NothingReaped, OneConfig, NEW v \in Workers, NEW w \in Workers,
                      pc'[v] \in Owning, pc'[w] \in Owning, v # w
               PROVE  SerialGroups(served', claim'[v].job)
                         \cap SerialGroups(served', claim'[w].job) = {}
    BY DEF GroupsApart, SerialGroups, NothingReaped, OneConfig
  <2> QED
    BY DEF Inv, GroupsApart
<1> QED
  BY <1>1, <1>3, <1>4, <1>5, <1>6, <1>7 DEF Ownership, NothingReaped

\* A step that leaves the queue's rows and their holders as they are.
LEMMA QuietStep ==
    ASSUME Inv, OthersTyped', UNCHANGED <<queue, nextRow>>,
           mode' = mode \/ mode' = "stopping",
           mode = "down" => pc' = pc,
           OneConfig => served' = served,
           \A w \in Workers : /\ pc'[w] \in Owning <=> pc[w] \in Owning
                              /\ pc'[w] \in Holding => /\ pc[w] \in Holding
                                                       /\ claim'[w] = claim[w]
    PROVE  Ownership' /\ GroupsApart'
<1>1. nextRow \in Nat /\ nextRow' \in Nat /\ nextRow <= nextRow'
  BY BoundAssumption DEF Inv, TableInv, TablesTyped
<1>2. mode' = "down" => \A w \in Workers : pc'[w] = "off"
  BY DEF Inv, Ownership
<1>3. \A w \in Workers : pc'[w] \in Owning => pc[w] \in Owning /\ claim'[w] = claim[w]
  BY DEF Holding
<1>4. mode' = "serving" => \A i \in Running' :
         /\ mode = "serving" /\ i \in Running
         /\ \A w \in Workers : Owns(w, i) => pc'[w] \in Owning
  BY DEF Running, Owns
<1> QED
  BY <1>1, <1>2, <1>3, <1>4, HoldersKept

\* A worker closes the row it holds (queue.go:160-171), or leaves it running
\* for the restart once the drain has ended.
LEMMA ReleaseStep ==
    ASSUME Inv, OthersTyped', NEW w \in Workers, pc[w] \in Owning,
           NEW s \in QueueStatus \ Unfinished,
           CompleteJob(claim[w].id, s) \/ (mode = "stopping" /\ UNCHANGED queue),
           NEW p, p \notin Owning, p = "recording" => claim'[w] = claim[w],
           pc' = [pc EXCEPT ![w] = p],
           \A v \in Workers \ {w} : claim'[v] = claim[v],
           UNCHANGED <<nextRow, mode, served>>
    PROVE  Ownership' /\ GroupsApart'
<1> DEFINE mine == claim[w].id
<1>1. nextRow \in Nat /\ nextRow' \in Nat /\ nextRow <= nextRow'
  BY BoundAssumption DEF Inv, TableInv, TablesTyped
<1>2. mode # "down"
  BY DEF Inv, Ownership, Owning, InRunning
<1>3. \A v \in Workers : pc'[v] = IF v = w THEN p ELSE pc[v]
  BY DEF Inv, OthersTyped
<1>4. DOMAIN queue' = DOMAIN queue /\ \A i \in DOMAIN queue :
         /\ queue'[i].job = queue[i].job
         /\ i # mine => queue'[i] = queue[i]
  <2>1. CASE UNCHANGED queue
    BY <2>1
  <2>2. CASE CompleteJob(claim[w].id, s)
    <3>1. \A i \in DOMAIN queue : queue[i] \in Row
      BY DEF Inv, TableInv, TablesTyped
    <3> QED
      BY <2>2, <3>1 DEF CompleteJob, Row
  <2> QED
    BY <2>1, <2>2
<1>5. mode = "serving" => mine \notin Running'
  <2>1. CASE mine \in DOMAIN queue /\ CompleteJob(claim[w].id, s)
    <3>1. queue[mine] \in Row
      BY <2>1 DEF Inv, TableInv, TablesTyped
    <3>2. queue'[mine].status = s /\ s # "running"
      BY <2>1, <3>1 DEF CompleteJob, Row, Unfinished
    <3> QED
      BY <3>2 DEF Running
  <2> QED
    BY <2>1, <1>4 DEF Running
<1>6. \A v \in Workers : pc'[v] \in Owning =>
         v # w /\ pc[v] \in Owning /\ claim'[v] = claim[v] /\ claim[v].id # mine
  BY <1>3 DEF Inv, Ownership
<1>7. \A v \in Workers : pc'[v] \in Holding => pc[v] \in Holding /\ claim'[v] = claim[v]
  BY <1>3 DEF Holding
<1>8. \A v \in Workers : pc'[v] \in Owning /\ claim[v].id \in DOMAIN queue' =>
         queue'[claim[v].id].status = queue[claim[v].id].status
  BY <1>4, <1>6
<1>9. mode' = "serving" => \A i \in Running' :
         /\ mode = "serving" /\ i \in Running
         /\ \A v \in Workers : Owns(v, i) => pc'[v] \in Owning
  BY <1>3, <1>4, <1>5 DEF Running, Owns
<1> QED
  BY <1>1, <1>2, <1>4, <1>6, <1>7, <1>8, <1>9, HoldersKept

\* An insert, or an upsert of a pending row (queue.go:27-71).
LEMMA EnqueueStep ==
    ASSUME Inv, OthersTyped', NEW j, NEW r,
           EnqueueJob(j) \/ EnqueueManualJob(j) \/ EnqueueRerunJob(j, r),
           UNCHANGED <<mode, served, pc, claim>>
    PROVE  Ownership' /\ GroupsApart'
<1>1. /\ nextRow \in Nat /\ nextRow' \in Nat /\ nextRow <= nextRow'
      /\ DOMAIN queue \subseteq DOMAIN queue'
      /\ \A i \in DOMAIN queue' :
            \/ i = nextRow /\ queue'[i].status = "pending"
            \/ /\ i \in DOMAIN queue
               /\ queue'[i].job = queue[i].job
               /\ queue'[i].status = queue[i].status
  BY EnqueueEffect DEF Inv
<1>2. \A i \in DOMAIN queue' : i < nextRow =>
         /\ i \in DOMAIN queue
         /\ queue'[i].job = queue[i].job
         /\ queue'[i].status = queue[i].status
  BY <1>1
<1>3. \A w \in Workers : pc[w] \in Owning => claim[w].id < nextRow
  BY DEF Inv, Ownership, Knows, Holding
<1>4. \A i \in Running' : i \in Running
  BY <1>1 DEF Running
<1>5. mode' = "down" => \A w \in Workers : pc'[w] = "off"
  BY DEF Inv, Ownership
<1> QED
  BY <1>1, <1>2, <1>3, <1>4, <1>5, HoldersKept DEF Owns

\* A release or an outcome leaves a breaker (breaker.go:23-60).
LEMMA BreakerTyped ==
    ASSUME breaker \in [Jobs -> [consecutive: Nat, held: BOOLEAN]], NEW j
    PROVE  /\ ResetJobFailures(j) => breaker' \in [Jobs -> [consecutive: Nat, held: BOOLEAN]]
           /\ \A max \in Nat, ok \in BOOLEAN : RecordJobOutcome(j, ok, max) =>
                 breaker' \in [Jobs -> [consecutive: Nat, held: BOOLEAN]]
<1>1. ASSUME ResetJobFailures(j)
      PROVE  breaker' \in [Jobs -> [consecutive: Nat, held: BOOLEAN]]
  BY <1>1 DEF ResetJobFailures
<1>2. ASSUME NEW max \in Nat, NEW ok \in BOOLEAN, RecordJobOutcome(j, ok, max)
      PROVE  breaker' \in [Jobs -> [consecutive: Nat, held: BOOLEAN]]
  <2>1. CASE ok
    BY <1>1, <1>2, <2>1 DEF RecordJobOutcome
  <2>2. CASE ~ok
    <3> DEFINE next == [consecutive |-> breaker[j].consecutive + 1,
                        held |-> breaker[j].held
                                 \/ (max > 0 /\ breaker[j].consecutive + 1 >= max)]
    <3>1. breaker' = [breaker EXCEPT ![j] = next]
      BY <1>2, <2>2 DEF RecordJobOutcome
    <3>2. j \in Jobs => next \in [consecutive: Nat, held: BOOLEAN]
      <4> SUFFICES ASSUME j \in Jobs PROVE next \in [consecutive: Nat, held: BOOLEAN]
        OBVIOUS
      <4>1. breaker[j].consecutive + 1 \in Nat
        OBVIOUS
      <4> QED
        BY <4>1
    <3> HIDE DEF next
    <3> QED
      BY <3>1, <3>2
  <2> QED
    BY <2>1, <2>2
<1> QED
  BY <1>1, <1>2

-----------------------------------------------------------------------------
(* The actions, one step each.                                             *)

\* The web handlers (controls.go, abort.go) and whoever queues work.
LEMMA RequestsPreserve ==
    ASSUME Inv, Requests
    PROVE  Inv'
<1> USE DEF volatile, workerVars, requestVars, storeVars
<1>1. ASSUME NEW j \in Jobs, Trigger(j)
      PROVE  Inv'
  <2>1. TableInv'
    BY <1>1, EnqueueJobSafe DEF Trigger, Inv
  <2>2. OthersTyped'
    BY <1>1 DEF Trigger, Inv, OthersTyped
  <2>3. Ownership' /\ GroupsApart'
    BY <1>1, <2>2, EnqueueStep DEF Trigger
  <2> QED
    BY <2>1, <2>2, <2>3 DEF Inv
<1>2. ASSUME NEW j \in Jobs, NEW f \in Forces, Enqueue(j, f)
      PROVE  Inv'
  <2>1. TableInv'
    BY <1>2, EnqueueManualJobSafe DEF Enqueue, Inv
  <2>2. OthersTyped'
    BY <1>2 DEF Enqueue, Inv, OthersTyped
  <2>3. Ownership' /\ GroupsApart'
    BY <1>2, <2>2, EnqueueStep DEF Enqueue
  <2> QED
    BY <2>1, <2>2, <2>3 DEF Inv
<1>3. ASSUME NEW j \in Jobs, MarkForced(j)
      PROVE  Inv'
  <2>1. TableInv'
    BY <1>3, ReadOnlySafe DEF MarkForced, Inv
  <2>2. OthersTyped'
    BY <1>3 DEF MarkForced, Inv, OthersTyped
  <2>3. Ownership' /\ GroupsApart'
    BY <1>3, <2>2, QuietStep DEF MarkForced
  <2> QED
    BY <2>1, <2>2, <2>3 DEF Inv
<1>4. ASSUME NEW r \in DOMAIN runs, EnqueueRerun(r)
      PROVE  Inv'
  <2>1. TableInv'
    BY <1>4, EnqueueRerunJobSafe DEF EnqueueRerun, Inv
  <2>2. OthersTyped'
    BY <1>4 DEF EnqueueRerun, Inv, OthersTyped
  <2>3. Ownership' /\ GroupsApart'
    BY <1>4, <2>2, EnqueueStep DEF EnqueueRerun
  <2> QED
    BY <2>1, <2>2, <2>3 DEF Inv
<1>5. ASSUME NEW j \in Jobs, AbortQueued(j)
      PROVE  Inv'
  <2>1. TableInv'
    BY <1>5, AbortQueuedJobSafe DEF AbortQueued, Inv
  <2>2. OthersTyped'
    BY <1>5 DEF AbortQueued, Inv, OthersTyped
  <2>3. DOMAIN queue' = DOMAIN queue /\ \A i \in DOMAIN queue :
           /\ queue'[i].job = queue[i].job
           /\ \/ queue'[i].status = queue[i].status
              \/ queue[i].status = "pending" /\ queue'[i].status = "aborted"
    <3> DEFINE closed(i) == [queue[i] EXCEPT !.status = "aborted"]
    <3>1. \A i \in DOMAIN queue : closed(i).job = queue[i].job /\ closed(i).status = "aborted"
      BY DEF Inv, TableInv, TablesTyped, Row
    <3>2. queue' = [i \in DOMAIN queue |->
                      IF i \in Pending /\ queue[i].job = j THEN closed(i) ELSE queue[i]]
      BY <1>5 DEF AbortQueued, AbortQueuedJob
    <3> HIDE DEF closed
    <3> QED
      BY <3>1, <3>2 DEF Pending
  <2>4. nextRow \in Nat /\ UNCHANGED <<nextRow, mode, served, pc, claim>>
    BY <1>5, BoundAssumption DEF AbortQueued, Inv, TableInv, TablesTyped
  <2>5. \A w \in Workers : pc[w] \in Owning /\ claim[w].id \in DOMAIN queue =>
           queue[claim[w].id].status = "running"
    BY DEF Inv, Ownership, Has
  <2>6. \A i \in Running' : i \in Running
    BY <2>3 DEF Running
  <2>7. mode' = "down" => \A w \in Workers : pc'[w] = "off"
    BY <2>4 DEF Inv, Ownership
  <2>8. Ownership' /\ GroupsApart'
    BY <2>2, <2>3, <2>4, <2>5, <2>6, <2>7, HoldersKept DEF Owns
  <2> QED
    BY <2>1, <2>2, <2>8 DEF Inv
<1>6. ASSUME NEW j \in Jobs, DropForce(j)
      PROVE  Inv'
  <2>1. TableInv'
    BY <1>6, ReadOnlySafe DEF DropForce, Inv
  <2>2. OthersTyped'
    BY <1>6 DEF DropForce, Inv, OthersTyped
  <2>3. Ownership' /\ GroupsApart'
    BY <1>6, <2>2, QuietStep DEF DropForce
  <2> QED
    BY <2>1, <2>2, <2>3 DEF Inv
<1>7. ASSUME NEW w \in Workers, Abort(w)
      PROVE  Inv'
  <2>1. TableInv'
    BY <1>7, ReadOnlySafe DEF Abort, Inv
  <2>2. OthersTyped'
    BY <1>7 DEF Abort, Inv, OthersTyped
  <2>3. Ownership' /\ GroupsApart'
    BY <1>7, <2>2, QuietStep DEF Abort
  <2> QED
    BY <2>1, <2>2, <2>3 DEF Inv
<1>8. ASSUME Operate
      PROVE  Inv'
  <2>1. TableInv'
    BY <1>8, ReadOnlySafe DEF Operate, Inv
  <2>2. OthersTyped'
    <3>1. paused' \in SUBSET Switches
      BY <1>8 DEF Operate, Pause, Unpause, Inv, OthersTyped
    <3>2. breaker' \in [Jobs -> [consecutive: Nat, held: BOOLEAN]]
      BY <1>8, BreakerTyped DEF Operate, Inv, OthersTyped
    <3> QED
      BY <1>8, <3>1, <3>2 DEF Operate, Inv, OthersTyped
  <2>3. Ownership' /\ GroupsApart'
    BY <1>8, <2>2, QuietStep DEF Operate
  <2> QED
    BY <2>1, <2>2, <2>3 DEF Inv
<1> QED
  BY <1>1, <1>2, <1>3, <1>4, <1>5, <1>6, <1>7, <1>8 DEF Requests

\* A set of the pipeline (daemon.go).
LEMMA ReconfigurePreserves ==
    ASSUME Inv, Reconfigure
    PROVE  Inv'
<1> USE DEF volatile, workerVars, requestVars, storeVars
<1>1. ASSUME SyncQueueLimits
      PROVE  Inv'
  <2>1. TableInv'
    BY <1>1, ReadOnlySafe DEF SyncQueueLimits, Inv
  <2>2. OthersTyped'
    BY <1>1 DEF SyncQueueLimits, SyncJobLimits, Inv, OthersTyped
  <2>3. Ownership' /\ GroupsApart'
    BY <1>1, <2>2, QuietStep DEF SyncQueueLimits
  <2> QED
    BY <2>1, <2>2, <2>3 DEF Inv
<1>2. ASSUME NEW c \in Configs, SetConfig(c)
      PROVE  Inv'
  <2>1. TableInv'
    BY <1>2, ReadOnlySafe DEF SetConfig, Inv
  <2>2. OthersTyped'
    BY <1>2 DEF SetConfig, Inv, OthersTyped
  <2>3. Ownership' /\ GroupsApart'
    BY <1>2, <2>2, QuietStep DEF SetConfig, OneConfig, Inv, OthersTyped
  <2> QED
    BY <2>1, <2>2, <2>3 DEF Inv
<1> QED
  BY <1>1, <1>2 DEF Reconfigure

\* Only the claim makes a holder: of a row that was pending, so nobody's, and
\* in no group that a row read running had (queue.go:90-153).
LEMMA ClaimPreserves ==
    ASSUME Inv, NEW w \in Workers, NEW i \in DOMAIN queue, Claim(w, i)
    PROVE  Inv'
<1> USE DEF volatile, workerVars, requestVars, storeVars
<1> DEFINE mine == [id |-> i, job |-> queue[i].job, manual |-> queue[i].manual,
                    rerunOf |-> queue[i].rerunOf, resume |-> queue[i].run]
<1>1. TableInv'
  BY ClaimNextJobSafe DEF Claim, Inv, OthersTyped
<1>2. mine \in Claims /\ mine.id = i /\ mine.job = queue[i].job
  BY DEF Inv, TableInv, TablesTyped, Row, Claims
<1>3. /\ claim' = [claim EXCEPT ![w] = mine] /\ pc' = [pc EXCEPT ![w] = "claimed"]
      /\ pc[w] = "slotted" /\ mode = "serving" /\ UNCHANGED <<mode, served, mirror, nextRow>>
  BY DEF Claim, At, Go
<1> HIDE DEF mine
<1>4. OthersTyped'
  BY <1>2, <1>3 DEF Claim, Inv, OthersTyped, Places, Slotted, Owning
<1>5. /\ \A v \in Workers \ {w} : pc'[v] = pc[v] /\ claim'[v] = claim[v]
      /\ pc'[w] = "claimed" /\ claim'[w] = mine
  BY <1>3 DEF Inv, OthersTyped
<1>6. queue[i] \in Row /\ queue[i].status = "pending" /\ i < nextRow
  BY DEF Claim, ClaimNextJob, Claimable, Pending, Inv, TableInv, TablesTyped, IdsHandedOut
<1>7. /\ DOMAIN queue' = DOMAIN queue
      /\ queue'[i].status = "running" /\ queue'[i].job = queue[i].job
      /\ \A k \in DOMAIN queue \ {i} : queue'[k] = queue[k]
  BY <1>6 DEF Claim, ClaimNextJob, Row
<1>8. \A v \in Workers : pc[v] \in Owning => v # w /\ claim[v].id # i
  <2> SUFFICES ASSUME NEW v \in Workers, pc[v] \in Owning
               PROVE  v # w /\ claim[v].id # i
    OBVIOUS
  <2>1. v # w
    BY <1>3 DEF Owning, InRunning
  <2>2. claim[v].id # i
    BY <1>6 DEF Inv, Ownership, Has
  <2> QED
    BY <2>1, <2>2
<1>9. \A v \in Workers : pc'[v] \in Owning => v = w \/ pc[v] \in Owning
  BY <1>5
<1>10. Ownership'
  <2>1. \A v \in Workers : pc'[v] \in Holding => Knows(v)'
    BY <1>2, <1>3, <1>5, <1>6 DEF Inv, Ownership, Knows
  <2>2. \A v \in Workers : pc'[v] \in Owning /\ claim'[v].id \in DOMAIN queue' => Has(v)'
    <3> SUFFICES ASSUME NEW v \in Workers, pc'[v] \in Owning, claim'[v].id \in DOMAIN queue'
                 PROVE  Has(v)'
      OBVIOUS
    <3>1. CASE v = w
      BY <1>2, <1>5, <1>7, <3>1 DEF Has
    <3>2. CASE v # w
      BY <1>5, <1>7, <1>8, <1>9, <3>2 DEF Has, Inv, Ownership
    <3> QED
      BY <3>1, <3>2
  <2>3. NothingReaped => \A v \in Workers : pc'[v] \in Owning => claim'[v].id \in DOMAIN queue'
    BY <1>2, <1>5, <1>7, <1>9 DEF Inv, Ownership
  <2>4. \A u, v \in Workers :
           pc'[u] \in Owning /\ pc'[v] \in Owning /\ claim'[u].id = claim'[v].id => u = v
    BY <1>2, <1>5, <1>8, <1>9 DEF Inv, Ownership
  <2>5. \A k \in Running' : \E v \in Workers : Owns(v, k)'
    <3> SUFFICES ASSUME NEW k \in Running' PROVE \E v \in Workers : Owns(v, k)'
      OBVIOUS
    <3>1. CASE k = i
      BY <1>2, <1>5, <3>1 DEF Owns, Owning
    <3>2. CASE k # i
      <4>1. k \in Running
        BY <1>7, <3>2 DEF Running
      <4>2. PICK v \in Workers : Owns(v, k)
        BY <1>3, <4>1 DEF Inv, Ownership
      <4> QED
        BY <1>5, <1>8, <4>2 DEF Owns
    <3> QED
      BY <3>1, <3>2
  <2> QED
    BY <1>3, <2>1, <2>2, <2>3, <2>4, <2>5 DEF Ownership, NothingReaped
<1>11. GroupsApart'
  <2> SUFFICES ASSUME NothingReaped, OneConfig
               PROVE  \A u, v \in Workers :
                         pc'[u] \in Owning /\ pc'[v] \in Owning /\ u # v =>
                           SerialGroups(served, claim'[u].job)
                              \cap SerialGroups(served, claim'[v].job) = {}
    BY <1>3 DEF GroupsApart, SerialGroups, NothingReaped, OneConfig
  <2>1. mirror = served
    BY DEF OneConfig, Inv, OthersTyped
  <2>2. \A v \in Workers : pc[v] \in Owning =>
           SerialGroups(served, claim[v].job) \cap SerialGroups(served, queue[i].job) = {}
    <3> SUFFICES ASSUME NEW v \in Workers, pc[v] \in Owning
                 PROVE  SerialGroups(served, claim[v].job)
                           \cap SerialGroups(served, queue[i].job) = {}
      OBVIOUS
    <3>1. claim[v].id \in Running /\ queue[claim[v].id].job = claim[v].job
      BY DEF Inv, Ownership, Has, Running
    <3> QED
      BY <2>1, <3>1 DEF Claim, ClaimNextJob, Claimable
  <2> QED
    BY <1>2, <1>5, <1>9, <2>2 DEF Inv, GroupsApart
<1> QED
  BY <1>1, <1>4, <1>10, <1>11 DEF Inv

\* DrainOne, up to the run's entry in r.running (runner.go:296-448).
LEMMA DrainPreserves ==
    ASSUME Inv, NEW w \in Workers, Drain(w)
    PROVE  Inv'
<1> USE DEF volatile, workerVars, requestVars, storeVars
<1>1. ASSUME Admit(w)
      PROVE  Inv'
  <2>1. TableInv'
    BY <1>1, ReadOnlySafe DEF Admit, Inv
  <2>2. OthersTyped'
    BY <1>1 DEF Admit, At, Go, Idle, Inv, OthersTyped, Places, Slotted, Owning, InRunning
  <2>3. Ownership' /\ GroupsApart'
    BY <1>1, <2>2, QuietStep DEF Admit, At, Go, Inv, OthersTyped, Holding, Owning, InRunning
  <2> QED
    BY <2>1, <2>2, <2>3 DEF Inv
<1>2. ASSUME TakeSlot(w)
      PROVE  Inv'
  <2>1. TableInv'
    BY <1>2, ReadOnlySafe DEF TakeSlot, Inv
  <2>2. OthersTyped'
    BY <1>2 DEF TakeSlot, At, Go, Idle, Inv, OthersTyped, Places, Slotted, Owning, InRunning
  <2>3. Ownership' /\ GroupsApart'
    BY <1>2, <2>2, QuietStep DEF TakeSlot, At, Go, Inv, OthersTyped, Holding, Owning, InRunning
  <2> QED
    BY <2>1, <2>2, <2>3 DEF Inv
<1>3. ASSUME NothingClaimable(w)
      PROVE  Inv'
  <2>1. TableInv'
    BY <1>3, ReadOnlySafe DEF NothingClaimable, Inv
  <2>2. OthersTyped'
    BY <1>3 DEF NothingClaimable, At, Go, Idle, Inv, OthersTyped, Places, Slotted,
       Owning, InRunning
  <2>3. Ownership' /\ GroupsApart'
    BY <1>3, <2>2, QuietStep DEF NothingClaimable, At, Go, Inv, OthersTyped, Holding,
       Owning, InRunning
  <2> QED
    BY <2>1, <2>2, <2>3 DEF Inv
<1>4. ASSUME Leave(w)
      PROVE  Inv'
  <2>1. TableInv'
    BY <1>4, ReadOnlySafe DEF Leave, Inv
  <2>2. OthersTyped'
    BY <1>4 DEF Leave, At, Go, Idle, Inv, OthersTyped, Places, Slotted, Owning, InRunning
  <2>3. Ownership' /\ GroupsApart'
    BY <1>4, <2>2, QuietStep DEF Leave, At, Go, Inv, OthersTyped, Holding, Owning, InRunning
  <2> QED
    BY <2>1, <2>2, <2>3 DEF Inv
<1>5. ASSUME DropJob(w)
      PROVE  Inv'
  <2>1. TableInv'
    <3>1. "failed" \in QueueStatus \ {"pending"}
      BY DEF QueueStatus, RunEnds
    <3> QED
      BY <1>5, <3>1, CompleteJobSafe DEF DropJob, Inv
  <2>2. OthersTyped'
    BY <1>5 DEF DropJob, At, Go, Idle, Inv, OthersTyped, Places, Slotted, Owning, InRunning
  <2>3. Ownership' /\ GroupsApart'
    <3>1. pc[w] \in Owning
      BY <1>5 DEF DropJob, At, Owning
    <3>2. "failed" \in QueueStatus \ Unfinished /\ "idle" \notin Owning
      BY DEF QueueStatus, Unfinished, RunEnds, Owning, InRunning
    <3> QED
      BY <1>5, <2>2, <3>1, <3>2, ReleaseStep DEF DropJob, Idle, Go, Inv, OthersTyped
  <2> QED
    BY <2>1, <2>2, <2>3 DEF Inv
<1>6. ASSUME Skip(w)
      PROVE  Inv'
  <2>1. TableInv'
    <3>1. "skipped" \in QueueStatus \ {"pending"}
      BY DEF QueueStatus, RunEnds
    <3> QED
      BY <1>6, <3>1, CompleteJobSafe DEF Skip, Inv
  <2>2. OthersTyped'
    BY <1>6 DEF Skip, At, Go, Idle, Inv, OthersTyped, Places, Slotted, Owning, InRunning
  <2>3. Ownership' /\ GroupsApart'
    <3>1. pc[w] \in Owning
      BY <1>6 DEF Skip, At, Owning
    <3>2. "skipped" \in QueueStatus \ Unfinished /\ "idle" \notin Owning
      BY DEF QueueStatus, Unfinished, RunEnds, Owning, InRunning
    <3> QED
      BY <1>6, <2>2, <3>1, <3>2, ReleaseStep DEF Skip, Idle, Go, Inv, OthersTyped
  <2> QED
    BY <2>1, <2>2, <2>3 DEF Inv
<1>7. ASSUME Register(w)
      PROVE  Inv'
  <2>1. TableInv'
    BY <1>7, ReadOnlySafe DEF Register, Inv
  <2>2. OthersTyped'
    <3>1. claim[w] \in Claims
      BY <1>7 DEF Register, At, Inv, Ownership, Knows, Holding, Owning
    <3>2. ceiling' \in [Workers -> Nat] /\ run' \in [Workers -> RunIds \cup {NoRun}]
      BY <1>7, <3>1, ConfigAssumption DEF Register, Claims, Inv, OthersTyped
    <3>3. force' \in [Workers -> BOOLEAN]
      BY <1>7 DEF Register, Inv, OthersTyped
    <3> QED
      BY <1>7, <3>2, <3>3 DEF Register, At, Go, Inv, OthersTyped, Places, Slotted,
         Owning, InRunning
  <2>3. Ownership' /\ GroupsApart'
    <3>1. /\ pc[w] = "claimed" /\ pc' = [pc EXCEPT ![w] = "registered"]
          /\ UNCHANGED <<queue, nextRow, mode, served, claim>>
      BY <1>7 DEF Register, At, Go
    <3> QED
      BY <2>2, <3>1, QuietStep DEF Inv, OthersTyped, Ownership, Holding, Owning, InRunning
  <2> QED
    BY <2>1, <2>2, <2>3 DEF Inv
<1> QED
  BY <1>1, <1>2, <1>3, <1>4, <1>5, <1>6, <1>7, ClaimPreserves DEF Drain

\* Every way runAndFinalize closes a row, or leaves it (runner.go:451-516).
LEMMA FinalizePreserves ==
    ASSUME Inv, NEW w \in Workers, pc[w] \in Owning, NEW aborted,
           NEW e \in {"none", "failure", "panic", "canceled"}, Finalize(w, aborted, e),
           UNCHANGED <<nextRow, runs, nextRun, breaker, paused, mirror, epoch, mode, served,
                       requestVars, built>>
    PROVE  Inv'
<1> USE DEF requestVars
<1>1. PICK s \in QueueStatus \ Unfinished :
         CompleteJob(claim[w].id, s) \/ (mode = "stopping" /\ UNCHANGED queue)
  <2>1. {"succeeded", "failed", "aborted"} \subseteq QueueStatus \ Unfinished
    BY DEF QueueStatus, Unfinished, RunEnds
  <2> QED
    BY <2>1 DEF Finalize, Interrupted
<1>2. Idle(w) \/ (/\ Go(w, "recording") /\ err' = [err EXCEPT ![w] = e]
                  /\ UNCHANGED <<claim, force, ceiling, run, cause>>)
  BY DEF Finalize
<1>3. TableInv'
  <2>1. CASE CompleteJob(claim[w].id, s)
    BY <2>1, CompleteJobSafe DEF Inv, Unfinished
  <2>2. CASE UNCHANGED queue
    BY <2>2, ReadOnlySafe DEF Inv
  <2> QED
    BY <1>1, <2>1, <2>2
<1>4. OthersTyped'
  <2>1. CASE Idle(w)
    BY <2>1 DEF Idle, Go, Inv, OthersTyped, Places
  <2>2. CASE /\ Go(w, "recording") /\ err' = [err EXCEPT ![w] = e]
             /\ UNCHANGED <<claim, force, ceiling, run, cause>>
    BY <2>2 DEF Go, Inv, OthersTyped, Places, Slotted
  <2> QED
    BY <1>2, <2>1, <2>2
<1>5. \E p : /\ p \notin Owning /\ pc' = [pc EXCEPT ![w] = p]
             /\ p = "recording" => claim'[w] = claim[w]
             /\ \A v \in Workers \ {w} : claim'[v] = claim[v]
  <2>1. CASE Idle(w)
    <3>1. /\ "idle" \notin Owning /\ pc' = [pc EXCEPT ![w] = "idle"]
          /\ \A v \in Workers \ {w} : claim'[v] = claim[v]
      BY <2>1 DEF Idle, Go, Owning, InRunning, Inv, OthersTyped
    <3> QED
      BY <3>1
  <2>2. CASE Go(w, "recording") /\ UNCHANGED claim
    <3>1. "recording" \notin Owning /\ pc' = [pc EXCEPT ![w] = "recording"]
      BY <2>2 DEF Go, Owning, InRunning
    <3> QED
      BY <2>2, <3>1
  <2> QED
    BY <1>2, <2>1, <2>2
<1>6. Ownership' /\ GroupsApart'
  BY <1>1, <1>4, <1>5, ReleaseStep
<1> QED
  BY <1>3, <1>4, <1>6 DEF Inv

\* A build goes on, in the worker that holds its row.
LEMMA BuildStep ==
    ASSUME Inv, OthersTyped', NEW w \in Workers, pc[w] \in InRunning,
           NEW p \in InRunning, Go(w, p), UNCHANGED <<queue, nextRow, mode, served, claim>>
    PROVE  Ownership' /\ GroupsApart'
<1>1. mode # "down"
  BY DEF Inv, Ownership, InRunning
<1>2. \A v \in Workers : pc'[v] = IF v = w THEN p ELSE pc[v]
  BY DEF Go, Inv, OthersTyped
<1> QED
  BY <1>1, <1>2, QuietStep DEF Holding, Owning

\* RunJob and what runAndFinalize does after it (job.go:46-219, runner.go).
LEMMA BuildPreserves ==
    ASSUME Inv, NEW w \in Workers, Build(w)
    PROVE  Inv'
<1> USE DEF volatile, workerVars, requestVars, storeVars
<1>0. pc[w] \in Holding => claim[w] \in Claims
  BY DEF Inv, Ownership, Knows
<1>1. ASSUME RefuseRerun(w)
      PROVE  Inv'
  <2>1. pc[w] \in Owning
    BY <1>1 DEF RefuseRerun, At, Owning, InRunning
  <2>2. \E e \in {"failure", "canceled"} : Finalize(w, FALSE, e)
    BY <1>1 DEF RefuseRerun
  <2> QED
    BY <1>1, <2>1, <2>2, FinalizePreserves DEF RefuseRerun
<1>2. ASSUME RefuseBuild(w)
      PROVE  Inv'
  <2>1. TableInv'
    BY <1>2, ReadOnlySafe DEF RefuseBuild, Inv
  <2>2. OthersTyped'
    BY <1>2 DEF RefuseBuild, At, Go, Idle, Unwinding, Inv, OthersTyped, Places, Slotted,
       Owning, InRunning
  <2>3. Ownership' /\ GroupsApart'
    <3>1. pc[w] \in InRunning /\ \E p \in InRunning : Go(w, p)
      BY <1>2 DEF RefuseBuild, At, Unwinding, InRunning
    <3> QED
      BY <1>2, <2>2, <3>1, BuildStep DEF RefuseBuild
  <2> QED
    BY <2>1, <2>2, <2>3 DEF Inv
<1>3. ASSUME BeginRun(w)
      PROVE  Inv'
  <2>1. claim[w] \in Claims /\ claim[w].job \in Jobs
    BY <1>0, <1>3 DEF BeginRun, At, Holding, Owning, InRunning, Claims
  <2>2. TableInv'
    BY <1>3, <2>1, StartRunSafe DEF BeginRun, Inv
  <2>3. nextRun \in RunIds
    BY <1>3 DEF BeginRun, StartRun
  <2>4. OthersTyped'
    BY <1>3, <2>3 DEF BeginRun, At, Go, Inv, OthersTyped, Places, Slotted, Owning, InRunning
  <2>5. PICK p \in {"building", "minted"} : pc' = [pc EXCEPT ![w] = p]
    BY <1>3 DEF BeginRun, Go
  <2>6. DOMAIN queue' = DOMAIN queue /\ \A i \in DOMAIN queue :
           queue'[i].job = queue[i].job /\ queue'[i].status = queue[i].status
    <3> DEFINE named(i) == [queue[i] EXCEPT !.run = nextRun]
    <3>1. \A i \in DOMAIN queue : named(i).job = queue[i].job /\ named(i).status = queue[i].status
      BY DEF Inv, TableInv, TablesTyped, Row
    <3>2. queue' = [i \in DOMAIN queue |-> IF i = claim[w].id THEN named(i) ELSE queue[i]]
      BY <1>3 DEF BeginRun, StartRun
    <3> HIDE DEF named
    <3> QED
      BY <3>1, <3>2
  <2>7. /\ pc[w] = "registered" /\ nextRow \in Nat
        /\ UNCHANGED <<nextRow, mode, served, claim>>
    BY <1>3, BoundAssumption DEF BeginRun, At, Inv, TableInv, TablesTyped
  <2>8. \A v \in Workers : (pc'[v] \in Owning <=> pc[v] \in Owning)
                            /\ (pc'[v] \in Holding => pc[v] \in Holding)
    BY <2>5, <2>7 DEF Inv, OthersTyped, Holding, Owning, InRunning
  <2>9. mode' = "down" => \A v \in Workers : pc'[v] = "off"
    BY <2>7 DEF Inv, Ownership
  <2>10. \A i \in Running' : i \in Running
    BY <2>6 DEF Running
  <2>11. Ownership' /\ GroupsApart'
    BY <2>4, <2>6, <2>7, <2>8, <2>9, <2>10, HoldersKept DEF Owns
  <2> QED
    BY <2>2, <2>4, <2>11 DEF Inv
<1>4. ASSUME RecordRunRerun(w)
      PROVE  Inv'
  <2>1. TableInv'
    BY <1>4, ReadOnlySafe DEF RecordRunRerun, Inv
  <2>2. OthersTyped'
    BY <1>4 DEF RecordRunRerun, At, Go, Idle, Unwinding, Inv, OthersTyped, Places,
       Slotted, Owning, InRunning
  <2>3. Ownership' /\ GroupsApart'
    <3>1. pc[w] \in InRunning /\ \E p \in InRunning : Go(w, p)
      BY <1>4 DEF RecordRunRerun, At, Unwinding, InRunning
    <3> QED
      BY <1>4, <2>2, <3>1, BuildStep DEF RecordRunRerun
  <2> QED
    BY <2>1, <2>2, <2>3 DEF Inv
<1>5. ASSUME ContinueRun(w)
      PROVE  Inv'
  <2>1. TableInv'
    BY <1>5, ReadOnlySafe, ResumeRunSafe DEF ContinueRun, Inv
  <2>2. OthersTyped'
    BY <1>5 DEF ContinueRun, At, Go, Idle, Unwinding, Inv, OthersTyped, Places, Slotted,
       Owning, InRunning
  <2>3. Ownership' /\ GroupsApart'
    <3>1. pc[w] \in InRunning /\ \E p \in InRunning : Go(w, p)
      BY <1>5 DEF ContinueRun, At, Unwinding, InRunning
    <3> QED
      BY <1>5, <2>2, <3>1, BuildStep DEF ContinueRun
  <2> QED
    BY <2>1, <2>2, <2>3 DEF Inv
<1>6. ASSUME BuildEnds(w)
      PROVE  Inv'
  <2>1. TableInv'
    BY <1>6, ReadOnlySafe DEF BuildEnds, Inv
  <2>2. OthersTyped'
    BY <1>6 DEF BuildEnds, At, Go, Idle, Unwinding, Inv, OthersTyped, Places, Slotted,
       Owning, InRunning
  <2>3. Ownership' /\ GroupsApart'
    <3>1. pc[w] \in InRunning /\ \E p \in InRunning : Go(w, p)
      BY <1>6 DEF BuildEnds, At, Unwinding, InRunning
    <3> QED
      BY <1>6, <2>2, <3>1, BuildStep DEF BuildEnds
  <2> QED
    BY <2>1, <2>2, <2>3 DEF Inv
<1>7. ASSUME Finish(w)
      PROVE  Inv'
  <2>1. TableInv'
    <3>1. {"succeeded", "failed", "aborted"} \subseteq RunEnds /\ epoch \in 0 .. MaxEpoch
      BY DEF RunEnds, Inv, OthersTyped
    <3>2. CASE UNCHANGED runs
      BY <1>7, <3>2, ReadOnlySafe DEF Finish, Inv
    <3>3. CASE \E s \in {"succeeded", "failed", "aborted"} : FinishRun(run[w], s)
      BY <1>7, <3>1, <3>3, FinishRunSafe DEF Finish, Inv
    <3> QED
      BY <1>7, <3>2, <3>3 DEF Finish
  <2>2. OthersTyped'
    <3>1. claim[w].id \in RowIds
      BY <1>0, <1>7 DEF Finish, At, Holding, Owning, InRunning, Claims
    <3> QED
      BY <1>7, <3>1 DEF Finish, At, Go, Unwinding, Inv, OthersTyped, Places, Slotted,
         Owning, InRunning
  <2>3. Ownership' /\ GroupsApart'
    <3>1. pc[w] \in InRunning /\ \E p \in InRunning : Go(w, p)
      BY <1>7 DEF Finish, At, Unwinding, InRunning
    <3> QED
      BY <1>7, <2>2, <3>1, BuildStep DEF Finish
  <2> QED
    BY <2>1, <2>2, <2>3 DEF Inv
<1>8. ASSUME PruneRunHistory(w)
      PROVE  Inv'
  <2>1. TableInv'
    BY <1>8, PruneRunsSafe DEF PruneRunHistory, Inv
  <2>2. OthersTyped'
    BY <1>8 DEF PruneRunHistory, At, Go, Inv, OthersTyped, Places, Slotted, Owning, InRunning
  <2>3. /\ pc[w] = "ended" /\ pc' = [pc EXCEPT ![w] = "pruned"] /\ nextRow \in Nat
        /\ UNCHANGED <<nextRow, mode, served, claim>>
    BY <1>8, BoundAssumption DEF PruneRunHistory, At, Go, Inv, TableInv, TablesTyped
  <2>4. DOMAIN queue' \subseteq DOMAIN queue /\ \A i \in DOMAIN queue' :
           queue'[i].job = queue[i].job /\ queue'[i].status = queue[i].status
    <3> DEFINE gone == Reaped(claim[w].job, run[w])
               unnamed(i) == [queue[i] EXCEPT !.run = NoRun]
    <3>1. \A i \in DOMAIN queue : /\ unnamed(i).job = queue[i].job
                                  /\ unnamed(i).status = queue[i].status
      BY DEF Inv, TableInv, TablesTyped, Row
    <3>2. queue' = [i \in DOMAIN queue \ {i \in DOMAIN queue : queue[i].rerunOf \in gone} |->
                      IF queue[i].run \in gone THEN unnamed(i) ELSE queue[i]]
      BY <1>8 DEF PruneRunHistory, PruneRuns
    <3> HIDE DEF gone, unnamed
    <3> QED
      BY <3>1, <3>2
  <2>5. NothingReaped => \A v \in Workers :
           pc'[v] \in Owning /\ claim[v].id \in DOMAIN queue => claim[v].id \in DOMAIN queue'
    <3> SUFFICES ASSUME NothingReaped PROVE DOMAIN queue' = DOMAIN queue
      OBVIOUS
    <3>1. Reaped(claim[w].job, run[w]) = {}
      BY DEF NothingReaped, Reaped
    <3> QED
      BY <1>8, <3>1 DEF PruneRunHistory, PruneRuns
  <2>6. \A v \in Workers : (pc'[v] \in Owning <=> pc[v] \in Owning)
                            /\ (pc'[v] \in Holding => pc[v] \in Holding)
    BY <2>3 DEF Inv, OthersTyped, Holding, Owning, InRunning
  <2>7. mode' = "down" => \A v \in Workers : pc'[v] = "off"
    BY <2>3 DEF Inv, Ownership
  <2>8. \A i \in Running' : i \in Running
    BY <2>4 DEF Running
  <2>9. Ownership' /\ GroupsApart'
    BY <2>2, <2>3, <2>4, <2>5, <2>6, <2>7, <2>8, HoldersKept DEF Owns
  <2> QED
    BY <2>1, <2>2, <2>9 DEF Inv
<1>9. ASSUME PruneQueueHistory(w)
      PROVE  Inv'
  <2>1. TableInv'
    BY <1>9, PruneTriggerQueueSafe DEF PruneQueueHistory, Inv
  <2>2. OthersTyped'
    BY <1>9 DEF PruneQueueHistory, At, Go, Inv, OthersTyped, Places, Slotted, Owning, InRunning
  <2>3. /\ pc[w] = "pruned" /\ pc' = [pc EXCEPT ![w] = "returned"] /\ nextRow \in Nat
        /\ UNCHANGED <<nextRow, mode, served, claim>>
    BY <1>9, BoundAssumption DEF PruneQueueHistory, At, Go, Inv, TableInv, TablesTyped
  <2>4. DOMAIN queue' \subseteq DOMAIN queue /\ \A i \in DOMAIN queue' :
           queue'[i].job = queue[i].job /\ queue'[i].status = queue[i].status
    BY <1>9 DEF PruneQueueHistory, PruneTriggerQueue
  <2>5. NothingReaped => \A v \in Workers :
           pc'[v] \in Owning /\ claim[v].id \in DOMAIN queue => claim[v].id \in DOMAIN queue'
    <3>1. \A i \in OldRows(claim[w].job) : queue[i].status # "running"
      BY DEF OldRows, Unfinished
    <3>2. \A v \in Workers : pc'[v] \in Owning => pc[v] \in Owning
      BY <2>3 DEF Inv, OthersTyped, Owning, InRunning
    <3> QED
      BY <1>9, <3>1, <3>2 DEF PruneQueueHistory, PruneTriggerQueue, Inv, Ownership, Has
  <2>6. \A v \in Workers : (pc'[v] \in Owning <=> pc[v] \in Owning)
                            /\ (pc'[v] \in Holding => pc[v] \in Holding)
    BY <2>3 DEF Inv, OthersTyped, Holding, Owning, InRunning
  <2>7. mode' = "down" => \A v \in Workers : pc'[v] = "off"
    BY <2>3 DEF Inv, Ownership
  <2>8. \A i \in Running' : i \in Running
    BY <2>4 DEF Running
  <2>9. Ownership' /\ GroupsApart'
    BY <2>2, <2>3, <2>4, <2>5, <2>6, <2>7, <2>8, HoldersKept DEF Owns
  <2> QED
    BY <2>1, <2>2, <2>9 DEF Inv
<1>10. ASSUME Recover(w)
      PROVE  Inv'
  <2>1. TableInv'
    <3>1. "failed" \in RunEnds /\ epoch \in 0 .. MaxEpoch
      BY DEF RunEnds, Inv, OthersTyped
    <3> QED
      BY <1>10, <3>1, FinishRunSafe DEF Recover, Inv
  <2>2. OthersTyped'
    <3>1. claim[w].id \in RowIds
      BY <1>0, <1>10 DEF Recover, At, Holding, Owning, InRunning, Claims
    <3> QED
      BY <1>10, <3>1 DEF Recover, At, Go, Inv, OthersTyped, Places, Slotted, Owning, InRunning
  <2>3. Ownership' /\ GroupsApart'
    <3>1. pc[w] \in InRunning /\ \E p \in InRunning : Go(w, p)
      BY <1>10 DEF Recover, At, Unwinding, InRunning
    <3> QED
      BY <1>10, <2>2, <3>1, BuildStep DEF Recover
  <2> QED
    BY <2>1, <2>2, <2>3 DEF Inv
<1>11. ASSUME Return(w)
      PROVE  Inv'
  <2>1. pc[w] \in Owning
    BY <1>11 DEF Return, At, Owning, InRunning
  <2>2. err[w] \in {"none", "failure", "panic", "canceled"}
    BY DEF Inv, OthersTyped
  <2> QED
    BY <1>11, <2>1, <2>2, FinalizePreserves DEF Return
<1>12. ASSUME RecordBreaker(w)
      PROVE  Inv'
  <2>1. TableInv'
    BY <1>12, ReadOnlySafe DEF RecordBreaker, Inv
  <2>2. breaker' \in [Jobs -> [consecutive: Nat, held: BOOLEAN]]
    <3>1. ceiling[w] \in Nat /\ (err[w] = "none") \in BOOLEAN
      BY DEF Inv, OthersTyped
    <3> QED
      BY <1>12, <3>1, BreakerTyped DEF RecordBreaker, Inv, OthersTyped
  <2>3. OthersTyped'
    BY <1>12, <2>2 DEF RecordBreaker, Idle, Go, Inv, OthersTyped, Places
  <2>4. /\ pc[w] = "recording" /\ pc' = [pc EXCEPT ![w] = "idle"]
        /\ claim' = [claim EXCEPT ![w] = NoClaim] /\ UNCHANGED <<queue, nextRow, mode, served>>
    BY <1>12 DEF RecordBreaker, At, Idle, Go
  <2>5. Ownership' /\ GroupsApart'
    BY <2>3, <2>4, QuietStep DEF Inv, OthersTyped, Ownership, Holding, Owning, InRunning
  <2> QED
    BY <2>1, <2>3, <2>5 DEF Inv
<1> QED
  BY <1>1, <1>2, <1>3, <1>4, <1>5, <1>6, <1>7, <1>8, <1>9, <1>10, <1>11, <1>12 DEF Build

\* A process that ends takes its workers with it (daemon.go, runner.go:708-748);
\* one that starts finds rows, and holds none until a claim.
LEMMA ProcessPreserves ==
    ASSUME Inv, Process
    PROVE  Inv'
<1> USE DEF volatile, workerVars, requestVars, storeVars
<1>0. nextRow \in Nat
  BY BoundAssumption DEF Inv, TableInv, TablesTyped
<1>1. ASSUME Start
      PROVE  Inv'
  <2>1. TableInv'
    BY <1>1, ResetStaleRunningSafe DEF Start, Inv, OthersTyped
  <2>2. OthersTyped'
    <3>1. epoch' \in 0 .. MaxEpoch
      BY <1>1, BoundAssumption DEF Start, Inv, OthersTyped
    <3> QED
      BY <1>1, <3>1 DEF Start, SyncJobLimits, Inv, OthersTyped, Places
  <2>3. /\ \A w \in Workers : pc'[w] = "idle"
        /\ mode' = "serving" /\ UNCHANGED <<nextRow, served, claim>>
    BY <1>1 DEF Start
  <2>4. "idle" \notin Holding /\ "idle" \notin Owning
    BY DEF Holding, Owning, InRunning
  <2>5. /\ \A i \in DOMAIN queue' : i \in DOMAIN queue /\ queue'[i].job = queue[i].job
        /\ Running' = {}
    <3> DEFINE settled(i) == [queue[i] EXCEPT !.status = runs[queue[i].run].status]
               requeued(i) == [queue[i] EXCEPT !.status = "pending", !.started = 0]
    <3>1. \A i \in DOMAIN queue :
             /\ requeued(i).job = queue[i].job /\ requeued(i).status = "pending"
             /\ settled(i).job = queue[i].job
             /\ settled(i).status = runs[queue[i].run].status
      BY DEF Inv, TableInv, TablesTyped, Row
    <3>2. \A i \in EndedSinceClaim : runs[queue[i].run].status # "running"
      BY DEF EndedSinceClaim
    <3>3. queue' = [i \in DOMAIN queue \ (Superseded \cup Collapsed) |->
                      IF i \in EndedSinceClaim THEN settled(i)
                      ELSE IF i \in Running THEN requeued(i) ELSE queue[i]]
      BY <1>1 DEF Start, ResetStaleRunning
    <3> HIDE DEF settled, requeued
    <3>4. \A i \in DOMAIN queue' : /\ i \in DOMAIN queue /\ queue'[i].job = queue[i].job
                                   /\ queue'[i].status # "running"
      BY <3>1, <3>2, <3>3 DEF Running
    <3> QED
      BY <3>4 DEF Running
  <2>6. Ownership' /\ GroupsApart'
    BY <1>0, <2>2, <2>3, <2>4, <2>5, HoldersKept
  <2> QED
    BY <2>1, <2>2, <2>6 DEF Inv
<1>2. ASSUME Stop
      PROVE  Inv'
  <2>1. TableInv'
    BY <1>2, ReadOnlySafe DEF Stop, Inv
  <2>2. OthersTyped'
    BY <1>2 DEF Stop, Inv, OthersTyped
  <2>3. Ownership' /\ GroupsApart'
    <3>1. mode = "serving" /\ mode' = "stopping" /\ UNCHANGED <<queue, nextRow, served, pc, claim>>
      BY <1>2 DEF Stop
    <3> QED
      BY <2>2, <3>1, QuietStep
  <2> QED
    BY <2>1, <2>2, <2>3 DEF Inv
<1>3. ASSUME NEW w \in Workers, CancelRun(w)
      PROVE  Inv'
  <2>1. TableInv'
    BY <1>3, ReadOnlySafe DEF CancelRun, Inv
  <2>2. OthersTyped'
    BY <1>3 DEF CancelRun, Inv, OthersTyped
  <2>3. Ownership' /\ GroupsApart'
    BY <1>3, <2>2, QuietStep DEF CancelRun
  <2> QED
    BY <2>1, <2>2, <2>3 DEF Inv
<1>4. ASSUME NoProcess, mode' = "down", UNCHANGED <<storeVars, served, built>>
      PROVE  Inv'
  <2>1. TableInv'
    BY <1>4, ReadOnlySafe DEF Inv
  <2>2. OthersTyped'
    <3>1. /\ pc' \in [Workers -> Places] /\ claim' \in [Workers -> Claims \cup {NoClaim}]
          /\ force' \in [Workers -> BOOLEAN] /\ ceiling' \in [Workers -> Nat]
          /\ run' \in [Workers -> RunIds \cup {NoRun}]
          /\ cause' \in [Workers -> {"none", "abort", "drain"}]
          /\ err' \in [Workers -> {"none", "failure", "panic", "canceled"}]
      BY <1>4 DEF NoProcess, Places
    <3> QED
      BY <1>4, <3>1 DEF NoProcess, Inv, OthersTyped
  <2>3. \A w \in Workers : pc'[w] = "off" /\ pc'[w] \notin Holding /\ pc'[w] \notin Owning
    BY <1>4 DEF NoProcess, Holding, Owning, InRunning
  <2>4. Ownership' /\ GroupsApart'
    BY <1>0, <1>4, <2>2, <2>3, HoldersKept
  <2> QED
    BY <2>1, <2>2, <2>4 DEF Inv
<1> QED
  BY <1>1, <1>2, <1>3, <1>4 DEF Process, Exit, Crash

-----------------------------------------------------------------------------
(* The theorems.                                                           *)

\* The invariant holds of an empty database with no daemon.
LEMMA InitInv == Init => Inv
<1> SUFFICES ASSUME Init PROVE Inv
  OBVIOUS
<1>1. TableInv
  BY EmptyTables DEF Init
<1>2. OthersTyped
  <2>1. /\ breaker \in [Jobs -> [consecutive: Nat, held: BOOLEAN]] /\ paused \in SUBSET Switches
        /\ mirror \in Configs /\ epoch \in 0 .. MaxEpoch
    BY BoundAssumption DEF Init, StoreInit
  <2>2. /\ pc \in [Workers -> Places] /\ claim \in [Workers -> Claims \cup {NoClaim}]
        /\ force \in [Workers -> BOOLEAN] /\ ceiling \in [Workers -> Nat]
        /\ run \in [Workers -> RunIds \cup {NoRun}]
        /\ cause \in [Workers -> {"none", "abort", "drain"}]
        /\ err \in [Workers -> {"none", "failure", "panic", "canceled"}]
    BY DEF Init, Places
  <2> QED
    BY <2>1, <2>2 DEF Init, OthersTyped
<1>3. \A w \in Workers : pc[w] = "off" /\ pc[w] \notin Holding /\ pc[w] \notin Owning
  BY DEF Init, Holding, Owning, InRunning
<1>4. mode = "down"
  BY DEF Init
<1> QED
  BY <1>1, <1>2, <1>3, <1>4 DEF Inv, Ownership, GroupsApart

\* And every step keeps it.
LEMMA StepInv == Inv /\ [Next]_vars => Inv'
<1> SUFFICES ASSUME Inv, [Next]_vars PROVE Inv'
  OBVIOUS
<1>1. CASE Next
  BY <1>1, RequestsPreserve, ReconfigurePreserves, ProcessPreserves, DrainPreserves,
     BuildPreserves DEF Next
<1>2. CASE UNCHANGED vars
  <2> USE DEF vars, storeVars, volatile
  <2>1. TableInv'
    BY <1>2, ReadOnlySafe DEF Inv
  <2>2. OthersTyped'
    BY <1>2 DEF Inv, OthersTyped
  <2>3. UNCHANGED <<queue, nextRow, mode, served, pc, claim>>
    BY <1>2
  <2>4. Ownership' /\ GroupsApart'
    BY <2>2, <2>3, QuietStep
  <2> QED
    BY <2>1, <2>2, <2>4 DEF Inv
<1> QED
  BY <1>1, <1>2

\* Inv is an invariant of the scheduler.
THEOREM Invariance == Spec => []Inv
BY InitInv, StepInv, PTL DEF Spec

\* Type correctness: every column and every worker's locals stay in range
\* through every handler, build, recovery and crash (runner.go, queue.go).
THEOREM TypeCorrect == Spec => []TypeOK
<1>1. Inv => TypeOK
  BY DEF Inv, TableInv, TablesTyped, OthersTyped, TypeOK, StoreTypeOK
<1> QED
  BY <1>1, Invariance, PTL

\* No statement of the store is ever refused by the partial unique indexes of
\* trigger_queue: not a recovery that re-queues, not a prune that nulls run_id
\* (schema.go:334-339, queue.go:221-305, retention.go:186-215).
THEOREM IndexesKept == Spec => []PendingIndexes
<1>1. Inv => PendingIndexes
  BY DEF Inv, TableInv
<1> QED
  BY <1>1, Invariance, PTL

\* No queue row names a run that retention reaped (schema.go:321-324).
THEOREM ForeignKeysKept == Spec => []ForeignKeys
<1>1. Inv => ForeignKeys
  BY DEF Inv, TableInv
<1> QED
  BY <1>1, Invariance, PTL

\* While the daemon serves, every running row has exactly one worker building
\* it, so none holds a limit or a group forever (runner.go:383-516).
THEOREM RowsOwned == Spec => []RunningRowsOwned
<1>1. Inv => RunningRowsOwned
  BY DEF Inv, Ownership, RunningRowsOwned, Owns
<1> QED
  BY <1>1, Invariance, PTL

\* Where retention reaps no run, a build in flight has its row, reading
\* running, whatever else is enqueued, aborted, pruned or configured meanwhile
\* (retention.go:376-404, queue.go:174-189).
THEOREM BuildsKeepTheirRows ==
    ASSUME RunHistory = 0
    PROVE  Spec => []BuildHasItsRow
<1>1. Inv => BuildHasItsRow
  BY DEF Inv, Ownership, Has, NothingReaped, BuildHasItsRow, InFlight, Owning, InRunning,
     Running
<1> QED
  BY <1>1, Invariance, PTL

\* Where it reaps none and the configuration stays, two builds going at once
\* share no serial group (queue.go:90-153, config/job.go:51-54).
THEOREM SerialGroupsRespected ==
    ASSUME RunHistory = 0, \A c, d \in Configs : c = d
    PROVE  Spec => []SerialGroupsHold
<1>1. Inv => SerialGroupsHold
  BY DEF Inv, GroupsApart, NothingReaped, OneConfig, SerialGroupsHold, InFlight, Owning,
     InRunning
<1> QED
  BY <1>1, Invariance, PTL
=============================================================================
