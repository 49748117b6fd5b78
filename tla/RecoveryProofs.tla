--------------------------- MODULE RecoveryProofs ---------------------------
(***************************************************************************)
(* What a restart may rely on: that a row which reads running with a run   *)
(* that ended since the row was claimed is a build that recorded its end,  *)
(* and, where no run is reaped, the converse.  Both come from one idea:    *)
(* a run belongs to one row, and only the worker holding that row writes   *)
(* its end.  Beside them, the counts: claims within a job's limit, and the *)
(* failures the breaker hears of.                                          *)
(*                                                                         *)
(* And Scheduler implements BuildLedger, where nothing is pruned and the   *)
(* configuration stays: every step of a worker, a handler or the process   *)
(* is a step of the ledger or leaves it alone.  Ownership                  *)
(* (SchedulerProofs) is what makes the mapping one: a row that reads       *)
(* running is some worker's or was interrupted, and a worker's row reads   *)
(* running.                                                                *)
(***************************************************************************)
EXTENDS ScheduleLedger, SchedulerProofs, FiniteSetTheorems

\* The run a worker may write: the one its claim is to resume, then its own.
Held(w) == IF pc[w] = "claimed" THEN claim[w].resume
           ELSE IF pc[w] \in InRunning THEN run[w] ELSE NoRun

\* A run is one row's and one worker's, and that worker holds that row.
RunsApart ==
    /\ \A i, k \in DOMAIN queue : queue[i].run = queue[k].run /\ queue[i].run # NoRun => i = k
    /\ \A w \in Workers, i \in DOMAIN queue :
          queue[i].run = Held(w) /\ Held(w) # NoRun => i = claim[w].id
    /\ \A v, w \in Workers : Held(v) = Held(w) /\ Held(v) # NoRun => v = w
    /\ \A w \in Workers : Held(w) < nextRun

\* A build with a run, from its start to its FinishRun.
WithRun == {"minted", "building", "built"}
\* A build whose end is still to be written.
Unended == {"claimed", "registered"} \cup WithRun

\* Its run is in flight, which no prune takes.
RunsInFlight ==
    \A w \in Workers : pc[w] \in WithRun =>
        run[w] \in DOMAIN runs /\ runs[run[w]].status = "running"

\* The row a worker holds names the worker's run, while there are both.
RowsNamed ==
    \A w \in Workers : Held(w) \in DOMAIN runs /\ claim[w].id \in DOMAIN queue =>
        queue[claim[w].id].run = Held(w)

\* Nothing is stamped later than now, and a run that is to be resumed ended
\* before this incarnation of the daemon.
Stamps ==
    /\ \A i \in DOMAIN queue : queue[i].started <= epoch
    /\ \A r \in DOMAIN runs : runs[r].finished <= epoch
    /\ \A i \in Pending : queue[i].run \in DOMAIN runs => runs[queue[i].run].finished < epoch

\* A row whose run ended since its claim was built.
EndsAreBuilds == EndedSinceClaim \subseteq built

\* And a row that was built waits no more, and reads running only with the run
\* that says so.
BuiltOnce ==
    NothingReaped =>
        /\ \A i \in built : i < nextRow
        /\ built \cap Pending = {}
        /\ built \cap Running \subseteq EndedSinceClaim
        /\ \A w \in Workers : pc[w] \in Unended => claim[w].id \notin built
        /\ \A w \in Workers : Held(w) \in DOMAIN runs \cup {NoRun}

RecoveryInv == RunsApart /\ RunsInFlight /\ RowsNamed /\ Stamps /\ EndsAreBuilds /\ BuiltOnce

\* Nothing is deleted from the work list.
NothingPruned == RunHistory = 0 /\ QueueHistory = 0

-----------------------------------------------------------------------------
(* Steps that write no run.                                                *)

\* Rows are inserted, closed or deleted, and keep their run and their stamp.
CalmRows ==
    /\ nextRow <= nextRow'
    /\ \A i \in DOMAIN queue' :
          \/ /\ i = nextRow
             /\ queue'[i].status = "pending"
             /\ queue'[i].run = NoRun
             /\ queue'[i].started = 0
          \/ /\ i \in DOMAIN queue
             /\ queue'[i].run = queue[i].run
             /\ queue'[i].started = queue[i].started
             /\ queue'[i].status = queue[i].status \/ queue'[i].status \notin Unfinished

\* Workers go on with the run and the row they have, or let go of them.
CalmWorkers ==
    \A w \in Workers :
        /\ Held(w)' # NoRun => Held(w)' = Held(w) /\ claim'[w] = claim[w]
        /\ pc'[w] \in WithRun => pc[w] \in WithRun /\ run'[w] = run[w] /\ claim'[w] = claim[w]
        /\ pc'[w] \in Unended => pc[w] \in Unended /\ claim'[w] = claim[w]

\* Ids and stamps are numbers.
LEMMA Numbers ==
    ASSUME Inv
    PROVE  /\ nextRow \in Nat /\ nextRun \in Nat /\ nextRun > 0 /\ epoch \in Nat
           /\ DOMAIN queue \subseteq Nat /\ DOMAIN runs \subseteq Nat \ {0}
           /\ \A i \in DOMAIN queue : /\ i < nextRow
                                      /\ queue[i].run \in Nat
                                      /\ queue[i].run < nextRun
                                      /\ queue[i].started \in Nat
           /\ \A r \in DOMAIN runs : r < nextRun /\ runs[r].finished \in Nat
           /\ built \subseteq Nat
<1>1. /\ nextRow \in Nat /\ nextRun \in Nat /\ nextRun > 0 /\ epoch \in Nat
      /\ DOMAIN queue \subseteq Nat /\ DOMAIN runs \subseteq Nat \ {0} /\ built \subseteq Nat
  BY BoundAssumption DEF Inv, TableInv, TablesTyped, OthersTyped, RowIds, RunIds
<1>2. \A i \in DOMAIN queue : queue[i] \in Row
  BY DEF Inv, TableInv, TablesTyped
<1>3. \A r \in DOMAIN runs : runs[r] \in Run
  BY DEF Inv, TableInv, TablesTyped
<1>4. \A i \in DOMAIN queue : queue[i].run \in Nat /\ queue[i].started \in Nat
  BY <1>2, BoundAssumption DEF Row, RunIds, NoRun
<1>5. \A r \in DOMAIN runs : runs[r].finished \in Nat
  BY <1>3, BoundAssumption DEF Run
<1>6. (\A i \in DOMAIN queue : i < nextRow) /\ (\A r \in DOMAIN runs : r < nextRun)
  BY DEF Inv, TableInv, IdsHandedOut
<1>7. \A i \in DOMAIN queue : queue[i].run \in DOMAIN runs \cup {NoRun}
  BY DEF Inv, TableInv, ForeignKeys
<1> QED
  BY <1>1, <1>4, <1>5, <1>6, <1>7 DEF NoRun

\* A worker that holds a row holds one that was inserted.
LEMMA HeldIds ==
    ASSUME Inv
    PROVE  \A w \in Workers : pc[w] \in Owning =>
              claim[w].id \in Nat /\ claim[w].id < nextRow
BY BoundAssumption DEF Inv, Ownership, Knows, Holding, Claims, RowIds

\* The run a worker has is a run id, or none.
LEMMA HeldNat ==
    ASSUME Inv
    PROVE  \A w \in Workers : Held(w) \in Nat
<1> SUFFICES ASSUME NEW w \in Workers PROVE Held(w) \in Nat
  OBVIOUS
<1>1. pc[w] = "claimed" => claim[w].resume \in Nat
  BY BoundAssumption DEF Inv, Ownership, Knows, Holding, Owning, Claims, RunIds, NoRun
<1>2. run[w] \in Nat
  BY BoundAssumption DEF Inv, OthersTyped, RunIds, NoRun
<1> QED
  BY <1>1, <1>2 DEF Held, NoRun

\* Such a step keeps what recovery relies on.
LEMMA CalmStep ==
    ASSUME Inv, Inv', RecoveryInv, UNCHANGED <<runs, nextRun, epoch, built>>,
           CalmRows, CalmWorkers
    PROVE  RecoveryInv'
<1>0. \A i \in DOMAIN queue' : queue'[i].run # NoRun =>
         i \in DOMAIN queue /\ queue'[i].run = queue[i].run
  BY DEF CalmRows
<1>1. RunsApart'
  <2>1. \A i, k \in DOMAIN queue' :
           queue'[i].run = queue'[k].run /\ queue'[i].run # NoRun => i = k
    BY <1>0 DEF RecoveryInv, RunsApart
  <2>2. \A w \in Workers, i \in DOMAIN queue' :
           queue'[i].run = Held(w)' /\ Held(w)' # NoRun => i = claim'[w].id
    BY <1>0 DEF RecoveryInv, RunsApart, CalmWorkers
  <2>3. \A v, w \in Workers : Held(v)' = Held(w)' /\ Held(v)' # NoRun => v = w
    <3> SUFFICES ASSUME NEW v \in Workers, NEW w \in Workers,
                        Held(v)' = Held(w)', Held(v)' # NoRun
                 PROVE  v = w
      OBVIOUS
    <3>1. Held(v)' = Held(v) /\ Held(w)' = Held(w)
      BY DEF CalmWorkers
    <3> QED
      BY <3>1 DEF RecoveryInv, RunsApart
  <2>4. \A w \in Workers : Held(w)' < nextRun
    <3> SUFFICES ASSUME NEW w \in Workers PROVE Held(w)' < nextRun
      OBVIOUS
    <3>1. Held(w)' = NoRun \/ Held(w)' = Held(w)
      BY DEF CalmWorkers
    <3> QED
      BY <3>1, Numbers DEF RecoveryInv, RunsApart, NoRun
  <2> QED
    BY <2>1, <2>2, <2>3, <2>4 DEF RunsApart
<1>2. RunsInFlight'
  BY DEF RecoveryInv, RunsInFlight, CalmWorkers
<1>2a. RowsNamed'
  <2> SUFFICES ASSUME NEW w \in Workers, Held(w)' \in DOMAIN runs, claim'[w].id \in DOMAIN queue'
               PROVE  queue'[claim'[w].id].run = Held(w)'
    BY DEF RowsNamed
  <2>1. Held(w)' # NoRun
    BY Numbers DEF NoRun
  <2>2. Held(w)' = Held(w) /\ claim'[w] = claim[w]
    BY <2>1 DEF CalmWorkers
  <2>3. pc[w] \in Owning
    BY <2>1, <2>2 DEF Held, Owning
  <2>4. claim[w].id # nextRow
    BY <2>3, HeldIds, Numbers
  <2> QED
    BY <2>2, <2>4 DEF RecoveryInv, RowsNamed, CalmRows
<1>3. Stamps'
  <2>1. \A i \in DOMAIN queue' : queue'[i].started <= epoch
    BY Numbers DEF RecoveryInv, Stamps, CalmRows
  <2>2. \A i \in Pending' : queue'[i].run \in DOMAIN runs => i \in Pending
    BY <1>0, Numbers DEF CalmRows, Pending, Unfinished, NoRun
  <2> QED
    BY <1>0, <2>1, <2>2, Numbers DEF RecoveryInv, Stamps, Pending, NoRun
<1>4. EndsAreBuilds'
  BY Numbers DEF RecoveryInv, EndsAreBuilds, CalmRows, EndedSinceClaim, Running, Unfinished
<1>5. ASSUME NothingReaped
      PROVE  BuiltOnce'
  <2>1. \A i \in built : i < nextRow'
    <3>1. nextRow \in Nat /\ nextRow' \in Nat /\ built \subseteq Nat
      BY Numbers, BoundAssumption DEF Inv, TableInv, TablesTyped
    <3>2. \A a, b, c \in Nat : a < b /\ b <= c => a < c
      OBVIOUS
    <3> QED
      BY <1>5, <3>1, <3>2 DEF RecoveryInv, BuiltOnce, CalmRows
  <2>2. built \cap Pending' = {} /\ built \cap Running' \subseteq EndedSinceClaim'
    BY <1>5, Numbers DEF RecoveryInv, BuiltOnce, CalmRows, EndedSinceClaim, Running, Pending,
       Unfinished
  <2>3. \A w \in Workers : pc'[w] \in Unended => claim'[w].id \notin built
    BY <1>5 DEF RecoveryInv, BuiltOnce, CalmWorkers
  <2>4. \A w \in Workers : Held(w)' \in DOMAIN runs' \cup {NoRun}
    BY <1>5 DEF RecoveryInv, BuiltOnce, CalmWorkers
  <2> QED
    BY <2>1, <2>2, <2>3, <2>4 DEF BuiltOnce
<1> QED
  BY <1>1, <1>2, <1>2a, <1>3, <1>4, <1>5 DEF RecoveryInv, BuiltOnce, NothingReaped

\* A queue nobody touched is calm; so are workers.
LEMMA Untouched ==
    ASSUME Inv
    PROVE  /\ UNCHANGED <<queue, nextRow>> => CalmRows
           /\ UNCHANGED <<pc, claim, run>> => CalmWorkers
<1>1. UNCHANGED <<queue, nextRow>> => CalmRows
  BY Numbers DEF CalmRows
<1>2. ASSUME UNCHANGED <<pc, claim, run>>
      PROVE  CalmWorkers
  BY <1>2 DEF CalmWorkers, Held
<1> QED
  BY <1>1, <1>2

\* One worker goes on within its build, or away from it.
LEMMA WorkerGoesOn ==
    ASSUME Inv, NEW w \in Workers, NEW p, pc' = [pc EXCEPT ![w] = p],
           UNCHANGED <<claim, run>>,
           p # "claimed",
           p \in InRunning => pc[w] \in InRunning,
           p \in WithRun => pc[w] \in WithRun,
           p \in Unended => pc[w] \in Unended
    PROVE  CalmWorkers
<1>1. \A v \in Workers : pc'[v] = IF v = w THEN p ELSE pc[v]
  BY DEF Inv, OthersTyped
<1> SUFFICES ASSUME NEW v \in Workers
             PROVE  /\ Held(v)' # NoRun => Held(v)' = Held(v) /\ claim'[v] = claim[v]
                    /\ pc'[v] \in WithRun => /\ pc[v] \in WithRun /\ run'[v] = run[v]
                                             /\ claim'[v] = claim[v]
                    /\ pc'[v] \in Unended => pc[v] \in Unended /\ claim'[v] = claim[v]
  BY DEF CalmWorkers
<1>2. "claimed" \notin InRunning
  BY DEF InRunning
<1>3. Held(v)' # NoRun => Held(v)' = Held(v)
  BY <1>1, <1>2 DEF Held
<1> QED
  BY <1>1, <1>3

\* One worker lets go of its row.
LEMMA WorkerIdles ==
    ASSUME Inv, NEW w \in Workers, Idle(w)
    PROVE  CalmWorkers
<1>1. \A v \in Workers : /\ pc'[v] = IF v = w THEN "idle" ELSE pc[v]
                         /\ v # w => claim'[v] = claim[v] /\ run'[v] = run[v]
  BY DEF Inv, OthersTyped, Idle, Go
<1>2. "idle" \notin WithRun /\ "idle" \notin Unended /\ "idle" \notin InRunning
  BY DEF WithRun, Unended, InRunning
<1> SUFFICES ASSUME NEW v \in Workers
             PROVE  /\ Held(v)' # NoRun => Held(v)' = Held(v) /\ claim'[v] = claim[v]
                    /\ pc'[v] \in WithRun => /\ pc[v] \in WithRun /\ run'[v] = run[v]
                                             /\ claim'[v] = claim[v]
                    /\ pc'[v] \in Unended => pc[v] \in Unended /\ claim'[v] = claim[v]
  BY DEF CalmWorkers
<1>3. Held(v)' # NoRun => v # w
  BY <1>1, <1>2 DEF Held
<1>4. v # w => Held(v)' = Held(v)
  BY <1>1 DEF Held
<1> QED
  BY <1>1, <1>2, <1>3, <1>4

\* An insert or an upsert (queue.go:27-71).
LEMMA EnqueueCalm ==
    ASSUME Inv, NEW j, NEW r,
           EnqueueJob(j) \/ EnqueueManualJob(j) \/ EnqueueRerunJob(j, r)
    PROVE  CalmRows
<1>1. CASE UNCHANGED <<queue, nextRow>>
  BY <1>1, Untouched
<1>2. CASE \E manual, of : Insert(NewRow(j, manual, of))
  BY <1>2, Numbers DEF Insert, NewRow, CalmRows
<1>3. ASSUME queue' = [i \in DOMAIN queue |->
                        IF i \in Ordinary(j) THEN [queue[i] EXCEPT !.manual = TRUE] ELSE queue[i]],
             nextRow' = nextRow
      PROVE  CalmRows
  <2>1. \A i \in DOMAIN queue : queue[i] \in Row
    BY DEF Inv, TableInv, TablesTyped
  <2>2. \A i \in DOMAIN queue : LET e == [queue[i] EXCEPT !.manual = TRUE]
                                IN  /\ e.run = queue[i].run /\ e.started = queue[i].started
                                    /\ e.status = queue[i].status
    BY <2>1 DEF Row
  <2> QED
    BY <1>3, <2>2, Numbers DEF CalmRows
<1> QED
  BY <1>1, <1>2, <1>3 DEF EnqueueJob, EnqueueManualJob, EnqueueRerunJob

\* Rows are closed, by their worker or all those of a job (queue.go:160-189),
\* or deleted (retention.go:376-404).
LEMMA CloseCalm ==
    ASSUME Inv, UNCHANGED nextRow,
           \/ \E i, s : s \notin Unfinished /\ CompleteJob(i, s)
           \/ \E j : AbortQueuedJob(j) \/ PruneTriggerQueue(j)
    PROVE  CalmRows
<1>1. \A i \in DOMAIN queue : queue[i] \in Row
  BY DEF Inv, TableInv, TablesTyped
<1>2. \A i \in DOMAIN queue : \A s :
         LET e == [queue[i] EXCEPT !.status = s]
         IN  e.run = queue[i].run /\ e.started = queue[i].started /\ e.status = s
  BY <1>1 DEF Row
<1>3. CASE \E i, s : s \notin Unfinished /\ CompleteJob(i, s)
  BY <1>2, <1>3, Numbers DEF CompleteJob, CalmRows
<1>4. CASE \E j : AbortQueuedJob(j)
  BY <1>2, <1>4, Numbers DEF AbortQueuedJob, CalmRows, Unfinished
<1>5. CASE \E j : PruneTriggerQueue(j)
  BY <1>5, Numbers DEF PruneTriggerQueue, CalmRows
<1> QED
  BY <1>3, <1>4, <1>5

-----------------------------------------------------------------------------
(* The actions, one step each.                                             *)

\* Requests write no run (runner.go:183-262).
LEMMA RequestsRecover ==
    ASSUME Inv, Inv', RecoveryInv, Requests
    PROVE  RecoveryInv'
<1> USE DEF workerVars, requestVars, storeVars, volatile
<1>1. CASE \E j \in Jobs : Trigger(j) \/ \E f \in Forces : Enqueue(j, f)
  <2>1. /\ UNCHANGED <<runs, nextRun, epoch, built, pc, claim, run>>
        /\ \E j : EnqueueJob(j) \/ EnqueueManualJob(j)
    BY <1>1 DEF Trigger, Enqueue
  <2>2. CalmRows
    BY <2>1, EnqueueCalm
  <2> QED
    BY <2>1, <2>2, Untouched, CalmStep
<1>2. CASE \E r \in DOMAIN runs : EnqueueRerun(r)
  <2>1. /\ UNCHANGED <<runs, nextRun, epoch, built, pc, claim, run>>
        /\ \E j, r : EnqueueRerunJob(j, r)
    BY <1>2 DEF EnqueueRerun
  <2>2. CalmRows
    BY <2>1, EnqueueCalm
  <2> QED
    BY <2>1, <2>2, Untouched, CalmStep
<1>3. CASE \E j \in Jobs : AbortQueued(j)
  <2>1. /\ UNCHANGED <<runs, nextRun, epoch, built, pc, claim, run, nextRow>>
        /\ \E j : AbortQueuedJob(j)
    BY <1>3 DEF AbortQueued
  <2>2. CalmRows
    BY <2>1, CloseCalm
  <2> QED
    BY <2>1, <2>2, Untouched, CalmStep
<1>4. CASE \/ \E j \in Jobs : MarkForced(j) \/ DropForce(j)
           \/ \E w \in Workers : Abort(w)
           \/ Operate
  <2>1. UNCHANGED <<runs, nextRun, epoch, built, pc, claim, run, queue, nextRow>>
    BY <1>4 DEF MarkForced, DropForce, Abort, Operate
  <2> QED
    BY <2>1, Untouched, CalmStep
<1> QED
  BY <1>1, <1>2, <1>3, <1>4 DEF Requests

\* Configurations are nothing to runs.
LEMMA ReconfigureRecovers ==
    ASSUME Inv, Inv', RecoveryInv, Reconfigure
    PROVE  RecoveryInv'
<1>1. UNCHANGED <<runs, nextRun, epoch, built, pc, claim, run, queue, nextRow>>
  BY DEF Reconfigure, SyncQueueLimits, SetConfig, storeVars, volatile
<1> QED
  BY <1>1, Untouched, CalmStep

\* A claim (queue.go:90-153) takes a row no worker has, of a run, if any, that
\* ended before this daemon started, and stamps it.
LEMMA ClaimRecovers ==
    ASSUME Inv, Inv', RecoveryInv, NEW w \in Workers, NEW i \in DOMAIN queue, Claim(w, i)
    PROVE  RecoveryInv'
<1>1. UNCHANGED <<runs, nextRun, nextRow, epoch, built, run>>
  BY DEF Claim
<1>2. i \in Pending /\ pc[w] = "slotted"
  BY DEF Claim, ClaimNextJob, Claimable, At
<1>3. queue[i] \in Row
  BY DEF Inv, TableInv, TablesTyped
<1>4. /\ DOMAIN queue' = DOMAIN queue
      /\ queue'[i].status = "running" /\ queue'[i].started = epoch
      /\ queue'[i].run = queue[i].run
      /\ \A k \in DOMAIN queue : k # i => queue'[k] = queue[k]
  BY <1>3 DEF Claim, ClaimNextJob, Row
<1>5. /\ pc' = [pc EXCEPT ![w] = "claimed"]
      /\ claim'[w].id = i /\ claim'[w].resume = queue[i].run
      /\ \A v \in Workers : v # w => claim'[v] = claim[v] /\ pc'[v] = pc[v]
      /\ pc'[w] = "claimed"
  BY DEF Claim, Go, Inv, OthersTyped
<1>6. Held(w) = NoRun /\ Held(w)' = queue[i].run
  BY <1>2, <1>5 DEF Held, InRunning
<1>7. \A v \in Workers : v # w => Held(v)' = Held(v)
  BY <1>1, <1>5 DEF Held
<1>8. \A v \in Workers : v # w /\ Held(v) # NoRun => Held(v) # queue[i].run
  <2> SUFFICES ASSUME NEW v \in Workers, Held(v) # NoRun, Held(v) = queue[i].run
               PROVE  FALSE
    OBVIOUS
  <2>1. claim[v].id = i
    BY DEF RecoveryInv, RunsApart
  <2>2. pc[v] \in Owning
    BY DEF Held, Owning
  <2> QED
    BY <1>2, <2>1, <2>2 DEF Inv, Ownership, Has, Pending
<1>9. \A k \in DOMAIN queue : queue'[k].run = queue[k].run
  BY <1>4
<1>10. RunsApart'
  <2>1. \A k, l \in DOMAIN queue' :
           queue'[k].run = queue'[l].run /\ queue'[k].run # NoRun => k = l
    BY <1>4, <1>9 DEF RecoveryInv, RunsApart
  <2>2. \A v \in Workers, k \in DOMAIN queue' :
           queue'[k].run = Held(v)' /\ Held(v)' # NoRun => k = claim'[v].id
    BY <1>4, <1>5, <1>6, <1>7, <1>9 DEF RecoveryInv, RunsApart
  <2>3. \A u, v \in Workers : Held(u)' = Held(v)' /\ Held(u)' # NoRun => u = v
    <3> SUFFICES ASSUME NEW u \in Workers, NEW v \in Workers, Held(u)' = Held(v)',
                        Held(u)' # NoRun
                 PROVE  u = v
      OBVIOUS
    <3>1. CASE u # w /\ v # w
      BY <3>1, <1>7 DEF RecoveryInv, RunsApart
    <3>2. CASE u = w /\ v # w
      BY <3>2, <1>6, <1>7, <1>8
    <3>3. CASE u # w /\ v = w
      BY <3>3, <1>6, <1>7, <1>8
    <3> QED
      BY <3>1, <3>2, <3>3
  <2>4. \A v \in Workers : Held(v)' < nextRun
    <3> SUFFICES ASSUME NEW v \in Workers PROVE Held(v)' < nextRun
      OBVIOUS
    <3>1. CASE v = w
      BY <3>1, <1>6, Numbers
    <3>2. CASE v # w
      BY <3>2, <1>7 DEF RecoveryInv, RunsApart
    <3> QED
      BY <3>1, <3>2
  <2> QED
    BY <1>1, <2>1, <2>2, <2>3, <2>4 DEF RunsApart
<1>11. RunsInFlight'
  <2>1. "claimed" \notin WithRun
    BY DEF WithRun
  <2> QED
    BY <1>1, <1>4, <1>5, <1>9, <2>1 DEF RecoveryInv, RunsInFlight
<1>11a. RowsNamed'
  <2> SUFFICES ASSUME NEW v \in Workers, Held(v)' \in DOMAIN runs, claim'[v].id \in DOMAIN queue
               PROVE  queue'[claim'[v].id].run = Held(v)'
    BY <1>1, <1>4 DEF RowsNamed
  <2>1. CASE v = w
    BY <2>1, <1>4, <1>5, <1>6
  <2>2. CASE v # w
    BY <2>2, <1>5, <1>7, <1>9 DEF RecoveryInv, RowsNamed
  <2> QED
    BY <2>1, <2>2
<1>12. Stamps'
  <2>1. \A k \in DOMAIN queue' : queue'[k].started <= epoch
    BY <1>4, Numbers DEF RecoveryInv, Stamps
  <2>2. \A k \in Pending' : k \in Pending
    BY <1>2, <1>4 DEF Pending
  <2> QED
    BY <1>1, <1>9, <2>1, <2>2 DEF RecoveryInv, Stamps, Pending
<1>13. EndedSinceClaim' = EndedSinceClaim
  <2>1. i \notin EndedSinceClaim'
    <3> SUFFICES ASSUME queue[i].run \in DOMAIN runs
                 PROVE  ~ (runs[queue[i].run].finished >= epoch)
      BY <1>1, <1>4 DEF EndedSinceClaim
    <3> QED
      BY <1>2, Numbers DEF RecoveryInv, Stamps
  <2>2. i \notin EndedSinceClaim
    BY <1>2 DEF EndedSinceClaim, Running, Pending
  <2>3. \A k \in DOMAIN queue : k # i => (k \in EndedSinceClaim' <=> k \in EndedSinceClaim)
    BY <1>1, <1>4 DEF EndedSinceClaim, Running
  <2>4. EndedSinceClaim \subseteq DOMAIN queue /\ EndedSinceClaim' \subseteq DOMAIN queue
    BY <1>4 DEF EndedSinceClaim, Running
  <2> QED
    BY <2>1, <2>2, <2>3, <2>4
<1>14. BuiltOnce'
  <2> SUFFICES ASSUME NothingReaped
               PROVE  /\ \A k \in built' : k < nextRow'
                      /\ built' \cap Pending' = {}
                      /\ built' \cap Running' \subseteq EndedSinceClaim'
                      /\ \A v \in Workers : pc'[v] \in Unended => claim'[v].id \notin built'
                      /\ \A v \in Workers : Held(v)' \in DOMAIN runs' \cup {NoRun}
    BY DEF BuiltOnce, NothingReaped
  <2>1. i \notin built
    BY <1>2 DEF RecoveryInv, BuiltOnce
  <2>2. built' \cap Pending' = {} /\ built' \cap Running' \subseteq EndedSinceClaim'
    BY <1>1, <1>4, <1>13, <2>1 DEF RecoveryInv, BuiltOnce, Pending, Running
  <2>3. \A v \in Workers : pc'[v] \in Unended => claim'[v].id \notin built'
    BY <1>1, <1>5, <2>1 DEF RecoveryInv, BuiltOnce
  <2>4. ASSUME NEW v \in Workers
        PROVE  Held(v)' \in DOMAIN runs' \cup {NoRun}
    <3>1. CASE v = w
      BY <3>1, <1>1, <1>6 DEF Inv, TableInv, ForeignKeys
    <3>2. CASE v # w
      BY <3>2, <1>1, <1>7 DEF RecoveryInv, BuiltOnce
    <3> QED
      BY <3>1, <3>2
  <2> QED
    BY <1>1, <2>2, <2>3, <2>4 DEF RecoveryInv, BuiltOnce
<1> QED
  BY <1>1, <1>10, <1>11, <1>11a, <1>12, <1>13, <1>14 DEF RecoveryInv, EndsAreBuilds

\* The drain, from the wait for work to a registered build (runner.go:383-516).
LEMMA DrainRecovers ==
    ASSUME Inv, Inv', RecoveryInv, NEW w \in Workers, Drain(w)
    PROVE  RecoveryInv'
<1> USE DEF workerVars, requestVars, storeVars, volatile
<1>1. CASE Admit(w) \/ TakeSlot(w) \/ NothingClaimable(w) \/ Leave(w)
  <2>1. /\ UNCHANGED <<queue, nextRow, runs, nextRun, epoch, built, claim, run>>
        /\ \E p \in {"admitted", "slotted", "idle", "off"} : pc' = [pc EXCEPT ![w] = p]
    BY <1>1 DEF Admit, TakeSlot, NothingClaimable, Leave, Go
  <2>2. PICK p \in {"admitted", "slotted", "idle", "off"} : pc' = [pc EXCEPT ![w] = p]
    BY <2>1
  <2>3. p # "claimed" /\ p \notin InRunning /\ p \notin WithRun /\ p \notin Unended
    BY DEF InRunning, WithRun, Unended
  <2>4. CalmWorkers
    BY <2>1, <2>2, <2>3, WorkerGoesOn
  <2> QED
    BY <2>1, <2>4, Untouched, CalmStep
<1>2. CASE \E i \in DOMAIN queue : Claim(w, i)
  BY <1>2, ClaimRecovers
<1>3. CASE DropJob(w) \/ Skip(w)
  <2>1. UNCHANGED <<nextRow, runs, nextRun, epoch, built>> /\ Idle(w)
    BY <1>3 DEF DropJob, Skip
  <2>2. \E i, s : s \notin Unfinished /\ CompleteJob(i, s)
    BY <1>3 DEF DropJob, Skip, Unfinished
  <2>3. CalmRows /\ CalmWorkers
    BY <2>1, <2>2, CloseCalm, WorkerIdles
  <2> QED
    BY <2>1, <2>3, CalmStep
<1>4. CASE Register(w)
  <2>1. UNCHANGED <<queue, nextRow, runs, nextRun, epoch, built, claim>>
    BY <1>4 DEF Register
  <2>2. /\ pc[w] = "claimed" /\ pc' = [pc EXCEPT ![w] = "registered"]
        /\ \E r \in {NoRun, claim[w].resume} : run' = [run EXCEPT ![w] = r]
    BY <1>4 DEF Register, At, Go
  <2>3. \A v \in Workers : /\ pc'[v] = IF v = w THEN "registered" ELSE pc[v]
                           /\ v # w => run'[v] = run[v]
                           /\ v = w => run'[v] \in {NoRun, claim[w].resume}
    BY <2>2 DEF Inv, OthersTyped
  <2>4. CalmWorkers
    <3> SUFFICES ASSUME NEW v \in Workers
                 PROVE  /\ Held(v)' # NoRun => Held(v)' = Held(v) /\ claim'[v] = claim[v]
                        /\ pc'[v] \in WithRun => /\ pc[v] \in WithRun /\ run'[v] = run[v]
                                                 /\ claim'[v] = claim[v]
                        /\ pc'[v] \in Unended => pc[v] \in Unended /\ claim'[v] = claim[v]
      BY DEF CalmWorkers
    <3>1. CASE v = w
      <4>1. Held(v)' = run'[v] /\ Held(v) = claim[w].resume
        BY <2>2, <2>3, <3>1 DEF Held, InRunning
      <4>2. pc'[v] \notin WithRun /\ pc[v] \in Unended
        BY <2>2, <2>3, <3>1 DEF WithRun, Unended
      <4> QED
        BY <2>1, <2>3, <3>1, <4>1, <4>2
    <3>2. CASE v # w
      BY <2>1, <2>3, <3>2 DEF Held
    <3> QED
      BY <3>1, <3>2
  <2> QED
    BY <2>1, <2>4, Untouched, CalmStep
<1> QED
  BY <1>1, <1>2, <1>3, <1>4 DEF Drain

\* A new run (runs.go StartRun) is of an id nobody has, and its row names it.
LEMMA BeginRecovers ==
    ASSUME Inv, Inv', RecoveryInv, NEW w \in Workers, BeginRun(w)
    PROVE  RecoveryInv'
<1>1. UNCHANGED <<nextRow, epoch, built, claim>>
  BY DEF BeginRun
<1> DEFINE mine == claim[w].id
<1>2. pc[w] = "registered" /\ run[w] = NoRun /\ nextRun' = nextRun + 1
  BY DEF BeginRun, At, StartRun
<1>3. /\ DOMAIN queue' = DOMAIN queue
      /\ \A i \in DOMAIN queue : /\ i # mine => queue'[i] = queue[i]
                                 /\ queue'[i].run = IF i = mine THEN nextRun ELSE queue[i].run
                                 /\ queue'[i].status = queue[i].status
                                 /\ queue'[i].started = queue[i].started
  <2>1. \A i \in DOMAIN queue : queue[i] \in Row
    BY DEF Inv, TableInv, TablesTyped
  <2> QED
    BY <2>1 DEF BeginRun, StartRun, Row
<1>4. /\ DOMAIN runs' = DOMAIN runs \cup {nextRun}
      /\ runs'[nextRun].status = "running" /\ runs'[nextRun].finished = 0
      /\ \A r \in DOMAIN runs : r # nextRun => runs'[r] = runs[r]
  BY DEF BeginRun, StartRun
<1>5. \A r \in DOMAIN runs : r # nextRun
  BY Numbers
<1>6. PICK p \in {"building", "minted"} : pc' = [pc EXCEPT ![w] = p]
  BY DEF BeginRun, Go
<1>7. \A v \in Workers : /\ pc'[v] = IF v = w THEN p ELSE pc[v]
                         /\ run'[v] = IF v = w THEN nextRun ELSE run[v]
  BY <1>6 DEF BeginRun, Inv, OthersTyped
<1>8. Held(w)' = nextRun /\ Held(w) = NoRun
  BY <1>2, <1>7 DEF Held, InRunning
<1>9. \A v \in Workers : v # w => Held(v)' = Held(v)
  BY <1>1, <1>7 DEF Held
<1>10. \A v \in Workers : Held(v) # nextRun
  BY Numbers DEF RecoveryInv, RunsApart
<1>11. \A i \in DOMAIN queue : queue[i].run # nextRun
  BY Numbers
<1> HIDE DEF mine
<1>12. RunsApart'
  <2>1. \A k, l \in DOMAIN queue' :
           queue'[k].run = queue'[l].run /\ queue'[k].run # NoRun => k = l
    BY <1>3, <1>11 DEF RecoveryInv, RunsApart
  <2>2. \A v \in Workers, k \in DOMAIN queue' :
           queue'[k].run = Held(v)' /\ Held(v)' # NoRun => k = claim'[v].id
    <3> SUFFICES ASSUME NEW v \in Workers, NEW k \in DOMAIN queue,
                        queue'[k].run = Held(v)', Held(v)' # NoRun
                 PROVE  k = claim[v].id
      BY <1>1, <1>3
    <3>1. CASE v = w
      BY <3>1, <1>3, <1>8, <1>11 DEF mine
    <3>2. CASE v # w
      <4>1. Held(v)' = Held(v) /\ k # mine
        BY <3>2, <1>3, <1>9, <1>10
      <4> QED
        BY <4>1, <1>3 DEF RecoveryInv, RunsApart
    <3> QED
      BY <3>1, <3>2
  <2>3. \A u, v \in Workers : Held(u)' = Held(v)' /\ Held(u)' # NoRun => u = v
    <3> SUFFICES ASSUME NEW u \in Workers, NEW v \in Workers, Held(u)' = Held(v)',
                        Held(u)' # NoRun
                 PROVE  u = v
      OBVIOUS
    <3>1. CASE u # w /\ v # w
      BY <3>1, <1>9 DEF RecoveryInv, RunsApart
    <3> QED
      BY <3>1, <1>8, <1>9, <1>10
  <2>4. \A v \in Workers : Held(v)' < nextRun'
    <3> SUFFICES ASSUME NEW v \in Workers PROVE Held(v)' < nextRun'
      OBVIOUS
    <3>1. CASE v = w
      BY <3>1, <1>2, <1>8, Numbers
    <3>2. CASE v # w
      <4>1. Held(v) \in Nat /\ Held(v) < nextRun
        BY HeldNat DEF RecoveryInv, RunsApart
      <4> QED
        BY <3>2, <4>1, <1>2, <1>9, Numbers
    <3> QED
      BY <3>1, <3>2
  <2> QED
    BY <2>1, <2>2, <2>3, <2>4 DEF RunsApart
<1>13. RunsInFlight'
  <2> SUFFICES ASSUME NEW v \in Workers, pc'[v] \in WithRun
               PROVE  run'[v] \in DOMAIN runs' /\ runs'[run'[v]].status = "running"
    BY DEF RunsInFlight
  <2>1. CASE v = w
    BY <2>1, <1>4, <1>7
  <2>2. CASE v # w
    BY <2>2, <1>4, <1>5, <1>7 DEF RecoveryInv, RunsInFlight
  <2> QED
    BY <2>1, <2>2
<1>13a. RowsNamed'
  <2> SUFFICES ASSUME NEW v \in Workers, Held(v)' \in DOMAIN runs', claim[v].id \in DOMAIN queue
               PROVE  queue'[claim[v].id].run = Held(v)'
    BY <1>1, <1>3 DEF RowsNamed
  <2>1. CASE v = w
    BY <2>1, <1>3, <1>8 DEF mine
  <2>2. CASE v # w
    <3>1. Held(v)' = Held(v) /\ Held(v) \in DOMAIN runs
      BY <2>2, <1>4, <1>9, <1>10
    <3>2. Held(v) # NoRun
      BY <3>1, Numbers DEF NoRun
    <3>3. claim[v].id # mine
      BY <2>2, <3>2, <1>2 DEF mine, Inv, Ownership, Held, Owning, InRunning
    <3> QED
      BY <3>1, <3>3, <1>3 DEF RecoveryInv, RowsNamed
  <2> QED
    BY <2>1, <2>2
<1>14. mine \notin Pending
  <2>1. pc[w] \in Owning
    BY <1>2 DEF Owning, InRunning
  <2> QED
    BY <2>1 DEF mine, Inv, Ownership, Has, Pending
<1>15. Stamps'
  <2>1. \A i \in DOMAIN queue' : queue'[i].started <= epoch
    BY <1>3 DEF RecoveryInv, Stamps
  <2>2. \A r \in DOMAIN runs' : runs'[r].finished <= epoch
    BY <1>4, <1>5, Numbers DEF RecoveryInv, Stamps
  <2>3. \A i \in Pending' : /\ i \in Pending /\ i # mine /\ i \in DOMAIN queue
                            /\ queue'[i].run = queue[i].run
    BY <1>3, <1>14 DEF Pending
  <2>4. ASSUME NEW i \in Pending', queue'[i].run \in DOMAIN runs'
        PROVE  runs'[queue'[i].run].finished < epoch
    <3>1. queue[i].run \in DOMAIN runs
      BY <2>3, <2>4, <1>4, <1>11
    <3> QED
      BY <2>3, <3>1, <1>4, <1>5 DEF RecoveryInv, Stamps
  <2> QED
    BY <1>1, <2>1, <2>2, <2>4 DEF Stamps
<1>16. \A i \in DOMAIN queue : i # mine => (i \in EndedSinceClaim' <=> i \in EndedSinceClaim)
  <2> SUFFICES ASSUME NEW i \in DOMAIN queue, i # mine
               PROVE  i \in EndedSinceClaim' <=> i \in EndedSinceClaim
    OBVIOUS
  <2>1. queue[i].run # nextRun /\ queue'[i] = queue[i]
    BY <1>3, <1>11
  <2> QED
    BY <2>1, <1>3, <1>4, <1>5 DEF EndedSinceClaim, Running
<1>17. mine \notin EndedSinceClaim'
  BY <1>3, <1>4 DEF EndedSinceClaim, Running
<1>18. EndsAreBuilds'
  BY <1>1, <1>3, <1>16, <1>17 DEF RecoveryInv, EndsAreBuilds, EndedSinceClaim, Running
<1>19. ASSUME NothingReaped
       PROVE  BuiltOnce'
  <2>1. mine \notin built
    BY <1>2, <1>19 DEF mine, RecoveryInv, BuiltOnce, Unended
  <2>2. built' \cap Pending' = {} /\ built' \cap Running' \subseteq EndedSinceClaim'
    BY <1>1, <1>3, <1>16, <1>19, <2>1 DEF RecoveryInv, BuiltOnce, Pending, Running
  <2>3. \A v \in Workers : pc'[v] \in Unended => claim'[v].id \notin built'
    BY <1>1, <1>7, <1>19, <2>1 DEF mine, RecoveryInv, BuiltOnce
  <2>4. \A v \in Workers : Held(v)' \in DOMAIN runs' \cup {NoRun}
    BY <1>4, <1>8, <1>9, <1>19 DEF RecoveryInv, BuiltOnce
  <2> QED
    BY <1>1, <1>19, <2>2, <2>3, <2>4 DEF RecoveryInv, BuiltOnce
<1> QED
  BY <1>12, <1>13, <1>13a, <1>15, <1>18, <1>19 DEF RecoveryInv, BuiltOnce, NothingReaped

\* A resume (runs.go ResumeRun) puts the run its row names back in flight.
LEMMA ContinueRecovers ==
    ASSUME Inv, Inv', RecoveryInv, NEW w \in Workers, ContinueRun(w), run[w] \in DOMAIN runs
    PROVE  RecoveryInv'
<1>1. UNCHANGED <<queue, nextRow, nextRun, epoch, built, claim, run>>
  BY DEF ContinueRun
<1>2. pc[w] = "registered" /\ run[w] # NoRun /\ pc' = [pc EXCEPT ![w] = "building"]
  BY DEF ContinueRun, At, Go
<1>3. runs[run[w]] \in Run
  BY DEF Inv, TableInv, TablesTyped
<1>4. /\ DOMAIN runs' = DOMAIN runs
      /\ runs'[run[w]].status = "running" /\ runs'[run[w]].finished = 0
      /\ \A r \in DOMAIN runs : r # run[w] => runs'[r] = runs[r]
  BY <1>3 DEF ContinueRun, ResumeRun, Run
<1>5. \A v \in Workers : pc'[v] = IF v = w THEN "building" ELSE pc[v]
  BY <1>2 DEF Inv, OthersTyped
<1>6. \A v \in Workers : Held(v)' = Held(v)
  BY <1>1, <1>2, <1>5 DEF Held, InRunning
<1>7. Held(w) = run[w]
  BY <1>2 DEF Held, InRunning
<1>8. RunsApart' /\ RowsNamed'
  BY <1>1, <1>4, <1>6 DEF RecoveryInv, RunsApart, RowsNamed
<1>9. RunsInFlight'
  BY <1>1, <1>4, <1>5 DEF RecoveryInv, RunsInFlight
<1>10. Stamps'
  <2>1. \A r \in DOMAIN runs' : runs'[r].finished <= epoch
    BY <1>4, Numbers DEF RecoveryInv, Stamps
  <2>2. \A i \in Pending : queue[i].run # run[w]
    <3>1. pc[w] \in Owning
      BY <1>2 DEF Owning, InRunning
    <3> QED
      BY <1>2, <1>7, <3>1 DEF RecoveryInv, RunsApart, Inv, Ownership, Has, Pending
  <2> QED
    BY <1>1, <1>4, <2>1, <2>2 DEF RecoveryInv, Stamps, Pending
<1>11. \A i \in DOMAIN queue : /\ queue[i].run = run[w] => i = claim[w].id
                               /\ i \in EndedSinceClaim' => i \in EndedSinceClaim
                               /\ i \in EndedSinceClaim /\ i # claim[w].id => i \in EndedSinceClaim'
  BY <1>1, <1>2, <1>4, <1>7 DEF RecoveryInv, RunsApart, EndedSinceClaim, Running
<1>12. EndsAreBuilds'
  BY <1>1, <1>11 DEF RecoveryInv, EndsAreBuilds, EndedSinceClaim, Running
<1>13. ASSUME NothingReaped
       PROVE  BuiltOnce'
  <2>1. pc[w] \in Unended /\ "building" \in Unended
    BY <1>2 DEF Unended, WithRun
  <2>2. claim[w].id \notin built
    BY <1>13, <2>1 DEF RecoveryInv, BuiltOnce
  <2>3. built' \cap Pending' = {} /\ built' \cap Running' \subseteq EndedSinceClaim'
    BY <1>1, <1>11, <1>13, <2>2 DEF RecoveryInv, BuiltOnce, Pending, Running
  <2>4. \A v \in Workers : /\ pc'[v] \in Unended => claim'[v].id \notin built'
                           /\ Held(v)' \in DOMAIN runs' \cup {NoRun}
    BY <1>1, <1>4, <1>5, <1>6, <1>13, <2>1 DEF RecoveryInv, BuiltOnce
  <2> QED
    BY <1>1, <1>13, <2>3, <2>4 DEF RecoveryInv, BuiltOnce
<1> QED
  BY <1>8, <1>9, <1>10, <1>12, <1>13 DEF RecoveryInv, BuiltOnce, NothingReaped

\* The end of a run (runs.go FinishRun), written by the worker that holds its
\* row, now a build on record.
LEMMA EndRecovers ==
    ASSUME Inv, Inv', RecoveryInv, NEW w \in Workers, NEW s \in RunEnds,
           pc[w] \in InRunning, FinishRun(run[w], s), run[w] \in DOMAIN runs,
           built' = built \cup {claim[w].id},
           NEW p \in InRunning \ Unended, pc' = [pc EXCEPT ![w] = p],
           UNCHANGED <<queue, nextRow, nextRun, epoch, claim, run>>
    PROVE  RecoveryInv'
<1> DEFINE mine == claim[w].id
<1>1. runs[run[w]] \in Run
  BY DEF Inv, TableInv, TablesTyped
<1>2. /\ DOMAIN runs' = DOMAIN runs
      /\ runs'[run[w]].status # "running" /\ runs'[run[w]].finished = epoch
      /\ \A r \in DOMAIN runs : r # run[w] => runs'[r] = runs[r]
  BY <1>1 DEF FinishRun, Run, RunEnds
<1>3. run[w] # NoRun
  BY Numbers DEF NoRun
<1>4. pc[w] \in Owning /\ pc[w] # "claimed" /\ p # "claimed"
  BY DEF Owning, InRunning
<1>5. \A v \in Workers : pc'[v] = IF v = w THEN p ELSE pc[v]
  BY DEF Inv, OthersTyped
<1>6. \A v \in Workers : Held(v)' = Held(v)
  BY <1>4, <1>5 DEF Held
<1>7. Held(w) = run[w]
  BY <1>4 DEF Held
<1>8. mine < nextRow /\ mine \notin Pending
  BY <1>4, HeldIds DEF Inv, Ownership, Has, Pending
<1>9. \A i \in DOMAIN queue : queue[i].run = run[w] => i = mine
  BY <1>3, <1>7 DEF RecoveryInv, RunsApart
<1> HIDE DEF mine
<1>10. RunsApart' /\ RowsNamed'
  BY <1>2, <1>6 DEF RecoveryInv, RunsApart, RowsNamed
<1>11. RunsInFlight'
  <2> SUFFICES ASSUME NEW v \in Workers, pc'[v] \in WithRun
               PROVE  run[v] \in DOMAIN runs' /\ runs'[run[v]].status = "running"
    BY DEF RunsInFlight
  <2>1. v # w /\ pc[v] \in WithRun
    BY <1>5 DEF Unended
  <2>2. Held(v) = run[v]
    BY <2>1 DEF Held, WithRun, InRunning
  <2>3. run[v] # run[w]
    BY <1>3, <1>7, <2>1, <2>2 DEF RecoveryInv, RunsApart
  <2> QED
    BY <1>2, <2>1, <2>3 DEF RecoveryInv, RunsInFlight
<1>12. Stamps'
  <2>1. \A r \in DOMAIN runs' : runs'[r].finished <= epoch
    BY <1>2, Numbers DEF RecoveryInv, Stamps
  <2>2. \A i \in Pending : queue[i].run # run[w]
    BY <1>8, <1>9 DEF Pending
  <2> QED
    BY <1>2, <2>1, <2>2 DEF RecoveryInv, Stamps, Pending
<1>13. EndsAreBuilds'
  <2> SUFFICES ASSUME NEW i \in EndedSinceClaim', i # mine
               PROVE  i \in EndedSinceClaim
    BY DEF RecoveryInv, EndsAreBuilds, mine
  <2> QED
    BY <1>2, <1>9 DEF EndedSinceClaim, Running
<1>14. ASSUME NothingReaped
       PROVE  BuiltOnce'
  <2>1. mine \in DOMAIN queue
    BY <1>4, <1>14 DEF mine, Inv, Ownership
  <2>2. queue[mine].run = run[w]
    BY <1>7, <2>1 DEF RecoveryInv, RowsNamed, mine
  <2>3. \A i \in DOMAIN queue : queue[i].started <= epoch
    BY DEF RecoveryInv, Stamps
  <2>4. \A i \in Running : queue[i].run = run[w] => i \in EndedSinceClaim'
    BY <1>2, <2>3, Numbers DEF EndedSinceClaim, Running
  <2>5. \A i \in EndedSinceClaim : queue[i].run # run[w] => i \in EndedSinceClaim'
    BY <1>2 DEF EndedSinceClaim, Running
  <2>6. built' \cap Running' \subseteq EndedSinceClaim'
    BY <1>14, <2>2, <2>4, <2>5 DEF RecoveryInv, BuiltOnce, Running, mine
  <2>7. built' \cap Pending' = {} /\ \A i \in built' : i < nextRow'
    BY <1>8, <1>14 DEF RecoveryInv, BuiltOnce, Pending, mine
  <2>8. ASSUME NEW v \in Workers, pc'[v] \in Unended
        PROVE  claim[v].id \notin built'
    <3>1. v # w /\ pc[v] \in Unended /\ pc[v] \in Owning
      BY <1>5, <2>8 DEF Unended, WithRun, Owning, InRunning
    <3>2. claim[v].id # mine
      BY <1>4, <3>1 DEF Inv, Ownership, mine
    <3> QED
      BY <1>14, <3>1, <3>2 DEF RecoveryInv, BuiltOnce, mine
  <2>9. \A v \in Workers : Held(v)' \in DOMAIN runs' \cup {NoRun}
    BY <1>2, <1>6, <1>14 DEF RecoveryInv, BuiltOnce
  <2> QED
    BY <2>6, <2>7, <2>8, <2>9 DEF BuiltOnce
<1> QED
  BY <1>10, <1>11, <1>12, <1>13, <1>14 DEF RecoveryInv, BuiltOnce, NothingReaped

\* Retention (retention.go:186-215) deletes runs that ended, their retries with
\* them, and leaves the other rows nothing of a run that is gone.
LEMMA PruneRecovers ==
    ASSUME Inv, Inv', RecoveryInv, NEW w \in Workers, PruneRunHistory(w)
    PROVE  RecoveryInv'
<1> DEFINE gone == Reaped(claim[w].job, run[w])
<1>1. UNCHANGED <<nextRow, nextRun, epoch, claim, run, built>>
  BY DEF PruneRunHistory
<1>2. pc[w] = "ended" /\ pc' = [pc EXCEPT ![w] = "pruned"]
  BY DEF PruneRunHistory, At, Go
<1>3. CalmWorkers
  BY <1>1, <1>2, WorkerGoesOn DEF InRunning, WithRun, Unended
<1>4. /\ DOMAIN runs' = DOMAIN runs \ gone
      /\ \A r \in DOMAIN runs' : runs'[r] = runs[r]
  BY DEF PruneRunHistory, PruneRuns
<1>5. /\ DOMAIN queue' = DOMAIN queue \ {i \in DOMAIN queue : queue[i].rerunOf \in gone}
      /\ \A i \in DOMAIN queue' : queue'[i] = IF queue[i].run \in gone
                                              THEN [queue[i] EXCEPT !.run = NoRun] ELSE queue[i]
  BY DEF PruneRunHistory, PruneRuns
<1>6. \A r \in gone : r \in DOMAIN runs /\ runs[r].status # "running"
  BY DEF Reaped
<1>7. NothingReaped => gone = {}
  BY DEF NothingReaped, Reaped
<1> HIDE DEF gone
<1>8. \A i \in DOMAIN queue' :
         /\ i \in DOMAIN queue
         /\ queue'[i].run = IF queue[i].run \in gone THEN NoRun ELSE queue[i].run
         /\ queue'[i].status = queue[i].status /\ queue'[i].started = queue[i].started
  <2>1. \A i \in DOMAIN queue : queue[i] \in Row
    BY DEF Inv, TableInv, TablesTyped
  <2>2. \A i \in DOMAIN queue : LET e == [queue[i] EXCEPT !.run = NoRun]
                                IN  /\ e.run = NoRun /\ e.status = queue[i].status
                                    /\ e.started = queue[i].started
    BY <2>1 DEF Row
  <2> QED
    BY <1>5, <2>2
<1>9. \A v \in Workers : Held(v)' = Held(v) \/ Held(v)' = NoRun
  BY <1>3 DEF CalmWorkers
<1>10. \A i \in DOMAIN queue' : queue'[i].run # NoRun =>
          i \in DOMAIN queue /\ queue'[i].run = queue[i].run
  BY <1>8
<1>11. RunsApart'
  <2>1. \A i, k \in DOMAIN queue' :
           queue'[i].run = queue'[k].run /\ queue'[i].run # NoRun => i = k
    BY <1>10 DEF RecoveryInv, RunsApart
  <2>2. \A v \in Workers, i \in DOMAIN queue' :
           queue'[i].run = Held(v)' /\ Held(v)' # NoRun => i = claim'[v].id
    BY <1>1, <1>9, <1>10 DEF RecoveryInv, RunsApart
  <2>3. \A u, v \in Workers : Held(u)' = Held(v)' /\ Held(u)' # NoRun => u = v
    BY <1>9 DEF RecoveryInv, RunsApart
  <2>4. \A v \in Workers : Held(v)' < nextRun'
    BY <1>1, <1>9, Numbers DEF RecoveryInv, RunsApart, NoRun
  <2> QED
    BY <2>1, <2>2, <2>3, <2>4 DEF RunsApart
<1>12. RunsInFlight'
  BY <1>1, <1>3, <1>4, <1>6 DEF RecoveryInv, RunsInFlight, CalmWorkers
<1>13. RowsNamed'
  <2> SUFFICES ASSUME NEW v \in Workers, Held(v)' \in DOMAIN runs', claim[v].id \in DOMAIN queue'
               PROVE  queue'[claim[v].id].run = Held(v)'
    BY <1>1 DEF RowsNamed
  <2>1. Held(v)' = Held(v) /\ Held(v) \in DOMAIN runs /\ Held(v) \notin gone
    BY <1>4, <1>9, Numbers DEF NoRun
  <2> QED
    BY <1>8, <2>1 DEF RecoveryInv, RowsNamed
<1>14. Stamps'
  <2>1. \A i \in Pending' : i \in Pending
    BY <1>8 DEF Pending
  <2>2. \A i \in DOMAIN queue' : queue'[i].run \in DOMAIN runs' => queue'[i].run = queue[i].run
    BY <1>4, <1>8, Numbers DEF NoRun
  <2> QED
    BY <1>1, <1>4, <1>8, <2>1, <2>2 DEF RecoveryInv, Stamps, Pending
<1>15. EndsAreBuilds'
  <2> SUFFICES ASSUME NEW i \in EndedSinceClaim'
               PROVE  i \in EndedSinceClaim
    BY <1>1 DEF RecoveryInv, EndsAreBuilds
  <2>1. queue'[i].run = queue[i].run /\ i \in DOMAIN queue'
    BY <1>4, <1>8, Numbers DEF NoRun, EndedSinceClaim, Running
  <2> QED
    BY <1>4, <1>8, <2>1 DEF EndedSinceClaim, Running
<1>16. ASSUME NothingReaped
       PROVE  BuiltOnce'
  <2>1. /\ DOMAIN queue' = DOMAIN queue /\ \A i \in DOMAIN queue : queue'[i] = queue[i]
        /\ DOMAIN runs' = DOMAIN runs /\ \A r \in DOMAIN runs : runs'[r] = runs[r]
    BY <1>4, <1>5, <1>7, <1>16
  <2>2. Pending' = Pending /\ Running' = Running /\ EndedSinceClaim' = EndedSinceClaim
    BY <2>1 DEF Pending, Running, EndedSinceClaim
  <2> QED
    BY <1>1, <1>3, <1>9, <1>16, <2>1, <2>2 DEF RecoveryInv, BuiltOnce, CalmWorkers
<1> QED
  BY <1>11, <1>12, <1>13, <1>14, <1>15, <1>16 DEF RecoveryInv, BuiltOnce, NothingReaped

\* Closing a row writes no run (runner.go:455-516).
LEMMA FinalizeRecovers ==
    ASSUME Inv, Inv', RecoveryInv, NEW w \in Workers, NEW aborted, NEW e,
           Finalize(w, aborted, e), UNCHANGED <<nextRow, runs, nextRun, epoch, built>>
    PROVE  RecoveryInv'
<1>1. CalmRows
  <2>1. UNCHANGED queue \/ \E i, s : s \notin Unfinished /\ CompleteJob(i, s)
    BY DEF Finalize, Unfinished
  <2> QED
    BY <2>1, Untouched, CloseCalm
<1>2. CalmWorkers
  <2>1. CASE Idle(w)
    BY <2>1, WorkerIdles
  <2>2. CASE Go(w, "recording") /\ UNCHANGED <<claim, run>>
    BY <2>2, WorkerGoesOn DEF Go, InRunning, WithRun, Unended
  <2> QED
    BY <2>1, <2>2 DEF Finalize
<1> QED
  BY <1>1, <1>2, CalmStep

\* A build (job.go RunJob, runner.go:420-516).
LEMMA BuildRecovers ==
    ASSUME Inv, Inv', RecoveryInv, NEW w \in Workers, Build(w)
    PROVE  RecoveryInv'
<1> USE DEF requestVars, storeVars
<1>0. Unwinding \in {"returned", "ended"}
  BY DEF Unwinding
<1>1. CASE RefuseRerun(w) \/ Return(w)
  <2>1. /\ UNCHANGED <<nextRow, runs, nextRun, epoch, built>>
        /\ \E aborted, e : Finalize(w, aborted, e)
    BY <1>1 DEF RefuseRerun, Return
  <2> QED
    BY <2>1, FinalizeRecovers
<1>2. CASE RefuseBuild(w) \/ BuildEnds(w) \/ RecordRunRerun(w)
  <2>1. UNCHANGED <<queue, nextRow, runs, nextRun, epoch, built, claim, run>>
    BY <1>2 DEF RefuseBuild, BuildEnds, RecordRunRerun
  <2>2. PICK p \in {"returned", "ended", "built", "building"} :
           /\ pc' = [pc EXCEPT ![w] = p]
           /\ p \in {"built", "building"} => pc[w] \in {"minted", "building"}
           /\ pc[w] \in {"registered", "minted", "building"}
    BY <1>0, <1>2 DEF RefuseBuild, BuildEnds, RecordRunRerun, At, Go
  <2>3. /\ p # "claimed" /\ pc[w] \in InRunning
        /\ p \in WithRun => pc[w] \in WithRun
        /\ p \in Unended => pc[w] \in Unended
    BY <2>2 DEF InRunning, WithRun, Unended
  <2>4. CalmWorkers
    BY <2>1, <2>2, <2>3, WorkerGoesOn
  <2> QED
    BY <2>1, <2>4, Untouched, CalmStep
<1>3. CASE BeginRun(w)
  BY <1>3, BeginRecovers
<1>4. CASE ContinueRun(w)
  <2>1. CASE run[w] \in DOMAIN runs
    BY <1>4, <2>1, ContinueRecovers
  <2>2. CASE run[w] \notin DOMAIN runs
    <3>1. UNCHANGED <<queue, nextRow, runs, nextRun, epoch, built, claim, run>>
      BY <1>4, <2>2 DEF ContinueRun
    <3>2. PICK p \in {"returned", "ended"} : pc' = [pc EXCEPT ![w] = p]
      BY <1>0, <1>4, <2>2 DEF ContinueRun, Go
    <3>3. p # "claimed" /\ pc[w] \in InRunning /\ p \notin WithRun /\ p \notin Unended
      BY <1>4 DEF ContinueRun, At, InRunning, WithRun, Unended
    <3>4. CalmWorkers
      BY <3>1, <3>2, <3>3, WorkerGoesOn
    <3> QED
      BY <3>1, <3>4, Untouched, CalmStep
  <2> QED
    BY <2>1, <2>2
<1>5. CASE Finish(w)
  <2>1. /\ UNCHANGED <<queue, nextRow, nextRun, epoch, claim, run>>
        /\ pc[w] = "built" /\ pc' = [pc EXCEPT ![w] = Unwinding]
    BY <1>5 DEF Finish, At, Go
  <2>2. /\ Unwinding \in InRunning \ Unended /\ pc[w] \in InRunning /\ pc[w] \in WithRun
        /\ Unwinding # "claimed" /\ Unwinding \notin WithRun
    BY <1>0, <2>1 DEF InRunning, Unended, WithRun
  <2>3. CASE UNCHANGED <<runs, built>>
    <3>1. CalmWorkers
      BY <2>1, <2>2, WorkerGoesOn
    <3> QED
      BY <2>1, <2>3, <3>1, Untouched, CalmStep
  <2>4. CASE ~ UNCHANGED <<runs, built>>
    <3>1. /\ \E s \in RunEnds : FinishRun(run[w], s)
          /\ built' = built \cup {claim[w].id}
      BY <1>5, <2>4 DEF Finish, RunEnds
    <3>2. run[w] \in DOMAIN runs
      BY <2>2 DEF RecoveryInv, RunsInFlight
    <3> QED
      BY <2>1, <2>2, <3>1, <3>2, EndRecovers
  <2> QED
    BY <2>3, <2>4
<1>6. CASE PruneRunHistory(w)
  BY <1>6, PruneRecovers
<1>7. CASE PruneQueueHistory(w)
  <2>1. /\ UNCHANGED <<nextRow, runs, nextRun, epoch, built, claim, run>>
        /\ pc[w] = "pruned" /\ pc' = [pc EXCEPT ![w] = "returned"]
        /\ PruneTriggerQueue(claim[w].job)
    BY <1>7 DEF PruneQueueHistory, At, Go
  <2>2. CalmRows
    BY <2>1, CloseCalm
  <2>3. CalmWorkers
    BY <2>1, WorkerGoesOn DEF InRunning, WithRun, Unended
  <2> QED
    BY <2>1, <2>2, <2>3, CalmStep
<1>8. CASE Recover(w)
  <2>1. /\ UNCHANGED <<queue, nextRow, nextRun, epoch, claim, run>>
        /\ pc[w] = "returned" /\ pc' = [pc EXCEPT ![w] = "panicked"]
        /\ FinishRun(run[w], "failed")
        /\ built' = IF run[w] \in DOMAIN runs THEN built \cup {claim[w].id} ELSE built
    BY <1>8 DEF Recover, At, Go
  <2>2. /\ "panicked" \in InRunning \ Unended /\ pc[w] \in InRunning /\ "panicked" # "claimed"
        /\ "panicked" \notin WithRun /\ "failed" \in RunEnds
    BY <2>1 DEF InRunning, Unended, WithRun, RunEnds
  <2>3. CASE run[w] \in DOMAIN runs
    BY <2>1, <2>2, <2>3, EndRecovers
  <2>4. CASE run[w] \notin DOMAIN runs
    <3>1. runs' = runs
      <4>1. runs = [k \in DOMAIN runs |-> runs[k]]
        BY DEF Inv, TableInv, TablesTyped
      <4> QED
        BY <2>1, <2>4, <4>1 DEF FinishRun
    <3>2. CalmWorkers
      BY <2>1, <2>2, WorkerGoesOn
    <3> QED
      BY <2>1, <2>4, <3>1, <3>2, Untouched, CalmStep
  <2> QED
    BY <2>3, <2>4
<1>9. CASE RecordBreaker(w)
  <2>1. UNCHANGED <<queue, nextRow, runs, nextRun, epoch, built>> /\ Idle(w)
    BY <1>9 DEF RecordBreaker
  <2> QED
    BY <2>1, Untouched, WorkerIdles, CalmStep
<1> QED
  BY <1>1, <1>2, <1>3, <1>4, <1>5, <1>6, <1>7, <1>8, <1>9 DEF Build

\* Recovery (queue.go:221-305): nothing reads running any more, and what waits
\* was not built.
LEMMA StartRecovers ==
    ASSUME Inv, Inv', RecoveryInv, Start
    PROVE  RecoveryInv'
<1>1. /\ UNCHANGED <<nextRow, nextRun, claim, run, built>> /\ epoch' = epoch + 1
      /\ mode = "down" /\ pc' = [w \in Workers |-> "idle"] /\ ResetStaleRunning
  BY DEF Start
<1>2. \A w \in Workers : pc'[w] \notin WithRun /\ pc'[w] \notin Unended /\ Held(w)' = NoRun
  BY <1>1 DEF WithRun, Unended, Held, InRunning
<1>3. \A i \in DOMAIN queue : queue[i] \in Row
  BY DEF Inv, TableInv, TablesTyped
<1>4. \A r \in DOMAIN runs : runs[r] \in Run
  BY DEF Inv, TableInv, TablesTyped
<1>5. \A i \in DOMAIN queue : \A s :
         /\ LET e == [queue[i] EXCEPT !.status = s]
            IN  e.run = queue[i].run /\ e.started = queue[i].started /\ e.status = s
         /\ LET e == [queue[i] EXCEPT !.status = "pending", !.started = 0]
            IN  e.run = queue[i].run /\ e.started = 0 /\ e.status = "pending"
  BY <1>3 DEF Row
<1>6. \A i \in DOMAIN queue' :
         /\ i \in DOMAIN queue
         /\ queue'[i].run = queue[i].run
         /\ queue'[i].started = queue[i].started \/ queue'[i].started = 0
         /\ queue'[i].status = IF i \in EndedSinceClaim THEN runs[queue[i].run].status
                               ELSE IF i \in Running THEN "pending" ELSE queue[i].status
  BY <1>1, <1>5 DEF ResetStaleRunning
<1>7. \A i \in EndedSinceClaim :
         runs[queue[i].run].status # "running" /\ runs[queue[i].run].status # "pending"
  BY <1>4 DEF EndedSinceClaim, Run, RunStatus, RunEnds
<1>8. /\ DOMAIN runs' = DOMAIN runs
      /\ \A r \in DOMAIN runs : runs'[r].finished \in {runs[r].finished, epoch}
  <2>1. \A r \in DOMAIN runs :
           [runs[r] EXCEPT !.status = "aborted", !.finished = epoch].finished = epoch
    BY <1>4 DEF Run
  <2> QED
    BY <1>1, <2>1 DEF ResetStaleRunning
<1>9. RunsApart'
  BY <1>1, <1>2, <1>6, Numbers DEF RecoveryInv, RunsApart, NoRun
<1>10. RunsInFlight' /\ RowsNamed'
  BY <1>2, <1>8, Numbers DEF RunsInFlight, RowsNamed, NoRun
<1>11. \A r \in DOMAIN runs : runs'[r].finished \in Nat /\ runs'[r].finished <= epoch
  BY <1>8, Numbers DEF RecoveryInv, Stamps
<1>12. Stamps'
  <2>1. \A i \in DOMAIN queue' : queue'[i].started <= epoch + 1
    BY <1>6, Numbers DEF RecoveryInv, Stamps
  <2>2. \A r \in DOMAIN runs' : runs'[r].finished < epoch + 1 /\ runs'[r].finished <= epoch + 1
    BY <1>8, <1>11, Numbers
  <2> QED
    BY <1>1, <2>1, <2>2 DEF Stamps
<1>13. Running' = {}
  BY <1>6, <1>7 DEF Running
<1>14. EndsAreBuilds'
  BY <1>13 DEF EndsAreBuilds, EndedSinceClaim
<1>15. ASSUME NothingReaped
       PROVE  BuiltOnce'
  <2>1. built \cap Pending' = {}
    BY <1>6, <1>7, <1>15 DEF RecoveryInv, BuiltOnce, Pending, Running
  <2> QED
    BY <1>1, <1>2, <1>13, <1>15, <2>1 DEF RecoveryInv, BuiltOnce
<1> QED
  BY <1>9, <1>10, <1>12, <1>14, <1>15 DEF RecoveryInv, BuiltOnce, NothingReaped

\* The process (runner.go:708-748).
LEMMA ProcessRecovers ==
    ASSUME Inv, Inv', RecoveryInv, Process
    PROVE  RecoveryInv'
<1> USE DEF requestVars, storeVars, volatile
<1>1. CASE Start
  BY <1>1, StartRecovers
<1>2. CASE Stop \/ \E w \in Workers : CancelRun(w)
  <2>1. UNCHANGED <<runs, nextRun, epoch, built, pc, claim, run, queue, nextRow>>
    BY <1>2 DEF Stop, CancelRun
  <2> QED
    BY <2>1, Untouched, CalmStep
<1>3. CASE Exit \/ Crash
  <2>1. UNCHANGED <<runs, nextRun, epoch, built, queue, nextRow>> /\ NoProcess
    BY <1>3 DEF Exit, Crash
  <2>2. \A w \in Workers : pc'[w] \notin WithRun /\ pc'[w] \notin Unended /\ Held(w)' = NoRun
    BY <2>1 DEF NoProcess, WithRun, Unended, Held, InRunning
  <2>3. CalmWorkers
    BY <2>2 DEF CalmWorkers
  <2> QED
    BY <2>1, <2>3, Untouched, CalmStep
<1> QED
  BY <1>1, <1>2, <1>3 DEF Process

\* What recovery relies on holds of an empty database.
LEMMA InitRecovery == Init => RecoveryInv
<1> SUFFICES ASSUME Init PROVE RecoveryInv
  OBVIOUS
<1>1. DOMAIN queue = {} /\ DOMAIN runs = {} /\ built = {} /\ nextRun = 1
  BY DEF Init, StoreInit
<1>2. \A w \in Workers : pc[w] = "off" /\ pc[w] \notin WithRun /\ pc[w] \notin Unended
                         /\ Held(w) = NoRun
  BY DEF Init, WithRun, Unended, Held, InRunning
<1> QED
  BY <1>1, <1>2 DEF RecoveryInv, RunsApart, RunsInFlight, RowsNamed, Stamps, EndsAreBuilds,
     BuiltOnce, EndedSinceClaim, Running, Pending, NoRun

\* And every step keeps it.
LEMMA StepRecovery == Inv /\ Inv' /\ RecoveryInv /\ [Next]_vars => RecoveryInv'
<1> SUFFICES ASSUME Inv, Inv', RecoveryInv, [Next]_vars PROVE RecoveryInv'
  OBVIOUS
<1>1. CASE Next
  BY <1>1, RequestsRecover, ReconfigureRecovers, ProcessRecovers, DrainRecovers, BuildRecovers
     DEF Next
<1>2. CASE UNCHANGED vars
  <2>1. UNCHANGED <<runs, nextRun, epoch, built, pc, claim, run, queue, nextRow>>
    BY <1>2 DEF vars, storeVars, volatile
  <2> QED
    BY <2>1, Untouched, CalmStep
<1> QED
  BY <1>1, <1>2

\* A run is one row's and one worker's, and the stamps tell its end: the
\* invariant recovery rests on, whatever is retried, resumed, reaped or
\* interrupted (queue.go:221-305, runs.go StartRun, ResumeRun, FinishRun).
THEOREM RecoveryInvariance == Spec => []RecoveryInv
BY InitRecovery, StepRecovery, Invariance, PTL DEF Spec

\* Where retention reaps no run, a build whose end is on record is never
\* queued again, whatever write the process died before (queue.go:229).
THEOREM BuiltAtMostOnce ==
    ASSUME RunHistory = 0
    PROVE  Spec => []NothingBuiltTwice
<1>1. RecoveryInv => NothingBuiltTwice
  BY DEF RecoveryInv, BuiltOnce, NothingReaped, NothingBuiltTwice
<1> QED
  BY <1>1, RecoveryInvariance, PTL

-----------------------------------------------------------------------------
(* What a restart keeps.                                                   *)

\* A set of numbers has a least.
LEMMA LeastOf ==
    ASSUME NEW T \in SUBSET Nat, T # {}
    PROVE  \E x \in T : \A y \in T : x <= y
<1> DEFINE R == {ss \in Nat \X Nat : ss[1] < ss[2]}
<1>1. IsWellFoundedOn(R, Nat)
  BY NatLessThanWellFounded DEF OpToRel
<1>2. PICK x \in T : \A y \in T : ~ (<<y, x>> \in R)
  <2> HIDE DEF R
  <2> QED
    BY <1>1, WFMin
<1>3. \A y \in T : ~ (y < x)
  BY <1>2
<1> QED
  BY <1>3

\* Recovery (queue.go:221-305) leaves a pending row for every running one whose
\* run had not ended: itself, the pending one it yields to, or the oldest of
\* those it collapses into.
LEMMA InterruptedWaits ==
    ASSUME Inv, ResetStaleRunning, NEW i \in Running, i \notin EndedSinceClaim
    PROVE  \E k \in DOMAIN queue' : /\ k \in DOMAIN queue
                                    /\ queue'[k].status = "pending"
                                    /\ queue'[k].job = queue[i].job
                                    /\ queue'[k].job = queue[k].job
                                    /\ queue'[k].rerunOf = queue[i].rerunOf
                                    /\ queue'[k].run = queue[i].run
<1>1. \A k \in DOMAIN queue : queue[k] \in Row
  BY DEF Inv, TableInv, TablesTyped
<1>2. \A k \in DOMAIN queue :
         LET e == [queue[k] EXCEPT !.status = "pending", !.started = 0]
         IN  /\ e.job = queue[k].job /\ e.rerunOf = queue[k].rerunOf
             /\ e.run = queue[k].run /\ e.status = "pending"
  BY <1>1 DEF Row
<1>3. \A k \in DOMAIN queue \ (Superseded \cup Collapsed) :
         k \in Pending \cup Running /\ k \notin EndedSinceClaim =>
            /\ k \in DOMAIN queue' /\ queue'[k].status = "pending"
            /\ queue'[k].job = queue[k].job /\ queue'[k].rerunOf = queue[k].rerunOf
            /\ queue'[k].run = queue[k].run
  BY <1>2 DEF ResetStaleRunning, Pending
<1>4. i \in DOMAIN queue
  BY DEF Running
<1>5. CASE i \notin Superseded \cup Collapsed
  BY <1>3, <1>4, <1>5
<1>6. CASE i \in Superseded
  <2>1. PICK p \in Pending : SameWork(p, i) /\ queue[p].run = NoRun
    BY <1>6 DEF Superseded
  <2>2. p \notin Superseded /\ p \notin Collapsed /\ p \notin EndedSinceClaim /\ p \in DOMAIN queue
    BY DEF Superseded, Collapsed, EndedSinceClaim, Running, Pending
  <2>3. queue[i].run = NoRun
    BY <1>6 DEF Superseded
  <2> QED
    BY <1>3, <2>1, <2>2, <2>3 DEF SameWork
<1>7. CASE i \in Collapsed
  <2> DEFINE T == {k \in Running \ Superseded : queue[k].run = NoRun /\ SameWork(k, i)}
  <2>1. i \in T /\ queue[i].run = NoRun
    BY <1>7 DEF Collapsed, SameWork
  <2>2. T \in SUBSET Nat
    BY Numbers DEF Running
  <2>3. PICK k \in T : \A l \in T : k <= l
    BY <2>1, <2>2, LeastOf
  <2>4. k \in Running /\ k \notin Superseded /\ queue[k].run = NoRun /\ SameWork(k, i)
        /\ k \in DOMAIN queue
    BY <2>3 DEF Running
  <2>5. k \notin Collapsed
    <3> SUFFICES ASSUME NEW l \in Running \ Superseded, l < k, queue[l].run = NoRun,
                        SameWork(l, k)
                 PROVE  FALSE
      BY DEF Collapsed
    <3>1. l \in T
      BY <2>4 DEF SameWork
    <3> QED
      BY <2>2, <2>3, <3>1
  <2>6. k \notin EndedSinceClaim
    BY <2>4, Numbers DEF EndedSinceClaim, NoRun
  <2> HIDE DEF T
  <2> QED
    BY <1>3, <2>1, <2>4, <2>5, <2>6 DEF SameWork
<1> QED
  BY <1>5, <1>6, <1>7

\* Only Start takes the daemon from down to serving.
LEMMA OnlyStartServes ==
    ASSUME [Next]_vars, mode = "down", mode' = "serving"
    PROVE  Start
<1>1. CASE Requests
  BY <1>1 DEF Requests, Trigger, MarkForced, AbortQueued, DropForce, Enqueue, EnqueueRerun,
     Abort, Operate
<1>2. CASE Reconfigure
  BY <1>2 DEF Reconfigure, SyncQueueLimits, SetConfig
<1>3. CASE Process
  BY <1>3 DEF Process, Stop, Exit, Crash, CancelRun
<1>4. CASE \E w \in Workers : Drain(w)
  BY <1>4 DEF Drain, Admit, TakeSlot, NothingClaimable, Leave, Claim, DropJob, Skip, Register
<1>5. CASE \E w \in Workers : Build(w)
  BY <1>5 DEF Build, RefuseRerun, RefuseBuild, BeginRun, RecordRunRerun, ContinueRun, BuildEnds,
     Finish, PruneRunHistory, PruneQueueHistory, Recover, Return, RecordBreaker
<1>6. CASE UNCHANGED vars
  BY <1>6 DEF vars
<1> QED
  BY <1>1, <1>2, <1>3, <1>4, <1>5, <1>6 DEF Next

\* A restart loses no interrupted build, whatever was reaped or pruned before
\* it: each running row whose build recorded no end leaves a pending row for
\* the same work, with the run it had started (queue.go:221-305).
THEOREM RestartLosesNothing == Spec => RestartKeepsWork
<1>1. ASSUME Inv, RecoveryInv, [Next]_vars, mode = "down", mode' = "serving",
             NEW i \in Running \ built
      PROVE  \E k \in DOMAIN queue' : /\ queue'[k].status = "pending"
                                      /\ queue'[k].job = queue[i].job
                                      /\ queue'[k].rerunOf = queue[i].rerunOf
                                      /\ queue'[k].run = queue[i].run
  <2>1. ResetStaleRunning
    BY <1>1, OnlyStartServes DEF Start
  <2>2. i \notin EndedSinceClaim
    BY <1>1 DEF RecoveryInv, EndsAreBuilds
  <2> QED
    BY <1>1, <2>1, <2>2, InterruptedWaits
<1> DEFINE Kept ==
        mode = "down" /\ mode' = "serving" =>
           \A i \in Running \ built : \E k \in DOMAIN queue' :
               /\ queue'[k].status = "pending"
               /\ queue'[k].job = queue[i].job
               /\ queue'[k].rerunOf = queue[i].rerunOf
               /\ queue'[k].run = queue[i].run
<1>2. Inv /\ RecoveryInv /\ [Next]_vars => [Kept]_vars
  BY <1>1
<1>3. RestartKeepsWork <=> [][Kept]_vars
  BY DEF RestartKeepsWork
<1> HIDE DEF Kept
<1> QED
  BY <1>2, <1>3, Invariance, RecoveryInvariance, PTL DEF Spec

-----------------------------------------------------------------------------
(* Limits.                                                                 *)

\* Sets of rows are finite.
LEMMA RowsFinite ==
    ASSUME Inv
    PROVE  /\ IsFiniteSet(DOMAIN queue)
           /\ \A S \in SUBSET DOMAIN queue : IsFiniteSet(S) /\ Cardinality(S) \in Nat
<1>1. IsFiniteSet(1 .. MaxRows)
  BY FS_Interval, BoundAssumption
<1>2. DOMAIN queue \in SUBSET (1 .. MaxRows)
  BY DEF Inv, TableInv, TablesTyped, RowIds
<1>3. IsFiniteSet(DOMAIN queue)
  BY <1>1, <1>2, FS_Subset
<1> QED
  BY <1>3, FS_Subset, FS_CardinalityType

\* Only a claim takes a worker from its slot to a row.
LEMMA OnlyClaimClaims ==
    ASSUME Inv, [Next]_vars, NEW w \in Workers, pc[w] = "slotted", pc'[w] = "claimed"
    PROVE  \E i \in DOMAIN queue : Claim(w, i)
<1> USE DEF workerVars, requestVars, storeVars, volatile
<1>1. ASSUME UNCHANGED pc PROVE FALSE
  BY <1>1
<1>2. ASSUME NEW v \in Workers, NEW p, Go(v, p), v # w \/ p # "claimed" PROVE FALSE
  BY <1>2 DEF Go, Inv, OthersTyped
<1>3. ~Requests
  <2>1. Requests => UNCHANGED pc
    BY DEF Requests, Trigger, MarkForced, AbortQueued, DropForce, Enqueue, EnqueueRerun, Abort,
       Operate
  <2> QED
    BY <1>1, <2>1
<1>4. ~Reconfigure /\ ~ UNCHANGED vars
  BY <1>1 DEF Reconfigure, SyncQueueLimits, SetConfig, vars
<1>5. ~Process
  BY <1>1 DEF Process, Start, Stop, Exit, Crash, CancelRun, NoProcess
<1>6. ASSUME NEW v \in Workers, Build(v) PROVE FALSE
  <2>1. \E p \in {"idle", "recording", "returned", "ended", "building", "minted", "built",
                  "pruned", "panicked"} : Go(v, p)
    BY <1>6 DEF Build, RefuseRerun, RefuseBuild, BeginRun, RecordRunRerun, ContinueRun, BuildEnds,
       Finish, PruneRunHistory, PruneQueueHistory, Recover, Return, RecordBreaker, Finalize, Idle,
       Unwinding
  <2> QED
    BY <1>2, <2>1
<1>7. ASSUME NEW v \in Workers, Drain(v) PROVE \E i \in DOMAIN queue : Claim(w, i)
  <2>1. CASE \E i \in DOMAIN queue : Claim(v, i)
    BY <1>2, <2>1 DEF Claim
  <2>2. CASE ~ \E i \in DOMAIN queue : Claim(v, i)
    <3>1. \E p \in {"admitted", "slotted", "idle", "off", "registered"} : Go(v, p)
      BY <1>7, <2>2 DEF Drain, Admit, TakeSlot, NothingClaimable, Leave, DropJob, Skip, Register,
         Idle
    <3> QED
      BY <1>2, <3>1
  <2> QED
    BY <2>1, <2>2
<1> QED
  BY <1>3, <1>4, <1>5, <1>6, <1>7 DEF Next

\* The workers holding rows of one job are no more than its running rows.
LEMMA HoldersAreRows ==
    ASSUME Inv', NEW j
    PROVE  LET holders == {v \in Workers : /\ pc'[v] \in Owning /\ claim'[v].id \in DOMAIN queue'
                                           /\ claim'[v].job = j}
               rows == {k \in Running' : queue'[k].job = j}
           IN  /\ IsFiniteSet(holders) /\ IsFiniteSet(rows)
               /\ Cardinality(holders) <= Cardinality(rows)
<1> DEFINE holders == {v \in Workers : /\ pc'[v] \in Owning /\ claim'[v].id \in DOMAIN queue'
                                       /\ claim'[v].job = j}
           rows == {k \in Running' : queue'[k].job = j}
           row == [v \in holders |-> claim'[v].id]
<1>1. IsFiniteSet(rows)
  <2>1. IsFiniteSet(1 .. MaxRows)
    BY FS_Interval, BoundAssumption
  <2>2. rows \in SUBSET (1 .. MaxRows)
    BY DEF Inv, TableInv, TablesTyped, RowIds, Running
  <2> QED
    BY <2>1, <2>2, FS_Subset
<1>2. row \in [holders -> rows]
  BY DEF Inv, Ownership, Has, Running
<1>3. \A u, v \in holders : row[u] = row[v] => u = v
  BY DEF Inv, Ownership
<1> HIDE DEF holders, rows, row
<1>4. row \in Injection(holders, rows)
  BY <1>2, <1>3 DEF Injection, IsInjective
<1>5. IsFiniteSet(holders) /\ Cardinality(holders) <= Cardinality(rows)
  BY <1>1, <1>4, FS_Injection
<1> QED
  BY <1>1, <1>5 DEF holders, rows

\* No claim takes a job past the limit mirrored at the time, counting the
\* workers that hold rows of it, under any sequence of configurations, restarts
\* and prunes (queue.go:76-153).
THEOREM LimitsKept == Spec => ClaimsWithinLimits
<1> DEFINE holders(j) == {v \in Workers : /\ pc'[v] \in Owning /\ claim'[v].id \in DOMAIN queue'
                                          /\ claim'[v].job = j}
           Within == \A w \in Workers : At(w, "slotted") /\ pc'[w] = "claimed" =>
                        Cardinality(holders(claim'[w].job)) <= InFlightLimit(mirror, claim'[w].job)
<1>1. ASSUME Inv, Inv', [Next]_vars, NEW w \in Workers, At(w, "slotted"), pc'[w] = "claimed"
      PROVE  Cardinality(holders(claim'[w].job)) <= InFlightLimit(mirror, claim'[w].job)
  <2>1. PICK i \in DOMAIN queue : Claim(w, i)
    BY <1>1, OnlyClaimClaims DEF At
  <2>2. i \in Pending /\ queue[i] \in Row
    BY <1>1, <2>1 DEF Claim, ClaimNextJob, Claimable, Inv, TableInv, TablesTyped
  <2> DEFINE j == queue[i].job
             before == {k \in Running : queue[k].job = j}
             after == {k \in Running' : queue'[k].job = j}
             limit == InFlightLimit(mirror, j)
  <2>3. Cardinality(before) < limit
    BY <2>1 DEF Claim, ClaimNextJob, Claimable
  <2>4. /\ DOMAIN queue' = DOMAIN queue
        /\ queue'[i].status = "running" /\ queue'[i].job = j
        /\ \A k \in DOMAIN queue : k # i => queue'[k] = queue[k]
    BY <2>1, <2>2 DEF Claim, ClaimNextJob, Row
  <2>5. after = before \cup {i} /\ i \notin before
    BY <2>2, <2>4 DEF Running, Pending
  <2>6. IsFiniteSet(before) /\ Cardinality(before) \in Nat
    BY <1>1, RowsFinite DEF Running
  <2>7. limit \in Nat
    <3>1. mirror \in Configs /\ j \in Jobs
      BY <1>1, <2>2 DEF Inv, OthersTyped, Row
    <3> QED
      BY <3>1, ConfigAssumption DEF InFlightLimit
  <2>8. claim'[w].job = j
    BY <1>1, <2>1 DEF Claim, Inv, OthersTyped
  <2>9. Cardinality(holders(j)) <= Cardinality(after) /\ IsFiniteSet(holders(j))
    BY <1>1, HoldersAreRows
  <2> HIDE DEF before, after, limit, j, holders
  <2>10. Cardinality(after) = Cardinality(before) + 1
    BY <2>5, <2>6, FS_AddElement
  <2>11. Cardinality(holders(j)) \in Nat
    BY <2>9, FS_CardinalityType
  <2>12. \A a, b, c \in Nat : a < c /\ b <= a + 1 => b <= c
    OBVIOUS
  <2>13. Cardinality(holders(j)) <= limit
    BY <2>3, <2>6, <2>7, <2>9, <2>10, <2>11, <2>12
  <2> QED
    BY <2>8, <2>13 DEF limit
<1>2. Inv /\ Inv' /\ [Next]_vars => [Within]_vars
  BY <1>1
<1>3. ClaimsWithinLimits <=> [][Within]_vars
  BY DEF ClaimsWithinLimits
<1> HIDE DEF Within
<1> QED
  BY <1>2, <1>3, Invariance, PTL DEF Spec

-----------------------------------------------------------------------------
(* The breaker.                                                            *)

\* What a worker is about to report is its job's own outcome, and a run is
\* cancelled for a reason: a person's, or the end of the drain.
Reporting ==
    /\ \A w \in Workers : pc[w] = "recording" => Accountable(w)
    /\ \A w \in Workers : /\ err[w] = "canceled" => cause[w] # "none"
                          /\ cause[w] = "drain" => mode = "stopping"

\* A row that was closed stays as it was closed, or is deleted.
ClosedStay ==
    \A i \in DOMAIN queue' : i < nextRow =>
        /\ i \in DOMAIN queue
        /\ queue[i].status \notin Unfinished => queue'[i].status = queue[i].status

\* A claim writes a pending row.
LEMMA ClaimKeepsEnds ==
    ASSUME NEW i, ClaimNextJob(i)
    PROVE  ClosedStay
<1>1. queue[i].status = "pending"
  BY DEF ClaimNextJob, Claimable, Pending
<1>2. /\ DOMAIN queue' = DOMAIN queue
      /\ \A k \in DOMAIN queue : k # i => queue'[k] = queue[k]
  BY DEF ClaimNextJob
<1> QED
  BY <1>1, <1>2 DEF ClosedStay, Unfinished

\* Recovery writes the running rows.
LEMMA RecoveryKeepsEnds ==
    ASSUME Inv, ResetStaleRunning
    PROVE  ClosedStay
<1>1. \A i \in DOMAIN queue : queue[i] \in Row
  BY DEF Inv, TableInv, TablesTyped
<1>2. \A r \in DOMAIN runs : runs[r] \in Run
  BY DEF Inv, TableInv, TablesTyped
<1>3. \A i \in DOMAIN queue : \A s :
         /\ LET e == [queue[i] EXCEPT !.status = s]
            IN  e.run = queue[i].run /\ e.started = queue[i].started /\ e.status = s
         /\ LET e == [queue[i] EXCEPT !.status = "pending", !.started = 0]
            IN  e.run = queue[i].run /\ e.started = 0 /\ e.status = "pending"
  BY <1>1 DEF Row
<1>4. \A i \in DOMAIN queue' :
         /\ i \in DOMAIN queue
         /\ queue'[i].run = queue[i].run
         /\ queue'[i].status = IF i \in EndedSinceClaim THEN runs[queue[i].run].status
                               ELSE IF i \in Running THEN "pending" ELSE queue[i].status
  BY <1>3 DEF ResetStaleRunning
<1>5. \A i \in DOMAIN queue : queue[i].status \notin Unfinished =>
         i \notin EndedSinceClaim /\ i \notin Running
  BY DEF EndedSinceClaim, Running, Unfinished
<1> QED
  BY <1>4, <1>5 DEF ClosedStay

\* Every statement writes unfinished rows only, or adds one.
LEMMA StatementsKeepEnds ==
    ASSUME Inv,
           \/ UNCHANGED queue
           \/ \E j, r : EnqueueJob(j) \/ EnqueueManualJob(j) \/ EnqueueRerunJob(j, r)
           \/ \E j : AbortQueuedJob(j)
           \/ \E i \in DOMAIN queue : ClaimNextJob(i)
           \/ \E w \in Workers : pc[w] \in Owning /\ \E s : CompleteJob(claim[w].id, s)
           \/ \E j, i : StartRun(j, i)
           \/ \E j, r : PruneRuns(j, r)
           \/ \E j : PruneTriggerQueue(j)
           \/ ResetStaleRunning
    PROVE  ClosedStay
<1>1. \A i \in DOMAIN queue : queue[i] \in Row
  BY DEF Inv, TableInv, TablesTyped
<1>2. \A i \in DOMAIN queue : \A s, r, e :
         /\ [queue[i] EXCEPT !.status = s].status = s
         /\ [queue[i] EXCEPT !.run = r].status = queue[i].status
         /\ [queue[i] EXCEPT !.status = s, !.started = e].status = s
  BY <1>1 DEF Row
<1>3. CASE UNCHANGED queue
  BY <1>3 DEF ClosedStay
<1>4. CASE \E j, r : EnqueueJob(j) \/ EnqueueManualJob(j) \/ EnqueueRerunJob(j, r)
  <2>1. /\ nextRow \in Nat
        /\ \A i \in DOMAIN queue' :
              \/ i = nextRow
              \/ i \in DOMAIN queue /\ queue'[i].status = queue[i].status
    BY <1>4, EnqueueEffect DEF Inv
  <2>2. \A n \in Nat : ~(n < n)
    OBVIOUS
  <2> QED
    BY <2>1, <2>2 DEF ClosedStay
<1>5. CASE \E j : AbortQueuedJob(j)
  BY <1>2, <1>5 DEF AbortQueuedJob, Pending, ClosedStay, Unfinished
<1>6. CASE \E i \in DOMAIN queue : ClaimNextJob(i)
  BY <1>6, ClaimKeepsEnds
<1>7. CASE \E w \in Workers : pc[w] \in Owning /\ \E s : CompleteJob(claim[w].id, s)
  <2>1. PICK w \in Workers : pc[w] \in Owning /\ \E s : CompleteJob(claim[w].id, s)
    BY <1>7
  <2>2. claim[w].id \in DOMAIN queue => queue[claim[w].id].status \in Unfinished
    BY <2>1 DEF Inv, Ownership, Has, Unfinished
  <2> QED
    BY <2>1, <2>2 DEF CompleteJob, ClosedStay
<1>8. CASE \E j, i : StartRun(j, i)
  BY <1>2, <1>8 DEF StartRun, ClosedStay
<1>9. CASE \E j, r : PruneRuns(j, r)
  BY <1>2, <1>9 DEF PruneRuns, ClosedStay
<1>10. CASE \E j : PruneTriggerQueue(j)
  BY <1>10 DEF PruneTriggerQueue, ClosedStay
<1>11. CASE ResetStaleRunning
  BY <1>11, RecoveryKeepsEnds
<1> QED
  BY <1>3, <1>4, <1>5, <1>6, <1>7, <1>8, <1>9, <1>10, <1>11

\* And every step is one of them.
LEMMA StepKeepsEnds == Inv /\ [Next]_vars => ClosedStay
<1> SUFFICES ASSUME Inv, [Next]_vars PROVE ClosedStay
  OBVIOUS
<1> USE DEF storeVars
<1>1. CASE Requests
  <2>1. \/ UNCHANGED queue \/ (\E j : AbortQueuedJob(j))
        \/ \E j, r : EnqueueJob(j) \/ EnqueueManualJob(j) \/ EnqueueRerunJob(j, r)
    BY <1>1 DEF Requests, Trigger, MarkForced, AbortQueued, DropForce, Enqueue, EnqueueRerun,
       Abort, Operate
  <2> QED
    BY <2>1, StatementsKeepEnds
<1>2. CASE Reconfigure \/ UNCHANGED vars
  <2>1. UNCHANGED queue
    BY <1>2 DEF Reconfigure, SyncQueueLimits, SetConfig, vars
  <2> QED
    BY <2>1, StatementsKeepEnds
<1>3. CASE Process
  <2>1. UNCHANGED queue \/ ResetStaleRunning
    BY <1>3 DEF Process, Start, Stop, Exit, Crash, CancelRun
  <2> QED
    BY <2>1, StatementsKeepEnds
<1>4. ASSUME NEW w \in Workers, Drain(w)
      PROVE  ClosedStay
  <2>1. \/ UNCHANGED queue \/ (\E i \in DOMAIN queue : ClaimNextJob(i))
        \/ pc[w] = "claimed" /\ \E s : CompleteJob(claim[w].id, s)
    BY <1>4 DEF Drain, Admit, TakeSlot, NothingClaimable, Leave, Claim, DropJob, Skip, Register, At
  <2>2. pc[w] = "claimed" => pc[w] \in Owning
    BY DEF Owning
  <2> QED
    BY <2>1, <2>2, StatementsKeepEnds
<1>5. ASSUME NEW w \in Workers, Build(w)
      PROVE  ClosedStay
  <2>1. CASE RefuseRerun(w) \/ Return(w)
    <3>1. pc[w] \in Owning
      BY <2>1 DEF RefuseRerun, Return, At, Owning, InRunning
    <3>2. UNCHANGED queue \/ \E s : CompleteJob(claim[w].id, s)
      BY <2>1 DEF RefuseRerun, Return, Finalize
    <3> QED
      BY <3>1, <3>2, StatementsKeepEnds
  <2>2. CASE ~RefuseRerun(w) /\ ~Return(w)
    <3>1. \/ UNCHANGED queue \/ (\E j, i : StartRun(j, i)) \/ (\E j, r : PruneRuns(j, r))
          \/ \E j : PruneTriggerQueue(j)
      BY <1>5, <2>2 DEF Build, RefuseBuild, BeginRun, RecordRunRerun, ContinueRun, BuildEnds,
         Finish, PruneRunHistory, PruneQueueHistory, Recover, RecordBreaker
    <3> QED
      BY <3>1, StatementsKeepEnds
  <2> QED
    BY <2>1, <2>2
<1> QED
  BY <1>1, <1>2, <1>3, <1>4, <1>5 DEF Next

\* A worker waiting to report is left alone, and its row with it.
LEMMA StillAccountable ==
    ASSUME Inv, Reporting, ClosedStay, NEW w \in Workers, pc[w] = "recording",
           pc'[w] = pc[w], claim'[w] = claim[w], err'[w] = err[w], cause'[w] = cause[w]
    PROVE  Accountable(w)'
<1>1. claim[w].id < nextRow
  BY DEF Inv, Ownership, Knows, Holding
<1>2. Accountable(w)
  BY DEF Reporting
<1>3. claim[w].id \in DOMAIN queue' =>
         queue'[claim[w].id].status = IF err[w] = "none" THEN "succeeded" ELSE "failed"
  BY <1>1, <1>2 DEF Accountable, ClosedStay, Unfinished
<1> QED
  BY <1>2, <1>3 DEF Accountable, At

\* A step of the others.
LEMMA OthersReport ==
    ASSUME Inv, Reporting, ClosedStay, UNCHANGED mode,
           NEW w \in Workers, pc'[w] # "recording",
           err'[w] = "canceled" => cause'[w] # "none",
           cause'[w] \in {"none", cause[w]},
           \A v \in Workers : v # w => /\ pc'[v] = pc[v] /\ claim'[v] = claim[v]
                                       /\ err'[v] = err[v] /\ cause'[v] = cause[v]
    PROVE  Reporting'
<1>1. ASSUME NEW v \in Workers, pc'[v] = "recording" PROVE Accountable(v)'
  BY <1>1, StillAccountable
<1>2. ASSUME NEW v \in Workers
      PROVE  /\ err'[v] = "canceled" => cause'[v] # "none"
             /\ cause'[v] = "drain" => mode' = "stopping"
  BY DEF Reporting
<1> QED
  BY <1>1, <1>2 DEF Reporting

\* The row is closed and the breaker is to hear of it: of a retry that was
\* refused, or of what the build came to (runner.go:474-517).
LEMMA FinalizeAccounts ==
    ASSUME Inv, Reporting, ClosedStay, NEW w \in Workers, NEW aborted, NEW e,
           pc[w] \in Owning, Finalize(w, aborted, e), UNCHANGED mode,
           e = "canceled" => cause[w] # "none",
           ~aborted /\ cause[w] = "abort" => claim[w].rerunOf # NoRun
    PROVE  Reporting'
<1>1. CASE Idle(w)
  <2>1. \A v \in Workers :
           /\ v # w => /\ pc'[v] = pc[v] /\ claim'[v] = claim[v]
                       /\ err'[v] = err[v] /\ cause'[v] = cause[v]
           /\ v = w => pc'[v] = "idle" /\ err'[v] = "none" /\ cause'[v] = "none"
    BY <1>1 DEF Idle, Go, Inv, OthersTyped
  <2> QED
    BY <2>1, OthersReport
<1>2. CASE ~Idle(w)
  <2>1. /\ CompleteJob(claim[w].id, IF e = "none" THEN "succeeded" ELSE "failed")
        /\ Go(w, "recording") /\ err' = [err EXCEPT ![w] = e] /\ UNCHANGED <<claim, cause>>
        /\ e = "none" \/ (e \in {"failure", "canceled"} /\ ~aborted /\ ~Interrupted(e))
    BY <1>2 DEF Finalize
  <2>2. \A v \in Workers : /\ pc'[v] = IF v = w THEN "recording" ELSE pc[v]
                           /\ err'[v] = IF v = w THEN e ELSE err[v]
                           /\ claim'[v] = claim[v] /\ cause'[v] = cause[v]
    BY <2>1 DEF Go, Inv, OthersTyped
  <2>3. \/ e = "none"
        \/ e = "failure" /\ cause[w] # "abort"
        \/ cause[w] = "abort" /\ claim[w].rerunOf # NoRun
    <3>1. e = "canceled" => cause[w] # "drain" \/ Interrupted(e)
      BY DEF Interrupted, Reporting
    <3>2. cause[w] \in {"none", "abort", "drain"}
      BY DEF Inv, OthersTyped
    <3> QED
      BY <2>1, <3>1, <3>2
  <2>4. claim[w].id \in DOMAIN queue' =>
           queue'[claim[w].id].status = IF e = "none" THEN "succeeded" ELSE "failed"
    <3>1. \A i \in DOMAIN queue : queue[i] \in Row
      BY DEF Inv, TableInv, TablesTyped
    <3>2. \A i \in DOMAIN queue : \A s : [queue[i] EXCEPT !.status = s].status = s
      BY <3>1 DEF Row
    <3> QED
      BY <2>1, <3>2 DEF CompleteJob
  <2>5. Accountable(w)'
    BY <2>2, <2>3, <2>4 DEF Accountable, At
  <2>6. ASSUME NEW v \in Workers, v # w, pc'[v] = "recording" PROVE Accountable(v)'
    BY <2>2, <2>6, StillAccountable
  <2>7. \A v \in Workers : /\ err'[v] = "canceled" => cause'[v] # "none"
                           /\ cause'[v] = "drain" => mode' = "stopping"
    BY <2>2 DEF Reporting
  <2> QED
    BY <2>5, <2>6, <2>7 DEF Reporting
<1> QED
  BY <1>1, <1>2

\* Every step.
LEMMA StepReporting == Inv /\ Reporting /\ [Next]_vars => Reporting'
<1> SUFFICES ASSUME Inv, Reporting, [Next]_vars PROVE Reporting'
  OBVIOUS
<1> USE DEF workerVars, requestVars, storeVars, volatile
<1>0. ClosedStay
  BY StepKeepsEnds
<1>1. ASSUME UNCHANGED <<pc, claim, err, cause>>, mode' = mode \/ mode # "stopping"
      PROVE  Reporting'
  <2>1. ASSUME NEW w \in Workers, pc'[w] = "recording" PROVE Accountable(w)'
    BY <1>0, <1>1, <2>1, StillAccountable
  <2>2. ASSUME NEW w \in Workers
        PROVE  /\ err'[w] = "canceled" => cause'[w] # "none"
               /\ cause'[w] = "drain" => mode' = "stopping"
    BY <1>1 DEF Reporting
  <2> QED
    BY <2>1, <2>2 DEF Reporting
<1>2. CASE Requests
  <2>1. CASE \E w \in Workers : Abort(w)
    <3>1. PICK w \in Workers : Abort(w)
      BY <2>1
    <3>2. /\ pc[w] \in InRunning /\ UNCHANGED <<pc, claim, err, mode>>
          /\ \A v \in Workers : cause'[v] = IF v = w THEN "abort" ELSE cause[v]
      BY <3>1 DEF Abort, Inv, OthersTyped
    <3>3. pc[w] # "recording"
      BY <3>2 DEF InRunning
    <3>4. ASSUME NEW v \in Workers, pc'[v] = "recording" PROVE Accountable(v)'
      BY <1>0, <3>2, <3>3, <3>4, StillAccountable
    <3> QED
      BY <3>2, <3>4 DEF Reporting
  <2>2. CASE ~\E w \in Workers : Abort(w)
    <3>1. UNCHANGED <<pc, claim, err, cause, mode>>
      BY <1>2, <2>2 DEF Requests, Trigger, MarkForced, AbortQueued, DropForce, Enqueue,
         EnqueueRerun, Operate
    <3> QED
      BY <1>1, <3>1
  <2> QED
    BY <2>1, <2>2
<1>3. CASE Reconfigure \/ Stop \/ UNCHANGED vars
  <2>1. UNCHANGED <<pc, claim, err, cause>> /\ (mode' = mode \/ mode # "stopping")
    BY <1>3 DEF Reconfigure, SyncQueueLimits, SetConfig, Stop, vars
  <2> QED
    BY <1>1, <2>1
<1>4. CASE \E w \in Workers : CancelRun(w)
  <2>1. PICK w \in Workers : CancelRun(w)
    BY <1>4
  <2>2. /\ pc[w] \in InRunning /\ UNCHANGED <<pc, claim, err, mode>> /\ mode = "stopping"
        /\ \A v \in Workers : cause'[v] = IF v = w THEN "drain" ELSE cause[v]
    BY <2>1 DEF CancelRun, Inv, OthersTyped
  <2>3. pc[w] # "recording"
    BY <2>2 DEF InRunning
  <2>4. ASSUME NEW v \in Workers, pc'[v] = "recording" PROVE Accountable(v)'
    BY <1>0, <2>2, <2>3, <2>4, StillAccountable
  <2> QED
    BY <2>2, <2>4 DEF Reporting
<1>5. CASE Exit \/ Crash
  BY <1>5 DEF Exit, Crash, NoProcess, Reporting
<1>6. CASE Start
  <2>1. \A w \in Workers : pc'[w] = "idle" /\ err'[w] = err[w] /\ cause'[w] = cause[w]
    BY <1>6 DEF Start
  <2>2. \A w \in Workers : cause[w] # "drain"
    BY <1>6 DEF Start, Reporting
  <2> QED
    BY <2>1, <2>2 DEF Reporting
<1>7. ASSUME NEW w \in Workers, Drain(w)
      PROVE  Reporting'
  <2>1. /\ UNCHANGED mode
        /\ \E p \in {"admitted", "slotted", "claimed", "idle", "off", "registered"} : Go(w, p)
        /\ UNCHANGED <<err, cause>>
           \/ (err' = [err EXCEPT ![w] = "none"] /\ cause' = [cause EXCEPT ![w] = "none"])
        /\ UNCHANGED claim \/ \E c : claim' = [claim EXCEPT ![w] = c]
    BY <1>7, Zenon DEF Drain, Admit, TakeSlot, NothingClaimable, Leave, Claim, DropJob, Skip,
       Register, Idle
  <2>2. /\ pc'[w] # "recording"
        /\ \A v \in Workers : v # w => /\ pc'[v] = pc[v] /\ claim'[v] = claim[v]
                                       /\ err'[v] = err[v] /\ cause'[v] = cause[v]
    BY <2>1 DEF Go, Inv, OthersTyped
  <2>3. /\ err'[w] = "canceled" => cause'[w] # "none"
        /\ cause'[w] \in {"none", cause[w]}
    BY <2>1 DEF Inv, OthersTyped, Reporting
  <2> QED
    BY <1>0, <2>1, <2>2, <2>3, OthersReport
<1>8. ASSUME NEW w \in Workers, RefuseRerun(w)
      PROVE  Reporting'
  <2>1. /\ pc[w] \in Owning /\ claim[w].rerunOf # NoRun /\ UNCHANGED mode
    BY <1>8 DEF RefuseRerun, At, Owning, InRunning
  <2>2. Finalize(w, FALSE, "failure") \/ (cause[w] # "none" /\ Finalize(w, FALSE, "canceled"))
    BY <1>8 DEF RefuseRerun
  <2>3. CASE Finalize(w, FALSE, "failure")
    BY <1>0, <2>1, <2>3, FinalizeAccounts
  <2>4. CASE cause[w] # "none" /\ Finalize(w, FALSE, "canceled")
    BY <1>0, <2>1, <2>4, FinalizeAccounts
  <2> QED
    BY <2>2, <2>3, <2>4
<1>9. ASSUME NEW w \in Workers, Return(w)
      PROVE  Reporting'
  <2>1. /\ pc[w] \in Owning /\ UNCHANGED mode
        /\ Finalize(w, cause[w] = "abort", err[w])
    BY <1>9 DEF Return, At, Owning, InRunning
  <2> QED
    BY <1>0, <2>1, FinalizeAccounts DEF Reporting
<1>10. ASSUME NEW w \in Workers, Build(w), ~RefuseRerun(w), ~Return(w)
       PROVE  Reporting'
  <2>1. /\ UNCHANGED mode
        /\ \E p \in {"returned", "ended", "building", "minted", "built", "pruned", "panicked",
                     "idle"} : Go(w, p)
        /\ UNCHANGED claim \/ \E c : claim' = [claim EXCEPT ![w] = c]
    BY <1>10, Zenon DEF Build, RefuseBuild, BeginRun, RecordRunRerun, ContinueRun, BuildEnds, Finish,
       PruneRunHistory, PruneQueueHistory, Recover, RecordBreaker, Unwinding, Idle
  <2>2. \/ UNCHANGED <<err, cause>>
        \/ err' = [err EXCEPT ![w] = "none"] /\ cause' = [cause EXCEPT ![w] = "none"]
        \/ /\ UNCHANGED cause
           /\ \E e : err' = [err EXCEPT ![w] = e] /\ (e = "canceled" => cause[w] # "none")
    BY <1>10, Zenon DEF Build, RefuseBuild, BeginRun, RecordRunRerun, ContinueRun, BuildEnds, Finish,
       PruneRunHistory, PruneQueueHistory, Recover, RecordBreaker, Idle
  <2>3. /\ pc'[w] # "recording"
        /\ \A v \in Workers : v # w => /\ pc'[v] = pc[v] /\ claim'[v] = claim[v]
                                       /\ err'[v] = err[v] /\ cause'[v] = cause[v]
    BY <2>1, <2>2 DEF Go, Inv, OthersTyped
  <2>4. /\ err'[w] = "canceled" => cause'[w] # "none"
        /\ cause'[w] \in {"none", cause[w]}
    BY <2>2 DEF Inv, OthersTyped, Reporting
  <2> QED
    BY <1>0, <2>1, <2>3, <2>4, OthersReport
<1> QED
  BY <1>2, <1>3, <1>4, <1>5, <1>6, <1>7, <1>8, <1>9, <1>10 DEF Next, Process

\* What the breaker counts, whatever is pruned: outcomes of builds whose row is
\* closed already, each once, and of the failures only a job's own - neither an
\* abort's nor a shutdown's (runner.go:474-517), but for a retry that was aborted
\* before PrepareRerun had found its original.
THEOREM BreakerCountsOutcomes == Spec => BreakerCountsFailures
<1> DEFINE Moves ==
      \A j \in Jobs : breaker'[j].consecutive # breaker[j].consecutive =>
          \/ breaker[j].held /\ breaker'[j].consecutive = 0
          \/ \E w \in Workers :
                /\ Accountable(w) /\ claim[w].job = j /\ pc'[w] # "recording"
                /\ breaker'[j].consecutive =
                      IF err[w] = "none" THEN 0 ELSE breaker[j].consecutive + 1
<1>1. ASSUME Inv, Reporting, [Next]_vars
      PROVE  Moves
  <2> USE DEF workerVars, requestVars, storeVars, volatile
  <2>1. CASE UNCHANGED breaker
    BY <2>1
  <2>2. CASE \E j \in Jobs : IsJobHeld(j) /\ ResetJobFailures(j)
    BY <1>1, <2>2 DEF IsJobHeld, ResetJobFailures, Inv, OthersTyped
  <2>3. ASSUME NEW w \in Workers, RecordBreaker(w)
        PROVE  Moves
    <3>1. /\ pc[w] = "recording" /\ pc'[w] = "idle"
          /\ RecordJobOutcome(claim[w].job, err[w] = "none", ceiling[w])
      BY <1>1, <2>3 DEF RecordBreaker, At, Idle, Go, Inv, OthersTyped
    <3>2. Accountable(w)
      BY <1>1, <3>1 DEF Reporting
    <3>3. \A j \in Jobs : breaker'[j].consecutive # breaker[j].consecutive =>
             /\ claim[w].job = j
             /\ breaker'[j].consecutive =
                   IF err[w] = "none" THEN 0 ELSE breaker[j].consecutive + 1
      BY <1>1, <3>1 DEF RecordJobOutcome, ResetJobFailures, Inv, OthersTyped
    <3> QED
      BY <3>1, <3>2, <3>3
  <2>4. \/ UNCHANGED breaker \/ (\E j \in Jobs : IsJobHeld(j) /\ ResetJobFailures(j))
        \/ \E w \in Workers : RecordBreaker(w)
    <3>1. CASE Requests
      BY <3>1 DEF Requests, Trigger, MarkForced, AbortQueued, DropForce, Enqueue, EnqueueRerun,
         Abort, Operate
    <3>2. CASE Reconfigure \/ Process \/ UNCHANGED vars
      BY <3>2 DEF Reconfigure, SyncQueueLimits, SetConfig, Process, Start, Stop, Exit, Crash,
         CancelRun, vars
    <3>3. CASE \E w \in Workers : Drain(w)
      BY <3>3 DEF Drain, Admit, TakeSlot, NothingClaimable, Leave, Claim, DropJob, Skip, Register
    <3>4. CASE \E w \in Workers : Build(w)
      BY <3>4 DEF Build, RefuseRerun, RefuseBuild, BeginRun, RecordRunRerun, ContinueRun, BuildEnds,
         Finish, PruneRunHistory, PruneQueueHistory, Recover, Return
    <3> QED
      BY <1>1, <3>1, <3>2, <3>3, <3>4 DEF Next
  <2> HIDE DEF Moves
  <2> QED
    BY <2>1, <2>2, <2>3, <2>4
<1>2. Init => Reporting
  BY DEF Init, Reporting
<1>3. BreakerCountsFailures <=> [][Moves]_vars
  BY DEF BreakerCountsFailures
<1>4. Inv /\ Reporting /\ [Next]_vars => [Moves]_vars
  BY <1>1
<1> HIDE DEF Moves
<1> QED
  BY <1>2, <1>3, <1>4, StepReporting, Invariance, PTL DEF Spec

-----------------------------------------------------------------------------
(* The ledger.                                                             *)

\* Nothing is deleted, and the limits do not change.
Steady == NothingPruned /\ OneConfig

\* The ledger's steps, under the mapping.
LedgerStep == Ledger!Next \/ UNCHANGED <<[i \in RowIds |-> Stage(i)],
                                         [i \in DOMAIN queue |-> queue[i].job]>>

\* Where each row is, by what the tables and the workers say.
LEMMA Stages ==
    ASSUME Inv, Steady
    PROVE  /\ DOMAIN queue \subseteq RowIds
           /\ \A w \in Workers : pc[w] \in Owning => claim[w].id \in Running
           /\ \A i \in DOMAIN queue : i < nextRow
           /\ \A i \in RowIds :
                 Stage(i) = IF i \in Pending THEN "waiting"
                            ELSE IF i \in Running
                            THEN IF \E w \in Workers : Owns(w, i) THEN "building" ELSE "interrupted"
                            ELSE IF i \in DOMAIN queue THEN "over"
                            ELSE IF i < nextRow THEN "folded" ELSE "unused"
<1>1. DOMAIN queue \subseteq RowIds /\ nextRow \in Nat /\ RowIds \subseteq Nat
  BY BoundAssumption DEF Inv, TableInv, TablesTyped, RowIds
<1>2. \A i \in DOMAIN queue : i < nextRow
  BY DEF Inv, TableInv, IdsHandedOut
<1>3. \A w \in Workers : pc[w] \in Owning => claim[w].id \in Running
  BY DEF Inv, Ownership, Has, Running, Steady, NothingPruned, NothingReaped
<1>4. Pending \subseteq DOMAIN queue /\ Running \subseteq DOMAIN queue
  BY DEF Pending, Running
<1>5. ASSUME NEW i \in RowIds
      PROVE  Stage(i) = IF i \in Pending THEN "waiting"
                        ELSE IF i \in Running
                        THEN IF \E w \in Workers : Owns(w, i) THEN "building" ELSE "interrupted"
                        ELSE IF i \in DOMAIN queue THEN "over"
                        ELSE IF i < nextRow THEN "folded" ELSE "unused"
  <2>1. i >= nextRow <=> ~(i < nextRow)
    BY <1>1
  <2>2. (\E w \in Workers : Owns(w, i)) => i \in Running
    BY <1>3 DEF Owns
  <2> QED
    BY <1>2, <1>4, <2>1, <2>2 DEF Stage
<1> QED
  BY <1>1, <1>2, <1>3, <1>5

\* A step that moves no row and no worker to or from one leaves the ledger alone.
LEMMA SameLedger ==
    ASSUME Inv, Inv', Steady, nextRow' = nextRow, DOMAIN queue' = DOMAIN queue,
           \A i \in DOMAIN queue : queue'[i].job = queue[i].job /\ queue'[i].status = queue[i].status,
           \A w \in Workers, i \in RowIds : Owns(w, i)' <=> Owns(w, i)
    PROVE  LedgerStep
<1>1. \A i \in RowIds : Stage(i)' = Stage(i)
  BY DEF Stage, Pending, Running
<1> QED
  BY <1>1 DEF LedgerStep

\* An insert is a request (queue.go:27-71).
LEMMA InsertRequests ==
    ASSUME Inv, Inv', Steady, NEW j \in Jobs, NEW manual, NEW of,
           Insert(NewRow(j, manual, of)), UNCHANGED <<pc, claim>>
    PROVE  LedgerStep
<1>1. PICK n \in RowIds : n = nextRow
  BY DEF Insert
<1>2. /\ DOMAIN queue' = DOMAIN queue \cup {n} /\ nextRow' = n + 1
      /\ queue'[n].job = j /\ queue'[n].status = "pending"
      /\ \A i \in DOMAIN queue : i # n => queue'[i] = queue[i]
  BY <1>1 DEF Insert, NewRow
<1>3. n \notin DOMAIN queue /\ \A i \in DOMAIN queue : i # n
  BY <1>1, Numbers
<1>4. Stage(n) = "unused"
  BY <1>1, BoundAssumption DEF Stage, RowIds
<1>5. n \in Nat /\ RowIds \subseteq Nat
  BY BoundAssumption DEF RowIds
<1>6. Stage(n)' = "waiting"
  BY <1>2, <1>5 DEF Stage, Pending
<1>7. \A w \in Workers, i \in RowIds : Owns(w, i)' <=> Owns(w, i)
  BY DEF Owns
<1>8. ASSUME NEW i \in RowIds, i # n
      PROVE  Stage(i)' = Stage(i)
  <2>1. i >= n <=> i >= n + 1
    BY <1>5, <1>8
  <2> QED
    BY <1>1, <1>2, <1>3, <1>7, <1>8, <2>1 DEF Stage, Pending, Running
<1>9. Ledger!Request(n, j)
  BY <1>2, <1>3, <1>4, <1>6, <1>8 DEF Ledger!Request
<1>10. j \in DOMAIN [k \in Jobs |-> InFlightLimit(OnlyConfig, k)]
  OBVIOUS
<1> QED
  BY <1>9, <1>10 DEF LedgerStep, Ledger!Next

\* The ledger's own Cardinality is the one the claims are counted with.
LEMMA SameCount == \A S : Ledger!Cardinality(S) = Cardinality(S)
BY DEF Ledger!Cardinality, Cardinality

\* A claim starts a build (queue.go:90-153): the rows that read running are
\* those being built and those interrupted.
LEMMA ClaimStarts ==
    ASSUME Inv, Inv', Steady, NEW w \in Workers, NEW i \in DOMAIN queue, Claim(w, i)
    PROVE  LedgerStep
<1> DEFINE limit == [j \in Jobs |-> InFlightLimit(OnlyConfig, j)]
           groups == [j \in Jobs |-> SerialGroups(OnlyConfig, j)]
           ledger == [k \in RowIds |-> Stage(k)]
           work == [k \in DOMAIN queue |-> queue[k].job]
<1>1. i \in Pending /\ nextRow' = nextRow /\ pc[w] = "slotted"
  BY DEF Claim, ClaimNextJob, Claimable, At
<1>2. queue[i] \in Row /\ \A k \in DOMAIN queue : queue[k].job \in Jobs
  BY DEF Inv, TableInv, TablesTyped, Row
<1>3. /\ DOMAIN queue' = DOMAIN queue
      /\ queue'[i].status = "running" /\ queue'[i].job = queue[i].job
      /\ \A k \in DOMAIN queue : k # i => queue'[k] = queue[k]
  BY <1>2 DEF Claim, ClaimNextJob, Row
<1>4. /\ pc'[w] = "claimed" /\ claim'[w].id = i
      /\ \A v \in Workers : v # w => pc'[v] = pc[v] /\ claim'[v] = claim[v]
  BY DEF Claim, Go, Inv, OthersTyped
<1>5. Owns(w, i)' /\ \A v \in Workers, k \in RowIds : k # i => (Owns(v, k)' <=> Owns(v, k))
  BY <1>1, <1>4 DEF Owns, Owning, InRunning
<1>6. OnlyConfig = mirror
  BY DEF OnlyConfig, Inv, OthersTyped, Steady, OneConfig
<1>7. i \in RowIds /\ i < nextRow /\ RowIds \subseteq Nat /\ nextRow \in Nat
  BY Stages, Numbers, BoundAssumption DEF RowIds
<1>8. Stage(i) = "waiting"
  BY <1>1, <1>7, Stages
<1>9. Stage(i)' = "building"
  BY <1>1, <1>3, <1>5, <1>7 DEF Stage, Pending
<1>10. \A k \in RowIds : k # i => Stage(k)' = Stage(k)
  BY <1>1, <1>3, <1>5 DEF Stage, Pending, Running
<1>11. {k \in RowIds : ledger[k] \in {"building", "interrupted"}} = Running
  <2>1. \A k \in RowIds : Stage(k) \in {"building", "interrupted"} <=> k \in Running
    BY Stages DEF Pending, Running
  <2>2. Running \subseteq RowIds
    BY Stages DEF Running
  <2> QED
    BY <2>1, <2>2
<1>12. /\ Cardinality({k \in Running : work[k] = work[i]}) < limit[work[i]]
       /\ \A k \in Running : groups[work[k]] \cap groups[work[i]] = {}
  <2>1. {k \in Running : work[k] = work[i]} = {k \in Running : queue[k].job = queue[i].job}
    BY DEF Running
  <2> QED
    BY <1>2, <1>6, <2>1 DEF Claim, ClaimNextJob, Claimable, Running
<1>13. Ledger!Taken = Running
  BY <1>11 DEF Ledger!Taken
<1>14. Ledger!Move(i, "waiting", "building")
  BY <1>3, <1>7, <1>8, <1>9, <1>10 DEF Ledger!Move
<1>15. Ledger!Start(i)
  BY <1>12, <1>13, <1>14, SameCount DEF Ledger!Start
<1> QED
  BY <1>15 DEF LedgerStep, Ledger!Next

\* A worker closes its row: a build is over (queue.go:160-171).
LEMMA CloseEnds ==
    ASSUME Inv, Inv', Steady, NEW w \in Workers, pc[w] \in Owning,
           NEW s, s \notin Unfinished, CompleteJob(claim[w].id, s), nextRow' = nextRow,
           pc'[w] \notin Owning,
           \A v \in Workers : v # w => pc'[v] = pc[v] /\ claim'[v] = claim[v]
    PROVE  LedgerStep
<1>1. PICK i \in DOMAIN queue : i = claim[w].id /\ i \in Running
  BY Stages DEF Running
<1>2. queue[i] \in Row
  BY DEF Inv, TableInv, TablesTyped
<1>3. /\ DOMAIN queue' = DOMAIN queue
      /\ queue'[i].status = s /\ queue'[i].job = queue[i].job
      /\ \A k \in DOMAIN queue : k # i => queue'[k] = queue[k]
  BY <1>1, <1>2 DEF CompleteJob, Row
<1>4. \A v \in Workers, k \in RowIds : k # i => (Owns(v, k)' <=> Owns(v, k))
  BY <1>1 DEF Owns
<1>5. \A v \in Workers : ~Owns(v, i)'
  BY <1>1 DEF Owns, Inv, Ownership
<1>6. Owns(w, i)
  BY <1>1 DEF Owns
<1>7. i \in RowIds /\ i < nextRow /\ RowIds \subseteq Nat /\ nextRow \in Nat
  BY Stages, Numbers, BoundAssumption DEF RowIds
<1>8. Stage(i) = "building"
  <2>1. i \notin Pending
    BY <1>1 DEF Pending, Running
  <2> QED
    BY <1>1, <1>6, <1>7, <2>1, Stages
<1>9. Stage(i)' = "over"
  BY <1>3, <1>5, <1>7 DEF Stage, Pending, Running, Unfinished
<1>10. \A k \in RowIds : k # i => Stage(k)' = Stage(k)
  BY <1>3, <1>4 DEF Stage, Pending, Running
<1>11. Ledger!Move(i, "building", "over")
  BY <1>3, <1>7, <1>8, <1>9, <1>10 DEF Ledger!Move
<1> QED
  BY <1>11 DEF LedgerStep, Ledger!Next, Ledger!End

\* Workers let go of rows that stay running: their builds are interrupted
\* (runner.go:455-516 on a shutdown, or the end of the process).
LEMMA LettingGoInterrupts ==
    ASSUME Inv, Inv', Steady, UNCHANGED <<queue, nextRow>>,
           \A v \in Workers, i \in RowIds : Owns(v, i)' => Owns(v, i)
    PROVE  LedgerStep
<1> DEFINE lost == {i \in RowIds : /\ \E v \in Workers : Owns(v, i)
                                   /\ ~ \E v \in Workers : Owns(v, i)'}
<1>1. ASSUME NEW i \in RowIds
      PROVE  /\ i \in lost => Stage(i) = "building" /\ Stage(i)' = "interrupted"
             /\ i \notin lost => Stage(i)' = Stage(i)
  <2>1. (\E v \in Workers : Owns(v, i)) => i \in Running
    BY Stages DEF Owns
  <2>2. i \in Running => i \in DOMAIN queue /\ i \notin Pending
    BY DEF Running, Pending
  <2>3. i \in DOMAIN queue => ~(i >= nextRow)
    BY Stages, Numbers
  <2>4. CASE i \in lost
    BY <2>1, <2>2, <2>3, <2>4 DEF Stage, Running, Pending
  <2>5. CASE i \notin lost
    <3>1. (\E v \in Workers : Owns(v, i)') <=> (\E v \in Workers : Owns(v, i))
      BY <2>5
    <3> QED
      BY <2>5, <3>1 DEF Stage, Running, Pending
  <2> QED
    BY <2>4, <2>5
<1>2. lost \in SUBSET {i \in RowIds : [k \in RowIds |-> Stage(k)][i] = "building"}
  BY <1>1
<1>3. PICK gone \in SUBSET {i \in RowIds : [k \in RowIds |-> Stage(k)][i] = "building"} :
         gone = lost
  BY <1>2
<1>4. \A i \in RowIds : Stage(i)' = IF i \in gone THEN "interrupted" ELSE Stage(i)
  BY <1>1, <1>3
<1>5. Ledger!Interrupt
  BY <1>4 DEF Ledger!Interrupt
<1> QED
  BY <1>5 DEF LedgerStep, Ledger!Next

\* A person drops a job's waiting requests (queue.go:174-189).
LEMMA AbortDrops ==
    ASSUME Inv, Inv', Steady, NEW j \in Jobs, AbortQueuedJob(j), UNCHANGED <<nextRow, pc, claim>>
    PROVE  LedgerStep
<1>1. \A i \in DOMAIN queue : queue[i] \in Row
  BY DEF Inv, TableInv, TablesTyped
<1>2. DOMAIN queue' = DOMAIN queue /\ \A i \in DOMAIN queue :
         /\ queue'[i].job = queue[i].job
         /\ queue'[i].status = IF i \in Pending /\ queue[i].job = j THEN "aborted"
                               ELSE queue[i].status
  BY <1>1 DEF AbortQueuedJob, Row
<1>3. \A w \in Workers, i \in RowIds : Owns(w, i)' <=> Owns(w, i)
  BY DEF Owns
<1>4. ASSUME NEW i \in RowIds
      PROVE  /\ Stage(i) = "waiting" <=> i \in Pending
             /\ i \in Pending => i \in DOMAIN queue
             /\ Stage(i)' = IF i \in Pending /\ queue[i].job = j THEN "over" ELSE Stage(i)
  <2>1. (Stage(i) = "waiting" <=> i \in Pending) /\ (i \in Pending => i \in DOMAIN queue)
    BY Stages DEF Pending, Running
  <2>2. CASE i \in Pending /\ queue[i].job = j
    <3>1. i \in DOMAIN queue /\ ~(i >= nextRow)
      BY <2>1, <2>2, Stages, Numbers
    <3>2. \A w \in Workers : ~Owns(w, i)
      BY <2>2, Stages DEF Owns, Running, Pending
    <3> QED
      BY <1>2, <1>3, <2>1, <2>2, <3>1, <3>2 DEF Stage, Pending, Running
  <2>3. CASE ~(i \in Pending /\ queue[i].job = j)
    <3>1. i \in DOMAIN queue => queue'[i].status = queue[i].status
      BY <1>2, <2>3
    <3>2. (i \in Pending)' <=> i \in Pending
      BY <1>2, <3>1 DEF Pending
    <3>3. (i \in Running)' <=> i \in Running
      BY <1>2, <3>1 DEF Running
    <3>4. Stage(i)' = Stage(i)
      BY <1>2, <1>3, <3>2, <3>3 DEF Stage
    <3> QED
      BY <2>1, <2>3, <3>4
  <2> QED
    BY <2>1, <2>2, <2>3
<1>5. Ledger!Drop(j)
  BY <1>2, <1>4 DEF Ledger!Drop
<1> QED
  BY <1>5 DEF LedgerStep, Ledger!Next

\* Recovery settles what was interrupted (queue.go:221-305).
LEMMA StartSettles ==
    ASSUME Inv, Inv', Steady, Start
    PROVE  LedgerStep
<1>1. ResetStaleRunning /\ nextRow' = nextRow /\ mode = "down"
      /\ pc' = [w \in Workers |-> "idle"]
  BY DEF Start
<1>2. \A w \in Workers, i \in RowIds : ~Owns(w, i) /\ ~Owns(w, i)'
  BY <1>1 DEF Inv, Ownership, Owns, Owning, InRunning
<1>3. /\ \A i \in DOMAIN queue : queue[i] \in Row
      /\ \A r \in DOMAIN runs : runs[r] \in Run
  BY DEF Inv, TableInv, TablesTyped
<1>4. \A i \in DOMAIN queue : \A s :
         /\ LET e == [queue[i] EXCEPT !.status = s] IN e.job = queue[i].job /\ e.status = s
         /\ LET e == [queue[i] EXCEPT !.status = "pending", !.started = 0]
            IN  e.job = queue[i].job /\ e.status = "pending"
  BY <1>3 DEF Row
<1>5. \A i \in EndedSinceClaim :
         runs[queue[i].run].status # "running" /\ runs[queue[i].run].status # "pending"
  BY <1>3 DEF EndedSinceClaim, Run, RunStatus, RunEnds
<1>6. /\ DOMAIN queue' = DOMAIN queue \ (Superseded \cup Collapsed)
      /\ \A i \in DOMAIN queue' :
            /\ queue'[i].job = queue[i].job
            /\ queue'[i].status = IF i \in EndedSinceClaim THEN runs[queue[i].run].status
                                  ELSE IF i \in Running THEN "pending" ELSE queue[i].status
  BY <1>1, <1>4 DEF ResetStaleRunning
<1>7. Superseded \cup Collapsed \subseteq Running /\ EndedSinceClaim \subseteq Running
  BY DEF Superseded, Collapsed, EndedSinceClaim
<1>8. \A i \in Superseded \cup Collapsed : i \notin EndedSinceClaim
  BY Numbers DEF Superseded, Collapsed, EndedSinceClaim, NoRun
<1>9. RowIds \subseteq Nat /\ nextRow \in Nat /\ \A i \in DOMAIN queue : ~(i >= nextRow)
  BY Numbers, Stages, BoundAssumption DEF RowIds
<1>10. ASSUME NEW i \in RowIds
       PROVE  /\ Stage(i) = "interrupted" <=> i \in Running
              /\ i \notin Running => Stage(i)' = Stage(i)
              /\ i \in Running /\ i \in DOMAIN queue' => Stage(i)' \in {"waiting", "over"}
              /\ i \in Running /\ i \notin DOMAIN queue' => Stage(i)' = "folded"
  <2>1. Stage(i) = "interrupted" <=> i \in Running
    BY <1>2, Stages DEF Pending, Running
  <2>2. ASSUME i \notin Running
        PROVE  Stage(i)' = Stage(i)
    <3>1. i \in DOMAIN queue <=> i \in DOMAIN queue'
      BY <1>6, <1>7, <2>2
    <3>2. i \in DOMAIN queue => queue'[i].status = queue[i].status
      BY <1>6, <1>7, <2>2, <3>1
    <3> QED
      BY <1>1, <1>2, <3>1, <3>2 DEF Stage, Pending, Running
  <2>3. ASSUME i \in Running, i \in DOMAIN queue'
        PROVE  Stage(i)' \in {"waiting", "over"}
    <3>1. i \in DOMAIN queue /\ queue'[i].status # "running"
      BY <1>5, <1>6, <2>3 DEF Running
    <3> QED
      BY <1>1, <1>2, <1>9, <2>3, <3>1 DEF Stage, Pending, Running
  <2>4. ASSUME i \in Running, i \notin DOMAIN queue'
        PROVE  Stage(i)' = "folded"
    BY <1>1, <1>9, <2>4 DEF Stage, Running
  <2> QED
    BY <2>1, <2>2, <2>3, <2>4
<1>11. ASSUME NEW i \in RowIds, i \in Running, i \notin DOMAIN queue'
       PROVE  \E k \in DOMAIN queue : /\ Stage(k)' = "waiting"
                                      /\ queue[k].job = queue[i].job
  <2>1. i \notin EndedSinceClaim
    BY <1>6, <1>8, <1>11 DEF Running
  <2>2. PICK k \in DOMAIN queue' : /\ k \in DOMAIN queue
                                   /\ queue'[k].status = "pending"
                                   /\ queue'[k].job = queue[i].job
                                   /\ queue'[k].job = queue[k].job
    BY <1>1, <1>11, <2>1, InterruptedWaits
  <2>3. Stage(k)' = "waiting"
    BY <1>1, <1>9, <2>2 DEF Stage, Pending
  <2> QED
    BY <2>2, <2>3
<1>12. DOMAIN queue' = {k \in DOMAIN queue : Stage(k)' # "folded"}
  <2>1. \A k \in DOMAIN queue : k \in RowIds
    BY Stages
  <2>2. \A k \in DOMAIN queue' : k \in DOMAIN queue
    BY <1>6
  <2>3. ASSUME NEW k \in DOMAIN queue
        PROVE  k \in DOMAIN queue' <=> Stage(k)' # "folded"
    <3>1. CASE k \in Running
      BY <1>10, <2>1, <3>1
    <3>2. CASE k \notin Running
      <4>1. k \in DOMAIN queue'
        BY <1>6, <1>7, <3>2
      <4>2. Stage(k) # "folded"
        BY <1>9 DEF Stage
      <4> QED
        BY <1>10, <2>1, <3>2, <4>1, <4>2
    <3> QED
      BY <3>1, <3>2
  <2> QED
    BY <2>2, <2>3
<1>13. \A k \in DOMAIN queue : k \in RowIds
  BY Stages
<1>14. Running \subseteq DOMAIN queue
  BY DEF Running
<1>15. ASSUME NEW i \in RowIds
       PROVE  IF Stage(i) = "interrupted"
              THEN \/ Stage(i)' \in {"waiting", "over"}
                   \/ /\ Stage(i)' = "folded"
                      /\ \E k \in DOMAIN queue : /\ k \in RowIds /\ Stage(k)' = "waiting"
                                                 /\ queue[k].job = queue[i].job
                                                 /\ i \in DOMAIN queue
              ELSE Stage(i)' = Stage(i)
  BY <1>10, <1>11, <1>13, <1>14
<1>16. Ledger!Recover
  BY <1>6, <1>12, <1>13, <1>15 DEF Ledger!Recover
<1> QED
  BY <1>16 DEF LedgerStep, Ledger!Next

\* A step of one worker that leaves the rows as they are, and the worker with
\* the row it had or with none.
LEMMA WorkerQuiet ==
    ASSUME Inv, Inv', Steady, NEW w \in Workers, NEW place,
           Go(w, place), claim' = claim, UNCHANGED <<queue, nextRow>>,
           place \in Owning <=> pc[w] \in Owning
    PROVE  LedgerStep
<1>1. \A v \in Workers : pc'[v] \in Owning <=> pc[v] \in Owning
  BY DEF Go, Inv, OthersTyped
<1>2. \A v \in Workers, i \in RowIds : Owns(v, i)' <=> Owns(v, i)
  BY <1>1 DEF Owns
<1> QED
  BY <1>2, SameLedger

\* The handlers of the web pages and the poller (runner.go:131-260).
LEMMA RequestsInLedger ==
    ASSUME Inv, Inv', Steady, Requests
    PROVE  LedgerStep
<1>1. ASSUME UNCHANGED <<pc, claim>>
      PROVE  \A w \in Workers, i \in RowIds : Owns(w, i)' <=> Owns(w, i)
  BY <1>1 DEF Owns
<1>2. ASSUME NEW j \in Jobs, Trigger(j)
      PROVE  LedgerStep
  <2>1. UNCHANGED <<pc, claim>> /\ EnqueueJob(j)
    BY <1>2 DEF Trigger, volatile
  <2>2. CASE UNCHANGED <<queue, nextRow>>
    BY <1>1, <2>1, <2>2, SameLedger
  <2>3. CASE Insert(NewRow(j, FALSE, NoRun))
    BY <2>1, <2>3, InsertRequests
  <2> QED
    BY <2>1, <2>2, <2>3 DEF EnqueueJob
<1>3. ASSUME NEW j \in Jobs, NEW f \in Forces, Enqueue(j, f)
      PROVE  LedgerStep
  <2>1. UNCHANGED <<pc, claim>> /\ EnqueueManualJob(j)
    BY <1>3 DEF Enqueue, workerVars
  <2>2. CASE Ordinary(j) # {}
    <3>1. \A i \in DOMAIN queue : queue[i] \in Row
      BY DEF Inv, TableInv, TablesTyped
    <3>2. \A i \in DOMAIN queue : LET e == [queue[i] EXCEPT !.manual = TRUE]
                                  IN  e.job = queue[i].job /\ e.status = queue[i].status
      BY <3>1 DEF Row
    <3>3. nextRow' = nextRow /\ DOMAIN queue' = DOMAIN queue /\ \A i \in DOMAIN queue :
             queue'[i].job = queue[i].job /\ queue'[i].status = queue[i].status
      BY <2>1, <2>2, <3>2 DEF EnqueueManualJob
    <3> QED
      BY <1>1, <2>1, <3>3, SameLedger
  <2>3. CASE Ordinary(j) = {}
    BY <2>1, <2>3, InsertRequests DEF EnqueueManualJob
  <2> QED
    BY <2>2, <2>3
<1>4. ASSUME NEW r \in DOMAIN runs, EnqueueRerun(r)
      PROVE  LedgerStep
  <2>1. UNCHANGED <<pc, claim>> /\ EnqueueRerunJob(runs[r].job, r)
    BY <1>4 DEF EnqueueRerun, volatile
  <2>2. PICK j \in Jobs : j = runs[r].job
    BY DEF Inv, TableInv, TablesTyped, Run
  <2>3. CASE UNCHANGED <<queue, nextRow>>
    BY <1>1, <2>1, <2>3, SameLedger
  <2>4. CASE Insert(NewRow(j, TRUE, r))
    BY <2>1, <2>4, InsertRequests
  <2> QED
    BY <2>1, <2>2, <2>3, <2>4 DEF EnqueueRerunJob
<1>5. ASSUME NEW j \in Jobs, AbortQueued(j)
      PROVE  LedgerStep
  BY <1>5, AbortDrops DEF AbortQueued, workerVars
<1>6. ASSUME UNCHANGED <<queue, nextRow, pc, claim>>
      PROVE  LedgerStep
  BY <1>1, <1>6, SameLedger
<1>7. ASSUME NEW j \in Jobs, MarkForced(j) \/ DropForce(j)
      PROVE  LedgerStep
  BY <1>6, <1>7 DEF MarkForced, DropForce, workerVars, storeVars
<1>8. ASSUME NEW w \in Workers, Abort(w)
      PROVE  LedgerStep
  BY <1>6, <1>8 DEF Abort, storeVars
<1>9. ASSUME Operate
      PROVE  LedgerStep
  BY <1>6, <1>9 DEF Operate, volatile
<1> QED
  BY <1>2, <1>3, <1>4, <1>5, <1>7, <1>8, <1>9 DEF Requests

\* DrainOne up to a registered run (runner.go:383-452).
LEMMA DrainInLedger ==
    ASSUME Inv, Inv', Steady, NEW w \in Workers, Drain(w)
    PROVE  LedgerStep
<1>1. \A v \in Workers : v # w => /\ Idle(w) => pc'[v] = pc[v] /\ claim'[v] = claim[v]
  BY DEF Idle, Go, Inv, OthersTyped
<1>2. Idle(w) => pc'[w] = "idle"
  BY DEF Idle, Go, Inv, OthersTyped
<1>3. CASE Admit(w)
  BY <1>3, WorkerQuiet DEF Admit, At, Owning, InRunning, storeVars
<1>4. CASE TakeSlot(w)
  BY <1>4, WorkerQuiet DEF TakeSlot, At, Owning, InRunning, storeVars
<1>5. CASE NothingClaimable(w)
  BY <1>5, WorkerQuiet DEF NothingClaimable, At, Owning, InRunning, storeVars
<1>6. CASE Leave(w)
  BY <1>6, WorkerQuiet DEF Leave, At, Owning, InRunning, storeVars
<1>7. CASE Register(w)
  BY <1>7, WorkerQuiet DEF Register, At, Owning, InRunning, storeVars
<1>8. CASE \E i \in DOMAIN queue : Claim(w, i)
  BY <1>8, ClaimStarts
<1>9. ASSUME NEW s, s \in {"failed", "skipped"}, CompleteJob(claim[w].id, s), Idle(w),
             nextRow' = nextRow, At(w, "claimed")
      PROVE  LedgerStep
  <2>1. pc[w] \in Owning /\ s \notin Unfinished /\ pc'[w] \notin Owning
    BY <1>2, <1>9 DEF At, Owning, InRunning, Unfinished
  <2> QED
    BY <1>1, <1>9, <2>1, CloseEnds
<1>10. CASE DropJob(w)
  BY <1>9, <1>10 DEF DropJob
<1>11. CASE Skip(w)
  BY <1>9, <1>11 DEF Skip
<1> QED
  BY <1>3, <1>4, <1>5, <1>6, <1>7, <1>8, <1>10, <1>11 DEF Drain

\* runAndFinalize and finalizePanic: the row is closed, or left running for
\* the restart (runner.go:455-516).
LEMMA FinalizeInLedger ==
    ASSUME Inv, Inv', Steady, NEW w \in Workers, pc[w] \in Owning, NEW aborted, NEW e,
           Finalize(w, aborted, e), nextRow' = nextRow
    PROVE  LedgerStep
<1>1. Idle(w) => /\ pc'[w] = "idle"
                 /\ \A v \in Workers : v # w => pc'[v] = pc[v] /\ claim'[v] = claim[v]
  BY DEF Idle, Go, Inv, OthersTyped
<1>2. Go(w, "recording") => /\ pc'[w] = "recording"
                            /\ \A v \in Workers : v # w => pc'[v] = pc[v]
  BY DEF Go, Inv, OthersTyped
<1>3. ASSUME NEW s, s \in {"aborted", "failed", "succeeded"}, CompleteJob(claim[w].id, s),
             Idle(w) \/ (Go(w, "recording") /\ claim' = claim)
      PROVE  LedgerStep
  <2>1. s \notin Unfinished /\ pc'[w] \notin Owning
    BY <1>1, <1>2, <1>3 DEF Owning, InRunning, Unfinished
  <2>2. \A v \in Workers : v # w => pc'[v] = pc[v] /\ claim'[v] = claim[v]
    BY <1>1, <1>2, <1>3
  <2> QED
    BY <1>3, <2>1, <2>2, CloseEnds
<1>4. CASE UNCHANGED queue /\ Idle(w)
  <2>1. pc'[w] \notin Owning
    BY <1>1, <1>4 DEF Owning, InRunning
  <2>2. \A v \in Workers, i \in RowIds : Owns(v, i)' => Owns(v, i)
    BY <1>1, <1>4, <2>1 DEF Owns
  <2> QED
    BY <1>4, <2>2, LettingGoInterrupts
<1>5. CASE CompleteJob(claim[w].id, "aborted") /\ Idle(w)
  BY <1>3, <1>5
<1>6. CASE CompleteJob(claim[w].id, "failed") /\ Idle(w)
  BY <1>3, <1>6
<1>7. CASE /\ CompleteJob(claim[w].id, IF e = "none" THEN "succeeded" ELSE "failed")
           /\ Go(w, "recording") /\ claim' = claim
  <2>1. PICK s \in {"aborted", "failed", "succeeded"} :
           s = IF e = "none" THEN "succeeded" ELSE "failed"
    OBVIOUS
  <2> QED
    BY <1>3, <1>7, <2>1
<1> QED
  BY <1>4, <1>5, <1>6, <1>7 DEF Finalize

\* RunJob and what follows it (pipeline/job.go, runner.go:455-516).
LEMMA BuildInLedger ==
    ASSUME Inv, Inv', Steady, NEW w \in Workers, Build(w)
    PROVE  LedgerStep
<1>1. Unwinding \in {"ended", "returned"} /\ {"ended", "returned"} \subseteq Owning
  BY DEF Unwinding, Owning, InRunning
<1>2. CASE RefuseRerun(w)
  <2>1. pc[w] \in Owning
    BY <1>2 DEF RefuseRerun, At, Owning, InRunning
  <2> QED
    BY <1>2, <2>1, FinalizeInLedger DEF RefuseRerun
<1>3. CASE Return(w)
  <2>1. pc[w] \in Owning
    BY <1>3 DEF Return, At, Owning, InRunning
  <2> QED
    BY <1>3, <2>1, FinalizeInLedger DEF Return
<1>4. CASE RefuseBuild(w)
  <2>1. PICK place \in {"returned", Unwinding} : Go(w, place)
    BY <1>4 DEF RefuseBuild
  <2>2. place \in Owning /\ pc[w] \in Owning
    BY <1>1, <1>4 DEF RefuseBuild, At, Owning, InRunning
  <2> QED
    BY <1>4, <2>1, <2>2, WorkerQuiet DEF RefuseBuild, storeVars
<1>5. CASE BeginRun(w)
  <2>1. \A i \in DOMAIN queue : queue[i] \in Row
    BY DEF Inv, TableInv, TablesTyped
  <2>2. \A i \in DOMAIN queue : \A r : LET e == [queue[i] EXCEPT !.run = r]
                                   IN  e.job = queue[i].job /\ e.status = queue[i].status
    BY <2>1 DEF Row
  <2>3. /\ DOMAIN queue' = DOMAIN queue /\ nextRow' = nextRow /\ claim' = claim
        /\ \A i \in DOMAIN queue : /\ queue'[i].job = queue[i].job
                                   /\ queue'[i].status = queue[i].status
    BY <1>5, <2>2 DEF BeginRun, StartRun
  <2>4. PICK place \in {"building", "minted"} : Go(w, place)
    BY <1>5 DEF BeginRun
  <2>5. place \in Owning /\ pc[w] \in Owning
    BY <1>5 DEF BeginRun, At, Owning, InRunning
  <2>6. \A v \in Workers : pc'[v] \in Owning <=> pc[v] \in Owning
    BY <2>4, <2>5 DEF Go, Inv, OthersTyped
  <2>7. \A v \in Workers, i \in RowIds : Owns(v, i)' <=> Owns(v, i)
    BY <2>3, <2>6 DEF Owns
  <2> QED
    BY <2>3, <2>7, SameLedger
<1>6. CASE RecordRunRerun(w)
  <2>1. PICK place \in {"building", Unwinding} : Go(w, place)
    BY <1>6 DEF RecordRunRerun
  <2>2. place \in Owning /\ pc[w] \in Owning
    BY <1>1, <1>6 DEF RecordRunRerun, At, Owning, InRunning
  <2> QED
    BY <1>6, <2>1, <2>2, WorkerQuiet DEF RecordRunRerun, storeVars
<1>7. CASE ContinueRun(w)
  <2>1. PICK place \in {"building", Unwinding} : Go(w, place)
    BY <1>7 DEF ContinueRun
  <2>2. place \in Owning /\ pc[w] \in Owning
    BY <1>1, <1>7 DEF ContinueRun, At, Owning, InRunning
  <2> QED
    BY <1>7, <2>1, <2>2, WorkerQuiet DEF ContinueRun
<1>8. CASE BuildEnds(w)
  <2>1. PICK place \in {"built", Unwinding} : Go(w, place)
    BY <1>8 DEF BuildEnds
  <2>2. place \in Owning /\ pc[w] \in Owning
    BY <1>1, <1>8 DEF BuildEnds, At, Owning, InRunning
  <2> QED
    BY <1>8, <2>1, <2>2, WorkerQuiet DEF BuildEnds, storeVars
<1>9. CASE Finish(w)
  <2>1. Unwinding \in Owning /\ pc[w] \in Owning
    BY <1>1, <1>9 DEF Finish, At, Owning, InRunning
  <2> QED
    BY <1>9, <2>1, WorkerQuiet DEF Finish
<1>10. ASSUME queue' = [i \in DOMAIN queue |-> queue[i]]
       PROVE  queue' = queue
  BY <1>10 DEF Inv, TableInv, TablesTyped
<1>11. CASE PruneRunHistory(w)
  <2>1. Reaped(claim[w].job, run[w]) = {}
    BY DEF Steady, NothingPruned, Reaped
  <2>2. queue' = [i \in DOMAIN queue |-> queue[i]]
    BY <1>11, <2>1 DEF PruneRunHistory, PruneRuns
  <2> QED
    BY <1>10, <1>11, <2>2, WorkerQuiet DEF PruneRunHistory, At, Owning, InRunning
<1>12. CASE PruneQueueHistory(w)
  <2>1. OldRows(claim[w].job) = {}
    BY DEF Steady, NothingPruned, OldRows
  <2>2. queue' = [i \in DOMAIN queue |-> queue[i]]
    BY <1>12, <2>1 DEF PruneQueueHistory, PruneTriggerQueue
  <2> QED
    BY <1>10, <1>12, <2>2, WorkerQuiet DEF PruneQueueHistory, At, Owning, InRunning
<1>13. CASE Recover(w)
  <2>1. "panicked" \in Owning /\ pc[w] \in Owning
    BY <1>13 DEF Recover, At, Owning, InRunning
  <2> QED
    BY <1>13, <2>1, WorkerQuiet DEF Recover
<1>14. CASE RecordBreaker(w)
  <2>1. /\ pc[w] \notin Owning /\ pc'[w] \notin Owning
        /\ \A v \in Workers : v # w => pc'[v] = pc[v] /\ claim'[v] = claim[v]
    BY <1>14 DEF RecordBreaker, Idle, Go, At, Inv, OthersTyped, Owning, InRunning
  <2>2. \A v \in Workers, i \in RowIds : Owns(v, i)' <=> Owns(v, i)
    BY <2>1 DEF Owns
  <2> QED
    BY <1>14, <2>2, SameLedger DEF RecordBreaker
<1> QED
  BY <1>2, <1>3, <1>4, <1>5, <1>6, <1>7, <1>8, <1>9, <1>11, <1>12, <1>13, <1>14 DEF Build

\* The process: recovery, a stop, the end of the grace, an exit or a crash.
LEMMA ProcessInLedger ==
    ASSUME Inv, Inv', Steady, Process
    PROVE  LedgerStep
<1>1. CASE Start
  BY <1>1, StartSettles
<1>2. ASSUME UNCHANGED <<queue, nextRow, pc, claim>>
      PROVE  LedgerStep
  BY <1>2, SameLedger DEF Owns
<1>3. CASE Stop
  BY <1>2, <1>3 DEF Stop, storeVars, volatile
<1>4. CASE \E w \in Workers : CancelRun(w)
  BY <1>2, <1>4 DEF CancelRun, storeVars
<1>5. CASE Exit \/ Crash
  <2>1. UNCHANGED <<queue, nextRow>> /\ NoProcess
    BY <1>5 DEF Exit, Crash, storeVars
  <2>2. \A v \in Workers, i \in RowIds : ~Owns(v, i)'
    BY <2>1 DEF NoProcess, Owns, Owning, InRunning
  <2> QED
    BY <2>1, <2>2, LettingGoInterrupts
<1> QED
  BY <1>1, <1>3, <1>4, <1>5 DEF Process

\* The empty tables of a new database are the empty ledger.
LEMMA InitLedger == Init => Ledger!Init
<1> SUFFICES ASSUME Init PROVE Ledger!Init
  OBVIOUS
<1>1. nextRow = 1 /\ DOMAIN queue = {}
  BY DEF Init, StoreInit
<1>2. \A i \in RowIds : Stage(i) = "unused"
  BY <1>1, BoundAssumption DEF Stage, RowIds
<1> QED
  BY <1>1, <1>2 DEF Ledger!Init

\* Every step of the scheduler is a step of the ledger or none.
LEMMA StepLedger == Inv /\ Inv' /\ Steady /\ [Next]_vars => LedgerStep
<1> SUFFICES ASSUME Inv, Inv', Steady, [Next]_vars PROVE LedgerStep
  OBVIOUS
<1>1. ASSUME UNCHANGED <<queue, nextRow, pc, claim>>
      PROVE  LedgerStep
  BY <1>1, SameLedger DEF Owns
<1>2. CASE Reconfigure
  BY <1>1, <1>2 DEF Reconfigure, SyncQueueLimits, SetConfig, storeVars, volatile
<1>3. CASE UNCHANGED vars
  BY <1>1, <1>3 DEF vars, storeVars, volatile
<1> QED
  BY <1>2, <1>3, RequestsInLedger, ProcessInLedger, DrainInLedger, BuildInLedger DEF Next

\* The queue and its workers implement the ledger of requests, under limits
\* that do not change and with nothing pruned: no row is admitted past a limit
\* that counts builds, no build ends twice, and what a stop or a crash left is
\* waiting, over or folded once the next daemon serves (runner.go:383-516,
\* queue.go:90-305).
THEOREM LedgerImplemented ==
    ASSUME RunHistory = 0, QueueHistory = 0, \A c, d \in Configs : c = d
    PROVE  Spec => ImplementsLedger
<1>1. Steady
  BY DEF Steady, NothingPruned, OneConfig
<1>2. Inv /\ Inv' /\ [Next]_vars =>
         [Ledger!Next]_<<[i \in RowIds |-> Stage(i)], [i \in DOMAIN queue |-> queue[i].job]>>
  BY <1>1, StepLedger DEF LedgerStep
<1> QED
  BY <1>2, InitLedger, Invariance, PTL DEF Spec, ImplementsLedger, Ledger!Spec
=============================================================================
