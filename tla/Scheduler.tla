----------------------------- MODULE Scheduler ------------------------------
(***************************************************************************)
(* One pipeline's drain: the workers of LocalRunner that claim queue rows  *)
(* and build them (internal/scheduler/runner.go), the part of RunJob that  *)
(* writes the run they are building (internal/pipeline/job.go), the web    *)
(* handlers that put work on the queue or stop it, and the daemon process  *)
(* that starts, is stopped, or dies under all of them.                     *)
(*                                                                         *)
(* A step of a worker is one access to what others can see: one store      *)
(* call, or one critical section of r.mu.  What lies between two of them   *)
(* (a plan's steps and hooks, above all) is the time the others have.      *)
(*                                                                         *)
(*   idle -Admit-> admitted -TakeSlot-> slotted -Claim-> claimed           *)
(*     -Register-> registered -Begin-> building -BuildEnds-> built         *)
(*     -Finish-> ended -Prune...-> returned -Return-> recording            *)
(*     -RecordBreaker-> idle                                               *)
(***************************************************************************)
EXTENDS TriggerQueue

CONSTANTS
    Workers,   \* the pipeline's drain workers (--max-concurrent of them)
    MaxSlots,  \* --max-runs: builds the daemon may have going at once
    Forces     \* what a trigger form may say of force: a set of BOOLEANs

ASSUME SlotAssumption == MaxSlots \in Nat \ {0} /\ Forces \subseteq BOOLEAN

VARIABLES
    mode,     \* the daemon: down, serving, or stopping (its drain ended)
    served,   \* the configuration target.Config() answers with
    forced,   \* r.forced: jobs whose next ordinary claim is forced
    marking,  \* jobs an Enqueue has queued and is about to mark forced
    dropping, \* jobs an AbortQueued has dropped and is about to unmark
    pc,       \* where each worker is
    claim,    \* the row a worker claimed, as ClaimNextJob returned it
    force,    \* whether the build it is making skips the cache
    ceiling,  \* its job's max_consecutive_failures, as the claim resolved it
    run,      \* the run it is building, NoRun before one exists
    cause,    \* why the run's context ended: none, abort or drain
    err,      \* what the build came to
    built     \* history: the rows whose build has recorded its end

volatile == <<forced, marking, dropping, pc, claim, force, ceiling, run, cause, err>>
workerVars == <<pc, claim, force, ceiling, run, cause, err>>
requestVars == <<forced, marking, dropping>>
vars == <<storeVars, mode, served, volatile, built>>

NoClaim == [id |-> 0]
Claims == [id: RowIds, job: Jobs, manual: BOOLEAN,
           rerunOf: RunIds \cup {NoRun}, resume: RunIds \cup {NoRun}]

\* The run is in r.running: an abort or the end of the drain reaches it.
InRunning == {"registered", "minted", "building", "built", "ended", "pruned", "panicked",
              "returned"}
\* Holding the claimed row: whatever CompleteJob has not closed yet.
Owning == {"claimed"} \cup InRunning
\* Holding a --max-runs slot, which DrainOne gives back as it returns.
Slotted == {"slotted", "recording"} \cup Owning
Places == {"off", "idle", "admitted"} \cup Slotted

TypeOK ==
    /\ StoreTypeOK
    /\ mode \in {"down", "serving", "stopping"}
    /\ served \in Configs
    /\ forced \in SUBSET Jobs /\ marking \in SUBSET Jobs /\ dropping \in SUBSET Jobs
    /\ pc \in [Workers -> Places]
    /\ claim \in [Workers -> Claims \cup {NoClaim}]
    /\ force \in [Workers -> BOOLEAN]
    /\ ceiling \in [Workers -> Nat]
    /\ run \in [Workers -> RunIds \cup {NoRun}]
    /\ cause \in [Workers -> {"none", "abort", "drain"}]
    /\ err \in [Workers -> {"none", "failure", "panic", "canceled"}]
    /\ built \in SUBSET RowIds

\* Nothing of the process survives it but the database.
NoProcess ==
    /\ forced' = {} /\ marking' = {} /\ dropping' = {}
    /\ pc' = [w \in Workers |-> "off"]
    /\ claim' = [w \in Workers |-> NoClaim]
    /\ force' = [w \in Workers |-> FALSE]
    /\ ceiling' = [w \in Workers |-> 0]
    /\ run' = [w \in Workers |-> NoRun]
    /\ cause' = [w \in Workers |-> "none"]
    /\ err' = [w \in Workers |-> "none"]

Init ==
    /\ StoreInit
    /\ mode = "down"
    /\ served = mirror
    /\ forced = {} /\ marking = {} /\ dropping = {}
    /\ pc = [w \in Workers |-> "off"]
    /\ claim = [w \in Workers |-> NoClaim]
    /\ force = [w \in Workers |-> FALSE]
    /\ ceiling = [w \in Workers |-> 0]
    /\ run = [w \in Workers |-> NoRun]
    /\ cause = [w \in Workers |-> "none"]
    /\ err = [w \in Workers |-> "none"]
    /\ built = {}

-----------------------------------------------------------------------------
(* Who asks for work, and who stops it.                                    *)

\* A poll, a webhook delivery or a backlog queues a job.
Trigger(j) ==
    /\ mode = "serving" /\ j \in JobsOf[served]
    /\ EnqueueJob(j)
    /\ UNCHANGED <<runs, nextRun, breaker, paused, mirror, epoch, mode, served,
                   volatile, built>>

\* handleTrigger: refused while paused, else EnqueueManualJob; a forced one
\* has its flag still to set, under r.mu.  The question and the insert are one
\* step here: rows queued behind a pause there are anyway, from Trigger.
Enqueue(j, forceIt) ==
    /\ mode = "serving" /\ j \in JobsOf[served] /\ ~Paused
    /\ EnqueueManualJob(j)
    /\ forceIt => j \notin marking
    /\ marking' = IF forceIt THEN marking \cup {j} ELSE marking
    /\ UNCHANGED <<runs, nextRun, breaker, paused, mirror, epoch, mode, served,
                   forced, dropping, workerVars, built>>

MarkForced(j) ==
    /\ j \in marking
    /\ marking' = marking \ {j}
    /\ forced' = forced \cup {j}
    /\ UNCHANGED <<storeVars, mode, served, dropping, workerVars, built>>

\* handleRerun: a run that ended, of a job the pipeline still has.
EnqueueRerun(r) ==
    /\ mode = "serving" /\ ~Paused
    /\ runs[r].status # "running" /\ runs[r].job \in JobsOf[served]
    /\ EnqueueRerunJob(runs[r].job, r)
    /\ UNCHANGED <<runs, nextRun, breaker, paused, mirror, epoch, mode, served,
                   volatile, built>>

\* The queued rows go first, the force they were queued with after them.
AbortQueued(j) ==
    /\ mode = "serving" /\ j \notin dropping
    /\ \E i \in Pending : queue[i].job = j
    /\ AbortQueuedJob(j)
    /\ dropping' = dropping \cup {j}
    /\ UNCHANGED <<nextRow, runs, nextRun, breaker, paused, mirror, epoch, mode,
                   served, forced, marking, workerVars, built>>

DropForce(j) ==
    /\ j \in dropping
    /\ dropping' = dropping \ {j}
    /\ forced' = forced \ {j}
    /\ UNCHANGED <<storeVars, mode, served, marking, workerVars, built>>

\* Only cancels: the run unwinds by itself.  A context keeps its first cause.
Abort(w) ==
    /\ pc[w] \in InRunning /\ cause[w] = "none"
    /\ cause' = [cause EXCEPT ![w] = "abort"]
    /\ UNCHANGED <<storeVars, mode, served, requestVars, pc, claim, force, ceiling,
                   run, err, built>>

\* Pause, Unpause, PauseAll, UnpauseAll, and a job's release.
Operate ==
    /\ mode = "serving"
    /\ \/ (\E s \in Switches : Pause(s) \/ Unpause(s)) /\ UNCHANGED breaker
       \/ \E j \in Jobs : IsJobHeld(j) /\ ResetJobFailures(j) /\ UNCHANGED paused
    /\ UNCHANGED <<queue, nextRow, runs, nextRun, mirror, epoch, mode, served,
                   volatile, built>>

\* A set swaps the served configuration, then mirrors its limits.
SetConfig(c) ==
    /\ mode = "serving" /\ served = mirror /\ c # served
    /\ served' = c
    /\ UNCHANGED <<storeVars, mode, volatile, built>>

SyncQueueLimits ==
    /\ mode = "serving" /\ mirror # served
    /\ SyncJobLimits(served)
    /\ UNCHANGED <<queue, nextRow, runs, nextRun, breaker, paused, epoch, mode,
                   served, volatile, built>>

-----------------------------------------------------------------------------
(* DrainOne: from the queue to a registered run.                           *)

At(w, place) == pc[w] = place
Go(w, place) == pc' = [pc EXCEPT ![w] = place]

\* DrainOne returns: the worker's locals and its slot go with it.
Idle(w) ==
    /\ Go(w, "idle")
    /\ claim' = [claim EXCEPT ![w] = NoClaim]
    /\ force' = [force EXCEPT ![w] = FALSE]
    /\ ceiling' = [ceiling EXCEPT ![w] = 0]
    /\ run' = [run EXCEPT ![w] = NoRun]
    /\ cause' = [cause EXCEPT ![w] = "none"]
    /\ err' = [err EXCEPT ![w] = "none"]

\* admits: the pause is asked once, before the wait for a slot.
Admit(w) ==
    /\ At(w, "idle") /\ mode = "serving" /\ ~Paused
    /\ Go(w, "admitted")
    /\ UNCHANGED <<storeVars, mode, served, requestVars, claim, force, ceiling, run,
                   cause, err, built>>

TakeSlot(w) ==
    /\ At(w, "admitted") /\ mode = "serving"
    /\ Cardinality({v \in Workers : pc[v] \in Slotted}) < MaxSlots
    /\ Go(w, "slotted")
    /\ UNCHANGED <<storeVars, mode, served, requestVars, claim, force, ceiling, run,
                   cause, err, built>>

Claim(w, i) ==
    /\ At(w, "slotted") /\ mode = "serving"
    /\ ClaimNextJob(i)
    /\ claim' = [claim EXCEPT ![w] =
          [id |-> i, job |-> queue[i].job, manual |-> queue[i].manual,
           rerunOf |-> queue[i].rerunOf, resume |-> queue[i].run]]
    /\ Go(w, "claimed")
    /\ UNCHANGED <<nextRow, runs, nextRun, breaker, paused, mirror, epoch, mode, served,
                   requestVars, force, ceiling, run, cause, err, built>>

NothingClaimable(w) ==
    /\ At(w, "slotted") /\ mode = "serving"
    /\ \A i \in DOMAIN queue : ~Claimable(i)
    /\ Go(w, "idle")
    /\ UNCHANGED <<storeVars, mode, served, requestVars, claim, force, ceiling, run,
                   cause, err, built>>

\* drainWorker returns once its context has ended and it holds no row.
Leave(w) ==
    /\ mode = "stopping" /\ pc[w] \in {"idle", "admitted", "slotted"}
    /\ Go(w, "off")
    /\ UNCHANGED <<storeVars, mode, served, requestVars, claim, force, ceiling, run,
                   cause, err, built>>

\* takeForce: the claim of an ordinary row spends the job's force.
Spend(w) == IF claim[w].rerunOf = NoRun THEN {claim[w].job} ELSE {}

\* The job left the configuration between its trigger and its claim.
DropJob(w) ==
    /\ At(w, "claimed") /\ claim[w].job \notin JobsOf[served]
    /\ forced' = forced \ Spend(w)
    /\ CompleteJob(claim[w].id, "failed")
    /\ Idle(w)
    /\ UNCHANGED <<nextRow, runs, nextRun, breaker, paused, mirror, epoch, mode, served,
                   marking, dropping, built>>

\* skipIfPaused: the breaker holds back what no person asked for, if it can be
\* read: under a drain that has ended the read may fail, and the row is run.
Skip(w) ==
    /\ At(w, "claimed") /\ claim[w].job \in JobsOf[served]
    /\ IsJobHeld(claim[w].job) /\ ~claim[w].manual
    /\ forced' = forced \ Spend(w)
    /\ CompleteJob(claim[w].id, "skipped")
    /\ Idle(w)
    /\ UNCHANGED <<nextRow, runs, nextRun, breaker, paused, mirror, epoch, mode, served,
                   marking, dropping, built>>

\* runJob up to its entry in r.running.  A resume its record cannot vouch for,
\* or whose tree is gone, is a new run instead.
Register(w) ==
    /\ At(w, "claimed") /\ claim[w].job \in JobsOf[served]
    /\ ~IsJobHeld(claim[w].job) \/ claim[w].manual \/ mode = "stopping"
    /\ force' = [force EXCEPT ![w] = Spend(w) \cap forced # {}]
    /\ forced' = forced \ Spend(w)
    /\ ceiling' = [ceiling EXCEPT ![w] = MaxFailuresOf[served][claim[w].job]]
    /\ \E r \in {NoRun, claim[w].resume} :
          /\ r \in DOMAIN runs \cup {NoRun}
          /\ run' = [run EXCEPT ![w] = r]
    /\ Go(w, "registered")
    /\ UNCHANGED <<storeVars, mode, served, marking, dropping, claim, cause, err, built>>

-----------------------------------------------------------------------------
(* RunJob: what the build writes of its run.                               *)

\* Mutant: only the error is asked.
InterruptedByError(e) == e = "canceled"

\* A shutdown is not an outcome: the drain ended, and the error says so too.
Interrupted(e) == mode = "stopping" /\ e = "canceled"

\* Mutant: a recovered panic closes nothing.
FinalizeNoPanic(w, aborted, e) ==
    \/ /\ aborted /\ e \in {"failure", "canceled"}
       /\ CompleteJob(claim[w].id, "aborted")
       /\ Idle(w)
    \/ /\ e = "panic" \/ (~aborted /\ Interrupted(e))
       /\ UNCHANGED queue
       /\ Idle(w)
    \/ /\ e = "none" \/ (e \in {"failure", "canceled"} /\ ~aborted /\ ~Interrupted(e))
       /\ CompleteJob(claim[w].id, IF e = "none" THEN "succeeded" ELSE "failed")
       /\ Go(w, "recording")
       /\ err' = [err EXCEPT ![w] = e]
       /\ UNCHANGED <<claim, force, ceiling, run, cause>>

\* Mutant: the breaker hears of an aborted build too.
FinalizeCountsAborts(w, aborted, e) ==
    \/ /\ ~aborted /\ Interrupted(e)
       /\ UNCHANGED queue
       /\ Idle(w)
    \/ /\ e = "panic"
       /\ CompleteJob(claim[w].id, "failed")
       /\ Idle(w)
    \/ /\ e = "none" \/ (e \in {"failure", "canceled"} /\ (aborted \/ ~Interrupted(e)))
       /\ CompleteJob(claim[w].id, IF e = "none" THEN "succeeded"
                                   ELSE IF aborted THEN "aborted" ELSE "failed")
       /\ Go(w, "recording")
       /\ err' = [err EXCEPT ![w] = e]
       /\ UNCHANGED <<claim, force, ceiling, run, cause>>

\* How runAndFinalize closes the row: aborted, left running for the restart, or
\* with the build's own outcome, the only one the breaker hears of.  A panic is
\* closed by finalizePanic.
Finalize(w, aborted, e) ==
    \/ /\ aborted /\ e \in {"failure", "canceled"}
       /\ CompleteJob(claim[w].id, "aborted")
       /\ Idle(w)
    \/ /\ ~aborted /\ Interrupted(e)
       /\ UNCHANGED queue
       /\ Idle(w)
    \/ /\ e = "panic"
       /\ CompleteJob(claim[w].id, "failed")
       /\ Idle(w)
    \/ /\ \/ e = "none"
          \/ e \in {"failure", "canceled"} /\ ~aborted /\ ~Interrupted(e)
       /\ CompleteJob(claim[w].id, IF e = "none" THEN "succeeded" ELSE "failed")
       /\ Go(w, "recording")
       /\ err' = [err EXCEPT ![w] = e]
       /\ UNCHANGED <<claim, force, ceiling, run, cause>>

\* PrepareRerun finds no run to retry, or a context that has ended: runJob
\* returns at once, and says aborted = false whatever ended the context.  (A
\* retry of a retry stands for a retry of the original, which it resolves to.)
RefuseRerun(w) ==
    /\ At(w, "registered") /\ claim[w].rerunOf # NoRun
    /\ \/ claim[w].rerunOf \notin DOMAIN runs /\ Finalize(w, FALSE, "failure")
       \/ cause[w] # "none" /\ Finalize(w, FALSE, "canceled")
    /\ UNCHANGED <<nextRow, runs, nextRun, breaker, paused, mirror, epoch, mode, served,
                   requestVars, built>>

\* Where RunJob goes once it has a workspace and its body is over: its deferred
\* prune, if one of the two histories has a limit.
Unwinding == IF RunHistory + QueueHistory = 0 THEN "returned" ELSE "ended"

\* Validation, leases, images, the workspace or the store refuse the build, or
\* it panics, before there is a run.
RefuseBuild(w) ==
    /\ At(w, "registered")
    /\ \E e \in {"failure", "panic", "canceled"} :
          /\ e = "canceled" => cause[w] # "none"
          /\ err' = [err EXCEPT ![w] = e]
    /\ \E place \in {"returned", Unwinding} : Go(w, place)
    /\ UNCHANGED <<storeVars, mode, served, requestVars, claim, force, ceiling, run,
                   cause, built>>

\* recordRunIdentity of a new run; a retry has one more statement to go.
BeginRun(w) ==
    /\ At(w, "registered") /\ run[w] = NoRun /\ cause[w] = "none"
    /\ claim[w].rerunOf \in DOMAIN runs \cup {NoRun}
    /\ StartRun(claim[w].job, claim[w].id)
    /\ run' = [run EXCEPT ![w] = nextRun]
    /\ Go(w, IF claim[w].rerunOf = NoRun THEN "building" ELSE "minted")
    /\ UNCHANGED <<nextRow, breaker, paused, mirror, epoch, mode, served, requestVars,
                   claim, force, ceiling, cause, err, built>>

\* RecordRunRerun fails on an ended context or a reaped original, and then the
\* run StartRun recorded is left as it is.
RecordRunRerun(w) ==
    /\ At(w, "minted")
    /\ \/ /\ cause[w] = "none" /\ claim[w].rerunOf \in DOMAIN runs
          /\ Go(w, "building") /\ UNCHANGED err
       \/ /\ cause[w] # "none"
          /\ Go(w, Unwinding) /\ err' = [err EXCEPT ![w] = "canceled"]
       \/ /\ claim[w].rerunOf \notin DOMAIN runs
          /\ Go(w, Unwinding) /\ err' = [err EXCEPT ![w] = "failure"]
    /\ UNCHANGED <<storeVars, mode, served, requestVars, claim, force, ceiling, run,
                   cause, built>>

\* recordRunIdentity of a resume: the run goes back in flight, if it is there.
ContinueRun(w) ==
    /\ At(w, "registered") /\ run[w] # NoRun /\ cause[w] = "none"
    /\ claim[w].rerunOf \in DOMAIN runs \cup {NoRun}
    /\ IF run[w] \in DOMAIN runs
       THEN ResumeRun(run[w]) /\ Go(w, "building") /\ UNCHANGED err
       ELSE /\ err' = [err EXCEPT ![w] = "failure"]
            /\ Go(w, Unwinding) /\ UNCHANGED runs
    /\ UNCHANGED <<queue, nextRow, nextRun, breaker, paused, mirror, epoch, mode, served,
                   requestVars, claim, force, ceiling, run, cause, built>>

\* The plan and its job-level hooks come to an end, one way or another.
BuildEnds(w) ==
    /\ At(w, "building")
    /\ \E e \in {"none", "failure", "canceled", "panic"} :
          /\ e = "canceled" => cause[w] # "none"
          /\ err' = [err EXCEPT ![w] = e]
          /\ Go(w, IF e = "panic" THEN Unwinding ELSE "built")
    /\ UNCHANGED <<storeVars, mode, served, requestVars, claim, force, ceiling, run,
                   cause, built>>

\* The end of RunJob: a build the drain cancelled is left running for the
\* restart to resume, any other end is written.
Finish(w) ==
    /\ At(w, "built")
    /\ IF err[w] # "none" /\ cause[w] = "drain"
       THEN UNCHANGED <<runs, built>>
       ELSE /\ FinishRun(run[w], IF err[w] = "none" THEN "succeeded"
                                 ELSE IF cause[w] = "none" THEN "failed"
                                 ELSE "aborted")
            /\ built' = built \cup {claim[w].id}
    /\ Go(w, Unwinding)
    /\ UNCHANGED <<queue, nextRow, nextRun, breaker, paused, mirror, epoch, mode, served,
                   requestVars, claim, force, ceiling, run, cause, err>>

\* pruneHistory, deferred: the runs first, the queue's rows in a transaction of
\* their own.
PruneRunHistory(w) ==
    /\ At(w, "ended")
    /\ PruneRuns(claim[w].job, run[w])
    /\ Go(w, "pruned")
    /\ UNCHANGED <<nextRow, nextRun, breaker, paused, mirror, epoch, mode, served,
                   requestVars, claim, force, ceiling, run, cause, err, built>>

PruneQueueHistory(w) ==
    /\ At(w, "pruned")
    /\ PruneTriggerQueue(claim[w].job)
    /\ Go(w, "returned")
    /\ UNCHANGED <<nextRow, runs, nextRun, breaker, paused, mirror, epoch, mode, served,
                   requestVars, claim, force, ceiling, run, cause, err, built>>

\* runJob recovers a panic once RunJob's own deferred calls are through.
Recover(w) ==
    /\ At(w, "returned") /\ err[w] = "panic"
    /\ FinishRun(run[w], "failed")
    /\ built' = IF run[w] \in DOMAIN runs THEN built \cup {claim[w].id} ELSE built
    /\ Go(w, "panicked")
    /\ UNCHANGED <<queue, nextRow, nextRun, breaker, paused, mirror, epoch, mode, served,
                   requestVars, claim, force, ceiling, run, cause, err>>

\* runAndFinalize, after runJob: aborted is what the context says by then.
Return(w) ==
    /\ At(w, IF err[w] = "panic" THEN "panicked" ELSE "returned")
    /\ Finalize(w, cause[w] = "abort", err[w])
    /\ UNCHANGED <<nextRow, runs, nextRun, breaker, paused, mirror, epoch, mode, served,
                   requestVars, built>>

\* A write of its own, after the row was closed.
RecordBreaker(w) ==
    /\ At(w, "recording")
    /\ RecordJobOutcome(claim[w].job, err[w] = "none", ceiling[w])
    /\ Idle(w)
    /\ UNCHANGED <<queue, nextRow, runs, nextRun, paused, mirror, epoch, mode, served,
                   requestVars, built>>

-----------------------------------------------------------------------------
(* The process.                                                            *)

\* Recovery, then the limits, then the workers.
Start ==
    /\ mode = "down" /\ epoch < MaxEpoch
    /\ ResetStaleRunning
    /\ epoch' = epoch + 1
    /\ SyncJobLimits(served)
    /\ mode' = "serving"
    /\ pc' = [w \in Workers |-> "idle"]
    /\ UNCHANGED <<nextRow, nextRun, breaker, paused, served, requestVars, claim, force,
                   ceiling, run, cause, err, built>>

\* SIGTERM ends the drain; a build goes on until it is done or cancelled.
Stop ==
    /\ mode = "serving"
    /\ mode' = "stopping"
    /\ UNCHANGED <<storeVars, served, volatile, built>>

\* Mutant: a build that has begun is shielded from the drain's end for good.
CancelUnlessBuilding(w) ==
    /\ mode = "stopping" /\ pc[w] \in InRunning \ {"building"} /\ cause[w] = "none"
    /\ cause' = [cause EXCEPT ![w] = "drain"]
    /\ UNCHANGED <<storeVars, mode, served, requestVars, pc, claim, force, ceiling, run,
                   err, built>>

\* runContext: at once for an interruptible: job, else when the grace is over.
CancelRun(w) ==
    /\ mode = "stopping" /\ pc[w] \in InRunning /\ cause[w] = "none"
    /\ cause' = [cause EXCEPT ![w] = "drain"]
    /\ UNCHANGED <<storeVars, mode, served, requestVars, pc, claim, force, ceiling, run,
                   err, built>>

\* The last worker is gone, or the process dies at any point.
Exit ==
    /\ mode = "stopping" /\ \A w \in Workers : At(w, "off")
    /\ mode' = "down"
    /\ NoProcess
    /\ UNCHANGED <<storeVars, served, built>>

Crash ==
    /\ mode # "down"
    /\ mode' = "down"
    /\ NoProcess
    /\ UNCHANGED <<storeVars, served, built>>

-----------------------------------------------------------------------------
Requests ==
    \/ \E j \in Jobs : \/ Trigger(j) \/ MarkForced(j) \/ AbortQueued(j) \/ DropForce(j)
                       \/ \E f \in Forces : Enqueue(j, f)
    \/ \E r \in DOMAIN runs : EnqueueRerun(r)
    \/ \E w \in Workers : Abort(w)
    \/ Operate

Reconfigure == SyncQueueLimits \/ \E c \in Configs : SetConfig(c)

Drain(w) ==
    \/ Admit(w) \/ TakeSlot(w) \/ NothingClaimable(w) \/ Leave(w)
    \/ \E i \in DOMAIN queue : Claim(w, i)
    \/ DropJob(w) \/ Skip(w) \/ Register(w)

Build(w) ==
    \/ RefuseRerun(w) \/ RefuseBuild(w)
    \/ BeginRun(w) \/ RecordRunRerun(w) \/ ContinueRun(w)
    \/ BuildEnds(w) \/ Finish(w) \/ PruneRunHistory(w)
    \/ PruneQueueHistory(w) \/ Recover(w) \/ Return(w) \/ RecordBreaker(w)

Process == Start \/ Stop \/ Exit \/ Crash \/ \E w \in Workers : CancelRun(w)

Next == Requests \/ Reconfigure \/ Process \/ \E w \in Workers : Drain(w) \/ Build(w)

Spec == Init /\ [][Next]_vars

-----------------------------------------------------------------------------
(* Safety.                                                                 *)

Owns(w, i) == pc[w] \in Owning /\ claim[w].id = i
\* A build somebody can see: from its entry in r.running to its FinishRun.
InFlight == {w \in Workers : pc[w] \in {"registered", "minted", "building", "built"}}

\* While the daemon serves, a row that reads running is some worker's, and no
\* two workers have the same one (runner.go:383-516, the finalize of every
\* path out of DrainOne): a row nobody holds keeps its job's max_in_flight and
\* serial groups taken until the next restart.
RunningRowsOwned ==
    /\ \A v, w \in Workers, i \in RowIds : Owns(v, i) /\ Owns(w, i) => v = w
    /\ mode = "serving" => \A i \in Running : \E w \in Workers : Owns(w, i)

\* And a build in flight still has its row, reading running: what counts
\* against the limits is the work list (retention.go:377, "Pending and running
\* rows are never touched").
BuildHasItsRow == \A w \in InFlight : claim[w].id \in Running

\* serial:/serial_groups: (config/job.go:52-54, "Two jobs sharing a group
\* never run at the same time"): of what is actually building, not of what
\* the queue reads, under limits that did not change meanwhile.
SerialGroupsHold ==
    \A v, w \in InFlight :
        v = w \/ SerialGroups(served, claim[v].job)
                    \cap SerialGroups(served, claim[w].job) = {}

\* max_in_flight: (store/sqlite/queue.go:76-79), under a configuration that
\* changes: a claim never takes a job past the limit mirrored at the time,
\* counting the workers that hold rows of it and not what the rows read,
\* whatever limit the builds already going were admitted under.  (A retry whose
\* original was reaped has lost its row and is not counted.)
ClaimsWithinLimits ==
    [][\A w \in Workers : At(w, "slotted") /\ pc'[w] = "claimed" =>
          Cardinality({v \in Workers : /\ pc'[v] \in Owning /\ claim'[v].id \in DOMAIN queue'
                                       /\ claim'[v].job = claim'[w].job})
             <= InFlightLimit(mirror, claim'[w].job)]_vars

\* A build whose end is on record is never queued again, whatever write the
\* process died before (queue.go:229, "re-queuing it would build again what
\* finished, or what somebody aborted").
NothingBuiltTwice == built \cap Pending = {}

\* An outcome the breaker may hear of: its row, unless retention has taken it,
\* is closed with it; and a failure is the job's own, not an abort's or a
\* shutdown's (runner.go:477, "the breaker neither counts nor clears it";
\* infra.md:848, "An interrupted run does not count").  But for a retry that
\* PrepareRerun refuses under an abort, which the code takes for a failure.
Accountable(w) ==
    /\ At(w, "recording")
    /\ claim[w].id \in DOMAIN queue =>
          queue[claim[w].id].status = IF err[w] = "none" THEN "succeeded" ELSE "failed"
    /\ \/ err[w] = "none"
       \/ err[w] = "failure" /\ cause[w] # "abort"
       \/ cause[w] = "abort" /\ claim[w].rerunOf # NoRun

\* What moves a job's count is a person's release or one such outcome, which
\* is heard of once.
BreakerCountsFailures ==
    [][\A j \in Jobs : breaker'[j].consecutive # breaker[j].consecutive =>
          \/ breaker[j].held /\ breaker'[j].consecutive = 0
          \/ \E w \in Workers :
                /\ Accountable(w) /\ claim[w].job = j /\ pc'[w] # "recording"
                /\ breaker'[j].consecutive =
                      IF err[w] = "none" THEN 0 ELSE breaker[j].consecutive + 1]_vars

\* A restart loses no interrupted build (queue.go:221-305): each row found
\* running whose build recorded no end leaves a pending row for the same work,
\* carrying the run it had started.
RestartKeepsWork ==
    [][mode = "down" /\ mode' = "serving" =>
         \A i \in Running \ built : \E k \in DOMAIN queue' :
             /\ queue'[k].status = "pending"
             /\ queue'[k].job = queue[i].job
             /\ queue'[k].rerunOf = queue[i].rerunOf
             /\ queue'[k].run = queue[i].run]_vars

-----------------------------------------------------------------------------
(* Liveness.                                                               *)

\* Goroutines make progress, the grace of a shutdown runs out, a cancelled
\* build unwinds; a build nobody cancelled may take forever.
Fairness ==
    /\ \A w \in Workers :
         /\ WF_vars(Drain(w))
         /\ WF_vars(Build(w) /\ (At(w, "building") => cause[w] # "none"))
         /\ WF_vars(CancelRun(w))
    /\ WF_vars(Exit)

FairSpec == Spec /\ Fairness

\* A shutdown ends (runner.go:708-748): no build, not even one that would never
\* end by itself, and no worker waiting for a slot, keeps the process past its
\* grace.
StopEnds == mode = "stopping" ~> mode = "down"

\* What the code cannot see to: that a build nobody stops comes to an end.
BuildsEnd == \A w \in Workers : []<>~At(w, "building")

\* Nothing waits on the queue forever while the pipeline is served and not
\* paused, if builds end: not behind a limit, a slot, a held job or a row nobody
\* closed.
QueueDrains ==
    BuildsEnd =>
        \A i \in RowIds :
            (mode = "serving" /\ i \in Pending)
                ~> (i \notin Pending \/ Paused \/ mode # "serving")
=============================================================================
