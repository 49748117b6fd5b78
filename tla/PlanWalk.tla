------------------------------ MODULE PlanWalk ------------------------------
(***************************************************************************)
(* One run of a job's plan (internal/pipeline: walk, route, try, hooks,    *)
(* attempts, deadline, resume; internal/retry; internal/outcome): steps in *)
(* order, each retried, observed by its hooks, routed on by its to: or     *)
(* tolerated by its try:, and put on record for a resume to replay.        *)
(*                                                                         *)
(*   between -> attempting <-> backoff -> observing -> ensuring -> routing *)
(*      ^---------------------------------------------------------|        *)
(*                                                                         *)
(* The plan's end is place Job, whose hooks are the job's own.  What a     *)
(* step does is its result; a hook's own hooks are part of its result.     *)
(* The chain index, which skips what an earlier run did, is left out.      *)
(***************************************************************************)
EXTENDS Integers, FiniteSets, FiniteSetsExt

CONSTANTS
    N,          \* the plan has steps 1..N
    Route,      \* [step]: its to:/verdicts:, a function from some keys to places
    MaxVisits,  \* [step]: max_visits:
    Attempts,   \* [step]: attempts:
    Verdicts,   \* [step]: what an agent step may decide, {} for any other step
    Guarded,    \* the steps with a when:
    Cacheable,  \* the steps whose outputs the step cache may restore
    Tries,      \* the try: steps
    Hooked,     \* the places with hooks
    Events,     \* what else happens: of "abort", "shutdown", "timeout" and "crash"
    MaxResumes  \* bound: how often the run is resumed

Steps == 1..N
Job == N + 1
Keys == {"success", "failure"} \cup UNION {Verdicts[i] : i \in Steps}
NoKey == "none"

\* validateStepTransitions: a step that may route backward has a bound, and no
\* verdict has the empty name.
ASSUME PlanWalkAssumption ==
    /\ N \in Nat \ {0} /\ MaxResumes \in Nat /\ NoKey \notin Keys
    /\ MaxVisits \in [Steps -> Nat] /\ Attempts \in [Steps -> Nat \ {0}]
    /\ \A i \in Steps : /\ DOMAIN Route[i] \subseteq Keys
                        /\ \A k \in DOMAIN Route[i] : /\ Route[i][k] \in 1..Job
                                                      /\ Route[i][k] <= i => MaxVisits[i] > 0
    /\ \A i \in Cacheable : DOMAIN Route[i] = {}

VARIABLES
    pc,        \* where the walk is
    index,     \* the step it is at
    visits,    \* [step]: passes that executed it
    passes,    \* [step]: passes through it
    att,       \* the attempt under way
    err,       \* the error in hand: "none", "failed" (marked a Failure) or "errored"
    verdict,   \* the routing key in hand: an agent's verdict, or a replayed outcome
    disp,      \* stepDisposition
    hookErr,   \* a failed on_success hook's error
    cancelled, \* the context: live, or cancelled by an abort or by a shutdown
    late,      \* the job's deadline has passed
    done,      \* run_steps: the passes on record
    resumes,   \* how often the run was resumed
    status     \* the run's row

vars == <<pc, index, visits, passes, att, err, verdict, disp, hookErr, cancelled, late, done,
          resumes, status>>

Errors == {"none", "failed", "errored"}
Places == {"between", "attempting", "backoff", "observing", "ensuring", "routing", "ended", "dead"}

TypeOK ==
    /\ pc \in Places /\ index \in 1..Job
    /\ visits \in [Steps -> Nat] /\ passes \in [Steps -> Nat] /\ att \in Nat
    /\ \A i \in Steps : visits[i] <= passes[i]
    /\ err \in Errors /\ hookErr \in Errors
    /\ verdict \in Keys \cup {NoKey}
    /\ disp \in {"ran", "guardSkipped", "cacheHit", "resumed"}
    /\ cancelled \in {"no", "abort", "shutdown"} /\ late \in BOOLEAN
    /\ done \subseteq [index: Steps, visit: Nat, outcome: Keys \cup {NoKey}]
    /\ resumes \in 0..MaxResumes
    /\ status \in {"running", "succeeded", "failed", "aborted"}

Init ==
    /\ pc = "between" /\ index = 1
    /\ visits = [i \in Steps |-> 0] /\ passes = [i \in Steps |-> 0] /\ att = 0
    /\ err = "none" /\ verdict = NoKey /\ disp = "ran" /\ hookErr = "none"
    /\ cancelled = "no" /\ late = FALSE
    /\ done = {} /\ resumes = 0 /\ status = "running"

\* outcome.Classify: an abort is the context's, whatever the error says.
Classify(e) == IF e = "none" THEN "succeeded" ELSE IF cancelled # "no" THEN "aborted" ELSE e

-----------------------------------------------------------------------------
(* Running a step.                                                         *)

\* What follows the place's own work: its hooks if it has any.
AfterWork(place) == IF place \in Hooked THEN "observing" ELSE "routing"

\* The walk is over, and the job's hooks observe what it came to.
EndWalk(e) ==
    /\ err' = e /\ index' = Job /\ verdict' = NoKey /\ disp' = "ran" /\ hookErr' = "none"
    /\ pc' = AfterWork(Job)

\* jobDeadlinePassed, between steps and once more after the last.
DeadlinePassed ==
    /\ pc = "between" /\ late
    /\ EndWalk("failed")
    /\ UNCHANGED <<visits, passes, att, cancelled, late, done, resumes, status>>

\* recordChainSucceeded, which may fail like any store write.
PlanDone ==
    /\ pc = "between" /\ ~late /\ index = Job
    /\ \E e \in {"none", "errored"} : EndWalk(e)
    /\ UNCHANGED <<visits, passes, att, cancelled, late, done, resumes, status>>

Recorded(i, visit) == {d \in done : d.index = i /\ d.visit = visit}

\* skipCompleted: a pass an earlier attempt finished leaves what it left then.
Replay ==
    /\ pc = "between" /\ ~late /\ index # Job
    /\ \E d \in Recorded(index, passes[index] + 1) : verdict' = d.outcome
    /\ passes' = [passes EXCEPT ![index] = @ + 1]
    /\ disp' = "resumed" /\ err' = "none"
    /\ pc' = "routing"
    /\ UNCHANGED <<index, visits, att, hookErr, cancelled, late, done, resumes, status>>

\* runNonGetStep up to the work: the guard may say no, and the cache may have
\* the outputs; neither fires hooks.  Nothing starts on a cancelled context.
StartStep ==
    /\ pc = "between" /\ ~late /\ index # Job
    /\ Recorded(index, passes[index] + 1) = {}
    /\ passes' = [passes EXCEPT ![index] = @ + 1]
    /\ att' = 1 /\ verdict' = NoKey /\ hookErr' = "none"
    /\ \/ /\ cancelled # "no" \/ index \in Guarded
          /\ err' = "errored" /\ disp' = "ran" /\ pc' = AfterWork(index)
       \/ /\ cancelled = "no"
          /\ err' = "none"
          /\ \/ disp' = "ran" /\ pc' = "attempting"
             \/ index \in Guarded /\ disp' = "guardSkipped" /\ pc' = "routing"
             \/ index \in Cacheable /\ disp' = "cacheHit" /\ pc' = "routing"
    /\ UNCHANGED <<index, visits, cancelled, late, done, resumes, status>>

\* One attempt of retryWithTimeout.  An agent that succeeds has a verdict if
\* it has any to give; the step's own timeout: is a failure and not retried.
Attempt ==
    /\ pc = "attempting"
    /\ \/ /\ err' = "none" /\ pc' = AfterWork(index)
          /\ IF Verdicts[index] = {} THEN UNCHANGED verdict ELSE verdict' \in Verdicts[index]
       \/ /\ err' \in {"failed", "errored"} /\ UNCHANGED verdict
          /\ pc' = IF att < Attempts[index] THEN "backoff" ELSE AfterWork(index)
       \/ err' = "failed" /\ pc' = AfterWork(index) /\ UNCHANGED verdict
    /\ UNCHANGED <<index, visits, passes, att, disp, hookErr, cancelled, late, done, resumes,
                   status>>

\* Mutant: the pause does not count the attempt it follows.
BackoffForever ==
    /\ pc = "backoff"
    /\ IF cancelled # "no" THEN err' = "errored" /\ pc' = AfterWork(index) /\ UNCHANGED att
       ELSE pc' = "attempting" /\ UNCHANGED <<err, att>>
    /\ UNCHANGED <<index, visits, passes, verdict, disp, hookErr, cancelled, late, done, resumes,
                   status>>

\* retry.Do's pause: a cancelled context ends it.
Backoff ==
    /\ pc = "backoff"
    /\ IF cancelled # "no" THEN err' = "errored" /\ pc' = AfterWork(index) /\ UNCHANGED att
       ELSE pc' = "attempting" /\ att' = att + 1 /\ UNCHANGED err
    /\ UNCHANGED <<index, visits, passes, verdict, disp, hookErr, cancelled, late, done, resumes,
                   status>>

-----------------------------------------------------------------------------
(* runHooks, for a step or for the job.                                    *)

\* The one matching hook: only on_success's own failure counts, and only a
\* place that defines no such hook has nothing to fail.
RunMatchedHook ==
    /\ pc = "observing"
    /\ hookErr' \in IF Classify(err) = "succeeded" THEN Errors ELSE {"none"}
    /\ pc' = "ensuring"
    /\ UNCHANGED <<index, visits, passes, att, err, verdict, disp, cancelled, late, done, resumes,
                   status>>

\* ensure, always and last; the work's own error wins, then on_success's.
RunEnsure ==
    /\ pc = "ensuring"
    /\ \E ensureErr \in Errors :
          err' = IF err # "none" THEN err ELSE IF hookErr # "none" THEN hookErr ELSE ensureErr
    /\ pc' = "routing"
    /\ UNCHANGED <<index, visits, passes, att, verdict, disp, hookErr, cancelled, late, done,
                   resumes, status>>

-----------------------------------------------------------------------------
(* planWalk.runStep, once the step and its hooks are through.              *)

\* Mutant: a replayed pass spends no visit.
OnlyFreshVisits == disp \in {"ran", "cacheHit"}

SpendsVisit == disp \in {"ran", "cacheHit"} \/ (disp = "resumed" /\ verdict # NoKey)

\* Mutant: an aborted step is a failure like any other.
KeyOfError ==
    IF verdict # NoKey THEN verdict ELSE IF err = "none" THEN "success" ELSE "failure"

\* outcomeKey: a verdict first; an errored or aborted step has no key.
OutcomeKey ==
    IF verdict # NoKey THEN verdict
    ELSE CASE Classify(err) = "succeeded" -> "success"
           [] Classify(err) = "failed" -> "failure"
           [] OTHER -> NoKey

\* Mutant: the route it took is not on the record.
RecordNothing == NoKey

\* recordableOutcome: empty for a pass that executed nothing.
RecordableOutcome == IF disp \in {"ran", "cacheHit"} THEN OutcomeKey ELSE NoKey

\* applyRouting and resolveTransition: only a pass that ran, or that replays
\* an outcome, routes.
Routes == (disp = "ran" \/ (disp = "resumed" /\ verdict # NoKey)) /\ OutcomeKey \in DOMAIN Route[index]

Exhausted(v) == Route[index][OutcomeKey] <= index /\ v >= MaxVisits[index]

\* toleratedByTry: everything but an abort.
Tolerated == index \in Tries /\ Classify(err) # "aborted"

\* A pass the plan carries on from goes on record; one it ends with does not.
RouteStep ==
    /\ pc = "routing" /\ index # Job
    /\ LET v == IF SpendsVisit THEN visits[index] + 1 ELSE visits[index]
       IN  /\ visits' = [visits EXCEPT ![index] = v]
           /\ IF Routes /\ Exhausted(v) THEN EndWalk("failed") /\ UNCHANGED done
              ELSE IF ~Routes /\ err # "none" /\ ~Tolerated THEN EndWalk(err) /\ UNCHANGED done
              ELSE /\ done' = IF disp = "resumed" THEN done ELSE done \cup
                         {[index |-> index, visit |-> passes[index], outcome |-> RecordableOutcome]}
                   /\ index' = IF Routes THEN Route[index][OutcomeKey] ELSE index + 1
                   /\ err' = "none" /\ verdict' = NoKey /\ disp' = "ran" /\ hookErr' = "none"
                   /\ pc' = "between"
    /\ UNCHANGED <<passes, att, cancelled, late, resumes, status>>

\* RunJob's end: an aborted run a shutdown stopped stays running, to be resumed.
FinishRun ==
    /\ pc = "routing" /\ index = Job
    /\ status' = IF err = "none" THEN "succeeded"
                 ELSE IF Classify(err) # "aborted" THEN "failed"
                 ELSE IF cancelled = "shutdown" THEN status
                 ELSE "aborted"
    /\ pc' = "ended"
    /\ UNCHANGED <<index, visits, passes, att, err, verdict, disp, hookErr, cancelled, late, done,
                   resumes>>

-----------------------------------------------------------------------------
(* From outside.                                                           *)

Live == pc \notin {"ended", "dead"}

Cancel(why) ==
    /\ why \in Events /\ why \in {"abort", "shutdown"} /\ Live /\ cancelled = "no"
    /\ cancelled' = why
    /\ UNCHANGED <<pc, index, visits, passes, att, err, verdict, disp, hookErr, late, done, resumes,
                   status>>

Timeout ==
    /\ "timeout" \in Events /\ Live /\ ~late
    /\ late' = TRUE
    /\ UNCHANGED <<pc, index, visits, passes, att, err, verdict, disp, hookErr, cancelled, done,
                   resumes, status>>

Crash ==
    /\ "crash" \in Events /\ Live
    /\ pc' = "dead"
    /\ UNCHANGED <<index, visits, passes, att, err, verdict, disp, hookErr, cancelled, late, done,
                   resumes, status>>

\* The same run again, by a person or by a restart: all but its record is new.
Resume ==
    /\ ~Live /\ status # "succeeded" /\ resumes < MaxResumes
    /\ resumes' = resumes + 1 /\ status' = "running"
    /\ pc' = "between" /\ index' = 1
    /\ visits' = [i \in Steps |-> 0] /\ passes' = [i \in Steps |-> 0] /\ att' = 0
    /\ err' = "none" /\ verdict' = NoKey /\ disp' = "ran" /\ hookErr' = "none"
    /\ cancelled' = "no" /\ late' = FALSE
    /\ UNCHANGED done

Walk ==
    \/ DeadlinePassed \/ PlanDone \/ Replay \/ StartStep \/ Attempt \/ Backoff
    \/ RunMatchedHook \/ RunEnsure \/ RouteStep \/ FinishRun

Next == Walk \/ Timeout \/ Crash \/ Resume \/ \E why \in Events : Cancel(why)

Spec == Init /\ [][Next]_vars

\* Attempts and hooks end; nobody has to abort, crash or resume.
FairSpec == Spec /\ WF_vars(Walk)

-----------------------------------------------------------------------------
\* A resume replays the recorded passes in the order they were made
\* (walk.go:173-195): by the time it runs a step afresh no recorded pass is
\* ahead of it, so no finished step is run twice and none is skipped for what
\* it did on another path.
ReplaysItsPath ==
    pc \in {"attempting", "backoff"} => \A d \in done : d.visit <= passes[d.index]

\* "a loop resumes with the budget it had left rather than a fresh one"
\* (walk.go:254): over all its attempts a run routes back from a step fewer
\* times than its max_visits.
LoopBudget ==
    \A i \in Steps :
        LET back == {d \in done : /\ d.index = i /\ d.outcome \in DOMAIN Route[i]
                                  /\ Route[i][d.outcome] <= i}
        IN  back # {} => Cardinality(back) < MaxVisits[i]

\* "An errored or aborted step produces no key and never routes"
\* (docs/control-flow.md:223), whenever the abort comes: the plan goes on from
\* such a pass only past a try:, and past an abort never.
ErroredNeverRoutes ==
    [][pc = "routing" /\ index # Job /\ pc' = "between" =>
          /\ Classify(err) # "aborted"
          /\ Classify(err) = "errored" => index \in Tries /\ index' = index + 1]_vars

\* Whatever the steps decide and however often they are retried and revisited,
\* the run ends.
RunEnds == (pc = "between") ~> ~Live
=============================================================================
