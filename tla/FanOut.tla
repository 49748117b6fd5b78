------------------------------- MODULE FanOut -------------------------------
(***************************************************************************)
(* One concurrent block of a plan: in_parallel:, across: with max_in_      *)
(* flight:, or race: (internal/pipeline: fanout, parallel, across, budget; *)
(* internal/usage).  The parent takes a slot, asks whether the next unit   *)
(* may start, and starts it; units finish in any order, and the block's    *)
(* outcome is made of theirs.                                              *)
(*                                                                         *)
(*   parent: acquiring -> admitting (-> sleeping -> woken) ... ->          *)
(*           waiting -> returned                                           *)
(*   unit:   new -> running -> reported -> settled -> finished             *)
(***************************************************************************)
EXTENDS Integers, FiniteSets, FiniteSetsExt

CONSTANTS
    N,        \* units 1..N, in declaration order
    Blocks,   \* the blocks looked at: [kind, limit, failFast, ceiling, reserve, tries]
    Costs,    \* what a unit may spend, in tokens
    Events    \* what may happen meanwhile, of "abort" and "timeout"

Units == 1..N
BlockType ==
    [kind: {"in_parallel", "across", "race"},
     limit: Nat,          \* limit: or max_in_flight:, 0 for none
     failFast: BOOLEAN,
     ceiling: Nat,        \* budget: tokens, 0 for none
     reserve: Nat,        \* reserve_per_cell:, or the cell's agent's own ceiling
     tries: SUBSET Units]

ASSUME FanOutAssumption == N \in Nat \ {0} /\ Blocks \subseteq BlockType /\ Costs \subseteq Nat

VARIABLES
    block,      \* the block being run
    parent,     \* where its admission loop is
    next,       \* the unit it is at
    slots,      \* slots taken
    unit,       \* [unit]: where it is
    result,     \* [unit]: its error, if its try: has not tolerated it
    cut,        \* branchCtx is cancelled: a failure under fail_fast, or a race won
    winner,     \* the first of a race to succeed
    cancelled,  \* the context the block runs in is, by an abort say
    late,       \* the job's deadline has passed
    spent,      \* usage.Run.Total of the block
    reserved,   \* blockBudget
    inFlight,
    outcome     \* the block's error, once it has returned

vars == <<block, parent, next, slots, unit, result, cut, winner, cancelled, late, spent, reserved,
          inFlight, outcome>>

Outcomes == {"none", "failed", "errored"}
Errors == Outcomes \cup {"panicked"}
NoUnit == 0

TypeOK ==
    /\ block \in Blocks
    /\ parent \in {"acquiring", "admitting", "sleeping", "woken", "waiting", "returned"}
    /\ next \in 1..N + 1 /\ slots \in 0..N
    /\ unit \in [Units -> {"new", "running", "reported", "settled", "finished"}]
    /\ result \in [Units -> Errors]
    /\ cut \in BOOLEAN /\ cancelled \in BOOLEAN /\ late \in BOOLEAN
    /\ winner \in Units \cup {NoUnit}
    /\ spent \in Nat /\ reserved \in Nat /\ inFlight \in 0..N
    /\ outcome \in Outcomes

Init ==
    /\ block \in Blocks
    /\ parent = "acquiring" /\ next = 1 /\ slots = 0
    /\ unit = [i \in Units |-> "new"] /\ result = [i \in Units |-> "none"]
    /\ cut = FALSE /\ winner = NoUnit /\ cancelled = FALSE /\ late = FALSE
    /\ spent = 0 /\ reserved = 0 /\ inFlight = 0 /\ outcome = "none"

-----------------------------------------------------------------------------
(* The parent.                                                             *)

\* newLimiter: a limit as wide as the block is none.
Limited == block.limit > 0 /\ block.limit < N
Metered == block.kind = "across" /\ block.ceiling > 0

Acquire ==
    /\ parent = "acquiring" /\ next <= N
    /\ Limited => slots < block.limit
    /\ slots' = slots + 1 /\ parent' = "admitting"
    /\ UNCHANGED <<block, next, unit, result, cut, winner, cancelled, late, spent, reserved,
                   inFlight, outcome>>

Start ==
    /\ unit' = [unit EXCEPT ![next] = "running"]
    /\ next' = next + 1 /\ parent' = "acquiring"
    /\ UNCHANGED slots

\* A unit not admitted ends the loop, and gives its slot back.
Stop == slots' = slots - 1 /\ parent' = "waiting" /\ UNCHANGED <<unit, next>>

\* runBranches' admit; a race starts everything.
AdmitBranch ==
    /\ parent = "admitting" /\ block.kind # "across"
    /\ IF block.kind = "in_parallel" /\ (cut \/ cancelled \/ late) THEN Stop ELSE Start
    /\ UNCHANGED <<block, result, cut, winner, cancelled, late, spent, reserved, inFlight, outcome>>

\* Mutant: what units that have not reported may yet spend counts nothing.
AdmitOnSpend ==
    /\ parent = "admitting" /\ Metered /\ ~late
    /\ IF spent >= block.ceiling THEN Stop /\ UNCHANGED <<reserved, inFlight>>
       ELSE Start /\ reserved' = reserved + block.reserve /\ inFlight' = inFlight + 1
    /\ UNCHANGED <<block, result, cut, winner, cancelled, late, spent, outcome>>

\* Mutant: reservations that fill the ceiling end the block.
AdmitOrGiveUp ==
    /\ parent = "admitting" /\ Metered /\ ~late
    /\ IF spent + reserved >= block.ceiling THEN Stop /\ UNCHANGED <<reserved, inFlight>>
       ELSE Start /\ reserved' = reserved + block.reserve /\ inFlight' = inFlight + 1
    /\ UNCHANGED <<block, result, cut, winner, cancelled, late, spent, outcome>>

\* blockBudget.admit: spend is final, reservations are waited out; a parent
\* woken does not ask the deadline again.
AdmitCell ==
    /\ Metered
    /\ \/ parent = "admitting" /\ ~late
       \/ parent = "woken"
    /\ IF spent >= block.ceiling THEN Stop /\ UNCHANGED <<reserved, inFlight>>
       ELSE IF spent + reserved < block.ceiling
       THEN Start /\ reserved' = reserved + block.reserve /\ inFlight' = inFlight + 1
       ELSE IF inFlight = 0 THEN Stop /\ UNCHANGED <<reserved, inFlight>>
       ELSE parent' = "sleeping" /\ UNCHANGED <<next, slots, unit, reserved, inFlight>>
    /\ UNCHANGED <<block, result, cut, winner, cancelled, late, spent, outcome>>

\* stopAdmitting asks the deadline first, so no reservation is left behind; a
\* block without a ceiling asks nothing else.
AdmitAnyCell ==
    /\ parent = "admitting" /\ block.kind = "across" /\ (late \/ ~Metered)
    /\ IF late THEN Stop ELSE Start
    /\ UNCHANGED <<block, result, cut, winner, cancelled, late, spent, reserved, inFlight, outcome>>

AllStarted ==
    /\ parent = "acquiring" /\ next = N + 1
    /\ parent' = "waiting"
    /\ UNCHANGED <<block, next, slots, unit, result, cut, winner, cancelled, late, spent, reserved,
                   inFlight, outcome>>

\* Mutant: the failed units' markers are found first.
FirstMarker(failures) ==
    IF failures = {} THEN "none" ELSE IF "failed" \in failures THEN "failed" ELSE "errored"

\* joinWorst.
JoinWorst(failures) ==
    IF failures = {} THEN "none" ELSE IF "errored" \in failures THEN "errored" ELSE "failed"

\* Classify: nothing a unit returns under a cancelled context is a failure,
\* whatever it is marked, and neither is a panic.
Class(i) ==
    IF result[i] # "none" /\ (cancelled \/ result[i] = "panicked") THEN "errored" ELSE result[i]

\* combineBranchErrors, once all that started have finished.
Return ==
    /\ parent = "waiting" /\ \A i \in Units : unit[i] \in {"new", "finished"}
    /\ outcome' = IF block.kind = "race" /\ winner # NoUnit THEN "none"
                  ELSE JoinWorst({Class(i) : i \in Units} \ {"none"})
    /\ parent' = "returned"
    /\ UNCHANGED <<block, next, slots, unit, result, cut, winner, cancelled, late, spent, reserved,
                   inFlight>>

-----------------------------------------------------------------------------
(* A unit.  One whose context is cancelled may still end any way it likes. *)

\* tolerateTryFailure, of a branch: an error under branchCtx's cancellation is
\* an abort, whoever cancelled it, and a panic unwinds past the question.
Tolerated(i, e) ==
    /\ block.kind = "in_parallel" /\ i \in block.tries
    /\ e \notin {"none", "panicked"} /\ ~cancelled /\ ~cut

\* Its work ends, and what it spent is in the accumulator.
Work(i) ==
    /\ unit[i] = "running"
    /\ \E e \in Errors, c \in Costs :
          /\ Metered \/ c = 0
          /\ spent' = spent + c
          /\ LET own == IF Tolerated(i, e) THEN "none" ELSE e
             IN  /\ result' = [result EXCEPT ![i] = own]
                 /\ cut' = (cut \/ IF block.kind = "race" THEN own = "none"
                                   ELSE block.kind = "in_parallel" /\ block.failFast /\ own # "none")
                 /\ winner' = IF block.kind = "race" /\ own = "none" /\ winner = NoUnit THEN i
                              ELSE winner
    /\ unit' = [unit EXCEPT ![i] = "reported"]
    /\ UNCHANGED <<block, parent, next, slots, cancelled, late, reserved, inFlight, outcome>>

\* Mutant: a unit gives its allowance back and wakes nobody.
SettleQuietly(i) ==
    /\ unit[i] = "reported"
    /\ unit' = [unit EXCEPT ![i] = "settled"]
    /\ IF Metered THEN reserved' = reserved - block.reserve /\ inFlight' = inFlight - 1
       ELSE UNCHANGED <<reserved, inFlight>>
    /\ UNCHANGED <<block, parent, next, slots, result, cut, winner, cancelled, late, spent, outcome>>

\* blockBudget.settle wakes the parent to look again.
Settle(i) ==
    /\ unit[i] = "reported"
    /\ unit' = [unit EXCEPT ![i] = "settled"]
    /\ IF Metered THEN reserved' = reserved - block.reserve /\ inFlight' = inFlight - 1
       ELSE UNCHANGED <<reserved, inFlight>>
    /\ parent' = IF parent = "sleeping" THEN "woken" ELSE parent
    /\ UNCHANGED <<block, next, slots, result, cut, winner, cancelled, late, spent, outcome>>

Release(i) ==
    /\ unit[i] = "settled"
    /\ unit' = [unit EXCEPT ![i] = "finished"]
    /\ slots' = slots - 1
    /\ UNCHANGED <<block, parent, next, result, cut, winner, cancelled, late, spent, reserved,
                   inFlight, outcome>>

Abort ==
    /\ "abort" \in Events /\ ~cancelled /\ parent # "returned"
    /\ cancelled' = TRUE
    /\ UNCHANGED <<block, parent, next, slots, unit, result, cut, winner, late, spent, reserved,
                   inFlight, outcome>>

Timeout ==
    /\ "timeout" \in Events /\ ~late /\ parent # "returned"
    /\ late' = TRUE
    /\ UNCHANGED <<block, parent, next, slots, unit, result, cut, winner, cancelled, spent,
                   reserved, inFlight, outcome>>

Parent == Acquire \/ AdmitBranch \/ AdmitCell \/ AdmitAnyCell \/ AllStarted \/ Return
Unit(i) == Work(i) \/ Settle(i) \/ Release(i)
Next == Parent \/ Abort \/ Timeout \/ \E i \in Units : Unit(i)

Spec == Init /\ [][Next]_vars

\* The parent and every unit go on; nobody has to abort.
FairSpec == Spec /\ WF_vars(Parent) /\ \A i \in Units : WF_vars(Unit(i))

-----------------------------------------------------------------------------
Cheap == \A c \in Costs : c <= block.reserve

\* "Reserving on admit and settling on completion makes overshoot a function
\* of how wrong the reservation is" (budget.go:29-31): if no unit spends more
\* than was reserved for it, the block overshoots by less than one unit.
BudgetHolds == Metered /\ Cheap => spent < block.ceiling + block.reserve

\* A block leaves a unit unstarted only for a reason that stands: it is out of
\* time, what it has SPENT has reached its ceiling (a full reservation only
\* makes it wait, budget.go:195-205), a failed branch under fail_fast, or an
\* abort.
StopsForAReason ==
    parent = "waiting" /\ next <= N =>
        \/ late
        \/ Metered /\ spent >= block.ceiling
        \/ block.kind = "in_parallel" /\ (cancelled \/ (cut /\ \E i \in Units : result[i] # "none"))

\* An abort, a panic, or an error of a branch that is no try:.
Blamed ==
    \/ cancelled
    \/ \E i \in Units : result[i] = "panicked" \/ (result[i] # "none" /\ i \notin block.tries)

\* "The block fails when any branch fails ... Classification follows the worst
\* branch" (docs/control-flow.md:437-439): no error is swallowed by fail_fast,
\* by a sibling's outcome or by the order they finish in, a race's winner
\* excepted; and no in_parallel fails for its try: branches alone.  One whose
\* error comes after fail_fast has cut it off does count (parallel.go:113), but
\* then in a block that another branch, a panic or an abort has failed.
WorstBranchCounts ==
    parent = "returned" =>
        /\ outcome = "none" <=> \/ block.kind = "race" /\ \E i \in Units : result[i] = "none"
                                \/ \A i \in Units : result[i] = "none"
        /\ outcome = "failed" => \A i \in Units : result[i] \in {"none", "failed"}
        /\ block.kind = "in_parallel" /\ outcome # "none" => Blamed

\* The block returns: the parent asleep on the reservations of its units, or
\* waiting for their slots, is always let go on.
BlockReturns == <>(parent = "returned")
=============================================================================
