--------------------------- MODULE ScheduleLedger ---------------------------
(* Scheduler implements BuildLedger, for a pipeline whose configuration    *)
(* stays.  A request is being built exactly while a worker holds its row;  *)
(* a row that reads running with no worker behind it was interrupted; one  *)
(* that is gone was folded.                                                *)
EXTENDS Scheduler

Stage(i) ==
    IF i >= nextRow THEN "unused"
    ELSE IF i \notin DOMAIN queue THEN "folded"
    ELSE IF i \in Pending THEN "waiting"
    ELSE IF \E w \in Workers : Owns(w, i) THEN "building"
    ELSE IF i \in Running THEN "interrupted"
    ELSE "over"

OnlyConfig == CHOOSE c \in Configs : TRUE

Ledger == INSTANCE BuildLedger WITH
    Requests <- RowIds,
    Limit <- [j \in Jobs |-> InFlightLimit(OnlyConfig, j)],
    GroupsOfJob <- [j \in Jobs |-> SerialGroups(OnlyConfig, j)],
    ledger <- [i \in RowIds |-> Stage(i)],
    work <- [i \in DOMAIN queue |-> queue[i].job]

\* Every step of the workers, the handlers and the process is a step of the
\* ledger or changes nothing in it: no row is admitted past a limit that
\* counts builds, no build ends twice, and what a stop or a crash left is
\* waiting, over or folded once the next daemon serves (runner.go:383-516,
\* queue.go:90-305).
ImplementsLedger == Ledger!Spec
=============================================================================
