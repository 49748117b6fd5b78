---------------------------- MODULE MCScheduler -----------------------------
(* Small instances of Scheduler for TLC.                                   *)
EXTENDS ScheduleLedger, TLC

CONSTANTS a, b, g, c1, c2, w1, w2

\* The jobs share a serial group; a has a breaker that trips at once.
SerialJobsOf == [c \in Configs |-> Jobs]
SerialGroupsOf == [c \in Configs |-> [j \in Jobs |-> {g}]]
SerialInFlightOf == [c \in Configs |-> [j \in Jobs |-> 1]]
SerialMaxFailuresOf == [c \in Configs |-> [j \in Jobs |-> IF j = a THEN 1 ELSE 0]]

\* One job, two builds of it at a time; setting c2 in c1's place takes it out of
\* the pipeline, which leaves it the limit of a job nobody declared.
WideJobsOf == [c \in Configs |-> IF c = c1 THEN {a} ELSE {}]
WideGroupsOf == [c \in Configs |-> [j \in Jobs |-> {}]]
WideInFlightOf == [c \in Configs |-> [j \in Jobs |-> IF c = c1 THEN 2 ELSE 1]]
WideMaxFailuresOf == [c \in Configs |-> [j \in Jobs |-> 1]]

\* Environments: only the requests that matter to the question are made.
Work == \E w \in Workers : Drain(w) \/ Build(w)
Triggers == \E j \in Jobs : Trigger(j)
Reruns == \E r \in DOMAIN runs : EnqueueRerun(r)

WideNext == Work \/ Triggers \/ Reruns \/ Start \/ Crash \/ Reconfigure
WideSpec == Init /\ [][WideNext]_vars

LiveNext == Requests \/ Work \/ Start \/ Stop \/ Exit \/ \E w \in Workers : CancelRun(w)
LiveSpec == Init /\ [][LiveNext]_vars /\ Fairness

WorkerSymmetry == Permutations(Workers)
=============================================================================
