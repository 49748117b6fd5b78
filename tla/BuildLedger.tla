---------------------------- MODULE BuildLedger -----------------------------
(***************************************************************************)
(* What the queue and its drain promise together, with no workers, runs or *)
(* timestamps in sight: every request made of a pipeline is waiting, being *)
(* built, interrupted by the end of a daemon, over, or folded into another *)
(* request for the same work.  Scheduler implements this under limits that *)
(* do not change and with no run history to reap (see ScheduleLedger).     *)
(***************************************************************************)
EXTENDS Naturals, FiniteSets

CONSTANTS Requests, Limit, GroupsOfJob

VARIABLES
    ledger,  \* request -> where it is
    work     \* request -> the job it is for, once made and while it stands

Taken == {i \in Requests : ledger[i] \in {"building", "interrupted"}}

Init == ledger = [i \in Requests |-> "unused"] /\ work = [i \in {} |-> {}]

Move(i, from, to) ==
    /\ ledger[i] = from
    /\ ledger' = [ledger EXCEPT ![i] = to]
    /\ UNCHANGED work

Request(i, j) ==
    /\ ledger[i] = "unused"
    /\ ledger' = [ledger EXCEPT ![i] = "waiting"]
    /\ work' = [k \in DOMAIN work \cup {i} |-> IF k = i THEN j ELSE work[k]]

\* Nothing starts past its job's limit or beside a job it shares a group with,
\* and what an ended daemon was building still counts.
Start(i) ==
    /\ Cardinality({k \in Taken : work[k] = work[i]}) < Limit[work[i]]
    /\ \A k \in Taken : GroupsOfJob[work[k]] \cap GroupsOfJob[work[i]] = {}
    /\ Move(i, "waiting", "building")

End(i) == Move(i, "building", "over")

\* A person drops everything a job has waiting.
Drop(j) ==
    /\ ledger' = [i \in Requests |->
                    IF ledger[i] = "waiting" /\ work[i] = j THEN "over" ELSE ledger[i]]
    /\ UNCHANGED work

\* The daemon gives up some of what it is building, or dies with all of it.
Interrupt ==
    /\ \E lost \in SUBSET {i \in Requests : ledger[i] = "building"} :
          ledger' = [i \in Requests |-> IF i \in lost THEN "interrupted" ELSE ledger[i]]
    /\ UNCHANGED work

\* A restart settles every interrupted request at once: it waits again, or its
\* build had ended, or another request for its job waits in its place.
Recover ==
    /\ \A i \in Requests :
          IF ledger[i] = "interrupted"
          THEN \/ ledger'[i] \in {"waiting", "over"}
               \/ /\ ledger'[i] = "folded"
                  /\ \E k \in DOMAIN work : ledger'[k] = "waiting" /\ work[k] = work[i]
          ELSE ledger'[i] = ledger[i]
    /\ DOMAIN ledger' = Requests
    /\ work' = [i \in {k \in DOMAIN work : ledger'[k] # "folded"} |-> work[i]]

Next ==
    \/ \E i \in DOMAIN work : Start(i) \/ End(i)
    \/ \E i \in Requests, j \in DOMAIN Limit : Request(i, j)
    \/ \E j \in DOMAIN Limit : Drop(j)
    \/ Interrupt
    \/ Recover

Spec == Init /\ [][Next]_<<ledger, work>>
=============================================================================
