------------------------------ MODULE MCInputs ------------------------------
(* Small instances of Inputs for TLC.                                      *)
EXTENDS Inputs, TLC

CONSTANTS unit, deploy, repo, conf, hook, w1, w2

NoPassed == [j \in Jobs |-> [r \in Resources |-> {}]]
NoPuts == [j \in Jobs |-> {}]

\* unit tests every version of repo, and deploy ships every one unit passed.
ChainGets == [j \in Jobs |-> {repo}]
ChainPassed == [j \in Jobs |-> [r \in Resources |-> IF j = deploy THEN {unit} ELSE {}]]

\* unit builds every delivery.
HookGets == [j \in Jobs |-> {hook}]

\* unit builds every repo into a conf, and deploy ships every conf unit passed.
BuiltGets == [j \in Jobs |-> IF j = deploy THEN {conf} ELSE {repo}]
BuiltPassed == [j \in Jobs |-> [r \in Resources |-> IF j = deploy /\ r = conf THEN {unit} ELSE {}]]
BuiltPuts == [j \in Jobs |-> IF j = unit THEN {conf} ELSE {}]

WorkerSymmetry == Permutations(Workers)
=============================================================================
