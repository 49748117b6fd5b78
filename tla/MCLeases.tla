------------------------------ MODULE MCLeases ------------------------------
(* Two or three scopes on one mapping, for TLC.                            *)
EXTENDS Leases

CONSTANTS j1, j2, c1, a1, a2, b1, k1, t1, t2

\* j1 has two parallel steps, j2 one, and a check rides along.
MCScopeOf == [p \in Steps |-> IF p \in {a1, a2} THEN j1 ELSE IF p = b1 THEN j2 ELSE c1]
MCTagOf == [p \in Steps |-> IF p = a2 THEN t2 ELSE t1]

Scene(rung, exclusive, idle, cast, taken, fails, aborts, closes) ==
    [rung |-> rung, exclusive |-> exclusive, max |-> IF exclusive THEN 1 ELSE 0, idle |-> idle,
     cast |-> cast, reclaims |-> taken, fails |-> fails, aborts |-> aborts, closes |-> closes]

SmallScenes ==
    {Scene("stopped", FALSE, TRUE, {a1, b1}, 2, TRUE, {j2}, TRUE),
     Scene("stopped", FALSE, FALSE, {a1, a2, b1}, 1, FALSE, {}, FALSE),
     Scene("launch", FALSE, TRUE, {a1, b1}, 1, TRUE, {}, TRUE),
     Scene("launch", TRUE, TRUE, {a1, b1}, 1, FALSE, {j2}, TRUE),
     Scene("launch", TRUE, TRUE, {a1, b1, k1}, 1, FALSE, {}, FALSE),
     Scene("launch", TRUE, FALSE, {a1, a2, b1}, 1, TRUE, {j1}, FALSE)}
=============================================================================
