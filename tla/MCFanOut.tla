------------------------------ MODULE MCFanOut ------------------------------
(* Blocks of three units for TLC.                                          *)
EXTENDS FanOut

Block(kind, limit, failFast, ceiling, reserve, tries) ==
    [kind |-> kind, limit |-> limit, failFast |-> failFast, ceiling |-> ceiling,
     reserve |-> reserve, tries |-> tries]

SmallBlocks ==
    {Block("in_parallel", l, f, 0, 0, {2}) : l \in {0, 2}, f \in BOOLEAN} \cup
    {Block("race", 0, FALSE, 0, 0, {})} \cup
    {Block("across", l, FALSE, c, r, {}) : l \in {2, 3}, c \in {0, 3}, r \in {0, 2}}
=============================================================================
