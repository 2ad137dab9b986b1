---------------------------- MODULE MCTaskSwitch -----------------------------
(***************************************************************************)
(* Two processors, two tasks besides the idle ones, one semaphore.         *)
(***************************************************************************)
EXTENDS TaskSwitchRefinement, TLC

CONSTANTS c1, c2, w1, w2, i1, i2

MCIdleOf == c1 :> i1 @@ c2 :> i2

MCPriority == [t \in {w1, w2, i1, i2} |-> IF t \in {i1, i2} THEN 3 ELSE 1]
=============================================================================
