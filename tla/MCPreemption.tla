---------------------------- MODULE MCPreemption -----------------------------
(***************************************************************************)
(* One processor that two tasks have to share.                             *)
(***************************************************************************)
EXTENDS TaskSwitch, TLC

CONSTANTS c1, w1, w2, i1

MCIdleOf == c1 :> i1

MCPriority == [t \in {w1, w2, i1} |-> IF t = i1 THEN 3 ELSE 1]
=============================================================================
