------------------------------- MODULE MCRWLock -------------------------------
(***************************************************************************)
(* Four tasks on one lock; which of them wait first is left open.          *)
(***************************************************************************)
EXTENDS RWLock
=============================================================================
