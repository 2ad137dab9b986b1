----------------------------- MODULE MCIORequest ------------------------------
(***************************************************************************)
(* A task with two requests to a service and no timer events.              *)
(***************************************************************************)
EXTENDS IORequest
=============================================================================
