---------------------------- MODULE MCSupervisor ----------------------------
(***************************************************************************)
(* The supervisor on small instances.  Three process identifiers are one   *)
(* more than the children that signals can make it leave behind.           *)
(***************************************************************************)
EXTENDS SupervisorProps, TLC
=============================================================================
