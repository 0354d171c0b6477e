------------------------------ MODULE MCTearTA ------------------------------
(***************************************************************************)
(* TearTA on small instances.  Record lengths grow with the version, as    *)
(* the number of digits does, so that an update can make a full table      *)
(* overflow.                                                               *)
(***************************************************************************)
EXTENDS TearTAProps, TLC

LengthByVersion == [m \in Manifest |-> IF m.version > 1 THEN 3 ELSE 2]
=============================================================================
