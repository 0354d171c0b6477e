---------------------------- MODULE MCTrustdFile ----------------------------
(***************************************************************************)
(* TrustdFile on small instances: the configurations name the model values *)
(* and give the sets.                                                      *)
(***************************************************************************)
EXTENDS TrustdFileProps, TLC
=============================================================================
