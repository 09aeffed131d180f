---------------------------- MODULE MCTargetSize ----------------------------
(* Sizes as percentages of the target.                                     *)
EXTENDS TargetSize
=============================================================================
