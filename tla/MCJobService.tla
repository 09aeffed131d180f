---------------------------- MODULE MCJobService ----------------------------
(* Small instances of JobService: every caller is trusted, because the     *)
(* fairness cap is checked on JobQueue.                                    *)
EXTENDS JobService

CONSTANTS j1, z1, d1, d2

MCOwnerIP == [j \in JobID |-> NoOwner]
=============================================================================
