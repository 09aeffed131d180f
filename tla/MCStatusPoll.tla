---------------------------- MODULE MCStatusPoll ----------------------------
(* Three uploads, two of the capped client A and one of trusted traffic.   *)
EXTENDS StatusPoll

CONSTANTS a1, a2, t1, A

MCOwnerIP == [j \in JobID |-> IF j = t1 THEN NoOwner ELSE A]
=============================================================================
