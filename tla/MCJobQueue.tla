----------------------------- MODULE MCJobQueue -----------------------------
(***************************************************************************)
(* Small instances of JobQueue.  Two clients compete with a trusted caller.*)
(***************************************************************************)
EXTENDS JobQueue

CONSTANTS a1, a2, a3, a4, b1, t1, A, B

(* Client A uploads a1..a4, client B uploads b1, t1 is trusted traffic.    *)
MCOwnerIP ==
  [j \in JobID |-> IF j \in {a1, a2, a3, a4} THEN A ELSE IF j = b1 THEN B ELSE NoOwner]
=============================================================================
