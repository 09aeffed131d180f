------------------------------ MODULE FifoJobs ------------------------------
(***************************************************************************)
(* What the conversion queue promises to the users of the API, with no     *)
(* channel, lock, counter or worker goroutine in sight: a bounded FIFO     *)
(* line served one job at a time.  A job is accepted once, waits, is       *)
(* served alone and in the order of acceptance, ends as done or error, and *)
(* is forgotten at the earliest after that, never to come back.            *)
(* JobQueue is shown to implement this.                                    *)
(***************************************************************************)
EXTENDS Naturals, Sequences

CONSTANTS
  JobID,     \* the jobs
  NoJob,     \* nobody is being served: not an element of JobID
  Capacity   \* how many accepted jobs may wait

VARIABLES
  waiting,   \* the accepted jobs not yet served, oldest first
  serving,   \* the job being served, or NoJob
  status     \* what a user asking about a job is told

vars == <<waiting, serving, status>>

Init ==
  /\ waiting = <<>>
  /\ serving = NoJob
  /\ status = [j \in JobID |-> "unknown"]

Accept(j) ==
  /\ status[j] = "unknown"
  /\ Len(waiting) < Capacity
  /\ waiting' = Append(waiting, j)
  /\ status' = [status EXCEPT ![j] = "queued"]
  /\ UNCHANGED serving

Serve ==
  /\ serving = NoJob
  /\ waiting # <<>>
  /\ serving' = Head(waiting)
  /\ waiting' = Tail(waiting)
  /\ status' = [status EXCEPT ![Head(waiting)] = "processing"]

Finish(result) ==
  /\ serving # NoJob
  /\ status' = [status EXCEPT ![serving] = result]
  /\ serving' = NoJob
  /\ UNCHANGED waiting

Forget(j) ==
  /\ status[j] \in {"done", "error"}
  /\ status' = [status EXCEPT ![j] = "forgotten"]
  /\ UNCHANGED <<waiting, serving>>

Next ==
  \/ \E j \in JobID : Accept(j) \/ Forget(j)
  \/ Serve
  \/ \E result \in {"done", "error"} : Finish(result)

Spec == Init /\ [][Next]_vars
=============================================================================
