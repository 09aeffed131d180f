------------------------------ MODULE JobQueue ------------------------------
(***************************************************************************)
(* The conversion queue of internal/queue/queue.go: a bounded channel of   *)
(* jobs, the list that answers "what is my position", the table of         *)
(* published snapshots, the per-client in-flight counters and the single   *)
(* worker goroutine.                                                       *)
(*                                                                         *)
(* One action is one atomic step of the code: a critical section of mu, a  *)
(* channel operation or a sync.Map operation.  Submit is two steps,        *)
(* because it sends on the channel while it holds mu.  A job is its id:    *)
(* the snapshot published for it is abstracted to its status, and its      *)
(* owner is a fixed attribute of the request that created it.              *)
(*                                                                         *)
(* Definitions named Mutant... are plausible bugs; no specification uses   *)
(* them.                                                                   *)
(***************************************************************************)
EXTENDS Naturals, SequencesExt

CONSTANTS
  JobID,      \* the UUIDs the upload handlers draw, one per accepted upload
  Client,     \* the client addresses the fairness cap tells apart
  NoOwner,    \* the owner "" of trusted, internal traffic
  OwnerIP,    \* OwnerIP[j] is the ownerIP argument Submit gets for job j
  MaxSize,    \* cfg.MaxQueueSize
  NoJob       \* no job at all: not an element of JobID

ASSUME QueueAssumption ==
  /\ MaxSize \in Nat
  /\ NoOwner \notin Client
  /\ OwnerIP \in [JobID -> Client \cup {NoOwner}]
  /\ NoJob \notin JobID

VARIABLES
  jobs,        \* q.jobs: the status of the published snapshot of each id
  jobChan,     \* q.jobChan: the buffered channel, head first
  queueOrder,  \* q.queueOrder: the ids GetPosition counts
  inflight,    \* q.inflight, a missing key being 0
  submitting,  \* the id whose Submit is between its two steps and holds mu
  worker,      \* where the worker goroutine is
  current,     \* the worker's private copy of the job it took
  cancelled,   \* ctx.Done() is closed
  deleting,    \* ids whose DeleteJob has removed the entry and not yet the order
  issued       \* ids ever submitted: a UUID is drawn once

queueVars == <<jobs, jobChan, queueOrder, inflight, submitting, worker, current,
               cancelled, deleting, issued>>

Terminal == {"done", "error"}
Status == {"queued", "processing"} \cup Terminal

(* Program points of the worker: at its select; holding a job received from*)
(* the channel; after removeFromOrder; inside processFunc; after the final *)
(* Store; returned.                                                        *)
WorkerPoint == {"select", "received", "removed", "processing", "stored", "exited"}

(* In jobs, "absent" means that jobs.Load finds nothing.                   *)
TypeOK ==
  /\ jobs \in [JobID -> Status \cup {"absent"}]
  /\ jobChan \in Seq(JobID)
  /\ queueOrder \in Seq(JobID)
  /\ inflight \in [Client -> Nat]
  /\ submitting \in JobID \cup {NoJob}
  /\ worker \in WorkerPoint
  /\ current \in JobID \cup {NoJob}
  /\ cancelled \in BOOLEAN
  /\ deleting \in SUBSET JobID
  /\ issued \in SUBSET JobID

-----------------------------------------------------------------------------
(* New                                                                     *)

MutantPerClientLimit == IF MaxSize < 2 THEN 2 ELSE MaxSize

(* A third of the queue, but at least 2.                                   *)
PerClientLimit == IF MaxSize \div 3 < 2 THEN 2 ELSE MaxSize \div 3

QueueInit ==
  /\ jobs = [j \in JobID |-> "absent"]
  /\ jobChan = <<>>
  /\ queueOrder = <<>>
  /\ inflight = [c \in Client |-> 0]
  /\ submitting = NoJob
  /\ worker = "select"
  /\ current = NoJob
  /\ cancelled = FALSE
  /\ deleting = {}
  /\ issued = {}

-----------------------------------------------------------------------------
(* Submit, called by the upload handlers                                   *)

MuFree == submitting = NoJob

MutantQueueFull == Len(jobChan) > MaxSize

QueueFull == Len(jobChan) >= MaxSize

ClientAtLimit(ip) == ip # NoOwner /\ inflight[ip] >= PerClientLimit

(* Submit refuses with ErrQueueFull and changes nothing.                   *)
SubmitRefuses(ip) == QueueFull \/ ClientAtLimit(ip)

MutantSubmitAdmit(j) ==
  /\ MuFree
  /\ j \notin issued
  /\ ~SubmitRefuses(OwnerIP[j])
  /\ jobs' = [jobs EXCEPT ![j] = "queued"]
  /\ queueOrder' = <<j>> \o queueOrder
  /\ inflight' = IF OwnerIP[j] = NoOwner
                 THEN inflight
                 ELSE [inflight EXCEPT ![OwnerIP[j]] = @ + 1]
  /\ submitting' = j
  /\ issued' = issued \cup {j}
  /\ UNCHANGED <<jobChan, worker, current, cancelled, deleting>>

(* Under mu: the two checks, the snapshot, the order, the counter.         *)
SubmitAdmit(j) ==
  /\ MuFree
  /\ j \notin issued
  /\ ~SubmitRefuses(OwnerIP[j])
  /\ jobs' = [jobs EXCEPT ![j] = "queued"]
  /\ queueOrder' = Append(queueOrder, j)
  /\ inflight' = IF OwnerIP[j] = NoOwner
                 THEN inflight
                 ELSE [inflight EXCEPT ![OwnerIP[j]] = @ + 1]
  /\ submitting' = j
  /\ issued' = issued \cup {j}
  /\ UNCHANGED <<jobChan, worker, current, cancelled, deleting>>

(* Still under mu: the send, which blocks while the buffer is full, then   *)
(* the unlock.  The position Submit returns is Len(queueOrder) here.       *)
SubmitSend ==
  /\ submitting # NoJob
  /\ Len(jobChan) < MaxSize
  /\ jobChan' = Append(jobChan, submitting)
  /\ submitting' = NoJob
  /\ UNCHANGED <<jobs, queueOrder, inflight, worker, current, cancelled,
                 deleting, issued>>

-----------------------------------------------------------------------------
(* The worker goroutine                                                    *)

(* The worker's private copy holds a job whose slot is not yet released.   *)
WorkerBusy == worker \in {"received", "removed", "processing", "stored"}

MutantWorkerReceive ==
  /\ worker = "select"
  /\ jobChan # <<>>
  /\ current' = Head(jobChan)
  /\ jobChan' = Tail(jobChan)
  /\ jobs' = [jobs EXCEPT ![Head(jobChan)] = "processing"]
  /\ worker' = "received"
  /\ UNCHANGED <<queueOrder, inflight, submitting, cancelled, deleting, issued>>

WorkerReceive ==
  /\ worker = "select"
  /\ jobChan # <<>>
  /\ current' = Head(jobChan)
  /\ jobChan' = Tail(jobChan)
  /\ worker' = "received"
  /\ UNCHANGED <<jobs, queueOrder, inflight, submitting, cancelled, deleting, issued>>

(* select may take ctx.Done() even when a job is ready.                    *)
WorkerExit ==
  /\ worker = "select"
  /\ cancelled
  /\ worker' = "exited"
  /\ UNCHANGED <<jobs, jobChan, queueOrder, inflight, submitting, current,
                 cancelled, deleting, issued>>

(* removeFromOrder takes mu.                                               *)
MutantWorkerDequeue ==
  /\ worker = "received"
  /\ MuFree
  /\ queueOrder' = Front(queueOrder)
  /\ worker' = "removed"
  /\ UNCHANGED <<jobs, jobChan, inflight, submitting, current, cancelled,
                 deleting, issued>>

WorkerDequeue ==
  /\ worker = "received"
  /\ MuFree
  /\ queueOrder' = RemoveFirst(queueOrder, current)
  /\ worker' = "removed"
  /\ UNCHANGED <<jobs, jobChan, inflight, submitting, current, cancelled,
                 deleting, issued>>

MutantWorkerPublish ==
  /\ worker = "removed"
  /\ worker' = "processing"
  /\ UNCHANGED <<jobs, jobChan, queueOrder, inflight, submitting, current,
                 cancelled, deleting, issued>>

WorkerPublish ==
  /\ worker = "removed"
  /\ jobs' = [jobs EXCEPT ![current] = "processing"]
  /\ worker' = "processing"
  /\ UNCHANGED <<jobChan, queueOrder, inflight, submitting, current, cancelled,
                 deleting, issued>>

(* What processFunc may do: fail (or be cancelled), return an output above *)
(* MaxOutputSize, or return an output within it.                           *)
Result == {"failed", "oversized", "converted"}

MutantFinalStatus(result) == result

MutantFinalStatusStuck(result) == IF result = "failed" THEN "processing" ELSE "done"

FinalStatus(result) == IF result = "converted" THEN "done" ELSE "error"

(* processFunc returns and the outcome is published.                       *)
WorkerStore(result) ==
  /\ worker = "processing"
  /\ jobs' = [jobs EXCEPT ![current] = FinalStatus(result)]
  /\ worker' = "stored"
  /\ UNCHANGED <<jobChan, queueOrder, inflight, submitting, current, cancelled,
                 deleting, issued>>

MutantReleased(n) == n

(* A counter at 1 or less is deleted from the map.                         *)
Released(n) == IF n <= 1 THEN 0 ELSE n - 1

(* releaseSlot takes mu unless the owner is "".                            *)
WorkerRelease ==
  /\ worker = "stored"
  /\ \/ /\ OwnerIP[current] = NoOwner
        /\ UNCHANGED inflight
     \/ /\ OwnerIP[current] # NoOwner
        /\ MuFree
        /\ inflight' = [inflight EXCEPT ![OwnerIP[current]] = Released(@)]
  /\ worker' = "select"
  /\ UNCHANGED <<jobs, jobChan, queueOrder, submitting, current, cancelled,
                 deleting, issued>>

(* main cancels the worker's context on its way out.                       *)
Cancel ==
  /\ ~cancelled
  /\ cancelled' = TRUE
  /\ UNCHANGED <<jobs, jobChan, queueOrder, inflight, submitting, worker,
                 current, deleting, issued>>

-----------------------------------------------------------------------------
(* DeleteJob.  Its callers, the cleaner and the goroutines the downloads   *)
(* start, hold a snapshot of a finished job; another of them may have      *)
(* deleted the entry meanwhile.                                            *)

MutantFinished(j) == j \in issued

Finished(j) == j \in issued /\ jobs[j] \notin {"queued", "processing"}

DeleteJobEntry(j) ==
  /\ Finished(j)
  /\ jobs' = [jobs EXCEPT ![j] = "absent"]
  /\ deleting' = deleting \cup {j}
  /\ UNCHANGED <<jobChan, queueOrder, inflight, submitting, worker, current,
                 cancelled, issued>>

(* removeFromOrder takes mu.                                               *)
DeleteJobOrder(j) ==
  /\ j \in deleting
  /\ MuFree
  /\ queueOrder' = RemoveFirst(queueOrder, j)
  /\ deleting' = deleting \ {j}
  /\ UNCHANGED <<jobs, jobChan, inflight, submitting, worker, current,
                 cancelled, issued>>

-----------------------------------------------------------------------------
WorkerStep ==
  \/ WorkerReceive
  \/ WorkerExit
  \/ WorkerDequeue
  \/ WorkerPublish
  \/ \E result \in Result : WorkerStore(result)
  \/ WorkerRelease

(* main waits for nobody after cancel(): the process may end here, whatever*)
(* the worker is doing, and then nothing happens any more.                 *)
Stopped == cancelled /\ UNCHANGED queueVars

QueueNext ==
  \/ \E j \in JobID : SubmitAdmit(j) \/ DeleteJobEntry(j) \/ DeleteJobOrder(j)
  \/ SubmitSend
  \/ WorkerStep
  \/ Cancel
  \/ Stopped

QueueSpec == QueueInit /\ [][QueueNext]_queueVars

(* The Go scheduler runs every runnable goroutine, and the converters      *)
(* return: every sandboxed command has a time limit.  Steps that take mu   *)
(* get strong fairness, because a sync.Mutex hands itself to a waiter that *)
(* has starved for a millisecond.  Nobody has to submit, delete or cancel; *)
(* and once main has cancelled the process ends at any point, so nothing   *)
(* is promised from then on.                                               *)
QueueFairness ==
  /\ WF_queueVars(~cancelled /\ SubmitSend)
  /\ WF_queueVars(~cancelled /\ WorkerReceive)
  /\ SF_queueVars(~cancelled /\ WorkerDequeue)
  /\ WF_queueVars(~cancelled /\ WorkerPublish)
  /\ WF_queueVars(~cancelled /\ \E result \in Result : WorkerStore(result))
  /\ SF_queueVars(~cancelled /\ WorkerRelease)

QueueFairSpec == QueueSpec /\ QueueFairness

-----------------------------------------------------------------------------
(* Safety                                                                  *)

(* The received job the worker has not yet taken out of the order, and the *)
(* job a Submit has put in the order and not yet in the channel.           *)
InHand == IF worker = "received" THEN <<current>> ELSE <<>>
BeingSent == IF submitting = NoJob THEN <<>> ELSE <<submitting>>

(* The two records of the waiting jobs, the channel the worker serves and  *)
(* the order the positions come from, agree: same jobs, same order, at any *)
(* point of any interleaving of Submit, the worker and DeleteJob.          *)
OrderMatchesChannel == queueOrder = InHand \o jobChan \o BeingSent

(* Submit never blocks on the channel while it holds mu, which would leave *)
(* the worker waiting for mu and Submit for the worker (queue.go:176).     *)
SendNeverBlocks == submitting # NoJob => Len(jobChan) < MaxSize

(* A snapshot that says queued or processing has somebody about to change  *)
(* it: no poller waits for a job that the queue has lost, and none is      *)
(* shown as waiting or running after it left.                              *)
NoJobStranded ==
  \A j \in JobID :
    /\ jobs[j] = "queued" <=> \/ j \in ToSet(queueOrder)
                              \/ worker = "removed" /\ current = j
    /\ jobs[j] = "processing" <=> worker = "processing" /\ current = j

(* The jobs from Submit to releaseSlot, and those of one client.           *)
Unreleased == ToSet(queueOrder) \cup (IF WorkerBusy THEN {current} ELSE {})
SlotHolders(ip) == {j \in Unreleased : OwnerIP[j] = ip}

(* A fairness slot is neither leaked nor returned twice: the counter of a  *)
(* client is the number of its jobs that hold a slot.                      *)
InflightExact == \A ip \in Client : inflight[ip] = Cardinality(SlotHolders(ip))

(* The comment at queue.go:88: "a single client cannot fill every slot and *)
(* starve everyone else".  When Submit refuses everybody because the       *)
(* channel is full, no single capped client owns all of it.                *)
NoClientFillsQueue ==
  \A ip \in Client :
    Len(jobChan) = MaxSize => \E i \in DOMAIN jobChan : OwnerIP[jobChan[i]] # ip

(* The same while a conversion runs, anybody's: a full channel stays full  *)
(* until the conversion ends, so that nobody else is let in meanwhile.     *)
NoClientStarvesOthers == worker = "processing" => NoClientFillsQueue

(* GetPosition                                                             *)
Position(j) == SelectInSeq(queueOrder, LAMBDA id : id = j)

(* The position a waiting client is told never gets worse.                 *)
PositionNeverGrows ==
  [][\A j \in JobID : Position(j) > 0 => Position(j)' <= Position(j)]_queueVars

-----------------------------------------------------------------------------
(* Liveness, under QueueFairSpec                                           *)

(* An accepted job, waiting or being converted, gets its outcome unless    *)
(* the server is shut down first: main does not wait for the worker.       *)
JobsFinish ==
  \A j \in JobID : jobs[j] \in {"queued", "processing"} ~> (jobs[j] \in Terminal \/ cancelled)

(* A client refused because of its own jobs is let in again later.         *)
SlotsComeBack ==
  \A ip \in Client : ClientAtLimit(ip) ~> (~ClientAtLimit(ip) \/ cancelled)

-----------------------------------------------------------------------------
(* The queue implements the FIFO line of FifoJobs.  The job the worker has *)
(* received still counts as waiting until it is published as processing,   *)
(* so that up to MaxSize + 1 jobs wait.                                    *)
Fifo == INSTANCE FifoJobs WITH
  Capacity <- MaxSize + 1,
  waiting  <- (IF worker \in {"received", "removed"} THEN <<current>> ELSE <<>>)
              \o jobChan \o BeingSent,
  serving  <- IF worker = "processing" THEN current ELSE NoJob,
  status   <- [j \in JobID |->
                 IF jobs[j] # "absent" THEN jobs[j]
                 ELSE IF j \in issued THEN "forgotten" ELSE "unknown"]

(* Every run of the queue is a run of the abstract line.                   *)
ImplementsFifo == Fifo!Spec
=============================================================================
